------------------------------ MODULE Tty2Tcp ------------------------------
(***************************************************************************)
(* ql-tty2tcp: the bridge between two byte streams (a TCP or local server, *)
(* a serial port, a pty, a TCP or local client).  swap_sources opens the   *)
(* two ends, swap_fds copies bytes in both directions through two ring     *)
(* buffers (struct __kfifo) with free-running indices until an end hangs   *)
(* up or a signal asks to quit, then both ends are closed and opened       *)
(* again.                                                                  *)
(*                                                                         *)
(* Fifo d holds what was read from end d and not yet written to end 1 - d. *)
(* The k-th byte read from end d in a session is the number k % Tags(d), so *)
(* that loss, duplication, reordering and stale data are visible while the *)
(* streams are unbounded; the receiver is a checker (given).               *)
(***************************************************************************)
EXTENDS Integers, Sequences, FiniteSets, FiniteSetsExt

CONSTANTS Sources,  \* Sources[i]: what end i is
          Size,     \* fifo_sizes: bytes of the ring buffers (512*1024 by default)
          W,        \* bits of the indices in and out (32 in the code)
          Std,      \* descriptors open when the program starts
          MaxFd     \* the largest descriptor the process may have

Ends == {0, 1}

\* The powers of two up to the number of values that an index may have.
Two[b \in 0..W] == IF b = 0 THEN 1 ELSE 2 * Two[b - 1]
Wrap == Two[W]
Word == 0..Wrap - 1

Kinds == {"server", "pts", "serial", "tcp", "local", "dup"}

ASSUME ConstAssumption ==
  /\ Sources \in [Ends -> Kinds]
  /\ W \in Nat /\ MaxFd \in Nat
  /\ Size \in [Ends -> 2..Wrap - 1]
  /\ Std \subseteq 0..MaxFd

\* Kinds whose open function has an error return that does not close the
\* descriptor it already has: ptsname_r, symlink, grantpt and unlockpt in
\* open_pts, SO_BINDTODEVICE and bind in connect_tcp_server.
Leaky == {"pts", "tcp"}

Stale == -1      \* a slot of the ring whose byte was written out
Corrupt == -1    \* the receiver got a byte it did not expect
NoFd == -1

VARIABLES
  pc,           \* where the thread of swap_sources is
  ix,           \* the loop variable: i of swap_sources, ne of swap_fds
  swapfds, serverfds,
  s_quit_flag,  \* 0, 1 after a signal, 2 when the thread has ended
  fifo,         \* swapfifos
  revents,      \* revents[i]: what poll reported for end i
  fds,          \* descriptors open in the process
  lost,         \* descriptors dropped inside a failing open function
  taken, given  \* number of the next byte to read from / due at the other end

vars == <<pc, ix, swapfds, serverfds, s_quit_flag, fifo, revents, fds, lost,
          taken, given>>
----------------------------------------------------------------------------
(* The bytes of direction d: more numbers than a ring holds.               *)

Tags(d) == Size[d] + 1
Plus(d, t, n) == (t + n) % Tags(d)
Run(d, t, n) == [k \in 1..n |-> Plus(d, t, k - 1)]
----------------------------------------------------------------------------
(* struct __kfifo: unsigned indices that wrap at 2^W, masked on access.    *)

Unsigned(n) == n % Wrap
Bit(n, b) == (n \div Two[b]) % 2
\* The bits that m and n have in common below bit b, added up.
AndBits(m, n) ==
  LET low[b \in 0..W] ==
        IF b = 0 THEN 0
        ELSE low[b - 1] + IF Bit(m, b - 1) = 1 /\ Bit(n, b - 1) = 1 THEN Two[b - 1] ELSE 0
  IN  low[W]
AndTable == [m \in Word |-> [n \in Word |-> AndBits(m, n)]]
And(m, n) == AndTable[m][n]

\* __kfifo_alloc takes the size as it is, a power of two or not.
kfifo_alloc(d) == [in |-> 0, out |-> 0, mask |-> Size[d] - 1,
                   data |-> [k \in 0..Size[d]-1 |-> Stale]]

InOff(f) == And(f.in, f.mask)
OutOff(f) == And(f.out, f.mask)
Fill(f) == Unsigned(f.in - f.out)

kfifo_used(f) == Min({Fill(f), f.mask + 1 - OutOff(f)})
\* Mutant: the unread bytes are not counted.
UnusedIgnoresFill(f) == f.mask + 1 - InOff(f)

kfifo_unused(f) ==
  Min({Unsigned(f.mask + 1 - Fill(f)), Unsigned(f.mask + 1 - InOff(f))})

\* read stores the bytes b at the free end; __kfifo_in.
kfifo_in(f, b) ==
  [f EXCEPT !.in = Unsigned(@ + Len(b)),
            !.data = [k \in DOMAIN @ |->
                        IF k \in InOff(f)..InOff(f) + Len(b) - 1
                        THEN b[k - InOff(f) + 1] ELSE @[k]]]

\* __kfifo_out after n bytes were written; their slots hold nothing of use.
kfifo_out(f, n) ==
  [f EXCEPT !.out = Unsigned(@ + n),
            !.data = [k \in DOMAIN @ |->
                        IF \E j \in 0..n-1 : k = And(Unsigned(f.out + j), f.mask)
                        THEN Stale ELSE @[k]]]

kfifo_reset(f) == [f EXCEPT !.in = 0, !.out = 0]

\* Mutant: the beginning of the ring is appended whether or not it wraps.
ChunkAlwaysWraps(f) ==
  [k \in 1..kfifo_used(f) |-> f.data[OutOff(f) + k - 1]]
    \o [k \in 1..InOff(f) |-> f.data[k - 1]]

\* What swap_fds hands to write: the bytes up to the end of the ring and,
\* copied behind them into pwrap, the ones at its beginning.
Chunk(f) ==
  LET first == [k \in 1..kfifo_used(f) |-> f.data[OutOff(f) + k - 1]]
      wrap  == [k \in 1..InOff(f) |-> f.data[k - 1]]
  IN  IF 0 < InOff(f) /\ InOff(f) < OutOff(f) THEN first \o wrap ELSE first

\* The bytes between the indices, oldest first.
Window(f) == [k \in 1..Fill(f) |-> f.data[And(Unsigned(f.out + k - 1), f.mask)]]
----------------------------------------------------------------------------
Init ==
  /\ pc = "top" /\ ix = 0
  /\ swapfds = [i \in Ends |-> NoFd] /\ serverfds = [i \in Ends |-> NoFd]
  /\ s_quit_flag = 0
  /\ fifo = [i \in Ends |-> kfifo_alloc(i)]
  /\ revents = [i \in Ends |-> {}]
  /\ fds = Std /\ lost = {}
  /\ taken = [i \in Ends |-> 0] /\ given = [i \in Ends |-> 0]

Goto(p, i) == pc' = p /\ ix' = i

FreeFds == (0..MaxFd) \ fds
NewFd == Min(FreeFds)       \* the kernel gives the lowest free descriptor
----------------------------------------------------------------------------
(* swap_sources                                                            *)

\* Mutant: the quit flag is not looked at between sessions.
TopForever ==
  /\ pc = "top"
  /\ swapfds' = [i \in Ends |-> NoFd]
  /\ Goto("open", 0)
  /\ UNCHANGED <<serverfds, s_quit_flag, fifo, revents, fds, lost, taken, given>>

\* The loop starts a session.
Top ==
  /\ pc = "top" /\ s_quit_flag = 0
  /\ swapfds' = [i \in Ends |-> NoFd]
  /\ Goto("open", 0)
  /\ UNCHANGED <<serverfds, s_quit_flag, fifo, revents, fds, lost, taken, given>>

\* After the loop: the servers are closed and main sees s_quit_flag = 2.
Leave ==
  /\ pc = "top" /\ s_quit_flag # 0
  /\ fds' = fds \ {serverfds[i] : i \in {j \in Ends : serverfds[j] > 0}}
  /\ s_quit_flag' = 2
  /\ Goto("done", 0)
  /\ UNCHANGED <<swapfds, serverfds, fifo, revents, lost, taken, given>>

\* End i is open as fd: open the next one, or swap when both are positive.
Opened(i, fd) ==
  /\ swapfds' = [swapfds EXCEPT ![i] = fd]
  /\ IF i = 0 THEN Goto("open", 1)
     ELSE IF swapfds[0] > 0 /\ fd > 0 THEN Goto("poll", 0)
     ELSE Goto("close", 0)

\* create_socket_server, once per end; the socket is kept across sessions.
Listen(i) ==
  /\ pc = "open" /\ ix = i /\ Sources[i] = "server" /\ serverfds[i] < 0
  /\ FreeFds # {}
  /\ serverfds' = [serverfds EXCEPT ![i] = NewFd]
  /\ fds' = fds \cup {NewFd}
  /\ IF NewFd > 0 THEN Goto("accept", i) ELSE Goto("close", 0)
  /\ UNCHANGED <<swapfds, s_quit_flag, fifo, revents, lost, taken, given>>

\* The server of an earlier session is used again.
ListenAgain(i) ==
  /\ pc = "open" /\ ix = i /\ Sources[i] = "server" /\ serverfds[i] >= 0
  /\ IF serverfds[i] > 0 THEN Goto("accept", i) ELSE Goto("close", 0)
  /\ UNCHANGED <<swapfds, serverfds, s_quit_flag, fifo, revents, fds, lost,
                 taken, given>>

\* wait_client_connect: accept blocks until a client is there; the handlers
\* of ql_sigaction restart it.
Accept(i) ==
  /\ pc = "accept" /\ ix = i /\ FreeFds # {}
  /\ Opened(i, NewFd)
  /\ fds' = fds \cup {NewFd}
  /\ UNCHANGED <<serverfds, s_quit_flag, fifo, revents, lost, taken, given>>

\* open_serial, open_pts, connect_tcp_server, connect_local_server, dup.
Open(i) ==
  /\ pc = "open" /\ ix = i /\ Sources[i] # "server" /\ FreeFds # {}
  /\ Opened(i, NewFd)
  /\ fds' = fds \cup {NewFd}
  /\ UNCHANGED <<serverfds, s_quit_flag, fifo, revents, lost, taken, given>>

\* An open function, create_socket_server or accept returns -1.
OpenFails(i) ==
  /\ ix = i
  /\ \/ pc = "accept"
     \/ pc = "open" /\ (Sources[i] = "server" => serverfds[i] < 0)
  /\ Goto("close", 0)
  /\ UNCHANGED <<swapfds, serverfds, s_quit_flag, fifo, revents, fds, lost,
                 taken, given>>

\* It returns -1 after it has got a descriptor that it does not close.
OpenLeaks(i) ==
  /\ pc = "open" /\ ix = i /\ Sources[i] \in Leaky /\ FreeFds # {}
  /\ fds' = fds \cup {NewFd} /\ lost' = lost \cup {NewFd}
  /\ Goto("close", 0)
  /\ UNCHANGED <<swapfds, serverfds, s_quit_flag, fifo, revents, taken, given>>

\* Mutant: the ends are closed only after a session.
CloseAfterSession ==
  /\ pc = "close"
  /\ fds' = IF \A i \in Ends : swapfds[i] > 0
            THEN fds \ {swapfds[i] : i \in Ends} ELSE fds
  /\ IF s_quit_flag = 0 THEN Goto("sleep", 0) ELSE Goto("top", 0)
  /\ UNCHANGED <<swapfds, serverfds, s_quit_flag, fifo, revents, lost, taken, given>>

\* Both ends are shut down and closed.
CloseBoth ==
  /\ pc = "close"
  /\ fds' = fds \ {swapfds[i] : i \in {j \in Ends : swapfds[j] > 0}}
  /\ IF s_quit_flag = 0 THEN Goto("sleep", 0) ELSE Goto("top", 0)
  /\ UNCHANGED <<swapfds, serverfds, s_quit_flag, fifo, revents, lost, taken, given>>

Sleep ==
  /\ pc = "sleep"
  /\ Goto("top", 0)
  /\ UNCHANGED <<swapfds, serverfds, s_quit_flag, fifo, revents, fds, lost,
                 taken, given>>
----------------------------------------------------------------------------
(* swap_fds                                                                *)

\* __swap_fds_exit: both ring buffers are freed, whatever they hold.
SwapEnds ==
  /\ fifo' = [i \in Ends |-> kfifo_alloc(i)]
  /\ revents' = [i \in Ends |-> {}]
  /\ taken' = [i \in Ends |-> 0] /\ given' = [i \in Ends |-> 0]
  /\ Goto("close", 0)
  /\ UNCHANGED <<swapfds, serverfds, s_quit_flag, fds, lost>>

\* Mutant: POLLOUT is asked for when the end's own fifo holds something.
EventsSwapped(i) == {e \in {"in", "out"} :
                       \/ e = "in" /\ kfifo_unused(fifo[i]) > 0
                       \/ e = "out" /\ kfifo_used(fifo[i]) > 0}

\* pollfds[i].events: read end i while its fifo has room, write to it while
\* the other fifo holds something.
Events(i) == {e \in {"in", "out"} :
                \/ e = "in" /\ kfifo_unused(fifo[i]) > 0
                \/ e = "out" /\ kfifo_used(fifo[1 - i]) > 0}

\* poll returns what it was asked for, or an error or hangup unasked, which
\* the loop looks at before anything else reported with it.
Poll ==
  /\ pc = "poll" /\ s_quit_flag = 0
  /\ \E r0 \in (SUBSET Events(0)) \cup {{"hup"}}, r1 \in (SUBSET Events(1)) \cup {{"hup"}} :
       /\ r0 \cup r1 # {}
       /\ revents' = [i \in Ends |-> IF i = 0 THEN r0 ELSE r1]
  /\ Goto("in", 0)
  /\ UNCHANGED <<swapfds, serverfds, s_quit_flag, fifo, fds, lost, taken, given>>

\* The quit flag is seen before or after poll, or poll itself fails.
PollEnds == pc = "poll" /\ SwapEnds

Hup(i) == pc = "in" /\ ix = i /\ "hup" \in revents[i] /\ SwapEnds

\* read returns 0 (end of file) or fails.
ReadEnds(i) ==
  /\ pc = "in" /\ ix = i /\ "in" \in revents[i]
  /\ SwapEnds

\* read fills n bytes; if that is all the space up to the end of the ring, a
\* second read may fill m more at its beginning, and its failure is ignored.
Read(i) ==
  /\ pc = "in" /\ ix = i /\ "in" \in revents[i]
  /\ \E n \in 1..kfifo_unused(fifo[i]) :
       LET f == kfifo_in(fifo[i], Run(i, taken[i], n))
           more == IF n = kfifo_unused(fifo[i]) THEN kfifo_unused(f) ELSE 0
       IN  \E m \in 0..more :
             /\ fifo' = [fifo EXCEPT ![i] =
                           kfifo_in(f, Run(i, taken[i] + n, m))]
             /\ taken' = [taken EXCEPT ![i] = Plus(i, @, n + m)]
  /\ Goto("out", i)
  /\ UNCHANGED <<swapfds, serverfds, s_quit_flag, revents, fds, lost, given>>

NoRead(i) ==
  /\ pc = "in" /\ ix = i /\ revents[i] \cap {"in", "hup"} = {}
  /\ Goto("out", i)
  /\ UNCHANGED <<swapfds, serverfds, s_quit_flag, fifo, revents, fds, lost,
                 taken, given>>

\* Mutant: the loop runs once too often.
NextEndOffByOne(i) ==
  /\ revents' = [revents EXCEPT ![i] = {}]
  /\ IF i <= 1 THEN Goto("in", i + 1) ELSE Goto("poll", 0)

\* The end of the for loop's body.
NextEnd(i) ==
  /\ revents' = [revents EXCEPT ![i] = {}]
  /\ IF i = 0 THEN Goto("in", 1) ELSE Goto("poll", 0)

WriteEnds(i) ==
  /\ pc = "out" /\ ix = i /\ "out" \in revents[i]
  /\ SwapEnds

\* write takes a prefix of the chunk of the other end's fifo; a fifo that is
\* empty now is reset.
Write(i) ==
  /\ pc = "out" /\ ix = i /\ "out" \in revents[i]
  /\ LET d == 1 - i
         c == Chunk(fifo[d])
     IN  \E n \in 1..Len(c) :
           LET f == kfifo_out(fifo[d], n)
           IN  /\ fifo' = [fifo EXCEPT ![d] =
                             IF kfifo_used(f) = 0 THEN kfifo_reset(f) ELSE f]
               /\ given' = [given EXCEPT ![d] =
                              IF SubSeq(c, 1, n) = Run(d, @, n)
                              THEN Plus(d, @, n) ELSE Corrupt]
  /\ NextEnd(i)
  /\ UNCHANGED <<swapfds, serverfds, s_quit_flag, fds, lost, taken>>

NoWrite(i) ==
  /\ pc = "out" /\ ix = i /\ "out" \notin revents[i]
  /\ NextEnd(i)
  /\ UNCHANGED <<swapfds, serverfds, s_quit_flag, fifo, fds, lost, taken, given>>
----------------------------------------------------------------------------
\* ql_sigaction: SIGTERM, SIGHUP or SIGINT.
Signal ==
  /\ s_quit_flag = 0
  /\ s_quit_flag' = 1
  /\ UNCHANGED <<pc, ix, swapfds, serverfds, fifo, revents, fds, lost, taken, given>>

\* main leaves its loop when the flag is 2, and the process with it.
Exited == pc = "done" /\ UNCHANGED vars

Thread ==
  \/ Top \/ Leave \/ CloseBoth \/ Sleep \/ Poll \/ PollEnds
  \/ \E i \in Ends :
       \/ Listen(i) \/ ListenAgain(i) \/ Accept(i) \/ Open(i) \/ OpenFails(i)
       \/ OpenLeaks(i) \/ Hup(i) \/ ReadEnds(i) \/ Read(i) \/ NoRead(i)
       \/ WriteEnds(i) \/ Write(i) \/ NoWrite(i)

Next == Thread \/ Signal \/ Exited

Spec == Init /\ [][Next]_vars

\* A step that waits for nobody: not accept, and poll only to see the flag.
Runs == Thread /\ pc # "accept" /\ (pc = "poll" => s_quit_flag # 0)

\* The thread runs when it can, and end 0 keeps becoming writable while the
\* bridge polls.  Nothing is assumed of end 1.
FairSpec ==
  /\ Spec
  /\ WF_vars(Runs)
  /\ SF_vars(Poll /\ "out" \in revents'[0])
----------------------------------------------------------------------------
Swapping == {"poll", "in", "out"}

Fifos(d) == [in : Word, out : Word, mask : {Size[d] - 1},
             data : [0..Size[d]-1 -> 0..Size[d] \cup {Stale}]]

\* Types; the indices of swapfifos are W-bit unsigned integers, and a
\* session runs on two positive descriptors that are open.
TypeOK ==
  /\ pc \in {"top", "open", "accept", "close", "sleep", "done"} \cup Swapping
  /\ ix \in Ends
  /\ swapfds \in [Ends -> NoFd..MaxFd]
  /\ serverfds \in [Ends -> NoFd..MaxFd]
  /\ s_quit_flag \in 0..2
  /\ DOMAIN fifo = Ends /\ DOMAIN taken = Ends /\ DOMAIN given = Ends
  /\ \A d \in Ends : /\ fifo[d] \in Fifos(d)
                     /\ taken[d] \in 0..Size[d]
                     /\ given[d] \in 0..Size[d] \cup {Corrupt}
  /\ revents \in [Ends -> SUBSET {"in", "out", "hup"}]
  /\ fds \subseteq 0..MaxFd /\ lost \subseteq fds
  /\ pc \in Swapping => \A i \in Ends : swapfds[i] > 0 /\ swapfds[i] \in fds

\* __kfifo_alloc: "our 'let the indices wrap' technique" gives every receiver
\* the bytes it is due, in order, whatever size is asked for.
NothingCorrupted == \A d \in Ends : given[d] # Corrupt

\* struct __kfifo with wrapping indices: what lies between out and in is
\* exactly what was read from the one end and not yet written to the other,
\* in order, also after the indices wrapped, after a wrapped read, after a
\* write from pwrap and after a reset; no write ever sent anything else.
BytesInOrder ==
  \A d \in Ends :
    /\ given[d] # Corrupt
    /\ Fill(fifo[d]) <= Size[d]
    /\ taken[d] = Plus(d, given[d], Fill(fifo[d]))
    /\ Window(fifo[d]) = Run(d, given[d], Fill(fifo[d]))

\* swap_sources: between two sessions nothing is open but what was open at
\* the start, the servers, and what a failing open function lost, however
\* many sessions were opened, half opened or hung up.
NoFdLeak ==
  pc = "sleep" => fds = Std \cup lost \cup ({serverfds[i] : i \in Ends} \ {NoFd})

\* swap_fds is a pair of bounded FIFO streams.
Stream == INSTANCE ByteStream WITH
  Dirs <- Ends, Capacity <- Size, buf <- [d \in Ends |-> Window(fifo[d])]

ImplementsStream == Stream!StreamSpec

\* swap_fds: an end 1 that takes no bytes, and so fills fifo 0, does not stop
\* the other direction: what was read from end 1 goes on being written to
\* end 0 while the session lasts.
NoStall ==
  \A t \in 0..Size[1] :
    (pc \in Swapping /\ given[1] = t /\ Fill(fifo[1]) > 0)
      ~> (pc \notin Swapping \/ given[1] # t)

\* ql_sigaction: after a signal the thread ends and with it the process,
\* unless it waits in accept for a client.
QuitEnds == s_quit_flag = 1 ~> (pc = "done" \/ pc = "accept")
=============================================================================
