---------------------------- MODULE ByteStream ----------------------------
(***************************************************************************)
(* What ql-tty2tcp promises to the two ends it bridges: in each direction  *)
(* a bounded first-in first-out stream of bytes.  A byte that was taken    *)
(* from one end is given to the other in order, once, or is dropped        *)
(* together with everything else that is buffered when the session ends.   *)
(* The bytes of a direction are numbered modulo its capacity plus one.     *)
(***************************************************************************)
EXTENDS Naturals, Sequences

CONSTANTS Dirs,      \* the two directions
          Capacity   \* Capacity[d]: bytes direction d can hold

VARIABLES buf,       \* buf[d]: the bytes taken and not yet given
          given      \* given[d]: the number of the next byte to give

svars == <<buf, given>>

\* n consecutive byte numbers of direction d from t on
Bytes(d, t, n) == [k \in 1..n |-> (t + k - 1) % (Capacity[d] + 1)]

StreamInit == buf = [d \in Dirs |-> <<>>] /\ given = [d \in Dirs |-> 0]

Take(d, n) ==
  /\ n > 0
  /\ Len(buf[d]) + n <= Capacity[d]
  /\ buf' = [buf EXCEPT ![d] = @ \o Bytes(d, given[d] + Len(@), n)]
  /\ UNCHANGED given

Give(d, n) ==
  /\ n > 0
  /\ n <= Len(buf[d])
  /\ buf' = [buf EXCEPT ![d] = SubSeq(@, n + 1, Len(@))]
  /\ given' = [given EXCEPT ![d] = (@ + n) % (Capacity[d] + 1)]

\* The session ends: both directions start again with empty buffers.
Drop == buf' = [d \in Dirs |-> <<>>] /\ given' = [d \in Dirs |-> 0]

StreamNext ==
  Drop \/ \E d \in Dirs : \E n \in 1..Capacity[d] : Take(d, n) \/ Give(d, n)

StreamSpec == StreamInit /\ [][StreamNext]_svars
=============================================================================
