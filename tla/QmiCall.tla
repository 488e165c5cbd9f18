------------------------------ MODULE QmiCall ------------------------------
(***************************************************************************)
(* What QmiThreadSendQMITimeout promises its caller: calls are numbered,   *)
(* one at a time, and each ends with the answer to that call, with an      *)
(* unsolicited message that carried its transaction id, or with nothing.   *)
(***************************************************************************)
EXTENDS Integers

VARIABLES
  call,     \* "out" or "in"
  number,   \* calls begun
  result    \* what the last call returned

vars == <<call, number, result>>

Nothing == [kind |-> "none", n |-> 0]
Unsolicited == [kind |-> "ind", n |-> 0]
AnswerTo(n) == [kind |-> "reply", n |-> n]

Init == call = "out" /\ number = 0 /\ result = Nothing

Begin ==
  /\ call = "out"
  /\ call' = "in" /\ number' = number + 1 /\ result' = Nothing

End ==
  /\ call = "in"
  /\ call' = "out"
  /\ result' \in {Nothing, Unsolicited, AnswerTo(number)}
  /\ UNCHANGED number

Next == Begin \/ End

SafeSpec == Init /\ [][Next]_vars

\* Every call returns.
Spec == SafeSpec /\ WF_vars(End)
=============================================================================
