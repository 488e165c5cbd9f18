---------------------------- MODULE RadiusCalls ----------------------------
(***************************************************************************)
(* What the RADIUS client promises to the hotspot: a request that was      *)
(* accepted gets exactly one callback, with the answer to this request or  *)
(* with no answer, and it gets it eventually.                              *)
(***************************************************************************)
CONSTANT Req        \* requests, in the order in which they are made

VARIABLE call       \* what became of each request

Outcomes == {"none", "pending", "refused", "answered", "gaveup"}

Init == call = [r \in Req |-> "none"]

Accept(r) == call[r] = "none"    /\ call' = [call EXCEPT ![r] = "pending"]
Refuse(r) == call[r] = "none"    /\ call' = [call EXCEPT ![r] = "refused"]
Answer(r) == call[r] = "pending" /\ call' = [call EXCEPT ![r] = "answered"]
GiveUp(r) == call[r] = "pending" /\ call' = [call EXCEPT ![r] = "gaveup"]

Next == \E r \in Req : Accept(r) \/ Refuse(r) \/ Answer(r) \/ GiveUp(r)

Spec == Init /\ [][Next]_call /\ \A r \in Req : WF_call(Answer(r) \/ GiveUp(r))
=============================================================================
