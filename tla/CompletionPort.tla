---------------------------- MODULE CompletionPort ----------------------------
(***************************************************************************)
(* What a completion queue promises the thread that uses it: a request     *)
(* that was accepted is performed, and its completion is handed out once.  *)
(* IOCompletionQ.cpp imitates the completion ports of Windows with it.     *)
(***************************************************************************)
CONSTANT Request

VARIABLE state  \* of each request: "idle", "pending" or "finished"

Init == state = [r \in Request |-> "idle"]

Move(r, from, to) == /\ state[r] = from
                     /\ state' = [state EXCEPT ![r] = to]

Accept(r) == Move(r, "idle", "pending")

\* Several requests may finish before the queue is looked at.
Finish(r) == Move(r, "pending", "finished")

HandOut(r) == Move(r, "finished", "idle")

Next == \E r \in Request : Accept(r) \/ Finish(r) \/ HandOut(r)

Spec == Init /\ [][Next]_state

FairSpec == /\ Spec
            /\ \A r \in Request : WF_state(Finish(r)) /\ WF_state(HandOut(r))
===============================================================================
