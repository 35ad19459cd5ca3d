------------------------------ MODULE IOPipeline ------------------------------
(***************************************************************************)
(* What a Dynamo worker promises about its transaction slots, whatever the *)
(* ring buffer, the counters and the threads that realise it: a slot is    *)
(* handed to the operating system only while nothing is outstanding on it, *)
(* it comes back at most once per request, no request is issued once the   *)
(* worker drains, and the worker is stopped (its buffers and completion    *)
(* queue may then be freed) only when nothing is outstanding at all.       *)
(***************************************************************************)
CONSTANT Slot       \* the transaction slots of the worker

VARIABLES
    busy,           \* the slots that count as outstanding: with a request, or lost
    stage           \* "stopped", "running" or "draining"

vars == <<busy, stage>>

Init == busy = {} /\ stage = "stopped"

Start == /\ stage = "stopped"
         /\ stage' = "running"
         /\ UNCHANGED busy

Issue(s) == /\ stage = "running"
            /\ s \notin busy
            /\ busy' = busy \cup {s}
            /\ UNCHANGED stage

Finish(s) == /\ stage \in {"running", "draining"}
             /\ s \in busy
             /\ busy' = busy \ {s}
             /\ UNCHANGED stage

Drain == /\ stage = "running"
         /\ stage' = "draining"
         /\ UNCHANGED busy

\* A worker whose targets failed to open stops without draining: it never
\* issued anything.
Halt == /\ stage \in {"running", "draining"}
        /\ busy = {}
        /\ stage' = "stopped"
        /\ UNCHANGED busy

Next == \/ Start \/ Drain \/ Halt
        \/ \E s \in Slot : Issue(s) \/ Finish(s)

Spec == Init /\ [][Next]_vars
===============================================================================
