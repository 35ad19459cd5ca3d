------------------------------- MODULE GruntIO --------------------------------
(***************************************************************************)
(* One Dynamo worker ("grunt") performing I/O: the thread of IOGrunt.cpp   *)
(* that opens its targets (Open_Targets), cycles transaction slots through *)
(* the ring of available slots (Do_IOs), processes completions             *)
(* (Complete_IO, Record_IO, Do_Partial_IO) and drains, together with the   *)
(* commands the manager thread applies to it (Start_Test, Begin_IO,        *)
(* Record_On, Record_Off, Stop_Test, Wait_For_Stop).                       *)
(*                                                                         *)
(* A step of the thread reads the shared grunt_state at most once, so      *)
(* every interleaving of the manager's writes with those reads is a        *)
(* behaviour.  Times, sizes and latencies are abstracted: a start time is  *)
(* the fact that one was taken, and the result counters are the set of     *)
(* counters the last step bumped.                                          *)
(***************************************************************************)
EXTENDS Integers, FiniteSets

CONSTANTS
    Target,         \* targets[0 .. target_count-1]
    N,              \* cur_trans_slots: the sum of the targets' queue depths
    TargetOf,       \* trans_slots[i].target_id, fixed when the test starts
    ConnRate,       \* the targets with spec.test_connection_rate
    TransPerConn,   \* spec.trans_per_conn of each target
    Reply,          \* the values of (reply ? 1 : 0) the access specification has
    Delays,         \* whether a burst may be preceded by a transfer delay
    Opened,         \* what Target::Open may return
    Result,         \* what Target::Read and Target::Write may return
    Ending,         \* how a queued request may end
    PartialResult,  \* what the request for the rest of a partial one returns
    Platform        \* whose completion queue: "windows", "posix" or "libaio"

Slot == 0 .. N - 1

ASSUME SlotAssumption ==
    /\ N \in Nat \ {0}
    /\ TargetOf \in [Slot -> Target]

ASSUME SpecAssumption ==
    /\ ConnRate \subseteq Target
    /\ TransPerConn \in [Target -> Nat]
    /\ Reply \subseteq {0, 1}
    /\ Delays \in BOOLEAN
    /\ Opened \subseteq BOOLEAN
    /\ Result \subseteq {"pending", "success", "error", "retry"}
    /\ Ending \subseteq {"full", "partial", "abort"}
    /\ PartialResult \subseteq {"pending", "error"}
    /\ Platform \in {"windows", "posix", "libaio"}

VARIABLES
    cmd,                   \* where the manager is in START, BEGIN_IO, ..., STOP
    grunt_state,           \* volatile TestState, written by the manager
    not_ready,             \* volatile: TRUE while the manager has to wait
    critical_error,        \* a target could not be opened
    pc,                    \* where the grunt thread is, "none" when there is none
    queue, head, tail,     \* available_trans_queue, available_head, available_tail
    remaining_requests,    \* of each transaction slot
    remaining_replies,
    start_IO,              \* TRUE: the slot's I/O began while recording
    start_transaction,     \* TRUE: the slot's transaction has a start time
    io,                    \* where the slot's asynchronous request is
    outstanding_ios,       \* of the grunt
    target_ios,            \* targets[t]->outstanding_ios
    is_closing,            \* targets[t]->is_closing
    trans_left,            \* targets[t]->trans_left_in_conn
    open,                  \* whether the target's device or socket is open
    ramp_up_ios_pending,
    effect,                \* the results the last step of the thread wrote
    sampled                \* an I/O was counted since Record_On

ring   == <<queue, head, tail>>
trans  == <<remaining_requests, remaining_replies, start_IO, start_transaction>>
conn   == <<is_closing, trans_left, open>>
counts == <<outstanding_ios, target_ios, ramp_up_ios_pending>>
shared == <<cmd, grunt_state, not_ready, critical_error>>
vars   == <<shared, pc, ring, trans, io, conn, counts, effect, sampled>>

\* The slots that are counted as outstanding, the lost ones included.
Busy      == {s \in Slot : io[s] # "none"}
BusyOn(t) == {s \in Busy : TargetOf[s] = t}
HeadSlot  == queue[head]
NoneAvailable == head = tail
Recording == grunt_state = "TestRecording"

Wrap(i) == IF i > N THEN 0 ELSE i

\* The positions of the ring that hold an available slot.
Occupied == IF head <= tail THEN head .. tail - 1
            ELSE (head .. N) \cup (0 .. tail - 1)

-------------------------------------------------------------------------------
Init ==
    /\ cmd = "idle" /\ grunt_state = "TestIdle"
    /\ not_ready = FALSE /\ critical_error = FALSE
    /\ pc = "none"
    /\ queue = [i \in 0 .. N |-> IF i < N THEN i ELSE 0]
    /\ head = 0 /\ tail = N
    /\ remaining_requests = [s \in Slot |-> 0]
    /\ remaining_replies = [s \in Slot |-> 0]
    /\ start_IO = [s \in Slot |-> FALSE]
    /\ start_transaction = [s \in Slot |-> FALSE]
    /\ io = [s \in Slot |-> "none"]
    /\ outstanding_ios = 0
    /\ target_ios = [t \in Target |-> 0]
    /\ is_closing = [t \in Target |-> FALSE]
    /\ trans_left = [t \in Target |-> 0]
    /\ open = [t \in Target |-> FALSE]
    /\ ramp_up_ios_pending = 0
    /\ effect = {}
    /\ sampled = FALSE

-------------------------------------------------------------------------------
(* Moving slots through the ring. *)

\* A slot is put on the available queue.
PutBack(s) ==
    /\ queue' = [queue EXCEPT ![tail] = s]
    /\ tail' = Wrap(tail + 1)
    /\ UNCHANGED head

TakeHead ==
    /\ head' = Wrap(head + 1)
    /\ UNCHANGED <<queue, tail>>

Mutant_Rotate == TakeHead

\* The slot at the head goes to the tail.
Rotate ==
    /\ queue' = [queue EXCEPT ![tail] = HeadSlot]
    /\ tail' = Wrap(tail + 1)
    /\ head' = Wrap(head + 1)

(* Completions; pending is ramp_up_ios_pending on entry of Record_IO. *)

Counted(s, pending) == start_IO[s] /\ pending <= 0 /\ Recording

\* The counters a counted I/O bumps; its transaction may be complete with it.
Results(s, ok) ==
    {IF ok THEN "io" ELSE "error"}
    \cup (IF start_transaction[s] /\ remaining_requests[s] + remaining_replies[s] = 1
          THEN {"transaction"} ELSE {})

PendingAfter(s, pending) ==
    IF ~Counted(s, pending) /\ pending > 0 THEN pending - 1 ELSE pending

Mutant_ClockStarts(s, pending) ==
    ~Counted(s, pending) /\ PendingAfter(s, pending) = 0 /\ Recording

\* The last I/O of the ramp up restarts the recorded time.
ClockStarts(s, pending) ==
    /\ ~Counted(s, pending) /\ pending > 0
    /\ PendingAfter(s, pending) = 0 /\ Recording

\* Record_IO without its ring update and its two outstanding counters, which
\* the callers below apply.
RecordIO(s, ok, pending) ==
    /\ effect' = IF Counted(s, pending) THEN Results(s, ok)
                 ELSE IF ClockStarts(s, pending) THEN {"clock"} ELSE {}
    /\ sampled' = (sampled \/ (Counted(s, pending) /\ ok))
    /\ ramp_up_ios_pending' = PendingAfter(s, pending)
    /\ IF remaining_requests[s] > 0
       THEN /\ remaining_requests' = [remaining_requests EXCEPT ![s] = @ - 1]
            /\ UNCHANGED remaining_replies
       ELSE /\ remaining_replies' = [remaining_replies EXCEPT ![s] = @ - 1]
            /\ UNCHANGED remaining_requests
    /\ UNCHANGED <<start_IO, start_transaction>>

Record_IO(s, ok) ==
    /\ RecordIO(s, ok, ramp_up_ios_pending)
    /\ PutBack(s)
    /\ io' = [io EXCEPT ![s] = "none"]
    /\ outstanding_ios' = outstanding_ios - 1
    /\ target_ios' = [target_ios EXCEPT ![TargetOf[s]] = @ - 1]

\* The rest of a partially completed request is requested.  If that fails
\* an error is counted and the slot is neither outstanding nor available.
Do_Partial_IO(s) ==
    \E r \in PartialResult :
        /\ io' = [io EXCEPT ![s] = IF r = "pending" THEN "kernel" ELSE "lost"]
        /\ effect' = IF r = "error" /\ Recording THEN {"error"} ELSE {}
        /\ UNCHANGED <<ring, trans, counts, sampled>>

\* The completion queue hands out a request: on Unix one it has seen finish,
\* on Windows any that has finished.
Return(s) ==
    /\ io[s] = IF Platform = "windows" THEN "kernel" ELSE "tagged"
    /\ \/ "full" \in Ending /\ Record_IO(s, TRUE)
       \/ "abort" \in Ending /\ Record_IO(s, FALSE)
       \/ "partial" \in Ending /\ Do_Partial_IO(s)

\* Nothing to hand out.  A Unix poll that may wait notes the requests that
\* have finished meanwhile, libaio's only one of them, but hands none out.
NoteFinished(S) ==
    /\ Platform # "windows" /\ \A s \in Slot : io[s] # "tagged"
    /\ S # {} /\ S \subseteq {s \in Slot : io[s] = "kernel"}
    /\ Platform = "libaio" => Cardinality(S) = 1
    /\ io' = [s \in Slot |-> IF s \in S THEN "tagged" ELSE io[s]]
    /\ effect' = {}
    /\ UNCHANGED <<ring, trans, counts, sampled>>

\* With libaio a poll that waits has no time limit: io_getevents is called
\* without one.
TimeOut(wait) ==
    /\ Platform # "windows" => \A s \in Slot : io[s] # "tagged"
    /\ Platform = "libaio" => ~wait
    /\ effect' = {}
    /\ UNCHANGED <<io, ring, trans, counts, sampled>>

Note == \E S \in SUBSET Slot : NoteFinished(S)

Complete_IO(wait) == \/ \E s \in Slot : Return(s)
                     \/ wait /\ Note
                     \/ TimeOut(wait)

-------------------------------------------------------------------------------
(* The manager's commands, in the order Iometer sends them.  Each test is  *)
(* preceded by SET_ACCESS and SET_TARGETS, which create new targets.       *)

Start_Test ==
    /\ cmd = "idle"
    /\ cmd' = "started"
    /\ grunt_state' = "TestOpening"
    /\ not_ready' = TRUE
    /\ critical_error' = FALSE
    /\ pc' = "open"
    /\ queue' = [i \in 0 .. N |-> IF i < N THEN i ELSE queue[i]]
    /\ head' = 0 /\ tail' = N
    /\ remaining_requests' = [s \in Slot |-> 0]
    /\ remaining_replies' = [s \in Slot |-> 0]
    /\ target_ios' = [t \in Target |-> 0]
    /\ is_closing' = [t \in Target |-> FALSE]
    /\ trans_left' = [t \in Target |-> 0]
    /\ open' = [t \in Target |-> FALSE]
    /\ ramp_up_ios_pending' = 0
    /\ effect' = {} /\ sampled' = FALSE
    /\ UNCHANGED <<start_IO, start_transaction, io, outstanding_ios>>

Begin_IO ==
    /\ cmd = "started" /\ ~not_ready
    /\ cmd' = "running"
    /\ grunt_state' = "TestRampingUp"
    /\ effect' = {}
    /\ UNCHANGED <<not_ready, critical_error, pc, ring, trans, io, conn, counts, sampled>>

Record_On ==
    /\ cmd = "running" /\ ~critical_error /\ grunt_state = "TestRampingUp"
    /\ grunt_state' = "TestRecording"
    /\ effect' = {} /\ sampled' = FALSE
    /\ UNCHANGED <<cmd, not_ready, critical_error, pc, ring, trans, io, conn, counts>>

Record_Off ==
    /\ cmd = "running" /\ ~critical_error /\ grunt_state = "TestRecording"
    /\ grunt_state' = "TestRampingDown"
    /\ effect' = {}
    /\ UNCHANGED <<cmd, not_ready, critical_error, pc, ring, trans, io, conn, counts, sampled>>

Mutant_Stop_Test ==
    /\ cmd = "running" /\ grunt_state # "TestRecording"
    /\ cmd' = "stopping"
    /\ IF critical_error THEN UNCHANGED grunt_state ELSE grunt_state' = "TestIdle"
    /\ effect' = {}
    /\ UNCHANGED <<not_ready, critical_error, pc, ring, trans, io, conn, counts, sampled>>

\* A grunt whose targets did not open has no thread to stop.
Stop_Test ==
    /\ cmd = "running" /\ grunt_state # "TestRecording"
    /\ cmd' = "stopping"
    /\ IF critical_error
       THEN UNCHANGED <<grunt_state, not_ready>>
       ELSE grunt_state' = "TestIdle" /\ not_ready' = TRUE
    /\ effect' = {}
    /\ UNCHANGED <<critical_error, pc, ring, trans, io, conn, counts, sampled>>

Wait_For_Stop ==
    /\ cmd = "stopping" /\ ~not_ready
    /\ cmd' = "idle"
    /\ effect' = {}
    /\ UNCHANGED <<grunt_state, not_ready, critical_error, pc, ring, trans, io, conn,
                   counts, sampled>>

-------------------------------------------------------------------------------
(* The grunt thread. *)

\* Every target is opened; those that test the connection rate are closed
\* again until their first I/O.  One failure closes everything and ends the
\* thread.
Open_Targets ==
    /\ pc = "open"
    /\ \/ /\ TRUE \in Opened
          /\ open' = [t \in Target |-> t \notin ConnRate]
          /\ trans_left' = [t \in Target |-> IF t \in ConnRate THEN 0 ELSE trans_left[t]]
          /\ pc' = "loop"
          /\ UNCHANGED critical_error
       \/ /\ FALSE \in Opened
          /\ critical_error' = TRUE
          /\ pc' = "none"
          /\ UNCHANGED <<open, trans_left>>
    /\ not_ready' = FALSE
    /\ effect' = {}
    /\ UNCHANGED <<cmd, grunt_state, ring, trans, io, is_closing, counts, sampled>>

\* while (grunt_state != TestIdle)
LoopTest ==
    /\ pc = "loop"
    /\ pc' = IF grunt_state = "TestIdle" THEN "drain" ELSE "poll"
    /\ effect' = {}
    /\ UNCHANGED <<shared, ring, trans, io, conn, counts, sampled>>

\* The poll waits only when no slot is available: targets_closing_count,
\* the other reason to wait, is never changed from 0.
Poll ==
    /\ pc = "poll"
    /\ Complete_IO(NoneAvailable)
    /\ pc' = "pick"
    /\ UNCHANGED <<shared, conn>>

PickNone ==
    /\ pc = "pick" /\ NoneAvailable
    /\ pc' = "loop"
    /\ effect' = {}
    /\ UNCHANGED <<shared, ring, trans, io, conn, counts, sampled>>

Mutant_MayClose(t) == TRUE

\* Targets are not closed until all outstanding I/Os have completed.
MayClose(t) == target_ios[t] = 0

Mutant_PickClosing(t) ==
    /\ pc = "pick" /\ ~NoneAvailable
    /\ t = TargetOf[HeadSlot] /\ t \in ConnRate /\ is_closing[t]
    /\ Rotate
    /\ IF MayClose(t)
       THEN /\ open' = [open EXCEPT ![t] = FALSE]
            /\ effect' = IF ramp_up_ios_pending <= 0 /\ Recording
                         THEN {"connection"} ELSE {}
       ELSE /\ effect' = {}
            /\ UNCHANGED open
    /\ pc' = "loop"
    /\ UNCHANGED <<shared, trans, io, is_closing, trans_left, counts, sampled>>

\* The next slot belongs to a closing target: it goes to the back, and the
\* target is closed once nothing is outstanding to it.
PickClosing(t) ==
    /\ pc = "pick" /\ ~NoneAvailable
    /\ t = TargetOf[HeadSlot] /\ t \in ConnRate /\ is_closing[t]
    /\ Rotate
    /\ IF MayClose(t)
       THEN /\ open' = [open EXCEPT ![t] = FALSE]
            /\ is_closing' = [is_closing EXCEPT ![t] = FALSE]
            /\ effect' = IF ramp_up_ios_pending <= 0 /\ Recording
                         THEN {"connection"} ELSE {}
       ELSE /\ effect' = {}
            /\ UNCHANGED <<open, is_closing>>
    /\ pc' = "loop"
    /\ UNCHANGED <<shared, trans, io, trans_left, counts, sampled>>

\* A closed target is opened just before its next I/O; the result of Open is
\* not looked at.  With no transactions to do it is to be closed at once.
OpenConnection(t) ==
    /\ pc = "pick" /\ ~NoneAvailable
    /\ t = TargetOf[HeadSlot] /\ t \in ConnRate
    /\ ~is_closing[t] /\ trans_left[t] <= 0
    /\ trans_left' = [trans_left EXCEPT ![t] = TransPerConn[t]]
    /\ \E ok \in Opened : open' = [open EXCEPT ![t] = ok]
    /\ is_closing' = [is_closing EXCEPT ![t] = TransPerConn[t] = 0]
    /\ pc' = IF TransPerConn[t] = 0 THEN "loop" ELSE "pick"
    /\ effect' = {}
    /\ UNCHANGED <<shared, ring, trans, io, counts, sampled>>

CanUse(t) == t \in ConnRate => ~is_closing[t] /\ trans_left[t] > 0

\* A new transaction is due on the slot.  It may be the connection's last.
PickNew(t) ==
    /\ pc = "pick" /\ ~NoneAvailable
    /\ t = TargetOf[HeadSlot] /\ CanUse(t)
    /\ remaining_requests[HeadSlot] = 0 /\ remaining_replies[HeadSlot] = 0
    /\ IF t \in ConnRate
       THEN /\ trans_left' = [trans_left EXCEPT ![t] = @ - 1]
            /\ is_closing' = [is_closing EXCEPT ![t] = trans_left[t] - 1 <= 0]
       ELSE UNCHANGED <<trans_left, is_closing>>
    /\ pc' \in IF Delays THEN {"delay", "fill"} ELSE {"fill"}
    /\ effect' = {}
    /\ UNCHANGED <<shared, ring, trans, io, open, counts, sampled>>

\* Asynchronous_Delay: completions are processed until the delay has passed
\* or a poll returns without one.
DelayPoll ==
    /\ pc = "delay"
    /\ \/ (\E s \in Slot : Return(s)) /\ pc' \in {"delay", "fill"}
       \/ (Note \/ TimeOut(TRUE)) /\ pc' = "fill"
    /\ UNCHANGED <<shared, conn>>

FillTransaction ==
    /\ pc = "fill"
    /\ remaining_requests' = [remaining_requests EXCEPT ![HeadSlot] = 1]
    /\ \E r \in Reply : remaining_replies' = [remaining_replies EXCEPT ![HeadSlot] = r]
    /\ start_transaction' = [start_transaction EXCEPT ![HeadSlot] = FALSE]
    /\ pc' = "stage"
    /\ effect' = {}
    /\ UNCHANGED <<shared, ring, start_IO, io, conn, counts, sampled>>

\* The slot's transaction goes on with its reply, or with a request that
\* could not be started before.
PickContinued(t) ==
    /\ pc = "pick" /\ ~NoneAvailable
    /\ t = TargetOf[HeadSlot] /\ CanUse(t)
    /\ remaining_requests[HeadSlot] + remaining_replies[HeadSlot] > 0
    /\ pc' = "stage"
    /\ effect' = {}
    /\ UNCHANGED <<shared, ring, trans, io, conn, counts, sampled>>

StageIO ==
    /\ pc = "stage"
    /\ start_IO' = [start_IO EXCEPT ![HeadSlot] = Recording]
    /\ start_transaction' = [start_transaction EXCEPT ![HeadSlot] = @ \/ Recording]
    /\ pc' = "submit"
    /\ effect' = {}
    /\ UNCHANGED <<shared, ring, remaining_requests, remaining_replies, io, conn,
                   counts, sampled>>

\* ramp_up_ios_pending once the staged I/O has started
PendingWith(s) == IF start_IO[s] THEN ramp_up_ios_pending ELSE ramp_up_ios_pending + 1

SubmitPending ==
    /\ pc = "submit" /\ "pending" \in Result /\ open[TargetOf[HeadSlot]]
    /\ io' = [io EXCEPT ![HeadSlot] = "kernel"]
    /\ outstanding_ios' = outstanding_ios + 1
    /\ target_ios' = [target_ios EXCEPT ![TargetOf[HeadSlot]] = @ + 1]
    /\ ramp_up_ios_pending' = PendingWith(HeadSlot)
    /\ TakeHead
    /\ pc' = "loop"
    /\ effect' = {}
    /\ UNCHANGED <<shared, trans, conn, sampled>>

\* The I/O is complete on return: it is counted as outstanding, recorded,
\* and its slot is back in the ring before the head moves on.
SubmitSuccess ==
    /\ pc = "submit" /\ "success" \in Result /\ open[TargetOf[HeadSlot]]
    /\ RecordIO(HeadSlot, TRUE, PendingWith(HeadSlot))
    /\ Rotate
    /\ pc' = "loop"
    /\ UNCHANGED <<shared, io, conn, outstanding_ios, target_ios>>

SubmitRetry ==
    /\ pc = "submit" /\ "retry" \in Result /\ open[TargetOf[HeadSlot]]
    /\ pc' = "retry"
    /\ effect' = {}
    /\ UNCHANGED <<shared, ring, trans, io, conn, counts, sampled>>

RetryPoll ==
    /\ pc = "retry"
    /\ Complete_IO(TRUE)
    /\ pc' = "retried"
    /\ UNCHANGED <<shared, conn>>

RetryTest ==
    /\ pc = "retried"
    /\ pc' = IF grunt_state = "TestIdle" THEN "failed" ELSE "submit"
    /\ effect' = {}
    /\ UNCHANGED <<shared, ring, trans, io, conn, counts, sampled>>

SubmitError ==
    /\ pc = "submit" /\ ("error" \in Result \/ ~open[TargetOf[HeadSlot]])
    /\ pc' = "failed"
    /\ effect' = {}
    /\ UNCHANGED <<shared, ring, trans, io, conn, counts, sampled>>

\* The slot goes to the back so that other requests have a chance of going.
SubmitFailed ==
    /\ pc = "failed"
    /\ effect' = IF Recording THEN {"error"} ELSE {}
    /\ Rotate
    /\ pc' = "loop"
    /\ UNCHANGED <<shared, trans, io, conn, counts, sampled>>

Drain ==
    /\ pc = "drain" /\ outstanding_ios > 0
    /\ Complete_IO(TRUE)
    /\ UNCHANGED <<shared, pc, conn>>

Mutant_Close_Targets ==
    /\ pc = "drain"
    /\ open' = [t \in Target |-> FALSE]
    /\ not_ready' = FALSE
    /\ pc' = "none"
    /\ effect' = {}
    /\ UNCHANGED <<cmd, grunt_state, critical_error, ring, trans, io, is_closing,
                   trans_left, counts, sampled>>

Mutant_CloseSilently ==
    /\ pc = "drain" /\ outstanding_ios <= 0
    /\ open' = [t \in Target |-> FALSE]
    /\ pc' = "none"
    /\ effect' = {}
    /\ UNCHANGED <<shared, ring, trans, io, is_closing, trans_left, counts, sampled>>

Close_Targets ==
    /\ pc = "drain" /\ outstanding_ios <= 0
    /\ open' = [t \in Target |-> FALSE]
    /\ not_ready' = FALSE
    /\ pc' = "none"
    /\ effect' = {}
    /\ UNCHANGED <<cmd, grunt_state, critical_error, ring, trans, io, is_closing,
                   trans_left, counts, sampled>>

-------------------------------------------------------------------------------
Command == \/ Start_Test \/ Begin_IO \/ Record_On \/ Record_Off
           \/ Stop_Test \/ Wait_For_Stop

Pick(t) == PickClosing(t) \/ OpenConnection(t) \/ PickNew(t) \/ PickContinued(t)

Submit == SubmitPending \/ SubmitSuccess \/ SubmitRetry \/ SubmitError \/ SubmitFailed

Thread == \/ Open_Targets \/ LoopTest \/ Poll \/ PickNone \/ \E t \in Target : Pick(t)
          \/ DelayPoll \/ FillTransaction \/ StageIO \/ Submit
          \/ RetryPoll \/ RetryTest \/ Drain \/ Close_Targets

Next == Command \/ Thread

Spec == Init /\ [][Next]_vars

-------------------------------------------------------------------------------
(***************************************************************************)
(* Fairness.  The thread is scheduled; the manager's two waits return once *)
(* not_ready is cleared.  A request in the kernel finishes and is noticed  *)
(* by a poll that may wait (by any poll on Windows), and the queue's       *)
(* round-robin scan returns every request noticed.  A command other than   *)
(* the two waits is never due: tests may run for ever.                     *)
(***************************************************************************)
NoteStep(s) == Thread /\ io[s] = "kernel" /\ io'[s] = "tagged"
ReturnStep(s) == /\ Thread /\ io[s] \in {"kernel", "tagged"}
                 /\ io'[s] \in {"none", "lost"}

Fairness == /\ WF_vars(Thread)
            /\ WF_vars(Begin_IO) /\ WF_vars(Wait_For_Stop)
            /\ \A s \in Slot : SF_vars(NoteStep(s)) /\ SF_vars(ReturnStep(s))

FairSpec == Spec /\ Fairness

-------------------------------------------------------------------------------
(* Properties *)

TestStates == {"TestIdle", "TestOpening", "TestRampingUp", "TestRecording",
               "TestRampingDown"}
Places == {"none", "open", "loop", "poll", "pick", "delay", "fill", "stage",
           "submit", "retry", "retried", "failed", "drain"}

\* The types of the variables.  In particular the head and the tail stay
\* within the N + 1 elements of available_trans_queue and no request or reply
\* counter goes negative (what the debug build of Record_IO complains about).
TypeOK ==
    /\ cmd \in {"idle", "started", "running", "stopping"}
    /\ grunt_state \in TestStates
    /\ not_ready \in BOOLEAN /\ critical_error \in BOOLEAN
    /\ pc \in Places
    /\ queue \in [0 .. N -> Slot] /\ head \in 0 .. N /\ tail \in 0 .. N
    /\ remaining_requests \in [Slot -> {0, 1}]
    /\ remaining_replies \in [Slot -> {0, 1}]
    /\ start_IO \in [Slot -> BOOLEAN] /\ start_transaction \in [Slot -> BOOLEAN]
    /\ io \in [Slot -> {"none", "kernel", "tagged", "lost"}]
    /\ outstanding_ios \in 0 .. N
    /\ target_ios \in [Target -> 0 .. N]
    /\ is_closing \in [Target -> BOOLEAN]
    /\ trans_left \in [Target -> Nat]
    /\ open \in [Target -> BOOLEAN]
    /\ ramp_up_ios_pending \in 0 .. N
    /\ effect \subseteq {"io", "error", "transaction", "connection", "clock"}
    /\ sampled \in BOOLEAN

\* The places a transaction slot can be in: available in the ring, with an
\* outstanding request in the completion queue, or lost.
Available   == {queue[i] : i \in Occupied}
Outstanding == {s \in Slot : io[s] \in {"kernel", "tagged"}}
Lost        == {s \in Slot : io[s] = "lost"}

\* Every transaction slot is in the ring exactly once, or has a request in
\* the completion queue, or was lost because the request for the rest of a
\* partially completed one failed: never two of the three, so that none is
\* handed to the kernel twice at a time, and none is lost in another way
\* (Do_IOs, Record_IO).  That one loss is real: Do_Partial_IO then neither
\* puts the slot back nor has a request for it.
SlotConservation ==
    /\ \A i, j \in Occupied : queue[i] = queue[j] => i = j
    /\ Available \cup Outstanding \cup Lost = Slot
    /\ Available \cap (Outstanding \cup Lost) = {}
    /\ Lost # {} => "error" \in PartialResult

\* The grunt's and the targets' outstanding_ios count the slots that are not
\* available, a lost one for ever: the drain loop and the closing of a target
\* rely on nothing else.
OutstandingAgrees ==
    /\ outstanding_ios = Cardinality(Busy)
    /\ \A t \in Target : target_ios[t] = Cardinality(BusyOn(t))

\* ramp_up_ios_pending never counts more I/Os than are outstanding from the
\* ramp up: it reaches 0, and recording begins, when they have completed.
RampUpBounded ==
    ramp_up_ios_pending <= Cardinality({s \in Busy : ~start_IO[s]})

\* A target that is not open has nothing outstanding: a connection is not
\* closed under its I/Os, and none is started on a closed one.
ClosedMeansQuiet ==
    \A t \in Target : ~open[t] => BusyOn(t) = {}

\* While the manager believes the worker stopped, no thread is left and
\* nothing is outstanding: it then deletes the targets and the queue.
StoppedMeansGone ==
    cmd = "idle" => pc = "none" /\ Busy = {}

\* FIRST_SNAPSHOT, the start of the recorded time, is not moved by Record_IO
\* once an I/O has been counted against it.
ClockKept == [][("clock" \in effect') => ~sampled]_vars

\* The worker keeps the promises of IOPipeline.
Pipeline == INSTANCE IOPipeline
            WITH busy <- Busy,
                 stage <- IF pc = "none" THEN "stopped"
                          ELSE IF pc = "drain" THEN "draining" ELSE "running"
PipelineSpec == Pipeline!Spec

\* Told to stop, the grunt thread drains and ends, and the manager is told.
StopTerminates == (cmd = "stopping") ~> (cmd = "idle")

\* While the test runs every target with a slot gets its next I/O, whatever
\* becomes of the other targets' I/Os: Do_IOs moves a failed slot to the back
\* of the queue "to allow other requests, if any, to have a chance of going".  And a
\* target that has to close does close, if the test goes on.
EveryTargetServed ==
    /\ \A s \in Slot :
          (pc = "loop" /\ \A x \in Slot : io[x] # "lost")
              ~> (\/ pc = "submit" /\ ~NoneAvailable /\ TargetOf[HeadSlot] = TargetOf[s]
                  \/ grunt_state = "TestIdle")
    /\ \A t \in Target : is_closing[t] ~> (~is_closing[t] \/ grunt_state = "TestIdle")
===============================================================================
