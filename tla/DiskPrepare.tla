----------------------------- MODULE DiskPrepare ------------------------------
(***************************************************************************)
(* Preparing logical disks before a test: Iometer looks for disks without  *)
(* a test file, manager by manager (DisksNotPrepared, PREPARE_TIMER and    *)
(* StopAll of GalileoView.cpp), has the grunts' targets set and sends      *)
(* PREP_DISKS or STOP_PREPARE; the manager (IOManager.cpp) starts a thread *)
(* for every logical disk of its grunts (IOGrunt.cpp), hears STOP_PREPARE  *)
(* while it waits for them, and answers.                                   *)
(*                                                                         *)
(* What a thread writes is the subject of DiskFill; here a file is         *)
(* complete or not.  The test itself, the subject of TestControl, is one   *)
(* step, which leaves the grunts with its targets.                         *)
(***************************************************************************)
EXTENDS Integers, Sequences, FiniteSets

CONSTANTS
    M,          \* the number of managers
    W,          \* the number of workers
    ManagerOf,  \* the manager of each worker
    Logical,    \* the logical disks, each of one manager
    Raw,        \* the targets that need no preparation
    Assignment, \* which targets the user may assign to the workers
    MayFail,    \* the workers whose threads may not be allocated
    Fallible    \* the disks that may fail to open or to be written

Manager == 1 .. M
Worker  == 1 .. W
WorkersOf(m) == {w \in Worker : ManagerOf[w] = m}

ASSUME PrepareAssumption ==
    /\ M \in Nat \ {0} /\ W \in Nat \ {0}
    /\ ManagerOf \in [Worker -> Manager]
    /\ IsFiniteSet(Logical \cup Raw)
    /\ Assignment \subseteq [Worker -> SUBSET (Logical \cup Raw)]
    /\ MayFail \subseteq Worker
    /\ Fallible \subseteq Logical

VARIABLES
    \* Iometer
    stage,          \* "idle", or the call it is in: "scan" for DisksNotPrepared,
                    \* "set" while SET_TARGETS is not answered, "preparing"
                    \* while it waits for the answer to PREP_DISKS, "stopping"
                    \* while it waits for it in StopAll
    test_state,     \* theApp.test_state
    enabled,        \* the pages take the user's clicks
    assign,         \* the targets assigned to each worker
    ready,          \* the disks with disk_info.ready in the managers' lists
    manager_to_prepare, worker_to_prepare, requirePrepare,
    \* the ports
    inbox, reply,
    \* the managers
    waits_for,      \* the grunt Prepare_Disks is waiting for, 0 for none
    \* the grunts
    targets, grunt_state, not_ready, critical_error,
    thread,         \* where the thread of each disk of the grunt is
    \* the disks
    filled          \* those with a complete test file

window == <<test_state, enabled>>
view   == <<stage, window, assign, ready, manager_to_prepare, worker_to_prepare, requirePrepare>>
ports  == <<inbox, reply>>
grunt  == <<targets, grunt_state, not_ready, critical_error, thread>>
vars   == <<view, ports, waits_for, grunt, filled>>

First(S) == CHOOSE x \in S : \A y \in S : x <= y

Init ==
    /\ stage = "idle" /\ assign \in Assignment
    /\ test_state = "TestIdle" /\ enabled = TRUE
    /\ ready = {} /\ filled = {}
    /\ manager_to_prepare = 1 /\ worker_to_prepare = 1 /\ requirePrepare = FALSE
    /\ inbox = [m \in Manager |-> <<>>] /\ reply = [m \in Manager |-> <<>>]
    /\ waits_for = [m \in Manager |-> 0]
    /\ targets = [w \in Worker |-> {}]
    /\ grunt_state = [w \in Worker |-> "TestIdle"]
    /\ not_ready = [w \in Worker |-> 0]
    /\ critical_error = [w \in Worker |-> FALSE]
    /\ thread = [w \in Worker |-> [d \in Logical |-> "none"]]

-------------------------------------------------------------------------------
(* Iometer. *)

Send(m, message) == inbox' = [inbox EXCEPT ![m] = Append(@, message)]

\* The next reply of manager m is received, whatever it is a reply to.
Receive(m) == /\ reply[m] # <<>>
              /\ reply' = [reply EXCEPT ![m] = Tail(@)]

\* DisksNotPrepared, from its outer loop on.
Scan(m) == /\ stage' = "scan"
           /\ manager_to_prepare' = m
           /\ worker_to_prepare' = 1
           /\ requirePrepare' = FALSE

\* The pages are neither enabled nor disabled while a test is under way.
EnableWindow(enable) ==
    enabled' = IF test_state = "TestIdle" THEN enable ELSE enabled

\* The user assigns targets by clicks in the tree of the disk page, whenever it
\* is enabled and Iometer's message loop runs.
ClickTargets ==
    /\ enabled /\ stage \in {"idle", "preparing"}
    /\ assign' \in Assignment
    /\ UNCHANGED <<stage, window, ready, manager_to_prepare, worker_to_prepare,
                   requirePrepare, ports, waits_for, grunt, filled>>

\* OnBStart
Go ==
    /\ stage = "idle"
    /\ EnableWindow(FALSE)
    /\ Scan(1)
    /\ UNCHANGED <<test_state, assign, ready, ports, waits_for, grunt, filled>>

\* ~ReadyToRunTests
Unready(w) == (assign[w] \cap Logical) \ ready

WorkersLeft == {w \in WorkersOf(manager_to_prepare) : w >= worker_to_prepare}

CheckWorker ==
    /\ stage = "scan" /\ WorkersLeft # {}
    /\ LET w == First(WorkersLeft)
       IN  /\ worker_to_prepare' = w + 1
           /\ IF Unready(w) = {}
              THEN UNCHANGED <<stage, test_state, requirePrepare, inbox>>
              ELSE /\ stage' = "set" /\ requirePrepare' = TRUE
                   /\ test_state' = "TestPreparing"
                   /\ Send(manager_to_prepare, [purpose |-> "SET_TARGETS",
                                                worker |-> w, targets |-> Unready(w)])
    /\ UNCHANGED <<enabled, assign, ready, manager_to_prepare, reply, waits_for, grunt, filled>>

TargetsSet ==
    /\ stage = "set"
    /\ Receive(manager_to_prepare)
    /\ stage' = "scan"
    /\ UNCHANGED <<window, assign, ready, manager_to_prepare, worker_to_prepare,
                   requirePrepare, inbox, waits_for, grunt, filled>>

\* All workers of the manager prepare, or it is the next manager's turn.
ManagerScanned ==
    /\ stage = "scan" /\ manager_to_prepare <= M /\ WorkersLeft = {}
    /\ IF requirePrepare
       THEN /\ stage' = "preparing"
            /\ Send(manager_to_prepare, [purpose |-> "PREP_DISKS"])
            /\ UNCHANGED <<manager_to_prepare, worker_to_prepare, requirePrepare>>
       ELSE Scan(manager_to_prepare + 1) /\ UNCHANGED inbox
    /\ UNCHANGED <<window, assign, ready, reply, waits_for, grunt, filled>>

\* All disks are ready: a test is run, each worker's grunt is given its targets.
\* Its end enables the pages, unless it could not be set up: TestDone comes to
\* EnableWindow before it sets the state, which is still TestOpening then.
StartTest ==
    /\ stage = "scan" /\ manager_to_prepare > M
    /\ stage' = "idle"
    /\ test_state' = "TestIdle" /\ enabled' \in BOOLEAN
    /\ targets' = assign
    /\ UNCHANGED <<assign, ready, manager_to_prepare, worker_to_prepare, requirePrepare,
                   ports, waits_for, grunt_state, not_ready, critical_error, thread, filled>>

\* PreparedAnswer: the disks of all the manager's workers are marked ready.
PreparedAnswer ==
    ready' = IF Head(reply[manager_to_prepare])
             THEN ready \cup UNION {assign[w] \cap Logical : w \in WorkersOf(manager_to_prepare)}
             ELSE ready

Mutant_TestDone ==
    /\ test_state' = "TestIdle"
    /\ enabled' = TRUE

\* TestDone(ReturnError): the pages are enabled before the state is set, which
\* is why they stay disabled.
TestDone ==
    /\ EnableWindow(TRUE)
    /\ test_state' = "TestIdle"

\* PREPARE_TIMER, once the answer has come.  After a failure the handler goes on
\* all the same: the manager's disks are looked through again.
PrepareTimer ==
    /\ stage = "preparing"
    /\ Receive(manager_to_prepare)
    /\ PreparedAnswer
    /\ IF Head(reply[manager_to_prepare]) THEN UNCHANGED window ELSE TestDone
    /\ Scan(manager_to_prepare)
    /\ UNCHANGED <<assign, inbox, waits_for, grunt, filled>>

\* StopAll
StopPreparing ==
    /\ stage = "preparing" /\ test_state = "TestPreparing"
    /\ stage' = "stopping"
    /\ test_state' = "TestIdle"
    /\ Send(manager_to_prepare, [purpose |-> "STOP_PREPARE"])
    /\ UNCHANGED <<enabled, assign, ready, manager_to_prepare, worker_to_prepare,
                   requirePrepare, reply, waits_for, grunt, filled>>

Mutant_Stopped ==
    /\ stage = "stopping"
    /\ stage' = "idle"
    /\ EnableWindow(TRUE)
    /\ UNCHANGED <<test_state, assign, ready, manager_to_prepare, worker_to_prepare,
                   requirePrepare, ports, waits_for, grunt, filled>>

\* StopAll waits for the answer to PREP_DISKS.
Stopped ==
    /\ stage = "stopping"
    /\ Receive(manager_to_prepare)
    /\ stage' = "idle"
    /\ EnableWindow(TRUE)
    /\ UNCHANGED <<test_state, assign, ready, manager_to_prepare, worker_to_prepare,
                   requirePrepare, inbox, waits_for, grunt, filled>>

-------------------------------------------------------------------------------
(* A manager.  Manager::Run takes one message at a time; so does            *)
(* Prepare_Disks while the grunt it waits for is not ready.                *)

Waiting(m) == waits_for[m] # 0 /\ not_ready[waits_for[m]] # 0

Takes(m, purpose) ==
    /\ waits_for[m] = 0 \/ Waiting(m)
    /\ inbox[m] # <<>> /\ Head(inbox[m]).purpose = purpose
    /\ inbox' = [inbox EXCEPT ![m] = Tail(@)]

Answer(m, ok) == reply' = [reply EXCEPT ![m] = Append(@, ok)]

\* f with the value v for the workers in S
Put(f, S, v) == [w \in Worker |-> IF w \in S THEN v ELSE f[w]]

Set_Targets(m) ==
    /\ Takes(m, "SET_TARGETS")
    /\ targets' = [targets EXCEPT ![Head(inbox[m]).worker] = Head(inbox[m]).targets]
    /\ Answer(m, TRUE)
    /\ UNCHANGED <<view, waits_for, grunt_state, not_ready, critical_error, thread, filled>>

\* Grunt::Prepare_Disks for the grunts in S, of which those in T get threads,
\* one for each logical disk.
StartThreads(S, T) ==
    /\ grunt_state' = Put(grunt_state, S, "TestPreparing")
    /\ not_ready' = [w \in Worker |-> IF w \in S THEN Cardinality(targets[w])
                                      ELSE not_ready[w]]
    /\ thread' = [w \in Worker |-> [d \in Logical |->
                      IF w \in T /\ d \in targets[w] THEN "open" ELSE thread[w][d]]]

\* All grunts prepare the targets they have, up to one that cannot.
Prepare_Disks(m) ==
    /\ Takes(m, "PREP_DISKS")
    /\ \/ /\ StartThreads(WorkersOf(m), WorkersOf(m))
          /\ waits_for' = [waits_for EXCEPT ![m] = First(WorkersOf(m))]
          /\ UNCHANGED reply
       \/ \E w \in WorkersOf(m) \cap MayFail :
              /\ StartThreads({v \in WorkersOf(m) : v <= w}, {v \in WorkersOf(m) : v < w})
              /\ Answer(m, FALSE)
              /\ UNCHANGED waits_for
    /\ UNCHANGED <<view, targets, critical_error, filled>>

Mutant_IsReady(w) == TRUE

\* while (not_ready)
IsReady(w) == not_ready[w] = 0

\* From one grunt to the next, after the last the answer.
GruntReady(m) ==
    /\ waits_for[m] # 0
    /\ LET w == waits_for[m]
           after == {v \in WorkersOf(m) : v > w}
       IN  /\ IsReady(w)
           /\ grunt_state' = [grunt_state EXCEPT ![w] = "TestIdle"]
           /\ IF after = {}
              THEN waits_for' = [waits_for EXCEPT ![m] = 0] /\ Answer(m, TRUE)
              ELSE waits_for' = [waits_for EXCEPT ![m] = First(after)] /\ UNCHANGED reply
    /\ UNCHANGED <<view, inbox, targets, not_ready, critical_error, thread, filled>>

Mutant_StopNothing(m) ==
    /\ Takes(m, "STOP_PREPARE")
    /\ UNCHANGED <<view, reply, waits_for, grunt, filled>>

\* Not answered: the answer to PREP_DISKS is still to come.
Stop_Prepare(m) ==
    /\ Takes(m, "STOP_PREPARE")
    /\ grunt_state' = Put(grunt_state, WorkersOf(m), "TestIdle")
    /\ UNCHANGED <<view, reply, waits_for, targets, not_ready, critical_error, thread, filled>>

MessageLoop(m) ==
    Set_Targets(m) \/ Prepare_Disks(m) \/ GruntReady(m) \/ Stop_Prepare(m)

-------------------------------------------------------------------------------
(* The thread of a disk: Grunt::Prepare_Disk.                              *)

Goto(w, d, pc) == thread' = [thread EXCEPT ![w][d] = pc]

Open(w, d) ==
    /\ thread[w][d] = "open"
    /\ \/ Goto(w, d, "fill") /\ critical_error' = [critical_error EXCEPT ![w] = FALSE]
       \/ /\ d \in Fallible
          /\ Goto(w, d, "done")
          /\ critical_error' = [critical_error EXCEPT ![w] = TRUE]
    /\ UNCHANGED <<view, ports, waits_for, targets, grunt_state, not_ready, filled>>

\* TargetDisk::Prepare has filled the disk.
Fill(w, d) ==
    /\ thread[w][d] = "fill"
    /\ filled' = filled \cup {d}
    /\ Goto(w, d, "done")
    /\ UNCHANGED <<view, ports, waits_for, targets, grunt_state, not_ready, critical_error>>

\* It has failed.
FailToFill(w, d) ==
    /\ thread[w][d] = "fill" /\ d \in Fallible
    /\ critical_error' = [critical_error EXCEPT ![w] = TRUE]
    /\ Goto(w, d, "done")
    /\ UNCHANGED <<view, ports, waits_for, targets, grunt_state, not_ready, filled>>

\* It was told to stop.
StopFilling(w, d) ==
    /\ thread[w][d] = "fill" /\ grunt_state[w] # "TestPreparing"
    /\ Goto(w, d, "done")
    /\ UNCHANGED <<view, ports, waits_for, targets, grunt_state, not_ready,
                   critical_error, filled>>

\* InterlockedDecrement(&not_ready) is the last thing a thread does.
Done(w, d) ==
    /\ thread[w][d] = "done"
    /\ not_ready' = [not_ready EXCEPT ![w] = @ - 1]
    /\ Goto(w, d, "none")
    /\ UNCHANGED <<view, ports, waits_for, targets, grunt_state, critical_error, filled>>

Iometer == \/ ClickTargets \/ Go \/ CheckWorker \/ TargetsSet \/ ManagerScanned \/ StartTest
           \/ PrepareTimer \/ StopPreparing \/ Stopped

Next == \/ Iometer
        \/ \E m \in Manager : MessageLoop(m)
        \/ \E w \in Worker, d \in Logical :
               \/ Open(w, d) \/ Fill(w, d) \/ FailToFill(w, d) \/ StopFilling(w, d)
               \/ Done(w, d)

Spec == Init /\ [][Next]_vars

Fills(w, d) == Fill(w, d) \/ FailToFill(w, d)

\* Iometer, the managers and the threads run; the user need not do anything,
\* and a disk need not be full before long.
FairSpec ==
    /\ Spec
    /\ WF_vars(CheckWorker \/ TargetsSet \/ ManagerScanned \/ PrepareTimer \/ Stopped)
    /\ \A m \in Manager : WF_vars(MessageLoop(m))
    /\ \A w \in Worker, d \in Logical :
           WF_vars(Open(w, d) \/ StopFilling(w, d) \/ Done(w, d))

-------------------------------------------------------------------------------
(* Properties. *)

\* Every variable keeps its type.  A manager has at most one reply under way and
\* two messages waiting, and not_ready never goes below 0.
TypeOK ==
    /\ stage \in {"idle", "scan", "set", "preparing", "stopping"}
    /\ test_state \in {"TestIdle", "TestPreparing"} /\ enabled \in BOOLEAN
    /\ assign \in Assignment
    /\ ready \subseteq Logical /\ filled \subseteq Logical
    /\ manager_to_prepare \in 1 .. M + 1
    /\ worker_to_prepare \in 1 .. W + 1
    /\ requirePrepare \in BOOLEAN
    /\ \A m \in Manager : Len(inbox[m]) <= 2 /\ Len(reply[m]) <= 1
    /\ waits_for \in [Manager -> 0 .. W]
    /\ targets \in [Worker -> SUBSET (Logical \cup Raw)]
    /\ grunt_state \in [Worker -> {"TestIdle", "TestPreparing"}]
    /\ not_ready \in [Worker -> Nat]
    /\ critical_error \in [Worker -> BOOLEAN]
    /\ thread \in [Worker -> [Logical -> {"none", "open", "fill", "done"}]]

\* Iometer and a manager stay in step, however an abort and the end of a
\* preparation cross: a reply is under way only while Iometer waits for one from
\* this manager, and a request it waits for is not yet answered twice.
RepliesInStep ==
    \A m \in Manager :
        /\ reply[m] # <<>> => /\ stage \in {"set", "preparing", "stopping"}
                              /\ m = manager_to_prepare
                              /\ waits_for[m] = 0
        /\ waits_for[m] # 0 => /\ stage \in {"preparing", "stopping"}
                               /\ m = manager_to_prepare

\* The threads of a manager's grunts, which use the grunts' targets, are alive
\* only between PREP_DISKS and its answer: a test is never set up, nor are
\* targets replaced, under them.
NoStrayThread ==
    \A w \in Worker : (\E d \in Logical : thread[w][d] # "none") =>
        /\ stage \in {"preparing", "stopping"}
        /\ ManagerOf[w] = manager_to_prepare
        /\ reply[ManagerOf[w]] = <<>>

\* A disk that Iometer takes for ready has a complete file, also when preparations
\* were aborted or repeated and disks shared or given to other workers, unless it
\* failed: the answer does not tell (IOManager.cpp:660).  What is marked is what is
\* assigned when the answer comes, so nothing may be assigned meanwhile.
ReadyMeansFilled == ready \subseteq filled \cup Fallible

\* An abort ends: Iometer, whose window is blocked in Receive, gets its answer.
AbortEnds == stage = "stopping" ~> stage = "idle"
===============================================================================
