------------------------------ MODULE TestCycle ------------------------------
(***************************************************************************)
(* The sequence of tests Iometer runs: Go, CalcRunCount, SetActiveTargets  *)
(* with the methods of the cycling options, StopTest and TestDone of       *)
(* GalileoView.cpp, and the targets, access specifications and queue       *)
(* depths of the workers it walks over (Worker.cpp).  Running a test is    *)
(* TestControl, preparing disks is DiskPrepare: here each is one step.     *)
(*                                                                         *)
(* A worker is a record of what the user assigned: manager, kind, number   *)
(* of targets, list of access specifications, queue depth.  Its active     *)
(* targets are always the first ones, so a number says which.  Network     *)
(* clients are passed over by every method here and are left out.          *)
(***************************************************************************)
EXTENDS Integers, Sequences, SequencesExt, FiniteSetsExt

CONSTANTS
    Setups,         \* what the user may choose in the Test Setup tab
    Layouts,        \* the workers there may be, in the order of their managers
    Newcomers,      \* the workers of a manager that logs in
    MaxWorkers,     \* bound on workers, and so on logins
    MaxRuns         \* bound on run_count

VARIABLES
    setup,          \* m_pPageSetup: type, workers, targets, queue
    layout,         \* the workers
    active,         \* TargetCount(ActiveType) of each worker
    depth,          \* spec.queue_depth of each worker
    next,           \* workers_to_run, targets_to_run, queue_depth_to_run, exponents
    saved,          \* save_queue_depth, <<>> for NULL
    phase,          \* idle, counting (CalcRunCount), preparing, testing
    access_index,
    run_index,
    run_count,
    nth,            \* tests of this access specification so far
    mishap          \* what went wrong in a preparation: none, aborted, failed

cyclevars == <<setup, layout, active, depth, next, saved, phase, access_index, run_index,
          run_count, nth, mishap>>
session == <<setup, layout>>

Garbage == 99       \* an int behind the end of save_queue_depth

Stepped(o) == o.start \in Nat \ {0} /\ o.step \in Nat \ {0} /\ o.power \in BOOLEAN

Assigned == [manager : Nat, kind : {"disk", "net"}, targets : Nat, depth : Nat,
             specs : Seq({"io", "idle"})]

\* The tabs refuse neither steps of zero, with which CalcRunCount does not end,
\* nor queue depths that start above their end, with which an empty test is run.
CycleAssumption ==
    /\ \A s \in Setups : /\ Stepped(s.workers) /\ Stepped(s.targets) /\ Stepped(s.queue)
                         /\ s.queue.end \in Nat /\ s.queue.start <= s.queue.end
    /\ Layouts \subseteq Seq(Assigned)
    /\ Newcomers \in Seq(Assigned) /\ \A i \in DOMAIN Newcomers : Newcomers[i].targets = 0
    /\ MaxWorkers \in Nat /\ MaxRuns \in Nat
ASSUME CycleAssumption

Workers == DOMAIN layout

-----------------------------------------------------------------------------
(* Who can take part.                                                      *)

HasActiveCurrentSpec(i, index) ==
    index < Len(layout[i].specs) /\ layout[i].specs[index + 1] # "idle"
HasIdleCurrentSpec(i, index) ==
    index < Len(layout[i].specs) /\ layout[i].specs[index + 1] = "idle"

MaxSpecs == Max({0} \cup {Len(layout[i].specs) : i \in Workers})

InvalidSetup ==
    \/ MaxSpecs = 0
    \/ \E i \in Workers : layout[i].targets > 0 /\ layout[i].specs = <<>>
    \/ LET Busy == {i \in Workers : \E k \in DOMAIN layout[i].specs : layout[i].specs[k] # "idle"}
       IN Busy # {} /\ \A i \in Busy : layout[i].targets = 0

-----------------------------------------------------------------------------
(* The cycling methods.  Each takes the state it changes, r = [active,     *)
(* depth, next, index], and returns the new one; more is the method's       *)
(* result, index the access_index it looks at.                             *)

\* A method called for r, which as the element of a set is computed once.
Do(Method(_), r) == CHOOSE q \in {Method(x) : x \in {r}} : TRUE

Total(act) == MapThenSumSet(LAMBDA i : act[i], DOMAIN act)
\* SetActiveTargets takes no more targets than the worker has.
Smaller(m, n) == IF m < n THEN m ELSE n
\* Worker::SetActiveTargets for the workers of W: the first n(i) of each.
Set(act, W, n(_)) ==
    [i \in DOMAIN act |-> IF i \in W THEN Smaller(n(i), layout[i].targets) ELSE act[i]]
Cleared(r) == [r EXCEPT !.active = [i \in DOMAIN @ |-> 0]]

EligibleWorkers(r) == {i \in Workers : HasActiveCurrentSpec(i, r.index) /\ layout[i].targets > 0}
Earlier(r, i) == {j \in EligibleWorkers(r) : j < i /\ layout[j].manager = layout[i].manager}
\* workers_remaining: the first workers_to_run workers of each manager
Chosen(r) == {i \in EligibleWorkers(r) : Cardinality(Earlier(r, i)) < r.next.workers}
\* targets_remaining after the workers of W have taken theirs
Remaining(n, W) == Max({0, n - MapThenSumSet(LAMBDA j : layout[j].targets, W)})

Increased(o, value, exponent, asStep) ==
    IF ~o.power \/ asStep = 1 THEN value + o.step ELSE o.start * o.step ^ exponent
Exponent(o, exponent, asStep) == IF ~o.power \/ asStep = 1 THEN exponent ELSE exponent + 1

IncreaseTargets(n) ==
    [n EXCEPT !.targets = Increased(setup.targets, @, n.target_exponent, setup.targets.step),
              !.target_exponent = Exponent(setup.targets, @, setup.targets.step)]
\* CycleWorkersTargets looks at the step of the workers here.
IncreaseTheirTargets(n) ==
    [n EXCEPT !.targets = Increased(setup.targets, @, n.target_exponent, setup.workers.step),
              !.target_exponent = Exponent(setup.targets, @, setup.workers.step)]
IncreaseWorkers(n) ==
    [n EXCEPT !.workers = Increased(setup.workers, @, n.worker_exponent, setup.workers.step),
              !.worker_exponent = Exponent(setup.workers, @, setup.workers.step)]
IncreaseQueue(n) ==
    [n EXCEPT !.queue = Increased(setup.queue, @, n.queue_exponent, setup.queue.step),
              !.queue_exponent = Exponent(setup.queue, @, setup.queue.step)]

Result(r, act, n) ==
    [r EXCEPT !.active = act, !.next = n, !.more = Total(act) > Total(r.active)]

Mutant_CycleTargets(r) ==
    Result(r, Set(r.active, EligibleWorkers(r), LAMBDA i : r.next.targets), [r.next EXCEPT !.targets = @ + 1])
CycleTargets(r) ==
    Result(r, Set(r.active, EligibleWorkers(r), LAMBDA i : r.next.targets), IncreaseTargets(r.next))

CycleWorkers(r) ==
    Result(r, Set(r.active, Chosen(r), LAMBDA i : layout[i].targets),
           IncreaseWorkers(r.next))

IncrementTargets(r) ==
    Result(r, Set(r.active, EligibleWorkers(r), LAMBDA i : Remaining(r.next.targets, Earlier(r, i))),
           IncreaseTargets(r.next))

IncrementTargetsSerial(r) ==
    Result(r, Set(r.active, EligibleWorkers(r),
                  LAMBDA i : Remaining(r.next.targets, {j \in EligibleWorkers(r) : j < i})),
           IncreaseTargets(r.next))

Normal(r) ==
    Result(r, Set(r.active, EligibleWorkers(r), LAMBDA i : layout[i].targets), r.next)

\* One call of CycleWorkersTargets up to the point where it calls itself.
SameWorkers(r) ==
    Result(r, Set(r.active, Chosen(r), LAMBDA i : r.next.targets),
           IncreaseTheirTargets(r.next))

MoreWorkers(r) ==
    [Cleared(r) EXCEPT !.next = [IncreaseWorkers(@) EXCEPT !.targets = setup.targets.start,
                                                           !.target_exponent = 1]]
\* The inner call starts from no active target and never calls itself again.
CycleWorkersTargets(r) ==
    LET outer == Do(SameWorkers, r)
        inner == Do(SameWorkers, MoreWorkers(outer))
    IN  IF Chosen(r) = {} THEN [outer EXCEPT !.next = r.next, !.more = FALSE]
        ELSE IF outer.more THEN outer
        ELSE [inner EXCEPT !.more = Cardinality(Chosen(MoreWorkers(outer)))
                                        > Cardinality(Chosen(r))]

SetDepths(r, d) ==
    [i \in DOMAIN r.depth |->
        IF i \in EligibleWorkers(r) /\ layout[i].kind = "disk" THEN d ELSE r.depth[i]]
DiskWorkers(r) == \E i \in EligibleWorkers(r) : layout[i].kind = "disk"

Mutant_CycleQueue(r) ==
    IF r.next.queue > setup.queue.end THEN [r EXCEPT !.more = FALSE]
    ELSE [r EXCEPT
            !.active = Set(@, EligibleWorkers(r), LAMBDA i : layout[i].targets),
            !.depth = SetDepths(r, r.next.queue),
            !.next = IF DiskWorkers(r) THEN IncreaseQueue(@) ELSE @,
            !.more = EligibleWorkers(r) # {}]
CycleQueue(r) ==
    IF r.next.queue > setup.queue.end THEN [r EXCEPT !.more = FALSE]
    ELSE [r EXCEPT
            !.active = Set(@, EligibleWorkers(r), LAMBDA i : layout[i].targets),
            !.depth = SetDepths(r, r.next.queue),
            !.next = IF DiskWorkers(r) THEN IncreaseQueue(@)
                     ELSE [@ EXCEPT !.queue = setup.queue.end + 1],
            !.more = EligibleWorkers(r) # {}]

\* The targets of the test before, for a depth that was just set.
SameTargets(r) == [CycleTargets(Cleared(r)) EXCEPT !.next = r.next]
FirstDepth(n) == [n EXCEPT !.queue = setup.queue.start, !.queue_exponent = 1]

CycleTargetsQueue(r) ==
    LET queued == Do(CycleQueue, r)
        same   == Do(CycleTargets, queued)  \* moves on to the next number of targets
        probe  == Do(CycleTargets, same)    \* is there one more target with it?
        again  == Do(CycleQueue, [probe EXCEPT !.next = FirstDepth(same.next)])
    IN  IF queued.more THEN [Do(SameTargets, queued) EXCEPT !.more = TRUE]
        ELSE IF ~probe.more THEN probe
        ELSE [Do(SameTargets, again) EXCEPT !.more = TRUE]

SetActiveTargets(r) ==
    CASE setup.type = "targets" -> CycleTargets(r)
      [] setup.type = "workers" -> CycleWorkers(r)
      [] setup.type = "workersTargets" -> CycleWorkersTargets(r)
      [] setup.type = "parallel" -> IncrementTargets(r)
      [] setup.type = "serial" -> IncrementTargetsSerial(r)
      [] setup.type = "queue" -> CycleQueue(r)
      [] setup.type = "queueTargets" -> CycleTargetsQueue(r)
      [] OTHER -> Normal(r)

InitAccessSpecRun(r) ==
    [Cleared(r) EXCEPT !.next =
        [workers |-> setup.workers.start, worker_exponent |-> 1,
         targets |-> setup.targets.start, target_exponent |-> 1,
         queue |-> setup.queue.start, queue_exponent |-> 1]]

Current == [active |-> active, depth |-> depth, next |-> next, index |-> access_index, more |-> FALSE]
Becomes(r) == active' = r.active /\ depth' = r.depth /\ next' = r.next

-----------------------------------------------------------------------------
(* The run.                                                                *)

CycleInit ==
    /\ setup \in Setups
    /\ layout \in Layouts
    /\ active = [i \in Workers |-> 0]
    /\ depth = [i \in Workers |-> layout[i].depth]
    /\ next = [workers |-> 0, worker_exponent |-> 1, targets |-> 0, target_exponent |-> 1,
               queue |-> 0, queue_exponent |-> 1]
    /\ saved = <<>>
    /\ phase = "idle"
    /\ access_index = 0 /\ run_index = 0 /\ run_count = 0 /\ nth = 0
    /\ mishap = "none"

\* SaveSettings: the depths are kept only if cycling changes them.
SaveSettings == saved' = IF setup.type \in {"queue", "queueTargets"} THEN depth ELSE saved

\* Go up to CalcRunCount.
Go ==
    /\ phase = "idle" /\ ~InvalidSetup
    /\ SaveSettings
    /\ run_count' = 0 /\ access_index' = 0 /\ nth' = 0
    /\ Becomes(InitAccessSpecRun(Current))
    /\ phase' = "counting"
    /\ UNCHANGED <<session, run_index, mishap>>

\* CalcRunCount, one turn of its inner loop: another run of this specification.
CountRun ==
    /\ phase = "counting" /\ access_index < MaxSpecs /\ run_count < MaxRuns
    /\ setup.type # "normal" \/ nth = 0
    /\ \E r \in {SetActiveTargets(Current)} : r.more /\ Becomes(r)
    /\ run_count' = run_count + 1
    /\ nth' = nth + 1
    /\ UNCHANGED <<session, saved, phase, access_index, run_index, mishap>>

\* The loop has ended; a specification that is only Idle is one run as well.
IdleRun(index) == nth = 0 /\ \E i \in Workers : HasIdleCurrentSpec(i, index)
CountSpec ==
    /\ phase = "counting" /\ access_index < MaxSpecs
    /\ (setup.type = "normal" /\ nth = 1) \/ ~SetActiveTargets(Current).more
    /\ run_count' = run_count + (IF IdleRun(access_index) THEN 1 ELSE 0)
    /\ access_index' = access_index + 1
    /\ nth' = 0
    /\ Becomes(InitAccessSpecRun(Current))
    /\ UNCHANGED <<session, saved, phase, run_index, mishap>>

\* Go after CalcRunCount: the first specification, its disks perhaps unprepared.
Prepare ==
    /\ phase = "counting" /\ access_index >= MaxSpecs
    /\ access_index' = 0 /\ run_index' = 0 /\ nth' = 0
    /\ Becomes(InitAccessSpecRun(Current))
    /\ phase' = "preparing"
    /\ UNCHANGED <<session, saved, run_count, mishap>>

\* StartTest with the targets of r.  If a message of it is refused, Abort follows.
StartTest(r) ==
    /\ Becomes(r)
    /\ phase' = "testing"
    /\ run_index' = run_index + 1
    /\ UNCHANGED <<session, saved, run_count, mishap>>

\* All disks are ready, from Go at once or after PREPARE_TIMER.
Prepared ==
    /\ phase = "preparing"
    /\ \E r \in {SetActiveTargets(Cleared(Current))} : StartTest(r)
    /\ nth' = 1
    /\ UNCHANGED access_index

\* The next specification under which anybody performs I/O or is idle.
ActiveInCurrentTest(index) ==
    \E i \in Workers : \/ HasActiveCurrentSpec(i, index) /\ layout[i].targets > 0
                       \/ HasIdleCurrentSpec(i, index)
NextSpecs == {k \in access_index + 1 .. MaxSpecs - 1 : ActiveInCurrentTest(k)}

\* StopTest(ReturnSuccess): the timer has expired or the user pressed Stop.
NextTest ==
    /\ phase = "testing" /\ run_index < run_count
    /\ \E r \in {SetActiveTargets(Current)} : r.more /\ StartTest(r)
    /\ nth' = nth + 1
    /\ UNCHANGED access_index

NextSpec ==
    /\ phase = "testing" /\ run_index < run_count
    /\ ~SetActiveTargets(Current).more
    /\ NextSpecs # {}
    /\ access_index' = Min(NextSpecs)
    /\ \E r \in {SetActiveTargets(InitAccessSpecRun([Current EXCEPT !.index = Min(NextSpecs)]))} :
            StartTest(r)
    /\ nth' = 1

\* RestoreSettings: all workers there are now, with the numbers saved at Go.
Mutant_RestoreSettings ==
    /\ depth' = depth
    /\ saved' = <<>>
RestoreSettings ==
    /\ IF saved = <<>> THEN UNCHANGED depth
       ELSE depth' = [i \in Workers |->
                IF layout[i].kind # "disk" THEN depth[i]
                ELSE IF i \in DOMAIN saved THEN saved[i] ELSE Garbage]
    /\ saved' = <<>>

TestDone ==
    /\ phase = "testing" /\ run_index >= run_count
    /\ RestoreSettings
    /\ phase' = "idle"
    /\ UNCHANGED <<session, active, next, access_index, run_index, run_count, nth, mishap>>

\* StopAll, or a round of messages that was refused.
Abort ==
    /\ phase = "testing"
    /\ RestoreSettings
    /\ phase' = "idle"
    /\ UNCHANGED <<session, active, next, access_index, run_index, run_count, nth, mishap>>

\* StopAll while disks are prepared: no TestDone, so nothing is restored.
AbortPreparation ==
    /\ phase = "preparing"
    /\ phase' = "idle"
    /\ mishap' = "aborted"
    /\ UNCHANGED <<session, active, depth, next, saved, access_index, run_index, run_count, nth>>

\* PREPARE_TIMER with a negative answer: TestDone(ReturnError), and on with
\* DisksNotPrepared, which asks for the same disks again.
PreparationFails ==
    /\ phase = "preparing"
    /\ RestoreSettings
    /\ mishap' = "failed"
    /\ UNCHANGED <<session, active, next, phase, access_index, run_index, run_count, nth>>

\* AddManager between two messages: its workers have no targets yet.
Login ==
    /\ phase \in {"idle", "preparing", "testing"}
    /\ Len(layout) + Len(Newcomers) <= MaxWorkers
    /\ layout' = layout \o Newcomers
    /\ active' = active \o [i \in DOMAIN Newcomers |-> 0]
    /\ depth' = depth \o [i \in DOMAIN Newcomers |-> Newcomers[i].depth]
    /\ UNCHANGED <<setup, next, saved, phase, access_index, run_index, run_count, nth, mishap>>

Gui == CountRun \/ CountSpec \/ Prepare
Timer == NextTest \/ NextSpec \/ TestDone
CycleNext == Go \/ Gui \/ Prepared \/ Timer \/ Abort \/ AbortPreparation \/ PreparationFails \/ Login

\* The window handles what is due, preparing ends, the run time is set.
CycleSpec == /\ CycleInit /\ [][CycleNext]_cyclevars
             /\ WF_cyclevars(Gui) /\ WF_cyclevars(Prepared) /\ WF_cyclevars(Timer)
-----------------------------------------------------------------------------
(* Properties.                                                             *)

Guide == INSTANCE TestSeries

CycleTypeOK ==
    /\ setup \in Setups
    /\ Workers = DOMAIN active /\ Workers = DOMAIN depth
    /\ \A i \in Workers : active[i] \in 0 .. layout[i].targets /\ depth[i] \in Nat
    /\ phase \in {"idle", "counting", "preparing", "testing"}
    /\ access_index \in 0 .. MaxSpecs
    /\ run_count \in 0 .. MaxRuns /\ run_index \in 0 .. MaxRuns /\ nth \in 0 .. MaxRuns
    /\ mishap \in {"none", "aborted", "failed"}

\* Every test that runs is the one of the user guide's series whose turn it is: its
\* targets, and for the disk workers that take part their outstanding I/Os.  The
\* methods compute it from counters that they also move, in steps of their own.
\* What CalcRunCount announced is the number of all tests of that series, and run_index
\* counts those that were reached: StopTest ends the run after the last one and not before,
\* however managers log in meanwhile.
AsDocumented ==
    phase = "testing" =>
        LET series == Guide!Series(setup, layout, access_index) IN
        /\ nth \in DOMAIN series
        /\ active = series[nth].active
        /\ series[nth].depth # 0 =>
              \A i \in Guide!Participants(layout, access_index) :
                  layout[i].kind = "disk" => depth[i] = series[nth].depth
        /\ run_count = Guide!TestsBefore(setup, layout, MaxSpecs)
        /\ run_index = Guide!TestsBefore(setup, layout, access_index) + nth

\* Between runs every worker the user configured has its own queue depth again
\* (SaveSettings, RestoreSettings), although counting and testing change it.
Restored == \A i \in Workers : layout[i].targets > 0 => depth[i] = layout[i].depth
DepthsRestored == phase = "idle" /\ mishap = "none" => Restored

\* Counting, preparing and testing come to an end.
SeriesEnds == (phase # "idle") ~> (phase = "idle")
=============================================================================
