-------------------------- MODULE DiskPrepare_proofs --------------------------
(***************************************************************************)
(* For every number of managers, workers and disks: while disks are        *)
(* prepared, and after an abort, Iometer and the managers stay in step, no *)
(* thread outlives the answer, and a disk taken for ready is filled or has *)
(* failed.  Where threads may not be allocated, it is those of a manager's *)
(* first worker (FirstFails): the threads of earlier ones would run on.    *)
(***************************************************************************)
EXTENDS DiskPrepare, FiniteSetTheorems, SequenceTheorems, WellFoundedInduction, TLAPS

\* A manager gives up at its first worker or at none.
FirstFails == \A w \in MayFail : w = First(WorkersOf(ManagerOf[w]))

-------------------------------------------------------------------------------
(* The invariant. *)

Stop == [purpose |-> "STOP_PREPARE"]
Prep == [purpose |-> "PREP_DISKS"]
Set(w) == [purpose |-> "SET_TARGETS", worker |-> w, targets |-> Unready(w)]

\* The disks of a grunt on which a thread is at work.
Alive(w) == {d \in Logical : thread[w][d] # "none"}
Quiet(m) == \A w \in WorkersOf(m) : Alive(w) = {}

\* The grunts the manager has waited for have no threads left.
QuietBefore(m) == \A w \in WorkersOf(m) : w < waits_for[m] => Alive(w) = {}

\* The manager waits for a grunt, has answered, or has nothing to answer.
Waits(m)    == waits_for[m] \in WorkersOf(m) /\ reply[m] = <<>> /\ QuietBefore(m)
Answered(m) == waits_for[m] = 0 /\ reply[m] \in {<<TRUE>>, <<FALSE>>} /\ Quiet(m)
Unasked(m)  == waits_for[m] = 0 /\ reply[m] = <<>> /\ Quiet(m)

\* Nobody waits for the manager; the message that stops a preparation may
\* come after its end and lie there until the next one.
Resting(m) == Unasked(m) /\ inbox[m] \in {<<>>, <<Stop>>}

Setting(m) ==
    \/ /\ Unasked(m)
       /\ \E w \in WorkersOf(m) : inbox[m] \in {<<Set(w)>>, <<Stop, Set(w)>>}
    \/ Answered(m) /\ inbox[m] = <<>>

Preparing(m) ==
    \/ Unasked(m) /\ inbox[m] = <<Prep>>
    \/ (Waits(m) \/ Answered(m)) /\ inbox[m] = <<>>

Stopping(m) ==
    \/ Unasked(m) /\ inbox[m] = <<Prep, Stop>>
    \/ (Waits(m) \/ Answered(m)) /\ inbox[m] \in {<<>>, <<Stop>>}

\* Iometer waits for the manager.
Attending == stage \in {"set", "preparing", "stopping"}

Phase(m) ==
    /\ m # manager_to_prepare \/ ~Attending => Resting(m)
    /\ m = manager_to_prepare =>
          /\ stage = "scan" /\ requirePrepare => inbox[m] = <<>>
          /\ stage = "set" => Setting(m)
          /\ stage = "preparing" => Preparing(m)
          /\ stage = "stopping" => Stopping(m)

\* PREP_DISKS is sent to a manager one of whose workers needs it.
Required == /\ Attending => requirePrepare
            /\ requirePrepare => WorkersOf(manager_to_prepare) # {}

\* not_ready counts the threads, and perhaps raw targets without one.
Counting == \A w \in Worker : not_ready[w] >= Cardinality(Alive(w))

\* The grunt has its unprepared disks as targets, or is about to get them.
SetUp(w) == Unready(w) \subseteq targets[w]
OnItsWay(w) == stage = "set" /\ inbox[manager_to_prepare] \in {<<Set(w)>>, <<Stop, Set(w)>>}

TargetsFollow ==
    \A w \in Worker : ManagerOf[w] = manager_to_prepare =>
        /\ stage \in {"scan", "set"} /\ w < worker_to_prepare => SetUp(w) \/ OnItsWay(w)
        /\ stage = "preparing" => SetUp(w)

\* Until it is aborted a preparation fills its disks.
Safe(d) == d \in filled \cup Fallible
Filling(w, d) == thread[w][d] \in {"open", "fill"} /\ grunt_state[w] = "TestPreparing"

FillsAll ==
    \A w \in Worker : stage = "preparing" /\ ManagerOf[w] = manager_to_prepare =>
        \A d \in targets[w] \cap Logical :
            /\ waits_for[manager_to_prepare] # 0 => Safe(d) \/ Filling(w, d)
            /\ reply[manager_to_prepare] = <<TRUE>> => Safe(d)

\* What Iometer does by itself: all but the user's clicks in the target tree.
Works == \/ Go \/ CheckWorker \/ TargetsSet \/ ManagerScanned \/ StartTest
         \/ PrepareTimer \/ StopPreparing \/ Stopped

\* From Start on the pages are disabled, and stay so as long as test_state is not
\* idle at every EnableWindow(TRUE) before the end.
Locked ==
    /\ test_state \in {"TestIdle", "TestPreparing"} /\ enabled \in BOOLEAN
    /\ stage # "idle" => ~enabled
    /\ stage \in {"idle", "stopping"} => test_state = "TestIdle"
    /\ stage = "preparing" => test_state = "TestPreparing"
    /\ stage \in {"scan", "set"} /\ requirePrepare => test_state = "TestPreparing"

PerManager(f) == f = [m \in Manager |-> f[m]]

Types ==
    /\ stage \in {"idle", "scan", "set", "preparing", "stopping"}
    /\ assign \in Assignment
    /\ ready \subseteq Logical /\ filled \subseteq Logical
    /\ manager_to_prepare \in 1 .. M + 1
    /\ stage \notin {"idle", "scan"} => manager_to_prepare \in Manager
    /\ worker_to_prepare \in 1 .. W + 1
    /\ requirePrepare \in BOOLEAN
    /\ PerManager(inbox) /\ PerManager(reply)
    /\ waits_for \in [Manager -> 0 .. W]
    /\ targets \in [Worker -> SUBSET (Logical \cup Raw)]
    /\ grunt_state \in [Worker -> {"TestIdle", "TestPreparing"}]
    /\ not_ready \in [Worker -> Nat]
    /\ critical_error \in [Worker -> BOOLEAN]
    /\ thread \in [Worker -> [Logical -> {"none", "open", "fill", "done"}]]

Phases == \A m \in Manager : Phase(m)

IInv == /\ Types /\ Phases /\ Required /\ Counting /\ Locked
        /\ TargetsFollow /\ FillsAll /\ ReadyMeansFilled

-------------------------------------------------------------------------------
(* Sets of workers, disks, and short sequences. *)

\* Workers and managers are numbers, workers have managers.
LEMMA Workers ==
    /\ Worker \subseteq Nat /\ 0 \notin Worker
    /\ \A w \in Worker : w \in 0 .. W /\ w + 1 \in 1 .. W + 1
    /\ 0 \in 0 .. W /\ 1 \in 1 .. W + 1
  BY PrepareAssumption DEF Worker

LEMMA Managers ==
    /\ Manager \subseteq Nat /\ 0 \notin Manager /\ 1 \in 1 .. M + 1
    /\ \A m \in 1 .. M + 1 : m <= M => m \in Manager /\ m + 1 \in 1 .. M + 1
  BY PrepareAssumption DEF Manager

LEMMA Manned ==
    ASSUME NEW m
    PROVE  /\ WorkersOf(m) \subseteq Worker
           /\ \A w \in WorkersOf(m) : ManagerOf[w] = m /\ m \in Manager
           /\ \A w \in Worker : ManagerOf[w] = m => w \in WorkersOf(m)
  BY PrepareAssumption DEF WorkersOf

\* First returns the first.
LEMMA FirstOf ==
    ASSUME NEW S \in SUBSET Worker, S # {}
    PROVE  First(S) \in S /\ \A x \in S : First(S) <= x
<1> DEFINE less == OpToRel(<, Nat)
<1>1. IsWellFoundedOn(less, Nat)
  BY NatLessThanWellFounded
<1>2. S \subseteq Nat
  BY Workers
<1>3. PICK x \in S : \A y \in S : <<y, x>> \notin less
  BY <1>1, <1>2, WFMin
<1>4. \A y \in S : ~(y < x)
  BY <1>2, <1>3 DEF OpToRel
<1>5. \A y \in S : x <= y
  BY <1>2, <1>4
<1> QED
  BY <1>5 DEF First

\* Two messages in an inbox.
LEMMA AppendSecond ==
    ASSUME NEW S, NEW s \in Seq(S), NEW a \in S, NEW b \in S, Len(s) = 1, s[1] = a
    PROVE  Append(s, b) = <<a, b>>
<1>1. Append(s, b) \in Seq(S) /\ Append(s, b)[1] = a
  BY AppendProperties
<1>2. Len(Append(s, b)) = Len(s) + 1
  BY AppendProperties
<1>3. Append(s, b)[Len(s) + 1] = b
  BY AppendProperties
<1>4. <<a, b>> \in Seq(S) /\ Len(<<a, b>>) = 2 /\ <<a, b>>[1] = a /\ <<a, b>>[2] = b
  OBVIOUS
<1>5. ASSUME NEW t \in Seq(S), NEW u \in Seq(S), Len(t) = 2, Len(u) = 2,
             t[1] = u[1], t[2] = u[2]
      PROVE  t = u
  <2>1. \A i \in 1 .. 2 : i = 1 \/ i = 2
    OBVIOUS
  <2> QED
    BY <1>5, <2>1, SeqEqual
<1>6. Len(Append(s, b)) = 2 /\ Append(s, b)[2] = b
  BY <1>2, <1>3
<1> QED
  BY <1>1, <1>4, <1>5, <1>6

\* What is sent, received and left.
LEMMA Short ==
    ASSUME NEW a, NEW b
    PROVE  /\ Append(<<>>, a) = <<a>> /\ Append(<<a>>, b) = <<a, b>>
           /\ Head(<<a>>) = a /\ Tail(<<a>>) = <<>>
           /\ Head(<<a, b>>) = a /\ Tail(<<a, b>>) = <<b>>
           /\ <<a>> # <<>> /\ <<a, b>> # <<>>
           /\ Len(<<a>>) = 1 /\ Len(<<a, b>>) = 2
<1> DEFINE S == {a, b}
           s == <<a>>
<1>1. s \in Seq(S) /\ a \in S /\ b \in S /\ Len(s) = 1 /\ s[1] = a
  OBVIOUS
<1> HIDE DEF S, s
<1>2. Append(s, b) = <<a, b>>
  BY <1>1, AppendSecond
<1> QED
  BY <1>2 DEF s

\* Sequences of one element differ from those of two, and by their elements.
LEMMA Differ ==
    ASSUME NEW a, NEW b, NEW c, NEW d
    PROVE  /\ <<a>> # <<b, c>>
           /\ <<a, b>> = <<c, d>> => a = c /\ b = d
           /\ <<a>> = <<b>> => a = b
  OBVIOUS

\* The messages differ.
LEMMA Messages ==
    /\ Stop.purpose = "STOP_PREPARE" /\ Prep.purpose = "PREP_DISKS" /\ Stop # Prep
    /\ \A w : /\ Set(w).purpose = "SET_TARGETS" /\ Set(w).worker = w
              /\ Set(w).targets = Unready(w)
              /\ Set(w) # Stop /\ Set(w) # Prep
  BY DEF Stop, Prep, Set

\* Targets are finitely many.
LEMMA FinitelyMany ==
    ASSUME NEW S \in SUBSET (Logical \cup Raw)
    PROVE  IsFiniteSet(S) /\ Cardinality(S) \in Nat
  BY PrepareAssumption, FS_Subset, FS_CardinalityType

\* First for the workers of a manager.
LEMMA FirstWorker ==
    ASSUME NEW m \in Manager, WorkersOf(m) # {}
    PROVE  First(WorkersOf(m)) \in WorkersOf(m) /\ \A w \in WorkersOf(m) : First(WorkersOf(m)) <= w
  BY FirstOf, Manned

-------------------------------------------------------------------------------
(* Types. *)

LEMMA Flags ==
    ASSUME NEW f \in [Worker -> BOOLEAN], NEW w \in Worker, NEW b \in BOOLEAN
    PROVE  [f EXCEPT ![w] = b] \in [Worker -> BOOLEAN]
  BY Zenon

LEMMA NextGrunt ==
    ASSUME NEW f \in [Manager -> 0 .. W], NEW m \in Manager, NEW w \in 0 .. W
    PROVE  [f EXCEPT ![m] = w] \in [Manager -> 0 .. W]
  OBVIOUS

\* Messages and replies of one manager leave those of the others alone.
LEMMA Sent ==
    ASSUME PerManager(inbox), NEW m \in Manager, NEW x, Send(m, x)
    PROVE  /\ PerManager(inbox')
           /\ inbox'[m] = Append(inbox[m], x)
           /\ \A i \in Manager : i # m => inbox'[i] = inbox[i]
  BY DEF Send, PerManager

LEMMA Taken ==
    ASSUME PerManager(inbox), NEW m \in Manager, NEW p, Takes(m, p)
    PROVE  /\ PerManager(inbox')
           /\ inbox[m] # <<>> /\ Head(inbox[m]).purpose = p
           /\ inbox'[m] = Tail(inbox[m])
           /\ \A i \in Manager : i # m => inbox'[i] = inbox[i]
  BY DEF Takes, PerManager

LEMMA Replied ==
    ASSUME PerManager(reply), NEW m \in Manager, NEW ok, Answer(m, ok)
    PROVE  /\ PerManager(reply')
           /\ reply'[m] = Append(reply[m], ok)
           /\ \A i \in Manager : i # m => reply'[i] = reply[i]
  BY DEF Answer, PerManager

LEMMA FirstReply ==
    ASSUME PerManager(reply), NEW m \in Manager, reply[m] = <<>>
    PROVE  \A ok : Answer(m, ok) => reply'[m] = <<ok>>
  BY Replied, Short

LEMMA Received ==
    ASSUME PerManager(reply), NEW m \in Manager, Receive(m)
    PROVE  /\ PerManager(reply')
           /\ reply[m] # <<>> /\ reply'[m] = Tail(reply[m])
           /\ \A i \in Manager : i # m => reply'[i] = reply[i]
  BY DEF Receive, PerManager

\* A thread that is there has been counted.
LEMMA Counted ==
    ASSUME Types, Counting, NEW w \in Worker
    PROVE  /\ IsFiniteSet(Alive(w)) /\ Cardinality(Alive(w)) \in Nat
           /\ not_ready[w] \in Nat
           /\ not_ready[w] = 0 => Alive(w) = {}
           /\ Alive(w) # {} => not_ready[w] - 1 \in Nat
<1>1. Alive(w) \in SUBSET (Logical \cup Raw)
  BY DEF Alive
<1>2. IsFiniteSet(Alive(w)) /\ Cardinality(Alive(w)) \in Nat
  BY <1>1, FinitelyMany
<1>3. Alive(w) # {} => Cardinality(Alive(w)) # 0
  BY <1>2, FS_EmptySet
<1>4. not_ready[w] \in Nat /\ not_ready[w] >= Cardinality(Alive(w))
  BY DEF Types, Counting
<1>5. Alive(w) # {} => not_ready[w] # 0 /\ not_ready[w] - 1 \in Nat
  BY <1>2, <1>3, <1>4
<1> QED
  BY <1>2, <1>4, <1>5

LEMMA IometerTypes ==
    ASSUME Types, Works
    PROVE  Types'
<1> USE DEF Types, vars, view, ports, grunt
<1>1. CASE Go
  BY <1>1, Managers, Workers DEF Go, Scan
<1>2. CASE CheckWorker
  <2> DEFINE w == First(WorkersLeft)
  <2>1. w \in WorkersLeft
    BY <1>2, FirstOf, Manned DEF CheckWorker, WorkersLeft
  <2>2. w \in Worker /\ manager_to_prepare \in Manager
    BY <2>1, Manned DEF WorkersLeft
  <2>3. w + 1 \in 1 .. W + 1
    BY <2>2, Workers
  <2> HIDE DEF w
  <2>4. worker_to_prepare' = w + 1
    BY <1>2 DEF CheckWorker, w
  <2>5. /\ stage' \in {stage, "set"} /\ requirePrepare' \in BOOLEAN
        /\ PerManager(inbox')
    BY <1>2, <2>2, Sent DEF CheckWorker
  <2> QED
    BY <1>2, <2>2, <2>3, <2>4, <2>5 DEF CheckWorker
<1>3. CASE TargetsSet
  BY <1>3, Received DEF TargetsSet
<1>4. CASE ManagerScanned
  BY <1>4, Sent, Managers, Workers DEF ManagerScanned, Scan
<1>5. CASE StartTest
  BY <1>5, PrepareAssumption DEF StartTest
<1>6. CASE PrepareTimer
  <2> DEFINE new == UNION {assign[w] \cap Logical : w \in WorkersOf(manager_to_prepare)}
  <2>1. new \subseteq Logical
    OBVIOUS
  <2>3. ready' \in {ready, ready \cup new}
    BY <1>6 DEF PrepareTimer, PreparedAnswer
  <2> HIDE DEF new
  <2>2. ready' \subseteq Logical
    BY <2>1, <2>3
  <2> QED
    BY <1>6, <2>2, Received, Workers DEF PrepareTimer, Scan
<1>7. CASE StopPreparing
  BY <1>7, Sent DEF StopPreparing
<1>8. CASE Stopped
  BY <1>8, Received DEF Stopped
<1> QED
  BY <1>1, <1>2, <1>3, <1>4, <1>5, <1>6, <1>7, <1>8 DEF Works

LEMMA ThreadTypes ==
    ASSUME Types, Counting, NEW w \in Worker, NEW d \in Logical,
           Open(w, d) \/ Fill(w, d) \/ FailToFill(w, d) \/ StopFilling(w, d) \/ Done(w, d)
    PROVE  Types'
<1> USE DEF Types, view, ports, Goto
<1>1. CASE Open(w, d)
  <2>1. /\ thread' \in {[thread EXCEPT ![w][d] = pc] : pc \in {"fill", "done"}}
        /\ critical_error' \in {[critical_error EXCEPT ![w] = b] : b \in BOOLEAN}
    BY <1>1 DEF Open
  <2>2. critical_error' \in [Worker -> BOOLEAN]
    BY <2>1, Flags
  <2>3. thread' \in [Worker -> [Logical -> {"none", "open", "fill", "done"}]]
    <3>1. ASSUME NEW pc \in {"fill", "done"}
          PROVE  [thread EXCEPT ![w][d] = pc]
                     \in [Worker -> [Logical -> {"none", "open", "fill", "done"}]]
      OBVIOUS
    <3> QED
      BY <2>1, <3>1
  <2> QED
    BY <1>1, <2>2, <2>3 DEF Open
<1>2. CASE Fill(w, d)
  BY <1>2 DEF Fill
<1>3. CASE FailToFill(w, d)
  BY <1>3 DEF FailToFill
<1>4. CASE StopFilling(w, d)
  BY <1>4 DEF StopFilling
<1>5. CASE Done(w, d)
  <2>1. d \in Alive(w)
    BY <1>5 DEF Done, Alive
  <2>2. not_ready[w] - 1 \in Nat
    BY <2>1, Counted
  <2> QED
    BY <1>5, <2>2 DEF Done
<1> QED
  BY <1>1, <1>2, <1>3, <1>4, <1>5

\* A manager takes a message only when nothing waits there: what it then finds.
LEMMA Asked ==
    ASSUME Types, Phases, Required, NEW m \in Manager, Takes(m, "PREP_DISKS")
    PROVE  /\ WorkersOf(m) # {} /\ m = manager_to_prepare
           /\ stage \in {"preparing", "stopping"} /\ Unasked(m)
           /\ inbox'[m] = IF stage = "preparing" THEN <<>> ELSE <<Stop>>
<1>1. inbox[m] # <<>> /\ Head(inbox[m]).purpose = "PREP_DISKS" /\ inbox'[m] = Tail(inbox[m])
  BY Taken DEF Types
<1>2. Phase(m)
  BY DEF Phases
<1>3. ~Resting(m)
  BY <1>1, Messages, Short DEF Resting
<1>4. ~Setting(m)
  BY <1>1, Messages, Short DEF Setting
<1>5. m = manager_to_prepare /\ Attending /\ stage # "set"
  BY <1>2, <1>3, <1>4 DEF Phase
<1>6. CASE stage = "preparing"
  <2>1. Preparing(m)
    BY <1>2, <1>5, <1>6 DEF Phase
  <2>2. Unasked(m) /\ inbox[m] = <<Prep>>
    BY <1>1, <2>1 DEF Preparing
  <2> QED
    BY <1>1, <1>5, <1>6, <2>2, Short DEF Required
<1>7. CASE stage = "stopping"
  <2>1. Stopping(m)
    BY <1>2, <1>5, <1>7 DEF Phase
  <2>2. Unasked(m) /\ inbox[m] = <<Prep, Stop>>
    BY <1>1, <2>1, Messages, Short DEF Stopping
  <2> QED
    BY <1>1, <1>5, <1>7, <2>2, Short DEF Required
<1> QED
  BY <1>5, <1>6, <1>7 DEF Attending

LEMMA AskedTargets ==
    ASSUME Types, Phases, NEW m \in Manager, Takes(m, "SET_TARGETS")
    PROVE  /\ m = manager_to_prepare /\ stage = "set" /\ Unasked(m)
           /\ inbox'[m] = <<>>
           /\ \E w \in WorkersOf(m) : inbox[m] = <<Set(w)>> /\ Head(inbox[m]) = Set(w)
<1>1. inbox[m] # <<>> /\ Head(inbox[m]).purpose = "SET_TARGETS" /\ inbox'[m] = Tail(inbox[m])
  BY Taken DEF Types
<1>2. Phase(m)
  BY DEF Phases
<1>3. ~Resting(m)
  BY <1>1, Messages, Short DEF Resting
<1>4. ~Preparing(m) /\ ~Stopping(m)
  BY <1>1, Messages, Short DEF Preparing, Stopping
<1>5. m = manager_to_prepare /\ stage = "set" /\ Setting(m)
  BY <1>2, <1>3, <1>4 DEF Phase, Attending
<1>6. Unasked(m) /\ \E w \in WorkersOf(m) : inbox[m] = <<Set(w)>>
  BY <1>1, <1>5, Messages, Short DEF Setting
<1> QED
  BY <1>1, <1>5, <1>6, Short

LEMMA ManagerTypes ==
    ASSUME Types, Phases, Required, NEW m \in Manager, MessageLoop(m)
    PROVE  Types'
<1> USE DEF Types, view
<1>1. CASE Set_Targets(m)
  <2>1. /\ Head(inbox[m]).purpose = "SET_TARGETS"
        /\ targets' = [targets EXCEPT ![Head(inbox[m]).worker] = Head(inbox[m]).targets]
        /\ inbox[m] # <<>>
    BY <1>1, Taken DEF Set_Targets
  <2>2. PICK w \in Worker : Head(inbox[m]) = Set(w)
    BY <1>1, AskedTargets, Manned DEF Set_Targets
  <2>3. targets' = [targets EXCEPT ![w] = Unready(w)]
    BY <2>1, <2>2, Messages
  <2>4. Unready(w) \subseteq Logical
    BY DEF Unready
  <2>5. targets' \in [Worker -> SUBSET (Logical \cup Raw)]
    BY <2>3, <2>4
  <2> QED
    BY <1>1, <2>5, Taken, Replied DEF Set_Targets
<1>2. CASE Prepare_Disks(m)
  <2>1. PICK S \in SUBSET Worker, T \in SUBSET Worker : StartThreads(S, T)
    <3>1. CASE StartThreads(WorkersOf(m), WorkersOf(m))
      BY <3>1, Manned
    <3>2. ASSUME NEW w \in WorkersOf(m) \cap MayFail,
                 StartThreads({v \in WorkersOf(m) : v <= w}, {v \in WorkersOf(m) : v < w})
          PROVE  \E S \in SUBSET Worker, T \in SUBSET Worker : StartThreads(S, T)
      BY <3>2, Manned
    <3> QED
      BY <1>2, <3>1, <3>2 DEF Prepare_Disks
  <2>2. grunt_state' \in [Worker -> {"TestIdle", "TestPreparing"}]
    BY <2>1 DEF StartThreads, Put
  <2>3. \A w \in Worker : Cardinality(targets[w]) \in Nat
    BY FinitelyMany
  <2>4. not_ready' \in [Worker -> Nat]
    BY <2>1, <2>3 DEF StartThreads
  <2>5. thread' \in [Worker -> [Logical -> {"none", "open", "fill", "done"}]]
    BY <2>1 DEF StartThreads
  <2>6. waits_for' \in [Manager -> 0 .. W] /\ PerManager(reply')
    <3>0. Takes(m, "PREP_DISKS")
      BY <1>2 DEF Prepare_Disks
    <3>1. WorkersOf(m) # {}
      BY <3>0, Asked
    <3>2. First(WorkersOf(m)) \in 0 .. W
      BY <3>1, FirstWorker, Manned, Workers
    <3> QED
      <4>1. \/ /\ waits_for' = [waits_for EXCEPT ![m] = First(WorkersOf(m))]
               /\ UNCHANGED reply
            \/ Answer(m, FALSE) /\ UNCHANGED waits_for
        BY <1>2 DEF Prepare_Disks
      <4>2. CASE /\ waits_for' = [waits_for EXCEPT ![m] = First(WorkersOf(m))]
                 /\ UNCHANGED reply
        <5>1. waits_for' \in [Manager -> 0 .. W]
          BY <3>2, <4>2, NextGrunt
        <5> QED
          BY <4>2, <5>1
      <4>3. CASE Answer(m, FALSE) /\ UNCHANGED waits_for
        BY <4>3, Replied
      <4> QED
        BY <4>1, <4>2, <4>3
  <2> QED
    BY <1>2, <2>2, <2>4, <2>5, <2>6, Taken DEF Prepare_Disks
<1>3. CASE GruntReady(m)
  <2> DEFINE w == waits_for[m]
             after == {v \in WorkersOf(m) : v > w}
  <2>1. grunt_state' \in [Worker -> {"TestIdle", "TestPreparing"}]
    BY <1>3 DEF GruntReady
  <2>2. waits_for' \in [Manager -> 0 .. W] /\ PerManager(reply')
    <3>1. CASE after = {}
      <4>1. waits_for' = [waits_for EXCEPT ![m] = 0] /\ Answer(m, TRUE)
        BY <1>3, <3>1 DEF GruntReady
      <4>2. waits_for' \in [Manager -> 0 .. W]
        BY <4>1, NextGrunt, Workers
      <4> QED
        BY <4>1, <4>2, Replied
    <3>2. CASE after # {}
      <4>1. First(after) \in after
        BY <3>2, FirstOf, Manned
      <4>2. First(after) \in 0 .. W
        BY <4>1, Manned, Workers
      <4> QED
        BY <1>3, <3>2, <4>2, NextGrunt DEF GruntReady
    <3> QED
      BY <3>1, <3>2
  <2> QED
    BY <1>3, <2>1, <2>2 DEF GruntReady
<1>4. CASE Stop_Prepare(m)
  BY <1>4, Taken DEF Stop_Prepare, Put
<1> QED
  BY <1>1, <1>2, <1>3, <1>4 DEF MessageLoop

-------------------------------------------------------------------------------
(* Where Iometer and the managers are. *)

\* What is left alone stays at rest, or where it was.
LEMMA RestingStays ==
    ASSUME NEW m, Resting(m),
           inbox'[m] = inbox[m], reply'[m] = reply[m], waits_for'[m] = waits_for[m],
           \A w \in WorkersOf(m) : Alive(w)' \subseteq Alive(w)
    PROVE  Resting(m)'
  BY DEF Resting, Unasked, Quiet, Stop, WorkersOf, Worker

LEMMA PhaseStays ==
    ASSUME NEW m, Phase(m), UNCHANGED view,
           inbox'[m] = inbox[m], reply'[m] = reply[m], waits_for'[m] = waits_for[m],
           \A w \in WorkersOf(m) : Alive(w)' \subseteq Alive(w)
    PROVE  Phase(m)'
<1>1. Attending' <=> Attending
  BY DEF Attending, view
<1>2. Resting(m) => Resting(m)'
  BY RestingStays
<1>3. /\ Unasked(m) => Unasked(m)'
      /\ Answered(m) => Answered(m)'
      /\ Waits(m) => Waits(m)'
  BY DEF Unasked, Answered, Waits, Quiet, QuietBefore, WorkersOf, Worker
<1>4. Setting(m) => Setting(m)'
  <2>1. \A w : Set(w)' = Set(w)
    BY DEF Set, Unready, view
  <2>2. WorkersOf(m)' = WorkersOf(m)
    BY DEF WorkersOf, Worker
  <2> QED
    BY <1>3, <2>1, <2>2 DEF Setting
<1>5. (Preparing(m) => Preparing(m)') /\ (Stopping(m) => Stopping(m)')
  BY <1>3 DEF Preparing, Stopping, Prep, Stop
<1> QED
  BY <1>1, <1>2, <1>4, <1>5 DEF Phase, view

LEMMA AliveStays ==
    ASSUME UNCHANGED thread
    PROVE  \A w : Alive(w)' = Alive(w)
  BY DEF Alive

\* While Iometer waits for nobody.
LEMMA PhaseAtRest ==
    ASSUME NEW m, Resting(m)', ~Attending',
           m = manager_to_prepare' /\ stage' = "scan" /\ requirePrepare' => inbox'[m] = <<>>
    PROVE  Phase(m)'
  BY DEF Phase, Attending

LEMMA IometerPhases ==
    ASSUME Types, Phases, Required, Works
    PROVE  Phases'
<1> SUFFICES ASSUME NEW m \in Manager
             PROVE  Phase(m)'
  BY DEF Phases, Manager
<1>p. Phase(m)
  BY DEF Phases
<1>f. UNCHANGED <<waits_for, thread>>
  BY DEF Works, Go, CheckWorker, TargetsSet, ManagerScanned, StartTest, PrepareTimer,
         StopPreparing, Stopped, grunt
<1>a. \A w \in WorkersOf(m) : Alive(w)' \subseteq Alive(w)
  BY <1>f, AliveStays
<1>q. Quiet(m) => Quiet(m)'
  BY <1>a DEF Quiet, WorkersOf, Worker
<1>1. CASE Go
  <2>1. ~Attending /\ UNCHANGED ports /\ ~Attending' /\ requirePrepare' = FALSE
    BY <1>1 DEF Go, Scan, Attending
  <2>2. Resting(m)'
    BY <1>p, <1>f, <1>a, <2>1, RestingStays DEF Phase, ports
  <2> QED
    BY <2>1, <2>2, PhaseAtRest
<1>2. CASE CheckWorker
  <2>0. /\ First(WorkersLeft) \in WorkersOf(manager_to_prepare)
        /\ manager_to_prepare \in Manager
    BY <1>2, FirstOf, Manned DEF CheckWorker, WorkersLeft
  <2>1. PICK w \in WorkersOf(manager_to_prepare) : w = First(WorkersLeft)
    BY <2>0
  <2>2. /\ Resting(m) /\ stage = "scan" /\ UNCHANGED <<assign, ready, manager_to_prepare, reply>>
    BY <1>p, <1>2 DEF CheckWorker, Phase, Attending
  <2>3. CASE Unready(w) = {}
    <3>1. UNCHANGED <<stage, requirePrepare, inbox>>
      BY <1>2, <2>1, <2>3 DEF CheckWorker
    <3>2. Resting(m)'
      BY <1>f, <1>a, <2>2, <3>1, RestingStays
    <3> QED
      BY <1>p, <2>2, <3>1, <3>2, PhaseAtRest DEF Phase, Attending
  <2>4. CASE Unready(w) # {}
    <3>1. /\ stage' = "set" /\ requirePrepare' = TRUE
          /\ Send(manager_to_prepare, Set(w))
      BY <1>2, <2>1, <2>4 DEF CheckWorker, Set
    <3>2. CASE m # manager_to_prepare
      <4>1. Resting(m)'
        BY <1>f, <1>a, <2>0, <2>2, <3>1, <3>2, Sent, RestingStays DEF Types
      <4> QED
        BY <2>2, <3>2, <4>1 DEF Phase
    <3>3. CASE m = manager_to_prepare
      <4>1. inbox'[m] = Append(inbox[m], Set(w))
        BY <3>1, <3>3, Sent DEF Types
      <4>2. inbox'[m] \in {<<Set(w)>>, <<Stop, Set(w)>>}
        BY <2>2, <4>1, Short DEF Resting
      <4>3. Set(w)' = Set(w)
        BY <2>2 DEF Set, Unready
      <4>4. Unasked(m)'
        BY <1>f, <1>q, <2>2 DEF Resting, Unasked
      <4>5. Setting(m)'
        BY <2>1, <3>3, <4>2, <4>3, <4>4 DEF Setting, Stop, WorkersOf, Worker
      <4> QED
        BY <2>2, <3>1, <3>3, <4>5 DEF Phase, Attending
    <3> QED
      BY <3>2, <3>3
  <2> QED
    BY <2>3, <2>4
<1>r. ASSUME manager_to_prepare \in Manager, Attending, Receive(manager_to_prepare),
             UNCHANGED inbox
      PROVE  /\ m # manager_to_prepare => Resting(m)'
             /\ m = manager_to_prepare => Unasked(m)' /\ Answered(m)
  <2>1. CASE m # manager_to_prepare
    BY <1>p, <1>f, <1>a, <1>r, <2>1, Received, RestingStays DEF Phase, Types
  <2>2. CASE m = manager_to_prepare
    <3>1. reply[m] # <<>> /\ reply'[m] = Tail(reply[m])
      BY <1>r, <2>2, Received DEF Types
    <3>2. Answered(m)
      BY <1>p, <1>r, <2>2, <3>1
         DEF Phase, Attending, Setting, Preparing, Stopping, Waits, Unasked
    <3>3. reply'[m] = <<>>
      BY <3>1, <3>2, Short DEF Answered
    <3> QED
      BY <1>f, <1>q, <2>2, <3>2, <3>3 DEF Unasked, Answered
  <2> QED
    BY <2>1, <2>2
<1>3. CASE TargetsSet
  <2>1. /\ stage = "set" /\ Receive(manager_to_prepare) /\ stage' = "scan"
        /\ UNCHANGED <<manager_to_prepare, inbox>> /\ Attending /\ ~Attending'
    BY <1>3 DEF TargetsSet, Attending
  <2>2. manager_to_prepare \in Manager
    BY <2>1 DEF Types
  <2>3. CASE m # manager_to_prepare
    BY <1>r, <2>1, <2>2, <2>3, PhaseAtRest
  <2>4. CASE m = manager_to_prepare
    <3>1. Unasked(m)' /\ Answered(m)
      BY <1>r, <2>1, <2>2, <2>4
    <3>2. Setting(m)
      BY <1>p, <2>1, <2>4 DEF Phase
    <3>3. inbox'[m] = <<>>
      BY <2>1, <3>1, <3>2, Short DEF Setting, Answered, Unasked
    <3>4. Resting(m)'
      BY <3>1, <3>3 DEF Resting
    <3> QED
      BY <2>1, <3>3, <3>4, PhaseAtRest
  <2> QED
    BY <2>3, <2>4
<1>4. CASE ManagerScanned
  <2>1. Resting(m) /\ ~Attending
    BY <1>p, <1>4 DEF Phase, Attending, ManagerScanned
  <2>2. CASE ~requirePrepare
    <3>1. UNCHANGED <<reply, inbox>> /\ ~Attending' /\ requirePrepare' = FALSE
      BY <1>4, <2>2 DEF ManagerScanned, Scan, Attending
    <3>2. Resting(m)'
      BY <1>f, <1>a, <2>1, <3>1, RestingStays
    <3> QED
      BY <3>1, <3>2, PhaseAtRest
  <2>3. CASE requirePrepare
    <3>1. /\ stage' = "preparing" /\ Send(manager_to_prepare, Prep)
          /\ UNCHANGED <<manager_to_prepare, reply>> /\ stage = "scan"
          /\ manager_to_prepare \in Manager
      BY <1>4, <2>3, Managers DEF ManagerScanned, Prep, Types
    <3>2. CASE m # manager_to_prepare
      <4>1. Resting(m)'
        BY <1>f, <1>a, <2>1, <3>1, <3>2, Sent, RestingStays DEF Types
      <4> QED
        BY <3>1, <3>2, <4>1 DEF Phase
    <3>3. CASE m = manager_to_prepare
      <4>1. inbox[m] = <<>>
        BY <1>p, <2>3, <3>1, <3>3 DEF Phase
      <4>2. inbox'[m] = <<Prep>>
        BY <3>1, <3>3, <4>1, Sent, Short DEF Types
      <4>3. Unasked(m)'
        BY <1>f, <1>q, <2>1, <3>1 DEF Resting, Unasked
      <4>4. Preparing(m)'
        BY <4>2, <4>3 DEF Preparing, Prep
      <4> QED
        BY <3>1, <3>3, <4>4 DEF Phase, Attending
    <3> QED
      BY <3>2, <3>3
  <2> QED
    BY <2>2, <2>3
<1>5. CASE StartTest
  <2>1. Resting(m) /\ UNCHANGED ports /\ ~Attending' /\ stage' = "idle"
    BY <1>p, <1>5 DEF StartTest, Phase, Attending
  <2>2. Resting(m)'
    BY <1>f, <1>a, <2>1, RestingStays DEF ports
  <2> QED
    BY <2>1, <2>2, PhaseAtRest
<1>6. CASE PrepareTimer
  <2>1. /\ stage = "preparing" /\ Receive(manager_to_prepare) /\ requirePrepare' = FALSE
        /\ UNCHANGED inbox /\ Attending /\ ~Attending'
    BY <1>6 DEF PrepareTimer, Scan, Attending
  <2>2. manager_to_prepare \in Manager
    BY <2>1 DEF Types
  <2>3. CASE m # manager_to_prepare
    BY <1>r, <2>1, <2>2, <2>3, PhaseAtRest
  <2>4. CASE m = manager_to_prepare
    <3>1. Unasked(m)' /\ Answered(m)
      BY <1>r, <2>1, <2>2, <2>4
    <3>2. Preparing(m)
      BY <1>p, <2>1, <2>4 DEF Phase
    <3>3. inbox'[m] = <<>>
      BY <2>1, <3>1, <3>2, Short DEF Preparing, Answered, Unasked
    <3>4. Resting(m)'
      BY <3>1, <3>3 DEF Resting
    <3> QED
      BY <2>1, <3>3, <3>4, PhaseAtRest
  <2> QED
    BY <2>3, <2>4
<1>7. CASE StopPreparing
  <2>1. /\ stage = "preparing" /\ stage' = "stopping" /\ Send(manager_to_prepare, Stop)
        /\ UNCHANGED <<manager_to_prepare, reply>> /\ manager_to_prepare \in Manager
    BY <1>7 DEF StopPreparing, Stop, Types
  <2>2. CASE m # manager_to_prepare
    <3>1. Resting(m)
      BY <1>p, <2>2 DEF Phase
    <3>2. Resting(m)'
      BY <1>f, <1>a, <2>1, <2>2, <3>1, Sent, RestingStays DEF Types
    <3> QED
      BY <2>1, <2>2, <3>2 DEF Phase
  <2>3. CASE m = manager_to_prepare
    <3>1. Preparing(m)
      BY <1>p, <2>1, <2>3 DEF Phase
    <3>2. inbox'[m] = Append(inbox[m], Stop)
      BY <2>1, <2>3, Sent DEF Types
    <3>3. /\ Unasked(m) => Unasked(m)'
          /\ Answered(m) => Answered(m)'
          /\ Waits(m) => Waits(m)'
      BY <1>f, <1>a, <1>q, <2>1 DEF Unasked, Answered, Waits, QuietBefore, WorkersOf, Worker
    <3>4. Stopping(m)'
      BY <3>1, <3>2, <3>3, Short DEF Preparing, Stopping, Prep, Stop
    <3> QED
      BY <2>1, <2>3, <3>4 DEF Phase, Attending
  <2> QED
    BY <2>2, <2>3
<1>8. CASE Stopped
  <2>1. /\ stage = "stopping" /\ Receive(manager_to_prepare) /\ stage' = "idle"
        /\ UNCHANGED <<manager_to_prepare, inbox>> /\ Attending /\ ~Attending'
    BY <1>8 DEF Stopped, Attending
  <2>2. manager_to_prepare \in Manager
    BY <2>1 DEF Types
  <2>3. CASE m # manager_to_prepare
    BY <1>r, <2>1, <2>2, <2>3, PhaseAtRest
  <2>4. CASE m = manager_to_prepare
    <3>1. Unasked(m)' /\ Answered(m)
      BY <1>r, <2>1, <2>2, <2>4
    <3>2. Stopping(m)
      BY <1>p, <2>1, <2>4 DEF Phase
    <3>3. inbox'[m] \in {<<>>, <<Stop>>}
      BY <2>1, <3>1, <3>2, Short DEF Stopping, Answered, Unasked
    <3>4. Resting(m)'
      BY <3>1, <3>3 DEF Resting, Stop
    <3> QED
      BY <2>1, <3>4, PhaseAtRest
  <2> QED
    BY <2>3, <2>4
<1> QED
  BY <1>1, <1>2, <1>3, <1>4, <1>5, <1>6, <1>7, <1>8 DEF Works

\* A thread never comes to life again by itself.
LEMMA ThreadFrame ==
    ASSUME Types, NEW w \in Worker, NEW d \in Logical,
           Open(w, d) \/ Fill(w, d) \/ FailToFill(w, d) \/ StopFilling(w, d) \/ Done(w, d)
    PROVE  /\ UNCHANGED <<view, ports, waits_for, targets, grunt_state>>
           /\ \E pc : Goto(w, d, pc)
           /\ \A v \in Worker : Alive(v)' \subseteq Alive(v)
           /\ ~Done(w, d) => UNCHANGED not_ready
<1>1. /\ UNCHANGED <<view, ports, waits_for, targets, grunt_state>> /\ thread[w][d] # "none"
      /\ ~Done(w, d) => UNCHANGED not_ready
  BY DEF Open, Fill, FailToFill, StopFilling, Done
<1>2. PICK pc : Goto(w, d, pc)
  BY DEF Open, Fill, FailToFill, StopFilling, Done
<1>3. \A v \in Worker, c \in Logical : v # w \/ c # d => thread'[v][c] = thread[v][c]
  BY <1>2 DEF Goto, Types
<1>4. \A v \in Worker : Alive(v)' \subseteq Alive(v)
  BY <1>1, <1>3 DEF Alive
<1> QED
  BY <1>1, <1>2, <1>4

LEMMA ThreadPhases ==
    ASSUME Types, Phases, NEW w \in Worker, NEW d \in Logical,
           Open(w, d) \/ Fill(w, d) \/ FailToFill(w, d) \/ StopFilling(w, d) \/ Done(w, d)
    PROVE  Phases'
<1>1. UNCHANGED <<view, ports, waits_for>> /\ \A v \in Worker : Alive(v)' \subseteq Alive(v)
  BY ThreadFrame
<1>2. SUFFICES ASSUME NEW m \in Manager
               PROVE  Phase(m)'
  BY DEF Phases, Manager
<1>3. Phase(m) /\ WorkersOf(m) \subseteq Worker
  BY Manned DEF Phases
<1> QED
  BY <1>1, <1>3, PhaseStays DEF ports

\* What a manager does to its own ports and threads concerns no other.
LEMMA ManagerFrame ==
    ASSUME Types, NEW m \in Manager, MessageLoop(m), NEW i \in Manager, i # m
    PROVE  /\ UNCHANGED <<view, filled>>
           /\ inbox'[i] = inbox[i] /\ reply'[i] = reply[i] /\ waits_for'[i] = waits_for[i]
           /\ \A v \in WorkersOf(i) : Alive(v)' = Alive(v) /\ thread'[v] = thread[v]
<1>w. \A v \in WorkersOf(i) : v \in Worker /\ v \notin WorkersOf(m)
  BY Manned
<1>1. CASE Set_Targets(m)
  <2>1. inbox'[i] = inbox[i] /\ reply'[i] = reply[i]
    BY <1>1, Taken, Replied DEF Set_Targets, Types
  <2> QED
    BY <1>1, <2>1, AliveStays DEF Set_Targets
<1>2. CASE Prepare_Disks(m)
  <2>1. inbox'[i] = inbox[i]
    BY <1>2, Taken DEF Prepare_Disks, Types
  <2>2. reply'[i] = reply[i] /\ waits_for'[i] = waits_for[i]
    <3>1. \/ /\ waits_for' = [waits_for EXCEPT ![m] = First(WorkersOf(m))]
             /\ UNCHANGED reply
          \/ Answer(m, FALSE) /\ UNCHANGED waits_for
      BY <1>2 DEF Prepare_Disks
    <3> QED
      BY <3>1, Replied DEF Types
  <2>3. PICK S, T \in SUBSET WorkersOf(m) : StartThreads(S, T)
    <3>1. CASE StartThreads(WorkersOf(m), WorkersOf(m))
      BY <3>1
    <3>2. ASSUME NEW w \in WorkersOf(m) \cap MayFail,
                 StartThreads({v \in WorkersOf(m) : v <= w}, {v \in WorkersOf(m) : v < w})
          PROVE  \E S, T \in SUBSET WorkersOf(m) : StartThreads(S, T)
      BY <3>2
    <3> QED
      BY <1>2, <3>1, <3>2 DEF Prepare_Disks
  <2>4. \A v \in WorkersOf(i) : thread'[v] = [d \in Logical |-> thread[v][d]]
    BY <1>w, <2>3 DEF StartThreads
  <2>5. \A v \in WorkersOf(i) : thread'[v] = thread[v]
    BY <1>w, <2>4 DEF Types
  <2> QED
    BY <1>2, <2>1, <2>2, <2>5 DEF Prepare_Disks, Alive
<1>3. CASE GruntReady(m)
  <2>1. \/ \E x : waits_for' = [waits_for EXCEPT ![m] = x] /\ UNCHANGED reply
        \/ waits_for' = [waits_for EXCEPT ![m] = 0] /\ Answer(m, TRUE)
    BY <1>3 DEF GruntReady
  <2>2. reply'[i] = reply[i] /\ waits_for'[i] = waits_for[i]
    BY <2>1, Replied DEF Types
  <2> QED
    BY <1>3, <2>2, AliveStays DEF GruntReady
<1>4. CASE Stop_Prepare(m)
  <2>1. inbox'[i] = inbox[i]
    BY <1>4, Taken DEF Stop_Prepare, Types
  <2> QED
    BY <1>4, <2>1, AliveStays DEF Stop_Prepare
<1> QED
  BY <1>1, <1>2, <1>3, <1>4 DEF MessageLoop

\* What PREP_DISKS sets in motion: all grunts of the manager, or none when the
\* first cannot start its threads.
LEMMA Preparation ==
    ASSUME FirstFails, Types, Phases, Required, NEW m \in Manager, Prepare_Disks(m)
    PROVE  LET all == WorkersOf(m)
           IN  \/ /\ StartThreads(all, all)
                  /\ waits_for' = [waits_for EXCEPT ![m] = First(all)]
                  /\ UNCHANGED reply
               \/ /\ \E w \in all : StartThreads({w}, {})
                  /\ Answer(m, FALSE)
                  /\ UNCHANGED waits_for
<1>1. CASE /\ StartThreads(WorkersOf(m), WorkersOf(m))
           /\ waits_for' = [waits_for EXCEPT ![m] = First(WorkersOf(m))]
           /\ UNCHANGED reply
  BY <1>1
<1>2. ASSUME NEW w \in WorkersOf(m) \cap MayFail,
             StartThreads({v \in WorkersOf(m) : v <= w}, {v \in WorkersOf(m) : v < w}),
             Answer(m, FALSE), UNCHANGED waits_for
      PROVE  StartThreads({w}, {})
  <2>1. w = First(WorkersOf(m)) /\ \A v \in WorkersOf(m) : w <= v
    BY FirstWorker, Manned DEF FirstFails
  <2>2. \A v \in WorkersOf(m) : v \in Nat
    BY Manned, Workers
  <2>3. {v \in WorkersOf(m) : v <= w} = {w} /\ {v \in WorkersOf(m) : v < w} = {}
    BY <2>1, <2>2
  <2> QED
    BY <1>2, <2>3
<1> QED
  BY <1>1, <1>2 DEF Prepare_Disks

LEMMA ManagerPhases ==
    ASSUME FirstFails, Types, Phases, Required, Counting, NEW m \in Manager, MessageLoop(m)
    PROVE  Phases'
<1> SUFFICES ASSUME NEW i \in Manager
             PROVE  Phase(i)'
  BY DEF Phases, Manager
<1>p. Phase(i)
  BY DEF Phases
<1>w. WorkersOf(m) \subseteq Worker /\ WorkersOf(m)' = WorkersOf(m) /\ WorkersOf(m) \subseteq Nat
  BY Manned, Workers DEF WorkersOf, Worker
<1>1. CASE i # m
  BY <1>p, <1>1, ManagerFrame, PhaseStays
<1>2. CASE i = m /\ Set_Targets(m)
  <2>1. Takes(m, "SET_TARGETS") /\ Answer(m, TRUE) /\ UNCHANGED <<view, waits_for, thread>>
    BY <1>2 DEF Set_Targets
  <2>2. m = manager_to_prepare /\ stage = "set" /\ Unasked(m) /\ inbox'[m] = <<>>
    BY <2>1, AskedTargets
  <2>3. reply'[m] = <<TRUE>>
    <3>1. \A ok : Answer(m, ok) => reply'[m] = <<ok>>
      BY <2>2, FirstReply DEF Types, Unasked
    <3> QED
      BY <2>1, <3>1, Zenon
  <2>4. Answered(m)'
    BY <1>w, <2>1, <2>2, <2>3, AliveStays DEF Unasked, Answered, Quiet
  <2>5. Setting(m)'
    BY <2>2, <2>4 DEF Setting
  <2> QED
    BY <1>2, <2>1, <2>2, <2>5 DEF Phase, view, Attending
<1>3. CASE i = m /\ Prepare_Disks(m)
  <2>1. Takes(m, "PREP_DISKS") /\ UNCHANGED view
    BY <1>3 DEF Prepare_Disks
  <2>2. /\ WorkersOf(m) # {} /\ m = manager_to_prepare
        /\ stage \in {"preparing", "stopping"} /\ Unasked(m)
        /\ inbox'[m] = IF stage = "preparing" THEN <<>> ELSE <<Stop>>
    BY <2>1, Asked
  <2>3. Waits(m)' \/ Answered(m)'
    <3>1. CASE /\ waits_for' = [waits_for EXCEPT ![m] = First(WorkersOf(m))]
               /\ UNCHANGED reply
      <4>1. waits_for'[m] = First(WorkersOf(m))
        BY <3>1 DEF Types
      <4>2. First(WorkersOf(m)) \in WorkersOf(m) /\ \A w \in WorkersOf(m) : First(WorkersOf(m)) <= w
        BY <2>2, FirstWorker
      <4>3. \A w \in WorkersOf(m) : ~(w < waits_for'[m])
        BY <1>w, <4>1, <4>2
      <4> QED
        BY <1>w, <2>2, <3>1, <4>1, <4>2, <4>3 DEF Waits, QuietBefore, Unasked
    <3>2. ASSUME NEW w \in WorkersOf(m), StartThreads({w}, {}), Answer(m, FALSE),
                 UNCHANGED waits_for
          PROVE  Answered(m)'
      <4>1. reply'[m] = <<FALSE>>
        <5>1. \A ok : Answer(m, ok) => reply'[m] = <<ok>>
          BY <2>2, FirstReply DEF Types, Unasked
        <5> QED
          BY <3>2, <5>1, Zenon
      <4>2. \A v \in WorkersOf(m), d \in Logical : thread'[v][d] = thread[v][d]
        BY <1>w, <3>2 DEF StartThreads
      <4>3. Quiet(m)'
        BY <1>w, <2>2, <4>2 DEF Unasked, Quiet, Alive
      <4> QED
        BY <2>2, <3>2, <4>1, <4>3 DEF Unasked, Answered
    <3> QED
      BY <1>3, <3>1, <3>2, Preparation
  <2>4. /\ stage = "preparing" => Preparing(m)'
        /\ stage = "stopping" => Stopping(m)'
    BY <2>2, <2>3 DEF Preparing, Stopping, Stop
  <2> QED
    BY <1>3, <2>1, <2>2, <2>4 DEF Phase, view, Attending
<1>4. CASE i = m /\ GruntReady(m)
  <2> DEFINE after == {v \in WorkersOf(m) : v > waits_for[m]}
  <2>1. /\ waits_for[m] # 0 /\ not_ready[waits_for[m]] = 0
        /\ UNCHANGED <<view, inbox, thread>>
        /\ IF after = {}
           THEN waits_for' = [waits_for EXCEPT ![m] = 0] /\ Answer(m, TRUE)
           ELSE waits_for' = [waits_for EXCEPT ![m] = First(after)] /\ UNCHANGED reply
    BY <1>4 DEF GruntReady, IsReady
  <2>2. /\ Waits(m) /\ m = manager_to_prepare
        /\ \/ stage = "preparing" /\ inbox[m] = <<>>
           \/ stage = "stopping" /\ inbox[m] \in {<<>>, <<Stop>>}
    <3>1. ~Unasked(m) /\ ~Answered(m)
      BY <2>1 DEF Unasked, Answered
    <3>2. m = manager_to_prepare /\ stage \in {"preparing", "stopping"}
      BY <1>p, <1>4, <3>1 DEF Phase, Attending, Resting, Setting
    <3>3. Preparing(m) \/ Stopping(m)
      BY <1>p, <1>4, <3>2 DEF Phase
    <3> QED
      BY <1>p, <1>4, <3>1, <3>2, <3>3 DEF Phase, Preparing, Stopping
  <2>3. \A v \in WorkersOf(m) : v <= waits_for[m] => Alive(v) = {}
    <3>1. waits_for[m] \in Worker /\ waits_for[m] \in Nat
      BY <1>w, <2>2, Manned DEF Waits
    <3>2. Alive(waits_for[m]) = {}
      BY <2>1, <3>1, Counted
    <3>3. \A v \in WorkersOf(m) : v < waits_for[m] => Alive(v) = {}
      BY <2>2 DEF Waits, QuietBefore
    <3> QED
      BY <1>w, <3>1, <3>2, <3>3
  <2>4. \A v : Alive(v)' = Alive(v)
    BY <2>1, AliveStays
  <2>5. CASE after = {}
    <3>1. reply'[m] = <<TRUE>> /\ waits_for'[m] = 0
      <4>1. \A ok : Answer(m, ok) => reply'[m] = <<ok>>
        BY <2>2, FirstReply DEF Types, Waits
      <4>2. waits_for' = [waits_for EXCEPT ![m] = 0] /\ Answer(m, TRUE)
        BY <2>1, <2>5
      <4>3. reply'[m] = <<TRUE>>
        BY <4>1, <4>2, Zenon
      <4> QED
        BY <4>2, <4>3 DEF Types
    <3>2. \A v \in WorkersOf(m) : v <= waits_for[m]
      BY <1>w, <2>2, <2>5 DEF Waits
    <3>3. Quiet(m)'
      BY <1>w, <2>3, <2>4, <3>2 DEF Quiet
    <3>4. Answered(m)'
      BY <3>1, <3>3 DEF Answered
    <3>5. (stage = "preparing" => Preparing(m)') /\ (stage = "stopping" => Stopping(m)')
      BY <2>1, <2>2, <3>4 DEF Preparing, Stopping, Stop
    <3> QED
      BY <1>4, <2>1, <2>2, <3>5 DEF Phase, view, Attending
  <2>6. CASE after # {}
    <3>1. First(after) \in after /\ \A v \in after : First(after) <= v
      BY <1>w, <2>6, FirstOf
    <3>2. waits_for'[m] = First(after) /\ UNCHANGED reply
      BY <2>1, <2>6 DEF Types
    <3>3. \A v \in WorkersOf(m) : v < First(after) => v <= waits_for[m]
      <4>1. \A v \in WorkersOf(m) : v \notin after => v <= waits_for[m]
        BY <1>w, <2>2 DEF Waits
      <4>2. First(after) \in Nat
        BY <1>w, <3>1
      <4> HIDE DEF after
      <4>3. \A v \in WorkersOf(m) : v < First(after) => v \notin after
        BY <1>w, <3>1, <4>2
      <4> QED
        BY <4>1, <4>3
    <3>4. Waits(m)'
      BY <1>w, <2>2, <2>3, <2>4, <3>1, <3>2, <3>3 DEF Waits, QuietBefore
    <3>5. (stage = "preparing" => Preparing(m)') /\ (stage = "stopping" => Stopping(m)')
      BY <2>1, <2>2, <3>4 DEF Preparing, Stopping, Stop
    <3> QED
      BY <1>4, <2>1, <2>2, <3>5 DEF Phase, view, Attending
  <2> QED
    BY <2>5, <2>6
<1>5. CASE i = m /\ Stop_Prepare(m)
  <2>1. Takes(m, "STOP_PREPARE") /\ UNCHANGED <<view, reply, waits_for, thread>>
    BY <1>5 DEF Stop_Prepare
  <2>2. inbox[m] # <<>> /\ Head(inbox[m]).purpose = "STOP_PREPARE" /\ inbox'[m] = Tail(inbox[m])
    BY <2>1, Taken DEF Types
  <2>3. \A v : Alive(v)' = Alive(v) /\ Set(v)' = Set(v)
    BY <2>1, AliveStays DEF Set, Unready, view
  <2>4. /\ Unasked(m) => Unasked(m)'
        /\ Answered(m) => Answered(m)'
        /\ Waits(m) => Waits(m)'
    BY <1>w, <2>1, <2>3 DEF Unasked, Answered, Waits, Quiet, QuietBefore
  <2>5. Resting(m) => Resting(m)'
    BY <2>2, <2>4, Short DEF Resting, Stop
  <2>6. Setting(m) => Setting(m)'
    <3>1. Setting(m) => Unasked(m) /\ \E w \in WorkersOf(m) : inbox[m] = <<Stop, Set(w)>>
      BY <2>2, Short, Messages DEF Setting
    <3>2. Setting(m) => Unasked(m)' /\ \E w \in WorkersOf(m) : inbox'[m] = <<Set(w)>>
      <4>1. \A w : Tail(<<Stop, Set(w)>>) = <<Set(w)>>
        BY Short
      <4> QED
        BY <2>2, <2>4, <3>1, <4>1
    <3> QED
      BY <1>w, <2>3, <3>2 DEF Setting
  <2>7. ~Preparing(m)
    BY <2>2, Short, Messages DEF Preparing
  <2>8. Stopping(m) => Stopping(m)'
    <3>1. Head(<<Prep, Stop>>) = Prep /\ Head(<<Stop>>) = Stop /\ Tail(<<Stop>>) = <<>>
      BY Short
    <3>2. Stopping(m) => (Waits(m) \/ Answered(m)) /\ inbox'[m] = <<>>
      BY <2>2, <3>1, Messages DEF Stopping
    <3> QED
      BY <2>4, <3>2 DEF Stopping
  <2> QED
    BY <1>p, <1>5, <2>1, <2>2, <2>5, <2>6, <2>7, <2>8 DEF Phase, Attending, view
<1> QED
  BY <1>1, <1>2, <1>3, <1>4, <1>5 DEF MessageLoop

LEMMA RequiredKept ==
    ASSUME Types, Required, Works
    PROVE  Required'
<1> USE DEF Required, Attending
<1>w. \A m : WorkersOf(m)' = WorkersOf(m)
  BY DEF WorkersOf, Worker
<1>1. CASE Go \/ PrepareTimer
  BY <1>1 DEF Go, PrepareTimer, Scan
<1>2. CASE CheckWorker
  <2>1. WorkersOf(manager_to_prepare) # {}
    BY <1>2 DEF CheckWorker, WorkersLeft
  <2>2. /\ stage = "scan" /\ UNCHANGED manager_to_prepare
        /\ \/ UNCHANGED <<stage, requirePrepare>>
           \/ stage' = "set" /\ requirePrepare' = TRUE
    BY <1>2 DEF CheckWorker
  <2>3. WorkersOf(manager_to_prepare)' = WorkersOf(manager_to_prepare)
    BY <2>2 DEF WorkersOf, Worker
  <2> QED
    BY <2>1, <2>2, <2>3
<1>3. CASE TargetsSet \/ StartTest \/ StopPreparing \/ Stopped
  <2>1. UNCHANGED <<requirePrepare, manager_to_prepare>> /\ (Attending' => Attending)
    BY <1>3 DEF TargetsSet, StartTest, StopPreparing, Stopped
  <2>2. WorkersOf(manager_to_prepare)' = WorkersOf(manager_to_prepare)
    BY <2>1 DEF WorkersOf, Worker
  <2> QED
    BY <2>1, <2>2
<1>4. CASE ManagerScanned
  <2>1. CASE requirePrepare
    <3>1. UNCHANGED <<requirePrepare, manager_to_prepare>>
      BY <1>4, <2>1 DEF ManagerScanned
    <3>2. WorkersOf(manager_to_prepare)' = WorkersOf(manager_to_prepare)
      BY <3>1 DEF WorkersOf, Worker
    <3> QED
      BY <2>1, <3>1, <3>2
  <2>2. CASE ~requirePrepare
    BY <1>4, <2>2 DEF ManagerScanned, Scan
  <2> QED
    BY <2>1, <2>2
<1> QED
  BY <1>1, <1>2, <1>3, <1>4 DEF Works

\* No more threads than are counted.
LEMMA LockedKept ==
    ASSUME Types, Required, Locked, Works
    PROVE  Locked'
<1> USE DEF Locked
<1>1. CASE Go
  BY <1>1 DEF Go, Scan, EnableWindow
<1>2. CASE CheckWorker
  BY <1>2 DEF CheckWorker
<1>3. CASE TargetsSet
  BY <1>3 DEF TargetsSet, Required, Attending, window
<1>4. CASE ManagerScanned
  BY <1>4 DEF ManagerScanned, Scan, window
<1>5. CASE StartTest
  BY <1>5 DEF StartTest
<1>6. CASE PrepareTimer
  BY <1>6 DEF PrepareTimer, Scan, TestDone, EnableWindow, window
<1>7. CASE StopPreparing
  BY <1>7 DEF StopPreparing
<1>8. CASE Stopped
  BY <1>8 DEF Stopped, EnableWindow
<1> QED
  BY <1>1, <1>2, <1>3, <1>4, <1>5, <1>6, <1>7, <1>8 DEF Works

\* The user can assign targets only while nothing is prepared or tested.
LEMMA ClicksKeep ==
    ASSUME IInv, ClickTargets
    PROVE  IInv'
<1> USE DEF IInv
<1>1. /\ stage = "idle" /\ assign' \in Assignment
      /\ UNCHANGED <<stage, window, ready, manager_to_prepare, worker_to_prepare, requirePrepare>>
      /\ UNCHANGED <<inbox, reply, waits_for, targets, grunt_state, not_ready, critical_error,
                     thread, filled>>
  BY DEF ClickTargets, Locked, ports, grunt
<1>2. Types'
  BY <1>1 DEF Types
<1>3. ASSUME NEW m \in Manager
      PROVE  Phase(m)'
  <2>1. Resting(m)
    BY <1>1 DEF Phases, Phase, Attending
  <2>2. Resting(m)'
    BY <1>1, <2>1 DEF Resting, Unasked, Quiet, Alive, WorkersOf, Worker
  <2> QED
    BY <1>1, <2>2 DEF Phase, Attending
<1>4. Phases'
  BY <1>3 DEF Phases, Manager
<1>5. Required' /\ Counting' /\ Locked' /\ ReadyMeansFilled'
  BY <1>1 DEF Required, Attending, Counting, Alive, Locked, ReadyMeansFilled, WorkersOf, Worker,
              window
<1>6. TargetsFollow' /\ FillsAll'
  BY <1>1 DEF TargetsFollow, FillsAll
<1> QED
  BY <1>2, <1>4, <1>5, <1>6

LEMMA CountedStays ==
    ASSUME Types, Counting, NEW w \in Worker, not_ready'[w] = not_ready[w],
           Alive(w)' \subseteq Alive(w)
    PROVE  not_ready'[w] >= Cardinality(Alive(w)')
<1>1. Alive(w) \in SUBSET (Logical \cup Raw) /\ Alive(w)' \in SUBSET (Logical \cup Raw)
  BY DEF Alive
<1>2. Cardinality(Alive(w)') <= Cardinality(Alive(w))
  BY <1>1, FinitelyMany, FS_Subset
<1>3. /\ Cardinality(Alive(w)') \in Nat /\ Cardinality(Alive(w)) \in Nat
      /\ not_ready[w] \in Nat /\ not_ready[w] >= Cardinality(Alive(w))
  BY <1>1, FinitelyMany DEF Types, Counting
<1> QED
  BY <1>2, <1>3

LEMMA ThreadCounting ==
    ASSUME Types, Counting, NEW w \in Worker, NEW d \in Logical,
           Open(w, d) \/ Fill(w, d) \/ FailToFill(w, d) \/ StopFilling(w, d) \/ Done(w, d)
    PROVE  Counting'
<1>1. SUFFICES ASSUME NEW v \in Worker
               PROVE  not_ready'[v] >= Cardinality(Alive(v)')
  BY DEF Counting, Worker
<1>2. Alive(v)' \subseteq Alive(v)
  BY ThreadFrame
<1>3. CASE not_ready'[v] = not_ready[v]
  BY <1>2, <1>3, CountedStays
<1>4. CASE not_ready'[v] # not_ready[v]
  <2>1. Done(w, d) /\ v = w
    BY <1>4, ThreadFrame DEF Done, Types
  <2>2. /\ d \in Alive(v) /\ Alive(v)' = Alive(v) \ {d}
        /\ not_ready'[v] = not_ready[v] - 1
    BY <2>1 DEF Done, Goto, Alive, Types
  <2>3. Cardinality(Alive(v)') = Cardinality(Alive(v)) - 1
    BY <2>2, Counted, FS_RemoveElement
  <2>4. /\ not_ready[v] \in Nat /\ Cardinality(Alive(v)) \in Nat
        /\ not_ready[v] >= Cardinality(Alive(v))
    BY Counted DEF Counting
  <2> QED
    BY <2>2, <2>3, <2>4
<1> QED
  BY <1>3, <1>4

LEMMA ManagerCounting ==
    ASSUME FirstFails, Types, Phases, Required, Counting, NEW m \in Manager, MessageLoop(m)
    PROVE  Counting'
<1>1. SUFFICES ASSUME NEW v \in Worker
               PROVE  not_ready'[v] >= Cardinality(Alive(v)')
  BY DEF Counting, Worker
<1>2. CASE ~Prepare_Disks(m)
  <2>1. UNCHANGED <<not_ready, thread>>
    BY <1>2 DEF MessageLoop, Set_Targets, GruntReady, Stop_Prepare
  <2> QED
    BY <2>1, AliveStays, CountedStays
<1>3. CASE Prepare_Disks(m)
  <2>1. Quiet(m)
    BY <1>3, Asked DEF Prepare_Disks, Unasked
  <2>2. PICK S, T \in SUBSET WorkersOf(m) : T \subseteq S /\ StartThreads(S, T)
    <3>1. WorkersOf(m) \in SUBSET WorkersOf(m) /\ {} \in SUBSET WorkersOf(m)
      OBVIOUS
    <3>2. \A w \in WorkersOf(m) : {w} \in SUBSET WorkersOf(m)
      OBVIOUS
    <3> QED
      BY <1>3, <3>1, <3>2, Preparation
  <2>3. CASE v \in S
    <3>1. not_ready'[v] = Cardinality(targets[v]) /\ Alive(v) = {}
      BY <2>1, <2>2, <2>3 DEF StartThreads, Quiet
    <3>2. \A d \in Logical : thread'[v][d] \in {"open", thread[v][d]}
                             /\ (thread'[v][d] # thread[v][d] => d \in targets[v])
      BY <2>2 DEF StartThreads
    <3>3. targets[v] \in SUBSET (Logical \cup Raw) /\ Alive(v)' \in SUBSET targets[v]
      BY <3>1, <3>2 DEF Alive, Types
    <3>4. Cardinality(Alive(v)') <= Cardinality(targets[v])
      BY <3>3, FinitelyMany, FS_Subset
    <3>5. Cardinality(Alive(v)') \in Nat /\ Cardinality(targets[v]) \in Nat
      BY <3>3, FinitelyMany
    <3> QED
      BY <3>1, <3>4, <3>5
  <2>4. CASE v \notin S
    <3>1. not_ready'[v] = not_ready[v] /\ \A d \in Logical : thread'[v][d] = thread[v][d]
      BY <2>2, <2>4 DEF StartThreads
    <3> QED
      BY <3>1, CountedStays DEF Alive
  <2> QED
    BY <2>3, <2>4
<1> QED
  BY <1>2, <1>3

-------------------------------------------------------------------------------
(* What is prepared, and what is ready. *)

\* A reply is the answer Iometer waits for.
LEMMA Reply ==
    ASSUME Types, Phases, Attending, reply[manager_to_prepare] # <<>>
    PROVE  /\ Answered(manager_to_prepare)
           /\ stage # "stopping" => inbox[manager_to_prepare] = <<>>
<1>1. PICK m \in Manager : m = manager_to_prepare
  BY DEF Types, Attending
<1>2. Phase(m)
  BY DEF Phases
<1> QED
  BY <1>1, <1>2 DEF Phase, Attending, Setting, Preparing, Stopping, Waits, Unasked

LEMMA IometerFollow ==
    ASSUME Types, Phases, TargetsFollow, Works
    PROVE  TargetsFollow'
<1> SUFFICES ASSUME NEW w \in Worker, ManagerOf[w] = manager_to_prepare'
             PROVE  /\ stage' \in {"scan", "set"} /\ w < worker_to_prepare'
                           => SetUp(w)' \/ OnItsWay(w)'
                    /\ stage' = "preparing" => SetUp(w)'
  BY DEF TargetsFollow, Worker
<1>w. w \in Nat /\ ~(w < 1) /\ ManagerOf[w] \in Manager /\ worker_to_prepare \in Nat
  BY Workers, PrepareAssumption DEF Types
<1>1. CASE Go \/ PrepareTimer
  BY <1>1, <1>w DEF Go, PrepareTimer, Scan
<1>2. CASE CheckWorker
  <2>1. /\ stage = "scan" /\ UNCHANGED <<assign, ready, manager_to_prepare, targets>>
        /\ w \in WorkersOf(manager_to_prepare)
    BY <1>2, Manned DEF CheckWorker, grunt
  <2>2. SetUp(w)' <=> SetUp(w)
    BY <2>1 DEF SetUp, Unready
  <2>3. PICK v \in WorkersLeft : v = First(WorkersLeft) /\ \A x \in WorkersLeft : v <= x
    BY <1>2, FirstOf, Manned DEF CheckWorker, WorkersLeft
  <2>v. v \in WorkersOf(manager_to_prepare) /\ v \in Nat
    BY <2>3, Manned, Workers DEF WorkersLeft
  <2>4. CASE w < worker_to_prepare
    <3>1. SetUp(w)
      BY <2>1, <2>4 DEF TargetsFollow, OnItsWay
    <3>2. stage' # "preparing"
      BY <1>2 DEF CheckWorker
    <3> QED
      BY <2>2, <3>1, <3>2
  <2>5. CASE w = v
    <3>1. CASE Unready(w) = {}
      <4>1. SetUp(w)
        BY <3>1 DEF SetUp
      <4>2. stage' = "scan"
        BY <1>2, <2>1, <2>3, <2>5, <3>1 DEF CheckWorker
      <4> QED
        BY <2>2, <4>1, <4>2
    <3>2. CASE Unready(w) # {}
      <4>1. stage' = "set" /\ Send(manager_to_prepare, Set(w))
        BY <1>2, <2>3, <2>5, <3>2 DEF CheckWorker, Set
      <4>2. PICK m \in Manager : m = manager_to_prepare
        BY <1>w, <2>1
      <4>3. Resting(m)
        BY <2>1 DEF Phases, Phase, Attending
      <4>4. inbox'[m] = Append(inbox[m], Set(w))
        BY <4>1, <4>2, Sent DEF Types
      <4>5. inbox'[m] \in {<<Set(w)>>, <<Stop, Set(w)>>}
        BY <4>3, <4>4, Short DEF Resting
      <4>6. Set(w)' = Set(w)
        BY <2>1 DEF Set, Unready
      <4>7. OnItsWay(w)'
        BY <2>1, <4>1, <4>2, <4>5, <4>6 DEF OnItsWay, Stop
      <4> QED
        BY <4>1, <4>7
    <3> QED
      BY <3>1, <3>2
  <2>6. CASE w >= worker_to_prepare /\ w # v
    <3>1. w \in WorkersLeft
      BY <2>1, <2>6 DEF WorkersLeft
    <3>2. ~(w < worker_to_prepare')
      <4>1. worker_to_prepare' = v + 1
        BY <1>2, <2>3 DEF CheckWorker
      <4>2. v <= w /\ v # w
        BY <2>3, <2>6, <3>1
      <4> QED
        BY <1>w, <2>v, <4>1, <4>2
    <3>3. stage' # "preparing"
      BY <1>2 DEF CheckWorker
    <3> QED
      BY <3>2, <3>3
  <2> QED
    BY <1>w, <2>4, <2>5, <2>6
<1>3. CASE TargetsSet
  <2>1. /\ stage = "set" /\ stage' = "scan" /\ reply[manager_to_prepare] # <<>>
        /\ UNCHANGED <<assign, ready, manager_to_prepare, worker_to_prepare, targets>>
    BY <1>3 DEF TargetsSet, Receive, grunt
  <2>2. inbox[manager_to_prepare] = <<>>
    BY <2>1, Reply DEF Attending
  <2>3. ~OnItsWay(w)
    BY <2>2, Short DEF OnItsWay
  <2>4. SetUp(w)' <=> SetUp(w)
    BY <2>1 DEF SetUp, Unready
  <2> QED
    BY <2>1, <2>3, <2>4 DEF TargetsFollow
<1>4. CASE ManagerScanned
  <2>1. CASE requirePrepare
    <3>1. /\ stage = "scan" /\ stage' = "preparing" /\ WorkersLeft = {}
          /\ UNCHANGED <<assign, ready, manager_to_prepare, worker_to_prepare, targets>>
      BY <1>4, <2>1 DEF ManagerScanned, grunt
    <3>2. w \in WorkersOf(manager_to_prepare) /\ w \notin WorkersLeft
      BY <3>1, Manned
    <3>3. w < worker_to_prepare
      BY <1>w, <3>2 DEF WorkersLeft
    <3>4. SetUp(w)
      BY <3>1, <3>3 DEF TargetsFollow, OnItsWay
    <3>5. SetUp(w)' <=> SetUp(w)
      BY <3>1 DEF SetUp, Unready
    <3> QED
      BY <3>1, <3>4, <3>5
  <2>2. CASE ~requirePrepare
    BY <1>4, <1>w, <2>2 DEF ManagerScanned, Scan
  <2> QED
    BY <2>1, <2>2
<1>5. CASE StartTest \/ StopPreparing \/ Stopped
  BY <1>5 DEF StartTest, StopPreparing, Stopped
<1> QED
  BY <1>1, <1>2, <1>3, <1>4, <1>5 DEF Works

LEMMA ManagerFollow ==
    ASSUME Types, Phases, Required, TargetsFollow, NEW m \in Manager, MessageLoop(m)
    PROVE  TargetsFollow'
<1>v. UNCHANGED view
  BY DEF MessageLoop, Set_Targets, Prepare_Disks, GruntReady, Stop_Prepare
<1> SUFFICES ASSUME NEW w \in Worker, ManagerOf[w] = manager_to_prepare
             PROVE  /\ stage \in {"scan", "set"} /\ w < worker_to_prepare
                           => SetUp(w)' \/ OnItsWay(w)'
                    /\ stage = "preparing" => SetUp(w)'
  BY <1>v DEF TargetsFollow, Worker, view
<1>s. \A x : Set(x)' = Set(x) /\ Unready(x)' = Unready(x)
  BY <1>v DEF Set, Unready, view
<1>1. CASE Set_Targets(m)
  <2>1. /\ Takes(m, "SET_TARGETS")
        /\ targets' = [targets EXCEPT ![Head(inbox[m]).worker] = Head(inbox[m]).targets]
    BY <1>1 DEF Set_Targets
  <2>2. /\ m = manager_to_prepare /\ stage = "set"
        /\ \E x \in WorkersOf(m) : inbox[m] = <<Set(x)>> /\ Head(inbox[m]) = Set(x)
    BY <2>1, AskedTargets
  <2>3. PICK x \in Worker : inbox[m] = <<Set(x)>> /\ Head(inbox[m]) = Set(x)
    BY <2>2, Manned
  <2>4. targets' = [targets EXCEPT ![x] = Unready(x)]
    BY <2>1, <2>3, Messages
  <2>5. CASE w = x
    <3>1. SetUp(w)'
      BY <1>s, <2>4, <2>5 DEF SetUp, Types
    <3> QED
      BY <3>1
  <2>6. CASE w # x
    <3>1. <<Set(x)>> # <<Set(w)>> /\ \A y, z : <<Set(x)>> # <<y, z>>
      BY <2>6, Differ, Messages
    <3>2. ~OnItsWay(w)
      BY <2>2, <2>3, <3>1 DEF OnItsWay
    <3>3. SetUp(w) => SetUp(w)'
      BY <1>s, <2>4, <2>6 DEF SetUp, Types
    <3> QED
      BY <2>2, <3>2, <3>3 DEF TargetsFollow
  <2> QED
    BY <2>5, <2>6
<1>2. CASE Prepare_Disks(m)
  <2>1. UNCHANGED targets /\ stage \notin {"scan", "set"}
    BY <1>2, Asked DEF Prepare_Disks
  <2> QED
    BY <1>s, <2>1 DEF TargetsFollow, SetUp
<1>3. CASE GruntReady(m)
  <2>1. UNCHANGED <<targets, inbox>>
    BY <1>3 DEF GruntReady
  <2> QED
    BY <1>s, <1>v, <2>1 DEF TargetsFollow, SetUp, OnItsWay, view, Stop
<1>4. CASE Stop_Prepare(m)
  <2>1. UNCHANGED targets /\ Takes(m, "STOP_PREPARE")
    BY <1>4 DEF Stop_Prepare
  <2>2. manager_to_prepare \in Manager
    BY PrepareAssumption
  <2>3. OnItsWay(w) => OnItsWay(w)'
    <3>1. CASE m # manager_to_prepare
      <4>1. inbox'[manager_to_prepare] = inbox[manager_to_prepare]
        BY <2>1, <2>2, <3>1, Taken DEF Types
      <4> QED
        BY <1>s, <1>v, <4>1 DEF OnItsWay, view, Stop
    <3>2. CASE m = manager_to_prepare
      <4>1. Head(inbox[m]).purpose = "STOP_PREPARE" /\ inbox'[m] = Tail(inbox[m])
        BY <2>1, Taken DEF Types
      <4>2. OnItsWay(w) => inbox[m] = <<Stop, Set(w)>>
        BY <3>2, <4>1, Short, Messages DEF OnItsWay
      <4>3. Tail(<<Stop, Set(w)>>) = <<Set(w)>>
        BY Short
      <4>4. OnItsWay(w) => inbox'[m] = <<Set(w)>> /\ stage = "set"
        BY <4>1, <4>2, <4>3 DEF OnItsWay
      <4> QED
        BY <1>s, <1>v, <3>2, <4>4 DEF OnItsWay, view
    <3> QED
      BY <3>1, <3>2
  <2> QED
    BY <1>s, <2>1, <2>3 DEF TargetsFollow, SetUp
<1> QED
  BY <1>1, <1>2, <1>3, <1>4 DEF MessageLoop

LEMMA ThreadFollow ==
    ASSUME TargetsFollow, UNCHANGED <<view, ports, targets>>
    PROVE  TargetsFollow'
  BY DEF TargetsFollow, SetUp, OnItsWay, Set, Unready, Stop, Worker, view, ports

\* A preparation begins with nothing filled yet, and nothing claimed.
LEMMA IometerFills ==
    ASSUME Types, Phases, Works
    PROVE  FillsAll'
<1>1. CASE stage' # "preparing"
  BY <1>1 DEF FillsAll
<1>2. CASE stage' = "preparing"
  <2>1. /\ ManagerScanned /\ stage = "scan" /\ manager_to_prepare <= M
        /\ UNCHANGED <<manager_to_prepare, reply, waits_for>>
    BY <1>2 DEF Works, Go, CheckWorker, TargetsSet, ManagerScanned, StartTest, PrepareTimer,
                StopPreparing, Stopped, Scan
  <2>2. PICK m \in Manager : m = manager_to_prepare
    BY <2>1, Managers DEF Types
  <2>3. Resting(m)
    BY <2>1 DEF Phases, Phase, Attending
  <2>4. waits_for'[manager_to_prepare'] = 0 /\ reply'[manager_to_prepare'] = <<>>
    BY <2>1, <2>2, <2>3 DEF Resting, Unasked
  <2>5. <<>> # <<TRUE>>
    BY Short
  <2> QED
    BY <2>4, <2>5 DEF FillsAll
<1> QED
  BY <1>1, <1>2

\* A success is an answer for disks that are filled.
LEMMA IometerReady ==
    ASSUME Types, Phases, TargetsFollow, FillsAll, ReadyMeansFilled, Works
    PROVE  ReadyMeansFilled'
<1>1. CASE ~PrepareTimer
  BY <1>1 DEF Works, Go, CheckWorker, TargetsSet, ManagerScanned, StartTest,
              StopPreparing, Stopped, ReadyMeansFilled
<1>2. CASE PrepareTimer
  <2> DEFINE new == UNION {assign[w] \cap Logical : w \in WorkersOf(manager_to_prepare)}
  <2>1. /\ stage = "preparing" /\ reply[manager_to_prepare] # <<>> /\ UNCHANGED filled
        /\ ready' = IF Head(reply[manager_to_prepare]) THEN ready \cup new ELSE ready
    BY <1>2 DEF PrepareTimer, Receive, PreparedAnswer
  <2>2. CASE Head(reply[manager_to_prepare])
    <3>1. reply[manager_to_prepare] \in {<<TRUE>>, <<FALSE>>}
      BY <2>1, Reply DEF Attending, Answered
    <3>2. Head(<<FALSE>>) = FALSE
      BY Short
    <3>3. reply[manager_to_prepare] = <<TRUE>>
      BY <2>2, <3>1, <3>2, Zenon
    <3>4. ASSUME NEW w \in WorkersOf(manager_to_prepare), NEW d \in assign[w] \cap Logical
          PROVE  d \in filled \cup Fallible
      <4>1. w \in Worker /\ ManagerOf[w] = manager_to_prepare
        BY Manned
      <4>2. d \in ready \/ d \in targets[w]
        BY <2>1, <4>1 DEF TargetsFollow, SetUp, Unready
      <4> QED
        BY <2>1, <3>3, <4>1, <4>2 DEF FillsAll, Safe, ReadyMeansFilled
    <3>5. new \subseteq filled \cup Fallible
      BY <3>4
    <3> HIDE DEF new
    <3> QED
      BY <2>1, <3>5 DEF ReadyMeansFilled
  <2>3. CASE ~Head(reply[manager_to_prepare])
    BY <2>1, <2>3 DEF ReadyMeansFilled
  <2> QED
    BY <2>2, <2>3
<1> QED
  BY <1>1, <1>2

LEMMA ManagerFills ==
    ASSUME FirstFails, Types, Phases, Required, Counting, FillsAll,
           NEW m \in Manager, MessageLoop(m)
    PROVE  FillsAll'
<1>v. UNCHANGED <<view, filled>>
  BY DEF MessageLoop, Set_Targets, Prepare_Disks, GruntReady, Stop_Prepare
<1> SUFFICES ASSUME stage = "preparing",
                    NEW w \in Worker, ManagerOf[w] = manager_to_prepare,
                    NEW d \in targets'[w] \cap Logical
             PROVE  /\ waits_for'[manager_to_prepare] # 0 => Safe(d) \/ Filling(w, d)'
                    /\ reply'[manager_to_prepare] = <<TRUE>> => Safe(d)
  BY <1>v DEF FillsAll, Safe, Worker, view
<1>m. PICK p \in Manager : p = manager_to_prepare
  BY PrepareAssumption
<1>w. w \in WorkersOf(p) /\ w \in Nat
  BY <1>m, Manned, Workers
<1>p. Phase(p) /\ Phase(m)
  BY DEF Phases
<1>1. CASE Set_Targets(m)
  BY <1>1, AskedTargets DEF Set_Targets
<1>2. CASE Prepare_Disks(m)
  <2>1. m = p /\ Unasked(m) /\ UNCHANGED targets
    BY <1>2, <1>m, Asked DEF Prepare_Disks
  <2>2. CASE StartThreads(WorkersOf(m), WorkersOf(m)) /\ UNCHANGED reply
    <3>1. thread'[w][d] = "open" /\ grunt_state'[w] = "TestPreparing"
      BY <1>w, <2>1, <2>2 DEF StartThreads, Put
    <3>2. reply'[p] = <<>> /\ <<>> # <<TRUE>>
      BY <2>1, <2>2, Short DEF Unasked
    <3> QED
      BY <1>m, <3>1, <3>2 DEF Filling
  <2>3. CASE Answer(m, FALSE) /\ UNCHANGED waits_for
    <3>1. \A ok : Answer(m, ok) => reply'[m] = <<ok>>
      BY <2>1, FirstReply DEF Types, Unasked
    <3>2. reply'[p] = <<FALSE>> /\ <<FALSE>> # <<TRUE>>
      BY <2>1, <2>3, <3>1, Differ, Zenon
    <3>3. waits_for'[p] = 0
      BY <2>1, <2>3 DEF Unasked
    <3> QED
      BY <1>m, <3>2, <3>3
  <2> QED
    BY <1>2, <2>2, <2>3, Preparation
<1>3. CASE GruntReady(m)
  <2> DEFINE after == {v \in WorkersOf(m) : v > waits_for[m]}
  <2>1. /\ waits_for[m] # 0 /\ not_ready[waits_for[m]] = 0
        /\ UNCHANGED <<targets, thread>>
        /\ grunt_state' = [grunt_state EXCEPT ![waits_for[m]] = "TestIdle"]
        /\ \/ after = {}
           \/ UNCHANGED reply
    BY <1>3 DEF GruntReady, IsReady
  <2>2. m = p /\ Waits(m)
    <3>1. ~Unasked(m) /\ ~Answered(m)
      BY <2>1 DEF Unasked, Answered
    <3>2. m = p
      BY <1>m, <1>p, <3>1 DEF Phase, Resting
    <3> QED
      BY <1>m, <1>p, <3>1, <3>2 DEF Phase, Preparing
  <2>3. waits_for[m] \in Worker /\ waits_for[m] \in Nat /\ Alive(waits_for[m]) = {}
    BY <2>1, <2>2, Counted, Manned, Workers DEF Waits
  <2>4. w <= waits_for[m] => Alive(w) = {}
    BY <1>w, <2>2, <2>3 DEF Waits, QuietBefore
  <2>5. Safe(d) \/ Filling(w, d)
    BY <1>m, <2>1, <2>2 DEF FillsAll
  <2>6. Alive(w) = {} => Safe(d)
    BY <2>5 DEF Filling, Alive
  <2>7. w > waits_for[m] => Safe(d) \/ Filling(w, d)'
    BY <2>1, <2>3, <2>5 DEF Filling, Types
  <2>8. w <= waits_for[m] \/ w > waits_for[m]
    BY <1>w, <2>3
  <2>9. after = {} => w <= waits_for[m]
    BY <1>w, <2>2, <2>8
  <2>10. UNCHANGED reply => reply'[p] # <<TRUE>>
    BY <2>2, Short DEF Waits
  <2> HIDE DEF after
  <2> QED
    BY <1>m, <2>1, <2>2, <2>4, <2>6, <2>7, <2>8, <2>9, <2>10
<1>4. CASE Stop_Prepare(m)
  <2>1. /\ UNCHANGED <<reply, waits_for, targets, thread>>
        /\ grunt_state' = Put(grunt_state, WorkersOf(m), "TestIdle")
        /\ Takes(m, "STOP_PREPARE")
    BY <1>4 DEF Stop_Prepare
  <2>2. m # p
    <3>1. inbox[m] # <<>> /\ Head(inbox[m]).purpose = "STOP_PREPARE"
      BY <2>1, Taken DEF Types
    <3>2. ~Preparing(m)
      BY <3>1, Messages, Short DEF Preparing
    <3> QED
      BY <1>m, <1>p, <3>2 DEF Phase
  <2>3. w \notin WorkersOf(m)
    BY <1>w, <2>2, Manned
  <2>4. grunt_state'[w] = grunt_state[w]
    BY <2>1, <2>3 DEF Put
  <2>5. Filling(w, d)' <=> Filling(w, d)
    BY <2>1, <2>4 DEF Filling
  <2> QED
    BY <2>1, <2>5 DEF FillsAll
<1> QED
  BY <1>1, <1>2, <1>3, <1>4 DEF MessageLoop

\* A thread that ends has filled its disk, has failed or was told to stop.
LEMMA ThreadFills ==
    ASSUME Types, FillsAll, ReadyMeansFilled, NEW w \in Worker, NEW d \in Logical,
           Open(w, d) \/ Fill(w, d) \/ FailToFill(w, d) \/ StopFilling(w, d) \/ Done(w, d)
    PROVE  FillsAll' /\ ReadyMeansFilled'
<1>1. /\ UNCHANGED <<view, ports, waits_for, targets, grunt_state>>
      /\ \E pc : Goto(w, d, pc)
  BY ThreadFrame
<1>2. filled \subseteq filled'
  BY DEF Open, Fill, FailToFill, StopFilling, Done
<1>3. \A v \in Worker, c \in Logical : v # w \/ c # d => thread'[v][c] = thread[v][c]
  BY <1>1 DEF Goto, Types
<1>4. \A c : Safe(c) => Safe(c)'
  BY <1>2 DEF Safe
<1>5. Filling(w, d) => Safe(d)' \/ Filling(w, d)'
  <2>1. CASE Open(w, d)
    <3>1. thread'[w][d] = "fill" \/ d \in Fallible
      BY <2>1 DEF Open, Goto, Types
    <3> QED
      BY <1>1, <3>1 DEF Filling, Safe
  <2>2. CASE Fill(w, d)
    BY <2>2 DEF Fill, Safe
  <2>3. CASE FailToFill(w, d)
    BY <2>3 DEF FailToFill, Safe
  <2>4. CASE StopFilling(w, d) \/ Done(w, d)
    BY <2>4 DEF StopFilling, Done, Filling
  <2> QED
    BY <2>1, <2>2, <2>3, <2>4
<1>6. \A v \in Worker, c \in Logical : Filling(v, c) => Safe(c)' \/ Filling(v, c)'
  BY <1>1, <1>3, <1>5 DEF Filling
<1>7. FillsAll'
  <2> SUFFICES ASSUME stage = "preparing",
                      NEW v \in Worker, ManagerOf[v] = manager_to_prepare,
                      NEW c \in targets[v] \cap Logical
               PROVE  /\ waits_for[manager_to_prepare] # 0 => Safe(c)' \/ Filling(v, c)'
                      /\ reply[manager_to_prepare] = <<TRUE>> => Safe(c)'
    BY <1>1 DEF FillsAll, Worker, view, ports
  <2> QED
    BY <1>4, <1>6 DEF FillsAll
<1> QED
  BY <1>1, <1>2, <1>7 DEF ReadyMeansFilled, view

-------------------------------------------------------------------------------
(* Theorems. *)

LEMMA InitIInv ==
    ASSUME Init
    PROVE  IInv
<1>1. Types
  <2>1. 0 \in Nat /\ 1 \in 1 .. M + 1 /\ \A m \in Manager : m \in 1 .. M + 1
    BY PrepareAssumption DEF Manager
  <2>2. PerManager(inbox) /\ PerManager(reply)
    BY DEF Init, PerManager
  <2>3. waits_for \in [Manager -> 0 .. W]
    BY Workers DEF Init
  <2> QED
    BY <2>1, <2>2, <2>3, Workers DEF Init, Types
<1>2. \A w \in Worker : Alive(w) = {}
  BY DEF Init, Alive
<1>3. Phases
  BY <1>2, Manned DEF Init, Phases, Phase, Attending, Resting, Unasked, Quiet
<1>4. Counting
  <2>1. \A w \in Worker : Cardinality(Alive(w)) = 0
    BY <1>2, FS_EmptySet
  <2>2. \A w \in Worker : not_ready[w] = 0
    BY DEF Init
  <2> QED
    BY <2>1, <2>2 DEF Counting
<1> QED
  BY <1>1, <1>3, <1>4
     DEF Init, IInv, Required, Attending, Locked, TargetsFollow, FillsAll, ReadyMeansFilled

LEMMA Inductive ==
    ASSUME FirstFails, IInv, [Next]_vars
    PROVE  IInv'
<1> USE DEF IInv
<1>1. CASE Works
  <2>1. UNCHANGED <<not_ready, thread>>
    BY <1>1 DEF Works, Go, CheckWorker, TargetsSet, ManagerScanned, StartTest, PrepareTimer,
                StopPreparing, Stopped, grunt
  <2>2. Counting'
    BY <2>1 DEF Counting, Alive, Worker
  <2> QED
    BY <1>1, <2>2, IometerTypes, IometerPhases, RequiredKept, IometerFollow, IometerFills,
       IometerReady, LockedKept
<1>2. ASSUME NEW m \in Manager, MessageLoop(m)
      PROVE  IInv'
  <2>1. UNCHANGED <<view, filled>>
    BY <1>2 DEF MessageLoop, Set_Targets, Prepare_Disks, GruntReady, Stop_Prepare
  <2>2. Required' /\ ReadyMeansFilled' /\ Locked'
    BY <2>1 DEF Required, Attending, ReadyMeansFilled, Locked, WorkersOf, Worker, view, window
  <2> QED
    BY <1>2, <2>2, ManagerTypes, ManagerPhases, ManagerCounting, ManagerFollow, ManagerFills
<1>3. ASSUME NEW w \in Worker, NEW d \in Logical,
             Open(w, d) \/ Fill(w, d) \/ FailToFill(w, d) \/ StopFilling(w, d) \/ Done(w, d)
      PROVE  IInv'
  <2>1. UNCHANGED <<view, ports, targets>>
    BY <1>3, ThreadFrame
  <2>2. Required' /\ TargetsFollow' /\ Locked'
    BY <2>1, ThreadFollow DEF Required, Attending, Locked, WorkersOf, Worker, view, window
  <2> QED
    BY <1>3, <2>2, ThreadTypes, ThreadPhases, ThreadCounting, ThreadFills
<1>4. CASE UNCHANGED vars
  <2>1. UNCHANGED <<view, ports, waits_for, targets, grunt_state, not_ready, critical_error, thread, filled>>
    BY <1>4 DEF vars, grunt
  <2>2. Types'
    BY <2>1 DEF Types, view, ports
  <2>3. Phases'
    BY <2>1, AliveStays, PhaseStays DEF Phases, ports, Manager
  <2>4. TargetsFollow'
    BY <2>1, ThreadFollow
  <2> QED
    BY <2>1, <2>2, <2>3, <2>4
       DEF Required, Attending, Counting, Alive, FillsAll, Safe, Filling, ReadyMeansFilled,
           Locked, WorkersOf, Worker, view, window, ports
<1>5. CASE ClickTargets
  BY <1>5, ClicksKeep
<1> QED
  BY <1>1, <1>2, <1>3, <1>4, <1>5 DEF Next, Iometer, Works

\* The invariant holds in every reachable state.
THEOREM PrepareInvariance ==
    ASSUME FirstFails
    PROVE  Spec => []IInv
  BY InitIInv, Inductive, PTL DEF Spec

\* Types; at most one reply and two messages are under way between Iometer and
\* a manager, and not_ready never goes below 0.
THEOREM PrepareTypeCorrect ==
    ASSUME FirstFails
    PROVE  Spec => []TypeOK
<1>1. ASSUME IInv, NEW m \in Manager
      PROVE  Len(inbox[m]) <= 2 /\ Len(reply[m]) <= 1
  <2>1. Phase(m)
    BY <1>1 DEF IInv, Phases
  <2>2. Len(<<>>) = 0 /\ \A a, b : Len(<<a>>) = 1 /\ Len(<<a, b>>) = 2
    BY Short
  <2>3. Unasked(m) \/ Answered(m) \/ Waits(m)
    BY <1>1, <2>1 DEF IInv, Types, Phase, Attending, Resting, Setting, Preparing, Stopping
  <2>4. Len(reply[m]) \in {0, 1}
    <3>1. reply[m] = <<>> \/ \E ok : reply[m] = <<ok>>
      BY <2>3 DEF Unasked, Answered, Waits
    <3> QED
      BY <2>2, <3>1
  <2>5. inbox[m] = <<>> \/ \E a, b : inbox[m] \in {<<a>>, <<a, b>>}
    BY <1>1, <2>1 DEF IInv, Types, Phase, Attending, Resting, Setting, Preparing, Stopping
  <2>6. Len(inbox[m]) \in {0, 1, 2}
    BY <2>2, <2>5
  <2>7. (\A n \in {0, 1} : n <= 1) /\ \A n \in {0, 1, 2} : n <= 2
    OBVIOUS
  <2> QED
    BY <2>4, <2>6, <2>7
<1>2. IInv => TypeOK
  BY <1>1 DEF IInv, Types, Locked, TypeOK
<1> QED
  BY <1>2, PrepareInvariance, PTL

\* However an abort and the end of a preparation cross, a reply is under way only
\* while Iometer waits for one from this manager (StopAll, PREPARE_TIMER).
THEOREM InStep ==
    ASSUME FirstFails
    PROVE  Spec => []RepliesInStep
<1>1. ASSUME IInv, NEW m \in Manager
      PROVE  /\ reply[m] # <<>> => /\ stage \in {"set", "preparing", "stopping"}
                                   /\ m = manager_to_prepare
                                   /\ waits_for[m] = 0
             /\ waits_for[m] # 0 => /\ stage \in {"preparing", "stopping"}
                                    /\ m = manager_to_prepare
  <2>1. Phase(m)
    BY <1>1 DEF IInv, Phases
  <2> QED
    BY <1>1, <2>1 DEF IInv, Types, Phase, Attending, Resting, Setting, Preparing, Stopping,
                      Unasked, Answered, Waits
<1>2. IInv => RepliesInStep
  BY <1>1 DEF RepliesInStep
<1> QED
  BY <1>2, PrepareInvariance, PTL

\* Threads are at work only between PREP_DISKS and its answer: no test is set up
\* and no targets are replaced under them.
THEOREM ThreadsEnd ==
    ASSUME FirstFails
    PROVE  Spec => []NoStrayThread
<1>1. ASSUME IInv, NEW w \in Worker, Alive(w) # {}
      PROVE  /\ stage \in {"preparing", "stopping"}
             /\ ManagerOf[w] = manager_to_prepare
             /\ reply[ManagerOf[w]] = <<>>
  <2>1. PICK m \in Manager : m = ManagerOf[w] /\ w \in WorkersOf(m)
    BY Manned, PrepareAssumption
  <2>2. Phase(m) /\ ~Quiet(m)
    BY <1>1, <2>1 DEF IInv, Phases, Quiet
  <2> QED
    BY <1>1, <2>1, <2>2 DEF IInv, Types, Phase, Attending, Resting, Setting, Preparing, Stopping,
                            Unasked, Answered, Waits
<1>2. IInv => NoStrayThread
  BY <1>1 DEF NoStrayThread, Alive
<1> QED
  BY <1>2, PrepareInvariance, PTL

\* A disk marked ready (PreparedAnswer) has a complete file or has failed, also
\* when preparations were aborted or repeated and disks shared or given to other
\* workers.  What makes it so is that nothing can be assigned before the answer
\* comes (Locked), also not after a failure: TestDone enables the pages in vain.
THEOREM ReadyIsFilled ==
    ASSUME FirstFails
    PROVE  Spec => []ReadyMeansFilled
<1>1. IInv => ReadyMeansFilled
  BY DEF IInv
<1> QED
  BY <1>1, PrepareInvariance, PTL
===============================================================================
