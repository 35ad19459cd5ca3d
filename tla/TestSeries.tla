----------------------------- MODULE TestSeries -----------------------------
(***************************************************************************)
(* What the user guide promises of the cycling options (section 15.6): the *)
(* series of tests that is run for one access specification, as one        *)
(* sequence per test type.  No order of computation is implied: the code   *)
(* that walks through the series is in TestCycle.                          *)
(***************************************************************************)
EXTENDS Naturals, Sequences, SequencesExt, FiniteSetsExt

\* The k-th value of a quantity: linear stepping or powers of step.
Value(o, k) == IF o.power THEN o.start * o.step ^ (k - 1) ELSE o.start + (k - 1) * o.step

\* How many values it takes to reach max; the last one may pass it.
UpTo(o, max) ==
    CHOOSE n \in 1 .. max :
        /\ Value(o, n) >= max
        /\ \A k \in 1 .. n - 1 : Value(o, k) < max

\* How many values do not pass the ending value.
Within(o) == Cardinality({k \in 1 .. o.end : Value(o, k) <= o.end})

\* The workers that can run: targets and an access specification that is not Idle.
Participants(l, index) ==
    {i \in DOMAIN l : /\ l[i].targets > 0
                      /\ index < Len(l[i].specs)
                      /\ l[i].specs[index + 1] # "idle"}

SomeoneIdle(l, index) ==
    \E i \in DOMAIN l : index < Len(l[i].specs) /\ l[i].specs[index + 1] = "idle"

Before(l, P, i) == {j \in P : j < i /\ l[j].manager = l[i].manager}
MostTargets(l, P) == Max({l[i].targets : i \in P})
MostWorkers(l, P) == Max({Cardinality(Before(l, P, i)) + 1 : i \in P})
FirstWorkers(l, P, n) == {i \in P : Cardinality(Before(l, P, i)) < n}
TargetsOf(l, P) == MapThenSumSet(LAMBDA i : l[i].targets, P)
MaxPerManager(l, P) == Max({TargetsOf(l, {j \in P : l[j].manager = l[i].manager}) : i \in P})

AtMost(n, max) == IF n < max THEN n ELSE max
Left(n, used) == IF n > used THEN n - used ELSE 0

\* Every worker of P uses up to n targets, the others none.
Each(l, P, n) == [i \in DOMAIN l |-> IF i \in P THEN AtMost(n, l[i].targets) ELSE 0]
EveryTarget(l, P) == [i \in DOMAIN l |-> IF i \in P THEN l[i].targets ELSE 0]

\* n targets per manager, or in total, given to the workers in their order.
PerManager(l, P, n) ==
    [i \in DOMAIN l |-> IF i \in P
        THEN AtMost(Left(n, TargetsOf(l, Before(l, P, i))), l[i].targets) ELSE 0]
InTotal(l, P, n) ==
    [i \in DOMAIN l |-> IF i \in P
        THEN AtMost(Left(n, TargetsOf(l, {j \in P : j < i})), l[i].targets) ELSE 0]

\* A test: the targets each worker uses and the outstanding I/Os of the disk
\* workers, 0 where the setting of the Disk Targets tab counts.
Test(active, depth) == [active |-> active, depth |-> depth]

\* The number of targets goes up for one set of workers.
Targets(s, l, P, depth) ==
    [k \in 1 .. UpTo(s.targets, MostTargets(l, P)) |->
        Test(Each(l, P, Value(s.targets, k)), depth)]

\* The number of outstanding I/Os goes up; network workers have no such number.
Depths(s, l, P, active) ==
    IF \E i \in P : l[i].kind = "disk"
    THEN [k \in 1 .. Within(s.queue) |-> Test(active, Value(s.queue, k))]
    ELSE <<Test(active, s.queue.start)>>

ActiveSeries(s, l, P) ==
    CASE s.type = "normal" -> <<Test(EveryTarget(l, P), 0)>>
      [] s.type = "targets" -> Targets(s, l, P, 0)
      [] s.type = "workers" ->
           [k \in 1 .. UpTo(s.workers, MostWorkers(l, P)) |->
               Test(EveryTarget(l, FirstWorkers(l, P, Value(s.workers, k))), 0)]
      [] s.type = "parallel" ->
           [k \in 1 .. UpTo(s.targets, MaxPerManager(l, P)) |->
               Test(PerManager(l, P, Value(s.targets, k)), 0)]
      [] s.type = "serial" ->
           [k \in 1 .. UpTo(s.targets, TargetsOf(l, P)) |->
               Test(InTotal(l, P, Value(s.targets, k)), 0)]
      [] s.type = "workersTargets" ->
           FlattenSeq([k \in 1 .. UpTo(s.workers, MostWorkers(l, P)) |->
               Targets(s, l, FirstWorkers(l, P, Value(s.workers, k)), 0)])
      [] s.type = "queue" -> Depths(s, l, P, EveryTarget(l, P))
      [] s.type = "queueTargets" ->
           FlattenSeq([k \in 1 .. UpTo(s.targets, MostTargets(l, P)) |->
               Depths(s, l, P, Each(l, P, Value(s.targets, k)))])

\* The tests of the specification at an index.  If nobody performs I/O there is
\* one test when somebody was told to be idle, and none otherwise.
Series(s, l, index) ==
    LET P == Participants(l, index) IN
    CASE P # {} -> ActiveSeries(s, l, P)
      [] P = {} /\ SomeoneIdle(l, index) -> <<Test([i \in DOMAIN l |-> 0], 0)>>
      [] OTHER -> <<>>

\* All tests of the specifications before an index.
TestsBefore(s, l, index) ==
    MapThenSumSet(LAMBDA i : Len(Series(s, l, i)), 0 .. index - 1)
=============================================================================
