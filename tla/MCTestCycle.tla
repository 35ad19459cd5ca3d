---------------------------- MODULE MCTestCycle ----------------------------
(* Instances of TestCycle for TLC. *)
EXTENDS TestCycle

Linear(start, step) == [start |-> start, step |-> step, power |-> FALSE]
Powers(start, step) == [start |-> start, step |-> step, power |-> TRUE]
To(end, o) == o @@ [end |-> end]
One == Linear(1, 1)
Steps == {One, Linear(2, 1), Linear(1, 2), Powers(1, 2)}

Setup(type, workers, targets, queue) ==
    [type |-> type, workers |-> workers, targets |-> targets, queue |-> queue]

\* Powers of the number of targets go with powers of the workers: their step is
\* only compared with that of the workers (GalileoView.cpp:1768).
MCSetups ==
    {Setup("normal", One, One, To(2, One))}
    \cup {Setup(type, One, o, To(2, One)) : type \in {"targets", "parallel", "serial"}, o \in Steps}
    \cup {Setup("workers", o, One, To(2, One)) : o \in Steps}
    \cup {Setup("workersTargets", o[1], o[2], To(2, One)) : o \in
            {<<One, One>>, <<One, Linear(2, 1)>>, <<Powers(1, 2), Powers(1, 2)>>,
             <<Linear(1, 2), Powers(2, 2)>>}}
    \cup {Setup("queue", One, One, q) : q \in {To(2, One), To(4, Linear(2, 3)), To(4, Powers(1, 3))}}
    \cup {Setup("queueTargets", One, o[1], o[2]) : o \in
            {<<One, To(2, One)>>, <<Powers(1, 2), To(4, Linear(2, 3))>>,
             <<Linear(2, 1), To(4, Powers(1, 3))>>}}

Disk(manager, targets, specs) ==
    [manager |-> manager, kind |-> "disk", targets |-> targets, specs |-> specs, depth |-> 7]
Net(manager, targets, specs) ==
    [manager |-> manager, kind |-> "net", targets |-> targets, specs |-> specs, depth |-> 1]

MCLayouts ==
    { <<Disk(1, 1, <<"io">>), Disk(1, 3, <<"io", "idle", "io">>), Disk(2, 2, <<"io", "io">>)>>,
      <<Disk(1, 2, <<"idle", "io">>), Disk(1, 0, <<"io", "io", "io">>), Net(2, 1, <<"io">>)>>,
      <<Disk(1, 3, <<"io">>), Disk(2, 1, <<"io">>), Disk(2, 2, <<"io">>), Disk(2, 0, <<>>)>>,
      <<Disk(1, 0, <<"idle">>), Disk(2, 0, <<"idle", "idle">>)>>,
      <<Net(1, 2, <<"io", "idle">>), Disk(1, 1, <<"idle", "io">>)>> }

MCNewcomers == <<Disk(3, 0, <<"io", "io", "io">>)>>
=============================================================================
