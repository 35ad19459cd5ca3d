--------------------------- MODULE QtEngine_proofs ----------------------------
(***************************************************************************)
(* For every set of computers and any number of workers: a session's bytes *)
(* stay in step with its Dynamo (InStep), a result is reported for the     *)
(* worker it came from (Attributed), and the last results of a session     *)
(* that is through with its report stay shown and are in the file of the   *)
(* test that runs (FinalsShown).                                           *)
(*                                                                         *)
(* The inductive invariant says what is on its way: at most one command    *)
(* that is answered, the one the session's state waits for, and then no    *)
(* answer, or what is left of that answer; which grunts have targets; and  *)
(* what the Dynamo does, as far as it has been told.  Its parts are about  *)
(* one session s, the messages i to Iometer and o to the Dynamo, and the   *)
(* Dynamo d.                                                               *)
(***************************************************************************)
EXTENDS QtEngine, SequenceTheorems, FiniteSetTheorems, TLAPS

\* The state that waits for the first part of the answer to a command.
Answering ==
    [REPORT_TARGETS |-> "WaitTargetsDisk", ADD_WORKERS |-> "WaitAddWorkers",
     SET_ACCESS |-> "SetupAccess", SET_TARGETS |-> "SetupTargetsReply",
     START |-> "WaitStartReply", BEGIN_IO |-> "WaitBeginIoReply",
     REPORT_UPDATE |-> "WaitUpdateMgr", RECORD_OFF |-> "WaitRecordOff",
     STOP |-> "WaitStop", REPORT_RESULTS |-> "WaitFinalMgr"]

\* Commands that are not answered.
Silent == {"RECORD_ON", "EXIT"}

Command == [purpose : DOMAIN Answering \cup Silent, n : Nat]
\* What the answers are of.
Subject == {"LOGIN", "manager info", "disks", "TCP", "VI", "ADD_WORKERS", "SET_ACCESS",
            "SET_TARGETS", "targets", "START", "BEGIN_IO", "RECORD_OFF", "STOP",
            "manager results", "update", "results"}
Message == [bytes : {"msg", "data"}, of : Subject, grunt : Nat]
Session == [state : State, workers : Seq(Nat), setup : Nat, active : Nat, result : Nat,
            stop : BOOLEAN, pending : Seq(Result)]
Process == [up : BOOLEAN, old : BOOLEAN, workers : Nat, ready : SUBSET Nat,
            mode : {"idle", "started", "io", "recording"}]

Typed(s, i, o, d) ==
    s \in Session /\ i \in Seq(Message) /\ o \in Seq(Command) /\ d \in Process

\* A process that has ended is sent nothing.
DownMeansGone(o, d) == ~d.up => d = Down /\ o = <<>>

UnderWay(o, p) == \E k \in 1 .. Len(o) : o[k].purpose = p

\* One command is waited for, after RECORD_ON if that is on its way too, and
\* nothing is left of an earlier answer.
OneCommand(s, i, o) ==
    /\ \A k \in 1 .. Len(o) : o[k].purpose \notin Silent =>
          /\ i = <<>> /\ s.state = Answering[o[k].purpose]
          /\ o[k].purpose \in {"SET_ACCESS", "SET_TARGETS"} => o[k].n = s.setup
          /\ \A l \in 1 .. Len(o) : o[l].purpose \notin Silent => l = k
    /\ \A k \in 1 .. Len(o) : o[k].purpose = "RECORD_ON" =>
          /\ i = <<>> /\ s.state \in Updating \cup {"Running", "WaitRecordOff"}
          /\ s.state = "WaitRecordOff" => UnderWay(o, "RECORD_OFF")
          /\ \A l \in 1 .. Len(o) : o[l].purpose = "RECORD_ON" => l = k
          /\ \A l \in 1 .. Len(o) : o[l].purpose \notin Silent => k < l

\* What is left of an answer when its session waits for it.
Rest ==
    [WaitLoginMsg |-> <<Short("LOGIN"), Long("manager info", 0)>>,
     WaitLoginData |-> <<Long("manager info", 0)>>,
     WaitTargetsDisk |-> <<Long("disks", 0), Long("TCP", 0), Long("VI", 0)>>,
     WaitTargetsTcp |-> <<Long("TCP", 0), Long("VI", 0)>>,
     WaitTargetsVi |-> <<Long("VI", 0)>>,
     WaitAddWorkers |-> <<Short("ADD_WORKERS")>>,
     SetupAccess |-> <<Short("SET_ACCESS")>>,
     SetupTargetsReply |-> <<Short("SET_TARGETS"), Long("targets", 0)>>,
     SetupTargetsData |-> <<Long("targets", 0)>>,
     WaitStartReply |-> <<Short("START")>>,
     WaitBeginIoReply |-> <<Short("BEGIN_IO")>>,
     WaitRecordOff |-> <<Short("RECORD_OFF")>>,
     WaitStop |-> <<Short("STOP")>>]

Kind(state) == IF state \in Updating THEN "update" ELSE "results"

\* Results come from the grunts in order, for no more workers than wait.
OneAnswer(s, i) ==
    i # <<>> =>
        \/ s.state = "Error"
        \/ s.state \in DOMAIN Rest /\ i = Rest[s.state]
        \/ /\ s.state \in {"WaitUpdateMgr", "WaitFinalMgr"}
           /\ i[1] = Long("manager results", 0) /\ Len(i) <= s.active + 1
           /\ \A k \in 2 .. Len(i) : i[k] = Long(Kind(s.state), k - 2)
        \/ /\ s.state \in {"WaitUpdateWorker", "WaitFinalWorker"}
           /\ Len(i) <= s.active - s.result
           /\ \A k \in 1 .. Len(i) : i[k] = Long(Kind(s.state), s.result + k - 1)

\* What the Dynamo's grunts do, from what it has been told.
ModeOf(state, o) ==
    LET on == IF UnderWay(o, "RECORD_ON") THEN "io" ELSE "recording" IN
    IF state = "WaitStartReply" THEN (IF UnderWay(o, "START") THEN "idle" ELSE "started")
    ELSE IF state = "WaitBeginIoReply" THEN (IF UnderWay(o, "BEGIN_IO") THEN "started" ELSE "io")
    ELSE IF state \in Updating \cup {"Running"} THEN on
    ELSE IF state = "WaitRecordOff" THEN (IF UnderWay(o, "RECORD_OFF") THEN on ELSE "io")
    ELSE IF state = "WaitStop" THEN (IF UnderWay(o, "STOP") THEN "io" ELSE "idle")
    ELSE "idle"

ModeKnown(s, o, d) == d.up => d.mode = ModeOf(s.state, o)

\* The grunts that were told their targets have them, if there is a disk, and
\* until the workers have been told to leave.
Told(s, o) ==
    IF s.state = "SetupAccess" \/ (s.state = "SetupTargetsReply" /\ UnderWay(o, "SET_TARGETS"))
    THEN s.setup
    ELSE IF s.state \in {"SetupTargetsReply", "SetupTargetsData"} THEN s.setup + 1
    ELSE Len(s.workers)

SettingUp == {"SetupAccess", "SetupTargetsReply", "SetupTargetsData"}
InTest == Updating \cup Stopping \cup Setup \cup {"Running"}

GruntsKnown(m, s, o, d) ==
    /\ \A g \in d.ready : g < d.workers
    /\ s.state \in InTest =>
          d.ready = IF m \in Disks /\ d.workers > 0 THEN 0 .. Told(s, o) - 1 ELSE {}
    /\ s.state \in SettingUp => s.setup < Len(s.workers)

\* Before its test a session has no results and its Dynamo's grunts no targets.
\* There is one test: startTest refuses the next.
Untested == Joining \cup {"Error", "Disconnected"}
NothingYet(s, d, idle) ==
    /\ s.state \in Untested \/ (s.state = "Ready" /\ idle) =>
          d.ready = {} /\ s.result = 0 /\ s.pending = <<>>
    /\ idle => s.state \in Untested \cup {"Ready"}

\* The results collected so far.
Counted(s) ==
    /\ Len(s.pending) = s.result /\ s.result <= s.active
    /\ s.state \in Setup \cup {"WaitUpdateMgr", "WaitFinalMgr"} => s.result = 0
    /\ s.result > 0 \/ s.state \in InTest \ SettingUp => s.active = Len(s.workers)
    /\ \A k \in 1 .. s.result :
          s.pending[k].grunt = k - 1 /\ s.pending[k].worker = s.workers[k]
    /\ s.state \in {"WaitFinalWorker", "Ready"} =>
          \A k \in 1 .. s.result : s.pending[k].of = "results"
    /\ s.state = "Ready" => s.result = 0 \/ s.result = Len(s.workers)

\* All of it, of the computer m.
Whole(m, s, i, o, d, idle) ==
    /\ Typed(s, i, o, d) /\ DownMeansGone(o, d)
    /\ OneCommand(s, i, o) /\ OneAnswer(s, i)
    /\ ModeKnown(s, o, d) /\ GruntsKnown(m, s, o, d)
    /\ NothingYet(s, d, idle) /\ Counted(s)

Idle == engine.runner = "Idle"

AllWhole ==
    \A m \in Managers :
        /\ Whole(m, session[m], toIometer[m], toDynamo[m], dynamo[m], Idle)
        /\ m \notin Present => /\ session[m] = NoSession /\ toIometer[m] = <<>>
                               /\ ~dynamo[m].up
        /\ m \in Present => session[m].state # "Disconnected"

\* The variables that are no functions of the computers.
Types ==
    /\ session \in [Managers -> Session] /\ dynamo \in [Managers -> Process]
    /\ toDynamo \in [Managers -> Seq(Command)] /\ toIometer \in [Managers -> Seq(Message)]
    /\ engine \in [running : BOOLEAN, runner : {"Idle", "Running", "Stopped", "Error"},
                   current : SUBSET Result, saved : SUBSET Result]
    /\ engine.running = (engine.runner = "Running")
    /\ file \in [open : BOOLEAN, rows : SUBSET Result]
    /\ sessions \in Seq(Managers) /\ IsInjective(sessions)
    /\ DOMAIN pool \subseteq Managers /\ \A m \in DOMAIN pool : pool[m] \in Seq(Nat)

Window == [running : BOOLEAN, idx : Nat, advancing : BOOLEAN]

\* The window runs while its engine does, so that no results file is opened in a
\* test, and before the first test there are no results.
WindowFollows ==
    /\ window \in Window
    /\ engine.running => window.running
    /\ Idle => engine.current = {}

IInv == Types /\ AllWhole /\ WindowFollows /\ FinalsShown

\* The states of a session whose results are shown.
Showing == {"Running", "Ready"}
-------------------------------------------------------------------------------
(* The commands on their way. *)

\* Nothing but commands to leave.
Quiet(o) == \A k \in 1 .. Len(o) : o[k].purpose = "EXIT"
\* Nothing that is answered.
Unasked(o) == \A k \in 1 .. Len(o) : o[k].purpose \in Silent

\* One more command behind those on their way.
LEMMA OneMore ==
  ASSUME NEW S, NEW q \in Seq(S), NEW e \in S
  PROVE  /\ q \o <<e>> \in Seq(S) /\ q \o <<e>> = Append(q, e)
         /\ Len(q) \in Nat /\ Len(q \o <<e>>) = Len(q) + 1
         /\ \A k \in 1 .. Len(q) : (q \o <<e>>)[k] = q[k]
         /\ (q \o <<e>>)[Len(q) + 1] = e
<1>1. /\ Append(q, e) \in Seq(S) /\ Len(Append(q, e)) = Len(q) + 1
      /\ \A k \in 1 .. Len(q) : Append(q, e)[k] = q[k]
      /\ Append(q, e)[Len(q) + 1] = e
  BY AppendProperties
<1>2. Append(q, e) = q \o <<e>>
  BY AppendIsConcat
<1>3. Len(q) \in Nat
  BY LenProperties
<1> QED
  BY <1>1, <1>2, <1>3, Zenon

\* While an answer is arriving no command is under way.
LEMMA ArrivedQuiet ==
  ASSUME NEW s, NEW i, NEW o, OneCommand(s, i, o), i # <<>>
  PROVE  Quiet(o)
  BY DEF OneCommand, Quiet, Silent

\* While there is nothing to answer on its way, any session may be waiting or not.
LEMMA QuietFits ==
  ASSUME NEW o, Quiet(o), NEW t, NEW j
  PROVE  /\ OneCommand(t, j, o) /\ Unasked(o)
         /\ \A p : p # "EXIT" => ~UnderWay(o, p)
  BY DEF OneCommand, Quiet, Unasked, Silent, UnderWay

\* A command is sent whose answer the session now waits for.
LEMMA Sent ==
  ASSUME NEW o \in Seq(Command), NEW c \in Command, NEW s, NEW i, NEW t,
         OneCommand(s, i, o), Unasked(o), c.purpose \notin Silent,
         t.state = Answering[c.purpose],
         c.purpose \in {"SET_ACCESS", "SET_TARGETS"} => c.n = t.setup,
         Quiet(o) \/ t.state \in Updating \cup {"WaitRecordOff"}
  PROVE  /\ o \o <<c>> \in Seq(Command) /\ OneCommand(t, <<>>, o \o <<c>>)
         /\ \A p : UnderWay(o \o <<c>>, p) <=> UnderWay(o, p) \/ p = c.purpose
<1> DEFINE n == Len(o)
           q == o \o <<c>>
<1>1. /\ q \in Seq(Command) /\ n \in Nat /\ Len(q) = n + 1
      /\ \A k \in 1 .. n : q[k] = o[k]
      /\ q[n + 1] = c
  BY OneMore
<1> HIDE DEF n, q
<1>2. \A k \in 1 .. Len(q) : (k \in 1 .. n /\ q[k] = o[k]) \/ (k = n + 1 /\ q[k] = c)
  BY <1>1
<1>3. \A k \in 1 .. n : o[k].purpose \in Silent
  BY DEF Unasked, n
<1>4. \A k \in 1 .. Len(q) : q[k].purpose \notin Silent => k = n + 1
  BY <1>2, <1>3
<1>5. ASSUME NEW k \in 1 .. Len(q), q[k].purpose = "RECORD_ON"
      PROVE  /\ k \in 1 .. n /\ t.state \in Updating \cup {"WaitRecordOff"}
             /\ \A l \in 1 .. Len(q) : q[l].purpose = "RECORD_ON" => l = k
  <2>1. \A l \in 1 .. Len(q) :
           q[l].purpose = "RECORD_ON" => l \in 1 .. n /\ o[l].purpose = "RECORD_ON"
    BY <1>2 DEF Silent
  <2>2. k \in 1 .. n /\ o[k].purpose = "RECORD_ON"
    BY <2>1, <1>5
  <2>3. \A l \in 1 .. n : o[l].purpose = "RECORD_ON" => l = k
    BY <2>2 DEF OneCommand, n
  <2>4. ~Quiet(o)
    BY <2>2 DEF Quiet, n
  <2> QED  BY <2>1, <2>2, <2>3, <2>4
<1>6. \A p : UnderWay(q, p) <=> UnderWay(o, p) \/ p = c.purpose
  BY <1>1, <1>2 DEF UnderWay, n
<1>7. OneCommand(t, <<>>, q)
  <2>1. t.state = "WaitRecordOff" => UnderWay(q, "RECORD_OFF")
    <3>1. c.purpose \in DOMAIN Answering
      BY DEF Command
    <3>2. \A p \in DOMAIN Answering : Answering[p] = "WaitRecordOff" => p = "RECORD_OFF"
      BY DEF Answering
    <3> QED  BY <3>1, <3>2, <1>6
  <2> QED  BY <1>1, <1>2, <1>4, <1>5, <2>1 DEF OneCommand
<1> QED
  BY <1>1, <1>6, <1>7 DEF q

\* RECORD_ON is sent, for which nobody waits.
LEMMA SentRecordOn ==
  ASSUME NEW o \in Seq(Command), Quiet(o), NEW t, t.state = "Running"
  PROVE  LET q == o \o <<Cmd("RECORD_ON", 0)>> IN
         /\ q \in Seq(Command) /\ OneCommand(t, <<>>, q)
         /\ \A p : p # "EXIT" => (UnderWay(q, p) <=> p = "RECORD_ON")
<1> DEFINE n == Len(o)
           c == Cmd("RECORD_ON", 0)
           q == o \o <<c>>
<1>0. c \in Command /\ c.purpose = "RECORD_ON"
  BY DEF Command, Cmd, Silent
<1> HIDE DEF c
<1>1. /\ q \in Seq(Command) /\ n \in Nat /\ Len(q) = n + 1
      /\ \A k \in 1 .. n : q[k] = o[k]
      /\ q[n + 1] = c
  BY <1>0, OneMore
<1> HIDE DEF n, q
<1>2. \A k \in 1 .. Len(q) : \/ k \in 1 .. n /\ q[k].purpose = "EXIT"
                             \/ k = n + 1 /\ q[k].purpose = "RECORD_ON"
  BY <1>0, <1>1 DEF Quiet, n
<1>3. OneCommand(t, <<>>, q)
  BY <1>2 DEF OneCommand, Silent
<1>4. \A p : p # "EXIT" => (UnderWay(q, p) <=> p = "RECORD_ON")
  BY <1>0, <1>1, <1>2 DEF UnderWay
<1> QED
  BY <1>1, <1>3, <1>4 DEF q, c

\* EXIT is sent, at any time.
LEMMA SentExit ==
  ASSUME NEW o \in Seq(Command), NEW s, NEW i, OneCommand(s, i, o)
  PROVE  LET q == o \o <<Cmd("EXIT", 0)>> IN
         /\ q \in Seq(Command) /\ OneCommand(s, i, q)
         /\ \A p : p # "EXIT" => (UnderWay(q, p) <=> UnderWay(o, p))
<1> DEFINE n == Len(o)
           c == Cmd("EXIT", 0)
           q == o \o <<c>>
<1>0. c \in Command /\ c.purpose = "EXIT"
  BY DEF Command, Cmd, Silent
<1> HIDE DEF c
<1>1. /\ q \in Seq(Command) /\ n \in Nat /\ Len(q) = n + 1
      /\ \A k \in 1 .. n : q[k] = o[k]
      /\ q[n + 1] = c
  BY <1>0, OneMore
<1> HIDE DEF n, q
<1>2. \A k \in 1 .. Len(q) : q[k].purpose # "EXIT" => k \in 1 .. n /\ q[k] = o[k]
  BY <1>0, <1>1
<1>3. \A p : p # "EXIT" => (UnderWay(q, p) <=> UnderWay(o, p))
  BY <1>1, <1>2 DEF UnderWay, n
<1>4. OneCommand(s, i, q)
  BY <1>2, <1>3 DEF OneCommand, Silent, n
<1> QED
  BY <1>1, <1>3, <1>4 DEF q, c

-------------------------------------------------------------------------------
(* What is left of an answer. *)

\* Messages are taken from the front.
LEMMA TailOfTuple ==
  /\ \A a : Tail(<<a>>) = <<>> /\ Head(<<a>>) = a
  /\ \A a, b : Tail(<<a, b>>) = <<b>> /\ Head(<<a, b>>) = a
  /\ \A a, b, c : Tail(<<a, b, c>>) = <<b, c>> /\ Head(<<a, b, c>>) = a
  OBVIOUS

\* The states that wait for an answer of fixed length.
LEMMA RestDomain ==
  DOMAIN Rest = {"WaitLoginMsg", "WaitLoginData", "WaitTargetsDisk", "WaitTargetsTcp",
                 "WaitTargetsVi", "WaitAddWorkers", "SetupAccess", "SetupTargetsReply",
                 "SetupTargetsData", "WaitStartReply", "WaitBeginIoReply", "WaitRecordOff",
                 "WaitStop"}
  BY DEF Rest

\* The session takes an answer apart in its order.
LEMMA RestTail ==
  /\ Tail(Rest["WaitLoginMsg"]) = Rest["WaitLoginData"]
  /\ Tail(Rest["WaitTargetsDisk"]) = Rest["WaitTargetsTcp"]
  /\ Tail(Rest["WaitTargetsTcp"]) = Rest["WaitTargetsVi"]
  /\ Tail(Rest["SetupTargetsReply"]) = Rest["SetupTargetsData"]
  /\ Tail(Rest["WaitLoginData"]) = <<>> /\ Tail(Rest["WaitTargetsVi"]) = <<>>
  /\ Tail(Rest["WaitAddWorkers"]) = <<>> /\ Tail(Rest["SetupAccess"]) = <<>>
  /\ Tail(Rest["SetupTargetsData"]) = <<>> /\ Tail(Rest["WaitStartReply"]) = <<>>
  /\ Tail(Rest["WaitBeginIoReply"]) = <<>> /\ Tail(Rest["WaitRecordOff"]) = <<>>
  /\ Tail(Rest["WaitStop"]) = <<>>
  BY TailOfTuple DEF Rest

\* Answers of up to three messages.
LEMMA Messages ==
  /\ \A a \in Message : <<a>> \in Seq(Message) /\ Head(<<a>>) = a
  /\ \A a, b \in Message : <<a, b>> \in Seq(Message) /\ Head(<<a, b>>) = a
  /\ \A a, b, c \in Message : <<a, b, c>> \in Seq(Message) /\ Head(<<a, b, c>>) = a
  OBVIOUS

\* A message says what it is of.
LEMMA OneMessage ==
  \A p \in Subject : /\ Short(p) \in Message /\ Short(p).of = p
                     /\ Long(p, 0) \in Message /\ Long(p, 0).of = p
  BY DEF Message, Short, Long

\* The next message is the one the state waits for.
LEMMA RestHead ==
  \A state \in DOMAIN Rest : Rest[state] \in Seq(Message) /\ Head(Rest[state]).of = Awaited[state]
<1> DEFINE Fits(state) == Rest[state] \in Seq(Message) /\ Head(Rest[state]).of = Awaited[state]
<1>1. Fits("WaitLoginMsg")
  <2>1. Rest["WaitLoginMsg"] = <<Short("LOGIN"), Long("manager info", 0)>>
    BY DEF Rest
  <2>2. Awaited["WaitLoginMsg"] = "LOGIN"
    BY DEF Awaited
  <2>3. /\ Short("LOGIN") \in Message
        /\ Long("manager info", 0) \in Message
        /\ Short("LOGIN").of = "LOGIN"
    BY OneMessage DEF Subject
  <2>4. /\ <<Short("LOGIN"), Long("manager info", 0)>> \in Seq(Message)
        /\ Head(<<Short("LOGIN"), Long("manager info", 0)>>) = Short("LOGIN")
    BY <2>3, Messages, Zenon
  <2> QED  BY <2>1, <2>2, <2>3, <2>4, Zenon
<1>2. Fits("WaitLoginData")
  <2>1. Rest["WaitLoginData"] = <<Long("manager info", 0)>>
    BY DEF Rest
  <2>2. Awaited["WaitLoginData"] = "manager info"
    BY DEF Awaited
  <2>3. /\ Long("manager info", 0) \in Message
        /\ Long("manager info", 0).of = "manager info"
    BY OneMessage DEF Subject
  <2>4. /\ <<Long("manager info", 0)>> \in Seq(Message)
        /\ Head(<<Long("manager info", 0)>>) = Long("manager info", 0)
    BY <2>3, Messages, Zenon
  <2> QED  BY <2>1, <2>2, <2>3, <2>4, Zenon
<1>3. Fits("WaitTargetsDisk")
  <2>1. Rest["WaitTargetsDisk"] = <<Long("disks", 0), Long("TCP", 0), Long("VI", 0)>>
    BY DEF Rest
  <2>2. Awaited["WaitTargetsDisk"] = "disks"
    BY DEF Awaited
  <2>3. /\ Long("disks", 0) \in Message
        /\ Long("TCP", 0) \in Message
        /\ Long("VI", 0) \in Message
        /\ Long("disks", 0).of = "disks"
    BY OneMessage DEF Subject
  <2>4. /\ <<Long("disks", 0), Long("TCP", 0), Long("VI", 0)>> \in Seq(Message)
        /\ Head(<<Long("disks", 0), Long("TCP", 0), Long("VI", 0)>>) = Long("disks", 0)
    BY <2>3, Messages, Zenon
  <2> QED  BY <2>1, <2>2, <2>3, <2>4, Zenon
<1>4. Fits("WaitTargetsTcp")
  <2>1. Rest["WaitTargetsTcp"] = <<Long("TCP", 0), Long("VI", 0)>>
    BY DEF Rest
  <2>2. Awaited["WaitTargetsTcp"] = "TCP"
    BY DEF Awaited
  <2>3. /\ Long("TCP", 0) \in Message
        /\ Long("VI", 0) \in Message
        /\ Long("TCP", 0).of = "TCP"
    BY OneMessage DEF Subject
  <2>4. /\ <<Long("TCP", 0), Long("VI", 0)>> \in Seq(Message)
        /\ Head(<<Long("TCP", 0), Long("VI", 0)>>) = Long("TCP", 0)
    BY <2>3, Messages, Zenon
  <2> QED  BY <2>1, <2>2, <2>3, <2>4, Zenon
<1>5. Fits("WaitTargetsVi")
  <2>1. Rest["WaitTargetsVi"] = <<Long("VI", 0)>>
    BY DEF Rest
  <2>2. Awaited["WaitTargetsVi"] = "VI"
    BY DEF Awaited
  <2>3. /\ Long("VI", 0) \in Message
        /\ Long("VI", 0).of = "VI"
    BY OneMessage DEF Subject
  <2>4. <<Long("VI", 0)>> \in Seq(Message) /\ Head(<<Long("VI", 0)>>) = Long("VI", 0)
    BY <2>3, Messages, Zenon
  <2> QED  BY <2>1, <2>2, <2>3, <2>4, Zenon
<1>6. Fits("WaitAddWorkers")
  <2>1. Rest["WaitAddWorkers"] = <<Short("ADD_WORKERS")>>
    BY DEF Rest
  <2>2. Awaited["WaitAddWorkers"] = "ADD_WORKERS"
    BY DEF Awaited
  <2>3. /\ Short("ADD_WORKERS") \in Message
        /\ Short("ADD_WORKERS").of = "ADD_WORKERS"
    BY OneMessage DEF Subject
  <2>4. /\ <<Short("ADD_WORKERS")>> \in Seq(Message)
        /\ Head(<<Short("ADD_WORKERS")>>) = Short("ADD_WORKERS")
    BY <2>3, Messages, Zenon
  <2> QED  BY <2>1, <2>2, <2>3, <2>4, Zenon
<1>7. Fits("SetupAccess")
  <2>1. Rest["SetupAccess"] = <<Short("SET_ACCESS")>>
    BY DEF Rest
  <2>2. Awaited["SetupAccess"] = "SET_ACCESS"
    BY DEF Awaited
  <2>3. /\ Short("SET_ACCESS") \in Message
        /\ Short("SET_ACCESS").of = "SET_ACCESS"
    BY OneMessage DEF Subject
  <2>4. /\ <<Short("SET_ACCESS")>> \in Seq(Message)
        /\ Head(<<Short("SET_ACCESS")>>) = Short("SET_ACCESS")
    BY <2>3, Messages, Zenon
  <2> QED  BY <2>1, <2>2, <2>3, <2>4, Zenon
<1>8. Fits("SetupTargetsReply")
  <2>1. Rest["SetupTargetsReply"] = <<Short("SET_TARGETS"), Long("targets", 0)>>
    BY DEF Rest
  <2>2. Awaited["SetupTargetsReply"] = "SET_TARGETS"
    BY DEF Awaited
  <2>3. /\ Short("SET_TARGETS") \in Message
        /\ Long("targets", 0) \in Message
        /\ Short("SET_TARGETS").of = "SET_TARGETS"
    BY OneMessage DEF Subject
  <2>4. /\ <<Short("SET_TARGETS"), Long("targets", 0)>> \in Seq(Message)
        /\ Head(<<Short("SET_TARGETS"), Long("targets", 0)>>) = Short("SET_TARGETS")
    BY <2>3, Messages, Zenon
  <2> QED  BY <2>1, <2>2, <2>3, <2>4, Zenon
<1>9. Fits("SetupTargetsData")
  <2>1. Rest["SetupTargetsData"] = <<Long("targets", 0)>>
    BY DEF Rest
  <2>2. Awaited["SetupTargetsData"] = "targets"
    BY DEF Awaited
  <2>3. /\ Long("targets", 0) \in Message
        /\ Long("targets", 0).of = "targets"
    BY OneMessage DEF Subject
  <2>4. /\ <<Long("targets", 0)>> \in Seq(Message)
        /\ Head(<<Long("targets", 0)>>) = Long("targets", 0)
    BY <2>3, Messages, Zenon
  <2> QED  BY <2>1, <2>2, <2>3, <2>4, Zenon
<1>10. Fits("WaitStartReply")
  <2>1. Rest["WaitStartReply"] = <<Short("START")>>
    BY DEF Rest
  <2>2. Awaited["WaitStartReply"] = "START"
    BY DEF Awaited
  <2>3. /\ Short("START") \in Message
        /\ Short("START").of = "START"
    BY OneMessage DEF Subject
  <2>4. <<Short("START")>> \in Seq(Message) /\ Head(<<Short("START")>>) = Short("START")
    BY <2>3, Messages, Zenon
  <2> QED  BY <2>1, <2>2, <2>3, <2>4, Zenon
<1>11. Fits("WaitBeginIoReply")
  <2>1. Rest["WaitBeginIoReply"] = <<Short("BEGIN_IO")>>
    BY DEF Rest
  <2>2. Awaited["WaitBeginIoReply"] = "BEGIN_IO"
    BY DEF Awaited
  <2>3. /\ Short("BEGIN_IO") \in Message
        /\ Short("BEGIN_IO").of = "BEGIN_IO"
    BY OneMessage DEF Subject
  <2>4. <<Short("BEGIN_IO")>> \in Seq(Message) /\ Head(<<Short("BEGIN_IO")>>) = Short("BEGIN_IO")
    BY <2>3, Messages, Zenon
  <2> QED  BY <2>1, <2>2, <2>3, <2>4, Zenon
<1>12. Fits("WaitRecordOff")
  <2>1. Rest["WaitRecordOff"] = <<Short("RECORD_OFF")>>
    BY DEF Rest
  <2>2. Awaited["WaitRecordOff"] = "RECORD_OFF"
    BY DEF Awaited
  <2>3. /\ Short("RECORD_OFF") \in Message
        /\ Short("RECORD_OFF").of = "RECORD_OFF"
    BY OneMessage DEF Subject
  <2>4. /\ <<Short("RECORD_OFF")>> \in Seq(Message)
        /\ Head(<<Short("RECORD_OFF")>>) = Short("RECORD_OFF")
    BY <2>3, Messages, Zenon
  <2> QED  BY <2>1, <2>2, <2>3, <2>4, Zenon
<1>13. Fits("WaitStop")
  <2>1. Rest["WaitStop"] = <<Short("STOP")>>
    BY DEF Rest
  <2>2. Awaited["WaitStop"] = "STOP"
    BY DEF Awaited
  <2>3. /\ Short("STOP") \in Message
        /\ Short("STOP").of = "STOP"
    BY OneMessage DEF Subject
  <2>4. <<Short("STOP")>> \in Seq(Message) /\ Head(<<Short("STOP")>>) = Short("STOP")
    BY <2>3, Messages, Zenon
  <2> QED  BY <2>1, <2>2, <2>3, <2>4, Zenon
<1> QED
  BY <1>1, <1>2, <1>3, <1>4, <1>5, <1>6, <1>7, <1>8, <1>9, <1>10, <1>11, <1>12, <1>13, RestDomain

-------------------------------------------------------------------------------
(* A session's handlers.  Whole(m, s, i, o, d, idle) holds; the session     *)
(* becomes t, takes the first of i, and may send a command.                 *)

\* Nothing on its way.
LEMMA Nothing ==
  /\ \A S : <<>> \in Seq(S)
  /\ Len(<<>>) = 0 /\ Quiet(<<>>)
  BY DEF Quiet

\* With nothing but EXIT on its way a Dynamo does what it was told.
LEMMA QuietMode ==
  ASSUME NEW o, Quiet(o)
  PROVE  /\ \A state : ModeOf(state, o) = ModeOf(state, <<>>)
         /\ \A s : Told(s, o) = Told(s, <<>>)
  BY Nothing, QuietFits DEF ModeOf, Told

\* While a session waits for an answer, what has arrived is what is left of it.
LEMMA Expected ==
  ASSUME NEW s, NEW i, OneAnswer(s, i), i # <<>>, s.state \in DOMAIN Rest
  PROVE  i = Rest[s.state]
  BY RestDomain DEF OneAnswer

\* Nothing arrives for a session that waits for nothing.
LEMMA Unexpected ==
  ASSUME NEW s, NEW i, OneAnswer(s, i), s.state \in {"Connecting", "Ready", "Running"}
  PROVE  i = <<>>
  BY RestDomain DEF OneAnswer

\* Nor is an answer under way to it; RECORD_ON may be, to the Dynamo of one that
\* runs.
LEMMA UnexpectedQuiet ==
  ASSUME NEW s, NEW i, NEW o \in Seq(Command), OneCommand(s, i, o),
         s.state \in {"Connecting", "Ready", "Running"}
  PROVE  Unasked(o) /\ (s.state # "Running" => Quiet(o))
<1>1. \A p \in DOMAIN Answering : Answering[p] \notin {"Connecting", "Ready", "Running"}
  BY DEF Answering
<1>2. \A k \in 1 .. Len(o) : o[k].purpose \in DOMAIN Answering \cup Silent
  <2>1. \A k \in 1 .. Len(o) : o[k] \in Command
    BY ElementOfSeq
  <2>2. \A c \in Command : c.purpose \in DOMAIN Answering \cup Silent
    BY DEF Command
  <2> QED  BY <2>1, <2>2
<1>3. Unasked(o)
  BY <1>1, <1>2 DEF OneCommand, Unasked
<1>4. s.state # "Running" => \A k \in 1 .. Len(o) : o[k].purpose # "RECORD_ON"
  BY DEF OneCommand, Updating
<1> QED
  BY <1>3, <1>4 DEF Quiet, Unasked, Silent

\* The session goes on to t, with the rest of what arrived.
LEMMA Moved ==
  ASSUME NEW m, NEW s, NEW i, NEW o, NEW d, NEW idle, NEW t,
         Whole(m, s, i, o, d, idle), i # <<>>, t \in Session,
         OneAnswer(t, Tail(i)), NothingYet(t, d, idle), Counted(t),
         ModeOf(t.state, <<>>) = ModeOf(s.state, <<>>), GruntsKnown(m, t, <<>>, d)
  PROVE  Whole(m, t, Tail(i), o, d, idle)
<1>1. Quiet(o)
  BY ArrivedQuiet DEF Whole
<1>2. Tail(i) \in Seq(Message)
  BY HeadTailProperties, EmptySeq DEF Whole, Typed
<1>3. Typed(t, Tail(i), o, d)
  BY <1>2 DEF Whole, Typed
<1>4. OneCommand(t, Tail(i), o)
  BY <1>1, QuietFits
<1>5. ModeKnown(t, o, d)
  BY <1>1, QuietMode DEF Whole, ModeKnown
<1>6. GruntsKnown(m, t, o, d)
  BY <1>1, QuietMode DEF GruntsKnown
<1> QED
  BY <1>3, <1>4, <1>5, <1>6 DEF Whole

\* What a session sends gets on its way only to a Dynamo that is there.
Put(o, d, c) == IF d.up THEN o \o <<c>> ELSE o

\* The session goes on to t, which waits for the answer to c.
LEMMA Asks ==
  ASSUME NEW m, NEW s, NEW i, NEW o, NEW d, NEW idle, NEW c, NEW t,
         Whole(m, s, i, o, d, idle), Unasked(o), t \in Session,
         c \in Command, c.purpose \notin Silent, t.state = Answering[c.purpose],
         c.purpose \in {"SET_ACCESS", "SET_TARGETS"} => c.n = t.setup,
         Quiet(o) \/ t.state \in Updating \cup {"WaitRecordOff"},
         NothingYet(t, d, idle), Counted(t),
         \A q : (\A p : UnderWay(q, p) <=> UnderWay(o, p) \/ p = c.purpose)
                  => ModeKnown(t, q, d) /\ GruntsKnown(m, t, q, d)
  PROVE  Whole(m, t, <<>>, Put(o, d, c), d, idle)
<1> DEFINE q == o \o <<c>>
<1>0. o \in Seq(Command) /\ OneCommand(s, i, o) /\ d \in Process
  BY DEF Whole, Typed
<1>1. /\ q \in Seq(Command) /\ OneCommand(t, <<>>, q)
      /\ \A p : UnderWay(q, p) <=> UnderWay(o, p) \/ p = c.purpose
  BY <1>0, Sent
<1> HIDE DEF q
<1>2. ModeKnown(t, q, d) /\ GruntsKnown(m, t, q, d)
  BY <1>1
<1>3. OneAnswer(t, <<>>)
  BY DEF OneAnswer
<1>4. CASE d.up
  <2>1. Put(o, d, c) = q
    BY <1>4 DEF Put, q
  <2>2. Typed(t, <<>>, q, d)
    BY <1>0, <1>1, Nothing DEF Typed
  <2>3. DownMeansGone(q, d)
    BY <1>4 DEF DownMeansGone
  <2> QED  BY <2>1, <2>2, <2>3, <1>1, <1>2, <1>3 DEF Whole
<1>5. CASE ~d.up
  <2>1. Put(o, d, c) = o /\ o = <<>> /\ d = Down
    BY <1>5 DEF Put, Whole, DownMeansGone
  <2>2. Typed(t, <<>>, <<>>, d) /\ DownMeansGone(<<>>, d)
    BY <1>0, <2>1, Nothing DEF Typed, DownMeansGone
  <2>3. OneCommand(t, <<>>, <<>>)
    BY QuietFits, Nothing
  <2>4. ModeKnown(t, <<>>, d)
    BY <1>5 DEF ModeKnown
  <2>5. GruntsKnown(m, t, <<>>, d)
    BY <1>2, <2>1 DEF GruntsKnown, Down
  <2> QED  BY <2>1, <2>2, <2>3, <2>4, <2>5, <1>3 DEF Whole
<1> QED
  BY <1>4, <1>5

-------------------------------------------------------------------------------
(* Each handler, for one computer. *)

\* The states, one by one.
LEMMA States ==
  /\ State = {"WaitUpdateMgr", "WaitUpdateWorker", "WaitRecordOff", "WaitStop", "WaitFinalMgr",
              "WaitFinalWorker", "SetupAccess", "SetupTargetsReply", "SetupTargetsData",
              "WaitStartReply", "WaitBeginIoReply", "WaitLoginMsg", "WaitLoginData",
              "Connecting", "WaitTargetsDisk", "WaitTargetsTcp", "WaitTargetsVi",
              "WaitAddWorkers", "Ready", "Running", "Error", "Disconnected"}
  /\ InTest = {"WaitUpdateMgr", "WaitUpdateWorker", "WaitRecordOff", "WaitStop",
               "WaitFinalMgr", "WaitFinalWorker", "SetupAccess", "SetupTargetsReply",
               "SetupTargetsData", "WaitStartReply", "WaitBeginIoReply", "Running"}
  /\ Untested = {"WaitLoginMsg", "WaitLoginData", "Connecting", "WaitTargetsDisk",
                 "WaitTargetsTcp", "WaitTargetsVi", "WaitAddWorkers", "Error", "Disconnected"}
  BY DEF State, Updating, Stopping, Setup, Joining, InTest, Untested

\* A session that goes on to another state.
LEMMA Turned ==
  ASSUME NEW s \in Session, NEW state \in State
  PROVE  LET t == [s EXCEPT !.state = state] IN
         /\ t \in Session /\ t.state = state /\ t.workers = s.workers
         /\ t.setup = s.setup /\ t.active = s.active /\ t.result = s.result
         /\ t.pending = s.pending /\ t.stop = s.stop
  BY DEF Session

\* The handlers that take a login or a list of targets.
LEMMA JoinsOn ==
  ASSUME NEW m, NEW s, NEW i, NEW o, NEW d, NEW idle, NEW state,
         Whole(m, s, i, o, d, idle), i # <<>>,
         \/ s.state = "WaitLoginMsg" /\ state \in {"WaitLoginData", "Error"}
         \/ s.state = "WaitLoginData" /\ state = "Connecting"
         \/ s.state = "WaitTargetsDisk" /\ state = "WaitTargetsTcp"
         \/ s.state = "WaitTargetsTcp" /\ state = "WaitTargetsVi"
  PROVE  Whole(m, [s EXCEPT !.state = state], Tail(i), o, d, idle)
<1> DEFINE t == [s EXCEPT !.state = state]
<1>1. s \in Session /\ s.state \in State /\ state \in State
  BY States DEF Whole, Typed, Session
<1>2. t \in Session /\ t.state = state /\ t = [s EXCEPT !.state = state]
      /\ t.setup = s.setup /\ t.active = s.active /\ t.result = s.result
      /\ t.pending = s.pending /\ t.workers = s.workers
  BY <1>1, Turned
<1>3. OneAnswer(t, Tail(i))
  <2>1. i = Rest[s.state]
    BY Expected, RestDomain DEF Whole
  <2>2. state # "Error" => Tail(i) = <<>> \/ (state \in DOMAIN Rest /\ Tail(i) = Rest[state])
    BY <2>1, RestTail, RestDomain
  <2> QED  BY <2>2, <1>2 DEF OneAnswer
<1>4. NothingYet(t, d, idle)
  BY <1>2, States DEF Whole, NothingYet
<1>5. Counted(t)
  BY <1>2, States DEF Whole, NothingYet, Counted, SettingUp, Setup
<1>6. ModeOf(t.state, <<>>) = ModeOf(s.state, <<>>)
  BY <1>2 DEF ModeOf, Updating
<1>7. GruntsKnown(m, t, <<>>, d)
  BY <1>2, States DEF Whole, GruntsKnown, SettingUp
<1> HIDE DEF t
<1> QED
  BY <1>2, <1>3, <1>4, <1>5, <1>6, <1>7, Moved

\* AddWorkersReply: the session is ready, with grunts that have no targets.
LEMMA Joined ==
  ASSUME NEW m, NEW s, NEW i, NEW o, NEW d, NEW idle,
         Whole(m, s, i, o, d, idle), i # <<>>, s.state = "WaitAddWorkers"
  PROVE  Whole(m, [s EXCEPT !.state = "Ready"], Tail(i), o, d, idle)
<1> DEFINE t == [s EXCEPT !.state = "Ready"]
<1>1. s \in Session /\ "Ready" \in State
  BY States DEF Whole, Typed
<1>2. /\ t \in Session /\ t.state = "Ready" /\ t.workers = s.workers
      /\ t.setup = s.setup /\ t.active = s.active /\ t.result = s.result /\ t.pending = s.pending
  BY <1>1, Turned
<1>3. Tail(i) = <<>>
  BY Expected, RestTail, RestDomain DEF Whole
<1> HIDE DEF t
<1>4. OneAnswer(t, Tail(i))
  BY <1>3 DEF OneAnswer
<1>5. NothingYet(t, d, idle)
  BY <1>2, States DEF Whole, NothingYet
<1>6. Counted(t)
  BY <1>2, States DEF Whole, NothingYet, Counted, SettingUp, Setup
<1>7. ModeOf(t.state, <<>>) = ModeOf(s.state, <<>>)
  BY <1>2 DEF ModeOf, Updating
<1>8. GruntsKnown(m, t, <<>>, d)
  BY <1>2, States DEF Whole, GruntsKnown, SettingUp
<1>9. Whole(m, t, Tail(i), o, d, idle)
  BY <1>2, <1>4, <1>5, <1>6, <1>7, <1>8, Moved
<1> QED
  BY <1>9 DEF t

\* SetTargetsReply, UpdateMgr and FinalMgr: the rest of the answer follows.
LEMMA GoesOn ==
  ASSUME NEW m, NEW s, NEW i, NEW o, NEW d, NEW idle, NEW state,
         Whole(m, s, i, o, d, idle), i # <<>>,
         \/ s.state = "SetupTargetsReply" /\ state = "SetupTargetsData"
         \/ s.state = "WaitUpdateMgr" /\ state = "WaitUpdateWorker"
         \/ s.state = "WaitFinalMgr" /\ state = "WaitFinalWorker"
  PROVE  Whole(m, [s EXCEPT !.state = state], Tail(i), o, d, idle)
<1> DEFINE t == [s EXCEPT !.state = state]
<1>1. s \in Session /\ state \in State /\ i \in Seq(Message)
  BY States DEF Whole, Typed
<1>2. /\ t \in Session /\ t.state = state /\ t.workers = s.workers
      /\ t.setup = s.setup /\ t.active = s.active /\ t.result = s.result /\ t.pending = s.pending
  BY <1>1, Turned
<1> HIDE DEF t
<1>3. OneAnswer(t, Tail(i))
  <2>1. CASE s.state = "SetupTargetsReply"
    <3>1. i = Rest[s.state]
      BY <2>1, Expected, RestDomain DEF Whole
    <3>2. state \in DOMAIN Rest /\ Tail(i) = Rest[state]
      BY <2>1, <3>1, RestTail, RestDomain
    <3> QED  BY <3>2, <1>2 DEF OneAnswer
  <2>2. CASE s.state \in {"WaitUpdateMgr", "WaitFinalMgr"}
    <3>1. /\ Len(i) <= s.active + 1
          /\ \A k \in 2 .. Len(i) : i[k] = Long(Kind(s.state), k - 2)
      BY <2>2, RestDomain DEF Whole, OneAnswer
    <3>2. s.result = 0 /\ s.active \in Nat
      BY <2>2, <1>1 DEF Whole, Counted, Session
    <3>3. /\ Len(i) \in Nat \ {0} /\ Len(Tail(i)) = Len(i) - 1
          /\ \A k \in 1 .. Len(Tail(i)) : Tail(i)[k] = i[k + 1]
      BY <1>1, HeadTailProperties, EmptySeq
    <3>4. Kind(state) = Kind(s.state) /\ state \in {"WaitUpdateWorker", "WaitFinalWorker"}
      BY <2>2 DEF Kind, Updating
    <3>5. \A k \in 1 .. Len(Tail(i)) : Tail(i)[k] = Long(Kind(state), 0 + k - 1)
      <4> TAKE k \in 1 .. Len(Tail(i))
      <4>1. k + 1 \in 2 .. Len(i) /\ (k + 1) - 2 = 0 + k - 1
        BY <3>3
      <4> QED  BY <4>1, <3>1, <3>3, <3>4
    <3>6. Len(Tail(i)) <= s.active - 0
      BY <3>1, <3>2, <3>3
    <3> QED  BY <3>2, <3>4, <3>5, <3>6, <1>2 DEF OneAnswer
  <2> QED  BY <2>1, <2>2
<1>4. NothingYet(t, d, idle)
  BY <1>2, States DEF Whole, NothingYet
<1>5. Counted(t)
  BY <1>2, States DEF Whole, Counted, SettingUp, Setup
<1>6. ModeOf(t.state, <<>>) = ModeOf(s.state, <<>>)
  BY <1>2 DEF ModeOf, Updating
<1>7. GruntsKnown(m, t, <<>>, d)
  <2>1. Quiet(o)
    BY ArrivedQuiet DEF Whole
  <2>2. Told(s, o) = Told(s, <<>>)
    BY <2>1, QuietMode
  <2>3. Told(t, <<>>) = Told(s, <<>>)
    BY <1>2, Nothing DEF Told, UnderWay
  <2> QED  BY <2>2, <2>3, <1>2, States DEF Whole, GruntsKnown, SettingUp
<1>8. Whole(m, t, Tail(i), o, d, idle)
  BY <1>2, <1>3, <1>4, <1>5, <1>6, <1>7, Moved
<1> QED
  BY <1>8 DEF t

\* The session has its answer and sends the next command.
LEMMA AsksNext ==
  ASSUME NEW m, NEW s, NEW i, NEW o, NEW d, NEW idle, NEW c, NEW t,
         Whole(m, s, i, o, d, idle), Quiet(o), t \in Session,
         c \in Command, c.purpose \notin Silent, t.state = Answering[c.purpose],
         c.purpose \in {"SET_ACCESS", "SET_TARGETS"} => c.n = t.setup,
         NothingYet(t, d, idle), Counted(t),
         ModeOf(t.state, <<c>>) = ModeOf(s.state, <<>>), GruntsKnown(m, t, <<c>>, d)
  PROVE  Whole(m, t, <<>>, Put(o, d, c), d, idle)
<1>1. \A p : p # "EXIT" => (UnderWay(<<c>>, p) <=> p = c.purpose)
  BY DEF UnderWay
<1>2. ASSUME NEW q, \A p : UnderWay(q, p) <=> UnderWay(o, p) \/ p = c.purpose
      PROVE  ModeKnown(t, q, d) /\ GruntsKnown(m, t, q, d)
  <2>1. \A p : p # "EXIT" => (UnderWay(q, p) <=> UnderWay(<<c>>, p))
    BY <1>1, <1>2, QuietFits
  <2>2. ModeOf(t.state, q) = ModeOf(t.state, <<c>>)
    BY <2>1 DEF ModeOf
  <2>3. Told(t, q) = Told(t, <<c>>)
    BY <2>1 DEF Told
  <2>4. ModeOf(s.state, o) = ModeOf(s.state, <<>>)
    BY QuietMode
  <2>5. ModeKnown(t, q, d)
    BY <2>2, <2>4 DEF Whole, ModeKnown
  <2> QED  BY <2>3, <2>5 DEF GruntsKnown
<1> QED
  BY <1>2, QuietFits, Asks

\* The commands that are answered.
LEMMA Commands ==
  /\ \A p \in DOMAIN Answering, n \in Nat :
         Cmd(p, n) \in Command /\ Cmd(p, n).purpose = p /\ Cmd(p, n).n = n
  /\ \A p \in DOMAIN Answering : p \notin Silent
  /\ DOMAIN Answering = {"REPORT_TARGETS", "ADD_WORKERS", "SET_ACCESS", "SET_TARGETS", "START",
                         "BEGIN_IO", "REPORT_UPDATE", "RECORD_OFF", "STOP", "REPORT_RESULTS"}
<1>1. DOMAIN Answering = {"REPORT_TARGETS", "ADD_WORKERS", "SET_ACCESS", "SET_TARGETS", "START",
                          "BEGIN_IO", "REPORT_UPDATE", "RECORD_OFF", "STOP", "REPORT_RESULTS"}
  BY DEF Answering
<1>2. \A p \in DOMAIN Answering : p \notin Silent
  BY <1>1 DEF Silent
<1>3. \A p \in DOMAIN Answering, n \in Nat :
         Cmd(p, n) \in Command /\ Cmd(p, n).purpose = p /\ Cmd(p, n).n = n
  BY DEF Cmd, Command
<1> QED
  BY <1>1, <1>2, <1>3

\* What the session waits for after each.
LEMMA Answers ==
  /\ Answering["REPORT_TARGETS"] = "WaitTargetsDisk" /\ Answering["ADD_WORKERS"] = "WaitAddWorkers"
  /\ Answering["SET_ACCESS"] = "SetupAccess" /\ Answering["SET_TARGETS"] = "SetupTargetsReply"
  /\ Answering["START"] = "WaitStartReply" /\ Answering["BEGIN_IO"] = "WaitBeginIoReply"
  /\ Answering["REPORT_UPDATE"] = "WaitUpdateMgr" /\ Answering["RECORD_OFF"] = "WaitRecordOff"
  /\ Answering["STOP"] = "WaitStop" /\ Answering["REPORT_RESULTS"] = "WaitFinalMgr"
  BY DEF Answering

\* OnMainConnected.
LEMMA MainConnected ==
  ASSUME NEW m, NEW s, NEW i, NEW o, NEW d, NEW idle,
         Whole(m, s, i, o, d, idle), s.state = "Connecting"
  PROVE  /\ i = <<>>
         /\ Whole(m, [s EXCEPT !.state = "WaitTargetsDisk"], i,
                  Put(o, d, Cmd("REPORT_TARGETS", 0)), d, idle)
<1> DEFINE t == [s EXCEPT !.state = "WaitTargetsDisk"]
           c == Cmd("REPORT_TARGETS", 0)
<1>0. s \in Session /\ "WaitTargetsDisk" \in State /\ o \in Seq(Command)
  BY States DEF Whole, Typed
<1>1. /\ t \in Session /\ t.state = "WaitTargetsDisk" /\ t.workers = s.workers
      /\ t.setup = s.setup /\ t.active = s.active /\ t.result = s.result /\ t.pending = s.pending
  BY <1>0, Turned
<1>2. c \in Command /\ c.purpose = "REPORT_TARGETS" /\ c.purpose \notin Silent
      /\ t.state = Answering[c.purpose]
  BY <1>1, Commands, Answers
<1> HIDE DEF t, c
<1>3. i = <<>> /\ Quiet(o)
  BY <1>0, Unexpected, UnexpectedQuiet DEF Whole
<1>4. NothingYet(t, d, idle)
  BY <1>1, States DEF Whole, NothingYet
<1>5. Counted(t)
  BY <1>1, States DEF Whole, NothingYet, Counted, SettingUp, Setup
<1>6. ModeOf(t.state, <<c>>) = ModeOf(s.state, <<>>)
  BY <1>1 DEF ModeOf, Updating
<1>7. GruntsKnown(m, t, <<c>>, d)
  BY <1>1, States DEF Whole, GruntsKnown, SettingUp
<1>8. Whole(m, t, <<>>, Put(o, d, c), d, idle)
  BY <1>1, <1>2, <1>3, <1>4, <1>5, <1>6, <1>7, AsksNext
<1> QED
  BY <1>3, <1>8 DEF t, c

\* SetAccessReply, StartReply, RecordOffReply and StopReply.
LEMMA AsksAfterReply ==
  ASSUME NEW m, NEW s, NEW i, NEW o, NEW d, NEW idle, NEW state, NEW p, NEW n \in Nat,
         Whole(m, s, i, o, d, idle), i # <<>>,
         \/ s.state = "SetupAccess" /\ state = "SetupTargetsReply"
               /\ p = "SET_TARGETS" /\ n = s.setup
         \/ s.state = "WaitStartReply" /\ state = "WaitBeginIoReply" /\ p = "BEGIN_IO"
         \/ s.state = "WaitRecordOff" /\ state = "WaitStop" /\ p = "STOP"
  PROVE  Whole(m, [s EXCEPT !.state = state], Tail(i), Put(o, d, Cmd(p, n)), d, idle)
<1> DEFINE t == [s EXCEPT !.state = state]
           c == Cmd(p, n)
<1>0. s \in Session /\ state \in State
  BY States DEF Whole, Typed
<1>1. /\ t \in Session /\ t.state = state /\ t.workers = s.workers
      /\ t.setup = s.setup /\ t.active = s.active /\ t.result = s.result /\ t.pending = s.pending
  BY <1>0, Turned
<1>2. /\ c \in Command /\ c.purpose = p /\ c.n = n /\ c.purpose \notin Silent
      /\ t.state = Answering[c.purpose]
  BY <1>1, Commands, Answers
<1> HIDE DEF t, c
<1>3. Quiet(o)
  BY ArrivedQuiet DEF Whole
<1>4. Tail(i) = <<>>
  BY Expected, RestTail, RestDomain DEF Whole
<1>5. NothingYet(t, d, idle)
  BY <1>1, States DEF Whole, NothingYet
<1>6. Counted(t)
  BY <1>1, States DEF Whole, Counted, SettingUp, Setup
<1>7. ModeOf(t.state, <<c>>) = ModeOf(s.state, <<>>)
  BY <1>1, <1>2, Nothing DEF ModeOf, Updating, UnderWay
<1>8. GruntsKnown(m, t, <<c>>, d)
  <2>1. Told(s, o) = Told(s, <<>>)
    BY <1>3, QuietMode
  <2>2. Told(t, <<c>>) = Told(s, <<>>)
    BY <1>1, <1>2, Nothing DEF Told, UnderWay
  <2> QED  BY <2>1, <2>2, <1>1, States DEF Whole, GruntsKnown, SettingUp
<1>9. Whole(m, t, <<>>, Put(o, d, c), d, idle)
  BY <1>1, <1>2, <1>3, <1>5, <1>6, <1>7, <1>8, AsksNext
<1> QED
  BY <1>4, <1>9 DEF t, c

\* ProcessTargetList, the last one.
LEMMA TargetsKnown ==
  ASSUME NEW m \in Managers, NEW s, NEW i, NEW o, NEW d, NEW idle,
         Whole(m, s, i, o, d, idle), i # <<>>, s.state = "WaitTargetsVi"
  PROVE  Whole(m, [[s EXCEPT !.state = "WaitAddWorkers"] EXCEPT !.workers = DefaultWorkers(m)],
               Tail(i), Put(o, d, Cmd("ADD_WORKERS", Processors[m])), d, idle)
<1> DEFINE t == [[s EXCEPT !.state = "WaitAddWorkers"] EXCEPT !.workers = DefaultWorkers(m)]
           c == Cmd("ADD_WORKERS", Processors[m])
<1>0. s \in Session /\ "WaitAddWorkers" \in State /\ Processors[m] \in Nat \ {0}
  BY States, EngineAssumption DEF Whole, Typed, EngineAssumption
<1>a. DefaultWorkers(m) \in Seq(Nat)
  <2>1. \A k \in 1 .. Processors[m] : k - 1 \in Nat
    BY <1>0
  <2> QED  BY <1>0, <2>1 DEF DefaultWorkers
<1>1. /\ t \in Session /\ t.state = "WaitAddWorkers"
      /\ t.setup = s.setup /\ t.active = s.active /\ t.result = s.result /\ t.pending = s.pending
  BY <1>0, <1>a DEF Session
<1>2. /\ c \in Command /\ c.purpose = "ADD_WORKERS" /\ c.purpose \notin Silent
      /\ t.state = Answering[c.purpose]
  BY <1>0, <1>1, Commands, Answers
<1> HIDE DEF t, c
<1>3. Quiet(o)
  BY ArrivedQuiet DEF Whole
<1>4. Tail(i) = <<>>
  BY Expected, RestTail, RestDomain DEF Whole
<1>5. NothingYet(t, d, idle)
  BY <1>1, States DEF Whole, NothingYet
<1>6. Counted(t)
  BY <1>1, States DEF Whole, NothingYet, Counted, SettingUp, Setup
<1>7. ModeOf(t.state, <<c>>) = ModeOf(s.state, <<>>)
  BY <1>1 DEF ModeOf, Updating
<1>8. GruntsKnown(m, t, <<c>>, d)
  BY <1>1, States DEF Whole, GruntsKnown, SettingUp
<1>9. Whole(m, t, <<>>, Put(o, d, c), d, idle)
  BY <1>1, <1>2, <1>3, <1>5, <1>6, <1>7, <1>8, AsksNext
<1> QED
  BY <1>4, <1>9 DEF t, c

\* Once the test has begun less is said of a session that is ready.
LEMMA Begun ==
  ASSUME NEW m, NEW s, NEW i, NEW o, NEW d, NEW idle, Whole(m, s, i, o, d, idle)
  PROVE  Whole(m, s, i, o, d, FALSE)
  BY DEF Whole, NothingYet

\* BeginSetupWorker: the n-th worker of u is next, those before have targets.
LEMMA SetsUp ==
  ASSUME NEW m, NEW s, NEW i, NEW o, NEW d, NEW idle, NEW u \in Session, NEW n \in Nat,
         Whole(m, s, i, o, d, idle), Quiet(o), s.state \in {"Ready", "SetupTargetsData"},
         u.result = 0, u.pending = <<>>, n <= Len(u.workers),
         d.ready = IF m \in Disks /\ d.workers > 0 THEN 0 .. n - 1 ELSE {}
  PROVE  LET did == BeginSetupWorker(u, n) IN
         /\ Whole(m, did.session, <<>>, IF d.up THEN o \o did.out ELSE o, d, FALSE)
         /\ did.session.state \in Setup
<1>0. /\ {"SetupAccess", "WaitStartReply"} \subseteq State \cap Setup
      /\ u.workers \in Seq(Nat) /\ Len(u.workers) \in Nat
  BY States, LenProperties DEF Session, Setup
<1>1. Whole(m, s, i, o, d, FALSE)
  BY Begun
<1>2. ModeOf(s.state, <<>>) = "idle" /\ \A g \in d.ready : g < d.workers
  BY DEF ModeOf, Updating, Whole, GruntsKnown
<1>3. CASE n >= Len(u.workers)
  <2> DEFINE t == [u EXCEPT !.active = Len(u.workers), !.state = "WaitStartReply"]
             c == Cmd("START", 0)
  <2>1. BeginSetupWorker(u, n).session = t /\ BeginSetupWorker(u, n).out = <<c>>
    BY <1>3 DEF BeginSetupWorker, BeginStartSequence, Do
  <2>2. /\ t \in Session /\ t.state = "WaitStartReply" /\ t.active = Len(u.workers)
        /\ t.result = 0 /\ t.pending = <<>> /\ t.workers = u.workers
    BY <1>0 DEF Session
  <2>3. /\ c \in Command /\ c.purpose = "START" /\ c.purpose \notin Silent
        /\ t.state = Answering[c.purpose]
    BY <2>2, Commands, Answers
  <2> HIDE DEF t, c
  <2>4. NothingYet(t, d, FALSE)
    BY <2>2, States DEF NothingYet
  <2>5. Counted(t)
    BY <2>2, <1>0, Nothing, States DEF Counted
  <2>6. ModeOf(t.state, <<c>>) = "idle"
    BY <2>2, <2>3, Nothing DEF ModeOf, UnderWay
  <2>7. GruntsKnown(m, t, <<c>>, d)
    <3>1. Told(t, <<c>>) = n /\ t.state \notin SettingUp
      BY <1>0, <1>3, <2>2 DEF Told, SettingUp
    <3> QED  BY <3>1, <1>2 DEF GruntsKnown
  <2>8. Whole(m, t, <<>>, Put(o, d, c), d, FALSE)
    BY <1>1, <1>2, <2>2, <2>3, <2>4, <2>5, <2>6, <2>7, AsksNext
  <2> QED  BY <1>0, <2>1, <2>2, <2>8 DEF Put
<1>4. CASE n < Len(u.workers)
  <2> DEFINE t == [u EXCEPT !.setup = n, !.state = "SetupAccess"]
             c == Cmd("SET_ACCESS", n)
  <2>1. BeginSetupWorker(u, n).session = t /\ BeginSetupWorker(u, n).out = <<c>>
    BY <1>0, <1>4 DEF BeginSetupWorker, Do
  <2>2. /\ t \in Session /\ t.state = "SetupAccess" /\ t.setup = n
        /\ t.result = 0 /\ t.pending = <<>> /\ t.workers = u.workers /\ t.active \in Nat
    BY <1>0 DEF Session
  <2>3. /\ c \in Command /\ c.purpose = "SET_ACCESS" /\ c.n = n /\ c.purpose \notin Silent
        /\ t.state = Answering[c.purpose]
    BY <2>2, Commands, Answers
  <2> HIDE DEF t, c
  <2>4. NothingYet(t, d, FALSE)
    BY <2>2, States DEF NothingYet
  <2>5. Counted(t)
    BY <2>2, <1>0, Nothing, States DEF Counted, SettingUp
  <2>6. ModeOf(t.state, <<c>>) = "idle"
    BY <2>2, <2>3, Nothing DEF ModeOf, UnderWay, Updating
  <2>7. GruntsKnown(m, t, <<c>>, d)
    <3>1. Told(t, <<c>>) = n /\ t.setup < Len(t.workers)
      BY <1>0, <1>4, <2>2 DEF Told
    <3> QED  BY <3>1, <1>2 DEF GruntsKnown
  <2>8. Whole(m, t, <<>>, Put(o, d, c), d, FALSE)
    BY <1>1, <1>2, <2>2, <2>3, <2>4, <2>5, <2>6, <2>7, AsksNext
  <2> QED  BY <1>0, <2>1, <2>2, <2>8 DEF Put
<1>5. n >= Len(u.workers) \/ n < Len(u.workers)
  BY <1>0
<1> QED
  BY <1>3, <1>4, <1>5, Zenon

\* SetTargetsData.
LEMMA TargetsSet ==
  ASSUME NEW m, NEW s, NEW i, NEW o, NEW d, NEW idle \in BOOLEAN,
         Whole(m, s, i, o, d, idle), i # <<>>, s.state = "SetupTargetsData"
  PROVE  LET did == BeginSetupWorker(s, s.setup + 1) IN
         /\ Whole(m, did.session, Tail(i), IF d.up THEN o \o did.out ELSE o, d, idle)
         /\ did.session.state \in Setup
<1>1. /\ s \in Session /\ s.setup + 1 \in Nat /\ s.setup + 1 <= Len(s.workers)
      /\ s.result = 0 /\ s.pending = <<>>
  <2>1. s \in Session /\ s.setup \in Nat /\ s.setup < Len(s.workers) /\ s.workers \in Seq(Nat)
    BY DEF Whole, Typed, GruntsKnown, SettingUp, Session
  <2>2. s.result = 0 /\ Len(s.pending) = 0 /\ s.pending \in Seq(Result)
    BY DEF Whole, Typed, Counted, Setup, Session
  <2> QED  BY <2>1, <2>2, EmptySeq, LenProperties
<1>2. Quiet(o) /\ Tail(i) = <<>>
  BY ArrivedQuiet, Expected, RestTail, RestDomain DEF Whole
<1>3. d.ready = IF m \in Disks /\ d.workers > 0 THEN 0 .. (s.setup + 1) - 1 ELSE {}
  BY <1>2, QuietMode, States DEF Whole, GruntsKnown, Told
<1>4. idle = FALSE
  BY States DEF Whole, NothingYet
<1> DEFINE n == s.setup + 1
<1> HIDE DEF n
<1>5. n \in Nat /\ n <= Len(s.workers)
      /\ d.ready = IF m \in Disks /\ d.workers > 0 THEN 0 .. n - 1 ELSE {}
  BY <1>1, <1>3 DEF n
<1>6. LET did == BeginSetupWorker(s, n) IN
      /\ Whole(m, did.session, <<>>, IF d.up THEN o \o did.out ELSE o, d, FALSE)
      /\ did.session.state \in Setup
  BY <1>1, <1>2, <1>5, SetsUp, Zenon
<1> QED
  BY <1>2, <1>4, <1>6, Zenon DEF n

\* StopReply: the final results are asked for, and none is collected yet.
LEMMA TestStopped ==
  ASSUME NEW m, NEW s, NEW i, NEW o, NEW d, NEW idle,
         Whole(m, s, i, o, d, idle), i # <<>>, s.state = "WaitStop"
  PROVE  Whole(m, [[s EXCEPT !.state = "WaitFinalMgr"] EXCEPT !.result = 0, !.pending = <<>>],
               Tail(i), Put(o, d, Cmd("REPORT_RESULTS", 0)), d, idle)
<1> DEFINE t == [[s EXCEPT !.state = "WaitFinalMgr"] EXCEPT !.result = 0, !.pending = <<>>]
           c == Cmd("REPORT_RESULTS", 0)
<1>0. s \in Session /\ "WaitFinalMgr" \in State /\ <<>> \in Seq(Result)
  BY States, Nothing DEF Whole, Typed
<1>1. /\ t \in Session /\ t.state = "WaitFinalMgr" /\ t.workers = s.workers
      /\ t.setup = s.setup /\ t.active = s.active /\ t.result = 0 /\ t.pending = <<>>
      /\ t.active \in Nat
  BY <1>0 DEF Session
<1>2. /\ c \in Command /\ c.purpose = "REPORT_RESULTS" /\ c.purpose \notin Silent
      /\ t.state = Answering[c.purpose]
  BY <1>1, Commands, Answers
<1> HIDE DEF t, c
<1>3. Quiet(o)
  BY ArrivedQuiet DEF Whole
<1>4. Tail(i) = <<>>
  BY Expected, RestTail, RestDomain DEF Whole
<1>5. NothingYet(t, d, idle)
  BY <1>1, States DEF Whole, NothingYet
<1>6. Counted(t)
  BY <1>1, Nothing, States DEF Whole, Counted, SettingUp
<1>7. ModeOf(t.state, <<c>>) = ModeOf(s.state, <<>>)
  BY <1>1, Nothing DEF ModeOf, Updating, UnderWay
<1>8. GruntsKnown(m, t, <<c>>, d)
  BY <1>1, States DEF Whole, GruntsKnown, SettingUp, Told
<1>9. Whole(m, t, <<>>, Put(o, d, c), d, idle)
  BY <1>1, <1>2, <1>3, <1>5, <1>6, <1>7, <1>8, AsksNext
<1> QED
  BY <1>4, <1>9 DEF t, c

\* BeginIoReply: the test runs once its Dynamo has read RECORD_ON, which is not
\* answered.
LEMMA IoBegun ==
  ASSUME NEW m, NEW s, NEW i, NEW o, NEW d, NEW idle,
         Whole(m, s, i, o, d, idle), i # <<>>, s.state = "WaitBeginIoReply"
  PROVE  Whole(m, [s EXCEPT !.state = "Running"], Tail(i),
               Put(o, d, Cmd("RECORD_ON", 0)), d, idle)
<1> DEFINE t == [s EXCEPT !.state = "Running"]
           c == Cmd("RECORD_ON", 0)
           q == Put(o, d, c)
<1>0. s \in Session /\ "Running" \in State /\ o \in Seq(Command) /\ d \in Process
  BY States DEF Whole, Typed
<1>1. /\ t \in Session /\ t.state = "Running" /\ t.workers = s.workers
      /\ t.setup = s.setup /\ t.active = s.active /\ t.result = s.result /\ t.pending = s.pending
  BY <1>0, Turned
<1>2. Quiet(o) /\ Tail(i) = <<>>
  BY ArrivedQuiet, Expected, RestTail, RestDomain DEF Whole
<1>3. OneAnswer(t, <<>>)
  BY DEF OneAnswer
<1>4. NothingYet(t, d, idle)
  BY <1>1, States DEF Whole, NothingYet
<1>5. Counted(t)
  BY <1>1, States DEF Whole, Counted, SettingUp, Setup
<1>6. /\ q \in Seq(Command) /\ OneCommand(t, <<>>, q)
      /\ d.up => \A p : p # "EXIT" => (UnderWay(q, p) <=> p = "RECORD_ON")
  <2>1. CASE d.up
    BY <2>1, <1>0, <1>1, <1>2, SentRecordOn DEF Put
  <2>2. CASE ~d.up
    BY <2>2, <1>0, <1>2, QuietFits DEF Put
  <2> QED  BY <2>1, <2>2
<1>7. DownMeansGone(q, d)
  BY DEF Put, Whole, DownMeansGone
<1> HIDE DEF t, q
<1>8. ModeKnown(t, q, d)
  <2>1. ~UnderWay(o, "BEGIN_IO")
    BY <1>2, QuietFits
  <2>2. ModeOf(s.state, o) = "io"
    BY <2>1 DEF ModeOf
  <2>3. d.up => d.mode = "io"
    BY <2>2 DEF Whole, ModeKnown
  <2>4. d.up => ModeOf(t.state, q) = "io"
    BY <1>1, <1>6 DEF ModeOf
  <2> QED  BY <2>3, <2>4 DEF ModeKnown
<1>9. GruntsKnown(m, t, q, d)
  BY <1>1, States DEF Whole, GruntsKnown, Told, SettingUp
<1>10. Typed(t, <<>>, q, d)
  BY <1>0, <1>1, <1>6, Nothing DEF Typed
<1>11. Whole(m, t, <<>>, q, d, idle)
  BY <1>3, <1>4, <1>5, <1>6, <1>7, <1>8, <1>9, <1>10 DEF Whole
<1> QED
  BY <1>2, <1>11 DEF t, q

\* A session whose test runs asks for results, or stops the test.
LEMMA AsksWhileRunning ==
  ASSUME NEW m, NEW s, NEW i, NEW o, NEW d, NEW idle, NEW c, NEW t \in Session,
         Whole(m, s, i, o, d, idle), s.state = "Running",
         \/ t.state = "WaitUpdateMgr" /\ c = Cmd("REPORT_UPDATE", 0)
               /\ t.result = 0 /\ t.pending = <<>>
         \/ t.state = "WaitRecordOff" /\ c = Cmd("RECORD_OFF", 0)
               /\ t.result = s.result /\ t.pending = s.pending,
         t.workers = s.workers /\ t.active = s.active
  PROVE  Whole(m, t, <<>>, Put(o, d, c), d, idle)
<1>1. c \in Command /\ c.purpose \notin Silent /\ t.state = Answering[c.purpose]
      /\ c.purpose \in {"REPORT_UPDATE", "RECORD_OFF"}
  BY Commands, Answers
<1>2. i = <<>> /\ Unasked(o)
  BY Unexpected, UnexpectedQuiet DEF Whole, Typed
<1>3. NothingYet(t, d, idle)
  BY States DEF Whole, NothingYet
<1>4. Counted(t)
  <2>1. t.active \in Nat
    BY DEF Session
  <2> QED  BY <2>1, Nothing, States DEF Whole, Counted, SettingUp, Setup
<1>5. ASSUME NEW q, \A p : UnderWay(q, p) <=> UnderWay(o, p) \/ p = c.purpose
      PROVE  ModeKnown(t, q, d) /\ GruntsKnown(m, t, q, d)
  <2>1. ~UnderWay(o, "RECORD_OFF")
    BY <1>2 DEF Unasked, Silent, UnderWay
  <2>2. ModeOf(t.state, q) = ModeOf(s.state, o)
    BY <1>1, <1>5, <2>1, Answers DEF ModeOf, Updating
  <2>3. ModeKnown(t, q, d)
    BY <2>2 DEF Whole, ModeKnown
  <2>4. Told(t, q) = Len(s.workers) /\ Told(s, o) = Len(s.workers)
    BY DEF Told
  <2> QED  BY <2>3, <2>4, States DEF Whole, GruntsKnown, SettingUp
<1> QED
  BY <1>1, <1>2, <1>3, <1>4, <1>5, Asks, States DEF Updating

\* SessionStopTest: a running test is stopped, one that is being asked for an
\* update is stopped after it.
LEMMA StopsTest ==
  ASSUME NEW m, NEW s, NEW i, NEW o, NEW d, NEW idle, Whole(m, s, i, o, d, idle)
  PROVE  LET did == SessionStopTest(s) IN
         /\ Whole(m, did.session, i, IF d.up THEN o \o did.out ELSE o, d, idle)
         /\ did.out = <<>> \/ (did.out = <<Cmd("RECORD_OFF", 0)>> /\ i = <<>>)
         /\ did.session.pending = s.pending
         /\ s.state \in {"Ready", "Disconnected"} => did.session = s
         /\ did.session.state \in {"Ready", "Running", "Disconnected"} => did.session = s
<1> DEFINE did == SessionStopTest(s)
<1>0. s \in Session /\ o \in Seq(Command) /\ o \o <<>> = o /\ {"WaitRecordOff"} \subseteq State
  BY ConcatEmptySeq, States DEF Whole, Typed
<1>1. CASE s.state \in Updating
  <2> DEFINE t == [s EXCEPT !.stop = TRUE]
  <2>1. did.session = t /\ did.out = <<>>
    BY <1>1 DEF SessionStopTest, Do
  <2>2. /\ t \in Session /\ t.state = s.state /\ t.workers = s.workers /\ t.setup = s.setup
        /\ t.active = s.active /\ t.result = s.result /\ t.pending = s.pending
    BY <1>0 DEF Session
  <2> HIDE DEF t, did
  <2>3. Typed(t, i, o, d) /\ DownMeansGone(o, d)
    BY <2>2 DEF Whole, Typed
  <2>4. OneCommand(t, i, o)
    BY <2>2 DEF Whole, OneCommand
  <2>5. OneAnswer(t, i)
    BY <2>2 DEF Whole, OneAnswer
  <2>6. ModeKnown(t, o, d)
    BY <2>2 DEF Whole, ModeKnown
  <2>7. GruntsKnown(m, t, o, d)
    BY <2>2 DEF Whole, GruntsKnown, Told
  <2>8. NothingYet(t, d, idle)
    BY <2>2 DEF Whole, NothingYet
  <2>9. Counted(t)
    BY <2>2 DEF Whole, Counted
  <2>10. Whole(m, t, i, o, d, idle)
    BY <2>3, <2>4, <2>5, <2>6, <2>7, <2>8, <2>9 DEF Whole
  <2> QED  BY <1>0, <1>1, <2>1, <2>2, <2>10 DEF did, Updating
<1>2. CASE s.state = "Running"
  <2> DEFINE t == [s EXCEPT !.state = "WaitRecordOff"]
             c == Cmd("RECORD_OFF", 0)
  <2>1. did.session = t /\ did.out = <<c>>
    BY <1>2 DEF SessionStopTest, Do, Updating
  <2>2. /\ t \in Session /\ t.state = "WaitRecordOff" /\ t.workers = s.workers
        /\ t.active = s.active /\ t.result = s.result /\ t.pending = s.pending
    BY <1>0, Turned
  <2>3. i = <<>>
    BY <1>2, Unexpected DEF Whole
  <2>4. Whole(m, t, <<>>, Put(o, d, c), d, idle)
    <3> HIDE DEF t
    <3> QED  BY <1>2, <2>2, AsksWhileRunning
  <2> HIDE DEF t, did, c
  <2> QED  BY <1>2, <2>1, <2>2, <2>3, <2>4 DEF did, c, Put
<1>3. CASE s.state \notin Updating \cup {"Running"}
  <2>1. did.session = s /\ did.out = <<>>
    BY <1>3 DEF SessionStopTest, Do
  <2> HIDE DEF did
  <2> QED  BY <1>0, <2>1 DEF did
<1> QED
  BY <1>1, <1>2, <1>3

\* A session that is asked to leave, whatever it does.
LEMMA Leaves ==
  ASSUME NEW m, NEW s, NEW i, NEW o, NEW d, NEW idle, Whole(m, s, i, o, d, idle)
  PROVE  Whole(m, s, i, Put(o, d, Cmd("EXIT", 0)), d, idle)
<1> DEFINE q == Put(o, d, Cmd("EXIT", 0))
<1>0. o \in Seq(Command) /\ OneCommand(s, i, o)
  BY DEF Whole, Typed
<1>1. /\ q \in Seq(Command) /\ OneCommand(s, i, q)
      /\ \A p : p # "EXIT" => (UnderWay(q, p) <=> UnderWay(o, p))
  BY <1>0, SentExit DEF Put
<1>2. DownMeansGone(q, d)
  BY DEF Put, Whole, DownMeansGone
<1> HIDE DEF q
<1>3. ModeOf(s.state, q) = ModeOf(s.state, o) /\ Told(s, q) = Told(s, o)
  BY <1>1 DEF ModeOf, Told
<1>4. ModeKnown(s, q, d) /\ GruntsKnown(m, s, q, d)
  BY <1>3 DEF Whole, ModeKnown, GruntsKnown
<1>5. Typed(s, i, q, d)
  BY <1>1 DEF Whole, Typed
<1>6. Whole(m, s, i, q, d, idle)
  BY <1>1, <1>2, <1>4, <1>5 DEF Whole
<1> QED
  BY <1>6 DEF q

\* The session with the result that has arrived.
CollectedFrom(m, s, i) ==
    [s EXCEPT !.pending = Append(@, [manager |-> m, worker |-> Name(s),
                                     grunt |-> Head(i).grunt, of |-> Head(i).of]),
              !.result = @ + 1]

\* A result is of the next grunt, and counted for the worker with its place.
LEMMA ResultTaken ==
  ASSUME NEW m \in Managers, NEW s, NEW i, NEW o, NEW d, NEW idle,
         Whole(m, s, i, o, d, idle), i # <<>>,
         s.state \in {"WaitUpdateWorker", "WaitFinalWorker"}
  PROVE  LET u == CollectedFrom(m, s, i) IN
         /\ u \in Session /\ u.state = s.state /\ u.workers = s.workers
         /\ u.setup = s.setup /\ u.stop = s.stop /\ u.active = s.active
         /\ u.active = Len(u.workers) /\ u.result \in Nat /\ u.result <= u.active
         /\ u.result > 0 /\ Len(u.pending) = u.result
         /\ \A k \in 1 .. u.result :
               u.pending[k].grunt = k - 1 /\ u.pending[k].worker = u.workers[k]
         /\ s.state = "WaitFinalWorker" =>
               \A k \in 1 .. u.result : u.pending[k].of = "results"
         /\ Len(Tail(i)) \in Nat /\ Len(Tail(i)) <= u.active - u.result
         /\ \A k \in 1 .. Len(Tail(i)) : Tail(i)[k] = Long(Kind(s.state), u.result + k - 1)
<1> DEFINE r == [manager |-> m, worker |-> Name(s), grunt |-> Head(i).grunt, of |-> Head(i).of]
           p == Append(s.pending, r)
           u == CollectedFrom(m, s, i)
           n == s.result
<1>0. /\ s \in Session /\ i \in Seq(Message) /\ n \in Nat /\ s.active \in Nat
      /\ s.workers \in Seq(Nat) /\ s.pending \in Seq(Result)
  BY DEF Whole, Typed, Session
<1>1. /\ s.active = Len(s.workers) /\ Len(s.pending) = n /\ n <= s.active
      /\ \A k \in 1 .. n : s.pending[k].grunt = k - 1 /\ s.pending[k].worker = s.workers[k]
      /\ s.state = "WaitFinalWorker" => \A k \in 1 .. n : s.pending[k].of = "results"
  BY States DEF Whole, Counted, SettingUp
<1>2. /\ Len(i) <= s.active - n
      /\ \A k \in 1 .. Len(i) : i[k] = Long(Kind(s.state), n + k - 1)
  BY RestDomain DEF Whole, OneAnswer
<1>3. /\ Len(i) \in Nat \ {0} /\ Head(i) = i[1] /\ Len(Tail(i)) = Len(i) - 1
      /\ \A k \in 1 .. Len(Tail(i)) : Tail(i)[k] = i[k + 1]
  BY <1>0, HeadTailProperties, EmptySeq
<1>4. Head(i).grunt = n /\ Head(i).of = Kind(s.state)
  <2>1. Head(i) = Long(Kind(s.state), n)
    BY <1>0, <1>2, <1>3
  <2> QED  BY <2>1 DEF Long
<1>5. n < s.active /\ Name(s) = s.workers[n + 1] /\ s.workers[n + 1] \in Nat
  <2>1. n < s.active
    BY <1>0, <1>2, <1>3
  <2>2. n + 1 \in 1 .. Len(s.workers)
    BY <2>1, <1>0, <1>1
  <2> QED  BY <2>1, <2>2, <1>0, <1>1, ElementOfSeq DEF Name
<1>6. /\ Kind(s.state) \in {"update", "results"}
      /\ s.state = "WaitFinalWorker" => Kind(s.state) = "results"
  BY DEF Kind, Updating
<1>7. r \in Result /\ r.grunt = n /\ r.worker = s.workers[n + 1] /\ r.of = Kind(s.state)
  BY <1>0, <1>4, <1>5, <1>6 DEF Result
<1> HIDE DEF r
<1>8. /\ p \in Seq(Result) /\ Len(p) = n + 1
      /\ \A k \in 1 .. n : p[k] = s.pending[k]
      /\ p[n + 1] = r
  BY <1>0, <1>1, <1>7, AppendProperties
<1> HIDE DEF p, n
<1>9. /\ u \in Session /\ u.state = s.state /\ u.workers = s.workers /\ u.setup = s.setup
      /\ u.stop = s.stop /\ u.active = s.active /\ u.result = n + 1 /\ u.pending = p
  <2>1. u = [s EXCEPT !.pending = p, !.result = s.result + 1]
    BY <1>0 DEF CollectedFrom, p, r, Session
  <2>2. s.result = n /\ n + 1 \in Nat
    BY <1>0 DEF n
  <2> HIDE DEF u
  <2>3. u = [s EXCEPT !.pending = p, !.result = n + 1]
    BY <2>1, <2>2
  <2>4. ASSUME NEW k \in Nat, NEW q \in Seq(Result), u = [s EXCEPT !.pending = q, !.result = k]
        PROVE  /\ u \in Session /\ u.state = s.state /\ u.workers = s.workers
               /\ u.setup = s.setup /\ u.stop = s.stop /\ u.active = s.active
               /\ u.result = k /\ u.pending = q
    BY <1>0, <2>4 DEF Session
  <2>5. p \in Seq(Result)
    BY <1>8
  <2> QED  BY <2>2, <2>3, <2>4, <2>5, Zenon
<1>10. \A k \in 1 .. n + 1 : /\ p[k].grunt = k - 1 /\ p[k].worker = s.workers[k]
                             /\ s.state = "WaitFinalWorker" => p[k].of = "results"
  <2> TAKE k \in 1 .. n + 1
  <2>1. k \in 1 .. n \/ k = n + 1
    BY <1>0
  <2>2. CASE k \in 1 .. n
    BY <2>2, <1>1, <1>8
  <2>3. CASE k = n + 1
    <3>1. k - 1 = n
      BY <2>3, <1>0
    <3> QED  BY <2>3, <3>1, <1>6, <1>7, <1>8
  <2> QED  BY <2>1, <2>2, <2>3
<1>11. /\ Len(Tail(i)) \in Nat /\ Len(Tail(i)) <= s.active - (n + 1)
       /\ \A k \in 1 .. Len(Tail(i)) : Tail(i)[k] = Long(Kind(s.state), (n + 1) + k - 1)
  <2>1. Len(Tail(i)) \in Nat /\ Len(Tail(i)) <= s.active - (n + 1)
    BY <1>0, <1>2, <1>3
  <2>2. ASSUME NEW k \in 1 .. Len(Tail(i))
        PROVE  Tail(i)[k] = Long(Kind(s.state), (n + 1) + k - 1)
    <3>1. k + 1 \in 1 .. Len(i) /\ n + (k + 1) - 1 = (n + 1) + k - 1
      BY <1>0, <1>3
    <3> QED  BY <3>1, <1>2, <1>3
  <2> QED  BY <2>1, <2>2
<1> HIDE DEF u
<1>12. n + 1 \in Nat /\ n + 1 <= s.active /\ n + 1 > 0
  BY <1>0, <1>5
<1> QED
  BY <1>1, <1>8, <1>9, <1>10, <1>11, <1>12 DEF u

\* A result that is not the last one.
LEMMA ResultCounted ==
  ASSUME NEW m \in Managers, NEW s, NEW i, NEW o, NEW d, NEW idle,
         Whole(m, s, i, o, d, idle), i # <<>>,
         s.state \in {"WaitUpdateWorker", "WaitFinalWorker"}
  PROVE  Whole(m, CollectedFrom(m, s, i), Tail(i), o, d, idle)
<1> DEFINE u == CollectedFrom(m, s, i)
<1>1. /\ u \in Session /\ u.state = s.state /\ u.workers = s.workers
      /\ u.active = Len(u.workers) /\ u.result \in Nat /\ u.result <= u.active
      /\ u.result > 0 /\ Len(u.pending) = u.result
      /\ \A k \in 1 .. u.result :
            u.pending[k].grunt = k - 1 /\ u.pending[k].worker = u.workers[k]
      /\ s.state = "WaitFinalWorker" => \A k \in 1 .. u.result : u.pending[k].of = "results"
      /\ Len(Tail(i)) \in Nat /\ Len(Tail(i)) <= u.active - u.result
      /\ \A k \in 1 .. Len(Tail(i)) : Tail(i)[k] = Long(Kind(s.state), u.result + k - 1)
  BY ResultTaken
<1> HIDE DEF u
<1>2. OneAnswer(u, Tail(i))
  BY <1>1 DEF OneAnswer
<1>3. NothingYet(u, d, idle)
  BY <1>1, States DEF Whole, NothingYet
<1>4. Counted(u)
  BY <1>1, States DEF Counted, Setup
<1>5. GruntsKnown(m, u, <<>>, d)
  BY <1>1, States DEF Whole, GruntsKnown, SettingUp, Told
<1>6. Whole(m, u, Tail(i), o, d, idle)
  BY <1>1, <1>2, <1>3, <1>4, <1>5, Moved
<1> QED
  BY <1>6 DEF u

\* The last result: the test runs on, or the session is ready for the next.
LEMMA ResultsDone ==
  ASSUME NEW m \in Managers, NEW s, NEW i, NEW o, NEW d, NEW idle, NEW t \in Session,
         Whole(m, s, i, o, d, idle), i # <<>>,
         \/ s.state = "WaitUpdateWorker" /\ t.state = "Running"
         \/ s.state = "WaitFinalWorker" /\ t.state = "Ready",
         CollectedFrom(m, s, i).result >= s.active,
         t.workers = s.workers, t.active = s.active,
         t.result = CollectedFrom(m, s, i).result, t.pending = CollectedFrom(m, s, i).pending
  PROVE  Whole(m, t, Tail(i), o, d, idle) /\ Tail(i) = <<>>
<1> DEFINE u == CollectedFrom(m, s, i)
<1>1. /\ u \in Session /\ u.state = s.state /\ u.workers = s.workers /\ u.active = s.active
      /\ u.active = Len(u.workers) /\ u.result \in Nat /\ u.result <= u.active
      /\ u.result > 0 /\ Len(u.pending) = u.result
      /\ \A k \in 1 .. u.result :
            u.pending[k].grunt = k - 1 /\ u.pending[k].worker = u.workers[k]
      /\ s.state = "WaitFinalWorker" => \A k \in 1 .. u.result : u.pending[k].of = "results"
      /\ Len(Tail(i)) \in Nat /\ Len(Tail(i)) <= u.active - u.result
  BY ResultTaken
<1>2. u.result >= u.active /\ t.result = u.result /\ t.pending = u.pending
  BY <1>1
<1> HIDE DEF u
<1>3. u.active \in Nat
  BY <1>1 DEF Session
<1>4. Tail(i) = <<>>
  <2>1. Tail(i) \in Seq(Message)
    BY HeadTailProperties, EmptySeq DEF Whole, Typed
  <2>2. \A a, b, c \in Nat : a <= b - c /\ b <= c => a = 0
    OBVIOUS
  <2>3. Len(Tail(i)) \in Nat /\ Len(Tail(i)) <= u.active - u.result /\ u.result \in Nat
        /\ u.active <= u.result
    BY <1>1, <1>2, <1>3
  <2>4. Len(Tail(i)) = 0
    BY <1>3, <2>2, <2>3, Zenon
  <2> QED  BY <2>1, <2>4, EmptySeq
<1>5. OneAnswer(t, Tail(i))
  BY <1>4 DEF OneAnswer
<1>6. NothingYet(t, d, idle)
  BY States DEF Whole, NothingYet
<1>7. Counted(t)
  BY <1>1, <1>2, <1>3, States DEF Counted, Setup
<1>8. ModeOf(t.state, <<>>) = ModeOf(s.state, <<>>)
  BY Nothing DEF ModeOf, Updating, UnderWay
<1>9. GruntsKnown(m, t, <<>>, d)
  BY States DEF Whole, GruntsKnown, SettingUp, Told
<1>10. Whole(m, t, Tail(i), o, d, idle)
  BY <1>5, <1>6, <1>7, <1>8, <1>9, Moved
<1> QED
  BY <1>4, <1>10

\* The workers a session starts with are ids, however many the pool has.
LEMMA WorkersTyped ==
  ASSUME NEW m \in Managers, Types
  PROVE  DefaultWorkers(m) \in Seq(Nat) /\ WorkersOf(m) \in Seq(Nat)
<1>1. Processors[m] \in Nat \ {0}
  BY EngineAssumption DEF EngineAssumption
<1>2. \A k \in 1 .. Processors[m] : k - 1 \in Nat
  BY <1>1
<1>3. DefaultWorkers(m) \in Seq(Nat)
  BY <1>1, <1>2 DEF DefaultWorkers
<1>4. WorkersOf(m) \in Seq(Nat)
  BY Nothing DEF WorkersOf, Types
<1> QED
  BY <1>3, <1>4

\* Places in the pool are counted.
LEMMA Interval ==
  \A n \in Nat : IsFiniteSet(1 .. n) /\ Cardinality(1 .. n) = n
  BY FS_Interval

\* A session's part of the pool is the first of the workers it has there.
LEMMA FirstWorkers ==
  ASSUME NEW q \in Seq(Nat), NEW own \in SUBSET DOMAIN q
  PROVE  SubSeq(q, 1, Cardinality(own)) \in Seq(Nat)
<1>1. DOMAIN q = 1 .. Len(q) /\ Len(q) \in Nat
  BY LenProperties
<1>2. IsFiniteSet(1 .. Len(q)) /\ Cardinality(1 .. Len(q)) = Len(q)
  BY <1>1, Interval, Zenon
<1>3. IsFiniteSet(own) /\ Cardinality(own) <= Len(q) /\ Cardinality(own) \in Nat
  BY <1>1, <1>2, FS_Subset, FS_CardinalityType
<1>4. \A k \in 1 .. Cardinality(own) : q[k] \in Nat
  BY <1>1, <1>3, ElementOfSeq
<1> QED
  BY <1>3, <1>4, SubSeqProperties

\* SessionStartTest: the first test of a session.
LEMMA StartsTest ==
  ASSUME NEW m \in Managers, NEW s, NEW i, NEW o, NEW d, NEW list,
         Types, Whole(m, s, i, o, d, TRUE)
  PROVE  LET did == SessionStartTest(m, s, list) IN
         /\ Whole(m, did.session, i, IF d.up THEN o \o did.out ELSE o, d, FALSE)
         /\ did.session.state \notin Showing
         /\ did.session.state = "Disconnected" => did.session = s
<1> DEFINE did == SessionStartTest(m, s, list)
<1>1. CASE s.state # "Ready"
  <2>1. did.session = s /\ did.out = <<>>
    BY <1>1 DEF SessionStartTest, Do
  <2>2. o \o <<>> = o
    BY ConcatEmptySeq DEF Whole, Typed
  <2>3. Whole(m, s, i, o, d, FALSE)
    BY Begun
  <2>4. s.state # "Running"
    BY <1>1, States DEF Whole, NothingYet
  <2> HIDE DEF did
  <2> QED  BY <1>1, <2>1, <2>2, <2>3, <2>4 DEF did, Showing
<1>2. CASE s.state = "Ready"
  <2> DEFINE own == {k \in DOMAIN WorkersOf(m) : <<m, k>> \in list}
             mine == IF list = {} THEN s.workers ELSE SubSeq(WorkersOf(m), 1, Cardinality(own))
             used == IF mine = <<>> THEN DefaultWorkers(m) ELSE mine
             u == [s EXCEPT !.stop = FALSE, !.pending = <<>>, !.workers = used]
  <2>1. did = BeginSetupWorker(u, 0)
    BY <1>2 DEF SessionStartTest
  <2>2. s \in Session /\ o \in Seq(Command)
    BY DEF Whole, Typed
  <2>3. used \in Seq(Nat)
    <3>1. WorkersOf(m) \in Seq(Nat) /\ DefaultWorkers(m) \in Seq(Nat) /\ s.workers \in Seq(Nat)
      BY <2>2, WorkersTyped DEF Session
    <3>2. own \in SUBSET DOMAIN WorkersOf(m)
      OBVIOUS
    <3> HIDE DEF own
    <3>3. mine \in Seq(Nat)
      BY <3>1, <3>2, FirstWorkers
    <3> QED  BY <3>1, <3>3
  <2> HIDE DEF used
  <2>4. i = <<>> /\ Quiet(o)
    BY <1>2, <2>2, Unexpected, UnexpectedQuiet DEF Whole
  <2>5. s.result = 0 /\ d.ready = {}
    BY <1>2 DEF Whole, NothingYet
  <2>6. u \in Session /\ u.result = 0 /\ u.pending = <<>> /\ u.workers \in Seq(Nat)
    BY <2>2, <2>3, <2>5, Nothing DEF Session
  <2> HIDE DEF u, did
  <2>7. 0 <= Len(u.workers) /\ 0 .. 0 - 1 = {} /\ 0 \in Nat
    BY <2>6, LenProperties
  <2>8. d.ready = IF m \in Disks /\ d.workers > 0 THEN 0 .. 0 - 1 ELSE {}
    BY <2>5, <2>7
  <2>9. /\ Whole(m, did.session, <<>>, IF d.up THEN o \o did.out ELSE o, d, FALSE)
        /\ did.session.state \in Setup
    BY <1>2, <2>1, <2>4, <2>6, <2>7, <2>8, SetsUp, Zenon
  <2> QED  BY <1>2, <2>4, <2>9 DEF did, Setup, Showing
<1> QED
  BY <1>1, <1>2

-------------------------------------------------------------------------------
(* The Dynamo's side: it serves the first of o. *)

\* What a process reports: its grunts with targets, in their order.
LEMMA Reported ==
  ASSUME NEW d \in Process, NEW n \in Nat, d.ready = 0 .. n - 1,
         \A g \in d.ready : g < d.workers, NEW of \in Subject
  PROVE  LET r == Report(d, of) IN
         /\ r \in Seq(Message) /\ Len(r) = n + 1
         /\ r[1] = Long("manager results", 0)
         /\ \A j \in 2 .. n + 1 : r[j] = Long(of, j - 2)
<1> DEFINE grunts == {g \in 0 .. d.workers - 1 : g \in d.ready}
           nth(j) == CHOOSE g \in grunts : Cardinality({h \in grunts : h < g}) = j - 1
           a == <<Long("manager results", 0)>>
           b == [j \in 1 .. n |-> Long(of, nth(j))]
           r == Report(d, of)
<1>1. grunts = 0 .. n - 1
  BY DEF Process
<1>2. ASSUME NEW g \in grunts PROVE Cardinality({h \in grunts : h < g}) = g
  <2>1. g \in Nat /\ {h \in grunts : h < g} = 0 .. g - 1
    BY <1>1
  <2>2. \A k \in Nat : Cardinality(0 .. k - 1) = k
    BY FS_Interval
  <2> QED  BY <2>1, <2>2, Zenon
<1>3. Cardinality(grunts) = n
  <2>1. \A k \in Nat : Cardinality(0 .. k - 1) = k
    BY FS_Interval
  <2> QED  BY <1>1, <2>1, Zenon
<1>4. ASSUME NEW j \in 1 .. n PROVE nth(j) = j - 1
  <2>1. j - 1 \in grunts
    BY <1>1
  <2>2. \A g \in grunts : Cardinality({h \in grunts : h < g}) = j - 1 <=> g = j - 1
    BY <1>2
  <2> HIDE DEF grunts
  <2> QED  BY <2>1, <2>2
<1>5. r = a \o b
  BY <1>3 DEF Report
<1> HIDE DEF nth, grunts, r
<1>6. a \in Seq(Message) /\ Len(a) = 1 /\ a[1] = Long("manager results", 0)
  <2>1. Long("manager results", 0) \in Message
    BY OneMessage DEF Subject
  <2>2. \A x : Len(<<x>>) = 1 /\ <<x>>[1] = x
    OBVIOUS
  <2> QED  BY <2>1, <2>2, Messages, Zenon
<1>7. b \in Seq(Message) /\ Len(b) = n /\ \A j \in 1 .. n : b[j] = Long(of, j - 1)
  <2>1. \A j \in 1 .. n : Long(of, j - 1) \in Message
    BY DEF Long, Message
  <2>2. b = [j \in 1 .. n |-> Long(of, j - 1)]
    BY <1>4
  <2> HIDE DEF b
  <2> QED  BY <2>1, <2>2
<1> HIDE DEF a, b
<1>8. /\ r \in Seq(Message) /\ Len(r) = Len(a) + Len(b)
      /\ \A j \in 1 .. Len(a) + Len(b) : r[j] = IF j <= Len(a) THEN a[j] ELSE b[j - Len(a)]
  <2>1. a \in Seq(Message) /\ b \in Seq(Message)
    BY <1>6, <1>7
  <2>2. /\ a \o b \in Seq(Message) /\ Len(a \o b) = Len(a) + Len(b)
        /\ \A j \in 1 .. Len(a) + Len(b) :
              (a \o b)[j] = IF j <= Len(a) THEN a[j] ELSE b[j - Len(a)]
    BY <2>1, ConcatProperties, Zenon
  <2> QED  BY <1>5, <2>2, Zenon
<1>9. /\ Len(r) = 1 + n
      /\ \A j \in 1 .. 1 + n : r[j] = IF j <= 1 THEN a[j] ELSE b[j - 1]
  BY <1>6, <1>7, <1>8, Zenon
<1>10. ASSUME NEW j \in 2 .. n + 1 PROVE r[j] = Long(of, j - 2)
  <2>1. j \in 1 .. 1 + n /\ ~(j <= 1) /\ j - 1 \in 1 .. n /\ (j - 1) - 1 = j - 2
    OBVIOUS
  <2>2. r[j] = b[j - 1]
    BY <2>1, <1>9
  <2> QED  BY <2>1, <2>2, <1>7
<1>11. Len(r) = n + 1 /\ r[1] = a[1]
  <2>1. 1 \in 1 .. 1 + n /\ 1 <= 1 /\ 1 + n = n + 1
    OBVIOUS
  <2> QED  BY <2>1, <1>9
<1> QED
  BY <1>6, <1>8, <1>10, <1>11 DEF r

\* The command it serves next.
LEMMA First ==
  ASSUME NEW o \in Seq(Command), o # <<>>
  PROVE  /\ Head(o) \in Command /\ Tail(o) \in Seq(Command) /\ Head(o) = o[1]
         /\ Len(o) \in Nat \ {0} /\ Len(Tail(o)) = Len(o) - 1
         /\ \A k \in 1 .. Len(Tail(o)) : Tail(o)[k] = o[k + 1]
  BY HeadTailProperties, EmptySeq

\* What stays on its way is as it was.
LEMMA TailFits ==
  ASSUME NEW s, NEW i, NEW o \in Seq(Command), o # <<>>, OneCommand(s, i, o)
  PROVE  /\ OneCommand(s, i, Tail(o))
         /\ \A p : UnderWay(o, p) <=> UnderWay(Tail(o), p) \/ p = Head(o).purpose
<1> DEFINE t == Tail(o)
<1>1. /\ Head(o) = o[1] /\ Len(o) \in Nat \ {0} /\ Len(t) = Len(o) - 1
      /\ \A k \in 1 .. Len(t) : t[k] = o[k + 1]
  BY First
<1> HIDE DEF t
<1>2. \A k \in 1 .. Len(t) : k + 1 \in 1 .. Len(o)
  BY <1>1
<1>3. ASSUME NEW k \in 1 .. Len(t), NEW l \in 1 .. Len(t)
      PROVE  (l + 1 = k + 1 => l = k) /\ (k + 1 < l + 1 => k < l)
  BY <1>1
<1>4. OneCommand(s, i, t)
  <2>1. ASSUME NEW k \in 1 .. Len(t), t[k].purpose \notin Silent
        PROVE  /\ i = <<>> /\ s.state = Answering[t[k].purpose]
               /\ t[k].purpose \in {"SET_ACCESS", "SET_TARGETS"} => t[k].n = s.setup
               /\ \A l \in 1 .. Len(t) : t[l].purpose \notin Silent => l = k
    <3>1. k + 1 \in 1 .. Len(o) /\ o[k + 1].purpose \notin Silent /\ t[k] = o[k + 1]
      BY <2>1, <1>1, <1>2
    <3> QED  BY <3>1, <1>1, <1>2, <1>3 DEF OneCommand
  <2>2. ASSUME NEW k \in 1 .. Len(t), t[k].purpose = "RECORD_ON"
        PROVE  /\ i = <<>> /\ s.state \in Updating \cup {"Running", "WaitRecordOff"}
               /\ s.state = "WaitRecordOff" => UnderWay(t, "RECORD_OFF")
               /\ \A l \in 1 .. Len(t) : t[l].purpose = "RECORD_ON" => l = k
               /\ \A l \in 1 .. Len(t) : t[l].purpose \notin Silent => k < l
    <3>1. k + 1 \in 1 .. Len(o) /\ o[k + 1].purpose = "RECORD_ON"
      BY <2>2, <1>1, <1>2
    <3>2. s.state = "WaitRecordOff" => UnderWay(t, "RECORD_OFF")
      <4>1. ASSUME NEW l \in 1 .. Len(o), o[l].purpose = "RECORD_OFF"
            PROVE  UnderWay(t, "RECORD_OFF")
        <5>1. k + 1 < l
          BY <3>1, <4>1 DEF OneCommand, Silent
        <5>2. l - 1 \in 1 .. Len(t) /\ (l - 1) + 1 = l
          BY <1>1, <5>1
        <5> QED  BY <1>1, <4>1, <5>2 DEF UnderWay
      <4> QED  BY <3>1, <4>1 DEF OneCommand, UnderWay
    <3>3. /\ i = <<>> /\ s.state \in Updating \cup {"Running", "WaitRecordOff"}
          /\ \A l \in 1 .. Len(o) : o[l].purpose = "RECORD_ON" => l = k + 1
          /\ \A l \in 1 .. Len(o) : o[l].purpose \notin Silent => k + 1 < l
      BY <3>1 DEF OneCommand
    <3>4. ASSUME NEW l \in 1 .. Len(t) PROVE l + 1 \in 1 .. Len(o) /\ t[l] = o[l + 1]
      BY <1>1, <1>2
    <3>5. ASSUME NEW l \in 1 .. Len(t), t[l].purpose = "RECORD_ON" PROVE l = k
      <4>1. l + 1 = k + 1
        BY <3>3, <3>4, <3>5
      <4> QED  BY <4>1, <1>3
    <3>6. ASSUME NEW l \in 1 .. Len(t), t[l].purpose \notin Silent PROVE k < l
      <4>1. k + 1 < l + 1
        BY <3>3, <3>4, <3>6
      <4> QED  BY <4>1, <1>3
    <3> QED  BY <3>2, <3>3, <3>5, <3>6
  <2> QED  BY <2>1, <2>2 DEF OneCommand
<1>5. \A p : UnderWay(o, p) <=> UnderWay(t, p) \/ p = Head(o).purpose
  <2> TAKE p
  <2>1. UnderWay(t, p) => UnderWay(o, p)
    BY <1>1, <1>2 DEF UnderWay
  <2>2. p = Head(o).purpose => UnderWay(o, p)
    BY <1>1 DEF UnderWay
  <2>3. ASSUME UnderWay(o, p), p # Head(o).purpose PROVE UnderWay(t, p)
    <3>1. PICK k \in 1 .. Len(o) : o[k].purpose = p
      BY <2>3 DEF UnderWay
    <3>2. k - 1 \in 1 .. Len(t) /\ (k - 1) + 1 = k
      BY <3>1, <2>3, <1>1
    <3> QED  BY <3>1, <3>2, <1>1 DEF UnderWay
  <2> QED  BY <2>1, <2>2, <2>3
<1> QED
  BY <1>4, <1>5 DEF t

\* A command that is answered is the only one.
LEMMA FirstAsked ==
  ASSUME NEW s, NEW i, NEW o \in Seq(Command), o # <<>>, OneCommand(s, i, o),
         Head(o).purpose \notin Silent
  PROVE  /\ Quiet(Tail(o)) /\ i = <<>> /\ s.state = Answering[Head(o).purpose]
         /\ Head(o).purpose \in {"SET_ACCESS", "SET_TARGETS"} => Head(o).n = s.setup
         /\ \A p : p # "EXIT" => (UnderWay(o, p) <=> p = Head(o).purpose)
<1>1. /\ Head(o) = o[1] /\ Len(o) \in Nat \ {0} /\ Len(Tail(o)) = Len(o) - 1
      /\ \A k \in 1 .. Len(Tail(o)) : Tail(o)[k] = o[k + 1]
  BY First
<1>2. 1 \in 1 .. Len(o)
  BY <1>1
<1>3. /\ i = <<>> /\ s.state = Answering[Head(o).purpose]
      /\ Head(o).purpose \in {"SET_ACCESS", "SET_TARGETS"} => Head(o).n = s.setup
      /\ \A l \in 1 .. Len(o) : o[l].purpose \notin Silent => l = 1
  BY <1>1, <1>2 DEF OneCommand
<1>4. \A l \in 1 .. Len(o) : o[l].purpose = "RECORD_ON" => l < 1
  BY <1>1, <1>2 DEF OneCommand
<1>5. \A l \in 1 .. Len(o) : l = 1 \/ o[l].purpose = "EXIT"
  BY <1>3, <1>4 DEF Silent
<1>6. Quiet(Tail(o))
  BY <1>1, <1>5 DEF Quiet
<1>7. \A p : p # "EXIT" => (UnderWay(o, p) <=> p = Head(o).purpose)
  BY <1>6, TailFits, QuietFits
<1> QED
  BY <1>3, <1>6, <1>7

\* The answer to the command that was under way.
LEMMA Replied ==
  ASSUME NEW m, NEW s, NEW i, NEW o, NEW d, NEW idle, NEW e \in Process, NEW r \in Seq(Message),
         Whole(m, s, i, o, d, idle), o # <<>>, Head(o).purpose \notin Silent,
         OneAnswer(s, r), e.up, e.mode = ModeOf(s.state, <<>>),
         GruntsKnown(m, s, <<>>, e), NothingYet(s, e, idle)
  PROVE  Whole(m, s, i \o r, Tail(o), e, idle)
<1>1. s \in Session /\ o \in Seq(Command) /\ OneCommand(s, i, o)
  BY DEF Whole, Typed
<1>2. Quiet(Tail(o)) /\ i = <<>>
  BY <1>1, FirstAsked
<1>3. i \o r = r
  BY <1>2, ConcatEmptySeq
<1>4. OneCommand(s, r, Tail(o))
  BY <1>2, QuietFits
<1>5. ModeKnown(s, Tail(o), e) /\ GruntsKnown(m, s, Tail(o), e)
  BY <1>2, QuietMode DEF ModeKnown, GruntsKnown
<1>6. Typed(s, r, Tail(o), e) /\ DownMeansGone(Tail(o), e)
  BY <1>1, First DEF Typed, DownMeansGone
<1>7. Whole(m, s, r, Tail(o), e, idle)
  BY <1>4, <1>5, <1>6 DEF Whole
<1> QED
  BY <1>3, <1>7

\* What the session of a command that is served waits for.
LEMMA Asked1 ==
  ASSUME NEW m, NEW s, NEW i, NEW o, NEW d, NEW idle,
         Whole(m, s, i, o, d, idle), o # <<>>, d.up, Head(o).purpose \notin Silent
  PROVE  /\ s.state = Answering[Head(o).purpose] /\ Head(o).purpose \in DOMAIN Answering
         /\ Head(o).purpose \in {"SET_ACCESS", "SET_TARGETS"} => Head(o).n = s.setup
         /\ d.mode = ModeOf(s.state, <<Head(o)>>) /\ GruntsKnown(m, s, <<Head(o)>>, d)
         /\ s \in Session /\ d \in Process /\ Head(o).n \in Nat
<1> DEFINE c == Head(o)
<1>1. s \in Session /\ o \in Seq(Command) /\ d \in Process /\ OneCommand(s, i, o)
  BY DEF Whole, Typed
<1>2. /\ s.state = Answering[c.purpose]
      /\ c.purpose \in {"SET_ACCESS", "SET_TARGETS"} => c.n = s.setup
      /\ \A p : p # "EXIT" => (UnderWay(o, p) <=> p = c.purpose)
  BY <1>1, FirstAsked
<1>3. c \in Command
  BY <1>1, First
<1> HIDE DEF c
<1>4. \A p : p # "EXIT" => (UnderWay(<<c>>, p) <=> p = c.purpose)
  BY DEF UnderWay
<1>5. ModeOf(s.state, o) = ModeOf(s.state, <<c>>) /\ Told(s, o) = Told(s, <<c>>)
  BY <1>2, <1>4 DEF ModeOf, Told
<1>6. d.mode = ModeOf(s.state, <<c>>) /\ GruntsKnown(m, s, <<c>>, d)
  BY <1>5 DEF Whole, ModeKnown, GruntsKnown
<1>7. c.purpose \in DOMAIN Answering /\ c.n \in Nat
  BY <1>3 DEF Command, c
<1> QED
  BY <1>1, <1>2, <1>6, <1>7 DEF c

\* What is under way of one command.
LEMMA Only ==
  \A c : \A p : UnderWay(<<c>>, p) <=> p = c.purpose
  BY DEF UnderWay

\* A command to the grunts that is answered with its own purpose.
LEMMA ServesMode ==
  ASSUME NEW m, NEW s, NEW i, NEW o, NEW d, NEW idle,
         Whole(m, s, i, o, d, idle), o # <<>>, d.up,
         Head(o).purpose \in {"START", "BEGIN_IO", "RECORD_OFF", "STOP"}
  PROVE  Whole(m, s, i \o Replies(d, Head(o)), Tail(o), Served(m, d, Head(o)), idle)
<1> DEFINE c == Head(o)
           r == Replies(d, c)
           e == Served(m, d, c)
<1>0. c.purpose \notin Silent
  BY DEF Silent
<1>1. /\ s.state = Answering[c.purpose] /\ c.purpose \in DOMAIN Answering
      /\ d.mode = ModeOf(s.state, <<c>>) /\ GruntsKnown(m, s, <<c>>, d)
      /\ s \in Session /\ d \in Process
  BY <1>0, Asked1
<1>2. r = <<Short(c.purpose)>> /\ r = Rest[s.state]
  <2>1. r = <<Short(c.purpose)>>
    BY DEF Replies
  <2>2. /\ Rest["WaitStartReply"] = <<Short("START")>>
        /\ Rest["WaitBeginIoReply"] = <<Short("BEGIN_IO")>>
        /\ Rest["WaitRecordOff"] = <<Short("RECORD_OFF")>>
        /\ Rest["WaitStop"] = <<Short("STOP")>>
    BY DEF Rest
  <2> HIDE DEF r
  <2> QED  BY <2>1, <2>2, <1>1, Answers
<1>3. e = [d EXCEPT !.mode = Modes[c.purpose]] /\ Modes[c.purpose] \in {"started", "io", "idle"}
  BY DEF Served, Modes
<1>4. Modes[c.purpose] = ModeOf(s.state, <<>>)
  <2>1. /\ Modes["START"] = "started" /\ Modes["BEGIN_IO"] = "io"
        /\ Modes["RECORD_OFF"] = "io" /\ Modes["STOP"] = "idle"
    BY DEF Modes
  <2> QED  BY <2>1, <1>1, Answers, Nothing DEF ModeOf, UnderWay, Updating
<1>5. /\ e \in Process /\ e.up /\ e.mode = ModeOf(s.state, <<>>)
      /\ e.ready = d.ready /\ e.workers = d.workers
  BY <1>1, <1>3, <1>4 DEF Process
<1> HIDE DEF c, r, e
<1>6. r \in Seq(Message) /\ OneAnswer(s, r)
  <2>1. s.state \in DOMAIN Rest
    BY <1>1, Answers, RestDomain DEF c
  <2> QED  BY <2>1, <1>2, RestHead DEF OneAnswer
<1>7. GruntsKnown(m, s, <<>>, e)
  BY <1>1, <1>5, Answers, States DEF GruntsKnown, Told, SettingUp, c
<1>8. NothingYet(s, e, idle)
  BY <1>5 DEF Whole, NothingYet
<1>9. Whole(m, s, i \o r, Tail(o), e, idle)
  BY <1>0, <1>5, <1>6, <1>7, <1>8, Replied DEF c
<1> QED
  BY <1>9 DEF c, r, e

\* A command that sets up the grunts or their targets.
LEMMA ServesSetup ==
  ASSUME NEW m, NEW s, NEW i, NEW o, NEW d, NEW idle,
         Whole(m, s, i, o, d, idle), o # <<>>, d.up,
         Head(o).purpose \in {"REPORT_TARGETS", "ADD_WORKERS", "SET_ACCESS", "SET_TARGETS"},
         ~(Head(o).purpose \in {"SET_ACCESS", "SET_TARGETS"} /\ Head(o).n >= d.workers)
  PROVE  Whole(m, s, i \o Replies(d, Head(o)), Tail(o), Served(m, d, Head(o)), idle)
<1> DEFINE c == Head(o)
           r == Replies(d, c)
           e == Served(m, d, c)
<1>0. c.purpose \notin Silent
  BY DEF Silent
<1>1. /\ s.state = Answering[c.purpose]
      /\ c.purpose \in {"SET_ACCESS", "SET_TARGETS"} => c.n = s.setup
      /\ d.mode = ModeOf(s.state, <<c>>) /\ GruntsKnown(m, s, <<c>>, d)
      /\ s \in Session /\ d \in Process /\ c.n \in Nat
  BY <1>0, Asked1
<1>2. r = Rest[s.state]
  <2>1. /\ c.purpose = "REPORT_TARGETS" => r = <<Long("disks", 0), Long("TCP", 0), Long("VI", 0)>>
        /\ c.purpose = "ADD_WORKERS" => r = <<Short("ADD_WORKERS")>>
        /\ c.purpose = "SET_ACCESS" => r = <<Short("SET_ACCESS")>>
        /\ c.purpose = "SET_TARGETS" => r = <<Short("SET_TARGETS"), Long("targets", 0)>>
    BY DEF Replies
  <2>2. /\ Rest["WaitTargetsDisk"] = <<Long("disks", 0), Long("TCP", 0), Long("VI", 0)>>
        /\ Rest["WaitAddWorkers"] = <<Short("ADD_WORKERS")>>
        /\ Rest["SetupAccess"] = <<Short("SET_ACCESS")>>
        /\ Rest["SetupTargetsReply"] = <<Short("SET_TARGETS"), Long("targets", 0)>>
    BY DEF Rest
  <2> HIDE DEF r
  <2> QED  BY <2>1, <2>2, <1>1, Answers
<1>3. r \in Seq(Message) /\ OneAnswer(s, r)
  <2>1. s.state \in DOMAIN Rest
    BY <1>1, Answers, RestDomain
  <2> HIDE DEF r
  <2> QED  BY <2>1, <1>2, RestHead DEF OneAnswer
<1>4. ModeOf(s.state, <<c>>) = "idle" /\ ModeOf(s.state, <<>>) = "idle"
  BY <1>1, Answers DEF ModeOf, Updating
<1> HIDE DEF r
<1>5. CASE c.purpose \in {"REPORT_TARGETS", "SET_ACCESS"}
  <2>1. e = d
    BY <1>5 DEF Served, Modes
  <2>2. GruntsKnown(m, s, <<>>, d)
    BY <1>1, <1>5, Answers, States DEF GruntsKnown, Told, SettingUp
  <2>3. Whole(m, s, i \o r, Tail(o), d, idle)
    BY <1>0, <1>1, <1>3, <1>4, <2>2, Replied DEF Whole
  <2> QED  BY <2>1, <2>3 DEF r
<1>6. CASE c.purpose = "ADD_WORKERS"
  <2>1. e = [d EXCEPT !.workers = @ + c.n]
    BY <1>6 DEF Served, Modes
  <2>2. /\ e \in Process /\ e.up /\ e.mode = d.mode /\ e.ready = d.ready
        /\ s.state = "WaitAddWorkers"
    BY <1>1, <1>6, <2>1, Answers DEF Process
  <2>3. d.ready = {}
    BY <2>2, States DEF Whole, NothingYet
  <2> HIDE DEF e
  <2>4. NothingYet(s, e, idle)
    BY <2>2 DEF Whole, NothingYet
  <2>5. GruntsKnown(m, s, <<>>, e)
    BY <2>2, <2>3, States DEF GruntsKnown, SettingUp
  <2>6. Whole(m, s, i \o r, Tail(o), e, idle)
    BY <1>0, <1>1, <1>3, <1>4, <2>2, <2>4, <2>5, Replied
  <2> QED  BY <2>6 DEF r, e
<1>7. CASE c.purpose = "SET_TARGETS"
  <2>1. e = [d EXCEPT !.ready = IF m \in Disks THEN @ \cup {c.n} ELSE @ \ {c.n}]
    BY <1>7 DEF Served, Modes
  <2>2. s.state = "SetupTargetsReply" /\ c.n = s.setup /\ s.setup \in Nat /\ c.n < d.workers
    BY <1>1, <1>7, Answers DEF Session, Process
  <2>3. d.ready = IF m \in Disks THEN 0 .. s.setup - 1 ELSE {}
    BY <1>1, <1>7, <2>2, States, Only DEF GruntsKnown, Told, Process
  <2>4. /\ e \in Process /\ e.up /\ e.mode = d.mode /\ e.workers = d.workers
        /\ e.ready = IF m \in Disks THEN d.ready \cup {c.n} ELSE d.ready \ {c.n}
    BY <1>1, <2>1 DEF Process
  <2> HIDE DEF e
  <2>5. e.ready = IF m \in Disks THEN 0 .. (s.setup + 1) - 1 ELSE {}
    <3>1. CASE m \in Disks
      <4>1. e.ready = 0 .. s.setup - 1 \cup {s.setup}
        BY <3>1, <2>2, <2>3, <2>4
      <4>2. \A n \in Nat : 0 .. n - 1 \cup {n} = 0 .. (n + 1) - 1
        OBVIOUS
      <4> QED  BY <3>1, <4>1, <4>2, <2>2
    <3>2. CASE m \notin Disks
      BY <3>2, <2>3, <2>4
    <3> QED  BY <3>1, <3>2
  <2>6. NothingYet(s, e, idle)
    BY <2>2, States DEF Whole, NothingYet
  <2>7. Told(s, <<>>) = s.setup + 1
    BY <2>2, Nothing DEF Told, UnderWay
  <2>8. GruntsKnown(m, s, <<>>, e)
    <3>1. e.workers > 0 /\ \A g \in e.ready : g < e.workers
      BY <1>1, <2>2, <2>4, <2>5 DEF Process
    <3>2. s.setup < Len(s.workers)
      BY <1>1, <2>2 DEF GruntsKnown, SettingUp
    <3> QED  BY <2>5, <2>7, <3>1, <3>2 DEF GruntsKnown
  <2>9. Whole(m, s, i \o r, Tail(o), e, idle)
    BY <1>0, <1>1, <1>3, <1>4, <2>4, <2>6, <2>8, Replied
  <2> QED  BY <2>9 DEF r, e
<1> QED
  BY <1>5, <1>6, <1>7

\* A command to report: the results of the grunts that have targets, all of
\* them of workers the session waits for.
LEMMA ServesReport ==
  ASSUME NEW m, NEW s, NEW i, NEW o, NEW d, NEW idle,
         Whole(m, s, i, o, d, idle), o # <<>>, d.up,
         Head(o).purpose \in {"REPORT_UPDATE", "REPORT_RESULTS"}
  PROVE  Whole(m, s, i \o Replies(d, Head(o)), Tail(o), Served(m, d, Head(o)), idle)
<1> DEFINE c == Head(o)
           r == Replies(d, c)
           n == IF m \in Disks /\ d.workers > 0 THEN Len(s.workers) ELSE 0
<1>0. c.purpose \notin Silent
  BY DEF Silent
<1>1. /\ s.state = Answering[c.purpose]
      /\ d.mode = ModeOf(s.state, <<c>>) /\ GruntsKnown(m, s, <<c>>, d)
      /\ s \in Session /\ d \in Process
  BY <1>0, Asked1
<1>2. /\ s.state \in {"WaitUpdateMgr", "WaitFinalMgr"}
      /\ r = Report(d, Kind(s.state))
      /\ Served(m, d, c) = d
  <2>1. /\ c.purpose = "REPORT_UPDATE" => r = Report(d, "update")
        /\ c.purpose = "REPORT_RESULTS" => r = Report(d, "results")
    BY DEF Replies
  <2>2. Served(m, d, c) = d
    BY DEF Served, Modes
  <2> HIDE DEF r
  <2> QED  BY <2>1, <2>2, <1>1, Answers DEF Kind, Updating
<1>3. /\ n \in Nat /\ d.ready = 0 .. n - 1
      /\ \A g \in d.ready : g < d.workers
      /\ n <= s.active /\ s.active \in Nat
  <2>1. Len(s.workers) \in Nat /\ s.active = Len(s.workers)
    BY <1>1, <1>2, LenProperties, States DEF Whole, Counted, SettingUp, Session
  <2>2. d.ready = IF m \in Disks /\ d.workers > 0 THEN 0 .. Len(s.workers) - 1 ELSE {}
    BY <1>1, <1>2, States DEF GruntsKnown, Told
  <2> QED  BY <2>1, <2>2, <1>1 DEF GruntsKnown
<1>4. Kind(s.state) \in Subject
  BY DEF Kind, Subject
<1> HIDE DEF n, r, c
<1>5. /\ r \in Seq(Message) /\ Len(r) = n + 1 /\ r[1] = Long("manager results", 0)
      /\ \A j \in 2 .. n + 1 : r[j] = Long(Kind(s.state), j - 2)
  BY <1>1, <1>2, <1>3, <1>4, Reported
<1>6. OneAnswer(s, r)
  <2>1. Len(r) <= s.active + 1
    <3>1. n + 1 <= s.active + 1
      BY <1>3
    <3> QED  BY <3>1, <1>5, Zenon
  <2>2. \A j \in 2 .. Len(r) : r[j] = Long(Kind(s.state), j - 2)
    BY <1>5
  <2> QED  BY <1>2, <1>5, <2>1, <2>2 DEF OneAnswer
<1>7. d.mode = ModeOf(s.state, <<>>)
  BY <1>1, <1>2, Only, Nothing DEF ModeOf, UnderWay, Updating, c
<1>8. GruntsKnown(m, s, <<>>, d)
  BY <1>1, <1>2, States DEF GruntsKnown, Told, SettingUp
<1>9. Whole(m, s, i \o r, Tail(o), d, idle)
  BY <1>0, <1>1, <1>5, <1>6, <1>7, <1>8, Replied DEF Whole, c
<1> QED
  BY <1>2, <1>9 DEF r, c

\* RECORD_ON, or EXIT: nothing is answered.
LEMMA ServesSilent ==
  ASSUME NEW m, NEW s, NEW i, NEW o, NEW d, NEW idle,
         Whole(m, s, i, o, d, idle), o # <<>>, d.up, Head(o).purpose \in Silent
  PROVE  Whole(m, s, i \o Replies(d, Head(o)), Tail(o), Served(m, d, Head(o)), idle)
<1> DEFINE c == Head(o)
           e == Served(m, d, c)
           q == Tail(o)
<1>0. s \in Session /\ i \in Seq(Message) /\ o \in Seq(Command) /\ d \in Process
  BY DEF Whole, Typed
<1>1. i \o Replies(d, c) = i
  <2>1. Replies(d, c) = <<>>
    BY DEF Replies, Silent
  <2> QED  BY <2>1, <1>0, ConcatEmptySeq, Zenon
<1>2. /\ q \in Seq(Command) /\ OneCommand(s, i, q)
      /\ \A p : UnderWay(o, p) <=> UnderWay(q, p) \/ p = c.purpose
  BY <1>0, First, TailFits DEF Whole
<1> HIDE DEF q
<1>3. CASE c.purpose = "RECORD_ON"
  <2>1. e = [d EXCEPT !.mode = "recording"]
    BY <1>3 DEF Served, Modes
  <2>2. /\ e \in Process /\ e.up /\ e.mode = "recording" /\ e.ready = d.ready
        /\ e.workers = d.workers
    BY <1>0, <2>1 DEF Process
  <2> HIDE DEF e
  <2>3. s.state \in Updating \cup {"Running", "WaitRecordOff"} /\ ~UnderWay(q, "RECORD_ON")
    <3>1. /\ o[1].purpose = "RECORD_ON" /\ Len(o) \in Nat \ {0} /\ Len(q) = Len(o) - 1
          /\ \A k \in 1 .. Len(q) : q[k] = o[k + 1] /\ k + 1 \in 1 .. Len(o) /\ k + 1 # 1
          /\ 1 \in 1 .. Len(o)
      <4>1. /\ o[1].purpose = "RECORD_ON" /\ Len(o) \in Nat \ {0} /\ Len(q) = Len(o) - 1
            /\ \A k \in 1 .. Len(q) : q[k] = o[k + 1]
        BY <1>0, <1>3, First DEF q
      <4> QED  BY <4>1
    <3> QED  BY <3>1 DEF Whole, OneCommand, UnderWay
  <2>4. s.state = "WaitRecordOff" => UnderWay(o, "RECORD_OFF")
    <3>1. o[1].purpose = "RECORD_ON" /\ 1 \in 1 .. Len(o)
      BY <1>0, <1>3, First
    <3> QED  BY <3>1 DEF Whole, OneCommand
  <2>5. ModeKnown(s, q, e)
    BY <1>2, <1>3, <2>2, <2>3, <2>4 DEF ModeKnown, ModeOf, Updating
  <2>6. GruntsKnown(m, s, q, e)
    BY <1>2, <1>3, <2>2 DEF Whole, GruntsKnown, Told
  <2>7. NothingYet(s, e, idle)
    BY <2>2 DEF Whole, NothingYet
  <2>8. Typed(s, i, q, e) /\ DownMeansGone(q, e)
    BY <1>0, <1>2, <2>2 DEF Typed, DownMeansGone
  <2>9. Whole(m, s, i, q, e, idle)
    BY <1>2, <2>5, <2>6, <2>7, <2>8 DEF Whole
  <2> QED  BY <1>1, <2>9 DEF e, q
<1>4. CASE c.purpose = "EXIT"
  <2>1. e = [d EXCEPT !.workers = 0, !.ready = {}]
    BY <1>4 DEF Served, Modes
  <2>2. /\ e \in Process /\ e.up /\ e.mode = d.mode /\ e.ready = {} /\ e.workers = 0
    <3>1. {} \in SUBSET Nat /\ 0 \in Nat
      OBVIOUS
    <3> HIDE DEF e
    <3> QED  BY <1>0, <2>1, <3>1 DEF Process
  <2> HIDE DEF e
  <2>3. \A p : p # "EXIT" => (UnderWay(o, p) <=> UnderWay(q, p))
    BY <1>2, <1>4
  <2>4. ModeOf(s.state, q) = ModeOf(s.state, o)
    BY <2>3 DEF ModeOf
  <2>5. ModeKnown(s, q, e)
    BY <2>2, <2>4 DEF Whole, ModeKnown
  <2>6. GruntsKnown(m, s, q, e)
    BY <2>2 DEF Whole, GruntsKnown
  <2>7. NothingYet(s, e, idle)
    BY <2>2 DEF Whole, NothingYet
  <2>8. Typed(s, i, q, e) /\ DownMeansGone(q, e)
    BY <1>0, <1>2, <2>2 DEF Typed, DownMeansGone
  <2>9. Whole(m, s, i, q, e, idle)
    BY <1>2, <2>5, <2>6, <2>7, <2>8 DEF Whole
  <2> QED  BY <1>1, <2>9 DEF e, q
<1> QED
  BY <1>3, <1>4 DEF Silent

-------------------------------------------------------------------------------
(* The steps: what arrives at the sessions. *)

\* Only the computer m changes, and stays in the list of sessions.
LEMMA OneComputer ==
  ASSUME AllWhole, NEW m \in Managers, m \in Present, sessions' = sessions, Idle' = Idle,
         \A n \in Managers : n # m =>
             /\ session'[n] = session[n] /\ toIometer'[n] = toIometer[n]
             /\ toDynamo'[n] = toDynamo[n] /\ dynamo'[n] = dynamo[n],
         Whole(m, session'[m], toIometer'[m], toDynamo'[m], dynamo'[m], Idle),
         session'[m].state # "Disconnected"
  PROVE  AllWhole'
<1>1. Present' = Present
  BY DEF Present
<1>2. ASSUME NEW n \in Managers
      PROVE  /\ Whole(n, session'[n], toIometer'[n], toDynamo'[n], dynamo'[n], Idle')
             /\ n \notin Present => /\ session'[n] = NoSession /\ toIometer'[n] = <<>>
                                    /\ ~dynamo'[n].up
             /\ n \in Present => session'[n].state # "Disconnected"
  <2>1. CASE n = m
    BY <2>1
  <2>2. CASE n # m
    BY <2>2 DEF AllWhole
  <2> QED  BY <2>1, <2>2
<1> QED
  BY <1>1, <1>2 DEF AllWhole

\* A session that is in any state but Disconnected is in the list.
LEMMA Here1 ==
  ASSUME IInv, NEW m \in Managers
  PROVE  /\ session[m].state # "Disconnected" => m \in Present
         /\ Whole(m, session[m], toIometer[m], toDynamo[m], dynamo[m], Idle)
         /\ session[m] \in Session /\ toIometer[m] \in Seq(Message)
         /\ toDynamo[m] \in Seq(Command) /\ dynamo[m] \in Process
         /\ Written(toDynamo[m], m, <<>>) = toDynamo[m]
         /\ Idle \in BOOLEAN
  BY ConcatEmptySeq DEF IInv, Types, AllWhole, NoSession, Written, Idle

\* A handler of one session leaves all that is said of the others as it is.
LEMMA Handled ==
  ASSUME IInv, NEW m \in Managers, NEW from, NEW bytes, NEW t, NEW out,
         Arrived(m, from, bytes), from # "Disconnected", Takes(m, t, out),
         Whole(m, t, Tail(toIometer[m]), Written(toDynamo[m], m, out), dynamo[m], Idle),
         t.state # "Disconnected", Idle' = Idle
  PROVE  /\ AllWhole'
         /\ session' \in [Managers -> Session] /\ dynamo' \in [Managers -> Process]
         /\ toDynamo' \in [Managers -> Seq(Command)]
         /\ toIometer' \in [Managers -> Seq(Message)]
         /\ sessions' = sessions /\ Present' = Present
         /\ session'[m] = t /\ \A n \in Managers : n # m => session'[n] = session[n]
<1> DEFINE i == Tail(toIometer[m])
           o == Written(toDynamo[m], m, out)
<1>1. /\ session' = [session EXCEPT ![m] = t]
      /\ toIometer' = [toIometer EXCEPT ![m] = i]
      /\ toDynamo' = [toDynamo EXCEPT ![m] = o]
      /\ sessions' = sessions /\ dynamo' = dynamo
  BY DEF Takes
<1>2. Typed(t, i, o, dynamo[m])
  BY DEF Whole
<1>3. /\ session \in [Managers -> Session] /\ dynamo \in [Managers -> Process]
      /\ toDynamo \in [Managers -> Seq(Command)] /\ toIometer \in [Managers -> Seq(Message)]
  BY DEF IInv, Types
<1> HIDE DEF i, o
<1>4. /\ session' \in [Managers -> Session] /\ dynamo' \in [Managers -> Process]
      /\ toDynamo' \in [Managers -> Seq(Command)]
      /\ toIometer' \in [Managers -> Seq(Message)]
      /\ session'[m] = t /\ toIometer'[m] = i /\ toDynamo'[m] = o /\ dynamo'[m] = dynamo[m]
      /\ \A n \in Managers : n # m =>
             /\ session'[n] = session[n] /\ toIometer'[n] = toIometer[n]
             /\ toDynamo'[n] = toDynamo[n] /\ dynamo'[n] = dynamo[n]
  BY <1>1, <1>2, <1>3 DEF Typed
<1>5. m \in Present
  BY Here1 DEF Arrived
<1>6. Whole(m, t, i, o, dynamo[m], Idle)
  BY DEF i, o
<1>7. AllWhole'
  BY <1>1, <1>4, <1>5, <1>6, OneComputer DEF IInv
<1>8. Present' = Present
  BY <1>1 DEF Present
<1> QED
  BY <1>1, <1>4, <1>7, <1>8

\* No results, no sessions: nothing is in an empty list.
LEMMA NoResults ==
  ToSet(<<>>) = {}
  BY DEF ToSet

\* Nothing new is to be shown, and what is shown stays.
LEMMA StillShown ==
  ASSUME IInv, NEW m \in Managers, engine' = engine, file' = file, Present' = Present,
         \A n \in Managers : n # m => session'[n] = session[n],
         session'[m].state \in Showing =>
             session'[m].pending = <<>>
             \/ (session[m].state \in Showing /\ session'[m].pending = session[m].pending)
  PROVE  FinalsShown'
<1>1. ASSUME NEW n \in Present, session'[n].state \in Showing
      PROVE  ToSet(session'[n].pending) \subseteq engine.current
  <2>1. n \in Managers
    BY DEF IInv, Types, Present, ToSet
  <2>2. CASE n # m
    BY <1>1, <2>1, <2>2 DEF IInv, FinalsShown, Showing
  <2>3. CASE n = m
    BY <1>1, <2>3, NoResults DEF IInv, FinalsShown, Showing
  <2> QED  BY <2>2, <2>3
<1>2. engine'.running /\ file'.open => engine'.current \subseteq file'.rows
  BY DEF IInv, FinalsShown
<1> QED
  BY <1>1, <1>2 DEF FinalsShown, Showing

\* All that was collected is shown, and has its row.
LEMMA NowShown ==
  ASSUME Types, Present' = Present, ShowResults
  PROVE  FinalsShown'
<1> DEFINE cur == Merged(session')
<1>1. /\ engine' = [engine EXCEPT !.current = cur]
      /\ file' = IF file.open THEN [file EXCEPT !.rows = file.rows \cup cur] ELSE file
  BY DEF ShowResults, Rows
<1>2. \A n \in Present : ToSet(session'[n].pending) \subseteq cur
  BY DEF Merged
<1> HIDE DEF cur
<1>3. engine'.current = cur /\ (file'.open => cur \subseteq file'.rows)
  BY <1>1 DEF Types
<1> QED
  BY <1>2, <1>3 DEF FinalsShown

\* Engine and window stay as they are.
LEMMA StillFollows ==
  ASSUME IInv, engine' = engine, window' = window
  PROVE  WindowFollows' /\ Idle' = Idle
  BY DEF IInv, WindowFollows, Idle

\* A handler after which its session has no new results to show and is not gone.
LEMMA TakesOn ==
  ASSUME IInv, NEW m \in Managers, NEW from, NEW bytes, NEW t, NEW out,
         Arrived(m, from, bytes), from # "Disconnected", Takes(m, t, out),
         engine' = engine, file' = file, pool' = pool, t.state # "Disconnected",
         t.state \in Showing => t.pending = <<>>,
         Whole(m, t, Tail(toIometer[m]), Written(toDynamo[m], m, out), dynamo[m], Idle)
  PROVE  IInv'
<1>1. Idle' = Idle /\ WindowFollows'
  BY StillFollows DEF Takes
<1>2. /\ AllWhole'
      /\ session' \in [Managers -> Session] /\ dynamo' \in [Managers -> Process]
      /\ toDynamo' \in [Managers -> Seq(Command)]
      /\ toIometer' \in [Managers -> Seq(Message)]
      /\ sessions' = sessions /\ Present' = Present
      /\ session'[m] = t /\ \A n \in Managers : n # m => session'[n] = session[n]
  BY <1>1, Handled
<1>3. FinalsShown'
  BY <1>2, StillShown
<1>4. Types'
  BY <1>2 DEF IInv, Types
<1> QED
  BY <1>1, <1>2, <1>3, <1>4 DEF IInv

\* A handler that only moves its session on.
LEMMA MovesOn ==
  ASSUME IInv, NEW m \in Managers, NEW from, NEW bytes, NEW to, NEW out,
         Moves(m, from, bytes, to, out), from # "Disconnected", to # "Disconnected",
         to \in Showing => session[m].pending = <<>>,
         Whole(m, At(m, to), Tail(toIometer[m]), Written(toDynamo[m], m, out), dynamo[m], Idle)
  PROVE  IInv'
<1>1. At(m, to).state = to /\ At(m, to).pending = session[m].pending
  BY Here1 DEF At, Session
<1> QED
  BY <1>1, TakesOn DEF Moves, shown

\* ProcessLoginMsg, ProcessLoginData and the first two lists of targets.
LEMMA JoiningSteps ==
  ASSUME IInv, NEW m \in Managers,
         \/ ProcessLoginMsg(m) \/ ProcessLoginData(m)
         \/ Moves(m, "WaitTargetsDisk", "data", "WaitTargetsTcp", <<>>)
         \/ Moves(m, "WaitTargetsTcp", "data", "WaitTargetsVi", <<>>)
  PROVE  IInv'
<1>1. ASSUME NEW from, NEW bytes, NEW to, Moves(m, from, bytes, to, <<>>),
             \/ from = "WaitLoginMsg" /\ to \in {"WaitLoginData", "Error"}
             \/ from = "WaitLoginData" /\ to = "Connecting"
             \/ from = "WaitTargetsDisk" /\ to = "WaitTargetsTcp"
             \/ from = "WaitTargetsTcp" /\ to = "WaitTargetsVi"
      PROVE  IInv'
  <2>1. session[m].state = from /\ toIometer[m] # <<>>
    BY <1>1 DEF Moves, Arrived
  <2>2. Whole(m, At(m, to), Tail(toIometer[m]), toDynamo[m], dynamo[m], Idle)
    BY <1>1, <2>1, Here1, JoinsOn DEF At
  <2> QED  BY <1>1, <2>2, Here1, MovesOn DEF Showing
<1>2. CASE ProcessLoginMsg(m)
  <2> DEFINE to == IF dynamo[m].old THEN "Error" ELSE "WaitLoginData"
  <2>1. to \in {"WaitLoginData", "Error"}
    OBVIOUS
  <2>2. Moves(m, "WaitLoginMsg", "msg", to, <<>>)
    BY <1>2 DEF ProcessLoginMsg
  <2> HIDE DEF to
  <2> QED  BY <1>1, <2>1, <2>2
<1>3. CASE ProcessLoginData(m)
  BY <1>1, <1>3 DEF ProcessLoginData
<1> QED
  BY <1>1, <1>2, <1>3

\* ProcessSetTargetsReply, ProcessUpdateMgr and ProcessFinalMgr.
LEMMA GoingOnSteps ==
  ASSUME IInv, NEW m \in Managers,
         ProcessSetTargetsReply(m) \/ ProcessUpdateMgr(m) \/ ProcessFinalMgr(m)
  PROVE  IInv'
<1>1. ASSUME NEW from, NEW bytes, NEW to, Moves(m, from, bytes, to, <<>>),
             \/ from = "SetupTargetsReply" /\ to = "SetupTargetsData"
             \/ from = "WaitUpdateMgr" /\ to = "WaitUpdateWorker"
             \/ from = "WaitFinalMgr" /\ to = "WaitFinalWorker"
      PROVE  IInv'
  <2>1. session[m].state = from /\ toIometer[m] # <<>>
    BY <1>1 DEF Moves, Arrived
  <2>2. Whole(m, At(m, to), Tail(toIometer[m]), toDynamo[m], dynamo[m], Idle)
    BY <1>1, <2>1, Here1, GoesOn DEF At
  <2> QED  BY <1>1, <2>2, Here1, MovesOn DEF Showing
<1> QED
  BY <1>1 DEF ProcessSetTargetsReply, ProcessUpdateMgr, ProcessFinalMgr

\* ProcessSetAccessReply, ProcessStartReply and ProcessRecordOffReply.
LEMMA AskingSteps ==
  ASSUME IInv, NEW m \in Managers,
         ProcessSetAccessReply(m) \/ ProcessStartReply(m) \/ ProcessRecordOffReply(m)
  PROVE  IInv'
<1>1. ASSUME NEW from, NEW bytes, NEW to, NEW p, NEW n \in Nat,
             Moves(m, from, bytes, to, <<Cmd(p, n)>>),
             \/ from = "SetupAccess" /\ to = "SetupTargetsReply"
                   /\ p = "SET_TARGETS" /\ n = session[m].setup
             \/ from = "WaitStartReply" /\ to = "WaitBeginIoReply" /\ p = "BEGIN_IO"
             \/ from = "WaitRecordOff" /\ to = "WaitStop" /\ p = "STOP"
      PROVE  IInv'
  <2>1. session[m].state = from /\ toIometer[m] # <<>>
    BY <1>1 DEF Moves, Arrived
  <2>2. Whole(m, At(m, to), Tail(toIometer[m]), Put(toDynamo[m], dynamo[m], Cmd(p, n)),
              dynamo[m], Idle)
    BY <1>1, <2>1, Here1, AsksAfterReply DEF At
  <2>3. Put(toDynamo[m], dynamo[m], Cmd(p, n)) = Written(toDynamo[m], m, <<Cmd(p, n)>>)
    BY DEF Put, Written
  <2> QED  BY <1>1, <2>2, <2>3, MovesOn DEF Showing
<1>2. session[m].setup \in Nat /\ 0 \in Nat
  BY Here1 DEF Session
<1> QED
  BY <1>1, <1>2 DEF ProcessSetAccessReply, ProcessStartReply, ProcessRecordOffReply

\* ProcessBeginIoReply.
LEMMA BeginIoStep ==
  ASSUME IInv, NEW m \in Managers, ProcessBeginIoReply(m)
  PROVE  IInv'
<1> DEFINE c == Cmd("RECORD_ON", 0)
<1>1. Moves(m, "WaitBeginIoReply", "msg", "Running", <<c>>)
  BY DEF ProcessBeginIoReply
<1> HIDE DEF c
<1>2. session[m].state = "WaitBeginIoReply" /\ toIometer[m] # <<>>
  BY <1>1 DEF Moves, Arrived
<1>3. Whole(m, At(m, "Running"), Tail(toIometer[m]), Put(toDynamo[m], dynamo[m], c),
            dynamo[m], Idle)
  BY <1>2, Here1, IoBegun DEF At, c
<1>4. Put(toDynamo[m], dynamo[m], c) = Written(toDynamo[m], m, <<c>>)
  BY DEF Put, Written
<1>5. session[m].pending = <<>>
  BY <1>2, Here1, EmptySeq DEF Whole, Counted, Setup, Session
<1> QED
  BY <1>1, <1>3, <1>4, <1>5, MovesOn

\* ProcessTargetList.
LEMMA TargetListStep ==
  ASSUME IInv, NEW m \in Managers, ProcessTargetList(m)
  PROVE  IInv'
<1>1. CASE Arrived(m, "WaitTargetsVi", "data")
  <2> DEFINE t == [At(m, "WaitAddWorkers") EXCEPT !.workers = DefaultWorkers(m)]
             c == Cmd("ADD_WORKERS", Processors[m])
  <2>1. Takes(m, t, <<c>>) /\ engine' = engine /\ file' = file /\ pool' = pool
    BY <1>1 DEF ProcessTargetList, Moves, Arrived, shown
  <2>2. Whole(m, t, Tail(toIometer[m]), Put(toDynamo[m], dynamo[m], c), dynamo[m], Idle)
    BY <1>1, Here1, TargetsKnown DEF At, Arrived
  <2>3. t.state = "WaitAddWorkers"
    BY Here1 DEF At, Session
  <2>4. Put(toDynamo[m], dynamo[m], c) = Written(toDynamo[m], m, <<c>>)
    BY DEF Put, Written
  <2> HIDE DEF t, c
  <2> QED  BY <1>1, <2>1, <2>2, <2>3, <2>4, TakesOn DEF Showing
<1>2. CASE ~Arrived(m, "WaitTargetsVi", "data")
  BY <1>2, JoiningSteps DEF ProcessTargetList
<1> QED
  BY <1>1, <1>2

\* ProcessSetTargetsData.
LEMMA SetTargetsDataStep ==
  ASSUME IInv, NEW m \in Managers, ProcessSetTargetsData(m)
  PROVE  IInv'
<1> DEFINE did == BeginSetupWorker(session[m], session[m].setup + 1)
<1>1. /\ Arrived(m, "SetupTargetsData", "data") /\ Takes(m, did.session, did.out)
      /\ engine' = engine /\ file' = file /\ pool' = pool
  BY DEF ProcessSetTargetsData, shown
<1>2. /\ Whole(m, did.session, Tail(toIometer[m]),
               IF dynamo[m].up THEN toDynamo[m] \o did.out ELSE toDynamo[m], dynamo[m], Idle)
      /\ did.session.state \in Setup
  BY <1>1, Here1, TargetsSet DEF Arrived
<1> HIDE DEF did
<1>3. Whole(m, did.session, Tail(toIometer[m]), Written(toDynamo[m], m, did.out),
            dynamo[m], Idle)
  BY <1>2 DEF Written
<1>4. did.session.state # "Disconnected" /\ did.session.state \notin Showing
  BY <1>2 DEF Setup, Showing
<1> QED
  BY <1>1, <1>3, <1>4, TakesOn

\* ProcessStopReply.
LEMMA StopReplyStep ==
  ASSUME IInv, NEW m \in Managers, ProcessStopReply(m)
  PROVE  IInv'
<1> DEFINE t == [At(m, "WaitFinalMgr") EXCEPT !.result = 0, !.pending = <<>>]
           c == Cmd("REPORT_RESULTS", 0)
<1>1. /\ Arrived(m, "WaitStop", "msg") /\ Takes(m, t, <<c>>)
      /\ engine' = engine /\ file' = file /\ pool' = pool
  BY DEF ProcessStopReply, shown
<1>2. Whole(m, t, Tail(toIometer[m]), Put(toDynamo[m], dynamo[m], c), dynamo[m], Idle)
  BY <1>1, Here1, TestStopped DEF At, Arrived
<1>3. t.state = "WaitFinalMgr"
  BY Here1 DEF At, Session
<1>4. Put(toDynamo[m], dynamo[m], c) = Written(toDynamo[m], m, <<c>>)
  BY DEF Put, Written
<1> HIDE DEF t, c
<1> QED
  BY <1>1, <1>2, <1>3, <1>4, TakesOn DEF Showing

\* ProcessAddWorkersReply: the engine's pool is built anew.
LEMMA RebuiltTyped ==
  ASSUME NEW order \in Seq(Managers), NEW ss \in [Managers -> Session]
  PROVE  /\ DOMAIN Rebuilt(order, ss) \subseteq Managers
         /\ \A m \in DOMAIN Rebuilt(order, ss) : Rebuilt(order, ss)[m] \in Seq(Nat)
<1>1. \A m \in ToSet(order) : m \in Managers
  BY DEF ToSet
<1>2. \A m \in Managers : ss[m].workers \in Seq(Nat)
  BY DEF Session
<1> QED
  BY <1>1, <1>2 DEF Rebuilt

\* ProcessAddWorkersReply: the session is ready and the pool is rebuilt.
LEMMA AddWorkersReplyStep ==
  ASSUME IInv, NEW m \in Managers, ProcessAddWorkersReply(m)
  PROVE  IInv'
<1> DEFINE t == At(m, "Ready")
<1>1. /\ Arrived(m, "WaitAddWorkers", "msg") /\ Takes(m, t, <<>>)
      /\ engine' = engine /\ file' = file /\ pool' = Rebuilt(sessions, session')
  BY DEF ProcessAddWorkersReply, shown
<1>2. Whole(m, t, Tail(toIometer[m]), toDynamo[m], dynamo[m], Idle)
  BY <1>1, Here1, Joined DEF At, Arrived
<1>3. t.state = "Ready" /\ t.pending = <<>>
  <2>1. t.state = "Ready" /\ t.pending = session[m].pending
    BY Here1 DEF At, Session
  <2>2. session[m].pending = <<>>
    BY <1>1, Here1, States DEF Arrived, Whole, NothingYet
  <2> QED  BY <2>1, <2>2
<1> HIDE DEF t
<1>4. /\ Idle' = Idle /\ WindowFollows'
      /\ Written(toDynamo[m], m, <<>>) = toDynamo[m]
  BY <1>1, Here1, StillFollows DEF Takes
<1>5. /\ AllWhole'
      /\ session' \in [Managers -> Session] /\ dynamo' \in [Managers -> Process]
      /\ toDynamo' \in [Managers -> Seq(Command)]
      /\ toIometer' \in [Managers -> Seq(Message)]
      /\ sessions' = sessions /\ Present' = Present
      /\ session'[m] = t /\ \A n \in Managers : n # m => session'[n] = session[n]
  BY <1>1, <1>2, <1>3, <1>4, Handled
<1>6. FinalsShown'
  BY <1>1, <1>3, <1>5, StillShown
<1>7. DOMAIN pool' \subseteq Managers /\ \A n \in DOMAIN pool' : pool'[n] \in Seq(Nat)
  <2>1. sessions \in Seq(Managers)
    BY DEF IInv, Types
  <2> QED  BY <1>1, <1>5, <2>1, RebuiltTyped
<1>8. Types'
  BY <1>1, <1>5, <1>7 DEF IInv, Types
<1> QED
  BY <1>4, <1>5, <1>6, <1>8 DEF IInv

\* A handler after which what was collected is shown.
LEMMA TakesAndShows ==
  ASSUME IInv, NEW m \in Managers, NEW from, NEW bytes, NEW t, NEW out,
         Arrived(m, from, bytes), from \in {"WaitUpdateWorker", "WaitFinalWorker"},
         Takes(m, t, out), ShowResults, pool' = pool, t.state # "Disconnected",
         Whole(m, t, Tail(toIometer[m]), Written(toDynamo[m], m, out), dynamo[m], Idle)
  PROVE  IInv'
<1>1. /\ engine \in [running : BOOLEAN, runner : {"Idle", "Running", "Stopped", "Error"},
                     current : SUBSET Result, saved : SUBSET Result]
      /\ engine.running = (engine.runner = "Running")
      /\ file \in [open : BOOLEAN, rows : SUBSET Result]
  BY DEF IInv, Types
<1>2. /\ engine' = [engine EXCEPT !.current = Merged(session')]
      /\ engine'.running = engine.running /\ engine'.runner = engine.runner
  BY <1>1 DEF ShowResults
<1>3. Idle' = Idle /\ WindowFollows'
  <2>1. ~Idle
    BY Here1, States DEF Arrived, Whole, NothingYet
  <2> QED  BY <2>1, <1>2 DEF Takes, Idle, IInv, WindowFollows
<1>4. /\ AllWhole'
      /\ session' \in [Managers -> Session] /\ dynamo' \in [Managers -> Process]
      /\ toDynamo' \in [Managers -> Seq(Command)]
      /\ toIometer' \in [Managers -> Seq(Message)]
      /\ sessions' = sessions /\ Present' = Present
  BY <1>3, Handled
<1>5. FinalsShown'
  BY <1>4, NowShown DEF IInv
<1>6. Merged(session') \subseteq Result
  <2>1. \A n \in Present : n \in Managers
    BY DEF IInv, Types, Present, ToSet
  <2>2. \A n \in Managers : session'[n].pending \in Seq(Result)
    BY <1>4 DEF Session
  <2>3. \A q \in Seq(Result) : ToSet(q) \subseteq Result
    BY DEF ToSet
  <2> QED  BY <2>1, <2>2, <2>3 DEF Merged
<1>7. /\ engine' \in [running : BOOLEAN, runner : {"Idle", "Running", "Stopped", "Error"},
                      current : SUBSET Result, saved : SUBSET Result]
      /\ engine'.running = (engine'.runner = "Running")
      /\ file' \in [open : BOOLEAN, rows : SUBSET Result]
  <2> DEFINE cur == Merged(session')
  <2>1. /\ engine' = [engine EXCEPT !.current = cur] /\ cur \in SUBSET Result
        /\ file' = IF file.open THEN [file EXCEPT !.rows = file.rows \cup cur] ELSE file
    BY <1>6 DEF ShowResults, Rows
  <2> HIDE DEF cur
  <2> QED  BY <2>1, <1>1
<1>8. Types'
  BY <1>4, <1>7 DEF IInv, Types
<1> QED
  BY <1>3, <1>4, <1>5, <1>8 DEF IInv

\* ProcessUpdateWorker.
LEMMA UpdateWorkerStep ==
  ASSUME IInv, NEW m \in Managers, ProcessUpdateWorker(m)
  PROVE  IInv'
<1> DEFINE s == session[m]
           i == toIometer[m]
           u == CollectedFrom(m, s, i)
           t == [u EXCEPT !.state = "Running"]
           v == [u EXCEPT !.state = "Running", !.stop = FALSE]
           last == u.result >= u.active
<1>1. Collected(m) = u
  BY DEF Collected, CollectedFrom
<1>2. Arrived(m, "WaitUpdateWorker", "data") /\ pool' = pool
  BY DEF ProcessUpdateWorker
<1>3. s.state = "WaitUpdateWorker" /\ i # <<>>
  BY <1>2 DEF Arrived
<1>4. /\ u \in Session /\ u.state = s.state /\ u.workers = s.workers /\ u.active = s.active
      /\ u.stop = s.stop
  BY <1>3, Here1, ResultTaken
<1>5. CASE ~last
  <2>1. Takes(m, u, <<>>) /\ engine' = engine /\ file' = file
    BY <1>1, <1>5 DEF ProcessUpdateWorker, Do, shown
  <2>2. Whole(m, u, Tail(i), toDynamo[m], dynamo[m], Idle)
    BY <1>3, Here1, ResultCounted
  <2> HIDE DEF u, i, s
  <2>3. Whole(m, u, Tail(toIometer[m]), Written(toDynamo[m], m, <<>>), dynamo[m], Idle)
    BY <2>2, Here1 DEF i
  <2> QED  BY <1>2, <1>3, <1>4, <2>1, <2>3, TakesOn DEF Showing
<1>6. CASE last /\ u.stop
  <2> DEFINE did == SessionStopTest(v)
  <2>1. Takes(m, did.session, did.out) /\ engine' = engine /\ file' = file
    BY <1>1, <1>6 DEF ProcessUpdateWorker, shown
  <2>2. /\ v \in Session /\ v.state = "Running" /\ v.workers = s.workers /\ v.active = s.active
        /\ v.result = u.result /\ v.pending = u.pending
    BY <1>4, States DEF Session
  <2> HIDE DEF v
  <2>3. Whole(m, v, Tail(i), toDynamo[m], dynamo[m], Idle) /\ Tail(i) = <<>>
    BY <1>3, <1>4, <1>6, <2>2, Here1, ResultsDone
  <2>4. /\ Whole(m, did.session, Tail(i),
                 IF dynamo[m].up THEN toDynamo[m] \o did.out ELSE toDynamo[m], dynamo[m], Idle)
        /\ did.session.state # "Running"
        /\ did.session.state \in {"Ready", "Disconnected"} => did.session = v
    <3>1. did.session.state = "WaitRecordOff"
      BY <2>2 DEF SessionStopTest, Do, Updating, Session
    <3> QED  BY <2>3, <3>1, StopsTest
  <2> HIDE DEF did, u, i, s
  <2>5. Whole(m, did.session, Tail(toIometer[m]), Written(toDynamo[m], m, did.out),
              dynamo[m], Idle)
    BY <2>4 DEF Written, i
  <2>6. did.session.state # "Disconnected" /\ did.session.state \notin Showing
    BY <2>2, <2>4 DEF Showing
  <2> QED  BY <1>2, <2>1, <2>5, <2>6, TakesOn
<1>7. CASE last /\ ~u.stop
  <2>1. Takes(m, t, <<>>) /\ ShowResults
    BY <1>1, <1>7 DEF ProcessUpdateWorker, Do
  <2>2. /\ t \in Session /\ t.state = "Running" /\ t.workers = s.workers /\ t.active = s.active
        /\ t.result = u.result /\ t.pending = u.pending
    BY <1>4, States DEF Session
  <2> HIDE DEF t
  <2>3. Whole(m, t, Tail(i), toDynamo[m], dynamo[m], Idle)
    BY <1>3, <1>4, <1>7, <2>2, Here1, ResultsDone
  <2> HIDE DEF u, i, s
  <2>4. Whole(m, t, Tail(toIometer[m]), Written(toDynamo[m], m, <<>>), dynamo[m], Idle)
    BY <2>3, Here1 DEF i
  <2> QED  BY <1>2, <2>1, <2>2, <2>4, TakesAndShows
<1> QED
  BY <1>5, <1>6, <1>7

\* ProcessFinalWorker.
LEMMA FinalWorkerStep ==
  ASSUME IInv, NEW m \in Managers, ProcessFinalWorker(m)
  PROVE  IInv'
<1> DEFINE s == session[m]
           i == toIometer[m]
           u == CollectedFrom(m, s, i)
           t == [u EXCEPT !.state = "Ready"]
           last == u.result >= u.active
<1>1. Collected(m) = u
  BY DEF Collected, CollectedFrom
<1>2. Arrived(m, "WaitFinalWorker", "data") /\ pool' = pool
  BY DEF ProcessFinalWorker
<1>3. s.state = "WaitFinalWorker" /\ i # <<>>
  BY <1>2 DEF Arrived
<1>4. /\ u \in Session /\ u.state = s.state /\ u.workers = s.workers /\ u.active = s.active
  BY <1>3, Here1, ResultTaken
<1>5. CASE ~last
  <2>1. Takes(m, u, <<>>) /\ engine' = engine /\ file' = file
    BY <1>1, <1>5 DEF ProcessFinalWorker, shown
  <2>2. Whole(m, u, Tail(i), toDynamo[m], dynamo[m], Idle)
    BY <1>3, Here1, ResultCounted
  <2> HIDE DEF u, i, s
  <2>3. Whole(m, u, Tail(toIometer[m]), Written(toDynamo[m], m, <<>>), dynamo[m], Idle)
    BY <2>2, Here1 DEF i
  <2> QED  BY <1>2, <1>3, <1>4, <2>1, <2>3, TakesOn DEF Showing
<1>6. CASE last
  <2>1. Takes(m, t, <<>>) /\ ShowResults
    BY <1>1, <1>6 DEF ProcessFinalWorker
  <2>2. /\ t \in Session /\ t.state = "Ready" /\ t.workers = s.workers /\ t.active = s.active
        /\ t.result = u.result /\ t.pending = u.pending
    BY <1>4, States DEF Session
  <2> HIDE DEF t
  <2>3. Whole(m, t, Tail(i), toDynamo[m], dynamo[m], Idle)
    BY <1>3, <1>4, <1>6, <2>2, Here1, ResultsDone
  <2> HIDE DEF u, i, s
  <2>4. Whole(m, t, Tail(toIometer[m]), Written(toDynamo[m], m, <<>>), dynamo[m], Idle)
    BY <2>3, Here1 DEF i
  <2> QED  BY <1>2, <2>1, <2>2, <2>4, TakesAndShows
<1> QED
  BY <1>5, <1>6

-------------------------------------------------------------------------------
(* The steps: timers, sockets and the Dynamos. *)

\* Of the computer m the session, the messages and the process may change.
LEMMA OneSession ==
  ASSUME IInv, NEW m \in Managers, m \in Present, NEW t, NEW i, NEW o, NEW d,
         session' = [session EXCEPT ![m] = t], toIometer' = [toIometer EXCEPT ![m] = i],
         toDynamo' = [toDynamo EXCEPT ![m] = o], dynamo' = [dynamo EXCEPT ![m] = d],
         engine' = engine, file' = file, window' = window, pool' = pool,
         sessions' = sessions, Whole(m, t, i, o, d, Idle), t.state # "Disconnected",
         t.state \in Showing => t.pending = <<>> \/ t = session[m]
  PROVE  IInv'
<1>1. Typed(t, i, o, d)
  BY DEF Whole
<1>2. /\ session \in [Managers -> Session] /\ dynamo \in [Managers -> Process]
      /\ toDynamo \in [Managers -> Seq(Command)] /\ toIometer \in [Managers -> Seq(Message)]
  BY DEF IInv, Types
<1>3. /\ session' \in [Managers -> Session] /\ dynamo' \in [Managers -> Process]
      /\ toDynamo' \in [Managers -> Seq(Command)]
      /\ toIometer' \in [Managers -> Seq(Message)]
      /\ session'[m] = t /\ toIometer'[m] = i /\ toDynamo'[m] = o /\ dynamo'[m] = d
      /\ \A n \in Managers : n # m =>
             /\ session'[n] = session[n] /\ toIometer'[n] = toIometer[n]
             /\ toDynamo'[n] = toDynamo[n] /\ dynamo'[n] = dynamo[n]
  BY <1>1, <1>2 DEF Typed
<1>4. Idle' = Idle /\ WindowFollows' /\ Present' = Present
  BY StillFollows DEF Present
<1>5. AllWhole'
  BY <1>3, <1>4, OneComputer DEF IInv
<1>6. FinalsShown'
  BY <1>3, <1>4, StillShown
<1>7. Types'
  BY <1>3 DEF IInv, Types
<1> QED
  BY <1>4, <1>5, <1>6, <1>7 DEF IInv

\* Replacing a value by itself.
LEMMA Same ==
  ASSUME IInv, NEW m \in Managers
  PROVE  /\ session = [session EXCEPT ![m] = session[m]]
         /\ toIometer = [toIometer EXCEPT ![m] = toIometer[m]]
         /\ toDynamo = [toDynamo EXCEPT ![m] = toDynamo[m]]
         /\ dynamo = [dynamo EXCEPT ![m] = dynamo[m]]
  BY DEF IInv, Types

\* onMainConnected: the first command of a session.
LEMMA MainConnectedStep ==
  ASSUME IInv, NEW m \in Managers, OnMainConnected(m)
  PROVE  IInv'
<1> DEFINE t == [session[m] EXCEPT !.state = "WaitTargetsDisk"]
           c == Cmd("REPORT_TARGETS", 0)
           o == Put(toDynamo[m], dynamo[m], c)
<1>1. /\ session[m].state = "Connecting" /\ dynamo[m].up
      /\ session' = [session EXCEPT ![m].state = "WaitTargetsDisk"]
      /\ toDynamo' = [toDynamo EXCEPT ![m] = Append(@, c)]
      /\ UNCHANGED <<engine, file, window, pool, sessions, toIometer, dynamo>>
  BY DEF OnMainConnected, shown
<1>2. session' = [session EXCEPT ![m] = t]
  BY <1>1 DEF IInv, Types
<1>3. toDynamo' = [toDynamo EXCEPT ![m] = o]
  <2>1. toDynamo[m] \in Seq(Command) /\ c \in Command
    BY Here1, Commands
  <2>2. o = toDynamo[m] \o <<c>>
    BY <1>1 DEF Put
  <2> HIDE DEF c, o
  <2>3. Append(toDynamo[m], c) = o
    BY <2>1, <2>2, OneMore
  <2> QED  BY <1>1, <2>3
<1>4. t.state = "WaitTargetsDisk"
  BY Here1 DEF Session
<1>5. Whole(m, t, toIometer[m], o, dynamo[m], Idle)
  BY <1>1, Here1, MainConnected
<1>6. m \in Present /\ t.state # "Disconnected" /\ t.state \notin Showing
  BY <1>1, <1>4, Here1 DEF Showing
<1> HIDE DEF t, o, c
<1>7. /\ toIometer' = [toIometer EXCEPT ![m] = toIometer[m]]
      /\ dynamo' = [dynamo EXCEPT ![m] = dynamo[m]]
      /\ engine' = engine /\ file' = file /\ window' = window
      /\ pool' = pool /\ sessions' = sessions
  BY <1>1, Same
<1> QED
  BY <1>2, <1>3, <1>5, <1>6, <1>7, OneSession, Zenon

\* onUpdateTimer: a session that runs asks for an update.
LEMMA UpdateTimerStep ==
  ASSUME IInv, NEW m \in Managers, OnUpdateTimer(m)
  PROVE  IInv'
<1> DEFINE t == [At(m, "WaitUpdateMgr") EXCEPT !.result = 0, !.pending = <<>>]
           c == Cmd("REPORT_UPDATE", 0)
           o == Put(toDynamo[m], dynamo[m], c)
<1>1. /\ session[m].state = "Running"
      /\ session' = [session EXCEPT ![m] = t]
      /\ toDynamo' = [toDynamo EXCEPT ![m] = o]
      /\ UNCHANGED <<engine, file, window, pool, sessions, toIometer, dynamo>>
  BY DEF OnUpdateTimer, Put, Written, shown
<1>2. /\ t \in Session /\ t.state = "WaitUpdateMgr" /\ t.result = 0 /\ t.pending = <<>>
      /\ t.workers = session[m].workers /\ t.active = session[m].active
  <2>1. session[m] \in Session /\ "WaitUpdateMgr" \in State /\ <<>> \in Seq(Result)
    BY Here1, States, Nothing
  <2>2. t = [session[m] EXCEPT !.state = "WaitUpdateMgr", !.result = 0, !.pending = <<>>]
    BY <2>1 DEF At, Session
  <2> QED  BY <2>1, <2>2 DEF Session
<1> HIDE DEF t
<1>3. toIometer[m] = <<>>
  BY <1>1, Here1, Unexpected DEF Whole
<1>4. Whole(m, t, toIometer[m], o, dynamo[m], Idle)
  BY <1>1, <1>2, <1>3, Here1, AsksWhileRunning
<1>5. m \in Present /\ t.state # "Disconnected" /\ t.state \notin Showing
  BY <1>1, <1>2, Here1 DEF Showing
<1> HIDE DEF c, o
<1>6. /\ toIometer' = [toIometer EXCEPT ![m] = toIometer[m]]
      /\ dynamo' = [dynamo EXCEPT ![m] = dynamo[m]]
      /\ engine' = engine /\ file' = file /\ window' = window
      /\ pool' = pool /\ sessions' = sessions
  BY <1>1, Same
<1> QED
  BY <1>1, <1>4, <1>5, <1>6, OneSession, Zenon

\* Manager::Run.
LEMMA Serves ==
  ASSUME NEW m, NEW s, NEW i, NEW o, NEW d, NEW idle,
         Whole(m, s, i, o, d, idle), o # <<>>, d.up,
         ~(Head(o).purpose \in {"SET_ACCESS", "SET_TARGETS"} /\ Head(o).n >= d.workers)
  PROVE  Whole(m, s, i \o Replies(d, Head(o)), Tail(o), Served(m, d, Head(o)), idle)
<1>1. Head(o) \in Command
  BY First DEF Whole, Typed
<1>2. Head(o).purpose \in DOMAIN Answering \cup Silent
  BY <1>1 DEF Command
<1>3. \/ Head(o).purpose \in {"START", "BEGIN_IO", "RECORD_OFF", "STOP"}
      \/ Head(o).purpose \in {"REPORT_TARGETS", "ADD_WORKERS", "SET_ACCESS", "SET_TARGETS"}
      \/ Head(o).purpose \in {"REPORT_UPDATE", "REPORT_RESULTS"}
      \/ Head(o).purpose \in Silent
  BY <1>2, Commands
<1> QED
  BY <1>3, ServesMode, ServesSetup, ServesReport, ServesSilent

\* Manager::Run takes the first command and answers it.
LEMMA ServeStep ==
  ASSUME IInv, NEW m \in Managers, Serve(m)
  PROVE  IInv'
<1> DEFINE c == Head(toDynamo[m])
           i == toIometer[m] \o Replies(dynamo[m], c)
           o == Tail(toDynamo[m])
           d == Served(m, dynamo[m], c)
<1>1. /\ dynamo[m].up /\ toDynamo[m] # <<>> /\ ~NoGrunt(m)
      /\ dynamo' = [dynamo EXCEPT ![m] = d] /\ toIometer' = [toIometer EXCEPT ![m] = i]
      /\ toDynamo' = [toDynamo EXCEPT ![m] = o]
      /\ UNCHANGED <<engine, file, window, pool, sessions, session>>
  BY DEF Serve, shown
<1>2. ~(c.purpose \in {"SET_ACCESS", "SET_TARGETS"} /\ c.n >= dynamo[m].workers)
  BY <1>1 DEF NoGrunt
<1>3. Whole(m, session[m], i, o, d, Idle)
  BY <1>1, <1>2, Here1, Serves
<1>4. m \in Present /\ session[m].state # "Disconnected"
  BY <1>1 DEF IInv, AllWhole
<1> HIDE DEF c, i, o, d
<1> QED
  BY <1>1, <1>3, <1>4, Same, OneSession

\* The process is gone, with what was on its way to it; what it had sent
\* arrives.
LEMMA Gone ==
  ASSUME NEW m, NEW s, NEW i, NEW o, NEW d, NEW idle, Whole(m, s, i, o, d, idle)
  PROVE  Whole(m, s, i, <<>>, Down, idle)
<1>1. Down \in Process /\ ~Down.up /\ Down.ready = {} /\ Down.workers = 0
  BY DEF Down, Process
<1>2. Typed(s, i, <<>>, Down) /\ DownMeansGone(<<>>, Down)
  BY <1>1, Nothing DEF Whole, Typed, DownMeansGone
<1>3. OneCommand(s, i, <<>>)
  BY Nothing, QuietFits
<1>4. ModeKnown(s, <<>>, Down)
  BY <1>1 DEF ModeKnown
<1>5. GruntsKnown(m, s, <<>>, Down)
  BY <1>1 DEF Whole, GruntsKnown
<1>6. NothingYet(s, Down, idle)
  BY <1>1 DEF Whole, NothingYet
<1> QED
  BY <1>2, <1>3, <1>4, <1>5, <1>6 DEF Whole

\* A Dynamo ends while anything may be on its way.
LEMMA DiesStep ==
  ASSUME IInv, NEW m \in Managers, Dies(m)
  PROVE  IInv'
<1>1. /\ dynamo[m].up /\ dynamo' = [dynamo EXCEPT ![m] = Down]
      /\ toDynamo' = [toDynamo EXCEPT ![m] = <<>>]
      /\ UNCHANGED <<engine, file, window, pool, sessions, session, toIometer>>
  BY DEF Dies, shown
<1>2. m \in Present /\ session[m].state # "Disconnected"
  BY <1>1 DEF IInv, AllWhole
<1>3. Whole(m, session[m], toIometer[m], <<>>, Down, Idle)
  BY Here1, Gone
<1> QED
  BY <1>1, <1>2, <1>3, Same, OneSession

-------------------------------------------------------------------------------
(* The steps: computers that come and go. *)

\* onNewConnection lists a session for a computer that has none.
LEMMA AppendOnce ==
  ASSUME NEW S, NEW s \in Seq(S), NEW e \in S, e \notin ToSet(s), IsInjective(s)
  PROVE  /\ Append(s, e) \in Seq(S) /\ IsInjective(Append(s, e))
         /\ ToSet(Append(s, e)) = ToSet(s) \cup {e}
<1> DEFINE t == Append(s, e)
<1>1. /\ t \in Seq(S) /\ Len(t) = Len(s) + 1 /\ Len(s) \in Nat
      /\ \A i \in 1 .. Len(s) : t[i] = s[i]
      /\ t[Len(s) + 1] = e
  BY AppendProperties, LenProperties
<1>2. DOMAIN t = 1 .. Len(t) /\ DOMAIN s = 1 .. Len(s)
  BY <1>1, LenProperties
<1> HIDE DEF t
<1>3. ToSet(t) = {t[i] : i \in 1 .. Len(t)} /\ ToSet(s) = {s[i] : i \in 1 .. Len(s)}
  BY <1>2 DEF ToSet
<1>4. \A i \in 1 .. Len(s) : s[i] # e
  BY <1>3
<1>5. IsInjective(t)
  <2>1. \A i, j \in 1 .. Len(s) : s[i] = s[j] => i = j
    BY <1>2 DEF IsInjective
  <2>2. ASSUME NEW i \in 1 .. Len(t), NEW j \in 1 .. Len(t), t[i] = t[j] PROVE i = j
    BY <1>1, <1>4, <2>1, <2>2
  <2> QED  BY <1>2, <2>2 DEF IsInjective
<1>6. ToSet(t) = ToSet(s) \cup {e}
  BY <1>1, <1>3
<1> QED
  BY <1>1, <1>5, <1>6 DEF t

\* One is taken out of a list: a worker of the pool's, or a session.
LEMMA OneRemoved ==
  ASSUME NEW S, NEW s \in Seq(S), NEW k \in DOMAIN s
  PROVE  /\ RemoveAt(s, k) \in Seq(S) /\ Len(RemoveAt(s, k)) = Len(s) - 1
         /\ \A i \in 1 .. Len(RemoveAt(s, k)) :
               RemoveAt(s, k)[i] = IF i < k THEN s[i] ELSE s[i + 1]
<1> DEFINE t == RemoveAt(s, k)
           a == SubSeq(s, 1, k - 1)
           b == SubSeq(s, k + 1, Len(s))
<1>1. /\ Len(s) \in Nat /\ DOMAIN s = 1 .. Len(s) /\ k \in 1 .. Len(s)
      /\ \A i \in 1 .. Len(s) : s[i] \in S
  OBVIOUS
<1>3. /\ a \in Seq(S) /\ Len(a) = k - 1
      /\ \A i \in 1 .. k - 1 : a[i] = s[i]
  <2>1. \A i \in 1 .. k - 1 : s[i] \in S
    OBVIOUS
  <2>2. /\ a \in Seq(S) /\ Len(a) = IF 1 <= k - 1 THEN k - 1 - 1 + 1 ELSE 0
        /\ \A i \in 1 .. k - 1 - 1 + 1 : a[i] = s[1 + i - 1]
    BY SubSeqProperties
  <2> HIDE DEF a
  <2> QED  BY <2>2
<1>4. /\ b \in Seq(S) /\ Len(b) = Len(s) - k
      /\ \A i \in 1 .. Len(s) - k : b[i] = s[k + i]
  <2>1. \A i \in k + 1 .. Len(s) : s[i] \in S
    OBVIOUS
  <2>2. /\ b \in Seq(S) /\ Len(b) = IF k + 1 <= Len(s) THEN Len(s) - (k + 1) + 1 ELSE 0
        /\ \A i \in 1 .. Len(s) - (k + 1) + 1 : b[i] = s[k + 1 + i - 1]
    BY SubSeqProperties
  <2> HIDE DEF b
  <2> QED  BY <2>2
<1>5. t = a \o b
  BY DEF RemoveAt
<1> HIDE DEF a, b, t
<1>6. /\ t \in Seq(S) /\ Len(t) = Len(s) - 1
      /\ \A i \in 1 .. Len(t) : t[i] = IF i < k THEN s[i] ELSE s[i + 1]
  <2>1. /\ t \in Seq(S) /\ Len(t) = Len(a) + Len(b)
        /\ \A i \in 1 .. Len(a) + Len(b) :
               t[i] = IF i <= Len(a) THEN a[i] ELSE b[i - Len(a)]
    BY <1>3, <1>4, <1>5, ConcatProperties, Zenon
  <2>2. t \in Seq(S) /\ Len(t) = Len(s) - 1
    BY <2>1, <1>3, <1>4
  <2>3. ASSUME NEW i \in 1 .. Len(t) PROVE t[i] = IF i < k THEN s[i] ELSE s[i + 1]
    <3>1. i \in 1 .. Len(s) - 1 /\ t[i] = IF i <= Len(a) THEN a[i] ELSE b[i - Len(a)]
      BY <2>1, <1>1, <1>3, <1>4
    <3>2. CASE i < k
      BY <3>1, <3>2, <1>1, <1>3
    <3>3. CASE ~(i < k)
      <4>1. i - (k - 1) \in 1 .. Len(s) - k /\ k + (i - (k - 1)) = i + 1 /\ ~(i <= k - 1)
        BY <3>1, <3>3, <1>1
      <4> QED  BY <3>1, <3>3, <1>3, <1>4
    <3> QED  BY <3>2, <3>3
  <2> QED  BY <2>2, <2>3
<1> QED
  BY <1>6 DEF t

\* What is left when one is taken out, as onSessionDisconnected does.
LEMMA RemoveOnce ==
  ASSUME NEW S, NEW s \in Seq(S), NEW k \in DOMAIN s, IsInjective(s)
  PROVE  /\ RemoveAt(s, k) \in Seq(S) /\ IsInjective(RemoveAt(s, k))
         /\ s[k] \in S /\ s[k] \in ToSet(s)
         /\ ToSet(RemoveAt(s, k)) = ToSet(s) \ {s[k]}
<1> DEFINE t == RemoveAt(s, k)
<1>1. /\ Len(s) \in Nat /\ DOMAIN s = 1 .. Len(s) /\ k \in 1 .. Len(s)
      /\ \A i \in 1 .. Len(s) : s[i] \in S
  OBVIOUS
<1>2. \A i, j \in 1 .. Len(s) : s[i] = s[j] => i = j
  BY DEF IsInjective
<1>3. /\ t \in Seq(S) /\ Len(t) = Len(s) - 1
      /\ \A i \in 1 .. Len(t) : t[i] = IF i < k THEN s[i] ELSE s[i + 1]
  BY OneRemoved
<1> HIDE DEF t
<1>4. DOMAIN t = 1 .. Len(t)
  BY <1>3
<1>5. ToSet(t) = {t[i] : i \in 1 .. Len(t)} /\ ToSet(s) = {s[i] : i \in 1 .. Len(s)}
  BY <1>1, <1>4 DEF ToSet
<1>6. IsInjective(t)
  <2>1. ASSUME NEW i \in 1 .. Len(t), NEW j \in 1 .. Len(t), t[i] = t[j] PROVE i = j
    BY <1>2, <1>3, <2>1
  <2> QED  BY <1>4, <2>1 DEF IsInjective
<1>7. ASSUME NEW x PROVE x \in ToSet(t) <=> x \in ToSet(s) /\ x # s[k]
  <2>1. ASSUME x \in ToSet(t) PROVE x \in ToSet(s) /\ x # s[k]
    <3>1. PICK i \in 1 .. Len(t) : x = t[i]
      BY <2>1, <1>5
    <3>2. PICK j \in 1 .. Len(s) : j # k /\ x = s[j]
      BY <3>1, <1>3
    <3> QED  BY <3>2, <1>2, <1>5
  <2>2. ASSUME x \in ToSet(s), x # s[k] PROVE x \in ToSet(t)
    <3>1. PICK j \in 1 .. Len(s) : x = s[j] /\ j # k
      BY <2>2, <1>5
    <3>2. CASE j < k
      <4>1. j \in 1 .. Len(t) /\ x = t[j]
        BY <3>1, <3>2, <1>1, <1>3
      <4> QED  BY <4>1, <1>5
    <3>3. CASE j > k
      <4>1. j - 1 \in 1 .. Len(t) /\ x = t[j - 1]
        BY <3>1, <3>3, <1>1, <1>3
      <4> QED  BY <4>1, <1>5
    <3> QED  BY <3>1, <3>2, <3>3, <1>1
  <2> QED  BY <2>1, <2>2
<1> QED
  BY <1>1, <1>3, <1>5, <1>6, <1>7 DEF t

\* The list without the one of a computer.
LEMMA RemoveFirstOnce ==
  ASSUME NEW S, NEW s \in Seq(S), NEW e \in ToSet(s), IsInjective(s)
  PROVE  /\ RemoveFirst(s, e) \in Seq(S) /\ IsInjective(RemoveFirst(s, e))
         /\ ToSet(RemoveFirst(s, e)) = ToSet(s) \ {e}
<1>1. DOMAIN s = 1 .. Len(s) /\ Len(s) \in Nat
  BY LenProperties
<1>2. PICK k \in 1 .. Len(s) : s[k] = e
  BY <1>1 DEF ToSet
<1>3. {i \in 1 .. Len(s) : s[i] = e} = {k}
  BY <1>1, <1>2 DEF IsInjective
<1>4. Min({k}) = k
  <2>1. \E x \in {k} : \A y \in {k} : x <= y
    OBVIOUS
  <2> QED  BY <2>1 DEF Min
<1>5. SelectInSeq(s, LAMBDA v : v = e) = k
  BY <1>3, <1>4 DEF SelectInSeq
<1>6. RemoveFirst(s, e) = RemoveAt(s, k)
  BY <1>2, <1>5 DEF RemoveFirst
<1> QED
  BY <1>1, <1>2, <1>6, RemoveOnce

\* One computer comes or goes: only what is said of it changes.
LEMMA ComesOrGoes ==
  ASSUME IInv, NEW m \in Managers, NEW t, NEW i, NEW o, NEW d,
         session' = [session EXCEPT ![m] = t], toIometer' = [toIometer EXCEPT ![m] = i],
         toDynamo' = [toDynamo EXCEPT ![m] = o], dynamo' = [dynamo EXCEPT ![m] = d],
         engine' = engine, file' = file, window' = window, Whole(m, t, i, o, d, Idle),
         sessions' \in Seq(Managers), IsInjective(sessions'),
         Present' \ {m} = Present \ {m},
         DOMAIN pool' \subseteq Managers, \A n \in DOMAIN pool' : pool'[n] \in Seq(Nat),
         m \in Present' => t.state # "Disconnected" /\ t.state \notin Showing,
         m \notin Present' => t = NoSession /\ i = <<>> /\ ~d.up
  PROVE  IInv'
<1>1. Typed(t, i, o, d)
  BY DEF Whole
<1>2. /\ session \in [Managers -> Session] /\ dynamo \in [Managers -> Process]
      /\ toDynamo \in [Managers -> Seq(Command)] /\ toIometer \in [Managers -> Seq(Message)]
  BY DEF IInv, Types
<1>3. /\ session' \in [Managers -> Session] /\ dynamo' \in [Managers -> Process]
      /\ toDynamo' \in [Managers -> Seq(Command)]
      /\ toIometer' \in [Managers -> Seq(Message)]
      /\ session'[m] = t /\ toIometer'[m] = i /\ toDynamo'[m] = o /\ dynamo'[m] = d
      /\ \A n \in Managers : n # m =>
             /\ session'[n] = session[n] /\ toIometer'[n] = toIometer[n]
             /\ toDynamo'[n] = toDynamo[n] /\ dynamo'[n] = dynamo[n]
  BY <1>1, <1>2 DEF Typed
<1>4. Idle' = Idle /\ WindowFollows'
  BY StillFollows
<1>5. \A n \in Managers : n # m => (n \in Present' <=> n \in Present)
  OBVIOUS
<1>6. AllWhole'
  <2> SUFFICES ASSUME NEW n \in Managers
               PROVE  /\ Whole(n, session'[n], toIometer'[n], toDynamo'[n], dynamo'[n], Idle')
                      /\ n \notin Present' => /\ session'[n] = NoSession /\ toIometer'[n] = <<>>
                                              /\ ~dynamo'[n].up
                      /\ n \in Present' => session'[n].state # "Disconnected"
    BY DEF AllWhole
  <2>1. CASE n = m
    BY <2>1, <1>3, <1>4
  <2>2. CASE n # m
    BY <2>2, <1>3, <1>4, <1>5 DEF IInv, AllWhole
  <2> QED  BY <2>1, <2>2
<1>7. FinalsShown'
  <2>1. ASSUME NEW n \in Present', session'[n].state \in Showing
        PROVE  ToSet(session'[n].pending) \subseteq engine.current
    <3>1. n \in Managers
      BY DEF Present, ToSet
    <3>2. n # m
      BY <2>1, <1>3
    <3> QED  BY <2>1, <3>1, <3>2, <1>3, <1>5 DEF IInv, FinalsShown, Showing
  <2>2. engine'.running /\ file'.open => engine'.current \subseteq file'.rows
    BY DEF IInv, FinalsShown
  <2> QED  BY <2>1, <2>2 DEF FinalsShown, Showing
<1>8. Types'
  BY <1>3 DEF IInv, Types
<1> QED
  BY <1>4, <1>6, <1>7, <1>8 DEF IInv

\* A Dynamo that has just started, or a computer without one.
LEMMA Fresh ==
  ASSUME NEW m, NEW old \in BOOLEAN, NEW idle
  PROVE  /\ Whole(m, NewSession, <<Short("LOGIN"), Long("manager info", 0)>>, <<>>,
                  [Down EXCEPT !.up = TRUE, !.old = old], idle)
         /\ Whole(m, NoSession, <<>>, <<>>, Down, idle)
         /\ NewSession.state = "WaitLoginMsg" /\ NoSession.state = "Disconnected"
<1> DEFINE d == [Down EXCEPT !.up = TRUE, !.old = old]
           i == <<Short("LOGIN"), Long("manager info", 0)>>
<1>1. /\ NewSession \in Session /\ NewSession.state = "WaitLoginMsg"
      /\ NewSession.result = 0 /\ NewSession.pending = <<>> /\ NewSession.active = 0
      /\ NoSession \in Session /\ NoSession.state = "Disconnected"
      /\ NoSession.result = 0 /\ NoSession.pending = <<>> /\ NoSession.active = 0
  BY States, Nothing DEF NewSession, NoSession, Session
<1>2. /\ d \in Process /\ d.up /\ d.ready = {} /\ d.mode = "idle" /\ d.workers = 0
      /\ Down \in Process /\ ~Down.up /\ Down.ready = {}
  BY DEF Down, Process
<1>3. i = Rest["WaitLoginMsg"] /\ i \in Seq(Message)
  BY RestHead, RestDomain DEF Rest
<1> HIDE DEF i, d
<1>4. Typed(NewSession, i, <<>>, d) /\ Typed(NoSession, <<>>, <<>>, Down)
  BY <1>1, <1>2, <1>3, Nothing DEF Typed
<1>5. DownMeansGone(<<>>, d) /\ DownMeansGone(<<>>, Down)
  BY <1>2 DEF DownMeansGone
<1>6. OneCommand(NewSession, i, <<>>) /\ OneCommand(NoSession, <<>>, <<>>)
  BY Nothing, QuietFits
<1>7. OneAnswer(NewSession, i) /\ OneAnswer(NoSession, <<>>)
  BY <1>1, <1>3, RestDomain DEF OneAnswer
<1>8. ModeKnown(NewSession, <<>>, d) /\ ModeKnown(NoSession, <<>>, Down)
  BY <1>1, <1>2 DEF ModeKnown, ModeOf, Updating
<1>9. GruntsKnown(m, NewSession, <<>>, d) /\ GruntsKnown(m, NoSession, <<>>, Down)
  BY <1>1, <1>2, States DEF GruntsKnown, SettingUp
<1>10. NothingYet(NewSession, d, idle) /\ NothingYet(NoSession, Down, idle)
  BY <1>1, <1>2, States DEF NothingYet
<1>11. Counted(NewSession) /\ Counted(NoSession)
  BY <1>1, States, Nothing DEF Counted, SettingUp, Setup
<1> QED
  BY <1>1, <1>4, <1>5, <1>6, <1>7, <1>8, <1>9, <1>10, <1>11 DEF Whole, i, d

\* onNewConnection: the Dynamo connects and logs in.
LEMMA LoginStep ==
  ASSUME IInv, NEW m \in Managers, Login(m)
  PROVE  IInv'
<1> DEFINE i == <<Short("LOGIN"), Long("manager info", 0)>>
<1>1. PICK old \in BOOLEAN : dynamo' = [dynamo EXCEPT ![m] = [Down EXCEPT !.up = TRUE, !.old = old]]
  BY DEF Login
<1>2. /\ ~dynamo[m].up /\ m \notin Present
      /\ toIometer' = [toIometer EXCEPT ![m] = i]
      /\ sessions' = Append(sessions, m)
      /\ session' = [session EXCEPT ![m] = NewSession]
      /\ engine' = engine /\ file' = file /\ window' = window
      /\ pool' = pool /\ toDynamo' = toDynamo
  BY DEF Login, shown
<1> DEFINE d == [Down EXCEPT !.up = TRUE, !.old = old]
<1>3. Whole(m, NewSession, i, <<>>, d, Idle) /\ NewSession.state = "WaitLoginMsg"
  BY Fresh
<1> HIDE DEF i, d
<1>4. toDynamo' = [toDynamo EXCEPT ![m] = <<>>]
  <2>1. toDynamo[m] = <<>>
    BY <1>2, Here1 DEF Whole, DownMeansGone
  <2> QED  BY <1>2, <2>1, Same
<1>5. /\ sessions' \in Seq(Managers) /\ IsInjective(sessions')
      /\ Present' = Present \cup {m}
  BY <1>2, AppendOnce DEF IInv, Types, Present
<1>6. DOMAIN pool' \subseteq Managers /\ \A n \in DOMAIN pool' : pool'[n] \in Seq(Nat)
  BY <1>2 DEF IInv, Types
<1>7. Present' \ {m} = Present \ {m} /\ m \in Present'
  BY <1>5
<1>8. dynamo' = [dynamo EXCEPT ![m] = d]
  BY <1>1 DEF d
<1> QED
  BY <1>2, <1>3, <1>4, <1>5, <1>6, <1>7, <1>8, ComesOrGoes DEF Showing

\* onSessionDisconnected: the Dynamo's main socket is closed.
LEMMA DisconnectStep ==
  ASSUME IInv, NEW m \in Managers, Disconnect(m)
  PROVE  IInv'
<1> DEFINE left == RemoveFirst(sessions, m)
<1>1. /\ m \in Present /\ ~dynamo[m].up
      /\ sessions' = left /\ session' = [session EXCEPT ![m] = NoSession]
      /\ pool' = Rebuilt(left, session)
      /\ toIometer' = [toIometer EXCEPT ![m] = <<>>]
      /\ toDynamo' = [toDynamo EXCEPT ![m] = <<>>]
      /\ engine' = engine /\ file' = file /\ window' = window /\ dynamo' = dynamo
  BY DEF Disconnect, shown
<1>2. /\ left \in Seq(Managers) /\ IsInjective(left)
      /\ ToSet(left) = Present \ {m}
  BY <1>1, RemoveFirstOnce DEF IInv, Types, Present
<1> HIDE DEF left
<1>3. DOMAIN pool' \subseteq Managers /\ \A n \in DOMAIN pool' : pool'[n] \in Seq(Nat)
  BY <1>1, <1>2, RebuiltTyped DEF IInv, Types
<1>4. dynamo' = [dynamo EXCEPT ![m] = Down] /\ ~Down.up
  <2>1. dynamo[m] = Down
    BY <1>1, Here1 DEF Whole, DownMeansGone
  <2> QED  BY <1>1, <2>1, Same
<1>5. Whole(m, NoSession, <<>>, <<>>, Down, Idle)
  BY Fresh
<1>6. Present' = Present \ {m}
  BY <1>1, <1>2 DEF Present
<1>7. Present' \ {m} = Present \ {m} /\ m \notin Present'
  BY <1>6
<1> QED
  BY <1>1, <1>2, <1>3, <1>4, <1>5, <1>7, ComesOrGoes

-------------------------------------------------------------------------------
(* The steps: the window's buttons. *)

\* What becomes of all sessions when the window starts or stops tests: h is the
\* engine, the sessions and what has been sent.
Kept(h) ==
    /\ h = [engine |-> h.engine, session |-> h.session, out |-> h.out]
    /\ h.engine \in [running : BOOLEAN, runner : {"Idle", "Running", "Stopped", "Error"},
                     current : SUBSET Result, saved : SUBSET Result]
    /\ h.engine.running = (h.engine.runner = "Running")
    /\ h.engine.current = engine.current
    /\ h.engine.runner = "Idle" => Idle
    /\ h.engine.running => engine.running \/ Idle
    /\ h.session \in [Managers -> Session] /\ h.out \in [Managers -> Seq(Command)]
    /\ \A m \in Managers :
          /\ Whole(m, h.session[m], toIometer[m], h.out[m], dynamo[m], h.engine.runner = "Idle")
          /\ m \notin Present => h.session[m] = NoSession
          /\ m \in Present => h.session[m].state # "Disconnected"
          /\ h.session[m].state \in Showing =>
                session[m].state \in Showing /\ h.session[m].pending = session[m].pending

\* Before anything has been done.
LEMMA KeptHere ==
  ASSUME IInv
  PROVE  Kept(Here)
<1>1. Here = [engine |-> engine, session |-> session, out |-> toDynamo]
  BY DEF Here
<1>2. Here.engine = engine /\ Here.session = session /\ Here.out = toDynamo
  BY <1>1
<1>3. \A m \in Managers : Whole(m, session[m], toIometer[m], toDynamo[m], dynamo[m],
                                engine.runner = "Idle")
  BY DEF IInv, AllWhole, Idle
<1> QED
  BY <1>1, <1>2, <1>3 DEF Kept, IInv, AllWhole, Types, Idle

\* The window installs what has been done.  A test that it starts is the first: there
\* is nothing yet that its file could lack.
LEMMA Installed ==
  ASSUME IInv, NEW h, Kept(h), Install(h), window' \in Window, h.engine.running => window'.running,
         file' \in [open : BOOLEAN, rows : SUBSET Result],
         file' = file \/ (h.engine.running => Idle),
         pool' = pool, sessions' = sessions, toIometer' = toIometer, dynamo' = dynamo
  PROVE  IInv'
<1>1. engine' = h.engine /\ session' = h.session /\ toDynamo' = h.out
  BY DEF Install
<1>2. Present' = Present
  BY DEF Present
<1>3. Types'
  BY <1>1 DEF Kept, IInv, Types
<1>4. AllWhole'
  <2> SUFFICES ASSUME NEW m \in Managers
               PROVE  /\ Whole(m, session'[m], toIometer'[m], toDynamo'[m], dynamo'[m], Idle')
                      /\ m \notin Present => /\ session'[m] = NoSession /\ toIometer'[m] = <<>>
                                             /\ ~dynamo'[m].up
                      /\ m \in Present => session'[m].state # "Disconnected"
    BY <1>2 DEF AllWhole
  <2>1. Whole(m, session'[m], toIometer'[m], toDynamo'[m], dynamo'[m], Idle')
    BY <1>1 DEF Kept, Idle
  <2>2. m \notin Present => toIometer[m] = <<>> /\ ~dynamo[m].up
    BY DEF IInv, AllWhole
  <2> QED  BY <2>1, <2>2, <1>1 DEF Kept
<1>5. FinalsShown'
  <2>1. ASSUME NEW m \in Present, session'[m].state \in Showing
        PROVE  ToSet(session'[m].pending) \subseteq engine'.current
    <3>1. m \in Managers
      BY DEF IInv, Types, Present, ToSet
    <3>2. /\ session[m].state \in Showing /\ session'[m].pending = session[m].pending
          /\ engine'.current = engine.current
      BY <2>1, <3>1, <1>1 DEF Kept
    <3> QED  BY <3>2 DEF IInv, FinalsShown, Showing
  <2>2. ASSUME engine'.running, file'.open
        PROVE  engine'.current \subseteq file'.rows
    <3>1. engine'.current = engine.current /\ (engine.running \/ Idle)
      BY <2>2, <1>1 DEF Kept
    <3>2. Idle => engine.current = {}
      BY DEF IInv, WindowFollows
    <3> QED  BY <2>2, <3>1, <3>2, <1>1 DEF IInv, FinalsShown
  <2> QED  BY <2>1, <2>2, <1>2 DEF FinalsShown, Showing
<1>6. WindowFollows'
  BY <1>1 DEF Kept, IInv, WindowFollows, Idle
<1> QED
  BY <1>3, <1>4, <1>5, <1>6 DEF IInv

\* stopTest and stopAll: every session stops its test.
LEMMA EngineStopsKeeps ==
  ASSUME IInv, NEW h, Kept(h)
  PROVE  Kept(EngineStops(h)) /\ ~EngineStops(h).engine.running
<1> DEFINE did == [n \in Managers |-> IF n \in Present THEN SessionStopTest(h.session[n])
                                      ELSE Do(h.session[n], <<>>)]
           ss == [n \in Managers |-> did[n].session]
           out == [n \in Managers |-> Written(h.out[n], n, did[n].out)]
           e == [h.engine EXCEPT !.running = FALSE, !.runner = RunnerStops(h.engine.runner),
                                 !.saved = h.engine.current]
           k == [engine |-> e, session |-> ss, out |-> out]
<1>1. h = [engine |-> h.engine, session |-> h.session, out |-> h.out]
  BY DEF Kept
<1>2. EngineStops(h) = k
  <2> DEFINE h2 == EachSession(h, LAMBDA n, s : SessionStopTest(s))
  <2>1. h2 = [h EXCEPT !.session = ss, !.out = out]
    BY DEF EachSession
  <2>2. EngineStops(h) = [h2 EXCEPT !.engine.running = FALSE,
                                    !.engine.runner = RunnerStops(h.engine.runner),
                                    !.engine.saved = h.engine.current]
    BY DEF EngineStops
  <2> HIDE DEF h2, ss, out
  <2>3. h2 = [engine |-> h.engine, session |-> ss, out |-> out]
    BY <1>1, <2>1
  <2>4. h.engine \in [running : BOOLEAN, runner : {"Idle", "Running", "Stopped", "Error"},
                      current : SUBSET Result, saved : SUBSET Result]
    BY DEF Kept
  <2> QED  BY <2>2, <2>3, <2>4
<1>3. /\ e \in [running : BOOLEAN, runner : {"Idle", "Running", "Stopped", "Error"},
                current : SUBSET Result, saved : SUBSET Result]
      /\ e.running = (e.runner = "Running") /\ e.current = engine.current
      /\ (e.runner = "Idle") = (h.engine.runner = "Idle") /\ ~e.running
  BY DEF Kept, RunnerStops
<1> HIDE DEF e
<1>4. ASSUME NEW n \in Managers
      PROVE  /\ Whole(n, ss[n], toIometer[n], out[n], dynamo[n], h.engine.runner = "Idle")
             /\ n \notin Present => ss[n] = NoSession
             /\ n \in Present => ss[n].state # "Disconnected"
             /\ ss[n].state \in Showing =>
                   session[n].state \in Showing /\ ss[n].pending = session[n].pending
  <2>1. /\ Whole(n, h.session[n], toIometer[n], h.out[n], dynamo[n], h.engine.runner = "Idle")
        /\ n \notin Present => h.session[n] = NoSession
        /\ n \in Present => h.session[n].state # "Disconnected"
        /\ h.session[n].state \in Showing =>
              session[n].state \in Showing /\ h.session[n].pending = session[n].pending
        /\ h.out[n] \in Seq(Command)
    BY DEF Kept
  <2>2. CASE n \in Present
    <3> DEFINE w == SessionStopTest(h.session[n])
    <3>1. /\ Whole(n, w.session, toIometer[n],
                   IF dynamo[n].up THEN h.out[n] \o w.out ELSE h.out[n], dynamo[n],
                   h.engine.runner = "Idle")
          /\ w.session.state = "Disconnected" \/ w.session.state \in Showing =>
                w.session = h.session[n]
      BY <2>1, StopsTest DEF Showing
    <3>2. ss[n] = w.session /\ out[n] = Written(h.out[n], n, w.out)
      BY <2>2
    <3> HIDE DEF w, ss, out
    <3> QED  BY <3>1, <3>2, <2>1, <2>2 DEF Written
  <2>3. CASE n \notin Present
    <3>1. ss[n] = h.session[n] /\ out[n] = Written(h.out[n], n, <<>>)
      BY <2>3 DEF Do
    <3>2. out[n] = h.out[n]
      BY <3>1, <2>1, ConcatEmptySeq DEF Written
    <3> HIDE DEF ss, out
    <3> QED  BY <3>1, <3>2, <2>1, <2>3
  <2> QED  BY <2>2, <2>3
<1>5. ss \in [Managers -> Session] /\ out \in [Managers -> Seq(Command)]
  <2>1. \A n \in Managers : ss[n] \in Session /\ out[n] \in Seq(Command)
    BY <1>4 DEF Whole, Typed
  <2> QED  BY <2>1
<1> HIDE DEF ss, out
<1>6. Kept(k) /\ ~k.engine.running
  BY <1>3, <1>4, <1>5 DEF Kept
<1> HIDE DEF k
<1> QED
  BY <1>2, <1>6

\* A session starts with its part of the engine's workers.
LEMMA StartsOne ==
  ASSUME IInv, NEW n \in Managers, NEW h,
         Whole(n, h.session[n], toIometer[n], h.out[n], dynamo[n], TRUE)
  PROVE  LET w == SessionStartTest(n, h.session[n], AllWorkers) IN
         /\ Whole(n, w.session, toIometer[n],
                  IF dynamo[n].up THEN h.out[n] \o w.out ELSE h.out[n], dynamo[n], FALSE)
         /\ w.session.state \notin Showing
         /\ w.session.state = "Disconnected" => w.session = h.session[n]
<1>1. Types
  BY DEF IInv
<1>2. ASSUME NEW list
      PROVE  LET w == SessionStartTest(n, h.session[n], list) IN
             /\ Whole(n, w.session, toIometer[n],
                      IF dynamo[n].up THEN h.out[n] \o w.out ELSE h.out[n], dynamo[n], FALSE)
             /\ w.session.state \notin Showing
             /\ w.session.state = "Disconnected" => w.session = h.session[n]
  BY <1>1, StartsTest
<1> QED
  BY <1>2

\* startTest: every session that is ready starts its first test, or the runner
\* refuses.
LEMMA EngineStartsKeeps ==
  ASSUME IInv, NEW h, Kept(h)
  PROVE  Kept(EngineStartTest(h))
<1>1. h = [engine |-> h.engine, session |-> h.session, out |-> h.out]
  BY DEF Kept
<1>2. CASE h.engine.running \/ sessions = <<>>
  BY <1>2 DEF EngineStartTest
<1>3. CASE ~(h.engine.running \/ sessions = <<>>) /\ ~RunnerStarts(h)
  <2> DEFINE e == [h.engine EXCEPT !.runner = "Error", !.saved = {}]
             k == [engine |-> e, session |-> h.session, out |-> h.out]
  <2>1. EngineStartTest(h) = k
    BY <1>1, <1>3 DEF EngineStartTest
  <2>2. /\ e \in [running : BOOLEAN, runner : {"Idle", "Running", "Stopped", "Error"},
                  current : SUBSET Result, saved : SUBSET Result]
        /\ e.running = (e.runner = "Running") /\ e.current = engine.current
        /\ e.runner # "Idle" /\ ~e.running
    BY <1>3 DEF Kept
  <2> HIDE DEF e
  <2>3. (e.runner = "Idle") = FALSE
    BY <2>2
  <2>4. \A m \in Managers :
           Whole(m, h.session[m], toIometer[m], h.out[m], dynamo[m], e.runner = "Idle")
    BY <2>3, Begun DEF Kept
  <2>5. Kept(k)
    BY <2>2, <2>4 DEF Kept
  <2> HIDE DEF k
  <2> QED  BY <2>1, <2>5
<1>4. CASE ~(h.engine.running \/ sessions = <<>>) /\ RunnerStarts(h)
  <2> DEFINE did == [n \in Managers |-> IF n \in Present
                                        THEN SessionStartTest(n, h.session[n], AllWorkers)
                                        ELSE Do(h.session[n], <<>>)]
             ss == [n \in Managers |-> did[n].session]
             out == [n \in Managers |-> Written(h.out[n], n, did[n].out)]
             e == [h.engine EXCEPT !.running = TRUE, !.runner = "Running", !.saved = {}]
             k == [engine |-> e, session |-> ss, out |-> out]
  <2>1. EngineStartTest(h) = k
    BY <1>1, <1>4 DEF EngineStartTest, EachSession
  <2>2. /\ e \in [running : BOOLEAN, runner : {"Idle", "Running", "Stopped", "Error"},
                  current : SUBSET Result, saved : SUBSET Result]
        /\ e.running = (e.runner = "Running") /\ e.current = engine.current
        /\ (e.runner = "Idle") = FALSE
    BY DEF Kept
  <2> HIDE DEF e
  <2>3. (h.engine.runner = "Idle") = TRUE /\ Idle
    BY <1>4 DEF RunnerStarts, Kept
  <2>4. ASSUME NEW n \in Managers
        PROVE  /\ Whole(n, ss[n], toIometer[n], out[n], dynamo[n], FALSE)
               /\ n \notin Present => ss[n] = NoSession
               /\ n \in Present => ss[n].state # "Disconnected"
               /\ ss[n].state \notin Showing
    <3>1. /\ Whole(n, h.session[n], toIometer[n], h.out[n], dynamo[n], TRUE)
          /\ n \notin Present => h.session[n] = NoSession
          /\ n \in Present => h.session[n].state # "Disconnected"
          /\ h.out[n] \in Seq(Command)
      BY <2>3 DEF Kept
    <3>2. CASE n \in Present
      <4> DEFINE w == SessionStartTest(n, h.session[n], AllWorkers)
      <4>1. /\ Whole(n, w.session, toIometer[n],
                     IF dynamo[n].up THEN h.out[n] \o w.out ELSE h.out[n], dynamo[n], FALSE)
            /\ w.session.state \notin Showing
            /\ w.session.state = "Disconnected" => w.session = h.session[n]
        BY <3>1, StartsOne
      <4>2. ss[n] = w.session /\ out[n] = Written(h.out[n], n, w.out)
        BY <3>2
      <4> HIDE DEF w, ss, out
      <4> QED  BY <4>1, <4>2, <3>1, <3>2 DEF Written
    <3>3. CASE n \notin Present
      <4>1. ss[n] = h.session[n] /\ out[n] = Written(h.out[n], n, <<>>)
        BY <3>3 DEF Do
      <4>2. out[n] = h.out[n]
        BY <4>1, <3>1, ConcatEmptySeq DEF Written
      <4>3. Whole(n, h.session[n], toIometer[n], h.out[n], dynamo[n], FALSE)
        BY <3>1, Begun
      <4>4. NoSession.state \notin Showing
        BY DEF NoSession, Showing
      <4> HIDE DEF ss, out
      <4> QED  BY <4>1, <4>2, <4>3, <4>4, <3>1, <3>3
    <3> QED  BY <3>2, <3>3
  <2>5. ss \in [Managers -> Session] /\ out \in [Managers -> Seq(Command)]
    <3>1. \A n \in Managers : ss[n] \in Session /\ out[n] \in Seq(Command)
      BY <2>4 DEF Whole, Typed
    <3> QED  BY <3>1
  <2> HIDE DEF ss, out
  <2>6. Kept(k)
    BY <2>2, <2>3, <2>4, <2>5 DEF Kept
  <2> HIDE DEF k
  <2> QED  BY <2>1, <2>6
<1> QED
  BY <1>2, <1>3, <1>4

\* The start button: the window does not run, so that neither does the engine.
LEMMA StartStep ==
  ASSUME IInv, OnStart
  PROVE  IInv'
<1> DEFINE h == EngineStartTest(Here)
<1>1. Kept(h)
  BY KeptHere, EngineStartsKeeps
<1>2. /\ Install(h) /\ ~window.running
      /\ file' \in {file, [open |-> TRUE, rows |-> {}], NoFile}
      /\ window' = [running |-> Started(Here, h), idx |-> 0, advancing |-> FALSE]
      /\ UNCHANGED <<pool, sessions, toIometer, dynamo>>
  BY DEF OnStart
<1>3. ~engine.running
  BY <1>2 DEF IInv, WindowFollows
<1>4. h.engine.running => window'.running
  BY <1>2, <1>3 DEF Started, Here
<1>5. h.engine.running => Idle
  BY <1>1, <1>3 DEF Kept
<1>6. Started(Here, h) \in BOOLEAN
  BY DEF Started
<1> HIDE DEF h
<1>7. file' \in [open : BOOLEAN, rows : SUBSET Result] /\ window' \in Window
  <2> DEFINE b == Started(Here, h)
  <2>1. b \in BOOLEAN /\ window' = [running |-> b, idx |-> 0, advancing |-> FALSE]
    BY <1>2, <1>6
  <2> HIDE DEF b
  <2>2. window' \in Window
    BY <2>1 DEF Window
  <2>3. file \in [open : BOOLEAN, rows : SUBSET Result]
    BY DEF IInv, Types
  <2>4. /\ [open |-> TRUE, rows |-> {}] \in [open : BOOLEAN, rows : SUBSET Result]
        /\ NoFile \in [open : BOOLEAN, rows : SUBSET Result]
    BY DEF NoFile
  <2> QED  BY <1>2, <2>2, <2>3, <2>4
<1> QED
  BY <1>1, <1>2, <1>4, <1>5, <1>7, Installed

\* The window changes, or nothing, but not in what it runs.
LEMMA NothingChanges ==
  ASSUME IInv, window' \in Window, window'.running = window.running,
         UNCHANGED <<engine, file, pool, sessions, session, toIometer, toDynamo, dynamo>>
  PROVE  IInv'
  BY DEF IInv, Types, AllWhole, WindowFollows, FinalsShown, Idle, Present

\* onTestStopped: on to the next spec, or the end of the run.
LEMMA TestStoppedStep ==
  ASSUME IInv, NEW advancing, window.running, OnTestStopped(EngineStops(Here), advancing),
         UNCHANGED <<pool, sessions, toIometer, dynamo>>
  PROVE  IInv'
<1> DEFINE h == EngineStops(Here)
           k == EngineStartTest(h)
<1>1. Kept(h) /\ Kept(k) /\ ~h.engine.running
  BY KeptHere, EngineStopsKeeps, EngineStartsKeeps
<1>2. CASE advancing /\ window.idx + 1 < Queue
  <2>1. /\ Install(k) /\ file' = file
        /\ window' = [window EXCEPT !.idx = window.idx + 1, !.advancing = FALSE]
    BY <1>2 DEF OnTestStopped
  <2> HIDE DEF h, k
  <2>2. file' \in [open : BOOLEAN, rows : SUBSET Result]
    BY <2>1 DEF IInv, Types
  <2>3. window' \in Window /\ window'.running
    <3> DEFINE n == window.idx + 1
    <3>1. window \in Window
      BY DEF IInv, WindowFollows
    <3>2. n \in Nat /\ FALSE \in BOOLEAN
      BY <3>1 DEF Window
    <3>3. window' = [window EXCEPT !.idx = n, !.advancing = FALSE]
      BY <2>1
    <3> HIDE DEF n
    <3>4. window'.running = window.running
      BY <3>1, <3>3 DEF Window
    <3>5. window' \in Window
      BY <3>1, <3>2, <3>3 DEF Window
    <3> QED  BY <3>4, <3>5
  <2> QED  BY <1>1, <2>1, <2>2, <2>3, Installed
<1>3. CASE ~(advancing /\ window.idx + 1 < Queue)
  <2>1. /\ Install(h) /\ file' = NoFile
        /\ window' = [running |-> FALSE, idx |-> 0, advancing |-> FALSE]
    BY <1>3 DEF OnTestStopped
  <2>2. file' \in [open : BOOLEAN, rows : SUBSET Result] /\ window' \in Window
    BY <2>1 DEF NoFile, Window
  <2> HIDE DEF h, k
  <2> QED  BY <1>1, <2>1, <2>2, Installed
<1> QED
  BY <1>2, <1>3

\* The stop buttons: the test is over, and the run goes on with the next spec.
LEMMA StopSteps ==
  ASSUME IInv, OnStop \/ OnStopAll
  PROVE  IInv'
<1>1. UNCHANGED <<pool, sessions, toIometer, dynamo>> /\ window.running
  BY DEF OnStop, OnStopAll
<1>2. CASE OnStop /\ ~engine.running
  <2>1. /\ window' = [window EXCEPT !.advancing = TRUE]
        /\ UNCHANGED <<engine, file, session, toDynamo>>
    BY <1>2 DEF OnStop, shown
  <2>2. window' \in Window /\ window'.running = window.running
    BY <2>1 DEF IInv, WindowFollows, Window
  <2> QED  BY <1>1, <2>1, <2>2, NothingChanges
<1>3. CASE OnStopAll \/ engine.running
  BY <1>1, <1>3, TestStoppedStep DEF OnStop, OnStopAll
<1> QED
  BY <1>2, <1>3

\* "New": the engine forgets all Dynamos, and the list of results is empty.
LEMMA NewStep ==
  ASSUME IInv, OnNew
  PROVE  IInv'
<1>1. /\ engine' = [engine EXCEPT !.running = FALSE, !.runner = RunnerStops(@), !.current = {}]
      /\ pool' = [m \in {} |-> <<>>] /\ sessions' = <<>>
      /\ session' = [m \in Managers |-> NoSession]
      /\ toDynamo' = [m \in Managers |-> <<>>] /\ toIometer' = [m \in Managers |-> <<>>]
      /\ dynamo' = [m \in Managers |-> IF m \in Present THEN Down ELSE dynamo[m]]
      /\ file' = file /\ window' = window
  BY DEF OnNew
<1>2. /\ engine' \in [running : BOOLEAN, runner : {"Idle", "Running", "Stopped", "Error"},
                      current : SUBSET Result, saved : SUBSET Result]
      /\ engine'.running = (engine'.runner = "Running") /\ Idle' \in BOOLEAN
      /\ ~engine'.running /\ engine'.current = {}
  BY <1>1 DEF IInv, Types, RunnerStops, Idle
<1>3. \A m \in Managers : dynamo'[m] = Down
  <2> TAKE m \in Managers
  <2>1. m \notin Present => dynamo[m] = Down
    BY DEF IInv, AllWhole, Whole, DownMeansGone
  <2> QED  BY <1>1, <2>1
<1>4. Present' = {}
  BY <1>1, NoResults DEF Present
<1>5. AllWhole'
  <2> SUFFICES ASSUME NEW m \in Managers
               PROVE  /\ Whole(m, session'[m], toIometer'[m], toDynamo'[m], dynamo'[m], Idle')
                      /\ session'[m] = NoSession /\ toIometer'[m] = <<>> /\ ~dynamo'[m].up
    BY <1>4 DEF AllWhole
  <2>1. /\ session'[m] = NoSession /\ toIometer'[m] = <<>> /\ toDynamo'[m] = <<>>
        /\ dynamo'[m] = Down /\ ~Down.up
    BY <1>1, <1>3 DEF Down
  <2>2. Whole(m, NoSession, <<>>, <<>>, Down, Idle')
    BY Fresh
  <2> QED  BY <2>1, <2>2
<1>6. FinalsShown' /\ WindowFollows'
  BY <1>1, <1>2, <1>4 DEF FinalsShown, IInv, WindowFollows
<1>7. Types'
  <2>1. \A m \in Managers : /\ session'[m] \in Session /\ dynamo'[m] \in Process
                            /\ toDynamo'[m] \in Seq(Command) /\ toIometer'[m] \in Seq(Message)
    BY <1>5 DEF AllWhole, Whole, Typed
  <2>2. /\ session' \in [Managers -> Session] /\ dynamo' \in [Managers -> Process]
        /\ toDynamo' \in [Managers -> Seq(Command)] /\ toIometer' \in [Managers -> Seq(Message)]
    BY <1>1, <2>1
  <2>3. sessions' \in Seq(Managers) /\ IsInjective(sessions')
    BY <1>1, Nothing DEF IsInjective
  <2>4. DOMAIN pool' = {}
    BY <1>1
  <2>5. file' \in [open : BOOLEAN, rows : SUBSET Result]
    BY <1>1 DEF IInv, Types
  <2> QED  BY <1>2, <2>2, <2>3, <2>4, <2>5 DEF Types
<1> QED
  BY <1>5, <1>6, <1>7 DEF IInv

\* The user adds a worker to the pool or removes one, between tests.
LEMMA PoolSteps ==
  ASSUME IInv, NEW m \in Managers,
         AddWorker(m) \/ \E i \in 1 .. MaxWorkers : RemoveWorker(m, i)
  PROVE  IInv'
<1>1. PICK q \in Seq(Nat) : m \in DOMAIN pool /\ pool' = [pool EXCEPT ![m] = q]
  <2>1. CASE AddWorker(m)
    <3>1. /\ m \in DOMAIN pool
          /\ pool' = [pool EXCEPT ![m] = Append(pool[m], Len(pool[m]) + 1)]
      BY <2>1 DEF AddWorker
    <3>2. pool[m] \in Seq(Nat) /\ Len(pool[m]) + 1 \in Nat
      BY <3>1, LenProperties DEF IInv, Types
    <3>3. Append(pool[m], Len(pool[m]) + 1) \in Seq(Nat)
      BY <3>2, AppendProperties
    <3> QED  BY <3>1, <3>3
  <2>2. ASSUME NEW i \in 1 .. MaxWorkers, RemoveWorker(m, i)
        PROVE  \E q \in Seq(Nat) : m \in DOMAIN pool /\ pool' = [pool EXCEPT ![m] = q]
    <3>1. /\ m \in DOMAIN pool /\ i \in DOMAIN pool[m]
          /\ pool' = [pool EXCEPT ![m] = RemoveAt(pool[m], i)]
      BY <2>2 DEF RemoveWorker
    <3>2. pool[m] \in Seq(Nat)
      BY <3>1 DEF IInv, Types
    <3>3. RemoveAt(pool[m], i) \in Seq(Nat)
      BY <3>1, <3>2, OneRemoved
    <3> QED  BY <3>1, <3>3
  <2> QED  BY <2>1, <2>2
<1>2. UNCHANGED <<engine, file, window, sessions, session, toIometer, toDynamo, dynamo>>
  BY DEF AddWorker, RemoveWorker, net, shown
<1>3. DOMAIN pool' \subseteq Managers /\ \A n \in DOMAIN pool' : pool'[n] \in Seq(Nat)
  BY <1>1 DEF IInv, Types
<1>4. Types'
  BY <1>2, <1>3 DEF IInv, Types
<1>5. AllWhole' /\ WindowFollows' /\ FinalsShown'
  BY <1>2 DEF IInv, AllWhole, WindowFollows, FinalsShown, Idle, Present
<1> QED
  BY <1>4, <1>5 DEF IInv

\* disconnectManager: RECORD_OFF, if a test runs, and EXIT.
LEMMA DisconnectManagerStep ==
  ASSUME IInv, NEW m \in Managers, DisconnectManager(m)
  PROVE  IInv'
<1> DEFINE did == SessionStopTest(session[m])
           t == did.session
           c == Cmd("EXIT", 0)
           q == IF dynamo[m].up THEN toDynamo[m] \o did.out ELSE toDynamo[m]
           o == Written(toDynamo[m], m, Append(did.out, c))
<1>1. /\ m \in Present /\ session' = [session EXCEPT ![m] = t]
      /\ toDynamo' = [toDynamo EXCEPT ![m] = o]
      /\ UNCHANGED <<engine, file, window, pool, sessions, toIometer, dynamo>>
  BY DEF DisconnectManager, shown
<1>2. /\ Whole(m, t, toIometer[m], q, dynamo[m], Idle)
      /\ did.out = <<>> \/ did.out = <<Cmd("RECORD_OFF", 0)>>
      /\ t.state = "Disconnected" \/ t.state \in Showing => t = session[m]
  BY Here1, StopsTest DEF Showing
<1>3. Whole(m, t, toIometer[m], Put(q, dynamo[m], c), dynamo[m], Idle)
  BY <1>2, Leaves
<1>4. Put(q, dynamo[m], c) = o
  <2>1. did.out \in Seq(Command) /\ c \in Command /\ toDynamo[m] \in Seq(Command)
    <3>1. Cmd("RECORD_OFF", 0) \in Command /\ c \in Command
      BY DEF Command, Cmd, Silent, Answering
    <3>2. <<Cmd("RECORD_OFF", 0)>> \in Seq(Command)
      BY <3>1
    <3> QED  BY <3>1, <3>2, <1>2, Here1, Nothing
  <2> DEFINE r == did.out
  <2> HIDE DEF c, r, did
  <2>2. Append(r, c) = r \o <<c>> /\ <<c>> \in Seq(Command)
    BY <2>1, OneMore DEF r
  <2>3. toDynamo[m] \o (r \o <<c>>) = (toDynamo[m] \o r) \o <<c>>
    <3>1. r \in Seq(Command) /\ toDynamo[m] \in Seq(Command)
      BY <2>1 DEF r
    <3>2. \A x, y, z \in Seq(Command) : x \o (y \o z) = (x \o y) \o z
      BY ConcatAssociative
    <3> QED  BY <3>1, <3>2, <2>2
  <2>4. o = IF dynamo[m].up THEN toDynamo[m] \o Append(r, c) ELSE toDynamo[m]
    BY DEF Written, r
  <2>5. Put(q, dynamo[m], c) = IF dynamo[m].up THEN (toDynamo[m] \o r) \o <<c>> ELSE toDynamo[m]
    BY DEF Put, r
  <2> QED  BY <2>2, <2>3, <2>4, <2>5
<1>5. session[m].state # "Disconnected"
  BY <1>1 DEF IInv, AllWhole
<1> HIDE DEF t, o, did, q, c
<1>6. /\ t.state # "Disconnected" /\ (t.state \in Showing => t = session[m])
      /\ Whole(m, t, toIometer[m], o, dynamo[m], Idle)
  BY <1>2, <1>3, <1>4, <1>5
<1>7. /\ m \in Present /\ session' = [session EXCEPT ![m] = t]
      /\ toIometer' = [toIometer EXCEPT ![m] = toIometer[m]]
      /\ toDynamo' = [toDynamo EXCEPT ![m] = o]
      /\ dynamo' = [dynamo EXCEPT ![m] = dynamo[m]]
      /\ engine' = engine /\ file' = file /\ window' = window
      /\ pool' = pool /\ sessions' = sessions
  BY <1>1, Same
<1> QED
  BY <1>6, <1>7, OneSession, Zenon

-------------------------------------------------------------------------------
(* The theorems. *)

\* Nobody has connected.
LEMMA Initial == Init => IInv
<1> SUFFICES ASSUME Init PROVE IInv
  OBVIOUS
<1>1. /\ engine = [running |-> FALSE, runner |-> "Idle", current |-> {}, saved |-> {}]
      /\ file = NoFile /\ window = [running |-> FALSE, idx |-> 0, advancing |-> FALSE]
      /\ pool = [m \in {} |-> <<>>] /\ sessions = <<>>
      /\ session = [m \in Managers |-> NoSession]
      /\ toDynamo = [m \in Managers |-> <<>>] /\ toIometer = [m \in Managers |-> <<>>]
      /\ dynamo = [m \in Managers |-> Down]
  BY DEF Init
<1>2. Present = {}
  BY <1>1, NoResults DEF Present
<1>3. \A m \in Managers : Whole(m, NoSession, <<>>, <<>>, Down, Idle)
  BY Fresh
<1>4. AllWhole
  BY <1>1, <1>2, <1>3 DEF AllWhole, Down
<1>5. FinalsShown /\ WindowFollows
  BY <1>1, <1>2 DEF FinalsShown, WindowFollows, Window
<1>6. Types
  <2>1. \A m \in Managers : /\ session[m] \in Session /\ dynamo[m] \in Process
                            /\ toDynamo[m] \in Seq(Command) /\ toIometer[m] \in Seq(Message)
    BY <1>4 DEF AllWhole, Whole, Typed
  <2>2. /\ session \in [Managers -> Session] /\ dynamo \in [Managers -> Process]
        /\ toDynamo \in [Managers -> Seq(Command)] /\ toIometer \in [Managers -> Seq(Message)]
    BY <1>1, <2>1
  <2>3. sessions \in Seq(Managers) /\ IsInjective(sessions)
    BY <1>1, Nothing DEF IsInjective
  <2>4. /\ engine \in [running : BOOLEAN, runner : {"Idle", "Running", "Stopped", "Error"},
                       current : SUBSET Result, saved : SUBSET Result]
        /\ engine.running = (engine.runner = "Running")
        /\ file \in [open : BOOLEAN, rows : SUBSET Result]
    BY <1>1 DEF NoFile
  <2>5. DOMAIN pool = {}
    BY <1>1
  <2> QED  BY <2>2, <2>3, <2>4, <2>5 DEF Types
<1> QED
  BY <1>4, <1>5, <1>6 DEF IInv

\* Every button, handler, command and Dynamo that comes or goes.
LEMMA Inductive == IInv /\ [Next]_vars => IInv'
<1> SUFFICES ASSUME IInv, [Next]_vars PROVE IInv'
  OBVIOUS
<1>1. CASE OnStart \/ OnStop \/ OnStopAll \/ OnNew
  BY <1>1, StartStep, StopSteps, NewStep
<1>2. ASSUME NEW m \in Managers,
             \/ AddWorker(m) \/ DisconnectManager(m)
             \/ \E i \in 1 .. MaxWorkers : RemoveWorker(m, i)
      PROVE  IInv'
  BY <1>2, PoolSteps, DisconnectManagerStep
<1>3. ASSUME NEW m \in Managers, Handle(m)
      PROVE  IInv'
  BY <1>3, JoiningSteps, TargetListStep, AddWorkersReplyStep, GoingOnSteps, AskingSteps,
     SetTargetsDataStep, BeginIoStep, UpdateWorkerStep, StopReplyStep, FinalWorkerStep,
     MainConnectedStep, DisconnectStep DEF Handle
<1>4. ASSUME NEW m \in Managers, OnUpdateTimer(m) \/ Login(m) \/ Serve(m) \/ Dies(m)
      PROVE  IInv'
  BY <1>4, UpdateTimerStep, LoginStep, ServeStep, DiesStep
<1>5. CASE UNCHANGED vars
  <2>1. /\ window' = window
        /\ UNCHANGED <<engine, file, pool, sessions, session, toIometer, toDynamo, dynamo>>
    BY <1>5 DEF vars, net, shown
  <2> QED  BY <2>1, NothingChanges DEF IInv, WindowFollows
<1> QED
  BY <1>1, <1>2, <1>3, <1>4, <1>5 DEF Next, User

\* What is on its way stays known.
LEMMA Invariant == Spec => []IInv
<1>1. Init => IInv
  BY Initial
<1>2. IInv /\ [Next]_vars => IInv'
  BY Inductive
<1> QED
  BY <1>1, <1>2, PTL DEF Spec

\* Engine, sessions and pool keep their types, no computer has two sessions,
\* the engine runs a test exactly when its runner does, and no session takes
\* more results than its workers can have.
THEOREM TypeCorrect == Spec => []TypeOK
<1>1. IInv => TypeOK
  <2> SUFFICES ASSUME IInv PROVE TypeOK
    OBVIOUS
  <2>1. ASSUME NEW m \in Managers
        PROVE  /\ session[m].state \in State /\ session[m].pending \in Seq(Result)
               /\ m \notin Present => session[m] = NoSession
               /\ session[m].result <= session[m].active
    <3>1. session[m] \in Session /\ Counted(session[m])
      BY Here1 DEF Whole
    <3>2. m \notin Present => session[m] = NoSession
      BY DEF IInv, AllWhole
    <3> QED  BY <3>1, <3>2 DEF Session, Counted
  <2>2. /\ engine.running \in BOOLEAN
        /\ engine.runner \in {"Idle", "Running", "Stopped", "Error"}
        /\ {engine.current, engine.saved, file.rows} \subseteq SUBSET Result
        /\ file.open \in BOOLEAN
    BY DEF IInv, Types
  <2> QED  BY <2>1, <2>2 DEF TypeOK, IInv, Types
<1> QED
  BY <1>1, Invariant, PTL

\* The first message that has arrived is the one its session waits for.
LEMMA AnswerAwaited ==
  ASSUME NEW s, NEW i \in Seq(Message), OneAnswer(s, i), i # <<>>, s.state # "Error"
  PROVE  s.state \in DOMAIN Awaited /\ Head(i).of = Awaited[s.state]
<1>1. Head(i) = i[1] /\ Len(i) \in Nat \ {0} /\ 1 \in 1 .. Len(i)
  BY HeadTailProperties, EmptySeq, LenProperties
<1>2. CASE s.state \in DOMAIN Rest /\ i = Rest[s.state]
  <2>1. DOMAIN Rest \subseteq DOMAIN Awaited
    BY RestDomain DEF Awaited
  <2> QED  BY <1>2, <2>1, RestHead
<1> DEFINE S == {"WaitUpdateMgr", "WaitUpdateWorker", "WaitFinalMgr", "WaitFinalWorker"}
<1>a. /\ S \subseteq DOMAIN Awaited
      /\ Awaited["WaitUpdateMgr"] = "manager results" /\ Awaited["WaitUpdateWorker"] = "update"
      /\ Awaited["WaitFinalMgr"] = "manager results" /\ Awaited["WaitFinalWorker"] = "results"
  BY DEF Awaited
<1>b. \A p, g : Long(p, g).of = p
  BY DEF Long
<1>3. CASE s.state \in {"WaitUpdateMgr", "WaitFinalMgr"} /\ i[1] = Long("manager results", 0)
  <2>1. Head(i) = Long("manager results", 0) /\ Long("manager results", 0).of = "manager results"
    BY <1>1, <1>3, <1>b, Zenon
  <2> QED  BY <2>1, <1>3, <1>a
<1>4. CASE /\ s.state \in {"WaitUpdateWorker", "WaitFinalWorker"}
           /\ i[1] = Long(Kind(s.state), s.result + 1 - 1)
  <2>1. Head(i).of = Kind(s.state)
    BY <1>1, <1>4, <1>b
  <2> QED  BY <2>1, <1>4, <1>a DEF Kind, Updating
<1> QED
  BY <1>1, <1>2, <1>3, <1>4 DEF OneAnswer

\* The first command on its way is one that the Dynamo's test is ready for.
LEMMA CommandFits ==
  ASSUME NEW m, NEW s, NEW i, NEW o, NEW d, NEW idle, Whole(m, s, i, o, d, idle),
         o # <<>>, Head(o).purpose \in DOMAIN Needs
  PROVE  d.mode = Needs[Head(o).purpose]
<1> DEFINE p == Head(o).purpose
<1>1. /\ o \in Seq(Command) /\ Head(o) = o[1] /\ Len(o) \in Nat \ {0} /\ 1 \in 1 .. Len(o)
  BY HeadTailProperties, EmptySeq, LenProperties DEF Whole, Typed
<1>2. d.mode = ModeOf(s.state, o) /\ UnderWay(o, p)
  BY <1>1 DEF Whole, DownMeansGone, ModeKnown, UnderWay
<1>3. DOMAIN Needs = {"START", "BEGIN_IO", "RECORD_ON", "RECORD_OFF", "STOP", "REPORT_UPDATE",
                      "REPORT_RESULTS", "SET_ACCESS", "SET_TARGETS"}
  BY DEF Needs
<1>4. CASE p = "RECORD_ON"
  <2>1. s.state \in Updating \cup {"Running", "WaitRecordOff"}
        /\ (s.state = "WaitRecordOff" => UnderWay(o, "RECORD_OFF"))
    BY <1>1, <1>4 DEF Whole, OneCommand
  <2> QED  BY <2>1, <1>2, <1>4 DEF ModeOf, Needs, Updating
<1>5. CASE p # "RECORD_ON"
  <2>1. p \notin Silent
    BY <1>3, <1>5 DEF Silent
  <2>2. s.state = Answering[p]
    BY <1>1, <2>1 DEF Whole, OneCommand
  <2>3. ~UnderWay(o, "RECORD_ON")
    <3> SUFFICES ASSUME NEW k \in 1 .. Len(o), o[k].purpose = "RECORD_ON" PROVE FALSE
      BY DEF UnderWay
    <3>1. k < 1
      BY <1>1, <2>1 DEF Whole, OneCommand
    <3> QED  BY <3>1, <1>1
  <2> QED  BY <2>2, <2>3, <1>2, <1>3, <1>5 DEF ModeOf, Needs, Answering, Updating
<1> QED
  BY <1>4, <1>5

\* However many Dynamos join, are served at their own pace, are asked to leave
\* or die, and whatever the user starts and stops: what a session takes from its
\* socket is the answer its state waits for, and what a Dynamo takes is a command
\* its test is ready for.
THEOREM BytesInStep == Spec => []InStep
<1>1. IInv => InStep
  <2> SUFFICES ASSUME IInv, NEW m \in Present
               PROVE  /\ toIometer[m] # <<>> /\ session[m].state # "Error" =>
                            /\ session[m].state \in DOMAIN Awaited
                            /\ Head(toIometer[m]).of = Awaited[session[m].state]
                      /\ toDynamo[m] # <<>> /\ Head(toDynamo[m]).purpose \in DOMAIN Needs =>
                            dynamo[m].mode = Needs[Head(toDynamo[m]).purpose]
    BY DEF InStep
  <2>1. m \in Managers
    BY DEF IInv, Types, Present, ToSet
  <2>2. Whole(m, session[m], toIometer[m], toDynamo[m], dynamo[m], Idle)
    BY <2>1, Here1
  <2>3. ASSUME toIometer[m] # <<>>, session[m].state # "Error"
        PROVE  /\ session[m].state \in DOMAIN Awaited
               /\ Head(toIometer[m]).of = Awaited[session[m].state]
    BY <2>2, <2>3, AnswerAwaited DEF Whole, Typed
  <2>4. ASSUME toDynamo[m] # <<>>, Head(toDynamo[m]).purpose \in DOMAIN Needs
        PROVE  dynamo[m].mode = Needs[Head(toDynamo[m]).purpose]
    BY <2>2, <2>4, CommandFits
  <2> QED  BY <2>3, <2>4
<1> QED
  BY <1>1, Invariant, PTL

\* The n-th result of a session is said to be of its n-th worker and comes from
\* the n-th grunt, and a session that is ready again has the final results of all
\* of them or of none.
THEOREM ResultsAttributed == Spec => []Attributed
<1>1. IInv => Attributed
  <2> SUFFICES ASSUME IInv, NEW m \in Present
               PROVE  LET s == session[m] IN
                      /\ \A i \in DOMAIN s.pending : /\ s.pending[i].grunt = i - 1
                                                     /\ s.pending[i].worker = s.workers[i]
                      /\ s.state = "Ready" /\ s.pending # <<>> =>
                            /\ Len(s.pending) = Len(s.workers)
                            /\ \A i \in DOMAIN s.pending : s.pending[i].of = "results"
    BY DEF Attributed
  <2> DEFINE s == session[m]
  <2>1. m \in Managers
    BY DEF IInv, Types, Present, ToSet
  <2>2. s \in Session /\ Counted(s)
    BY <2>1, Here1 DEF Whole
  <2> HIDE DEF s
  <2>3. /\ DOMAIN s.pending = 1 .. s.result /\ s.result \in Nat
        /\ s.pending # <<>> => s.result # 0
    BY <2>2, EmptySeq, LenProperties DEF Session, Counted
  <2>4. \A i \in DOMAIN s.pending : s.pending[i].grunt = i - 1 /\ s.pending[i].worker = s.workers[i]
    BY <2>2, <2>3 DEF Counted
  <2>5. s.state = "Ready" /\ s.pending # <<>> =>
           /\ Len(s.pending) = Len(s.workers)
           /\ \A i \in DOMAIN s.pending : s.pending[i].of = "results"
    BY <2>2, <2>3 DEF Counted
  <2> QED  BY <2>4, <2>5 DEF s
<1> QED
  BY <1>1, Invariant, PTL

\* What the window shows has the results of the last update of every session that
\* waits for the next, and the final ones of every session that is ready again,
\* whatever the others report or the user does; a test's results file has a row for
\* each result shown while it runs, whichever the file dialog gave.
THEOREM FinalsStayShown == Spec => []FinalsShown
<1>1. IInv => FinalsShown
  BY DEF IInv
<1> QED
  BY <1>1, Invariant, PTL
===============================================================================
