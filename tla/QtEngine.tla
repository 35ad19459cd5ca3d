-------------------------------- MODULE QtEngine -------------------------------
(***************************************************************************)
(* The Qt front end's test control: the main window's start and stop       *)
(* buttons (QtMainWindow), the engine behind them (QtDynamoEngine, with    *)
(* its TestRunner and WorkerPool), one session per connected Dynamo        *)
(* (QtDySession, a state machine over the bytes of a socket), and the      *)
(* Dynamos (Manager::Run), which answer their commands in order.           *)
(*                                                                         *)
(* The engine, its sessions and the window share one event loop: a handler *)
(* runs to its end.  Messages in flight are queued in both directions.  A  *)
(* worker is the number in its id, a result the worker it is said to be    *)
(* of and the grunt it came from.                                          *)
(***************************************************************************)
EXTENDS Naturals, Sequences, SequencesExt, FiniteSets

CONSTANTS
    Managers,   \* the computers that may run a Dynamo
    Processors, \* [Managers -> Nat]: what each reports
    Disks,      \* the managers that have a disk
    Queue,      \* the specs in the window's run queue
    Batch,      \* the workers a loaded configuration defines (0: none)
    MaxWorkers, \* bound: workers of one manager in the pool
    MaxEvents,  \* bound: changes by the user and Dynamos that end on their own
    MaxLogins   \* bound: times one manager's Dynamo connects

ASSUME EngineAssumption ==
    /\ Processors \in [Managers -> Nat \ {0}]
    /\ Disks \subseteq Managers
    /\ Queue \in Nat \ {0} /\ Batch \in Nat
    /\ {MaxWorkers, MaxEvents, MaxLogins} \subseteq Nat

VARIABLES
    engine,    \* m_running, m_testRunner's state, m_currentResults, m_savedResults
    pool,      \* m_workerPool: the workers of each manager that is in it
    sessions,  \* m_sessions, by manager
    session,   \* each QtDySession
    window,    \* QtMainWindow: m_running, m_runQueueIdx, m_specAdvancing
    file,      \* its m_resultsFile: whether it is open, and whose rows it then has
    toDynamo, toIometer,  \* the messages in flight
    dynamo,    \* each Dynamo: its workers, those with targets, what they do
    events, logins

net  == <<toDynamo, toIometer, dynamo, logins>>
shown == <<engine, file>>
vars == <<shown, pool, sessions, session, window, events, net>>

Present == ToSet(sessions)

Updating == {"WaitUpdateMgr", "WaitUpdateWorker"}
Stopping == {"WaitRecordOff", "WaitStop", "WaitFinalMgr", "WaitFinalWorker"}
Setup    == {"SetupAccess", "SetupTargetsReply", "SetupTargetsData",
             "WaitStartReply", "WaitBeginIoReply"}
Joining  == {"WaitLoginMsg", "WaitLoginData", "Connecting", "WaitTargetsDisk",
             "WaitTargetsTcp", "WaitTargetsVi", "WaitAddWorkers"}
State    == Updating \cup Stopping \cup Setup \cup Joining
                \cup {"Ready", "Running", "Error", "Disconnected"}

NoSession == [state |-> "Disconnected", workers |-> <<>>, setup |-> 0, active |-> 0,
              result |-> 0, stop |-> FALSE, pending |-> <<>>]
NewSession == [NoSession EXCEPT !.state = "WaitLoginMsg"]
Down == [up |-> FALSE, old |-> FALSE, workers |-> 0, ready |-> {}, mode |-> "idle"]

NoFile == [open |-> FALSE, rows |-> {}]

Cmd(p, n)      == [purpose |-> p, n |-> n]
Short(of)      == [bytes |-> "msg", of |-> of, grunt |-> 0]   \* Message
Long(of, g)    == [bytes |-> "data", of |-> of, grunt |-> g]  \* Data_Message

Init ==
    /\ engine = [running |-> FALSE, runner |-> "Idle", current |-> {}, saved |-> {}]
    /\ pool = [m \in {} |-> <<>>]
    /\ sessions = <<>> /\ session = [m \in Managers |-> NoSession]
    /\ window = [running |-> FALSE, idx |-> 0, advancing |-> FALSE]
    /\ file = NoFile
    /\ toDynamo = [m \in Managers |-> <<>>] /\ toIometer = [m \in Managers |-> <<>>]
    /\ dynamo = [m \in Managers |-> Down] /\ logins = [m \in Managers |-> 0]
    /\ events = 0

-------------------------------------------------------------------------------
(* QtDySession's test control, as functions of the session's state: what   *)
(* it becomes and what it sends.                                           *)

Do(s, out) == [session |-> s, out |-> out]

BeginStartSequence(s) ==
    Do([s EXCEPT !.active = Len(s.workers), !.state = "WaitStartReply"],
       <<Cmd("START", 0)>>)

BeginSetupWorker(s, i) ==
    IF i >= Len(s.workers) THEN BeginStartSequence(s)
    ELSE Do([s EXCEPT !.setup = i, !.state = "SetupAccess"], <<Cmd("SET_ACCESS", i)>>)

DefaultWorkers(m) == [i \in 1 .. Processors[m] |-> i - 1]

\* The workers of m that the engine has in its pool.
WorkersOf(m) == IF m \in DOMAIN pool THEN pool[m] ELSE <<>>

\* list: the engine's workers of all managers, as <<manager, place in the pool>>;
\* those of one manager are its first ones.
SessionStartTest(m, s, list) ==
    LET own == {i \in DOMAIN WorkersOf(m) : <<m, i>> \in list}
        mine == IF list = {} THEN s.workers ELSE SubSeq(WorkersOf(m), 1, Cardinality(own))
        used == IF mine = <<>> THEN DefaultWorkers(m) ELSE mine
    IN IF s.state # "Ready" THEN Do(s, <<>>)
       ELSE BeginSetupWorker(
                [s EXCEPT !.stop = FALSE, !.pending = <<>>, !.workers = used], 0)

Mutant_SessionStopTest(s) ==
    IF s.state \in Updating \cup {"Running"}
    THEN Do([s EXCEPT !.state = "WaitRecordOff"], <<Cmd("RECORD_OFF", 0)>>)
    ELSE Do(s, <<>>)

SessionStopTest(s) ==
    IF s.state \in Updating THEN Do([s EXCEPT !.stop = TRUE], <<>>)
    ELSE IF s.state = "Running"
    THEN Do([s EXCEPT !.state = "WaitRecordOff"], <<Cmd("RECORD_OFF", 0)>>)
    ELSE Do(s, <<>>)

-------------------------------------------------------------------------------
(* The engine and its TestRunner, as functions of the engine, the sessions *)
(* and what they sent.                                                     *)

Here == [engine |-> engine, session |-> session, out |-> toDynamo]

\* A session writes only while its main socket is connected.
Written(q, m, out) == IF dynamo[m].up THEN q \o out ELSE q

\* Each session of m_sessions does A.
EachSession(h, A(_, _)) ==
    LET did == [m \in Managers |-> IF m \in Present THEN A(m, h.session[m])
                                   ELSE Do(h.session[m], <<>>)]
    IN [h EXCEPT !.session = [m \in Managers |-> did[m].session],
                 !.out = [m \in Managers |-> Written(h.out[m], m, did[m].out)]]

\* The pool's workers in the order of the sessions, and of these the first Batch.
AllWorkers ==
    LET all == UNION {{m} \X DOMAIN WorkersOf(m) : m \in Present}
        place(m) == CHOOSE i \in DOMAIN sessions : sessions[i] = m
        before(w) == {v \in all : \/ place(v[1]) < place(w[1])
                                  \/ v[1] = w[1] /\ v[2] < w[2]}
    IN IF Batch = 0 THEN all ELSE {w \in all : Cardinality(before(w)) < Batch}

\* TestRunner::startTest refuses a test that is not its first, or without
\* workers, and is then in Error.
RunnerStarts(h) == h.engine.runner = "Idle" /\ AllWorkers # {}

EngineStartTest(h) ==
    IF h.engine.running \/ sessions = <<>> THEN h
    ELSE IF ~RunnerStarts(h)
    THEN [h EXCEPT !.engine.runner = "Error", !.engine.saved = {}]
    ELSE EachSession([h EXCEPT !.engine.running = TRUE, !.engine.runner = "Running",
                               !.engine.saved = {}],
                     LAMBDA m, s : SessionStartTest(m, s, AllWorkers))

\* QtMainWindow follows testStarted and testStopped.
Started(h, h2) == h2.engine.running /\ ~h.engine.running

RunnerStops(runner) == IF runner \in {"Idle", "Error"} THEN runner ELSE "Stopped"

\* stopTest (which calls TestRunner::stopTest) and stopAll, up to testStopped:
\* what is saved, for saveBatchResults, is what was collected until then.
EngineStops(h) ==
    LET h2 == EachSession(h, LAMBDA m, s : SessionStopTest(s))
    IN [h2 EXCEPT !.engine.running = FALSE, !.engine.runner = RunnerStops(h.engine.runner),
                  !.engine.saved = h.engine.current]

\* rebuildManagers: the sessions that are ready or running, with their workers.
Rebuilt(order, ss) ==
    [m \in {m \in ToSet(order) : ss[m].state \in Updating \cup {"Ready", "Running"}}
        |-> ss[m].workers]

Mutant_Merged(ss) ==
    UNION {ToSet(ss[m].pending) : m \in {m \in Present : ss[m].state # "Ready"}}

\* onSessionResults: what the sessions have collected so far.
Merged(ss) == UNION {ToSet(ss[m].pending) : m \in Present}

\* The window's onResultsUpdated: a row for each.
Rows(current) == IF file.open THEN [file EXCEPT !.rows = @ \cup current] ELSE file

ShowResults ==
    /\ engine' = [engine EXCEPT !.current = Merged(session')]
    /\ file' = Rows(Merged(session'))

-------------------------------------------------------------------------------
(* The window. *)

Install(h) == engine' = h.engine /\ session' = h.session /\ toDynamo' = h.out

\* The file dialog: cancelled, or a file that is created anew, or cannot be.
OnStart ==
    LET h == EngineStartTest(Here) IN
    /\ ~window.running
    /\ file' \in {file, [open |-> TRUE, rows |-> {}], NoFile}
    /\ Install(h)
    /\ window' = [running |-> Started(Here, h), idx |-> 0, advancing |-> FALSE]
    /\ UNCHANGED <<pool, sessions, toIometer, dynamo, logins, events>>

\* onTestStopped: on to the next spec, staying in the running state, or the
\* end of the run, and of the results file.
OnTestStopped(h, advancing) ==
    IF advancing /\ window.idx + 1 < Queue
    THEN /\ Install(EngineStartTest(h))
         /\ window' = [window EXCEPT !.idx = @ + 1, !.advancing = FALSE]
         /\ UNCHANGED file
    ELSE /\ Install(h)
         /\ file' = NoFile
         /\ window' = [running |-> FALSE, idx |-> 0, advancing |-> FALSE]

OnStop ==
    /\ window.running
    /\ IF engine.running THEN OnTestStopped(EngineStops(Here), TRUE)
       ELSE /\ window' = [window EXCEPT !.advancing = TRUE]
            /\ UNCHANGED <<shown, session, toDynamo>>
    /\ UNCHANGED <<pool, sessions, toIometer, dynamo, logins, events>>

OnStopAll ==
    /\ window.running /\ (Queue > 1 \/ Cardinality(Managers) > 1)
    /\ OnTestStopped(EngineStops(Here), FALSE)
    /\ UNCHANGED <<pool, sessions, toIometer, dynamo, logins, events>>

OnNew ==
    /\ ~window.running /\ sessions # <<>>
    /\ engine' = [engine EXCEPT !.running = FALSE, !.runner = RunnerStops(@), !.current = {}]
    /\ pool' = [m \in {} |-> <<>>] /\ sessions' = <<>>
    /\ session' = [m \in Managers |-> NoSession]
    /\ toDynamo' = [m \in Managers |-> <<>>] /\ toIometer' = [m \in Managers |-> <<>>]
    /\ dynamo' = [m \in Managers |-> IF m \in Present THEN Down ELSE dynamo[m]]
    /\ UNCHANGED <<window, file, logins, events>>

\* onNewDiskWorker numbers the worker one past the count; WorkerPool refuses
\* an id it has.
AddWorker(m) ==
    LET w == Len(pool[m]) + 1 IN
    /\ events < MaxEvents /\ events' = events + 1
    /\ ~window.running /\ m \in DOMAIN pool
    /\ Len(pool[m]) < MaxWorkers /\ w \notin ToSet(pool[m])
    /\ pool' = [pool EXCEPT ![m] = Append(@, w)]
    /\ UNCHANGED <<shown, sessions, session, window, net>>

RemoveWorker(m, i) ==
    /\ events < MaxEvents /\ events' = events + 1
    /\ ~window.running /\ m \in DOMAIN pool /\ i \in DOMAIN pool[m]
    /\ pool' = [pool EXCEPT ![m] = RemoveAt(@, i)]
    /\ UNCHANGED <<shown, sessions, session, window, net>>

\* disconnectManager: stopTest and EXIT for all workers.
DisconnectManager(m) ==
    LET did == SessionStopTest(session[m]) IN
    /\ events < MaxEvents /\ events' = events + 1
    /\ ~window.running /\ m \in DOMAIN pool /\ m \in Present
    /\ session' = [session EXCEPT ![m] = did.session]
    /\ toDynamo' = [toDynamo EXCEPT ![m] = Written(@, m, Append(did.out, Cmd("EXIT", 0)))]
    /\ UNCHANGED <<shown, pool, sessions, window, toIometer, dynamo, logins>>

-------------------------------------------------------------------------------
(* The sessions' handlers of what arrives. *)

\* The session's state is from and a message of the size it waits for is there.
Arrived(m, from, bytes) ==
    /\ session[m].state = from
    /\ toIometer[m] # <<>> /\ Head(toIometer[m]).bytes = bytes

\* It takes the message, becomes s and sends out.
Takes(m, s, out) ==
    /\ session' = [session EXCEPT ![m] = s]
    /\ toIometer' = [toIometer EXCEPT ![m] = Tail(@)]
    /\ toDynamo' = [toDynamo EXCEPT ![m] = Written(@, m, out)]
    /\ UNCHANGED <<sessions, window, dynamo, logins, events>>

At(m, state) == [session[m] EXCEPT !.state = state]

\* Handlers that only move on, with the command each sends.
Moves(m, from, bytes, to, out) ==
    Arrived(m, from, bytes) /\ Takes(m, At(m, to), out) /\ UNCHANGED <<shown, pool>>

ProcessLoginMsg(m) ==
    Moves(m, "WaitLoginMsg", "msg", IF dynamo[m].old THEN "Error" ELSE "WaitLoginData", <<>>)

\* The login socket is done; Iometer connects to the Dynamo's own port.
ProcessLoginData(m) == Moves(m, "WaitLoginData", "data", "Connecting", <<>>)

OnMainConnected(m) ==
    /\ session[m].state = "Connecting" /\ dynamo[m].up
    /\ session' = [session EXCEPT ![m].state = "WaitTargetsDisk"]
    /\ toDynamo' = [toDynamo EXCEPT ![m] = Append(@, Cmd("REPORT_TARGETS", 0))]
    /\ UNCHANGED <<shown, pool, sessions, window, toIometer, dynamo, logins, events>>

ProcessTargetList(m) ==
    \/ Moves(m, "WaitTargetsDisk", "data", "WaitTargetsTcp", <<>>)
    \/ Moves(m, "WaitTargetsTcp", "data", "WaitTargetsVi", <<>>)
    \/ /\ Arrived(m, "WaitTargetsVi", "data")
       /\ Takes(m, [At(m, "WaitAddWorkers") EXCEPT !.workers = DefaultWorkers(m)],
                <<Cmd("ADD_WORKERS", Processors[m])>>)
       /\ UNCHANGED <<shown, pool>>

\* managerConnected: onSessionConnected rebuilds the pool.
ProcessAddWorkersReply(m) ==
    /\ Arrived(m, "WaitAddWorkers", "msg")
    /\ Takes(m, At(m, "Ready"), <<>>)
    /\ pool' = Rebuilt(sessions, session')
    /\ UNCHANGED shown

ProcessSetAccessReply(m) ==
    Moves(m, "SetupAccess", "msg", "SetupTargetsReply",
          <<Cmd("SET_TARGETS", session[m].setup)>>)

ProcessSetTargetsReply(m) == Moves(m, "SetupTargetsReply", "msg", "SetupTargetsData", <<>>)

ProcessSetTargetsData(m) ==
    LET did == BeginSetupWorker(session[m], session[m].setup + 1) IN
    /\ Arrived(m, "SetupTargetsData", "data")
    /\ Takes(m, did.session, did.out)
    /\ UNCHANGED <<shown, pool>>

ProcessStartReply(m) ==
    Moves(m, "WaitStartReply", "msg", "WaitBeginIoReply", <<Cmd("BEGIN_IO", 0)>>)

ProcessBeginIoReply(m) ==
    Moves(m, "WaitBeginIoReply", "msg", "Running", <<Cmd("RECORD_ON", 0)>>)

OnUpdateTimer(m) ==
    /\ session[m].state = "Running"
    /\ session' = [session EXCEPT ![m] =
          [At(m, "WaitUpdateMgr") EXCEPT !.result = 0, !.pending = <<>>]]
    /\ toDynamo' = [toDynamo EXCEPT ![m] = Written(@, m, <<Cmd("REPORT_UPDATE", 0)>>)]
    /\ UNCHANGED <<shown, pool, sessions, window, toIometer, dynamo, logins, events>>

ProcessUpdateMgr(m) == Moves(m, "WaitUpdateMgr", "data", "WaitUpdateWorker", <<>>)

\* The name of the worker the next result is taken for: none when there are
\* more results than workers.
Name(s) == IF s.result < Len(s.workers) THEN s.workers[s.result + 1] ELSE MaxWorkers + 1

Collected(m) ==
    LET s == session[m]
        r == [manager |-> m, worker |-> Name(s), grunt |-> Head(toIometer[m]).grunt,
              of |-> Head(toIometer[m]).of]
    IN [s EXCEPT !.pending = Append(@, r), !.result = @ + 1]

Mutant_ProcessUpdateWorker(m) ==
    LET s == Collected(m)
        last == s.result >= s.active
    IN
    /\ Arrived(m, "WaitUpdateWorker", "data")
    /\ Takes(m, IF last THEN [s EXCEPT !.state = "Running"] ELSE s, <<>>)
    /\ IF last THEN ShowResults ELSE UNCHANGED shown
    /\ UNCHANGED pool

ProcessUpdateWorker(m) ==
    LET s == Collected(m)
        last == s.result >= s.active
        did == IF ~last THEN Do(s, <<>>)
               ELSE IF s.stop THEN SessionStopTest([s EXCEPT !.state = "Running", !.stop = FALSE])
               ELSE Do([s EXCEPT !.state = "Running"], <<>>)
    IN
    /\ Arrived(m, "WaitUpdateWorker", "data")
    /\ Takes(m, did.session, did.out)
    /\ IF last /\ ~s.stop THEN ShowResults ELSE UNCHANGED shown
    /\ UNCHANGED pool

ProcessRecordOffReply(m) ==
    Moves(m, "WaitRecordOff", "msg", "WaitStop", <<Cmd("STOP", 0)>>)

Mutant_ProcessStopReply(m) ==
    /\ Arrived(m, "WaitStop", "msg")
    /\ Takes(m, [At(m, "WaitFinalMgr") EXCEPT !.result = 0], <<Cmd("REPORT_RESULTS", 0)>>)
    /\ UNCHANGED <<shown, pool>>

ProcessStopReply(m) ==
    /\ Arrived(m, "WaitStop", "msg")
    /\ Takes(m, [At(m, "WaitFinalMgr") EXCEPT !.result = 0, !.pending = <<>>],
             <<Cmd("REPORT_RESULTS", 0)>>)
    /\ UNCHANGED <<shown, pool>>

ProcessFinalMgr(m) == Moves(m, "WaitFinalMgr", "data", "WaitFinalWorker", <<>>)

ProcessFinalWorker(m) ==
    LET s == Collected(m)
        last == s.result >= s.active
    IN
    /\ Arrived(m, "WaitFinalWorker", "data")
    /\ Takes(m, IF last THEN [s EXCEPT !.state = "Ready"] ELSE s, <<>>)
    /\ IF last THEN ShowResults ELSE UNCHANGED shown
    /\ UNCHANGED pool

\* onMainDisconnected and onSessionDisconnected.  Before the main socket is
\* there, nothing tells the session.
Disconnect(m) ==
    LET left == RemoveFirst(sessions, m) IN
    /\ m \in Present /\ ~dynamo[m].up
    /\ session[m].state \notin {"WaitLoginMsg", "WaitLoginData", "Connecting", "Error"}
    /\ sessions' = left
    /\ session' = [session EXCEPT ![m] = NoSession]
    /\ pool' = Rebuilt(left, session)
    /\ toIometer' = [toIometer EXCEPT ![m] = <<>>]
    /\ toDynamo' = [toDynamo EXCEPT ![m] = <<>>]
    /\ UNCHANGED <<shown, window, dynamo, logins, events>>

-------------------------------------------------------------------------------
(* A Dynamo: Manager::Login, Manager::Run and Process_Message. *)

\* onNewConnection: the session exists as soon as the login socket does.
Login(m) ==
    /\ ~dynamo[m].up /\ m \notin Present /\ logins[m] < MaxLogins
    /\ \E old \in BOOLEAN : dynamo' = [dynamo EXCEPT ![m] = [Down EXCEPT !.up = TRUE, !.old = old]]
    /\ toIometer' = [toIometer EXCEPT ![m] = <<Short("LOGIN"), Long("manager info", 0)>>]
    /\ sessions' = Append(sessions, m)
    /\ session' = [session EXCEPT ![m] = NewSession]
    /\ logins' = [logins EXCEPT ![m] = @ + 1]
    /\ UNCHANGED <<shown, pool, window, toDynamo, events>>

\* Report_Results: one message for the manager and one for each grunt that
\* has targets.
Report(d, of) ==
    LET grunts == {g \in 0 .. d.workers - 1 : g \in d.ready}
        nth(i) == CHOOSE g \in grunts : Cardinality({h \in grunts : h < g}) = i - 1
    IN <<Long("manager results", 0)>> \o [i \in 1 .. Cardinality(grunts) |-> Long(of, nth(i))]

Replies(d, c) ==
    CASE c.purpose = "REPORT_TARGETS" -> <<Long("disks", 0), Long("TCP", 0), Long("VI", 0)>>
      [] c.purpose = "SET_TARGETS"    -> <<Short("SET_TARGETS"), Long("targets", 0)>>
      [] c.purpose = "REPORT_UPDATE"  -> Report(d, "update")
      [] c.purpose = "REPORT_RESULTS" -> Report(d, "results")
      [] c.purpose \in {"RECORD_ON", "EXIT"} -> <<>>
      [] OTHER -> <<Short(c.purpose)>>

Modes == [START |-> "started", BEGIN_IO |-> "io", RECORD_ON |-> "recording",
          RECORD_OFF |-> "io", STOP |-> "idle"]

\* The effect of a command on the grunts.
Served(m, d, c) ==
    CASE c.purpose = "ADD_WORKERS" -> [d EXCEPT !.workers = @ + c.n]
      [] c.purpose = "SET_TARGETS" ->
            [d EXCEPT !.ready = IF m \in Disks THEN @ \cup {c.n} ELSE @ \ {c.n}]
      [] c.purpose \in DOMAIN Modes -> [d EXCEPT !.mode = Modes[c.purpose]]
      [] c.purpose = "EXIT" -> [d EXCEPT !.workers = 0, !.ready = {}]
      [] OTHER -> d

\* Undefined: grunts[i] of a grunt that is not there, and the deletion of one
\* whose threads run.  The process ends, or, of the second, goes on.
NoGrunt(m)  == /\ toDynamo[m] # <<>>
               /\ Head(toDynamo[m]).purpose \in {"SET_ACCESS", "SET_TARGETS"}
               /\ Head(toDynamo[m]).n >= dynamo[m].workers
InUse(m)    == /\ toDynamo[m] # <<>>
               /\ Head(toDynamo[m]).purpose = "EXIT" /\ dynamo[m].mode # "idle"

Serve(m) ==
    LET c == Head(toDynamo[m]) IN
    /\ dynamo[m].up /\ toDynamo[m] # <<>> /\ ~NoGrunt(m)
    /\ dynamo' = [dynamo EXCEPT ![m] = Served(m, @, c)]
    /\ toIometer' = [toIometer EXCEPT ![m] = @ \o Replies(dynamo[m], c)]
    /\ toDynamo' = [toDynamo EXCEPT ![m] = Tail(@)]
    /\ UNCHANGED <<shown, pool, sessions, session, window, logins, events>>

\* The process ends: of a crash, or of a command it cannot serve.
Dies(m) ==
    /\ dynamo[m].up
    /\ \/ (NoGrunt(m) \/ InUse(m)) /\ UNCHANGED events
       \/ events < MaxEvents /\ events' = events + 1
    /\ dynamo' = [dynamo EXCEPT ![m] = Down]
    /\ toDynamo' = [toDynamo EXCEPT ![m] = <<>>]
    /\ UNCHANGED <<shown, pool, sessions, session, window, toIometer, logins>>

-------------------------------------------------------------------------------

Handle(m) ==
    \/ ProcessLoginMsg(m) \/ ProcessLoginData(m) \/ OnMainConnected(m)
    \/ ProcessTargetList(m) \/ ProcessAddWorkersReply(m)
    \/ ProcessSetAccessReply(m) \/ ProcessSetTargetsReply(m) \/ ProcessSetTargetsData(m)
    \/ ProcessStartReply(m) \/ ProcessBeginIoReply(m)
    \/ ProcessUpdateMgr(m) \/ ProcessUpdateWorker(m)
    \/ ProcessRecordOffReply(m) \/ ProcessStopReply(m)
    \/ ProcessFinalMgr(m) \/ ProcessFinalWorker(m)
    \/ Disconnect(m)

User == \/ OnStart \/ OnStop \/ OnStopAll \/ OnNew
        \/ \E m \in Managers : AddWorker(m) \/ DisconnectManager(m)
        \/ \E m \in Managers, i \in 1 .. MaxWorkers : RemoveWorker(m, i)

Next == \/ User
        \/ \E m \in Managers : \/ Handle(m) \/ OnUpdateTimer(m)
                               \/ Login(m) \/ Serve(m) \/ Dies(m)

Spec == Init /\ [][Next]_vars

\* The event loop delivers what arrived, and a Dynamo serves what it is sent.
Fairness == \A m \in Managers : WF_vars(Handle(m)) /\ WF_vars(Serve(m))

FairSpec == Spec /\ Fairness

-------------------------------------------------------------------------------
(* Properties. *)

Result == [manager : Managers, worker : Nat, grunt : Nat, of : {"update", "results"}]

TypeOK ==
    /\ engine.running \in BOOLEAN
    /\ engine.runner \in {"Idle", "Running", "Stopped", "Error"}
    /\ {engine.current, engine.saved, file.rows} \subseteq SUBSET Result
    /\ file.open \in BOOLEAN
    /\ sessions \in Seq(Managers) /\ IsInjective(sessions)
    /\ DOMAIN pool \subseteq Managers
    /\ \A m \in DOMAIN pool : pool[m] \in Seq(Nat)
    /\ \A m \in Managers :
          /\ session[m].state \in State
          /\ m \notin Present => session[m] = NoSession
          /\ session[m].pending \in Seq(Result)
          /\ session[m].result <= session[m].active
    /\ engine.running = (engine.runner = "Running")

\* A session's bytes stay in step with its Dynamo: the next message that has
\* arrived is an answer its state waits for, and the next command on its way
\* is one the Dynamo's test is ready for.
Awaited ==
    [WaitLoginMsg |-> "LOGIN", WaitLoginData |-> "manager info",
     WaitTargetsDisk |-> "disks", WaitTargetsTcp |-> "TCP", WaitTargetsVi |-> "VI",
     WaitAddWorkers |-> "ADD_WORKERS", SetupAccess |-> "SET_ACCESS",
     SetupTargetsReply |-> "SET_TARGETS", SetupTargetsData |-> "targets",
     WaitStartReply |-> "START", WaitBeginIoReply |-> "BEGIN_IO",
     WaitUpdateMgr |-> "manager results", WaitUpdateWorker |-> "update",
     WaitRecordOff |-> "RECORD_OFF", WaitStop |-> "STOP",
     WaitFinalMgr |-> "manager results", WaitFinalWorker |-> "results"]

Needs == [START |-> "idle", BEGIN_IO |-> "started", RECORD_ON |-> "io",
          RECORD_OFF |-> "recording", STOP |-> "io", REPORT_UPDATE |-> "recording",
          REPORT_RESULTS |-> "idle", SET_ACCESS |-> "idle", SET_TARGETS |-> "idle"]

InStep ==
    \A m \in Present :
        /\ toIometer[m] # <<>> /\ session[m].state # "Error" =>
              /\ session[m].state \in DOMAIN Awaited
              /\ Head(toIometer[m]).of = Awaited[session[m].state]
        /\ toDynamo[m] # <<>> /\ Head(toDynamo[m]).purpose \in DOMAIN Needs =>
              dynamo[m].mode = Needs[Head(toDynamo[m]).purpose]

\* A result is reported for the worker whose targets the grunt it came from
\* was given, and a test's final results are those of every worker of it.
Attributed ==
    \A m \in Present :
        LET s == session[m] IN
        /\ \A i \in DOMAIN s.pending : /\ s.pending[i].grunt = i - 1
                                       /\ s.pending[i].worker = s.workers[i]
        /\ s.state = "Ready" /\ s.pending # <<>> =>
              /\ Len(s.pending) = Len(s.workers)
              /\ \A i \in DOMAIN s.pending : s.pending[i].of = "results"

\* What the window shows has the last update of every session that waits for its
\* next, and the final results of every one that has finished, whatever the others
\* go on to report.  While a test runs, its results file has a row for each result
\* shown.  Nothing is said of final results in a file: the window closes its own
\* at the stop, and what the engine saves then is what the batch mode writes, both
\* before the first final result is there.
FinalsShown ==
    /\ \A m \in Present : session[m].state \in {"Running", "Ready"} =>
          ToSet(session[m].pending) \subseteq engine.current
    /\ engine.running /\ file.open => engine.current \subseteq file.rows

\* A session that was asked to stop its test, or to stop after the update it
\* is in, gets to its final results, or its Dynamo is lost, or has no worker
\* with a target left to report.
Asked(m) == session[m].stop \/ session[m].state \in Stopping
StopEnds ==
    \A m \in Managers :
        Asked(m) ~> (session[m].state \in {"Ready", "Disconnected"} \/ dynamo[m].ready = {})
===============================================================================
