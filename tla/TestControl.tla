----------------------------- MODULE TestControl ------------------------------
(***************************************************************************)
(* How Iometer runs a test on several Dynamo managers: the calls of        *)
(* GalileoView.cpp (StartTest, StartRecording, StopTest, TestDone), each   *)
(* of them a round of messages to the active managers in turn              *)
(* (ManagerList.cpp), the managers' message loop (IOManager.cpp) and the   *)
(* grunts' side of every command (IOGrunt.cpp), whose threads open their   *)
(* targets, perform I/O until told to stop and close them again.           *)
(*                                                                         *)
(* What a thread does while it performs I/O is the subject of GruntIO.     *)
(***************************************************************************)
EXTENDS Integers, Sequences, FiniteSets

CONSTANTS
    M,          \* the number of managers
    W,          \* the number of workers
    ManagerOf,  \* the manager of each worker
    Role,       \* the parts a worker may have in a test: "io", or none because
                \* it has the Idle specification ("idle"), no specification at
                \* all ("none") or no active targets ("benched")
    MayFail,    \* the workers whose targets may fail to open
    Granted,    \* what SET_ACCESS and SET_TARGETS may answer
    Prompt      \* TRUE: a thread that gave up opening has executed its last
                \* two statements when the next START arrives

Manager == 1 .. M
Worker  == 1 .. W
WorkersOf(m) == {w \in Worker : ManagerOf[w] = m}

ASSUME ControlAssumption ==
    /\ M \in Nat \ {0} /\ W \in Nat \ {0}
    /\ ManagerOf \in [Worker -> Manager]
    /\ Role \subseteq {"io", "idle", "none", "benched"}
    /\ MayFail \subseteq Worker
    /\ Granted \subseteq BOOLEAN
    /\ Prompt \in BOOLEAN

VARIABLES
    \* Iometer
    stage,          \* the call it is in: a message's purpose or a pause
    next,           \* the next recipient of that message
    waiting,        \* a reply is outstanding
    ending,         \* how the test is ending, "no" while it is not
    recording,      \* test_state was TestRecording when StopTest was called
    role,           \* the part of each worker in the current test
    \* the ports
    inbox,          \* messages sent to each manager
    reply,          \* the reply on its way to Iometer, <<>> when none is
    \* the managers
    busy,           \* the handler that waits for its grunts
    begun,          \* the grunts Begin_IO has gone through
    data,           \* msg.data: whether they all opened their targets
    \* the grunts
    idle, targets, critical_error, not_ready, grunt_state,
    thread          \* where each thread of the grunt is

view    == <<stage, next, waiting, ending, recording, role>>
control == <<busy, begun, data>>
flags   == <<critical_error, not_ready, grunt_state>>
setup   == <<idle, targets>>
vars    == <<view, inbox, reply, control, setup, flags, thread>>

-------------------------------------------------------------------------------
(* Who takes part. *)

\* Iometer: Worker::ActiveInCurrentTest and Manager::ActiveInCurrentTest.
ActiveWorker(w)  == role[w] = "io"
ActiveManager(m) == \E w \in WorkersOf(m) : role[w] \in {"io", "idle"}

\* Dynamo: a grunt without targets or with the Idle specification sits the
\* test out.
Plays(w) == targets[w] /\ ~idle[w]

PerWorker == {"SET_ACCESS", "SET_TARGETS"}
Broadcast == {"START", "BEGIN_IO", "RECORD_ON", "RECORD_OFF", "STOP",
              "REPORT_RESULTS", "REPORT_UPDATE"}
Pause     == {"ready", "ramp", "record"}

\* purpose & REPLY_FILTER
NeedsReply(purpose) == purpose # "RECORD_ON"

\* Those who still have to be sent the current message.
Recipients == IF stage \in PerWorker THEN {w \in Worker : w >= next}
              ELSE {m \in Manager : m >= next /\ ActiveManager(m)}

First(S) == CHOOSE x \in S : \A y \in S : x <= y

Enter(s) == /\ stage' = s
            /\ next' = 1
            /\ waiting' = FALSE

Init ==
    /\ stage = "ready" /\ next = 1 /\ waiting = FALSE
    /\ ending = "no" /\ recording = FALSE
    /\ role = [w \in Worker |-> "none"]
    /\ inbox = [m \in Manager |-> <<>>] /\ reply = <<>>
    /\ busy = [m \in Manager |-> "no"] /\ begun = [m \in Manager |-> {}]
    /\ data = [m \in Manager |-> TRUE]
    /\ idle = [w \in Worker |-> FALSE] /\ targets = [w \in Worker |-> FALSE]
    /\ critical_error = [w \in Worker |-> FALSE]
    /\ not_ready = [w \in Worker |-> FALSE]
    /\ grunt_state = [w \in Worker |-> "TestIdle"]
    /\ thread = [w \in Worker |-> [i \in {1, 2} |-> "none"]]

-------------------------------------------------------------------------------
(* Iometer.  Its calls run to completion on the GUI thread; the user and   *)
(* the timers are heard only in between.                                   *)

Dynamo == <<control, setup, flags, thread>>

\* The next test, of those the user set up and the cycling options make.
NextTest ==
    /\ role' \in {r \in [Worker -> Role] : \E w \in Worker : r[w] = "io"}
    /\ ending' = "no" /\ recording' = FALSE
    /\ Enter("SET_ACCESS")

Go ==
    /\ stage = "ready"
    /\ NextTest
    /\ UNCHANGED <<inbox, reply, Dynamo>>

Send ==
    /\ stage \notin Pause /\ ~waiting /\ Recipients # {}
    /\ LET x == First(Recipients)
           m == IF stage \in PerWorker THEN ManagerOf[x] ELSE x
       IN  /\ inbox' = [inbox EXCEPT ![m] = Append(@, [purpose |-> stage, worker |-> x])]
           /\ IF NeedsReply(stage) THEN waiting' = TRUE /\ UNCHANGED next
              ELSE next' = x + 1 /\ UNCHANGED waiting
    /\ UNCHANGED <<stage, ending, recording, role, reply, Dynamo>>

\* A negative reply ends the round.  While a test is being set up it is the
\* end of the testing; while one is being started, it has to be stopped.
Refused ==
    CASE stage \in PerWorker -> Enter("ready") /\ UNCHANGED ending
      [] stage \in {"START", "BEGIN_IO"} -> Enter("STOP") /\ ending' = "error"
      [] OTHER -> next' = M + 1 /\ waiting' = FALSE /\ UNCHANGED <<stage, ending>>

Receive ==
    /\ waiting /\ reply # <<>>
    /\ reply' = <<>>
    /\ IF reply[1].data
       THEN /\ next' = First(Recipients) + 1
            /\ waiting' = FALSE
            /\ UNCHANGED <<stage, ending>>
       ELSE Refused
    /\ UNCHANGED <<recording, role, inbox, Dynamo>>

RoundOver(s) == stage = s /\ ~waiting /\ Recipients = {}

\* From one round of messages to the next.
Continue ==
    /\ \/ RoundOver("SET_ACCESS") /\ Enter("SET_TARGETS")
       \/ RoundOver("SET_TARGETS") /\ Enter("START")
       \/ RoundOver("START") /\ Enter("BEGIN_IO")
       \/ RoundOver("BEGIN_IO") /\ \E s \in {"ramp", "RECORD_ON"} : Enter(s)
       \/ RoundOver("RECORD_ON") /\ Enter("record")
       \/ RoundOver("RECORD_OFF") /\ Enter("STOP")
       \/ RoundOver("STOP") /\ recording /\ Enter("REPORT_RESULTS")
       \/ /\ RoundOver("REPORT_RESULTS")
          /\ Enter(IF ending = "no" THEN "record" ELSE "REPORT_UPDATE")
    /\ UNCHANGED <<ending, recording, role, inbox, reply, Dynamo>>

RampTimer ==
    /\ stage = "ramp"
    /\ Enter("RECORD_ON")
    /\ UNCHANGED <<ending, recording, role, inbox, reply, Dynamo>>

DisplayTimer ==
    /\ stage = "record"
    /\ Enter("REPORT_RESULTS")
    /\ UNCHANGED <<ending, recording, role, inbox, reply, Dynamo>>

\* The test timer, the Stop button or the Stop All button.
StopTest ==
    /\ stage \in {"ramp", "record"}
    /\ ending' \in {"success", "abort"}
    /\ recording' = (stage = "record")
    /\ Enter(IF stage = "record" THEN "RECORD_OFF" ELSE "STOP")
    /\ UNCHANGED <<role, inbox, reply, Dynamo>>

\* The next test is started, if one is left and this one ended normally.
TestDone ==
    /\ \/ RoundOver("REPORT_UPDATE")
       \/ RoundOver("STOP") /\ ~recording
    /\ \/ ending = "success" /\ NextTest
       \/ Enter("ready") /\ ending' = "no" /\ recording' = FALSE /\ UNCHANGED role
    /\ UNCHANGED <<inbox, reply, Dynamo>>

Iometer == Send \/ Receive \/ Continue \/ TestDone

-------------------------------------------------------------------------------
(* A manager: Manager::Run takes one message at a time.                    *)

Takes(m, purpose) ==
    /\ busy[m] = "no"
    /\ inbox[m] # <<>> /\ Head(inbox[m]).purpose = purpose
    /\ inbox' = [inbox EXCEPT ![m] = Tail(@)]

Answers(m, purpose, ok) ==
    reply' = <<[from |-> m, purpose |-> purpose, data |-> ok, results |-> {}]>>

\* f with the value v for the workers in S
Put(f, S, v) == [w \in Worker |-> IF w \in S THEN v ELSE f[w]]

Set_Access(m) ==
    /\ Takes(m, "SET_ACCESS")
    /\ LET w == Head(inbox[m]).worker
       IN  \E ok \in Granted :
               /\ idle' = [idle EXCEPT ![w] = role[w] \in {"idle", "none"}]
               /\ Answers(m, "SET_ACCESS", idle'[w] \/ ok)
    /\ UNCHANGED <<view, control, targets, flags, thread>>

Mutant_Set_Targets(m) ==
    /\ Takes(m, "SET_TARGETS")
    /\ LET w == Head(inbox[m]).worker
       IN  targets' = [targets EXCEPT ![w] = @ \/ role[w] = "io"]
    /\ Answers(m, "SET_TARGETS", TRUE)
    /\ UNCHANGED <<view, control, idle, flags, thread>>

\* The worker's targets are deleted and the active ones created.
Set_Targets(m) ==
    /\ Takes(m, "SET_TARGETS")
    /\ LET w == Head(inbox[m]).worker
       IN  \/ /\ targets' = [targets EXCEPT ![w] = role[w] = "io"]
              /\ Answers(m, "SET_TARGETS", TRUE)
           \/ /\ FALSE \in Granted /\ role[w] = "io"
              /\ \E some \in BOOLEAN : targets' = [targets EXCEPT ![w] = some]
              /\ Answers(m, "SET_TARGETS", FALSE)
    /\ UNCHANGED <<view, control, idle, flags, thread>>

Free(w) == {i \in {1, 2} : thread[w][i] = "none"}

\* A thread is created for every grunt that plays; at most two of a grunt
\* are followed.
Start_Test(m) ==
    /\ Takes(m, "START")
    /\ \A w \in WorkersOf(m) :
           /\ Free(w) # {}
           /\ Prompt => \A i \in {1, 2} : thread[w][i] \notin {"abandoned", "check"}
    /\ LET S == {w \in WorkersOf(m) : Plays(w)}
       IN  /\ critical_error' = Put(critical_error, WorkersOf(m), FALSE)
           /\ not_ready' = Put(not_ready, S, TRUE)
           /\ grunt_state' = Put(grunt_state, S, "TestOpening")
           /\ thread' = [w \in Worker |->
                             IF w \in S THEN [thread[w] EXCEPT ![First(Free(w))] = "open"]
                             ELSE thread[w]]
    /\ Answers(m, "START", TRUE)
    /\ UNCHANGED <<view, control, setup>>

Begin_IO(m) ==
    /\ Takes(m, "BEGIN_IO")
    /\ busy' = [busy EXCEPT ![m] = "BEGIN_IO"]
    /\ begun' = [begun EXCEPT ![m] = {}]
    /\ data' = [data EXCEPT ![m] = TRUE]
    /\ UNCHANGED <<view, reply, setup, flags, thread>>

Mutant_Opened(w) == TRUE

\* while (not_ready)
Opened(w) == ~not_ready[w]

\* Grunt::Begin_IO of the next grunt
Begin_Grunt(m) ==
    /\ busy[m] = "BEGIN_IO" /\ begun[m] # WorkersOf(m)
    /\ LET w == First(WorkersOf(m) \ begun[m])
       IN  /\ Plays(w) => Opened(w)
           /\ begun' = [begun EXCEPT ![m] = @ \cup {w}]
           /\ data' = [data EXCEPT ![m] = @ /\ ~critical_error[w]]
           /\ grunt_state' = IF Plays(w) THEN [grunt_state EXCEPT ![w] = "TestRampingUp"]
                             ELSE grunt_state
    /\ UNCHANGED <<view, inbox, reply, busy, setup, critical_error, not_ready, thread>>

Begun_IO(m) ==
    /\ busy[m] = "BEGIN_IO" /\ begun[m] = WorkersOf(m)
    /\ busy' = [busy EXCEPT ![m] = "no"]
    /\ Answers(m, "BEGIN_IO", data[m])
    /\ UNCHANGED <<view, inbox, begun, data, setup, flags, thread>>

\* The grunts of m that the commands below apply to
Running(m) == {w \in WorkersOf(m) : Plays(w) /\ ~critical_error[w]}

Record_On(m) ==
    /\ Takes(m, "RECORD_ON")
    /\ grunt_state' = Put(grunt_state, Running(m), "TestRecording")
    /\ UNCHANGED <<view, reply, control, setup, critical_error, not_ready, thread>>

Record_Off(m) ==
    /\ Takes(m, "RECORD_OFF")
    /\ grunt_state' = Put(grunt_state, Running(m), "TestRampingDown")
    /\ Answers(m, "RECORD_OFF", TRUE)
    /\ UNCHANGED <<view, control, setup, critical_error, not_ready, thread>>

Mutant_Stop_Test(m) ==
    /\ Takes(m, "STOP")
    /\ grunt_state' = Put(grunt_state, Running(m), "TestIdle")
    /\ busy' = [busy EXCEPT ![m] = "STOP"]
    /\ UNCHANGED <<view, reply, begun, data, setup, critical_error, not_ready, thread>>

Stop_Test(m) ==
    /\ Takes(m, "STOP")
    /\ not_ready' = Put(not_ready, Running(m), TRUE)
    /\ grunt_state' = Put(grunt_state, Running(m), "TestIdle")
    /\ busy' = [busy EXCEPT ![m] = "STOP"]
    /\ UNCHANGED <<view, reply, begun, data, setup, critical_error, thread>>

Mutant_Wait_For_Stop(m) ==
    /\ busy[m] = "STOP"
    /\ busy' = [busy EXCEPT ![m] = "no"]
    /\ Answers(m, "STOP", TRUE)
    /\ UNCHANGED <<view, inbox, begun, data, setup, flags, thread>>

Wait_For_Stop(m) ==
    /\ busy[m] = "STOP"
    /\ \A w \in WorkersOf(m) : Plays(w) => ~not_ready[w]
    /\ busy' = [busy EXCEPT ![m] = "no"]
    /\ Answers(m, "STOP", TRUE)
    /\ UNCHANGED <<view, inbox, begun, data, setup, flags, thread>>

\* One message for the manager and one for each grunt that plays.
Report_Results(m, purpose) ==
    /\ Takes(m, purpose)
    /\ reply' = <<[from |-> m, purpose |-> purpose, data |-> TRUE,
                   results |-> {w \in WorkersOf(m) : Plays(w)}]>>
    /\ UNCHANGED <<view, control, setup, flags, thread>>

ManagerStep(m) ==
    \/ Set_Access(m) \/ Set_Targets(m) \/ Start_Test(m)
    \/ Begin_IO(m) \/ Begin_Grunt(m) \/ Begun_IO(m)
    \/ Record_On(m) \/ Record_Off(m) \/ Stop_Test(m) \/ Wait_For_Stop(m)
    \/ \E purpose \in {"REPORT_RESULTS", "REPORT_UPDATE"} : Report_Results(m, purpose)

-------------------------------------------------------------------------------
(* The threads: Grunt_Thread_Wrapper. *)

At(w, i, here, there) ==
    /\ thread[w][i] = here
    /\ thread' = [thread EXCEPT ![w][i] = there]
    /\ UNCHANGED <<view, inbox, reply, control, setup, grunt_state>>

Open_Targets(w, i) ==
    /\ At(w, i, "open", "check")
    /\ not_ready' = [not_ready EXCEPT ![w] = FALSE]
    /\ UNCHANGED critical_error

\* A target could not be opened: those that were are closed again by
\* Close_Targets, which clears not_ready; then Open_Targets clears it too.
Open_Failed(w, i) ==
    /\ w \in MayFail
    /\ At(w, i, "open", "abandon")
    /\ critical_error' = [critical_error EXCEPT ![w] = TRUE]
    /\ UNCHANGED not_ready

Abandon(w, i) ==
    /\ \/ At(w, i, "abandon", "abandoned") \/ At(w, i, "abandoned", "check")
    /\ not_ready' = [not_ready EXCEPT ![w] = FALSE]
    /\ UNCHANGED critical_error

\* If open failed, abort.
CheckOpened(w, i) ==
    /\ At(w, i, "check", IF critical_error[w] THEN "none" ELSE "io")
    /\ UNCHANGED <<critical_error, not_ready>>

Do_IOs(w, i) ==
    /\ grunt_state[w] = "TestIdle"
    /\ At(w, i, "io", "close")
    /\ UNCHANGED <<critical_error, not_ready>>

Mutant_Close_Targets(w, i) ==
    /\ At(w, i, "close", "none")
    /\ UNCHANGED <<critical_error, not_ready>>

Close_Targets(w, i) ==
    /\ At(w, i, "close", "none")
    /\ not_ready' = [not_ready EXCEPT ![w] = FALSE]
    /\ UNCHANGED critical_error

ThreadStep(w, i) ==
    \/ Open_Targets(w, i) \/ Open_Failed(w, i) \/ Abandon(w, i)
    \/ CheckOpened(w, i) \/ Do_IOs(w, i) \/ Close_Targets(w, i)

-------------------------------------------------------------------------------
User == Go \/ RampTimer \/ DisplayTimer \/ StopTest

Next == \/ User \/ Iometer
        \/ \E m \in Manager : ManagerStep(m)
        \/ \E w \in Worker, i \in {1, 2} : ThreadStep(w, i)

Spec == Init /\ [][Next]_vars

(***************************************************************************)
(* Fairness: the processes and threads are scheduled, and a grunt thread's *)
(* I/O ends once it has been told to stop (GruntIO's StopTerminates).  The *)
(* user and the timers may stay silent for ever.                           *)
(***************************************************************************)
FairSpec == /\ Spec
            /\ WF_vars(Iometer)
            /\ \A m \in Manager : WF_vars(ManagerStep(m))
            /\ \A w \in Worker, i \in {1, 2} : WF_vars(ThreadStep(w, i))

-------------------------------------------------------------------------------
(* Properties *)

Threads(w, places) == {i \in {1, 2} : thread[w][i] \in places}
UsesTargets == {"open", "abandon", "io", "close"}

\* The types of the variables.  A manager never has more than RECORD_ON, the
\* one message without a reply, and one other message to read.
TypeOK ==
    /\ stage \in PerWorker \cup Broadcast \cup Pause
    /\ next \in Nat /\ waiting \in BOOLEAN
    /\ ending \in {"no", "success", "error", "abort"} /\ recording \in BOOLEAN
    /\ role \in [Worker -> {"io", "idle", "none", "benched"}]
    /\ \A m \in Manager : Len(inbox[m]) <= 2
    /\ Len(reply) <= 1
    /\ busy \in [Manager -> {"no", "BEGIN_IO", "STOP"}]
    /\ begun \in [Manager -> SUBSET Worker] /\ data \in [Manager -> BOOLEAN]
    /\ idle \in [Worker -> BOOLEAN] /\ targets \in [Worker -> BOOLEAN]
    /\ critical_error \in [Worker -> BOOLEAN] /\ not_ready \in [Worker -> BOOLEAN]
    /\ grunt_state \in [Worker -> {"TestIdle", "TestOpening", "TestRampingUp",
                                   "TestRecording", "TestRampingDown"}]
    /\ thread \in [Worker -> [{1, 2} -> UsesTargets \cup
                                        {"none", "abandoned", "check"}]]

\* No thread uses its grunt's targets, buffers and completion queue while
\* Iometer is idle or sets up the next test: STOP waits "for threads to
\* process stop command", and SET_ACCESS and SET_TARGETS then free them.
TargetsUnused ==
    stage \in PerWorker \cup {"ready"} =>
        \A w \in Worker : Threads(w, UsesTargets) = {}

\* Begin_IO waits "for all threads to finish opening their devices".
BegunMeansOpened ==
    \A w \in Worker :
        grunt_state[w] \in {"TestRampingUp", "TestRecording", "TestRampingDown"} =>
            Threads(w, {"open", "abandon"}) = {}

\* Iometer receives results from exactly the workers it waits for: it counts
\* on its own idea of who is active, the manager on its grunts' targets.
ReportsAgree ==
    reply # <<>> /\ reply[1].purpose \in {"REPORT_RESULTS", "REPORT_UPDATE"} =>
        reply[1].results = {w \in WorkersOf(reply[1].from) : ActiveWorker(w)}

\* The results that are saved, those reported after the test has stopped, do
\* not change any more.
FinalResultsSettled ==
    stage \in {"REPORT_RESULTS", "REPORT_UPDATE"} /\ ending # "no" =>
        \A w \in Worker : Threads(w, UsesTargets) = {}

\* Every round ends: starting a test succeeds or fails, it does not hang, and a test that
\* is being stopped stops.
RoundsEnd ==
    /\ (stage = "SET_ACCESS") ~> (stage \in {"ramp", "record", "ready"})
    /\ (ending # "no") ~> (ending = "no")
===============================================================================
