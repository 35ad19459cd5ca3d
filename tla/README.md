# Iometer and Dynamo in TLA+

Iometer generates disk and network load and measures it. It is two programs.
**Dynamo** (`src/src/IO*.cpp`, `Pulsar.cpp`) runs on every machine under test;
one process is a *manager*, which owns *workers* ("grunts"), each with *targets*
(disks, TCP connections). **Iometer** is the controller and user interface
(`GalileoView.cpp`, `ManagerList.cpp`, `Manager.cpp`, `Worker.cpp`; a Qt version
in `src/src/qt` and `src/src/core`). They talk over two TCP ports per manager,
one message and one reply at a time. Paths below are relative to the
repository's `src/src`.

## Inventory

| Part | State it keeps | Operations | What is hard |
|---|---|---|---|
| Grunt thread (`IOGrunt.cpp`) | ring of available transaction slots, counters of outstanding I/Os, connection state of each target, results | `Do_IOs`, `Complete_IO`, `Record_IO`, `Do_Partial_IO`, `Asynchronous_Delay`, `Open_Targets`, `Close_Targets` | completions in any order, the manager changing `grunt_state` between two reads of it, a ring that is filled from five places |
| Manager thread (`IOManager.cpp`) | grunts, the message being handled | `Process_Message`: LOGIN, ADD_WORKERS, SET_TARGETS, SET_ACCESS, PREP_DISKS, START, BEGIN_IO, RECORD_ON, RECORD_OFF, STOP, REPORT_*, RESET, EXIT | waits on flags that grunt threads write without locks, one flag serving several waits |
| Iometer's test sequence (`GalileoView.cpp`) | `test_state`, timers, which run and which manager is next | `Go`, `StartTest`, `StartRecording`, `StopTest`, `TestDone`, `StopAll`, `OnTimer` | partial failures in a round of messages, two programs with their own idea of who takes part |
| Completion queue (`IOCompletionQ.cpp`, `IOCQAIO.cpp`) | list of elements, position of the round robin, requests done | `ReadFile`, `WriteFile`, `GetQueuedCompletionStatus`, `GetOverlappedResult`, `CloseHandle` | an NT interface on POSIX aio and on libaio, two steps from "finished" to "handed out" |
| Disk preparation (`IOTargetDisk.cpp`, `IOGrunt.cpp`, `IOManager.cpp`, `GalileoView.cpp`) | `not_ready` count, `critical_error`, `disk_info.ready` | `Prepare_Disks`, `Prepare_Disk`, `TargetDisk::Prepare`, `Stop_Prepare`, `DisksNotPrepared`, `PreparedAnswer` | cancellation while writes are outstanding, errors that have to reach Iometer |
| Test series (`GalileoView.cpp`, `Worker.cpp`) | `targets_to_run`, `workers_to_run`, `queue_depth_to_run` and their exponents, active targets, saved depths, `run_count` | `CalcRunCount`, `SetActiveTargets` and the eight methods behind it, `SaveSettings`, `RestoreSettings` | one walk through the series to count it and another to run it, over shared counters |
| Tree of workers (`Manager.cpp`, `Worker.cpp`, `WorkerView.cpp`, `PageNetwork.cpp`) | lists of managers and workers, `net_partner` of network workers, the grunts of each Dynamo | `AddWorker`, `RemoveWorker`, `CreateNetClient`, `RemoveTargets`, `StoreTargetSelection`, `RemoveManager`, ADD_WORKERS, EXIT | deletions that delete others from the list being walked, two lists matched by position |
| Network targets (`NetTCP.cpp`, `IOTargetTCP.cpp`; `NetVI.cpp`, `IOTargetVI.cpp`) | sockets, `lastIO`, outstanding transfers | `Open`, `Close`, `Read`, `Write`, the draws of `Do_IOs` | two ends that agree on every transaction, and on who closes first, without a message; partial transfers, retries, a stop in any of these |
| Login (`GalileoApp.cpp`, `IOManager.cpp`, `ManagerList.cpp`, `IOPortTCP.cpp`) | `login_state`, the login port, the manager list | `OnIdle`, `AddManager`, `RemoveManager`, `Reset`, Dynamo's `Login` and `Run` | one port for all, messages in pieces, a second connection in the other direction, processes that die in between |
| Access specifications (`AccessSpecList.cpp`, `PageAccess.cpp`, `IOAccess.cpp`, `core/AccessSpec*.cpp`) | the list, its defaults, pointers to it in every worker | `New`, `Delete`, `DeleteAll`, `LoadConfig`, assignment, `GetNextBurst` | pointers into a list that is emptied and filled from files |
| Results (`IOPerformance*.cpp`, `core/Results*.cpp`) | counters and snapshots | `UpdateResults`, `Calculate_Results` | copies taken while they change |
| Configuration files (`GalileoView.cpp`, `ManagerList.cpp`, `core/ManagerMap.cpp`, `WaitingForManagers.cpp`, `core/Icf*.cpp`) | the file, who logged in as which manager of it, the list in the dialog that waits | `SaveConfigFile`, `OpenConfigFile`, `LoadConfig` of lists, managers and workers, `ManagerLoggedIn`, `OnTimer`, `OnCancel` | files loaded in place without undo, managers that come late, twice or not at all, clients on managers loaded before or after |
| Qt engine (`qt/QtDynamoEngine.cpp`, `qt/QtMainWindow.cpp`, `core/TestRunner.cpp`, `core/WorkerPool.cpp`) | a state per session, runner, pool of workers, run queue, results | slots driven by sockets, timers and buttons | a second controller for the same Dynamo, which recognises messages by its own state only |
| GUI, discovery of devices per platform | - | - | not modelled: no state of their own that interacts |

How they interact: Iometer sends a round of messages, to each active manager in
turn, and waits for each reply (`ManagerList::SendActiveManagers`). The manager's
thread applies the command to its grunts by writing `grunt_state` and
`not_ready`; the grunt's thread reads the first and clears the second. The grunt
thread alone owns the ring, the counters and the targets while it runs; the
manager frees all of them once it believes the thread has ended. The operating
system returns I/Os to the grunt through the completion queue.

What makes each part correct:

* the grunt: no transaction slot is lost or used twice, the counters it drains
  and closes by are exact, results are counted only from I/Os that belong to the
  recorded period, it reacts to every command and ends when told to stop;
* the manager and its grunts: nothing is freed under a running thread, a test
  begins only when the targets are open, failures of one worker do not block the
  others;
* Iometer and Dynamo: every message has its reply, both agree on who takes part,
  starting and stopping a test end;
* the completion queue: each request has one element and is returned once, after
  its end, with its own outcome;
* the series: the tests that run are the documented ones, as many as were counted,
  and the settings come back;
* login and the tree: the manager list is true, pairs of partners are whole, a
  Dynamo has the grunts the tree says;
* a pair of network workers: both ends mean the same transaction by what they send,
  nothing sent is lost at a close, they never wait for each other, stopping ends;
* configuration files: whatever happens on the way the tree stays whole, and a file
  that loads restores what was saved.

## Modules

| Module | Models |
|---|---|
| `IOPipeline` | What a worker promises about its slots: the abstract specification (busy slots, and whether the worker is stopped, running or draining). |
| `GruntIO` | One worker in full: its thread in `IOGrunt.cpp`, the completion queue as the thread sees it, and the commands of the manager. |
| `GruntIO_proofs` | The theorems about `GruntIO`. |
| `TestControl` | Iometer, the managers and the handshake of their grunts, for any sequence of tests. |
| `TestControl_proofs` | The theorems about `TestControl`. |
| `DiskFill` | One thread that fills the test file of a logical disk: the loop of `TargetDisk::Prepare`, its queue of writes, the device and STOP_PREPARE. |
| `DiskFill_proofs` | The theorems about `DiskFill` and, with no definition in common, about `TestCycle`. |
| `DiskPrepare` | Iometer, the managers and the threads of their grunts while disks are prepared, between tests, with aborts. |
| `DiskPrepare_proofs` | The theorems about `DiskPrepare`. |
| `CompletionPort` | What a completion queue promises: a request is accepted, finishes, and is handed out, once. |
| `CompletionQueue` | The element list of `IOCompletionQ.cpp` between one thread and the kernel, for POSIX aio and libaio, as completion port and as event queue. |
| `CompletionQueue_proofs` | The theorems about `CompletionQueue`. |
| `TestSeries` | The series of tests of each test type as the user guide describes it (`docs/Docbook`), as operators. |
| `TestCycle` | How `GalileoView.cpp` computes and runs that series. |
| `QtEngine` | The Qt window, engine and sessions, and the Dynamos they drive. |
| `QtEngine_proofs` | The theorems about `QtEngine`. |
| `Login` | Iometer's login port and the Dynamos that log in, out and in again. |
| `Login_proofs` | The theorems about `Login`. |
| `Partners` | The tree of managers and workers with its pairs of network workers, and the Dynamos' grunts. |
| `Partners_proofs` | The theorems about `Partners` and, since a load runs the methods of the tree, about `ConfigFile`. |
| `NetPair` | The grunts of a network server and its client, and the TCP connection between them. |
| `ConfigFile` | Saving and opening configuration files and the access specifications, on the tree of `Partners`, with the managers that are waited for. |
| `MC...` | Constants for TLC, one module for each of the above that is checked. |

### GruntIO

One action is one stretch of the thread's code between two reads of shared
state; `pc` says where the thread is (`loop` is the test of the outer `while` of
`Do_IOs`, `poll` its `Complete_IO`, `pick` the choice of the next slot, `stage`
the preparation of the I/O, `submit` the call of `Read` or `Write`, `retry`,
`retried` and `failed` the handling of its result, `delay` and `fill` the start
of a transaction, `drain` the last loop).

* `queue`, `head`, `tail` are `available_trans_queue`, `available_head` and
  `available_tail`: an array of N + 1 elements for N slots, so that head = tail
  means empty. `PutBack`, `TakeHead` and `Rotate` are its only updates. `Rotate`
  writes the tail before it moves the head, as the code does.
* `io[s]` is where the request of slot s is: `none`, in the `kernel`, `tagged` by
  the queue as finished, or `lost`: the request for the rest of a partial I/O failed
  (`Do_Partial_IO`, line 1516), nobody will ever complete it, and the slot is not
  put back either. It still counts as outstanding, so the next stop does not end; `SlotConservation`
  says that a slot is lost in no other way, and the liveness run excludes it.
* `start_IO` and `start_transaction` are reduced to whether a time was taken.
  `effect` is what the last step added to the results (`io`, `error`,
  `transaction`, `connection`, `clock` for a moved FIRST_SNAPSHOT), and `sampled`
  remembers that an I/O has been counted since `Record_On`; the properties about
  recording are stated with them.
* A completion is `Return(s)`. On Windows a poll hands out any finished request.
  On Unix the queue works in two steps (`GetQueuedCompletionStatus`): a poll that
  finds nothing tagged and may wait asks the kernel, tags what has finished
  (`NoteFinished`) and still reports a time-out; a later poll hands it out; a poll
  with timeout 0 never asks the kernel. `Platform` tells POSIX aio (several are
  tagged at once, the wait has a limit) from libaio (one is tagged, the wait has
  none).
* The commands are applied in the order Iometer sends them. `Stop_Test` and the
  others are also enabled early, before the thread reacted to the previous one.

`Open_Targets` is one step here, and the manager waits for it; the steps of its
failure path and what follows from them are in `TestControl`.

### TestControl

`stage` is the call Iometer is in: the purpose of the message it is sending
around, or a pause in which the user and the timers are heard (`ready`, `ramp`,
`record`). `Send`, `Receive` and `Continue` are the loops over managers
(`SendActiveManagers`; over workers for SET_ACCESS and SET_TARGETS), with the
early return at the first negative reply (`Refused`). Managers take one message
at a time (`Takes`); BEGIN_IO and STOP stay in their handler until the grunts
have answered. Every grunt has its flags (`grunt_state`, `not_ready`,
`critical_error`, `idle`, whether it has `targets`) and up to two threads, because
a thread that gave up opening may not have ended when the next one is created.
A thread opens, gives up (in the two stores of the code), performs I/O until
`grunt_state` is TestIdle, closes. A worker's `role` in a test is what Iometer
sets up for it: I/O, the Idle specification, no specification, no active target.

### DiskFill

One action is what the thread does with one of the slots of its queue: `write`
scans the idle slots, `check` the busy ones, `loop` and `end` are the two ends of
the do-while. `io[s]` is where the write of slot s is: `queued` at the device,
`done` with `length[s]` sectors transferred, refused because the disk is `full`,
or `failed`. `bytes` is Large until the switch to single sectors, 1 after. `config`
is the disk and the build: the size limit (starting sector and maximum size), the
room on the volume, how many writes fail for other reasons, and the platform, on
which three things depend. Windows may write, or find the disk full, at once; on
POSIX a write may be cut short by the end of the volume and a failed one takes
the branch "wrote only", its length being (DWORD)-1; libaio waits for a write
whose completion is asked for, reports the length that was requested whatever
the result, and looks at the free blocks before each write. Two variables are
the model's own: `failed` counts the writes that failed or were cut short, and
`mixed` remembers that large writes were outstanding at the switch. The latter
are compared with the new size when they complete, count as cut short and leave
the disk unfilled; what a result means is therefore claimed only without `mixed`.

### DiskPrepare

`stage` is the call Iometer is in: `scan` for `DisksNotPrepared`, `set` while a
SET_TARGETS is not answered, `preparing` while the timer looks for the answer to
PREP_DISKS, `stopping` in the `Receive` of `StopAll`. `assign` is what the user
assigned to the workers, by clicks in the target tree (`ClickTargets`) whenever the pages
are `enabled` and the message loop runs, that is in `idle` and `preparing`. They are enabled and disabled by
`EnableWindow`, which does nothing while `test_state` is not TestIdle. After a negative answer
`TestDone` enables them *before* it sets TestIdle (lines 1165 and 1194), and before the next return to the
message loop the repeated scan has set TestPreparing again (`Worker.cpp:654`): they stay disabled, and
`ReadyMeansFilled` rests on that order (`Mutant_TestDone` swaps it). New managers and workers are left
out; the EnableWindow(TRUE) of their handlers has the same guard. `targets` is what
the grunts have, which differs from it: a worker that has nothing to prepare is
not sent its targets. `ready` is `disk_info.ready` in Iometer's lists, `filled` is
the truth. A manager takes one message at a time, from its receive loop or from
the loop of `Prepare_Disks` (`waits_for` is the grunt that loop is at), so
STOP_PREPARE may find it before, in or after the wait. `thread[w][d]` is the thread
for disk d of grunt w: it opens, fills or stops filling, decrements `not_ready`. A
test is one step here (`StartTest`), which leaves the grunts with its targets.

The two modules meet in the step `Fill`, `FailToFill` or `StopFilling`: it stands for
all of `DiskFill` from `loop` to `returned`; `FillEnds` there is the fairness of these
steps here.

### CompletionQueue

`listed`, `data`, `done`, `bytes`, `last_freed` and `position` are the fields of the
queue, `kernel[i]` what the kernel does with the control block of element i. Three
calls are actions: `Issue` is `ReadFile` or `WriteFile`, accepted, refused or without a
free element; `GetQueuedCompletionStatus` hands out one tagged element or asks the
kernel and tags (`Note`); `GetOverlappedResult` is what `Prepare` asks about its
writes. `Finish` is the kernel, in any order. `errno` is shared by "pending" and
"timed out", so `Believe`, the thread's test for a queued request, is modelled by
what `error` holds. The thread is reduced to alternating polls and requests, and
whether it drains. Of the outcome only what the build can tell survives (`Count`):
with libaio a failed or short request counts as complete. `CompletionPort` has one
state per request; the refinement maps a request to the element that holds it.
`GruntIO` assumes just this of its queue.

### TestCycle

The eight methods behind `SetActiveTargets` are functions from a record of the
members they change (`active` targets and `depth` of each worker, the `next` numbers
and exponents) to the new record and their result; `CalcRunCount` and `StopTest` both
step through them, which is the point. `CountRun` and `CountSpec` are the turns of
`CalcRunCount`'s two loops, `NextTest`, `NextSpec` and `TestDone` the ways out of
`StopTest`. The messages of a test are `TestControl`'s; here a test only starts, ends
or is aborted. `Garbage` is what `RestoreSettings` reads behind its array for workers
that have logged in meanwhile. `TestSeries` computes from the settings alone, with sets
and closed forms, what the guide says each test has. Exponential steps of the targets
go with exponential steps of the workers in the settings that are checked, because
`CycleWorkersTargets` looks at the wrong one of the two (`GalileoView.cpp:1768`).

### QtEngine

Engine, sessions and window share one event loop, so a handler is one action, and
`At`, `Do` and `Install` thread the session's new state and what it sends through the
handlers that call each other. Messages in flight are queued per manager in both
directions and carry what they are answers to, which the code does not know: it
takes as many bytes as its state expects. A result carries its worker's name, as
the session gives it, and the grunt that really sent it. A Dynamo serves commands in
order; one for a grunt it does not have, or EXIT of a running one, may end it.

Results go three ways. `engine.current` is what the window shows; `ShowResults` sets it and in
the same step writes its rows to `file`, the window's results file, if the file dialog of
`OnStart` gave one and `OnTestStopped` has not closed it; `engine.saved` is the copy that
`EngineStops` makes and `EngineStartTest` clears, from which the batch mode writes its file. Both
files are thus done with when the test is stopped, before the first final result arrives.
`FinalsShown` claims final results for what is shown only, and of the file that it has a row for
all that is shown while the test runs.

### Login

`login_state` is that of `OnIdle`, plus `adding` and `updating` for the two blocking
calls of `AddManager`. A login request is a stream of `Units`, the first being the
`Message`; `wire` may be received in pieces (`Takes`), a receive that timed out stays
behind as `orphan` and takes what arrives next. `backlog` are the connections that
wait to be accepted. `Dynamo(d)` is `Manager::Login`, which sends without looking,
waits for LOGIN_OK on one connection and for Iometer on the other, and the loop in
`main` that logs in again after RESET.

### Partners

The methods of `Worker` and `Manager` are functions on the tree, composed as the code
calls them: removing a worker removes its targets, which deletes its client, wherever
that is, which removes it from its list and from the view. A worker is the pair of
its manager and a number. Sent EXITs wait in `inbox`; ADD_WORKERS is answered, so
everything sent before is read with it. `shown` is a selection for which `ButtonReady`
enabled Copy; `up` becomes FALSE when a NULL pointer would be used.

### NetPair

Each `Side` runs the loop of `Do_IOs` for one target of depth one or two, blocking in
`Open` (listen, accept, connect, `WaitForDisconnect`) and posting in `Read` and
`Write`. The random numbers are what both share: `lines` and `reads` are the access
lines and directions they lead to, in order; `drawn` and `target_drawn` count how many
numbers the two generators have given, so that two sides that drew differently see
different lines from then on. Of a transfer its number of units and its transaction are
kept; `requests` are the calls outstanding at a socket in each direction, which TCP
serves in order, `wire` what is under way. `Transmit` and `Deliver` are TCP, moving one
unit; on Windows a request of two units completes in parts if they come apart, and
`Again` requests the rest, behind what was requested meanwhile. A close discards what is under way in both directions
(`SO_LINGER` 0); that is why a side that wrote last waits for the other's close
(`MayClose`).
Stopping may come to either side at any step.

### ConfigFile

The module extends `Partners` and builds on its methods. `Config` is the whole
configuration as one record, the tree in it, and saving and loading are functions of it, because they
run to their end in the one thread of the window; what can come between are the logins
while the dialog waits (`LogIn`), its time-out and its Cancel. `loadmap` is
`ManagerMap`, `waiting` the list the dialog shows, which the login searches a second
time. A specification is an id, which stands for the address workers point to
(`NewId` gives freed ones again), a name and its default assignment. The file is what
was gathered, or a section of it `Bad`. `LoadManagers` is `ManagerList::LoadConfig` in its
order: empty the managers if the file replaces, load one manager after the other, where
a server creates its client on a manager that may not have been loaded, then drop the
managers nobody needs. The Dynamos read what is sent at once: messages are the matter of
`Partners`.

## Runs

| Run | Result | Question and bounds |
|---|---|---|
| `grunt_unix` | pass | All safety of one worker and the refinement of `IOPipeline`. Three slots on two targets, both closed and re-opened, requests with and without reply, delays, failing opens, every result of a request, full and partial completions, POSIX queue. |
| `grunt_windows` | pass | Liveness, queue without tagging, aborted requests, failing submissions. |
| `queue` | pass | Both builds and both uses, three elements, every outcome; POSIX requests may be refused. |
| `control` | pass | Two managers, two workers on the first and one on the second, all roles, refused set-ups, the last manager's worker may fail to open. Safety and liveness. |
| `fill` | pass | Safety and end of one filling. Queue of three, large writes of three sectors; Windows and POSIX disks whose limit (none, 9, 10) and room (2, 9, 11) are a multiple of the large write or not, with up to one failing write; libaio with enough room and no failure. |
| `prepare` | pass | Two managers with two and one worker, three logical disks shared and exchanged between workers, a raw disk, threads that cannot be allocated, one disk that may fail. Safety and liveness. |
| `cycle` | pass | Every test type, linear and exponential steps, up to four uneven disk and network workers on two managers, with up to three specifications each, a Dynamo that logs in at any time, aborts and failed preparations. |
| `qt` | pass | Two Dynamos with two and one processors; one edit of the tree or pool, one death, one login each, Start (with or without a results file), Stop, Stop All and New at any time. |
| `login` | pass | Two Dynamos of this version, one of another; requests of four units in any pieces; one RESET or removal, one mishap (a death, a late request, an unknown name). |
| `partners` | pass | Two managers of up to three workers, every change of the tree while at most two workers are there (clients come on top) and one message is unread. |
| `net` | pass | One connection at a time; depth one with replies, both directions, transfers of one and two units, connections of 0, 1 and 2 transactions or one for the whole test, on Windows and POSIX, full and pseudo random data; depth two in one direction. Either side may be stopped at any step. |
| `config` | pass | Two Dynamos of one computer, or of two with different disks; files with all parts, the specifications alone, or managers and assignments without targets; three edits (of the tree, the specifications or the file), one load, any number of time-outs and Cancels. |

Where the code disagrees with its own comments or the guide, the runs leave the case out or
the properties except it; the places are under "Disagreements that no run shows".

**Bounds.** N + 1 ring elements with N = 2 and 3 reach every relation of head
and tail, including wrapped, full and empty; two targets suffice for an I/O of
one to interfere with the other. `trans_per_conn` is 1 or 0, the smallest
values at which a connection opens, is used, closes. The proofs cover the other
values of these constants. In `GruntIO` no counter needs a bound: the handshake limits
every one.

Three elements in `CompletionQueue` are enough for a scan to start behind the element
that is tagged and wrap, and for one to be freed while another is tagged and a third
is with the kernel; its proofs cover other sizes. `Refusals` leaves out libaio: a
refused submission keeps its element there, and after as many the queue is full.

In `DiskFill` `config.errors` bounds the failures, because a large
write that cannot be started is tried again for ever. Three slots and a large write
of three sectors let several large writes be outstanding at the switch, fill up
exactly or not, and be taken back together. libaio in `fill` never meets a full
volume or a failed write: it cannot tell them from a success.

In `DiskPrepare` two workers on one manager are enough for a disk to be shared, to
move, and to be prepared by one while the other has nothing to do. `prepare` lets
only the first worker of a manager fail to allocate its threads (those of earlier
ones would run on after the answer), only the disk `c` fail (it is then marked ready
all the same), and gives raw targets only to a manager with one worker (a worker with
nothing to prepare and a raw target is waited for without end).

In `TestControl` two threads per grunt are followed (`Free`): a third would
need two threads in a row stuck between two adjacent statements. `Prompt` = TRUE
assumes that a thread that gave up opening executes its last two statements
before the next START arrives, one round trip of SET_ACCESS and SET_TARGETS per
worker later. `control` lets only the last
manager's worker fail: when an earlier manager's fails, the later ones are
stopped while they open.

`MaxRuns` of `TestCycle` is above the longest series of its settings, so it cuts
nothing off; the settings take every test type at steps that fit and steps that
overshoot. `MaxWorkers` lets one manager log in. In `QtEngine` one edit or one death
(`MaxEvents`; the deaths that follow from an edit are not counted) and one login of each
manager may happen at any moment, on either manager; messages in flight are
limited by the protocol itself. `Login` splits the request in four: the message,
and a data message of three, so that a late receive can take a part of either;
one mishap and one removal at any point, because two of them are two histories of one.
`Partners` needs three workers on a manager for a server, its client and a worker
between or behind them; `MaxPresent` and `MaxUnread` limit what the user adds and how
fast, not what one operation does.

In `NetPair` two slots are the fewest with which a transfer can be posted behind another;
`Room` = 1 makes every send of two units wait for the receiver, and `numbers` = 2 or 3
transactions are told apart, more than can be under way. With two outstanding only one
direction is tried: with both the closing side can discard its own sends, see below.
In `ConfigFile` three edits reach a server with its client and a saved file, or a file, a
change and a damage; a second file adds nothing, since a load depends on the tree and the
file only. A load that runs out of room on a manager (`NoRoom`, MAX_WORKERS) is left out.

**Properties.** Type correctness of `GruntIO`, `TestControl`, `CompletionQueue`, `DiskFill`,
`DiskPrepare`, `Login`, `QtEngine` and `Partners`, with the counters and ranges that belong to it, is proved and
therefore in no run. The other modules with a `TypeOK` hold it on the instances of their runs; it is listed in no cfg,
since the properties below depend on it. The runs check
only what several steps are needed to break: for the worker `SlotConservation`,
`ClosedMeansQuiet`, `StoppedMeansGone`, `ClockKept`, the refinement `PipelineSpec` and its
progress `StopTerminates`, `EveryTargetServed`; for the queue `ElementPerRequest`,
`ToldOfItsOwn` and the refinement `PortSpec`; for a test as a whole `TargetsUnused`,
`BegunMeansOpened`, `ReportsAgree`, `FinalResultsSettled`, `RoundsEnd`; for the filling of
a disk `WithinLimit`, `TruthfulResult`, `FillEnds`; for preparation `RepliesInStep`,
`NoStrayThread`, `ReadyMeansFilled`, `AbortEnds`; for the series `AsDocumented` (the code's
counters against the guide's closed forms), `DepthsRestored`, `SeriesEnds`; for the Qt
engine `InStep`, `Attributed`, `FinalsShown`, `StopEnds`; for login `ListIsTrue`,
`EveryoneServed`; for the tree `PairsWhole`, `InStep`; for a network pair `InSynch`,
`NothingLost`, `Flows`, `StopEnds`; for configuration files `TreeWhole`, `WaitingAgrees` and
`Loads` (what a load that replaces restores, what one that merges keeps).
The `Mutant_` operators, each
before the definition it distorts, are plausible mistakes in the code (a missing
decrement, an index that wraps late, a wait left out); substituting one makes the
run that is listed for it in `PROJECT.json` fail. No specification uses them.

**Fairness.** `GruntIO`: weak fairness of the thread (it never blocks for good
except in a poll); of the manager's two waiting loops; and, per slot, strong
fairness of "the queue notices this request" and of "the queue hands it out". The
last two say that the kernel finishes a request some time and that the round
robin of `GetQueuedCompletionStatus` passes over no element for ever; strong,
because polls that may wait come and go. No command but the two waits is ever
due: a test may run for ever. `TestControl`: weak fairness of Iometer's message
loop, of each manager and of each thread; the user and the timers owe nothing.
That a thread leaves its I/O after TestIdle is `StopTerminates` of `GruntIO`.
`DiskFill`: weak fairness of the thread and of the device's answer to each write. `DiskPrepare`: weak fairness of Iometer's replies
and scans, of each manager, and of each thread but for filling, which may take any
time; `AbortEnds` holds without it.
`CompletionQueue`: weak fairness of the thread, and of the kernel for each element; strong
fairness of an accepted request, that is, a kernel that refuses now and then accepts
in the end - a thread that is always refused polls without a timeout, which never
asks the kernel. `TestCycle`: weak fairness of the window's own steps and of the run
timer; the user owes nothing. `QtEngine`: weak fairness of the event loop's delivery to
each session and of each Dynamo; timers and the user owe nothing. `Login`: weak fairness
of `OnIdle`, which a timer calls when nothing else does, and of each Dynamo's process.
`NetPair`: weak fairness of each grunt, of TCP moving
what can move, and strong fairness of a poll that may hand out a completed request;
nobody is ever due to be stopped. `Partners` and `ConfigFile` have no liveness.

## Disagreements that no run shows

Where the code does other than its comments, its guide or common sense say, met while it
was modelled. The models follow the code up to the point where their runs or properties
leave the case out, as the comments there say.

*Tests.*
`IOGrunt.cpp:1189`: a poll does not wait while targets are closing, `targets_closing_count`
never changes; on Unix a poll without a timeout does not look for completions, so a closing
target never closes. `IOGrunt.cpp:1131/1146`: the second store of `not_ready` after a failed
open releases the next `Begin_IO` too early, and `GalileoView.cpp:848-850` sends STOP to
managers that are still opening. `IOGrunt.cpp:219`: a count cannot keep back what is recorded
while an I/O of the ramp up is outstanding. `IOGrunt.cpp:1271`: `is_closing` is set when the
last transaction starts, its reply is done on the next connection
(`docs/Docbook/targets.xml:198-204`). `IOManager.cpp:729/784`: of the results sent in an update and those kept
as its base two copies are made while the thread records; what is recorded in between is in no
update ("results since last update", 739-740).

*Completion queue.*
`IOCompletionQ.cpp:396`: the libaio wait ignores its limit. Line 354 compares an unsigned
value with 0, so with libaio every failure is told as a success. `IOCommon.h:597` and
`IOCompletionQ.cpp:714-718`: a refused `io_submit` keeps its element.

*Preparation.*
`IOTargetDisk.cpp:1426`: under libaio a full volume never leads to single sectors, the loop
does not end. `IOTargetDisk.cpp:1532`: large writes that complete after the switch are
compared with the new size. `IOGrunt.cpp:742`: the wait counts raw disks that no thread is
started for. `IOManager.cpp:660`: a preparation that fails is answered with success, its disks
are marked ready. `GalileoView.cpp:1165`: when a test cannot be set up, `TestDone` enables the pages
while `test_state` is still TestOpening, so they stay disabled until the next test ends. `IOManager.cpp:1434`: `Remove_Workers(grunt_count--)` in a loop counts down
twice.

*Series.*
`GalileoView.cpp:1768` compares the step of the workers where it increases the targets;
1134-1148 (`StopAll` while preparing) restores no depths; a step of 0 makes `CalcRunCount`
endless; a start above the end of the queue depths gives an empty test.

*Qt.*
`QtMainWindow.cpp:560` says that Stop advances to the next specification; it does, but
`core/TestRunner.cpp:20` starts only from Idle, to which nothing leads back, so that
specification never runs (with `Queue` = 2). `QtDynamoEngine.cpp:999`: a stop during set-up is
lost. Line 481: a session none of whose workers has targets waits for their results for ever.

`QtMainWindow.cpp:727` closes the results file when the test is stopped, and
`QtDynamoEngine.cpp:1004` and 1018 copy the results to save at the same moment: the final results,
which are reported only then, get into neither, and both files end with the last updates.

*Login and tree.*
`GalileoApp.cpp:695-701`: the rest of a late request is read as the next one and its Dynamo
told that its version is wrong. `Manager.cpp:344` (`RemoveNetInfo`) walks to a saved count,
against its own comment (397-398), and past the end when the server's client is on the same
manager. `Worker.cpp:155/620/1801` use the partner of a client that is a copy or was refused
at MAX_WORKERS, which is NULL.

*Network.*
`IOGrunt.cpp:478-480` says the seeds keep both ends in synch; with pseudo random data they
draw a number for each byte of their own buffer (561-564, 1556-1566), so that it holds for
equal sizes only, and with full random data, replies and two outstanding the order of draws
differs. With both directions and two outstanding the side that closes may discard what it
sent. A connection may be left behind that the server never accepts. A request for the rest
of a transfer that is refused after a reset (1516) is recorded by nobody, and an aborted
transfer on Unix passes for a success of -1 bytes: in both cases the drain does not end.

*Configuration files.*
After a time-out (`WaitingForManagers.cpp:251`) the map is not reset, as it is after Cancel
(189), so later managers get no default workers (`GalileoApp.cpp:747, 786`). An entry for the
local manager is taken by any manager that logs in (`core/ManagerMap.cpp:49-65`;
`ManagerList.cpp:1366-1371` says "local"). A load that fails with replace leaves only Idle in the list of
specifications. At MAX_WORKERS `AddWorker` returns NULL, which `Manager::LoadConfig`
dereferences. Merging a file twice assigns its specifications twice. Result bars are restored by
the managers' names, not by the map (`PageDisplay.cpp:923-955`), and one that shows a manager
without workers keeps it when it is removed (`WorkerView.cpp:337-354`).

## Proofs

### GruntIO

`GruntIO_proofs` proves, for all values of the constants that satisfy
`SlotAssumption` and `SpecAssumption` (a positive number of slots, each with a
target; the sets of outcomes within their types), and all three platforms:

| Theorem | Statement |
|---|---|
| `Invariance` | `Spec => []IInv` |
| `TypeCorrect` | `Spec => []TypeOK` |
| `SlotsConserved` | `Spec => []SlotConservation`: in the ring, outstanding or lost by line 1516, one only |
| `CountersAgree` | `Spec => []OutstandingAgrees` |
| `RampUpIsBounded` | `Spec => []RampUpBounded` |
| `StoppedIsGone` | `Spec => []StoppedMeansGone` |
| `ClosedIsQuiet` | `Spec => []ClosedMeansQuiet` |
| `ClockIsKept` | `Spec => ClockKept` |
| `Implements` | `Spec => PipelineSpec` |

None of these invariants is inductive alone. That a completed slot fits into the
ring needs slot conservation *and* the ring's length; that `outstanding_ios` does
not go negative needs that it counts the busy slots; that the head of the ring is
still the slot that was picked, although polls in `delay` and `retry` put others
back in between, needs that completions only touch the tail; that a thread which
submits is not yet stopped needs the handshake. `IInv` is the conjunction of

* `Data`: types of ring, slots and counters; the slots of the ring are distinct
  and are exactly the slots that do not count as outstanding, and only the failed request for a
  rest loses one (`RingOrBusy`, `LostByRest`); its length; the two levels of
  outstanding counters; the bound on `ramp_up_ios_pending`; a busy slot has
  something left of its transaction;
* `ConnType`: types of the connections;
* `ControlType` and `Handshake`: where thread and manager can be relative to each
  other, and that nothing is outstanding when no thread runs;
* `HeadInHand`: from `pick` to the result of the request the ring is not empty and
  the slot at its head has what the place in the code needs.

The argument has three layers. Lemmas about the ring (`TakeHead`, `PutBack`,
`Rotate` on positions modulo N + 1) and about cardinalities know nothing of
threads. Lemmas about data (`ReleaseKeepsData`, `AcquireKeepsData`,
`CompletionKeepsData`, ...) say what a completion, a submission and a rotation do
to `Data`. The lemmas about actions combine them with control, one step per
action. The refinement follows from the same lemmas: a poll frees one slot or
none, a submission takes one, all else leaves the set of busy slots alone.

Two results are proved on top of `IInv`, each with an invariant of its own. For
`ClosedIsQuiet` it is `ConnInv`: a connection whose transactions are used up and that is not
closing has nothing outstanding (`DueToOpen`), so that it is safe to open it again, and
the slot in hand has a connection (`HeadConnected`). For the action property `ClockIsKept` it
is `ClockInv`: what is staged before recording begins is not counted
(`RampUpUnrecorded`), and once something has been counted no I/O of the ramp up is left to
move the clock (`RampUpOver`).

### TestControl

`TestControl_proofs` proves, for every number of managers and workers and any sequence of
tests and roles, under `Tame`: a thread that gave up opening
has ended when the next test starts (`Prompt`), and the workers that may fail to open belong
to the last manager:

| Theorem | Statement |
|---|---|
| `ControlInvariance` | `Tame => (Spec => []IInv)` |
| `ControlTypeCorrect` | `Tame => (Spec => []TypeOK)` |
| `NothingFreedInUse` | `Tame => (Spec => []TargetsUnused)` |
| `BeginsOpened` | `Tame => (Spec => []BegunMeansOpened)` |
| `ReportersAgree` | `Tame => (Spec => []ReportsAgree)` |
| `FinalResultsAreSettled` | `Tame => (Spec => []FinalResultsSettled)` |

These are the conditions of `control`; without the first the late store of `not_ready`, and
without the second the STOP to managers that are still opening (both under *Tests* above),
lead out of the invariant. It has four parts:

* `Phases` and `Turns`, the conversation: the manager that is spoken to has its message
  unread, works on it or has answered, all others rest. RECORD_ON has no answer, so that it may
  still lie unread (`Late`) in front of the message that follows it;
* `Configured`, the set-up: what a grunt has agrees with the `role` Iometer has in mind as
  soon as the grunt has been told. From START on this holds of all grunts, which is why
  Dynamo's test for "has targets and is not idle" picks the same workers as Iometer's;
* `Places`, the threads: each grunt is `Rested`, `Opening`, `Performing` or `Ending`, by the
  stage and by whether the round of messages has passed its manager (`Passed`);
* `Single` and `DataTrue`: a grunt has one thread at a time, and only the last manager
  refuses to begin.

The properties are each one line of `Places` or `Phases`. The proof takes the steps of Iometer
(sending, hearing the answer, moving to the next manager or stage, the user's pauses), of a
manager and of a thread separately; a step of one manager leaves every other manager and its grunts
where they are.

### DiskFill

`DiskFill_proofs` proves, for every queue depth, large size and set of disks and
builds that satisfy `DiskFillAssumption` - also those the run leaves out, such as
full disks under libaio and any number of failures:

| Theorem | Statement |
|---|---|
| `FillInvariance` | `Spec => []IInv` |
| `FillTypeCorrect` | `Spec => []TypeOK` |
| `SizeLimitKept` | `Spec => []WithinLimit` |
| `ReturnsDrained` | `Spec => []DrainedUnlessStopped` |
| `ResultIsTruthful` | `Told => (Spec => []TruthfulResult)` |

`IInv` adds three facts to the properties. `Counted`: `num_outstanding` is the
cardinality of `busy`, and exactly the busy slots have a write. `Covered`:
`prepare_offset` is at least `num_outstanding * bytes`; without it the type of the
offset is not inductive, because a refused write subtracts from it, and it survives
the switch because `bytes` only shrinks. `LeftDrained`: past the end of the loop
nothing is outstanding unless the manager said stop. `WithinLimit` is inductive with
these.

`ResultIsTruthful` assumes a build that is told how a write ended (`Told`: not libaio). Its
invariant `ResultInv` says what the thread can tell from the current size of a write: all that
is outstanding has it (`OfOneSize`), the failures are those collected and those to be
collected (`FailuresShow`), a write that did not fit would still not (`FullIsFull`), and why
large writes and then single sectors were given up (`LargeFirst`, `GivenUp`). The parts hold
until a large write is left over at the switch (`mixed`), which the property excepts.

### DiskPrepare

`DiskPrepare_proofs` proves, for every number of managers, workers and disks and every
assignment of disks that satisfies `PrepareAssumption`, under `FirstFails` (where a worker may be unable to
allocate its threads it is the first of its manager; the threads of earlier ones would run
on after the answer):

| Theorem | Statement |
|---|---|
| `PrepareInvariance` | `Spec => []IInv` |
| `PrepareTypeCorrect` | `Spec => []TypeOK` |
| `InStep` | `Spec => []RepliesInStep` |
| `ThreadsEnd` | `Spec => []NoStrayThread` |
| `ReadyIsFilled` | `Spec => []ReadyMeansFilled` |

`Phases` is the heart of `IInv`: for each stage of Iometer it says what the manager it
talks to has in its inbox, whether it has answered, and whether threads of its grunts may be
alive; all other managers rest. STOP_PREPARE is the difficulty: it may overtake the end of
the preparation and then lies in the inbox until the next message, so that resting, being
set up and being stopped each have two forms. `Counting` (`not_ready` is at least the number
of threads alive) makes an answer mean that no thread is left. `ReadyMeansFilled`
needs `FillsAll` (until it is aborted, each disk of the grunts is filled, may
fail, or has a thread at work on it) and that needs `TargetsFollow` (the grunts have got the
disks that Iometer found unprepared, although messages are under way). `PreparedAnswer` marks what is
assigned when the answer comes: that this is what was sent needs `Locked`, from Start on no page
is enabled because `test_state` is not idle at any EnableWindow(TRUE) before the end.

### CompletionQueue

`CompletionQueue_proofs` proves, for every size of the queue, both builds and uses, under
`NoLeak` (libaio refuses no submission; a refused one keeps its element):

| Theorem | Statement |
|---|---|
| `QueueHolds` | `Spec => [](TypeOK /\ ElementPerRequest)` |
| `QueueNoReuse` | `Spec => NoReuse` |
| `QueueIsPort` | `Spec` implements the safety part of `CompletionPort` |
| `QueueTellsTruth` | `Spec => ToldOfItsOwn` |

The inductive invariant adds to the types and `ElementPerRequest` that the fields of an
element say the same of it (`Stages`: a free one is with nobody, a taken one with the kernel
or ended, a tagged one ended), that an ended element is among the kernel's events once
(`EventsOnce`), that the element freed last is free (`FreedIsFree`; the next request takes it
without a look), and the size. The refinement maps each call to one step of the port or none:
a poll that only tags is a stutter. `QueueTellsTruth` needs one more invariant: the bytes of a
tagged element are those of its own outcome (`TagsTrue`).

### Login

`Login_proofs` proves, for every set of Dynamos of this version and others, length of a
request, backlog and bound on removals and mishaps that satisfies `LoginAssumption`:

| Theorem | Statement |
|---|---|
| `TypeCorrect` | `Spec => []TypeOK` |
| `ManagerListIsTrue` | `Spec => []ListIsTrue` |

`ListIsTrue` speaks of the list and of the processes, which agree only by way of all that lies
between connecting and running. The invariant follows a Dynamo on that way: who has connected
and not been answered waits in the backlog or is the `peer`, has no second connection and is in
no list (`UnansweredWait`); the peer for which `AddManager` runs has its LOGIN_OK and waits for the
second connection (`PeerAnswered`); who has that connection is listed or finds a message to leave
(`LinkedAnswered`); who is listed has not been told to leave (`ListedAnswered`). `PortWhole` says
that no Dynamo is at two places of the port at once. A Dynamo may die at any of these, and then nothing
but the connection tells. That no Dynamo of this version is refused needs `FromTheStart`: unless a receive
timed out, the first unit Iometer reads from a connection is the first one sent.

### QtEngine

`QtEngine_proofs` proves, for any number of managers, processors and disks, and any bound on
what the user adds, the events and the logins (`EngineAssumption`):

| Theorem | Statement |
|---|---|
| `TypeCorrect` | `Spec => []TypeOK` |
| `BytesInStep` | `Spec => []InStep` |
| `ResultsAttributed` | `Spec => []Attributed` |
| `FinalsStayShown` | `Spec => []FinalsShown` |

`Spec` has no fairness; that of the run, `FairSpec`, implies it. A session tells answers apart by
nothing but its own state, so the invariant says of every state what is under way (`Whole`, for
each computer): at most one command that has an answer, the one the state waits for, with
RECORD_ON before it if that has not been read (`OneCommand`); or what is left of the answer
(`OneAnswer`, `Rest`), and never both. From the state and the unread commands follow what the
Dynamo's test does (`ModeKnown`, `ModeOf`) and which grunts have been given a target (`GruntsKnown`, `Told`);
hence how many results a report has. `Counted` says that the results collected are those of
the first workers in order. `NothingYet` is where the proof needs that
a session runs one test in its life: `startTest` starts the sessions that are ready, the
engine's `TestRunner` never returns to Idle, and so results of an earlier
test are never in the way. `WindowFollows` says that the window runs while the engine does, so that
no results file is opened, and an old one truncated, in a test, and that before the first test
there are no results which its file could lack.

The proof goes once through the handlers of a session, one lemma each, that say what it does to `Whole`
of its computer, and then through `At`, `Do` and `Install`, which leave all other computers alone;
starting a test does it to all sessions at once.

### Partners

`Partners_proofs` proves, for every set of managers, limit MAX_WORKERS and default workers
(`PartnersAssumption`):

| Theorem | Statement |
|---|---|
| `InductiveInvariant` | `Spec => []IInv` |
| `TypeCorrect` | `Spec => []TypeOK` |
| `PairsHoldTogether` | `Spec => []PairsWhole` |
| `DynamosInStep` | `Spec => []InStep` |

The methods are functions on trees, so the invariant speaks of a tree: `Fine(r, L, G)` says
that workers are on one list, that of their manager, or free (`ListedOnce`), that partners
have each other and what belongs to their kind (`InPairs`), that on one list a server comes
before its client (`ServersFirst`), that only the managers in L have workers (`Within`), and
that the Dynamos of the managers in G will have the right number of grunts when they have read
everything (`InTune`). Between actions L and G are the managers on the list. Within one they
are not: `~Manager` deletes workers whose EXIT is never sent, of a manager that is still in L
while its Dynamo has left G (`AllSent`, `DropTurnFine`).

There is a lemma for each method, in the order in which they call each other. All ways of losing
a worker come down to one, `Lost`, for a worker that is `Loose` (a client, or a
worker without partner): a client takes its server's target with it, and a server is loose
once its client is gone. There the index of the EXIT matters: it is below the number of grunts
that will be left, or Dynamo would remove them all (`LostFine`). All ways of adding come down to
`Added`.

`ServersFirst` is what makes two loops right. When `~Manager` deletes the first worker and then
drops the first element, it must still be the same one (`DropTurnFine`); and
`Manager::RemoveTargets` must meet every server although the list gets shorter under it
(`TargetEnds`).

Loops are recursive functions of the number of turns. The library's induction takes an
operator, but induction over numbers needs only sets: that a set of numbers has a smallest
element follows from the well-founded induction theorem `WFMin`, and from that `Upwards` and
`Iterates`, that a loop whose turns lead from `P[i - 1]` to `P[i]` ends in `P[n]`. Each loop is an instance.

### ConfigFile

`Partners_proofs` ends with `ConfigFile`, for every set of managers, names, drives,
specifications and bounds (`ConfigAssumption`: there are finitely many names of specifications,
none is the idle one's, and no drive is in a manager's list twice):

| Theorem | Statement |
|---|---|
| `DialogInStep` | `ConfigSpec => []WaitingAgrees` |
| `TreeStaysWhole` | `ConfigSpec => []TreeWhole` |

The dialog's list and the map are searched separately when a manager logs in, and for
different things: the map for the first entry that nobody has, the list for the first of that
name. `WInv` says why both find the same place (`Waiting`): the list is the unassigned
part of the map, in order, so the first entry of a name without manager is the first
of that name in the list (`RankLess`, `SpotLess`, `PickedLess`: taking one element out of a
list moves the places behind it up by one, in the list of those picked too). Either the
file's only manager is the local one, which any login is, or no entry is. That each manager found is found once
needs `StoredIs`, the loop of `Stored`: a manager is looked up among those that no entry
has, and one that logs in was not in the list of managers before.

`TreeWhole` needs more than itself (`CInv`). Besides `WInv`: the tree's own invariant `IInv` of
`Partners`, with nothing unread and no NULL pointer used; the list of specifications with the
idle one first and none twice, assignments that are in it, and disks of the worker's own manager
(`Intact`); a file whose clients name managers of that file (`FileSane`, which is what
`SaveConfigFile` writes and a load relies on); and a request that waits is one the user made
(`Requested`). As in `Partners` the lemmas speak of what the methods take and return: `Sane(r, L, M)`
says that the configuration r has all this, for the managers in L, and that M is the map it was
loaded with. The four nested loops of a load, over managers, workers, their disks and their
assignments, are instances of `LoopEnds`, each with the set of sane configurations as what its
turns keep; the loop that drops needless managers shrinks L with every turn (`KeptLess`). What a
load looks up must be there: `Retrieve` gives a manager in the list because a file is only
loaded when nobody is awaited, and then the map has an entry for each of its managers and each
entry is a listed one (`MapResolves`, `AllResolved`; with the dialog, because `WaitingAgrees` says that an empty
dialog is a complete map). So "please report this as an Iometer bug" is never reached. That the
new specification's id is not one in use (`NewIs`) needs that ids suffice, since they stand for
addresses: no two names in the list are the same, so there are more ids than specifications.

### TestCycle

The last part of `DiskFill_proofs` proves, for every set-up and all workers
(`CycleAssumption`):

| Theorem | Statement |
|---|---|
| `DepthsComeBack` | `CycleSpec => []DepthsRestored` |

What the cycling methods compute does not matter, only which depths they may change: none unless
the test type cycles them, and then those of disk workers only (`SetActiveTargetsKeeps`, from a lemma
for each method). The invariant `DepthsKnown` says where each depth the user chose is while a run
goes on (`Kept`): in `saved` for every worker with targets, since those that logged in later have
none, and for network workers, which `RestoreSettings` passes over, still with the worker. After a mishap
only the shapes remain (`Whole`), which is why the property stops there.

### Model-checked only

All liveness, which is out of the prover's reach, as is ENABLED. Of the safety properties:

* `AsDocumented` of `TestCycle` compares counters with sums and powers, defined by recursion,
  whose values need induction over data;
* `Loads` of `ConfigFile`: what a load restores is the content of the file in its order, so its
  loops would need what each of them computes, where `TreeWhole` needs only what they keep;
* `InSynch` and `NothingLost` of `NetPair`: they do not hold for all configurations
  `NetAssumption` admits (*Network* above), and where they do, depend on how far one side can be ahead
  of the other in cyclic sequences of numbers.

## Not modelled, and why

* Times, sizes, offsets, data patterns, latency sums: abstracted to what was
  recorded. Reports taken while the test runs may be torn; only the final ones
  are claimed to be settled.
* Percentages, addresses and delays of an access specification (`GetNextBurst`,
  `GetDelay`): arithmetic on random numbers; `NetPair` keeps which numbers are drawn.
* Results and their aggregation, in Dynamo, Iometer and the Qt engine: floating point sums,
  and counters of the operating system. The bars and meters that show them.
* In `TargetDisk::Prepare`: buffers, data patterns, events that cannot be created,
  `Set_Sizes`; a file two workers fill at the same time. A grunt in the middle of a manager's
  workers that cannot start its threads.
* In configuration files: the text itself, files of older versions, the sections of the
  test setup and the results display, which are copied to and from dialog fields.
* In the Qt front end: the batch driver of `main.cpp`, which starts and stops the engine
  without the window and writes the saved results; the text of both CSV files; the pages.
* The command line's batch mode of `GalileoApp.cpp`, which opens a file and starts a test.
* VI targets: they need a library that is not in the repository. Dialogs, drawing and the
  discovery of devices per platform: code without interacting state.

## Plan

Done: all modules above, with the proofs of `GruntIO`, `TestControl`, `DiskFill`,
`DiskPrepare`, `TestCycle`, `CompletionQueue`, `Login`, `QtEngine`, `Partners` and
`ConfigFile`. Next:

1. `Loads` of `ConfigFile` for files of one manager, where no loop has to be computed.
2. The batch modes of both front ends as users of `TestCycle` and `QtEngine`.
3. `GetNextBurst` against a reference definition, over small specifications.
