--------------------------- MODULE CompletionQueue ----------------------------
(***************************************************************************)
(* The completion queues of the Unix builds (IOCompletionQ.cpp, the Unix   *)
(* half of IOCQAIO.cpp) between one thread and the kernel: an array of     *)
(* elements, each with the control block of a request, which ReadFile and  *)
(* WriteFile fill and GetQueuedCompletionStatus or GetOverlappedResult     *)
(* empty.  The thread is a grunt performing I/O (Do_IOs), with one         *)
(* completion queue for all its transactions, or one preparing a disk      *)
(* (TargetDisk::Prepare), with an event queue of one element per write.    *)
(*                                                                         *)
(* Buffers, offsets and sizes are abstracted to how a request ended and    *)
(* what the thread is told of it.  GetLastError is errno, in which         *)
(* WAIT_TIMEOUT, ERROR_IO_INCOMPLETE and ERROR_IO_PENDING are one number.  *)
(***************************************************************************)
EXTENDS Integers, Sequences, FiniteSets

CONSTANTS
    N,        \* cur_trans_slots
    Builds,   \* the calls a build makes: "posix" (aio_*) or "libaio" (io_*)
    Refusals, \* the builds in which aio_read, aio_write or io_submit may fail
    Uses,     \* the uses of a queue: "completion", "event"
    Outcome   \* how the kernel may end a request

ASSUME QueueAssumption ==
    /\ N \in Nat \ {0}
    /\ Builds \subseteq {"posix", "libaio"}
    /\ Refusals \subseteq Builds
    /\ Uses \subseteq {"completion", "event"}
    /\ Outcome \subseteq {"full", "short", "failed", "nospace"}

VARIABLES
    build,                  \* the build the thread runs in
    use, size,              \* what the queue is for, and its elements
    listed,                 \* aiocb_list[i] or iocb_list[i] is not NULL
    data, done, bytes,      \* of element_list[i]
    last_freed, position,
    kernel,                 \* what the kernel does with the control block of
                            \* element i: "idle", "busy", or how it ended,
                            \* which is kept until the thread is told
    events,                 \* the elements that ended and the queue has not
                            \* asked about, in the order they did
    error,                  \* GetLastError(): "zero", "pending" or "failed"
    pending,                \* the requests the thread takes for queued
    turn,                   \* what the thread does next: "poll" or "issue"
    draining,               \* it issues no more requests
    answer                  \* what the last call told it of a request

queue  == <<build, use, size, listed, data, done, bytes, last_freed, position>>
thread == <<pending, turn, draining>>
vars   == <<queue, kernel, events, error, thread, answer>>

Index    == 0 .. N - 1
Element  == 0 .. size - 1
Request  == 0 .. size - 1   \* the transactions or writes, as many as elements
None     == -1
Silence  == [request |-> None, ok |-> FALSE, bytes |-> "none"]

SizeFor(u) == IF u = "event" THEN 1 ELSE N

\* A new queue: CreateIoCompletionPort or CreateEvent, and SetQueueSize.
Init ==
    /\ build \in Builds
    /\ use \in Uses /\ size = SizeFor(use)
    /\ listed = [i \in Index |-> FALSE]
    /\ data = [i \in Index |-> None]
    /\ done = [i \in Index |-> FALSE]
    /\ bytes = [i \in Index |-> "zero"]
    /\ last_freed = -1 /\ position = 0
    /\ kernel = [i \in Index |-> "idle"] /\ events = <<>>
    /\ error = "zero"
    /\ pending = {} /\ turn = "poll" /\ draining = FALSE
    /\ answer = Silence

-------------------------------------------------------------------------------
(* ReadFile and WriteFile. *)

Free == {i \in Element : ~listed[i]}

\* The element the next request takes: the one freed last, or the first free.
Slots == IF last_freed # -1 THEN {last_freed}
         ELSE {i \in Free : \A j \in Free : i <= j}

Fill(i, r) == /\ data' = [data EXCEPT ![i] = r]
              /\ bytes' = [bytes EXCEPT ![i] = "zero"]
              /\ last_freed' = -1

\* TargetDisk::Read and Write: with ERROR_IO_PENDING the request is queued.
Believe(r) == pending' = IF error' = "pending" THEN pending \cup {r} ELSE pending

Accepted(i, r) ==
    /\ Fill(i, r)
    /\ listed' = [listed EXCEPT ![i] = TRUE]
    /\ kernel' = [kernel EXCEPT ![i] = "busy"]
    /\ error' = "pending"

Mutant_Refused(i, r) ==
    /\ build \in Refusals
    /\ Fill(i, r)
    /\ listed' = [listed EXCEPT ![i] = TRUE]
    /\ error' = "failed"
    /\ UNCHANGED kernel

\* The pointer to the control block is stored after aio_read, but before
\* io_submit.
Refused(i, r) ==
    /\ build \in Refusals
    /\ Fill(i, r)
    /\ listed' = [listed EXCEPT ![i] = (build = "libaio")]
    /\ error' = "failed"
    /\ UNCHANGED kernel

NoSlot == Slots = {} /\ UNCHANGED <<listed, data, bytes, last_freed, kernel, error>>

Issue(r) ==
    /\ turn = "issue" /\ ~draining /\ r \notin pending
    /\ \/ \E i \in Slots : Accepted(i, r) \/ Refused(i, r)
       \/ NoSlot
    /\ Believe(r)
    /\ turn' = "poll" /\ answer' = Silence
    /\ UNCHANGED <<build, use, size, done, position, events, draining>>

-------------------------------------------------------------------------------
(* The kernel. *)

Finish(i) ==
    /\ kernel[i] = "busy"
    /\ \E o \in Outcome : kernel' = [kernel EXCEPT ![i] = o]
    /\ events' = Append(events, i)
    /\ UNCHANGED <<queue, error, thread, answer>>

Ended == {i \in Element : kernel[i] \in Outcome /\ ~done[i]}

-------------------------------------------------------------------------------
(* GetQueuedCompletionStatus, and CQAIO::GetStatus which calls it. *)

\* What bytes_transferred becomes: aio_return's value, which is -1 for a
\* failed request, and with libaio the size the request asked for.
Count(o) == IF build = "libaio" \/ o = "full" THEN "all"
            ELSE IF o = "short" THEN "some" ELSE "minus one"

\* The elements in the order of a scan that starts at position.
Distance(i) == (i - position + size) % size
FirstOf(S) == {i \in S : \A j \in S : Distance(i) <= Distance(j)}

\* The request of element i is returned to the thread, and the element freed.
Return(i, ok, count) ==
    /\ listed' = [listed EXCEPT ![i] = FALSE]
    /\ last_freed' = i /\ position' = i + 1
    /\ pending' = pending \ {data[i]}
    /\ answer' = [request |-> data[i], ok |-> ok, bytes |-> count]
    /\ kernel' = [kernel EXCEPT ![i] = "idle"]

\* bytes_transferred is unsigned: it is not below zero for a failed request.
HandOut(i) ==
    /\ i \in FirstOf({j \in Element : done[j]})
    /\ done' = [done EXCEPT ![i] = FALSE]
    /\ Return(i, TRUE, bytes[i])
    /\ UNCHANGED <<build, use, size, data, bytes, events, error>>

Mutant_NoteOne(S) ==
    /\ done' = [i \in Index |-> done[i] \/ i \in S]
    /\ bytes' = [i \in Index |-> IF i \in S THEN Count(kernel[CHOOSE j \in S : TRUE])
                                 ELSE bytes[i]]
    /\ UNCHANGED listed

\* The requests that ended are tagged; their elements stay taken.
Note(S) ==
    /\ done' = [i \in Index |-> done[i] \/ i \in S]
    /\ bytes' = [i \in Index |-> IF i \in S THEN Count(kernel[i]) ELSE bytes[i]]
    /\ UNCHANGED listed

\* io_getevents returns one event, aio_suspend if there are some: all are tagged.
Tag ==
    /\ events # <<>> /\ Note(IF build = "libaio" THEN {Head(events)} ELSE Ended)
    /\ events' = IF build = "libaio" THEN Tail(events) ELSE <<>>

Mutant_MayWait == draining

\* Do_IOs may wait when all its transactions are queued, the drain always
\* does.  io_getevents is given no time limit.
MayWait == draining \/ pending = Request

tags == <<listed, done, bytes, events>>

NothingYet == events = <<>> /\ build = "posix" /\ UNCHANGED tags

\* Nothing to hand out; without a timeout the kernel is not asked.
TimeOut ==
    /\ \A i \in Element : ~done[i]
    /\ \/ MayWait /\ (Tag \/ NothingYet)
       \/ ~MayWait /\ UNCHANGED tags
    /\ error' = "pending"
    /\ answer' = Silence
    /\ UNCHANGED <<build, use, size, data, last_freed, position, kernel, pending>>

GetQueuedCompletionStatus == (\E i \in Element : HandOut(i)) \/ TimeOut

-------------------------------------------------------------------------------
(* GetOverlappedResult, which waits with libaio whatever it was asked. *)

\* Of the failures a full disk is told.
OverlappedHandOut(i) ==
    /\ i \in IF build = "libaio" THEN {Head(events)} ELSE FirstOf(Ended)
    /\ LET full == build = "posix" /\ kernel[i] = "nospace"
       IN  /\ Return(i, ~full, Count(kernel[i]))
           /\ error' = IF full THEN "failed" ELSE error
    /\ events' = Tail(events)
    /\ UNCHANGED <<build, use, size, data, done, bytes>>

OverlappedTimeOut ==
    /\ events = <<>> /\ build = "posix"
    /\ error' = "pending" /\ answer' = Silence
    /\ UNCHANGED <<queue, kernel, events, pending>>

\* Prepare asks about the writes that are queued.
GetOverlappedResult ==
    IF pending = {}
    THEN answer' = Silence /\ UNCHANGED <<queue, kernel, events, error, pending>>
    ELSE \/ events # <<>> /\ \E i \in Element : OverlappedHandOut(i)
         \/ OverlappedTimeOut

-------------------------------------------------------------------------------
Poll ==
    /\ turn = "poll" /\ ~(draining /\ pending = {})
    /\ IF use = "completion" THEN GetQueuedCompletionStatus ELSE GetOverlappedResult
    /\ turn' = IF draining \/ pending' = Request THEN "poll" ELSE "issue"
    /\ UNCHANGED draining

\* The test is stopped, or the disk is full.
Drain ==
    /\ ~draining /\ draining' = TRUE /\ turn' = "poll"
    /\ UNCHANGED <<queue, kernel, events, error, pending, answer>>

\* The files are closed and the queue is deleted, which cancels what is still
\* listed; the next SET_TARGETS or Prepare makes a new one.
Renew ==
    /\ draining /\ pending = {}
    /\ use' \in Uses /\ size' = SizeFor(use')
    /\ listed' = [i \in Index |-> FALSE]
    /\ data' = [i \in Index |-> None]
    /\ done' = [i \in Index |-> FALSE]
    /\ bytes' = [i \in Index |-> "zero"]
    /\ last_freed' = -1 /\ position' = 0
    /\ kernel' = [i \in Index |-> "idle"] /\ events' = <<>>
    /\ draining' = FALSE /\ turn' = "poll"
    /\ answer' = Silence
    /\ UNCHANGED <<build, error, pending>>

Next == \/ \E r \in Request : Issue(r)
        \/ Poll
        \/ \E i \in Index : Finish(i)
        \/ Drain \/ Renew

Spec == Init /\ [][Next]_vars

\* The thread runs, the kernel ends every request and does not refuse them
\* for ever: a thread that is always refused polls without waiting, and such
\* polls do not ask the kernel.  That a test is stopped is not assumed.
FairSpec == /\ Spec
            /\ WF_vars((\E r \in Request : Issue(r)) \/ Poll)
            /\ SF_vars(\E r \in Request : Issue(r) /\ pending' # pending)
            /\ \A i \in Index : WF_vars(Finish(i))

-------------------------------------------------------------------------------
Flag == [Index -> BOOLEAN]
Amount == {"zero", "all", "some", "minus one"}

\* The type of the queue and of the thread's view of it.
TypeOK ==
    /\ build \in Builds /\ use \in Uses /\ size \in 1 .. N
    /\ listed \in Flag /\ done \in Flag
    /\ data \in [Index -> Index \cup {None}]
    /\ bytes \in [Index -> Amount]
    /\ last_freed \in Element \cup {-1} /\ position \in 0 .. size
    /\ kernel \in [Index -> {"idle", "busy"} \cup Outcome]
    /\ events \in Seq(Element)
    /\ error \in {"zero", "pending", "failed"}
    /\ pending \subseteq Request
    /\ turn \in {"poll", "issue"} /\ draining \in BOOLEAN
    /\ answer \in [request : Index \cup {None}, ok : BOOLEAN,
                   bytes : Amount \cup {"none"}]

Used == {i \in Element : listed[i]}

\* Every request the thread waits for has exactly one element of the queue,
\* in which it is with the kernel, has ended or is tagged, and no element is
\* kept by a request the thread does not wait for: the elements suffice for
\* the transactions, whose number SetQueueSize was given.
ElementPerRequest ==
    /\ \A r \in pending : \E i \in Used : data[i] = r
    /\ \A i \in Used : /\ data[i] \in pending
                       /\ \A j \in Used : data[i] = data[j] => i = j

\* A control block is not taken for another request while the kernel or the
\* queue still has the first one in it: the element freed last, taken
\* without a look at it, is free.
NoReuse ==
    [][\A i \in Index :
         data'[i] \notin {data[i], None} => ~listed[i] /\ kernel[i] = "idle"]_vars

\* A request the thread waits for is returned to it with what this build
\* tells of the way the kernel ended that very request: not before it ended,
\* and not with what another request left in its element or in the scan.
Returned(r) == r \in pending /\ r \notin pending'

ToldOfItsOwn ==
    [][\A r \in Index : Returned(r) =>
         \E i \in Used : /\ data[i] = r /\ kernel[i] \in Outcome
                         /\ answer'.request = r /\ answer'.bytes = Count(kernel[i])]_vars

\* The queue is a completion port.
State(r) ==
    IF r \notin pending THEN "idle"
    ELSE IF \E i \in Used : data[i] = r /\ kernel[i] = "busy" THEN "pending"
    ELSE "finished"

Port == INSTANCE CompletionPort
            WITH Request <- Index, state <- [r \in Index |-> State(r)]

PortSpec == Port!FairSpec
===============================================================================
