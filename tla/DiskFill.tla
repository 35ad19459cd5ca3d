------------------------------- MODULE DiskFill -------------------------------
(***************************************************************************)
(* TargetDisk::Prepare (IOTargetDisk.cpp): the thread that fills the test  *)
(* file of a logical disk, first with large writes and then sector by      *)
(* sector, over a queue of PREPARE_QDEPTH asynchronous writes, while the   *)
(* device completes them in any order and the manager may say              *)
(* STOP_PREPARE at any time.                                               *)
(*                                                                         *)
(* Lengths are in sectors.  A step of the thread handles one slot of the   *)
(* queue; the buffers, the data patterns and failing allocations are left  *)
(* out.                                                                    *)
(***************************************************************************)
EXTENDS Integers, FiniteSets

CONSTANTS
    QDepth,         \* PREPARE_QDEPTH
    Large,          \* the sectors of a large write, 128 in the code
    Config          \* the disks and builds: records of Configs below

\* limit: the starting sector plus the maximum size, or 0 for no maximum size;
\* free: the room on the volume; errors: how many writes may fail otherwise.
Configs == [platform : {"windows", "posix", "libaio"},
            limit : Nat, free : Nat, errors : Nat]

ASSUME DiskFillAssumption ==
    /\ QDepth \in Nat \ {0}
    /\ Large \in Nat \ {0}
    /\ Config \subseteq Configs

Slot == 0 .. QDepth - 1

VARIABLES
    config,                \* the disk being prepared, never changes
    preparing,             \* *test_state = TestPreparing, cleared by the manager
    pc,                    \* "loop", "write", "check", "end" or "returned"
    i,                     \* the slot the thread is at
    write_ok, retval,
    onSingleSectors,       \* a switch to single sectors is due
    singleSectorSwitch,    \* the switch has been made
    prepare_offset,        \* *prepare_offset
    busy,                  \* the slots with busy[i] = TRUE
    num_outstanding,
    io,                    \* where the write of each slot is
    length,                \* sectors asked for, once "done" those transferred
    free,                  \* the room left on the volume
    mixed,                 \* large writes were outstanding at the switch
    failed                 \* how many writes failed or were cut short

queue == <<busy, num_outstanding, io, length>>
modes == <<onSingleSectors, singleSectorSwitch, mixed>>
vars  == <<config, preparing, pc, i, write_ok, retval, modes, prepare_offset,
           queue, free, failed>>

bytes == IF singleSectorSwitch THEN 1 ELSE Large
Outstanding == {s \in Slot : io[s] # "none"}

Init ==
    /\ config \in Config
    /\ preparing = TRUE
    /\ pc = "loop" /\ i = 0
    /\ write_ok = TRUE /\ retval = TRUE
    /\ onSingleSectors = FALSE /\ singleSectorSwitch = FALSE
    /\ prepare_offset = 0
    /\ busy = {} /\ num_outstanding = 0
    /\ io = [s \in Slot |-> "none"]
    /\ length = [s \in Slot |-> 0]
    /\ free = config.free
    /\ mixed = FALSE /\ failed = 0

-------------------------------------------------------------------------------
(* The manager and the device. *)

\* Manager::Stop_Prepare.
Stop_Prepare ==
    /\ preparing
    /\ preparing' = FALSE
    /\ UNCHANGED <<config, pc, i, write_ok, retval, modes, prepare_offset,
                   queue, free, failed>>

\* A write that does not fit is refused; on Unix the file may instead take what
\* is left, and libaio's GetOverlappedResult reports the length asked for
\* whatever became of the write.
Complete(s) ==
    /\ io[s] = "queued"
    /\ \/ /\ free >= length[s]
          /\ io' = [io EXCEPT ![s] = "done"]
          /\ free' = free - length[s]
          /\ UNCHANGED <<length, failed>>
       \/ /\ free < length[s] /\ config.platform # "libaio"
          /\ io' = [io EXCEPT ![s] = "full"]
          /\ UNCHANGED <<length, free, failed>>
       \/ /\ free < length[s] /\ free > 0 /\ config.platform = "posix"
          /\ io' = [io EXCEPT ![s] = "done"]
          /\ length' = [length EXCEPT ![s] = free]
          /\ free' = 0 /\ failed' = failed + 1
       \/ /\ free < length[s] /\ config.platform = "libaio"
          /\ io' = [io EXCEPT ![s] = "done"]
          /\ free' = 0
          /\ UNCHANGED <<length, failed>>
       \/ /\ failed < config.errors
          /\ io' = [io EXCEPT ![s] = IF config.platform = "libaio" THEN "done"
                                     ELSE "failed"]
          /\ failed' = failed + 1
          /\ UNCHANGED <<length, free>>
    /\ UNCHANGED <<config, preparing, pc, i, write_ok, retval, modes,
                   prepare_offset, busy, num_outstanding>>

-------------------------------------------------------------------------------
(* The thread. *)

\* The scan for completions is skipped when nothing is outstanding.
ToCheck(n) == /\ pc' = IF n > 0 THEN "check" ELSE "end"
              /\ i' = 0

\* On to the next slot of a scan, the last one ending it.
NextWrite(n) == IF i < QDepth - 1 THEN pc' = pc /\ i' = i + 1 ELSE ToCheck(n)
NextCheck    == IF i < QDepth - 1 THEN pc' = pc /\ i' = i + 1
                ELSE pc' = "end" /\ i' = 0

LoopHead ==
    /\ pc = "loop"
    /\ singleSectorSwitch' = (singleSectorSwitch \/ onSingleSectors)
    /\ mixed' = (mixed \/ (singleSectorSwitch' # singleSectorSwitch /\ busy # {}))
    /\ IF preparing /\ write_ok /\ num_outstanding < QDepth
       THEN pc' = "write" /\ i' = 0
       ELSE ToCheck(num_outstanding)
    /\ UNCHANGED <<config, preparing, write_ok, retval, onSingleSectors,
                   prepare_offset, queue, free, failed>>

Mutant_PastLimit == /\ config.limit # 0
                    /\ prepare_offset >= config.limit

\* The next write would go past the maximum size the user specified.
PastLimit == /\ config.limit # 0
             /\ prepare_offset + bytes > config.limit

\* fstatfs: no free block is left on the volume.
NoFreeBlock == config.platform = "libaio" /\ free <= 0

\* No more writes of this size.  Large writes are followed by single sectors,
\* after the rest of the scan; single sectors end the scan.
StopWriting ==
    /\ write_ok' = FALSE
    /\ IF singleSectorSwitch
       THEN ToCheck(num_outstanding) /\ UNCHANGED onSingleSectors
       ELSE NextWrite(num_outstanding) /\ onSingleSectors' = TRUE

\* The size limit is reached, or the volume is full, or there is nothing to do
\* for this slot.
PassSlot ==
    /\ pc = "write"
    /\ \/ /\ PastLimit /\ (singleSectorSwitch \/ ~NoFreeBlock)
          /\ StopWriting
       \/ /\ PastLimit /\ ~singleSectorSwitch /\ NoFreeBlock
          /\ write_ok' = FALSE /\ onSingleSectors' = TRUE
          /\ ToCheck(num_outstanding)
       \/ /\ ~PastLimit /\ NoFreeBlock
          /\ write_ok' = FALSE
          /\ ToCheck(num_outstanding)
          /\ UNCHANGED onSingleSectors
       \/ /\ ~PastLimit /\ ~NoFreeBlock
          /\ ~preparing \/ ~write_ok \/ i \in busy
          /\ NextWrite(num_outstanding)
          /\ UNCHANGED <<write_ok, onSingleSectors>>
    /\ UNCHANGED <<config, preparing, retval, singleSectorSwitch, mixed,
                   prepare_offset, queue, free, failed>>

MayWrite == /\ pc = "write"
            /\ ~PastLimit /\ ~NoFreeBlock
            /\ preparing /\ write_ok /\ i \notin busy

\* ERROR_IO_PENDING: the slot is busy until the device is done.
WritePending ==
    /\ MayWrite
    /\ prepare_offset' = prepare_offset + bytes
    /\ busy' = busy \cup {i}
    /\ num_outstanding' = num_outstanding + 1
    /\ io' = [io EXCEPT ![i] = "queued"]
    /\ length' = [length EXCEPT ![i] = bytes]
    /\ NextWrite(num_outstanding + 1)
    /\ UNCHANGED <<config, preparing, write_ok, retval, modes, free, failed>>

\* Windows may write at once.
WriteAtOnce ==
    /\ MayWrite /\ config.platform = "windows"
    /\ free >= bytes
    /\ prepare_offset' = prepare_offset + bytes
    /\ free' = free - bytes
    /\ NextWrite(num_outstanding)
    /\ UNCHANGED <<config, preparing, write_ok, retval, modes, queue, failed>>

\* ERROR_DISK_FULL, at once.
WriteFull ==
    /\ MayWrite /\ config.platform = "windows"
    /\ free < bytes
    /\ StopWriting
    /\ UNCHANGED <<config, preparing, retval, singleSectorSwitch, mixed,
                   prepare_offset, queue, free, failed>>

\* The write could not be started.
WriteError ==
    /\ MayWrite /\ failed < config.errors
    /\ write_ok' = FALSE /\ retval' = FALSE /\ failed' = failed + 1
    /\ ToCheck(num_outstanding)
    /\ UNCHANGED <<config, preparing, modes, prepare_offset, queue, free>>

\* The slot is idle, or its write is not complete yet.  GetOverlappedResult of
\* the libaio build does not look at its wait parameter: it waits.
SkipCheck ==
    /\ pc = "check"
    /\ i \notin busy \/ (io[i] = "queued" /\ config.platform # "libaio")
    /\ NextCheck
    /\ UNCHANGED <<config, preparing, write_ok, retval, modes, prepare_offset,
                   queue, free, failed>>

\* A completed write leaves its slot idle.
Collect ==
    /\ busy' = busy \ {i}
    /\ num_outstanding' = num_outstanding - 1
    /\ io' = [io EXCEPT ![i] = "none"]
    /\ length' = [length EXCEPT ![i] = 0]

Collectable(outcome) == pc = "check" /\ i \in busy /\ io[i] = outcome

\* The number of bytes transferred is compared with the current size of a write.
CollectDone ==
    /\ Collectable("done") /\ length[i] = bytes
    /\ Collect
    /\ NextCheck
    /\ UNCHANGED <<config, preparing, write_ok, retval, modes, prepare_offset,
                   free, failed>>

\* "wrote only": the rest of the queue is left to the next scan.
CollectShort ==
    /\ Collectable("done") /\ length[i] # bytes
    /\ Collect
    /\ write_ok' = FALSE /\ retval' = FALSE
    /\ pc' = "end" /\ i' = 0
    /\ UNCHANGED <<config, preparing, modes, prepare_offset, free, failed>>

Mutant_CollectFull ==
    /\ Collectable("full")
    /\ Collect
    /\ prepare_offset' = prepare_offset - bytes
    /\ write_ok' = FALSE
    /\ NextCheck
    /\ UNCHANGED <<config, preparing, retval, modes, free, failed>>

\* ERROR_DISK_FULL: the offset goes back by the current size of a write.
CollectFull ==
    /\ Collectable("full")
    /\ Collect
    /\ prepare_offset' = prepare_offset - bytes
    /\ write_ok' = FALSE
    /\ onSingleSectors' = (onSingleSectors \/ ~singleSectorSwitch)
    /\ NextCheck
    /\ UNCHANGED <<config, preparing, retval, singleSectorSwitch, mixed, free,
                   failed>>

\* Any other failure.  A failed aio_write has transferred (DWORD)-1 bytes, so
\* on POSIX it takes the branch of a write cut short.
CollectFailed ==
    /\ Collectable("failed")
    /\ Collect
    /\ write_ok' = FALSE /\ retval' = FALSE
    /\ IF config.platform = "posix" THEN pc' = "end" /\ i' = 0 ELSE NextCheck
    /\ UNCHANGED <<config, preparing, modes, prepare_offset, free, failed>>

\* The loop test.
KeepsGoing(ok) == preparing /\ (ok \/ num_outstanding > 0)

Mutant_LoopEnd ==
    /\ pc = "end"
    /\ UNCHANGED write_ok
    /\ pc' = IF KeepsGoing(write_ok) THEN "loop" ELSE "returned"
    /\ UNCHANGED <<config, preparing, i, retval, modes, prepare_offset, queue,
                   free, failed>>

\* Large writes are always to be followed by single sectors.
LoopEnd ==
    /\ pc = "end"
    /\ write_ok' = (write_ok \/ ~singleSectorSwitch)
    /\ pc' = IF KeepsGoing(write_ok') THEN "loop" ELSE "returned"
    /\ UNCHANGED <<config, preparing, i, retval, modes, prepare_offset, queue,
                   free, failed>>

Thread == \/ LoopHead \/ LoopEnd
          \/ PassSlot \/ WritePending \/ WriteAtOnce \/ WriteFull \/ WriteError
          \/ SkipCheck \/ CollectDone \/ CollectShort \/ CollectFull
          \/ CollectFailed

Next == Thread \/ Stop_Prepare \/ \E s \in Slot : Complete(s)

Spec == Init /\ [][Next]_vars

\* The thread runs, and the device answers every write.
FairSpec == /\ Spec
            /\ WF_vars(Thread)
            /\ \A s \in Slot : WF_vars(Complete(s))

-------------------------------------------------------------------------------
(* Properties. *)

\* Every variable keeps its type; prepare_offset, an unsigned 64-bit count, never
\* goes below 0 however many writes find the disk full.
TypeOK ==
    /\ config \in Config
    /\ preparing \in BOOLEAN /\ write_ok \in BOOLEAN /\ retval \in BOOLEAN
    /\ onSingleSectors \in BOOLEAN /\ singleSectorSwitch \in BOOLEAN
    /\ mixed \in BOOLEAN
    /\ pc \in {"loop", "write", "check", "end", "returned"}
    /\ i \in Slot
    /\ busy \subseteq Slot /\ num_outstanding \in 0 .. QDepth
    /\ io \in [Slot -> {"none", "queued", "done", "full", "failed"}]
    /\ length \in [Slot -> 0 .. Large]
    /\ prepare_offset \in Nat /\ free \in Nat /\ failed \in Nat

\* The test file never grows past the size the user specified, also when writes
\* of both sizes are under way and some of them are taken back.
WithinLimit == config.limit # 0 => prepare_offset <= config.limit

\* Prepare returns with writes still outstanding - on event structures that are
\* gone with its stack frame - only when it has been told to stop.
DrainedUnlessStopped == pc = "returned" /\ preparing => Outstanding = {}

\* Unless it was stopped, or large writes were still outstanding when it turned
\* to single sectors, Prepare returns FALSE exactly when a write failed, and TRUE means
\* a finished file: the volume is full or the file has the size the user specified, to
\* the sector.
TruthfulResult ==
    pc = "returned" /\ preparing /\ ~mixed =>
        /\ retval <=> failed = 0
        /\ retval => free = 0 \/ prepare_offset = config.limit

\* If writes fail only so often, the preparation comes to an end by itself.
FillEnds == <>(pc = "returned")
===============================================================================
