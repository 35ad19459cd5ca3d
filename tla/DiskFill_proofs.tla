--------------------------- MODULE DiskFill_proofs ----------------------------
(***************************************************************************)
(* For every depth of the queue, every size of a large write and every     *)
(* disk: the types of DiskFill, the size limit, the drained queue and the  *)
(* truth of the result.  Then, for TestCycle, with which it shares no      *)
(* definition: every set-up gets its queue depths back.                    *)
(***************************************************************************)
EXTENDS DiskFill, TestCycle, FiniteSetTheorems, SequenceTheorems, TLAPS

\* The counter is the number of busy slots, which are the slots with a write.
Counted == /\ num_outstanding = Cardinality(busy)
           /\ \A s \in Slot : s \in busy <=> io[s] # "none"

\* A write of the current size may be taken back for every busy slot.
Covered == prepare_offset >= num_outstanding * bytes

\* The loop goes on while something is outstanding.
LeftDrained == pc = "returned" /\ preparing => num_outstanding = 0

IInv == TypeOK /\ Counted /\ Covered /\ LeftDrained /\ WithinLimit

-------------------------------------------------------------------------------
(* The queue and the two sizes of a write. *)

\* The queue is finite and QDepth long.
LEMMA SlotsFinite == IsFiniteSet(Slot) /\ Cardinality(Slot) = QDepth
  BY DiskFillAssumption, FS_Interval DEF Slot

\* No more slots are busy than there are.
LEMMA BusySize ==
  ASSUME NEW S \in SUBSET Slot
  PROVE  IsFiniteSet(S) /\ Cardinality(S) \in 0 .. QDepth
<1>1. IsFiniteSet(S) /\ Cardinality(S) <= Cardinality(Slot)
  BY SlotsFinite, FS_Subset
<1>2. Cardinality(S) \in Nat
  BY <1>1, FS_CardinalityType
<1> QED
  BY <1>1, <1>2, SlotsFinite, DiskFillAssumption

\* Starting a write takes one slot, collecting it gives one back.
LEMMA OneSlot ==
  ASSUME NEW S \in SUBSET Slot, NEW s \in Slot
  PROVE  /\ s \notin S => Cardinality(S \cup {s}) = Cardinality(S) + 1
         /\ s \in S => Cardinality(S \ {s}) = Cardinality(S) - 1
  BY BusySize, FS_AddElement, FS_RemoveElement

\* A write is of one sector or Large, and all outstanding writes together can
\* only get shorter when the size changes.
LEMMA Sizes ==
  ASSUME NEW n \in Nat
  PROVE  /\ bytes \in 1 .. Large
         /\ n * Large \in Nat /\ n * Large >= n
         /\ (n + 1) * Large = n * Large + Large
         /\ (n - 1) * Large = n * Large - Large
<1>1. Large \in Nat /\ Large >= 1
  BY DiskFillAssumption
<1>2. bytes \in 1 .. Large
  BY <1>1 DEF bytes
<1>3. n * Large \in Nat
  BY <1>1
<1>4. n * Large >= n
  <2>1. n * (Large - 1) >= 0
    BY <1>1
  <2> QED
    BY <2>1, <1>1
<1>5. /\ (n + 1) * Large = n * Large + Large
      /\ (n - 1) * Large = n * Large - Large
  BY <1>1
<1> QED
  BY <1>2, <1>3, <1>4, <1>5

\* What an outstanding write of the current size adds or takes away.
LEMMA Scaled ==
  ASSUME NEW n \in Nat
  PROVE  /\ n * bytes \in Nat
         /\ (n + 1) * bytes = n * bytes + bytes
         /\ (n - 1) * bytes = n * bytes - bytes
  BY Sizes, DiskFillAssumption DEF bytes

\* A scan moves to a slot of the queue and never returns from Prepare.
LEMMA ScanMoves ==
  ASSUME i \in Slot, pc \in {"write", "check"}, NEW n,
         ToCheck(n) \/ NextWrite(n) \/ NextCheck \/ (pc' = "end" /\ i' = 0)
  PROVE  i' \in Slot /\ pc' \in {"write", "check", "end"}
  BY DiskFillAssumption DEF ToCheck, NextWrite, NextCheck, Slot

\* What the invariant says of a state, in the form the steps use.
LEMMA Facts ==
  ASSUME IInv
  PROVE  /\ num_outstanding \in Nat /\ prepare_offset \in Nat
         /\ bytes \in 1 .. Large /\ Large \in Nat
         /\ config \in Configs
         /\ busy \in SUBSET Slot
  BY Sizes, DiskFillAssumption DEF IInv, TypeOK

-------------------------------------------------------------------------------
(* The inductive invariant. *)

LEMMA InitIInv == Init => IInv
<1> SUFFICES ASSUME Init PROVE IInv
  OBVIOUS
<1>1. busy \subseteq Slot /\ num_outstanding = 0 /\ Cardinality(busy) = 0
  BY FS_EmptySet DEF Init
<1>2. TypeOK
  <2>1. 0 \in Slot /\ config \in Config /\ free \in Nat
    BY DiskFillAssumption DEF Init, Slot, Configs
  <2>2. 0 \in 0 .. QDepth /\ 0 \in 0 .. Large
    BY DiskFillAssumption
  <2> QED
    BY <1>1, <2>1, <2>2 DEF Init, TypeOK
<1>3. Counted /\ LeftDrained
  BY <1>1 DEF Init, Counted, LeftDrained
<1>4. Covered /\ WithinLimit
  BY <1>1, Sizes, DiskFillAssumption DEF Init, Covered, WithinLimit, Configs
<1> QED
  BY <1>2, <1>3, <1>4 DEF IInv

\* The manager only says stop.
LEMMA StopStep == IInv /\ Stop_Prepare => IInv'
<1> SUFFICES ASSUME IInv, Stop_Prepare PROVE IInv'
  OBVIOUS
<1>1. /\ preparing' = FALSE
      /\ UNCHANGED <<config, pc, i, write_ok, retval, onSingleSectors>>
      /\ UNCHANGED <<singleSectorSwitch, mixed, prepare_offset, busy>>
      /\ UNCHANGED <<num_outstanding, io, length, free, failed>>
  BY DEF Stop_Prepare, modes, queue
<1>2. TypeOK'
  BY <1>1 DEF IInv, TypeOK
<1>3. Counted' /\ Covered' /\ WithinLimit' /\ LeftDrained'
  BY <1>1 DEF IInv, Counted, Covered, LeftDrained, WithinLimit, bytes
<1> QED
  BY <1>2, <1>3 DEF IInv

\* The device completes a write.
LEMMA CompleteStep ==
  ASSUME IInv, NEW s \in Slot, Complete(s)
  PROVE  IInv'
<1>1. /\ io \in [Slot -> {"none", "queued", "done", "full", "failed"}]
      /\ length \in [Slot -> 0 .. Large] /\ free \in Nat /\ failed \in Nat
      /\ io[s] = "queued"
  BY DEF IInv, TypeOK, Complete
<1>2. TypeOK'
  <2>1. free' \in Nat /\ failed' \in Nat
    BY <1>1, Facts DEF Complete
  <2>2. io' \in [Slot -> {"none", "queued", "done", "full", "failed"}]
    BY <1>1 DEF Complete
  <2>3. length' \in [Slot -> 0 .. Large]
    BY <1>1, Facts DEF Complete
  <2> QED
    BY <2>1, <2>2, <2>3 DEF IInv, TypeOK, Complete, modes
<1>3. Counted'
  <2>1. \A t \in Slot : io'[t] # "none" <=> io[t] # "none"
    BY <1>1 DEF Complete
  <2> QED
    BY <2>1 DEF IInv, Counted, Complete
<1>4. Covered' /\ LeftDrained' /\ WithinLimit'
  BY DEF IInv, Covered, LeftDrained, WithinLimit, Complete, modes, bytes
<1> QED
  BY <1>2, <1>3, <1>4 DEF IInv

\* The top of the loop may switch to single sectors: what is outstanding then
\* counts for less.
LEMMA LoopHeadStep == IInv /\ LoopHead => IInv'
<1> SUFFICES ASSUME IInv, LoopHead PROVE IInv'
  OBVIOUS
<1>1. i' \in Slot /\ pc' \in {"write", "check", "end"}
  BY DiskFillAssumption DEF LoopHead, ToCheck, Slot
<1>2. TypeOK' /\ Counted' /\ LeftDrained' /\ WithinLimit'
  BY <1>1 DEF IInv, TypeOK, Counted, LeftDrained, WithinLimit, LoopHead, queue
<1>3. Covered'
  <2>1. CASE bytes' = bytes
    BY <2>1 DEF IInv, Covered, LoopHead, queue
  <2>2. CASE bytes' = 1 /\ bytes = Large
    <3>1. num_outstanding * bytes' = num_outstanding
      BY <2>2, Facts
    <3>2. num_outstanding * bytes >= num_outstanding
      BY <2>2, Facts, Sizes
    <3> QED
      BY <3>1, <3>2, <2>2, Facts, Sizes DEF IInv, Covered, LoopHead, queue
  <2> QED
    BY <2>1, <2>2 DEF bytes, LoopHead
<1> QED
  BY <1>2, <1>3 DEF IInv

\* Prepare returns from the loop test only.
LEMMA LoopEndStep == IInv /\ LoopEnd => IInv'
<1> SUFFICES ASSUME IInv, LoopEnd PROVE IInv'
  OBVIOUS
<1>1. TypeOK' /\ Counted' /\ Covered' /\ WithinLimit'
  BY DEF IInv, TypeOK, Counted, Covered, WithinLimit, LoopEnd, modes, queue, bytes
<1>2. LeftDrained'
  BY Facts DEF LeftDrained, LoopEnd, KeepsGoing, queue
<1> QED
  BY <1>1, <1>2 DEF IInv

\* Steps of a scan that leave the queue and the offset alone.
LEMMA QuietStep ==
  ASSUME IInv, PassSlot \/ WriteFull \/ WriteError \/ SkipCheck
  PROVE  IInv'
<1>1. pc' \in {"write", "check", "end"} /\ i' \in Slot
  <2>1. pc \in {"write", "check"} /\ i \in Slot
    BY DEF IInv, TypeOK, PassSlot, WriteFull, WriteError, SkipCheck, MayWrite
  <2>2. \E n \in {num_outstanding} : ToCheck(n) \/ NextWrite(n) \/ NextCheck
    BY DEF PassSlot, WriteFull, WriteError, SkipCheck, StopWriting
  <2> QED
    BY <2>1, <2>2, ScanMoves
<1>2. /\ UNCHANGED <<config, preparing, singleSectorSwitch, mixed, free>>
      /\ UNCHANGED <<prepare_offset, queue>>
  BY DEF PassSlot, WriteFull, WriteError, SkipCheck, modes
<1>3. /\ onSingleSectors' \in BOOLEAN /\ write_ok' \in BOOLEAN
      /\ retval' \in BOOLEAN /\ failed' \in Nat
  <2>1. CASE PassSlot
    BY <2>1 DEF IInv, TypeOK, PassSlot, StopWriting
  <2>2. CASE WriteFull
    BY <2>2 DEF IInv, TypeOK, WriteFull, StopWriting
  <2>3. CASE WriteError
    <3>1. UNCHANGED onSingleSectors
      BY <2>3 DEF WriteError, modes
    <3>2. write_ok' = FALSE /\ retval' = FALSE /\ failed' = failed + 1
      BY <2>3 DEF WriteError
    <3>3. failed' \in Nat
      BY <3>2 DEF IInv, TypeOK
    <3>4. onSingleSectors' \in BOOLEAN
      BY <3>1 DEF IInv, TypeOK
    <3> QED
      BY <3>2, <3>3, <3>4
  <2>4. CASE SkipCheck
    <3>1. UNCHANGED <<onSingleSectors, write_ok, retval, failed>>
      BY <2>4 DEF SkipCheck, modes
    <3> QED
      BY <3>1 DEF IInv, TypeOK
  <2> QED
    BY <2>1, <2>2, <2>3, <2>4
<1> QED
  BY <1>1, <1>2, <1>3 DEF IInv, TypeOK, Counted, Covered, LeftDrained,
                          WithinLimit, queue, bytes

\* A write at once moves the offset, by no more than the limit allows.
LEMMA WriteAtOnceStep == IInv /\ WriteAtOnce => IInv'
<1> SUFFICES ASSUME IInv, WriteAtOnce PROVE IInv'
  OBVIOUS
<1>1. pc' \in {"write", "check", "end"} /\ i' \in Slot
  BY ScanMoves DEF IInv, TypeOK, WriteAtOnce, MayWrite
<1>2. /\ prepare_offset' = prepare_offset + bytes
      /\ prepare_offset' \in Nat /\ free' \in Nat
      /\ bytes' = bytes
  BY Facts DEF IInv, TypeOK, WriteAtOnce, modes, bytes
<1>3. TypeOK' /\ Counted' /\ LeftDrained'
  BY <1>1, <1>2 DEF IInv, TypeOK, Counted, LeftDrained, WriteAtOnce, modes, queue
<1>4. Covered'
  BY <1>2, Facts, Scaled DEF IInv, Covered, WriteAtOnce, queue
<1>5. WithinLimit'
  BY <1>2, Facts DEF WithinLimit, WriteAtOnce, MayWrite, PastLimit, Configs
<1> QED
  BY <1>3, <1>4, <1>5 DEF IInv

\* A queued write takes one more slot.
LEMMA WritePendingStep == IInv /\ WritePending => IInv'
<1> SUFFICES ASSUME IInv, WritePending PROVE IInv'
  OBVIOUS
<1>1. pc' \in {"write", "check", "end"} /\ i' \in Slot /\ i \in Slot /\ i \notin busy
  BY ScanMoves DEF IInv, TypeOK, WritePending, MayWrite
<1>2. /\ prepare_offset' = prepare_offset + bytes
      /\ prepare_offset' \in Nat
      /\ num_outstanding' = num_outstanding + 1
      /\ bytes' = bytes
  BY Facts DEF WritePending, modes, bytes
<1>3. Counted'
  <2>1. num_outstanding' = Cardinality(busy')
    BY <1>1, Facts, OneSlot DEF IInv, Counted, WritePending
  <2>2. \A s \in Slot : s \in busy' <=> io'[s] # "none"
    BY <1>1 DEF IInv, TypeOK, Counted, WritePending
  <2> QED
    BY <2>1, <2>2 DEF Counted
<1>4. TypeOK'
  <2>1. busy' \in SUBSET Slot
    BY <1>1, Facts DEF WritePending
  <2>2. num_outstanding' \in 0 .. QDepth
    BY <2>1, <1>3, BusySize DEF Counted
  <2>3. /\ io' \in [Slot -> {"none", "queued", "done", "full", "failed"}]
        /\ length' \in [Slot -> 0 .. Large]
    BY <1>1, Facts DEF IInv, TypeOK, WritePending
  <2> QED
    BY <1>1, <1>2, <2>1, <2>2, <2>3 DEF IInv, TypeOK, WritePending, modes
<1>5. Covered' /\ LeftDrained'
  <2>1. num_outstanding' * bytes' = num_outstanding * bytes + bytes
    BY <1>2, Facts, Scaled
  <2>2. num_outstanding * bytes \in Nat
    BY Facts, Scaled
  <2> QED
    BY <1>1, <1>2, <2>1, <2>2, Facts DEF IInv, Covered, LeftDrained
<1>6. WithinLimit'
  BY <1>2, Facts DEF WithinLimit, WritePending, MayWrite, PastLimit, Configs
<1> QED
  BY <1>3, <1>4, <1>5, <1>6 DEF IInv

\* Collecting a write frees its slot; a write that found the disk full takes the
\* offset back.
LEMMA CollectStep ==
  ASSUME IInv, CollectDone \/ CollectShort \/ CollectFull \/ CollectFailed
  PROVE  IInv'
<1>1. /\ Collect
      /\ pc \in {"write", "check"} /\ i \in Slot /\ i \in busy
      /\ bytes' = bytes /\ UNCHANGED <<config, preparing, mixed, free, failed>>
  BY DEF IInv, TypeOK, CollectDone, CollectShort, CollectFull, CollectFailed,
         Collectable, modes, bytes
<1>2. pc' \in {"write", "check", "end"} /\ i' \in Slot
  <2>1. NextCheck \/ (pc' = "end" /\ i' = 0)
    BY DEF CollectDone, CollectShort, CollectFull, CollectFailed
  <2> QED
    BY <1>1, <2>1, ScanMoves
<1>3. Counted'
  <2>1. num_outstanding' = Cardinality(busy')
    BY <1>1, Facts, OneSlot DEF IInv, Counted, Collect
  <2>2. \A s \in Slot : s \in busy' <=> io'[s] # "none"
    BY <1>1 DEF IInv, TypeOK, Counted, Collect
  <2> QED
    BY <2>1, <2>2 DEF Counted
<1>4. busy' \in SUBSET Slot /\ num_outstanding' \in 0 .. QDepth
  <2>1. busy' \in SUBSET Slot
    BY <1>1, Facts DEF Collect
  <2> QED
    BY <2>1, <1>3, BusySize DEF Counted
<1>5. /\ num_outstanding' = num_outstanding - 1
      /\ num_outstanding' \in Nat
      /\ num_outstanding * bytes \in Nat /\ num_outstanding' * bytes \in Nat
      /\ num_outstanding' * bytes = num_outstanding * bytes - bytes
  BY <1>1, <1>4, Facts, Scaled DEF Collect
<1>6. /\ prepare_offset' \in Nat /\ prepare_offset' <= prepare_offset
      /\ prepare_offset' >= num_outstanding' * bytes
  <2>1. prepare_offset' \in {prepare_offset, prepare_offset - bytes}
    BY DEF CollectDone, CollectShort, CollectFull, CollectFailed
  <2>2. prepare_offset >= num_outstanding * bytes
    BY DEF IInv, Covered
  <2> QED
    BY <1>5, <2>1, <2>2, Facts
<1>7. TypeOK'
  <2>1. /\ io' \in [Slot -> {"none", "queued", "done", "full", "failed"}]
        /\ length' \in [Slot -> 0 .. Large]
    BY <1>1, Facts DEF IInv, TypeOK, Collect
  <2>2. /\ write_ok' \in BOOLEAN /\ retval' \in BOOLEAN
        /\ onSingleSectors' \in BOOLEAN /\ singleSectorSwitch' \in BOOLEAN
    BY DEF IInv, TypeOK, CollectDone, CollectShort, CollectFull, CollectFailed, modes
  <2> QED
    BY <1>1, <1>2, <1>4, <1>6, <2>1, <2>2 DEF IInv, TypeOK
<1>8. Covered' /\ LeftDrained'
  BY <1>1, <1>2, <1>6 DEF Covered, LeftDrained
<1>9. WithinLimit'
  BY <1>1, <1>6, Facts DEF IInv, WithinLimit, Configs
<1> QED
  BY <1>3, <1>7, <1>8, <1>9 DEF IInv

LEMMA Inductive == IInv /\ [Next]_vars => IInv'
<1> SUFFICES ASSUME IInv, [Next]_vars PROVE IInv'
  OBVIOUS
<1>1. CASE Thread
  BY <1>1, LoopHeadStep, LoopEndStep, QuietStep, WriteAtOnceStep,
     WritePendingStep, CollectStep DEF Thread
<1>2. CASE Stop_Prepare
  BY <1>2, StopStep
<1>3. CASE \E s \in Slot : Complete(s)
  BY <1>3, CompleteStep
<1>4. CASE UNCHANGED vars
  BY <1>4 DEF IInv, TypeOK, Counted, Covered, LeftDrained, WithinLimit, vars,
              queue, modes, bytes
<1> QED
  BY <1>1, <1>2, <1>3, <1>4 DEF Next

-------------------------------------------------------------------------------
(* Theorems. *)

\* The invariant holds in every reachable state.
THEOREM FillInvariance == Spec => []IInv
  BY InitIInv, Inductive, PTL DEF Spec

\* Type correctness; the offset never underflows, for any disk and device.
THEOREM FillTypeCorrect == Spec => []TypeOK
<1>1. IInv => TypeOK
  BY DEF IInv
<1> QED
  BY <1>1, FillInvariance, PTL

\* The test file stays within the size the user specified.
THEOREM SizeLimitKept == Spec => []WithinLimit
<1>1. IInv => WithinLimit
  BY DEF IInv
<1> QED
  BY <1>1, FillInvariance, PTL

\* Unless told to stop, Prepare returns with no write outstanding.
THEOREM ReturnsDrained == Spec => []DrainedUnlessStopped
<1>1. IInv => DrainedUnlessStopped
  <2> SUFFICES ASSUME IInv, pc = "returned", preparing PROVE Outstanding = {}
    BY DEF DrainedUnlessStopped
  <2>1. Cardinality(busy) = 0
    BY DEF IInv, Counted, LeftDrained
  <2>2. busy = {}
    BY <2>1, Facts, BusySize, FS_EmptySet
  <2> QED
    BY <2>2 DEF IInv, Counted, Outstanding
<1> QED
  BY <1>1, FillInvariance, PTL

-------------------------------------------------------------------------------
(* The result of Prepare, on the builds that are told how a write ended. *)

Told == \A c \in Config : c.platform # "libaio"

\* A write that failed or was cut short, and that the thread has yet to collect.
Bad(s) == io[s] = "failed" \/ (io[s] = "done" /\ length[s] # bytes)

\* Without large writes left over from before the switch, the outstanding
\* writes are of the current size, and the failures are those that the thread
\* has collected, which make the result FALSE, and those it will collect.
OfOneSize    == ~mixed => \A s \in busy : io[s] # "done" => length[s] = bytes
FailuresShow == ~mixed => (failed = 0 <=> retval /\ \A s \in Slot : ~Bad(s))

\* A write that did not fit would not fit now.
FullIsFull == \A s \in Slot : io[s] = "full" => free < length[s]

\* Single sectors are given up for an error, a full volume or the size limit.
GivenUp == /\ ~mixed /\ singleSectorSwitch /\ ~write_ok /\ retval
              => free = 0 \/ prepare_offset = config.limit

\* Large writes are given up for single sectors only.
LargeFirst == /\ pc = "loop" /\ ~singleSectorSwitch => write_ok
              /\ pc = "returned" /\ preparing => singleSectorSwitch /\ ~write_ok

ResultInv == OfOneSize /\ FailuresShow /\ FullIsFull /\ GivenUp /\ LargeFirst

\* Steps of a scan that touch no write and no size.
LEMMA ResultScan ==
  ASSUME IInv, ResultInv, pc' \in {"write", "check", "end"},
         UNCHANGED <<config, singleSectorSwitch, mixed, queue, free, failed, retval>>,
         GivenUp'
  PROVE  ResultInv'
<1>1. bytes' = bytes /\ \A s \in Slot : Bad(s)' <=> Bad(s)
  BY DEF bytes, Bad, queue
<1>2. OfOneSize' /\ FullIsFull'
  BY <1>1 DEF ResultInv, OfOneSize, FullIsFull, queue
<1>3. FailuresShow'
  BY <1>1 DEF ResultInv, FailuresShow
<1>4. LargeFirst'
  BY DEF LargeFirst
<1> QED
  BY <1>2, <1>3, <1>4 DEF ResultInv

LEMMA ResultComplete ==
  ASSUME Told, IInv, ResultInv, NEW s \in Slot, Complete(s)
  PROVE  ResultInv'
<1>1. /\ io \in [Slot -> {"none", "queued", "done", "full", "failed"}]
      /\ length \in [Slot -> 0 .. Large] /\ free \in Nat /\ failed \in Nat
      /\ io[s] = "queued" /\ s \in busy /\ config.platform # "libaio"
  BY DEF IInv, TypeOK, Counted, Complete, Told
<1>2. /\ UNCHANGED <<config, preparing, pc, write_ok, retval, singleSectorSwitch, mixed>>
      /\ UNCHANGED <<prepare_offset, busy>> /\ bytes' = bytes
  BY DEF Complete, modes, bytes
<1>3. /\ free' <= free /\ free' \in Nat
      /\ \A t \in Slot : t # s => io'[t] = io[t] /\ length'[t] = length[t]
      /\ free = 0 => free' = 0
  BY <1>1, Facts DEF Complete
<1>4. \A t \in Slot : t # s => (Bad(t)' <=> Bad(t))
  BY <1>2, <1>3 DEF Bad
<1>5. ~Bad(s)
  BY <1>1 DEF Bad
<1>6. ~mixed => length[s] = bytes
  BY <1>1 DEF ResultInv, OfOneSize
<1>7. \/ io'[s] = "done" /\ length'[s] = length[s] /\ failed' = failed
      \/ io'[s] = "full" /\ length'[s] = length[s] /\ failed' = failed /\ free' < length'[s]
      \/ io'[s] = "done" /\ length'[s] # length[s] /\ failed' = failed + 1
      \/ io'[s] = "failed" /\ length'[s] = length[s] /\ failed' = failed + 1
  BY <1>1 DEF Complete
<1>8. OfOneSize'
  BY <1>2, <1>3, <1>6, <1>7, Facts DEF ResultInv, OfOneSize
<1>9. FailuresShow'
  <2>1. CASE failed' = failed
    <3>1. ~mixed => ~Bad(s)'
      BY <1>1, <1>2, <1>6, <1>7, <2>1 DEF Bad
    <3> QED
      BY <1>2, <1>4, <1>5, <2>1, <3>1 DEF ResultInv, FailuresShow
  <2>2. CASE failed' = failed + 1
    <3>1. ~mixed => Bad(s)'
      BY <1>1, <1>2, <1>6, <1>7, <2>2 DEF Bad
    <3>2. failed' # 0
      BY <1>1, <2>2
    <3> QED
      BY <1>2, <3>1, <3>2 DEF FailuresShow
  <2> QED
    BY <1>7, <2>1, <2>2
<1>10. FullIsFull'
  BY <1>1, <1>3, <1>7 DEF ResultInv, FullIsFull
<1>11. GivenUp' /\ LargeFirst'
  BY <1>2, <1>3 DEF ResultInv, GivenUp, LargeFirst
<1> QED
  BY <1>8, <1>9, <1>10, <1>11 DEF ResultInv

LEMMA ResultLoop ==
  ASSUME IInv, ResultInv, LoopHead \/ LoopEnd
  PROVE  ResultInv'
<1>1. UNCHANGED <<config, preparing, retval, prepare_offset, queue, free, failed>>
  BY DEF LoopHead, LoopEnd
<1>2. CASE LoopEnd
  <2>1. UNCHANGED <<singleSectorSwitch, mixed>> /\ bytes' = bytes
    BY <1>2 DEF LoopEnd, modes, bytes
  <2>2. \A s \in Slot : Bad(s)' <=> Bad(s)
    BY <1>1, <2>1 DEF Bad, queue
  <2>3. OfOneSize' /\ FullIsFull' /\ FailuresShow'
    BY <1>1, <2>1, <2>2 DEF ResultInv, OfOneSize, FullIsFull, FailuresShow, queue
  <2>4. /\ write_ok' <=> write_ok \/ ~singleSectorSwitch
        /\ pc' = "loop" \/ (pc' = "returned" /\ (preparing => ~write_ok'))
    BY <1>2 DEF LoopEnd, KeepsGoing
  <2>5. GivenUp'
    BY <1>1, <2>1, <2>4 DEF ResultInv, GivenUp
  <2>6. LargeFirst'
    BY <1>1, <2>1, <2>4 DEF LargeFirst
  <2> QED
    BY <2>3, <2>5, <2>6 DEF ResultInv
<1>3. CASE LoopHead
  <2>1. /\ pc = "loop" /\ pc' \in {"write", "check", "end"} /\ UNCHANGED write_ok
        /\ singleSectorSwitch' = (singleSectorSwitch \/ onSingleSectors)
        /\ mixed' = (mixed \/ (singleSectorSwitch' # singleSectorSwitch /\ busy # {}))
    BY <1>3 DEF LoopHead, ToCheck
  <2>2. CASE singleSectorSwitch' = singleSectorSwitch
    <3>1. GivenUp'
      BY <1>1, <2>1, <2>2 DEF ResultInv, GivenUp
    <3> QED
      BY <1>1, <2>1, <2>2, <3>1, ResultScan DEF IInv, TypeOK
  <2>3. CASE singleSectorSwitch' # singleSectorSwitch
    <3>1. ~singleSectorSwitch /\ write_ok
      BY <2>1, <2>3 DEF ResultInv, LargeFirst, IInv, TypeOK
    <3>2. ~mixed' => ~mixed /\ busy = {}
      BY <2>1, <2>3
    <3>3. ~mixed' => \A s \in Slot : io[s] = "none"
      BY <3>2 DEF IInv, Counted
    <3>4. ~mixed' => \A s \in Slot : ~Bad(s) /\ ~Bad(s)'
      BY <1>1, <3>3 DEF Bad, queue
    <3>5. FailuresShow'
      BY <1>1, <3>2, <3>4 DEF ResultInv, FailuresShow
    <3>6. OfOneSize' /\ FullIsFull'
      BY <1>1, <3>2 DEF ResultInv, OfOneSize, FullIsFull, queue
    <3>7. GivenUp' /\ LargeFirst'
      BY <2>1, <3>1 DEF GivenUp, LargeFirst
    <3> QED
      BY <3>5, <3>6, <3>7 DEF ResultInv
  <2> QED
    BY <2>2, <2>3
<1> QED
  BY <1>2, <1>3

\* Why writing is given up.
LEMMA ResultPass ==
  ASSUME Told, IInv, ResultInv, PassSlot \/ WriteFull \/ SkipCheck
  PROVE  ResultInv'
<1>1. pc' \in {"write", "check", "end"}
  <2>1. pc \in {"write", "check"} /\ i \in Slot
    BY DEF IInv, TypeOK, PassSlot, WriteFull, SkipCheck, MayWrite
  <2>2. \E n \in {num_outstanding} : ToCheck(n) \/ NextWrite(n) \/ NextCheck
    BY DEF PassSlot, WriteFull, SkipCheck, StopWriting
  <2> QED
    BY <2>1, <2>2, ScanMoves
<1>2. /\ UNCHANGED <<config, singleSectorSwitch, mixed, queue, free, failed, retval>>
      /\ UNCHANGED prepare_offset
  BY DEF PassSlot, WriteFull, SkipCheck, modes
<1>3. /\ config \in Configs /\ prepare_offset \in Nat /\ free \in Nat
      /\ ~NoFreeBlock
  BY Facts DEF IInv, TypeOK, Told, NoFreeBlock
<1>4. singleSectorSwitch /\ write_ok' # write_ok => free = 0 \/ prepare_offset = config.limit
  <2> SUFFICES ASSUME singleSectorSwitch, write_ok' # write_ok
               PROVE  free = 0 \/ prepare_offset = config.limit
    OBVIOUS
  <2>1. bytes = 1
    BY DEF bytes
  <2>2. CASE WriteFull
    BY <1>3, <2>1, <2>2 DEF WriteFull
  <2>3. CASE PassSlot
    <3>1. PastLimit
      BY <1>3, <2>3 DEF PassSlot
    <3>2. config.limit # 0 /\ prepare_offset + 1 > config.limit /\ config.limit \in Nat
      BY <1>3, <2>1, <3>1 DEF PastLimit, Configs
    <3>3. prepare_offset <= config.limit
      BY <3>2 DEF IInv, WithinLimit
    <3> QED
      BY <1>3, <3>2, <3>3
  <2>4. CASE SkipCheck
    BY <2>4 DEF SkipCheck
  <2> QED
    BY <2>2, <2>3, <2>4
<1>5. GivenUp'
  BY <1>2, <1>4 DEF ResultInv, GivenUp
<1> QED
  BY <1>1, <1>2, <1>5, ResultScan

LEMMA ResultWrite ==
  ASSUME IInv, ResultInv, WritePending \/ WriteAtOnce \/ WriteError
  PROVE  ResultInv'
<1>1. /\ write_ok /\ i \in Slot /\ i \notin busy /\ io[i] = "none"
      /\ bytes' = bytes /\ UNCHANGED <<config, singleSectorSwitch, mixed>>
  BY DEF WritePending, WriteAtOnce, WriteError, MayWrite, IInv, TypeOK, Counted, modes, bytes
<1>2. pc' \in {"write", "check", "end"}
  BY ScanMoves DEF IInv, TypeOK, WritePending, WriteAtOnce, WriteError, MayWrite
<1>3. LargeFirst'
  BY <1>2 DEF LargeFirst
<1>4. CASE WritePending
  <2>1. /\ io' = [io EXCEPT ![i] = "queued"] /\ length' = [length EXCEPT ![i] = bytes]
        /\ busy' = busy \cup {i} /\ UNCHANGED <<write_ok, retval, free, failed>>
    BY <1>4 DEF WritePending
  <2>2. /\ io'[i] = "queued" /\ length'[i] = bytes
        /\ \A s \in Slot : s # i => io'[s] = io[s] /\ length'[s] = length[s]
    BY <1>1, <2>1 DEF IInv, TypeOK
  <2>3. \A s \in Slot : Bad(s)' <=> Bad(s)
    <3>1. \A s \in Slot : s = i => ~Bad(s) /\ ~Bad(s)'
      BY <1>1, <2>2 DEF Bad
    <3>2. \A s \in Slot : s # i => (Bad(s)' <=> Bad(s))
      BY <1>1, <2>2 DEF Bad
    <3> QED
      BY <3>1, <3>2
  <2>4. OfOneSize' /\ FullIsFull' /\ FailuresShow'
    BY <1>1, <2>1, <2>2, <2>3, Facts DEF ResultInv, OfOneSize, FullIsFull, FailuresShow
  <2> QED
    BY <1>1, <1>3, <2>1, <2>4 DEF ResultInv, GivenUp
<1>5. CASE WriteAtOnce
  <2>1. UNCHANGED <<write_ok, retval, queue, failed>> /\ free' = free - bytes
        /\ free' \in Nat /\ free' <= free
    BY <1>5, Facts DEF WriteAtOnce, IInv, TypeOK
  <2>2. \A s \in Slot : Bad(s)' <=> Bad(s)
    BY <1>1, <2>1 DEF Bad, queue
  <2>3. OfOneSize' /\ FailuresShow'
    BY <1>1, <2>1, <2>2 DEF ResultInv, OfOneSize, FailuresShow, queue
  <2>4. FullIsFull'
    <3>1. length \in [Slot -> 0 .. Large] /\ free \in Nat /\ Large \in Nat
      BY Facts DEF IInv, TypeOK
    <3> QED
      BY <2>1, <3>1 DEF ResultInv, FullIsFull, queue
  <2> QED
    BY <1>1, <1>3, <2>1, <2>3, <2>4 DEF ResultInv, GivenUp
<1>6. CASE WriteError
  <2>1. ~retval' /\ failed' # 0 /\ UNCHANGED <<queue, free>>
    BY <1>6 DEF WriteError, IInv, TypeOK
  <2> QED
    BY <1>1, <1>3, <2>1 DEF ResultInv, OfOneSize, FailuresShow, FullIsFull, GivenUp, queue
<1> QED
  BY <1>4, <1>5, <1>6

LEMMA ResultCollect ==
  ASSUME IInv, ResultInv, CollectDone \/ CollectShort \/ CollectFull \/ CollectFailed
  PROVE  ResultInv'
<1>1. /\ Collect /\ pc = "check" /\ i \in Slot /\ i \in busy
      /\ bytes' = bytes
      /\ UNCHANGED <<config, preparing, singleSectorSwitch, mixed, free, failed>>
  BY DEF IInv, TypeOK, CollectDone, CollectShort, CollectFull, CollectFailed,
         Collectable, modes, bytes
<1>2. pc' \in {"write", "check", "end"}
  <2>1. NextCheck \/ (pc' = "end" /\ i' = 0)
    BY DEF CollectDone, CollectShort, CollectFull, CollectFailed
  <2> QED
    BY <1>1, <2>1, ScanMoves
<1>3. /\ io'[i] = "none" /\ i \notin busy'
      /\ \A s \in Slot : s # i => /\ io'[s] = io[s] /\ length'[s] = length[s]
                                  /\ (s \in busy' <=> s \in busy)
  BY <1>1 DEF Collect, IInv, TypeOK
<1>4. \A s \in Slot : IF s = i THEN ~Bad(s)' ELSE Bad(s)' <=> Bad(s)
  BY <1>1, <1>3 DEF Bad
<1>5. OfOneSize' /\ FullIsFull' /\ LargeFirst'
  BY <1>1, <1>2, <1>3, Facts DEF ResultInv, OfOneSize, FullIsFull, LargeFirst, Collect
<1>6. CASE CollectDone
  <2>1. ~Bad(i) /\ UNCHANGED <<retval, write_ok, prepare_offset>>
    BY <1>6 DEF CollectDone, Collectable, Bad
  <2> QED
    BY <1>1, <1>4, <1>5, <2>1 DEF ResultInv, FailuresShow, GivenUp
<1>7. CASE CollectShort \/ CollectFailed
  <2>1. Bad(i) /\ ~retval'
    BY <1>7 DEF CollectShort, CollectFailed, Collectable, Bad
  <2> QED
    BY <1>1, <1>5, <2>1 DEF ResultInv, FailuresShow, GivenUp
<1>8. CASE CollectFull
  <2>1. io[i] = "full" /\ ~Bad(i) /\ UNCHANGED retval
    BY <1>8 DEF CollectFull, Collectable, Bad
  <2>2. FailuresShow'
    BY <1>1, <1>4, <2>1 DEF ResultInv, FailuresShow
  <2>3. GivenUp'
    <3>1. ~mixed => length[i] = bytes
      BY <1>1, <2>1 DEF ResultInv, OfOneSize
    <3>2. free \in Nat /\ free < length[i]
      BY <1>1, <2>1 DEF ResultInv, FullIsFull, IInv, TypeOK
    <3>3. ~mixed /\ singleSectorSwitch => free = 0
      BY <3>1, <3>2 DEF bytes
    <3> QED
      BY <1>1, <3>3 DEF GivenUp
  <2> QED
    BY <1>5, <2>2, <2>3 DEF ResultInv
<1> QED
  BY <1>6, <1>7, <1>8

LEMMA ResultStep == Told /\ IInv /\ ResultInv /\ [Next]_vars => ResultInv'
<1> SUFFICES ASSUME Told, IInv, ResultInv, [Next]_vars PROVE ResultInv'
  OBVIOUS
<1>1. CASE Thread
  BY <1>1, ResultLoop, ResultPass, ResultWrite, ResultCollect DEF Thread
<1>2. CASE Stop_Prepare \/ UNCHANGED vars
  <2>1. /\ UNCHANGED <<config, pc, write_ok, retval, modes, prepare_offset, queue, free, failed>>
        /\ preparing' => preparing
    BY <1>2 DEF Stop_Prepare, vars
  <2>2. bytes' = bytes /\ \A s \in Slot : Bad(s)' <=> Bad(s)
    BY <2>1 DEF bytes, Bad, queue, modes
  <2>3. OfOneSize' /\ FullIsFull' /\ FailuresShow'
    BY <2>1, <2>2 DEF ResultInv, OfOneSize, FullIsFull, FailuresShow, queue, modes
  <2>4. GivenUp' /\ LargeFirst'
    BY <2>1 DEF ResultInv, GivenUp, LargeFirst, modes
  <2> QED
    BY <2>3, <2>4 DEF ResultInv
<1>3. CASE \E s \in Slot : Complete(s)
  BY <1>3, ResultComplete
<1> QED
  BY <1>1, <1>2, <1>3 DEF Next

\* Where the builds are told how a write ended: Prepare returns TRUE exactly
\* when no write failed, and then the file is finished, for every disk.
THEOREM ResultIsTruthful ==
  ASSUME Told
  PROVE  Spec => []TruthfulResult
<1>1. Init => ResultInv
  <2> SUFFICES ASSUME Init PROVE ResultInv
    OBVIOUS
  <2>1. \A s \in Slot : ~Bad(s)
    BY DEF Init, Bad
  <2> QED
    BY <2>1 DEF Init, ResultInv, OfOneSize, FailuresShow, FullIsFull, GivenUp, LargeFirst
<1>2. IInv /\ ResultInv /\ [Next]_vars => ResultInv'
  BY ResultStep
<1>3. IInv /\ ResultInv => TruthfulResult
  <2> SUFFICES ASSUME IInv, ResultInv, pc = "returned", preparing, ~mixed
               PROVE  /\ retval <=> failed = 0
                      /\ retval => free = 0 \/ prepare_offset = config.limit
    BY DEF TruthfulResult
  <2>1. Outstanding = {}
    <3>1. Cardinality(busy) = 0
      BY DEF IInv, Counted, LeftDrained
    <3>2. busy = {}
      BY <3>1, Facts, BusySize, FS_EmptySet
    <3> QED
      BY <3>2 DEF IInv, Counted, Outstanding
  <2>2. \A s \in Slot : ~Bad(s)
    BY <2>1 DEF Outstanding, Bad
  <2> QED
    BY <2>2 DEF ResultInv, FailuresShow, GivenUp, LargeFirst
<1> QED
  BY <1>1, <1>2, <1>3, FillInvariance, PTL DEF Spec

-------------------------------------------------------------------------------
(* The series of tests: what SetActiveTargets changes of the depths.       *)

\* What the cycling methods change of the depths: nothing when the test type does not cycle
\* them, and never those of network workers.
Members == {"active", "depth", "next", "index", "more"}
Same(r, q) == DOMAIN q = Members /\ q.depth = r.depth
SameOnNet(r, q) ==
    /\ DOMAIN q = Members /\ DOMAIN q.depth = DOMAIN r.depth
    /\ q.depth = [k \in DOMAIN q.depth |-> q.depth[k]]
    /\ \A k \in DOMAIN r.depth : layout[k].kind # "disk" => q.depth[k] = r.depth[k]
CyclesDepths == setup.type \in {"queue", "queueTargets"}

\* Neither the result of a method
LEMMA ResultKeeps ==
  ASSUME NEW r, DOMAIN r = Members, NEW act, NEW n
  PROVE  Same(r, Result(r, act, n))
  BY DEF Same, Result, Members

\* nor starting over changes a depth,
LEMMA ClearedKeeps ==
  ASSUME NEW r, DOMAIN r = Members
  PROVE  Same(r, Cleared(r)) /\ Same(r, InitAccessSpecRun(r))
         /\ Same(r, MoreWorkers(r))
  BY DEF Same, Cleared, InitAccessSpecRun, MoreWorkers, Members

\* nor do the methods that cycle something else.
LEMMA SimpleMethods ==
  ASSUME NEW r, DOMAIN r = Members
  PROVE  /\ Same(r, CycleTargets(r)) /\ Same(r, CycleWorkers(r))
         /\ Same(r, IncrementTargets(r)) /\ Same(r, IncrementTargetsSerial(r))
         /\ Same(r, Normal(r)) /\ Same(r, SameWorkers(r))
<1>1. Same(r, CycleTargets(r))
  BY ResultKeeps DEF CycleTargets
<1>2. Same(r, CycleWorkers(r))
  BY ResultKeeps DEF CycleWorkers
<1>3. Same(r, IncrementTargets(r))
  BY ResultKeeps DEF IncrementTargets
<1>4. Same(r, IncrementTargetsSerial(r))
  BY ResultKeeps DEF IncrementTargetsSerial
<1>5. Same(r, Normal(r))
  BY ResultKeeps DEF Normal
<1>6. Same(r, SameWorkers(r))
  BY ResultKeeps DEF SameWorkers
<1> QED
  BY <1>1, <1>2, <1>3, <1>4, <1>5, <1>6

\* CycleWorkersTargets calls itself once.
LEMMA CycleWorkersTargetsKeeps ==
  ASSUME NEW r, DOMAIN r = Members
  PROVE  Same(r, CycleWorkersTargets(r))
<1> DEFINE outer == SameWorkers(r)
           inner == SameWorkers(MoreWorkers(outer))
           q == CycleWorkersTargets(r)
<1>1. \A x : Do(SameWorkers, x) = SameWorkers(x)
  BY DEF Do
<1>2. Same(r, outer)
  BY SimpleMethods
<1>3. Same(r, inner)
  <2>1. Same(r, MoreWorkers(outer))
    BY <1>2, ClearedKeeps DEF Same
  <2> QED  BY <2>1, SimpleMethods DEF Same
<1>4. \/ q = outer
      \/ \E n, b : q = [outer EXCEPT !.next = n, !.more = b]
      \/ \E b : q = [inner EXCEPT !.more = b]
  BY <1>1, Zenon DEF CycleWorkersTargets
<1> HIDE DEF outer, inner, q
<1> QED
  BY <1>2, <1>3, <1>4 DEF Same, Members, q

\* CycleQueue sets the depths of disk workers only,
LEMMA CycleQueueKeeps ==
  ASSUME NEW r, DOMAIN r = Members, r.depth = [k \in DOMAIN r.depth |-> r.depth[k]]
  PROVE  SameOnNet(r, CycleQueue(r))
<1>1. PICK q : q = CycleQueue(r)
  OBVIOUS
<1>2. CASE r.next.queue > setup.queue.end
  <2>1. q = [r EXCEPT !.more = FALSE]
    BY <1>1, <1>2 DEF CycleQueue
  <2>2. DOMAIN q = Members /\ q.depth = r.depth
    BY <2>1 DEF Members
  <2> QED  BY <1>1, <2>2 DEF SameOnNet
<1>3. CASE ~(r.next.queue > setup.queue.end)
  <2>1. \E a, n, b : q = [r EXCEPT !.active = a, !.depth = SetDepths(r, r.next.queue),
                                   !.next = n, !.more = b]
    BY <1>1, <1>3, Zenon DEF CycleQueue
  <2>2. PICK d : d = SetDepths(r, r.next.queue)
    OBVIOUS
  <2>3. DOMAIN q = Members /\ q.depth = d
    BY <2>1, <2>2 DEF Members
  <2>4. /\ DOMAIN d = DOMAIN r.depth /\ d = [k \in DOMAIN d |-> d[k]]
        /\ \A k \in DOMAIN r.depth : layout[k].kind # "disk" => d[k] = r.depth[k]
    BY <2>2 DEF SetDepths
  <2> QED  BY <1>1, <2>3, <2>4 DEF SameOnNet
<1> QED
  BY <1>2, <1>3

\* and so does CycleTargetsQueue, which calls it twice.
LEMMA CycleTargetsQueueKeeps ==
  ASSUME NEW r, DOMAIN r = Members, r.depth = [k \in DOMAIN r.depth |-> r.depth[k]]
  PROVE  SameOnNet(r, CycleTargetsQueue(r))
<1> DEFINE queued == CycleQueue(r)
           same == CycleTargets(queued)
           probe == CycleTargets(same)
           reset == [probe EXCEPT !.next = FirstDepth(same.next)]
           again == CycleQueue(reset)
           first == SameTargets(queued)
           second == SameTargets(again)
           q == CycleTargetsQueue(r)
<1>1. /\ \A x : Do(CycleQueue, x) = CycleQueue(x)
      /\ \A x : Do(CycleTargets, x) = CycleTargets(x)
      /\ \A x : Do(SameTargets, x) = SameTargets(x)
  BY DEF Do
<1>2. \A x : DOMAIN x = Members => Same(x, SameTargets(x))
  <2> TAKE x
  <2> HAVE DOMAIN x = Members
  <2>1. PICK c : c = CycleTargets(Cleared(x))
    OBVIOUS
  <2>2. Same(x, Cleared(x))
    BY ClearedKeeps
  <2>3. Same(x, c)
    BY <2>1, <2>2, SimpleMethods DEF Same
  <2>4. SameTargets(x) = [c EXCEPT !.next = x.next]
    BY <2>1 DEF SameTargets
  <2> QED  BY <2>3, <2>4 DEF Same, Members
<1>3. SameOnNet(r, queued)
  BY CycleQueueKeeps
<1>4. Same(queued, first)
  BY <1>2, <1>3 DEF SameOnNet
<1>5. Same(queued, same)
  BY <1>3, SimpleMethods DEF SameOnNet
<1>6. Same(queued, probe)
  BY <1>5, SimpleMethods DEF Same
<1>7. Same(queued, reset)
  <2> HIDE DEF probe, same
  <2> QED  BY <1>6 DEF Same, Members
<1>8. SameOnNet(r, again)
  <2>1. SameOnNet(reset, again)
    <3> HIDE DEF queued, reset
    <3> QED  BY <1>3, <1>7, CycleQueueKeeps DEF Same, SameOnNet
  <2> HIDE DEF queued, reset, again
  <2> QED  BY <1>3, <1>7, <2>1 DEF Same, SameOnNet
<1>9. Same(again, second)
  BY <1>2, <1>8 DEF SameOnNet
<1>10. \/ q = [first EXCEPT !.more = TRUE]
       \/ q = probe
       \/ q = [second EXCEPT !.more = TRUE]
  <2>1. /\ Do(CycleQueue, r) = queued /\ Do(CycleTargets, queued) = same
        /\ Do(CycleTargets, same) = probe /\ Do(CycleQueue, reset) = again
        /\ Do(SameTargets, queued) = first /\ Do(SameTargets, again) = second
    BY <1>1
  <2>2. q = IF queued.more THEN [first EXCEPT !.more = TRUE]
            ELSE IF ~probe.more THEN probe
            ELSE [second EXCEPT !.more = TRUE]
    BY <2>1, Zenon DEF CycleTargetsQueue
  <2> HIDE DEF queued, probe, first, second, q
  <2> QED  BY <2>2
<1> HIDE DEF queued, probe, first, second, again, q
<1>11. Same(queued, q) \/ Same(again, q)
  BY <1>4, <1>6, <1>9, <1>10 DEF Same, Members
<1>12. SameOnNet(r, q)
  BY <1>3, <1>8, <1>11 DEF Same, SameOnNet
<1> QED
  BY <1>12 DEF q

\* SetActiveTargets for every test type.
LEMMA SetActiveTargetsKeeps ==
  ASSUME NEW r, DOMAIN r = Members, r.depth = [k \in DOMAIN r.depth |-> r.depth[k]],
         NEW q, q = SetActiveTargets(r)
  PROVE  /\ DOMAIN q = Members
         /\ CyclesDepths => SameOnNet(r, q)
         /\ ~CyclesDepths => Same(r, q)
<1>1. CASE CyclesDepths
  <2>1. q = CycleQueue(r) \/ q = CycleTargetsQueue(r)
    BY <1>1 DEF CyclesDepths, SetActiveTargets
  <2>2. SameOnNet(r, q)
    BY <2>1, CycleQueueKeeps, CycleTargetsQueueKeeps
  <2> QED  BY <1>1, <2>2 DEF SameOnNet
<1>2. CASE ~CyclesDepths
  <2>1. \/ q = CycleTargets(r) \/ q = CycleWorkers(r)
        \/ q = CycleWorkersTargets(r) \/ q = IncrementTargets(r)
        \/ q = IncrementTargetsSerial(r) \/ q = Normal(r)
    BY <1>2 DEF CyclesDepths, SetActiveTargets
  <2>2. Same(r, q)
    BY <2>1, SimpleMethods, CycleWorkersTargetsKeeps
  <2> QED  BY <1>2, <2>2 DEF Same
<1> QED
  BY <1>1, <1>2

-------------------------------------------------------------------------------
(* The invariant: what a run has saved, and what it has not changed.       *)

Configured(k) == layout[k].targets > 0
Kept ==
    IF CyclesDepths
    THEN \A k \in DOMAIN layout :
            Configured(k) => /\ k \in DOMAIN saved /\ saved[k] = layout[k].depth
                             /\ layout[k].kind # "disk" => depth[k] = layout[k].depth
    ELSE \A k \in DOMAIN layout : Configured(k) => depth[k] = layout[k].depth
Whole ==
    /\ layout \in Seq(Assigned)
    /\ depth = [k \in DOMAIN layout |-> depth[k]]
    /\ CyclesDepths \/ saved = <<>>
DepthsKnown ==
    /\ Whole
    /\ mishap = "none" => IF phase = "idle" THEN Restored ELSE Kept

\* What the methods are called for has the current depths.
LEMMA CurrentIs ==
  /\ DOMAIN Current = Members /\ Current.depth = depth
  /\ \A n : LET r == [Current EXCEPT !.index = n] IN DOMAIN r = Members /\ r.depth = depth
  BY DEF Current, Members

\* A step that sets the targets for a test, up to the first mishap.
LEMMA CycledKept ==
  ASSUME Whole, Kept, NEW r, DOMAIN r = Members, r.depth = depth,
         NEW q, q = SetActiveTargets(r), depth' = q.depth, UNCHANGED <<setup, layout, saved>>
  PROVE  Whole' /\ Kept'
<1>1. r.depth = [k \in DOMAIN r.depth |-> r.depth[k]] /\ DOMAIN r.depth = DOMAIN layout
  BY DEF Whole
<1>2. CASE CyclesDepths
  <2>1. SameOnNet(r, q)
    BY <1>1, <1>2, SetActiveTargetsKeeps
  <2>2. /\ depth' = [k \in DOMAIN layout |-> depth'[k]]
        /\ \A k \in DOMAIN layout : layout[k].kind # "disk" => depth'[k] = depth[k]
    BY <1>1, <2>1 DEF SameOnNet
  <2> QED  BY <1>2, <2>2 DEF Whole, Kept, CyclesDepths, Configured
<1>3. CASE ~CyclesDepths
  <2>1. Same(r, q)
    BY <1>1, <1>3, SetActiveTargetsKeeps
  <2>2. depth' = depth
    BY <2>1 DEF Same
  <2> QED  BY <2>2 DEF Whole, Kept, CyclesDepths, Configured
<1> QED
  BY <1>2, <1>3

\* The same with the whole invariant, which asks less after a mishap.
LEMMA CycledFrom ==
  ASSUME DepthsKnown, NEW r, DOMAIN r = Members, r.depth = depth,
         depth' = SetActiveTargets(r).depth, phase # "idle", phase' # "idle",
         UNCHANGED <<setup, layout, saved, mishap>>
  PROVE  DepthsKnown'
<1>1. PICK q : q = SetActiveTargets(r)
  OBVIOUS
<1>2. depth' = q.depth /\ Whole
  BY <1>1 DEF DepthsKnown
<1>3. Kept => Whole' /\ Kept'
  BY <1>1, <1>2, CycledKept
<1>4. CASE mishap = "none"
  BY <1>2, <1>3, <1>4 DEF DepthsKnown
<1>5. CASE mishap # "none"
  <2>1. r.depth = [k \in DOMAIN r.depth |-> r.depth[k]] /\ DOMAIN r.depth = DOMAIN layout
    BY <1>2 DEF Whole
  <2>2. SameOnNet(r, q) \/ Same(r, q)
    BY <1>1, <2>1, SetActiveTargetsKeeps
  <2>3. depth' = [k \in DOMAIN layout |-> depth'[k]]
    BY <1>2, <2>1, <2>2 DEF SameOnNet, Same
  <2> QED  BY <1>2, <1>5, <2>3 DEF DepthsKnown, Whole, CyclesDepths
<1> QED
  BY <1>4, <1>5

\* The end of a run.
LEMMA RestoreSettingsRestores ==
  ASSUME Whole, RestoreSettings, UNCHANGED <<setup, layout>>
  PROVE  Whole' /\ (Kept => Restored')
<1>1. CASE saved = <<>>
  <2>1. depth' = depth
    BY <1>1 DEF RestoreSettings
  <2>2. Kept => Restored'
    BY <1>1, <2>1 DEF Kept, Restored, Workers, Configured
  <2> QED  BY <1>1, <2>1, <2>2 DEF Whole, RestoreSettings
<1>2. CASE saved # <<>>
  <2>1. depth' = [k \in DOMAIN layout |->
                    IF layout[k].kind # "disk" THEN depth[k]
                    ELSE IF k \in DOMAIN saved THEN saved[k] ELSE Garbage]
    BY <1>2 DEF RestoreSettings, Workers
  <2>2. Kept => Restored'
    BY <1>2, <2>1 DEF Whole, Kept, Restored, Workers, Configured
  <2>3. Whole'
    BY <2>1 DEF Whole, RestoreSettings
  <2> QED  BY <2>2, <2>3
<1> QED
  BY <1>1, <1>2

\* A manager logs in.
LEMMA LoginKeeps ==
  ASSUME DepthsKnown, Login
  PROVE  DepthsKnown'
<1>1. PICK S : depth \in Seq(S) /\ [k \in DOMAIN Newcomers |-> Newcomers[k].depth] \in Seq(S)
  <2> DEFINE new == [k \in DOMAIN Newcomers |-> Newcomers[k].depth]
             S == {depth[k] : k \in DOMAIN layout} \cup {new[k] : k \in DOMAIN Newcomers}
  <2>1. Newcomers \in Seq(Assigned) /\ layout \in Seq(Assigned)
    BY CycleAssumption DEF CycleAssumption, DepthsKnown, Whole
  <2>2. /\ Len(layout) \in Nat /\ DOMAIN layout = 1 .. Len(layout)
        /\ Len(Newcomers) \in Nat /\ DOMAIN Newcomers = 1 .. Len(Newcomers)
    BY <2>1
  <2>3. depth \in [1 .. Len(layout) -> S]
    BY <2>2 DEF DepthsKnown, Whole
  <2>4. new \in [1 .. Len(Newcomers) -> S]
    BY <2>2
  <2>5. depth \in Seq(S) /\ new \in Seq(S)
    <3> HIDE DEF new, S
    <3> QED  BY <2>2, <2>3, <2>4
  <2> QED  BY <2>5
<1>2. PICK more \in Seq(S) : more = [k \in DOMAIN Newcomers |-> Newcomers[k].depth]
  BY <1>1
<1>3. /\ Newcomers \in Seq(Assigned) /\ layout \in Seq(Assigned)
      /\ \A k \in DOMAIN Newcomers : Newcomers[k].targets = 0
      /\ DOMAIN depth = DOMAIN layout
  BY CycleAssumption DEF CycleAssumption, DepthsKnown, Whole
<1>4. /\ layout' = layout \o Newcomers /\ depth' = depth \o more
      /\ UNCHANGED <<setup, saved, phase, mishap>>
  BY <1>2 DEF Login
<1>5. /\ layout' \in Seq(Assigned) /\ DOMAIN layout \subseteq DOMAIN layout'
      /\ \A k \in DOMAIN layout : layout'[k] = layout[k]
      /\ \A k \in DOMAIN layout' \ DOMAIN layout : layout'[k].targets = 0
  BY <1>3, <1>4
<1>6. /\ depth' = [k \in DOMAIN layout' |-> depth'[k]]
      /\ \A k \in DOMAIN layout : depth'[k] = depth[k]
  <2>1. Len(depth) = Len(layout) /\ Len(more) = Len(Newcomers)
    BY <1>1, <1>2, <1>3
  <2>2. /\ depth' \in Seq(S) /\ Len(depth') = Len(layout) + Len(Newcomers)
        /\ \A k \in DOMAIN layout : depth'[k] = depth[k]
    <3>1. depth \in Seq(S) /\ more \in Seq(S)
      BY <1>1, <1>2
    <3>2. /\ depth \o more \in Seq(S) /\ Len(depth \o more) = Len(depth) + Len(more)
          /\ \A k \in 1 .. Len(depth) : (depth \o more)[k] = depth[k]
      BY <3>1, ConcatProperties
    <3>3. DOMAIN layout = 1 .. Len(depth)
      BY <1>3, <2>1
    <3> QED  BY <1>4, <2>1, <3>2, <3>3
  <2>3. DOMAIN depth' = DOMAIN layout'
    BY <1>3, <1>4, <2>2
  <2> QED  BY <2>2, <2>3
<1>7. Whole'
  BY <1>4, <1>5, <1>6 DEF DepthsKnown, Whole, CyclesDepths
<1>8. \A k \in DOMAIN layout' : Configured(k)' => k \in DOMAIN layout /\ Configured(k)
  BY <1>5 DEF Configured
<1>9. Kept => Kept'
  BY <1>4, <1>5, <1>6, <1>8 DEF Kept, CyclesDepths
<1>10. Restored => Restored'
  BY <1>5, <1>6, <1>8 DEF Restored, Workers, Configured
<1> QED
  BY <1>4, <1>7, <1>9, <1>10 DEF DepthsKnown

\* Every step keeps the invariant.
LEMMA SeriesNext ==
  ASSUME DepthsKnown, [CycleNext]_cyclevars
  PROVE  DepthsKnown'
<1>1. CASE Go
  <2>1. /\ depth' = InitAccessSpecRun(Current).depth
        /\ saved' = IF CyclesDepths THEN depth ELSE saved
        /\ phase = "idle" /\ phase' = "counting" /\ UNCHANGED <<setup, layout, mishap>>
    BY <1>1 DEF Go, SaveSettings, Becomes, session, CyclesDepths
  <2>2. depth' = depth
    BY <2>1, CurrentIs, ClearedKeeps DEF Same
  <2>3. Restored => Kept'
    BY <2>1, <2>2 DEF Kept, Restored, Workers, Configured, CyclesDepths, DepthsKnown, Whole
  <2> QED  BY <2>1, <2>2, <2>3 DEF DepthsKnown, Whole, CyclesDepths
<1>2. CASE CountRun
  <2>1. /\ depth' = SetActiveTargets(Current).depth
        /\ phase # "idle" /\ UNCHANGED <<setup, layout, saved, phase, mishap>>
    BY <1>2 DEF CountRun, Becomes, session
  <2> QED  BY <2>1, CycledFrom, CurrentIs
<1>3. CASE CountSpec \/ Prepare
  <2>1. /\ depth' = InitAccessSpecRun(Current).depth
        /\ phase # "idle" /\ phase' # "idle" /\ UNCHANGED <<setup, layout, saved, mishap>>
    BY <1>3 DEF CountSpec, Prepare, Becomes, session
  <2>2. depth' = depth
    BY <2>1, CurrentIs, ClearedKeeps DEF Same
  <2> QED  BY <2>1, <2>2 DEF DepthsKnown, Whole, Kept, CyclesDepths, Configured
<1>4. CASE Prepared
  <2>1. PICK r : r = Cleared(Current)
    OBVIOUS
  <2>2. DOMAIN r = Members /\ r.depth = depth
    BY <2>1, CurrentIs, ClearedKeeps DEF Same
  <2>3. /\ depth' = SetActiveTargets(r).depth
        /\ phase # "idle" /\ phase' # "idle" /\ UNCHANGED <<setup, layout, saved, mishap>>
    BY <1>4, <2>1 DEF Prepared, StartTest, Becomes, session
  <2> QED  BY <2>2, <2>3, CycledFrom
<1>5. CASE NextTest
  <2>1. /\ depth' = SetActiveTargets(Current).depth
        /\ phase # "idle" /\ phase' # "idle" /\ UNCHANGED <<setup, layout, saved, mishap>>
    BY <1>5 DEF NextTest, StartTest, Becomes, session
  <2> QED  BY <2>1, CycledFrom, CurrentIs
<1>6. CASE NextSpec
  <2>1. PICK r : r = InitAccessSpecRun([Current EXCEPT !.index = Min(NextSpecs)])
    OBVIOUS
  <2>2. DOMAIN r = Members /\ r.depth = depth
    BY <2>1, CurrentIs, ClearedKeeps DEF Same
  <2>3. /\ depth' = SetActiveTargets(r).depth
        /\ phase # "idle" /\ phase' # "idle" /\ UNCHANGED <<setup, layout, saved, mishap>>
    BY <1>6, <2>1 DEF NextSpec, StartTest, Becomes, session
  <2> QED  BY <2>2, <2>3, CycledFrom
<1>7. CASE TestDone \/ Abort
  <2>1. RestoreSettings /\ phase # "idle" /\ phase' = "idle" /\ UNCHANGED <<setup, layout, mishap>>
    BY <1>7 DEF TestDone, Abort, session
  <2> QED  BY <2>1, RestoreSettingsRestores DEF DepthsKnown
<1>8. CASE AbortPreparation
  BY <1>8 DEF AbortPreparation, session, DepthsKnown, Whole, CyclesDepths
<1>9. CASE PreparationFails
  <2>1. RestoreSettings /\ mishap' # "none" /\ UNCHANGED <<setup, layout>>
    BY <1>9 DEF PreparationFails, session
  <2> QED  BY <2>1, RestoreSettingsRestores DEF DepthsKnown
<1>10. CASE Login
  BY <1>10, LoginKeeps
<1>11. CASE UNCHANGED cyclevars
  BY <1>11 DEF cyclevars, DepthsKnown, Whole, Kept, CyclesDepths, Configured, Restored, Workers
<1> QED
  BY <1>1, <1>2, <1>3, <1>4, <1>5, <1>6, <1>7, <1>8, <1>9, <1>10, <1>11
     DEF CycleNext, Gui, Timer

\* SaveSettings and RestoreSettings: until a preparation is aborted or fails, between runs
\* every worker with targets has the queue depth its user chose, whatever was cycled,
\* wherever the run ended and whoever logged in.
THEOREM DepthsComeBack == CycleSpec => []DepthsRestored
<1>1. CycleInit => DepthsKnown
  <2> SUFFICES ASSUME CycleInit PROVE DepthsKnown
    OBVIOUS
  <2> QED  BY CycleAssumption DEF CycleAssumption, CycleInit, DepthsKnown, Whole, Restored, Workers
<1>2. DepthsKnown /\ [CycleNext]_cyclevars => DepthsKnown'
  BY SeriesNext
<1>3. DepthsKnown => DepthsRestored
  BY DEF DepthsKnown, DepthsRestored
<1> QED
  BY <1>1, <1>2, <1>3, PTL DEF CycleSpec
===============================================================================
