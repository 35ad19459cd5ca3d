--------------------------- MODULE GruntIO_proofs ----------------------------
(***************************************************************************)
(* The safety of GruntIO for every number of targets and slots.  IInv is   *)
(* the inductive invariant; its parts Data (the ring, the counters and the *)
(* requests) and Control (where the thread and the manager are) are shown  *)
(* to be kept by every action.  Two invariants on top of it, ConnInv for   *)
(* the connections and ClockInv for the recorded period, come at the end.  *)
(***************************************************************************)
EXTENDS GruntIO, FiniteSetTheorems, TLAPS

USE SlotAssumption DEF Slot

\* The number of available slots, read off the head and the tail.
RingLength == IF head <= tail THEN tail - head ELSE tail - head + N + 1

\* The places at which the thread works on the slot at the head.
Holding == pc \in {"delay", "fill", "stage", "submit", "retry", "retried", "failed"}
Staged  == pc \in {"stage", "submit", "retry", "retried", "failed"}

RingType == queue \in [0 .. N -> Slot] /\ head \in 0 .. N /\ tail \in 0 .. N

IOPlace == {"none", "kernel", "tagged", "lost"}

DataType ==
    /\ remaining_requests \in [Slot -> {0, 1}]
    /\ remaining_replies \in [Slot -> {0, 1}]
    /\ start_IO \in [Slot -> BOOLEAN] /\ start_transaction \in [Slot -> BOOLEAN]
    /\ io \in [Slot -> IOPlace]
    /\ outstanding_ios \in 0 .. N
    /\ target_ios \in [Target -> 0 .. N]
    /\ ramp_up_ios_pending \in 0 .. N
    /\ effect \subseteq {"io", "error", "transaction", "connection", "clock"}
    /\ sampled \in BOOLEAN

\* Every slot is in the ring exactly once or busy.
RingOrBusy ==
    /\ \A i, j \in Occupied : queue[i] = queue[j] => i = j
    /\ \A s \in Slot : io[s] = "none" <=> \E i \in Occupied : queue[i] = s

\* Only the failed request for the rest of a partial one loses a slot.
LostByRest == Lost # {} => "error" \in PartialResult

\* A busy slot has the request or the reply left that it is busy with.
Unfinished == \A s \in Busy : remaining_requests[s] + remaining_replies[s] >= 1

Data ==
    /\ RingType /\ DataType /\ RingOrBusy /\ OutstandingAgrees /\ RampUpBounded
    /\ RingLength = N - outstanding_ios
    /\ Unfinished /\ LostByRest

ConnType ==
    /\ is_closing \in [Target -> BOOLEAN]
    /\ trans_left \in [Target -> Nat]
    /\ open \in [Target -> BOOLEAN]

ControlType ==
    /\ cmd \in {"idle", "started", "running", "stopping"}
    /\ grunt_state \in TestStates
    /\ not_ready \in BOOLEAN /\ critical_error \in BOOLEAN
    /\ pc \in Places

\* The start and stop handshakes of the manager with the thread.
Handshake ==
    /\ cmd = "idle" => pc = "none"
    /\ pc = "open" => cmd = "started" /\ not_ready
    /\ critical_error => pc = "none"
    /\ cmd = "stopping" /\ ~not_ready => pc = "none"
    /\ pc \in {"none", "open"} => Busy = {}

HeadInHand ==
    /\ Holding => ~NoneAvailable
    /\ Staged => remaining_requests[HeadSlot] + remaining_replies[HeadSlot] >= 1

IInv == Data /\ ConnType /\ ControlType /\ Handshake /\ HeadInHand

-------------------------------------------------------------------------------
(* The busy slots are finitely many. *)

LEMMA SlotFinite == IsFiniteSet(Slot) /\ Cardinality(Slot) = N
  BY FS_Interval

LEMMA SubsetFinite ==
    ASSUME NEW S, S \subseteq Slot
    PROVE  IsFiniteSet(S) /\ Cardinality(S) \in 0 .. N
<1>1. IsFiniteSet(S) /\ Cardinality(S) <= N
  <2>1. IsFiniteSet(Slot) /\ Cardinality(Slot) = N
    BY SlotFinite
  <2>2. IsFiniteSet(S) /\ Cardinality(S) <= Cardinality(Slot)
    BY <2>1, FS_Subset, Zenon
  <2> QED  BY <2>1, <2>2
<1>2. QED
  BY <1>1, FS_CardinalityType

LEMMA CardAdd ==
    ASSUME NEW S, S \subseteq Slot, NEW x \in Slot, x \notin S
    PROVE  Cardinality(S \cup {x}) = Cardinality(S) + 1
  BY SubsetFinite, FS_AddElement

LEMMA CardRemove ==
    ASSUME NEW S, S \subseteq Slot, NEW x \in S
    PROVE  Cardinality(S \ {x}) = Cardinality(S) - 1 /\ Cardinality(S) >= 1
<1>1. IsFiniteSet(S) /\ IsFiniteSet(S \ {x})
  BY SubsetFinite, FS_RemoveElement
<1>2. Cardinality(S \ {x}) = Cardinality(S) - 1
  BY <1>1, FS_RemoveElement
<1>3. Cardinality(S) \in Nat /\ Cardinality(S \ {x}) \in Nat
  BY <1>1, FS_CardinalityType
<1>4. QED
  BY <1>2, <1>3

-------------------------------------------------------------------------------
(* Moving slots through the ring. *)

LEMMA WrapRange ==
    ASSUME NEW i \in 0 .. N
    PROVE  Wrap(i + 1) \in 0 .. N
  BY DEF Wrap

\* The slot at the head is available.
LEMMA HeadAvailable ==
    ASSUME RingType, ~NoneAvailable
    PROVE  head \in Occupied /\ HeadSlot \in Slot /\ RingLength >= 1
  BY DEF RingType, NoneAvailable, Occupied, HeadSlot, RingLength

\* The tail position is free.
LEMMA TailFree ==
    ASSUME head \in 0 .. N, tail \in 0 .. N
    PROVE  tail \notin Occupied /\ Occupied \subseteq 0 .. N
<1>1. tail \notin Occupied
  BY DEF Occupied
<1>2. Occupied \subseteq 0 .. N
  BY DEF Occupied
<1>3. QED
  BY <1>1, <1>2

\* One position added at the tail, one removed at the head.
LEMMA TailMoves ==
    ASSUME head \in 0 .. N, tail \in 0 .. N, RingLength < N,
           head' = head, tail' = Wrap(tail + 1)
    PROVE  /\ head' # tail'
           /\ Occupied' = Occupied \cup {tail}
           /\ RingLength' = RingLength + 1
<1>1. head' # tail'
  BY DEF Wrap, RingLength
<1>2. \A i : i \in Occupied' <=> i \in Occupied \cup {tail}
  BY <1>1 DEF Wrap, Occupied
<1>3. RingLength' = RingLength + 1
  BY <1>1 DEF Wrap, RingLength
<1>4. Occupied' = Occupied \cup {tail}
  BY <1>2, Zenon
<1>5. QED
  BY <1>1, <1>3, <1>4

LEMMA HeadMoves ==
    ASSUME head \in 0 .. N, tail \in 0 .. N, head # tail,
           head' = Wrap(head + 1), tail' = tail
    PROVE  /\ Occupied' = Occupied \ {head}
           /\ RingLength' = RingLength - 1
<1>1. \A i : i \in Occupied' <=> i \in Occupied \ {head}
  BY DEF Wrap, Occupied
<1>2. RingLength' = RingLength - 1
  BY DEF Wrap, RingLength
<1>3. Occupied' = Occupied \ {head}
  BY <1>1, Zenon
<1>4. QED
  BY <1>2, <1>3

LEMMA BothMove ==
    ASSUME head \in 0 .. N, tail \in 0 .. N, head # tail,
           head' = Wrap(head + 1), tail' = Wrap(tail + 1)
    PROVE  /\ Occupied' = (Occupied \ {head}) \cup {tail}
           /\ RingLength' = RingLength
<1>1. \A i : i \in Occupied' <=> i \in (Occupied \ {head}) \cup {tail}
  BY DEF Wrap, Occupied
<1>2. RingLength' = RingLength
  BY DEF Wrap, RingLength
<1>3. Occupied' = (Occupied \ {head}) \cup {tail}
  BY <1>1, Zenon
<1>4. QED
  BY <1>2, <1>3

\* What putting a slot back, taking the head and rotating do to the ring.
LEMMA PutBackRing ==
    ASSUME RingType, RingLength < N, NEW s \in Slot, PutBack(s)
    PROVE  /\ RingType'
           /\ Occupied' = Occupied \cup {tail} /\ tail \notin Occupied
           /\ queue'[tail] = s
           /\ \A i \in Occupied : queue'[i] = queue[i]
           /\ RingLength' = RingLength + 1
           /\ ~NoneAvailable => ~NoneAvailable' /\ HeadSlot' = HeadSlot
<1>1. head \in 0 .. N /\ tail \in 0 .. N /\ queue \in [0 .. N -> Slot]
  BY DEF RingType
<1>2. head' = head /\ tail' = Wrap(tail + 1) /\ queue' = [queue EXCEPT ![tail] = s]
  BY DEF PutBack
<1>3. tail' \in 0 .. N
  BY <1>1, <1>2, WrapRange
<1>4. queue' \in [0 .. N -> Slot] /\ queue'[tail] = s
  BY <1>1, <1>2
<1>5. tail \notin Occupied /\ Occupied \subseteq 0 .. N
  BY <1>1, TailFree
<1>6. \A i \in Occupied : queue'[i] = queue[i]
  BY <1>1, <1>2, <1>5
<1>7. head' # tail' /\ Occupied' = Occupied \cup {tail} /\ RingLength' = RingLength + 1
  BY <1>1, <1>2, TailMoves
<1>8. ~NoneAvailable => HeadSlot' = HeadSlot
  BY <1>1, <1>2 DEF NoneAvailable, HeadSlot
<1>9. QED
  BY <1>1, <1>2, <1>3, <1>4, <1>5, <1>6, <1>7, <1>8 DEF RingType, NoneAvailable

LEMMA TakeHeadRing ==
    ASSUME RingType, ~NoneAvailable, TakeHead
    PROVE  /\ RingType' /\ queue' = queue
           /\ Occupied' = Occupied \ {head}
           /\ RingLength' = RingLength - 1
<1>1. head \in 0 .. N /\ tail \in 0 .. N /\ head # tail
  BY DEF RingType, NoneAvailable
<1>2. head' = Wrap(head + 1) /\ tail' = tail /\ queue' = queue
  BY DEF TakeHead
<1>3. head' \in 0 .. N
  BY <1>1, <1>2, WrapRange
<1>4. RingType'
  BY <1>1, <1>2, <1>3 DEF RingType
<1>5. QED
  BY <1>1, <1>2, <1>4, HeadMoves

LEMMA RotateRing ==
    ASSUME RingType, ~NoneAvailable, Rotate
    PROVE  /\ RingType'
           /\ Occupied' = (Occupied \ {head}) \cup {tail} /\ tail \notin Occupied
           /\ queue'[tail] = HeadSlot
           /\ \A i \in Occupied : queue'[i] = queue[i]
           /\ RingLength' = RingLength
<1>1. head \in 0 .. N /\ tail \in 0 .. N /\ head # tail /\ queue \in [0 .. N -> Slot]
  BY DEF RingType, NoneAvailable
<1>2. /\ head' = Wrap(head + 1) /\ tail' = Wrap(tail + 1)
      /\ queue' = [queue EXCEPT ![tail] = HeadSlot]
  BY DEF Rotate
<1>3. head' \in 0 .. N /\ tail' \in 0 .. N
  BY <1>1, <1>2, WrapRange
<1>4. queue' \in [0 .. N -> Slot] /\ queue'[tail] = HeadSlot
  BY <1>1, <1>2 DEF HeadSlot
<1>5. tail \notin Occupied /\ Occupied \subseteq 0 .. N
  BY <1>1, TailFree
<1>6. \A i \in Occupied : queue'[i] = queue[i]
  BY <1>1, <1>2, <1>5
<1>7. Occupied' = (Occupied \ {head}) \cup {tail} /\ RingLength' = RingLength
  BY <1>1, <1>2, BothMove
<1>8. QED
  BY <1>3, <1>4, <1>5, <1>6, <1>7 DEF RingType

-------------------------------------------------------------------------------
(* Which slots are busy, and the counters that follow them. *)

\* The busy slots that count for the ramp up.
RampUp == {s \in Busy : ~start_IO[s]}

LEMMA BusySlots ==
    /\ Busy \subseteq Slot /\ RampUp \subseteq Slot
    /\ \A t : BusyOn(t) \subseteq Slot
  BY DEF Busy, RampUp, BusyOn

LEMMA Counting ==
    ASSUME OutstandingAgrees
    PROVE  outstanding_ios \in 0 .. N /\ \A t \in Target : target_ios[t] \in 0 .. N
  BY BusySlots, SubsetFinite DEF OutstandingAgrees

LEMMA BumpType ==
    ASSUME NEW f \in [Target -> 0 .. N], NEW t \in Target
    PROVE  [f EXCEPT ![t] = @ + 1] \in [Target -> Int]
  OBVIOUS

\* A slot becomes free.
LEMMA CountDown ==
    ASSUME OutstandingAgrees, target_ios \in [Target -> 0 .. N],
           NEW s \in Busy, Busy' = Busy \ {s},
           outstanding_ios' = outstanding_ios - 1,
           target_ios' = [target_ios EXCEPT ![TargetOf[s]] = @ - 1]
    PROVE  OutstandingAgrees'
<1>1. s \in Slot /\ TargetOf[s] \in Target
  BY BusySlots
<1>2. outstanding_ios' = Cardinality(Busy')
  BY CardRemove, BusySlots DEF OutstandingAgrees
<1>3. ASSUME NEW t \in Target
      PROVE  target_ios'[t] = Cardinality(BusyOn(t)')
  <2>1. CASE TargetOf[s] = t
    <3>1. s \in BusyOn(t) /\ BusyOn(t)' = BusyOn(t) \ {s}
      BY <2>1 DEF BusyOn
    <3>2. Cardinality(BusyOn(t)') = Cardinality(BusyOn(t)) - 1
      BY <3>1, CardRemove, BusySlots
    <3>3. target_ios'[t] = target_ios[t] - 1
      BY <2>1
    <3>4. QED
      BY <3>2, <3>3 DEF OutstandingAgrees
  <2>2. CASE TargetOf[s] # t
    <3>1. BusyOn(t)' = BusyOn(t)
      BY <2>2 DEF BusyOn
    <3>2. target_ios'[t] = target_ios[t]
      BY <2>2, <1>1
    <3>3. QED
      BY <3>1, <3>2 DEF OutstandingAgrees
  <2>3. QED
    BY <2>1, <2>2
<1>4. QED
  BY <1>2, <1>3 DEF OutstandingAgrees

\* A slot becomes busy.
LEMMA CountUp ==
    ASSUME OutstandingAgrees, target_ios \in [Target -> 0 .. N],
           NEW s \in Slot, s \notin Busy, Busy' = Busy \cup {s},
           outstanding_ios' = outstanding_ios + 1,
           target_ios' = [target_ios EXCEPT ![TargetOf[s]] = @ + 1]
    PROVE  OutstandingAgrees'
<1>1. TargetOf[s] \in Target
  OBVIOUS
<1>2. outstanding_ios' = Cardinality(Busy')
  BY CardAdd, BusySlots DEF OutstandingAgrees
<1>3. ASSUME NEW t \in Target
      PROVE  target_ios'[t] = Cardinality(BusyOn(t)')
  <2>1. CASE TargetOf[s] = t
    <3>1. s \notin BusyOn(t) /\ BusyOn(t)' = BusyOn(t) \cup {s}
      BY <2>1 DEF BusyOn
    <3>2. Cardinality(BusyOn(t)') = Cardinality(BusyOn(t)) + 1
      BY <3>1, CardAdd, BusySlots
    <3>3. target_ios'[t] = target_ios[t] + 1
      BY <2>1
    <3>4. QED
      BY <3>2, <3>3 DEF OutstandingAgrees
  <2>2. CASE TargetOf[s] # t
    <3>1. BusyOn(t)' = BusyOn(t)
      BY <2>2 DEF BusyOn
    <3>2. target_ios'[t] = target_ios[t]
      BY <2>2, <1>1
    <3>3. QED
      BY <3>1, <3>2 DEF OutstandingAgrees
  <2>3. QED
    BY <2>1, <2>2
<1>4. QED
  BY <1>2, <1>3 DEF OutstandingAgrees

LEMMA CountSame ==
    ASSUME OutstandingAgrees, Busy' = Busy, UNCHANGED <<outstanding_ios, target_ios>>
    PROVE  OutstandingAgrees'
  BY DEF OutstandingAgrees, BusyOn

\* The counters keep their types where they keep agreeing.
LEMMA CountType ==
    ASSUME OutstandingAgrees', target_ios' \in [Target -> Int]
    PROVE  outstanding_ios' \in 0 .. N /\ target_ios' \in [Target -> 0 .. N]
<1>1. Busy' \subseteq Slot /\ \A t : BusyOn(t)' \subseteq Slot
  BY DEF Busy, BusyOn
<1>2. outstanding_ios' \in 0 .. N
  BY <1>1, SubsetFinite DEF OutstandingAgrees
<1>3. \A t \in Target : target_ios'[t] \in 0 .. N
  BY <1>1, SubsetFinite DEF OutstandingAgrees
<1>4. QED
  BY <1>2, <1>3

-------------------------------------------------------------------------------
LEMMA NoMoreLost ==
    ASSUME LostByRest,
           \A s \in Slot : io'[s] = "lost" => io[s] = "lost" \/ "error" \in PartialResult
    PROVE  LostByRest'
  BY DEF LostByRest, Lost

(* The three ways the ring and the busy slots change together. *)

LEMMA ConserveRelease ==
    ASSUME RingOrBusy, NEW s \in Slot, io \in [Slot -> IOPlace], io[s] # "none",
           io' = [io EXCEPT ![s] = "none"],
           Occupied' = Occupied \cup {tail}, tail \notin Occupied, queue'[tail] = s,
           \A i \in Occupied : queue'[i] = queue[i]
    PROVE  RingOrBusy'
<1>1. \A i \in Occupied : queue[i] # s
  BY DEF RingOrBusy
<1>2. \A i, j \in Occupied' : queue'[i] = queue'[j] => i = j
  BY <1>1 DEF RingOrBusy
<1>3. ASSUME NEW x \in Slot
      PROVE  io'[x] = "none" <=> \E i \in Occupied' : queue'[i] = x
  BY DEF RingOrBusy
<1>4. QED
  BY <1>2, <1>3 DEF RingOrBusy

LEMMA ConserveAcquire ==
    ASSUME RingOrBusy, io \in [Slot -> IOPlace], HeadSlot \in Slot, head \in Occupied,
           NEW place, place # "none", io' = [io EXCEPT ![HeadSlot] = place],
           Occupied' = Occupied \ {head}, queue' = queue
    PROVE  RingOrBusy'
<1>1. \A i \in Occupied \ {head} : queue[i] # HeadSlot
  BY DEF RingOrBusy, HeadSlot
<1>2. \A i, j \in Occupied' : queue'[i] = queue'[j] => i = j
  BY DEF RingOrBusy
<1>3. ASSUME NEW x \in Slot
      PROVE  io'[x] = "none" <=> \E i \in Occupied' : queue'[i] = x
  <2>1. CASE x = HeadSlot
    BY <1>1, <2>1
  <2>2. CASE x # HeadSlot
    BY <2>2 DEF RingOrBusy, HeadSlot
  <2>3. QED
    BY <2>1, <2>2
<1>4. QED
  BY <1>2, <1>3 DEF RingOrBusy

LEMMA ConserveRotate ==
    ASSUME RingOrBusy, io' = io, head \in Occupied,
           Occupied' = (Occupied \ {head}) \cup {tail}, tail \notin Occupied,
           queue'[tail] = HeadSlot, \A i \in Occupied : queue'[i] = queue[i]
    PROVE  RingOrBusy'
<1>1. \A i \in Occupied \ {head} : queue[i] # HeadSlot
  BY DEF RingOrBusy, HeadSlot
<1>2. \A i, j \in Occupied' : queue'[i] = queue'[j] => i = j
  BY <1>1 DEF RingOrBusy
<1>3. ASSUME NEW x \in Slot
      PROVE  io'[x] = "none" <=> \E i \in Occupied' : queue'[i] = x
  BY DEF RingOrBusy, HeadSlot
<1>4. QED
  BY <1>2, <1>3 DEF RingOrBusy

\* The slot at the head is free.
LEMMA HeadFree ==
    ASSUME RingType, RingOrBusy, ~NoneAvailable
    PROVE  head \in Occupied /\ HeadSlot \in Slot /\ io[HeadSlot] = "none"
           /\ HeadSlot \notin Busy
<1>1. head \in Occupied /\ HeadSlot \in Slot
  BY HeadAvailable
<1>2. io[HeadSlot] = "none"
  BY <1>1 DEF RingOrBusy, HeadSlot
<1>3. QED
  BY <1>1, <1>2 DEF Busy

-------------------------------------------------------------------------------
(* What recording a completion does to the slot and to the ramp up. *)

LEMMA RecordIOSlot ==
    ASSUME DataType, NEW s \in Slot, remaining_requests[s] + remaining_replies[s] >= 1,
           NEW ok \in BOOLEAN, NEW pending \in Nat, RecordIO(s, ok, pending)
    PROVE  /\ remaining_requests' \in [Slot -> {0, 1}]
           /\ remaining_replies' \in [Slot -> {0, 1}]
           /\ \A x \in Slot : x # s => /\ remaining_requests'[x] = remaining_requests[x]
                                       /\ remaining_replies'[x] = remaining_replies[x]
           /\ start_IO' = start_IO /\ start_transaction' = start_transaction
<1>1. /\ remaining_requests \in [Slot -> {0, 1}]
      /\ remaining_replies \in [Slot -> {0, 1}]
  BY DEF DataType
<1>2. start_IO' = start_IO /\ start_transaction' = start_transaction
  BY DEF RecordIO
<1>3. CASE remaining_requests[s] > 0
  <2>1. /\ remaining_requests' = [remaining_requests EXCEPT ![s] = @ - 1]
        /\ remaining_replies' = remaining_replies
    BY <1>3 DEF RecordIO
  <2>2. remaining_requests[s] = 1
    BY <1>1, <1>3
  <2>3. QED
    BY <1>1, <1>2, <2>1, <2>2
<1>4. CASE ~(remaining_requests[s] > 0)
  <2>1. /\ remaining_replies' = [remaining_replies EXCEPT ![s] = @ - 1]
        /\ remaining_requests' = remaining_requests
    BY <1>4 DEF RecordIO
  <2>2. remaining_requests[s] = 0 /\ remaining_replies[s] = 1
    BY <1>1, <1>4
  <2>3. QED
    BY <1>1, <1>2, <2>1, <2>2
<1>5. QED
  BY <1>3, <1>4

LEMMA RecordIOCounters ==
    ASSUME DataType, NEW s \in Slot, NEW ok \in BOOLEAN, NEW pending \in Nat,
           RecordIO(s, ok, pending)
    PROVE  /\ effect' \subseteq {"io", "error", "transaction", "connection", "clock"}
           /\ sampled' \in BOOLEAN
           /\ ramp_up_ios_pending' \in Nat /\ ramp_up_ios_pending' <= pending
           /\ ~start_IO[s] /\ pending > 0 => ramp_up_ios_pending' = pending - 1
<1>1. effect' \subseteq {"io", "error", "transaction", "connection", "clock"}
  BY DEF RecordIO, Results
<1>2. sampled' \in BOOLEAN
  BY DEF RecordIO, DataType, Counted
<1>3. ramp_up_ios_pending' = PendingAfter(s, pending)
  BY DEF RecordIO
<1>4. QED
  BY <1>1, <1>2, <1>3 DEF PendingAfter, Counted

\* A completion returns the slot to the ring.
LEMMA ReleaseKeepsData ==
    ASSUME Data, NEW s \in Busy, NEW ok \in BOOLEAN, Record_IO(s, ok)
    PROVE  /\ Data' /\ Busy' = Busy \ {s}
           /\ ~NoneAvailable => /\ ~NoneAvailable' /\ HeadSlot' = HeadSlot
                                /\ remaining_requests'[HeadSlot] = remaining_requests[HeadSlot]
                                /\ remaining_replies'[HeadSlot] = remaining_replies[HeadSlot]
<1> USE DEF Data
<1>1. /\ s \in Slot /\ io[s] # "none" /\ ramp_up_ios_pending \in Nat
      /\ remaining_requests[s] + remaining_replies[s] >= 1
      /\ io \in [Slot -> IOPlace] /\ target_ios \in [Target -> 0 .. N]
  <2>1. s \in Slot /\ io[s] # "none"
    BY DEF Busy
  <2>2. ramp_up_ios_pending \in Nat /\ target_ios \in [Target -> 0 .. N]
    BY DEF DataType
  <2>3. remaining_requests[s] + remaining_replies[s] >= 1
    BY DEF Unfinished
  <2>4. io \in [Slot -> IOPlace]
    BY DEF DataType
  <2>5. QED
    BY <2>1, <2>2, <2>3, <2>4
<1>2. /\ RecordIO(s, ok, ramp_up_ios_pending) /\ PutBack(s)
      /\ io' = [io EXCEPT ![s] = "none"]
      /\ outstanding_ios' = outstanding_ios - 1
      /\ target_ios' = [target_ios EXCEPT ![TargetOf[s]] = @ - 1]
  BY DEF Record_IO
<1>3. outstanding_ios >= 1
  BY CardRemove, BusySlots DEF OutstandingAgrees
<1>4. RingLength < N /\ outstanding_ios \in 0 .. N
  BY <1>3, Counting
<1>5. /\ RingType' /\ Occupied' = Occupied \cup {tail} /\ tail \notin Occupied
      /\ queue'[tail] = s /\ \A i \in Occupied : queue'[i] = queue[i]
      /\ RingLength' = RingLength + 1
      /\ ~NoneAvailable => ~NoneAvailable' /\ HeadSlot' = HeadSlot
  BY <1>1, <1>2, <1>4, PutBackRing
<1>6. RingOrBusy'
  BY <1>1, <1>2, <1>5, ConserveRelease
<1>7. Busy' = Busy \ {s}
  BY <1>1, <1>2 DEF Busy
<1>8. OutstandingAgrees'
  BY <1>1, <1>2, <1>7, CountDown
<1>9. outstanding_ios' \in 0 .. N /\ target_ios' \in [Target -> 0 .. N]
  <2>1. target_ios' \in [Target -> Int]
    BY <1>1, <1>2
  <2>2. QED
    BY <2>1, <1>8, CountType
<1>10. /\ remaining_requests' \in [Slot -> {0, 1}]
       /\ remaining_replies' \in [Slot -> {0, 1}]
       /\ \A x \in Slot : x # s => /\ remaining_requests'[x] = remaining_requests[x]
                                   /\ remaining_replies'[x] = remaining_replies[x]
       /\ start_IO' = start_IO /\ start_transaction' = start_transaction
  BY <1>1, <1>2, RecordIOSlot
<1>11. /\ effect' \subseteq {"io", "error", "transaction", "connection", "clock"}
       /\ sampled' \in BOOLEAN
       /\ ramp_up_ios_pending' \in Nat /\ ramp_up_ios_pending' <= ramp_up_ios_pending
       /\ ~start_IO[s] /\ ramp_up_ios_pending > 0
             => ramp_up_ios_pending' = ramp_up_ios_pending - 1
  BY <1>1, <1>2, RecordIOCounters
<1>12. RampUpBounded'
  <2>1. CASE start_IO[s]
    <3>1. RampUp' = RampUp
      BY <2>1, <1>7, <1>10 DEF RampUp
    <3>2. Cardinality(RampUp') = Cardinality(RampUp) /\ Cardinality(RampUp) \in 0 .. N
      BY <3>1, BusySlots, SubsetFinite
    <3>3. QED
      BY <3>2, <1>1, <1>11 DEF RampUpBounded, RampUp
  <2>2. CASE ~start_IO[s]
    <3>1. s \in RampUp /\ RampUp' = RampUp \ {s}
      BY <2>2, <1>7, <1>10 DEF RampUp
    <3>2. /\ Cardinality(RampUp') = Cardinality(RampUp) - 1
          /\ Cardinality(RampUp) >= 1 /\ Cardinality(RampUp) \in 0 .. N
      BY <3>1, BusySlots, CardRemove, SubsetFinite
    <3>3. QED
      BY <2>2, <3>2, <1>1, <1>11 DEF RampUpBounded, RampUp
  <2>3. QED
    BY <2>1, <2>2
<1>13. ramp_up_ios_pending' \in 0 .. N
  BY <1>1, <1>11 DEF DataType
<1>14. Unfinished'
  BY <1>7, <1>10, BusySlots DEF Unfinished
<1>15. RingLength' = N - outstanding_ios'
  BY <1>2, <1>4, <1>5
<1>16. io' \in [Slot -> IOPlace]
  BY <1>1, <1>2 DEF IOPlace
<1>17. DataType'
  BY <1>9, <1>10, <1>11, <1>13, <1>16 DEF DataType
<1>18. ~NoneAvailable => HeadSlot \in Slot /\ HeadSlot # s
  BY HeadFree
<1>19. LostByRest'
  <2>1. \A x \in Slot : io'[x] = "lost" => io[x] = "lost"
    BY <1>1, <1>2
  <2>2. QED
    BY <2>1, NoMoreLost
<1>20. QED
  BY <1>5, <1>6, <1>7, <1>8, <1>10, <1>12, <1>14, <1>15, <1>17, <1>18, <1>19

\* Requests move between the kernel, the completion queue and oblivion.
LEMMA MoveKeepsData ==
    ASSUME Data, io' \in [Slot -> IOPlace], Busy' = Busy,
           \A s \in Slot : io'[s] = "lost" => io[s] = "lost" \/ "error" \in PartialResult,
           UNCHANGED <<ring, trans, counts>>,
           effect' \subseteq {"io", "error", "transaction", "connection", "clock"},
           sampled' \in BOOLEAN
    PROVE  Data'
<1> USE DEF Data, ring, trans, counts
<1>1. RingType' /\ RingLength' = N - outstanding_ios'
  BY DEF RingType, RingLength
<1>2. DataType'
  BY DEF DataType
<1>3. RingOrBusy'
  <2>1. \A x \in Slot : io'[x] = "none" <=> io[x] = "none"
    BY DEF Busy
  <2>2. Occupied' = Occupied
    BY DEF Occupied
  <2>3. QED
    BY <2>1, <2>2 DEF RingOrBusy
<1>4. OutstandingAgrees'
  BY CountSame
<1>5. RampUpBounded'
  BY DEF RampUpBounded
<1>6. Unfinished'
  BY DEF Unfinished
<1>7. LostByRest'
  BY NoMoreLost
<1>8. QED
  BY <1>1, <1>2, <1>3, <1>4, <1>5, <1>6, <1>7

\* A poll frees one slot or none.
AtMostOneFreed == Busy' = Busy \/ \E s \in Busy : Busy' = Busy \ {s}

\* Whatever a poll brings, the slot at the head stays at the head.
LEMMA CompletionKeepsData ==
    ASSUME Data, (\E s \in Slot : Return(s)) \/ Note \/ \E wait \in BOOLEAN : TimeOut(wait)
    PROVE  /\ Data' /\ AtMostOneFreed
           /\ ~NoneAvailable => /\ ~NoneAvailable' /\ HeadSlot' = HeadSlot
                                /\ remaining_requests'[HeadSlot] = remaining_requests[HeadSlot]
                                /\ remaining_replies'[HeadSlot] = remaining_replies[HeadSlot]
<1>1. ASSUME NEW s \in Slot, Return(s)
      PROVE  /\ Data' /\ AtMostOneFreed
             /\ ~NoneAvailable => /\ ~NoneAvailable' /\ HeadSlot' = HeadSlot
                                  /\ remaining_requests'[HeadSlot] = remaining_requests[HeadSlot]
                                  /\ remaining_replies'[HeadSlot] = remaining_replies[HeadSlot]
  <2>1. s \in Busy
    BY <1>1 DEF Return, Busy
  <2>2. CASE \E ok \in BOOLEAN : Record_IO(s, ok)
    BY <2>1, <2>2, ReleaseKeepsData DEF AtMostOneFreed
  <2>3. CASE Do_Partial_IO(s)
    <3>1. PICK r \in PartialResult :
             /\ io' = [io EXCEPT ![s] = IF r = "pending" THEN "kernel" ELSE "lost"]
             /\ effect' = IF r = "error" /\ Recording THEN {"error"} ELSE {}
             /\ UNCHANGED <<ring, trans, counts, sampled>>
      BY <2>3 DEF Do_Partial_IO
    <3>2. io \in [Slot -> IOPlace] /\ sampled \in BOOLEAN
      BY DEF Data, DataType
    <3>3. io' \in [Slot -> IOPlace]
      BY <3>1, <3>2 DEF IOPlace
    <3>4. Busy' = Busy
      BY <3>1, <3>2, <2>1 DEF Busy
    <3>5. effect' \subseteq {"io", "error", "transaction", "connection", "clock"}
      BY <3>1
    <3>6. sampled' \in BOOLEAN /\ UNCHANGED <<ring, trans, counts>>
      BY <3>1, <3>2
    <3>7. \A x \in Slot : io'[x] = "lost" => io[x] = "lost" \/ "error" \in PartialResult
      <4>1. CASE r = "pending"
        BY <4>1, <3>1, <3>2, <1>1
      <4>2. CASE r = "error"
        BY <4>2
      <4>3. QED
        BY <4>1, <4>2, SpecAssumption
    <3>8. Data'
      BY <3>3, <3>4, <3>5, <3>6, <3>7, MoveKeepsData
    <3>9. QED
      BY <3>1, <3>4, <3>8 DEF ring, trans, NoneAvailable, HeadSlot, AtMostOneFreed
  <2>4. QED
    BY <1>1, <2>2, <2>3 DEF Return
<1>2. ASSUME NEW S \in SUBSET Slot, NoteFinished(S)
      PROVE  Data' /\ Busy' = Busy /\ UNCHANGED <<ring, trans>>
  <2>1. io' = [s \in Slot |-> IF s \in S THEN "tagged" ELSE io[s]]
    BY <1>2 DEF NoteFinished
  <2>2. io \in [Slot -> IOPlace] /\ sampled \in BOOLEAN
    BY DEF Data, DataType
  <2>3. io' \in [Slot -> IOPlace]
    BY <2>1, <2>2 DEF IOPlace
  <2>4. Busy' = Busy
    BY <1>2, <2>1 DEF Busy, NoteFinished
  <2>5. /\ UNCHANGED <<ring, trans, counts>> /\ sampled' \in BOOLEAN
        /\ effect' \subseteq {"io", "error", "transaction", "connection", "clock"}
    BY <1>2, <2>2 DEF NoteFinished
  <2>6. \A x \in Slot : io'[x] = "lost" => io[x] = "lost"
    BY <2>1
  <2>7. Data'
    BY <2>3, <2>4, <2>5, <2>6, MoveKeepsData
  <2>8. QED
    BY <2>4, <2>5, <2>7
<1>3. CASE \E wait \in BOOLEAN : TimeOut(wait)
  <2>1. io \in [Slot -> IOPlace] /\ sampled \in BOOLEAN
    BY DEF Data, DataType
  <2>2. /\ io' = io /\ UNCHANGED <<ring, trans, counts>> /\ sampled' \in BOOLEAN
        /\ effect' \subseteq {"io", "error", "transaction", "connection", "clock"}
    BY <1>3, <2>1 DEF TimeOut
  <2>3. Busy' = Busy
    BY <2>2 DEF Busy
  <2>4. Data'
    BY <2>1, <2>2, <2>3, MoveKeepsData
  <2>5. QED
    BY <2>2, <2>3, <2>4 DEF ring, trans, NoneAvailable, HeadSlot, AtMostOneFreed
<1>4. CASE Note
  <2>1. PICK S \in SUBSET Slot : NoteFinished(S)
    BY <1>4 DEF Note
  <2>2. Data' /\ Busy' = Busy /\ UNCHANGED <<ring, trans>>
    BY <2>1, <1>2
  <2>3. QED
    BY <2>2 DEF ring, trans, NoneAvailable, HeadSlot, AtMostOneFreed
<1>5. QED
  BY <1>1, <1>3, <1>4

\* A request is handed to the kernel.
LEMMA AcquireKeepsData ==
    ASSUME Data, HeadInHand, SubmitPending
    PROVE  Data' /\ HeadSlot \notin Busy /\ Busy' = Busy \cup {HeadSlot}
<1> USE DEF Data
<1>1. ~NoneAvailable /\ remaining_requests[HeadSlot] + remaining_replies[HeadSlot] >= 1
  BY DEF HeadInHand, Holding, Staged, SubmitPending
<1>2. /\ head \in Occupied /\ HeadSlot \in Slot /\ io[HeadSlot] = "none"
      /\ HeadSlot \notin Busy
  BY <1>1, HeadFree
<1>3. /\ io' = [io EXCEPT ![HeadSlot] = "kernel"]
      /\ outstanding_ios' = outstanding_ios + 1
      /\ target_ios' = [target_ios EXCEPT ![TargetOf[HeadSlot]] = @ + 1]
      /\ ramp_up_ios_pending' = PendingWith(HeadSlot)
      /\ TakeHead /\ effect' = {} /\ UNCHANGED <<trans, sampled>>
  BY DEF SubmitPending
<1>4. /\ RingType' /\ queue' = queue
      /\ Occupied' = Occupied \ {head} /\ RingLength' = RingLength - 1
  BY <1>1, <1>3, TakeHeadRing
<1>5. io \in [Slot -> IOPlace] /\ target_ios \in [Target -> 0 .. N]
  BY DEF DataType
<1>6. RingOrBusy'
  BY <1>2, <1>3, <1>4, <1>5, ConserveAcquire
<1>7. Busy' = Busy \cup {HeadSlot}
  BY <1>2, <1>3, <1>5 DEF Busy
<1>8. OutstandingAgrees'
  BY <1>2, <1>3, <1>5, <1>7, CountUp
<1>9. outstanding_ios' \in 0 .. N /\ target_ios' \in [Target -> 0 .. N]
  <2>1. target_ios' \in [Target -> Int]
    BY <1>2, <1>3, <1>5, BumpType
  <2>2. QED
    BY <2>1, <1>8, CountType
<1>10. ramp_up_ios_pending' \in Nat /\ RampUpBounded'
  <2>1. start_IO' = start_IO /\ ramp_up_ios_pending \in Nat
    BY <1>3 DEF trans, DataType
  <2>2. CASE start_IO[HeadSlot]
    <3>1. RampUp' = RampUp
      BY <2>1, <2>2, <1>7 DEF RampUp
    <3>2. ramp_up_ios_pending' = ramp_up_ios_pending
      BY <2>2, <1>3 DEF PendingWith
    <3>3. QED
      BY <3>1, <3>2, <2>1 DEF RampUpBounded, RampUp
  <2>3. CASE ~start_IO[HeadSlot]
    <3>1. RampUp' = RampUp \cup {HeadSlot} /\ HeadSlot \notin RampUp
      BY <2>1, <2>3, <1>2, <1>7 DEF RampUp
    <3>2. Cardinality(RampUp') = Cardinality(RampUp) + 1 /\ Cardinality(RampUp) \in 0 .. N
      BY <3>1, <1>2, BusySlots, CardAdd, SubsetFinite
    <3>3. ramp_up_ios_pending' = ramp_up_ios_pending + 1
      BY <2>3, <1>3 DEF PendingWith
    <3>4. QED
      BY <3>2, <3>3, <2>1 DEF RampUpBounded, RampUp
  <2>4. QED
    BY <2>2, <2>3
<1>11. ramp_up_ios_pending' \in 0 .. N
  <2>1. RampUp' \subseteq Slot
    BY DEF RampUp, Busy
  <2>2. Cardinality(RampUp') \in 0 .. N
    BY <2>1, SubsetFinite
  <2>3. QED
    BY <1>10, <2>2 DEF RampUpBounded, RampUp
<1>12. io' \in [Slot -> IOPlace]
  BY <1>3, <1>5 DEF IOPlace
<1>13. DataType'
  BY <1>3, <1>9, <1>11, <1>12 DEF DataType, trans
<1>14. Unfinished'
  BY <1>1, <1>3, <1>7 DEF Unfinished, trans
<1>15. RingLength' = N - outstanding_ios'
  <2>1. outstanding_ios \in Int
    BY DEF DataType
  <2>2. QED
    BY <2>1, <1>3, <1>4
<1>16. LostByRest'
  <2>1. \A x \in Slot : io'[x] = "lost" => io[x] = "lost"
    BY <1>3, <1>5
  <2>2. QED
    BY <2>1, NoMoreLost
<1>17. QED
  BY <1>2, <1>4, <1>6, <1>7, <1>8, <1>10, <1>13, <1>14, <1>15, <1>16

\* The slot at the head goes to the tail, its I/O done or not started.
LEMMA RotateKeepsData ==
    ASSUME Data, ~NoneAvailable, Rotate, UNCHANGED <<io, outstanding_ios, target_ios, start_IO>>,
           DataType', RampUpBounded',
           \A s \in Busy : /\ remaining_requests'[s] = remaining_requests[s]
                           /\ remaining_replies'[s] = remaining_replies[s]
    PROVE  Data' /\ Busy' = Busy
<1> USE DEF Data
<1>1. /\ RingType' /\ RingLength' = RingLength
      /\ Occupied' = (Occupied \ {head}) \cup {tail} /\ tail \notin Occupied
      /\ queue'[tail] = HeadSlot
      /\ \A i \in Occupied : queue'[i] = queue[i]
  BY RotateRing
<1>2. head \in Occupied
  BY HeadFree
<1>3. RingOrBusy'
  BY <1>1, <1>2, ConserveRotate
<1>4. Busy' = Busy
  BY DEF Busy
<1>5. OutstandingAgrees'
  BY <1>4, CountSame
<1>6. Unfinished'
  BY <1>4 DEF Unfinished
<1>7. LostByRest'
  BY NoMoreLost
<1>8. QED
  BY <1>1, <1>3, <1>4, <1>5, <1>6, <1>7

LEMMA SuccessKeepsData ==
    ASSUME Data, HeadInHand, SubmitSuccess
    PROVE  Data' /\ Busy' = Busy
<1> USE DEF Data
<1>1. ~NoneAvailable /\ remaining_requests[HeadSlot] + remaining_replies[HeadSlot] >= 1
  BY DEF HeadInHand, Holding, Staged, SubmitSuccess
<1>2. HeadSlot \in Slot /\ HeadSlot \notin Busy
  BY <1>1, HeadFree
<1>3. /\ RecordIO(HeadSlot, TRUE, PendingWith(HeadSlot)) /\ Rotate
      /\ UNCHANGED <<io, outstanding_ios, target_ios>>
  BY DEF SubmitSuccess
<1>4. ramp_up_ios_pending \in 0 .. N /\ PendingWith(HeadSlot) \in Nat
  BY DEF DataType, PendingWith
<1>5. /\ remaining_requests' \in [Slot -> {0, 1}]
      /\ remaining_replies' \in [Slot -> {0, 1}]
      /\ \A x \in Slot : x # HeadSlot => /\ remaining_requests'[x] = remaining_requests[x]
                                         /\ remaining_replies'[x] = remaining_replies[x]
      /\ start_IO' = start_IO /\ start_transaction' = start_transaction
  BY <1>1, <1>2, <1>3, <1>4, RecordIOSlot
<1>6. /\ effect' \subseteq {"io", "error", "transaction", "connection", "clock"}
      /\ sampled' \in BOOLEAN
      /\ ramp_up_ios_pending' \in Nat
      /\ ramp_up_ios_pending' <= PendingWith(HeadSlot)
      /\ ~start_IO[HeadSlot] /\ PendingWith(HeadSlot) > 0
            => ramp_up_ios_pending' = PendingWith(HeadSlot) - 1
  BY <1>2, <1>3, <1>4, RecordIOCounters
<1>7. ramp_up_ios_pending' \in Nat /\ ramp_up_ios_pending' <= ramp_up_ios_pending
  BY <1>4, <1>6 DEF PendingWith
<1>8. DataType'
  BY <1>3, <1>4, <1>5, <1>6, <1>7 DEF DataType
<1>9. RampUpBounded'
  <2>1. RampUp' = RampUp
    BY <1>3, <1>5 DEF RampUp, Busy
  <2>2. Cardinality(RampUp) \in 0 .. N
    BY BusySlots, SubsetFinite
  <2>3. ramp_up_ios_pending <= Cardinality(RampUp)
    BY DEF RampUpBounded, RampUp
  <2>4. ramp_up_ios_pending' <= Cardinality(RampUp')
    BY <2>1, <2>2, <2>3, <1>4, <1>7
  <2>5. QED
    BY <2>4 DEF RampUpBounded, RampUp
<1>10. \A s \in Busy : /\ remaining_requests'[s] = remaining_requests[s]
                       /\ remaining_replies'[s] = remaining_replies[s]
  BY <1>2, <1>5, BusySlots
<1>11. QED
  BY <1>1, <1>3, <1>5, <1>8, <1>9, <1>10, RotateKeepsData

\* A rotation that leaves everything but the results alone.
LEMMA PlainRotateKeepsData ==
    ASSUME Data, ~NoneAvailable, Rotate, UNCHANGED <<trans, io, counts, sampled>>,
           effect' \subseteq {"io", "error", "transaction", "connection", "clock"}
    PROVE  Data' /\ Busy' = Busy
<1>1. DataType'
  BY DEF Data, DataType, trans, counts
<1>2. RampUpBounded'
  BY DEF Data, RampUpBounded, Busy, trans, counts
<1>3. QED
  BY <1>1, <1>2, RotateKeepsData DEF trans, counts

\* The transaction of the slot at the head is set up.
LEMMA HeadSetUpKeepsData ==
    ASSUME Data, ~NoneAvailable, UNCHANGED <<ring, io, counts>>, DataType',
           \A s \in Slot : s # HeadSlot =>
               /\ remaining_requests'[s] = remaining_requests[s]
               /\ remaining_replies'[s] = remaining_replies[s]
               /\ start_IO'[s] = start_IO[s]
    PROVE  Data' /\ Busy' = Busy /\ HeadSlot' = HeadSlot
<1> USE DEF Data
<1>1. HeadSlot \notin Busy
  BY HeadFree
<1>2. Busy' = Busy /\ Occupied' = Occupied /\ HeadSlot' = HeadSlot
  BY DEF Busy, Occupied, HeadSlot, ring
<1>3. RingType' /\ RingLength' = N - outstanding_ios'
  BY DEF RingType, RingLength, ring, counts
<1>4. RingOrBusy'
  BY <1>2 DEF RingOrBusy, ring
<1>5. OutstandingAgrees'
  BY <1>2, CountSame DEF counts
<1>6. RampUp' = RampUp
  BY <1>1, <1>2, BusySlots DEF RampUp
<1>7. RampUpBounded'
  BY <1>6 DEF RampUpBounded, RampUp, counts
<1>8. Unfinished'
  BY <1>1, <1>2, BusySlots DEF Unfinished
<1>9. LostByRest'
  BY NoMoreLost
<1>10. QED
  BY <1>2, <1>3, <1>4, <1>5, <1>7, <1>8, <1>9

\* Nothing but the results changes.
LEMMA IdleKeepsData ==
    ASSUME Data, UNCHANGED <<ring, trans, io, counts>>, sampled' \in BOOLEAN,
           effect' \subseteq {"io", "error", "transaction", "connection", "clock"}
    PROVE  Data' /\ Busy' = Busy
<1>1. Busy' = Busy
  BY DEF Busy
<1>2. io' \in [Slot -> IOPlace]
  BY DEF Data, DataType
<1>3. Data'
  BY <1>1, <1>2, MoveKeepsData
<1>4. QED
  BY <1>1, <1>3

-------------------------------------------------------------------------------
(* Every action keeps the invariant. *)

LEMMA InitInv == Init => IInv
<1> SUFFICES ASSUME Init
             PROVE  IInv
  OBVIOUS
<1>1. Busy = {} /\ Occupied = 0 .. N - 1
  BY DEF Init, Busy, Occupied
<1>2. RingType
  BY DEF Init, RingType
<1>3. DataType
  <2>1. io \in [Slot -> IOPlace]
    BY DEF Init, IOPlace
  <2>2. outstanding_ios \in 0 .. N /\ ramp_up_ios_pending \in 0 .. N
    BY DEF Init
  <2>3. target_ios \in [Target -> 0 .. N]
    BY DEF Init
  <2>4. /\ remaining_requests \in [Slot -> {0, 1}]
        /\ remaining_replies \in [Slot -> {0, 1}]
    BY DEF Init
  <2>5. start_IO \in [Slot -> BOOLEAN] /\ start_transaction \in [Slot -> BOOLEAN]
    BY DEF Init
  <2>6. effect = {} /\ sampled = FALSE
    BY DEF Init
  <2>7. QED
    BY <2>1, <2>2, <2>3, <2>4, <2>5, <2>6 DEF DataType
<1>4. RingOrBusy
  <2>1. \A i \in 0 .. N - 1 : queue[i] = i
    BY DEF Init
  <2>2. \A s \in Slot : io[s] = "none"
    BY DEF Init
  <2>3. QED
    BY <1>1, <2>1, <2>2 DEF RingOrBusy
<1>5. OutstandingAgrees
  <2>1. \A t \in Target : BusyOn(t) = {}
    BY <1>1 DEF BusyOn
  <2>2. QED
    BY <1>1, <2>1, FS_EmptySet DEF Init, OutstandingAgrees
<1>6. RampUpBounded
  <2>1. RampUp = {}
    BY <1>1 DEF RampUp
  <2>2. Cardinality(RampUp) = 0
    BY <2>1, FS_EmptySet
  <2>3. QED
    BY <2>2 DEF Init, RampUpBounded, RampUp
<1>7. RingLength = N - outstanding_ios /\ Unfinished /\ LostByRest
  BY <1>1 DEF Init, RingLength, Unfinished, LostByRest, Lost
<1>8. ConnType
  BY DEF Init, ConnType
<1>9. ControlType /\ Handshake /\ HeadInHand
  BY <1>1 DEF Init, ControlType, TestStates, Places, Handshake, HeadInHand, Holding, Staged
<1>10. QED
  BY <1>2, <1>3, <1>4, <1>5, <1>6, <1>7, <1>8, <1>9 DEF IInv, Data

\* A new test starts on a worker with nothing outstanding.
LEMMA StartInv == ASSUME IInv, Start_Test PROVE IInv' /\ Busy = {} /\ Busy' = {}
<1>1. /\ pc = "none" /\ Busy = {}
  BY DEF IInv, Handshake, Start_Test
<1>2. /\ queue' = [i \in 0 .. N |-> IF i < N THEN i ELSE queue[i]]
      /\ head' = 0 /\ tail' = N
      /\ io' = io /\ outstanding_ios' = outstanding_ios
      /\ target_ios' = [t \in Target |-> 0] /\ ramp_up_ios_pending' = 0
  BY DEF Start_Test
<1>3. Busy' = {} /\ Occupied' = 0 .. N - 1
  BY <1>1, <1>2 DEF Busy, Occupied
<1>4. RingType'
  BY <1>2 DEF IInv, Data, RingType
<1>5. outstanding_ios = 0
  BY <1>1, FS_EmptySet DEF IInv, Data, OutstandingAgrees
<1>6. DataType'
  BY <1>5 DEF Start_Test, IInv, Data, DataType
<1>7. RingOrBusy'
  <2>1. \A s \in Slot : io'[s] = "none"
    BY <1>3 DEF Busy
  <2>2. QED
    BY <1>2, <1>3, <2>1 DEF RingOrBusy
<1>8. OutstandingAgrees'
  <2>1. \A t \in Target : BusyOn(t)' = {}
    BY <1>3 DEF BusyOn
  <2>2. QED
    BY <1>2, <1>3, <1>5, <2>1, FS_EmptySet DEF OutstandingAgrees
<1>9. RampUpBounded'
  <2>1. RampUp' = {}
    BY <1>3 DEF RampUp
  <2>2. Cardinality(RampUp') = 0
    BY <2>1, FS_EmptySet
  <2>3. QED
    BY <1>2, <2>2 DEF RampUpBounded, RampUp
<1>10. (RingLength = N - outstanding_ios)' /\ Unfinished' /\ LostByRest'
  BY <1>2, <1>3, <1>5, NoMoreLost DEF RingLength, Unfinished, IInv, Data
<1>11. ConnType'
  BY DEF Start_Test, ConnType
<1>12. ControlType' /\ Handshake' /\ HeadInHand'
  BY <1>3 DEF Start_Test, ControlType, TestStates, Places, Handshake, HeadInHand,
             Holding, Staged
<1>13. QED
  BY <1>1, <1>3, <1>4, <1>6, <1>7, <1>8, <1>9, <1>10, <1>11, <1>12 DEF IInv, Data

\* The manager's other commands touch none of the thread's variables.
LEMMA CommandInv ==
    ASSUME IInv, Begin_IO \/ Record_On \/ Record_Off \/ Stop_Test \/ Wait_For_Stop
    PROVE  IInv' /\ Busy' = Busy
<1>1. /\ UNCHANGED <<ring, trans, io, counts, conn, pc, critical_error>>
      /\ effect' = {} /\ sampled' \in BOOLEAN
  BY DEF IInv, Data, DataType, Begin_IO, Record_On, Record_Off, Stop_Test, Wait_For_Stop
<1>2. Data' /\ Busy' = Busy
  BY <1>1, IdleKeepsData DEF IInv
<1>3. ConnType'
  BY <1>1 DEF IInv, ConnType, conn
<1>4. ControlType'
  BY DEF IInv, ControlType, TestStates, Begin_IO, Record_On, Record_Off, Stop_Test,
         Wait_For_Stop
<1>5. Handshake'
  BY <1>2 DEF IInv, ControlType, Handshake, Begin_IO, Record_On, Record_Off, Stop_Test,
              Wait_For_Stop
<1>6. HeadInHand'
  BY <1>1 DEF IInv, HeadInHand, Holding, Staged, NoneAvailable, HeadSlot, ring, trans
<1>7. QED
  BY <1>2, <1>3, <1>4, <1>5, <1>6 DEF IInv

\* The thread's steps that leave the slots and the counters alone.
LEMMA QuietInv ==
    ASSUME IInv,
           \/ Open_Targets \/ LoopTest \/ PickNone \/ SubmitRetry \/ RetryTest \/ SubmitError
           \/ \E t \in Target : OpenConnection(t) \/ PickNew(t) \/ PickContinued(t)
    PROVE  IInv' /\ Busy' = Busy
<1>1. UNCHANGED <<ring, trans, io, counts, sampled>> /\ effect' = {}
  BY DEF Open_Targets, LoopTest, PickNone, SubmitRetry, RetryTest, SubmitError,
         OpenConnection, PickNew, PickContinued
<1>2. Data' /\ Busy' = Busy
  <2>1. sampled' \in BOOLEAN
    BY <1>1 DEF IInv, Data, DataType
  <2>2. QED
    BY <1>1, <2>1, IdleKeepsData DEF IInv
<1>3. ConnType'
  <2>1. CASE LoopTest \/ PickNone \/ SubmitRetry \/ RetryTest \/ SubmitError
             \/ \E t \in Target : PickContinued(t)
    <3>1. UNCHANGED conn
      BY <2>1 DEF LoopTest, PickNone, SubmitRetry, RetryTest, SubmitError, PickContinued
    <3>2. QED
      BY <3>1 DEF IInv, ConnType, conn
  <2>2. CASE Open_Targets
    <3>1. is_closing' \in [Target -> BOOLEAN]
      BY <2>2 DEF Open_Targets, IInv, ConnType
    <3>2. trans_left' \in [Target -> Nat]
      <4>1. \/ trans_left' = trans_left
            \/ trans_left' = [t \in Target |-> IF t \in ConnRate THEN 0 ELSE trans_left[t]]
        BY <2>2 DEF Open_Targets
      <4>2. trans_left \in [Target -> Nat]
        BY DEF IInv, ConnType
      <4>3. QED
        BY <4>1, <4>2
    <3>3. open' \in [Target -> BOOLEAN]
      BY <2>2 DEF Open_Targets, IInv, ConnType
    <3>4. QED
      BY <3>1, <3>2, <3>3 DEF ConnType
  <2>3. ASSUME NEW t \in Target, OpenConnection(t)
        PROVE  ConnType'
    BY <2>3, SpecAssumption DEF OpenConnection, IInv, ConnType
  <2>4. ASSUME NEW t \in Target, PickNew(t)
        PROVE  ConnType'
    <3>1. CASE t \in ConnRate
      <4>1. /\ trans_left[t] \in Nat /\ trans_left[t] > 0
            /\ trans_left' = [trans_left EXCEPT ![t] = @ - 1]
            /\ is_closing' = [is_closing EXCEPT ![t] = trans_left[t] - 1 <= 0]
            /\ open' = open
        BY <2>4, <3>1 DEF PickNew, CanUse, IInv, ConnType
      <4>2. QED
        BY <4>1 DEF IInv, ConnType
    <3>2. CASE t \notin ConnRate
      BY <2>4, <3>2 DEF PickNew, IInv, ConnType
    <3>3. QED
      BY <3>1, <3>2
  <2>5. QED
    BY <2>1, <2>2, <2>3, <2>4
<1>4. ControlType'
  BY DEF Open_Targets, LoopTest, PickNone, SubmitRetry, RetryTest, SubmitError,
         OpenConnection, PickNew, PickContinued, IInv, ControlType, Places, shared
<1>5. Handshake'
  <2>1. CASE Open_Targets
    <3>1. pc = "open" /\ cmd' = cmd /\ not_ready' = FALSE /\ pc' \in {"loop", "none"}
      BY <2>1 DEF Open_Targets
    <3>2. critical_error' => pc' = "none"
      BY <2>1 DEF Open_Targets, IInv, Handshake
    <3>3. cmd = "started" /\ Busy = {}
      BY <3>1 DEF IInv, Handshake
    <3>4. QED
      BY <3>1, <3>2, <3>3, <1>2 DEF Handshake
  <2>2. CASE ~Open_Targets
    <3>1. pc \notin {"none", "open"} /\ pc' \notin {"none", "open"} /\ UNCHANGED shared
      BY <2>2 DEF LoopTest, PickNone, SubmitRetry, RetryTest, SubmitError,
                  OpenConnection, PickNew, PickContinued
    <3>2. QED
      BY <3>1 DEF IInv, Handshake, shared
  <2>3. QED
    BY <2>1, <2>2
<1>6. HeadInHand'
  <2>1. /\ NoneAvailable' = NoneAvailable /\ HeadSlot' = HeadSlot
        /\ remaining_requests' = remaining_requests /\ remaining_replies' = remaining_replies
    BY <1>1 DEF ring, trans, NoneAvailable, HeadSlot
  <2>2. CASE \E t \in Target : PickContinued(t)
    <3>1. ~NoneAvailable /\ remaining_requests[HeadSlot] + remaining_replies[HeadSlot] > 0
      BY <2>2 DEF PickContinued
    <3>2. HeadSlot \in Slot
      BY <3>1, HeadFree DEF IInv, Data
    <3>3. remaining_requests[HeadSlot] + remaining_replies[HeadSlot] >= 1
      <4>1. remaining_requests[HeadSlot] \in {0, 1} /\ remaining_replies[HeadSlot] \in {0, 1}
        BY <3>2 DEF IInv, Data, DataType
      <4>2. QED
        BY <3>1, <4>1
    <3>4. QED
      BY <2>1, <3>1, <3>3 DEF HeadInHand
  <2>3. CASE \E t \in Target : PickNew(t)
    BY <2>1, <2>3 DEF PickNew, HeadInHand, Holding, Staged
  <2>4. CASE Open_Targets \/ LoopTest \/ PickNone \/ \E t \in Target : OpenConnection(t)
    BY <2>4 DEF Open_Targets, LoopTest, PickNone, OpenConnection, HeadInHand, Holding, Staged
  <2>5. CASE SubmitRetry \/ RetryTest \/ SubmitError
    BY <2>1, <2>5 DEF SubmitRetry, RetryTest, SubmitError, IInv, HeadInHand, Holding, Staged
  <2>6. QED
    BY <2>2, <2>3, <2>4, <2>5
<1>7. QED
  BY <1>2, <1>3, <1>4, <1>5, <1>6 DEF IInv

\* What a poll of the thread may bring.
LEMMA PollKinds ==
    ASSUME Poll \/ DelayPoll \/ RetryPoll \/ Drain
    PROVE  (\E s \in Slot : Return(s)) \/ Note \/ \E wait \in BOOLEAN : TimeOut(wait)
<1>1. NoneAvailable \in BOOLEAN
  BY DEF NoneAvailable
<1>2. ASSUME NEW wait \in BOOLEAN, Complete_IO(wait)
      PROVE  (\E s \in Slot : Return(s)) \/ Note \/ \E w \in BOOLEAN : TimeOut(w)
  BY <1>2 DEF Complete_IO
<1>3. CASE DelayPoll
  BY <1>3 DEF DelayPoll
<1>4. CASE Poll \/ RetryPoll \/ Drain
  BY <1>1, <1>2, <1>4 DEF Poll, RetryPoll, Drain
<1>5. QED
  BY <1>3, <1>4

LEMMA PollInv ==
    ASSUME IInv, Poll \/ DelayPoll \/ RetryPoll \/ Drain
    PROVE  IInv' /\ AtMostOneFreed
<1>1. /\ (\E s \in Slot : Return(s)) \/ Note \/ \E wait \in BOOLEAN : TimeOut(wait)
      /\ UNCHANGED <<shared, conn>>
  BY PollKinds DEF Poll, DelayPoll, RetryPoll, Drain
<1>2. /\ Data' /\ AtMostOneFreed
      /\ ~NoneAvailable => /\ ~NoneAvailable' /\ HeadSlot' = HeadSlot
                           /\ remaining_requests'[HeadSlot] = remaining_requests[HeadSlot]
                           /\ remaining_replies'[HeadSlot] = remaining_replies[HeadSlot]
  BY <1>1, CompletionKeepsData DEF IInv
<1>3. /\ pc' \notin {"none", "open"} /\ pc \notin {"none", "open"} /\ pc' \in Places
      /\ Holding' => Holding
      /\ Staged' => Staged
  BY DEF Poll, DelayPoll, RetryPoll, Drain, Holding, Staged, Places
<1>4. ConnType' /\ ControlType'
  BY <1>1, <1>3 DEF IInv, ConnType, ControlType, conn, shared
<1>5. Handshake'
  BY <1>1, <1>3 DEF IInv, Handshake, shared
<1>6. HeadInHand'
  BY <1>2, <1>3 DEF IInv, HeadInHand, Holding, Staged
<1>7. QED
  BY <1>2, <1>4, <1>5, <1>6 DEF IInv

LEMMA RotateInv ==
    ASSUME IInv, SubmitFailed \/ \E t \in Target : PickClosing(t)
    PROVE  IInv' /\ Busy' = Busy
<1>1. /\ ~NoneAvailable /\ Rotate /\ pc' = "loop" /\ pc \notin {"none", "open"}
      /\ UNCHANGED <<shared, trans, io, counts, sampled>>
  BY DEF SubmitFailed, PickClosing, IInv, HeadInHand, Holding
<1>2. effect' \subseteq {"io", "error", "transaction", "connection", "clock"}
  BY DEF SubmitFailed, PickClosing
<1>3. Data' /\ Busy' = Busy
  BY <1>1, <1>2, PlainRotateKeepsData DEF IInv
<1>4. ConnType'
  <2>1. CASE SubmitFailed
    BY <2>1 DEF SubmitFailed, IInv, ConnType, conn
  <2>2. ASSUME NEW t \in Target, PickClosing(t)
        PROVE  ConnType'
    <3>1. /\ open' = open \/ open' = [open EXCEPT ![t] = FALSE]
          /\ is_closing' = is_closing \/ is_closing' = [is_closing EXCEPT ![t] = FALSE]
          /\ trans_left' = trans_left
      BY <2>2 DEF PickClosing
    <3>2. QED
      BY <3>1 DEF IInv, ConnType
  <2>3. QED
    BY <2>1, <2>2
<1>5. ControlType' /\ Handshake' /\ HeadInHand'
  BY <1>1 DEF IInv, ControlType, Places, Handshake, HeadInHand, Holding, Staged, shared
<1>6. QED
  BY <1>3, <1>4, <1>5 DEF IInv

LEMMA SetUpInv ==
    ASSUME IInv, FillTransaction \/ StageIO
    PROVE  IInv' /\ Busy' = Busy
<1>1. /\ ~NoneAvailable /\ UNCHANGED <<shared, ring, io, conn, counts, sampled>>
      /\ pc' \in {"stage", "submit"} /\ pc \notin {"none", "open"} /\ effect' = {}
  BY DEF FillTransaction, StageIO, IInv, HeadInHand, Holding
<1>2. HeadSlot \in Slot
  BY <1>1, HeadFree DEF IInv, Data
<1>3. DataType /\ DataType'
  <2>1. DataType
    BY DEF IInv, Data
  <2>2. CASE FillTransaction
    BY <2>1, <2>2, <1>2, SpecAssumption DEF FillTransaction, DataType, counts
  <2>3. CASE StageIO
    BY <2>1, <2>3, <1>2 DEF StageIO, DataType, counts, Recording
  <2>4. QED
    BY <2>1, <2>2, <2>3
<1>4. \A s \in Slot : s # HeadSlot => /\ remaining_requests'[s] = remaining_requests[s]
                                      /\ remaining_replies'[s] = remaining_replies[s]
                                      /\ start_IO'[s] = start_IO[s]
  BY <1>3 DEF FillTransaction, StageIO, DataType
<1>5. Data' /\ Busy' = Busy /\ HeadSlot' = HeadSlot
  BY <1>1, <1>3, <1>4, HeadSetUpKeepsData DEF IInv
<1>6. ConnType' /\ ControlType' /\ Handshake'
  BY <1>1 DEF IInv, ConnType, ControlType, Places, Handshake, conn, shared
<1>7. remaining_requests'[HeadSlot] + remaining_replies'[HeadSlot] >= 1
  <2>1. CASE FillTransaction
    <3>1. remaining_requests'[HeadSlot] = 1 /\ remaining_replies'[HeadSlot] \in {0, 1}
      BY <2>1, <1>2, <1>3, SpecAssumption DEF FillTransaction, DataType
    <3>2. QED
      BY <3>1
  <2>2. CASE StageIO
    BY <2>2 DEF StageIO, IInv, HeadInHand, Staged
  <2>3. QED
    BY <2>1, <2>2
<1>8. HeadInHand'
  BY <1>1, <1>5, <1>7 DEF HeadInHand, NoneAvailable, ring
<1>9. QED
  BY <1>5, <1>6, <1>8 DEF IInv

LEMMA SubmitInv ==
    ASSUME IInv, SubmitPending \/ SubmitSuccess
    PROVE  IInv' /\ (Busy' = Busy \/ (HeadSlot \notin Busy /\ Busy' = Busy \cup {HeadSlot}))
<1>1. UNCHANGED <<shared, conn>> /\ pc' = "loop" /\ pc \notin {"none", "open"}
  BY DEF SubmitPending, SubmitSuccess
<1>2. Data' /\ (Busy' = Busy \/ (HeadSlot \notin Busy /\ Busy' = Busy \cup {HeadSlot}))
  BY AcquireKeepsData, SuccessKeepsData DEF IInv
<1>3. ConnType' /\ ControlType' /\ Handshake' /\ HeadInHand'
  BY <1>1 DEF IInv, ConnType, ControlType, Places, Handshake, HeadInHand, Holding, Staged,
              conn, shared
<1>4. QED
  BY <1>2, <1>3 DEF IInv

\* The thread ends only when nothing is outstanding.
LEMMA CloseInv ==
    ASSUME IInv, Close_Targets
    PROVE  IInv' /\ Busy = {} /\ Busy' = {}
<1>1. UNCHANGED <<ring, trans, io, counts, sampled>> /\ effect' = {}
  BY DEF Close_Targets
<1>2. Data' /\ Busy' = Busy
  <2>1. sampled' \in BOOLEAN
    BY <1>1 DEF IInv, Data, DataType
  <2>2. QED
    BY <1>1, <2>1, IdleKeepsData DEF IInv
<1>3. Busy = {}
  <2>1. Cardinality(Busy) <= 0
    BY DEF Close_Targets, IInv, Data, OutstandingAgrees
  <2>2. Cardinality(Busy) \in 0 .. N /\ IsFiniteSet(Busy)
    BY BusySlots, SubsetFinite
  <2>3. Cardinality(Busy) = 0
    BY <2>1, <2>2
  <2>4. QED
    BY <2>2, <2>3, FS_EmptySet
<1>4. ConnType' /\ ControlType' /\ Handshake' /\ HeadInHand'
  BY <1>2, <1>3 DEF Close_Targets, IInv, ConnType, ControlType, Places, Handshake,
                    HeadInHand, Holding, Staged
<1>5. QED
  BY <1>2, <1>3, <1>4 DEF IInv

-------------------------------------------------------------------------------
(* The theorems. *)

LEMMA StutterInv == ASSUME IInv, UNCHANGED vars PROVE IInv'
<1>1. UNCHANGED <<ring, trans, io, counts, conn, shared, pc, effect, sampled>>
  BY DEF vars
<1>2. sampled' \in BOOLEAN
      /\ effect' \subseteq {"io", "error", "transaction", "connection", "clock"}
  BY <1>1 DEF IInv, Data, DataType
<1>3. Data' /\ Busy' = Busy
  BY <1>1, <1>2, IdleKeepsData DEF IInv
<1>4. ConnType' /\ ControlType' /\ Handshake'
  BY <1>1, <1>3 DEF IInv, ConnType, ControlType, Handshake, conn, shared
<1>5. HeadInHand'
  BY <1>1 DEF IInv, HeadInHand, Holding, Staged, NoneAvailable, HeadSlot, ring, trans
<1>6. QED
  BY <1>3, <1>4, <1>5 DEF IInv

\* The ways a step may go, by what it does to the slots.
Quiet == \/ Open_Targets \/ LoopTest \/ PickNone \/ SubmitRetry \/ RetryTest \/ SubmitError
         \/ \E t \in Target : OpenConnection(t) \/ PickNew(t) \/ PickContinued(t)
Polls == Poll \/ DelayPoll \/ RetryPoll \/ Drain
Rotates == SubmitFailed \/ \E t \in Target : PickClosing(t)
SetsUp == FillTransaction \/ StageIO
Submits == SubmitPending \/ SubmitSuccess
Commands == Begin_IO \/ Record_On \/ Record_Off \/ Stop_Test \/ Wait_For_Stop

LEMMA NextCases ==
    Next => \/ Start_Test \/ Commands \/ Quiet \/ Polls \/ Rotates \/ SetsUp \/ Submits
            \/ Close_Targets
  BY DEF Next, Command, Thread, Pick, Submit, Commands, Quiet, Polls, Rotates, SetsUp, Submits

LEMMA StepInv == IInv /\ [Next]_vars => IInv'
<1> SUFFICES ASSUME IInv, [Next]_vars
             PROVE  IInv'
  OBVIOUS
<1>1. CASE Start_Test
  BY <1>1, StartInv
<1>2. CASE Commands
  BY <1>2, CommandInv DEF Commands
<1>3. CASE Quiet
  BY <1>3, QuietInv DEF Quiet
<1>4. CASE Polls
  BY <1>4, PollInv DEF Polls
<1>5. CASE Rotates
  BY <1>5, RotateInv DEF Rotates
<1>6. CASE SetsUp
  BY <1>6, SetUpInv DEF SetsUp
<1>7. CASE Submits
  BY <1>7, SubmitInv DEF Submits
<1>8. CASE Close_Targets
  BY <1>8, CloseInv
<1>9. CASE UNCHANGED vars
  BY <1>9, StutterInv
<1>10. QED
  BY <1>1, <1>2, <1>3, <1>4, <1>5, <1>6, <1>7, <1>8, <1>9, NextCases

\* IInv holds in every state of the worker.
THEOREM Invariance == Spec => []IInv
<1>1. Init => IInv
  BY InitInv
<1>2. IInv /\ [Next]_vars => IInv'
  BY StepInv
<1>3. QED
  BY <1>1, <1>2, PTL DEF Spec

\* The ring indices stay within available_trans_queue and no counter of
\* requests, replies or outstanding I/Os leaves its range (Do_IOs, Record_IO).
THEOREM TypeCorrect == Spec => []TypeOK
<1>1. IInv => TypeOK
  BY DEF IInv, Data, RingType, DataType, IOPlace, ConnType, ControlType, TypeOK
<1>2. QED
  BY <1>1, Invariance, PTL

\* Every transaction slot is in the ring exactly once, has a request in the
\* completion queue, or was lost by the failed request for the rest of a
\* partial one, and is in one of these places only, for any number of slots.
\* Where that request cannot fail no slot is ever lost.
THEOREM SlotsConserved == Spec => []SlotConservation
<1>1. ASSUME IInv
      PROVE  SlotConservation
  <2>1. \A s \in Slot : io[s] \in IOPlace
    BY <1>1 DEF IInv, Data, DataType
  <2>2. \A i \in Occupied : queue[i] \in Slot
    BY <1>1 DEF IInv, Data, RingType, Occupied
  <2>3. /\ \A i, j \in Occupied : queue[i] = queue[j] => i = j
        /\ \A s \in Slot : io[s] = "none" <=> \E i \in Occupied : queue[i] = s
    BY <1>1 DEF IInv, Data, RingOrBusy
  <2>4. \A s \in Slot : s \in Available <=> io[s] = "none"
    BY <2>3 DEF Available
  <2>5. Available \subseteq Slot
    BY <2>2 DEF Available
  <2>6. Available \cup Outstanding \cup Lost = Slot
    BY <2>1, <2>4, <2>5 DEF Outstanding, Lost, IOPlace
  <2>7. Available \cap (Outstanding \cup Lost) = {}
    BY <2>4 DEF Outstanding, Lost
  <2>8. Lost # {} => "error" \in PartialResult
    BY <1>1 DEF IInv, Data, LostByRest
  <2>9. QED
    BY <2>3, <2>6, <2>7, <2>8 DEF SlotConservation
<1>2. QED
  BY <1>1, Invariance, PTL

\* The outstanding_ios of the grunt and of each target count what is
\* outstanding, so the drain loop waits for exactly the right I/Os.
THEOREM CountersAgree == Spec => []OutstandingAgrees
<1>1. IInv => OutstandingAgrees
  BY DEF IInv, Data
<1>2. QED
  BY <1>1, Invariance, PTL

\* ramp_up_ios_pending never exceeds the outstanding I/Os of the ramp up.
THEOREM RampUpIsBounded == Spec => []RampUpBounded
<1>1. IInv => RampUpBounded
  BY DEF IInv, Data
<1>2. QED
  BY <1>1, Invariance, PTL

\* When Wait_For_Stop has returned the thread is gone and nothing is
\* outstanding, so the manager may delete the targets and the queue.
THEOREM StoppedIsGone == Spec => []StoppedMeansGone
<1>1. IInv => StoppedMeansGone
  BY DEF IInv, Handshake, StoppedMeansGone
<1>2. QED
  BY <1>1, Invariance, PTL

\* Every step of the worker is a step of the pipeline or none.
LEMMA StepImplements ==
    ASSUME IInv, [Next]_vars
    PROVE  [Pipeline!Next]_(Pipeline!vars)
<1> USE DEF Pipeline!Next, Pipeline!vars
<1>1. CASE Start_Test
  <2>1. pc = "none" /\ pc' = "open" /\ Busy' = Busy
    BY <1>1, StartInv DEF Start_Test, IInv, Handshake
  <2>2. QED
    BY <2>1 DEF Pipeline!Start
<1>2. CASE Commands
  <2>1. Busy' = Busy
    BY <1>2, CommandInv DEF Commands
  <2>2. pc' = pc
    BY <1>2 DEF Commands, Begin_IO, Record_On, Record_Off, Stop_Test, Wait_For_Stop
  <2>3. QED
    BY <2>1, <2>2
<1>3. CASE Quiet
  <2>1. Busy' = Busy
    BY <1>3, QuietInv DEF Quiet
  <2>2. CASE Open_Targets
    <3>1. pc = "open" /\ Busy = {} /\ pc' \in {"loop", "none"}
      BY <2>2 DEF Open_Targets, IInv, Handshake
    <3>2. QED
      BY <2>1, <3>1 DEF Pipeline!Halt
  <2>3. CASE LoopTest
    <3>1. pc = "loop" /\ pc' \in {"drain", "poll"}
      BY <2>3 DEF LoopTest
    <3>2. QED
      BY <2>1, <3>1 DEF Pipeline!Drain
  <2>4. CASE ~Open_Targets /\ ~LoopTest
    <3>1. pc \notin {"none", "drain"} /\ pc' \notin {"none", "drain"}
      BY <1>3, <2>4 DEF Quiet, PickNone, SubmitRetry, RetryTest, SubmitError,
                        OpenConnection, PickNew, PickContinued
    <3>2. QED
      BY <2>1, <3>1
  <2>5. QED
    BY <2>2, <2>3, <2>4
<1>4. CASE Polls
  <2>1. AtMostOneFreed
    BY <1>4, PollInv DEF Polls
  <2>2. \/ pc = "drain" /\ pc' = "drain"
        \/ pc \notin {"none", "drain"} /\ pc' \notin {"none", "drain"}
    BY <1>4 DEF Polls, Poll, DelayPoll, RetryPoll, Drain
  <2>3. CASE Busy' = Busy
    BY <2>2, <2>3
  <2>4. ASSUME NEW s \in Busy, Busy' = Busy \ {s}
        PROVE  Pipeline!Finish(s) /\ s \in Slot
    BY <2>2, <2>4, BusySlots DEF Pipeline!Finish
  <2>5. QED
    BY <2>1, <2>3, <2>4 DEF AtMostOneFreed
<1>5. CASE Rotates \/ SetsUp
  <2>1. Busy' = Busy
    BY <1>5, RotateInv, SetUpInv DEF Rotates, SetsUp
  <2>2. pc \notin {"none", "drain"} /\ pc' \notin {"none", "drain"}
    BY <1>5 DEF Rotates, SetsUp, SubmitFailed, PickClosing, FillTransaction, StageIO
  <2>3. QED
    BY <2>1, <2>2
<1>6. CASE Submits
  <2>1. Busy' = Busy \/ (HeadSlot \notin Busy /\ Busy' = Busy \cup {HeadSlot})
    BY <1>6, SubmitInv DEF Submits
  <2>2. pc = "submit" /\ pc' = "loop"
    BY <1>6 DEF Submits, SubmitPending, SubmitSuccess
  <2>3. HeadSlot \in Slot
    BY <2>2, HeadFree DEF IInv, Data, HeadInHand, Holding
  <2>4. CASE Busy' = Busy
    BY <2>2, <2>4
  <2>5. CASE HeadSlot \notin Busy /\ Busy' = Busy \cup {HeadSlot}
    <3>1. Pipeline!Issue(HeadSlot)
      BY <2>2, <2>5 DEF Pipeline!Issue
    <3>2. QED
      BY <2>3, <3>1
  <2>6. QED
    BY <2>1, <2>4, <2>5
<1>7. CASE Close_Targets
  <2>1. Busy = {} /\ Busy' = Busy
    BY <1>7, CloseInv
  <2>2. pc = "drain" /\ pc' = "none"
    BY <1>7 DEF Close_Targets
  <2>3. QED
    BY <2>1, <2>2 DEF Pipeline!Halt
<1>8. CASE UNCHANGED vars
  BY <1>8 DEF vars, Busy
<1>9. QED
  BY <1>1, <1>2, <1>3, <1>4, <1>5, <1>6, <1>7, <1>8, NextCases

\* The worker keeps the promises of IOPipeline: a slot is handed out only
\* while free, comes back once, none is issued while draining, and the
\* worker stops only with nothing outstanding.
THEOREM Implements == Spec => PipelineSpec
<1>1. Init => Pipeline!Init
  BY DEF Init, Pipeline!Init, Busy
<1>2. IInv /\ [Next]_vars => [Pipeline!Next]_(Pipeline!vars)
  BY StepImplements
<1>3. QED
  BY <1>1, <1>2, Invariance, PTL DEF Spec, PipelineSpec, Pipeline!Spec

-------------------------------------------------------------------------------
(* Connections: which targets have I/Os outstanding. *)

\* The places at which an I/O on the slot at the head may still be started.
Serving == pc \in {"delay", "fill", "stage", "submit", "retry", "retried"}

\* Nothing is outstanding to a connection that is due to be opened: its last
\* transaction set is_closing, and only the closing, which waits for
\* target_ios to reach 0, has cleared it.
DueToOpen == \A t \in ConnRate : trans_left[t] = 0 /\ ~is_closing[t] => BusyOn(t) = {}

\* The connection of the slot in hand is not due to be opened.
HeadConnected ==
    Serving /\ TargetOf[HeadSlot] \in ConnRate
        => is_closing[TargetOf[HeadSlot]] \/ trans_left[TargetOf[HeadSlot]] > 0

ConnInv == ClosedMeansQuiet /\ DueToOpen /\ HeadConnected

\* A target whose outstanding_ios is 0 has no busy slot.
LEMMA NoneOutstanding ==
    ASSUME OutstandingAgrees, NEW t \in Target, target_ios[t] = 0
    PROVE  BusyOn(t) = {}
<1>1. Cardinality(BusyOn(t)) = 0
  BY DEF OutstandingAgrees
<1>2. IsFiniteSet(BusyOn(t))
  BY BusySlots, SubsetFinite
<1>3. QED
  BY <1>1, <1>2, FS_EmptySet

LEMMA FewerBusy ==
    ASSUME Busy' \subseteq Busy
    PROVE  \A t : BusyOn(t)' \subseteq BusyOn(t)
  BY DEF BusyOn

\* Steps that leave the connections alone and free slots at most.
LEMMA ConnKept ==
    ASSUME ConnInv, UNCHANGED conn, Busy' \subseteq Busy,
           Serving' => Serving /\ HeadSlot' = HeadSlot
    PROVE  ConnInv'
<1>1. \A t : BusyOn(t)' \subseteq BusyOn(t)
  BY FewerBusy
<1>2. ClosedMeansQuiet'
  BY <1>1 DEF ConnInv, ClosedMeansQuiet, conn
<1>3. DueToOpen'
  BY <1>1 DEF ConnInv, DueToOpen, conn
<1>4. HeadConnected'
  BY DEF ConnInv, HeadConnected, conn
<1>5. QED
  BY <1>2, <1>3, <1>4 DEF ConnInv

\* Steps after which nothing at all is outstanding and no slot is in hand.
LEMMA ConnAllFree ==
    ASSUME Busy' = {}, ~Serving'
    PROVE  ConnInv'
<1>1. \A t : BusyOn(t)' = {}
  BY DEF BusyOn
<1>2. QED
  BY <1>1 DEF ConnInv, ClosedMeansQuiet, DueToOpen, HeadConnected

\* Steps that change the connection of one target without outstanding I/Os.
LEMMA ConnOfQuietTarget ==
    ASSUME ConnInv, Busy' = Busy, ~Serving', NEW t \in Target, BusyOn(t) = {},
           \A u \in Target : u # t => /\ open'[u] = open[u]
                                      /\ is_closing'[u] = is_closing[u]
                                      /\ trans_left'[u] = trans_left[u]
    PROVE  ConnInv'
<1>1. \A u : BusyOn(u)' = BusyOn(u)
  BY DEF BusyOn
<1>2. ClosedMeansQuiet'
  BY <1>1 DEF ConnInv, ClosedMeansQuiet
<1>3. DueToOpen'
  BY <1>1, SpecAssumption DEF ConnInv, DueToOpen
<1>4. QED
  BY <1>2, <1>3 DEF ConnInv, HeadConnected

LEMMA ConnQuietStep ==
    ASSUME IInv, ConnInv, Quiet
    PROVE  ConnInv'
<1>1. Busy' = Busy /\ UNCHANGED ring
  <2>1. Busy' = Busy
    BY QuietInv DEF Quiet
  <2>2. UNCHANGED ring
    BY DEF Quiet, Open_Targets, LoopTest, PickNone, SubmitRetry, RetryTest, SubmitError,
           OpenConnection, PickNew, PickContinued
  <2>3. QED
    BY <2>1, <2>2
<1>2. CASE Open_Targets
  BY <1>1, <1>2, ConnAllFree DEF Open_Targets, IInv, Handshake, Serving
<1>3. CASE LoopTest \/ PickNone \/ SubmitRetry \/ RetryTest \/ SubmitError
  <2>1. UNCHANGED conn /\ (Serving' => Serving)
    BY <1>3 DEF LoopTest, PickNone, SubmitRetry, RetryTest, SubmitError, Serving
  <2>2. HeadSlot' = HeadSlot
    BY <1>1 DEF ring, HeadSlot
  <2>3. QED
    BY <1>1, <2>1, <2>2, ConnKept
<1>4. ASSUME NEW t \in Target, OpenConnection(t)
      PROVE  ConnInv'
  <2>1. t \in ConnRate /\ ~is_closing[t] /\ trans_left[t] = 0
    BY <1>4 DEF OpenConnection, IInv, ConnType
  <2>2. BusyOn(t) = {}
    BY <2>1 DEF ConnInv, DueToOpen
  <2>3. \A u \in Target : u # t => /\ open'[u] = open[u]
                                   /\ is_closing'[u] = is_closing[u]
                                   /\ trans_left'[u] = trans_left[u]
    BY <1>4 DEF OpenConnection, IInv, ConnType
  <2>4. ~Serving'
    BY <1>4 DEF OpenConnection, Serving
  <2>5. QED
    BY <1>1, <2>2, <2>3, <2>4, ConnOfQuietTarget
<1>5. ASSUME NEW t \in Target, PickContinued(t)
      PROVE  ConnInv'
  <2>1. t = TargetOf[HeadSlot] /\ CanUse(t) /\ UNCHANGED conn /\ HeadSlot' = HeadSlot
    BY <1>1, <1>5 DEF PickContinued, ring, HeadSlot
  <2>2. HeadConnected'
    BY <2>1 DEF CanUse, HeadConnected, conn
  <2>3. ClosedMeansQuiet' /\ DueToOpen'
    BY <1>1, <2>1 DEF ConnInv, ClosedMeansQuiet, DueToOpen, BusyOn, conn
  <2>4. QED
    BY <2>2, <2>3 DEF ConnInv
<1>6. ASSUME NEW t \in Target, PickNew(t)
      PROVE  ConnInv'
  <2>1. t = TargetOf[HeadSlot] /\ CanUse(t) /\ open' = open /\ HeadSlot' = HeadSlot
    BY <1>1, <1>6 DEF PickNew, ring, HeadSlot
  <2>2. \A u : BusyOn(u)' = BusyOn(u)
    BY <1>1 DEF BusyOn
  <2>3. ClosedMeansQuiet'
    BY <2>1, <2>2 DEF ConnInv, ClosedMeansQuiet
  <2>4. /\ is_closing \in [Target -> BOOLEAN] /\ trans_left \in [Target -> Nat]
    BY DEF IInv, ConnType
  <2>5. CASE t \in ConnRate
    <3>1. /\ trans_left' = [trans_left EXCEPT ![t] = @ - 1]
          /\ is_closing' = [is_closing EXCEPT ![t] = trans_left[t] - 1 <= 0]
      BY <1>6, <2>5 DEF PickNew
    <3>2. is_closing'[t] \/ trans_left'[t] > 0
      <4>1. trans_left'[t] = trans_left[t] - 1 /\ trans_left[t] \in Nat
        BY <2>4, <3>1
      <4>2. is_closing'[t] = (trans_left[t] - 1 <= 0)
        BY <2>4, <3>1, Zenon
      <4>3. CASE trans_left[t] - 1 <= 0
        BY <4>2, <4>3
      <4>4. CASE ~(trans_left[t] - 1 <= 0)
        BY <4>1, <4>4
      <4>5. QED
        BY <4>3, <4>4
    <3>3. \A u \in Target : u # t => /\ is_closing'[u] = is_closing[u]
                                     /\ trans_left'[u] = trans_left[u]
      BY <2>4, <3>1
    <3>4. DueToOpen'
      BY <2>2, <3>2, <3>3, SpecAssumption DEF ConnInv, DueToOpen
    <3>5. HeadConnected'
      BY <2>1, <3>2 DEF HeadConnected
    <3>6. QED
      BY <2>3, <3>4, <3>5 DEF ConnInv
  <2>6. CASE t \notin ConnRate
    <3>1. UNCHANGED <<trans_left, is_closing>>
      BY <1>6, <2>6 DEF PickNew
    <3>2. DueToOpen' /\ HeadConnected'
      BY <2>1, <2>2, <2>6, <3>1 DEF ConnInv, DueToOpen, HeadConnected
    <3>3. QED
      BY <2>3, <3>2 DEF ConnInv
  <2>7. QED
    BY <2>5, <2>6
<1>7. QED
  BY <1>2, <1>3, <1>4, <1>5, <1>6 DEF Quiet

\* An I/O is started on an open connection only.
LEMMA ConnSubmits ==
    ASSUME IInv, ConnInv, Submits
    PROVE  ConnInv'
<1>1. /\ pc = "submit" /\ pc' = "loop" /\ UNCHANGED conn /\ open[TargetOf[HeadSlot]]
  BY DEF Submits, SubmitPending, SubmitSuccess
<1>2. ~Serving' /\ Serving
  BY <1>1 DEF Serving
<1>3. Busy' \subseteq Busy \cup {HeadSlot}
  BY SubmitInv DEF Submits
<1>4. \A t : t # TargetOf[HeadSlot] => BusyOn(t)' \subseteq BusyOn(t)
  BY <1>3 DEF BusyOn
<1>5. ClosedMeansQuiet'
  BY <1>1, <1>4 DEF ConnInv, ClosedMeansQuiet, conn
<1>6. DueToOpen'
  <2>1. ASSUME NEW t \in ConnRate, trans_left'[t] = 0, ~is_closing'[t]
        PROVE  BusyOn(t)' = {}
    <3>1. trans_left[t] = 0 /\ ~is_closing[t]
      BY <1>1, <2>1 DEF conn
    <3>2. t # TargetOf[HeadSlot]
      BY <1>2, <2>1, <3>1 DEF ConnInv, HeadConnected
    <3>3. QED
      BY <1>4, <3>1, <3>2 DEF ConnInv, DueToOpen
  <2>2. QED
    BY <2>1 DEF DueToOpen
<1>7. QED
  BY <1>2, <1>5, <1>6 DEF ConnInv, HeadConnected

LEMMA ConnRotates ==
    ASSUME IInv, ConnInv, Rotates
    PROVE  ConnInv'
<1>1. Busy' = Busy /\ pc' = "loop"
  BY RotateInv DEF Rotates, SubmitFailed, PickClosing
<1>2. ~Serving'
  BY <1>1 DEF Serving
<1>3. CASE UNCHANGED conn
  BY <1>1, <1>2, <1>3, ConnKept
<1>4. ASSUME NEW t \in Target, PickClosing(t), MayClose(t)
      PROVE  ConnInv'
  <2>1. BusyOn(t) = {}
    BY <1>4, NoneOutstanding DEF MayClose, IInv, Data
  <2>2. \A u \in Target : u # t => /\ open'[u] = open[u]
                                   /\ is_closing'[u] = is_closing[u]
                                   /\ trans_left'[u] = trans_left[u]
    BY <1>4 DEF PickClosing, IInv, ConnType
  <2>3. QED
    BY <1>1, <1>2, <2>1, <2>2, ConnOfQuietTarget
<1>5. QED
  BY <1>3, <1>4 DEF Rotates, SubmitFailed, PickClosing, conn

LEMMA ConnStep == IInv /\ ConnInv /\ [Next]_vars => ConnInv'
<1> SUFFICES ASSUME IInv, ConnInv, [Next]_vars
             PROVE  ConnInv'
  OBVIOUS
<1>1. CASE Start_Test
  BY <1>1, StartInv, ConnAllFree DEF Start_Test, Serving
<1>2. CASE Commands
  <2>1. UNCHANGED <<conn, ring, pc>> /\ Busy' = Busy
    BY <1>2, CommandInv DEF Commands, Begin_IO, Record_On, Record_Off, Stop_Test, Wait_For_Stop
  <2>2. QED
    BY <2>1, ConnKept DEF Serving, HeadSlot, ring
<1>3. CASE Quiet
  BY <1>3, ConnQuietStep
<1>4. CASE Polls
  <2>1. Busy' \subseteq Busy
    BY <1>4, PollInv DEF Polls, AtMostOneFreed
  <2>2. UNCHANGED conn /\ (Serving' => Serving)
    BY <1>4 DEF Polls, Poll, DelayPoll, RetryPoll, Drain, Serving
  <2>3. Serving' => HeadSlot' = HeadSlot
    <3>1. (\E s \in Slot : Return(s)) \/ Note \/ \E wait \in BOOLEAN : TimeOut(wait)
      BY <1>4, PollKinds DEF Polls
    <3>2. Serving => ~NoneAvailable
      BY DEF IInv, HeadInHand, Holding, Serving
    <3>3. QED
      BY <2>2, <3>1, <3>2, CompletionKeepsData DEF IInv
  <2>4. QED
    BY <2>1, <2>2, <2>3, ConnKept
<1>5. CASE Rotates
  BY <1>5, ConnRotates
<1>6. CASE SetsUp
  <2>1. UNCHANGED <<conn, ring>> /\ Serving
    BY <1>6 DEF SetsUp, FillTransaction, StageIO, Serving
  <2>2. Busy' = Busy
    BY <1>6, SetUpInv DEF SetsUp
  <2>3. QED
    BY <2>1, <2>2, ConnKept DEF HeadSlot, ring
<1>7. CASE Submits
  BY <1>7, ConnSubmits
<1>8. CASE Close_Targets
  BY <1>8, CloseInv, ConnAllFree DEF Close_Targets, Serving
<1>9. CASE UNCHANGED vars
  <2>1. UNCHANGED <<conn, ring, pc>> /\ Busy' = Busy
    BY <1>9 DEF vars, Busy
  <2>2. QED
    BY <2>1, ConnKept DEF Serving, HeadSlot, ring
<1>10. QED
  BY <1>1, <1>2, <1>3, <1>4, <1>5, <1>6, <1>7, <1>8, <1>9, NextCases

\* A connection is not closed under its I/Os, and none is started on a closed
\* one (the closing in Do_IOs waits for the target's outstanding_ios).
THEOREM ClosedIsQuiet == Spec => []ClosedMeansQuiet
<1>1. Init => ConnInv
  <2>1. Init => Busy = {} /\ ~Serving
    BY DEF Init, Busy, Serving
  <2>2. Busy = {} /\ ~Serving => ConnInv
    BY DEF BusyOn, ConnInv, ClosedMeansQuiet, DueToOpen, HeadConnected
  <2>3. QED
    BY <2>1, <2>2
<1>2. IInv /\ ConnInv /\ [Next]_vars => ConnInv'
  BY ConnStep
<1>3. ConnInv => ClosedMeansQuiet
  BY DEF ConnInv
<1>4. QED
  BY <1>1, <1>2, <1>3, Invariance, PTL DEF Spec

-------------------------------------------------------------------------------
(* The recorded time: when Record_IO may still move its start. *)

\* The places between staging the I/O of the slot in hand and starting it.
Starting == pc \in {"submit", "retry", "retried"}

NoneRecorded == \A s \in Busy : ~start_IO[s]

\* Before recording begins no I/O carries a recorded start time.
RampUpUnrecorded ==
    /\ cmd = "started" => grunt_state = "TestOpening"
    /\ grunt_state \in {"TestOpening", "TestRampingUp"} =>
          NoneRecorded /\ (Starting => ~start_IO[HeadSlot])

\* Once an I/O is counted the ramp up is over, and it is not over before the
\* I/O that was staged just before Record_On has been counted as started.
RampUpOver ==
    Recording => /\ sampled => ramp_up_ios_pending = 0
                 /\ Starting /\ ~start_IO[HeadSlot] => ~sampled /\ NoneRecorded

ClockInv == RampUpUnrecorded /\ RampUpOver

\* What Record_IO does to the clock, given the ramp-up count on its entry.
LEMMA RecordIOClock ==
    ASSUME NEW s \in Slot, NEW ok \in BOOLEAN, NEW pending \in Nat, RecordIO(s, ok, pending),
           Recording /\ sampled => pending = 0
    PROVE  /\ "clock" \in effect' => ~sampled
           /\ Recording /\ sampled' => ramp_up_ios_pending' = 0
           /\ sampled' => sampled \/ start_IO[s]
           /\ start_IO' = start_IO
<1>1. start_IO' = start_IO
  BY DEF RecordIO
<1>2. /\ effect' = IF Counted(s, pending) THEN Results(s, ok)
                   ELSE IF ClockStarts(s, pending) THEN {"clock"} ELSE {}
      /\ sampled' = (sampled \/ (Counted(s, pending) /\ ok))
      /\ ramp_up_ios_pending' = PendingAfter(s, pending)
  BY DEF RecordIO
<1>3. "clock" \in effect' => ClockStarts(s, pending)
  BY <1>2 DEF Results
<1>4. ClockStarts(s, pending) => ~sampled
  BY DEF ClockStarts
<1>5. Counted(s, pending) => pending = 0 /\ start_IO[s] /\ Recording
  BY DEF Counted
<1>6. Recording /\ sampled' => pending = 0
  BY <1>2, <1>5
<1>7. pending = 0 => PendingAfter(s, pending) = 0
  BY DEF PendingAfter
<1>8. sampled' => sampled \/ start_IO[s]
  BY <1>2, <1>5
<1>9. QED
  BY <1>1, <1>2, <1>3, <1>4, <1>6, <1>7, <1>8

\* Steps of the thread that leave the results and the ramp up alone.
LEMMA ClockUntouched ==
    ASSUME ClockInv, Busy' = Busy, UNCHANGED <<start_IO, ramp_up_ios_pending, sampled>>,
           UNCHANGED <<cmd, grunt_state>>,
           Starting' => Starting /\ HeadSlot' = HeadSlot
    PROVE  ClockInv'
  BY DEF ClockInv, RampUpUnrecorded, RampUpOver, NoneRecorded, Recording

\* The commands of the manager.
LEMMA ClockCommand ==
    ASSUME IInv, ClockInv, Commands
    PROVE  ClockInv' /\ effect' = {}
<1>1. Busy' = Busy /\ UNCHANGED <<start_IO, ramp_up_ios_pending, pc, queue, head>>
      /\ effect' = {}
  BY CommandInv DEF Commands, Begin_IO, Record_On, Record_Off, Stop_Test, Wait_For_Stop,
                    trans, counts, ring
<1>2. (NoneRecorded' <=> NoneRecorded) /\ (Starting' <=> Starting) /\ HeadSlot' = HeadSlot
  BY <1>1 DEF NoneRecorded, Starting, HeadSlot
<1>3. CASE Begin_IO
  BY <1>1, <1>2, <1>3 DEF Begin_IO, ClockInv, RampUpUnrecorded, RampUpOver, Recording
<1>4. CASE Record_On
  BY <1>1, <1>2, <1>4 DEF Record_On, ClockInv, RampUpUnrecorded, RampUpOver, Recording
<1>5. CASE Record_Off
  BY <1>1, <1>2, <1>5 DEF Record_Off, ClockInv, RampUpUnrecorded, RampUpOver, Recording
<1>6. CASE Stop_Test
  BY <1>1, <1>2, <1>6 DEF Stop_Test, ClockInv, RampUpUnrecorded, RampUpOver, Recording
<1>7. CASE Wait_For_Stop
  BY <1>1, <1>2, <1>7 DEF Wait_For_Stop, ClockInv, RampUpUnrecorded, RampUpOver, Recording
<1>8. QED
  BY <1>1, <1>3, <1>4, <1>5, <1>6, <1>7 DEF Commands

\* A completion that a poll hands out.
LEMMA ClockPoll ==
    ASSUME IInv, ClockInv, Polls
    PROVE  ClockInv' /\ ("clock" \in effect' => ~sampled)
<1>1. /\ UNCHANGED shared /\ (Starting' => Starting)
      /\ (\E s \in Slot : Return(s)) \/ Note \/ \E wait \in BOOLEAN : TimeOut(wait)
  BY PollKinds DEF Polls, Poll, DelayPoll, RetryPoll, Drain, Starting
<1>2. Starting => ~NoneAvailable
  BY DEF IInv, HeadInHand, Holding, Starting
<1>3. Starting' => HeadSlot' = HeadSlot
  BY <1>1, <1>2, CompletionKeepsData DEF IInv
<1>4. Busy' \subseteq Busy
  BY PollInv DEF AtMostOneFreed, Polls
<1>5. ASSUME NEW s \in Slot, NEW ok \in BOOLEAN, Return(s), Record_IO(s, ok)
      PROVE  ClockInv' /\ ("clock" \in effect' => ~sampled)
  <2>1. RecordIO(s, ok, ramp_up_ios_pending) /\ ramp_up_ios_pending \in Nat
    BY <1>5 DEF Record_IO, IInv, Data, DataType
  <2>2. Recording /\ sampled => ramp_up_ios_pending = 0
    BY DEF ClockInv, RampUpOver
  <2>3. /\ "clock" \in effect' => ~sampled
        /\ Recording /\ sampled' => ramp_up_ios_pending' = 0
        /\ sampled' => sampled \/ start_IO[s]
        /\ start_IO' = start_IO
    BY <2>1, <2>2, RecordIOClock
  <2>4. s \in Busy
    BY <1>5 DEF Return, Busy
  <2>5. RampUpUnrecorded'
    BY <1>1, <1>3, <1>4, <2>3 DEF ClockInv, RampUpUnrecorded, NoneRecorded, shared
  <2>6. RampUpOver'
    <3>1. ASSUME Recording, Starting', ~start_IO'[HeadSlot']
          PROVE  ~sampled' /\ NoneRecorded'
      <4>1. ~sampled /\ NoneRecorded
        BY <1>1, <1>3, <2>3, <3>1 DEF ClockInv, RampUpOver
      <4>2. QED
        BY <1>4, <2>3, <2>4, <4>1 DEF NoneRecorded
    <3>2. Recording' = Recording
      BY <1>1 DEF Recording, shared
    <3>3. QED
      BY <2>3, <3>1, <3>2 DEF RampUpOver, HeadSlot
  <2>7. QED
    BY <2>3, <2>5, <2>6 DEF ClockInv
<1>6. CASE /\ UNCHANGED <<trans, counts, sampled>> /\ "clock" \notin effect'
  <2>1. UNCHANGED <<start_IO, ramp_up_ios_pending, sampled, cmd, grunt_state>>
    BY <1>1, <1>6 DEF trans, counts, shared
  <2>2. NoneRecorded => NoneRecorded'
    BY <1>4, <2>1 DEF NoneRecorded
  <2>3. ClockInv'
    BY <1>1, <1>3, <2>1, <2>2 DEF ClockInv, RampUpUnrecorded, RampUpOver, Recording
  <2>4. QED
    BY <1>6, <2>3
<1>7. ASSUME Note \/ \E wait \in BOOLEAN : TimeOut(wait)
      PROVE  UNCHANGED <<trans, counts, sampled>> /\ effect' = {}
  BY <1>7 DEF Note, NoteFinished, TimeOut
<1>8. ASSUME NEW s \in Slot, Do_Partial_IO(s)
      PROVE  UNCHANGED <<trans, counts, sampled>> /\ "clock" \notin effect'
  BY <1>8 DEF Do_Partial_IO
<1>9. QED
  <2>1. CASE \E s \in Slot : Return(s)
    BY <2>1, <1>5, <1>6, <1>8 DEF Return
  <2>2. CASE Note \/ \E wait \in BOOLEAN : TimeOut(wait)
    BY <2>2, <1>6, <1>7
  <2>3. QED
    BY <1>1, <2>1, <2>2

\* An I/O is started, and may be complete at once.
LEMMA ClockSubmits ==
    ASSUME IInv, ClockInv, Submits
    PROVE  ClockInv' /\ ("clock" \in effect' => ~sampled)
<1>1. pc = "submit" /\ pc' = "loop" /\ UNCHANGED shared
  BY DEF Submits, SubmitPending, SubmitSuccess
<1>2. Starting /\ ~Starting' /\ HeadSlot \in Slot
  <2>1. ~NoneAvailable
    BY <1>1 DEF IInv, HeadInHand, Holding
  <2>2. QED
    BY <1>1, <2>1, HeadFree DEF Starting, IInv, Data
<1>3. Recording /\ sampled => PendingWith(HeadSlot) = 0
  BY <1>2 DEF ClockInv, RampUpOver, PendingWith
<1>4. PendingWith(HeadSlot) \in Nat
  BY DEF PendingWith, IInv, Data, DataType
<1>5. start_IO' = start_IO
  BY DEF Submits, SubmitPending, SubmitSuccess, RecordIO, trans
<1>6. Busy' \subseteq Busy \cup {HeadSlot}
  BY SubmitInv DEF Submits
<1>7. RampUpUnrecorded'
  BY <1>1, <1>2, <1>5, <1>6 DEF ClockInv, RampUpUnrecorded, NoneRecorded, shared
<1>8. /\ "clock" \in effect' => ~sampled
      /\ Recording /\ sampled' => ramp_up_ios_pending' = 0
  <2>1. CASE SubmitPending
    BY <2>1, <1>3 DEF SubmitPending
  <2>2. CASE SubmitSuccess
    <3>1. RecordIO(HeadSlot, TRUE, PendingWith(HeadSlot))
      BY <2>2 DEF SubmitSuccess
    <3>2. QED
      BY <3>1, <1>2, <1>3, <1>4, RecordIOClock
  <2>3. QED
    BY <2>1, <2>2 DEF Submits
<1>9. RampUpOver'
  BY <1>1, <1>2, <1>8 DEF RampUpOver, Recording, shared
<1>10. QED
  BY <1>7, <1>8, <1>9 DEF ClockInv

\* A slot is filled or staged: its start time is taken now if recording.
LEMMA ClockSetsUp ==
    ASSUME IInv, ClockInv, SetsUp
    PROVE  ClockInv' /\ effect' = {}
<1>1. /\ UNCHANGED <<shared, ring, counts, sampled>> /\ effect' = {}
  BY DEF SetsUp, FillTransaction, StageIO
<1>2. Busy' = Busy
  BY SetUpInv DEF SetsUp
<1>3. CASE FillTransaction
  <2>1. UNCHANGED <<start_IO, ramp_up_ios_pending, sampled, cmd, grunt_state>> /\ ~Starting'
    BY <1>1, <1>3 DEF FillTransaction, Starting, counts, shared
  <2>2. QED
    BY <1>1, <1>2, <2>1, ClockUntouched
<1>4. CASE StageIO
  <2>1. ~NoneAvailable
    BY <1>4 DEF StageIO, IInv, HeadInHand, Holding
  <2>2. HeadSlot \in Slot /\ HeadSlot \notin Busy /\ HeadSlot' = HeadSlot
    BY <1>1, <2>1, HeadFree DEF IInv, Data, ring, HeadSlot
  <2>3. start_IO' = [start_IO EXCEPT ![HeadSlot] = Recording] /\ start_IO \in [Slot -> BOOLEAN]
    BY <1>4 DEF StageIO, IInv, Data, DataType
  <2>4. /\ start_IO'[HeadSlot] = Recording
        /\ \A s \in Busy : start_IO'[s] = start_IO[s]
    BY <2>2, <2>3, BusySlots
  <2>5. NoneRecorded' <=> NoneRecorded
    BY <1>2, <2>4 DEF NoneRecorded
  <2>6. RampUpUnrecorded'
    BY <1>1, <2>2, <2>4, <2>5 DEF ClockInv, RampUpUnrecorded, Recording, shared
  <2>7. RampUpOver'
    BY <1>1, <2>2, <2>4 DEF ClockInv, RampUpOver, Recording, shared, counts
  <2>8. QED
    BY <1>1, <2>6, <2>7 DEF ClockInv
<1>5. QED
  BY <1>3, <1>4 DEF SetsUp

LEMMA ClockStep ==
    IInv /\ ClockInv /\ [Next]_vars => ClockInv' /\ [("clock" \in effect') => ~sampled]_vars
<1> SUFFICES ASSUME IInv, ClockInv, [Next]_vars
             PROVE  ClockInv' /\ [("clock" \in effect') => ~sampled]_vars
  OBVIOUS
<1>1. CASE Start_Test
  <2>1. Busy' = {} /\ pc' = "open" /\ grunt_state' = "TestOpening" /\ effect' = {}
    BY <1>1, StartInv DEF Start_Test
  <2>2. QED
    BY <2>1 DEF ClockInv, RampUpUnrecorded, RampUpOver, NoneRecorded, Recording, Starting
<1>2. CASE Commands
  BY <1>2, ClockCommand
<1>3. CASE Quiet \/ Rotates
  <2>1. Busy' = Busy
    BY <1>3, QuietInv, RotateInv DEF Quiet, Rotates
  <2>2. UNCHANGED <<start_IO, ramp_up_ios_pending, sampled, cmd, grunt_state>>
    BY <1>3 DEF Quiet, Rotates, Open_Targets, LoopTest, PickNone, SubmitRetry, RetryTest,
                SubmitError, OpenConnection, PickNew, PickContinued, SubmitFailed,
                PickClosing, trans, counts, shared
  <2>3. "clock" \notin effect'
    <3>1. CASE Quiet
      <4>1. effect' = {}
        BY <3>1 DEF Quiet, Open_Targets, LoopTest, PickNone, SubmitRetry, RetryTest,
                    SubmitError, OpenConnection, PickNew, PickContinued
      <4>2. QED
        BY <4>1
    <3>2. CASE Rotates
      <4>1. effect' \in {{}, {"error"}, {"connection"}}
        BY <3>2 DEF Rotates, SubmitFailed, PickClosing
      <4>2. QED
        BY <4>1
    <3>3. QED
      BY <1>3, <3>1, <3>2
  <2>4. Starting' => Starting /\ UNCHANGED ring
    BY <1>3 DEF Quiet, Rotates, Open_Targets, LoopTest, PickNone, SubmitRetry, RetryTest,
                SubmitError, OpenConnection, PickNew, PickContinued, SubmitFailed,
                PickClosing, Starting
  <2>5. QED
    BY <2>1, <2>2, <2>3, <2>4, ClockUntouched DEF ring, HeadSlot
<1>4. CASE Polls
  BY <1>4, ClockPoll
<1>5. CASE SetsUp
  BY <1>5, ClockSetsUp
<1>6. CASE Submits
  BY <1>6, ClockSubmits
<1>7. CASE Close_Targets
  <2>1. Busy' = Busy /\ effect' = {} /\ ~Starting'
    BY <1>7, CloseInv DEF Close_Targets, Starting
  <2>2. UNCHANGED <<start_IO, ramp_up_ios_pending, sampled, cmd, grunt_state>>
    BY <1>7 DEF Close_Targets, trans, counts
  <2>3. QED
    BY <2>1, <2>2, ClockUntouched
<1>8. CASE UNCHANGED vars
  <2>1. Busy' = Busy /\ HeadSlot' = HeadSlot /\ (Starting' <=> Starting)
    BY <1>8 DEF vars, ring, Busy, HeadSlot, Starting
  <2>2. UNCHANGED <<start_IO, ramp_up_ios_pending, sampled, cmd, grunt_state>>
    BY <1>8 DEF vars, trans, counts, shared
  <2>3. QED
    BY <1>8, <2>1, <2>2, ClockUntouched
<1>9. QED
  BY <1>1, <1>2, <1>3, <1>4, <1>5, <1>6, <1>7, <1>8, NextCases

\* FIRST_SNAPSHOT, the start of the recorded time, is never moved by Record_IO
\* once an I/O has been counted against it.
THEOREM ClockIsKept == Spec => ClockKept
<1>1. Init => ClockInv
  BY DEF Init, ClockInv, RampUpUnrecorded, RampUpOver, NoneRecorded, Recording, Starting
<1>2. IInv /\ ClockInv /\ [Next]_vars => ClockInv'
  BY ClockStep
<1>3. IInv /\ ClockInv /\ [Next]_vars => [("clock" \in effect') => ~sampled]_vars
  BY ClockStep
<1>4. QED
  BY <1>1, <1>2, <1>3, Invariance, PTL DEF Spec, ClockKept

===============================================================================
