------------------------ MODULE CompletionQueue_proofs ------------------------
(***************************************************************************)
(* For every number of transactions: a completion queue of the POSIX build *)
(* is a completion port, and one of the libaio build is one as long as     *)
(* io_submit does not fail; what is handed out is told of its own outcome. *)
(***************************************************************************)
EXTENDS CompletionQueue, FiniteSetTheorems, WellFoundedInduction, TLAPS

\* The fields of an element say the same of it: a free one is with nobody,
\* a taken one is with the kernel or has ended, a tagged one has ended.
Stages ==
    /\ \A i \in Index : IF i \in Element /\ listed[i] THEN kernel[i] # "idle"
                        ELSE kernel[i] = "idle" /\ ~listed[i]
    /\ \A i \in Index : done[i] => kernel[i] \in Outcome

\* An element that ended is in the kernel's events once, until it is tagged.
EventsOnce ==
    /\ \A k \in 1 .. Len(events) : events[k] \in Ended
    /\ \A k, l \in 1 .. Len(events) : events[k] = events[l] => k = l

\* The element freed last, which the next request takes without a look.
FreedIsFree == last_freed # -1 => ~listed[last_freed]

SizeOfUse == size = SizeFor(use)

IInv == /\ TypeOK /\ ElementPerRequest
        /\ Stages /\ EventsOnce /\ FreedIsFree /\ SizeOfUse

\* The assumption under which the thread is not told of requests that are in
\* no element: after a failed io_submit the element stays taken.
NoLeak == "libaio" \notin Refusals

-------------------------------------------------------------------------------
(* Elements enough for the requests. *)

\* The names of how a request ends are none of the other stages.
LEMMA Names == \A o \in Outcome : o \notin {"idle", "busy"}
  BY QueueAssumption

LEMMA IndexFacts ==
  ASSUME TypeOK
  PROVE  /\ Element \subseteq Index /\ Request = Element
         /\ Element \subseteq Int /\ None \notin Index
         /\ IsFiniteSet(Element) /\ IsFiniteSet(Used)
         /\ size \in Nat \ {0}
<1>1. size \in 1 .. N /\ N \in Nat
  BY QueueAssumption DEF TypeOK
<1>2. IsFiniteSet(Element)
  BY <1>1, FS_Interval DEF Element
<1>3. Used \in SUBSET Element
  BY DEF Used
<1>4. IsFiniteSet(Used)
  BY <1>2, <1>3, FS_Subset
<1> QED
  BY <1>1, <1>2, <1>4 DEF Element, Request, Index, None

\* When a request is not queued an element is free for it.
LEMMA SlotForRequest ==
  ASSUME IInv, NEW r \in Request, r \notin pending
  PROVE  /\ Slots # {}
         /\ \A i \in Slots : i \in Element /\ ~listed[i]
<1>1. Free # {}
  <2> SUFFICES ASSUME Free = {} PROVE FALSE
    OBVIOUS
  <2>1. Used = Element
    BY DEF Free, Used
  <2> DEFINE rest == Element \ {r}
             f == [i \in Element |-> data[i]]
  <2>2. r \in Element /\ IsFiniteSet(Element) /\ IsFiniteSet(rest)
        /\ Cardinality(rest) < Cardinality(Element)
    <3>1. r \in Element /\ IsFiniteSet(Element)
      BY IndexFacts DEF IInv
    <3>2. IsFiniteSet(rest) /\ Cardinality(rest) = Cardinality(Element) - 1
      BY <3>1, FS_RemoveElement
    <3>3. Cardinality(Element) \in Nat
      BY <3>1, FS_CardinalityType
    <3> QED
      BY <3>1, <3>2, <3>3
  <2>3. f \in [Element -> rest]
    <3>1. \A i \in Element : data[i] \in pending
      BY <2>1 DEF IInv, ElementPerRequest
    <3>2. pending \subseteq Element
      BY IndexFacts DEF IInv, TypeOK
    <3> QED
      BY <3>1, <3>2
  <2> HIDE DEF rest, f
  <2>4. \E x, y \in Element : x # y /\ f[x] = f[y]
    BY <2>2, <2>3, FS_PigeonHole
  <2> QED
    BY <2>1, <2>4 DEF f, IInv, ElementPerRequest
<1>2. \E i \in Free : \A j \in Free : i <= j
  <2>1. Free \in SUBSET Nat
    BY DEF Free, Element
  <2> DEFINE less == OpToRel(<, Nat)
  <2>2. IsWellFoundedOn(less, Nat)
    BY NatLessThanWellFounded
  <2>3. PICK i \in Free : \A j \in Free : <<j, i>> \notin less
    BY <1>1, <2>1, <2>2, WFMin
  <2>4. \A j \in Free : ~(j < i)
    BY <2>1, <2>3 DEF OpToRel
  <2> QED
    BY <2>1, <2>4
<1>3. \A i \in Slots : i \in Element /\ ~listed[i]
  BY DEF Slots, Free, IInv, FreedIsFree, TypeOK
<1> QED
  BY <1>2, <1>3 DEF Slots

-------------------------------------------------------------------------------
(* What the port sees of a step. *)

Seen == [r \in Index |-> State(r)]

PortMoves(r, from, to) == State(r) = from /\ Seen' = [Seen EXCEPT ![r] = to]

\* A step of the queue is one of the port, or none.
PortStep == [Port!Next]_Seen

LEMMA MovesStep ==
  ASSUME NEW r \in Index, NEW from, NEW to,
         <<from, to>> \in {<<"idle", "pending">>, <<"pending", "finished">>,
                          <<"finished", "idle">>},
         PortMoves(r, from, to)
  PROVE  PortStep
<1>1. Seen[r] = from
  BY DEF PortMoves, Seen
<1> QED
  BY <1>1 DEF PortMoves, PortStep, Seen, Port!Next, Port!Accept, Port!Finish,
              Port!HandOut, Port!Move

LEMMA ElementOf ==
  ASSUME IInv, NEW i \in Index, kernel[i] # "idle"
  PROVE  i \in Used /\ i \in Element /\ data[i] \in pending /\ data[i] \in Index
  BY IndexFacts DEF IInv, Stages, ElementPerRequest, Used, TypeOK

-------------------------------------------------------------------------------
(* The calls that issue a request. *)

LEMMA AcceptedStep ==
  ASSUME IInv, NEW r \in Request, r \notin pending,
         NEW i \in Slots, Accepted(i, r), Believe(r),
         turn' = "poll", answer' = Silence,
         UNCHANGED <<build, use, size, done, position, events, draining>>
  PROVE  IInv' /\ PortStep
<1>1. i \in Element /\ ~listed[i] /\ i \in Index /\ r \in Index
  BY SlotForRequest, IndexFacts DEF IInv
<1>2. kernel[i] = "idle" /\ ~done[i]
  BY <1>1, Names DEF IInv, Stages
<1>3. pending' = pending \cup {r}
  BY DEF Believe, Accepted
<1> USE DEF Accepted, Fill
<1>4. TypeOK'
  BY <1>1, <1>3 DEF IInv, TypeOK, Flag, Amount, Silence, Element, Request, Index, None
<1>5. Used' = Used \cup {i}
  BY <1>1 DEF IInv, TypeOK, Flag, Used, Element
<1>6. ElementPerRequest'
  <2>1. i \notin Used
    BY <1>1 DEF Used
  <2>2. \A j \in Used : data'[j] = data[j] /\ data[j] # r
    BY <2>1 DEF IInv, TypeOK, ElementPerRequest
  <2>3. data'[i] = r
    BY <1>1 DEF IInv, TypeOK
  <2> QED
    BY <1>3, <1>5, <2>1, <2>2, <2>3 DEF IInv, ElementPerRequest
<1>7. Stages'
  BY <1>1, <1>2 DEF IInv, TypeOK, Flag, Stages, Element
<1>8. EventsOnce'
  BY <1>1, <1>2, Names DEF IInv, TypeOK, EventsOnce, Ended, Element
<1>9. FreedIsFree' /\ SizeOfUse'
  BY DEF IInv, FreedIsFree, SizeOfUse, SizeFor
<1>10. PortMoves(r, "idle", "pending")
  <2>1. State(r) = "idle"
    BY DEF State
  <2>2. State(r)' = "pending"
    BY <1>1, <1>3, <1>5 DEF State, IInv, TypeOK
  <2>3. \A q \in Index : q # r => State(q)' = State(q)
    BY <1>1, <1>3, <1>5 DEF State, IInv, TypeOK, Used
  <2> QED
    BY <2>1, <2>2, <2>3, <1>1 DEF PortMoves, Seen
<1> QED
  BY <1>1, <1>4, <1>6, <1>7, <1>8, <1>9, <1>10, MovesStep DEF IInv

LEMMA RefusedStep ==
  ASSUME NoLeak, IInv, NEW r \in Request, r \notin pending,
         NEW i \in Slots, Refused(i, r), Believe(r),
         turn' = "poll", answer' = Silence,
         UNCHANGED <<build, use, size, done, position, events, draining>>
  PROVE  IInv' /\ PortStep
<1>1. i \in Element /\ ~listed[i] /\ i \in Index /\ r \in Index
  BY SlotForRequest, IndexFacts DEF IInv
<1>2. pending' = pending
  BY DEF Believe, Refused
<1>3. listed' = listed
  BY <1>1 DEF Refused, NoLeak, IInv, TypeOK, Flag
<1> USE DEF Refused, Fill
<1>4. TypeOK'
  BY <1>1, <1>2, <1>3 DEF IInv, TypeOK, Flag, Amount, Silence, Element, Request, Index, None
<1>5. Used' = Used /\ \A j \in Used : data'[j] = data[j]
  BY <1>1, <1>3 DEF IInv, TypeOK, Flag, Used, Element
<1>6. ElementPerRequest'
  BY <1>2, <1>5 DEF IInv, ElementPerRequest
<1>7. Stages'
  BY <1>1, <1>3 DEF IInv, Stages, Element
<1>8. EventsOnce'
  BY DEF IInv, EventsOnce, Ended, Element
<1>9. FreedIsFree' /\ SizeOfUse'
  BY DEF IInv, FreedIsFree, SizeOfUse, SizeFor
<1>10. Seen' = Seen
  <2>1. \A q \in Index : State(q)' = State(q)
    BY <1>2, <1>5 DEF State
  <2> QED
    BY <2>1 DEF Seen
<1> QED
  BY <1>4, <1>6, <1>7, <1>8, <1>9, <1>10 DEF IInv, PortStep

LEMMA IssueStep ==
  ASSUME NoLeak, IInv, NEW r \in Request, Issue(r)
  PROVE  IInv' /\ PortStep
<1>1. PICK i \in Slots : Accepted(i, r) \/ Refused(i, r)
  BY SlotForRequest DEF Issue, NoSlot
<1> QED
  BY <1>1, AcceptedStep, RefusedStep DEF Issue

-------------------------------------------------------------------------------
(* The calls that look for a completion. *)

\* A request that ended and is tagged, or found by GetOverlappedResult, is
\* returned.
LEMMA ReturnStep ==
  ASSUME IInv, NEW i \in Element, kernel[i] \in Outcome,
         NEW ok \in BOOLEAN, NEW count \in Amount, Return(i, ok, count),
         UNCHANGED <<use, size, data>>
  PROVE  /\ ElementPerRequest' /\ FreedIsFree' /\ SizeOfUse'
         /\ PortStep
         /\ \A j \in Index : j # i => listed'[j] = listed[j] /\ kernel'[j] = kernel[j]
         /\ ~listed'[i] /\ kernel'[i] = "idle"
         /\ listed' \in Flag /\ kernel' \in [Index -> {"idle", "busy"} \cup Outcome]
         /\ last_freed' \in Element \cup {-1} /\ position' \in 0 .. size
         /\ pending' \subseteq Request
         /\ answer' \in [request : Index \cup {None}, ok : BOOLEAN,
                         bytes : Amount \cup {"none"}]
<1>1. i \in Used /\ i \in Index /\ data[i] \in pending /\ data[i] \in Index
  BY ElementOf, IndexFacts, Names DEF IInv
<1> DEFINE r == data[i]
<1> USE DEF Return
<1>2. /\ \A j \in Index : j # i => listed'[j] = listed[j] /\ kernel'[j] = kernel[j]
      /\ ~listed'[i] /\ kernel'[i] = "idle"
      /\ listed' \in Flag /\ kernel' \in [Index -> {"idle", "busy"} \cup Outcome]
  BY <1>1 DEF IInv, TypeOK, Flag
<1>3. /\ last_freed' \in Element \cup {-1} /\ position' \in 0 .. size
      /\ pending' \subseteq Request
      /\ answer' \in [request : Index \cup {None}, ok : BOOLEAN,
                      bytes : Amount \cup {"none"}]
  BY <1>1, IndexFacts DEF IInv, TypeOK, Element
<1>4. Used' = Used \ {i} /\ \A q \in Used : q \in Index
  BY <1>1, <1>2, IndexFacts DEF IInv, Used, Element
<1>5. \A j \in Used : data[j] = r => j = i
  BY <1>1 DEF IInv, ElementPerRequest
<1>6. ElementPerRequest'
  BY <1>4, <1>5 DEF IInv, ElementPerRequest
<1>7. FreedIsFree' /\ SizeOfUse'
  BY <1>2 DEF IInv, FreedIsFree, SizeOfUse, SizeFor
<1>8. PortMoves(r, "finished", "idle")
  <2>1. State(r) = "finished"
    BY <1>1, <1>5, Names DEF State
  <2>2. State(r)' = "idle"
    BY DEF State
  <2>3. ASSUME NEW q \in Index, q # r
        PROVE  State(q)' = State(q)
    <3>1. q \in pending' <=> q \in pending
      BY <2>3
    <3>2. \A j \in Used : data[j] = q => j \in Used' /\ kernel'[j] = kernel[j]
      BY <1>2, <1>4, <2>3
    <3>3. \A j \in Used' : j \in Used /\ kernel'[j] = kernel[j]
      BY <1>2, <1>4
    <3> QED
      BY <3>1, <3>2, <3>3 DEF State
  <2> QED
    BY <2>1, <2>2, <2>3, <1>1 DEF PortMoves, Seen
<1> QED
  BY <1>1, <1>2, <1>3, <1>6, <1>7, <1>8, MovesStep

LEMMA HandOutStep ==
  ASSUME IInv, NEW i \in Element, HandOut(i),
         turn' \in {"poll", "issue"}, draining' = draining
  PROVE  IInv' /\ PortStep
<1>1. done[i] /\ i \in Index
  BY IndexFacts DEF HandOut, FirstOf, IInv
<1>2. kernel[i] \in Outcome /\ bytes[i] \in Amount
  BY <1>1 DEF IInv, Stages, TypeOK
<1>3. Return(i, TRUE, bytes[i]) /\ UNCHANGED <<build, use, size, data, bytes, events, error>>
      /\ done' = [done EXCEPT ![i] = FALSE]
  BY DEF HandOut
<1>4. /\ ElementPerRequest' /\ FreedIsFree' /\ SizeOfUse'
      /\ PortStep
      /\ \A j \in Index : j # i => listed'[j] = listed[j] /\ kernel'[j] = kernel[j]
      /\ ~listed'[i] /\ kernel'[i] = "idle"
      /\ listed' \in Flag /\ kernel' \in [Index -> {"idle", "busy"} \cup Outcome]
      /\ last_freed' \in Element \cup {-1} /\ position' \in 0 .. size
      /\ pending' \subseteq Request
      /\ answer' \in [request : Index \cup {None}, ok : BOOLEAN,
                      bytes : Amount \cup {"none"}]
  BY <1>2, <1>3, ReturnStep
<1>5. TypeOK'
  BY <1>1, <1>3, <1>4 DEF IInv, TypeOK, Flag, Element, Request
<1>6. done' \in Flag /\ ~done'[i] /\ \A j \in Index : j # i => done'[j] = done[j]
  BY <1>1, <1>3 DEF IInv, TypeOK, Flag
<1>7. Stages'
  BY <1>3, <1>4, <1>6 DEF IInv, Stages, Element
<1>8. Ended' = Ended
  BY <1>1, <1>3, <1>4, <1>6, Names, IndexFacts DEF IInv, Ended, Element
<1>9. EventsOnce'
  BY <1>3, <1>8 DEF IInv, EventsOnce
<1> QED
  BY <1>4, <1>5, <1>7, <1>9 DEF IInv

\* Events of elements that ended are taken off the front.
LEMMA TailOnce ==
  ASSUME IInv, events # <<>>
  PROVE  /\ Head(events) \in Ended /\ Tail(events) \in Seq(Element)
         /\ Len(Tail(events)) = Len(events) - 1 /\ Len(events) \in Nat
         /\ \A k \in 1 .. Len(Tail(events)) :
               /\ Tail(events)[k] = events[k + 1] /\ k + 1 \in 1 .. Len(events)
               /\ Tail(events)[k] \in Ended /\ Tail(events)[k] # Head(events)
         /\ \A k, l \in 1 .. Len(Tail(events)) : Tail(events)[k] = Tail(events)[l] => k = l
<1>1. events \in Seq(Element) /\ 1 \in 1 .. Len(events) /\ Head(events) = events[1]
  BY DEF IInv, TypeOK
<1>2. /\ Tail(events) \in Seq(Element) /\ Len(Tail(events)) = Len(events) - 1
      /\ Len(events) \in Nat
      /\ \A k \in 1 .. Len(Tail(events)) :
           Tail(events)[k] = events[k + 1] /\ k + 1 \in 1 .. Len(events)
  BY <1>1
<1>3. \A k \in 1 .. Len(Tail(events)) :
           Tail(events)[k] \in Ended /\ Tail(events)[k] # Head(events)
  BY <1>1, <1>2 DEF IInv, EventsOnce
<1>4. \A k, l \in 1 .. Len(Tail(events)) : Tail(events)[k] = Tail(events)[l] => k = l
  <2> TAKE k, l \in 1 .. Len(Tail(events))
  <2> HAVE Tail(events)[k] = Tail(events)[l]
  <2>1. k + 1 = l + 1
    BY <1>2 DEF IInv, EventsOnce
  <2> QED
    BY <2>1, <1>2
<1> QED
  BY <1>1, <1>2, <1>3, <1>4 DEF IInv, EventsOnce

\* Nothing that the port or a request's element is about changes.
LEMMA QuietStep ==
  ASSUME IInv, UNCHANGED <<use, size, listed, data, last_freed, kernel, pending>>
  PROVE  ElementPerRequest' /\ FreedIsFree' /\ SizeOfUse' /\ PortStep /\ Used' = Used
<1>1. Used' = Used
  BY DEF Used, Element
<1>2. Seen' = Seen
  BY <1>1 DEF Seen, State, Index
<1> QED
  BY <1>1, <1>2 DEF IInv, ElementPerRequest, FreedIsFree, SizeOfUse, SizeFor, PortStep, Element

LEMMA NoteKeeps ==
  ASSUME IInv, NEW S \in SUBSET Ended, Note(S), UNCHANGED <<size, kernel>>
  PROVE  /\ done' \in Flag /\ bytes' \in [Index -> Amount] /\ listed' = listed
         /\ Stages' /\ Ended' = Ended \ S
<1> USE DEF Note
<1>1. \A o : Count(o) \in Amount
  BY DEF Count, Amount
<1>2. done' \in Flag /\ bytes' \in [Index -> Amount] /\ listed' = listed
  BY <1>1 DEF IInv, TypeOK, Flag
<1>3. \A j \in Index : done'[j] <=> done[j] \/ j \in S
  OBVIOUS
<1>4. Stages'
  BY <1>3 DEF IInv, Stages, Ended, Element
<1>5. Ended' = Ended \ S
  BY <1>3, IndexFacts DEF IInv, Ended, Element
<1> QED
  BY <1>2, <1>4, <1>5

LEMMA TimeOutStep ==
  ASSUME IInv, TimeOut, turn' \in {"poll", "issue"}, draining' = draining
  PROVE  IInv' /\ PortStep
<1> USE DEF TimeOut
<1>1. ElementPerRequest' /\ FreedIsFree' /\ SizeOfUse' /\ PortStep
  <2>1. listed' = listed
    BY DEF Tag, Note, NothingYet, tags
  <2> QED
    BY <2>1, QuietStep
<1>2. error' \in {"zero", "pending", "failed"}
      /\ answer' \in [request : Index \cup {None}, ok : BOOLEAN, bytes : Amount \cup {"none"}]
  BY DEF Silence
<1>3. CASE UNCHANGED tags
  <2>1. TypeOK'
    BY <1>2, <1>3 DEF tags, IInv, TypeOK, Flag, Element, Request
  <2>2. Stages' /\ EventsOnce'
    BY <1>3 DEF tags, IInv, Stages, EventsOnce, Ended, Element
  <2> QED
    BY <1>1, <2>1, <2>2 DEF IInv
<1>4. CASE Tag
  <2> DEFINE S == IF build = "libaio" THEN {Head(events)} ELSE Ended
  <2>1. S \subseteq Ended /\ Note(S) /\ events # <<>>
    BY <1>4, TailOnce DEF Tag
  <2>2. /\ done' \in Flag /\ bytes' \in [Index -> Amount] /\ listed' = listed
        /\ Stages' /\ Ended' = Ended \ S
    BY <2>1, NoteKeeps
  <2>3. events' \in Seq(Element) /\ EventsOnce'
    <3>1. CASE build = "libaio"
      BY <1>4, <3>1, <2>1, <2>2, TailOnce DEF Tag, EventsOnce
    <3>2. CASE build # "libaio"
      <4>1. events' = <<>>
        BY <1>4, <3>2 DEF Tag
      <4>2. Len(events') = 0 /\ events' \in Seq(Element)
        BY <4>1
      <4> QED
        BY <4>2 DEF EventsOnce
    <3> QED
      BY <3>1, <3>2
  <2>4. TypeOK'
    BY <1>2, <2>2, <2>3 DEF IInv, TypeOK, Element, Request
  <2> QED
    BY <1>1, <2>2, <2>3, <2>4 DEF IInv
<1> QED
  BY <1>3, <1>4 DEF NothingYet
\* An event queue has one element, so no event is left.
LEMMA OverlappedHandOutStep ==
  ASSUME IInv, use = "event", events # <<>>, NEW i \in Element, OverlappedHandOut(i),
         turn' \in {"poll", "issue"}, draining' = draining
  PROVE  IInv' /\ PortStep
<1> DEFINE full == build = "posix" /\ kernel[i] = "nospace"
<1>1. i \in Ended /\ i \in Index
  <2>1. CASE build = "libaio"
    BY <2>1, TailOnce, IndexFacts DEF OverlappedHandOut, IInv
  <2>2. CASE build # "libaio"
    BY <2>2, IndexFacts DEF OverlappedHandOut, FirstOf, IInv
  <2> QED
    BY <2>1, <2>2
<1>2. kernel[i] \in Outcome /\ ~done[i] /\ Count(kernel[i]) \in Amount
  BY <1>1 DEF Ended, Count, Amount
<1>3. /\ Return(i, ~full, Count(kernel[i])) /\ error' = (IF full THEN "failed" ELSE error)
      /\ events' = Tail(events)
      /\ UNCHANGED <<build, use, size, data, done, bytes>>
  BY DEF OverlappedHandOut
<1> HIDE DEF full
<1>4. /\ ElementPerRequest' /\ FreedIsFree' /\ SizeOfUse'
      /\ PortStep
      /\ \A j \in Index : j # i => listed'[j] = listed[j] /\ kernel'[j] = kernel[j]
      /\ ~listed'[i] /\ kernel'[i] = "idle"
      /\ listed' \in Flag /\ kernel' \in [Index -> {"idle", "busy"} \cup Outcome]
      /\ last_freed' \in Element \cup {-1} /\ position' \in 0 .. size
      /\ pending' \subseteq Request
      /\ answer' \in [request : Index \cup {None}, ok : BOOLEAN,
                      bytes : Amount \cup {"none"}]
  BY <1>2, <1>3, ReturnStep
<1>5. events' \in Seq(Element) /\ EventsOnce'
  <2>1. \A j \in Element : j = 0
    BY DEF IInv, SizeOfUse, SizeFor, Element
  <2>2. Head(events) = 0 /\ \A k \in 1 .. Len(Tail(events)) : Tail(events)[k] = 0
    BY <2>1, TailOnce DEF Ended
  <2>3. \A k \in 1 .. Len(Tail(events)) : FALSE
    BY <2>2, TailOnce
  <2> QED
    BY <1>3, <2>3, TailOnce DEF EventsOnce
<1>6. TypeOK'
  BY <1>3, <1>4, <1>5 DEF IInv, TypeOK, Element, Request
<1>7. Stages'
  BY <1>2, <1>3, <1>4 DEF IInv, Stages, Element
<1> QED
  BY <1>4, <1>5, <1>6, <1>7 DEF IInv

LEMMA PollStep ==
  ASSUME IInv, Poll
  PROVE  IInv' /\ PortStep
<1>1. turn' \in {"poll", "issue"} /\ draining' = draining
  BY DEF Poll
<1>2. CASE use = "completion"
  BY <1>1, <1>2, HandOutStep, TimeOutStep DEF Poll, GetQueuedCompletionStatus
<1>3. CASE use # "completion"
  <2>1. use = "event"
    BY <1>3, QueueAssumption DEF IInv, TypeOK
  <2>2. ASSUME NEW i \in Element, events # <<>>, OverlappedHandOut(i)
        PROVE  IInv' /\ PortStep
    BY <1>1, <2>1, <2>2, OverlappedHandOutStep
  <2>3. ASSUME UNCHANGED <<queue, kernel, events, pending>>, answer' = Silence,
               error' \in {error, "pending"}
        PROVE  IInv' /\ PortStep
    <3>1. ElementPerRequest' /\ FreedIsFree' /\ SizeOfUse' /\ PortStep
      BY <2>3, QuietStep DEF queue
    <3>2. TypeOK'
      BY <1>1, <2>3 DEF queue, IInv, TypeOK, Flag, Element, Request, Silence
    <3>3. Stages' /\ EventsOnce'
      BY <2>3 DEF queue, IInv, Stages, EventsOnce, Ended, Element
    <3> QED
      BY <3>1, <3>2, <3>3 DEF IInv
  <2>4. \/ \E i \in Element : events # <<>> /\ OverlappedHandOut(i)
        \/ UNCHANGED <<queue, kernel, events, pending>> /\ answer' = Silence
           /\ error' \in {error, "pending"}
    BY <1>3 DEF Poll, GetOverlappedResult, OverlappedTimeOut
  <2> QED
    BY <2>2, <2>3, <2>4
<1> QED
  BY <1>2, <1>3

-------------------------------------------------------------------------------
(* The other steps. *)

LEMMA FinishStep ==
  ASSUME IInv, NEW i \in Index, Finish(i)
  PROVE  IInv' /\ PortStep
<1> USE DEF Finish, queue, thread
<1>1. i \in Used /\ i \in Element /\ data[i] \in pending /\ data[i] \in Index
      /\ kernel[i] = "busy" /\ ~done[i] /\ i \notin Ended
  BY ElementOf, Names DEF IInv, Stages, Ended
<1>2. /\ kernel'[i] \in Outcome /\ kernel' \in [Index -> {"idle", "busy"} \cup Outcome]
      /\ \A j \in Index : j # i => kernel'[j] = kernel[j]
  BY DEF IInv, TypeOK
<1>3. events' \in Seq(Element) /\ Len(events') = Len(events) + 1 /\ Len(events) \in Nat
      /\ events'[Len(events) + 1] = i /\ \A k \in 1 .. Len(events) : events'[k] = events[k]
  BY <1>1 DEF IInv, TypeOK
<1>4. Ended' = Ended \cup {i}
  BY <1>1, <1>2, IndexFacts DEF IInv, Ended, Element
<1>5. TypeOK'
  BY <1>2, <1>3 DEF IInv, TypeOK, Element, Request
<1>6. Used' = Used /\ ElementPerRequest' /\ FreedIsFree' /\ SizeOfUse'
  BY DEF IInv, ElementPerRequest, FreedIsFree, SizeOfUse, SizeFor, Used, Element
<1>7. Stages'
  BY <1>1, <1>2, Names DEF IInv, Stages, Element
<1>8. EventsOnce'
  BY <1>1, <1>3, <1>4 DEF IInv, EventsOnce
<1>9. PortMoves(data[i], "pending", "finished")
  <2>1. State(data[i]) = "pending"
    BY <1>1 DEF State
  <2>2. State(data[i])' = "finished"
    BY <1>1, <1>2, <1>6, Names DEF State, IInv, ElementPerRequest
  <2>3. ASSUME NEW q \in Index, q # data[i]
        PROVE  State(q)' = State(q)
    <3>1. \A j \in Used : data[j] = q => kernel'[j] = kernel[j]
      BY <1>2, <2>3, IndexFacts DEF IInv, Used
    <3> QED
      BY <3>1, <1>6 DEF State
  <2> QED
    BY <2>1, <2>2, <2>3, <1>1 DEF PortMoves, Seen
<1> QED
  BY <1>1, <1>5, <1>6, <1>7, <1>8, <1>9, MovesStep DEF IInv

NewState ==
    /\ use \in Uses /\ size = SizeFor(use) /\ build \in Builds
    /\ listed = [i \in Index |-> FALSE] /\ data = [i \in Index |-> None]
    /\ done = [i \in Index |-> FALSE] /\ bytes = [i \in Index |-> "zero"]
    /\ last_freed = -1 /\ position = 0
    /\ kernel = [i \in Index |-> "idle"] /\ events = <<>>
    /\ error \in {"zero", "pending", "failed"} /\ pending = {} /\ turn = "poll"
    /\ draining = FALSE /\ answer = Silence

LEMMA NewQueue == NewState => IInv
<1> SUFFICES ASSUME NewState PROVE IInv
  OBVIOUS
<1> USE DEF NewState
<1>1. size \in 1 .. N /\ N \in Nat
  BY QueueAssumption DEF SizeFor
<1>2. events \in Seq(Element) /\ Len(events) = 0
  OBVIOUS
<1>3. answer \in [request : Index \cup {None}, ok : BOOLEAN, bytes : Amount \cup {"none"}]
  BY DEF Silence
<1>4. TypeOK
  <2>1. /\ listed \in Flag /\ done \in Flag /\ data \in [Index -> Index \cup {None}]
        /\ bytes \in [Index -> Amount]
        /\ kernel \in [Index -> {"idle", "busy"} \cup Outcome]
    BY DEF Flag, Amount
  <2>2. /\ last_freed \in Element \cup {-1} /\ position \in 0 .. size
        /\ pending \subseteq Request
    BY <1>1
  <2>3. turn \in {"poll", "issue"} /\ draining \in BOOLEAN
    OBVIOUS
  <2> QED
    BY <1>1, <1>2, <1>3, <2>1, <2>2, <2>3 DEF TypeOK
<1>5. Used = {}
  BY <1>1 DEF Used, Element, Index
<1>6. ElementPerRequest /\ Stages /\ FreedIsFree /\ SizeOfUse
  BY <1>5 DEF ElementPerRequest, Stages, FreedIsFree, SizeOfUse
<1>7. EventsOnce
  BY <1>2 DEF EventsOnce
<1> QED
  BY <1>4, <1>6, <1>7 DEF IInv

LEMMA NewQueueNext == NewState' => IInv'
  BY NewQueue, PTL

LEMMA InitEstablishes == Init => IInv
  BY NewQueue DEF Init, NewState

LEMMA RenewStep ==
  ASSUME IInv, Renew
  PROVE  IInv' /\ PortStep
<1> USE DEF Renew
<1>1. NewState'
  BY DEF NewState, IInv, TypeOK, SizeFor
<1>2. IInv'
  BY <1>1, NewQueueNext
<1>3. Seen' = Seen
  BY DEF Seen, State
<1> QED
  BY <1>2, <1>3 DEF PortStep

LEMMA DrainStep ==
  ASSUME IInv, Drain
  PROVE  IInv' /\ PortStep
<1>1. ElementPerRequest' /\ FreedIsFree' /\ SizeOfUse' /\ PortStep
  BY QuietStep DEF Drain, queue
<1>2. TypeOK'
  BY DEF Drain, queue, IInv, TypeOK, Flag, Element, Request
<1>3. Stages' /\ EventsOnce'
  BY DEF Drain, queue, IInv, Stages, EventsOnce, Ended, Element
<1> QED
  BY <1>1, <1>2, <1>3 DEF IInv

LEMMA StutterStep ==
  ASSUME IInv, UNCHANGED vars
  PROVE  IInv' /\ PortStep
<1>1. ElementPerRequest' /\ FreedIsFree' /\ SizeOfUse' /\ PortStep
  BY QuietStep DEF vars, queue, thread
<1>2. TypeOK'
  BY DEF vars, queue, thread, IInv, TypeOK, Flag, Element, Request
<1>3. Stages' /\ EventsOnce'
  BY DEF vars, queue, IInv, Stages, EventsOnce, Ended, Element
<1> QED
  BY <1>1, <1>2, <1>3 DEF IInv

LEMMA Step == NoLeak /\ IInv /\ [Next]_vars => IInv' /\ PortStep
  BY IssueStep, PollStep, FinishStep, DrainStep, RenewStep, StutterStep DEF Next

-------------------------------------------------------------------------------
(* The theorems. *)

LEMMA Inductive ==
  ASSUME NoLeak
  PROVE  Spec => []IInv
<1>1. Init => IInv
  BY InitEstablishes
<1>2. IInv /\ [Next]_vars => IInv'
  BY Step
<1> QED
  BY <1>1, <1>2, PTL DEF Spec

\* The elements of a queue have their types, the requests of the thread have
\* an element each, and no element is kept for nobody, for every number of
\* transactions and every order in which the kernel ends them.
THEOREM QueueHolds ==
  ASSUME NoLeak
  PROVE  Spec => [](TypeOK /\ ElementPerRequest)
<1>1. IInv => TypeOK /\ ElementPerRequest
  BY DEF IInv
<1> QED
  BY <1>1, Inductive, PTL

\* A control block is not taken while the kernel or the queue has it.
THEOREM QueueNoReuse ==
  ASSUME NoLeak
  PROVE  Spec => NoReuse
<1> DEFINE Kept == \A i \in Index : data'[i] \notin {data[i], None}
                                  => ~listed[i] /\ kernel[i] = "idle"
<1>1. ASSUME IInv, [Next]_vars PROVE Kept
  <2>1. CASE \E r \in Request : Issue(r)
    <3>1. PICK r \in Request : Issue(r)
      BY <2>1
    <3>2. PICK i \in Slots : Accepted(i, r) \/ Refused(i, r)
      BY <1>1, <3>1, SlotForRequest DEF Issue, NoSlot
    <3>3. i \in Element /\ ~listed[i]
      BY <1>1, <3>1, SlotForRequest DEF Issue
    <3>4. kernel[i] = "idle"
      BY <1>1, <3>3, IndexFacts DEF IInv, Stages
    <3>5. \A j \in Index : j # i => data'[j] = data[j]
      BY <1>1, <3>2 DEF Accepted, Refused, Fill, IInv, TypeOK
    <3> QED
      BY <3>3, <3>4, <3>5
  <2>2. CASE Poll
    BY <2>2 DEF Poll, GetQueuedCompletionStatus, GetOverlappedResult, HandOut, TimeOut,
                OverlappedHandOut, OverlappedTimeOut, queue
  <2>3. CASE Renew
    BY <2>3 DEF Renew
  <2>4. CASE (\E i \in Index : Finish(i)) \/ Drain \/ UNCHANGED vars
    BY <2>4 DEF Finish, Drain, vars, queue
  <2> QED
    BY <1>1, <2>1, <2>2, <2>3, <2>4 DEF Next
<1>2. IInv /\ [Next]_vars => [Kept]_vars
  BY <1>1
<1> QED
  BY <1>2, Inductive, PTL DEF Spec, NoReuse

\* A queue is a completion port: what was accepted is handed out once, to the
\* thread that waits for it, after it ended.
THEOREM QueueIsPort ==
  ASSUME NoLeak
  PROVE  Spec => Port!Spec
<1>1. Init => Port!Init
  BY DEF Init, Port!Init, State
<1>2. IInv /\ [Next]_vars => [Port!Next]_Seen
  BY Step DEF PortStep
<1>3. IInv /\ [Next]_vars => [Port!Next]_([r \in Index |-> State(r)])
  BY <1>2 DEF Seen
<1> QED
  BY <1>1, <1>3, Inductive, PTL DEF Spec, Port!Spec

-------------------------------------------------------------------------------
(* What the thread is told. *)

\* A tagged element holds the count of the request that ended in it.
TagsTrue == \A i \in Index : done[i] => bytes[i] = Count(kernel[i])

Told(r) == \E i \in Used : /\ data[i] = r /\ kernel[i] \in Outcome
                           /\ answer'.request = r /\ answer'.bytes = Count(kernel[i])

TellsTruth == \A r \in Index : Returned(r) => Told(r)

\* Steps that return nothing.
LEMMA NothingReturned ==
  ASSUME pending \subseteq pending'
  PROVE  TellsTruth
  BY DEF TellsTruth, Returned

\* Steps after which every tagged element was tagged before, and is as it was.
LEMMA TagsKept ==
  ASSUME TagsTrue, build' = build,
         \A i \in Index : done'[i] => done[i] /\ bytes'[i] = bytes[i] /\ kernel'[i] = kernel[i]
  PROVE  TagsTrue'
  BY DEF TagsTrue, Count

\* An element is taken only when it is not tagged.
LEMMA IssueTells ==
  ASSUME IInv, TagsTrue, NEW r \in Request, Issue(r)
  PROVE  TagsTrue' /\ TellsTruth
<1>1. pending \subseteq pending' /\ UNCHANGED <<build, done>>
  <2>1. r \notin pending /\ Believe(r)
    BY DEF Issue
  <2> QED
    BY <2>1 DEF Issue, Believe
<1>2. PICK i \in Slots : Accepted(i, r) \/ Refused(i, r)
  BY SlotForRequest DEF Issue, NoSlot
<1>3. i \in Element /\ ~listed[i] /\ i \in Index
  BY SlotForRequest, IndexFacts DEF IInv, Issue
<1>4. kernel[i] = "idle" /\ ~done[i]
  BY <1>3, Names DEF IInv, Stages
<1>5. \A j \in Index : j # i => bytes'[j] = bytes[j] /\ kernel'[j] = kernel[j]
  BY <1>2 DEF Accepted, Refused, Fill, IInv, TypeOK
<1> QED
  BY <1>1, <1>4, <1>5, TagsKept, NothingReturned

LEMMA ReturnTells ==
  ASSUME IInv, NEW i \in Element, kernel[i] \in Outcome, NEW ok \in BOOLEAN,
         Return(i, ok, Count(kernel[i]))
  PROVE  /\ TellsTruth
         /\ \A j \in Index : j # i => kernel'[j] = kernel[j]
<1>1. i \in Used /\ i \in Index
  BY ElementOf, IndexFacts, Names DEF IInv
<1>2. answer' = [request |-> data[i], ok |-> ok, bytes |-> Count(kernel[i])]
  BY DEF Return
<1>3. \A r \in Index : Returned(r) => r = data[i]
  BY DEF Returned, Return
<1>4. Told(data[i])
  BY <1>1, <1>2 DEF Told
<1>5. \A j \in Index : j # i => kernel'[j] = kernel[j]
  BY DEF Return, IInv, TypeOK
<1> QED
  BY <1>3, <1>4, <1>5 DEF TellsTruth

LEMMA PollTells ==
  ASSUME IInv, TagsTrue, Poll
  PROVE  TagsTrue' /\ TellsTruth
<1>1. ASSUME NEW i \in Element, HandOut(i)
      PROVE  TagsTrue' /\ TellsTruth
  <2>1. done[i] /\ i \in Index
    BY <1>1, IndexFacts DEF HandOut, FirstOf, IInv
  <2>2. kernel[i] \in Outcome /\ bytes[i] = Count(kernel[i])
    BY <2>1 DEF IInv, Stages, TagsTrue
  <2>3. /\ Return(i, TRUE, Count(kernel[i])) /\ UNCHANGED <<build, bytes>>
        /\ done' = [done EXCEPT ![i] = FALSE]
    BY <1>1, <2>2 DEF HandOut
  <2>4. TellsTruth /\ \A j \in Index : j # i => kernel'[j] = kernel[j]
    BY <2>2, <2>3, ReturnTells
  <2>5. \A j \in Index : done'[j] => done[j] /\ j # i
    BY <2>1, <2>3 DEF IInv, TypeOK, Flag
  <2> QED
    BY <2>3, <2>4, <2>5, TagsKept
<1>2. ASSUME TimeOut
      PROVE  TagsTrue' /\ TellsTruth
  <2>1. TellsTruth /\ UNCHANGED <<build, kernel>>
    BY <1>2, NothingReturned DEF TimeOut
  <2>2. CASE UNCHANGED tags
    BY <2>1, <2>2, TagsKept DEF tags
  <2>3. CASE Tag
    <3>1. PICK S : Note(S)
      BY <2>3 DEF Tag
    <3>2. \A i \in Index : /\ done'[i] <=> done[i] \/ i \in S
                           /\ bytes'[i] = IF i \in S THEN Count(kernel[i]) ELSE bytes[i]
      BY <3>1 DEF Note
    <3> QED
      BY <2>1, <3>2 DEF TagsTrue, Count
  <2> QED
    BY <1>2, <2>2, <2>3 DEF TimeOut, NothingYet
<1>3. ASSUME NEW i \in Element, events # <<>>, OverlappedHandOut(i)
      PROVE  TagsTrue' /\ TellsTruth
  <2>1. i \in Ended
    BY <1>3, TailOnce DEF OverlappedHandOut, FirstOf
  <2>2. kernel[i] \in Outcome /\ ~done[i]
    BY <2>1 DEF Ended
  <2>3. /\ \E ok \in BOOLEAN : Return(i, ok, Count(kernel[i]))
        /\ UNCHANGED <<build, done, bytes>>
    <3> DEFINE ok == ~(build = "posix" /\ kernel[i] = "nospace")
    <3>1. ok \in BOOLEAN /\ Return(i, ok, Count(kernel[i]))
      BY <1>3 DEF OverlappedHandOut
    <3> QED
      BY <1>3, <3>1 DEF OverlappedHandOut
  <2>4. TellsTruth /\ \A j \in Index : j # i => kernel'[j] = kernel[j]
    BY <2>2, <2>3, ReturnTells
  <2> QED
    BY <2>2, <2>3, <2>4, TagsKept
<1>4. ASSUME UNCHANGED <<queue, kernel, pending>>
      PROVE  TagsTrue' /\ TellsTruth
  BY <1>4, TagsKept, NothingReturned DEF queue
<1> QED
  BY <1>1, <1>2, <1>3, <1>4 DEF Poll, GetQueuedCompletionStatus, GetOverlappedResult,
                                OverlappedTimeOut

LEMMA StepTells == IInv /\ TagsTrue /\ [Next]_vars => TagsTrue' /\ TellsTruth
<1> SUFFICES ASSUME IInv, TagsTrue, [Next]_vars PROVE TagsTrue' /\ TellsTruth
  OBVIOUS
<1>1. CASE \E r \in Request : Issue(r)
  BY <1>1, IssueTells
<1>2. CASE Poll
  BY <1>2, PollTells
<1>3. ASSUME NEW i \in Index, Finish(i)
      PROVE  TagsTrue' /\ TellsTruth
  <2>1. kernel[i] = "busy" /\ ~done[i] /\ UNCHANGED <<build, done, bytes, pending>>
    BY <1>3, Names DEF Finish, queue, thread, IInv, Stages
  <2>2. \A j \in Index : j # i => kernel'[j] = kernel[j]
    BY <1>3 DEF Finish, IInv, TypeOK
  <2> QED
    BY <2>1, <2>2, TagsKept, NothingReturned
<1>4. CASE Drain \/ UNCHANGED vars
  BY <1>4, TagsKept, NothingReturned DEF Drain, vars, queue, thread
<1>5. CASE Renew
  BY <1>5, NothingReturned DEF Renew, TagsTrue
<1> QED
  BY <1>1, <1>2, <1>3, <1>4, <1>5 DEF Next

\* Every request is returned with what became of it, and not before: what one
\* request left in an element or in a scan is never told of another.
THEOREM QueueTellsTruth ==
  ASSUME NoLeak
  PROVE  Spec => ToldOfItsOwn
<1>1. Init => TagsTrue
  BY DEF Init, TagsTrue
<1>2. IInv /\ TagsTrue /\ [Next]_vars => TagsTrue'
  BY StepTells
<1>3. IInv /\ TagsTrue /\ [Next]_vars => [TellsTruth]_vars
  BY StepTells
<1>4. TellsTruth <=> \A r \in Index : Returned(r) =>
         \E i \in Used : /\ data[i] = r /\ kernel[i] \in Outcome
                         /\ answer'.request = r /\ answer'.bytes = Count(kernel[i])
  BY DEF TellsTruth, Told
<1>5. Spec => [][TellsTruth]_vars
  BY <1>1, <1>2, <1>3, Inductive, PTL DEF Spec
<1> QED
  BY <1>4, <1>5, PTL DEF ToldOfItsOwn
===============================================================================
