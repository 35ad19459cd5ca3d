-------------------------- MODULE TestControl_proofs --------------------------
(***************************************************************************)
(* For every number of managers and workers and every way the user sets    *)
(* tests up: nothing is freed under a running thread, a test begins with   *)
(* its targets open, reports come from the workers Iometer waits for, and  *)
(* the final ones are settled.  Tame says under which conditions.          *)
(***************************************************************************)
EXTENDS TestControl, SequenceTheorems, WellFoundedInduction, TLAPS

\* A thread that gave up has ended when the next test starts, and when a worker
\* fails to open its targets the other managers have begun.
Tame == Prompt /\ \A w \in MayFail : ManagerOf[w] = M

-------------------------------------------------------------------------------
(* The invariant: the conversation. *)

\* The recipient of the message that is being sent, and its manager.
Current == First(Recipients)
Of(x) == IF stage \in PerWorker THEN ManagerOf[x] ELSE x
Spoken(m) == waiting /\ m = Of(Current)
Message == [purpose |-> stage, worker |-> Current]

\* RECORD_ON, which is not answered, may be unread when the next message comes.
On(m) == [purpose |-> "RECORD_ON", worker |-> m]
Late(m) == /\ ActiveManager(m)
           /\ \/ stage = "RECORD_ON" /\ m < next
              \/ stage = "record"
              \/ stage = "REPORT_RESULTS" /\ ending = "no"
              \/ stage = "RECORD_OFF" /\ ~(m < next)

Unread(m) == /\ inbox[m] = <<>> \/ (Late(m) /\ inbox[m] = <<On(m)>>)
             /\ busy[m] = "no"

\* The manager that is spoken to has not read its message, or works on it, or
\* has answered: only the last manager can fail to begin a test.
Asked(m) == /\ inbox[m] = <<Message>> \/ (Late(m) /\ inbox[m] = <<On(m), Message>>)
            /\ busy[m] = "no" /\ reply = <<>>

Working(m) == /\ inbox[m] = <<>> /\ busy[m] = stage /\ stage \in {"BEGIN_IO", "STOP"}
              /\ reply = <<>>

Good(r, m) ==
    /\ r.from = m /\ r.purpose = stage
    /\ ~r.data => stage \in PerWorker \/ (stage = "BEGIN_IO" /\ m = M)
    /\ stage \in {"REPORT_RESULTS", "REPORT_UPDATE"} =>
           r.results = {w \in WorkersOf(m) : ActiveWorker(w)}

Answered(m) == /\ inbox[m] = <<>> /\ busy[m] = "no"
               /\ reply # <<>> /\ reply = <<reply[1]>> /\ Good(reply[1], m)

Phase(m) == IF Spoken(m) THEN Asked(m) \/ Working(m) \/ Answered(m) ELSE Unread(m)
Phases == \A m \in Manager : Phase(m)

Turns ==
    /\ ~waiting => reply = <<>>
    /\ waiting => Recipients # {} /\ stage \in (PerWorker \cup Broadcast) \ {"RECORD_ON"}
    /\ stage \in {"SET_ACCESS", "SET_TARGETS", "START", "BEGIN_IO", "ramp", "RECORD_ON",
                  "record"} => ending = "no"
    /\ stage \in {"RECORD_OFF", "STOP", "REPORT_UPDATE"} => ending # "no"

-------------------------------------------------------------------------------
(* The set-up of the grunts, and where their threads are. *)

Replied == waiting /\ reply # <<>>

\* The grunt has what Iometer thinks it has, once it has been told.
AccessRight(w)  == idle[w] <=> role[w] \in {"idle", "none"}
TargetsRight(w) == targets[w] <=> role[w] = "io"
Told(w) == w < next \/ (Replied /\ w = Current /\ reply[1].data)

Configured ==
    /\ stage = "SET_ACCESS" => \A w \in Worker : Told(w) => AccessRight(w)
    /\ stage = "SET_TARGETS" =>
           \A w \in Worker : AccessRight(w) /\ (Told(w) => TargetsRight(w))
    /\ stage \notin PerWorker \cup {"ready"} =>
           \A w \in Worker : AccessRight(w) /\ TargetsRight(w)

\* Threads of a grunt do not overlap.
Single == \A w \in Worker : /\ critical_error[w] => w \in MayFail
                            /\ thread[w][2] = "none"

DataTrue == \A m \in Manager : busy[m] = "BEGIN_IO" /\ ~data[m] => m = M

\* No thread, or one that gave up and only has to end.
Stray(w) == thread[w][1] = "none" \/ (critical_error[w] /\ thread[w][1] \in {"abandoned", "check"})

Rested(w) == ~not_ready[w] /\ Stray(w)

Opening(w) ==
    IF Plays(w)
    THEN /\ grunt_state[w] = "TestOpening"
         /\ IF not_ready[w]
            THEN thread[w][1] = IF critical_error[w] THEN "abandon" ELSE "open"
            ELSE IF critical_error[w] THEN Stray(w) ELSE thread[w][1] \in {"check", "io"}
    ELSE Rested(w)

Performing(w) ==
    IF Plays(w) /\ ~critical_error[w]
    THEN /\ grunt_state[w] \in {"TestRampingUp", "TestRecording", "TestRampingDown"}
         /\ ~not_ready[w] /\ thread[w][1] \in {"check", "io"}
    ELSE Rested(w)

Ending(w) ==
    IF Plays(w) /\ ~critical_error[w]
    THEN /\ grunt_state[w] = "TestIdle"
         /\ IF not_ready[w] THEN thread[w][1] \in {"check", "io", "close"}
            ELSE thread[w][1] = "none"
    ELSE Rested(w)

\* The round has passed the manager.
Passed(m) == m < next \/ (Replied /\ m = Current)

\* Where a grunt w of manager m is.
Place(m, w) ==
    /\ ~ActiveManager(m) => Rested(w)
    /\ stage \in PerWorker \cup {"ready"} => Rested(w)
    /\ stage = "START" /\ ActiveManager(m) => IF Passed(m) THEN Opening(w) ELSE Rested(w)
    /\ stage = "BEGIN_IO" /\ ActiveManager(m) =>
           IF Passed(m) \/ (busy[m] = "BEGIN_IO" /\ w \in begun[m])
           THEN Performing(w) ELSE Opening(w)
    /\ stage \in {"ramp", "RECORD_ON", "record", "RECORD_OFF"} /\ ActiveManager(m) =>
           Performing(w)
    /\ stage = "STOP" /\ ActiveManager(m) =>
           IF Passed(m) THEN Rested(w)
           ELSE IF busy[m] = "STOP" THEN Ending(w) ELSE Performing(w)
    /\ stage \in {"REPORT_RESULTS", "REPORT_UPDATE"} /\ ActiveManager(m) =>
           IF ending = "no" THEN Performing(w) ELSE Rested(w)

Places == \A w \in Worker : Place(ManagerOf[w], w)

PerManager(f) == f = [m \in Manager |-> f[m]]

Types ==
    /\ stage \in PerWorker \cup Broadcast \cup Pause
    /\ next \in Nat /\ waiting \in BOOLEAN
    /\ ending \in {"no", "success", "error", "abort"} /\ recording \in BOOLEAN
    /\ role \in [Worker -> {"io", "idle", "none", "benched"}]
    /\ PerManager(inbox)
    /\ busy \in [Manager -> {"no", "BEGIN_IO", "STOP"}]
    /\ begun \in [Manager -> SUBSET Worker] /\ data \in [Manager -> BOOLEAN]
    /\ \A m \in Manager : begun[m] \subseteq WorkersOf(m)
    /\ idle \in [Worker -> BOOLEAN] /\ targets \in [Worker -> BOOLEAN]
    /\ critical_error \in [Worker -> BOOLEAN] /\ not_ready \in [Worker -> BOOLEAN]
    /\ grunt_state \in [Worker -> {"TestIdle", "TestOpening", "TestRampingUp",
                                   "TestRecording", "TestRampingDown"}]
    /\ thread \in [Worker -> [{1, 2} -> UsesTargets \cup {"none", "abandoned", "check"}]]

IInv == /\ Types /\ Phases /\ Turns /\ Configured
        /\ Single /\ DataTrue /\ Places

-------------------------------------------------------------------------------
(* Numbers, recipients, and short sequences. *)

LEMMA Numbers ==
    /\ Worker \subseteq Nat /\ 0 \notin Worker /\ Manager \subseteq Nat /\ 0 \notin Manager
    /\ M \in Nat /\ \A m \in Manager : m <= M
    /\ \A w \in Worker : ManagerOf[w] \in Manager
  BY ControlAssumption DEF Worker, Manager

LEMMA Manned ==
    ASSUME NEW m
    PROVE  /\ WorkersOf(m) \subseteq Worker
           /\ \A w \in WorkersOf(m) : ManagerOf[w] = m
           /\ \A w \in Worker : ManagerOf[w] = m => w \in WorkersOf(m)
  BY DEF WorkersOf

\* First returns the first.
LEMMA FirstOf ==
    ASSUME NEW S \in SUBSET Nat, S # {}
    PROVE  First(S) \in S /\ \A x \in S : First(S) <= x
<1> DEFINE less == OpToRel(<, Nat)
<1>1. IsWellFoundedOn(less, Nat)
  BY NatLessThanWellFounded
<1>2. PICK x \in S : \A y \in S : <<y, x>> \notin less
  BY <1>1, WFMin
<1>3. \A y \in S : ~(y < x)
  BY <1>2 DEF OpToRel
<1>4. \A y \in S : x <= y
  BY <1>3
<1> QED
  BY <1>4 DEF First

\* Two messages in an inbox.
LEMMA Short ==
    ASSUME NEW a, NEW b
    PROVE  /\ Append(<<>>, a) = <<a>>
           /\ Head(<<a>>) = a /\ Tail(<<a>>) = <<>>
           /\ Head(<<a, b>>) = a /\ Tail(<<a, b>>) = <<b>>
           /\ <<a>> # <<>> /\ <<a, b>> # <<>> /\ <<a>>[1] = a
           /\ Len(<<a>>) = 1 /\ Len(<<a, b>>) = 2
  OBVIOUS

LEMMA AppendSecond ==
    ASSUME NEW S, NEW s \in Seq(S), NEW a \in S, NEW b \in S, Len(s) = 1, s[1] = a
    PROVE  Append(s, b) = <<a, b>>
<1>1. Append(s, b) \in Seq(S) /\ Append(s, b)[1] = a
  BY AppendProperties
<1>2. Len(Append(s, b)) = Len(s) + 1
  BY AppendProperties
<1>3. Append(s, b)[Len(s) + 1] = b
  BY AppendProperties
<1>4. <<a, b>> \in Seq(S) /\ Len(<<a, b>>) = 2 /\ <<a, b>>[1] = a /\ <<a, b>>[2] = b
  OBVIOUS
<1>5. ASSUME NEW t \in Seq(S), NEW u \in Seq(S), Len(t) = 2, Len(u) = 2,
             t[1] = u[1], t[2] = u[2]
      PROVE  t = u
  <2>1. \A i \in 1 .. 2 : i = 1 \/ i = 2
    OBVIOUS
  <2> QED
    BY <1>5, <2>1, SeqEqual
<1>6. Len(Append(s, b)) = 2 /\ Append(s, b)[2] = b
  BY <1>2, <1>3
<1> QED
  BY <1>1, <1>4, <1>5, <1>6

LEMMA AppendTo ==
    ASSUME NEW a, NEW b
    PROVE  Append(<<a>>, b) = <<a, b>>
<1> DEFINE S == {a, b}
           s == <<a>>
<1>1. s \in Seq(S) /\ a \in S /\ b \in S /\ Len(s) = 1 /\ s[1] = a
  OBVIOUS
<1> HIDE DEF S, s
<1>2. Append(s, b) = <<a, b>>
  BY <1>1, AppendSecond
<1> QED
  BY <1>2 DEF s

\* Workers and managers take their turns in order.
LEMMA Turn ==
    ASSUME Types, Recipients # {}
    PROVE  /\ Current \in Recipients /\ Current \in Nat
           /\ \A x \in Recipients : Current <= x
           /\ ~(Current < next)
           /\ stage \in PerWorker => Current \in Worker
           /\ stage \notin PerWorker => Current \in Manager /\ ActiveManager(Current)
           /\ Of(Current) \in Manager
<1>1. Recipients \in SUBSET Nat
  BY Numbers DEF Recipients
<1>2. Current \in Recipients /\ \A x \in Recipients : Current <= x
  BY <1>1, FirstOf DEF Current
<1>3. Current \in Nat /\ Current >= next
  BY <1>1, <1>2 DEF Recipients
<1>4. ~(Current < next)
  BY <1>3 DEF Types
<1>5. /\ stage \in PerWorker => Current \in Worker
      /\ stage \notin PerWorker => Current \in Manager /\ ActiveManager(Current)
  BY <1>2 DEF Recipients
<1> QED
  BY <1>2, <1>3, <1>4, <1>5, Numbers DEF Of

-------------------------------------------------------------------------------
(* What depends on what. *)

\* As long as Iometer does nothing, the message it sends is the same one.
LEMMA ViewStays ==
    ASSUME UNCHANGED view
    PROVE  /\ Recipients' = Recipients /\ Current' = Current /\ Message' = Message
           /\ \A m : ActiveManager(m)' <=> ActiveManager(m)
           /\ \A m : Spoken(m)' <=> Spoken(m)
           /\ \A m : Late(m)' <=> Late(m)
           /\ \A w : ActiveWorker(w)' <=> ActiveWorker(w)
<1>1. \A m : ActiveManager(m)' <=> ActiveManager(m)
  BY DEF view, ActiveManager
<1>2. Recipients' = Recipients
  BY <1>1 DEF view, Recipients
<1>3. Current' = Current
  BY <1>2 DEF Current
<1>4. Message' = Message
  BY <1>3 DEF Message, view
<1>5. \A m : Spoken(m)' <=> Spoken(m)
  BY <1>3 DEF Spoken, Of, view
<1>6. \A m : Late(m)' <=> Late(m)
  BY <1>1 DEF Late, view
<1>7. \A w : ActiveWorker(w)' <=> ActiveWorker(w)
  BY DEF view, ActiveWorker
<1> QED
  BY <1>1, <1>2, <1>3, <1>4, <1>5, <1>6, <1>7

\* A grunt's place is its own.
LEMMA GruntStays ==
    ASSUME NEW w, not_ready'[w] = not_ready[w], thread'[w] = thread[w],
           critical_error'[w] = critical_error[w]
    PROVE  /\ Rested(w)' <=> Rested(w)
           /\ grunt_state'[w] = grunt_state[w] /\ (Plays(w)' <=> Plays(w)) =>
                 /\ Opening(w)' <=> Opening(w)
                 /\ Performing(w)' <=> Performing(w)
                 /\ Ending(w)' <=> Ending(w)
<1>1. Stray(w)' <=> Stray(w)
  BY DEF Stray
<1>2. Rested(w)' <=> Rested(w)
  BY <1>1 DEF Rested
<1> QED
  BY <1>1, <1>2 DEF Opening, Performing, Ending

\* A grunt stays where it is as long as the round does not pass its manager.
LEMMA PlaceKept ==
    ASSUME NEW m, NEW w, stage' = stage, ending' = ending, role' = role,
           ActiveManager(m) /\ stage \in {"START", "BEGIN_IO", "STOP"} =>
               (Passed(m)' <=> Passed(m)),
           busy'[m] = busy[m], begun'[m] = begun[m],
           Rested(w) => Rested(w)', Opening(w) => Opening(w)',
           Performing(w) => Performing(w)', Ending(w) => Ending(w)',
           Place(m, w)
    PROVE  Place(m, w)'
<1>1. ActiveManager(m)' <=> ActiveManager(m)
  BY DEF ActiveManager
<1> QED
  BY <1>1 DEF Place, PerWorker

\* The place of a manager's grunt, as Iometer does nothing.
LEMMA PlaceStays ==
    ASSUME UNCHANGED view, NEW m, NEW w,
           stage \notin PerWorker => (Passed(m)' <=> Passed(m)),
           busy'[m] = busy[m], begun'[m] = begun[m],
           Rested(w) => Rested(w)', Opening(w) => Opening(w)',
           Performing(w) => Performing(w)', Ending(w) => Ending(w)',
           Place(m, w)
    PROVE  Place(m, w)'
<1>1. stage' = stage /\ ending' = ending /\ role' = role
  BY DEF view
<1>2. stage \in {"START", "BEGIN_IO", "STOP"} => stage \notin PerWorker
  BY DEF PerWorker
<1> QED
  BY <1>1, <1>2, PlaceKept

\* The conversation goes on when nobody says or reads anything.
LEMMA PhaseStays ==
    ASSUME UNCHANGED view, NEW m, inbox'[m] = inbox[m], busy'[m] = busy[m],
           Spoken(m) => reply' = reply, Phase(m)
    PROVE  Phase(m)'
<1>1. /\ Spoken(m)' <=> Spoken(m)
      /\ Late(m)' <=> Late(m)
      /\ Message' = Message /\ On(m)' = On(m)
  BY ViewStays DEF On
<1>2. \A r : Good(r, m)' <=> Good(r, m)
  BY ViewStays DEF Good, view
<1>3. Unread(m)' <=> Unread(m)
  BY <1>1 DEF Unread
<1>4. Spoken(m) => (Asked(m)' <=> Asked(m)) /\ (Working(m)' <=> Working(m))
  BY <1>1 DEF Asked, Working, view
<1>5. Spoken(m) => (Answered(m)' <=> Answered(m))
  BY <1>1, <1>2 DEF Answered
<1> QED
  BY <1>1, <1>3, <1>4, <1>5 DEF Phase

-------------------------------------------------------------------------------
(* What a manager does. *)

LEMMA OneSpoken ==
    ASSUME NEW m, NEW n, Spoken(m), Spoken(n)
    PROVE  m = n
  BY DEF Spoken

\* Reading a message changes the reader's inbox only.
LEMMA Reading ==
    ASSUME PerManager(inbox), NEW m \in Manager, NEW purpose, Takes(m, purpose)
    PROVE  /\ PerManager(inbox)' /\ inbox'[m] = Tail(inbox[m])
           /\ \A n \in Manager : n # m => inbox'[n] = inbox[n]
<1>1. inbox' = [inbox EXCEPT ![m] = Tail(inbox[m])]
  BY DEF Takes
<1>2. inbox' = [n \in Manager |-> IF n = m THEN Tail(inbox[m]) ELSE inbox[n]]
  BY <1>1 DEF PerManager
<1> QED
  BY <1>2 DEF PerManager

\* What a manager takes, other than RECORD_ON, is the message it is spoken to with.
LEMMA TakesSpoken ==
    ASSUME IInv, NEW m \in Manager, NEW purpose, purpose # "RECORD_ON", Takes(m, purpose)
    PROVE  /\ Spoken(m) /\ waiting /\ Recipients # {} /\ stage = purpose
           /\ Head(inbox[m]) = Message /\ inbox'[m] = <<>>
           /\ reply = <<>> /\ busy[m] = "no"
<1>1. inbox[m] # <<>> /\ Head(inbox[m]).purpose = purpose /\ busy[m] = "no"
  BY DEF Takes
<1>2. Phase(m) /\ PerManager(inbox)
  BY DEF IInv, Phases, Types
<1>3. inbox[m] # <<On(m)>>
  BY <1>1, Short DEF On
<1>4. Spoken(m) /\ Asked(m)
  BY <1>1, <1>2, <1>3 DEF Phase, Unread, Working, Answered
<1>5. inbox[m] # <<On(m), Message>>
  <2>1. Head(<<On(m), Message>>) = On(m)
    BY Short
  <2> QED
    BY <1>1, <2>1 DEF On
<1>6. inbox[m] = <<Message>> /\ reply = <<>>
  BY <1>4, <1>5 DEF Asked
<1>7. Head(inbox[m]) = Message /\ Tail(inbox[m]) = <<>>
  BY <1>6, Short
<1>8. stage = purpose
  BY <1>1, <1>7 DEF Message
<1>9. inbox'[m] = <<>>
  BY <1>2, <1>7, Reading
<1>10. waiting /\ Recipients # {}
  BY <1>4 DEF Spoken, IInv, Turns
<1> QED
  BY <1>1, <1>4, <1>6, <1>7, <1>8, <1>9, <1>10

\* In a broadcast it is the manager that the round has come to.
LEMMA SpokenIsCurrent ==
    ASSUME Types, Turns, NEW m \in Manager, Spoken(m), stage \notin PerWorker
    PROVE  /\ m = Current /\ ActiveManager(m) /\ ~(m < next) /\ stage \in Broadcast
           /\ reply = <<>> => ~Passed(m)
           /\ reply # <<>> => Passed(m)
<1>1. Recipients # {} /\ stage \in PerWorker \cup Broadcast /\ m = Current /\ waiting
  BY DEF Spoken, Turns, Of
<1> QED
  BY <1>1, Turn DEF Passed, Replied

\* A step of one manager and its grunts, outside of the set-up.
LEMMA ManagerStays ==
    ASSUME IInv, UNCHANGED <<view, setup>>, Types', stage \notin PerWorker,
           NEW m \in Manager, Spoken(m) \/ reply' = reply,
           \A n \in Manager : n # m => /\ inbox'[n] = inbox[n] /\ busy'[n] = busy[n]
                                       /\ begun'[n] = begun[n] /\ data'[n] = data[n],
           \A w \in Worker : ManagerOf[w] # m =>
               /\ not_ready'[w] = not_ready[w] /\ thread'[w] = thread[w]
               /\ critical_error'[w] = critical_error[w] /\ grunt_state'[w] = grunt_state[w],
           Phase(m)', busy'[m] = "BEGIN_IO" /\ ~data'[m] => m = M,
           \A w \in WorkersOf(m) : /\ Place(m, w)'
                                   /\ critical_error'[w] => w \in MayFail
                                   /\ thread'[w][2] = "none"
    PROVE  IInv'
<1> USE DEF IInv
<1>1. Phases'
  <2>1. ASSUME NEW n \in Manager, n # m  PROVE Phase(n)'
    <3>1. Spoken(n) => reply' = reply
      BY <2>1, OneSpoken
    <3> QED
      BY <2>1, <3>1, PhaseStays DEF Phases
  <2> QED
    BY <2>1 DEF Phases
<1>2. Turns'
  BY ViewStays DEF Turns, view, Spoken
<1>3. Configured'
  BY DEF Configured, view, setup, AccessRight, TargetsRight
<1>4. Single'
  BY Manned DEF Single
<1>5. DataTrue'
  BY DEF DataTrue
<1>6. Places'
  <2>1. ASSUME NEW w \in Worker, ManagerOf[w] # m  PROVE Place(ManagerOf[w], w)'
    <3>1. PICK n \in Manager : n = ManagerOf[w]
      BY Numbers
    <3>2. Plays(w)' <=> Plays(w)
      BY DEF Plays, setup
    <3>3. /\ Rested(w) => Rested(w)'
          /\ Opening(w) => Opening(w)'
          /\ Performing(w) => Performing(w)'
          /\ Ending(w) => Ending(w)'
      BY <2>1, <3>2, GruntStays
    <3>4. Passed(n)' <=> Passed(n)
      <4>1. CASE reply' = reply
        BY <4>1, ViewStays DEF Passed, Replied, view
      <4>2. CASE Spoken(m)
        <5>1. m = Current
          BY <4>2, SpokenIsCurrent
        <5> QED
          BY <2>1, <3>1, <5>1, ViewStays DEF Passed, view
      <4> QED
        BY <4>1, <4>2
    <3>5. Place(n, w)
      BY <3>1 DEF Places
    <3>6. Place(n, w)'
      BY <2>1, <3>1, <3>3, <3>4, <3>5, PlaceStays
    <3> QED
      BY <3>1, <3>6
  <2> QED
    BY <2>1, Manned DEF Places
<1> QED
  BY <1>1, <1>2, <1>3, <1>4, <1>5, <1>6

\* The manager's answer.
LEMMA Answering ==
    ASSUME NEW m \in Manager, NEW purpose, NEW ok \in BOOLEAN, Answers(m, purpose, ok)
    PROVE  /\ reply' # <<>> /\ reply' = <<reply'[1]>> /\ reply'[1].from = m
           /\ reply'[1].purpose = purpose /\ (reply'[1].data <=> ok)
           /\ reply'[1].results = {}
<1>1. PICK r : r = [from |-> m, purpose |-> purpose, data |-> ok, results |-> {}]
  OBVIOUS
<1>2. r.from = m /\ r.purpose = purpose /\ (r.data <=> ok) /\ r.results = {}
  BY <1>1
<1>3. reply' = <<r>>
  BY <1>1 DEF Answers
<1>4. reply' # <<>> /\ reply'[1] = r
  BY <1>3, Short
<1> QED
  BY <1>2, <1>3, <1>4

\* An answer to the message that the manager was spoken to with.
LEMMA AnswerPhase ==
    ASSUME UNCHANGED view, NEW m \in Manager, Spoken(m), inbox'[m] = <<>>, busy'[m] = "no",
           reply' # <<>>, reply' = <<reply'[1]>>,
           reply'[1].from = m, reply'[1].purpose = stage,
           ~reply'[1].data => stage \in PerWorker \/ (stage = "BEGIN_IO" /\ m = M),
           stage \in {"REPORT_RESULTS", "REPORT_UPDATE"} =>
               reply'[1].results = {w \in WorkersOf(m) : ActiveWorker(w)}
    PROVE  Phase(m)'
<1>1. Spoken(m)'
  BY ViewStays
<1>2. {w \in WorkersOf(m) : ActiveWorker(w)}' = {w \in WorkersOf(m) : ActiveWorker(w)}
  BY ViewStays DEF WorkersOf
<1>3. Good(reply[1], m)'
  BY <1>2 DEF Good, view, PerWorker
<1> QED
  BY <1>1, <1>3 DEF Phase, Answered

\* While tests are set up all grunts rest.
LEMMA SetUpRests ==
    ASSUME IInv, stage \in PerWorker \cup {"ready"}, NEW w \in Worker
    PROVE  Rested(w)
  BY DEF IInv, Places, Place

\* A worker is told its specification or its targets.
LEMMA WorkerTold ==
    ASSUME IInv, UNCHANGED <<view, control, flags, thread>>, stage \in PerWorker,
           NEW m \in Manager, Spoken(m), PerManager(inbox)', inbox'[m] = <<>>, busy[m] = "no",
           \A n \in Manager : n # m => inbox'[n] = inbox[n],
           NEW ok \in BOOLEAN, Answers(m, stage, ok),
           idle' \in [Worker -> BOOLEAN], targets' \in [Worker -> BOOLEAN],
           \A w \in Worker : w # Current => idle'[w] = idle[w] /\ targets'[w] = targets[w],
           stage = "SET_ACCESS" /\ ok => (idle'[Current] <=> role[Current] \in {"idle", "none"}),
           stage = "SET_TARGETS" =>
               /\ idle' = idle
               /\ ok => (targets'[Current] <=> role[Current] = "io")
    PROVE  IInv'
<1> USE DEF IInv
<1>1. Types'
  BY DEF Types, view, control, flags
<1>2. waiting /\ Recipients # {}
  BY DEF Spoken, Turns
<1>3. PICK c \in Worker : c = Current /\ ~(c < next)
  BY <1>2, Turn
<1>4. /\ reply' # <<>> /\ reply' = <<reply'[1]>> /\ reply'[1].from = m
      /\ reply'[1].purpose = stage /\ (reply'[1].data <=> ok)
  BY Answering
<1>5. Phases'
  <2>1. Phase(m)'
    BY <1>4, AnswerPhase DEF control, PerWorker
  <2>2. ASSUME NEW n \in Manager, n # m  PROVE Phase(n)'
    BY <2>2, OneSpoken, PhaseStays DEF Phases, control
  <2> QED
    BY <2>1, <2>2 DEF Phases
<1>6. Turns'
  BY <1>2, ViewStays DEF Turns, view
<1>7. \A w : Told(w)' => w < next \/ (w = c /\ ok)
  BY <1>3, <1>4, ViewStays DEF Told, Replied, view
<1>8. \A w \in Worker : w < next => w # c
  BY <1>3
<1>9. ASSUME stage = "SET_ACCESS", NEW w \in Worker, Told(w)'  PROVE AccessRight(w)'
  BY <1>3, <1>7, <1>8, <1>9 DEF Configured, AccessRight, Told, view
<1>10. ASSUME stage = "SET_TARGETS", NEW w \in Worker  PROVE AccessRight(w)'
  BY <1>10 DEF Configured, AccessRight, view
<1>11. ASSUME stage = "SET_TARGETS", NEW w \in Worker, Told(w)'  PROVE TargetsRight(w)'
  BY <1>3, <1>7, <1>8, <1>11 DEF Configured, TargetsRight, Told, view
<1>12. Configured'
  BY <1>9, <1>10, <1>11 DEF Configured, view, PerWorker
<1>13. Single' /\ DataTrue'
  BY DEF Single, DataTrue, flags, control
<1>14. Places'
  <2>1. ASSUME NEW w \in Worker  PROVE Rested(w)'
    BY SetUpRests, GruntStays DEF flags
  <2>2. ASSUME NEW w \in Worker  PROVE Place(ManagerOf[w], w)'
    BY <2>1 DEF Place, view, PerWorker
  <2> QED
    BY <2>2 DEF Places
<1> QED
  BY <1>1, <1>5, <1>6, <1>12, <1>13, <1>14

\* One flag of one worker.
LEMMA OneFlag ==
    ASSUME NEW f \in [Worker -> BOOLEAN], NEW c \in Worker, NEW b \in BOOLEAN,
           NEW g, g = [f EXCEPT ![c] = b]
    PROVE  g \in [Worker -> BOOLEAN] /\ g[c] = b /\ \A w \in Worker : w # c => g[w] = f[w]
  OBVIOUS

LEMMA SetAccessStep ==
    ASSUME IInv, NEW m \in Manager, Set_Access(m)
    PROVE  IInv'
<1> USE DEF IInv
<1>1. Takes(m, "SET_ACCESS") /\ UNCHANGED <<view, control, targets, flags, thread>>
  BY DEF Set_Access
<1>2. /\ Spoken(m) /\ waiting /\ Recipients # {} /\ stage = "SET_ACCESS"
      /\ Head(inbox[m]) = Message /\ inbox'[m] = <<>> /\ busy[m] = "no"
  BY <1>1, TakesSpoken
<1>3. PerManager(inbox)' /\ \A n \in Manager : n # m => inbox'[n] = inbox[n]
  BY <1>1, Reading DEF Types
<1>4. PICK c \in Worker : c = Current
  BY <1>2, Turn DEF PerWorker
<1>5. Head(inbox[m]).worker = c
  BY <1>2, <1>4 DEF Message
<1>6. PICK ok \in Granted :
          /\ idle' = [idle EXCEPT ![c] = role[c] \in {"idle", "none"}]
          /\ Answers(m, "SET_ACCESS", idle'[c] \/ ok)
  BY <1>5 DEF Set_Access
<1>7. /\ idle' \in [Worker -> BOOLEAN]
      /\ idle'[c] <=> role[c] \in {"idle", "none"}
      /\ \A w \in Worker : w # c => idle'[w] = idle[w]
  <2>1. idle \in [Worker -> BOOLEAN]
    BY DEF Types
  <2>2. (role[c] \in {"idle", "none"}) \in BOOLEAN
    OBVIOUS
  <2>3. /\ idle' \in [Worker -> BOOLEAN]
        /\ idle'[c] = (role[c] \in {"idle", "none"})
        /\ \A w \in Worker : w # c => idle'[w] = idle[w]
    BY <1>6, <2>1, <2>2, OneFlag
  <2> QED
    BY <2>3
<1>8. PICK b \in BOOLEAN : Answers(m, "SET_ACCESS", b)
  <2>1. (idle'[c] \/ ok) \in BOOLEAN
    OBVIOUS
  <2> QED
    BY <1>6, <2>1
<1>9. stage \in PerWorker /\ targets' = targets /\ targets' \in [Worker -> BOOLEAN]
  BY <1>1, <1>2 DEF PerWorker, Types
<1>10. UNCHANGED <<view, control, flags, thread>>
  BY <1>1
<1>11. stage # "SET_TARGETS" /\ Answers(m, stage, b)
  BY <1>2, <1>8
<1> QED
  BY <1>2, <1>3, <1>4, <1>7, <1>9, <1>10, <1>11, WorkerTold

LEMMA SetTargetsStep ==
    ASSUME IInv, NEW m \in Manager, Set_Targets(m)
    PROVE  IInv'
<1> USE DEF IInv
<1>1. Takes(m, "SET_TARGETS") /\ UNCHANGED <<view, control, idle, flags, thread>>
  BY DEF Set_Targets
<1>2. /\ Spoken(m) /\ waiting /\ Recipients # {} /\ stage = "SET_TARGETS"
      /\ Head(inbox[m]) = Message /\ inbox'[m] = <<>> /\ busy[m] = "no"
  BY <1>1, TakesSpoken
<1>3. PerManager(inbox)' /\ \A n \in Manager : n # m => inbox'[n] = inbox[n]
  BY <1>1, Reading DEF Types
<1>4. PICK c \in Worker : c = Current
  BY <1>2, Turn DEF PerWorker
<1>5. Head(inbox[m]).worker = c
  BY <1>2, <1>4 DEF Message
<1>6. \/ /\ targets' = [targets EXCEPT ![c] = role[c] = "io"]
         /\ Answers(m, "SET_TARGETS", TRUE)
      \/ /\ \E some \in BOOLEAN : targets' = [targets EXCEPT ![c] = some]
         /\ Answers(m, "SET_TARGETS", FALSE)
  BY <1>5 DEF Set_Targets
<1>7. PICK b \in BOOLEAN :
          /\ Answers(m, "SET_TARGETS", b)
          /\ b => targets' = [targets EXCEPT ![c] = role[c] = "io"]
          /\ \E some \in BOOLEAN : targets' = [targets EXCEPT ![c] = some]
  BY <1>6
<1>8. /\ targets' \in [Worker -> BOOLEAN]
      /\ \A w \in Worker : w # c => targets'[w] = targets[w]
  BY <1>7 DEF Types
<1>9. b => (targets'[c] <=> role[c] = "io")
  BY <1>7 DEF Types
<1>10. stage \in PerWorker /\ idle' = idle /\ idle' \in [Worker -> BOOLEAN]
  BY <1>1, <1>2 DEF PerWorker, Types
<1>11. UNCHANGED <<view, control, flags, thread>>
  BY <1>1
<1>12. stage # "SET_ACCESS" /\ Answers(m, stage, b)
  BY <1>2, <1>7
<1> QED
  BY <1>2, <1>3, <1>4, <1>8, <1>9, <1>10, <1>11, <1>12, WorkerTold

\* The common part of the steps by which a manager answers a broadcast.
LEMMA BroadcastTaken ==
    ASSUME IInv, NEW m \in Manager, NEW purpose \in Broadcast, purpose # "RECORD_ON",
           Takes(m, purpose), UNCHANGED view
    PROVE  /\ Spoken(m) /\ stage = purpose /\ stage \notin PerWorker
           /\ inbox'[m] = <<>> /\ PerManager(inbox)'
           /\ \A n \in Manager : n # m => inbox'[n] = inbox[n]
           /\ reply = <<>> /\ busy[m] = "no" /\ ActiveManager(m)
           /\ m = Current /\ m = Current' /\ ~Passed(m) /\ ActiveManager(m)'
           /\ reply' # <<>> => Passed(m)'
           /\ reply' = <<>> => ~Passed(m)'
<1> USE DEF IInv
<1>1. Spoken(m) /\ stage = purpose /\ inbox'[m] = <<>> /\ reply = <<>> /\ busy[m] = "no"
      /\ waiting
  BY TakesSpoken
<1>2. PerManager(inbox)' /\ \A n \in Manager : n # m => inbox'[n] = inbox[n]
  BY Reading DEF Types
<1>3. stage \notin PerWorker
  BY <1>1 DEF Broadcast, PerWorker
<1>4. ActiveManager(m) /\ m = Current /\ ~Passed(m) /\ ~(m < next)
  BY <1>1, <1>3, SpokenIsCurrent
<1>5. m = Current' /\ ActiveManager(m)'
  BY <1>4, ViewStays
<1>6. /\ reply' # <<>> => Passed(m)'
      /\ reply' = <<>> => ~Passed(m)'
  BY <1>1, <1>4, <1>5 DEF Passed, Replied, view
<1> QED
  BY <1>1, <1>2, <1>3, <1>4, <1>5, <1>6

\* The flags, the states and the threads of some of the workers.
LEMMA FlagsRaised ==
    ASSUME NEW f \in [Worker -> BOOLEAN], NEW S, NEW g,
           g = [w \in Worker |-> IF w \in S THEN TRUE ELSE f[w]]
    PROVE  /\ g \in [Worker -> BOOLEAN]
           /\ \A w \in Worker : w \in S => g[w]
           /\ \A w \in Worker : w \notin S => g[w] = f[w]
  OBVIOUS

LEMMA FlagsLowered ==
    ASSUME NEW f \in [Worker -> BOOLEAN], NEW S, NEW g,
           g = [w \in Worker |-> IF w \in S THEN FALSE ELSE f[w]]
    PROVE  /\ g \in [Worker -> BOOLEAN]
           /\ \A w \in Worker : w \in S => ~g[w]
           /\ \A w \in Worker : w \notin S => g[w] = f[w]
  OBVIOUS

GruntState == {"TestIdle", "TestOpening", "TestRampingUp", "TestRecording", "TestRampingDown"}

LEMMA StatesPut ==
    ASSUME NEW f \in [Worker -> GruntState], NEW S, NEW v \in GruntState, NEW g, g = Put(f, S, v)
    PROVE  /\ g \in [Worker -> GruntState]
           /\ \A w \in Worker : w \in S => g[w] = v
           /\ \A w \in Worker : w \notin S => g[w] = f[w]
  BY DEF Put

ThreadPlace == UsesTargets \cup {"none", "abandoned", "check"}

LEMMA FirstThread ==
    ASSUME NEW t \in [{1, 2} -> ThreadPlace], NEW p \in ThreadPlace,
           NEW u, u = [t EXCEPT ![1] = p]
    PROVE  u \in [{1, 2} -> ThreadPlace] /\ u[1] = p /\ u[2] = t[2]
  OBVIOUS

LEMMA GruntTypes ==
    ASSUME Types
    PROVE  /\ idle \in [Worker -> BOOLEAN] /\ targets \in [Worker -> BOOLEAN]
           /\ critical_error \in [Worker -> BOOLEAN] /\ not_ready \in [Worker -> BOOLEAN]
           /\ grunt_state \in [Worker -> GruntState]
           /\ thread \in [Worker -> [{1, 2} -> ThreadPlace]]
  BY DEF Types, GruntState, ThreadPlace

\* Threads are created where none is left.
LEMMA StartTestStep ==
    ASSUME Tame, IInv, NEW m \in Manager, Start_Test(m)
    PROVE  IInv'
<1> USE DEF IInv
<1> DEFINE S == {w \in WorkersOf(m) : Plays(w)}
<1>1. /\ Takes(m, "START") /\ UNCHANGED <<view, control, setup>>
      /\ Answers(m, "START", TRUE)
      /\ critical_error' = Put(critical_error, WorkersOf(m), FALSE)
      /\ not_ready' = Put(not_ready, S, TRUE)
      /\ grunt_state' = Put(grunt_state, S, "TestOpening")
      /\ thread' = [w \in Worker |->
                        IF w \in S THEN [thread[w] EXCEPT ![First(Free(w))] = "open"]
                        ELSE thread[w]]
  BY DEF Start_Test
<1>2. /\ Spoken(m) /\ stage = "START" /\ stage \notin PerWorker
      /\ inbox'[m] = <<>> /\ PerManager(inbox)'
      /\ \A n \in Manager : n # m => inbox'[n] = inbox[n]
      /\ busy[m] = "no" /\ ActiveManager(m) /\ ~Passed(m)
      /\ ActiveManager(m)'
      /\ reply' # <<>> => Passed(m)'
  <2>1. "START" \in Broadcast /\ "START" # "RECORD_ON"
    BY DEF Broadcast
  <2> QED
    BY <1>1, <2>1, BroadcastTaken
<1>3. /\ reply' # <<>> /\ reply' = <<reply'[1]>> /\ reply'[1].from = m
      /\ reply'[1].purpose = "START" /\ reply'[1].data
  BY <1>1, Answering
<1>4. ASSUME NEW w \in WorkersOf(m)
      PROVE  w \in Worker /\ ~not_ready[w] /\ thread[w][1] = "none" /\ First(Free(w)) = 1
  <2>1. w \in Worker /\ ManagerOf[w] = m
    BY Manned
  <2>2. Rested(w)
    BY <1>2, <2>1 DEF Places, Place
  <2>3. thread[w][1] \notin {"abandoned", "check"}
    BY DEF Tame, Start_Test
  <2>4. ~not_ready[w] /\ thread[w][1] = "none"
    BY <2>2, <2>3 DEF Rested, Stray
  <2>5. Free(w) \in SUBSET Nat /\ 1 \in Free(w) /\ Free(w) \subseteq {1, 2}
    BY <2>4 DEF Free
  <2>6. First(Free(w)) \in {1, 2} /\ First(Free(w)) <= 1
    BY <2>5, FirstOf
  <2> QED
    BY <2>1, <2>4, <2>6
<1>5. \A w \in Worker : thread[w] \in [{1, 2} -> ThreadPlace]
  BY GruntTypes
<1>6. \A w \in Worker : thread'[w] = IF w \in S THEN [thread[w] EXCEPT ![1] = "open"]
                                    ELSE thread[w]
  BY <1>1, <1>4
<1>7. ASSUME NEW w \in Worker
      PROVE  /\ thread'[w] \in [{1, 2} -> ThreadPlace] /\ thread'[w][2] = thread[w][2]
             /\ thread'[w][1] = IF w \in S THEN "open" ELSE thread[w][1]
  <2>1. "open" \in ThreadPlace
    BY DEF ThreadPlace, UsesTargets
  <2>2. CASE w \in S
    <3>1. thread'[w] = [thread[w] EXCEPT ![1] = "open"] /\ thread[w] \in [{1, 2} -> ThreadPlace]
      BY <1>5, <1>6, <2>2
    <3>2. /\ thread'[w] \in [{1, 2} -> ThreadPlace] /\ thread'[w][2] = thread[w][2]
          /\ thread'[w][1] = "open"
      BY <2>1, <3>1, FirstThread
    <3> QED
      BY <2>2, <3>2
  <2>3. CASE w \notin S
    BY <1>5, <1>6, <2>3
  <2> QED
    BY <2>2, <2>3
<1>8. /\ critical_error' \in [Worker -> BOOLEAN]
      /\ \A w \in Worker : w \in WorkersOf(m) => ~critical_error'[w]
      /\ \A w \in Worker : w \notin WorkersOf(m) => critical_error'[w] = critical_error[w]
  <2>1. critical_error \in [Worker -> BOOLEAN]
    BY GruntTypes
  <2>2. critical_error' = [w \in Worker |-> IF w \in WorkersOf(m) THEN FALSE ELSE critical_error[w]]
    BY <1>1 DEF Put
  <2> QED
    BY <2>1, <2>2, FlagsLowered
<1>16. /\ not_ready' \in [Worker -> BOOLEAN]
       /\ \A w \in Worker : w \in S => not_ready'[w]
       /\ \A w \in Worker : w \notin S => not_ready'[w] = not_ready[w]
  <2>1. not_ready \in [Worker -> BOOLEAN]
    BY GruntTypes
  <2>2. not_ready' = [w \in Worker |-> IF w \in S THEN TRUE ELSE not_ready[w]]
    BY <1>1 DEF Put
  <2> QED
    BY <2>1, <2>2, FlagsRaised
<1>9. /\ grunt_state' \in [Worker -> GruntState]
      /\ \A w \in Worker : w \in S => grunt_state'[w] = "TestOpening"
      /\ \A w \in Worker : w \notin S => grunt_state'[w] = grunt_state[w]
  <2>1. "TestOpening" \in GruntState
    BY DEF GruntState
  <2> QED
    BY <1>1, <2>1, GruntTypes, StatesPut
<1>15. Types'
  <2>1. thread' = [w \in Worker |-> thread'[w]]
    BY <1>1
  <2>2. thread' \in [Worker -> [{1, 2} -> ThreadPlace]]
    BY <1>7, <2>1
  <2> QED
    BY <1>1, <1>2, <1>8, <1>16, <1>9, <2>2 DEF Types, view, control, setup, GruntState, ThreadPlace
<1>10. Phase(m)'
  BY <1>1, <1>2, <1>3, AnswerPhase DEF control
<1>11. ASSUME NEW w \in WorkersOf(m)
       PROVE  Place(m, w)' /\ (critical_error'[w] => w \in MayFail) /\ thread'[w][2] = "none"
  <2>1. w \in Worker /\ (Plays(w)' <=> Plays(w))
    BY <1>1, <1>4 DEF Plays, setup
  <2>2. Opening(w)'
    <3>1. CASE Plays(w)
      <4>1. w \in S
        BY <3>1
      <4>2. ~critical_error'[w] /\ not_ready'[w]
        BY <1>8, <1>16, <2>1, <4>1
      <4>3. thread'[w][1] = "open"
        BY <1>7, <2>1, <4>1
      <4>4. grunt_state'[w] = "TestOpening"
        BY <1>9, <2>1, <4>1
      <4> QED
        BY <2>1, <3>1, <4>2, <4>3, <4>4 DEF Opening
    <3>2. CASE ~Plays(w)
      <4>1. w \notin S
        BY <3>2
      <4>2. ~not_ready'[w] /\ thread'[w][1] = "none"
        BY <1>4, <1>7, <1>16, <2>1, <4>1
      <4> QED
        BY <2>1, <3>2, <4>2 DEF Opening, Rested, Stray
    <3> QED
      BY <3>1, <3>2
  <2>3. Place(m, w)'
    <3>1. stage' = "START" /\ ActiveManager(m)' /\ Passed(m)'
      BY <1>1, <1>2, <1>3 DEF view
    <3> QED
      BY <2>2, <3>1 DEF Place, PerWorker
  <2>4. ~critical_error'[w]
    BY <1>8, <2>1
  <2>5. thread'[w][2] = "none"
    BY <1>7, <2>1 DEF Single
  <2> QED
    BY <2>3, <2>4, <2>5
<1>12. ASSUME NEW w \in Worker, ManagerOf[w] # m
       PROVE  /\ not_ready'[w] = not_ready[w] /\ thread'[w] = thread[w]
              /\ critical_error'[w] = critical_error[w] /\ grunt_state'[w] = grunt_state[w]
  <2>1. w \notin WorkersOf(m)
    BY <1>12, Manned
  <2> QED
    BY <1>6, <1>8, <1>9, <1>16, <2>1
<1>13. /\ UNCHANGED <<view, setup>>
       /\ \A n \in Manager : busy'[n] = busy[n] /\ begun'[n] = begun[n] /\ data'[n] = data[n]
  BY <1>1 DEF control
<1>14. busy'[m] # "BEGIN_IO"
  BY <1>2, <1>13
<1> HIDE DEF S, IInv
<1> QED
  BY <1>2, <1>10, <1>11, <1>12, <1>13, <1>14, <1>15, ManagerStays

BroadcastPurpose == {"START", "BEGIN_IO", "RECORD_OFF", "STOP", "REPORT_RESULTS", "REPORT_UPDATE"}

LEMMA BroadcastPurposes ==
    ASSUME NEW purpose \in BroadcastPurpose
    PROVE  purpose \in Broadcast /\ purpose # "RECORD_ON"
  BY DEF Broadcast, BroadcastPurpose

\* What a step of a manager leaves of a grunt that it does not touch.
LEMMA GruntKept ==
    ASSUME IInv, UNCHANGED <<flags, thread>>, NEW w \in Worker
    PROVE  /\ not_ready'[w] = not_ready[w] /\ thread'[w] = thread[w]
           /\ critical_error'[w] = critical_error[w] /\ grunt_state'[w] = grunt_state[w]
           /\ critical_error'[w] => w \in MayFail
           /\ thread'[w][2] = "none"
  BY DEF IInv, Single, flags

LEMMA LevelsKept ==
    ASSUME UNCHANGED <<setup, flags, thread>>, NEW w
    PROVE  /\ Rested(w)' <=> Rested(w)
           /\ Opening(w)' <=> Opening(w)
           /\ Performing(w)' <=> Performing(w)
           /\ Ending(w)' <=> Ending(w)
<1>1. /\ not_ready'[w] = not_ready[w] /\ thread'[w] = thread[w] /\ grunt_state'[w] = grunt_state[w]
      /\ critical_error'[w] = critical_error[w] /\ (Plays(w)' <=> Plays(w))
  BY DEF setup, flags, Plays
<1> QED
  BY <1>1, GruntStays

\* The manager turns to its grunts.
LEMMA BeginIOStep ==
    ASSUME IInv, NEW m \in Manager, Begin_IO(m)
    PROVE  IInv'
<1>1. /\ Takes(m, "BEGIN_IO") /\ UNCHANGED <<view, setup, flags, thread>> /\ reply' = reply
      /\ busy' = [busy EXCEPT ![m] = "BEGIN_IO"]
      /\ begun' = [begun EXCEPT ![m] = {}]
      /\ data' = [data EXCEPT ![m] = TRUE]
  BY DEF Begin_IO
<1>2. /\ Spoken(m) /\ stage = "BEGIN_IO" /\ stage \notin PerWorker
      /\ inbox'[m] = <<>> /\ PerManager(inbox)'
      /\ \A n \in Manager : n # m => inbox'[n] = inbox[n]
      /\ reply = <<>> /\ busy[m] = "no" /\ ActiveManager(m) /\ ~Passed(m)
      /\ ActiveManager(m)'
      /\ reply' = <<>> => ~Passed(m)'
  <2>1. "BEGIN_IO" \in Broadcast /\ "BEGIN_IO" # "RECORD_ON"
    BY BroadcastPurposes DEF BroadcastPurpose
  <2> QED
    BY <1>1, <2>1, BroadcastTaken
<1>3. Types'
  BY <1>1, <1>2 DEF IInv, Types, view, setup, flags
<1>4. /\ busy'[m] = "BEGIN_IO" /\ begun'[m] = {} /\ data'[m] = TRUE
      /\ \A n \in Manager : n # m => /\ busy'[n] = busy[n] /\ begun'[n] = begun[n]
                                     /\ data'[n] = data[n]
  BY <1>1 DEF IInv, Types
<1>5. Phase(m)'
  <2>1. Spoken(m)' /\ stage' = "BEGIN_IO" /\ reply' = <<>>
    BY <1>1, <1>2, ViewStays DEF view
  <2>2. Working(m)'
    BY <1>2, <1>4, <2>1 DEF Working
  <2> QED
    BY <2>1, <2>2 DEF Phase
<1>6. ASSUME NEW w \in WorkersOf(m)
      PROVE  Place(m, w)'
  <2>1. w \in Worker /\ ManagerOf[w] = m
    BY Manned
  <2>2. Opening(w)
    BY <1>2, <2>1 DEF IInv, Places, Place
  <2>3. Opening(w)'
    BY <1>1, <2>2, LevelsKept
  <2>4. stage' = "BEGIN_IO" /\ ActiveManager(m)' /\ ~Passed(m)' /\ w \notin begun'[m]
    BY <1>1, <1>2, <1>4 DEF view
  <2> QED
    BY <2>3, <2>4 DEF Place, PerWorker
<1>7. ASSUME NEW w \in Worker
      PROVE  /\ not_ready'[w] = not_ready[w] /\ thread'[w] = thread[w]
             /\ critical_error'[w] = critical_error[w] /\ grunt_state'[w] = grunt_state[w]
             /\ critical_error'[w] => w \in MayFail
             /\ thread'[w][2] = "none"
  BY <1>1, GruntKept
<1>8. ~(busy'[m] = "BEGIN_IO" /\ ~data'[m])
  BY <1>4
<1>9. UNCHANGED <<view, setup>>
  BY <1>1
<1> QED
  BY <1>2, <1>3, <1>4, <1>5, <1>6, <1>7, <1>8, <1>9, Manned, ManagerStays

\* A manager that works on a message works on the current one.
LEMMA AtWork ==
    ASSUME IInv, NEW m \in Manager, busy[m] # "no"
    PROVE  /\ Spoken(m) /\ stage = busy[m] /\ stage \in {"BEGIN_IO", "STOP"}
           /\ stage \notin PerWorker /\ inbox[m] = <<>> /\ reply = <<>> /\ waiting
           /\ ActiveManager(m) /\ ~Passed(m) /\ m = Current /\ ~(m < next)
<1>1. Phase(m)
  BY DEF IInv, Phases
<1>2. Spoken(m) /\ Working(m)
  BY <1>1 DEF Phase, Unread, Asked, Answered
<1>3. stage \notin PerWorker
  BY <1>2 DEF Working, PerWorker
<1> QED
  BY <1>2, <1>3, SpokenIsCurrent DEF Working, Spoken, IInv

LEMMA OneState ==
    ASSUME NEW f \in [Worker -> GruntState], NEW w \in Worker, NEW v \in GruntState,
           NEW g, g = [f EXCEPT ![w] = v]
    PROVE  g \in [Worker -> GruntState] /\ g[w] = v /\ \A u \in Worker : u # w => g[u] = f[u]
  OBVIOUS

\* The result of the round.
LEMMA DataOf ==
    ASSUME NEW d \in [Manager -> BOOLEAN], NEW m \in Manager, NEW b \in BOOLEAN,
           NEW e, e = [d EXCEPT ![m] = d[m] /\ ~b]
    PROVE  /\ e \in [Manager -> BOOLEAN]
           /\ ~e[m] => ~d[m] \/ b
           /\ \A n \in Manager : n # m => e[n] = d[n]
<1>1. PICK c \in BOOLEAN : c <=> d[m] /\ ~b
  OBVIOUS
<1>2. e = [d EXCEPT ![m] = c]
  BY <1>1
<1> QED
  BY <1>1, <1>2

\* The next grunt has opened its targets or failed to.
LEMMA BeginGruntStep ==
    ASSUME Tame, IInv, NEW m \in Manager, Begin_Grunt(m)
    PROVE  IInv'
<1>1. busy[m] = "BEGIN_IO" /\ begun[m] # WorkersOf(m)
  BY DEF Begin_Grunt
<1>2. /\ Spoken(m) /\ stage = "BEGIN_IO" /\ stage \notin PerWorker
      /\ inbox[m] = <<>> /\ reply = <<>> /\ ActiveManager(m) /\ ~Passed(m)
  BY <1>1, AtWork
<1>3. Types /\ begun[m] \subseteq WorkersOf(m)
  BY DEF IInv, Types
<1>4. \A u \in WorkersOf(m) : u \in Worker /\ ManagerOf[u] = m /\ Place(m, u)
  BY Manned DEF IInv, Places
<1>5. PICK w \in WorkersOf(m) \ begun[m] : w = First(WorkersOf(m) \ begun[m])
  <2>1. WorkersOf(m) \ begun[m] # {}
    BY <1>1, <1>3
  <2>2. WorkersOf(m) \ begun[m] \in SUBSET Nat
    BY <1>4, Numbers
  <2> QED
    BY <2>1, <2>2, FirstOf
<1>6. /\ Plays(w) => ~not_ready[w]
      /\ begun' = [begun EXCEPT ![m] = begun[m] \cup {w}]
      /\ data' = [data EXCEPT ![m] = data[m] /\ ~critical_error[w]]
      /\ grunt_state' = IF Plays(w) THEN [grunt_state EXCEPT ![w] = "TestRampingUp"]
                        ELSE grunt_state
      /\ UNCHANGED <<view, inbox, reply, busy, setup, critical_error, not_ready, thread>>
  BY <1>5 DEF Begin_Grunt, Opened
<1>7. /\ begun' \in [Manager -> SUBSET Worker] /\ begun'[m] = begun[m] \cup {w}
      /\ \A n \in Manager : n # m => begun'[n] = begun[n]
  BY <1>3, <1>4, <1>6 DEF Types
<1>8. /\ data' \in [Manager -> BOOLEAN]
      /\ ~data'[m] => ~data[m] \/ critical_error[w]
      /\ \A n \in Manager : n # m => data'[n] = data[n]
  <2>1. PICK b \in BOOLEAN : b = critical_error[w]
    BY <1>3, <1>4, GruntTypes
  <2>2. data \in [Manager -> BOOLEAN] /\ data' = [data EXCEPT ![m] = data[m] /\ ~b]
    BY <1>3, <1>6, <2>1 DEF Types
  <2>3. /\ data' \in [Manager -> BOOLEAN]
        /\ ~data'[m] => ~data[m] \/ b
        /\ \A n \in Manager : n # m => data'[n] = data[n]
    BY <2>2, DataOf
  <2> QED
    BY <2>1, <2>3
<1>9. /\ grunt_state' \in [Worker -> GruntState]
      /\ Plays(w) => grunt_state'[w] = "TestRampingUp"
      /\ \A u \in Worker : u # w => grunt_state'[u] = grunt_state[u]
  <2>1. grunt_state \in [Worker -> GruntState] /\ "TestRampingUp" \in GruntState
    BY <1>3, GruntTypes DEF GruntState
  <2>2. CASE Plays(w)
    BY <1>4, <1>6, <2>1, <2>2, OneState
  <2>3. CASE ~Plays(w)
    BY <1>6, <2>1, <2>3
  <2> QED
    BY <2>2, <2>3
<1>10. Types'
  <2>1. \A n \in Manager : begun'[n] \subseteq WorkersOf(n)
    BY <1>3, <1>7 DEF Types
  <2> QED
    BY <1>3, <1>6, <1>7, <1>8, <1>9, <2>1 DEF Types, view, setup, GruntState, PerManager
<1>11. Phase(m)'
  BY <1>6, PhaseStays DEF IInv, Phases
<1>12. ASSUME NEW u \in Worker
       PROVE  /\ not_ready'[u] = not_ready[u] /\ thread'[u] = thread[u]
              /\ critical_error'[u] = critical_error[u] /\ (Plays(u)' <=> Plays(u))
              /\ critical_error'[u] => u \in MayFail
              /\ thread'[u][2] = "none"
  BY <1>6 DEF IInv, Single, setup, Plays
<1>13. /\ stage' = "BEGIN_IO" /\ busy'[m] = "BEGIN_IO" /\ ActiveManager(m)'
       /\ Passed(m)' <=> Passed(m)
  BY <1>1, <1>2, <1>6, ViewStays DEF view, Passed, Replied
<1>14. Opening(w)
  BY <1>1, <1>2, <1>4, <1>5 DEF Place
<1>15. Performing(w)'
  <2>1. CASE Plays(w) /\ ~critical_error[w]
    BY <1>4, <1>5, <1>6, <1>9, <1>12, <1>14, <2>1 DEF Opening, Performing
  <2>2. CASE ~(Plays(w) /\ ~critical_error[w])
    <3>1. Rested(w)
      BY <1>6, <1>14, <2>2 DEF Opening, Rested
    <3>2. Rested(w)'
      BY <1>4, <1>5, <1>12, <3>1, GruntStays
    <3> QED
      BY <1>4, <1>5, <1>12, <2>2, <3>2 DEF Performing
  <2> QED
    BY <2>1, <2>2
<1>16. ASSUME NEW u \in WorkersOf(m)
       PROVE  Place(m, u)'
  <2>1. CASE u = w
    BY <1>7, <1>13, <1>15, <2>1 DEF Place, PerWorker
  <2>2. CASE u # w
    <3>1. /\ u \in begun'[m] <=> u \in begun[m]
          /\ grunt_state'[u] = grunt_state[u]
      BY <1>4, <1>7, <1>9, <2>2
    <3>2. (Opening(u)' <=> Opening(u)) /\ (Performing(u)' <=> Performing(u))
      BY <1>4, <1>12, <3>1, GruntStays
    <3>3. IF u \in begun[m] THEN Performing(u) ELSE Opening(u)
      BY <1>1, <1>2, <1>4 DEF Place
    <3> QED
      BY <1>2, <1>13, <3>1, <3>2, <3>3 DEF Place, PerWorker
  <2> QED
    BY <2>1, <2>2
<1>17. busy'[m] = "BEGIN_IO" /\ ~data'[m] => m = M
  <2>1. critical_error[w] => w \in MayFail
    BY <1>4 DEF IInv, Single
  <2>2. w \in MayFail => m = M
    BY <1>4 DEF Tame
  <2>3. ~data[m] => m = M
    BY <1>1 DEF IInv, DataTrue
  <2> QED
    BY <1>8, <2>1, <2>2, <2>3
<1>18. ASSUME NEW u \in Worker, ManagerOf[u] # m
       PROVE  grunt_state'[u] = grunt_state[u]
  BY <1>4, <1>9, <1>18
<1>19. UNCHANGED <<view, setup>> /\ reply' = reply /\ UNCHANGED <<inbox, busy>>
  BY <1>6
<1> QED
  BY <1>2, <1>4, <1>7, <1>8, <1>10, <1>11, <1>12, <1>16, <1>17, <1>18, <1>19, ManagerStays

\* The end of a command that the manager worked on with its grunts.
LEMMA WorkDone ==
    ASSUME IInv, NEW m \in Manager, busy[m] # "no", busy' = [busy EXCEPT ![m] = "no"],
           NEW ok \in BOOLEAN, Answers(m, busy[m], ok), ~ok => stage = "BEGIN_IO" /\ m = M,
           UNCHANGED <<view, inbox, begun, data, setup, flags, thread>>,
           \A w \in WorkersOf(m) : IF stage = "BEGIN_IO" THEN Performing(w) ELSE Rested(w)
    PROVE  IInv'
<1>1. /\ Spoken(m) /\ stage = busy[m] /\ stage \in {"BEGIN_IO", "STOP"}
      /\ stage \notin PerWorker /\ inbox[m] = <<>> /\ waiting
      /\ ActiveManager(m) /\ m = Current
  BY AtWork
<1>2. /\ reply' # <<>> /\ reply' = <<reply'[1]>> /\ reply'[1].from = m
      /\ reply'[1].purpose = stage /\ (reply'[1].data <=> ok)
  BY <1>1, Answering
<1>3. Types /\ busy'[m] = "no" /\ \A n \in Manager : n # m => busy'[n] = busy[n]
  BY DEF IInv, Types
<1>4. Types'
  BY <1>3 DEF Types, view, setup, flags, PerManager
<1>5. Phase(m)'
  BY <1>1, <1>2, <1>3, AnswerPhase
<1>6. /\ stage' = stage /\ ActiveManager(m)' /\ Passed(m)'
  BY <1>1, <1>2, ViewStays DEF view, Passed, Replied
<1>7. ASSUME NEW w \in WorkersOf(m)
      PROVE  Place(m, w)'
  <2>1. IF stage = "BEGIN_IO" THEN Performing(w)' ELSE Rested(w)'
    BY LevelsKept
  <2> QED
    BY <1>1, <1>6, <2>1 DEF Place, PerWorker
<1>8. ASSUME NEW w \in Worker
      PROVE  /\ not_ready'[w] = not_ready[w] /\ thread'[w] = thread[w]
             /\ critical_error'[w] = critical_error[w] /\ grunt_state'[w] = grunt_state[w]
             /\ critical_error'[w] => w \in MayFail
             /\ thread'[w][2] = "none"
  BY GruntKept
<1>9. UNCHANGED <<view, setup>> /\ UNCHANGED <<inbox, begun, data>>
  OBVIOUS
<1> QED
  BY <1>1, <1>3, <1>4, <1>5, <1>7, <1>8, <1>9, Manned, ManagerStays

LEMMA BegunIOStep ==
    ASSUME IInv, NEW m \in Manager, Begun_IO(m)
    PROVE  IInv'
<1>1. /\ busy[m] = "BEGIN_IO" /\ begun[m] = WorkersOf(m)
      /\ busy' = [busy EXCEPT ![m] = "no"]
      /\ Answers(m, "BEGIN_IO", data[m])
      /\ UNCHANGED <<view, inbox, begun, data, setup, flags, thread>>
  BY DEF Begun_IO
<1>2. stage = "BEGIN_IO" /\ ActiveManager(m) /\ stage \notin PerWorker
  BY <1>1, AtWork
<1>3. PICK b \in BOOLEAN : b = data[m]
  BY DEF IInv, Types
<1>4. Answers(m, busy[m], b)
  BY <1>1, <1>3
<1>5. ~b => stage = "BEGIN_IO" /\ m = M
  BY <1>1, <1>2, <1>3 DEF IInv, DataTrue
<1>6. ASSUME NEW w \in WorkersOf(m)  PROVE Performing(w)
  <2>1. Place(m, w)
    BY Manned DEF IInv, Places
  <2> QED
    BY <1>1, <1>2, <2>1 DEF Place
<1> QED
  BY <1>1, <1>2, <1>4, <1>5, <1>6, WorkDone

LEMMA WaitForStopStep ==
    ASSUME IInv, NEW m \in Manager, Wait_For_Stop(m)
    PROVE  IInv'
<1>1. /\ busy[m] = "STOP" /\ \A w \in WorkersOf(m) : Plays(w) => ~not_ready[w]
      /\ busy' = [busy EXCEPT ![m] = "no"]
      /\ Answers(m, "STOP", TRUE)
      /\ UNCHANGED <<view, inbox, begun, data, setup, flags, thread>>
  BY DEF Wait_For_Stop
<1>2. stage = "STOP" /\ ActiveManager(m) /\ ~Passed(m) /\ stage \notin PerWorker
  BY <1>1, AtWork
<1>3. Answers(m, busy[m], TRUE)
  BY <1>1
<1>4. ASSUME NEW w \in WorkersOf(m)  PROVE Rested(w)
  <2>1. Place(m, w)
    BY Manned DEF IInv, Places
  <2>2. Ending(w)
    BY <1>1, <1>2, <2>1 DEF Place
  <2> QED
    BY <1>1, <2>2 DEF Ending, Rested, Stray
<1> QED
  BY <1>1, <1>2, <1>3, <1>4, WorkDone

\* The manager reports the grunts that play, which are those Iometer counts on.
LEMMA ReportStep ==
    ASSUME IInv, NEW m \in Manager, NEW purpose \in {"REPORT_RESULTS", "REPORT_UPDATE"},
           Report_Results(m, purpose)
    PROVE  IInv'
<1>1. /\ Takes(m, purpose)
      /\ reply' = <<[from |-> m, purpose |-> purpose, data |-> TRUE,
                     results |-> {w \in WorkersOf(m) : Plays(w)}]>>
      /\ UNCHANGED <<view, control, setup, flags, thread>>
  BY DEF Report_Results
<1>2. /\ Spoken(m) /\ stage = purpose /\ stage \notin PerWorker
      /\ inbox'[m] = <<>> /\ PerManager(inbox)'
      /\ \A n \in Manager : n # m => inbox'[n] = inbox[n]
      /\ reply = <<>> /\ busy[m] = "no" /\ ActiveManager(m)
  <2>1. purpose \in Broadcast /\ purpose # "RECORD_ON"
    BY BroadcastPurposes DEF BroadcastPurpose
  <2> QED
    BY <1>1, <2>1, BroadcastTaken
<1>3. {w \in WorkersOf(m) : Plays(w)} = {w \in WorkersOf(m) : ActiveWorker(w)}
  <2>1. \A w \in Worker : AccessRight(w) /\ TargetsRight(w)
    BY <1>2 DEF IInv, Configured
  <2>2. \A w \in Worker : Plays(w) <=> ActiveWorker(w)
    BY <2>1 DEF AccessRight, TargetsRight, Plays, ActiveWorker
  <2> QED
    BY <2>2, Manned
<1>4. /\ reply' # <<>> /\ reply' = <<reply'[1]>> /\ reply'[1].from = m
      /\ reply'[1].purpose = purpose /\ reply'[1].data
      /\ reply'[1].results = {w \in WorkersOf(m) : ActiveWorker(w)}
  <2>1. PICK r : r = [from |-> m, purpose |-> purpose, data |-> TRUE,
                      results |-> {w \in WorkersOf(m) : Plays(w)}]
    OBVIOUS
  <2>2. reply' = <<r>> /\ reply' # <<>> /\ reply'[1] = r
    BY <1>1, <2>1, Short
  <2> QED
    BY <1>3, <2>1, <2>2
<1>5. Types'
  BY <1>1, <1>2 DEF IInv, Types, view, control, setup, flags
<1>6. Phase(m)'
  BY <1>1, <1>2, <1>4, AnswerPhase DEF control
<1>7. ASSUME NEW w \in WorkersOf(m)
      PROVE  Place(m, w)'
  <2>1. Place(m, w)
    BY Manned DEF IInv, Places
  <2>2. IF ending = "no" THEN Performing(w) ELSE Rested(w)
    BY <1>2, <2>1 DEF Place
  <2>3. IF ending = "no" THEN Performing(w)' ELSE Rested(w)'
    BY <1>1, <2>2, LevelsKept
  <2>4. stage' = purpose /\ ending' = ending /\ ActiveManager(m)'
    BY <1>1, <1>2, ViewStays DEF view
  <2> QED
    BY <2>3, <2>4 DEF Place, PerWorker
<1>8. ASSUME NEW w \in Worker
      PROVE  /\ not_ready'[w] = not_ready[w] /\ thread'[w] = thread[w]
             /\ critical_error'[w] = critical_error[w] /\ grunt_state'[w] = grunt_state[w]
             /\ critical_error'[w] => w \in MayFail
             /\ thread'[w][2] = "none"
  BY <1>1, GruntKept
<1>9. UNCHANGED <<view, setup>> /\ UNCHANGED <<busy, begun, data>>
  BY <1>1 DEF control
<1>10. busy'[m] # "BEGIN_IO"
  BY <1>2, <1>9
<1> QED
  BY <1>2, <1>5, <1>6, <1>7, <1>8, <1>9, <1>10, Manned, ManagerStays

\* RECORD_ON is read late, perhaps in front of the message that follows it.
LEMMA TakesOn ==
    ASSUME IInv, NEW m \in Manager, Takes(m, "RECORD_ON")
    PROVE  /\ Late(m) /\ busy[m] = "no"
           /\ IF Spoken(m) THEN inbox'[m] = <<Message>> /\ reply = <<>> ELSE inbox'[m] = <<>>
<1>1. inbox[m] # <<>> /\ Head(inbox[m]).purpose = "RECORD_ON" /\ busy[m] = "no"
  BY DEF Takes
<1>2. Phase(m) /\ inbox'[m] = Tail(inbox[m])
  BY Reading DEF IInv, Phases, Types
<1>3. CASE Spoken(m)
  <2>1. stage # "RECORD_ON"
    BY <1>3 DEF IInv, Turns, Spoken
  <2>2. Asked(m)
    BY <1>1, <1>2, <1>3 DEF Phase, Working, Answered
  <2>3. inbox[m] # <<Message>>
    BY <1>1, <2>1, Short DEF Message
  <2>4. Late(m) /\ inbox[m] = <<On(m), Message>> /\ reply = <<>>
    BY <2>2, <2>3 DEF Asked
  <2>5. inbox'[m] = <<Message>>
    BY <1>2, <2>4, Short
  <2> QED
    BY <1>1, <1>3, <2>4, <2>5
<1>4. CASE ~Spoken(m)
  <2>1. Late(m) /\ inbox[m] = <<On(m)>>
    BY <1>1, <1>2, <1>4 DEF Phase, Unread
  <2>2. inbox'[m] = <<>>
    BY <1>2, <2>1, Short
  <2> QED
    BY <1>1, <1>4, <2>1, <2>2
<1> QED
  BY <1>3, <1>4

\* Recording is switched while grunts perform.
LEMMA Recorded ==
    ASSUME IInv, NEW m \in Manager, NEW v \in {"TestRecording", "TestRampingDown"},
           grunt_state' = Put(grunt_state, Running(m), v),
           UNCHANGED <<setup, critical_error, not_ready, thread>>
    PROVE  /\ grunt_state' \in [Worker -> GruntState]
           /\ \A w \in Worker : ManagerOf[w] # m => grunt_state'[w] = grunt_state[w]
           /\ \A w \in WorkersOf(m) : Performing(w) => Performing(w)'
<1>1. grunt_state \in [Worker -> GruntState] /\ v \in GruntState
  BY GruntTypes DEF IInv, GruntState
<1>2. /\ grunt_state' \in [Worker -> GruntState]
      /\ \A w \in Worker : w \in Running(m) => grunt_state'[w] = v
      /\ \A w \in Worker : w \notin Running(m) => grunt_state'[w] = grunt_state[w]
  BY <1>1, StatesPut
<1>3. \A w : w \in Running(m) <=> w \in WorkersOf(m) /\ Plays(w) /\ ~critical_error[w]
  BY DEF Running
<1>4. ASSUME NEW w \in WorkersOf(m), Performing(w)
      PROVE  Performing(w)'
  <2>1. /\ w \in Worker /\ (Plays(w)' <=> Plays(w)) /\ not_ready'[w] = not_ready[w]
        /\ thread'[w] = thread[w] /\ critical_error'[w] = critical_error[w]
    BY Manned DEF setup, Plays
  <2>2. CASE Plays(w) /\ ~critical_error[w]
    <3>1. grunt_state'[w] = v
      BY <1>2, <1>3, <2>1, <2>2
    <3> QED
      BY <1>4, <2>1, <2>2, <3>1 DEF Performing
  <2>3. CASE ~(Plays(w) /\ ~critical_error[w])
    <3>1. Rested(w)'
      BY <1>4, <2>1, <2>3, GruntStays DEF Performing
    <3> QED
      BY <2>1, <2>3, <3>1 DEF Performing
  <2> QED
    BY <2>2, <2>3
<1>5. \A w \in Worker : ManagerOf[w] # m => w \notin Running(m)
  BY <1>3, Manned
<1> QED
  BY <1>2, <1>4, <1>5

\* Both switches keep the invariant.
LEMMA RecordStep ==
    ASSUME IInv, NEW m \in Manager, NEW v \in {"TestRecording", "TestRampingDown"},
           grunt_state' = Put(grunt_state, Running(m), v),
           UNCHANGED <<view, control, setup, critical_error, not_ready, thread>>,
           PerManager(inbox)', \A n \in Manager : n # m => inbox'[n] = inbox[n],
           Spoken(m) \/ reply' = reply, Phase(m)', ActiveManager(m), busy[m] = "no",
           \/ stage \in {"RECORD_ON", "record", "RECORD_OFF"}
           \/ stage = "REPORT_RESULTS" /\ ending = "no"
    PROVE  IInv'
<1>1. /\ grunt_state' \in [Worker -> GruntState]
      /\ \A w \in Worker : ManagerOf[w] # m => grunt_state'[w] = grunt_state[w]
      /\ \A w \in WorkersOf(m) : Performing(w) => Performing(w)'
  BY Recorded
<1>2. Types'
  BY <1>1 DEF IInv, Types, view, control, setup, GruntState
<1>3. stage' = stage /\ ending' = ending /\ (ActiveManager(m)' <=> ActiveManager(m))
  BY ViewStays DEF view
<1>4. ASSUME NEW w \in WorkersOf(m)
      PROVE  Place(m, w)'
  <2>1. Place(m, w)
    BY Manned DEF IInv, Places
  <2>2. Performing(w)
    BY <2>1 DEF Place
  <2>3. Performing(w)'
    BY <1>1, <2>2
  <2> QED
    BY <1>3, <2>3 DEF Place, PerWorker
<1>5. ASSUME NEW w \in Worker
      PROVE  /\ not_ready'[w] = not_ready[w] /\ thread'[w] = thread[w]
             /\ critical_error'[w] = critical_error[w]
             /\ critical_error'[w] => w \in MayFail
             /\ thread'[w][2] = "none"
  BY DEF IInv, Single
<1>6. UNCHANGED <<view, setup>> /\ UNCHANGED <<busy, begun, data>>
  BY DEF control
<1>7. stage \notin PerWorker /\ busy'[m] # "BEGIN_IO"
  BY <1>6 DEF PerWorker
<1> QED
  BY <1>1, <1>2, <1>4, <1>5, <1>6, <1>7, Manned, ManagerStays

LEMMA RecordOnStep ==
    ASSUME IInv, NEW m \in Manager, Record_On(m)
    PROVE  IInv'
<1>1. /\ Takes(m, "RECORD_ON") /\ grunt_state' = Put(grunt_state, Running(m), "TestRecording")
      /\ UNCHANGED <<view, control, setup, critical_error, not_ready, thread>> /\ reply' = reply
  BY DEF Record_On
<1>2. /\ Late(m) /\ busy[m] = "no"
      /\ IF Spoken(m) THEN inbox'[m] = <<Message>> /\ reply = <<>> ELSE inbox'[m] = <<>>
  BY <1>1, TakesOn
<1>3. PerManager(inbox)' /\ \A n \in Manager : n # m => inbox'[n] = inbox[n]
  BY <1>1, Reading DEF IInv, Types
<1>4. Phase(m)'
  <2>1. busy'[m] = "no" /\ (Spoken(m)' <=> Spoken(m)) /\ Message' = Message
    BY <1>1, <1>2, ViewStays DEF control
  <2>2. CASE Spoken(m)
    <3>1. Asked(m)'
      BY <1>1, <1>2, <2>1, <2>2 DEF Asked
    <3> QED
      BY <2>1, <2>2, <3>1 DEF Phase
  <2>3. CASE ~Spoken(m)
    <3>1. Unread(m)'
      BY <1>1, <1>2, <2>1, <2>3 DEF Unread
    <3> QED
      BY <2>1, <2>3, <3>1 DEF Phase
  <2> QED
    BY <2>2, <2>3
<1>5. /\ ActiveManager(m)
      /\ \/ stage \in {"RECORD_ON", "record", "RECORD_OFF"}
         \/ stage = "REPORT_RESULTS" /\ ending = "no"
  BY <1>2 DEF Late
<1> QED
  BY <1>1, <1>2, <1>3, <1>4, <1>5, RecordStep

LEMMA RecordOffStep ==
    ASSUME IInv, NEW m \in Manager, Record_Off(m)
    PROVE  IInv'
<1>1. /\ Takes(m, "RECORD_OFF") /\ Answers(m, "RECORD_OFF", TRUE)
      /\ grunt_state' = Put(grunt_state, Running(m), "TestRampingDown")
      /\ UNCHANGED <<view, control, setup, critical_error, not_ready, thread>>
  BY DEF Record_Off
<1>2. /\ Spoken(m) /\ stage = "RECORD_OFF" /\ inbox'[m] = <<>> /\ PerManager(inbox)'
      /\ \A n \in Manager : n # m => inbox'[n] = inbox[n]
      /\ busy[m] = "no" /\ ActiveManager(m)
  <2>1. "RECORD_OFF" \in Broadcast /\ "RECORD_OFF" # "RECORD_ON"
    BY BroadcastPurposes DEF BroadcastPurpose
  <2> QED
    BY <1>1, <2>1, BroadcastTaken
<1>3. /\ reply' # <<>> /\ reply' = <<reply'[1]>> /\ reply'[1].from = m
      /\ reply'[1].purpose = stage /\ reply'[1].data
  BY <1>1, <1>2, Answering
<1>4. Phase(m)'
  BY <1>1, <1>2, <1>3, AnswerPhase DEF control
<1> QED
  BY <1>1, <1>2, <1>4, RecordStep

\* The threads are told to stop.
LEMMA StopTestStep ==
    ASSUME IInv, NEW m \in Manager, Stop_Test(m)
    PROVE  IInv'
<1>1. /\ Takes(m, "STOP") /\ UNCHANGED <<view, setup, critical_error, thread>>
      /\ UNCHANGED <<reply, begun, data>>
      /\ grunt_state' = Put(grunt_state, Running(m), "TestIdle")
      /\ not_ready' = Put(not_ready, Running(m), TRUE)
      /\ busy' = [busy EXCEPT ![m] = "STOP"]
  BY DEF Stop_Test
<1>2. /\ Spoken(m) /\ stage = "STOP" /\ stage \notin PerWorker
      /\ inbox'[m] = <<>> /\ PerManager(inbox)'
      /\ \A n \in Manager : n # m => inbox'[n] = inbox[n]
      /\ reply = <<>> /\ busy[m] = "no" /\ ActiveManager(m) /\ ~Passed(m)
      /\ ActiveManager(m)'
      /\ reply' = <<>> => ~Passed(m)'
  <2>1. "STOP" \in Broadcast /\ "STOP" # "RECORD_ON"
    BY BroadcastPurposes DEF BroadcastPurpose
  <2> QED
    BY <1>1, <2>1, BroadcastTaken
<1>3. /\ Types /\ busy' \in [Manager -> {"no", "BEGIN_IO", "STOP"}]
      /\ busy'[m] = "STOP" /\ \A n \in Manager : n # m => busy'[n] = busy[n]
  BY <1>1 DEF IInv, Types
<1>4. /\ grunt_state' \in [Worker -> GruntState]
      /\ \A w \in Worker : w \in Running(m) => grunt_state'[w] = "TestIdle"
      /\ \A w \in Worker : w \notin Running(m) => grunt_state'[w] = grunt_state[w]
  <2>1. grunt_state \in [Worker -> GruntState] /\ "TestIdle" \in GruntState
    BY <1>3, GruntTypes DEF GruntState
  <2> QED
    BY <1>1, <2>1, StatesPut
<1>5. /\ not_ready' \in [Worker -> BOOLEAN]
      /\ \A w \in Worker : w \in Running(m) => not_ready'[w]
      /\ \A w \in Worker : w \notin Running(m) => not_ready'[w] = not_ready[w]
  <2>1. not_ready \in [Worker -> BOOLEAN]
    BY <1>3, GruntTypes
  <2>2. not_ready' = [w \in Worker |-> IF w \in Running(m) THEN TRUE ELSE not_ready[w]]
    BY <1>1 DEF Put
  <2> QED
    BY <2>1, <2>2, FlagsRaised
<1>6. Types'
  BY <1>1, <1>2, <1>3, <1>4, <1>5 DEF Types, view, setup, GruntState
<1>7. Phase(m)'
  <2>1. Spoken(m)' /\ stage' = "STOP" /\ reply' = <<>>
    BY <1>1, <1>2, ViewStays DEF view
  <2>2. Working(m)'
    BY <1>2, <1>3, <2>1 DEF Working
  <2> QED
    BY <2>1, <2>2 DEF Phase
<1>8. \A w : w \in Running(m) <=> w \in WorkersOf(m) /\ Plays(w) /\ ~critical_error[w]
  BY DEF Running
<1>9. ASSUME NEW w \in Worker
      PROVE  /\ critical_error'[w] = critical_error[w] /\ (critical_error'[w] => w \in MayFail)
             /\ thread'[w] = thread[w] /\ thread'[w][2] = "none"
             /\ Plays(w)' <=> Plays(w)
             /\ ManagerOf[w] # m => not_ready'[w] = not_ready[w] /\ grunt_state'[w] = grunt_state[w]
  <2>1. ManagerOf[w] # m => w \notin Running(m)
    BY <1>8, Manned
  <2>2. ManagerOf[w] # m => not_ready'[w] = not_ready[w] /\ grunt_state'[w] = grunt_state[w]
    BY <1>4, <1>5, <2>1
  <2> QED
    BY <1>1, <2>2 DEF IInv, Single, setup, Plays
<1>10. ASSUME NEW w \in WorkersOf(m)
       PROVE  Place(m, w)'
  <2>1. w \in Worker /\ Place(m, w)
    BY Manned DEF IInv, Places
  <2>2. Performing(w)
    BY <1>2, <2>1 DEF Place
  <2>3. CASE Plays(w) /\ ~critical_error[w]
    <3>1. grunt_state'[w] = "TestIdle" /\ not_ready'[w]
      BY <1>4, <1>5, <1>8, <2>1, <2>3
    <3> QED
      <4>1. Ending(w)'
        BY <1>9, <2>1, <2>2, <2>3, <3>1 DEF Performing, Ending
      <4> QED
        BY <1>1, <1>2, <1>3, <4>1 DEF Place, PerWorker, view
  <2>4. CASE ~(Plays(w) /\ ~critical_error[w])
    <3>1. not_ready'[w] = not_ready[w]
      BY <1>5, <1>8, <2>1, <2>4
    <3>2. Rested(w)'
      BY <1>9, <2>1, <2>2, <2>4, <3>1, GruntStays DEF Performing
    <3>3. Ending(w)'
      BY <1>9, <2>1, <2>4, <3>2 DEF Ending
    <3> QED
      BY <1>1, <1>2, <1>3, <3>3 DEF Place, PerWorker, view
  <2> QED
    BY <2>3, <2>4
<1>11. busy'[m] # "BEGIN_IO" /\ reply' = reply /\ UNCHANGED <<begun, data>>
  BY <1>1, <1>3
<1>12. UNCHANGED <<view, setup>>
  BY <1>1
<1> QED
  BY <1>2, <1>3, <1>6, <1>7, <1>9, <1>10, <1>11, <1>12, Manned, ManagerStays

LEMMA ManagerInductive ==
    ASSUME Tame, IInv, NEW m \in Manager, ManagerStep(m)
    PROVE  IInv'
<1>1. CASE \E purpose \in {"REPORT_RESULTS", "REPORT_UPDATE"} : Report_Results(m, purpose)
  BY <1>1, ReportStep
<1> QED
  BY <1>1, SetAccessStep, SetTargetsStep, StartTestStep, BeginIOStep, BeginGruntStep, BegunIOStep,
     RecordOnStep, RecordOffStep, StopTestStep, WaitForStopStep DEF ManagerStep

-------------------------------------------------------------------------------
(* What a thread does. *)

\* A grunt's one thread goes from one place to another.
LEMMA ThreadAt ==
    ASSUME IInv, NEW w \in Worker, NEW i \in {1, 2}, NEW here \in ThreadPlace, here # "none",
           NEW there \in ThreadPlace, At(w, i, here, there)
    PROVE  /\ thread[w][1] = here /\ thread'[w][1] = there /\ thread'[w][2] = "none"
           /\ thread' \in [Worker -> [{1, 2} -> ThreadPlace]]
           /\ \A u \in Worker : u # w => thread'[u] = thread[u]
           /\ UNCHANGED <<view, inbox, reply, control, setup, grunt_state>>
<1>1. /\ thread[w][i] = here
      /\ thread' = [thread EXCEPT ![w][i] = there]
      /\ UNCHANGED <<view, inbox, reply, control, setup, grunt_state>>
  BY DEF At
<1>2. thread \in [Worker -> [{1, 2} -> ThreadPlace]] /\ thread[w][2] = "none"
  BY GruntTypes DEF IInv, Single
<1>3. i = 1
  BY <1>1, <1>2
<1>4. PICK t : t = [thread[w] EXCEPT ![1] = there]
  OBVIOUS
<1>5. t \in [{1, 2} -> ThreadPlace] /\ t[1] = there /\ t[2] = "none"
  BY <1>2, <1>4, FirstThread
<1>6. thread' = [thread EXCEPT ![w] = t]
  BY <1>1, <1>3, <1>4
<1>7. thread'[w] = t /\ \A u \in Worker : u # w => thread'[u] = thread[u]
  BY <1>2, <1>6
<1>8. thread' \in [Worker -> [{1, 2} -> ThreadPlace]]
  BY <1>2, <1>5, <1>6
<1> QED
  BY <1>1, <1>3, <1>5, <1>7, <1>8

\* Such a step keeps the invariant if the grunt stays where Iometer and the
\* manager take it to be.
LEMMA ThreadStays ==
    ASSUME IInv, UNCHANGED <<view, inbox, reply, control, setup, grunt_state>>, NEW w \in Worker,
           thread' \in [Worker -> [{1, 2} -> ThreadPlace]], thread'[w][2] = "none",
           \A u \in Worker : u # w => thread'[u] = thread[u],
           critical_error' \in [Worker -> BOOLEAN], not_ready' \in [Worker -> BOOLEAN],
           \A u \in Worker : u # w => critical_error'[u] = critical_error[u]
                                     /\ not_ready'[u] = not_ready[u],
           critical_error'[w] => w \in MayFail,
           Rested(w) => Rested(w)', Opening(w) => Opening(w)',
           Performing(w) => Performing(w)', Ending(w) => Ending(w)'
    PROVE  IInv'
<1>1. Types'
  BY DEF IInv, Types, view, control, setup, ThreadPlace
<1>2. Phases'
  <2>1. ASSUME NEW m \in Manager  PROVE Phase(m)'
    BY PhaseStays DEF IInv, Phases, control
  <2> QED
    BY <2>1 DEF Phases
<1>3. Turns'
  BY ViewStays DEF IInv, Turns, view
<1>4. Configured'
  BY ViewStays DEF IInv, Configured, Told, Replied, AccessRight, TargetsRight, view, setup
<1>5. Single' /\ DataTrue'
  BY DEF IInv, Single, DataTrue, control
<1>6. ASSUME NEW u \in Worker
      PROVE  Place(ManagerOf[u], u)'
  <2>1. PICK m \in Manager : m = ManagerOf[u]
    BY Numbers
  <2>2. Place(m, u)
    BY <2>1 DEF IInv, Places
  <2>3. /\ Rested(u) => Rested(u)'
        /\ Opening(u) => Opening(u)'
        /\ Performing(u) => Performing(u)'
        /\ Ending(u) => Ending(u)'
    <3>1. CASE u = w
      BY <3>1
    <3>2. CASE u # w
      <4>1. /\ Plays(u)' <=> Plays(u)
            /\ grunt_state'[u] = grunt_state[u]
        BY DEF setup, Plays
      <4> QED
        BY <3>2, <4>1, GruntStays
    <3> QED
      BY <3>1, <3>2
  <2>4. Passed(m)' <=> Passed(m)
    BY ViewStays DEF Passed, Replied, view
  <2>5. busy'[m] = busy[m] /\ begun'[m] = begun[m]
    BY DEF control
  <2>6. Place(m, u)'
    BY <2>2, <2>3, <2>4, <2>5, PlaceStays
  <2> QED
    BY <2>1, <2>6
<1> QED
  BY <1>1, <1>2, <1>3, <1>4, <1>5, <1>6 DEF IInv, Places

\* The flags of the grunt after such a step.
LEMMA ThreadFlags ==
    ASSUME IInv, NEW w \in Worker
    PROVE  /\ critical_error' = [critical_error EXCEPT ![w] = TRUE] =>
                 /\ critical_error' \in [Worker -> BOOLEAN] /\ critical_error'[w]
                 /\ \A u \in Worker : u # w => critical_error'[u] = critical_error[u]
           /\ not_ready' = [not_ready EXCEPT ![w] = FALSE] =>
                 /\ not_ready' \in [Worker -> BOOLEAN] /\ ~not_ready'[w]
                 /\ \A u \in Worker : u # w => not_ready'[u] = not_ready[u]
           /\ critical_error \in [Worker -> BOOLEAN] /\ not_ready \in [Worker -> BOOLEAN]
           /\ critical_error[w] => w \in MayFail
<1>1. critical_error \in [Worker -> BOOLEAN] /\ not_ready \in [Worker -> BOOLEAN]
  BY GruntTypes DEF IInv
<1>2. critical_error' = [critical_error EXCEPT ![w] = TRUE] =>
         /\ critical_error' \in [Worker -> BOOLEAN] /\ critical_error'[w]
         /\ \A u \in Worker : u # w => critical_error'[u] = critical_error[u]
  BY <1>1
<1>3. not_ready' = [not_ready EXCEPT ![w] = FALSE] =>
         /\ not_ready' \in [Worker -> BOOLEAN] /\ ~not_ready'[w]
         /\ \A u \in Worker : u # w => not_ready'[u] = not_ready[u]
  BY <1>1
<1> QED
  BY <1>1, <1>2, <1>3 DEF IInv, Single

LEMMA OpenTargetsStep ==
    ASSUME IInv, NEW w \in Worker, NEW i \in {1, 2}, Open_Targets(w, i)
    PROVE  IInv'
<1>1. /\ At(w, i, "open", "check") /\ not_ready' = [not_ready EXCEPT ![w] = FALSE]
      /\ critical_error' = critical_error
  BY DEF Open_Targets
<1>2. "open" \in ThreadPlace /\ "check" \in ThreadPlace
  BY DEF ThreadPlace, UsesTargets
<1>3. /\ thread[w][1] = "open" /\ thread'[w][1] = "check" /\ thread'[w][2] = "none"
      /\ thread' \in [Worker -> [{1, 2} -> ThreadPlace]]
      /\ \A u \in Worker : u # w => thread'[u] = thread[u]
      /\ UNCHANGED <<view, inbox, reply, control, setup, grunt_state>>
  BY <1>1, <1>2, ThreadAt
<1>4. /\ not_ready' \in [Worker -> BOOLEAN] /\ ~not_ready'[w]
      /\ \A u \in Worker : u # w => not_ready'[u] = not_ready[u]
      /\ critical_error' \in [Worker -> BOOLEAN] /\ (critical_error'[w] => w \in MayFail)
  BY <1>1, ThreadFlags
<1>5. ~Stray(w) /\ ~Rested(w)
  BY <1>3 DEF Stray, Rested
<1>6. Plays(w)' <=> Plays(w)
  BY <1>3 DEF setup, Plays
<1>7. Opening(w) => Opening(w)'
  BY <1>1, <1>3, <1>4, <1>5, <1>6 DEF Opening
<1>8. ~Performing(w) /\ ~Ending(w)
  BY <1>3, <1>5 DEF Performing, Ending
<1> QED
  BY <1>1, <1>3, <1>4, <1>5, <1>7, <1>8, ThreadStays

LEMMA OpenFailedStep ==
    ASSUME IInv, NEW w \in Worker, NEW i \in {1, 2}, Open_Failed(w, i)
    PROVE  IInv'
<1>1. /\ At(w, i, "open", "abandon") /\ critical_error' = [critical_error EXCEPT ![w] = TRUE]
      /\ not_ready' = not_ready /\ w \in MayFail
  BY DEF Open_Failed
<1>2. "open" \in ThreadPlace /\ "abandon" \in ThreadPlace
  BY DEF ThreadPlace, UsesTargets
<1>3. /\ thread[w][1] = "open" /\ thread'[w][1] = "abandon" /\ thread'[w][2] = "none"
      /\ thread' \in [Worker -> [{1, 2} -> ThreadPlace]]
      /\ \A u \in Worker : u # w => thread'[u] = thread[u]
      /\ UNCHANGED <<view, inbox, reply, control, setup, grunt_state>>
  BY <1>1, <1>2, ThreadAt
<1>4. /\ critical_error' \in [Worker -> BOOLEAN] /\ critical_error'[w]
      /\ \A u \in Worker : u # w => critical_error'[u] = critical_error[u]
      /\ not_ready' \in [Worker -> BOOLEAN]
  BY <1>1, ThreadFlags
<1>5. ~Stray(w) /\ ~Rested(w)
  BY <1>3 DEF Stray, Rested
<1>6. Plays(w)' <=> Plays(w)
  BY <1>3 DEF setup, Plays
<1>7. Opening(w) => Opening(w)'
  BY <1>1, <1>3, <1>4, <1>5, <1>6 DEF Opening
<1>8. ~Performing(w) /\ ~Ending(w)
  BY <1>3, <1>5 DEF Performing, Ending
<1> QED
  BY <1>1, <1>3, <1>4, <1>5, <1>7, <1>8, ThreadStays

\* A thread that gives up has critical_error set.
LEMMA AbandonStep ==
    ASSUME IInv, NEW w \in Worker, NEW i \in {1, 2}, Abandon(w, i)
    PROVE  IInv'
<1>1. PICK here \in {"abandon", "abandoned"}, there \in {"abandoned", "check"} :
          At(w, i, here, there)
  BY DEF Abandon
<1>2. not_ready' = [not_ready EXCEPT ![w] = FALSE] /\ critical_error' = critical_error
  BY DEF Abandon
<1>3. /\ here \in ThreadPlace /\ there \in ThreadPlace /\ here # "none"
  BY DEF ThreadPlace, UsesTargets
<1>4. /\ thread[w][1] = here /\ thread'[w][1] = there /\ thread'[w][2] = "none"
      /\ thread' \in [Worker -> [{1, 2} -> ThreadPlace]]
      /\ \A u \in Worker : u # w => thread'[u] = thread[u]
      /\ UNCHANGED <<view, inbox, reply, control, setup, grunt_state>>
  BY <1>1, <1>3, ThreadAt
<1>5. /\ not_ready' \in [Worker -> BOOLEAN] /\ ~not_ready'[w]
      /\ \A u \in Worker : u # w => not_ready'[u] = not_ready[u]
      /\ critical_error' \in [Worker -> BOOLEAN] /\ (critical_error'[w] => w \in MayFail)
  BY <1>2, ThreadFlags
<1>6. Plays(w)' <=> Plays(w)
  BY <1>4 DEF setup, Plays
<1>7. critical_error[w] => Stray(w)' /\ Rested(w)'
  BY <1>2, <1>4, <1>5 DEF Stray, Rested
<1>8. Rested(w) => Rested(w)'
  BY <1>4, <1>7 DEF Rested, Stray
<1>9. Opening(w) => Opening(w)'
  <2>1. CASE Plays(w)
    <3>1. ASSUME Opening(w)  PROVE critical_error[w] /\ grunt_state[w] = "TestOpening"
      BY <1>4, <2>1, <3>1 DEF Opening
    <3> QED
      BY <1>2, <1>4, <1>5, <1>6, <1>7, <2>1, <3>1 DEF Opening
  <2>2. CASE ~Plays(w)
    BY <1>6, <1>8, <2>2 DEF Opening
  <2> QED
    BY <2>1, <2>2
<1>10. Performing(w) => Performing(w)'
  <2>1. CASE Plays(w) /\ ~critical_error[w]
    BY <1>4, <2>1 DEF Performing
  <2>2. CASE ~(Plays(w) /\ ~critical_error[w])
    BY <1>2, <1>6, <1>8, <2>2 DEF Performing
  <2> QED
    BY <2>1, <2>2
<1>11. Ending(w) => Ending(w)'
  <2>1. CASE Plays(w) /\ ~critical_error[w]
    BY <1>4, <2>1 DEF Ending
  <2>2. CASE ~(Plays(w) /\ ~critical_error[w])
    BY <1>2, <1>6, <1>8, <2>2 DEF Ending
  <2> QED
    BY <2>1, <2>2
<1> QED
  BY <1>2, <1>4, <1>5, <1>8, <1>9, <1>10, <1>11, ThreadStays

LEMMA CheckOpenedStep ==
    ASSUME IInv, NEW w \in Worker, NEW i \in {1, 2}, CheckOpened(w, i)
    PROVE  IInv'
<1>1. PICK there \in {"none", "io"} :
          /\ there = IF critical_error[w] THEN "none" ELSE "io"
          /\ At(w, i, "check", there)
  BY DEF CheckOpened
<1>2. critical_error' = critical_error /\ not_ready' = not_ready
  BY DEF CheckOpened
<1>3. "check" \in ThreadPlace /\ there \in ThreadPlace
  BY DEF ThreadPlace, UsesTargets
<1>4. /\ thread[w][1] = "check" /\ thread'[w][1] = there
      /\ thread'[w][2] = "none" /\ thread' \in [Worker -> [{1, 2} -> ThreadPlace]]
      /\ \A u \in Worker : u # w => thread'[u] = thread[u]
      /\ UNCHANGED <<view, inbox, reply, control, setup, grunt_state>>
  BY <1>1, <1>3, ThreadAt
<1>5. /\ not_ready' \in [Worker -> BOOLEAN] /\ critical_error' \in [Worker -> BOOLEAN]
      /\ critical_error'[w] => w \in MayFail
  BY <1>2, ThreadFlags
<1>6. Plays(w)' <=> Plays(w)
  BY <1>4 DEF setup, Plays
<1>7. Stray(w) => Stray(w)'
  BY <1>1, <1>2, <1>4 DEF Stray
<1>8. Rested(w) => Rested(w)'
  BY <1>2, <1>7 DEF Rested
<1>9. Opening(w) => Opening(w)'
  BY <1>1, <1>2, <1>4, <1>6, <1>7, <1>8 DEF Opening
<1>10. Performing(w) => Performing(w)'
  BY <1>1, <1>2, <1>4, <1>6, <1>8 DEF Performing
<1>11. Ending(w) => Ending(w)'
  BY <1>1, <1>2, <1>4, <1>6, <1>8 DEF Ending
<1> QED
  BY <1>2, <1>4, <1>5, <1>8, <1>9, <1>10, <1>11, ThreadStays

\* A thread ends its I/O only when its grunt has been told to stop.
LEMMA DoIOsStep ==
    ASSUME IInv, NEW w \in Worker, NEW i \in {1, 2}, Do_IOs(w, i)
    PROVE  IInv'
<1>1. /\ At(w, i, "io", "close") /\ grunt_state[w] = "TestIdle"
      /\ critical_error' = critical_error /\ not_ready' = not_ready
  BY DEF Do_IOs
<1>2. "io" \in ThreadPlace /\ "close" \in ThreadPlace
  BY DEF ThreadPlace, UsesTargets
<1>3. /\ thread[w][1] = "io" /\ thread'[w][1] = "close"
      /\ thread'[w][2] = "none" /\ thread' \in [Worker -> [{1, 2} -> ThreadPlace]]
      /\ \A u \in Worker : u # w => thread'[u] = thread[u]
      /\ UNCHANGED <<view, inbox, reply, control, setup, grunt_state>>
  BY <1>1, <1>2, ThreadAt
<1>4. /\ not_ready' \in [Worker -> BOOLEAN] /\ critical_error' \in [Worker -> BOOLEAN]
      /\ critical_error'[w] => w \in MayFail
  BY <1>1, ThreadFlags
<1>5. Plays(w)' <=> Plays(w)
  BY <1>3 DEF setup, Plays
<1>6. ~Rested(w)
  BY <1>3 DEF Rested, Stray
<1>7. ~Opening(w) /\ ~Performing(w)
  BY <1>1, <1>6 DEF Opening, Performing
<1>8. Ending(w) => Ending(w)'
  BY <1>1, <1>3, <1>5, <1>6 DEF Ending
<1> QED
  BY <1>1, <1>3, <1>4, <1>6, <1>7, <1>8, ThreadStays

LEMMA CloseTargetsStep ==
    ASSUME IInv, NEW w \in Worker, NEW i \in {1, 2}, Close_Targets(w, i)
    PROVE  IInv'
<1>1. /\ At(w, i, "close", "none") /\ critical_error' = critical_error
      /\ not_ready' = [not_ready EXCEPT ![w] = FALSE]
  BY DEF Close_Targets
<1>2. "close" \in ThreadPlace /\ "none" \in ThreadPlace
  BY DEF ThreadPlace, UsesTargets
<1>3. /\ thread[w][1] = "close" /\ thread'[w][1] = "none"
      /\ thread'[w][2] = "none" /\ thread' \in [Worker -> [{1, 2} -> ThreadPlace]]
      /\ \A u \in Worker : u # w => thread'[u] = thread[u]
      /\ UNCHANGED <<view, inbox, reply, control, setup, grunt_state>>
  BY <1>1, <1>2, ThreadAt
<1>4. /\ not_ready' \in [Worker -> BOOLEAN] /\ ~not_ready'[w]
      /\ \A u \in Worker : u # w => not_ready'[u] = not_ready[u]
      /\ critical_error' \in [Worker -> BOOLEAN] /\ (critical_error'[w] => w \in MayFail)
  BY <1>1, ThreadFlags
<1>5. Plays(w)' <=> Plays(w)
  BY <1>3 DEF setup, Plays
<1>6. ~Rested(w) /\ ~Stray(w)
  BY <1>3 DEF Rested, Stray
<1>7. ~Opening(w) /\ ~Performing(w)
  BY <1>3, <1>6 DEF Opening, Performing
<1>8. Ending(w) => Ending(w)'
  BY <1>1, <1>3, <1>4, <1>5, <1>6 DEF Ending
<1> QED
  BY <1>1, <1>3, <1>4, <1>6, <1>7, <1>8, ThreadStays

LEMMA ThreadInductive ==
    ASSUME IInv, NEW w \in Worker, NEW i \in {1, 2}, ThreadStep(w, i)
    PROVE  IInv'
  BY OpenTargetsStep, OpenFailedStep, AbandonStep, CheckOpenedStep, DoIOsStep, CloseTargetsStep
     DEF ThreadStep

-------------------------------------------------------------------------------
(* What Iometer does. *)

\* Where all grunts are when a round begins or ends.
AllRested     == \A w \in Worker : Rested(w)
AllOpening    == \A w \in Worker : IF ActiveManager(ManagerOf[w]) THEN Opening(w) ELSE Rested(w)
AllPerforming == \A w \in Worker : IF ActiveManager(ManagerOf[w]) THEN Performing(w) ELSE Rested(w)
AllPassed     == \A m \in Manager : ActiveManager(m) => Passed(m)
AllSetUp      == \A w \in Worker : AccessRight(w) /\ TargetsRight(w)

Reporting == {"REPORT_RESULTS", "REPORT_UPDATE"}

LEMMA Standing ==
    ASSUME IInv
    PROVE  /\ stage \in PerWorker \cup {"ready"} => AllRested
           /\ stage \in {"ramp", "RECORD_ON", "record", "RECORD_OFF"} => AllPerforming
           /\ stage \in Reporting /\ ending = "no" => AllPerforming
           /\ stage \in Reporting /\ ending # "no" => AllRested
           /\ stage = "START" /\ AllPassed => AllOpening
           /\ stage = "BEGIN_IO" /\ AllPassed => AllPerforming
           /\ stage = "STOP" /\ AllPassed => AllRested
<1>1. \A w \in Worker : Place(ManagerOf[w], w) /\ ManagerOf[w] \in Manager
  BY Numbers DEF IInv, Places
<1> QED
  BY <1>1 DEF Place, AllRested, AllOpening, AllPerforming, AllPassed, Reporting

\* When a round is over everyone has been spoken to, and nobody works.
LEMMA RoundIsOver ==
    ASSUME IInv, ~waiting
    PROVE  /\ reply = <<>>
           /\ \A m \in Manager : Unread(m)
           /\ Recipients = {} /\ stage \in PerWorker => \A w \in Worker : w < next
           /\ Recipients = {} /\ stage \notin PerWorker =>
                 AllPassed /\ \A m \in Manager : ActiveManager(m) => m < next
<1>1. reply = <<>> /\ next \in Nat
  BY DEF IInv, Turns, Types
<1>2. \A m \in Manager : Unread(m)
  BY DEF IInv, Phases, Phase, Spoken
<1>3. ASSUME Recipients = {}, stage \in PerWorker, NEW w \in Worker
      PROVE  w < next
  <2>1. ~(w >= next)
    BY <1>3 DEF Recipients
  <2> QED
    BY <1>1, <2>1, Numbers
<1>4. ASSUME Recipients = {}, stage \notin PerWorker, NEW m \in Manager, ActiveManager(m)
      PROVE  m < next
  <2>1. ~(m >= next)
    BY <1>4 DEF Recipients
  <2> QED
    BY <1>1, <2>1, Numbers
<1> QED
  BY <1>1, <1>2, <1>3, <1>4 DEF AllPassed, Passed

LEMMA DynamoStays ==
    ASSUME UNCHANGED Dynamo, NEW w
    PROVE  /\ Rested(w)' <=> Rested(w)
           /\ Opening(w)' <=> Opening(w)
           /\ Performing(w)' <=> Performing(w)
           /\ Ending(w)' <=> Ending(w)
  BY LevelsKept DEF Dynamo

\* Iometer enters a stage.
LEMMA EnterStep ==
    ASSUME IInv, UNCHANGED <<Dynamo, inbox>>, reply' = <<>>,
           NEW s \in PerWorker \cup Broadcast \cup Pause, Enter(s),
           ending' \in {"no", "success", "error", "abort"}, recording' \in BOOLEAN,
           role' \in [Worker -> {"io", "idle", "none", "benched"}],
           \A m \in Manager : /\ busy[m] = "no"
                              /\ inbox[m] = <<>> \/ (Late(m)' /\ inbox[m] = <<On(m)>>),
           s \in {"SET_ACCESS", "SET_TARGETS", "START", "BEGIN_IO", "ramp", "RECORD_ON",
                  "record"} => ending' = "no",
           s \in {"RECORD_OFF", "STOP", "REPORT_UPDATE"} => ending' # "no",
           s = "SET_TARGETS" => role' = role /\ \A w \in Worker : AccessRight(w),
           s \notin PerWorker \cup {"ready"} => role' = role /\ AllSetUp,
           \/ /\ s \in PerWorker \cup {"ready", "START"} \/ (s \in Reporting /\ ending' # "no")
              /\ AllRested
           \/ s = "BEGIN_IO" /\ AllOpening
           \/ /\ \/ s \in {"ramp", "RECORD_ON", "record", "RECORD_OFF", "STOP"}
                 \/ s \in Reporting /\ ending' = "no"
              /\ AllPerforming
    PROVE  IInv'
<1>1. stage' = s /\ next' = 1 /\ waiting' = FALSE
  BY DEF Enter
<1>2. Types'
  BY <1>1 DEF IInv, Types, Dynamo, control, setup, flags, PerManager
<1>3. Phases'
  <2>1. ASSUME NEW m \in Manager  PROVE Phase(m)'
    BY <1>1 DEF Phase, Spoken, Unread, On, Dynamo, control
  <2> QED
    BY <2>1 DEF Phases
<1>4. Turns'
  BY <1>1 DEF Turns
<1>5. \A w \in Worker : ~(w < 1)
  BY DEF Worker
<1>6. Configured'
  <2>1. \A w \in Worker : ~Told(w)'
    BY <1>1, <1>5 DEF Told, Replied
  <2>2. role' = role => \A w \in Worker : (AccessRight(w)' <=> AccessRight(w))
                                         /\ (TargetsRight(w)' <=> TargetsRight(w))
    BY DEF AccessRight, TargetsRight, Dynamo, setup
  <2>3. stage' = "SET_TARGETS" => \A w \in Worker : AccessRight(w)'
    BY <1>1, <2>2
  <2>4. stage' \notin PerWorker \cup {"ready"} =>
           \A w \in Worker : AccessRight(w)' /\ TargetsRight(w)'
    BY <1>1, <2>2 DEF AllSetUp
  <2> QED
    BY <2>1, <2>3, <2>4 DEF Configured, PerWorker
<1>7. Single' /\ DataTrue'
  BY DEF IInv, Single, DataTrue, Dynamo, control, flags
<1>8. Places'
  <2>1. ASSUME NEW w \in Worker  PROVE Place(ManagerOf[w], w)'
    <3>1. PICK m \in Manager : m = ManagerOf[w]
      BY Numbers
    <3>2. ~Passed(m)' /\ busy'[m] = "no"
      <4>1. ~(m < 1)
        BY DEF Manager
      <4> QED
        BY <1>1, <4>1 DEF Passed, Replied, Dynamo, control
    <3>3. /\ Rested(w)' <=> Rested(w)
          /\ Opening(w)' <=> Opening(w)
          /\ Performing(w)' <=> Performing(w)
      BY DynamoStays
    <3>4. s \notin PerWorker \cup {"ready"} => (ActiveManager(m)' <=> ActiveManager(m))
      BY DEF ActiveManager
    <3>5. Place(m, w)'
      <4>1. CASE /\ s \in PerWorker \cup {"ready", "START"} \/ (s \in Reporting /\ ending' # "no")
                 /\ AllRested
        BY <1>1, <3>2, <3>3, <4>1 DEF Place, PerWorker, Reporting, AllRested
      <4>2. CASE s = "BEGIN_IO" /\ AllOpening
        BY <1>1, <3>1, <3>2, <3>3, <3>4, <4>2 DEF Place, PerWorker, AllOpening
      <4>3. CASE /\ \/ s \in {"ramp", "RECORD_ON", "record", "RECORD_OFF", "STOP"}
                    \/ s \in Reporting /\ ending' = "no"
                 /\ AllPerforming
        BY <1>1, <3>1, <3>2, <3>3, <3>4, <4>3 DEF Place, PerWorker, Reporting, AllPerforming
      <4> QED
        BY <4>1, <4>2, <4>3
    <3> QED
      BY <3>1, <3>5
  <2> QED
    BY <2>1 DEF Places
<1> QED
  BY <1>2, <1>3, <1>4, <1>6, <1>7, <1>8 DEF IInv

\* Between two rounds the inboxes are empty, save for RECORD_ON.
LEMMA NothingUnread ==
    ASSUME IInv, ~waiting
    PROVE  /\ \A m \in Manager : busy[m] = "no" /\ (inbox[m] = <<>> \/ (Late(m) /\ inbox[m] = <<On(m)>>))
           /\ stage \notin {"RECORD_ON", "record", "REPORT_RESULTS", "RECORD_OFF"} =>
                 \A m \in Manager : inbox[m] = <<>>
           /\ reply = <<>>
  BY RoundIsOver DEF Unread, Late

\* A new test.
LEMMA NextTestStep ==
    ASSUME IInv, UNCHANGED <<Dynamo, inbox, reply>>, NextTest, ~waiting, AllRested,
           stage \notin {"RECORD_ON", "record", "REPORT_RESULTS", "RECORD_OFF"}
    PROVE  IInv'
<1>1. /\ role' \in [Worker -> Role] /\ ending' = "no" /\ recording' = FALSE
      /\ Enter("SET_ACCESS")
  BY DEF NextTest
<1>2. /\ role' \in [Worker -> {"io", "idle", "none", "benched"}]
      /\ ending' \in {"no", "success", "error", "abort"} /\ recording' \in BOOLEAN
      /\ "SET_ACCESS" \in PerWorker
  BY <1>1, ControlAssumption DEF PerWorker
<1>3. reply' = <<>> /\ \A m \in Manager : busy[m] = "no" /\ inbox[m] = <<>>
  BY NothingUnread
<1> QED
  BY <1>1, <1>2, <1>3, EnterStep

LEMMA GoStep ==
    ASSUME IInv, Go
    PROVE  IInv'
<1>1. stage = "ready" /\ NextTest /\ UNCHANGED <<inbox, reply, Dynamo>>
  BY DEF Go
<1>2. ~waiting
  BY <1>1 DEF IInv, Turns, PerWorker, Broadcast
<1>3. AllRested
  BY <1>1, Standing
<1> QED
  BY <1>1, <1>2, <1>3, NextTestStep

LEMMA TestDoneStep ==
    ASSUME IInv, TestDone
    PROVE  IInv'
<1>1. /\ stage \in {"REPORT_UPDATE", "STOP"} /\ ~waiting /\ Recipients = {}
      /\ UNCHANGED <<inbox, reply, Dynamo>>
  BY DEF TestDone, RoundOver
<1>2. AllRested
  <2>1. AllPassed
    BY <1>1, RoundIsOver DEF PerWorker
  <2>2. ending # "no"
    BY <1>1 DEF IInv, Turns
  <2> QED
    BY <1>1, <2>1, <2>2, Standing DEF Reporting
<1>3. CASE NextTest
  BY <1>1, <1>2, <1>3, NextTestStep
<1>4. CASE Enter("ready") /\ ending' = "no" /\ recording' = FALSE /\ UNCHANGED role
  <2>1. /\ role' \in [Worker -> {"io", "idle", "none", "benched"}]
        /\ ending' \in {"no", "success", "error", "abort"} /\ recording' \in BOOLEAN
    BY <1>4 DEF IInv, Types
  <2>2. reply' = <<>> /\ \A m \in Manager : busy[m] = "no" /\ inbox[m] = <<>>
    BY <1>1, NothingUnread
  <2>3. "ready" \in Pause
    BY DEF Pause
  <2> QED
    BY <1>1, <1>2, <1>4, <2>1, <2>2, <2>3, EnterStep
<1> QED
  BY <1>3, <1>4 DEF TestDone

\* All have been told what to do.
LEMMA AllTold ==
    ASSUME IInv, ~waiting, Recipients = {}
    PROVE  /\ stage = "SET_ACCESS" => \A w \in Worker : AccessRight(w)
           /\ stage \notin {"SET_ACCESS", "ready"} => AllSetUp
<1>1. stage \in PerWorker => \A w \in Worker : Told(w)
  BY RoundIsOver DEF Told
<1>2. stage = "SET_ACCESS" => \A w \in Worker : AccessRight(w)
  BY <1>1 DEF IInv, Configured, PerWorker
<1>3. stage = "SET_TARGETS" => AllSetUp
  BY <1>1 DEF IInv, Configured, PerWorker, AllSetUp
<1>4. stage \notin {"SET_ACCESS", "SET_TARGETS", "ready"} => AllSetUp
  BY DEF IInv, Configured, PerWorker, AllSetUp
<1> QED
  BY <1>2, <1>3, <1>4

\* From a round or a pause in which nothing changes hands to the next stage of
\* the same test.
LEMMA GoOnStep ==
    ASSUME IInv, UNCHANGED <<Dynamo, inbox, reply, role>>, ~waiting,
           NEW s \in (PerWorker \cup Broadcast \cup Pause) \ {"SET_ACCESS", "ready"}, Enter(s),
           ending' \in {"no", "success", "error", "abort"}, recording' \in BOOLEAN,
           \A m \in Manager : Late(m) => Late(m)',
           s \in {"SET_TARGETS", "START", "BEGIN_IO", "ramp", "RECORD_ON", "record"} =>
               ending' = "no",
           s \in {"RECORD_OFF", "STOP", "REPORT_UPDATE"} => ending' # "no",
           s = "SET_TARGETS" => \A w \in Worker : AccessRight(w),
           s # "SET_TARGETS" => AllSetUp,
           \/ s \in {"SET_TARGETS", "START"} /\ AllRested
           \/ s \in Reporting /\ ending' # "no" /\ AllRested
           \/ s = "BEGIN_IO" /\ AllOpening
           \/ s \in {"ramp", "RECORD_ON", "record", "RECORD_OFF", "STOP"} /\ AllPerforming
           \/ s \in Reporting /\ ending' = "no" /\ AllPerforming
    PROVE  IInv'
<1>1. role' \in [Worker -> {"io", "idle", "none", "benched"}]
  BY DEF IInv, Types
<1>2. reply' = <<>>
  BY NothingUnread
<1>3. \A m \in Manager : /\ busy[m] = "no"
                         /\ inbox[m] = <<>> \/ (Late(m)' /\ inbox[m] = <<On(m)>>)
  BY NothingUnread
<1>4. \/ /\ s \in PerWorker \cup {"ready", "START"} \/ (s \in Reporting /\ ending' # "no")
         /\ AllRested
      \/ s = "BEGIN_IO" /\ AllOpening
      \/ /\ \/ s \in {"ramp", "RECORD_ON", "record", "RECORD_OFF", "STOP"}
            \/ s \in Reporting /\ ending' = "no"
         /\ AllPerforming
  BY DEF PerWorker
<1>5. s \notin PerWorker \cup {"ready"} => role' = role /\ AllSetUp
  BY DEF PerWorker
<1>6. s \in {"SET_ACCESS", "SET_TARGETS", "START", "BEGIN_IO", "ramp", "RECORD_ON", "record"} =>
         ending' = "no"
  OBVIOUS
<1> QED
  BY <1>1, <1>2, <1>3, <1>4, <1>5, <1>6, EnterStep

LEMMA ActiveStays ==
    ASSUME role' = role, NEW m
    PROVE  ActiveManager(m)' <=> ActiveManager(m)
  BY DEF ActiveManager

\* No RECORD_ON is unread after any other round.
LEMMA NobodyLate ==
    ASSUME NEW m \in Manager,
           \/ stage \notin {"RECORD_ON", "record", "REPORT_RESULTS", "RECORD_OFF"}
           \/ stage = "REPORT_RESULTS" /\ ending # "no"
           \/ stage = "RECORD_OFF" /\ (ActiveManager(m) => m < next)
    PROVE  ~Late(m)
  BY DEF Late

LEMMA ContinueStep ==
    ASSUME IInv, Continue
    PROVE  IInv'
<1>1. /\ ~waiting /\ Recipients = {}
      /\ UNCHANGED <<Dynamo, inbox, reply, role>> /\ UNCHANGED <<ending, recording>>
  BY DEF Continue, RoundOver
<1>2. /\ ending' \in {"no", "success", "error", "abort"} /\ recording' \in BOOLEAN
      /\ ending' = ending
  BY <1>1 DEF IInv, Types
<1>3. /\ stage = "SET_ACCESS" => \A w \in Worker : AccessRight(w)
      /\ stage \notin {"SET_ACCESS", "ready"} => AllSetUp
  BY <1>1, AllTold
<1>4. /\ stage \notin PerWorker => AllPassed
      /\ stage \notin PerWorker => \A m \in Manager : ActiveManager(m) => m < next
  BY <1>1, RoundIsOver
<1>5. /\ stage \in {"SET_ACCESS", "SET_TARGETS", "START", "BEGIN_IO", "RECORD_ON"} => ending = "no"
      /\ stage \in {"RECORD_OFF", "STOP"} => ending # "no"
  BY DEF IInv, Turns
<1>6. CASE stage = "SET_ACCESS" /\ Enter("SET_TARGETS")
  <2>1. AllRested
    BY <1>6, Standing DEF PerWorker
  <2>2. \A m \in Manager : Late(m) => Late(m)'
    BY <1>6, NobodyLate
  <2>3. "SET_TARGETS" \in PerWorker
    BY DEF PerWorker
  <2> QED
    BY <1>1, <1>2, <1>3, <1>5, <1>6, <2>1, <2>2, <2>3, GoOnStep
<1>7. CASE stage = "SET_TARGETS" /\ Enter("START")
  <2>1. AllRested
    BY <1>7, Standing DEF PerWorker
  <2>2. \A m \in Manager : Late(m) => Late(m)'
    BY <1>7, NobodyLate
  <2>3. "START" \in Broadcast
    BY DEF Broadcast
  <2> QED
    BY <1>1, <1>2, <1>3, <1>5, <1>7, <2>1, <2>2, <2>3, GoOnStep
<1>8. CASE stage = "START" /\ Enter("BEGIN_IO")
  <2>1. AllOpening
    BY <1>4, <1>8, Standing DEF PerWorker
  <2>2. \A m \in Manager : Late(m) => Late(m)'
    BY <1>8, NobodyLate
  <2>3. "BEGIN_IO" \in Broadcast
    BY DEF Broadcast
  <2> QED
    BY <1>1, <1>2, <1>3, <1>5, <1>8, <2>1, <2>2, <2>3, GoOnStep
<1>9. CASE stage = "BEGIN_IO" /\ \E s \in {"ramp", "RECORD_ON"} : Enter(s)
  <2>1. AllPerforming
    BY <1>4, <1>9, Standing DEF PerWorker
  <2>2. \A m \in Manager : Late(m) => Late(m)'
    BY <1>9, NobodyLate
  <2>3. PICK s \in {"ramp", "RECORD_ON"} : Enter(s)
    BY <1>9
  <2>4. s \in (PerWorker \cup Broadcast \cup Pause) \ {"SET_ACCESS", "ready"}
    BY DEF Broadcast, Pause
  <2> QED
    BY <1>1, <1>2, <1>3, <1>5, <1>9, <2>1, <2>2, <2>3, <2>4, GoOnStep
<1>10. CASE stage = "RECORD_ON" /\ Enter("record")
  <2>1. AllPerforming
    BY <1>10, Standing
  <2>2. \A m \in Manager : Late(m) => Late(m)'
    BY <1>1, <1>10, ActiveStays DEF Late, Enter
  <2>3. "record" \in Pause
    BY DEF Pause
  <2> QED
    BY <1>1, <1>2, <1>3, <1>5, <1>10, <2>1, <2>2, <2>3, GoOnStep
<1>11. CASE stage = "RECORD_OFF" /\ Enter("STOP")
  <2>1. AllPerforming
    BY <1>11, Standing
  <2>2. \A m \in Manager : Late(m) => Late(m)'
    BY <1>4, <1>11, NobodyLate DEF PerWorker
  <2>3. "STOP" \in Broadcast
    BY DEF Broadcast
  <2> QED
    BY <1>1, <1>2, <1>3, <1>5, <1>11, <2>1, <2>2, <2>3, GoOnStep
<1>12. CASE stage = "STOP" /\ Enter("REPORT_RESULTS")
  <2>1. AllRested
    BY <1>4, <1>12, Standing DEF PerWorker
  <2>2. \A m \in Manager : Late(m) => Late(m)'
    BY <1>12, NobodyLate
  <2>3. "REPORT_RESULTS" \in Broadcast /\ "REPORT_RESULTS" \in Reporting
    BY DEF Broadcast, Reporting
  <2> QED
    BY <1>1, <1>2, <1>3, <1>5, <1>12, <2>1, <2>2, <2>3, GoOnStep
<1>13. CASE stage = "REPORT_RESULTS" /\ ending = "no" /\ Enter("record")
  <2>1. AllPerforming
    BY <1>13, Standing DEF Reporting
  <2>2. \A m \in Manager : Late(m) => Late(m)'
    BY <1>1, <1>13, ActiveStays DEF Late, Enter
  <2>3. "record" \in Pause
    BY DEF Pause
  <2> QED
    BY <1>1, <1>2, <1>3, <1>13, <2>1, <2>2, <2>3, GoOnStep
<1>14. CASE stage = "REPORT_RESULTS" /\ ending # "no" /\ Enter("REPORT_UPDATE")
  <2>1. AllRested
    BY <1>14, Standing DEF Reporting
  <2>2. \A m \in Manager : Late(m) => Late(m)'
    BY <1>14, NobodyLate
  <2>3. "REPORT_UPDATE" \in Broadcast /\ "REPORT_UPDATE" \in Reporting
    BY DEF Broadcast, Reporting
  <2> QED
    BY <1>1, <1>2, <1>3, <1>14, <2>1, <2>2, <2>3, GoOnStep
<1> QED
  BY <1>6, <1>7, <1>8, <1>9, <1>10, <1>11, <1>12, <1>13, <1>14 DEF Continue, RoundOver

\* The timers and the user end a pause.
LEMMA PauseOver ==
    ASSUME IInv, stage \in {"ramp", "record"}
    PROVE  ~waiting /\ AllSetUp /\ AllPerforming /\ ending = "no"
  BY Standing DEF IInv, Turns, Configured, PerWorker, Broadcast, AllSetUp

LEMMA RampTimerStep ==
    ASSUME IInv, RampTimer
    PROVE  IInv'
<1>1. /\ stage = "ramp" /\ Enter("RECORD_ON") /\ UNCHANGED <<Dynamo, inbox, reply, role>>
      /\ ending' = ending /\ recording' = recording
  BY DEF RampTimer
<1>2. ~waiting /\ AllSetUp /\ AllPerforming /\ ending = "no" /\ recording \in BOOLEAN
  BY <1>1, PauseOver DEF IInv, Types
<1>3. \A m \in Manager : Late(m) => Late(m)'
  BY <1>1, NobodyLate
<1>4. "RECORD_ON" \in Broadcast
  BY DEF Broadcast
<1> QED
  BY <1>1, <1>2, <1>3, <1>4, GoOnStep

LEMMA DisplayTimerStep ==
    ASSUME IInv, DisplayTimer
    PROVE  IInv'
<1>1. /\ stage = "record" /\ Enter("REPORT_RESULTS") /\ UNCHANGED <<Dynamo, inbox, reply, role>>
      /\ ending' = ending /\ recording' = recording
  BY DEF DisplayTimer
<1>2. ~waiting /\ AllSetUp /\ AllPerforming /\ ending = "no" /\ recording \in BOOLEAN
  BY <1>1, PauseOver DEF IInv, Types
<1>3. \A m \in Manager : Late(m) => Late(m)'
  BY <1>1, <1>2, ActiveStays DEF Late, Enter
<1>4. "REPORT_RESULTS" \in Broadcast /\ "REPORT_RESULTS" \in Reporting
  BY DEF Broadcast, Reporting
<1> QED
  BY <1>1, <1>2, <1>3, <1>4, GoOnStep

LEMMA StopTestNow ==
    ASSUME IInv, StopTest
    PROVE  IInv'
<1>1. /\ stage \in {"ramp", "record"} /\ ending' \in {"success", "abort"}
      /\ recording' = (stage = "record") /\ UNCHANGED <<Dynamo, inbox, reply, role>>
      /\ Enter(IF stage = "record" THEN "RECORD_OFF" ELSE "STOP")
  BY DEF StopTest
<1>2. ~waiting /\ AllSetUp /\ AllPerforming /\ ending = "no" /\ recording' \in BOOLEAN
  BY <1>1, PauseOver
<1>3. PICK s \in {"RECORD_OFF", "STOP"} :
          Enter(s) /\ s = IF stage = "record" THEN "RECORD_OFF" ELSE "STOP"
  BY <1>1
<1>4. \A m \in Manager : Late(m) => Late(m)'
  <2>1. CASE stage = "ramp"
    BY <2>1, NobodyLate
  <2>2. CASE stage = "record"
    <3>1. \A m \in Manager : ~(m < 1)
      BY DEF Manager
    <3> QED
      BY <1>1, <1>3, <2>2, <3>1, ActiveStays DEF Late, Enter
  <2> QED
    BY <1>1, <2>1, <2>2
<1>5. s \in Broadcast
  BY DEF Broadcast
<1> QED
  BY <1>1, <1>2, <1>3, <1>4, <1>5, GoOnStep

\* The round goes on.
LEMMA RoundStays ==
    ASSUME IInv, UNCHANGED Dynamo, stage' = stage, ending' = ending, role' = role, Types',
           \A m \in Manager : ActiveManager(m) /\ stage \in {"START", "BEGIN_IO", "STOP"} =>
               (Passed(m)' <=> Passed(m)),
           stage \in PerWorker => \A w \in Worker : Told(w)' => Told(w),
           Phases', Turns'
    PROVE  IInv'
<1>1. Configured'
  <2>1. \A w \in Worker : /\ AccessRight(w) => AccessRight(w)'
                          /\ TargetsRight(w) => TargetsRight(w)'
    BY DEF AccessRight, TargetsRight, Dynamo, setup
  <2>2. stage' = "SET_ACCESS" => \A w \in Worker : Told(w)' => AccessRight(w)'
    BY <2>1 DEF IInv, Configured, PerWorker
  <2>3. stage' = "SET_TARGETS" =>
           \A w \in Worker : AccessRight(w)' /\ (Told(w)' => TargetsRight(w)')
    BY <2>1 DEF IInv, Configured, PerWorker
  <2>4. stage' \notin PerWorker \cup {"ready"} =>
           \A w \in Worker : AccessRight(w)' /\ TargetsRight(w)'
    BY <2>1 DEF IInv, Configured
  <2> QED
    BY <2>2, <2>3, <2>4 DEF Configured, PerWorker
<1>2. Single' /\ DataTrue'
  BY DEF IInv, Single, DataTrue, Dynamo, control, flags
<1>3. ASSUME NEW w \in Worker
      PROVE  Place(ManagerOf[w], w)'
  <2>1. PICK m \in Manager : m = ManagerOf[w]
    BY Numbers
  <2>2. Place(m, w)
    BY <2>1 DEF IInv, Places
  <2>3. busy'[m] = busy[m] /\ begun'[m] = begun[m]
    BY DEF Dynamo, control
  <2>4. Place(m, w)'
    BY <2>2, <2>3, DynamoStays, PlaceKept
  <2> QED
    BY <2>1, <2>4
<1> QED
  BY <1>1, <1>2, <1>3 DEF IInv, Places

\* An answer has come.
LEMMA AnswerHasCome ==
    ASSUME IInv, waiting, reply # <<>>
    PROVE  \E m \in Manager :
              /\ m = Of(Current) /\ Good(reply[1], m)
              /\ \A n \in Manager : /\ busy[n] = "no"
                                    /\ inbox[n] = <<>> \/ (n # m /\ Late(n) /\ inbox[n] = <<On(n)>>)
<1>1. Recipients # {}
  BY DEF IInv, Turns
<1>2. PICK m \in Manager : m = Of(Current)
  BY <1>1, Turn DEF IInv
<1>3. Spoken(m) /\ Answered(m)
  BY <1>2 DEF IInv, Phases, Phase, Spoken, Asked, Working
<1>4. ASSUME NEW n \in Manager, n # m  PROVE Unread(n)
  BY <1>2, <1>4 DEF IInv, Phases, Phase, Spoken
<1> QED
  BY <1>2, <1>3, <1>4 DEF Answered, Unread

\* Those to be spoken to from here on.
LEMMA FromHere ==
    ASSUME IInv, Recipients # {}
    PROVE  /\ Current \in Nat /\ next \in Nat /\ ~(Current < next)
           /\ stage \in PerWorker => \A w \in Worker : w < next \/ Current <= w
           /\ stage \notin PerWorker =>
                 \A m \in Manager : ActiveManager(m) => m < next \/ Current <= m
<1>1. Current \in Nat /\ ~(Current < next) /\ next \in Nat /\ \A x \in Recipients : Current <= x
  BY Turn DEF IInv, Types
<1>2. stage \in PerWorker => \A w \in Worker : w < next \/ w \in Recipients
  BY <1>1, Numbers DEF Recipients
<1>3. stage \notin PerWorker => \A m \in Manager : ActiveManager(m) => m < next \/ m \in Recipients
  BY <1>1, Numbers DEF Recipients
<1> QED
  BY <1>1, <1>2, <1>3

LEMMA ReceiveGood ==
    ASSUME IInv, Receive, reply[1].data
    PROVE  IInv'
<1>1. /\ waiting /\ reply # <<>> /\ reply' = <<>> /\ next' = Current + 1 /\ waiting' = FALSE
      /\ stage' = stage /\ ending' = ending /\ role' = role /\ recording' = recording
      /\ UNCHANGED inbox /\ UNCHANGED Dynamo
  BY DEF Receive, Current
<1>2. PICK m \in Manager :
         /\ m = Of(Current) /\ Good(reply[1], m)
         /\ \A n \in Manager : /\ busy[n] = "no"
                               /\ inbox[n] = <<>> \/ (n # m /\ Late(n) /\ inbox[n] = <<On(n)>>)
  BY <1>1, AnswerHasCome
<1>3. /\ Recipients # {} /\ stage \in (PerWorker \cup Broadcast) \ {"RECORD_ON"}
  BY <1>1 DEF IInv, Turns
<1>4. /\ Current \in Nat /\ next \in Nat /\ ~(Current < next)
      /\ stage \in PerWorker => \A w \in Worker : w < next \/ Current <= w
      /\ stage \notin PerWorker =>
            \A n \in Manager : ActiveManager(n) => n < next \/ Current <= n
  BY <1>3, FromHere
<1>5. PICK c \in Nat : c = Current
  BY <1>4
<1>6. Types'
  <2>1. next' \in Nat
    BY <1>1, <1>4
  <2> QED
    BY <1>1, <2>1 DEF IInv, Types, Dynamo, control, setup, flags, PerManager
<1>7. ASSUME NEW n \in Manager, n # m, Late(n)
      PROVE  Late(n)'
  <2>1. ActiveManager(n)' <=> ActiveManager(n)
    BY <1>1, ActiveStays
  <2>2. CASE stage = "RECORD_OFF"
    <3>1. n # c /\ c <= n /\ n \in Nat
      BY <1>2, <1>4, <1>5, <1>7, <2>2, Numbers DEF Of, PerWorker, Late
    <3>2. ~(n < c + 1)
      BY <3>1
    <3> QED
      BY <1>1, <1>5, <1>7, <2>1, <2>2, <3>2 DEF Late
  <2>3. CASE stage # "RECORD_OFF"
    BY <1>1, <1>3, <1>7, <2>1, <2>3 DEF Late
  <2> QED
    BY <2>2, <2>3
<1>8. Phases'
  <2>1. ASSUME NEW n \in Manager  PROVE Phase(n)'
    <3>1. busy'[n] = "no" /\ inbox'[n] = inbox[n] /\ On(n)' = On(n)
      BY <1>1, <1>2 DEF Dynamo, control, On
    <3>2. Unread(n)'
      BY <1>2, <1>7, <3>1 DEF Unread
    <3> QED
      BY <1>1, <3>2 DEF Phase, Spoken
  <2> QED
    BY <2>1 DEF Phases
<1>9. Turns'
  BY <1>1 DEF IInv, Turns
<1>10. ASSUME NEW n \in Manager, ActiveManager(n), stage \in {"START", "BEGIN_IO", "STOP"}
       PROVE  Passed(n)' <=> Passed(n)
  <2>1. n \in Nat /\ (n < next \/ c <= n)
    BY <1>4, <1>5, <1>10, Numbers DEF PerWorker
  <2>2. n < c + 1 <=> n < next \/ n = c
    BY <1>4, <1>5, <2>1
  <2> QED
    BY <1>1, <1>5, <2>2 DEF Passed, Replied
<1>11. ASSUME stage \in PerWorker, NEW w \in Worker, Told(w)'
       PROVE  Told(w)
  <2>1. w \in Nat /\ (w < next \/ c <= w) /\ w < c + 1
    BY <1>1, <1>4, <1>5, <1>11, Numbers DEF Told, Replied
  <2>2. w < next \/ w = c
    BY <1>4, <2>1
  <2> QED
    BY <1>1, <1>5, <2>2 DEF Told, Replied
<1> QED
  BY <1>1, <1>6, <1>8, <1>9, <1>10, <1>11, RoundStays

\* A negative answer.
LEMMA ReceiveBad ==
    ASSUME IInv, Receive, ~reply[1].data
    PROVE  IInv'
<1>1. /\ waiting /\ reply # <<>> /\ reply' = <<>> /\ Refused
      /\ role' = role /\ recording' = recording
      /\ UNCHANGED inbox /\ UNCHANGED Dynamo
  BY DEF Receive
<1>2. PICK m \in Manager :
         /\ m = Of(Current) /\ Good(reply[1], m)
         /\ \A n \in Manager : /\ busy[n] = "no"
                               /\ inbox[n] = <<>> \/ (n # m /\ Late(n) /\ inbox[n] = <<On(n)>>)
  BY <1>1, AnswerHasCome
<1>3. stage \in PerWorker \/ (stage = "BEGIN_IO" /\ m = M)
  BY <1>2 DEF Good
<1>4. \A n \in Manager : busy[n] = "no" /\ inbox[n] = <<>>
  BY <1>2, <1>3, NobodyLate DEF PerWorker
<1>5. /\ role' \in [Worker -> {"io", "idle", "none", "benched"}] /\ recording' \in BOOLEAN
      /\ ending \in {"no", "success", "error", "abort"}
  BY <1>1 DEF IInv, Types
<1>6. CASE stage \in PerWorker
  <2>1. Enter("ready") /\ ending' = ending
    BY <1>1, <1>6 DEF Refused, PerWorker
  <2>2. AllRested
    BY <1>6, Standing
  <2>3. "ready" \in Pause
    BY DEF Pause
  <2> QED
    BY <1>1, <1>4, <1>5, <2>1, <2>2, <2>3, EnterStep
<1>7. CASE stage = "BEGIN_IO" /\ m = M
  <2>1. Enter("STOP") /\ ending' = "error"
    BY <1>1, <1>7 DEF Refused, PerWorker
  <2>2. stage \notin PerWorker /\ Recipients # {}
    BY <1>1, <1>7 DEF PerWorker, IInv, Turns
  <2>3. PICK c \in Nat : c = Current /\ c = M
    BY <1>2, <1>7, <2>2, Numbers DEF Of
  <2>4. AllPassed
    <3>1. ASSUME NEW n \in Manager, ActiveManager(n)
          PROVE  n < next \/ n = c
      <4>1. n < next \/ c <= n
        BY <2>2, <2>3, <3>1, FromHere
      <4>2. n \in Nat /\ n <= c
        BY <2>3, Numbers
      <4> QED
        BY <4>1, <4>2
    <3> QED
      BY <1>1, <2>3, <3>1 DEF AllPassed, Passed, Replied
  <2>5. AllPerforming
    BY <1>7, <2>4, Standing
  <2>6. AllSetUp
    BY <1>7 DEF IInv, Configured, AllSetUp, PerWorker
  <2>7. "STOP" \in Broadcast
    BY DEF Broadcast
  <2> QED
    BY <1>1, <1>4, <1>5, <2>1, <2>5, <2>6, <2>7, EnterStep
<1> QED
  BY <1>3, <1>6, <1>7

\* The next message.
LEMMA SendStep ==
    ASSUME IInv, Send
    PROVE  IInv'
<1>1. /\ stage \notin Pause /\ ~waiting /\ Recipients # {}
      /\ UNCHANGED <<stage, ending, recording, role, reply, Dynamo>>
      /\ IF NeedsReply(stage) THEN waiting' = TRUE /\ next' = next
         ELSE next' = Current + 1 /\ waiting' = waiting
      /\ inbox' = [inbox EXCEPT ![Of(Current)] =
                       Append(@, [purpose |-> stage, worker |-> Current])]
  BY DEF Send, Current, Of
<1>2. reply = <<>> /\ \A n \in Manager : Unread(n)
  BY <1>1, RoundIsOver
<1>3. /\ Current \in Nat /\ next \in Nat /\ ~(Current < next)
      /\ stage \notin PerWorker => Current \in Manager /\ ActiveManager(Current)
      /\ stage \in PerWorker \cup Broadcast
  BY <1>1, FromHere, Turn DEF IInv, Types
<1>4. PICK c \in Nat : c = Current
  BY <1>3
<1>5. PICK m \in Manager : m = Of(Current)
  BY <1>1, Turn DEF IInv
<1>6. PICK a : a = [purpose |-> stage, worker |-> c]
  OBVIOUS
<1>7. /\ PerManager(inbox)' /\ inbox'[m] = Append(inbox[m], a)
      /\ \A n \in Manager : n # m => inbox'[n] = inbox[n]
  <2>1. inbox' = [inbox EXCEPT ![m] = Append(inbox[m], a)]
    BY <1>1, <1>4, <1>5, <1>6
  <2>2. inbox' = [n \in Manager |-> IF n = m THEN Append(inbox[m], a) ELSE inbox[n]]
    BY <2>1 DEF IInv, Types, PerManager
  <2> QED
    BY <2>2 DEF PerManager
<1>8. /\ busy[m] = "no"
      /\ inbox'[m] = <<a>> \/ (Late(m) /\ inbox'[m] = <<On(m), a>>)
  <2>1. CASE inbox[m] = <<>>
    BY <1>2, <1>7, <2>1, Short DEF Unread
  <2>2. CASE Late(m) /\ inbox[m] = <<On(m)>>
    BY <1>2, <1>7, <2>2, AppendTo DEF Unread
  <2> QED
    BY <1>2, <2>1, <2>2 DEF Unread
<1>9. CASE NeedsReply(stage)
  <2>1. waiting' = TRUE /\ next' = next /\ stage # "RECORD_ON"
    BY <1>1, <1>9 DEF NeedsReply
  <2>2. Recipients' = Recipients /\ Current' = Current /\ Of(Current)' = Of(Current)
    <3>1. Recipients' = Recipients
      BY <1>1, <2>1 DEF Recipients, ActiveManager
    <3>2. Current' = Current
      BY <3>1 DEF Current
    <3> QED
      BY <1>1, <3>1, <3>2 DEF Of
  <2>3. Message' = a
    BY <1>1, <1>4, <1>6, <2>2 DEF Message
  <2>4. \A n : Late(n)' <=> Late(n)
    BY <1>1, <2>1 DEF Late, ActiveManager
  <2>5. Types'
    BY <1>1, <1>7, <2>1 DEF IInv, Types, Dynamo, control, setup, flags
  <2>6. Phases'
    <3>1. Phase(m)'
      <4>1. Asked(m)'
        BY <1>1, <1>2, <1>8, <2>3, <2>4 DEF Asked, On, Dynamo, control
      <4>2. Spoken(m)'
        BY <1>5, <2>1, <2>2 DEF Spoken
      <4> QED
        BY <4>1, <4>2 DEF Phase
    <3>2. ASSUME NEW n \in Manager, n # m  PROVE Phase(n)'
      <4>1. Unread(n)'
        BY <1>1, <1>2, <1>7, <2>4, <3>2 DEF Unread, On, Dynamo, control
      <4>2. ~Spoken(n)'
        BY <1>5, <2>2, <3>2 DEF Spoken
      <4> QED
        BY <4>1, <4>2 DEF Phase
    <3> QED
      BY <3>1, <3>2 DEF Phases
  <2>7. Turns'
    BY <1>1, <1>2, <1>3, <2>1, <2>2 DEF IInv, Turns
  <2>8. \A n \in Manager : Passed(n)' <=> Passed(n)
    BY <1>1, <1>2, <2>1 DEF Passed, Replied
  <2>9. \A w \in Worker : Told(w)' => Told(w)
    BY <1>1, <1>2, <2>1 DEF Told, Replied
  <2> QED
    BY <1>1, <2>5, <2>6, <2>7, <2>8, <2>9, RoundStays
<1>10. CASE ~NeedsReply(stage)
  <2>1. waiting' = FALSE /\ next' = c + 1 /\ stage = "RECORD_ON"
    BY <1>1, <1>4, <1>10 DEF NeedsReply
  <2>2. m = c /\ ActiveManager(m) /\ a = On(m)
    BY <1>3, <1>4, <1>5, <1>6, <2>1 DEF Of, PerWorker, On
  <2>3. \A n : ActiveManager(n)' <=> ActiveManager(n)
    BY <1>1, ActiveStays
  <2>4. ~Late(m) /\ Late(m)'
    <3>1. m < c + 1 /\ ~(m < next)
      BY <1>3, <1>4, <2>2
    <3> QED
      BY <1>1, <2>1, <2>2, <2>3, <3>1 DEF Late
  <2>5. ASSUME NEW n \in Manager, Late(n)  PROVE Late(n)'
    <3>1. ActiveManager(n) /\ n < next /\ n \in Nat
      BY <2>1, <2>5, Numbers DEF Late
    <3>2. n < c + 1
      BY <1>3, <1>4, <3>1
    <3> QED
      BY <1>1, <2>1, <2>3, <3>1, <3>2 DEF Late
  <2>6. Types'
    <3>1. next' \in Nat
      BY <2>1
    <3> QED
      BY <1>1, <1>7, <2>1, <3>1 DEF IInv, Types, Dynamo, control, setup, flags
  <2>7. Phases'
    <3>1. ASSUME NEW n \in Manager  PROVE Unread(n)'
      <4>1. busy'[n] = "no" /\ On(n)' = On(n)
        BY <1>1, <1>2 DEF Unread, On, Dynamo, control
      <4>2. CASE n = m
        BY <1>8, <2>2, <2>4, <4>1, <4>2 DEF Unread
      <4>3. CASE n # m
        BY <1>2, <1>7, <2>5, <4>1, <4>3 DEF Unread
      <4> QED
        BY <4>2, <4>3
    <3> QED
      BY <2>1, <3>1 DEF Phases, Phase, Spoken
  <2>8. Turns'
    BY <1>1, <1>2, <2>1 DEF IInv, Turns
  <2>9. stage \notin {"START", "BEGIN_IO", "STOP"} /\ stage \notin PerWorker
    BY <2>1 DEF PerWorker
  <2> QED
    BY <1>1, <2>6, <2>7, <2>8, <2>9, RoundStays
<1> QED
  BY <1>9, <1>10

LEMMA IometerInductive ==
    ASSUME IInv, User \/ Iometer
    PROVE  IInv'
  BY GoStep, RampTimerStep, DisplayTimerStep, StopTestNow, SendStep, ReceiveGood, ReceiveBad,
     ContinueStep, TestDoneStep DEF User, Iometer

-------------------------------------------------------------------------------
(* The theorems. *)

LEMMA Initially == Init => IInv
<1> SUFFICES ASSUME Init PROVE IInv
  OBVIOUS
<1> USE DEF Init
<1>1. Types
  BY DEF Types, PerManager, UsesTargets, PerWorker, Broadcast, Pause
<1>2. Phases /\ Turns
  BY DEF Phases, Phase, Spoken, Unread, Turns
<1>3. Configured
  BY DEF Configured, PerWorker
<1>4. Single /\ DataTrue
  BY DEF Single, DataTrue
<1>5. ASSUME NEW w \in Worker  PROVE Place(ManagerOf[w], w)
  <2>1. Rested(w)
    BY DEF Rested, Stray
  <2> QED
    BY <2>1 DEF Place
<1> QED
  BY <1>1, <1>2, <1>3, <1>4, <1>5 DEF IInv, Places

LEMMA Stuttering ==
    ASSUME IInv, UNCHANGED vars
    PROVE  IInv'
<1>1. UNCHANGED Dynamo /\ UNCHANGED view /\ UNCHANGED <<inbox, reply>>
  BY DEF vars, Dynamo
<1>2. Types' /\ Turns'
  BY <1>1, ViewStays DEF IInv, Types, Turns, Dynamo, control, setup, flags, view
<1>3. ASSUME NEW m \in Manager  PROVE Phase(m)'
  BY <1>1, PhaseStays DEF IInv, Phases, Dynamo, control
<1>4. \A m : Passed(m)' <=> Passed(m)
  BY <1>1, ViewStays DEF Passed, Replied, view
<1>5. \A w : Told(w)' <=> Told(w)
  BY <1>1, ViewStays DEF Told, Replied, view
<1> QED
  BY <1>1, <1>2, <1>3, <1>4, <1>5, RoundStays DEF Phases, view

LEMMA Inductive ==
    ASSUME Tame, IInv, [Next]_vars
    PROVE  IInv'
  BY IometerInductive, ManagerInductive, ThreadInductive, Stuttering DEF Next

\* The conversation, the set-up and the grunts fit together in every state.
THEOREM ControlInvariance ==
    ASSUME Tame
    PROVE  Spec => []IInv
<1>1. IInv /\ [Next]_vars => IInv'
  BY Inductive
<1> QED
  BY <1>1, Initially, PTL DEF Spec

\* The lengths of the sequences of messages that occur.
LEMMA AtMostTwo ==
    ASSUME NEW s, NEW a, NEW b, s = <<>> \/ s = <<a>> \/ s = <<b>> \/ s = <<a, b>>
    PROVE  Len(s) <= 2
<1>1. CASE s = <<>>
  BY <1>1
<1>2. CASE s = <<a>>
  BY <1>2
<1>3. CASE s = <<b>>
  BY <1>3
<1>4. CASE s = <<a, b>>
  BY <1>4
<1> QED
  BY <1>1, <1>2, <1>3, <1>4

LEMMA AtMostOne ==
    ASSUME NEW s, NEW a, s = <<>> \/ s = <<a>>
    PROVE  Len(s) <= 1
<1>1. CASE s = <<>>
  BY <1>1
<1>2. CASE s = <<a>>
  BY <1>2
<1> QED
  BY <1>1, <1>2

\* The types; the ports never hold more than two messages for a manager (RECORD_ON is not
\* answered, so the next may join it) and one answer for Iometer.
THEOREM ControlTypeCorrect ==
    ASSUME Tame
    PROVE  Spec => []TypeOK
<1>1. IInv => TypeOK
  <2> SUFFICES ASSUME IInv PROVE TypeOK
    OBVIOUS
  <2>1. ASSUME NEW m \in Manager  PROVE Len(inbox[m]) <= 2
    <3> DEFINE on == On(m)  message == Message
    <3>1. Phase(m)
      BY DEF IInv, Phases
    <3>2. \/ inbox[m] = <<>> \/ inbox[m] = <<on>>
          \/ inbox[m] = <<message>> \/ inbox[m] = <<on, message>>
      BY <3>1 DEF Phase, Unread, Asked, Working, Answered
    <3> HIDE DEF on, message
    <3> QED
      BY <3>2, AtMostTwo
  <2>2. Len(reply) <= 1
    <3>1. CASE reply = <<>>
      BY <3>1
    <3>2. CASE reply # <<>>
      <4>1. reply = <<reply[1]>>
        <5>1. waiting /\ Recipients # {}
          BY <3>2 DEF IInv, Turns
        <5>2. PICK m \in Manager : m = Of(Current)
          BY <5>1, Turn DEF IInv
        <5> QED
          BY <3>2, <5>1, <5>2 DEF IInv, Phases, Phase, Spoken, Asked, Working, Answered
      <4> DEFINE answer == reply[1]
      <4>2. reply = <<answer>>
        BY <4>1
      <4> HIDE DEF answer
      <4> QED
        BY <4>2, AtMostOne
    <3> QED
      BY <3>1, <3>2
  <2> QED
    BY <2>1, <2>2 DEF IInv, Types, TypeOK
<1> QED
  BY <1>1, ControlInvariance, PTL

\* A grunt that rests has no thread at its targets.
LEMMA RestedUsesNothing ==
    ASSUME IInv, NEW w \in Worker, Rested(w)
    PROVE  Threads(w, UsesTargets) = {}
  BY DEF IInv, Single, Rested, Stray, Threads, UsesTargets

\* Whatever Set_Access and Set_Targets free (IOGrunt.cpp) is used by no thread: every
\* test that came before has been stopped and its threads have ended.
THEOREM NothingFreedInUse ==
    ASSUME Tame
    PROVE  Spec => []TargetsUnused
<1>1. IInv => TargetsUnused
  BY RestedUsesNothing, Standing DEF TargetsUnused, AllRested
<1> QED
  BY <1>1, ControlInvariance, PTL

\* When Begin_IO lets a grunt ramp up, and until Stop_Test, the grunt has no thread that
\* is still opening its targets.
THEOREM BeginsOpened ==
    ASSUME Tame
    PROVE  Spec => []BegunMeansOpened
<1>1. IInv => BegunMeansOpened
  <2> SUFFICES ASSUME IInv, NEW w \in Worker,
                      grunt_state[w] \in {"TestRampingUp", "TestRecording", "TestRampingDown"}
               PROVE  Threads(w, {"open", "abandon"}) = {}
    BY DEF BegunMeansOpened
  <2>1. PICK m \in Manager : m = ManagerOf[w]
    BY Numbers
  <2>2. Place(m, w) /\ stage \in PerWorker \cup Broadcast \cup Pause /\ thread[w][2] = "none"
    BY <2>1 DEF IInv, Places, Types, Single
  <2>3. Rested(w) \/ Opening(w) \/ Performing(w) \/ Ending(w)
    BY <2>2 DEF Place, PerWorker, Broadcast, Pause
  <2>4. Rested(w) => thread[w][1] \notin {"open", "abandon"}
    BY DEF Rested, Stray
  <2>5. thread[w][1] \notin {"open", "abandon"}
    BY <2>3, <2>4 DEF Opening, Performing, Ending
  <2> QED
    BY <2>2, <2>5 DEF Threads
<1> QED
  BY <1>1, ControlInvariance, PTL

\* The workers whose results Report_Results sends are those Iometer reads from the
\* message: neither more nor fewer.
THEOREM ReportersAgree ==
    ASSUME Tame
    PROVE  Spec => []ReportsAgree
<1>1. IInv => ReportsAgree
  <2> SUFFICES ASSUME IInv, reply # <<>>, reply[1].purpose \in {"REPORT_RESULTS", "REPORT_UPDATE"}
               PROVE  reply[1].results = {w \in WorkersOf(reply[1].from) : ActiveWorker(w)}
    BY DEF ReportsAgree
  <2>1. waiting /\ Recipients # {}
    BY DEF IInv, Turns
  <2>2. PICK m \in Manager : m = Of(Current) /\ Good(reply[1], m)
    BY <2>1, AnswerHasCome
  <2> QED
    BY <2>2 DEF Good
<1> QED
  BY <1>1, ControlInvariance, PTL

\* While the final results are reported, after STOP, no thread performs I/O that would
\* be added to them.
THEOREM FinalResultsAreSettled ==
    ASSUME Tame
    PROVE  Spec => []FinalResultsSettled
<1>1. IInv => FinalResultsSettled
  BY RestedUsesNothing, Standing DEF FinalResultsSettled, AllRested, Reporting
<1> QED
  BY <1>1, ControlInvariance, PTL
===============================================================================
