---------------------------- MODULE Login_proofs ----------------------------
(***************************************************************************)
(* For every set of Dynamos, size of a request and backlog of the system:  *)
(* Iometer's list of managers is true of the processes (ListIsTrue).       *)
(*                                                                         *)
(* The inductive invariant says where each Dynamo is: one that waits for   *)
(* its turn has no answer and no connection yet, the one whose turn it is  *)
(* has just been answered, and one with a connection was answered and is   *)
(* listed or has been told to leave.                                       *)
(***************************************************************************)
EXTENDS Login, SequenceTheorems, TLAPS

\* The peer has been answered LOGIN_OK and AddManager runs for it.
InAdd == login_state \in {"adding", "updating"}

\* Those who have connected and not been answered.
Unanswered == Range(backlog) \cup (IF peer = None \/ InAdd THEN {} ELSE {peer})

\* Each connection is in one place, and the place fits the state of OnIdle.
\* Past the check of the version the peer has the right one.
PortWhole ==
    /\ IsInjective(backlog) /\ peer \notin Range(backlog)
    /\ login_state \in {"closed", "open", "failed"} => peer = None
    /\ login_state = "receiving" => got = <<>>
    /\ login_state \in {"waiting_for_data", "receiving_data", "adding", "updating"}
           => peer \notin Incompatible

\* Who has not been answered is nowhere else.
UnansweredWait ==
    \A d \in Unanswered :
        /\ pc[d] \in {"sending", "dead"} /\ reply[d] = "none"
        /\ d \notin linked /\ d \notin Range(manager_list)

\* Between LOGIN_OK and the end of AddManager.
PeerAnswered ==
    /\ login_state = "adding" =>
          /\ reply[peer] = "ok" /\ pc[peer] \in {"sending", "accepting", "dead"}
          /\ peer \notin linked /\ peer \notin Range(manager_list)
    /\ login_state = "updating" => peer \in Range(manager_list)

\* The second connection exists for those that were answered, and lasts until
\* they are told to leave; a message to leave waits for no one else.
LinkedAnswered ==
    /\ \A d \in linked :
          /\ pc[d] \in {"sending", "accepting", "running"} /\ reply[d] = "ok"
          /\ d \in Range(manager_list) \/ inbox[d] # "none"
    /\ \A d \in Dynamos : pc[d] = "running" => d \in linked
    /\ \A d \in Dynamos : inbox[d] # "none" => d \in linked \/ pc[d] = "dead"
    /\ \A d \in listening : pc[d] \notin Ends

\* Iometer's list.
ListedAnswered ==
    /\ IsInjective(manager_list)
    /\ \A d \in Range(manager_list) :
          /\ d \notin Incompatible /\ inbox[d] = "none" /\ reply[d] = "ok"
          /\ pc[d] # "dead" => d \in linked

\* The first unit that will be read from a connection is the first one sent.
Fresh(d) == IF wire[d] = <<>> THEN sent[d] = 0 ELSE wire[d][1] = 1

\* As long as no Receive was given up, requests are read from their beginning.
FromTheStart ==
    "late" \notin mishaps =>
        /\ orphan = 0
        /\ login_state = "accepting" => peer = None
        /\ \A d \in Range(backlog) : Fresh(d)
        /\ login_state \in {"waiting", "receiving"} => Fresh(peer)
        /\ \A d \in Dynamos : reply[d] = "wrong" => d \in Incompatible

IInv == /\ TypeOK
        /\ PortWhole /\ UnansweredWait /\ PeerAnswered
        /\ LinkedAnswered /\ ListedAnswered /\ FromTheStart

-----------------------------------------------------------------------------
(* Sequences without repetition: the list of managers and the backlog.     *)

\* Append of one that is not there, as AddManager does.
LEMMA AppendOnce ==
  ASSUME NEW S, NEW s \in Seq(S), NEW e \in S, e \notin Range(s), IsInjective(s)
  PROVE  /\ Append(s, e) \in Seq(S) /\ IsInjective(Append(s, e))
         /\ Range(Append(s, e)) = Range(s) \cup {e}
<1> DEFINE t == Append(s, e)
<1>1. /\ t \in Seq(S) /\ Len(t) = Len(s) + 1 /\ Len(s) \in Nat
      /\ \A i \in 1 .. Len(s) : t[i] = s[i]
      /\ t[Len(s) + 1] = e
  OBVIOUS
<1>2. /\ \A i \in 1 .. Len(s) : s[i] # e
      /\ \A i, j \in 1 .. Len(s) : s[i] = s[j] => i = j
  BY LenProperties DEF Range, IsInjective
<1>3. ASSUME NEW i \in 1 .. Len(t), NEW j \in 1 .. Len(t), t[i] = t[j] PROVE i = j
  BY <1>2, <1>3
<1>4. IsInjective(t)
  <2>1. DOMAIN t = 1 .. Len(t)
    OBVIOUS
  <2> HIDE DEF t
  <2> QED  BY <1>3 DEF IsInjective
<1>5. Range(t) = {t[i] : i \in 1 .. Len(t)} /\ Range(s) = {s[i] : i \in 1 .. Len(s)}
  BY <1>1, RangeEquality
<1>6. Range(t) = Range(s) \cup {e}
  <2> HIDE DEF t
  <2> QED  BY <1>1, <1>5
<1> QED
  BY <1>4, <1>6

\* What is left when the first is taken out.
LEMMA TailOnce ==
  ASSUME NEW S, NEW s \in Seq(S), s # <<>>, IsInjective(s)
  PROVE  /\ Head(s) \in S /\ Head(s) \in Range(s)
         /\ Tail(s) \in Seq(S) /\ Len(Tail(s)) = Len(s) - 1
         /\ IsInjective(Tail(s))
         /\ Range(Tail(s)) = Range(s) \ {Head(s)}
<1> DEFINE t == Tail(s)
<1>1. /\ Head(s) \in S /\ t \in Seq(S) /\ Len(t) = Len(s) - 1
      /\ \A i \in 1 .. Len(t) : t[i] = s[i + 1]
      /\ Len(s) \in Nat \ {0} /\ Head(s) = s[1]
  OBVIOUS
<1>2. \A i, j \in 1 .. Len(s) : s[i] = s[j] => i = j
  BY DEF IsInjective
<1> HIDE DEF t
<1>3. Range(t) = {t[i] : i \in 1 .. Len(t)} /\ Range(s) = {s[i] : i \in 1 .. Len(s)}
  <2>1. t \in Seq(S) /\ s \in Seq(S)
    BY <1>1
  <2>2. \A u \in Seq(S) : Range(u) = {u[i] : i \in 1 .. Len(u)}
    BY RangeEquality, Zenon
  <2> QED  BY <2>1, <2>2, Zenon
<1>4. DOMAIN t = 1 .. Len(t)
  BY <1>1
<1>5. IsInjective(t)
  <2>1. ASSUME NEW i \in 1 .. Len(t), NEW j \in 1 .. Len(t), t[i] = t[j] PROVE i = j
    BY <1>1, <1>2, <2>1
  <2> QED  BY <2>1 DEF IsInjective
<1>6. ASSUME NEW x PROVE x \in Range(t) <=> x \in Range(s) /\ x # Head(s)
  <2>1. ASSUME x \in Range(t) PROVE x \in Range(s) /\ x # Head(s)
    <3>1. PICK i \in 1 .. Len(t) : x = t[i]
      BY <2>1, <1>3
    <3>2. i + 1 \in 1 .. Len(s) /\ 1 \in 1 .. Len(s) /\ i + 1 # 1 /\ x = s[i + 1]
      BY <3>1, <1>1
    <3> QED  BY <3>2, <1>2, <1>3
  <2>2. ASSUME x \in Range(s), x # Head(s) PROVE x \in Range(t)
    <3>1. PICK i \in 1 .. Len(s) : x = s[i]
      BY <2>2, <1>3
    <3>2. i - 1 \in 1 .. Len(t) /\ x = t[i - 1]
      BY <3>1, <2>2, <1>1
    <3> QED  BY <3>2, <1>3
  <2> QED  BY <2>1, <2>2
<1> QED
  BY <1>3, <1>5, <1>6 DEF t

\* What is left when one is taken out, as RemoveManager does.
LEMMA RemoveOnce ==
  ASSUME NEW S, NEW s \in Seq(S), NEW k \in DOMAIN s, IsInjective(s)
  PROVE  /\ RemoveAt(s, k) \in Seq(S) /\ IsInjective(RemoveAt(s, k))
         /\ s[k] \in S /\ s[k] \in Range(s)
         /\ Range(RemoveAt(s, k)) = Range(s) \ {s[k]}
<1> DEFINE t == RemoveAt(s, k)
           a == SubSeq(s, 1, k - 1)
           b == SubSeq(s, k + 1, Len(s))
<1>1. /\ Len(s) \in Nat /\ DOMAIN s = 1 .. Len(s) /\ k \in 1 .. Len(s)
      /\ \A i \in 1 .. Len(s) : s[i] \in S
  OBVIOUS
<1>2. \A i, j \in 1 .. Len(s) : s[i] = s[j] => i = j
  BY DEF IsInjective
<1>3. /\ a \in Seq(S) /\ Len(a) = k - 1
      /\ \A i \in 1 .. k - 1 : a[i] = s[i]
  <2>1. \A i \in 1 .. k - 1 : s[i] \in S
    OBVIOUS
  <2>2. /\ a \in Seq(S) /\ Len(a) = IF 1 <= k - 1 THEN k - 1 - 1 + 1 ELSE 0
        /\ \A i \in 1 .. k - 1 - 1 + 1 : a[i] = s[1 + i - 1]
    BY SubSeqProperties
  <2> HIDE DEF a
  <2> QED  BY <2>2
<1>4. /\ b \in Seq(S) /\ Len(b) = Len(s) - k
      /\ \A i \in 1 .. Len(s) - k : b[i] = s[k + i]
  <2>1. \A i \in k + 1 .. Len(s) : s[i] \in S
    OBVIOUS
  <2>2. /\ b \in Seq(S) /\ Len(b) = IF k + 1 <= Len(s) THEN Len(s) - (k + 1) + 1 ELSE 0
        /\ \A i \in 1 .. Len(s) - (k + 1) + 1 : b[i] = s[k + 1 + i - 1]
    BY SubSeqProperties
  <2> HIDE DEF b
  <2> QED  BY <2>2
<1>5. t = a \o b
  BY DEF RemoveAt
<1> HIDE DEF a, b, t
<1>6. /\ t \in Seq(S) /\ Len(t) = Len(s) - 1
      /\ \A i \in 1 .. Len(t) : t[i] = IF i < k THEN s[i] ELSE s[i + 1]
  <2>1. /\ t \in Seq(S) /\ Len(t) = Len(a) + Len(b)
        /\ \A i \in 1 .. Len(a) + Len(b) :
               t[i] = IF i <= Len(a) THEN a[i] ELSE b[i - Len(a)]
    BY <1>3, <1>4, <1>5, ConcatProperties, Zenon
  <2>2. t \in Seq(S) /\ Len(t) = Len(s) - 1
    BY <2>1, <1>3, <1>4
  <2>3. ASSUME NEW i \in 1 .. Len(t) PROVE t[i] = IF i < k THEN s[i] ELSE s[i + 1]
    <3>1. i \in 1 .. Len(s) - 1 /\ t[i] = IF i <= Len(a) THEN a[i] ELSE b[i - Len(a)]
      BY <2>1, <1>1, <1>3, <1>4
    <3>2. CASE i < k
      BY <3>1, <3>2, <1>1, <1>3
    <3>3. CASE ~(i < k)
      <4>1. i - (k - 1) \in 1 .. Len(s) - k /\ k + (i - (k - 1)) = i + 1 /\ ~(i <= k - 1)
        BY <3>1, <3>3, <1>1
      <4> QED  BY <3>1, <3>3, <1>3, <1>4
    <3> QED  BY <3>2, <3>3
  <2> QED  BY <2>2, <2>3
<1>7. Range(t) = {t[i] : i \in 1 .. Len(t)} /\ Range(s) = {s[i] : i \in 1 .. Len(s)}
  BY <1>6, RangeEquality
<1>8. DOMAIN t = 1 .. Len(t)
  OBVIOUS
<1>9. IsInjective(t)
  <2>1. ASSUME NEW i \in 1 .. Len(t), NEW j \in 1 .. Len(t), t[i] = t[j] PROVE i = j
    BY <1>2, <1>6, <2>1
  <2> QED  BY <2>1 DEF IsInjective
<1>10. ASSUME NEW x PROVE x \in Range(t) <=> x \in Range(s) /\ x # s[k]
  <2>1. ASSUME x \in Range(t) PROVE x \in Range(s) /\ x # s[k]
    <3>1. PICK i \in 1 .. Len(t) : x = t[i]
      BY <2>1, <1>7
    <3>2. PICK j \in 1 .. Len(s) : j # k /\ x = s[j]
      BY <3>1, <1>6
    <3> QED  BY <3>2, <1>2, <1>7
  <2>2. ASSUME x \in Range(s), x # s[k] PROVE x \in Range(t)
    <3>1. PICK j \in 1 .. Len(s) : x = s[j] /\ j # k
      BY <2>2, <1>7
    <3>2. CASE j < k
      <4>1. j \in 1 .. Len(t) /\ x = t[j]
        BY <3>1, <3>2, <1>1, <1>6
      <4> QED  BY <4>1, <1>7
    <3>3. CASE j > k
      <4>1. j - 1 \in 1 .. Len(t) /\ x = t[j - 1]
        BY <3>1, <3>3, <1>1, <1>6
      <4> QED  BY <4>1, <1>7
    <3> QED  BY <3>1, <3>2, <3>3, <1>1
  <2> QED  BY <2>1, <2>2
<1> QED
  BY <1>1, <1>6, <1>7, <1>9, <1>10 DEF t

\* An empty list.
LEMMA EmptyOnce ==
  ASSUME NEW S
  PROVE  <<>> \in Seq(S) /\ Len(<<>>) = 0 /\ Range(<<>>) = {} /\ IsInjective(<<>>)
  BY EmptySeq DEF Range, IsInjective
-----------------------------------------------------------------------------
(* What the steps have in common. *)

\* Connections and managers are Dynamos; an empty backlog has none.
LEMMA Where ==
  ASSUME TypeOK
  PROVE  /\ Range(backlog) \subseteq Dynamos /\ None \notin Range(backlog)
         /\ Range(manager_list) \subseteq Dynamos
         /\ Range(<<>>) = {}
<1>1. Range(backlog) \subseteq Dynamos /\ Range(manager_list) \subseteq Dynamos
  BY RangeOfSeq DEF TypeOK
<1>2. Range(<<>>) = {}
  BY EmptyOnce
<1> QED
  BY <1>1, <1>2, LoginAssumption DEF LoginAssumption

\* Mishaps are not forgotten.
LEMMA Remembered ==
  ASSUME NEW what, Mishap(what)
  PROVE  mishaps \subseteq mishaps' /\ what \in mishaps'
  BY DEF Mishap

\* What a Receive that completes leaves: the units are in order and of this
\* peer, and a Message is a single unit.
LEMMA Taken ==
  ASSUME IInv, login_state \in {"receiving", "receiving_data"}, NEW more \in BOOLEAN, Takes(more)
  PROVE  /\ peer \in Dynamos /\ wire[peer] # <<>>
         /\ got' \in Seq(1 .. Units) /\ Len(got') < Units
         /\ wire' \in [Dynamos -> Seq(1 .. Units)]
         /\ \A d \in Dynamos : d # peer => wire'[d] = wire[d]
         /\ login_state = "receiving" => ~more /\ got'[1] = wire[peer][1]
<1> DEFINE w == wire[peer]
<1>1. PICK k \in 1 .. Len(w) :
         /\ k <= Remaining /\ more = (k < Remaining)
         /\ got' = got \o SubSeq(w, 1, k)
         /\ wire' = [wire EXCEPT ![peer] = SubSeq(@, k + 1, Len(@))]
  BY DEF Takes
<1>2. /\ peer \in Dynamos /\ w \in Seq(1 .. Units) /\ got \in Seq(1 .. Units)
      /\ Len(got) < Units /\ Len(got) \in Nat /\ Units \in Nat \ {0, 1}
      /\ Len(w) \in Nat
      /\ login_state = "receiving" => got = <<>> /\ Len(got) = 0
  BY LoginAssumption, LenProperties, EmptySeq DEF LoginAssumption, IInv, TypeOK, PortWhole
<1>3. /\ w # <<>>
      /\ \A i \in 1 .. Len(w) : w[i] \in 1 .. Units
  BY <1>2, EmptySeq
<1> DEFINE a == SubSeq(w, 1, k)
           b == SubSeq(w, k + 1, Len(w))
<1>4. /\ a \in Seq(1 .. Units) /\ Len(a) = k /\ a[1] = w[1]
  <2>1. \A i \in 1 .. k : w[i] \in 1 .. Units
    BY <1>3
  <2>2. /\ a \in Seq(1 .. Units) /\ Len(a) = IF 1 <= k THEN k - 1 + 1 ELSE 0
        /\ \A i \in 1 .. k - 1 + 1 : a[i] = w[1 + i - 1]
    BY <2>1, SubSeqProperties
  <2> HIDE DEF a
  <2> QED  BY <2>2, <1>2
<1>5. b \in Seq(1 .. Units)
  <2>1. \A i \in k + 1 .. Len(w) : w[i] \in 1 .. Units
    BY <1>3
  <2> QED  BY <2>1, SubSeqProperties
<1> HIDE DEF a, b
<1>6. /\ got' \in Seq(1 .. Units) /\ Len(got') = Len(got) + k
      /\ Len(got) = 0 => got'[1] = w[1]
  <2>1. got' = got \o a
    BY <1>1 DEF a
  <2>2. /\ got \o a \in Seq(1 .. Units) /\ Len(got \o a) = Len(got) + Len(a)
        /\ \A i \in 1 .. Len(got) + Len(a) :
               (got \o a)[i] = IF i <= Len(got) THEN got[i] ELSE a[i - Len(got)]
    <3>1. got \in Seq(1 .. Units) /\ a \in Seq(1 .. Units)
      BY <1>2, <1>4
    <3> QED  BY <3>1, ConcatProperties, Zenon
  <2>3. /\ got' \in Seq(1 .. Units) /\ Len(got') = Len(got) + Len(a)
        /\ \A i \in 1 .. Len(got) + Len(a) :
               got'[i] = IF i <= Len(got) THEN got[i] ELSE a[i - Len(got)]
    BY <2>1, <2>2, Zenon
  <2>4. Len(got) = 0 => got'[1] = a[1 - 0]
    BY <1>1, <1>4
  <2> QED  BY <2>3, <1>4
<1>7. /\ Len(got') < Units
      /\ login_state = "receiving" => ~more
  <2>1. Remaining = IF login_state = "receiving" THEN 1 - Len(got) ELSE Units - 1 - Len(got)
    BY DEF Remaining, Size
  <2>2. k \in Nat \ {0} /\ k <= Remaining /\ more = (k < Remaining)
    BY <1>1
  <2>3. Len(got') < Units /\ (login_state = "receiving" => ~(k < Remaining))
    BY <2>1, <2>2, <1>2, <1>6
  <2> QED  BY <2>2, <2>3
<1>8. /\ wire' \in [Dynamos -> Seq(1 .. Units)]
      /\ \A d \in Dynamos : d # peer => wire'[d] = wire[d]
  <2>1. wire' = [wire EXCEPT ![peer] = b]
    BY <1>1 DEF b
  <2> QED  BY <2>1, <1>2, <1>5 DEF IInv, TypeOK
<1> QED
  BY <1>2, <1>6, <1>7, <1>8

\* Closing the login port: whoever waited is gone, the others are as they were.
LEMMA Closed ==
  ASSUME IInv, Close
  PROVE  /\ peer' = None /\ backlog' = <<>> /\ login_state' = "failed"
         /\ reply' \in [Dynamos -> {"none", "ok", "wrong", "lost"}]
         /\ \A d \in Dynamos : reply[d] # "none" => reply'[d] = reply[d]
         /\ \A d \in Dynamos : reply'[d] \in {reply[d], "lost"}
         /\ Range(backlog') = {} /\ IsInjective(backlog')
         /\ backlog' \in Seq(Dynamos) /\ Len(backlog') = 0
<1>1. peer' = None /\ backlog' = <<>> /\ login_state' = "failed"
  BY DEF Close
<1>2. /\ reply' \in [Dynamos -> {"none", "ok", "wrong", "lost"}]
      /\ \A d \in Dynamos : reply[d] # "none" => reply'[d] = reply[d]
      /\ \A d \in Dynamos : reply'[d] \in {reply[d], "lost"}
  BY DEF Close, Dropped, IInv, TypeOK
<1> QED
  BY <1>1, <1>2, EmptyOnce

-----------------------------------------------------------------------------
(* The steps. *)

\* PortLogin.Create opens the login port: nobody has connected yet.
LEMMA OpenPortStep ==
  ASSUME IInv, OpenPort
  PROVE  IInv'
<1> USE DEF IInv, port, dynamo
<1>1. TypeOK'
  BY DEF OpenPort, TypeOK, Ends
<1>2. PortWhole'
  BY DEF OpenPort, PortWhole, TypeOK
<1>3. UnansweredWait'
  BY DEF OpenPort, UnansweredWait, TypeOK, Unanswered, InAdd, PortWhole
<1>4. PeerAnswered'
  BY DEF OpenPort, PeerAnswered, TypeOK, UnansweredWait, Unanswered, InAdd, LinkedAnswered, Ends
<1>5. LinkedAnswered'
  BY DEF OpenPort, LinkedAnswered, TypeOK, UnansweredWait, Unanswered, InAdd, PeerAnswered,
     ListedAnswered, Ends
<1>6. ListedAnswered'
  BY DEF OpenPort, ListedAnswered, TypeOK, UnansweredWait, Unanswered, InAdd, PeerAnswered,
     LinkedAnswered, Ends
<1>7. FromTheStart'
  BY DEF OpenPort, FromTheStart, TypeOK, Fresh, PortWhole
<1> QED
  BY <1>1, <1>2, <1>3, <1>4, <1>5, <1>6, <1>7

\* OnIdle posts an Accept.
LEMMA AcceptStep ==
  ASSUME IInv, Accept
  PROVE  IInv'
<1> USE DEF IInv, port, dynamo
<1>1. TypeOK'
  BY DEF Accept, TypeOK, Ends
<1>2. PortWhole'
  BY DEF Accept, PortWhole, TypeOK
<1>3. UnansweredWait'
  BY DEF Accept, UnansweredWait, TypeOK, Unanswered, InAdd, PortWhole
<1>4. PeerAnswered'
  BY DEF Accept, PeerAnswered, TypeOK, UnansweredWait, Unanswered, InAdd, LinkedAnswered, Ends
<1>5. LinkedAnswered'
  BY DEF Accept, LinkedAnswered, TypeOK, UnansweredWait, Unanswered, InAdd, PeerAnswered,
     ListedAnswered, Ends
<1>6. ListedAnswered'
  BY DEF Accept, ListedAnswered, TypeOK, UnansweredWait, Unanswered, InAdd, PeerAnswered,
     LinkedAnswered, Ends
<1>7. FromTheStart'
  BY DEF Accept, FromTheStart, TypeOK, Fresh, PortWhole
<1> QED
  BY <1>1, <1>2, <1>3, <1>4, <1>5, <1>6, <1>7

\* The Accept is complete: the first of the backlog is the peer, or, after a
\* timeout, still the one before.
LEMMA AcceptedStep ==
  ASSUME IInv, Accepted
  PROVE  IInv'
<1> USE DEF IInv, port, dynamo
<1>a. peer = None => /\ Head(backlog) \in Range(backlog) /\ Tail(backlog) \in Seq(Dynamos)
                     /\ Len(Tail(backlog)) <= Backlog /\ IsInjective(Tail(backlog))
                     /\ Range(Tail(backlog)) = Range(backlog) \ {Head(backlog)}
  <2>1. ASSUME peer = None PROVE backlog \in Seq(Dynamos) /\ backlog # <<>> /\ IsInjective(backlog)
    BY <2>1 DEF Accepted, TypeOK, PortWhole, Idle, Compatible, vars
  <2>2. Backlog \in Nat /\ Len(backlog) <= Backlog /\ Len(backlog) \in Nat
    BY LenProperties, Where, LoginAssumption DEF TypeOK, LoginAssumption, Idle, Compatible, vars
  <2> QED  BY <2>1, <2>2, TailOnce DEF Compatible, vars
<1>1. TypeOK'
  BY <1>a, Where DEF Accepted, TypeOK, Ends, Idle, Compatible, vars
<1>2. PortWhole'
  BY <1>a DEF Accepted, PortWhole, TypeOK, Unanswered, InAdd, Idle, Compatible, vars
<1>3. UnansweredWait'
  BY <1>a DEF Accepted, UnansweredWait, TypeOK, Unanswered, InAdd, PortWhole, Idle, Compatible, vars
<1>4. PeerAnswered'
  BY <1>a DEF Accepted, PeerAnswered, TypeOK, UnansweredWait, Unanswered, InAdd, LinkedAnswered,
     Ends, Idle, Compatible, vars
<1>5. LinkedAnswered'
  BY <1>a DEF Accepted, LinkedAnswered, TypeOK, UnansweredWait, Unanswered, InAdd, PeerAnswered,
     ListedAnswered, Ends, Idle, Compatible, vars
<1>6. ListedAnswered'
  BY <1>a DEF Accepted, ListedAnswered, TypeOK, UnansweredWait, Unanswered, InAdd, PeerAnswered,
     LinkedAnswered, Ends, Idle, Compatible, vars
<1>7. FromTheStart'
  BY <1>a DEF Accepted, FromTheStart, TypeOK, Fresh, PortWhole, Idle, Compatible, vars
<1> QED
  BY <1>1, <1>2, <1>3, <1>4, <1>5, <1>6, <1>7

\* Peek finds data and a Receive is posted.
LEMMA ReceiveStep ==
  ASSUME IInv, Receive
  PROVE  IInv'
<1> USE DEF IInv, port, dynamo
<1>a. got' = <<>> /\ got' \in Seq(1 .. Units) /\ Len(got') = 0
  BY EmptySeq DEF Receive, Idle, Compatible, vars
<1>1. TypeOK'
  BY <1>a, Where, LoginAssumption DEF Receive, TypeOK, Ends, LoginAssumption, Idle, Compatible, vars
<1>2. PortWhole'
  BY <1>a DEF Receive, PortWhole, TypeOK, Unanswered, InAdd, Idle, Compatible, vars
<1>3. UnansweredWait'
  BY <1>a DEF Receive, UnansweredWait, TypeOK, Unanswered, InAdd, PortWhole, Idle, Compatible, vars
<1>4. PeerAnswered'
  BY <1>a DEF Receive, PeerAnswered, TypeOK, UnansweredWait, Unanswered, InAdd, LinkedAnswered,
     Ends, Idle, Compatible, vars
<1>5. LinkedAnswered'
  BY <1>a DEF Receive, LinkedAnswered, TypeOK, UnansweredWait, Unanswered, InAdd, PeerAnswered,
     ListedAnswered, Ends, Idle, Compatible, vars
<1>6. ListedAnswered'
  BY <1>a DEF Receive, ListedAnswered, TypeOK, UnansweredWait, Unanswered, InAdd, PeerAnswered,
     LinkedAnswered, Ends, Idle, Compatible, vars
<1>7. FromTheStart'
  BY <1>a DEF Receive, FromTheStart, TypeOK, Fresh, PortWhole, Idle, Compatible, vars
<1> QED
  BY <1>1, <1>2, <1>3, <1>4, <1>5, <1>6, <1>7

\* A Receive that completes short of what is wanted: the next one is posted.
LEMMA ReceiveMoreStep ==
  ASSUME IInv, ReceiveMore
  PROVE  IInv'
<1> USE DEF IInv, port, dynamo
<1>a. /\ peer \in Dynamos /\ wire[peer] # <<>>
      /\ got' \in Seq(1 .. Units) /\ Len(got') < Units
      /\ wire' \in [Dynamos -> Seq(1 .. Units)]
      /\ \A d \in Dynamos : d # peer => wire'[d] = wire[d]
      /\ login_state = "receiving_data"
  BY Taken DEF ReceiveMore, Idle, Compatible, vars
<1>1. TypeOK'
  BY <1>a DEF ReceiveMore, TypeOK, Ends, Idle, Compatible, vars
<1>2. PortWhole'
  BY <1>a DEF ReceiveMore, PortWhole, TypeOK, Unanswered, InAdd, Idle, Compatible, vars
<1>3. UnansweredWait'
  BY <1>a DEF ReceiveMore, UnansweredWait, TypeOK, Unanswered, InAdd, PortWhole, Idle, Compatible,
     vars
<1>4. PeerAnswered'
  BY <1>a DEF ReceiveMore, PeerAnswered, TypeOK, UnansweredWait, Unanswered, InAdd, LinkedAnswered,
     Ends, Idle, Compatible, vars
<1>5. LinkedAnswered'
  BY <1>a DEF ReceiveMore, LinkedAnswered, TypeOK, UnansweredWait, Unanswered, InAdd, PeerAnswered,
     ListedAnswered, Ends, Idle, Compatible, vars
<1>6. ListedAnswered'
  BY <1>a DEF ReceiveMore, ListedAnswered, TypeOK, UnansweredWait, Unanswered, InAdd, PeerAnswered,
     LinkedAnswered, Ends, Idle, Compatible, vars
<1>7. FromTheStart'
  BY <1>a, Where DEF ReceiveMore, FromTheStart, TypeOK, Fresh, PortWhole, Idle, Compatible, vars
<1> QED
  BY <1>1, <1>2, <1>3, <1>4, <1>5, <1>6, <1>7

\* A Message of the right version: a Data_Message is next.
LEMMA MessageTakenStep ==
  ASSUME IInv, MessageTaken
  PROVE  IInv'
<1> USE DEF IInv, port, dynamo
<1>a. /\ peer \in Dynamos /\ wire[peer] # <<>>
      /\ got' \in Seq(1 .. Units) /\ Len(got') < Units
      /\ wire' \in [Dynamos -> Seq(1 .. Units)]
      /\ \A d \in Dynamos : d # peer => wire'[d] = wire[d]
  BY Taken DEF MessageTaken, Idle, Compatible, vars
<1>1. TypeOK'
  BY <1>a DEF MessageTaken, TypeOK, Ends, Idle, Compatible, vars
<1>2. PortWhole'
  BY <1>a DEF MessageTaken, PortWhole, TypeOK, Unanswered, InAdd, Idle, Compatible, vars
<1>3. UnansweredWait'
  BY <1>a DEF MessageTaken, UnansweredWait, TypeOK, Unanswered, InAdd, PortWhole, Idle, Compatible,
     vars
<1>4. PeerAnswered'
  BY <1>a DEF MessageTaken, PeerAnswered, TypeOK, UnansweredWait, Unanswered, InAdd, LinkedAnswered,
     Ends, Idle, Compatible, vars
<1>5. LinkedAnswered'
  BY <1>a DEF MessageTaken, LinkedAnswered, TypeOK, UnansweredWait, Unanswered, InAdd, PeerAnswered,
     ListedAnswered, Ends, Idle, Compatible, vars
<1>6. ListedAnswered'
  BY <1>a DEF MessageTaken, ListedAnswered, TypeOK, UnansweredWait, Unanswered, InAdd, PeerAnswered,
     LinkedAnswered, Ends, Idle, Compatible, vars
<1>7. FromTheStart'
  BY <1>a, Where DEF MessageTaken, FromTheStart, TypeOK, Fresh, PortWhole, Idle, Compatible, vars
<1> QED
  BY <1>1, <1>2, <1>3, <1>4, <1>5, <1>6, <1>7

\* A wrong version, or what looks like one, is answered and disconnected.
LEMMA RefuseStep ==
  ASSUME IInv, Refuse
  PROVE  IInv'
<1> USE DEF IInv, port, dynamo
<1>a. /\ peer \in Dynamos /\ wire[peer] # <<>>
      /\ got' \in Seq(1 .. Units) /\ Len(got') < Units
      /\ wire' \in [Dynamos -> Seq(1 .. Units)]
      /\ \A d \in Dynamos : d # peer => wire'[d] = wire[d]
      /\ got'[1] = wire[peer][1]
  BY Taken DEF Refuse, Idle, Compatible, vars
<1>b. PICK answer \in {"wrong", "lost"} : reply' = [reply EXCEPT ![peer] = answer]
  BY DEF Refuse, Idle, Compatible, vars
<1>1. TypeOK'
  BY <1>a, <1>b DEF Refuse, TypeOK, Ends, Idle, Compatible, vars
<1>2. PortWhole'
  BY <1>a, <1>b, Where DEF Refuse, PortWhole, TypeOK, Unanswered, InAdd, Idle, Compatible, vars
<1>3. UnansweredWait'
  BY <1>a, <1>b DEF Refuse, UnansweredWait, TypeOK, Unanswered, InAdd, PortWhole, Idle, Compatible,
     vars
<1>4. PeerAnswered'
  BY <1>a, <1>b DEF Refuse, PeerAnswered, TypeOK, UnansweredWait, Unanswered, InAdd, LinkedAnswered,
     Ends, Idle, Compatible, vars
<1>5. LinkedAnswered'
  BY <1>a, <1>b DEF Refuse, LinkedAnswered, TypeOK, UnansweredWait, Unanswered, InAdd, PeerAnswered,
     ListedAnswered, Ends, Idle, Compatible, vars
<1>6. ListedAnswered'
  BY <1>a, <1>b DEF Refuse, ListedAnswered, TypeOK, UnansweredWait, Unanswered, InAdd, PeerAnswered,
     LinkedAnswered, Ends, Idle, Compatible, vars
<1>7. FromTheStart'
  BY <1>a, <1>b, Where DEF Refuse, FromTheStart, TypeOK, Fresh, PortWhole, Idle, Compatible, vars
<1> QED
  BY <1>1, <1>2, <1>3, <1>4, <1>5, <1>6, <1>7

\* LOGIN_OK: AddManager begins.
LEMMA DataTakenStep ==
  ASSUME IInv, DataTaken
  PROVE  IInv'
<1> USE DEF IInv, port, dynamo
<1>a. /\ peer \in Dynamos /\ wire[peer] # <<>>
      /\ got' \in Seq(1 .. Units) /\ Len(got') < Units
      /\ wire' \in [Dynamos -> Seq(1 .. Units)]
      /\ \A d \in Dynamos : d # peer => wire'[d] = wire[d]
  BY Taken DEF DataTaken, Idle, Compatible, vars
<1>1. TypeOK'
  BY <1>a DEF DataTaken, TypeOK, Ends, Idle, Compatible, vars
<1>2. PortWhole'
  BY <1>a DEF DataTaken, PortWhole, TypeOK, Unanswered, InAdd, Idle, Compatible, vars
<1>3. UnansweredWait'
  BY <1>a DEF DataTaken, UnansweredWait, TypeOK, Unanswered, InAdd, PortWhole, Idle, Compatible,
     vars
<1>4. PeerAnswered'
  BY <1>a DEF DataTaken, PeerAnswered, TypeOK, UnansweredWait, Unanswered, InAdd, LinkedAnswered,
     Ends, Idle, Compatible, vars
<1>5. LinkedAnswered'
  BY <1>a DEF DataTaken, LinkedAnswered, TypeOK, UnansweredWait, Unanswered, InAdd, PeerAnswered,
     ListedAnswered, Ends, Idle, Compatible, vars
<1>6. ListedAnswered'
  BY <1>a DEF DataTaken, ListedAnswered, TypeOK, UnansweredWait, Unanswered, InAdd, PeerAnswered,
     LinkedAnswered, Ends, Idle, Compatible, vars
<1>7. FromTheStart'
  BY <1>a, Where DEF DataTaken, FromTheStart, TypeOK, Fresh, PortWhole, Idle, Compatible, vars
<1> QED
  BY <1>1, <1>2, <1>3, <1>4, <1>5, <1>6, <1>7

\* The peer has gone while it logs in: the port is closed for good.
LEMMA ReceiveFailsStep ==
  ASSUME IInv, ReceiveFails
  PROVE  IInv'
<1> USE DEF IInv, port, dynamo
<1>a. Close
  BY DEF ReceiveFails, Idle, Compatible, vars
<1>1. TypeOK'
  BY <1>a, Closed, Where, LoginAssumption DEF ReceiveFails, TypeOK, Ends, LoginAssumption, Idle,
     Compatible, vars
<1>2. PortWhole'
  BY <1>a, Closed DEF PortWhole, TypeOK, Unanswered, InAdd, Idle, Compatible, vars
<1>3. UnansweredWait'
  BY <1>a, Closed DEF UnansweredWait, TypeOK, Unanswered, InAdd, PortWhole, Idle, Compatible, vars
<1>4. PeerAnswered'
  BY <1>a, Closed DEF PeerAnswered, TypeOK, UnansweredWait, Unanswered, InAdd, LinkedAnswered, Ends,
     Idle, Compatible, vars
<1>5. LinkedAnswered'
  BY <1>a, Closed DEF ReceiveFails, LinkedAnswered, TypeOK, UnansweredWait, Unanswered, InAdd,
     PeerAnswered, ListedAnswered, Ends, Idle, Compatible, vars
<1>6. ListedAnswered'
  BY <1>a, Closed, Where DEF ReceiveFails, ListedAnswered, TypeOK, UnansweredWait, Unanswered,
     InAdd, PeerAnswered, LinkedAnswered, Ends, Idle, Compatible, vars
<1>7. FromTheStart'
  BY <1>a, Closed DEF ReceiveFails, FromTheStart, TypeOK, Fresh, PortWhole, Idle, Compatible, vars
<1> QED
  BY <1>1, <1>2, <1>3, <1>4, <1>5, <1>6, <1>7

\* IOMETER_RECEIVE_TIMEOUT: from here on a request may be read from its middle.
LEMMA TimeOutStep ==
  ASSUME IInv, TimeOut
  PROVE  IInv'
<1> USE DEF IInv, port, dynamo
<1>a. "late" \in mishaps' /\ mishaps \subseteq mishaps'
  BY Remembered DEF TimeOut, Idle, Compatible, vars
<1>b. peer \in Dynamos
  BY DEF TypeOK, TimeOut, Idle, Compatible, vars
<1>c. orphan' \in 0 .. Units
  <2>1. Len(got) \in Nat /\ Len(got) < Units /\ (login_state = "receiving" => Len(got) = 0)
    BY LenProperties, EmptySeq DEF TypeOK, PortWhole, Idle, Compatible, vars
  <2> QED  BY <2>1, Where, LoginAssumption DEF TimeOut, Remaining, Size, LoginAssumption, Idle,
              Compatible, vars
<1>d. got' = <<>> /\ got' \in Seq(1 .. Units) /\ Len(got') = 0
  BY EmptySeq DEF TimeOut, Idle, Compatible, vars
<1>1. TypeOK'
  BY <1>a, <1>b, <1>c, <1>d, Where, LoginAssumption DEF TimeOut, TypeOK, Ends, LoginAssumption,
     Idle, Compatible, vars
<1>2. PortWhole'
  BY <1>a, <1>b, <1>c, <1>d DEF TimeOut, PortWhole, TypeOK, Unanswered, InAdd, Idle, Compatible,
     vars
<1>3. UnansweredWait'
  BY <1>a, <1>b, <1>c, <1>d DEF TimeOut, UnansweredWait, TypeOK, Unanswered, InAdd, PortWhole, Idle,
     Compatible, vars
<1>4. PeerAnswered'
  BY <1>a, <1>b, <1>c, <1>d DEF TimeOut, PeerAnswered, TypeOK, UnansweredWait, Unanswered, InAdd,
     LinkedAnswered, Ends, Idle, Compatible, vars
<1>5. LinkedAnswered'
  BY <1>a, <1>b, <1>c, <1>d DEF TimeOut, LinkedAnswered, TypeOK, UnansweredWait, Unanswered, InAdd,
     PeerAnswered, ListedAnswered, Ends, Idle, Compatible, vars
<1>6. ListedAnswered'
  BY <1>a, <1>b, <1>c, <1>d DEF TimeOut, ListedAnswered, TypeOK, UnansweredWait, Unanswered, InAdd,
     PeerAnswered, LinkedAnswered, Ends, Idle, Compatible, vars
<1>7. FromTheStart'
  BY <1>a, <1>b, <1>c, <1>d DEF FromTheStart, TypeOK, Fresh, PortWhole, Idle, Compatible, vars
<1> QED
  BY <1>1, <1>2, <1>3, <1>4, <1>5, <1>6, <1>7

\* The Receive that was given up takes what it is not asked for any more.
LEMMA AbandonedStep ==
  ASSUME IInv, Abandoned
  PROVE  IInv'
<1> USE DEF IInv, port, dynamo
<1>a. wire' \in [Dynamos -> Seq(1 .. Units)]
  <2>1. PICK k \in 1 .. Len(wire[peer]) : wire' = [wire EXCEPT ![peer] = SubSeq(@, k + 1, Len(@))]
    BY DEF Abandoned, Idle, Compatible, vars
  <2>2. peer \in Dynamos /\ wire[peer] \in Seq(1 .. Units) /\ Len(wire[peer]) \in Nat
    BY LenProperties DEF Abandoned, TypeOK, Idle, Compatible, vars
  <2>3. \A i \in k + 1 .. Len(wire[peer]) : wire[peer][i] \in 1 .. Units
    BY <2>2, LenProperties, Where, LoginAssumption DEF LoginAssumption, Idle, Compatible, vars
  <2>4. SubSeq(wire[peer], k + 1, Len(wire[peer])) \in Seq(1 .. Units)
    BY <2>1, <2>2, <2>3, SubSeqProperties DEF Compatible, vars
  <2> QED  BY <2>1, <2>2, <2>4 DEF TypeOK, Idle, Compatible, vars
<1>1. TypeOK'
  <2>1. orphan' = 0 /\ UNCHANGED <<login_state, peer, backlog, got, manager_list, pc, sent, reply,
                                  listening, linked, inbox>>
    BY DEF Abandoned
  <2>2. Units \in Nat
    BY LoginAssumption DEF LoginAssumption
  <2> QED  BY <1>a, <2>1, <2>2 DEF TypeOK
<1>2. PortWhole'
  BY <1>a DEF Abandoned, PortWhole, TypeOK, Unanswered, InAdd, Idle, Compatible, vars
<1>3. UnansweredWait'
  BY <1>a DEF Abandoned, UnansweredWait, TypeOK, Unanswered, InAdd, PortWhole, Idle, Compatible,
     vars
<1>4. PeerAnswered'
  BY <1>a DEF Abandoned, PeerAnswered, TypeOK, UnansweredWait, Unanswered, InAdd, LinkedAnswered,
     Ends, Idle, Compatible, vars
<1>5. LinkedAnswered'
  BY <1>a DEF Abandoned, LinkedAnswered, TypeOK, UnansweredWait, Unanswered, InAdd, PeerAnswered,
     ListedAnswered, Ends, Idle, Compatible, vars
<1>6. ListedAnswered'
  BY <1>a DEF Abandoned, ListedAnswered, TypeOK, UnansweredWait, Unanswered, InAdd, PeerAnswered,
     LinkedAnswered, Ends, Idle, Compatible, vars
<1>7. FromTheStart'
  BY <1>a DEF Abandoned, FromTheStart, TypeOK, Fresh, PortWhole, Idle, Compatible, vars
<1> QED
  BY <1>1, <1>2, <1>3, <1>4, <1>5, <1>6, <1>7

\* AddManager has connected to the Dynamo and lists it.
LEMMA ConnectedStep ==
  ASSUME IInv, Connected
  PROVE  IInv'
<1> USE DEF IInv, port, dynamo
<1>a. peer \in Dynamos /\ peer \notin Range(manager_list) /\ IsInjective(manager_list)
  BY DEF Connected, TypeOK, PeerAnswered, ListedAnswered, Idle, Compatible, vars
<1>b. /\ manager_list' \in Seq(Dynamos) /\ IsInjective(manager_list')
      /\ Range(manager_list') = Range(manager_list) \cup {peer}
  BY <1>a, AppendOnce DEF Connected, TypeOK, Idle, Compatible, vars
<1>c. pc[peer] \in {"sending", "accepting"} /\ inbox[peer] = "none" /\ peer \notin Incompatible
  BY <1>a DEF Connected, PeerAnswered, LinkedAnswered, PortWhole, Ends, Idle, Compatible, vars
<1>1. TypeOK'
  BY <1>a, <1>b, <1>c DEF Connected, TypeOK, Ends, Idle, Compatible, vars
<1>2. PortWhole'
  BY <1>a, <1>b, <1>c DEF Connected, PortWhole, TypeOK, Unanswered, InAdd, Idle, Compatible, vars
<1>3. UnansweredWait'
  BY <1>a, <1>b, <1>c DEF Connected, UnansweredWait, TypeOK, Unanswered, InAdd, PortWhole, Idle,
     Compatible, vars
<1>4. PeerAnswered'
  BY <1>a, <1>b, <1>c DEF Connected, PeerAnswered, TypeOK, UnansweredWait, Unanswered, InAdd,
     LinkedAnswered, Ends, Idle, Compatible, vars
<1>5. LinkedAnswered'
  BY <1>a, <1>b, <1>c DEF Connected, LinkedAnswered, TypeOK, UnansweredWait, Unanswered, InAdd,
     PeerAnswered, ListedAnswered, Ends, Idle, Compatible, vars
<1>6. ListedAnswered'
  BY <1>a, <1>b, <1>c DEF Connected, ListedAnswered, TypeOK, UnansweredWait, Unanswered, InAdd,
     PeerAnswered, LinkedAnswered, Ends, Idle, Compatible, vars
<1>7. FromTheStart'
  BY <1>a, <1>b, <1>c DEF Connected, FromTheStart, TypeOK, Fresh, PortWhole, Idle, Compatible, vars
<1> QED
  BY <1>1, <1>2, <1>3, <1>4, <1>5, <1>6, <1>7

\* AddManager returns and the login port waits for the next Dynamo.
LEMMA AddManagerStep ==
  ASSUME IInv, AddManager
  PROVE  IInv'
<1> USE DEF IInv, port, dynamo
<1>1. TypeOK'
  BY DEF AddManager, TypeOK, Ends
<1>2. PortWhole'
  BY Where DEF AddManager, PortWhole, TypeOK
<1>3. UnansweredWait'
  BY DEF AddManager, UnansweredWait, TypeOK, Unanswered, InAdd, PortWhole
<1>4. PeerAnswered'
  BY DEF AddManager, PeerAnswered, TypeOK, UnansweredWait, Unanswered, InAdd, LinkedAnswered, Ends
<1>5. LinkedAnswered'
  BY DEF AddManager, LinkedAnswered, TypeOK, UnansweredWait, Unanswered, InAdd, PeerAnswered,
     ListedAnswered, Ends
<1>6. ListedAnswered'
  BY DEF AddManager, ListedAnswered, TypeOK, UnansweredWait, Unanswered, InAdd, PeerAnswered,
     LinkedAnswered, Ends
<1>7. FromTheStart'
  BY DEF AddManager, FromTheStart, TypeOK, Fresh, PortWhole
<1> QED
  BY <1>1, <1>2, <1>3, <1>4, <1>5, <1>6, <1>7

\* AddManager returns NULL: the port is closed for good.
LEMMA UnknownNameStep ==
  ASSUME IInv, UnknownName
  PROVE  IInv'
<1> USE DEF IInv, port, dynamo
<1>a. Close /\ mishaps \subseteq mishaps'
  BY Remembered DEF UnknownName, Idle, Compatible, vars
<1>1. TypeOK'
  BY <1>a, Closed, Where, LoginAssumption DEF UnknownName, TypeOK, Ends, LoginAssumption, Idle,
     Compatible, vars
<1>2. PortWhole'
  BY <1>a, Closed DEF PortWhole, TypeOK, Unanswered, InAdd, Idle, Compatible, vars
<1>3. UnansweredWait'
  BY <1>a, Closed DEF UnansweredWait, TypeOK, Unanswered, InAdd, PortWhole, Idle, Compatible, vars
<1>4. PeerAnswered'
  BY <1>a, Closed DEF PeerAnswered, TypeOK, UnansweredWait, Unanswered, InAdd, LinkedAnswered, Ends,
     Idle, Compatible, vars
<1>5. LinkedAnswered'
  BY <1>a, Closed DEF UnknownName, LinkedAnswered, TypeOK, UnansweredWait, Unanswered, InAdd,
     PeerAnswered, ListedAnswered, Ends, Idle, Compatible, vars
<1>6. ListedAnswered'
  BY <1>a, Closed, Where DEF UnknownName, ListedAnswered, TypeOK, UnansweredWait, Unanswered, InAdd,
     PeerAnswered, LinkedAnswered, Ends, Idle, Compatible, vars
<1>7. FromTheStart'
  BY <1>a, Closed DEF UnknownName, FromTheStart, TypeOK, Fresh, PortWhole, Idle, Compatible, vars
<1> QED
  BY <1>1, <1>2, <1>3, <1>4, <1>5, <1>6, <1>7

\* The user removes one manager, which is sent EXIT.
LEMMA RemoveManagerStep ==
  ASSUME IInv, RemoveManager
  PROVE  IInv'
<1> USE DEF IInv, port, dynamo
<1>a. PICK i \in DOMAIN manager_list :
         /\ inbox' = [inbox EXCEPT ![manager_list[i]] = "EXIT"]
         /\ manager_list' = RemoveAt(manager_list, i)
  BY DEF RemoveManager, Idle, Compatible, vars
<1>b. /\ manager_list' \in Seq(Dynamos) /\ IsInjective(manager_list')
      /\ manager_list[i] \in Dynamos /\ manager_list[i] \in Range(manager_list)
      /\ Range(manager_list') = Range(manager_list) \ {manager_list[i]}
  BY <1>a, RemoveOnce DEF TypeOK, ListedAnswered, Idle, Compatible, vars
<1>c. \A d \in Dynamos : inbox'[d] = IF d = manager_list[i] THEN "EXIT" ELSE inbox[d]
  BY <1>a DEF TypeOK, Idle, Compatible, vars
<1>1. TypeOK'
  BY <1>a, <1>b, <1>c DEF RemoveManager, TypeOK, Ends, Idle, Compatible, vars
<1>2. PortWhole'
  BY <1>a, <1>b, <1>c DEF RemoveManager, PortWhole, TypeOK, Unanswered, InAdd, Idle, Compatible,
     vars
<1>3. UnansweredWait'
  BY <1>a, <1>b, <1>c DEF RemoveManager, UnansweredWait, TypeOK, Unanswered, InAdd, PortWhole, Idle,
     Compatible, vars
<1>4. PeerAnswered'
  BY <1>a, <1>b, <1>c DEF RemoveManager, PeerAnswered, TypeOK, UnansweredWait, Unanswered, InAdd,
     LinkedAnswered, Ends, Idle, Compatible, vars
<1>5. LinkedAnswered'
  <2>1. /\ UNCHANGED <<linked, reply, pc, listening>>
        /\ manager_list[i] \in linked \/ pc[manager_list[i]] = "dead"
    BY <1>b DEF RemoveManager, ListedAnswered, Idle, Compatible, vars
  <2>2. \A e \in linked' :
          /\ pc'[e] \in {"sending", "accepting", "running"} /\ reply'[e] = "ok"
          /\ e \in Range(manager_list') \/ inbox'[e] # "none"
    BY <1>b, <1>c, <2>1 DEF LinkedAnswered, TypeOK, Idle, Compatible, vars
  <2>3. \A e \in Dynamos : inbox'[e] # "none" => e \in linked' \/ pc'[e] = "dead"
    BY <1>b, <1>c, <2>1 DEF LinkedAnswered, Idle, Compatible, vars
  <2> QED  BY <2>1, <2>2, <2>3 DEF LinkedAnswered, Idle, Compatible, vars
<1>6. ListedAnswered'
  BY <1>a, <1>b, <1>c DEF RemoveManager, ListedAnswered, TypeOK, UnansweredWait, Unanswered, InAdd,
     PeerAnswered, LinkedAnswered, Ends, Idle, Compatible, vars
<1>7. FromTheStart'
  BY <1>a, <1>b, <1>c DEF RemoveManager, FromTheStart, TypeOK, Fresh, PortWhole, Idle, Compatible,
     vars
<1> QED
  BY <1>1, <1>2, <1>3, <1>4, <1>5, <1>6, <1>7

\* The user resets Iometer: all managers are sent RESET and none is listed.
LEMMA ResetStep ==
  ASSUME IInv, Reset
  PROVE  IInv'
<1> USE DEF IInv, port, dynamo
<1>a. /\ manager_list' \in Seq(Dynamos) /\ IsInjective(manager_list') /\ Range(manager_list') = {}
  BY EmptyOnce DEF Reset, Idle, Compatible, vars
<1>b. inbox' = [d \in Dynamos |-> IF d \in Range(manager_list) THEN "RESET" ELSE inbox[d]]
  BY DEF Reset, Idle, Compatible, vars
<1>1. TypeOK'
  BY <1>a, <1>b DEF Reset, TypeOK, Ends, Idle, Compatible, vars
<1>2. PortWhole'
  BY <1>a, <1>b DEF Reset, PortWhole, TypeOK, Unanswered, InAdd, Idle, Compatible, vars
<1>3. UnansweredWait'
  BY <1>a, <1>b DEF Reset, UnansweredWait, TypeOK, Unanswered, InAdd, PortWhole, Idle, Compatible,
     vars
<1>4. PeerAnswered'
  BY <1>a, <1>b DEF Reset, PeerAnswered, TypeOK, UnansweredWait, Unanswered, InAdd, LinkedAnswered,
     Ends, Idle, Compatible, vars
<1>5. LinkedAnswered'
  BY <1>a, <1>b DEF Reset, LinkedAnswered, TypeOK, UnansweredWait, Unanswered, InAdd, PeerAnswered,
     ListedAnswered, Ends, Idle, Compatible, vars
<1>6. ListedAnswered'
  BY <1>a, <1>b DEF ListedAnswered, TypeOK, UnansweredWait, Unanswered, InAdd, PeerAnswered,
     LinkedAnswered, Ends, Idle, Compatible, vars
<1>7. FromTheStart'
  BY <1>a, <1>b DEF Reset, FromTheStart, TypeOK, Fresh, PortWhole, Idle, Compatible, vars
<1> QED
  BY <1>1, <1>2, <1>3, <1>4, <1>5, <1>6, <1>7

\* A Dynamo connects, also again after RESET, when nobody lists it any more.
LEMMA ConnectStep ==
  ASSUME IInv, NEW d \in Dynamos, Connect(d)
  PROVE  IInv'
<1> USE DEF IInv, port, dynamo
<1>a. d \notin Range(backlog) /\ d # peer /\ d \notin linked /\ d \notin Range(manager_list)
  <2>1. pc[d] = "connecting"
    BY DEF Connect
  <2>2. d \notin linked
    BY <2>1 DEF LinkedAnswered
  <2>3. d \notin Range(manager_list)
    BY <2>1, <2>2 DEF ListedAnswered
  <2>4. d \notin Unanswered
    BY <2>1 DEF UnansweredWait
  <2>5. d # peer
    <3>1. d # None
      BY LoginAssumption DEF LoginAssumption
    <3>2. CASE InAdd
      BY <2>1, <2>3, <3>2 DEF InAdd, PeerAnswered
    <3>3. CASE ~InAdd
      BY <2>4, <3>1, <3>3 DEF Unanswered
    <3> QED  BY <3>2, <3>3
  <2> QED  BY <2>2, <2>3, <2>4, <2>5 DEF Unanswered
<1>b. /\ backlog' \in Seq(Dynamos) /\ Len(backlog') <= Backlog /\ IsInjective(backlog')
      /\ Range(backlog') = Range(backlog) \cup {d}
  <2>1. Backlog \in Nat /\ Len(backlog) \in Nat /\ backlog \in Seq(Dynamos)
    BY LenProperties, Where, LoginAssumption DEF TypeOK, LoginAssumption, Idle, Compatible, vars
  <2>2. Len(Append(backlog, d)) = Len(backlog) + 1
    BY <2>1, AppendProperties DEF Compatible, vars
  <2> QED  BY <1>a, <2>1, <2>2, AppendOnce DEF Connect, PortWhole, Idle, Compatible, vars
<1>c. <<>> \in Seq(1 .. Units)
  BY EmptySeq DEF Compatible, vars
<1>1. TypeOK'
  BY <1>a, <1>b, <1>c, Where, LoginAssumption DEF Connect, TypeOK, Ends, LoginAssumption, Idle,
     Compatible, vars
<1>2. PortWhole'
  BY <1>a, <1>b, <1>c DEF Connect, PortWhole, TypeOK, Unanswered, InAdd, Idle, Compatible, vars
<1>3. UnansweredWait'
  BY <1>a, <1>b, <1>c DEF Connect, UnansweredWait, TypeOK, Unanswered, InAdd, PortWhole, Idle,
     Compatible, vars
<1>4. PeerAnswered'
  BY <1>a, <1>b, <1>c DEF Connect, PeerAnswered, TypeOK, UnansweredWait, Unanswered, InAdd,
     LinkedAnswered, Ends, Idle, Compatible, vars
<1>5. LinkedAnswered'
  BY <1>a, <1>b, <1>c DEF Connect, LinkedAnswered, TypeOK, UnansweredWait, Unanswered, InAdd,
     PeerAnswered, ListedAnswered, Ends, Idle, Compatible, vars
<1>6. ListedAnswered'
  BY <1>a, <1>b, <1>c DEF Connect, ListedAnswered, TypeOK, UnansweredWait, Unanswered, InAdd,
     PeerAnswered, LinkedAnswered, Ends, Idle, Compatible, vars
<1>7. FromTheStart'
  BY <1>a, <1>b, <1>c DEF Connect, FromTheStart, TypeOK, Fresh, PortWhole, Idle, Compatible, vars
<1> QED
  BY <1>1, <1>2, <1>3, <1>4, <1>5, <1>6, <1>7

\* A Dynamo sends the next unit of its request, which arrives unless it has been
\* answered.
LEMMA SendStep ==
  ASSUME IInv, NEW d \in Dynamos, Send(d)
  PROVE  IInv'
<1> USE DEF IInv, port, dynamo
<1>a. sent[d] + 1 \in 1 .. Units /\ sent[d] \in Nat
  BY Where, LoginAssumption DEF Send, TypeOK, LoginAssumption, Idle, Compatible, vars
<1>b. wire[d] \in Seq(1 .. Units) /\ Append(wire[d], sent[d] + 1) \in Seq(1 .. Units)
  BY <1>a, AppendProperties DEF TypeOK, Idle, Compatible, vars
<1>c. Append(wire[d], sent[d] + 1) # <<>>
  <2> DEFINE u == sent[d] + 1
             w == wire[d]
             S == 1 .. Units
  <2>1. w \in Seq(S) /\ u \in S
    BY <1>a, <1>b DEF Compatible, vars
  <2> HIDE DEF u, w, S
  <2>2. Len(Append(w, u)) = Len(w) + 1 /\ Len(w) \in Nat /\ Len(<<>>) = 0
    BY <2>1, AppendProperties, LenProperties, EmptySeq DEF Compatible, vars
  <2>3. Append(w, u) # <<>>
    BY <2>2 DEF Compatible, vars
  <2> QED  BY <2>3 DEF u, w, Idle, Compatible, vars
<1>e. IF wire[d] = <<>> THEN Append(wire[d], sent[d] + 1)[1] = sent[d] + 1
      ELSE Append(wire[d], sent[d] + 1)[1] = wire[d][1]
  <2>1. Len(<<>>) = 0 /\ (wire[d] # <<>> => 1 \in 1 .. Len(wire[d])) /\ Len(wire[d]) \in Nat
    BY <1>b, EmptySeq, LenProperties DEF Compatible, vars
  <2>2. wire[d] = <<>> => Append(wire[d], sent[d] + 1)[1] = sent[d] + 1
    <3>1. Append(wire[d], sent[d] + 1)[Len(wire[d]) + 1] = sent[d] + 1
      BY <1>a, <1>b, AppendProperties DEF Compatible, vars
    <3> QED  BY <2>1, <3>1 DEF Compatible, vars
  <2>3. wire[d] # <<>> => Append(wire[d], sent[d] + 1)[1] = wire[d][1]
    BY <1>a, <1>b, <2>1, AppendProperties DEF Compatible, vars
  <2> QED  BY <2>2, <2>3 DEF Compatible, vars
<1>f. Fresh(d) /\ reply[d] = "none" => Fresh(d)'
  BY <1>a, <1>b, <1>c, <1>e DEF Send, Fresh, TypeOK, Idle, Compatible, vars
<1>1. TypeOK'
  <2>1. sent' \in [Dynamos -> 0 .. Units]
    BY <1>a DEF Send, TypeOK, Idle, Compatible, vars
  <2>2. wire' \in [Dynamos -> Seq(1 .. Units)]
    BY <1>b DEF Send, TypeOK, Idle, Compatible, vars
  <2> QED  BY <2>1, <2>2 DEF Send, TypeOK, Ends, Idle, Compatible, vars
<1>2. PortWhole'
  BY <1>a, <1>b, <1>c, <1>e, <1>f DEF Send, PortWhole, TypeOK, Unanswered, InAdd, Idle, Compatible,
     vars
<1>3. UnansweredWait'
  BY <1>a, <1>b, <1>c, <1>e, <1>f DEF Send, UnansweredWait, TypeOK, Unanswered, InAdd, PortWhole,
     Idle, Compatible, vars
<1>4. PeerAnswered'
  BY <1>a, <1>b, <1>c, <1>e, <1>f DEF Send, PeerAnswered, TypeOK, UnansweredWait, Unanswered, InAdd,
     LinkedAnswered, Ends, Idle, Compatible, vars
<1>5. LinkedAnswered'
  BY <1>a, <1>b, <1>c, <1>e, <1>f DEF Send, LinkedAnswered, TypeOK, UnansweredWait, Unanswered,
     InAdd, PeerAnswered, ListedAnswered, Ends, Idle, Compatible, vars
<1>6. ListedAnswered'
  BY <1>a, <1>b, <1>c, <1>e, <1>f DEF Send, ListedAnswered, TypeOK, UnansweredWait, Unanswered,
     InAdd, PeerAnswered, LinkedAnswered, Ends, Idle, Compatible, vars
<1>7. FromTheStart'
  <2>1. \A e \in Dynamos : e # d => sent'[e] = sent[e] /\ wire'[e] = wire[e]
    BY DEF Send, TypeOK, Idle, Compatible, vars
  <2>2. \A e \in Dynamos : reply[e] = "none" /\ Fresh(e) => Fresh(e)'
    BY <2>1, <1>f DEF Fresh, Idle, Compatible, vars
  <2>3. /\ \A e \in Range(backlog) : e \in Dynamos /\ reply[e] = "none"
        /\ login_state \in {"waiting", "receiving"} => peer \in Dynamos /\ reply[peer] = "none"
    BY Where DEF UnansweredWait, Unanswered, InAdd, TypeOK, Idle, Compatible, vars
  <2>4. UNCHANGED <<login_state, peer, backlog, orphan, mishaps, reply>>
    BY DEF Send, Idle, Compatible, vars
  <2>5. ASSUME "late" \notin mishaps PROVE \A e \in Range(backlog)' : Fresh(e)'
    BY <2>2, <2>3, <2>4, <2>5 DEF FromTheStart, Idle, Compatible, vars
  <2>6. ASSUME "late" \notin mishaps, login_state \in {"waiting", "receiving"}
        PROVE  Fresh(peer)'
    <3>1. Fresh(peer)
      BY <2>6 DEF FromTheStart, Idle, Compatible, vars
    <3> QED  BY <2>2, <2>3, <2>4, <2>6, <3>1 DEF Idle, Compatible, vars
  <2> QED  BY <2>4, <2>5, <2>6 DEF FromTheStart, Idle, Compatible, vars
<1> QED
  BY <1>1, <1>2, <1>3, <1>4, <1>5, <1>6, <1>7

\* A Dynamo reads its answer.
LEMMA ReplyStep ==
  ASSUME IInv, NEW d \in Dynamos, Reply(d)
  PROVE  IInv'
<1> USE DEF IInv, port, dynamo
<1>1. TypeOK'
  BY DEF Reply, TypeOK, Ends, Idle, Compatible, vars
<1>2. PortWhole'
  BY DEF Reply, PortWhole, TypeOK, Unanswered, InAdd, Idle, Compatible, vars
<1>3. UnansweredWait'
  <2>1. d \notin Unanswered
    BY DEF Reply, UnansweredWait, Idle, Compatible, vars
  <2>2. \A e \in Dynamos : e # d => pc'[e] = pc[e]
    BY DEF Reply, TypeOK, Idle, Compatible, vars
  <2> QED  BY <2>1, <2>2, Where DEF Reply, UnansweredWait, TypeOK, Unanswered, InAdd, Idle,
              Compatible, vars
<1>4. PeerAnswered'
  BY DEF Reply, PeerAnswered, TypeOK, UnansweredWait, Unanswered, InAdd, LinkedAnswered, Ends, Idle,
     Compatible, vars
<1>5. LinkedAnswered'
  <2>1. /\ \A e \in Dynamos : e # d => pc'[e] = pc[e]
        /\ d \in linked => pc'[d] = "accepting"
        /\ pc[d] = "sending" /\ pc'[d] \in {"accepting", "ended"}
        /\ IF pc'[d] = "accepting" THEN listening' = listening \cup {d}
           ELSE listening' = listening \ {d}
        /\ UNCHANGED <<linked, reply, inbox, manager_list>>
    BY DEF Reply, TypeOK, LinkedAnswered, Idle, Compatible, vars
  <2>2. \A e \in linked' :
          /\ pc'[e] \in {"sending", "accepting", "running"} /\ reply'[e] = "ok"
          /\ e \in Range(manager_list)' \/ inbox'[e] # "none"
    <3>1. linked \subseteq Dynamos
      BY DEF TypeOK, Idle, Compatible, vars
    <3>2. \A e \in linked : /\ pc[e] \in {"sending", "accepting", "running"} /\ reply[e] = "ok"
                            /\ e \in Range(manager_list) \/ inbox[e] # "none"
      BY DEF LinkedAnswered, Idle, Compatible, vars
    <3>3. \A e \in linked : pc'[e] \in {"sending", "accepting", "running"}
      BY <2>1, <3>1, <3>2 DEF Compatible, vars
    <3> QED  BY <2>1, <3>2, <3>3 DEF Compatible, vars
  <2>3. \A e \in Dynamos : pc'[e] = "running" => e \in linked'
    BY <2>1 DEF LinkedAnswered, Idle, Compatible, vars
  <2>4. \A e \in Dynamos : inbox'[e] # "none" => e \in linked' \/ pc'[e] = "dead"
    BY <2>1 DEF LinkedAnswered, Idle, Compatible, vars
  <2>5. \A e \in listening' : pc'[e] \notin Ends
    <3>1. listening \subseteq Dynamos /\ \A e \in listening : pc[e] \notin Ends
      BY DEF TypeOK, LinkedAnswered, Idle, Compatible, vars
    <3> QED  BY <2>1, <3>1 DEF Ends, Idle, Compatible, vars
  <2> QED  BY <2>2, <2>3, <2>4, <2>5 DEF LinkedAnswered, Idle, Compatible, vars
<1>6. ListedAnswered'
  BY Where DEF Reply, ListedAnswered, TypeOK, UnansweredWait, Unanswered, InAdd, PeerAnswered,
     LinkedAnswered, Ends, Idle, Compatible, vars
<1>7. FromTheStart'
  BY DEF Reply, FromTheStart, TypeOK, Fresh, PortWhole, Idle, Compatible, vars
<1> QED
  BY <1>1, <1>2, <1>3, <1>4, <1>5, <1>6, <1>7

\* A Dynamo has the second connection.
LEMMA LoggedInStep ==
  ASSUME IInv, NEW d \in Dynamos, LoggedIn(d)
  PROVE  IInv'
<1> USE DEF IInv, port, dynamo
<1>1. TypeOK'
  BY DEF LoggedIn, TypeOK, Ends
<1>2. PortWhole'
  BY DEF LoggedIn, PortWhole, TypeOK
<1>3. UnansweredWait'
  BY DEF LoggedIn, UnansweredWait, TypeOK, Unanswered, InAdd, PortWhole
<1>4. PeerAnswered'
  BY DEF LoggedIn, PeerAnswered, TypeOK, UnansweredWait, Unanswered, InAdd, LinkedAnswered, Ends
<1>5. LinkedAnswered'
  BY DEF LoggedIn, LinkedAnswered, TypeOK, UnansweredWait, Unanswered, InAdd, PeerAnswered,
     ListedAnswered, Ends
<1>6. ListedAnswered'
  BY DEF LoggedIn, ListedAnswered, TypeOK, UnansweredWait, Unanswered, InAdd, PeerAnswered,
     LinkedAnswered, Ends
<1>7. FromTheStart'
  BY DEF LoggedIn, FromTheStart, TypeOK, Fresh, PortWhole
<1> QED
  BY <1>1, <1>2, <1>3, <1>4, <1>5, <1>6, <1>7

\* A Dynamo is told to leave or to log in again.
LEMMA RunStep ==
  ASSUME IInv, NEW d \in Dynamos, Run(d)
  PROVE  IInv'
<1> USE DEF IInv, port, dynamo
<1>1. TypeOK'
  BY DEF Run, TypeOK, Ends
<1>2. PortWhole'
  BY DEF Run, PortWhole, TypeOK
<1>3. UnansweredWait'
  BY Where DEF Run, UnansweredWait, TypeOK, Unanswered, InAdd, PortWhole
<1>4. PeerAnswered'
  BY DEF Run, PeerAnswered, TypeOK, UnansweredWait, Unanswered, InAdd, LinkedAnswered, Ends
<1>5. LinkedAnswered'
  BY DEF Run, LinkedAnswered, TypeOK, UnansweredWait, Unanswered, InAdd, PeerAnswered,
     ListedAnswered, Ends
<1>6. ListedAnswered'
  BY Where DEF Run, ListedAnswered, TypeOK, UnansweredWait, Unanswered, InAdd, PeerAnswered,
     LinkedAnswered, Ends
<1>7. FromTheStart'
  BY DEF Run, FromTheStart, TypeOK, Fresh, PortWhole
<1> QED
  BY <1>1, <1>2, <1>3, <1>4, <1>5, <1>6, <1>7

\* A Dynamo dies; what it has sent still arrives.
LEMMA DieStep ==
  ASSUME IInv, NEW d \in Dynamos, Die(d)
  PROVE  IInv'
<1> USE DEF IInv, port, dynamo
<1>a. mishaps \subseteq mishaps'
  BY Remembered DEF Die, Idle, Compatible, vars
<1>1. TypeOK'
  BY <1>a DEF Die, TypeOK, Ends, Idle, Compatible, vars
<1>2. PortWhole'
  BY <1>a DEF Die, PortWhole, TypeOK, Unanswered, InAdd, Idle, Compatible, vars
<1>3. UnansweredWait'
  BY <1>a DEF Die, UnansweredWait, TypeOK, Unanswered, InAdd, PortWhole, Idle, Compatible, vars
<1>4. PeerAnswered'
  BY <1>a DEF Die, PeerAnswered, TypeOK, UnansweredWait, Unanswered, InAdd, LinkedAnswered, Ends,
     Idle, Compatible, vars
<1>5. LinkedAnswered'
  BY <1>a DEF Die, LinkedAnswered, TypeOK, UnansweredWait, Unanswered, InAdd, PeerAnswered,
     ListedAnswered, Ends, Idle, Compatible, vars
<1>6. ListedAnswered'
  BY <1>a DEF Die, ListedAnswered, TypeOK, UnansweredWait, Unanswered, InAdd, PeerAnswered,
     LinkedAnswered, Ends, Idle, Compatible, vars
<1>7. FromTheStart'
  BY <1>a DEF Die, FromTheStart, TypeOK, Fresh, PortWhole, Idle, Compatible, vars
<1> QED
  BY <1>1, <1>2, <1>3, <1>4, <1>5, <1>6, <1>7

\* Nothing happens.
LEMMA StutterStep ==
  ASSUME IInv, UNCHANGED vars
  PROVE  IInv'
<1> USE DEF IInv, port, dynamo
<1>1. TypeOK'
  BY DEF TypeOK, Ends, vars
<1>2. PortWhole'
  BY DEF PortWhole, TypeOK, vars
<1>3. UnansweredWait'
  BY DEF UnansweredWait, TypeOK, Unanswered, InAdd, PortWhole, vars
<1>4. PeerAnswered'
  BY DEF PeerAnswered, TypeOK, UnansweredWait, Unanswered, InAdd, LinkedAnswered, Ends, vars
<1>5. LinkedAnswered'
  BY DEF LinkedAnswered, TypeOK, UnansweredWait, Unanswered, InAdd, PeerAnswered, ListedAnswered,
     Ends, vars
<1>6. ListedAnswered'
  BY DEF ListedAnswered, TypeOK, UnansweredWait, Unanswered, InAdd, PeerAnswered, LinkedAnswered,
     Ends, vars
<1>7. FromTheStart'
  BY DEF FromTheStart, TypeOK, Fresh, PortWhole, vars
<1> QED
  BY <1>1, <1>2, <1>3, <1>4, <1>5, <1>6, <1>7

-----------------------------------------------------------------------------
(* The theorems. *)

\* Before the first turn of OnIdle nobody is anywhere.
LEMMA Initial == Init => IInv
<1> SUFFICES ASSUME Init PROVE IInv
  OBVIOUS
<1>1. TypeOK
  BY EmptySeq, LoginAssumption DEF LoginAssumption, Init, TypeOK
<1>2. PortWhole
  BY EmptyOnce DEF Init, PortWhole
<1>3. UnansweredWait
  BY EmptyOnce DEF Init, UnansweredWait, Unanswered
<1>4. PeerAnswered /\ LinkedAnswered
  BY DEF Init, PeerAnswered, LinkedAnswered
<1>5. ListedAnswered
  BY EmptyOnce DEF Init, ListedAnswered
<1>6. FromTheStart
  BY EmptyOnce DEF Init, FromTheStart
<1> QED
  BY <1>1, <1>2, <1>3, <1>4, <1>5, <1>6 DEF IInv

\* Every turn of OnIdle, step of a Dynamo, mishap and act of the user.
LEMMA Inductive == IInv /\ [Next]_vars => IInv'
<1> SUFFICES ASSUME IInv, [Next]_vars PROVE IInv'
  OBVIOUS
<1>1. CASE OnIdle
  BY <1>1, OpenPortStep, AcceptStep, AcceptedStep, ReceiveStep, ReceiveMoreStep, MessageTakenStep,
     RefuseStep, DataTakenStep, ReceiveFailsStep, ConnectedStep, AddManagerStep DEF OnIdle
<1>2. CASE TimeOut \/ Abandoned \/ UnknownName
  BY <1>2, TimeOutStep, AbandonedStep, UnknownNameStep
<1>3. CASE RemoveManager \/ Reset
  BY <1>3, RemoveManagerStep, ResetStep
<1>4. ASSUME NEW d \in Dynamos, Dynamo(d) \/ Die(d) PROVE IInv'
  BY <1>4, ConnectStep, SendStep, ReplyStep, LoggedInStep, RunStep, DieStep DEF Dynamo
<1>5. CASE UNCHANGED vars
  BY <1>5, StutterStep
<1> QED
  BY <1>1, <1>2, <1>3, <1>4, <1>5 DEF Next

\* Where each Dynamo is stays known.
LEMMA Invariant == Spec => []IInv
<1>1. Init => IInv
  BY Initial
<1>2. IInv /\ [Next]_vars => IInv'
  BY Inductive
<1> QED
  BY <1>1, <1>2, PTL DEF Spec

\* The state of the login port, the list and the Dynamos keep their types: no
\* Receive of a login takes more units than a request has.
THEOREM TypeCorrect == Spec => []TypeOK
<1>1. IInv => TypeOK
  BY DEF IInv
<1> QED
  BY <1>1, Invariant, PTL

\* However logins, late requests, deaths, resets and removals overlap, the list
\* of managers has every Dynamo once that runs and was not told to leave, and
\* nobody but Dynamos of this version that run, are about to, or have died; and
\* unless a request was late nobody of this version is told it is the wrong one.
THEOREM ManagerListIsTrue == Spec => []ListIsTrue
<1>1. IInv => ListIsTrue
  <2> SUFFICES ASSUME IInv PROVE ListIsTrue
    OBVIOUS
  <2>1. ASSUME NEW d \in Dynamos, pc[d] = "running", inbox[d] = "none"
        PROVE  d \in Range(manager_list)
    BY <2>1 DEF IInv, LinkedAnswered
  <2>2. ASSUME NEW d \in Range(manager_list)
        PROVE  /\ d \notin Incompatible /\ inbox[d] = "none"
               /\ pc[d] # "dead" => d \in linked /\ pc[d] \in {"sending", "accepting", "running"}
    BY <2>2 DEF IInv, ListedAnswered, LinkedAnswered
  <2> QED
    BY <2>1, <2>2 DEF IInv, ListIsTrue, ListedAnswered, FromTheStart
<1> QED
  BY <1>1, Invariant, PTL
=============================================================================
