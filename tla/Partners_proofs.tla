--------------------------- MODULE Partners_proofs ---------------------------
(***************************************************************************)
(* For every set of managers, limits and default workers: the tree stays   *)
(* whole (PairsWhole), and Dynamos that have read their messages have the  *)
(* grunts of their manager's workers (InStep).  For every choice of names, *)
(* drives and files of configuration: the dialog that waits for managers   *)
(* and the map of the file keep in step (WaitingAgrees), and whatever is   *)
(* loaded, the tree, the assignments and the disks stay whole (TreeWhole). *)
(*                                                                         *)
(* The invariants speak of what the methods take and return, a tree or a   *)
(* configuration, and each method is shown to keep them.  Loops end by     *)
(* induction on the number of turns.                                       *)
(***************************************************************************)
EXTENDS ConfigFile, FiniteSetTheorems, SequenceTheorems, WellFoundedInduction, TLAPS

Kinds == {"free", "disk", "server", "client"}
Trees ==
    [workers : [Managers -> Seq(Ids)], kind : [Ids -> Kinds], assigned : SUBSET Ids,
     partner : [Ids -> Ids \cup {None}], inbox : [Managers -> Seq(0 .. MaxWorkers)],
     grunts : [Managers -> 0 .. MaxWorkers], copies : SUBSET Ids, up : BOOLEAN]

\* Workers are listed once, by their manager; those that are not are free.
ListedOnce(r) ==
    /\ \A m \in Managers :
          /\ IsInjective(r.workers[m]) /\ Len(r.workers[m]) <= MaxWorkers
          /\ \A i \in DOMAIN r.workers[m] : Home(r.workers[m][i]) = m
    /\ \A x \in Ids : r.kind[x] = "free" <=> x \notin ToSet(r.workers[Home(x)])

\* A worker has what is its kind's, and partners have each other.
InPairs(r) ==
    \A x \in Ids :
        /\ x \in r.assigned => r.kind[x] = "server"
        /\ x \in r.copies => r.kind[x] = "client"
        /\ r.kind[x] = "client" => (r.partner[x] = None <=> x \in r.copies)
        /\ r.partner[x] # None =>
              /\ r.partner[r.partner[x]] = x
              /\ \/ r.kind[x] = "server" /\ r.kind[r.partner[x]] = "client" /\ x \in r.assigned
                 \/ r.kind[x] = "client" /\ r.kind[r.partner[x]] = "server"

\* On one list a client comes after its server.
ServersFirst(r) ==
    \A m \in Managers : \A i, j \in DOMAIN r.workers[m] :
        /\ r.partner[r.workers[m][i]] = r.workers[m][j]
        /\ r.kind[r.workers[m][j]] = "client"
        => i < j

\* Only the managers in L have workers.
Within(r, L) == \A m \in Managers : r.workers[m] # <<>> => m \in L

\* The Dynamos of G will have as many grunts as there are workers.  The others
\* have none, or were told to remove them all, and those in L are about to leave.
InTune(r, L, G) ==
    \A m \in Managers :
        IF m \in G THEN GruntsLeft(r.grunts[m], r.inbox[m]) = Len(r.workers[m])
        ELSE \/ All \in ToSet(r.inbox[m])
             \/ m \notin L /\ r.inbox[m] = <<>> /\ r.grunts[m] = 0

Sound(r) == r \in Trees /\ ListedOnce(r) /\ InPairs(r) /\ ServersFirst(r)
Fine(r, L, G) == Sound(r) /\ Within(r, L) /\ InTune(r, L, G)

IInv ==
    /\ managers \in Seq(Managers) /\ IsInjective(managers)
    /\ shown \in Ids \cup {None}
    /\ Fine(Tree, ToSet(managers), ToSet(managers))
-----------------------------------------------------------------------------
(* Induction, and the loops.                                               *)

\* A set of numbers has a smallest one.
LEMMA Smallest ==
  ASSUME NEW T, T \subseteq Nat, T # {}
  PROVE  \E n \in T : \A k \in T : ~(k < n)
<1>1. PICK n \in T : \A k \in T : ~(<<k, n>> \in OpToRel(<, Nat))
  BY NatLessThanWellFounded, WFMin
<1> QED  BY <1>1 DEF OpToRel

\* What holds at first and after every turn of a loop holds after the last.
LEMMA Upwards ==
  ASSUME NEW T, NEW n \in Nat, 0 \in T, \A k \in 1 .. n : k - 1 \in T => k \in T
  PROVE  \A k \in 0 .. n : k \in T
<1> SUFFICES ASSUME NEW k \in 0 .. n, k \notin T PROVE FALSE
  OBVIOUS
<1> DEFINE R == (0 .. n) \ T
<1>1. R \subseteq Nat /\ R # {}
  OBVIOUS
<1>2. PICK m \in R : \A j \in R : ~(j < m)
  <2> HIDE DEF R
  <2> QED  BY <1>1, Smallest
<1>3. m - 1 \in 0 .. n /\ m \in 1 .. n
  BY <1>2
<1> QED  BY <1>2, <1>3

Table(f, n) == f = [i \in 0 .. n |-> f[i]]

\* What a loop of n turns that starts from r goes through.
Turns(f, n, r, g) ==
    /\ f = [i \in 0 .. n |-> f[i]]
    /\ f[0] = r
    /\ \A i \in 1 .. n : f[i] = g[<<f[i - 1], i>>]

\* A loop of n turns, each of which leads from P[i - 1] to P[i], has results.
LEMMA Iterates ==
  ASSUME NEW n \in Nat, NEW P, NEW r \in P[0], NEW g,
         \A i \in 1 .. n : \A q \in P[i - 1] : g[<<q, i>>] \in P[i]
  PROVE  \E f : Turns(f, n, r, g) /\ \A i \in 0 .. n : f[i] \in P[i]
<1> USE DEF Turns
<1> DEFINE Made(f, k) == Turns(f, k, r, g) /\ \A i \in 0 .. k : f[i] \in P[i]
           T == {k \in 0 .. n : \E f : Made(f, k)}
<1>1. 0 \in T
  <2> DEFINE f == [i \in 0 .. 0 |-> r]
  <2>1. f = [i \in 0 .. 0 |-> f[i]] /\ f[0] = r
    OBVIOUS
  <2>2. \A i \in 0 .. 0 : f[i] \in P[i]
    OBVIOUS
  <2> HIDE DEF f
  <2> QED  BY <2>1, <2>2
<1>2. ASSUME NEW k \in 1 .. n, k - 1 \in T PROVE k \in T
  <2>1. PICK f : Made(f, k - 1)
    BY <1>2
  <2> DEFINE h == [i \in 0 .. k |-> IF i = k THEN g[<<f[k - 1], k>>] ELSE f[i]]
  <2>2. \A i \in 0 .. k - 1 : h[i] = f[i]
    OBVIOUS
  <2>3. h[k] = g[<<f[k - 1], k>>] /\ f[k - 1] \in P[k - 1]
    BY <2>1
  <2>4. ASSUME NEW i \in 1 .. k PROVE h[i] = g[<<h[i - 1], i>>]
    <3>1. CASE i = k
      <4>1. h[i - 1] = f[k - 1]
        BY <3>1, <2>2
      <4> QED  BY <3>1, <4>1, <2>3
    <3>2. CASE i # k
      <4>1. i \in 1 .. k - 1 /\ h[i] = f[i] /\ h[i - 1] = f[i - 1]
        BY <3>2, <2>2
      <4> QED  BY <4>1, <2>1
    <3> QED  BY <3>1, <3>2
  <2>5. ASSUME NEW i \in 0 .. k PROVE h[i] \in P[i]
    <3>1. CASE i = k
      BY <3>1, <2>3, <1>2
    <3>2. CASE i # k
      BY <3>2, <2>1
    <3> QED  BY <3>1, <3>2
  <2>6. h = [i \in 0 .. k |-> h[i]] /\ h[0] = r
    BY <2>1
  <2> HIDE DEF h
  <2>8. Made(h, k)
    BY <2>4, <2>5, <2>6
  <2> HIDE DEF Made
  <2> QED  BY <2>8
<1>3. n \in T
  <2> HIDE DEF T
  <2> QED  BY <1>1, <1>2, Upwards
<1> QED
  BY <1>3

-----------------------------------------------------------------------------
(* The grunts that are left when a Dynamo has read its messages.           *)

\* Functions that agree at first, and after a turn if before it, agree at last.
LEMMA Agree ==
  ASSUME NEW k \in Nat, NEW f, NEW h, f[0] = h[0],
         \A i \in 1 .. k : f[i - 1] = h[i - 1] => f[i] = h[i]
  PROVE  f[k] = h[k]
<1> DEFINE T == {i \in 0 .. k : f[i] = h[i]}
<1>1. \A i \in 0 .. k : i \in T
  <2>1. 0 \in T /\ \A i \in 1 .. k : i - 1 \in T => i \in T
    OBVIOUS
  <2> HIDE DEF T
  <2> QED  BY <2>1, Upwards
<1> QED
  BY <1>1

\* The grunts left over after each of k messages.
Remains(f, n, k, sent) ==
    /\ f[0] = n
    /\ \A i \in 1 .. k : f[i] = Without(f[i - 1], sent[i])

Reading(f, n, k, sent) ==
    f = [i \in 0 .. k |-> IF i = 0 THEN n ELSE Without(f[i - 1], sent[i])]

\* They are the result of a loop over the messages, and get fewer.
LEMMA GruntsFollow ==
  ASSUME NEW n \in Nat, NEW k \in Nat, NEW sent, \A i \in 1 .. k : sent[i] \in Nat
  PROVE  \E f : Reading(f, n, k, sent)
<1> DEFINE P == [i \in 0 .. k |-> 0 .. n]
           g == [x \in (0 .. n) \X (1 .. k) |-> Without(x[1], sent[x[2]])]
<1>1. n \in P[0]
  OBVIOUS
<1>2. ASSUME NEW q \in 0 .. n, NEW i \in 1 .. k PROVE Without(q, sent[i]) \in 0 .. n
  BY DEF Without
<1>3. ASSUME NEW i \in 1 .. k, NEW q \in P[i - 1] PROVE g[<<q, i>>] \in P[i]
  <2>1. q \in 0 .. n /\ <<q, i>> \in (0 .. n) \X (1 .. k)
    OBVIOUS
  <2>2. g[<<q, i>>] = Without(q, sent[i])
    BY <2>1
  <2> QED  BY <2>1, <2>2, <1>2
<1>4. PICK f : Turns(f, k, n, g) /\ \A i \in 0 .. k : f[i] \in P[i]
  <2> HIDE DEF P, g
  <2>1. \A i \in 1 .. k : \A q \in P[i - 1] : g[<<q, i>>] \in P[i]
    BY <1>3
  <2> QED  BY <1>1, <2>1, Iterates
<1>5. \A i \in 0 .. k : f[i] \in 0 .. n
  BY <1>4
<1>a. f = [i \in 0 .. k |-> f[i]] /\ f[0] = n /\ \A i \in 1 .. k : f[i] = g[<<f[i - 1], i>>]
  BY <1>4 DEF Turns
<1>6. ASSUME NEW i \in 1 .. k PROVE g[<<f[i - 1], i>>] = Without(f[i - 1], sent[i])
  <2>1. <<f[i - 1], i>> \in (0 .. n) \X (1 .. k)
    BY <1>5
  <2> QED  BY <2>1
<1> HIDE DEF g, P
<1>7. f = [i \in 0 .. k |-> IF i = 0 THEN n ELSE Without(f[i - 1], sent[i])]
  <2> DEFINE h == [i \in 0 .. k |-> IF i = 0 THEN n ELSE Without(f[i - 1], sent[i])]
  <2>1. ASSUME NEW i \in 0 .. k PROVE f[i] = h[i]
    <3>1. CASE i = 0
      BY <3>1, <1>a
    <3>2. CASE i # 0
      <4>1. i \in 1 .. k
        BY <3>2
      <4>2. f[i] = Without(f[i - 1], sent[i])
        BY <4>1, <1>a, <1>6
      <4> QED  BY <4>2, <3>2
    <3> QED  BY <3>1, <3>2
  <2>2. f = [i \in 0 .. k |-> f[i]] /\ h = [i \in 0 .. k |-> h[i]]
    BY <1>a
  <2> HIDE DEF h
  <2>3. f = h
    BY <2>1, <2>2
  <2> QED  BY <2>3 DEF h
<1> QED
  BY <1>7 DEF Reading

LEMMA GruntsAre ==
  ASSUME NEW n \in Nat, NEW k \in Nat, NEW sent,
         Len(sent) = k, \A i \in 1 .. k : sent[i] \in Nat
  PROVE  \E f : /\ GruntsLeft(n, sent) = f[k] /\ Remains(f, n, k, sent)
                /\ \A i \in 0 .. k : f[i] \in 0 .. n
<1> DEFINE f == CHOOSE f : Reading(f, n, k, sent)
<1>1. GruntsLeft(n, sent) = f[k]
  BY DEF GruntsLeft, Repeat, Reading
<1>3. Reading(f, n, k, sent)
  BY GruntsFollow
<1> HIDE DEF f
<1>4. f[0] = n /\ \A i \in 1 .. k : f[i] = Without(f[i - 1], sent[i])
  BY <1>3 DEF Reading
<1> DEFINE T == {i \in 0 .. k : f[i] \in 0 .. n}
<1>5. 0 \in T
  BY <1>4
<1>6. ASSUME NEW i \in 1 .. k, i - 1 \in T PROVE i \in T
  BY <1>4, <1>6 DEF Without
<1>7. \A i \in 0 .. k : i \in T
  <2> HIDE DEF T
  <2> QED  BY <1>5, <1>6, Upwards
<1> QED
  BY <1>1, <1>4, <1>7 DEF Remains

\* The grunts left are those of any such series.
LEMMA GruntsAgree ==
  ASSUME NEW n \in Nat, NEW k \in Nat, NEW sent, NEW f,
         Len(sent) = k, \A i \in 1 .. k : sent[i] \in Nat, Remains(f, n, k, sent)
  PROVE  GruntsLeft(n, sent) = f[k]
<1>1. PICK h : GruntsLeft(n, sent) = h[k] /\ Remains(h, n, k, sent)
  BY GruntsAre
<1>2. f[k] = h[k]
  BY <1>1, Agree DEF Remains
<1> QED
  BY <1>1, <1>2

\* Nothing sent, nothing there, one message more, and one message read.
LEMMA GruntsBounded ==
  ASSUME NEW n \in Nat, NEW sent \in Seq(Nat)
  PROVE  GruntsLeft(n, sent) \in 0 .. n /\ (sent = <<>> => GruntsLeft(n, sent) = n)
<1> DEFINE k == Len(sent)
<1>1. k \in Nat /\ (\A i \in 1 .. k : sent[i] \in Nat) /\ (sent = <<>> => k = 0)
  OBVIOUS
<1>2. PICK f : /\ GruntsLeft(n, sent) = f[k] /\ Remains(f, n, k, sent)
               /\ \A i \in 0 .. k : f[i] \in 0 .. n
  BY <1>1, GruntsAre
<1> HIDE DEF k
<1> QED
  BY <1>1, <1>2 DEF Remains

LEMMA GruntsAppend ==
  ASSUME NEW n \in Nat, NEW sent \in Seq(Nat), NEW w \in Nat
  PROVE  GruntsLeft(n, Append(sent, w)) = Without(GruntsLeft(n, sent), w)
<1> DEFINE k == Len(sent)
           more == Append(sent, w)
<1>1. /\ k \in Nat /\ Len(more) = k + 1 /\ more[k + 1] = w
      /\ \A i \in 1 .. k : more[i] = sent[i] /\ sent[i] \in Nat
  OBVIOUS
<1> HIDE DEF more, k
<1>2. k + 1 \in Nat /\ Len(sent) = k /\ \A i \in 1 .. k + 1 : more[i] \in Nat
  <2>1. \A i \in 1 .. k + 1 : i = k + 1 \/ i \in 1 .. k
    BY <1>1
  <2> QED  BY <1>1, <2>1 DEF k
<1>3. PICK h : GruntsLeft(n, more) = h[k + 1] /\ Remains(h, n, k + 1, more)
  BY <1>1, <1>2, GruntsAre
<1>4. Remains(h, n, k, sent) /\ h[k + 1] = Without(h[k], w)
  <2>1. \A i \in 1 .. k : i \in 1 .. k + 1
    BY <1>1
  <2>2. k + 1 \in 1 .. k + 1 /\ k + 1 - 1 = k
    BY <1>1
  <2> QED  BY <2>1, <2>2, <1>1, <1>3 DEF Remains
<1>5. GruntsLeft(n, sent) = h[k]
  BY <1>1, <1>2, <1>4, GruntsAgree
<1> QED
  BY <1>3, <1>4, <1>5 DEF more

LEMMA GruntsRead ==
  ASSUME NEW n \in Nat, NEW sent \in Seq(Nat), sent # <<>>
  PROVE  GruntsLeft(n, sent) = GruntsLeft(Without(n, Head(sent)), Tail(sent))
<1> DEFINE k == Len(sent) - 1
           rest == Tail(sent)
           one == Without(n, Head(sent))
<1>1. /\ k \in Nat /\ Len(rest) = k /\ Len(sent) = k + 1
      /\ Head(sent) = sent[1] /\ \A i \in 1 .. k : rest[i] = sent[i + 1]
      /\ \A i \in 1 .. k + 1 : sent[i] \in Nat
  OBVIOUS
<1> HIDE DEF rest, k
<1>2. one \in Nat /\ k + 1 \in Nat
  BY <1>1 DEF Without
<1>3. PICK f : GruntsLeft(n, sent) = f[k + 1] /\ Remains(f, n, k + 1, sent)
  BY <1>1, <1>2, GruntsAre
<1> DEFINE e == [i \in 0 .. k |-> f[i + 1]]
<1>4. e[0] = one
  BY <1>1, <1>3 DEF Remains
<1>5. ASSUME NEW i \in 1 .. k
      PROVE  e[i] = Without(e[i - 1], rest[i]) /\ rest[i] \in Nat
  <2>1. i + 1 \in 1 .. k + 1 /\ i + 1 - 1 = i /\ i - 1 + 1 = i /\ i \in 0 .. k /\ i - 1 \in 0 .. k
    BY <1>1
  <2>2. e[i] = f[i + 1] /\ e[i - 1] = f[i]
    BY <2>1
  <2>3. f[i + 1] = Without(f[i], sent[i + 1])
    BY <2>1, <1>3 DEF Remains
  <2>4. rest[i] = sent[i + 1] /\ sent[i + 1] \in Nat
    BY <2>1, <1>1
  <2> QED  BY <2>2, <2>3, <2>4
<1>6. e[k] = f[k + 1]
  BY <1>1
<1> HIDE DEF e, one
<1>7. Remains(e, one, k, rest)
  BY <1>4, <1>5 DEF Remains
<1>8. GruntsLeft(one, rest) = e[k]
  BY <1>1, <1>2, <1>5, <1>7, GruntsAgree
<1> QED
  BY <1>3, <1>6, <1>8 DEF rest, one

-----------------------------------------------------------------------------
(* Lists without repetition.                                               *)

\* One is added at the end.
LEMMA AppendOnce ==
  ASSUME NEW S, NEW s \in Seq(S), NEW e \in S, e \notin ToSet(s), IsInjective(s)
  PROVE  /\ Append(s, e) \in Seq(S) /\ IsInjective(Append(s, e))
         /\ ToSet(Append(s, e)) = ToSet(s) \cup {e}
         /\ Len(Append(s, e)) = Len(s) + 1 /\ Append(s, e)[Len(s) + 1] = e
         /\ \A i \in 1 .. Len(s) : Append(s, e)[i] = s[i]
<1> DEFINE t == Append(s, e)
<1>1. /\ t \in Seq(S) /\ Len(t) = Len(s) + 1 /\ Len(s) \in Nat
      /\ \A i \in 1 .. Len(s) : t[i] = s[i]
      /\ t[Len(s) + 1] = e /\ DOMAIN s = 1 .. Len(s) /\ DOMAIN t = 1 .. Len(t)
  OBVIOUS
<1> HIDE DEF t
<1>2. /\ \A i \in 1 .. Len(s) : s[i] # e
      /\ \A i, j \in 1 .. Len(s) : s[i] = s[j] => i = j
  BY <1>1 DEF ToSet, IsInjective
<1>3. ASSUME NEW i \in 1 .. Len(t), NEW j \in 1 .. Len(t), t[i] = t[j] PROVE i = j
  BY <1>1, <1>2, <1>3
<1>4. IsInjective(t)
  BY <1>1, <1>3 DEF IsInjective
<1>5. ToSet(t) = {t[i] : i \in 1 .. Len(t)} /\ ToSet(s) = {s[i] : i \in 1 .. Len(s)}
  BY <1>1 DEF ToSet
<1>6. ToSet(t) = ToSet(s) \cup {e}
  BY <1>1, <1>5
<1> QED
  BY <1>1, <1>4, <1>6 DEF t

\* One is taken out of a list of workers or of managers.
LEMMA OneRemoved ==
  ASSUME NEW S, NEW s \in Seq(S), NEW k \in DOMAIN s
  PROVE  /\ RemoveAt(s, k) \in Seq(S) /\ Len(RemoveAt(s, k)) = Len(s) - 1
         /\ \A i \in 1 .. Len(RemoveAt(s, k)) :
               RemoveAt(s, k)[i] = IF i < k THEN s[i] ELSE s[i + 1]
<1> DEFINE t == RemoveAt(s, k)
           a == SubSeq(s, 1, k - 1)
           b == SubSeq(s, k + 1, Len(s))
<1>1. /\ Len(s) \in Nat /\ DOMAIN s = 1 .. Len(s) /\ k \in 1 .. Len(s)
      /\ \A i \in 1 .. Len(s) : s[i] \in S
  OBVIOUS
<1>3. /\ a \in Seq(S) /\ Len(a) = k - 1
      /\ \A i \in 1 .. k - 1 : a[i] = s[i]
  <2>1. \A i \in 1 .. k - 1 : s[i] \in S
    OBVIOUS
  <2>2. /\ a \in Seq(S) /\ Len(a) = IF 1 <= k - 1 THEN k - 1 - 1 + 1 ELSE 0
        /\ \A i \in 1 .. k - 1 - 1 + 1 : a[i] = s[1 + i - 1]
    BY SubSeqProperties
  <2> HIDE DEF a
  <2> QED  BY <2>2
<1>4. /\ b \in Seq(S) /\ Len(b) = Len(s) - k
      /\ \A i \in 1 .. Len(s) - k : b[i] = s[k + i]
  <2>1. \A i \in k + 1 .. Len(s) : s[i] \in S
    OBVIOUS
  <2>2. /\ b \in Seq(S) /\ Len(b) = IF k + 1 <= Len(s) THEN Len(s) - (k + 1) + 1 ELSE 0
        /\ \A i \in 1 .. Len(s) - (k + 1) + 1 : b[i] = s[k + 1 + i - 1]
    BY SubSeqProperties
  <2> HIDE DEF b
  <2> QED  BY <2>2
<1>5. t = a \o b
  BY DEF RemoveAt
<1> HIDE DEF a, b, t
<1>6. /\ t \in Seq(S) /\ Len(t) = Len(s) - 1
      /\ \A i \in 1 .. Len(t) : t[i] = IF i < k THEN s[i] ELSE s[i + 1]
  <2>1. /\ t \in Seq(S) /\ Len(t) = Len(a) + Len(b)
        /\ \A i \in 1 .. Len(a) + Len(b) :
               t[i] = IF i <= Len(a) THEN a[i] ELSE b[i - Len(a)]
    BY <1>3, <1>4, <1>5, ConcatProperties, Zenon
  <2>2. t \in Seq(S) /\ Len(t) = Len(s) - 1
    BY <2>1, <1>3, <1>4
  <2>3. ASSUME NEW i \in 1 .. Len(t) PROVE t[i] = IF i < k THEN s[i] ELSE s[i + 1]
    <3>1. i \in 1 .. Len(s) - 1 /\ t[i] = IF i <= Len(a) THEN a[i] ELSE b[i - Len(a)]
      BY <2>1, <1>1, <1>3, <1>4
    <3>2. CASE i < k
      BY <3>1, <3>2, <1>1, <1>3
    <3>3. CASE ~(i < k)
      <4>1. i - (k - 1) \in 1 .. Len(s) - k /\ k + (i - (k - 1)) = i + 1 /\ ~(i <= k - 1)
        BY <3>1, <3>3, <1>1
      <4> QED  BY <3>1, <3>3, <1>3, <1>4
    <3> QED  BY <3>2, <3>3
  <2> QED  BY <2>2, <2>3
<1> QED
  BY <1>6 DEF t

\* What is left of a list without repetition.
LEMMA RemoveOnce ==
  ASSUME NEW S, NEW s \in Seq(S), NEW k \in DOMAIN s, IsInjective(s)
  PROVE  /\ RemoveAt(s, k) \in Seq(S) /\ IsInjective(RemoveAt(s, k))
         /\ s[k] \in S /\ s[k] \in ToSet(s)
         /\ ToSet(RemoveAt(s, k)) = ToSet(s) \ {s[k]}
<1> DEFINE t == RemoveAt(s, k)
<1>1. /\ Len(s) \in Nat /\ DOMAIN s = 1 .. Len(s) /\ k \in 1 .. Len(s)
      /\ \A i \in 1 .. Len(s) : s[i] \in S
  OBVIOUS
<1>2. \A i, j \in 1 .. Len(s) : s[i] = s[j] => i = j
  BY DEF IsInjective
<1>3. /\ t \in Seq(S) /\ Len(t) = Len(s) - 1
      /\ \A i \in 1 .. Len(t) : t[i] = IF i < k THEN s[i] ELSE s[i + 1]
  BY OneRemoved
<1> HIDE DEF t
<1>4. DOMAIN t = 1 .. Len(t)
  BY <1>3
<1>5. ToSet(t) = {t[i] : i \in 1 .. Len(t)} /\ ToSet(s) = {s[i] : i \in 1 .. Len(s)}
  BY <1>1, <1>4 DEF ToSet
<1>6. IsInjective(t)
  <2>1. ASSUME NEW i \in 1 .. Len(t)
        PROVE  /\ i < k => i \in 1 .. Len(s) /\ t[i] = s[i]
               /\ ~(i < k) => i + 1 \in 1 .. Len(s) /\ t[i] = s[i + 1]
    BY <1>1, <1>3
  <2>2. ASSUME NEW i \in 1 .. Len(t), NEW j \in 1 .. Len(t), t[i] = t[j] PROVE i = j
    <3>1. (IF i < k THEN i ELSE i + 1) = IF j < k THEN j ELSE j + 1
      BY <1>2, <2>1, <2>2
    <3> QED  BY <3>1, <1>1
  <2> QED  BY <1>4, <2>2 DEF IsInjective
<1>7. ASSUME NEW x PROVE x \in ToSet(t) <=> x \in ToSet(s) /\ x # s[k]
  <2>1. ASSUME x \in ToSet(t) PROVE x \in ToSet(s) /\ x # s[k]
    <3>1. PICK i \in 1 .. Len(t) : x = t[i]
      BY <2>1, <1>5
    <3>2. PICK j \in 1 .. Len(s) : j # k /\ x = s[j]
      BY <3>1, <1>3
    <3> QED  BY <3>2, <1>2, <1>5
  <2>2. ASSUME x \in ToSet(s), x # s[k] PROVE x \in ToSet(t)
    <3>1. PICK j \in 1 .. Len(s) : x = s[j] /\ j # k
      BY <2>2, <1>5
    <3>2. CASE j < k
      <4>1. j \in 1 .. Len(t) /\ x = t[j]
        BY <3>1, <3>2, <1>1, <1>3
      <4> QED  BY <4>1, <1>5
    <3>3. CASE j > k
      <4>1. j - 1 \in 1 .. Len(t) /\ x = t[j - 1]
        BY <3>1, <3>3, <1>1, <1>3
      <4> QED  BY <4>1, <1>5
    <3> QED  BY <3>1, <3>2, <3>3, <1>1
  <2> QED  BY <2>1, <2>2
<1> QED
  BY <1>1, <1>3, <1>5, <1>6, <1>7 DEF t

\* manager_list without one of its managers.
LEMMA RemoveFirstOnce ==
  ASSUME NEW S, NEW s \in Seq(S), NEW e \in ToSet(s), IsInjective(s)
  PROVE  /\ RemoveFirst(s, e) \in Seq(S) /\ IsInjective(RemoveFirst(s, e))
         /\ ToSet(RemoveFirst(s, e)) = ToSet(s) \ {e}
<1>1. DOMAIN s = 1 .. Len(s) /\ Len(s) \in Nat
  BY LenProperties
<1>2. PICK k \in 1 .. Len(s) : s[k] = e
  BY <1>1 DEF ToSet
<1>3. {i \in 1 .. Len(s) : s[i] = e} = {k}
  BY <1>1, <1>2 DEF IsInjective
<1>4. Min({k}) = k
  <2>1. \E x \in {k} : \A y \in {k} : x <= y
    OBVIOUS
  <2> QED  BY <2>1 DEF Min
<1>5. SelectInSeq(s, LAMBDA v : v = e) = k
  BY <1>3, <1>4 DEF SelectInSeq
<1>6. RemoveFirst(s, e) = RemoveAt(s, k)
  BY <1>2, <1>5 DEF RemoveFirst
<1> QED
  BY <1>1, <1>2, <1>6, RemoveOnce

-----------------------------------------------------------------------------
(* Workers of a sound tree, and trees that lose one.                       *)

\* Lists are as long as their last index, and there is no worker None.
LEMMA Numbers ==
  /\ MaxWorkers \in Nat \ {0} /\ All = MaxWorkers /\ None \notin Ids
  /\ \A x \in Ids : Home(x) \in Managers
<1>1. MaxWorkers \in Nat \ {0} /\ All = MaxWorkers /\ None \notin Ids
  BY PartnersAssumption DEF PartnersAssumption, All
<1>2. ASSUME NEW x \in Ids PROVE Home(x) \in Managers
  BY DEF Ids, Home
<1> QED
  BY <1>1, <1>2

\* Who is on a list has its place there and is somebody.
LEMMA OnList ==
  ASSUME NEW r, Sound(r), NEW m \in Managers, NEW i \in DOMAIN r.workers[m]
  PROVE  /\ r.workers[m] \in Seq(Ids) /\ i \in 1 .. Len(r.workers[m])
         /\ r.workers[m][i] \in Ids /\ Home(r.workers[m][i]) = m
         /\ r.kind[r.workers[m][i]] \in Kinds \ {"free"}
         /\ Place(r, r.workers[m][i]) = i
<1> DEFINE s == r.workers[m]
           x == s[i]
<1>1. s \in Seq(Ids) /\ r.kind \in [Ids -> Kinds]
  BY DEF Sound, Trees
<1>2. DOMAIN s = 1 .. Len(s) /\ x \in Ids /\ x \in ToSet(s)
  BY <1>1 DEF ToSet
<1>3. Home(x) = m /\ IsInjective(s)
  BY DEF Sound, ListedOnce
<1>4. r.kind[x] # "free"
  BY <1>2, <1>3 DEF Sound, ListedOnce
<1>5. Place(r, x) = i
  <2>1. \A j \in DOMAIN s : s[j] = x => j = i
    BY <1>3 DEF IsInjective
  <2> QED  BY <1>3, <2>1 DEF Place
<1> QED
  BY <1>1, <1>2, <1>3, <1>4, <1>5

\* Who is somebody is on the list of its manager.
LEMMA OnItsList ==
  ASSUME NEW r, Sound(r), NEW x \in Ids, r.kind[x] # "free"
  PROVE  /\ Home(x) \in Managers /\ r.workers[Home(x)] \in Seq(Ids)
         /\ Place(r, x) \in DOMAIN r.workers[Home(x)]
         /\ DOMAIN r.workers[Home(x)] = 1 .. Len(r.workers[Home(x)])
         /\ Len(r.workers[Home(x)]) \in 1 .. MaxWorkers
         /\ r.workers[Home(x)][Place(r, x)] = x
         /\ Place(r, x) - 1 \in 0 .. MaxWorkers
<1> DEFINE s == r.workers[Home(x)]
<1>1. Home(x) \in Managers /\ MaxWorkers \in Nat
  BY Numbers
<1>2. s \in Seq(Ids)
  BY <1>1 DEF Sound, Trees
<1>3. x \in ToSet(s) /\ Len(s) <= MaxWorkers
  BY <1>1 DEF Sound, ListedOnce
<1>4. PICK i \in DOMAIN s : s[i] = x
  BY <1>3 DEF ToSet
<1>5. Place(r, x) \in DOMAIN s /\ s[Place(r, x)] = x
  BY <1>4 DEF Place
<1>6. DOMAIN s = 1 .. Len(s) /\ Len(s) \in Nat
  BY <1>2
<1> HIDE DEF s
<1>7. Len(s) \in 1 .. MaxWorkers /\ Place(r, x) - 1 \in 0 .. MaxWorkers
  BY <1>1, <1>3, <1>5, <1>6
<1> QED
  BY <1>1, <1>2, <1>5, <1>6, <1>7 DEF s

\* A worker leaves that is a client or has no partner: off its list, and its
\* server has neither partner nor target any more.
Loose(r, x) == r.kind[x] # "free" /\ (r.kind[x] = "client" \/ r.partner[x] = None)
Shorter(r, x) == [r.workers EXCEPT ![Home(x)] = RemoveAt(@, Place(r, x))]
Parted(r, x, w, b) ==
    [workers |-> w, kind |-> [r.kind EXCEPT ![x] = "free"],
     assigned |-> r.assigned \ {x, r.partner[x]},
     partner |-> [y \in Ids |-> IF y \in {x, r.partner[x]} THEN None ELSE r.partner[y]],
     inbox |-> b, grunts |-> r.grunts, copies |-> r.copies \ {x}, up |-> r.up]

\* v is, for m, a list of w without x, which was at place p.
ShorterBy(w, v, x, m, p) ==
    /\ v \in [Managers -> Seq(Ids)] /\ v = [w EXCEPT ![m] = v[m]]
    /\ IsInjective(v[m]) /\ Len(v[m]) = Len(w[m]) - 1
    /\ ToSet(v[m]) = ToSet(w[m]) \ {x}
    /\ \A i \in DOMAIN v[m] : v[m][i] = w[m][IF i < p THEN i ELSE i + 1]
LEMMA ShorterLists ==
  ASSUME NEW r, Sound(r), NEW x \in Ids, r.kind[x] # "free"
  PROVE  ShorterBy(r.workers, Shorter(r, x), x, Home(x), Place(r, x))
<1> DEFINE m == Home(x)
           w == Shorter(r, x)
           s == r.workers[m]
           t == RemoveAt(s, Place(r, x))
<1>1. /\ m \in Managers /\ s \in Seq(Ids) /\ Place(r, x) \in DOMAIN s /\ s[Place(r, x)] = x
  BY OnItsList
<1>2. IsInjective(s) /\ r.workers \in [Managers -> Seq(Ids)]
  BY <1>1 DEF Sound, ListedOnce, Trees
<1> HIDE DEF m, s
<1>3. /\ t \in Seq(Ids) /\ Len(t) = Len(s) - 1
      /\ \A i \in 1 .. Len(t) : t[i] = IF i < Place(r, x) THEN s[i] ELSE s[i + 1]
  BY <1>1, OneRemoved
<1>4. IsInjective(t) /\ ToSet(t) = ToSet(s) \ {x}
  BY <1>1, <1>2, RemoveOnce
<1>5. w = [r.workers EXCEPT ![m] = t]
  BY DEF Shorter, m, s
<1> HIDE DEF t, w
<1>6. w[m] = t /\ w \in [Managers -> Seq(Ids)] /\ w = [r.workers EXCEPT ![m] = w[m]]
  BY <1>1, <1>2, <1>3, <1>5
<1>7. \A i \in DOMAIN t : t[i] = s[IF i < Place(r, x) THEN i ELSE i + 1]
  BY <1>3
<1> QED
  BY <1>3, <1>4, <1>6, <1>7 DEF m, s, w, ShorterBy

LEMMA PartedSound ==
  ASSUME NEW r, Sound(r), NEW x \in Ids, Loose(r, x),
         NEW b \in [Managers -> Seq(0 .. MaxWorkers)]
  PROVE  Sound(Parted(r, x, Shorter(r, x), b))
<1> DEFINE m == Home(x)
           w == Shorter(r, x)
           c == r.partner[x]
           q == Parted(r, x, w, b)
<1>1. /\ r \in Trees /\ ListedOnce(r) /\ InPairs(r) /\ ServersFirst(r)
      /\ r.kind[x] # "free" /\ (r.kind[x] = "client" \/ r.partner[x] = None)
  BY DEF Sound, Loose
<1>2. /\ r.kind \in [Ids -> Kinds] /\ r.assigned \subseteq Ids /\ r.copies \subseteq Ids
      /\ r.partner \in [Ids -> Ids \cup {None}] /\ r.grunts \in [Managers -> 0 .. MaxWorkers]
      /\ r.up \in BOOLEAN /\ r.workers \in [Managers -> Seq(Ids)]
  BY <1>1 DEF Trees
<1>3. m \in Managers /\ None \notin Ids /\ MaxWorkers \in Nat
  BY Numbers
<1>4. /\ w \in [Managers -> Seq(Ids)] /\ w = [r.workers EXCEPT ![m] = w[m]]
      /\ IsInjective(w[m]) /\ Len(w[m]) = Len(r.workers[m]) - 1
      /\ ToSet(w[m]) = ToSet(r.workers[m]) \ {x}
      /\ \A i \in DOMAIN w[m] : w[m][i] = r.workers[m][IF i < Place(r, x) THEN i ELSE i + 1]
  <2>1. ShorterBy(r.workers, w, x, m, Place(r, x))
    BY <1>1, ShorterLists
  <2> QED  BY <2>1 DEF ShorterBy
<1>5. /\ Place(r, x) \in 1 .. Len(r.workers[m]) /\ DOMAIN r.workers[m] = 1 .. Len(r.workers[m])
      /\ Len(r.workers[m]) \in 1 .. MaxWorkers
  BY <1>1, OnItsList
<1> HIDE DEF w
<1>6. /\ q.workers = w /\ q.kind = [r.kind EXCEPT ![x] = "free"]
      /\ q.assigned = r.assigned \ {x, c}
      /\ q.partner = [y \in Ids |-> IF y \in {x, c} THEN None ELSE r.partner[y]]
      /\ q.copies = r.copies \ {x}
  BY DEF Parted
<1>7. q \in Trees
  BY <1>2, <1>4 DEF Parted, Trees, Kinds
<1> HIDE DEF q, c, m
<1>a. DOMAIN w[m] = 1 .. Len(w[m]) /\ \A n \in Managers : n # m => w[n] = r.workers[n]
  BY <1>2, <1>3, <1>4
<1>8. ASSUME NEW i \in DOMAIN w[m]
      PROVE  \E k \in DOMAIN r.workers[m] :
                w[m][i] = r.workers[m][k] /\ k = IF i < Place(r, x) THEN i ELSE i + 1
  BY <1>4, <1>5, <1>a
<1>9. ListedOnce(q)
  <2>1. ASSUME NEW n \in Managers
        PROVE  /\ IsInjective(w[n]) /\ Len(w[n]) <= MaxWorkers
               /\ \A i \in DOMAIN w[n] : Home(w[n][i]) = n
    <3>1. CASE n = m
      <4>1. \A i \in DOMAIN w[m] : Home(w[m][i]) = m
        BY <1>1, <1>3, <1>8 DEF ListedOnce
      <4>2. Len(w[m]) <= MaxWorkers
        BY <1>3, <1>4, <1>5
      <4> QED  BY <3>1, <4>1, <4>2, <1>4
    <3>2. CASE n # m
      BY <3>2, <1>1, <1>a DEF ListedOnce
    <3> QED  BY <3>1, <3>2
  <2>2. ASSUME NEW y \in Ids PROVE q.kind[y] = "free" <=> y \notin ToSet(w[Home(y)])
    <3>1. Home(y) \in Managers /\ (r.kind[y] = "free" <=> y \notin ToSet(r.workers[Home(y)]))
      BY <1>1, Numbers DEF ListedOnce
    <3>2. q.kind[y] = IF y = x THEN "free" ELSE r.kind[y]
      BY <1>2, <1>6
    <3>3. CASE Home(y) = m
      BY <3>1, <3>2, <3>3, <1>4 DEF m
    <3>4. CASE Home(y) # m
      BY <3>1, <3>2, <3>4, <1>a DEF m
    <3> QED  BY <3>3, <3>4
  <2> QED  BY <2>1, <2>2, <1>6 DEF ListedOnce
<1>b. /\ \A y \in Ids : q.kind[y] = IF y = x THEN "free" ELSE r.kind[y]
      /\ \A y \in Ids : q.partner[y] = IF y \in {x, c} THEN None ELSE r.partner[y]
      /\ c # None => c \in Ids /\ r.partner[c] = x /\ r.kind[c] = "server" /\ c # x
  BY <1>1, <1>2, <1>6 DEF c, InPairs
<1>c. InPairs(q)
  <2> SUFFICES ASSUME NEW y \in Ids
      PROVE  /\ y \in q.assigned => q.kind[y] = "server"
             /\ y \in q.copies => q.kind[y] = "client"
             /\ q.kind[y] = "client" => (q.partner[y] = None <=> y \in q.copies)
             /\ q.partner[y] # None =>
                   /\ q.partner[q.partner[y]] = y
                   /\ \/ q.kind[y] = "server" /\ q.kind[q.partner[y]] = "client" /\ y \in q.assigned
                      \/ q.kind[y] = "client" /\ q.kind[q.partner[y]] = "server"
    BY DEF InPairs
  <2>1. /\ y \in r.assigned => r.kind[y] = "server"
        /\ y \in r.copies => r.kind[y] = "client"
        /\ r.kind[y] = "client" => (r.partner[y] = None <=> y \in r.copies)
        /\ r.partner[y] # None =>
              /\ r.partner[r.partner[y]] = y
              /\ \/ r.kind[y] = "server" /\ r.kind[r.partner[y]] = "client" /\ y \in r.assigned
                 \/ r.kind[y] = "client" /\ r.kind[r.partner[y]] = "server"
    BY <1>1 DEF InPairs
  <2>2. CASE y = x
    BY <2>2, <1>b, <1>6
  <2>3. CASE y = c /\ y # x
    BY <2>1, <2>3, <1>b, <1>6, <1>3
  <2>4. CASE y \notin {x, c}
    <3>1. /\ q.kind[y] = r.kind[y] /\ q.partner[y] = r.partner[y]
          /\ y \in q.assigned <=> y \in r.assigned
          /\ y \in q.copies <=> y \in r.copies
      BY <2>4, <1>b, <1>6
    <3>2. ASSUME r.partner[y] # None
          PROVE  /\ q.partner[r.partner[y]] = r.partner[r.partner[y]]
                 /\ q.kind[r.partner[y]] = r.kind[r.partner[y]]
      <4>1. r.partner[y] \in Ids
        BY <3>2, <1>2
      <4>2. r.partner[y] # x
        BY <3>2, <2>1, <2>4 DEF c
      <4>3. r.partner[y] # c
        BY <3>2, <2>1, <2>4, <1>b
      <4> QED  BY <4>1, <4>2, <4>3, <1>b
    <3> QED  BY <3>1, <3>2, <2>1
  <2> QED  BY <2>2, <2>3, <2>4
<1>d. ServersFirst(q)
  <2> SUFFICES ASSUME NEW n \in Managers, NEW i \in DOMAIN w[n], NEW j \in DOMAIN w[n],
                      q.partner[w[n][i]] = w[n][j], q.kind[w[n][j]] = "client"
               PROVE  i < j
    BY <1>6 DEF ServersFirst
  <2>1. w[n][i] \in Ids /\ w[n][j] \in Ids
    BY <1>4
  <2>2. r.partner[w[n][i]] = w[n][j] /\ r.kind[w[n][j]] = "client"
    BY <2>1, <1>b, <1>3
  <2>3. CASE n # m
    BY <2>2, <2>3, <1>1, <1>a DEF ServersFirst
  <2>4. CASE n = m
    <3>1. PICK k \in DOMAIN r.workers[m] :
             w[m][i] = r.workers[m][k] /\ k = IF i < Place(r, x) THEN i ELSE i + 1
      BY <2>4, <1>8
    <3>2. PICK l \in DOMAIN r.workers[m] :
             w[m][j] = r.workers[m][l] /\ l = IF j < Place(r, x) THEN j ELSE j + 1
      BY <2>4, <1>8
    <3>3. k < l
      BY <3>1, <3>2, <2>2, <2>4, <1>1, <1>3 DEF ServersFirst
    <3> QED  BY <3>1, <3>2, <3>3, <2>4, <1>5, <1>a
  <2> QED  BY <2>3, <2>4
<1>e. Sound(q)
  BY <1>7, <1>9, <1>c, <1>d DEF Sound
<1> QED
  BY <1>e DEF q, w

\* The worker's Dynamo is told, unless it is to remove all of them anyway.
Told(r, x) == [r.inbox EXCEPT ![Home(x)] = Append(@, Place(r, x) - 1)]
Lost(r, x) == Parted(r, x, Shorter(r, x), Told(r, x))

LEMMA ToldType ==
  ASSUME NEW r, Sound(r), NEW x \in Ids, r.kind[x] # "free"
  PROVE  /\ Told(r, x) \in [Managers -> Seq(0 .. MaxWorkers)]
         /\ Told(r, x)[Home(x)] = Append(r.inbox[Home(x)], Place(r, x) - 1)
         /\ \A n \in Managers : n # Home(x) => Told(r, x)[n] = r.inbox[n]
<1>1. r.inbox \in [Managers -> Seq(0 .. MaxWorkers)]
  BY DEF Sound, Trees
<1>2. Home(x) \in Managers /\ Place(r, x) - 1 \in 0 .. MaxWorkers
  BY OnItsList
<1>3. Append(r.inbox[Home(x)], Place(r, x) - 1) \in Seq(0 .. MaxWorkers)
  BY <1>1, <1>2
<1> QED
  BY <1>1, <1>2, <1>3 DEF Told

\* No list gets longer.
LEMMA ShorterWithin ==
  ASSUME NEW r, Sound(r), NEW x \in Ids, r.kind[x] # "free"
  PROVE  /\ Len(Shorter(r, x)[Home(x)]) = Len(r.workers[Home(x)]) - 1
         /\ r.workers[Home(x)] # <<>>
         /\ \A n \in Managers : n # Home(x) => Shorter(r, x)[n] = r.workers[n]
<1>1. ShorterBy(r.workers, Shorter(r, x), x, Home(x), Place(r, x))
  BY ShorterLists
<1>2. r.workers \in [Managers -> Seq(Ids)] /\ Home(x) \in Managers
  BY Numbers DEF Sound, Trees
<1>3. Len(r.workers[Home(x)]) \in 1 .. MaxWorkers
  BY OnItsList
<1>4. r.workers[Home(x)] # <<>>
  BY <1>3
<1> QED
  BY <1>1, <1>2, <1>4 DEF ShorterBy

LEMMA MessageTypes ==
  ASSUME NEW r \in Trees, NEW n \in Managers
  PROVE  /\ r.grunts[n] \in Nat /\ r.grunts[n] \in 0 .. MaxWorkers
         /\ r.inbox[n] \in Seq(Nat) /\ r.inbox[n] \in Seq(0 .. MaxWorkers)
         /\ r.workers[n] \in Seq(Ids) /\ Len(r.workers[n]) \in Nat
<1>1. r.grunts[n] \in 0 .. MaxWorkers /\ r.inbox[n] \in Seq(0 .. MaxWorkers)
  BY DEF Trees
<1>2. r.workers[n] \in Seq(Ids)
  BY DEF Trees
<1>3. \A s \in Seq(0 .. MaxWorkers) : s \in Seq(Nat)
  <2> TAKE s \in Seq(0 .. MaxWorkers)
  <2>1. Len(s) \in Nat /\ \A i \in 1 .. Len(s) : s[i] \in 0 .. MaxWorkers
    BY LenProperties, ElementOfSeq
  <2>2. \A i \in 1 .. Len(s) : s[i] \in Nat
    BY <2>1
  <2> QED  BY <2>2
<1> QED
  BY <1>1, <1>2, <1>3

\* A worker leaves with its EXIT: everything stays as it should be.
LEMMA LostFine ==
  ASSUME NEW r, NEW L, NEW G, Fine(r, L, G), NEW x \in Ids, Loose(r, x)
  PROVE  Fine(Lost(r, x), L, G)
<1> DEFINE m == Home(x)
           q == Lost(r, x)
           p == Place(r, x)
<1>1. Sound(r) /\ Within(r, L) /\ InTune(r, L, G) /\ r \in Trees /\ r.kind[x] # "free"
  BY DEF Fine, Sound, Loose
<1>2. /\ Told(r, x) \in [Managers -> Seq(0 .. MaxWorkers)]
      /\ Told(r, x)[m] = Append(r.inbox[m], p - 1)
      /\ \A n \in Managers : n # m => Told(r, x)[n] = r.inbox[n]
  BY <1>1, ToldType
<1>3. Sound(q)
  BY <1>1, <1>2, PartedSound DEF Lost
<1>4. q.workers = Shorter(r, x) /\ q.inbox = Told(r, x) /\ q.grunts = r.grunts
  BY DEF Lost, Parted
<1>5. /\ Len(Shorter(r, x)[m]) = Len(r.workers[m]) - 1 /\ r.workers[m] # <<>>
      /\ \A n \in Managers : n # m => Shorter(r, x)[n] = r.workers[n]
  BY <1>1, ShorterWithin
<1>6. m \in Managers /\ p - 1 \in Nat /\ p - 1 < Len(r.workers[m])
  BY <1>1, OnItsList
<1>7. m \in L
  BY <1>1, <1>5, <1>6 DEF Within
<1> HIDE DEF q, m, p
<1>8. Within(q, L)
  BY <1>1, <1>4, <1>5, <1>7 DEF Within
<1>9. ASSUME NEW n \in Managers
      PROVE  IF n \in G THEN GruntsLeft(q.grunts[n], q.inbox[n]) = Len(q.workers[n])
             ELSE \/ All \in ToSet(q.inbox[n])
                  \/ n \notin L /\ q.inbox[n] = <<>> /\ q.grunts[n] = 0
  <2>1. IF n \in G THEN GruntsLeft(r.grunts[n], r.inbox[n]) = Len(r.workers[n])
        ELSE \/ All \in ToSet(r.inbox[n])
             \/ n \notin L /\ r.inbox[n] = <<>> /\ r.grunts[n] = 0
    BY <1>1 DEF InTune
  <2>2. CASE n # m
    BY <2>1, <2>2, <1>2, <1>4, <1>5
  <2>3. CASE n = m /\ n \in G
    <3>1. r.grunts[m] \in Nat /\ r.inbox[m] \in Seq(Nat) /\ Len(r.workers[m]) \in Nat
      BY <1>1, <1>6, MessageTypes
    <3>2. GruntsLeft(r.grunts[m], Append(r.inbox[m], p - 1))
             = Without(GruntsLeft(r.grunts[m], r.inbox[m]), p - 1)
      BY <3>1, <1>6, GruntsAppend
    <3>3. Without(Len(r.workers[m]), p - 1) = Len(r.workers[m]) - 1
      BY <3>1, <1>6 DEF Without
    <3> QED  BY <2>1, <2>3, <3>2, <3>3, <1>2, <1>4, <1>5
  <2>4. CASE n = m /\ n \notin G
    <3>1. All \in ToSet(r.inbox[m])
      BY <2>1, <2>4, <1>7
    <3>2. r.inbox[m] \in Seq(Nat)
      BY <1>1, <1>6, MessageTypes
    <3>3. PICK i \in DOMAIN r.inbox[m] : r.inbox[m][i] = All
      BY <3>1 DEF ToSet
    <3>4. i \in DOMAIN Append(r.inbox[m], p - 1) /\ Append(r.inbox[m], p - 1)[i] = All
      BY <3>2, <3>3
    <3>5. All \in ToSet(q.inbox[m])
      BY <3>4, <1>2, <1>4 DEF ToSet
    <3> QED  BY <2>4, <3>5
  <2> QED  BY <2>2, <2>3, <2>4
<1> QED
  BY <1>3, <1>8, <1>9 DEF Fine, InTune, q

\* A worker leaves with its manager, whose Dynamo has been told.
LEMMA SilentFine ==
  ASSUME NEW r, NEW L, NEW G, Fine(r, L, G), NEW x \in Ids, Loose(r, x), Home(x) \notin G
  PROVE  Fine(Parted(r, x, Shorter(r, x), r.inbox), L, G)
<1> DEFINE m == Home(x)
           q == Parted(r, x, Shorter(r, x), r.inbox)
<1>1. Sound(r) /\ Within(r, L) /\ InTune(r, L, G) /\ r \in Trees /\ r.kind[x] # "free"
  BY DEF Fine, Sound, Loose
<1>2. Sound(q)
  <2>1. r.inbox \in [Managers -> Seq(0 .. MaxWorkers)]
    BY <1>1 DEF Trees
  <2> QED  BY <1>1, <2>1, PartedSound
<1>3. q.workers = Shorter(r, x) /\ q.inbox = r.inbox /\ q.grunts = r.grunts
  BY DEF Parted
<1>4. /\ r.workers[m] # <<>>
      /\ \A n \in Managers : n # m => Shorter(r, x)[n] = r.workers[n]
  BY <1>1, ShorterWithin
<1>5. m \in Managers /\ m \in L
  BY <1>1, <1>4, Numbers DEF Within
<1> HIDE DEF q
<1>6. Within(q, L)
  BY <1>1, <1>3, <1>4, <1>5 DEF Within
<1>7. InTune(q, L, G)
  BY <1>1, <1>3, <1>4, <1>5 DEF InTune
<1> QED
  BY <1>2, <1>6, <1>7 DEF Fine, q

-----------------------------------------------------------------------------
(* The methods that remove workers and targets.                            *)

\* What the steps of a removal make of a tree.
\* A tree, and what it is when one of its parts changes.
Of(w, k, a, p, b, g, c, u) ==
    [workers |-> w, kind |-> k, assigned |-> a, partner |-> p,
     inbox |-> b, grunts |-> g, copies |-> c, up |-> u]

LEMMA IsOf ==
  ASSUME NEW r \in Trees
  PROVE  r = Of(r.workers, r.kind, r.assigned, r.partner, r.inbox, r.grunts, r.copies, r.up)
  BY DEF Trees, Of

LEMMA Unlisted ==
  ASSUME NEW r \in Trees, NEW x \in Ids
  PROVE  Unlist(r, x) = Of(Shorter(r, x), r.kind, r.assigned, r.partner, Told(r, x),
                           r.grunts, r.copies, r.up)
<1> DEFINE w == Shorter(r, x)
           b == Told(r, x)
<1>1. Unlist(r, x) = [[r EXCEPT !.inbox = b] EXCEPT !.workers = w]
  BY DEF Unlist, Shorter, Told
<1> HIDE DEF w, b
<1>2. PICK q : q = [r EXCEPT !.inbox = b]
  OBVIOUS
<1>3. q = Of(r.workers, r.kind, r.assigned, r.partner, b, r.grunts, r.copies, r.up)
  BY <1>2, IsOf DEF Of
<1>4. [q EXCEPT !.workers = w]
         = Of(w, r.kind, r.assigned, r.partner, b, r.grunts, r.copies, r.up)
  BY <1>3 DEF Of
<1> QED
  BY <1>1, <1>2, <1>4 DEF w, b

LEMMA Freed ==
  ASSUME NEW r \in Trees, NEW x \in Ids
  PROVE  Free(r, x) = Of(r.workers, [r.kind EXCEPT ![x] = "free"], r.assigned \ {x},
                         [r.partner EXCEPT ![x] = None], r.inbox, r.grunts, r.copies \ {x}, r.up)
<1> DEFINE k == [r.kind EXCEPT ![x] = "free"]
           p == [r.partner EXCEPT ![x] = None]
           a == r.assigned \ {x}
           c == r.copies \ {x}
<1>1. Free(r, x) = [[[[r EXCEPT !.kind = k] EXCEPT !.partner = p] EXCEPT !.assigned = a]
                       EXCEPT !.copies = c]
  BY DEF Free
<1> HIDE DEF k, p, a, c
<1>2. PICK q : q = [r EXCEPT !.kind = k]
  OBVIOUS
<1>3. q = Of(r.workers, k, r.assigned, r.partner, r.inbox, r.grunts, r.copies, r.up)
  BY <1>2, IsOf DEF Of
<1>4. PICK s : s = [q EXCEPT !.partner = p]
  OBVIOUS
<1>5. s = Of(r.workers, k, r.assigned, p, r.inbox, r.grunts, r.copies, r.up)
  BY <1>3, <1>4 DEF Of
<1>6. PICK t : t = [s EXCEPT !.assigned = a]
  OBVIOUS
<1>7. t = Of(r.workers, k, a, p, r.inbox, r.grunts, r.copies, r.up)
  BY <1>5, <1>6 DEF Of
<1>8. [t EXCEPT !.copies = c] = Of(r.workers, k, a, p, r.inbox, r.grunts, c, r.up)
  BY <1>7 DEF Of
<1>9. Free(r, x) = [t EXCEPT !.copies = c]
  BY <1>1, <1>2, <1>4, <1>6
<1> QED
  BY <1>8, <1>9 DEF k, p, a, c

LEMMA OfFields ==
  ASSUME NEW w, NEW k, NEW a, NEW p, NEW b, NEW g, NEW c, NEW u,
         NEW q, q = Of(w, k, a, p, b, g, c, u)
  PROVE  /\ q.workers = w /\ q.kind = k /\ q.assigned = a /\ q.partner = p
         /\ q.inbox = b /\ q.grunts = g /\ q.copies = c /\ q.up = u
         /\ /\ w \in [Managers -> Seq(Ids)] /\ k \in [Ids -> Kinds] /\ a \subseteq Ids
            /\ p \in [Ids -> Ids \cup {None}] /\ b \in [Managers -> Seq(0 .. MaxWorkers)]
            /\ g \in [Managers -> 0 .. MaxWorkers] /\ c \subseteq Ids /\ u \in BOOLEAN
            => q \in Trees
  BY DEF Of, Trees

LEMMA TreeFields ==
  ASSUME NEW r \in Trees
  PROVE  /\ r.workers \in [Managers -> Seq(Ids)] /\ r.kind \in [Ids -> Kinds]
         /\ r.assigned \subseteq Ids /\ r.partner \in [Ids -> Ids \cup {None}]
         /\ r.inbox \in [Managers -> Seq(0 .. MaxWorkers)]
         /\ r.grunts \in [Managers -> 0 .. MaxWorkers]
         /\ r.copies \subseteq Ids /\ r.up \in BOOLEAN
  BY DEF Trees

\* A worker without partner, and a client: what is left is the same.
LEMMA LoneFreed ==
  ASSUME NEW r \in Trees, NEW x \in Ids, r.partner[x] = None
  PROVE  Free(r, x) = Parted(r, x, r.workers, r.inbox)
<1>1. r.assigned \ {x} = r.assigned \ {x, r.partner[x]}
  BY TreeFields, Numbers
<1>2. [r.partner EXCEPT ![x] = None]
         = [y \in Ids |-> IF y \in {x, r.partner[x]} THEN None ELSE r.partner[y]]
  BY TreeFields, Numbers
<1> QED
  BY <1>1, <1>2, Freed DEF Parted, Of

LEMMA ClientFreed ==
  ASSUME NEW r \in Trees, NEW x \in Ids, r.partner[x] # x
  PROVE  ClientDeleted(r, x) = Parted(r, x, r.workers, r.inbox)
<1>1. CASE r.partner[x] = None
  BY <1>1, LoneFreed DEF ClientDeleted
<1>2. CASE r.partner[x] # None
  <2> DEFINE s == r.partner[x]
             p == [r.partner EXCEPT ![s] = None]
             a == r.assigned \ {s}
  <2>1. s \in Ids /\ s # x
    BY <1>2, TreeFields
  <2>2. ClientDeleted(r, x) = Free([[r EXCEPT !.partner = p] EXCEPT !.assigned = a], x)
    BY <1>2 DEF ClientDeleted
  <2>3. p \in [Ids -> Ids \cup {None}] /\ a \subseteq Ids
    BY TreeFields
  <2>4. /\ a \ {x} = r.assigned \ {x, s}
        /\ [p EXCEPT ![x] = None]
              = [y \in Ids |-> IF y \in {x, s} THEN None ELSE r.partner[y]]
    BY <2>1, TreeFields
  <2> HIDE DEF p, a
  <2>5. PICK q : q = [r EXCEPT !.partner = p]
    OBVIOUS
  <2>6. q = Of(r.workers, r.kind, r.assigned, p, r.inbox, r.grunts, r.copies, r.up)
    BY <2>5, IsOf DEF Of
  <2>7. PICK t : t = [q EXCEPT !.assigned = a]
    OBVIOUS
  <2>8. t = Of(r.workers, r.kind, a, p, r.inbox, r.grunts, r.copies, r.up)
    BY <2>6, <2>7 DEF Of
  <2>9. t \in Trees
    BY <2>3, <2>8, TreeFields, OfFields
  <2>10. Free(t, x) = Of(r.workers, [r.kind EXCEPT ![x] = "free"], a \ {x},
                         [p EXCEPT ![x] = None], r.inbox, r.grunts, r.copies \ {x}, r.up)
    <3>1. /\ t.workers = r.workers /\ t.kind = r.kind /\ t.assigned = a /\ t.partner = p
          /\ t.inbox = r.inbox /\ t.grunts = r.grunts /\ t.copies = r.copies /\ t.up = r.up
      BY <2>8, OfFields
    <3> QED  BY <2>9, <3>1, Freed
  <2>11. ClientDeleted(r, x) = Free(t, x)
    BY <2>2, <2>5, <2>7
  <2> QED  BY <2>4, <2>10, <2>11 DEF Of, Parted
<1> QED
  BY <1>1, <1>2

\* Off the list, the tree is still one, and the rest of it the same.
LEMMA UnlistedTree ==
  ASSUME NEW r, Sound(r), NEW x \in Ids, r.kind[x] # "free", NEW q, q = Unlist(r, x)
  PROVE  /\ q \in Trees /\ q.workers = Shorter(r, x) /\ q.inbox = Told(r, x)
         /\ q.kind = r.kind /\ q.assigned = r.assigned /\ q.partner = r.partner
         /\ q.grunts = r.grunts /\ q.copies = r.copies /\ q.up = r.up
<1>1. r \in Trees
  BY DEF Sound
<1>2. q = Of(Shorter(r, x), r.kind, r.assigned, r.partner, Told(r, x), r.grunts, r.copies, r.up)
  BY <1>1, Unlisted
<1>3. Shorter(r, x) \in [Managers -> Seq(Ids)] /\ Told(r, x) \in [Managers -> Seq(0 .. MaxWorkers)]
  BY ShorterLists, ToldType DEF ShorterBy
<1>4. /\ q.workers = Shorter(r, x) /\ q.inbox = Told(r, x)
      /\ q.kind = r.kind /\ q.assigned = r.assigned /\ q.partner = r.partner
      /\ q.grunts = r.grunts /\ q.copies = r.copies /\ q.up = r.up
  BY <1>2, OfFields
<1>5. q \in Trees
  BY <1>1, <1>2, <1>3, TreeFields DEF Of, Trees
<1> QED
  BY <1>4, <1>5

LEMMA SameParted ==
  ASSUME NEW r, NEW q, NEW x, NEW w, NEW b, q.kind = r.kind, q.assigned = r.assigned,
         q.partner = r.partner, q.grunts = r.grunts, q.copies = r.copies, q.up = r.up
  PROVE  Parted(q, x, w, b) = Parted(r, x, w, b)
  BY DEF Parted

\* Partners are two.
LEMMA Partner ==
  ASSUME NEW r, Sound(r), NEW x \in Ids
  PROVE  /\ r.partner[x] # x
         /\ r.partner[x] # None =>
               /\ r.partner[x] \in Ids /\ r.partner[r.partner[x]] = x
               /\ r.kind[x] = "server" => r.kind[r.partner[x]] = "client" /\ x \in r.assigned
               /\ r.kind[x] # "server" => r.kind[x] = "client" /\ r.kind[r.partner[x]] = "server"
<1>1. r.partner[x] \in Ids \cup {None} /\ None \notin Ids
  BY Numbers DEF Sound, Trees
<1>2. r.partner[x] # None =>
        /\ r.partner[r.partner[x]] = x
        /\ \/ r.kind[x] = "server" /\ r.kind[r.partner[x]] = "client" /\ x \in r.assigned
           \/ r.kind[x] = "client" /\ r.kind[r.partner[x]] = "server"
  BY DEF Sound, InPairs
<1> QED
  BY <1>1, <1>2

\* A client goes with its EXIT, and so does a worker without partner.
LEMMA ClientLost ==
  ASSUME NEW r, Sound(r), NEW x \in Ids, r.kind[x] # "free"
  PROVE  ClientDeleted(Unlist(r, x), x) = Lost(r, x)
<1>1. PICK q : q = Unlist(r, x)
  OBVIOUS
<1>2. /\ q \in Trees /\ q.workers = Shorter(r, x) /\ q.inbox = Told(r, x)
      /\ q.kind = r.kind /\ q.assigned = r.assigned /\ q.partner = r.partner
      /\ q.grunts = r.grunts /\ q.copies = r.copies /\ q.up = r.up
  BY <1>1, UnlistedTree
<1>3. ClientDeleted(q, x) = Parted(q, x, q.workers, q.inbox)
  BY <1>2, Partner, ClientFreed
<1> QED
  BY <1>1, <1>2, <1>3, SameParted DEF Lost

\* Worker::RemoveTargets: there is nothing to remove, or no partner, or the
\* partner goes.
LEMMA TargetsGone ==
  ASSUME NEW r, Sound(r), NEW s \in Ids, r.kind[s] = "server"
  PROVE  /\ s \notin r.assigned => RemoveTargets(r, s) = r /\ r.partner[s] = None
         /\ s \in r.assigned /\ r.partner[s] = None =>
               RemoveTargets(r, s) = Of(r.workers, r.kind, r.assigned \ {s}, r.partner,
                                        r.inbox, r.grunts, r.copies, r.up)
         /\ r.partner[s] # None => RemoveTargets(r, s) = Lost(r, r.partner[s])
<1> DEFINE c == r.partner[s]
<1>1. ASSUME s \notin r.assigned PROVE RemoveTargets(r, s) = r /\ r.partner[s] = None
  BY <1>1, Partner DEF RemoveTargets
<1>2. ASSUME s \in r.assigned, c = None
      PROVE  RemoveTargets(r, s) = Of(r.workers, r.kind, r.assigned \ {s}, r.partner,
                                      r.inbox, r.grunts, r.copies, r.up)
  <2> DEFINE a == r.assigned \ {s}
  <2>1. RemoveTargets(r, s) = [r EXCEPT !.assigned = a]
    BY <1>2 DEF RemoveTargets
  <2>2. r \in Trees
    BY DEF Sound
  <2> HIDE DEF a
  <2>3. RemoveTargets(r, s) = Of(r.workers, r.kind, a, r.partner,
                                 r.inbox, r.grunts, r.copies, r.up)
    BY <2>1, <2>2, IsOf DEF Of
  <2> QED  BY <2>3 DEF a
<1>3. ASSUME c # None PROVE RemoveTargets(r, s) = Lost(r, c)
  <2> DEFINE a == r.assigned \ {s}
             p == [[r.partner EXCEPT ![s] = None] EXCEPT ![c] = None]
  <2>1. /\ c \in Ids /\ c # s /\ r.partner[c] = s /\ r.kind[c] = "client" /\ s \in r.assigned
        /\ r \in Trees
    BY <1>3, Partner DEF Sound
  <2>2. PICK q : q = [r EXCEPT !.assigned = a]
    OBVIOUS
  <2>3. PICK t : t = [q EXCEPT !.partner = p]
    OBVIOUS
  <2>4. RemoveTargets(r, s) = ClientDeleted(Unlist(t, c), c)
    <3>1. t = [r EXCEPT !.assigned = @ \ {s}, !.partner = [@ EXCEPT ![s] = None, ![c] = None]]
      BY <2>2, <2>3
    <3> QED  BY <1>3, <2>1, <3>1 DEF RemoveTargets
  <2>5. a \subseteq Ids /\ p \in [Ids -> Ids \cup {None}]
    BY <2>1, TreeFields
  <2>6. /\ p[c] = None
        /\ a \ {c, p[c]} = r.assigned \ {c, s}
        /\ [y \in Ids |-> IF y \in {c, p[c]} THEN None ELSE p[y]]
              = [y \in Ids |-> IF y \in {c, s} THEN None ELSE r.partner[y]]
    <3>1. \A y \in Ids : p[y] = IF y \in {c, s} THEN None ELSE r.partner[y]
      BY <2>1, TreeFields
    <3>2. p[c] = None
      BY <2>1, <3>1
    <3>3. \A y \in Ids : (IF y \in {c, p[c]} THEN None ELSE p[y])
                            = IF y \in {c, s} THEN None ELSE r.partner[y]
      <4> HIDE DEF p, c
      <4> QED  BY <2>1, <3>1, <3>2, Numbers
    <3>4. a \ {c, p[c]} = r.assigned \ {c, s}
      BY <2>1, <3>2, TreeFields, Numbers
    <3> HIDE DEF p, c, a
    <3> QED  BY <3>2, <3>3, <3>4
  <2> HIDE DEF a, p
  <2>7. q = Of(r.workers, r.kind, a, r.partner, r.inbox, r.grunts, r.copies, r.up)
    BY <2>1, <2>2, IsOf DEF Of
  <2>8. t = Of(r.workers, r.kind, a, p, r.inbox, r.grunts, r.copies, r.up)
    BY <2>3, <2>7 DEF Of
  <2>9. /\ t.workers = r.workers /\ t.kind = r.kind /\ t.assigned = a /\ t.partner = p
        /\ t.inbox = r.inbox /\ t.grunts = r.grunts /\ t.copies = r.copies /\ t.up = r.up
    BY <2>8, OfFields
  <2>10. t \in Trees
    BY <2>1, <2>5, <2>8, TreeFields DEF Of, Trees
  <2>11. Shorter(t, c) = Shorter(r, c) /\ Told(t, c) = Told(r, c)
    BY <2>9 DEF Shorter, Told, Place
  <2>12. PICK v : v = Unlist(t, c)
    OBVIOUS
  <2>13. v = Of(Shorter(r, c), r.kind, a, p, Told(r, c), r.grunts, r.copies, r.up)
    BY <2>1, <2>9, <2>10, <2>11, <2>12, Unlisted
  <2>14. /\ v.workers = Shorter(r, c) /\ v.kind = r.kind /\ v.assigned = a /\ v.partner = p
         /\ v.inbox = Told(r, c) /\ v.grunts = r.grunts /\ v.copies = r.copies /\ v.up = r.up
    BY <2>13, OfFields
  <2>15. v \in Trees
    <3>1. r.kind[c] # "free"
      BY <2>1
    <3>2. Shorter(r, c) \in [Managers -> Seq(Ids)]
      BY <2>1, <3>1, ShorterLists DEF ShorterBy
    <3>3. Told(r, c) \in [Managers -> Seq(0 .. MaxWorkers)]
      BY <2>1, <3>1, ToldType
    <3> QED  BY <2>1, <2>5, <2>13, <3>2, <3>3, TreeFields DEF Of, Trees
  <2>16. ClientDeleted(v, c) = Parted(v, c, v.workers, v.inbox)
    <3>1. v.partner[c] # c
      BY <2>1, <2>6, <2>14, Numbers
    <3> QED  BY <2>1, <2>15, <3>1, ClientFreed
  <2>17. Parted(v, c, v.workers, v.inbox) = Lost(r, c)
    <3>1. v.assigned \ {c, v.partner[c]} = r.assigned \ {c, r.partner[c]}
      BY <2>1, <2>6, <2>14
    <3>2. [y \in Ids |-> IF y \in {c, v.partner[c]} THEN None ELSE v.partner[y]]
             = [y \in Ids |-> IF y \in {c, r.partner[c]} THEN None ELSE r.partner[y]]
      BY <2>1, <2>6, <2>14
    <3>3. Parted(v, c, v.workers, v.inbox) = Parted(r, c, v.workers, v.inbox)
      BY <3>1, <3>2, <2>14 DEF Parted
    <3> QED  BY <3>3, <2>14 DEF Lost
  <2> QED  BY <2>4, <2>12, <2>16, <2>17
<1> QED
  BY <1>1, <1>2, <1>3

\* What a server has lost with its targets, and what stays.
LEMMA TargetsRemoved ==
  ASSUME NEW r, NEW L, NEW G, Fine(r, L, G), NEW s \in Ids, r.kind[s] = "server",
         NEW q, q = RemoveTargets(r, s)
  PROVE  /\ Fine(q, L, G) /\ s \notin q.assigned /\ q.partner[s] = None /\ q.up = r.up
         /\ \A y \in Ids : /\ q.kind[y] = "server" <=> r.kind[y] = "server"
                           /\ r.partner[y] = None => q.partner[y] = None
         /\ \A m \in Managers : Len(q.workers[m]) <= Len(r.workers[m])
         /\ \A i \in 1 .. Place(r, s) : /\ i <= Len(q.workers[Home(s)])
                                        /\ q.workers[Home(s)][i] = r.workers[Home(s)][i]
<1> DEFINE c == r.partner[s]
           m == Home(s)
<1>1. Sound(r) /\ r \in Trees /\ Within(r, L) /\ InTune(r, L, G) /\ r.kind[s] # "free"
  BY DEF Fine, Sound
<1>2. /\ m \in Managers /\ Place(r, s) \in 1 .. Len(r.workers[m])
      /\ \A n \in Managers : Len(r.workers[n]) \in Nat
  BY <1>1, OnItsList, MessageTypes
<1>3. CASE s \notin r.assigned
  <2>1. q = r /\ r.partner[s] = None
    BY <1>1, <1>3, TargetsGone
  <2> QED  BY <1>2, <1>3, <2>1
<1>4. CASE s \in r.assigned /\ c = None
  <2>1. q = Of(r.workers, r.kind, r.assigned \ {s}, r.partner, r.inbox, r.grunts, r.copies, r.up)
    BY <1>1, <1>4, TargetsGone
  <2>2. /\ q.workers = r.workers /\ q.kind = r.kind /\ q.assigned = r.assigned \ {s}
        /\ q.partner = r.partner /\ q.inbox = r.inbox /\ q.grunts = r.grunts
        /\ q.copies = r.copies /\ q.up = r.up
    BY <2>1, OfFields
  <2>3. q \in Trees
    BY <1>1, <2>1, TreeFields DEF Of, Trees
  <2>4. ListedOnce(q) /\ ServersFirst(q) /\ Within(q, L) /\ InTune(q, L, G)
    BY <1>1, <2>2 DEF Sound, ListedOnce, ServersFirst, Within, InTune
  <2>5. InPairs(q)
    <3>1. \A y \in Ids : y # s => (y \in q.assigned <=> y \in r.assigned)
      BY <2>2
    <3>2. InPairs(r)
      BY <1>1 DEF Sound
    <3> QED  BY <2>2, <3>1, <3>2, <1>4 DEF InPairs
  <2>6. Fine(q, L, G)
    BY <2>3, <2>4, <2>5 DEF Fine, Sound
  <2> QED  BY <1>2, <1>4, <2>2, <2>6
<1>5. CASE c # None
  <2>1. /\ c \in Ids /\ r.partner[c] = s /\ r.kind[c] = "client" /\ c # s
    BY <1>1, <1>5, Partner
  <2>2. q = Lost(r, c)
    BY <1>1, <1>5, TargetsGone
  <2>3. Fine(q, L, G)
    BY <2>1, <2>2, LostFine DEF Loose
  <2>4. /\ q.workers = Shorter(r, c) /\ q.kind = [r.kind EXCEPT ![c] = "free"]
        /\ q.assigned = r.assigned \ {c, s} /\ q.up = r.up
        /\ q.partner = [y \in Ids |-> IF y \in {c, s} THEN None ELSE r.partner[y]]
    BY <2>1, <2>2 DEF Lost, Parted
  <2>5. /\ ShorterBy(r.workers, q.workers, c, Home(c), Place(r, c))
        /\ Home(c) \in Managers /\ Place(r, c) \in 1 .. Len(r.workers[Home(c)])
        /\ r.workers[Home(c)][Place(r, c)] = c
    BY <1>1, <2>1, <2>4, ShorterLists, OnItsList
  <2>6. \A n \in Managers : n # Home(c) => q.workers[n] = r.workers[n]
    BY <1>1, <2>5, TreeFields DEF ShorterBy
  <2>7. \A n \in Managers : Len(q.workers[n]) <= Len(r.workers[n])
    <3> TAKE n \in Managers
    <3>1. Len(q.workers[Home(c)]) = Len(r.workers[Home(c)]) - 1
      BY <2>5 DEF ShorterBy
    <3>2. Len(r.workers[n]) \in Nat
      BY <1>2
    <3>3. CASE n = Home(c)
      BY <3>1, <3>2, <3>3
    <3>4. CASE n # Home(c)
      BY <2>6, <3>2, <3>4
    <3> QED  BY <3>3, <3>4
  <2>8. \A i \in 1 .. Place(r, s) : /\ i <= Len(q.workers[m])
                                    /\ q.workers[m][i] = r.workers[m][i]
    <3>1. CASE Home(c) # m
      BY <1>2, <2>6, <3>1
    <3>2. CASE Home(c) = m
      <4>1. Place(r, s) < Place(r, c)
        <5>1. r.workers[m][Place(r, s)] = s /\ DOMAIN r.workers[m] = 1 .. Len(r.workers[m])
          BY <1>1, OnItsList
        <5> QED  BY <1>1, <1>2, <2>1, <2>5, <3>2, <5>1 DEF Sound, ServersFirst
      <4>2. Len(q.workers[m]) = Len(r.workers[m]) - 1 /\ q.workers[m] \in Seq(Ids)
        BY <1>2, <2>5, <3>2 DEF ShorterBy
      <4>3. DOMAIN q.workers[m] = 1 .. Len(q.workers[m])
        BY <4>2
      <4>4. \A i \in DOMAIN q.workers[m] :
               q.workers[m][i] = r.workers[m][IF i < Place(r, c) THEN i ELSE i + 1]
        BY <2>5, <3>2 DEF ShorterBy
      <4> SUFFICES ASSUME NEW i \in 1 .. Place(r, s)
                   PROVE  i <= Len(q.workers[m]) /\ q.workers[m][i] = r.workers[m][i]
        OBVIOUS
      <4>5. i < Place(r, c) /\ i \in 1 .. Len(q.workers[m])
        BY <1>2, <2>5, <3>2, <4>1, <4>2
      <4> QED  BY <4>3, <4>4, <4>5
    <3> QED  BY <3>1, <3>2
  <2>9. \A y \in Ids : /\ q.kind[y] = "server" <=> r.kind[y] = "server"
                       /\ r.partner[y] = None => q.partner[y] = None
    BY <1>1, <2>1, <2>4, TreeFields
  <2>10. s \notin q.assigned /\ q.partner[s] = None /\ q.up = r.up
    BY <2>4
  <2> QED  BY <2>3, <2>7, <2>8, <2>9, <2>10
<1> QED
  BY <1>3, <1>4, <1>5

\* ~Worker of one that is a client or has no partner.
LEMMA LooseDeleted ==
  ASSUME NEW r \in Trees, NEW x \in Ids, r.partner[x] # x,
         r.kind[x] = "client" \/ r.partner[x] = None
  PROVE  Deleted(r, x) = Parted(r, x, r.workers, r.inbox)
<1>1. CASE r.kind[x] = "client"
  BY <1>1, ClientFreed DEF Deleted
<1>2. CASE r.kind[x] # "client" /\ x \notin r.assigned
  <2>1. RemoveTargets(r, x) = r
    BY <1>2 DEF RemoveTargets
  <2> QED  BY <1>2, <2>1, LoneFreed DEF Deleted
<1>3. CASE r.kind[x] # "client" /\ x \in r.assigned
  <2> DEFINE a == r.assigned \ {x}
  <2>1. PICK t : t = [r EXCEPT !.assigned = a]
    OBVIOUS
  <2>2. RemoveTargets(r, x) = t
    BY <1>3, <2>1 DEF RemoveTargets
  <2>3. a \subseteq Ids /\ a \ {x, r.partner[x]} = r.assigned \ {x, r.partner[x]}
    BY TreeFields
  <2> HIDE DEF a
  <2>4. t = Of(r.workers, r.kind, a, r.partner, r.inbox, r.grunts, r.copies, r.up)
    BY <2>1, IsOf DEF Of
  <2>5. /\ t.workers = r.workers /\ t.kind = r.kind /\ t.assigned = a /\ t.partner = r.partner
        /\ t.inbox = r.inbox /\ t.grunts = r.grunts /\ t.copies = r.copies /\ t.up = r.up
    BY <2>4, OfFields
  <2>6. t \in Trees
    BY <2>3, <2>4, TreeFields DEF Of, Trees
  <2>7. Free(t, x) = Parted(t, x, t.workers, t.inbox)
    BY <1>3, <2>5, <2>6, LoneFreed
  <2>8. Parted(t, x, t.workers, t.inbox) = Parted(r, x, r.workers, r.inbox)
    BY <2>3, <2>5 DEF Parted
  <2> QED  BY <1>3, <2>2, <2>7, <2>8 DEF Deleted
<1> QED
  BY <1>1, <1>2, <1>3

LEMMA LooseLost ==
  ASSUME NEW r, Sound(r), NEW x \in Ids, Loose(r, x)
  PROVE  Deleted(Unlist(r, x), x) = Lost(r, x)
<1>1. PICK q : q = Unlist(r, x)
  OBVIOUS
<1>2. r.kind[x] # "free" /\ (r.kind[x] = "client" \/ r.partner[x] = None)
  BY DEF Loose
<1>3. /\ q \in Trees /\ q.workers = Shorter(r, x) /\ q.inbox = Told(r, x)
      /\ q.kind = r.kind /\ q.assigned = r.assigned /\ q.partner = r.partner
      /\ q.grunts = r.grunts /\ q.copies = r.copies /\ q.up = r.up
  BY <1>1, <1>2, UnlistedTree
<1>4. r.partner[x] # x
  BY Partner
<1>5. Deleted(q, x) = Parted(q, x, q.workers, q.inbox)
  BY <1>2, <1>3, <1>4, LooseDeleted
<1> QED
  BY <1>1, <1>3, <1>5, SameParted DEF Lost

\* CWorkerView::RemoveWorker.
LEMMA WorkerRemoved ==
  ASSUME NEW r, NEW L, NEW G, Fine(r, L, G), NEW x \in Ids, r.kind[x] # "free"
  PROVE  Fine(RemoveWorker(r, x), L, G) /\ RemoveWorker(r, x).up = r.up
<1> DEFINE c == r.partner[x]
<1>1. Sound(r) /\ \A q, y : Lost(q, y).up = q.up
  BY DEF Fine, Lost, Parted
<1>2. CASE r.kind[x] = "server" /\ c # None
  <2>1. c \in Ids /\ r.partner[c] = x /\ r.kind[c] = "client" /\ c # x
    BY <1>1, <1>2, Partner
  <2>2. ClientDeleted(Unlist(r, c), c) = Lost(r, c)
    BY <1>1, <2>1, ClientLost
  <2>3. PICK q : q = Lost(r, c)
    OBVIOUS
  <2>4. Fine(q, L, G) /\ Sound(q)
    BY <2>1, <2>3, LostFine DEF Loose, Fine
  <2>5. q.partner[x] = None /\ q.kind[x] = r.kind[x]
    BY <1>1, <2>1, <2>3, TreeFields DEF Lost, Parted, Sound
  <2>6. Loose(q, x)
    BY <2>5 DEF Loose
  <2>7. RemoveWorker(r, x) = Deleted(Unlist(q, x), x)
    BY <1>2, <2>2, <2>3 DEF RemoveWorker
  <2> QED  BY <1>1, <2>3, <2>4, <2>6, <2>7, LooseLost, LostFine
<1>3. CASE ~(r.kind[x] = "server" /\ c # None)
  <2>1. Loose(r, x)
    BY <1>1, <1>3, Partner DEF Loose
  <2>2. RemoveWorker(r, x) = Deleted(Unlist(r, x), x)
    BY <1>3 DEF RemoveWorker
  <2> QED  BY <1>1, <2>1, <2>2, LooseLost, LostFine
<1> QED
  BY <1>2, <1>3

\* The first element dropped.
LEMMA TailIs ==
  ASSUME NEW S, NEW s \in Seq(S), s # <<>>
  PROVE  1 \in DOMAIN s /\ Tail(s) = RemoveAt(s, 1)
<1>1. Len(s) \in Nat \ {0} /\ DOMAIN s = 1 .. Len(s)
  OBVIOUS
<1>2. 1 \in DOMAIN s
  BY <1>1
<1>3. /\ RemoveAt(s, 1) \in Seq(S) /\ Len(RemoveAt(s, 1)) = Len(s) - 1
      /\ \A i \in 1 .. Len(RemoveAt(s, 1)) :
            RemoveAt(s, 1)[i] = IF i < 1 THEN s[i] ELSE s[i + 1]
  BY <1>2, OneRemoved
<1>4. /\ Tail(s) \in Seq(S) /\ Len(Tail(s)) = Len(s) - 1
      /\ \A i \in 1 .. Len(s) - 1 : Tail(s)[i] = s[i + 1]
  OBVIOUS
<1>5. \A i \in 1 .. Len(s) - 1 : Tail(s)[i] = RemoveAt(s, 1)[i]
  BY <1>1, <1>3, <1>4
<1>6. PICK t : t = RemoveAt(s, 1)
  OBVIOUS
<1>7. t = Tail(s)
  BY <1>3, <1>4, <1>5, <1>6, SeqEqual
<1> QED
  BY <1>2, <1>6, <1>7

\* The first worker of a manager that goes.
WithoutFirst(d, m) == [d EXCEPT !.workers[m] = Tail(@)]
LEMMA FirstGone ==
  ASSUME NEW r, NEW L, NEW G, Fine(r, L, G), NEW m \in Managers, m \notin G,
         r.workers[m] # <<>>, Loose(r, r.workers[m][1]),
         NEW d, d = Parted(r, r.workers[m][1], r.workers, r.inbox),
         NEW q, q = WithoutFirst(d, m)
  PROVE  Fine(q, L, G) /\ Len(q.workers[m]) = Len(r.workers[m]) - 1 /\ q.up = r.up
<1> DEFINE x == r.workers[m][1]
<1>1. Sound(r) /\ r \in Trees /\ r.workers[m] \in Seq(Ids)
  BY DEF Fine, Sound, Trees
<1>2. 1 \in DOMAIN r.workers[m] /\ Tail(r.workers[m]) = RemoveAt(r.workers[m], 1)
  BY <1>1, TailIs
<1>3. x \in Ids /\ Home(x) = m /\ Place(r, x) = 1 /\ r.kind[x] # "free"
  BY <1>1, <1>2, OnList
<1> HIDE DEF x
<1> DEFINE v == Shorter(r, x)
<1>4. v = [r.workers EXCEPT ![m] = Tail(@)]
  BY <1>2, <1>3 DEF Shorter
<1>5. d.workers = r.workers
  BY DEF Parted
<1>6. q = [d EXCEPT !.workers = v]
  BY <1>4, <1>5 DEF WithoutFirst
<1>7. q = Parted(r, x, v, r.inbox)
  <2> DEFINE k == [r.kind EXCEPT ![x] = "free"]
             a == r.assigned \ {x, r.partner[x]}
             p == [y \in Ids |-> IF y \in {x, r.partner[x]} THEN None ELSE r.partner[y]]
             c == r.copies \ {x}
  <2>1. d = Of(r.workers, k, a, p, r.inbox, r.grunts, c, r.up)
    BY DEF x, Parted, Of
  <2>2. Parted(r, x, v, r.inbox) = Of(v, k, a, p, r.inbox, r.grunts, c, r.up)
    BY DEF Parted, Of
  <2> HIDE DEF v, k, a, p, c
  <2>3. q = Of(v, k, a, p, r.inbox, r.grunts, c, r.up)
    BY <1>6, <2>1 DEF Of
  <2> QED  BY <2>2, <2>3
<1>8. Fine(q, L, G)
  <2>1. Loose(r, x) /\ Home(x) \notin G
    BY <1>3 DEF x
  <2>2. x \in Ids
    BY <1>3
  <2>3. Fine(Parted(r, x, Shorter(r, x), r.inbox), L, G)
    BY <2>1, <2>2, SilentFine
  <2> QED  BY <1>7, <2>3
<1>9. Len(v[m]) = Len(r.workers[m]) - 1
  BY <1>1, <1>3, ShorterWithin
<1>10. q.workers = v /\ q.up = r.up
  <2> HIDE DEF v
  <2>1. \A w : Parted(r, x, w, r.inbox).workers = w /\ Parted(r, x, w, r.inbox).up = r.up
    BY DEF Parted
  <2> QED  BY <1>7, <2>1
<1> QED
  BY <1>8, <1>9, <1>10

-----------------------------------------------------------------------------
(* The methods that are loops.                                             *)

LEMMA SameTable ==
  ASSUME NEW n \in Nat, NEW f, NEW h, Table(f, n), Table(h, n),
         f[0] = h[0], \A i \in 1 .. n : f[i] = h[i]
  PROVE  f = h
<1> USE DEF Table
<1>1. ASSUME NEW i \in 0 .. n PROVE f[i] = h[i]
  <2>1. i = 0 \/ i \in 1 .. n
    OBVIOUS
  <2> QED  BY <2>1
<1> QED
  BY <1>1

\* Who is first on a list.
LEMMA First ==
  ASSUME NEW r, Sound(r), NEW m \in Managers, r.workers[m] # <<>>
  PROVE  LET x == r.workers[m][1]
         IN /\ x \in Ids /\ Home(x) = m /\ Place(r, x) = 1 /\ r.kind[x] # "free"
            /\ 1 \in DOMAIN r.workers[m] /\ Len(r.workers[m]) \in Nat \ {0}
<1>1. r.workers[m] \in Seq(Ids)
  BY DEF Sound, Trees
<1>2. 1 \in DOMAIN r.workers[m] /\ Len(r.workers[m]) \in Nat \ {0}
  BY <1>1, TailIs
<1> QED
  BY <1>2, OnList

\* CWorkerView::RemoveManager up to the call of the manager list.
EmptyTurn(s, m) == IF s.workers[m] = <<>> THEN s ELSE RemoveWorker(s, s.workers[m][1])
EmptyLoop(f, r, m, n) ==
    f = [i \in 0 .. n |-> IF i = 0 THEN r ELSE EmptyTurn(f[i - 1], m)]

LEMMA EmptyEnds ==
  ASSUME NEW r, NEW L, NEW G, Fine(r, L, G), NEW m \in Managers
  PROVE  Fine(Emptied(r, m), L, G) /\ Emptied(r, m).up = r.up
<1> DEFINE n == WorkerCount(r, m)
           Good(i) == {q \in Trees : Fine(q, L, G) /\ q.up = r.up}
           P == [i \in 0 .. n |-> Good(i)]
           g == [z \in Trees \X (1 .. n) |-> EmptyTurn(z[1], m)]
           F == CHOOSE f : EmptyLoop(f, r, m, n)
<1>1. Emptied(r, m) = F[n]
  BY DEF Emptied, Repeat, EmptyLoop, EmptyTurn
<1>2. n \in Nat /\ r \in Good(0)
  BY MessageTypes DEF WorkerCount, Fine, Sound
<1>3. ASSUME NEW i \in 1 .. n, NEW q \in Good(i - 1) PROVE EmptyTurn(q, m) \in Good(i)
  <2>1. Fine(q, L, G) /\ q.up = r.up
    BY <1>3
  <2>2. Fine(EmptyTurn(q, m), L, G) /\ EmptyTurn(q, m).up = r.up
    <3>1. CASE q.workers[m] = <<>>
      BY <2>1, <3>1 DEF EmptyTurn
    <3>2. CASE q.workers[m] # <<>>
      <4>1. q.workers[m][1] \in Ids /\ q.kind[q.workers[m][1]] # "free"
        BY <2>1, <3>2, First DEF Fine
      <4> QED  BY <2>1, <3>2, <4>1, WorkerRemoved DEF EmptyTurn
    <3> QED  BY <3>1, <3>2
  <2>3. EmptyTurn(q, m) \in Trees
    BY <2>2 DEF Fine, Sound
  <2> QED  BY <2>2, <2>3
<1>4. ASSUME NEW i \in 1 .. n, NEW q \in Good(i - 1) PROVE g[<<q, i>>] = EmptyTurn(q, m)
  <2>1. <<q, i>> \in Trees \X (1 .. n)
    BY <1>4
  <2> QED  BY <2>1
<1> HIDE DEF Good, g, F, n
<1>5. PICK f : Turns(f, n, r, g) /\ \A i \in 0 .. n : f[i] \in P[i]
  <2>1. \A i \in 0 .. n : P[i] = Good(i)
    OBVIOUS
  <2>2. r \in P[0]
    BY <1>2
  <2> HIDE DEF P
  <2>3. ASSUME NEW i \in 1 .. n, NEW q \in P[i - 1] PROVE g[<<q, i>>] \in P[i]
    <3>1. i \in 0 .. n /\ i - 1 \in 0 .. n
      BY <1>2
    <3>2. q \in Good(i - 1)
      BY <2>1, <3>1
    <3>3. EmptyTurn(q, m) \in Good(i) /\ g[<<q, i>>] = EmptyTurn(q, m)
      BY <1>3, <1>4, <3>2
    <3> QED  BY <2>1, <3>1, <3>3
  <2> QED  BY <1>2, <2>2, <2>3, Iterates
<1>6. /\ Table(f, n) /\ f[0] = r /\ \A i \in 0 .. n : f[i] \in Good(i)
      /\ \A i \in 1 .. n : f[i] = g[<<f[i - 1], i>>]
  BY <1>5 DEF Turns, Table
<1> HIDE DEF P
<1>7. ASSUME NEW i \in 1 .. n PROVE f[i] = EmptyTurn(f[i - 1], m)
  <2>1. i - 1 \in 0 .. n
    BY <1>2
  <2>2. f[i - 1] \in Good(i - 1) /\ f[i] = g[<<f[i - 1], i>>]
    BY <1>6, <2>1
  <2> QED  BY <1>4, <2>2
<1>8. EmptyLoop(f, r, m, n)
  <2> DEFINE h == [i \in 0 .. n |-> IF i = 0 THEN r ELSE EmptyTurn(f[i - 1], m)]
  <2>1. /\ Table(h, n) /\ h[0] = r
        /\ \A i \in 1 .. n : h[i] = EmptyTurn(f[i - 1], m)
    BY <1>2 DEF Table
  <2> HIDE DEF h
  <2>2. f[0] = h[0] /\ \A i \in 1 .. n : f[i] = h[i]
    BY <1>6, <1>7, <2>1
  <2>3. f = h
    BY <1>2, <1>6, <2>1, <2>2, SameTable
  <2> QED  BY <2>3 DEF EmptyLoop, h
<1>9. EmptyLoop(F, r, m, n)
  BY <1>8 DEF F
<1>10. F[0] = r /\ \A i \in 1 .. n : F[i] = EmptyTurn(F[i - 1], m)
  BY <1>2, <1>9 DEF EmptyLoop
<1>11. f[n] = F[n]
  <2>1. \A i \in 1 .. n : f[i - 1] = F[i - 1] => f[i] = F[i]
    BY <1>7, <1>10
  <2>2. f[0] = F[0]
    BY <1>6, <1>10
  <2> QED  BY <1>2, <2>1, <2>2, Agree
<1>12. F[n] \in Good(n)
  BY <1>2, <1>6, <1>11
<1> QED
  BY <1>1, <1>12 DEF Good

\* ManagerList::RemoveManager: what ~Manager does to its first worker.
DropTurn(s, m) ==
    IF s.workers[m] = <<>> THEN s
    ELSE [Deleted(s, s.workers[m][1]) EXCEPT !.workers[m] = Tail(@)]

LEMMA DropTurnFine ==
  ASSUME NEW r, NEW L, NEW G, Fine(r, L, G), NEW m \in Managers, m \notin G, r.workers[m] # <<>>
  PROVE  /\ Fine(DropTurn(r, m), L, G) /\ DropTurn(r, m).up = r.up
         /\ Len(DropTurn(r, m).workers[m]) <= Len(r.workers[m]) - 1
<1> DEFINE x == r.workers[m][1]
<1>1. Sound(r) /\ r \in Trees
  BY DEF Fine, Sound
<1>2. /\ x \in Ids /\ Home(x) = m /\ Place(r, x) = 1 /\ r.kind[x] # "free"
      /\ 1 \in DOMAIN r.workers[m] /\ Len(r.workers[m]) \in Nat \ {0}
  BY <1>1, First
<1>3. CASE r.kind[x] = "client" \/ r.partner[x] = None
  <2>1. PICK d : d = Deleted(r, x)
    OBVIOUS
  <2>2. PICK q : q = WithoutFirst(d, m)
    OBVIOUS
  <2>3. DropTurn(r, m) = q
    BY <2>1, <2>2 DEF DropTurn, WithoutFirst
  <2>4. d = Parted(r, x, r.workers, r.inbox)
    <3>1. r.partner[x] # x
      BY <1>1, <1>2, Partner
    <3> HIDE DEF x
    <3> QED  BY <1>1, <1>2, <1>3, <2>1, <3>1, LooseDeleted
  <2>5. Loose(r, x)
    BY <1>2, <1>3 DEF Loose
  <2>6. Fine(q, L, G) /\ Len(q.workers[m]) = Len(r.workers[m]) - 1 /\ q.up = d.up
    <3>1. d.up = r.up
      BY <2>4 DEF Parted
    <3> QED  BY <2>2, <2>4, <2>5, <3>1, FirstGone
  <2>7. d.up = r.up
    BY <2>4 DEF Parted
  <2> QED  BY <1>2, <2>3, <2>6, <2>7
<1>4. CASE r.kind[x] # "client" /\ r.partner[x] # None
  <2>1. PICK t : t = RemoveTargets(r, x)
    OBVIOUS
  <2>2. PICK d : d = Free(t, x)
    OBVIOUS
  <2>3. PICK q : q = WithoutFirst(d, m)
    OBVIOUS
  <2>4. DropTurn(r, m) = q
    BY <1>4, <2>1, <2>2, <2>3 DEF DropTurn, Deleted, WithoutFirst
  <2>5. r.kind[x] = "server"
    BY <1>1, <1>2, <1>4, Partner
  <2>6. /\ Fine(t, L, G) /\ t.partner[x] = None /\ t.kind[x] = "server" /\ t.up = r.up
        /\ Len(t.workers[m]) <= Len(r.workers[m])
        /\ 1 <= Len(t.workers[m]) /\ t.workers[m][1] = x
    <3> HIDE DEF x
    <3>1. 1 \in 1 .. Place(r, x)
      BY <1>2
    <3>2. /\ Fine(t, L, G) /\ x \notin t.assigned /\ t.partner[x] = None /\ t.up = r.up
          /\ \A y \in Ids : /\ t.kind[y] = "server" <=> r.kind[y] = "server"
                            /\ r.partner[y] = None => t.partner[y] = None
          /\ \A n \in Managers : Len(t.workers[n]) <= Len(r.workers[n])
          /\ \A i \in 1 .. Place(r, x) : /\ i <= Len(t.workers[Home(x)])
                                         /\ t.workers[Home(x)][i] = r.workers[Home(x)][i]
      BY <1>2, <2>1, <2>5, TargetsRemoved
    <3> QED  BY <1>2, <2>5, <3>1, <3>2 DEF x
  <2>7. t \in Trees /\ t.workers[m] # <<>> /\ Len(t.workers[m]) \in Nat
    <3>1. t \in Trees
      BY <2>6 DEF Fine, Sound
    <3>2. Len(<<>>) = 0
      OBVIOUS
    <3> QED  BY <2>6, <3>1, <3>2, MessageTypes
  <2>8. d = Parted(t, x, t.workers, t.inbox)
    <3> HIDE DEF x
    <3> QED  BY <1>2, <2>2, <2>6, <2>7, LoneFreed
  <2>9. Loose(t, x)
    BY <2>6 DEF Loose
  <2> HIDE DEF x
  <2>10. t.workers[m][1] = x
    BY <2>6
  <2>11. Fine(q, L, G) /\ Len(q.workers[m]) = Len(t.workers[m]) - 1 /\ q.up = t.up
    BY <2>3, <2>6, <2>7, <2>8, <2>9, <2>10, FirstGone
  <2> QED  BY <1>2, <2>4, <2>6, <2>7, <2>11
<1> QED
  BY <1>3, <1>4

\* The Dynamo of a manager that goes is told to remove all its grunts.
Ending(r, m) == [r EXCEPT !.inbox[m] = Append(@, All)]
LEMMA AllSent ==
  ASSUME NEW r, NEW L, NEW G, Fine(r, L, G), NEW m \in Managers,
         NEW q, q = Ending(r, m)
  PROVE  Fine(q, L, G \ {m}) /\ q.workers = r.workers /\ q.up = r.up
<1> DEFINE b == [r.inbox EXCEPT ![m] = Append(@, All)]
<1>1. Sound(r) /\ r \in Trees /\ Within(r, L) /\ InTune(r, L, G)
  BY DEF Fine, Sound
<1>2. q = [r EXCEPT !.inbox = b]
  BY DEF Ending
<1>3. r.inbox[m] \in Seq(0 .. MaxWorkers) /\ All \in 0 .. MaxWorkers
  BY <1>1, MessageTypes, Numbers
<1>4. Append(r.inbox[m], All) \in Seq(0 .. MaxWorkers)
  BY <1>3
<1>5. b \in [Managers -> Seq(0 .. MaxWorkers)]
  BY <1>1, <1>4, TreeFields
<1>6. /\ b[m] = Append(r.inbox[m], All)
      /\ \A n \in Managers : n # m => b[n] = r.inbox[n]
  BY <1>1, TreeFields
<1> HIDE DEF b
<1>7. q = Of(r.workers, r.kind, r.assigned, r.partner, b, r.grunts, r.copies, r.up)
  BY <1>1, <1>2, IsOf DEF Of
<1>8. /\ q.workers = r.workers /\ q.kind = r.kind /\ q.assigned = r.assigned
      /\ q.partner = r.partner /\ q.inbox = b /\ q.grunts = r.grunts
      /\ q.copies = r.copies /\ q.up = r.up
  BY <1>7, OfFields
<1>9. q \in Trees
  BY <1>1, <1>5, <1>7, TreeFields DEF Of, Trees
<1>10. ListedOnce(q) /\ InPairs(q) /\ ServersFirst(q) /\ Within(q, L)
  BY <1>1, <1>8 DEF Sound, ListedOnce, InPairs, ServersFirst, Within
<1>11. All \in ToSet(b[m])
  <2>1. PICK k : k = Len(r.inbox[m]) + 1
    OBVIOUS
  <2>2. k \in DOMAIN Append(r.inbox[m], All) /\ Append(r.inbox[m], All)[k] = All
    BY <1>3, <2>1
  <2> QED  BY <1>6, <2>2 DEF ToSet
<1>12. InTune(q, L, G \ {m})
  BY <1>1, <1>6, <1>8, <1>11 DEF InTune
<1> QED
  BY <1>8, <1>9, <1>10, <1>12 DEF Fine, Sound

\* The manager goes, with all its workers.
DropLoop(f, r, m, n) ==
    f = [i \in 0 .. n |-> IF i = 0 THEN r ELSE DropTurn(f[i - 1], m)]

LEMMA DropEnds ==
  ASSUME NEW r, NEW L, NEW G, Fine(r, L, G), NEW m \in Managers, m \in L
  PROVE  Fine(Dropped(r, m), L \ {m}, G \ {m}) /\ Dropped(r, m).up = r.up
<1> DEFINE n == WorkerCount(r, m)
           Good(i) == {q \in Trees : /\ Fine(q, L, G \ {m}) /\ Len(q.workers[m]) <= n - i
                                     /\ q.up = r.up}
           P == [i \in 0 .. n |-> Good(i)]
           g == [z \in Trees \X (1 .. n) |-> DropTurn(z[1], m)]
           F == CHOOSE f : DropLoop(f, Ending(r, m), m, n)
<1>1. Dropped(r, m) = F[n]
  BY DEF Dropped, Ending, Repeat, DropLoop, DropTurn
<1>2. n \in Nat /\ Ending(r, m) \in Good(0)
  <2>1. /\ Fine(Ending(r, m), L, G \ {m}) /\ Ending(r, m).workers = r.workers
        /\ Ending(r, m).up = r.up
    BY AllSent
  <2>2. r \in Trees /\ Ending(r, m) \in Trees
    BY <2>1 DEF Fine, Sound
  <2>3. n \in Nat /\ Len(r.workers[m]) <= n - 0
    BY <2>2, MessageTypes DEF WorkerCount
  <2> HIDE DEF n
  <2> QED  BY <2>1, <2>2, <2>3
<1>3. ASSUME NEW i \in 1 .. n, NEW q \in Good(i - 1) PROVE DropTurn(q, m) \in Good(i)
  <2>1. Fine(q, L, G \ {m}) /\ Len(q.workers[m]) <= n - (i - 1) /\ q \in Trees /\ q.up = r.up
    BY <1>3
  <2>2. Len(q.workers[m]) \in Nat
    BY <2>1, MessageTypes
  <2> HIDE DEF n
  <2>3. /\ Fine(DropTurn(q, m), L, G \ {m}) /\ Len(DropTurn(q, m).workers[m]) <= n - i
        /\ DropTurn(q, m).up = r.up
    <3>1. CASE q.workers[m] = <<>>
      <4>1. DropTurn(q, m) = q /\ Len(q.workers[m]) = 0
        BY <3>1, EmptySeq DEF DropTurn
      <4> QED  BY <1>2, <2>1, <4>1
    <3>2. CASE q.workers[m] # <<>>
      <4>1. /\ Fine(DropTurn(q, m), L, G \ {m}) /\ DropTurn(q, m).up = q.up
            /\ Len(DropTurn(q, m).workers[m]) <= Len(q.workers[m]) - 1
        BY <2>1, <3>2, DropTurnFine
      <4>2. Len(DropTurn(q, m).workers[m]) \in Nat
        BY <4>1, MessageTypes DEF Fine, Sound
      <4> QED  BY <1>2, <2>1, <2>2, <4>1, <4>2
    <3> QED  BY <3>1, <3>2
  <2>4. DropTurn(q, m) \in Trees
    BY <2>3 DEF Fine, Sound
  <2> QED  BY <2>3, <2>4
<1>4. ASSUME NEW i \in 1 .. n, NEW q \in Good(i - 1) PROVE g[<<q, i>>] = DropTurn(q, m)
  <2>1. <<q, i>> \in Trees \X (1 .. n)
    BY <1>4
  <2> QED  BY <2>1
<1> HIDE DEF Good, g, F, n
<1>5. PICK f : Turns(f, n, Ending(r, m), g) /\ \A i \in 0 .. n : f[i] \in P[i]
  <2>1. \A i \in 0 .. n : P[i] = Good(i)
    OBVIOUS
  <2>2. Ending(r, m) \in P[0]
    BY <1>2
  <2> HIDE DEF P
  <2>3. ASSUME NEW i \in 1 .. n, NEW q \in P[i - 1] PROVE g[<<q, i>>] \in P[i]
    <3>1. i \in 0 .. n /\ i - 1 \in 0 .. n
      BY <1>2
    <3>2. q \in Good(i - 1)
      BY <2>1, <3>1
    <3>3. DropTurn(q, m) \in Good(i) /\ g[<<q, i>>] = DropTurn(q, m)
      BY <1>3, <1>4, <3>2
    <3> QED  BY <2>1, <3>1, <3>3
  <2> QED  BY <1>2, <2>2, <2>3, Iterates
<1>6. /\ Table(f, n) /\ f[0] = Ending(r, m) /\ \A i \in 0 .. n : f[i] \in Good(i)
      /\ \A i \in 1 .. n : f[i] = g[<<f[i - 1], i>>]
  BY <1>5 DEF Turns, Table
<1> HIDE DEF P
<1>7. ASSUME NEW i \in 1 .. n PROVE f[i] = DropTurn(f[i - 1], m)
  <2>1. i - 1 \in 0 .. n
    BY <1>2
  <2>2. f[i - 1] \in Good(i - 1) /\ f[i] = g[<<f[i - 1], i>>]
    BY <1>6, <2>1
  <2> QED  BY <1>4, <2>2
<1>8. DropLoop(f, Ending(r, m), m, n)
  <2> DEFINE h == [i \in 0 .. n |-> IF i = 0 THEN Ending(r, m) ELSE DropTurn(f[i - 1], m)]
  <2>1. /\ Table(h, n) /\ h[0] = Ending(r, m)
        /\ \A i \in 1 .. n : h[i] = DropTurn(f[i - 1], m)
    BY <1>2 DEF Table
  <2> HIDE DEF h
  <2>2. f[0] = h[0] /\ \A i \in 1 .. n : f[i] = h[i]
    BY <1>6, <1>7, <2>1
  <2>3. f = h
    BY <1>2, <1>6, <2>1, <2>2, SameTable
  <2> QED  BY <2>3 DEF DropLoop, h
<1>9. DropLoop(F, Ending(r, m), m, n)
  BY <1>8 DEF F
<1>10. F[0] = Ending(r, m) /\ \A i \in 1 .. n : F[i] = DropTurn(F[i - 1], m)
  BY <1>2, <1>9 DEF DropLoop
<1>11. f[n] = F[n]
  <2>1. \A i \in 1 .. n : f[i - 1] = F[i - 1] => f[i] = F[i]
    BY <1>7, <1>10
  <2>2. f[0] = F[0]
    BY <1>6, <1>10
  <2> QED  BY <1>2, <2>1, <2>2, Agree
<1>12. F[n] \in Good(n)
  BY <1>2, <1>6, <1>11
<1> QED
  <2>1. PICK q : q = Dropped(r, m)
    OBVIOUS
  <2>2. Fine(q, L, G \ {m}) /\ q \in Trees /\ Len(q.workers[m]) <= 0 /\ q.up = r.up
    BY <1>1, <1>2, <1>12, <2>1 DEF Good
  <2>3. q.workers[m] = <<>>
    <3>1. q.workers[m] \in Seq(Ids) /\ Len(q.workers[m]) \in Nat
      BY <2>2, MessageTypes
    <3> QED  BY <2>2, <3>1, EmptySeq
  <2>4. Within(q, L \ {m})
    BY <2>2, <2>3 DEF Fine, Within
  <2>5. InTune(q, L \ {m}, G \ {m})
    BY <2>2 DEF Fine, InTune
  <2> QED  BY <2>1, <2>2, <2>4, <2>5 DEF Fine

-----------------------------------------------------------------------------
(* The methods that add workers and targets.                               *)

\* Messages and Dynamos change, and the rest does not.
LEMMA Retuned ==
  ASSUME NEW r, Sound(r), NEW b \in [Managers -> Seq(0 .. MaxWorkers)],
         NEW g \in [Managers -> 0 .. MaxWorkers],
         NEW q, q = Of(r.workers, r.kind, r.assigned, r.partner, b, g, r.copies, r.up)
  PROVE  /\ Sound(q) /\ q.workers = r.workers /\ q.kind = r.kind /\ q.assigned = r.assigned
         /\ q.partner = r.partner /\ q.inbox = b /\ q.grunts = g /\ q.copies = r.copies
<1>1. r \in Trees
  BY DEF Sound
<1>2. /\ q.workers = r.workers /\ q.kind = r.kind /\ q.assigned = r.assigned
      /\ q.partner = r.partner /\ q.inbox = b /\ q.grunts = g /\ q.copies = r.copies
  BY OfFields
<1>3. q \in Trees
  BY <1>1, TreeFields DEF Of, Trees
<1>4. ListedOnce(q)
  BY <1>2 DEF Sound, ListedOnce
<1>5. InPairs(q)
  BY <1>2 DEF Sound, InPairs
<1>6. ServersFirst(q)
  BY <1>2 DEF Sound, ServersFirst
<1> QED
  BY <1>2, <1>3, <1>4, <1>5, <1>6 DEF Sound

\* An answer: the Dynamo has read everything and has the grunts it should.
LEMMA AnsweredIs ==
  ASSUME NEW r, NEW L, NEW G, Fine(r, L, G), NEW m \in Managers, m \in G,
         NEW q, q = Answered(r, m)
  PROVE  /\ Fine(q, L, G)
         /\ q = Of(r.workers, r.kind, r.assigned, r.partner, [r.inbox EXCEPT ![m] = <<>>],
                   [r.grunts EXCEPT ![m] = Len(r.workers[m])], r.copies, r.up)
<1> DEFINE b == [r.inbox EXCEPT ![m] = <<>>]
           g == [r.grunts EXCEPT ![m] = GruntsLeft(r.grunts[m], r.inbox[m])]
<1>1. Sound(r) /\ r \in Trees /\ Within(r, L) /\ InTune(r, L, G)
  BY DEF Fine, Sound
<1>2. GruntsLeft(r.grunts[m], r.inbox[m]) = Len(r.workers[m])
  BY <1>1 DEF InTune
<1>3. Len(r.workers[m]) \in 0 .. MaxWorkers
  BY <1>1, MessageTypes, Numbers DEF Sound, ListedOnce
<1>4. /\ b \in [Managers -> Seq(0 .. MaxWorkers)] /\ g \in [Managers -> 0 .. MaxWorkers]
      /\ b[m] = <<>> /\ g[m] = Len(r.workers[m])
      /\ \A n \in Managers : n # m => b[n] = r.inbox[n] /\ g[n] = r.grunts[n]
      /\ r.up \in BOOLEAN
  BY <1>1, <1>2, <1>3, TreeFields
<1>5. q = [[r EXCEPT !.grunts = g] EXCEPT !.inbox = b]
  BY DEF Answered
<1>6. g = [r.grunts EXCEPT ![m] = Len(r.workers[m])]
  BY <1>2
<1> HIDE DEF b, g
<1>7. q = Of(r.workers, r.kind, r.assigned, r.partner, b, g, r.copies, r.up)
  <2>1. PICK t : t = [r EXCEPT !.grunts = g]
    OBVIOUS
  <2>2. t = Of(r.workers, r.kind, r.assigned, r.partner, r.inbox, g, r.copies, r.up)
    BY <1>1, <2>1, IsOf DEF Of
  <2> QED  BY <1>5, <2>1, <2>2 DEF Of
<1>8. /\ Sound(q) /\ q.workers = r.workers /\ q.inbox = b /\ q.grunts = g
  <2>1. /\ b \in [Managers -> Seq(0 .. MaxWorkers)]
        /\ g \in [Managers -> 0 .. MaxWorkers]
    BY <1>4
  <2> QED  BY <1>1, <1>7, <2>1, Retuned
<1>9. Within(q, L)
  BY <1>1, <1>8 DEF Within
<1>10. GruntsLeft(Len(r.workers[m]), <<>>) = Len(r.workers[m])
  BY <1>1, MessageTypes, EmptySeq, GruntsBounded
<1>11. InTune(q, L, G)
  BY <1>1, <1>4, <1>8, <1>10 DEF InTune
<1> QED
  BY <1>6, <1>7, <1>8, <1>9, <1>11 DEF Fine, b

\* Where there is room there is a worker nobody has yet.
LEMMA FreshIs ==
  ASSUME NEW r, Sound(r), NEW m \in Managers, Room(r, m)
  PROVE  /\ Fresh(r, m) \in Ids /\ Home(Fresh(r, m)) = m /\ r.kind[Fresh(r, m)] = "free"
         /\ Len(r.workers[m]) + 1 \in 1 .. MaxWorkers
<1> DEFINE s == r.workers[m]
           N == 1 .. MaxWorkers
           T == {n \in N : r.kind[<<m, n>>] = "free"}
<1>1. s \in Seq(Ids) /\ Len(s) \in Nat /\ MaxWorkers \in Nat /\ Len(s) < MaxWorkers
  BY MessageTypes, Numbers DEF Sound, Room, WorkerCount
<1>2. \A n \in N : <<m, n>> \in Ids /\ Home(<<m, n>>) = m
  BY DEF Ids, Home
<1>3. DOMAIN s = 1 .. Len(s) /\ \A i \in 1 .. Len(s) : s[i] \in Ids
  BY <1>1
<1>4. T # {}
  <2> SUFFICES ASSUME T = {} PROVE FALSE
    OBVIOUS
  <2>1. \A n \in N : \E i \in 1 .. Len(s) : s[i] = <<m, n>>
    <3> SUFFICES ASSUME NEW n \in N PROVE \E i \in 1 .. Len(s) : s[i] = <<m, n>>
      OBVIOUS
    <3>1. r.kind[<<m, n>>] # "free"
      OBVIOUS
    <3>2. <<m, n>> \in ToSet(r.workers[Home(<<m, n>>)])
      BY <1>2, <3>1 DEF Sound, ListedOnce
    <3> QED  BY <1>2, <1>3, <3>2 DEF ToSet
  <2> DEFINE f == [n \in N |-> CHOOSE i \in 1 .. Len(s) : s[i] = <<m, n>>]
  <2>2. \A n \in N : f[n] \in 1 .. Len(s) /\ s[f[n]] = <<m, n>>
    BY <2>1
  <2>3. f \in [N -> 1 .. Len(s)]
    BY <2>2
  <2>4. \A a, c \in N : f[a] = f[c] => a = c
    <3> HIDE DEF f
    <3>1. \A a, c : <<m, a>> = <<m, c>> => a = c
      OBVIOUS
    <3> QED  BY <2>2, <3>1
  <2>5. IsFiniteSet(N) /\ IsFiniteSet(1 .. Len(s))
        /\ Cardinality(1 .. Len(s)) < Cardinality(N)
    <3>1. \A k \in Nat : IsFiniteSet(1 .. k) /\ Cardinality(1 .. k) = k
      BY FS_Interval
    <3> QED  BY <1>1, <3>1
  <2> HIDE DEF f, N
  <2>6. \E a, c \in N : a # c /\ f[a] = f[c]
    BY <2>3, <2>5, FS_PigeonHole
  <2> QED  BY <2>4, <2>6
<1>5. Min(T) \in T
  <2>1. PICK n \in T : \A k \in T : ~(k < n)
    <3>1. T \subseteq Nat
      BY <1>1
    <3> HIDE DEF T
    <3> QED  BY <1>4, <3>1, Smallest
  <2>2. \A k \in T : n <= k
    BY <2>1
  <2> HIDE DEF T
  <2> QED  BY <2>2 DEF Min
<1>6. Fresh(r, m) = <<m, Min(T)>>
  BY DEF Fresh
<1> QED
  BY <1>1, <1>2, <1>5, <1>6

\* A new worker of m, as Manager::AddWorker and what follows leave it.
Added(r, m, k, p, c) ==
    Of([r.workers EXCEPT ![m] = Append(@, Fresh(r, m))], [r.kind EXCEPT ![Fresh(r, m)] = k],
       r.assigned, p, [r.inbox EXCEPT ![m] = <<>>],
       [r.grunts EXCEPT ![m] = Len(r.workers[m]) + 1], c, r.up)
\* It is no client, or a copy of one, or the partner of a server.
NoClient(r, k, p, c) == k \in {"disk", "server"} /\ p = r.partner /\ c = r.copies
CopiedClient(r, m, k, p, c) ==
    k = "client" /\ p = r.partner /\ c = r.copies \cup {Fresh(r, m)}
ClientOf(r, m, k, p, c, s) ==
    /\ k = "client" /\ c = r.copies
    /\ s \in Ids /\ r.kind[s] = "server" /\ s \in r.assigned /\ r.partner[s] = None
    /\ p = [[r.partner EXCEPT ![s] = Fresh(r, m)] EXCEPT ![Fresh(r, m)] = s]

LEMMA AddWorkerIs ==
  ASSUME NEW r, NEW L, NEW G, Fine(r, L, G), NEW m \in Managers, m \in G, NEW k
  PROVE  AddWorker(r, m, k) = Added(r, m, k, r.partner, r.copies)
<1> DEFINE y == Fresh(r, m)
           w == [r.workers EXCEPT ![m] = Append(@, y)]
           g == [r.grunts EXCEPT ![m] = Len(r.workers[m]) + 1]
           h == [r.kind EXCEPT ![y] = k]
           b == [r.inbox EXCEPT ![m] = <<>>]
           e == [r.grunts EXCEPT ![m] = Len(r.workers[m])]
<1>1. PICK q : q = Answered(r, m)
  OBVIOUS
<1>2. q = Of(r.workers, r.kind, r.assigned, r.partner, b, e, r.copies, r.up)
  BY <1>1, AnsweredIs
<1>3. AddWorker(r, m, k) = [[[q EXCEPT !.grunts = [q.grunts EXCEPT ![m] = @ + 1]]
                                EXCEPT !.workers = [q.workers EXCEPT ![m] = Append(@, y)]]
                                EXCEPT !.kind = [q.kind EXCEPT ![y] = k]]
  BY <1>1 DEF AddWorker
<1>4. q.workers = r.workers /\ q.kind = r.kind /\ q.grunts = e
  <2> HIDE DEF b, e
  <2> QED  BY <1>2, OfFields
<1>5. [e EXCEPT ![m] = @ + 1] = g
  <2>1. r.grunts \in [Managers -> 0 .. MaxWorkers]
    BY TreeFields DEF Fine, Sound
  <2> QED  BY <2>1
<1>6. /\ [q.grunts EXCEPT ![m] = @ + 1] = g /\ [q.workers EXCEPT ![m] = Append(@, y)] = w
      /\ [q.kind EXCEPT ![y] = k] = h
  BY <1>4, <1>5
<1> HIDE DEF y, w, g, h, b, e
<1>7. AddWorker(r, m, k) = [[[q EXCEPT !.grunts = g] EXCEPT !.workers = w] EXCEPT !.kind = h]
  BY <1>3, <1>6
<1>8. PICK s : s = [q EXCEPT !.grunts = g]
  OBVIOUS
<1>9. s = Of(r.workers, r.kind, r.assigned, r.partner, b, g, r.copies, r.up)
  BY <1>2, <1>8 DEF Of
<1>10. PICK t : t = [s EXCEPT !.workers = w]
  OBVIOUS
<1>11. t = Of(w, r.kind, r.assigned, r.partner, b, g, r.copies, r.up)
  BY <1>9, <1>10 DEF Of
<1>12. [t EXCEPT !.kind = h] = Of(w, h, r.assigned, r.partner, b, g, r.copies, r.up)
  BY <1>11 DEF Of
<1>13. AddWorker(r, m, k) = [t EXCEPT !.kind = h]
  BY <1>7, <1>8, <1>10
<1> QED
  BY <1>12, <1>13 DEF Added, y, w, g, h, b

LEMMA AddedFine ==
  ASSUME NEW r, NEW L, NEW G, Fine(r, L, G), NEW m \in Managers, m \in L, m \in G, Room(r, m),
         NEW k, NEW p, NEW c,
         \/ NoClient(r, k, p, c)
         \/ CopiedClient(r, m, k, p, c)
         \/ \E s \in Ids : ClientOf(r, m, k, p, c, s),
         NEW q, q = Added(r, m, k, p, c)
  PROVE  Fine(q, L, G)
<1> DEFINE y == Fresh(r, m)
           w == [r.workers EXCEPT ![m] = Append(@, y)]
           h == [r.kind EXCEPT ![y] = k]
           b == [r.inbox EXCEPT ![m] = <<>>]
           g == [r.grunts EXCEPT ![m] = Len(r.workers[m]) + 1]
<1>1. /\ Sound(r) /\ r \in Trees /\ ListedOnce(r) /\ InPairs(r) /\ ServersFirst(r)
      /\ Within(r, L) /\ InTune(r, L, G)
  BY DEF Fine, Sound
<1>2. /\ r.workers \in [Managers -> Seq(Ids)] /\ r.kind \in [Ids -> Kinds]
      /\ r.assigned \subseteq Ids /\ r.partner \in [Ids -> Ids \cup {None}]
      /\ r.inbox \in [Managers -> Seq(0 .. MaxWorkers)]
      /\ r.grunts \in [Managers -> 0 .. MaxWorkers]
      /\ r.copies \subseteq Ids /\ r.up \in BOOLEAN
  BY <1>1, TreeFields
<1>3. /\ y \in Ids /\ Home(y) = m /\ r.kind[y] = "free" /\ None \notin Ids
      /\ Len(r.workers[m]) + 1 \in 1 .. MaxWorkers
  BY <1>1, FreshIs, Numbers
<1> HIDE DEF y
<1>4. /\ y \notin ToSet(r.workers[m]) /\ IsInjective(r.workers[m])
      /\ r.workers[m] \in Seq(Ids) /\ Len(r.workers[m]) \in Nat
      /\ DOMAIN r.workers[m] = 1 .. Len(r.workers[m])
  BY <1>1, <1>2, <1>3 DEF ListedOnce
<1>5. /\ r.partner[y] = None /\ y \notin r.assigned /\ y \notin r.copies
      /\ \A z \in Ids : r.partner[z] # y
  BY <1>1, <1>3 DEF InPairs
<1>6. /\ w[m] \in Seq(Ids) /\ IsInjective(w[m]) /\ ToSet(w[m]) = ToSet(r.workers[m]) \cup {y}
      /\ Len(w[m]) = Len(r.workers[m]) + 1 /\ w[m][Len(w[m])] = y
      /\ DOMAIN w[m] = 1 .. Len(w[m])
      /\ \A i \in 1 .. Len(r.workers[m]) : w[m][i] = r.workers[m][i]
  <2>1. w[m] = Append(r.workers[m], y)
    BY <1>2
  <2> HIDE DEF w
  <2>2. /\ Append(r.workers[m], y) \in Seq(Ids) /\ IsInjective(Append(r.workers[m], y))
        /\ ToSet(Append(r.workers[m], y)) = ToSet(r.workers[m]) \cup {y}
        /\ Len(Append(r.workers[m], y)) = Len(r.workers[m]) + 1
        /\ Append(r.workers[m], y)[Len(r.workers[m]) + 1] = y
        /\ \A i \in 1 .. Len(r.workers[m]) : Append(r.workers[m], y)[i] = r.workers[m][i]
    BY <1>3, <1>4, AppendOnce
  <2>3. DOMAIN w[m] = 1 .. Len(w[m])
    BY <2>1, <2>2
  <2> QED  BY <2>1, <2>2, <2>3
<1>7. /\ w \in [Managers -> Seq(Ids)] /\ \A n \in Managers : n # m => w[n] = r.workers[n]
      /\ g \in [Managers -> 0 .. MaxWorkers] /\ g[m] = Len(w[m]) /\ b[m] = <<>>
      /\ b \in [Managers -> Seq(0 .. MaxWorkers)]
      /\ \A n \in Managers : n # m => b[n] = r.inbox[n] /\ g[n] = r.grunts[n]
  BY <1>2, <1>3, <1>6
<1>8. /\ k \in {"disk", "server", "client"} /\ p \in [Ids -> Ids \cup {None}] /\ c \subseteq Ids
      /\ h \in [Ids -> Kinds] /\ h[y] = k
      /\ \A x \in Ids : x # y => h[x] = r.kind[x]
  <2>1. k \in {"disk", "server", "client"} /\ p \in [Ids -> Ids \cup {None}] /\ c \subseteq Ids
    <3>1. CASE NoClient(r, k, p, c)
      BY <1>2, <3>1 DEF NoClient
    <3>2. CASE CopiedClient(r, m, k, p, c)
      BY <1>2, <1>3, <3>2 DEF CopiedClient, y
    <3>3. CASE \E s \in Ids : ClientOf(r, m, k, p, c, s)
      <4>1. PICK s \in Ids : ClientOf(r, m, k, p, c, s)
        BY <3>3
      <4>2. k = "client" /\ c = r.copies /\ p = [[r.partner EXCEPT ![s] = y] EXCEPT ![y] = s]
        BY <4>1 DEF ClientOf, y
      <4> QED  BY <1>2, <1>3, <4>2
    <3> QED  BY <3>1, <3>2, <3>3
  <2> QED  BY <1>2, <1>3, <2>1 DEF Kinds
<1>9. q = Of(w, h, r.assigned, p, b, g, c, r.up)
  BY DEF Added, y
<1> HIDE DEF w, h, b, g
<1>10. /\ q.workers = w /\ q.kind = h /\ q.assigned = r.assigned /\ q.partner = p
       /\ q.inbox = b /\ q.grunts = g /\ q.copies = c
  BY <1>9, OfFields
<1>11. q \in Trees
  BY <1>2, <1>7, <1>8, <1>9 DEF Of, Trees
<1>12. ListedOnce(q)
  <2>1. ASSUME NEW n \in Managers
        PROVE  /\ IsInjective(w[n]) /\ Len(w[n]) <= MaxWorkers
               /\ \A i \in DOMAIN w[n] : Home(w[n][i]) = n
    <3>1. CASE n = m
      <4>1. \A i \in 1 .. Len(w[m]) : i \in 1 .. Len(r.workers[m]) \/ i = Len(w[m])
        BY <1>4, <1>6
      <4>2. \A i \in DOMAIN w[m] : Home(w[m][i]) = m
        BY <1>1, <1>3, <1>4, <1>6, <4>1 DEF ListedOnce
      <4>3. Len(w[m]) <= MaxWorkers
        BY <1>3, <1>6
      <4> QED  BY <1>6, <3>1, <4>2, <4>3
    <3>2. CASE n # m
      BY <1>1, <1>7, <3>2 DEF ListedOnce
    <3> QED  BY <3>1, <3>2
  <2>2. ASSUME NEW x \in Ids PROVE h[x] = "free" <=> x \notin ToSet(w[Home(x)])
    <3>1. Home(x) \in Managers /\ (r.kind[x] = "free" <=> x \notin ToSet(r.workers[Home(x)]))
      BY <1>1, Numbers DEF ListedOnce
    <3>2. CASE x = y
      BY <1>3, <1>6, <1>8, <3>2
    <3>3. CASE x # y /\ Home(x) = m
      BY <1>6, <1>8, <3>1, <3>3
    <3>4. CASE x # y /\ Home(x) # m
      BY <1>7, <1>8, <3>1, <3>4
    <3> QED  BY <3>2, <3>3, <3>4
  <2> QED  BY <1>10, <2>1, <2>2 DEF ListedOnce
<1>13. InPairs(q)
  <2> SUFFICES ASSUME NEW x \in Ids
      PROVE  /\ x \in r.assigned => h[x] = "server"
             /\ x \in c => h[x] = "client"
             /\ h[x] = "client" => (p[x] = None <=> x \in c)
             /\ p[x] # None =>
                   /\ p[p[x]] = x
                   /\ \/ h[x] = "server" /\ h[p[x]] = "client" /\ x \in r.assigned
                      \/ h[x] = "client" /\ h[p[x]] = "server"
    BY <1>10 DEF InPairs
  <2>1. /\ x \in r.assigned => r.kind[x] = "server"
        /\ x \in r.copies => r.kind[x] = "client"
        /\ r.kind[x] = "client" => (r.partner[x] = None <=> x \in r.copies)
        /\ r.partner[x] # None =>
              /\ r.partner[r.partner[x]] = x
              /\ \/ r.kind[x] = "server" /\ r.kind[r.partner[x]] = "client" /\ x \in r.assigned
                 \/ r.kind[x] = "client" /\ r.kind[r.partner[x]] = "server"
    BY <1>1 DEF InPairs
  <2>2. r.partner[x] \in Ids \cup {None}
    BY <1>2
  <2>3. CASE NoClient(r, k, p, c)
    BY <1>3, <1>5, <1>8, <2>1, <2>2, <2>3 DEF NoClient
  <2>4. CASE CopiedClient(r, m, k, p, c)
    BY <1>3, <1>5, <1>8, <2>1, <2>2, <2>4 DEF CopiedClient, y
  <2>5. CASE \E s \in Ids : ClientOf(r, m, k, p, c, s)
    <3>1. PICK s \in Ids : ClientOf(r, m, k, p, c, s)
      BY <2>5
    <3>2. /\ k = "client" /\ c = r.copies /\ r.kind[s] = "server" /\ s \in r.assigned
          /\ r.partner[s] = None /\ s # y
      BY <1>3, <3>1 DEF ClientOf
    <3>3. \A z \in Ids : p[z] = IF z = y THEN s ELSE IF z = s THEN y ELSE r.partner[z]
      BY <1>2, <1>3, <3>1 DEF ClientOf, y
    <3>4. CASE x = y
      BY <1>3, <1>5, <1>8, <3>2, <3>3, <3>4
    <3>5. CASE x = s
      BY <1>3, <1>5, <1>8, <2>1, <3>2, <3>3, <3>5
    <3>6. CASE x # y /\ x # s
      <4>1. r.partner[x] # y /\ r.partner[x] # s
        BY <1>3, <1>5, <2>1, <3>2, <3>6
      <4> QED  BY <1>3, <1>5, <1>8, <2>1, <2>2, <3>2, <3>3, <3>6, <4>1
    <3> QED  BY <3>4, <3>5, <3>6
  <2> QED  BY <2>3, <2>4, <2>5
<1>14. ServersFirst(q)
  <2> SUFFICES ASSUME NEW n \in Managers, NEW i \in DOMAIN w[n], NEW j \in DOMAIN w[n],
                      p[w[n][i]] = w[n][j], h[w[n][j]] = "client"
               PROVE  i < j
    BY <1>10 DEF ServersFirst
  <2>1. w[n][i] \in Ids /\ w[n][j] \in Ids
    BY <1>7
  <2>2. ASSUME w[n][j] # y
        PROVE  r.partner[w[n][i]] = w[n][j] /\ r.kind[w[n][j]] = "client" /\ w[n][i] # y
    <3>1. r.kind[w[n][j]] = "client"
      BY <1>8, <2>1, <2>2
    <3>2. CASE p = r.partner
      BY <1>3, <1>5, <2>1, <3>1, <3>2
    <3>3. CASE p # r.partner
      <4>1. PICK s \in Ids : ClientOf(r, m, k, p, c, s)
        BY <3>3 DEF NoClient, CopiedClient
      <4>2. \A z \in Ids : p[z] = IF z = y THEN s ELSE IF z = s THEN y ELSE r.partner[z]
        BY <1>2, <1>3, <4>1 DEF ClientOf, y
      <4>3. r.kind[s] = "server"
        BY <4>1 DEF ClientOf
      <4> QED  BY <2>1, <2>2, <3>1, <4>2, <4>3
    <3> QED  BY <3>2, <3>3
  <2>3. CASE n # m
    <3>1. w[n][j] # y
      <4>1. w[n] = r.workers[n]
        BY <1>7, <2>3
      <4>2. Home(r.workers[n][j]) = n
        BY <1>1, <4>1 DEF ListedOnce
      <4> QED  BY <1>3, <2>3, <4>1, <4>2
    <3>2. w[n] = r.workers[n]
      BY <1>7, <2>3
    <3>3. /\ i \in DOMAIN r.workers[n] /\ j \in DOMAIN r.workers[n]
          /\ r.partner[r.workers[n][i]] = r.workers[n][j] /\ r.kind[r.workers[n][j]] = "client"
      BY <2>2, <3>1, <3>2
    <3> QED  BY <1>1, <3>3 DEF ServersFirst
  <2>4. CASE n = m
    <3>1. CASE w[n][j] = y
      <4>1. w[n][i] # y
        <5>1. p[y] # y
          <6>1. CASE p = r.partner
            BY <1>3, <1>5, <6>1
          <6>2. CASE p # r.partner
            <7>1. PICK s \in Ids : ClientOf(r, m, k, p, c, s)
              BY <6>2 DEF NoClient, CopiedClient
            <7>2. p[y] = s /\ r.kind[s] = "server"
              BY <1>2, <1>3, <7>1 DEF ClientOf, y
            <7> QED  BY <1>3, <7>2
          <6> QED  BY <6>1, <6>2
        <5> QED  BY <3>1, <5>1
      <4>2. i \in 1 .. Len(w[m]) /\ j \in 1 .. Len(w[m]) /\ i # Len(w[m])
        BY <1>6, <2>4, <4>1
      <4>3. j = Len(w[m])
        <5>1. \A a \in 1 .. Len(r.workers[m]) : w[m][a] # y
          BY <1>4, <1>6 DEF ToSet
        <5> QED  BY <1>4, <1>6, <2>4, <3>1, <4>2, <5>1
      <4> QED  BY <4>2, <4>3, <1>4, <1>6
    <3>2. CASE w[n][j] # y
      <4>1. i \in 1 .. Len(w[m]) /\ j \in 1 .. Len(w[m]) /\ i # Len(w[m]) /\ j # Len(w[m])
        BY <1>6, <2>2, <2>4, <3>2
      <4>2. i \in 1 .. Len(r.workers[m]) /\ j \in 1 .. Len(r.workers[m])
        BY <1>4, <1>6, <4>1
      <4> QED  BY <1>1, <1>4, <1>6, <2>2, <2>4, <3>2, <4>2 DEF ServersFirst
    <3> QED  BY <3>1, <3>2
  <2> QED  BY <2>3, <2>4
<1>15. Within(q, L)
  BY <1>1, <1>7, <1>10 DEF Within
<1>16. InTune(q, L, G)
  <2>1. GruntsLeft(Len(w[m]), <<>>) = Len(w[m])
    <3>1. Len(w[m]) \in Nat /\ <<>> \in Seq(Nat)
      BY <1>6, EmptySeq
    <3> QED  BY <3>1, GruntsBounded
  <2> QED  BY <1>1, <1>7, <1>10, <2>1 DEF InTune
<1> QED
  BY <1>11, <1>12, <1>13, <1>14, <1>15, <1>16 DEF Fine, Sound

\* Worker::CreateNetClient, of a server that has a target and no partner.
LEMMA ClientCreated ==
  ASSUME NEW r, NEW L, NEW G, Fine(r, L, G), NEW m \in Managers, m \in L, m \in G,
         NEW s \in Ids, r.kind[s] = "server", s \in r.assigned, r.partner[s] = None,
         NEW q, q = CreateNetClient(r, s, m)
  PROVE  /\ Fine(q, L, G) /\ q.up = r.up
         /\ \A x \in Ids : /\ r.kind[x] # "free" => q.kind[x] = r.kind[x]
                           /\ x # s /\ r.kind[x] = "server" => q.partner[x] = r.partner[x]
<1>1. Sound(r) /\ r \in Trees
  BY DEF Fine, Sound
<1>2. CASE ~Room(r, m)
  <2>1. [r.partner EXCEPT ![s] = None] = r.partner
    BY <1>1, TreeFields
  <2>2. q = [r EXCEPT !.partner = [r.partner EXCEPT ![s] = None]]
    BY <1>2 DEF CreateNetClient
  <2>3. q = [r EXCEPT !.partner = r.partner]
    BY <2>1, <2>2
  <2>4. q = Of(r.workers, r.kind, r.assigned, r.partner, r.inbox, r.grunts, r.copies, r.up)
    BY <1>1, <2>3, IsOf DEF Of
  <2>5. q = r
    BY <1>1, <2>4, IsOf
  <2> QED  BY <2>5
<1>3. CASE Room(r, m)
  <2> DEFINE y == Fresh(r, m)
             p == [[r.partner EXCEPT ![s] = y] EXCEPT ![y] = s]
  <2>1. PICK a : a = AddWorker(r, m, "client")
    OBVIOUS
  <2>2. a = Added(r, m, "client", r.partner, r.copies)
    BY <2>1, AddWorkerIs
  <2>3. a.partner = r.partner
    BY <2>2, OfFields DEF Added
  <2>4. q = [a EXCEPT !.partner = p]
    <3>1. q = [a EXCEPT !.partner = [[a.partner EXCEPT ![s] = y] EXCEPT ![y] = s]]
      BY <1>3, <2>1 DEF CreateNetClient
    <3> QED  BY <2>3, <3>1
  <2>5. q = Added(r, m, "client", p, r.copies)
    <3> DEFINE w == [r.workers EXCEPT ![m] = Append(@, Fresh(r, m))]
               k == [r.kind EXCEPT ![Fresh(r, m)] = "client"]
               b == [r.inbox EXCEPT ![m] = <<>>]
               g == [r.grunts EXCEPT ![m] = Len(r.workers[m]) + 1]
    <3>1. a = Of(w, k, r.assigned, r.partner, b, g, r.copies, r.up)
      BY <2>2 DEF Added
    <3>2. Added(r, m, "client", p, r.copies) = Of(w, k, r.assigned, p, b, g, r.copies, r.up)
      BY DEF Added
    <3> HIDE DEF w, k, b, g, p
    <3> QED  BY <2>4, <3>1, <3>2 DEF Of
  <2>6. y \in Ids /\ r.kind[y] = "free"
    BY <1>1, <1>3, FreshIs
  <2>7. Fine(q, L, G)
    <3>1. ClientOf(r, m, "client", p, r.copies, s)
      BY DEF ClientOf
    <3> HIDE DEF p, y
    <3> QED  BY <1>3, <2>5, <3>1, AddedFine
  <2>8. q.kind = [r.kind EXCEPT ![y] = "client"] /\ q.partner = p /\ q.up = r.up
    BY <2>5, OfFields DEF Added
  <2> HIDE DEF y
  <2>9. ASSUME NEW x \in Ids
        PROVE  /\ r.kind[x] # "free" => q.kind[x] = r.kind[x]
               /\ x # s /\ r.kind[x] = "server" => q.partner[x] = r.partner[x]
    BY <1>1, <2>6, <2>8, TreeFields
  <2> QED  BY <2>7, <2>8, <2>9
<1> QED
  BY <1>2, <1>3

\* A server gets a target; the partner is another matter.
Given(r, s) == [r EXCEPT !.assigned = @ \cup {s}]
LEMMA GivenFine ==
  ASSUME NEW r, NEW L, NEW G, Fine(r, L, G), NEW s \in Ids, r.kind[s] = "server",
         NEW q, q = Given(r, s)
  PROVE  /\ Fine(q, L, G) /\ q.kind = r.kind /\ q.partner = r.partner /\ s \in q.assigned
         /\ q.up = r.up
<1> DEFINE a == r.assigned \cup {s}
<1>1. Sound(r) /\ r \in Trees /\ Within(r, L) /\ InTune(r, L, G)
  BY DEF Fine, Sound
<1>2. q = [r EXCEPT !.assigned = a]
  BY DEF Given
<1>3. a \subseteq Ids /\ s \in a /\ \A x \in a : x \in r.assigned \/ r.kind[x] = "server"
  BY <1>1, TreeFields
<1>4. r.assigned \subseteq a
  OBVIOUS
<1> HIDE DEF a
<1>5. q = Of(r.workers, r.kind, a, r.partner, r.inbox, r.grunts, r.copies, r.up)
  BY <1>1, <1>2, IsOf DEF Of
<1>6. /\ q.workers = r.workers /\ q.kind = r.kind /\ q.assigned = a
      /\ q.partner = r.partner /\ q.inbox = r.inbox /\ q.grunts = r.grunts /\ q.copies = r.copies
      /\ q.up = r.up
  BY <1>5, OfFields
<1>7. q \in Trees
  BY <1>1, <1>3, <1>5, TreeFields DEF Of, Trees
<1>8. ListedOnce(q) /\ ServersFirst(q) /\ Within(q, L) /\ InTune(q, L, G)
  BY <1>1, <1>6 DEF Sound, ListedOnce, ServersFirst, Within, InTune
<1>9. InPairs(q)
  <2>1. InPairs(r)
    BY <1>1 DEF Sound
  <2> QED  BY <1>3, <1>4, <1>6, <2>1 DEF InPairs
<1> QED
  BY <1>3, <1>6, <1>7, <1>8, <1>9 DEF Fine, Sound

\* AddTarget and CreateNetClient.
LEMMA AssignFine ==
  ASSUME NEW r, NEW L, NEW G, Fine(r, L, G), NEW m \in Managers, m \in L, m \in G,
         NEW s \in Ids, r.kind[s] = "server", r.partner[s] = None,
         NEW q, q = Assign(r, s, m)
  PROVE  /\ Fine(q, L, G) /\ q.up = r.up
         /\ \A x \in Ids : /\ r.kind[x] # "free" => q.kind[x] = r.kind[x]
                           /\ x # s /\ r.kind[x] = "server" => q.partner[x] = r.partner[x]
<1>1. PICK t : t = Given(r, s)
  OBVIOUS
<1>2. /\ Fine(t, L, G) /\ t.kind = r.kind /\ t.partner = r.partner /\ s \in t.assigned
      /\ t.up = r.up
  BY <1>1, GivenFine
<1>3. q = CreateNetClient(t, s, m)
  BY <1>1 DEF Assign, Given
<1> QED
  BY <1>2, <1>3, ClientCreated

-----------------------------------------------------------------------------
(* Some of the places of a sequence, in order.                             *)

\* The n-th of some places.
Spot(places, n) == CHOOSE i \in places : Cardinality({j \in places : j < i}) = n - 1

\* The places before i.
Rank(places, i) == Cardinality({j \in places : j < i})

LEMMA Ranks ==
  ASSUME NEW k \in Nat, NEW places, places \subseteq 1 .. k
  PROVE  /\ IsFiniteSet(places) /\ Cardinality(places) \in Nat
         /\ \A i \in places : Rank(places, i) \in 0 .. Cardinality(places) - 1
         /\ \A i, j \in places : i < j => Rank(places, i) < Rank(places, j)
<1> DEFINE Before(i) == {j \in places : j < i}
           c == Cardinality(places)
           T == 0 .. c - 1
<1>1. IsFiniteSet(places) /\ c \in Nat
  <2>1. \A b \in Nat : IsFiniteSet(1 .. b)
    BY FS_Interval
  <2> QED  BY <2>1, FS_Subset, FS_CardinalityType
<1>2. ASSUME NEW i \in places PROVE IsFiniteSet(Before(i)) /\ Cardinality(Before(i)) \in T
  <2>1. Before(i) \in SUBSET places /\ Before(i) # places
    BY <1>2
  <2> HIDE DEF Before
  <2>2. IsFiniteSet(Before(i)) /\ Cardinality(Before(i)) <= c /\ Cardinality(Before(i)) # c
    BY <1>1, <2>1, FS_Subset
  <2>3. Cardinality(Before(i)) \in Nat
    BY <2>2, FS_CardinalityType
  <2> HIDE DEF c
  <2> QED  BY <1>1, <2>2, <2>3
<1>3. ASSUME NEW i \in places, NEW j \in places, i < j
      PROVE  Cardinality(Before(i)) < Cardinality(Before(j))
  <2>1. Before(i) \in SUBSET Before(j) /\ Before(i) # Before(j)
    <3>1. \A h \in places : h \in Nat
      OBVIOUS
    <3>2. \A h \in places : h < i => h < j
      BY <1>3, <3>1
    <3>3. i \in Before(j) /\ i \notin Before(i)
      BY <1>3, <3>1
    <3> QED  BY <3>2, <3>3
  <2> HIDE DEF Before
  <2>2. /\ Cardinality(Before(i)) <= Cardinality(Before(j))
        /\ Cardinality(Before(i)) # Cardinality(Before(j))
    BY <1>2, <2>1, FS_Subset
  <2>3. Cardinality(Before(i)) \in Int /\ Cardinality(Before(j)) \in Int
    BY <1>2
  <2> QED  BY <2>2, <2>3
<1>4. \A i : Rank(places, i) = Cardinality(Before(i))
  BY DEF Rank
<1> HIDE DEF Before, T
<1>5. \A i \in places : Rank(places, i) \in T
  BY <1>2, <1>4
<1>6. \A i, j \in places : i < j => Rank(places, i) < Rank(places, j)
  BY <1>3, <1>4
<1> QED
  BY <1>1, <1>5, <1>6 DEF T

LEMMA Spots ==
  ASSUME NEW k \in Nat, NEW places, places \subseteq 1 .. k
  PROVE  /\ IsFiniteSet(places) /\ Cardinality(places) \in Nat
         /\ \A n \in 1 .. Cardinality(places) :
               Spot(places, n) \in places /\ Rank(places, Spot(places, n)) = n - 1
<1> DEFINE c == Cardinality(places)
           T == 0 .. c - 1
           f == [i \in places |-> Rank(places, i)]
<1>1. /\ IsFiniteSet(places) /\ c \in Nat /\ \A i \in places : Rank(places, i) \in T
      /\ \A i, j \in places : i < j => Rank(places, i) < Rank(places, j)
  BY Ranks
<1>4. f \in Injection(places, T)
  <2>1. f \in [places -> T]
    BY <1>1
  <2>2. \A i, j \in places : i # j => f[i] # f[j]
    <3> SUFFICES ASSUME NEW i \in places, NEW j \in places, i # j PROVE f[i] # f[j]
      OBVIOUS
    <3>1. i < j \/ j < i
      OBVIOUS
    <3>2. Rank(places, i) \in Int /\ Rank(places, j) \in Int
      BY <1>1
    <3>3. Rank(places, i) < Rank(places, j) \/ Rank(places, j) < Rank(places, i)
      BY <1>1, <3>1
    <3> QED  BY <3>2, <3>3
  <2>3. DOMAIN f = places
    OBVIOUS
  <2> HIDE DEF f, T
  <2> QED  BY <2>1, <2>2, <2>3 DEF Injection, IsInjective
<1>5. IsFiniteSet(T) /\ Cardinality(T) = c
  <2>1. \A b \in Nat : IsFiniteSet(0 .. b - 1) /\ Cardinality(0 .. b - 1) = b
    <3> SUFFICES ASSUME NEW b \in Nat
                 PROVE  IsFiniteSet(0 .. b - 1) /\ Cardinality(0 .. b - 1) = b
      OBVIOUS
    <3>1. 0 \in Int /\ b - 1 \in Int
      OBVIOUS
    <3>2. PICK e \in Int : e = b - 1
      BY <3>1
    <3>3. IsFiniteSet(0 .. e) /\ Cardinality(0 .. e) = IF 0 > e THEN 0 ELSE e - 0 + 1
      BY <3>1, FS_Interval
    <3> QED  BY <3>2, <3>3
  <2> HIDE DEF c
  <2> QED  BY <1>1, <2>1
<1>6. f \in Surjection(places, T)
  <2> HIDE DEF f, T
  <2> QED  BY <1>1, <1>4, <1>5, FS_Injection
<1>7. ASSUME NEW n \in 1 .. c
      PROVE  Spot(places, n) \in places /\ Rank(places, Spot(places, n)) = n - 1
  <2>1. n - 1 \in T
    BY <1>1, <1>7
  <2>2. PICK i \in places : f[i] = n - 1
    <3> HIDE DEF f, T
    <3> QED  BY <1>6, <2>1 DEF Surjection
  <2>3. Rank(places, i) = n - 1
    BY <2>2
  <2> QED  BY <2>3 DEF Spot, Rank
<1> QED
  BY <1>1, <1>7

\* Each place is one of them, and they are in order.
LEMMA SpotOf ==
  ASSUME NEW k \in Nat, NEW places, places \subseteq 1 .. k
  PROVE  /\ \A i \in places : /\ Rank(places, i) + 1 \in 1 .. Cardinality(places)
                              /\ Spot(places, Rank(places, i) + 1) = i
         /\ \A a, b \in 1 .. Cardinality(places) : a < b => Spot(places, a) < Spot(places, b)
<1> DEFINE c == Cardinality(places)
<1>1. /\ c \in Nat /\ \A i \in places : Rank(places, i) \in 0 .. c - 1 /\ i \in Int
      /\ \A i, j \in places : i < j => Rank(places, i) < Rank(places, j)
  <2>1. \A i \in places : i \in Int
    OBVIOUS
  <2> QED  BY <2>1, Ranks
<1>2. \A n \in 1 .. c : Spot(places, n) \in places /\ Rank(places, Spot(places, n)) = n - 1
  BY Spots
<1> HIDE DEF c
<1>3. ASSUME NEW i \in places
      PROVE  Rank(places, i) + 1 \in 1 .. c /\ Spot(places, Rank(places, i) + 1) = i
  <2>1. PICK n \in 1 .. c : n = Rank(places, i) + 1
    BY <1>1
  <2>2. PICK j \in places : j = Spot(places, n)
    BY <1>2
  <2>3. Rank(places, j) = Rank(places, i) /\ Rank(places, i) \in Int
    BY <1>1, <1>2, <2>1, <2>2
  <2>4. ~(i < j) /\ ~(j < i)
    BY <1>1, <2>3
  <2>5. i = j
    BY <1>1, <2>4
  <2> QED  BY <2>1, <2>2, <2>5
<1>4. ASSUME NEW a \in 1 .. c, NEW b \in 1 .. c, a < b PROVE Spot(places, a) < Spot(places, b)
  <2>1. PICK i \in places : i = Spot(places, a)
    BY <1>2
  <2>2. PICK j \in places : j = Spot(places, b)
    BY <1>2
  <2>3. Rank(places, i) = a - 1 /\ Rank(places, j) = b - 1
    BY <1>2, <2>1, <2>2
  <2>4. i # j /\ ~(j < i)
    BY <1>1, <1>4, <2>3
  <2> QED  BY <1>1, <2>1, <2>2, <2>4
<1> QED
  BY <1>3, <1>4 DEF c

\* At picks elements of s, each place once.
LEMMA Picked ==
  ASSUME NEW S, NEW s \in Seq(S), NEW places, places \subseteq DOMAIN s
  PROVE  /\ Len(At(s, places)) = Cardinality(places) /\ Cardinality(places) \in Nat
         /\ \A n \in 1 .. Cardinality(places) :
               \E i \in places : At(s, places)[n] = s[i]
         /\ IsInjective(s) =>
               \A a, b \in 1 .. Cardinality(places) :
                  a # b => At(s, places)[a] # At(s, places)[b]
<1> DEFINE c == Cardinality(places)
<1>1. Len(s) \in Nat /\ DOMAIN s = 1 .. Len(s)
  OBVIOUS
<1>2. /\ c \in Nat
      /\ \A n \in 1 .. c : Spot(places, n) \in places /\ Rank(places, Spot(places, n)) = n - 1
  BY <1>1, Spots
<1>3. At(s, places) = [n \in 1 .. c |-> s[Spot(places, n)]]
  BY DEF At, Spot
<1>4. \A n \in 1 .. c : At(s, places)[n] = s[Spot(places, n)]
  BY <1>3
<1>5. Len(At(s, places)) = c
  <2> HIDE DEF c
  <2>1. \A n \in 1 .. c : s[Spot(places, n)] \in S
    <3>1. \A i \in places : s[i] \in S
      BY <1>1
    <3> QED  BY <1>2, <3>1
  <2>2. [n \in 1 .. c |-> s[Spot(places, n)]] \in Seq(S)
    BY <1>2, <2>1
  <2>3. Len([n \in 1 .. c |-> s[Spot(places, n)]]) = c
    BY <1>2, <2>2
  <2> QED  BY <1>3, <2>3
<1>6. ASSUME IsInjective(s), NEW a \in 1 .. c, NEW b \in 1 .. c, a # b
      PROVE  At(s, places)[a] # At(s, places)[b]
  <2>1. Spot(places, a) # Spot(places, b)
    <3>1. a - 1 # b - 1
      BY <1>2, <1>6
    <3> HIDE DEF c
    <3> QED  BY <1>2, <3>1
  <2>2. Spot(places, a) \in DOMAIN s /\ Spot(places, b) \in DOMAIN s
    BY <1>2
  <2> HIDE DEF c
  <2> QED  BY <1>4, <1>6, <2>1, <2>2 DEF IsInjective
<1> QED
  BY <1>2, <1>4, <1>5, <1>6

LEMMA Selected ==
  ASSUME NEW S, NEW s \in Seq(S), NEW places, places \subseteq DOMAIN s
  PROVE  /\ At(s, places) \in Seq(S) /\ Len(At(s, places)) = Cardinality(places)
         /\ \A n \in 1 .. Len(At(s, places)) :
               Spot(places, n) \in places /\ At(s, places)[n] = s[Spot(places, n)]
         /\ ToSet(At(s, places)) = {s[i] : i \in places}
         /\ IsInjective(s) => IsInjective(At(s, places))
<1> DEFINE c == Cardinality(places)
           t == At(s, places)
<1>1. Len(s) \in Nat /\ DOMAIN s = 1 .. Len(s)
  OBVIOUS
<1>2. c \in Nat /\ \A n \in 1 .. c : Spot(places, n) \in places
  BY <1>1, Spots
<1>3. \A i \in places : \E n \in 1 .. c : Spot(places, n) = i
  BY <1>1, SpotOf
<1>4. t = [n \in 1 .. c |-> s[Spot(places, n)]]
  BY DEF At, Spot
<1>5. \A i \in places : s[i] \in S
  BY <1>1
<1> HIDE DEF c
<1>6. t \in Seq(S) /\ \A n \in 1 .. c : t[n] = s[Spot(places, n)]
  <2>1. \A n \in 1 .. c : s[Spot(places, n)] \in S
    BY <1>2, <1>5
  <2>2. [n \in 1 .. c |-> s[Spot(places, n)]] \in Seq(S)
    BY <1>2, <2>1
  <2> QED  BY <1>4, <2>2
<1>7. Len(t) = c /\ DOMAIN t = 1 .. c
  <2>1. DOMAIN t = 1 .. c
    BY <1>4
  <2> HIDE DEF t
  <2> QED  BY <1>2, <1>6, <2>1
<1> HIDE DEF t
<1>8. ToSet(t) = {s[i] : i \in places}
  <2>1. ToSet(t) = {s[Spot(places, n)] : n \in 1 .. c}
    BY <1>6, <1>7 DEF ToSet
  <2> QED  BY <1>2, <1>3, <2>1
<1>9. ASSUME IsInjective(s) PROVE IsInjective(t)
  <2> SUFFICES ASSUME NEW a \in 1 .. c, NEW b \in 1 .. c, t[a] = t[b] PROVE a = b
    BY <1>7 DEF IsInjective
  <2>1. Spot(places, a) = Spot(places, b)
    BY <1>2, <1>6, <1>9 DEF IsInjective
  <2>2. \A x, y \in 1 .. c : x < y => Spot(places, x) < Spot(places, y)
    <3> USE DEF c
    <3> QED  BY <1>1, SpotOf
  <2>3. Spot(places, a) \in Int
    BY <1>1, <1>2
  <2>4. ~(a < b) /\ ~(b < a)
    BY <2>1, <2>2, <2>3
  <2> QED  BY <1>2, <2>4
<1>10. /\ Len(t) = c
       /\ \A n \in 1 .. Len(t) : Spot(places, n) \in places /\ t[n] = s[Spot(places, n)]
  BY <1>2, <1>6, <1>7
<1> QED
  BY <1>6, <1>8, <1>9, <1>10 DEF t, c

-----------------------------------------------------------------------------
(* The loops over the servers of a manager.                                *)

\* Manager::RemoveTargets.
TargetTurn(t, i, m) ==
    IF i > WorkerCount(t, m) \/ t.kind[t.workers[m][i]] # "server" THEN t
    ELSE RemoveTargets(t, t.workers[m][i])
\* The servers of m at the first i places have no partner.
Alone(t, m, i) ==
    \A j \in 1 .. i : /\ j <= Len(t.workers[m])
                      /\ t.kind[t.workers[m][j]] = "server"
                      => t.partner[t.workers[m][j]] = None
TargetLoop(f, r, m, n) ==
    f = [i \in 0 .. n |-> IF i = 0 THEN r ELSE TargetTurn(f[i - 1], i, m)]

LEMMA TargetEnds ==
  ASSUME NEW r, NEW L, NEW G, Fine(r, L, G), NEW m \in Managers
  PROVE  LET q == AllTargetsRemoved(r, m)
         IN /\ Fine(q, L, G)
            /\ \A y \in Ids : /\ q.kind[y] = "server" <=> r.kind[y] = "server"
                              /\ Home(y) = m /\ r.kind[y] = "server" => q.partner[y] = None
<1> DEFINE n == WorkerCount(r, m)
           Good(i) == {q \in Trees : /\ Fine(q, L, G) /\ Alone(q, m, i) /\ Len(q.workers[m]) <= n
                                 /\ \A y \in Ids : q.kind[y] = "server" <=> r.kind[y] = "server"}
           P == [i \in 0 .. n |-> Good(i)]
           g == [z \in Trees \X (1 .. n) |-> TargetTurn(z[1], z[2], m)]
           F == CHOOSE f : TargetLoop(f, r, m, n)
<1>1. AllTargetsRemoved(r, m) = F[n]
  BY DEF AllTargetsRemoved, Repeat, TargetLoop, TargetTurn
<1>2. n \in Nat /\ r \in Good(0)
  <2>1. r \in Trees
    BY DEF Fine, Sound
  <2>2. n \in Nat /\ Len(r.workers[m]) <= n
    BY <2>1, MessageTypes DEF WorkerCount
  <2> HIDE DEF n
  <2> QED  BY <2>1, <2>2 DEF Alone
<1>3. ASSUME NEW i \in 1 .. n, NEW q \in Good(i - 1) PROVE TargetTurn(q, i, m) \in Good(i)
  <2>1. /\ Fine(q, L, G) /\ Alone(q, m, i - 1) /\ Len(q.workers[m]) <= n /\ q \in Trees
        /\ \A y \in Ids : q.kind[y] = "server" <=> r.kind[y] = "server"
    BY <1>3
  <2>2. Len(q.workers[m]) \in Nat /\ DOMAIN q.workers[m] = 1 .. Len(q.workers[m]) /\ n \in Nat
    BY <1>2, <2>1, MessageTypes
  <2> HIDE DEF n
  <2>3. ASSUME NEW t, Fine(t, L, G), Alone(t, m, i), Len(t.workers[m]) <= Len(q.workers[m]),
               \A y \in Ids : t.kind[y] = "server" <=> q.kind[y] = "server"
        PROVE  t \in Good(i)
    <3>1. t \in Trees
      BY <2>3 DEF Fine, Sound
    <3>2. Len(t.workers[m]) \in Nat
      BY <3>1, MessageTypes
    <3>3. Len(t.workers[m]) <= n
      BY <2>1, <2>2, <2>3, <3>2
    <3> QED  BY <2>1, <2>3, <3>1, <3>3
  <2> HIDE DEF Good
  <2>4. CASE i > WorkerCount(q, m) \/ q.kind[q.workers[m][i]] # "server"
    <3>1. TargetTurn(q, i, m) = q
      BY <2>4 DEF TargetTurn
    <3>2. Alone(q, m, i)
      <4>1. \A j \in 1 .. i : j \in 1 .. i - 1 \/ j = i
        BY <2>2
      <4>2. ~(i <= Len(q.workers[m]) /\ q.kind[q.workers[m][i]] = "server")
        BY <2>2, <2>4 DEF WorkerCount
      <4> QED  BY <2>1, <4>1, <4>2 DEF Alone
    <3> QED  BY <2>1, <2>2, <2>3, <3>1, <3>2
  <2>5. CASE ~(i > WorkerCount(q, m) \/ q.kind[q.workers[m][i]] # "server")
    <3> DEFINE s == q.workers[m][i]
    <3>1. PICK t : t = RemoveTargets(q, s)
      OBVIOUS
    <3>2. TargetTurn(q, i, m) = t
      BY <2>5, <3>1 DEF TargetTurn
    <3>3. i \in DOMAIN q.workers[m]
      BY <2>2, <2>5 DEF WorkerCount
    <3>4. s \in Ids /\ Home(s) = m /\ Place(q, s) = i /\ q.kind[s] = "server"
      BY <2>1, <2>5, <3>3, OnList DEF Fine
    <3>5. \A j \in 1 .. i : j \in DOMAIN q.workers[m] /\ (j \in 1 .. i - 1 \/ j = i)
      BY <2>2, <3>3
    <3>6. \A j \in 1 .. i : q.workers[m][j] \in Ids
      BY <2>1, <3>5, OnList DEF Fine
    <3>7. q.workers[m][i] = s
      OBVIOUS
    <3> HIDE DEF s
    <3>8. /\ Fine(t, L, G) /\ t.partner[s] = None
          /\ \A y \in Ids : /\ t.kind[y] = "server" <=> q.kind[y] = "server"
                            /\ q.partner[y] = None => t.partner[y] = None
          /\ Len(t.workers[m]) <= Len(q.workers[m])
          /\ \A j \in 1 .. i : t.workers[m][j] = q.workers[m][j]
      BY <2>1, <3>1, <3>4, TargetsRemoved
    <3>9. Alone(t, m, i)
      <4> SUFFICES ASSUME NEW j \in 1 .. i, t.kind[t.workers[m][j]] = "server"
                   PROVE  t.partner[t.workers[m][j]] = None
        BY DEF Alone
      <4>1. t.workers[m][j] = q.workers[m][j] /\ q.kind[q.workers[m][j]] = "server"
        BY <3>6, <3>8
      <4>2. CASE j = i
        BY <3>7, <3>8, <4>1, <4>2
      <4>3. CASE j \in 1 .. i - 1
        <5>1. j <= Len(q.workers[m])
          BY <2>2, <3>5
        <5> QED  BY <2>1, <3>6, <3>8, <4>1, <4>3, <5>1 DEF Alone
      <4> QED  BY <3>5, <4>2, <4>3
    <3> QED  BY <2>3, <3>2, <3>8, <3>9
  <2> QED  BY <2>4, <2>5
<1>4. ASSUME NEW i \in 1 .. n, NEW q \in Good(i - 1) PROVE g[<<q, i>>] = TargetTurn(q, i, m)
  <2>1. <<q, i>> \in Trees \X (1 .. n)
    BY <1>4
  <2> QED  BY <2>1
<1> HIDE DEF Good, g, F, n
<1>5. PICK f : Turns(f, n, r, g) /\ \A i \in 0 .. n : f[i] \in P[i]
  <2>1. \A i \in 0 .. n : P[i] = Good(i)
    OBVIOUS
  <2>2. r \in P[0]
    BY <1>2
  <2> HIDE DEF P
  <2>3. ASSUME NEW i \in 1 .. n, NEW q \in P[i - 1] PROVE g[<<q, i>>] \in P[i]
    <3>1. i \in 0 .. n /\ i - 1 \in 0 .. n
      BY <1>2
    <3>2. q \in Good(i - 1)
      BY <2>1, <3>1
    <3>3. TargetTurn(q, i, m) \in Good(i) /\ g[<<q, i>>] = TargetTurn(q, i, m)
      BY <1>3, <1>4, <3>2
    <3> QED  BY <2>1, <3>1, <3>3
  <2> QED  BY <1>2, <2>2, <2>3, Iterates
<1>6. /\ Table(f, n) /\ f[0] = r /\ \A i \in 0 .. n : f[i] \in Good(i)
      /\ \A i \in 1 .. n : f[i] = g[<<f[i - 1], i>>]
  BY <1>5 DEF Turns, Table
<1> HIDE DEF P
<1>7. ASSUME NEW i \in 1 .. n PROVE f[i] = TargetTurn(f[i - 1], i, m)
  <2>1. i - 1 \in 0 .. n
    BY <1>2
  <2>2. f[i - 1] \in Good(i - 1) /\ f[i] = g[<<f[i - 1], i>>]
    BY <1>6, <2>1
  <2> QED  BY <1>4, <2>2
<1>8. TargetLoop(f, r, m, n)
  <2> DEFINE h == [i \in 0 .. n |-> IF i = 0 THEN r ELSE TargetTurn(f[i - 1], i, m)]
  <2>1. /\ Table(h, n) /\ h[0] = r
        /\ \A i \in 1 .. n : h[i] = TargetTurn(f[i - 1], i, m)
    BY <1>2 DEF Table
  <2> HIDE DEF h
  <2>2. f[0] = h[0] /\ \A i \in 1 .. n : f[i] = h[i]
    BY <1>6, <1>7, <2>1
  <2>3. f = h
    BY <1>2, <1>6, <2>1, <2>2, SameTable
  <2> QED  BY <2>3 DEF TargetLoop, h
<1>9. TargetLoop(F, r, m, n)
  BY <1>8 DEF F
<1>10. F[0] = r /\ \A i \in 1 .. n : F[i] = TargetTurn(F[i - 1], i, m)
  BY <1>2, <1>9 DEF TargetLoop
<1>11. f[n] = F[n]
  <2>1. \A i \in 1 .. n : f[i - 1] = F[i - 1] => f[i] = F[i]
    BY <1>7, <1>10
  <2>2. f[0] = F[0]
    BY <1>6, <1>10
  <2> QED  BY <1>2, <2>1, <2>2, Agree
<1>12. F[n] \in Good(n)
  BY <1>2, <1>6, <1>11
<1> QED
  <2>1. PICK q : q = AllTargetsRemoved(r, m)
    OBVIOUS
  <2>2. /\ Fine(q, L, G) /\ Alone(q, m, n) /\ Len(q.workers[m]) <= n /\ q \in Trees
        /\ \A y \in Ids : q.kind[y] = "server" <=> r.kind[y] = "server"
    BY <1>1, <1>12, <2>1 DEF Good
  <2>3. ASSUME NEW y \in Ids, Home(y) = m, r.kind[y] = "server" PROVE q.partner[y] = None
    <3>1. q.kind[y] = "server"
      BY <2>2, <2>3
    <3>2. /\ Place(q, y) \in 1 .. Len(q.workers[m]) /\ q.workers[m][Place(q, y)] = y
          /\ Len(q.workers[m]) \in Nat
      BY <2>2, <2>3, <3>1, OnItsList DEF Fine
    <3>3. Place(q, y) \in 1 .. n /\ Place(q, y) <= Len(q.workers[m])
      BY <1>2, <2>2, <3>2
    <3> QED  BY <2>2, <3>1, <3>2, <3>3 DEF Alone
  <2> QED  BY <2>1, <2>2, <2>3

\* StoreTargetSelection, with a manager selected.
Distributed(r, servers, targets) ==
    Repeat(LAMBDA t, i : Assign(t, servers[i], targets[i]), r, Len(targets))
AssignTurn(t, i, servers, targets) == Assign(t, servers[i], targets[i])
AssignLoop(f, r, servers, targets, n) ==
    f = [i \in 0 .. n |-> IF i = 0 THEN r ELSE AssignTurn(f[i - 1], i, servers, targets)]

LEMMA AssignEnds ==
  ASSUME NEW r, NEW L, NEW G, Fine(r, L, G), NEW servers, NEW targets, Len(targets) \in Nat,
         \A j \in 1 .. Len(targets) :
            /\ servers[j] \in Ids /\ r.kind[servers[j]] = "server" /\ r.partner[servers[j]] = None
            /\ targets[j] \in Managers /\ targets[j] \in L /\ targets[j] \in G,
         \A a, b \in 1 .. Len(targets) : a # b => servers[a] # servers[b]
  PROVE  Fine(Distributed(r, servers, targets), L, G)
<1> DEFINE n == Len(targets)
           Good(i) == {q \in Trees : /\ Fine(q, L, G)
                                 /\ \A j \in 1 .. n :
                                       /\ q.kind[servers[j]] = "server"
                                       /\ i < j => q.partner[servers[j]] = None}
           P == [i \in 0 .. n |-> Good(i)]
           g == [z \in Trees \X (1 .. n) |-> AssignTurn(z[1], z[2], servers, targets)]
           F == CHOOSE f : AssignLoop(f, r, servers, targets, n)
<1>1. Distributed(r, servers, targets) = F[n]
  BY DEF Distributed, Repeat, AssignLoop, AssignTurn
<1>2. n \in Nat /\ r \in Good(0)
  <2>1. r \in Trees
    BY DEF Fine, Sound
  <2> QED  BY <2>1
<1>3. ASSUME NEW i \in 1 .. n, NEW q \in Good(i - 1)
      PROVE  AssignTurn(q, i, servers, targets) \in Good(i)
  <2>1. /\ Fine(q, L, G) /\ q \in Trees
        /\ \A j \in 1 .. n : /\ q.kind[servers[j]] = "server"
                             /\ i - 1 < j => q.partner[servers[j]] = None
    BY <1>3
  <2>2. PICK t : t = AssignTurn(q, i, servers, targets)
    OBVIOUS
  <2>3. /\ servers[i] \in Ids /\ targets[i] \in Managers /\ targets[i] \in L /\ targets[i] \in G
        /\ q.kind[servers[i]] = "server"
    BY <2>1
  <2>4. q.partner[servers[i]] = None /\ i \in 1 .. n
    BY <1>2, <2>1
  <2>5. \A j \in 1 .. n : servers[j] \in Ids /\ (j # i => servers[j] # servers[i])
    BY <2>4
  <2>6. \A j \in 1 .. n : i < j => i - 1 < j /\ j # i
    BY <1>2
  <2> HIDE DEF n
  <2>7. /\ Fine(t, L, G)
        /\ \A x \in Ids : /\ q.kind[x] # "free" => t.kind[x] = q.kind[x]
                          /\ x # servers[i] /\ q.kind[x] = "server" => t.partner[x] = q.partner[x]
    BY <2>1, <2>2, <2>3, <2>4, AssignFine DEF AssignTurn
  <2>8. t \in Trees
    BY <2>7 DEF Fine, Sound
  <2>9. ASSUME NEW j \in 1 .. n
        PROVE  t.kind[servers[j]] = "server" /\ (i < j => t.partner[servers[j]] = None)
    BY <2>1, <2>5, <2>6, <2>7
  <2> QED  BY <2>2, <2>7, <2>8, <2>9
<1>4. ASSUME NEW i \in 1 .. n, NEW q \in Good(i - 1)
      PROVE  g[<<q, i>>] = AssignTurn(q, i, servers, targets)
  <2>1. <<q, i>> \in Trees \X (1 .. n)
    BY <1>4
  <2> QED  BY <2>1
<1> HIDE DEF Good, g, F, n
<1>5. PICK f : Turns(f, n, r, g) /\ \A i \in 0 .. n : f[i] \in P[i]
  <2>1. \A i \in 0 .. n : P[i] = Good(i)
    OBVIOUS
  <2>2. r \in P[0]
    BY <1>2
  <2> HIDE DEF P
  <2>3. ASSUME NEW i \in 1 .. n, NEW q \in P[i - 1] PROVE g[<<q, i>>] \in P[i]
    <3>1. i \in 0 .. n /\ i - 1 \in 0 .. n
      BY <1>2
    <3>2. q \in Good(i - 1)
      BY <2>1, <3>1
    <3>3. /\ AssignTurn(q, i, servers, targets) \in Good(i)
          /\ g[<<q, i>>] = AssignTurn(q, i, servers, targets)
      BY <1>3, <1>4, <3>2
    <3> QED  BY <2>1, <3>1, <3>3
  <2> QED  BY <1>2, <2>2, <2>3, Iterates
<1>6. /\ Table(f, n) /\ f[0] = r /\ \A i \in 0 .. n : f[i] \in Good(i)
      /\ \A i \in 1 .. n : f[i] = g[<<f[i - 1], i>>]
  BY <1>5 DEF Turns, Table
<1> HIDE DEF P
<1>7. ASSUME NEW i \in 1 .. n PROVE f[i] = AssignTurn(f[i - 1], i, servers, targets)
  <2>1. i - 1 \in 0 .. n
    BY <1>2
  <2>2. f[i - 1] \in Good(i - 1) /\ f[i] = g[<<f[i - 1], i>>]
    BY <1>6, <2>1
  <2> QED  BY <1>4, <2>2
<1>8. AssignLoop(f, r, servers, targets, n)
  <2> DEFINE h == [i \in 0 .. n |-> IF i = 0 THEN r ELSE AssignTurn(f[i - 1], i, servers, targets)]
  <2>1. /\ Table(h, n) /\ h[0] = r
        /\ \A i \in 1 .. n : h[i] = AssignTurn(f[i - 1], i, servers, targets)
    BY <1>2 DEF Table
  <2> HIDE DEF h
  <2>2. f[0] = h[0] /\ \A i \in 1 .. n : f[i] = h[i]
    BY <1>6, <1>7, <2>1
  <2>3. f = h
    BY <1>2, <1>6, <2>1, <2>2, SameTable
  <2> QED  BY <2>3 DEF AssignLoop, h
<1>9. AssignLoop(F, r, servers, targets, n)
  BY <1>8 DEF F
<1>10. F[0] = r /\ \A i \in 1 .. n : F[i] = AssignTurn(F[i - 1], i, servers, targets)
  BY <1>2, <1>9 DEF AssignLoop
<1>11. f[n] = F[n]
  <2>1. \A i \in 1 .. n : f[i - 1] = F[i - 1] => f[i] = F[i]
    BY <1>7, <1>10
  <2>2. f[0] = F[0]
    BY <1>6, <1>10
  <2> QED  BY <1>2, <2>1, <2>2, Agree
<1>12. F[n] \in Good(n)
  BY <1>2, <1>6, <1>11
<1> QED
  BY <1>1, <1>12 DEF Good

-----------------------------------------------------------------------------
(* The loops over managers, and those that do not end well.                *)

\* Whether Iometer has used a NULL pointer makes no difference to the tree.
Marked(r, q) == q = [r EXCEPT !.up = FALSE] \/ q = [r EXCEPT !.up = TRUE]
LEMMA MarkedFine ==
  ASSUME NEW r, NEW L, NEW G, Fine(r, L, G), NEW q, Marked(r, q)
  PROVE  Fine(q, L, G)
<1>1. Sound(r) /\ r \in Trees /\ Within(r, L) /\ InTune(r, L, G)
  BY DEF Fine, Sound
<1>2. /\ q.workers = r.workers /\ q.kind = r.kind /\ q.assigned = r.assigned
      /\ q.partner = r.partner /\ q.inbox = r.inbox /\ q.grunts = r.grunts
      /\ q.copies = r.copies /\ q \in Trees
  BY <1>1 DEF Trees, Marked
<1> QED
  BY <1>1, <1>2 DEF Fine, Sound, ListedOnce, InPairs, ServersFirst, Within, InTune

\* OnMRefresh after the answer: k is the number of workers there were at first.
Visited(r, m, k) ==
    Repeat(LAMBDA t, i : IF ~t.up THEN t
                         ELSE IF i > WorkerCount(t, m) THEN [t EXCEPT !.up = FALSE]
                         ELSE IF t.kind[t.workers[m][i]] = "server"
                              THEN RemoveTargets(t, t.workers[m][i]) ELSE t,
           r, k)
VisitTurn(t, i, m) ==
    IF ~t.up THEN t
    ELSE IF i > WorkerCount(t, m) THEN [t EXCEPT !.up = FALSE]
    ELSE IF t.kind[t.workers[m][i]] = "server" THEN RemoveTargets(t, t.workers[m][i]) ELSE t
VisitLoop(f, r, m, n) ==
    f = [i \in 0 .. n |-> IF i = 0 THEN r ELSE VisitTurn(f[i - 1], i, m)]

LEMMA VisitEnds ==
  ASSUME NEW r, NEW L, NEW G, Fine(r, L, G), NEW m \in Managers, NEW k \in Nat
  PROVE  Fine(Visited(r, m, k), L, G)
<1> DEFINE n == k
           Good(i) == {q \in Trees : Fine(q, L, G)}
           P == [i \in 0 .. n |-> Good(i)]
           g == [z \in Trees \X (1 .. n) |-> VisitTurn(z[1], z[2], m)]
           F == CHOOSE f : VisitLoop(f, r, m, n)
<1>1. Visited(r, m, k) = F[n]
  BY DEF Visited, Repeat, VisitLoop, VisitTurn
<1>2. n \in Nat /\ r \in Good(0)
  <2>1. r \in Trees
    BY DEF Fine, Sound
  <2> QED  BY <2>1
<1>3. ASSUME NEW i \in 1 .. n, NEW q \in Good(i - 1) PROVE VisitTurn(q, i, m) \in Good(i)
  <2>1. Fine(q, L, G) /\ q \in Trees
    BY <1>3
  <2>2. Fine(VisitTurn(q, i, m), L, G)
    <3>1. CASE ~q.up
      BY <2>1, <3>1 DEF VisitTurn
    <3>2. CASE q.up /\ i > WorkerCount(q, m)
      <4>1. PICK t : t = [q EXCEPT !.up = FALSE]
        OBVIOUS
      <4>2. VisitTurn(q, i, m) = t
        BY <3>2, <4>1 DEF VisitTurn
      <4> QED  BY <2>1, <4>1, <4>2, MarkedFine DEF Marked
    <3>3. CASE q.up /\ ~(i > WorkerCount(q, m)) /\ q.kind[q.workers[m][i]] = "server"
      <4>1. VisitTurn(q, i, m) = RemoveTargets(q, q.workers[m][i])
        BY <3>3 DEF VisitTurn
      <4>2. i \in DOMAIN q.workers[m]
        <5>1. DOMAIN q.workers[m] = 1 .. Len(q.workers[m]) /\ Len(q.workers[m]) \in Nat
          BY <2>1, MessageTypes
        <5> QED  BY <3>3, <5>1 DEF WorkerCount
      <4>3. q.workers[m][i] \in Ids
        BY <2>1, <4>2, OnList DEF Fine
      <4> QED  BY <2>1, <3>3, <4>1, <4>3, TargetsRemoved
    <3>4. CASE q.up /\ ~(i > WorkerCount(q, m)) /\ q.kind[q.workers[m][i]] # "server"
      BY <2>1, <3>4 DEF VisitTurn
    <3> QED  BY <3>1, <3>2, <3>3, <3>4
  <2>3. VisitTurn(q, i, m) \in Trees
    BY <2>2 DEF Fine, Sound
  <2> QED  BY <2>2, <2>3
<1>4. ASSUME NEW i \in 1 .. n, NEW q \in Good(i - 1) PROVE g[<<q, i>>] = VisitTurn(q, i, m)
  <2>1. <<q, i>> \in Trees \X (1 .. n)
    BY <1>4
  <2> QED  BY <2>1
<1> HIDE DEF Good, g, F, n
<1>5. PICK f : Turns(f, n, r, g) /\ \A i \in 0 .. n : f[i] \in P[i]
  <2>1. \A i \in 0 .. n : P[i] = Good(i)
    OBVIOUS
  <2>2. r \in P[0]
    BY <1>2
  <2> HIDE DEF P
  <2>3. ASSUME NEW i \in 1 .. n, NEW q \in P[i - 1] PROVE g[<<q, i>>] \in P[i]
    <3>1. i \in 0 .. n /\ i - 1 \in 0 .. n
      BY <1>2
    <3>2. q \in Good(i - 1)
      BY <2>1, <3>1
    <3>3. VisitTurn(q, i, m) \in Good(i) /\ g[<<q, i>>] = VisitTurn(q, i, m)
      BY <1>3, <1>4, <3>2
    <3> QED  BY <2>1, <3>1, <3>3
  <2> QED  BY <1>2, <2>2, <2>3, Iterates
<1>6. /\ Table(f, n) /\ f[0] = r /\ \A i \in 0 .. n : f[i] \in Good(i)
      /\ \A i \in 1 .. n : f[i] = g[<<f[i - 1], i>>]
  BY <1>5 DEF Turns, Table
<1> HIDE DEF P
<1>7. ASSUME NEW i \in 1 .. n PROVE f[i] = VisitTurn(f[i - 1], i, m)
  <2>1. i - 1 \in 0 .. n
    BY <1>2
  <2>2. f[i - 1] \in Good(i - 1) /\ f[i] = g[<<f[i - 1], i>>]
    BY <1>6, <2>1
  <2> QED  BY <1>4, <2>2
<1>8. VisitLoop(f, r, m, n)
  <2> DEFINE h == [i \in 0 .. n |-> IF i = 0 THEN r ELSE VisitTurn(f[i - 1], i, m)]
  <2>1. /\ Table(h, n) /\ h[0] = r
        /\ \A i \in 1 .. n : h[i] = VisitTurn(f[i - 1], i, m)
    BY <1>2 DEF Table
  <2> HIDE DEF h
  <2>2. f[0] = h[0] /\ \A i \in 1 .. n : f[i] = h[i]
    BY <1>6, <1>7, <2>1
  <2>3. f = h
    BY <1>2, <1>6, <2>1, <2>2, SameTable
  <2> QED  BY <2>3 DEF VisitLoop, h
<1>9. VisitLoop(F, r, m, n)
  BY <1>8 DEF F
<1>10. F[0] = r /\ \A i \in 1 .. n : F[i] = VisitTurn(F[i - 1], i, m)
  BY <1>2, <1>9 DEF VisitLoop
<1>11. f[n] = F[n]
  <2>1. \A i \in 1 .. n : f[i - 1] = F[i - 1] => f[i] = F[i]
    BY <1>7, <1>10
  <2>2. f[0] = F[0]
    BY <1>6, <1>10
  <2> QED  BY <1>2, <2>1, <2>2, Agree
<1>12. F[n] \in Good(n)
  BY <1>2, <1>6, <1>11
<1> QED
  BY <1>1, <1>12 DEF Good

\* AddDefaultWorkers.
WithDefaults(r, m, d) == Repeat(LAMBDA t, i : AddWorker(t, m, d[i]), r, Len(d))
AddTurn(t, i, m, d) == AddWorker(t, m, d[i])
AddLoop(f, r, m, d, n) ==
    f = [i \in 0 .. n |-> IF i = 0 THEN r ELSE AddTurn(f[i - 1], i, m, d)]

LEMMA AddEnds ==
  ASSUME NEW r, NEW L, NEW G, Fine(r, L, G), NEW m \in Managers, m \in L, m \in G,
         r.workers[m] = <<>>, NEW d \in Seq({"disk", "server"}), Len(d) <= MaxWorkers
  PROVE  Fine(WithDefaults(r, m, d), L, G)
<1> DEFINE n == Len(d)
           Good(i) == {q \in Trees : Fine(q, L, G) /\ Len(q.workers[m]) = i}
           P == [i \in 0 .. n |-> Good(i)]
           g == [z \in Trees \X (1 .. n) |-> AddTurn(z[1], z[2], m, d)]
           F == CHOOSE f : AddLoop(f, r, m, d, n)
<1>1. WithDefaults(r, m, d) = F[n]
  BY DEF WithDefaults, Repeat, AddLoop, AddTurn
<1>2. n \in Nat /\ r \in Good(0)
  <2>1. r \in Trees
    BY DEF Fine, Sound
  <2>2. Len(r.workers[m]) = 0
    OBVIOUS
  <2>3. n \in Nat
    OBVIOUS
  <2> QED  BY <2>1, <2>2, <2>3
<1>3. ASSUME NEW i \in 1 .. n, NEW q \in Good(i - 1) PROVE AddTurn(q, i, m, d) \in Good(i)
  <2>1. Fine(q, L, G) /\ q \in Trees /\ Len(q.workers[m]) = i - 1
    BY <1>3
  <2>2. d[i] \in {"disk", "server"}
    OBVIOUS
  <2>3. i \in Nat /\ i <= MaxWorkers
    BY <1>2, Numbers
  <2>4. Room(q, m)
    BY <2>1, <2>3, Numbers DEF Room, WorkerCount
  <2>5. PICK t : t = AddTurn(q, i, m, d)
    OBVIOUS
  <2>6. t = Added(q, m, d[i], q.partner, q.copies)
    BY <2>1, <2>5, AddWorkerIs DEF AddTurn
  <2>7. Fine(t, L, G)
    <3>1. NoClient(q, d[i], q.partner, q.copies)
      BY <2>2 DEF NoClient
    <3> QED  BY <2>1, <2>4, <2>6, <3>1, AddedFine
  <2>8. t.workers = [q.workers EXCEPT ![m] = Append(@, Fresh(q, m))]
    BY <2>6, OfFields DEF Added
  <2>9. Len(t.workers[m]) = i
    <3>1. t.workers[m] = Append(q.workers[m], Fresh(q, m))
      BY <2>1, <2>8, TreeFields
    <3>2. q.workers[m] \in Seq(Ids) /\ Fresh(q, m) \in Ids
      BY <2>1, <2>4, MessageTypes, FreshIs DEF Fine
    <3>3. Len(Append(q.workers[m], Fresh(q, m))) = Len(q.workers[m]) + 1
      BY <3>2
    <3> QED  BY <2>1, <2>3, <3>1, <3>3
  <2>10. t \in Trees
    BY <2>7 DEF Fine, Sound
  <2> QED  BY <2>5, <2>7, <2>9, <2>10
<1>4. ASSUME NEW i \in 1 .. n, NEW q \in Good(i - 1) PROVE g[<<q, i>>] = AddTurn(q, i, m, d)
  <2>1. <<q, i>> \in Trees \X (1 .. n)
    BY <1>4
  <2> QED  BY <2>1
<1> HIDE DEF Good, g, F, n
<1>5. PICK f : Turns(f, n, r, g) /\ \A i \in 0 .. n : f[i] \in P[i]
  <2>1. \A i \in 0 .. n : P[i] = Good(i)
    OBVIOUS
  <2>2. r \in P[0]
    BY <1>2
  <2> HIDE DEF P
  <2>3. ASSUME NEW i \in 1 .. n, NEW q \in P[i - 1] PROVE g[<<q, i>>] \in P[i]
    <3>1. i \in 0 .. n /\ i - 1 \in 0 .. n
      BY <1>2
    <3>2. q \in Good(i - 1)
      BY <2>1, <3>1
    <3>3. AddTurn(q, i, m, d) \in Good(i) /\ g[<<q, i>>] = AddTurn(q, i, m, d)
      BY <1>3, <1>4, <3>2
    <3> QED  BY <2>1, <3>1, <3>3
  <2> QED  BY <1>2, <2>2, <2>3, Iterates
<1>6. /\ Table(f, n) /\ f[0] = r /\ \A i \in 0 .. n : f[i] \in Good(i)
      /\ \A i \in 1 .. n : f[i] = g[<<f[i - 1], i>>]
  BY <1>5 DEF Turns, Table
<1> HIDE DEF P
<1>7. ASSUME NEW i \in 1 .. n PROVE f[i] = AddTurn(f[i - 1], i, m, d)
  <2>1. i - 1 \in 0 .. n
    BY <1>2
  <2>2. f[i - 1] \in Good(i - 1) /\ f[i] = g[<<f[i - 1], i>>]
    BY <1>6, <2>1
  <2> QED  BY <1>4, <2>2
<1>8. AddLoop(f, r, m, d, n)
  <2> DEFINE h == [i \in 0 .. n |-> IF i = 0 THEN r ELSE AddTurn(f[i - 1], i, m, d)]
  <2>1. /\ Table(h, n) /\ h[0] = r
        /\ \A i \in 1 .. n : h[i] = AddTurn(f[i - 1], i, m, d)
    BY <1>2 DEF Table
  <2> HIDE DEF h
  <2>2. f[0] = h[0] /\ \A i \in 1 .. n : f[i] = h[i]
    BY <1>6, <1>7, <2>1
  <2>3. f = h
    BY <1>2, <1>6, <2>1, <2>2, SameTable
  <2> QED  BY <2>3 DEF AddLoop, h
<1>9. AddLoop(F, r, m, d, n)
  BY <1>8 DEF F
<1>10. F[0] = r /\ \A i \in 1 .. n : F[i] = AddTurn(F[i - 1], i, m, d)
  BY <1>2, <1>9 DEF AddLoop
<1>11. f[n] = F[n]
  <2>1. \A i \in 1 .. n : f[i - 1] = F[i - 1] => f[i] = F[i]
    BY <1>7, <1>10
  <2>2. f[0] = F[0]
    BY <1>6, <1>10
  <2> QED  BY <1>2, <2>1, <2>2, Agree
<1>12. F[n] \in Good(n)
  BY <1>2, <1>6, <1>11
<1> QED
  BY <1>1, <1>12 DEF Good

\* ManagerList::RemoveAllManagers.
AllDropped(r, ms) == Repeat(LAMBDA t, i : Dropped(t, ms[i]), r, Len(ms))
LeaveTurn(t, i, ms) == Dropped(t, ms[i])
\* The managers that are still there after i turns.
Staying(ms, i) == {ms[j] : j \in i + 1 .. Len(ms)}
LeaveLoop(f, r, ms, n) ==
    f = [i \in 0 .. n |-> IF i = 0 THEN r ELSE LeaveTurn(f[i - 1], i, ms)]

LEMMA LeaveEnds ==
  ASSUME NEW ms \in Seq(Managers), IsInjective(ms), NEW r, Fine(r, ToSet(ms), ToSet(ms))
  PROVE  Fine(AllDropped(r, ms), {}, {})
<1> DEFINE n == Len(ms)
           Good(i) == {q \in Trees : Fine(q, Staying(ms, i), Staying(ms, i))}
           P == [i \in 0 .. n |-> Good(i)]
           g == [z \in Trees \X (1 .. n) |-> LeaveTurn(z[1], z[2], ms)]
           F == CHOOSE f : LeaveLoop(f, r, ms, n)
<1>1. AllDropped(r, ms) = F[n]
  BY DEF AllDropped, Repeat, LeaveLoop, LeaveTurn
<1>2. n \in Nat /\ r \in Good(0)
  <2>1. r \in Trees
    BY DEF Fine, Sound
  <2>2. Staying(ms, 0) = ToSet(ms)
    <3>1. DOMAIN ms = 0 + 1 .. Len(ms)
      OBVIOUS
    <3> QED  BY <3>1 DEF Staying, ToSet
  <2>3. n \in Nat
    OBVIOUS
  <2> QED  BY <2>1, <2>2, <2>3
<1>3. ASSUME NEW i \in 1 .. n, NEW q \in Good(i - 1) PROVE LeaveTurn(q, i, ms) \in Good(i)
  <2>1. Fine(q, Staying(ms, i - 1), Staying(ms, i - 1)) /\ q \in Trees
    BY <1>3
  <2>2. ms[i] \in Managers /\ i \in Nat /\ n \in Nat
    BY <1>2
  <2>3. ms[i] \in Staying(ms, i - 1)
    BY <2>2 DEF Staying
  <2>4. Staying(ms, i - 1) \ {ms[i]} = Staying(ms, i)
    <3>1. \A j \in 1 .. n : ms[j] = ms[i] => j = i
      <4>1. DOMAIN ms = 1 .. n
        OBVIOUS
      <4> HIDE DEF n
      <4> QED  BY <4>1 DEF IsInjective
    <3>2. \A j : j \in i - 1 + 1 .. n <=> j \in i + 1 .. n \/ j = i
      BY <2>2
    <3>3. \A j \in i + 1 .. n : j \in 1 .. n /\ j # i
      BY <2>2
    <3> QED  BY <3>1, <3>2, <3>3 DEF Staying
  <2>5. Fine(LeaveTurn(q, i, ms), Staying(ms, i), Staying(ms, i))
    BY <2>1, <2>2, <2>3, <2>4, DropEnds DEF LeaveTurn
  <2>6. LeaveTurn(q, i, ms) \in Trees
    BY <2>5 DEF Fine, Sound
  <2> QED  BY <2>5, <2>6
<1>4. ASSUME NEW i \in 1 .. n, NEW q \in Good(i - 1) PROVE g[<<q, i>>] = LeaveTurn(q, i, ms)
  <2>1. <<q, i>> \in Trees \X (1 .. n)
    BY <1>4
  <2> QED  BY <2>1
<1> HIDE DEF Good, g, F, n
<1>5. PICK f : Turns(f, n, r, g) /\ \A i \in 0 .. n : f[i] \in P[i]
  <2>1. \A i \in 0 .. n : P[i] = Good(i)
    OBVIOUS
  <2>2. r \in P[0]
    BY <1>2
  <2> HIDE DEF P
  <2>3. ASSUME NEW i \in 1 .. n, NEW q \in P[i - 1] PROVE g[<<q, i>>] \in P[i]
    <3>1. i \in 0 .. n /\ i - 1 \in 0 .. n
      BY <1>2
    <3>2. q \in Good(i - 1)
      BY <2>1, <3>1
    <3>3. LeaveTurn(q, i, ms) \in Good(i) /\ g[<<q, i>>] = LeaveTurn(q, i, ms)
      BY <1>3, <1>4, <3>2
    <3> QED  BY <2>1, <3>1, <3>3
  <2> QED  BY <1>2, <2>2, <2>3, Iterates
<1>6. /\ Table(f, n) /\ f[0] = r /\ \A i \in 0 .. n : f[i] \in Good(i)
      /\ \A i \in 1 .. n : f[i] = g[<<f[i - 1], i>>]
  BY <1>5 DEF Turns, Table
<1> HIDE DEF P
<1>7. ASSUME NEW i \in 1 .. n PROVE f[i] = LeaveTurn(f[i - 1], i, ms)
  <2>1. i - 1 \in 0 .. n
    BY <1>2
  <2>2. f[i - 1] \in Good(i - 1) /\ f[i] = g[<<f[i - 1], i>>]
    BY <1>6, <2>1
  <2> QED  BY <1>4, <2>2
<1>8. LeaveLoop(f, r, ms, n)
  <2> DEFINE h == [i \in 0 .. n |-> IF i = 0 THEN r ELSE LeaveTurn(f[i - 1], i, ms)]
  <2>1. /\ Table(h, n) /\ h[0] = r
        /\ \A i \in 1 .. n : h[i] = LeaveTurn(f[i - 1], i, ms)
    BY <1>2 DEF Table
  <2> HIDE DEF h
  <2>2. f[0] = h[0] /\ \A i \in 1 .. n : f[i] = h[i]
    BY <1>6, <1>7, <2>1
  <2>3. f = h
    BY <1>2, <1>6, <2>1, <2>2, SameTable
  <2> QED  BY <2>3 DEF LeaveLoop, h
<1>9. LeaveLoop(F, r, ms, n)
  BY <1>8 DEF F
<1>10. F[0] = r /\ \A i \in 1 .. n : F[i] = LeaveTurn(F[i - 1], i, ms)
  BY <1>2, <1>9 DEF LeaveLoop
<1>11. f[n] = F[n]
  <2>1. \A i \in 1 .. n : f[i - 1] = F[i - 1] => f[i] = F[i]
    BY <1>7, <1>10
  <2>2. f[0] = F[0]
    BY <1>6, <1>10
  <2> QED  BY <1>2, <2>1, <2>2, Agree
<1>12. F[n] \in Good(n)
  BY <1>2, <1>6, <1>11
<1> QED
  <2>1. Staying(ms, n) = {}
    BY <1>2 DEF Staying, n
  <2> QED  BY <1>1, <1>12, <2>1 DEF Good

-----------------------------------------------------------------------------
(* The actions keep the invariant.                                         *)

\* The trees of a state and of the next.
LEMMA Here ==
  /\ Tree.workers = workers /\ Tree.kind = kind /\ Tree.assigned = assigned
  /\ Tree.partner = partner /\ Tree.inbox = inbox /\ Tree.grunts = grunts
  /\ Tree.copies = copies /\ Tree.up = up
  /\ Tree = Of(workers, kind, assigned, partner, inbox, grunts, copies, up)
  BY DEF Tree, Of

LEMMA Becoming ==
  ASSUME NEW q \in Trees, Becomes(q)
  PROVE  Tree' = q
<1>1. q = Of(q.workers, q.kind, q.assigned, q.partner, q.inbox, q.grunts, q.copies, q.up)
  BY IsOf
<1>2. Tree' = Of(workers', kind', assigned', partner', inbox', grunts', copies', up')
  BY DEF Tree, Of
<1> QED
  BY <1>1, <1>2 DEF Becomes

\* The managers of a state, and the workers of theirs.
LEMMA There ==
  ASSUME IInv
  PROVE  LET L == ToSet(managers)
         IN /\ Fine(Tree, L, L) /\ Sound(Tree) /\ Tree \in Trees /\ L \subseteq Managers
            /\ \A m : Listed(m) <=> m \in L
            /\ \A x \in Ids : kind[x] # "free" => Home(x) \in Managers /\ Home(x) \in L
<1> DEFINE L == ToSet(managers)
<1>1. Fine(Tree, L, L) /\ Sound(Tree) /\ Tree \in Trees /\ Within(Tree, L)
  BY DEF IInv, Fine, Sound
<1>2. L \subseteq Managers
  BY DEF IInv, ToSet
<1>3. ASSUME NEW x \in Ids, kind[x] # "free" PROVE Home(x) \in Managers /\ Home(x) \in L
  <2>1. Tree.kind[x] # "free"
    BY <1>3, Here
  <2>2. Home(x) \in Managers /\ Tree.workers[Home(x)] # <<>>
    BY <1>1, <2>1, ShorterWithin, Numbers
  <2> QED  BY <1>1, <2>2 DEF Within
<1> QED
  BY <1>1, <1>2, <1>3 DEF Listed

\* The tree becomes another that is fine; no manager comes or goes.
LEMMA Stays ==
  ASSUME IInv, NEW q, Fine(q, ToSet(managers), ToSet(managers)), Becomes(q),
         UNCHANGED managers, shown' \in Ids \cup {None}
  PROVE  IInv'
<1>1. q \in Trees
  BY DEF Fine, Sound
<1>2. Tree' = q
  BY <1>1, Becoming
<1> QED
  BY <1>2 DEF IInv

LEMMA InitInv == Init => IInv
<1> SUFFICES ASSUME Init PROVE IInv
  OBVIOUS
<1>1. /\ managers \in Seq(Managers) /\ IsInjective(managers) /\ ToSet(managers) = {}
      /\ shown \in Ids \cup {None}
  BY DEF Init, IsInjective, ToSet
<1>2. Tree \in Trees
  <2>1. <<>> \in Seq(Ids) /\ <<>> \in Seq(0 .. MaxWorkers) /\ 0 \in 0 .. MaxWorkers
    BY Numbers
  <2>2. /\ workers \in [Managers -> Seq(Ids)] /\ inbox \in [Managers -> Seq(0 .. MaxWorkers)]
        /\ grunts \in [Managers -> 0 .. MaxWorkers]
    BY <2>1 DEF Init
  <2>3. kind \in [Ids -> Kinds] /\ partner \in [Ids -> Ids \cup {None}]
    BY DEF Init, Kinds
  <2>4. assigned \subseteq Ids /\ copies \subseteq Ids /\ up \in BOOLEAN
    BY DEF Init
  <2> QED  BY <2>2, <2>3, <2>4, Here DEF Of, Trees
<1>3. ListedOnce(Tree)
  <2>1. IsInjective(<<>>) /\ Len(<<>>) = 0 /\ DOMAIN <<>> = {} /\ ToSet(<<>>) = {}
    BY DEF IsInjective, ToSet
  <2>2. \A x \in Ids : kind[x] = "free" /\ workers[Home(x)] = <<>>
    BY Numbers DEF Init
  <2> QED  BY <2>1, <2>2, Here, Numbers DEF Init, ListedOnce
<1>4. InPairs(Tree) /\ ServersFirst(Tree) /\ Within(Tree, {})
  BY Here DEF Init, InPairs, ServersFirst, Within
<1>5. InTune(Tree, {}, {})
  BY Here DEF Init, InTune
<1> QED
  BY <1>1, <1>2, <1>3, <1>4, <1>5 DEF IInv, Fine, Sound

LEMMA NewWorkerInv ==
  ASSUME IInv, NEW m \in Managers, NEW k \in {"disk", "server"}, NewWorker(m, k)
  PROVE  IInv'
<1> DEFINE L == ToSet(managers)
<1>1. Fine(Tree, L, L) /\ m \in L /\ Room(Tree, m)
  BY There DEF NewWorker
<1>2. PICK q : q = AddWorker(Tree, m, k)
  OBVIOUS
<1>3. q = Added(Tree, m, k, Tree.partner, Tree.copies)
  BY <1>1, <1>2, AddWorkerIs
<1>4. NoClient(Tree, k, Tree.partner, Tree.copies)
  BY DEF NoClient
<1>5. Fine(q, L, L)
  BY <1>1, <1>3, <1>4, AddedFine
<1>6. Becomes(q) /\ UNCHANGED managers /\ shown' = None
  BY <1>2 DEF NewWorker
<1> QED
  BY <1>5, <1>6, Stays

LEMMA SelectTargetInv ==
  ASSUME IInv, NEW s \in Ids, NEW m \in Managers \cup {None}, SelectTarget(s, m)
  PROVE  IInv'
<1> DEFINE L == ToSet(managers)
<1>1. Fine(Tree, L, L) /\ Tree.kind[s] = "server"
  BY There, Here DEF SelectTarget
<1>2. PICK t : t = RemoveTargets(Tree, s)
  OBVIOUS
<1>3. Fine(t, L, L) /\ t.kind[s] = "server" /\ t.partner[s] = None
  BY <1>1, <1>2, TargetsRemoved
<1>4. /\ Becomes(IF m = None THEN t ELSE Assign(t, s, m))
      /\ UNCHANGED managers /\ shown' = None
  BY <1>2 DEF SelectTarget
<1>5. CASE m = None
  BY <1>3, <1>4, <1>5, Stays
<1>6. CASE m # None
  <2>1. m \in Managers /\ m \in L
    BY <1>6, There DEF SelectTarget
  <2>2. PICK q : q = Assign(t, s, m)
    OBVIOUS
  <2>3. Fine(q, L, L)
    BY <1>3, <2>1, <2>2, AssignFine
  <2> QED  BY <1>4, <1>6, <2>2, <2>3, Stays
<1> QED
  BY <1>5, <1>6

LEMMA ExitWorkerInv ==
  ASSUME IInv, NEW x \in Ids, ExitWorker(x)
  PROVE  IInv'
<1>1. Fine(Tree, ToSet(managers), ToSet(managers)) /\ Tree.kind[x] # "free"
  BY There, Here DEF ExitWorker, Present
<1>2. Fine(RemoveWorker(Tree, x), ToSet(managers), ToSet(managers))
  BY <1>1, WorkerRemoved
<1>3. Becomes(RemoveWorker(Tree, x)) /\ UNCHANGED managers /\ shown' = None
  BY DEF ExitWorker
<1> QED
  BY <1>2, <1>3, Stays

LEMMA ExitManagerInv ==
  ASSUME IInv, NEW m \in Managers, ExitManager(m)
  PROVE  IInv'
<1> DEFINE L == ToSet(managers)
<1>1. Fine(Tree, L, L) /\ m \in L
  BY There DEF ExitManager
<1>2. PICK q : q = Dropped(Emptied(Tree, m), m)
  OBVIOUS
<1>3. Fine(q, L \ {m}, L \ {m})
  BY <1>1, <1>2, EmptyEnds, DropEnds
<1>4. Becomes(q) /\ managers' = RemoveFirst(managers, m) /\ shown' = None
  BY <1>2 DEF ExitManager
<1>5. managers' \in Seq(Managers) /\ IsInjective(managers') /\ ToSet(managers') = L \ {m}
  BY <1>1, <1>4, RemoveFirstOnce DEF IInv
<1>6. Tree' = q
  BY <1>3, <1>4, Becoming DEF Fine, Sound
<1> QED
  BY <1>3, <1>4, <1>5, <1>6 DEF IInv

LEMMA RemoveAllManagersInv ==
  ASSUME IInv, RemoveAllManagers
  PROVE  IInv'
<1>1. PICK q : q = AllDropped(Tree, managers)
  OBVIOUS
<1>2. Fine(q, {}, {})
  BY <1>1, LeaveEnds DEF IInv
<1>3. Becomes(q) /\ managers' = <<>> /\ shown' = None
  BY <1>1 DEF RemoveAllManagers, AllDropped
<1>4. managers' \in Seq(Managers) /\ IsInjective(managers') /\ ToSet(managers') = {}
  BY <1>3 DEF IsInjective, ToSet
<1>5. Tree' = q
  BY <1>2, <1>3, Becoming DEF Fine, Sound
<1> QED
  BY <1>2, <1>3, <1>4, <1>5 DEF IInv

LEMMA RefreshInv ==
  ASSUME IInv, NEW m \in Managers, Refresh(m)
  PROVE  IInv'
<1> DEFINE L == ToSet(managers)
           k == WorkerCount(Tree, m)
<1>1. Fine(Tree, L, L) /\ m \in L /\ Tree \in Trees
  BY There DEF Refresh
<1>2. k \in Nat
  BY <1>1, MessageTypes DEF WorkerCount
<1>3. PICK a : a = Answered(Tree, m)
  OBVIOUS
<1>4. Fine(a, L, L)
  BY <1>1, <1>3, AnsweredIs
<1>5. PICK q : q = Visited(a, m, k)
  OBVIOUS
<1>6. Fine(q, L, L)
  <2> HIDE DEF k
  <2> QED  BY <1>2, <1>4, <1>5, VisitEnds
<1>7. Becomes(q) /\ UNCHANGED managers /\ shown' = None
  BY <1>3, <1>5 DEF Refresh, Visited
<1> QED
  BY <1>6, <1>7, Stays

LEMMA CopyWorkerInv ==
  ASSUME IInv, NEW x \in Ids, CopyWorker(x)
  PROVE  IInv'
<1> DEFINE L == ToSet(managers)
           m == Home(x)
           y == Fresh(Tree, m)
<1>1. /\ Fine(Tree, L, L) /\ Sound(Tree) /\ Tree \in Trees
      /\ m \in Managers /\ m \in L /\ Room(Tree, m) /\ kind[x] \in Kinds \ {"free"}
  <2>1. kind[x] # "free" /\ Room(Tree, Home(x))
    BY DEF CopyWorker, Present
  <2>2. Tree \in Trees
    BY There
  <2>3. kind[x] \in Kinds
    BY <2>2, TreeFields, Here
  <2> QED  BY <2>1, <2>3, There
<1>2. PICK a : a = AddWorker(Tree, m, kind[x])
  OBVIOUS
<1>3. a = Added(Tree, m, kind[x], Tree.partner, Tree.copies)
  <2> HIDE DEF m
  <2> QED  BY <1>1, <1>2, AddWorkerIs
<1>4. y \in Ids /\ Tree.kind[y] = "free"
  BY <1>1, FreshIs
<1>5. /\ Becomes(IF kind[x] = "client" THEN [a EXCEPT !.copies = @ \cup {y}]
                 ELSE IF x \notin assigned THEN a
                 ELSE IF partner[x] = None
                      THEN [a EXCEPT !.assigned = @ \cup {y}, !.up = FALSE]
                      ELSE Assign(a, y, Home(partner[x])))
      /\ UNCHANGED managers /\ shown' = shown
  BY <1>2 DEF CopyWorker
<1>6. shown' \in Ids \cup {None}
  BY <1>5 DEF IInv
<1> HIDE DEF m, y
<1>7. CASE kind[x] = "client"
  <2>1. PICK q : q = [a EXCEPT !.copies = @ \cup {y}]
    OBVIOUS
  <2>2. q = Added(Tree, m, "client", Tree.partner, Tree.copies \cup {y})
    <3> DEFINE w == [Tree.workers EXCEPT ![m] = Append(@, Fresh(Tree, m))]
               k == [Tree.kind EXCEPT ![Fresh(Tree, m)] = "client"]
               b == [Tree.inbox EXCEPT ![m] = <<>>]
               g == [Tree.grunts EXCEPT ![m] = Len(Tree.workers[m]) + 1]
    <3>1. a = Of(w, k, Tree.assigned, Tree.partner, b, g, Tree.copies, Tree.up)
      BY <1>3, <1>7 DEF Added
    <3>2. Added(Tree, m, "client", Tree.partner, Tree.copies \cup {y})
             = Of(w, k, Tree.assigned, Tree.partner, b, g, Tree.copies \cup {y}, Tree.up)
      BY DEF Added
    <3> HIDE DEF w, k, b, g
    <3> QED  BY <2>1, <3>1, <3>2 DEF Of
  <2>3. CopiedClient(Tree, m, "client", Tree.partner, Tree.copies \cup {y})
    BY DEF CopiedClient, y
  <2>4. Fine(q, L, L)
    BY <1>1, <2>2, <2>3, AddedFine
  <2>5. Becomes(q)
    BY <1>5, <1>7, <2>1
  <2> QED  BY <1>5, <1>6, <2>4, <2>5, Stays
<1>8. CASE kind[x] # "client"
  <2>1. Fine(a, L, L)
    <3>1. NoClient(Tree, kind[x], Tree.partner, Tree.copies)
      BY <1>1, <1>8 DEF NoClient, Kinds
    <3> QED  BY <1>1, <1>3, <3>1, AddedFine
  <2>2. CASE x \notin assigned
    <3>1. Becomes(a)
      BY <1>5, <1>8, <2>2
    <3> QED  BY <1>5, <1>6, <2>1, <3>1, Stays
  <2>3. CASE x \in assigned
    <3>1. kind[x] = "server"
      BY <1>1, <2>3, Here DEF Sound, InPairs
    <3>2. a.kind = [Tree.kind EXCEPT ![y] = "server"] /\ a.partner = Tree.partner
      BY <1>3, <3>1, OfFields DEF Added, y
    <3>3. a.kind[y] = "server" /\ a.partner[y] = None
      BY <1>1, <1>4, <3>2, Partner, TreeFields
    <3>4. CASE partner[x] = None
      <4>1. PICK t : t = Given(a, y)
        OBVIOUS
      <4>2. Fine(t, L, L)
        BY <1>4, <2>1, <3>3, <4>1, GivenFine
      <4>3. PICK q : q = [t EXCEPT !.up = FALSE]
        OBVIOUS
      <4>4. Fine(q, L, L)
        BY <4>2, <4>3, MarkedFine DEF Marked
      <4>5. [a EXCEPT !.assigned = @ \cup {y}, !.up = FALSE]
               = [[a EXCEPT !.assigned = @ \cup {y}] EXCEPT !.up = FALSE]
        OBVIOUS
      <4>6. Becomes(q)
        BY <1>5, <1>8, <2>3, <3>4, <4>1, <4>3, <4>5 DEF Given
      <4> QED  BY <1>5, <1>6, <4>4, <4>6, Stays
    <3>5. CASE partner[x] # None
      <4>1. PICK n : n = Home(partner[x])
        OBVIOUS
      <4>2. partner[x] \in Ids /\ kind[partner[x]] = "client"
        BY <1>1, <3>1, <3>5, Here, Partner
      <4>3. n \in Managers /\ n \in L
        BY <4>1, <4>2, There
      <4>4. PICK q : q = Assign(a, y, n)
        OBVIOUS
      <4>5. Fine(q, L, L)
        BY <1>4, <2>1, <3>3, <4>3, <4>4, AssignFine
      <4>6. Becomes(q)
        BY <1>5, <1>8, <2>3, <3>5, <4>1, <4>4
      <4> QED  BY <1>5, <1>6, <4>5, <4>6, Stays
    <3> QED  BY <3>4, <3>5
  <2> QED  BY <2>2, <2>3
<1> QED
  BY <1>7, <1>8

LEMMA DistributeTargetsInv ==
  ASSUME IInv, NEW m \in Managers, NEW chosen \in SUBSET Managers, DistributeTargets(m, chosen)
  PROVE  IInv'
<1> DEFINE L == ToSet(managers)
           targetsAt == {i \in DOMAIN managers : managers[i] \in chosen}
           serversAt == {i \in DOMAIN workers[m] : kind[workers[m][i]] = "server"}
           n == Cardinality(targetsAt)
           k == Cardinality(serversAt)
<1>1. Fine(Tree, L, L) /\ Sound(Tree) /\ Tree \in Trees /\ L \subseteq Managers
  BY There
<1>2. PICK targets : targets = At(managers, targetsAt)
  OBVIOUS
<1>3. PICK servers : servers = At(workers[m], serversAt)
  OBVIOUS
<1>4. PICK t : t = AllTargetsRemoved(Tree, m)
  OBVIOUS
<1>5. PICK q : q = Distributed(t, servers, targets)
  OBVIOUS
<1>6. /\ Becomes(q) /\ UNCHANGED managers /\ shown' = None
      /\ Len(targets) <= Len(servers)
  <2>1. /\ Becomes(Distributed(AllTargetsRemoved(Tree, m), At(workers[m], serversAt),
                               At(managers, targetsAt)))
        /\ UNCHANGED managers /\ shown' = None
        /\ Len(At(managers, targetsAt)) <= Len(At(workers[m], serversAt))
    BY DEF DistributeTargets, Distributed, Servers
  <2> HIDE DEF serversAt, targetsAt
  <2> QED  BY <1>2, <1>3, <1>4, <1>5, <2>1
<1>7. Len(targets) = n /\ n \in Nat /\ \A j \in 1 .. n : targets[j] \in L
  <2>1. managers \in Seq(Managers) /\ targetsAt \subseteq DOMAIN managers
    BY DEF IInv
  <2> HIDE DEF targetsAt
  <2>2. /\ Len(targets) = n /\ n \in Nat
        /\ \A j \in 1 .. n : \E i \in targetsAt : targets[j] = managers[i]
    BY <1>2, <2>1, Picked
  <2> QED  BY <2>1, <2>2 DEF ToSet
<1>8. /\ Len(servers) = k /\ k \in Nat
      /\ \A j \in 1 .. k : servers[j] \in Ids /\ Home(servers[j]) = m
                           /\ Tree.kind[servers[j]] = "server"
      /\ \A a, b \in 1 .. k : a # b => servers[a] # servers[b]
  <2>1. workers[m] \in Seq(Ids) /\ IsInjective(workers[m])
    BY <1>1, Here, MessageTypes DEF Sound, ListedOnce
  <2>2. \A i \in serversAt : /\ workers[m][i] \in Ids /\ Home(workers[m][i]) = m
                             /\ Tree.kind[workers[m][i]] = "server"
    BY <1>1, Here, OnList
  <2>3. serversAt \subseteq DOMAIN workers[m]
    OBVIOUS
  <2> HIDE DEF serversAt
  <2>4. /\ Len(servers) = k /\ k \in Nat
        /\ \A j \in 1 .. k : \E i \in serversAt : servers[j] = workers[m][i]
        /\ \A a, b \in 1 .. k : a # b => servers[a] # servers[b]
    BY <1>3, <2>1, <2>3, Picked
  <2> QED  BY <2>2, <2>4
<1> HIDE DEF n, k
<1>9. n <= k /\ \A j \in 1 .. n : j \in 1 .. k
  BY <1>6, <1>7, <1>8
<1>10. /\ Fine(t, L, L)
       /\ \A y \in Ids : /\ t.kind[y] = "server" <=> Tree.kind[y] = "server"
                         /\ Home(y) = m /\ Tree.kind[y] = "server" => t.partner[y] = None
  BY <1>1, <1>4, TargetEnds
<1>11. \A j \in 1 .. n : /\ servers[j] \in Ids /\ t.kind[servers[j]] = "server"
                         /\ t.partner[servers[j]] = None
                         /\ targets[j] \in Managers /\ targets[j] \in L
  BY <1>1, <1>7, <1>8, <1>9, <1>10
<1>12. Fine(q, L, L)
  <2>1. Len(targets) \in Nat /\ \A a, b \in 1 .. Len(targets) : a # b => servers[a] # servers[b]
    BY <1>7, <1>8, <1>9
  <2>2. \A j \in 1 .. Len(targets) :
           /\ servers[j] \in Ids /\ t.kind[servers[j]] = "server" /\ t.partner[servers[j]] = None
           /\ targets[j] \in Managers /\ targets[j] \in L /\ targets[j] \in L
    BY <1>7, <1>11
  <2> HIDE DEF L
  <2> QED  BY <1>5, <1>10, <2>1, <2>2, AssignEnds
<1> QED
  BY <1>6, <1>12, Stays

\* The Dynamos of all managers have read everything.
LEMMA AllAnsweredFine ==
  ASSUME NEW r, NEW L, NEW G, Fine(r, L, G), NEW q, q = AllAnswered(r, G)
  PROVE  Fine(q, L, G)
<1> DEFINE Grunts(m) == IF m \in G THEN GruntsLeft(r.grunts[m], r.inbox[m]) ELSE r.grunts[m]
           g == [m \in Managers |-> Grunts(m)]
           b == [m \in Managers |-> IF m \in G THEN <<>> ELSE r.inbox[m]]
<1>1. Sound(r) /\ r \in Trees /\ Within(r, L) /\ InTune(r, L, G)
  BY DEF Fine, Sound
<1>2. \A m \in Managers : m \in G => Grunts(m) = Len(r.workers[m])
  BY <1>1 DEF InTune
<1>3. \A m \in Managers : Len(r.workers[m]) \in 0 .. MaxWorkers
  BY <1>1, MessageTypes, Numbers DEF Sound, ListedOnce
<1>4. /\ b \in [Managers -> Seq(0 .. MaxWorkers)] /\ g \in [Managers -> 0 .. MaxWorkers]
      /\ \A m \in Managers : IF m \in G THEN b[m] = <<>> /\ g[m] = Len(r.workers[m])
                             ELSE b[m] = r.inbox[m] /\ g[m] = r.grunts[m]
  <2>1. \A m \in Managers : r.grunts[m] \in 0 .. MaxWorkers /\ r.inbox[m] \in Seq(0 .. MaxWorkers)
    BY <1>1, MessageTypes
  <2>2. <<>> \in Seq(0 .. MaxWorkers)
    OBVIOUS
  <2> QED  BY <1>2, <1>3, <2>1, <2>2
<1>5. q = [[r EXCEPT !.grunts = g] EXCEPT !.inbox = b]
  BY DEF AllAnswered
<1> HIDE DEF b, g
<1>6. q = Of(r.workers, r.kind, r.assigned, r.partner, b, g, r.copies, r.up)
  <2>1. PICK t : t = [r EXCEPT !.grunts = g]
    OBVIOUS
  <2>2. t = Of(r.workers, r.kind, r.assigned, r.partner, r.inbox, g, r.copies, r.up)
    BY <1>1, <2>1, IsOf DEF Of
  <2> QED  BY <1>5, <2>1, <2>2 DEF Of
<1>7. Sound(q) /\ q.workers = r.workers /\ q.inbox = b /\ q.grunts = g
  BY <1>1, <1>4, <1>6, Retuned
<1>8. Within(q, L)
  BY <1>1, <1>7 DEF Within
<1>9. \A m \in Managers : GruntsLeft(Len(r.workers[m]), <<>>) = Len(r.workers[m])
  BY <1>1, MessageTypes, EmptySeq, GruntsBounded
<1>10. InTune(q, L, G)
  BY <1>1, <1>4, <1>7, <1>9 DEF InTune
<1> QED
  BY <1>7, <1>8, <1>10 DEF Fine

LEMMA RunTestInv ==
  ASSUME IInv, RunTest
  PROVE  IInv'
<1> DEFINE L == ToSet(managers)
           B == \A x \in Present : kind[x] = "client" \/ x \in assigned => partner[x] # None
<1>1. PICK a : a = AllAnswered(Tree, L)
  OBVIOUS
<1>2. Fine(a, L, L)
  BY <1>1, There, AllAnsweredFine
<1>3. PICK q : q = [a EXCEPT !.up = B]
  OBVIOUS
<1>4. Becomes(q) /\ UNCHANGED managers /\ shown' \in Ids \cup {None}
  BY <1>1, <1>3 DEF RunTest, Present
<1>5. Marked(a, q)
  <2>1. CASE B
    <3>1. B = TRUE
      BY <2>1
    <3> HIDE DEF B
    <3> QED  BY <1>3, <3>1 DEF Marked
  <2>2. CASE ~B
    <3>1. B = FALSE
      BY <2>2
    <3> HIDE DEF B
    <3> QED  BY <1>3, <3>1 DEF Marked
  <2> QED  BY <2>1, <2>2
<1>6. Fine(q, L, L)
  BY <1>2, <1>5, MarkedFine
<1> QED
  BY <1>4, <1>6, Stays

LEMMA JoinInv ==
  ASSUME IInv, NEW m \in Managers, Join(m)
  PROVE  IInv'
<1> DEFINE L == ToSet(managers)
           N == L \cup {m}
<1>1. /\ Fine(Tree, L, L) /\ Sound(Tree) /\ Within(Tree, L) /\ InTune(Tree, L, L)
      /\ m \notin L /\ Tree.inbox[m] = <<>>
  BY There, Here DEF Join, Fine
<1>2. PICK d \in Defaults : Len(d) <= MaxWorkers /\ Becomes(WithDefaults(Tree, m, d))
  BY DEF Join, WithDefaults
<1>3. d \in Seq({"disk", "server"})
  BY PartnersAssumption DEF PartnersAssumption
<1>4. managers' = Append(managers, m) /\ UNCHANGED shown
  BY DEF Join
<1>5. Tree.workers[m] = <<>>
  BY <1>1 DEF Within
<1>6. Fine(Tree, N, N)
  <2>1. GruntsLeft(Tree.grunts[m], Tree.inbox[m]) = Len(Tree.workers[m])
    <3>1. Tree.grunts[m] = 0
      BY <1>1 DEF InTune, ToSet
    <3>2. Len(Tree.workers[m]) = 0 /\ <<>> \in Seq(Nat)
      BY <1>5, EmptySeq
    <3> QED  BY <1>1, <3>1, <3>2, GruntsBounded
  <2>2. Within(Tree, N)
    BY <1>1 DEF Within
  <2>3. InTune(Tree, N, N)
    BY <1>1, <2>1 DEF InTune
  <2> QED  BY <1>1, <2>2, <2>3 DEF Fine
<1>7. PICK q : q = WithDefaults(Tree, m, d)
  OBVIOUS
<1>8. Fine(q, N, N)
  <2>1. m \in N
    OBVIOUS
  <2> HIDE DEF N
  <2> QED  BY <1>2, <1>3, <1>5, <1>6, <1>7, <2>1, AddEnds
<1>9. Tree' = q
  BY <1>2, <1>7, <1>8, Becoming DEF Fine, Sound
<1>10. managers' \in Seq(Managers) /\ IsInjective(managers') /\ ToSet(managers') = N
  BY <1>1, <1>4, AppendOnce DEF IInv
<1> QED
  BY <1>4, <1>8, <1>9, <1>10 DEF IInv

LEMMA ServeInv ==
  ASSUME IInv, NEW m \in Managers, Serve(m)
  PROVE  IInv'
<1> DEFINE L == ToSet(managers)
           n == grunts[m]
           s == inbox[m]
           k == Without(n, Head(s))
           rest == IF Head(s) = All THEN <<>> ELSE Tail(s)
           g == [grunts EXCEPT ![m] = k]
           b == [inbox EXCEPT ![m] = rest]
<1>1. /\ Fine(Tree, L, L) /\ Sound(Tree) /\ Tree \in Trees
      /\ Within(Tree, L) /\ InTune(Tree, L, L)
  BY There DEF Fine
<1>2. n \in 0 .. MaxWorkers /\ s \in Seq(0 .. MaxWorkers) /\ s \in Seq(Nat) /\ s # <<>>
  BY <1>1, Here, MessageTypes DEF Serve
<1>3. /\ Head(s) \in 0 .. MaxWorkers /\ Tail(s) \in Seq(0 .. MaxWorkers)
      /\ Tail(s) \in Seq(Nat)
      /\ rest \in Seq(0 .. MaxWorkers) /\ Head(s) \in ToSet(s)
  <2> HIDE DEF s
  <2>1. Head(s) \in 0 .. MaxWorkers /\ Tail(s) \in Seq(0 .. MaxWorkers) /\ Tail(s) \in Seq(Nat)
    BY <1>2, HeadTailProperties
  <2>2. 1 \in DOMAIN s /\ s[1] = Head(s)
    <3>1. 1 \in DOMAIN s
      BY <1>2, TailIs
    <3>2. s[1] = Head(s)
      BY <1>2
    <3> QED  BY <3>1, <3>2
  <2>3. <<>> \in Seq(0 .. MaxWorkers)
    OBVIOUS
  <2> QED  BY <2>1, <2>2, <2>3 DEF ToSet
<1>4. k \in 0 .. MaxWorkers
  <2> HIDE DEF n, s
  <2> QED  BY <1>2, <1>3, Numbers DEF Without
<1>5. Head(s) = All => k = 0
  <2> HIDE DEF n, s
  <2> QED  BY <1>2, Numbers DEF Without
<1>6. GruntsLeft(k, rest) = GruntsLeft(n, s)
  <2> HIDE DEF n, s
  <2>1. GruntsLeft(n, s) = GruntsLeft(k, Tail(s)) /\ k \in Nat
    BY <1>2, <1>4, GruntsRead
  <2>2. CASE Head(s) = All
    <3>1. GruntsLeft(0, Tail(s)) \in 0 .. 0 /\ GruntsLeft(0, <<>>) = 0
      BY <1>3, EmptySeq, GruntsBounded
    <3>2. k = 0 /\ rest = <<>>
      BY <1>5, <2>2
    <3> HIDE DEF k, rest
    <3> QED  BY <2>1, <3>1, <3>2
  <2>3. CASE Head(s) # All
    BY <2>1, <2>3
  <2> QED  BY <2>2, <2>3
<1>7. \/ Head(s) = All /\ rest = <<>> /\ k = 0
      \/ Head(s) # All /\ (All \in ToSet(s) => All \in ToSet(rest))
  <2>1. CASE Head(s) = All
    BY <1>5, <2>1
  <2>2. CASE Head(s) # All
    <3>1. rest = Tail(s)
      BY <2>2
    <3> HIDE DEF s, rest
    <3>2. ASSUME All \in ToSet(s) PROVE All \in ToSet(Tail(s))
      <4>1. PICK i \in DOMAIN s : s[i] = All
        BY <3>2 DEF ToSet
      <4>2. i \in 2 .. Len(s)
        BY <1>2, <2>2, <4>1
      <4>3. i - 1 \in DOMAIN Tail(s) /\ Tail(s)[i - 1] = All
        BY <1>2, <4>1, <4>2
      <4> QED  BY <4>3 DEF ToSet
    <3> QED  BY <2>2, <3>1, <3>2
  <2> QED  BY <2>1, <2>2
<1>8. grunts' = g /\ inbox' = b
  BY DEF Serve
<1>9. /\ g \in [Managers -> 0 .. MaxWorkers] /\ b \in [Managers -> Seq(0 .. MaxWorkers)]
      /\ g[m] = k /\ b[m] = rest
      /\ \A o \in Managers : o # m => g[o] = grunts[o] /\ b[o] = inbox[o]
  <2>1. /\ grunts \in [Managers -> 0 .. MaxWorkers]
        /\ inbox \in [Managers -> Seq(0 .. MaxWorkers)]
    BY <1>1, Here, TreeFields
  <2> HIDE DEF k, rest
  <2> QED  BY <1>3, <1>4, <2>1
<1>10. UNCHANGED <<managers, workers, kind, assigned, partner, shown, copies, up>>
  BY DEF Serve
<1> HIDE DEF g, b, k, rest
<1>11. PICK q : q = Of(Tree.workers, Tree.kind, Tree.assigned, Tree.partner, b, g,
                       Tree.copies, Tree.up)
  OBVIOUS
<1>12. Tree' = q
  <2>1. Tree' = Of(workers', kind', assigned', partner', inbox', grunts', copies', up')
    BY DEF Tree, Of
  <2> QED  BY <1>8, <1>10, <1>11, <2>1, Here
<1>13. Sound(q) /\ q.workers = Tree.workers /\ q.inbox = b /\ q.grunts = g
  BY <1>1, <1>9, <1>11, Retuned
<1>14. Within(q, L)
  BY <1>1, <1>13 DEF Within
<1>15. InTune(q, L, L)
  <2> SUFFICES ASSUME NEW o \in Managers
               PROVE  IF o \in L THEN GruntsLeft(q.grunts[o], q.inbox[o]) = Len(q.workers[o])
                      ELSE \/ All \in ToSet(q.inbox[o])
                           \/ o \notin L /\ q.inbox[o] = <<>> /\ q.grunts[o] = 0
    BY DEF InTune
  <2>1. CASE o # m
    BY <1>1, <1>9, <1>13, <2>1, Here DEF InTune
  <2>2. CASE o = m
    <3>1. q.grunts[m] = k /\ q.inbox[m] = rest /\ q.workers[m] = Tree.workers[m]
      BY <1>9, <1>13
    <3>2. CASE m \in L
      <4>1. GruntsLeft(n, s) = Len(Tree.workers[m])
        BY <1>1, <3>2, Here DEF InTune
      <4> QED  BY <1>6, <2>2, <3>1, <3>2, <4>1
    <3>3. CASE m \notin L
      <4>1. All \in ToSet(s)
        BY <1>1, <1>2, <3>3, Here DEF InTune
      <4> QED  BY <1>7, <2>2, <3>1, <3>3, <4>1
    <3> QED  BY <2>2, <3>2, <3>3
  <2> QED  BY <2>1, <2>2
<1> QED
  BY <1>10, <1>12, <1>13, <1>14, <1>15 DEF IInv, Fine

\* Nothing else changes the tree.
LEMMA NextInv == IInv /\ [Next]_vars => IInv'
<1> SUFFICES ASSUME IInv, [Next]_vars PROVE IInv'
  OBVIOUS
<1>1. ASSUME NEW m \in Managers, NEW k \in {"disk", "server"}, NewWorker(m, k) PROVE IInv'
  BY <1>1, NewWorkerInv
<1>2. ASSUME NEW m \in Managers, NEW chosen \in SUBSET Managers, DistributeTargets(m, chosen)
      PROVE  IInv'
  BY <1>2, DistributeTargetsInv
<1>3. ASSUME NEW m \in Managers, ExitManager(m) PROVE IInv'
  BY <1>3, ExitManagerInv
<1>4. ASSUME NEW m \in Managers, Refresh(m) PROVE IInv'
  BY <1>4, RefreshInv
<1>5. ASSUME NEW m \in Managers, Join(m) PROVE IInv'
  BY <1>5, JoinInv
<1>6. ASSUME NEW m \in Managers, Serve(m) PROVE IInv'
  BY <1>6, ServeInv
<1>7. ASSUME NEW x \in Ids, CopyWorker(x) PROVE IInv'
  BY <1>7, CopyWorkerInv
<1>8. ASSUME NEW x \in Ids, ExitWorker(x) PROVE IInv'
  BY <1>8, ExitWorkerInv
<1>9. ASSUME NEW x \in Ids, NEW m \in Managers \cup {None}, SelectTarget(x, m) PROVE IInv'
  BY <1>9, SelectTargetInv
<1>10. CASE RemoveAllManagers
  BY <1>10, RemoveAllManagersInv
<1>11. CASE RunTest
  BY <1>11, RunTestInv
<1>12. CASE UNCHANGED vars
  <2>1. Tree' = Tree
    BY <1>12 DEF vars, tree, Tree
  <2> QED  BY <1>12, <2>1 DEF vars, IInv
<1> QED
  BY <1>1, <1>2, <1>3, <1>4, <1>5, <1>6, <1>7, <1>8, <1>9, <1>10, <1>11, <1>12 DEF Next

\* The invariant is inductive: methods, loops and messages keep the tree fine.
THEOREM InductiveInvariant == Spec => []IInv
<1> QED  BY InitInv, NextInv, PTL DEF Spec

-----------------------------------------------------------------------------
(* What the invariant gives.                                               *)

\* Every variable keeps its type, whatever methods do to the tree.
THEOREM TypeCorrect == Spec => []TypeOK
<1>1. IInv => TypeOK
  <2> SUFFICES ASSUME IInv PROVE TypeOK
    OBVIOUS
  <2>1. Tree \in Trees
    BY There
  <2> QED  BY <2>1, TreeFields, Here DEF IInv, TypeOK, Kinds
<1> QED  BY <1>1, InductiveInvariant, PTL

\* A worker is on the list of its manager, or free.
LEMMA OnOneList ==
  ASSUME IInv, NEW x \in Ids
  PROVE  Cardinality({m \in Managers : x \in ToSet(workers[m])})
            = IF kind[x] = "free" THEN 0 ELSE 1
<1>1. Sound(Tree) /\ Home(x) \in Managers
  BY There, Numbers
<1>2. \A m \in Managers : x \in ToSet(workers[m]) => m = Home(x)
  BY <1>1, Here DEF Sound, ListedOnce, ToSet
<1>3. kind[x] = "free" <=> x \notin ToSet(workers[Home(x)])
  BY <1>1, Here DEF Sound, ListedOnce
<1> DEFINE T == {m \in Managers : x \in ToSet(workers[m])}
<1>4. CASE kind[x] = "free"
  <2>1. T = {}
    BY <1>2, <1>3, <1>4
  <2> QED  BY <1>4, <2>1, FS_EmptySet
<1>5. CASE kind[x] # "free"
  <2>1. T = {Home(x)}
    BY <1>1, <1>2, <1>3, <1>5
  <2> QED  BY <1>5, <2>1, FS_Singleton
<1> QED
  BY <1>4, <1>5

\* What the invariant says of the pairs.
LEMMA PairsAreWhole ==
  ASSUME IInv
  PROVE  PairsWhole
<1>1. Sound(Tree) /\ Within(Tree, ToSet(managers)) /\ \A m : Listed(m) <=> m \in ToSet(managers)
  BY There DEF Fine
<1>2. \A m \in Managers : IsInjective(workers[m]) /\ (workers[m] # <<>> => Listed(m))
  BY <1>1, Here DEF Sound, ListedOnce, Within
<1>3. \A x \in Ids :
         /\ x \in assigned => kind[x] = "server"
         /\ kind[x] = "client" => (partner[x] = None <=> x \in copies)
  BY <1>1, Here DEF Sound, InPairs
<1>4. ASSUME NEW x \in Ids, partner[x] # None
      PROVE  /\ partner[partner[x]] = x
             /\ {kind[x], kind[partner[x]]} = {"server", "client"}
             /\ kind[x] = "server" => x \in assigned
  <2>1. /\ partner[partner[x]] = x
        /\ \/ kind[x] = "server" /\ kind[partner[x]] = "client" /\ x \in assigned
           \/ kind[x] = "client" /\ kind[partner[x]] = "server"
    BY <1>1, <1>4, Here DEF Sound, InPairs
  <2> QED  BY <2>1
<1>5. \A m \in Managers : \A i, j \in DOMAIN workers[m] :
         partner[workers[m][i]] = workers[m][j] /\ kind[workers[m][j]] = "client" => i < j
  BY <1>1, Here DEF Sound, ServersFirst
<1> QED  BY <1>2, <1>3, <1>4, <1>5, OnOneList DEF PairsWhole

\* The pairs of servers and clients hold together whatever is added, copied,
\* assigned or removed.
THEOREM PairsHoldTogether == Spec => []PairsWhole
<1>1. IInv => PairsWhole
  BY PairsAreWhole
<1> QED  BY <1>1, InductiveInvariant, PTL

\* A Dynamo that has read what was sent has a grunt for every worker of its
\* manager, and none when it has no manager.
THEOREM DynamosInStep == Spec => []InStep
<1>1. IInv => InStep
  <2> SUFFICES ASSUME IInv, NEW m \in Managers
               PROVE  /\ Listed(m) => Answered(Tree, m).grunts[m] = Len(workers[m])
                      /\ ~Listed(m) /\ inbox[m] = <<>> => grunts[m] = 0
    BY DEF InStep
  <2>1. /\ Fine(Tree, ToSet(managers), ToSet(managers)) /\ Tree \in Trees
        /\ Listed(m) <=> m \in ToSet(managers)
    BY There
  <2>2. ASSUME Listed(m) PROVE Answered(Tree, m).grunts[m] = Len(workers[m])
    <3>1. PICK q : q = Answered(Tree, m)
      OBVIOUS
    <3>2. q.grunts = [Tree.grunts EXCEPT ![m] = Len(Tree.workers[m])]
      <4>1. q = Of(Tree.workers, Tree.kind, Tree.assigned, Tree.partner,
                   [Tree.inbox EXCEPT ![m] = <<>>],
                   [Tree.grunts EXCEPT ![m] = Len(Tree.workers[m])], Tree.copies, Tree.up)
        BY <2>1, <2>2, <3>1, AnsweredIs
      <4> QED  BY <4>1, OfFields
    <3>3. q.grunts[m] = Len(workers[m])
      BY <2>1, <3>2, TreeFields, Here
    <3> QED  BY <3>1, <3>3
  <2>3. ASSUME ~Listed(m), inbox[m] = <<>> PROVE grunts[m] = 0
    <3>1. InTune(Tree, ToSet(managers), ToSet(managers))
      BY <2>1 DEF Fine
    <3>2. ToSet(<<>>) = {}
      BY DEF ToSet
    <3> QED  BY <2>1, <2>3, <3>1, <3>2, Here DEF InTune
  <2> QED  BY <2>2, <2>3
<1> QED  BY <1>1, InductiveInvariant, PTL

-----------------------------------------------------------------------------
(* The first hit of a search, and a list with one element less.            *)

\* SelectInSeq returns the lowest place, or 0.
LEMMA Lowest ==
  ASSUME NEW n \in Nat, NEW I, I \subseteq 1 .. n,
         NEW k, k = IF I # {} THEN Min(I) ELSE 0
  PROVE  /\ I = {} => k = 0
         /\ I # {} => k \in I /\ k # 0 /\ \A j \in I : ~(j < k)
<1>1. CASE I = {}
  BY <1>1
<1>2. CASE I # {}
  <2>1. I \subseteq Nat /\ \A j \in I : j # 0 /\ j \in Int
    OBVIOUS
  <2>2. PICK a \in I : \A j \in I : ~(j < a)
    BY <1>2, <2>1, Smallest
  <2>3. \A j \in I : a <= j
    BY <2>1, <2>2
  <2>4. PICK h \in I : h = Min(I) /\ \A j \in I : h <= j
    BY <2>3 DEF Min
  <2>5. h # 0 /\ \A j \in I : ~(j < h)
    BY <2>1, <2>4
  <2> QED  BY <1>2, <2>4, <2>5
<1> QED
  BY <1>1, <1>2

\* Without e, the places after it move up by one.
LEMMA RankLess ==
  ASSUME NEW k \in Nat, NEW places, places \subseteq 1 .. k, NEW e \in places
  PROVE  /\ Cardinality(places \ {e}) = Cardinality(places) - 1
         /\ \A i \in places \ {e} :
               Rank(places \ {e}, i) = IF e < i THEN Rank(places, i) - 1 ELSE Rank(places, i)
<1> DEFINE Before(i) == {j \in places : j < i}
           BeforeNow(i) == {j \in places \ {e} : j < i}
<1>1. IsFiniteSet(places)
  BY Ranks
<1>2. Cardinality(places \ {e}) = Cardinality(places) - 1
  BY <1>1, FS_RemoveElement
<1>3. ASSUME NEW i \in places \ {e}
      PROVE  Cardinality(BeforeNow(i)) = IF e < i THEN Cardinality(Before(i)) - 1
                                         ELSE Cardinality(Before(i))
  <2>1. CASE e < i
    <3>1. e \in Before(i) /\ BeforeNow(i) = Before(i) \ {e} /\ Before(i) \in SUBSET places
      BY <2>1
    <3> HIDE DEF Before, BeforeNow
    <3>2. IsFiniteSet(Before(i))
      BY <1>1, <3>1, FS_Subset
    <3> QED  BY <2>1, <3>1, <3>2, FS_RemoveElement
  <2>2. CASE ~(e < i)
    <3>1. BeforeNow(i) = Before(i)
      BY <2>2
    <3> HIDE DEF Before, BeforeNow
    <3> QED  BY <2>2, <3>1
  <2> QED  BY <2>1, <2>2
<1>4. \A i : Rank(places, i) = Cardinality(Before(i))
             /\ Rank(places \ {e}, i) = Cardinality(BeforeNow(i))
  BY DEF Rank
<1> HIDE DEF Before, BeforeNow
<1> QED
  BY <1>2, <1>3, <1>4

\* Without e, the places after it come one earlier.
LEMMA SpotLess ==
  ASSUME NEW k \in Nat, NEW places, places \subseteq 1 .. k, NEW e \in places
  PROVE  \A n \in 1 .. Cardinality(places) - 1 :
            Spot(places \ {e}, n) = IF n < Rank(places, e) + 1 THEN Spot(places, n)
                                    ELSE Spot(places, n + 1)
<1> DEFINE c == Cardinality(places)
           Q == places \ {e}
           l == Rank(places, e)
<1>1. /\ c \in Nat /\ l \in 0 .. c - 1 /\ e \in Int
      /\ \A i \in places : Rank(places, i) \in 0 .. c - 1 /\ i \in Int
      /\ \A i, j \in places : i < j => Rank(places, i) < Rank(places, j)
  <2>1. \A i \in places : i \in Int
    OBVIOUS
  <2> QED  BY <2>1, Ranks
<1>2. \A n \in 1 .. c : Spot(places, n) \in places /\ Rank(places, Spot(places, n)) = n - 1
  BY Spots
<1>3. \A i \in Q : Rank(Q, i) = IF e < i THEN Rank(places, i) - 1 ELSE Rank(places, i)
  BY RankLess
<1>4. \A i \in Q : Spot(Q, Rank(Q, i) + 1) = i
  <2>1. Q \subseteq 1 .. k
    OBVIOUS
  <2> HIDE DEF Q
  <2> QED  BY <2>1, SpotOf
<1>5. \A i \in Q : i \in places /\ i # e
  OBVIOUS
<1>6. \A i \in places : i # e => i \in Q
  OBVIOUS
<1> HIDE DEF Q, c, l
<1>7. ASSUME NEW n \in 1 .. c - 1
      PROVE  Spot(Q, n) = IF n < l + 1 THEN Spot(places, n) ELSE Spot(places, n + 1)
  <2>1. n \in 1 .. c /\ n + 1 \in 1 .. c /\ n \in Int
    BY <1>1
  <2>2. CASE n < l + 1
    <3>1. PICK i \in places : i = Spot(places, n) /\ Rank(places, i) = n - 1
      BY <1>2, <2>1
    <3>2. Rank(places, e) = l /\ n - 1 < l
      BY <1>1, <2>2 DEF l
    <3>3. i # e /\ ~(e < i)
      BY <1>1, <3>1, <3>2
    <3>4. Rank(Q, i) = n - 1
      BY <1>3, <1>6, <3>1, <3>3
    <3>5. Rank(Q, i) + 1 = n
      BY <2>1, <3>4
    <3> QED  BY <1>4, <1>6, <2>2, <3>1, <3>3, <3>5
  <2>3. CASE ~(n < l + 1)
    <3>1. PICK i \in places : i = Spot(places, n + 1) /\ Rank(places, i) = n
      <4>1. PICK h \in 1 .. c : h = n + 1
        BY <2>1
      <4>2. Rank(places, Spot(places, h)) = n
        BY <1>2, <2>1, <4>1
      <4> QED  BY <1>2, <4>1, <4>2
    <3>2. Rank(places, e) = l /\ l < n
      BY <1>1, <2>1, <2>3 DEF l
    <3>3. i # e /\ e < i
      BY <1>1, <3>1, <3>2
    <3>4. Rank(Q, i) = n - 1
      BY <1>3, <1>6, <3>1, <3>3
    <3>5. Rank(Q, i) + 1 = n
      BY <2>1, <3>4
    <3> QED  BY <1>4, <1>6, <2>3, <3>1, <3>3, <3>5
  <2> QED  BY <2>2, <2>3
<1> QED
  BY <1>7 DEF Q, c, l

\* If t is as s at all places but e, what At picks of t without e is what it picks of s
\* with one element removed.
LEMMA PickedLess ==
  ASSUME NEW S, NEW s \in Seq(S), NEW t \in Seq(S), NEW places, places \subseteq DOMAIN s,
         DOMAIN t = DOMAIN s, NEW e \in places, \A i \in places : i # e => t[i] = s[i]
  PROVE  /\ Rank(places, e) + 1 \in DOMAIN At(s, places)
         /\ At(t, places \ {e}) = RemoveAt(At(s, places), Rank(places, e) + 1)
<1> DEFINE l == Rank(places, e) + 1
           a == At(s, places)
           b == At(t, places \ {e})
           d == RemoveAt(a, l)
           c == Cardinality(places)
<1>1. Len(s) \in Nat /\ DOMAIN s = 1 .. Len(s) /\ places \ {e} \subseteq DOMAIN t
  OBVIOUS
<1>2. c \in Nat /\ l \in 1 .. c
  BY <1>1, SpotOf, Spots
<1>3. /\ a \in Seq(S) /\ Len(a) = c
      /\ \A n \in 1 .. Len(a) : Spot(places, n) \in places /\ a[n] = s[Spot(places, n)]
  BY Selected
<1>4. /\ b \in Seq(S) /\ Len(b) = c - 1
      /\ \A n \in 1 .. Len(b) : /\ Spot(places \ {e}, n) \in places \ {e}
                                /\ b[n] = t[Spot(places \ {e}, n)]
  <2>1. Cardinality(places \ {e}) = c - 1
    BY <1>1, RankLess
  <2> QED  BY <1>1, <2>1, Selected
<1>5. l \in DOMAIN a
  BY <1>2, <1>3
<1>6. /\ d \in Seq(S) /\ Len(d) = c - 1
      /\ \A n \in 1 .. Len(d) : d[n] = IF n < l THEN a[n] ELSE a[n + 1]
  <2> HIDE DEF a, l, c
  <2> QED  BY <1>3, <1>5, OneRemoved
<1>7. \A n \in 1 .. c - 1 : Spot(places \ {e}, n) = IF n < l THEN Spot(places, n)
                                                    ELSE Spot(places, n + 1)
  BY <1>1, SpotLess
<1> HIDE DEF a, b, d, l, c
<1>8. ASSUME NEW n \in 1 .. c - 1 PROVE b[n] = d[n]
  <2>1. n \in 1 .. c /\ n + 1 \in 1 .. c
    BY <1>2
  <2>2. b[n] = t[Spot(places \ {e}, n)] /\ Spot(places \ {e}, n) \in places \ {e}
    BY <1>4
  <2>3. b[n] = s[Spot(places \ {e}, n)]
    BY <2>2
  <2>4. d[n] = IF n < l THEN a[n] ELSE a[n + 1]
    BY <1>6
  <2>5. a[n] = s[Spot(places, n)] /\ a[n + 1] = s[Spot(places, n + 1)]
    BY <1>3, <2>1
  <2> QED  BY <1>7, <2>3, <2>4, <2>5
<1>9. b = d
  BY <1>4, <1>6, <1>8, SeqEqual
<1> QED
  BY <1>5, <1>9 DEF a, b, d, l
-----------------------------------------------------------------------------
(* The map of managers and the dialog.                                     *)

NamesOfAll == {who[m].name : m \in Managers}
\* What a map is made of.
Entries ==
    [name : NamesOfAll \cup {Local}, id : Nat, addr : {"", "local", "remote"},
     mgr : Managers \cup {None}]
\* A manager that is found stands for one entry, of its name and address.
Agreed(map) ==
    \A i, j \in DOMAIN map :
        /\ map[i].mgr # None => /\ IsLocal(map[i]) \/ IsCalled(map[i], map[i].mgr)
                                /\ map[j].mgr = map[i].mgr => i = j
        /\ IsLocal(map[i]) => Len(map) = 1

\* The places of the managers that are waited for, and the list of these.
Waits(map) == {i \in DOMAIN map : map[i].mgr = None}
\* The list of managers still awaited, by the places in the map.
LEMMA WaitsAre ==
  ASSUME NEW map
  PROVE  Unassigned(map) = At(map, Waits(map))
<1> QED
  BY DEF Unassigned, Those, Waits

\* Which places two searches look for.
Calls(map, m) ==
    {i \in 1 .. Len(map) : (map[i].mgr = None /\ IsCalled(map[i], m)) \/ IsLocal(map[i])}
Shows(list, m) == {i \in 1 .. Len(list) : IsCalled(list[i], m) \/ IsLocal(list[i])}
\* What the two searches of the dialog return.
LEMMA Searches ==
  ASSUME NEW list, Len(list) \in Nat, NEW m
  PROVE  /\ Calls(list, m) = {} => LoggedIn(list, m) = 0
         /\ Calls(list, m) # {} => /\ LoggedIn(list, m) \in Calls(list, m) /\ LoggedIn(list, m) # 0
                                   /\ \A j \in Calls(list, m) : ~(j < LoggedIn(list, m))
         /\ Shows(list, m) = {} => Found(list, m) = 0
         /\ Shows(list, m) # {} => /\ Found(list, m) \in Shows(list, m) /\ Found(list, m) # 0
                                   /\ \A j \in Shows(list, m) : ~(j < Found(list, m))
<1> DEFINE C == Calls(list, m)
           S == Shows(list, m)
<1>1. /\ LoggedIn(list, m) = IF C # {} THEN Min(C) ELSE 0
      /\ Found(list, m) = IF S # {} THEN Min(S) ELSE 0
  BY DEF LoggedIn, Found, SelectInSeq, Calls, Shows
<1>2. C \subseteq 1 .. Len(list) /\ S \subseteq 1 .. Len(list)
  BY DEF Calls, Shows
<1> HIDE DEF C, S
<1>3. /\ C = {} => LoggedIn(list, m) = 0
      /\ C # {} => /\ LoggedIn(list, m) \in C /\ LoggedIn(list, m) # 0
                   /\ \A j \in C : ~(j < LoggedIn(list, m))
  BY <1>1, <1>2, Lowest
<1>4. /\ S = {} => Found(list, m) = 0
      /\ S # {} => /\ Found(list, m) \in S /\ Found(list, m) # 0
                   /\ \A j \in S : ~(j < Found(list, m))
  BY <1>1, <1>2, Lowest
<1> QED
  BY <1>3, <1>4 DEF C, S

\* A manager logs in, and the map is looked through for it.
Entered(map, e, m) == IF e = 0 THEN map ELSE [map EXCEPT ![e].mgr = m]
\* The map with a manager entered at e.
LEMMA EnteredIs ==
  ASSUME NEW map \in Seq(Entries), NEW e \in DOMAIN map, e # 0, NEW m \in Managers,
         NEW new, new = Entered(map, e, m)
  PROVE  /\ new \in Seq(Entries) /\ DOMAIN new = DOMAIN map /\ Len(new) = Len(map)
         /\ new[e] = [map[e] EXCEPT !.mgr = m]
         /\ \A i \in DOMAIN map : i # e => new[i] = map[i]
<1>1. map[e] \in Entries
  OBVIOUS
<1>2. [map[e] EXCEPT !.mgr = m] \in Entries
  BY <1>1 DEF Entries
<1>3. PICK x \in Entries : x = [map[e] EXCEPT !.mgr = m]
  BY <1>2
<1>4. new = [map EXCEPT ![e] = x]
  BY <1>3 DEF Entered
<1> QED
  BY <1>3, <1>4

\* The logins keep the dialog's list and the map in step.
LEMMA MapLogsIn ==
  ASSUME NEW map \in Seq(Entries), Agreed(map), IsWaitingList(map),
         NEW m \in Managers, \A i \in DOMAIN map : map[i].mgr # m,
         NEW e, e = LoggedIn(map, m), NEW new, new = Entered(map, e, m),
         NEW l, l = IF e # 0 THEN Found(Unassigned(map), m) ELSE 0
  PROVE  /\ new \in Seq(Entries) /\ DOMAIN new = DOMAIN map
         /\ \A i \in DOMAIN map : /\ new[i].name = map[i].name /\ new[i].id = map[i].id
                                  /\ new[i].mgr \in {map[i].mgr, m}
         /\ Agreed(new)
         /\ Unassigned(new) = IF l = 0 THEN Unassigned(map) ELSE RemoveAt(Unassigned(map), l)
<1> DEFINE U == Waits(map)
           list == At(map, U)
<1>1. /\ Len(map) \in Nat /\ DOMAIN map = 1 .. Len(map) /\ U \subseteq DOMAIN map
      /\ Unassigned(map) = list
  BY WaitsAre DEF Waits
<1>2. CASE e = 0
  BY <1>1, <1>2 DEF Entered
<1>3. CASE e # 0
  <2>1. e \in Calls(map, m) /\ \A j \in Calls(map, m) : ~(j < e)
    <3>1. Calls(map, m) # {}
      BY <1>1, <1>3, Searches
    <3> QED  BY <1>1, <3>1, Searches
  <2>2. e \in DOMAIN map /\ map[e].mgr = None /\ (IsCalled(map[e], m) \/ IsLocal(map[e]))
    <3>1. e \in DOMAIN map /\ (IsLocal(map[e]) \/ (map[e].mgr = None /\ IsCalled(map[e], m)))
      BY <1>1, <2>1 DEF Calls
    <3>2. IsLocal(map[e]) => map[e].mgr = None
      <4> SUFFICES ASSUME IsLocal(map[e]) PROVE map[e].mgr = None
        OBVIOUS
      <4>1. Len(map) = 1
        BY <3>1 DEF Agreed
      <4>2. \A i \in DOMAIN map : i = e
        BY <1>1, <3>1, <4>1
      <4>3. \E i \in DOMAIN map : map[i].mgr = None
        BY DEF IsWaitingList, ToSet
      <4> QED  BY <4>2, <4>3
    <3> QED  BY <3>1, <3>2
  <2>3. e \in U
    BY <2>2 DEF Waits
  <2>4. /\ new \in Seq(Entries) /\ DOMAIN new = DOMAIN map /\ Len(new) = Len(map)
        /\ new[e] = [map[e] EXCEPT !.mgr = m]
        /\ \A i \in DOMAIN map : i # e => new[i] = map[i]
    BY <1>3, <2>2, EnteredIs
  <2>5. /\ new[e].name = map[e].name /\ new[e].id = map[e].id
        /\ new[e].addr = map[e].addr /\ new[e].mgr = m
    <3>1. map[e] \in Entries
      BY <2>2
    <3> QED  BY <2>4, <3>1 DEF Entries
  <2>6. None \notin Managers
    BY PartnersAssumption DEF PartnersAssumption
  <2>7. Waits(new) = U \ {e}
    <3>1. \A i : i \in Waits(new) <=> i \in DOMAIN map /\ new[i].mgr = None
      BY <2>4 DEF Waits
    <3>2. \A i : i \in U <=> i \in DOMAIN map /\ map[i].mgr = None
      BY DEF Waits
    <3>3. new[e].mgr # None
      BY <2>5, <2>6
    <3> HIDE DEF U
    <3>4. ASSUME NEW i PROVE i \in Waits(new) <=> i \in U \ {e}
      <4>1. CASE i = e
        BY <3>1, <3>3, <4>1
      <4>2. CASE i # e
        BY <2>4, <3>1, <3>2, <4>2
      <4> QED  BY <4>1, <4>2
    <3> QED  BY <3>4
  <2>8. PICK h : h = Rank(U, e) + 1 /\ h \in DOMAIN list /\ Unassigned(new) = RemoveAt(list, h)
    <3>1. \A i \in U : i # e => new[i] = map[i]
      BY <1>1, <2>4
    <3>2. Rank(U, e) + 1 \in DOMAIN list /\ At(new, U \ {e}) = RemoveAt(list, Rank(U, e) + 1)
      <4>1. U \subseteq DOMAIN map /\ new \in Seq(Entries) /\ DOMAIN new = DOMAIN map
        BY <1>1, <2>4
      <4> HIDE DEF U
      <4> QED  BY <2>3, <3>1, <4>1, PickedLess
    <3> QED  BY <2>7, <3>2, WaitsAre
  <2>9. l = h
    <3>1. /\ list \in Seq(Entries) /\ Len(list) \in Nat /\ DOMAIN list = 1 .. Len(list)
          /\ Len(list) = Cardinality(U)
          /\ \A n \in 1 .. Len(list) : Spot(U, n) \in U /\ list[n] = map[Spot(U, n)]
      BY <1>1, Selected
    <3>2. list[h] = map[e]
      <4>1. Spot(U, h) = e
        <5> HIDE DEF U
        <5> QED  BY <1>1, <2>3, <2>8, SpotOf
      <4> HIDE DEF U, list
      <4> QED  BY <2>8, <3>1, <4>1
    <3>3. h \in Shows(list, m)
      BY <2>2, <2>8, <3>1, <3>2 DEF Shows
    <3>4. ASSUME NEW n \in Shows(list, m) PROVE ~(n < h)
      <4>1. n \in 1 .. Len(list) /\ (IsCalled(list[n], m) \/ IsLocal(list[n]))
        BY <3>4 DEF Shows
      <4>2. PICK i \in U : i = Spot(U, n) /\ list[n] = map[i]
        BY <3>1, <4>1
      <4>3. i \in Calls(map, m)
        BY <1>1, <4>1, <4>2 DEF Calls, Waits
      <4>4. ~(i < e)
        BY <2>1, <4>3
      <4>5. n < h => i < e
        <5>1. Spot(U, h) = e
          <6> HIDE DEF U
          <6> QED  BY <1>1, <2>3, <2>8, SpotOf
        <5>2. \A a, b \in 1 .. Cardinality(U) : a < b => Spot(U, a) < Spot(U, b)
          <6> HIDE DEF U
          <6> QED  BY <1>1, SpotOf
        <5>3. n \in 1 .. Cardinality(U) /\ h \in 1 .. Cardinality(U)
          BY <2>8, <3>1, <4>1
        <5> HIDE DEF U, list
        <5> QED  BY <4>2, <5>1, <5>2, <5>3
      <4> QED  BY <4>4, <4>5
    <3>5. l = Found(list, m)
      BY <1>1, <1>3
    <3> HIDE DEF U, list
    <3>6. l \in Shows(list, m) /\ ~(h < l)
      BY <3>1, <3>3, <3>5, Searches
    <3>7. ~(l < h)
      BY <3>4, <3>6
    <3>8. l \in Int /\ h \in Int
      BY <2>8, <3>1, <3>6 DEF Shows
    <3> QED  BY <3>6, <3>7, <3>8
  <2>10. l # 0
    <3>1. list \in Seq(Entries)
      BY <1>1, Selected
    <3> HIDE DEF list
    <3> QED  BY <2>8, <2>9, <3>1
  <2>11. Agreed(new)
    <3> SUFFICES ASSUME NEW i \in DOMAIN map, NEW j \in DOMAIN map
                 PROVE  /\ new[i].mgr # None => /\ IsLocal(new[i]) \/ IsCalled(new[i], new[i].mgr)
                                                /\ new[j].mgr = new[i].mgr => i = j
                        /\ IsLocal(new[i]) => Len(new) = 1
      BY <2>4 DEF Agreed
    <3>1. /\ map[i].mgr # None => /\ IsLocal(map[i]) \/ IsCalled(map[i], map[i].mgr)
                                  /\ map[j].mgr = map[i].mgr => i = j
          /\ IsLocal(map[i]) => Len(map) = 1
          /\ map[i].mgr # m /\ map[j].mgr # m
      BY DEF Agreed
    <3>2. IsLocal(new[i]) <=> IsLocal(map[i])
      BY <2>4, <2>5 DEF IsLocal
    <3>3. \A x : IsCalled(new[i], x) <=> IsCalled(map[i], x)
      BY <2>4, <2>5 DEF IsCalled
    <3>4. CASE i = e
      BY <2>2, <2>4, <2>5, <3>1, <3>2, <3>3, <3>4
    <3>5. CASE i # e
      BY <2>4, <2>5, <3>1, <3>2, <3>3, <3>5
    <3> QED  BY <3>4, <3>5
  <2> QED  BY <1>1, <2>4, <2>5, <2>8, <2>9, <2>10, <2>11
<1> QED
  BY <1>2, <1>3

-----------------------------------------------------------------------------
(* The loops of this module: what a turn of each does.                     *)

Turn(l, q, i) ==
    IF l[1] = "store" THEN Store(q, file.managers[i])
    ELSE IF l[1] = "spec" THEN LoadSpec(q, file.specs[i])
    ELSE IF l[1] = "empty" THEN [q EXCEPT !.tree = Emptied(@, managers[i])]
    ELSE IF l[1] = "leave"
         THEN IF Needed(q.map, managers[Len(managers) + 1 - i]) THEN q
              ELSE Left(q, managers[Len(managers) + 1 - i])
    ELSE IF l[1] = "next" THEN LoadNext(q, l[2], l[3][i], l[4])
    ELSE IF l[1] = "manager" THEN LoadManager(q, file.managers[i], l[2])
    ELSE Numbered(q, l[2], l[3][i])
Loop(f, l, r, n) == f = [i \in 0 .. n |-> IF i = 0 THEN r ELSE Turn(l, f[i - 1], i)]

\* A loop whose turns lead from P[i - 1] to P[i] can be carried out, in one way.
LEMMA LoopEnds ==
  ASSUME NEW l, NEW n \in Nat, NEW P, NEW r \in P[0],
         \A i \in 1 .. n : \A q \in P[i - 1] : Turn(l, q, i) \in P[i]
  PROVE  /\ \E f : Loop(f, l, r, n)
         /\ \A f : Loop(f, l, r, n) => f[n] \in P[n]
<1> DEFINE D == UNION {P[i] : i \in 0 .. n}
           g == [z \in D \X (1 .. n) |-> Turn(l, z[1], z[2])]
<1>1. ASSUME NEW i \in 1 .. n, NEW q \in P[i - 1] PROVE g[<<q, i>>] = Turn(l, q, i)
  <2>1. i - 1 \in 0 .. n
    OBVIOUS
  <2>2. <<q, i>> \in D \X (1 .. n)
    BY <2>1
  <2> QED  BY <2>2
<1> HIDE DEF g
<1>2. PICK f : Turns(f, n, r, g) /\ \A i \in 0 .. n : f[i] \in P[i]
  <2>1. \A i \in 1 .. n : \A q \in P[i - 1] : g[<<q, i>>] \in P[i]
    BY <1>1
  <2> QED  BY <2>1, Iterates
<1>3. f = [i \in 0 .. n |-> f[i]] /\ f[0] = r /\ \A i \in 1 .. n : f[i] = Turn(l, f[i - 1], i)
  <2>1. f = [i \in 0 .. n |-> f[i]] /\ f[0] = r /\ \A i \in 1 .. n : f[i] = g[<<f[i - 1], i>>]
    BY <1>2 DEF Turns
  <2>2. \A i \in 1 .. n : f[i - 1] \in P[i - 1]
    BY <1>2
  <2> QED  BY <1>1, <2>1, <2>2
<1>4. Loop(f, l, r, n)
  <2> DEFINE h == [i \in 0 .. n |-> IF i = 0 THEN r ELSE Turn(l, f[i - 1], i)]
  <2>1. Table(h, n) /\ h[0] = r /\ \A i \in 1 .. n : h[i] = Turn(l, f[i - 1], i)
    BY DEF Table
  <2> HIDE DEF h
  <2>2. f[0] = h[0] /\ (\A i \in 1 .. n : f[i] = h[i]) /\ Table(f, n)
    BY <1>3, <2>1 DEF Table
  <2>3. f = h
    BY <2>1, <2>2, SameTable
  <2> QED  BY <2>3 DEF Loop, h
<1>5. ASSUME NEW h, Loop(h, l, r, n) PROVE h[n] \in P[n]
  <2>1. h[0] = r /\ \A i \in 1 .. n : h[i] = Turn(l, h[i - 1], i)
    BY <1>5 DEF Loop
  <2>2. h[0] = f[0] /\ \A i \in 1 .. n : h[i - 1] = f[i - 1] => h[i] = f[i]
    BY <1>3, <2>1
  <2>3. h[n] = f[n]
    BY <2>2, Agree
  <2> QED  BY <1>2, <2>3
<1> QED
  BY <1>4, <1>5

\* The managers of the file, and what the first n of them have in a map.
FileNamed ==
    file.managers # Bad =>
        /\ Len(file.managers) \in Nat
        /\ \A i \in 1 .. Len(file.managers) :
              /\ file.managers[i].name \in NamesOfAll /\ file.managers[i].id \in Nat
              /\ file.managers[i].addr \in {"local", "remote"}
Covers(map, n) ==
    \A j \in 1 .. n : \E i \in DOMAIN map :
        \/ map[i].name = Local
        \/ map[i].name = file.managers[j].name /\ map[i].id = file.managers[j].id
AllThere(map) == \A i \in DOMAIN map : map[i].mgr # None => Listed(map[i].mgr)
Mapped(map, n) ==
    /\ map \in Seq(Entries) /\ Len(map) = n /\ Covers(map, n) /\ AllThere(map)
    /\ \A i, j \in DOMAIN map :
          /\ map[i].mgr # None => /\ IsLocal(map[i]) \/ IsCalled(map[i], map[i].mgr)
                                  /\ map[j].mgr = map[i].mgr => i = j
          /\ IsLocal(map[i]) => Len(file.managers) = 1

\* One entry more.
LEMMA EntryMore ==
  ASSUME NEW map, NEW n \in Nat, Mapped(map, n), NEW e \in Entries,
         IsLocal(e) => Len(file.managers) = 1,
         \/ e.name = Local
         \/ e.name = file.managers[n + 1].name /\ e.id = file.managers[n + 1].id,
         e.mgr # None => /\ Listed(e.mgr) /\ IsCalled(e, e.mgr)
                         /\ \A i \in DOMAIN map : map[i].mgr # e.mgr
  PROVE  Mapped(Append(map, e), n + 1)
<1> DEFINE q == Append(map, e)
<1>1. /\ q \in Seq(Entries) /\ Len(q) = n + 1 /\ DOMAIN map = 1 .. n /\ DOMAIN q = 1 .. n + 1
      /\ q[n + 1] = e /\ \A i \in 1 .. n : q[i] = map[i]
  BY DEF Mapped
<1> HIDE DEF q
<1>2. \A i \in 1 .. n + 1 : i \in 1 .. n \/ i = n + 1
  OBVIOUS
<1>3. Covers(q, n + 1) /\ AllThere(q)
  <2>1. AllThere(q)
    BY <1>1, <1>2 DEF Mapped, AllThere
  <2>2. ASSUME NEW j \in 1 .. n + 1
        PROVE  \E i \in DOMAIN q :
                  \/ q[i].name = Local
                  \/ q[i].name = file.managers[j].name /\ q[i].id = file.managers[j].id
    <3>1. CASE j = n + 1
      <4>1. n + 1 \in DOMAIN q
        BY <1>1
      <4> QED  BY <1>1, <3>1, <4>1
    <3>2. CASE j \in 1 .. n
      <4>1. PICK i \in 1 .. n :
               \/ map[i].name = Local
               \/ map[i].name = file.managers[j].name /\ map[i].id = file.managers[j].id
        BY <1>1, <3>2 DEF Mapped, Covers
      <4>2. i \in DOMAIN q /\ q[i] = map[i]
        BY <1>1, <4>1
      <4> QED  BY <4>1, <4>2
    <3> QED  BY <1>2, <3>1, <3>2
  <2> QED  BY <2>1, <2>2 DEF Covers
<1>4. ASSUME NEW i \in 1 .. n + 1, NEW j \in 1 .. n + 1
      PROVE  /\ q[i].mgr # None => /\ IsLocal(q[i]) \/ IsCalled(q[i], q[i].mgr)
                                   /\ q[j].mgr = q[i].mgr => i = j
             /\ IsLocal(q[i]) => Len(file.managers) = 1
  <2>1. CASE i \in 1 .. n /\ j \in 1 .. n
    BY <1>1, <2>1 DEF Mapped
  <2>2. CASE i \in 1 .. n /\ j = n + 1
    BY <1>1, <2>2 DEF Mapped
  <2>3. CASE i = n + 1 /\ j \in 1 .. n
    BY <1>1, <2>3
  <2>4. CASE i = n + 1 /\ j = n + 1
    BY <1>1, <2>4
  <2> QED  BY <1>2, <2>1, <2>2, <2>3, <2>4
<1>5. Mapped(q, n + 1)
  BY <1>1, <1>3, <1>4 DEF Mapped
<1> QED
  BY <1>5 DEF q

\* The managers that a search for one of the file finds.
Alike(map, f) ==
    {i \in 1 .. Len(managers) : /\ who[managers[i]].name = f.name /\ who[managers[i]].addr = f.addr
                                /\ ~Needed(map, managers[i])}
\* The map of the file's first managers, with the next one stored.
LEMMA StoreMore ==
  ASSUME managers \in Seq(Managers), FileNamed, file.managers # Bad,
         NEW n \in Nat, n + 1 \in 1 .. Len(file.managers), NEW map, Mapped(map, n)
  PROVE  Mapped(Store(map, file.managers[n + 1]), n + 1)
<1> DEFINE f == file.managers[n + 1]
           S == Alike(map, f)
           same == IF S # {} THEN Min(S) ELSE 0
           lone == managers = <<>> /\ Len(file.managers) = 1
<1>1. f.name \in NamesOfAll /\ f.id \in Nat /\ f.addr \in {"local", "remote"}
  BY DEF FileNamed
<1>2. /\ Len(managers) \in Nat /\ DOMAIN managers = 1 .. Len(managers)
      /\ \A i \in 1 .. Len(managers) : managers[i] \in Managers /\ managers[i] # None
  BY PartnersAssumption DEF PartnersAssumption
<1>3. Store(map, f) =
        Append(map, IF same # 0 THEN Entry(f.name, f.id, f.addr, managers[same])
                    ELSE IF lone /\ (f.addr = "local" \/ f.name = ComputerName)
                         THEN Entry(Local, 1, "", None)
                         ELSE Entry(f.name, f.id, f.addr, None))
  BY DEF Store, SelectInSeq, Alike
<1>4. same # 0 => same \in S
  <2>1. S \subseteq 1 .. Len(managers)
    BY DEF Alike
  <2> HIDE DEF S
  <2> QED  BY <1>2, <2>1, Lowest
<1> HIDE DEF same, f, S
<1>5. \A m : m \in Managers \cup {None} =>
         /\ Entry(f.name, f.id, f.addr, m) \in Entries
         /\ Entry(f.name, f.id, f.addr, m).mgr = m
         /\ Entry(f.name, f.id, f.addr, m).name = f.name
         /\ Entry(f.name, f.id, f.addr, m).id = f.id
         /\ Entry(f.name, f.id, f.addr, m).addr = f.addr
  BY <1>1 DEF Entry, Entries
<1>6. CASE same # 0
  <2>1. PICK m : m = managers[same]
    OBVIOUS
  <2>2. /\ m \in Managers /\ m # None /\ who[m].name = f.name /\ who[m].addr = f.addr
        /\ ~Needed(map, m) /\ Listed(m)
    BY <1>2, <1>4, <1>6, <2>1 DEF S, Alike, Listed, ToSet
  <2>3. PICK e : e = Entry(f.name, f.id, f.addr, m)
    OBVIOUS
  <2>4. /\ e \in Entries /\ e.mgr = m /\ e.name = f.name /\ e.id = f.id /\ e.addr = f.addr
    BY <1>5, <2>2, <2>3
  <2>5. ~IsLocal(e) /\ IsCalled(e, m)
    BY <1>1, <2>2, <2>4 DEF IsLocal, IsCalled
  <2>6. \A i \in DOMAIN map : map[i].mgr # m
    BY <2>2 DEF Needed, ToSet
  <2>7. Mapped(Append(map, e), n + 1)
    BY <2>2, <2>4, <2>5, <2>6, EntryMore DEF f
  <2> QED  BY <1>3, <1>6, <2>1, <2>3, <2>7 DEF f
<1>7. CASE same = 0 /\ lone /\ (f.addr = "local" \/ f.name = ComputerName)
  <2>1. PICK e : e = Entry(Local, 1, "", None)
    OBVIOUS
  <2>2. e \in Entries /\ e.mgr = None /\ e.name = Local
    BY <2>1 DEF Entry, Entries
  <2>3. Mapped(Append(map, e), n + 1)
    BY <1>7, <2>2, EntryMore
  <2> QED  BY <1>3, <1>7, <2>1, <2>3 DEF f
<1>8. CASE same = 0 /\ ~(lone /\ (f.addr = "local" \/ f.name = ComputerName))
  <2>1. PICK e : e = Entry(f.name, f.id, f.addr, None)
    OBVIOUS
  <2>2. /\ e \in Entries /\ e.mgr = None /\ e.name = f.name /\ e.id = f.id /\ e.addr = f.addr
    BY <1>5, <2>1
  <2>3. ~IsLocal(e)
    BY <1>1, <2>2 DEF IsLocal
  <2>4. Mapped(Append(map, e), n + 1)
    BY <2>2, <2>3, EntryMore DEF f
  <2> QED  BY <1>3, <1>8, <2>1, <2>4 DEF f
<1> QED
  BY <1>6, <1>7, <1>8

\* The map of all managers of the file.
LEMMA StoredIs ==
  ASSUME managers \in Seq(Managers), FileNamed, file.managers # Bad
  PROVE  Mapped(Stored, Len(file.managers))
<1> DEFINE n == Len(file.managers)
           P == [i \in 0 .. n |-> {map \in Seq(Entries) : Mapped(map, i)}]
           Made(f) == f = [i \in 0 .. n |-> IF i = 0 THEN <<>>
                                            ELSE Store(f[i - 1], file.managers[i])]
           F == CHOOSE f : Made(f)
<1>1. Stored = F[n]
  BY DEF Stored, Repeat
<1>2. n \in Nat
  BY DEF FileNamed
<1>3. \A f : Made(f) <=> Loop(f, <<"store">>, <<>>, n)
  BY DEF Loop, Turn
<1>4. <<>> \in P[0]
  <2>1. Mapped(<<>>, 0)
    BY DEF Mapped, Covers, AllThere
  <2> QED  BY <1>2, <2>1
<1>5. ASSUME NEW i \in 1 .. n, NEW q \in P[i - 1] PROVE Turn(<<"store">>, q, i) \in P[i]
  <2>1. PICK k \in Nat : i = k + 1 /\ k = i - 1 /\ k \in 0 .. n
    BY <1>2
  <2>2. Mapped(q, k)
    BY <2>1
  <2>3. Mapped(Store(q, file.managers[i]), i)
    BY <2>1, <2>2, StoreMore
  <2> QED  BY <2>3 DEF Turn, Mapped
<1> HIDE DEF P, n, Made
<1>6. (\E f : Made(f)) /\ \A f : Made(f) => f[n] \in P[n]
  BY <1>2, <1>3, <1>4, <1>5, LoopEnds
<1>7. F[n] \in P[n]
  BY <1>6
<1> QED
  BY <1>1, <1>2, <1>7 DEF P, n

-----------------------------------------------------------------------------
(* While a file waits for its managers.                                    *)

Waiting ==
    dialog # None =>
        /\ file.managers # Bad /\ Covers(loadmap, Len(file.managers))
        /\ loadmap \in Seq(Entries) /\ AllThere(loadmap) /\ Agreed(loadmap)
        /\ waiting = Unassigned(loadmap)
WInv ==
    /\ managers \in Seq(Managers) /\ IsInjective(managers) /\ who \in Namings
    /\ file = [parts |-> file.parts, specs |-> file.specs, managers |-> file.managers]
    /\ FileNamed /\ Waiting

\* A map stays what it is.
LEMMA SameMaps ==
  ASSUME UNCHANGED <<file, who>>, NEW map
  PROVE  /\ NamesOfAll' = NamesOfAll /\ Entries' = Entries /\ FileNamed' = FileNamed
         /\ \A n : Covers(map, n)' = Covers(map, n)
         /\ Agreed(map)' = Agreed(map)
<1>1. NamesOfAll' = NamesOfAll
  BY DEF NamesOfAll
<1>2. Entries' = Entries
  BY <1>1 DEF Entries
<1>3. FileNamed' = FileNamed
  BY <1>1 DEF FileNamed
<1>4. \A n : Covers(map, n)' = Covers(map, n)
  BY DEF Covers
<1>5. Agreed(map)' = Agreed(map)
  BY DEF Agreed, IsCalled
<1> QED
  BY <1>1, <1>2, <1>3, <1>4, <1>5

\* Without a dialog only the managers change.
LEMMA NoDialog ==
  ASSUME WInv, UNCHANGED <<file, who>>, dialog' = None,
         managers' \in Seq(Managers), IsInjective(managers')
  PROVE  WInv'
<1>1. FileNamed' /\ Waiting'
  BY DEF WInv, FileNamed, Waiting, NamesOfAll
<1> QED
  BY <1>1 DEF WInv

\* At the start no dialog waits.
LEMMA WInitially == ConfigInit => WInv
<1> SUFFICES ASSUME ConfigInit PROVE WInv
  OBVIOUS
<1>1. managers \in Seq(Managers) /\ IsInjective(managers)
  BY DEF ConfigInit, Init, IsInjective
<1>2. /\ file = [parts |-> file.parts, specs |-> file.specs, managers |-> file.managers]
      /\ FileNamed
  BY DEF ConfigInit, FileNamed
<1> QED
  BY <1>1, <1>2 DEF ConfigInit, WInv, Waiting

\* Those of the managers that a file needed stay when it replaces.
NeededPlaces(map) == {i \in DOMAIN managers : Needed(map, managers[i])}
\* The managers that the map needs, in the order of the list.
LEMMA NeededManagers ==
  ASSUME managers \in Seq(Managers), IsInjective(managers), NEW map,
         NEW s, s = At(managers, NeededPlaces(map))
  PROVE  /\ s \in Seq(Managers) /\ IsInjective(s)
         /\ ToSet(s) = {m \in ToSet(managers) : Needed(map, m)}
<1>1. NeededPlaces(map) \subseteq DOMAIN managers
  BY DEF NeededPlaces
<1>2. {managers[i] : i \in NeededPlaces(map)} = {m \in ToSet(managers) : Needed(map, m)}
  BY DEF ToSet, NeededPlaces
<1>3. /\ s \in Seq(Managers) /\ IsInjective(s)
      /\ ToSet(s) = {managers[i] : i \in NeededPlaces(map)}
  BY <1>1, Selected
<1> QED
  BY <1>2, <1>3

\* OpenConfigFile: a dialog opens only over a map that lacks managers.
LEMMA OpenConfigFileWaits ==
  ASSUME WInv, NEW r, NEW request, OpenConfigFile(r, request),
         UNCHANGED file, dialog' = None
  PROVE  WInv'
<1>1. who' = who
  BY DEF OpenConfigFile, Settles
<1>2. managers' \in Seq(Managers) /\ IsInjective(managers')
  <2>1. managers' = managers \/ managers' = At(managers, NeededPlaces(r.map))
    BY DEF OpenConfigFile, Those, NeededPlaces
  <2> QED  BY <2>1, NeededManagers DEF WInv
<1> QED
  BY <1>1, <1>2, NoDialog

\* IndexManagers numbers the managers there are.
LEMMA MgrIdIs ==
  ASSUME managers \in Seq(Managers), NEW i \in DOMAIN managers
  PROVE  MgrId(managers[i]) \in Nat
<1> DEFINE k == CHOOSE j \in DOMAIN managers : managers[j] = managers[i]
           T == {j \in 1 .. k : who[managers[j]].name = who[managers[i]].name}
<1>1. k \in Nat
  <2>1. k \in DOMAIN managers
    OBVIOUS
  <2>2. DOMAIN managers \subseteq Nat
    OBVIOUS
  <2> QED  BY <2>1, <2>2
<1>2. MgrId(managers[i]) = Cardinality(T)
  BY DEF MgrId
<1>3. T \in SUBSET (1 .. k)
  OBVIOUS
<1> HIDE DEF k, T
<1>4. \A b \in Nat : IsFiniteSet(1 .. b)
  BY FS_Interval
<1> QED
  BY <1>1, <1>2, <1>3, <1>4, FS_Subset, FS_CardinalityType

\* A file that is saved names its managers.
LEMMA GatherNames ==
  ASSUME WInv, NEW parts, NEW ms, ms = Gather(parts).managers
  PROVE  /\ Len(ms) \in Nat
         /\ \A i \in 1 .. Len(ms) :
               /\ ms[i].name \in NamesOfAll /\ ms[i].id \in Nat
               /\ ms[i].addr \in {"local", "remote"}
<1>1. CASE ms = <<>>
  BY <1>1
<1>2. CASE ms # <<>>
  <2>1. ms = [i \in DOMAIN managers |-> GatherManager(managers[i], parts)]
    BY <1>2 DEF Gather
  <2>2. Len(managers) \in Nat /\ DOMAIN managers = 1 .. Len(managers)
    BY DEF WInv
  <2>3. /\ Len(ms) = Len(managers)
        /\ \A i \in 1 .. Len(ms) : ms[i] = GatherManager(managers[i], parts)
    BY <2>1, <2>2
  <2>4. ASSUME NEW i \in 1 .. Len(managers), NEW g, g = GatherManager(managers[i], parts)
        PROVE  g.name \in NamesOfAll /\ g.id \in Nat /\ g.addr \in {"local", "remote"}
    <3>1. managers[i] \in Managers /\ MgrId(managers[i]) \in Nat
      BY <2>2, MgrIdIs DEF WInv
    <3>2. who \in [Managers -> [name : STRING, addr : {"local", "remote"}]]
      BY ConfigAssumption DEF WInv, ConfigAssumption
    <3>3. g.name = who[managers[i]].name /\ g.id = MgrId(managers[i])
          /\ g.addr = who[managers[i]].addr
      BY <2>4 DEF GatherManager
    <3> QED  BY <3>1, <3>2, <3>3 DEF NamesOfAll
  <2> QED  BY <2>2, <2>3, <2>4
<1> QED
  BY <1>1, <1>2

\* SaveConfigFile keeps the invariant.
LEMMA SaveWaits ==
  ASSUME WInv, NEW parts, SaveConfigFile(parts)
  PROVE  WInv'
<1>1. /\ dialog' = None /\ managers' = managers /\ who' = who /\ file' = Gather(parts)
  BY DEF SaveConfigFile, MayEdit, Edited, configuration
<1>2. (file = [parts |-> file.parts, specs |-> file.specs, managers |-> file.managers])'
  BY <1>1 DEF Gather
<1>3. NamesOfAll' = NamesOfAll
  BY <1>1 DEF NamesOfAll
<1>4. PICK ms : ms = Gather(parts).managers
  OBVIOUS
<1>5. /\ Len(ms) \in Nat
      /\ \A i \in 1 .. Len(ms) :
               /\ ms[i].name \in NamesOfAll /\ ms[i].id \in Nat
               /\ ms[i].addr \in {"local", "remote"}
  BY <1>4, GatherNames
<1>6. FileNamed' /\ Waiting'
  BY <1>1, <1>3, <1>4, <1>5 DEF FileNamed, Waiting
<1> QED
  BY <1>1, <1>2, <1>6 DEF WInv

\* So does a file that is damaged,
LEMMA DamageWaits ==
  ASSUME WInv, NEW section \in {"specs", "managers"}, Damage(section)
  PROVE  WInv'
<1>1. /\ dialog' = None /\ managers' = managers /\ who' = who
      /\ file' = [file EXCEPT ![section] = Bad]
  BY DEF Damage, MayEdit, Edited, configuration
<1>2. file = [parts |-> file.parts, specs |-> file.specs, managers |-> file.managers]
  BY DEF WInv
<1>3. PICK p, s, ms : file = [parts |-> p, specs |-> s, managers |-> ms]
  BY <1>2
<1>4. \/ file' = [parts |-> p, specs |-> Bad, managers |-> ms]
      \/ file' = [parts |-> p, specs |-> s, managers |-> Bad]
  BY <1>1, <1>3
<1>5. /\ (file = [parts |-> file.parts, specs |-> file.specs, managers |-> file.managers])'
      /\ file'.managers \in {Bad, file.managers}
  BY <1>3, <1>4
<1>6. FileNamed' /\ Waiting'
  BY <1>1, <1>5 DEF FileNamed, Waiting, WInv, NamesOfAll
<1> QED
  BY <1>1, <1>5, <1>6 DEF WInv

\* PrepareToOpenConfigFile, when it shows the dialog.
LEMMA DialogShown ==
  ASSUME WInv, file.managers # Bad, IsWaitingList(SetIfOneManager(Stored))
  PROVE  /\ SetIfOneManager(Stored) = Stored
         /\ Covers(Stored, Len(file.managers)) /\ Stored \in Seq(Entries)
         /\ AllThere(Stored) /\ Agreed(Stored)
<1>1. Mapped(Stored, Len(file.managers))
  BY StoredIs DEF WInv
<1>2. PICK map : map = Stored
  OBVIOUS
<1>3. map \in Seq(Entries) /\ Len(map) = Len(file.managers) /\ Len(map) \in Nat
  BY <1>1, <1>2 DEF Mapped
<1>4. SetIfOneManager(map) = map
  <2> SUFFICES ASSUME Len(managers) = 1, Len(map) = 1, map[1].mgr = None PROVE FALSE
    BY DEF SetIfOneManager
  <2>1. managers[1] \in Managers /\ managers[1] # None
    BY PartnersAssumption DEF WInv, PartnersAssumption
  <2>2. 1 \in DOMAIN map /\ DOMAIN map = {1} /\ map[1] \in Entries
    BY <1>3
  <2>3. PICK q : q = [map EXCEPT ![1].mgr = managers[1]]
    OBVIOUS
  <2>4. DOMAIN q = {1} /\ q[1] = [map[1] EXCEPT !.mgr = managers[1]]
    BY <2>2, <2>3
  <2>5. q[1].mgr = managers[1]
    BY <2>2, <2>4 DEF Entries
  <2>6. IsWaitingList(q)
    BY <1>2, <2>3 DEF SetIfOneManager
  <2> QED  BY <2>1, <2>4, <2>5, <2>6 DEF IsWaitingList, ToSet
<1>5. Agreed(map)
  BY <1>1, <1>2 DEF Mapped, Agreed
<1> QED
  BY <1>1, <1>2, <1>4, <1>5 DEF Mapped

\* a file that is opened,
LEMMA OpenFileWaits ==
  ASSUME WInv, NEW parts, NEW replace, OpenFile(parts, replace)
  PROVE  WInv'
<1> DEFINE request == [parts |-> parts, replace |-> replace]
           map == SetIfOneManager(Stored)
<1>1. UNCHANGED file /\ dialog = None
  BY DEF OpenFile, Rest
<1>2. CASE "managers" \notin parts
  <2>1. OpenConfigFile(Config, request) /\ dialog' = None
    BY <1>1, <1>2 DEF OpenFile
  <2> QED  BY <1>1, <2>1, OpenConfigFileWaits
<1>3. CASE "managers" \in parts /\ file.managers = Bad
  <2>1. UNCHANGED <<who, managers>> /\ dialog' = None
    BY <1>1, <1>3 DEF OpenFile, Settles
  <2> QED  BY <1>1, <2>1, NoDialog DEF WInv
<1>4. CASE "managers" \in parts /\ file.managers # Bad /\ ~IsWaitingList(map)
  <2>1. OpenConfigFile([Config EXCEPT !.map = map], request) /\ dialog' = None
    BY <1>1, <1>4 DEF OpenFile
  <2> QED  BY <1>1, <2>1, OpenConfigFileWaits
<1>5. CASE "managers" \in parts /\ file.managers # Bad /\ IsWaitingList(map)
  <2>1. UNCHANGED <<who, managers>> /\ loadmap' = map /\ waiting' = Unassigned(Stored)
    BY <1>5 DEF OpenFile, Settles
  <2>2. /\ map = Stored /\ Covers(Stored, Len(file.managers)) /\ Stored \in Seq(Entries)
        /\ AllThere(Stored) /\ Agreed(Stored)
    BY <1>5, DialogShown
  <2>3. PICK s : s = Stored
    OBVIOUS
  <2>4. loadmap' = s /\ waiting' = Unassigned(s)
    BY <2>1, <2>2, <2>3
  <2>5. (Covers(s, Len(file.managers)) /\ s \in Seq(Entries) /\ Agreed(s))' /\ FileNamed'
    BY <1>1, <2>1, <2>2, <2>3, SameMaps DEF WInv
  <2>6. AllThere(s)'
    BY <2>1, <2>2, <2>3 DEF AllThere, Listed
  <2>7. Waiting'
    BY <1>1, <1>5, <2>4, <2>5, <2>6 DEF Waiting, Covers, AllThere, Agreed, IsCalled
  <2> QED  BY <1>1, <2>1, <2>5, <2>7 DEF WInv
<1> QED
  BY <1>2, <1>3, <1>4, <1>5

\* a manager that logs in,
LEMMA LogInWaits ==
  ASSUME WInv, NEW m \in Managers, LogIn(m)
  PROVE  WInv'
<1> DEFINE entry == IF IsWaitingList(loadmap) THEN LoggedIn(loadmap, m) ELSE 0
           line == IF entry # 0 THEN Found(waiting, m) ELSE 0
<1>1. /\ ~Listed(m) /\ UNCHANGED <<file, dialog, who>> /\ managers' = Append(managers, m)
      /\ loadmap' = Entered(loadmap, entry, m)
      /\ waiting' = IF line = 0 THEN waiting ELSE RemoveAt(waiting, line)
  BY DEF LogIn, Rest, Settles, Entered
<1>2. /\ managers' \in Seq(Managers) /\ IsInjective(managers')
      /\ ToSet(managers') = ToSet(managers) \cup {m}
  BY <1>1, AppendOnce DEF WInv, Listed
<1>3. CASE dialog = None
  BY <1>1, <1>2, <1>3, NoDialog
<1>4. CASE dialog # None
  <2> HIDE DEF entry, line
  <2>1. /\ file.managers # Bad /\ Covers(loadmap, Len(file.managers))
        /\ loadmap \in Seq(Entries) /\ AllThere(loadmap) /\ Agreed(loadmap)
        /\ waiting = Unassigned(loadmap)
    BY <1>4 DEF WInv, Waiting
  <2>2. PICK new : new = loadmap'
    OBVIOUS
  <2>3. /\ new \in Seq(Entries) /\ DOMAIN new = DOMAIN loadmap /\ Agreed(new)
        /\ \A i \in DOMAIN loadmap : /\ new[i].name = loadmap[i].name /\ new[i].id = loadmap[i].id
                                     /\ new[i].mgr \in {loadmap[i].mgr, m}
        /\ waiting' = Unassigned(new)
    <3>1. CASE IsWaitingList(loadmap)
      <4>1. /\ entry = LoggedIn(loadmap, m)
            /\ line = IF entry # 0 THEN Found(Unassigned(loadmap), m) ELSE 0
        BY <2>1, <3>1 DEF entry, line
      <4>2. \A i \in DOMAIN loadmap : loadmap[i].mgr # m
        <5>1. m # None
          BY PartnersAssumption DEF PartnersAssumption
        <5> QED  BY <1>1, <2>1, <5>1 DEF AllThere
      <4> QED  BY <1>1, <2>1, <2>2, <3>1, <4>1, <4>2, MapLogsIn
    <3>2. CASE ~IsWaitingList(loadmap)
      BY <1>1, <2>1, <2>2, <3>2 DEF entry, line, Entered
    <3> QED  BY <3>1, <3>2
  <2>4. AllThere(new)'
    BY <1>2, <2>1, <2>3 DEF AllThere, Listed
  <2>5. Covers(new, Len(file.managers))
    BY <2>1, <2>3 DEF Covers
  <2>6. (Covers(new, Len(file.managers)) /\ Agreed(new) /\ new \in Seq(Entries))' /\ FileNamed'
    BY <1>1, <2>3, <2>5, SameMaps DEF WInv
  <2>7. Waiting'
    BY <1>1, <2>1, <2>2, <2>3, <2>4, <2>6 DEF Waiting, Covers, AllThere, Agreed, IsCalled
  <2>8. FileNamed'
    BY <2>6
  <2> QED  BY <1>1, <1>2, <2>7, <2>8 DEF WInv
<1> QED
  BY <1>3, <1>4

\* What the user does in the main window, and whatever else closes the dialog.
LEMMA ChangedWaits ==
  ASSUME WInv, NEW r, Changed(r)
  PROVE  WInv'
<1>1. UNCHANGED <<file, who, managers>> /\ dialog' = None
  BY DEF Changed, MayEdit, Edited, Settles
<1> QED
  BY <1>1, NoDialog DEF WInv

\* a manager that is removed,
LEMMA RemoveManagerWaits ==
  ASSUME WInv, NEW m \in Managers, RemoveManager(m)
  PROVE  WInv'
<1>1. /\ UNCHANGED <<file, who>> /\ dialog' = None
      /\ managers' = RemoveFirst(managers, m) /\ Listed(m)
  BY DEF RemoveManager, MayEdit, Edited, Settles
<1>2. managers' \in Seq(Managers) /\ IsInjective(managers')
  BY <1>1, RemoveFirstOnce DEF WInv, Listed
<1> QED
  BY <1>1, <1>2, NoDialog

\* and the end of the dialog.
LEMMA DialogWaits ==
  ASSUME WInv, DialogDone \/ DialogTimedOut \/ DialogAborted
  PROVE  WInv'
<1>1. CASE DialogDone
  <2>1. OpenConfigFile(Config, dialog) /\ UNCHANGED file /\ dialog' = None
    BY <1>1 DEF DialogDone, Rest
  <2> QED  BY <2>1, OpenConfigFileWaits
<1>2. CASE DialogTimedOut \/ DialogAborted
  <2>1. UNCHANGED <<file, who, managers>> /\ dialog' = None
    BY <1>2 DEF DialogTimedOut, DialogAborted, Closes, Rest, Settles, configuration
  <2> QED  BY <2>1, NoDialog DEF WInv
<1> QED
  BY <1>1, <1>2

\* Every step keeps the invariant.
LEMMA WNext == WInv /\ [ConfigNext]_allvars => WInv'
<1> SUFFICES ASSUME WInv, [ConfigNext]_allvars PROVE WInv'
  OBVIOUS
<1>1. CASE \E m \in Managers : LogIn(m)
  BY <1>1, LogInWaits
<1>2. CASE \E m \in Managers : RemoveManager(m)
  BY <1>2, RemoveManagerWaits
<1>3. CASE \E r : Changed(r)
  BY <1>3, ChangedWaits
<1>4. CASE \E parts \in Sections : SaveConfigFile(parts)
  BY <1>4, SaveWaits
<1>5. CASE \E parts \in Sections : \E replace \in BOOLEAN : OpenFile(parts, replace)
  BY <1>5, OpenFileWaits
<1>6. CASE \E section \in {"specs", "managers"} : Damage(section)
  BY <1>6, DamageWaits
<1>7. CASE DialogDone \/ DialogTimedOut \/ DialogAborted
  BY <1>7, DialogWaits
<1>8. CASE UNCHANGED allvars
  <2>1. UNCHANGED <<file, who, managers, dialog, waiting, loadmap>>
    BY <1>8 DEF allvars, configuration
  <2>2. PICK map : map = loadmap
    OBVIOUS
  <2>3. /\ FileNamed' = FileNamed /\ Entries' = Entries /\ Agreed(map)' = Agreed(map)
        /\ \A n : Covers(map, n)' = Covers(map, n)
    BY <2>1, SameMaps
  <2>4. Waiting'
    <3>1. CASE dialog = None
      BY <2>1, <3>1 DEF Waiting
    <3>2. CASE dialog # None
      <4>1. /\ file.managers # Bad /\ Covers(loadmap, Len(file.managers))
            /\ loadmap \in Seq(Entries) /\ AllThere(loadmap) /\ Agreed(loadmap)
            /\ waiting = Unassigned(loadmap)
        BY <3>2 DEF WInv, Waiting
      <4>2. (Covers(map, Len(file.managers)) /\ map \in Seq(Entries) /\ Agreed(map))'
        BY <2>1, <2>2, <2>3, <4>1
      <4>3. AllThere(map)'
        BY <2>1, <2>2, <4>1 DEF AllThere, Listed
      <4> QED  BY <2>1, <2>2, <4>1, <4>2, <4>3 DEF Waiting, Covers, AllThere, Agreed, IsCalled
    <3> QED  BY <3>1, <3>2
  <2> QED  BY <2>1, <2>3, <2>4 DEF WInv
<1> QED
  BY <1>1, <1>2, <1>3, <1>4, <1>5, <1>6, <1>7, <1>8
     DEF ConfigNext, AddNamed, RemoveNamed, SelectServerTarget, SelectDisks, AssignSpec,
         NewSpec, DeleteSpec, AssignToAll

\* While a file waits for its managers, the map and the list of the dialog agree.
THEOREM DialogInStep == ConfigSpec => []WaitingAgrees
<1>1. WInv => WaitingAgrees
  BY DEF WInv, Waiting, WaitingAgrees, AllThere, Agreed
<1> QED
  BY <1>1, WInitially, WNext, PTL DEF ConfigSpec

-----------------------------------------------------------------------------
(* Dynamos that read everything, those of managers that left included.     *)

\* EXIT of all workers leaves none.
LEMMA GruntsGone ==
  ASSUME NEW n \in 0 .. MaxWorkers, NEW sent \in Seq(0 .. MaxWorkers), All \in ToSet(sent)
  PROVE  GruntsLeft(n, sent) = 0
<1> DEFINE k == Len(sent)
<1>1. /\ n \in Nat /\ k \in Nat /\ MaxWorkers \in Nat /\ All = MaxWorkers
      /\ \A i \in 1 .. k : sent[i] \in Nat
  BY Numbers DEF All
<1>2. PICK p \in 1 .. k : sent[p] = All
  BY DEF ToSet
<1>3. PICK f : /\ GruntsLeft(n, sent) = f[k] /\ Remains(f, n, k, sent)
               /\ \A i \in 0 .. k : f[i] \in 0 .. n
  BY <1>1, GruntsAre
<1> DEFINE T == {i \in 0 .. k : i < p \/ f[i] = 0}
<1> HIDE DEF k
<1>4. 0 \in T
  BY <1>1, <1>2
<1>5. ASSUME NEW i \in 1 .. k, i - 1 \in T PROVE i \in T
  <2>1. f[i] = Without(f[i - 1], sent[i]) /\ f[i - 1] \in 0 .. n /\ i \in 0 .. k
    <3>1. i - 1 \in 0 .. k
      BY <1>1
    <3> QED  BY <1>1, <1>3, <3>1 DEF Remains
  <2>2. CASE i < p
    BY <2>1, <2>2
  <2>3. CASE i = p
    BY <1>1, <1>2, <2>1, <2>3 DEF Without
  <2>4. CASE p < i
    <3>1. f[i - 1] = 0
      BY <1>1, <1>5, <2>4
    <3>2. sent[i] \in Nat
      BY <1>1
    <3> QED  BY <2>1, <3>1, <3>2 DEF Without
  <2> QED  BY <1>1, <1>2, <2>2, <2>3, <2>4
<1>6. k \in T
  <2>1. \A i \in 0 .. k : i \in T
    <3> HIDE DEF T
    <3> QED  BY <1>1, <1>4, <1>5, Upwards
  <2> QED  BY <1>1, <2>1
<1> QED
  BY <1>1, <1>2, <1>3, <1>6

\* The Dynamos read their messages, one manager after the other.
LEMMA AllRead ==
  ASSUME NEW r, NEW L, Fine(r, L, L), NEW q, q = AllAnswered(r, Managers)
  PROVE  /\ Fine(q, L, L) /\ q.up = r.up /\ q.kind = r.kind
         /\ \A m \in Managers : q.inbox[m] = <<>>
<1> DEFINE Grunts(m) == IF m \in Managers THEN GruntsLeft(r.grunts[m], r.inbox[m]) ELSE r.grunts[m]
           g == [m \in Managers |-> Grunts(m)]
           b == [m \in Managers |-> IF m \in Managers THEN <<>> ELSE r.inbox[m]]
<1>1. Sound(r) /\ r \in Trees /\ Within(r, L) /\ InTune(r, L, L)
  BY DEF Fine, Sound
<1>2. \A m \in Managers : /\ r.grunts[m] \in 0 .. MaxWorkers /\ r.inbox[m] \in Seq(0 .. MaxWorkers)
                          /\ r.grunts[m] \in Nat /\ r.inbox[m] \in Seq(Nat)
                          /\ Len(r.workers[m]) \in 0 .. MaxWorkers
  BY <1>1, MessageTypes, Numbers DEF Sound, ListedOnce
<1>3. ASSUME NEW m \in Managers
      PROVE  /\ m \in L => Grunts(m) = Len(r.workers[m])
             /\ m \notin L => Grunts(m) = 0
  <2>1. CASE m \in L
    BY <1>1, <2>1 DEF InTune
  <2>2. CASE m \notin L /\ All \in ToSet(r.inbox[m])
    BY <1>2, <2>2, GruntsGone
  <2>3. CASE m \notin L /\ All \notin ToSet(r.inbox[m])
    <3>1. r.inbox[m] = <<>> /\ r.grunts[m] = 0
      BY <1>1, <2>3 DEF InTune
    <3>2. GruntsLeft(0, <<>>) = 0
      BY <1>2, <3>1, GruntsBounded
    <3> QED  BY <2>3, <3>1, <3>2
  <2> QED  BY <2>1, <2>2, <2>3
<1>4. /\ b \in [Managers -> Seq(0 .. MaxWorkers)] /\ g \in [Managers -> 0 .. MaxWorkers]
      /\ \A m \in Managers : b[m] = <<>> /\ g[m] = IF m \in L THEN Len(r.workers[m]) ELSE 0
  <2>1. <<>> \in Seq(0 .. MaxWorkers) /\ 0 \in 0 .. MaxWorkers
    BY Numbers
  <2>2. \A m \in Managers : Grunts(m) \in 0 .. MaxWorkers
    BY <1>2, <1>3, <2>1
  <2>3. b \in [Managers -> Seq(0 .. MaxWorkers)] /\ \A m \in Managers : b[m] = <<>>
    BY <2>1
  <2> HIDE DEF Grunts, b
  <2> QED  BY <1>3, <2>2, <2>3
<1>5. q = [[r EXCEPT !.grunts = g] EXCEPT !.inbox = b]
  BY DEF AllAnswered
<1> HIDE DEF b, g
<1>6. q = Of(r.workers, r.kind, r.assigned, r.partner, b, g, r.copies, r.up)
  <2>1. PICK t : t = [r EXCEPT !.grunts = g]
    OBVIOUS
  <2>2. t = Of(r.workers, r.kind, r.assigned, r.partner, r.inbox, g, r.copies, r.up)
    BY <1>1, <2>1, IsOf DEF Of
  <2> QED  BY <1>5, <2>1, <2>2 DEF Of
<1>7. Sound(q) /\ q.workers = r.workers /\ q.kind = r.kind /\ q.inbox = b /\ q.grunts = g
  BY <1>1, <1>4, <1>6, Retuned
<1>8. q.up = r.up
  BY <1>6, OfFields
<1>9. Within(q, L)
  BY <1>1, <1>7 DEF Within
<1>10. \A m \in Managers : GruntsLeft(Len(r.workers[m]), <<>>) = Len(r.workers[m])
  BY <1>1, MessageTypes, EmptySeq, GruntsBounded
<1>11. InTune(q, L, L)
  BY <1>4, <1>7, <1>10 DEF InTune
<1> QED
  BY <1>4, <1>7, <1>8, <1>9, <1>11 DEF Fine

-----------------------------------------------------------------------------
(* Configurations.                                                         *)

AllDisks == UNION {ToSet(Drives[m]) : m \in Managers}
SomeDefault == Assignments \cup {"none"}
SomeName == SpecNames \cup {Idle}
TestSpecs == [id : SpecIds, name : SomeName, default : SomeDefault]

\* With the map M, which no method changes.
Configs(M) ==
    [tree : Trees, specs : Seq(TestSpecs), aspecs : [Ids -> Seq(SpecIds)],
     disks : [Ids -> Seq(AllDisks)], wname : [Ids -> Nat], map : {M}, left : Seq(Ids),
     ok : BOOLEAN, room : BOOLEAN]

\* The tree of the managers in L.
Grown(t, L) == Fine(t, L, L) /\ t.up = TRUE
\* No specification is in the list twice; Idle is the first.
Once(s) ==
    /\ s \in Seq(TestSpecs)
    /\ \A i, j \in DOMAIN s : s[i].id = s[j].id \/ s[i].name = s[j].name => i = j
ListWhole(s) == Once(s) /\ 1 \in DOMAIN s /\ s[1].name = Idle
IdsOf(s) == {s[i].id : i \in DOMAIN s}
AllListed(a, s) == a \in [Ids -> Seq(SpecIds)] /\ \A x \in Ids : ToSet(a[x]) \subseteq IdsOf(s)
DisksThere(d) ==
    /\ d \in [Ids -> Seq(AllDisks)]
    /\ \A x \in Ids : IsInjective(d[x]) /\ ToSet(d[x]) \subseteq ToSet(Drives[Home(x)])
Sane(r, L, M) ==
    /\ r \in Configs(M) /\ Grown(r.tree, L)
    /\ ListWhole(r.specs) /\ AllListed(r.aspecs, r.specs) /\ DisksThere(r.disks)

\* One part changes.
WithTree(r, t) == [r EXCEPT !.tree = t]
WithSpecs(r, s) == [r EXCEPT !.specs = s]
WithAssigned(r, a) == [r EXCEPT !.aspecs = a]
WithDisks(r, d) == [r EXCEPT !.disks = d]
WithNames(r, w) == [r EXCEPT !.wname = w]
WithLeft(r, l) == [r EXCEPT !.left = l]
WithOk(r, o) == [r EXCEPT !.ok = o]
WithRoom(r, o) == [r EXCEPT !.room = o]

-----------------------------------------------------------------------------
(* The configuration stays whole: Sane speaks of what the methods take and *)
(* return, and each loop over it is an instance of LoopEnds.               *)

\* The parts of a configuration.
LEMMA ConfigFields ==
  ASSUME NEW M, NEW r \in Configs(M)
  PROVE  /\ r.tree \in Trees /\ r.specs \in Seq(TestSpecs) /\ r.aspecs \in [Ids -> Seq(SpecIds)]
         /\ r.disks \in [Ids -> Seq(AllDisks)] /\ r.wname \in [Ids -> Nat] /\ r.map = M
         /\ r.left \in Seq(Ids) /\ r.ok \in BOOLEAN /\ r.room \in BOOLEAN
  BY DEF Configs

\* What becomes of a sane configuration when one part of it is replaced by a sane one.
LEMMA TreeSet ==
  ASSUME NEW r, NEW K, NEW M, Sane(r, K, M), NEW L, NEW t, Grown(t, L),
         NEW q, q = WithTree(r, t)
  PROVE  /\ Sane(q, L, M) /\ q.tree = t /\ q.specs = r.specs /\ q.aspecs = r.aspecs
         /\ q.disks = r.disks /\ q.wname = r.wname /\ q.left = r.left /\ q.ok = r.ok
<1>1. t \in Trees
  BY DEF Grown, Fine, Sound
<1>2. r \in Configs(M)
  BY DEF Sane
<1>3. /\ q \in Configs(M) /\ q.tree = t /\ q.specs = r.specs /\ q.aspecs = r.aspecs
      /\ q.disks = r.disks /\ q.wname = r.wname /\ q.left = r.left /\ q.ok = r.ok
  BY <1>1, <1>2 DEF Configs, WithTree
<1> QED  BY <1>3 DEF Sane
\* Another list of specifications.
LEMMA SpecsSet ==
  ASSUME NEW r, NEW L, NEW M, Sane(r, L, M), NEW s, ListWhole(s), AllListed(r.aspecs, s),
         NEW q, q = WithSpecs(r, s)
  PROVE  /\ Sane(q, L, M) /\ q.tree = r.tree /\ q.specs = s /\ q.aspecs = r.aspecs
         /\ q.disks = r.disks /\ q.wname = r.wname /\ q.left = r.left /\ q.ok = r.ok
<1>1. s \in Seq(TestSpecs)
  BY DEF ListWhole, Once
<1>2. r \in Configs(M)
  BY DEF Sane
<1>3. /\ q \in Configs(M) /\ q.tree = r.tree /\ q.specs = s /\ q.aspecs = r.aspecs
      /\ q.disks = r.disks /\ q.wname = r.wname /\ q.left = r.left /\ q.ok = r.ok
  BY <1>1, <1>2 DEF Configs, WithSpecs
<1> QED  BY <1>3 DEF Sane
\* Other assignments.
LEMMA AssignedSet ==
  ASSUME NEW r, NEW L, NEW M, Sane(r, L, M), NEW a, AllListed(a, r.specs),
         NEW q, q = WithAssigned(r, a)
  PROVE  /\ Sane(q, L, M) /\ q.tree = r.tree /\ q.specs = r.specs /\ q.aspecs = a
         /\ q.disks = r.disks /\ q.wname = r.wname /\ q.left = r.left /\ q.ok = r.ok
<1>1. a \in [Ids -> Seq(SpecIds)]
  BY DEF AllListed
<1>2. r \in Configs(M)
  BY DEF Sane
<1>3. /\ q \in Configs(M) /\ q.tree = r.tree /\ q.specs = r.specs /\ q.aspecs = a
      /\ q.disks = r.disks /\ q.wname = r.wname /\ q.left = r.left /\ q.ok = r.ok
  BY <1>1, <1>2 DEF Configs, WithAssigned
<1> QED  BY <1>3 DEF Sane
\* Other disks.
LEMMA DisksSet ==
  ASSUME NEW r, NEW L, NEW M, Sane(r, L, M), NEW d, DisksThere(d),
         NEW q, q = WithDisks(r, d)
  PROVE  /\ Sane(q, L, M) /\ q.tree = r.tree /\ q.specs = r.specs /\ q.aspecs = r.aspecs
         /\ q.disks = d /\ q.wname = r.wname /\ q.left = r.left /\ q.ok = r.ok
<1>1. d \in [Ids -> Seq(AllDisks)]
  BY DEF DisksThere
<1>2. r \in Configs(M)
  BY DEF Sane
<1>3. /\ q \in Configs(M) /\ q.tree = r.tree /\ q.specs = r.specs /\ q.aspecs = r.aspecs
      /\ q.disks = d /\ q.wname = r.wname /\ q.left = r.left /\ q.ok = r.ok
  BY <1>1, <1>2 DEF Configs, WithDisks
<1> QED  BY <1>3 DEF Sane
\* Names, workers left, and the two results.
LEMMA OtherSet ==
  ASSUME NEW r, NEW L, NEW M, Sane(r, L, M), NEW q,
         \/ \E w \in [Ids -> Nat] : q = WithNames(r, w)
         \/ \E l \in Seq(Ids) : q = WithLeft(r, l)
         \/ \E o \in BOOLEAN : q = WithOk(r, o) \/ q = WithRoom(r, o)
  PROVE  /\ Sane(q, L, M) /\ q.tree = r.tree /\ q.specs = r.specs /\ q.aspecs = r.aspecs
         /\ q.disks = r.disks
<1>1. r \in Configs(M)
  BY DEF Sane
<1>2. /\ q \in Configs(M) /\ q.tree = r.tree /\ q.specs = r.specs /\ q.aspecs = r.aspecs
      /\ q.disks = r.disks
  BY <1>1 DEF Configs, WithNames, WithLeft, WithOk, WithRoom
<1> QED  BY <1>2 DEF Sane

-----------------------------------------------------------------------------
(* The list of access specifications.                                      *)

\* There is always an id nobody uses: names differ, and there are more ids than names.
LEMMA NewIs ==
  ASSUME NEW r, NEW L, NEW M, r \in Configs(M), Once(r.specs), AllListed(r.aspecs, r.specs)
  PROVE  NewId(r) \in SpecIds /\ NewId(r) \notin IdsOf(r.specs)
<1> DEFINE s == r.specs
           A == UNION {ToSet(r.aspecs[x]) : x \in Ids}
           B == {e.id : e \in ToSet(s)}
           Used == B \cup A
           c == Cardinality(SpecNames)
           Held(j) == CHOOSE i \in DOMAIN s : s[i].id = j
           g == [j \in SpecIds |-> s[Held(j)].name]
<1>1. /\ NewId(r) = Min(SpecIds \ Used) /\ IdsOf(s) \subseteq Used /\ Used \subseteq IdsOf(s)
  <2>1. B = IdsOf(s)
    BY DEF IdsOf, ToSet
  <2>2. \A x \in Ids : ToSet(r.aspecs[x]) \subseteq IdsOf(s)
    BY DEF AllListed
  <2>3. NewId(r) = Min(SpecIds \ Used)
    BY DEF NewId
  <2>4. A \subseteq IdsOf(s)
    <3> HIDE DEF s, B
    <3> QED  BY <2>2
  <2> HIDE DEF s, A, B
  <2> QED  BY <2>1, <2>3, <2>4
<1>2. IsFiniteSet(SpecNames) /\ c \in Nat /\ SpecIds = 1 .. 2 * (c + 1)
  BY ConfigAssumption, FS_CardinalityType DEF ConfigAssumption, SpecIds
<1>3. IsFiniteSet(SomeName) /\ Cardinality(SomeName) <= c + 1 /\ Cardinality(SomeName) \in Nat
  <2>1. /\ IsFiniteSet(SomeName)
        /\ Cardinality(SomeName) = IF Idle \in SpecNames THEN c ELSE c + 1
    BY <1>2, FS_AddElement DEF SomeName
  <2> HIDE DEF c
  <2> QED  BY <1>2, <2>1
<1>4. SpecIds \ IdsOf(s) # {}
  <2> SUFFICES ASSUME SpecIds \subseteq IdsOf(s) PROVE FALSE
    OBVIOUS
  <2>1. ASSUME NEW j \in SpecIds
        PROVE  Held(j) \in DOMAIN s /\ s[Held(j)].id = j /\ g[j] = s[Held(j)].name
    <3>1. \E i \in DOMAIN s : s[i].id = j
      BY DEF IdsOf
    <3> QED  BY <3>1
  <2> HIDE DEF Held
  <2>2. \A i \in DOMAIN s : s[i].name \in SomeName
    <3>1. s \in Seq(TestSpecs)
      BY DEF Once
    <3>2. \A i \in DOMAIN s : s[i] \in TestSpecs
      BY <3>1
    <3> QED  BY <3>2 DEF TestSpecs
  <2>3. g \in [SpecIds -> SomeName]
    BY <2>1, <2>2
  <2>4. \A j, k \in SpecIds : g[j] = g[k] => j = k
    BY <2>1 DEF Once
  <2>5. g \in Injection(SpecIds, SomeName)
    <3> HIDE DEF g
    <3> QED  BY <2>3, <2>4 DEF Injection, IsInjective
  <2>6. Cardinality(SpecIds) <= Cardinality(SomeName)
    <3> HIDE DEF g
    <3> QED  BY <1>3, <2>5, FS_Injection
  <2>7. Cardinality(SpecIds) = 2 * (c + 1)
    <3> HIDE DEF c
    <3>1. PICK k \in Nat : k = 2 * (c + 1) /\ k # 0
      BY <1>2
    <3>2. Cardinality(1 .. k) = k
      BY <3>1, FS_Interval
    <3> QED  BY <1>2, <3>1, <3>2
  <2> HIDE DEF c
  <2> QED  BY <1>2, <1>3, <2>6, <2>7
<1>5. PICK F : F = SpecIds \ IdsOf(s)
  OBVIOUS
<1>6. F \subseteq Nat /\ F # {}
  BY <1>2, <1>4, <1>5
<1>7. PICK a \in F : \A k \in F : ~(k < a)
  BY <1>6, Smallest
<1>8. \A k \in F : a <= k
  BY <1>6, <1>7
<1>9. Min(F) \in F
  BY <1>8 DEF Min
<1>10. SpecIds \ Used = F
  BY <1>1, <1>5
<1> QED
  BY <1>1, <1>5, <1>9, <1>10

\* A specification of a new name at the end.
LEMMA OneMore ==
  ASSUME NEW s, Once(s), NEW e \in TestSpecs,
         \A i \in DOMAIN s : s[i].id # e.id /\ s[i].name # e.name,
         NEW t, t = Append(s, e)
  PROVE  /\ Once(t) /\ IdsOf(t) = IdsOf(s) \cup {e.id}
         /\ s = <<>> => t[1] = e /\ 1 \in DOMAIN t
         /\ 1 \in DOMAIN s => t[1] = s[1] /\ 1 \in DOMAIN t
<1>1. s \in Seq(TestSpecs)
  BY DEF Once
<1>2. /\ t \in Seq(TestSpecs) /\ Len(s) \in Nat /\ DOMAIN s = 1 .. Len(s)
      /\ DOMAIN t = 1 .. Len(s) + 1 /\ t[Len(s) + 1] = e
      /\ \A i \in DOMAIN s : i \in DOMAIN t /\ t[i] = s[i]
      /\ s = <<>> => Len(s) = 0
  BY <1>1
<1>3. \A i \in DOMAIN t : i \in DOMAIN s \/ i = Len(s) + 1
  BY <1>2
<1>4. \A i, j \in DOMAIN t : t[i].id = t[j].id \/ t[i].name = t[j].name => i = j
  BY <1>2, <1>3 DEF Once
<1>5. IdsOf(t) = IdsOf(s) \cup {e.id}
  BY <1>2, <1>3 DEF IdsOf
<1> QED
  BY <1>2, <1>4, <1>5 DEF Once

\* AccessSpecList::New.
LEMMA NewSane ==
  ASSUME NEW r, NEW L, NEW M, Sane(r, L, M), NEW n \in SomeName, ~HasSpec(r, n),
         NEW d \in SomeDefault, NEW q, q = New(r, n, d)
  PROVE  Sane(q, L, M) /\ q.tree = r.tree
<1>1. PICK e : e = [id |-> NewId(r), name |-> n, default |-> d]
  OBVIOUS
<1>2. PICK t : t = Append(r.specs, e)
  OBVIOUS
<1>3. ListWhole(r.specs) /\ Once(r.specs) /\ AllListed(r.aspecs, r.specs) /\ r \in Configs(M)
  BY DEF Sane, ListWhole
<1>4. NewId(r) \in SpecIds /\ NewId(r) \notin IdsOf(r.specs)
  BY <1>3, NewIs
<1>5. e \in TestSpecs /\ e.id = NewId(r) /\ e.name = n
  BY <1>1, <1>4 DEF TestSpecs
<1>6. \A i \in DOMAIN r.specs : r.specs[i].id # e.id /\ r.specs[i].name # e.name
  BY <1>4, <1>5 DEF IdsOf, HasSpec, ToSet
<1>7. ListWhole(t) /\ IdsOf(t) = IdsOf(r.specs) \cup {e.id}
  <2>1. PICK s : s = r.specs
    OBVIOUS
  <2>2. /\ Once(s) /\ 1 \in DOMAIN s /\ s[1].name = Idle /\ t = Append(s, e)
        /\ \A i \in DOMAIN s : s[i].id # e.id /\ s[i].name # e.name
    BY <1>2, <1>3, <1>6, <2>1 DEF ListWhole
  <2>3. Once(t) /\ IdsOf(t) = IdsOf(s) \cup {e.id} /\ t[1] = s[1] /\ 1 \in DOMAIN t
    <3>1. Once(s) /\ t = Append(s, e) /\ 1 \in DOMAIN s
      BY <2>2
    <3>2. \A i \in DOMAIN s : s[i].id # e.id /\ s[i].name # e.name
      BY <2>2
    <3>3. e \in TestSpecs
      BY <1>5
    <3> QED  BY <3>1, <3>2, <3>3, OneMore
  <2> QED  BY <2>1, <2>2, <2>3 DEF ListWhole
<1>8. AllListed(r.aspecs, t)
  <2>1. \A x \in Ids : ToSet(r.aspecs[x]) \subseteq IdsOf(t)
    BY <1>3, <1>7 DEF AllListed
  <2> QED  BY <1>3, <2>1 DEF AllListed
<1>9. q = WithSpecs(r, t)
  BY <1>1, <1>2 DEF New, WithSpecs
<1> QED
  BY <1>7, <1>8, <1>9, SpecsSet

\* AccessSpecList::DeleteAll leaves Idle, and nothing assigned.
LEMMA AllDeleted ==
  ASSUME NEW r, NEW L, NEW M, Sane(r, L, M), NEW q, q = DeleteAll(r)
  PROVE  Sane(q, L, M) /\ q.tree = r.tree /\ q.ok = r.ok
<1> DEFINE nothing == [x \in Ids |-> <<>>]
<1>1. PICK b : b = [r EXCEPT !.specs = <<>>, !.aspecs = nothing]
  OBVIOUS
<1>2. PICK e : e = [id |-> NewId(b), name |-> Idle, default |-> "none"]
  OBVIOUS
<1>3. r \in Configs(M) /\ nothing \in [Ids -> Seq(SpecIds)] /\ <<>> \in Seq(TestSpecs)
  BY DEF Sane
<1>4. /\ b \in Configs(M) /\ b.specs = <<>> /\ b.aspecs = nothing /\ b.tree = r.tree
      /\ b.disks = r.disks /\ b.ok = r.ok
  <2> HIDE DEF nothing
  <2> QED  BY <1>1, <1>3 DEF Configs
<1>5. Once(<<>>) /\ DOMAIN <<>> = {} /\ IdsOf(<<>>) = {}
  BY <1>3 DEF Once, IdsOf
<1>6. AllListed(nothing, <<>>)
  <2>1. \A x \in Ids : ToSet(nothing[x]) = {}
    BY DEF ToSet
  <2> HIDE DEF nothing
  <2> QED  BY <1>3, <2>1 DEF AllListed
<1> HIDE DEF nothing
<1>7. NewId(b) \in SpecIds
  BY <1>4, <1>5, <1>6, NewIs
<1>8. e \in TestSpecs /\ e.name = Idle /\ e.id = NewId(b)
  BY <1>2, <1>7 DEF TestSpecs, SomeName, SomeDefault
<1>9. PICK t : t = Append(<<>>, e)
  OBVIOUS
<1>10. ListWhole(t)
  BY <1>5, <1>8, <1>9, OneMore DEF ListWhole
<1>11. AllListed(nothing, t)
  <2>1. IdsOf(<<>>) \subseteq IdsOf(t)
    BY <1>5
  <2> QED  BY <1>6, <2>1, <1>5 DEF AllListed
<1>12. q = [b EXCEPT !.specs = t]
  BY <1>1, <1>2, <1>4, <1>9 DEF DeleteAll, New, nothing
<1>13. /\ q \in Configs(M) /\ q.specs = t /\ q.aspecs = nothing /\ q.tree = r.tree
       /\ q.disks = r.disks /\ q.ok = r.ok
  <2>1. t \in Seq(TestSpecs)
    BY <1>10 DEF ListWhole, Once
  <2> QED  BY <1>4, <1>12, <2>1 DEF Configs
<1> QED
  BY <1>10, <1>11, <1>13 DEF Sane

\* One specification of the file is new, or changes the one of its name.
SpecSaved(e) == e.name \in SomeName /\ e.default \in SomeDefault
\* One specification of the file, new or with another default.
LEMMA LoadSpecSane ==
  ASSUME NEW r, NEW L, NEW M, Sane(r, L, M), NEW s, SpecSaved(s), NEW q, q = LoadSpec(r, s)
  PROVE  Sane(q, L, M) /\ q.tree = r.tree
<1>1. CASE ~HasSpec(r, s.name)
  BY <1>1, NewSane DEF LoadSpec, SpecSaved
<1>2. CASE HasSpec(r, s.name)
  <2> DEFINE old == r.specs
             Renewed(e) == IF e.name = s.name THEN [e EXCEPT !.default = s.default] ELSE e
             t == [i \in DOMAIN old |-> Renewed(old[i])]
  <2>1. q = WithSpecs(r, t)
    BY <1>2 DEF LoadSpec, WithSpecs
  <2>2. /\ old \in Seq(TestSpecs) /\ 1 \in DOMAIN old /\ old[1].name = Idle
        /\ AllListed(r.aspecs, old)
        /\ \A i, j \in DOMAIN old : old[i].id = old[j].id \/ old[i].name = old[j].name => i = j
    BY DEF Sane, ListWhole, Once
  <2> HIDE DEF old
  <2>3. ASSUME NEW e \in TestSpecs
        PROVE  Renewed(e) \in TestSpecs /\ Renewed(e).id = e.id /\ Renewed(e).name = e.name
    BY DEF SpecSaved, TestSpecs
  <2> HIDE DEF Renewed
  <2>4. /\ t \in Seq(TestSpecs) /\ DOMAIN t = DOMAIN old
        /\ \A i \in DOMAIN old : t[i] = Renewed(old[i]) /\ old[i] \in TestSpecs
    BY <2>2, <2>3
  <2> HIDE DEF t
  <2>5. \A i \in DOMAIN old : t[i].id = old[i].id /\ t[i].name = old[i].name
    BY <2>3, <2>4
  <2>6. ListWhole(t) /\ IdsOf(t) = IdsOf(old)
    BY <2>2, <2>4, <2>5 DEF ListWhole, Once, IdsOf
  <2>7. AllListed(r.aspecs, t)
    BY <2>2, <2>6 DEF AllListed
  <2> QED  BY <2>1, <2>6, <2>7, SpecsSet
<1> QED
  BY <1>1, <1>2

\* AccessSpecList::LoadConfig.
SpecsSaved(s) == Len(s) \in Nat /\ \A i \in 1 .. Len(s) : SpecSaved(s[i])
\* All of them, on top of the list or instead of it.
LEMMA LoadSpecsSane ==
  ASSUME NEW r, NEW L, NEW M, Sane(r, L, M), file.specs # Bad => SpecsSaved(file.specs),
         NEW replace, NEW q, q = LoadSpecs(r, replace)
  PROVE  Sane(q, L, M)
<1>1. PICK start : start = IF replace THEN DeleteAll(r) ELSE r
  OBVIOUS
<1>2. Sane(start, L, M)
  BY <1>1, AllDeleted
<1>3. CASE file.specs = Bad
  <2>1. q = WithOk(start, FALSE)
    BY <1>1, <1>3 DEF LoadSpecs, Failed, WithOk
  <2> QED  BY <1>2, <2>1, OtherSet
<1>4. CASE file.specs # Bad
  <2> DEFINE n == Len(file.specs)
             P == [i \in 0 .. n |-> {c \in Configs(M) : Sane(c, L, M)}]
             Made(f) == f = [i \in 0 .. n |-> IF i = 0 THEN start
                                              ELSE LoadSpec(f[i - 1], file.specs[i])]
             F == CHOOSE f : Made(f)
  <2>1. q = F[n]
    BY <1>1, <1>4 DEF LoadSpecs, Repeat
  <2>2. n \in Nat
    BY <1>4 DEF SpecsSaved
  <2>3. \A f : Made(f) <=> Loop(f, <<"spec">>, start, n)
    BY DEF Loop, Turn
  <2>4. start \in P[0]
    BY <1>2, <2>2 DEF Sane
  <2>5. ASSUME NEW i \in 1 .. n, NEW c \in P[i - 1] PROVE Turn(<<"spec">>, c, i) \in P[i]
    <3>1. Sane(c, L, M) /\ SpecSaved(file.specs[i])
      BY <1>4, <2>2 DEF SpecsSaved
    <3>2. PICK d : d = LoadSpec(c, file.specs[i])
      OBVIOUS
    <3>3. Sane(d, L, M)
      BY <3>1, <3>2, LoadSpecSane
    <3>4. d \in P[i]
      BY <2>2, <3>3 DEF Sane
    <3> QED  BY <3>2, <3>4 DEF Turn
  <2> HIDE DEF P, n, Made
  <2>6. (\E f : Made(f)) /\ \A f : Made(f) => f[n] \in P[n]
    BY <2>2, <2>3, <2>4, <2>5, LoopEnds
  <2>7. F[n] \in P[n]
    BY <2>6
  <2> QED  BY <2>1, <2>2, <2>7 DEF P, n
<1> QED
  BY <1>3, <1>4

-----------------------------------------------------------------------------
(* Workers that are added while a file is loaded.                          *)

\* Ids of listed specifications, as a list.
LEMMA IdList ==
  ASSUME NEW s, Once(s), NEW c, Len(c) \in Nat, DOMAIN c = 1 .. Len(c),
         \A i \in DOMAIN c : c[i] \in ToSet(s),
         NEW a, a = [i \in DOMAIN c |-> c[i].id]
  PROVE  a \in Seq(SpecIds) /\ ToSet(a) \subseteq IdsOf(s)
<1>1. s \in Seq(TestSpecs)
  BY DEF Once
<1>2. \A e \in ToSet(s) : e.id \in SpecIds /\ e.id \in IdsOf(s)
  <2>1. \A i \in DOMAIN s : s[i] \in TestSpecs /\ s[i].id \in IdsOf(s)
    BY <1>1 DEF IdsOf
  <2>2. \A e \in TestSpecs : e.id \in SpecIds
    BY DEF TestSpecs
  <2> QED  BY <2>1, <2>2 DEF ToSet
<1>3. \A i \in 1 .. Len(c) : a[i] \in SpecIds /\ a[i] \in IdsOf(s)
  BY <1>2
<1>4. a \in Seq(SpecIds) /\ DOMAIN a = 1 .. Len(c)
  BY <1>3
<1> QED
  BY <1>3, <1>4 DEF ToSet

\* Worker::AssignDefaultAccessSpecs.
LEMMA DefaultsListed ==
  ASSUME NEW r, Once(r.specs), NEW k, NEW a, a = DefaultSpecs(r, k)
  PROVE  a \in Seq(SpecIds) /\ ToSet(a) \subseteq IdsOf(r.specs)
<1> DEFINE s == r.specs
           places == {i \in DOMAIN s :
                        s[i].default \in {"all", IF k = "disk" THEN "disk" ELSE "net"}}
<1>1. PICK c : c = At(s, places)
  OBVIOUS
<1>2. a = [i \in DOMAIN c |-> c[i].id]
  BY <1>1 DEF DefaultSpecs, Those
<1>3. s \in Seq(TestSpecs) /\ places \subseteq DOMAIN s
  BY DEF Once
<1>4. c \in Seq(TestSpecs) /\ ToSet(c) = {s[i] : i \in places}
  <2> HIDE DEF s, places
  <2> QED  BY <1>1, <1>3, Selected
<1>5. /\ Len(c) \in Nat /\ DOMAIN c = 1 .. Len(c) /\ \A i \in DOMAIN c : c[i] \in ToSet(s)
  <2>1. Len(c) \in Nat /\ DOMAIN c = 1 .. Len(c) /\ \A i \in DOMAIN c : c[i] \in ToSet(c)
    BY <1>4 DEF ToSet
  <2>2. ToSet(c) \subseteq ToSet(s)
    BY <1>3, <1>4 DEF ToSet
  <2> QED  BY <2>1, <2>2
<1> HIDE DEF s
<1> QED
  BY <1>2, <1>5, IdList DEF s

\* CGalileoView::AddWorker.
LEMMA CreatedSane ==
  ASSUME NEW r, NEW L, NEW M, Sane(r, L, M), NEW m \in Managers, m \in L, Room(r.tree, m),
         NEW k \in {"disk", "server"}, NEW n \in Nat, NEW q, q = Created(r, m, k, n)
  PROVE  /\ Sane(q, L, M) /\ Fresh(r.tree, m) \in Ids /\ q.tree.kind[Fresh(r.tree, m)] = k
         /\ q.specs = r.specs /\ Len(q.tree.workers[m]) = Len(r.tree.workers[m]) + 1
<1> DEFINE x == Fresh(r.tree, m)
           w == [r.wname EXCEPT ![x] = n]
           d == [r.disks EXCEPT ![x] = <<>>]
<1>1. PICK t : t = AddWorker(r.tree, m, k)
  OBVIOUS
<1>2. PICK a : a = DefaultSpecs(r, k)
  OBVIOUS
<1>3. /\ r \in Configs(M) /\ Fine(r.tree, L, L) /\ r.tree.up = TRUE /\ r.tree \in Trees
      /\ Sound(r.tree) /\ ListWhole(r.specs)
      /\ Once(r.specs) /\ AllListed(r.aspecs, r.specs) /\ DisksThere(r.disks)
  BY DEF Sane, Grown, ListWhole, Fine, Sound
<1>4. x \in Ids
  BY <1>3, FreshIs
<1>5. t = Added(r.tree, m, k, r.tree.partner, r.tree.copies)
  BY <1>1, <1>3, AddWorkerIs
<1>6. Fine(t, L, L)
  BY <1>3, <1>5, AddedFine DEF NoClient
<1>7. /\ t.up = TRUE /\ t.kind = [r.tree.kind EXCEPT ![x] = k]
      /\ t.workers = [r.tree.workers EXCEPT ![m] = Append(@, x)]
  BY <1>3, <1>5, OfFields DEF Added
<1>8. /\ t.kind[x] = k /\ Len(t.workers[m]) = Len(r.tree.workers[m]) + 1
  <2>1. /\ r.tree.kind \in [Ids -> Kinds] /\ r.tree.workers \in [Managers -> Seq(Ids)]
    BY <1>3, TreeFields
  <2> HIDE DEF x
  <2> QED  BY <1>4, <1>7, <2>1
<1>9. AllListed([r.aspecs EXCEPT ![x] = a], r.specs)
  <2>1. a \in Seq(SpecIds) /\ ToSet(a) \subseteq IdsOf(r.specs)
    BY <1>2, <1>3, DefaultsListed
  <2> HIDE DEF x
  <2> QED  BY <1>3, <1>4, <2>1 DEF AllListed
<1>10. DisksThere(d)
  <2>1. <<>> \in Seq(AllDisks) /\ IsInjective(<<>>) /\ ToSet(<<>>) = {}
    BY DEF IsInjective, ToSet
  <2> HIDE DEF x
  <2> QED  BY <1>3, <1>4, <2>1 DEF DisksThere
<1>11. w \in [Ids -> Nat]
  <2>1. r.wname \in [Ids -> Nat]
    BY <1>3 DEF Configs
  <2> HIDE DEF x
  <2> QED  BY <1>4, <2>1
<1>12. q = [r EXCEPT !.tree = t, !.wname[x] = n, !.disks[x] = <<>>, !.aspecs[x] = a]
  BY <1>1, <1>2 DEF Created
<1>13. PICK q1 : q1 = WithTree(r, t)
  OBVIOUS
<1>14. PICK q2 : q2 = WithNames(q1, w)
  OBVIOUS
<1>15. PICK q3 : q3 = WithDisks(q2, d)
  OBVIOUS
<1>16. q = WithAssigned(q3, [r.aspecs EXCEPT ![x] = a])
  <2> HIDE DEF x
  <2> QED  BY <1>3, <1>12, <1>13, <1>14, <1>15
              DEF Configs, WithTree, WithNames, WithDisks, WithAssigned
<1> HIDE DEF x, w, d
<1>17. /\ Sane(q1, L, M) /\ q1.tree = t /\ q1.specs = r.specs /\ q1.disks = r.disks
  <2>1. Grown(t, L)
    BY <1>6, <1>7 DEF Grown
  <2> QED  BY <1>13, <2>1, TreeSet
<1>18. Sane(q2, L, M) /\ q2.tree = t /\ q2.specs = r.specs
  BY <1>11, <1>14, <1>17, OtherSet
<1>19. Sane(q3, L, M) /\ q3.tree = t /\ q3.specs = r.specs
  BY <1>10, <1>15, <1>18, DisksSet
<1>20. Sane(q, L, M) /\ q.tree = t /\ q.specs = r.specs
  <2>1. PICK b : b = [r.aspecs EXCEPT ![x] = a]
    OBVIOUS
  <2> QED  BY <1>9, <1>16, <1>19, <2>1, AssignedSet
<1> QED
  BY <1>4, <1>8, <1>20 DEF x

-----------------------------------------------------------------------------
(* What a worker is given from the file.                                   *)

\* One list after another.
LEMMA Joined ==
  \A S : \A s, t \in Seq(S) :
     /\ s \o t \in Seq(S) /\ ToSet(s \o t) = ToSet(s) \cup ToSet(t)
     /\ IsInjective(s) /\ IsInjective(t) /\ ToSet(s) \cap ToSet(t) = {} => IsInjective(s \o t)
<1> SUFFICES ASSUME NEW S, NEW s \in Seq(S), NEW t \in Seq(S)
             PROVE  /\ s \o t \in Seq(S) /\ ToSet(s \o t) = ToSet(s) \cup ToSet(t)
                    /\ IsInjective(s) /\ IsInjective(t) /\ ToSet(s) \cap ToSet(t) = {}
                          => IsInjective(s \o t)
  OBVIOUS
<1> DEFINE m == Len(s)
           n == Len(t)
<1>0. PICK j : j = s \o t
  OBVIOUS
<1>1. /\ m \in Nat /\ n \in Nat /\ DOMAIN s = 1 .. m /\ DOMAIN t = 1 .. n
      /\ j \in Seq(S) /\ DOMAIN j = 1 .. m + n
      /\ \A i \in 1 .. m : j[i] = s[i]
      /\ \A i \in 1 .. n : j[m + i] = t[i]
  BY <1>0
<1> HIDE DEF m, n
<1>2. \A i \in 1 .. m + n : i \in 1 .. m \/ \E k \in 1 .. n : i = m + k
  <2> SUFFICES ASSUME NEW i \in 1 .. m + n, i \notin 1 .. m PROVE \E k \in 1 .. n : i = m + k
    OBVIOUS
  <2>1. i - m \in 1 .. n /\ i = m + (i - m)
    BY <1>1
  <2> QED  BY <2>1
<1>3. \A k \in 1 .. n : m + k \in 1 .. m + n
  BY <1>1
<1>4. \A i \in 1 .. m : i \in 1 .. m + n
  BY <1>1
<1>5. ToSet(j) = ToSet(s) \cup ToSet(t)
  <2>1. /\ ToSet(j) = {j[i] : i \in 1 .. m + n} /\ ToSet(s) = {s[i] : i \in 1 .. m}
        /\ ToSet(t) = {t[i] : i \in 1 .. n}
    BY <1>1 DEF ToSet
  <2>2. ASSUME NEW i \in 1 .. m + n PROVE j[i] \in ToSet(s) \cup ToSet(t)
    <3>1. CASE i \in 1 .. m
      BY <1>1, <2>1, <3>1
    <3>2. CASE i \notin 1 .. m
      <4>1. PICK k \in 1 .. n : i = m + k
        BY <1>2, <3>2
      <4>2. j[i] = t[k]
        BY <1>1, <4>1
      <4> QED  BY <2>1, <4>2
    <3> QED  BY <3>1, <3>2
  <2>3. \A i \in 1 .. m : s[i] \in ToSet(j)
    BY <1>1, <1>4, <2>1
  <2>4. \A i \in 1 .. n : t[i] \in ToSet(j)
    BY <1>1, <1>3, <2>1
  <2> QED  BY <2>1, <2>2, <2>3, <2>4
<1>6. ASSUME IsInjective(s), IsInjective(t), ToSet(s) \cap ToSet(t) = {} PROVE IsInjective(j)
  <2>1. /\ \A a, b \in 1 .. m : s[a] = s[b] => a = b
        /\ \A a, b \in 1 .. n : t[a] = t[b] => a = b
        /\ \A a \in 1 .. m, b \in 1 .. n : s[a] # t[b]
    <3>1. \A a \in 1 .. m, b \in 1 .. n : s[a] \in ToSet(s) /\ t[b] \in ToSet(t)
      BY <1>1 DEF ToSet
    <3>2. \A a \in 1 .. m, b \in 1 .. n : s[a] # t[b]
      BY <1>6, <3>1
    <3> QED  BY <1>1, <1>6, <3>2 DEF IsInjective
  <2>2. ASSUME NEW a \in 1 .. m + n, NEW b \in 1 .. m + n, j[a] = j[b] PROVE a = b
    <3>1. CASE a \in 1 .. m /\ b \in 1 .. m
      BY <1>1, <2>1, <2>2, <3>1
    <3>2. CASE a \in 1 .. m /\ b \notin 1 .. m
      <4>1. PICK k \in 1 .. n : b = m + k
        BY <1>2, <3>2
      <4>2. s[a] = t[k]
        BY <1>1, <2>2, <3>2, <4>1
      <4> QED  BY <2>1, <3>2, <4>2
    <3>3. CASE a \notin 1 .. m /\ b \in 1 .. m
      <4>1. PICK k \in 1 .. n : a = m + k
        BY <1>2, <3>3
      <4>2. s[b] = t[k]
        BY <1>1, <2>2, <3>3, <4>1
      <4> QED  BY <2>1, <3>3, <4>2
    <3>4. CASE a \notin 1 .. m /\ b \notin 1 .. m
      <4>1. PICK k \in 1 .. n : a = m + k
        BY <1>2, <3>4
      <4>2. PICK l \in 1 .. n : b = m + l
        BY <1>2, <3>4
      <4>3. t[k] = t[l]
        BY <1>1, <2>2, <4>1, <4>2
      <4> QED  BY <2>1, <4>1, <4>2, <4>3
    <3> QED  BY <3>1, <3>2, <3>3, <3>4
  <2> QED  BY <1>1, <2>2 DEF IsInjective
<1> QED
  BY <1>0, <1>1, <1>5, <1>6, Zenon

\* A worker of a file, whose managers are ms.
WorkerSaved(w, ms) ==
    /\ w.name \in Nat /\ w.kind \in {"disk", "server"}
    /\ w.specs \in Seq(SomeName) /\ w.disks \in Seq(AllDisks) /\ IsInjective(w.disks)
    /\ w.target # None =>
          \E j \in 1 .. Len(ms) : ms[j].name = w.target.name /\ ms[j].id = w.target.id

\* Its assignments, as far as they are in the list.
LEMMA LoadAssignedSane ==
  ASSUME NEW r, NEW L, NEW M, Sane(r, L, M), NEW x \in Ids,
         NEW w, w.specs \in Seq(SomeName), NEW q, q = LoadAssigned(r, x, w)
  PROVE  Sane(q, L, M) /\ q.tree = r.tree
<1> DEFINE s == w.specs
           places == {i \in DOMAIN s : HasSpec(r, s[i])}
<1>1. PICK known : known = At(s, places)
  OBVIOUS
<1>2. PICK c : c = [i \in DOMAIN known |-> RefByName(r, known[i])]
  OBVIOUS
<1>3. PICK a : a = [i \in DOMAIN c |-> c[i].id]
  OBVIOUS
<1>4. PICK l : l = r.aspecs[x] \o a
  OBVIOUS
<1>5. q = WithAssigned(r, [r.aspecs EXCEPT ![x] = l])
  <2>1. known = Those(s, LAMBDA n : HasSpec(r, n))
    BY <1>1 DEF Those
  <2>2. a = [i \in DOMAIN known |-> RefByName(r, known[i]).id]
    BY <1>2, <1>3
  <2> QED  BY <1>4, <2>1, <2>2 DEF LoadAssigned, WithAssigned
<1>6. known \in Seq(SomeName) /\ ToSet(known) = {s[i] : i \in places}
  <2>1. s \in Seq(SomeName) /\ places \subseteq DOMAIN s
    OBVIOUS
  <2> HIDE DEF s, places
  <2> QED  BY <1>1, <2>1, Selected
<1>7. /\ Len(known) \in Nat /\ DOMAIN known = 1 .. Len(known)
      /\ \A i \in DOMAIN known : HasSpec(r, known[i])
  BY <1>6 DEF ToSet
<1>8. \A i \in DOMAIN known : c[i] \in ToSet(r.specs)
  BY <1>2, <1>7 DEF RefByName, HasSpec
<1>9. Once(r.specs) /\ AllListed(r.aspecs, r.specs)
  BY DEF Sane, ListWhole
<1>10. Len(c) \in Nat /\ DOMAIN c = 1 .. Len(c) /\ DOMAIN c = DOMAIN known
  BY <1>2, <1>7
<1>11. a \in Seq(SpecIds) /\ ToSet(a) \subseteq IdsOf(r.specs)
  BY <1>3, <1>8, <1>9, <1>10, IdList
<1>12. /\ r.aspecs \in [Ids -> Seq(SpecIds)]
       /\ \A y \in Ids : ToSet(r.aspecs[y]) \subseteq IdsOf(r.specs)
  BY <1>9 DEF AllListed
<1>13. l \in Seq(SpecIds) /\ ToSet(l) \subseteq IdsOf(r.specs)
  <2>1. r.aspecs[x] \in Seq(SpecIds) /\ ToSet(r.aspecs[x]) \subseteq IdsOf(r.specs)
    BY <1>12
  <2>2. PICK u : u = r.aspecs[x]
    OBVIOUS
  <2>3. u \in Seq(SpecIds) /\ l = u \o a
    BY <1>4, <2>1, <2>2
  <2>4. l \in Seq(SpecIds) /\ ToSet(l) = ToSet(u) \cup ToSet(a)
    <3>1. \A v, z \in Seq(SpecIds) :
             v \o z \in Seq(SpecIds) /\ ToSet(v \o z) = ToSet(v) \cup ToSet(z)
      BY Joined
    <3>2. u \o a \in Seq(SpecIds) /\ ToSet(u \o a) = ToSet(u) \cup ToSet(a)
      BY <1>11, <2>3, <3>1, Zenon
    <3> QED  BY <2>3, <3>2
  <2> QED  BY <1>11, <2>1, <2>2, <2>4
<1>14. PICK b : b = [r.aspecs EXCEPT ![x] = l]
  OBVIOUS
<1>15. AllListed(b, r.specs)
  BY <1>12, <1>13, <1>14 DEF AllListed
<1> QED
  BY <1>5, <1>14, <1>15, AssignedSet

\* Its disks, up to one that is not there.
LEMMA LoadDisksSane ==
  ASSUME NEW r, NEW L, NEW M, Sane(r, L, M), NEW x \in Ids,
         NEW w, w.disks \in Seq(AllDisks), IsInjective(w.disks), NEW q, q = LoadDisks(r, x, w)
  PROVE  Sane(q, L, M)
<1> DEFINE D == ToSet(Drives[Home(x)])
<1>1. PICK s : s = w.disks
  OBVIOUS
<1> DEFINE H == {i \in 1 .. Len(s) : s[i] \notin D}
<1>2. PICK missing : missing = IF H # {} THEN Min(H) ELSE 0
  OBVIOUS
<1>3. PICK there : there = IF missing = 0 THEN s ELSE SubSeq(s, 1, missing - 1)
  OBVIOUS
<1>4. PICK old : old = r.disks[x]
  OBVIOUS
<1> DEFINE places == {i \in DOMAIN there : there[i] \notin ToSet(old)}
<1>5. PICK c : c = At(there, places)
  OBVIOUS
<1>6. PICK b : b = [r.disks EXCEPT ![x] = old \o c]
  OBVIOUS
<1>7. PICK q1 : q1 = WithDisks(r, b)
  OBVIOUS
<1>8. PICK ok \in BOOLEAN : ok = (missing = 0)
  OBVIOUS
<1>9. q = WithOk(q1, ok)
  <2>1. missing = SelectInSeq(w.disks, LAMBDA d : d \notin ToSet(Drives[Home(x)]))
    BY <1>1, <1>2 DEF SelectInSeq
  <2>2. c = Those(there, LAMBDA d : d \notin ToSet(r.disks[x]))
    BY <1>4, <1>5 DEF Those
  <2>3. q = [r EXCEPT !.disks[x] = @ \o c, !.ok = missing = 0]
    BY <1>1, <1>3, <2>1, <2>2 DEF LoadDisks
  <2>4. r \in Configs(M)
    BY DEF Sane
  <2> HIDE DEF H, places
  <2> QED  BY <1>4, <1>6, <1>7, <1>8, <2>3, <2>4 DEF WithOk, WithDisks, Configs
<1>10. /\ s \in Seq(AllDisks) /\ IsInjective(s) /\ Len(s) \in Nat /\ DOMAIN s = 1 .. Len(s)
  BY <1>1
<1>11. /\ H = {} => missing = 0
       /\ H # {} => missing \in H /\ missing # 0 /\ \A j \in H : ~(j < missing)
  <2>1. H \subseteq 1 .. Len(s)
    OBVIOUS
  <2> HIDE DEF H
  <2> QED  BY <1>2, <1>10, <2>1, Lowest
<1>12. /\ there \in Seq(AllDisks) /\ IsInjective(there) /\ Len(there) \in Nat
       /\ DOMAIN there = 1 .. Len(there) /\ \A i \in DOMAIN there : there[i] \in D
  <2>1. CASE missing = 0
    <3>1. \A i \in 1 .. Len(s) : s[i] \in D
      BY <1>11, <2>1
    <3> QED  BY <1>3, <1>10, <2>1, <3>1
  <2>2. CASE missing # 0
    <3>1. missing \in 1 .. Len(s) /\ \A i \in 1 .. Len(s) : i < missing => s[i] \in D
      BY <1>11, <2>2
    <3>2. PICK k \in Nat : k = missing - 1 /\ k <= Len(s) /\ k < missing
      BY <1>10, <3>1
    <3>3. /\ there \in Seq(AllDisks) /\ Len(there) = k /\ DOMAIN there = 1 .. k
          /\ \A i \in 1 .. k : there[i] = s[i]
      <4>1. there = SubSeq(s, 1, k)
        BY <1>3, <2>2, <3>2
      <4> QED  BY <1>10, <3>2, <4>1
    <3>4. \A i \in 1 .. k : i \in 1 .. Len(s) /\ i < missing
      BY <1>10, <3>1, <3>2
    <3> HIDE DEF D
    <3> QED  BY <1>10, <3>1, <3>3, <3>4 DEF IsInjective
  <2> QED  BY <2>1, <2>2
<1>13. /\ c \in Seq(AllDisks) /\ IsInjective(c) /\ ToSet(c) = {there[i] : i \in places}
  <2>1. places \subseteq DOMAIN there
    OBVIOUS
  <2> HIDE DEF places
  <2> QED  BY <1>5, <1>12, <2>1, Selected
<1>14. ToSet(c) \subseteq D /\ ToSet(old) \cap ToSet(c) = {}
  <2> HIDE DEF D
  <2> QED  BY <1>12, <1>13
<1>15. DisksThere(r.disks)
  BY DEF Sane
<1>16. old \in Seq(AllDisks) /\ IsInjective(old) /\ ToSet(old) \subseteq D
  BY <1>4, <1>15 DEF DisksThere
<1>17. PICK j : j = old \o c
  OBVIOUS
<1>18. j \in Seq(AllDisks) /\ ToSet(j) = ToSet(old) \cup ToSet(c) /\ IsInjective(j)
  <2>1. old \in Seq(AllDisks) /\ c \in Seq(AllDisks)
    BY <1>13, <1>16
  <2>2. /\ old \o c \in Seq(AllDisks) /\ ToSet(old \o c) = ToSet(old) \cup ToSet(c)
        /\ IsInjective(old) /\ IsInjective(c) /\ ToSet(old) \cap ToSet(c) = {}
              => IsInjective(old \o c)
    BY <2>1, Joined, Zenon
  <2> HIDE DEF D, places
  <2> QED  BY <1>13, <1>14, <1>16, <1>17, <2>2
<1>19. b = [r.disks EXCEPT ![x] = j] /\ ToSet(j) \subseteq D
  BY <1>6, <1>14, <1>16, <1>17, <1>18
<1>20. DisksThere(b)
  <2> HIDE DEF places, H
  <2> QED  BY <1>15, <1>18, <1>19 DEF DisksThere
<1>21. Sane(q1, L, M)
  BY <1>7, <1>20, DisksSet
<1> QED
  BY <1>9, <1>21, OtherSet

\* The managers of the file, which the map M has, are among those in L.
Resolved(M, L) ==
    /\ L \subseteq Managers
    /\ \A j \in 1 .. Len(file.managers) :
          Retrieve(M, file.managers[j].name, file.managers[j].id) \in L
\* A server gets its target anew.
LEMMA LoadTargetSane ==
  ASSUME NEW r, NEW L, NEW M, Sane(r, L, M), Resolved(M, L), NEW x \in Ids,
         r.tree.kind[x] = "server", NEW w, w.target # None, WorkerSaved(w, file.managers),
         NEW q, q = LoadTarget(r, x, w)
  PROVE  Sane(q, L, M)
<1>1. PICK far : far = Retrieve(M, w.target.name, w.target.id)
  OBVIOUS
<1>2. far \in L /\ far \in Managers /\ far # None
  <2>1. PICK j \in 1 .. Len(file.managers) :
           file.managers[j].name = w.target.name /\ file.managers[j].id = w.target.id
    BY DEF WorkerSaved
  <2>2. far \in L
    BY <1>1, <2>1 DEF Resolved
  <2> QED  BY <2>2, PartnersAssumption DEF Resolved, PartnersAssumption
<1>3. r \in Configs(M) /\ Fine(r.tree, L, L) /\ r.tree.up = TRUE /\ r.map = M
  BY ConfigFields DEF Sane, Grown
<1>4. PICK t : t = RemoveTargets(r.tree, x)
  OBVIOUS
<1>5. /\ Fine(t, L, L) /\ t.partner[x] = None /\ t.up = TRUE /\ t.kind[x] = "server"
  BY <1>3, <1>4, TargetsRemoved
<1>6. PICK without : without = WithTree(r, t)
  OBVIOUS
<1>7. Sane(without, L, M) /\ without.tree = t
  <2>1. Grown(t, L)
    BY <1>5 DEF Grown
  <2> QED  BY <1>6, <2>1, TreeSet
<1>8. \/ q = WithOk(without, FALSE)
      \/ q = WithRoom(WithOk(without, FALSE), FALSE)
      \/ q = [without EXCEPT !.tree = Assign(@, x, far)]
  <2>1. without = [r EXCEPT !.tree = RemoveTargets(@, x)]
    BY <1>4, <1>6 DEF WithTree
  <2> QED  BY <1>1, <1>2, <1>3, <2>1 DEF LoadTarget, Failed, NoRoom, WithOk, WithRoom
<1>9. CASE q = WithOk(without, FALSE)
  BY <1>7, <1>9, OtherSet
<1>10. CASE q = WithRoom(WithOk(without, FALSE), FALSE)
  <2>1. PICK c : c = WithOk(without, FALSE)
    OBVIOUS
  <2>2. Sane(c, L, M)
    BY <1>7, <2>1, OtherSet
  <2> QED  BY <1>10, <2>1, <2>2, OtherSet
<1>11. CASE q = [without EXCEPT !.tree = Assign(@, x, far)]
  <2>1. PICK a : a = Assign(t, x, far)
    OBVIOUS
  <2>2. Fine(a, L, L) /\ a.up = TRUE
    BY <1>2, <1>5, <2>1, AssignFine
  <2>3. q = WithTree(without, a)
    BY <1>7, <1>11, <2>1 DEF WithTree
  <2>4. Grown(a, L)
    BY <2>2 DEF Grown
  <2> QED  BY <1>7, <2>3, <2>4, TreeSet
<1> QED
  BY <1>8, <1>9, <1>10, <1>11

\* Worker::LoadConfig.
LEMMA LoadWorkerSane ==
  ASSUME NEW r, NEW L, NEW M, Sane(r, L, M), Resolved(M, L), NEW x \in Ids,
         NEW w, WorkerSaved(w, file.managers), r.tree.kind[x] = w.kind, NEW parts,
         NEW q, q = LoadWorker(r, x, w, parts)
  PROVE  Sane(q, L, M)
<1>1. PICK told : told = IF "assigned" \in parts THEN LoadAssigned(r, x, w) ELSE r
  OBVIOUS
<1>2. /\ w.specs \in Seq(SomeName) /\ w.disks \in Seq(AllDisks) /\ IsInjective(w.disks)
      /\ w.kind \in {"disk", "server"}
  BY DEF WorkerSaved
<1>3. Sane(told, L, M) /\ told.tree = r.tree
  BY <1>1, <1>2, LoadAssignedSane
<1>4. \/ q = told
      \/ q = LoadDisks(told, x, w)
      \/ w.kind = "server" /\ w.target # None /\ q = LoadTarget(told, x, w)
  BY <1>1, <1>2 DEF LoadWorker
<1>5. CASE q = LoadDisks(told, x, w)
  BY <1>2, <1>3, <1>5, LoadDisksSane
<1>6. CASE w.kind = "server" /\ w.target # None /\ q = LoadTarget(told, x, w)
  BY <1>3, <1>6, LoadTargetSane
<1> QED
  BY <1>3, <1>4, <1>5, <1>6

-----------------------------------------------------------------------------
(* The managers of the file are loaded.                                    *)

\* A new worker for one of the file, without default assignments if others follow.
LEMMA MatchedSane ==
  ASSUME NEW r, NEW L, NEW M, Sane(r, L, M), NEW m \in Managers, m \in L, Room(r.tree, m),
         NEW w, w.kind \in {"disk", "server"}, w.name \in Nat, NEW parts,
         NEW q, q = Matched(r, m, w, parts)
  PROVE  Sane(q, L, M) /\ Fresh(r.tree, m) \in Ids /\ q.tree.kind[Fresh(r.tree, m)] = w.kind
<1>1. PICK new : new = Created(r, m, w.kind, w.name)
  OBVIOUS
<1>2. PICK x : x = Fresh(r.tree, m)
  OBVIOUS
<1>3. Sane(new, L, M) /\ x \in Ids /\ new.tree.kind[x] = w.kind
  BY <1>1, <1>2, CreatedSane
<1>4. PICK a : a = [new.aspecs EXCEPT ![x] = <<>>]
  OBVIOUS
<1>5. q = new \/ q = WithAssigned(new, a)
  BY <1>1, <1>2, <1>4 DEF Matched, WithAssigned
<1>6. AllListed(a, new.specs)
  <2>1. AllListed(new.aspecs, new.specs)
    BY <1>3 DEF Sane
  <2>2. <<>> \in Seq(SpecIds) /\ ToSet(<<>>) = {}
    BY DEF ToSet
  <2> QED  BY <1>3, <1>4, <2>1, <2>2 DEF AllListed
<1>7. CASE q = WithAssigned(new, a)
  BY <1>2, <1>3, <1>6, <1>7, AssignedSet
<1> QED
  BY <1>2, <1>3, <1>5, <1>7

\* The next worker of the file: one that was there, or a new one.
LEMMA LoadNextSane ==
  ASSUME NEW r, NEW L, NEW M, Sane(r, L, M), Resolved(M, L), NEW m \in L,
         NEW w, WorkerSaved(w, file.managers), NEW parts, NEW q, q = LoadNext(r, m, w, parts)
  PROVE  Sane(q, L, M)
<1>1. PICK l : l = r.left
  OBVIOUS
<1> DEFINE I == {i \in 1 .. Len(l) : r.wname[l[i]] = w.name /\ r.tree.kind[l[i]] = w.kind}
<1>2. PICK k : k = IF I # {} THEN Min(I) ELSE 0
  OBVIOUS
<1>3. PICK rest : rest = RemoveAt(l, k)
  OBVIOUS
<1>4. PICK r1 : r1 = WithLeft(r, rest)
  OBVIOUS
<1>5. PICK r2 : r2 = Matched(r, m, w, parts)
  OBVIOUS
<1>6. \/ q = r
      \/ k # 0 /\ q = LoadWorker(r1, l[k], w, parts)
      \/ q = NoRoom(r)
      \/ Room(r.tree, m) /\ q = LoadWorker(r2, Fresh(r.tree, m), w, parts)
  <2>1. k = SelectInSeq(r.left, LAMBDA x : r.wname[x] = w.name /\ r.tree.kind[x] = w.kind)
    BY <1>1, <1>2 DEF SelectInSeq
  <2>2. r1 = [r EXCEPT !.left = RemoveAt(@, k)]
    BY <1>1, <1>3, <1>4 DEF WithLeft
  <2> QED  BY <1>1, <1>5, <2>1, <2>2 DEF LoadNext
<1>7. l \in Seq(Ids) /\ Len(l) \in Nat /\ m \in Managers
  <2>1. r \in Configs(M)
    BY DEF Sane
  <2> QED  BY <1>1, <2>1, ConfigFields DEF Resolved
<1>8. CASE k # 0 /\ q = LoadWorker(r1, l[k], w, parts)
  <2>1. k \in I
    <3>1. I \subseteq 1 .. Len(l)
      OBVIOUS
    <3> HIDE DEF I
    <3> QED  BY <1>2, <1>7, <1>8, <3>1, Lowest
  <2>2. k \in DOMAIN l /\ l[k] \in Ids /\ r.tree.kind[l[k]] = w.kind
    BY <1>7, <2>1
  <2>3. rest \in Seq(Ids)
    <3> HIDE DEF I
    <3> QED  BY <1>3, <1>7, <2>2, OneRemoved
  <2>4. Sane(r1, L, M) /\ r1.tree = r.tree
    BY <1>4, <2>3, OtherSet
  <2> QED  BY <1>8, <2>2, <2>4, LoadWorkerSane
<1>9. CASE q = NoRoom(r)
  <2>1. PICK c : c = WithOk(r, FALSE)
    OBVIOUS
  <2>2. Sane(c, L, M)
    BY <2>1, OtherSet
  <2>3. q = WithRoom(c, FALSE)
    BY <1>9, <2>1 DEF NoRoom, Failed, WithOk, WithRoom
  <2> QED  BY <2>2, <2>3, OtherSet
<1>10. CASE Room(r.tree, m) /\ q = LoadWorker(r2, Fresh(r.tree, m), w, parts)
  <2>1. w.kind \in {"disk", "server"} /\ w.name \in Nat
    BY DEF WorkerSaved
  <2>2. /\ Sane(r2, L, M) /\ Fresh(r.tree, m) \in Ids
        /\ r2.tree.kind[Fresh(r.tree, m)] = w.kind
    BY <1>5, <1>7, <1>10, <2>1, MatchedSane
  <2> QED  BY <1>10, <2>2, LoadWorkerSane
<1> QED
  BY <1>6, <1>8, <1>9, <1>10

\* A manager of the file, whose workers are loaded one after another.
ManagersSaved(ms) ==
    /\ Len(ms) \in Nat
    /\ \A i \in 1 .. Len(ms) :
          /\ Len(ms[i].workers) \in Nat
          /\ \A k \in 1 .. Len(ms[i].workers) : WorkerSaved(ms[i].workers[k], ms)
\* A manager of the file: its workers on the manager that stands for it.
LEMMA LoadManagerSane ==
  ASSUME NEW r, NEW L, NEW M, Sane(r, L, M), Resolved(M, L), ManagersSaved(file.managers),
         NEW j \in 1 .. Len(file.managers), NEW parts,
         NEW q, q = LoadManager(r, file.managers[j], parts)
  PROVE  Sane(q, L, M)
<1>1. PICK m : m = Retrieve(M, file.managers[j].name, file.managers[j].id)
  OBVIOUS
<1>2. PICK u : u = file.managers[j].workers
  OBVIOUS
<1>3. PICK l : l = Owned(r.tree, m)
  OBVIOUS
<1>4. PICK start : start = WithLeft(r, l)
  OBVIOUS
<1> DEFINE n == Len(u)
           P == [i \in 0 .. n |-> {c \in Configs(M) : Sane(c, L, M)}]
           Made(f) == f = [i \in 0 .. n |-> IF i = 0 THEN start
                                            ELSE LoadNext(f[i - 1], m, u[i], parts)]
           F == CHOOSE f : Made(f)
<1>5. m \in L /\ m \in Managers /\ m # None
  <2>1. m \in L /\ m \in Managers
    BY <1>1 DEF Resolved
  <2> QED  BY <2>1, PartnersAssumption DEF PartnersAssumption
<1>6. r \in Configs(M) /\ r.map = M /\ r.tree \in Trees
  BY ConfigFields DEF Sane
<1>7. q = r \/ q = F[n]
  <2>1. start = [r EXCEPT !.left = Owned(r.tree, m)]
    BY <1>3, <1>4 DEF WithLeft
  <2>2. m = Retrieve(r.map, file.managers[j].name, file.managers[j].id)
    BY <1>1, <1>6
  <2> QED  BY <1>2, <1>5, <2>1, <2>2 DEF LoadManager, Repeat
<1>8. l \in Seq(Ids)
  <2>1. PICK v : v = r.tree.workers[m]
    OBVIOUS
  <2> DEFINE places == {i \in DOMAIN v : r.tree.kind[v[i]] # "client"}
  <2>2. l = At(v, places)
    BY <1>3, <2>1 DEF Owned, Those
  <2>3. v \in Seq(Ids) /\ places \subseteq DOMAIN v
    BY <1>5, <1>6, <2>1, TreeFields
  <2> HIDE DEF places
  <2> QED  BY <2>2, <2>3, Selected
<1>9. Sane(start, L, M)
  BY <1>4, <1>8, OtherSet
<1>10. n \in Nat /\ \A i \in 1 .. n : WorkerSaved(u[i], file.managers)
  BY <1>2 DEF ManagersSaved
<1>11. \A f : Made(f) <=> Loop(f, <<"next", m, u, parts>>, start, n)
  BY DEF Loop, Turn
<1>12. start \in P[0]
  BY <1>9, <1>10 DEF Sane
<1>13. ASSUME NEW i \in 1 .. n, NEW c \in P[i - 1]
       PROVE  Turn(<<"next", m, u, parts>>, c, i) \in P[i]
  <2>1. Sane(c, L, M) /\ WorkerSaved(u[i], file.managers)
    BY <1>10
  <2>2. PICK d : d = LoadNext(c, m, u[i], parts)
    OBVIOUS
  <2>3. Sane(d, L, M)
    BY <1>5, <2>1, <2>2, LoadNextSane
  <2>4. d \in P[i]
    BY <1>10, <2>3 DEF Sane
  <2> QED  BY <2>2, <2>4 DEF Turn
<1> HIDE DEF P, n, Made
<1>14. (\E f : Made(f)) /\ \A f : Made(f) => f[n] \in P[n]
  BY <1>10, <1>11, <1>12, <1>13, LoopEnds
<1>15. F[n] \in P[n]
  BY <1>14
<1> QED
  BY <1>7, <1>10, <1>15 DEF P, n

\* If the file replaces, all workers go first.
LEMMA AllEmptiedSane ==
  ASSUME managers \in Seq(Managers), NEW r, NEW L, NEW M, Sane(r, L, M),
         NEW q, q = AllEmptied(r)
  PROVE  Sane(q, L, M)
<1> DEFINE n == Len(managers)
           P == [i \in 0 .. n |-> {c \in Configs(M) : Sane(c, L, M)}]
           Made(f) == f = [i \in 0 .. n |-> IF i = 0 THEN r
                                            ELSE [f[i - 1] EXCEPT !.tree = Emptied(@, managers[i])]]
           F == CHOOSE f : Made(f)
<1>1. q = F[n]
  BY DEF AllEmptied, Repeat
<1>2. n \in Nat /\ \A i \in 1 .. n : managers[i] \in Managers
  OBVIOUS
<1>3. \A f : Made(f) <=> Loop(f, <<"empty">>, r, n)
  BY DEF Loop, Turn
<1>4. r \in P[0]
  BY <1>2 DEF Sane
<1>5. ASSUME NEW i \in 1 .. n, NEW c \in P[i - 1] PROVE Turn(<<"empty">>, c, i) \in P[i]
  <2>1. Sane(c, L, M) /\ managers[i] \in Managers
    BY <1>2
  <2>2. PICK t : t = Emptied(c.tree, managers[i])
    OBVIOUS
  <2>3. Grown(t, L)
    BY <2>1, <2>2, EmptyEnds DEF Sane, Grown
  <2>4. PICK d : d = WithTree(c, t)
    OBVIOUS
  <2>5. Sane(d, L, M)
    BY <2>1, <2>3, <2>4, TreeSet
  <2>6. d \in P[i]
    BY <1>2, <2>5 DEF Sane
  <2>7. d = [c EXCEPT !.tree = Emptied(@, managers[i])]
    BY <2>2, <2>4 DEF WithTree
  <2> QED  BY <2>6, <2>7 DEF Turn
<1> HIDE DEF P, n, Made
<1>6. (\E f : Made(f)) /\ \A f : Made(f) => f[n] \in P[n]
  BY <1>2, <1>3, <1>4, <1>5, LoopEnds
<1>7. F[n] \in P[n]
  BY <1>6
<1> QED
  BY <1>1, <1>2, <1>7 DEF P, n

\* CWorkerView::RemoveManager.
LEMMA LeftSane ==
  ASSUME NEW r, NEW L, NEW M, Sane(r, L, M), NEW m \in Managers, m \in L,
         NEW q, q = Left(r, m)
  PROVE  Sane(q, L \ {m}, M) /\ q.ok = r.ok
<1>1. PICK e : e = Emptied(r.tree, m)
  OBVIOUS
<1>2. Fine(e, L, L) /\ e.up = TRUE
  BY <1>1, EmptyEnds DEF Sane, Grown
<1>3. PICK t : t = Dropped(e, m)
  OBVIOUS
<1>4. Grown(t, L \ {m})
  BY <1>2, <1>3, DropEnds DEF Grown
<1>5. q = WithTree(r, t)
  BY <1>1, <1>3 DEF Left, WithTree
<1> QED
  BY <1>4, <1>5, TreeSet

\* At last the managers go that the map M does not need, from the end: those that are
\* there after i of them were looked at.
Kept(M, i) ==
    {m \in ToSet(managers) : Needed(M, m) \/ \E h \in 1 .. Len(managers) - i : managers[h] = m}
\* One more turn of the loop that removes the managers the file does not need.
LEMMA KeptLess ==
  ASSUME managers \in Seq(Managers), IsInjective(managers), NEW M,
         NEW i \in 1 .. Len(managers), NEW m, m = managers[Len(managers) + 1 - i]
  PROVE  /\ m \in Managers /\ m \in Kept(M, i - 1)
         /\ Kept(M, i) = IF Needed(M, m) THEN Kept(M, i - 1) ELSE Kept(M, i - 1) \ {m}
<1> DEFINE n == Len(managers)
           L == ToSet(managers)
<1>1. n \in Nat /\ DOMAIN managers = 1 .. n /\ \A h \in 1 .. n : managers[h] \in Managers
  OBVIOUS
<1>2. \A g, h \in 1 .. n : managers[g] = managers[h] => g = h
  BY <1>1 DEF IsInjective
<1>3. PICK k \in 1 .. n : k = n + 1 - i
  BY <1>1
<1>4. m = managers[k] /\ m \in Managers /\ m \in L
  BY <1>1, <1>3 DEF ToSet
<1>5. n - i = k - 1 /\ n - (i - 1) = k /\ k \in Nat /\ k <= n
  BY <1>1, <1>3
<1> HIDE DEF n
<1>6. /\ \A p : p \in Kept(M, i)
                 <=> p \in L /\ (Needed(M, p) \/ \E h \in 1 .. k - 1 : managers[h] = p)
      /\ \A p : p \in Kept(M, i - 1)
                 <=> p \in L /\ (Needed(M, p) \/ \E h \in 1 .. k : managers[h] = p)
  BY <1>5 DEF Kept, n
<1> HIDE DEF L
<1>7. ASSUME NEW p
      PROVE  /\ (\E h \in 1 .. k : managers[h] = p)
                   <=> p = m \/ \E h \in 1 .. k - 1 : managers[h] = p
             /\ p = m => ~\E h \in 1 .. k - 1 : managers[h] = p
  <2>1. \A h \in 1 .. k : h = k \/ h \in 1 .. k - 1
    BY <1>5
  <2>2. \A h \in 1 .. k - 1 : h \in 1 .. k /\ h \in 1 .. n /\ h # k
    BY <1>1, <1>5
  <2> QED  BY <1>1, <1>2, <1>4, <1>5, <2>1, <2>2
<1>8. m \in Kept(M, i - 1)
  BY <1>4, <1>6, <1>7
<1>9. \A p : p \in Kept(M, i) <=> p \in Kept(M, i - 1) /\ (p = m => Needed(M, m))
  BY <1>4, <1>6, <1>7
<1> QED
  BY <1>4, <1>8, <1>9

\* After the loop the needed managers remain.
LEMMA NeedlessLeftSane ==
  ASSUME managers \in Seq(Managers), IsInjective(managers),
         NEW r, NEW M, Sane(r, ToSet(managers), M), NEW q, q = NeedlessLeft(r)
  PROVE  Sane(q, {m \in ToSet(managers) : Needed(M, m)}, M) /\ q.ok = r.ok
<1> DEFINE n == Len(managers)
           Nth(i) == managers[Len(managers) + 1 - i]
           P == [i \in 0 .. n |-> {c \in Configs(M) : Sane(c, Kept(M, i), M) /\ c.ok = r.ok}]
           Made(f) == f = [i \in 0 .. n |-> IF i = 0 THEN r
                                            ELSE IF Needed(f[i - 1].map, Nth(i)) THEN f[i - 1]
                                            ELSE Left(f[i - 1], Nth(i))]
           F == CHOOSE f : Made(f)
<1>1. q = F[n]
  BY DEF NeedlessLeft, Repeat
<1>2. n \in Nat /\ DOMAIN managers = 1 .. n
  OBVIOUS
<1>3. \A f : Made(f) <=> Loop(f, <<"leave">>, r, n)
  BY DEF Loop, Turn
<1>4. r \in P[0]
  <2>1. Kept(M, 0) = ToSet(managers)
    BY <1>2 DEF Kept, ToSet
  <2> QED  BY <1>2, <2>1 DEF Sane
<1>5. ASSUME NEW i \in 1 .. n, NEW c \in P[i - 1] PROVE Turn(<<"leave">>, c, i) \in P[i]
  <2>1. PICK k \in 0 .. n : k = i - 1
    BY <1>2
  <2>2. Sane(c, Kept(M, i - 1), M) /\ c.ok = r.ok
    BY <2>1
  <2>3. PICK m : m = Nth(i)
    OBVIOUS
  <2>4. /\ m \in Managers /\ m \in Kept(M, i - 1)
        /\ Kept(M, i) = IF Needed(M, m) THEN Kept(M, i - 1) ELSE Kept(M, i - 1) \ {m}
    BY <2>3, KeptLess
  <2>5. c.map = M
    BY <2>2, ConfigFields DEF Sane
  <2>6. PICK d : d = IF Needed(c.map, m) THEN c ELSE Left(c, m)
    OBVIOUS
  <2>7. Sane(d, Kept(M, i), M) /\ d.ok = r.ok
    <3>1. CASE Needed(M, m)
      BY <2>2, <2>4, <2>5, <2>6, <3>1
    <3>2. CASE ~Needed(M, m)
      <4>1. d = Left(c, m)
        BY <2>5, <2>6, <3>2
      <4>2. Sane(d, Kept(M, i - 1) \ {m}, M) /\ d.ok = c.ok
        BY <2>2, <2>4, <4>1, LeftSane
      <4> QED  BY <2>2, <2>4, <3>2, <4>2
    <3> QED  BY <3>1, <3>2
  <2>8. d \in P[i]
    BY <1>2, <2>7 DEF Sane
  <2> QED  BY <2>3, <2>6, <2>8 DEF Turn
<1> HIDE DEF P, n, Made
<1>6. (\E f : Made(f)) /\ \A f : Made(f) => f[n] \in P[n]
  BY <1>2, <1>3, <1>4, <1>5, LoopEnds
<1>7. F[n] \in P[n]
  BY <1>6
<1>8. Sane(q, Kept(M, n), M) /\ q.ok = r.ok
  BY <1>1, <1>2, <1>7 DEF P
<1>9. Kept(M, n) = {m \in ToSet(managers) : Needed(M, m)}
  <2>1. \A h \in 1 .. n - n : FALSE
    BY <1>2
  <2> QED  BY <2>1 DEF Kept, n
<1> QED
  BY <1>8, <1>9

\* ManagerList::LoadConfig; after a load that replaces only the managers of the map are left.
LEMMA LoadManagersSane ==
  ASSUME managers \in Seq(Managers), IsInjective(managers),
         NEW r, NEW M, Sane(r, ToSet(managers), M), NEW parts, NEW replace \in BOOLEAN,
         file.managers # Bad => ManagersSaved(file.managers) /\ Resolved(M, ToSet(managers)),
         NEW q, q = LoadManagers(r, parts, replace)
  PROVE  /\ q.ok /\ replace /\ file.managers # <<>>
               => Sane(q, {m \in ToSet(managers) : Needed(M, m)}, M)
         /\ ~(q.ok /\ replace /\ file.managers # <<>>) => Sane(q, ToSet(managers), M)
         /\ q.ok \in BOOLEAN
<1> DEFINE n == Len(file.managers)
           L == ToSet(managers)
           P == [i \in 0 .. n |-> {c \in Configs(M) : Sane(c, L, M)}]
<1>1. PICK start : start = IF replace THEN AllEmptied(r) ELSE r
  OBVIOUS
<1>2. Sane(start, L, M)
  BY <1>1, AllEmptiedSane
<1> DEFINE Made(f) == f = [i \in 0 .. n |-> IF i = 0 THEN start
                                            ELSE LoadManager(f[i - 1], file.managers[i], parts)]
           F == CHOOSE f : Made(f)
<1>3. PICK end : end = F[n]
  OBVIOUS
<1>4. q = IF file.managers = Bad THEN Failed(r)
          ELSE IF file.managers = <<>> THEN r
          ELSE IF replace /\ end.ok THEN NeedlessLeft(end) ELSE end
  BY <1>1, <1>3 DEF LoadManagers, Repeat
<1>5. CASE file.managers = Bad
  <2>1. q = WithOk(r, FALSE)
    BY <1>4, <1>5 DEF Failed, WithOk
  <2>2. Sane(q, L, M)
    BY <2>1, OtherSet
  <2>3. q.ok = FALSE
    <3>1. r \in Configs(M)
      BY DEF Sane
    <3> QED  BY <2>1, <3>1 DEF WithOk, Configs
  <2> QED  BY <2>2, <2>3
<1>6. CASE file.managers # Bad
  <2>1. n \in Nat
    BY <1>6 DEF ManagersSaved
  <2>2. \A f : Made(f) <=> Loop(f, <<"manager", parts>>, start, n)
    BY DEF Loop, Turn
  <2>3. start \in P[0]
    BY <1>2, <2>1 DEF Sane
  <2>4. ASSUME NEW i \in 1 .. n, NEW c \in P[i - 1]
        PROVE  Turn(<<"manager", parts>>, c, i) \in P[i]
    <3>1. Sane(c, L, M)
      BY <2>1
    <3>2. PICK d : d = LoadManager(c, file.managers[i], parts)
      OBVIOUS
    <3>3. Sane(d, L, M)
      BY <1>6, <3>1, <3>2, LoadManagerSane
    <3>4. d \in P[i]
      BY <2>1, <3>3 DEF Sane
    <3> QED  BY <3>2, <3>4 DEF Turn
  <2>5. Sane(end, L, M)
    <3> HIDE DEF P, n, Made
    <3>1. (\E f : Made(f)) /\ \A f : Made(f) => f[n] \in P[n]
      BY <2>1, <2>2, <2>3, <2>4, LoopEnds
    <3>2. F[n] \in P[n]
      BY <3>1
    <3> QED  BY <1>3, <2>1, <3>2 DEF P
  <2> HIDE DEF P, n, Made, F
  <2>6. CASE file.managers = <<>>
    <3>1. r.ok \in BOOLEAN
      BY ConfigFields DEF Sane
    <3> QED  BY <1>4, <1>6, <2>6, <3>1
  <2>7. CASE file.managers # <<>>
    <3>1. end.ok \in BOOLEAN
      BY <2>5, ConfigFields DEF Sane
    <3>2. CASE replace /\ end.ok
      <4>1. q = NeedlessLeft(end)
        BY <1>4, <1>6, <2>7, <3>2
      <4>2. Sane(q, {m \in ToSet(managers) : Needed(M, m)}, M) /\ q.ok = end.ok
        BY <2>5, <4>1, NeedlessLeftSane
      <4> QED  BY <2>7, <3>1, <3>2, <4>2
    <3>3. CASE ~(replace /\ end.ok)
      BY <1>4, <1>6, <2>5, <2>7, <3>1, <3>3
    <3> QED  BY <3>2, <3>3
  <2> QED  BY <2>6, <2>7
<1> QED
  BY <1>5, <1>6

\* A file as far as it can be parsed: all that opening it relies on.
FileSane ==
    /\ file.specs # Bad => SpecsSaved(file.specs)
    /\ file.managers # Bad => ManagersSaved(file.managers)
\* OpenConfigFile before the result is shown.
LEMMA OpenedSane ==
  ASSUME managers \in Seq(Managers), IsInjective(managers), FileSane,
         NEW r, NEW M, Sane(r, ToSet(managers), M), NEW request, request.replace \in BOOLEAN,
         "managers" \in request.parts /\ file.managers # Bad => Resolved(M, ToSet(managers)),
         NEW q, q = Opened(r, request),
         NEW replaced, replaced <=> /\ q.ok /\ request.replace
                                    /\ "managers" \in request.parts /\ file.managers # <<>>
  PROVE  /\ replaced => Sane(q, {m \in ToSet(managers) : Needed(M, m)}, M)
         /\ ~replaced => Sane(q, ToSet(managers), M)
         /\ q.ok \in BOOLEAN
<1>1. PICK first : first = IF "specs" \in request.parts THEN LoadSpecs(r, request.replace) ELSE r
  OBVIOUS
<1>2. Sane(first, ToSet(managers), M)
  BY <1>1, LoadSpecsSane DEF FileSane
<1>3. first.ok \in BOOLEAN
  BY <1>2, ConfigFields DEF Sane
<1>4. CASE first.ok /\ "managers" \in request.parts
  <2>1. q = LoadManagers(first, request.parts, request.replace)
    BY <1>1, <1>4 DEF Opened
  <2>2. /\ q.ok /\ request.replace /\ file.managers # <<>>
              => Sane(q, {m \in ToSet(managers) : Needed(M, m)}, M)
        /\ ~(q.ok /\ request.replace /\ file.managers # <<>>) => Sane(q, ToSet(managers), M)
        /\ q.ok \in BOOLEAN
    <3>1. file.managers # Bad => ManagersSaved(file.managers) /\ Resolved(M, ToSet(managers))
      BY <1>4 DEF FileSane
    <3> QED  BY <1>2, <2>1, <3>1, LoadManagersSane
  <2> QED  BY <1>4, <2>2
<1>5. CASE ~(first.ok /\ "managers" \in request.parts)
  <2>1. q = first
    BY <1>1, <1>5 DEF Opened
  <2> QED  BY <1>2, <1>3, <1>5, <2>1
<1> QED
  BY <1>4, <1>5

-----------------------------------------------------------------------------
(* The variables.                                                          *)

\* What the variables of a configuration are like.
Intact(s, a, d, w) ==
    /\ ListWhole(s) /\ AllListed(a, s) /\ DisksThere(d) /\ w \in [Ids -> Nat]
Quiet == \A m \in Managers : inbox[m] = <<>>
Configured == IInv /\ up = TRUE /\ Quiet /\ Intact(specs, aspecs, disks, wname)

\* The configuration that an operation starts from.
LEMMA ConfigSane ==
  ASSUME Configured
  PROVE  /\ Sane(Config, ToSet(managers), loadmap) /\ Config.tree = Tree
         /\ Config.specs = specs /\ Config.aspecs = aspecs /\ Config.disks = disks
         /\ Config.wname = wname /\ Config.ok = TRUE
         /\ managers \in Seq(Managers) /\ IsInjective(managers)
         /\ ToSet(managers) \subseteq Managers
         /\ shown \in Ids \cup {None}
<1>1. /\ Fine(Tree, ToSet(managers), ToSet(managers)) /\ Tree \in Trees
      /\ managers \in Seq(Managers) /\ IsInjective(managers) /\ shown \in Ids \cup {None}
  BY DEF Configured, IInv, Fine, Sound
<1>2. Intact(specs, aspecs, disks, wname) /\ Tree.up = TRUE
  BY Here DEF Configured
<1>3. /\ specs \in Seq(TestSpecs) /\ aspecs \in [Ids -> Seq(SpecIds)]
      /\ disks \in [Ids -> Seq(AllDisks)] /\ wname \in [Ids -> Nat]
  BY <1>2 DEF Intact, ListWhole, Once, AllListed, DisksThere
<1>4. <<>> \in Seq(Ids)
  OBVIOUS
<1>5. PICK c : c = Config
  OBVIOUS
<1>6. /\ c.tree = Tree /\ c.specs = specs /\ c.aspecs = aspecs /\ c.disks = disks
      /\ c.wname = wname /\ c.ok = TRUE /\ c \in Configs(loadmap)
  BY <1>1, <1>3, <1>4, <1>5 DEF Config, Configs
<1>7. Sane(c, ToSet(managers), loadmap)
  BY <1>1, <1>2, <1>6 DEF Sane, Grown, Intact
<1>8. ToSet(managers) \subseteq Managers
  BY <1>1 DEF ToSet
<1> QED
  BY <1>1, <1>5, <1>6, <1>7, <1>8

\* What is left of a configuration once the Dynamos have read their messages.
LEMMA Settled ==
  ASSUME NEW r, NEW L, NEW M, Sane(r, L, M), Settles(r), shown \in Ids \cup {None},
         managers' \in Seq(Managers), IsInjective(managers'), ToSet(managers') = L
  PROVE  Configured' /\ who' = who
<1>1. r \in Configs(M) /\ Fine(r.tree, L, L) /\ r.tree.up = TRUE
  BY DEF Sane, Grown
<1>2. PICK t : t = AllAnswered(r.tree, Managers)
  OBVIOUS
<1>3. /\ Fine(t, L, L) /\ t.up = TRUE /\ \A m \in Managers : t.inbox[m] = <<>>
  BY <1>1, <1>2, AllRead
<1>4. Becomes(t) /\ UNCHANGED <<shown, who>>
  BY <1>2 DEF Settles
<1>5. Tree' = t /\ inbox' = t.inbox /\ up' = t.up
  <2>1. t \in Trees
    BY <1>3 DEF Fine, Sound
  <2> QED  BY <1>4, <2>1, Becoming DEF Becomes
<1>6. IInv'
  BY <1>3, <1>4, <1>5 DEF IInv
<1>7. Quiet' /\ up' = TRUE
  BY <1>3, <1>5 DEF Quiet
<1> DEFINE Keeps(x) == r.tree.kind[x] \in {"disk", "server"}
           a == [x \in Ids |-> IF Keeps(x) THEN r.aspecs[x] ELSE <<>>]
           d == [x \in Ids |-> IF Keeps(x) THEN r.disks[x] ELSE <<>>]
           w == [x \in Ids |-> IF Keeps(x) THEN r.wname[x] ELSE 0]
<1>8. specs' = r.specs /\ aspecs' = a /\ disks' = d /\ wname' = w
  BY DEF Settles
<1> HIDE DEF Keeps
<1>9. ListWhole(r.specs) /\ AllListed(r.aspecs, r.specs) /\ DisksThere(r.disks)
  BY DEF Sane
<1>10. <<>> \in Seq(SpecIds) /\ <<>> \in Seq(AllDisks) /\ ToSet(<<>>) = {} /\ IsInjective(<<>>)
  BY DEF ToSet, IsInjective
<1>11. AllListed(a, r.specs)
  BY <1>9, <1>10 DEF AllListed
<1>12. DisksThere(d)
  BY <1>9, <1>10 DEF DisksThere
<1>13. w \in [Ids -> Nat]
  <2>1. r.wname \in [Ids -> Nat]
    BY <1>1, ConfigFields
  <2> QED  BY <2>1
<1> HIDE DEF a, d, w
<1>14. Intact(r.specs, a, d, w)
  BY <1>9, <1>11, <1>12, <1>13 DEF Intact
<1>15. Intact(specs, aspecs, disks, wname)'
  BY <1>8, <1>14 DEF Intact, ListWhole, Once, AllListed, IdsOf, DisksThere, TestSpecs, SomeName,
                     SomeDefault, AllDisks
<1> QED
  BY <1>4, <1>6, <1>7, <1>15 DEF Configured

-----------------------------------------------------------------------------
(* Saving.                                                                 *)

\* The specifications but Idle.
LEMMA SpecsToSaveIs ==
  ASSUME ListWhole(specs)
  PROVE  SpecsSaved(SpecsToSave)
<1>1. PICK s : s = specs
  OBVIOUS
<1>2. s \in Seq(TestSpecs) /\ 1 \in DOMAIN s /\ Len(s) \in Nat /\ DOMAIN s = 1 .. Len(s)
  BY <1>1 DEF ListWhole, Once
<1>3. PICK n \in Nat : n = Len(s) - 1 /\ Len(s) = n + 1
  <2>1. PICK k \in Nat : k = Len(s)
    BY <1>2
  <2>2. 1 \in 1 .. k
    BY <1>2, <2>1
  <2>3. k - 1 \in Nat /\ k = k - 1 + 1
    BY <2>2
  <2> QED  BY <2>1, <2>3
<1>4. PICK t : t = SpecsToSave
  OBVIOUS
<1>5. t = [i \in 1 .. n |-> [name |-> s[i + 1].name, default |-> s[i + 1].default]]
  BY <1>1, <1>3, <1>4 DEF SpecsToSave
<1>6. Len(t) = n
  BY <1>3, <1>5
<1>7. ASSUME NEW i \in 1 .. n PROVE SpecSaved(t[i])
  <2>1. i + 1 \in 1 .. Len(s)
    BY <1>3
  <2>2. PICK e \in TestSpecs : e = s[i + 1]
    BY <1>2, <2>1
  <2>3. t[i] = [name |-> e.name, default |-> e.default]
    BY <1>5, <2>2
  <2> QED  BY <2>3 DEF SpecSaved, TestSpecs
<1> QED
  BY <1>3, <1>4, <1>6, <1>7 DEF SpecsSaved

\* What is assigned to a worker is in the list.
LEMMA SpecNameIs ==
  ASSUME Configured, NEW id \in IdsOf(specs)
  PROVE  SpecName(id) \in SomeName
<1>1. specs \in Seq(TestSpecs)
  BY DEF Configured, Intact, ListWhole, Once
<1>2. \A e \in ToSet(specs) : e \in TestSpecs
  <2>1. \A i \in DOMAIN specs : specs[i] \in TestSpecs
    BY <1>1
  <2> QED  BY <2>1 DEF ToSet
<1>3. \E s \in ToSet(specs) : s.id = id
  BY DEF IdsOf, ToSet
<1>4. PICK s : s = CHOOSE e \in ToSet(specs) : e.id = id
  OBVIOUS
<1>5. s \in ToSet(specs)
  BY <1>3, <1>4
<1>6. s \in TestSpecs
  BY <1>2, <1>5
<1> QED
  BY <1>4, <1>6 DEF SpecName, TestSpecs

\* Worker::SaveConfig.  If the managers are saved, every target has its client.
LEMMA GatheredWorker ==
  ASSUME Configured, NEW parts, "managers" \in Saves(parts),
         NEW ms, Len(ms) = Len(managers),
         \A j \in 1 .. Len(ms) : /\ ms[j].name = who[managers[j]].name
                                 /\ ms[j].id = MgrId(managers[j]),
         NEW x \in Ids, kind[x] \in {"disk", "server"}, NEW w, w = GatherWorker(x, parts)
  PROVE  WorkerSaved(w, ms)
<1> DEFINE names == [i \in DOMAIN aspecs[x] |-> SpecName(aspecs[x][i])]
<1>1. /\ AllListed(aspecs, specs) /\ DisksThere(disks) /\ wname \in [Ids -> Nat] /\ IInv
  BY DEF Configured, Intact
<1>2. /\ w.name = wname[x] /\ w.kind = kind[x]
      /\ w.specs = <<>> \/ w.specs = names
      /\ w.disks = <<>> \/ w.disks = disks[x]
      /\ w.target # None =>
            /\ "targets" \in parts /\ x \in assigned
            /\ w.target.name = who[Home(partner[x])].name
            /\ w.target.id = MgrId(Home(partner[x]))
  <2> HIDE DEF names
  <2>1. w = [name |-> wname[x], kind |-> kind[x],
             specs |-> IF "assigned" \notin parts THEN <<>> ELSE names,
             disks |-> IF "targets" \in parts THEN disks[x] ELSE <<>>,
             target |-> IF "targets" \notin parts \/ x \notin assigned THEN None
                        ELSE [nic |-> who[Home(partner[x])].addr,
                              name |-> who[Home(partner[x])].name,
                              id |-> MgrId(Home(partner[x]))]]
    BY DEF GatherWorker, names
  <2> QED  BY <2>1
<1>3. w.specs \in Seq(SomeName)
  <2>1. PICK a : a = aspecs[x]
    OBVIOUS
  <2>2. a \in Seq(SpecIds) /\ ToSet(a) \subseteq IdsOf(specs)
    BY <1>1, <2>1 DEF AllListed
  <2>3. Len(a) \in Nat /\ DOMAIN a = 1 .. Len(a) /\ \A i \in DOMAIN a : a[i] \in IdsOf(specs)
    BY <2>2 DEF ToSet
  <2>4. \A i \in 1 .. Len(a) : SpecName(a[i]) \in SomeName
    BY <2>3, SpecNameIs
  <2>5. names = [i \in 1 .. Len(a) |-> SpecName(a[i])]
    BY <2>1, <2>3
  <2>6. names \in Seq(SomeName)
    <3> HIDE DEF names
    <3> QED  BY <2>3, <2>4, <2>5
  <2>7. <<>> \in Seq(SomeName)
    OBVIOUS
  <2> HIDE DEF names
  <2> QED  BY <1>2, <2>6, <2>7
<1> HIDE DEF names
<1>4. w.disks \in Seq(AllDisks) /\ IsInjective(w.disks)
  <2>1. <<>> \in Seq(AllDisks) /\ IsInjective(<<>>)
    BY DEF IsInjective
  <2>2. disks[x] \in Seq(AllDisks) /\ IsInjective(disks[x])
    BY <1>1 DEF DisksThere
  <2> QED  BY <1>2, <2>1, <2>2
<1>5. ASSUME w.target # None
      PROVE  \E j \in 1 .. Len(ms) : ms[j].name = w.target.name /\ ms[j].id = w.target.id
  <2>1. PICK c : c = partner[x]
    OBVIOUS
  <2>2. c # None
    BY <1>2, <1>5, <2>1 DEF Saves
  <2>3. c \in Ids /\ kind[c] # "free"
    <3>1. Sound(Tree) /\ Tree.partner = partner /\ Tree.kind = kind /\ Tree \in Trees
      BY <1>1, Here DEF IInv, Fine, Sound
    <3>2. InPairs(Tree) /\ Tree.partner \in [Ids -> Ids \cup {None}]
      BY <3>1, TreeFields DEF Sound
    <3>3. Tree.kind[Tree.partner[x]] \in {"server", "client"}
      BY <2>1, <2>2, <3>1, <3>2 DEF InPairs
    <3> QED  BY <2>1, <2>2, <3>1, <3>2, <3>3
  <2>4. Home(c) \in ToSet(managers)
    BY <1>1, <2>3, There
  <2>5. PICK j \in DOMAIN managers : managers[j] = Home(c)
    BY <2>4 DEF ToSet
  <2>6. j \in 1 .. Len(ms)
    BY <1>1, <2>5 DEF IInv
  <2> QED  BY <1>2, <1>5, <2>1, <2>5, <2>6
<1> QED
  BY <1>1, <1>2, <1>3, <1>4, <1>5 DEF WorkerSaved

\* GatherConfig.
LEMMA GatherSane ==
  ASSUME Configured, NEW parts, NEW g, g = Gather(parts)
  PROVE  SpecsSaved(g.specs) /\ ManagersSaved(g.managers)
<1>1. /\ g.specs = <<>> \/ g.specs = SpecsToSave
      /\ \/ g.managers = <<>>
         \/ /\ "managers" \in Saves(parts)
            /\ g.managers = [i \in DOMAIN managers |-> GatherManager(managers[i], parts)]
  BY DEF Gather
<1>2. SpecsSaved(g.specs)
  <2>1. SpecsSaved(<<>>)
    BY DEF SpecsSaved
  <2>2. SpecsSaved(SpecsToSave)
    BY SpecsToSaveIs DEF Configured, Intact
  <2> QED  BY <1>1, <2>1, <2>2
<1>3. CASE g.managers = <<>>
  BY <1>2, <1>3 DEF ManagersSaved
<1>4. CASE /\ "managers" \in Saves(parts)
           /\ g.managers = [i \in DOMAIN managers |-> GatherManager(managers[i], parts)]
  <2>1. PICK ms : ms = g.managers
    OBVIOUS
  <2>2. /\ managers \in Seq(Managers) /\ Len(managers) \in Nat
        /\ DOMAIN managers = 1 .. Len(managers)
        /\ Sound(Tree) /\ Tree \in Trees /\ Tree.workers = workers /\ Tree.kind = kind
    <3>1. managers \in Seq(Managers) /\ Sound(Tree)
      BY DEF Configured, IInv, Fine
    <3> QED  BY <3>1, Here DEF Sound
  <2>3. /\ Len(ms) = Len(managers)
        /\ \A i \in 1 .. Len(ms) : ms[i] = GatherManager(managers[i], parts)
    BY <1>4, <2>1, <2>2
  <2>4. \A m, v : v = GatherManager(m, parts) => v.name = who[m].name /\ v.id = MgrId(m)
    BY DEF GatherManager
  <2>5. \A j \in 1 .. Len(ms) : ms[j].name = who[managers[j]].name /\ ms[j].id = MgrId(managers[j])
    BY <2>3, <2>4
  <2>6. ASSUME NEW i \in 1 .. Len(ms)
        PROVE  /\ Len(ms[i].workers) \in Nat
               /\ \A k \in 1 .. Len(ms[i].workers) : WorkerSaved(ms[i].workers[k], ms)
    <3>1. PICK m \in Managers : m = managers[i]
      BY <2>2, <2>3
    <3>2. PICK v : v = workers[m]
      OBVIOUS
    <3> DEFINE places == {k \in DOMAIN v : kind[v[k]] # "client"}
    <3>3. PICK own : own = At(v, places)
      OBVIOUS
    <3>4. own = Owned(Tree, m)
      BY <2>2, <3>2, <3>3 DEF Owned, Those
    <3>5. v \in Seq(Ids) /\ places \subseteq DOMAIN v
      BY <2>2, <3>2, TreeFields
    <3>6. own \in Seq(Ids) /\ ToSet(own) = {v[k] : k \in places}
      <4> HIDE DEF places
      <4> QED  BY <3>3, <3>5, Selected
    <3>7. /\ Len(own) \in Nat /\ DOMAIN own = 1 .. Len(own)
          /\ \A k \in DOMAIN own : own[k] \in ToSet(own)
      BY <3>6 DEF ToSet
    <3>8. ASSUME NEW k \in DOMAIN v, kind[v[k]] # "client"
          PROVE  v[k] \in Ids /\ kind[v[k]] \in {"disk", "server"}
      <4>1. v[k] \in Ids
        BY <3>5
      <4>2. Tree.kind[v[k]] # "free"
        BY <2>2, <3>1, <3>2, OnList
      <4>3. Tree.kind[v[k]] \in Kinds
        BY <2>2, <4>1, TreeFields
      <4> QED  BY <2>2, <3>8, <4>1, <4>2, <4>3 DEF Kinds
    <3>9. \A k \in DOMAIN own : own[k] \in Ids /\ kind[own[k]] \in {"disk", "server"}
      BY <3>6, <3>7, <3>8
    <3> HIDE DEF places
    <3>10. ms[i].workers = [k \in DOMAIN own |-> GatherWorker(own[k], parts)]
      <4>1. ms[i] = GatherManager(m, parts)
        BY <2>3, <3>1
      <4>2. GatherManager(m, parts).workers
              = [k \in DOMAIN Owned(Tree, m) |-> GatherWorker(Owned(Tree, m)[k], parts)]
        BY DEF GatherManager
      <4> QED  BY <3>4, <4>1, <4>2
    <3>11. /\ Len(ms[i].workers) = Len(own)
           /\ \A k \in 1 .. Len(own) : ms[i].workers[k] = GatherWorker(own[k], parts)
      BY <3>7, <3>10
    <3>12. \A k \in 1 .. Len(own) : WorkerSaved(ms[i].workers[k], ms)
      BY <1>4, <2>3, <2>5, <3>7, <3>9, <3>11, GatheredWorker
    <3> QED  BY <3>7, <3>11, <3>12
  <2>7. ManagersSaved(ms)
    BY <2>2, <2>3, <2>6 DEF ManagersSaved
  <2> QED  BY <1>2, <2>1, <2>7
<1> QED
  BY <1>1, <1>3, <1>4

\* The file is sane when both of its sections are.
LEMMA FileIs ==
  ASSUME NEW g, g.specs # Bad => SpecsSaved(g.specs),
         g.managers # Bad => ManagersSaved(g.managers), file' = g
  PROVE  FileSane'
<1>1. (file.specs # Bad => SpecsSaved(file.specs))'
  OBVIOUS
<1>2. (file.managers # Bad => ManagersSaved(file.managers))'
  OBVIOUS
<1> QED
  BY <1>1, <1>2 DEF FileSane
\* SaveConfigFile writes a sane file.
LEMMA FileSaved ==
  ASSUME Configured, NEW parts, SaveConfigFile(parts)
  PROVE  FileSane'
<1>1. PICK g : g = Gather(parts)
  OBVIOUS
<1>2. SpecsSaved(g.specs) /\ ManagersSaved(g.managers)
  BY <1>1, GatherSane
<1>3. file' = g
  BY <1>1 DEF SaveConfigFile
<1> QED
  BY <1>2, <1>3, FileIs

\* A damaged section is not loaded at all.
LEMMA FileDamaged ==
  ASSUME FileSane, file = [parts |-> file.parts, specs |-> file.specs, managers |-> file.managers],
         NEW section \in {"specs", "managers"}, Damage(section)
  PROVE  FileSane'
<1>1. file' = [file EXCEPT ![section] = Bad]
  BY DEF Damage
<1>2. PICK p, s, ms : file = [parts |-> p, specs |-> s, managers |-> ms]
  OBVIOUS
<1>3. PICK g : g = file'
  OBVIOUS
<1>4. (g.specs = Bad \/ g.specs = file.specs) /\ (g.managers = Bad \/ g.managers = file.managers)
  BY <1>1, <1>2, <1>3
<1>5. (g.specs # Bad => SpecsSaved(g.specs)) /\ (g.managers # Bad => ManagersSaved(g.managers))
  BY <1>4 DEF FileSane
<1> QED
  BY <1>3, <1>5, FileIs

\* A file that stays what it is.
LEMMA SameFile ==
  ASSUME FileSane, UNCHANGED file
  PROVE  FileSane'
<1>1. PICK g : g = file
  OBVIOUS
<1>2. (g.specs # Bad => SpecsSaved(g.specs)) /\ (g.managers # Bad => ManagersSaved(g.managers))
  BY <1>1 DEF FileSane
<1> QED
  BY <1>1, <1>2, FileIs

-----------------------------------------------------------------------------
(* The map when a file is opened: every manager of the file is there.      *)

\* A map whose entries are all managers of the list resolves the managers of the file.
LEMMA MapResolves ==
  ASSUME managers \in Seq(Managers), NEW map, Len(map) \in Nat, DOMAIN map = 1 .. Len(map),
         Covers(map, Len(file.managers)), \A i \in DOMAIN map : Listed(map[i].mgr)
  PROVE  Resolved(map, ToSet(managers))
<1>1. ASSUME NEW j \in 1 .. Len(file.managers), NEW n, n = file.managers[j].name,
             NEW d, d = file.managers[j].id
      PROVE  Retrieve(map, n, d) \in ToSet(managers)
  <2> DEFINE I == {i \in 1 .. Len(map) : map[i].name = Local \/ (map[i].name = n /\ map[i].id = d)}
  <2>1. PICK hit : hit = IF I # {} THEN Min(I) ELSE 0
    OBVIOUS
  <2>2. hit = SelectInSeq(map, LAMBDA e : e.name = Local \/ (e.name = n /\ e.id = d))
    BY <2>1 DEF SelectInSeq
  <2>3. Retrieve(map, n, d) = IF hit = 0 THEN None ELSE map[hit].mgr
    BY <2>2 DEF Retrieve
  <2>4. I # {}
    <3>1. PICK i \in DOMAIN map : map[i].name = Local \/ (map[i].name = n /\ map[i].id = d)
      BY <1>1 DEF Covers
    <3>2. i \in I
      BY <3>1
    <3> QED  BY <3>2
  <2>5. hit \in I /\ hit # 0
    <3>1. I \subseteq 1 .. Len(map)
      OBVIOUS
    <3> HIDE DEF I
    <3> QED  BY <2>1, <2>4, <3>1, Lowest
  <2>6. hit \in DOMAIN map
    BY <2>5
  <2> HIDE DEF I
  <2> QED  BY <2>3, <2>5, <2>6 DEF Listed
<1>2. ToSet(managers) \subseteq Managers
  BY DEF ToSet
<1> QED
  BY <1>1, <1>2 DEF Resolved

\* The dialog's list is empty.
LEMMA NobodyAwaited ==
  ASSUME NEW map \in Seq(Entries), Unassigned(map) = <<>>
  PROVE  \A i \in DOMAIN map : map[i].mgr # None
<1>1. PICK W : W = Waits(map)
  OBVIOUS
<1>2. At(map, W) = <<>> /\ W \subseteq DOMAIN map
  BY <1>1, WaitsAre DEF Waits
<1>3. ToSet(At(map, W)) = {map[i] : i \in W}
  BY <1>2, Selected
<1>4. ToSet(At(map, W)) = {}
  BY <1>2 DEF ToSet
<1>5. W = {}
  BY <1>3, <1>4
<1> QED
  BY <1>1, <1>5 DEF Waits

\* When the dialog is done, and when it is not needed.
LEMMA DialogResolved ==
  ASSUME WInv, dialog # None, waiting = <<>>
  PROVE  file.managers # Bad /\ Resolved(loadmap, ToSet(managers))
<1>1. /\ file.managers # Bad /\ Covers(loadmap, Len(file.managers))
      /\ loadmap \in Seq(Entries) /\ AllThere(loadmap) /\ Unassigned(loadmap) = <<>>
      /\ managers \in Seq(Managers)
  BY DEF WInv, Waiting
<1>2. \A i \in DOMAIN loadmap : Listed(loadmap[i].mgr)
  BY <1>1, NobodyAwaited DEF AllThere
<1>3. Len(loadmap) \in Nat /\ DOMAIN loadmap = 1 .. Len(loadmap)
  BY <1>1
<1> QED
  BY <1>1, <1>2, <1>3, MapResolves
\* So does the map of a file for which no manager is awaited.
LEMMA AllResolved ==
  ASSUME WInv, file.managers # Bad, NEW map, map = SetIfOneManager(Stored), ~IsWaitingList(map)
  PROVE  Resolved(map, ToSet(managers))
<1>1. PICK s : s = Stored
  OBVIOUS
<1>2. Mapped(s, Len(file.managers)) /\ managers \in Seq(Managers)
  BY <1>1, StoredIs DEF WInv
<1>3. /\ s \in Seq(Entries) /\ Covers(s, Len(file.managers)) /\ AllThere(s)
      /\ Len(s) \in Nat /\ DOMAIN s = 1 .. Len(s)
  BY <1>2 DEF Mapped
<1>4. CASE map = s
  <2>1. \A i \in DOMAIN s : Listed(s[i].mgr)
    BY <1>3, <1>4 DEF AllThere, IsWaitingList, ToSet
  <2> QED  BY <1>2, <1>3, <1>4, <2>1, MapResolves
<1>5. CASE map # s
  <2>1. Len(managers) = 1 /\ Len(s) = 1 /\ map = [s EXCEPT ![1].mgr = managers[1]]
    BY <1>1, <1>5 DEF SetIfOneManager
  <2>2. 1 \in DOMAIN s /\ DOMAIN s = {1} /\ s[1] \in Entries
    BY <1>3, <2>1
  <2>3. /\ map \in Seq(Entries) /\ Len(map) = 1 /\ DOMAIN map = {1}
        /\ map[1] = [s[1] EXCEPT !.mgr = managers[1]]
    <3>1. managers[1] \in Managers
      BY <1>2, <2>1
    <3>2. PICK e : e = [s[1] EXCEPT !.mgr = managers[1]]
      OBVIOUS
    <3>3. e \in Entries
      BY <2>2, <3>1, <3>2 DEF Entries
    <3>4. map = [s EXCEPT ![1] = e]
      BY <2>1, <3>2
    <3> QED  BY <1>3, <2>1, <2>2, <3>2, <3>3, <3>4
  <2>4. map[1].name = s[1].name /\ map[1].id = s[1].id /\ map[1].mgr = managers[1]
    BY <2>2, <2>3 DEF Entries
  <2>5. Listed(managers[1])
    BY <1>2, <2>1 DEF Listed, ToSet
  <2>6. \A i \in DOMAIN map : Listed(map[i].mgr)
    BY <2>3, <2>4, <2>5
  <2>7. Covers(map, Len(file.managers))
    <3> SUFFICES ASSUME NEW j \in 1 .. Len(file.managers)
                 PROVE  \/ map[1].name = Local
                        \/ /\ map[1].name = file.managers[j].name
                           /\ map[1].id = file.managers[j].id
      BY <2>3 DEF Covers
    <3>1. PICK i \in DOMAIN s :
             \/ s[i].name = Local
             \/ s[i].name = file.managers[j].name /\ s[i].id = file.managers[j].id
      BY <1>3 DEF Covers
    <3>2. i = 1
      BY <2>2
    <3> QED  BY <2>4, <3>1, <3>2
  <2>8. Len(map) \in Nat /\ DOMAIN map = 1 .. Len(map)
    BY <2>3
  <2> QED  BY <1>2, <2>6, <2>7, <2>8, MapResolves
<1> QED
  BY <1>4, <1>5

-----------------------------------------------------------------------------
(* What the user does.                                                     *)

Orderly == Configured /\ FileSane

\* An operation that leaves a sane configuration.
LEMMA ChangedWhole ==
  ASSUME Orderly, NEW r, NEW M, Sane(r, ToSet(managers), M), Changed(r)
  PROVE  Orderly'
<1>1. Settles(r) /\ UNCHANGED <<file, managers>>
  BY DEF Changed
<1>2. managers' \in Seq(Managers) /\ IsInjective(managers') /\ ToSet(managers') = ToSet(managers)
  BY <1>1, ConfigSane DEF Orderly
<1>3. shown \in Ids \cup {None}
  BY ConfigSane DEF Orderly
<1>4. Configured'
  BY <1>1, <1>2, <1>3, Settled
<1>5. FileSane'
  BY <1>1, SameFile DEF Orderly
<1> QED
  BY <1>4, <1>5 DEF Orderly

\* Another tree.
LEMMA RetreedWhole ==
  ASSUME Orderly, NEW t, Fine(t, ToSet(managers), ToSet(managers)), t.up = TRUE,
         Changed(Retreed(t))
  PROVE  Orderly'
<1>1. PICK r : r = Retreed(t)
  OBVIOUS
<1>2. r = WithTree(Config, t)
  BY <1>1 DEF Retreed, WithTree
<1>3. Grown(t, ToSet(managers))
  BY DEF Grown
<1>4. Sane(Config, ToSet(managers), loadmap)
  BY ConfigSane DEF Orderly
<1>5. Sane(r, ToSet(managers), loadmap)
  BY <1>2, <1>3, <1>4, TreeSet
<1> QED
  BY <1>1, <1>5, ChangedWhole

\* AddNamed keeps the configuration whole,
LEMMA AddNamedWhole ==
  ASSUME Orderly, NEW m \in Managers, NEW k \in {"disk", "server"}, AddNamed(m, k)
  PROVE  Orderly'
<1>1. /\ m \in ToSet(managers) /\ Room(Tree, m) /\ Changed(Numbered(Config, m, k))
  BY DEF AddNamed, Listed
<1>2. PICK c : c = Config
  OBVIOUS
<1>3. Sane(c, ToSet(managers), loadmap) /\ c.tree = Tree /\ Tree \in Trees
  BY <1>2, ConfigSane, ConfigFields DEF Orderly, Sane
<1>4. PICK n \in Nat : n = WorkerCount(c.tree, m) + 1
  <2>1. Tree.workers[m] \in Seq(Ids)
    BY <1>3, TreeFields
  <2> QED  BY <1>3, <2>1 DEF WorkerCount
<1>5. PICK r : r = Created(c, m, k, n)
  OBVIOUS
<1>6. Sane(r, ToSet(managers), loadmap)
  BY <1>1, <1>3, <1>5, CreatedSane
<1>7. r = Numbered(Config, m, k)
  BY <1>2, <1>4, <1>5 DEF Numbered
<1> QED
  BY <1>1, <1>6, <1>7, ChangedWhole

\* RemoveNamed,
LEMMA RemoveNamedWhole ==
  ASSUME Orderly, NEW x \in Ids, RemoveNamed(x)
  PROVE  Orderly'
<1>1. kind[x] # "free" /\ Changed(Retreed(RemoveWorker(Tree, x)))
  BY DEF RemoveNamed, Present
<1>2. Fine(Tree, ToSet(managers), ToSet(managers)) /\ Tree.kind[x] # "free" /\ Tree.up = TRUE
  BY <1>1, Here DEF Orderly, Configured, IInv
<1>3. PICK t : t = RemoveWorker(Tree, x)
  OBVIOUS
<1>4. Fine(t, ToSet(managers), ToSet(managers)) /\ t.up = TRUE
  BY <1>2, <1>3, WorkerRemoved
<1> QED
  BY <1>1, <1>3, <1>4, RetreedWhole

\* SelectServerTarget,
LEMMA SelectServerTargetWhole ==
  ASSUME Orderly, NEW x \in Ids, NEW m \in Managers, SelectServerTarget(x, m)
  PROVE  Orderly'
<1>1. /\ kind[x] = "server" /\ m \in ToSet(managers)
      /\ Changed(Retreed(Assign(RemoveTargets(Tree, x), x, m)))
  BY DEF SelectServerTarget, Listed
<1>2. Fine(Tree, ToSet(managers), ToSet(managers)) /\ Tree.kind[x] = "server" /\ Tree.up = TRUE
  BY <1>1, Here DEF Orderly, Configured, IInv
<1>3. PICK t : t = RemoveTargets(Tree, x)
  OBVIOUS
<1>4. /\ Fine(t, ToSet(managers), ToSet(managers)) /\ t.up = TRUE
      /\ t.kind[x] = "server" /\ t.partner[x] = None
  BY <1>2, <1>3, TargetsRemoved
<1>5. PICK q : q = Assign(t, x, m)
  OBVIOUS
<1>6. Fine(q, ToSet(managers), ToSet(managers)) /\ q.up = TRUE
  BY <1>1, <1>4, <1>5, AssignFine
<1> QED
  BY <1>1, <1>3, <1>5, <1>6, RetreedWhole

\* SelectDisks,
LEMMA SelectDisksWhole ==
  ASSUME Orderly, NEW x \in Ids, NEW chosen, SelectDisks(x, chosen)
  PROVE  Orderly'
<1>1. PICK s : s = Drives[Home(x)]
  OBVIOUS
<1> DEFINE places == {i \in DOMAIN s : s[i] \in chosen}
<1>2. PICK l : l = At(s, places)
  OBVIOUS
<1>3. PICK d : d = [disks EXCEPT ![x] = l]
  OBVIOUS
<1>4. PICK r : r = WithDisks(Config, d)
  OBVIOUS
<1>5. Changed(r)
  <2>1. l = Those(Drives[Home(x)], LAMBDA e : e \in chosen)
    BY <1>1, <1>2 DEF Those
  <2>2. r = [Config EXCEPT !.disks[x] = l]
    BY <1>3, <1>4, ConfigSane DEF WithDisks, Config
  <2> QED  BY <2>1, <2>2 DEF SelectDisks
<1>6. Home(x) \in Managers
  BY Numbers
<1>7. s \in Seq(ToSet(s)) /\ IsInjective(s) /\ ToSet(s) \subseteq AllDisks
  BY <1>1, <1>6, ConfigAssumption DEF ConfigAssumption, AllDisks
<1>8. l \in Seq(ToSet(s)) /\ IsInjective(l) /\ ToSet(l) = {s[i] : i \in places}
  <2>1. places \subseteq DOMAIN s
    OBVIOUS
  <2> HIDE DEF places
  <2> QED  BY <1>2, <1>7, <2>1, Selected
<1>9. ToSet(l) \subseteq ToSet(s) /\ l \in Seq(AllDisks)
  <2>1. \A i \in places : s[i] \in ToSet(s)
    BY DEF ToSet
  <2> HIDE DEF places
  <2> QED  BY <1>7, <1>8, <2>1
<1>10. DisksThere(d)
  <2>1. DisksThere(disks)
    BY DEF Orderly, Configured, Intact
  <2> HIDE DEF places
  <2> QED  BY <1>1, <1>3, <1>8, <1>9, <2>1 DEF DisksThere
<1>11. Sane(r, ToSet(managers), loadmap)
  <2>1. Sane(Config, ToSet(managers), loadmap)
    BY ConfigSane DEF Orderly
  <2> QED  BY <1>4, <1>10, <2>1, DisksSet
<1> QED
  BY <1>5, <1>11, ChangedWhole

\* NewSpec,
LEMMA NewSpecWhole ==
  ASSUME Orderly, NEW n \in SpecNames, NEW d \in Assignments, NewSpec(n, d)
  PROVE  Orderly'
<1>1. ~HasSpec(Config, n) /\ Changed(New(Config, n, d))
  BY DEF NewSpec
<1>2. n \in SomeName /\ d \in SomeDefault
  BY DEF SomeName, SomeDefault
<1>3. PICK r : r = New(Config, n, d)
  OBVIOUS
<1>4. Sane(Config, ToSet(managers), loadmap)
  BY ConfigSane DEF Orderly
<1>5. Sane(r, ToSet(managers), loadmap)
  BY <1>1, <1>2, <1>3, <1>4, NewSane
<1> QED
  BY <1>1, <1>3, <1>5, ChangedWhole

\* A list of specifications without one that is not Idle.
LEMMA OneLess ==
  ASSUME NEW s, ListWhole(s), NEW e \in ToSet(s), e.name # Idle,
         NEW places, places \subseteq DOMAIN s, \A i \in DOMAIN s : i \in places <=> s[i] # e,
         NEW t, t = At(s, places)
  PROVE  ListWhole(t) /\ \A id \in IdsOf(s) : id # e.id => id \in IdsOf(t)
<1>1. /\ s \in Seq(TestSpecs) /\ Len(s) \in Nat /\ DOMAIN s = 1 .. Len(s)
      /\ 1 \in DOMAIN s /\ s[1].name = Idle
      /\ \A i, j \in DOMAIN s : s[i].id = s[j].id \/ s[i].name = s[j].name => i = j
  BY DEF ListWhole, Once
<1>2. places \subseteq DOMAIN s
  OBVIOUS
<1>3. /\ t \in Seq(TestSpecs) /\ Len(t) = Cardinality(places)
      /\ \A n \in 1 .. Len(t) : Spot(places, n) \in places /\ t[n] = s[Spot(places, n)]
      /\ ToSet(t) = {s[i] : i \in places}
  BY <1>1, <1>2, Selected
<1>4. DOMAIN t = 1 .. Len(t) /\ Len(t) \in Nat
  BY <1>3
<1>5. 1 \in places
  BY <1>1
<1>6. Rank(places, 1) = 0
  <2>1. {j \in places : j < 1} = {}
    BY <1>1, <1>2
  <2> QED  BY <2>1, FS_EmptySet DEF Rank
<1>7. 1 \in DOMAIN t /\ t[1] = s[1]
  <2>1. 0 + 1 \in 1 .. Cardinality(places) /\ Spot(places, 0 + 1) = 1
    BY <1>1, <1>2, <1>5, <1>6, SpotOf
  <2>2. 0 + 1 = 1
    OBVIOUS
  <2>3. 1 \in 1 .. Len(t) /\ Spot(places, 1) = 1
    BY <1>3, <2>1, <2>2
  <2> QED  BY <1>3, <1>4, <2>3
<1>8. ASSUME NEW a \in DOMAIN t, NEW b \in DOMAIN t, t[a].id = t[b].id \/ t[a].name = t[b].name
      PROVE  a = b
  <2>1. Spot(places, a) = Spot(places, b)
    <3>1. /\ Spot(places, a) \in DOMAIN s /\ Spot(places, b) \in DOMAIN s
          /\ t[a] = s[Spot(places, a)] /\ t[b] = s[Spot(places, b)]
      BY <1>2, <1>3, <1>4
    <3> QED  BY <1>1, <1>8, <3>1
  <2>2. \A m, n \in 1 .. Cardinality(places) : m < n => Spot(places, m) < Spot(places, n)
    BY <1>1, <1>2, SpotOf
  <2>3. /\ a \in 1 .. Cardinality(places) /\ b \in 1 .. Cardinality(places)
        /\ a \in Int /\ b \in Int
    BY <1>3, <1>4
  <2>4. Spot(places, a) \in Int /\ Spot(places, b) \in Int
    BY <1>1, <1>2, <1>3, <1>4
  <2>5. ~(a < b) /\ ~(b < a)
    BY <2>1, <2>2, <2>3, <2>4
  <2> QED  BY <2>3, <2>5
<1>9. ASSUME NEW id \in IdsOf(s), id # e.id PROVE id \in IdsOf(t)
  <2>1. PICK i \in DOMAIN s : s[i].id = id
    BY DEF IdsOf
  <2>2. i \in places
    BY <1>9, <2>1
  <2>3. PICK n \in DOMAIN t : t[n] = s[i]
    <3>1. s[i] \in ToSet(t)
      BY <1>3, <2>2
    <3> QED  BY <3>1 DEF ToSet
  <2> QED  BY <2>1, <2>3 DEF IdsOf
<1> QED
  BY <1>1, <1>3, <1>7, <1>8, <1>9 DEF ListWhole, Once

\* AccessSpecList::Delete.
LEMMA DeleteSpecWhole ==
  ASSUME Orderly, NEW s \in ToSet(specs), DeleteSpec(s)
  PROVE  Orderly'
<1> DEFINE places == {i \in DOMAIN specs : specs[i] # s}
           Tells(x) == {i \in DOMAIN aspecs[x] : aspecs[x][i] # s.id}
<1>1. PICK l : l = At(specs, places)
  OBVIOUS
<1>2. PICK a : a = [x \in Ids |-> At(aspecs[x], Tells(x))]
  OBVIOUS
<1>3. PICK r : r = [Config EXCEPT !.specs = l, !.aspecs = a]
  OBVIOUS
<1>4. s.name # Idle /\ Changed(r)
  <2>1. l = Those(specs, LAMBDA t : t # s)
    BY <1>1 DEF Those
  <2>2. a = [x \in Ids |-> Those(aspecs[x], LAMBDA i : i # s.id)]
    BY <1>2 DEF Those
  <2>3. Config.specs = specs /\ Config.aspecs = aspecs
    BY DEF Config
  <2>4. r = [Config EXCEPT !.specs = Those(@, LAMBDA t : t # s),
                           !.aspecs = [x \in Ids |-> Those(@[x], LAMBDA i : i # s.id)]]
    BY <1>3, <2>1, <2>2, <2>3
  <2> QED  BY <2>4 DEF DeleteSpec
<1>5. PICK c : c = Config
  OBVIOUS
<1>6. Sane(c, ToSet(managers), loadmap) /\ c.disks = disks /\ c.tree = Tree
  BY <1>5, ConfigSane DEF Orderly
<1>7. ListWhole(specs) /\ AllListed(aspecs, specs)
  BY DEF Orderly, Configured, Intact
<1>8. ListWhole(l) /\ \A id \in IdsOf(specs) : id # s.id => id \in IdsOf(l)
  <2>1. places \subseteq DOMAIN specs /\ \A i \in DOMAIN specs : i \in places <=> specs[i] # s
    OBVIOUS
  <2> HIDE DEF places
  <2> QED  BY <1>1, <1>4, <1>7, <2>1, OneLess
<1>9. ASSUME NEW x \in Ids
      PROVE  a[x] \in Seq(SpecIds) /\ ToSet(a[x]) \subseteq IdsOf(l)
  <2>1. PICK u : u = aspecs[x]
    OBVIOUS
  <2>2. PICK p : p = Tells(x)
    OBVIOUS
  <2>3. u \in Seq(SpecIds) /\ ToSet(u) \subseteq IdsOf(specs) /\ p \subseteq DOMAIN u
    BY <1>7, <2>1, <2>2 DEF AllListed
  <2>4. At(u, p) \in Seq(SpecIds) /\ ToSet(At(u, p)) = {u[i] : i \in p}
    BY <2>3, Selected
  <2>5. \A i \in p : u[i] \in IdsOf(specs) /\ u[i] # s.id
    BY <2>1, <2>2, <2>3 DEF ToSet
  <2>6. a[x] = At(u, p)
    BY <1>2, <2>1, <2>2
  <2>7. \A i \in p : u[i] \in IdsOf(l)
    BY <1>8, <2>5
  <2> QED  BY <2>4, <2>6, <2>7
<1>10. AllListed(a, l)
  <2>1. a \in [Ids -> Seq(SpecIds)]
    <3> HIDE DEF Tells
    <3> QED  BY <1>2, <1>9
  <2> QED  BY <1>9, <2>1 DEF AllListed
<1>11. /\ r \in Configs(loadmap) /\ r.specs = l /\ r.aspecs = a
       /\ r.disks = c.disks /\ r.tree = c.tree
  <2>1. l \in Seq(TestSpecs) /\ a \in [Ids -> Seq(SpecIds)]
    BY <1>8, <1>10 DEF ListWhole, Once, AllListed
  <2>2. c \in Configs(loadmap)
    BY <1>6 DEF Sane
  <2> HIDE DEF places, Tells
  <2> QED  BY <1>3, <1>5, <2>1, <2>2 DEF Configs
<1>12. Sane(r, ToSet(managers), loadmap)
  BY <1>6, <1>8, <1>10, <1>11 DEF Sane
<1> QED
  BY <1>4, <1>12, ChangedWhole

\* What is in the list may be assigned.
LEMMA AssignedWhole ==
  ASSUME Orderly, NEW a, AllListed(a, specs), NEW r, r = WithAssigned(Config, a), Changed(r)
  PROVE  Orderly'
<1>1. PICK c : c = Config
  OBVIOUS
<1>2. Sane(c, ToSet(managers), loadmap) /\ c.specs = specs
  BY <1>1, ConfigSane DEF Orderly
<1>3. Sane(r, ToSet(managers), loadmap)
  BY <1>1, <1>2, AssignedSet
<1> QED
  BY <1>3, ChangedWhole
\* A list of ids with one more, and one of one.
LEMMA IdMore ==
  ASSUME NEW s \in ToSet(specs), ListWhole(specs), NEW u \in Seq(SpecIds),
         ToSet(u) \subseteq IdsOf(specs)
  PROVE  /\ Append(u, s.id) \in Seq(SpecIds) /\ ToSet(Append(u, s.id)) \subseteq IdsOf(specs)
         /\ <<s.id>> \in Seq(SpecIds) /\ ToSet(<<s.id>>) \subseteq IdsOf(specs)
<1>1. PICK id : id = s.id
  OBVIOUS
<1>2. id \in SpecIds /\ id \in IdsOf(specs)
  <2>1. specs \in Seq(TestSpecs)
    BY DEF ListWhole, Once
  <2>2. PICK i \in DOMAIN specs : specs[i] = s
    BY DEF ToSet
  <2>3. s \in TestSpecs
    BY <2>1, <2>2
  <2> QED  BY <1>1, <2>2, <2>3 DEF TestSpecs, IdsOf
<1>3. PICK v : v = Append(u, id)
  OBVIOUS
<1>4. /\ v \in Seq(SpecIds) /\ DOMAIN v = 1 .. Len(u) + 1 /\ Len(u) \in Nat
      /\ DOMAIN u = 1 .. Len(u)
      /\ v[Len(u) + 1] = id /\ \A i \in 1 .. Len(u) : v[i] = u[i]
  BY <1>2, <1>3
<1>5. \A i \in DOMAIN v : v[i] \in IdsOf(specs)
  <2>1. \A i \in DOMAIN v : i \in 1 .. Len(u) \/ i = Len(u) + 1
    BY <1>4
  <2>2. \A i \in DOMAIN u : u[i] \in IdsOf(specs)
    BY DEF ToSet
  <2> QED  BY <1>2, <1>4, <2>1, <2>2
<1>6. <<id>> \in Seq(SpecIds) /\ ToSet(<<id>>) \subseteq IdsOf(specs)
  BY <1>2 DEF ToSet
<1>7. ToSet(v) \subseteq IdsOf(specs)
  BY <1>5 DEF ToSet
<1> QED
  BY <1>1, <1>3, <1>4, <1>6, <1>7

\* AssignSpec,
LEMMA AssignSpecWhole ==
  ASSUME Orderly, NEW s \in ToSet(specs), NEW x \in Ids, AssignSpec(s, x)
  PROVE  Orderly'
<1>1. AllListed(aspecs, specs) /\ ListWhole(specs)
  BY DEF Orderly, Configured, Intact
<1>2. PICK u : u = aspecs[x]
  OBVIOUS
<1>3. u \in Seq(SpecIds) /\ ToSet(u) \subseteq IdsOf(specs)
  BY <1>1, <1>2 DEF AllListed
<1>4. PICK v : v = Append(u, s.id)
  OBVIOUS
<1>5. v \in Seq(SpecIds) /\ ToSet(v) \subseteq IdsOf(specs)
  BY <1>1, <1>3, <1>4, IdMore
<1>6. PICK a : a = [aspecs EXCEPT ![x] = v]
  OBVIOUS
<1>7. AllListed(a, specs)
  BY <1>1, <1>5, <1>6 DEF AllListed
<1>8. PICK r : r = WithAssigned(Config, a)
  OBVIOUS
<1>9. Changed(r)
  <2>1. Config.aspecs = aspecs
    BY DEF Config
  <2>2. r = [Config EXCEPT !.aspecs[x] = Append(@, s.id)]
    BY <1>2, <1>4, <1>6, <1>8, <2>1 DEF WithAssigned
  <2> QED  BY <2>2 DEF AssignSpec
<1> QED
  BY <1>7, <1>8, <1>9, AssignedWhole

\* and AssignToAll.
LEMMA AssignToAllWhole ==
  ASSUME Orderly, NEW s \in ToSet(specs), AssignToAll(s)
  PROVE  Orderly'
<1>1. PICK same \in BOOLEAN : same = \A x, y \in Own : aspecs[x] = aspecs[y]
  OBVIOUS
<1>2. AllListed(aspecs, specs) /\ ListWhole(specs)
  BY DEF Orderly, Configured, Intact
<1> DEFINE Gets(x) == IF x \notin Own THEN <<>>
                      ELSE IF same THEN Append(aspecs[x], s.id) ELSE <<s.id>>
<1>3. PICK a : a = [x \in Ids |-> Gets(x)]
  OBVIOUS
<1>4. ASSUME NEW x \in Ids PROVE Gets(x) \in Seq(SpecIds) /\ ToSet(Gets(x)) \subseteq IdsOf(specs)
  <2>1. <<>> \in Seq(SpecIds) /\ ToSet(<<>>) = {}
    BY DEF ToSet
  <2>2. PICK u : u = aspecs[x]
    OBVIOUS
  <2>3. u \in Seq(SpecIds) /\ ToSet(u) \subseteq IdsOf(specs)
    BY <1>2, <2>2 DEF AllListed
  <2>4. /\ Append(u, s.id) \in Seq(SpecIds) /\ ToSet(Append(u, s.id)) \subseteq IdsOf(specs)
        /\ <<s.id>> \in Seq(SpecIds) /\ ToSet(<<s.id>>) \subseteq IdsOf(specs)
    BY <1>2, <2>3, IdMore
  <2>5. Gets(x) = <<>> \/ Gets(x) = Append(u, s.id) \/ Gets(x) = <<s.id>>
    BY <2>2
  <2> HIDE DEF Gets
  <2> QED  BY <2>1, <2>4, <2>5
<1>5. PICK r : r = WithAssigned(Config, a)
  OBVIOUS
<1>6. Changed(r)
  <2>1. Config.aspecs = aspecs
    BY DEF Config
  <2>2. r = [Config EXCEPT !.aspecs =
               [x \in Ids |-> IF x \notin Own THEN <<>>
                              ELSE IF same THEN Append(@[x], s.id) ELSE <<s.id>>]]
    BY <1>3, <1>5, <2>1 DEF WithAssigned
  <2> QED  BY <1>1, <2>2 DEF AssignToAll
<1> HIDE DEF Gets
<1>7. AllListed(a, specs)
  BY <1>3, <1>4 DEF AllListed
<1> QED
  BY <1>5, <1>6, <1>7, AssignedWhole

\* RemoveManager: its workers go, and those that named it lose their targets.
LEMMA RemoveManagerWhole ==
  ASSUME Orderly, NEW m \in Managers, RemoveManager(m)
  PROVE  Orderly'
<1>1. /\ m \in ToSet(managers) /\ Settles(Left(Config, m)) /\ UNCHANGED file
      /\ managers' = RemoveFirst(managers, m)
  BY DEF RemoveManager, Listed
<1>2. PICK c : c = Config
  OBVIOUS
<1>3. /\ Sane(c, ToSet(managers), loadmap) /\ managers \in Seq(Managers) /\ IsInjective(managers)
      /\ shown \in Ids \cup {None}
  BY <1>2, ConfigSane DEF Orderly
<1>4. PICK r : r = Left(c, m)
  OBVIOUS
<1>5. Sane(r, ToSet(managers) \ {m}, loadmap)
  BY <1>1, <1>3, <1>4, LeftSane
<1>6. /\ managers' \in Seq(Managers) /\ IsInjective(managers')
      /\ ToSet(managers') = ToSet(managers) \ {m}
  BY <1>1, <1>3, RemoveFirstOnce
<1>7. Configured'
  BY <1>1, <1>2, <1>3, <1>4, <1>5, <1>6, Settled
<1> QED
  BY <1>1, <1>7, SameFile DEF Orderly

\* The file is written or changed by hand; nothing else happens.
LEMMA SameConfig ==
  ASSUME Configured, UNCHANGED configuration
  PROVE  Configured'
<1>1. UNCHANGED <<managers, tree, shown, specs, aspecs, disks, wname>>
  BY DEF configuration
<1>2. Tree' = Tree
  BY <1>1 DEF Tree, tree
<1>3. IInv'
  BY <1>1, <1>2 DEF Configured, IInv
<1>4. Quiet' /\ up' = TRUE
  BY <1>1 DEF Configured, Quiet, tree
<1>5. Intact(specs, aspecs, disks, wname)'
  BY <1>1 DEF Configured, Intact, ListWhole, Once, AllListed, IdsOf, DisksThere, TestSpecs,
              SomeName, SomeDefault, AllDisks
<1> QED
  BY <1>3, <1>4, <1>5 DEF Configured

-----------------------------------------------------------------------------
(* Opening a file.                                                         *)

\* OpenConfigFile with a map that has every manager of the file.
LEMMA OpenConfigFileWhole ==
  ASSUME Orderly, NEW r, NEW M, Sane(r, ToSet(managers), M),
         NEW request, request.replace \in BOOLEAN,
         "managers" \in request.parts /\ file.managers # Bad => Resolved(M, ToSet(managers)),
         OpenConfigFile(r, request), UNCHANGED file
  PROVE  Orderly'
<1>1. PICK end : end = Opened(r, request)
  OBVIOUS
<1>2. PICK replaced \in BOOLEAN : replaced <=> /\ end.ok /\ request.replace
                                    /\ "managers" \in request.parts /\ file.managers # <<>>
  OBVIOUS
<1>3. /\ managers \in Seq(Managers) /\ IsInjective(managers) /\ shown \in Ids \cup {None}
      /\ FileSane
  BY ConfigSane DEF Orderly
<1>4. r.map = M
  BY ConfigFields DEF Sane
<1>5. /\ replaced => Sane(end, {m \in ToSet(managers) : Needed(M, m)}, M)
      /\ ~replaced => Sane(end, ToSet(managers), M)
      /\ end.ok \in BOOLEAN
  BY <1>1, <1>2, <1>3, OpenedSane
<1>6. /\ Settles(end)
      /\ managers' = IF replaced THEN At(managers, NeededPlaces(M)) ELSE managers
  BY <1>1, <1>2, <1>4 DEF OpenConfigFile, Those, NeededPlaces
<1>7. PICK s : s = At(managers, NeededPlaces(M))
  OBVIOUS
<1>8. /\ s \in Seq(Managers) /\ IsInjective(s)
      /\ ToSet(s) = {m \in ToSet(managers) : Needed(M, m)}
  BY <1>3, <1>7, NeededManagers
<1>9. PICK L : L = IF replaced THEN {m \in ToSet(managers) : Needed(M, m)} ELSE ToSet(managers)
  OBVIOUS
<1>10. /\ managers' \in Seq(Managers) /\ IsInjective(managers') /\ ToSet(managers') = L
       /\ Sane(end, L, M)
  BY <1>3, <1>5, <1>6, <1>7, <1>8, <1>9
<1>11. Configured'
  BY <1>3, <1>6, <1>10, Settled
<1> QED
  BY <1>3, <1>11, SameFile DEF Orderly

\* Only messages are read.
LEMMA SettledWhole ==
  ASSUME Orderly, Settles(Config), UNCHANGED <<file, managers>>
  PROVE  Orderly'
<1>1. PICK c : c = Config
  OBVIOUS
<1>2. /\ Sane(c, ToSet(managers), loadmap) /\ managers \in Seq(Managers) /\ IsInjective(managers)
      /\ shown \in Ids \cup {None}
  BY <1>1, ConfigSane DEF Orderly
<1>3. /\ managers' \in Seq(Managers) /\ IsInjective(managers')
      /\ ToSet(managers') = ToSet(managers)
  BY <1>2
<1>4. Configured'
  BY <1>1, <1>2, <1>3, Settled
<1> QED
  BY <1>4, SameFile DEF Orderly

\* PrepareToOpenConfigFile.
LEMMA OpenFileWhole ==
  ASSUME Orderly, WInv, NEW parts, NEW replace \in BOOLEAN, OpenFile(parts, replace)
  PROVE  Orderly'
<1>1. PICK request : request = [parts |-> parts, replace |-> replace]
  OBVIOUS
<1>2. request.parts = parts /\ request.replace = replace
  BY <1>1
<1>3. PICK map : map = SetIfOneManager(Stored)
  OBVIOUS
<1>4. UNCHANGED file
  BY DEF OpenFile, Rest
<1>5. CASE "managers" \notin parts
  <2>1. OpenConfigFile(Config, request)
    BY <1>1, <1>5 DEF OpenFile
  <2>2. Sane(Config, ToSet(managers), loadmap)
    BY ConfigSane DEF Orderly
  <2> QED  BY <1>2, <1>4, <1>5, <2>1, <2>2, OpenConfigFileWhole
<1>6. CASE /\ "managers" \in parts
           /\ file.managers = Bad \/ IsWaitingList(map)
  <2>1. Settles(Config) /\ UNCHANGED managers
    BY <1>3, <1>6 DEF OpenFile
  <2> QED  BY <1>4, <2>1, SettledWhole
<1>7. CASE "managers" \in parts /\ file.managers # Bad /\ ~IsWaitingList(map)
  <2>1. PICK r : r = [Config EXCEPT !.map = map]
    OBVIOUS
  <2>2. OpenConfigFile(r, request)
    BY <1>1, <1>3, <1>7, <2>1 DEF OpenFile
  <2>3. Sane(r, ToSet(managers), map)
    <3>1. Sane(Config, ToSet(managers), loadmap)
      BY ConfigSane DEF Orderly
    <3>2. PICK c : c = Config
      OBVIOUS
    <3>3. c \in Configs(loadmap)
      BY <3>1, <3>2 DEF Sane
    <3>4. /\ r \in Configs(map) /\ r.tree = c.tree /\ r.specs = c.specs /\ r.aspecs = c.aspecs
          /\ r.disks = c.disks
      BY <2>1, <3>2, <3>3 DEF Configs
    <3> QED  BY <3>1, <3>2, <3>4 DEF Sane
  <2>4. Resolved(map, ToSet(managers))
    BY <1>3, <1>7, AllResolved
  <2> QED  BY <1>2, <1>4, <2>2, <2>3, <2>4, OpenConfigFileWhole
<1> QED
  BY <1>5, <1>6, <1>7

\* The dialog closes.
Requested == dialog # None => dialog.replace \in BOOLEAN
\* The end of the dialog loads the file or gives it up.
LEMMA DialogWhole ==
  ASSUME Orderly, WInv, Requested, DialogDone \/ DialogTimedOut \/ DialogAborted
  PROVE  Orderly'
<1>1. CASE DialogDone
  <2>1. dialog # None /\ waiting = <<>> /\ OpenConfigFile(Config, dialog) /\ UNCHANGED file
    BY <1>1 DEF DialogDone, Rest
  <2>2. Resolved(loadmap, ToSet(managers))
    BY <2>1, DialogResolved
  <2>3. Sane(Config, ToSet(managers), loadmap)
    BY ConfigSane DEF Orderly
  <2>4. PICK request : request = dialog
    OBVIOUS
  <2>5. request.replace \in BOOLEAN
    BY <2>1, <2>4 DEF Requested
  <2> QED  BY <2>1, <2>2, <2>3, <2>4, <2>5, OpenConfigFileWhole
<1>2. CASE DialogTimedOut
  <2>1. UNCHANGED configuration /\ UNCHANGED file
    BY <1>2 DEF DialogTimedOut, Closes, Rest
  <2> QED  BY <2>1, SameConfig, SameFile DEF Orderly
<1>3. CASE DialogAborted
  <2>1. Settles(Config) /\ UNCHANGED <<file, managers>>
    BY <1>3 DEF DialogAborted, Closes, Rest
  <2> QED  BY <2>1, SettledWhole
<1> QED
  BY <1>1, <1>2, <1>3

\* Writing and damaging the file.
LEMMA FileWhole ==
  ASSUME Orderly, WInv,
         \/ \E parts \in Sections : SaveConfigFile(parts)
         \/ \E section \in {"specs", "managers"} : Damage(section)
  PROVE  Orderly'
<1>1. CASE \E parts \in Sections : SaveConfigFile(parts)
  <2>1. PICK parts : SaveConfigFile(parts)
    BY <1>1
  <2>2. UNCHANGED configuration
    BY <2>1 DEF SaveConfigFile
  <2> QED  BY <2>1, <2>2, FileSaved, SameConfig DEF Orderly
<1>2. CASE \E section \in {"specs", "managers"} : Damage(section)
  <2>1. PICK section \in {"specs", "managers"} : Damage(section)
    BY <1>2
  <2>2. UNCHANGED configuration
    BY <2>1 DEF Damage
  <2>3. file = [parts |-> file.parts, specs |-> file.specs, managers |-> file.managers]
    BY DEF WInv
  <2>4. FileSane /\ Configured
    BY DEF Orderly
  <2>5. FileSane'
    BY <2>1, <2>3, <2>4, FileDamaged
  <2> QED  BY <2>2, <2>4, <2>5, SameConfig DEF Orderly
<1> QED
  BY <1>1, <1>2

-----------------------------------------------------------------------------
(* A manager logs in.                                                      *)

\* Its default workers are numbered.
Welcomed(r, m, d) == Repeat(LAMBDA q, i : Numbered(q, m, d[i]), r, Len(d))
\* Numbering them keeps the configuration sane.
LEMMA NumbersSane ==
  ASSUME NEW r, NEW L, NEW M, Sane(r, L, M), NEW m \in Managers, m \in L,
         r.tree.workers[m] = <<>>, NEW d \in Seq({"disk", "server"}), Len(d) <= MaxWorkers,
         NEW q, q = Welcomed(r, m, d)
  PROVE  Sane(q, L, M)
<1>0. PICK n \in Nat : n = Len(d)
  OBVIOUS
<1> DEFINE P == [i \in 0 .. n |-> {c \in Configs(M) : Sane(c, L, M) /\ Len(c.tree.workers[m]) = i}]
           Made(f) == f = [i \in 0 .. n |-> IF i = 0 THEN r ELSE Numbered(f[i - 1], m, d[i])]
           F == CHOOSE f : Made(f)
<1>1. q = F[n]
  BY <1>0 DEF Welcomed, Repeat
<1>2. n <= MaxWorkers /\ MaxWorkers \in Nat /\ \A i \in 1 .. n : d[i] \in {"disk", "server"}
  <2>1. \A i \in 1 .. Len(d) : d[i] \in {"disk", "server"}
    OBVIOUS
  <2> QED  BY <1>0, <2>1, Numbers
<1>3. \A f : Made(f) <=> Loop(f, <<"number", m, d>>, r, n)
  BY DEF Loop, Turn
<1>4. r \in P[0]
  <2>1. Len(r.tree.workers[m]) = 0
    BY EmptySeq
  <2>2. r \in Configs(M)
    BY DEF Sane
  <2> QED  BY <2>1, <2>2
<1>5. ASSUME NEW i \in 1 .. n, NEW c \in P[i - 1]
      PROVE  Turn(<<"number", m, d>>, c, i) \in P[i]
  <2>1. PICK k \in 0 .. n : k = i - 1 /\ k < MaxWorkers /\ k + 1 = i
    <3>1. i - 1 \in 0 .. n /\ i - 1 < n /\ i - 1 + 1 = i /\ i \in Int
      BY <1>2
    <3> QED  BY <1>2, <3>1
  <2>2. Sane(c, L, M) /\ Len(c.tree.workers[m]) = k
    BY <2>1
  <2>3. Room(c.tree, m) /\ WorkerCount(c.tree, m) + 1 \in Nat
    BY <1>2, <2>1, <2>2 DEF Room, WorkerCount
  <2>4. PICK h : h = Numbered(c, m, d[i])
    OBVIOUS
  <2>5. PICK z \in Nat : z = WorkerCount(c.tree, m) + 1
    BY <2>3
  <2>6. PICK e \in {"disk", "server"} : e = d[i]
    BY <1>2
  <2>9. h = Created(c, m, e, z)
    BY <2>4, <2>5, <2>6 DEF Numbered
  <2>7. Sane(h, L, M) /\ Len(h.tree.workers[m]) = i
    <3> HIDE DEF P, Made
    <3>1. Sane(c, L, M) /\ Room(c.tree, m)
      BY <2>2, <2>3
    <3>2. Sane(h, L, M) /\ Len(h.tree.workers[m]) = Len(c.tree.workers[m]) + 1
      BY <2>9, <3>1, CreatedSane
    <3> QED  BY <2>1, <2>2, <3>2
  <2>8. h \in P[i]
    <3>1. h \in Configs(M)
      BY <2>7 DEF Sane
    <3> QED  BY <2>1, <2>7, <3>1
  <2> QED  BY <2>4, <2>8 DEF Turn
<1> HIDE DEF P, Made
<1>6. (\E f : Made(f)) /\ \A f : Made(f) => f[n] \in P[n]
  BY <1>2, <1>3, <1>4, <1>5, LoopEnds
<1>7. F[n] \in P[n]
  BY <1>6
<1> QED
  BY <1>1, <1>7 DEF P

\* The tree with one more manager, whose Dynamo has read everything and has no grunts.
LEMMA RoomMade ==
  ASSUME Configured, NEW m \in Managers, m \notin ToSet(managers)
  PROVE  Fine(Tree, ToSet(managers) \cup {m}, ToSet(managers) \cup {m}) /\ Tree.workers[m] = <<>>
<1> DEFINE L == ToSet(managers)
           N == L \cup {m}
<1>1. /\ Fine(Tree, L, L) /\ Sound(Tree) /\ Within(Tree, L) /\ InTune(Tree, L, L)
      /\ Tree.inbox[m] = <<>>
  BY There, Here DEF Configured, Quiet, Fine
<1>2. Tree.workers[m] = <<>>
  BY <1>1 DEF Within
<1>3. GruntsLeft(Tree.grunts[m], Tree.inbox[m]) = Len(Tree.workers[m])
  <2>1. Tree.grunts[m] = 0
    BY <1>1 DEF InTune, ToSet
  <2>2. Len(Tree.workers[m]) = 0 /\ <<>> \in Seq(Nat)
    BY <1>2, EmptySeq
  <2> QED  BY <1>1, <2>1, <2>2, GruntsBounded
<1>4. Within(Tree, N)
  BY <1>1 DEF Within
<1>5. InTune(Tree, N, N)
  BY <1>1, <1>3 DEF InTune
<1> QED
  BY <1>1, <1>2, <1>4, <1>5 DEF Fine

\* LogIn keeps the configuration whole.
LEMMA LogInWhole ==
  ASSUME Orderly, NEW m \in Managers, LogIn(m)
  PROVE  Orderly'
<1> DEFINE N == ToSet(managers) \cup {m}
<1>1. /\ m \notin ToSet(managers) /\ UNCHANGED file /\ managers' = Append(managers, m)
  BY DEF LogIn, Rest, Listed
<1>2. PICK d \in {<<>>} \cup Defaults :
         /\ Len(d) <= MaxWorkers
         /\ Settles(Welcomed(Config, m, d))
  BY DEF LogIn, Welcomed
<1>3. d \in Seq({"disk", "server"})
  <2>1. Defaults \subseteq Seq({"disk", "server"}) /\ <<>> \in Seq({"disk", "server"})
    BY PartnersAssumption DEF PartnersAssumption
  <2> QED  BY <2>1
<1>4. PICK c : c = Config
  OBVIOUS
<1>5. /\ Sane(c, ToSet(managers), loadmap) /\ c.tree = Tree
      /\ managers \in Seq(Managers) /\ IsInjective(managers) /\ shown \in Ids \cup {None}
  BY <1>4, ConfigSane DEF Orderly
<1>6. Fine(Tree, N, N) /\ Tree.workers[m] = <<>>
  BY <1>1, RoomMade DEF Orderly
<1>7. Sane(c, N, loadmap) /\ c.tree.workers[m] = <<>>
  BY <1>5, <1>6 DEF Sane, Grown
<1>8. PICK q : q = Welcomed(c, m, d)
  OBVIOUS
<1>9. Sane(q, N, loadmap)
  <2>1. m \in N
    OBVIOUS
  <2> HIDE DEF N
  <2> QED  BY <1>2, <1>3, <1>7, <1>8, <2>1, NumbersSane
<1>10. /\ managers' \in Seq(Managers) /\ IsInjective(managers') /\ ToSet(managers') = N
  BY <1>1, <1>5, AppendOnce
<1>11. Settles(q)
  BY <1>2, <1>4, <1>8
<1>12. Configured'
  BY <1>5, <1>9, <1>10, <1>11, Settled
<1> QED
  BY <1>1, <1>12, SameFile DEF Orderly

-----------------------------------------------------------------------------
(* The tree stays whole.                                                   *)

\* What holds in every state: of the dialog and its map, of the configuration and the
\* file, and of the request that waits.
CInv == WInv /\ Orderly /\ Requested

\* At the start the list of specifications holds the idle one, and nothing is assigned.
LEMMA CInitially == ConfigInit => CInv
<1> SUFFICES ASSUME ConfigInit PROVE CInv
  OBVIOUS
<1>1. WInv
  BY WInitially
<1>2. IInv /\ up = TRUE /\ Quiet
  BY InitInv DEF ConfigInit, Init, Quiet
<1>3. PICK e : e = [id |-> 1, name |-> Idle, default |-> "none"]
  OBVIOUS
<1>4. e \in TestSpecs /\ e.name = Idle
  <2>1. 1 \in SpecIds
    <3>1. Cardinality(SpecNames) \in Nat
      BY ConfigAssumption, FS_CardinalityType DEF ConfigAssumption
    <3>2. PICK k \in Nat : k = Cardinality(SpecNames)
      BY <3>1
    <3>3. 1 \in 1 .. 2 * (k + 1)
      OBVIOUS
    <3> QED  BY <3>2, <3>3 DEF SpecIds
  <2> QED  BY <1>3, <2>1 DEF TestSpecs, SomeName, SomeDefault
<1>5. ListWhole(specs)
  <2>1. specs = <<e>>
    BY <1>3 DEF ConfigInit
  <2>2. specs \in Seq(TestSpecs) /\ DOMAIN specs = {1} /\ specs[1] = e
    BY <1>4, <2>1
  <2> QED  BY <1>4, <2>2 DEF ListWhole, Once
<1>6. <<>> \in Seq(SpecIds) /\ <<>> \in Seq(AllDisks) /\ ToSet(<<>>) = {} /\ IsInjective(<<>>)
  BY DEF ToSet, IsInjective
<1>7. AllListed(aspecs, specs) /\ DisksThere(disks) /\ wname \in [Ids -> Nat]
  BY <1>6 DEF ConfigInit, AllListed, DisksThere
<1>8. FileSane
  BY DEF ConfigInit, FileSane, SpecsSaved, ManagersSaved
<1>9. Requested
  BY DEF ConfigInit, Requested
<1> QED
  BY <1>1, <1>2, <1>5, <1>7, <1>8, <1>9 DEF CInv, Orderly, Configured, Intact

\* The request that waits stays what it is.
LEMMA RequestedNext ==
  ASSUME Requested, [ConfigNext]_allvars
  PROVE  Requested'
<1>1. CASE \E parts \in Sections : \E replace \in BOOLEAN : OpenFile(parts, replace)
  <2>1. PICK parts \in Sections, replace \in BOOLEAN : OpenFile(parts, replace)
    BY <1>1
  <2>2. dialog' = dialog \/ dialog' = [parts |-> parts, replace |-> replace]
    BY <2>1 DEF OpenFile
  <2>3. dialog' = [parts |-> parts, replace |-> replace] => dialog'.replace = replace
    OBVIOUS
  <2> QED  BY <2>1, <2>2, <2>3 DEF Requested
<1>2. CASE dialog' = dialog \/ dialog' = None
  BY <1>2 DEF Requested
<1>3. \/ \E parts \in Sections : \E replace \in BOOLEAN : OpenFile(parts, replace)
      \/ dialog' = dialog \/ dialog' = None
  BY DEF ConfigNext, AddNamed, RemoveNamed, SelectServerTarget, SelectDisks, AssignSpec, NewSpec,
         DeleteSpec, AssignToAll, Changed, RemoveManager, SaveConfigFile, Damage, Edited,
         LogIn, DialogDone, DialogTimedOut, DialogAborted, Closes, allvars
<1> QED
  BY <1>1, <1>2, <1>3

\* Every step keeps the configuration whole.
LEMMA OrderlyNext ==
  ASSUME CInv, [ConfigNext]_allvars
  PROVE  Orderly'
<1>0. Orderly /\ WInv /\ Requested
  BY DEF CInv
<1>1. CASE \E m \in Managers : \/ LogIn(m) \/ RemoveManager(m)
                               \/ \E k \in {"disk", "server"} : AddNamed(m, k)
  BY <1>0, <1>1, LogInWhole, RemoveManagerWhole, AddNamedWhole
<1>2. CASE \E x \in Ids : \/ RemoveNamed(x)
                          \/ \E m \in Managers : SelectServerTarget(x, m)
                          \/ \E chosen \in SUBSET ToSet(Drives[Home(x)]) : SelectDisks(x, chosen)
                          \/ \E s \in ToSet(specs) : AssignSpec(s, x)
  BY <1>0, <1>2, RemoveNamedWhole, SelectServerTargetWhole, SelectDisksWhole, AssignSpecWhole
<1>3. CASE \/ \E n \in SpecNames, d \in Assignments : NewSpec(n, d)
           \/ \E s \in ToSet(specs) : DeleteSpec(s) \/ AssignToAll(s)
  BY <1>0, <1>3, NewSpecWhole, DeleteSpecWhole, AssignToAllWhole
<1>4. CASE \/ \E parts \in Sections : SaveConfigFile(parts)
           \/ \E section \in {"specs", "managers"} : Damage(section)
  BY <1>0, <1>4, FileWhole
<1>5. CASE \E parts \in Sections : \E replace \in BOOLEAN : OpenFile(parts, replace)
  BY <1>0, <1>5, OpenFileWhole
<1>6. CASE DialogDone \/ DialogTimedOut \/ DialogAborted
  BY <1>0, <1>6, DialogWhole
<1>7. CASE UNCHANGED allvars
  <2>1. UNCHANGED configuration /\ UNCHANGED file
    BY <1>7 DEF allvars
  <2> QED  BY <1>0, <2>1, SameConfig, SameFile DEF Orderly
<1> QED
  BY <1>1, <1>2, <1>3, <1>4, <1>5, <1>6, <1>7 DEF ConfigNext

\* Every step keeps the whole invariant.
LEMMA CNext == CInv /\ [ConfigNext]_allvars => CInv'
  BY WNext, RequestedNext, OrderlyNext DEF CInv

\* Whatever is loaded, and wherever loading stops: the pairs of network workers hold
\* together, all that is assigned is in the lists, and no NULL pointer is used.
THEOREM TreeStaysWhole == ConfigSpec => []TreeWhole
<1>1. CInv => TreeWhole
  <2> SUFFICES ASSUME CInv PROVE TreeWhole
    OBVIOUS
  <2> DEFINE ids == [i \in DOMAIN specs |-> specs[i].id]
             names == [i \in DOMAIN specs |-> specs[i].name]
  <2>1. /\ IInv /\ up = TRUE /\ ListWhole(specs) /\ AllListed(aspecs, specs) /\ DisksThere(disks)
    BY DEF CInv, Orderly, Configured, Intact
  <2>2. PairsWhole
    BY <2>1, PairsAreWhole
  <2>3. /\ 1 \in DOMAIN specs /\ specs[1].name = Idle
        /\ \A i, j \in DOMAIN specs :
              specs[i].id = specs[j].id \/ specs[i].name = specs[j].name => i = j
    BY <2>1 DEF ListWhole, Once
  <2>4. IsInjective(ids) /\ IsInjective(names) /\ names[1] = Idle
    BY <2>3 DEF IsInjective
  <2>5. ToSet(ids) = IdsOf(specs)
    BY DEF ToSet, IdsOf
  <2> HIDE DEF ids, names
  <2>6. \A x \in Ids : /\ ToSet(aspecs[x]) \subseteq ToSet(ids)
                       /\ IsInjective(disks[x]) /\ ToSet(disks[x]) \subseteq ToSet(Drives[Home(x)])
    BY <2>1, <2>5 DEF AllListed, DisksThere
  <2>7. up
    BY <2>1
  <2> QED  BY <2>2, <2>4, <2>6, <2>7 DEF TreeWhole, ids, names
<1> QED
  BY <1>1, CInitially, CNext, PTL DEF ConfigSpec

=============================================================================
