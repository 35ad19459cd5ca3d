------------------------------ MODULE Partners ------------------------------
(***************************************************************************)
(* Iometer's tree of managers and workers, and the pairs of network        *)
(* workers in it: a server that is given a target gets a client on the     *)
(* manager whose interface the target is (Worker.cpp, Manager.cpp,         *)
(* ManagerList.cpp, WorkerView.cpp, PageNetwork.cpp).  To each manager     *)
(* belongs a Dynamo with as many grunts as it has workers: ADD_WORKERS is  *)
(* answered, EXIT is not.                                                  *)
(*                                                                         *)
(* A worker, a pointer in the code, is its manager and a number; targets   *)
(* on disks, and what else workers are set to, make no difference here.    *)
(***************************************************************************)
EXTENDS Integers, Sequences, SequencesExt, FiniteSetsExt

CONSTANTS
    Managers,
    MaxWorkers,     \* MAX_WORKERS, of one manager
    Defaults,       \* what AddDefaultWorkers may add: sequences of kinds
    MaxPresent,     \* bound: the user adds no worker when there are more
    MaxUnread,      \* bound: the user does nothing while more messages are unread
    None

VARIABLES
    managers,       \* manager_list
    workers,        \* the list of each manager
    kind,           \* of each worker: free, disk, server, client
    assigned,       \* servers with a network target
    partner,        \* net_partner of each worker
    inbox,          \* messages the Dynamo has not read: an index for EXIT of a worker
    grunts,         \* grunt_count of the Dynamo
    shown,          \* a selected client whose Copy button ButtonReady has enabled
    copies,         \* history: clients that are copies of clients
    up              \* FALSE when Iometer has used a NULL pointer

tree == <<workers, kind, assigned, partner, inbox, grunts, copies, up>>
vars == <<managers, tree, shown>>

Ids == Managers \X (1 .. MaxWorkers)
All == MaxWorkers   \* the index of EXIT to MANAGER and of RESET: no worker has it

PartnersAssumption ==
    /\ IsFiniteSet(Managers) /\ MaxWorkers \in Nat \ {0} /\ {MaxPresent, MaxUnread} \subseteq Nat
    /\ None \notin Managers \cup Ids
    /\ Defaults \subseteq Seq({"disk", "server"})
ASSUME PartnersAssumption

Init ==
    /\ managers = <<>>
    /\ workers = [m \in Managers |-> <<>>]
    /\ kind = [x \in Ids |-> "free"]
    /\ assigned = {} /\ copies = {}
    /\ partner = [x \in Ids |-> None]
    /\ inbox = [m \in Managers |-> <<>>]
    /\ grunts = [m \in Managers |-> 0]
    /\ shown = None /\ up = TRUE

-----------------------------------------------------------------------------
(* The methods: each takes the tree r it changes and returns the new one.  *)

Tree == [workers |-> workers, kind |-> kind, assigned |-> assigned, partner |-> partner,
         inbox |-> inbox, grunts |-> grunts, copies |-> copies, up |-> up]
Becomes(r) ==
    /\ workers' = r.workers /\ kind' = r.kind /\ assigned' = r.assigned
    /\ partner' = r.partner /\ inbox' = r.inbox /\ grunts' = r.grunts
    /\ copies' = r.copies /\ up' = r.up

\* Step(r, i) for i from 1 to n.
Repeat(Step(_, _), r, n) ==
    LET after[i \in 0 .. n] == IF i = 0 THEN r ELSE Step(after[i - 1], i)
    IN after[n]

WorkerCount(r, m) == Len(r.workers[m])
Home(x) == x[1]
Place(r, x) == CHOOSE i \in DOMAIN r.workers[Home(x)] : r.workers[Home(x)][i] = x

\* Dynamo's Remove_Workers: an index it does not have stands for all workers.
Without(n, index) == IF index < n THEN n - 1 ELSE 0
\* What is left of n grunts when all that has been sent is read.
GruntsLeft(n, sent) == Repeat(LAMBDA k, i : Without(k, sent[i]), n, Len(sent))
\* A message that is answered is read after all those sent before it.
Answered(r, m) == [r EXCEPT !.grunts[m] = GruntsLeft(@, r.inbox[m]), !.inbox[m] = <<>>]
AllAnswered(r, ms) ==
    LET Grunts(m) == IF m \in ms THEN GruntsLeft(r.grunts[m], r.inbox[m]) ELSE r.grunts[m]
    IN [r EXCEPT !.grunts = [m \in Managers |-> Grunts(m)],
                 !.inbox = [m \in Managers |-> IF m \in ms THEN <<>> ELSE r.inbox[m]]]

\* Manager::AddWorker where there is room, and the new worker.
Fresh(r, m) == <<m, Min({n \in 1 .. MaxWorkers : r.kind[<<m, n>>] = "free"})>>
AddWorker(r, m, k) ==
    [Answered(r, m) EXCEPT !.grunts[m] = @ + 1, !.workers[m] = Append(@, Fresh(r, m)),
                           !.kind[Fresh(r, m)] = k]
Room(r, m) == WorkerCount(r, m) < MaxWorkers

Free(r, x) ==
    [r EXCEPT !.kind[x] = "free", !.partner[x] = None, !.assigned = @ \ {x}, !.copies = @ \ {x}]

\* EXIT to Dynamo and off the list, the first half of Manager::RemoveWorker.
Mutant_Unlist(r, x) ==
    [r EXCEPT !.inbox[Home(x)] = Append(@, Place(r, x)),
              !.workers[Home(x)] = RemoveAt(@, Place(r, x))]
Unlist(r, x) ==
    [r EXCEPT !.inbox[Home(x)] = Append(@, Place(r, x) - 1),
              !.workers[Home(x)] = RemoveAt(@, Place(r, x))]

\* ~Worker of a client: its server removes it as a target.
Mutant_ClientDeleted(r, c) ==
    LET s == r.partner[c]
    IN Free(IF s = None THEN r ELSE [r EXCEPT !.assigned = @ \ {s}], c)
ClientDeleted(r, c) ==
    LET s == r.partner[c]
    IN Free(IF s = None THEN r ELSE [r EXCEPT !.partner[s] = None, !.assigned = @ \ {s}], c)

\* Worker::RemoveTargets of a server: the partner goes with the target.
RemoveTargets(r, s) ==
    LET c == r.partner[s]
        cut == [r EXCEPT !.assigned = @ \ {s}, !.partner = [@ EXCEPT ![s] = None, ![c] = None]]
    IN IF s \notin r.assigned THEN r
       ELSE IF c = None THEN [r EXCEPT !.assigned = @ \ {s}]
       ELSE ClientDeleted(Unlist(cut, c), c)

\* ~Worker.
Deleted(r, x) ==
    IF r.kind[x] = "client" THEN ClientDeleted(r, x) ELSE Free(RemoveTargets(r, x), x)
\* CWorkerView::RemoveWorker: of a pair the client goes first.
RemoveWorker(r, x) ==
    LET c == r.partner[x]
        rest == IF r.kind[x] = "server" /\ c # None THEN ClientDeleted(Unlist(r, c), c) ELSE r
    IN Deleted(Unlist(rest, x), x)

\* CWorkerView::RemoveManager up to the call of the manager list.
Emptied(r, m) ==
    Repeat(LAMBDA s, i : IF s.workers[m] = <<>> THEN s ELSE RemoveWorker(s, s.workers[m][1]),
           r, WorkerCount(r, m))
\* ManagerList::RemoveManager: EXIT or RESET, then ~Manager takes the first worker
\* until there is none.
Dropped(r, m) ==
    LET DeleteFirst(s, i) ==
            IF s.workers[m] = <<>> THEN s
            ELSE [Deleted(s, s.workers[m][1]) EXCEPT !.workers[m] = Tail(@)]
    IN Repeat(DeleteFirst, [r EXCEPT !.inbox[m] = Append(@, All)], WorkerCount(r, m))

\* Worker::CreateNetClient on m.  AddWorker may refuse: then there is no partner.
CreateNetClient(r, s, m) ==
    IF Room(r, m) THEN [AddWorker(r, m, "client") EXCEPT !.partner[s] = Fresh(r, m),
                                                         !.partner[Fresh(r, m)] = s]
    ELSE [r EXCEPT !.partner[s] = None]
\* AddTarget and CreateNetClient; a former partner must be gone.
Assign(r, s, m) == CreateNetClient([r EXCEPT !.assigned = @ \cup {s}], s, m)

-----------------------------------------------------------------------------
(* What the user does, while no test runs.                                 *)

Listed(m) == m \in ToSet(managers)
Ready == up /\ MapThenSumSet(LAMBDA m : Len(inbox[m]), Managers) <= MaxUnread
Present == {x \in Ids : kind[x] # "free"}
\* The elements of s at some of its places, in order (GetWorker counts those of a type).
At(s, places) ==
    [n \in 1 .. Cardinality(places) |->
        s[CHOOSE i \in places : Cardinality({j \in places : j < i}) = n - 1]]
Servers(m) == At(workers[m], {i \in DOMAIN workers[m] : kind[workers[m][i]] = "server"})

NewWorker(m, k) ==
    /\ Ready /\ Listed(m) /\ Room(Tree, m) /\ Cardinality(Present) <= MaxPresent
    /\ Becomes(AddWorker(Tree, m, k))
    /\ shown' = None
    /\ UNCHANGED managers

\* OnBCopyWorker: AddWorker with Clone, which asks the partner of the original
\* for its manager.  The button is off for clients, unless ButtonReady turned it on.
CopyWorker(x) ==
    LET m == Home(x)
        copy == AddWorker(Tree, m, kind[x])
    IN /\ Ready /\ x \in Present /\ Room(Tree, m) /\ Cardinality(Present) <= MaxPresent
       /\ kind[x] = "client" => x = shown
       /\ Becomes(IF kind[x] = "client" THEN [copy EXCEPT !.copies = @ \cup {Fresh(Tree, m)}]
                  ELSE IF x \notin assigned THEN copy
                  ELSE IF partner[x] = None
                       THEN [copy EXCEPT !.assigned = @ \cup {Fresh(Tree, m)}, !.up = FALSE]
                       ELSE Assign(copy, Fresh(Tree, m), Home(partner[x])))
       /\ UNCHANGED <<managers, shown>>

\* StoreTargetSelection with a server selected, and Worker::LoadConfigTargets.
SelectTarget(s, m) ==
    /\ Ready /\ s \in Present /\ kind[s] = "server"
    /\ m = None \/ Listed(m)
    /\ Becomes(IF m = None THEN RemoveTargets(Tree, s) ELSE Assign(RemoveTargets(Tree, s), s, m))
    /\ shown' = None
    /\ UNCHANGED managers

\* Manager::RemoveTargets: the list gets shorter on the way if clients are on it.
AllTargetsRemoved(r, m) ==
    Repeat(LAMBDA t, i : IF i > WorkerCount(t, m) \/ t.kind[t.workers[m][i]] # "server" THEN t
                         ELSE RemoveTargets(t, t.workers[m][i]),
           r, WorkerCount(r, m))
\* StoreTargetSelection with a manager selected: its servers get the interfaces
\* chosen, in the order of the managers these belong to.
DistributeTargets(m, chosen) ==
    LET targets == At(managers, {i \in DOMAIN managers : managers[i] \in chosen})
        servers == Servers(m)
    IN /\ Ready /\ Listed(m) /\ servers # <<>>
       /\ chosen \subseteq ToSet(managers) /\ Len(targets) <= Len(servers)
       /\ Becomes(Repeat(LAMBDA r, i : Assign(r, servers[i], targets[i]),
                         AllTargetsRemoved(Tree, m), Len(targets)))
       /\ shown' = None
       /\ UNCHANGED managers

ExitWorker(x) ==
    /\ Ready /\ x \in Present
    /\ Becomes(RemoveWorker(Tree, x))
    /\ shown' = None
    /\ UNCHANGED managers

ExitManager(m) ==
    /\ Ready /\ Listed(m)
    /\ Becomes(Dropped(Emptied(Tree, m), m))
    /\ managers' = RemoveFirst(managers, m)
    /\ shown' = None

\* RemoveAllManagers: the Reset button, the root of the tree removed, OnDestroy.
\* The first manager goes with its list of workers as it is.
RemoveAllManagers ==
    /\ Ready /\ managers # <<>>
    /\ Becomes(Repeat(LAMBDA r, i : Dropped(r, managers[i]), Tree, Len(managers)))
    /\ managers' = <<>>
    /\ shown' = None

\* OnMRefresh: RemoveNetInfo walks over as many workers as there were at first.
Refresh(m) ==
    LET Visit(r, i) ==
            IF ~r.up THEN r
            ELSE IF i > WorkerCount(r, m) THEN [r EXCEPT !.up = FALSE]
            ELSE IF r.kind[r.workers[m][i]] = "server" THEN RemoveTargets(r, r.workers[m][i]) ELSE r
    IN /\ Ready /\ Listed(m)
       /\ Becomes(Repeat(Visit, Answered(Tree, m), WorkerCount(Tree, m)))
       /\ shown' = None
       /\ UNCHANGED managers

\* A test: every worker is asked and answers; a client asks its partner for its
\* access specifications, a server with a target sends its partner targets.
\* ButtonReady enables Copy whatever is selected.
RunTest ==
    /\ Ready /\ Present # {}
    /\ Becomes([AllAnswered(Tree, ToSet(managers)) EXCEPT
                   !.up = \A x \in Present : kind[x] = "client" \/ x \in assigned
                                                => partner[x] # None])
    /\ shown' \in {None} \cup {x \in Present : kind[x] = "client"}
    /\ UNCHANGED managers

-----------------------------------------------------------------------------
(* The Dynamos.                                                            *)

\* A Dynamo logs in, AddDefaultWorkers.  It may be one that was reset.
Join(m) ==
    /\ Ready /\ ~Listed(m) /\ inbox[m] = <<>>
    /\ \E d \in Defaults :
          /\ Len(d) <= MaxWorkers
          /\ Becomes(Repeat(LAMBDA r, i : AddWorker(r, m, d[i]), Tree, Len(d)))
    /\ managers' = Append(managers, m)
    /\ UNCHANGED shown

\* Process_Message: after RESET or EXIT of all it does not read on.
Serve(m) ==
    /\ inbox[m] # <<>>
    /\ grunts' = [grunts EXCEPT ![m] = Without(@, Head(inbox[m]))]
    /\ inbox' = [inbox EXCEPT ![m] = IF Head(@) = All THEN <<>> ELSE Tail(@)]
    /\ UNCHANGED <<managers, workers, kind, assigned, partner, shown, copies, up>>

Next ==
    \/ \E m \in Managers : \/ \E k \in {"disk", "server"} : NewWorker(m, k)
                           \/ \E chosen \in SUBSET Managers : DistributeTargets(m, chosen)
                           \/ ExitManager(m) \/ Refresh(m) \/ Join(m) \/ Serve(m)
    \/ \E x \in Ids : \/ CopyWorker(x) \/ ExitWorker(x)
                      \/ \E m \in Managers \cup {None} : SelectTarget(x, m)
    \/ RemoveAllManagers \/ RunTest

Spec == Init /\ [][Next]_vars

-----------------------------------------------------------------------------
(* Properties.                                                             *)

\* Every variable keeps its type.
TypeOK ==
    /\ managers \in Seq(Managers) /\ IsInjective(managers)
    /\ workers \in [Managers -> Seq(Ids)]
    /\ kind \in [Ids -> {"free", "disk", "server", "client"}]
    /\ assigned \subseteq Ids /\ copies \subseteq Ids
    /\ partner \in [Ids -> Ids \cup {None}]
    /\ inbox \in [Managers -> Seq(0 .. MaxWorkers)] /\ grunts \in [Managers -> 0 .. MaxWorkers]
    /\ shown \in Ids \cup {None} /\ up \in BOOLEAN

\* The pairs hold together whatever is added, copied, assigned or removed, by
\* whichever of the ways out of the tree: workers are on exactly one list, that of
\* a manager which is there; partners have each other, server and client, and the
\* server has the target; a client without a server is a copy of a client.  On one
\* manager the client comes after its server, which ~Manager (it deletes the first worker
\* and then drops the first element) and Manager::RemoveTargets rely on.
PairsWhole ==
    /\ \A m \in Managers : IsInjective(workers[m]) /\ (workers[m] # <<>> => Listed(m))
    /\ \A x \in Ids :
          /\ Cardinality({m \in Managers : x \in ToSet(workers[m])})
                = IF kind[x] = "free" THEN 0 ELSE 1
          /\ x \in assigned => kind[x] = "server"
          /\ kind[x] = "client" => (partner[x] = None <=> x \in copies)
          /\ partner[x] # None =>
                /\ partner[partner[x]] = x
                /\ {kind[x], kind[partner[x]]} = {"server", "client"}
                /\ kind[x] = "server" => x \in assigned
    /\ \A m \in Managers : \A i, j \in DOMAIN workers[m] :
          partner[workers[m][i]] = workers[m][j] /\ kind[workers[m][j]] = "client" => i < j

\* When a Dynamo has read what was sent it has a grunt for every worker of its
\* manager, and the index of no EXIT on the way makes it remove them all.
InStep ==
    \A m \in Managers :
        /\ Listed(m) => Answered(Tree, m).grunts[m] = Len(workers[m])
        /\ ~Listed(m) /\ inbox[m] = <<>> => grunts[m] = 0
=============================================================================
