----------------------------- MODULE ConfigFile -----------------------------
(***************************************************************************)
(* Iometer's configuration files: saving the access specifications and the *)
(* managers with their workers, and opening such a file to replace what    *)
(* there is or to be merged with it (GalileoView.cpp, ManagerList.cpp,     *)
(* Manager.cpp, Worker.cpp, AccessSpecList.cpp, core/IcfDocument.cpp,      *)
(* core/IcfWriter.cpp).  Managers in the file that have not logged in are  *)
(* waited for (ManagerMap.cpp, core/ManagerMap.cpp,                        *)
(* WaitingForManagers.cpp).                                                *)
(*                                                                         *)
(* The tree of workers is that of Partners, whose methods are used here.   *)
(* The Dynamos read at once what is sent to them.  A Test_Spec, a pointer  *)
(* in the code, is a number; of its contents the default assignment is     *)
(* kept, of a worker its name, type, assignments and targets.              *)
(***************************************************************************)
EXTENDS Partners

CONSTANTS
    Namings,        \* name and network address of every Dynamo, one choice for each behaviour
    ComputerName,   \* of the machine Iometer runs on
    Drives,         \* the disks of each Dynamo
    SpecNames,      \* names the user gives to access specifications
    Assignments,    \* default assignments the user gives them
    Sections,       \* what the user may ask to be saved or opened: sets of Parts
    Bad,            \* a section of the file that cannot be parsed
    MaxEdits,       \* bound: what the user does before and between files
    MaxOpens        \* bound: files that are loaded

VARIABLES
    who,            \* the choice among Namings
    specs,          \* access_spec_list: id, name and default assignment
    aspecs,         \* access_spec_list of each worker: ids
    disks,          \* disk targets of each worker
    wname,          \* names of the workers
    file,           \* the configuration file: the parts saved and their contents
    loadmap,        \* ManagerMap: the managers of the file and who they are
    waiting,        \* names and addresses in the dialog "waiting for managers"
    dialog,         \* the request the dialog is shown for, or None
    loaded,         \* history: the request the last step carried out, and its success
    edits, opens

configuration == <<managers, tree, shown, specs, aspecs, disks, wname, loadmap>>
allvars == <<configuration, who, file, waiting, dialog, loaded, edits, opens>>

Parts == {"specs", "managers", "assigned", "targets"}
Idle == "Idle"
Local == "(Local)"      \* HOSTNAME_LOCAL
SpecIds == 1 .. 2 * (Cardinality(SpecNames) + 1)

ConfigAssumption ==
    /\ \A w \in Namings : w \in [Managers -> [name : STRING, addr : {"local", "remote"}]]
    /\ DOMAIN Drives = Managers
    /\ \A m \in Managers : Drives[m] \in Seq(ToSet(Drives[m])) /\ IsInjective(Drives[m])
    /\ IsFiniteSet(SpecNames) /\ Idle \notin SpecNames
    /\ Assignments \subseteq {"none", "all", "disk", "net"}
    /\ \A parts \in Sections : parts \subseteq Parts
    /\ {MaxEdits, MaxOpens} \subseteq Nat
ASSUME ConfigAssumption

-----------------------------------------------------------------------------
(* The configuration, which the methods change as a whole.                 *)

\* Besides the variables: the workers of a manager that are still to be matched, whether
\* loading went well so far, and (a bound) whether nobody had too many workers.
Config ==
    [tree |-> Tree, specs |-> specs, aspecs |-> aspecs, disks |-> disks, wname |-> wname,
     map |-> loadmap, left |-> <<>>, ok |-> TRUE, room |-> TRUE]
\* A configuration once the Dynamos have read their messages.
Settles(r) ==
    LET OfWorkers(f, nothing) ==
            [x \in Ids |-> IF r.tree.kind[x] \in {"disk", "server"} THEN f[x] ELSE nothing]
    IN /\ Becomes(AllAnswered(r.tree, Managers))
       /\ specs' = r.specs
       /\ aspecs' = OfWorkers(r.aspecs, <<>>) /\ disks' = OfWorkers(r.disks, <<>>)
       /\ wname' = OfWorkers(r.wname, 0)
       /\ UNCHANGED <<shown, who>>
Failed(r) == [r EXCEPT !.ok = FALSE]
\* "Please report this as an Iometer bug."
Bug(r) == [Failed(r) EXCEPT !.tree.up = FALSE]
\* Bound: a load for which MAX_WORKERS would not do is left out.
NoRoom(r) == [Failed(r) EXCEPT !.room = FALSE]

\* The elements of s that pass a test, in order.
Those(s, Test(_)) == At(s, {i \in DOMAIN s : Test(s[i])})

\* AccessSpecList::RefByName, New; an id nobody uses stands for new memory.
HasSpec(r, n) == \E s \in ToSet(r.specs) : s.name = n
RefByName(r, n) == CHOOSE s \in ToSet(r.specs) : s.name = n
NewId(r) ==
    LET listed == {s.id : s \in ToSet(r.specs)}
    IN Min(SpecIds \ (listed \cup UNION {ToSet(r.aspecs[x]) : x \in Ids}))
New(r, n, d) == [r EXCEPT !.specs = Append(@, [id |-> NewId(r), name |-> n, default |-> d])]
\* AccessSpecList::DeleteAll and InsertIdleSpec.
Mutant_DeleteAll(r) == New([r EXCEPT !.specs = <<>>], Idle, "none")
DeleteAll(r) == New([r EXCEPT !.specs = <<>>, !.aspecs = [x \in Ids |-> <<>>]], Idle, "none")

\* Worker::AssignDefaultAccessSpecs.
DefaultSpecs(r, k) ==
    LET chosen == Those(r.specs, LAMBDA s : s.default \in {"all", IF k = "disk" THEN "disk" ELSE "net"})
    IN [i \in DOMAIN chosen |-> chosen[i].id]
\* Manager::AddWorker with a name, and the constructor of Worker.
Created(r, m, k, n) ==
    LET x == Fresh(r.tree, m)
    IN [r EXCEPT !.tree = AddWorker(@, m, k), !.wname[x] = n, !.disks[x] = <<>>,
                 !.aspecs[x] = DefaultSpecs(r, k)]
Numbered(r, m, k) == Created(r, m, k, WorkerCount(r.tree, m) + 1)

\* CWorkerView::RemoveManager.
Left(r, m) == [r EXCEPT !.tree = Dropped(Emptied(@, m), m)]

\* IndexManagers: managers of one name are numbered.
MgrId(m) ==
    Cardinality({i \in 1 .. (CHOOSE i \in DOMAIN managers : managers[i] = m) :
                    who[managers[i]].name = who[m].name})

-----------------------------------------------------------------------------
(* Saving (GatherConfig): network clients are left out.                    *)

SpecName(id) == (CHOOSE s \in ToSet(specs) : s.id = id).name
Owned(t, m) == Those(t.workers[m], LAMBDA x : t.kind[x] # "client")
GatherWorker(x, parts) ==
    LET far == Home(partner[x])
    IN [name |-> wname[x], kind |-> kind[x],
        specs |-> IF "assigned" \notin parts THEN <<>>
                  ELSE [i \in DOMAIN aspecs[x] |-> SpecName(aspecs[x][i])],
        disks |-> IF "targets" \in parts THEN disks[x] ELSE <<>>,
        target |-> IF "targets" \notin parts \/ x \notin assigned THEN None
                   ELSE [nic |-> who[far].addr, name |-> who[far].name, id |-> MgrId(far)]]
GatherManager(m, parts) ==
    LET own == Owned(Tree, m)
    IN [name |-> who[m].name, id |-> MgrId(m), addr |-> who[m].addr,
        workers |-> [i \in DOMAIN own |-> GatherWorker(own[i], parts)]]
\* Saving stops at a server whose target has no client.
Saves(parts) ==
    parts \ (IF "targets" \in parts /\ \E x \in assigned : partner[x] = None
             THEN {"managers"} ELSE {})
\* Idle is not saved.
SpecsToSave ==
    [i \in 1 .. Len(specs) - 1 |-> [name |-> specs[i + 1].name, default |-> specs[i + 1].default]]
Gather(parts) ==
    [parts |-> Saves(parts),
     specs |-> IF "specs" \in parts THEN SpecsToSave ELSE <<>>,
     managers |-> IF "managers" \notin Saves(parts) THEN <<>>
                  ELSE [i \in DOMAIN managers |-> GatherManager(managers[i], parts)]]

-----------------------------------------------------------------------------
(* The managers of the file (LoadConfigPreprocess, ManagerMap).            *)

Entry(n, i, a, m) == [name |-> n, id |-> i, addr |-> a, mgr |-> m]
Unassigned(map) == Those(map, LAMBDA e : e.mgr = None)
IsWaitingList(map) == \E e \in ToSet(map) : e.mgr = None
Needed(map, m) == \E e \in ToSet(map) : e.mgr = m

\* The first manager of that name and address no earlier entry has; a lone local
\* manager of the file is any manager if there is none yet.
Store(map, f) ==
    LET same == SelectInSeq(managers, LAMBDA m : /\ who[m].name = f.name /\ who[m].addr = f.addr
                                                 /\ ~Needed(map, m))
        lone == managers = <<>> /\ Len(file.managers) = 1
    IN Append(map, IF same # 0 THEN Entry(f.name, f.id, f.addr, managers[same])
                   ELSE IF lone /\ (f.addr = "local" \/ f.name = ComputerName)
                        THEN Entry(Local, 1, "", None)
                        ELSE Entry(f.name, f.id, f.addr, None))
Stored == Repeat(LAMBDA map, i : Store(map, file.managers[i]), <<>>, Len(file.managers))
SetIfOneManager(map) ==
    IF Len(managers) = 1 /\ Len(map) = 1 /\ map[1].mgr = None
    THEN [map EXCEPT ![1].mgr = managers[1]] ELSE map

Retrieve(map, n, i) ==
    LET hit == SelectInSeq(map, LAMBDA e : e.name = Local \/ (e.name = n /\ e.id = i))
    IN IF hit = 0 THEN None ELSE map[hit].mgr

\* The same test for the entries of the map and of the dialog.
IsCalled(e, m) == e.name = who[m].name /\ e.addr = who[m].addr
IsLocal(e) == e.addr = "" /\ e.name = Local
Mutant_LoggedIn(map, m) == SelectInSeq(map, LAMBDA e : IsCalled(e, m) \/ IsLocal(e))
LoggedIn(map, m) == SelectInSeq(map, LAMBDA e : (e.mgr = None /\ IsCalled(e, m)) \/ IsLocal(e))
Found(list, m) == SelectInSeq(list, LAMBDA e : IsCalled(e, m) \/ IsLocal(e))

-----------------------------------------------------------------------------
(* Opening (LoadConfig of the lists, of a manager and of a worker).        *)

\* A specification of the same name is changed in place.
LoadSpec(r, s) ==
    IF ~HasSpec(r, s.name) THEN New(r, s.name, s.default)
    ELSE [r EXCEPT !.specs = [i \in DOMAIN @ |->
              IF @[i].name = s.name THEN [@[i] EXCEPT !.default = s.default] ELSE @[i]]]
LoadSpecs(r, replace) ==
    LET start == IF replace THEN DeleteAll(r) ELSE r
    IN IF file.specs = Bad THEN Failed(start)
       ELSE Repeat(LAMBDA q, i : LoadSpec(q, file.specs[i]), start, Len(file.specs))

\* What is not in the list is left out.
LoadAssigned(r, x, w) ==
    LET known == Those(w.specs, LAMBDA n : HasSpec(r, n))
    IN [r EXCEPT !.aspecs[x] = @ \o [i \in DOMAIN known |-> RefByName(r, known[i]).id]]
\* Up to a disk that is not there; what the worker has is not added again.
LoadDisks(r, x, w) ==
    LET missing == SelectInSeq(w.disks, LAMBDA d : d \notin ToSet(Drives[Home(x)]))
        there == IF missing = 0 THEN w.disks ELSE SubSeq(w.disks, 1, missing - 1)
    IN [r EXCEPT !.disks[x] = @ \o Those(there, LAMBDA d : d \notin ToSet(r.disks[x])),
                 !.ok = missing = 0]
LoadTarget(r, x, w) ==
    LET far == Retrieve(r.map, w.target.name, w.target.id)
        without == [r EXCEPT !.tree = RemoveTargets(@, x)]
    IN IF far = None THEN Bug(without)
       ELSE IF who[far].addr # w.target.nic THEN Failed(without)
       ELSE IF ~Room(without.tree, far) THEN NoRoom(without)
       ELSE [without EXCEPT !.tree = Assign(@, x, far)]
LoadWorker(r, x, w, parts) ==
    LET told == IF "assigned" \in parts THEN LoadAssigned(r, x, w) ELSE r
    IN IF "targets" \notin parts THEN told
       ELSE IF w.kind = "disk" THEN LoadDisks(told, x, w)
       ELSE IF w.target # None THEN LoadTarget(told, x, w) ELSE told

\* The next worker of the file: one of its name and type that was there before, or
\* a new one, which loses its default assignments if others are restored.
Mutant_Matched(r, m, w, parts) ==
    Created(r, m, w.kind, w.name)
Matched(r, m, w, parts) ==
    LET new == Created(r, m, w.kind, w.name)
    IN IF "assigned" \in parts THEN [new EXCEPT !.aspecs[Fresh(r.tree, m)] = <<>>] ELSE new
LoadNext(r, m, w, parts) ==
    LET i == SelectInSeq(r.left, LAMBDA x : r.wname[x] = w.name /\ r.tree.kind[x] = w.kind)
    IN IF ~r.ok THEN r
       ELSE IF i # 0 THEN LoadWorker([r EXCEPT !.left = RemoveAt(@, i)], r.left[i], w, parts)
       ELSE IF ~Room(r.tree, m) THEN NoRoom(r)
       ELSE LoadWorker(Matched(r, m, w, parts), Fresh(r.tree, m), w, parts)
LoadManager(r, f, parts) ==
    LET m == Retrieve(r.map, f.name, f.id)
    IN IF ~r.ok THEN r ELSE IF m = None THEN Bug(r)
       ELSE Repeat(LAMBDA q, i : LoadNext(q, m, f.workers[i], parts),
                   [r EXCEPT !.left = Owned(r.tree, m)], Len(f.workers))
\* If the file replaces, all workers go first, and at last the managers it did not need.
AllEmptied(r) ==
    Repeat(LAMBDA q, i : [q EXCEPT !.tree = Emptied(@, managers[i])], r, Len(managers))
NeedlessLeft(r) ==
    LET Nth(i) == managers[Len(managers) + 1 - i]
    IN Repeat(LAMBDA q, i : IF Needed(q.map, Nth(i)) THEN q ELSE Left(q, Nth(i)), r, Len(managers))
LoadManagers(r, parts, replace) ==
    LET end == Repeat(LAMBDA q, i : LoadManager(q, file.managers[i], parts),
                      IF replace THEN AllEmptied(r) ELSE r, Len(file.managers))
    IN IF file.managers = Bad THEN Failed(r)
       ELSE IF file.managers = <<>> THEN r
       ELSE IF replace /\ end.ok THEN NeedlessLeft(end) ELSE end

\* OpenConfigFile, the parts in this order; one that fails is the last.
Opened(r, request) ==
    LET first == IF "specs" \in request.parts THEN LoadSpecs(r, request.replace) ELSE r
    IN IF first.ok /\ "managers" \in request.parts
       THEN LoadManagers(first, request.parts, request.replace) ELSE first
OpenConfigFile(r, request) ==
    LET end == Opened(r, request)
        replaced == /\ end.ok /\ request.replace
                    /\ "managers" \in request.parts /\ file.managers # <<>>
    IN /\ end.room
       /\ Settles(end) /\ loadmap' = r.map
       /\ managers' = IF replaced THEN Those(managers, LAMBDA m : Needed(r.map, m)) ELSE managers
       /\ loaded' = [request |-> request, ok |-> end.ok]
       /\ opens' = opens + 1

-----------------------------------------------------------------------------
(* What the user does.  The dialog that waits for managers disables the    *)
(* main window.                                                            *)

MayEdit == up /\ dialog = None /\ edits < MaxEdits
Edited == edits' = edits + 1 /\ loaded' = None /\ UNCHANGED <<waiting, dialog, opens>>
Changed(r) == MayEdit /\ Settles(r) /\ Edited /\ UNCHANGED <<file, loadmap, managers>>

Retreed(t) == [Config EXCEPT !.tree = t]

AddNamed(m, k) == Listed(m) /\ Room(Tree, m) /\ Changed(Numbered(Config, m, k))
RemoveNamed(x) == x \in Present /\ Changed(Retreed(RemoveWorker(Tree, x)))
RemoveManager(m) ==
    /\ MayEdit /\ Listed(m) /\ Settles(Left(Config, m)) /\ Edited
    /\ managers' = RemoveFirst(managers, m)
    /\ UNCHANGED <<file, loadmap>>
SelectServerTarget(x, m) ==
    /\ kind[x] = "server" /\ Listed(m) /\ Room(Tree, m)
    /\ Changed(Retreed(Assign(RemoveTargets(Tree, x), x, m)))
SelectDisks(x, chosen) ==
    /\ kind[x] = "disk" /\ chosen \subseteq ToSet(Drives[Home(x)])
    /\ Changed([Config EXCEPT !.disks[x] = Those(Drives[Home(x)], LAMBDA d : d \in chosen)])

NewSpec(n, d) == ~HasSpec(Config, n) /\ Changed(New(Config, n, d))
\* AccessSpecList::Delete: the workers lose it first.
DeleteSpec(s) ==
    /\ s.name # Idle
    /\ Changed([Config EXCEPT !.specs = Those(@, LAMBDA t : t # s),
                              !.aspecs = [x \in Ids |-> Those(@[x], LAMBDA i : i # s.id)]])
Own == {x \in Ids : kind[x] \in {"disk", "server"}}
AssignSpec(s, x) == x \in Own /\ Changed([Config EXCEPT !.aspecs[x] = Append(@, s.id)])
\* With all managers selected the list shown is that of every worker, or none: then
\* Insert clears the lists first.
AssignToAll(s) ==
    LET same == \A x, y \in Own : aspecs[x] = aspecs[y]
    IN /\ Own # {}
       /\ Changed([Config EXCEPT !.aspecs =
              [x \in Ids |-> IF x \notin Own THEN <<>> ELSE IF same THEN Append(@[x], s.id) ELSE <<s.id>>]])

SaveConfigFile(parts) ==
    /\ MayEdit /\ Edited
    /\ file' = Gather(parts)
    /\ UNCHANGED <<configuration, who>>
\* The user changes a section with an editor so that it cannot be parsed.
Damage(section) ==
    /\ MayEdit /\ section \in file.parts /\ Edited
    /\ file' = [file EXCEPT ![section] = Bad]
    /\ UNCHANGED <<configuration, who>>

-----------------------------------------------------------------------------
(* Opening a file, and the dialog that waits for its managers.             *)

Rest == UNCHANGED <<file, edits>>
\* PrepareToOpenConfigFile.
OpenFile(parts, replace) ==
    LET request == [parts |-> parts, replace |-> replace]
        map == SetIfOneManager(Stored)
    IN /\ up /\ dialog = None /\ opens < MaxOpens
       /\ Rest
       /\ IF "managers" \notin parts
          THEN OpenConfigFile(Config, request) /\ UNCHANGED <<waiting, dialog>>
          ELSE IF file.managers = Bad
          THEN /\ Settles(Config) /\ loadmap' = <<>> /\ UNCHANGED managers
               /\ waiting' = <<>> /\ loaded' = [request |-> request, ok |-> FALSE]
               /\ UNCHANGED <<dialog, opens>>
          ELSE /\ waiting' = Unassigned(Stored)
               /\ IF IsWaitingList(map)
                  THEN /\ Settles(Config) /\ loadmap' = map /\ UNCHANGED managers
                       /\ dialog' = request /\ loaded' = None /\ UNCHANGED opens
                  ELSE OpenConfigFile([Config EXCEPT !.map = map], request) /\ UNCHANGED dialog

\* OnTimer: the list is empty, or the time is up (the map stays as it is); OnCancel.
DialogDone ==
    /\ dialog # None /\ waiting = <<>> /\ Rest
    /\ OpenConfigFile(Config, dialog)
    /\ dialog' = None
    /\ UNCHANGED waiting
Closes == dialog # None /\ dialog' = None /\ loaded' = None /\ Rest /\ UNCHANGED opens
DialogTimedOut == Closes /\ waiting # <<>> /\ UNCHANGED <<configuration, who, waiting>>
DialogAborted ==
    Closes /\ Settles(Config) /\ loadmap' = <<>> /\ waiting' = <<>> /\ UNCHANGED managers

\* A manager logs in (OnIdle, ManagerList::AddManager): while managers of a file are
\* waited for it gets no default workers.
LogIn(m) ==
    LET waits == IsWaitingList(loadmap)
        entry == IF waits THEN LoggedIn(loadmap, m) ELSE 0
        line == IF entry # 0 THEN Found(waiting, m) ELSE 0
    IN /\ up /\ ~Listed(m) /\ Rest
       /\ managers' = Append(managers, m)
       /\ loadmap' = IF entry = 0 THEN loadmap ELSE [loadmap EXCEPT ![entry].mgr = m]
       /\ \E d \in IF waits THEN {<<>>} ELSE Defaults :
             /\ Len(d) <= MaxWorkers
             /\ Settles(Repeat(LAMBDA q, i : Numbered(q, m, d[i]), Config, Len(d)))
       /\ waiting' = IF line = 0 THEN waiting ELSE RemoveAt(waiting, line)
       /\ loaded' = None
       /\ UNCHANGED <<dialog, opens>>

ConfigInit ==
    /\ Init /\ who \in Namings
    /\ specs = <<[id |-> 1, name |-> Idle, default |-> "none"]>>
    /\ aspecs = [x \in Ids |-> <<>>] /\ disks = [x \in Ids |-> <<>>]
    /\ wname = [x \in Ids |-> 0]
    /\ file = [parts |-> {}, specs |-> <<>>, managers |-> <<>>]
    /\ loadmap = <<>> /\ waiting = <<>> /\ dialog = None /\ loaded = None
    /\ edits = 0 /\ opens = 0

ConfigNext ==
    \/ \E m \in Managers : \/ LogIn(m) \/ RemoveManager(m)
                           \/ \E k \in {"disk", "server"} : AddNamed(m, k)
    \/ \E x \in Ids : \/ RemoveNamed(x)
                      \/ \E m \in Managers : SelectServerTarget(x, m)
                      \/ \E chosen \in SUBSET ToSet(Drives[Home(x)]) : SelectDisks(x, chosen)
                      \/ \E s \in ToSet(specs) : AssignSpec(s, x)
    \/ \E n \in SpecNames, d \in Assignments : NewSpec(n, d)
    \/ \E s \in ToSet(specs) : DeleteSpec(s) \/ AssignToAll(s)
    \/ \E parts \in Sections : \/ SaveConfigFile(parts)
                               \/ \E replace \in BOOLEAN : OpenFile(parts, replace)
    \/ \E section \in {"specs", "managers"} : Damage(section)
    \/ DialogDone \/ DialogTimedOut \/ DialogAborted

ConfigSpec == ConfigInit /\ [][ConfigNext]_allvars

-----------------------------------------------------------------------------
(* Properties.                                                             *)

\* Whatever is loaded, in part or completely, and wherever loading stops, the tree
\* stays whole: the pairs of network workers (PairsWhole), every assignment points to
\* a specification that is in the list (AccessSpecList deletes Test_Specs to which
\* workers point), the list keeps Idle as its first and one of a name, no disk is
\* assigned twice, and nothing Iometer calls its own bug happens.
TreeWhole ==
    LET ids == [i \in DOMAIN specs |-> specs[i].id]
        names == [i \in DOMAIN specs |-> specs[i].name]
    IN /\ PairsWhole /\ up
       /\ IsInjective(ids) /\ IsInjective(names) /\ names[1] = Idle
       /\ \A x \in Ids : /\ ToSet(aspecs[x]) \subseteq ToSet(ids)
                         /\ IsInjective(disks[x]) /\ ToSet(disks[x]) \subseteq ToSet(Drives[Home(x)])

\* While a file waits for its managers, the dialog shows just those that are not there:
\* the logins, which look for the manager in the map and again in the dialog's list, keep
\* the two in step.  Every manager found stands for one manager of the file, of its name
\* and address.
WaitingAgrees ==
    dialog # None =>
        /\ waiting = Unassigned(loadmap)
        /\ \A i, j \in DOMAIN loadmap :
              LET e == loadmap[i]
              IN e.mgr # None => /\ Listed(e.mgr) /\ (IsLocal(e) \/ IsCalled(e, e.mgr))
                                 /\ loadmap[j].mgr = e.mgr => i = j

Whole == [parts |-> Parts, replace |-> TRUE]
Wanted(w) == IF w.target = None THEN None ELSE Retrieve(loadmap, w.target.name, w.target.id)
\* A file with all parts that replaces everything is loaded if its disks and interfaces
\* are there, and then restores the specifications and, on the managers it was mapped
\* to and on no others, the workers with their names, assignments and targets.
Restored ==
    loaded.request = Whole /\ file.parts = Parts /\ Bad \notin {file.specs, file.managers}
        /\ file.managers # <<>> =>
    LET On(f) == Retrieve(loadmap, f.name, f.id)
        There(f, w) == /\ ToSet(w.disks) \subseteq ToSet(Drives[On(f)])
                       /\ w.target # None => who[Wanted(w)].addr = w.target.nic
        Same(w, x) == /\ [GatherWorker(x, Parts) EXCEPT !.target = None]
                            = [w EXCEPT !.target = None]
                      /\ Wanted(w) = IF x \in assigned THEN Home(partner[x]) ELSE None
    IN /\ loaded.ok <=> \A f \in ToSet(file.managers) : \A w \in ToSet(f.workers) : There(f, w)
       /\ loaded.ok =>
             /\ Gather(Parts).specs = file.specs
             /\ ToSet(managers) = {On(f) : f \in ToSet(file.managers)}
             /\ \A f \in ToSet(file.managers) :
                   LET own == Owned(Tree, On(f))
                   IN /\ Len(own) = Len(f.workers)
                      /\ \A i \in DOMAIN own : Same(f.workers[i], own[i])
\* Merging adds and takes nothing away: managers, workers, specifications, the disks and
\* assignments of a worker stay; a server keeps or changes its target.
Merged ==
    /\ ToSet(managers) \subseteq ToSet(managers')
    /\ \A s \in ToSet(specs) : \E t \in ToSet(specs') : t.id = s.id /\ t.name = s.name
    /\ \A x \in Own : /\ kind'[x] = kind[x] /\ wname'[x] = wname[x]
                      /\ IsPrefix(disks[x], disks'[x]) /\ IsPrefix(aspecs[x], aspecs'[x])
                      /\ loaded'.ok /\ x \in assigned => x \in assigned'
\* Opening a file does what its dialog offers: it replaces or it merges.
Loads == [][loaded' # None => IF loaded'.request.replace THEN Restored' ELSE Merged]_allvars

=============================================================================
