----------------------------- MODULE AssetVersions -----------------------------
(***************************************************************************)
(* The registry of versioned model and dataset groups.  A group is a       *)
(* directory named by a UUID with two JSON files: index.json (its display  *)
(* name) and the list of its versions.  Requests and the background tasks  *)
(* of "save to registry" read and rewrite these files with no lock; every  *)
(* await separates two actions.                                            *)
(*                                                                         *)
(* A file that is missing or does not parse reads as a default: an index   *)
(* named after the UUID, which the reader also writes, or an empty list.   *)
(***************************************************************************)
EXTENDS Naturals, Sequences, FiniteSets, TLC

CONSTANTS Tasks,     \* requests and background saves running at a time
          Groups,    \* UUIDs
          Names,     \* display names of groups
          Itself,    \* the default name of a group: its UUID
          Missing,   \* no such file
          Corrupt,   \* a file that does not parse (empty, or torn)
          Requests,  \* the kinds of operations that are requested
          MaxOps,    \* bound: operations started
          MaxFaults  \* bound: reads that fail and tasks that die

Labels == 1 .. MaxOps + 1    \* vN
Version == [label : Labels, latest : BOOLEAN]

(* The three are neither names nor groups nor lists. *)
ASSUME AssetVersionsAssumption ==
    /\ MaxOps \in Nat /\ MaxFaults \in Nat
    /\ Itself # Missing /\ Itself # Corrupt /\ Missing # Corrupt
    /\ \A x \in {Itself, Missing, Corrupt} : x \notin Names /\ x \notin Groups /\ x \notin Seq(Version)

VARIABLES
    storage,    \* what the workspace is on: "local" or "object"
    dirs,       \* directories of groups (object stores have none)
    index,      \* the name in each group's index.json
    list,       \* the versions in each group's list
    shelf,      \* the vN folders under each name in the models or datasets directory
    op,         \* what each task is doing
    acked,      \* history: labels answered as created and not deleted since
    raced,      \* history: groups in which two updates of the list overlapped
    contended,  \* history: did two operations that choose names overlap
    foreign,    \* history: did anyone but a save number a version or name a group
    collided,   \* history: names whose save found its label already in the group
    emptied,    \* history: names whose folders were deleted
    unchecked,  \* history: was a group named without a look for the name
    crowded,    \* history: groups without a name whose index an operation read while another was about to write it
    ops, faults

files == <<dirs, index, list, shelf>>
history == <<acked, raced, contended, foreign, collided, emptied, unchecked, crowded>>
vars == <<storage, files, op, history, ops, faults>>

Idle == [pc |-> "idle"]
Versioning == {"save", "create", "register", "into"}   \* what ends in create_version
Numbered == {"create", "into"}                         \* ... which numbers the version
Namers == {"save", "create", "register", "rename", "describe"}   \* what writes a name it looked up or read
Kinds == Versioning \cup Namers \cup {"delete", "tag", "untag", "edit", "drop", "list"}

TypeOK ==
    /\ storage \in {"local", "object"}
    /\ dirs \subseteq Groups
    /\ index \in [Groups -> Names \cup {Itself, Missing, Corrupt}]
    /\ \A g \in Groups :
           \/ list[g] \in {Missing, Corrupt}
           \/ list[g] \in Seq(Version) /\ Len(list[g]) <= MaxOps + 1
    /\ shelf \in [Names -> SUBSET Labels]
    /\ \A t \in Tasks : op[t] = Idle \/ (op[t].kind \in Kinds /\ op[t].left \subseteq Groups)
    /\ ops \in 0 .. MaxOps /\ faults \in 0 .. MaxFaults

(* One group of one version, the way a first save leaves it. *)
Init ==
    /\ storage \in {"local", "object"}
    /\ \E g \in Groups, n \in Names :
           /\ dirs = IF storage = "local" THEN {g} ELSE {}
           /\ index = [h \in Groups |-> IF h = g THEN n ELSE Missing]
           /\ list = [h \in Groups |-> IF h = g THEN <<[label |-> 1, latest |-> TRUE]>> ELSE Missing]
           /\ shelf = [m \in Names |-> IF m = n THEN {1} ELSE {}]
           /\ acked = [h \in Groups |-> IF h = g THEN {1} ELSE {}]
    /\ op = [t \in Tasks |-> Idle]
    /\ raced = {} /\ contended = FALSE /\ foreign = FALSE /\ collided = {}
    /\ emptied = {} /\ unchecked = FALSE /\ crowded = {}
    /\ ops = 0 /\ faults = 0
-------------------------------------------------------------------------------
(* What the operations read and compute.                                  *)

Listed == {g \in Groups : g \in dirs \/ index[g] # Missing \/ list[g] # Missing}   \* _list_group_ids
Readable(g) == index[g] \in Names \cup {Itself}

(* _read_versions. *)
Stored(g) == IF list[g] \in {Missing, Corrupt} THEN <<>> ELSE list[g]
LabelsOf(vs) == {vs[i].label : i \in DOMAIN vs}
Highest(S) == CHOOSE x \in S \cup {0} : \A y \in S : y <= x

(* _compute_next_version looks at the folders, _next_version_label at the *)
(* list of versions.                                                      *)
NextFolder(n) == Highest(shelf[n]) + 1
NextLabel(vs) == Highest(LabelsOf(vs)) + 1

(* create_version refuses an explicit label the group has.  Mutant        *)
(* AnyLabel does not look.                                                *)
AnyLabel(vs, label) == FALSE
Taken(vs, label) == label \in LabelsOf(vs)

(* One holder per tag.  Mutant TagStays leaves it with the old holder.    *)
TagStays(vs) == vs
Untagged(vs) == [i \in DOMAIN vs |-> [vs[i] EXCEPT !.latest = FALSE]]

(* Mutant OnlyTheNew writes the new entry alone, mutant AddedTwice once   *)
(* for the tag and once for the label.                                    *)
AddedTwice(vs, label) == Untagged(vs) \o [i \in 1 .. 2 |-> [label |-> label, latest |-> i = 2]]
OnlyTheNew(vs, label) == <<[label |-> label, latest |-> TRUE]>>
Appended(vs, label) == Append(Untagged(vs), [label |-> label, latest |-> TRUE])
Tagged(vs, label) == [i \in DOMAIN vs |-> [vs[i] EXCEPT !.latest = (vs[i].label = label)]]
TagCleared(vs, label) == [i \in DOMAIN vs |-> [vs[i] EXCEPT !.latest = (@ /\ vs[i].label # label)]]
Without(vs, label) ==
    LET f[i \in 0 .. Len(vs)] ==
            IF i = 0 THEN <<>> ELSE IF vs[i].label # label THEN Append(f[i - 1], vs[i]) ELSE f[i - 1]
    IN  f[Len(vs)]

(* Opening a local file for writing empties it; what is then written from *)
(* offset 0 may be a torn file if another writer filled it meanwhile.     *)
Opened(old) == IF storage = "local" THEN Corrupt ELSE old
Closed(old, new) == {new} \cup (IF storage = "local" /\ old # Corrupt THEN {Corrupt} ELSE {})

At(t, pc) == op[t].pc = pc
Updated(r, changes) == [f \in DOMAIN r |-> IF f \in DOMAIN changes THEN changes[f] ELSE r[f]]
Goes(t, changes) == op' = [op EXCEPT ![t] = Updated(@, changes)]
Ends(t) == op' = [op EXCEPT ![t] = Idle]
(* The operations between choosing a name and storing it, and the groups  *)
(* that operations have settled on.                                       *)
Choosing == {u \in Tasks : op[u].pc \notin {"idle", "scan", "reserve", "copy"} /\ op[u].kind \in Namers}
Claimed == {op[u].group : u \in {v \in Tasks : op[v] # Idle}}
Contends(t) == contended' = (contended \/ Choosing \ {t} # {})
-------------------------------------------------------------------------------
(* A request begins.  Of those that name a group by its UUID, "into"      *)
(* creates a version in it, whether it is there or not, "rename" and      *)
(* "describe" update a group that is there.                               *)
Begins(t, kind, name, group, label, pc) ==
    /\ kind \in Requests
    /\ op' = [op EXCEPT ![t] = [kind |-> kind, pc |-> pc, name |-> name, group |-> group, label |-> label,
                                left |-> IF pc \in {"find", "check"} THEN Listed ELSE {}, at |-> group, then |-> "none", copy |-> <<>>]]

Begin(t) ==
    /\ op[t] = Idle
    /\ ops < MaxOps
    /\ ops' = ops + 1
    /\ \/ /\ \E n \in Names : Begins(t, "save", n, Missing, 1, "scan")
          /\ UNCHANGED <<foreign, contended>>
       \/ /\ \E n \in Names :
                 \/ Begins(t, "create", n, Missing, 1, "find")
                 \/ Begins(t, "register", n, Missing, 1, "check")
                 \/ \E g \in Groups : index[g] # Missing /\ Begins(t, "rename", n, g, 1, "index")
          /\ foreign' = TRUE
          /\ Contends(t)
       \/ /\ \E g \in Groups : index[g] # Missing /\ Begins(t, "describe", Missing, g, 1, "index")
          /\ foreign' = TRUE
          /\ Contends(t)
       \/ /\ \E n \in Names, g \in Groups : Begins(t, "into", n, g, 1, "index")
          /\ foreign' = TRUE
          /\ UNCHANGED contended
       \/ /\ \E kind \in {"delete", "tag", "untag", "edit", "drop"}, g \in Listed :
                 \E l \in LabelsOf(Stored(g)) \cup {1} : Begins(t, kind, Missing, g, l, "versions")
          /\ UNCHANGED <<foreign, contended>>
       \/ /\ Begins(t, "list", Missing, Missing, 1, "find")
          /\ UNCHANGED <<foreign, contended>>
    /\ UNCHANGED <<storage, files, acked, raced, collided, emptied, unchecked, crowded, faults>>

(* dataset_delete and model_local_delete, of the directory with a group's *)
(* folders: what its list says of them stays.                             *)
Empties(n) ==
    /\ ops < MaxOps
    /\ ops' = ops + 1
    /\ "empty" \in Requests
    /\ shelf[n] # {}
    /\ shelf' = [shelf EXCEPT ![n] = {}]
    /\ emptied' = emptied \cup {n}
    /\ UNCHANGED <<storage, dirs, index, list, op, acked, raced, contended, foreign, collided, unchecked, crowded, faults>>

(* save_..._to_registry: the next folder, its reservation, the answer     *)
(* "started", the copy in the background.                                 *)
Scans(t) ==
    /\ At(t, "scan")
    /\ NextFolder(op[t].name) \in Labels
    /\ Goes(t, [label |-> NextFolder(op[t].name), pc |-> "reserve"])
    /\ UNCHANGED <<storage, files, history, ops, faults>>

(* makedirs(exist_ok=False); a prefix of an object store is not created   *)
(* and never in the way.  Mutant ExistOk reserves what is reserved.       *)
ExistOk(n, l) == TRUE
Free(n, l) == storage = "object" \/ l \notin shelf[n]

Reserves(t) ==
    /\ At(t, "reserve")
    /\ IF Free(op[t].name, op[t].label)
       THEN /\ shelf' = IF storage = "local" THEN [shelf EXCEPT ![op[t].name] = @ \cup {op[t].label}] ELSE shelf
            /\ Goes(t, [pc |-> "copy"])
       ELSE Ends(t) /\ UNCHANGED shelf    \* 409, please retry
    /\ UNCHANGED <<storage, dirs, index, list, history, ops, faults>>

Copies(t) ==
    /\ At(t, "copy")
    /\ shelf' = [shelf EXCEPT ![op[t].name] = @ \cup {op[t].label}]
    /\ Goes(t, [pc |-> "find", left |-> Listed])
    /\ Contends(t)
    /\ UNCHANGED <<storage, dirs, index, list, acked, raced, foreign, collided, emptied, unchecked, crowded, ops, faults>>
-------------------------------------------------------------------------------
(* find_group_by_name, and list_groups, which stops at no name.           *)

(* Reading an index that is not there writes one.  Mutant Always does so  *)
(* for every group it comes across.                                       *)
Always(g) == TRUE
Defaulted(g) == ~Readable(g)

MeetsDefault(t, g) == Goes(t, [pc |-> "heal", at |-> g, then |-> op[t].pc, left |-> op[t].left \ {g}])

(* Mutant RenamesAnyway gives a group a name that another one has. *)
RenamesAnyway(t, g) ==
    IF op[t].pc = "check" THEN Ends(t)
    ELSE Goes(t, [at |-> IF op[t].kind = "rename" THEN op[t].group ELSE g, left |-> {},
                  group |-> IF op[t].kind = "rename" THEN op[t].group ELSE g,
                  pc |-> IF op[t].kind = "rename" THEN "name" ELSE "index"])
Finds(t, g) ==
    IF op[t].pc = "check" \/ (op[t].kind = "rename" /\ g # op[t].group) THEN Ends(t)
    ELSE Goes(t, [group |-> g, at |-> g, left |-> {}, pc |-> IF op[t].kind = "rename" THEN "name" ELSE "index"])

Looks(t) ==
    /\ At(t, "find") \/ At(t, "check")
    /\ \E g \in op[t].left :
           IF Defaulted(g) THEN MeetsDefault(t, g)
           ELSE IF op[t].kind # "list" /\ index[g] = op[t].name THEN Finds(t, g)
           ELSE Goes(t, [left |-> op[t].left \ {g}])
    /\ UNCHANGED <<storage, files, history, ops, faults>>

(* A name no group has: a new UUID, or for a rename its own group. *)
FindsNone(t) ==
    /\ At(t, "find") \/ At(t, "check")
    /\ op[t].left = {}
    /\ CASE At(t, "check") -> Goes(t, [pc |-> "find", left |-> Listed])
         [] op[t].kind = "list" -> Ends(t)
         [] op[t].kind = "rename" -> Goes(t, [pc |-> "name", at |-> op[t].group])
         [] OTHER -> \E g \in Groups \ (Listed \cup Claimed) : Goes(t, [group |-> g, at |-> g, pc |-> "index"])
    /\ UNCHANGED <<storage, files, history, ops, faults>>

(* _read_index of the operation's own group, whose directory it makes.    *)
(* What only describes the group writes back the name it has read.        *)
AfterIndex(t) == IF op[t].kind = "rename" THEN "find" ELSE "name"
NameFor(t, read) == IF op[t].kind = "describe" THEN read ELSE op[t].name
DefaultRead(t) == Goes(t, [pc |-> "heal", then |-> AfterIndex(t), left |-> Listed, name |-> NameFor(t, Itself)])

AtIndex(t, g) == op[t] # Idle /\ op[t].group = g /\ op[t].pc \in {"find", "heal", "healing", "name", "naming"}

ReadsIndex(t) ==
    /\ At(t, "index")
    /\ LET g == op[t].group IN
       /\ dirs' = IF storage = "local" THEN dirs \cup {g} ELSE dirs
       /\ IF Defaulted(g) THEN DefaultRead(t)
          ELSE IF op[t].kind = "rename" THEN Goes(t, [pc |-> "find", left |-> Listed])
          ELSE IF op[t].kind = "describe" THEN Goes(t, [pc |-> "name", name |-> index[g]])
          ELSE Goes(t, [pc |-> IF index[g] = Itself THEN "name" ELSE "versions"])
       /\ unchecked' = (unchecked \/ (op[t].kind = "into" /\ index[g] \notin Names))
       /\ crowded' = IF index[g] \notin Names /\ \E u \in Tasks \ {t} : AtIndex(u, g)
                     THEN crowded \cup {g} ELSE crowded
    /\ UNCHANGED <<storage, index, list, shelf, acked, raced, contended, foreign, collided, emptied, ops, faults>>

(* The two writes of an index: the default one, and the name. *)
OpensIndex(t) ==
    /\ At(t, "heal") \/ At(t, "name")
    /\ index' = [index EXCEPT ![op[t].at] = Opened(@)]
    /\ Goes(t, [pc |-> IF At(t, "heal") THEN "healing" ELSE "naming"])
    /\ UNCHANGED <<storage, dirs, list, shelf, history, ops, faults>>

ClosesIndex(t) ==
    /\ At(t, "healing") \/ At(t, "naming")
    /\ \E new \in Closed(index[op[t].at], IF At(t, "healing") THEN Itself ELSE op[t].name) :
           index' = [index EXCEPT ![op[t].at] = new]
    /\ IF At(t, "healing") THEN Goes(t, [pc |-> op[t].then, at |-> op[t].group, then |-> "none"])
       ELSE IF op[t].kind \in {"rename", "describe"} THEN Ends(t)
       ELSE Goes(t, [pc |-> "versions"])
    /\ UNCHANGED <<storage, dirs, list, shelf, history, ops, faults>>
-------------------------------------------------------------------------------
(* The list of versions: read, changed and written back.                  *)

LabelFor(t, vs) == IF op[t].kind \in Numbered THEN NextLabel(vs) ELSE op[t].label

Changed(t, vs) ==
    CASE op[t].kind \in Versioning -> Appended(vs, LabelFor(t, vs))
      [] op[t].kind = "delete" -> Without(vs, op[t].label)
      [] op[t].kind = "tag" -> Tagged(vs, op[t].label)
      [] op[t].kind = "untag" -> TagCleared(vs, op[t].label)
      [] op[t].kind = "edit" -> vs

(* create_version raises, the others answer "not found". *)
Refused(t, vs) ==
    IF op[t].kind \in Versioning THEN op[t].kind \notin Numbered /\ Taken(vs, op[t].label)
    ELSE op[t].label \notin LabelsOf(vs)

(* delete_group counts the versions and calls _remove_group_dir, whose    *)
(* storage.rm(gdir, recursive=True) raises a TypeError, as rm takes one   *)
(* argument: the except clause swallows it and every file stays.          *)
Drops(t) == Ends(t) /\ UNCHANGED <<raced, collided>>

Updates(t, vs) ==
    IF Refused(t, vs)
    THEN Ends(t) /\ UNCHANGED raced /\ collided' = IF op[t].kind = "save" THEN collided \cup {op[t].name} ELSE collided
    ELSE /\ LabelFor(t, vs) \in Labels
         /\ Goes(t, [pc |-> "put", label |-> LabelFor(t, vs), copy |-> Changed(t, vs)])
         /\ raced' = IF \E u \in Tasks \ {t} : op[u].pc \in {"put", "putting"} /\ op[u].group = op[t].group
                     THEN raced \cup {op[t].group} ELSE raced
         /\ UNCHANGED collided

ReadsVersions(t) ==
    /\ At(t, "versions")
    /\ IF op[t].kind = "drop" THEN Drops(t) ELSE Updates(t, Stored(op[t].group))
    /\ UNCHANGED <<storage, files, acked, contended, foreign, emptied, unchecked, crowded, ops, faults>>

OpensList(t) ==
    /\ At(t, "put")
    /\ list' = [list EXCEPT ![op[t].group] = Opened(@)]
    /\ Goes(t, [pc |-> "putting"])
    /\ UNCHANGED <<storage, dirs, index, shelf, history, ops, faults>>

(* A list left empty is followed by the same _remove_group_dir. *)
ClosesList(t) ==
    /\ At(t, "putting")
    /\ LET g == op[t].group IN
       /\ \E new \in Closed(list[g], op[t].copy) : list' = [list EXCEPT ![g] = new]
       /\ acked' = IF op[t].kind \in Versioning THEN [acked EXCEPT ![g] = @ \cup {op[t].label}]
                   ELSE IF op[t].kind = "delete" THEN [acked EXCEPT ![g] = @ \ {op[t].label}]
                   ELSE acked
    /\ Ends(t)
    /\ UNCHANGED <<storage, dirs, index, shelf, raced, contended, foreign, collided, emptied, unchecked, crowded, ops, faults>>
-------------------------------------------------------------------------------
(* _read_json: any exception is a missing file.  _list_group_ids: a       *)
(* listing that fails is an empty one.                                    *)
ReadFails(t) ==
    /\ faults < MaxFaults
    /\ faults' = faults + 1
    /\ \/ /\ At(t, "find") \/ At(t, "check")
          /\ \/ \E g \in op[t].left : MeetsDefault(t, g)
             \/ op[t].left = Listed /\ Goes(t, [left |-> {}])
          /\ UNCHANGED history
       \/ /\ At(t, "index")
          /\ DefaultRead(t)
          /\ UNCHANGED history
       \/ /\ At(t, "versions")
          /\ IF op[t].kind = "drop" THEN Drops(t) ELSE Updates(t, <<>>)
          /\ UNCHANGED <<acked, contended, foreign, emptied, unchecked, crowded>>
    /\ UNCHANGED <<storage, files, ops>>

(* A write that breaks off leaves the emptied local file; on an object    *)
(* store the file stays, unless leaving "async with" closes it: that      *)
(* stores what was written so far, nothing.                               *)
BreaksOff(t) ==
    \/ UNCHANGED <<index, list>>
    \/ /\ storage = "object"
       /\ At(t, "healing") \/ At(t, "naming")
       /\ index' = [index EXCEPT ![op[t].at] = Corrupt]
       /\ UNCHANGED list
    \/ /\ storage = "object"
       /\ At(t, "putting")
       /\ list' = [list EXCEPT ![op[t].group] = Corrupt]
       /\ UNCHANGED index

(* A write or the copy fails, or the process dies, in the middle of it.   *)
(* A walk over the groups skips one whose default it cannot write.        *)
Dies(t) ==
    /\ op[t] # Idle
    /\ faults < MaxFaults
    /\ faults' = faults + 1
    /\ BreaksOff(t)
    /\ \/ Ends(t)
       \/ /\ At(t, "heal") \/ At(t, "healing")
          /\ op[t].then \in {"find", "check"}
          /\ op[t].at # op[t].group
          /\ Goes(t, [pc |-> op[t].then, at |-> op[t].group, then |-> "none"])
    /\ UNCHANGED <<storage, dirs, shelf, history, ops>>

Moves(t) ==
    \/ Begin(t) \/ Scans(t) \/ Reserves(t) \/ Copies(t)
    \/ Looks(t) \/ FindsNone(t) \/ ReadsIndex(t) \/ OpensIndex(t) \/ ClosesIndex(t)
    \/ ReadsVersions(t) \/ OpensList(t) \/ ClosesList(t)
    \/ ReadFails(t) \/ Dies(t)

Next == (\E t \in Tasks : Moves(t)) \/ (\E n \in Names : Empties(n))

Spec == Init /\ [][Next]_vars
Symmetry == Permutations(Tasks) \cup Permutations(Groups) \cup Permutations(Names)
-------------------------------------------------------------------------------
(* Properties.                                                            *)

(* However updates of a list overlap, what is stored has every label once *)
(* and each tag at one version: create_version, "one holder per tag".     *)
OneHolder ==
    \A g \in Groups : LET vs == Stored(g) IN
        \A i, k \in DOMAIN vs : i # k => vs[i].label # vs[k].label /\ ~(vs[i].latest /\ vs[k].latest)

(* save_..._to_registry creates the folder "as a reservation to prevent   *)
(* concurrent saves from computing the same version label (TOCTOU)": on a *)
(* local workspace two saves never copy into one folder, nor does a save, *)
(* which has already answered "started", fail to enter its version        *)
(* because the label is taken.  The folders are what both rest on: not so *)
(* for a name whose folders were deleted, nor, for the labels, once       *)
(* anything but a save has numbered a version or named a group.           *)
SavesApart ==
    storage = "local" =>
        /\ \A t, u \in Tasks : t # u /\ At(t, "copy") /\ At(u, "copy") /\ op[t].name = op[u].name =>
               op[t].label # op[u].label \/ op[t].name \in emptied
        /\ ~foreign => collided \subseteq emptied

(* A version answered as created stays in its group until it is deleted,  *)
(* if updates of the list did not overlap, no read failed and no writer   *)
(* died.                                                                  *)
AckedStay ==
    faults = 0 => \A g \in Groups \ raced :
        \/ acked[g] \subseteq LabelsOf(Stored(g))
        \/ \E t \in Tasks : At(t, "putting") /\ op[t].group = g

(* update_group: "A group named ... already exists".  Two groups share a  *)
(* name only after operations that write names overlapped, a fault, or a  *)
(* version created in a group that is named by its UUID in the request    *)
(* and had no name of its own: create_version then looks for none.        *)
NamesDiffer ==
    ~contended /\ ~unchecked /\ faults = 0 => \A g, h \in Groups : g # h /\ index[g] \in Names => index[g] # index[h]

(* Though every read of an index may write one, and a new description     *)
(* writes the name it has read, on an object store a named group loses    *)
(* its name to the default only after a failed read, or if one operation  *)
(* read its index, before it had a name, while another was about to write *)
(* that index.                                                            *)
NamesStay ==
    [][storage = "object" /\ faults' = 0 => \A g \in Groups \ crowded' : index[g] \in Names => index'[g] # Itself]_vars
===============================================================================
