-------------------------- MODULE AssetVersionsProofs --------------------------
(***************************************************************************)
(* Theorems about AssetVersions, for any tasks, groups and names and any   *)
(* number of operations and faults.                                        *)
(***************************************************************************)
EXTENDS AssetVersions, FiniteSetTheorems, WellFoundedInduction, TLAPS

-------------------------------------------------------------------------------
(* What the operations compute.  Without is a recursive function: that it  *)
(* is defined, and what it contains, are inductions on sets of naturals.   *)

Below == {p \in Nat \X Nat : p[1] < p[2]}

(* A set of naturals with 0 and every successor has them all. *)
LEMMA SetInduction ==
    ASSUME NEW T, 0 \in T, \A n \in Nat : n \in T => n + 1 \in T
    PROVE  \A n \in Nat : n \in T
<1>1. IsWellFoundedOn(Below, Nat)
  BY NatLessThanWellFounded DEF OpToRel, Below
<1> SUFFICES ASSUME Nat \ T # {} PROVE FALSE
  OBVIOUS
<1>2. PICK x \in Nat \ T : \A y \in Nat \ T : ~ (<<y, x>> \in Below)
  <2>1. Nat \ T \subseteq Nat
    OBVIOUS
  <2> QED
    BY ONLY <1>1, <2>1, Nat \ T # {}, WFMin, Zenon
<1>3. x - 1 \in Nat /\ x - 1 \in T
  <2>1. x \in Nat /\ x # 0
    OBVIOUS
  <2>2. x - 1 \in Nat /\ x - 1 < x
    BY <2>1
  <2> QED
    BY <1>2, <2>1, <2>2 DEF Below
<1>4. (x - 1) + 1 \in T
  BY <1>3
<1> QED
  BY <1>2, <1>4

(* A list as it should be: each label once, the tag at one version. *)
Sound(vs) == \A i, k \in DOMAIN vs : i # k => vs[i].label # vs[k].label /\ ~(vs[i].latest /\ vs[k].latest)

(* The recursive function in Without exists. *)
LEMMA WithoutDef ==
    ASSUME NEW S, NEW vs \in Seq(S), NEW label
    PROVE  \E f : /\ f = [i \in 0 .. Len(vs) |-> IF i = 0 THEN <<>>
                             ELSE IF vs[i].label # label THEN Append(f[i - 1], vs[i]) ELSE f[i - 1]]
                  /\ Without(vs, label) = f[Len(vs)]
<1> DEFINE Step(f, i) == IF i = 0 THEN <<>> ELSE IF vs[i].label # label THEN Append(f[i - 1], vs[i]) ELSE f[i - 1]
           Defined == {n \in Nat : \E f : f = [i \in 0 .. n |-> Step(f, i)]}
           F == CHOOSE f : f = [i \in 0 .. Len(vs) |-> Step(f, i)]
<1>1. 0 \in Defined
  <2> DEFINE g == [i \in 0 .. 0 |-> <<>>]
  <2>1. g = [i \in 0 .. 0 |-> Step(g, i)]
    OBVIOUS
  <2> QED
    BY <2>1
<1>2. ASSUME NEW n \in Nat, n \in Defined PROVE n + 1 \in Defined
  <2>1. PICK f : f = [i \in 0 .. n |-> Step(f, i)]
    BY <1>2
  <2> DEFINE g == [i \in 0 .. n + 1 |-> IF i = n + 1 THEN Step(f, n + 1) ELSE f[i]]
  <2>2. ASSUME NEW i \in 0 .. n + 1 PROVE g[i] = Step(g, i)
    <3>1. CASE i = 0
      BY <2>1, <3>1
    <3>2. CASE i # 0
      <4>1. i - 1 \in 0 .. n /\ g[i - 1] = f[i - 1]
        BY <3>2
      <4>2. Step(g, i) = Step(f, i)
        BY <3>2, <4>1
      <4> HIDE DEF Step
      <4>3. g[i] = Step(f, i)
        <5>1. CASE i = n + 1
          BY <5>1
        <5>2. CASE i \in 0 .. n
          BY <2>1, <5>2
        <5> QED
          BY <5>1, <5>2
      <4> QED
        BY <4>2, <4>3
    <3> QED
      BY <3>1, <3>2
  <2> HIDE DEF Step
  <2>3. g = [i \in 0 .. n + 1 |-> Step(g, i)]
    BY <2>2
  <2> HIDE DEF g
  <2> QED
    BY <2>3
<1>3. Len(vs) \in Defined
  <2> HIDE DEF Defined
  <2> QED
    BY <1>1, <1>2, SetInduction
<1>4. PICK f : f = [i \in 0 .. Len(vs) |-> Step(f, i)]
  BY <1>3
<1>5. F = [i \in 0 .. Len(vs) |-> Step(F, i)]
  BY <1>4, Zenon
<1>6. Without(vs, label) = F[Len(vs)]
  BY DEF Without
<1> QED
  BY <1>5, <1>6

(* What is left when a label is taken out. *)
LEMMA WithoutRest ==
    ASSUME NEW vs \in Seq(Version), NEW label
    PROVE  /\ Without(vs, label) \in Seq(Version)
           /\ LabelsOf(Without(vs, label)) = LabelsOf(vs) \ {label}
           /\ Sound(vs) => Sound(Without(vs, label))
<1>1. PICK f : /\ f = [i \in 0 .. Len(vs) |-> IF i = 0 THEN <<>>
                           ELSE IF vs[i].label # label THEN Append(f[i - 1], vs[i]) ELSE f[i - 1]]
               /\ Without(vs, label) = f[Len(vs)]
  BY WithoutDef
<1> DEFINE Good(n) ==
              /\ f[n] \in Seq(Version)
              /\ \A i \in DOMAIN f[n] : f[n][i].label # label /\ \E m \in 1 .. n : f[n][i] = vs[m]
              /\ \A m \in 1 .. n : vs[m].label # label => \E i \in DOMAIN f[n] : f[n][i] = vs[m]
              /\ Sound(vs) => Sound(f[n])
           All == {n \in Nat : n <= Len(vs) => Good(n)}
<1>2. 0 \in All
  <2>1. f[0] = <<>>
    BY <1>1
  <2>2. f[0] \in Seq(Version) /\ DOMAIN f[0] = {}
    BY <2>1
  <2>3. Good(0)
    BY <2>2 DEF Sound
  <2> HIDE DEF Good
  <2> QED
    BY <2>3
<1>3. ASSUME NEW n \in Nat, n \in All PROVE n + 1 \in All
  <2> SUFFICES ASSUME n + 1 <= Len(vs) PROVE Good(n + 1)
    <3> n + 1 \in Nat
      OBVIOUS
    <3> HIDE DEF Good
    <3> QED
      OBVIOUS
  <2>1. Good(n)
    BY <1>3
  <2>2. f[n + 1] = IF vs[n + 1].label # label THEN Append(f[n], vs[n + 1]) ELSE f[n]
    <3>1. n + 1 \in 0 .. Len(vs) /\ n + 1 # 0 /\ (n + 1) - 1 = n
      OBVIOUS
    <3> QED
      BY <1>1, <3>1
  <2>3. vs[n + 1] \in Version /\ n + 1 \in DOMAIN vs
    OBVIOUS
  <2>4. CASE vs[n + 1].label = label
    <3>1. f[n + 1] = f[n]
      BY <2>2, <2>4
    <3>2. \A m \in 1 .. n + 1 : vs[m].label # label => m \in 1 .. n
      BY <2>4
    <3> QED
      BY <2>1, <3>1, <3>2
  <2>5. CASE vs[n + 1].label # label
    <3>1. f[n + 1] = Append(f[n], vs[n + 1])
      BY <2>2, <2>5
    <3>2. f[n + 1] \in Seq(Version) /\ Len(f[n + 1]) = Len(f[n]) + 1 /\ DOMAIN f[n + 1] = 1 .. Len(f[n]) + 1
      BY <2>1, <2>3, <3>1
    <3>3. \A i \in DOMAIN f[n + 1] : f[n + 1][i] = IF i = Len(f[n]) + 1 THEN vs[n + 1] ELSE f[n][i]
      BY <2>1, <2>3, <3>1
    <3>4. \A i \in DOMAIN f[n + 1] : i = Len(f[n]) + 1 \/ i \in DOMAIN f[n]
      BY <2>1, <3>2
    <3>5. \A i \in DOMAIN f[n + 1] : f[n + 1][i].label # label /\ \E m \in 1 .. n + 1 : f[n + 1][i] = vs[m]
      BY <2>1, <2>5, <3>3, <3>4
    <3>6. ASSUME NEW m \in 1 .. n + 1, vs[m].label # label PROVE \E i \in DOMAIN f[n + 1] : f[n + 1][i] = vs[m]
      <4>1. CASE m = n + 1
        <5>1. Len(f[n]) + 1 \in DOMAIN f[n + 1]
          BY <2>1, <3>2
        <5> QED
          BY <3>3, <4>1, <5>1
      <4>2. CASE m \in 1 .. n
        <5>1. PICK i \in DOMAIN f[n] : f[n][i] = vs[m]
          BY <2>1, <3>6, <4>2
        <5>2. i \in DOMAIN f[n + 1] /\ i # Len(f[n]) + 1
          BY <2>1, <3>2
        <5> QED
          BY <3>3, <5>1, <5>2
      <4> QED
        BY <4>1, <4>2
    <3>7. ASSUME Sound(vs) PROVE Sound(f[n + 1])
      <4> SUFFICES ASSUME NEW i \in DOMAIN f[n + 1], NEW k \in DOMAIN f[n + 1], i # k
                   PROVE  f[n + 1][i].label # f[n + 1][k].label /\ ~(f[n + 1][i].latest /\ f[n + 1][k].latest)
        BY DEF Sound
      <4>1. \A m \in 1 .. n : vs[m].label # vs[n + 1].label /\ ~(vs[m].latest /\ vs[n + 1].latest)
        <5>1. \A m \in 1 .. n : m \in DOMAIN vs /\ m # n + 1
          BY <2>3
        <5> QED
          BY <2>3, <3>7, <5>1 DEF Sound
      <4>2. \A j \in DOMAIN f[n] : f[n][j].label # vs[n + 1].label /\ ~(f[n][j].latest /\ vs[n + 1].latest)
        BY <2>1, <4>1
      <4> QED
        BY <2>1, <3>3, <3>4, <3>7, <4>2 DEF Sound
    <3> QED
      BY <3>2, <3>5, <3>6, <3>7
  <2> QED
    BY <2>4, <2>5
<1>4. Len(vs) \in All
  <2> HIDE DEF All
  <2> QED
    BY <1>2, <1>3, SetInduction
<1>5. Good(Len(vs))
  BY <1>4
<1>6. LabelsOf(f[Len(vs)]) = LabelsOf(vs) \ {label}
  <2>1. DOMAIN vs = 1 .. Len(vs) /\ Len(vs) \in Nat
    OBVIOUS
  <2> DEFINE rest == f[Len(vs)]
  <2>2. /\ \A i \in DOMAIN rest : rest[i].label # label /\ \E m \in DOMAIN vs : rest[i] = vs[m]
        /\ \A m \in DOMAIN vs : vs[m].label # label => \E i \in DOMAIN rest : rest[i] = vs[m]
    BY <1>5, <2>1
  <2> HIDE DEF rest
  <2>3. ASSUME NEW l PROVE l \in LabelsOf(rest) <=> l \in LabelsOf(vs) \ {label}
    BY <2>2 DEF LabelsOf
  <2>4. LabelsOf(rest) = LabelsOf(vs) \ {label}
    BY <2>3
  <2> QED
    BY <2>4 DEF rest
<1> QED
  BY <1>1, <1>5, <1>6

(* A label that is highest is none of those after it. *)
LEMMA HighestIs ==
    ASSUME NEW S, S \subseteq Labels
    PROVE  Highest(S) \in Nat /\ Highest(S) + 1 \notin S
<1>0. MaxOps \in Nat
  BY AssetVersionsAssumption DEF AssetVersionsAssumption
<1> DEFINE Bounds == {n \in Nat : \A y \in S : y <= n}
<1>1. MaxOps + 1 \in Bounds
  BY <1>0 DEF Labels
<1>2. IsWellFoundedOn(Below, Nat)
  BY NatLessThanWellFounded DEF OpToRel, Below
<1>3. PICK x \in Bounds : \A y \in Bounds : ~ (<<y, x>> \in Below)
  <2>1. Bounds \subseteq Nat /\ Bounds # {}
    BY <1>1
  <2> HIDE DEF Bounds
  <2> QED
    BY ONLY <1>2, <2>1, WFMin, Zenon
<1>4. x \in S \cup {0}
  <2> SUFFICES ASSUME x \notin S, x # 0 PROVE FALSE
    OBVIOUS
  <2>1. x - 1 \in Nat /\ x - 1 < x
    OBVIOUS
  <2>2. \A y \in S : y \in Nat /\ y <= x /\ y # x
    BY <1>0 DEF Labels
  <2>3. x - 1 \in Bounds
    BY <2>1, <2>2
  <2> QED
    BY <1>3, <2>1, <2>3 DEF Below
<1>5. \A y \in S : y <= x
  OBVIOUS
<1>6. Highest(S) \in S \cup {0} /\ \A y \in S : y <= Highest(S)
  BY <1>4, <1>5 DEF Highest
<1>7. \A y \in S \cup {0} : y \in Nat
  BY <1>0 DEF Labels
<1> QED
  BY <1>6, <1>7
-------------------------------------------------------------------------------
(* The inductive invariant.                                                *)

(* What a task holds while it works. *)
Healing == {"heal", "healing"}
Writing == {"put", "putting"}
Doing == [kind : Kinds,
          pc : {"scan", "reserve", "copy", "find", "check", "index", "name", "naming", "versions"} \cup Healing \cup Writing,
          name : Names \cup {Missing, Itself}, group : Groups \cup {Missing}, label : Labels, left : SUBSET Groups,
          at : Groups \cup {Missing}, then : {"none", "find", "check", "name"}, copy : Seq(Version)]

(* Where an operation of each kind can be. *)
Looking == {"save", "create", "register", "rename", "list"}
Naming == Namers \cup Versioning
Searches(r, p) == r.pc = p \/ (r.pc \in Healing /\ r.then = p)
Placed(r) ==
    /\ r.kind \in Versioning \cup {"rename"} => r.name \in Names
    /\ r.kind \in {"rename", "describe", "into"} => r.group \in Groups
    /\ r.pc \in {"scan", "reserve", "copy"} => r.kind = "save"
    /\ Searches(r, "check") => r.kind = "register"
    /\ Searches(r, "find") => r.kind \in Looking
    /\ r.pc \in {"index", "naming"} \/ Searches(r, "name") => r.kind \in Naming /\ r.group \in Groups /\ r.at = r.group
    /\ r.pc = "naming" \/ Searches(r, "name") => r.name \in Names \cup {Itself}
    /\ r.pc \in Healing => r.at \in Groups /\ r.then # "none" /\ (r.then = "name" => r.kind # "rename")
    /\ r.pc \in {"versions"} \cup Writing => r.group \in Groups /\ r.kind \notin {"rename", "describe", "list"}
    /\ r.pc \in Writing => r.kind # "drop"

OpsSound == \A t \in Tasks : op[t] # Idle => Placed(op[t]) /\ Sound(op[t].copy)
ListsSound == \A g \in Groups : list[g] \notin {Missing, Corrupt} => Sound(list[g])

FileTypes ==
    /\ storage \in {"local", "object"} /\ dirs \subseteq Groups
    /\ index \in [Groups -> Names \cup {Itself, Missing, Corrupt}]
    /\ list \in [Groups -> {Missing, Corrupt} \cup Seq(Version)]
    /\ shelf \in [Names -> SUBSET Labels]
HistoryTypes ==
    /\ acked \in [Groups -> SUBSET Labels] /\ raced \subseteq Groups
    /\ contended \in BOOLEAN /\ foreign \in BOOLEAN /\ collided \subseteq Names
    /\ emptied \subseteq Names /\ unchecked \in BOOLEAN /\ crowded \subseteq Groups
    /\ ops \in 0 .. MaxOps /\ faults \in 0 .. MaxFaults
OpTypes == op \in [Tasks -> {Idle} \cup Doing]
Types == FileTypes /\ HistoryTypes /\ OpTypes
USE DEF FileTypes, HistoryTypes, OpTypes
Registry == Types /\ OpsSound /\ ListsSound

(* Saves. *)
Pending(t) == op[t] # Idle /\ op[t].kind = "save" /\ op[t].pc \notin {"scan", "reserve"}
Claims(g, n) == index[g] = n \/ \E t \in Tasks : Pending(t) /\ op[t].group = g /\ op[t].name = n
InUse(g, l) ==
    \/ l \in LabelsOf(Stored(g))
    \/ \E t \in Tasks : op[t].pc \in Writing /\ op[t].group = g /\ l \in LabelsOf(op[t].copy) \ (IF op[t].kind = "save" THEN {op[t].label} ELSE {})
SavesInv ==
    /\ \A t \in Tasks : op[t] # Idle /\ op[t].kind = "save" /\ op[t].pc \in {"scan", "reserve"} => op[t].group = Missing
    /\ ~foreign => \A t \in Tasks : op[t] # Idle /\ op[t].kind \in Naming => op[t].kind = "save"
    /\ storage = "local" =>
           /\ \A t \in Tasks : Pending(t) /\ op[t].name \notin emptied => op[t].label \in shelf[op[t].name]
           /\ \A t, u \in Tasks : t # u /\ Pending(t) /\ Pending(u) /\ op[t].name = op[u].name /\ op[t].name \notin emptied
                  => op[t].label # op[u].label
           /\ ~foreign => collided \subseteq emptied
           /\ ~foreign => \A g \in Groups, n \in Names : Claims(g, n) =>
                  /\ \A m \in Names : Claims(g, m) => m = n
                  /\ n \notin emptied => \A l \in Labels : InUse(g, l) => l \in shelf[n] /\ \A t \in Tasks : Pending(t) /\ op[t].name = n => op[t].label # l

(* Answered versions. *)
Writes(t, g) == op[t].pc \in Writing /\ op[t].group = g
Kept(t) == IF op[t].kind = "delete" THEN acked[op[t].group] \ {op[t].label}
           ELSE IF op[t].kind \in Versioning THEN acked[op[t].group] \cup {op[t].label} ELSE acked[op[t].group]
AckInv ==
    faults = 0 => \A g \in Groups \ raced :
        /\ \A t, u \in Tasks : Writes(t, g) /\ Writes(u, g) => t = u
        /\ \A t \in Tasks : Writes(t, g) => Kept(t) \subseteq LabelsOf(op[t].copy)
        /\ \A t \in Tasks : At(t, "putting") /\ op[t].group = g /\ storage = "local" => list[g] = Corrupt
        /\ acked[g] \subseteq LabelsOf(Stored(g)) \/ \E t \in Tasks : At(t, "putting") /\ op[t].group = g

(* Names: what the one operation that chooses a name has seen of the groups still holds. *)
Settled(r) ==
    /\ Searches(r, "find") \/ Searches(r, "check") => \A g \in Groups : index[g] = r.name => g \in r.left
    /\ (r.pc = "index" /\ r.kind \notin {"rename", "describe"}) \/ Searches(r, "name") \/ r.pc = "naming"
          => \A g \in Groups : r.name \in Names /\ index[g] = r.name => g = r.group
NameInv ==
    ~contended /\ ~unchecked /\ faults = 0 =>
        /\ \A t \in Tasks : op[t] # Idle /\ op[t].kind = "into" => op[t].pc \in {"index", "versions"} \cup Writing
        /\ \A t, u \in Choosing : t = u
        /\ \A g, h \in Groups : g # h /\ index[g] \in Names => index[g] # index[h]
        /\ \A t \in Choosing : Settled(op[t])

(* On an object store an index is written by its default only while it is not there, and by a name read as the    *)
(* default only while it has no other, if its group is not crowded.                                              *)
Fresh(r) ==
    /\ \A g \in r.left : index[g] # Missing
    /\ r.pc \in {"scan", "reserve", "copy", "check"} => r.group = Missing
    /\ r.pc \in Healing => r.at = r.group /\ r.then = "name" /\ (r.at \in crowded \/ index[r.at] = Missing)
    /\ r.kind \in {"rename", "describe"} \/ r.pc \in {"name", "naming", "versions"} \cup Writing => index[r.group] # Missing
    /\ r.pc \in {"name", "naming"} /\ r.name = Itself => r.group \in crowded \/ index[r.group] = Itself
FreshInv ==
    storage = "object" /\ faults = 0 =>
        /\ \A g \in Groups : index[g] # Corrupt /\ (index[g] = Missing => list[g] = Missing)
        /\ dirs = {}
        /\ \A g \in Groups \ crowded, t, u \in Tasks : index[g] \notin Names /\ AtIndex(t, g) /\ AtIndex(u, g) => t = u
        /\ \A t \in Tasks : op[t] # Idle => Fresh(op[t])

-------------------------------------------------------------------------------
(* A list written down by its entries. *)
LEMMA SeqOf ==
    ASSUME NEW w, NEW n \in Nat, w = [i \in 1 .. n |-> w[i]], \A i \in 1 .. n : w[i] \in Version
    PROVE  w \in Seq(Version) /\ Len(w) = n /\ DOMAIN w = 1 .. n
<1>1. w \in [1 .. n -> Version]
  OBVIOUS
<1> QED
  BY <1>1
LEMMA Entries ==
    ASSUME NEW vs \in Seq(Version)
    PROVE  Len(vs) \in Nat /\ DOMAIN vs = 1 .. Len(vs) /\ \A i \in DOMAIN vs : vs[i] \in Version
  OBVIOUS

(* What an update of a list leaves. *)
LEMMA ListChanges ==
    ASSUME NEW vs \in Seq(Version), Sound(vs), NEW l \in Labels
    PROVE  /\ /\ Tagged(vs, l) \in Seq(Version) /\ Sound(Tagged(vs, l)) /\ LabelsOf(Tagged(vs, l)) = LabelsOf(vs)
           /\ /\ TagCleared(vs, l) \in Seq(Version) /\ Sound(TagCleared(vs, l)) /\ LabelsOf(TagCleared(vs, l)) = LabelsOf(vs)
           /\ l \notin LabelsOf(vs) =>
                 Appended(vs, l) \in Seq(Version) /\ Sound(Appended(vs, l)) /\ LabelsOf(Appended(vs, l)) = LabelsOf(vs) \cup {l}
<1>1. Len(vs) \in Nat /\ DOMAIN vs = 1 .. Len(vs) /\ \A i \in DOMAIN vs : vs[i] \in Version
  BY Entries
<1>2. Tagged(vs, l) \in Seq(Version) /\ Sound(Tagged(vs, l)) /\ LabelsOf(Tagged(vs, l)) = LabelsOf(vs)
  <2> DEFINE w == Tagged(vs, l)
  <2>1. DOMAIN w = DOMAIN vs /\ \A i \in DOMAIN vs : w[i] = [vs[i] EXCEPT !.latest = (vs[i].label = l)]
    BY DEF Tagged
  <2>2. \A i \in DOMAIN vs : w[i] \in Version /\ w[i].label = vs[i].label /\ (w[i].latest <=> vs[i].label = l)
    BY <1>1, <2>1 DEF Version
  <2>3. w \in Seq(Version)
    <3>1. w = [i \in 1 .. Len(vs) |-> w[i]]
      BY <1>1 DEF Tagged
    <3> HIDE DEF w
    <3> QED
      BY <1>1, <2>2, <3>1, SeqOf
  <2> HIDE DEF w
  <2>4. Sound(w)
    BY <2>1, <2>2 DEF Sound
  <2>5. LabelsOf(w) = LabelsOf(vs)
    BY <2>1, <2>2 DEF LabelsOf
  <2> QED
    BY <2>3, <2>4, <2>5 DEF w
<1>3. TagCleared(vs, l) \in Seq(Version) /\ Sound(TagCleared(vs, l)) /\ LabelsOf(TagCleared(vs, l)) = LabelsOf(vs)
  <2> DEFINE w == TagCleared(vs, l)
  <2>1. DOMAIN w = DOMAIN vs /\ \A i \in DOMAIN vs : w[i] = [vs[i] EXCEPT !.latest = (vs[i].latest /\ vs[i].label # l)]
    BY <1>1 DEF TagCleared, Version
  <2>2. \A i \in DOMAIN vs : w[i] \in Version /\ w[i].label = vs[i].label /\ (w[i].latest => vs[i].latest)
    BY <1>1, <2>1 DEF Version
  <2>3. w \in Seq(Version)
    <3>1. w = [i \in 1 .. Len(vs) |-> w[i]]
      BY <1>1 DEF TagCleared
    <3> HIDE DEF w
    <3> QED
      BY <1>1, <2>2, <3>1, SeqOf
  <2> HIDE DEF w
  <2>4. Sound(w)
    BY <2>1, <2>2 DEF Sound
  <2>5. LabelsOf(w) = LabelsOf(vs)
    BY <2>1, <2>2 DEF LabelsOf
  <2> QED
    BY <2>3, <2>4, <2>5 DEF w
<1>4. ASSUME l \notin LabelsOf(vs)
      PROVE  Appended(vs, l) \in Seq(Version) /\ Sound(Appended(vs, l)) /\ LabelsOf(Appended(vs, l)) = LabelsOf(vs) \cup {l}
  <2> DEFINE u == Untagged(vs)
             w == Appended(vs, l)
             n == Len(vs)
  <2>1. DOMAIN u = 1 .. n /\ DOMAIN vs = 1 .. n /\ n \in Nat /\ \A i \in 1 .. n : u[i] = [vs[i] EXCEPT !.latest = FALSE]
    BY <1>1 DEF Untagged
  <2>2. \A i \in 1 .. n : u[i] \in Version /\ u[i].label = vs[i].label /\ u[i].latest = FALSE
    BY <1>1, <2>1 DEF Version
  <2>3. u \in Seq(Version) /\ Len(u) = n
    <3>1. u = [i \in 1 .. n |-> u[i]]
      BY <1>1 DEF Untagged
    <3> HIDE DEF u, n
    <3> QED
      BY <2>1, <2>2, <3>1, SeqOf
  <2>4. [label |-> l, latest |-> TRUE] \in Version
    BY DEF Version
  <2>5. w = Append(u, [label |-> l, latest |-> TRUE])
    BY DEF Appended
  <2> HIDE DEF u, w, n
  <2>6. /\ w \in Seq(Version) /\ DOMAIN w = 1 .. n + 1
        /\ w[n + 1] = [label |-> l, latest |-> TRUE] /\ \A i \in 1 .. n : w[i] = u[i]
    BY <2>1, <2>3, <2>4, <2>5
  <2>7. /\ \A i \in 1 .. n : w[i].label = vs[i].label /\ ~w[i].latest /\ w[i].label # l
        /\ w[n + 1].label = l
    BY <1>4, <2>1, <2>2, <2>6 DEF LabelsOf
  <2>8. \A i \in 1 .. n + 1 : i = n + 1 \/ i \in 1 .. n
    BY <2>1
  <2>9. Sound(w)
    BY <2>1, <2>6, <2>7, <2>8 DEF Sound
  <2>10. ASSUME NEW x PROVE x \in LabelsOf(w) <=> x \in LabelsOf(vs) \cup {l}
    <3>1. n + 1 \in DOMAIN w /\ 1 .. n \subseteq DOMAIN w
      BY <2>1, <2>6
    <3> QED
      BY <2>1, <2>6, <2>7, <2>8, <3>1 DEF LabelsOf
  <2>11. LabelsOf(w) = LabelsOf(vs) \cup {l}
    BY <2>10
  <2> QED
    BY <2>6, <2>9, <2>11 DEF w
<1> QED
  BY <1>2, <1>3, <1>4

(* A sound list is no longer than there are labels. *)
LEMMA SoundLength == ASSUME NEW vs \in Seq(Version), Sound(vs) PROVE Len(vs) <= MaxOps + 1
<1>0. MaxOps + 1 \in Nat /\ Len(vs) \in Nat
  BY AssetVersionsAssumption DEF AssetVersionsAssumption
<1> DEFINE f == [i \in 1 .. Len(vs) |-> vs[i].label]
<1>1. f \in [1 .. Len(vs) -> Labels]
  BY Entries DEF Version
<1>2. \A i, k \in 1 .. Len(vs) : f[i] = f[k] => i = k
  BY Entries DEF Sound
<1> HIDE DEF f
<1>3. f \in Injection(1 .. Len(vs), Labels)
  BY <1>1, <1>2 DEF Injection, IsInjective
<1>4. IsFiniteSet(1 .. MaxOps + 1) /\ Cardinality(1 .. MaxOps + 1) = MaxOps + 1 /\ Cardinality(1 .. Len(vs)) = Len(vs)
  <2>1. \A n \in Nat : IsFiniteSet(1 .. n) /\ Cardinality(1 .. n) = n
    BY FS_Interval
  <2> QED
    BY <1>0, <2>1
<1>5. IsFiniteSet(Labels) /\ Cardinality(Labels) = MaxOps + 1
  BY <1>4 DEF Labels
<1> QED
  BY <1>3, <1>4, <1>5, FS_Injection
-------------------------------------------------------------------------------
(* How a task moves on. *)

LEMMA AtWork ==
    ASSUME Registry, NEW t \in Tasks, op[t] # Idle
    PROVE  op[t] \in Doing /\ Placed(op[t]) /\ Sound(op[t].copy)
  BY DEF Registry, Types, OpsSound
LEMMA AtPlace ==
    ASSUME NEW t \in Tasks, NEW p, At(t, p), p # "idle"
    PROVE  op[t] # Idle /\ op[t].pc = p
  BY DEF At, Idle
LEMMA IdleIsNone ==
    ASSUME Types, NEW t \in Tasks
    PROVE  op[t] = Idle <=> op[t].pc = "idle"
  BY DEF Types, Doing, Idle, Healing, Writing

(* The fields that are changed, and the others. *)
LEMMA GoesTo ==
    ASSUME Types, NEW t \in Tasks, op[t] # Idle, NEW c, Goes(t, c)
    PROVE  /\ op' = [op EXCEPT ![t] = op'[t]] /\ \A u \in Tasks \ {t} : op'[u] = op[u]
           /\ op'[t] = [kind |-> IF "kind" \in DOMAIN c THEN c["kind"] ELSE op[t].kind,
                        pc |-> IF "pc" \in DOMAIN c THEN c["pc"] ELSE op[t].pc,
                        name |-> IF "name" \in DOMAIN c THEN c["name"] ELSE op[t].name,
                        group |-> IF "group" \in DOMAIN c THEN c["group"] ELSE op[t].group,
                        label |-> IF "label" \in DOMAIN c THEN c["label"] ELSE op[t].label,
                        left |-> IF "left" \in DOMAIN c THEN c["left"] ELSE op[t].left,
                        at |-> IF "at" \in DOMAIN c THEN c["at"] ELSE op[t].at,
                        then |-> IF "then" \in DOMAIN c THEN c["then"] ELSE op[t].then,
                        copy |-> IF "copy" \in DOMAIN c THEN c["copy"] ELSE op[t].copy]
<1>1. op[t] \in Doing /\ op \in [Tasks -> {Idle} \cup Doing]
  BY DEF Types
<1>2. op' = [op EXCEPT ![t] = Updated(op[t], c)] /\ op'[t] = Updated(op[t], c)
  BY <1>1 DEF Goes
<1>3. DOMAIN op[t] = {"kind", "pc", "name", "group", "label", "left", "at", "then", "copy"}
  BY <1>1 DEF Doing
<1>4. Updated(op[t], c) = [f \in {"kind", "pc", "name", "group", "label", "left", "at", "then", "copy"} |->
                              IF f \in DOMAIN c THEN c[f] ELSE op[t][f]]
  BY <1>3 DEF Updated
<1> QED
  BY <1>1, <1>2, <1>4

(* One task moves on, or ends. *)
LEMMA OneMoves ==
    ASSUME Registry, NEW t \in Tasks, op' = [op EXCEPT ![t] = op'[t]],
           op'[t] = Idle \/ (op'[t] \in Doing /\ Placed(op'[t]) /\ Sound(op'[t].copy))
    PROVE  op' \in [Tasks -> {Idle} \cup Doing] /\ OpsSound'
  BY DEF Registry, Types, OpsSound
LEMMA EndsTo ==
    ASSUME Types, NEW t \in Tasks, Ends(t)
    PROVE  op' = [op EXCEPT ![t] = op'[t]] /\ op'[t] = Idle /\ \A u \in Tasks \ {t} : op'[u] = op[u]
  BY DEF Types, Ends

LEMMA StoredSound ==
    ASSUME Registry, NEW g \in Groups PROVE Stored(g) \in Seq(Version) /\ Sound(Stored(g))
  BY DEF Registry, Types, ListsSound, Stored, Sound
LEMMA LabelsIn == ASSUME NEW vs \in Seq(Version) PROVE LabelsOf(vs) \subseteq Labels
  BY Entries DEF LabelsOf, Version
LEMMA One == 1 \in Labels
  BY AssetVersionsAssumption DEF AssetVersionsAssumption, Labels
-------------------------------------------------------------------------------
(* The types of the registry, and what holds of an operation wherever it is. *)

LEMMA RegistryInit == Init => Registry
<1> SUFFICES ASSUME Init PROVE Registry
  OBVIOUS
<1>0. MaxOps \in Nat /\ MaxFaults \in Nat /\ 1 \in Labels
  BY One, AssetVersionsAssumption DEF AssetVersionsAssumption
<1>1. PICK g \in Groups, n \in Names :
          /\ dirs = IF storage = "local" THEN {g} ELSE {}
          /\ index = [h \in Groups |-> IF h = g THEN n ELSE Missing]
          /\ list = [h \in Groups |-> IF h = g THEN <<[label |-> 1, latest |-> TRUE]>> ELSE Missing]
          /\ shelf = [m \in Names |-> IF m = n THEN {1} ELSE {}]
          /\ acked = [h \in Groups |-> IF h = g THEN {1} ELSE {}]
  BY DEF Init
<1>2. <<[label |-> 1, latest |-> TRUE]>> \in Seq(Version) /\ Sound(<<[label |-> 1, latest |-> TRUE]>>)
  BY <1>0 DEF Version, Sound
<1>3. Types
  <2>1. index \in [Groups -> Names \cup {Itself, Missing, Corrupt}] /\ dirs \subseteq Groups /\ shelf \in [Names -> SUBSET Labels]
    BY <1>0, <1>1
  <2>2. list \in [Groups -> {Missing, Corrupt} \cup Seq(Version)] /\ acked \in [Groups -> SUBSET Labels]
    BY <1>0, <1>1, <1>2
  <2>3. op \in [Tasks -> {Idle} \cup Doing] /\ storage \in {"local", "object"} /\ ops \in 0 .. MaxOps /\ faults \in 0 .. MaxFaults
    BY <1>0 DEF Init
  <2>4. /\ raced \subseteq Groups /\ contended \in BOOLEAN /\ foreign \in BOOLEAN /\ collided \subseteq Names
        /\ emptied \subseteq Names /\ unchecked \in BOOLEAN /\ crowded \subseteq Groups
    BY DEF Init
  <2> QED
    BY <2>1, <2>2, <2>3, <2>4 DEF Types
<1>4. OpsSound
  BY DEF Init, OpsSound
<1>5. ListsSound
  BY <1>1, <1>2 DEF ListsSound
<1> QED
  BY <1>3, <1>4, <1>5 DEF Registry

LEMMA SoundEmpty == <<>> \in Seq(Version) /\ Sound(<<>>)
  BY DEF Sound
LEMMA ListedGroups == Listed \subseteq Groups
  BY DEF Listed

LEMMA BeginsTo ==
    ASSUME Types, NEW t \in Tasks, NEW kind, NEW name, NEW group, NEW label, NEW p, Begins(t, kind, name, group, label, p)
    PROVE  /\ op' = [op EXCEPT ![t] = op'[t]] /\ \A u \in Tasks \ {t} : op'[u] = op[u]
           /\ op'[t] = [kind |-> kind, pc |-> p, name |-> name, group |-> group, label |-> label,
                        left |-> IF p \in {"find", "check"} THEN Listed ELSE {}, at |-> group, then |-> "none", copy |-> <<>>]
  BY DEF Types, Begins

(* What a request begins as. *)
LEMMA BeginKinds ==
    ASSUME Registry, NEW t \in Tasks, Begin(t)
    PROVE  /\ op' = [op EXCEPT ![t] = op'[t]] /\ \A u \in Tasks \ {t} : op'[u] = op[u]
           /\ op'[t] \in Doing /\ Placed(op'[t]) /\ op'[t].copy = <<>>
           /\ op'[t].left \subseteq Listed /\ op'[t].at = op'[t].group
           /\ \/ op'[t].kind = "save" /\ op'[t].pc = "scan" /\ op'[t].group = Missing
              \/ op'[t].kind = "create" /\ op'[t].pc = "find" /\ op'[t].left = Listed /\ op'[t].group = Missing
              \/ op'[t].kind = "register" /\ op'[t].pc = "check" /\ op'[t].left = Listed /\ op'[t].group = Missing
              \/ op'[t].kind \in {"rename", "describe"} /\ op'[t].pc = "index" /\ index[op'[t].group] # Missing
              \/ op'[t].kind = "into" /\ op'[t].pc = "index"
              \/ op'[t].kind \in {"delete", "tag", "untag", "edit", "drop"} /\ op'[t].pc = "versions" /\ op'[t].group \in Listed
              \/ op'[t].kind = "list" /\ op'[t].pc = "find" /\ op'[t].group = Missing
           /\ foreign' = (foreign \/ op'[t].kind \in {"create", "register", "rename", "describe", "into"})
           /\ contended' = (contended \/ (op'[t].kind \in {"create", "register", "rename", "describe"} /\ Choosing \ {t} # {}))
<1> USE DEF Kinds, Namers, Versioning, Looking, Naming, Searches, Healing, Writing
<1>0. Types /\ 1 \in Labels /\ Listed \subseteq Groups /\ <<>> \in Seq(Version) /\ foreign \in BOOLEAN /\ contended \in BOOLEAN
  BY One, ListedGroups, SoundEmpty DEF Registry, Types
<1> DEFINE Goal ==
    /\ op' = [op EXCEPT ![t] = op'[t]] /\ \A u \in Tasks \ {t} : op'[u] = op[u]
    /\ op'[t] \in Doing /\ Placed(op'[t]) /\ op'[t].copy = <<>>
    /\ op'[t].left \subseteq Listed /\ op'[t].at = op'[t].group
    /\ \/ op'[t].kind = "save" /\ op'[t].pc = "scan" /\ op'[t].group = Missing
       \/ op'[t].kind = "create" /\ op'[t].pc = "find" /\ op'[t].left = Listed /\ op'[t].group = Missing
       \/ op'[t].kind = "register" /\ op'[t].pc = "check" /\ op'[t].left = Listed /\ op'[t].group = Missing
       \/ op'[t].kind \in {"rename", "describe"} /\ op'[t].pc = "index" /\ index[op'[t].group] # Missing
       \/ op'[t].kind = "into" /\ op'[t].pc = "index"
       \/ op'[t].kind \in {"delete", "tag", "untag", "edit", "drop"} /\ op'[t].pc = "versions" /\ op'[t].group \in Listed
       \/ op'[t].kind = "list" /\ op'[t].pc = "find" /\ op'[t].group = Missing
<1>1. ASSUME NEW n \in Names, Begins(t, "save", n, Missing, 1, "scan") PROVE Goal /\ op'[t].kind = "save"
  <2>1. /\ op' = [op EXCEPT ![t] = op'[t]] /\ \A u \in Tasks \ {t} : op'[u] = op[u]
        /\ op'[t] = [kind |-> "save", pc |-> "scan", name |-> n, group |-> Missing, label |-> 1,
                 left |-> {}, at |-> Missing, then |-> "none", copy |-> <<>>]
    BY <1>0, <1>1, BeginsTo
  <2>2. op'[t] \in Doing
    BY <1>0, <2>1 DEF Doing
  <2>3. Placed(op'[t])
    BY <2>1 DEF Placed
  <2> QED
    BY <1>0, <1>1, <2>1, <2>2, <2>3
<1>2. ASSUME NEW n \in Names, Begins(t, "create", n, Missing, 1, "find") PROVE Goal /\ op'[t].kind = "create"
  <2>1. /\ op' = [op EXCEPT ![t] = op'[t]] /\ \A u \in Tasks \ {t} : op'[u] = op[u]
        /\ op'[t] = [kind |-> "create", pc |-> "find", name |-> n, group |-> Missing, label |-> 1,
                 left |-> Listed, at |-> Missing, then |-> "none", copy |-> <<>>]
    BY <1>0, <1>2, BeginsTo
  <2>2. op'[t] \in Doing
    BY <1>0, <2>1 DEF Doing
  <2>3. Placed(op'[t])
    BY <2>1 DEF Placed
  <2> QED
    BY <1>0, <1>2, <2>1, <2>2, <2>3
<1>3. ASSUME NEW n \in Names, Begins(t, "register", n, Missing, 1, "check") PROVE Goal /\ op'[t].kind = "register"
  <2>1. /\ op' = [op EXCEPT ![t] = op'[t]] /\ \A u \in Tasks \ {t} : op'[u] = op[u]
        /\ op'[t] = [kind |-> "register", pc |-> "check", name |-> n, group |-> Missing, label |-> 1,
                 left |-> Listed, at |-> Missing, then |-> "none", copy |-> <<>>]
    BY <1>0, <1>3, BeginsTo
  <2>2. op'[t] \in Doing
    BY <1>0, <2>1 DEF Doing
  <2>3. Placed(op'[t])
    BY <2>1 DEF Placed
  <2> QED
    BY <1>0, <1>3, <2>1, <2>2, <2>3
<1>4. ASSUME NEW n \in Names, NEW g \in Groups, index[g] # Missing, Begins(t, "rename", n, g, 1, "index")
      PROVE  Goal /\ op'[t].kind = "rename"
  <2>1. /\ op' = [op EXCEPT ![t] = op'[t]] /\ \A u \in Tasks \ {t} : op'[u] = op[u]
        /\ op'[t] = [kind |-> "rename", pc |-> "index", name |-> n, group |-> g, label |-> 1,
                 left |-> {}, at |-> g, then |-> "none", copy |-> <<>>]
    BY <1>0, <1>4, BeginsTo
  <2>2. op'[t] \in Doing
    BY <1>0, <2>1 DEF Doing
  <2>3. Placed(op'[t])
    BY <2>1 DEF Placed
  <2> QED
    BY <1>0, <1>4, <2>1, <2>2, <2>3
<1>5. ASSUME NEW kind \in {"delete", "tag", "untag", "edit", "drop"}, NEW g \in Listed, NEW l \in LabelsOf(Stored(g)) \cup {1},
             Begins(t, kind, Missing, g, l, "versions")
      PROVE  Goal /\ op'[t].kind = kind
  <2>1. l \in Labels /\ g \in Groups
    BY <1>0, StoredSound, LabelsIn
  <2>2. /\ op' = [op EXCEPT ![t] = op'[t]] /\ \A u \in Tasks \ {t} : op'[u] = op[u]
        /\ op'[t] = [kind |-> kind, pc |-> "versions", name |-> Missing, group |-> g, label |-> l,
                 left |-> {}, at |-> g, then |-> "none", copy |-> <<>>]
    BY <1>0, <1>5, BeginsTo
  <2>3. op'[t] \in Doing
    BY <1>0, <2>1, <2>2 DEF Doing
  <2>4. Placed(op'[t])
    BY <2>1, <2>2 DEF Placed
  <2> QED
    BY <1>0, <1>5, <2>1, <2>2, <2>3, <2>4
<1>6. ASSUME Begins(t, "list", Missing, Missing, 1, "find") PROVE Goal /\ op'[t].kind = "list"
  <2>1. /\ op' = [op EXCEPT ![t] = op'[t]] /\ \A u \in Tasks \ {t} : op'[u] = op[u]
        /\ op'[t] = [kind |-> "list", pc |-> "find", name |-> Missing, group |-> Missing, label |-> 1,
                 left |-> Listed, at |-> Missing, then |-> "none", copy |-> <<>>]
    BY <1>0, <1>6, BeginsTo
  <2>2. op'[t] \in Doing
    BY <1>0, <2>1 DEF Doing
  <2>3. Placed(op'[t])
    BY <2>1 DEF Placed
  <2> QED
    BY <1>0, <1>6, <2>1, <2>2, <2>3
<1>7. ASSUME NEW g \in Groups, index[g] # Missing, Begins(t, "describe", Missing, g, 1, "index")
      PROVE  Goal /\ op'[t].kind = "describe"
  <2>1. /\ op' = [op EXCEPT ![t] = op'[t]] /\ \A u \in Tasks \ {t} : op'[u] = op[u]
        /\ op'[t] = [kind |-> "describe", pc |-> "index", name |-> Missing, group |-> g, label |-> 1,
                 left |-> {}, at |-> g, then |-> "none", copy |-> <<>>]
    BY <1>0, <1>7, BeginsTo
  <2>2. op'[t] \in Doing
    BY <1>0, <2>1 DEF Doing
  <2>3. Placed(op'[t])
    BY <2>1 DEF Placed
  <2> QED
    BY <1>0, <1>7, <2>1, <2>2, <2>3
<1>8. ASSUME NEW n \in Names, NEW g \in Groups, Begins(t, "into", n, g, 1, "index") PROVE Goal /\ op'[t].kind = "into"
  <2>1. /\ op' = [op EXCEPT ![t] = op'[t]] /\ \A u \in Tasks \ {t} : op'[u] = op[u]
        /\ op'[t] = [kind |-> "into", pc |-> "index", name |-> n, group |-> g, label |-> 1,
                 left |-> {}, at |-> g, then |-> "none", copy |-> <<>>]
    BY <1>0, <1>8, BeginsTo
  <2>2. op'[t] \in Doing
    BY <1>0, <2>1 DEF Doing
  <2>3. Placed(op'[t])
    BY <2>1 DEF Placed
  <2> QED
    BY <1>0, <1>8, <2>1, <2>2, <2>3
<1> HIDE DEF Goal
<1>9. Goal /\ foreign' = (foreign \/ op'[t].kind \in {"create", "register", "rename", "describe", "into"})
      /\ contended' = (contended \/ (op'[t].kind \in {"create", "register", "rename", "describe"} /\ Choosing \ {t} # {}))
  BY <1>0, <1>1, <1>2, <1>3, <1>4, <1>5, <1>6, <1>7, <1>8 DEF Begin, Contends
<1> QED
  BY <1>9 DEF Goal
-------------------------------------------------------------------------------
(* The steps of an operation, by what they change of it. *)

LEMMA ScansTo ==
    ASSUME Registry, NEW t \in Tasks, Scans(t)
    PROVE  /\ op[t].pc = "scan" /\ op[t] # Idle
           /\ op' = [op EXCEPT ![t] = op'[t]] /\ \A u \in Tasks \ {t} : op'[u] = op[u]
           /\ op'[t] = [kind |-> op[t].kind, pc |-> "reserve", name |-> op[t].name, group |-> op[t].group, label |-> NextFolder(op[t].name),
                          left |-> op[t].left, at |-> op[t].at, then |-> op[t].then, copy |-> op[t].copy]
           /\ op'[t] \in Doing /\ Placed(op'[t]) /\ Sound(op'[t].copy)
           /\ UNCHANGED <<storage, dirs, index, list, shelf, acked, raced, contended, foreign, collided, emptied, unchecked, crowded, ops, faults>>
<1>0. Types /\ op[t].pc = "scan" /\ op[t] # Idle
  BY AtPlace DEF Registry, Scans
<1>1. op[t] \in Doing /\ Placed(op[t]) /\ Sound(op[t].copy)
  BY <1>0, AtWork
<1>2. Goes(t, [label |-> NextFolder(op[t].name), pc |-> "reserve"]) /\ NextFolder(op[t].name) \in Labels
  BY DEF Scans
<1>3. /\ op' = [op EXCEPT ![t] = op'[t]] /\ \A u \in Tasks \ {t} : op'[u] = op[u]
      /\ op'[t] = [kind |-> op[t].kind, pc |-> "reserve", name |-> op[t].name, group |-> op[t].group, label |-> NextFolder(op[t].name),
                     left |-> op[t].left, at |-> op[t].at, then |-> op[t].then, copy |-> op[t].copy]
  BY <1>0, <1>2, GoesTo
<1>4. op'[t] \in Doing
  BY <1>1, <1>2, <1>3 DEF Doing
<1>5. Placed(op'[t]) /\ op'[t].copy = op[t].copy
  BY <1>0, <1>1, <1>3 DEF Placed, Searches, Healing, Writing
<1> QED
  BY <1>0, <1>1, <1>3, <1>4, <1>5 DEF Scans, files, history

LEMMA ReservesTo ==
    ASSUME Registry, NEW t \in Tasks, Reserves(t)
    PROVE  /\ op[t].pc = "reserve" /\ op[t] # Idle /\ op[t].name \in Names
           /\ op' = [op EXCEPT ![t] = op'[t]] /\ \A u \in Tasks \ {t} : op'[u] = op[u]
           /\ \/ /\ Free(op[t].name, op[t].label)
                 /\ op'[t] = [kind |-> op[t].kind, pc |-> "copy", name |-> op[t].name, group |-> op[t].group, label |-> op[t].label,
                                left |-> op[t].left, at |-> op[t].at, then |-> op[t].then, copy |-> op[t].copy]
                 /\ op'[t] \in Doing /\ Placed(op'[t]) /\ Sound(op'[t].copy)
                 /\ shelf' = IF storage = "local" THEN [shelf EXCEPT ![op[t].name] = @ \cup {op[t].label}] ELSE shelf
              \/ op'[t] = Idle /\ shelf' = shelf
           /\ UNCHANGED <<storage, dirs, index, list, acked, raced, contended, foreign, collided, emptied, unchecked, crowded, ops, faults>>
<1>0. Types /\ op[t].pc = "reserve" /\ op[t] # Idle
  BY AtPlace DEF Registry, Reserves
<1>1. op[t] \in Doing /\ Placed(op[t]) /\ Sound(op[t].copy)
  BY <1>0, AtWork
<1>2. op[t].name \in Names /\ UNCHANGED <<storage, dirs, index, list, acked, raced, contended, foreign, collided, emptied, unchecked, crowded, ops, faults>>
  BY <1>0, <1>1 DEF Reserves, Placed, Namers, Versioning, history
<1>3. CASE Free(op[t].name, op[t].label)
  <2>1. Goes(t, [pc |-> "copy"])
    BY <1>3 DEF Reserves
  <2>2. /\ op' = [op EXCEPT ![t] = op'[t]] /\ \A u \in Tasks \ {t} : op'[u] = op[u]
        /\ op'[t] = [kind |-> op[t].kind, pc |-> "copy", name |-> op[t].name, group |-> op[t].group, label |-> op[t].label,
                       left |-> op[t].left, at |-> op[t].at, then |-> op[t].then, copy |-> op[t].copy]
    BY <1>0, <2>1, GoesTo
  <2>3. op'[t] \in Doing
    BY <1>1, <2>2 DEF Doing
  <2>4. Placed(op'[t]) /\ op'[t].copy = op[t].copy
    BY <1>0, <1>1, <2>2 DEF Placed, Searches, Healing, Writing
  <2> QED
    BY <1>0, <1>1, <1>2, <1>3, <2>2, <2>3, <2>4 DEF Reserves
<1>4. CASE ~Free(op[t].name, op[t].label)
  <2>1. Ends(t) /\ shelf' = shelf
    BY <1>4 DEF Reserves
  <2> QED
    BY <1>0, <1>2, <2>1, EndsTo
<1> QED
  BY <1>3, <1>4

LEMMA CopiesTo ==
    ASSUME Registry, NEW t \in Tasks, Copies(t)
    PROVE  /\ op[t].pc = "copy" /\ op[t] # Idle /\ op[t].kind = "save" /\ op[t].name \in Names
           /\ op' = [op EXCEPT ![t] = op'[t]] /\ \A u \in Tasks \ {t} : op'[u] = op[u]
           /\ op'[t] = [kind |-> op[t].kind, pc |-> "find", name |-> op[t].name, group |-> op[t].group, label |-> op[t].label,
                          left |-> Listed, at |-> op[t].at, then |-> op[t].then, copy |-> op[t].copy]
           /\ op'[t] \in Doing /\ Placed(op'[t]) /\ Sound(op'[t].copy)
           /\ shelf' = [shelf EXCEPT ![op[t].name] = @ \cup {op[t].label}]
           /\ contended' = (contended \/ Choosing \ {t} # {})
           /\ UNCHANGED <<storage, dirs, index, list, acked, raced, foreign, collided, emptied, unchecked, crowded, ops, faults>>
<1>0. Types /\ op[t].pc = "copy" /\ op[t] # Idle
  BY AtPlace DEF Registry, Copies
<1>1. op[t] \in Doing /\ Placed(op[t]) /\ Sound(op[t].copy)
  BY <1>0, AtWork
<1>2. Goes(t, [pc |-> "find", left |-> Listed]) /\ Listed \subseteq Groups
  BY ListedGroups DEF Copies
<1>3. /\ op' = [op EXCEPT ![t] = op'[t]] /\ \A u \in Tasks \ {t} : op'[u] = op[u]
      /\ op'[t] = [kind |-> op[t].kind, pc |-> "find", name |-> op[t].name, group |-> op[t].group, label |-> op[t].label,
                     left |-> Listed, at |-> op[t].at, then |-> op[t].then, copy |-> op[t].copy]
  BY <1>0, <1>2, GoesTo
<1>4. op'[t] \in Doing
  BY <1>1, <1>2, <1>3 DEF Doing
<1>5. op[t].kind = "save" /\ op[t].name \in Names
  BY <1>0, <1>1 DEF Placed, Namers, Versioning, Looking, Naming
<1>6. Placed(op'[t]) /\ op'[t].copy = op[t].copy
  BY <1>0, <1>1, <1>3, <1>5 DEF Placed, Searches, Healing, Writing, Namers, Versioning, Looking, Naming
<1> QED
  BY <1>0, <1>1, <1>3, <1>4, <1>5, <1>6 DEF Copies, Contends

LEMMA MeetsTo ==
    ASSUME Registry, NEW t \in Tasks, op[t].pc \in {"find", "check"}, NEW g \in op[t].left, MeetsDefault(t, g)
    PROVE  /\ op' = [op EXCEPT ![t] = op'[t]] /\ \A u \in Tasks \ {t} : op'[u] = op[u]
           /\ op'[t] = [kind |-> op[t].kind, pc |-> "heal", name |-> op[t].name, group |-> op[t].group, label |-> op[t].label,
                          left |-> op[t].left \ {g}, at |-> g, then |-> op[t].pc, copy |-> op[t].copy]
           /\ op'[t] \in Doing /\ Placed(op'[t]) /\ Sound(op'[t].copy)
<1>0. Types /\ op[t] # Idle
  BY DEF Registry, Idle
<1>1. op[t] \in Doing /\ Placed(op[t]) /\ Sound(op[t].copy) /\ g \in Groups
  BY <1>0, AtWork DEF Doing
<1>2. /\ op' = [op EXCEPT ![t] = op'[t]] /\ \A u \in Tasks \ {t} : op'[u] = op[u]
      /\ op'[t] = [kind |-> op[t].kind, pc |-> "heal", name |-> op[t].name, group |-> op[t].group, label |-> op[t].label,
                     left |-> op[t].left \ {g}, at |-> g, then |-> op[t].pc, copy |-> op[t].copy]
  BY <1>0, GoesTo DEF MeetsDefault
<1>3. op'[t] \in Doing
  BY <1>1, <1>2 DEF Doing, Healing
<1>4. Placed(op'[t]) /\ op'[t].copy = op[t].copy
  BY <1>0, <1>1, <1>2 DEF Placed, Searches, Healing, Writing
<1> QED
  BY <1>1, <1>2, <1>3, <1>4

LEMMA LooksTo ==
    ASSUME Registry, NEW t \in Tasks, Looks(t)
    PROVE  /\ op[t].pc \in {"find", "check"} /\ op[t] # Idle
           /\ op' = [op EXCEPT ![t] = op'[t]] /\ \A u \in Tasks \ {t} : op'[u] = op[u]
           /\ \E g \in op[t].left :
                 \/ /\ Defaulted(g)
                    /\ op'[t] = [kind |-> op[t].kind, pc |-> "heal", name |-> op[t].name, group |-> op[t].group, label |-> op[t].label,
                                   left |-> op[t].left \ {g}, at |-> g, then |-> op[t].pc, copy |-> op[t].copy]
                    /\ op'[t] \in Doing /\ Placed(op'[t]) /\ Sound(op'[t].copy)
                 \/ /\ ~Defaulted(g) /\ op[t].kind # "list" /\ index[g] = op[t].name
                    /\ op[t].pc = "check" \/ (op[t].kind = "rename" /\ g # op[t].group)
                    /\ op'[t] = Idle
                 \/ /\ ~Defaulted(g) /\ op[t].kind \in Looking \ {"list"} /\ index[g] = op[t].name
                    /\ op[t].pc = "find" /\ (op[t].kind = "rename" => g = op[t].group)
                    /\ op'[t] = [kind |-> op[t].kind, pc |-> IF op[t].kind = "rename" THEN "name" ELSE "index", name |-> op[t].name, group |-> g, label |-> op[t].label,
                                   left |-> {}, at |-> g, then |-> op[t].then, copy |-> op[t].copy]
                    /\ op'[t] \in Doing /\ Placed(op'[t]) /\ Sound(op'[t].copy)
                 \/ /\ ~Defaulted(g) /\ (op[t].kind = "list" \/ index[g] # op[t].name)
                    /\ op'[t] = [kind |-> op[t].kind, pc |-> op[t].pc, name |-> op[t].name, group |-> op[t].group, label |-> op[t].label,
                                   left |-> op[t].left \ {g}, at |-> op[t].at, then |-> op[t].then, copy |-> op[t].copy]
                    /\ op'[t] \in Doing /\ Placed(op'[t]) /\ Sound(op'[t].copy)
           /\ UNCHANGED <<storage, dirs, index, list, shelf, acked, raced, contended, foreign, collided, emptied, unchecked, crowded, ops, faults>>
<1>0. Types /\ op[t].pc \in {"find", "check"} /\ op[t] # Idle
  BY AtPlace DEF Registry, Looks, At
<1>1. op[t] \in Doing /\ Placed(op[t]) /\ Sound(op[t].copy)
  BY <1>0, AtWork
<1>2. UNCHANGED <<storage, dirs, index, list, shelf, acked, raced, contended, foreign, collided, emptied, unchecked, crowded, ops, faults>>
  BY DEF Looks, files, history
<1>3. PICK g \in op[t].left :
          IF Defaulted(g) THEN MeetsDefault(t, g)
          ELSE IF op[t].kind # "list" /\ index[g] = op[t].name THEN Finds(t, g)
          ELSE Goes(t, [left |-> op[t].left \ {g}])
  BY DEF Looks
<1>4. g \in Groups
  BY <1>1 DEF Doing
<1>5. CASE Defaulted(g)
  <2>1. MeetsDefault(t, g)
    BY <1>3, <1>5
  <2> QED
    BY <1>0, <1>2, <1>5, <2>1, MeetsTo
<1>6. CASE ~Defaulted(g) /\ op[t].kind # "list" /\ index[g] = op[t].name
  <2>1. Finds(t, g)
    BY <1>3, <1>6
  <2>2. CASE op[t].pc = "check" \/ (op[t].kind = "rename" /\ g # op[t].group)
    <3>1. Ends(t)
      BY <2>1, <2>2 DEF Finds
    <3> QED
      BY <1>0, <1>2, <1>6, <2>2, <3>1, EndsTo
  <2>3. CASE op[t].pc = "find" /\ (op[t].kind = "rename" => g = op[t].group)
    <3>1. Goes(t, [group |-> g, at |-> g, left |-> {}, pc |-> IF op[t].kind = "rename" THEN "name" ELSE "index"])
      BY <2>1, <2>3 DEF Finds
    <3>2. /\ op' = [op EXCEPT ![t] = op'[t]] /\ \A u \in Tasks \ {t} : op'[u] = op[u]
          /\ op'[t] = [kind |-> op[t].kind, pc |-> IF op[t].kind = "rename" THEN "name" ELSE "index", name |-> op[t].name, group |-> g, label |-> op[t].label,
                         left |-> {}, at |-> g, then |-> op[t].then, copy |-> op[t].copy]
      BY <1>0, <3>1, GoesTo
    <3>3. op'[t] \in Doing
      BY <1>1, <1>4, <3>2 DEF Doing
    <3>4. op[t].kind \in Looking \ {"list"}
      BY <1>1, <1>6, <2>3 DEF Placed, Searches
    <3>5. Placed(op'[t]) /\ op'[t].copy = op[t].copy
      BY <1>0, <1>1, <1>4, <3>2, <3>4 DEF Placed, Searches, Healing, Writing, Looking, Naming, Namers, Versioning
    <3> QED
      BY <1>0, <1>1, <1>2, <1>6, <2>3, <3>2, <3>3, <3>4, <3>5
  <2> QED
    BY <1>0, <2>2, <2>3
<1>7. CASE ~Defaulted(g) /\ (op[t].kind = "list" \/ index[g] # op[t].name)
  <2>1. Goes(t, [left |-> op[t].left \ {g}])
    BY <1>3, <1>7
  <2>2. /\ op' = [op EXCEPT ![t] = op'[t]] /\ \A u \in Tasks \ {t} : op'[u] = op[u]
        /\ op'[t] = [kind |-> op[t].kind, pc |-> op[t].pc, name |-> op[t].name, group |-> op[t].group, label |-> op[t].label,
                       left |-> op[t].left \ {g}, at |-> op[t].at, then |-> op[t].then, copy |-> op[t].copy]
    BY <1>0, <2>1, GoesTo
  <2>3. op'[t] \in Doing
    BY <1>1, <2>2 DEF Doing
  <2>4. Placed(op'[t]) /\ op'[t].copy = op[t].copy
    BY <1>0, <1>1, <2>2 DEF Placed, Searches, Healing, Writing
  <2> QED
    BY <1>0, <1>1, <1>2, <1>7, <2>2, <2>3, <2>4
<1> QED
  BY <1>5, <1>6, <1>7

LEMMA FindsNoneTo ==
    ASSUME Registry, NEW t \in Tasks, FindsNone(t)
    PROVE  /\ op[t].pc \in {"find", "check"} /\ op[t] # Idle /\ op[t].left = {}
           /\ op' = [op EXCEPT ![t] = op'[t]] /\ \A u \in Tasks \ {t} : op'[u] = op[u]
           /\ \/ /\ op[t].pc = "check"
                 /\ op'[t] = [kind |-> op[t].kind, pc |-> "find", name |-> op[t].name, group |-> op[t].group, label |-> op[t].label,
                                left |-> Listed, at |-> op[t].at, then |-> op[t].then, copy |-> op[t].copy]
                 /\ op'[t] \in Doing /\ Placed(op'[t]) /\ Sound(op'[t].copy)
              \/ op[t].pc = "find" /\ op[t].kind = "list" /\ op'[t] = Idle
              \/ /\ op[t].pc = "find" /\ op[t].kind = "rename"
                 /\ op'[t] = [kind |-> op[t].kind, pc |-> "name", name |-> op[t].name, group |-> op[t].group, label |-> op[t].label,
                                left |-> op[t].left, at |-> op[t].group, then |-> op[t].then, copy |-> op[t].copy]
                 /\ op'[t] \in Doing /\ Placed(op'[t]) /\ Sound(op'[t].copy)
              \/ /\ op[t].pc = "find" /\ op[t].kind \in {"save", "create", "register"}
                 /\ \E g \in Groups \ (Listed \cup Claimed) :
                        op'[t] = [kind |-> op[t].kind, pc |-> "index", name |-> op[t].name, group |-> g, label |-> op[t].label,
                                   left |-> op[t].left, at |-> g, then |-> op[t].then, copy |-> op[t].copy]
                 /\ op'[t] \in Doing /\ Placed(op'[t]) /\ Sound(op'[t].copy)
           /\ UNCHANGED <<storage, dirs, index, list, shelf, acked, raced, contended, foreign, collided, emptied, unchecked, crowded, ops, faults>>
<1>0. Types /\ op[t].pc \in {"find", "check"} /\ op[t] # Idle /\ op[t].left = {}
  BY AtPlace DEF Registry, FindsNone, At
<1>1. op[t] \in Doing /\ Placed(op[t]) /\ Sound(op[t].copy)
  BY <1>0, AtWork
<1>2. /\ UNCHANGED <<storage, dirs, index, list, shelf, acked, raced, contended, foreign, collided, emptied, unchecked, crowded, ops, faults>>
      /\ Listed \subseteq Groups
  BY ListedGroups DEF FindsNone, files, history
<1>3. CASE op[t].pc = "check"
  <2>1. Goes(t, [pc |-> "find", left |-> Listed])
    BY <1>1, <1>3 DEF FindsNone, At, Placed, Searches
  <2>2. /\ op' = [op EXCEPT ![t] = op'[t]] /\ \A u \in Tasks \ {t} : op'[u] = op[u]
        /\ op'[t] = [kind |-> op[t].kind, pc |-> "find", name |-> op[t].name, group |-> op[t].group, label |-> op[t].label,
                       left |-> Listed, at |-> op[t].at, then |-> op[t].then, copy |-> op[t].copy]
    BY <1>0, <2>1, GoesTo
  <2>3. op'[t] \in Doing
    BY <1>1, <1>2, <2>2 DEF Doing
  <2>4. Placed(op'[t]) /\ op'[t].copy = op[t].copy
    BY <1>0, <1>1, <1>3, <2>2 DEF Placed, Searches, Healing, Writing, Namers, Versioning, Looking, Naming
  <2> QED
    BY <1>0, <1>1, <1>2, <1>3, <2>2, <2>3, <2>4
<1>4. CASE op[t].pc = "find" /\ op[t].kind = "list"
  <2>1. Ends(t)
    BY <1>4 DEF FindsNone, At
  <2> QED
    BY <1>0, <1>2, <1>4, <2>1, EndsTo
<1>5. CASE op[t].pc = "find" /\ op[t].kind = "rename"
  <2>1. Goes(t, [pc |-> "name", at |-> op[t].group])
    BY <1>1, <1>5 DEF FindsNone, At, Placed, Searches
  <2>2. /\ op' = [op EXCEPT ![t] = op'[t]] /\ \A u \in Tasks \ {t} : op'[u] = op[u]
        /\ op'[t] = [kind |-> op[t].kind, pc |-> "name", name |-> op[t].name, group |-> op[t].group, label |-> op[t].label,
                       left |-> op[t].left, at |-> op[t].group, then |-> op[t].then, copy |-> op[t].copy]
    BY <1>0, <2>1, GoesTo
  <2>3. op'[t] \in Doing
    BY <1>1, <1>2, <2>2 DEF Doing
  <2>4. Placed(op'[t]) /\ op'[t].copy = op[t].copy
    BY <1>0, <1>1, <1>5, <2>2 DEF Placed, Searches, Healing, Writing, Namers, Versioning, Looking, Naming
  <2> QED
    BY <1>0, <1>1, <1>2, <1>5, <2>2, <2>3, <2>4
<1>6. CASE op[t].pc = "find" /\ op[t].kind \notin {"list", "rename"}
  <2>1. PICK g \in Groups \ (Listed \cup Claimed) : Goes(t, [group |-> g, at |-> g, pc |-> "index"])
    BY <1>6 DEF FindsNone, At
  <2>2. /\ op' = [op EXCEPT ![t] = op'[t]] /\ \A u \in Tasks \ {t} : op'[u] = op[u]
        /\ op'[t] = [kind |-> op[t].kind, pc |-> "index", name |-> op[t].name, group |-> g, label |-> op[t].label,
                       left |-> op[t].left, at |-> g, then |-> op[t].then, copy |-> op[t].copy]
    BY <1>0, <2>1, GoesTo
  <2>3. op'[t] \in Doing
    BY <1>1, <2>1, <2>2 DEF Doing
  <2>4. op[t].kind \in {"save", "create", "register"}
    BY <1>1, <1>6 DEF Placed, Searches, Looking
  <2>5. Placed(op'[t]) /\ op'[t].copy = op[t].copy
    BY <1>0, <1>1, <1>6, <2>1, <2>2, <2>4 DEF Placed, Searches, Healing, Writing, Namers, Versioning, Looking, Naming
  <2> QED
    BY <1>0, <1>1, <1>2, <1>6, <2>1, <2>2, <2>3, <2>4, <2>5
<1> QED
  BY <1>0, <1>3, <1>4, <1>5, <1>6

(* An index that is not there or cannot be read. *)
LEMMA HealsTo ==
    ASSUME Registry, NEW t \in Tasks, op[t].pc = "index", DefaultRead(t)
    PROVE  /\ op' = [op EXCEPT ![t] = op'[t]] /\ \A u \in Tasks \ {t} : op'[u] = op[u]
           /\ op'[t] = [kind |-> op[t].kind, pc |-> "heal", name |-> NameFor(t, Itself), group |-> op[t].group, label |-> op[t].label,
                          left |-> Listed, at |-> op[t].at, then |-> AfterIndex(t), copy |-> op[t].copy]
           /\ op'[t] \in Doing /\ Placed(op'[t]) /\ Sound(op'[t].copy)
<1>0. Types /\ op[t] # Idle /\ Listed \subseteq Groups
  BY ListedGroups DEF Registry, Idle
<1>1. op[t] \in Doing /\ Placed(op[t]) /\ Sound(op[t].copy)
  BY <1>0, AtWork
<1>2. /\ op' = [op EXCEPT ![t] = op'[t]] /\ \A u \in Tasks \ {t} : op'[u] = op[u]
      /\ op'[t] = [kind |-> op[t].kind, pc |-> "heal", name |-> NameFor(t, Itself), group |-> op[t].group, label |-> op[t].label,
                     left |-> Listed, at |-> op[t].at, then |-> AfterIndex(t), copy |-> op[t].copy]
  BY <1>0, GoesTo DEF DefaultRead
<1>3. op'[t] \in Doing
  BY <1>0, <1>1, <1>2 DEF Doing, Healing, AfterIndex, NameFor
<1>4. Placed(op'[t]) /\ op'[t].copy = op[t].copy
  BY <1>0, <1>1, <1>2 DEF Placed, Searches, Healing, Writing, AfterIndex, NameFor, Namers, Versioning, Naming, Looking
<1> QED
  BY <1>1, <1>2, <1>3, <1>4

LEMMA ReadsIndexTo ==
    ASSUME Registry, NEW t \in Tasks, ReadsIndex(t)
    PROVE  /\ op[t].pc = "index" /\ op[t] # Idle /\ op[t].group \in Groups /\ op[t].kind \in Naming
           /\ op' = [op EXCEPT ![t] = op'[t]] /\ \A u \in Tasks \ {t} : op'[u] = op[u]
           /\ \/ /\ Defaulted(op[t].group)
                 /\ op'[t] = [kind |-> op[t].kind, pc |-> "heal", name |-> NameFor(t, Itself), group |-> op[t].group, label |-> op[t].label,
                                left |-> Listed, at |-> op[t].at, then |-> AfterIndex(t), copy |-> op[t].copy]
              \/ /\ ~Defaulted(op[t].group) /\ op[t].kind = "rename"
                 /\ op'[t] = [kind |-> op[t].kind, pc |-> "find", name |-> op[t].name, group |-> op[t].group, label |-> op[t].label,
                                left |-> Listed, at |-> op[t].at, then |-> op[t].then, copy |-> op[t].copy]
              \/ /\ ~Defaulted(op[t].group) /\ op[t].kind = "describe"
                 /\ op'[t] = [kind |-> op[t].kind, pc |-> "name", name |-> index[op[t].group], group |-> op[t].group, label |-> op[t].label,
                                left |-> op[t].left, at |-> op[t].at, then |-> op[t].then, copy |-> op[t].copy]
              \/ /\ ~Defaulted(op[t].group) /\ op[t].kind \in Versioning
                 /\ op'[t] = [kind |-> op[t].kind, pc |-> IF index[op[t].group] = Itself THEN "name" ELSE "versions", name |-> op[t].name, group |-> op[t].group, label |-> op[t].label,
                                left |-> op[t].left, at |-> op[t].at, then |-> op[t].then, copy |-> op[t].copy]
           /\ op'[t] \in Doing /\ Placed(op'[t]) /\ Sound(op'[t].copy)
           /\ dirs' = IF storage = "local" THEN dirs \cup {op[t].group} ELSE dirs
           /\ unchecked' = (unchecked \/ (op[t].kind = "into" /\ index[op[t].group] \notin Names))
           /\ crowded' = IF index[op[t].group] \notin Names /\ \E u \in Tasks \ {t} : AtIndex(u, op[t].group)
                         THEN crowded \cup {op[t].group} ELSE crowded
           /\ UNCHANGED <<storage, index, list, shelf, acked, raced, contended, foreign, collided, emptied, ops, faults>>
<1>0. Types /\ op[t].pc = "index" /\ op[t] # Idle
  BY AtPlace DEF Registry, ReadsIndex
<1>1. op[t] \in Doing /\ Placed(op[t]) /\ Sound(op[t].copy)
  BY <1>0, AtWork
<1>2. /\ UNCHANGED <<storage, index, list, shelf, acked, raced, contended, foreign, collided, emptied, ops, faults>>
      /\ dirs' = IF storage = "local" THEN dirs \cup {op[t].group} ELSE dirs
      /\ unchecked' = (unchecked \/ (op[t].kind = "into" /\ index[op[t].group] \notin Names))
      /\ crowded' = IF index[op[t].group] \notin Names /\ \E u \in Tasks \ {t} : AtIndex(u, op[t].group)
                    THEN crowded \cup {op[t].group} ELSE crowded
      /\ op[t].group \in Groups /\ op[t].kind \in Naming /\ Listed \subseteq Groups
  BY <1>0, <1>1, ListedGroups DEF ReadsIndex, Placed
<1>3. CASE Defaulted(op[t].group)
  <2>1. DefaultRead(t)
    BY <1>3 DEF ReadsIndex
  <2> QED
    BY <1>0, <1>2, <1>3, <2>1, HealsTo
<1>4. CASE ~Defaulted(op[t].group) /\ op[t].kind = "rename"
  <2>1. Goes(t, [pc |-> "find", left |-> Listed])
    BY <1>4 DEF ReadsIndex
  <2>2. /\ op' = [op EXCEPT ![t] = op'[t]] /\ \A u \in Tasks \ {t} : op'[u] = op[u]
        /\ op'[t] = [kind |-> op[t].kind, pc |-> "find", name |-> op[t].name, group |-> op[t].group, label |-> op[t].label,
                       left |-> Listed, at |-> op[t].at, then |-> op[t].then, copy |-> op[t].copy]
    BY <1>0, <2>1, GoesTo
  <2>3. op'[t] \in Doing
    BY <1>1, <1>2, <2>2 DEF Doing
  <2>4. Placed(op'[t]) /\ op'[t].copy = op[t].copy
    BY <1>0, <1>1, <1>2, <1>4, <2>2 DEF Placed, Searches, Healing, Writing, Looking
  <2> QED
    BY <1>0, <1>1, <1>2, <1>4, <2>2, <2>3, <2>4
<1>5. CASE ~Defaulted(op[t].group) /\ op[t].kind = "describe"
  <2>1. Goes(t, [pc |-> "name", name |-> index[op[t].group]]) /\ index[op[t].group] \in Names \cup {Itself}
    BY <1>5 DEF ReadsIndex, Defaulted, Readable
  <2>2. /\ op' = [op EXCEPT ![t] = op'[t]] /\ \A u \in Tasks \ {t} : op'[u] = op[u]
        /\ op'[t] = [kind |-> op[t].kind, pc |-> "name", name |-> index[op[t].group], group |-> op[t].group, label |-> op[t].label,
                       left |-> op[t].left, at |-> op[t].at, then |-> op[t].then, copy |-> op[t].copy]
    BY <1>0, <2>1, GoesTo
  <2>3. op'[t] \in Doing
    BY <1>1, <1>2, <2>1, <2>2 DEF Doing
  <2>4. Placed(op'[t]) /\ op'[t].copy = op[t].copy
    BY <1>0, <1>1, <1>2, <1>5, <2>1, <2>2 DEF Placed, Searches, Healing, Writing, Namers, Versioning, Looking, Naming
  <2> QED
    BY <1>0, <1>1, <1>2, <1>5, <2>2, <2>3, <2>4
<1>6. CASE ~Defaulted(op[t].group) /\ op[t].kind \in Versioning
  <2>1. Goes(t, [pc |-> IF index[op[t].group] = Itself THEN "name" ELSE "versions"])
    BY <1>6 DEF ReadsIndex, Versioning
  <2>2. /\ op' = [op EXCEPT ![t] = op'[t]] /\ \A u \in Tasks \ {t} : op'[u] = op[u]
        /\ op'[t] = [kind |-> op[t].kind, pc |-> IF index[op[t].group] = Itself THEN "name" ELSE "versions", name |-> op[t].name, group |-> op[t].group, label |-> op[t].label,
                       left |-> op[t].left, at |-> op[t].at, then |-> op[t].then, copy |-> op[t].copy]
    BY <1>0, <2>1, GoesTo
  <2>3. op'[t] \in Doing
    BY <1>1, <1>2, <2>2 DEF Doing
  <2>4. Placed(op'[t]) /\ op'[t].copy = op[t].copy
    BY <1>0, <1>1, <1>2, <1>6, <2>2 DEF Placed, Searches, Healing, Writing, Namers, Versioning, Looking, Naming
  <2> QED
    BY <1>0, <1>1, <1>2, <1>6, <2>2, <2>3, <2>4
<1>7. op[t].kind \in Versioning \cup {"rename", "describe"}
  BY <1>2 DEF Naming, Namers, Versioning
<1> QED
  BY <1>3, <1>4, <1>5, <1>6, <1>7

LEMMA OpensIndexTo ==
    ASSUME Registry, NEW t \in Tasks, OpensIndex(t)
    PROVE  /\ op[t].pc \in {"heal", "name"} /\ op[t] # Idle /\ op[t].at \in Groups
           /\ op' = [op EXCEPT ![t] = op'[t]] /\ \A u \in Tasks \ {t} : op'[u] = op[u]
           /\ op'[t] = [kind |-> op[t].kind, pc |-> IF op[t].pc = "heal" THEN "healing" ELSE "naming", name |-> op[t].name, group |-> op[t].group, label |-> op[t].label,
                          left |-> op[t].left, at |-> op[t].at, then |-> op[t].then, copy |-> op[t].copy]
           /\ op'[t] \in Doing /\ Placed(op'[t]) /\ Sound(op'[t].copy)
           /\ index' = [index EXCEPT ![op[t].at] = Opened(@)]
           /\ UNCHANGED <<storage, dirs, list, shelf, acked, raced, contended, foreign, collided, emptied, unchecked, crowded, ops, faults>>
<1>0. Types /\ op[t].pc \in {"heal", "name"} /\ op[t] # Idle
  BY AtPlace DEF Registry, OpensIndex, At
<1>1. op[t] \in Doing /\ Placed(op[t]) /\ Sound(op[t].copy)
  BY <1>0, AtWork
<1>2. /\ UNCHANGED <<storage, dirs, list, shelf, acked, raced, contended, foreign, collided, emptied, unchecked, crowded, ops, faults>>
      /\ index' = [index EXCEPT ![op[t].at] = Opened(@)] /\ op[t].at \in Groups
  BY <1>0, <1>1 DEF OpensIndex, history, Placed, Searches, Healing
<1>3. Goes(t, [pc |-> IF op[t].pc = "heal" THEN "healing" ELSE "naming"])
  BY DEF OpensIndex, At
<1>4. /\ op' = [op EXCEPT ![t] = op'[t]] /\ \A u \in Tasks \ {t} : op'[u] = op[u]
      /\ op'[t] = [kind |-> op[t].kind, pc |-> IF op[t].pc = "heal" THEN "healing" ELSE "naming", name |-> op[t].name, group |-> op[t].group, label |-> op[t].label,
                     left |-> op[t].left, at |-> op[t].at, then |-> op[t].then, copy |-> op[t].copy]
  BY <1>0, <1>3, GoesTo
<1>5. op'[t] \in Doing
  BY <1>1, <1>4 DEF Doing, Healing
<1>6. Placed(op'[t]) /\ op'[t].copy = op[t].copy
  BY <1>0, <1>1, <1>4 DEF Placed, Searches, Healing, Writing
<1> QED
  BY <1>0, <1>1, <1>2, <1>4, <1>5, <1>6

LEMMA ClosesIndexTo ==
    ASSUME Registry, NEW t \in Tasks, ClosesIndex(t)
    PROVE  /\ op[t].pc \in {"healing", "naming"} /\ op[t] # Idle /\ op[t].at \in Groups
           /\ op' = [op EXCEPT ![t] = op'[t]] /\ \A u \in Tasks \ {t} : op'[u] = op[u]
           /\ \E new \in Closed(index[op[t].at], IF op[t].pc = "healing" THEN Itself ELSE op[t].name) :
                 /\ index' = [index EXCEPT ![op[t].at] = new]
                 /\ new \in {Corrupt, IF op[t].pc = "healing" THEN Itself ELSE op[t].name}
           /\ op[t].pc = "naming" => op[t].at = op[t].group /\ op[t].name \in Names \cup {Itself} /\ op[t].kind \in Naming
           /\ \/ /\ op[t].pc = "healing"
                 /\ op'[t] = [kind |-> op[t].kind, pc |-> op[t].then, name |-> op[t].name, group |-> op[t].group, label |-> op[t].label,
                                left |-> op[t].left, at |-> op[t].group, then |-> "none", copy |-> op[t].copy]
                 /\ op'[t] \in Doing /\ Placed(op'[t]) /\ Sound(op'[t].copy)
              \/ op[t].pc = "naming" /\ op[t].kind \in {"rename", "describe"} /\ op'[t] = Idle
              \/ /\ op[t].pc = "naming" /\ op[t].kind \in Versioning
                 /\ op'[t] = [kind |-> op[t].kind, pc |-> "versions", name |-> op[t].name, group |-> op[t].group, label |-> op[t].label,
                                left |-> op[t].left, at |-> op[t].at, then |-> op[t].then, copy |-> op[t].copy]
                 /\ op'[t] \in Doing /\ Placed(op'[t]) /\ Sound(op'[t].copy)
           /\ UNCHANGED <<storage, dirs, list, shelf, acked, raced, contended, foreign, collided, emptied, unchecked, crowded, ops, faults>>
<1>0. Types /\ op[t].pc \in {"healing", "naming"} /\ op[t] # Idle
  BY AtPlace DEF Registry, ClosesIndex, At
<1>1. op[t] \in Doing /\ Placed(op[t]) /\ Sound(op[t].copy)
  BY <1>0, AtWork
<1>2. /\ UNCHANGED <<storage, dirs, list, shelf, acked, raced, contended, foreign, collided, emptied, unchecked, crowded, ops, faults>>
      /\ op[t].at \in Groups
      /\ op[t].pc = "naming" => op[t].at = op[t].group /\ op[t].name \in Names \cup {Itself} /\ op[t].kind \in Naming
  BY <1>0, <1>1 DEF ClosesIndex, history, Placed, Searches, Healing
<1>3. PICK new \in Closed(index[op[t].at], IF op[t].pc = "healing" THEN Itself ELSE op[t].name) :
          index' = [index EXCEPT ![op[t].at] = new]
  BY DEF ClosesIndex, At
<1>4. new \in {Corrupt, IF op[t].pc = "healing" THEN Itself ELSE op[t].name}
  BY DEF Closed
<1>5. CASE op[t].pc = "healing"
  <2>1. Goes(t, [pc |-> op[t].then, at |-> op[t].group, then |-> "none"])
    BY <1>5 DEF ClosesIndex, At
  <2>2. /\ op' = [op EXCEPT ![t] = op'[t]] /\ \A u \in Tasks \ {t} : op'[u] = op[u]
        /\ op'[t] = [kind |-> op[t].kind, pc |-> op[t].then, name |-> op[t].name, group |-> op[t].group, label |-> op[t].label,
                       left |-> op[t].left, at |-> op[t].group, then |-> "none", copy |-> op[t].copy]
    BY <1>0, <2>1, GoesTo
  <2>3. op'[t] \in Doing
    BY <1>1, <1>5, <2>2 DEF Doing, Placed, Healing
  <2>4. Placed(op'[t]) /\ op'[t].copy = op[t].copy
    BY <1>0, <1>1, <1>5, <2>2 DEF Placed, Searches, Healing, Writing, Doing
  <2> QED
    BY <1>0, <1>1, <1>2, <1>3, <1>4, <1>5, <2>2, <2>3, <2>4
<1>6. CASE op[t].pc = "naming" /\ op[t].kind \in {"rename", "describe"}
  <2>1. Ends(t)
    BY <1>6 DEF ClosesIndex, At
  <2> QED
    BY <1>0, <1>2, <1>3, <1>4, <1>6, <2>1, EndsTo
<1>7. CASE op[t].pc = "naming" /\ op[t].kind \notin {"rename", "describe"}
  <2>1. Goes(t, [pc |-> "versions"]) /\ op[t].kind \in Versioning
    BY <1>2, <1>7 DEF ClosesIndex, At, Naming, Namers, Versioning
  <2>2. /\ op' = [op EXCEPT ![t] = op'[t]] /\ \A u \in Tasks \ {t} : op'[u] = op[u]
        /\ op'[t] = [kind |-> op[t].kind, pc |-> "versions", name |-> op[t].name, group |-> op[t].group, label |-> op[t].label,
                       left |-> op[t].left, at |-> op[t].at, then |-> op[t].then, copy |-> op[t].copy]
    BY <1>0, <2>1, GoesTo
  <2>3. op'[t] \in Doing
    BY <1>1, <2>2 DEF Doing
  <2>4. Placed(op'[t]) /\ op'[t].copy = op[t].copy
    BY <1>0, <1>1, <1>7, <2>1, <2>2 DEF Placed, Searches, Healing, Writing, Versioning
  <2> QED
    BY <1>0, <1>1, <1>2, <1>3, <1>4, <1>7, <2>1, <2>2, <2>3, <2>4
<1> QED
  BY <1>0, <1>5, <1>6, <1>7

(* The new list of an update that is not refused. *)
LEMMA ChangedSound ==
    ASSUME Registry, NEW t \in Tasks, op[t] # Idle, op[t].pc = "versions", op[t].kind # "drop",
           NEW vs \in Seq(Version), Sound(vs), ~Refused(t, vs), LabelFor(t, vs) \in Labels
    PROVE  /\ Changed(t, vs) \in Seq(Version) /\ Sound(Changed(t, vs))
           /\ op[t].kind \in Versioning => LabelFor(t, vs) \notin LabelsOf(vs) /\ LabelsOf(Changed(t, vs)) = LabelsOf(vs) \cup {LabelFor(t, vs)}
           /\ op[t].kind \notin Versioning => LabelFor(t, vs) = op[t].label
           /\ op[t].kind = "save" => LabelFor(t, vs) = op[t].label
           /\ op[t].kind = "delete" => LabelsOf(Changed(t, vs)) = LabelsOf(vs) \ {op[t].label}
           /\ op[t].kind \in {"tag", "untag", "edit"} => LabelsOf(Changed(t, vs)) = LabelsOf(vs)
<1>1. op[t] \in Doing /\ op[t].kind \in Versioning \cup {"delete", "tag", "untag", "edit"}
  BY AtWork DEF Placed, Doing, Kinds, Namers, Versioning
<1>2. CASE op[t].kind \in Versioning
  <2>1. Changed(t, vs) = Appended(vs, LabelFor(t, vs))
    BY <1>2 DEF Changed, Versioning
  <2>2. LabelFor(t, vs) \notin LabelsOf(vs)
    <3>1. CASE op[t].kind \in Numbered
      BY <3>1, LabelsIn, HighestIs DEF LabelFor, NextLabel
    <3>2. CASE op[t].kind \notin Numbered
      BY <1>2, <3>2 DEF LabelFor, Refused, Taken
    <3> QED
      BY <3>1, <3>2
  <2> QED
    BY <1>2, <2>1, <2>2, ListChanges DEF LabelFor, Versioning, Numbered
<1>3. CASE op[t].kind = "delete"
  <2>1. Changed(t, vs) = Without(vs, op[t].label)
    BY <1>3 DEF Changed, Versioning
  <2> QED
    BY <1>3, <2>1, WithoutRest DEF LabelFor, Versioning, Numbered
<1>4. CASE op[t].kind = "tag"
  <2>1. Changed(t, vs) = Tagged(vs, op[t].label) /\ op[t].label \in Labels
    BY <1>1, <1>4 DEF Changed, Versioning, Doing
  <2> QED
    BY <1>4, <2>1, ListChanges DEF LabelFor, Versioning, Numbered
<1>5. CASE op[t].kind = "untag"
  <2>1. Changed(t, vs) = TagCleared(vs, op[t].label) /\ op[t].label \in Labels
    BY <1>1, <1>5 DEF Changed, Versioning, Doing
  <2> QED
    BY <1>5, <2>1, ListChanges DEF LabelFor, Versioning, Numbered
<1>6. CASE op[t].kind = "edit"
  BY <1>6 DEF Changed, LabelFor, Versioning, Numbered
<1> QED
  BY <1>1, <1>2, <1>3, <1>4, <1>5, <1>6

LEMMA UpdatesTo ==
    ASSUME Registry, NEW t \in Tasks, op[t] # Idle, op[t].pc = "versions", op[t].kind # "drop",
           NEW vs \in Seq(Version), Sound(vs), Updates(t, vs)
    PROVE  /\ op' = [op EXCEPT ![t] = op'[t]] /\ \A u \in Tasks \ {t} : op'[u] = op[u]
           /\ \/ Refused(t, vs) /\ op'[t] = Idle /\ raced' = raced /\ collided' = IF op[t].kind = "save" THEN collided \cup {op[t].name} ELSE collided
              \/ /\ ~Refused(t, vs) /\ LabelFor(t, vs) \in Labels
                 /\ op'[t] = [kind |-> op[t].kind, pc |-> "put", name |-> op[t].name, group |-> op[t].group, label |-> LabelFor(t, vs),
                                left |-> op[t].left, at |-> op[t].at, then |-> op[t].then, copy |-> Changed(t, vs)]
                 /\ op'[t] \in Doing /\ Placed(op'[t]) /\ Sound(op'[t].copy)
                 /\ raced' = IF \E u \in Tasks \ {t} : op[u].pc \in {"put", "putting"} /\ op[u].group = op[t].group
                             THEN raced \cup {op[t].group} ELSE raced
                 /\ collided' = collided
<1>0. Types /\ op[t] \in Doing /\ Placed(op[t])
  BY AtWork DEF Registry
<1>1. CASE Refused(t, vs)
  BY <1>0, <1>1, EndsTo DEF Updates
<1>2. CASE ~Refused(t, vs)
  <2>1. /\ Goes(t, [pc |-> "put", label |-> LabelFor(t, vs), copy |-> Changed(t, vs)]) /\ LabelFor(t, vs) \in Labels
        /\ raced' = IF \E u \in Tasks \ {t} : op[u].pc \in {"put", "putting"} /\ op[u].group = op[t].group
                    THEN raced \cup {op[t].group} ELSE raced
        /\ collided' = collided
    BY <1>2 DEF Updates
  <2>2. /\ op' = [op EXCEPT ![t] = op'[t]] /\ \A u \in Tasks \ {t} : op'[u] = op[u]
        /\ op'[t] = [kind |-> op[t].kind, pc |-> "put", name |-> op[t].name, group |-> op[t].group, label |-> LabelFor(t, vs),
                       left |-> op[t].left, at |-> op[t].at, then |-> op[t].then, copy |-> Changed(t, vs)]
    BY <1>0, <2>1, GoesTo
  <2>3. Changed(t, vs) \in Seq(Version) /\ Sound(Changed(t, vs))
    BY <1>2, <2>1, ChangedSound
  <2>4. op'[t] \in Doing
    BY <1>0, <2>1, <2>2, <2>3 DEF Doing, Writing
  <2>5. Placed(op'[t]) /\ op'[t].copy = Changed(t, vs)
    BY <1>0, <2>2 DEF Placed, Searches, Healing, Writing
  <2> QED
    BY <1>2, <2>1, <2>2, <2>3, <2>4, <2>5
<1> QED
  BY <1>1, <1>2

(* A list is read, as it is or as empty, and changed. *)
LEMMA ReadsVersionsTo ==
    ASSUME Registry, NEW t \in Tasks, ReadsVersions(t)
    PROVE  /\ op[t].pc = "versions" /\ op[t] # Idle /\ op[t].group \in Groups
           /\ \/ op[t].kind = "drop" /\ Ends(t) /\ UNCHANGED <<raced, collided>>
              \/ op[t].kind # "drop" /\ Updates(t, Stored(op[t].group))
           /\ UNCHANGED <<storage, dirs, index, list, shelf, acked, contended, foreign, emptied, unchecked, crowded, ops, faults>>
<1>0. op[t].pc = "versions" /\ op[t] # Idle
  BY AtPlace DEF ReadsVersions
<1> QED
  BY <1>0, AtWork DEF ReadsVersions, Drops, files, Placed

LEMMA OpensListTo ==
    ASSUME Registry, NEW t \in Tasks, OpensList(t)
    PROVE  /\ op[t].pc = "put" /\ op[t] # Idle /\ op[t].group \in Groups
           /\ op' = [op EXCEPT ![t] = op'[t]] /\ \A u \in Tasks \ {t} : op'[u] = op[u]
           /\ op'[t] = [kind |-> op[t].kind, pc |-> "putting", name |-> op[t].name, group |-> op[t].group, label |-> op[t].label,
                          left |-> op[t].left, at |-> op[t].at, then |-> op[t].then, copy |-> op[t].copy]
           /\ op'[t] \in Doing /\ Placed(op'[t]) /\ Sound(op'[t].copy)
           /\ list' = [list EXCEPT ![op[t].group] = Opened(@)]
           /\ UNCHANGED <<storage, dirs, index, shelf, acked, raced, contended, foreign, collided, emptied, unchecked, crowded, ops, faults>>
<1>0. Types /\ op[t].pc = "put" /\ op[t] # Idle
  BY AtPlace DEF Registry, OpensList
<1>1. op[t] \in Doing /\ Placed(op[t]) /\ Sound(op[t].copy) /\ op[t].group \in Groups
  BY <1>0, AtWork DEF Placed, Writing
<1>2. /\ op' = [op EXCEPT ![t] = op'[t]] /\ \A u \in Tasks \ {t} : op'[u] = op[u]
      /\ op'[t] = [kind |-> op[t].kind, pc |-> "putting", name |-> op[t].name, group |-> op[t].group, label |-> op[t].label,
                     left |-> op[t].left, at |-> op[t].at, then |-> op[t].then, copy |-> op[t].copy]
  BY <1>0, GoesTo DEF OpensList
<1>3. op'[t] \in Doing
  BY <1>1, <1>2 DEF Doing, Writing
<1>4. Placed(op'[t]) /\ op'[t].copy = op[t].copy
  BY <1>0, <1>1, <1>2 DEF Placed, Searches, Healing, Writing
<1> QED
  BY <1>0, <1>1, <1>2, <1>3, <1>4 DEF OpensList, history

LEMMA ClosesListTo ==
    ASSUME Registry, NEW t \in Tasks, ClosesList(t)
    PROVE  /\ op[t].pc = "putting" /\ op[t] # Idle /\ op[t].group \in Groups
           /\ op' = [op EXCEPT ![t] = op'[t]] /\ \A u \in Tasks \ {t} : op'[u] = op[u]
           /\ op'[t] = Idle
           /\ \E new \in Closed(list[op[t].group], op[t].copy) : list' = [list EXCEPT ![op[t].group] = new]
           /\ acked' = IF op[t].kind \in Versioning THEN [acked EXCEPT ![op[t].group] = @ \cup {op[t].label}]
                       ELSE IF op[t].kind = "delete" THEN [acked EXCEPT ![op[t].group] = @ \ {op[t].label}]
                       ELSE acked
           /\ UNCHANGED <<storage, dirs, index, shelf, raced, contended, foreign, collided, emptied, unchecked, crowded, ops, faults>>
<1>0. Types /\ op[t].pc = "putting" /\ op[t] # Idle
  BY AtPlace DEF Registry, ClosesList
<1>1. op[t] \in Doing /\ op[t].group \in Groups
  BY <1>0, AtWork DEF Placed, Writing
<1> QED
  BY <1>0, <1>1, EndsTo DEF ClosesList

(* A read that fails: of an index, or of a list, which is then an empty one. *)
LEMMA ReadFailsTo ==
    ASSUME Registry, NEW t \in Tasks, ReadFails(t)
    PROVE  /\ op[t] # Idle /\ faults' = faults + 1 /\ faults < MaxFaults
           /\ op' = [op EXCEPT ![t] = op'[t]] /\ \A u \in Tasks \ {t} : op'[u] = op[u]
           /\ \/ /\ op[t].pc \in {"find", "check"}
                 /\ \E g \in op[t].left : op'[t] = [kind |-> op[t].kind, pc |-> "heal", name |-> op[t].name, group |-> op[t].group, label |-> op[t].label,
                                                left |-> op[t].left \ {g}, at |-> g, then |-> op[t].pc, copy |-> op[t].copy]
                 /\ op'[t] \in Doing /\ Placed(op'[t]) /\ Sound(op'[t].copy)
                 /\ UNCHANGED <<raced, collided>>
              \/ /\ op[t].pc \in {"find", "check"}
                 /\ op'[t] = [kind |-> op[t].kind, pc |-> op[t].pc, name |-> op[t].name, group |-> op[t].group, label |-> op[t].label,
                                left |-> {}, at |-> op[t].at, then |-> op[t].then, copy |-> op[t].copy]
                 /\ op'[t] \in Doing /\ Placed(op'[t]) /\ Sound(op'[t].copy)
                 /\ UNCHANGED <<raced, collided>>
              \/ /\ op[t].pc = "index"
                 /\ op'[t] = [kind |-> op[t].kind, pc |-> "heal", name |-> NameFor(t, Itself), group |-> op[t].group, label |-> op[t].label,
                                left |-> Listed, at |-> op[t].at, then |-> AfterIndex(t), copy |-> op[t].copy]
                 /\ op'[t] \in Doing /\ Placed(op'[t]) /\ Sound(op'[t].copy)
                 /\ UNCHANGED <<raced, collided>>
              \/ op[t].pc = "versions" /\ op[t].kind = "drop" /\ op'[t] = Idle /\ UNCHANGED <<raced, collided>>
              \/ op[t].pc = "versions" /\ op[t].kind # "drop" /\ Updates(t, <<>>)
           /\ UNCHANGED <<storage, dirs, index, list, shelf, acked, contended, foreign, emptied, unchecked, crowded, ops>>
<1>0. Types /\ faults' = faults + 1 /\ faults < MaxFaults
  BY DEF Registry, ReadFails
<1>1. CASE /\ At(t, "find") \/ At(t, "check")
           /\ \E g \in op[t].left : MeetsDefault(t, g)
           /\ UNCHANGED history
  <2>1. PICK g \in op[t].left : MeetsDefault(t, g)
    BY <1>1
  <2>2. op[t].pc \in {"find", "check"} /\ op[t] # Idle
    BY <1>1, AtPlace DEF At
  <2> QED
    BY <1>0, <1>1, <2>1, <2>2, MeetsTo DEF ReadFails, files, history
<1>2. CASE At(t, "index") /\ DefaultRead(t) /\ UNCHANGED history
  <2>1. op[t].pc = "index" /\ op[t] # Idle
    BY <1>2, AtPlace
  <2> QED
    BY <1>0, <1>2, <2>1, HealsTo DEF ReadFails, files, history
<1>3. CASE /\ At(t, "versions")
           /\ IF op[t].kind = "drop" THEN Drops(t) ELSE Updates(t, <<>>)
           /\ UNCHANGED <<acked, contended, foreign, emptied, unchecked, crowded>>
  <2>1. op[t].pc = "versions" /\ op[t] # Idle
    BY <1>3, AtPlace
  <2>2. CASE op[t].kind = "drop"
    BY <1>0, <1>3, <2>1, <2>2, EndsTo DEF Drops, ReadFails, files
  <2>3. CASE op[t].kind # "drop"
    <3>1. Updates(t, <<>>)
      BY <1>3, <2>3
    <3>2. /\ op' = [op EXCEPT ![t] = op'[t]] /\ \A u \in Tasks \ {t} : op'[u] = op[u]
      BY <2>1, <2>3, <3>1, SoundEmpty, UpdatesTo
    <3> QED
      BY <1>0, <1>3, <2>1, <2>3, <3>1, <3>2 DEF ReadFails, files
  <2> QED
    BY <2>2, <2>3
<1>4. CASE /\ At(t, "find") \/ At(t, "check")
           /\ Goes(t, [left |-> {}])
           /\ UNCHANGED history
  <2>1. op[t].pc \in {"find", "check"} /\ op[t] # Idle
    BY <1>4, AtPlace DEF At
  <2>2. op[t] \in Doing /\ Placed(op[t]) /\ Sound(op[t].copy)
    BY <2>1, AtWork
  <2>3. /\ op' = [op EXCEPT ![t] = op'[t]] /\ \A u \in Tasks \ {t} : op'[u] = op[u]
        /\ op'[t] = [kind |-> op[t].kind, pc |-> op[t].pc, name |-> op[t].name, group |-> op[t].group, label |-> op[t].label,
                       left |-> {}, at |-> op[t].at, then |-> op[t].then, copy |-> op[t].copy]
    BY <1>0, <1>4, <2>1, GoesTo
  <2>4. op'[t] \in Doing
    BY <2>2, <2>3 DEF Doing
  <2>5. Placed(op'[t]) /\ op'[t].copy = op[t].copy
    BY <2>1, <2>2, <2>3 DEF Placed, Searches, Healing, Writing
  <2> QED
    BY <1>0, <1>4, <2>1, <2>2, <2>3, <2>4, <2>5 DEF ReadFails, files, history
<1> QED
  BY <1>1, <1>2, <1>3, <1>4 DEF ReadFails

LEMMA DiesTo ==
    ASSUME Registry, NEW t \in Tasks, Dies(t)
    PROVE  /\ op[t] # Idle /\ faults' = faults + 1 /\ faults < MaxFaults
           /\ op' = [op EXCEPT ![t] = op'[t]] /\ \A u \in Tasks \ {t} : op'[u] = op[u]
           /\ \/ op'[t] = Idle
              \/ /\ op[t].pc \in Healing /\ op[t].then \in {"find", "check"}
                 /\ op'[t] = [kind |-> op[t].kind, pc |-> op[t].then, name |-> op[t].name, group |-> op[t].group, label |-> op[t].label,
                                left |-> op[t].left, at |-> op[t].group, then |-> "none", copy |-> op[t].copy]
                 /\ op'[t] \in Doing /\ Placed(op'[t]) /\ Sound(op'[t].copy)
           /\ \/ UNCHANGED <<index, list>>
              \/ storage = "object" /\ op[t].at \in Groups /\ index' = [index EXCEPT ![op[t].at] = Corrupt] /\ UNCHANGED list
              \/ storage = "object" /\ op[t].group \in Groups /\ list' = [list EXCEPT ![op[t].group] = Corrupt] /\ UNCHANGED index
           /\ UNCHANGED <<storage, dirs, shelf, acked, raced, contended, foreign, collided, emptied, unchecked, crowded, ops>>
<1>0. Types /\ op[t] # Idle /\ faults' = faults + 1 /\ faults < MaxFaults
  BY DEF Registry, Dies
<1>1. op[t] \in Doing /\ Placed(op[t]) /\ Sound(op[t].copy)
  BY <1>0, AtWork
<1>2. UNCHANGED <<storage, dirs, shelf, acked, raced, contended, foreign, collided, emptied, unchecked, crowded, ops>>
  BY DEF Dies, history
<1>3. \/ UNCHANGED <<index, list>>
      \/ storage = "object" /\ op[t].at \in Groups /\ index' = [index EXCEPT ![op[t].at] = Corrupt] /\ UNCHANGED list
      \/ storage = "object" /\ op[t].group \in Groups /\ list' = [list EXCEPT ![op[t].group] = Corrupt] /\ UNCHANGED index
  <2>1. At(t, "healing") \/ At(t, "naming") => op[t].at \in Groups
    BY <1>1 DEF At, Placed, Healing
  <2>2. At(t, "putting") => op[t].group \in Groups
    BY <1>1 DEF At, Placed, Writing
  <2> QED
    BY <2>1, <2>2 DEF Dies, BreaksOff
<1>4. CASE Ends(t)
  BY <1>0, <1>2, <1>3, <1>4, EndsTo
<1>5. CASE /\ At(t, "heal") \/ At(t, "healing")
           /\ op[t].then \in {"find", "check"}
           /\ Goes(t, [pc |-> op[t].then, at |-> op[t].group, then |-> "none"])
  <2>1. op[t].pc \in Healing
    BY <1>5 DEF At, Healing
  <2>2. /\ op' = [op EXCEPT ![t] = op'[t]] /\ \A u \in Tasks \ {t} : op'[u] = op[u]
        /\ op'[t] = [kind |-> op[t].kind, pc |-> op[t].then, name |-> op[t].name, group |-> op[t].group, label |-> op[t].label,
                       left |-> op[t].left, at |-> op[t].group, then |-> "none", copy |-> op[t].copy]
    BY <1>0, <1>5, GoesTo
  <2>3. op'[t] \in Doing
    BY <1>1, <1>5, <2>2 DEF Doing
  <2>4. Placed(op'[t]) /\ op'[t].copy = op[t].copy
    BY <1>0, <1>1, <1>5, <2>1, <2>2 DEF Placed, Searches, Healing, Writing
  <2> QED
    BY <1>0, <1>1, <1>2, <1>3, <1>5, <2>1, <2>2, <2>3, <2>4
<1> QED
  BY <1>4, <1>5 DEF Dies

(* Where a step takes an operation: its kind and its name stay, unless it reads the name, and often its group and label. *)
SameAim(t) == op'[t].kind = op[t].kind /\ (op[t].kind # "describe" => op'[t].name = op[t].name)
SamePlace(t) == op'[t].group = op[t].group /\ op'[t].label = op[t].label
LEMMA Paths ==
    ASSUME Registry, NEW t \in Tasks
    PROVE  /\ Scans(t) => op'[t].pc = "reserve" /\ SameAim(t)
           /\ Reserves(t) => op'[t] = Idle \/ (op'[t].pc = "copy" /\ SameAim(t))
           /\ Copies(t) => op'[t].pc = "find" /\ SameAim(t)
           /\ Looks(t) => op'[t] = Idle \/ (op'[t].pc \in {"heal", "name", "index", op[t].pc} /\ SameAim(t))
           /\ FindsNone(t) => op'[t] = Idle \/ (op'[t].pc \in {"find", "name", "index"} /\ SameAim(t))
           /\ ReadsIndex(t) => op'[t].pc \in {"heal", "find", "name", "versions"} /\ SameAim(t) /\ SamePlace(t)
           /\ OpensIndex(t) => op'[t].pc \in {"healing", "naming"} /\ SameAim(t) /\ SamePlace(t)
           /\ ClosesIndex(t) => op'[t] = Idle \/ (op'[t].pc \in {op[t].then, "versions"} /\ SameAim(t) /\ SamePlace(t))
           /\ OpensList(t) => op'[t].pc = "putting" /\ SameAim(t)
<1>1. ASSUME Scans(t) PROVE op'[t].pc = "reserve" /\ SameAim(t)
  <2>1. op'[t] = [kind |-> op[t].kind, pc |-> "reserve", name |-> op[t].name, group |-> op[t].group, label |-> NextFolder(op[t].name),
                  left |-> op[t].left, at |-> op[t].at, then |-> op[t].then, copy |-> op[t].copy]
    BY <1>1, ScansTo
  <2> QED
    BY <2>1 DEF SameAim
<1>2. ASSUME Reserves(t) PROVE op'[t] = Idle \/ (op'[t].pc = "copy" /\ SameAim(t))
  <2>1. op'[t] = Idle \/ op'[t] = [kind |-> op[t].kind, pc |-> "copy", name |-> op[t].name, group |-> op[t].group, label |-> op[t].label,
                  left |-> op[t].left, at |-> op[t].at, then |-> op[t].then, copy |-> op[t].copy]
    BY <1>2, ReservesTo
  <2> QED
    BY <2>1 DEF SameAim
<1>3. ASSUME Copies(t) PROVE op'[t].pc = "find" /\ SameAim(t)
  <2>1. op'[t] = [kind |-> op[t].kind, pc |-> "find", name |-> op[t].name, group |-> op[t].group, label |-> op[t].label,
                  left |-> Listed, at |-> op[t].at, then |-> op[t].then, copy |-> op[t].copy]
    BY <1>3, CopiesTo
  <2> QED
    BY <2>1 DEF SameAim
<1>4. ASSUME Looks(t) PROVE op'[t] = Idle \/ (op'[t].pc \in {"heal", "name", "index", op[t].pc} /\ SameAim(t))
  <2>1. PICK g \in op[t].left : 
          \/ op'[t] = Idle
          \/ op'[t] = [kind |-> op[t].kind, pc |-> "heal", name |-> op[t].name, group |-> op[t].group, label |-> op[t].label,
                  left |-> op[t].left \ {g}, at |-> g, then |-> op[t].pc, copy |-> op[t].copy]
          \/ op'[t] = [kind |-> op[t].kind, pc |-> IF op[t].kind = "rename" THEN "name" ELSE "index", name |-> op[t].name, group |-> g, label |-> op[t].label,
                  left |-> {}, at |-> g, then |-> op[t].then, copy |-> op[t].copy]
          \/ op'[t] = [kind |-> op[t].kind, pc |-> op[t].pc, name |-> op[t].name, group |-> op[t].group, label |-> op[t].label,
                  left |-> op[t].left \ {g}, at |-> op[t].at, then |-> op[t].then, copy |-> op[t].copy]
    BY <1>4, LooksTo
  <2> QED
    BY <2>1 DEF SameAim
<1>5. ASSUME FindsNone(t) PROVE op'[t] = Idle \/ (op'[t].pc \in {"find", "name", "index"} /\ SameAim(t))
  <2>1. \/ op'[t] = Idle
          \/ op'[t] = [kind |-> op[t].kind, pc |-> "find", name |-> op[t].name, group |-> op[t].group, label |-> op[t].label,
                  left |-> Listed, at |-> op[t].at, then |-> op[t].then, copy |-> op[t].copy]
          \/ op'[t] = [kind |-> op[t].kind, pc |-> "name", name |-> op[t].name, group |-> op[t].group, label |-> op[t].label,
                  left |-> op[t].left, at |-> op[t].group, then |-> op[t].then, copy |-> op[t].copy]
          \/ \E g \in Groups : op'[t] = [kind |-> op[t].kind, pc |-> "index", name |-> op[t].name, group |-> g, label |-> op[t].label,
                  left |-> op[t].left, at |-> g, then |-> op[t].then, copy |-> op[t].copy]
    BY <1>5, FindsNoneTo
  <2>2. ASSUME NEW g \in Groups, op'[t] = [kind |-> op[t].kind, pc |-> "index", name |-> op[t].name, group |-> g, label |-> op[t].label,
                  left |-> op[t].left, at |-> g, then |-> op[t].then, copy |-> op[t].copy]
        PROVE  op'[t] = Idle \/ (op'[t].pc \in {"find", "name", "index"} /\ SameAim(t))
    BY <2>2 DEF SameAim
  <2>3. CASE op'[t] = [kind |-> op[t].kind, pc |-> "find", name |-> op[t].name, group |-> op[t].group, label |-> op[t].label,
                  left |-> Listed, at |-> op[t].at, then |-> op[t].then, copy |-> op[t].copy]
    BY <2>3 DEF SameAim
  <2>4. CASE op'[t] = [kind |-> op[t].kind, pc |-> "name", name |-> op[t].name, group |-> op[t].group, label |-> op[t].label,
                  left |-> op[t].left, at |-> op[t].group, then |-> op[t].then, copy |-> op[t].copy]
    BY <2>4 DEF SameAim
  <2> QED
    BY <2>1, <2>2, <2>3, <2>4
<1>6. ASSUME ReadsIndex(t) PROVE op'[t].pc \in {"heal", "find", "name", "versions"} /\ SameAim(t) /\ SamePlace(t)
  <2>1. \/ op'[t] = [kind |-> op[t].kind, pc |-> "heal", name |-> NameFor(t, Itself), group |-> op[t].group, label |-> op[t].label,
                  left |-> Listed, at |-> op[t].at, then |-> AfterIndex(t), copy |-> op[t].copy]
        \/ op[t].kind = "describe" /\ op'[t] = [kind |-> op[t].kind, pc |-> "name", name |-> index[op[t].group], group |-> op[t].group, label |-> op[t].label,
                  left |-> op[t].left, at |-> op[t].at, then |-> op[t].then, copy |-> op[t].copy]
        \/ op'[t] = [kind |-> op[t].kind, pc |-> "find", name |-> op[t].name, group |-> op[t].group, label |-> op[t].label,
                  left |-> Listed, at |-> op[t].at, then |-> op[t].then, copy |-> op[t].copy]
        \/ op'[t] = [kind |-> op[t].kind, pc |-> IF index[op[t].group] = Itself THEN "name" ELSE "versions", name |-> op[t].name, group |-> op[t].group, label |-> op[t].label,
                  left |-> op[t].left, at |-> op[t].at, then |-> op[t].then, copy |-> op[t].copy]
    BY <1>6, ReadsIndexTo
  <2> QED
    BY <2>1 DEF SameAim, SamePlace, NameFor
<1>7. ASSUME OpensIndex(t) PROVE op'[t].pc \in {"healing", "naming"} /\ SameAim(t) /\ SamePlace(t)
  <2>1. op'[t] = [kind |-> op[t].kind, pc |-> IF op[t].pc = "heal" THEN "healing" ELSE "naming", name |-> op[t].name, group |-> op[t].group, label |-> op[t].label,
                  left |-> op[t].left, at |-> op[t].at, then |-> op[t].then, copy |-> op[t].copy]
    BY <1>7, OpensIndexTo
  <2> QED
    BY <2>1 DEF SameAim, SamePlace
<1>8. ASSUME ClosesIndex(t) PROVE op'[t] = Idle \/ (op'[t].pc \in {op[t].then, "versions"} /\ SameAim(t) /\ SamePlace(t))
  <2>1. \/ op'[t] = Idle
          \/ op'[t] = [kind |-> op[t].kind, pc |-> op[t].then, name |-> op[t].name, group |-> op[t].group, label |-> op[t].label,
                  left |-> op[t].left, at |-> op[t].group, then |-> "none", copy |-> op[t].copy]
          \/ op'[t] = [kind |-> op[t].kind, pc |-> "versions", name |-> op[t].name, group |-> op[t].group, label |-> op[t].label,
                  left |-> op[t].left, at |-> op[t].at, then |-> op[t].then, copy |-> op[t].copy]
    BY <1>8, ClosesIndexTo
  <2> QED
    BY <2>1 DEF SameAim, SamePlace
<1>9. ASSUME OpensList(t) PROVE op'[t].pc = "putting" /\ SameAim(t)
  <2>1. op'[t] = [kind |-> op[t].kind, pc |-> "putting", name |-> op[t].name, group |-> op[t].group, label |-> op[t].label,
                  left |-> op[t].left, at |-> op[t].at, then |-> op[t].then, copy |-> op[t].copy]
    BY <1>9, OpensListTo
  <2> QED
    BY <2>1 DEF SameAim
<1> QED
  BY <1>1, <1>2, <1>3, <1>4, <1>5, <1>6, <1>7, <1>8, <1>9
-------------------------------------------------------------------------------
(* The invariant of types and lists. *)

LEMMA OneMove ==
    ASSUME Registry, NEW t \in Tasks, op' = [op EXCEPT ![t] = op'[t]],
           op'[t] = Idle \/ (op'[t] \in Doing /\ Placed(op'[t]) /\ Sound(op'[t].copy)),
           FileTypes', HistoryTypes', ListsSound'
    PROVE  Registry'
  BY OneMoves DEF Registry, Types
LEMMA SameLists == Registry /\ list' = list => ListsSound'
  BY DEF Registry, ListsSound
LEMMA FilesSame ==
    Registry /\ UNCHANGED <<storage, dirs, index, list, shelf>> => FileTypes' /\ ListsSound'
  BY SameLists DEF Registry, Types
LEMMA HistorySame ==
    Registry /\ UNCHANGED <<acked, raced, contended, foreign, collided, emptied, unchecked, crowded, ops, faults>> => HistoryTypes'
  BY DEF Registry, Types
LEMMA Numbers == MaxOps \in Nat /\ MaxFaults \in Nat
  BY AssetVersionsAssumption DEF AssetVersionsAssumption

(* What an update of a list may note. *)
LEMMA UpdateNotes ==
    ASSUME Registry, NEW t \in Tasks, op[t].group \in Groups,
           \/ raced' = raced
           \/ raced' = IF \E u \in Tasks \ {t} : op[u].pc \in {"put", "putting"} /\ op[u].group = op[t].group
                       THEN raced \cup {op[t].group} ELSE raced,
           op[t] # Idle,
           collided' = collided \/ collided' = IF op[t].kind = "save" THEN collided \cup {op[t].name} ELSE collided
    PROVE  raced' \subseteq Groups /\ collided' \subseteq Names
<1>1. raced \subseteq Groups /\ collided \subseteq Names
  BY DEF Registry, Types
<1>2. raced' \subseteq Groups
  BY <1>1
<1>3. op[t].kind = "save" => op[t].name \in Names
  BY AtWork DEF Placed, Versioning
<1>4. collided' \subseteq Names
  BY <1>1, <1>3
<1> QED
  BY <1>2, <1>4

LEMMA RegistryStep == Registry /\ [Next]_vars => Registry'
<1> SUFFICES ASSUME Registry, [Next]_vars PROVE Registry'
  OBVIOUS
<1>0. Types /\ ListsSound
  BY DEF Registry
<1>1. ASSUME NEW t \in Tasks, Begin(t) PROVE Registry'
  <2>1. FileTypes' /\ ListsSound'
    BY <1>1, FilesSame DEF Begin, files
  <2>2. ops' = ops + 1 /\ ops < MaxOps /\ UNCHANGED <<acked, raced, collided, emptied, unchecked, crowded, faults>>
    BY <1>1 DEF Begin
  <2>3. ops' \in 0 .. MaxOps /\ foreign' \in BOOLEAN /\ contended' \in BOOLEAN
    <3>1. /\ foreign' = (foreign \/ op'[t].kind \in {"create", "register", "rename", "describe", "into"})
          /\ contended' = (contended \/ (op'[t].kind \in {"create", "register", "rename", "describe"} /\ Choosing \ {t} # {}))
      BY <1>1, BeginKinds
    <3>2. ops \in 0 .. MaxOps /\ foreign \in BOOLEAN /\ contended \in BOOLEAN
      BY <1>0 DEF Types
    <3>3. ops' \in 0 .. MaxOps
      BY <2>2, <3>2, Numbers
    <3> QED
      BY <3>1, <3>2, <3>3
  <2>4. HistoryTypes'
    BY <1>0, <2>2, <2>3 DEF Types
  <2>5. op'[t].copy = <<>> /\ op' = [op EXCEPT ![t] = op'[t]] /\ op'[t] \in Doing /\ Placed(op'[t])
    BY <1>1, BeginKinds
  <2> QED
    BY <2>1, <2>4, <2>5, SoundEmpty, OneMove
<1>2. ASSUME NEW t \in Tasks, Scans(t) PROVE Registry'
  BY <1>2, ScansTo, FilesSame, HistorySame, OneMove
<1>3. ASSUME NEW t \in Tasks, Reserves(t) PROVE Registry'
  <2>1. op[t] \in Doing
    BY <1>3, ReservesTo, AtWork
  <2>2. shelf' \in [Names -> SUBSET Labels]
    <3>1. /\ op[t].name \in Names
          /\ shelf' = shelf \/ shelf' = [shelf EXCEPT ![op[t].name] = @ \cup {op[t].label}]
      BY <1>3, ReservesTo
    <3>2. op[t].label \in Labels
      BY <2>1 DEF Doing
    <3> QED
      BY <1>0, <3>1, <3>2 DEF Types
  <2>3. FileTypes' /\ ListsSound'
    BY <1>0, <1>3, <2>2, ReservesTo, SameLists DEF Types
  <2> QED
    BY <1>3, <2>3, ReservesTo, HistorySame, OneMove
<1>4. ASSUME NEW t \in Tasks, Copies(t) PROVE Registry'
  <2>1. op[t] \in Doing
    BY <1>4, CopiesTo, AtWork
  <2>2. shelf' \in [Names -> SUBSET Labels] /\ contended' \in BOOLEAN
    <3>1. /\ op[t].name \in Names /\ shelf' = [shelf EXCEPT ![op[t].name] = @ \cup {op[t].label}]
          /\ contended' = (contended \/ Choosing \ {t} # {})
      BY <1>4, CopiesTo
    <3>2. op[t].label \in Labels
      BY <2>1 DEF Doing
    <3>3. shelf' \in [Names -> SUBSET Labels]
      BY <1>0, <3>1, <3>2 DEF Types
    <3>4. contended' \in BOOLEAN
      BY <3>1
    <3> QED
      BY <3>3, <3>4
  <2>3. UNCHANGED <<storage, dirs, index, list, acked, raced, foreign, collided, emptied, unchecked, crowded, ops, faults>>
    BY <1>4, CopiesTo
  <2>4. FileTypes' /\ ListsSound'
    BY <1>0, <2>2, <2>3, SameLists DEF Types
  <2>5. HistoryTypes'
    BY <1>0, <2>2, <2>3 DEF Types
  <2> QED
    BY <1>4, <2>4, <2>5, CopiesTo, OneMove
<1>5. ASSUME NEW t \in Tasks, Looks(t) PROVE Registry'
  BY <1>5, LooksTo, FilesSame, HistorySame, OneMove
<1>6. ASSUME NEW t \in Tasks, FindsNone(t) PROVE Registry'
  BY <1>6, FindsNoneTo, FilesSame, HistorySame, OneMove
<1>7. ASSUME NEW t \in Tasks, ReadsIndex(t) PROVE Registry'
  <2>1. FileTypes' /\ ListsSound'
    <3>1. /\ op[t].group \in Groups /\ UNCHANGED <<storage, index, list, shelf>>
          /\ dirs' = IF storage = "local" THEN dirs \cup {op[t].group} ELSE dirs
      BY <1>7, ReadsIndexTo
    <3> QED
      BY <1>0, <3>1, SameLists DEF Types
  <2>2. HistoryTypes'
    <3>1. /\ UNCHANGED <<acked, raced, contended, foreign, collided, emptied, ops, faults>>
          /\ unchecked' = (unchecked \/ (op[t].kind = "into" /\ index[op[t].group] \notin Names))
          /\ crowded' \in {crowded, crowded \cup {op[t].group}} /\ op[t].group \in Groups
      BY <1>7, ReadsIndexTo
    <3>2. unchecked' \in BOOLEAN
      BY <1>0, <3>1 DEF Types
    <3>3. crowded' \subseteq Groups
      BY <1>0, <3>1 DEF Types
    <3> QED
      BY <1>0, <3>1, <3>2, <3>3 DEF Types
  <2> QED
    BY <1>7, <2>1, <2>2, ReadsIndexTo, OneMove
<1>8. ASSUME NEW t \in Tasks, OpensIndex(t) PROVE Registry'
  <2>1. index' \in [Groups -> Names \cup {Itself, Missing, Corrupt}]
    <3>1. op[t].at \in Groups /\ index' = [index EXCEPT ![op[t].at] = Opened(@)]
      BY <1>8, OpensIndexTo
    <3> QED
      BY <1>0, <3>1 DEF Types, Opened
  <2>2. FileTypes' /\ ListsSound'
    BY <1>0, <1>8, <2>1, OpensIndexTo, SameLists DEF Types
  <2> QED
    BY <1>8, <2>2, OpensIndexTo, HistorySame, OneMove
<1>9. ASSUME NEW t \in Tasks, ClosesIndex(t) PROVE Registry'
  <2>1. index' \in [Groups -> Names \cup {Itself, Missing, Corrupt}]
    <3>1. /\ op[t].pc \in {"healing", "naming"} /\ op[t].at \in Groups
          /\ op[t].pc = "naming" => op[t].name \in Names \cup {Itself}
      BY <1>9, ClosesIndexTo
    <3>2. PICK new \in Closed(index[op[t].at], IF op[t].pc = "healing" THEN Itself ELSE op[t].name) :
              /\ index' = [index EXCEPT ![op[t].at] = new]
              /\ new \in {Corrupt, IF op[t].pc = "healing" THEN Itself ELSE op[t].name}
      BY <1>9, ClosesIndexTo
    <3>3. new \in Names \cup {Itself, Missing, Corrupt}
      BY <3>1, <3>2
    <3> QED
      BY <1>0, <3>1, <3>2, <3>3 DEF Types
  <2>2. FileTypes' /\ ListsSound'
    BY <1>0, <1>9, <2>1, ClosesIndexTo, SameLists DEF Types
  <2> QED
    BY <1>9, <2>2, ClosesIndexTo, HistorySame, OneMove
<1>10. ASSUME NEW t \in Tasks, ReadsVersions(t) PROVE Registry'
  <2>1. /\ op[t].pc = "versions" /\ op[t] # Idle /\ op[t].group \in Groups
        /\ UNCHANGED <<storage, dirs, index, list, shelf, acked, contended, foreign, emptied, unchecked, crowded, ops, faults>>
    BY <1>10, ReadsVersionsTo
  <2>2. FileTypes' /\ ListsSound'
    BY <2>1, FilesSame
  <2>3. CASE op[t].kind = "drop" /\ Ends(t) /\ UNCHANGED <<raced, collided>>
    BY <1>0, <2>1, <2>2, <2>3, EndsTo, HistorySame, OneMove
  <2>4. CASE op[t].kind # "drop" /\ Updates(t, Stored(op[t].group))
    <3>1. raced' \subseteq Groups /\ collided' \subseteq Names
      BY <2>1, <2>4, StoredSound, UpdatesTo, UpdateNotes
    <3>2. HistoryTypes'
      BY <1>0, <2>1, <3>1 DEF Types
    <3> QED
      BY <2>1, <2>2, <2>4, <3>2, StoredSound, UpdatesTo, OneMove
  <2> QED
    BY <1>10, <2>3, <2>4, ReadsVersionsTo
<1>11. ASSUME NEW t \in Tasks, OpensList(t) PROVE Registry'
  <2>1. list' \in [Groups -> {Missing, Corrupt} \cup Seq(Version)] /\ ListsSound'
    BY <1>0, <1>11, OpensListTo DEF Types, Opened, ListsSound
  <2>2. FileTypes'
    BY <1>0, <1>11, <2>1, OpensListTo DEF Types
  <2> QED
    BY <1>11, <2>1, <2>2, OpensListTo, HistorySame, OneMove
<1>12. ASSUME NEW t \in Tasks, ClosesList(t) PROVE Registry'
  <2>1. op[t] \in Doing /\ Sound(op[t].copy) /\ op[t].group \in Groups
    BY <1>12, ClosesListTo, AtWork
  <2>2. PICK new \in Closed(list[op[t].group], op[t].copy) : list' = [list EXCEPT ![op[t].group] = new]
    BY <1>12, ClosesListTo
  <2>3. new \in {Corrupt, op[t].copy} /\ op[t].copy \in Seq(Version) /\ op[t].label \in Labels
    BY <2>1 DEF Closed, Doing
  <2>4. list' \in [Groups -> {Missing, Corrupt} \cup Seq(Version)] /\ ListsSound'
    BY <1>0, <2>1, <2>2, <2>3 DEF Types, ListsSound
  <2>5. acked' \in [Groups -> SUBSET Labels]
    BY <1>0, <1>12, <2>3, ClosesListTo DEF Types
  <2>6. FileTypes' /\ HistoryTypes'
    BY <1>0, <1>12, <2>4, <2>5, ClosesListTo DEF Types
  <2> QED
    BY <1>12, <2>4, <2>6, ClosesListTo, OneMove
<1>13. ASSUME NEW t \in Tasks, ReadFails(t) PROVE Registry'
  <2>1. /\ op[t] # Idle /\ faults' \in 0 .. MaxFaults /\ op' = [op EXCEPT ![t] = op'[t]]
        /\ UNCHANGED <<storage, dirs, index, list, shelf, acked, contended, foreign, emptied, unchecked, crowded, ops>>
    <3>1. /\ op[t] # Idle /\ faults' = faults + 1 /\ faults < MaxFaults /\ op' = [op EXCEPT ![t] = op'[t]]
          /\ UNCHANGED <<storage, dirs, index, list, shelf, acked, contended, foreign, emptied, unchecked, crowded, ops>>
      BY <1>13, ReadFailsTo
    <3> QED
      BY <1>0, <3>1, Numbers DEF Types
  <2>2. FileTypes' /\ ListsSound'
    BY <2>1, FilesSame
  <2>3. CASE op[t].pc = "versions" /\ op[t].kind # "drop" /\ Updates(t, <<>>)
    <3>1. op[t].group \in Groups
      BY <2>1, <2>3, AtWork DEF Placed
    <3>2. raced' \subseteq Groups /\ collided' \subseteq Names
      BY <2>1, <2>3, <3>1, SoundEmpty, UpdatesTo, UpdateNotes
    <3>3. HistoryTypes'
      BY <1>0, <2>1, <3>2 DEF Types
    <3> QED
      BY <2>1, <2>2, <2>3, <3>3, SoundEmpty, UpdatesTo, OneMove
  <2>4. CASE /\ op'[t] = Idle \/ (op'[t] \in Doing /\ Placed(op'[t]) /\ Sound(op'[t].copy))
             /\ UNCHANGED <<raced, collided>>
    <3>1. HistoryTypes'
      BY <1>0, <2>1, <2>4 DEF Types
    <3> QED
      BY <2>1, <2>2, <2>4, <3>1, OneMove
  <2> QED
    BY <1>13, <2>3, <2>4, ReadFailsTo
<1>14. ASSUME NEW t \in Tasks, Dies(t) PROVE Registry'
  <2>1. HistoryTypes'
    <3>1. /\ faults' = faults + 1 /\ faults < MaxFaults
          /\ UNCHANGED <<acked, raced, contended, foreign, collided, emptied, unchecked, crowded, ops>>
      BY <1>14, DiesTo
    <3>2. faults' \in 0 .. MaxFaults
      BY <1>0, <3>1, Numbers DEF Types
    <3> QED
      BY <1>0, <3>1, <3>2 DEF Types
  <2>2. index' \in [Groups -> Names \cup {Itself, Missing, Corrupt}]
    BY <1>0, <1>14, DiesTo DEF Types
  <2>3. list' \in [Groups -> {Missing, Corrupt} \cup Seq(Version)] /\ ListsSound'
    <3>1. list' = list \/ (op[t].group \in Groups /\ list' = [list EXCEPT ![op[t].group] = Corrupt])
      BY <1>14, DiesTo
    <3> QED
      BY <1>0, <3>1 DEF Types, ListsSound
  <2>4. FileTypes'
    BY <1>0, <1>14, <2>2, <2>3, DiesTo DEF Types
  <2> QED
    BY <1>14, <2>1, <2>3, <2>4, DiesTo, OneMove
<1>15. CASE UNCHANGED vars
  BY <1>15 DEF vars, files, history, Registry, Types, OpsSound, ListsSound
<1>16. ASSUME NEW n \in Names, Empties(n) PROVE Registry'
  <2>1. op' = op /\ ListsSound' /\ FileTypes'
    BY <1>0, <1>16, SameLists DEF Empties, Types
  <2>2. ops \in 0 .. MaxOps /\ ops < MaxOps /\ ops' = ops + 1
    BY <1>0, <1>16 DEF Empties, Types
  <2>3. ops' \in 0 .. MaxOps
    BY <2>2, Numbers
  <2>4. HistoryTypes'
    BY <1>0, <1>16, <2>3 DEF Empties, Types
  <2> QED
    BY <2>1, <2>4 DEF Registry, Types, OpsSound
<1> QED
  BY <1>1, <1>2, <1>3, <1>4, <1>5, <1>6, <1>7, <1>8, <1>9, <1>10, <1>11, <1>12, <1>13, <1>14, <1>15, <1>16 DEF Next, Moves

LEMMA RegistryTypes == Registry => TypeOK
<1> SUFFICES ASSUME Registry PROVE TypeOK
  OBVIOUS
<1>1. \A g \in Groups : list[g] \in {Missing, Corrupt} \/ (list[g] \in Seq(Version) /\ Len(list[g]) <= MaxOps + 1)
  BY SoundLength DEF Registry, Types, ListsSound
<1>2. \A t \in Tasks : op[t] = Idle \/ (op[t].kind \in Kinds /\ op[t].left \subseteq Groups)
  BY AtWork DEF Doing
<1> QED
  BY <1>1, <1>2 DEF Registry, Types, TypeOK

LEMMA RegistryHolds == Spec => []Registry
  BY RegistryInit, RegistryStep, PTL DEF Spec

(* Files and operations keep their types: no list outgrows the labels, and *)
(* no operation is where its kind does not lead (asset_version_service.py). *)
THEOREM TypeCorrect == Spec => []TypeOK
  BY RegistryHolds, RegistryTypes, PTL

(* However requests and background saves overlap, tear each other's files   *)
(* or die, a stored list has each label once and each tag at one version    *)
(* (create_version, set_tag, clear_tag, delete_version).                    *)
THEOREM OneHolderEach == Spec => []OneHolder
<1>1. Registry => OneHolder
  BY StoredSound DEF OneHolder, Sound
<1> QED
  BY <1>1, RegistryHolds, PTL
-------------------------------------------------------------------------------
(* Answered versions stay: one writer at a time holds them in its copy.    *)

LEMMA AckInit == Init => AckInv
<1> SUFFICES ASSUME Init PROVE AckInv
  OBVIOUS
<1>1. PICK g \in Groups, n \in Names :
          /\ list = [h \in Groups |-> IF h = g THEN <<[label |-> 1, latest |-> TRUE]>> ELSE Missing]
          /\ acked = [h \in Groups |-> IF h = g THEN {1} ELSE {}]
  BY DEF Init
<1>2. <<[label |-> 1, latest |-> TRUE]>> \in Seq(Version)
  BY One DEF Version
<1>3. <<[label |-> 1, latest |-> TRUE]>> \notin {Missing, Corrupt}
  BY <1>2, AssetVersionsAssumption DEF AssetVersionsAssumption
<1>4. \A h \in Groups : acked[h] \subseteq LabelsOf(Stored(h))
  <2>1. LabelsOf(<<[label |-> 1, latest |-> TRUE]>>) = {1}
    BY DEF LabelsOf
  <2>2. Stored(g) = <<[label |-> 1, latest |-> TRUE]>>
    BY <1>1, <1>3 DEF Stored
  <2> QED
    BY <1>1, <2>1, <2>2
<1>5. \A t \in Tasks : op[t].pc = "idle"
  BY DEF Init, Idle
<1> QED
  BY <1>4, <1>5 DEF AckInv, Writes, Writing, At

(* A step of a task that neither was nor is writing a list. *)
LEMMA AckFrame ==
    ASSUME Registry, AckInv, NEW t \in Tasks, \A u \in Tasks \ {t} : op'[u] = op[u],
           op[t].pc \notin Writing, op'[t].pc \notin Writing, UNCHANGED <<storage, list, acked, raced, faults>>
    PROVE  AckInv'
<1>1. \A u \in Tasks, g \in Groups : Writes(u, g)' <=> Writes(u, g)
  BY DEF Writes
<1>2. \A u \in Tasks, g \in Groups : Writes(u, g) => op'[u] = op[u]
  BY DEF Writes
<1>3. \A u \in Tasks, g \in Groups : (At(u, "putting") /\ op[u].group = g)' <=> At(u, "putting") /\ op[u].group = g
  BY DEF At, Writing
<1>4. \A g \in Groups : Stored(g)' = Stored(g)
  BY DEF Stored
<1> SUFFICES ASSUME faults = 0, NEW g \in Groups \ raced
             PROVE  /\ \A v, u \in Tasks : Writes(v, g)' /\ Writes(u, g)' => v = u
                    /\ \A v \in Tasks : Writes(v, g)' => Kept(v)' \subseteq LabelsOf(op'[v].copy)
                    /\ \A v \in Tasks : (At(v, "putting") /\ op[v].group = g /\ storage = "local")' => list[g]' = Corrupt
                    /\ acked[g]' \subseteq LabelsOf(Stored(g))' \/ \E v \in Tasks : (At(v, "putting") /\ op[v].group = g)'
  BY DEF AckInv, LabelsOf
<1>5. /\ \A v, u \in Tasks : Writes(v, g) /\ Writes(u, g) => v = u
      /\ \A v \in Tasks : Writes(v, g) => Kept(v) \subseteq LabelsOf(op[v].copy)
      /\ \A v \in Tasks : At(v, "putting") /\ op[v].group = g /\ storage = "local" => list[g] = Corrupt
      /\ acked[g] \subseteq LabelsOf(Stored(g)) \/ \E v \in Tasks : At(v, "putting") /\ op[v].group = g
  BY DEF AckInv
<1>6. \A v \in Tasks : Writes(v, g)' => Kept(v)' \subseteq LabelsOf(op'[v].copy)
  BY <1>1, <1>2, <1>5 DEF Kept
<1>7. \A v \in Tasks : (At(v, "putting") /\ op[v].group = g /\ storage = "local")' => list[g]' = Corrupt
  BY <1>3, <1>5
<1>8. acked[g]' \subseteq LabelsOf(Stored(g))' \/ \E v \in Tasks : (At(v, "putting") /\ op[v].group = g)'
  BY <1>3, <1>4, <1>5 DEF LabelsOf
<1> QED
  BY <1>1, <1>5, <1>6, <1>7, <1>8

(* The group of another task's list is not disturbed. *)
LEMMA AckElsewhere ==
    ASSUME Registry, AckInv, NEW t \in Tasks, \A u \in Tasks \ {t} : op'[u] = op[u], faults = 0,
           NEW g \in Groups \ raced, op[t].group # g, op'[t] = Idle \/ op'[t].group = op[t].group,
           list'[g] = list[g], acked'[g] = acked[g], storage' = storage
    PROVE  /\ \A v, u \in Tasks : Writes(v, g)' /\ Writes(u, g)' => v = u
           /\ \A v \in Tasks : Writes(v, g)' => Kept(v)' \subseteq LabelsOf(op'[v].copy)
           /\ \A v \in Tasks : (At(v, "putting") /\ op[v].group = g /\ storage = "local")' => list[g]' = Corrupt
           /\ acked[g]' \subseteq LabelsOf(Stored(g))' \/ \E v \in Tasks : (At(v, "putting") /\ op[v].group = g)'
<1>0. ~Writes(t, g)' /\ ~(At(t, "putting") /\ op[t].group = g)'
  BY DEF Writes, Writing, Idle, At
<1>1. \A u \in Tasks : Writes(u, g)' => u # t /\ Writes(u, g)
  BY <1>0 DEF Writes
<1>2. \A u \in Tasks : (At(u, "putting") /\ op[u].group = g)' <=> At(u, "putting") /\ op[u].group = g
  BY <1>0 DEF At
<1>3. Stored(g)' = Stored(g)
  BY DEF Stored
<1>5. /\ \A v, u \in Tasks : Writes(v, g) /\ Writes(u, g) => v = u
      /\ \A v \in Tasks : Writes(v, g) => Kept(v) \subseteq LabelsOf(op[v].copy)
      /\ \A v \in Tasks : At(v, "putting") /\ op[v].group = g /\ storage = "local" => list[g] = Corrupt
      /\ acked[g] \subseteq LabelsOf(Stored(g)) \/ \E v \in Tasks : At(v, "putting") /\ op[v].group = g
  BY DEF AckInv
<1>6. ASSUME NEW v \in Tasks, Writes(v, g)' PROVE Kept(v)' \subseteq LabelsOf(op'[v].copy)
  <2>1. op'[v] = op[v] /\ v # t /\ Writes(v, g) /\ op[v].group = g
    BY <1>1, <1>6 DEF Writes
  <2>2. Kept(v)' = Kept(v)
    BY <2>1 DEF Kept
  <2> QED
    BY <1>5, <2>1, <2>2
<1>7. \A v \in Tasks : (At(v, "putting") /\ op[v].group = g /\ storage = "local")' => list[g]' = Corrupt
  BY <1>2, <1>5
<1>8. acked[g]' \subseteq LabelsOf(Stored(g))' \/ \E v \in Tasks : (At(v, "putting") /\ op[v].group = g)'
  BY <1>2, <1>3, <1>5 DEF LabelsOf
<1> QED
  BY <1>1, <1>5, <1>6, <1>7, <1>8

LEMMA AckPuts ==
    ASSUME Registry, AckInv, NEW t \in Tasks, ReadsVersions(t), op[t].kind # "drop",
           ~Refused(t, Stored(op[t].group)), Updates(t, Stored(op[t].group))
    PROVE  AckInv'
<1> DEFINE g0 == op[t].group
           vs == Stored(g0)
<1>0. /\ op[t].pc = "versions" /\ op[t] # Idle /\ g0 \in Groups
      /\ UNCHANGED <<storage, list, acked, faults>> /\ \A u \in Tasks \ {t} : op'[u] = op[u]
      /\ vs \in Seq(Version) /\ Sound(vs)
  BY ReadsVersionsTo, StoredSound, UpdatesTo
<1>1. /\ LabelFor(t, vs) \in Labels
      /\ op'[t] = [kind |-> op[t].kind, pc |-> "put", name |-> op[t].name, group |-> op[t].group, label |-> LabelFor(t, vs),
                     left |-> op[t].left, at |-> op[t].at, then |-> op[t].then, copy |-> Changed(t, vs)]
      /\ raced' = IF \E u \in Tasks \ {t} : op[u].pc \in {"put", "putting"} /\ op[u].group = g0
                  THEN raced \cup {g0} ELSE raced
  BY <1>0, UpdatesTo
<1> SUFFICES ASSUME faults = 0, NEW g \in Groups \ raced'
             PROVE  /\ \A v, u \in Tasks : Writes(v, g)' /\ Writes(u, g)' => v = u
                    /\ \A v \in Tasks : Writes(v, g)' => Kept(v)' \subseteq LabelsOf(op'[v].copy)
                    /\ \A v \in Tasks : (At(v, "putting") /\ op[v].group = g /\ storage = "local")' => list[g]' = Corrupt
                    /\ acked[g]' \subseteq LabelsOf(Stored(g))' \/ \E v \in Tasks : (At(v, "putting") /\ op[v].group = g)'
  BY <1>0 DEF AckInv, LabelsOf
<1>2. g \in Groups \ raced
  BY <1>1
<1>3. CASE g # g0
  BY <1>0, <1>1, <1>2, <1>3, AckElsewhere
<1>4. CASE g = g0
  <2>1. \A u \in Tasks \ {t} : ~(op[u].pc \in Writing /\ op[u].group = g0)
    BY <1>1, <1>4 DEF Writing
  <2>2. \A u \in Tasks : Writes(u, g)' => u = t
    BY <1>0, <1>4, <2>1 DEF Writes
  <2>3. \A u \in Tasks : ~(At(u, "putting") /\ op[u].group = g)'
    BY <1>0, <1>1, <1>4, <2>1 DEF At, Writing
  <2>4. \A u \in Tasks : ~(At(u, "putting") /\ op[u].group = g)
    BY <1>0, <1>4, <2>1 DEF At, Writing
  <2>5. acked[g] \subseteq LabelsOf(vs)
    BY <1>2, <1>4, <2>4 DEF AckInv
  <2>6. Kept(t)' \subseteq LabelsOf(op'[t].copy)
    <3>1. /\ op[t].kind \in Versioning => LabelsOf(Changed(t, vs)) = LabelsOf(vs) \cup {LabelFor(t, vs)}
          /\ op[t].kind \notin Versioning => LabelFor(t, vs) = op[t].label
          /\ op[t].kind = "delete" => LabelsOf(Changed(t, vs)) = LabelsOf(vs) \ {op[t].label}
          /\ op[t].kind \in {"tag", "untag", "edit"} => LabelsOf(Changed(t, vs)) = LabelsOf(vs)
      BY <1>0, <1>1, ChangedSound
    <3>2. op[t].kind \in Versioning \cup {"delete", "tag", "untag", "edit"}
      BY <1>0, AtWork DEF Doing, Kinds, Namers, Versioning, Placed
    <3>3. op'[t].kind = op[t].kind /\ op'[t].group = g0 /\ op'[t].label = LabelFor(t, vs) /\ op'[t].copy = Changed(t, vs)
      BY <1>1
    <3>4. Kept(t)' = IF op[t].kind = "delete" THEN acked[g0] \ {LabelFor(t, vs)}
                     ELSE IF op[t].kind \in Versioning THEN acked[g0] \cup {LabelFor(t, vs)} ELSE acked[g0]
      BY <1>0, <3>3 DEF Kept
    <3>5. Kept(t)' \subseteq LabelsOf(Changed(t, vs))
      BY <1>4, <2>5, <3>1, <3>2, <3>4 DEF Versioning
    <3> QED
      BY <3>3, <3>5
  <2>7. acked[g]' \subseteq LabelsOf(Stored(g))'
    <3>1. Stored(g)' = Stored(g)
      BY <1>0 DEF Stored
    <3> QED
      BY <1>0, <1>4, <2>5, <3>1 DEF LabelsOf
  <2> QED
    BY <2>2, <2>3, <2>6, <2>7
<1> QED
  BY <1>3, <1>4

LEMMA AckOpens ==
    ASSUME Registry, AckInv, NEW t \in Tasks, OpensList(t)
    PROVE  AckInv'
<1> DEFINE g0 == op[t].group
<1>a. /\ op[t].pc = "put" /\ op[t] # Idle /\ g0 \in Groups
      /\ UNCHANGED <<storage, acked, raced, faults>> /\ \A u \in Tasks \ {t} : op'[u] = op[u]
      /\ list' = [list EXCEPT ![g0] = Opened(@)]
      /\ op'[t] = [kind |-> op[t].kind, pc |-> "putting", name |-> op[t].name, group |-> op[t].group, label |-> op[t].label,
                     left |-> op[t].left, at |-> op[t].at, then |-> op[t].then, copy |-> op[t].copy]
  BY OpensListTo
<1>0. /\ op[t].pc = "put" /\ op[t] # Idle /\ g0 \in Groups
      /\ UNCHANGED <<storage, acked, raced, faults>> /\ \A u \in Tasks \ {t} : op'[u] = op[u]
      /\ list' = [list EXCEPT ![g0] = Opened(@)]
      /\ op'[t].kind = op[t].kind /\ op'[t].pc = "putting" /\ op'[t].group = g0 /\ op'[t].label = op[t].label /\ op'[t].copy = op[t].copy
  BY <1>a
<1>1. DOMAIN list = Groups
  BY DEF Registry, Types
<1> SUFFICES ASSUME faults = 0, NEW g \in Groups \ raced
             PROVE  /\ \A v, u \in Tasks : Writes(v, g)' /\ Writes(u, g)' => v = u
                    /\ \A v \in Tasks : Writes(v, g)' => Kept(v)' \subseteq LabelsOf(op'[v].copy)
                    /\ \A v \in Tasks : (At(v, "putting") /\ op[v].group = g /\ storage = "local")' => list[g]' = Corrupt
                    /\ acked[g]' \subseteq LabelsOf(Stored(g))' \/ \E v \in Tasks : (At(v, "putting") /\ op[v].group = g)'
  BY <1>0 DEF AckInv, LabelsOf
<1>2. CASE g # g0
  BY <1>0, <1>1, <1>2, AckElsewhere
<1>3. CASE g = g0
  <2>1. \A u \in Tasks : Writes(u, g)' <=> Writes(u, g)
    BY <1>0 DEF Writes, Writing
  <2>2. \A u \in Tasks : Writes(u, g) => Kept(u)' = Kept(u) /\ op'[u].copy = op[u].copy
    BY <1>0 DEF Kept
  <2>3. (At(t, "putting") /\ op[t].group = g)'
    BY <1>0, <1>3 DEF At
  <2>4. storage' = "local" => list'[g] = Corrupt
    BY <1>0, <1>1, <1>3 DEF Opened
  <2>5. /\ \A v, u \in Tasks : Writes(v, g) /\ Writes(u, g) => v = u
        /\ \A v \in Tasks : Writes(v, g) => Kept(v) \subseteq LabelsOf(op[v].copy)
    BY DEF AckInv
  <2> QED
    BY <2>1, <2>2, <2>3, <2>4, <2>5
<1> QED
  BY <1>2, <1>3

LEMMA AckCloses ==
    ASSUME Registry, AckInv, NEW t \in Tasks, ClosesList(t)
    PROVE  AckInv'
<1> DEFINE g0 == op[t].group
<1>0. /\ op[t].pc = "putting" /\ op[t] # Idle /\ g0 \in Groups /\ op'[t] = Idle
      /\ UNCHANGED <<storage, raced, faults>> /\ \A u \in Tasks \ {t} : op'[u] = op[u]
      /\ \E new \in Closed(list[g0], op[t].copy) : list' = [list EXCEPT ![g0] = new]
      /\ acked' = IF op[t].kind \in Versioning THEN [acked EXCEPT ![g0] = @ \cup {op[t].label}]
                  ELSE IF op[t].kind = "delete" THEN [acked EXCEPT ![g0] = @ \ {op[t].label}]
                  ELSE acked
  BY ClosesListTo
<1>1. DOMAIN list = Groups /\ DOMAIN acked = Groups /\ op[t].copy \in Seq(Version)
  BY <1>0, AtWork DEF Registry, Types, Doing
<1>2. PICK new \in Closed(list[g0], op[t].copy) : list' = [list EXCEPT ![g0] = new]
  BY <1>0
<1> SUFFICES ASSUME faults = 0, NEW g \in Groups \ raced
             PROVE  /\ \A v, u \in Tasks : Writes(v, g)' /\ Writes(u, g)' => v = u
                    /\ \A v \in Tasks : Writes(v, g)' => Kept(v)' \subseteq LabelsOf(op'[v].copy)
                    /\ \A v \in Tasks : (At(v, "putting") /\ op[v].group = g /\ storage = "local")' => list[g]' = Corrupt
                    /\ acked[g]' \subseteq LabelsOf(Stored(g))' \/ \E v \in Tasks : (At(v, "putting") /\ op[v].group = g)'
  BY <1>0 DEF AckInv, LabelsOf
<1>3. CASE g # g0
  <2>1. list'[g] = list[g] /\ acked'[g] = acked[g]
    BY <1>0, <1>1, <1>2, <1>3
  <2> QED
    BY <1>0, <1>3, <2>1, AckElsewhere
<1>4. CASE g = g0
  <2>1. Writes(t, g) /\ \A u \in Tasks : Writes(u, g) => u = t
    <3>1. Writes(t, g)
      BY <1>0, <1>4 DEF Writes, Writing
    <3> QED
      BY <3>1 DEF AckInv
  <2>2. \A u \in Tasks : ~Writes(u, g)' /\ ~(At(u, "putting") /\ op[u].group = g)'
    BY <1>0, <2>1 DEF Writes, Writing, At, Idle
  <2>3. new = op[t].copy
    <3>1. storage = "local" => list[g] = Corrupt
      BY <1>0, <1>4 DEF AckInv, At
    <3> QED
      BY <1>4, <3>1 DEF Closed
  <2>4. acked'[g] = Kept(t)
    BY <1>0, <1>1, <1>4 DEF Kept, Versioning
  <2>5. Kept(t) \subseteq LabelsOf(op[t].copy)
    BY <2>1 DEF AckInv
  <2>6. Stored(g)' = op[t].copy
    <3>1. op[t].copy \notin {Missing, Corrupt}
      BY <1>1, AssetVersionsAssumption DEF AssetVersionsAssumption
    <3> QED
      BY <1>1, <1>2, <1>4, <2>3, <3>1 DEF Stored
  <2>7. acked[g]' \subseteq LabelsOf(Stored(g))'
    BY <2>4, <2>5, <2>6 DEF LabelsOf
  <2> QED
    BY <2>2, <2>7
<1> QED
  BY <1>3, <1>4

LEMMA AckStep == Registry /\ AckInv /\ [Next]_vars => AckInv'
<1> SUFFICES ASSUME Registry, AckInv, [Next]_vars PROVE AckInv'
  OBVIOUS
<1> USE DEF Writing, Healing
<1>0. MaxFaults \in Nat /\ faults \in 0 .. MaxFaults
  BY Numbers DEF Registry, Types
<1>1. ASSUME NEW t \in Tasks, Begin(t) PROVE AckInv'
  <2>1. op[t].pc = "idle" /\ UNCHANGED <<storage, list, acked, raced, faults>>
    BY <1>1 DEF Begin, files, Idle
  <2> QED
    BY <1>1, <2>1, BeginKinds, AckFrame
<1>2. ASSUME NEW t \in Tasks, Scans(t) PROVE AckInv'
  <2>1. op[t].pc = "scan" /\ UNCHANGED <<storage, list, acked, raced, faults>> /\ \A u \in Tasks \ {t} : op'[u] = op[u]
    BY <1>2, ScansTo
  <2>2. op'[t].pc = "reserve"
    BY <1>2, Paths
  <2> QED
    BY <2>1, <2>2, AckFrame
<1>3. ASSUME NEW t \in Tasks, Reserves(t) PROVE AckInv'
  <2>1. op[t].pc = "reserve" /\ UNCHANGED <<storage, list, acked, raced, faults>> /\ \A u \in Tasks \ {t} : op'[u] = op[u]
    BY <1>3, ReservesTo
  <2>2. op'[t].pc = "copy" \/ op'[t] = Idle
    BY <1>3, Paths
  <2> QED
    BY <2>1, <2>2, AckFrame DEF Idle
<1>4. ASSUME NEW t \in Tasks, Copies(t) PROVE AckInv'
  <2>1. op[t].pc = "copy" /\ UNCHANGED <<storage, list, acked, raced, faults>> /\ \A u \in Tasks \ {t} : op'[u] = op[u]
    BY <1>4, CopiesTo
  <2>2. op'[t].pc = "find"
    BY <1>4, Paths
  <2> QED
    BY <2>1, <2>2, AckFrame
<1>5. ASSUME NEW t \in Tasks, Looks(t) PROVE AckInv'
  <2>1. op[t].pc \in {"find", "check"} /\ UNCHANGED <<storage, list, acked, raced, faults>> /\ \A u \in Tasks \ {t} : op'[u] = op[u]
    BY <1>5, LooksTo
  <2>2. op'[t].pc \in {"heal", "name", "index", op[t].pc} \/ op'[t] = Idle
    BY <1>5, Paths
  <2> QED
    BY <2>1, <2>2, AckFrame DEF Idle
<1>6. ASSUME NEW t \in Tasks, FindsNone(t) PROVE AckInv'
  <2>1. op[t].pc \in {"find", "check"} /\ UNCHANGED <<storage, list, acked, raced, faults>> /\ \A u \in Tasks \ {t} : op'[u] = op[u]
    BY <1>6, FindsNoneTo
  <2>2. op'[t].pc \in {"find", "name", "index"} \/ op'[t] = Idle
    BY <1>6, Paths
  <2> QED
    BY <2>1, <2>2, AckFrame DEF Idle
<1>7. ASSUME NEW t \in Tasks, ReadsIndex(t) PROVE AckInv'
  <2>1. op[t].pc = "index" /\ UNCHANGED <<storage, list, acked, raced, faults>> /\ \A u \in Tasks \ {t} : op'[u] = op[u]
    BY <1>7, ReadsIndexTo
  <2>2. op'[t].pc \in {"heal", "find", "name", "versions"}
    BY <1>7, Paths
  <2> QED
    BY <2>1, <2>2, AckFrame
<1>8. ASSUME NEW t \in Tasks, OpensIndex(t) PROVE AckInv'
  <2>1. op[t].pc \in {"heal", "name"} /\ UNCHANGED <<storage, list, acked, raced, faults>> /\ \A u \in Tasks \ {t} : op'[u] = op[u]
    BY <1>8, OpensIndexTo
  <2>2. op'[t].pc \in {"healing", "naming"}
    BY <1>8, Paths
  <2> QED
    BY <2>1, <2>2, AckFrame
<1>9. ASSUME NEW t \in Tasks, ClosesIndex(t) PROVE AckInv'
  <2>1. op[t].pc \in {"healing", "naming"} /\ op[t].then \in {"none", "find", "check", "name"}
    BY <1>9, ClosesIndexTo, AtWork DEF Doing
  <2>2. UNCHANGED <<storage, list, acked, raced, faults>> /\ \A u \in Tasks \ {t} : op'[u] = op[u]
    BY <1>9, ClosesIndexTo
  <2>3. op'[t].pc \in {op[t].then, "versions"} \/ op'[t] = Idle
    BY <1>9, Paths
  <2> QED
    BY <2>1, <2>2, <2>3, AckFrame DEF Idle
<1>10. ASSUME NEW t \in Tasks, ReadsVersions(t) PROVE AckInv'
  <2>1. /\ op[t].pc = "versions" /\ op[t] # Idle /\ op[t].group \in Groups
        /\ UNCHANGED <<storage, list, acked, faults>>
        /\ \/ op[t].kind = "drop" /\ Ends(t) /\ UNCHANGED <<raced, collided>>
           \/ op[t].kind # "drop" /\ Updates(t, Stored(op[t].group))
    BY <1>10, ReadsVersionsTo
  <2>2. CASE op[t].kind = "drop"
    <3>1. op'[t].pc = "idle" /\ raced' = raced /\ \A u \in Tasks \ {t} : op'[u] = op[u]
      BY <2>1, <2>2, EndsTo DEF Registry, Idle
    <3> QED
      BY <2>1, <3>1, AckFrame
  <2>3. CASE op[t].kind # "drop" /\ Refused(t, Stored(op[t].group))
    <3>1. Stored(op[t].group) \in Seq(Version) /\ Sound(Stored(op[t].group))
      BY <2>1, StoredSound
    <3>2. op'[t] = Idle /\ raced' = raced /\ \A u \in Tasks \ {t} : op'[u] = op[u]
      BY <2>1, <2>3, <3>1, UpdatesTo
    <3> QED
      BY <2>1, <3>2, AckFrame DEF Idle
  <2>4. CASE op[t].kind # "drop" /\ ~Refused(t, Stored(op[t].group))
    BY <1>10, <2>1, <2>4, AckPuts
  <2> QED
    BY <2>2, <2>3, <2>4
<1>11. ASSUME NEW t \in Tasks, OpensList(t) PROVE AckInv'
  BY <1>11, AckOpens
<1>12. ASSUME NEW t \in Tasks, ClosesList(t) PROVE AckInv'
  BY <1>12, AckCloses
<1>13. ASSUME NEW t \in Tasks, ReadFails(t) PROVE AckInv'
  <2>1. faults' = faults + 1
    BY <1>13, ReadFailsTo
  <2>2. faults' # 0
    BY <1>0, <2>1
  <2> QED
    BY <2>2 DEF AckInv
<1>14. ASSUME NEW t \in Tasks, Dies(t) PROVE AckInv'
  <2>1. faults' = faults + 1
    BY <1>14, DiesTo
  <2>2. faults' # 0
    BY <1>0, <2>1
  <2> QED
    BY <2>2 DEF AckInv
<1>15. CASE UNCHANGED vars
  BY <1>15 DEF vars, files, history, AckInv, Writes, Kept, At, Stored, LabelsOf
<1>16. ASSUME NEW n \in Names, Empties(n) PROVE AckInv'
  BY <1>16 DEF Empties, AckInv, Writes, Kept, At, Stored, LabelsOf
<1> QED
  BY <1>1, <1>2, <1>3, <1>4, <1>5, <1>6, <1>7, <1>8, <1>9, <1>10, <1>11, <1>12, <1>13, <1>14, <1>15, <1>16 DEF Next, Moves

(* A version answered as created stays until it is deleted, as long as no  *)
(* two updates of its list overlap, no read fails and no writer dies       *)
(* (create_version, _read_versions, _write_versions).                      *)
THEOREM AnsweredStay == Spec => []AckedStay
<1>1. AckInv => AckedStay
  BY DEF AckInv, AckedStay
<1> QED
  BY <1>1, AckInit, AckStep, RegistryHolds, PTL DEF Spec
-------------------------------------------------------------------------------
(* Names stay, on an object store: a default is written where there is no  *)
(* index yet, or one operation read the index of a group without a name    *)
(* while another was about to write it.                                    *)

LEMMA FreshInit == Init => FreshInv
<1> SUFFICES ASSUME Init, storage = "object" PROVE FreshInv
  BY DEF FreshInv
<1>1. PICK g \in Groups, n \in Names :
          /\ dirs = {}
          /\ index = [h \in Groups |-> IF h = g THEN n ELSE Missing]
          /\ list = [h \in Groups |-> IF h = g THEN <<[label |-> 1, latest |-> TRUE]>> ELSE Missing]
  BY DEF Init
<1>2. n # Missing /\ n # Corrupt /\ Missing # Corrupt
  BY AssetVersionsAssumption DEF AssetVersionsAssumption
<1>3. \A h \in Groups : index[h] # Corrupt /\ (index[h] = Missing => list[h] = Missing)
  BY <1>1, <1>2
<1>4. \A t \in Tasks : op[t] = Idle
  BY DEF Init
<1> QED
  BY <1>1, <1>3, <1>4 DEF FreshInv, AtIndex

LEMMA FreshListed ==
    ASSUME Registry, FreshInv, storage = "object", faults = 0, NEW g \in Listed PROVE g \in Groups /\ index[g] # Missing
  BY DEF FreshInv, Listed

(* A step that leaves the files alone and brings no task to write an index *)
(* that was not already about to, unless the group has a name.             *)
LEMMA FreshMove ==
    ASSUME Registry, FreshInv, storage = "object", faults = 0, NEW t \in Tasks, \A u \in Tasks \ {t} : op'[u] = op[u],
           UNCHANGED <<storage, dirs, index, list, crowded, faults>>,
           op'[t] = Idle \/
              /\ Fresh(op'[t])
              /\ \/ op'[t].pc \notin {"find", "heal", "healing", "name", "naming"}
                 \/ op'[t].group \notin Groups
                 \/ AtIndex(t, op'[t].group)
    PROVE  FreshInv'
<1>1. \A u \in Tasks : op'[u] # Idle => Fresh(op[u])'
  <2> SUFFICES ASSUME NEW u \in Tasks, op'[u] # Idle PROVE Fresh(op[u])'
    OBVIOUS
  <2>1. CASE u = t
    BY <2>1 DEF Fresh
  <2>2. CASE u # t
    <3>1. op'[u] = op[u] /\ Fresh(op[u])
      BY <2>2 DEF FreshInv
    <3> QED
      BY <3>1 DEF Fresh
  <2> QED
    BY <2>1, <2>2
<1>2. \A g \in Groups, u \in Tasks : AtIndex(u, g)' => AtIndex(u, g)
  <2> SUFFICES ASSUME NEW g \in Groups, NEW u \in Tasks, AtIndex(u, g)' PROVE AtIndex(u, g)
    OBVIOUS
  <2>1. CASE u = t
    BY <2>1 DEF AtIndex
  <2>2. CASE u # t
    BY <2>2 DEF AtIndex
  <2> QED
    BY <2>1, <2>2
<1>3. \A g \in Groups \ crowded, v, u \in Tasks : index[g] \notin Names /\ AtIndex(v, g) /\ AtIndex(u, g) => v = u
  BY DEF FreshInv
<1>4. \A g \in Groups \ crowded', v, u \in Tasks : index'[g] \notin Names /\ AtIndex(v, g)' /\ AtIndex(u, g)' => v = u
  BY <1>2, <1>3
<1>5. \A g \in Groups : index'[g] # Corrupt /\ (index'[g] = Missing => list'[g] = Missing)
  BY DEF FreshInv
<1>6. dirs' = {}
  BY DEF FreshInv
<1> QED
  BY <1>1, <1>4, <1>5, <1>6 DEF FreshInv

LEMMA FreshLooks ==
    ASSUME Registry, FreshInv, storage = "object", faults = 0, NEW t \in Tasks, Looks(t)
    PROVE  FreshInv'
<1>0. /\ op[t].pc \in {"find", "check"} /\ op[t] # Idle
      /\ \A u \in Tasks \ {t} : op'[u] = op[u]
      /\ UNCHANGED <<storage, dirs, index, list, crowded, faults>>
  BY LooksTo
<1>1. op[t] \in Doing /\ Placed(op[t]) /\ Fresh(op[t])
  BY <1>0, AtWork DEF FreshInv
<1>2. PICK g \in op[t].left :
          \/ Defaulted(g)
          \/ op'[t] = Idle
          \/ /\ ~Defaulted(g) /\ op[t].kind \in Looking \ {"list"} /\ (op[t].kind = "rename" => g = op[t].group) /\ op[t].pc = "find"
             /\ op'[t] = [kind |-> op[t].kind, pc |-> IF op[t].kind = "rename" THEN "name" ELSE "index", name |-> op[t].name, group |-> g,
                            label |-> op[t].label, left |-> {}, at |-> g, then |-> op[t].then, copy |-> op[t].copy]
          \/ /\ ~Defaulted(g)
             /\ op'[t] = [kind |-> op[t].kind, pc |-> op[t].pc, name |-> op[t].name, group |-> op[t].group, label |-> op[t].label,
                            left |-> op[t].left \ {g}, at |-> op[t].at, then |-> op[t].then, copy |-> op[t].copy]
  BY LooksTo
<1>3. g \in Groups /\ index[g] # Missing
  BY <1>1 DEF Fresh, Doing
<1>4. ~Defaulted(g)
  <2>1. index[g] \in Names \cup {Itself, Missing, Corrupt} /\ index[g] # Corrupt
    BY <1>3 DEF Registry, Types, FreshInv
  <2> QED
    BY <1>3, <2>1 DEF Defaulted, Readable
<1>5. CASE op'[t] = Idle
  BY <1>0, <1>5, FreshMove
<1>6. CASE /\ (op[t].kind = "rename" => g = op[t].group) /\ op[t].pc = "find" /\ op[t].kind \in Looking \ {"list"}
           /\ op'[t] = [kind |-> op[t].kind, pc |-> IF op[t].kind = "rename" THEN "name" ELSE "index", name |-> op[t].name, group |-> g,
                       label |-> op[t].label, left |-> {}, at |-> g, then |-> op[t].then, copy |-> op[t].copy]
  <2>1. op'[t].group = g /\ op'[t].left = {} /\ op'[t].pc \in {"name", "index"} /\ op'[t].name = op[t].name
    BY <1>6
  <2>2. op[t].name \in Names /\ Itself \notin Names
    BY <1>1, <1>6, AssetVersionsAssumption DEF Placed, Looking, Versioning, AssetVersionsAssumption
  <2>3. Fresh(op'[t])
    BY <1>3, <2>1, <2>2 DEF Fresh, Healing
  <2>4. op'[t].pc = "index" \/ AtIndex(t, g)
    BY <1>0, <1>6 DEF AtIndex
  <2> QED
    BY <1>0, <2>1, <2>3, <2>4, FreshMove
<1>7. CASE op'[t] = [kind |-> op[t].kind, pc |-> op[t].pc, name |-> op[t].name, group |-> op[t].group, label |-> op[t].label,
                       left |-> op[t].left \ {g}, at |-> op[t].at, then |-> op[t].then, copy |-> op[t].copy]
  <2>1. op'[t].group = op[t].group /\ op'[t].left \subseteq op[t].left /\ op'[t].pc = op[t].pc /\ op'[t].kind = op[t].kind
    BY <1>7
  <2>2. Fresh(op'[t])
    BY <1>0, <1>1, <2>1 DEF Fresh, Healing
  <2>3. op'[t].pc = "check" \/ AtIndex(t, op'[t].group)
    BY <1>0, <2>1 DEF AtIndex
  <2> QED
    BY <1>0, <2>1, <2>2, <2>3, FreshMove
<1> QED
  BY <1>2, <1>4, <1>5, <1>6, <1>7

LEMMA FreshFindsNone ==
    ASSUME Registry, FreshInv, storage = "object", faults = 0, NEW t \in Tasks, FindsNone(t)
    PROVE  FreshInv'
<1>0. /\ op[t].pc \in {"find", "check"} /\ op[t] # Idle /\ op[t].left = {}
      /\ \A u \in Tasks \ {t} : op'[u] = op[u]
      /\ UNCHANGED <<storage, dirs, index, list, crowded, faults>>
      /\ \/ /\ op[t].pc = "check"
            /\ op'[t] = [kind |-> op[t].kind, pc |-> "find", name |-> op[t].name, group |-> op[t].group, label |-> op[t].label,
                        left |-> Listed, at |-> op[t].at, then |-> op[t].then, copy |-> op[t].copy]
         \/ op'[t] = Idle
         \/ /\ op[t].pc = "find" /\ op[t].kind = "rename"
            /\ op'[t] = [kind |-> op[t].kind, pc |-> "name", name |-> op[t].name, group |-> op[t].group, label |-> op[t].label,
                           left |-> op[t].left, at |-> op[t].group, then |-> op[t].then, copy |-> op[t].copy]
         \/ /\ op[t].kind \in {"save", "create", "register"}
            /\ \E g \in Groups \ (Listed \cup Claimed) :
                   op'[t] = [kind |-> op[t].kind, pc |-> "index", name |-> op[t].name, group |-> g, label |-> op[t].label,
                              left |-> op[t].left, at |-> g, then |-> op[t].then, copy |-> op[t].copy]
  BY FindsNoneTo
<1>1. op[t] \in Doing /\ Placed(op[t]) /\ Fresh(op[t]) /\ Missing \notin Groups /\ Itself \notin Names
  BY <1>0, AtWork, AssetVersionsAssumption DEF FreshInv, AssetVersionsAssumption
<1>2. CASE /\ op[t].pc = "check"
           /\ op'[t] = [kind |-> op[t].kind, pc |-> "find", name |-> op[t].name, group |-> op[t].group, label |-> op[t].label,
                       left |-> Listed, at |-> op[t].at, then |-> op[t].then, copy |-> op[t].copy]
  <2>1. op'[t].group = op[t].group /\ op'[t].left = Listed /\ op'[t].pc = "find" /\ op'[t].kind = op[t].kind
    BY <1>2
  <2>2. Fresh(op'[t])
    BY <1>1, <2>1, FreshListed DEF Fresh, Healing, Writing
  <2>3. op'[t].group \notin Groups
    BY <1>1, <1>2, <2>1 DEF Fresh
  <2> QED
    BY <1>0, <2>2, <2>3, FreshMove
<1>3. CASE op'[t] = Idle
  BY <1>0, <1>3, FreshMove
<1>4. CASE /\ op[t].pc = "find" /\ op[t].kind = "rename"
           /\ op'[t] = [kind |-> op[t].kind, pc |-> "name", name |-> op[t].name, group |-> op[t].group, label |-> op[t].label,
                          left |-> op[t].left, at |-> op[t].group, then |-> op[t].then, copy |-> op[t].copy]
  <2>1. op'[t].group = op[t].group /\ op'[t].left = {} /\ op'[t].pc = "name" /\ op'[t].kind = op[t].kind /\ op'[t].name = op[t].name
    BY <1>0, <1>4
  <2>2. op[t].name \in Names
    BY <1>1, <1>4 DEF Placed
  <2>3. Fresh(op'[t])
    BY <1>1, <1>4, <2>1, <2>2 DEF Fresh, Healing
  <2>4. AtIndex(t, op'[t].group)
    BY <1>0, <1>4, <2>1 DEF AtIndex
  <2> QED
    BY <1>0, <2>3, <2>4, FreshMove
<1>5. ASSUME op[t].kind \in {"save", "create", "register"}, NEW g \in Groups \ (Listed \cup Claimed),
             op'[t] = [kind |-> op[t].kind, pc |-> "index", name |-> op[t].name, group |-> g, label |-> op[t].label,
                         left |-> op[t].left, at |-> g, then |-> op[t].then, copy |-> op[t].copy]
      PROVE  FreshInv'
  <2>1. op'[t].group = g /\ op'[t].left = {} /\ op'[t].pc = "index" /\ op'[t].kind = op[t].kind /\ op[t].kind \notin {"rename", "describe"}
    BY <1>0, <1>5
  <2>2. Fresh(op'[t])
    BY <2>1 DEF Fresh, Healing, Writing
  <2> QED
    BY <1>0, <2>1, <2>2, FreshMove
<1> QED
  BY <1>0, <1>2, <1>3, <1>4, <1>5

LEMMA FreshReadsIndex ==
    ASSUME Registry, FreshInv, storage = "object", faults = 0, NEW t \in Tasks, ReadsIndex(t)
    PROVE  FreshInv'
<1> DEFINE g == op[t].group
<1>0. /\ op[t].pc = "index" /\ op[t] # Idle /\ g \in Groups /\ op[t].kind \in Naming
      /\ \A u \in Tasks \ {t} : op'[u] = op[u]
      /\ UNCHANGED <<storage, index, list, faults>>
      /\ dirs' = IF storage = "local" THEN dirs \cup {g} ELSE dirs
      /\ crowded' = IF index[g] \notin Names /\ \E u \in Tasks \ {t} : AtIndex(u, g) THEN crowded \cup {g} ELSE crowded
      /\ \/ /\ Defaulted(g)
            /\ op'[t] = [kind |-> op[t].kind, pc |-> "heal", name |-> NameFor(t, Itself), group |-> op[t].group, label |-> op[t].label,
                           left |-> Listed, at |-> op[t].at, then |-> AfterIndex(t), copy |-> op[t].copy]
         \/ /\ ~Defaulted(g) /\ op[t].kind = "rename"
            /\ op'[t] = [kind |-> op[t].kind, pc |-> "find", name |-> op[t].name, group |-> op[t].group, label |-> op[t].label,
                           left |-> Listed, at |-> op[t].at, then |-> op[t].then, copy |-> op[t].copy]
         \/ /\ ~Defaulted(g) /\ op[t].kind = "describe"
            /\ op'[t] = [kind |-> op[t].kind, pc |-> "name", name |-> index[g], group |-> op[t].group, label |-> op[t].label,
                           left |-> op[t].left, at |-> op[t].at, then |-> op[t].then, copy |-> op[t].copy]
         \/ /\ ~Defaulted(g) /\ op[t].kind \in Versioning
            /\ op'[t] = [kind |-> op[t].kind, pc |-> IF index[g] = Itself THEN "name" ELSE "versions", name |-> op[t].name,
                           group |-> op[t].group, label |-> op[t].label,
                           left |-> op[t].left, at |-> op[t].at, then |-> op[t].then, copy |-> op[t].copy]
  BY ReadsIndexTo
<1>1. op[t] \in Doing /\ op[t].at = g /\ Fresh(op[t]) /\ Placed(op[t])
  BY <1>0, AtWork DEF FreshInv, Placed
<1>2. index[g] # Corrupt /\ index[g] \in Names \cup {Itself, Missing, Corrupt} /\ Itself \notin Names /\ Missing \notin Names /\ Itself # Missing
  BY <1>0, AssetVersionsAssumption DEF FreshInv, Registry, Types, AssetVersionsAssumption
<1>3. op[t].kind \in {"rename", "describe"} => index[g] # Missing
  BY <1>1 DEF Fresh
<1>4. Defaulted(g) <=> index[g] = Missing
  BY <1>2 DEF Defaulted, Readable
<1>5. crowded \subseteq crowded' /\ dirs' = {}
  BY <1>0 DEF FreshInv
<1>6. /\ op'[t].group = g /\ op'[t].left \in {Listed, op[t].left}
      /\ \/ /\ index[g] = Missing /\ op'[t].pc = "heal" /\ op'[t].at = g /\ op'[t].then = "name" /\ op'[t].kind \notin {"rename", "describe"}
         \/ /\ index[g] # Missing /\ op'[t].pc \in {"find", "name", "versions"}
            /\ op'[t].pc = "name" /\ op'[t].name = Itself => index[g] = Itself
  <2>1. CASE /\ Defaulted(g)
             /\ op'[t] = [kind |-> op[t].kind, pc |-> "heal", name |-> NameFor(t, Itself), group |-> op[t].group, label |-> op[t].label,
                            left |-> Listed, at |-> op[t].at, then |-> AfterIndex(t), copy |-> op[t].copy]
    BY <1>1, <1>3, <1>4, <2>1 DEF AfterIndex
  <2>2. CASE /\ ~Defaulted(g) /\ op[t].kind = "rename"
             /\ op'[t] = [kind |-> op[t].kind, pc |-> "find", name |-> op[t].name, group |-> op[t].group, label |-> op[t].label,
                            left |-> Listed, at |-> op[t].at, then |-> op[t].then, copy |-> op[t].copy]
    BY <1>4, <2>2
  <2>3. CASE /\ ~Defaulted(g) /\ op[t].kind = "describe"
             /\ op'[t] = [kind |-> op[t].kind, pc |-> "name", name |-> index[g], group |-> op[t].group, label |-> op[t].label,
                            left |-> op[t].left, at |-> op[t].at, then |-> op[t].then, copy |-> op[t].copy]
    BY <1>4, <2>3
  <2>4. CASE /\ ~Defaulted(g) /\ op[t].kind \in Versioning
             /\ op'[t] = [kind |-> op[t].kind, pc |-> IF index[g] = Itself THEN "name" ELSE "versions", name |-> op[t].name,
                            group |-> op[t].group, label |-> op[t].label,
                            left |-> op[t].left, at |-> op[t].at, then |-> op[t].then, copy |-> op[t].copy]
    BY <1>4, <2>4
  <2> QED
    BY <1>0, <2>1, <2>2, <2>3, <2>4
<1>7. \A h \in op'[t].left : index[h] # Missing
  BY <1>1, <1>6, FreshListed DEF Fresh
<1>8. \A u \in Tasks : op'[u] # Idle => Fresh(op[u])'
  <2>1. ASSUME NEW u \in Tasks \ {t}, op'[u] # Idle PROVE Fresh(op[u])'
    <3>1. op'[u] = op[u] /\ Fresh(op[u]) /\ index' = index
      BY <1>0, <2>1 DEF FreshInv
    <3> QED
      BY <1>5, <3>1 DEF Fresh
  <2>2. Fresh(op[t])'
    BY <1>0, <1>6, <1>7 DEF Fresh, Healing, Writing
  <2> QED
    BY <2>1, <2>2
<1>9. ASSUME NEW h \in Groups \ crowded', NEW v \in Tasks, NEW u \in Tasks, index'[h] \notin Names, AtIndex(v, h)', AtIndex(u, h)'
      PROVE  v = u
  <2>1. CASE h = g
    <3>1. ASSUME NEW w \in Tasks \ {t} PROVE ~AtIndex(w, h)'
      <4>1. ~AtIndex(w, h)
        BY <1>0, <1>9, <2>1
      <4> QED
        BY <1>0, <4>1 DEF AtIndex
    <3> QED
      BY <1>9, <2>1, <3>1
  <2>2. CASE h # g
    <3>1. v # t /\ u # t
      BY <1>6, <1>9, <2>2 DEF AtIndex
    <3>2. AtIndex(v, h) /\ AtIndex(u, h) /\ h \notin crowded /\ index[h] \notin Names
      BY <1>0, <1>5, <1>9, <3>1 DEF AtIndex
    <3> QED
      BY <3>2 DEF FreshInv
  <2> QED
    BY <2>1, <2>2
<1>10. \A h \in Groups : index'[h] # Corrupt /\ (index'[h] = Missing => list'[h] = Missing)
  BY <1>0 DEF FreshInv
<1> QED
  BY <1>5, <1>8, <1>9, <1>10 DEF FreshInv

LEMMA FreshOpensIndex ==
    ASSUME Registry, FreshInv, storage = "object", faults = 0, NEW t \in Tasks, OpensIndex(t)
    PROVE  FreshInv'
<1>0. /\ op[t].pc \in {"heal", "name"} /\ op[t] # Idle /\ op[t].at \in Groups
      /\ \A u \in Tasks \ {t} : op'[u] = op[u]
      /\ UNCHANGED <<storage, dirs, list, crowded, faults>> /\ index' = [index EXCEPT ![op[t].at] = Opened(@)]
      /\ op'[t] = [kind |-> op[t].kind, pc |-> IF op[t].pc = "heal" THEN "healing" ELSE "naming", name |-> op[t].name, group |-> op[t].group,
                     label |-> op[t].label, left |-> op[t].left, at |-> op[t].at, then |-> op[t].then, copy |-> op[t].copy]
  BY OpensIndexTo
<1>1. Fresh(op[t])
  BY <1>0 DEF FreshInv
<1>2. index' = index
  BY <1>0 DEF Opened, Registry, Types
<1>3. /\ op'[t].group = op[t].group /\ op'[t].left = op[t].left /\ op'[t].at = op[t].at /\ op'[t].kind = op[t].kind
      /\ op'[t].pc = (IF op[t].pc = "heal" THEN "healing" ELSE "naming") /\ op'[t].name = op[t].name /\ op'[t].then = op[t].then
  BY <1>0
<1>4. Fresh(op'[t])
  BY <1>0, <1>1, <1>3 DEF Fresh, Healing, Writing
<1>5. AtIndex(t, op'[t].group)
  BY <1>0, <1>3 DEF AtIndex
<1> QED
  BY <1>0, <1>2, <1>4, <1>5, FreshMove

(* The writer is the only one about to write that index, or the group is   *)
(* crowded.                                                                *)
LEMMA FreshWrite ==
    ASSUME Registry, FreshInv, storage = "object", faults = 0, NEW t \in Tasks, ClosesIndex(t)
    PROVE  /\ op[t] # Idle /\ op[t].at = op[t].group /\ op[t].group \in Groups /\ AtIndex(t, op[t].group)
           /\ \A u \in Tasks \ {t} : op'[u] = op[u]
           /\ UNCHANGED <<storage, dirs, list, crowded, faults>>
           /\ index' = [index EXCEPT ![op[t].group] = IF op[t].pc = "healing" THEN Itself ELSE op[t].name]
           /\ (IF op[t].pc = "healing" THEN Itself ELSE op[t].name) \in Names \cup {Itself}
           /\ op[t].group \notin crowded /\ index'[op[t].group] \notin Names => index[op[t].group] \notin Names
           /\ \/ op[t].pc = "naming" /\ op'[t] = Idle
              \/ /\ op'[t].group = op[t].group /\ op'[t].left = op[t].left /\ op'[t].kind = op[t].kind /\ op'[t].name = op[t].name
                 /\ (op[t].pc = "healing" /\ op'[t].pc = "name") \/ op'[t].pc = "versions"
<1>0. /\ op[t].pc \in {"healing", "naming"} /\ op[t] # Idle /\ op[t].at \in Groups
      /\ \A u \in Tasks \ {t} : op'[u] = op[u]
      /\ UNCHANGED <<storage, dirs, list, crowded, faults>>
      /\ op[t].pc = "naming" => op[t].at = op[t].group /\ op[t].name \in Names \cup {Itself}
      /\ \/ /\ op[t].pc = "healing"
            /\ op'[t] = [kind |-> op[t].kind, pc |-> op[t].then, name |-> op[t].name, group |-> op[t].group, label |-> op[t].label,
                           left |-> op[t].left, at |-> op[t].group, then |-> "none", copy |-> op[t].copy]
         \/ op[t].pc = "naming" /\ op'[t] = Idle
         \/ /\ op[t].pc = "naming"
            /\ op'[t] = [kind |-> op[t].kind, pc |-> "versions", name |-> op[t].name, group |-> op[t].group, label |-> op[t].label,
                           left |-> op[t].left, at |-> op[t].at, then |-> op[t].then, copy |-> op[t].copy]
  BY ClosesIndexTo
<1>1. PICK new \in Closed(index[op[t].at], IF op[t].pc = "healing" THEN Itself ELSE op[t].name) : index' = [index EXCEPT ![op[t].at] = new]
  BY ClosesIndexTo
<1>2. new = IF op[t].pc = "healing" THEN Itself ELSE op[t].name
  BY DEF Closed
<1>3. Fresh(op[t]) /\ op[t].at = op[t].group /\ (op[t].pc = "healing" => op[t].then = "name")
  BY <1>0 DEF FreshInv, Fresh, Healing
<1>4. AtIndex(t, op[t].group)
  BY <1>0 DEF AtIndex
<1>5. DOMAIN index = Groups /\ Itself \notin Names /\ Missing \notin Names
  BY AssetVersionsAssumption DEF Registry, Types, AssetVersionsAssumption
<1>6. op[t].group \notin crowded /\ index'[op[t].group] \notin Names => index[op[t].group] \notin Names
  <2>1. CASE op[t].pc = "healing"
    BY <1>3, <1>5, <2>1 DEF Fresh, Healing
  <2>2. CASE op[t].pc = "naming"
    <3>1. index'[op[t].group] = op[t].name
      BY <1>0, <1>1, <1>2, <1>3, <1>5, <2>2
    <3> QED
      BY <1>0, <1>3, <1>5, <2>2, <3>1 DEF Fresh
  <2> QED
    BY <1>0, <2>1, <2>2
<1>7. \/ op[t].pc = "naming" /\ op'[t] = Idle
      \/ /\ op'[t].group = op[t].group /\ op'[t].left = op[t].left /\ op'[t].kind = op[t].kind /\ op'[t].name = op[t].name
         /\ (op[t].pc = "healing" /\ op'[t].pc = "name") \/ op'[t].pc = "versions"
  BY <1>0, <1>3
<1> QED
  BY <1>0, <1>1, <1>2, <1>3, <1>4, <1>6, <1>7

LEMMA FreshClosesIndex ==
    ASSUME Registry, FreshInv, storage = "object", faults = 0, NEW t \in Tasks, ClosesIndex(t)
    PROVE  FreshInv'
<1> DEFINE g == op[t].group
           new == IF op[t].pc = "healing" THEN Itself ELSE op[t].name
<1>0. /\ op[t] # Idle /\ op[t].at = g /\ g \in Groups /\ AtIndex(t, g)
      /\ \A u \in Tasks \ {t} : op'[u] = op[u]
      /\ UNCHANGED <<storage, dirs, list, crowded, faults>>
      /\ index' = [index EXCEPT ![g] = new]
      /\ new \in Names \cup {Itself}
      /\ g \notin crowded /\ index'[g] \notin Names => index[g] \notin Names
      /\ \/ op[t].pc = "naming" /\ op'[t] = Idle
         \/ /\ op'[t].group = g /\ op'[t].left = op[t].left /\ op'[t].kind = op[t].kind /\ op'[t].name = op[t].name
            /\ (op[t].pc = "healing" /\ op'[t].pc = "name") \/ op'[t].pc = "versions"
  BY FreshWrite
<1>1. DOMAIN index = Groups /\ new # Missing /\ new # Corrupt /\ Missing \notin Names
  BY <1>0, AssetVersionsAssumption DEF Registry, Types, AssetVersionsAssumption
<1>2. index'[g] = new /\ \A h \in Groups : h # g => index'[h] = index[h]
  BY <1>0, <1>1
<1>3. \A h \in Groups : index[h] # Missing => index'[h] # Missing
  BY <1>1, <1>2
<1>4. \A h \in Groups : index'[h] # Corrupt /\ (index'[h] = Missing => list'[h] = Missing)
  BY <1>0, <1>1, <1>2 DEF FreshInv
<1>5. ASSUME NEW u \in Tasks \ {t}, AtIndex(u, g), g \notin crowded PROVE index[g] \in Names
  BY <1>0, <1>5 DEF FreshInv
<1>6. \A u \in Tasks : op'[u] # Idle => Fresh(op[u])'
  <2>1. ASSUME NEW u \in Tasks \ {t}, op'[u] # Idle PROVE Fresh(op[u])'
    <3>1. op'[u] = op[u] /\ op[u] # Idle /\ Fresh(op[u]) /\ op[u] \in Doing /\ Placed(op[u])
      BY <1>0, <2>1, AtWork DEF FreshInv
    <3>2. \A h \in op[u].left : index'[h] # Missing
      BY <1>3, <3>1 DEF Fresh, Doing
    <3>3. op[u].pc \in Healing => /\ op[u].at = op[u].group /\ op[u].then = "name"
                                  /\ op[u].at \in crowded \/ index'[op[u].at] = Missing
      <4> SUFFICES ASSUME op[u].pc \in Healing, op[u].at \notin crowded PROVE index'[op[u].at] = Missing
        BY <3>1 DEF Fresh
      <4>1. op[u].at \in Groups /\ op[u].at = op[u].group /\ index[op[u].at] = Missing
        BY <3>1 DEF Fresh, Placed
      <4>2. AtIndex(u, op[u].at)
        BY <3>1, <4>1 DEF AtIndex, Healing
      <4>3. op[u].at # g
        BY <1>1, <1>5, <4>1, <4>2
      <4> QED
        BY <1>2, <4>1, <4>3
    <3>4. op[u].kind \in {"rename", "describe"} \/ op[u].pc \in {"name", "naming", "versions"} \cup Writing => index'[op[u].group] # Missing
      BY <1>3, <3>1 DEF Fresh, Placed, Searches
    <3>5. op[u].pc \in {"name", "naming"} /\ op[u].name = Itself => op[u].group \in crowded \/ index'[op[u].group] = Itself
      <4> SUFFICES ASSUME op[u].pc \in {"name", "naming"}, op[u].name = Itself, op[u].group \notin crowded PROVE index'[op[u].group] = Itself
        OBVIOUS
      <4>1. op[u].group \in Groups /\ index[op[u].group] = Itself
        BY <3>1 DEF Fresh, Placed, Searches
      <4>2. AtIndex(u, op[u].group)
        BY <3>1 DEF AtIndex
      <4>3. op[u].group # g
        BY <1>5, <4>1, <4>2, AssetVersionsAssumption DEF AssetVersionsAssumption
      <4> QED
        BY <1>2, <4>1, <4>3
    <3>6. op[u].pc \in {"scan", "reserve", "copy", "check"} => op[u].group = Missing
      BY <3>1 DEF Fresh
    <3> QED
      BY <1>0, <3>1, <3>2, <3>3, <3>4, <3>5, <3>6 DEF Fresh
  <2>2. ASSUME op'[t] # Idle PROVE Fresh(op[t])'
    <3>1. Fresh(op[t]) /\ op[t].left \subseteq Groups
      BY <1>0, AtWork DEF FreshInv, Doing
    <3>2. op'[t].group = g /\ op'[t].left = op[t].left /\ ((op[t].pc = "healing" /\ op'[t].pc = "name") \/ op'[t].pc = "versions")
      BY <1>0, <2>2
    <3>3. \A h \in op'[t].left : index'[h] # Missing
      BY <1>3, <3>1, <3>2 DEF Fresh
    <3> QED
      BY <1>1, <1>2, <3>2, <3>3 DEF Fresh, Healing
  <2> QED
    BY <2>1, <2>2
<1>7. ASSUME NEW h \in Groups \ crowded', NEW v \in Tasks, NEW u \in Tasks, index'[h] \notin Names, AtIndex(v, h)', AtIndex(u, h)'
      PROVE  v = u
  <2>1. ASSUME NEW w \in Tasks, AtIndex(w, h)' PROVE AtIndex(w, h)
    <3>1. CASE w = t
      BY <1>0, <2>1, <3>1 DEF AtIndex
    <3>2. CASE w # t
      BY <1>0, <2>1, <3>2 DEF AtIndex
    <3> QED
      BY <3>1, <3>2
  <2>2. index[h] \notin Names /\ h \notin crowded
    BY <1>0, <1>2, <1>7
  <2> QED
    BY <1>7, <2>1, <2>2 DEF FreshInv
<1> QED
  BY <1>0, <1>4, <1>6, <1>7 DEF FreshInv

LEMMA FreshReadsVersions ==
    ASSUME Registry, FreshInv, storage = "object", faults = 0, NEW t \in Tasks, ReadsVersions(t)
    PROVE  FreshInv'
<1>0. /\ op[t].pc = "versions" /\ op[t] # Idle /\ op[t].group \in Groups
      /\ UNCHANGED <<storage, dirs, index, list, crowded, faults>>
      /\ \/ op[t].kind = "drop" /\ Ends(t)
         \/ op[t].kind # "drop" /\ Updates(t, Stored(op[t].group))
  BY ReadsVersionsTo
<1>1. Fresh(op[t]) /\ Types
  BY <1>0 DEF FreshInv, Registry
<1>2. CASE op[t].kind = "drop" /\ Ends(t)
  <2>1. op'[t] = Idle /\ \A u \in Tasks \ {t} : op'[u] = op[u]
    BY <1>1, <1>2, EndsTo
  <2> QED
    BY <1>0, <2>1, FreshMove
<1>3. CASE op[t].kind # "drop" /\ Updates(t, Stored(op[t].group))
  <2>1. Stored(op[t].group) \in Seq(Version) /\ Sound(Stored(op[t].group))
    BY <1>0, StoredSound
  <2>2. /\ \A u \in Tasks \ {t} : op'[u] = op[u]
        /\ \/ op'[t] = Idle
           \/ op'[t] = [kind |-> op[t].kind, pc |-> "put", name |-> op[t].name, group |-> op[t].group, label |-> LabelFor(t, Stored(op[t].group)),
                          left |-> op[t].left, at |-> op[t].at, then |-> op[t].then, copy |-> Changed(t, Stored(op[t].group))]
    BY <1>0, <1>3, <2>1, UpdatesTo
  <2>3. CASE op'[t] = Idle
    BY <1>0, <2>2, <2>3, FreshMove
  <2>4. CASE op'[t] # Idle
    <3>1. op'[t].group = op[t].group /\ op'[t].left = op[t].left /\ op'[t].pc = "put" /\ op'[t].kind = op[t].kind
      BY <2>2, <2>4
    <3>2. Fresh(op'[t])
      BY <1>0, <1>1, <3>1 DEF Fresh, Healing, Writing
    <3> QED
      BY <1>0, <2>2, <3>1, <3>2, FreshMove
  <2> QED
    BY <2>3, <2>4
<1> QED
  BY <1>0, <1>2, <1>3

LEMMA FreshClosesList ==
    ASSUME Registry, FreshInv, storage = "object", faults = 0, NEW t \in Tasks, ClosesList(t)
    PROVE  FreshInv'
<1>0. /\ op[t].pc = "putting" /\ op[t] # Idle /\ op[t].group \in Groups
      /\ op'[t] = Idle /\ \A u \in Tasks \ {t} : op'[u] = op[u]
      /\ \E new \in Closed(list[op[t].group], op[t].copy) : list' = [list EXCEPT ![op[t].group] = new]
      /\ UNCHANGED <<storage, dirs, index, crowded, faults>>
  BY ClosesListTo
<1>1. index[op[t].group] # Missing
  BY <1>0 DEF FreshInv, Fresh, Writing
<1>2. \A g \in Groups : index'[g] # Corrupt /\ (index'[g] = Missing => list'[g] = Missing)
  BY <1>0, <1>1 DEF FreshInv, Registry, Types
<1>3. \A u \in Tasks : op'[u] # Idle => op'[u] = op[u]
  BY <1>0
<1>4. \A u \in Tasks : op'[u] # Idle => Fresh(op[u])'
  BY <1>0, <1>3 DEF FreshInv, Fresh
<1>5. \A g \in Groups, u \in Tasks : AtIndex(u, g)' => AtIndex(u, g)
  BY <1>3 DEF AtIndex
<1>6. \A g \in Groups \ crowded', v, u \in Tasks : index'[g] \notin Names /\ AtIndex(v, g)' /\ AtIndex(u, g)' => v = u
  BY <1>0, <1>5 DEF FreshInv
<1> QED
  BY <1>0, <1>2, <1>4, <1>6 DEF FreshInv

LEMMA FreshStep == Registry /\ FreshInv /\ [Next]_vars => FreshInv'
<1> SUFFICES ASSUME Registry, FreshInv, [Next]_vars, storage' = "object", faults' = 0 PROVE FreshInv'
  BY DEF FreshInv
<1>0. MaxFaults \in Nat /\ faults \in 0 .. MaxFaults
  BY Numbers DEF Registry, Types
<1>1. ASSUME NEW t \in Tasks, Begin(t) PROVE FreshInv'
  <2>0. storage = "object" /\ faults = 0 /\ UNCHANGED <<storage, dirs, index, list, crowded, faults>>
    BY <1>1 DEF Begin, files
  <2>1. /\ op'[t] \in Doing /\ Placed(op'[t]) /\ op'[t].left \subseteq Listed /\ \A u \in Tasks \ {t} : op'[u] = op[u]
        /\ \/ op'[t].group = Missing /\ op'[t].pc \in {"scan", "find", "check"} /\ op'[t].kind \notin {"rename", "describe"}
           \/ op'[t].kind \in {"rename", "describe"} /\ op'[t].pc = "index" /\ index[op'[t].group] # Missing
           \/ op'[t].kind = "into" /\ op'[t].pc = "index"
           \/ op'[t].kind \notin {"rename", "describe"} /\ op'[t].pc = "versions" /\ op'[t].group \in Listed
    BY <1>1, BeginKinds
  <2>2. \A g \in Listed : index[g] # Missing
    BY <2>0, FreshListed
  <2>3. Missing \notin Groups
    BY AssetVersionsAssumption DEF AssetVersionsAssumption
  <2>4. Fresh(op'[t])
    BY <2>1, <2>2 DEF Fresh, Healing, Writing
  <2> QED
    BY <2>0, <2>1, <2>2, <2>3, <2>4, FreshMove
<1>2. ASSUME NEW t \in Tasks, Scans(t) PROVE FreshInv'
  <2>1. /\ op[t].pc = "scan" /\ op[t] # Idle /\ \A u \in Tasks \ {t} : op'[u] = op[u]
        /\ op'[t] = [kind |-> op[t].kind, pc |-> "reserve", name |-> op[t].name, group |-> op[t].group, label |-> NextFolder(op[t].name),
                       left |-> op[t].left, at |-> op[t].at, then |-> op[t].then, copy |-> op[t].copy]
        /\ UNCHANGED <<storage, dirs, index, list, crowded, faults>>
    BY <1>2, ScansTo
  <2>2. op'[t].kind = op[t].kind /\ op'[t].pc = "reserve" /\ op'[t].group = op[t].group /\ op'[t].left = op[t].left
    BY <2>1
  <2>3. Fresh(op[t])
    BY <2>1 DEF FreshInv
  <2>4. Fresh(op'[t])
    BY <2>1, <2>2, <2>3 DEF Fresh, Healing, Writing
  <2> QED
    BY <2>1, <2>2, <2>4, FreshMove
<1>3. ASSUME NEW t \in Tasks, Reserves(t) PROVE FreshInv'
  <2>1. /\ op[t].pc = "reserve" /\ op[t] # Idle /\ \A u \in Tasks \ {t} : op'[u] = op[u]
        /\ \/ op'[t] = Idle
           \/ op'[t] = [kind |-> op[t].kind, pc |-> "copy", name |-> op[t].name, group |-> op[t].group, label |-> op[t].label,
                          left |-> op[t].left, at |-> op[t].at, then |-> op[t].then, copy |-> op[t].copy]
        /\ UNCHANGED <<storage, dirs, index, list, crowded, faults>>
    BY <1>3, ReservesTo
  <2>2. CASE op'[t] = Idle
    BY <2>1, <2>2, FreshMove
  <2>3. CASE op'[t] # Idle
    <3>1. op'[t].kind = op[t].kind /\ op'[t].pc = "copy" /\ op'[t].group = op[t].group /\ op'[t].left = op[t].left
      BY <2>1, <2>3
    <3>2. Fresh(op[t])
      BY <2>1 DEF FreshInv
    <3>3. Fresh(op'[t])
      BY <2>1, <3>1, <3>2 DEF Fresh, Healing, Writing
    <3> QED
      BY <2>1, <3>1, <3>3, FreshMove
  <2> QED
    BY <2>2, <2>3
<1>4. ASSUME NEW t \in Tasks, Copies(t) PROVE FreshInv'
  <2>1. /\ op[t].pc = "copy" /\ op[t] # Idle /\ op[t].kind = "save" /\ \A u \in Tasks \ {t} : op'[u] = op[u]
        /\ op'[t] = [kind |-> op[t].kind, pc |-> "find", name |-> op[t].name, group |-> op[t].group, label |-> op[t].label,
                       left |-> Listed, at |-> op[t].at, then |-> op[t].then, copy |-> op[t].copy]
        /\ UNCHANGED <<storage, dirs, index, list, crowded, faults>>
    BY <1>4, CopiesTo
  <2>2. op'[t].kind \notin {"rename", "describe"} /\ op'[t].pc = "find" /\ op'[t].group = op[t].group /\ op'[t].left = Listed
    BY <2>1
  <2>3. Fresh(op'[t])
    BY <2>1, <2>2, FreshListed DEF Fresh, Healing, Writing
  <2>4. op'[t].group \notin Groups
    BY <2>1, <2>2, AssetVersionsAssumption DEF FreshInv, Fresh, AssetVersionsAssumption
  <2> QED
    BY <2>1, <2>2, <2>3, <2>4, FreshMove
<1>5. ASSUME NEW t \in Tasks, Looks(t) PROVE FreshInv'
  <2>1. storage' = storage /\ faults' = faults
    BY <1>5, LooksTo
  <2> QED
    BY <1>5, <2>1, FreshLooks
<1>6. ASSUME NEW t \in Tasks, FindsNone(t) PROVE FreshInv'
  <2>1. storage' = storage /\ faults' = faults
    BY <1>6, FindsNoneTo
  <2> QED
    BY <1>6, <2>1, FreshFindsNone
<1>7. ASSUME NEW t \in Tasks, ReadsIndex(t) PROVE FreshInv'
  <2>1. storage' = storage /\ faults' = faults
    BY <1>7, ReadsIndexTo
  <2> QED
    BY <1>7, <2>1, FreshReadsIndex
<1>8. ASSUME NEW t \in Tasks, OpensIndex(t) PROVE FreshInv'
  <2>1. storage' = storage /\ faults' = faults
    BY <1>8, OpensIndexTo
  <2> QED
    BY <1>8, <2>1, FreshOpensIndex
<1>9. ASSUME NEW t \in Tasks, ClosesIndex(t) PROVE FreshInv'
  <2>1. storage' = storage /\ faults' = faults
    BY <1>9, ClosesIndexTo
  <2> QED
    BY <1>9, <2>1, FreshClosesIndex
<1>10. ASSUME NEW t \in Tasks, ReadsVersions(t) PROVE FreshInv'
  <2>1. storage' = storage /\ faults' = faults
    BY <1>10, ReadsVersionsTo
  <2> QED
    BY <1>10, <2>1, FreshReadsVersions
<1>11. ASSUME NEW t \in Tasks, OpensList(t) PROVE FreshInv'
  <2>1. /\ op[t].pc = "put" /\ op[t] # Idle /\ \A u \in Tasks \ {t} : op'[u] = op[u]
        /\ op'[t] = [kind |-> op[t].kind, pc |-> "putting", name |-> op[t].name, group |-> op[t].group, label |-> op[t].label,
                       left |-> op[t].left, at |-> op[t].at, then |-> op[t].then, copy |-> op[t].copy]
        /\ UNCHANGED <<storage, dirs, index, crowded, faults>> /\ list' = [list EXCEPT ![op[t].group] = Opened(@)]
    BY <1>11, OpensListTo
  <2>2. op'[t].kind = op[t].kind /\ op'[t].pc = "putting" /\ op'[t].group = op[t].group /\ op'[t].left = op[t].left
    BY <2>1
  <2>3. Fresh(op[t])
    BY <2>1 DEF FreshInv
  <2>4. Fresh(op'[t])
    BY <2>1, <2>2, <2>3 DEF Fresh, Healing, Writing
  <2>5. list' = list
    BY <2>1 DEF Opened, Registry, Types
  <2> QED
    BY <2>1, <2>2, <2>4, <2>5, FreshMove
<1>12. ASSUME NEW t \in Tasks, ClosesList(t) PROVE FreshInv'
  <2>1. storage' = storage /\ faults' = faults
    BY <1>12, ClosesListTo
  <2> QED
    BY <1>12, <2>1, FreshClosesList
<1>13. ASSUME NEW t \in Tasks, ReadFails(t) PROVE FreshInv'
  <2>1. faults' = faults + 1
    BY <1>13, ReadFailsTo
  <2> QED
    BY <1>0, <2>1
<1>14. ASSUME NEW t \in Tasks, Dies(t) PROVE FreshInv'
  <2>1. faults' = faults + 1
    BY <1>14, DiesTo
  <2> QED
    BY <1>0, <2>1
<1>15. CASE UNCHANGED <<storage, dirs, index, list, op, crowded, faults>>
  BY <1>15 DEF FreshInv, Fresh, AtIndex
<1>16. ASSUME NEW n \in Names, Empties(n) PROVE FreshInv'
  BY <1>15, <1>16 DEF Empties
<1>17. CASE UNCHANGED vars
  BY <1>15, <1>17 DEF vars, files, history
<1> QED
  BY <1>1, <1>2, <1>3, <1>4, <1>5, <1>6, <1>7, <1>8, <1>9, <1>10, <1>11, <1>12, <1>13, <1>14, <1>16, <1>17 DEF Next, Moves

(* The only step that changes an index. *)
LEMMA IndexChanges ==
    ASSUME Registry, FreshInv, storage = "object", faults = 0, NEW t \in Tasks, ClosesIndex(t), NEW g \in Groups \ crowded', index[g] \in Names
    PROVE  index'[g] # Itself
<1>1. /\ op[t].group \in Groups /\ UNCHANGED crowded
      /\ index' = [index EXCEPT ![op[t].group] = IF op[t].pc = "healing" THEN Itself ELSE op[t].name]
      /\ op[t].group \notin crowded /\ index'[op[t].group] \notin Names => index[op[t].group] \notin Names
  BY FreshWrite
<1>2. DOMAIN index = Groups /\ Itself \notin Names
  BY AssetVersionsAssumption DEF Registry, Types, AssetVersionsAssumption
<1>3. CASE g = op[t].group
  BY <1>1, <1>2, <1>3
<1>4. CASE g # op[t].group
  BY <1>1, <1>2, <1>4
<1> QED
  BY <1>3, <1>4

(* On an object store, though every read of an index may write its default *)
(* (_read_index) and a new description writes the name it has read         *)
(* (update_group), no group that has a name loses it to the default while  *)
(* no read fails, unless one operation read its index, before it had a     *)
(* name, while another was about to write that index.                      *)
THEOREM NamesKept == Spec => NamesStay
<1> DEFINE A == storage = "object" /\ faults' = 0 => \A g \in Groups \ crowded' : index[g] \in Names => index'[g] # Itself
<1>1. Registry /\ FreshInv /\ [Next]_vars => [A]_vars
  <2> SUFFICES ASSUME Registry, FreshInv, Next, storage = "object", faults' = 0, NEW g \in Groups \ crowded', index[g] \in Names PROVE index'[g] # Itself
    BY DEF A
  <2>1. Itself \notin Names /\ DOMAIN index = Groups /\ MaxFaults \in Nat /\ faults \in 0 .. MaxFaults
    BY Numbers, AssetVersionsAssumption DEF Registry, Types, AssetVersionsAssumption
  <2>2. ASSUME NEW t \in Tasks, ClosesIndex(t) PROVE index'[g] # Itself
    <3>1. faults = 0
      BY <2>2, ClosesIndexTo
    <3> QED
      BY <2>2, <3>1, IndexChanges
  <2>3. ASSUME NEW t \in Tasks, OpensIndex(t) PROVE index'[g] # Itself
    <3>1. op[t].at \in Groups /\ index' = [index EXCEPT ![op[t].at] = Opened(@)]
      BY <2>3, OpensIndexTo
    <3>2. index' = index
      BY <2>1, <3>1 DEF Opened, Registry, Types
    <3> QED
      BY <2>1, <3>2
  <2>4. ASSUME NEW t \in Tasks, ReadFails(t) \/ Dies(t) PROVE FALSE
    <3>1. faults' = faults + 1
      BY <2>4, ReadFailsTo, DiesTo
    <3> QED
      BY <2>1, <3>1
  <2>5. ASSUME NEW t \in Tasks, Moves(t), ~(ClosesIndex(t) \/ OpensIndex(t) \/ ReadFails(t) \/ Dies(t)) PROVE index' = index
    BY <2>5 DEF Moves, Begin, Scans, Reserves, Copies, Looks, FindsNone, ReadsIndex, ReadsVersions, OpensList, ClosesList, files
  <2>6. ASSUME NEW n \in Names, Empties(n) PROVE index' = index
    BY <2>6 DEF Empties
  <2> QED
    BY <2>1, <2>2, <2>3, <2>4, <2>5, <2>6 DEF Next
<1>2. Spec => []FreshInv
  BY FreshInit, FreshStep, RegistryHolds, PTL DEF Spec
<1> QED
  BY <1>1, <1>2, RegistryHolds, PTL DEF Spec, NamesStay, A
-------------------------------------------------------------------------------
(* Names differ, while one operation at a time chooses one.                *)

LEMMA NameInit == Init => NameInv
<1> SUFFICES ASSUME Init PROVE NameInv
  OBVIOUS
<1>1. PICK g \in Groups, n \in Names : index = [h \in Groups |-> IF h = g THEN n ELSE Missing]
  BY DEF Init
<1>2. Missing \notin Names
  BY AssetVersionsAssumption DEF AssetVersionsAssumption
<1>3. \A t \in Tasks : op[t] = Idle /\ op[t].pc = "idle"
  BY DEF Init, Idle
<1>4. Choosing = {}
  BY <1>3 DEF Choosing
<1> QED
  BY <1>1, <1>2, <1>3, <1>4 DEF NameInv

(* Every group with a name is listed. *)
LEMMA NamedListed ==
    ASSUME NEW n \in Names, NEW g \in Groups, index[g] = n PROVE g \in Listed
<1>1. Missing \notin Names
  BY AssetVersionsAssumption DEF AssetVersionsAssumption
<1> QED
  BY <1>1 DEF Listed
LEMMA ChoosingOp ==
    ASSUME Registry, NEW t \in Choosing
    PROVE  /\ op[t] # Idle /\ op[t].kind \in Namers /\ t \in Tasks /\ op[t] \in Doing /\ Placed(op[t])
           /\ op[t].kind = "describe" \/ op[t].name \in Names
           /\ Searches(op[t], "find") \/ Searches(op[t], "check") => op[t].name \in Names
<1>1. t \in Tasks /\ op[t] # Idle /\ op[t].kind \in Namers
  BY DEF Choosing, Idle
<1> QED
  BY <1>1, AtWork DEF Placed, Namers, Versioning, Looking

(* A step that gives no group a name. *)
LEMMA NameMove ==
    ASSUME Registry, NameInv, NEW t \in Tasks, \A u \in Tasks \ {t} : op'[u] = op[u],
           ~contended, ~unchecked, faults = 0, \A g \in Groups : index'[g] \in Names => index'[g] = index[g],
           op'[t] # Idle /\ op'[t].kind = "into" => op'[t].pc \in {"index", "versions"} \cup Writing,
           t \in Choosing' =>
               /\ t \in Choosing \/ Choosing \ {t} = {}
               /\ Searches(op'[t], "find") \/ Searches(op'[t], "check") => op'[t].name \in Names
               /\ Settled(op'[t])
    PROVE  NameInv'
<1>1. \A u \in Tasks \ {t} : u \in Choosing' <=> u \in Choosing
  BY DEF Choosing
<1>2. ASSUME NEW v \in Choosing', NEW u \in Choosing' PROVE v = u
  <2>1. v \in Tasks /\ u \in Tasks
    BY DEF Choosing
  <2>2. \A x, y \in Choosing : x = y
    BY DEF NameInv
  <2> QED
    BY <1>1, <1>2, <2>1, <2>2
<1>3. \A g, h \in Groups : g # h /\ index'[g] \in Names => index'[g] # index'[h]
  BY DEF NameInv
<1>4. ASSUME NEW u \in Choosing' PROVE Settled(op[u])'
  <2>1. u \in Tasks
    BY DEF Choosing
  <2>2. Settled(op'[u]) /\ (Searches(op'[u], "find") \/ Searches(op'[u], "check") => op'[u].name \in Names)
    <3>1. CASE u = t
      BY <3>1
    <3>2. CASE u # t
      <4>1. u \in Choosing /\ op'[u] = op[u]
        BY <1>1, <2>1, <3>2
      <4> QED
        BY <4>1, ChoosingOp DEF NameInv
    <3> QED
      BY <3>1, <3>2
  <2> QED
    BY <2>2 DEF Settled, Searches
<1>5. ASSUME NEW u \in Tasks, op'[u] # Idle, op'[u].kind = "into" PROVE op'[u].pc \in {"index", "versions"} \cup Writing
  <2>1. CASE u = t
    BY <1>5, <2>1
  <2>2. CASE u # t
    BY <1>5, <2>2 DEF NameInv
  <2> QED
    BY <2>1, <2>2
<1> QED
  BY <1>2, <1>3, <1>4, <1>5 DEF NameInv

LEMMA NameLooks ==
    ASSUME Registry, NameInv, NEW t \in Tasks, Looks(t), ~contended, ~unchecked, faults = 0
    PROVE  NameInv'
<1>0. /\ op[t].pc \in {"find", "check"} /\ op[t] # Idle
      /\ \A u \in Tasks \ {t} : op'[u] = op[u]
      /\ UNCHANGED <<index, contended, faults>>
  BY LooksTo
<1>1. PICK g \in op[t].left :
          \/ /\ Defaulted(g)
             /\ op'[t] = [kind |-> op[t].kind, pc |-> "heal", name |-> op[t].name, group |-> op[t].group, label |-> op[t].label,
                            left |-> op[t].left \ {g}, at |-> g, then |-> op[t].pc, copy |-> op[t].copy]
          \/ op'[t] = Idle
          \/ /\ op[t].kind \in Looking \ {"list"} /\ index[g] = op[t].name
             /\ op'[t] = [kind |-> op[t].kind, pc |-> IF op[t].kind = "rename" THEN "name" ELSE "index", name |-> op[t].name, group |-> g,
                            label |-> op[t].label, left |-> {}, at |-> g, then |-> op[t].then, copy |-> op[t].copy]
          \/ /\ op[t].kind = "list" \/ index[g] # op[t].name
             /\ op'[t] = [kind |-> op[t].kind, pc |-> op[t].pc, name |-> op[t].name, group |-> op[t].group, label |-> op[t].label,
                            left |-> op[t].left \ {g}, at |-> op[t].at, then |-> op[t].then, copy |-> op[t].copy]
  BY LooksTo
<1>2. op[t] \in Doing /\ g \in Groups /\ op[t].kind # "into"
  BY <1>0, AtWork DEF Doing, Placed, Searches, Looking
<1>20. op'[t] = Idle \/ (op'[t].kind = op[t].kind /\ op'[t].name = op[t].name)
  BY <1>1
<1>3. CASE op[t].kind \notin Namers
  <2>1. op'[t] = Idle \/ op'[t].kind = op[t].kind
    BY <1>1
  <2>2. t \notin Choosing'
    BY <1>3, <2>1 DEF Choosing, Idle
  <2> QED
    BY <1>2, <1>20, <1>0, <2>2, NameMove
<1>4. CASE op[t].kind \in Namers
  <2>0. /\ t \in Choosing /\ op[t].name \in Names /\ op[t].kind # "list"
        /\ \A h \in Groups : index[h] = op[t].name => h \in op[t].left
    <3>1. t \in Choosing /\ op[t].kind # "list"
      BY <1>0, <1>4 DEF Choosing, Namers
    <3>2. Settled(op[t]) /\ op[t].name \in Names
      BY <1>0, <3>1, ChoosingOp DEF NameInv, Searches
    <3> QED
      BY <1>0, <3>1, <3>2 DEF Settled, Searches
  <2>1. CASE /\ Defaulted(g)
             /\ op'[t] = [kind |-> op[t].kind, pc |-> "heal", name |-> op[t].name, group |-> op[t].group, label |-> op[t].label,
                            left |-> op[t].left \ {g}, at |-> g, then |-> op[t].pc, copy |-> op[t].copy]
    <3>1. op'[t].pc = "heal" /\ op'[t].name = op[t].name /\ op'[t].left = op[t].left \ {g} /\ op'[t].then = op[t].pc
      BY <2>1
    <3>2. index[g] # op[t].name
      BY <2>0, <2>1 DEF Defaulted, Readable
    <3>3. Settled(op'[t])
      BY <1>0, <2>0, <3>1, <3>2 DEF Settled, Searches
    <3> QED
      BY <1>2, <1>20, <1>0, <2>0, <3>1, <3>3, NameMove
  <2>2. CASE op'[t] = Idle
    <3>1. t \notin Choosing'
      BY <2>2 DEF Choosing, Idle
    <3> QED
      BY <1>2, <1>20, <1>0, <3>1, NameMove
  <2>3. CASE /\ index[g] = op[t].name
             /\ op'[t] = [kind |-> op[t].kind, pc |-> IF op[t].kind = "rename" THEN "name" ELSE "index", name |-> op[t].name, group |-> g,
                            label |-> op[t].label, left |-> {}, at |-> g, then |-> op[t].then, copy |-> op[t].copy]
    <3>1. op'[t].pc \in {"name", "index"} /\ op'[t].name = op[t].name /\ op'[t].group = g
      BY <2>3
    <3>2. \A h \in Groups : index[h] = op[t].name => h = g
      BY <1>2, <2>0, <2>3 DEF NameInv
    <3>3. Settled(op'[t])
      BY <3>1, <3>2 DEF Settled, Searches, Healing
    <3> QED
      BY <1>2, <1>20, <1>0, <2>0, <3>1, <3>3, NameMove
  <2>4. CASE /\ index[g] # op[t].name
             /\ op'[t] = [kind |-> op[t].kind, pc |-> op[t].pc, name |-> op[t].name, group |-> op[t].group, label |-> op[t].label,
                            left |-> op[t].left \ {g}, at |-> op[t].at, then |-> op[t].then, copy |-> op[t].copy]
    <3>1. op'[t].pc = op[t].pc /\ op'[t].name = op[t].name /\ op'[t].left = op[t].left \ {g}
      BY <2>4
    <3>2. Settled(op'[t])
      BY <1>0, <2>0, <2>4, <3>1 DEF Settled, Searches, Healing
    <3> QED
      BY <1>2, <1>20, <1>0, <2>0, <3>1, <3>2, NameMove
  <2> QED
    BY <1>1, <2>0, <2>1, <2>2, <2>3, <2>4
<1> QED
  BY <1>3, <1>4

LEMMA NameFindsNone ==
    ASSUME Registry, NameInv, NEW t \in Tasks, FindsNone(t), ~contended, ~unchecked, faults = 0
    PROVE  NameInv'
<1>0. /\ op[t].pc \in {"find", "check"} /\ op[t] # Idle /\ op[t].left = {}
      /\ \A u \in Tasks \ {t} : op'[u] = op[u]
      /\ UNCHANGED <<index, contended, faults>>
      /\ \/ op'[t] = [kind |-> op[t].kind, pc |-> "find", name |-> op[t].name, group |-> op[t].group, label |-> op[t].label,
                        left |-> Listed, at |-> op[t].at, then |-> op[t].then, copy |-> op[t].copy]
         \/ op'[t] = Idle
         \/ op'[t] = [kind |-> op[t].kind, pc |-> "name", name |-> op[t].name, group |-> op[t].group, label |-> op[t].label,
                           left |-> op[t].left, at |-> op[t].group, then |-> op[t].then, copy |-> op[t].copy]
         \/ \E g \in Groups \ (Listed \cup Claimed) :
                   op'[t] = [kind |-> op[t].kind, pc |-> "index", name |-> op[t].name, group |-> g, label |-> op[t].label,
                              left |-> op[t].left, at |-> g, then |-> op[t].then, copy |-> op[t].copy]
  BY FindsNoneTo
<1>20. op[t].kind # "into" /\ op[t].kind # "describe"
  BY <1>0, AtWork DEF Placed, Searches, Looking
<1>1. op'[t] = Idle \/ (op'[t].pc \in {"find", "name", "index"} /\ op'[t].kind = op[t].kind /\ op'[t].name = op[t].name)
  BY <1>20, Paths DEF SameAim
<1>2. CASE op'[t] = Idle \/ op[t].kind \notin Namers
  <2>1. t \notin Choosing'
    BY <1>1, <1>2 DEF Choosing, Idle
  <2> QED
    BY <1>20, <1>0, <2>1, <1>1, NameMove
<1>3. CASE op'[t] # Idle /\ op[t].kind \in Namers
  <2>0. /\ t \in Choosing /\ op[t].name \in Names
        /\ \A h \in Groups : index[h] # op[t].name
    <3>1. t \in Choosing
      BY <1>0, <1>3 DEF Choosing
    <3>2. Settled(op[t]) /\ op[t].name \in Names
      BY <1>0, <3>1, ChoosingOp DEF NameInv, Searches
    <3> QED
      BY <1>0, <3>1, <3>2 DEF Settled, Searches
  <2>1. Settled(op'[t])
    BY <1>1, <1>3, <2>0 DEF Settled
  <2> QED
    BY <1>20, <1>0, <1>1, <1>3, <2>0, <2>1, NameMove
<1> QED
  BY <1>2, <1>3

LEMMA NameReadsIndex ==
    ASSUME Registry, NameInv, NEW t \in Tasks, ReadsIndex(t), ~contended, ~unchecked', faults = 0
    PROVE  NameInv'
<1>0. /\ op[t].pc = "index" /\ op[t] # Idle /\ op[t].group \in Groups /\ op[t].kind \in Naming
      /\ \A u \in Tasks \ {t} : op'[u] = op[u]
      /\ UNCHANGED <<index, contended, faults>>
      /\ unchecked' = (unchecked \/ (op[t].kind = "into" /\ index[op[t].group] \notin Names))
      /\ \/ /\ Defaulted(op[t].group)
            /\ op'[t] = [kind |-> op[t].kind, pc |-> "heal", name |-> NameFor(t, Itself), group |-> op[t].group, label |-> op[t].label,
                           left |-> Listed, at |-> op[t].at, then |-> AfterIndex(t), copy |-> op[t].copy]
         \/ /\ op[t].kind = "rename"
            /\ op'[t] = [kind |-> op[t].kind, pc |-> "find", name |-> op[t].name, group |-> op[t].group, label |-> op[t].label,
                           left |-> Listed, at |-> op[t].at, then |-> op[t].then, copy |-> op[t].copy]
         \/ /\ op[t].kind = "describe"
            /\ op'[t] = [kind |-> op[t].kind, pc |-> "name", name |-> index[op[t].group], group |-> op[t].group, label |-> op[t].label,
                           left |-> op[t].left, at |-> op[t].at, then |-> op[t].then, copy |-> op[t].copy]
         \/ /\ op[t].kind \in Versioning
            /\ op'[t] = [kind |-> op[t].kind, pc |-> IF index[op[t].group] = Itself THEN "name" ELSE "versions", name |-> op[t].name,
                           group |-> op[t].group, label |-> op[t].label,
                           left |-> op[t].left, at |-> op[t].at, then |-> op[t].then, copy |-> op[t].copy]
  BY ReadsIndexTo
<1>1. Itself \notin Names /\ ~unchecked
  BY <1>0, AssetVersionsAssumption DEF AssetVersionsAssumption
<1>2. CASE op[t].kind = "into"
  <2>1. index[op[t].group] \in Names
    BY <1>0, <1>2
  <2>2. op'[t].kind = "into" /\ op'[t].pc = "versions"
    BY <1>0, <1>1, <1>2, <2>1 DEF Defaulted, Readable
  <2>3. t \notin Choosing'
    BY <2>2 DEF Choosing, Namers
  <2> QED
    BY <1>0, <1>1, <2>2, <2>3, NameMove
<1>3. CASE op[t].kind # "into"
  <2>0. t \in Choosing /\ op[t].kind \in Namers
    BY <1>0, <1>3 DEF Choosing, Naming, Namers, Versioning
  <2>1. /\ op[t].kind = "describe" \/ op[t].name \in Names
        /\ op[t].kind \in Versioning => \A g \in Groups : index[g] = op[t].name => g = op[t].group
    <3>1. Settled(op[t]) /\ (op[t].kind = "describe" \/ op[t].name \in Names)
      BY <1>1, <2>0, ChoosingOp DEF NameInv
    <3>2. op[t].kind \in Versioning => op[t].kind \notin {"rename", "describe"}
      BY DEF Versioning
    <3> QED
      BY <1>0, <3>1, <3>2 DEF Settled
  <2>2. op[t].name \in Names => \A g \in Groups : index[g] = op[t].name => g \in Listed
    BY NamedListed
  <2>3. CASE op'[t] = [kind |-> op[t].kind, pc |-> "heal", name |-> NameFor(t, Itself), group |-> op[t].group, label |-> op[t].label,
                         left |-> Listed, at |-> op[t].at, then |-> AfterIndex(t), copy |-> op[t].copy]
    <3>1. /\ op'[t].pc = "heal" /\ op'[t].name = NameFor(t, Itself) /\ op'[t].left = Listed /\ op'[t].then = AfterIndex(t)
          /\ op'[t].group = op[t].group /\ op'[t].kind = op[t].kind
      BY <2>3
    <3>2. CASE op[t].kind = "rename"
      <4>1. op'[t].then = "find" /\ op'[t].name = op[t].name /\ op[t].name \in Names
        BY <2>1, <3>1, <3>2 DEF AfterIndex, NameFor
      <4>2. Settled(op'[t])
        BY <2>2, <3>1, <4>1 DEF Settled, Searches
      <4> QED
        BY <1>0, <1>1, <1>3, <2>0, <3>1, <4>1, <4>2, NameMove
    <3>3. CASE op[t].kind = "describe"
      <4>1. op'[t].then = "name" /\ op'[t].name = Itself
        BY <3>1, <3>3 DEF AfterIndex, NameFor
      <4>2. Settled(op'[t]) /\ ~Searches(op'[t], "find") /\ ~Searches(op'[t], "check")
        BY <1>1, <3>1, <4>1 DEF Settled, Searches
      <4> QED
        BY <1>0, <1>1, <1>3, <2>0, <3>1, <4>2, NameMove
    <3>4. CASE op[t].kind \in Versioning
      <4>1. op'[t].then = "name" /\ op'[t].name = op[t].name
        BY <3>1, <3>4 DEF AfterIndex, NameFor, Versioning
      <4>2. Settled(op'[t]) /\ ~Searches(op'[t], "find") /\ ~Searches(op'[t], "check")
        BY <2>1, <3>1, <3>4, <4>1 DEF Settled, Searches
      <4> QED
        BY <1>0, <1>1, <1>3, <2>0, <3>1, <4>2, NameMove
    <3> QED
      BY <2>0, <3>2, <3>3, <3>4 DEF Namers, Versioning
  <2>4. CASE /\ op[t].kind = "rename"
             /\ op'[t] = [kind |-> op[t].kind, pc |-> "find", name |-> op[t].name, group |-> op[t].group, label |-> op[t].label,
                            left |-> Listed, at |-> op[t].at, then |-> op[t].then, copy |-> op[t].copy]
    <3>1. op'[t].pc = "find" /\ op'[t].name = op[t].name /\ op'[t].left = Listed /\ op'[t].kind = op[t].kind /\ op[t].name \in Names
      BY <2>1, <2>4
    <3>2. Settled(op'[t])
      BY <2>2, <3>1 DEF Settled, Searches, Healing
    <3> QED
      BY <1>0, <1>1, <1>3, <2>0, <3>1, <3>2, NameMove
  <2>5. CASE /\ op[t].kind = "describe"
             /\ op'[t] = [kind |-> op[t].kind, pc |-> "name", name |-> index[op[t].group], group |-> op[t].group, label |-> op[t].label,
                            left |-> op[t].left, at |-> op[t].at, then |-> op[t].then, copy |-> op[t].copy]
    <3>1. op'[t].pc = "name" /\ op'[t].name = index[op[t].group] /\ op'[t].group = op[t].group /\ op'[t].kind = op[t].kind
      BY <2>5
    <3>2. \A g \in Groups : index[op[t].group] \in Names /\ index[g] = index[op[t].group] => g = op[t].group
      BY <1>0, <1>1 DEF NameInv
    <3>3. Settled(op'[t]) /\ ~Searches(op'[t], "find") /\ ~Searches(op'[t], "check")
      BY <3>1, <3>2 DEF Settled, Searches, Healing
    <3> QED
      BY <1>0, <1>1, <1>3, <2>0, <3>1, <3>3, NameMove
  <2>6. CASE /\ op[t].kind \in Versioning
             /\ op'[t] = [kind |-> op[t].kind, pc |-> IF index[op[t].group] = Itself THEN "name" ELSE "versions", name |-> op[t].name,
                            group |-> op[t].group, label |-> op[t].label,
                            left |-> op[t].left, at |-> op[t].at, then |-> op[t].then, copy |-> op[t].copy]
    <3>1. op'[t].pc \in {"name", "versions"} /\ op'[t].name = op[t].name /\ op'[t].group = op[t].group /\ op'[t].kind = op[t].kind
      BY <2>6
    <3>2. Settled(op'[t]) /\ ~Searches(op'[t], "find") /\ ~Searches(op'[t], "check")
      BY <2>1, <2>6, <3>1 DEF Settled, Searches, Healing
    <3> QED
      BY <1>0, <1>1, <1>3, <2>0, <3>1, <3>2, NameMove
  <2> QED
    BY <1>0, <2>3, <2>4, <2>5, <2>6
<1> QED
  BY <1>2, <1>3

LEMMA NameOpensIndex ==
    ASSUME Registry, NameInv, NEW t \in Tasks, OpensIndex(t), ~contended, ~unchecked, faults = 0
    PROVE  NameInv'
<1>0. /\ op[t].pc \in {"heal", "name"} /\ op[t] # Idle /\ op[t].at \in Groups
      /\ \A u \in Tasks \ {t} : op'[u] = op[u]
      /\ UNCHANGED <<contended, faults>> /\ index' = [index EXCEPT ![op[t].at] = Opened(@)]
      /\ op'[t] = [kind |-> op[t].kind, pc |-> IF op[t].pc = "heal" THEN "healing" ELSE "naming", name |-> op[t].name, group |-> op[t].group,
                     label |-> op[t].label, left |-> op[t].left, at |-> op[t].at, then |-> op[t].then, copy |-> op[t].copy]
  BY OpensIndexTo
<1>1. \A g \in Groups : index'[g] \in Names => index'[g] = index[g]
  <2>1. Corrupt \notin Names /\ DOMAIN index = Groups
    BY AssetVersionsAssumption DEF AssetVersionsAssumption, Registry, Types
  <2> QED
    BY <1>0, <2>1 DEF Opened
<1>2. /\ op'[t].pc = IF op[t].pc = "heal" THEN "healing" ELSE "naming"
      /\ op'[t].kind = op[t].kind /\ op'[t].name = op[t].name /\ op'[t].group = op[t].group /\ op'[t].left = op[t].left /\ op'[t].then = op[t].then
  BY <1>0
<1>3. t \in Choosing' => t \in Choosing
  BY <1>0, <1>2 DEF Choosing
<1>4. ASSUME t \in Choosing PROVE Settled(op'[t]) /\ (Searches(op'[t], "find") \/ Searches(op'[t], "check") => op'[t].name \in Names)
  <2>1. Settled(op[t]) /\ (Searches(op[t], "find") \/ Searches(op[t], "check") => op[t].name \in Names)
    BY <1>4, ChoosingOp DEF NameInv
  <2> QED
    BY <1>0, <1>2, <2>1 DEF Settled, Searches, Healing
<1>5. op'[t].kind # "into"
  BY <1>0, <1>2 DEF NameInv, Writing
<1> QED
  BY <1>0, <1>1, <1>3, <1>4, <1>5, NameMove

LEMMA NameClosesIndex ==
    ASSUME Registry, NameInv, NEW t \in Tasks, ClosesIndex(t), ~contended, ~unchecked, faults = 0
    PROVE  NameInv'
<1>0. /\ op[t].pc \in {"healing", "naming"} /\ op[t] # Idle /\ op[t].at \in Groups
      /\ \A u \in Tasks \ {t} : op'[u] = op[u]
      /\ UNCHANGED <<contended, faults>>
      /\ op[t].pc = "naming" => op[t].at = op[t].group /\ op[t].name \in Names \cup {Itself} /\ op[t].kind \in Naming
      /\ \/ /\ op[t].pc = "healing"
            /\ op'[t] = [kind |-> op[t].kind, pc |-> op[t].then, name |-> op[t].name, group |-> op[t].group, label |-> op[t].label,
                           left |-> op[t].left, at |-> op[t].group, then |-> "none", copy |-> op[t].copy]
         \/ op[t].pc = "naming" /\ op'[t] = Idle
         \/ /\ op[t].pc = "naming"
            /\ op'[t] = [kind |-> op[t].kind, pc |-> "versions", name |-> op[t].name, group |-> op[t].group, label |-> op[t].label,
                           left |-> op[t].left, at |-> op[t].at, then |-> op[t].then, copy |-> op[t].copy]
  BY ClosesIndexTo
<1>1. PICK new \in Closed(index[op[t].at], IF op[t].pc = "healing" THEN Itself ELSE op[t].name) :
          /\ index' = [index EXCEPT ![op[t].at] = new]
          /\ new \in {Corrupt, IF op[t].pc = "healing" THEN Itself ELSE op[t].name}
  BY ClosesIndexTo
<1>2. DOMAIN index = Groups /\ Itself \notin Names /\ Corrupt \notin Names
  BY AssetVersionsAssumption DEF Registry, Types, AssetVersionsAssumption
<1>20. op[t].kind # "into"
  BY <1>0 DEF NameInv, Writing
<1>3. CASE op[t].pc = "healing"
  <2>1. \A g \in Groups : index'[g] \in Names => index'[g] = index[g]
    BY <1>0, <1>1, <1>2, <1>3
  <2>2. op'[t] = [kind |-> op[t].kind, pc |-> op[t].then, name |-> op[t].name, group |-> op[t].group, label |-> op[t].label,
                    left |-> op[t].left, at |-> op[t].group, then |-> "none", copy |-> op[t].copy]
    BY <1>0, <1>3
  <2>3. /\ op'[t].pc = op[t].then /\ op'[t].kind = op[t].kind /\ op'[t].name = op[t].name /\ op'[t].group = op[t].group
        /\ op'[t].left = op[t].left /\ op'[t].then = "none"
    BY <2>2
  <2>4. op[t].then \in {"find", "check", "name"}
    BY <1>0, <1>3, AtWork DEF Doing, Placed, Healing
  <2>5. t \in Choosing' => t \in Choosing
    BY <1>3, <2>3 DEF Choosing
  <2>6. ASSUME t \in Choosing PROVE Settled(op'[t]) /\ (Searches(op'[t], "find") \/ Searches(op'[t], "check") => op'[t].name \in Names)
    <3>1. Settled(op[t]) /\ (Searches(op[t], "find") \/ Searches(op[t], "check") => op[t].name \in Names)
      BY <2>6, ChoosingOp DEF NameInv
    <3> QED
      BY <1>3, <2>3, <2>4, <3>1 DEF Settled, Searches, Healing
  <2> QED
    BY <1>0, <1>20, <2>1, <2>3, <2>5, <2>6, NameMove
<1>4. CASE op[t].pc = "naming"
  <2>1. t \in Choosing /\ op[t].at = op[t].group /\ op[t].name \in Names \cup {Itself}
    BY <1>0, <1>4, <1>20 DEF Choosing, Naming, Namers, Versioning
  <2>2. \A g \in Groups : op[t].name \in Names /\ index[g] = op[t].name => g = op[t].group
    <3>1. Settled(op[t])
      BY <2>1 DEF NameInv
    <3> QED
      BY <1>4, <3>1 DEF Settled
  <2>3. \A g, h \in Groups : g # h /\ index'[g] \in Names => index'[g] # index'[h]
    BY <1>0, <1>1, <1>2, <1>4, <2>1, <2>2 DEF NameInv
  <2>4. op'[t] = Idle \/ op'[t].pc = "versions"
    BY <1>0, <1>4
  <2>5. \A u \in Choosing' : u = t
    <3>1. \A u \in Tasks \ {t} : u \in Choosing' <=> u \in Choosing
      BY <1>0 DEF Choosing
    <3> QED
      BY <2>1, <3>1 DEF NameInv, Choosing
  <2>6. \A u \in Choosing' : Settled(op[u])'
    BY <2>4, <2>5 DEF Settled, Searches, Healing, Idle, Choosing
  <2>7. \A u \in Tasks : op'[u] # Idle /\ op'[u].kind = "into" => op'[u].pc \in {"index", "versions"} \cup Writing
    BY <1>0, <2>4 DEF NameInv
  <2> QED
    BY <2>3, <2>5, <2>6, <2>7 DEF NameInv
<1> QED
  BY <1>0, <1>3, <1>4

LEMMA NameStep == Registry /\ NameInv /\ [Next]_vars => NameInv'
<1> SUFFICES ASSUME Registry, NameInv, [Next]_vars, ~contended', ~unchecked', faults' = 0 PROVE NameInv'
  BY DEF NameInv
<1>0. MaxFaults \in Nat /\ faults \in 0 .. MaxFaults
  BY Numbers DEF Registry, Types
<1>1. ASSUME NEW t \in Tasks, Begin(t) PROVE NameInv'
  <2>0. faults = 0 /\ index' = index /\ ~unchecked
    BY <1>1 DEF Begin, files
  <2>1. /\ op'[t] \in Doing /\ Placed(op'[t]) /\ \A u \in Tasks \ {t} : op'[u] = op[u]
        /\ \/ op'[t].kind = "save" /\ op'[t].pc = "scan"
           \/ op'[t].kind \in {"create", "register"} /\ op'[t].pc \in {"find", "check"} /\ op'[t].left = Listed
           \/ op'[t].kind \in {"rename", "describe", "into"} /\ op'[t].pc = "index"
           \/ op'[t].kind \in {"delete", "tag", "untag", "edit", "drop", "list"}
        /\ contended' = (contended \/ (op'[t].kind \in {"create", "register", "rename", "describe"} /\ Choosing \ {t} # {}))
    BY <1>1, BeginKinds
  <2>2. ~contended
    BY <2>1
  <2>3. CASE t \notin Choosing'
    BY <2>0, <2>1, <2>2, <2>3, NameMove
  <2>4. CASE t \in Choosing'
    <3>1. op'[t].kind \in {"create", "register", "rename", "describe"} /\ (op'[t].kind = "describe" \/ op'[t].name \in Names)
      BY <2>1, <2>4 DEF Choosing, Namers, Versioning, Placed
    <3>2. Settled(op'[t]) /\ (Searches(op'[t], "find") \/ Searches(op'[t], "check") => op'[t].name \in Names)
      BY <2>1, <3>1, NamedListed DEF Settled, Searches, Healing
    <3> QED
      BY <2>0, <2>1, <2>2, <3>1, <3>2, NameMove
  <2> QED
    BY <2>3, <2>4
<1>2. ASSUME NEW t \in Tasks, Scans(t) PROVE NameInv'
  <2>1. UNCHANGED <<index, contended, unchecked, faults>> /\ \A u \in Tasks \ {t} : op'[u] = op[u]
    BY <1>2, ScansTo
  <2>2. t \notin Choosing' /\ (op'[t] = Idle \/ op'[t].kind = op[t].kind)
    BY <1>2, Paths DEF Choosing, SameAim
  <2>3. op[t].pc = "scan" /\ op[t] # Idle
    BY <1>2, ScansTo
  <2>4. op'[t] = Idle \/ op'[t].kind # "into"
    BY <2>2, <2>3, AtWork DEF Placed
  <2> QED
    BY <2>1, <2>2, <2>4, NameMove
<1>3. ASSUME NEW t \in Tasks, Reserves(t) PROVE NameInv'
  <2>1. UNCHANGED <<index, contended, unchecked, faults>> /\ \A u \in Tasks \ {t} : op'[u] = op[u]
    BY <1>3, ReservesTo
  <2>2. t \notin Choosing' /\ (op'[t] = Idle \/ op'[t].kind = op[t].kind)
    BY <1>3, Paths DEF Choosing, Idle, SameAim
  <2>3. op[t].pc = "reserve" /\ op[t] # Idle
    BY <1>3, ReservesTo
  <2>4. op'[t] = Idle \/ op'[t].kind # "into"
    BY <2>2, <2>3, AtWork DEF Placed
  <2> QED
    BY <2>1, <2>2, <2>4, NameMove
<1>4. ASSUME NEW t \in Tasks, Copies(t) PROVE NameInv'
  <2>1. /\ op[t].name \in Names /\ op[t].kind = "save" /\ UNCHANGED <<index, unchecked, faults>> /\ \A u \in Tasks \ {t} : op'[u] = op[u]
        /\ op'[t] = [kind |-> op[t].kind, pc |-> "find", name |-> op[t].name, group |-> op[t].group, label |-> op[t].label,
                       left |-> Listed, at |-> op[t].at, then |-> op[t].then, copy |-> op[t].copy]
        /\ contended' = (contended \/ Choosing \ {t} # {})
    BY <1>4, CopiesTo
  <2>2. op'[t].pc = "find" /\ op'[t].name = op[t].name /\ op'[t].left = Listed /\ op'[t].kind = "save"
    BY <2>1
  <2>3. Settled(op'[t])
    BY <2>1, <2>2, NamedListed DEF Settled, Searches, Healing
  <2> QED
    BY <2>1, <2>2, <2>3, NameMove
<1>5. ASSUME NEW t \in Tasks, Looks(t) PROVE NameInv'
  <2>1. contended' = contended /\ unchecked' = unchecked /\ faults' = faults
    BY <1>5, LooksTo
  <2> QED
    BY <1>5, <2>1, NameLooks
<1>6. ASSUME NEW t \in Tasks, FindsNone(t) PROVE NameInv'
  <2>1. contended' = contended /\ unchecked' = unchecked /\ faults' = faults
    BY <1>6, FindsNoneTo
  <2> QED
    BY <1>6, <2>1, NameFindsNone
<1>7. ASSUME NEW t \in Tasks, ReadsIndex(t) PROVE NameInv'
  <2>1. contended' = contended /\ faults' = faults
    BY <1>7, ReadsIndexTo
  <2> QED
    BY <1>7, <2>1, NameReadsIndex
<1>8. ASSUME NEW t \in Tasks, OpensIndex(t) PROVE NameInv'
  <2>1. contended' = contended /\ unchecked' = unchecked /\ faults' = faults
    BY <1>8, OpensIndexTo
  <2> QED
    BY <1>8, <2>1, NameOpensIndex
<1>9. ASSUME NEW t \in Tasks, ClosesIndex(t) PROVE NameInv'
  <2>1. contended' = contended /\ unchecked' = unchecked /\ faults' = faults
    BY <1>9, ClosesIndexTo
  <2> QED
    BY <1>9, <2>1, NameClosesIndex
<1>10. ASSUME NEW t \in Tasks, ReadsVersions(t) PROVE NameInv'
  <2>1. /\ op[t].pc = "versions" /\ op[t] # Idle /\ op[t].group \in Groups /\ UNCHANGED <<index, contended, unchecked, faults>>
        /\ \/ op[t].kind = "drop" /\ Ends(t)
           \/ op[t].kind # "drop" /\ Updates(t, Stored(op[t].group))
    BY <1>10, ReadsVersionsTo
  <2>2. /\ \A u \in Tasks \ {t} : op'[u] = op[u]
        /\ op'[t] = Idle \/ (op'[t].pc = "put" /\ op'[t].kind = op[t].kind /\ op'[t].name = op[t].name)
    <3>1. CASE op[t].kind = "drop" /\ Ends(t)
      BY <3>1, EndsTo DEF Registry
    <3>2. CASE op[t].kind # "drop" /\ Updates(t, Stored(op[t].group))
      <4>1. Stored(op[t].group) \in Seq(Version) /\ Sound(Stored(op[t].group))
        BY <2>1, StoredSound
      <4>2. /\ \A u \in Tasks \ {t} : op'[u] = op[u]
            /\ \/ op'[t] = Idle
               \/ op'[t] = [kind |-> op[t].kind, pc |-> "put", name |-> op[t].name, group |-> op[t].group, label |-> LabelFor(t, Stored(op[t].group)),
                              left |-> op[t].left, at |-> op[t].at, then |-> op[t].then, copy |-> Changed(t, Stored(op[t].group))]
        BY <2>1, <3>2, <4>1, UpdatesTo
      <4> QED
        BY <4>2
    <3> QED
      BY <2>1, <3>1, <3>2
  <2>3. ASSUME t \in Choosing' PROVE t \in Choosing /\ Settled(op'[t]) /\ ~Searches(op'[t], "find") /\ ~Searches(op'[t], "check")
    <3>1. op'[t].pc = "put" /\ op'[t].kind = op[t].kind /\ op'[t].name = op[t].name
      BY <2>2, <2>3 DEF Choosing, Idle
    <3>2. t \in Choosing
      BY <2>1, <2>3, <3>1 DEF Choosing
    <3>3. Settled(op'[t]) /\ ~Searches(op'[t], "find") /\ ~Searches(op'[t], "check")
      BY <3>1 DEF Settled, Searches, Healing
    <3> QED
      BY <3>2, <3>3
  <2> QED
    BY <2>1, <2>2, <2>3, NameMove DEF Writing
<1>11. ASSUME NEW t \in Tasks, OpensList(t) PROVE NameInv'
  <2>1. op[t].pc = "put" /\ UNCHANGED <<index, contended, unchecked, faults>> /\ \A u \in Tasks \ {t} : op'[u] = op[u]
    BY <1>11, OpensListTo
  <2>2. op'[t].pc = "putting" /\ op'[t].kind = op[t].kind
    BY <1>11, Paths DEF SameAim
  <2>3. t \in Choosing' => t \in Choosing
    BY <2>1, <2>2 DEF Choosing
  <2>4. Settled(op'[t]) /\ ~Searches(op'[t], "find") /\ ~Searches(op'[t], "check")
    BY <2>2 DEF Settled, Searches, Healing
  <2> QED
    BY <2>1, <2>2, <2>3, <2>4, NameMove DEF Writing
<1>12. ASSUME NEW t \in Tasks, ClosesList(t) PROVE NameInv'
  <2>1. op'[t] = Idle /\ UNCHANGED <<index, contended, unchecked, faults>> /\ \A u \in Tasks \ {t} : op'[u] = op[u]
    BY <1>12, ClosesListTo
  <2>2. t \notin Choosing'
    BY <2>1 DEF Choosing, Idle
  <2> QED
    BY <2>1, <2>2, NameMove
<1>13. ASSUME NEW t \in Tasks, ReadFails(t) PROVE NameInv'
  <2>1. faults' = faults + 1
    BY <1>13, ReadFailsTo
  <2> QED
    BY <1>0, <2>1
<1>14. ASSUME NEW t \in Tasks, Dies(t) PROVE NameInv'
  <2>1. faults' = faults + 1
    BY <1>14, DiesTo
  <2> QED
    BY <1>0, <2>1
<1>15. CASE UNCHANGED <<index, op, contended, unchecked, faults>>
  BY <1>15 DEF NameInv, Settled, Choosing
<1>16. ASSUME NEW n \in Names, Empties(n) PROVE NameInv'
  BY <1>15, <1>16 DEF Empties
<1>17. CASE UNCHANGED vars
  BY <1>15, <1>17 DEF vars, files, history
<1> QED
  BY <1>1, <1>2, <1>3, <1>4, <1>5, <1>6, <1>7, <1>8, <1>9, <1>10, <1>11, <1>12, <1>13, <1>14, <1>16, <1>17 DEF Next, Moves

(* While operations that write names do not overlap, nothing fails and no  *)
(* version is created in a group without a name that the request names by  *)
(* its UUID, no two groups have one name (find_group_by_name before a new  *)
(* group is named, update_group's check of the other groups, and its name  *)
(* read and written back when only the description changes).               *)
THEOREM NamesApart == Spec => []NamesDiffer
<1>1. NameInv => NamesDiffer
  BY DEF NameInv, NamesDiffer
<1> QED
  BY <1>1, NameInit, NameStep, RegistryHolds, PTL DEF Spec
-------------------------------------------------------------------------------
(* Saves keep apart: no label of a group that a name claims is on its way  *)
(* there a second time.                                                    *)

LEMMA SavesInit == Init => SavesInv
<1> SUFFICES ASSUME Init PROVE SavesInv
  OBVIOUS
<1>1. PICK g \in Groups, n \in Names :
          /\ index = [h \in Groups |-> IF h = g THEN n ELSE Missing]
          /\ list = [h \in Groups |-> IF h = g THEN <<[label |-> 1, latest |-> TRUE]>> ELSE Missing]
          /\ shelf = [m \in Names |-> IF m = n THEN {1} ELSE {}]
  BY DEF Init
<1>2. \A t \in Tasks : op[t] = Idle /\ op[t].pc \notin Writing
  BY DEF Init, Idle, Writing
<1>3. \A h \in Groups, m \in Names : Claims(h, m) => h = g /\ m = n
  <2>1. Missing \notin Names
    BY AssetVersionsAssumption DEF AssetVersionsAssumption
  <2> QED
    BY <1>1, <1>2, <2>1 DEF Claims, Pending
<1>4. \A l \in Labels : InUse(g, l) => l = 1
  <2>1. Stored(g) = <<>> \/ Stored(g) = <<[label |-> 1, latest |-> TRUE]>>
    BY <1>1 DEF Stored
  <2>2. LabelsOf(Stored(g)) \subseteq {1}
    BY <2>1 DEF LabelsOf
  <2> QED
    BY <1>2, <2>2 DEF InUse
<1>5. collided = {}
  BY DEF Init
<1> QED
  BY <1>1, <1>2, <1>3, <1>4, <1>5 DEF SavesInv, Pending

(* A step that neither reserves nor claims nor brings a label into use. *)
LEMMA SavesMove ==
    ASSUME Registry, SavesInv, NEW t \in Tasks, \A u \in Tasks \ {t} : op'[u] = op[u],
           storage' = storage, foreign' = foreign, emptied' = emptied,
           storage = "local" /\ ~foreign => collided' \subseteq collided \cup emptied,
           \A n \in Names : shelf[n] \subseteq shelf'[n],
           op'[t] = Idle \/
              /\ op[t] # Idle /\ op'[t].kind = op[t].kind
              /\ op'[t].kind = "save" /\ op'[t].pc \in {"scan", "reserve"} => op[t].pc \in {"scan", "reserve"} /\ op'[t].group = op[t].group,
           Pending(t)' => Pending(t) /\ op[t].name \in Names /\ op'[t].name = op[t].name /\ op'[t].label = op[t].label,
           storage = "local" /\ ~foreign => \A g \in Groups, n \in Names : Claims(g, n)' => Claims(g, n),
           storage = "local" /\ ~foreign => \A g \in Groups, l \in Labels : InUse(g, l)' => InUse(g, l)
    PROVE  SavesInv'
<1>0. \A u \in Tasks : Pending(u)' => Pending(u) /\ op[u].name \in Names /\ op'[u].name = op[u].name /\ op'[u].label = op[u].label
  <2> SUFFICES ASSUME NEW u \in Tasks, u # t, Pending(u)' PROVE Pending(u) /\ op[u].name \in Names
    BY DEF Pending
  <2>1. Pending(u)
    BY DEF Pending
  <2> QED
    BY <2>1, AtWork DEF Pending, Placed, Namers, Versioning
<1>1. \A u \in Tasks : op'[u] # Idle /\ op'[u].kind = "save" /\ op'[u].pc \in {"scan", "reserve"} => op'[u].group = Missing
  BY DEF SavesInv
<1>2. ~foreign => \A u \in Tasks : op'[u] # Idle /\ op'[u].kind \in Naming => op'[u].kind = "save"
  BY DEF SavesInv
<1>3. ASSUME storage = "local" PROVE \A u \in Tasks : Pending(u)' /\ op'[u].name \notin emptied' => op'[u].label \in shelf'[op'[u].name]
  BY <1>0, <1>3 DEF SavesInv
<1>4. ASSUME storage = "local"
      PROVE  \A v, u \in Tasks : v # u /\ Pending(v)' /\ Pending(u)' /\ op'[v].name = op'[u].name /\ op'[v].name \notin emptied' => op'[v].label # op'[u].label
  BY <1>0, <1>4 DEF SavesInv
<1>5. ASSUME storage = "local", ~foreign, NEW g \in Groups, NEW n \in Names, Claims(g, n)'
      PROVE  /\ \A m \in Names : Claims(g, m)' => m = n
             /\ n \notin emptied' => \A l \in Labels : InUse(g, l)' => l \in shelf'[n] /\ \A u \in Tasks : Pending(u)' /\ op'[u].name = n => op'[u].label # l
  <2>1. Claims(g, n)
    BY <1>5
  <2>2. /\ \A m \in Names : Claims(g, m) => m = n
        /\ n \notin emptied => \A l \in Labels : InUse(g, l) => l \in shelf[n] /\ \A u \in Tasks : Pending(u) /\ op[u].name = n => op[u].label # l
    BY <1>5, <2>1 DEF SavesInv
  <2>3. \A m \in Names : Claims(g, m)' => m = n
    BY <1>5, <2>2
  <2>4. n \notin emptied' => \A l \in Labels : InUse(g, l)' => l \in shelf'[n] /\ \A u \in Tasks : Pending(u)' /\ op'[u].name = n => op'[u].label # l
    BY <1>0, <1>5, <2>2
  <2> QED
    BY <2>3, <2>4
<1>6. storage = "local" => (~foreign => collided' \subseteq emptied')
  BY DEF SavesInv
<1> QED
  BY <1>1, <1>2, <1>3, <1>4, <1>5, <1>6 DEF SavesInv

(* Which claims a step leaves. *)
LEMMA ClaimsShrink ==
    ASSUME NEW t \in Tasks, \A u \in Tasks \ {t} : op'[u] = op[u],
           \A g \in Groups : index'[g] \in Names => Claims(g, index'[g]),
           Pending(t)' /\ op'[t].group \in Groups /\ op'[t].name \in Names => Claims(op'[t].group, op'[t].name)
    PROVE  \A g \in Groups, n \in Names : Claims(g, n)' => Claims(g, n)
<1> SUFFICES ASSUME NEW g \in Groups, NEW n \in Names, Claims(g, n)' PROVE Claims(g, n)
  OBVIOUS
<1>1. CASE index'[g] = n
  BY <1>1
<1>2. ASSUME NEW u \in Tasks, Pending(u)', op'[u].group = g, op'[u].name = n PROVE Claims(g, n)
  <2>1. CASE u = t
    BY <1>2, <2>1
  <2>2. CASE u # t
    <3>1. Pending(u) /\ op[u].group = g /\ op[u].name = n
      BY <1>2, <2>2 DEF Pending
    <3> QED
      BY <3>1 DEF Claims
  <2> QED
    BY <2>1, <2>2
<1> QED
  BY <1>1, <1>2 DEF Claims
LEMMA ClaimsSame ==
    ASSUME NEW t \in Tasks, \A u \in Tasks \ {t} : op'[u] = op[u],
           \A g \in Groups : index'[g] \in Names => index'[g] = index[g],
           Pending(t)' => Pending(t) /\ op'[t].group = op[t].group /\ op'[t].name = op[t].name
    PROVE  \A g \in Groups, n \in Names : Claims(g, n)' => Claims(g, n)
<1>1. \A g \in Groups : index'[g] \in Names => Claims(g, index'[g])
  BY DEF Claims
<1>2. Pending(t)' /\ op'[t].group \in Groups /\ op'[t].name \in Names => Claims(op'[t].group, op'[t].name)
  BY DEF Claims
<1> QED
  BY <1>1, <1>2, ClaimsShrink

(* Which labels stay in use. *)
LEMMA InUseShrink ==
    ASSUME NEW t \in Tasks, \A u \in Tasks \ {t} : op'[u] = op[u],
           \A g \in Groups, l \in Labels : l \in LabelsOf(Stored(g))' => InUse(g, l),
           \A l \in Labels : op'[t].pc \in Writing /\ op'[t].group \in Groups
                             /\ l \in LabelsOf(op'[t].copy) \ (IF op'[t].kind = "save" THEN {op'[t].label} ELSE {})
                             => InUse(op'[t].group, l)
    PROVE  \A g \in Groups, l \in Labels : InUse(g, l)' => InUse(g, l)
<1> SUFFICES ASSUME NEW g \in Groups, NEW l \in Labels, InUse(g, l)' PROVE InUse(g, l)
  OBVIOUS
<1>1. CASE l \in LabelsOf(Stored(g))'
  BY <1>1
<1>2. ASSUME NEW u \in Tasks, op'[u].pc \in Writing, op'[u].group = g,
             l \in LabelsOf(op'[u].copy) \ (IF op'[u].kind = "save" THEN {op'[u].label} ELSE {})
      PROVE  InUse(g, l)
  <2>1. CASE u = t
    BY <1>2, <2>1
  <2>2. CASE u # t
    BY <1>2, <2>2 DEF InUse
  <2> QED
    BY <2>1, <2>2
<1> QED
  BY <1>1, <1>2 DEF InUse, LabelsOf
LEMMA InUseSame ==
    ASSUME NEW t \in Tasks, \A u \in Tasks \ {t} : op'[u] = op[u], list' = list, op'[t].pc \notin Writing
    PROVE  \A g \in Groups, l \in Labels : InUse(g, l)' => InUse(g, l)
<1>1. \A g \in Groups : Stored(g)' = Stored(g)
  BY DEF Stored
<1>2. \A g \in Groups, l \in Labels : l \in LabelsOf(Stored(g))' => InUse(g, l)
  BY <1>1 DEF InUse, LabelsOf
<1> QED
  BY <1>2, InUseShrink

LEMMA PendingOp ==
    ASSUME Registry, NEW t \in Tasks, Pending(t)
    PROVE  op[t].name \in Names /\ op[t].label \in Labels /\ op[t].kind = "save" /\ op[t] # Idle
  BY AtWork DEF Pending, Placed, Namers, Versioning, Doing
LEMMA PendingIdle == ASSUME NEW t \in Tasks, op'[t] = Idle PROVE ~Pending(t)'
  BY DEF Pending

(* Where an update of a list leads. *)
LEMMA SavesUpdates ==
    ASSUME Registry, SavesInv, NEW t \in Tasks, op[t] # Idle, op[t].pc = "versions", op[t].kind # "drop", op[t].group \in Groups,
           NEW vs \in Seq(Version), Sound(vs), LabelsOf(vs) \subseteq LabelsOf(Stored(op[t].group)), Updates(t, vs),
           UNCHANGED <<storage, list, index, shelf, foreign, emptied>>
    PROVE  SavesInv'
<1> DEFINE g0 == op[t].group
<1>0. /\ \A u \in Tasks \ {t} : op'[u] = op[u]
      /\ \/ Refused(t, vs) /\ op'[t] = Idle /\ collided' = (IF op[t].kind = "save" THEN collided \cup {op[t].name} ELSE collided)
         \/ /\ ~Refused(t, vs) /\ LabelFor(t, vs) \in Labels
            /\ op'[t] = [kind |-> op[t].kind, pc |-> "put", name |-> op[t].name, group |-> op[t].group, label |-> LabelFor(t, vs),
                           left |-> op[t].left, at |-> op[t].at, then |-> op[t].then, copy |-> Changed(t, vs)]
            /\ collided' = collided
  BY UpdatesTo
<1>1. \A n \in Names : shelf[n] \subseteq shelf'[n]
  OBVIOUS
<1>2. CASE Refused(t, vs) /\ op'[t] = Idle /\ collided' = (IF op[t].kind = "save" THEN collided \cup {op[t].name} ELSE collided)
  <2>1. ~Pending(t)' /\ op'[t].pc \notin Writing
    BY <1>2, PendingIdle DEF Idle, Writing
  <2>2. ASSUME storage = "local", ~foreign PROVE op[t].kind # "save" \/ op[t].name \in emptied
    <3> SUFFICES ASSUME op[t].kind = "save", op[t].name \notin emptied PROVE FALSE
      OBVIOUS
    <3>1. Pending(t) /\ op[t].name \in Names /\ op[t].label \in Labels
      <4>1. Pending(t)
        BY DEF Pending
      <4> QED
        BY <4>1, PendingOp
    <3>2. Claims(g0, op[t].name)
      BY <3>1 DEF Claims
    <3>3. op[t].label \in LabelsOf(vs)
      BY <1>2 DEF Refused, Taken, Versioning, Numbered
    <3>4. InUse(g0, op[t].label)
      BY <3>3 DEF InUse
    <3> QED
      BY <2>2, <3>1, <3>2, <3>4 DEF SavesInv
  <2>3. storage = "local" /\ ~foreign => collided' \subseteq collided \cup emptied
    BY <1>2, <2>2
  <2>4. CASE storage = "local"
    <3>1. \A g \in Groups, n \in Names : Claims(g, n)' => Claims(g, n)
      BY <1>0, <2>1, ClaimsSame
    <3>2. \A g \in Groups, l \in Labels : InUse(g, l)' => InUse(g, l)
      BY <1>0, <2>1, InUseSame
    <3> QED
      BY <1>0, <1>1, <1>2, <2>1, <2>3, <2>4, <3>1, <3>2, SavesMove
  <2>5. CASE storage # "local"
    BY <1>0, <1>2, <2>5 DEF SavesInv
  <2> QED
    BY <2>4, <2>5
<1>3. CASE /\ ~Refused(t, vs) /\ LabelFor(t, vs) \in Labels
           /\ op'[t] = [kind |-> op[t].kind, pc |-> "put", name |-> op[t].name, group |-> op[t].group, label |-> LabelFor(t, vs),
                          left |-> op[t].left, at |-> op[t].at, then |-> op[t].then, copy |-> Changed(t, vs)]
           /\ collided' = collided
  <2>1. /\ op'[t].kind = op[t].kind /\ op'[t].pc = "put" /\ op'[t].name = op[t].name /\ op'[t].group = g0
        /\ op'[t].label = LabelFor(t, vs) /\ op'[t].copy = Changed(t, vs)
    BY <1>3
  <2>2. /\ op[t].kind \in Versioning => LabelsOf(Changed(t, vs)) = LabelsOf(vs) \cup {LabelFor(t, vs)}
        /\ op[t].kind = "save" => LabelFor(t, vs) = op[t].label
        /\ op[t].kind = "delete" => LabelsOf(Changed(t, vs)) = LabelsOf(vs) \ {op[t].label}
        /\ op[t].kind \in {"tag", "untag", "edit"} => LabelsOf(Changed(t, vs)) = LabelsOf(vs)
    BY <1>3, ChangedSound
  <2>3. op'[t] # Idle
    BY <2>1 DEF Idle
  <2>4. Pending(t)' => Pending(t) /\ op[t].name \in Names /\ op'[t].name = op[t].name /\ op'[t].label = op[t].label
    <3>1. Pending(t)' => Pending(t)
      BY <2>1 DEF Pending
    <3> QED
      BY <2>1, <2>2, <3>1, PendingOp
  <2>5. \A g \in Groups, n \in Names : Claims(g, n)' => Claims(g, n)
    BY <1>0, <2>1, <2>4, ClaimsSame
  <2>6. ASSUME ~foreign PROVE \A g \in Groups, l \in Labels : InUse(g, l)' => InUse(g, l)
    <3>1. \A g \in Groups : Stored(g)' = Stored(g)
      BY DEF Stored
    <3>2. \A g \in Groups, l \in Labels : l \in LabelsOf(Stored(g))' => InUse(g, l)
      BY <3>1 DEF InUse, LabelsOf
    <3>3. op[t].kind \in {"save", "delete", "tag", "untag", "edit"}
      <4>1. op[t].kind \in Kinds /\ op[t].kind # "list"
        BY AtWork DEF Doing, Placed
      <4> QED
        BY <2>6, <4>1 DEF SavesInv, Kinds, Namers, Versioning, Naming
    <3>4. LabelsOf(op'[t].copy) \ (IF op'[t].kind = "save" THEN {op'[t].label} ELSE {}) \subseteq LabelsOf(vs)
      BY <2>1, <2>2, <3>3 DEF Versioning
    <3>5. \A l \in Labels : l \in LabelsOf(op'[t].copy) \ (IF op'[t].kind = "save" THEN {op'[t].label} ELSE {}) => InUse(op'[t].group, l)
      BY <2>1, <3>4 DEF InUse
    <3> QED
      BY <1>0, <3>2, <3>5, InUseShrink
  <2> QED
    BY <1>0, <1>1, <1>3, <2>1, <2>3, <2>4, <2>5, <2>6, SavesMove
<1> QED
  BY <1>0, <1>2, <1>3

LEMMA SavesReserves ==
    ASSUME Registry, SavesInv, NEW t \in Tasks, Reserves(t)
    PROVE  SavesInv'
<1>0. /\ op[t].pc = "reserve" /\ op[t] # Idle /\ op[t].name \in Names
      /\ \A u \in Tasks \ {t} : op'[u] = op[u]
      /\ UNCHANGED <<storage, index, list, foreign, collided, emptied>>
      /\ \/ /\ Free(op[t].name, op[t].label)
            /\ op'[t] = [kind |-> op[t].kind, pc |-> "copy", name |-> op[t].name, group |-> op[t].group, label |-> op[t].label,
                           left |-> op[t].left, at |-> op[t].at, then |-> op[t].then, copy |-> op[t].copy]
            /\ shelf' = IF storage = "local" THEN [shelf EXCEPT ![op[t].name] = @ \cup {op[t].label}] ELSE shelf
         \/ op'[t] = Idle /\ shelf' = shelf
  BY ReservesTo
<1>1. CASE op'[t] = Idle /\ shelf' = shelf
  <2>1. ~Pending(t)' /\ op'[t].pc \notin Writing
    BY <1>1, PendingIdle DEF Idle, Writing
  <2>2. \A g \in Groups, n \in Names : Claims(g, n)' => Claims(g, n)
    BY <1>0, <2>1, ClaimsSame
  <2>3. \A g \in Groups, l \in Labels : InUse(g, l)' => InUse(g, l)
    BY <1>0, <2>1, InUseSame
  <2> QED
    BY <1>0, <1>1, <2>1, <2>2, <2>3, SavesMove
<1>2. CASE /\ Free(op[t].name, op[t].label)
           /\ op'[t] = [kind |-> op[t].kind, pc |-> "copy", name |-> op[t].name, group |-> op[t].group, label |-> op[t].label,
                          left |-> op[t].left, at |-> op[t].at, then |-> op[t].then, copy |-> op[t].copy]
           /\ shelf' = IF storage = "local" THEN [shelf EXCEPT ![op[t].name] = @ \cup {op[t].label}] ELSE shelf
  <2>1. op'[t].kind = op[t].kind /\ op'[t].pc = "copy" /\ op'[t].name = op[t].name /\ op'[t].group = op[t].group /\ op'[t].label = op[t].label
    BY <1>2
  <2>2. op[t].kind = "save" /\ op[t].label \in Labels /\ op[t].group = Missing
    BY <1>0, AtWork DEF Doing, Placed, SavesInv
  <2>3. \A u \in Tasks \ {t} : Pending(u)' <=> Pending(u)
    BY <1>0 DEF Pending
  <2>4. \A u \in Tasks : op'[u] # Idle /\ op'[u].kind = "save" /\ op'[u].pc \in {"scan", "reserve"} => op'[u].group = Missing
    BY <1>0, <2>1 DEF SavesInv
  <2>5. ~foreign => \A u \in Tasks : op'[u] # Idle /\ op'[u].kind \in Naming => op'[u].kind = "save"
    BY <1>0, <2>1, <2>2 DEF SavesInv
  <2>6. CASE storage = "local"
    <3>1. /\ op[t].label \notin shelf[op[t].name] /\ op[t].label \in shelf'[op[t].name]
          /\ \A n \in Names : shelf[n] \subseteq shelf'[n]
      BY <1>0, <1>2, <2>6 DEF Free, Registry, Types
    <3>2. \A u \in Tasks : Pending(u)' /\ op'[u].name \notin emptied' => op'[u].label \in shelf'[op'[u].name]
      <4> SUFFICES ASSUME NEW u \in Tasks, Pending(u)', op'[u].name \notin emptied' PROVE op'[u].label \in shelf'[op'[u].name]
        OBVIOUS
      <4>1. CASE u = t
        BY <2>1, <3>1, <4>1
      <4>2. CASE u # t
        <5>1. Pending(u) /\ op'[u] = op[u] /\ op[u].name \in Names
          BY <1>0, <2>3, <4>2, PendingOp
        <5>2. op[u].name \notin emptied
          BY <1>0, <5>1
        <5>3. op[u].label \in shelf[op[u].name]
          BY <2>6, <5>1, <5>2 DEF SavesInv
        <5> QED
          BY <3>1, <5>1, <5>3
      <4> QED
        BY <4>1, <4>2
    <3>3. \A u \in Tasks \ {t} : Pending(u) /\ op[u].name = op[t].name /\ op[u].name \notin emptied => op[u].label # op[t].label
      BY <2>6, <3>1 DEF SavesInv
    <3>4. ASSUME NEW v \in Tasks, NEW u \in Tasks, v # u, Pending(v)', Pending(u)', op'[v].name = op'[u].name, op'[v].name \notin emptied'
          PROVE  op'[v].label # op'[u].label
      <4>1. CASE v # t /\ u # t
        BY <1>0, <2>3, <2>6, <3>4, <4>1 DEF SavesInv
      <4>2. CASE v = t
        BY <1>0, <2>1, <2>3, <3>3, <3>4, <4>2
      <4>3. CASE u = t
        BY <1>0, <2>1, <2>3, <3>3, <3>4, <4>3
      <4> QED
        BY <4>1, <4>2, <4>3
    <3>5. \A g \in Groups, n \in Names : Claims(g, n)' => Claims(g, n)
      <4>1. \A g \in Groups : index'[g] \in Names => Claims(g, index'[g])
        BY <1>0 DEF Claims
      <4>2. op'[t].group \notin Groups
        BY <2>1, <2>2, AssetVersionsAssumption DEF AssetVersionsAssumption
      <4> QED
        BY <1>0, <4>1, <4>2, ClaimsShrink
    <3>6. \A g \in Groups, l \in Labels : InUse(g, l)' => InUse(g, l)
      BY <1>0, <2>1, InUseSame DEF Writing
    <3>7. ASSUME ~foreign, NEW g \in Groups, NEW n \in Names, Claims(g, n)'
          PROVE  /\ \A m \in Names : Claims(g, m)' => m = n
                 /\ n \notin emptied' => \A l \in Labels : InUse(g, l)' => l \in shelf'[n] /\ \A u \in Tasks : Pending(u)' /\ op'[u].name = n => op'[u].label # l
      <4>1. /\ \A m \in Names : Claims(g, m) => m = n
            /\ n \notin emptied => \A l \in Labels : InUse(g, l) => l \in shelf[n] /\ \A u \in Tasks : Pending(u) /\ op[u].name = n => op[u].label # l
        BY <2>6, <3>5, <3>7 DEF SavesInv
      <4>2. ASSUME n \notin emptied', NEW l \in Labels, InUse(g, l)' PROVE l \in shelf'[n] /\ \A u \in Tasks : Pending(u)' /\ op'[u].name = n => op'[u].label # l
        <5>1. l \in shelf[n] /\ \A u \in Tasks : Pending(u) /\ op[u].name = n => op[u].label # l
          BY <1>0, <3>6, <4>1, <4>2
        <5>2. ASSUME NEW u \in Tasks, Pending(u)', op'[u].name = n PROVE op'[u].label # l
          <6>1. CASE u = t
            BY <2>1, <3>1, <5>1, <5>2, <6>1
          <6>2. CASE u # t
            BY <1>0, <2>3, <5>1, <5>2, <6>2
          <6> QED
            BY <6>1, <6>2
        <5> QED
          BY <3>1, <5>1, <5>2
      <4> QED
        BY <3>5, <4>1, <4>2
    <3>8. ~foreign => collided' \subseteq emptied'
      BY <1>0, <2>6 DEF SavesInv
    <3> QED
      BY <1>0, <2>4, <2>5, <3>2, <3>4, <3>7, <3>8 DEF SavesInv
  <2>7. CASE storage # "local"
    BY <1>0, <2>4, <2>5, <2>7 DEF SavesInv
  <2> QED
    BY <2>6, <2>7
<1> QED
  BY <1>0, <1>1, <1>2

(* A fresh group is claimed by the one that makes it. *)
LEMMA SavesFresh ==
    ASSUME Registry, SavesInv, NEW t \in Tasks, op[t] # Idle, op[t].pc = "find", op[t].kind \in {"save", "create", "register"},
           \A u \in Tasks \ {t} : op'[u] = op[u],
           UNCHANGED <<storage, index, list, shelf, foreign, collided, emptied>>,
           NEW h \in Groups \ (Listed \cup Claimed),
           op'[t] = [kind |-> op[t].kind, pc |-> "index", name |-> op[t].name, group |-> h, label |-> op[t].label,
                       left |-> op[t].left, at |-> h, then |-> op[t].then, copy |-> op[t].copy]
    PROVE  SavesInv'
<1>1. op'[t].kind = op[t].kind /\ op'[t].pc = "index" /\ op'[t].name = op[t].name /\ op'[t].group = h /\ op'[t].label = op[t].label
  OBVIOUS
<1>2. \A u \in Tasks : /\ Pending(u)' <=> Pending(u)
                       /\ op'[u].name = op[u].name /\ op'[u].label = op[u].label
  BY <1>1 DEF Pending, Idle
<1>3. \A u \in Tasks : op'[u] # Idle /\ op'[u].kind = "save" /\ op'[u].pc \in {"scan", "reserve"} => op'[u].group = Missing
  BY <1>1 DEF SavesInv
<1>4. ~foreign => \A u \in Tasks : op'[u] # Idle /\ op'[u].kind \in Naming => op'[u].kind = "save"
  BY <1>1 DEF SavesInv
<1>5. CASE storage = "local"
  <2>1. \A u \in Tasks : Pending(u)' /\ op'[u].name \notin emptied' => op'[u].label \in shelf'[op'[u].name]
    BY <1>2, <1>5 DEF SavesInv
  <2>2. \A v, u \in Tasks : v # u /\ Pending(v)' /\ Pending(u)' /\ op'[v].name = op'[u].name /\ op'[v].name \notin emptied' => op'[v].label # op'[u].label
    BY <1>2, <1>5 DEF SavesInv
  <2>3. ~foreign => collided' \subseteq emptied'
    BY <1>5 DEF SavesInv
  <2>4. \A g \in Groups, l \in Labels : InUse(g, l)' => InUse(g, l)
    BY <1>1, InUseSame DEF Writing
  <2>5. \A l \in Labels : ~InUse(h, l)
    <3>1. Stored(h) = <<>>
      BY DEF Listed, Stored
    <3>2. LabelsOf(Stored(h)) = {}
      BY <3>1 DEF LabelsOf
    <3>3. \A u \in Tasks : op[u].pc \in Writing => op[u].group # h
      <4> SUFFICES ASSUME NEW u \in Tasks, op[u].pc \in Writing, op[u].group = h PROVE FALSE
        OBVIOUS
      <4>1. op[u] # Idle
        BY DEF Writing, Idle
      <4> QED
        BY <4>1 DEF Claimed
    <3> QED
      BY <3>2, <3>3 DEF InUse
  <2>6. \A n \in Names : Claims(h, n)' => n = op[t].name
    <3> SUFFICES ASSUME NEW n \in Names, Claims(h, n)' PROVE n = op[t].name
      OBVIOUS
    <3>1. index[h] = Missing /\ Missing \notin Names
      BY AssetVersionsAssumption DEF AssetVersionsAssumption, Listed
    <3>2. PICK u \in Tasks : Pending(u)' /\ op'[u].group = h /\ op'[u].name = n
      BY <3>1 DEF Claims
    <3>3. u = t
      <4> SUFFICES ASSUME u # t PROVE FALSE
        OBVIOUS
      <4>1. op[u] # Idle /\ op[u].group = h
        BY <3>2 DEF Pending
      <4> QED
        BY <4>1 DEF Claimed
    <3> QED
      BY <1>1, <3>2, <3>3
  <2>7. \A g \in Groups \ {h}, n \in Names : Claims(g, n)' => Claims(g, n)
    BY <1>1, <1>2 DEF Claims
  <2>8. ASSUME ~foreign, NEW g \in Groups, NEW n \in Names, Claims(g, n)'
        PROVE  /\ \A m \in Names : Claims(g, m)' => m = n
               /\ n \notin emptied' => \A l \in Labels : InUse(g, l)' => l \in shelf'[n] /\ \A u \in Tasks : Pending(u)' /\ op'[u].name = n => op'[u].label # l
    <3>1. CASE g = h
      BY <2>4, <2>5, <2>6, <2>8, <3>1
    <3>2. CASE g # h
      <4>1. Claims(g, n)
        BY <2>7, <2>8, <3>2
      <4>2. /\ \A m \in Names : Claims(g, m) => m = n
            /\ n \notin emptied => \A l \in Labels : InUse(g, l) => l \in shelf[n] /\ \A u \in Tasks : Pending(u) /\ op[u].name = n => op[u].label # l
        BY <1>5, <2>8, <4>1 DEF SavesInv
      <4>3. \A m \in Names : Claims(g, m)' => m = n
        BY <2>7, <3>2, <4>2
      <4>4. n \notin emptied' => \A l \in Labels : InUse(g, l)' => l \in shelf'[n] /\ \A u \in Tasks : Pending(u)' /\ op'[u].name = n => op'[u].label # l
        BY <1>2, <2>4, <4>2
      <4> QED
        BY <4>3, <4>4
    <3> QED
      BY <3>1, <3>2
  <2> QED
    BY <1>3, <1>4, <1>5, <2>1, <2>2, <2>3, <2>8 DEF SavesInv
<1>6. CASE storage # "local"
  BY <1>3, <1>4, <1>6 DEF SavesInv
<1> QED
  BY <1>5, <1>6

(* A label that is stored was reserved for its save. *)
LEMMA SavesCloses ==
    ASSUME Registry, SavesInv, NEW t \in Tasks, ClosesList(t)
    PROVE  SavesInv'
<1> DEFINE g0 == op[t].group
<1>0. /\ op[t].pc = "putting" /\ op[t] # Idle /\ g0 \in Groups /\ op'[t] = Idle
      /\ UNCHANGED <<storage, index, shelf, foreign, collided, emptied>> /\ \A u \in Tasks \ {t} : op'[u] = op[u]
      /\ \E new \in Closed(list[g0], op[t].copy) : list' = [list EXCEPT ![g0] = new]
  BY ClosesListTo
<1>1. ~Pending(t)' /\ op'[t].pc \notin Writing
  BY <1>0, PendingIdle DEF Idle, Writing
<1>2. \A u \in Tasks : Pending(u)' => u # t /\ Pending(u) /\ op'[u] = op[u]
  BY <1>0, <1>1 DEF Pending
<1>3. \A g \in Groups, n \in Names : Claims(g, n)' => Claims(g, n)
  BY <1>0, <1>1, ClaimsSame
<1>4. \A g \in Groups, l \in Labels : InUse(g, l)' => InUse(g, l) \/ (g = g0 /\ op[t].kind = "save" /\ l = op[t].label)
  <2> SUFFICES ASSUME NEW g \in Groups, NEW l \in Labels, InUse(g, l)', ~InUse(g, l)
               PROVE  g = g0 /\ op[t].kind = "save" /\ l = op[t].label
    OBVIOUS
  <2>1. l \in LabelsOf(Stored(g))'
    <3> SUFFICES ASSUME NEW u \in Tasks, op'[u].pc \in Writing, op'[u].group = g,
                        l \in LabelsOf(op'[u].copy) \ (IF op'[u].kind = "save" THEN {op'[u].label} ELSE {})
                 PROVE  FALSE
      BY DEF InUse, LabelsOf
    <3>1. u # t /\ op'[u] = op[u]
      BY <1>0, <1>1
    <3> QED
      BY <3>1 DEF InUse
  <2>2. PICK new \in Closed(list[g0], op[t].copy) : list' = [list EXCEPT ![g0] = new]
    BY <1>0
  <2>3. DOMAIN list = Groups
    BY DEF Registry, Types
  <2>4. CASE g # g0
    <3>1. Stored(g)' = Stored(g)
      BY <2>2, <2>3, <2>4 DEF Stored
    <3> QED
      BY <2>1, <3>1 DEF InUse, LabelsOf
  <2>5. CASE g = g0 /\ new # op[t].copy
    <3>1. new = Corrupt
      BY <2>5 DEF Closed
    <3>2. Stored(g)' = <<>>
      BY <2>2, <2>3, <2>5, <3>1 DEF Stored
    <3> QED
      BY <2>1, <3>2 DEF LabelsOf
  <2>6. CASE g = g0 /\ new = op[t].copy
    <3>1. Stored(g)' \in {<<>>, op[t].copy}
      BY <2>2, <2>3, <2>6 DEF Stored
    <3>2. l \in LabelsOf(op[t].copy)
      BY <2>1, <3>1 DEF LabelsOf
    <3> QED
      BY <1>0, <2>6, <3>2 DEF InUse, Writing
  <2> QED
    BY <2>4, <2>5, <2>6
<1>5. \A u \in Tasks : op'[u] # Idle /\ op'[u].kind = "save" /\ op'[u].pc \in {"scan", "reserve"} => op'[u].group = Missing
  BY <1>0 DEF SavesInv
<1>6. ~foreign => \A u \in Tasks : op'[u] # Idle /\ op'[u].kind \in Naming => op'[u].kind = "save"
  BY <1>0 DEF SavesInv
<1>7. CASE storage = "local"
  <2>1. \A u \in Tasks : Pending(u)' /\ op'[u].name \notin emptied' => op'[u].label \in shelf'[op'[u].name]
    BY <1>0, <1>2, <1>7 DEF SavesInv
  <2>2. \A v, u \in Tasks : v # u /\ Pending(v)' /\ Pending(u)' /\ op'[v].name = op'[u].name /\ op'[v].name \notin emptied' => op'[v].label # op'[u].label
    BY <1>0, <1>2, <1>7 DEF SavesInv
  <2>3. ~foreign => collided' \subseteq emptied'
    BY <1>0, <1>7 DEF SavesInv
  <2>4. ASSUME ~foreign, NEW g \in Groups, NEW n \in Names, Claims(g, n)'
        PROVE  /\ \A m \in Names : Claims(g, m)' => m = n
               /\ n \notin emptied' => \A l \in Labels : InUse(g, l)' => l \in shelf'[n] /\ \A u \in Tasks : Pending(u)' /\ op'[u].name = n => op'[u].label # l
    <3>1. Claims(g, n)
      BY <1>3, <2>4
    <3>2. /\ \A m \in Names : Claims(g, m) => m = n
          /\ n \notin emptied => \A l \in Labels : InUse(g, l) => l \in shelf[n] /\ \A u \in Tasks : Pending(u) /\ op[u].name = n => op[u].label # l
      BY <1>7, <2>4, <3>1 DEF SavesInv
    <3>3. \A m \in Names : Claims(g, m)' => m = n
      BY <1>3, <3>2
    <3>4. ASSUME n \notin emptied', NEW l \in Labels, InUse(g, l)' PROVE l \in shelf'[n] /\ \A u \in Tasks : Pending(u)' /\ op'[u].name = n => op'[u].label # l
      <4>1. CASE InUse(g, l)
        BY <1>0, <1>2, <3>2, <3>4, <4>1
      <4>2. CASE g = g0 /\ op[t].kind = "save" /\ l = op[t].label
        <5>1. Pending(t) /\ op[t].name \in Names
          <6>1. Pending(t)
            BY <1>0, <4>2 DEF Pending
          <6> QED
            BY <6>1, PendingOp
        <5>2. op[t].name = n
          BY <3>2, <4>2, <5>1 DEF Claims
        <5>3. l \in shelf[n]
          BY <1>0, <1>7, <3>4, <4>2, <5>1, <5>2 DEF SavesInv
        <5>4. \A u \in Tasks : Pending(u)' /\ op'[u].name = n => op'[u].label # l
          BY <1>0, <1>2, <1>7, <3>4, <4>2, <5>1, <5>2 DEF SavesInv
        <5> QED
          BY <1>0, <5>3, <5>4
      <4> QED
        BY <1>4, <3>4, <4>1, <4>2
    <3> QED
      BY <3>3, <3>4
  <2> QED
    BY <1>0, <1>5, <1>6, <2>1, <2>2, <2>3, <2>4 DEF SavesInv
<1>8. CASE storage # "local"
  BY <1>0, <1>5, <1>6, <1>8 DEF SavesInv
<1> QED
  BY <1>7, <1>8

(* A step that changes neither the files nor a group settled on. *)
LEMMA SavesQuiet ==
    ASSUME Registry, SavesInv, NEW t \in Tasks, \A u \in Tasks \ {t} : op'[u] = op[u],
           UNCHANGED <<storage, index, list, shelf, foreign, collided, emptied>>,
           op'[t] = Idle \/
              /\ op[t] # Idle /\ op'[t].kind = op[t].kind /\ op'[t].label = op[t].label
              /\ op[t].kind = "describe" \/ op'[t].name = op[t].name
              /\ op[t].pc \notin {"scan", "reserve"} /\ op'[t].pc \notin {"scan", "reserve"} \cup Writing
              /\ op'[t].group = op[t].group \/ (op'[t].group \in Groups /\ index[op'[t].group] = op'[t].name)
    PROVE  SavesInv'
<1>1. op'[t].pc \notin Writing
  BY DEF Idle, Writing
<1>2. Pending(t)' => Pending(t) /\ op[t].name \in Names /\ op'[t].name = op[t].name /\ op'[t].label = op[t].label
  BY PendingOp DEF Pending
<1>3. \A g \in Groups, n \in Names : Claims(g, n)' => Claims(g, n)
  <2>1. \A g \in Groups : index'[g] \in Names => Claims(g, index'[g])
    BY DEF Claims
  <2>2. Pending(t)' /\ op'[t].group \in Groups /\ op'[t].name \in Names => Claims(op'[t].group, op'[t].name)
    <3>1. Pending(t)' => op'[t] # Idle
      BY DEF Pending
    <3> QED
      BY <1>2, <3>1 DEF Claims
  <2> QED
    BY <2>1, <2>2, ClaimsShrink
<1>4. \A g \in Groups, l \in Labels : InUse(g, l)' => InUse(g, l)
  BY <1>1, InUseSame
<1> QED
  BY <1>2, <1>3, <1>4, SavesMove

LEMMA SavesBegin ==
    ASSUME Registry, SavesInv, NEW t \in Tasks, Begin(t)
    PROVE  SavesInv'
<1>0. /\ op[t] = Idle /\ UNCHANGED <<storage, index, list, shelf, collided, emptied>> /\ \A u \in Tasks \ {t} : op'[u] = op[u]
      /\ op'[t] \in Doing
      /\ \/ op'[t].kind = "save" /\ op'[t].pc = "scan" /\ op'[t].group = Missing
         \/ op'[t].kind \in {"create", "register", "rename", "describe", "into"}
         \/ op'[t].kind \in {"delete", "tag", "untag", "edit", "drop", "list"}
      /\ op'[t].pc \in {"scan", "find", "check", "index", "versions"}
      /\ foreign' = (foreign \/ op'[t].kind \in {"create", "register", "rename", "describe", "into"})
  <2>1. op[t] = Idle /\ UNCHANGED <<storage, index, list, shelf, collided, emptied>>
    BY DEF Begin, files
  <2> QED
    BY <2>1, BeginKinds
<1>1. ~Pending(t)' /\ ~Pending(t) /\ op'[t].pc \notin Writing
  BY <1>0 DEF Pending, Writing
<1>2. \A u \in Tasks : Pending(u)' => Pending(u) /\ op'[u] = op[u]
  BY <1>0, <1>1 DEF Pending
<1>3. \A g \in Groups, n \in Names : Claims(g, n)' => Claims(g, n)
  BY <1>0, <1>1, ClaimsSame
<1>4. \A g \in Groups, l \in Labels : InUse(g, l)' => InUse(g, l)
  BY <1>0, <1>1, InUseSame
<1>5. \A u \in Tasks : op'[u] # Idle /\ op'[u].kind = "save" /\ op'[u].pc \in {"scan", "reserve"} => op'[u].group = Missing
  BY <1>0 DEF SavesInv
<1>6. ~foreign' => \A u \in Tasks : op'[u] # Idle /\ op'[u].kind \in Naming => op'[u].kind = "save"
  BY <1>0 DEF SavesInv, Naming, Namers, Versioning
<1>7. CASE storage = "local"
  <2>1. \A u \in Tasks : Pending(u)' /\ op'[u].name \notin emptied' => op'[u].label \in shelf'[op'[u].name]
    BY <1>0, <1>2, <1>7 DEF SavesInv
  <2>2. \A v, u \in Tasks : v # u /\ Pending(v)' /\ Pending(u)' /\ op'[v].name = op'[u].name /\ op'[v].name \notin emptied' => op'[v].label # op'[u].label
    BY <1>0, <1>2, <1>7 DEF SavesInv
  <2>3. ~foreign' => collided' \subseteq emptied'
    BY <1>0, <1>7 DEF SavesInv
  <2>4. ASSUME ~foreign', NEW g \in Groups, NEW n \in Names, Claims(g, n)'
        PROVE  /\ \A m \in Names : Claims(g, m)' => m = n
               /\ n \notin emptied' => \A l \in Labels : InUse(g, l)' => l \in shelf'[n] /\ \A u \in Tasks : Pending(u)' /\ op'[u].name = n => op'[u].label # l
    <3>1. ~foreign
      BY <1>0, <2>4
    <3>2. /\ \A m \in Names : Claims(g, m) => m = n
          /\ n \notin emptied => \A l \in Labels : InUse(g, l) => l \in shelf[n] /\ \A u \in Tasks : Pending(u) /\ op[u].name = n => op[u].label # l
      BY <1>3, <1>7, <2>4, <3>1 DEF SavesInv
    <3>3. \A m \in Names : Claims(g, m)' => m = n
      BY <1>3, <3>2
    <3>4. n \notin emptied' => \A l \in Labels : InUse(g, l)' => l \in shelf'[n] /\ \A u \in Tasks : Pending(u)' /\ op'[u].name = n => op'[u].label # l
      BY <1>0, <1>2, <1>4, <3>2
    <3> QED
      BY <3>3, <3>4
  <2> QED
    BY <1>0, <1>5, <1>6, <2>1, <2>2, <2>3, <2>4 DEF SavesInv
<1>8. CASE storage # "local"
  BY <1>0, <1>5, <1>6, <1>8 DEF SavesInv
<1> QED
  BY <1>7, <1>8

LEMMA SavesIndex ==
    ASSUME Registry, SavesInv, NEW t \in Tasks, OpensIndex(t) \/ ClosesIndex(t)
    PROVE  SavesInv'
<1>0. /\ op[t].pc \in {"heal", "name", "healing", "naming"} /\ op[t] # Idle /\ op[t].at \in Groups
      /\ UNCHANGED <<storage, list, shelf, foreign, collided, emptied>> /\ \A u \in Tasks \ {t} : op'[u] = op[u]
  BY OpensIndexTo, ClosesIndexTo
<1>2. op'[t] = Idle \/ (op'[t].kind = op[t].kind /\ (op[t].kind = "describe" \/ op'[t].name = op[t].name) /\ op'[t].group = op[t].group /\ op'[t].label = op[t].label)
  BY Paths DEF SameAim, SamePlace
<1>3. op[t].then \in {"none", "find", "check", "name"}
  BY <1>0, AtWork DEF Doing
<1>4. op'[t] = Idle \/ op'[t].pc \notin {"scan", "reserve"} \cup Writing
  <2>1. op'[t] = Idle \/ op'[t].pc \in {"healing", "naming", "versions", op[t].then}
    BY Paths
  <2> QED
    BY <1>3, <2>1 DEF Writing
<1>5. Pending(t)' => Pending(t) /\ op[t].name \in Names /\ op'[t].group = op[t].group /\ op'[t].name = op[t].name /\ op'[t].label = op[t].label
  BY <1>0, <1>2, PendingOp DEF Pending
<1>6. ASSUME ~foreign, NEW g \in Groups, index'[g] \in Names PROVE Claims(g, index'[g])
  <2>1. DOMAIN index = Groups /\ Itself \notin Names /\ Corrupt \notin Names
    BY AssetVersionsAssumption DEF Registry, Types, AssetVersionsAssumption
  <2>2. CASE index'[g] = index[g]
    BY <2>2 DEF Claims
  <2>3. CASE index'[g] # index[g] /\ OpensIndex(t)
    <3>1. index' = [index EXCEPT ![op[t].at] = Opened(@)]
      BY <2>3, OpensIndexTo
    <3> QED
      BY <1>0, <1>6, <2>1, <2>3, <3>1 DEF Opened
  <2>4. CASE index'[g] # index[g] /\ ClosesIndex(t)
    <3>1. /\ op[t].pc \in {"healing", "naming"}
          /\ op[t].pc = "naming" => op[t].at = op[t].group /\ op[t].kind \in Naming
      BY <2>4, ClosesIndexTo
    <3>2. PICK new \in Closed(index[op[t].at], IF op[t].pc = "healing" THEN Itself ELSE op[t].name) :
              /\ index' = [index EXCEPT ![op[t].at] = new]
              /\ new \in {Corrupt, IF op[t].pc = "healing" THEN Itself ELSE op[t].name}
      BY <2>4, ClosesIndexTo
    <3>3. g = op[t].at /\ index'[g] = new
      BY <1>0, <2>1, <2>4, <3>2
    <3>4. op[t].pc = "naming" /\ new = op[t].name
      BY <1>6, <2>1, <3>1, <3>2, <3>3
    <3>5. op[t].kind = "save"
      BY <1>0, <1>6, <3>1, <3>4 DEF SavesInv
    <3>6. Pending(t) /\ op[t].group = g
      BY <1>0, <3>1, <3>3, <3>4, <3>5 DEF Pending
    <3> QED
      BY <3>3, <3>4, <3>6 DEF Claims
  <2> QED
    BY <2>2, <2>3, <2>4
<1>7. ~foreign => \A g \in Groups, n \in Names : Claims(g, n)' => Claims(g, n)
  <2>1. Pending(t)' /\ op'[t].group \in Groups /\ op'[t].name \in Names => Claims(op'[t].group, op'[t].name)
    BY <1>5 DEF Claims
  <2> QED
    BY <1>0, <1>6, <2>1, ClaimsShrink
<1>8. \A g \in Groups, l \in Labels : InUse(g, l)' => InUse(g, l)
  BY <1>0, <1>4, InUseSame DEF Idle, Writing
<1> QED
  BY <1>0, <1>2, <1>4, <1>5, <1>7, <1>8, SavesMove

LEMMA SavesFinds ==
    ASSUME Registry, SavesInv, NEW t \in Tasks, Looks(t) \/ FindsNone(t) \/ ReadsIndex(t)
    PROVE  SavesInv'
<1>1. CASE Looks(t)
  <2>1. /\ op[t].pc \in {"find", "check"} /\ op[t] # Idle
        /\ UNCHANGED <<storage, index, list, shelf, foreign, collided, emptied>> /\ \A u \in Tasks \ {t} : op'[u] = op[u]
    BY <1>1, LooksTo
  <2>2. PICK g \in op[t].left :
            \/ op'[t] = [kind |-> op[t].kind, pc |-> "heal", name |-> op[t].name, group |-> op[t].group, label |-> op[t].label,
                           left |-> op[t].left \ {g}, at |-> g, then |-> op[t].pc, copy |-> op[t].copy]
            \/ op'[t] = Idle
            \/ /\ index[g] = op[t].name
               /\ op'[t] = [kind |-> op[t].kind, pc |-> IF op[t].kind = "rename" THEN "name" ELSE "index", name |-> op[t].name, group |-> g,
                              label |-> op[t].label, left |-> {}, at |-> g, then |-> op[t].then, copy |-> op[t].copy]
            \/ op'[t] = [kind |-> op[t].kind, pc |-> op[t].pc, name |-> op[t].name, group |-> op[t].group, label |-> op[t].label,
                           left |-> op[t].left \ {g}, at |-> op[t].at, then |-> op[t].then, copy |-> op[t].copy]
    BY <1>1, LooksTo
  <2>3. g \in Groups
    BY <2>1, AtWork DEF Doing
  <2>4. \/ op'[t] = Idle
        \/ /\ op'[t].kind = op[t].kind /\ op'[t].name = op[t].name /\ op'[t].label = op[t].label
           /\ op'[t].pc \in {"heal", "name", "index", "find", "check"}
           /\ op'[t].group = op[t].group \/ (op'[t].group = g /\ index[g] = op[t].name)
    BY <2>1, <2>2
  <2> QED
    BY <2>1, <2>3, <2>4, SavesQuiet DEF Writing
<1>2. CASE FindsNone(t)
  <2>1. /\ op[t].pc \in {"find", "check"} /\ op[t] # Idle
        /\ UNCHANGED <<storage, index, list, shelf, foreign, collided, emptied>> /\ \A u \in Tasks \ {t} : op'[u] = op[u]
        /\ \/ op'[t] = [kind |-> op[t].kind, pc |-> "find", name |-> op[t].name, group |-> op[t].group, label |-> op[t].label,
                          left |-> Listed, at |-> op[t].at, then |-> op[t].then, copy |-> op[t].copy]
           \/ op'[t] = Idle
           \/ op'[t] = [kind |-> op[t].kind, pc |-> "name", name |-> op[t].name, group |-> op[t].group, label |-> op[t].label,
                             left |-> op[t].left, at |-> op[t].group, then |-> op[t].then, copy |-> op[t].copy]
           \/ /\ op[t].pc = "find" /\ op[t].kind \in {"save", "create", "register"}
              /\ \E g \in Groups \ (Listed \cup Claimed) :
                     op'[t] = [kind |-> op[t].kind, pc |-> "index", name |-> op[t].name, group |-> g, label |-> op[t].label,
                                left |-> op[t].left, at |-> g, then |-> op[t].then, copy |-> op[t].copy]
    BY <1>2, FindsNoneTo
  <2>2. ASSUME op[t].pc = "find", op[t].kind \in {"save", "create", "register"}, NEW g \in Groups \ (Listed \cup Claimed),
               op'[t] = [kind |-> op[t].kind, pc |-> "index", name |-> op[t].name, group |-> g, label |-> op[t].label,
                           left |-> op[t].left, at |-> g, then |-> op[t].then, copy |-> op[t].copy]
        PROVE  SavesInv'
    BY <2>1, <2>2, SavesFresh
  <2>3. CASE op'[t] = Idle
    BY <2>1, <2>3, SavesQuiet
  <2>4. CASE op'[t] = [kind |-> op[t].kind, pc |-> "find", name |-> op[t].name, group |-> op[t].group, label |-> op[t].label,
                         left |-> Listed, at |-> op[t].at, then |-> op[t].then, copy |-> op[t].copy]
    <3>1. /\ op'[t].kind = op[t].kind /\ op'[t].name = op[t].name /\ op'[t].label = op[t].label
          /\ op'[t].pc = "find" /\ op'[t].group = op[t].group
      BY <2>4
    <3> QED
      BY <2>1, <3>1, SavesQuiet DEF Writing
  <2>5. CASE op'[t] = [kind |-> op[t].kind, pc |-> "name", name |-> op[t].name, group |-> op[t].group, label |-> op[t].label,
                         left |-> op[t].left, at |-> op[t].group, then |-> op[t].then, copy |-> op[t].copy]
    <3>1. /\ op'[t].kind = op[t].kind /\ op'[t].name = op[t].name /\ op'[t].label = op[t].label
          /\ op'[t].pc = "name" /\ op'[t].group = op[t].group
      BY <2>5
    <3> QED
      BY <2>1, <3>1, SavesQuiet DEF Writing
  <2> QED
    BY <2>1, <2>2, <2>3, <2>4, <2>5
<1>3. CASE ReadsIndex(t)
  <2>1. /\ op[t].pc = "index" /\ op[t] # Idle
        /\ UNCHANGED <<storage, index, list, shelf, foreign, collided, emptied>> /\ \A u \in Tasks \ {t} : op'[u] = op[u]
    BY <1>3, ReadsIndexTo
  <2>2. op'[t].kind = op[t].kind /\ (op[t].kind = "describe" \/ op'[t].name = op[t].name) /\ op'[t].label = op[t].label /\ op'[t].group = op[t].group
    BY <1>3, Paths DEF SameAim, SamePlace
  <2>3. op'[t].pc \in {"heal", "find", "name", "versions"}
    BY <1>3, Paths
  <2> QED
    BY <2>1, <2>2, <2>3, SavesQuiet DEF Writing
<1> QED
  BY <1>1, <1>2, <1>3

(* A name whose folders are deleted is no longer looked at. *)
LEMMA SavesEmpties ==
    ASSUME Registry, SavesInv, NEW n \in Names, Empties(n)
    PROVE  SavesInv'
<1>1. /\ UNCHANGED <<storage, index, list, op, foreign, collided>> /\ emptied' = emptied \cup {n}
      /\ \A m \in Names \ {n} : shelf'[m] = shelf[m]
  BY DEF Empties, Registry, Types
<1>2. /\ \A u \in Tasks : Pending(u)' <=> Pending(u)
      /\ \A g \in Groups, m \in Names : Claims(g, m)' <=> Claims(g, m)
      /\ \A g \in Groups, l \in Labels : InUse(g, l)' <=> InUse(g, l)
  BY <1>1 DEF Pending, Claims, InUse, Stored, LabelsOf
<1>3. \A u \in Tasks : op'[u] # Idle /\ op'[u].kind = "save" /\ op'[u].pc \in {"scan", "reserve"} => op'[u].group = Missing
  BY <1>1 DEF SavesInv
<1>4. ~foreign' => \A u \in Tasks : op'[u] # Idle /\ op'[u].kind \in Naming => op'[u].kind = "save"
  BY <1>1 DEF SavesInv
<1>5. CASE storage = "local"
  <2>1. \A u \in Tasks : Pending(u)' /\ op'[u].name \notin emptied' => op'[u].label \in shelf'[op'[u].name]
    <3> SUFFICES ASSUME NEW u \in Tasks, Pending(u)', op'[u].name \notin emptied' PROVE op'[u].label \in shelf'[op'[u].name]
      OBVIOUS
    <3>1. Pending(u) /\ op[u].name \in Names \ {n} /\ op[u].name \notin emptied
      BY <1>1, <1>2, PendingOp
    <3> QED
      BY <1>1, <1>5, <3>1 DEF SavesInv
  <2>2. \A v, u \in Tasks : v # u /\ Pending(v)' /\ Pending(u)' /\ op'[v].name = op'[u].name /\ op'[v].name \notin emptied' => op'[v].label # op'[u].label
    BY <1>1, <1>2, <1>5 DEF SavesInv
  <2>3. ~foreign' => collided' \subseteq emptied'
    BY <1>1, <1>5 DEF SavesInv
  <2>4. ASSUME ~foreign', NEW g \in Groups, NEW k \in Names, Claims(g, k)'
        PROVE  /\ \A m \in Names : Claims(g, m)' => m = k
               /\ k \notin emptied' => \A l \in Labels : InUse(g, l)' => l \in shelf'[k] /\ \A u \in Tasks : Pending(u)' /\ op'[u].name = k => op'[u].label # l
    <3>1. /\ \A m \in Names : Claims(g, m) => m = k
          /\ k \notin emptied => \A l \in Labels : InUse(g, l) => l \in shelf[k] /\ \A u \in Tasks : Pending(u) /\ op[u].name = k => op[u].label # l
      BY <1>1, <1>2, <1>5, <2>4 DEF SavesInv
    <3>2. k \notin emptied' => \A l \in Labels : InUse(g, l)' => l \in shelf'[k] /\ \A u \in Tasks : Pending(u)' /\ op'[u].name = k => op'[u].label # l
      <4> SUFFICES ASSUME k \notin emptied', NEW l \in Labels, InUse(g, l)'
                   PROVE  l \in shelf'[k] /\ \A u \in Tasks : Pending(u)' /\ op'[u].name = k => op'[u].label # l
        OBVIOUS
      <4>1. k \notin emptied /\ k # n /\ shelf'[k] = shelf[k]
        BY <1>1
      <4> QED
        BY <1>1, <1>2, <3>1, <4>1
    <3> QED
      BY <1>2, <3>1, <3>2
  <2> QED
    BY <1>1, <1>3, <1>4, <1>5, <2>1, <2>2, <2>3, <2>4 DEF SavesInv
<1>6. CASE storage # "local"
  BY <1>1, <1>3, <1>4, <1>6 DEF SavesInv
<1> QED
  BY <1>5, <1>6

LEMMA SavesStep == Registry /\ SavesInv /\ [Next]_vars => SavesInv'
<1> SUFFICES ASSUME Registry, SavesInv, [Next]_vars PROVE SavesInv'
  OBVIOUS
<1>1. ASSUME NEW t \in Tasks, Begin(t) PROVE SavesInv'
  BY <1>1, SavesBegin
<1>2. ASSUME NEW t \in Tasks, Scans(t) PROVE SavesInv'
  <2>1. /\ op[t].pc = "scan" /\ op[t] # Idle /\ \A u \in Tasks \ {t} : op'[u] = op[u]
        /\ op'[t] = [kind |-> op[t].kind, pc |-> "reserve", name |-> op[t].name, group |-> op[t].group, label |-> NextFolder(op[t].name),
                       left |-> op[t].left, at |-> op[t].at, then |-> op[t].then, copy |-> op[t].copy]
        /\ UNCHANGED <<storage, index, list, shelf, foreign, collided, emptied>>
    BY <1>2, ScansTo
  <2>2. op'[t].kind = op[t].kind /\ op'[t].pc = "reserve" /\ op'[t].group = op[t].group
    BY <2>1
  <2>3. ~Pending(t)' /\ op'[t].pc \notin Writing
    BY <2>2 DEF Pending, Writing
  <2>4. \A g \in Groups, n \in Names : Claims(g, n)' => Claims(g, n)
    BY <2>1, <2>3, ClaimsSame
  <2>5. \A g \in Groups, l \in Labels : InUse(g, l)' => InUse(g, l)
    BY <2>1, <2>3, InUseSame
  <2> QED
    BY <2>1, <2>2, <2>3, <2>4, <2>5, SavesMove
<1>3. ASSUME NEW t \in Tasks, Reserves(t) PROVE SavesInv'
  BY <1>3, SavesReserves
<1>4. ASSUME NEW t \in Tasks, Copies(t) PROVE SavesInv'
  <2>1. /\ op[t].pc = "copy" /\ op[t] # Idle /\ op[t].kind = "save" /\ op[t].name \in Names /\ \A u \in Tasks \ {t} : op'[u] = op[u]
        /\ op'[t] = [kind |-> op[t].kind, pc |-> "find", name |-> op[t].name, group |-> op[t].group, label |-> op[t].label,
                       left |-> Listed, at |-> op[t].at, then |-> op[t].then, copy |-> op[t].copy]
        /\ shelf' = [shelf EXCEPT ![op[t].name] = @ \cup {op[t].label}]
        /\ UNCHANGED <<storage, index, list, foreign, collided, emptied>>
    BY <1>4, CopiesTo
  <2>2. /\ op'[t].kind = op[t].kind /\ op'[t].pc = "find" /\ op'[t].group = op[t].group /\ op'[t].name = op[t].name
        /\ op'[t].label = op[t].label
    BY <2>1
  <2>3. Pending(t) /\ op'[t].pc \notin Writing
    BY <2>1, <2>2 DEF Pending, Writing
  <2>4. \A g \in Groups, n \in Names : Claims(g, n)' => Claims(g, n)
    BY <2>1, <2>2, <2>3, ClaimsSame
  <2>5. \A g \in Groups, l \in Labels : InUse(g, l)' => InUse(g, l)
    BY <2>1, <2>3, InUseSame
  <2>6. \A n \in Names : shelf[n] \subseteq shelf'[n]
    BY <2>1 DEF Registry, Types
  <2> QED
    BY <2>1, <2>2, <2>3, <2>4, <2>5, <2>6, SavesMove
<1>5. ASSUME NEW t \in Tasks, Looks(t) \/ FindsNone(t) \/ ReadsIndex(t) PROVE SavesInv'
  BY <1>5, SavesFinds
<1>6. ASSUME NEW t \in Tasks, OpensIndex(t) \/ ClosesIndex(t) PROVE SavesInv'
  BY <1>6, SavesIndex
<1>7. ASSUME NEW t \in Tasks, ReadsVersions(t) PROVE SavesInv'
  <2>1. /\ op[t].pc = "versions" /\ op[t] # Idle /\ op[t].group \in Groups
        /\ UNCHANGED <<storage, index, list, shelf, foreign, emptied>>
        /\ \/ op[t].kind = "drop" /\ Ends(t) /\ UNCHANGED <<raced, collided>>
           \/ op[t].kind # "drop" /\ Updates(t, Stored(op[t].group))
    BY <1>7, ReadsVersionsTo
  <2>2. CASE op[t].kind = "drop" /\ Ends(t) /\ UNCHANGED <<raced, collided>>
    <3>1. op'[t] = Idle /\ \A u \in Tasks \ {t} : op'[u] = op[u]
      BY <2>2, EndsTo DEF Registry
    <3> QED
      BY <2>1, <2>2, <3>1, SavesQuiet
  <2>3. CASE op[t].kind # "drop" /\ Updates(t, Stored(op[t].group))
    BY <2>1, <2>3, StoredSound, SavesUpdates
  <2> QED
    BY <2>1, <2>2, <2>3
<1>8. ASSUME NEW t \in Tasks, OpensList(t) PROVE SavesInv'
  <2>1. /\ op[t].pc = "put" /\ op[t] # Idle /\ op[t].group \in Groups /\ \A u \in Tasks \ {t} : op'[u] = op[u]
        /\ op'[t] = [kind |-> op[t].kind, pc |-> "putting", name |-> op[t].name, group |-> op[t].group, label |-> op[t].label,
                       left |-> op[t].left, at |-> op[t].at, then |-> op[t].then, copy |-> op[t].copy]
        /\ list' = [list EXCEPT ![op[t].group] = Opened(@)]
        /\ UNCHANGED <<storage, index, shelf, foreign, collided, emptied>>
    BY <1>8, OpensListTo
  <2>2. /\ op'[t].kind = op[t].kind /\ op'[t].pc = "putting" /\ op'[t].group = op[t].group /\ op'[t].name = op[t].name
        /\ op'[t].label = op[t].label /\ op'[t].copy = op[t].copy
    BY <2>1
  <2>3. Pending(t)' => Pending(t) /\ op[t].name \in Names
    <3>1. Pending(t)' => Pending(t)
      BY <2>1, <2>2 DEF Pending
    <3> QED
      BY <3>1, PendingOp
  <2>4. \A g \in Groups, n \in Names : Claims(g, n)' => Claims(g, n)
    BY <2>1, <2>2, <2>3, ClaimsSame
  <2>5. \A g \in Groups, l \in Labels : l \in LabelsOf(Stored(g))' => InUse(g, l)
    <3> SUFFICES ASSUME NEW g \in Groups, NEW l \in Labels, l \in LabelsOf(Stored(g))' PROVE InUse(g, l)
      OBVIOUS
    <3>1. Stored(g)' = Stored(g) \/ Stored(g)' = <<>>
      BY <2>1 DEF Stored, Opened, Registry, Types
    <3>2. l \in LabelsOf(Stored(g))
      BY <3>1 DEF LabelsOf
    <3> QED
      BY <3>2 DEF InUse
  <2>6. \A l \in Labels : l \in LabelsOf(op'[t].copy) \ (IF op'[t].kind = "save" THEN {op'[t].label} ELSE {}) => InUse(op'[t].group, l)
    BY <2>1, <2>2 DEF InUse, Writing
  <2>7. \A g \in Groups, l \in Labels : InUse(g, l)' => InUse(g, l)
    BY <2>1, <2>5, <2>6, InUseShrink
  <2> QED
    BY <2>1, <2>2, <2>3, <2>4, <2>7, SavesMove
<1>9. ASSUME NEW t \in Tasks, ClosesList(t) PROVE SavesInv'
  BY <1>9, SavesCloses
<1>10. ASSUME NEW t \in Tasks, ReadFails(t) PROVE SavesInv'
  <2>1. /\ op[t] # Idle /\ \A u \in Tasks \ {t} : op'[u] = op[u]
        /\ UNCHANGED <<storage, index, list, shelf, foreign, emptied>>
    BY <1>10, ReadFailsTo
  <2>2. CASE op[t].pc = "versions" /\ op[t].kind # "drop" /\ Updates(t, <<>>)
    <3>1. op[t].group \in Groups
      BY <2>1, <2>2, AtWork DEF Placed
    <3>2. LabelsOf(<<>>) = {}
      BY DEF LabelsOf
    <3> QED
      BY <2>1, <2>2, <3>1, <3>2, SoundEmpty, SavesUpdates
  <2>3. CASE op[t].pc = "versions" /\ op[t].kind = "drop" /\ op'[t] = Idle /\ UNCHANGED <<raced, collided>>
    BY <2>1, <2>3, SavesQuiet
  <2>4. ASSUME op[t].pc \in {"find", "check", "index"}, collided' = collided, op'[t].pc \in {"heal", "find", "check"},
               op'[t].kind = op[t].kind, op[t].kind = "describe" \/ op'[t].name = op[t].name, op'[t].label = op[t].label, op'[t].group = op[t].group
        PROVE  SavesInv'
    BY <2>1, <2>4, SavesQuiet DEF Writing
  <2>5. ASSUME op[t].pc \in {"find", "check"}, collided' = collided, NEW g \in op[t].left,
               op'[t] = [kind |-> op[t].kind, pc |-> "heal", name |-> op[t].name, group |-> op[t].group, label |-> op[t].label,
                           left |-> op[t].left \ {g}, at |-> g, then |-> op[t].pc, copy |-> op[t].copy]
        PROVE  SavesInv'
    BY <2>4, <2>5
  <2>6. CASE /\ op[t].pc \in {"find", "check"} /\ collided' = collided
             /\ op'[t] = [kind |-> op[t].kind, pc |-> op[t].pc, name |-> op[t].name, group |-> op[t].group, label |-> op[t].label,
                            left |-> {}, at |-> op[t].at, then |-> op[t].then, copy |-> op[t].copy]
    BY <2>4, <2>6
  <2>7. CASE /\ op[t].pc = "index" /\ collided' = collided
             /\ op'[t] = [kind |-> op[t].kind, pc |-> "heal", name |-> NameFor(t, Itself), group |-> op[t].group, label |-> op[t].label,
                            left |-> Listed, at |-> op[t].at, then |-> AfterIndex(t), copy |-> op[t].copy]
    BY <2>4, <2>7 DEF NameFor
  <2> QED
    BY <1>10, <2>2, <2>3, <2>5, <2>6, <2>7, ReadFailsTo
<1>11. ASSUME NEW t \in Tasks, Dies(t) PROVE SavesInv'
  <2>1. /\ op[t] # Idle /\ UNCHANGED <<storage, shelf, foreign, collided, emptied>>
        /\ \A u \in Tasks \ {t} : op'[u] = op[u]
        /\ \/ op'[t] = Idle
           \/ /\ op[t].pc \in Healing /\ op[t].then \in {"find", "check"}
              /\ op'[t] = [kind |-> op[t].kind, pc |-> op[t].then, name |-> op[t].name, group |-> op[t].group, label |-> op[t].label,
                             left |-> op[t].left, at |-> op[t].group, then |-> "none", copy |-> op[t].copy]
        /\ UNCHANGED <<index, list>> \/ storage = "object"
    BY <1>11, DiesTo
  <2>2. \/ op'[t] = Idle
        \/ /\ op[t].pc \in Healing /\ op'[t].pc \in {"find", "check"}
           /\ op'[t].kind = op[t].kind /\ op'[t].name = op[t].name /\ op'[t].label = op[t].label /\ op'[t].group = op[t].group
    BY <2>1
  <2>3. CASE UNCHANGED <<index, list>>
    <3>1. op'[t] = Idle \/
             /\ op[t] # Idle /\ op'[t].kind = op[t].kind /\ op'[t].label = op[t].label
             /\ op[t].kind = "describe" \/ op'[t].name = op[t].name
             /\ op[t].pc \notin {"scan", "reserve"} /\ op'[t].pc \notin {"scan", "reserve"} \cup Writing
             /\ op'[t].group = op[t].group
      BY <2>1, <2>2 DEF Healing, Writing
    <3> QED
      BY <2>1, <2>3, <3>1, SavesQuiet
  <2>4. CASE storage = "object"
    <3>1. storage' # "local" /\ foreign' = foreign
      BY <2>1, <2>4
    <3>2. \A u \in Tasks : op'[u] # Idle /\ op'[u].kind = "save" /\ op'[u].pc \in {"scan", "reserve"} => op'[u].group = Missing
      BY <2>1, <2>2 DEF SavesInv
    <3>3. ~foreign => \A u \in Tasks : op'[u] # Idle /\ op'[u].kind \in Naming => op'[u].kind = "save"
      BY <2>1, <2>2 DEF SavesInv
    <3> QED
      BY <3>1, <3>2, <3>3 DEF SavesInv
  <2> QED
    BY <2>1, <2>3, <2>4
<1>12. ASSUME NEW n \in Names, Empties(n) PROVE SavesInv'
  BY <1>12, SavesEmpties
<1>13. CASE UNCHANGED vars
  <2>1. UNCHANGED <<storage, index, list, shelf, op, foreign, collided, emptied>>
    BY <1>13 DEF vars, files, history
  <2> QED
    BY <2>1 DEF SavesInv, Pending, Claims, InUse, Stored, LabelsOf
<1> QED
  BY <1>1, <1>2, <1>3, <1>4, <1>5, <1>6, <1>7, <1>8, <1>9, <1>10, <1>11, <1>12, <1>13 DEF Next, Moves

(* On a local workspace two background saves never copy into one folder,   *)
(* as long as the folders of their name were not deleted, and none loses   *)
(* its label between "started" and create_version, as long as besides only *)
(* saves number versions and name groups: makedirs of the folder reserves  *)
(* the label (save_model_to_registry, save_dataset_to_registry).           *)
THEOREM SavesKeepApart == Spec => []SavesApart
<1>1. Registry /\ SavesInv => SavesApart
  <2> SUFFICES ASSUME Registry, SavesInv, storage = "local" PROVE SavesApart
    BY DEF SavesApart
  <2>1. ASSUME NEW t \in Tasks, NEW u \in Tasks, t # u, At(t, "copy"), At(u, "copy"), op[t].name = op[u].name
        PROVE  op[t].label # op[u].label \/ op[t].name \in emptied
    <3>1. \A w \in Tasks : At(w, "copy") => Pending(w)
      BY AtPlace, AtWork DEF Placed, Pending
    <3> QED
      BY <2>1, <3>1 DEF SavesInv
  <2>2. ~foreign => collided \subseteq emptied
    BY DEF SavesInv
  <2> QED
    BY <2>1, <2>2 DEF SavesApart
<1> QED
  BY <1>1, SavesInit, SavesStep, RegistryHolds, PTL DEF Spec
===============================================================================
