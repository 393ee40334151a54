--------------------------- MODULE QuotaLedgerProofs ---------------------------
(***************************************************************************)
(* Theorems about QuotaLedger, for any jobs, minutes, ends of jobs,        *)
(* changes of the limit, months and restarts.                              *)
(***************************************************************************)
EXTENDS QuotaLedger, FiniteSetTheorems, WellFoundedInduction, TLAPS

-------------------------------------------------------------------------------
(* Sums.  SumFunctionOnSet is a recursive function on the subsets of what  *)
(* is summed, so what it returns is shown by induction on their sizes.     *)

Smaller == {p \in Nat \X Nat : p[1] < p[2]}

(* A set of naturals with 0 and every successor has them all. *)
LEMMA SizeInduction ==
    ASSUME NEW T, 0 \in T, \A n \in Nat : n \in T => n + 1 \in T
    PROVE  \A n \in Nat : n \in T
<1>1. IsWellFoundedOn(Smaller, Nat)
  BY NatLessThanWellFounded DEF OpToRel, Smaller
<1> SUFFICES ASSUME Nat \ T # {} PROVE FALSE
  OBVIOUS
<1>2. PICK x \in Nat \ T : \A y \in Nat \ T : ~ (<<y, x>> \in Smaller)
  <2>1. Nat \ T \subseteq Nat
    OBVIOUS
  <2> QED
    BY ONLY <1>1, <2>1, Nat \ T # {}, WFMin, Zenon
<1>3. x - 1 \in Nat /\ x - 1 \in T
  <2>1. x \in Nat /\ x # 0
    OBVIOUS
  <2>2. x - 1 \in Nat /\ x - 1 < x
    BY <2>1
  <2> QED
    BY <1>2, <2>1, <2>2 DEF Smaller
<1>4. (x - 1) + 1 \in T
  BY <1>3
<1> QED
  BY <1>2, <1>4

Some(T) == CHOOSE x \in T : TRUE

LEMMA SomeLess ==
    ASSUME NEW T, IsFiniteSet(T), T # {}
    PROVE  /\ Some(T) \in T /\ IsFiniteSet(T \ {Some(T)})
           /\ Cardinality(T) \in Nat /\ Cardinality(T) # 0
           /\ Cardinality(T \ {Some(T)}) = Cardinality(T) - 1
<1>1. Some(T) \in T
  BY DEF Some
<1> QED
  BY <1>1, FS_RemoveElement, FS_CardinalityType, FS_EmptySet

(* What has {}, and has a set when it has the set less one element, has     *)
(* every subset of a finite set.                                           *)
LEMMA SubsetInduction ==
    ASSUME NEW S, IsFiniteSet(S), NEW P, {} \in P,
           \A T \in SUBSET S : T # {} /\ T \ {Some(T)} \in P => T \in P
    PROVE  \A T \in SUBSET S : T \in P
<1> DEFINE Good == {n \in Nat : \A T \in SUBSET S : Cardinality(T) = n => T \in P}
<1>1. \A T \in SUBSET S : IsFiniteSet(T)
  BY FS_Subset
<1>2. 0 \in Good
  BY <1>1, FS_EmptySet
<1>3. ASSUME NEW n \in Nat, n \in Good PROVE n + 1 \in Good
  <2> SUFFICES ASSUME NEW T \in SUBSET S, Cardinality(T) = n + 1 PROVE T \in P
    OBVIOUS
  <2>1. T # {} /\ IsFiniteSet(T)
    BY <1>1, FS_EmptySet
  <2>2. Cardinality(T \ {Some(T)}) = n
    BY <2>1, SomeLess
  <2>3. T \ {Some(T)} \in P
    BY <1>3, <2>2
  <2> QED
    BY <2>1, <2>3
<1>4. \A n \in Nat : n \in Good
  <2> HIDE DEF Good
  <2> QED
    BY <1>2, <1>3, SizeInduction
<1> SUFFICES ASSUME NEW T \in SUBSET S PROVE T \in P
  OBVIOUS
<1>5. Cardinality(T) \in Nat
  BY <1>1, FS_CardinalityType
<1> QED
  BY <1>4, <1>5

Plus(f, g, T) == IF T = {} THEN 0 ELSE f[Some(T)] + g[T \ {Some(T)}]

(* The recursive function of a sum exists. *)
LEMMA SumDef ==
    ASSUME NEW S, IsFiniteSet(S), NEW f
    PROVE  \E g : g = [T \in SUBSET S |-> Plus(f, g, T)] /\ SumFunctionOnSet(f, S) = g[S]
<1> DEFINE UpTo(n) == {T \in SUBSET S : Cardinality(T) <= n}
           Defined == {n \in Nat : \E g : g = [T \in UpTo(n) |-> Plus(f, g, T)]}
           G == CHOOSE g : g = [T \in SUBSET S |-> Plus(f, g, T)]
<1>0. \A T \in SUBSET S : IsFiniteSet(T) /\ Cardinality(T) \in Nat
  BY FS_Subset, FS_CardinalityType
<1>1. 0 \in Defined
  <2> DEFINE g == [T \in UpTo(0) |-> 0]
  <2>1. ASSUME NEW T \in UpTo(0) PROVE Plus(f, g, T) = 0
    BY <1>0, FS_EmptySet DEF Plus
  <2>2. g = [T \in UpTo(0) |-> Plus(f, g, T)]
    BY <2>1
  <2> QED
    BY <2>2
<1>2. ASSUME NEW n \in Nat, n \in Defined PROVE n + 1 \in Defined
  <2>1. PICK h : h = [T \in UpTo(n) |-> Plus(f, h, T)]
    BY <1>2
  <2> DEFINE g == [T \in UpTo(n + 1) |-> Plus(f, h, T)]
  <2>2. ASSUME NEW T \in UpTo(n + 1) PROVE Plus(f, h, T) = Plus(f, g, T)
    <3>1. CASE T = {}
      BY <3>1 DEF Plus
    <3>2. CASE T # {}
      <4> DEFINE U == T \ {Some(T)}
      <4>1. U \in SUBSET S /\ Cardinality(U) <= n
        BY <1>0, <3>2, SomeLess
      <4>2. U \in UpTo(n) /\ U \in UpTo(n + 1)
        BY <1>0, <4>1
      <4>3. h[U] = Plus(f, h, U) /\ g[U] = Plus(f, h, U)
        BY <2>1, <4>2
      <4> QED
        BY <3>2, <4>3 DEF Plus
    <3> QED
      BY <3>1, <3>2
  <2>3. g = [T \in UpTo(n + 1) |-> Plus(f, g, T)]
    BY <2>2
  <2> HIDE DEF g
  <2> QED
    BY <2>3
<1>3. Cardinality(S) \in Defined
  <2> HIDE DEF Defined
  <2> QED
    BY <1>0, <1>1, <1>2, SizeInduction
<1>4. UpTo(Cardinality(S)) = SUBSET S
  BY <1>0, FS_Subset
<1>5. \E g : g = [T \in SUBSET S |-> Plus(f, g, T)]
  BY <1>3, <1>4
<1>6. G = [T \in SUBSET S |-> Plus(f, G, T)]
  BY <1>5, Zenon
<1>7. SumFunctionOnSet(f, S) = G[S]
  BY DEF SumFunctionOnSet, FoldFunctionOnSet, MapThenFoldSet, Plus, Some
<1> QED
  BY <1>6, <1>7

LEMMA SumInt ==
    ASSUME NEW S, IsFiniteSet(S), NEW f, \A x \in S : f[x] \in Int
    PROVE  SumFunctionOnSet(f, S) \in Int
<1>1. PICK g : g = [T \in SUBSET S |-> Plus(f, g, T)] /\ SumFunctionOnSet(f, S) = g[S]
  BY SumDef
<1> DEFINE P == {T \in SUBSET S : g[T] \in Int}
<1>2. {} \in P
  BY <1>1 DEF Plus
<1>3. ASSUME NEW T \in SUBSET S, T # {}, T \ {Some(T)} \in P PROVE T \in P
  <2>1. Some(T) \in S
    BY <1>3 DEF Some
  <2>2. g[T] = f[Some(T)] + g[T \ {Some(T)}]
    BY <1>1, <1>3 DEF Plus
  <2>3. g[T \ {Some(T)}] \in Int
    BY <1>3
  <2> QED
    BY <2>1, <2>2, <2>3
<1>4. \A T \in SUBSET S : T \in P
  <2> HIDE DEF P
  <2> QED
    BY <1>2, <1>3, SubsetInduction
<1> QED
  BY <1>1, <1>4

(* One summand more or less. *)
LEMMA SumChange ==
    ASSUME NEW S, IsFiniteSet(S), NEW k \in S,
           NEW f, \A x \in S : f[x] \in Int,
           NEW h, \A x \in S : h[x] \in Int,
           \A x \in S \ {k} : h[x] = f[x]
    PROVE  SumFunctionOnSet(h, S) = SumFunctionOnSet(f, S) + h[k] - f[k]
<1>1. PICK a : a = [T \in SUBSET S |-> Plus(f, a, T)] /\ SumFunctionOnSet(f, S) = a[S]
  BY SumDef
<1>2. PICK b : b = [T \in SUBSET S |-> Plus(h, b, T)] /\ SumFunctionOnSet(h, S) = b[S]
  BY SumDef
<1> DEFINE Gap(T) == IF k \in T THEN h[k] - f[k] ELSE 0
           P == {T \in SUBSET S : a[T] \in Int /\ b[T] = a[T] + Gap(T)}
<1>3. {} \in P
  BY <1>1, <1>2 DEF Plus
<1>4. ASSUME NEW T \in SUBSET S, T # {}, T \ {Some(T)} \in P PROVE T \in P
  <2> DEFINE U == T \ {Some(T)}
  <2>1. Some(T) \in T /\ Some(T) \in S
    BY <1>4 DEF Some
  <2>2. a[T] = f[Some(T)] + a[U] /\ b[T] = h[Some(T)] + b[U]
    BY <1>1, <1>2, <1>4 DEF Plus
  <2>3. a[U] \in Int /\ b[U] = a[U] + Gap(U)
    BY <1>4
  <2>4. CASE Some(T) = k
    BY <2>1, <2>2, <2>3, <2>4
  <2>5. CASE Some(T) # k
    BY <2>1, <2>2, <2>3, <2>5
  <2> QED
    BY <2>4, <2>5
<1>5. \A T \in SUBSET S : T \in P
  <2> HIDE DEF P
  <2> QED
    BY <1>3, <1>4, SubsetInduction
<1> QED
  BY <1>1, <1>2, <1>5

(* Summands that are no greater make a sum that is no greater. *)
LEMMA SumOrdered ==
    ASSUME NEW S, IsFiniteSet(S),
           NEW f, \A x \in S : f[x] \in Int,
           NEW h, \A x \in S : h[x] \in Int,
           \A x \in S : h[x] <= f[x]
    PROVE  SumFunctionOnSet(h, S) <= SumFunctionOnSet(f, S)
<1>1. PICK a : a = [T \in SUBSET S |-> Plus(f, a, T)] /\ SumFunctionOnSet(f, S) = a[S]
  BY SumDef
<1>2. PICK b : b = [T \in SUBSET S |-> Plus(h, b, T)] /\ SumFunctionOnSet(h, S) = b[S]
  BY SumDef
<1> DEFINE P == {T \in SUBSET S : a[T] \in Int /\ b[T] \in Int /\ b[T] <= a[T]}
<1>3. {} \in P
  BY <1>1, <1>2 DEF Plus
<1>4. ASSUME NEW T \in SUBSET S, T # {}, T \ {Some(T)} \in P PROVE T \in P
  <2> DEFINE U == T \ {Some(T)}
  <2>1. Some(T) \in S
    BY <1>4 DEF Some
  <2>2. a[T] = f[Some(T)] + a[U] /\ b[T] = h[Some(T)] + b[U]
    BY <1>1, <1>2, <1>4 DEF Plus
  <2>3. a[U] \in Int /\ b[U] \in Int /\ b[U] <= a[U]
    BY <1>4
  <2> QED
    BY <2>1, <2>2, <2>3
<1>5. \A T \in SUBSET S : T \in P
  <2> HIDE DEF P
  <2> QED
    BY <1>3, <1>4, SubsetInduction
<1> QED
  BY <1>1, <1>2, <1>5

(* No summand, one summand. *)
LEMMA SumFew ==
    ASSUME NEW f
    PROVE  /\ SumFunctionOnSet(f, {}) = 0
           /\ \A x : f[x] \in Int => SumFunctionOnSet(f, {x}) = f[x]
<1>1. SumFunctionOnSet(f, {}) = 0
  <2>1. PICK g : g = [T \in SUBSET {} |-> Plus(f, g, T)] /\ SumFunctionOnSet(f, {}) = g[{}]
    BY SumDef, FS_EmptySet
  <2> QED
    BY <2>1 DEF Plus
<1>2. ASSUME NEW x, f[x] \in Int PROVE SumFunctionOnSet(f, {x}) = f[x]
  <2>1. PICK g : g = [T \in SUBSET {x} |-> Plus(f, g, T)] /\ SumFunctionOnSet(f, {x}) = g[{x}]
    BY SumDef, FS_Singleton
  <2>2. Some({x}) = x
    BY DEF Some
  <2>3. g[{}] = 0 /\ g[{x}] = f[x] + g[{}]
    <3>1. {x} \ {x} = {}
      OBVIOUS
    <3>2. {} \in SUBSET {x} /\ {x} \in SUBSET {x} /\ {x} # {}
      OBVIOUS
    <3> QED
      BY <2>1, <2>2, <3>1, <3>2 DEF Plus
  <2> QED
    BY <1>2, <2>1, <2>3
<1> QED
  BY <1>1, <1>2
-------------------------------------------------------------------------------
(* What the ledger's sums are, and how a row or a hold changes them.       *)

LEMMA MinutesInt ==
    ASSUME NEW rows \in Seq(Rows), NEW m
    PROVE  MinutesIn(rows, m) \in Int
<1> DEFINE f == [i \in DOMAIN rows |-> rows[i].minutes]
           S == {i \in DOMAIN rows : rows[i].month = m}
<1>1. IsFiniteSet(S)
  <2>1. DOMAIN rows = 1 .. Len(rows) /\ Len(rows) \in Nat
    OBVIOUS
  <2>2. IsFiniteSet(1 .. Len(rows))
    BY <2>1, FS_Interval
  <2>3. S \subseteq 1 .. Len(rows)
    BY <2>1
  <2> QED
    BY <2>2, <2>3, FS_Subset
<1>2. ASSUME NEW i \in S PROVE f[i] \in Int
  <2>1. i \in DOMAIN rows /\ rows[i] \in Rows
    OBVIOUS
  <2>2. rows[i].minutes \in Int
    BY <2>1, QuotaAssumption DEF QuotaAssumption, Rows, Minutes
  <2> QED
    BY <2>1, <2>2
<1> HIDE DEF f, S
<1>3. SumFunctionOnSet(f, S) \in Int
  BY <1>1, <1>2, SumInt
<1> QED
  BY <1>3 DEF MinutesIn, f, S

LEMMA MinutesFew ==
    ASSUME NEW m
    PROVE  /\ MinutesIn(<<>>, m) = 0
           /\ \A row \in Rows : MinutesIn(<<row>>, m) = IF row.month = m THEN row.minutes ELSE 0
<1>1. MinutesIn(<<>>, m) = 0
  <2>1. {i \in DOMAIN <<>> : (<<>>)[i].month = m} = {}
    OBVIOUS
  <2> QED
    BY <2>1, SumFew DEF MinutesIn
<1>2. ASSUME NEW row \in Rows PROVE MinutesIn(<<row>>, m) = IF row.month = m THEN row.minutes ELSE 0
  <2> DEFINE f == [i \in DOMAIN <<row>> |-> (<<row>>)[i].minutes]
             S == {i \in DOMAIN <<row>> : (<<row>>)[i].month = m}
  <2>1. f[1] = row.minutes /\ f[1] \in Int /\ S = IF row.month = m THEN {1} ELSE {}
    BY QuotaAssumption DEF QuotaAssumption, Rows, Minutes
  <2>2. MinutesIn(<<row>>, m) = SumFunctionOnSet(f, S)
    BY DEF MinutesIn
  <2> HIDE DEF f, S
  <2> QED
    BY <2>1, <2>2, SumFew
<1> QED
  BY <1>1, <1>2

LEMMA UsedInt ==
    ASSUME TypeOK, NEW m
    PROVE  UsedIn(m) \in Int
<1> DEFINE f == [j \in Jobs |-> MinutesIn(usage[j], m)]
<1>1. \A j \in Jobs : f[j] \in Int
  BY MinutesInt DEF TypeOK, LedgerType
<1>2. IsFiniteSet(Jobs)
  BY QuotaAssumption DEF QuotaAssumption
<1> HIDE DEF f
<1>3. SumFunctionOnSet(f, Jobs) \in Int
  BY <1>1, <1>2, SumInt
<1> QED
  BY <1>3 DEF UsedIn, f

LEMMA ReservedInt == ASSUME TypeOK, NEW j \in Jobs PROVE Reserved(j) \in Nat
  BY QuotaAssumption DEF QuotaAssumption, TypeOK, LaunchType, Minutes, Reserved

LEMMA HeldInt == TypeOK => HeldMinutes \in Int
<1> SUFFICES ASSUME TypeOK PROVE HeldMinutes \in Int
  OBVIOUS
<1> DEFINE f == [j \in Jobs |-> Reserved(j)]
<1>1. \A j \in Jobs : f[j] \in Int
  BY ReservedInt
<1>2. IsFiniteSet(Jobs)
  BY QuotaAssumption DEF QuotaAssumption
<1> HIDE DEF f
<1>3. SumFunctionOnSet(f, Jobs) \in Int
  BY <1>1, <1>2, SumInt
<1> QED
  BY <1>3 DEF HeldMinutes, f

(* The first usage row of a job adds its minutes. *)
LEMMA UsedCharged ==
    ASSUME TypeOK, NEW j \in Jobs, usage[j] = <<>>, NEW m \in Minutes, month' = month,
           usage' = [usage EXCEPT ![j] = Append(@, [minutes |-> m, month |-> month])]
    PROVE  UsedIn(month)' = UsedIn(month) + m
<1> DEFINE f == [i \in Jobs |-> MinutesIn(usage[i], month)]
           h == [i \in Jobs |-> MinutesIn(usage'[i], month)]
           row == [minutes |-> m, month |-> month]
<1>0. m \in Int
  BY QuotaAssumption DEF QuotaAssumption, Minutes
<1>1. row \in Rows
  BY DEF TypeOK, LedgerType, Rows
<1>2. usage' \in [Jobs -> Seq(Rows)] /\ usage'[j] = <<row>> /\ \A i \in Jobs \ {j} : usage'[i] = usage[i]
  BY <1>1 DEF TypeOK, LedgerType
<1>3. \A i \in Jobs : f[i] \in Int /\ h[i] \in Int
  BY <1>2, MinutesInt DEF TypeOK, LedgerType
<1>4. f[j] = 0 /\ h[j] = m /\ \A i \in Jobs \ {j} : h[i] = f[i]
  <2>1. f[j] = 0
    BY MinutesFew
  <2>2. row.month = month /\ row.minutes = m
    OBVIOUS
  <2>3. MinutesIn(<<row>>, month) = m
    <3> HIDE DEF row
    <3> QED
      BY <1>1, <2>2, MinutesFew
  <2>4. h[j] = m
    BY <1>2, <2>3
  <2> QED
    BY <2>1, <2>4, <1>2
<1>5. UsedIn(month) = SumFunctionOnSet(f, Jobs) /\ UsedIn(month)' = SumFunctionOnSet(h, Jobs)
  BY DEF UsedIn
<1>6. IsFiniteSet(Jobs)
  BY QuotaAssumption DEF QuotaAssumption
<1> HIDE DEF f, h
<1>7. SumFunctionOnSet(h, Jobs) = SumFunctionOnSet(f, Jobs) + h[j] - f[j]
  BY <1>3, <1>4, <1>6, SumChange
<1>8. SumFunctionOnSet(f, Jobs) \in Int
  BY <1>3, <1>6, SumInt
<1> QED
  BY <1>0, <1>4, <1>5, <1>7, <1>8

(* One job's reservation changes. *)
LEMMA HeldChange ==
    ASSUME TypeOK, TypeOK', NEW j \in Jobs, \A i \in Jobs \ {j} : Reserved(i)' = Reserved(i)
    PROVE  HeldMinutes' = HeldMinutes + Reserved(j)' - Reserved(j)
<1> DEFINE f == [i \in Jobs |-> Reserved(i)]
           h == [i \in Jobs |-> Reserved(i)']
<1>1. \A i \in Jobs : f[i] \in Int /\ h[i] \in Int
  <2>1. \A i \in Jobs : Reserved(i)' \in Nat
    BY QuotaAssumption DEF QuotaAssumption, TypeOK, LaunchType, Minutes, Reserved
  <2> QED
    BY <2>1, ReservedInt
<1>2. f[j] = Reserved(j) /\ h[j] = Reserved(j)' /\ \A i \in Jobs \ {j} : h[i] = f[i]
  OBVIOUS
<1>3. HeldMinutes = SumFunctionOnSet(f, Jobs) /\ HeldMinutes' = SumFunctionOnSet(h, Jobs)
  BY DEF HeldMinutes
<1>4. IsFiniteSet(Jobs)
  BY QuotaAssumption DEF QuotaAssumption
<1> HIDE DEF f, h
<1>5. SumFunctionOnSet(h, Jobs) = SumFunctionOnSet(f, Jobs) + h[j] - f[j]
  BY <1>1, <1>2, <1>4, SumChange
<1> QED
  BY <1>2, <1>3, <1>5

LEMMA HeldSame ==
    ASSUME \A i \in Jobs : Reserved(i)' = Reserved(i)
    PROVE  HeldMinutes' = HeldMinutes
<1> DEFINE f == [i \in Jobs |-> Reserved(i)]
           h == [i \in Jobs |-> Reserved(i)']
<1>1. f = h
  OBVIOUS
<1>2. HeldMinutes = SumFunctionOnSet(f, Jobs) /\ HeldMinutes' = SumFunctionOnSet(h, Jobs)
  BY DEF HeldMinutes
<1> QED
  BY <1>1, <1>2
-------------------------------------------------------------------------------
(* The inductive invariant.  A job has no hold before it is launched, and  *)
(* neither usage nor a task to settle it before its data is written; a     *)
(* hold is settled with the first usage, which is the only one.            *)
BeforeLaunch == {"new", "reading", "checked", "refused"}
StageShape(j) ==
    /\ stage[j] \in BeforeLaunch => hold[j] = "none" /\ status[j] = "active"
    /\ ~DataWritten(j) => usage[j] = <<>> /\ trackers[j] = <<>> /\ j \notin looked
LedgerShape(j) ==
    IF usage[j] = <<>> THEN hold[j] \in {"none", "HELD", "RELEASED"}
    ELSE hold[j] # "HELD" /\ Len(usage[j]) = 1 /\ usage[j][1].month <= month
JobShape(j) == StageShape(j) /\ LedgerShape(j) /\ (HoldOutlives(j) => j \in lost)
Shape == \A j \in Jobs : JobShape(j)
Calendar == month <= events + 1

(* A launch that is past the sum of used minutes has at most what is left, *)
(* the debt, and what was recorded since; one that is past its check asks  *)
(* for no more than that, less what is held.                               *)
Slack == limit - UsedIn(month) + debt
Covered ==
    /\ HeldMinutes <= Slack
    /\ \A j \in Jobs :
           /\ stage[j] = "reading" => unused[j] <= Slack + raced[j]
           /\ stage[j] = "checked" => HeldMinutes + asked[j] <= Slack + raced[j]

LedgerInv == TypeOK /\ Shape /\ Calendar /\ Covered
-------------------------------------------------------------------------------
(* Types.                                                                  *)

LEMMA TypeInit == Init => TypeOK
<1> SUFFICES ASSUME Init PROVE TypeOK
  OBVIOUS
<1>0. 0 \in Minutes /\ MaxMinutes \in Minutes /\ 1 \in 1 .. MaxEvents + 1 /\ 0 \in 0 .. MaxVerdicts /\ 0 \in 0 .. MaxEvents
  BY QuotaAssumption DEF QuotaAssumption, Minutes
<1>1. LaunchType
  BY <1>0 DEF Init, LaunchType
<1>2. LedgerType
  BY <1>0 DEF Init, LedgerType
<1>3. JobType
  BY <1>0 DEF Init, JobType
<1>4. HistoryType
  BY <1>0 DEF Init, HistoryType
<1> QED
  BY <1>1, <1>2, <1>3, <1>4 DEF TypeOK

LEMMA RemoveTyped ==
    ASSUME NEW S, NEW s \in Seq(S), NEW i \in DOMAIN s
    PROVE  RemoveAt(s, i) \in Seq(S) /\ Len(RemoveAt(s, i)) = Len(s) - 1
  BY DEF RemoveAt

(* A charge, a release and a settlement keep the ledger and the history in *)
(* their types.                                                            *)
LEMMA ExcessNat == ASSUME NEW m \in Nat, NEW n \in Nat PROVE Excess(m, n) \in Nat /\ Excess(m, n) >= m - n
  BY DEF Excess

LEMMA ChargedType ==
    ASSUME TypeOK, NEW j \in Jobs, NEW m \in Minutes, Charged(j, m)
    PROVE  usage' \in [Jobs -> Seq(Rows)] /\ raced' \in [Jobs -> Nat] /\ debt' \in Nat
<1>1. m \in Nat /\ [minutes |-> m, month |-> month] \in Rows
  BY QuotaAssumption DEF QuotaAssumption, Minutes, TypeOK, LedgerType, Rows
<1>2. usage' \in [Jobs -> Seq(Rows)]
  BY <1>1 DEF Charged, TypeOK, LedgerType
<1>3. debt' \in Nat
  <2>1. Reserved(j) \in Nat
    BY ReservedInt
  <2>2. Excess(m, Reserved(j)) \in Nat
    BY <1>1, <2>1, ExcessNat
  <2> QED
    BY <2>2 DEF Charged, TypeOK, HistoryType
<1>4. raced' \in [Jobs -> Nat]
  BY <1>1 DEF Charged, TypeOK, HistoryType
<1> QED
  BY <1>2, <1>3, <1>4

LEMMA HoldTypes ==
    ASSUME TypeOK, NEW j \in Jobs
    PROVE  /\ Converted(j) \in [Jobs -> {"none", "HELD", "RELEASED", "CONVERTED"}]
           /\ Released(j) \in [Jobs -> {"none", "HELD", "RELEASED", "CONVERTED"}]
  BY DEF TypeOK, LedgerType, Converted, Released

LEMMA SettlesType ==
    ASSUME TypeOK, NEW j \in Jobs, NEW m \in Spans, Settles(j, m)
    PROVE  /\ usage' \in [Jobs -> Seq(Rows)] /\ raced' \in [Jobs -> Nat] /\ debt' \in Nat
           /\ hold' \in [Jobs -> {"none", "HELD", "RELEASED", "CONVERTED"}]
<1>1. m >= 0 => m \in Minutes
  BY QuotaAssumption DEF QuotaAssumption, Minutes, Spans
<1>2. CASE m >= 0 /\ MayInsert(j)
  BY <1>1, <1>2, ChargedType, HoldTypes DEF Settles
<1>3. CASE ~(m >= 0 /\ MayInsert(j))
  BY <1>3 DEF Settles, ledgerVars, TypeOK, LedgerType, HistoryType
<1> QED
  BY <1>2, <1>3

(* Mishaps are counted up to their bound, and one in which the code gives   *)
(* up leaves the tables alone.                                             *)
LEMMA MishapType == TypeOK /\ (Mishap \/ UNCHANGED events) => events' \in 0 .. MaxEvents
  BY QuotaAssumption DEF QuotaAssumption, TypeOK, HistoryType, Mishap
LEMMA GivesUpType ==
    ASSUME TypeOK, GivesUp
    PROVE  /\ usage' \in [Jobs -> Seq(Rows)] /\ raced' \in [Jobs -> Nat] /\ debt' \in Nat
           /\ hold' \in [Jobs -> {"none", "HELD", "RELEASED", "CONVERTED"}]
           /\ events' \in 0 .. MaxEvents
  BY MishapType DEF GivesUp, ledgerVars, TypeOK, LedgerType, HistoryType

LEMMA TypeStep == TypeOK /\ Calendar /\ [Next]_vars => TypeOK'
<1> SUFFICES ASSUME TypeOK, Calendar, [Next]_vars PROVE TypeOK'
  OBVIOUS
<1> USE DEF TypeOK, LaunchType, LedgerType, JobType, HistoryType, launchVars, ledgerVars, jobVars, taskVars, historyVars,
            boundVars
<1>0. MaxMinutes \in Nat /\ MaxVerdicts \in Nat /\ MaxEvents \in Nat /\ Minutes \subseteq Nat /\ Minutes \subseteq Spans
  BY QuotaAssumption DEF QuotaAssumption, Minutes, Spans
<1>1. ASSUME NEW j \in Jobs, NEW m \in Minutes, Asks(j, m) PROVE TypeOK'
  <2>1. limit - UsedIn(month) \in Int
    BY <1>0, UsedInt
  <2> QED
    BY <1>1, <2>1 DEF Asks
<1>2. ASSUME NEW j \in Jobs, Checks(j) PROVE TypeOK'
  BY <1>2 DEF Checks
<1>3. ASSUME NEW j \in Jobs, Holds(j) PROVE TypeOK'
  <2>1. asked[j] \in Nat /\ raced[j] \in Nat
    BY <1>0
  <2>2. hold' \in [Jobs -> {"none", "HELD", "RELEASED", "CONVERTED"}] /\ raced' \in [Jobs -> Nat] /\ debt' \in Nat
    <3>1. CASE asked[j] = 0
      BY <1>3, <3>1 DEF Holds
    <3>2. CASE asked[j] # 0
      <4>1. hold' = [hold EXCEPT ![j] = "HELD"] /\ debt' = debt + raced[j]
        BY <1>3, <3>2 DEF Holds
      <4>2. raced' = [i \in Jobs |-> IF i = j THEN 0 ELSE IF stage[i] = "checked" THEN raced[i] + asked[j] ELSE raced[i]]
        BY <1>3, <3>2 DEF Holds
      <4>3. \A i \in Jobs : raced[i] \in Nat /\ raced[i] + asked[j] \in Nat
        BY <2>1
      <4>4. raced' \in [Jobs -> Nat]
        BY <4>2, <4>3
      <4>5. hold' \in [Jobs -> {"none", "HELD", "RELEASED", "CONVERTED"}]
        BY <4>1
      <4>6. debt' \in Nat
        BY <2>1, <4>1
      <4> QED
        BY <4>4, <4>5, <4>6
    <3> QED
      BY <3>1, <3>2
  <2> QED
    BY <1>3, <2>2 DEF Holds
<1>4. ASSUME NEW j \in Jobs, Queues(j) PROVE TypeOK'
  BY <1>4 DEF Queues
<1>5. ASSUME NEW j \in Jobs, LaunchReturns(j) PROVE TypeOK'
  BY <1>5 DEF LaunchReturns
<1>6. ASSUME NEW j \in Jobs, NEW m \in Minutes, LaunchFails(j, m) PROVE TypeOK'
  <2>1. /\ usage' \in [Jobs -> Seq(Rows)] /\ raced' \in [Jobs -> Nat] /\ debt' \in Nat
        /\ hold' \in [Jobs -> {"none", "HELD", "RELEASED", "CONVERTED"}]
        /\ events' \in 0 .. MaxEvents /\ lost' \subseteq Jobs
    <3>1. CASE MayInsert(j) /\ Charged(j, m) /\ hold' = Released(j) /\ UNCHANGED <<lost, events>>
      BY <3>1, ChargedType, HoldTypes
    <3>2. CASE ~MayInsert(j) /\ UNCHANGED <<hold, usage, raced, debt, lost, events>>
      BY <3>2
    <3>3. CASE Mishap /\ hold' = Released(j) /\ UNCHANGED <<usage, raced, debt, lost>>
      BY <3>3, MishapType, HoldTypes
    <3>4. CASE GivesUp /\ lost' = lost \cup {j}
      BY <3>4, GivesUpType
    <3> QED
      BY <1>6, <3>1, <3>2, <3>3, <3>4 DEF LaunchFails
  <2> QED
    BY <1>6, <2>1 DEF LaunchFails, TerminalStatuses, TrackedStatuses
<1>7. ASSUME NEW j \in Jobs, NEW m \in Minutes, ProviderMissing(j, m) PROVE TypeOK'
  <2>1. /\ usage' \in [Jobs -> Seq(Rows)] /\ raced' \in [Jobs -> Nat] /\ debt' \in Nat
        /\ hold' \in [Jobs -> {"none", "HELD", "RELEASED", "CONVERTED"}]
    <3>0. hold' \in [Jobs -> {"none", "HELD", "RELEASED", "CONVERTED"}]
      BY <1>7, HoldTypes DEF ProviderMissing
    <3>1. CASE MayInsert(j) /\ Charged(j, m)
      BY <3>0, <3>1, ChargedType
    <3>2. CASE UNCHANGED <<usage, raced, debt>>
      BY <3>0, <3>2
    <3> QED
      BY <1>7, <3>1, <3>2 DEF ProviderMissing
  <2>2. events' \in 0 .. MaxEvents
    BY <1>7, MishapType DEF ProviderMissing
  <2> QED
    BY <1>7, <2>1, <2>2 DEF ProviderMissing, TerminalStatuses, TrackedStatuses
<1>8. ASSUME NEW j \in Jobs, NEW s \in TrackedStatuses, NEW e \in Minutes \cup {Undated}, Ends(j, s, e) PROVE TypeOK'
  <2>0. events' \in 0 .. MaxEvents
    BY <1>8, MishapType DEF Ends
  <2>1. status' \in [Jobs -> {"active"} \cup TerminalStatuses] /\ verdicts' \in 0 .. MaxVerdicts
    BY <1>0, <1>8 DEF Ends, Verdict, Writes, TerminalStatuses
  <2>2. end' \in [Jobs -> Spans \cup {Undated}]
    BY <1>0, <1>8 DEF Ends
  <2>3. \A m \in IF end'[j] = Undated THEN Minutes ELSE {end'[j]} : m \in Spans
    BY <1>0, <2>2
  <2>4. trackers' \in [Jobs -> Seq(Spans)] /\ lost' \subseteq Jobs
    <3>1. CASE Follows(j, s) /\ Tracked(j, s)
      <4>1. PICK m \in IF end'[j] = Undated THEN Minutes ELSE {end'[j]} :
               trackers' = [trackers EXCEPT ![j] = Append(@, m)] /\ lost' = lost \ {j}
        BY <3>1 DEF Follows
      <4>2. Append(trackers[j], m) \in Seq(Spans)
        BY <2>3
      <4> QED
        BY <4>1, <4>2
    <3>2. CASE Follows(j, s) /\ ~Tracked(j, s)
      BY <3>2 DEF Follows
    <3>3. CASE lost' = lost \cup {j} /\ UNCHANGED trackers
      BY <3>3
    <3> QED
      BY <1>8, <3>1, <3>2, <3>3 DEF Ends
  <2> QED
    BY <1>8, <2>0, <2>1, <2>2, <2>4 DEF Ends
<1>9. ASSUME NEW j \in Jobs, NEW s \in {"COMPLETE", "FAILED", "DELETED"}, EndsUntracked(j, s) PROVE TypeOK'
  <2>1. status' \in [Jobs -> {"active"} \cup TerminalStatuses] /\ verdicts' \in 0 .. MaxVerdicts /\ events' = events
    BY <1>0, <1>9 DEF EndsUntracked, Verdict, Writes, TerminalStatuses, TrackedStatuses
  <2>2. end' \in [Jobs -> Spans \cup {Undated}] /\ lost' \subseteq Jobs
    BY <1>9 DEF EndsUntracked
  <2> QED
    BY <1>9, <2>1, <2>2 DEF EndsUntracked
<1>10. ASSUME NEW j \in Jobs, Tracks(j) PROVE TypeOK'
  <2>1. PICK i \in DOMAIN trackers[j] :
           /\ trackers' = [trackers EXCEPT ![j] = RemoveAt(@, i)]
           /\ \/ Settles(j, trackers[j][i]) /\ UNCHANGED events /\ lost' \in {lost, lost \cup {j}}
              \/ GivesUp /\ lost' = lost \cup {j}
    BY <1>10 DEF Tracks
  <2>2. trackers[j] \in Seq(Spans) /\ trackers[j][i] \in Spans
    OBVIOUS
  <2>3. trackers' \in [Jobs -> Seq(Spans)]
    BY <2>1, <2>2, RemoveTyped
  <2>4. /\ usage' \in [Jobs -> Seq(Rows)] /\ raced' \in [Jobs -> Nat] /\ debt' \in Nat
        /\ hold' \in [Jobs -> {"none", "HELD", "RELEASED", "CONVERTED"}]
        /\ events' \in 0 .. MaxEvents /\ lost' \subseteq Jobs
    BY <2>1, <2>2, SettlesType, GivesUpType
  <2> QED
    BY <1>10, <2>1, <2>3, <2>4 DEF Tracks
<1>11. ASSUME NEW j \in Jobs, BackfillLooks(j) PROVE TypeOK'
  BY <1>11 DEF BackfillLooks
<1>12. ASSUME NEW j \in Jobs, BackfillSettles(j) PROVE TypeOK'
  <2>1. \/ (\E m \in Spans : Settles(j, m)) /\ UNCHANGED events
        \/ GivesUp
    BY <1>0, <1>12 DEF BackfillSettles
  <2>3. /\ usage' \in [Jobs -> Seq(Rows)] /\ raced' \in [Jobs -> Nat] /\ debt' \in Nat
        /\ hold' \in [Jobs -> {"none", "HELD", "RELEASED", "CONVERTED"}]
        /\ events' \in 0 .. MaxEvents
    BY <2>1, SettlesType, GivesUpType
  <2> QED
    BY <1>12, <2>3 DEF BackfillSettles
<1>13. ASSUME NEW l \in Minutes, OwnerSets(l) PROVE TypeOK'
  <2>1. limit \in Nat /\ l \in Nat
    BY <1>0
  <2>2. Excess(limit, l) \in Nat
    BY <2>1, ExcessNat
  <2>3. debt' \in Nat /\ events' \in 0 .. MaxEvents
    BY <1>0, <1>13, <2>2 DEF OwnerSets, Event, Mishap
  <2> QED
    BY <1>13, <2>3 DEF OwnerSets, Event, Mishap
<1>14. CASE NextMonth
  BY <1>0, <1>14 DEF NextMonth, Event, Mishap, Calendar
<1>15. CASE Crash
  <2>1. stage' \in [Jobs -> {"new", "reading", "checked", "held", "queued", "over", "refused"}]
    BY <1>15 DEF Crash
  <2>2. trackers' \in [Jobs -> Seq(Spans)] /\ looked' \subseteq Jobs /\ lost' \subseteq Jobs
    BY <1>15 DEF Crash
  <2>3. events' \in 0 .. MaxEvents /\ verdicts' = verdicts
    BY <1>0, <1>15 DEF Crash, Event, Mishap
  <2>4. UNCHANGED <<limit, month, asked, unused, hold, usage, status, end, raced, debt>>
    BY <1>15 DEF Crash
  <2>5. LaunchType' /\ LedgerType'
    BY <2>1, <2>4
  <2>6. JobType'
    BY <2>2, <2>4
  <2>7. HistoryType'
    BY <2>2, <2>3, <2>4
  <2> QED
    BY <2>5, <2>6, <2>7
<1>16. CASE UNCHANGED vars
  BY <1>16 DEF vars
<1> QED
  BY <1>1, <1>2, <1>3, <1>4, <1>5, <1>6, <1>7, <1>8, <1>9, <1>10, <1>11, <1>12, <1>13, <1>14, <1>15, <1>16
  DEF Next, Launch, Outcome, Finish, Settle
-------------------------------------------------------------------------------
(* The shape of each job's entries.                                        *)

(* A step that leaves a job alone, or only the calendar moves on. *)
LeavesAlone(i) ==
    /\ stage'[i] = stage[i] /\ hold'[i] = hold[i] /\ status'[i] = status[i] /\ usage'[i] = usage[i]
    /\ trackers'[i] = trackers[i] /\ (i \in looked' <=> i \in looked) /\ (i \in lost => i \in lost')
    /\ month' >= month

LEMMA LeftAlone ==
    ASSUME TypeOK, TypeOK', NEW i \in Jobs, JobShape(i), LeavesAlone(i)
    PROVE  JobShape(i)'
<1>1. month \in Int /\ month' \in Int /\ (usage[i] # <<>> /\ Len(usage[i]) = 1 => usage[i][1].month \in Int)
  <2>1. usage[i] # <<>> /\ Len(usage[i]) = 1 => usage[i][1] \in Rows
    BY DEF TypeOK, LedgerType
  <2> QED
    BY <2>1 DEF TypeOK, LedgerType, Rows
<1>2. StageShape(i)'
  BY DEF JobShape, StageShape, LeavesAlone, DataWritten
<1>3. LedgerShape(i)'
  BY <1>1 DEF JobShape, LedgerShape, LeavesAlone
<1>4. HoldOutlives(i)' => i \in lost'
  BY DEF JobShape, HoldOutlives, LeavesAlone
<1> QED
  BY <1>2, <1>3, <1>4 DEF JobShape

(* A first row of usage, with the hold settled in the same transaction or  *)
(* after it.                                                               *)
LEMMA FirstRow ==
    ASSUME TypeOK, NEW j \in Jobs, NEW m \in Minutes, usage[j] = <<>>, Charged(j, m)
    PROVE  /\ usage'[j] # <<>> /\ Len(usage'[j]) = 1 /\ usage'[j][1].month = month
           /\ \A i \in Jobs \ {j} : usage'[i] = usage[i]
  BY DEF TypeOK, LedgerType, Charged

LEMMA SettledShape ==
    ASSUME TypeOK, NEW j \in Jobs, JobShape(j), NEW m \in Spans, Settles(j, m), month' = month
    PROVE  /\ LedgerShape(j)' /\ (m >= 0 => hold'[j] # "HELD") /\ (hold'[j] = "HELD" => hold[j] = "HELD")
           /\ \A i \in Jobs \ {j} : hold'[i] = hold[i] /\ usage'[i] = usage[i]
<1>0. month \in Int
  BY DEF TypeOK, LedgerType
<1>1. CASE m >= 0 /\ MayInsert(j)
  <2>1. m \in Minutes
    BY <1>1, QuotaAssumption DEF QuotaAssumption, Minutes, Spans
  <2>2. Charged(j, m) /\ hold' = Converted(j) /\ usage[j] = <<>>
    BY <1>1 DEF Settles, MayInsert
  <2>3. hold'[j] # "HELD" /\ \A i \in Jobs \ {j} : hold'[i] = hold[i]
    BY <2>2 DEF Converted, TypeOK, LedgerType
  <2> QED
    BY <1>0, <2>1, <2>2, <2>3, FirstRow DEF LedgerShape
<1>2. CASE ~(m >= 0 /\ MayInsert(j))
  BY <1>2 DEF Settles, ledgerVars, JobShape, LedgerShape, MayInsert
<1> QED
  BY <1>1, <1>2
LEMMA LaunchShape ==
    ASSUME TypeOK, Shape, NEW j \in Jobs, Launch(j)
    PROVE  JobShape(j)' /\ \A i \in Jobs \ {j} : LeavesAlone(i)
<1> USE DEF TypeOK, LaunchType, LedgerType, JobType, Shape, JobShape, StageShape, LedgerShape, HoldOutlives, DataWritten,
            BeforeLaunch, LeavesAlone, launchVars, ledgerVars, jobVars, taskVars, historyVars, boundVars
<1>0. month \in Int
  OBVIOUS
<1>1. ASSUME NEW m \in Minutes, Asks(j, m) PROVE JobShape(j)' /\ \A i \in Jobs \ {j} : LeavesAlone(i)
  <2>1. stage'[j] \in BeforeLaunch /\ \A i \in Jobs \ {j} : stage'[i] = stage[i]
    BY <1>1 DEF Asks
  <2>2. stage[j] \in BeforeLaunch /\ UNCHANGED <<month, hold, usage, status, trackers, looked, lost>>
    BY <1>1 DEF Asks
  <2> QED
    BY <1>0, <2>1, <2>2
<1>2. ASSUME Checks(j) PROVE JobShape(j)' /\ \A i \in Jobs \ {j} : LeavesAlone(i)
  <2>1. stage'[j] \in BeforeLaunch /\ \A i \in Jobs \ {j} : stage'[i] = stage[i]
    BY <1>2 DEF Checks
  <2>2. stage[j] \in BeforeLaunch /\ UNCHANGED <<month, hold, usage, status, trackers, looked, lost>>
    BY <1>2 DEF Checks
  <2> QED
    BY <1>0, <2>1, <2>2
<1>3. ASSUME Holds(j) PROVE JobShape(j)' /\ \A i \in Jobs \ {j} : LeavesAlone(i)
  <2>1. stage[j] = "checked" /\ stage'[j] = "held" /\ \A i \in Jobs \ {j} : stage'[i] = stage[i]
    BY <1>3 DEF Holds
  <2>2. UNCHANGED <<month, usage, status, trackers, looked, lost>>
    BY <1>3 DEF Holds
  <2>3. hold'[j] \in {"none", "HELD"} /\ \A i \in Jobs \ {j} : hold'[i] = hold[i]
    BY <1>3, <2>1 DEF Holds
  <2>4. status[j] = "active" /\ usage[j] = <<>> /\ trackers[j] = <<>> /\ j \notin looked
    BY <2>1
  <2>5. JobShape(j)'
    BY <2>1, <2>2, <2>3, <2>4
  <2>6. \A i \in Jobs \ {j} : LeavesAlone(i)
    BY <1>0, <2>1, <2>2, <2>3
  <2> QED
    BY <2>5, <2>6
<1>4. ASSUME Queues(j) PROVE JobShape(j)' /\ \A i \in Jobs \ {j} : LeavesAlone(i)
  BY <1>0, <1>4 DEF Queues
<1> QED
  BY <1>1, <1>2, <1>3, <1>4 DEF Launch

LEMMA OutcomeShape ==
    ASSUME TypeOK, Shape, NEW j \in Jobs, Outcome(j)
    PROVE  JobShape(j)' /\ \A i \in Jobs \ {j} : LeavesAlone(i)
<1> USE DEF TypeOK, LaunchType, LedgerType, JobType, Shape, JobShape, StageShape, LedgerShape, HoldOutlives, DataWritten,
            BeforeLaunch, LeavesAlone, launchVars, ledgerVars, jobVars, taskVars, historyVars, boundVars
<1>0. month \in Int
  OBVIOUS
<1>1. ASSUME LaunchReturns(j) PROVE JobShape(j)' /\ \A i \in Jobs \ {j} : LeavesAlone(i)
  BY <1>0, <1>1 DEF LaunchReturns
<1>2. ASSUME NEW m \in Minutes, LaunchFails(j, m) PROVE JobShape(j)' /\ \A i \in Jobs \ {j} : LeavesAlone(i)
  <2>0. hold' = Released(j) => hold'[j] \in {"none", "RELEASED"} /\ \A i \in Jobs \ {j} : hold'[i] = hold[i]
    BY DEF Released
  <2>1. CASE Charged(j, m) /\ usage[j] = <<>> /\ hold' = Released(j) /\ UNCHANGED lost
    <3>1. UNCHANGED <<month, trackers, looked, lost>> /\ stage[j] = "queued" /\ stage' = [stage EXCEPT ![j] = "over"]
          /\ status' = [status EXCEPT ![j] = "FAILED"]
      BY <1>2, <2>1 DEF LaunchFails
    <3>2. /\ usage'[j] # <<>> /\ Len(usage'[j]) = 1 /\ usage'[j][1].month = month
          /\ \A i \in Jobs \ {j} : usage'[i] = usage[i]
      BY <2>1, FirstRow
    <3> QED
      BY <1>0, <2>0, <2>1, <3>1, <3>2
  <2>2. CASE usage[j] # <<>> /\ UNCHANGED <<hold, usage, lost>>
    BY <1>0, <1>2, <2>2 DEF LaunchFails
  <2>3. CASE hold' = Released(j) /\ UNCHANGED <<usage, lost>>
    BY <1>0, <1>2, <2>0, <2>3 DEF LaunchFails
  <2>4. CASE UNCHANGED <<hold, usage>> /\ lost' = lost \cup {j}
    BY <1>0, <1>2, <2>4 DEF LaunchFails
  <2> QED
    BY <1>2, <2>1, <2>2, <2>3, <2>4 DEF LaunchFails, MayInsert, GivesUp
<1>3. ASSUME NEW m \in Minutes, ProviderMissing(j, m) PROVE JobShape(j)' /\ \A i \in Jobs \ {j} : LeavesAlone(i)
  <2>1. hold'[j] \in {"none", "RELEASED"} /\ \A i \in Jobs \ {j} : hold'[i] = hold[i]
    BY <1>3 DEF ProviderMissing, Released
  <2>2. CASE Charged(j, m) /\ usage[j] = <<>>
    BY <1>0, <1>3, <2>1, <2>2, FirstRow DEF ProviderMissing
  <2>3. CASE UNCHANGED usage
    BY <1>0, <1>3, <2>1, <2>3 DEF ProviderMissing
  <2> QED
    BY <1>3, <2>2, <2>3 DEF ProviderMissing, MayInsert
<1> QED
  BY <1>1, <1>2, <1>3 DEF Outcome

LEMMA FinishShape ==
    ASSUME TypeOK, Shape, NEW j \in Jobs, Finish(j)
    PROVE  JobShape(j)' /\ \A i \in Jobs \ {j} : LeavesAlone(i)
<1> USE DEF TypeOK, LaunchType, LedgerType, JobType, Shape, JobShape, StageShape, LedgerShape, HoldOutlives, DataWritten,
            BeforeLaunch, LeavesAlone, launchVars, ledgerVars, jobVars, taskVars, historyVars, boundVars
<1>0. month \in Int
  OBVIOUS
<1>1. ASSUME NEW s \in TrackedStatuses, NEW e \in Minutes \cup {Undated}, Ends(j, s, e)
      PROVE  JobShape(j)' /\ \A i \in Jobs \ {j} : LeavesAlone(i)
  <2>0. status'[j] \in TrackedStatuses \cup {status[j]} /\ \A i \in Jobs \ {j} : status'[i] = status[i]
    BY <1>1 DEF Ends, Writes
  <2>1. CASE Follows(j, s) /\ Tracked(j, s)
    <3>0. end'[j] \in Spans \cup {Undated} /\ Minutes \subseteq Spans
      BY <1>1, QuotaAssumption DEF QuotaAssumption, Ends, Minutes, Spans
    <3>1. PICK m \in IF end'[j] = Undated THEN Minutes ELSE {end'[j]} :
             trackers' = [trackers EXCEPT ![j] = Append(@, m)] /\ lost' = lost \ {j}
      BY <2>1 DEF Follows
    <3>2. trackers'[j] # <<>> /\ \A i \in Jobs \ {j} : trackers'[i] = trackers[i]
      <4>1. m \in Spans /\ trackers[j] \in Seq(Spans)
        BY <3>0
      <4>2. Len(Append(trackers[j], m)) = Len(trackers[j]) + 1 /\ Len(trackers[j]) \in Nat
        BY ONLY <4>1
      <4>3. Append(trackers[j], m) # <<>>
        BY ONLY <4>2
      <4> QED
        BY <3>1, <4>3
    <3> QED
      BY <1>0, <1>1, <2>0, <2>1, <3>1, <3>2 DEF Ends, Verdict, Tracked
  <2>2. CASE lost' = lost \cup {j} /\ trackers' = trackers
    BY <1>0, <1>1, <2>0, <2>2 DEF Ends, Verdict
  <2>3. Follows(j, s) /\ ~Tracked(j, s) => lost' = lost \cup {j} /\ trackers' = trackers
    BY DEF Follows, Tracked
  <2> QED
    BY <1>1, <2>1, <2>2, <2>3 DEF Ends
<1>2. ASSUME NEW s \in {"COMPLETE", "FAILED", "DELETED"}, EndsUntracked(j, s)
      PROVE  JobShape(j)' /\ \A i \in Jobs \ {j} : LeavesAlone(i)
  <2>1. trackers[j] = <<>> => Len(trackers[j]) = 0
    OBVIOUS
  <2>2. (trackers[j] = <<>> => j \in lost') /\ lost \subseteq lost'
    BY <1>2, <2>1 DEF EndsUntracked
  <2> QED
    BY <1>0, <1>2, <2>2 DEF EndsUntracked, Verdict, Writes
<1> QED
  BY <1>1, <1>2 DEF Finish

LEMMA SettleShape ==
    ASSUME TypeOK, Shape, NEW j \in Jobs, Settle(j)
    PROVE  JobShape(j)' /\ \A i \in Jobs \ {j} : LeavesAlone(i)
<1> USE DEF TypeOK, LaunchType, LedgerType, JobType, Shape, JobShape, StageShape, HoldOutlives, DataWritten,
            BeforeLaunch, LeavesAlone, launchVars, ledgerVars, jobVars, taskVars, historyVars, boundVars
<1>0. month \in Int
  OBVIOUS
<1>1. ASSUME Tracks(j) PROVE JobShape(j)' /\ \A i \in Jobs \ {j} : LeavesAlone(i)
  <2>1. PICK k \in DOMAIN trackers[j] :
           /\ trackers' = [trackers EXCEPT ![j] = RemoveAt(@, k)]
           /\ \/ /\ Settles(j, trackers[j][k])
                 /\ lost' = IF trackers[j][k] < 0 THEN lost \cup {j} ELSE lost
              \/ GivesUp /\ lost' = lost \cup {j}
    BY <1>1 DEF Tracks
  <2>2. trackers[j] # <<>> /\ trackers[j][k] \in Spans
    OBVIOUS
  <2>3. DataWritten(j)
    BY <2>2
  <2>4. /\ LedgerShape(j)' /\ (trackers[j][k] >= 0 /\ Settles(j, trackers[j][k]) => hold'[j] # "HELD")
        /\ \A i \in Jobs \ {j} : hold'[i] = hold[i] /\ usage'[i] = usage[i]
    <3>1. month' = month
      BY <1>1 DEF Tracks
    <3>2. CASE Settles(j, trackers[j][k])
      BY <2>2, <3>1, <3>2, SettledShape
    <3>3. CASE GivesUp
      <4>1. UNCHANGED <<hold, usage, month>>
        BY <3>1, <3>3 DEF GivesUp
      <4>2. LedgerShape(j)'
        BY <4>1 DEF LedgerShape
      <4>3. Settles(j, trackers[j][k]) => LedgerShape(j)' /\ (trackers[j][k] >= 0 => hold'[j] # "HELD")
        BY <2>2, <3>1, SettledShape
      <4> QED
        BY <4>1, <4>2, <4>3
    <3> QED
      BY <2>1, <3>2, <3>3
  <2>5. trackers[j][k] < 0 \/ trackers[j][k] >= 0
    BY <2>2, QuotaAssumption DEF QuotaAssumption, Spans
  <2> QED
    BY <1>0, <1>1, <2>1, <2>3, <2>4, <2>5 DEF Tracks
<1>2. ASSUME BackfillLooks(j) PROVE JobShape(j)' /\ \A i \in Jobs \ {j} : LeavesAlone(i)
  BY <1>0, <1>2 DEF BackfillLooks, LedgerShape
<1>3. ASSUME BackfillSettles(j) PROVE JobShape(j)' /\ \A i \in Jobs \ {j} : LeavesAlone(i)
  <2>1. (\E m \in Spans : Settles(j, m)) \/ GivesUp
    BY <1>3, QuotaAssumption DEF QuotaAssumption, Minutes, Spans, BackfillSettles
  <2>3. DataWritten(j)
    BY <1>3 DEF BackfillSettles
  <2>4. /\ LedgerShape(j)' /\ (hold'[j] = "HELD" => hold[j] = "HELD")
        /\ \A i \in Jobs \ {j} : hold'[i] = hold[i] /\ usage'[i] = usage[i]
    <3>1. month' = month
      BY <1>3 DEF BackfillSettles
    <3>2. ASSUME NEW m \in Spans, Settles(j, m)
          PROVE  /\ LedgerShape(j)' /\ (hold'[j] = "HELD" => hold[j] = "HELD")
                 /\ \A i \in Jobs \ {j} : hold'[i] = hold[i] /\ usage'[i] = usage[i]
      BY <3>1, <3>2, SettledShape
    <3>3. CASE GivesUp
      BY <3>1, <3>3 DEF GivesUp, LedgerShape
    <3> QED
      BY <2>1, <3>2, <3>3
  <2> QED
    BY <1>0, <1>3, <2>3, <2>4 DEF BackfillSettles
<1> QED
  BY <1>1, <1>2, <1>3 DEF Settle

LEMMA ShapeStep == TypeOK /\ TypeOK' /\ Shape /\ [Next]_vars => Shape'
<1> SUFFICES ASSUME TypeOK, TypeOK', Shape, [Next]_vars, NEW i \in Jobs PROVE JobShape(i)'
  BY DEF Shape
<1>0. JobShape(i) /\ month \in Int
  BY DEF Shape, TypeOK, LedgerType
<1>1. ASSUME NEW j \in Jobs, JobShape(j)' /\ \A k \in Jobs \ {j} : LeavesAlone(k) PROVE JobShape(i)'
  <2>1. CASE i = j
    BY <1>1, <2>1
  <2>2. CASE i # j
    <3>1. LeavesAlone(i)
      BY <1>1, <2>2
    <3> QED
      BY <1>0, <3>1, LeftAlone
  <2> QED
    BY <2>1, <2>2
<1>2. ASSUME NEW j \in Jobs, Launch(j) \/ Outcome(j) \/ Finish(j) \/ Settle(j) PROVE JobShape(i)'
  <2>1. JobShape(j)' /\ \A k \in Jobs \ {j} : LeavesAlone(k)
    BY <1>2, LaunchShape, OutcomeShape, FinishShape, SettleShape
  <2> QED
    BY <1>1, <2>1
<1>3. ASSUME NEW l \in Minutes, OwnerSets(l) PROVE JobShape(i)'
  <2>1. LeavesAlone(i)
    BY <1>0, <1>3 DEF OwnerSets, LeavesAlone, launchVars, ledgerVars, jobVars, taskVars
  <2> QED
    BY <1>0, <2>1, LeftAlone
<1>4. CASE NextMonth
  <2>1. LeavesAlone(i)
    BY <1>0, <1>4 DEF NextMonth, LeavesAlone, launchVars, ledgerVars, jobVars, taskVars, historyVars
  <2> QED
    BY <1>0, <2>1, LeftAlone
<1>5. CASE Crash
  <2>1. UNCHANGED <<month, hold, usage, status>>
    BY <1>5 DEF Crash, ledgerVars, jobVars
  <2>2. trackers'[i] = <<>> /\ i \notin looked' /\ (i \in lost \/ trackers[i] # <<>> => i \in lost')
    BY <1>5 DEF Crash
  <2>3. \/ stage'[i] = stage[i]
        \/ stage[i] \in BeforeLaunch /\ stage'[i] \in BeforeLaunch
    BY <1>5 DEF Crash, BeforeLaunch
  <2>4. StageShape(i)'
    BY <1>0, <2>1, <2>2, <2>3 DEF JobShape, StageShape, DataWritten, BeforeLaunch
  <2>5. LedgerShape(i)'
    BY <1>0, <2>1 DEF JobShape, LedgerShape
  <2>6. HoldOutlives(i)' => i \in lost'
    BY <1>0, <2>1, <2>2, <2>3 DEF JobShape, StageShape, HoldOutlives
  <2> QED
    BY <2>4, <2>5, <2>6 DEF JobShape
<1>6. CASE UNCHANGED vars
  <2>1. LeavesAlone(i)
    BY <1>0, <1>6 DEF vars, LeavesAlone, launchVars, ledgerVars, jobVars, taskVars, historyVars
  <2> QED
    BY <1>0, <2>1, LeftAlone
<1> QED
  BY <1>2, <1>3, <1>4, <1>5, <1>6 DEF Next

LEMMA CalendarStep == TypeOK /\ Calendar /\ [Next]_vars => Calendar'
<1> SUFFICES ASSUME TypeOK, Calendar, [Next]_vars PROVE Calendar'
  OBVIOUS
<1>1. month \in Int /\ events \in Int
  BY DEF TypeOK, LedgerType, HistoryType
<1>2. \/ UNCHANGED <<month, events>>
      \/ events' = events + 1 /\ month' \in {month, month + 1}
  <2> DEFINE Stands == month' = month /\ events' \in {events, events + 1}
  <2> USE DEF vars, launchVars, ledgerVars, jobVars, taskVars, historyVars, boundVars
  <2>1. ASSUME NEW j \in Jobs, Launch(j) PROVE UNCHANGED <<month, events>>
    BY <2>1 DEF Launch, Asks, Checks, Holds, Queues
  <2>2. ASSUME NEW j \in Jobs, Outcome(j) PROVE Stands
    BY <2>2 DEF Outcome, LaunchReturns, LaunchFails, ProviderMissing, GivesUp, Mishap
  <2>3. ASSUME NEW j \in Jobs, Finish(j) PROVE Stands
    BY <2>3 DEF Finish, Ends, EndsUntracked, Mishap
  <2>4. ASSUME NEW j \in Jobs, Settle(j) PROVE Stands
    BY <2>4 DEF Settle, Tracks, BackfillLooks, BackfillSettles, GivesUp, Mishap
  <2>5. ASSUME NEW l \in Minutes, OwnerSets(l) PROVE events' = events + 1 /\ month' = month
    BY <2>5 DEF OwnerSets, Event, Mishap
  <2>6. CASE NextMonth
    BY <2>6 DEF NextMonth, Event, Mishap
  <2>7. CASE Crash
    BY <2>7 DEF Crash, Event, Mishap
  <2>8. CASE UNCHANGED vars
    BY <2>8
  <2> QED
    BY <2>1, <2>2, <2>3, <2>4, <2>5, <2>6, <2>7, <2>8 DEF Next
<1> QED
  BY <1>1, <1>2 DEF Calendar
-------------------------------------------------------------------------------
(* What the user is overdrawn by.                                          *)

(* A step that changes no sum and no limit, and under which a launch comes *)
(* no further.                                                             *)
LEMMA SumsUntouched ==
    ASSUME UNCHANGED <<limit, month, usage, debt>>
    PROVE  UsedIn(month)' = UsedIn(month) /\ Slack' = Slack
  BY DEF UsedIn, Slack

LEMMA CoveredWhileIdle ==
    ASSUME Covered, UNCHANGED <<limit, month, usage, hold, asked, unused, raced, debt>>,
           \A j \in Jobs : stage'[j] \in {"reading", "checked"} => stage'[j] = stage[j]
    PROVE  Covered'
<1>1. Slack' = Slack
  BY SumsUntouched
<1>2. HeldMinutes' = HeldMinutes
  BY HeldSame DEF Reserved
<1> QED
  BY <1>1, <1>2 DEF Covered

LEMMA SlackInt == TypeOK => Slack \in Int
<1> SUFFICES ASSUME TypeOK PROVE Slack \in Int
  OBVIOUS
<1>1. UsedIn(month) \in Int
  BY UsedInt
<1>2. limit \in Int /\ debt \in Int
  BY QuotaAssumption DEF QuotaAssumption, TypeOK, LedgerType, HistoryType, Minutes
<1> QED
  BY <1>1, <1>2 DEF Slack

(* A charge takes from the slack what the reservation does not cover. *)
LEMMA SlackCharged ==
    ASSUME TypeOK, NEW j \in Jobs, NEW m \in Minutes, usage[j] = <<>>, Charged(j, m), UNCHANGED <<limit, month>>
    PROVE  Slack' = Slack - m + Excess(m, Reserved(j)) /\ Excess(m, Reserved(j)) \in Nat
           /\ Excess(m, Reserved(j)) >= m - Reserved(j)
<1>1. UsedIn(month)' = UsedIn(month) + m
  BY UsedCharged DEF Charged
<1>2. UsedIn(month) \in Int /\ limit \in Int /\ debt \in Int /\ m \in Nat
  BY UsedInt, QuotaAssumption DEF QuotaAssumption, TypeOK, LedgerType, HistoryType, Minutes
<1>3. Reserved(j) \in Nat
  BY ReservedInt
<1>4. Excess(m, Reserved(j)) \in Nat /\ Excess(m, Reserved(j)) >= m - Reserved(j)
  BY <1>2, <1>3, ExcessNat
<1>5. Slack' = limit - (UsedIn(month) + m) + (debt + Excess(m, Reserved(j)))
  BY <1>1 DEF Slack, Charged
<1> QED
  BY <1>2, <1>4, <1>5 DEF Slack

(* A first usage row settles the job's hold, if it has one. *)
LEMMA CoveredWhenCharged ==
    ASSUME TypeOK, TypeOK', Covered, NEW j \in Jobs, NEW m \in Minutes, usage[j] = <<>>, Charged(j, m),
           hold'[j] # "HELD", \A i \in Jobs \ {j} : hold'[i] = hold[i],
           UNCHANGED <<limit, month, asked, unused>>,
           \A i \in Jobs : stage'[i] \in {"reading", "checked"} => stage'[i] = stage[i]
    PROVE  Covered'
<1> DEFINE x == Excess(m, Reserved(j))
           s == Slack
           h == HeldMinutes
           r == Reserved(j)
<1>1. Slack' = s - m + x /\ x \in Nat /\ x >= m - r
  BY SlackCharged
<1>2. HeldMinutes' = h - r
  <2>1. \A i \in Jobs \ {j} : Reserved(i)' = Reserved(i)
    BY DEF Reserved
  <2>2. Reserved(j)' = 0
    BY DEF Reserved
  <2>3. HeldMinutes' = HeldMinutes + Reserved(j)' - Reserved(j)
    BY <2>1, HeldChange
  <2> QED
    BY <2>2, <2>3, HeldInt, ReservedInt
<1>3. s \in Int /\ h \in Int /\ r \in Nat /\ m \in Nat
  BY SlackInt, HeldInt, ReservedInt, QuotaAssumption DEF QuotaAssumption, Minutes
<1>4. h <= s
  BY DEF Covered
<1> HIDE DEF x, s, h, r
<1>5. HeldMinutes' <= Slack'
  BY <1>1, <1>2, <1>3, <1>4
<1>6. ASSUME NEW i \in Jobs, stage'[i] = "reading" PROVE unused'[i] <= Slack' + raced'[i]
  <2>1. unused[i] <= s + raced[i] /\ raced'[i] = raced[i] + m
    BY <1>6 DEF Covered, Charged, s
  <2>2. unused[i] \in Int /\ raced[i] \in Nat
    BY DEF TypeOK, LaunchType, HistoryType
  <2> QED
    BY <1>1, <1>3, <2>1, <2>2
<1>7. ASSUME NEW i \in Jobs, stage'[i] = "checked" PROVE HeldMinutes' + asked'[i] <= Slack' + raced'[i]
  <2>1. h + asked[i] <= s + raced[i] /\ raced'[i] = raced[i]
    BY <1>7 DEF Covered, Charged, s, h
  <2>2. asked[i] \in Int /\ raced[i] \in Nat
    BY QuotaAssumption DEF QuotaAssumption, TypeOK, LaunchType, HistoryType, Minutes
  <2> QED
    BY <1>1, <1>2, <1>3, <2>1, <2>2
<1> QED
  BY <1>5, <1>6, <1>7 DEF Covered

(* A hold that goes without a charge leaves more. *)
LEMMA CoveredWhenFreed ==
    ASSUME TypeOK, TypeOK', Covered, NEW j \in Jobs, hold'[j] # "HELD", \A i \in Jobs \ {j} : hold'[i] = hold[i],
           UNCHANGED <<limit, month, usage, asked, unused, raced, debt>>,
           \A i \in Jobs : stage'[i] \in {"reading", "checked"} => stage'[i] = stage[i]
    PROVE  Covered'
<1>1. Slack' = Slack
  BY SumsUntouched
<1>2. HeldMinutes' = HeldMinutes - Reserved(j)
  <2>1. \A i \in Jobs \ {j} : Reserved(i)' = Reserved(i)
    BY DEF Reserved
  <2>2. Reserved(j)' = 0
    BY DEF Reserved
  <2>3. HeldMinutes' = HeldMinutes + Reserved(j)' - Reserved(j)
    BY <2>1, HeldChange
  <2> QED
    BY <2>2, <2>3, HeldInt, ReservedInt
<1>3. HeldMinutes' <= HeldMinutes /\ HeldMinutes \in Int /\ HeldMinutes' \in Int /\ Slack \in Int
  BY <1>2, HeldInt, ReservedInt, SlackInt
<1>4. \A i \in Jobs : asked[i] \in Int /\ raced[i] \in Int
  BY QuotaAssumption DEF QuotaAssumption, TypeOK, LaunchType, HistoryType, Minutes
<1> QED
  BY <1>1, <1>3, <1>4 DEF Covered

LEMMA CoveredWhenSettled ==
    ASSUME TypeOK, TypeOK', Covered, NEW j \in Jobs, NEW m \in Spans, Settles(j, m),
           UNCHANGED <<limit, month, asked, unused, stage>>
    PROVE  Covered'
<1>1. CASE m >= 0 /\ MayInsert(j)
  <2>1. m \in Minutes
    BY <1>1, QuotaAssumption DEF QuotaAssumption, Minutes, Spans
  <2>2. Charged(j, m) /\ hold' = Converted(j) /\ usage[j] = <<>>
    BY <1>1 DEF Settles, MayInsert
  <2>3. hold'[j] # "HELD" /\ \A i \in Jobs \ {j} : hold'[i] = hold[i]
    BY <2>2 DEF Converted, TypeOK, LedgerType
  <2> QED
    BY <2>1, <2>2, <2>3, CoveredWhenCharged
<1>2. CASE ~(m >= 0 /\ MayInsert(j))
  BY <1>2, CoveredWhileIdle DEF Settles, ledgerVars
<1> QED
  BY <1>1, <1>2

LEMMA CoveredInit == Init => Covered
<1> SUFFICES ASSUME Init PROVE Covered
  OBVIOUS
<1>1. TypeOK
  BY TypeInit
<1> DEFINE used == [j \in Jobs |-> MinutesIn(usage[j], month)]
           held == [j \in Jobs |-> Reserved(j)]
           none == [j \in Jobs |-> 0]
<1>2. IsFiniteSet(Jobs)
  BY QuotaAssumption DEF QuotaAssumption
<1>3. used = none
  BY MinutesFew DEF Init
<1>4. held = none
  BY DEF Init, Reserved
<1>5. UsedIn(month) = SumFunctionOnSet(none, Jobs) /\ HeldMinutes = SumFunctionOnSet(none, Jobs)
  BY <1>3, <1>4 DEF UsedIn, HeldMinutes
<1>6. SumFunctionOnSet(none, Jobs) = 0
  <2>1. PICK g : g = [T \in SUBSET Jobs |-> Plus(none, g, T)] /\ SumFunctionOnSet(none, Jobs) = g[Jobs]
    BY <1>2, SumDef
  <2> DEFINE P == {T \in SUBSET Jobs : g[T] = 0}
  <2>2. {} \in P
    BY <2>1 DEF Plus
  <2>3. ASSUME NEW T \in SUBSET Jobs, T # {}, T \ {Some(T)} \in P PROVE T \in P
    <3>1. Some(T) \in Jobs
      BY <2>3 DEF Some
    <3>2. g[T] = none[Some(T)] + g[T \ {Some(T)}]
      BY <2>1, <2>3 DEF Plus
    <3> QED
      BY <2>3, <3>1, <3>2
  <2>4. \A T \in SUBSET Jobs : T \in P
    <3> HIDE DEF P
    <3> QED
      BY <1>2, <2>2, <2>3, SubsetInduction
  <2> QED
    BY <2>1, <2>4
<1>7. limit \in Nat /\ debt = 0
  BY QuotaAssumption DEF QuotaAssumption, Init
<1>8. Slack = limit /\ HeldMinutes = 0
  BY <1>5, <1>6, <1>7 DEF Slack
<1> QED
  BY <1>7, <1>8 DEF Covered, Init

(* Launching: the first sum is what is used, the check is against what is  *)
(* left and held, and a hold takes what was checked, less what was taken   *)
(* from under it meanwhile.                                                *)
LEMMA CoveredLaunch ==
    ASSUME TypeOK, TypeOK', Shape, Covered, NEW j \in Jobs, Launch(j)
    PROVE  Covered'
<1> DEFINE s == Slack
           h == HeldMinutes
<1> USE DEF launchVars, ledgerVars, jobVars, taskVars, historyVars, boundVars
<1>0. /\ s \in Int /\ h \in Int /\ h <= s
      /\ \A i \in Jobs : asked[i] \in Nat /\ raced[i] \in Nat /\ unused[i] \in Int
      /\ \A i \in Jobs : stage[i] \in BeforeLaunch => hold[i] = "none"
  BY SlackInt, HeldInt, QuotaAssumption
  DEF QuotaAssumption, Covered, Minutes, TypeOK, LaunchType, HistoryType, Shape, JobShape, StageShape
<1>1. ASSUME NEW m \in Minutes, Asks(j, m) PROVE Covered'
  <2>1. stage[j] = "new" /\ hold[j] = "none" /\ UNCHANGED <<limit, month, usage, debt, hold, raced>>
    BY <1>0, <1>1 DEF Asks, BeforeLaunch
  <2>2. \A i \in Jobs : Reserved(i)' = Reserved(i)
    BY <1>1, <2>1 DEF Asks, Reserved, TypeOK, LaunchType
  <2>3. Slack' = s /\ HeldMinutes' = h
    BY <2>1, <2>2, SumsUntouched, HeldSame
  <2>4. \A i \in Jobs \ {j} : stage'[i] = stage[i] /\ asked'[i] = asked[i] /\ unused'[i] = unused[i] /\ raced'[i] = raced[i]
    BY <1>1 DEF Asks, TypeOK, LaunchType
  <2>5. stage'[j] = "reading" => unused'[j] <= s + raced'[j]
    <3>1. stage'[j] = "reading" => unused'[j] = limit - UsedIn(month)
      BY <1>1 DEF Asks, TypeOK, LaunchType
    <3>2. UsedIn(month) \in Int /\ limit \in Int /\ debt \in Nat /\ raced'[j] = raced[j]
      BY <2>1, UsedInt, QuotaAssumption DEF QuotaAssumption, Minutes, TypeOK, LedgerType, HistoryType
    <3> QED
      BY <1>0, <3>1, <3>2 DEF Slack
  <2>6. stage'[j] = "checked" => h + asked'[j] <= s + raced'[j]
    <3>1. stage'[j] = "checked" => asked'[j] = 0
      BY <1>1 DEF Asks, TypeOK, LaunchType
    <3>2. raced'[j] = raced[j]
      BY <2>1
    <3> HIDE DEF s, h
    <3> QED
      BY <1>0, <3>1, <3>2
  <2> HIDE DEF s, h
  <2>7. \A i \in Jobs \ {j} : /\ stage[i] = "reading" => unused[i] <= s + raced[i]
                              /\ stage[i] = "checked" => h + asked[i] <= s + raced[i]
    BY DEF Covered, s, h
  <2> QED
    BY <1>0, <2>3, <2>4, <2>5, <2>6, <2>7 DEF Covered
<1>2. ASSUME Checks(j) PROVE Covered'
  <2>1. UNCHANGED <<limit, month, usage, debt, hold, asked, raced>>
    BY <1>2 DEF Checks
  <2>2. Slack' = s /\ HeldMinutes' = h
    BY <2>1, SumsUntouched, HeldSame DEF Reserved
  <2>3. \A i \in Jobs \ {j} : stage'[i] = stage[i] /\ unused'[i] = unused[i]
    BY <1>2 DEF Checks, TypeOK, LaunchType
  <2>4. stage'[j] # "reading" /\ (stage'[j] = "checked" => unused[j] - h >= asked[j])
    BY <1>2 DEF Checks, Available, TypeOK, LaunchType
  <2>5. unused[j] <= s + raced[j]
    BY <1>2 DEF Checks, Covered
  <2> HIDE DEF s, h
  <2>6. stage'[j] = "checked" => h + asked[j] <= s + raced[j]
    BY <1>0, <2>4, <2>5
  <2>7. \A i \in Jobs \ {j} : /\ stage[i] = "reading" => unused[i] <= s + raced[i]
                              /\ stage[i] = "checked" => h + asked[i] <= s + raced[i]
    BY DEF Covered, s, h
  <2> QED
    BY <1>0, <2>1, <2>2, <2>3, <2>4, <2>6, <2>7 DEF Covered
<1>3. ASSUME Holds(j) PROVE Covered'
  <2>1. stage[j] = "checked" /\ hold[j] = "none" /\ UNCHANGED <<limit, month, usage, asked, unused>>
    BY <1>0, <1>3 DEF Holds, BeforeLaunch
  <2>2. stage'[j] = "held" /\ \A i \in Jobs \ {j} : stage'[i] = stage[i]
    BY <1>3 DEF Holds, TypeOK, LaunchType
  <2>3. CASE asked[j] = 0
    <3>1. UNCHANGED <<hold, raced, debt>>
      BY <1>3, <2>3 DEF Holds
    <3> QED
      BY <2>1, <2>2, <3>1, CoveredWhileIdle
  <2>4. CASE asked[j] # 0
    <3>1. hold' = [hold EXCEPT ![j] = "HELD"] /\ debt' = debt + raced[j]
      BY <1>3, <2>4 DEF Holds
    <3>2. \A i \in Jobs \ {j} : raced'[i] = IF stage[i] = "checked" THEN raced[i] + asked[j] ELSE raced[i]
      BY <1>3, <2>4 DEF Holds
    <3>3. HeldMinutes' = h + asked[j]
      <4>1. \A i \in Jobs \ {j} : Reserved(i)' = Reserved(i)
        BY <2>1, <3>1 DEF Reserved
      <4>2. Reserved(j)' = asked[j] /\ Reserved(j) = 0
        BY <2>1, <3>1 DEF Reserved, TypeOK, LedgerType
      <4>3. HeldMinutes' = HeldMinutes + Reserved(j)' - Reserved(j)
        BY <4>1, HeldChange
      <4> QED
        BY <1>0, <4>2, <4>3
    <3>4. Slack' = s + raced[j]
      <4>1. UsedIn(month)' = UsedIn(month)
        BY <2>1 DEF UsedIn
      <4>2. UsedIn(month) \in Int /\ limit \in Int /\ debt \in Nat
        BY UsedInt, QuotaAssumption DEF QuotaAssumption, Minutes, TypeOK, LedgerType, HistoryType
      <4>3. Slack' = limit - UsedIn(month) + (debt + raced[j])
        BY <2>1, <3>1, <4>1 DEF Slack
      <4> QED
        BY <1>0, <4>2, <4>3 DEF Slack
    <3>5. h + asked[j] <= s + raced[j]
      BY <2>1 DEF Covered
    <3> HIDE DEF s, h
    <3>6. \A i \in Jobs \ {j} : /\ stage[i] = "reading" => unused[i] <= s + raced[i]
                                /\ stage[i] = "checked" => h + asked[i] <= s + raced[i]
      BY DEF Covered, s, h
    <3>7. ASSUME NEW i \in Jobs, stage'[i] = "reading" PROVE unused'[i] <= Slack' + raced'[i]
      <4>1. i # j /\ unused'[i] = unused[i] /\ raced'[i] = raced[i] /\ unused[i] <= s + raced[i]
        BY <2>1, <2>2, <3>2, <3>6, <3>7
      <4> QED
        BY <1>0, <3>4, <4>1
    <3>8. ASSUME NEW i \in Jobs, stage'[i] = "checked" PROVE HeldMinutes' + asked'[i] <= Slack' + raced'[i]
      <4>1. i # j /\ asked'[i] = asked[i] /\ raced'[i] = raced[i] + asked[j] /\ h + asked[i] <= s + raced[i]
        BY <2>1, <2>2, <3>2, <3>6, <3>8
      <4> QED
        BY <1>0, <3>3, <3>4, <4>1
    <3> QED
      BY <1>0, <3>3, <3>4, <3>5, <3>7, <3>8 DEF Covered
  <2> QED
    BY <2>3, <2>4
<1>4. ASSUME Queues(j) PROVE Covered'
  <2>1. \A i \in Jobs : stage'[i] \in {"reading", "checked"} => stage'[i] = stage[i]
    BY <1>4 DEF Queues, TypeOK, LaunchType
  <2> QED
    BY <1>4, <2>1, CoveredWhileIdle DEF Queues
<1> QED
  BY <1>1, <1>2, <1>3, <1>4 DEF Launch

(* The end of a launch and of a job. *)
LEMMA CoveredOutcome ==
    ASSUME TypeOK, TypeOK', Shape, Covered, NEW j \in Jobs, Outcome(j)
    PROVE  Covered'
<1> USE DEF launchVars, ledgerVars, jobVars, taskVars, historyVars, boundVars
<1>0. ASSUME stage' = [stage EXCEPT ![j] = "over"]
      PROVE  \A i \in Jobs : stage'[i] \in {"reading", "checked"} => stage'[i] = stage[i]
  BY <1>0 DEF TypeOK, LaunchType
<1>1. ASSUME LaunchReturns(j) PROVE Covered'
  BY <1>0, <1>1, CoveredWhileIdle DEF LaunchReturns
<1>2. ASSUME NEW m \in Minutes, LaunchFails(j, m) PROVE Covered'
  <2>1. UNCHANGED <<limit, month, asked, unused>> /\ stage' = [stage EXCEPT ![j] = "over"]
    BY <1>2 DEF LaunchFails
  <2>2. hold' = Released(j) => hold'[j] # "HELD" /\ \A i \in Jobs \ {j} : hold'[i] = hold[i]
    BY DEF Released, TypeOK, LedgerType
  <2>3. CASE Charged(j, m) /\ usage[j] = <<>> /\ hold' = Released(j)
    BY <1>0, <2>1, <2>2, <2>3, CoveredWhenCharged
  <2>4. CASE UNCHANGED <<hold, usage, raced, debt>>
    BY <1>0, <2>1, <2>4, CoveredWhileIdle
  <2>5. CASE hold' = Released(j) /\ UNCHANGED <<usage, raced, debt>>
    BY <1>0, <2>1, <2>2, <2>5, CoveredWhenFreed
  <2> QED
    BY <1>2, <2>3, <2>4, <2>5 DEF LaunchFails, MayInsert, GivesUp
<1>3. ASSUME NEW m \in Minutes, ProviderMissing(j, m) PROVE Covered'
  <2>1. UNCHANGED <<limit, month, asked, unused>> /\ stage' = [stage EXCEPT ![j] = "over"]
    BY <1>3 DEF ProviderMissing
  <2>2. hold'[j] # "HELD" /\ \A i \in Jobs \ {j} : hold'[i] = hold[i]
    BY <1>3 DEF ProviderMissing, Released, TypeOK, LedgerType
  <2>3. CASE Charged(j, m) /\ usage[j] = <<>>
    BY <1>0, <2>1, <2>2, <2>3, CoveredWhenCharged
  <2>4. CASE UNCHANGED <<usage, raced, debt>>
    BY <1>0, <2>1, <2>2, <2>4, CoveredWhenFreed
  <2> QED
    BY <1>3, <2>3, <2>4 DEF ProviderMissing, MayInsert
<1> QED
  BY <1>1, <1>2, <1>3 DEF Outcome

LEMMA CoveredStep == TypeOK /\ TypeOK' /\ Shape /\ Covered /\ [Next]_vars => Covered'
<1> SUFFICES ASSUME TypeOK, TypeOK', Shape, Covered, [Next]_vars PROVE Covered'
  OBVIOUS
<1> USE DEF launchVars, ledgerVars, jobVars, taskVars, historyVars, boundVars
<1>1. ASSUME NEW j \in Jobs, Launch(j) PROVE Covered'
  BY <1>1, CoveredLaunch
<1>2. ASSUME NEW j \in Jobs, Outcome(j) PROVE Covered'
  BY <1>2, CoveredOutcome
<1>3. ASSUME NEW j \in Jobs, Finish(j) PROVE Covered'
  <2>1. UNCHANGED <<limit, month, usage, hold, asked, unused, stage, raced, debt>>
    BY <1>3 DEF Finish, Ends, EndsUntracked
  <2> QED
    BY <2>1, CoveredWhileIdle
<1>4. ASSUME NEW j \in Jobs, Settle(j) PROVE Covered'
  <2>1. CASE Tracks(j)
    <3>1. (\E m \in Spans : Settles(j, m)) \/ GivesUp
      BY <2>1 DEF Tracks, TypeOK, JobType
    <3> QED
      BY <2>1, <3>1, CoveredWhenSettled, CoveredWhileIdle DEF Tracks, GivesUp
  <2>2. CASE BackfillLooks(j)
    BY <2>2, CoveredWhileIdle DEF BackfillLooks
  <2>3. CASE BackfillSettles(j)
    <3>1. (\E m \in Spans : Settles(j, m)) \/ GivesUp
      BY <2>3, QuotaAssumption DEF QuotaAssumption, Minutes, Spans, TypeOK, JobType, BackfillSettles
    <3> QED
      BY <2>3, <3>1, CoveredWhenSettled, CoveredWhileIdle DEF BackfillSettles, GivesUp
  <2> QED
    BY <1>4, <2>1, <2>2, <2>3 DEF Settle
<1>5. ASSUME NEW l \in Minutes, OwnerSets(l) PROVE Covered'
  <2>1. UNCHANGED <<month, usage, hold, asked, unused, stage, raced>> /\ limit' = l /\ debt' = debt + Excess(limit, l)
    BY <1>5 DEF OwnerSets
  <2>2. HeldMinutes' = HeldMinutes
    BY <2>1, HeldSame DEF Reserved
  <2>3. limit \in Nat /\ l \in Nat /\ debt \in Nat /\ UsedIn(month) \in Int
    BY UsedInt, QuotaAssumption DEF QuotaAssumption, Minutes, TypeOK, LedgerType, HistoryType
  <2>4. Excess(limit, l) \in Nat /\ Excess(limit, l) >= limit - l
    BY <2>3, ExcessNat
  <2>5. Slack' = l - UsedIn(month) + (debt + Excess(limit, l))
    BY <2>1 DEF Slack, UsedIn
  <2>6. Slack' >= Slack /\ Slack' \in Int /\ Slack \in Int
    BY <2>3, <2>4, <2>5 DEF Slack
  <2>7. HeldMinutes \in Int /\ \A i \in Jobs : asked[i] \in Nat /\ raced[i] \in Nat /\ unused[i] \in Int
    BY HeldInt, QuotaAssumption DEF QuotaAssumption, Minutes, TypeOK, LaunchType, HistoryType
  <2> QED
    BY <2>1, <2>2, <2>6, <2>7 DEF Covered
<1>6. CASE NextMonth
  <2>1. UNCHANGED <<limit, usage, hold, asked, unused, stage, raced, debt>> /\ month' = month + 1
    BY <1>6 DEF NextMonth
  <2>2. HeldMinutes' = HeldMinutes
    BY <2>1, HeldSame DEF Reserved
  <2>3. UsedIn(month)' <= UsedIn(month) /\ UsedIn(month)' \in Int
    <3> DEFINE f == [j \in Jobs |-> MinutesIn(usage[j], month)]
               h == [j \in Jobs |-> MinutesIn(usage[j], month + 1)]
    <3>1. ASSUME NEW j \in Jobs PROVE f[j] \in Int /\ h[j] \in Int /\ h[j] <= f[j]
      <4>1. CASE usage[j] = <<>>
        BY <4>1, MinutesFew
      <4>2. CASE usage[j] # <<>>
        <5>1. PICK row \in Rows : usage[j] = <<row>> /\ row.month <= month
          <6>1. usage[j] = <<usage[j][1]>> /\ usage[j][1] \in Rows /\ usage[j][1].month <= month
            BY <4>2 DEF Shape, JobShape, LedgerShape, TypeOK, LedgerType
          <6> QED
            BY <6>1
        <5>2. row.minutes \in Nat /\ row.month \in Nat /\ month \in Nat /\ row.month # month + 1
          BY <5>1, QuotaAssumption DEF QuotaAssumption, Rows, Minutes, TypeOK, LedgerType
        <5>3. h[j] = 0
          <6>1. MinutesIn(<<row>>, month + 1) = 0
            BY <5>2, MinutesFew
          <6> QED
            BY <5>1, <6>1
        <5>4. f[j] \in Nat
          <6>1. MinutesIn(<<row>>, month) = IF row.month = month THEN row.minutes ELSE 0
            BY MinutesFew
          <6> QED
            BY <5>1, <5>2, <6>1
        <5> QED
          BY <5>3, <5>4
      <4> QED
        BY <4>1, <4>2
    <3>2. UsedIn(month) = SumFunctionOnSet(f, Jobs) /\ UsedIn(month)' = SumFunctionOnSet(h, Jobs)
      BY <2>1 DEF UsedIn
    <3>3. IsFiniteSet(Jobs)
      BY QuotaAssumption DEF QuotaAssumption
    <3> HIDE DEF f, h
    <3> QED
      BY <3>1, <3>2, <3>3, SumOrdered, SumInt
  <2>4. limit \in Nat /\ debt \in Nat /\ UsedIn(month) \in Int
    BY UsedInt, QuotaAssumption DEF QuotaAssumption, Minutes, TypeOK, LedgerType, HistoryType
  <2>5. Slack' = limit - UsedIn(month)' + debt
    BY <2>1 DEF Slack
  <2>6. Slack' >= Slack /\ Slack' \in Int /\ Slack \in Int
    BY <2>3, <2>4, <2>5 DEF Slack
  <2>7. HeldMinutes \in Int /\ \A i \in Jobs : asked[i] \in Nat /\ raced[i] \in Nat /\ unused[i] \in Int
    BY HeldInt, QuotaAssumption DEF QuotaAssumption, Minutes, TypeOK, LaunchType, HistoryType
  <2> QED
    BY <2>1, <2>2, <2>6, <2>7 DEF Covered
<1>7. CASE Crash
  <2>1. \A i \in Jobs : stage'[i] \in {"reading", "checked"} => stage'[i] = stage[i]
    BY <1>7 DEF Crash
  <2> QED
    BY <1>7, <2>1, CoveredWhileIdle DEF Crash
<1>8. CASE UNCHANGED vars
  BY <1>8, CoveredWhileIdle DEF vars
<1> QED
  BY <1>1, <1>2, <1>3, <1>4, <1>5, <1>6, <1>7, <1>8 DEF Next
-------------------------------------------------------------------------------
LEMMA Invariance == Spec => []LedgerInv
<1>1. Init => LedgerInv
  <2> SUFFICES ASSUME Init PROVE LedgerInv
    OBVIOUS
  <2>1. Shape
    BY DEF Init, Shape, JobShape, StageShape, LedgerShape, HoldOutlives
  <2>2. Calendar
    BY DEF Init, Calendar
  <2> QED
    BY <2>1, <2>2, TypeInit, CoveredInit DEF LedgerInv
<1>2. LedgerInv /\ [Next]_vars => LedgerInv'
  BY TypeStep, ShapeStep, CalendarStep, CoveredStep DEF LedgerInv
<1> QED
  BY <1>1, <1>2, PTL DEF Spec

(* Sums, holds, usage rows and tracking tasks are of their declared types, *)
(* and no row is of a month to come (quota_service.py).                    *)
THEOREM TypeCorrect == Spec => []TypeOK
<1>1. LedgerInv => TypeOK
  BY DEF LedgerInv
<1> QED
  BY <1>1, Invariance, PTL

(* Whatever the number of launches that are checked at once, and however   *)
(* many charges, months and new limits come between their two sums, the    *)
(* user is overdrawn by no more than what was taken from under the checks, *)
(* ran over its reservation, or was cut from the limit                     *)
(* (check_quota_available and the hold that follows it).                   *)
THEOREM OverdraftBounded == Spec => []OverdraftExplained
<1>1. LedgerInv => OverdraftExplained
  <2> SUFFICES ASSUME LedgerInv PROVE OverdraftExplained
    OBVIOUS
  <2>1. UsedIn(month) \in Int /\ HeldMinutes \in Int /\ limit \in Int /\ debt \in Int
    BY UsedInt, HeldInt, QuotaAssumption DEF QuotaAssumption, LedgerInv, TypeOK, LedgerType, HistoryType, Minutes
  <2>2. HeldMinutes <= limit - UsedIn(month) + debt
    BY DEF LedgerInv, Covered, Slack
  <2> QED
    BY <2>1, <2>2 DEF OverdraftExplained
<1> QED
  BY <1>1, Invariance, PTL

(* A hold is left behind only by a job whose last end no tracking task was *)
(* there to settle, or where the task or the failing launch gave up, for   *)
(* any number of ends in any order (_track_quota_for_job_status_change).   *)
THEOREM LeaksNamed == Spec => []LeaksExplained
<1>1. LedgerInv => LeaksExplained
  BY DEF LedgerInv, Shape, JobShape, LeaksExplained
<1> QED
  BY <1>1, Invariance, PTL
-------------------------------------------------------------------------------
(* The two tables as one account per job.                                  *)

LEMMA EntryInit == Init => Books!AccountInit
  BY DEF Init, Books!AccountInit, Entry, Entries

(* An entry depends on the job's own rows; a step of one job moves its     *)
(* entry or none.                                                          *)
LEMMA EntryMove ==
    ASSUME NEW j \in Jobs, \A i \in Jobs \ {j} : hold'[i] = hold[i] /\ usage'[i] = usage[i],
           \/ Entry(j)' = Entry(j)
           \/ Entry(j) = "open" /\ Entry(j)' = "reserved"
           \/ Entry(j) = "reserved" /\ Entry(j)' = "freed"
           \/ Entry(j) \in {"open", "reserved", "freed"} /\ Entry(j)' = "charged"
    PROVE  [Books!AccountNext]_Entries
<1> USE DEF Entries
<1> DEFINE e == [i \in Jobs |-> Entry(i)]
           f == [i \in Jobs |-> Entry(i)']
<1>1. \A i \in Jobs \ {j} : Entry(i)' = Entry(i)
  BY DEF Entry
<1>2. CASE Entry(j)' = Entry(j)
  <2>1. f = e
    BY <1>1, <1>2
  <2> QED
    BY <2>1
<1>3. CASE Entry(j) = "open" /\ Entry(j)' = "reserved"
  <2>1. e[j] = "open" /\ \A i \in Jobs : f[i] = [e EXCEPT ![j] = "reserved"][i]
    BY <1>1, <1>3
  <2>2. f = [e EXCEPT ![j] = "reserved"]
    BY <2>1
  <2> QED
    BY <2>1, <2>2 DEF Books!AccountNext, Books!Reserve, Books!Moves
<1>4. CASE Entry(j) \in {"open", "reserved", "freed"} /\ Entry(j)' = "charged"
  <2>1. f = [e EXCEPT ![j] = "charged"] /\ e[j] \in {"open", "reserved", "freed"}
    BY <1>1, <1>4
  <2> QED
    BY <2>1 DEF Books!AccountNext, Books!Charge, Books!Moves
<1>5. CASE Entry(j) = "reserved" /\ Entry(j)' = "freed"
  <2>1. e[j] = "reserved" /\ \A i \in Jobs : f[i] = [e EXCEPT ![j] = "freed"][i]
    BY <1>1, <1>5
  <2>2. f = [e EXCEPT ![j] = "freed"]
    BY <2>1
  <2> QED
    BY <2>1, <2>2 DEF Books!AccountNext, Books!Free, Books!Moves
<1> QED
  BY <1>2, <1>3, <1>4, <1>5

(* What the entry of a job is. *)
EntryOf(h) == IF h = "HELD" THEN "reserved" ELSE IF h = "RELEASED" THEN "freed" ELSE "open"
LEMMA EntryShape ==
    ASSUME NEW j \in Jobs, LedgerShape(j)
    PROVE  /\ usage[j] # <<>> => Entry(j) = "charged"
           /\ usage[j] = <<>> => Entry(j) = EntryOf(hold[j])
  BY DEF LedgerShape, Entry, EntryOf

LEMMA EntryStep == TypeOK /\ Shape /\ Shape' /\ [Next]_vars => [Books!AccountNext]_Entries
<1> SUFFICES ASSUME TypeOK, Shape, Shape', [Next]_vars PROVE [Books!AccountNext]_Entries
  OBVIOUS
<1> USE DEF launchVars, ledgerVars, jobVars, taskVars, historyVars, boundVars
<1>0. \A i \in Jobs : LedgerShape(i) /\ LedgerShape(i)'
  BY DEF Shape, JobShape
<1>1. ASSUME UNCHANGED <<hold, usage>> PROVE [Books!AccountNext]_Entries
  BY <1>1 DEF Entry, Entries
(* A reservation, a release, or a charge: no row goes, and a hold comes    *)
(* only with a launch and goes only to be released or with a charge.       *)
<1>2. ASSUME NEW j \in Jobs, \A i \in Jobs \ {j} : hold'[i] = hold[i] /\ usage'[i] = usage[i],
             usage[j] # <<>> => usage'[j] # <<>>,
             hold[j] = "HELD" => hold'[j] \in {"HELD", "RELEASED"} \/ usage'[j] # <<>>,
             hold[j] = "RELEASED" => hold'[j] = "RELEASED" \/ usage'[j] # <<>>,
             hold[j] = "none" => hold'[j] # "RELEASED" \/ usage'[j] # <<>>
      PROVE  [Books!AccountNext]_Entries
  <2>1. /\ usage[j] # <<>> => Entry(j) = "charged"
        /\ usage[j] = <<>> => Entry(j) = EntryOf(hold[j]) /\ hold[j] \in {"none", "HELD", "RELEASED"}
    BY <1>0, EntryShape DEF LedgerShape
  <2>2. /\ usage'[j] # <<>> => Entry(j)' = "charged"
        /\ usage'[j] = <<>> => Entry(j)' = EntryOf(hold'[j]) /\ hold'[j] \in {"none", "HELD", "RELEASED"}
    BY <1>0 DEF LedgerShape, Entry, EntryOf
  <2>3. \/ Entry(j)' = Entry(j)
        \/ Entry(j) = "open" /\ Entry(j)' = "reserved"
        \/ Entry(j) = "reserved" /\ Entry(j)' = "freed"
        \/ Entry(j) \in {"open", "reserved", "freed"} /\ Entry(j)' = "charged"
    <3>1. CASE usage[j] # <<>>
      BY <1>2, <2>1, <2>2, <3>1
    <3>2. CASE usage[j] = <<>> /\ usage'[j] # <<>>
      BY <2>1, <2>2, <3>2 DEF EntryOf
    <3>3. CASE usage[j] = <<>> /\ usage'[j] = <<>>
      BY <1>2, <2>1, <2>2, <3>3 DEF EntryOf
    <3> QED
      BY <3>1, <3>2, <3>3
  <2> QED
    BY <1>2, <2>3, EntryMove
<1>3. ASSUME NEW j \in Jobs, Launch(j) PROVE [Books!AccountNext]_Entries
  <2>1. CASE Holds(j)
    <3>1. usage' = usage /\ (\A i \in Jobs \ {j} : hold'[i] = hold[i]) /\ hold'[j] \in {hold[j], "HELD"}
      BY <2>1 DEF Holds, TypeOK, LedgerType
    <3>2. hold[j] = "none"
      BY <2>1 DEF Holds, Shape, JobShape, StageShape, BeforeLaunch
    <3> QED
      BY <1>2, <3>1, <3>2
  <2>2. CASE ~Holds(j)
    BY <1>1, <1>3, <2>2 DEF Launch, Asks, Checks, Queues
  <2> QED
    BY <2>1, <2>2
<1>4. ASSUME NEW j \in Jobs, NEW m \in Minutes, MayInsert(j), Charged(j, m),
             \A i \in Jobs \ {j} : hold'[i] = hold[i]
      PROVE  [Books!AccountNext]_Entries
  <2>1. usage'[j] # <<>> /\ \A i \in Jobs \ {j} : usage'[i] = usage[i]
    BY <1>4, FirstRow DEF MayInsert
  <2> QED
    BY <1>2, <1>4, <2>1
<1>5. ASSUME NEW j \in Jobs, Outcome(j) PROVE [Books!AccountNext]_Entries
  <2>0. ASSUME hold' = Released(j), usage' = usage PROVE [Books!AccountNext]_Entries
    <3>1. (\A i \in Jobs \ {j} : hold'[i] = hold[i]) /\ hold'[j] = (IF hold[j] = "none" THEN "none" ELSE "RELEASED")
      BY <2>0 DEF Released, TypeOK, LedgerType
    <3> QED
      BY <1>2, <2>0, <3>1
  <2>1. CASE LaunchReturns(j)
    BY <1>1, <2>1 DEF LaunchReturns
  <2>2. ASSUME NEW m \in Minutes, LaunchFails(j, m) PROVE [Books!AccountNext]_Entries
    <3>1. CASE MayInsert(j) /\ Charged(j, m) /\ hold' = Released(j)
      BY <1>4, <3>1 DEF Released, TypeOK, LedgerType
    <3>2. CASE hold' = Released(j) /\ usage' = usage
      BY <3>2, <2>0
    <3>3. CASE UNCHANGED <<hold, usage>>
      BY <1>1, <3>3
    <3> QED
      BY <2>2, <3>1, <3>2, <3>3 DEF LaunchFails, GivesUp
  <2>3. ASSUME NEW m \in Minutes, ProviderMissing(j, m) PROVE [Books!AccountNext]_Entries
    <3>1. \A i \in Jobs \ {j} : hold'[i] = hold[i]
      BY <2>3 DEF ProviderMissing, Released, TypeOK, LedgerType
    <3>2. CASE MayInsert(j) /\ Charged(j, m)
      BY <1>4, <3>1, <3>2
    <3>3. CASE usage' = usage
      BY <2>0, <2>3, <3>3 DEF ProviderMissing
    <3> QED
      BY <2>3, <3>2, <3>3 DEF ProviderMissing
  <2> QED
    BY <1>5, <2>1, <2>2, <2>3 DEF Outcome
<1>6. ASSUME NEW j \in Jobs, Finish(j) PROVE [Books!AccountNext]_Entries
  BY <1>1, <1>6 DEF Finish, Ends, EndsUntracked
<1>7. ASSUME NEW j \in Jobs, NEW m \in Spans, Settles(j, m) PROVE [Books!AccountNext]_Entries
  <2>1. CASE m >= 0 /\ MayInsert(j)
    <3>1. m \in Minutes
      BY <2>1, QuotaAssumption DEF QuotaAssumption, Minutes, Spans
    <3>2. Charged(j, m) /\ hold' = Converted(j)
      BY <1>7, <2>1 DEF Settles
    <3>3. \A i \in Jobs \ {j} : hold'[i] = hold[i]
      BY <3>2 DEF Converted, TypeOK, LedgerType
    <3> QED
      BY <1>4, <2>1, <3>1, <3>2, <3>3
  <2>2. CASE ~(m >= 0 /\ MayInsert(j))
    BY <1>1, <1>7, <2>2 DEF Settles
  <2> QED
    BY <2>1, <2>2
<1>8. ASSUME NEW j \in Jobs, Settle(j) PROVE [Books!AccountNext]_Entries
  <2>1. CASE Tracks(j)
    <3>1. (\E m \in Spans : Settles(j, m)) \/ GivesUp
      BY <2>1 DEF Tracks, TypeOK, JobType
    <3> QED
      BY <1>1, <1>7, <3>1 DEF GivesUp
  <2>2. CASE BackfillLooks(j)
    BY <1>1, <2>2 DEF BackfillLooks
  <2>3. CASE BackfillSettles(j)
    <3>1. (\E m \in Spans : Settles(j, m)) \/ GivesUp
      BY <2>3, QuotaAssumption DEF QuotaAssumption, Minutes, Spans, TypeOK, JobType, BackfillSettles
    <3> QED
      BY <1>1, <1>7, <3>1 DEF GivesUp
  <2> QED
    BY <1>8, <2>1, <2>2, <2>3 DEF Settle
<1>9. CASE (\E l \in Minutes : OwnerSets(l)) \/ NextMonth \/ Crash \/ UNCHANGED vars
  BY <1>1, <1>9 DEF OwnerSets, NextMonth, Crash, vars
<1> QED
  BY <1>3, <1>5, <1>6, <1>8, <1>9 DEF Next

(* Tracking tasks, backfills and failing launches, in whatever order and    *)
(* for any number of jobs, keep an account in which each job is charged     *)
(* once at most and never holds what it was charged for (quota_service.py). *)
THEOREM AccountsKept == Spec => KeepsAccounts
<1>1. LedgerInv /\ LedgerInv' /\ [Next]_vars => [Books!AccountNext]_Entries
  BY EntryStep DEF LedgerInv
<1> QED
  BY <1>1, EntryInit, Invariance, PTL DEF Spec, KeepsAccounts, Books!AccountSpec
================================================================================
