----------------------------- MODULE GroupProofs -----------------------------
(***************************************************************************)
(* Proofs about the space of the volume group, for any volumes and any     *)
(* sizes: what the volumes use is the sum of their sizes, whatever the     *)
(* order in which it is taken, it never exceeds the group, and it is a     *)
(* whole number of extents.                                                *)
(*                                                                         *)
(* A sum over a finite set is defined by recursion.  A proof by induction  *)
(* over the set is written here as one by smallest counterexample: of the  *)
(* subsets for which a claim fails, were there any, one would be smallest, *)
(* as strict inclusion is well-founded on the subsets of a finite set, and *)
(* the recursion leads from it to a smaller one.                           *)
(***************************************************************************)
EXTENDS VolumeGroup, FiniteSetTheorems, TLAPS

(***************************************************************************)
(* MapThenSumSet(SizeOf, S), the sum in VgFree, and the equation that the  *)
(* function behind it satisfies: it takes away one element at a time.      *)
(***************************************************************************)
Pick(s) == CHOOSE x \in s : TRUE

IsSum(g, S) ==
    g = [s \in SUBSET S |-> IF s = {} THEN 0 ELSE Pick(s).size + g[s \ {Pick(s)}]]

Used(S) == MapThenSumSet(SizeOf, S)

(* The library's fold is the solution of that equation.                    *)
LEMMA UsedIsSum ==
  ASSUME NEW S
  PROVE Used(S) = (CHOOSE g : IsSum(g, S))[S]
  BY DEF Used, MapThenSumSet, MapThenFoldSet, IsSum, Pick, SizeOf

(* The element taken from a set is one of its own.                         *)
LEMMA PickIn == ASSUME NEW s, s # {} PROVE Pick(s) \in s
  BY DEF Pick

(* Of some subsets of a finite set one includes no other.                  *)
LEMMA Smallest ==
  ASSUME NEW S, IsFiniteSet(S), NEW B, B \subseteq SUBSET S, B # {}
  PROVE  \E T \in B : \A U \in B : ~(U \subseteq T /\ U # T)
<1>1. IsWellFoundedOn(StrictSubsetOrdering(S), SUBSET S)
  BY FS_StrictSubsetOrderingWellFounded, FS_FiniteSubsetsOfFinite
<1>2. PICK T \in B : \A U \in B : <<U, T>> \notin StrictSubsetOrdering(S)
  BY <1>1, WFMin
<1> QED
  BY <1>2 DEF StrictSubsetOrdering

(* A sum is determined by its equation: two of them agree where they meet. *)
LEMMA SumUnique ==
  ASSUME NEW S, IsFiniteSet(S), NEW T, NEW g, NEW h, IsSum(g, S), IsSum(h, T),
         NEW U, U \subseteq S, U \subseteq T
  PROVE  g[U] = h[U]
<1> DEFINE Differ == {V \in SUBSET S : V \subseteq T /\ g[V] # h[V]}
<1> SUFFICES ASSUME Differ # {} PROVE FALSE
  OBVIOUS
<1>1. PICK V \in Differ : \A W \in Differ : ~(W \subseteq V /\ W # V)
  <2>1. Differ \subseteq SUBSET S
    OBVIOUS
  <2> HIDE DEF Differ
  <2> QED
    BY <2>1, Smallest
<1>2. g[V] = IF V = {} THEN 0 ELSE Pick(V).size + g[V \ {Pick(V)}]
  BY DEF IsSum
<1>3. h[V] = IF V = {} THEN 0 ELSE Pick(V).size + h[V \ {Pick(V)}]
  BY DEF IsSum
<1>4. V # {}
  BY <1>2, <1>3
<1>5. V \ {Pick(V)} \notin Differ
  BY <1>1, <1>4, PickIn
<1>6. g[V \ {Pick(V)}] = h[V \ {Pick(V)}]
  BY <1>5
<1> QED
  BY <1>2, <1>3, <1>4, <1>6

(***************************************************************************)
(* The equation has a solution for every finite set: were there a smallest *)
(* set without one, the solutions for its subsets would make one for it.   *)
(***************************************************************************)
LEMMA SumExists ==
  ASSUME NEW S, IsFiniteSet(S)
  PROVE  \E g : IsSum(g, S)
<1> DEFINE Without == {T \in SUBSET S : ~\E g : IsSum(g, T)}
<1> SUFFICES ASSUME Without # {} PROVE FALSE
  OBVIOUS
<1>1. PICK T \in Without : \A U \in Without : ~(U \subseteq T /\ U # T)
  <2>1. Without \subseteq SUBSET S
    OBVIOUS
  <2> HIDE DEF Without
  <2> QED
    BY <2>1, Smallest
<1> HIDE DEF Without
<1> DEFINE Of(U) == CHOOSE g : IsSum(g, U)
           Rest(s) == s \ {Pick(s)}
           h == [s \in SUBSET T |-> IF s = {} THEN 0 ELSE Pick(s).size + Of(Rest(s))[Rest(s)]]
<1>2. T \subseteq S /\ ~\E g : IsSum(g, T)
  BY <1>1 DEF Without
<1>3. ASSUME NEW U, U \subseteq T, U # T
      PROVE  IsSum(Of(U), U)
  <2>1. \E g : IsSum(g, U)
    BY <1>1, <1>2, <1>3 DEF Without
  <2> QED
    BY <2>1
<1>4. ASSUME NEW s, s \subseteq T, s # {}
      PROVE  h[Rest(s)] = Of(Rest(s))[Rest(s)]
  <2> DEFINE r == Rest(s)
  <2>1. r \subseteq T /\ r # T /\ IsFiniteSet(r)
    BY <1>2, <1>4, PickIn, FS_Subset
  <2>2. IsSum(Of(r), r)
    BY <1>3, <2>1
  <2> HIDE DEF r
  <2>3. CASE r = {}
    <3>1. Of(r)[r] = 0
      BY <2>2, <2>3 DEF IsSum
    <3> QED
      BY <2>1, <2>3, <3>1 DEF r
  <2>4. CASE r # {}
    <3>1. Of(r)[r] = Pick(r).size + Of(r)[Rest(r)]
      BY <2>2, <2>4 DEF IsSum
    <3>2. Rest(r) \subseteq r /\ Rest(r) \subseteq T /\ Rest(r) # T
      BY <2>1, <2>4, PickIn
    <3>3. IsSum(Of(Rest(r)), Rest(r))
      BY <1>3, <3>2
    <3>4. Of(r)[Rest(r)] = Of(Rest(r))[Rest(r)]
      BY <2>1, <2>2, <3>2, <3>3, SumUnique
    <3>5. h[r] = Pick(r).size + Of(Rest(r))[Rest(r)]
      BY <2>1, <2>4
    <3> QED
      BY <3>1, <3>4, <3>5 DEF r
  <2> QED
    BY <2>3, <2>4
<1>5. IsSum(h, T)
  <2> HIDE DEF Of
  <2>1. ASSUME NEW s \in SUBSET T
        PROVE  h[s] = IF s = {} THEN 0 ELSE Pick(s).size + h[Rest(s)]
    <3>1. CASE s = {}
      BY <3>1
    <3>2. CASE s # {}
      <4>1. h[s] = Pick(s).size + Of(Rest(s))[Rest(s)]
        BY <3>2
      <4>2. h[Rest(s)] = Of(Rest(s))[Rest(s)]
        BY <1>4, <3>2
      <4> HIDE DEF h, Rest
      <4> QED
        BY <3>2, <4>1, <4>2
    <3> QED
      BY <3>1, <3>2
  <2>2. h = [s \in SUBSET T |-> h[s]]
    OBVIOUS
  <2> HIDE DEF h
  <2> QED
    BY <2>1, <2>2 DEF IsSum
<1> QED
  BY <1>2, <1>5

(* The sum as a recursion on sets, with no function in between.            *)
LEMMA UsedDef ==
  ASSUME NEW S, IsFiniteSet(S)
  PROVE  Used(S) = IF S = {} THEN 0 ELSE Pick(S).size + Used(S \ {Pick(S)})
<1> DEFINE f == CHOOSE g : IsSum(g, S)
           R == S \ {Pick(S)}
           e == CHOOSE g : IsSum(g, R)
<1>1. IsSum(f, S)
  BY SumExists
<1>2. IsFiniteSet(R) /\ IsSum(e, R)
  BY SumExists, FS_RemoveElement
<1>3. Used(S) = f[S] /\ Used(R) = e[R]
  BY UsedIsSum
<1>4. f[R] = e[R]
  BY <1>1, <1>2, SumUnique
<1>5. f[S] = IF S = {} THEN 0 ELSE Pick(S).size + f[R]
  BY <1>1 DEF IsSum
<1> QED
  BY <1>3, <1>4, <1>5

(* An empty group uses nothing.                                            *)
LEMMA UsedEmpty == Used({}) = 0
  BY UsedDef, FS_EmptySet

(* What volumes of whole sizes use is a whole size.                        *)
LEMMA UsedType ==
  ASSUME NEW S, IsFiniteSet(S), \A v \in S : v.size \in Nat
  PROVE  Used(S) \in Nat
<1> DEFINE Bad == {T \in SUBSET S : Used(T) \notin Nat}
<1> SUFFICES ASSUME Bad # {} PROVE FALSE
  OBVIOUS
<1>1. PICK T \in Bad : \A U \in Bad : ~(U \subseteq T /\ U # T)
  <2>1. Bad \subseteq SUBSET S
    OBVIOUS
  <2> HIDE DEF Bad
  <2> QED
    BY <2>1, Smallest
<1>2. Used(T) = IF T = {} THEN 0 ELSE Pick(T).size + Used(T \ {Pick(T)})
  BY UsedDef, FS_Subset
<1>3. T # {} => Used(T \ {Pick(T)}) \in Nat /\ Pick(T).size \in Nat
  BY <1>1, PickIn
<1> QED
  BY <1>2, <1>3

(***************************************************************************)
(* The order of summation does not matter: any element may be the one      *)
(* taken away first.                                                       *)
(***************************************************************************)
LEMMA UsedSplit ==
  ASSUME NEW S, IsFiniteSet(S), \A v \in S : v.size \in Nat, NEW x \in S
  PROVE  Used(S) = x.size + Used(S \ {x})
<1> DEFINE Bad == {T \in SUBSET S : ~\A v \in T : Used(T) = v.size + Used(T \ {v})}
<1> SUFFICES ASSUME Bad # {} PROVE FALSE
  OBVIOUS
<1>1. PICK T \in Bad : \A U \in Bad : ~(U \subseteq T /\ U # T)
  <2>1. Bad \subseteq SUBSET S
    OBVIOUS
  <2> HIDE DEF Bad
  <2> QED
    BY <2>1, Smallest
<1>2. PICK v \in T : Used(T) # v.size + Used(T \ {v})
  BY <1>1
<1> DEFINE c == Pick(T)
<1>3. c \in T /\ Used(T) = c.size + Used(T \ {c})
  BY <1>2, UsedDef, FS_Subset, PickIn
<1>4. c # v
  BY <1>2, <1>3
<1>5. Used(T \ {c}) = v.size + Used((T \ {c}) \ {v})
  BY <1>1, <1>3, <1>4
<1>6. Used(T \ {v}) = c.size + Used((T \ {v}) \ {c})
  BY <1>1, <1>3, <1>4
<1>7. (T \ {c}) \ {v} = (T \ {v}) \ {c}
  OBVIOUS
<1>8. Used((T \ {c}) \ {v}) \in Nat /\ c.size \in Nat /\ v.size \in Nat
  <2>1. IsFiniteSet((T \ {c}) \ {v})
    BY FS_Subset
  <2> QED
    BY <1>2, <1>3, <2>1, UsedType
<1> HIDE DEF c, Bad
<1>9. PICK a \in Nat, b \in Nat, r \in Nat :
        a = c.size /\ b = v.size /\ r = Used((T \ {c}) \ {v})
  BY <1>8
<1>10. Used(T) = a + (b + r) /\ Used(T \ {v}) = a + r
  BY <1>3, <1>5, <1>6, <1>7, <1>9
<1> QED
  BY <1>2, <1>9, <1>10

(* A new volume adds its size.                                             *)
LEMMA UsedAdd ==
  ASSUME NEW S, IsFiniteSet(S), NEW x, x \notin S,
         \A v \in S \cup {x} : v.size \in Nat
  PROVE  Used(S \cup {x}) = x.size + Used(S)
<1>1. IsFiniteSet(S \cup {x}) /\ (S \cup {x}) \ {x} = S
  BY FS_AddElement
<1> QED
  BY <1>1, UsedSplit

(* Fewer volumes use no more.                                              *)
LEMMA UsedMonotone ==
  ASSUME NEW S, IsFiniteSet(S), \A v \in S : v.size \in Nat, NEW T \in SUBSET S
  PROVE  Used(T) <= Used(S)
<1> DEFINE Bad == {U \in SUBSET S : T \subseteq U /\ ~(Used(T) <= Used(U))}
<1> SUFFICES ASSUME Bad # {} PROVE FALSE
  OBVIOUS
<1>1. PICK U \in Bad : \A V \in Bad : ~(V \subseteq U /\ V # U)
  <2>1. Bad \subseteq SUBSET S
    OBVIOUS
  <2> HIDE DEF Bad
  <2> QED
    BY <2>1, Smallest
<1>2. IsFiniteSet(T) /\ IsFiniteSet(U) /\ Used(T) \in Nat /\ Used(U) \in Nat
  BY FS_Subset, UsedType
<1>3. PICK x \in U : x \notin T
  BY <1>2
<1>4. Used(T) <= Used(U \ {x})
  BY <1>1, <1>3
<1>5. Used(U) = x.size + Used(U \ {x}) /\ Used(U \ {x}) \in Nat
  BY <1>2, UsedSplit, UsedType, FS_RemoveElement
<1> QED
  BY <1>2, <1>4, <1>5

-----------------------------------------------------------------------------
(* Whole numbers of extents, as multiples of one and by their remainder.   *)
LEMMA Multiple ==
  /\ \A n \in Int : n % Extent = 0 <=> \E k \in Int : n = k * Extent
  /\ \A k \in Int : (k * Extent) % Extent = 0
<1>1. ASSUME NEW k \in Int PROVE (k * Extent) % Extent = 0
  BY VolumeGroupAssumption
<1>2. ASSUME NEW n \in Int, n % Extent = 0
      PROVE  n = (n \div Extent) * Extent /\ n \div Extent \in Int
  BY <1>2, VolumeGroupAssumption
<1> QED
  BY <1>1, <1>2

(* They are closed under sum and difference.                               *)
LEMMA WholeSum ==
  ASSUME NEW a \in Int, NEW b \in Int, a % Extent = 0, b % Extent = 0
  PROVE  (a + b) % Extent = 0 /\ (a - b) % Extent = 0
<1>1. PICK k \in Int, l \in Int : a = k * Extent /\ b = l * Extent
  BY Multiple
<1>2. a + b = (k + l) * Extent /\ a - b = (k - l) * Extent /\ k + l \in Int /\ k - l \in Int
  BY <1>1, VolumeGroupAssumption
<1> QED
  BY <1>2, Multiple

(* lvcreate rounds up to whole extents, by less than one.                  *)
LEMMA RoundUpWhole ==
  ASSUME NEW n \in Nat
  PROVE  /\ RoundUp(n) \in Nat
         /\ RoundUp(n) \in n..(n + Extent - 1)
         /\ RoundUp(n) % Extent = 0
<1> DEFINE q == (-n) \div Extent
<1>1. -n = q * Extent + ((-n) % Extent) /\ q \in Int /\ (-n) % Extent \in 0..(Extent - 1)
  BY VolumeGroupAssumption
<1> HIDE DEF q
<1>2. RoundUp(n) = (-q) * Extent /\ -q \in Int
  BY <1>1, VolumeGroupAssumption DEF RoundUp
<1>3. RoundUp(n) % Extent = 0
  BY <1>2, Multiple
<1> QED
  BY <1>1, <1>3, VolumeGroupAssumption DEF RoundUp

(* What fits into whole extents still does when it is rounded up.          *)
LEMMA RoundUpFits ==
  ASSUME NEW n \in Nat, NEW m \in Int, n <= m, m % Extent = 0
  PROVE  RoundUp(n) <= m
<1>1. Extent \in Nat \ {0}
  BY VolumeGroupAssumption
<1> QED
  BY <1>1 DEF RoundUp

(* Volumes of whole extents use whole extents.                             *)
LEMMA UsedWhole ==
  ASSUME NEW S, IsFiniteSet(S), \A v \in S : v.size \in Nat /\ v.size % Extent = 0
  PROVE  Used(S) % Extent = 0
<1> DEFINE Bad == {T \in SUBSET S : Used(T) % Extent # 0}
<1> SUFFICES ASSUME Bad # {} PROVE FALSE
  OBVIOUS
<1>1. PICK T \in Bad : \A U \in Bad : ~(U \subseteq T /\ U # T)
  <2>1. Bad \subseteq SUBSET S
    OBVIOUS
  <2> HIDE DEF Bad
  <2> QED
    BY <2>1, Smallest
<1>2. T # {}
  <2>1. 0 % Extent = 0
    BY VolumeGroupAssumption
  <2> QED
    BY <2>1, UsedEmpty
<1> DEFINE c == Pick(T)
           R == T \ {c}
<1>3. c \in T /\ R \in SUBSET S /\ Used(T) = c.size + Used(R)
  BY <1>2, UsedDef, FS_Subset, PickIn
<1>4. Used(R) % Extent = 0 /\ Used(R) \in Nat
  <2>1. R \notin Bad
    BY <1>1, <1>3
  <2>2. IsFiniteSet(R)
    BY <1>3, FS_Subset
  <2> QED
    BY <1>3, <2>1, <2>2, UsedType
<1>5. c.size \in Nat /\ c.size % Extent = 0
  BY <1>3
<1>6. Used(T) % Extent # 0
  OBVIOUS
<1> HIDE DEF c, R, Bad
<1>7. PICK a \in Int, b \in Int :
        a = c.size /\ b = Used(R) /\ a % Extent = 0 /\ b % Extent = 0
  BY <1>4, <1>5
<1>8. (a + b) % Extent = 0
  BY <1>7, WholeSum
<1> QED
  BY <1>3, <1>6, <1>7, <1>8

-----------------------------------------------------------------------------
(***************************************************************************)
(* The state of a group that lvcreate and lvremove keep: volumes of whole  *)
(* extents that fit into it together.                                      *)
(***************************************************************************)
GroupSound ==
    /\ VolumeGroupTypeOK
    /\ lvs \subseteq born
    /\ IsFiniteSet(born)
    /\ \A v \in born : v.size % Extent = 0
    /\ Used(lvs) <= VgSize

(* What follows for the free space: it is never negative.                  *)
LEMMA SoundFacts ==
  ASSUME GroupSound
  PROVE  /\ IsFiniteSet(lvs)
         /\ \A v \in born : v.size \in Nat
         /\ Used(lvs) \in Nat
         /\ VgFree = VgSize - Used(lvs)
         /\ VgFree \in Nat
         /\ VgFree % Extent = 0
<1>1. IsFiniteSet(lvs) /\ \A v \in born : v.size \in Nat
  BY FS_Subset DEF GroupSound, VolumeGroupTypeOK, Volume
<1>2. Used(lvs) \in Nat /\ Used(lvs) % Extent = 0
  BY <1>1, UsedType, UsedWhole DEF GroupSound
<1>3. VgFree = VgSize - Used(lvs)
  BY DEF VgFree, Used
<1>4. VgSize \in Nat /\ VgSize % Extent = 0 /\ Used(lvs) <= VgSize
  BY VolumeGroupAssumption DEF GroupSound
<1>5. (VgSize - Used(lvs)) % Extent = 0
  BY <1>2, <1>4, WholeSum
<1> QED
  BY <1>1, <1>2, <1>3, <1>4, <1>5

(* An empty group is sound.                                                *)
LEMMA InitSound == VolumeGroupInit => GroupSound
<1> SUFFICES ASSUME VolumeGroupInit PROVE GroupSound
  OBVIOUS
<1>1. Used(lvs) = 0 /\ IsFiniteSet(born)
  BY UsedEmpty, FS_EmptySet DEF VolumeGroupInit
<1> QED
  BY <1>1, VolumeGroupAssumption
  DEF VolumeGroupInit, GroupSound, VolumeGroupTypeOK, Content

(* lvcreate takes the rounded size from the free space.                    *)
LEMMA AddKeepsSound ==
  ASSUME GroupSound, NEW v \in Volume, v.size % Extent = 0, v.size <= VgFree, AddLv(v)
  PROVE  GroupSound' /\ VgFree' = VgFree - v.size
<1>1. v \notin born /\ lvs' = lvs \cup {v} /\ born' = born \cup {v} /\ v.size \in Nat
  BY DEF AddLv, Volume
<1>2. Used(lvs') = v.size + Used(lvs)
  BY <1>1, SoundFacts, UsedAdd DEF GroupSound
<1>3. Used(lvs') <= VgSize
  BY <1>1, <1>2, SoundFacts, VolumeGroupAssumption
<1>4. VgFree' = VgSize - Used(lvs')
  BY DEF VgFree, Used
<1>5. VgFree' = VgFree - v.size
  BY <1>1, <1>2, <1>4, SoundFacts, VolumeGroupAssumption
<1>6. IsFiniteSet(born')
  BY <1>1, FS_AddElement DEF GroupSound
<1>7. VolumeGroupTypeOK'
  BY <1>1 DEF GroupSound, VolumeGroupTypeOK, AddLv
<1> QED
  BY <1>1, <1>3, <1>5, <1>6, <1>7 DEF GroupSound

(* lvremove gives the size of the volume back.                             *)
LEMMA RemoveKeepsSound ==
  ASSUME GroupSound, NEW v \in lvs, RemoveLv(v)
  PROVE  GroupSound' /\ VgFree' = VgFree + v.size
<1>1. lvs' = lvs \ {v} /\ born' = born /\ v \in born /\ v.uuid \in Uuid
  BY DEF RemoveLv, GroupSound, VolumeGroupTypeOK, Volume
<1>2. v.size \in Nat /\ Used(lvs) = v.size + Used(lvs')
  BY <1>1, SoundFacts, UsedSplit DEF GroupSound
<1>3. IsFiniteSet(lvs') /\ Used(lvs') \in Nat
  BY <1>1, SoundFacts, UsedType, FS_RemoveElement DEF GroupSound
<1>4. Used(lvs') <= VgSize
  BY <1>2, <1>3, VolumeGroupAssumption DEF GroupSound
<1>5. VgFree' = VgSize - Used(lvs')
  BY DEF VgFree, Used
<1>6. VgFree' = VgFree + v.size
  BY <1>2, <1>3, <1>5, SoundFacts, VolumeGroupAssumption
<1>7. VolumeGroupTypeOK'
  BY <1>1 DEF GroupSound, VolumeGroupTypeOK, RemoveLv, Content
<1> QED
  BY <1>1, <1>4, <1>6, <1>7 DEF GroupSound

(* Commands on the devices change nothing of that.                         *)
LEMMA SameKeepsSound ==
  ASSUME GroupSound, VolumeGroupTypeOK', lvs' = lvs, born' = born
  PROVE  GroupSound' /\ VgFree' = VgFree
  BY DEF GroupSound, VgFree
=============================================================================
