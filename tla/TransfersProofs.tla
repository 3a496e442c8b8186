-------------------------- MODULE TransfersProofs --------------------------
(* Proofs about Transfers.tla, for every set of users, gifts, awards and     *)
(* referrals, and about the modules beside it, Forum.tla, Standing.tla and   *)
(* Levels.tla.                                                               *)
EXTENDS MCTransfers, FiniteSetTheorems, SequenceTheorems, WellFoundedInduction, TLAPS

-----------------------------------------------------------------------------
(* Sums over finite sets.  SumFunctionOnSet is a fold; whatever is said of it *)
(* of a set of any size is proved on a smallest set on which it would fail.  *)

Pick(T) == CHOOSE x \in T : TRUE

LEMMA PickIn == ASSUME NEW T, T # {} PROVE Pick(T) \in T
BY DEF Pick

\* The operator of the community modules, with the folds it is made of expanded.
LEMMA SumIsFold ==
  ASSUME NEW f, NEW Z
  PROVE  SumFunctionOnSet(f, Z) =
           (CHOOSE g : g = [T \in SUBSET Z |-> IF T = {} THEN 0 ELSE f[Pick(T)] + g[T \ {Pick(T)}]])[Z]
BY DEF SumFunctionOnSet, FoldFunctionOnSet, MapThenFoldSet, Pick

\* A set of naturals that is not empty has a least element: what stands in for induction.
LEMMA Least ==
  ASSUME NEW N \in SUBSET Nat, N # {}
  PROVE  \E n \in N : \A m \in N : n <= m
<1> DEFINE R == {ss \in Nat \X Nat : ss[1] < ss[2]}
<1>1. IsWellFoundedOn(R, Nat)
  BY NatLessThanWellFounded, Zenon DEF OpToRel
<1> HIDE DEF R
<1>2. PICK n \in N : \A m \in N : ~(<<m, n>> \in R)
  BY <1>1, WFMin, Zenon
<1>3. ASSUME NEW m \in N PROVE n <= m
  <2>1. m < n => <<m, n>> \in R
    BY DEF R
  <2> QED BY <1>2, <2>1
<1> QED BY <1>3

Small(D, n) == {T \in SUBSET D : Cardinality(T) <= n}

Folded(f, C, g) ==
  g = [T \in C |-> IF T = {} THEN 0 ELSE f[Pick(T)] + g[T \ {Pick(T)}]]

LEMMA RestSmaller ==
  ASSUME NEW D, IsFiniteSet(D), NEW T \in SUBSET D, T # {}
  PROVE  /\ T \ {Pick(T)} \in SUBSET D /\ IsFiniteSet(T)
         /\ Cardinality(T) \in Nat /\ Cardinality(T \ {Pick(T)}) = Cardinality(T) - 1
         /\ Cardinality(T) > 0
<1>1. IsFiniteSet(T) /\ Pick(T) \in T
  BY FS_Subset, PickIn
<1>2. Cardinality(T \ {Pick(T)}) = Cardinality(T) - 1
  BY <1>1, FS_RemoveElement
<1>3. Cardinality(T) \in Nat /\ Cardinality(T \ {Pick(T)}) \in Nat
  BY <1>1, FS_CardinalityType, FS_Subset
<1> QED BY <1>1, <1>2, <1>3

\* There is a fold over the subsets of D with at most n elements.
LEMMA FoldExists ==
  ASSUME NEW D, IsFiniteSet(D), NEW f, NEW n \in Nat
  PROVE  \E g : Folded(f, Small(D, n), g)
<1> DEFINE Bad == {m \in Nat : ~ \E g : Folded(f, Small(D, m), g)}
<1> SUFFICES ASSUME Bad # {} PROVE FALSE
  OBVIOUS
<1>1. PICK m \in Bad : \A k \in Bad : m <= k
  BY Least
<1>2. m # 0
  <2> SUFFICES ASSUME m = 0 PROVE FALSE
    OBVIOUS
  <2>1. \A T \in Small(D, 0) : T = {}
    <3> TAKE T \in Small(D, 0)
    <3>1. IsFiniteSet(T) /\ Cardinality(T) \in Nat /\ Cardinality(T) <= 0
      BY FS_Subset, FS_CardinalityType DEF Small
    <3> QED BY <3>1, FS_EmptySet
  <2>2. Folded(f, Small(D, 0), [T \in Small(D, 0) |-> 0])
    BY <2>1 DEF Folded
  <2> QED BY <2>2
<1>3. m \in Nat /\ m - 1 \in Nat /\ m - 1 \notin Bad
  <2>1. m \in Nat
    OBVIOUS
  <2>2. m - 1 \in Nat /\ ~(m <= m - 1)
    BY <1>2, <2>1
  <2> QED BY <1>1, <2>1, <2>2
<1>4. PICK g : Folded(f, Small(D, m - 1), g)
  BY <1>3
<1> DEFINE h == [T \in Small(D, m) |-> IF T = {} THEN 0 ELSE f[Pick(T)] + g[T \ {Pick(T)}]]
<1>5. ASSUME NEW T \in Small(D, m - 1)
      PROVE  T \in Small(D, m) /\ h[T] = g[T]
  <2>1. T \in Small(D, m)
    <3>1. Cardinality(T) \in Nat
      BY FS_Subset, FS_CardinalityType DEF Small
    <3> QED BY <1>3, <3>1 DEF Small
  <2>2. g[T] = IF T = {} THEN 0 ELSE f[Pick(T)] + g[T \ {Pick(T)}]
    BY <1>4 DEF Folded
  <2> QED BY <2>1, <2>2
<1>6. ASSUME NEW T \in Small(D, m), T # {}
      PROVE  h[T] = f[Pick(T)] + h[T \ {Pick(T)}]
  <2>1. T \ {Pick(T)} \in Small(D, m - 1)
    BY <1>3, <1>6, RestSmaller DEF Small
  <2> QED BY <1>5, <1>6, <2>1
<1>7. Folded(f, Small(D, m), h)
  <2> DEFINE k == [T \in Small(D, m) |-> IF T = {} THEN 0 ELSE f[Pick(T)] + h[T \ {Pick(T)}]]
  <2>1. \A T \in Small(D, m) : h[T] = k[T]
    BY <1>6
  <2>2. h = k
    BY <2>1
  <2> QED BY <2>2 DEF Folded
<1> QED BY <1>7

\* A property of sets that fails somewhere fails on a smallest set.
LEMMA SmallestSet ==
  ASSUME NEW D, IsFiniteSet(D), NEW Bad \in SUBSET (SUBSET D), Bad # {}
  PROVE  \E T \in Bad : \A U \in Bad : Cardinality(T) <= Cardinality(U)
<1> DEFINE N == {Cardinality(T) : T \in Bad}
<1>1. \A T \in Bad : Cardinality(T) \in Nat
  BY FS_Subset, FS_CardinalityType
<1>2. N \in SUBSET Nat /\ N # {}
  BY <1>1
<1>3. PICK n \in N : \A m \in N : n <= m
  BY <1>2, Least
<1> QED BY <1>3

LEMMA FoldUnique ==
  ASSUME NEW D, NEW f, NEW g, NEW Z, NEW h, IsFiniteSet(D), Z \subseteq D,
         Folded(f, SUBSET D, g), Folded(f, SUBSET Z, h)
  PROVE  h[Z] = g[Z]
<1> DEFINE Bad == {T \in SUBSET Z : h[T] # g[T]}
<1> SUFFICES ASSUME Bad # {} PROVE FALSE
  OBVIOUS
<1>0. IsFiniteSet(Z)
  BY FS_Subset
<1>1. PICK T \in Bad : \A U \in Bad : Cardinality(T) <= Cardinality(U)
  BY <1>0, SmallestSet
<1>2. /\ g[T] = IF T = {} THEN 0 ELSE f[Pick(T)] + g[T \ {Pick(T)}]
      /\ h[T] = IF T = {} THEN 0 ELSE f[Pick(T)] + h[T \ {Pick(T)}]
  BY <1>1 DEF Folded
<1>3. T # {}
  BY <1>1, <1>2
<1>4. T \ {Pick(T)} \in SUBSET Z /\ T \ {Pick(T)} \notin Bad
  <2>1. ~ (Cardinality(T) <= Cardinality(T \ {Pick(T)}))
    BY <1>0, <1>3, RestSmaller
  <2> QED BY <1>1, <2>1
<1> QED BY <1>1, <1>2, <1>3, <1>4

\* The fold over the subsets of D: what SumFunctionOnSet computes.
LEMMA SumIsFolded ==
  ASSUME NEW D, IsFiniteSet(D), NEW f
  PROVE  Folded(f, SUBSET D, [Z \in SUBSET D |-> SumFunctionOnSet(f, Z)])
<1>1. \A Z \in SUBSET D : IsFiniteSet(Z) /\ SUBSET Z = Small(Z, Cardinality(Z)) /\ Cardinality(Z) \in Nat
  BY FS_Subset, FS_CardinalityType DEF Small
<1>2. ASSUME NEW Z \in SUBSET D PROVE \E h : Folded(f, SUBSET Z, h)
  <2>1. \E h : Folded(f, Small(Z, Cardinality(Z)), h)
    BY <1>1, FoldExists
  <2> QED BY <1>1, <2>1
<1>3. PICK g : Folded(f, SUBSET D, g)
  BY <1>2
<1>4. ASSUME NEW Z \in SUBSET D PROVE SumFunctionOnSet(f, Z) = g[Z]
  <2>1. PICK h : h = CHOOSE e : e = [T \in SUBSET Z |-> IF T = {} THEN 0 ELSE f[Pick(T)] + e[T \ {Pick(T)}]]
    OBVIOUS
  <2>2. Folded(f, SUBSET Z, h)
    BY <1>2, <2>1 DEF Folded
  <2>3. h[Z] = g[Z]
    BY <1>3, <2>2, FoldUnique
  <2> QED BY <2>1, <2>3, SumIsFold
<1>5. g = [Z \in SUBSET D |-> SumFunctionOnSet(f, Z)]
  BY <1>3, <1>4 DEF Folded
<1> QED BY <1>3, <1>5

LEMMA SumEmpty == ASSUME NEW f PROVE SumFunctionOnSet(f, {}) = 0
<1>1. Folded(f, SUBSET {}, [Z \in SUBSET {} |-> SumFunctionOnSet(f, Z)])
  BY SumIsFolded, FS_EmptySet
<1> QED BY <1>1 DEF Folded

LEMMA SumPick ==
  ASSUME NEW Z, IsFiniteSet(Z), Z # {}, NEW f
  PROVE  SumFunctionOnSet(f, Z) = f[Pick(Z)] + SumFunctionOnSet(f, Z \ {Pick(Z)})
<1>1. Folded(f, SUBSET Z, [T \in SUBSET Z |-> SumFunctionOnSet(f, T)])
  BY SumIsFolded
<1>2. [T \in SUBSET Z |-> SumFunctionOnSet(f, T)][Z] =
        f[Pick(Z)] + [T \in SUBSET Z |-> SumFunctionOnSet(f, T)][Z \ {Pick(Z)}]
  BY <1>1 DEF Folded
<1> QED BY <1>2

\* A sum of integers is an integer.
LEMMA SumInt ==
  ASSUME NEW Z, IsFiniteSet(Z), NEW f, \A x \in Z : f[x] \in Int
  PROVE  SumFunctionOnSet(f, Z) \in Int
<1> DEFINE Bad == {T \in SUBSET Z : SumFunctionOnSet(f, T) \notin Int}
<1> SUFFICES ASSUME Bad # {} PROVE FALSE
  OBVIOUS
<1>1. PICK T \in Bad : \A U \in Bad : Cardinality(T) <= Cardinality(U)
  BY SmallestSet
<1>2. T # {}
  BY <1>1, SumEmpty
<1>3. T \ {Pick(T)} \in SUBSET Z /\ ~ (Cardinality(T) <= Cardinality(T \ {Pick(T)})) /\ IsFiniteSet(T)
  <2>1. T \in SUBSET Z
    BY <1>1
  <2> HIDE DEF Bad
  <2>2. /\ T \ {Pick(T)} \in SUBSET Z /\ IsFiniteSet(T) /\ Cardinality(T) \in Nat
        /\ Cardinality(T \ {Pick(T)}) = Cardinality(T) - 1
    BY <1>2, <2>1, RestSmaller
  <2>3. \A n \in Nat : ~(n <= n - 1)
    OBVIOUS
  <2> QED BY <2>2, <2>3
<1>4. SumFunctionOnSet(f, T \ {Pick(T)}) \in Int
  BY <1>1, <1>3
<1>5. SumFunctionOnSet(f, T) = f[Pick(T)] + SumFunctionOnSet(f, T \ {Pick(T)})
  BY <1>2, <1>3, SumPick
<1>6. f[Pick(T)] \in Int
  BY <1>2, PickIn
<1> QED BY <1>1, <1>4, <1>5, <1>6

\* The order does not matter.
LEMMA SumRemove ==
  ASSUME NEW Z, IsFiniteSet(Z), NEW f, \A x \in Z : f[x] \in Int, NEW x \in Z
  PROVE  SumFunctionOnSet(f, Z) = f[x] + SumFunctionOnSet(f, Z \ {x})
<1> DEFINE Sum(T) == SumFunctionOnSet(f, T)
           Bad == {T \in SUBSET Z : \E y \in T : Sum(T) # f[y] + Sum(T \ {y})}
<1> SUFFICES ASSUME Bad # {} PROVE FALSE
  OBVIOUS
<1>1. PICK T \in Bad : \A U \in Bad : Cardinality(T) <= Cardinality(U)
  BY SmallestSet
<1>2. PICK y \in T : Sum(T) # f[y] + Sum(T \ {y})
  BY <1>1
<1> DEFINE z == Pick(T)
<1>3. T # {} /\ IsFiniteSet(T) /\ z \in T
  BY <1>2, FS_Subset, PickIn
<1>4. Sum(T) = f[z] + Sum(T \ {z})
  BY <1>3, SumPick
<1>5. y # z
  BY <1>2, <1>4
<1>6. \A u \in T : T \ {u} \notin Bad
  <2> SUFFICES ASSUME NEW u \in T PROVE ~ (Cardinality(T) <= Cardinality(T \ {u}))
    BY <1>1
  <2>1. Cardinality(T \ {u}) = Cardinality(T) - 1 /\ Cardinality(T) \in Nat
    BY <1>3, FS_RemoveElement, FS_CardinalityType
  <2> QED BY <2>1
<1> HIDE DEF z
<1>7. Sum(T \ {z}) = f[y] + Sum((T \ {z}) \ {y})
  <2>1. T \ {z} \notin Bad /\ y \in T \ {z}
    BY <1>3, <1>5, <1>6
  <2> QED BY <2>1
<1>8. Sum(T \ {y}) = f[z] + Sum((T \ {y}) \ {z})
  <2>1. T \ {y} \notin Bad /\ z \in T \ {y}
    BY <1>3, <1>5, <1>6
  <2> QED BY <2>1
<1>9. (T \ {y}) \ {z} = (T \ {z}) \ {y}
  OBVIOUS
<1>10. Sum((T \ {z}) \ {y}) \in Int
  <2>1. (T \ {z}) \ {y} \subseteq Z
    OBVIOUS
  <2> QED BY <2>1, SumInt, FS_Subset
<1>11. f[y] \in Int /\ f[z] \in Int
  BY <1>3
<1>12. Sum((T \ {y}) \ {z}) = Sum((T \ {z}) \ {y})
  BY <1>9
<1> HIDE DEF Sum
<1> QED BY <1>2, <1>4, <1>7, <1>8, <1>10, <1>11, <1>12

\* An element put into the set adds its summand.
LEMMA SumAdd ==
  ASSUME NEW Z, IsFiniteSet(Z), NEW f, NEW x, x \notin Z, \A y \in Z \cup {x} : f[y] \in Int
  PROVE  SumFunctionOnSet(f, Z \cup {x}) = SumFunctionOnSet(f, Z) + f[x]
<1>1. IsFiniteSet(Z \cup {x}) /\ (Z \cup {x}) \ {x} = Z
  BY FS_AddElement
<1>2. SumFunctionOnSet(f, Z \cup {x}) = f[x] + SumFunctionOnSet(f, (Z \cup {x}) \ {x})
  BY <1>1, SumRemove
<1>3. SumFunctionOnSet(f, Z) \in Int /\ f[x] \in Int
  BY SumInt
<1>4. SumFunctionOnSet(f, (Z \cup {x}) \ {x}) = SumFunctionOnSet(f, Z)
  BY <1>1
<1> QED BY <1>2, <1>3, <1>4

\* Only the values on the set matter.
LEMMA SumSame ==
  ASSUME NEW Z, IsFiniteSet(Z), NEW f, NEW g, \A x \in Z : f[x] = g[x]
  PROVE  SumFunctionOnSet(f, Z) = SumFunctionOnSet(g, Z)
<1> DEFINE Bad == {T \in SUBSET Z : SumFunctionOnSet(f, T) # SumFunctionOnSet(g, T)}
<1> SUFFICES ASSUME Bad # {} PROVE FALSE
  OBVIOUS
<1>1. PICK T \in Bad : \A U \in Bad : Cardinality(T) <= Cardinality(U)
  BY SmallestSet
<1>2. T # {}
  BY <1>1, SumEmpty
<1>3. T \ {Pick(T)} \in SUBSET Z /\ ~ (Cardinality(T) <= Cardinality(T \ {Pick(T)})) /\ IsFiniteSet(T)
  <2>1. T \in SUBSET Z
    BY <1>1
  <2>2. /\ T \ {Pick(T)} \in SUBSET Z /\ IsFiniteSet(T) /\ Cardinality(T) \in Nat
        /\ Cardinality(T \ {Pick(T)}) = Cardinality(T) - 1
    BY <1>2, <2>1, RestSmaller
  <2> QED BY <2>2
<1>4. SumFunctionOnSet(f, T \ {Pick(T)}) = SumFunctionOnSet(g, T \ {Pick(T)})
  BY <1>1, <1>3
<1>5. /\ SumFunctionOnSet(f, T) = f[Pick(T)] + SumFunctionOnSet(f, T \ {Pick(T)})
      /\ SumFunctionOnSet(g, T) = g[Pick(T)] + SumFunctionOnSet(g, T \ {Pick(T)})
  BY <1>2, <1>3, SumPick
<1>6. f[Pick(T)] = g[Pick(T)]
  BY <1>2, PickIn
<1> QED BY <1>1, <1>4, <1>5, <1>6

-----------------------------------------------------------------------------
(* Awards: an award holds the row of its referral from AwardLock to Commit.  *)

Stages == Writing \cup {"none", "qualifying", "due", "committed", "done", "failed"}

Due == [referral: Referrals, milestone: Milestones]

FirstAward(r) == [referral |-> r, milestone |-> FirstTask]

\* An award that writes holds the row of its referral: what it has read of the flags still
\* stands, its milestone is not among them, and no other award writes for that referral.
Awarding ==
  /\ at \in [Calls -> Stages] /\ flags \in [Referrals -> SUBSET Milestones]
  /\ DOMAIN due = Awards /\ DOMAIN merged = Awards /\ qualified \subseteq Referrals
  /\ \A k \in Awards : at[k] # "none" => due[k] \in Due
  /\ \A k \in Awards : at[k] = "qualifying" => due[k].milestone = FirstTask
  /\ \A k \in Awards : at[k] \in Writing =>
       merged[k] = flags[due[k].referral] /\ due[k].milestone \notin merged[k]
  /\ \A k, j \in Awards : at[k] \in Writing /\ at[j] \in Writing /\ due[k].referral = due[j].referral => k = j
  /\ \A k \in paid : k \in Awards /\ at[k] = "done"

\* The property needs the rows that the awards hold.
AwardInv == Awarding /\ MilestonePaidOnce

LEMMA AwardInit == Init => AwardInv
BY TransfersAssumption DEF Init, AwardInv, Awarding, MilestonePaidOnce, Stages, Writing, Calls

\* The calls of tips and rain touch no award.
LEMMA GiveKeepsAwards ==
  ASSUME AwardInv, NEW k \in Gives, NEW w \in Stages, at' = [at EXCEPT ![k] = w],
         UNCHANGED <<flags, due, merged, qualified, paid>>, lost \subseteq lost'
  PROVE  AwardInv'
<1>1. \A j \in Awards : at'[j] = at[j]
  BY TransfersAssumption DEF AwardInv, Awarding, Calls
<1>2. Awarding'
  BY <1>1 DEF AwardInv, Awarding
<1>3. MilestonePaidOnce'
  BY <1>1 DEF AwardInv, MilestonePaidOnce
<1> QED BY <1>2, <1>3 DEF AwardInv

\* An award that writes goes on, starts over, or fails and is lost.
LEMMA AwardGoesOn ==
  ASSUME AwardInv, NEW k \in Awards, at[k] \in Writing \cup {"due"},
         NEW w \in {"running", "read", "due", "failed"}, at' = [at EXCEPT ![k] = w],
         w \in {"running", "read"} => at[k] \in Writing, w = "failed" => due[k] \in lost',
         UNCHANGED <<flags, due, merged, qualified, paid>>, lost \subseteq lost'
  PROVE  AwardInv'
<1>1. /\ at'[k] = w /\ \A j \in Awards \ {k} : at'[j] = at[j]
      /\ at' \in [Calls -> Stages] /\ k \notin paid
  BY DEF AwardInv, Awarding, Calls, Writing, Stages
<1>2. Awarding'
  BY <1>1 DEF AwardInv, Awarding, Writing
<1>3. MilestonePaidOnce'
  <2>1. /\ \A i, j \in paid : due[i] = due[j] => i = j
        /\ \A r \in Referrals : flags[r] = {due[i].milestone : i \in {j \in paid : due[j].referral = r}}
    BY DEF AwardInv, MilestonePaidOnce
  <2>2. ASSUME NEW r \in qualified
        PROVE  \/ FirstTask \in flags[r] \/ FirstAward(r) \in lost'
               \/ \E j \in Awards : at'[j] \in Writing \cup {"due"} /\ due[j] = FirstAward(r)
    <3>1. \/ FirstTask \in flags[r] \/ FirstAward(r) \in lost
          \/ \E j \in Awards : at[j] \in Writing \cup {"due"} /\ due[j] = FirstAward(r)
      BY DEF AwardInv, MilestonePaidOnce, FirstAward
    <3>2. ASSUME NEW j \in Awards, at[j] \in Writing \cup {"due"}, due[j] = FirstAward(r)
          PROVE  FirstAward(r) \in lost' \/ at'[j] \in Writing \cup {"due"}
      BY <1>1, <3>2 DEF Writing
    <3> QED BY <3>1, <3>2
  <2> QED BY <2>1, <2>2 DEF MilestonePaidOnce, FirstAward
<1> QED BY <1>2, <1>3 DEF AwardInv

LEMMA AwardBegins ==
  ASSUME AwardInv, NEW k \in Awards, at[k] = "none", NEW w \in {"due", "qualifying"}, NEW d \in Due,
         at' = [at EXCEPT ![k] = w], due' = [due EXCEPT ![k] = d],
         w = "qualifying" => d.milestone = FirstTask,
         UNCHANGED <<flags, merged, qualified, paid, lost>>
  PROVE  AwardInv'
<1>1. /\ at'[k] = w /\ due'[k] = d /\ \A j \in Awards \ {k} : at'[j] = at[j] /\ due'[j] = due[j]
      /\ at' \in [Calls -> Stages] /\ k \notin paid /\ DOMAIN due' = Awards
  BY DEF AwardInv, Awarding, Calls, Writing, Stages
<1>2. Awarding'
  BY <1>1 DEF AwardInv, Awarding, Writing
<1>3. MilestonePaidOnce'
  <2>1. \A j \in paid : j \in Awards /\ due'[j] = due[j]
    BY <1>1 DEF AwardInv, Awarding
  <2>2. \A i, j \in paid' : due'[i] = due'[j] => i = j
    BY <2>1 DEF AwardInv, MilestonePaidOnce
  <2>3. ASSUME NEW r \in Referrals
        PROVE  flags'[r] = {due'[i].milestone : i \in {j \in paid' : due'[j].referral = r}}
    BY <2>1 DEF AwardInv, MilestonePaidOnce
  <2>4. ASSUME NEW r \in qualified
        PROVE  \/ FirstTask \in flags'[r] \/ FirstAward(r) \in lost'
               \/ \E j \in Awards : at'[j] \in Writing \cup {"due"} /\ due'[j] = FirstAward(r)
    <3>1. \/ FirstTask \in flags[r] \/ FirstAward(r) \in lost
          \/ \E j \in Awards : at[j] \in Writing \cup {"due"} /\ due[j] = FirstAward(r)
      BY DEF AwardInv, MilestonePaidOnce, FirstAward
    <3>2. ASSUME NEW j \in Awards, at[j] \in Writing \cup {"due"}, due[j] = FirstAward(r)
          PROVE  at'[j] \in Writing \cup {"due"} /\ due'[j] = FirstAward(r)
      BY <1>1, <3>2 DEF Writing
    <3> QED BY <3>1, <3>2
  <2> QED BY <2>2, <2>3, <2>4 DEF MilestonePaidOnce, FirstAward
<1> QED BY <1>2, <1>3 DEF AwardInv

LEMMA QualifyWriteStep == ASSUME AwardInv, NEW k \in Awards, QualifyWrite(k) PROVE AwardInv'
<1> DEFINE w == IF FirstTask \in flags[due[k].referral] THEN "done" ELSE "due"
<1>1. /\ due[k] \in Due /\ due[k].milestone = FirstTask /\ at[k] = "qualifying" /\ k \notin paid
      /\ at'[k] = w /\ \A j \in Awards \ {k} : at'[j] = at[j]
      /\ at' \in [Calls -> Stages]
      /\ UNCHANGED <<flags, merged, due, paid, lost>>
      /\ qualified' = qualified \cup {due[k].referral}
  BY DEF AwardInv, Awarding, QualifyWrite, Calls, Stages, referral
<1>2. Awarding'
  BY <1>1 DEF AwardInv, Awarding, Writing, Due
<1>3. MilestonePaidOnce'
  <2>1. /\ \A i, j \in paid : due[i] = due[j] => i = j
        /\ \A r \in Referrals : flags[r] = {due[i].milestone : i \in {j \in paid : due[j].referral = r}}
    BY DEF AwardInv, MilestonePaidOnce
  <2>2. ASSUME NEW r \in qualified'
        PROVE  \/ FirstTask \in flags[r] \/ FirstAward(r) \in lost
               \/ \E j \in Awards : at'[j] \in Writing \cup {"due"} /\ due[j] = FirstAward(r)
    <3>1. CASE r = due[k].referral
      <4>1. due[k] = FirstAward(r)
        BY <1>1, <3>1 DEF Due, FirstAward
      <4> QED BY <1>1, <3>1, <4>1
    <3>2. CASE r \in qualified
      <4>1. \/ FirstTask \in flags[r] \/ FirstAward(r) \in lost
            \/ \E j \in Awards : at[j] \in Writing \cup {"due"} /\ due[j] = FirstAward(r)
        BY <3>2 DEF AwardInv, MilestonePaidOnce, FirstAward
      <4>2. ASSUME NEW j \in Awards, at[j] \in Writing \cup {"due"} PROVE at'[j] \in Writing \cup {"due"}
        BY <1>1, <4>2 DEF Writing
      <4> QED BY <4>1, <4>2
    <3> QED BY <1>1, <3>1, <3>2
  <2> QED BY <1>1, <2>1, <2>2 DEF MilestonePaidOnce, FirstAward
<1> QED BY <1>2, <1>3 DEF AwardInv

LEMMA AwardLockStep == ASSUME AwardInv, NEW k \in Awards, AwardLock(k) PROVE AwardInv'
<1> DEFINE w == IF Awarded(k) THEN "done" ELSE "running"
<1>1. /\ due[k] \in Due /\ at[k] = "due" /\ k \notin paid
      /\ at'[k] = w /\ \A j \in Awards \ {k} : at'[j] = at[j] /\ merged'[j] = merged[j]
      /\ merged'[k] = flags[due[k].referral]
      /\ at' \in [Calls -> Stages] /\ DOMAIN merged' = Awards
      /\ UNCHANGED <<flags, due, paid, lost, qualified>>
      /\ ~LockedRow(due[k].referral)
  BY DEF AwardInv, Awarding, AwardLock, Start, End, Calls, Stages, Writing
<1>2. Awarding'
  BY <1>1 DEF AwardInv, Awarding, Writing, Due, LockedRow, Awarded
<1>3. MilestonePaidOnce'
  <2>1. /\ \A i, j \in paid : due[i] = due[j] => i = j
        /\ \A r \in Referrals : flags[r] = {due[i].milestone : i \in {j \in paid : due[j].referral = r}}
    BY DEF AwardInv, MilestonePaidOnce
  <2>2. ASSUME NEW r \in qualified
        PROVE  \/ FirstTask \in flags[r] \/ FirstAward(r) \in lost
               \/ \E j \in Awards : at'[j] \in Writing \cup {"due"} /\ due[j] = FirstAward(r)
    <3>1. \/ FirstTask \in flags[r] \/ FirstAward(r) \in lost
          \/ \E j \in Awards : at[j] \in Writing \cup {"due"} /\ due[j] = FirstAward(r)
      BY DEF AwardInv, MilestonePaidOnce, FirstAward
    <3>2. ASSUME NEW j \in Awards, at[j] \in Writing \cup {"due"}, due[j] = FirstAward(r)
          PROVE  FirstTask \in flags[r] \/ at'[j] \in Writing \cup {"due"}
      BY <1>1, <3>2 DEF Writing, Awarded, FirstAward
    <3> QED BY <3>1, <3>2
  <2> QED BY <1>1, <2>1, <2>2 DEF MilestonePaidOnce, FirstAward
<1> QED BY <1>2, <1>3 DEF AwardInv

LEMMA AwardCommitStep == ASSUME AwardInv, NEW k \in Awards, Commit(k) PROVE AwardInv'
<1>1. PICK d \in Due : d = due[k]
  BY DEF AwardInv, Awarding, Commit
<1>2. /\ at[k] = "running" /\ k \notin paid /\ paid' = paid \cup {k}
      /\ at'[k] = "done" /\ \A j \in Awards \ {k} : at'[j] = at[j]
      /\ at' \in [Calls -> Stages]
      /\ UNCHANGED <<due, merged, lost, qualified>>
      /\ flags' = [flags EXCEPT ![d.referral] = flags[d.referral] \cup {d.milestone}]
      /\ d.milestone \notin flags[d.referral]
      /\ flags \in [Referrals -> SUBSET Milestones] /\ d.referral \in Referrals /\ d.milestone \in Milestones
  BY <1>1, TransfersAssumption DEF AwardInv, Awarding, Commit, End, Calls, Stages, Writing, Due
<1>3. /\ flags'[d.referral] = flags[d.referral] \cup {d.milestone}
      /\ \A r \in Referrals \ {d.referral} : flags'[r] = flags[r]
      /\ flags' \in [Referrals -> SUBSET Milestones]
  BY <1>2
<1>4. Awarding'
  <2>1. ASSUME NEW j \in Awards, at'[j] \in Writing
        PROVE  merged'[j] = flags'[due'[j].referral] /\ due'[j].milestone \notin merged'[j]
    <3>1. j # k /\ at[j] \in Writing
      BY <1>2, <2>1 DEF Writing
    <3>2. due[j] \in Due /\ due[j].referral # d.referral
      BY <1>1, <1>2, <3>1 DEF AwardInv, Awarding, Writing
    <3>3. due[j].referral \in Referrals
      BY <3>2 DEF Due
    <3> QED BY <1>2, <1>3, <3>1, <3>2, <3>3 DEF AwardInv, Awarding
  <2>2. \A j \in Awards : at'[j] # "none" => due'[j] \in Due
    BY <1>1, <1>2 DEF AwardInv, Awarding
  <2>3. \A j \in Awards : at'[j] = "qualifying" => due'[j].milestone = FirstTask
    BY <1>2 DEF AwardInv, Awarding
  <2>4. \A i, j \in Awards : at'[i] \in Writing /\ at'[j] \in Writing /\ due'[i].referral = due'[j].referral => i = j
    BY <1>2 DEF AwardInv, Awarding, Writing
  <2>5. \A j \in paid' : j \in Awards /\ at'[j] = "done"
    BY <1>2 DEF AwardInv, Awarding
  <2> QED BY <1>2, <1>3, <2>1, <2>2, <2>3, <2>4, <2>5 DEF AwardInv, Awarding
<1>5. MilestonePaidOnce'
  <2>1. \A r \in Referrals : flags[r] = {due[i].milestone : i \in {j \in paid : due[j].referral = r}}
    BY DEF AwardInv, MilestonePaidOnce
  <2>2. \A j \in paid : due[j] # d
    <3> SUFFICES ASSUME NEW j \in paid, due[j] = d PROVE FALSE
      OBVIOUS
    <3> QED BY <1>2, <2>1
  <2>3. \A i, j \in paid' : due'[i] = due'[j] => i = j
    BY <1>1, <1>2, <2>2 DEF AwardInv, MilestonePaidOnce
  <2>4. ASSUME NEW r \in Referrals
        PROVE  flags'[r] = {due'[i].milestone : i \in {j \in paid' : due'[j].referral = r}}
    <3>1. CASE r = d.referral
      <4>1. {j \in paid' : due'[j].referral = r} = {j \in paid : due[j].referral = r} \cup {k}
        BY <1>1, <1>2, <3>1
      <4> QED BY <1>1, <1>2, <1>3, <2>1, <3>1, <4>1
    <3>2. CASE r # d.referral
      <4>1. {j \in paid' : due'[j].referral = r} = {j \in paid : due[j].referral = r}
        BY <1>1, <1>2, <3>2
      <4> QED BY <1>2, <1>3, <2>1, <3>2, <4>1
    <3> QED BY <3>1, <3>2
  <2>5. ASSUME NEW r \in qualified
        PROVE  \/ FirstTask \in flags'[r] \/ FirstAward(r) \in lost
               \/ \E j \in Awards : at'[j] \in Writing \cup {"due"} /\ due[j] = FirstAward(r)
    <3>0. r \in Referrals
      BY DEF AwardInv, Awarding
    <3>1. \/ FirstTask \in flags[r] \/ FirstAward(r) \in lost
          \/ \E j \in Awards : at[j] \in Writing \cup {"due"} /\ due[j] = FirstAward(r)
      BY DEF AwardInv, MilestonePaidOnce, FirstAward
    <3>2. ASSUME NEW j \in Awards, at[j] \in Writing \cup {"due"}, due[j] = FirstAward(r)
          PROVE  FirstTask \in flags'[r] \/ at'[j] \in Writing \cup {"due"}
      BY <1>1, <1>2, <1>3, <3>2 DEF FirstAward
    <3>3. FirstTask \in flags[r] => FirstTask \in flags'[r]
      BY <1>3, <3>0
    <3> QED BY <3>1, <3>2, <3>3
  <2> QED BY <1>2, <2>3, <2>4, <2>5 DEF MilestonePaidOnce, FirstAward
<1> QED BY <1>4, <1>5 DEF AwardInv

LEMMA AwardStep == AwardInv /\ [Next]_vars => AwardInv'
<1> SUFFICES ASSUME AwardInv, [Next]_vars PROVE AwardInv'
  OBVIOUS
<1> USE DEF referral, End, GiveUp
<1>1. ASSUME NEW k \in Gives, Step(k) \/ Fails(k) PROVE AwardInv'
  <2>1. PICK w \in Stages : at' = [at EXCEPT ![k] = w]
    BY <1>1, TransfersAssumption DEF Step, Fails, LegRead, LegWrite, LegConflict, LegContended, LegInsufficient,
             Commit, DeadlockVictim, Stages, Writing
  <2>2. UNCHANGED <<flags, due, merged, qualified, paid>> /\ lost \subseteq lost'
    BY <1>1, TransfersAssumption DEF Step, Fails, LegRead, LegWrite, LegConflict, LegContended, LegInsufficient,
             Commit, DeadlockVictim
  <2> QED BY <2>1, <2>2, GiveKeepsAwards
<1>2. ASSUME NEW k \in Awards, LegRead(k) \/ LegWrite(k) \/ LegConflict(k) PROVE AwardInv'
  <2>1. PICK w \in {"running", "read"} : at' = [at EXCEPT ![k] = w]
    BY <1>2 DEF LegRead, LegWrite, LegConflict
  <2>2. at[k] \in Writing /\ UNCHANGED <<flags, due, merged, qualified, paid, lost>>
    BY <1>2 DEF LegRead, LegWrite, LegConflict, Writing
  <2> QED BY <2>1, <2>2, AwardGoesOn
<1>3. ASSUME NEW k \in Awards, LegContended(k) \/ LegInsufficient(k) \/ DeadlockVictim(k) \/ Fails(k) PROVE AwardInv'
  <2>1. at[k] \in Writing \cup {"due"}
    <3>1. CASE DeadlockVictim(k)
      BY <3>1 DEF DeadlockVictim, Cycles, Waits, Writing
    <3> QED BY <1>3, <3>1 DEF LegContended, LegInsufficient, Fails, Writing
  <2>2. PICK w \in {"due", "failed"} : at' = [at EXCEPT ![k] = w] /\ (w = "failed" => due[k] \in lost')
    BY <1>3 DEF LegContended, LegInsufficient, DeadlockVictim, Fails
  <2>3. UNCHANGED <<flags, due, merged, qualified, paid>> /\ lost \subseteq lost'
    BY <1>3 DEF LegContended, LegInsufficient, DeadlockVictim, Fails
  <2> QED BY <2>1, <2>2, <2>3, AwardGoesOn
<1>4. ASSUME NEW u \in Spenders, Spend(u) PROVE AwardInv'
  BY <1>4 DEF Spend, work, AwardInv, Awarding, MilestonePaidOnce
<1>5. ASSUME NEW k \in Gives, NEW u \in Users, NEW rs \in Circles, NEW total \in Totals, GiveCheck(k, u, rs, total)
      PROVE  AwardInv'
  BY <1>5, GiveKeepsAwards DEF GiveCheck, Start, Stages, Writing
<1>6. ASSUME NEW k \in Gives, GiveRecord(k) PROVE AwardInv'
  BY <1>6, GiveKeepsAwards DEF GiveRecord, Stages
<1>7. ASSUME NEW k \in Gives, WindowSlides(k) PROVE AwardInv'
  BY <1>7 DEF WindowSlides, work, AwardInv, Awarding, MilestonePaidOnce
<1>8. ASSUME NEW k \in Awards, NEW r \in Referrals, NEW m \in Milestones, AwardRead(k, r, m) PROVE AwardInv'
  <2>1. [referral |-> r, milestone |-> m] \in Due
    BY DEF Due
  <2> QED BY <1>8, <2>1, AwardBegins DEF AwardRead
<1>9. ASSUME NEW k \in Awards, NEW r \in Referrals, QualifyRead(k, r) PROVE AwardInv'
  <2>1. [referral |-> r, milestone |-> FirstTask] \in Due
    BY TransfersAssumption DEF Due
  <2> QED BY <1>9, <2>1, AwardBegins DEF QualifyRead
<1>10. CASE UNCHANGED vars
  BY <1>10 DEF vars, work, AwardInv, Awarding, MilestonePaidOnce
<1> QED
  BY <1>1, <1>2, <1>3, <1>4, <1>5, <1>6, <1>7, <1>8, <1>9, <1>10, QualifyWriteStep, AwardLockStep, AwardCommitStep
  DEF Next, Step, Calls

\* A milestone of a referral is paid once and flagged exactly if it was (awardMilestone): the
\* transaction that holds the referral's row reads its flags before any other can write them.
THEOREM MilestoneCorrect == Spec => []MilestonePaidOnce
<1>1. AwardInv => MilestonePaidOnce
  BY DEF AwardInv
<1> QED BY <1>1, AwardInit, AwardStep, PTL DEF Spec

-----------------------------------------------------------------------------
(* Wallets: what a transaction has written is what its legs make of the rows. *)

LegType == [user: Users, amount: Int]

Legged(k) == {legs[k][j].user : j \in 1..next[k] - 1}

\* What the legs written so far make of a wallet.
SoFar(k, u) == SumFunctionOnSet([j \in DOMAIN legs[k] |-> legs[k][j].amount],
                                {j \in 1..next[k] - 1 : legs[k][j].user = u})

\* The types of a transaction's legs, drafts and reads.
Shape ==
  /\ wallet \in [Users -> RowType] /\ spent \in [Users -> Nat]
  /\ at \in [Calls -> Stages] /\ seen \in [Calls -> RowType]
  /\ DOMAIN legs = Calls /\ DOMAIN next = Calls /\ DOMAIN draft = Calls
  /\ \A k \in Calls : legs[k] \in Seq(LegType) /\ next[k] \in 1..Len(legs[k]) + 1

\* Of a call.  Its transaction has locked the rows of the legs it has written, each is what
\* the wallet was when it was locked and the legs on top, and nobody else changed that
\* wallet; a read that is still of the row's version is of the row.
Locks(k) ==
  /\ (at[k] \notin Writing => DOMAIN draft[k] = {}) /\ (at[k] \in Writing => DOMAIN draft[k] = Legged(k))
  /\ \A u \in DOMAIN draft[k] : draft[k][u] \in RowType
  /\ (at[k] = "read" => next[k] <= Len(legs[k]))

Drafts(k) ==
  \A u \in DOMAIN draft[k] :
    draft[k][u].version > wallet[u].version /\ draft[k][u].balance = wallet[u].balance + SoFar(k, u)

Reads(k) ==
  at[k] = "read" =>
    /\ seen[k].version <= Row(k, User(k)).version
    /\ (seen[k].version = Row(k, User(k)).version => seen[k] = Row(k, User(k)))

\* No two transactions have the same row.
Apart == \A k, j \in Calls : \A u \in Users : u \in DOMAIN draft[k] /\ u \in DOMAIN draft[j] => k = j

WorkInv == Shape /\ Apart /\ \A k \in Calls : Locks(k) /\ Drafts(k) /\ Reads(k)

LEMMA DraftUsers ==
  ASSUME Shape, NEW k \in Calls, Locks(k) PROVE DOMAIN draft[k] \subseteq Users
<1>1. legs[k] \in Seq(LegType) /\ next[k] \in 1..Len(legs[k]) + 1 /\ Len(legs[k]) \in Nat
  BY DEF Shape
<1>2. \A j \in 1..next[k] - 1 : legs[k][j].user \in Users
  <2> TAKE j \in 1..next[k] - 1
  <2>1. j \in 1..Len(legs[k])
    BY <1>1
  <2>2. legs[k][j] \in LegType
    BY <1>1, <2>1
  <2> QED BY <2>2 DEF LegType
<1>3. DOMAIN draft[k] = {} \/ DOMAIN draft[k] = {legs[k][j].user : j \in 1..next[k] - 1}
  BY DEF Locks, Legged
<1> QED BY <1>2, <1>3

LEMMA CallsFinite == IsFiniteSet(Calls)
BY TransfersAssumption, FS_Union DEF Calls

LEMMA LegsFinite ==
  ASSUME Shape, NEW k \in Calls
  PROVE  /\ DOMAIN legs[k] = 1..Len(legs[k]) /\ Len(legs[k]) \in Nat /\ IsFiniteSet(DOMAIN legs[k])
         /\ \A j \in DOMAIN legs[k] : legs[k][j].amount \in Int /\ legs[k][j].user \in Users
<1>1. legs[k] \in Seq(LegType)
  BY DEF Shape
<1>2. DOMAIN legs[k] = 1..Len(legs[k]) /\ Len(legs[k]) \in Nat
  BY <1>1
<1>3. \A j \in DOMAIN legs[k] : legs[k][j] \in LegType
  BY <1>1, <1>2
<1>4. IsFiniteSet(DOMAIN legs[k])
  <2>1. \A n \in Nat : IsFiniteSet(1..n)
    BY FS_Interval
  <2> QED BY <1>2, <2>1
<1>5. \A j \in DOMAIN legs[k] : legs[k][j].amount \in Int /\ legs[k][j].user \in Users
  BY <1>3 DEF LegType
<1> QED BY <1>2, <1>4, <1>5

LEMMA EffectInt ==
  ASSUME Shape, NEW k \in Calls, NEW u PROVE Effect(k, u) \in Int
<1> DEFINE f == [j \in DOMAIN legs[k] |-> legs[k][j].amount]
           T == {j \in DOMAIN legs[k] : legs[k][j].user = u}
<1>1. IsFiniteSet(T) /\ \A x \in T : f[x] \in Int
  BY LegsFinite, FS_Subset
<1> HIDE DEF f, T
<1>2. SumFunctionOnSet(f, T) \in Int
  BY <1>1, SumInt
<1> QED BY <1>2 DEF Effect, f, T

\* A settled call keeps its legs and with them what it makes of a wallet.
LEMMA SettledKept ==
  ASSUME WholeOrNothing, Settled' = Settled, UNCHANGED <<wallet, spent>>,
         paid \subseteq Awards, \A k \in Settled : legs'[k] = legs[k]
  PROVE  WholeOrNothing'
<1> SUFFICES ASSUME NEW u \in Users
             PROVE  wallet'[u].balance = Opening - spent'[u] + SumFunctionOnSet([k \in Calls |-> Effect(k, u)'], Settled)
  BY DEF WholeOrNothing
<1> DEFINE f == [k \in Calls |-> Effect(k, u)]
           g == [k \in Calls |-> Effect(k, u)']
<1>1. Settled \subseteq Calls /\ IsFiniteSet(Settled)
  BY CallsFinite, FS_Subset DEF Settled, Calls
<1>2. \A k \in Settled : f[k] = g[k]
  BY <1>1 DEF Effect
<1> HIDE DEF f, g
<1>3. SumFunctionOnSet(f, Settled) = SumFunctionOnSet(g, Settled)
  BY <1>1, <1>2, SumSame
<1>4. wallet[u].balance = Opening - spent[u] + SumFunctionOnSet(f, Settled)
  BY DEF WholeOrNothing, f
<1> QED BY <1>3, <1>4 DEF g

\* What a step of call k leaves alone.
Elsewhere(k) ==
  /\ UNCHANGED <<wallet, spent>>
  /\ DOMAIN at' = Calls /\ DOMAIN legs' = Calls /\ DOMAIN next' = Calls
  /\ DOMAIN draft' = Calls /\ DOMAIN seen' = Calls /\ seen' \in [Calls -> RowType] /\ at' \in [Calls -> Stages]
  /\ \A j \in Calls \ {k} : /\ at'[j] = at[j] /\ legs'[j] = legs[j] /\ next'[j] = next[j]
                            /\ draft'[j] = draft[j] /\ seen'[j] = seen[j]

LEMMA OneCall ==
  ASSUME WorkInv, NEW k \in Calls, Elsewhere(k), Locks(k)', Drafts(k)', Reads(k)',
         legs'[k] \in Seq(LegType), next'[k] \in 1..Len(legs'[k]) + 1,
         \A u \in DOMAIN draft'[k] : u \in DOMAIN draft[k] \/ \A j \in Calls \ {k} : u \notin DOMAIN draft[j]
  PROVE  WorkInv'
<1>1. Shape'
  BY DEF WorkInv, Shape, Elsewhere, Stages
<1>2. Apart'
  BY DEF WorkInv, Apart, Elsewhere
<1>3. ASSUME NEW j \in Calls PROVE Locks(j)' /\ Drafts(j)' /\ Reads(j)'
  <2>1. CASE j # k
    <3>1. /\ at'[j] = at[j] /\ legs'[j] = legs[j] /\ next'[j] = next[j]
          /\ draft'[j] = draft[j] /\ seen'[j] = seen[j] /\ wallet' = wallet
      BY <2>1 DEF Elsewhere
    <3>2. Locks(j) /\ Drafts(j) /\ Reads(j)
      BY DEF WorkInv
    <3>3. Locks(j)'
      BY <3>1, <3>2 DEF Locks, Legged
    <3>4. \A u : SoFar(j, u)' = SoFar(j, u)
      BY <3>1 DEF SoFar
    <3>5. Drafts(j)'
      BY <3>1, <3>2, <3>4 DEF Drafts
    <3>6. Reads(j)'
      BY <3>1, <3>2 DEF Reads, Row, User
    <3> QED BY <3>3, <3>5, <3>6
  <2> QED BY <2>1
<1> QED BY <1>1, <1>2, <1>3 DEF WorkInv

\* A call that begins a transaction, or drops it.
LEMMA Resets ==
  ASSUME WorkInv, NEW k \in Calls, NEW w \in Stages \ {"read"}, NEW plan \in Seq(LegType),
         at' = [at EXCEPT ![k] = w], next' = [next EXCEPT ![k] = 1],
         (legs' = legs /\ plan = legs[k]) \/ legs' = [legs EXCEPT ![k] = plan],
         draft' = [draft EXCEPT ![k] = <<>>],
         seen' = seen \/ seen' = [seen EXCEPT ![k] = Nothing], UNCHANGED <<wallet, spent>>
  PROVE  WorkInv'
<1>1. Elsewhere(k)
  <2>1. seen' \in [Calls -> RowType]
    <3>1. Nothing \in RowType /\ seen \in [Calls -> RowType]
      BY DEF WorkInv, Shape, Nothing, RowType
    <3> QED BY <3>1
  <2>2. at' \in [Calls -> Stages]
    BY DEF WorkInv, Shape
  <2> QED BY <2>1, <2>2 DEF WorkInv, Shape, Elsewhere
<1>2. /\ legs'[k] = plan /\ next'[k] = 1 /\ draft'[k] = <<>> /\ at'[k] = w
  BY DEF WorkInv, Shape
<1>3. DOMAIN draft'[k] = {}
  BY <1>2
<1>4. Locks(k)'
  <2>1. 1..next'[k] - 1 = {}
    BY <1>2
  <2> QED BY <1>2, <1>3, <2>1 DEF Locks, Legged
<1>5. Drafts(k)' /\ Reads(k)'
  BY <1>2, <1>3 DEF Drafts, Reads
<1> QED BY <1>1, <1>2, <1>3, <1>4, <1>5, OneCall

\* A call that is not in its transaction moves on.
LEMMA Moves ==
  ASSUME WorkInv, NEW k \in Calls, at[k] \notin Writing, NEW w \in Stages \ Writing,
         at' = [at EXCEPT ![k] = w], UNCHANGED <<legs, next, draft, seen, wallet, spent>>
  PROVE  WorkInv'
<1>1. Elsewhere(k)
  BY DEF WorkInv, Shape, Elsewhere
<1>2. at'[k] = w /\ at'[k] \notin Writing /\ at'[k] # "read" /\ DOMAIN draft[k] = {}
  BY DEF WorkInv, Shape, Locks, Writing
<1>3. Locks(k)' /\ Drafts(k)' /\ Reads(k)'
  BY <1>2 DEF Locks, Drafts, Reads
<1> QED BY <1>1, <1>2, <1>3, OneCall DEF WorkInv, Shape

LEMMA UserOfLeg ==
  ASSUME Shape, NEW k \in Calls, next[k] <= Len(legs[k])
  PROVE  /\ User(k) \in Users /\ Amount(k) \in Int /\ next[k] \in DOMAIN legs[k] /\ next[k] \in Nat
<1>1. legs[k] \in Seq(LegType) /\ next[k] \in 1..Len(legs[k]) + 1 /\ Len(legs[k]) \in Nat
  BY DEF Shape
<1>2. next[k] \in 1..Len(legs[k])
  BY <1>1
<1>3. legs[k][next[k]] \in LegType
  BY <1>1, <1>2
<1> QED BY <1>1, <1>2, <1>3 DEF LegType, User, Amount

LEMMA RowOfCall ==
  ASSUME WorkInv, NEW k \in Calls, NEW u \in Users PROVE Row(k, u) \in RowType
BY DEF WorkInv, Shape, Locks, Row

LEMMA LegReadStep == ASSUME WorkInv, NEW k \in Calls, LegRead(k) PROVE WorkInv'
<1>1. User(k) \in Users /\ Row(k, User(k)) \in RowType
  BY UserOfLeg, RowOfCall DEF LegRead, WorkInv
<1>2. Elsewhere(k)
  <2>1. seen' \in [Calls -> RowType]
    BY <1>1 DEF WorkInv, Shape, LegRead
  <2>2. at' \in [Calls -> Stages]
    BY DEF WorkInv, Shape, LegRead, Stages, Writing
  <2> QED BY <2>1, <2>2 DEF LegRead, WorkInv, Shape, Elsewhere, rows
<1>3. /\ at[k] = "running" /\ at'[k] = "read" /\ seen'[k] = Row(k, User(k))
      /\ UNCHANGED <<legs, next, draft, wallet>> /\ next[k] <= Len(legs[k])
  BY DEF LegRead, WorkInv, Shape, rows
<1>4. Locks(k) /\ Drafts(k)
  BY DEF WorkInv
<1>5. Locks(k)'
  BY <1>3, <1>4 DEF Locks, Legged, Writing
<1>6. Drafts(k)'
  BY <1>3, <1>4 DEF Drafts, SoFar
<1>7. Reads(k)'
  BY <1>1, <1>3 DEF Reads, Row, User, RowType
<1> QED BY <1>2, <1>3, <1>5, <1>6, <1>7, OneCall DEF WorkInv, Shape

LEMMA LegConflictStep == ASSUME WorkInv, NEW k \in Calls, LegConflict(k) PROVE WorkInv'
<1>2. Elsewhere(k)
  <2>1. seen' \in [Calls -> RowType]
    <3>1. Nothing \in RowType
      BY DEF Nothing, RowType
    <3> QED BY <3>1 DEF WorkInv, Shape, LegConflict
  <2>2. at' \in [Calls -> Stages]
    BY DEF WorkInv, Shape, LegConflict, Stages, Writing
  <2> QED BY <2>1, <2>2 DEF LegConflict, WorkInv, Shape, Elsewhere, rows
<1>3. /\ at[k] = "read" /\ at'[k] = "running" /\ UNCHANGED <<legs, next, draft, wallet>>
  BY DEF LegConflict, WorkInv, Shape, rows
<1>4. Locks(k) /\ Drafts(k)
  BY DEF WorkInv
<1>5. Locks(k)'
  BY <1>3, <1>4 DEF Locks, Legged, Writing
<1>6. Drafts(k)' /\ Reads(k)'
  BY <1>3, <1>4 DEF Drafts, SoFar, Reads
<1> QED BY <1>2, <1>3, <1>5, <1>6, OneCall DEF WorkInv, Shape

LEMMA LegWriteStep == ASSUME WorkInv, NEW k \in Calls, LegWrite(k) PROVE WorkInv'
<1>0. PICK v, n : v = User(k) /\ n = next[k]
  OBVIOUS
<1>1. at[k] = "read" /\ Locks(k) /\ Drafts(k) /\ Reads(k) /\ Shape /\ n <= Len(legs[k])
  BY <1>0 DEF LegWrite, WorkInv, Locks
<1>2. v \in Users /\ Amount(k) \in Int /\ n \in DOMAIN legs[k] /\ n \in Nat /\ Row(k, v) \in RowType
  BY <1>0, <1>1, UserOfLeg, RowOfCall
<1>3. seen[k] = Row(k, v) /\ seen[k] \in RowType
  BY <1>0, <1>1 DEF LegWrite, SameVersion, Reads, Shape
<1>4. /\ at'[k] = "running" /\ next'[k] = n + 1 /\ legs' = legs /\ wallet' = wallet
      /\ DOMAIN draft'[k] = DOMAIN draft[k] \cup {v}
      /\ draft'[k][v] = [balance |-> seen[k].balance + Amount(k), version |-> seen[k].version + 1]
      /\ \A u \in DOMAIN draft[k] \ {v} : draft'[k][u] = draft[k][u]
  BY <1>0, <1>1 DEF LegWrite, Shape, rows, Row
<1> DEFINE f == [j \in DOMAIN legs[k] |-> legs[k][j].amount]
           Mine(u, m) == {j \in 1..m - 1 : legs[k][j].user = u}
<1>5. /\ DOMAIN legs[k] = 1..Len(legs[k]) /\ Len(legs[k]) \in Nat
      /\ \A j \in DOMAIN legs[k] : legs[k][j].amount \in Int
  BY <1>1, LegsFinite
<1>6. \A u : Mine(u, n) \subseteq DOMAIN legs[k] /\ IsFiniteSet(Mine(u, n)) /\ n \notin Mine(u, n)
  BY <1>1, <1>2, <1>5, LegsFinite, FS_Subset
<1>7. Mine(v, n + 1) = Mine(v, n) \cup {n} /\ \A u : u # v => Mine(u, n + 1) = Mine(u, n)
  <2>1. n >= 1 /\ 1..(n + 1) - 1 = (1..n - 1) \cup {n}
    BY <1>2, <1>5
  <2> QED BY <1>0, <2>1 DEF User
<1>8. SoFar(k, v)' = SoFar(k, v) + Amount(k)
  <2>1. f[n] = Amount(k)
    BY <1>0, <1>2 DEF Amount
  <2>2. SumFunctionOnSet(f, Mine(v, n) \cup {n}) = SumFunctionOnSet(f, Mine(v, n)) + f[n]
    <3>1. \A y \in Mine(v, n) \cup {n} : f[y] \in Int
      BY <1>2, <1>5, <1>6
    <3> HIDE DEF f, Mine
    <3> QED BY <3>1, <1>6, SumAdd
  <2>3. SoFar(k, v)' = SumFunctionOnSet(f, Mine(v, n + 1))
    BY <1>0, <1>4 DEF SoFar
  <2> QED BY <2>1, <2>2, <2>3, <1>0, <1>7 DEF SoFar
<1>9. \A u : u # v => SoFar(k, u)' = SoFar(k, u)
  <2> TAKE u
  <2>1. SoFar(k, u)' = SumFunctionOnSet(f, Mine(u, n + 1))
    BY <1>0, <1>4 DEF SoFar
  <2> QED BY <1>0, <2>1, <1>7 DEF SoFar
<1>10. Row(k, v).balance = wallet[v].balance + SoFar(k, v) /\ Row(k, v).version >= wallet[v].version
  <2>1. CASE v \in DOMAIN draft[k]
    BY <2>1, <1>1, <1>2 DEF Row, Drafts, Shape, RowType
  <2>2. CASE v \notin DOMAIN draft[k]
    <3>1. Mine(v, n) = {}
      BY <2>2, <1>0, <1>1 DEF Locks, Legged, Writing
    <3>2. SumFunctionOnSet(f, Mine(v, n)) = 0
      BY <3>1, SumEmpty
    <3>3. SoFar(k, v) = 0
      BY <1>0, <3>2 DEF SoFar
    <3> QED BY <2>2, <3>3, <1>1, <1>2 DEF Row, Shape, RowType
  <2> QED BY <2>1, <2>2
<1>11. SoFar(k, v) \in Int /\ wallet[v] \in RowType
  <2>1. \A y \in Mine(v, n) : f[y] \in Int
    BY <1>5, <1>6
  <2> HIDE DEF f, Mine
  <2>2. SumFunctionOnSet(f, Mine(v, n)) \in Int
    BY <2>1, <1>6, SumInt
  <2> QED BY <1>0, <2>2, <1>1, <1>2 DEF SoFar, f, Mine, Shape
<1>12. draft'[k][v] \in RowType
  BY <1>0, <1>2, <1>3, <1>4 DEF LegWrite, Enough, RowType
<1>13. Locks(k)'
  <2>1. Legged(k)' = {legs[k][j].user : j \in 1..n}
    BY <1>0, <1>2, <1>4 DEF Legged
  <2>2. {legs[k][j].user : j \in 1..n} = Legged(k) \cup {v}
    BY <1>0, <1>2, <1>5 DEF Legged, User
  <2>3. DOMAIN draft'[k] = Legged(k)'
    BY <2>1, <2>2, <1>1, <1>4 DEF Locks, Writing
  <2>4. \A u \in DOMAIN draft'[k] : draft'[k][u] \in RowType
    BY <1>1, <1>4, <1>12 DEF Locks
  <2> QED BY <2>3, <2>4, <1>4 DEF Locks, Writing
<1>14. Drafts(k)'
  <2>1. draft'[k][v].version > wallet'[v].version /\ draft'[k][v].balance = wallet'[v].balance + SoFar(k, v)'
    BY <1>2, <1>3, <1>4, <1>8, <1>10, <1>11 DEF RowType
  <2>2. ASSUME NEW u \in DOMAIN draft[k] \ {v}
        PROVE  draft'[k][u].version > wallet'[u].version /\ draft'[k][u].balance = wallet'[u].balance + SoFar(k, u)'
    BY <2>2, <1>1, <1>4, <1>9 DEF Drafts
  <2> QED BY <2>1, <2>2, <1>4 DEF Drafts
<1>15. Reads(k)'
  BY <1>4 DEF Reads
<1>16. Elsewhere(k)
  <2>1. seen' \in [Calls -> RowType]
    <3>1. Nothing \in RowType
      BY DEF Nothing, RowType
    <3> QED BY <3>1, <1>1 DEF Shape, LegWrite
  <2>2. at' \in [Calls -> Stages]
    BY <1>1 DEF Shape, LegWrite, Stages, Writing
  <2> QED BY <2>1, <2>2, <1>1 DEF LegWrite, Shape, Elsewhere, rows
<1>17. \A j \in Calls \ {k} : v \notin DOMAIN draft[j]
  BY <1>0 DEF LegWrite, Holder, WorkInv, Locks
<1>18. next'[k] \in 1..Len(legs'[k]) + 1 /\ legs'[k] \in Seq(LegType)
  BY <1>1, <1>2, <1>4, <1>5 DEF Shape
<1> QED BY <1>4, <1>13, <1>14, <1>15, <1>16, <1>17, <1>18, OneCall

LEMMA CommitWork == ASSUME WorkInv, NEW k \in Calls, Commit(k) PROVE WorkInv'
<1>1. /\ Shape /\ Apart /\ at[k] = "running" /\ \A j \in Calls : Locks(j) /\ Drafts(j) /\ Reads(j)
      /\ \A j \in Calls : DOMAIN draft[j] \subseteq Users
  BY DraftUsers DEF WorkInv, Commit
<1>2. /\ at'[k] \in {"committed", "done"} /\ draft'[k] = <<>> /\ next'[k] = 1 /\ legs' = legs /\ spent' = spent
      /\ at' \in [Calls -> Stages] /\ DOMAIN next' = Calls /\ DOMAIN draft' = Calls
      /\ \A j \in Calls \ {k} : /\ at'[j] = at[j] /\ next'[j] = next[j] /\ draft'[j] = draft[j] /\ seen'[j] = seen[j]
  BY <1>1 DEF Commit, End, Shape, Stages, Writing
<1>3. /\ DOMAIN wallet' = Users
      /\ \A u \in Users : wallet'[u] = Row(k, u) /\ wallet'[u] \in RowType /\ wallet[u] \in RowType
      /\ \A u \in Users : u \notin DOMAIN draft[k] => wallet'[u] = wallet[u]
      /\ \A u \in DOMAIN draft[k] : wallet'[u].version > wallet[u].version
  BY <1>1, RowOfCall DEF Commit, Shape, Row, Drafts
<1>4. Shape'
  <2>1. seen' \in [Calls -> RowType]
    <3>1. Nothing \in RowType
      BY DEF Nothing, RowType
    <3> QED BY <3>1, <1>1 DEF Shape, Commit, End
  <2>2. wallet' \in [Users -> RowType]
    BY <1>3 DEF Commit
  <2>3. \A j \in Calls : legs'[j] \in Seq(LegType) /\ next'[j] \in 1..Len(legs'[j]) + 1
    BY <1>1, <1>2 DEF Shape
  <2> QED BY <2>1, <2>2, <2>3, <1>1, <1>2 DEF Shape
<1>5. DOMAIN draft'[k] = {}
  BY <1>2
<1>6. Apart'
  BY <1>1, <1>2, <1>5 DEF Apart
<1>7. ASSUME NEW j \in Calls PROVE Locks(j)' /\ Drafts(j)' /\ Reads(j)'
  <2>1. CASE j = k
    BY <2>1, <1>2, <1>5 DEF Locks, Drafts, Reads, Writing
  <2>2. CASE j # k
    <3>1. at'[j] = at[j] /\ next'[j] = next[j] /\ draft'[j] = draft[j] /\ seen'[j] = seen[j] /\ legs'[j] = legs[j]
      BY <2>2, <1>2
    <3>2. Locks(j)'
      BY <3>1, <1>1 DEF Locks, Legged
    <3>3. \A u : SoFar(j, u)' = SoFar(j, u)
      BY <3>1 DEF SoFar
    <3>4. \A u \in DOMAIN draft[j] : wallet'[u] = wallet[u]
      BY <2>2, <1>1, <1>3 DEF Apart
    <3>5. Drafts(j)'
      BY <3>1, <3>3, <3>4, <1>1 DEF Drafts
    <3>6. ASSUME at[j] = "read"
          PROVE  /\ seen[j].version <= Row(j, User(j))'.version
                 /\ (seen[j].version = Row(j, User(j))'.version => seen[j] = Row(j, User(j))')
      <4>1. PICK u \in Users : u = User(j)
        BY <3>6, <1>1, UserOfLeg DEF Locks
      <4>2. Row(j, User(j))' = Row(j, u)'
        BY <3>1, <4>1 DEF User
      <4>3. seen[j].version <= Row(j, u).version /\ (seen[j].version = Row(j, u).version => seen[j] = Row(j, u))
        BY <3>6, <4>1, <1>1 DEF Reads
      <4>4. seen[j] \in RowType
        BY <1>1 DEF Shape
      <4>5. CASE u \in DOMAIN draft[j]
        BY <4>5, <4>2, <4>3, <3>1 DEF Row
      <4>6. CASE u \notin DOMAIN draft[j]
        <5>1. Row(j, u)' = wallet'[u] /\ Row(j, u) = wallet[u]
          BY <4>6, <3>1 DEF Row
        <5>2. wallet'[u] = wallet[u] \/ wallet'[u].version > wallet[u].version
          BY <1>3
        <5> QED BY <5>1, <5>2, <4>2, <4>3, <4>4, <1>3 DEF RowType
      <4> QED BY <4>5, <4>6
    <3>7. Reads(j)'
      BY <3>1, <3>6 DEF Reads
    <3> QED BY <3>2, <3>5, <3>7
  <2> QED BY <2>1, <2>2
<1> QED BY <1>4, <1>6, <1>7 DEF WorkInv

\* A debit elsewhere waits for the row's lock.
LEMMA SpendWork == ASSUME WorkInv, NEW v \in Users, Spend(v) PROVE WorkInv'
<1>1. /\ Shape /\ \A j \in Calls : Locks(j) /\ Drafts(j) /\ Reads(j)
      /\ UNCHANGED <<at, legs, next, draft, seen>>
  BY DEF WorkInv, Spend, work
<1>2. /\ \A u \in Users \ {v} : wallet'[u] = wallet[u]
      /\ wallet'[v].version = wallet[v].version + 1 /\ wallet'[v].balance = 0
      /\ wallet' \in [Users -> RowType] /\ spent' \in [Users -> Nat] /\ wallet[v] \in RowType
  BY <1>1 DEF Spend, Shape, RowType
<1>3. \A j \in Calls : v \notin DOMAIN draft[j]
  BY <1>1 DEF Spend, Holder, Locks
<1>4. Shape' /\ Apart'
  BY <1>1, <1>2 DEF Shape, WorkInv, Apart
<1>5. ASSUME NEW j \in Calls PROVE Locks(j)' /\ Drafts(j)' /\ Reads(j)'
  <2>1. Locks(j)'
    BY <1>1 DEF Locks, Legged
  <2>2. \A u : SoFar(j, u)' = SoFar(j, u)
    BY <1>1 DEF SoFar
  <2>3. \A u \in DOMAIN draft[j] : wallet'[u] = wallet[u]
    BY <1>1, <1>2, <1>3, DraftUsers
  <2>4. Drafts(j)'
    BY <2>2, <2>3, <1>1 DEF Drafts
  <2>5. ASSUME at[j] = "read" PROVE Reads(j)'
    <3>1. PICK u \in Users : u = User(j)
      BY <2>5, <1>1, UserOfLeg DEF Locks
    <3>2. Row(j, User(j))' = Row(j, u)'
      BY <1>1, <3>1 DEF User
    <3>3. seen[j].version <= Row(j, u).version /\ (seen[j].version = Row(j, u).version => seen[j] = Row(j, u))
      BY <2>5, <3>1, <1>1 DEF Reads
    <3>4. seen[j] \in RowType /\ wallet[u] \in RowType
      BY <1>1 DEF Shape
    <3>5. Row(j, u)' = Row(j, u) \/ (Row(j, u) = wallet[u] /\ Row(j, u)'.version = wallet[u].version + 1)
      BY <1>1, <1>2 DEF Row
    <3> QED BY <3>2, <3>3, <3>4, <3>5, <1>1 DEF Reads, RowType
  <2>6. at[j] # "read" => Reads(j)'
    BY <1>1 DEF Reads
  <2> QED BY <2>1, <2>4, <2>5, <2>6
<1> QED BY <1>4, <1>5 DEF WorkInv

\* What a transaction commits is what all its legs make.
LEMMA CommitWhole ==
  ASSUME WorkInv, AwardInv, WholeOrNothing, NEW k \in Calls, Commit(k) PROVE WholeOrNothing'
<1>1. Shape /\ at[k] = "running" /\ Locks(k) /\ Drafts(k) /\ legs' = legs /\ spent' = spent
  BY DEF WorkInv, Commit
<1>2. /\ DOMAIN legs[k] = 1..Len(legs[k]) /\ Len(legs[k]) \in Nat /\ next[k] = Len(legs[k]) + 1
      /\ next[k] - 1 = Len(legs[k])
  BY <1>1, LegsFinite DEF Commit, Shape
<1>3. ASSUME NEW u \in Users PROVE Row(k, u).balance = wallet[u].balance + Effect(k, u)
  <2> DEFINE f == [j \in DOMAIN legs[k] |-> legs[k][j].amount]
             T == {j \in DOMAIN legs[k] : legs[k][j].user = u}
  <2>1. SoFar(k, u) = Effect(k, u)
    BY <1>2 DEF SoFar, Effect
  <2>2. CASE u \in DOMAIN draft[k]
    BY <2>1, <2>2, <1>1 DEF Row, Drafts
  <2>3. CASE u \notin DOMAIN draft[k]
    <3>1. T = {}
      BY <2>3, <1>1, <1>2 DEF Locks, Legged, Writing
    <3>2. SumFunctionOnSet(f, T) = 0
      BY <3>1, SumEmpty
    <3>3. Effect(k, u) = 0
      BY <3>2 DEF Effect
    <3> QED BY <2>3, <3>3, <1>1 DEF Row, Shape, RowType
  <2> QED BY <2>2, <2>3
<1>4. Settled' = Settled \cup {k} /\ k \notin Settled /\ Settled \subseteq Calls
  <2>1. paid \subseteq Awards /\ k \notin paid /\ at[k] = "running"
    BY <1>1 DEF AwardInv, Awarding
  <2>2. CASE k \in Gives
    BY <2>1, <2>2, <1>1, TransfersAssumption DEF Settled, Commit, End, Shape, Calls
  <2>3. CASE k \in Awards
    BY <2>1, <2>3, <1>1, TransfersAssumption DEF Settled, Commit, End, Shape, Calls
  <2> QED BY <2>2, <2>3 DEF Calls
<1>5. IsFiniteSet(Settled)
  BY <1>4, CallsFinite, FS_Subset
<1> SUFFICES ASSUME NEW u \in Users
             PROVE  wallet'[u].balance = Opening - spent'[u] + SumFunctionOnSet([j \in Calls |-> Effect(j, u)'], Settled')
  BY DEF WholeOrNothing
<1> DEFINE g == [j \in Calls |-> Effect(j, u)]
<1>6. [j \in Calls |-> Effect(j, u)'] = g
  BY <1>1 DEF Effect
<1>7. \A j \in Settled \cup {k} : g[j] \in Int
  BY <1>1, <1>4, EffectInt
<1> HIDE DEF g
<1>8. SumFunctionOnSet(g, Settled \cup {k}) = SumFunctionOnSet(g, Settled) + g[k]
  BY <1>4, <1>5, <1>7, SumAdd
<1>9. wallet[u].balance = Opening - spent[u] + SumFunctionOnSet(g, Settled)
  BY DEF WholeOrNothing, g
<1>10. wallet'[u].balance = wallet[u].balance + g[k]
  BY <1>3 DEF Commit, g
<1>11. SumFunctionOnSet(g, Settled) \in Int /\ g[k] \in Int /\ wallet[u].balance \in Nat /\ spent[u] \in Nat
  BY <1>1, <1>5, <1>7, SumInt DEF Shape, RowType
<1>12. SumFunctionOnSet([j \in Calls |-> Effect(j, u)'], Settled') = SumFunctionOnSet(g, Settled) + g[k]
  BY <1>4, <1>6, <1>8
<1>13. spent'[u] = spent[u] /\ Opening \in Nat
  BY <1>1, TransfersAssumption
<1> QED BY <1>9, <1>10, <1>11, <1>12, <1>13

LEMMA SpendWhole ==
  ASSUME WorkInv, WholeOrNothing, AwardInv, NEW v \in Users, Spend(v) PROVE WholeOrNothing'
<1>1. Shape /\ legs' = legs /\ at' = at /\ paid' = paid /\ paid \subseteq Awards
  BY DEF WorkInv, Spend, work, referral, AwardInv, Awarding
<1>2. Settled' = Settled /\ IsFiniteSet(Settled) /\ Settled \subseteq Calls
  BY <1>1, CallsFinite, FS_Subset DEF Settled, Calls
<1> SUFFICES ASSUME NEW u \in Users
             PROVE  wallet'[u].balance = Opening - spent'[u] + SumFunctionOnSet([j \in Calls |-> Effect(j, u)'], Settled')
  BY DEF WholeOrNothing
<1> DEFINE g == [j \in Calls |-> Effect(j, u)]
<1>3. [j \in Calls |-> Effect(j, u)'] = g
  BY <1>1 DEF Effect
<1>4. \A j \in Settled : g[j] \in Int
  BY <1>1, <1>2, EffectInt
<1> HIDE DEF g
<1>5. SumFunctionOnSet(g, Settled) \in Int
  BY <1>2, <1>4, SumInt
<1>6. wallet[u].balance = Opening - spent[u] + SumFunctionOnSet(g, Settled)
  BY DEF WholeOrNothing, g
<1>7. CASE u = v
  <2>1. /\ spent[v] = 0 /\ spent'[v] = wallet[v].balance /\ wallet'[v].balance = 0
        /\ wallet[v].balance \in Nat
    BY <1>1 DEF Spend, Shape, RowType
  <2>2. PICK z \in Int : z = SumFunctionOnSet(g, Settled)
    BY <1>5
  <2>3. wallet[v].balance = Opening + z /\ Opening \in Nat
    BY <1>6, <1>7, <2>1, <2>2, TransfersAssumption
  <2>4. wallet'[u].balance = Opening - spent'[u] + z
    BY <1>7, <2>1, <2>3
  <2> QED BY <1>2, <1>3, <2>2, <2>4
<1>8. CASE u # v
  BY <1>1, <1>2, <1>3, <1>6, <1>8 DEF Spend, Shape
<1> QED BY <1>7, <1>8

LEMMA SharesOfShower ==
  ASSUME NEW u \in Users, NEW rs \in Circles, NEW total \in Totals
  PROVE  Shower(u, rs, total) \in Seq(LegType)
<1>1. rs \in Seq(Users) /\ Len(rs) \in Nat \ {0} /\ total \in Nat
  BY TransfersAssumption
<1>2. \A j \in 1..Len(rs) : rs[j] \in Users
  BY <1>1
<1>3. \A j : Share(total, rs, j) \in Int
  BY <1>1 DEF Share
<1>4. \A j \in 1..2 * Len(rs) : j % 2 = 0 => j \div 2 \in 1..Len(rs)
  BY <1>1
<1>5. \A j \in 1..2 * Len(rs) : j % 2 # 1 => j \div 2 \in 1..Len(rs)
  BY <1>1, <1>4
<1>6. Shower(u, rs, total) \in [1..2 * Len(rs) -> LegType]
  BY <1>1, <1>2, <1>3, <1>5 DEF Shower, Leg, LegType
<1>7. 2 * Len(rs) \in Nat
  BY <1>1
<1> QED BY <1>6, <1>7, SeqDef

LEMMA LegsOfBonuses ==
  ASSUME NEW r \in Referrals, NEW m \in Milestones PROVE Bonuses(r, m) \in Seq(LegType)
<1>1. ASSUME NEW u \in Users, NEW n \in Nat PROVE Bonus(u, n) \in Seq(LegType)
  <2>1. Leg(u, n) \in LegType
    BY DEF Leg, LegType
  <2>2. <<Leg(u, n)>> \in Seq(LegType) /\ <<>> \in Seq(LegType)
    BY <2>1
  <2> QED BY <2>2 DEF Bonus
<1> QED BY <1>1, TransfersAssumption DEF Bonuses

\* The books, and why a commit keeps them.
WholeInv == WorkInv /\ WholeOrNothing

LEMMA ResetsWhole ==
  ASSUME WholeInv, AwardInv, NEW k \in Calls, at[k] \in {"none", "due", "running", "read"},
         NEW w \in {"running", "due", "failed", "done"}, w = "done" => k \in Awards, NEW plan \in Seq(LegType),
         at' = [at EXCEPT ![k] = w], next' = [next EXCEPT ![k] = 1],
         (legs' = legs /\ plan = legs[k]) \/ legs' = [legs EXCEPT ![k] = plan],
         draft' = [draft EXCEPT ![k] = <<>>],
         seen' = seen \/ seen' = [seen EXCEPT ![k] = Nothing], UNCHANGED <<wallet, spent, paid>>
  PROVE  WholeInv'
<1>1. Shape /\ w \in Stages \ {"read"}
  BY DEF WholeInv, WorkInv, Stages, Writing
<1>2. WorkInv'
  BY <1>1, Resets DEF WholeInv
<1>3. paid \subseteq Awards /\ k \notin Settled
  BY TransfersAssumption DEF AwardInv, Awarding, Settled
<1>4. \A j \in Settled : legs'[j] = legs[j]
  <2>1. DOMAIN legs = Calls /\ Settled \subseteq Calls
    BY <1>1, <1>3 DEF Shape, Settled, Calls
  <2> QED BY <2>1, <1>3
<1>5. Settled' = Settled
  <2>1. \A j \in Calls \ {k} : at'[j] = at[j]
    BY <1>1 DEF Shape
  <2>2. k \in Gives => at'[k] \notin {"committed", "done"} /\ at[k] \notin {"committed", "done"}
    BY <1>1, TransfersAssumption DEF Shape
  <2> QED BY <2>1, <2>2 DEF Settled, Calls
<1>6. WholeOrNothing'
  BY <1>3, <1>4, <1>5, SettledKept DEF WholeInv
<1> QED BY <1>2, <1>6 DEF WholeInv

LEMMA MovesWhole ==
  ASSUME WholeInv, AwardInv, NEW k \in Calls, at[k] \notin Writing, NEW w \in {"due", "qualifying", "done"},
         at[k] = "committed" \/ k \in Awards, at[k] = "committed" => w = "done",
         at' = [at EXCEPT ![k] = w], UNCHANGED <<legs, next, draft, seen, wallet, spent, paid>>
  PROVE  WholeInv'
<1>1. Shape /\ w \in Stages \ Writing
  BY DEF WholeInv, WorkInv, Stages, Writing
<1>2. WorkInv'
  BY <1>1, Moves DEF WholeInv
<1>3. paid \subseteq Awards
  BY DEF AwardInv, Awarding
<1>4. Settled' = Settled
  <2>1. at'[k] = w /\ \A j \in Calls \ {k} : at'[j] = at[j]
    BY <1>1 DEF Shape
  <2>2. k \in Gives => at'[k] = "done" /\ at[k] = "committed"
    BY <2>1, TransfersAssumption
  <2> QED BY <2>1, <2>2 DEF Settled, Calls
<1>5. WholeOrNothing'
  BY <1>3, <1>4, SettledKept DEF WholeInv
<1> QED BY <1>2, <1>5 DEF WholeInv

LEMMA OtherLegSteps ==
  ASSUME WholeInv, AwardInv, NEW k \in Calls, LegRead(k) \/ LegConflict(k) \/ LegWrite(k) PROVE WholeInv'
<1>1. WorkInv'
  BY LegReadStep, LegConflictStep, LegWriteStep DEF WholeInv
<1>2. /\ legs' = legs /\ wallet' = wallet /\ spent' = spent /\ paid' = paid
      /\ at[k] \in {"running", "read"} /\ at'[k] \in {"running", "read"}
      /\ \A j \in Calls \ {k} : at'[j] = at[j]
  BY DEF LegRead, LegConflict, LegWrite, rows, referral, WholeInv, WorkInv, Shape
<1>3. paid \subseteq Awards
  BY DEF AwardInv, Awarding
<1>4. Settled' = Settled
  BY <1>2 DEF Settled, Calls
<1>5. WholeOrNothing'
  BY <1>2, <1>3, <1>4, SettledKept DEF WholeInv
<1> QED BY <1>1, <1>5 DEF WholeInv

LEMMA Dropped == <<>> \in Seq(LegType)
OBVIOUS

LEMMA Stutters ==
  ASSUME WholeInv, AwardInv, UNCHANGED <<wallet, spent, at, legs, next, draft, seen, paid>> PROVE WholeInv'
<1>1. Shape' /\ Apart'
  BY DEF WholeInv, WorkInv, Shape, Apart
<1>2. ASSUME NEW k \in Calls PROVE Locks(k)' /\ Drafts(k)' /\ Reads(k)'
  <2>1. Locks(k) /\ Drafts(k) /\ Reads(k)
    BY DEF WholeInv, WorkInv
  <2>2. Locks(k)' /\ Reads(k)'
    BY <2>1 DEF Locks, Legged, Reads, Row, User
  <2>3. \A u : SoFar(k, u)' = SoFar(k, u)
    BY DEF SoFar
  <2> QED BY <2>1, <2>2, <2>3 DEF Drafts
<1>3. paid \subseteq Awards /\ Settled' = Settled
  BY DEF AwardInv, Awarding, Settled
<1>4. WholeOrNothing'
  BY <1>3, SettledKept DEF WholeInv
<1> QED BY <1>1, <1>2, <1>4 DEF WholeInv, WorkInv

LEMMA WholeStep == WholeInv /\ AwardInv /\ [Next]_vars => WholeInv'
<1> SUFFICES ASSUME WholeInv, AwardInv, [Next]_vars PROVE WholeInv'
  OBVIOUS
<1>0. \A k \in Calls : legs[k] \in Seq(LegType)
  BY DEF WholeInv, WorkInv, Shape
<1>1. ASSUME NEW k \in Calls, LegContended(k) \/ LegInsufficient(k) \/ DeadlockVictim(k) \/ Fails(k)
      PROVE  WholeInv'
  <2>1. at[k] \in {"due", "running", "read"}
    <3>1. CASE DeadlockVictim(k)
      BY <3>1 DEF DeadlockVictim, Cycles, Waits
    <3> QED BY <1>1, <3>1 DEF LegContended, LegInsufficient, Fails
  <2>2. UNCHANGED <<wallet, spent, paid>>
    BY <1>1 DEF LegContended, LegInsufficient, DeadlockVictim, Fails, rows
  <2>3. PICK w \in {"due", "failed"}, plan \in {legs[k], <<>>} :
          at' = [at EXCEPT ![k] = w] /\ ((legs' = legs /\ plan = legs[k]) \/ legs' = [legs EXCEPT ![k] = plan])
    BY <1>1 DEF LegContended, LegInsufficient, DeadlockVictim, Fails, End, GiveUp
  <2>4. next' = [next EXCEPT ![k] = 1] /\ draft' = [draft EXCEPT ![k] = <<>>] /\ seen' = [seen EXCEPT ![k] = Nothing]
    BY <1>1 DEF LegContended, LegInsufficient, DeadlockVictim, Fails, End, GiveUp
  <2>5. plan \in Seq(LegType)
    BY <1>0, Dropped
  <2> QED BY <2>1, <2>2, <2>3, <2>4, <2>5, ResetsWhole
<1>2. ASSUME NEW k \in Calls, Commit(k) PROVE WholeInv'
  BY <1>2, CommitWork, CommitWhole DEF WholeInv
<1>3. ASSUME NEW u \in Spenders, Spend(u) PROVE WholeInv'
  BY <1>3, SpendWork, SpendWhole, TransfersAssumption DEF WholeInv
<1>4. ASSUME NEW k \in Gives, NEW u \in Users, NEW rs \in Circles, NEW total \in Totals, GiveCheck(k, u, rs, total)
      PROVE  WholeInv'
  <2>1. Shower(u, rs, total) \in Seq(LegType) /\ k \in Calls
    BY SharesOfShower DEF Calls
  <2> QED BY <1>4, <2>1, ResetsWhole DEF GiveCheck, Start, rows, referral
<1>5. ASSUME NEW k \in Gives, GiveRecord(k) PROVE WholeInv'
  BY <1>5, MovesWhole DEF GiveRecord, Calls, rows, referral, Writing
<1>6. ASSUME NEW k \in Gives, WindowSlides(k) PROVE WholeInv'
  BY <1>6, Stutters DEF WindowSlides, work, rows, referral
<1>7. ASSUME NEW k \in Awards, NEW r \in Referrals, NEW m \in Milestones, AwardRead(k, r, m) PROVE WholeInv'
  BY <1>7, MovesWhole DEF AwardRead, Calls, rows, referral, Writing
<1>8. ASSUME NEW k \in Awards, NEW r \in Referrals, QualifyRead(k, r) PROVE WholeInv'
  BY <1>8, MovesWhole DEF QualifyRead, Calls, rows, referral, Writing
<1>9. ASSUME NEW k \in Awards, QualifyWrite(k) PROVE WholeInv'
  <2>1. PICK w \in {"due", "done"} : at' = [at EXCEPT ![k] = w]
    BY <1>9 DEF QualifyWrite
  <2> QED BY <1>9, <2>1, MovesWhole DEF QualifyWrite, Calls, rows, Writing
<1>10. ASSUME NEW k \in Awards, AwardLock(k) PROVE WholeInv'
  <2>1. CASE Awarded(k)
    <3>1. legs[k] \in Seq(LegType) /\ k \in Calls
      BY <1>0 DEF Calls
    <3> QED BY <1>10, <2>1, <3>1, ResetsWhole DEF AwardLock, End, rows
  <2>2. CASE ~Awarded(k)
    <3>1. due[k] \in Due /\ k \in Calls
      BY <1>10 DEF AwardLock, AwardInv, Awarding, Calls
    <3>2. Bonuses(due[k].referral, due[k].milestone) \in Seq(LegType)
      BY <3>1, LegsOfBonuses DEF Due
    <3> QED BY <1>10, <2>2, <3>1, <3>2, ResetsWhole DEF AwardLock, Start, rows
  <2> QED BY <2>1, <2>2
<1>11. CASE UNCHANGED vars
  BY <1>11, Stutters DEF vars, work, rows, referral
<1> QED
  BY <1>1, <1>2, <1>3, <1>4, <1>5, <1>6, <1>7, <1>8, <1>9, <1>10, <1>11, OtherLegSteps DEF Next, Step, Calls

LEMMA WholeInit == Init => WholeInv
<1> SUFFICES ASSUME Init PROVE WholeInv
  OBVIOUS
<1>1. Shape
  <2>1. Nothing \in RowType /\ [balance |-> Opening, version |-> 0] \in RowType /\ <<>> \in Seq(LegType) /\ Len(<<>>) = 0
    BY TransfersAssumption DEF Nothing, RowType
  <2> QED BY <2>1 DEF Init, Shape, Stages, Writing
<1>2. \A k \in Calls : at[k] = "none" /\ DOMAIN draft[k] = {}
  BY DEF Init
<1>3. Apart /\ \A k \in Calls : Locks(k) /\ Drafts(k) /\ Reads(k)
  BY <1>2 DEF Apart, Locks, Drafts, Reads, Writing
<1>4. Settled = {}
  BY <1>2 DEF Init, Settled, Calls
<1>5. ASSUME NEW u \in Users PROVE wallet[u].balance = Opening - spent[u] + SumFunctionOnSet([k \in Calls |-> Effect(k, u)], Settled)
  <2>1. SumFunctionOnSet([k \in Calls |-> Effect(k, u)], Settled) = 0
    BY <1>4, SumEmpty
  <2> QED BY <2>1, TransfersAssumption DEF Init
<1> QED BY <1>1, <1>3, <1>5 DEF WholeInv, WorkInv, WholeOrNothing

\* Every wallet is the sum of the settled transactions (sendTip, handleRainCommand,
\* awardMilestone): by WorkInv a draft is the committed row with the legs written so far.
THEOREM TransfersCorrect == Spec => []WholeOrNothing
<1>1. WholeInv => WholeOrNothing
  BY DEF WholeInv
<1> QED BY <1>1, WholeInit, WholeStep, AwardInit, AwardStep, PTL DEF Spec

-----------------------------------------------------------------------------
(* Gifts: what a giver gives is counted, or the giver is hasty.              *)

\* The odd entries of f are n equal shares, the last one with the remainder.
Portions(f, n, q, r) ==
  /\ \A j \in 1..2 * n : f[j] \in Int
  /\ \A j \in 1..n : f[2 * j - 1] = q + (IF j = n THEN r ELSE 0)

\* The shares of a gift add up to its total, the remainder included.
LEMMA SharesAddUp ==
  ASSUME NEW n \in Nat \ {0}, NEW q \in Nat, NEW r \in Nat, NEW f, Portions(f, n, q, r)
  PROVE  SumFunctionOnSet(f, {j \in 1..2 * n : j % 2 = 1}) = n * q + r
<1> DEFINE Odd(m) == {j \in 1..2 * m : j % 2 = 1}
           Right(m) == SumFunctionOnSet(f, Odd(m)) = m * q + (IF m = n THEN r ELSE 0)
           Bad == {m \in Nat : m <= n /\ ~Right(m)}
<1>2. Bad = {}
  <2> SUFFICES ASSUME Bad # {} PROVE FALSE
    OBVIOUS
  <2>1. PICK m \in Bad : \A i \in Bad : m <= i
    BY Least
  <2>2. Right(0)
    <3>1. Odd(0) = {} /\ 0 # n
      OBVIOUS
    <3>2. SumFunctionOnSet(f, Odd(0)) = 0
      BY <3>1, SumEmpty
    <3> QED BY <3>1, <3>2
  <2>3. m \in Nat \ {0} /\ m <= n
    BY <2>1, <2>2
  <2>4. Right(m - 1)
    <3>1. m - 1 \in Nat /\ m - 1 <= n /\ ~(m <= m - 1)
      BY <2>3
    <3> HIDE DEF Right
    <3> QED BY <3>1, <2>1
  <2>5. SumFunctionOnSet(f, Odd(m - 1)) = (m - 1) * q
    BY <2>3, <2>4
  <2>6. Odd(m) = Odd(m - 1) \cup {2 * m - 1} /\ 2 * m - 1 \notin Odd(m - 1)
    BY <2>3
  <2>7. IsFiniteSet(Odd(m - 1)) /\ \A y \in Odd(m - 1) \cup {2 * m - 1} : f[y] \in Int
    <3>1. Odd(m - 1) \subseteq 1..2 * n /\ 2 * m - 1 \in 1..2 * n
      BY <2>3
    <3>2. IsFiniteSet(1..2 * n)
      <4>1. 2 * n \in Nat
        OBVIOUS
      <4> HIDE DEF Odd
      <4> QED BY <4>1, FS_Interval
    <3>3. \A y \in 1..2 * n : f[y] \in Int
      BY DEF Portions
    <3> HIDE DEF Odd
    <3> QED BY <3>1, <3>2, <3>3, FS_Subset
  <2>8. SumFunctionOnSet(f, Odd(m)) = SumFunctionOnSet(f, Odd(m - 1)) + f[2 * m - 1]
    <3>1. PICK Z, x : Z = Odd(m - 1) /\ x = 2 * m - 1
      OBVIOUS
    <3> HIDE DEF Odd, Right, Bad
    <3>2. IsFiniteSet(Z) /\ x \notin Z /\ \A y \in Z \cup {x} : f[y] \in Int
      BY <2>6, <2>7, <3>1
    <3>3. SumFunctionOnSet(f, Z \cup {x}) = SumFunctionOnSet(f, Z) + f[x]
      BY <3>2, SumAdd
    <3> QED BY <2>6, <3>1, <3>3
  <2>9. f[2 * m - 1] = q + (IF m = n THEN r ELSE 0)
    BY <2>3 DEF Portions
  <2>10. m * q = (m - 1) * q + q
    BY <2>3
  <2>11. Right(m)
    <3>1. (m - 1) * q \in Int
      BY <2>3
    <3> HIDE DEF Odd
    <3> QED BY <3>1, <2>5, <2>8, <2>9, <2>10
  <2> QED BY <2>1, <2>11
<1>3. Right(n)
  <2> HIDE DEF Right
  <2> QED BY <1>2
<1> QED BY <1>3

\* A gift takes its total.
LEMMA GivenIsTotal ==
  ASSUME NEW k, NEW u, NEW rs \in Circles, NEW total \in Totals, legs'[k] = Shower(u, rs, total)
  PROVE  Given(k)' = total
<1> DEFINE n == Len(rs)
           f == [j \in DOMAIN legs'[k] |-> -legs'[k][j].amount]
<1>1. n \in Nat \ {0} /\ total \in Nat
  BY TransfersAssumption
<1>2. DOMAIN legs'[k] = 1..2 * n
  BY DEF Shower
<1>3. \A j : Share(total, rs, j) \in Int
  BY <1>1 DEF Share
<1>4. \A j \in 1..2 * n : f[j] \in Int
  BY <1>1, <1>2, <1>3 DEF Shower, Leg
<1>5. ASSUME NEW j \in 1..n PROVE f[2 * j - 1] = total \div n + (IF j = n THEN total % n ELSE 0)
  <2>1. 2 * j - 1 \in 1..2 * n /\ (2 * j - 1) % 2 = 1 /\ ((2 * j - 1) + 1) \div 2 = j
    BY <1>1
  <2>2. f[2 * j - 1] = -(-Share(total, rs, j))
    BY <2>1, <1>1, <1>2 DEF Shower, Leg
  <2>3. Share(total, rs, j) \in Int /\ Share(total, rs, j) = total \div n + (IF j = n THEN total % n ELSE 0)
    BY <1>3 DEF Share
  <2> HIDE DEF f
  <2> QED BY <2>2, <2>3
<1>6. Given(k)' = SumFunctionOnSet(f, {j \in 1..2 * n : j % 2 = 1})
  BY <1>2 DEF Given
<1>7. total = n * (total \div n) + (total % n) /\ total % n \in Nat /\ total \div n \in Nat
  BY <1>1
<1> HIDE DEF f, n
<1>8. Portions(f, n, total \div n, total % n)
  BY <1>4, <1>5 DEF Portions
<1> QED BY <1>1, <1>6, <1>7, <1>8, SharesAddUp

\* Gifts of a user that are under way, and those whose gift is not counted yet.
Open(u) == {k \in Gives : from[k] = u /\ at[k] \in {"running", "read", "committed"}}

Unrecorded(u) == {k \in Gives : from[k] = u /\ at[k] = "committed"}

\* Of a user that is not hasty: one gift at a time is under way, all that was given is
\* counted but for the gift that is being recorded, and what is under way fits.
Kept(u) ==
  /\ \A k, j \in Open(u) : k = j
  /\ Of(u, recent) = Of(u, window) \cup Unrecorded(u)
  /\ \A k \in Open(u) : Credits(Of(u, window)) + Given(k) <= ceiling[u]
  /\ Credits(Of(u, recent)) <= ceiling[u]

GivingShape ==
  /\ DOMAIN at = Calls /\ DOMAIN legs = Calls /\ DOMAIN from = Gives /\ ceiling \in [Users -> Int]
  /\ window \subseteq recent /\ recent \subseteq Gives
  /\ \A k \in Gives : Given(k) \in Nat /\ at[k] # "due"
  /\ \A k \in recent : at[k] \in {"committed", "done"}
  /\ \A k \in Gives : at[k] = "committed" => k \in recent /\ k \notin window

Giving == GivingShape /\ \A u \in Users \ hasty : Kept(u)

LEMMA CreditsInt ==
  ASSUME GivingShape, NEW ks \in SUBSET Gives PROVE Credits(ks) \in Int
<1> DEFINE f == [k \in Gives |-> Given(k)]
<1>1. IsFiniteSet(ks) /\ \A k \in ks : f[k] \in Int
  BY TransfersAssumption, FS_Subset DEF GivingShape
<1> HIDE DEF f
<1>2. SumFunctionOnSet(f, ks) \in Int
  BY <1>1, SumInt
<1> QED BY <1>2 DEF Credits, f

LEMMA CreditsAdd ==
  ASSUME GivingShape, NEW ks \in SUBSET Gives, NEW k \in Gives \ ks
  PROVE  Credits(ks \cup {k}) = Credits(ks) + Given(k)
<1> DEFINE f == [j \in Gives |-> Given(j)]
<1>1. IsFiniteSet(ks) /\ \A j \in ks \cup {k} : f[j] \in Int
  BY TransfersAssumption, FS_Subset DEF GivingShape
<1>2. f[k] = Given(k)
  OBVIOUS
<1> HIDE DEF f
<1>3. SumFunctionOnSet(f, ks \cup {k}) = SumFunctionOnSet(f, ks) + f[k]
  BY <1>1, SumAdd
<1> QED BY <1>2, <1>3 DEF Credits, f

\* Gifts whose legs stay count the same.
LEMMA CreditsSame ==
  ASSUME NEW ks \in SUBSET Gives, \A k \in ks : Given(k)' = Given(k) PROVE Credits(ks)' = Credits(ks)
<1> DEFINE f == [k \in Gives |-> Given(k)]
           g == [k \in Gives |-> Given(k)']
<1>1. IsFiniteSet(ks) /\ \A k \in ks : f[k] = g[k]
  BY TransfersAssumption, FS_Subset
<1> HIDE DEF f, g
<1>2. SumFunctionOnSet(f, ks) = SumFunctionOnSet(g, ks)
  BY <1>1, SumSame
<1> QED BY <1>2 DEF Credits, f, g

LEMMA GivenSame == ASSUME NEW k, legs'[k] = legs[k] PROVE Given(k)' = Given(k)
BY DEF Given

LEMMA GivenNothing == ASSUME NEW k, legs'[k] = <<>> PROVE Given(k)' = 0
<1>1. {j \in DOMAIN legs'[k] : j % 2 = 1} = {}
  OBVIOUS
<1> QED BY <1>1, SumEmpty DEF Given

\* A user none of whose gifts is begun, committed, counted or forgotten.
LEMMA KeptSame ==
  ASSUME GivingShape, NEW u, Kept(u), Open(u)' \subseteq Open(u), Of(u, recent)' = Of(u, recent),
         Of(u, window)' = Of(u, window), Unrecorded(u)' = Unrecorded(u),
         \A k \in Of(u, recent) \cup Open(u)' : Given(k)' = Given(k), ceiling'[u] = ceiling[u]
  PROVE  Kept(u)'
<1>1. PICK R, W : R = Of(u, recent) /\ W = Of(u, window)
  OBVIOUS
<1>2. R \in SUBSET Gives /\ W \in SUBSET Gives /\ W \subseteq R
  BY <1>1 DEF GivingShape, Of
<1>3. Credits(R)' = Credits(R) /\ Credits(W)' = Credits(W)
  BY <1>1, <1>2, CreditsSame
<1>4. Credits(Of(u, recent))' = Credits(R) /\ Credits(Of(u, window))' = Credits(W)
  BY <1>1, <1>3 DEF Credits
<1> QED BY <1>1, <1>4 DEF Kept

\* A step of a call that neither begins, commits nor records a gift.
LEMMA GivingKept ==
  ASSUME Giving, NEW k \in Calls, DOMAIN at' = Calls, DOMAIN legs' = Calls,
         \A j \in Calls \ {k} : at'[j] = at[j] /\ legs'[j] = legs[j],
         k \in Gives => at[k] \in {"running", "read"} /\ at'[k] \in {"running", "read", "failed"},
         legs'[k] = legs[k] \/ legs'[k] = <<>> \/ k \in Awards,
         k \in Gives /\ legs'[k] = <<>> => at'[k] = "failed",
         UNCHANGED <<from, window, recent, ceiling, hasty>>
  PROVE  Giving'
<1>1. GivingShape /\ \A u \in Users \ hasty : Kept(u)
  BY DEF Giving
<1>2. \A j \in Gives : j = k \/ (at'[j] = at[j] /\ legs'[j] = legs[j])
  BY DEF Calls
<1>3. \A j \in Gives : Given(j)' = Given(j) \/ (j = k /\ legs'[k] = <<>> /\ Given(j)' = 0)
  BY <1>2, GivenSame, GivenNothing, TransfersAssumption
<1>4. k \notin recent
  BY <1>1, TransfersAssumption DEF GivingShape
<1>5. GivingShape'
  BY <1>1, <1>2, <1>3, <1>4 DEF GivingShape
<1>6. ASSUME NEW u \in Users \ hasty PROVE Kept(u)'
  <2>1. Open(u)' \subseteq Open(u) /\ Unrecorded(u)' = Unrecorded(u)
    BY <1>2 DEF Open, Unrecorded
  <2>2. Of(u, recent)' = Of(u, recent) /\ Of(u, window)' = Of(u, window) /\ ceiling'[u] = ceiling[u]
    BY DEF Of
  <2>3. \A j \in Of(u, recent) \cup Open(u)' : Given(j)' = Given(j)
    BY <1>1, <1>3, <1>4 DEF GivingShape, Of, Open
  <2> QED BY <1>1, <2>1, <2>2, <2>3, KeptSame
<1> QED BY <1>5, <1>6 DEF Giving

LEMMA GiveCheckGiving ==
  ASSUME Giving, NEW k \in Gives, NEW u \in Users, NEW rs \in Circles, NEW total \in Totals,
         GiveCheck(k, u, rs, total), wallet[u].balance \in Nat
  PROVE  Giving'
<1>1. GivingShape /\ \A v \in Users \ hasty : Kept(v)
  BY DEF Giving
<1>2. /\ at[k] = "none" /\ at'[k] = "running" /\ from'[k] = u /\ legs'[k] = Shower(u, rs, total)
      /\ \A j \in Gives \ {k} : at'[j] = at[j] /\ from'[j] = from[j] /\ legs'[j] = legs[j]
      /\ ceiling'[u] = Quarter(u) /\ \A v \in Users \ {u} : ceiling'[v] = ceiling[v]
      /\ DOMAIN at' = Calls /\ DOMAIN legs' = Calls /\ DOMAIN from' = Gives
      /\ window' = window /\ recent' = recent
  BY <1>1 DEF GiveCheck, Start, GivingShape, Calls
<1>0. ceiling' \in [Users -> Int]
  <2>1. Quarter(u) \in Int
    BY DEF Quarter
  <2> QED BY <2>1, <1>1 DEF GiveCheck, GivingShape
<1>3. Given(k)' = total /\ total \in Nat /\ \A j \in Gives \ {k} : Given(j)' = Given(j)
  BY <1>2, GivenIsTotal, GivenSame, TransfersAssumption
<1>4. k \notin recent /\ k \notin window
  BY <1>1, <1>2 DEF GivingShape
<1>5. GivingShape'
  BY <1>0, <1>1, <1>2, <1>3, <1>4 DEF GivingShape
<1>6. ASSUME NEW v \in Users \ hasty, v # u PROVE Kept(v)'
  <2>1. Open(v)' \subseteq Open(v) /\ Unrecorded(v)' = Unrecorded(v)
    BY <1>2, <1>6 DEF Open, Unrecorded
  <2>2. Of(v, recent)' = Of(v, recent) /\ Of(v, window)' = Of(v, window) /\ ceiling'[v] = ceiling[v]
    BY <1>1, <1>2, <1>4, <1>6 DEF Of, GivingShape
  <2>3. \A j \in Of(v, recent) \cup Open(v)' : Given(j)' = Given(j)
    BY <1>1, <1>2, <1>3, <1>4, <1>6 DEF GivingShape, Of, Open
  <2> QED BY <1>1, <2>1, <2>2, <2>3, KeptSame
<1>7. ASSUME u \notin hasty, ~Busy(u) PROVE Kept(u)'
  <2>1. PICK R : R = Of(u, recent)
    OBVIOUS
  <2>2. Open(u) = {} /\ Unrecorded(u) = {}
    BY <1>7 DEF Busy, Of, Open, Unrecorded
  <2>3. Of(u, window) = R
    BY <1>1, <1>7, <2>1, <2>2 DEF Kept
  <2>4. Open(u)' = {k} /\ Unrecorded(u)' = {}
    BY <1>2, <2>2 DEF Open, Unrecorded
  <2>5. Of(u, recent)' = R /\ Of(u, window)' = R
    BY <1>1, <1>2, <1>4, <2>1, <2>3 DEF Of, GivingShape
  <2>6. R \in SUBSET Gives /\ k \notin R
    BY <1>1, <1>4, <2>1 DEF GivingShape, Of
  <2>7. Credits(R)' = Credits(R) /\ Credits(R) \in Int
    BY <1>1, <1>3, <2>6, CreditsSame, CreditsInt
  <2>8. Credits(Of(u, recent))' = Credits(R) /\ Credits(Of(u, window))' = Credits(R)
    BY <2>5, <2>7 DEF Credits
  <2>9. total <= Quarter(u) - Credits(R) /\ Quarter(u) \in Int
    BY <2>3 DEF GiveCheck, Eligible, Budget, Quarter
  <2> QED BY <1>2, <1>3, <2>4, <2>5, <2>7, <2>8, <2>9 DEF Kept
<1>8. \A v \in Users \ hasty' : v \notin hasty /\ (v = u => ~Busy(u))
  BY DEF GiveCheck
<1> QED BY <1>5, <1>6, <1>7, <1>8 DEF Giving

LEMMA CommitGiving ==
  ASSUME Giving, NEW k \in Gives, Commit(k) PROVE Giving'
<1>1. GivingShape /\ \A v \in Users \ hasty : Kept(v)
  BY DEF Giving
<1>2. /\ at[k] = "running" /\ at'[k] = "committed" /\ legs' = legs /\ recent' = recent \cup {k}
      /\ \A j \in Gives \ {k} : at'[j] = at[j]
      /\ DOMAIN at' = Calls /\ UNCHANGED <<from, window, ceiling, hasty>>
  BY <1>1 DEF Commit, End, GivingShape, Calls
<1>3. \A j : Given(j)' = Given(j)
  BY <1>2, GivenSame
<1>4. k \notin recent /\ k \notin window
  BY <1>1, <1>2 DEF GivingShape
<1>5. GivingShape'
  BY <1>1, <1>2, <1>3, <1>4 DEF GivingShape
<1>6. ASSUME NEW v \in Users \ hasty, from[k] # v PROVE Kept(v)'
  <2>1. Open(v)' \subseteq Open(v) /\ Unrecorded(v)' = Unrecorded(v)
    BY <1>2, <1>6 DEF Open, Unrecorded
  <2>2. Of(v, recent)' = Of(v, recent) /\ Of(v, window)' = Of(v, window) /\ ceiling'[v] = ceiling[v]
    BY <1>2, <1>6 DEF Of
  <2> QED BY <1>1, <1>3, <2>1, <2>2, KeptSame
<1>7. ASSUME NEW v \in Users \ hasty, from[k] = v PROVE Kept(v)'
  <2>1. PICK R : R = Of(v, recent)
    OBVIOUS
  <2>2. Kept(v) /\ Open(v) = {k}
    BY <1>1, <1>2, <1>7 DEF Open, Kept
  <2>3. Unrecorded(v) = {}
    BY <1>2, <2>2 DEF Open, Unrecorded
  <2>4. Of(v, window) = R
    BY <2>1, <2>2, <2>3 DEF Kept
  <2>5. Open(v)' = {k} /\ Unrecorded(v)' = {k}
    <3>1. Open(v)' = Open(v)
      BY <1>2, <1>7 DEF Open
    <3>2. Unrecorded(v)' = Unrecorded(v) \cup {k}
      BY <1>2, <1>7 DEF Unrecorded
    <3> QED BY <3>1, <3>2, <2>2, <2>3
  <2>6. Of(v, recent)' = R \cup {k} /\ Of(v, window)' = R
    BY <1>2, <1>7, <2>1, <2>4 DEF Of
  <2>7. R \in SUBSET Gives /\ k \notin R /\ R \cup {k} \in SUBSET Gives
    BY <1>1, <1>4, <2>1 DEF GivingShape, Of
  <2>8. /\ Credits(R)' = Credits(R) /\ Credits(R \cup {k})' = Credits(R \cup {k})
        /\ Credits(R \cup {k}) = Credits(R) + Given(k)
    BY <1>1, <1>3, <2>7, CreditsSame, CreditsAdd
  <2>9. Credits(Of(v, recent))' = Credits(R) + Given(k) /\ Credits(Of(v, window))' = Credits(R)
    BY <2>6, <2>8 DEF Credits
  <2>10. Credits(R) + Given(k) <= ceiling[v]
    BY <2>2, <2>4 DEF Kept
  <2> QED BY <1>2, <1>3, <2>5, <2>6, <2>9, <2>10 DEF Kept
<1> QED BY <1>2, <1>5, <1>6, <1>7 DEF Giving

LEMMA GiveRecordGiving ==
  ASSUME Giving, NEW k \in Gives, GiveRecord(k) PROVE Giving'
<1>1. GivingShape /\ \A v \in Users \ hasty : Kept(v)
  BY DEF Giving
<1>2. /\ at[k] = "committed" /\ at'[k] = "done" /\ \A j \in Gives \ {k} : at'[j] = at[j]
      /\ DOMAIN at' = Calls /\ UNCHANGED <<legs, from, recent, ceiling>>
  BY <1>1 DEF GiveRecord, GivingShape, Calls
<1>3. \A j : Given(j)' = Given(j)
  BY <1>2, GivenSame
<1>4. k \in recent /\ window' \subseteq window \cup {k}
  BY <1>1, <1>2 DEF GivingShape, GiveRecord
<1>5. GivingShape'
  BY <1>1, <1>2, <1>3, <1>4 DEF GivingShape
<1>6. ASSUME NEW v \in Users \ hasty, from[k] # v PROVE Kept(v)'
  <2>1. Open(v)' \subseteq Open(v) /\ Unrecorded(v)' = Unrecorded(v)
    BY <1>2, <1>6 DEF Open, Unrecorded
  <2>2. Of(v, recent)' = Of(v, recent) /\ Of(v, window)' = Of(v, window) /\ ceiling'[v] = ceiling[v]
    BY <1>2, <1>6 DEF Of, GiveRecord
  <2> QED BY <1>1, <1>3, <2>1, <2>2, KeptSame
<1>7. ASSUME NEW v \in Users \ hasty, from[k] = v, window' = window \cup {k} PROVE Kept(v)'
  <2>1. PICK R : R = Of(v, recent)
    OBVIOUS
  <2>2. Kept(v) /\ Open(v) = {k}
    BY <1>1, <1>2, <1>7 DEF Open, Kept
  <2>3. Unrecorded(v) = {k}
    BY <1>2, <1>7, <2>2 DEF Open, Unrecorded
  <2>4. Open(v)' = {} /\ Unrecorded(v)' = {}
    BY <1>2, <1>7, <2>2 DEF Open, Unrecorded
  <2>5. Of(v, recent)' = R /\ Of(v, window)' = Of(v, window) \cup {k}
    BY <1>2, <1>7, <2>1 DEF Of
  <2>6. Of(v, window)' = Of(v, recent)'
    BY <2>1, <2>2, <2>3, <2>5 DEF Kept
  <2>7. R \in SUBSET Gives
    BY <1>1, <2>1 DEF GivingShape, Of
  <2>8. Credits(R)' = Credits(R)
    BY <1>3, <2>7, CreditsSame
  <2>9. Credits(Of(v, recent))' = Credits(R)
    BY <2>5, <2>8 DEF Credits
  <2> QED BY <1>2, <2>1, <2>2, <2>4, <2>6, <2>9 DEF Kept
<1>8. \A v \in Users \ hasty' : v \notin hasty /\ (from[k] = v => window' = window \cup {k})
  BY DEF GiveRecord
<1> QED BY <1>5, <1>6, <1>7, <1>8 DEF Giving

LEMMA WindowGiving ==
  ASSUME Giving, NEW k \in Gives, WindowSlides(k) PROVE Giving'
<1>1. GivingShape /\ \A v \in Users \ hasty : Kept(v)
  BY DEF Giving
<1>2. /\ k \in recent /\ at[k] = "done" /\ window' = window \ {k} /\ recent' = recent \ {k}
      /\ UNCHANGED <<at, legs, from, ceiling, hasty>>
  BY DEF WindowSlides, work
<1>3. \A j : Given(j)' = Given(j)
  BY <1>2, GivenSame
<1>4. GivingShape'
  BY <1>1, <1>2, <1>3 DEF GivingShape
<1>5. \A v : Open(v)' = Open(v) /\ Unrecorded(v)' = Unrecorded(v)
  BY <1>2 DEF Open, Unrecorded
<1>6. ASSUME NEW v \in Users \ hasty, from[k] # v PROVE Kept(v)'
  <2>1. Of(v, recent)' = Of(v, recent) /\ Of(v, window)' = Of(v, window) /\ ceiling'[v] = ceiling[v]
    BY <1>2, <1>6 DEF Of
  <2> QED BY <1>1, <1>3, <1>5, <2>1, KeptSame
<1>7. ASSUME NEW v \in Users \ hasty, from[k] = v PROVE Kept(v)'
  <2>1. PICK R, W, N : R = Of(v, recent) \ {k} /\ W = Of(v, window) \ {k} /\ N = Unrecorded(v)
    OBVIOUS
  <2>2. Kept(v) /\ k \notin N /\ k \in Of(v, recent)
    BY <1>1, <1>2, <1>7, <2>1 DEF Of, Unrecorded, GivingShape
  <2>3. k \in Of(v, window) /\ R = W \cup N
    BY <2>1, <2>2 DEF Kept
  <2>4. Of(v, recent)' = R /\ Of(v, window)' = W
    BY <1>2, <2>1 DEF Of
  <2>5. R \in SUBSET Gives /\ W \in SUBSET Gives /\ k \in Gives \ R /\ k \in Gives \ W
    BY <1>1, <2>1 DEF GivingShape, Of
  <2>6. Of(v, recent) = R \cup {k} /\ Of(v, window) = W \cup {k}
    BY <2>1, <2>2, <2>3
  <2>7. /\ Credits(R)' = Credits(R) /\ Credits(W)' = Credits(W) /\ Credits(R) \in Int /\ Credits(W) \in Int
        /\ Credits(R \cup {k}) = Credits(R) + Given(k) /\ Credits(W \cup {k}) = Credits(W) + Given(k)
    BY <1>1, <1>3, <2>5, CreditsSame, CreditsInt, CreditsAdd
  <2>8. Credits(Of(v, recent))' = Credits(R) /\ Credits(Of(v, window))' = Credits(W)
    BY <2>4, <2>7 DEF Credits
  <2>9. Credits(R) + Given(k) <= ceiling[v] /\ \A j \in Open(v) : Credits(W) + Given(k) + Given(j) <= ceiling[v]
    BY <2>2, <2>6, <2>7 DEF Kept
  <2>10. Given(k) \in Nat /\ ceiling[v] \in Int /\ \A j \in Open(v) : Given(j) \in Nat
    BY <1>1 DEF GivingShape, Open
  <2>11. \A i, j \in Open(v)' : i = j
    BY <1>5, <2>2 DEF Kept
  <2>12. Of(v, recent)' = Of(v, window)' \cup Unrecorded(v)'
    BY <1>5, <2>1, <2>3, <2>4
  <2>13. Credits(R) <= ceiling[v] /\ \A j \in Open(v) : Credits(W) + Given(j) <= ceiling[v]
    BY <2>7, <2>9, <2>10
  <2>14. \A j \in Open(v)' : Credits(Of(v, window))' + Given(j)' <= ceiling'[v]
    BY <1>2, <1>3, <1>5, <2>8, <2>13
  <2> QED BY <1>2, <2>8, <2>11, <2>12, <2>13, <2>14 DEF Kept
<1> QED BY <1>2, <1>4, <1>6, <1>7 DEF Giving

LEMMA GivingInit == Init => Giving
<1> SUFFICES ASSUME Init PROVE Giving
  OBVIOUS
<1>1. ASSUME NEW k \in Gives PROVE Given(k) = 0
  <2>1. {j \in DOMAIN legs[k] : j % 2 = 1} = {}
    BY DEF Init, Calls
  <2> QED BY <2>1, SumEmpty DEF Given
<1>2. GivingShape
  BY <1>1 DEF Init, GivingShape, Calls
<1>3. ASSUME NEW u \in Users PROVE Kept(u)
  <2>1. Open(u) = {} /\ Unrecorded(u) = {} /\ Of(u, recent) = {} /\ Of(u, window) = {} /\ ceiling[u] = 0
    BY DEF Init, Open, Unrecorded, Of, Calls
  <2>2. Credits(Of(u, recent)) = 0
    BY <2>1, SumEmpty DEF Credits
  <2> QED BY <2>1, <2>2 DEF Kept
<1> QED BY <1>2, <1>3 DEF Giving

LEMMA GivingStep == Giving /\ WholeInv /\ [Next]_vars => Giving'
<1> SUFFICES ASSUME Giving, WholeInv, [Next]_vars PROVE Giving'
  OBVIOUS
<1>0. DOMAIN at = Calls /\ DOMAIN legs = Calls /\ \A u \in Users : wallet[u].balance \in Nat
  BY DEF Giving, GivingShape, WholeInv, WorkInv, Shape, RowType
<1>1. ASSUME NEW k \in Calls, LegRead(k) \/ LegWrite(k) \/ LegConflict(k) PROVE Giving'
  <2>1. /\ at[k] \in {"running", "read"} /\ at'[k] \in {"running", "read"} /\ DOMAIN at' = Calls
        /\ \A j \in Calls \ {k} : at'[j] = at[j]
        /\ UNCHANGED <<legs, from, window, recent, ceiling, hasty>>
    BY <1>0, <1>1 DEF LegRead, LegWrite, LegConflict, budget
  <2>2. legs[k] # <<>>
    BY <1>1 DEF LegRead, LegWrite, LegConflict, WholeInv, WorkInv, Shape, Locks
  <2> QED BY <1>0, <2>1, <2>2, GivingKept
<1>2. ASSUME NEW k \in Calls, LegContended(k) \/ LegInsufficient(k) \/ DeadlockVictim(k) \/ Fails(k)
      PROVE  Giving'
  <2>1. k \in Gives => at[k] \in {"running", "read"}
    <3>1. CASE DeadlockVictim(k)
      BY <3>1 DEF DeadlockVictim, Cycles, Waits
    <3>2. CASE Fails(k)
      BY <3>2 DEF Fails, Giving, GivingShape
    <3> QED BY <1>2, <3>1, <3>2 DEF LegContended, LegInsufficient
  <2>2. UNCHANGED <<from, window, recent, ceiling, hasty>>
    BY <1>2 DEF LegContended, LegInsufficient, DeadlockVictim, Fails, budget
  <2>3. PICK w \in {"due", "failed"} : at' = [at EXCEPT ![k] = w] /\ (k \in Gives => w = "failed")
    BY <1>2, TransfersAssumption DEF LegContended, LegInsufficient, DeadlockVictim, Fails, End, GiveUp
  <2>4. legs' = legs \/ legs' = [legs EXCEPT ![k] = <<>>]
    BY <1>2 DEF LegContended, LegInsufficient, DeadlockVictim, Fails, End, GiveUp
  <2>5. /\ DOMAIN at' = Calls /\ DOMAIN legs' = Calls /\ at'[k] = w /\ (legs'[k] = legs[k] \/ legs'[k] = <<>>)
        /\ \A j \in Calls \ {k} : at'[j] = at[j] /\ legs'[j] = legs[j]
    BY <1>0, <2>3, <2>4
  <2> QED BY <2>1, <2>2, <2>3, <2>5, GivingKept
<1>3. ASSUME NEW k \in Gives, Commit(k) PROVE Giving'
  BY <1>3, CommitGiving
<1>4. ASSUME NEW k \in Awards, Commit(k) \/ QualifyWrite(k) \/ AwardLock(k)
                               \/ \E r \in Referrals : QualifyRead(k, r) \/ \E m \in Milestones : AwardRead(k, r, m)
      PROVE  Giving'
  <2>1. k \in Calls /\ k \notin Gives
    BY TransfersAssumption DEF Calls
  <2>2. /\ DOMAIN at' = Calls /\ DOMAIN legs' = Calls
        /\ \A j \in Calls \ {k} : at'[j] = at[j] /\ legs'[j] = legs[j]
        /\ UNCHANGED <<from, window, recent, ceiling, hasty>>
    BY <1>0, <1>4, <2>1 DEF Commit, End, QualifyWrite, AwardLock, Start, QualifyRead, AwardRead, budget
  <2> QED BY <2>1, <2>2, GivingKept
<1>5. ASSUME NEW u \in Spenders, Spend(u) PROVE Giving'
  <2>1. UNCHANGED <<at, legs, from, window, recent, ceiling, hasty>>
    BY <1>5 DEF Spend, work, budget
  <2>2. \A k : Given(k)' = Given(k)
    BY <2>1, GivenSame
  <2>3. GivingShape'
    BY <2>1, <2>2 DEF Giving, GivingShape
  <2>4. ASSUME NEW v \in Users \ hasty PROVE Kept(v)'
    <3>1. Open(v)' = Open(v) /\ Unrecorded(v)' = Unrecorded(v) /\ Of(v, recent)' = Of(v, recent)
          /\ Of(v, window)' = Of(v, window)
      BY <2>1 DEF Open, Unrecorded, Of
    <3> QED BY <2>1, <2>2, <3>1, KeptSame DEF Giving
  <2> QED BY <2>1, <2>3, <2>4 DEF Giving
<1>6. CASE UNCHANGED vars
  <2>1. UNCHANGED <<at, legs, from, window, recent, ceiling, hasty>>
    BY <1>6 DEF vars, work, budget
  <2>2. \A k : Given(k)' = Given(k)
    BY <2>1, GivenSame
  <2>3. GivingShape'
    BY <2>1, <2>2 DEF Giving, GivingShape
  <2>4. ASSUME NEW v \in Users \ hasty PROVE Kept(v)'
    <3>1. Open(v)' = Open(v) /\ Unrecorded(v)' = Unrecorded(v) /\ Of(v, recent)' = Of(v, recent)
          /\ Of(v, window)' = Of(v, window)
      BY <2>1 DEF Open, Unrecorded, Of
    <3> QED BY <2>1, <2>2, <3>1, KeptSame DEF Giving
  <2> QED BY <2>1, <2>3, <2>4 DEF Giving
<1> QED
  BY <1>0, <1>1, <1>2, <1>3, <1>4, <1>5, <1>6, GiveCheckGiving, GiveRecordGiving, WindowGiving
  DEF Next, Step, Calls

\* What is given in 48 hours stays within a quarter of the balance (getTipBudget): Kept bounds
\* what is counted and what is under way, for users whose gifts do not overlap.
THEOREM BudgetCorrect == Spec => []BudgetKept
<1>1. Giving => BudgetKept
  BY DEF Giving, Kept, BudgetKept
<1> QED BY <1>1, GivingInit, GivingStep, WholeInit, WholeStep, AwardInit, AwardStep, PTL DEF Spec

-----------------------------------------------------------------------------
(* Forum.tla                                                                 *)

LEMMA ForumHolds == IsFiniteSet(Replies)
BY ForumAssumed DEF F!ForumAssumption, F!IsFiniteSet, IsFiniteSet

TopicType == [status : F!Statuses \cup {"none", "gone"}, pinned : BOOLEAN, locked : BOOLEAN, count : Int]
ReplyType == [at : {"none", "checked", "posted", "gone"}, topic : Topics \cup {None},
              parent : Replies \cup {None}]
DeleteType == [at : {"none", "read", "done"}, reply : Replies \cup {None}]
EditType == [at : {"none", "unlock", "pin", "done"}, topic : Topics \cup {None}, pinned : BOOLEAN]

LEMMA ForumTypes ==
  F!TypeOK <=> /\ topic \in [Topics -> TopicType] /\ reply \in [Replies -> ReplyType]
               /\ deleting \in [Deletes -> DeleteType] /\ edit \in [Edits -> EditType]
               /\ swept \in [Topics -> Nat] /\ crossed \subseteq Topics
BY DEF F!TypeOK, TopicType, ReplyType, DeleteType, EditType

LEMMA SameSize == \A T : F!Cardinality(T) = Cardinality(T)
BY DEF F!Cardinality, Cardinality

\* A reply that was checked, and an edit that was begun, name a topic.
Named ==
  /\ \A r \in Replies : reply[r].at # "none" => reply[r].topic \in Topics
  /\ \A e \in Edits : edit[e].at # "none" => edit[e].topic \in Topics

LEMMA ForumInit == F!Init => F!TypeOK /\ Named
<1> SUFFICES ASSUME F!Init PROVE F!TypeOK /\ Named
  OBVIOUS
<1>1. topic \in [Topics -> TopicType]
  BY DEF F!Init, TopicType
<1>2. reply \in [Replies -> ReplyType]
  BY DEF F!Init, ReplyType
<1>3. deleting \in [Deletes -> DeleteType]
  BY DEF F!Init, DeleteType
<1>4. edit \in [Edits -> EditType]
  BY DEF F!Init, EditType
<1>5. Named
  BY DEF F!Init, Named
<1>6. swept \in [Topics -> Nat] /\ crossed \subseteq Topics
  BY DEF F!Init
<1> QED
  BY <1>1, <1>2, <1>3, <1>4, <1>5, <1>6, ForumTypes

\* The replies that go were posted, and those removed outright are among them.
LEMMA ThreadsArePosted ==
  ASSUME NEW Z \in SUBSET F!Posted
  PROVE  Z \subseteq F!Threads(Z) /\ F!Threads(Z) \subseteq F!Posted
BY DEF F!Threads

\* What the removal of a set of replies does to the rows.
LEMMA RemoveReplies ==
  ASSUME F!TypeOK, Named, NEW Z \in SUBSET F!Posted, NEW C \in SUBSET Z, F!Remove(Z, C)
  PROVE  /\ reply' \in [Replies -> ReplyType] /\ swept' \in [Topics -> Nat]
         /\ \A r \in Replies : /\ reply'[r].topic = reply[r].topic
                               /\ reply[r].at = "none" <=> reply'[r].at = "none"
         /\ \A t \in Topics : Cardinality(F!RepliesOf(t)) + swept[t] =
                              Cardinality(F!RepliesOf(t)') + swept'[t] +
                              Cardinality({r \in C : reply[r].topic = t})
<1> DEFINE gone == F!Threads(Z)
<1>1. Z \subseteq gone /\ gone \subseteq F!Posted
  BY ThreadsArePosted
<1>2. reply \in [Replies -> ReplyType] /\ swept \in [Topics -> Nat]
  BY ForumTypes
<1>3. reply' = [r \in Replies |-> IF r \in gone THEN [reply[r] EXCEPT !.at = "gone"] ELSE reply[r]]
  BY DEF F!Remove
<1>4. \A t \in Topics : swept'[t] = swept[t] + Cardinality({r \in gone \ C : reply[r].topic = t})
  BY SameSize DEF F!Remove
<1>5. swept' = [t \in Topics |-> swept'[t]]
  BY DEF F!Remove
<1>6. gone \subseteq Replies
  BY <1>1 DEF F!Posted
<1> HIDE DEF gone
<1>7. IsFiniteSet(gone) /\ \A X \in SUBSET Replies : IsFiniteSet(X)
  BY <1>6, ForumHolds, FS_Subset
<1>8. \A t \in Topics : Cardinality({r \in gone \ C : reply[r].topic = t}) \in Nat
  <2> TAKE t \in Topics
  <2>1. {r \in gone \ C : reply[r].topic = t} \subseteq Replies
    BY <1>6
  <2> QED BY <2>1, <1>7, FS_CardinalityType
<1>9. swept' \in [Topics -> Nat]
  <2>1. ASSUME NEW t \in Topics PROVE swept'[t] \in Nat
    <3> DEFINE n == Cardinality({r \in gone \ C : reply[r].topic = t})
    <3>1. n \in Nat /\ swept'[t] = swept[t] + n
      BY <1>4, <1>8
    <3> HIDE DEF n
    <3> QED BY <1>2, <3>1
  <2> QED BY <2>1, <1>5
<1>10. ASSUME NEW r \in Replies
       PROVE  /\ reply'[r] \in ReplyType /\ reply'[r].topic = reply[r].topic
              /\ reply[r].at = "none" <=> reply'[r].at = "none"
              /\ reply'[r].at = "posted" <=> reply[r].at = "posted" /\ r \notin gone
  <2>1. reply[r] \in ReplyType
    BY <1>2
  <2>2. CASE r \in gone
    <3>1. reply[r].at = "posted"
      BY <1>1, <2>2 DEF F!Posted
    <3>2. reply'[r] = [reply[r] EXCEPT !.at = "gone"]
      BY <1>3, <2>2
    <3>3. reply'[r].at = "gone" /\ reply'[r].topic = reply[r].topic /\ reply'[r] \in ReplyType
      BY <2>1, <3>2 DEF ReplyType
    <3> QED BY <2>2, <3>1, <3>3
  <2>3. CASE r \notin gone
    BY <1>3, <2>1, <2>3
  <2> QED BY <2>2, <2>3
<1>11. reply' \in [Replies -> ReplyType]
  BY <1>3, <1>10
<1>12. ASSUME NEW t \in Topics
       PROVE  Cardinality(F!RepliesOf(t)) + swept[t] =
                Cardinality(F!RepliesOf(t)') + swept'[t] + Cardinality({r \in C : reply[r].topic = t})
  <2> DEFINE R == F!RepliesOf(t)  G == {r \in gone : reply[r].topic = t}
             K == {r \in C : reply[r].topic = t}
  <2>1. F!RepliesOf(t)' = R \ G
    BY <1>10 DEF F!RepliesOf, F!Posted
  <2>2. G \subseteq R /\ R \subseteq Replies /\ K \subseteq G
    BY <1>1 DEF F!RepliesOf, F!Posted
  <2>3. {r \in gone \ C : reply[r].topic = t} = G \ K
    BY <1>1
  <2> HIDE DEF R, G, K
  <2>4. IsFiniteSet(R) /\ IsFiniteSet(G) /\ IsFiniteSet(K)
    BY <2>2, <1>7
  <2>5. Cardinality(R \ G) = Cardinality(R) - Cardinality(G)
    <3>1. R \cap G = G
      BY <2>2
    <3> QED BY <2>4, <3>1, FS_Difference, ZenonT(30)
  <2>6. Cardinality(G \ K) = Cardinality(G) - Cardinality(K)
    <3>1. G \cap K = K
      BY <2>2
    <3> QED BY <2>4, <3>1, FS_Difference, ZenonT(30)
  <2>7. Cardinality(R) \in Nat /\ Cardinality(G) \in Nat /\ Cardinality(K) \in Nat /\ swept[t] \in Nat
    BY <2>4, <1>2, FS_CardinalityType
  <2>8. swept'[t] = swept[t] + Cardinality(G \ K)
    BY <1>4, <2>3
  <2> QED BY <2>1, <2>5, <2>6, <2>7, <2>8 DEF R, K
<1> QED BY <1>9, <1>10, <1>11, <1>12

\* A topic's count is its replies and those the database removed; a removed topic's is not
\* kept.
Counts ==
  \A t \in Topics : topic[t].status # "gone" => topic[t].count = Cardinality(F!RepliesOf(t)) + swept[t]

\* What an unlock has read of isPinned still holds, unless a pin came between.
Pins ==
  /\ \A t \in Topics : topic[t].status = "PINNED" => topic[t].pinned \/ t \in crossed
  /\ \A t \in Topics : topic[t].status = "LOCKED" => topic[t].locked
  /\ \A e \in Edits : edit[e].at = "unlock" =>
       edit[e].pinned = topic[edit[e].topic].pinned \/ edit[e].topic \in crossed

\* What TopicsTrue rests on.
ForumInv == F!TypeOK /\ Named /\ Counts /\ Pins

\* A step that leaves the replies alone keeps the counts.
LEMMA SameReplies ==
  ASSUME Counts, UNCHANGED <<reply, swept>>,
         \A t \in Topics : topic'[t].count = topic[t].count /\
                           (topic[t].status = "gone" => topic'[t].status = "gone")
  PROVE  Counts'
<1>1. \A t \in Topics : F!RepliesOf(t)' = F!RepliesOf(t)
  BY DEF F!RepliesOf, F!Posted
<1> QED BY <1>1 DEF Counts

LEMMA CreateTopicStep == ASSUME ForumInv, NEW t \in Topics, F!CreateTopic(t) PROVE ForumInv'
<1> USE DEF ForumInv
<1>1. topic[t] \in TopicType /\ topic \in [Topics -> TopicType]
  BY ForumTypes
<1>2. topic'[t] = [topic[t] EXCEPT !.status = "OPEN"] /\ \A u \in Topics \ {t} : topic'[u] = topic[u]
  BY <1>1 DEF F!CreateTopic
<1>3. topic'[t] \in TopicType /\ topic'[t].count = topic[t].count /\ topic'[t].pinned = topic[t].pinned
      /\ topic'[t].status = "OPEN"
  BY <1>1, <1>2 DEF TopicType, F!Statuses
<1>4. topic' \in [Topics -> TopicType]
  BY <1>1, <1>2, <1>3 DEF F!CreateTopic
<1>5. F!TypeOK' /\ Named'
  BY <1>4, ForumTypes DEF F!CreateTopic, Named, F!TypeOK, TopicType
<1>6. Counts'
  BY <1>2, <1>3, SameReplies DEF F!CreateTopic
<1>7. Pins'
  BY <1>2, <1>3 DEF Pins, F!CreateTopic, Named
<1> QED BY <1>5, <1>6, <1>7

LEMMA ReplyCheckStep ==
  ASSUME ForumInv, NEW r \in Replies, NEW t \in Topics, NEW p \in Replies \cup {None}, NEW staff \in BOOLEAN,
         F!ReplyCheck(r, t, p, staff)
  PROVE  ForumInv'
<1> USE DEF ForumInv
<1>1. F!TypeOK'
  <2>1. reply' \in [Replies -> ReplyType]
    BY ForumTypes DEF F!ReplyCheck, ReplyType
  <2> QED BY <2>1, ForumTypes DEF F!ReplyCheck, F!TypeOK, ReplyType
<1>2. Named'
  BY ForumTypes DEF F!ReplyCheck, Named
<1>3. Counts'
  <2>1. \A u \in Topics : F!RepliesOf(u)' = F!RepliesOf(u)
    BY ForumTypes DEF F!ReplyCheck, F!RepliesOf, F!Posted
  <2> QED BY <2>1 DEF Counts, F!ReplyCheck
<1>4. Pins'
  BY DEF Pins, F!ReplyCheck
<1> QED BY <1>1, <1>2, <1>3, <1>4

LEMMA ReplyPostStep == ASSUME ForumInv, NEW r \in Replies, F!ReplyPost(r) PROVE ForumInv'
<1> USE DEF ForumInv
<1>0. PICK t \in Topics : t = reply[r].topic
  BY DEF F!ReplyPost, Named
<1> USE <1>0
<1>1. /\ topic \in [Topics -> TopicType] /\ reply \in [Replies -> ReplyType] /\ swept \in [Topics -> Nat]
      /\ t \in Topics /\ reply[r].at = "checked" /\ F!There(t)
  BY ForumTypes DEF F!ReplyPost, Named
<1>2. /\ reply'[r].at = "posted" /\ reply'[r].topic = t /\ reply'[r] \in ReplyType
      /\ \A q \in Replies \ {r} : reply'[q] = reply[q]
      /\ reply' \in [Replies -> ReplyType]
  BY <1>1 DEF F!ReplyPost, ReplyType
<1>3. /\ topic'[t] = [topic[t] EXCEPT !.count = @ + 1]
      /\ \A u \in Topics \ {t} : topic'[u] = topic[u]
  BY <1>1 DEF F!ReplyPost
<1>4. /\ topic'[t] \in TopicType /\ topic'[t].count = topic[t].count + 1
      /\ topic'[t].status = topic[t].status /\ topic'[t].pinned = topic[t].pinned
      /\ topic'[t].locked = topic[t].locked
  BY <1>1, <1>3 DEF TopicType
<1>5. topic' \in [Topics -> TopicType]
  BY <1>1, <1>3, <1>4 DEF F!ReplyPost
<1>6. F!TypeOK'
  BY <1>2, <1>5, ForumTypes DEF F!ReplyPost, F!TypeOK, ReplyType, TopicType
<1>7. Named'
  BY <1>1, <1>2 DEF Named, F!ReplyPost
<1>8. Counts'
  <2>1. \A u \in Topics \ {t} : F!RepliesOf(u)' = F!RepliesOf(u)
    BY <1>2 DEF F!RepliesOf, F!Posted
  <2>2. F!RepliesOf(t)' = F!RepliesOf(t) \cup {r} /\ r \notin F!RepliesOf(t)
    BY <1>1, <1>2 DEF F!RepliesOf, F!Posted
  <2>3. IsFiniteSet(F!RepliesOf(t))
    BY ForumHolds, FS_Subset DEF F!RepliesOf, F!Posted
  <2>4. Cardinality(F!RepliesOf(t)') = Cardinality(F!RepliesOf(t)) + 1 /\ Cardinality(F!RepliesOf(t)) \in Nat
    BY <2>2, <2>3, FS_AddElement, FS_CardinalityType
  <2>5. swept' = swept /\ swept[t] \in Nat /\ topic[t].status # "gone"
    BY <1>1 DEF F!ReplyPost, F!There, F!Statuses
  <2>6. topic'[t].count = Cardinality(F!RepliesOf(t)') + swept'[t]
    BY <1>1, <1>4, <2>4, <2>5 DEF Counts
  <2>7. ASSUME NEW u \in Topics \ {t}, topic'[u].status # "gone"
        PROVE  topic'[u].count = Cardinality(F!RepliesOf(u)') + swept'[u]
    <3>1. topic'[u] = topic[u] /\ swept'[u] = swept[u] /\ F!RepliesOf(u)' = F!RepliesOf(u)
      BY <1>3, <2>1, <2>5
    <3> QED BY <2>7, <3>1 DEF Counts
  <2> QED BY <2>6, <2>7 DEF Counts
<1>9. Pins'
  BY <1>1, <1>3, <1>4, SMTT(30) DEF Pins, F!ReplyPost, Named
<1> QED BY <1>6, <1>7, <1>8, <1>9

LEMMA DeleteReadStep ==
  ASSUME ForumInv, NEW d \in Deletes, NEW r \in Replies, F!DeleteRead(d, r)
  PROVE  ForumInv'
<1> USE DEF ForumInv
<1>1. F!TypeOK'
  <2>1. deleting' \in [Deletes -> DeleteType]
    BY ForumTypes DEF F!DeleteRead, DeleteType
  <2> QED BY <2>1, ForumTypes DEF F!DeleteRead, F!TypeOK, DeleteType
<1>2. Named' /\ Pins'
  BY DEF F!DeleteRead, Named, Pins
<1>3. Counts'
  BY SameReplies DEF F!DeleteRead
<1> QED BY <1>1, <1>2, <1>3

LEMMA DeleteWriteStep == ASSUME ForumInv, NEW d \in Deletes, F!DeleteWrite(d) PROVE ForumInv'
<1> DEFINE r == deleting[d].reply  t == reply[r].topic
<1> USE DEF ForumInv
<1>1. /\ topic \in [Topics -> TopicType] /\ reply \in [Replies -> ReplyType]
      /\ deleting \in [Deletes -> DeleteType] /\ swept \in [Topics -> Nat]
  BY ForumTypes
<1>2. r \in F!Posted /\ r \in Replies /\ t \in Topics
  BY DEF F!DeleteWrite, F!Deletable, F!Posted, Named
<1>3. {r} \cap F!Posted = {r} /\ F!Remove({r}, {r})
  BY <1>2 DEF F!DeleteWrite
<1>4. /\ reply' \in [Replies -> ReplyType] /\ swept' \in [Topics -> Nat]
      /\ \A q \in Replies : reply'[q].topic = reply[q].topic /\ (reply[q].at = "none" <=> reply'[q].at = "none")
      /\ \A u \in Topics : Cardinality(F!RepliesOf(u)) + swept[u] =
                             Cardinality(F!RepliesOf(u)') + swept'[u] +
                             Cardinality({q \in {r} : reply[q].topic = u})
  BY <1>2, <1>3, RemoveReplies
<1>5. /\ topic'[t] = [topic[t] EXCEPT !.count = @ - 1]
      /\ \A u \in Topics \ {t} : topic'[u] = topic[u]
  BY <1>1, <1>2 DEF F!DeleteWrite
<1>6. /\ topic'[t] \in TopicType /\ topic'[t].count = topic[t].count - 1
      /\ topic'[t].status = topic[t].status /\ topic'[t].pinned = topic[t].pinned
      /\ topic'[t].locked = topic[t].locked
  BY <1>1, <1>2, <1>5, SMTT(30) DEF TopicType
<1>7. topic' \in [Topics -> TopicType]
  BY <1>1, <1>2, <1>5, <1>6 DEF F!DeleteWrite
<1>8. F!TypeOK'
  <2>1. deleting' \in [Deletes -> DeleteType]
    BY <1>1 DEF F!DeleteWrite, DeleteType
  <2> QED BY <1>4, <1>7, <2>1, ForumTypes DEF F!DeleteWrite, F!TypeOK, ReplyType, TopicType, DeleteType
<1>9. Named'
  BY <1>4 DEF Named, F!DeleteWrite
<1>10. Counts'
  <2> SUFFICES ASSUME NEW u \in Topics, topic'[u].status # "gone"
               PROVE  topic'[u].count = Cardinality(F!RepliesOf(u)') + swept'[u]
    BY DEF Counts
  <2>1. topic[u].count = Cardinality(F!RepliesOf(u)) + swept[u]
    BY <1>5, <1>6 DEF Counts
  <2>2. Cardinality(F!RepliesOf(u)') \in Nat /\ swept'[u] \in Nat
    <3>1. F!RepliesOf(u)' \subseteq Replies
      BY DEF F!RepliesOf, F!Posted
    <3> QED BY <3>1, <1>4, ForumHolds, FS_Subset, FS_CardinalityType
  <2>3. CASE u = t
    <3>1. {q \in {r} : reply[q].topic = u} = {r}
      BY <2>3
    <3>2. Cardinality({q \in {r} : reply[q].topic = u}) = 1
      BY <3>1, FS_Singleton
    <3>3. topic'[u].count = topic[u].count - 1
      BY <1>6, <2>3
    <3>4. Cardinality(F!RepliesOf(u)) + swept[u] =
            Cardinality(F!RepliesOf(u)') + swept'[u] + Cardinality({q \in {r} : reply[q].topic = u})
      BY <1>4
    <3> HIDE DEF r, t, ForumInv
    <3>5. PICK m \in Nat, w \in Nat : m = Cardinality(F!RepliesOf(u)') /\ w = swept'[u]
      BY <2>2
    <3>6. topic[u].count = m + w + 1
      BY <2>1, <3>2, <3>4, <3>5
    <3>7. topic'[u].count = m + w
      BY <3>3, <3>5, <3>6
    <3> QED BY <3>5, <3>7
  <2>4. CASE u # t
    <3>1. {q \in {r} : reply[q].topic = u} = {}
      BY <2>4
    <3>2. Cardinality({q \in {r} : reply[q].topic = u}) = 0
      BY <3>1, FS_EmptySet
    <3> QED BY <1>4, <1>5, <2>1, <2>2, <2>4, <3>2
  <2> QED BY <2>3, <2>4
<1>11. Pins'
  <2>1. \A u \in Topics : /\ topic'[u].status = topic[u].status /\ topic'[u].pinned = topic[u].pinned
                          /\ topic'[u].locked = topic[u].locked
    BY <1>5, <1>6
  <2>2. edit' = edit /\ crossed' = crossed
    BY DEF F!DeleteWrite
  <2> QED BY <2>1, <2>2 DEF Pins, Named
<1> QED BY <1>8, <1>9, <1>10, <1>11

LEMMA DeleteTopicStep == ASSUME ForumInv, NEW t \in Topics, F!DeleteTopic(t) PROVE ForumInv'
<1> USE DEF ForumInv
<1>1. /\ topic \in [Topics -> TopicType] /\ reply \in [Replies -> ReplyType] /\ swept \in [Topics -> Nat]
      /\ F!RepliesOf(t) \subseteq F!Posted
  BY ForumTypes DEF F!RepliesOf
<1>2. /\ reply' \in [Replies -> ReplyType] /\ swept' \in [Topics -> Nat]
      /\ \A q \in Replies : reply'[q].topic = reply[q].topic /\ (reply[q].at = "none" <=> reply'[q].at = "none")
      /\ \A u \in Topics : Cardinality(F!RepliesOf(u)) + swept[u] =
                             Cardinality(F!RepliesOf(u)') + swept'[u] +
                             Cardinality({q \in F!RepliesOf(t) : reply[q].topic = u})
  BY <1>1, RemoveReplies DEF F!DeleteTopic
<1>3. /\ topic'[t] = [topic[t] EXCEPT !.status = "gone"]
      /\ \A u \in Topics \ {t} : topic'[u] = topic[u]
  BY <1>1 DEF F!DeleteTopic
<1>4. /\ topic'[t] \in TopicType /\ topic'[t].status = "gone" /\ topic'[t].pinned = topic[t].pinned
  BY <1>1, <1>3 DEF TopicType
<1>5. topic' \in [Topics -> TopicType]
  BY <1>1, <1>3, <1>4 DEF F!DeleteTopic
<1>6. F!TypeOK'
  BY <1>2, <1>5, ForumTypes DEF F!DeleteTopic, F!TypeOK, ReplyType, TopicType
<1>7. Named'
  BY <1>2 DEF Named, F!DeleteTopic
<1>8. Counts'
  <2> SUFFICES ASSUME NEW u \in Topics \ {t}, topic'[u].status # "gone"
               PROVE  topic'[u].count = Cardinality(F!RepliesOf(u)') + swept'[u]
    BY <1>4 DEF Counts
  <2>1. topic[u].count = Cardinality(F!RepliesOf(u)) + swept[u] /\ topic'[u] = topic[u]
    BY <1>3 DEF Counts
  <2>2. Cardinality(F!RepliesOf(u)') \in Nat /\ swept'[u] \in Nat
    <3>1. F!RepliesOf(u)' \subseteq Replies
      BY DEF F!RepliesOf, F!Posted
    <3> QED BY <3>1, <1>2, ForumHolds, FS_Subset, FS_CardinalityType
  <2>3. {q \in F!RepliesOf(t) : reply[q].topic = u} = {}
    BY DEF F!RepliesOf
  <2>4. Cardinality({q \in F!RepliesOf(t) : reply[q].topic = u}) = 0
    BY <2>3, FS_EmptySet
  <2> QED BY <1>2, <2>1, <2>2, <2>4
<1>9. Pins'
  BY <1>3, <1>4 DEF Pins, F!DeleteTopic, Named
<1> QED BY <1>6, <1>7, <1>8, <1>9

\* The writes of staff leave the count and the replies alone.
LEMMA SetStep ==
  ASSUME ForumInv, NEW t \in Topics, NEW row \in TopicType, F!Set(t, row),
         row.count = topic[t].count, row.status \in F!Statuses,
         edit' \in [Edits -> EditType], crossed' \subseteq Topics
  PROVE  /\ F!TypeOK' /\ Counts' /\ topic'[t] = row
         /\ \A u \in Topics \ {t} : topic'[u] = topic[u]
<1> USE DEF ForumInv
<1>1. topic \in [Topics -> TopicType] /\ topic[t].status # "gone"
  BY ForumTypes DEF F!Set, F!There, F!Statuses
<1>2. topic'[t] = row /\ \A u \in Topics \ {t} : topic'[u] = topic[u]
  BY <1>1 DEF F!Set
<1>3. topic' \in [Topics -> TopicType]
  BY <1>1 DEF F!Set
<1>4. F!TypeOK'
  BY <1>3, ForumTypes DEF F!Set, F!TypeOK, TopicType, EditType
<1>5. Counts'
  BY <1>1, <1>2, SameReplies DEF F!Set
<1> QED BY <1>2, <1>4, <1>5

LEMMA LockStep ==
  ASSUME ForumInv, NEW t \in Topics, F!Lock(t) \/ F!Hide(t) \/ F!Unhide(t)
  PROVE  ForumInv'
<1> USE DEF ForumInv
<1>1. topic[t] \in TopicType /\ edit \in [Edits -> EditType] /\ crossed \subseteq Topics
  BY ForumTypes
<1>2. PICK row \in TopicType :
        /\ F!Set(t, row) /\ row.count = topic[t].count /\ row.pinned = topic[t].pinned
        /\ row.status \in {"LOCKED", "HIDDEN", "OPEN"}
        /\ row.status = "LOCKED" => row.locked
  <2>1. CASE F!Lock(t)
    <3>1. [topic[t] EXCEPT !.status = "LOCKED", !.locked = TRUE] \in TopicType
      BY <1>1 DEF TopicType, F!Statuses
    <3> QED BY <2>1, <3>1, <1>1 DEF F!Lock, TopicType
  <2>2. CASE F!Hide(t)
    <3>1. [topic[t] EXCEPT !.status = "HIDDEN"] \in TopicType
      BY <1>1 DEF TopicType, F!Statuses
    <3> QED BY <2>2, <3>1, <1>1 DEF F!Hide, TopicType
  <2>3. CASE F!Unhide(t)
    <3>1. [topic[t] EXCEPT !.status = "OPEN"] \in TopicType
      BY <1>1 DEF TopicType, F!Statuses
    <3> QED BY <2>3, <3>1, <1>1 DEF F!Unhide, TopicType
  <2> QED BY <2>1, <2>2, <2>3
<1>3. edit' = edit /\ crossed' = crossed /\ reply' = reply
  BY <1>2 DEF F!Lock, F!Hide, F!Unhide, F!Set
<1>4. /\ F!TypeOK' /\ Counts' /\ topic'[t] = row
      /\ \A u \in Topics \ {t} : topic'[u] = topic[u]
  BY <1>1, <1>2, <1>3, SetStep DEF F!Statuses
<1>5. Named'
  BY <1>3 DEF Named
<1>6. Pins'
  BY <1>2, <1>3, <1>4 DEF Pins, Named
<1> QED BY <1>4, <1>5, <1>6

LEMMA EditReadStep ==
  ASSUME ForumInv, NEW e \in Edits, NEW t \in Topics, NEW what \in {"unlock", "pin"}, F!EditRead(e, t, what)
  PROVE  ForumInv'
<1> USE DEF ForumInv
<1>1. edit \in [Edits -> EditType] /\ topic[t] \in TopicType
  BY ForumTypes
<1>2. edit'[e] = [at |-> what, topic |-> t, pinned |-> topic[t].pinned] /\ \A f \in Edits \ {e} : edit'[f] = edit[f]
  BY <1>1 DEF F!EditRead
<1>3. edit' \in [Edits -> EditType]
  BY <1>1 DEF F!EditRead, EditType, TopicType
<1>4. F!TypeOK'
  BY <1>3, ForumTypes DEF F!EditRead, F!TypeOK, EditType
<1>5. Named' /\ Pins'
  BY <1>2 DEF F!EditRead, Named, Pins
<1>6. Counts'
  BY SameReplies DEF F!EditRead
<1> QED BY <1>4, <1>5, <1>6

LEMMA PinStep == ASSUME ForumInv, NEW e \in Edits, F!Pin(e) PROVE ForumInv'
<1> DEFINE t == edit[e].topic
           row == [topic[t] EXCEPT !.pinned = ~edit[e].pinned, !.status = F!StatusOf(edit[e].pinned)]
<1> USE DEF ForumInv
<1>1. /\ edit \in [Edits -> EditType] /\ edit[e] \in EditType /\ edit[e].at = "pin" /\ t \in Topics
      /\ topic[t] \in TopicType /\ crossed \subseteq Topics
  BY ForumTypes DEF F!Pin, Named
<1>2. /\ row \in TopicType /\ row.count = topic[t].count
      /\ row.status \in {"OPEN", "PINNED"}
      /\ row.status = "PINNED" => row.pinned
  BY <1>1 DEF TopicType, EditType, F!StatusOf, F!Statuses
<1>3. F!Set(t, row) /\ reply' = reply
  BY DEF F!Pin, F!Set
<1>4. /\ edit'[e].at = "done" /\ edit'[e].topic = t /\ \A f \in Edits \ {e} : edit'[f] = edit[f]
      /\ edit' \in [Edits -> EditType]
  BY <1>1 DEF F!Pin, EditType
<1>5. /\ crossed \subseteq crossed' /\ crossed' \subseteq Topics
      /\ \A f \in Edits : edit[f].at = "unlock" /\ edit[f].topic = t => t \in crossed'
  BY <1>1 DEF F!Pin
<1> HIDE DEF row
<1>6. /\ F!TypeOK' /\ Counts' /\ topic'[t] = row
      /\ \A u \in Topics \ {t} : topic'[u] = topic[u]
  BY <1>1, <1>2, <1>3, <1>4, <1>5, SetStep DEF F!Statuses
<1>7. Named'
  BY <1>1, <1>3, <1>4 DEF Named
<1>8. Pins'
  <2>1. ASSUME NEW f \in Edits, edit'[f].at = "unlock"
        PROVE  edit'[f].pinned = topic'[edit'[f].topic].pinned \/ edit'[f].topic \in crossed'
    <3>1. f # e /\ edit'[f] = edit[f] /\ edit[f].topic \in Topics
      BY <1>4, <2>1 DEF Named
    <3> QED BY <2>1, <3>1, <1>5, <1>6 DEF Pins
  <2> QED BY <2>1, <1>2, <1>5, <1>6 DEF Pins
<1> QED BY <1>6, <1>7, <1>8

LEMMA UnlockStep == ASSUME ForumInv, NEW e \in Edits, F!Unlock(e) PROVE ForumInv'
<1> DEFINE t == edit[e].topic
           row == [topic[t] EXCEPT !.locked = FALSE, !.status = IF edit[e].pinned THEN "PINNED" ELSE "OPEN"]
<1> USE DEF ForumInv
<1>1. /\ edit \in [Edits -> EditType] /\ edit[e] \in EditType /\ edit[e].at = "unlock" /\ t \in Topics
      /\ topic[t] \in TopicType /\ crossed \subseteq Topics
  BY ForumTypes DEF F!Unlock, Named
<1>2. /\ row \in TopicType /\ row.count = topic[t].count /\ row.pinned = topic[t].pinned
      /\ row.status \in {"OPEN", "PINNED"}
      /\ row.status = "PINNED" => edit[e].pinned
  BY <1>1 DEF TopicType, EditType, F!Statuses
<1>3. F!Set(t, row) /\ reply' = reply /\ crossed' = crossed
  BY DEF F!Unlock, F!Set
<1>4. /\ edit'[e].at = "done" /\ edit'[e].topic = t /\ \A f \in Edits \ {e} : edit'[f] = edit[f]
      /\ edit' \in [Edits -> EditType]
  BY <1>1 DEF F!Unlock, EditType
<1> HIDE DEF row
<1>5. /\ F!TypeOK' /\ Counts' /\ topic'[t] = row
      /\ \A u \in Topics \ {t} : topic'[u] = topic[u]
  BY <1>1, <1>2, <1>3, <1>4, SetStep DEF F!Statuses
<1>6. Named'
  BY <1>1, <1>3, <1>4 DEF Named
<1>7. Pins'
  <2>1. ASSUME NEW f \in Edits, edit'[f].at = "unlock"
        PROVE  edit'[f].pinned = topic'[edit'[f].topic].pinned \/ edit'[f].topic \in crossed'
    <3>1. f # e /\ edit'[f] = edit[f] /\ edit[f].topic \in Topics
      BY <1>4, <2>1 DEF Named
    <3> QED BY <2>1, <3>1, <1>2, <1>3, <1>5 DEF Pins
  <2> QED BY <2>1, <1>1, <1>2, <1>3, <1>5 DEF Pins
<1> QED BY <1>5, <1>6, <1>7

LEMMA ForumStep == ForumInv /\ [F!Next]_(F!vars) => ForumInv'
<1> SUFFICES ASSUME ForumInv, [F!Next]_(F!vars) PROVE ForumInv'
  OBVIOUS
<1>1. CASE UNCHANGED F!vars
  <2>1. UNCHANGED <<topic, reply, deleting, edit, swept, crossed>>
    BY <1>1 DEF F!vars
  <2>2. F!TypeOK' /\ Named' /\ Pins'
    BY <2>1 DEF ForumInv, F!TypeOK, Named, Pins
  <2> QED BY <2>1, <2>2, SameReplies DEF ForumInv
<1> QED
  BY <1>1, CreateTopicStep, ReplyCheckStep, ReplyPostStep, DeleteReadStep, DeleteWriteStep, DeleteTopicStep,
     LockStep, EditReadStep, PinStep, UnlockStep DEF F!Next

\* A topic's count and status are true under deletions, locks and pins (deleteReply,
\* pinTopic, unlockTopic), for any number of topics, replies and edits.
THEOREM TopicsCorrect == F!Spec => []TopicsTrue
<1>1. F!Init => ForumInv
  <2> SUFFICES ASSUME F!Init PROVE Counts /\ Pins
    BY ForumInit DEF ForumInv
  <2>1. \A t \in Topics : F!RepliesOf(t) = {}
    BY DEF F!Init, F!RepliesOf, F!Posted
  <2>2. Counts
    <3>1. ASSUME NEW t \in Topics PROVE topic[t].count = Cardinality(F!RepliesOf(t)) + swept[t]
      <4>1. Cardinality(F!RepliesOf(t)) = 0
        BY <2>1, FS_EmptySet
      <4> QED BY <4>1 DEF F!Init
    <3> QED BY <3>1 DEF Counts
  <2> QED BY <2>2 DEF F!Init, Pins
<1>2. ForumInv => TopicsTrue
  <2>1. \A t \in Topics : F!There(t) => topic[t].status # "gone"
    BY DEF F!There, F!Statuses
  <2> QED BY <2>1, SameSize DEF ForumInv, Counts, Pins, TopicsTrue, F!TopicsTrue
<1> QED
  BY <1>1, <1>2, ForumStep, PTL DEF F!Spec

-----------------------------------------------------------------------------
(* Standing.tla                                                              *)

LEMMA StandingHolds ==
  /\ IsFiniteSet(Reports) /\ IsFiniteSet(Others) /\ Reports \cap Others = {}
  /\ Limit \in [{"critical", "high"} -> Nat \ {0}]
BY StandingAssumed DEF S!StandingAssumption, S!IsFiniteSet, IsFiniteSet

VerifyType == [at : {"none", "read", "done"}, link : Links \cup {None}]
RequestType == [at : {"none", "read", "done"}, seen : S!Statuses \cup {None}]

LEMMA StandingInit == S!Init => S!TypeOK
<1> SUFFICES ASSUME S!Init PROVE S!TypeOK
  OBVIOUS
<1>1. verify \in [Verifies -> VerifyType]
  BY DEF S!Init, VerifyType
<1>2. request \in [Requests -> RequestType]
  BY DEF S!Init, RequestType
<1>3. link \in [Links -> {"none", "live", "expired", "used", "gone"}]
  BY DEF S!Init
<1> QED
  BY <1>1, <1>2, <1>3 DEF S!Init, S!TypeOK, S!Statuses, VerifyType, RequestType

LEMMA StandingTypes == S!Spec => []S!TypeOK
<1> USE DEF S!TypeOK, S!Statuses, S!Restricted
<1>2. S!TypeOK /\ [S!Next]_(S!vars) => S!TypeOK'
  <2> SUFFICES ASSUME S!TypeOK, [S!Next]_(S!vars) PROVE S!TypeOK'
    OBVIOUS
  <2> USE DEF S!abuse, S!mail, S!guard, S!Write
  <2>1. ASSUME NEW r \in Reports,
               S!SubmitReport(r) \/ S!FlagUser(r) \/ S!CountFlags(r) \/ S!ReadStatus(r) \/ S!AutoSuspend(r)
        PROVE  S!TypeOK'
    BY <2>1, ZenonT(30) DEF S!SubmitReport, S!FlagUser, S!CountFlags, S!ReadStatus, S!AutoSuspend
  <2>2. ASSUME NEW f \in Reports \cup Others, (f \in Others /\ S!OtherFlag(f)) \/ S!ResolveAbuseFlag(f)
        PROVE  S!TypeOK'
    BY <2>2 DEF S!OtherFlag, S!ResolveAbuseFlag
  <2>3. ASSUME NEW x \in Resolutions, S!ResolveReport(x) PROVE S!TypeOK'
    BY <2>3 DEF S!ResolveReport
  <2>4. ASSUME NEW o \in Orders, (\E s \in S!Statuses : S!SetStatus(o, s)) \/ S!InvalidateUserCaches(o)
        PROVE  S!TypeOK'
    BY <2>4 DEF S!SetStatus, S!InvalidateUserCaches, S!EntryDeleted
  <2>5. ASSUME NEW v \in Verifies, NEW t \in Links, S!VerifyRead(v, t) PROVE S!TypeOK'
    BY <2>5 DEF S!VerifyRead
  <2>6. ASSUME NEW v \in Verifies, S!VerifyWrite(v) PROVE S!TypeOK'
    <3>1. verify' \in [Verifies -> [at : {"none", "read", "done"}, link : Links \cup {None}]]
      BY <2>6 DEF S!VerifyWrite
    <3>2. link' \in [Links -> {"none", "live", "expired", "used", "gone"}]
      BY <2>6 DEF S!VerifyWrite
    <3> QED BY <2>6, <3>1, <3>2 DEF S!VerifyWrite
  <2>7. ASSUME NEW t \in Links, S!Expires(t) PROVE S!TypeOK'
    BY <2>7 DEF S!Expires
  <2>8. ASSUME NEW s \in Resends, S!ResendRead(s) \/ S!ResendDelete(s) \/ S!ResendCreate(s)
        PROVE  S!TypeOK'
    BY <2>8, SMTT(30) DEF S!ResendRead, S!ResendDelete, S!ResendCreate
  <2>9. ASSUME NEW q \in Requests, S!ValidateMiss(q) PROVE S!TypeOK'
    BY <2>9 DEF S!ValidateMiss
  <2>10. ASSUME NEW q \in Requests, S!ValidateStore(q) PROVE S!TypeOK'
    <3>1. request' \in [Requests -> [at : {"none", "read", "done"}, seen : S!Statuses \cup {None}]]
      BY <2>10 DEF S!ValidateStore
    <3>2. cache' \in S!Statuses \cup {None}
      <4>1. request[q] \in [at : {"none", "read", "done"}, seen : S!Statuses \cup {None}]
        OBVIOUS
      <4>2. request[q].seen \in S!Statuses \cup {None}
        BY <4>1
      <4> QED BY <2>10, <4>2 DEF S!ValidateStore
    <3> QED BY <2>10, <3>1, <3>2 DEF S!ValidateStore
  <2>11. CASE S!EntryExpires
    BY <2>11 DEF S!EntryExpires
  <2>12. CASE UNCHANGED S!vars
    BY <2>12 DEF S!vars
  <2> QED
    BY <2>1, <2>2, <2>3, <2>4, <2>5, <2>6, <2>7, <2>8, <2>9, <2>10, <2>11, <2>12 DEF S!Next
<1> QED
  BY StandingInit, <1>2, PTL DEF S!Spec

\* What a request has read, and an entry of the cache, admits.
Admits ==
  /\ cache # None => cache \notin S!Restricted
  /\ \A q \in Requests : request[q].at = "read" => request[q].seen \notin S!Restricted

\* An entry holds the status that is stored.
Fresh ==
  cache # None => quiet \/ late \/ cache = status \/ \E o \in Orders : order[o] = "written"

\* What RestrictionBites rests on.
EntryInv == Admits /\ Fresh

LEMMA EntryStep == S!TypeOK /\ EntryInv /\ [S!Next]_(S!vars) => EntryInv'
<1> SUFFICES ASSUME S!TypeOK, EntryInv, [S!Next]_(S!vars) PROVE EntryInv'
  OBVIOUS
<1>0. /\ order \in [Orders -> {"none", "written", "done"}] /\ quiet \in BOOLEAN /\ late \in BOOLEAN
      /\ request \in [Requests -> RequestType]
  BY DEF S!TypeOK, RequestType
<1> USE <1>0 DEF EntryInv, Admits, Fresh, S!Restricted, S!abuse, S!mail, S!guard, S!Write
<1>1. ASSUME NEW r \in Reports,
             S!SubmitReport(r) \/ S!FlagUser(r) \/ S!CountFlags(r) \/ S!ReadStatus(r) \/ S!AutoSuspend(r)
      PROVE  EntryInv'
  BY <1>1 DEF S!SubmitReport, S!FlagUser, S!CountFlags, S!ReadStatus, S!AutoSuspend
<1>2. ASSUME NEW f \in Reports \cup Others, (f \in Others /\ S!OtherFlag(f)) \/ S!ResolveAbuseFlag(f)
      PROVE  EntryInv'
  BY <1>2 DEF S!OtherFlag, S!ResolveAbuseFlag
<1>3. ASSUME NEW x \in Resolutions, S!ResolveReport(x) PROVE EntryInv'
  BY <1>3 DEF S!ResolveReport
<1>4. ASSUME NEW o \in Orders, NEW s \in S!Statuses, S!SetStatus(o, s) PROVE EntryInv'
  BY <1>4 DEF S!SetStatus
<1>5. ASSUME NEW o \in Orders, S!InvalidateUserCaches(o) PROVE EntryInv'
  BY <1>5 DEF S!InvalidateUserCaches, S!EntryDeleted
<1>6. ASSUME NEW v \in Verifies, NEW t \in Links, S!VerifyRead(v, t) PROVE EntryInv'
  BY <1>6 DEF S!VerifyRead
<1>7. ASSUME NEW v \in Verifies, S!VerifyWrite(v) PROVE EntryInv'
  BY <1>7 DEF S!VerifyWrite
<1>8. ASSUME NEW t \in Links, S!Expires(t) PROVE EntryInv'
  BY <1>8 DEF S!Expires
<1>9. ASSUME NEW s \in Resends, S!ResendRead(s) \/ S!ResendDelete(s) \/ S!ResendCreate(s)
      PROVE  EntryInv'
  BY <1>9 DEF S!ResendRead, S!ResendDelete, S!ResendCreate
<1>10. ASSUME NEW q \in Requests, S!ValidateMiss(q) PROVE EntryInv'
  BY <1>10 DEF S!ValidateMiss
<1>11. ASSUME NEW q \in Requests, S!ValidateStore(q) PROVE EntryInv'
  <2>1. \A p \in Requests : request'[p].at = "read" => p # q /\ request'[p] = request[p]
    BY <1>11 DEF S!ValidateStore, RequestType
  <2> QED BY <1>11, <2>1 DEF S!ValidateStore
<1>12. CASE S!EntryExpires
  BY <1>12 DEF S!EntryExpires
<1>13. CASE UNCHANGED S!vars
  BY <1>13 DEF S!vars
<1> QED
  BY <1>1, <1>2, <1>3, <1>4, <1>5, <1>6, <1>7, <1>8, <1>9, <1>10, <1>11, <1>12, <1>13 DEF S!Next

\* The guard's cache admits no restricted user once updateUserStatus has answered
\* (JwtStrategy.validate), for any number of requests and orders of staff.
THEOREM RestrictionCorrect == S!Spec => []RestrictionBites
<1>1. S!Init => EntryInv
  BY DEF S!Init, EntryInv, Admits, Fresh
<1>2. EntryInv => RestrictionBites
  BY DEF EntryInv, Admits, Fresh, RestrictionBites, S!RestrictionBites
<1> QED
  BY <1>1, <1>2, EntryStep, StandingTypes, PTL DEF S!Spec

LEMMA SameCardinality == \A T : S!Cardinality(T) = Cardinality(T)
BY DEF S!Cardinality, Cardinality

LEMMA FewerFlags ==
  ASSUME NEW E1, IsFiniteSet(E1), NEW E \in SUBSET E1, S!ShouldSuspend(E)
  PROVE  S!ShouldSuspend(E1)
<1>1. PICK s \in {"critical", "high"} : Cardinality(S!Of(s, E)) >= Limit[s]
  BY SameCardinality DEF S!ShouldSuspend
<1>2. S!Of(s, E) \subseteq S!Of(s, E1) /\ S!Of(s, E1) \subseteq E1
  BY DEF S!Of
<1>3. IsFiniteSet(S!Of(s, E1))
  BY <1>2, FS_Subset
<1>4. /\ Cardinality(S!Of(s, E)) <= Cardinality(S!Of(s, E1))
      /\ Cardinality(S!Of(s, E)) \in Nat /\ Cardinality(S!Of(s, E1)) \in Nat
  BY <1>2, <1>3, FS_Subset, FS_CardinalityType
<1>5. Limit[s] \in Nat
  BY StandingHolds
<1> QED BY <1>1, <1>4, <1>5, SameCardinality DEF S!ShouldSuspend

Counted == openFlags \cap {r \in Reports : report[r] = "done"}

LEMMA MoreFlags == ASSUME S!TypeOK, NEW E \in SUBSET openFlags, S!ShouldSuspend(E)
                   PROVE S!ShouldSuspend(openFlags)
<1>1. IsFiniteSet(Reports \cup Others)
  BY StandingHolds, FS_Union
<1>2. IsFiniteSet(openFlags)
  BY <1>1, FS_Subset DEF S!TypeOK
<1> QED BY <1>2, FewerFlags

LEMMA ThresholdStep ==
  S!TypeOK /\ ThresholdNotMissed /\ [S!Next]_(S!vars) => ThresholdNotMissed'
<1> SUFFICES ASSUME S!TypeOK, S!ShouldSuspend(Counted) => status # "ACTIVE" \/ pardoned, [S!Next]_(S!vars),
                    S!ShouldSuspend(Counted')
             PROVE  status' # "ACTIVE" \/ pardoned'
  BY DEF ThresholdNotMissed, S!ThresholdNotMissed, Counted
<1> USE DEF S!abuse, S!mail, S!guard, S!Write
<1>0. ASSUME Counted' \subseteq Counted
      PROVE  status # "ACTIVE" \/ pardoned
  <2>1. IsFiniteSet(Counted)
    <3>1. Counted \subseteq Reports
      BY DEF Counted
    <3> QED BY <3>1, StandingHolds, FS_Subset
  <2> QED BY <1>0, <2>1, FewerFlags
<1>1. ASSUME NEW r \in Reports, S!SubmitReport(r) \/ S!FlagUser(r) PROVE status' # "ACTIVE" \/ pardoned'
  <2>1. Counted' \subseteq Counted
    BY <1>1 DEF S!SubmitReport, S!FlagUser, Counted, S!TypeOK
  <2> QED BY <1>1, <1>0, <2>1 DEF S!SubmitReport, S!FlagUser
<1>2. ASSUME NEW r \in Reports, S!CountFlags(r) PROVE status' # "ACTIVE" \/ pardoned'
  <2>1. CASE S!ShouldSuspend(openFlags)
    <3>1. Counted' \subseteq Counted
      BY <1>2, <2>1 DEF S!CountFlags, Counted, S!TypeOK, S!FlagsNow
    <3> QED BY <1>2, <1>0, <3>1 DEF S!CountFlags
  <2>2. CASE ~S!ShouldSuspend(openFlags)
    <3>1. Counted' \subseteq openFlags
      BY <1>2 DEF S!CountFlags, Counted
    <3> QED BY <2>2, <3>1, MoreFlags
  <2> QED BY <2>1, <2>2
<1>3. ASSUME NEW r \in Reports, S!ReadStatus(r) PROVE status' # "ACTIVE" \/ pardoned'
  <2>1. CASE status = "ACTIVE"
    <3>1. Counted' \subseteq Counted
      BY <1>3, <2>1 DEF S!ReadStatus, Counted, S!TypeOK
    <3> QED BY <1>3, <1>0, <3>1 DEF S!ReadStatus
  <2> QED BY <1>3, <2>1 DEF S!ReadStatus
<1>4. ASSUME NEW r \in Reports, S!AutoSuspend(r) PROVE status' # "ACTIVE" \/ pardoned'
  BY <1>4 DEF S!AutoSuspend
<1>5. ASSUME NEW f \in Others, S!OtherFlag(f) PROVE status' # "ACTIVE" \/ pardoned'
  <2>1. Counted' \subseteq Counted
    BY <1>5, StandingHolds DEF S!OtherFlag, Counted
  <2> QED BY <1>5, <1>0, <2>1 DEF S!OtherFlag
<1>6. ASSUME NEW f \in Reports \cup Others, S!ResolveAbuseFlag(f) PROVE status' # "ACTIVE" \/ pardoned'
  <2>1. Counted' \subseteq Counted
    BY <1>6 DEF S!ResolveAbuseFlag, Counted
  <2> QED BY <1>6, <1>0, <2>1 DEF S!ResolveAbuseFlag
<1>7. ASSUME NEW x \in Resolutions, S!ResolveReport(x) PROVE status' # "ACTIVE" \/ pardoned'
  BY <1>7 DEF S!ResolveReport, S!Restricted
<1>8. ASSUME NEW o \in Orders, NEW s \in S!Statuses, S!SetStatus(o, s) PROVE status' # "ACTIVE" \/ pardoned'
  BY <1>8 DEF S!SetStatus
<1>9. ASSUME NEW v \in Verifies, S!VerifyWrite(v) PROVE status' # "ACTIVE" \/ pardoned'
  BY <1>9 DEF S!VerifyWrite
<1>10. ASSUME UNCHANGED <<status, openFlags, report, pardoned>> PROVE status' # "ACTIVE" \/ pardoned'
  <2>1. Counted' \subseteq Counted
    BY <1>10 DEF Counted
  <2> QED BY <1>10, <1>0, <2>1
<1> QED
  BY <1>1, <1>2, <1>3, <1>4, <1>5, <1>6, <1>7, <1>8, <1>9, <1>10
  DEF S!Next, S!vars, S!InvalidateUserCaches, S!VerifyRead, S!Expires, S!ResendRead, S!ResendDelete, S!ResendCreate,
      S!ValidateMiss, S!ValidateStore, S!EntryExpires

\* Reports and flags that come at once do not count past one another (checkAndEscalate):
\* the last of them to count sees the others.
THEOREM ThresholdCorrect == S!Spec => []ThresholdNotMissed
<1>1. S!Init => ThresholdNotMissed
  <2> SUFFICES ASSUME S!Init, S!ShouldSuspend(Counted) PROVE status # "ACTIVE" \/ pardoned
    BY DEF ThresholdNotMissed, S!ThresholdNotMissed, Counted
  <2>1. \A s : S!Of(s, Counted) = {}
    BY DEF S!Init, S!Of, Counted
  <2>2. \A s : S!Cardinality(S!Of(s, Counted)) = 0
    BY <2>1, SameCardinality, FS_EmptySet
  <2> QED BY <2>2, StandingHolds DEF S!ShouldSuspend
<1> QED
  BY <1>1, ThresholdStep, StandingTypes, PTL DEF S!Spec

-----------------------------------------------------------------------------
(* XP, levels and VIP points (Levels).                                       *)

UserRow == [xp: Nat, level: Nat \ {0}, vp: Nat, tier: {0} \cup DOMAIN Requirement]

AwardStages ==
  {"new", "writeXp", "logXp", "readBonus", "writeBonus", "logBonus", "readVp", "writeVp", "logVp",
   "done"}

LevelTypes ==
  /\ points \in UserRow
  /\ xpEvents \subseteq XpAwards \X Nat
  /\ vpEvents \subseteq wrote /\ wrote \subseteq XpAwards \X {"level_up", "own"} \X Nat
  /\ IsFiniteSet(wrote)
  /\ statement \in [XpAwards -> AwardStages]
  /\ basis \in [XpAwards -> UserRow] /\ gain \in [XpAwards -> Nat] /\ reached \in [XpAwards -> Nat]
  /\ earned \subseteq XpAwards /\ torn \in BOOLEAN

\* Level and tier are those of the row's XP and VP.
LevelTrue(row) == row.level = L!Level(row.xp)
TierTrue(row) == row.tier = L!Tier(row.vp)

\* What a call has written and logged, by the statement it is at.
OnceAt(a) ==
  /\ a \in earned => statement[a] \notin {"new", "writeXp"}
  /\ statement[a] \in {"new", "writeXp"} => reached[a] = 0
  /\ statement[a] \in {"readBonus", "writeBonus", "logBonus"} => reached[a] > 0
  /\ \A e \in wrote : e[1] = a =>
       /\ e[2] = "level_up" => statement[a] \in {"logBonus", "readVp", "writeVp", "logVp", "done"}
       /\ e[2] = "own" => statement[a] \in {"logVp", "done"}
  /\ \A e \in wrote \ vpEvents : e[1] = a => statement[a] \in {"logBonus", "logVp"} /\ e = L!Purpose(a)
  /\ statement[a] \in {"logBonus", "logVp"} => L!Purpose(a) \in wrote

WrittenOnce == \A a \in XpAwards : OnceAt(a)

Amounts(W) == [e \in W |-> e[3]]

\* What holds until a call writes over what it had not read.
Untorn ==
  /\ points.xp = SumFunctionOnSet(gain, earned) /\ points.vp = SumFunctionOnSet(Amounts(wrote), wrote)
  /\ TierTrue(points) /\ \A a \in XpAwards : TierTrue(basis[a])
  /\ \A a \in XpAwards : reached[a] <= points.level
  /\ \A a, b \in XpAwards : reached[a] = reached[b] => a = b \/ reached[a] = 0

LevelsInv ==
  /\ LevelTypes /\ WrittenOnce
  /\ LevelTrue(points) /\ \A a \in XpAwards : LevelTrue(basis[a])
  /\ torn \/ Untorn

LEMMA LevelsHold == L!LevelsAssumption
BY LevelsAssumed

LEMMA LevelConstants ==
  /\ IsFiniteSet(XpAwards) /\ Claims \subseteq XpAwards /\ VpOnly \subseteq XpAwards \ Claims
  /\ Xp \in [XpAwards -> Nat] /\ Vp \in [XpAwards -> Nat] /\ \A a \in VpOnly : Vp[a] > 0
  /\ Boosts \subseteq Nat \ {0} /\ PerLevel \in Nat \ {0} /\ LevelBonus \in Nat \ {0}
  /\ Requirement \in Seq(Nat \ {0})
BY LevelsHold DEF L!LevelsAssumption, L!IsFiniteSet, IsFiniteSet

LEMMA SameSum == \A f, Z : L!SumFunctionOnSet(f, Z) = SumFunctionOnSet(f, Z)
<1> SUFFICES ASSUME NEW f, NEW Z PROVE L!SumFunctionOnSet(f, Z) = SumFunctionOnSet(f, Z)
  OBVIOUS
<1>1. L!SumFunctionOnSet(f, Z) =
        (CHOOSE g : g = [T \in SUBSET Z |-> IF T = {} THEN 0 ELSE f[Pick(T)] + g[T \ {Pick(T)}]])[Z]
  BY DEF L!SumFunctionOnSet, L!FoldFunctionOnSet, L!MapThenFoldSet, Pick
<1> QED BY <1>1, SumIsFold

\* The square root of getLevelFromXp exists, and does not fall.
LEMMA RootExists ==
  ASSUME NEW x \in Nat
  PROVE  \E n \in 0..x : PerLevel * n * n <= x /\ x < PerLevel * (n + 1) * (n + 1)
<1> DEFINE N == {n \in Nat : x < PerLevel * (n + 1) * (n + 1)}
<1>1. PerLevel \in Nat /\ PerLevel >= 1
  BY LevelConstants
<1>2. x \in N
  <2>1. PICK p \in Nat : p = PerLevel * (x + 1) /\ p >= x + 1
    BY <1>1
  <2>2. p * (x + 1) = p * x + p /\ p * x \in Nat
    BY <2>1
  <2>3. x < p * (x + 1)
    BY <2>1, <2>2
  <2> QED BY <2>1, <2>3
<1>3. PICK n \in N : \A m \in N : n <= m
  <2> N \in SUBSET Nat
    OBVIOUS
  <2> HIDE DEF N
  <2> QED BY <1>2, Least
<1>4. n \in Nat /\ x < PerLevel * (n + 1) * (n + 1)
  OBVIOUS
<1>5. PerLevel * n * n <= x
  <2>1. CASE n = 0
    BY <1>1, <2>1
  <2>2. CASE n # 0
    <3>1. PICK m \in Nat : m + 1 = n
      BY <1>4, <2>2
    <3>2. m \notin N
      BY <1>3, <1>4, <3>1
    <3>3. ~(x < PerLevel * (m + 1) * (m + 1))
      BY <3>2
    <3>4. PICK q \in Nat : q = PerLevel * n * n
      BY <1>1, <1>4
    <3> QED BY <3>1, <3>3, <3>4
  <2> QED BY <2>1, <2>2
<1>6. n <= x
  <2>1. PICK p \in Nat : p = PerLevel * n /\ p >= n
    BY <1>1, <1>4
  <2>2. n = 0 \/ (n >= 1 /\ p * n >= p)
    BY <1>4, <2>1
  <2>3. p * n <= x
    BY <1>5, <2>1
  <2>4. p * n \in Nat
    BY <1>4, <2>1
  <2> QED BY <1>4, <2>1, <2>2, <2>3, <2>4
<1> HIDE DEF N
<1> QED BY <1>4, <1>5, <1>6

LEMMA LevelRoot ==
  ASSUME NEW x \in Nat
  PROVE  \E n \in Nat : /\ L!Level(x) = 1 + n
                        /\ PerLevel * n * n <= x /\ x < PerLevel * (n + 1) * (n + 1)
<1>1. PICK m : m = CHOOSE n \in 0..x : PerLevel * n * n <= x /\ x < PerLevel * (n + 1) * (n + 1)
  OBVIOUS
<1>2. m \in 0..x /\ PerLevel * m * m <= x /\ x < PerLevel * (m + 1) * (m + 1)
  BY <1>1, RootExists, Zenon
<1>3. L!Level(x) = 1 + m
  BY <1>1, Zenon DEF L!Level
<1> QED BY <1>2, <1>3

LEMMA LevelGrows ==
  ASSUME NEW x \in Nat, NEW y \in Nat, x <= y
  PROVE  L!Level(x) \in Nat \ {0} /\ L!Level(y) \in Nat \ {0} /\ L!Level(x) <= L!Level(y)
<1>1. PICK m \in Nat : L!Level(x) = 1 + m /\ PerLevel * m * m <= x
  BY LevelRoot
<1>2. PICK n \in Nat : L!Level(y) = 1 + n /\ y < PerLevel * (n + 1) * (n + 1)
  BY LevelRoot
<1>3. PICK p \in Nat \ {0} : p = PerLevel
  BY LevelConstants
<1>4. m < n + 1
  <2> SUFFICES ASSUME m >= n + 1 PROVE FALSE
    BY <1>1, <1>2
  <2>1. p * m >= p * (n + 1) /\ p * m \in Nat /\ p * (n + 1) \in Nat
    BY <1>3
  <2>2. PICK u, v \in Nat : u = p * m /\ v = p * (n + 1) /\ u >= v
    BY <2>1
  <2>3. u * m >= v * m /\ v * m >= v * (n + 1) /\ u * m \in Nat /\ v * m \in Nat /\ v * (n + 1) \in Nat
    BY <2>2
  <2>4. u * m <= x /\ y < v * (n + 1)
    BY <1>1, <1>2, <1>3, <2>2
  <2> QED BY <2>3, <2>4
<1> QED BY <1>1, <1>2, <1>4

LEMMA LevelOfNone == L!Level(0) = 1
<1>1. PICK n \in Nat : L!Level(0) = 1 + n /\ PerLevel * n * n <= 0
  BY LevelRoot
<1>2. PICK p \in Nat \ {0} : p = PerLevel
  BY LevelConstants
<1>3. n = 0
  <2> SUFFICES ASSUME n >= 1 PROVE FALSE
    OBVIOUS
  <2>1. p * n >= 1 /\ p * n \in Nat
    BY <1>2
  <2>2. PICK u \in Nat : u = p * n /\ u >= 1
    BY <2>1
  <2>3. u * n >= 1
    BY <2>2
  <2> QED BY <1>1, <1>2, <2>2, <2>3
<1> QED BY <1>1, <1>3

\* The tiers whose requirement is met.
Met(v) == {0} \cup {t \in DOMAIN Requirement : Requirement[t] <= v}

LEMMA TierMet ==
  ASSUME NEW v \in Nat
  PROVE  L!Tier(v) \in Met(v) /\ \A t \in Met(v) : t <= L!Tier(v)
<1>1. PICK n \in Nat : DOMAIN Requirement = 1..n
  BY LevelConstants
<1>2. Met(v) \subseteq 0..n /\ 0 \in Met(v)
  BY <1>1 DEF Met
<1>3. \E x \in Met(v) : \A y \in Met(v) : x >= y
  <2> DEFINE N == {i \in Nat : n - i \in Met(v)}
  <2>1. n \in N
    BY <1>2
  <2>2. PICK i \in N : \A j \in N : i <= j
    <3> N \in SUBSET Nat
      OBVIOUS
    <3> HIDE DEF N
    <3> QED BY <2>1, Least
  <2>3. ASSUME NEW t \in Met(v) PROVE t <= n - i
    <3>1. t \in 0..n /\ n - t \in Nat /\ n - (n - t) = t
      BY <1>2
    <3>2. i <= n - t
      BY <2>2, <3>1
    <3> QED BY <2>2, <3>1, <3>2
  <2>4. n - i \in Met(v) /\ \A y \in Met(v) : n - i >= y
    <3>1. \A y \in Met(v) : y <= n - i /\ y \in Nat
      BY <1>2, <2>3
    <3> QED BY <2>2, <3>1
  <2> QED BY <2>4
<1>4. L!Tier(v) = CHOOSE x \in Met(v) : \A y \in Met(v) : x >= y
  BY DEF L!Tier, L!Max, Met
<1>5. L!Tier(v) \in Met(v) /\ \A y \in Met(v) : L!Tier(v) >= y
  BY <1>3, <1>4, Zenon
<1>6. \A y \in Met(v) : y \in Nat
  BY <1>2
<1> QED BY <1>5, <1>6

\* Who reaches no tier with more, has none with less.
LEMMA TierGrows ==
  ASSUME NEW v \in Nat, NEW w \in Nat, v <= w
  PROVE  /\ L!Tier(v) \in {0} \cup DOMAIN Requirement
         /\ L!Tier(w) = 0 => L!Tier(v) = 0
<1>1. \A t \in DOMAIN Requirement : t \in Nat /\ t > 0 /\ Requirement[t] \in Nat
  BY LevelConstants
<1>2. L!Tier(v) \in Met(v) /\ \A t \in Met(w) : t <= L!Tier(w)
  BY TierMet
<1>3. L!Tier(v) \in Met(w)
  BY <1>1, <1>2 DEF Met
<1>4. L!Tier(v) <= L!Tier(w) /\ (L!Tier(v) = 0 \/ L!Tier(v) > 0) /\ L!Tier(v) \in Nat
  BY <1>1, <1>2, <1>3 DEF Met
<1> QED BY <1>2, <1>4 DEF Met

LEMMA TierOfNone == L!Tier(0) = 0
<1>1. \A t \in DOMAIN Requirement : Requirement[t] \in Nat \ {0}
  BY LevelConstants
<1>2. Met(0) = {0}
  BY <1>1 DEF Met
<1> QED BY <1>2, TierMet

\* What an award of XP or of VP makes of a row.
LEMMA XpRow ==
  ASSUME NEW row \in UserRow, NEW n \in Nat
  PROVE  LET after == L!WithXp(row, n)
         IN  /\ after \in UserRow /\ after.xp = row.xp + n /\ after.level = L!Level(row.xp + n)
             /\ after.vp = row.vp /\ after.tier = row.tier
<1>1. row.xp \in Nat /\ row.xp + n \in Nat
  BY DEF UserRow
<1>2. PICK l \in Nat \ {0} : l = L!Level(row.xp + n)
  BY <1>1, LevelGrows
<1>3. PICK m \in Nat : m = row.xp + n
  BY <1>1
<1>4. PICK a \in UserRow : /\ a = [row EXCEPT !.xp = m] /\ a.xp = m /\ a.vp = row.vp
                           /\ a.tier = row.tier
  <2>1. [row EXCEPT !.xp = m] \in UserRow
    BY DEF UserRow
  <2> QED BY <2>1 DEF UserRow
<1>5. PICK b \in UserRow : /\ b = [a EXCEPT !.level = l] /\ b.xp = m /\ b.vp = row.vp
                           /\ b.tier = row.tier /\ b.level = l
  <2>1. [a EXCEPT !.level = l] \in UserRow
    BY DEF UserRow
  <2> QED BY <1>4, <2>1 DEF UserRow
<1>6. [row EXCEPT !.xp = m, !.level = l] = b
  BY <1>4, <1>5
<1>7. L!WithXp(row, n) = b
  BY <1>2, <1>3, <1>6, Zenon DEF L!WithXp
<1> QED BY <1>2, <1>3, <1>5, <1>7

LEMMA VpRow ==
  ASSUME NEW row \in UserRow, NEW n \in Nat
  PROVE  LET after == L!WithVp(row, n)
         IN  /\ after \in UserRow /\ after.xp = row.xp /\ after.level = row.level
             /\ after.vp = row.vp + n
             /\ TierTrue(row) => TierTrue(after)
<1>1. row.vp \in Nat /\ row.vp + n \in Nat /\ row.vp <= row.vp + n
  BY DEF UserRow
<1>2. CASE n = 0
  BY <1>1, <1>2 DEF L!WithVp
<1>3. CASE n # 0
  <2>1. PICK m \in Nat : m = row.vp + n
    BY <1>1
  <2>2. PICK t \in {0} \cup DOMAIN Requirement : t = IF L!Tier(m) = 0 THEN row.tier ELSE L!Tier(m)
    <3>1. L!Tier(m) \in {0} \cup DOMAIN Requirement
      BY TierGrows
    <3>2. row.tier \in {0} \cup DOMAIN Requirement
      BY DEF UserRow
    <3> QED BY <3>1, <3>2
  <2>3. PICK a \in UserRow : /\ a = [row EXCEPT !.vp = m] /\ a.vp = m /\ a.xp = row.xp
                             /\ a.level = row.level /\ a.tier = row.tier
    <3>1. [row EXCEPT !.vp = m] \in UserRow
      BY DEF UserRow
    <3> QED BY <3>1 DEF UserRow
  <2>4. PICK b \in UserRow : /\ b = [a EXCEPT !.tier = t] /\ b.vp = m /\ b.xp = row.xp
                             /\ b.level = row.level /\ b.tier = t
    <3>1. [a EXCEPT !.tier = t] \in UserRow
      BY DEF UserRow
    <3> QED BY <2>3, <3>1 DEF UserRow
  <2>5. [row EXCEPT !.vp = m, !.tier = t] = b
    BY <2>3, <2>4
  <2>6. L!WithVp(row, n) = b
    <3>1. L!WithVp(row, n) = [row EXCEPT !.vp = m, !.tier = IF L!Tier(m) = 0 THEN row.tier ELSE L!Tier(m)]
      BY <1>3, <2>1 DEF L!WithVp
    <3> QED BY <2>2, <2>5, <3>1, Zenon
  <2>7. ASSUME TierTrue(row) PROVE TierTrue(b)
    <3>1. L!Tier(m) = 0 => L!Tier(row.vp) = 0
      BY <1>1, <2>1, TierGrows
    <3> QED BY <2>2, <2>4, <2>7, <3>1 DEF TierTrue
  <2> QED BY <2>1, <2>4, <2>6, <2>7
<1> QED BY <1>2, <1>3

\* One award of VP more.
AwardEvents == XpAwards \X {"level_up", "own"} \X Nat

LEMMA OneMoreAward ==
  ASSUME NEW W \in SUBSET AwardEvents, IsFiniteSet(W), NEW e \in AwardEvents, e \notin W
  PROVE  SumFunctionOnSet(Amounts(W \cup {e}), W \cup {e}) = SumFunctionOnSet(Amounts(W), W) + e[3]
<1> DEFINE X == W \cup {e}
           f == Amounts(X)
           g == Amounts(W)
<1>1. \A x \in X : f[x] = x[3] /\ f[x] \in Int
  BY DEF Amounts, AwardEvents
<1>2. \A x \in W : f[x] = g[x]
  BY <1>1 DEF Amounts
<1>3. SumFunctionOnSet(f, W) = SumFunctionOnSet(g, W)
  <2> HIDE DEF f, g
  <2> QED BY <1>2, SumSame
<1>4. SumFunctionOnSet(f, W \cup {e}) = SumFunctionOnSet(f, W) + f[e]
  <2>1. \A x \in W \cup {e} : f[x] \in Int
    BY <1>1
  <2> HIDE DEF f, g, X
  <2> QED BY <2>1, SumAdd
<1> QED BY <1>1, <1>3, <1>4

-----------------------------------------------------------------------------
(* The statements of awards.                                                 *)

LEMMA LevelsInit == L!Init => LevelsInv
<1> SUFFICES ASSUME L!Init PROVE LevelsInv
  OBVIOUS
<1>1. points \in UserRow /\ points.xp = 0 /\ points.level = 1 /\ points.vp = 0 /\ points.tier = 0
  BY DEF L!Init, UserRow
<1>2. LevelTypes
  <2>1. IsFiniteSet(wrote)
    BY FS_EmptySet DEF L!Init
  <2>2. statement \in [XpAwards -> AwardStages]
    BY DEF L!Init, AwardStages
  <2> QED BY <1>1, <2>1, <2>2 DEF L!Init, LevelTypes
<1>3. WrittenOnce
  BY LevelConstants DEF L!Init, WrittenOnce, OnceAt
<1>4. LevelTrue(points) /\ TierTrue(points)
  BY <1>1, LevelOfNone, TierOfNone DEF LevelTrue, TierTrue
<1>5. \A a \in XpAwards : LevelTrue(basis[a]) /\ TierTrue(basis[a])
  BY <1>4 DEF L!Init
<1>6. SumFunctionOnSet(gain, earned) = 0 /\ SumFunctionOnSet(Amounts(wrote), wrote) = 0
  BY SumEmpty DEF L!Init
<1>7. Untorn
  BY <1>1, <1>4, <1>5, <1>6 DEF L!Init, Untorn
<1> QED BY <1>2, <1>3, <1>4, <1>5, <1>7 DEF LevelsInv

\* The other calls stay where they are.
LEMMA OthersOnce ==
  ASSUME WrittenOnce, NEW a \in XpAwards,
         \A b \in XpAwards \ {a} :
           /\ statement'[b] = statement[b] /\ reached'[b] = reached[b] /\ (b \in earned' <=> b \in earned)
           /\ \A e : e[1] = b => (e \in wrote' <=> e \in wrote) /\ (e \in vpEvents' <=> e \in vpEvents)
  PROVE  \A b \in XpAwards \ {a} : OnceAt(b)'
<1> SUFFICES ASSUME NEW b \in XpAwards \ {a} PROVE OnceAt(b)'
  OBVIOUS
<1>1. L!Purpose(b)' = L!Purpose(b) /\ L!Purpose(b)[1] = b
  BY DEF L!Purpose
<1>2. PICK p : p = L!Purpose(b) /\ p = L!Purpose(b)' /\ p[1] = b
  BY <1>1
<1>3. OnceAt(b)
  BY DEF WrittenOnce
<1> QED BY <1>2, <1>3 DEF OnceAt

\* A step that changes neither the row nor what was written.
LEMMA RowStays ==
  ASSUME LevelsInv, UNCHANGED <<points, reached, earned, wrote, torn>>,
         NEW a \in XpAwards, basis' = basis \/ basis' = [basis EXCEPT ![a] = points],
         NEW g \in Nat, gain' = gain \/ (a \notin earned /\ gain' = [gain EXCEPT ![a] = g]),
         xpEvents' \subseteq XpAwards \X Nat, vpEvents' \subseteq wrote,
         statement' \in [XpAwards -> AwardStages], WrittenOnce'
  PROVE  LevelsInv'
<1>1. LevelTypes'
  BY DEF LevelsInv, LevelTypes
<1>2. \A b \in XpAwards : basis'[b] \in {basis[b], points}
  BY DEF LevelsInv, LevelTypes
<1>3. LevelTrue(points)' /\ \A b \in XpAwards : LevelTrue(basis[b])'
  <2>1. \A b \in XpAwards : LevelTrue(basis'[b])
    BY <1>2 DEF LevelsInv
  <2> QED BY <2>1 DEF LevelsInv, LevelTrue
<1>4. ASSUME ~torn PROVE Untorn'
  <2>1. Untorn
    BY <1>4 DEF LevelsInv
  <2>2. \A b \in XpAwards : TierTrue(basis'[b])
    BY <1>2, <2>1 DEF Untorn
  <2>3. SumFunctionOnSet(gain', earned) = SumFunctionOnSet(gain, earned)
    <3>1. IsFiniteSet(earned)
      BY LevelConstants, FS_Subset DEF LevelsInv, LevelTypes
    <3>2. \A b \in earned : gain'[b] = gain[b]
      BY DEF LevelsInv, LevelTypes
    <3> QED BY <3>1, <3>2, SumSame
  <2>4. points'.xp = SumFunctionOnSet(gain', earned') /\ points'.vp = SumFunctionOnSet(Amounts(wrote'), wrote')
    BY <2>1, <2>3 DEF Untorn
  <2>5. TierTrue(points')
    BY <2>1 DEF Untorn
  <2>6. \A b \in XpAwards : reached'[b] <= points'.level
    BY <2>1 DEF Untorn
  <2>7. \A b, c \in XpAwards : reached'[b] = reached'[c] => b = c \/ reached'[b] = 0
    BY <2>1 DEF Untorn
  <2> QED BY <2>2, <2>4, <2>5, <2>6, <2>7 DEF Untorn, TierTrue, Amounts
<1> QED BY <1>1, <1>3, <1>4 DEF LevelsInv

LEMMA ReadXpStep ==
  ASSUME LevelsInv, NEW a \in XpAwards, L!ReadXp(a)
  PROVE  LevelsInv'
<1>1. /\ statement[a] = "new" /\ statement' = [statement EXCEPT ![a] = "writeXp"]
      /\ basis' = [basis EXCEPT ![a] = points]
      /\ UNCHANGED <<points, xpEvents, vpEvents, reached, earned, wrote, torn>>
  BY DEF L!ReadXp, L!Move, L!tables, L!history
<1>2. PICK boost \in Boosts : gain' = [gain EXCEPT ![a] = boost * Xp[a]]
  BY DEF L!ReadXp
<1>3. PICK g \in Nat : g = boost * Xp[a]
  BY LevelConstants
<1>4. /\ statement' \in [XpAwards -> AwardStages] /\ statement'[a] = "writeXp"
      /\ \A b \in XpAwards \ {a} : statement'[b] = statement[b]
      /\ xpEvents' \subseteq XpAwards \X Nat /\ vpEvents' \subseteq wrote
  BY <1>1 DEF LevelsInv, LevelTypes, AwardStages
<1>5. a \notin earned
  BY <1>1 DEF LevelsInv, WrittenOnce, OnceAt
<1>6. WrittenOnce'
  <2>1. \A b \in XpAwards \ {a} : OnceAt(b)'
    BY <1>1, <1>4, OthersOnce DEF LevelsInv
  <2>2. OnceAt(a)'
    BY <1>1, <1>4 DEF LevelsInv, WrittenOnce, OnceAt
  <2> QED BY <2>1, <2>2 DEF WrittenOnce
<1> QED BY <1>1, <1>2, <1>3, <1>4, <1>5, <1>6, RowStays

LEMMA LogXpStep ==
  ASSUME LevelsInv, NEW a \in XpAwards, L!LogXp(a)
  PROVE  LevelsInv'
<1>1. PICK to \in {"readBonus", "readVp", "done"} :
        /\ to = IF reached[a] > 0 THEN "readBonus" ELSE IF Vp[a] > 0 THEN "readVp" ELSE "done"
        /\ statement[a] = "logXp" /\ statement' = [statement EXCEPT ![a] = to]
  BY DEF L!LogXp, L!Move, L!AfterXp
<1>2. /\ UNCHANGED <<points, vpEvents, basis, gain, reached, earned, wrote, torn>>
      /\ xpEvents' = xpEvents \cup {<<a, Xp[a]>>}
  BY DEF L!LogXp, L!history
<1>3. /\ statement' \in [XpAwards -> AwardStages] /\ statement'[a] = to
      /\ \A b \in XpAwards \ {a} : statement'[b] = statement[b]
      /\ xpEvents' \subseteq XpAwards \X Nat /\ vpEvents' \subseteq wrote
  <2>1. xpEvents' \subseteq XpAwards \X Nat
    <3>1. Xp[a] \in Nat
      BY LevelConstants
    <3> QED BY <1>2, <3>1 DEF LevelsInv, LevelTypes
  <2> QED BY <1>1, <1>2, <2>1 DEF LevelsInv, LevelTypes, AwardStages
<1>4. WrittenOnce'
  <2>1. \A b \in XpAwards \ {a} : OnceAt(b)'
    BY <1>2, <1>3, OthersOnce DEF LevelsInv
  <2>2. OnceAt(a)'
    BY <1>1, <1>2, <1>3 DEF LevelsInv, WrittenOnce, OnceAt
  <2> QED BY <2>1, <2>2 DEF WrittenOnce
<1> QED BY <1>2, <1>3, <1>4, RowStays

LEMMA ReadVpStep ==
  ASSUME LevelsInv, NEW a \in XpAwards, L!ReadVp(a)
  PROVE  LevelsInv'
<1>1. PICK to \in {"writeBonus", "writeVp"} :
        /\ statement[a] = IF to = "writeBonus" THEN "readBonus" ELSE "readVp"
        /\ statement' = [statement EXCEPT ![a] = to]
  BY DEF L!ReadVp, L!Move
<1>2. /\ UNCHANGED <<points, xpEvents, vpEvents, gain, reached, earned, wrote, torn>>
      /\ basis' = [basis EXCEPT ![a] = points]
  BY DEF L!ReadVp, L!history, L!tables
<1>3. /\ statement' \in [XpAwards -> AwardStages] /\ statement'[a] = to
      /\ \A b \in XpAwards \ {a} : statement'[b] = statement[b]
      /\ xpEvents' \subseteq XpAwards \X Nat /\ vpEvents' \subseteq wrote
  BY <1>1, <1>2 DEF LevelsInv, LevelTypes, AwardStages
<1>4. WrittenOnce'
  <2>1. \A b \in XpAwards \ {a} : OnceAt(b)'
    BY <1>2, <1>3, OthersOnce DEF LevelsInv
  <2>2. OnceAt(a)'
    BY <1>1, <1>2, <1>3 DEF LevelsInv, WrittenOnce, OnceAt
  <2> QED BY <2>1, <2>2 DEF WrittenOnce
<1> QED BY <1>2, <1>3, <1>4, RowStays

LEMMA LogVpStep ==
  ASSUME LevelsInv, NEW a \in XpAwards, L!LogVp(a)
  PROVE  LevelsInv'
<1>1. PICK to \in {"readVp", "done"} :
        /\ \/ statement[a] = "logBonus"
           \/ statement[a] = "logVp" /\ to = "done"
        /\ statement' = [statement EXCEPT ![a] = to]
  BY DEF L!LogVp, L!Move, L!AfterXp
<1>2. PICK p : /\ p = L!Purpose(a) /\ p[1] = a
               /\ vpEvents' = vpEvents \cup {p}
  <2>1. L!Purpose(a)[1] = a
    BY DEF L!Purpose
  <2>2. vpEvents' = vpEvents \cup {L!Purpose(a)}
    BY DEF L!LogVp
  <2> QED BY <2>1, <2>2
<1>3. UNCHANGED <<points, xpEvents, basis, gain, reached, earned, wrote, torn>>
  BY DEF L!LogVp, L!history
<1>4. p \in wrote
  BY <1>1, <1>2 DEF LevelsInv, WrittenOnce, OnceAt
<1>5. /\ statement' \in [XpAwards -> AwardStages] /\ statement'[a] = to
      /\ \A b \in XpAwards \ {a} : statement'[b] = statement[b]
      /\ xpEvents' \subseteq XpAwards \X Nat /\ vpEvents' \subseteq wrote
  BY <1>1, <1>2, <1>3, <1>4 DEF LevelsInv, LevelTypes, AwardStages
<1>6. WrittenOnce'
  <2>1. \A b \in XpAwards \ {a} : OnceAt(b)'
    BY <1>2, <1>3, <1>5, OthersOnce DEF LevelsInv
  <2>2. OnceAt(a)'
    BY <1>1, <1>2, <1>3, <1>5 DEF LevelsInv, WrittenOnce, OnceAt
  <2> QED BY <2>1, <2>2 DEF WrittenOnce
<1>7. gain' = gain /\ basis' = basis
  BY <1>3
<1> QED BY <1>3, <1>5, <1>6, <1>7, RowStays

LEMMA XpAdded ==
  ASSUME LevelTypes, NEW a \in XpAwards, a \notin earned, NEW g \in [XpAwards -> Nat],
         \A b \in XpAwards \ {a} : g[b] = gain[b]
  PROVE  SumFunctionOnSet(g, earned \cup {a}) = SumFunctionOnSet(gain, earned) + g[a]
<1>1. IsFiniteSet(earned) /\ earned \subseteq XpAwards
  BY LevelConstants, FS_Subset DEF LevelTypes
<1>2. SumFunctionOnSet(g, earned) = SumFunctionOnSet(gain, earned)
  <2>1. \A b \in earned : g[b] = gain[b]
    BY <1>1
  <2> QED BY <1>1, <2>1, SumSame
<1>3. SumFunctionOnSet(g, earned \cup {a}) = SumFunctionOnSet(g, earned) + g[a]
  <2>1. \A b \in earned \cup {a} : g[b] \in Int
    BY <1>1
  <2> QED BY <1>1, <2>1, SumAdd
<1> QED BY <1>2, <1>3

\* A level that was reached is above those reached before; it is not lost.
LEMMA LevelReached ==
  ASSUME LevelTypes, Untorn, NEW a \in XpAwards, LevelTrue(points),
         NEW n \in Nat, NEW l, l = L!Level(points.xp + n), points'.level = l,
         reached' = [reached EXCEPT ![a] = IF l > points.level THEN l ELSE 0]
  PROVE  /\ \A b \in XpAwards : reached'[b] <= points'.level
         /\ \A b, c \in XpAwards : reached'[b] = reached'[c] => b = c \/ reached'[b] = 0
<1>1. points.xp \in Nat /\ points.xp + n \in Nat /\ points.xp <= points.xp + n
  BY DEF LevelTypes, UserRow
<1>2. l \in Nat \ {0} /\ points.level \in Nat /\ points.level <= l
  <2>1. L!Level(points.xp) <= L!Level(points.xp + n) /\ L!Level(points.xp) \in Nat
        /\ L!Level(points.xp + n) \in Nat \ {0}
    BY <1>1, LevelGrows
  <2> QED BY <2>1 DEF LevelTrue
<1>3. PICK new \in Nat : new = (IF l > points.level THEN l ELSE 0)
  BY <1>2
<1>4. reached'[a] = new /\ \A b \in XpAwards \ {a} : reached'[b] = reached[b]
  BY <1>3 DEF LevelTypes
<1>5. \A b \in XpAwards : reached[b] \in Nat /\ reached[b] <= points.level
  BY DEF LevelTypes, Untorn
<1>6. \A b \in XpAwards : reached'[b] <= l
  <2>1. new <= l
    BY <1>2, <1>3
  <2>2. \A b \in XpAwards \ {a} : reached'[b] <= l
    BY <1>2, <1>4, <1>5
  <2> QED BY <1>4, <2>1, <2>2
<1>7. ASSUME NEW b \in XpAwards, NEW c \in XpAwards, reached'[b] = reached'[c], b # c
      PROVE  reached'[b] = 0
  <2>1. CASE b # a /\ c # a
    BY <1>4, <1>7, <2>1 DEF Untorn
  <2>2. CASE b = a \/ c = a
    <3>1. PICK d \in XpAwards : reached[d] = new
      BY <1>4, <1>7, <2>2
    <3>2. new = 0 \/ new > points.level
      BY <1>3
    <3>3. new = 0
      BY <1>2, <1>5, <3>1, <3>2
    <3> QED BY <1>4, <1>7, <2>2, <3>3
  <2> QED BY <2>1, <2>2
<1> QED BY <1>6, <1>7

LEMMA WriteXpStep ==
  ASSUME LevelsInv, NEW a \in XpAwards, L!WriteXp(a)
  PROVE  LevelsInv'
<1>1. PICK row \in UserRow : row = basis[a] /\ LevelTrue(row)
  BY DEF LevelsInv, LevelTypes
<1>2. PICK n \in Nat : n = gain[a]
  BY DEF LevelsInv, LevelTypes
<1>3. PICK after \in UserRow : /\ after = L!WithXp(row, n) /\ after.xp = row.xp + n
                               /\ after.level = L!Level(row.xp + n)
  BY XpRow
<1>4. PICK up \in Nat : up = IF after.level > row.level THEN after.level ELSE 0
  BY DEF UserRow
<1>5. /\ statement[a] = "writeXp" /\ statement' = [statement EXCEPT ![a] = "logXp"]
      /\ points' = [points EXCEPT !.xp = after.xp, !.level = after.level]
      /\ reached' = [reached EXCEPT ![a] = IF after.level > row.level THEN after.level ELSE 0]
      /\ earned' = earned \cup {a} /\ torn' = (torn \/ points.xp # row.xp)
      /\ UNCHANGED <<xpEvents, vpEvents, basis, gain, wrote>>
  BY <1>1, <1>2, <1>3 DEF L!WriteXp, L!Move, L!LeveledUp
<1>6. /\ points' \in UserRow /\ points'.xp = after.xp /\ points'.level = after.level
      /\ points'.vp = points.vp /\ points'.tier = points.tier
  <2>1. points \in UserRow /\ after.xp \in Nat /\ after.level \in Nat \ {0}
    BY DEF LevelsInv, LevelTypes, UserRow
  <2>2. PICK b \in UserRow : /\ b = [points EXCEPT !.xp = after.xp] /\ b.xp = after.xp
                             /\ b.vp = points.vp /\ b.tier = points.tier
    <3>1. [points EXCEPT !.xp = after.xp] \in UserRow
      BY <2>1 DEF UserRow
    <3> QED BY <2>1, <3>1 DEF UserRow
  <2>3. PICK c \in UserRow : /\ c = [b EXCEPT !.level = after.level] /\ c.xp = after.xp
                             /\ c.level = after.level /\ c.vp = points.vp /\ c.tier = points.tier
    <3>1. [b EXCEPT !.level = after.level] \in UserRow
      BY <2>1 DEF UserRow
    <3> QED BY <2>1, <2>2, <3>1 DEF UserRow
  <2>4. points' = c
    BY <1>5, <2>2, <2>3
  <2> QED BY <2>3, <2>4
<1>7. /\ statement' \in [XpAwards -> AwardStages] /\ statement'[a] = "logXp"
      /\ \A b \in XpAwards \ {a} : statement'[b] = statement[b] /\ reached'[b] = reached[b]
      /\ reached' \in [XpAwards -> Nat]
  BY <1>4, <1>5 DEF LevelsInv, LevelTypes, AwardStages
<1>8. LevelTypes'
  <2>1. torn' \in BOOLEAN
    BY <1>5
  <2> QED BY <1>5, <1>6, <1>7, <2>1 DEF LevelsInv, LevelTypes
<1>9. WrittenOnce'
  <2>1. \A b \in XpAwards \ {a} : OnceAt(b)'
    BY <1>5, <1>7, OthersOnce DEF LevelsInv
  <2>2. OnceAt(a)'
    BY <1>5, <1>7 DEF LevelsInv, WrittenOnce, OnceAt
  <2> QED BY <2>1, <2>2 DEF WrittenOnce
<1>10. LevelTrue(points)' /\ \A b \in XpAwards : LevelTrue(basis[b])'
  <2>1. LevelTrue(points')
    BY <1>3, <1>6 DEF LevelTrue
  <2> QED BY <1>5, <2>1 DEF LevelsInv, LevelTrue
<1>11. ASSUME ~torn' PROVE Untorn'
  <2>1. Untorn /\ row.xp = points.xp /\ LevelTypes /\ LevelTrue(points)
    BY <1>5, <1>11 DEF LevelsInv
  <2>2. row.level = points.level
    BY <1>1, <2>1 DEF LevelTrue
  <2>3. a \notin earned
    BY <1>5 DEF LevelsInv, WrittenOnce, OnceAt
  <2>4. SumFunctionOnSet(gain, earned \cup {a}) = SumFunctionOnSet(gain, earned) + gain[a]
    BY <2>1, <2>3, XpAdded DEF LevelTypes
  <2>5. points'.xp = SumFunctionOnSet(gain', earned')
    BY <1>2, <1>3, <1>5, <1>6, <2>1, <2>4 DEF Untorn
  <2>6. points'.vp = SumFunctionOnSet(Amounts(wrote'), wrote')
    BY <1>5, <1>6, <2>1 DEF Untorn
  <2>7. TierTrue(points') /\ \A b \in XpAwards : TierTrue(basis'[b])
    BY <1>5, <1>6, <2>1 DEF Untorn, TierTrue
  <2>8. /\ \A b \in XpAwards : reached'[b] <= points'.level
        /\ \A b, c \in XpAwards : reached'[b] = reached'[c] => b = c \/ reached'[b] = 0
    <3>1. PICK l : l = L!Level(points.xp + n) /\ l = after.level
      BY <1>3, <2>1
    <3>2. points'.level = l /\ reached' = [reached EXCEPT ![a] = IF l > points.level THEN l ELSE 0]
      BY <1>5, <1>6, <2>2, <3>1
    <3> QED BY <2>1, <3>1, <3>2, LevelReached
  <2> QED BY <2>5, <2>6, <2>7, <2>8 DEF Untorn, TierTrue, Amounts
<1> QED BY <1>8, <1>9, <1>10, <1>11 DEF LevelsInv

LEMMA WriteVpStep ==
  ASSUME LevelsInv, NEW a \in XpAwards, L!WriteVp(a)
  PROVE  LevelsInv'
<1>1. PICK row \in UserRow : row = basis[a]
  BY DEF LevelsInv, LevelTypes
<1>2. PICK to \in {"logBonus", "logVp"} :
        /\ statement[a] = IF to = "logBonus" THEN "writeBonus" ELSE "writeVp"
        /\ statement' = [statement EXCEPT ![a] = to]
  BY DEF L!WriteVp, L!Move
<1>3. PICK n \in Nat : n = IF to = "logBonus" THEN L!Bonus(reached[a]) ELSE Vp[a]
  <2>1. reached[a] \in Nat /\ Vp[a] \in Nat
    BY LevelConstants DEF LevelsInv, LevelTypes
  <2>2. LevelBonus * reached[a] \in Nat
    BY <2>1, LevelConstants
  <2> QED BY <2>1, <2>2 DEF L!Bonus
<1>4. PICK p \in AwardEvents : /\ p = L!Purpose(a) /\ p[1] = a /\ p[3] = n
                               /\ p[2] = IF to = "logBonus" THEN "level_up" ELSE "own"
  <2>1. L!Purpose(a) = IF to = "logBonus" THEN <<a, "level_up", n>> ELSE <<a, "own", n>>
    BY <1>2, <1>3 DEF L!Purpose
  <2> QED BY <2>1 DEF AwardEvents
<1>5. PICK after \in UserRow : /\ after = L!WithVp(row, n) /\ after.vp = row.vp + n
                               /\ TierTrue(row) => TierTrue(after)
  BY VpRow
<1>6. PICK t \in {0} \cup DOMAIN Requirement : t = IF after.tier = row.tier THEN points.tier ELSE after.tier
  BY DEF UserRow, LevelsInv, LevelTypes
<1>7. /\ points' = [points EXCEPT !.vp = after.vp, !.tier = t]
      /\ wrote' = wrote \cup {p} /\ torn' = (torn \/ points.vp # row.vp)
      /\ UNCHANGED <<xpEvents, vpEvents, basis, gain, reached, earned>>
  BY <1>1, <1>4, <1>5, <1>6 DEF L!WriteVp
<1>8. /\ points' \in UserRow /\ points'.xp = points.xp /\ points'.level = points.level
      /\ points'.vp = after.vp /\ points'.tier = t
  <2>1. points \in UserRow /\ after.vp \in Nat
    BY DEF LevelsInv, LevelTypes, UserRow
  <2>2. PICK b \in UserRow : /\ b = [points EXCEPT !.vp = after.vp] /\ b.vp = after.vp
                             /\ b.xp = points.xp /\ b.level = points.level
    <3>1. [points EXCEPT !.vp = after.vp] \in UserRow
      BY <2>1 DEF UserRow
    <3> QED BY <2>1, <3>1 DEF UserRow
  <2>3. PICK c \in UserRow : /\ c = [b EXCEPT !.tier = t] /\ c.xp = points.xp
                             /\ c.level = points.level /\ c.vp = after.vp /\ c.tier = t
    <3>1. [b EXCEPT !.tier = t] \in UserRow
      BY DEF UserRow
    <3> QED BY <2>1, <2>2, <3>1 DEF UserRow
  <2>4. points' = c
    BY <1>7, <2>2, <2>3
  <2> QED BY <2>3, <2>4
<1>9. /\ statement' \in [XpAwards -> AwardStages] /\ statement'[a] = to
      /\ \A b \in XpAwards \ {a} : statement'[b] = statement[b] /\ reached'[b] = reached[b]
  BY <1>2, <1>7 DEF LevelsInv, LevelTypes, AwardStages
<1>10. p \notin wrote
  BY <1>2, <1>4 DEF LevelsInv, WrittenOnce, OnceAt
<1>11. LevelTypes'
  <2>1. torn' \in BOOLEAN
    BY <1>7
  <2>2. IsFiniteSet(wrote') /\ wrote' \subseteq XpAwards \X {"level_up", "own"} \X Nat /\ vpEvents' \subseteq wrote'
    <3>1. IsFiniteSet(wrote) /\ wrote \subseteq AwardEvents /\ vpEvents \subseteq wrote
      BY DEF LevelsInv, LevelTypes, AwardEvents
    <3>2. IsFiniteSet(wrote')
      BY <1>7, <3>1, FS_AddElement
    <3> QED BY <1>7, <3>1, <3>2 DEF AwardEvents
  <2> QED BY <1>7, <1>8, <1>9, <2>1, <2>2 DEF LevelsInv, LevelTypes
<1>12. WrittenOnce'
  <2>1. \A b \in XpAwards \ {a} : OnceAt(b)'
    BY <1>4, <1>7, <1>9, OthersOnce DEF LevelsInv
  <2>2. L!Purpose(a)' = p
    <3>1. L!Purpose(a) = IF to = "logBonus" THEN <<a, "level_up", n>> ELSE <<a, "own", n>>
      BY <1>2, <1>3 DEF L!Purpose
    <3>2. L!Purpose(a)' = IF to = "logBonus" THEN <<a, "level_up", n>> ELSE <<a, "own", n>>
      BY <1>3, <1>7, <1>9 DEF L!Purpose, L!Bonus
    <3> QED BY <1>4, <3>1, <3>2
  <2>3. PICK q : q = L!Purpose(a)' /\ q = p
    BY <2>2
  <2>4. OnceAt(a)
    BY DEF LevelsInv, WrittenOnce
  <2>5. OnceAt(a)'
    BY <1>2, <1>4, <1>7, <1>9, <2>3, <2>4 DEF OnceAt
  <2> QED BY <2>1, <2>5 DEF WrittenOnce
<1>13. LevelTrue(points)' /\ \A b \in XpAwards : LevelTrue(basis[b])'
  <2>1. LevelTrue(points')
    BY <1>8 DEF LevelTrue, LevelsInv
  <2> QED BY <1>7, <2>1 DEF LevelsInv, LevelTrue
<1>14. ASSUME ~torn' PROVE Untorn'
  <2>1. Untorn /\ row.vp = points.vp /\ LevelTypes
    BY <1>7, <1>14 DEF LevelsInv
  <2>2. TierTrue(row) /\ TierTrue(points) /\ TierTrue(after)
    BY <1>1, <1>5, <2>1 DEF Untorn
  <2>3. points'.xp = SumFunctionOnSet(gain', earned')
    BY <1>7, <1>8, <2>1 DEF Untorn
  <2>4. points'.vp = SumFunctionOnSet(Amounts(wrote'), wrote')
    <3>1. wrote \in SUBSET AwardEvents /\ IsFiniteSet(wrote)
      BY <2>1 DEF LevelTypes, AwardEvents
    <3>2. SumFunctionOnSet(Amounts(wrote \cup {p}), wrote \cup {p}) = SumFunctionOnSet(Amounts(wrote), wrote) + n
      BY <1>4, <1>10, <3>1, OneMoreAward
    <3> QED BY <1>5, <1>7, <1>8, <2>1, <3>2 DEF Untorn
  <2>5. TierTrue(points') /\ \A b \in XpAwards : TierTrue(basis'[b])
    <3>1. points'.tier = after.tier
      BY <1>6, <1>8, <2>1, <2>2 DEF TierTrue
    <3> QED BY <1>7, <1>8, <2>1, <2>2, <3>1 DEF Untorn, TierTrue
  <2>6. /\ \A b \in XpAwards : reached'[b] <= points'.level
        /\ \A b, c \in XpAwards : reached'[b] = reached'[c] => b = c \/ reached'[b] = 0
    BY <1>7, <1>8, <2>1 DEF Untorn
  <2> QED BY <2>3, <2>4, <2>5, <2>6 DEF Untorn, TierTrue, Amounts
<1> QED BY <1>11, <1>12, <1>13, <1>14 DEF LevelsInv

\* A daily claim, in one step: its XP, the bonus of a level it reaches, its VP.
LEMMA ClaimAwardsStep ==
  ASSUME LevelsInv, NEW a \in XpAwards, L!ClaimAwards(a)
  PROVE  LevelsInv'
<1>1. PICK boost \in Boosts :
        LET xp == L!WithXp(points, boost * Xp[a])
            up == L!LeveledUp(points, xp)
            own == IF Vp[a] > 0 THEN {<<a, "own", Vp[a]>>} ELSE {}
            vps == own \cup IF up THEN {<<a, "level_up", L!Bonus(xp.level)>>} ELSE {}
        IN  /\ points' = L!WithVp(L!WithVp(xp, IF up THEN L!Bonus(xp.level) ELSE 0), Vp[a])
            /\ vpEvents' = vpEvents \cup vps /\ wrote' = wrote \cup vps
            /\ gain' = [gain EXCEPT ![a] = boost * Xp[a]]
            /\ reached' = [reached EXCEPT ![a] = IF up THEN xp.level ELSE 0]
  BY DEF L!ClaimAwards
<1>2. /\ statement[a] = "new" /\ statement' = [statement EXCEPT ![a] = "done"]
      /\ xpEvents' = xpEvents \cup {<<a, Xp[a]>>} /\ earned' = earned \cup {a}
      /\ UNCHANGED <<basis, torn>>
  BY DEF L!ClaimAwards, L!Move
<1>3. PICK n \in Nat : n = boost * Xp[a]
  BY LevelConstants
<1>4. points \in UserRow /\ points.level \in Nat /\ points.vp \in Nat
  BY DEF LevelsInv, LevelTypes, UserRow
<1>5. PICK xp \in UserRow : /\ xp = L!WithXp(points, n) /\ xp.xp = points.xp + n
                            /\ xp.level = L!Level(points.xp + n) /\ xp.vp = points.vp
                            /\ xp.tier = points.tier /\ xp.level \in Nat
  <2>1. \A row \in UserRow : row.level \in Nat
    BY DEF UserRow
  <2> QED BY <1>4, <2>1, XpRow
<1>6. PICK bonus \in Nat : bonus = IF xp.level > points.level THEN L!Bonus(xp.level) ELSE 0
  <2>1. LevelBonus * xp.level \in Nat
    BY <1>5, LevelConstants
  <2> QED BY <2>1 DEF L!Bonus
<1>7. PICK v \in Nat : v = Vp[a]
  BY LevelConstants
<1>8. PICK mid \in UserRow : /\ mid = L!WithVp(xp, bonus) /\ mid.xp = xp.xp /\ mid.level = xp.level
                             /\ mid.vp = xp.vp + bonus /\ (TierTrue(xp) => TierTrue(mid))
  BY VpRow
<1>9. PICK after \in UserRow : /\ after = L!WithVp(mid, v) /\ after.xp = xp.xp /\ after.level = xp.level
                               /\ after.vp = points.vp + bonus + v /\ (TierTrue(mid) => TierTrue(after))
  <2>1. PICK after \in UserRow : /\ after = L!WithVp(mid, v) /\ after.xp = mid.xp /\ after.level = mid.level
                                 /\ after.vp = mid.vp + v /\ (TierTrue(mid) => TierTrue(after))
    BY VpRow
  <2> QED BY <1>5, <1>8, <2>1
<1>10. PICK own, up \in AwardEvents :
         /\ own = <<a, "own", v>> /\ up = <<a, "level_up", bonus>>
  BY DEF AwardEvents
<1>11. PICK W1 : W1 = IF xp.level > points.level THEN wrote \cup {up} ELSE wrote
  OBVIOUS
<1>12. PICK W2 : W2 = IF v > 0 THEN W1 \cup {own} ELSE W1
  OBVIOUS
<1>13. /\ points' = after /\ wrote' = W2 /\ gain' = [gain EXCEPT ![a] = n]
       /\ reached' = [reached EXCEPT ![a] = IF xp.level > points.level THEN xp.level ELSE 0]
  <2>1. L!LeveledUp(points, xp) <=> xp.level > points.level
    BY DEF L!LeveledUp
  <2>2. points' = after
    BY <1>1, <1>3, <1>5, <1>6, <1>7, <1>8, <1>9, <2>1
  <2>3. wrote' = W2
    BY <1>1, <1>3, <1>5, <1>6, <1>7, <1>10, <1>11, <1>12, <2>1
  <2>4. gain' = [gain EXCEPT ![a] = n]
    BY <1>1, <1>3
  <2>5. reached' = [reached EXCEPT ![a] = IF xp.level > points.level THEN xp.level ELSE 0]
    BY <1>1, <1>3, <1>5, <2>1
  <2> QED BY <2>2, <2>3, <2>4, <2>5
<1>14. /\ vpEvents \subseteq vpEvents' /\ vpEvents' \subseteq wrote' /\ wrote' \ vpEvents' \subseteq wrote \ vpEvents
       /\ \A e \in wrote' : e \in wrote \/ e = own \/ e = up
       /\ \A e \in vpEvents' : e \in vpEvents \/ e = own \/ e = up
  <2>1. PICK X : vpEvents' = vpEvents \cup X /\ wrote' = wrote \cup X
    BY <1>1
  <2>2. vpEvents \subseteq wrote
    BY DEF LevelsInv, LevelTypes
  <2>3. \A e \in wrote' : e \in wrote \/ e = own \/ e = up
    BY <1>11, <1>12, <1>13
  <2>4. \A e \in vpEvents' : e \in vpEvents \/ e = own \/ e = up
    <3>1. L!LeveledUp(points, xp) <=> xp.level > points.level
      BY DEF L!LeveledUp
    <3> QED BY <1>1, <1>3, <1>5, <1>6, <1>7, <1>10, <3>1
  <2> QED BY <2>1, <2>2, <2>3, <2>4
<1>15. \A e \in wrote : e[1] # a
  BY <1>2 DEF LevelsInv, LevelTypes, WrittenOnce, OnceAt
<1>16. /\ own \notin wrote /\ up \notin wrote /\ own # up /\ own[1] = a /\ up[1] = a /\ own[3] = v /\ up[3] = bonus
  BY <1>10, <1>15
<1>17. /\ statement' \in [XpAwards -> AwardStages] /\ statement'[a] = "done"
       /\ \A b \in XpAwards \ {a} : statement'[b] = statement[b] /\ reached'[b] = reached[b]
       /\ reached' \in [XpAwards -> Nat] /\ gain' \in [XpAwards -> Nat]
       /\ gain'[a] = n /\ \A b \in XpAwards \ {a} : gain'[b] = gain[b]
  BY <1>2, <1>5, <1>13 DEF LevelsInv, LevelTypes, AwardStages
<1>18. wrote \in SUBSET AwardEvents /\ IsFiniteSet(wrote)
  BY DEF LevelsInv, LevelTypes, AwardEvents
<1>19. /\ W1 \in SUBSET AwardEvents /\ IsFiniteSet(W1) /\ own \notin W1
       /\ W2 \in SUBSET AwardEvents /\ IsFiniteSet(W2)
       /\ SumFunctionOnSet(Amounts(W2), W2) = SumFunctionOnSet(Amounts(wrote), wrote) + bonus + v
  <2>1. SumFunctionOnSet(Amounts(wrote), wrote) \in Int
    <3>1. \A e \in wrote : Amounts(wrote)[e] \in Int
      BY <1>18 DEF Amounts, AwardEvents
    <3> QED BY <1>18, <3>1, SumInt
  <2>2. /\ W1 \in SUBSET AwardEvents /\ IsFiniteSet(W1) /\ own \notin W1
        /\ SumFunctionOnSet(Amounts(W1), W1) = SumFunctionOnSet(Amounts(wrote), wrote) + bonus
    <3>1. CASE xp.level > points.level
      <4>1. W1 = wrote \cup {up}
        BY <1>11, <3>1
      <4>2. IsFiniteSet(W1)
        BY <1>18, <4>1, FS_AddElement
      <4>3. SumFunctionOnSet(Amounts(W1), W1) = SumFunctionOnSet(Amounts(wrote), wrote) + up[3]
        BY <1>16, <1>18, <4>1, OneMoreAward
      <4> QED BY <1>16, <1>18, <4>1, <4>2, <4>3
    <3>2. CASE ~(xp.level > points.level)
      BY <1>6, <1>11, <1>16, <1>18, <2>1, <3>2
    <3> QED BY <3>1, <3>2
  <2>3. CASE v > 0
    <3>1. W2 = W1 \cup {own}
      BY <1>12, <2>3
    <3>2. IsFiniteSet(W2)
      BY <2>2, <3>1, FS_AddElement
    <3>3. SumFunctionOnSet(Amounts(W2), W2) = SumFunctionOnSet(Amounts(W1), W1) + own[3]
      BY <2>2, <3>1, OneMoreAward
    <3> QED BY <1>16, <2>2, <3>1, <3>2, <3>3
  <2>4. CASE ~(v > 0)
    BY <1>12, <2>1, <2>2, <2>4
  <2> QED BY <2>2, <2>3, <2>4
<1>20. LevelTypes'
  <2>1. xpEvents' \subseteq XpAwards \X Nat
    <3>1. Xp[a] \in Nat
      BY LevelConstants
    <3> QED BY <1>2, <3>1 DEF LevelsInv, LevelTypes
  <2> QED BY <1>2, <1>13, <1>14, <1>17, <1>19, <2>1 DEF LevelsInv, LevelTypes, AwardEvents
<1>21. WrittenOnce'
  <2>1. \A b \in XpAwards \ {a} : \A e : e[1] = b =>
          (e \in wrote' <=> e \in wrote) /\ (e \in vpEvents' <=> e \in vpEvents)
    <3>1. wrote \subseteq wrote'
      BY <1>11, <1>12, <1>13
    <3> QED BY <1>14, <1>16, <3>1
  <2>2. \A b \in XpAwards \ {a} : OnceAt(b)'
    BY <1>2, <1>17, <2>1, OthersOnce DEF LevelsInv
  <2>3. OnceAt(a)'
    BY <1>14, <1>15, <1>17 DEF OnceAt
  <2> QED BY <2>2, <2>3 DEF WrittenOnce
<1>22. LevelTrue(points)' /\ \A b \in XpAwards : LevelTrue(basis[b])'
  <2>1. LevelTrue(points')
    BY <1>5, <1>9, <1>13 DEF LevelTrue
  <2> QED BY <1>2, <2>1 DEF LevelsInv, LevelTrue
<1>23. ASSUME ~torn' PROVE Untorn'
  <2>1. Untorn /\ LevelTypes /\ LevelTrue(points)
    BY <1>2, <1>23 DEF LevelsInv
  <2>2. points'.xp = SumFunctionOnSet(gain', earned')
    <3>1. a \notin earned
      BY <1>2 DEF LevelsInv, WrittenOnce, OnceAt
    <3>2. SumFunctionOnSet(gain', earned \cup {a}) = SumFunctionOnSet(gain, earned) + gain'[a]
      BY <1>17, <2>1, <3>1, XpAdded
    <3> QED BY <1>2, <1>5, <1>9, <1>13, <1>17, <2>1, <3>2 DEF Untorn
  <2>3. points'.vp = SumFunctionOnSet(Amounts(wrote'), wrote')
    BY <1>9, <1>13, <1>19, <2>1 DEF Untorn
  <2>4. TierTrue(points') /\ \A b \in XpAwards : TierTrue(basis'[b])
    <3>1. TierTrue(xp)
      BY <1>5, <2>1 DEF Untorn, TierTrue
    <3>2. TierTrue(after)
      BY <1>8, <1>9, <3>1
    <3> QED BY <1>2, <1>13, <2>1, <3>2 DEF Untorn
  <2>5. /\ \A b \in XpAwards : reached'[b] <= points'.level
        /\ \A b, c \in XpAwards : reached'[b] = reached'[c] => b = c \/ reached'[b] = 0
    <3>1. PICK l : l = L!Level(points.xp + n) /\ l = xp.level
      BY <1>5
    <3>2. points'.level = l /\ reached' = [reached EXCEPT ![a] = IF l > points.level THEN l ELSE 0]
      BY <1>9, <1>13, <3>1
    <3> QED BY <2>1, <3>1, <3>2, LevelReached
  <2> QED BY <2>2, <2>3, <2>4, <2>5 DEF Untorn, TierTrue, Amounts
<1> QED BY <1>20, <1>21, <1>22, <1>23 DEF LevelsInv

LEMMA LevelsStep == LevelsInv /\ [L!Next]_(L!vars) => LevelsInv'
<1> SUFFICES ASSUME LevelsInv, [L!Next]_(L!vars) PROVE LevelsInv'
  OBVIOUS
<1>1. ASSUME NEW a \in XpAwards, L!ReadXp(a) PROVE LevelsInv'
  BY <1>1, ReadXpStep
<1>2. ASSUME NEW a \in XpAwards, L!WriteXp(a) PROVE LevelsInv'
  BY <1>2, WriteXpStep
<1>3. ASSUME NEW a \in XpAwards, L!LogXp(a) PROVE LevelsInv'
  BY <1>3, LogXpStep
<1>4. ASSUME NEW a \in XpAwards, L!ReadVp(a) PROVE LevelsInv'
  BY <1>4, ReadVpStep
<1>5. ASSUME NEW a \in XpAwards, L!WriteVp(a) PROVE LevelsInv'
  BY <1>5, WriteVpStep
<1>6. ASSUME NEW a \in XpAwards, L!LogVp(a) PROVE LevelsInv'
  BY <1>6, LogVpStep
<1>7. ASSUME NEW a \in XpAwards, L!ClaimAwards(a) PROVE LevelsInv'
  BY <1>7, ClaimAwardsStep
<1>8. CASE UNCHANGED L!vars
  <2>1. UNCHANGED <<points, xpEvents, vpEvents, statement, basis, gain, reached, earned, wrote, torn>>
    BY <1>8 DEF L!vars, L!tables, L!calls, L!history
  <2> QED BY <2>1 DEF LevelsInv, LevelTypes, WrittenOnce, OnceAt, LevelTrue, TierTrue, Untorn, Amounts, L!Purpose
<1> QED BY <1>1, <1>2, <1>3, <1>4, <1>5, <1>6, <1>7, <1>8 DEF L!Next

LEMMA LevelsInvariant == L!Spec => []LevelsInv
<1> QED BY LevelsInit, LevelsStep, PTL DEF L!Spec

\* A user's XP and VP are the sums of what was awarded, the tier is the one the VP
\* call for, and no level pays its bonus twice, unless a call wrote over what it had
\* not read, for any number of awards and claims at once (awardXp, awardVp).
THEOREM PointsCorrect == L!Spec => []PointsKept
<1>1. LevelsInv => PointsKept
  <2> SUFFICES ASSUME LevelsInv PROVE PointsKept
    OBVIOUS
  <2>1. L!TypeOK
    BY DEF LevelsInv, LevelTypes, UserRow, AwardStages, L!TypeOK
  <2>2. points.level = L!Level(points.xp)
    BY DEF LevelsInv, LevelTrue
  <2>3. \A e \in wrote \ vpEvents : statement[e[1]] \in {"logBonus", "logVp"}
    BY DEF LevelsInv, LevelTypes, WrittenOnce, OnceAt
  <2>4. torn \/ /\ points.xp = L!SumFunctionOnSet(gain, earned)
                /\ points.vp = L!SumFunctionOnSet([e \in wrote |-> e[3]], wrote)
                /\ points.tier = L!Tier(points.vp)
                /\ \A a, b \in XpAwards : reached[a] = reached[b] => a = b \/ reached[a] = 0
    BY SameSum DEF LevelsInv, Untorn, TierTrue, Amounts
  <2> QED BY <2>1, <2>2, <2>3, <2>4 DEF PointsKept, L!PointsKept
<1> QED BY <1>1, LevelsInvariant, PTL
=============================================================================
