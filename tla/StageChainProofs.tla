--------------------------- MODULE StageChainProofs ---------------------------
(***************************************************************************)
(* Proofs about the resolution of a stage, for any names and definitions.  *)
(***************************************************************************)
EXTENDS StageChain, FiniteSetTheorems, SequenceTheorems, WellFoundedInduction, TLAPS

-----------------------------------------------------------------------------
(* Merging.                                                                *)

LEMMA MergePointersMerged ==
  ASSUME NEW under \in Merged, NEW over \in DerivedStage
  PROVE  MergePointers(under, over) \in Merged
<1>1. under.sources \o over.sources \in Seq(Name \cup {Base})
  BY DEF Merged, DerivedStage
<1> QED
  BY <1>1 DEF MergePointers, Override, Merged, DerivedStage, Option

LEMMA MergePointersDerived ==
  ASSUME NEW under \in DerivedStage, NEW over \in DerivedStage
  PROVE  MergePointers(under, over) \in DerivedStage
<1>1. under.sources \o over.sources \in Seq(Name \cup {Base})
  BY DEF DerivedStage
<1> QED
  BY <1>1 DEF MergePointers, Override, DerivedStage, Option

LEMMA DefaultStageTyped ==
  ASSUME NEW name
  PROVE  DefaultStage(name) \in DerivedStage
BY DEF DefaultStage, DerivedStage, Option, Parent

LEMMA MergeDefaultsTyped ==
  ASSUME NEW user \in Definitions
  PROVE  /\ DOMAIN MergeDefaults(user) \subseteq Name
         /\ Default \subseteq DOMAIN MergeDefaults(user)
         /\ \A n \in DOMAIN MergeDefaults(user) : MergeDefaults(user)[n] \in DerivedStage
<1>1. DOMAIN MergeDefaults(user) = DOMAIN user \cup Default
  BY DEF MergeDefaults
<1>2. ASSUME NEW n \in DOMAIN user PROVE user[n] \in DerivedStage
  BY <1>2, DefinitionsAssumption
<1>3. ASSUME NEW n \in DOMAIN user PROVE MergeDefault(n, user[n]) \in DerivedStage
  <2>1. MergePointers(DefaultStage(n), user[n]) \in DerivedStage
    BY <1>2, <1>3, DefaultStageTyped, MergePointersDerived
  <2>2. user[n].derive_from \in Parent
    BY <1>2, <1>3 DEF DerivedStage
  <2> QED
    BY <2>1, <2>2 DEF MergeDefault, DerivedStage
<1>4. \A n \in DOMAIN MergeDefaults(user) : MergeDefaults(user)[n] \in DerivedStage
  BY <1>1, <1>2, <1>3, DefaultStageTyped DEF MergeDefaults
<1> QED
  BY <1>1, <1>4, ChainAssumption, DefinitionsAssumption

LEMMA BaseStageTyped == kind \in {"php", "nodejs"} => BaseStage \in Merged
BY DEF BaseStage, Merged, Option

-----------------------------------------------------------------------------
(* Type correctness.                                                       *)

LEMMA TypeInit == Init => TypeOK
<1> SUFFICES ASSUME Init PROVE TypeOK
  OBVIOUS
<1>1. PICK user \in Definitions : stages = MergeDefaults(user)
  BY DEF Init
<1>2. /\ DOMAIN stages \subseteq Name /\ Default \subseteq DOMAIN stages
      /\ \A n \in DOMAIN stages : stages[n] \in DerivedStage
  BY <1>1, MergeDefaultsTyped
<1>3. merged \in Merged
  BY DEF Init, Merged, Option
<1>4. chain \in Seq(Name) /\ Elements(chain) = {} /\ next = 0 /\ Len(chain) = 0
  BY DEF Init, Elements
<1>5. kind \in {"php", "nodejs"} /\ frontend \in BOOLEAN
  BY DEF Init
<1>6. asked \in Parent /\ current \in Parent /\ outcome \in Outcomes
  BY DEF Init, Outcomes
<1> QED
  BY <1>2, <1>3, <1>4, <1>5, <1>6 DEF TypeOK

LEMMA TypeNext == TypeOK /\ [Next]_vars => TypeOK'
<1> SUFFICES ASSUME TypeOK, [Next]_vars PROVE TypeOK'
  OBVIOUS
<1> USE DEF TypeOK
<1>1. CASE FailCyclic \/ FailNotFound
  BY <1>1 DEF FailCyclic, FailNotFound, input, Outcomes
<1>2. CASE WalkUp
  <2>1. current \in Name
    BY <1>2 DEF WalkUp
  <2>2. chain' \in Seq(Name) /\ Len(chain') = Len(chain) + 1
    BY <1>2, <2>1 DEF WalkUp
  <2>3. Elements(chain') \subseteq Elements(chain) \cup {current}
    BY <1>2, <2>1 DEF WalkUp, Elements
  <2>4. stages[current].derive_from \in Parent
    BY <1>2 DEF WalkUp, DerivedStage
  <2> QED
    BY <1>2, <2>2, <2>3, <2>4 DEF WalkUp, input
<1>3. CASE StartMerge
  BY <1>3, BaseStageTyped DEF StartMerge, input, Outcomes
<1>4. CASE MergeNext
  <2>1. next \in DOMAIN chain
    BY <1>4 DEF MergeNext
  <2>2. chain[next] \in DOMAIN stages
    BY <2>1 DEF Elements
  <2>3. merged' \in Merged
    BY <1>4, <2>2, MergePointersMerged DEF MergeNext
  <2> QED
    BY <1>4, <2>3 DEF MergeNext, input
<1>5. CASE FinishMerge
  <2>1. merged' \in Merged
    BY <1>5 DEF FinishMerge, Merged, Option
  <2> QED
    BY <1>5, <2>1 DEF FinishMerge, input, Outcomes
<1>6. CASE UNCHANGED vars
  BY <1>6 DEF vars, input, Elements, BaseStage
<1> QED
  BY <1>1, <1>2, <1>3, <1>4, <1>5, <1>6 DEF Next

\* Every state of a resolution is well typed: in particular merging never leaves
\* dev unset and never follows a stage that is not in the definition.
THEOREM TypeCorrect == Spec => []TypeOK
BY TypeInit, TypeNext, PTL DEF Spec

-----------------------------------------------------------------------------
(* The bound on the chain: its stages are all different, and all of them   *)
(* are stages of the definition.                                           *)

ChainInv == Cardinality(Visited) = Len(chain) /\ IsFiniteSet(Visited)

LEMMA ChainInit == Init => ChainInv
<1> SUFFICES ASSUME Init PROVE ChainInv
  OBVIOUS
<1>1. Visited = {} /\ Len(chain) = 0
  BY DEF Init, Visited, Elements
<1> QED
  BY <1>1, FS_EmptySet DEF ChainInv

LEMMA ChainNext == TypeOK /\ ChainInv /\ [Next]_vars => ChainInv'
<1> SUFFICES ASSUME TypeOK, ChainInv, [Next]_vars PROVE ChainInv'
  OBVIOUS
<1>1. CASE WalkUp
  <2>1. Visited' = Visited \cup {current} /\ Len(chain') = Len(chain) + 1
    BY <1>1 DEF WalkUp, Visited, Elements, TypeOK
  <2>2. current \notin Visited
    BY <1>1 DEF WalkUp
  <2> QED
    BY <2>1, <2>2, FS_AddElement DEF ChainInv
<1>2. CASE UNCHANGED chain
  BY <1>2 DEF ChainInv, Visited, Elements
<1> QED
  BY <1>1, <1>2 DEF Next, FailCyclic, FailNotFound, StartMerge, MergeNext, FinishMerge, vars

LEMMA ChainInvBounds == TypeOK /\ ChainInv => ChainBounded
<1> SUFFICES ASSUME TypeOK, ChainInv PROVE ChainBounded
  OBVIOUS
<1>1. IsFiniteSet(DOMAIN stages)
  BY FS_Subset, ChainAssumption DEF TypeOK
<1>2. Visited \subseteq DOMAIN stages
  BY DEF TypeOK, Visited
<1> QED
  BY <1>1, <1>2, FS_Subset DEF ChainInv, ChainBounded

\* However stages are derived from one another, cycles included, resolving one
\* walks through no more stages than the definition has.
THEOREM ChainIsBounded == Spec => []ChainBounded
<1>1. Spec => []ChainInv
  BY TypeCorrect, ChainInit, ChainNext, PTL DEF Spec
<1> QED
  BY <1>1, TypeCorrect, ChainInvBounds, PTL
-----------------------------------------------------------------------------
(* The references of the properties are recursive functions: that they     *)
(* satisfy their equations is shown here.                                  *)

LEMMA LeastNatural ==
  ASSUME NEW T \in SUBSET Nat, T # {}
  PROVE  \E i \in T : \A j \in T : i <= j
<1> DEFINE Less == OpToRel(<, Nat)
<1>1. \E i \in T : \A j \in T : <<j, i>> \notin Less
  BY NatLessThanWellFounded, WFMin
<1>2. ASSUME NEW i \in Nat, NEW j \in Nat, j < i PROVE <<j, i>> \in Less
  <2> DEFINE ss == <<j, i>>
  <2>1. ss \in Nat \X Nat /\ ss[1] < ss[2]
    BY <1>2
  <2> QED
    BY <2>1, Zenon DEF OpToRel
<1> HIDE DEF Less
<1>3. ASSUME NEW i \in T, NEW j \in T, ~ (j < i) PROVE i <= j
  BY <1>3
<1> QED
  BY <1>1, <1>2, <1>3

\* By the least number of steps without a function, or with two of them.
LEMMA Recursion ==
  ASSUME NEW S, NEW a \in S, NEW step \in [Nat -> [S -> S]]
  PROVE  \E f \in [Nat -> S] : f[0] = a /\ \A k \in Nat : f[k + 1] = step[k][f[k]]
<1> DEFINE Approx(m, g) == /\ g \in [0..m -> S] /\ g[0] = a
                           /\ \A k \in 1..m : g[k] = step[k - 1][g[k - 1]]
<1>1. ASSUME NEW m \in Nat PROVE \E g : Approx(m, g)
  <2> DEFINE bad == {n \in 0..m : ~ \E g : Approx(n, g)}
  <2>1. ASSUME bad # {} PROVE FALSE
    <3>1. bad \in SUBSET Nat
      OBVIOUS
    <3>2. PICK n \in bad : \A j \in bad : n <= j
      BY <2>1, <3>1, LeastNatural
    <3>3. n \in 0..m /\ ~ \E g : Approx(n, g)
      OBVIOUS
    <3>4. n # 0
      <4> SUFFICES ASSUME n = 0 PROVE FALSE
        OBVIOUS
      <4> DEFINE e == [k \in 0..0 |-> a]
      <4>1. e \in [0..0 -> S] /\ e[0] = a /\ 1..0 = {}
        OBVIOUS
      <4> HIDE DEF e
      <4>2. Approx(0, e)
        BY <4>1
      <4> QED
        BY <3>3, <4>2
    <3>5. n - 1 \in 0..m /\ ~ (n <= n - 1)
      BY <3>3, <3>4
    <3>6. PICK g : Approx(n - 1, g)
      <4>1. n - 1 \notin bad
        <5> HIDE DEF bad
        <5> QED
          BY <3>2, <3>5
      <4> QED
        BY <3>5, <4>1
    <3> DEFINE last == step[n - 1][g[n - 1]]
               e == [k \in 0..n |-> IF k = n THEN last ELSE g[k]]
    <3>7. last \in S
      <4>1. n - 1 \in 0..(n - 1) /\ n - 1 \in Nat
        BY <3>3, <3>4
      <4> QED
        BY <3>6, <4>1
    <3> HIDE DEF last
    <3>8. \A k \in 0..n : k # n => k \in 0..(n - 1) /\ g[k] \in S
      BY <3>3, <3>6
    <3>9. e \in [0..n -> S] /\ \A k \in 0..n : e[k] = IF k = n THEN last ELSE g[k]
      BY <3>7, <3>8
    <3> HIDE DEF e
    <3>10. e[0] = a
      BY <3>3, <3>4, <3>6, <3>9
    <3>11. ASSUME NEW k \in 1..n PROVE e[k] = step[k - 1][e[k - 1]]
      <4>1. k \in 0..n /\ k - 1 \in 0..n /\ k - 1 # n
        BY <3>3
      <4>2. e[k - 1] = g[k - 1]
        BY <3>9, <4>1
      <4>3. CASE k = n
        BY <3>9, <4>1, <4>2, <4>3 DEF last
      <4>4. CASE k # n
        <5>1. k \in 1..(n - 1)
          BY <3>3, <4>4
        <5>2. g[k] = step[k - 1][g[k - 1]]
          BY <3>6, <5>1
        <5> QED
          BY <3>9, <4>1, <4>2, <4>4, <5>2
      <4> QED
        BY <4>3, <4>4
    <3>12. Approx(n, e)
      BY <3>9, <3>10, <3>11
    <3> QED
      BY <3>3, <3>12
  <2>2. m \in 0..m
    OBVIOUS
  <2>3. m \notin bad
    <3> HIDE DEF bad
    <3> QED
      BY <2>1
  <2> QED
    BY <2>2, <2>3
<1>2. ASSUME NEW m \in Nat, NEW n \in Nat, m <= n, NEW g, NEW h, Approx(m, g), Approx(n, h)
      PROVE  \A k \in 0..m : g[k] = h[k]
  <2> DEFINE bad == {k \in 0..m : g[k] # h[k]}
  <2>1. ASSUME bad # {} PROVE FALSE
    <3>1. bad \in SUBSET Nat
      OBVIOUS
    <3>2. PICK k \in bad : \A j \in bad : k <= j
      BY <2>1, <3>1, LeastNatural
    <3>3. k \in 0..m /\ g[k] # h[k]
      OBVIOUS
    <3>4. k # 0
      BY <1>2, <3>3
    <3>5. k \in 1..m /\ k \in 1..n /\ k - 1 \in 0..m /\ ~ (k <= k - 1)
      BY <1>2, <3>3, <3>4
    <3>6. g[k - 1] = h[k - 1]
      <4>1. k - 1 \notin bad
        <5> HIDE DEF bad
        <5> QED
          BY <3>2, <3>5
      <4> QED
        BY <3>5, <4>1
    <3>7. g[k] = step[k - 1][g[k - 1]] /\ h[k] = step[k - 1][h[k - 1]]
      BY <1>2, <3>5
    <3> QED
      BY <3>3, <3>6, <3>7
  <2>2. bad = {}
    <3> HIDE DEF bad
    <3> QED
      BY <2>1
  <2> QED
    BY <2>2
<1> DEFINE G(m) == CHOOSE g : Approx(m, g)
<1>3. \A m \in Nat : Approx(m, G(m))
  BY <1>1
<1> HIDE DEF G
<1> DEFINE f == [m \in Nat |-> G(m)[m]]
<1>4. \A m \in Nat : m \in 0..m
  OBVIOUS
<1>5. f \in [Nat -> S]
  BY <1>3, <1>4
<1>6. \A m \in Nat : f[m] = G(m)[m]
  OBVIOUS
<1> HIDE DEF f
<1>7. f[0] = a
  BY <1>3, <1>6
<1>8. ASSUME NEW k \in Nat PROVE f[k + 1] = step[k][f[k]]
  <2>1. k + 1 \in Nat /\ k <= k + 1 /\ k + 1 \in 1..(k + 1) /\ (k + 1) - 1 = k /\ k \in 0..k
    OBVIOUS
  <2>2. Approx(k, G(k)) /\ Approx(k + 1, G(k + 1))
    BY <1>3, <2>1
  <2>3. G(k)[k] = G(k + 1)[k]
    <3> HIDE DEF Approx
    <3> QED
      BY <1>2, <2>1, <2>2
  <2>4. G(k + 1)[k + 1] = step[k][G(k + 1)[k]]
    BY <2>1, <2>2
  <2> QED
    BY <1>6, <2>1, <2>3, <2>4
<1> QED
  BY <1>5, <1>7, <1>8

Up(x) == IF x \in DOMAIN stages THEN stages[x].derive_from ELSE x
Listed(x, list) == IF x \in DOMAIN stages THEN stages[x].sources \o list ELSE list

LEMMA UpTyped == TypeOK => \A x \in Parent : Up(x) \in Parent
BY DEF TypeOK, Up, DerivedStage

LEMMA AncestorDef ==
  ASSUME TypeOK
  PROVE  /\ \A k \in Nat : ancestor[k] \in Parent
         /\ ancestor[0] = asked
         /\ \A k \in Nat : ancestor[k + 1] = Up(ancestor[k])
<1> DEFINE up == [x \in Parent |-> Up(x)]
           step == [k \in Nat |-> up]
<1>1. up \in [Parent -> Parent] /\ \A x \in Parent : up[x] = Up(x)
  BY UpTyped
<1> HIDE DEF up
<1>2. step \in [Nat -> [Parent -> Parent]] /\ \A k \in Nat : step[k] = up
  BY <1>1
<1> HIDE DEF step
<1>3. asked \in Parent
  BY DEF TypeOK
<1>4. PICK f \in [Nat -> Parent] : f[0] = asked /\ \A k \in Nat : f[k + 1] = step[k][f[k]]
  BY <1>2, <1>3, Recursion
<1> DEFINE Body(g) == [k \in Nat |->
             IF k = 0 THEN asked
             ELSE IF g[k - 1] \in DOMAIN stages THEN stages[g[k - 1]].derive_from
             ELSE g[k - 1]]
<1>5. \A k \in Nat : f[k + 1] = Up(f[k])
  BY <1>1, <1>2, <1>4
<1>6. ASSUME NEW k \in Nat PROVE f[k] = IF k = 0 THEN asked ELSE Up(f[k - 1])
  <2>1. k # 0 => k - 1 \in Nat /\ (k - 1) + 1 = k
    OBVIOUS
  <2> QED
    BY <1>4, <1>5, <2>1
<1>7. f = Body(f)
  BY <1>4, <1>6 DEF Up
<1>8. ancestor = CHOOSE g : g = Body(g)
  BY DEF ancestor
<1>9. ancestor = Body(ancestor)
  <2> HIDE DEF Body
  <2> QED
    BY <1>7, <1>8
<1>10. ancestor[0] = asked
  BY <1>9
<1>11. ASSUME NEW k \in Nat PROVE ancestor[k + 1] = Up(ancestor[k])
  <2>1. k + 1 \in Nat /\ k + 1 # 0 /\ (k + 1) - 1 = k
    OBVIOUS
  <2>2. \A l \in Nat : ancestor[l] =
          IF l = 0 THEN asked
          ELSE IF ancestor[l - 1] \in DOMAIN stages THEN stages[ancestor[l - 1]].derive_from
          ELSE ancestor[l - 1]
    BY <1>9
  <2>3. ancestor[k + 1] = IF ancestor[(k + 1) - 1] \in DOMAIN stages
                            THEN stages[ancestor[(k + 1) - 1]].derive_from
                          ELSE ancestor[(k + 1) - 1]
    BY <2>1, <2>2
  <2> QED
    BY <2>1, <2>3 DEF Up
<1> DEFINE bad == {k \in Nat : ancestor[k] \notin Parent}
<1>12. ASSUME bad # {} PROVE FALSE
  <2>1. bad \in SUBSET Nat
    OBVIOUS
  <2>2. PICK k \in bad : \A j \in bad : k <= j
    BY <1>12, <2>1, LeastNatural
  <2>3. k \in Nat /\ ancestor[k] \notin Parent /\ k # 0
    BY <1>3, <1>10
  <2>4. k - 1 \in Nat /\ ~ (k <= k - 1) /\ (k - 1) + 1 = k
    BY <2>3
  <2>5. k - 1 \notin bad
    <3> HIDE DEF bad
    <3> QED
      BY <2>2, <2>4
  <2> QED
    BY <1>11, <2>3, <2>4, <2>5, UpTyped
<1> QED
  BY <1>10, <1>11, <1>12

LEMMA DeclaredDef ==
  ASSUME TypeOK
  PROVE  /\ \A k \in Nat : declared[k] \in Seq(Name \cup {Base})
         /\ declared[0] = <<>>
         /\ \A k \in Nat : declared[k + 1] = Listed(ancestor[k], declared[k])
<1> DEFINE Lists == Seq(Name \cup {Base})
           grow == [k \in Nat |-> [list \in Lists |-> Listed(ancestor[k], list)]]
<1>1. ASSUME NEW k \in Nat, NEW list \in Lists PROVE Listed(ancestor[k], list) \in Lists
  <2>1. CASE ancestor[k] \in DOMAIN stages
    <3>1. stages[ancestor[k]].sources \in Lists
      BY <2>1 DEF TypeOK, DerivedStage
    <3> QED
      BY <2>1, <3>1 DEF Listed
  <2> QED
    BY <2>1 DEF Listed
<1> DEFINE empty == <<>>
<1>3. empty \in Lists
  OBVIOUS
<1> HIDE DEF Lists, empty
<1>2. /\ grow \in [Nat -> [Lists -> Lists]]
      /\ \A k \in Nat, list \in Lists : grow[k][list] = Listed(ancestor[k], list)
  BY <1>1
<1> HIDE DEF grow
<1>4. PICK f \in [Nat -> Lists] : f[0] = empty /\ \A k \in Nat : f[k + 1] = grow[k][f[k]]
  <2>1. grow \in [Nat -> [Lists -> Lists]]
    BY <1>2
  <2> QED
    <3>1. \A a \in Lists, step \in [Nat -> [Lists -> Lists]] :
            \E f \in [Nat -> Lists] : f[0] = a /\ \A k \in Nat : f[k + 1] = step[k][f[k]]
      BY Recursion
    <3> QED
      BY <1>3, <2>1, <3>1
<1> DEFINE Body(g) == [k \in Nat |->
             IF k = 0 THEN <<>>
             ELSE IF ancestor[k - 1] \in DOMAIN stages
               THEN stages[ancestor[k - 1]].sources \o g[k - 1]
             ELSE g[k - 1]]
<1>5. \A k \in Nat : f[k + 1] = Listed(ancestor[k], f[k])
  BY <1>2, <1>4
<1>6. ASSUME NEW k \in Nat PROVE f[k] = IF k = 0 THEN empty ELSE Listed(ancestor[k - 1], f[k - 1])
  <2>1. k # 0 => k - 1 \in Nat /\ (k - 1) + 1 = k
    OBVIOUS
  <2> QED
    BY <1>4, <1>5, <2>1
<1>7. f = Body(f)
  BY <1>4, <1>6 DEF Listed, empty
<1>8. declared = CHOOSE g : g = Body(g)
  BY DEF declared
<1>9. declared = Body(declared)
  <2> HIDE DEF Body
  <2> QED
    BY <1>7, <1>8
<1>10. declared[0] = <<>>
  BY <1>9
<1>11. ASSUME NEW k \in Nat PROVE declared[k + 1] = Listed(ancestor[k], declared[k])
  <2>1. k + 1 \in Nat /\ k + 1 # 0 /\ (k + 1) - 1 = k
    OBVIOUS
  <2>2. \A l \in Nat : declared[l] =
          IF l = 0 THEN <<>>
          ELSE IF ancestor[l - 1] \in DOMAIN stages
            THEN stages[ancestor[l - 1]].sources \o declared[l - 1]
          ELSE declared[l - 1]
    BY <1>9
  <2>3. declared[k + 1] = IF ancestor[(k + 1) - 1] \in DOMAIN stages
                            THEN stages[ancestor[(k + 1) - 1]].sources \o declared[(k + 1) - 1]
                          ELSE declared[(k + 1) - 1]
    BY <2>1, <2>2
  <2> QED
    BY <2>1, <2>3 DEF Listed
<1> DEFINE bad == {k \in Nat : declared[k] \notin Lists}
<1>12. ASSUME bad # {} PROVE FALSE
  <2>1. bad \in SUBSET Nat
    OBVIOUS
  <2>2. PICK k \in bad : \A j \in bad : k <= j
    BY <1>12, <2>1, LeastNatural
  <2>3. k \in Nat /\ declared[k] \notin Lists /\ k # 0
    BY <1>3, <1>10 DEF empty
  <2>4. k - 1 \in Nat /\ ~ (k <= k - 1) /\ (k - 1) + 1 = k
    BY <2>3
  <2>5. k - 1 \notin bad
    <3> HIDE DEF bad
    <3> QED
      BY <2>2, <2>4
  <2>6. declared[k] = Listed(ancestor[k - 1], declared[k - 1]) /\ declared[k - 1] \in Lists
    BY <1>11, <2>4, <2>5
  <2> QED
    BY <1>1, <2>3, <2>4, <2>6
<1> QED
  BY <1>10, <1>11, <1>12 DEF Lists

LEMMA SameAncestors == UNCHANGED input => ancestor' = ancestor /\ declared' = declared
<1> SUFFICES ASSUME UNCHANGED input PROVE ancestor' = ancestor /\ declared' = declared
  OBVIOUS
<1>1. UNCHANGED asked /\ UNCHANGED stages
  BY DEF input
<1>2. ancestor' = ancestor
  BY <1>1 DEF ancestor
<1> QED
  BY <1>1, <1>2 DEF declared

\* There is nothing above the base stage, nor above a stage nobody declared.
LEMMA NothingAbove ==
  ASSUME TypeOK, NEW m \in Nat, ancestor[m] \notin DOMAIN stages
  PROVE  \A k \in Nat : k >= m => ancestor[k] = ancestor[m]
<1> DEFINE bad == {k \in Nat : k >= m /\ ancestor[k] # ancestor[m]}
<1>1. ASSUME bad # {} PROVE FALSE
  <2>1. bad \in SUBSET Nat
    OBVIOUS
  <2>2. PICK k \in bad : \A j \in bad : k <= j
    BY <1>1, <2>1, LeastNatural
  <2>3. k \in Nat /\ k > m /\ ancestor[k] # ancestor[m]
    OBVIOUS
  <2>4. k - 1 \in Nat /\ k - 1 >= m /\ ~ (k <= k - 1) /\ (k - 1) + 1 = k
    BY <2>3
  <2>5. k - 1 \notin bad
    <3> HIDE DEF bad
    <3> QED
      BY <2>2, <2>4
  <2>6. ancestor[k - 1] = ancestor[m]
    BY <2>4, <2>5
  <2> QED
    BY <2>3, <2>4, <2>6, AncestorDef DEF Up
<1> QED
  BY <1>1

-----------------------------------------------------------------------------
(* The walk: the chain holds the ancestors in order, and where it stopped  *)
(* decides where all the further ancestors are.                            *)

WalkInv ==
  /\ \A i \in 1..Len(chain) : chain[i] = ancestor[i - 1]
  /\ current = ancestor[Len(chain)]
  /\ outcome \in {"merging", "resolved"} => AtBase
  /\ outcome = "cyclic" => current \in Visited
  /\ outcome = "not_found" => ~AtBase /\ current \notin DOMAIN stages

LEMMA WalkInit == Init => WalkInv
<1> SUFFICES ASSUME Init PROVE WalkInv
  OBVIOUS
<1>1. Len(chain) = 0 /\ current = asked
  BY DEF Init
<1>2. ancestor[0] = asked
  BY TypeInit, AncestorDef
<1>3. outcome = "resolving"
  BY DEF Init
<1> QED
  BY <1>1, <1>2, <1>3 DEF WalkInv

LEMMA WalkNext == TypeOK /\ WalkInv /\ [Next]_vars => WalkInv'
<1> SUFFICES ASSUME TypeOK, WalkInv, [Next]_vars PROVE WalkInv'
  OBVIOUS
<1>0. UNCHANGED input
  BY DEF Next, FailCyclic, FailNotFound, WalkUp, StartMerge, MergeNext, FinishMerge, vars, input
<1>a. ancestor' = ancestor /\ stages' = stages
  BY <1>0, SameAncestors DEF input
<1>1. CASE WalkUp
  <2>1. current \in Name /\ current \in DOMAIN stages
    BY <1>1 DEF WalkUp, TypeOK
  <2>2. chain \in Seq(Name) /\ Len(chain) \in Nat
    BY DEF TypeOK
  <2>3. chain' = Append(chain, current)
    BY <1>1 DEF WalkUp
  <2>4. /\ Len(chain') = Len(chain) + 1
        /\ \A i \in 1..Len(chain') : chain'[i] = IF i = Len(chain) + 1 THEN current ELSE chain[i]
    BY <2>1, <2>2, <2>3
  <2>5. current = ancestor[Len(chain)] /\ \A i \in 1..Len(chain) : chain[i] = ancestor[i - 1]
    BY DEF WalkInv
  <2>6. \A i \in 1..Len(chain') : chain'[i] = ancestor[i - 1]
    BY <2>2, <2>4, <2>5
  <2>7. current' = Up(current)
    BY <1>1, <2>1 DEF WalkUp, Up
  <2>8. ancestor[Len(chain) + 1] = Up(ancestor[Len(chain)])
    BY <2>2, AncestorDef
  <2>9. current' = ancestor[Len(chain')]
    BY <2>4, <2>5, <2>7, <2>8
  <2>10. outcome' = "resolving"
    BY <1>1 DEF WalkUp
  <2> QED
    BY <1>a, <2>6, <2>9, <2>10 DEF WalkInv
<1>2. CASE FailCyclic
  BY <1>a, <1>2 DEF FailCyclic, WalkInv, Visited, Elements
<1>3. CASE FailNotFound
  BY <1>a, <1>3 DEF FailNotFound, WalkInv, AtBase
<1>4. CASE StartMerge
  BY <1>a, <1>4 DEF StartMerge, WalkInv, AtBase
<1>5. CASE MergeNext \/ FinishMerge
  BY <1>a, <1>5 DEF MergeNext, FinishMerge, WalkInv, AtBase
<1>6. CASE UNCHANGED vars
  BY <1>a, <1>6 DEF vars, WalkInv, AtBase, Visited, Elements
<1> QED
  BY <1>1, <1>2, <1>3, <1>4, <1>5, <1>6 DEF Next

LEMMA ChainShort ==
  ASSUME TypeOK, ChainInv
  PROVE  Cardinality(Name) \in Nat /\ Len(chain) \in Nat /\ Len(chain) <= Cardinality(Name)
<1>1. Visited \subseteq Name /\ IsFiniteSet(Name) /\ Len(chain) \in Nat
  BY ChainAssumption DEF TypeOK, Visited
<1> QED
  BY <1>1, FS_Subset, FS_CardinalityType DEF ChainInv

\* Each stage of the chain is followed by its parent, the last one by the
\* stage found twice.
LEMMA CycleIsClosed ==
  ASSUME TypeOK, WalkInv, current \in Visited
  PROVE  \A k \in Nat : ancestor[k] \in Visited
<1>1. PICK c \in DOMAIN chain : chain[c] = current
  BY DEF Visited, Elements
<1>2. DOMAIN chain = 1..Len(chain) /\ Len(chain) \in Nat
  BY DEF TypeOK
<1>3. /\ \A i \in 1..Len(chain) : chain[i] = ancestor[i - 1]
      /\ current = ancestor[Len(chain)]
  BY DEF WalkInv
<1>4. \A i \in 1..Len(chain) : ancestor[i - 1] \in Visited
  BY <1>2, <1>3 DEF Visited, Elements
<1>5. ASSUME NEW i \in 1..Len(chain) PROVE Up(chain[i]) \in Visited
  <2>1. i - 1 \in Nat /\ (i - 1) + 1 = i /\ i \in Nat
    BY <1>2
  <2>2. Up(chain[i]) = ancestor[i]
    BY <1>3, <2>1, AncestorDef
  <2>3. CASE i = Len(chain)
    BY <1>3, <2>2, <2>3
  <2>4. CASE i # Len(chain)
    <3> DEFINE len == Len(chain)
    <3>1. len \in Nat /\ i \in 1..len /\ i # len
      BY <1>2, <2>4
    <3> HIDE DEF len
    <3>2. i + 1 \in 1..len /\ (i + 1) - 1 = i
      BY <3>1
    <3> QED
      BY <1>4, <2>2, <3>2 DEF len
  <2> QED
    BY <2>3, <2>4
<1> DEFINE bad == {k \in Nat : ancestor[k] \notin Visited}
<1>6. ASSUME bad # {} PROVE FALSE
  <2>1. bad \in SUBSET Nat
    OBVIOUS
  <2>2. PICK k \in bad : \A j \in bad : k <= j
    BY <1>6, <2>1, LeastNatural
  <2>3. k \in Nat /\ ancestor[k] \notin Visited
    OBVIOUS
  <2>4. k # 0
    <3>1. 1 \in 1..Len(chain) /\ 1 - 1 = 0
      BY <1>1, <1>2
    <3> QED
      BY <1>4, <2>3, <3>1
  <2>5. k - 1 \in Nat /\ ~ (k <= k - 1) /\ (k - 1) + 1 = k
    BY <2>3, <2>4
  <2>6. k - 1 \notin bad
    <3> HIDE DEF bad
    <3> QED
      BY <2>2, <2>5
  <2>7. PICK i \in 1..Len(chain) : chain[i] = ancestor[k - 1]
    BY <1>2, <2>5, <2>6 DEF Visited, Elements
  <2> QED
    BY <1>5, <2>3, <2>5, <2>7, AncestorDef
<1> QED
  BY <1>6

LEMMA WalkAnswers == TypeOK /\ ChainInv /\ WalkInv => AnswerIsRight
<1> SUFFICES ASSUME TypeOK, ChainInv, WalkInv PROVE AnswerIsRight
  OBVIOUS
<1> DEFINE top == Cardinality(Name) + 1
<1>1. top \in Nat /\ Len(chain) \in Nat /\ top >= Len(chain)
  BY ChainShort
<1>2. current = ancestor[Len(chain)]
  BY DEF WalkInv
<1>3. current \notin DOMAIN stages => Root = current
  BY <1>1, <1>2, NothingAbove DEF Root
<1>4. ASSUME outcome = "resolved" PROVE Root \in {Base, NoParent}
  <2>1. current \in {Base, NoParent}
    BY <1>4 DEF WalkInv, AtBase
  <2>2. current \notin DOMAIN stages
    BY <2>1, ChainAssumption DEF TypeOK
  <2> QED
    BY <1>3, <2>1, <2>2
<1>5. ASSUME outcome = "cyclic" PROVE Root \in DOMAIN stages
  <2>1. Root \in Visited
    BY <1>1, <1>5, CycleIsClosed DEF Root, WalkInv
  <2> QED
    BY <2>1 DEF TypeOK, Visited
<1>6. ASSUME outcome = "not_found" PROVE Root \in Name \ DOMAIN stages
  <2>1. current \notin {NoParent, Base} /\ current \notin DOMAIN stages
    BY <1>6 DEF WalkInv, AtBase
  <2>2. current \in Name
    BY <2>1 DEF TypeOK, Parent
  <2> QED
    BY <1>3, <2>1, <2>2
<1> QED
  BY <1>4, <1>5, <1>6 DEF AnswerIsRight

\* Whatever stages are derived from one another, the answer depends only on
\* where the ancestors lead: the base stage, a cycle, or a stage nobody declared.
THEOREM AnswersAreRight == Spec => []AnswerIsRight
<1>1. Spec => []ChainInv
  BY TypeCorrect, ChainInit, ChainNext, PTL DEF Spec
<1>2. Spec => []WalkInv
  BY TypeCorrect, WalkInit, WalkNext, PTL DEF Spec
<1> QED
  BY <1>1, <1>2, TypeCorrect, WalkAnswers, PTL

-----------------------------------------------------------------------------
(* The merge: the ancestors still to merge and those merged, in order.     *)

\* Where the chain ends, so do the stages among the ancestors.
LEMMA ChainCoversStages ==
  ASSUME TypeOK, WalkInv, AtBase
  PROVE  /\ \A k \in Nat : k < Len(chain) => /\ ancestor[k] \in DOMAIN stages
                                             /\ chain[k + 1] = ancestor[k]
         /\ \A k \in Nat : k >= Len(chain) => ancestor[k] \notin DOMAIN stages
<1>1. Len(chain) \in Nat /\ DOMAIN chain = 1..Len(chain)
  BY DEF TypeOK
<1>2. current = ancestor[Len(chain)] /\ \A i \in 1..Len(chain) : chain[i] = ancestor[i - 1]
  BY DEF WalkInv
<1>3. ASSUME NEW k \in Nat, k < Len(chain)
      PROVE  ancestor[k] \in DOMAIN stages /\ chain[k + 1] = ancestor[k]
  <2>1. k + 1 \in 1..Len(chain) /\ (k + 1) - 1 = k
    BY <1>1, <1>3
  <2>2. chain[k + 1] \in Elements(chain)
    BY <1>1, <2>1 DEF Elements
  <2>3. chain[k + 1] = ancestor[(k + 1) - 1]
    BY <1>2, <2>1
  <2> QED
    BY <2>1, <2>2, <2>3 DEF TypeOK
<1>4. current \notin DOMAIN stages
  BY ChainAssumption DEF TypeOK, AtBase
<1>5. \A k \in Nat : k >= Len(chain) => ancestor[k] = current
  BY <1>1, <1>2, <1>4, NothingAbove
<1> QED
  BY <1>3, <1>4, <1>5

\* What is merged, with what the stages still to merge list, is the whole list.
ListsInv ==
  /\ outcome = "merging" => merged.sources \o declared[next] = <<Base>> \o declared[Len(chain)]
  /\ outcome = "resolved" => merged.sources = <<Base>> \o declared[Len(chain)]

LEMMA ListsInit == Init => ListsInv
BY DEF Init, ListsInv

LEMMA MergeNextFields ==
  ASSUME TypeOK, WalkInv, MergeNext
  PROVE  /\ next - 1 \in Nat /\ next - 1 < Len(chain) /\ next' = next - 1
         /\ chain[next] = ancestor[next - 1] /\ chain[next] \in DOMAIN stages
         /\ merged'.dev = Override(merged.dev, stages[chain[next]].dev)
         /\ merged'.fpm = Override(merged.fpm, stages[chain[next]].fpm)
         /\ merged'.healthcheck = Override(merged.healthcheck, stages[chain[next]].healthcheck)
         /\ merged'.sources = merged.sources \o stages[chain[next]].sources
<1>1. next \in 1..Len(chain) /\ Len(chain) \in Nat /\ DOMAIN chain = 1..Len(chain)
  BY DEF TypeOK, MergeNext
<1>2. chain[next] = ancestor[next - 1]
  BY <1>1 DEF WalkInv
<1>3. chain[next] \in DOMAIN stages
  BY <1>1 DEF TypeOK, Elements
<1>4. merged' = MergePointers(merged, stages[chain[next]]) /\ next' = next - 1
  BY DEF MergeNext
<1>5. merged \in Merged
  BY DEF TypeOK
<1> DEFINE over == stages[chain[next]]
<1>6. /\ merged'.dev = Override(merged.dev, over.dev)
      /\ merged'.fpm = Override(merged.fpm, over.fpm)
      /\ merged'.healthcheck = Override(merged.healthcheck, over.healthcheck)
      /\ merged'.sources = merged.sources \o over.sources
  <2> HIDE DEF over
  <2> QED
    BY <1>4, <1>5 DEF MergePointers, Merged, over
<1>7. next - 1 \in Nat /\ next - 1 < Len(chain)
  BY <1>1
<1> QED
  BY <1>2, <1>3, <1>4, <1>6, <1>7

LEMMA ListsNext == TypeOK /\ WalkInv /\ ListsInv /\ [Next]_vars => ListsInv'
<1> SUFFICES ASSUME TypeOK, WalkInv, ListsInv, [Next]_vars PROVE ListsInv'
  OBVIOUS
<1> DEFINE Lists == Seq(Name \cup {Base})
<1>0. UNCHANGED input
  BY DEF Next, FailCyclic, FailNotFound, WalkUp, StartMerge, MergeNext, FinishMerge, vars, input
<1>a. declared' = declared
  BY <1>0, SameAncestors
<1>1. CASE FailCyclic \/ FailNotFound \/ WalkUp
  BY <1>1 DEF FailCyclic, FailNotFound, WalkUp, ListsInv
<1>2. CASE StartMerge
  BY <1>a, <1>2 DEF StartMerge, ListsInv, BaseStage
<1>3. CASE MergeNext
  <2>1. /\ next - 1 \in Nat /\ next' = next - 1 /\ chain[next] = ancestor[next - 1]
        /\ chain[next] \in DOMAIN stages
        /\ merged'.sources = merged.sources \o stages[chain[next]].sources
    BY <1>3, MergeNextFields
  <2>2. outcome = "merging" /\ outcome' = "merging" /\ chain' = chain /\ next \in Nat
    BY <1>3 DEF MergeNext, TypeOK
  <2> DEFINE own == stages[chain[next]].sources
             rest == declared[next - 1]
             done == merged.sources
  <2>3. own \in Lists /\ rest \in Lists /\ done \in Lists
    BY <2>1, DeclaredDef DEF TypeOK, DerivedStage, Merged
  <2>4. (next - 1) + 1 = next
    BY <2>2
  <2>5. declared[next] = own \o rest
    BY <2>1, <2>4, DeclaredDef DEF Listed
  <2>6. (done \o own) \o rest = done \o (own \o rest)
    <3> HIDE DEF own, rest, done
    <3> QED
      BY <2>3, ConcatAssociative
  <2>7. done \o declared[next] = <<Base>> \o declared[Len(chain)]
    BY <2>2 DEF ListsInv
  <2>8. merged'.sources \o declared'[next'] = <<Base>> \o declared'[Len(chain')]
    BY <1>a, <2>1, <2>2, <2>5, <2>6, <2>7
  <2> QED
    BY <2>2, <2>8 DEF ListsInv
<1>4. CASE FinishMerge
  <2>1. outcome = "merging" /\ next = 0 /\ outcome' = "resolved" /\ chain' = chain
    BY <1>4 DEF FinishMerge
  <2>2. merged'.sources = merged.sources /\ merged.sources \in Lists
    BY <1>4 DEF FinishMerge, TypeOK, Merged
  <2>3. merged.sources \o declared[0] = merged.sources
    BY <2>2, DeclaredDef, ConcatEmptySeq
  <2>4. merged'.sources = <<Base>> \o declared[Len(chain)]
    BY <2>1, <2>2, <2>3 DEF ListsInv
  <2> QED
    BY <1>a, <2>1, <2>4 DEF ListsInv
<1>5. CASE UNCHANGED vars
  BY <1>a, <1>5 DEF vars, ListsInv
<1> QED
  BY <1>1, <1>2, <1>3, <1>4, <1>5 DEF Next

\* Above the chain nothing more is listed.
LEMMA NothingListedAbove ==
  ASSUME TypeOK, WalkInv, AtBase
  PROVE  \A k \in Nat : k >= Len(chain) => declared[k] = declared[Len(chain)]
<1> DEFINE len == Len(chain)
           bad == {k \in Nat : k >= len /\ declared[k] # declared[len]}
<1>1. len \in Nat
  BY DEF TypeOK
<1>2. \A k \in Nat : k >= len => ancestor[k] \notin DOMAIN stages
  BY ChainCoversStages
<1> HIDE DEF len
<1>3. ASSUME bad # {} PROVE FALSE
  <2>1. bad \in SUBSET Nat
    OBVIOUS
  <2>2. PICK k \in bad : \A j \in bad : k <= j
    BY <1>3, <2>1, LeastNatural
  <2>3. k \in Nat /\ k > len /\ declared[k] # declared[len]
    BY <1>1
  <2>4. k - 1 \in Nat /\ k - 1 >= len /\ ~ (k <= k - 1) /\ (k - 1) + 1 = k
    BY <1>1, <2>3
  <2>5. k - 1 \notin bad
    <3> HIDE DEF bad
    <3> QED
      BY <2>2, <2>4
  <2>6. declared[k - 1] = declared[len]
    BY <2>4, <2>5
  <2>7. declared[k] = Listed(ancestor[k - 1], declared[k - 1])
    BY <2>4, DeclaredDef
  <2> QED
    BY <1>2, <2>3, <2>4, <2>6, <2>7 DEF Listed
<1> QED
  BY <1>3 DEF len

LEMMA ListsEnough == TypeOK /\ ChainInv /\ WalkInv /\ ListsInv => ListsInOrder
<1> SUFFICES ASSUME TypeOK, ChainInv, WalkInv, ListsInv, outcome = "resolved"
             PROVE  merged.sources = <<Base>> \o declared[Cardinality(Name)]
  BY DEF ListsInOrder
<1>1. AtBase
  BY DEF WalkInv
<1>2. declared[Cardinality(Name)] = declared[Len(chain)]
  BY <1>1, ChainShort, NothingListedAbove
<1> QED
  BY <1>2 DEF ListsInv

\* However long the chain of a stage is, its lists are those of the base stage,
\* of each ancestor from the highest down, and its own, each exactly once.
THEOREM ListsAreInOrder == Spec => []ListsInOrder
<1>1. Spec => []ChainInv
  BY TypeCorrect, ChainInit, ChainNext, PTL DEF Spec
<1>2. Spec => []WalkInv
  BY TypeCorrect, WalkInit, WalkNext, PTL DEF Spec
<1>3. Spec => []ListsInv
  BY <1>2, TypeCorrect, ListsInit, ListsNext, PTL DEF Spec
<1> QED
  BY <1>1, <1>2, <1>3, TypeCorrect, ListsEnough, PTL

-----------------------------------------------------------------------------
(* The pointers: what is merged so far is what the nearest of the          *)
(* ancestors already merged gives.                                         *)

\* v is what the ancestors from the first one up to the end of the chain give.
NearestFrom(set, default, first, v) ==
  \/ \E k \in first..(Len(chain) - 1) :
       /\ set[ancestor[k]] # Nil /\ v = set[ancestor[k]]
       /\ \A j \in first..(k - 1) : set[ancestor[j]] = Nil
  \/ v = default /\ \A j \in first..(Len(chain) - 1) : set[ancestor[j]] = Nil

DevSet == [n \in DOMAIN stages |-> stages[n].dev]
FpmSet == [n \in DOMAIN stages |-> stages[n].fpm]
HealthcheckSet == [n \in DOMAIN stages |-> stages[n].healthcheck]

NearestInv ==
  /\ outcome = "merging" =>
       /\ NearestFrom(DevSet, FALSE, next, merged.dev)
       /\ NearestFrom(FpmSet, BaseStage.fpm, next, merged.fpm)
       /\ NearestFrom(HealthcheckSet, BaseStage.healthcheck, next, merged.healthcheck)
  /\ outcome = "resolved" =>
       /\ NearestFrom(DevSet, FALSE, 0, merged.dev)
       /\ NearestFrom(FpmSet, BaseStage.fpm, 0, merged.fpm)
       /\ \/ merged.healthcheck = Nil
          \/ NearestFrom(HealthcheckSet, BaseStage.healthcheck, 0, merged.healthcheck)
       /\ merged.healthcheck = TRUE => ~merged.dev

\* The stage merged last is nearer than all those before it.
LEMMA NearerOverrides ==
  ASSUME TypeOK, NEW set, NEW default, NEW v, NEW n \in Nat, n < Len(chain),
         NearestFrom(set, default, n + 1, v)
  PROVE  NearestFrom(set, default, n, Override(v, set[ancestor[n]]))
<1> DEFINE len == Len(chain)
           g(k) == set[ancestor[k]]
<1>1. len \in Nat /\ n < len
  BY DEF TypeOK
<1>2. \/ \E k \in (n + 1)..(len - 1) : /\ g(k) # Nil /\ v = g(k)
                                       /\ \A j \in (n + 1)..(k - 1) : g(j) = Nil
      \/ v = default /\ \A j \in (n + 1)..(len - 1) : g(j) = Nil
  BY DEF NearestFrom
<1> HIDE DEF len, g
<1>3. \/ \E k \in n..(len - 1) : /\ g(k) # Nil /\ Override(v, g(n)) = g(k)
                                 /\ \A j \in n..(k - 1) : g(j) = Nil
      \/ Override(v, g(n)) = default /\ \A j \in n..(len - 1) : g(j) = Nil
  <2>1. CASE g(n) # Nil
    <3>1. n \in n..(len - 1) /\ n..(n - 1) = {}
      BY <1>1
    <3> QED
      BY <2>1, <3>1 DEF Override
  <2>2. CASE g(n) = Nil
    <3>1. \A k \in Int : \A j \in n..k : j = n \/ j \in (n + 1)..k
      OBVIOUS
    <3>2. \A k \in (n + 1)..(len - 1) : k \in n..(len - 1) /\ k - 1 \in Int
      BY <1>1
    <3>3. Override(v, g(n)) = v /\ len - 1 \in Int
      BY <1>1, <2>2 DEF Override
    <3>4. CASE \E k \in (n + 1)..(len - 1) : /\ g(k) # Nil /\ v = g(k)
                                             /\ \A j \in (n + 1)..(k - 1) : g(j) = Nil
      BY <2>2, <3>1, <3>2, <3>3, <3>4
    <3>5. CASE v = default /\ \A j \in (n + 1)..(len - 1) : g(j) = Nil
      BY <2>2, <3>1, <3>3, <3>5
    <3> QED
      BY <1>2, <3>4, <3>5
  <2> QED
    BY <2>1, <2>2
<1> QED
  BY <1>3 DEF NearestFrom, len, g

LEMMA NearestInit == Init => NearestInv
BY DEF Init, NearestInv

LEMMA NearestNext == TypeOK /\ WalkInv /\ NearestInv /\ [Next]_vars => NearestInv'
<1> SUFFICES ASSUME TypeOK, WalkInv, NearestInv, [Next]_vars PROVE NearestInv'
  OBVIOUS
<1>0. UNCHANGED input
  BY DEF Next, FailCyclic, FailNotFound, WalkUp, StartMerge, MergeNext, FinishMerge, vars, input
<1>a. /\ ancestor' = ancestor /\ stages' = stages
      /\ DevSet' = DevSet /\ FpmSet' = FpmSet /\ HealthcheckSet' = HealthcheckSet
      /\ BaseStage' = BaseStage
  BY <1>0, SameAncestors DEF input, DevSet, FpmSet, HealthcheckSet, BaseStage
<1>1. CASE FailCyclic \/ FailNotFound \/ WalkUp
  BY <1>1 DEF FailCyclic, FailNotFound, WalkUp, NearestInv
<1>2. CASE StartMerge
  <2>1. /\ merged'.dev = FALSE /\ merged'.fpm = BaseStage.fpm
        /\ merged'.healthcheck = BaseStage.healthcheck
        /\ next' = Len(chain) /\ chain' = chain /\ outcome' = "merging"
    BY <1>2 DEF StartMerge, BaseStage
  <2>2. next'..(Len(chain) - 1) = {}
    BY <2>1 DEF TypeOK
  <2> QED
    BY <1>a, <2>1, <2>2 DEF NearestInv, NearestFrom
<1>3. CASE MergeNext
  <2>1. /\ next - 1 \in Nat /\ next - 1 < Len(chain) /\ next' = next - 1
        /\ chain[next] = ancestor[next - 1] /\ chain[next] \in DOMAIN stages
        /\ merged'.dev = Override(merged.dev, stages[chain[next]].dev)
        /\ merged'.fpm = Override(merged.fpm, stages[chain[next]].fpm)
        /\ merged'.healthcheck = Override(merged.healthcheck, stages[chain[next]].healthcheck)
    BY <1>3, MergeNextFields
  <2>2. outcome = "merging" /\ outcome' = "merging" /\ chain' = chain /\ (next - 1) + 1 = next
    BY <1>3 DEF MergeNext, TypeOK
  <2>3. /\ DevSet[ancestor[next - 1]] = stages[chain[next]].dev
        /\ FpmSet[ancestor[next - 1]] = stages[chain[next]].fpm
        /\ HealthcheckSet[ancestor[next - 1]] = stages[chain[next]].healthcheck
    BY <2>1 DEF DevSet, FpmSet, HealthcheckSet
  <2>4. NearestFrom(DevSet, FALSE, next', merged'.dev)
    <3>1. NearestFrom(DevSet, FALSE, (next - 1) + 1, merged.dev)
      BY <2>2 DEF NearestInv
    <3>2. NearestFrom(DevSet, FALSE, next - 1, Override(merged.dev, DevSet[ancestor[next - 1]]))
      BY <2>1, <3>1, NearerOverrides
    <3> QED
      BY <2>1, <2>3, <3>2
  <2>5. NearestFrom(FpmSet, BaseStage.fpm, next', merged'.fpm)
    <3>1. NearestFrom(FpmSet, BaseStage.fpm, (next - 1) + 1, merged.fpm)
      BY <2>2 DEF NearestInv
    <3>2. NearestFrom(FpmSet, BaseStage.fpm, next - 1,
                      Override(merged.fpm, FpmSet[ancestor[next - 1]]))
      BY <2>1, <3>1, NearerOverrides
    <3> QED
      BY <2>1, <2>3, <3>2
  <2>6. NearestFrom(HealthcheckSet, BaseStage.healthcheck, next', merged'.healthcheck)
    <3>1. NearestFrom(HealthcheckSet, BaseStage.healthcheck, (next - 1) + 1, merged.healthcheck)
      BY <2>2 DEF NearestInv
    <3>2. NearestFrom(HealthcheckSet, BaseStage.healthcheck, next - 1,
                      Override(merged.healthcheck, HealthcheckSet[ancestor[next - 1]]))
      BY <2>1, <3>1, NearerOverrides
    <3> QED
      BY <2>1, <2>3, <3>2
  <2> QED
    BY <1>a, <2>2, <2>4, <2>5, <2>6 DEF NearestInv, NearestFrom
<1>4. CASE FinishMerge
  <2>1. /\ outcome = "merging" /\ next = 0 /\ outcome' = "resolved"
        /\ chain' = chain /\ merged \in Merged
    BY <1>4 DEF FinishMerge, TypeOK
  <2>2. /\ merged'.dev = merged.dev /\ merged'.fpm = merged.fpm
        /\ \/ Unserved /\ merged'.healthcheck = Nil
           \/ ~Unserved /\ merged'.healthcheck = merged.healthcheck
    BY <1>4, <2>1 DEF FinishMerge, Merged
  <2>3. merged'.healthcheck = TRUE => ~merged'.dev
    BY <2>2, ChainAssumption DEF Unserved
  <2>4. /\ NearestFrom(DevSet, FALSE, 0, merged'.dev)
        /\ NearestFrom(FpmSet, BaseStage.fpm, 0, merged'.fpm)
        /\ \/ merged'.healthcheck = Nil
           \/ NearestFrom(HealthcheckSet, BaseStage.healthcheck, 0, merged'.healthcheck)
    BY <2>1, <2>2 DEF NearestInv
  <2> QED
    BY <1>a, <2>1, <2>3, <2>4 DEF NearestInv, NearestFrom
<1>5. CASE UNCHANGED vars
  <2>1. UNCHANGED <<outcome, merged, next, chain>>
    BY <1>5 DEF vars
  <2> QED
    BY <1>a, <2>1 DEF NearestInv, NearestFrom
<1> QED
  BY <1>1, <1>2, <1>3, <1>4, <1>5 DEF Next

LEMMA NearestOfAll ==
  ASSUME TypeOK, ChainInv, WalkInv, AtBase, NEW set, NEW default, NEW v,
         NearestFrom(set, default, 0, v)
  PROVE  v = Nearest(set, default)
<1>1. /\ Cardinality(Name) \in Nat /\ Len(chain) \in Nat /\ Len(chain) <= Cardinality(Name)
      /\ \A k \in Nat : k < Len(chain) => ancestor[k] \in DOMAIN stages
      /\ \A k \in Nat : k >= Len(chain) => ancestor[k] \notin DOMAIN stages
  BY ChainShort, ChainCoversStages
<1>2. \A k : k \in Setters(set) <=> k \in 0..(Len(chain) - 1) /\ set[ancestor[k]] # Nil
  BY <1>1 DEF Setters, Steps
<1>3. CASE v = default /\ \A j \in 0..(Len(chain) - 1) : set[ancestor[j]] = Nil
  <2>1. Setters(set) = {}
    BY <1>2, <1>3
  <2> QED
    BY <1>3, <2>1 DEF Nearest
<1>4. CASE \E k \in 0..(Len(chain) - 1) : /\ set[ancestor[k]] # Nil /\ v = set[ancestor[k]]
                                          /\ \A j \in 0..(k - 1) : set[ancestor[j]] = Nil
  <2>1. PICK k \in 0..(Len(chain) - 1) : /\ set[ancestor[k]] # Nil /\ v = set[ancestor[k]]
                                         /\ \A j \in 0..(k - 1) : set[ancestor[j]] = Nil
    BY <1>4
  <2>2. k \in Setters(set)
    BY <1>2, <2>1
  <2>3. ASSUME NEW l \in Setters(set) PROVE l \in Nat /\ k <= l
    <3>1. l \in 0..(Len(chain) - 1) /\ set[ancestor[l]] # Nil
      BY <1>2
    <3>2. l \notin 0..(k - 1)
      BY <2>1, <3>1
    <3> QED
      BY <1>1, <3>1, <3>2
  <2> DEFINE least == CHOOSE m \in Setters(set) : \A l \in Setters(set) : m <= l
  <2>4. least \in Setters(set) /\ \A l \in Setters(set) : least <= l
    BY <2>2, <2>3
  <2> HIDE DEF least
  <2>5. least = k
    BY <2>2, <2>3, <2>4
  <2>6. Nearest(set, default) = set[ancestor[least]]
    BY <2>2, Zenon DEF Nearest, least
  <2> QED
    BY <2>1, <2>5, <2>6
<1> QED
  BY <1>3, <1>4 DEF NearestFrom

LEMMA NearestEnough == TypeOK /\ ChainInv /\ WalkInv /\ NearestInv => NearestWins
<1> SUFFICES ASSUME TypeOK, ChainInv, WalkInv, NearestInv, outcome = "resolved" PROVE NearestWins
  BY DEF NearestWins
<1>1. AtBase
  BY DEF WalkInv
<1>2. /\ NearestFrom(DevSet, FALSE, 0, merged.dev)
      /\ NearestFrom(FpmSet, BaseStage.fpm, 0, merged.fpm)
      /\ \/ merged.healthcheck = Nil
         \/ NearestFrom(HealthcheckSet, BaseStage.healthcheck, 0, merged.healthcheck)
      /\ merged.healthcheck = TRUE => ~merged.dev
  BY DEF NearestInv
<1>3. merged.dev = Nearest(DevSet, FALSE)
  BY <1>1, <1>2, NearestOfAll
<1>4. merged.fpm = Nearest(FpmSet, BaseStage.fpm)
  BY <1>1, <1>2, NearestOfAll
<1>5. merged.healthcheck \in {Nil, Nearest(HealthcheckSet, BaseStage.healthcheck)}
  BY <1>1, <1>2, NearestOfAll
<1> QED
  BY <1>2, <1>3, <1>4, <1>5 DEF NearestWins, DevSet, FpmSet, HealthcheckSet

\* A stage's dev, fpm and healthcheck are those of its nearest ancestor that
\* sets them, however many stages it is derived through; a healthcheck left out
\* is the only exception, and a dev stage never has one.
THEOREM NearestAncestorWins == Spec => []NearestWins
<1>1. Spec => []ChainInv
  BY TypeCorrect, ChainInit, ChainNext, PTL DEF Spec
<1>2. Spec => []WalkInv
  BY TypeCorrect, WalkInit, WalkNext, PTL DEF Spec
<1>3. Spec => []NearestInv
  BY <1>2, TypeCorrect, NearestInit, NearestNext, PTL DEF Spec
<1> QED
  BY <1>1, <1>2, <1>3, TypeCorrect, NearestEnough, PTL
=============================================================================
