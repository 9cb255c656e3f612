-------------------------- MODULE CalculationProofs --------------------------
(***************************************************************************)
(* Proofs about what the pages calculate.                                  *)
(*                                                                         *)
(* BuildChain: type correctness, that the runs of a step make what is      *)
(* needed and little more, that no demand is lost from level to level,     *)
(* that the recursion guard cuts nothing of a catalog it can hold, and     *)
(* that components are listed first.                                       *)
(*                                                                         *)
(* Planetary: that every starting tier takes the same raw materials.       *)
(*                                                                         *)
(* Both rest on the facts about sums, exact divisions and functions by     *)
(* recursion on the naturals in the middle of this module.                 *)
(***************************************************************************)
EXTENDS BuildChain, Planetary, SequenceTheorems, FiniteSetTheorems,
        WellFoundedInduction, TLAPS

-----------------------------------------------------------------------------
(* Types *)

LEMMA BlueprintType ==
  ASSUME catalog \in Catalogs, NEW t \in Types, HasBlueprint(t)
  PROVE  /\ catalog[t].product_quantity \in Nat \ {0}
         /\ catalog[t].materials \in [Types -> Nat]
BY CatalogsOfBlueprints DEF HasBlueprint, Produced, Blueprints, NoBlueprint

\* What the floor division of naturals yields.
LEMMA DivBounds ==
  ASSUME NEW a \in Nat, NEW b \in Nat \ {0}
  PROVE  /\ a \div b \in Nat
         /\ (a \div b) * b <= a
         /\ a < (a \div b) * b + b
OBVIOUS

LEMMA NatProduct ==
  ASSUME NEW a \in Nat, NEW b \in Nat
  PROVE  a * b \in Nat
OBVIOUS

\* The runs of one level make what the level needs, and less than one run more.
LEMMA RunsEnough ==
  ASSUME catalog \in Catalogs, NEW t \in Types, HasBlueprint(t), NEW l \in Nat \ {0}
  PROVE  /\ RunsFor(t, l) \in Nat \ {0}
         /\ l <= RunsFor(t, l) * catalog[t].product_quantity
         /\ RunsFor(t, l) * catalog[t].product_quantity
              <= l + (catalog[t].product_quantity - 1)
<1> DEFINE q == catalog[t].product_quantity
           n == (l + q - 1) \div q
<1>1. q \in Nat \ {0}
  BY BlueprintType
<1>2. l + q - 1 \in Nat
  BY <1>1
<1>3. n \in Nat /\ n * q <= l + q - 1 /\ l + q - 1 < n * q + q
  BY <1>1, <1>2, DivBounds
<1>4. n # 0
  <2>1. SUFFICES ASSUME n = 0 PROVE FALSE
    OBVIOUS
  <2>2. n * q = 0
    BY <2>1, <1>1
  <2> QED
    BY <2>2, <1>3, <1>1
<1>5. RunsFor(t, l) = n
  BY <1>3, <1>4 DEF RunsFor, CeilDiv
<1>6. n * q \in Nat
  BY <1>1, <1>3
<1> QED
  BY <1>1, <1>3, <1>4, <1>5, <1>6

\* The last element of a sequence and what is left without it.
LEMMA PopOfSeq ==
  ASSUME NEW S, NEW s \in Seq(S), s # <<>>
  PROVE  /\ Len(s) \in Nat \ {0}
         /\ s[Len(s)] \in S
         /\ SubSeq(s, 1, Len(s) - 1) \in Seq(S)
         /\ Len(SubSeq(s, 1, Len(s) - 1)) = Len(s) - 1
         /\ \A i \in 1..(Len(s) - 1) : SubSeq(s, 1, Len(s) - 1)[i] = s[i]
<1>1. Len(s) \in Nat \ {0} /\ DOMAIN s = 1..Len(s)
  OBVIOUS
<1>2. Len(s) \in DOMAIN s
  BY <1>1
<1>3. \A i \in 1..(Len(s) - 1) : s[i] \in S
  BY <1>1
<1> DEFINE n == Len(s) - 1
<1>4. n \in Nat
  BY <1>1
<1>5. /\ SubSeq(s, 1, n) \in Seq(S)
      /\ Len(SubSeq(s, 1, n)) = IF 1 <= n THEN n - 1 + 1 ELSE 0
      /\ \A i \in 1..(n - 1 + 1) : SubSeq(s, 1, n)[i] = s[1 + i - 1]
  BY <1>3, <1>4, SubSeqProperties
<1>6. \A i \in 1..n : SubSeq(s, 1, n)[i] = s[i]
  BY <1>4, <1>5
<1>7. s[Len(s)] \in S
  BY <1>2, ElementOfSeq
<1> QED
  BY <1>1, <1>4, <1>5, <1>6, <1>7

LEMMA InitType == Init => TypeOK
BY BoundsAreNat DEF Init, TypeOK, Nothing, NoStep, BuildSteps, Documents

\* A step of Build leaves well-typed steps and demand.
LEMMA BuildType ==
  ASSUME TypeOK, NEW t \in Types, Build(t)
  PROVE  TypeOK'
<1> DEFINE runs == RunsFor(t, current_level[t])
           needed == [m \in Types |-> catalog[t].materials[m] * runs]
           grown == [quantity_needed |-> steps[t].quantity_needed + current_level[t],
                     runs |-> steps[t].runs + runs,
                     materials |-> [m \in Types |-> steps[t].materials[m] + needed[m]]]
<1>1. current_level[t] \in Nat \ {0} /\ HasBlueprint(t)
  BY DEF Build, TypeOK, Expanded
<1>2. runs \in Nat
  BY <1>1, RunsEnough DEF TypeOK
<1>a. catalog[t].materials \in [Types -> Nat]
  BY <1>1, BlueprintType DEF TypeOK
<1>b. ASSUME NEW m \in Types PROVE catalog[t].materials[m] * runs \in Nat
  <2> HIDE DEF runs
  <2>1. catalog[t].materials[m] \in Nat
    BY <1>a
  <2> QED
    BY <2>1, <1>2, NatProduct
<1>3. needed \in [Types -> Nat]
  BY <1>b
<1>c. steps[t] \in BuildSteps
  BY DEF TypeOK
<1>d. /\ steps[t].quantity_needed \in Nat /\ steps[t].runs \in Nat
      /\ steps[t].materials \in [Types -> Nat]
  BY <1>c DEF BuildSteps
<1>4. grown \in BuildSteps
  <2> HIDE DEF needed, runs
  <2>1. [m \in Types |-> steps[t].materials[m] + needed[m]] \in [Types -> Nat]
    BY <1>3, <1>d
  <2>2. steps[t].quantity_needed + current_level[t] \in Nat /\ steps[t].runs + runs \in Nat
    BY <1>1, <1>2, <1>d
  <2> QED
    BY <2>1, <2>2 DEF BuildSteps
<1>5. steps' = [steps EXCEPT ![t] = grown]
  BY DEF Build
<1>6. next_level' = [m \in Types |-> next_level[m] + needed[m]]
  BY DEF Build
<1> HIDE DEF runs, needed, grown
<1>7. steps' \in [Types -> BuildSteps]
  BY <1>4, <1>5 DEF TypeOK
<1>8. next_level' \in [Types -> Nat]
  <2>1. next_level \in [Types -> Nat]
    BY DEF TypeOK
  <2> QED
    BY <1>3, <1>6, <2>1
<1>9. current_level' \in [Types -> Nat]
  BY DEF Build, TypeOK
<1> QED
  BY <1>7, <1>8, <1>9 DEF Build, TypeOK, request, listing

LEMMA TypeStep == TypeOK /\ [Next]_vars => TypeOK'
<1> SUFFICES ASSUME TypeOK, [Next]_vars PROVE TypeOK'
  OBVIOUS
<1>1. ASSUME NEW t \in Types, Buy(t) PROVE TypeOK'
  BY <1>1 DEF Buy, TypeOK, request, listing
<1>2. ASSUME NEW t \in Types, Build(t) PROVE TypeOK'
  BY <1>2, BuildType
<1>3. ASSUME NEW t \in Types, Visit(t) PROVE TypeOK'
  <2>1. path' \in Seq(Types)
    BY <1>3 DEF Visit, TypeOK
  <2> QED
    BY <1>3, <2>1 DEF Visit, TypeOK, request, walk
<1>4. CASE NextLevel
  <2>1. depth' \in 0..MaxDepth
    BY <1>4, BoundsAreNat DEF NextLevel, TypeOK
  <2> QED
    BY <1>4, <2>1 DEF NextLevel, TypeOK, request, listing, Nothing
<1>5. CASE Leftover
  BY <1>5 DEF Leftover, TypeOK, request, Nothing
<1>6. CASE Finish
  <2>1. path \in Seq(Types) /\ path # <<>> /\ ordered \in Seq(Types)
    BY <1>6 DEF Finish, TypeOK
  <2>2. Top \in Types /\ Pop \in Seq(Types)
    BY <2>1, PopOfSeq DEF Top, Pop
  <2>3. path' \in Seq(Types) /\ ordered' \in Seq(Types)
    BY <1>6, <2>1, <2>2 DEF Finish
  <2> QED
    BY <1>6, <2>3 DEF Finish, TypeOK, request, walk
<1>7. CASE Return
  BY <1>7 DEF Return, TypeOK, request, walk, listing
<1>8. ASSUME NEW t \in Types, Import(t) PROVE TypeOK'
  BY <1>8 DEF Import, TypeOK, Documents, walk, listing
<1>9. CASE UNCHANGED vars
  BY <1>9 DEF TypeOK, vars, request, walk, listing
<1> QED
  BY <1>1, <1>2, <1>3, <1>4, <1>5, <1>6, <1>7, <1>8, <1>9 DEF Next

\* Type correctness of the walk and the listing, for any catalogs and bounds.
THEOREM TypeCorrect == Spec => []TypeOK
<1>1. Init => TypeOK
  BY InitType
<1>2. TypeOK /\ [Next]_vars => TypeOK'
  BY TypeStep
<1> QED
  BY <1>1, <1>2, PTL DEF Spec

-----------------------------------------------------------------------------
(* The walk *)

\* A step exists only for a type that is built, and demands only materials of
\* its blueprint.
StepsInv ==
  \A t \in Types :
    /\ ~Planned(t) => steps[t] = NoStep
    /\ Planned(t) => Expanded(t)
    /\ \A m \in Types : steps[t].materials[m] > 0 => Planned(t) /\ catalog[t].materials[m] > 0

LEMMA SumPositive ==
  ASSUME NEW a \in Nat, NEW b \in Nat, NEW r \in Nat \ {0}
  PROVE  a + b * r \in Nat /\ (a + b * r > 0 <=> a > 0 \/ b > 0)
<1>1. CASE b = 0
  BY <1>1
<1>2. CASE b # 0
  <2>1. b * r >= r
    BY <1>2
  <2> QED
    BY <1>2, <2>1
<1> QED
  BY <1>1, <1>2

\* What building type t changes.
LEMMA BuildEffect ==
  ASSUME TypeOK, NEW t \in Types, Build(t)
  PROVE  /\ current_level[t] \in Nat \ {0} /\ Expanded(t) /\ stage = "expand"
         /\ RunsFor(t, current_level[t]) \in Nat \ {0}
         /\ steps'[t].quantity_needed = steps[t].quantity_needed + current_level[t]
         /\ steps'[t].runs = steps[t].runs + RunsFor(t, current_level[t])
         /\ Planned(t)'
         /\ \A m \in Types :
              /\ steps'[t].materials[m] > 0 <=>
                   steps[t].materials[m] > 0 \/ catalog[t].materials[m] > 0
              /\ next_level'[m] > 0 <=> next_level[m] > 0 \/ catalog[t].materials[m] > 0
         /\ current_level'[t] = 0
         /\ \A u \in Types \ {t} : steps'[u] = steps[u] /\ current_level'[u] = current_level[u]
<1> DEFINE runs == RunsFor(t, current_level[t])
           needed == [m \in Types |-> catalog[t].materials[m] * runs]
           materials == [m \in Types |-> steps[t].materials[m] + needed[m]]
           grown == [quantity_needed |-> steps[t].quantity_needed + current_level[t],
                     runs |-> steps[t].runs + runs,
                     materials |-> materials]
<1>1. current_level[t] \in Nat \ {0} /\ Expanded(t) /\ HasBlueprint(t) /\ stage = "expand"
  BY DEF Build, TypeOK, Expanded
<1>2. runs \in Nat \ {0}
  BY <1>1, RunsEnough DEF TypeOK
<1>3. steps[t] \in BuildSteps
  BY DEF TypeOK
<1>4. steps[t].runs \in Nat /\ steps[t].materials \in [Types -> Nat]
  BY <1>3 DEF BuildSteps
<1>5. catalog[t].materials \in [Types -> Nat]
  BY <1>1, BlueprintType DEF TypeOK
<1>6. steps' = [steps EXCEPT ![t] = grown]
  BY DEF Build
<1>7. next_level' = [m \in Types |-> next_level[m] + needed[m]]
  BY DEF Build
<1>8. current_level' = [current_level EXCEPT ![t] = 0]
  BY DEF Build
<1>9. steps'[t] = grown /\ \A u \in Types \ {t} : steps'[u] = steps[u]
  <2> HIDE DEF grown
  <2> QED
    BY <1>6 DEF TypeOK
<1>10. ASSUME NEW m \in Types
       PROVE  /\ materials[m] > 0 <=> steps[t].materials[m] > 0 \/ catalog[t].materials[m] > 0
              /\ next_level'[m] > 0 <=> next_level[m] > 0 \/ catalog[t].materials[m] > 0
  <2>1. /\ materials[m] = steps[t].materials[m] + catalog[t].materials[m] * runs
        /\ next_level'[m] = next_level[m] + catalog[t].materials[m] * runs
    BY <1>7
  <2>2. next_level[m] \in Nat
    BY DEF TypeOK
  <2>3. steps[t].materials[m] \in Nat /\ catalog[t].materials[m] \in Nat
    BY <1>4, <1>5
  <2> HIDE DEF runs, materials, needed
  <2>4. steps[t].materials[m] + catalog[t].materials[m] * runs > 0 <=>
          steps[t].materials[m] > 0 \/ catalog[t].materials[m] > 0
    BY <1>2, <2>3, SumPositive
  <2>5. next_level[m] + catalog[t].materials[m] * runs > 0 <=>
          next_level[m] > 0 \/ catalog[t].materials[m] > 0
    BY <1>2, <2>2, <2>3, SumPositive
  <2> QED
    BY <2>1, <2>4, <2>5
<1>11. steps'[t].runs > 0
  <2> HIDE DEF runs, materials
  <2> QED
    BY <1>2, <1>4, <1>9
<1> QED
  <2> HIDE DEF runs, needed, materials
  <2>1. current_level'[t] = 0 /\ \A u \in Types \ {t} : current_level'[u] = current_level[u]
    BY <1>8 DEF TypeOK
  <2> QED
    BY <1>1, <1>2, <1>9, <1>10, <1>11, <2>1 DEF Planned, runs

LEMMA StepsStep ==
  ASSUME TypeOK, StepsInv, [Next]_vars
  PROVE  StepsInv'
<1>1. ASSUME NEW t \in Types, Build(t) PROVE StepsInv'
  <2>1. UNCHANGED <<catalog, documents, target, build_set>>
    BY <1>1 DEF Build, request
  <2>2. ASSUME NEW u \in Types
        PROVE  /\ ~Planned(u)' => steps'[u] = NoStep
               /\ Planned(u)' => Expanded(u)'
               /\ \A m \in Types : steps'[u].materials[m] > 0 =>
                    Planned(u)' /\ catalog'[u].materials[m] > 0
    <3>1. CASE u = t
      BY <1>1, <2>1, <3>1, BuildEffect DEF StepsInv, Expanded, HasBlueprint, Produced
    <3>2. CASE u # t
      <4>1. steps'[u] = steps[u]
        BY <1>1, <3>2, BuildEffect
      <4> QED
        BY <2>1, <4>1 DEF StepsInv, Expanded, HasBlueprint, Produced, Planned
    <3> QED
      BY <3>1, <3>2
  <2> QED
    BY <2>2 DEF StepsInv, NoStep, Nothing
<1>2. ASSUME UNCHANGED <<catalog, target, build_set, steps>>,
             \A t \in Types : documents[t] # "awaited" => documents'[t] # "awaited"
      PROVE  StepsInv'
  BY <1>2 DEF StepsInv, Expanded, HasBlueprint, Produced, Planned
<1>3. ASSUME NEW t \in Types, Import(t) PROVE StepsInv'
  <2>1. \A u \in Types : documents[u] # "awaited" => documents'[u] # "awaited"
    BY <1>3 DEF Import, TypeOK
  <2> QED
    BY <1>2, <1>3, <2>1 DEF Import, walk
<1>4. \/ UNCHANGED <<catalog, documents, target, build_set, steps>>
      \/ \E t \in Types : Build(t) \/ Import(t)
  BY DEF Next, Buy, Visit, NextLevel, Leftover, Finish, Return, vars, request, walk
<1> QED
  BY <1>1, <1>2, <1>3, <1>4

LEMMA StepsInit == Init => StepsInv
BY DEF Init, StepsInv, Planned, NoStep, Nothing

THEOREM StepsSound == Spec => [](TypeOK /\ StepsInv)
<1>1. Init => TypeOK /\ StepsInv
  BY InitType, StepsInit
<1>2. TypeOK /\ StepsInv /\ [Next]_vars => (TypeOK /\ StepsInv)'
  BY TypeStep, StepsStep
<1> QED
  BY <1>1, <1>2, PTL DEF Spec

-----------------------------------------------------------------------------
(* Runs *)

\* The levels in which the need of type t may have been rounded up: the one
\* being expanded counts once t was its turn.
Rounded(t) == IF current_level[t] > 0 THEN depth ELSE depth + 1

\* EnoughIsBuilt, with the exact number of times the runs were rounded up.
RunsInv ==
  \A t \in Types : Planned(t) =>
    LET q == catalog[t].product_quantity
    IN  /\ steps[t].quantity_needed <= steps[t].runs * q
        /\ steps[t].runs * q <= steps[t].quantity_needed + Rounded(t) * (q - 1)

\* One more level: the runs grow by r, what is needed by l.
LEMMA RoundedOnce ==
  ASSUME NEW q \in Nat \ {0}, NEW n \in Nat, NEW r0 \in Nat, NEW d \in Nat,
         NEW l \in Nat, NEW r \in Nat,
         n <= r0 * q, r0 * q <= n + d * (q - 1),
         l <= r * q, r * q <= l + (q - 1)
  PROVE  /\ n + l <= (r0 + r) * q
         /\ (r0 + r) * q <= (n + l) + (d + 1) * (q - 1)
<1>1. (r0 + r) * q = r0 * q + r * q
  OBVIOUS
<1>2. (d + 1) * (q - 1) = d * (q - 1) + (q - 1)
  OBVIOUS
<1>3. r0 * q \in Nat /\ r * q \in Nat /\ d * (q - 1) \in Nat
  BY NatProduct
<1> QED
  BY <1>1, <1>2, <1>3

\* A larger number of levels allows more.
LEMMA RoundedMore ==
  ASSUME NEW q \in Nat \ {0}, NEW d \in Nat, NEW e \in Nat, d <= e
  PROVE  d * (q - 1) <= e * (q - 1) /\ d * (q - 1) \in Nat /\ e * (q - 1) \in Nat
<1>1. PICK k \in Nat : e = d + k
  <2>1. e - d \in Nat /\ e = d + (e - d)
    OBVIOUS
  <2> QED
    BY <2>1
<1>2. e * (q - 1) = d * (q - 1) + k * (q - 1)
  BY <1>1
<1>3. k * (q - 1) \in Nat /\ d * (q - 1) \in Nat
  BY NatProduct
<1> QED
  BY <1>2, <1>3

LEMMA RunsBuild ==
  ASSUME TypeOK, StepsInv, RunsInv, NEW t \in Types, Build(t)
  PROVE  RunsInv'
<1> DEFINE q == catalog[t].product_quantity
           r == RunsFor(t, current_level[t])
<1>1. UNCHANGED <<catalog, depth>>
  BY DEF Build, request
<1>2. ASSUME NEW u \in Types, Planned(u)', u # t
      PROVE  /\ steps'[u].quantity_needed <= steps'[u].runs * catalog'[u].product_quantity
             /\ steps'[u].runs * catalog'[u].product_quantity
                  <= steps'[u].quantity_needed + Rounded(u)' * (catalog'[u].product_quantity - 1)
  <2>1. steps'[u] = steps[u] /\ current_level'[u] = current_level[u]
    BY <1>2, BuildEffect
  <2>2. Planned(u) /\ Rounded(u)' = Rounded(u)
    BY <1>1, <1>2, <2>1 DEF Planned, Rounded
  <2> QED
    BY <1>1, <2>1, <2>2 DEF RunsInv
<1>3. /\ steps'[t].quantity_needed <= steps'[t].runs * q
      /\ steps'[t].runs * q <= steps'[t].quantity_needed + Rounded(t)' * (q - 1)
  <2>1. /\ current_level[t] \in Nat \ {0} /\ Expanded(t) /\ HasBlueprint(t)
        /\ r \in Nat
        /\ steps'[t].quantity_needed = steps[t].quantity_needed + current_level[t]
        /\ steps'[t].runs = steps[t].runs + r
        /\ current_level'[t] = 0
    BY BuildEffect DEF Expanded
  <2>2. q \in Nat \ {0}
    BY <2>1, BlueprintType DEF TypeOK
  <2>3. current_level[t] <= r * q /\ r * q <= current_level[t] + (q - 1)
    BY <2>1, RunsEnough DEF TypeOK
  <2>4. steps[t].quantity_needed \in Nat /\ steps[t].runs \in Nat /\ depth \in Nat
    <3>1. steps[t] \in BuildSteps
      BY DEF TypeOK
    <3> QED
      BY <3>1, BoundsAreNat DEF BuildSteps, TypeOK
  <2>5. steps[t].quantity_needed <= steps[t].runs * q
        /\ steps[t].runs * q <= steps[t].quantity_needed + depth * (q - 1)
    <3>1. CASE Planned(t)
      BY <2>1, <3>1 DEF RunsInv, Rounded
    <3>2. CASE ~Planned(t)
      <4>1. steps[t].quantity_needed = 0 /\ steps[t].runs = 0
        BY <3>2 DEF StepsInv, NoStep
      <4>2. depth * (q - 1) \in Nat
        BY <2>2, <2>4, NatProduct
      <4> QED
        BY <2>2, <4>1, <4>2
    <3> QED
      BY <3>1, <3>2
  <2>6. Rounded(t)' = depth + 1
    BY <1>1, <2>1 DEF Rounded
  <2> HIDE DEF q, r
  <2>7. /\ steps[t].quantity_needed + current_level[t] <= (steps[t].runs + r) * q
        /\ (steps[t].runs + r) * q
             <= (steps[t].quantity_needed + current_level[t]) + (depth + 1) * (q - 1)
    BY <2>1, <2>2, <2>3, <2>4, <2>5, RoundedOnce
  <2> QED
    BY <2>1, <2>6, <2>7
<1> QED
  BY <1>1, <1>2, <1>3 DEF RunsInv

\* No other step plans runs, and none takes back a level.
LEMMA RunsKept ==
  ASSUME TypeOK, StepsInv, RunsInv, UNCHANGED <<catalog, steps>>,
         depth' \in Nat, \A t \in Types : Rounded(t) <= Rounded(t)'
  PROVE  RunsInv'
<1> SUFFICES ASSUME NEW t \in Types, Planned(t)'
             PROVE  /\ steps'[t].quantity_needed <= steps'[t].runs * catalog'[t].product_quantity
                    /\ steps'[t].runs * catalog'[t].product_quantity
                         <= steps'[t].quantity_needed
                              + Rounded(t)' * (catalog'[t].product_quantity - 1)
  BY DEF RunsInv
<1> DEFINE q == catalog[t].product_quantity
<1>1. Planned(t) /\ HasBlueprint(t)
  BY DEF Planned, StepsInv, Expanded
<1>2. q \in Nat \ {0}
  BY <1>1, BlueprintType DEF TypeOK
<1>3. Rounded(t) \in Nat /\ Rounded(t)' \in Nat
  <2>1. depth \in Nat
    BY BoundsAreNat DEF TypeOK
  <2>2. Rounded(t) \in Nat
    BY <2>1 DEF Rounded
  <2>3. Rounded(t)' \in Nat
    <3>1. Rounded(t)' = depth' \/ Rounded(t)' = depth' + 1
      BY Zenon DEF Rounded
    <3> QED
      BY <3>1
  <2> QED
    BY <2>2, <2>3
<1>4. /\ steps[t].quantity_needed <= steps[t].runs * q
      /\ steps[t].runs * q <= steps[t].quantity_needed + Rounded(t) * (q - 1)
  BY <1>1 DEF RunsInv
<1>5. steps[t].quantity_needed \in Nat /\ steps[t].runs \in Nat
  <2>1. steps[t] \in BuildSteps
    BY DEF TypeOK
  <2> QED
    BY <2>1 DEF BuildSteps
<1> HIDE DEF q
<1>6. steps[t].runs * q \in Nat
  BY <1>2, <1>5, NatProduct
<1>7. /\ Rounded(t) * (q - 1) <= Rounded(t)' * (q - 1)
      /\ Rounded(t) * (q - 1) \in Nat /\ Rounded(t)' * (q - 1) \in Nat
  BY <1>2, <1>3, RoundedMore
<1>8. steps[t].runs * q <= steps[t].quantity_needed + Rounded(t)' * (q - 1)
  BY <1>4, <1>5, <1>6, <1>7
<1> QED
  BY <1>4, <1>8 DEF q

LEMMA RunsStep ==
  ASSUME TypeOK, StepsInv, RunsInv, [Next]_vars
  PROVE  RunsInv'
<1>0. depth \in Nat /\ current_level \in [Types -> Nat] /\ next_level \in [Types -> Nat]
  BY BoundsAreNat DEF TypeOK
<1>1. ASSUME NEW t \in Types, Build(t) PROVE RunsInv'
  BY <1>1, RunsBuild
<1>2. ASSUME NEW t \in Types, Buy(t) PROVE RunsInv'
  <2>1. UNCHANGED <<catalog, steps, depth>>
    BY <1>2 DEF Buy, request
  <2>2. \A u \in Types : Rounded(u) <= Rounded(u)'
    BY <1>0, <1>2 DEF Buy, Rounded
  <2> QED
    BY <1>0, <2>1, <2>2, RunsKept
<1>3. CASE NextLevel
  <2>1. UNCHANGED <<catalog, steps>> /\ depth' = depth + 1
    BY <1>3 DEF NextLevel, request
  <2>2. ASSUME NEW u \in Types PROVE Rounded(u) <= Rounded(u)'
    <3>1. current_level[u] = 0
      BY <1>3 DEF NextLevel, Nothing
    <3>2. Rounded(u) = depth + 1
      BY <1>0, <3>1 DEF Rounded
    <3>3. Rounded(u)' = depth + 1 \/ Rounded(u)' = depth + 2
      BY <1>0, <2>1 DEF Rounded
    <3> QED
      BY <1>0, <3>2, <3>3
  <2> QED
    BY <1>0, <2>1, <2>2, RunsKept
<1>4. CASE Leftover
  <2>1. UNCHANGED <<catalog, steps, depth>>
    BY <1>4 DEF Leftover, request
  <2>2. \A u \in Types : Rounded(u) <= Rounded(u)'
    BY <1>0, <1>4, <2>1 DEF Leftover, Rounded, Nothing
  <2> QED
    BY <1>0, <2>1, <2>2, RunsKept
<1>5. ASSUME UNCHANGED <<catalog, walk>> PROVE RunsInv'
  <2>1. UNCHANGED <<catalog, steps, depth, current_level>>
    BY <1>5 DEF walk
  <2>2. \A u \in Types : Rounded(u) <= Rounded(u)'
    BY <1>0, <2>1 DEF Rounded
  <2> QED
    BY <1>0, <2>1, <2>2, RunsKept
<1> QED
  BY <1>1, <1>2, <1>3, <1>4, <1>5 DEF Next, Visit, Import, Finish, Return, vars, request

\* The runs of every step suffice, and waste at most product_quantity - 1 pieces
\* per level: for any catalog, quantity and depth.
THEOREM EnoughBuilt == Spec => []EnoughIsBuilt
<1>1. Init => RunsInv
  BY DEF Init, RunsInv, Planned, NoStep
<1>2. TypeOK /\ StepsInv /\ RunsInv /\ [Next]_vars => RunsInv'
  BY RunsStep
<1>3. TypeOK /\ StepsInv /\ RunsInv => EnoughIsBuilt
  <2> SUFFICES ASSUME TypeOK, StepsInv, RunsInv, NEW t \in Types, Planned(t)
               PROVE  /\ steps[t].quantity_needed <= steps[t].runs * catalog[t].product_quantity
                      /\ steps[t].runs * catalog[t].product_quantity
                           <= steps[t].quantity_needed
                                + (depth + 1) * (catalog[t].product_quantity - 1)
    BY DEF EnoughIsBuilt
  <2> DEFINE q == catalog[t].product_quantity
  <2>1. q \in Nat \ {0}
    BY BlueprintType DEF TypeOK, StepsInv, Expanded
  <2>2. Rounded(t) \in Nat /\ depth + 1 \in Nat /\ Rounded(t) <= depth + 1
    BY BoundsAreNat DEF Rounded, TypeOK
  <2>3. /\ steps[t].quantity_needed <= steps[t].runs * q
        /\ steps[t].runs * q <= steps[t].quantity_needed + Rounded(t) * (q - 1)
    BY DEF RunsInv
  <2>4. steps[t].quantity_needed \in Nat /\ steps[t].runs \in Nat
    <3>1. steps[t] \in BuildSteps
      BY DEF TypeOK
    <3> QED
      BY <3>1 DEF BuildSteps
  <2> HIDE DEF q
  <2>5. steps[t].runs * q \in Nat
    BY <2>1, <2>4, NatProduct
  <2>6. /\ Rounded(t) * (q - 1) <= (depth + 1) * (q - 1)
        /\ Rounded(t) * (q - 1) \in Nat /\ (depth + 1) * (q - 1) \in Nat
    BY <2>1, <2>2, RoundedMore
  <2>7. steps[t].runs * q <= steps[t].quantity_needed + (depth + 1) * (q - 1)
    BY <2>3, <2>4, <2>5, <2>6
  <2> QED
    BY <2>3, <2>7 DEF q
<1> QED
  BY <1>1, <1>2, <1>3, StepsSound, PTL DEF Spec

-----------------------------------------------------------------------------
(* The recursion guard *)

\* A type on level d of the walk has a rank of at most MaxDepth - d, so what is
\* left when the guard ends the walk has rank 0: it cannot be built.
CutInv(rank) ==
  \A t \in Types :
    /\ stage = "expand" =>
         /\ current_level[t] > 0 => rank[t] + depth <= MaxDepth
         /\ next_level[t] > 0 => rank[t] + depth + 1 <= MaxDepth
    /\ stage = "leftover" => (current_level[t] > 0 => rank[t] = 0)
    /\ raw_totals[t] > 0 /\ documents[t] # "imported" =>
         ~Expanded(t) /\ (t \in raw_buildable <=> HasBlueprint(t))
    /\ t \in raw_buildable => HasBlueprint(t)

LEMMA CutStep ==
  ASSUME TypeOK, [Next]_vars, NEW rank \in [Types -> 0..MaxDepth], Ranks(rank), CutInv(rank)
  PROVE  CutInv(rank)'
<1>0. /\ depth \in Nat /\ MaxDepth \in Nat
      /\ current_level \in [Types -> Nat] /\ next_level \in [Types -> Nat]
      /\ raw_totals \in [Types -> Nat]
      /\ \A t \in Types : rank[t] \in Nat /\ rank[t] <= MaxDepth
  BY BoundsAreNat DEF TypeOK
<1>1. ASSUME UNCHANGED request
      PROVE  \A t \in Types : /\ Expanded(t)' <=> Expanded(t)
                              /\ HasBlueprint(t)' <=> HasBlueprint(t)
                              /\ documents'[t] = documents[t]
  BY <1>1 DEF request, Expanded, HasBlueprint, Produced
<1>2. ASSUME NEW t \in Types, Import(t) PROVE CutInv(rank)'
  <2>1. /\ UNCHANGED <<catalog, target, build_set, stage, depth, current_level, next_level>>
        /\ UNCHANGED <<raw_totals, raw_buildable>>
        /\ documents'[t] = "imported" /\ documents[t] = "awaited"
        /\ \A u \in Types \ {t} : documents'[u] = documents[u]
    BY <1>2 DEF Import, walk, TypeOK
  <2>2. \A u \in Types \ {t} : (Expanded(u)' <=> Expanded(u)) /\ (HasBlueprint(u)' <=> HasBlueprint(u))
    BY <2>1 DEF Expanded, HasBlueprint, Produced
  <2>3. ~HasBlueprint(t)
    BY <2>1 DEF HasBlueprint
  <2> QED
    BY <2>1, <2>2, <2>3 DEF CutInv
<1>3. ASSUME NEW t \in Types, Buy(t) PROVE CutInv(rank)'
  <2>1. /\ stage = "expand" /\ ~Expanded(t) /\ UNCHANGED request
        /\ UNCHANGED <<stage, depth, next_level>>
        /\ current_level' = [current_level EXCEPT ![t] = 0]
        /\ raw_totals' = [raw_totals EXCEPT ![t] = @ + current_level[t]]
        /\ raw_buildable' = IF HasBlueprint(t) THEN raw_buildable \cup {t}
                            ELSE raw_buildable \ {t}
    BY <1>3 DEF Buy
  <2>2. ASSUME NEW u \in Types
        PROVE  /\ current_level'[u] > 0 => current_level[u] > 0
               /\ raw_totals'[u] > 0 /\ documents[u] # "imported" =>
                    ~Expanded(u) /\ (u \in raw_buildable' <=> HasBlueprint(u))
               /\ u \in raw_buildable' => HasBlueprint(u)
    <3>1. CASE u = t
      BY <1>0, <2>1, <3>1
    <3>2. CASE u # t
      BY <1>0, <2>1, <3>2 DEF CutInv
    <3> QED
      BY <3>1, <3>2
  <2> QED
    BY <1>1, <2>1, <2>2 DEF CutInv
<1>4. ASSUME NEW t \in Types, Build(t) PROVE CutInv(rank)'
  <2>1. UNCHANGED <<request, stage, depth, raw_totals, raw_buildable>>
    BY <1>4 DEF Build
  <2>2. stage = "expand" /\ current_level[t] > 0 /\ HasBlueprint(t)
    BY <1>4 DEF Build, Expanded
  <2>3. \A m \in Types : next_level'[m] > 0 => next_level[m] > 0 \/ catalog[t].materials[m] > 0
    BY <1>4, BuildEffect
  <2>4. \A u \in Types : current_level'[u] > 0 => current_level[u] > 0
    BY <1>4, BuildEffect
  <2>5. ASSUME NEW m \in Types, catalog[t].materials[m] > 0
        PROVE  rank[m] + depth + 1 <= MaxDepth
    <3>1. rank[m] < rank[t]
      BY <2>2, <2>5 DEF Ranks, HasBlueprint
    <3>2. rank[t] + depth <= MaxDepth
      BY <2>2 DEF CutInv
    <3> QED
      BY <1>0, <3>1, <3>2
  <2> QED
    BY <1>1, <2>1, <2>2, <2>3, <2>4, <2>5 DEF CutInv
<1>5. CASE NextLevel
  <2>1. /\ stage = "expand" /\ depth < MaxDepth
        /\ current_level' = next_level /\ next_level' = Nothing /\ depth' = depth + 1
        /\ stage' = IF next_level # Nothing /\ depth + 1 < MaxDepth THEN "expand" ELSE "leftover"
        /\ UNCHANGED <<request, raw_totals, raw_buildable>>
    BY <1>5 DEF NextLevel, TypeOK
  <2>2. ASSUME NEW t \in Types
        PROVE  /\ stage' = "expand" =>
                    /\ current_level'[t] > 0 => rank[t] + depth' <= MaxDepth
                    /\ next_level'[t] > 0 => rank[t] + depth' + 1 <= MaxDepth
               /\ stage' = "leftover" => (current_level'[t] > 0 => rank[t] = 0)
    <3>1. next_level[t] > 0 => rank[t] + depth + 1 <= MaxDepth
      BY <2>1 DEF CutInv
    <3>2. ~(next_level'[t] > 0)
      BY <2>1 DEF Nothing
    <3>3. ASSUME stage' = "leftover", next_level[t] > 0 PROVE rank[t] = 0
      <4>1. next_level # Nothing
        BY <3>3 DEF Nothing
      <4>2. ~(depth + 1 < MaxDepth)
        BY <2>1, <3>3, <4>1
      <4> QED
        BY <1>0, <2>1, <3>1, <3>3, <4>2
    <3> QED
      BY <1>0, <2>1, <3>1, <3>2, <3>3
  <2> QED
    BY <1>1, <2>1, <2>2 DEF CutInv
<1>6. CASE Leftover
  <2>1. /\ stage = "leftover" /\ stage' = "order" /\ UNCHANGED <<request, raw_buildable>>
        /\ raw_totals' = [t \in Types |-> raw_totals[t] + current_level[t]]
    BY <1>6 DEF Leftover
  <2>2. ASSUME NEW t \in Types, raw_totals'[t] > 0, documents[t] # "imported"
        PROVE  ~Expanded(t) /\ (t \in raw_buildable <=> HasBlueprint(t))
    <3>1. CASE raw_totals[t] > 0
      BY <2>2, <3>1 DEF CutInv
    <3>2. CASE current_level[t] > 0
      <4>1. rank[t] = 0
        BY <2>1, <3>2 DEF CutInv
      <4>2. ~HasBlueprint(t)
        BY <4>1 DEF Ranks, HasBlueprint
      <4> QED
        BY <4>2 DEF CutInv, Expanded
    <3> QED
      BY <1>0, <2>1, <2>2, <3>1, <3>2
  <2> QED
    BY <1>1, <2>1, <2>2 DEF CutInv
<1>7. CASE UNCHANGED <<request, walk>> /\ (stage' = stage \/ stage' = "done")
  BY <1>1, <1>7 DEF CutInv, walk
<1>8. (\E t \in Types : Visit(t)) \/ Finish \/ Return \/ UNCHANGED vars =>
        UNCHANGED <<request, walk>> /\ (stage' = stage \/ stage' = "done")
  BY DEF Visit, Finish, Return, vars
<1> QED
  BY <1>2, <1>3, <1>4, <1>5, <1>6, <1>7, <1>8 DEF Next

\* For every rank of the catalog.
UncutInv == \A rank \in [Types -> 0..MaxDepth] : Ranks(rank) => CutInv(rank)

\* In a catalog of at most MaxDepth levels the guard cuts nothing: each type is
\* built or bought as the player chose, for any such catalog.
THEOREM ChoiceRespected == Spec => []BuiltOrBought
<1>1. Init => UncutInv
  <2> SUFFICES ASSUME Init, NEW rank \in [Types -> 0..MaxDepth], NEW t \in Types
               PROVE  /\ current_level[t] > 0 => rank[t] + depth <= MaxDepth
                      /\ ~(next_level[t] > 0) /\ ~(raw_totals[t] > 0)
                      /\ t \notin raw_buildable /\ stage = "expand"
    BY DEF UncutInv, CutInv
  <2> QED
    BY BoundsAreNat DEF Init, Nothing
<1>2. TypeOK /\ UncutInv /\ [Next]_vars => UncutInv'
  <2> SUFFICES ASSUME TypeOK, UncutInv, [Next]_vars,
                      NEW rank \in [Types -> 0..MaxDepth], Ranks(rank)'
               PROVE  CutInv(rank)'
    BY DEF UncutInv
  <2>1. catalog' = catalog
    BY DEF Next, Buy, Build, Visit, Import, NextLevel, Leftover, Finish, Return, vars, request
  <2>2. Ranks(rank)
    BY <2>1 DEF Ranks, Produced
  <2> QED
    BY <2>2, CutStep DEF UncutInv
<1>3. StepsInv /\ UncutInv => BuiltOrBought
  <2> SUFFICES ASSUME StepsInv, UncutInv, AtMost(MaxDepth), NEW t \in Types,
                      raw_totals[t] > 0, documents[t] # "imported"
               PROVE  /\ ~Expanded(t) /\ ~Planned(t)
                      /\ t \in raw_buildable <=> HasBlueprint(t)
    BY DEF BuiltOrBought
  <2>1. PICK rank \in [Types -> 0..MaxDepth] : Ranks(rank)
    BY DEF AtMost
  <2>2. CutInv(rank)
    BY <2>1 DEF UncutInv
  <2> QED
    BY <2>2 DEF CutInv, StepsInv
<1> QED
  BY <1>1, <1>2, <1>3, StepsSound, PTL DEF Spec

-----------------------------------------------------------------------------
(* Sequences without repetition *)

In(s, t) == \E i \in DOMAIN s : s[i] = t
Injective(s) == \A i, j \in DOMAIN s : s[i] = s[j] => i = j

LEMMA EmptyHoldsNothing ==
  ASSUME NEW s, s = <<>>
  PROVE  /\ \A t : ~In(s, t)
         /\ Injective(s)
<1>1. DOMAIN s = {}
  OBVIOUS
<1>2. \A i : i \notin DOMAIN s
  BY <1>1
<1> QED
  BY <1>2 DEF In, Injective

LEMMA AppendSeq ==
  ASSUME NEW S, NEW s \in Seq(S), NEW x \in S
  PROVE  /\ Append(s, x) \in Seq(S)
         /\ DOMAIN s = 1..Len(s) /\ Len(s) \in Nat
         /\ DOMAIN Append(s, x) = 1..(Len(s) + 1)
         /\ \A i \in 1..Len(s) : Append(s, x)[i] = s[i]
         /\ Append(s, x)[Len(s) + 1] = x
         /\ \A t : In(Append(s, x), t) <=> In(s, t) \/ t = x
         /\ Injective(s) /\ ~In(s, x) => Injective(Append(s, x))
<1>1. /\ Append(s, x) \in Seq(S)
      /\ DOMAIN s = 1..Len(s) /\ Len(s) \in Nat
      /\ Len(Append(s, x)) = Len(s) + 1
      /\ \A i \in 1..Len(s) : Append(s, x)[i] = s[i]
      /\ Append(s, x)[Len(s) + 1] = x
  OBVIOUS
<1>2. DOMAIN Append(s, x) = 1..(Len(s) + 1)
  BY <1>1
<1>3. \A i \in DOMAIN Append(s, x) : i \in DOMAIN s \/ i = Len(s) + 1
  BY <1>1, <1>2
<1>4. \A i \in DOMAIN s : i \in DOMAIN Append(s, x) /\ Append(s, x)[i] = s[i]
  BY <1>1, <1>2
<1>5. Len(s) + 1 \in DOMAIN Append(s, x) /\ Len(s) + 1 \notin DOMAIN s
  BY <1>1, <1>2
<1>6. \A t : In(Append(s, x), t) <=> In(s, t) \/ t = x
  BY <1>1, <1>3, <1>4, <1>5 DEF In
<1>7. ASSUME Injective(s), ~In(s, x) PROVE Injective(Append(s, x))
  BY <1>1, <1>3, <1>4, <1>7 DEF In, Injective
<1> QED
  BY <1>1, <1>2, <1>6, <1>7

LEMMA PopSeq ==
  ASSUME NEW S, NEW s \in Seq(S), s # <<>>
  PROVE  LET top == s[Len(s)]
             pop == SubSeq(s, 1, Len(s) - 1)
         IN  /\ top \in S /\ pop \in Seq(S)
             /\ Len(s) \in Nat \ {0} /\ DOMAIN s = 1..Len(s)
             /\ DOMAIN pop = 1..(Len(s) - 1)
             /\ \A i \in 1..(Len(s) - 1) : pop[i] = s[i]
             /\ \A t : In(s, t) <=> In(pop, t) \/ t = top
             /\ Injective(s) => Injective(pop) /\ ~In(pop, top)
<1> DEFINE top == s[Len(s)]
           pop == SubSeq(s, 1, Len(s) - 1)
<1>1. /\ Len(s) \in Nat \ {0} /\ DOMAIN s = 1..Len(s)
      /\ top \in S /\ pop \in Seq(S) /\ Len(pop) = Len(s) - 1
      /\ \A i \in 1..(Len(s) - 1) : pop[i] = s[i]
  BY PopOfSeq
<1> HIDE DEF pop
<1>2. DOMAIN pop = 1..(Len(s) - 1)
  BY <1>1
<1>3. \A i \in DOMAIN s : i \in DOMAIN pop \/ i = Len(s)
  BY <1>1, <1>2
<1>4. \A i \in DOMAIN pop : i \in DOMAIN s /\ pop[i] = s[i] /\ i # Len(s)
  BY <1>1, <1>2
<1>5. Len(s) \in DOMAIN s
  BY <1>1
<1>6. \A t : In(s, t) <=> In(pop, t) \/ t = top
  BY <1>3, <1>4, <1>5 DEF In
<1>7. ASSUME Injective(s) PROVE Injective(pop) /\ ~In(pop, top)
  BY <1>4, <1>5, <1>7 DEF In, Injective
<1> QED
  BY <1>1, <1>2, <1>6, <1>7 DEF pop

-----------------------------------------------------------------------------
(* The listing *)

\* A step that has been visited is in progress or listed, and never twice; the
\* materials of what is listed are visited.
ListInv ==
  /\ stage \in {"expand", "leftover"} => path = <<>> /\ visited = {} /\ ordered = <<>>
  /\ stage = "done" => path = <<>>
  /\ stage \in {"order", "done"} => target \in visited
  /\ \A t \in Types : In(path, t) \/ In(ordered, t) <=> Planned(t) /\ t \in visited
  /\ \A t \in Types : ~(In(path, t) /\ In(ordered, t))
  /\ Injective(path) /\ Injective(ordered)
  /\ \A t, m \in Types : In(ordered, t) /\ steps[t].materials[m] > 0 => m \in visited

LEMMA ListInit == Init => ListInv
BY EmptyHoldsNothing DEF Init, ListInv

LEMMA ListWalk ==
  ASSUME ListInv, stage = "expand", UNCHANGED listing, stage' \in {"expand", "leftover"}
  PROVE  ListInv'
<1>1. path' = <<>> /\ visited' = {} /\ ordered' = <<>>
  BY DEF ListInv, listing
<1>2. /\ \A t : ~In(path', t) /\ ~In(ordered', t)
      /\ Injective(path') /\ Injective(ordered')
  BY <1>1, EmptyHoldsNothing
<1> QED
  BY <1>1, <1>2 DEF ListInv

LEMMA ListLeftover ==
  ASSUME TypeOK, ListInv, Leftover
  PROVE  ListInv'
<1>1. /\ stage' = "order" /\ visited' = {target} /\ ordered' = <<>> /\ target \in Types
      /\ path' = IF Planned(target) THEN <<target>> ELSE <<>>
      /\ UNCHANGED <<target, steps>>
  BY DEF Leftover, ListInv, request, TypeOK
<1>2. \A t \in Types : Planned(t)' <=> Planned(t)
  BY <1>1 DEF Planned
<1>5. (\A t : ~In(ordered', t)) /\ Injective(ordered')
  BY <1>1, EmptyHoldsNothing
<1>3. CASE Planned(target)
  <2>1. path' = <<target>>
    BY <1>1, <1>3
  <2>2. DOMAIN path' = {1} /\ path'[1] = target
    BY <2>1
  <2>3. \A t \in Types : In(path', t) <=> t = target
    BY <2>2 DEF In
  <2>4. Injective(path')
    BY <2>2 DEF Injective
  <2> QED
    BY <1>1, <1>2, <1>3, <1>5, <2>3, <2>4 DEF ListInv
<1>4. CASE ~Planned(target)
  <2>1. path' = <<>>
    BY <1>1, <1>4
  <2>2. (\A t : ~In(path', t)) /\ Injective(path')
    BY <2>1, EmptyHoldsNothing
  <2> QED
    BY <1>1, <1>2, <1>4, <1>5, <2>1, <2>2 DEF ListInv
<1> QED
  BY <1>3, <1>4

LEMMA ListVisit ==
  ASSUME TypeOK, ListInv, NEW m \in Types, Visit(m)
  PROVE  ListInv'
<1>1. /\ stage = "order" /\ stage' = stage /\ m \notin visited
      /\ visited' = visited \cup {m} /\ ordered' = ordered
      /\ path' = IF Planned(m) THEN Append(path, m) ELSE path
      /\ UNCHANGED <<target, steps>>
  BY DEF Visit, Unvisited, request, walk
<1>2. \A t \in Types : Planned(t)' <=> Planned(t)
  BY <1>1 DEF Planned
<1>3. ~In(path, m) /\ ~In(ordered, m)
  BY <1>1 DEF ListInv
<1>4. CASE Planned(m)
  <2>1. path \in Seq(Types)
    BY DEF TypeOK
  <2>2. /\ \A t \in Types : In(path', t) <=> In(path, t) \/ t = m
        /\ Injective(path')
    BY <1>1, <1>3, <1>4, <2>1, AppendSeq DEF ListInv
  <2> QED
    BY <1>1, <1>2, <1>3, <1>4, <2>2 DEF ListInv
<1>5. CASE ~Planned(m)
  BY <1>1, <1>2, <1>5 DEF ListInv
<1> QED
  BY <1>4, <1>5

LEMMA ListFinish ==
  ASSUME TypeOK, ListInv, Finish
  PROVE  ListInv'
<1>1. /\ stage = "order" /\ stage' = stage /\ visited' = visited
      /\ path # <<>> /\ Unvisited = {}
      /\ path' = Pop /\ ordered' = Append(ordered, Top)
      /\ UNCHANGED <<target, steps>>
  BY DEF Finish, request, walk
<1>2. \A t \in Types : Planned(t)' <=> Planned(t)
  BY <1>1 DEF Planned
<1>3. /\ Top \in Types
      /\ \A t : In(path, t) <=> In(Pop, t) \/ t = Top
      /\ Injective(Pop) /\ ~In(Pop, Top)
  BY <1>1, PopSeq DEF TypeOK, ListInv, Top, Pop
<1>4. In(path, Top) /\ ~In(ordered, Top)
  BY <1>3 DEF ListInv
<1>5. /\ \A t : In(ordered', t) <=> In(ordered, t) \/ t = Top
      /\ Injective(ordered')
  BY <1>1, <1>3, <1>4, AppendSeq DEF TypeOK, ListInv
<1>6. \A m \in Types : steps[Top].materials[m] > 0 => m \in visited
  BY <1>1 DEF Unvisited
<1>7. \A t \in Types : ~(In(path', t) /\ In(ordered', t))
  BY <1>1, <1>3, <1>5 DEF ListInv
<1>8. \A t \in Types : In(path', t) \/ In(ordered', t) <=> Planned(t)' /\ t \in visited'
  BY <1>1, <1>2, <1>3, <1>5 DEF ListInv
<1>9. \A t, m \in Types : In(ordered', t) /\ steps'[t].materials[m] > 0 => m \in visited'
  BY <1>1, <1>5, <1>6 DEF ListInv
<1> QED
  BY <1>1, <1>3, <1>5, <1>7, <1>8, <1>9 DEF ListInv

LEMMA ListStep ==
  ASSUME TypeOK, ListInv, [Next]_vars
  PROVE  ListInv'
<1>1. CASE (\E t \in Types : Buy(t) \/ Build(t)) \/ NextLevel
  BY <1>1, ListWalk DEF Buy, Build, NextLevel
<1>2. CASE Leftover
  BY <1>2, ListLeftover
<1>3. ASSUME NEW m \in Types, Visit(m) PROVE ListInv'
  BY <1>3, ListVisit
<1>4. CASE Finish
  BY <1>4, ListFinish
<1>5. CASE Return
  <2>1. /\ stage = "order" /\ stage' = "done" /\ path = <<>>
        /\ UNCHANGED <<target, steps, path, visited, ordered>>
    BY <1>5 DEF Return, request, walk, listing
  <2> QED
    BY <2>1 DEF ListInv, Planned
<1>6. CASE UNCHANGED vars \/ \E t \in Types : Import(t)
  BY <1>6 DEF Import, vars, request, walk, listing, ListInv, Planned
<1> QED
  BY <1>1, <1>2, <1>3, <1>4, <1>5, <1>6 DEF Next

-----------------------------------------------------------------------------
(* Components first *)

\* Ranks fall along the calls in progress; what is listed has its components
\* before it.
RankInv(rank) ==
  /\ \A i, j \in DOMAIN path : i < j => rank[path[j]] < rank[path[i]]
  /\ \A i \in DOMAIN ordered : \A m \in Types :
       Planned(m) /\ steps[ordered[i]].materials[m] > 0 => \E j \in 1..(i - 1) : ordered[j] = m

LEMMA RankDrops ==
  ASSUME StepsInv, NEW rank, Ranks(rank), NEW t \in Types, NEW m \in Types,
         steps[t].materials[m] > 0
  PROVE  rank[m] < rank[t]
BY DEF StepsInv, Ranks, Expanded, HasBlueprint

LEMMA RankVisit ==
  ASSUME TypeOK, StepsInv, ListInv, NEW rank \in [Types -> Nat], Ranks(rank), RankInv(rank),
         NEW m \in Types, Visit(m)
  PROVE  RankInv(rank)'
<1>1. /\ path \in Seq(Types) /\ path # <<>>
      /\ steps[Top].materials[m] > 0
      /\ path' = IF Planned(m) THEN Append(path, m) ELSE path
      /\ UNCHANGED <<steps, ordered>>
  BY DEF Visit, Unvisited, TypeOK, walk
<1>2. Top \in Types /\ Len(path) \in Nat \ {0} /\ DOMAIN path = 1..Len(path)
  BY <1>1, PopSeq DEF Top
<1>3. rank[m] < rank[Top]
  BY <1>1, <1>2, RankDrops
<1>4. ASSUME NEW i \in DOMAIN path', NEW j \in DOMAIN path', i < j
      PROVE  rank[path'[j]] < rank[path'[i]]
  <2>1. CASE ~Planned(m)
    BY <1>1, <1>4, <2>1 DEF RankInv
  <2>2. CASE Planned(m)
    <3>1. /\ DOMAIN path' = 1..(Len(path) + 1)
          /\ \A k \in 1..Len(path) : path'[k] = path[k]
          /\ path'[Len(path) + 1] = m
      BY <1>1, <2>2, AppendSeq
    <3>2. CASE j \in 1..Len(path)
      <4>1. i \in 1..Len(path)
        BY <1>2, <1>4, <3>1, <3>2
      <4> QED
        BY <1>2, <1>4, <3>1, <3>2, <4>1 DEF RankInv
    <3>3. CASE j = Len(path) + 1
      <4>1. i \in 1..Len(path) /\ path'[i] = path[i] /\ path'[j] = m
        BY <1>2, <1>4, <3>1, <3>3
      <4>2. CASE i = Len(path)
        BY <1>3, <4>1, <4>2 DEF Top
      <4>3. CASE i < Len(path)
        <5>1. rank[Top] < rank[path[i]]
          BY <1>2, <4>1, <4>3 DEF RankInv, Top
        <5>2. path[i] \in Types
          BY <1>1, <1>2, <4>1
        <5>3. rank[m] \in Nat /\ rank[Top] \in Nat /\ rank[path[i]] \in Nat
          BY <1>2, <5>2
        <5> QED
          BY <1>3, <4>1, <5>1, <5>3
      <4> QED
        BY <1>2, <4>1, <4>2, <4>3
    <3> QED
      BY <1>2, <3>1, <3>2, <3>3
  <2> QED
    BY <2>1, <2>2
<1> QED
  BY <1>1, <1>4 DEF RankInv, Planned

LEMMA RankFinish ==
  ASSUME TypeOK, StepsInv, ListInv, NEW rank \in [Types -> Nat], Ranks(rank), RankInv(rank),
         Finish
  PROVE  RankInv(rank)'
<1>1. /\ path \in Seq(Types) /\ path # <<>> /\ ordered \in Seq(Types)
      /\ Unvisited = {}
      /\ path' = Pop /\ ordered' = Append(ordered, Top)
      /\ UNCHANGED steps
  BY DEF Finish, TypeOK, walk
<1>2. /\ Top \in Types /\ Len(path) \in Nat \ {0}
      /\ DOMAIN path = 1..Len(path) /\ DOMAIN path' = 1..(Len(path) - 1)
      /\ \A i \in 1..(Len(path) - 1) : path'[i] = path[i]
  BY <1>1, PopSeq DEF Top, Pop
<1>3. /\ DOMAIN ordered = 1..Len(ordered) /\ Len(ordered) \in Nat
      /\ DOMAIN ordered' = 1..(Len(ordered) + 1)
      /\ \A i \in 1..Len(ordered) : ordered'[i] = ordered[i]
      /\ ordered'[Len(ordered) + 1] = Top
  BY <1>1, <1>2, AppendSeq
<1>4. \A i, j \in DOMAIN path' : i < j => rank[path'[j]] < rank[path'[i]]
  <2>1. \A i \in DOMAIN path' : i \in DOMAIN path /\ path'[i] = path[i]
    BY <1>2
  <2> QED
    BY <2>1 DEF RankInv
<1>5. ASSUME NEW m \in Types, Planned(m), steps[Top].materials[m] > 0
      PROVE  In(ordered, m)
  <2>1. rank[m] < rank[Top]
    BY <1>2, <1>5, RankDrops
  <2>2. m \in visited
    BY <1>1, <1>5 DEF Unvisited
  <2>3. In(path, m) \/ In(ordered, m)
    BY <1>5, <2>2 DEF ListInv
  <2>4. ASSUME In(path, m) PROVE FALSE
    <3>1. PICK i \in 1..Len(path) : path[i] = m
      BY <1>2, <2>4 DEF In
    <3>2. rank[m] \in Nat /\ rank[Top] \in Nat
      BY <1>2
    <3>3. CASE i = Len(path)
      BY <2>1, <3>1, <3>2, <3>3 DEF Top
    <3>4. CASE i < Len(path)
      <4>1. rank[Top] < rank[m]
        BY <1>2, <3>1, <3>4 DEF RankInv, Top
      <4> QED
        BY <2>1, <3>2, <4>1
    <3>5. Len(path) \in Nat /\ i \in 1..Len(path)
      BY <1>2
    <3>6. i = Len(path) \/ i < Len(path)
      BY <3>5
    <3> QED
      BY <3>3, <3>4, <3>6
  <2> QED
    BY <2>3, <2>4
<1>6. ASSUME NEW i \in DOMAIN ordered', NEW m \in Types, Planned(m),
             steps[ordered'[i]].materials[m] > 0
      PROVE  \E j \in 1..(i - 1) : ordered'[j] = m
  <2>1. CASE i \in 1..Len(ordered)
    <3>1. PICK j \in 1..(i - 1) : ordered[j] = m
      BY <1>3, <1>6, <2>1 DEF RankInv
    <3>2. j \in 1..Len(ordered)
      BY <1>3, <2>1, <3>1
    <3> QED
      BY <1>3, <3>1, <3>2
  <2>2. CASE i = Len(ordered) + 1
    <3>1. In(ordered, m)
      BY <1>3, <1>5, <1>6, <2>2
    <3>2. PICK j \in 1..Len(ordered) : ordered[j] = m
      BY <1>3, <3>1 DEF In
    <3>3. j \in 1..(i - 1)
      BY <1>3, <2>2, <3>2
    <3> QED
      BY <1>3, <3>2, <3>3
  <2> QED
    BY <1>3, <2>1, <2>2
<1> QED
  BY <1>1, <1>4, <1>6 DEF RankInv, Planned

LEMMA RankEmpty ==
  ASSUME NEW rank, ordered' = <<>>, path' = <<>> \/ \E t : path' = <<t>>
  PROVE  RankInv(rank)'
<1>1. \A i : i \notin DOMAIN ordered'
  <2>1. DOMAIN ordered' = {}
    OBVIOUS
  <2> QED
    BY <2>1
<1>2. \A i, j \in DOMAIN path' : ~(i < j)
  <2>1. CASE path' = <<>>
    BY <2>1
  <2>2. ASSUME NEW t, path' = <<t>> PROVE \A i, j \in DOMAIN path' : ~(i < j)
    <3>1. DOMAIN path' = {1}
      BY <2>2
    <3> QED
      BY <3>1
  <2> QED
    BY <2>1, <2>2
<1> QED
  BY <1>1, <1>2 DEF RankInv

LEMMA RankStep ==
  ASSUME TypeOK, StepsInv, ListInv, [Next]_vars,
         NEW rank \in [Types -> Nat], Ranks(rank), RankInv(rank)
  PROVE  RankInv(rank)'
<1>1. CASE (\E t \in Types : Buy(t) \/ Build(t)) \/ NextLevel
  <2>1. path' = <<>> /\ ordered' = <<>>
    BY <1>1 DEF Buy, Build, NextLevel, ListInv, listing
  <2> QED
    BY <2>1, RankEmpty
<1>2. CASE Leftover
  <2>1. ordered' = <<>> /\ (path' = <<>> \/ path' = <<target>>)
    BY <1>2 DEF Leftover, ListInv
  <2> QED
    BY <2>1, RankEmpty
<1>3. ASSUME NEW m \in Types, Visit(m) PROVE RankInv(rank)'
  BY <1>3, RankVisit
<1>4. CASE Finish
  BY <1>4, RankFinish
<1>5. CASE Return \/ UNCHANGED vars \/ \E t \in Types : Import(t)
  BY <1>5 DEF Return, Import, vars, walk, listing, RankInv, Planned
<1> QED
  BY <1>1, <1>2, <1>3, <1>4, <1>5 DEF Next

\* For every rank of the catalog.
ComponentsInv == \A rank \in [Types -> 0..Cardinality(Types)] : Ranks(rank) => RankInv(rank)

\* "A component is listed before anything that depends on it": in every catalog
\* without cycles, whatever the order in which materials are visited.
THEOREM ComponentsComeFirst == Spec => []ComponentsFirst
<1>0. Cardinality(Types) \in Nat
  BY TypesFinite, FS_CardinalityType
<1>1. Init => ListInv /\ ComponentsInv
  <2>1. Init => ListInv
    BY ListInit
  <2>2. ASSUME Init, NEW rank PROVE RankInv(rank)
    <3>1. path = <<>> /\ ordered = <<>>
      BY <2>2 DEF Init
    <3>2. DOMAIN path = {} /\ DOMAIN ordered = {}
      BY <3>1
    <3> QED
      BY <3>2 DEF RankInv
  <2> QED
    BY <2>1, <2>2 DEF ComponentsInv
<1>2. TypeOK /\ StepsInv /\ ListInv /\ ComponentsInv /\ [Next]_vars => (ListInv /\ ComponentsInv)'
  <2> SUFFICES ASSUME TypeOK, StepsInv, ListInv, ComponentsInv, [Next]_vars
               PROVE  ListInv' /\ ComponentsInv'
    OBVIOUS
  <2>1. ASSUME NEW rank \in [Types -> 0..Cardinality(Types)], Ranks(rank)'
        PROVE  RankInv(rank)'
    <3>1. catalog' = catalog
      BY DEF Next, Buy, Build, Visit, Import, NextLevel, Leftover, Finish, Return, vars, request
    <3>2. Ranks(rank)
      BY <2>1, <3>1 DEF Ranks, Produced
    <3>3. rank \in [Types -> Nat]
      BY <1>0
    <3> QED
      BY <3>2, <3>3, RankStep DEF ComponentsInv
  <2> QED
    BY <2>1, ListStep DEF ComponentsInv
<1>3. ComponentsInv => ComponentsFirst
  BY DEF ComponentsInv, RankInv, ComponentsFirst, Acyclic, AtMost
<1> QED
  BY <1>1, <1>2, <1>3, StepsSound, PTL DEF Spec

-----------------------------------------------------------------------------
(* Every step is listed *)

\* A set of types with the target that holds the materials of its types' steps.
Closed(S) ==
  /\ target \in S
  /\ \A t \in S, m \in Types : steps[t].materials[m] > 0 => m \in S

\* Nothing is demanded or built but what the target leads to.
ReachInv ==
  \A S \in SUBSET Types : Closed(S) =>
    \A t \in Types : Planned(t) \/ current_level[t] > 0 \/ next_level[t] > 0 => t \in S

LEMMA ReachInit == Init => ReachInv
BY DEF Init, ReachInv, Closed, Planned, NoStep, Nothing

LEMMA ReachBuild ==
  ASSUME TypeOK, ReachInv, NEW t \in Types, Build(t)
  PROVE  ReachInv'
<1>1. UNCHANGED target
  BY DEF Build, request
<1> SUFFICES ASSUME NEW S \in SUBSET Types, Closed(S)',
                    NEW u \in Types,
                    Planned(u)' \/ current_level'[u] > 0 \/ next_level'[u] > 0
             PROVE  u \in S
  BY DEF ReachInv
<1>2. /\ current_level[t] > 0
      /\ \A m \in Types :
           /\ steps'[t].materials[m] > 0 <=>
                steps[t].materials[m] > 0 \/ catalog[t].materials[m] > 0
           /\ next_level'[m] > 0 <=> next_level[m] > 0 \/ catalog[t].materials[m] > 0
      /\ current_level'[t] = 0
      /\ \A v \in Types \ {t} : steps'[v] = steps[v] /\ current_level'[v] = current_level[v]
  BY BuildEffect
<1>3. Closed(S)
  <2>1. ASSUME NEW v \in S, NEW m \in Types, steps[v].materials[m] > 0 PROVE m \in S
    <3>1. steps'[v].materials[m] > 0
      BY <1>2, <2>1
    <3> QED
      BY <3>1 DEF Closed
  <2> QED
    BY <1>1, <2>1 DEF Closed
<1>4. \A v \in Types : Planned(v) \/ current_level[v] > 0 \/ next_level[v] > 0 => v \in S
  BY <1>3 DEF ReachInv
<1>5. t \in S
  BY <1>2, <1>4
<1>6. ASSUME next_level'[u] > 0 PROVE u \in S
  <2>1. CASE next_level[u] > 0
    BY <1>4, <2>1
  <2>2. CASE catalog[t].materials[u] > 0
    BY <1>2, <1>5, <2>2 DEF Closed
  <2> QED
    BY <1>2, <1>6, <2>1, <2>2
<1>7. ASSUME u # t, Planned(u)' \/ current_level'[u] > 0 PROVE u \in S
  BY <1>2, <1>4, <1>7 DEF Planned
<1> QED
  BY <1>5, <1>6, <1>7

LEMMA ReachStep ==
  ASSUME TypeOK, ReachInv, [Next]_vars
  PROVE  ReachInv'
<1>1. ASSUME NEW t \in Types, Build(t) PROVE ReachInv'
  BY <1>1, ReachBuild
<1>2. ASSUME UNCHANGED <<target, steps>>,
             \A t \in Types : /\ current_level'[t] > 0 => current_level[t] > 0 \/ next_level[t] > 0
                              /\ next_level'[t] > 0 => next_level[t] > 0
      PROVE  ReachInv'
  BY <1>2 DEF ReachInv, Closed, Planned
<1>3. ASSUME NEW t \in Types, Buy(t) PROVE ReachInv'
  <2>1. UNCHANGED <<target, steps, next_level>>
    BY <1>3 DEF Buy, request
  <2>2. \A u \in Types : current_level'[u] > 0 => current_level[u] > 0
    BY <1>3 DEF Buy, TypeOK
  <2> QED
    BY <1>2, <2>1, <2>2
<1>4. ASSUME NextLevel PROVE ReachInv'
  <2>1. UNCHANGED <<target, steps>> /\ current_level' = next_level /\ next_level' = Nothing
    BY <1>4 DEF NextLevel, request
  <2> QED
    BY <1>2, <2>1 DEF Nothing
<1>5. ASSUME Leftover PROVE ReachInv'
  <2>1. UNCHANGED <<target, steps, next_level>> /\ current_level' = Nothing
    BY <1>5 DEF Leftover, request
  <2> QED
    BY <1>2, <2>1 DEF Nothing
<1>6. ASSUME (\E m \in Types : Visit(m) \/ Import(m)) \/ Finish \/ Return \/ UNCHANGED vars
      PROVE  ReachInv'
  <2>1. UNCHANGED <<target, steps, current_level, next_level>>
    BY <1>6 DEF Visit, Import, Finish, Return, vars, request, walk
  <2> QED
    BY <1>2, <2>1
<1> QED
  BY <1>1, <1>3, <1>4, <1>5, <1>6 DEF Next

\* What is visited at the end, and the types that have no step, are closed: so
\* every step was visited.
LEMMA AllVisited ==
  ASSUME TypeOK, StepsInv, ListInv, ReachInv, stage = "done", NEW t \in Types, Planned(t)
  PROVE  In(ordered, t)
<1> DEFINE S == {m \in Types : m \in visited}
<1>1. path = <<>> /\ target \in visited /\ target \in Types
  BY DEF ListInv, TypeOK
<1>2. \A u \in Types : In(ordered, u) <=> Planned(u) /\ u \in visited
  BY <1>1, EmptyHoldsNothing DEF ListInv
<1>3. ASSUME NEW u \in S, NEW m \in Types, steps[u].materials[m] > 0 PROVE m \in S
  <2>1. Planned(u)
    BY <1>3 DEF StepsInv
  <2>2. In(ordered, u)
    BY <1>2, <1>3, <2>1
  <2> QED
    BY <1>3, <2>2 DEF ListInv
<1>4. Closed(S)
  BY <1>1, <1>3 DEF Closed
<1>5. t \in S
  BY <1>4 DEF ReachInv
<1> QED
  BY <1>2, <1>5

\* Every step is listed, and only once, whether or not the catalog has cycles.
THEOREM AllListed == Spec => []EachStepListed
<1>1. Init => ListInv /\ ReachInv
  BY ListInit, ReachInit
<1>2. TypeOK /\ StepsInv /\ ListInv /\ ReachInv /\ [Next]_vars => (ListInv /\ ReachInv)'
  BY ListStep, ReachStep
<1>3. TypeOK /\ StepsInv /\ ListInv /\ ReachInv => EachStepListed
  <2> SUFFICES ASSUME TypeOK, StepsInv, ListInv, ReachInv
               PROVE  EachStepListed
    OBVIOUS
  <2>1. \A i, j \in DOMAIN ordered : ordered[i] = ordered[j] => i = j
    BY DEF ListInv, Injective
  <2>2. ASSUME stage = "done"
        PROVE  {ordered[i] : i \in DOMAIN ordered} = {t \in Types : Planned(t)}
    <3>1. \A i \in DOMAIN ordered : ordered[i] \in Types
      BY DEF TypeOK
    <3>2. \A t \in Types : In(ordered, t) <=> Planned(t)
      BY <2>2, AllVisited DEF ListInv
    <3> QED
      BY <3>1, <3>2 DEF In
  <2> QED
    BY <2>1, <2>2 DEF EachStepListed
<1> QED
  BY <1>1, <1>2, <1>3, StepsSound, PTL DEF Spec

-----------------------------------------------------------------------------
(* Sums over the types *)

\* SumFunction adds one member after another, in the order CHOOSE gives.
Member(u) == CHOOSE x \in u : TRUE
Sums(f, g, S) ==
  g = [u \in SUBSET S |-> IF u = {} THEN 0 ELSE f[Member(u)] + g[u \ {Member(u)}]]

LEMMA SumIsChosen ==
  ASSUME NEW S, NEW f, DOMAIN f = S
  PROVE  SumFunction(f) = (CHOOSE g : Sums(f, g, S))[S]
BY DEF SumFunction, SumFunctionOnSet, FoldFunctionOnSet, MapThenFoldSet, Sums, Member

\* Of subsets of a finite set one is minimal.
LEMMA MinimalSubset ==
  ASSUME NEW S, IsFiniteSet(S), NEW U \in SUBSET SUBSET S, U # {}
  PROVE  \E u \in U : \A v \in U : v \subseteq u => v = u
<1>1. IsWellFoundedOn(StrictSubsetOrdering(S), SUBSET S)
  BY FS_StrictSubsetOrderingWellFounded, FS_FiniteSubsetsOfFinite
<1>2. PICK u \in U : \A v \in U : <<v, u>> \notin StrictSubsetOrdering(S)
  BY <1>1, WFMin
<1>3. ASSUME NEW v \in U, v \subseteq u, v # u PROVE FALSE
  <2>1. <<v, u>> \in StrictSubsetOrdering(S)
    BY <1>3 DEF StrictSubsetOrdering
  <2> QED BY <1>2, <2>1
<1> QED BY <1>3

LEMMA SumStep ==
  ASSUME NEW S, NEW f, NEW g, Sums(f, g, S), NEW u \in SUBSET S, u # {}
  PROVE  /\ Member(u) \in u /\ u \ {Member(u)} \in SUBSET S /\ u \ {Member(u)} # u
         /\ g[u] = f[Member(u)] + g[u \ {Member(u)}]
<1>1. Member(u) \in u
  BY DEF Member
<1>2. g[u] = f[Member(u)] + g[u \ {Member(u)}]
  <2>1. PICK a : a = f[Member(u)] + g[u \ {Member(u)}]
    OBVIOUS
  <2> QED BY <2>1 DEF Sums
<1> QED BY <1>1, <1>2

\* There is one such sum at most.
LEMMA SumUnique ==
  ASSUME NEW S, IsFiniteSet(S), NEW T \in SUBSET S, NEW f, NEW g, NEW h,
         Sums(f, g, S), Sums(f, h, T), NEW w \in SUBSET T
  PROVE  g[w] = h[w]
<1> DEFINE U == {u \in SUBSET T : g[u] # h[u]}
<1> SUFFICES ASSUME U # {} PROVE FALSE
  OBVIOUS
<1>1. IsFiniteSet(T)
  BY FS_Subset
<1>2. PICK u \in U : \A v \in U : v \subseteq u => v = u
  <2> HIDE DEF U
  <2>1. U \in SUBSET SUBSET T
    BY DEF U
  <2> QED BY <1>1, <2>1, MinimalSubset
<1>3. u \in SUBSET T /\ u \in SUBSET S /\ g[u] # h[u]
  OBVIOUS
<1>4. CASE u = {}
  <2>1. g[u] = 0 /\ h[u] = 0
    BY <1>3, <1>4 DEF Sums
  <2> QED BY <1>3, <2>1
<1>5. CASE u # {}
  <2>1. PICK v : v = u \ {Member(u)}
    OBVIOUS
  <2>2. /\ v \subseteq u /\ v # u /\ v \in SUBSET T
        /\ g[u] = f[Member(u)] + g[v] /\ h[u] = f[Member(u)] + h[v]
    BY <1>3, <1>5, <2>1, SumStep
  <2>3. g[v] = h[v]
    BY <1>2, <2>2
  <2> QED BY <1>3, <2>2, <2>3
<1> QED BY <1>4, <1>5

LEMMA SumExists ==
  ASSUME NEW S, IsFiniteSet(S), NEW f \in [S -> Nat]
  PROVE  \E g \in [SUBSET S -> Nat] : Sums(f, g, S)
<1> DEFINE Has(T) == \E g \in [SUBSET T -> Nat] : Sums(f, g, T)
           U == {T \in SUBSET S : ~Has(T)}
<1> SUFFICES ASSUME U # {} PROVE FALSE
  OBVIOUS
<1>1. PICK T \in U : \A V \in U : V \subseteq T => V = T
  <2> HIDE DEF U
  <2>1. U \in SUBSET SUBSET S
    BY DEF U
  <2> QED BY <2>1, MinimalSubset
<1>2. T \in SUBSET S /\ ~Has(T)
  OBVIOUS
<1>3. \A V \in SUBSET T : V # T => Has(V)
  BY <1>1
<1>4. CASE T = {}
  <2>1. PICK g : g = [u \in SUBSET T |-> 0]
    OBVIOUS
  <2>2. g \in [SUBSET T -> Nat]
    BY <2>1
  <2>3. \A u \in SUBSET T : u = {}
    BY <1>4
  <2>4. Sums(f, g, T)
    BY <2>1, <2>3 DEF Sums
  <2> QED BY <1>2, <2>2, <2>4
<1>5. CASE T # {}
  <2> DEFINE G(V) == CHOOSE g \in [SUBSET V -> Nat] : Sums(f, g, V)
             R == T \ {Member(T)}
             value(u) == IF u = T THEN f[Member(T)] + G(R)[R] ELSE G(u)[u]
             g == [u \in SUBSET T |-> value(u)]
  <2>1. \A V \in SUBSET T : V # T => G(V) \in [SUBSET V -> Nat] /\ Sums(f, G(V), V)
    BY <1>3
  <2>2. Member(T) \in T /\ R \in SUBSET T /\ R # T
    BY <1>5 DEF Member
  <2> HIDE DEF G
  <2>3. ASSUME NEW u \in SUBSET T PROVE value(u) \in Nat
    <3>1. CASE u = T
      <4>1. f[Member(T)] \in Nat /\ G(R)[R] \in Nat
        BY <1>2, <2>1, <2>2
      <4> QED BY <3>1, <4>1
    <3>2. CASE u # T
      <4>1. G(u)[u] \in Nat
        BY <2>1, <3>2
      <4> QED BY <3>2, <4>1
    <3> QED BY <3>1, <3>2
  <2>4. g \in [SUBSET T -> Nat]
    BY <2>3
  <2>5. ASSUME NEW u \in SUBSET T, u # {}
        PROVE  g[u] = f[Member(u)] + g[u \ {Member(u)}]
    <3>1. PICK v : v = u \ {Member(u)}
      OBVIOUS
    <3>2. Member(u) \in u /\ v \in SUBSET T /\ v # T /\ v # u
      BY <2>5, <3>1 DEF Member
    <3>3. g[v] = G(v)[v]
      BY <3>2
    <3>4. CASE u = T
      <4>1. g[u] = f[Member(u)] + G(v)[v]
        BY <3>1, <3>4
      <4> QED BY <3>1, <3>3, <4>1
    <3>5. CASE u # T
      <4>1. g[u] = G(u)[u]
        BY <3>5
      <4>2. Sums(f, G(u), u) /\ Sums(f, G(v), v) /\ v \in SUBSET u /\ IsFiniteSet(u)
        BY <1>2, <2>1, <3>1, <3>2, <3>5, FS_Subset
      <4>3. G(u)[v] = G(v)[v]
        BY <4>2, SumUnique
      <4>4. G(u)[u] = f[Member(u)] + G(u)[v]
        BY <2>5, <3>1, <4>2, SumStep
      <4> QED BY <3>1, <3>3, <4>1, <4>3, <4>4
    <3> QED BY <3>4, <3>5
  <2>6. g[{}] = 0
    <3>1. {} \in SUBSET T /\ {} # T
      BY <1>5
    <3>2. Sums(f, G({}), {})
      BY <2>1, <3>1
    <3>3. G({})[{}] = 0
      BY <3>2 DEF Sums
    <3> QED BY <3>1, <3>3
  <2>7. Sums(f, g, T)
    <3>1. PICK k : k = g
      OBVIOUS
    <3>2. k \in [SUBSET T -> Nat] /\ k[{}] = 0
          /\ \A u \in SUBSET T : u # {} => k[u] = f[Member(u)] + k[u \ {Member(u)}]
      BY <2>4, <2>5, <2>6, <3>1
    <3> QED BY <3>1, <3>2 DEF Sums
  <2> QED BY <1>2, <2>4, <2>7
<1> QED BY <1>4, <1>5

\* What SumFunction of numbers is.
LEMMA SumIs ==
  ASSUME NEW S, IsFiniteSet(S), NEW f \in [S -> Nat]
  PROVE  \E g \in [SUBSET S -> Nat] : Sums(f, g, S) /\ SumFunction(f) = g[S]
<1>1. PICK g \in [SUBSET S -> Nat] : Sums(f, g, S)
  BY SumExists
<1>2. PICK h : h = CHOOSE k : Sums(f, k, S)
  OBVIOUS
<1>3. Sums(f, h, S)
  BY <1>1, <1>2
<1>4. SumFunction(f) = h[S]
  BY <1>2, SumIsChosen
<1>5. h[S] = g[S]
  BY <1>1, <1>3, SumUnique
<1> QED BY <1>1, <1>4, <1>5

LEMMA SumOfZeros ==
  ASSUME NEW S, IsFiniteSet(S)
  PROVE  SumFunction([s \in S |-> 0]) = 0
<1>1. PICK f : f = [s \in S |-> 0]
  OBVIOUS
<1>2. f \in [S -> Nat]
  BY <1>1
<1>3. PICK g \in [SUBSET S -> Nat] : Sums(f, g, S) /\ SumFunction(f) = g[S]
  BY <1>2, SumIs
<1> DEFINE U == {u \in SUBSET S : g[u] # 0}
<1>4. ASSUME U # {} PROVE FALSE
  <2>1. PICK u \in U : \A v \in U : v \subseteq u => v = u
    <3> HIDE DEF U
    <3>1. U \in SUBSET SUBSET S
      BY DEF U
    <3> QED BY <1>4, <3>1, MinimalSubset
  <2>2. u \in SUBSET S /\ g[u] # 0
    OBVIOUS
  <2>3. CASE u = {}
    BY <1>3, <2>2, <2>3 DEF Sums
  <2>4. CASE u # {}
    <3>1. PICK v : v = u \ {Member(u)}
      OBVIOUS
    <3>2. v \subseteq u /\ v # u /\ v \in SUBSET S /\ Member(u) \in S /\ g[u] = f[Member(u)] + g[v]
      BY <1>3, <2>2, <2>4, <3>1, SumStep
    <3>3. g[v] = 0
      BY <2>1, <3>2
    <3>4. f[Member(u)] = 0
      BY <1>1, <3>2
    <3> QED BY <2>2, <3>2, <3>3, <3>4
  <2> QED BY <2>3, <2>4
<1>5. g[S] = 0
  BY <1>4
<1> QED BY <1>1, <1>3, <1>5

\* One summand more or larger.
LEMMA SumIncreased ==
  ASSUME NEW S, IsFiniteSet(S), NEW f \in [S -> Nat], NEW h \in [S -> Nat],
         NEW t \in S, NEW d \in Nat, h[t] = f[t] + d, \A s \in S \ {t} : h[s] = f[s]
  PROVE  SumFunction(h) = SumFunction(f) + d
<1>1. h \in [S -> Nat] /\ h[t] = f[t] + d /\ (\A s \in S : s # t => h[s] = f[s])
      /\ \A s \in S : f[s] \in Nat
  OBVIOUS
<1>2. PICK g \in [SUBSET S -> Nat] : Sums(f, g, S) /\ SumFunction(f) = g[S]
  BY SumIs
<1>3. PICK k \in [SUBSET S -> Nat] : Sums(h, k, S) /\ SumFunction(h) = k[S]
  BY <1>1, SumIs
<1> DEFINE More(u) == g[u] + (IF t \in u THEN d ELSE 0)
           U == {u \in SUBSET S : k[u] # More(u)}
<1>4. ASSUME U # {} PROVE FALSE
  <2>1. PICK u \in U : \A v \in U : v \subseteq u => v = u
    <3> HIDE DEF U
    <3>1. U \in SUBSET SUBSET S
      BY DEF U
    <3> QED BY <1>4, <3>1, MinimalSubset
  <2>2. u \in SUBSET S /\ k[u] # More(u)
    OBVIOUS
  <2>3. CASE u = {}
    <3>1. g[u] = 0 /\ k[u] = 0
      BY <1>2, <1>3, <2>2, <2>3 DEF Sums
    <3> QED BY <2>2, <2>3, <3>1
  <2>4. CASE u # {}
    <3>1. PICK v, m : m = Member(u) /\ v = u \ {m}
      OBVIOUS
    <3>2. /\ v \subseteq u /\ v # u /\ v \in SUBSET S /\ m \in u /\ m \in S
          /\ g[u] = f[m] + g[v] /\ k[u] = h[m] + k[v]
      BY <1>2, <1>3, <2>2, <2>4, <3>1, SumStep
    <3>3. k[v] = More(v)
      BY <2>1, <3>2
    <3>4. g[v] \in Nat /\ f[m] \in Nat
      BY <1>1, <1>2, <3>2
    <3>5. CASE m = t
      <4>1. t \in u /\ t \notin v
        BY <3>1, <3>2, <3>5
      <4>2. h[m] = f[m] + d
        BY <1>1, <3>5
      <4> QED BY <2>2, <3>2, <3>3, <3>4, <4>1, <4>2
    <3>6. CASE m # t
      <4>1. t \in u <=> t \in v
        BY <3>1, <3>6
      <4>2. h[m] = f[m]
        BY <1>1, <3>2, <3>6
      <4> QED BY <2>2, <3>2, <3>3, <3>4, <4>1, <4>2
    <3> QED BY <3>5, <3>6
  <2> QED BY <2>3, <2>4
<1>5. k[S] = g[S] + d
  BY <1>4
<1> QED BY <1>2, <1>3, <1>5

\* Two sums in one.
LEMMA SumPlus ==
  ASSUME NEW S, IsFiniteSet(S), NEW e \in [S -> Nat], NEW f \in [S -> Nat]
  PROVE  SumFunction([s \in S |-> e[s] + f[s]]) = SumFunction(e) + SumFunction(f)
<1>1. PICK h : h = [s \in S |-> e[s] + f[s]]
  OBVIOUS
<1>2. h \in [S -> Nat] /\ \A s \in S : h[s] = e[s] + f[s] /\ e[s] \in Nat /\ f[s] \in Nat
  BY <1>1
<1>3. PICK i \in [SUBSET S -> Nat] : Sums(e, i, S) /\ SumFunction(e) = i[S]
  BY SumIs
<1>4. PICK j \in [SUBSET S -> Nat] : Sums(f, j, S) /\ SumFunction(f) = j[S]
  BY SumIs
<1>5. PICK k \in [SUBSET S -> Nat] : Sums(h, k, S) /\ SumFunction(h) = k[S]
  BY <1>2, SumIs
<1> DEFINE U == {u \in SUBSET S : k[u] # i[u] + j[u]}
<1>6. ASSUME U # {} PROVE FALSE
  <2>1. PICK u \in U : \A v \in U : v \subseteq u => v = u
    <3> HIDE DEF U
    <3>1. U \in SUBSET SUBSET S
      BY DEF U
    <3> QED BY <1>6, <3>1, MinimalSubset
  <2>2. u \in SUBSET S /\ k[u] # i[u] + j[u]
    OBVIOUS
  <2>3. CASE u = {}
    <3>1. i[u] = 0 /\ j[u] = 0 /\ k[u] = 0
      BY <1>3, <1>4, <1>5, <2>2, <2>3 DEF Sums
    <3> QED BY <2>2, <3>1
  <2>4. CASE u # {}
    <3>1. PICK v, m : m = Member(u) /\ v = u \ {m}
      OBVIOUS
    <3>2. /\ v \subseteq u /\ v # u /\ v \in SUBSET S /\ m \in S
          /\ i[u] = e[m] + i[v] /\ j[u] = f[m] + j[v] /\ k[u] = h[m] + k[v]
      BY <1>3, <1>4, <1>5, <2>2, <2>4, <3>1, SumStep
    <3>3. k[v] = i[v] + j[v]
      BY <2>1, <3>2
    <3>4. i[v] \in Nat /\ j[v] \in Nat
      BY <1>3, <1>4, <3>2
    <3> QED BY <1>2, <2>2, <3>2, <3>3, <3>4
  <2> QED BY <2>3, <2>4
<1>7. k[S] = i[S] + j[S]
  BY <1>6
<1> QED BY <1>1, <1>3, <1>4, <1>5, <1>7

LEMMA Times ==
  ASSUME NEW a \in Nat, NEW b \in Nat, NEW c \in Nat
  PROVE  /\ a * b \in Nat /\ a * b = b * a /\ a * (b * c) = (a * b) * c
         /\ a * (b + c) = a * b + a * c
         /\ a * 0 = 0 /\ 0 * a = 0 /\ 1 * a = a
OBVIOUS

\* A common factor.
LEMMA SumTimes ==
  ASSUME NEW S, IsFiniteSet(S), NEW d \in Nat, NEW f \in [S -> Nat]
  PROVE  SumFunction([s \in S |-> d * f[s]]) = d * SumFunction(f)
<1>1. PICK h : h = [s \in S |-> d * f[s]]
  OBVIOUS
<1>2. h \in [S -> Nat] /\ \A s \in S : h[s] = d * f[s] /\ f[s] \in Nat
  BY <1>1, Times
<1>3. PICK i \in [SUBSET S -> Nat] : Sums(f, i, S) /\ SumFunction(f) = i[S]
  BY SumIs
<1>4. PICK k \in [SUBSET S -> Nat] : Sums(h, k, S) /\ SumFunction(h) = k[S]
  BY <1>2, SumIs
<1> DEFINE U == {u \in SUBSET S : k[u] # d * i[u]}
<1>5. ASSUME U # {} PROVE FALSE
  <2>1. PICK u \in U : \A v \in U : v \subseteq u => v = u
    <3> HIDE DEF U
    <3>1. U \in SUBSET SUBSET S
      BY DEF U
    <3> QED BY <1>5, <3>1, MinimalSubset
  <2>2. u \in SUBSET S /\ k[u] # d * i[u]
    OBVIOUS
  <2>3. CASE u = {}
    <3>1. i[u] = 0 /\ k[u] = 0
      BY <1>3, <1>4, <2>2, <2>3 DEF Sums
    <3> QED BY <2>2, <3>1, Times
  <2>4. CASE u # {}
    <3>1. PICK v, m : m = Member(u) /\ v = u \ {m}
      OBVIOUS
    <3>2. /\ v \subseteq u /\ v # u /\ v \in SUBSET S /\ m \in S
          /\ i[u] = f[m] + i[v] /\ k[u] = h[m] + k[v]
      BY <1>3, <1>4, <2>2, <2>4, <3>1, SumStep
    <3>3. k[v] = d * i[v]
      BY <2>1, <3>2
    <3>4. i[v] \in Nat /\ f[m] \in Nat /\ h[m] = d * f[m]
      BY <1>2, <1>3, <3>2
    <3>5. d * (f[m] + i[v]) = d * f[m] + d * i[v]
      BY <3>4, Times
    <3> QED BY <2>2, <3>2, <3>3, <3>4, <3>5
  <2> QED BY <2>3, <2>4
<1>6. k[S] = d * i[S]
  BY <1>5
<1> QED BY <1>1, <1>3, <1>4, <1>6

LEMMA SumIsNat ==
  ASSUME NEW S, IsFiniteSet(S), NEW f \in [S -> Nat]
  PROVE  SumFunction(f) \in Nat
<1>1. PICK g \in [SUBSET S -> Nat] : SumFunction(f) = g[S]
  BY SumIs
<1> QED BY <1>1

\* A sum of multiples is one.
LEMMA SumOfMultiples ==
  ASSUME NEW S, IsFiniteSet(S), NEW d \in Nat, NEW f \in [S -> Nat],
         \A s \in S : \E q \in Nat : f[s] = d * q
  PROVE  \E q \in Nat : SumFunction(f) = d * q
<1>1. PICK h : h = [s \in S |-> CHOOSE q \in Nat : f[s] = d * q]
  OBVIOUS
<1>2. h \in [S -> Nat] /\ \A s \in S : f[s] = d * h[s]
  BY <1>1
<1>3. f = [s \in S |-> d * h[s]]
  BY <1>2
<1>4. SumFunction(f) = d * SumFunction(h)
  BY <1>2, <1>3, SumTimes
<1> QED BY <1>2, <1>4, SumIsNat

\* Building a type demands as much of each material from the next level as its step grows.
LEMMA BuildDemands ==
  ASSUME TypeOK, NEW t \in Types, Build(t)
  PROVE  /\ steps'[t].quantity_needed = steps[t].quantity_needed + current_level[t]
         /\ \A u \in Types \ {t} : steps'[u] = steps[u] /\ current_level'[u] = current_level[u]
         /\ current_level'[t] = 0
         /\ \A m \in Types : \E n \in Nat :
              /\ steps'[t].materials[m] = steps[t].materials[m] + n
              /\ next_level'[m] = next_level[m] + n
<1> DEFINE runs == RunsFor(t, current_level[t])
           needed == [m \in Types |-> catalog[t].materials[m] * runs]
           materials == [m \in Types |-> steps[t].materials[m] + needed[m]]
           grown == [quantity_needed |-> steps[t].quantity_needed + current_level[t],
                     runs |-> steps[t].runs + runs,
                     materials |-> materials]
<1>1. /\ runs \in Nat /\ HasBlueprint(t)
      /\ steps'[t].quantity_needed = steps[t].quantity_needed + current_level[t]
      /\ \A u \in Types \ {t} : steps'[u] = steps[u] /\ current_level'[u] = current_level[u]
      /\ current_level'[t] = 0
  BY BuildEffect DEF Expanded
<1>2. catalog[t].materials \in [Types -> Nat]
  BY <1>1, BlueprintType DEF TypeOK
<1>3. steps' = [steps EXCEPT ![t] = grown] /\ next_level' = [m \in Types |-> next_level[m] + needed[m]]
  BY DEF Build
<1>4. steps'[t] = grown
  <2> HIDE DEF grown
  <2> QED BY <1>3 DEF TypeOK
<1>5. ASSUME NEW m \in Types
      PROVE  \E n \in Nat : /\ steps'[t].materials[m] = steps[t].materials[m] + n
                            /\ next_level'[m] = next_level[m] + n
  <2>1. PICK n : n = catalog[t].materials[m] * runs
    OBVIOUS
  <2>2. n \in Nat
    <3> HIDE DEF runs
    <3>1. catalog[t].materials[m] \in Nat
      BY <1>2
    <3> QED BY <1>1, <2>1, <3>1, NatProduct
  <2>3. materials[m] = steps[t].materials[m] + n /\ next_level'[m] = next_level[m] + n
    BY <1>3, <2>1
  <2>4. steps'[t].materials = materials
    <3> HIDE DEF materials
    <3> QED BY <1>4
  <2> QED BY <2>2, <2>3, <2>4
<1> QED BY <1>1, <1>5

\* What all steps take of a material.
Demanded(m) == SumFunction([s \in Types |-> steps[s].materials[m]])
Asking(m) == IF m = target THEN wanted ELSE 0

LEMMA DemandType ==
  ASSUME TypeOK, NEW m \in Types
  PROVE  /\ [s \in Types |-> steps[s].materials[m]] \in [Types -> Nat]
         /\ steps[m].quantity_needed \in Nat /\ raw_totals[m] \in Nat
         /\ current_level[m] \in Nat /\ next_level[m] \in Nat /\ Asking(m) \in Nat
         /\ Demanded(m) \in Nat
<1>1. \A s \in Types : steps[s] \in BuildSteps
  BY DEF TypeOK
<1>2. \A s \in Types : steps[s].materials[m] \in Nat
  BY <1>1 DEF BuildSteps
<1>3. Demanded(m) \in Nat
  <2>1. PICK f : f = [s \in Types |-> steps[s].materials[m]]
    OBVIOUS
  <2>2. f \in [Types -> Nat]
    BY <1>2, <2>1
  <2>3. PICK g \in [SUBSET Types -> Nat] : SumFunction(f) = g[Types]
    BY <2>2, SumIs, TypesFinite
  <2> QED BY <2>1, <2>3 DEF Demanded
<1> QED BY <1>1, <1>2, <1>3, BoundsAreNat DEF BuildSteps, TypeOK, Asking

LEMMA DemandInit == Init => DemandConserved
<1> SUFFICES ASSUME Init, NEW t \in Types
             PROVE  Demanded(t) + Asking(t)
                      = steps[t].quantity_needed + raw_totals[t] + current_level[t] + next_level[t]
  BY DEF DemandConserved, Demanded, Asking
<1>1. [s \in Types |-> steps[s].materials[t]] = [s \in Types |-> 0]
  BY DEF Init, NoStep, Nothing
<1>2. Demanded(t) = 0
  BY <1>1, SumOfZeros, TypesFinite DEF Demanded
<1>3. steps[t].quantity_needed = 0 /\ raw_totals[t] = 0 /\ next_level[t] = 0
  BY DEF Init, NoStep, Nothing
<1>4. current_level[t] = Asking(t) /\ Asking(t) \in Nat
  BY BoundsAreNat DEF Init, Nothing, Asking
<1> QED BY <1>2, <1>3, <1>4

LEMMA DemandBuild ==
  ASSUME TypeOK, DemandConserved, NEW t \in Types, Build(t)
  PROVE  DemandConserved'
<1>1. UNCHANGED <<target, wanted, raw_totals>>
  BY DEF Build, request
<1> SUFFICES ASSUME NEW m \in Types
             PROVE  Demanded(m)' + Asking(m)
                      = steps'[m].quantity_needed + raw_totals[m]
                          + current_level'[m] + next_level'[m]
  BY <1>1 DEF DemandConserved, Demanded, Asking
<1>2. PICK n \in Nat : /\ steps'[t].materials[m] = steps[t].materials[m] + n
                       /\ next_level'[m] = next_level[m] + n
  BY BuildDemands
<1>3. PICK f, h : /\ f = [s \in Types |-> steps[s].materials[m]]
                  /\ h = [s \in Types |-> steps'[s].materials[m]]
  OBVIOUS
<1>4. f \in [Types -> Nat]
  BY <1>3, DemandType
<1>5. h \in [Types -> Nat] /\ h[t] = f[t] + n /\ \A s \in Types \ {t} : h[s] = f[s]
  <2>1. \A s \in Types : h[s] = IF s = t THEN f[t] + n ELSE f[s]
    BY <1>2, <1>3, BuildDemands
  <2>2. f[t] + n \in Nat
    BY <1>4
  <2> QED BY <1>3, <1>4, <2>1, <2>2
<1>6. SumFunction(h) = SumFunction(f) + n
  BY <1>4, <1>5, SumIncreased, TypesFinite
<1>7. Demanded(m)' = Demanded(m) + n
  BY <1>3, <1>6 DEF Demanded
<1>8. steps'[m].quantity_needed + current_level'[m] = steps[m].quantity_needed + current_level[m]
  <2>1. CASE m = t
    BY <2>1, BuildDemands, DemandType
  <2>2. CASE m # t
    BY <2>2, BuildDemands
  <2> QED BY <2>1, <2>2
<1>9. /\ steps'[m].quantity_needed \in Nat /\ current_level'[m] \in Nat
  <2>1. CASE m = t
    BY <2>1, BuildDemands, DemandType
  <2>2. CASE m # t
    BY <2>2, BuildDemands, DemandType
  <2> QED BY <2>1, <2>2
<1>10. Demanded(m) + Asking(m)
         = steps[m].quantity_needed + raw_totals[m] + current_level[m] + next_level[m]
  BY DEF DemandConserved, Demanded, Asking
<1> QED BY <1>2, <1>7, <1>8, <1>9, <1>10, DemandType

\* The other steps leave what is demanded, and its sum with what is in hand.
LEMMA DemandKept ==
  ASSUME TypeOK, DemandConserved, UNCHANGED <<target, wanted, steps>>,
         \A m \in Types :
           raw_totals'[m] + current_level'[m] + next_level'[m]
             = raw_totals[m] + current_level[m] + next_level[m],
         TypeOK'
  PROVE  DemandConserved'
<1> SUFFICES ASSUME NEW m \in Types
             PROVE  Demanded(m) + Asking(m)
                      = steps[m].quantity_needed + raw_totals'[m]
                          + current_level'[m] + next_level'[m]
  BY DEF DemandConserved, Demanded, Asking
<1>1. /\ raw_totals'[m] \in Nat /\ current_level'[m] \in Nat /\ next_level'[m] \in Nat
  BY DEF TypeOK
<1>2. Demanded(m) + Asking(m)
        = steps[m].quantity_needed + raw_totals[m] + current_level[m] + next_level[m]
  BY DEF DemandConserved, Demanded, Asking
<1> QED BY <1>1, <1>2, DemandType

LEMMA DemandStep == TypeOK /\ DemandConserved /\ [Next]_vars => DemandConserved'
<1> SUFFICES ASSUME TypeOK, DemandConserved, [Next]_vars PROVE DemandConserved'
  OBVIOUS
<1>0. TypeOK'
  BY TypeStep
<1>1. ASSUME NEW t \in Types, Build(t) PROVE DemandConserved'
  BY <1>1, DemandBuild
<1>2. ASSUME NEW t \in Types, Buy(t) PROVE DemandConserved'
  <2>1. /\ UNCHANGED <<target, wanted, steps, next_level>>
        /\ raw_totals' = [raw_totals EXCEPT ![t] = raw_totals[t] + current_level[t]]
        /\ current_level' = [current_level EXCEPT ![t] = 0]
    BY <1>2 DEF Buy, request
  <2>2. raw_totals \in [Types -> Nat] /\ current_level \in [Types -> Nat]
        /\ next_level \in [Types -> Nat]
    BY DEF TypeOK
  <2>3. \A m \in Types : raw_totals'[m] + current_level'[m] = raw_totals[m] + current_level[m]
    BY <2>1, <2>2
  <2>4. \A m \in Types : raw_totals'[m] + current_level'[m] + next_level'[m]
                           = raw_totals[m] + current_level[m] + next_level[m]
    BY <2>1, <2>3
  <2> QED BY <1>0, <2>1, <2>4, DemandKept
<1>3. ASSUME NextLevel PROVE DemandConserved'
  <2>1. /\ UNCHANGED <<target, wanted, steps, raw_totals>>
        /\ current_level = Nothing /\ current_level' = next_level /\ next_level' = Nothing
    BY <1>3 DEF NextLevel, request
  <2>2. \A m \in Types : raw_totals[m] \in Nat /\ next_level[m] \in Nat /\ Nothing[m] = 0
    BY DEF TypeOK, Nothing
  <2>3. \A m \in Types : raw_totals'[m] + current_level'[m] + next_level'[m]
                           = raw_totals[m] + current_level[m] + next_level[m]
    BY <2>1, <2>2
  <2> QED BY <1>0, <2>1, <2>3, DemandKept
<1>4. ASSUME Leftover PROVE DemandConserved'
  <2>1. /\ UNCHANGED <<target, wanted, steps, next_level>>
        /\ raw_totals' = [t \in Types |-> raw_totals[t] + current_level[t]]
        /\ current_level' = Nothing
    BY <1>4 DEF Leftover, request
  <2>2. \A m \in Types : raw_totals[m] \in Nat /\ current_level[m] \in Nat /\ Nothing[m] = 0
    BY DEF TypeOK, Nothing
  <2>3. \A m \in Types : raw_totals'[m] + current_level'[m] + next_level'[m]
                           = raw_totals[m] + current_level[m] + next_level[m]
    BY <2>1, <2>2
  <2> QED BY <1>0, <2>1, <2>3, DemandKept
<1>5. ASSUME UNCHANGED <<target, wanted, walk>> PROVE DemandConserved'
  <2>1. UNCHANGED <<target, wanted, steps, raw_totals, current_level, next_level>>
    BY <1>5 DEF walk
  <2> QED BY <1>0, <2>1, DemandKept
<1> QED
  BY <1>1, <1>2, <1>3, <1>4, <1>5
     DEF Next, Visit, Finish, Return, Import, vars, request

\* "Treat anything left over as raw rather than lose it" (build_chain.py): whatever the
\* catalog, cycles and imports included, nothing that is demanded of a type is lost or
\* counted twice.
THEOREM NothingIsLost == Spec => []DemandConserved
<1>1. Init => DemandConserved
  BY DemandInit
<1>2. TypeOK /\ DemandConserved /\ [Next]_vars => DemandConserved'
  BY DemandStep
<1> QED BY <1>1, <1>2, TypeCorrect, PTL DEF Spec

-----------------------------------------------------------------------------
(* Divisions, numbers, and functions by recursion on them *)

LEMMA Exact ==
  ASSUME NEW d \in Nat \ {0}, NEW q \in Nat
  PROVE  (d * q) \div d = q
<1>1. PICK a \in Nat : a = d * q
  OBVIOUS
<1>2. a \div d \in Nat /\ (a \div d) * d <= a /\ a < (a \div d) * d + d
  BY DivBounds
<1>3. PICK p \in Nat : p = a \div d
  BY <1>2
<1>4. d * q < d * p + d /\ d * p <= d * q
  BY <1>1, <1>2, <1>3
<1>5. ~(q < p)
  <2> SUFFICES ASSUME q < p PROVE FALSE
    OBVIOUS
  <2>1. PICK k \in Nat : p = q + k + 1
    BY SMT
  <2>2. d * p = d * q + d * k + d /\ d * k \in Nat
    BY <2>1
  <2> QED BY <1>4, <2>2
<1>6. ~(p < q)
  <2> SUFFICES ASSUME p < q PROVE FALSE
    OBVIOUS
  <2>1. PICK k \in Nat : q = p + k + 1
    BY SMT
  <2>2. d * q = d * p + d * k + d /\ d * k \in Nat
    BY <2>1
  <2> QED BY <1>4, <2>2
<1> QED BY <1>1, <1>3, <1>5, <1>6

LEMMA Least ==
  ASSUME NEW U \in SUBSET Nat, U # {}
  PROVE  \E n \in U : \A m \in U : n <= m
<1>1. PICK k \in U : TRUE
  OBVIOUS
<1> DEFINE W == {0..m : m \in {m \in U : m <= k}}
<1>2. PICK u \in W : \A v \in W : v \subseteq u => v = u
  <2>1. PICK S : S = 0..k
    OBVIOUS
  <2>2. IsFiniteSet(S)
    BY <1>1, <2>1, FS_Interval
  <2>3. W \in SUBSET SUBSET S
    BY <1>1, <2>1
  <2>4. W # {}
    BY <1>1
  <2> HIDE DEF W
  <2> QED BY <2>2, <2>3, <2>4, MinimalSubset
<1>3. PICK n \in U : n <= k /\ u = 0..n
  OBVIOUS
<1>4. ASSUME NEW m \in U, m < n PROVE FALSE
  <2>1. 0..m \in W /\ 0..m \subseteq u
    BY <1>1, <1>3, <1>4
  <2>2. 0..m = 0..n
    BY <1>2, <1>3, <2>1
  <2>3. n \in 0..n
    BY <1>3
  <2> QED BY <1>4, <2>2, <2>3
<1> QED BY <1>3, <1>4

\* The first values of the iteration of F from v.
Prefix(F, V, v, n, g) ==
  /\ g \in [0..n -> V] /\ g[0] = v
  /\ \A i \in 1..n : g[i] = F[g[i - 1]]

LEMMA PrefixUnique ==
  ASSUME NEW V, NEW F \in [V -> V], NEW v \in V, NEW n \in Nat, NEW m \in Nat,
         NEW g, Prefix(F, V, v, n, g), NEW h, Prefix(F, V, v, m, h), n <= m
  PROVE  g[n] = h[n]
<1> DEFINE U == {i \in 0..n : g[i] # h[i]}
<1>1. ASSUME U # {} PROVE FALSE
  <2>1. PICK i \in U : \A j \in U : i <= j
    <3>1. U \in SUBSET Nat
      OBVIOUS
    <3> HIDE DEF U
    <3> QED BY <1>1, <3>1, Least
  <2>2. i \in 0..n /\ g[i] # h[i]
    OBVIOUS
  <2>3. i # 0
    BY <2>2 DEF Prefix
  <2>4. i - 1 \in 0..n /\ i \in 1..n /\ i \in 1..m
    BY <2>2, <2>3
  <2>5. g[i - 1] = h[i - 1]
    BY <2>1, <2>4
  <2>6. g[i] = F[g[i - 1]] /\ h[i] = F[h[i - 1]]
    BY <2>4 DEF Prefix
  <2> QED BY <2>2, <2>5, <2>6
<1> QED BY <1>1

LEMMA PrefixExists ==
  ASSUME NEW V, NEW F \in [V -> V], NEW v \in V, NEW n \in Nat
  PROVE  \E g : Prefix(F, V, v, n, g)
<1> DEFINE U == {k \in Nat : ~\E g : Prefix(F, V, v, k, g)}
<1>1. ASSUME U # {} PROVE FALSE
  <2>1. PICK k \in U : \A j \in U : k <= j
    BY <1>1, Least
  <2>2. k \in Nat /\ ~\E g : Prefix(F, V, v, k, g)
    OBVIOUS
  <2>3. CASE k = 0
    <3>1. PICK g : g = [i \in 0..0 |-> v]
      OBVIOUS
    <3>2. Prefix(F, V, v, 0, g)
      BY <3>1 DEF Prefix
    <3> QED BY <2>2, <2>3, <3>2
  <2>4. CASE k # 0
    <3>1. k - 1 \in Nat /\ k - 1 \notin U
      BY <2>1, <2>2, <2>4
    <3>2. PICK g : Prefix(F, V, v, k - 1, g)
      BY <3>1
    <3>3. PICK h : h = [i \in 0..k |-> IF i = k THEN F[g[k - 1]] ELSE g[i]]
      OBVIOUS
    <3>4. \A i \in 0..(k - 1) : g[i] \in V /\ h[i] = g[i]
      BY <2>2, <3>2, <3>3 DEF Prefix
    <3>5. h \in [0..k -> V] /\ h[k] = F[h[k - 1]] /\ h[0] = v
      BY <2>2, <2>4, <3>2, <3>3, <3>4 DEF Prefix
    <3>6. \A i \in 1..k : h[i] = F[h[i - 1]]
      BY <2>2, <2>4, <3>2, <3>4, <3>5 DEF Prefix
    <3>7. Prefix(F, V, v, k, h)
      BY <3>5, <3>6 DEF Prefix
    <3> QED BY <2>2, <3>7
  <2> QED BY <2>3, <2>4
<1> QED BY <1>1

Maps(V) == [V -> V]
Series(V) == [Nat -> V]

LEMMA Iteration ==
  ASSUME NEW V, NEW F \in Maps(V), NEW v \in V
  PROVE  \E c \in Series(V) : c[0] = v /\ \A n \in Nat : c[n + 1] = F[c[n]]
<1> DEFINE G(n) == CHOOSE g : Prefix(F, V, v, n, g)
<1>1. \A n \in Nat : Prefix(F, V, v, n, G(n))
  BY PrefixExists DEF Maps
<1> HIDE DEF G
<1>2. PICK c : c = [n \in Nat |-> G(n)[n]]
  OBVIOUS
<1>3. \A n \in Nat : c[n] \in V /\ c[n] = G(n)[n]
  BY <1>1, <1>2 DEF Prefix
<1>4. c[0] = v
  BY <1>1, <1>3 DEF Prefix
<1>5. ASSUME NEW n \in Nat PROVE c[n + 1] = F[c[n]]
  <2>1. Prefix(F, V, v, n, G(n)) /\ Prefix(F, V, v, n + 1, G(n + 1))
    BY <1>1
  <2>2. G(n)[n] = G(n + 1)[n]
    BY <2>1, PrefixUnique DEF Maps
  <2>3. G(n + 1)[n + 1] = F[G(n + 1)[n]]
    <3>1. n + 1 \in 1..(n + 1) /\ (n + 1) - 1 = n
      OBVIOUS
    <3> QED BY <2>1, <3>1 DEF Prefix
  <2> QED BY <1>3, <2>2, <2>3
<1> QED BY <1>2, <1>3, <1>4, <1>5 DEF Series

-----------------------------------------------------------------------------
(* What a unit of a planetary type takes of a raw material *)

Amounts == [Commodities -> Nat]
Contents(set, r, c) ==
  c = [n \in Nat |-> IF n = 0 THEN None ELSE PerUnit(set, r, c[n - 1])]

LEMMA ContentIsChosen ==
  ASSUME NEW set, NEW r
  PROVE  RawContent(set, r) = (CHOOSE c : Contents(set, r, c))[Cardinality(Commodities)]
BY DEF RawContent, Contents

LEMMA SchematicType ==
  ASSUME NEW set \in SchematicSets, NEW t \in Commodities, set[t] # NoSchematic
  PROVE  set[t].output \in Nat \ {0} /\ set[t].inputs \in Amounts
BY SetsOfSchematics DEF Schematics, Amounts

LEMMA PerUnitType ==
  ASSUME NEW set \in SchematicSets, NEW r, NEW v \in Amounts
  PROVE  PerUnit(set, r, v) \in Amounts
<1>1. ASSUME NEW t \in Commodities, set[t] # NoSchematic
      PROVE  SumFunction([m \in Commodities |-> set[t].inputs[m] * v[m]]) \div set[t].output \in Nat
  <2>1. PICK f : f = [m \in Commodities |-> set[t].inputs[m] * v[m]]
    OBVIOUS
  <2>2. f \in [Commodities -> Nat]
    <3>1. set[t].inputs \in Amounts
      BY <1>1, SchematicType
    <3>2. \A m \in Commodities : set[t].inputs[m] \in Nat /\ v[m] \in Nat
      BY <3>1 DEF Amounts
    <3>3. \A m \in Commodities : set[t].inputs[m] * v[m] \in Nat
      BY <3>2, Times
    <3> QED BY <2>1, <3>3
  <2>3. SumFunction(f) \in Nat
    BY <2>2, FinitelyMany, SumIsNat
  <2> QED BY <1>1, <2>1, <2>3, SchematicType, DivBounds
<1> QED BY <1>1, ScaleIsNat DEF PerUnit, Amounts

LEMMA ContentExists ==
  ASSUME NEW set \in SchematicSets, NEW r
  PROVE  \E c \in [Nat -> Amounts] :
           /\ c[0] = None /\ \A n \in Nat : c[n + 1] = PerUnit(set, r, c[n])
           /\ RawContent(set, r) = c[Cardinality(Commodities)]
<1>1. PICK F : F = [v \in Amounts |-> PerUnit(set, r, v)]
  OBVIOUS
<1>2. F \in [Amounts -> Amounts] /\ None \in Amounts
  <2>1. None \in Amounts
    BY DEF None, Amounts
  <2>2. \A v \in Amounts : PerUnit(set, r, v) \in Amounts
    BY PerUnitType
  <2> QED BY <1>1, <2>1, <2>2
<1>3. PICK b \in [Nat -> Amounts] : b[0] = None /\ \A n \in Nat : b[n + 1] = F[b[n]]
  <2>1. F \in Maps(Amounts)
    BY <1>2 DEF Maps
  <2>2. PICK b \in Series(Amounts) : b[0] = None /\ \A n \in Nat : b[n + 1] = F[b[n]]
    BY <1>2, <2>1, Iteration
  <2> QED BY <2>2 DEF Series
<1>4. Contents(set, r, b)
  <2>1. ASSUME NEW n \in Nat, n # 0 PROVE b[n] = PerUnit(set, r, b[n - 1])
    <3>1. n - 1 \in Nat /\ (n - 1) + 1 = n
      BY <2>1
    <3> QED BY <1>1, <1>3, <3>1
  <2> QED BY <1>3, <2>1 DEF Contents
<1>5. PICK c : c = CHOOSE k : Contents(set, r, k)
  OBVIOUS
<1>6. Contents(set, r, c)
  BY <1>4, <1>5
<1>7. c[0] = None
  BY <1>6 DEF Contents
<1>8. ASSUME NEW n \in Nat PROVE c[n + 1] = PerUnit(set, r, c[n])
  <2>1. n + 1 \in Nat /\ n + 1 # 0 /\ (n + 1) - 1 = n
    OBVIOUS
  <2>2. PICK w : w = PerUnit(set, r, c[n])
    OBVIOUS
  <2> QED BY <1>6, <2>1, <2>2 DEF Contents
<1>9. c \in [Nat -> Amounts]
  <2> DEFINE U == {n \in Nat : c[n] \notin Amounts}
  <2>1. ASSUME U # {} PROVE FALSE
    <3>1. PICK n \in U : \A m \in U : n <= m
      BY <2>1, Least
    <3>2. n # 0
      BY <1>2, <1>7
    <3>3. n - 1 \in Nat /\ (n - 1) + 1 = n /\ n - 1 \notin U
      BY <3>1, <3>2
    <3>4. c[n - 1] \in Amounts /\ c[n] = PerUnit(set, r, c[n - 1])
      BY <1>8, <3>3
    <3> QED BY <3>1, <3>4, PerUnitType
  <2>2. c = [n \in Nat |-> c[n]]
    BY <1>6 DEF Contents
  <2> QED BY <2>1, <2>2
<1>10. RawContent(set, r) = c[Cardinality(Commodities)]
  BY <1>5, ContentIsChosen
<1> QED BY <1>7, <1>8, <1>9, <1>10

\* The schematics between a product and its raw materials are fewer than the types.
LEMMA ContentIsFixed ==
  ASSUME NEW set \in SchematicSets, NEW r
  PROVE  /\ RawContent(set, r) \in Amounts
         /\ RawContent(set, r) = PerUnit(set, r, RawContent(set, r))
<1> DEFINE N == Cardinality(Commodities)
<1>1. PICK c \in [Nat -> Amounts] :
        /\ c[0] = None /\ \A n \in Nat : c[n + 1] = PerUnit(set, r, c[n])
        /\ RawContent(set, r) = c[N]
  BY ContentExists
<1>2. PICK rank \in [Commodities -> 0..(N - 1)] :
        \A t, m \in Commodities : Takes(set, t, m) => rank[m] < rank[t]
  BY NothingOfItself
<1>3. N \in Nat
  BY FinitelyMany, FS_CardinalityType
<1> HIDE DEF N
<1> DEFINE Settled(t) == \A n \in Nat : n > rank[t] => c[n + 1][t] = c[n][t]
           U == {rank[t] : t \in {t \in Commodities : ~Settled(t)}}
<1>4. ASSUME U # {} PROVE FALSE
  <2>1. PICK k \in U : \A j \in U : k <= j
    <3>1. U \in SUBSET Nat
      BY <1>2, <1>3
    <3> HIDE DEF U
    <3> QED BY <1>4, <3>1, Least
  <2>2. PICK t \in Commodities : ~Settled(t) /\ \A m \in Commodities : rank[m] < rank[t] => Settled(m)
    <3>1. PICK t \in Commodities : ~Settled(t) /\ k = rank[t]
      OBVIOUS
    <3>2. \A m \in Commodities : ~Settled(m) => k <= rank[m]
      BY <2>1
    <3>3. \A m \in Commodities : rank[m] \in Nat
      BY <1>2, <1>3
    <3> HIDE DEF Settled
    <3> QED BY <3>1, <3>2, <3>3
  <2>3. PICK n \in Nat : n > rank[t] /\ c[n + 1][t] # c[n][t]
    BY <2>2
  <2>4. PICK i \in Nat : n = i + 1 /\ i >= rank[t]
    <3>1. rank[t] \in Nat
      BY <1>2, <1>3
    <3>2. n - 1 \in Nat /\ n = (n - 1) + 1 /\ n - 1 >= rank[t]
      BY <2>3, <3>1
    <3> QED BY <3>2
  <2>5. c[n + 1] = PerUnit(set, r, c[n]) /\ c[n] = PerUnit(set, r, c[i])
    BY <1>1, <2>3, <2>4
  <2>6. CASE set[t] = NoSchematic
    BY <2>3, <2>5, <2>6 DEF PerUnit
  <2>7. CASE set[t] # NoSchematic
    <3>1. ASSUME NEW m \in Commodities
          PROVE  set[t].inputs[m] * c[n][m] = set[t].inputs[m] * c[i][m]
      <4>1. c[n][m] \in Nat /\ c[i][m] \in Nat /\ set[t].inputs[m] \in Nat
        BY <1>1, <2>3, <2>4, <2>7, SchematicType DEF Amounts
      <4>2. CASE set[t].inputs[m] = 0
        BY <4>1, <4>2, Times
      <4>3. CASE set[t].inputs[m] # 0
        <5>1. rank[m] < rank[t]
          BY <1>2, <2>7, <4>1, <4>3 DEF Takes
        <5>2. Settled(m) /\ i > rank[m]
          BY <1>2, <1>3, <2>2, <2>4, <5>1
        <5>3. c[i + 1][m] = c[i][m]
          BY <5>2
        <5> QED BY <2>4, <5>3
      <4> QED BY <4>2, <4>3
    <3>2. PICK f, g : /\ f = [m \in Commodities |-> set[t].inputs[m] * c[n][m]]
                      /\ g = [m \in Commodities |-> set[t].inputs[m] * c[i][m]]
      OBVIOUS
    <3>3. f = g
      BY <3>1, <3>2
    <3>4. c[n + 1][t] = SumFunction(f) \div set[t].output
      BY <2>5, <2>7, <3>2 DEF PerUnit
    <3>5. c[n][t] = SumFunction(g) \div set[t].output
      BY <2>5, <2>7, <3>2 DEF PerUnit
    <3> QED BY <2>3, <3>3, <3>4, <3>5
  <2> QED BY <2>6, <2>7
<1>5. \A t \in Commodities : c[N + 1][t] = c[N][t]
  <2> TAKE t \in Commodities
  <2>1. Settled(t)
    BY <1>4
  <2>2. N > rank[t]
    BY <1>2, <1>3
  <2> QED BY <1>3, <2>1, <2>2
<1>6. c[N + 1] \in Amounts /\ c[N] \in Amounts
  BY <1>1, <1>3
<1>7. c[N + 1] = c[N]
  BY <1>5, <1>6 DEF Amounts
<1> QED BY <1>1, <1>3, <1>6, <1>7

LEMMA Cancel ==
  ASSUME NEW a \in Nat, NEW b \in Nat, NEW d \in Nat \ {0}, a * d = b * d
  PROVE  a = b
<1>1. (d * a) \div d = a /\ (d * b) \div d = b
  BY Exact
<1>2. d * a = d * b
  BY Times
<1> QED BY <1>1, <1>2

\* No division by the output of a schematic leaves a remainder.
LEMMA ContentIsExact ==
  ASSUME NEW set \in SchematicSets, NEW r, NEW product \in Commodities, set[product] # NoSchematic
  PROVE  SumFunction([m \in Commodities |-> set[product].inputs[m] * RawContent(set, r)[m]])
           = set[product].output * RawContent(set, r)[product]
<1>1. PICK C : C = RawContent(set, r)
  OBVIOUS
<1>2. C \in Amounts /\ C = PerUnit(set, r, C)
  BY <1>1, ContentIsFixed
<1>3. PICK grain \in Grains(set) : TRUE
  BY ScaleIsFine
<1>4. \A t \in Commodities : grain[t] \in Nat \ {0} /\ \E k \in Nat \ {0} : Scale = k * grain[t]
  BY <1>3, ScaleIsNat DEF Grains, Divides
<1>5. PICK share : share = [t \in Commodities |-> CHOOSE k \in Nat \ {0} : Scale = k * grain[t]]
  OBVIOUS
<1>6. \A t \in Commodities : share[t] \in Nat \ {0} /\ Scale = share[t] * grain[t]
  BY <1>4, <1>5
<1>7. ASSUME NEW t \in Commodities, NEW m \in Commodities, Takes(set, t, m)
      PROVE  \E k \in Nat : share[m] = (set[t].output * share[t]) * k
  <2>1. PICK o \in Nat : o = set[t].output
    BY <1>7, SchematicType DEF Takes
  <2>2. PICK k \in Nat : grain[t] = k * (o * grain[m])
    BY <1>3, <1>7, <2>1 DEF Grains, Divides
  <2>3. PICK g \in Nat \ {0}, h \in Nat, s \in Nat, u \in Nat :
          g = grain[m] /\ h = grain[t] /\ s = share[t] /\ u = share[m]
    BY <1>4, <1>6
  <2>4. u * g = s * h /\ h = k * (o * g)
    BY <1>6, <2>2, <2>3
  <2>5. s * (k * (o * g)) = ((o * s) * k) * g
    BY <2>1, <2>2, <2>3
  <2>6. (o * s) * k \in Nat
    BY <2>1, <2>2, <2>3
  <2>7. u = (o * s) * k
    <3>1. PICK a \in Nat : a = (o * s) * k
      BY <2>6
    <3>2. u * g = a * g
      BY <2>4, <2>5, <3>1
    <3> QED BY <2>3, <3>1, <3>2, Cancel
  <2> QED BY <2>1, <2>2, <2>3, <2>7
<1> DEFINE Shared(t) == \E q \in Nat : C[t] = share[t] * q
<1>8. ASSUME NEW t \in Commodities, set[t] # NoSchematic,
             \A m \in Commodities : Takes(set, t, m) => Shared(m)
      PROVE  /\ Shared(t)
             /\ SumFunction([m \in Commodities |-> set[t].inputs[m] * C[m]]) = set[t].output * C[t]
  <2>1. PICK o \in Nat \ {0}, s \in Nat, in \in Amounts :
          o = set[t].output /\ s = share[t] /\ in = set[t].inputs
    BY <1>6, <1>8, SchematicType
  <2>2. PICK f : f = [m \in Commodities |-> in[m] * C[m]]
    OBVIOUS
  <2>3. \A m \in Commodities : in[m] \in Nat /\ C[m] \in Nat
    BY <1>2, <2>1 DEF Amounts
  <2>4. f \in [Commodities -> Nat]
    BY <2>2, <2>3, Times
  <2>5. o * s \in Nat
    BY <2>1, Times
  <2>6. ASSUME NEW m \in Commodities PROVE \E q \in Nat : f[m] = (o * s) * q
    <3>1. CASE in[m] = 0
      <4>1. f[m] = (o * s) * 0
        BY <2>2, <2>3, <2>5, <3>1, Times
      <4> QED BY <4>1
    <3>2. CASE in[m] # 0
      <4>1. Takes(set, t, m)
        BY <1>8, <2>1, <2>3, <3>2 DEF Takes
      <4>2. PICK k \in Nat : share[m] = (o * s) * k
        BY <1>7, <2>1, <4>1
      <4>3. PICK q \in Nat : C[m] = share[m] * q
        BY <1>8, <4>1
      <4>4. PICK i \in Nat : i = in[m]
        BY <2>3
      <4>5. i * (((o * s) * k) * q) = (o * s) * (i * (k * q)) /\ i * (k * q) \in Nat
        BY <2>5, <4>2, <4>3, <4>4
      <4>6. f[m] = (o * s) * (i * (k * q))
        BY <2>2, <4>2, <4>3, <4>4, <4>5
      <4> QED BY <4>5, <4>6
    <3> QED BY <3>1, <3>2
  <2>7. PICK q \in Nat : SumFunction(f) = (o * s) * q
    BY <2>4, <2>5, <2>6, FinitelyMany, SumOfMultiples
  <2>8. (o * s) * q = o * (s * q) /\ s * q \in Nat
    BY <2>1, <2>7, Times
  <2>9. C[t] = SumFunction(f) \div o
    BY <1>2, <1>8, <2>1, <2>2 DEF PerUnit
  <2>10. C[t] = s * q
    BY <2>1, <2>7, <2>8, <2>9, Exact
  <2> QED BY <2>1, <2>2, <2>7, <2>8, <2>10
<1>9. PICK rank \in [Commodities -> 0..(Cardinality(Commodities) - 1)] :
        \A t, m \in Commodities : Takes(set, t, m) => rank[m] < rank[t]
  BY NothingOfItself
<1>10. Cardinality(Commodities) \in Nat
  BY FinitelyMany, FS_CardinalityType
<1> DEFINE U == {rank[t] : t \in {t \in Commodities : ~Shared(t)}}
<1>11. ASSUME U # {} PROVE FALSE
  <2>1. PICK k \in U : \A j \in U : k <= j
    <3>1. U \in SUBSET Nat
      BY <1>9, <1>10
    <3> HIDE DEF U
    <3> QED BY <1>11, <3>1, Least
  <2>2. PICK t \in Commodities : ~Shared(t) /\ k = rank[t]
    OBVIOUS
  <2>3. ASSUME NEW m \in Commodities, Takes(set, t, m), ~Shared(m) PROVE FALSE
    <3>1. k <= rank[m]
      BY <2>1, <2>3
    <3>2. rank[m] < rank[t] /\ rank[m] \in Nat /\ rank[t] \in Nat
      BY <1>9, <1>10, <2>3
    <3> QED BY <2>2, <3>1, <3>2
  <2>4. CASE set[t] = NoSchematic
    <3>1. C[t] = IF t = r THEN Scale ELSE 0
      BY <1>2, <2>4 DEF PerUnit
    <3>2. C[t] = share[t] * grain[t] \/ C[t] = share[t] * 0
      BY <1>6, <3>1, Times
    <3> QED BY <1>4, <2>2, <3>2
  <2>5. CASE set[t] # NoSchematic
    <3> HIDE DEF Shared
    <3> QED BY <1>8, <2>2, <2>3, <2>5
  <2> QED BY <2>4, <2>5
<1>12. \A m \in Commodities : Shared(m)
  BY <1>11
<1> HIDE DEF Shared
<1> QED BY <1>1, <1>8, <1>12

-----------------------------------------------------------------------------
(* What lists of materials take of a raw material *)

LEMMA RawInIs ==
  ASSUME NEW set \in SchematicSets, NEW r, NEW a \in Amounts
  PROVE  \E f \in [Commodities -> Nat] :
           /\ \A t \in Commodities : f[t] = a[t] * RawContent(set, r)[t]
           /\ RawIn(set, a, r) = SumFunction(f) /\ SumFunction(f) \in Nat
<1>1. PICK C \in Amounts : C = RawContent(set, r)
  BY ContentIsFixed
<1>2. PICK f : f = [t \in Commodities |-> a[t] * C[t]]
  OBVIOUS
<1>3. \A t \in Commodities : a[t] \in Nat /\ C[t] \in Nat
  BY DEF Amounts
<1>4. \A t \in Commodities : a[t] * C[t] \in Nat
  BY <1>3, Times
<1>5. f \in [Commodities -> Nat]
  BY <1>2, <1>4
<1>6. RawIn(set, a, r) = SumFunction(f)
  BY <1>1, <1>2 DEF RawIn
<1>7. SumFunction(f) \in Nat
  BY <1>5, FinitelyMany, SumIsNat
<1> QED BY <1>1, <1>2, <1>5, <1>6, <1>7

LEMMA RawInNone ==
  ASSUME NEW set \in SchematicSets, NEW r
  PROVE  RawIn(set, None, r) = 0
<1>1. None \in Amounts
  BY DEF None, Amounts
<1>2. PICK f \in [Commodities -> Nat] :
        /\ \A t \in Commodities : f[t] = None[t] * RawContent(set, r)[t]
        /\ RawIn(set, None, r) = SumFunction(f)
  BY <1>1, RawInIs
<1>3. \A t \in Commodities : RawContent(set, r)[t] \in Nat
  BY ContentIsFixed DEF Amounts
<1>4. \A t \in Commodities : f[t] = 0
  BY <1>2, <1>3, Times DEF None
<1>5. f = [t \in Commodities |-> 0]
  BY <1>4
<1> QED BY <1>2, <1>5, FinitelyMany, SumOfZeros

\* More of one type.
LEMMA RawInMore ==
  ASSUME NEW set \in SchematicSets, NEW r, NEW a \in Amounts, NEW b \in Amounts,
         NEW t \in Commodities, NEW n \in Nat, b[t] = a[t] + n,
         \A m \in Commodities \ {t} : b[m] = a[m]
  PROVE  RawIn(set, b, r) = RawIn(set, a, r) + n * RawContent(set, r)[t]
<1> DEFINE Summed(v, C, f) ==
      (\A m \in Commodities : f[m] = v[m] * C[m]) /\ RawIn(set, v, r) = SumFunction(f)
<1>1. \A v \in Amounts : \E f \in [Commodities -> Nat] : Summed(v, RawContent(set, r), f)
  BY RawInIs
<1> HIDE DEF Summed
<1>2. PICK C \in Amounts : C = RawContent(set, r)
  BY ContentIsFixed
<1>3. PICK f \in [Commodities -> Nat], g \in [Commodities -> Nat] :
        Summed(a, C, f) /\ Summed(b, C, g)
  BY <1>1, <1>2
<1>4. PICK c \in Nat, x \in Nat, d \in Nat : c = C[t] /\ x = a[t] /\ d = n * c
  BY Times DEF Amounts
<1>5. (x + n) * c = x * c + n * c
  BY <1>4
<1>6. g[t] = f[t] + d
  BY <1>3, <1>4, <1>5 DEF Summed
<1>7. \A m \in Commodities \ {t} : g[m] = f[m]
  BY <1>3 DEF Summed
<1>8. SumFunction(g) = SumFunction(f) + d
  BY <1>4, <1>6, <1>7, FinitelyMany, SumIncreased
<1> QED BY <1>2, <1>3, <1>4, <1>8 DEF Summed

\* What is kept counts as before.
LEMMA RawInKept ==
  ASSUME NEW set \in SchematicSets, NEW r, NEW a \in Amounts, NEW b \in Amounts,
         NEW t \in Commodities
  PROVE  RawIn(set, [a EXCEPT ![t] = 0], r) + RawIn(set, [b EXCEPT ![t] = b[t] + a[t]], r)
           = RawIn(set, a, r) + RawIn(set, b, r)
<1>1. PICK p, q : p = [a EXCEPT ![t] = 0] /\ q = [b EXCEPT ![t] = b[t] + a[t]]
  OBVIOUS
<1>2. a[t] \in Nat /\ b[t] \in Nat
  BY DEF Amounts
<1>3. p \in Amounts /\ q \in Amounts
  BY <1>1, <1>2 DEF Amounts
<1>4. /\ a[t] = p[t] + a[t] /\ \A m \in Commodities \ {t} : a[m] = p[m]
      /\ q[t] = b[t] + a[t] /\ \A m \in Commodities \ {t} : q[m] = b[m]
  BY <1>1, <1>2 DEF Amounts
<1>5. PICK d \in Nat : d = a[t] * RawContent(set, r)[t]
  BY <1>2, ContentIsFixed, Times DEF Amounts
<1>6. RawIn(set, a, r) = RawIn(set, p, r) + d
  BY <1>2, <1>3, <1>4, <1>5, RawInMore
<1>7. RawIn(set, q, r) = RawIn(set, b, r) + d
  BY <1>2, <1>3, <1>4, <1>5, RawInMore
<1>8. RawIn(set, p, r) \in Nat /\ RawIn(set, b, r) \in Nat
  BY <1>3, RawInIs
<1> QED BY <1>1, <1>6, <1>7, <1>8

\* What is expanded counts as what it is made of.
LEMMA RawInExpanded ==
  ASSUME NEW set \in SchematicSets, NEW r, NEW a \in Amounts, NEW b \in Amounts,
         NEW runs \in Amounts, NEW t \in Commodities, set[t] # NoSchematic,
         \A m \in Commodities : set[t].output * runs[m] = a[t] * set[t].inputs[m],
         b = [m \in Commodities |-> (IF m = t THEN 0 ELSE a[m]) + runs[m]]
  PROVE  RawIn(set, b, r) = RawIn(set, a, r)
<1>1. PICK C \in Amounts, in \in Amounts, o \in Nat \ {0}, n \in Nat :
        C = RawContent(set, r) /\ in = set[t].inputs /\ o = set[t].output /\ n = a[t]
  BY ContentIsFixed, SchematicType DEF Amounts
<1>2. \A m \in Commodities : C[m] \in Nat /\ in[m] \in Nat /\ a[m] \in Nat /\ runs[m] \in Nat
  BY DEF Amounts
<1>3. PICK p : p = [a EXCEPT ![t] = 0]
  OBVIOUS
<1>4. p \in Amounts
  BY <1>3 DEF Amounts
<1>5. p[t] = 0 /\ \A m \in Commodities \ {t} : p[m] = a[m]
  BY <1>3 DEF Amounts
<1>6. RawIn(set, a, r) = RawIn(set, p, r) + n * C[t]
  <2>1. a[t] = p[t] + n /\ \A m \in Commodities \ {t} : a[m] = p[m]
    BY <1>1, <1>5
  <2>2. RawIn(set, a, r) = RawIn(set, p, r) + n * RawContent(set, r)[t]
    BY <1>4, <2>1, RawInMore
  <2> QED BY <1>1, <2>2
<1>7. PICK e \in [Commodities -> Nat] :
        /\ \A m \in Commodities : e[m] = p[m] * C[m]
        /\ RawIn(set, p, r) = SumFunction(e) /\ SumFunction(e) \in Nat
  BY <1>1, <1>4, RawInIs
<1>8. PICK g \in [Commodities -> Nat] :
        (\A m \in Commodities : g[m] = runs[m] * C[m]) /\ SumFunction(g) \in Nat
  <2>1. PICK g \in [Commodities -> Nat] :
          /\ \A m \in Commodities : g[m] = runs[m] * RawContent(set, r)[m]
          /\ RawIn(set, runs, r) = SumFunction(g) /\ SumFunction(g) \in Nat
    BY RawInIs
  <2> QED BY <1>1, <2>1
<1>9. PICK f \in [Commodities -> Nat] :
        (\A m \in Commodities : f[m] = b[m] * C[m]) /\ RawIn(set, b, r) = SumFunction(f)
  BY <1>1, RawInIs
<1>10. SumFunction(f) = SumFunction(e) + SumFunction(g)
  <2>1. ASSUME NEW m \in Commodities PROVE f[m] = e[m] + g[m]
    <3>1. b[m] = p[m] + runs[m] /\ p[m] \in Nat
      BY <1>2, <1>5
    <3>2. PICK x \in Nat, y \in Nat, c \in Nat : x = p[m] /\ y = runs[m] /\ c = C[m]
      BY <1>2, <3>1
    <3>3. (x + y) * c = x * c + y * c
      OBVIOUS
    <3> QED BY <1>7, <1>8, <1>9, <3>1, <3>2, <3>3
  <2>2. f = [m \in Commodities |-> e[m] + g[m]]
    BY <2>1
  <2> QED BY <2>2, FinitelyMany, SumPlus
<1>11. PICK h \in [Commodities -> Nat] :
        (\A m \in Commodities : h[m] = in[m] * C[m]) /\ SumFunction(h) = o * C[t]
  <2>1. PICK h : h = [m \in Commodities |-> in[m] * C[m]]
    OBVIOUS
  <2>2. \A m \in Commodities : in[m] * C[m] \in Nat
    BY <1>2, Times
  <2>3. SumFunction(h) = o * C[t]
    BY <1>1, <2>1, ContentIsExact
  <2> QED BY <2>1, <2>2, <2>3
<1>12. o * SumFunction(g) = n * SumFunction(h)
  <2>1. ASSUME NEW m \in Commodities PROVE o * g[m] = n * h[m]
    <3>1. PICK x \in Nat, y \in Nat, c \in Nat : x = runs[m] /\ y = in[m] /\ c = C[m]
      BY <1>2
    <3>2. o * x = n * y
      BY <1>1, <3>1
    <3>3. o * (x * c) = (o * x) * c /\ n * (y * c) = (n * y) * c
      BY <1>1, Times
    <3> QED BY <1>8, <1>11, <3>1, <3>2, <3>3
  <2>2. PICK k : k = [m \in Commodities |-> o * g[m]]
    OBVIOUS
  <2>3. k = [m \in Commodities |-> n * h[m]]
    BY <2>1, <2>2
  <2>4. SumFunction(k) = o * SumFunction(g)
    BY <1>1, <2>2, FinitelyMany, SumTimes
  <2>5. SumFunction(k) = n * SumFunction(h)
    BY <1>1, <2>3, FinitelyMany, SumTimes
  <2> QED BY <2>4, <2>5
<1>13. SumFunction(g) = n * C[t]
  <2>1. PICK x \in Nat, c \in Nat, y \in Nat : x = SumFunction(g) /\ c = C[t] /\ y = n * c
    BY <1>2, <1>8, Times
  <2>2. o * x = n * (o * c)
    BY <1>11, <1>12, <2>1
  <2>3. n * (o * c) = (n * c) * o /\ o * x = x * o
    BY <1>1, <2>1, Times
  <2>4. x * o = y * o
    BY <2>1, <2>2, <2>3
  <2>5. x = y
    BY <1>1, <2>1, <2>4, Cancel
  <2> QED BY <2>1, <2>5
<1> QED BY <1>6, <1>7, <1>9, <1>10, <1>13

-----------------------------------------------------------------------------
(* The expansion to every starting tier *)

PlanetaryTypeOK ==
  /\ schematics \in SchematicSets
  /\ tier \in [Commodities -> Nat] /\ \A t \in Commodities : ~Makes(t) => tier[t] = 0
  /\ made \in Commodities /\ Makes(made)
  /\ floor \in Nat /\ \A f \in Floors : planetaryStage = "done" => f <= floor
  /\ pending \in Amounts
  /\ expanded \in [Floors -> Amounts]
  /\ planetaryStage \in {"expand", "done"} /\ (planetaryStage = "expand" => floor \in Floors)

\* Is t an input of the schematic, or of one that is expanded from this tier?
Needed(t, f) ==
  \E m \in Commodities : (m = made \/ (Makes(m) /\ tier[m] > f)) /\ schematics[m].inputs[t] > 0

\* What waits can be divided by what it comes in, is needed, and makes up for
\* what the list has not got yet; later tiers have not begun.
PendingInv ==
  planetaryStage = "expand" =>
    /\ \A grain \in Grains(schematics), t \in Commodities : Divides(grain[t], pending[t])
    /\ \A t \in Commodities : pending[t] > 0 => Needed(t, floor)
    /\ \A r \in Commodities :
         RawIn(schematics, pending, r) + RawIn(schematics, expanded[floor], r)
           = RawIn(schematics, Asked, r)
    /\ \A f \in Floors : f > floor => expanded[f] = None

\* What is listed is needed and not to be expanded, and complete once its tier is done.
ListedInv ==
  \A f \in Floors :
    /\ \A t \in Commodities :
         expanded[f][t] > 0 => ~(Makes(t) /\ tier[t] > f) /\ Needed(t, f)
    /\ f < floor \/ planetaryStage = "done" =>
         \A r \in Commodities : RawIn(schematics, expanded[f], r) = RawIn(schematics, Asked, r)

PlanetaryInv == PlanetaryTypeOK /\ PendingInv /\ ListedInv

LEMMA DividesIs ==
  ASSUME NEW d \in Nat, NEW n \in Nat
  PROVE  /\ Divides(d, n) => \E k \in Nat : n = k * d
         /\ d > 0 /\ (\E k \in Nat : n = k * d) => Divides(d, n)
<1>1. ASSUME Divides(d, n) PROVE \E k \in Nat : n = k * d
  BY <1>1 DEF Divides
<1>2. ASSUME d > 0, NEW k \in Nat, n = k * d PROVE Divides(d, n)
  <2>1. PICK e \in Nat : d = e + 1
    <3>1. d - 1 \in Nat /\ d = (d - 1) + 1
      BY <1>2
    <3> QED BY <3>1
  <2>2. k * d = k * e + k /\ k * e \in Nat
    BY <2>1
  <2>3. k \in 0..n
    BY <1>2, <2>2
  <2> QED BY <1>2, <2>3 DEF Divides
<1> QED BY <1>1, <1>2

LEMMA GrainType ==
  ASSUME NEW set \in SchematicSets, NEW grain \in Grains(set), NEW t \in Commodities
  PROVE  /\ grain[t] \in Nat /\ grain[t] > 0
         /\ \E k \in Nat : Scale = k * grain[t]
<1>1. grain[t] \in 1..Scale /\ Divides(grain[t], Scale)
  BY DEF Grains
<1>2. grain[t] \in Nat /\ grain[t] > 0 /\ Scale \in Nat
  BY <1>1, ScaleIsNat
<1>3. \E k \in Nat : Scale = k * grain[t]
  BY <1>1, <1>2, DividesIs
<1> QED BY <1>2, <1>3

LEMMA AskedIs ==
  ASSUME PlanetaryTypeOK
  PROVE  /\ Asked \in Amounts
         /\ \A grain \in Grains(schematics), t \in Commodities : Divides(grain[t], Asked[t])
         /\ \A t \in Commodities, f \in Nat : Asked[t] > 0 => Needed(t, f)
<1>1. schematics \in SchematicSets /\ made \in Commodities /\ schematics[made] # NoSchematic
  BY DEF PlanetaryTypeOK, Makes
<1>2. PICK in \in Amounts : in = schematics[made].inputs
  BY <1>1, SchematicType
<1>3. \A t \in Commodities : in[t] \in Nat /\ Asked[t] = in[t] * Scale
  BY <1>2 DEF Amounts, Asked
<1>4. Asked \in Amounts
  <2>1. \A t \in Commodities : in[t] * Scale \in Nat
    BY <1>3, ScaleIsNat, Times
  <2> QED BY <1>2, <2>1 DEF Asked, Amounts
<1>5. ASSUME NEW grain \in Grains(schematics), NEW t \in Commodities
      PROVE  Divides(grain[t], Asked[t])
  <2>1. PICK g \in Nat, k \in Nat, i \in Nat :
          g = grain[t] /\ g > 0 /\ Scale = k * g /\ i = in[t]
    BY <1>1, <1>3, GrainType
  <2>2. i * (k * g) = (i * k) * g /\ i * k \in Nat
    BY <2>1, Times
  <2>3. Asked[t] = (i * k) * g
    BY <1>3, <2>1, <2>2
  <2>4. Asked[t] \in Nat
    BY <1>4 DEF Amounts
  <2> QED BY <2>1, <2>2, <2>3, <2>4, DividesIs
<1>6. ASSUME NEW t \in Commodities, NEW f \in Nat, Asked[t] > 0 PROVE Needed(t, f)
  <2>1. in[t] > 0
    BY <1>3, <1>6, ScaleIsNat, Times
  <2> QED BY <1>1, <1>2, <2>1 DEF Needed
<1> QED BY <1>4, <1>5, <1>6

LEMMA PlanetaryInitInv == PlanetaryInit => PlanetaryInv
<1> SUFFICES ASSUME PlanetaryInit PROVE PlanetaryInv
  OBVIOUS
<1>1. schematics \in SchematicSets /\ made \in Commodities /\ Makes(made) /\ floor = 0
      /\ expanded = [f \in Floors |-> None]
  BY DEF PlanetaryInit
<1>2. tier \in [Commodities -> Nat] /\ \A t \in Commodities : ~Makes(t) => tier[t] = 0
  BY TiersOfProducts DEF PlanetaryInit
<1>3. tier[made] \in Nat
  BY <1>1, <1>2
<1>4. /\ planetaryStage \in {"expand", "done"}
      /\ planetaryStage = "expand" => tier[made] > 0 /\ 0 \in Floors /\ pending = Asked
      /\ planetaryStage = "done" => Floors = {} /\ pending = None
  BY <1>3 DEF PlanetaryInit, Floors
<1>5. None \in Amounts
  BY DEF None, Amounts
<1>6. Asked \in Amounts
  <2>1. \A t \in Commodities : schematics[made].inputs[t] \in Nat
    BY <1>1, SchematicType DEF Makes, Amounts
  <2>2. \A t \in Commodities : schematics[made].inputs[t] * Scale \in Nat
    BY <2>1, ScaleIsNat, Times
  <2> QED BY <2>2 DEF Asked, Amounts
<1>7. PlanetaryTypeOK
  BY <1>1, <1>2, <1>4, <1>5, <1>6 DEF PlanetaryTypeOK
<1>8. PendingInv
  <2> SUFFICES ASSUME planetaryStage = "expand" PROVE PendingInv
    BY DEF PendingInv
  <2>1. pending = Asked /\ expanded[floor] = None /\ \A f \in Floors : expanded[f] = None
    BY <1>1, <1>4
  <2>2. \A r \in Commodities : RawIn(schematics, None, r) = 0
    BY <1>1, RawInNone
  <2>3. \A r \in Commodities : RawIn(schematics, Asked, r) \in Nat
    BY <1>1, <1>6, RawInIs
  <2>4. \A r \in Commodities :
          RawIn(schematics, pending, r) + RawIn(schematics, expanded[floor], r)
            = RawIn(schematics, Asked, r)
    BY <2>1, <2>2, <2>3
  <2>5. floor \in Nat
    BY <1>1
  <2> QED BY <1>7, <2>1, <2>4, <2>5, AskedIs DEF PendingInv
<1>9. ListedInv
  <2>1. ASSUME NEW f \in Floors, NEW t \in Commodities PROVE expanded[f][t] = 0
    BY <1>1 DEF None
  <2>2. ~(\E f \in Floors : f < floor \/ planetaryStage = "done")
    BY <1>1, <1>3, <1>4 DEF Floors
  <2> QED BY <2>1, <2>2 DEF ListedInv
<1> QED BY <1>7, <1>8, <1>9 DEF PlanetaryInv

LEMMA SamePage ==
  ASSUME UNCHANGED <<schematics, tier, made>>
  PROVE  /\ Floors' = Floors /\ Asked' = Asked
         /\ \A t \in Commodities : Makes(t)' <=> Makes(t)
         /\ \A t \in Commodities, f \in Floors : Needed(t, f)' <=> Needed(t, f)
BY DEF Floors, Asked, Makes, Needed

LEMMA KeepStep ==
  ASSUME PlanetaryInv, NEW t \in Commodities, Keep(t)
  PROVE  PlanetaryInv'
<1>1. /\ planetaryStage = "expand" /\ pending[t] > 0 /\ ~Through(t)
      /\ pending' = [pending EXCEPT ![t] = 0]
      /\ UNCHANGED <<schematics, tier, made, floor, planetaryStage>>
  BY DEF Keep
<1>2. PlanetaryTypeOK /\ PendingInv /\ ListedInv
  BY DEF PlanetaryInv
<1>3. schematics \in SchematicSets /\ floor \in Floors /\ floor \in Nat
      /\ pending \in Amounts /\ expanded \in [Floors -> Amounts] /\ expanded[floor] \in Amounts
  BY <1>1, <1>2 DEF PlanetaryTypeOK
<1>4. pending[t] \in Nat /\ expanded[floor][t] \in Nat
  BY <1>3 DEF Amounts
<1>5. PICK kept : kept = [expanded[floor] EXCEPT ![t] = expanded[floor][t] + pending[t]]
  OBVIOUS
<1>6. kept \in Amounts /\ expanded' = [expanded EXCEPT ![floor] = kept]
  BY <1>3, <1>4, <1>5 DEF Keep, Amounts
<1>7. expanded' \in [Floors -> Amounts] /\ expanded'[floor] = kept
      /\ \A f \in Floors \ {floor} : expanded'[f] = expanded[f]
  BY <1>3, <1>6
<1>8. pending' \in Amounts /\ pending'[t] = 0 /\ \A m \in Commodities \ {t} : pending'[m] = pending[m]
  BY <1>1, <1>3 DEF Amounts
<1>9. Floors' = Floors /\ Asked' = Asked
      /\ (\A m \in Commodities : Makes(m)' <=> Makes(m))
      /\ \A m \in Commodities, f \in Floors : Needed(m, f)' <=> Needed(m, f)
  BY <1>1, SamePage
<1>10. PlanetaryTypeOK'
  BY <1>1, <1>2, <1>7, <1>8, <1>9 DEF PlanetaryTypeOK
<1>11. PendingInv'
  <2>1. ASSUME NEW grain \in Grains(schematics), NEW m \in Commodities
        PROVE  Divides(grain[m], pending'[m])
    <3>1. CASE m = t
      <4>1. grain[m] \in Nat /\ 0 = 0 * grain[m] /\ grain[m] > 0
        BY <1>3, GrainType, Times
      <4>2. Divides(grain[m], 0)
        <5>1. \E k \in Nat : 0 = k * grain[m]
          BY <4>1
        <5> QED BY <4>1, <5>1, DividesIs
      <4> QED BY <1>8, <3>1, <4>2
    <3>2. CASE m # t
      <4>1. Divides(grain[m], pending[m])
        BY <1>1, <1>2 DEF PendingInv
      <4> QED BY <1>8, <3>2, <4>1
    <3> QED BY <3>1, <3>2
  <2>2. \A m \in Commodities : pending'[m] > 0 => Needed(m, floor)
    BY <1>1, <1>2, <1>8 DEF PendingInv
  <2>3. ASSUME NEW r \in Commodities
        PROVE  RawIn(schematics, pending', r) + RawIn(schematics, kept, r)
                 = RawIn(schematics, Asked, r)
    <3>1. RawIn(schematics, pending', r) + RawIn(schematics, kept, r)
            = RawIn(schematics, pending, r) + RawIn(schematics, expanded[floor], r)
      BY <1>1, <1>3, <1>5, RawInKept
    <3> QED BY <1>1, <1>2, <3>1 DEF PendingInv
  <2>4. \A f \in Floors : f > floor => expanded'[f] = None
    BY <1>1, <1>2, <1>3, <1>7 DEF PendingInv, Floors
  <2> QED BY <1>1, <1>3, <1>7, <1>9, <2>1, <2>2, <2>3, <2>4 DEF PendingInv
<1>12. ListedInv'
  <2>1. ASSUME NEW f \in Floors, NEW m \in Commodities, expanded'[f][m] > 0
        PROVE  ~(Makes(m) /\ tier[m] > f) /\ Needed(m, f)
    <3>1. CASE f = floor /\ m = t
      <4>1. Needed(t, floor)
        BY <1>1, <1>2 DEF PendingInv
      <4> QED BY <1>1, <3>1, <4>1 DEF Through
    <3>2. CASE ~(f = floor /\ m = t)
      <4>1. expanded[f][m] > 0
        BY <1>3, <1>5, <1>7, <2>1, <3>2 DEF Amounts
      <4> QED BY <1>2, <4>1 DEF ListedInv
    <3> QED BY <3>1, <3>2
  <2>2. ASSUME NEW f \in Floors, f < floor, NEW r \in Commodities
        PROVE  RawIn(schematics, expanded'[f], r) = RawIn(schematics, Asked, r)
    <3>1. f # floor
      BY <1>3, <2>2
    <3> QED BY <1>2, <1>7, <2>2, <3>1 DEF ListedInv
  <2> QED BY <1>1, <1>9, <2>1, <2>2 DEF ListedInv
<1> QED BY <1>10, <1>11, <1>12 DEF PlanetaryInv

\* The runs of a schematic come out even, and what they take comes in its own steps.
LEMMA RunsExact ==
  ASSUME NEW set \in SchematicSets, NEW grain \in Grains(set), NEW t \in Commodities,
         set[t] # NoSchematic, NEW p \in Nat, Divides(grain[t], p), NEW m \in Commodities
  PROVE  LET n == (p * set[t].inputs[m]) \div set[t].output
         IN  /\ n \in Nat /\ set[t].output * n = p * set[t].inputs[m]
             /\ Divides(grain[m], n)
<1>1. PICK o \in Nat \ {0}, i \in Nat, g \in Nat :
        o = set[t].output /\ i = set[t].inputs[m] /\ g = grain[m] /\ g > 0
  BY SchematicType, GrainType DEF Amounts
<1>2. PICK n : n = (p * i) \div o
  OBVIOUS
<1>3. CASE i = 0
  <2>1. p * i = o * 0 /\ 0 = 0 * g
    BY <1>1, <1>3, Times
  <2>2. n = 0
    BY <1>1, <1>2, <2>1, Exact
  <2>3. Divides(g, n)
    BY <1>1, <2>1, <2>2, DividesIs
  <2>4. n \in Nat /\ o * n = p * i
    BY <2>1, <2>2
  <2> QED BY <1>1, <1>2, <2>3, <2>4
<1>4. CASE i # 0
  <2>1. Divides(o * g, grain[t])
    BY <1>1, <1>4 DEF Grains, Takes
  <2>2. o * g \in Nat /\ grain[t] \in Nat
    BY <1>1, GrainType, Times
  <2>3. PICK k \in Nat : grain[t] = k * (o * g)
    BY <2>1, <2>2, DividesIs
  <2>4. PICK j \in Nat : p = j * grain[t]
    BY <2>2, DividesIs
  <2>5. PICK c \in Nat : c = (j * k) * i
    BY <1>1, <2>3, <2>4, Times
  <2>6. (j * (k * (o * g))) * i = o * (((j * k) * i) * g)
    BY <1>1, <2>3, <2>4
  <2>7. p * i = o * (c * g) /\ c * g \in Nat
    BY <1>1, <2>3, <2>4, <2>5, <2>6, Times
  <2>8. n = c * g
    BY <1>1, <1>2, <2>7, Exact
  <2>9. Divides(g, n)
    BY <1>1, <2>5, <2>7, <2>8, DividesIs
  <2> QED BY <1>1, <1>2, <2>7, <2>8, <2>9
<1> QED BY <1>3, <1>4

LEMMA DividesSum ==
  ASSUME NEW d \in Nat, d > 0, NEW a \in Nat, NEW b \in Nat, Divides(d, a), Divides(d, b)
  PROVE  Divides(d, a + b)
<1>1. PICK j \in Nat, k \in Nat : a = j * d /\ b = k * d
  BY DividesIs
<1>2. (j + k) * d = j * d + k * d
  BY <1>1
<1>3. j + k \in Nat /\ a + b = (j + k) * d /\ a + b \in Nat
  BY <1>1, <1>2
<1> QED BY <1>3, DividesIs

LEMMA ExpandStep ==
  ASSUME PlanetaryInv, NEW t \in Commodities, Expand(t)
  PROVE  PlanetaryInv'
<1>1. /\ planetaryStage = "expand" /\ pending[t] > 0 /\ Makes(t) /\ tier[t] > floor
      /\ pending' = [m \in Commodities |-> (IF m = t THEN 0 ELSE pending[m]) + Runs(t, m)]
      /\ UNCHANGED <<schematics, tier, made, floor, expanded, planetaryStage>>
  BY DEF Expand, Through
<1>2. PlanetaryTypeOK /\ PendingInv /\ ListedInv
  BY DEF PlanetaryInv
<1>3. /\ schematics \in SchematicSets /\ schematics[t] # NoSchematic
      /\ floor \in Floors /\ floor \in Nat /\ pending \in Amounts
  BY <1>1, <1>2 DEF PlanetaryTypeOK, Makes
<1>4. PICK in \in Amounts, o \in Nat \ {0} :
        in = schematics[t].inputs /\ o = schematics[t].output
  BY <1>3, SchematicType
<1>5. \A m \in Commodities : pending[m] \in Nat /\ in[m] \in Nat
  BY <1>3 DEF Amounts
<1>6. PICK runs : runs = [m \in Commodities |-> Runs(t, m)]
  OBVIOUS
<1>7. \A grain \in Grains(schematics), m \in Commodities :
        /\ runs[m] \in Nat /\ o * runs[m] = pending[t] * in[m]
        /\ Divides(grain[m], runs[m])
  <2> TAKE grain \in Grains(schematics), m \in Commodities
  <2>1. Divides(grain[t], pending[t]) /\ pending[t] \in Nat
    BY <1>1, <1>2, <1>5 DEF PendingInv
  <2>2. runs[m] = (pending[t] * schematics[t].inputs[m]) \div schematics[t].output
    BY <1>6 DEF Runs
  <2> QED BY <1>3, <1>4, <2>1, <2>2, RunsExact
<1>8. PICK grain \in Grains(schematics) : TRUE
  BY <1>3, ScaleIsFine
<1>9. runs \in Amounts /\ \A m \in Commodities : o * runs[m] = pending[t] * in[m]
  BY <1>6, <1>7, <1>8 DEF Amounts
<1>10. pending' = [m \in Commodities |-> (IF m = t THEN 0 ELSE pending[m]) + runs[m]]
  BY <1>1, <1>6
<1>11. \A m \in Commodities : runs[m] \in Nat
  BY <1>9 DEF Amounts
<1>12. pending' \in Amounts
  BY <1>5, <1>10, <1>11 DEF Amounts
<1>13. Floors' = Floors /\ Asked' = Asked
      /\ (\A m \in Commodities : Makes(m)' <=> Makes(m))
      /\ \A m \in Commodities, f \in Floors : Needed(m, f)' <=> Needed(m, f)
  BY <1>1, SamePage
<1>14. PlanetaryTypeOK'
  BY <1>1, <1>2, <1>12, <1>13 DEF PlanetaryTypeOK
<1>15. PendingInv'
  <2>1. ASSUME NEW gr \in Grains(schematics), NEW m \in Commodities
        PROVE  Divides(gr[m], pending'[m])
    <3>1. gr[m] \in Nat /\ gr[m] > 0 /\ 0 = 0 * gr[m]
      BY <1>3, GrainType, Times
    <3>2. PICK a \in Nat : a = IF m = t THEN 0 ELSE pending[m]
      BY <1>5
    <3>3. Divides(gr[m], a)
      <4>1. CASE m = t
        BY <3>1, <3>2, <4>1, DividesIs
      <4>2. CASE m # t
        BY <1>1, <1>2, <3>2, <4>2 DEF PendingInv
      <4> QED BY <4>1, <4>2
    <3>4. Divides(gr[m], runs[m]) /\ runs[m] \in Nat
      BY <1>7
    <3>5. pending'[m] = a + runs[m]
      BY <1>10, <3>2
    <3> QED BY <3>1, <3>3, <3>4, <3>5, DividesSum
  <2>2. ASSUME NEW m \in Commodities, pending'[m] > 0 PROVE Needed(m, floor)
    <3>1. CASE m # t /\ pending[m] > 0
      BY <1>1, <1>2, <3>1 DEF PendingInv
    <3>2. CASE ~(m # t /\ pending[m] > 0)
      <4>1. runs[m] > 0
        BY <1>5, <1>10, <1>11, <2>2, <3>2
      <4>2. in[m] # 0
        <5> SUFFICES ASSUME in[m] = 0 PROVE FALSE
          OBVIOUS
        <5>1. o * runs[m] = o * 0
          BY <1>4, <1>5, <1>9, Times
        <5>2. runs[m] * o = 0 * o
          BY <1>4, <1>11, <5>1, Times
        <5>3. runs[m] = 0
          BY <1>4, <1>11, <5>2, Cancel
        <5> QED BY <4>1, <5>3
      <4> QED BY <1>1, <1>4, <1>5, <4>2 DEF Needed
    <3> QED BY <3>1, <3>2
  <2>3. \A r \in Commodities : RawIn(schematics, pending', r) = RawIn(schematics, pending, r)
    BY <1>3, <1>4, <1>9, <1>10, <1>12, RawInExpanded
  <2> QED BY <1>1, <1>2, <1>3, <1>13, <2>1, <2>2, <2>3 DEF PendingInv
<1>16. ListedInv'
  BY <1>1, <1>2, <1>13 DEF ListedInv
<1> QED BY <1>14, <1>15, <1>16 DEF PlanetaryInv

LEMMA NextFloorStep ==
  ASSUME PlanetaryInv, NextFloor
  PROVE  PlanetaryInv'
<1>1. /\ planetaryStage = "expand" /\ pending = None
      /\ UNCHANGED <<schematics, tier, made, expanded>>
  BY DEF NextFloor
<1>2. PlanetaryTypeOK /\ PendingInv /\ ListedInv
  BY DEF PlanetaryInv
<1>3. /\ schematics \in SchematicSets /\ floor \in Floors /\ floor \in Nat
      /\ expanded \in [Floors -> Amounts] /\ tier[made] \in Nat
  BY <1>1, <1>2 DEF PlanetaryTypeOK
<1>4. Floors' = Floors /\ Asked' = Asked
      /\ (\A m \in Commodities : Makes(m)' <=> Makes(m))
      /\ \A m \in Commodities, f \in Floors : Needed(m, f)' <=> Needed(m, f)
  BY <1>1, SamePage
<1>5. \A r : RawIn(schematics, None, r) = 0
  BY <1>3, RawInNone
<1>6. \A f \in Floors : \A r : RawIn(schematics, expanded[f], r) \in Nat
  BY <1>3, RawInIs
<1>7. \A r \in Commodities : RawIn(schematics, expanded[floor], r) = RawIn(schematics, Asked, r)
  BY <1>1, <1>2, <1>3, <1>5, <1>6 DEF PendingInv
<1>8. CASE floor + 1 \in Floors
  <2>1. floor' = floor + 1 /\ pending' = Asked /\ planetaryStage' = "expand"
    BY <1>1, <1>8 DEF NextFloor
  <2>2. Asked \in Amounts
    BY <1>2, AskedIs
  <2>3. PlanetaryTypeOK'
    BY <1>1, <1>2, <1>3, <1>4, <1>8, <2>1, <2>2 DEF PlanetaryTypeOK
  <2>4. expanded[floor + 1] = None /\ \A f \in Floors : f > floor + 1 => expanded[f] = None
    BY <1>1, <1>2, <1>3, <1>8 DEF PendingInv, Floors
  <2>5. \A r : RawIn(schematics, Asked, r) \in Nat
    BY <1>3, <2>2, RawInIs
  <2>6. \A r \in Commodities :
          RawIn(schematics, Asked, r) + RawIn(schematics, expanded[floor + 1], r)
            = RawIn(schematics, Asked, r)
    BY <1>5, <2>4, <2>5
  <2>7. floor + 1 \in Nat
    BY <1>3
  <2>8. PendingInv'
    BY <1>1, <1>2, <1>4, <1>8, <2>1, <2>4, <2>6, <2>7, AskedIs DEF PendingInv
  <2>9. ASSUME NEW f \in Floors, f < floor + 1, NEW r \in Commodities
        PROVE  RawIn(schematics, expanded[f], r) = RawIn(schematics, Asked, r)
    <3>1. f < floor \/ f = floor
      BY <1>3, <2>9 DEF Floors
    <3> QED BY <1>2, <1>7, <3>1 DEF ListedInv
  <2>10. ListedInv'
    BY <1>1, <1>2, <1>4, <2>1, <2>9 DEF ListedInv
  <2> QED BY <2>3, <2>8, <2>10 DEF PlanetaryInv
<1>9. CASE floor + 1 \notin Floors
  <2>1. UNCHANGED <<floor, pending>> /\ planetaryStage' = "done"
    BY <1>9 DEF NextFloor
  <2>2. \A f \in Floors : f <= floor
    BY <1>3, <1>9 DEF Floors
  <2>3. PlanetaryTypeOK'
    BY <1>1, <1>2, <1>4, <2>1, <2>2 DEF PlanetaryTypeOK
  <2>4. PendingInv'
    BY <2>1 DEF PendingInv
  <2>5. ASSUME NEW f \in Floors, NEW r \in Commodities
        PROVE  RawIn(schematics, expanded[f], r) = RawIn(schematics, Asked, r)
    <3>1. f < floor \/ f = floor
      BY <1>3, <2>2 DEF Floors
    <3> QED BY <1>2, <1>7, <3>1 DEF ListedInv
  <2>6. ListedInv'
    BY <1>1, <1>2, <1>4, <2>1, <2>5 DEF ListedInv
  <2> QED BY <2>3, <2>4, <2>6 DEF PlanetaryInv
<1> QED BY <1>8, <1>9

LEMMA PlanetaryStep == PlanetaryInv /\ [PlanetaryNext]_planetaryVars => PlanetaryInv'
<1> SUFFICES ASSUME PlanetaryInv, [PlanetaryNext]_planetaryVars PROVE PlanetaryInv'
  OBVIOUS
<1>1. ASSUME UNCHANGED planetaryVars PROVE PlanetaryInv'
  <2>1. /\ UNCHANGED <<schematics, tier, made, floor, pending, expanded, planetaryStage>>
        /\ Floors' = Floors /\ Asked' = Asked
        /\ (\A m \in Commodities : Makes(m)' <=> Makes(m))
        /\ \A m \in Commodities, f \in Floors : Needed(m, f)' <=> Needed(m, f)
    BY <1>1, SamePage DEF planetaryVars
  <2>2. PlanetaryTypeOK'
    BY <2>1 DEF PlanetaryInv, PlanetaryTypeOK
  <2>3. PendingInv'
    BY <2>1 DEF PlanetaryInv, PendingInv, PlanetaryTypeOK
  <2>4. ListedInv'
    BY <2>1 DEF PlanetaryInv, ListedInv
  <2> QED BY <2>2, <2>3, <2>4 DEF PlanetaryInv
<1> QED BY <1>1, NextFloorStep, ExpandStep, KeepStep DEF PlanetaryNext

LEMMA FloorsFollow == PlanetaryInv => FloorsAgree
<1> SUFFICES ASSUME PlanetaryInv, planetaryStage = "done", NEW f \in Floors
             PROVE  /\ \A r \in RawMaterials :
                         RawIn(schematics, expanded[f], r) = RawIn(schematics, Asked, r)
                    /\ TiersKnown => \A t \in Commodities : expanded[f][t] > 0 =>
                         /\ tier[t] <= f
                         /\ f = 0 => t \in RawMaterials
                         /\ tier[t] < f => Needed(t, f)
  BY DEF FloorsAgree, Needed
<1>1. PlanetaryTypeOK /\ ListedInv
  BY DEF PlanetaryInv
<1>2. \A r \in RawMaterials : RawIn(schematics, expanded[f], r) = RawIn(schematics, Asked, r)
  BY <1>1 DEF ListedInv, RawMaterials
<1>3. ASSUME TiersKnown, NEW t \in Commodities, expanded[f][t] > 0
      PROVE  tier[t] <= f /\ (f = 0 => t \in RawMaterials) /\ Needed(t, f)
  <2>1. ~(Makes(t) /\ tier[t] > f) /\ Needed(t, f)
    BY <1>1, <1>3 DEF ListedInv
  <2>2. f \in Nat /\ tier[t] \in Nat /\ (~Makes(t) => tier[t] = 0)
    BY <1>1 DEF PlanetaryTypeOK, Floors
  <2>3. tier[t] <= f
    BY <2>1, <2>2
  <2>4. ASSUME f = 0 PROVE t \in RawMaterials
    <3>1. Makes(t) => tier[t] > 0
      BY <1>1, <1>3, TiersOfProducts DEF TiersKnown, PlanetaryTypeOK, Makes
    <3>2. ~Makes(t)
      BY <2>1, <2>4, <3>1
    <3>3. \E m \in Commodities : Makes(m) /\ schematics[m].inputs[t] > 0
      BY <1>1, <2>1 DEF Needed, PlanetaryTypeOK
    <3> QED BY <3>2, <3>3 DEF RawMaterials
  <2> QED BY <2>1, <2>3, <2>4
<1> QED BY <1>2, <1>3

\* The detail page of a schematic (planetary.py): whatever the schematics and whatever
\* tiers are unknown, every starting tier takes the same raw materials, is expanded as
\* far as it has to be, and no further.
THEOREM StartingTiersAgree == PlanetarySpec => []FloorsAgree
<1>1. PlanetarySpec => []PlanetaryInv
  BY PlanetaryInitInv, PlanetaryStep, PTL DEF PlanetarySpec
<1> QED BY <1>1, FloorsFollow, PTL
=============================================================================
