----------------------------- MODULE Planetary -----------------------------
(***************************************************************************)
(* The page of a planetary schematic (app/routes/planetary.py): what a     *)
(* cycle takes if one starts from P0, from P1, and so on up to the tier    *)
(* below the product's own.  For each starting tier ("floor") the inputs   *)
(* are expanded through the schematics that make them.                     *)
(*                                                                         *)
(* The program recurses into each material and adds up the results; the    *)
(* amounts of a material that wait for the same expansion are added up     *)
(* before it here, and expanded in any order: the expansion is linear.     *)
(* Amounts, floats in the program, are counted in 1/Scale of a unit.       *)
(***************************************************************************)
EXTENDS Naturals, FiniteSets, Functions

CONSTANTS
  Commodities,    \* planetary types
  SchematicSets,  \* what sde_planet_schematics may hold: per type, what makes it
  Tiers,          \* the tiers of the types by the groups of the SDE, 0 for P0
  Scale           \* parts of a unit

\* A schematic: units of the output per cycle, and of each input (0: not one).
Schematics == [output : Nat \ {0}, inputs : [Commodities -> Nat]]
NoSchematic == [output |-> 0]

\* What a schematic of the set takes of m to make t.
Takes(set, t, m) == set[t] # NoSchematic /\ set[t].inputs[m] > 0

\* Steps in which the amounts of each type can come, so that no division by the
\* output of a schematic leaves a remainder.
Divides(d, n) == \E k \in 0..n : n = k * d
Grains(set) ==
  {grain \in [Commodities -> {d \in 1..Scale : Divides(d, Scale)}] :
     \A t, m \in Commodities :
       Takes(set, t, m) => Divides(set[t].output * grain[m], grain[t])}

ASSUME FinitelyMany == IsFiniteSet(Commodities)
ASSUME SetsOfSchematics == SchematicSets \subseteq [Commodities -> Schematics \cup {NoSchematic}]
ASSUME ScaleIsNat == Scale \in Nat \ {0}

\* Products are of the groups P1 and up (_TIER_INDEX_BY_GROUP_ID).
ASSUME TiersOfProducts ==
  /\ Tiers \in [Commodities -> Nat]
  /\ \A set \in SchematicSets, t \in Commodities : set[t] # NoSchematic => Tiers[t] > 0

\* Nothing is made of itself, however indirectly: the recursion has no other guard.
ASSUME NothingOfItself ==
  \A set \in SchematicSets :
    \E rank \in [Commodities -> 0..(Cardinality(Commodities) - 1)] :
      \A t, m \in Commodities : Takes(set, t, m) => rank[m] < rank[t]

\* The unit of the model is small enough for its divisions to be those of the program.
ASSUME ScaleIsFine == \A set \in SchematicSets : Grains(set) # {}

VARIABLES
  schematics,    \* by output type
  tier,          \* tier_index_by_type_id; 0: not in it
  made,          \* the output of the page's schematic
  floor,         \* the starting tier at hand
  pending,       \* what is still to be expanded for it
  expanded,      \* per starting tier: the materials listed so far
  planetaryStage \* "expand" or "done"

planetaryVars == <<schematics, tier, made, floor, pending, expanded, planetaryStage>>

None == [t \in Commodities |-> 0]
Makes(t) == schematics[t] # NoSchematic
Floors == 0..(tier[made] - 1)

\* The inputs of the page's schematic.
Asked == [t \in Commodities |-> schematics[made].inputs[t] * Scale]

\* A type without a document in type_docs has no tier.
PlanetaryInit ==
  /\ schematics \in SchematicSets
  /\ \E unknown \in SUBSET Commodities :
       tier = [t \in Commodities |-> IF t \in unknown \/ ~Makes(t) THEN 0 ELSE Tiers[t]]
  /\ made \in {t \in Commodities : Makes(t)}
  /\ floor = 0
  /\ pending = IF tier[made] = 0 THEN None ELSE Asked
  /\ expanded = [f \in Floors |-> None]
  /\ planetaryStage = IF tier[made] = 0 THEN "done" ELSE "expand"

\* Mutant of Through: a material of the starting tier is expanded.
ThroughFloor(t) == Makes(t) /\ tier[t] >= floor

\* Is a material broken down further?
Through(t) == Makes(t) /\ tier[t] > floor

\* What runs_needed cycles for all of t that is pending take of m.
Runs(t, m) == (pending[t] * schematics[t].inputs[m]) \div schematics[t].output

\* _expand_to_tier: on to the inputs of its schematic.
Expand(t) ==
  /\ planetaryStage = "expand" /\ pending[t] > 0
  /\ Through(t)
  /\ pending' = [m \in Commodities |-> (IF m = t THEN 0 ELSE pending[m]) + Runs(t, m)]
  /\ UNCHANGED <<schematics, tier, made, floor, expanded, planetaryStage>>

\* _expand_to_tier: {type_id: quantity}
Keep(t) ==
  /\ planetaryStage = "expand" /\ pending[t] > 0
  /\ ~Through(t)
  /\ pending' = [pending EXCEPT ![t] = 0]
  /\ expanded' = [expanded EXCEPT ![floor][t] = @ + pending[t]]
  /\ UNCHANGED <<schematics, tier, made, floor, planetaryStage>>

\* The materials from this tier are complete.
NextFloor ==
  /\ planetaryStage = "expand" /\ pending = None
  /\ IF floor + 1 \in Floors
     THEN floor' = floor + 1 /\ pending' = Asked /\ UNCHANGED planetaryStage
     ELSE planetaryStage' = "done" /\ UNCHANGED <<floor, pending>>
  /\ UNCHANGED <<schematics, tier, made, expanded>>

PlanetaryNext == NextFloor \/ \E t \in Commodities : Expand(t) \/ Keep(t)

PlanetarySpec == PlanetaryInit /\ [][PlanetaryNext]_planetaryVars

-----------------------------------------------------------------------------
(* Properties *)

\* list_planet_schematics: "P0 - Raw Materials".
RawMaterials ==
  {m \in Commodities : ~Makes(m) /\ \E t \in Commodities : Makes(t) /\ schematics[t].inputs[m] > 0}

\* What a unit of each type takes of the raw material r, given what it takes of the
\* inputs of its schematic.
PerUnit(set, r, inputs) ==
  [t \in Commodities |->
     IF set[t] = NoSchematic THEN IF t = r THEN Scale ELSE 0
     ELSE SumFunction([m \in Commodities |-> set[t].inputs[m] * inputs[m]]) \div set[t].output]

\* The same through all schematics on the way, of which there are no more than types.
RawContent(set, r) ==
  LET content[n \in Nat] == IF n = 0 THEN None ELSE PerUnit(set, r, content[n - 1])
  IN  content[Cardinality(Commodities)]

RawIn(set, amounts, r) ==
  SumFunction([t \in Commodities |-> amounts[t] * RawContent(set, r)[t]])

\* Are the tiers of all products known?
TiersKnown == \A t \in Commodities : Makes(t) => tier[t] = Tiers[t]

\* The starting tiers are comparable: whatever tiers are unknown, each list takes
\* the same raw materials as the schematic's inputs. If all are known, what is
\* listed from P1 up has been expanded no further than it had to be, and from P0
\* nothing is left but the raw materials of the overview.
FloorsAgree ==
  planetaryStage = "done" =>
    \A f \in Floors :
      /\ \A r \in RawMaterials : RawIn(schematics, expanded[f], r) = RawIn(schematics, Asked, r)
      /\ TiersKnown => \A t \in Commodities : expanded[f][t] > 0 =>
           /\ tier[t] <= f
           /\ f = 0 => t \in RawMaterials
           /\ tier[t] < f => \E m \in Commodities :
                (m = made \/ (Makes(m) /\ tier[m] > f)) /\ schematics[m].inputs[t] > 0

=============================================================================
