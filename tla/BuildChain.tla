----------------------------- MODULE BuildChain -----------------------------
(***************************************************************************)
(* The build chain of an item (app/services/build_chain.py): a walk level  *)
(* by level from the target to its materials, which turns the types that   *)
(* are built into steps and the others into raw materials, and the order   *)
(* in which the steps are listed.                                          *)
(*                                                                         *)
(* The types of a level are expanded in any order, and the materials of a  *)
(* step visited in any order: those of the program's dicts are among them. *)
(* Each type is looked up when its turn comes. A rollout may import        *)
(* documents meanwhile, as migration 0008 does the reaction formulas while *)
(* pods of the last release go on serving.                                 *)
(***************************************************************************)
EXTENDS Naturals, Sequences, FiniteSets, Functions

CONSTANTS
  Types,      \* item types
  Catalogs,   \* what sde_blueprints may hold at last: per type, what produces it
  Reactions,  \* the types whose document a rollout may be importing
  MaxWanted,  \* bound: the quantity asked for
  MaxDepth    \* _MAX_DEPTH

\* A blueprint or reaction formula: what a run makes, and how much of each type
\* it takes (0: not among its materials).
Blueprints == [product_quantity : Nat \ {0}, materials : [Types -> Nat]]
NoBlueprint == [product_quantity |-> 0]

ASSUME TypesFinite == IsFiniteSet(Types)
ASSUME CatalogsOfBlueprints == Catalogs \subseteq [Types -> Blueprints \cup {NoBlueprint}]
ASSUME ReactionsAreTypes == Reactions \subseteq Types
ASSUME BoundsAreNat == MaxWanted \in Nat /\ MaxDepth \in Nat \ {0}

VARIABLES
  catalog,           \* the blueprints
  documents,         \* per type: is its document in sde_blueprints?
  target, wanted,    \* target_type_id, target_quantity
  build_set,         \* the types the player chose to build
  current_level,     \* what is left of the level being expanded
  next_level,
  depth,             \* levels expanded so far
  steps,             \* steps_by_type_id
  raw_totals,
  raw_buildable,     \* the types recorded as True
  stage,             \* "expand", "leftover", "order" or "done"
  path,              \* the _visit calls in progress
  visited,
  ordered            \* the steps listed so far

request == <<catalog, documents, target, wanted, build_set>>
walk == <<current_level, next_level, depth, steps, raw_totals, raw_buildable>>
listing == <<path, visited, ordered>>
vars == <<request, walk, stage, listing>>

\* There from the start, not there yet, or imported since the request began.
Documents == {"stored", "awaited", "imported"}

\* Does anything produce the type?
Produced(t) == catalog[t] # NoBlueprint

Nothing == [t \in Types |-> 0]

\* No step exists as long as no run is planned.
BuildSteps == [quantity_needed : Nat, runs : Nat, materials : [Types -> Nat]]
NoStep == [quantity_needed |-> 0, runs |-> 0, materials |-> Nothing]
Planned(t) == steps[t].runs > 0

Init ==
  /\ catalog \in Catalogs
  /\ \E awaited \in SUBSET {t \in Reactions : Produced(t)} :
       documents = [t \in Types |-> IF t \in awaited THEN "awaited" ELSE "stored"]
  /\ target \in Types
  /\ wanted \in 1..MaxWanted
  /\ build_set \in SUBSET Types
  /\ current_level = [Nothing EXCEPT ![target] = wanted]
  /\ next_level = Nothing
  /\ depth = 0
  /\ steps = [t \in Types |-> NoStep]
  /\ raw_totals = Nothing
  /\ raw_buildable = {}
  /\ stage = "expand"
  /\ path = <<>>
  /\ visited = {}
  /\ ordered = <<>>

-----------------------------------------------------------------------------
(* resolve_build_chain *)

\* Does blueprint_for_product find it?
HasBlueprint(t) == Produced(t) /\ documents[t] # "awaited"
Expanded(t) == HasBlueprint(t) /\ (t = target \/ t \in build_set)

CeilDiv(a, b) == (a + b - 1) \div b

\* additional_runs
RunsFor(t, quantity) ==
  LET n == CeilDiv(quantity, catalog[t].product_quantity) IN IF n > 1 THEN n ELSE 1

\* Type t of the level is bought.
Buy(t) ==
  /\ stage = "expand" /\ current_level[t] > 0
  /\ ~Expanded(t)
  /\ raw_totals' = [raw_totals EXCEPT ![t] = @ + current_level[t]]
  /\ raw_buildable' = IF HasBlueprint(t) THEN raw_buildable \cup {t} ELSE raw_buildable \ {t}
  /\ current_level' = [current_level EXCEPT ![t] = 0]
  /\ UNCHANGED <<request, next_level, depth, steps, stage, listing>>

\* Mutant of Build: a type that has a step already demands no more materials.
BuildOnce(t) ==
  LET runs == RunsFor(t, current_level[t])
      needed == [m \in Types |-> catalog[t].materials[m] * runs]
  IN  /\ stage = "expand" /\ current_level[t] > 0
      /\ Expanded(t)
      /\ steps' = [steps EXCEPT ![t] =
           [quantity_needed |-> @.quantity_needed + current_level[t],
            runs |-> @.runs + runs,
            materials |-> [m \in Types |-> @.materials[m] + needed[m]]]]
      /\ next_level' = IF Planned(t) THEN next_level
                       ELSE [m \in Types |-> next_level[m] + needed[m]]
      /\ current_level' = [current_level EXCEPT ![t] = 0]
      /\ UNCHANGED <<request, depth, raw_totals, raw_buildable, stage, listing>>

\* Type t of the level is built: its step grows, its materials are demanded
\* from the next level.
Build(t) ==
  LET runs == RunsFor(t, current_level[t])
      needed == [m \in Types |-> catalog[t].materials[m] * runs]
  IN  /\ stage = "expand" /\ current_level[t] > 0
      /\ Expanded(t)
      /\ steps' = [steps EXCEPT ![t] =
           [quantity_needed |-> @.quantity_needed + current_level[t],
            runs |-> @.runs + runs,
            materials |-> [m \in Types |-> @.materials[m] + needed[m]]]]
      /\ next_level' = [m \in Types |-> next_level[m] + needed[m]]
      /\ current_level' = [current_level EXCEPT ![t] = 0]
      /\ UNCHANGED <<request, depth, raw_totals, raw_buildable, stage, listing>>

\* Mutant of NextLevel: no recursion guard.
NextLevelUnguarded ==
  /\ stage = "expand" /\ current_level = Nothing
  /\ current_level' = next_level
  /\ next_level' = Nothing
  /\ depth' = depth + 1
  /\ stage' = IF next_level # Nothing THEN "expand" ELSE "leftover"
  /\ UNCHANGED <<request, steps, raw_totals, raw_buildable, listing>>

\* Mutant of NextLevel: the walk stops one level early.
NextLevelShort ==
  /\ stage = "expand" /\ current_level = Nothing
  /\ current_level' = next_level
  /\ next_level' = Nothing
  /\ depth' = depth + 1
  /\ stage' = IF next_level # Nothing /\ depth + 2 < MaxDepth THEN "expand" ELSE "leftover"
  /\ UNCHANGED <<request, steps, raw_totals, raw_buildable, listing>>

\* The level is expanded: the next one, or the end of the walk.
NextLevel ==
  /\ stage = "expand" /\ current_level = Nothing
  /\ current_level' = next_level
  /\ next_level' = Nothing
  /\ depth' = depth + 1
  /\ stage' = IF next_level # Nothing /\ depth + 1 < MaxDepth THEN "expand" ELSE "leftover"
  /\ UNCHANGED <<request, steps, raw_totals, raw_buildable, listing>>

\* What the recursion guard cut off counts as raw; then _visit(target).
Leftover ==
  /\ stage = "leftover"
  /\ raw_totals' = [t \in Types |-> raw_totals[t] + current_level[t]]
  /\ current_level' = Nothing
  /\ stage' = "order"
  /\ visited' = {target}
  /\ path' = IF Planned(target) THEN <<target>> ELSE <<>>
  /\ UNCHANGED <<request, next_level, depth, steps, raw_buildable, ordered>>

-----------------------------------------------------------------------------
(* _topological_order *)

Top == path[Len(path)]
Pop == SubSeq(path, 1, Len(path) - 1)
Unvisited == {m \in Types : steps[Top].materials[m] > 0 /\ m \notin visited}

\* _visit of a material of the type on top; it returns at once if the material
\* has no step.
Visit(m) ==
  /\ stage = "order" /\ path # <<>>
  /\ m \in Unvisited
  /\ visited' = visited \cup {m}
  /\ path' = IF Planned(m) THEN Append(path, m) ELSE path
  /\ UNCHANGED <<request, walk, stage, ordered>>

\* Mutant of Finish: a step is listed as soon as none of its raw materials is
\* left to visit.
FinishEarly ==
  /\ stage = "order" /\ path # <<>>
  /\ \A m \in Unvisited : Planned(m)
  /\ ordered' = Append(ordered, Top)
  /\ path' = Pop
  /\ UNCHANGED <<request, walk, stage, visited>>

\* All materials of the type on top are visited: its step is listed.
Finish ==
  /\ stage = "order" /\ path # <<>>
  /\ Unvisited = {}
  /\ ordered' = Append(ordered, Top)
  /\ path' = Pop
  /\ UNCHANGED <<request, walk, stage, visited>>

Return ==
  /\ stage = "order" /\ path = <<>>
  /\ stage' = "done"
  /\ UNCHANGED <<request, walk, listing>>

\* The rollout imports the document of t; after the walk that makes no difference.
Import(t) ==
  /\ stage = "expand"
  /\ documents[t] = "awaited"
  /\ documents' = [documents EXCEPT ![t] = "imported"]
  /\ UNCHANGED <<catalog, target, wanted, build_set, walk, stage, listing>>

Next ==
  \/ \E t \in Types : Buy(t) \/ Build(t) \/ Visit(t) \/ Import(t)
  \/ NextLevel \/ Leftover
  \/ Finish \/ Return

Spec == Init /\ [][Next]_vars

-----------------------------------------------------------------------------
(* Properties *)

\* A rank of the types: 0 only if nothing produces it, above that of each material.
Ranks(rank) ==
  \A t \in Types : Produced(t) =>
    /\ rank[t] > 0
    /\ \A m \in Types : catalog[t].materials[m] > 0 => rank[m] < rank[t]

\* At most n blueprints lie between an item and its minerals.
AtMost(n) == \E rank \in [Types -> 0..n] : Ranks(rank)

\* A catalog without cycles ("real game data, which is a DAG").
Acyclic == AtMost(Cardinality(Types))

\* Type correctness of the walk, which ends at the guard, and of the listing.
TypeOK ==
  /\ catalog \in Catalogs /\ documents \in [Types -> Documents]
  /\ target \in Types /\ wanted \in 1..MaxWanted
  /\ build_set \subseteq Types
  /\ current_level \in [Types -> Nat] /\ next_level \in [Types -> Nat]
  /\ depth \in 0..MaxDepth /\ (stage = "expand" => depth < MaxDepth)
  /\ steps \in [Types -> BuildSteps]
  /\ raw_totals \in [Types -> Nat] /\ raw_buildable \subseteq Types
  /\ stage \in {"expand", "leftover", "order", "done"}
  /\ path \in Seq(Types) /\ visited \subseteq Types /\ ordered \in Seq(Types)

\* "Treat anything left over as raw rather than lose it" (build_chain.py:107-108): at
\* every moment what is demanded of a type, by the player or by steps, is what
\* its own step supplies, what is to be bought, and what is still to be expanded.
DemandConserved ==
  \A t \in Types :
    SumFunction([s \in Types |-> steps[s].materials[t]]) + (IF t = target THEN wanted ELSE 0)
      = steps[t].quantity_needed + raw_totals[t] + current_level[t] + next_level[t]

\* The runs of a step make what is needed of it, however often its runs were
\* rounded up on the way, and each level rounds up once: at most
\* product_quantity - 1 pieces per level are left over.
EnoughIsBuilt ==
  \A t \in Types : Planned(t) =>
    LET q == catalog[t].product_quantity
    IN  /\ steps[t].quantity_needed <= steps[t].runs * q
        /\ steps[t].runs * q <= steps[t].quantity_needed + (depth + 1) * (q - 1)

\* A component that is needed in several places gets one step and is not bought
\* besides, and the guard cuts nothing it need not cut: in a catalog of at most
\* MaxDepth levels, what the player chose to build is built, the rest is bought,
\* and what is bought is known to have a blueprint or not. Of this a rollout
\* disturbs only the types whose documents it imports during the request: one
\* that is needed on two levels may be bought on the first and built on the next.
BuiltOrBought ==
  \/ \A t \in Types : raw_totals[t] > 0 /\ documents[t] # "imported" =>
       /\ ~Expanded(t) /\ ~Planned(t)
       /\ t \in raw_buildable <=> HasBlueprint(t)
  \/ ~AtMost(MaxDepth)

\* "A component is listed before anything that depends on it" (_topological_order),
\* in a catalog without cycles.
ComponentsFirst ==
  \/ \A i \in DOMAIN ordered : \A m \in Types :
       Planned(m) /\ steps[ordered[i]].materials[m] > 0 =>
         \E j \in 1..(i - 1) : ordered[j] = m
  \/ ~Acyclic

\* Whether or not there are cycles, every step is listed, and only once.
EachStepListed ==
  /\ \A i, j \in DOMAIN ordered : ordered[i] = ordered[j] => i = j
  /\ stage = "done" => {ordered[i] : i \in DOMAIN ordered} = {t \in Types : Planned(t)}

=============================================================================
