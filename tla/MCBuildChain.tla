---------------------------- MODULE MCBuildChain ----------------------------
\* Instances of BuildChain for TLC.
EXTENDS BuildChain

Four == 1..4

\* A blueprint that makes n pieces of its product and takes two of each type of S.
Recipe(n, S) == [product_quantity |-> n, materials |-> [t \in Four |-> IF t \in S THEN 2 ELSE 0]]
Recipes(N, S) == {NoBlueprint} \cup {Recipe(n, M) : n \in N, M \in SUBSET S}

\* 4 is a mineral, 3 a component, 2 a module and 1 a ship; any of them may be
\* without a blueprint, and any may need any of those after it.
ShipCatalogs ==
  {<<ship, module, component, NoBlueprint>> :
     ship \in Recipes({1}, 2..4), module \in Recipes({1, 3}, 3..4), component \in Recipes({3}, {4})}

\* 1 and 2 may need each other, and themselves.
LoopCatalogs ==
  {<<a, b, NoBlueprint, NoBlueprint>> : a \in Recipes({1}, 1..3), b \in Recipes({3}, 1..3)}

SmallCatalogs == ShipCatalogs \cup LoopCatalogs

=============================================================================
