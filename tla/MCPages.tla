------------------------------- MODULE MCPages -------------------------------
(***************************************************************************)
(* What the pages calculate, and the prices they calculate with.  The      *)
(* programs share no state, so a behaviour runs one of them.               *)
(***************************************************************************)
EXTENDS MCBuildChain, MarketPrices, Planetary, Colony

CONSTANTS
  raw1, raw2, basic, refined, special,   \* planetary types
  none, lost, plex, ore, r1, r2

VARIABLE program

pagesVars == <<program, vars, priceVars, planetaryVars, colonyVars>>

-----------------------------------------------------------------------------
(* Two price lists; ore is no longer listed in the second. *)

SmallLists == <<{plex, ore}, {plex}, {plex, ore}>>

-----------------------------------------------------------------------------
(* Planetary commodities of four tiers; P2 and P3 take any of those below. *)

SmallTiers == [t \in {raw1, raw2, basic, refined, special} |->
                 CASE t = basic -> 1 [] t = refined -> 2 [] t = special -> 3 [] OTHER -> 0]

Made(output, quantity, S) ==
  [output |-> output,
   inputs |-> [t \in {raw1, raw2, basic, refined, special} |-> IF t \in S THEN quantity ELSE 0]]

SmallSchematics ==
  {[t \in {raw1, raw2, basic, refined, special} |->
      CASE t = basic -> Made(2, 3, {raw1})
        [] t = refined -> Made(2, 1, S)
        [] t = special -> IF T = {} THEN NoSchematic ELSE Made(1, 2, T)
        [] OTHER -> NoSchematic] :
     S \in SUBSET {raw1, raw2, basic} \ {{}}, T \in SUBSET {raw2, basic, refined}}

-----------------------------------------------------------------------------
(* A colony of up to three pins. *)

SmallSchemas ==
  [s \in {"basic", "refined"} |->
     IF s = "basic" THEN [inputs |-> [r \in {raw1, basic, refined} |-> IF r = raw1 THEN 3 ELSE 0],
                          output |-> basic, quantity |-> 2]
     ELSE [inputs |-> [r \in {raw1, basic, refined} |-> IF r = basic THEN 2 ELSE 0],
           output |-> refined, quantity |-> 1]]

-----------------------------------------------------------------------------

BuildRests ==
  /\ catalog = <<NoBlueprint, NoBlueprint, NoBlueprint, NoBlueprint>>
  /\ documents = <<"stored", "stored", "stored", "stored">>
  /\ target = 1 /\ wanted = 1 /\ build_set = {}
  /\ Init
PlanetaryRests ==
  /\ schematics = [t \in Commodities |-> NoSchematic] /\ tier = None /\ made = raw1
  /\ floor = 0 /\ pending = None /\ expanded = <<>> /\ planetaryStage = "done"
ColonyRests == pins = <<>> /\ ColonyInit

PagesInit ==
  \/ program = "prices" /\ BuildRests /\ PriceInit /\ PlanetaryRests /\ ColonyRests
  \/ program = "build" /\ Init /\ PriceInit /\ PlanetaryRests /\ ColonyRests
  \/ program = "planetary" /\ BuildRests /\ PriceInit /\ PlanetaryInit /\ ColonyRests
  \/ program = "colony" /\ BuildRests /\ PriceInit /\ PlanetaryRests /\ ColonyInit

PagesNext ==
  \/ program = "build" /\ Next /\ UNCHANGED <<program, priceVars, planetaryVars, colonyVars>>
  \/ program = "prices" /\ PriceNext /\ UNCHANGED <<program, vars, planetaryVars, colonyVars>>
  \/ program = "planetary" /\ PlanetaryNext /\ UNCHANGED <<program, vars, priceVars, colonyVars>>
  \/ program = "colony" /\ ReadPin /\ UNCHANGED <<program, vars, priceVars, planetaryVars>>

\* A behaviour of another program is not fair to the prices, and says nothing of them.
PagesSpec == PagesInit /\ [][PagesNext]_pagesVars /\ PriceFairness

=============================================================================
