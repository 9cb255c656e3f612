------------------------------- MODULE Colony -------------------------------
(***************************************************************************)
(* The two pages of a player's planetary colonies (app/routes/pi.py): the  *)
(* overview, which counts the pins of a colony and lists what they make,   *)
(* and its own page, which adds up the flow of each resource and sorts it  *)
(* into imports and exports.  Both go through the pins in ESI's order.     *)
(***************************************************************************)
EXTENDS Naturals, Sequences, FiniteSets

CONSTANTS
  Resources,     \* planetary types
  NoResource,
  Schemas,       \* sde_planet_schematics: per schematic id, inputs and output
  UnknownSchema, \* a schematic id MongoDB does not have
  Outputs,       \* quantities an extractor may report per cycle
  MaxPins        \* bound: pins of a colony

\* An extractor (extractor_details), a factory (schematic_id), or neither.
Extractor(resource, quantity) ==
  [kind |-> "extractor", product |-> resource, quantity |-> quantity]
Factory(schema) == [kind |-> "factory", schema |-> schema]
Storage == [kind |-> "storage"]

Pins ==
  {Extractor(r, n) : r \in Resources \cup {NoResource}, n \in Outputs}
    \cup {Factory(s) : s \in DOMAIN Schemas \cup {UnknownSchema}}
    \cup {Storage}

ASSUME SchemasOfResources ==
  \A s \in DOMAIN Schemas :
    Schemas[s] \in [inputs : [Resources -> Nat], output : Resources, quantity : Nat \ {0}]
ASSUME PinsAreFew == MaxPins \in Nat /\ Outputs \subseteq Nat
ASSUME NonesApart == NoResource \notin Resources /\ UnknownSchema \notin DOMAIN Schemas

VARIABLES
  pins,      \* the colony, as ESI answers
  read,      \* pins gone through
  produced,  \* overview: the products, in the order of the pins
  shownPins, \* own page: extractor, factory and storage cards
  flow       \* own page: resource_flow

colonyVars == <<pins, read, produced, shownPins, flow>>

NoFlow == [r \in Resources |-> [in |-> 0, out |-> 0]]

ColonyInit ==
  /\ pins \in UNION {[1..n -> Pins] : n \in 0..MaxPins}
  /\ read = 0
  /\ produced = <<>>
  /\ shownPins = [extractor |-> 0, factory |-> 0, storage |-> 0]
  /\ flow = NoFlow

Pin == pins[read + 1]

\* produced.append(product_type_id), once.
Produce(r) ==
  produced' = IF r \in {produced[i] : i \in DOMAIN produced} THEN produced ELSE Append(produced, r)

Card(kind) == shownPins' = [shownPins EXCEPT ![kind] = @ + 1]

ReadExtractor ==
  /\ Pin.kind = "extractor"
  /\ Card("extractor")
  /\ IF Pin.product = NoResource THEN UNCHANGED <<produced, flow>>
     ELSE /\ Produce(Pin.product)
          /\ flow' = [flow EXCEPT ![Pin.product].out = @ + Pin.quantity]

\* Mutant of ReadFactory: the output of a schematic replaces what is there.
ReadFactoryOverwrites ==
  /\ Pin.kind = "factory" /\ Pin.schema \in DOMAIN Schemas
  /\ Card("factory")
  /\ LET schema == Schemas[Pin.schema]
     IN /\ Produce(schema.output)
        /\ flow' = [flow EXCEPT ![schema.output] = [in |-> 0, out |-> schema.quantity]]

ReadFactory ==
  /\ Pin.kind = "factory" /\ Pin.schema \in DOMAIN Schemas
  /\ Card("factory")
  /\ LET schema == Schemas[Pin.schema]
     IN /\ Produce(schema.output)
        /\ flow' = [r \in Resources |->
             [in |-> flow[r].in + schema.inputs[r],
              out |-> flow[r].out + IF r = schema.output THEN schema.quantity ELSE 0]]

\* A factory whose schematic is unknown is taken for storage.
ReadStorage ==
  /\ Pin.kind = "storage" \/ (Pin.kind = "factory" /\ Pin.schema = UnknownSchema)
  /\ Card("storage")
  /\ UNCHANGED <<produced, flow>>

ReadPin ==
  /\ read < Len(pins)
  /\ read' = read + 1
  /\ ReadExtractor \/ ReadFactory \/ ReadStorage
  /\ UNCHANGED pins

ColonySpec == ColonyInit /\ [][ReadPin]_colonyVars

-----------------------------------------------------------------------------
(* What the pages show *)

PinsOf(kind) == Cardinality({i \in DOMAIN pins : pins[i].kind = kind})

\* The overview counts by what a pin has, its own page by what could be read.  ESI's
\* extractor_details name the extractor's heads always, so they are never empty.
OverviewCounts ==
  [extractor |-> PinsOf("extractor"), factory |-> PinsOf("factory"),
   storage |-> Len(pins) - PinsOf("extractor") - PinsOf("factory")]

Imports == {r \in Resources : flow[r].in > 0 /\ flow[r].out = 0}
Exports == {r \in Resources : flow[r].out > 0 /\ flow[r].in = 0}

-----------------------------------------------------------------------------
(* Properties *)

ProducedHere == {produced[i] : i \in DOMAIN produced}
Consumed == {r \in Resources : \E i \in DOMAIN pins :
               /\ pins[i].kind = "factory" /\ pins[i].schema \in DOMAIN Schemas
               /\ Schemas[pins[i].schema].inputs[r] > 0}

\* What pin i makes, and whether it reports no quantity of it.
MadeBy(i) ==
  CASE pins[i].kind = "extractor" -> {pins[i].product}
    [] pins[i].kind = "factory" /\ pins[i].schema \in DOMAIN Schemas ->
         {Schemas[pins[i].schema].output}
    [] OTHER -> {}
Silent(i) == pins[i].kind = "extractor" /\ pins[i].quantity = 0
MadeInSilence == {r \in ProducedHere : \A i \in DOMAIN pins : r \in MadeBy(i) => Silent(i)}

\* The overview and the page of a colony tell the same: as long as the schematics
\* are known they count the same extractors, factories and storages; and "a resource
\* produced AND consumed somewhere on this colony is an intermediate" (pi.py): each
\* product of the overview is either exported or such a resource, and what is
\* imported is made nowhere.  An extractor without a quantity misleads the page about
\* what nothing else makes, and about nothing else.
ColonyPagesAgree ==
  read = Len(pins) =>
    /\ \/ shownPins = OverviewCounts
       \/ \E i \in DOMAIN pins : pins[i] = Factory(UnknownSchema)
    /\ Exports = (ProducedHere \ MadeInSilence) \ Consumed
    /\ Imports = Consumed \ (ProducedHere \ MadeInSilence)

=============================================================================
