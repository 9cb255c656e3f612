----------------------------- MODULE Migrations -----------------------------
(***************************************************************************)
(* The MongoDB migrations every replica runs before it serves              *)
(* (app/migrations/runner.py, called by the lifespan of app/main.py).      *)
(* Six migrations stand for the ten:                                       *)
(*   "import"     0001: each raw SDE table is emptied, filled batch by     *)
(*                batch, and recorded as a step of its own;                *)
(*   "build"      0002: the lookup collections are emptied and filled from *)
(*                what the raw tables hold;                                *)
(*   "schematics" 0006 (and 0005): a collection is emptied and filled from *)
(*                a file of the image;                                     *)
(*   "again"      0007: 0006 once more;                                    *)
(*   "reactions"  0008: documents are added to a lookup collection, one by *)
(*                one, then a field is set on the others (0003 and 0004    *)
(*                update documents the same way and add none);             *)
(*   "index"      0010: an index of that collection is created.            *)
(* 0009 drops a collection nothing reads. A batch of a table, and the      *)
(* documents built from it, is a key.                                      *)
(* An exception ends the process, and Kubernetes starts it again.          *)
(***************************************************************************)
EXTENDS MongoIndexes, Naturals, Sequences, FiniteSets

CONSTANTS
  Replicas,       \* pods of the deployment
  NumBatches,     \* batches of a raw table
  MaxStarting,    \* replicas that may be migrating at once
  MaxCrashes,     \* bound: pods killed
  ProductIndex,   \* the name pymongo gives to the index of 0010
  ProductSpec,    \* its keys
  InitialIndexes  \* indexes made by hand

ASSUME BoundsAreNat == MaxStarting \in Nat /\ MaxCrashes \in Nat
ASSUME BatchesAreNat == NumBatches \in Nat \ {0}
ASSUME ReplicasAreFinite == IsFiniteSet(Replicas)
ASSUME IndexesExist ==
  ProductIndex \in IndexNames /\ ProductSpec \in IndexSpecs /\ InitialIndexes \in MaybeIndexes

Keys == 1..NumBatches

\* industryActivityProducts decides which documents are built, and
\* industryActivityMaterials what they list.
Tables == <<"materials", "products">>
Table == {"materials", "products"}
Order == <<"import", "build", "schematics", "again", "reactions", "index">>
Migration == {"import", "build", "schematics", "again", "reactions", "index"}
FirstOf(n) == {Order[i] : i \in 1..n}

\* Blueprints come from the manufacturing rows of the raw tables, formulas from
\* the reaction rows.
Activity == {"manufacturing", "reaction"}

VARIABLES
  raw,        \* raw tables: how often each batch is in the collection
  lookup,     \* sde_blueprints: per activity, what each document lists
  schematics, \* sde_planet_schematics: the batches that are there
  applied,    \* the _migrations collection
  pod,        \* per replica: its process
  crashes     \* pods killed so far

vars == <<raw, lookup, schematics, applied, pod, crashes, indexes>>

\* A lookup document: how often each material is listed, and its activity_id.
NoDoc == [listed |-> 0, built |-> FALSE, activity |-> "none"]
Docs == [listed : Nat, built : BOOLEAN, activity : Activity \cup {"none"}]
NoRows == [k \in Keys |-> 0]

Down == [phase |-> "down"]
Serving == [phase |-> "serving"]
Phases == {"choose", "steps", "empty", "fill", "step", "read", "replace", "insert",
           "clear", "refill", "upsert", "create", "record"}
\* known: applied_ids as read at the start; last: the migrations of the image;
\* tables: those left to import or to read; batch: the next one to insert;
\* left: the batches whose upserts are in flight; seen: what has been read.
Starting == [phase : Phases, known : SUBSET (Migration \cup Table), at : 1..Len(Order),
             last : 1..Len(Order), tables : Seq(Table), batch : Keys, left : SUBSET Keys,
             seen : [Table -> [Keys -> Nat]]]
NothingSeen == [t \in Table |-> NoRows]

Init ==
  /\ raw = [t \in Table |-> NoRows]
  /\ lookup = [a \in Activity |-> [k \in Keys |-> NoDoc]]
  /\ schematics = {}
  /\ applied = {}
  /\ pod = [r \in Replicas |-> Down]
  /\ crashes = 0
  /\ indexes = InitialIndexes

At(r, phase) == pod[r].phase = phase

-----------------------------------------------------------------------------
(* run_migrations *)

\* The replicas that had something to migrate when they started.
Migrating ==
  {r \in Replicas : pod[r] \notin {Down, Serving} /\ ~(FirstOf(pod[r].last) \subseteq pod[r].known)}

\* A pod whose image has n migrations starts: applied_ids is read once.
Start(r, n) ==
  /\ At(r, "down")
  /\ FirstOf(n) \subseteq applied \/ Cardinality(Migrating) < MaxStarting
  /\ pod' = [pod EXCEPT ![r] =
       [phase |-> "choose", known |-> applied \cap Migration, at |-> 1, last |-> n,
        tables |-> <<>>, batch |-> 1, left |-> {}, seen |-> NothingSeen]]
  /\ UNCHANGED <<raw, lookup, schematics, applied, crashes, indexes>>

\* The migration after the one in hand, or the pod serves.
Onward(p) == IF p.at = p.last THEN Serving ELSE [p EXCEPT !.phase = "choose", !.at = @ + 1]

FirstPhase ==
  [m \in Migration |-> CASE m = "import" -> "steps"
                         [] m \in {"build", "reactions"} -> "read"
                         [] m \in {"schematics", "again"} -> "clear"
                         [] m = "index" -> "create"]

Choose(r) ==
  LET p == pod[r]
      m == Order[p.at]
  IN  /\ p.phase = "choose"
      /\ pod' = [pod EXCEPT ![r] =
                   IF m \in p.known THEN Onward(p)
                   ELSE [p EXCEPT !.phase = FirstPhase[m],
                                  !.tables = IF FirstPhase[m] = "read" THEN Tables ELSE <<>>]]
      /\ UNCHANGED <<raw, lookup, schematics, applied, crashes, indexes>>

\* insert_one into _migrations: an id that exists raises DuplicateKeyError.
Record(r) ==
  LET p == pod[r]
      m == Order[p.at]
  IN  /\ p.phase = "record"
      /\ applied' = applied \cup {m}
      /\ pod' = [pod EXCEPT ![r] = IF m \in applied THEN Down ELSE Onward(p)]
      /\ UNCHANGED <<raw, lookup, schematics, crashes, indexes>>

-----------------------------------------------------------------------------
(* 0001: _import_table of each table without a recorded step *)

\* The next table to import, or the migration is recorded.
NextTable(p, tables) ==
  [p EXCEPT !.tables = tables, !.phase = IF tables = <<>> THEN "record" ELSE "empty"]

\* The tables without a recorded step.
StepsLeft ==
  (IF "materials" \in applied THEN <<>> ELSE <<"materials">>)
    \o (IF "products" \in applied THEN <<>> ELSE <<"products">>)

ReadSteps(r) ==
  /\ At(r, "steps")
  /\ pod' = [pod EXCEPT ![r] = NextTable(pod[r], StepsLeft)]
  /\ UNCHANGED <<raw, lookup, schematics, applied, crashes, indexes>>

\* Mutant of EmptyTable: no delete_many before the batches.
EmptyTableNot(r) ==
  /\ At(r, "empty")
  /\ pod' = [pod EXCEPT ![r].phase = "fill", ![r].batch = 1]
  /\ UNCHANGED <<raw, lookup, schematics, applied, crashes, indexes>>

\* delete_many({})
EmptyTable(r) ==
  /\ At(r, "empty")
  /\ raw' = [raw EXCEPT ![Head(pod[r].tables)] = NoRows]
  /\ pod' = [pod EXCEPT ![r].phase = "fill", ![r].batch = 1]
  /\ UNCHANGED <<lookup, schematics, applied, crashes, indexes>>

\* insert_many of a batch; the rows have no _id of their own, none is refused.
FillTable(r) ==
  LET k == pod[r].batch
  IN  /\ At(r, "fill")
      /\ raw' = [raw EXCEPT ![Head(pod[r].tables)][k] = @ + 1]
      /\ pod' = [pod EXCEPT ![r] = IF k < NumBatches THEN [@ EXCEPT !.batch = k + 1]
                                   ELSE [@ EXCEPT !.phase = "step", !.batch = 1]]
      /\ UNCHANGED <<lookup, schematics, applied, crashes, indexes>>

\* insert_one of the step's record.
RecordStep(r) ==
  LET p == pod[r]
      t == Head(p.tables)
  IN  /\ p.phase = "step"
      /\ applied' = applied \cup {t}
      /\ pod' = [pod EXCEPT ![r] = IF t \in applied THEN Down ELSE NextTable(p, Tail(p.tables))]
      /\ UNCHANGED <<raw, lookup, schematics, crashes, indexes>>

-----------------------------------------------------------------------------
(* 0002: read the raw tables, then _replace_all *)

\* One cursor after the other, of 0008 too.
ReadTable(r) ==
  LET t == Head(pod[r].tables)
      rest == Tail(pod[r].tables)
      next == IF Order[pod[r].at] = "build" THEN "replace" ELSE "upsert"
  IN  /\ At(r, "read")
      /\ pod' = [pod EXCEPT ![r].seen[t] = raw[t], ![r].tables = rest,
                            ![r].phase = IF rest = <<>> THEN next ELSE "read",
                            ![r].left = IF rest = <<>> /\ next = "upsert"
                                        THEN {k \in Keys : raw[t][k] > 0} ELSE {}]
      /\ UNCHANGED <<raw, lookup, schematics, applied, crashes, indexes>>

\* delete_many({}) of the lookup collection.
Replace(r) ==
  /\ At(r, "replace")
  /\ lookup' = [a \in Activity |-> [k \in Keys |-> NoDoc]]
  /\ pod' = [pod EXCEPT ![r].phase = "insert"]
  /\ UNCHANGED <<raw, schematics, applied, crashes, indexes>>

\* The batch after the one in hand, or the migration is recorded.
NextBatch(p) ==
  IF p.batch < NumBatches THEN [p EXCEPT !.batch = @ + 1]
  ELSE [p EXCEPT !.phase = "record", !.batch = 1, !.seen = NothingSeen]

\* insert_many(ordered=False) of a batch: a document whose _id is there already,
\* and a second one of an _id, are refused, the others stored; then it raises.
InsertDocs(r) ==
  LET k == pod[r].batch
      rows == pod[r].seen.products[k]
      there == lookup["manufacturing"][k].built
  IN  /\ At(r, "insert")
      /\ lookup' = IF rows = 0 \/ there THEN lookup
                   ELSE [lookup EXCEPT !["manufacturing"][k] =
                           [listed |-> pod[r].seen.materials[k], built |-> TRUE, activity |-> "none"]]
      /\ pod' = [pod EXCEPT ![r] = IF rows > 1 \/ (rows > 0 /\ there) THEN Down ELSE NextBatch(@)]
      /\ UNCHANGED <<raw, schematics, applied, crashes, indexes>>

-----------------------------------------------------------------------------
(* 0006, and 0007, which calls it again: _replace_all from the files *)

ClearSchematics(r) ==
  /\ At(r, "clear")
  /\ schematics' = {}
  /\ pod' = [pod EXCEPT ![r].phase = "refill"]
  /\ UNCHANGED <<raw, lookup, applied, crashes, indexes>>

RefillSchematics(r) ==
  LET k == pod[r].batch
  IN  /\ At(r, "refill")
      /\ schematics' = schematics \cup {k}
      /\ pod' = [pod EXCEPT ![r] = IF k \in schematics THEN Down ELSE NextBatch(@)]
      /\ UNCHANGED <<raw, lookup, applied, crashes, indexes>>

-----------------------------------------------------------------------------
(* 0008: the reaction formulas *)

\* update_one(upsert=True) of a batch of formulas, several of them in flight.
UpsertFormulas(r) ==
  /\ At(r, "upsert")
  /\ \E k \in pod[r].left :
       /\ lookup' = [lookup EXCEPT !["reaction"][k] =
            [listed |-> pod[r].seen.materials[k], built |-> TRUE, activity |-> "reaction"]]
       /\ pod' = [pod EXCEPT ![r].left = @ \ {k}]
  /\ UNCHANGED <<raw, schematics, applied, crashes, indexes>>

\* Mutant of SetActivity: no test of what has an activity_id already.
SetActivityOfAll(r) ==
  /\ At(r, "upsert") /\ pod[r].left = {}
  /\ lookup' = [a \in Activity |-> [k \in Keys |->
       IF lookup[a][k].built THEN [lookup[a][k] EXCEPT !.activity = "manufacturing"]
       ELSE lookup[a][k]]]
  /\ pod' = [pod EXCEPT ![r].phase = "record", ![r].seen = NothingSeen]
  /\ UNCHANGED <<raw, schematics, applied, crashes, indexes>>

\* update_many of the documents that have no activity_id.
SetActivity(r) ==
  /\ At(r, "upsert") /\ pod[r].left = {}
  /\ lookup' = [a \in Activity |-> [k \in Keys |->
       IF lookup[a][k].built /\ lookup[a][k].activity = "none"
       THEN [lookup[a][k] EXCEPT !.activity = "manufacturing"] ELSE lookup[a][k]]]
  /\ pod' = [pod EXCEPT ![r].phase = "record", ![r].seen = NothingSeen]
  /\ UNCHANGED <<raw, schematics, applied, crashes, indexes>>

\* 0010: create_index, which raises if it conflicts with an index that is there.
CreateProductIndex(r) ==
  /\ At(r, "create")
  /\ IF CanCreate(ProductIndex, ProductSpec)
     THEN /\ indexes' = WithIndex(ProductIndex, ProductSpec)
          /\ pod' = [pod EXCEPT ![r].phase = "record"]
     ELSE /\ pod' = [pod EXCEPT ![r] = Down]
          /\ UNCHANGED indexes
  /\ UNCHANGED <<raw, lookup, schematics, applied, crashes>>

-----------------------------------------------------------------------------
\* The pod is killed.
Crash(r) ==
  /\ pod[r] # Down
  /\ crashes < MaxCrashes
  /\ crashes' = crashes + 1
  /\ pod' = [pod EXCEPT ![r] = Down]
  /\ UNCHANGED <<raw, lookup, schematics, applied, indexes>>

Import(r) == ReadSteps(r) \/ EmptyTable(r) \/ FillTable(r) \/ RecordStep(r)
Build(r) == ReadTable(r) \/ Replace(r) \/ InsertDocs(r)
Refill(r) == ClearSchematics(r) \/ RefillSchematics(r)
AddFormulas(r) == UpsertFormulas(r) \/ SetActivity(r)

\* What run_migrations does next.
Migrate(r) ==
  \/ Choose(r) \/ Record(r)
  \/ Import(r) \/ Build(r) \/ Refill(r) \/ AddFormulas(r) \/ CreateProductIndex(r)

Step(r) == Start(r, Len(Order)) \/ Migrate(r)

Next == \E r \in Replicas : Step(r) \/ Crash(r)

Spec == Init /\ [][Next]_vars

-----------------------------------------------------------------------------
(* Properties *)

\* Type correctness; who imports has a table in its hand.
TypeOK ==
  /\ raw \in [Table -> [Keys -> Nat]]
  /\ lookup \in [Activity -> [Keys -> Docs]]
  /\ schematics \subseteq Keys
  /\ applied \subseteq Migration \cup Table
  /\ pod \in [Replicas -> Starting \cup {Down, Serving}]
  /\ crashes \in 0..MaxCrashes
  /\ \A r \in Replicas :
       pod[r].phase \in {"empty", "fill", "step", "read"} => pod[r].tables # <<>>

\* "Applied migrations are tracked in a _migrations collection" (blueprint-data.md):
\* one is recorded only after all before it, and 0001 after each of its tables.
AppliedInOrder ==
  /\ \A i \in 2..Len(Order) : Order[i] \in applied => Order[i - 1] \in applied
  /\ "import" \in applied => Table \subseteq applied

\* What the blueprint pages of an image with n migrations answer from: every
\* blueprint is there and lists each material once; from 0008 on, so does every
\* reaction formula, and each has its own activity_id.
BlueprintsComplete(n) ==
  \A k \in Keys :
    /\ lookup["manufacturing"][k].built /\ lookup["manufacturing"][k].listed = 1
    /\ n >= 5 => /\ lookup["reaction"][k].built /\ lookup["reaction"][k].listed = 1
                 /\ \A a \in Activity : lookup[a][k].activity = a

\* What a serving pod answers from is complete.
ServingIsComplete ==
  (\E r \in Replicas : pod[r] = Serving) => BlueprintsComplete(Len(Order)) /\ schematics = Keys

=============================================================================
