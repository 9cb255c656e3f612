----------------------------- MODULE IndexSync ------------------------------
(***************************************************************************)
(* sync_indexes (app/db/index_sync.py): what the lifespan of app/main.py   *)
(* runs after the migrations to make MongoDB hold the indexes of           *)
(* app/config/mongo_indexes. The spec an index was last built from is kept *)
(* in _index_config; nothing is locked, each call is awaited on its own.   *)
(***************************************************************************)
EXTENDS MongoIndexes, Naturals, Sequences, FiniteSets

CONSTANTS
  Replicas,
  Releases    \* per release of the program, what load_index_configs returns

\* An entry of a configuration; files of one collection may repeat a name.
Entries == [name : IndexNames, spec : IndexSpecs]

VARIABLES
  config,   \* the _index_config collection: per name, the recorded spec
  sync      \* per replica: the call of sync_indexes

syncVars == <<indexes, config, sync>>

Idle == [phase |-> "idle"]
Synced == [phase |-> "synced"]
SyncPhases == {"check", "drop", "create", "record", "find", "drop_stale", "delete_stale"}
\* todo: the entries left; of: the release; stale: the records to remove, the
\* one in hand first.
Syncing == [phase : SyncPhases, of : 1..Len(Releases), todo : Seq(Entries),
            stale : Seq(IndexNames)]

SyncIs(r, phase) == sync[r].phase = phase
Entry(r) == Head(sync[r].todo)
DesiredNames(release) == {Releases[release][i].name : i \in DOMAIN Releases[release]}

SyncInit ==
  /\ config = [n \in IndexNames |-> NoSpec]
  /\ sync = [r \in Replicas |-> Idle]

-----------------------------------------------------------------------------
(* The declared indexes *)

\* Go on with entry list todo; after the last one, look for stale records.
OnTo(p, todo) == [p EXCEPT !.todo = todo, !.phase = IF todo = <<>> THEN "find" ELSE "check"]

BeginSync(r, release) ==
  /\ sync[r] = Idle
  /\ sync' = [sync EXCEPT ![r] =
       OnTo([phase |-> "check", of |-> release, todo |-> <<>>, stale |-> <<>>],
            Releases[release])]
  /\ UNCHANGED <<indexes, config>>

\* Mutant of Check: the record is looked up, its spec is not compared.
CheckRecorded(r) ==
  /\ SyncIs(r, "check")
  /\ sync' = [sync EXCEPT ![r] =
       IF config[Entry(r).name] # NoSpec THEN OnTo(@, Tail(@.todo))
       ELSE [@ EXCEPT !.phase = "drop"]]
  /\ UNCHANGED <<indexes, config>>

\* An entry whose spec is on record is skipped.
Check(r) ==
  /\ SyncIs(r, "check")
  /\ sync' = [sync EXCEPT ![r] =
       IF config[Entry(r).name] = Entry(r).spec THEN OnTo(sync[r], Tail(sync[r].todo))
       ELSE [sync[r] EXCEPT !.phase = "drop"]]
  /\ UNCHANGED <<indexes, config>>

\* Mutant of DropOld: the index is not dropped before it is created again.
DropNothing(r) ==
  /\ SyncIs(r, "drop")
  /\ sync' = [sync EXCEPT ![r].phase = "create"]
  /\ UNCHANGED <<indexes, config>>

DropOld(r) ==
  /\ SyncIs(r, "drop")
  /\ indexes' = WithoutIndex(Entry(r).name)
  /\ sync' = [sync EXCEPT ![r].phase = "create"]
  /\ UNCHANGED config

\* An OperationFailure ends the startup.
Create(r) ==
  /\ SyncIs(r, "create")
  /\ IF CanCreate(Entry(r).name, Entry(r).spec)
     THEN /\ indexes' = WithIndex(Entry(r).name, Entry(r).spec)
          /\ sync' = [sync EXCEPT ![r].phase = "record"]
     ELSE /\ sync' = [sync EXCEPT ![r] = Idle]
          /\ UNCHANGED indexes
  /\ UNCHANGED config

\* replace_one(upsert=True)
RecordSpec(r) ==
  /\ SyncIs(r, "record")
  /\ config' = [config EXCEPT ![Entry(r).name] = Entry(r).spec]
  /\ sync' = [sync EXCEPT ![r] = OnTo(sync[r], Tail(sync[r].todo))]
  /\ UNCHANGED indexes

-----------------------------------------------------------------------------
(* The indexes that are declared no longer *)

OnToStale(p, stale) ==
  IF stale = <<>> THEN Synced ELSE [p EXCEPT !.stale = stale, !.phase = "drop_stale"]

\* Orders of the records of S.
Cursors(S) == {s \in [1..Cardinality(S) -> S] : \A n \in S : \E i \in DOMAIN s : s[i] = n}

\* Mutant of FindStale: the indexes of the database are compared, not the records.
FindUndeclared(r) ==
  /\ SyncIs(r, "find")
  /\ \E stale \in Cursors({n \in IndexNames : indexes[n] # NoSpec} \ DesiredNames(sync[r].of)) :
       sync' = [sync EXCEPT ![r] = OnToStale(@, stale)]
  /\ UNCHANGED <<indexes, config>>

\* find({}) of _index_config, in the order the cursor happens to return.
FindStale(r) ==
  /\ SyncIs(r, "find")
  /\ \E stale \in Cursors({n \in IndexNames : config[n] # NoSpec} \ DesiredNames(sync[r].of)) :
       sync' = [sync EXCEPT ![r] = OnToStale(sync[r], stale)]
  /\ UNCHANGED <<indexes, config>>

DropStale(r) ==
  /\ SyncIs(r, "drop_stale")
  /\ indexes' = WithoutIndex(Head(sync[r].stale))
  /\ sync' = [sync EXCEPT ![r].phase = "delete_stale"]
  /\ UNCHANGED config

\* delete_one of the record.
DeleteStale(r) ==
  /\ SyncIs(r, "delete_stale")
  /\ config' = [config EXCEPT ![Head(sync[r].stale)] = NoSpec]
  /\ sync' = [sync EXCEPT ![r] = OnToStale(sync[r], Tail(sync[r].stale))]
  /\ UNCHANGED indexes

SyncStep(r) ==
  \/ Check(r) \/ DropOld(r) \/ Create(r) \/ RecordSpec(r)
  \/ FindStale(r) \/ DropStale(r) \/ DeleteStale(r)

-----------------------------------------------------------------------------
SyncTypeOK ==
  /\ indexes \in MaybeIndexes /\ config \in MaybeIndexes
  /\ sync \in [Replicas -> Syncing \cup {Idle, Synced}]

=============================================================================
