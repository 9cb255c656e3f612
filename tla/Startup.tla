------------------------------ MODULE Startup -------------------------------
(***************************************************************************)
(* The startup of the replicas (the lifespan of app/main.py): migrations,  *)
(* then the indexes, then the pod serves. An exception of either ends the  *)
(* process, and Kubernetes starts it again. Releases are rolled out while  *)
(* pods start and serve: the pods of older releases are replaced one after *)
(* the other.                                                              *)
(***************************************************************************)
EXTENDS Migrations

CONSTANTS
  Releases,   \* per release, the index entries it declares
  Shipped     \* per release, how many of the migrations it has

VARIABLES
  config, sync,   \* see IndexSync
  release,        \* what is rolled out
  image,          \* per replica, the release of its pod
  beside,         \* history: replicas whose sync_indexes had another's beside it
  newest,         \* history: the newest release a sync of which has begun
  muddled         \* history: was a sync beside another's cut off, or did a sync of
                  \* a release go on after one of a newer had begun?

startupVars == <<vars, config, sync, release, image, beside, newest, muddled>>

S == INSTANCE IndexSync

ASSUME ReleasesAreConfigs == Releases \in Seq(Seq(S!Entries)) /\ Releases # <<>>
ASSUME ReleasesAddMigrations ==
  /\ Shipped \in [DOMAIN Releases -> 1..Len(Order)]
  /\ \A v, w \in DOMAIN Releases : v <= w => Shipped[v] <= Shipped[w]

\* load_index_configs rejects a name twice in a file, and the files of one collection
\* agree on the indexes they both declare.
ASSUME ReleasesAgree ==
  \A v \in DOMAIN Releases : \A i, j \in DOMAIN Releases[v] :
    Releases[v][i].name = Releases[v][j].name => Releases[v][i] = Releases[v][j]

Up(r) == pod[r] = Serving /\ sync[r] = S!Synced
StartingUp == {r \in Replicas : pod[r] # Down /\ ~Up(r)}
InSync == {r \in Replicas : sync[r] \notin {S!Idle, S!Synced}}

StartupInit ==
  /\ Init /\ S!SyncInit
  /\ release = 1
  /\ image = [r \in Replicas |-> 1]
  /\ beside = {} /\ newest = 1 /\ muddled = FALSE

-----------------------------------------------------------------------------
\* The process of a pod starts; one that ended is restarted from the image it had.
Boot(r) ==
  /\ Start(r, Shipped[image[r]])
  /\ UNCHANGED <<config, sync, release, image, beside, newest, muddled>>

RunMigrations(r) ==
  /\ Migrate(r)
  /\ UNCHANGED <<config, sync, release, image, beside, newest, muddled>>

\* The call of sync_indexes of r begins beside those in progress.
Meet(r) ==
  /\ beside' = IF InSync = {} THEN beside ELSE beside \cup InSync \cup {r}
  /\ newest' = IF image[r] > newest THEN image[r] ELSE newest
  /\ UNCHANGED muddled

\* The call goes on, returns (sync'[r] is Synced), or its process is gone.
Muddle(r) ==
  /\ beside' = IF sync'[r] \in {S!Idle, S!Synced} THEN beside \ {r} ELSE beside
  /\ muddled' = (muddled \/ (r \in beside /\ sync'[r] = S!Idle)
                         \/ (r \in InSync /\ image[r] < newest))
  /\ UNCHANGED newest

\* Mutant of EnterSync: the migrations are not awaited.
EnterSyncEarly(r) ==
  /\ pod[r] # Down
  /\ S!BeginSync(r, image[r])
  /\ Meet(r)
  /\ UNCHANGED <<vars, release, image>>

\* The migrations are complete: sync_indexes is called.
EnterSync(r) ==
  /\ pod[r] = Serving
  /\ S!BeginSync(r, image[r])
  /\ Meet(r)
  /\ UNCHANGED <<vars, release, image>>

\* sync_indexes goes on, or raises, which ends the process.
SyncIndexes(r) ==
  /\ S!SyncStep(r)
  /\ pod' = IF sync'[r] = S!Idle THEN [pod EXCEPT ![r] = Down] ELSE pod
  /\ Muddle(r)
  /\ UNCHANGED <<raw, lookup, schematics, applied, crashes, release, image>>

Kill(r) ==
  /\ Crash(r)
  /\ sync' = [sync EXCEPT ![r] = S!Idle]
  /\ Muddle(r)
  /\ UNCHANGED <<config, release, image>>

RollOut ==
  /\ release < Len(Releases)
  /\ release' = release + 1
  /\ UNCHANGED <<vars, config, sync, image, beside, newest, muddled>>

\* The pod of an older release is deleted, wherever it is, for one of this release.
Replaced(r) ==
  /\ image[r] # release
  /\ image' = [image EXCEPT ![r] = release]
  /\ pod' = [pod EXCEPT ![r] = Down]
  /\ sync' = [sync EXCEPT ![r] = S!Idle]
  /\ Muddle(r)
  /\ UNCHANGED <<raw, lookup, schematics, applied, crashes, indexes, config, release>>

Lifespan(r) == Boot(r) \/ RunMigrations(r) \/ EnterSync(r) \/ SyncIndexes(r)

StartupNext ==
  \/ RollOut
  \/ \E r \in Replicas : Lifespan(r) \/ Kill(r) \/ Replaced(r)

\* Processes run on and are started again; a rollout comes to its end.
StartupSpec ==
  /\ StartupInit /\ [][StartupNext]_startupVars
  /\ \A r \in Replicas : WF_startupVars(Lifespan(r)) /\ WF_startupVars(Replaced(r))

-----------------------------------------------------------------------------
(* Properties *)

\* Type correctness of both components; a sync runs only after the migrations.
StartupTypeOK ==
  /\ TypeOK /\ S!SyncTypeOK
  /\ release \in 1..Len(Releases) /\ image \in [Replicas -> 1..release]
  /\ \A r \in Replicas : sync[r] # S!Idle => pod[r] = Serving

\* Every pod answers from what its own release expects, while pods of a newer one
\* migrate beside it too, with one exception: where the newer release has 0007 and the
\* older has not, the planetary schematics are gone while they are filled again
\* (and stay away if the pod that does it is killed, until the next one starts).
ServesItsRelease ==
  \A r \in Replicas : pod[r] = Serving =>
    LET n == Shipped[image[r]]
    IN  /\ n >= 2 => BlueprintsComplete(n)
        /\ n >= 3 => \/ schematics = Keys
                     \/ n < 4 /\ Shipped[release] >= 4 /\ "again" \notin applied

\* The names some release up to this one has declared.
Managed == UNION {S!DesiredNames(v) : v \in 1..release}

Declares(v, n, spec) ==
  \E i \in DOMAIN Releases[v] : Releases[v][i] = [name |-> n, spec |-> spec]

\* A release before v declared this index, and one between the two did not.
BroughtBack(v, n, spec) ==
  \E u, w \in 1..v : u < w /\ w < v /\ Declares(u, n, spec) /\ ~Declares(w, n, spec)

\* Once a pod of the release is up and none is starting, MongoDB holds the indexes
\* the release declares, and _index_config records them and no others
\* (test_sync_recreates_index_when_spec_changes, ..._drops_index_removed_from_config):
\* whatever was killed or replaced on the way, and if replicas synced at once. An
\* index whose creation an earlier release did not come to record may be left
\* over. Only if one of two syncs at once was cut off, or an older release synced when
\* a newer one had begun to, may an index be on record that is not there; and one
\* that this release brings back, if a release between dropped it and was cut off
\* before it changed the record.
UpHasItsIndexes ==
  (~muddled /\ StartingUp = {} /\ \E r \in Replicas : Up(r) /\ image[r] = release) =>
    /\ \A i \in DOMAIN Releases[release] :
         LET n == Releases[release][i].name
             spec == Releases[release][i].spec
         IN  config[n] = spec /\ (indexes[n] = spec \/ BroughtBack(release, n, spec))
    /\ \A n \in IndexNames \ S!DesiredNames(release) : config[n] = NoSpec

\* "Leaves unmanaged index alone" (test_index_sync.py): an index no release has
\* declared is never dropped or changed.
UnmanagedKept ==
  [][\A n \in IndexNames \ Managed :
       indexes[n] # NoSpec => indexes'[n] = indexes[n]]_startupVars

\* "Sync is idempotent" (test_index_sync.py), under restarts too: an index is dropped
\* only when it is not declared, or its spec is not on record: a query never meets
\* a rebuild of an index that has not changed, unless two replicas build it at once.
NoNeedlessDrop ==
  [][\A n \in IndexNames : indexes[n] # NoSpec /\ indexes'[n] = NoSpec =>
       \/ n \notin S!DesiredNames(release) \/ beside # {}
       \/ \E r \in Replicas : image[r] # release /\ sync[r] # sync'[r]
       \/ \E i \in DOMAIN Releases[release] :
            Releases[release][i].name = n /\ config[n] # Releases[release][i].spec]_startupVars

\* "Later startups skip straight past it" (blueprint-data.md): whatever was
\* interrupted, every replica comes to serve, from the last release.
EventuallyUp == \A r \in Replicas : <>[](Up(r) /\ image[r] = release)

=============================================================================
