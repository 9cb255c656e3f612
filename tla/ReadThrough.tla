----------------------------- MODULE ReadThrough -----------------------------
(***************************************************************************)
(* Reference data read through Redis and MongoDB (services/locations.py,   *)
(* services/sde.py, services/cache.py): the names of locations, planets    *)
(* and systems and the security status of systems, which are asked from    *)
(* ESI when MongoDB does not hold them and stored there for good, and the  *)
(* documents of the SDE, which only migrations change.  Pages resolve sets *)
(* of ids and interleave at every await.                                   *)
(*                                                                         *)
(* A version stands for what there is to know of an id: the name of a      *)
(* location, the security status of a system, the document of a type.      *)
(***************************************************************************)
EXTENDS Naturals, FiniteSets

CONSTANTS
  Locations,   \* stations and structures, which ESI can rename
  Systems,     \* systems and planets, of which nothing changes
  Docs,        \* ids of SDE documents
  SystemOf,    \* the system ESI gives for a location, or NoSystem
  NoSystem,
  Pages,       \* page requests that may be in progress at once
  MaxVersion   \* bound: renames of a location, migrations of a document

Ids == Locations \cup Systems \cup Docs
Versions == 0..MaxVersion

Absent == [state |-> "absent"]
Failed == [state |-> "failed"]   \* None: ESI would not say
Known(v) == [state |-> "known", version |-> v]
Contents == {Known(v) : v \in Versions}

ASSUME SystemsOfLocations == SystemOf \in [Locations -> Systems \cup {NoSystem}]
ASSUME NoSystemIsNone == NoSystem \notin Systems
ASSUME IdsAreApart ==
  /\ Locations \cap Systems = {} /\ Locations \cap Docs = {} /\ Systems \cap Docs = {}
ASSUME BoundIsNat == MaxVersion \in Nat

VARIABLES
  esi,     \* what ESI says of the locations and systems
  mongo,   \* location_names, system_security, planet_names, system_names, sde_*
  redis,
  page,    \* per page: the ids it resolves, what it has of them, what it does next
  stored   \* history: the ids of the page that MongoDB held when it began

vars == <<esi, mongo, redis, page, stored>>

Nothing == [i \in Ids |-> Absent]

Idle == [phase |-> "idle"]
Busy == [phase : {"get", "find", "store", "cache", "fetch"}, ids : SUBSET Ids,
         resolved : [Ids -> Contents \cup {Absent, Failed}], new : SUBSET Ids]

Init ==
  /\ esi = [i \in Locations \cup Systems |-> Known(0)]
  /\ \E imported \in SUBSET Docs :
       mongo = [i \in Ids |-> IF i \in imported THEN Known(0) ELSE Absent]
  /\ redis = Nothing
  /\ page = [p \in Pages |-> Idle]
  /\ stored = [p \in Pages |-> {}]

\* Page p goes on to resolve ids.
Resolve(p, ids) ==
  /\ page' = [page EXCEPT ![p] = [phase |-> "get", ids |-> ids, resolved |-> Nothing, new |-> {}]]
  /\ stored' = [stored EXCEPT ![p] = {i \in ids : mongo[i] # Absent}]

Leave(p) ==
  /\ page' = [page EXCEPT ![p] = Idle]
  /\ stored' = [stored EXCEPT ![p] = {}]

Open(p) ==
  /\ page[p] = Idle
  /\ \E ids \in (SUBSET Locations) \cup (SUBSET Systems) \cup (SUBSET Docs) :
       ids # {} /\ Resolve(p, ids)
  /\ UNCHANGED <<esi, mongo, redis>>

-----------------------------------------------------------------------------
(* The steps of a page *)

Remaining(p) == {i \in page[p].ids : page[p].resolved[i] = Absent}

\* get_many_cached: one MGET, or nothing on a RedisError and without Redis.
Get(p) ==
  /\ page[p].phase = "get"
  /\ \/ page' = [page EXCEPT ![p].phase = "find", ![p].resolved =
                   [i \in Ids |-> IF i \in page[p].ids THEN redis[i] ELSE Absent]]
     \/ page' = [page EXCEPT ![p].phase = "find"]
  /\ UNCHANGED <<esi, mongo, redis, stored>>

\* Mutant of Find: all that is resolved is cached again, hits included.
FindCacheAll(p) ==
  LET newly_resolved == {i \in Remaining(p) : mongo[i] # Absent}
  IN  /\ page[p].phase = "find"
      /\ page' = [page EXCEPT ![p].phase = "cache",
                   ![p].new = newly_resolved \cup (page[p].ids \ Remaining(p)),
                   ![p].resolved = [i \in Ids |-> IF i \in newly_resolved THEN mongo[i] ELSE @[i]]]
      /\ UNCHANGED <<esi, mongo, redis, stored>>

\* What Redis did not have is looked up in MongoDB.
Find(p) ==
  LET newly_resolved == {i \in Remaining(p) : mongo[i] # Absent}
  IN  /\ page[p].phase = "find"
      /\ page' = [page EXCEPT ![p].phase = "cache", ![p].new = newly_resolved,
                   ![p].resolved = [i \in Ids |-> IF i \in newly_resolved THEN mongo[i] ELSE @[i]]]
      /\ UNCHANGED <<esi, mongo, redis, stored>>

\* set_many_cached: a pipeline that a RedisError can cut anywhere.
Cache(p) ==
  /\ page[p].phase = "cache"
  /\ \E done \in SUBSET page[p].new :
       redis' = [i \in Ids |-> IF i \in done THEN page[p].resolved[i] ELSE redis[i]]
  /\ page' = [page EXCEPT ![p].phase = "fetch", ![p].new = {}]
  /\ UNCHANGED <<esi, mongo, stored>>

\* ESI is asked for one id that is nowhere; no document comes from ESI.
Fetch(p) ==
  /\ page[p].phase = "fetch"
  /\ \E i \in Remaining(p) \ Docs :
       page' = [page EXCEPT ![p].phase = "store", ![p].new = {i}, ![p].resolved[i] = esi[i]]
  /\ UNCHANGED <<esi, mongo, redis, stored>>

\* Mutant of FetchFails: the failed lookup is cached.
FetchFailsCached(p) ==
  /\ page[p].phase = "fetch"
  /\ \E i \in Remaining(p) \ Docs :
       page' = [page EXCEPT ![p].phase = "cache", ![p].new = {i}, ![p].resolved[i] = Failed]
  /\ UNCHANGED <<esi, mongo, redis, stored>>

\* Mutant of FetchFails: the failed lookup is stored.
FetchFailsStored(p) ==
  /\ page[p].phase = "fetch"
  /\ \E i \in Remaining(p) \ Docs :
       page' = [page EXCEPT ![p].phase = "store", ![p].new = {i}, ![p].resolved[i] = Failed]
  /\ UNCHANGED <<esi, mongo, redis, stored>>

\* An HTTP error status, or an answer without a name: None, which is not stored. The
\* system such an answer may name is Finish's.
FetchFails(p) ==
  /\ page[p].phase = "fetch"
  /\ \E i \in Remaining(p) \ Docs : page' = [page EXCEPT ![p].resolved[i] = Failed]
  /\ UNCHANGED <<esi, mongo, redis, stored>>

\* update_one of the answer, with upsert.
Store(p) ==
  /\ page[p].phase = "store"
  /\ mongo' = [i \in Ids |-> IF i \in page[p].new THEN page[p].resolved[i] ELSE mongo[i]]
  /\ page' = [page EXCEPT ![p].phase = "cache"]
  /\ UNCHANGED <<esi, redis, stored>>

\* The systems of the locations the page has resolved, and of the nameless: those
\* ESI gave a system for, but no name.
SystemIds(p, nameless) ==
  {SystemOf[l] : l \in {l \in page[p].ids \cap Locations :
                          page[p].resolved[l] \in Contents \/ l \in nameless}}
    \ {NoSystem}

\* Everything is resolved as far as it can be: the security statuses of the
\* systems are next (resolve_location_info), or the page is rendered.
Finish(p) ==
  /\ page[p].phase = "fetch" /\ Remaining(p) \subseteq Docs
  /\ \E nameless \in SUBSET {i \in page[p].ids : page[p].resolved[i] = Failed} :
       IF SystemIds(p, nameless) # {} THEN Resolve(p, SystemIds(p, nameless)) ELSE Leave(p)
  /\ UNCHANGED <<esi, mongo, redis>>

\* A request without an answer raises httpx.HTTPError, MongoDB may fail too: the
\* page ends with what it has stored so far.
Dies(p) ==
  /\ page[p] # Idle
  /\ Leave(p)
  /\ UNCHANGED <<esi, mongo, redis>>

Step(p) ==
  \/ Get(p) \/ Find(p) \/ Cache(p)
  \/ Fetch(p) \/ FetchFails(p) \/ Store(p)
  \/ Finish(p)

-----------------------------------------------------------------------------
(* Everything else *)

\* A structure is renamed.
Rename(l) ==
  /\ esi[l].version < MaxVersion
  /\ esi' = [esi EXCEPT ![l].version = @ + 1]
  /\ UNCHANGED <<mongo, redis, page, stored>>

\* A migration adds a field to a document (0003, 0004), or a document (0008),
\* while the pods of the release before serve pages.
Migrate(d) ==
  /\ \/ mongo[d] = Absent /\ mongo' = [mongo EXCEPT ![d] = Known(0)]
     \/ /\ mongo[d] # Absent /\ mongo[d].version < MaxVersion
        /\ mongo' = [mongo EXCEPT ![d].version = @ + 1]
  /\ UNCHANGED <<esi, redis, page, stored>>

ExpireKey(i) ==
  /\ redis[i] # Absent
  /\ redis' = [redis EXCEPT ![i] = Absent]
  /\ UNCHANGED <<esi, mongo, page, stored>>

Next ==
  \/ \E p \in Pages : Open(p) \/ Step(p) \/ Dies(p)
  \/ \E l \in Locations : Rename(l)
  \/ \E d \in Docs : Migrate(d)
  \/ \E i \in Ids : ExpireKey(i)

Spec == Init /\ [][Next]_vars

\* Every step of a page is an await the event loop completes; a key that is not
\* set again expires.
FairSpec ==
  /\ Spec
  /\ \A p \in Pages : WF_vars(Step(p))
  /\ \A i \in Ids : WF_vars(ExpireKey(i))

-----------------------------------------------------------------------------
(* Properties *)

\* Type correctness: "only persist successful resolutions" (locations.py:69),
\* a failed lookup is in no store.
TypeOK ==
  /\ esi \in [Locations \cup Systems -> Contents]
  /\ mongo \in [Ids -> Contents \cup {Absent}]
  /\ redis \in [Ids -> Contents \cup {Absent}]
  /\ page \in [Pages -> Busy \cup {Idle}]
  /\ stored \in [Pages -> SUBSET Ids]

\* What MongoDB held when a page began to resolve it, the page shows: whatever
\* other pages failed to look up, however Redis fails or loses its keys, and
\* although this player may not see the structure.
StoredIsShown ==
  \A p \in Pages : page[p] # Idle /\ page[p].phase \in {"cache", "fetch", "store"} =>
    \A i \in stored[p] : page[p].resolved[i] \in Contents

\* Two pages around a renaming can leave the old name in one store and the new
\* one in the other, and a migration leaves old documents in Redis; in the end
\* what Redis holds is what MongoDB holds.
EventuallyAgree ==
  \A i \in Ids : <>[](redis[i] \in {Absent, mongo[i]})

=============================================================================
