------------------------------ MODULE EsiCache ------------------------------
(***************************************************************************)
(* The lists eve-build keeps of a character and of its corporation: each   *)
(* is fetched from ESI on a miss, stored in a MongoDB collection (the copy *)
(* the settings page counts) and cached in Redis, where it expires         *)
(* (services/esi_cache.py, services/cache.py).  Pages read the lists,      *)
(* /settings/refresh and /settings/clear-data invalidate them              *)
(* (services/character_data.py).  Requests interleave at every await.      *)
(*                                                                         *)
(* One character and its corporation are modelled: lists share nothing     *)
(* across owners.  A version stands for the whole content of a list.       *)
(***************************************************************************)
EXTENDS Naturals, Sequences, FiniteSets

CONSTANTS
  Personal,       \* sequence of the character's lists (_PERSONAL_SOURCES)
  Corp,           \* sequence of the corporation's lists (_CORP_SOURCES)
  Requests,       \* requests that may be in progress at once
  EmptyVersions,  \* the versions of a list that hold no entry
  MaxVersion,     \* bound: changes of a list on ESI
  MaxErrors       \* bound: failed calls and killed requests

Elems(s) == {s[i] : i \in DOMAIN s}
Lists == Elems(Personal) \cup Elems(Corp)
Versions == 0..MaxVersion

ASSUME BoundsAreNat == MaxVersion \in Nat /\ MaxErrors \in Nat
ASSUME EmptyAreVersions == EmptyVersions \subseteq Versions
ASSUME SourcesAreSeqs ==
  /\ Personal \in Seq(Elems(Personal)) /\ Corp \in Seq(Elems(Corp))
  /\ Personal # <<>>
ASSUME RequestsFinite == IsFiniteSet(Requests)

VARIABLES
  esi,     \* the version of each list on ESI
  rows,    \* MongoDB: the versions of each list inserted since its last delete
  redis,   \* Redis: the cached version of each list
  doc,     \* is the character's document stored?
  req,     \* per request: what it has still to do
  errors,  \* failures so far
  floor,   \* history: the version on ESI when a list was last invalidated
  missed,  \* history: lists whose last invalidation met an older fetch in
           \* flight, or did not reach Redis
  crossed  \* history: were a page and a clear in progress at once since the login, or
           \* since before it, if a clear was still in progress then?

vars == <<esi, rows, redis, doc, req, errors, floor, missed, crossed>>

\* fits: was it cached by code whose entry type has the same fields?
NoEntry == [held |-> FALSE]
Entries == [held : {TRUE}, version : Versions, fits : BOOLEAN]
NoRows == <<>>

Idle == [phase |-> "idle"]
Busy == [phase : {"get", "fetch", "delete", "insert", "set", "rows", "key", "forget"},
         kind : {"page", "refresh", "clear"}, left : Seq(Lists), version : Versions]

Starting(kind, phase, lists) ==
  [phase |-> phase, kind |-> kind, left |-> lists, version |-> 0]

Current(q) == Head(req[q].left)

Init ==
  /\ esi = [l \in Lists |-> 0]
  /\ rows = [l \in Lists |-> NoRows]
  /\ redis = [l \in Lists |-> NoEntry]
  /\ doc = FALSE
  /\ req = [q \in Requests |-> Idle]
  /\ errors = 0
  /\ floor = [l \in Lists |-> 0]
  /\ missed = {}
  /\ crossed = FALSE

Error == errors < MaxErrors /\ errors' = errors + 1

-----------------------------------------------------------------------------
(* Requests arrive; each has loaded the character's document, and corp says
   whether it was connected. *)

\* Mutant of Open: the session alone tells that the character exists.
OpenUnguarded(q, r) ==
  /\ req[q] = Idle
  /\ req' = [req EXCEPT ![q] = r]
  /\ crossed' = (crossed \/ \E p \in Requests :
                              req[p] # Idle /\ {req[p].kind, r.kind} = {"page", "clear"})
  /\ UNCHANGED <<esi, rows, redis, doc, errors, floor, missed>>

Open(q, r) ==
  /\ doc
  /\ req[q] = Idle
  /\ req' = [req EXCEPT ![q] = r]
  /\ crossed' = (crossed \/ \E p \in Requests :
                              req[p] # Idle /\ {req[p].kind, r.kind} = {"page", "clear"})
  /\ UNCHANGED <<esi, rows, redis, doc, errors, floor, missed>>

\* get_merged_*: the personal list, then the corporation's if it is connected.
OpenPage(q, i, corp) ==
  Open(q, Starting("page", "get",
                   <<Personal[i]>> \o IF corp /\ i \in DOMAIN Corp THEN <<Corp[i]>> ELSE <<>>))

\* /settings shows the status of every corporation list.
OpenSettings(q) == Len(Corp) > 0 /\ Open(q, Starting("page", "get", Corp))

\* refresh_character_data
OpenRefresh(q, corp) ==
  Open(q, Starting("refresh", "rows", Personal \o IF corp THEN Corp ELSE <<>>))

\* clear_character_data: never the lists of the corporation.
OpenClear(q) == Open(q, Starting("clear", "rows", Personal))

\* A login stores the document (CharacterAuth).
LogIn ==
  /\ ~doc
  /\ doc' = TRUE
  /\ crossed' = (crossed /\ \E q \in Requests : req[q] # Idle /\ req[q].kind = "clear")
  /\ UNCHANGED <<esi, rows, redis, req, errors, floor, missed>>

-----------------------------------------------------------------------------
(* cached_character_list and cached_corporation_list *)

\* The list is there: on to the next one, or the page is rendered.
Served(q) ==
  LET r == req[q]
  IN  req' = [req EXCEPT ![q] =
                IF Len(r.left) = 1 THEN Idle
                ELSE [r EXCEPT !.phase = "get", !.left = Tail(r.left), !.version = 0]]

Usable(l) == redis[l].held /\ redis[l].fits

Hit(q) ==
  /\ req[q].phase = "get"
  /\ Usable(Current(q))
  /\ Served(q)
  /\ UNCHANGED <<esi, rows, redis, doc, errors, floor, missed, crossed>>

\* Nothing cached, entries that do not fit the entry type, or a RedisError,
\* which get_many_cached turns into a miss.
Miss(q) ==
  /\ req[q].phase = "get"
  /\ IF Usable(Current(q)) THEN Error ELSE UNCHANGED errors
  /\ req' = [req EXCEPT ![q].phase = "fetch"]
  /\ UNCHANGED <<esi, rows, redis, doc, floor, missed, crossed>>

\* Mutant of Fetch: like a reference cache, it takes what MongoDB has before it
\* asks ESI.
FetchStored(q) ==
  LET l == Current(q)
  IN  /\ req[q].phase = "fetch"
      /\ req' = [req EXCEPT ![q].phase = "delete",
                            ![q].version = IF rows[l] = NoRows THEN esi[l] ELSE Head(rows[l])]
      /\ UNCHANGED <<esi, rows, redis, doc, errors, floor, missed, crossed>>

\* The pages of the list are read as at one moment (Assets has them one by one).
Fetch(q) ==
  /\ req[q].phase = "fetch"
  /\ req' = [req EXCEPT ![q].phase = "delete", ![q].version = esi[Current(q)]]
  /\ UNCHANGED <<esi, rows, redis, doc, errors, floor, missed, crossed>>

\* _corp_list_or_none: 401 or 403 of a corporation list, which is left out.
Forbidden(q) ==
  /\ req[q].phase = "fetch"
  /\ Current(q) \in Elems(Corp)
  /\ Served(q)
  /\ UNCHANGED <<esi, rows, redis, doc, errors, floor, missed, crossed>>

\* Mutant of DeleteRows: an empty answer is inserted too.
DeleteRowsInsertEmpty(q) ==
  /\ req[q].phase = "delete"
  /\ rows' = [rows EXCEPT ![Current(q)] = NoRows]
  /\ req' = [req EXCEPT ![q].phase = "insert"]
  /\ UNCHANGED <<esi, redis, doc, errors, floor, missed, crossed>>

\* Mutant of DeleteRows: the old rows are deleted only when there are new ones
\* and nothing is cached.
DeleteRowsUnlessCached(q) ==
  /\ req[q].phase = "delete"
  /\ rows' = [rows EXCEPT ![Current(q)] = IF redis[Current(q)].held THEN @ ELSE NoRows]
  /\ req' = [req EXCEPT ![q].phase = IF req[q].version \in EmptyVersions
                                        THEN "set" ELSE "insert"]
  /\ UNCHANGED <<esi, redis, doc, errors, floor, missed, crossed>>

DeleteRows(q) ==
  /\ req[q].phase = "delete"
  /\ rows' = [rows EXCEPT ![Current(q)] = NoRows]
  /\ req' = [req EXCEPT ![q].phase = IF req[q].version \in EmptyVersions
                                        THEN "set" ELSE "insert"]
  /\ UNCHANGED <<esi, redis, doc, errors, floor, missed, crossed>>

InsertRows(q) ==
  /\ req[q].phase = "insert"
  /\ rows' = [rows EXCEPT ![Current(q)] = Append(@, req[q].version)]
  /\ req' = [req EXCEPT ![q].phase = "set"]
  /\ UNCHANGED <<esi, redis, doc, errors, floor, missed, crossed>>

SetCached(q) ==
  /\ req[q].phase = "set"
  /\ redis' = [redis EXCEPT ![Current(q)] =
                 [held |-> TRUE, version |-> req[q].version, fits |-> TRUE]]
  /\ Served(q)
  /\ UNCHANGED <<esi, rows, doc, errors, floor, missed, crossed>>

\* A RedisError is swallowed.
SetFails(q) ==
  /\ req[q].phase = "set"
  /\ Error
  /\ Served(q)
  /\ UNCHANGED <<esi, rows, redis, doc, floor, missed, crossed>>

-----------------------------------------------------------------------------
(* invalidate_character_list and invalidate_corporation_list *)

\* Mutant of InvalidateRows: what is not cached is taken for not stored.
InvalidateRowsIfCached(q) ==
  /\ req[q].phase = "rows"
  /\ rows' = [rows EXCEPT ![Current(q)] = IF redis[Current(q)].held THEN NoRows ELSE @]
  /\ req' = [req EXCEPT ![q].phase = "key"]
  /\ UNCHANGED <<esi, redis, doc, errors, floor, missed, crossed>>

InvalidateRows(q) ==
  /\ req[q].phase = "rows"
  /\ rows' = [rows EXCEPT ![Current(q)] = NoRows]
  /\ req' = [req EXCEPT ![q].phase = "key"]
  /\ UNCHANGED <<esi, redis, doc, errors, floor, missed, crossed>>

\* The next list, the end of a refresh, or the document of a cleared character.
Invalidated(q) ==
  LET r == req[q]
  IN  req' = [req EXCEPT ![q] =
                IF Len(r.left) > 1 THEN [r EXCEPT !.phase = "rows", !.left = Tail(r.left)]
                ELSE IF r.kind = "clear" THEN [r EXCEPT !.phase = "forget"]
                ELSE Idle]

\* Request p has fetched list l and not cached it yet.
Fetched(p, l) == req[p].phase \in {"delete", "insert", "set"} /\ Current(p) = l

\* Mutant of InvalidateKey: the key of a corporation list is not deleted.
InvalidatePersonalKey(q) ==
  LET l == Current(q)
  IN  /\ req[q].phase = "key"
      /\ redis' = [redis EXCEPT ![l] = IF l \in Elems(Corp) THEN @ ELSE NoEntry]
      /\ floor' = [floor EXCEPT ![l] = esi[l]]
      /\ missed' = IF \E p \in Requests : Fetched(p, l) /\ req[p].version < esi[l]
                   THEN missed \cup {l} ELSE missed \ {l}
      /\ Invalidated(q)
      /\ UNCHANGED <<esi, rows, doc, errors, crossed>>

InvalidateKey(q) ==
  LET l == Current(q)
  IN  /\ req[q].phase = "key"
      /\ redis' = [redis EXCEPT ![l] = NoEntry]
      /\ floor' = [floor EXCEPT ![l] = esi[l]]
      /\ missed' = IF \E p \in Requests : Fetched(p, l) /\ req[p].version < esi[l]
                   THEN missed \cup {l} ELSE missed \ {l}
      /\ Invalidated(q)
      /\ UNCHANGED <<esi, rows, doc, errors, crossed>>

\* A RedisError is swallowed: the cached list stays.
InvalidateKeyFails(q) ==
  LET l == Current(q)
  IN  /\ req[q].phase = "key"
      /\ Error
      /\ floor' = [floor EXCEPT ![l] = esi[l]]
      /\ missed' = missed \cup {l}
      /\ Invalidated(q)
      /\ UNCHANGED <<esi, rows, redis, doc, crossed>>

\* delete_one of the character's document.
Forget(q) ==
  /\ req[q].phase = "forget"
  /\ doc' = FALSE
  /\ req' = [req EXCEPT ![q] = Idle]
  /\ UNCHANGED <<esi, rows, redis, errors, floor, missed, crossed>>

\* ESI or MongoDB raises, or the pod is killed.
Dies(q) ==
  /\ req[q] # Idle
  /\ Error
  /\ req' = [req EXCEPT ![q] = Idle]
  /\ UNCHANGED <<esi, rows, redis, doc, floor, missed, crossed>>

-----------------------------------------------------------------------------
(* ESI, Redis and rollouts *)

EsiChanges(l) ==
  /\ esi[l] < MaxVersion
  /\ esi' = [esi EXCEPT ![l] = @ + 1]
  /\ UNCHANGED <<rows, redis, doc, req, errors, floor, missed, crossed>>

ExpireKey(l) ==
  /\ redis[l].held
  /\ redis' = [redis EXCEPT ![l] = NoEntry]
  /\ UNCHANGED <<esi, rows, doc, req, errors, floor, missed, crossed>>

\* A release changes the fields of the entries: what is cached no longer fits.
Release ==
  /\ \E l \in Lists : Usable(l)
  /\ redis' = [l \in Lists |-> IF redis[l].held THEN [redis[l] EXCEPT !.fits = FALSE]
                               ELSE NoEntry]
  /\ UNCHANGED <<esi, rows, doc, req, errors, floor, missed, crossed>>

Arrive(q) ==
  \/ \E corp \in BOOLEAN :
       \/ \E i \in DOMAIN Personal : OpenPage(q, i, corp)
       \/ OpenRefresh(q, corp)
  \/ OpenSettings(q)
  \/ OpenClear(q)

CachedList(q) ==
  \/ Hit(q) \/ Miss(q) \/ Fetch(q) \/ Forbidden(q)
  \/ DeleteRows(q) \/ InsertRows(q) \/ SetCached(q) \/ SetFails(q)

Invalidate(q) ==
  \/ InvalidateRows(q) \/ InvalidateKey(q) \/ InvalidateKeyFails(q) \/ Forget(q)

Step(q) == CachedList(q) \/ Invalidate(q)

Next ==
  \/ LogIn \/ Release
  \/ \E l \in Lists : EsiChanges(l) \/ ExpireKey(l)
  \/ \E q \in Requests : Arrive(q) \/ Step(q) \/ Dies(q)

Spec == Init /\ [][Next]_vars

(***************************************************************************)
(* Fairness: a request in progress goes on to its next await, and Redis    *)
(* drops a key when the time it was set with (ex=ttl_seconds) is over.     *)
(* Nobody has to open a page, and ESI need not change.                     *)
(***************************************************************************)
Fairness ==
  /\ \A q \in Requests : WF_vars(Step(q))
  /\ \A l \in Lists : WF_vars(ExpireKey(l))

FairSpec == Spec /\ Fairness

-----------------------------------------------------------------------------
(* Properties *)

\* Type correctness; a busy request has a list in its hand.
TypeOK ==
  /\ esi \in [Lists -> Versions]
  /\ rows \in [Lists -> Seq(Versions)]
  /\ redis \in [Lists -> Entries \cup {NoEntry}]
  /\ doc \in BOOLEAN
  /\ req \in [Requests -> Busy \cup {Idle}]
  /\ errors \in 0..MaxErrors
  /\ floor \in [Lists -> Versions]
  /\ missed \subseteq Lists
  /\ crossed \in BOOLEAN
  /\ \A q \in Requests :
       /\ req[q] # Idle => req[q].left # <<>>
       /\ req[q].phase = "insert" => req[q].version \notin EmptyVersions

\* delete_many and insert_many are two calls: misses that overlap leave a list
\* several times in its collection, but never more often than requests overlap.
CopiesBounded == \A l \in Lists : Len(rows[l]) <= Cardinality(Requests)

\* "Invalidates cached data so the next page view re-fetches fresh data from ESI"
\* (refresh_character_data): what Redis holds is at least as new as the list was
\* on ESI when it was last invalidated, except for the two ways the code misses it:
\* a fetch of an older version in flight, and a Redis that did not answer the delete.
RefreshIsSeenUnlessMissed ==
  \A l \in Lists \ missed : redis[l].held => redis[l].version >= floor[l]

\* A list that was cached too old, by a fetch that crossed an invalidation or a
\* delete Redis did not answer, is not carried on from one fetch to the next: once
\* ESI stands still, only what ESI has stays cached.
StaleGoes == <>[](\A l \in Lists : redis[l].held => redis[l].version = esi[l])

\* "Deletes everything eve-build has stored about this character"
\* (clear_character_data): with the document gone and no request in progress,
\* MongoDB holds no row of its lists and Redis none of them, except for the two ways
\* the code leaves one: a page in progress during the clear, and, for Redis alone,
\* a delete it did not answer.
ClearedIsGoneUnlessCrossed ==
  ~doc /\ ~crossed /\ (\A q \in Requests : req[q] = Idle) =>
    \A l \in Elems(Personal) : rows[l] = NoRows /\ (redis[l].held => l \in missed)

\* What those leave in Redis goes too, if the character does not come back: a page
\* that crossed the clear ends, and no other is opened for a deleted document.
ClearedIsForgotten ==
  <>[]~doc => <>[](\A l \in Elems(Personal) : ~redis[l].held)

=============================================================================
