-------------------------- MODULE ReadThroughProofs --------------------------
(***************************************************************************)
(* Proofs about ReadThrough, for any ids, pages and number of renamings.   *)
(***************************************************************************)
EXTENDS ReadThrough, TLAPS

\* MongoDB still holds what it held when a page began; what a page took from
\* Redis or MongoDB is no failure, and what it is about to write is known.
PageInv ==
  \A p \in Pages : page[p] # Idle =>
    /\ stored[p] \subseteq page[p].ids
    /\ \A i \in stored[p] : mongo[i] # Absent
    /\ page[p].phase \in {"get", "find"} =>
         \A i \in Ids : page[p].resolved[i] \in Contents \cup {Absent}
    /\ \A i \in page[p].new : page[p].resolved[i] \in Contents
    /\ page[p].phase \in {"get", "find", "fetch"} => page[p].new = {}

IInv == TypeOK /\ PageInv /\ StoredIsShown

-----------------------------------------------------------------------------

LEMMA StatesApart ==
  /\ Absent \notin Contents /\ Failed \notin Contents /\ Absent # Failed
  /\ Idle \notin Busy
<1>1. Absent.state # Failed.state /\ \A v \in Versions : Known(v).state = "known"
  BY DEF Absent, Failed, Known
<1>2. \A c \in Contents : c.state = "known"
  BY <1>1 DEF Contents
<1>3. \A b \in Busy : b.phase # Idle.phase
  BY DEF Busy, Idle
<1> QED
  BY <1>1, <1>2, <1>3 DEF Absent, Failed

LEMMA InitInv == Init => IInv
<1> SUFFICES ASSUME Init PROVE IInv
  OBVIOUS
<1>1. Known(0) \in Contents
  BY BoundIsNat DEF Contents, Versions
<1>2. TypeOK
  BY <1>1 DEF Init, TypeOK, Nothing, Ids
<1>3. PageInv /\ StoredIsShown
  BY DEF Init, PageInv, StoredIsShown
<1> QED
  BY <1>2, <1>3 DEF IInv

-----------------------------------------------------------------------------
(* Steps that begin or end the work of a page *)

LEMMA ResolveInv ==
  ASSUME IInv, NEW p \in Pages, NEW ids \in SUBSET Ids, Resolve(p, ids),
         UNCHANGED <<esi, mongo, redis>>
  PROVE  IInv'
<1> DEFINE b == [phase |-> "get", ids |-> ids, resolved |-> Nothing, new |-> {}]
<1>1. b \in Busy
  BY DEF Busy, Nothing
<1>2. TypeOK'
  BY <1>1 DEF IInv, TypeOK, Resolve
<1>3. PageInv'
  BY DEF IInv, TypeOK, PageInv, Resolve, Nothing
<1>4. StoredIsShown'
  BY DEF IInv, TypeOK, StoredIsShown, Resolve
<1> QED
  BY <1>2, <1>3, <1>4 DEF IInv

LEMMA LeaveInv ==
  ASSUME IInv, NEW p \in Pages, Leave(p), UNCHANGED <<esi, mongo, redis>>
  PROVE  IInv'
<1>1. TypeOK'
  BY DEF IInv, TypeOK, Leave
<1>2. PageInv'
  BY DEF IInv, TypeOK, PageInv, Leave
<1>3. StoredIsShown'
  BY DEF IInv, TypeOK, StoredIsShown, Leave
<1> QED
  BY <1>1, <1>2, <1>3 DEF IInv

-----------------------------------------------------------------------------
(* Steps of a page at work *)

\* A page that is in some phase of its work is busy with a record of its own.
LEMMA AtWork ==
  ASSUME TypeOK, NEW p \in Pages, page[p].phase # "idle"
  PROVE  page[p] \in Busy /\ page[p] # Idle
BY DEF TypeOK, Idle

LEMMA GetInv == ASSUME IInv, NEW p \in Pages, Get(p) PROVE IInv'
<1>1. page[p] \in Busy /\ page[p] # Idle
  BY AtWork DEF IInv, Get
<1>2. \A i \in Ids : redis[i] \in Contents \cup {Absent}
  BY DEF IInv, TypeOK
<1>3. page' \in [Pages -> Busy \cup {Idle}]
  BY <1>1, <1>2 DEF IInv, TypeOK, Get, Busy
<1>4. TypeOK'
  BY <1>3 DEF IInv, TypeOK, Get
<1>5. PageInv'
  BY <1>1, <1>2 DEF IInv, TypeOK, PageInv, Get, Busy
<1>6. StoredIsShown'
  BY <1>1 DEF IInv, TypeOK, StoredIsShown, Get, Busy
<1> QED
  BY <1>4, <1>5, <1>6 DEF IInv

\* What MongoDB held when the page began is in Redis, or found now.
LEMMA FindInv == ASSUME IInv, NEW p \in Pages, Find(p) PROVE IInv'
<1> DEFINE found == {i \in Remaining(p) : mongo[i] # Absent}
           after == [i \in Ids |-> IF i \in found THEN mongo[i] ELSE page[p].resolved[i]]
<1>1. page[p] \in Busy /\ page[p] # Idle
  BY AtWork DEF IInv, Find
<1>2. \A i \in Ids : mongo[i] \in Contents \cup {Absent}
  BY DEF IInv, TypeOK
<1>3. found \subseteq Ids /\ \A i \in found : after[i] \in Contents
  BY <1>1, <1>2 DEF Remaining, Busy
<1>4. after \in [Ids -> Contents \cup {Absent, Failed}]
  BY <1>1, <1>2 DEF Busy
<1>5. /\ page' = [page EXCEPT ![p] = page'[p]]
      /\ page'[p] = [page[p] EXCEPT !.phase = "cache", !.new = found, !.resolved = after]
  BY DEF IInv, TypeOK, Find
<1>6. page'[p] \in Busy /\ page'[p].phase = "cache" /\ page'[p].ids = page[p].ids
        /\ page'[p].new = found /\ page'[p].resolved = after
  BY <1>1, <1>3, <1>4, <1>5 DEF Busy
<1>7. \A i \in stored[p] : after[i] \in Contents
  <2> SUFFICES ASSUME NEW i \in stored[p] PROVE after[i] \in Contents
    OBVIOUS
  <2>1. i \in page[p].ids /\ i \in Ids /\ mongo[i] # Absent
    BY <1>1 DEF IInv, PageInv, Busy
  <2>2. page[p].resolved[i] \in Contents \cup {Absent}
    BY <1>1, <2>1 DEF IInv, PageInv, Find
  <2>3. CASE page[p].resolved[i] = Absent
    BY <1>3, <2>1, <2>3 DEF Remaining
  <2>4. CASE page[p].resolved[i] # Absent
    BY <2>1, <2>2, <2>4 DEF Remaining
  <2> QED
    BY <2>3, <2>4
<1> HIDE DEF found, after
<1>8. TypeOK'
  BY <1>5, <1>6 DEF IInv, TypeOK, Find
<1>9. PageInv'
  <2> SUFFICES ASSUME NEW q \in Pages, page'[q] # Idle
               PROVE  /\ stored[q] \subseteq page'[q].ids
                      /\ \A i \in stored[q] : mongo[i] # Absent
                      /\ page'[q].phase \in {"get", "find"} =>
                           \A i \in Ids : page'[q].resolved[i] \in Contents \cup {Absent}
                      /\ \A i \in page'[q].new : page'[q].resolved[i] \in Contents
                      /\ page'[q].phase \in {"get", "find", "fetch"} => page'[q].new = {}
    BY DEF PageInv, Find
  <2>1. CASE q = p
    BY <1>1, <1>3, <1>6, <2>1 DEF IInv, PageInv
  <2>2. CASE q # p
    BY <1>5, <2>2 DEF IInv, TypeOK, PageInv
  <2> QED
    BY <2>1, <2>2
<1>10. StoredIsShown'
  BY <1>5, <1>6, <1>7 DEF IInv, TypeOK, StoredIsShown, Find
<1> QED
  BY <1>8, <1>9, <1>10 DEF IInv

LEMMA CacheInv == ASSUME IInv, NEW p \in Pages, Cache(p) PROVE IInv'
<1>1. page[p] \in Busy /\ page[p] # Idle
  BY AtWork DEF IInv, Cache
<1>2. \A i \in page[p].new : i \in Ids /\ page[p].resolved[i] \in Contents
  BY <1>1 DEF IInv, PageInv, Busy
<1>3. redis' \in [Ids -> Contents \cup {Absent}]
  BY <1>2 DEF IInv, TypeOK, Cache
<1>4. page' \in [Pages -> Busy \cup {Idle}]
  BY <1>1 DEF IInv, TypeOK, Cache, Busy
<1>5. TypeOK'
  BY <1>3, <1>4 DEF IInv, TypeOK, Cache
<1>6. PageInv'
  BY <1>1 DEF IInv, TypeOK, PageInv, Cache, Busy
<1>7. StoredIsShown'
  BY <1>1 DEF IInv, TypeOK, StoredIsShown, Cache, Busy
<1> QED
  BY <1>5, <1>6, <1>7 DEF IInv

\* A page that asks ESI asks for what it has not: none of it was stored.
LEMMA NotStored ==
  ASSUME IInv, NEW p \in Pages, page[p].phase = "fetch", NEW i \in Remaining(p)
  PROVE  i \notin stored[p] /\ i \in Ids
<1>1. page[p] \in Busy /\ page[p] # Idle
  BY AtWork DEF IInv
<1> QED
  BY <1>1, StatesApart DEF IInv, StoredIsShown, Remaining, Busy

LEMMA FetchInv == ASSUME IInv, NEW p \in Pages, Fetch(p) PROVE IInv'
<1>1. page[p] \in Busy /\ page[p] # Idle
  BY AtWork DEF IInv, Fetch
<1>2. PICK i \in Remaining(p) \ Docs :
        page' = [page EXCEPT ![p].phase = "store", ![p].new = {i}, ![p].resolved[i] = esi[i]]
  BY DEF Fetch
<1>3. i \notin stored[p] /\ i \in Ids
  BY <1>2, NotStored DEF Fetch
<1>4. esi[i] \in Contents
  BY <1>2, <1>3 DEF IInv, TypeOK, Ids
<1>5. page' \in [Pages -> Busy \cup {Idle}]
  BY <1>1, <1>2, <1>3, <1>4 DEF IInv, TypeOK, Busy
<1>6. TypeOK'
  BY <1>5 DEF IInv, TypeOK, Fetch
<1>7. PageInv'
  BY <1>1, <1>2, <1>3, <1>4 DEF IInv, TypeOK, PageInv, Fetch, Busy
<1>8. StoredIsShown'
  BY <1>1, <1>2, <1>3 DEF IInv, TypeOK, StoredIsShown, Fetch, Busy
<1> QED
  BY <1>6, <1>7, <1>8 DEF IInv

LEMMA FetchFailsInv == ASSUME IInv, NEW p \in Pages, FetchFails(p) PROVE IInv'
<1>1. page[p] \in Busy /\ page[p] # Idle
  BY AtWork DEF IInv, FetchFails
<1>2. PICK i \in Remaining(p) \ Docs : page' = [page EXCEPT ![p].resolved[i] = Failed]
  BY DEF FetchFails
<1>3. i \notin stored[p] /\ i \in Ids
  BY <1>2, NotStored DEF FetchFails
<1>4. i \notin page[p].new
  BY <1>1, <1>2, StatesApart DEF IInv, PageInv, Remaining
<1>5. page' \in [Pages -> Busy \cup {Idle}]
  BY <1>1, <1>2, <1>3 DEF IInv, TypeOK, Busy
<1>6. TypeOK'
  BY <1>5 DEF IInv, TypeOK, FetchFails
<1>7. PageInv'
  BY <1>1, <1>2, <1>4 DEF IInv, TypeOK, PageInv, FetchFails, Busy
<1>8. StoredIsShown'
  BY <1>1, <1>2, <1>3 DEF IInv, TypeOK, StoredIsShown, FetchFails, Busy
<1> QED
  BY <1>6, <1>7, <1>8 DEF IInv

LEMMA StoreInv == ASSUME IInv, NEW p \in Pages, Store(p) PROVE IInv'
<1>1. page[p] \in Busy /\ page[p] # Idle
  BY AtWork DEF IInv, Store
<1>2. \A i \in page[p].new : i \in Ids /\ page[p].resolved[i] \in Contents
  BY <1>1 DEF IInv, PageInv, Busy
<1>3. mongo' \in [Ids -> Contents \cup {Absent}]
  BY <1>2 DEF IInv, TypeOK, Store
<1>4. \A i \in Ids : mongo[i] # Absent => mongo'[i] # Absent
  BY <1>2, StatesApart DEF Store
<1>5. page' \in [Pages -> Busy \cup {Idle}]
  BY <1>1 DEF IInv, TypeOK, Store, Busy
<1>6. TypeOK'
  BY <1>3, <1>5 DEF IInv, TypeOK, Store
<1>7. PageInv'
  BY <1>1, <1>4 DEF IInv, TypeOK, PageInv, Store, Busy
<1>8. StoredIsShown'
  BY <1>1 DEF IInv, TypeOK, StoredIsShown, Store, Busy
<1> QED
  BY <1>6, <1>7, <1>8 DEF IInv

-----------------------------------------------------------------------------
(* Every step *)

\* Whoever moves, MongoDB never forgets an id.
LEMMA MigrateInv == ASSUME IInv, NEW d \in Docs, Migrate(d) PROVE IInv'
<1>1. d \in Ids /\ mongo[d] \in Contents \cup {Absent}
  BY DEF IInv, TypeOK, Ids
<1>2. mongo' = [mongo EXCEPT ![d] = mongo'[d]] /\ mongo'[d] \in Contents
  <2>1. CASE mongo[d] = Absent /\ mongo' = [mongo EXCEPT ![d] = Known(0)]
    BY <1>1, <2>1, BoundIsNat DEF IInv, TypeOK, Contents, Versions
  <2>2. CASE /\ mongo[d] # Absent /\ mongo[d].version < MaxVersion
             /\ mongo' = [mongo EXCEPT ![d].version = @ + 1]
    <3>1. PICK v \in Versions : mongo[d] = Known(v)
      BY <1>1, <2>2 DEF Contents
    <3>2. mongo'[d] = Known(v + 1) /\ v + 1 \in Versions
      BY <1>1, <2>2, <3>1, BoundIsNat DEF IInv, TypeOK, Known, Versions
    <3> QED
      BY <1>1, <2>2, <3>2 DEF IInv, TypeOK, Contents
  <2> QED
    BY <2>1, <2>2 DEF Migrate
<1>3. TypeOK'
  BY <1>1, <1>2 DEF IInv, TypeOK, Migrate
<1>4. PageInv'
  BY <1>1, <1>2, StatesApart DEF IInv, TypeOK, PageInv, Migrate
<1>5. StoredIsShown'
  BY DEF IInv, StoredIsShown, Migrate
<1> QED
  BY <1>3, <1>4, <1>5 DEF IInv

LEMMA RenameInv == ASSUME IInv, NEW l \in Locations, Rename(l) PROVE IInv'
<1>1. PICK v \in Versions : esi[l] = Known(v)
  BY DEF IInv, TypeOK, Contents
<1>2. esi'[l] = Known(v + 1) /\ v + 1 \in Versions
  BY <1>1, BoundIsNat DEF IInv, TypeOK, Rename, Known, Versions
<1>3. TypeOK'
  BY <1>2 DEF IInv, TypeOK, Rename, Contents
<1> QED
  BY <1>3 DEF IInv, PageInv, StoredIsShown, Rename

LEMMA ExpireInv == ASSUME IInv, NEW i \in Ids, ExpireKey(i) PROVE IInv'
BY DEF IInv, TypeOK, PageInv, StoredIsShown, ExpireKey

LEMMA OpenInv == ASSUME IInv, NEW p \in Pages, Open(p) PROVE IInv'
<1>1. PICK ids \in SUBSET Ids : Resolve(p, ids)
  BY DEF Open, Ids
<1> QED
  BY <1>1, ResolveInv DEF Open

LEMMA FinishInv == ASSUME IInv, NEW p \in Pages, Finish(p) PROVE IInv'
<1>1. PICK nameless : IF SystemIds(p, nameless) # {} THEN Resolve(p, SystemIds(p, nameless))
                                                      ELSE Leave(p)
  BY DEF Finish
<1>2. SystemIds(p, nameless) \subseteq Ids
  BY SystemsOfLocations DEF SystemIds, Ids
<1> QED
  BY <1>1, <1>2, ResolveInv, LeaveInv DEF Finish

LEMMA NextInv == IInv /\ [Next]_vars => IInv'
<1> SUFFICES ASSUME IInv, [Next]_vars PROVE IInv'
  OBVIOUS
<1>1. CASE \E p \in Pages : Open(p)
  BY <1>1, OpenInv
<1>2. CASE \E p \in Pages : Step(p)
  BY <1>2, GetInv, FindInv, CacheInv, FetchInv, FetchFailsInv, StoreInv, FinishInv DEF Step
<1>3. CASE \E p \in Pages : Dies(p)
  BY <1>3, LeaveInv DEF Dies
<1>4. CASE \E l \in Locations : Rename(l)
  BY <1>4, RenameInv
<1>5. CASE \E d \in Docs : Migrate(d)
  BY <1>5, MigrateInv
<1>6. CASE \E i \in Ids : ExpireKey(i)
  BY <1>6, ExpireInv
<1>7. CASE UNCHANGED vars
  BY <1>7 DEF vars, IInv, TypeOK, PageInv, StoredIsShown
<1> QED
  BY <1>1, <1>2, <1>3, <1>4, <1>5, <1>6, <1>7 DEF Next

-----------------------------------------------------------------------------

\* No failed lookup is ever in MongoDB or Redis, for any ids and pages
\* (locations.py:69, "only persist successful resolutions").
THEOREM TypeCorrect == Spec => []TypeOK
<1>1. IInv => TypeOK
  BY DEF IInv
<1> QED
  BY <1>1, InitInv, NextInv, PTL DEF Spec

\* What MongoDB held when a page began, the page shows: however many pages
\* overlap, whatever fails and whatever expires.
THEOREM StoredShown == Spec => []StoredIsShown
<1>1. IInv => StoredIsShown
  BY DEF IInv
<1> QED
  BY <1>1, InitInv, NextInv, PTL DEF Spec

=============================================================================
