--------------------------- MODULE EsiCacheProofs ---------------------------
(***************************************************************************)
(* Proofs about EsiCache, for any lists, requests, versions and faults.    *)
(***************************************************************************)
EXTENDS EsiCache, FiniteSetTheorems, SequenceTheorems, TLAPS

PagePhases == {"get", "fetch", "delete", "insert", "set"}

-----------------------------------------------------------------------------
(* Type correctness *)

\* The lists of a request are one of these.
LEMMA SourceLists ==
  /\ Personal \in Seq(Lists) /\ Personal # <<>> /\ Corp \in Seq(Lists)
  /\ \A corp \in BOOLEAN :
       /\ Personal \o (IF corp THEN Corp ELSE <<>>) \in Seq(Lists)
       /\ Personal \o (IF corp THEN Corp ELSE <<>>) # <<>>
       /\ \A i \in DOMAIN Personal :
            LET left == <<Personal[i]>> \o (IF corp /\ i \in DOMAIN Corp THEN <<Corp[i]>> ELSE <<>>)
            IN  left \in Seq(Lists) /\ left # <<>>
<1>1. Personal \in Seq(Lists) /\ Corp \in Seq(Lists) /\ Personal # <<>>
  BY SourcesAreSeqs, SeqMonotonic DEF Lists
<1>2. \A i \in DOMAIN Personal : Personal[i] \in Lists
  BY <1>1
<1>3. \A i \in DOMAIN Corp : Corp[i] \in Lists
  BY <1>1
<1> QED
  BY <1>1, <1>2, <1>3

\* The part of TypeOK about the requests.
ReqType ==
  /\ req \in [Requests -> Busy \cup {Idle}]
  /\ \A q \in Requests :
       /\ req[q] # Idle => req[q].left # <<>>
       /\ req[q].phase = "insert" => req[q].version \notin EmptyVersions

LEMMA NotEmpty == ASSUME NEW s, Len(s) # 0 PROVE s # <<>>
<1>1. Len(<<>>) = 0
  OBVIOUS
<1> QED
  BY <1>1

\* A request that is at work has a list in its hand.
LEMMA AtWork ==
  ASSUME TypeOK, NEW q \in Requests, req[q] # Idle
  PROVE  /\ req[q] \in Busy
         /\ req[q].left \in Seq(Lists) /\ req[q].left # <<>>
         /\ Current(q) \in Lists
         /\ Len(req[q].left) \in Nat
         /\ Tail(req[q].left) \in Seq(Lists)
         /\ Len(req[q].left) # 1 => Tail(req[q].left) # <<>>
<1>1. req[q] \in Busy /\ req[q].left # <<>>
  BY DEF TypeOK
<1>2. req[q].left \in Seq(Lists)
  BY <1>1 DEF Busy
<1>3. /\ Head(req[q].left) \in Lists /\ Tail(req[q].left) \in Seq(Lists)
      /\ Len(Tail(req[q].left)) = Len(req[q].left) - 1 /\ Len(req[q].left) \in Nat
  BY <1>1, <1>2, HeadTailProperties, LenProperties
<1>4. Len(req[q].left) # 1 => Len(Tail(req[q].left)) # 0
  BY <1>3
<1>5. Len(req[q].left) # 1 => Tail(req[q].left) # <<>>
  BY <1>4, NotEmpty
<1> QED
  BY <1>1, <1>2, <1>3, <1>5 DEF Current

LEMMA IdleApart ==
  /\ Idle \notin Busy /\ NoEntry \notin Entries
  /\ Idle.phase = "idle" /\ NoEntry.held = FALSE /\ NoRows \in Seq(Versions)
<1>1. \A b \in Busy : b.phase # Idle.phase
  BY DEF Busy, Idle
<1>2. \A e \in Entries : e.held # NoEntry.held
  BY DEF Entries, NoEntry
<1>3. NoRows \in Seq(Versions)
  BY EmptySeq DEF NoRows
<1> QED
  BY <1>1, <1>2, <1>3 DEF Idle, NoEntry

\* The request that starts is of its type.
LEMMA StartingType ==
  ASSUME NEW kind \in {"page", "refresh", "clear"}, NEW phase \in {"get", "rows"},
         NEW lists \in Seq(Lists)
  PROVE  Starting(kind, phase, lists) \in Busy
BY BoundsAreNat DEF Starting, Busy, Versions

\* What is left of TypeOK once the types of req' and errors' are known.
LEMMA OpenType ==
  ASSUME TypeOK, NEW q \in Requests, NEW r \in Busy, r.left # <<>>, r.phase # "insert", Open(q, r)
  PROVE  TypeOK'
BY DEF TypeOK, Open

\* What Served and Invalidated make of a request.
LEMMA ServedStep ==
  ASSUME NEW q \in Requests, req[q] \in Busy, Served(q)
  PROVE  \E r : /\ req' = [req EXCEPT ![q] = r]
                /\ \/ r = Idle
                   \/ /\ r.phase = "get" /\ r.kind = req[q].kind
                      /\ r.left = Tail(req[q].left)
<1> DEFINE turned == [req[q] EXCEPT !.phase = "get", !.left = Tail(req[q].left)]
           next == [turned EXCEPT !.version = 0]
<1>1. /\ DOMAIN turned = {"phase", "kind", "left", "version"} /\ turned.phase = "get"
      /\ turned.kind = req[q].kind /\ turned.left = Tail(req[q].left)
  BY DEF Busy
<1>2. req' = [req EXCEPT ![q] = IF Len(req[q].left) = 1 THEN Idle ELSE next]
  BY DEF Served
<1> HIDE DEF turned
<1>3. next.phase = "get" /\ next.kind = req[q].kind /\ next.left = Tail(req[q].left)
  BY <1>1
<1> HIDE DEF next
<1> QED
  BY <1>2, <1>3

LEMMA InvalidatedStep ==
  ASSUME NEW q \in Requests, req[q] \in Busy, Invalidated(q)
  PROVE  \E r : /\ req' = [req EXCEPT ![q] = r]
                /\ \/ r = Idle /\ req[q].kind # "clear"
                   \/ /\ r.phase = "rows" /\ r.kind = req[q].kind
                      /\ r.left = Tail(req[q].left) /\ Len(req[q].left) > 1
                   \/ /\ r.phase = "forget" /\ r.kind = "clear" /\ req[q].kind = "clear"
                      /\ r.left = req[q].left /\ ~(Len(req[q].left) > 1)
<1> DEFINE next == [req[q] EXCEPT !.phase = "rows", !.left = Tail(req[q].left)]
           last == [req[q] EXCEPT !.phase = "forget"]
<1>1. /\ next.phase = "rows" /\ next.kind = req[q].kind /\ next.left = Tail(req[q].left)
      /\ last.phase = "forget" /\ last.kind = req[q].kind /\ last.left = req[q].left
  BY DEF Busy
<1>2. req' = [req EXCEPT ![q] = IF Len(req[q].left) > 1 THEN next
                               ELSE IF req[q].kind = "clear" THEN last ELSE Idle]
  BY DEF Invalidated
<1> HIDE DEF next, last
<1> QED
  BY <1>1, <1>2

\* The other steps of a request that keep its list.
Keeps(q, r) == r.kind = req[q].kind /\ r.left = req[q].left

LEMMA MissStep ==
  ASSUME NEW q \in Requests, req[q] \in Busy, Miss(q)
  PROVE  \E r : req' = [req EXCEPT ![q] = r] /\ Keeps(q, r) /\ r.phase = "fetch"
<1> DEFINE r == [req[q] EXCEPT !.phase = "fetch"]
<1>1. req' = [req EXCEPT ![q] = r]
  BY DEF Miss
<1>2. r.kind = req[q].kind /\ r.left = req[q].left /\ r.phase = "fetch" /\ r.version = req[q].version
  BY DEF Busy
<1> HIDE DEF r
<1> QED
  BY <1>1, <1>2 DEF Keeps

LEMMA FetchStep ==
  ASSUME NEW q \in Requests, req[q] \in Busy, Fetch(q)
  PROVE  \E r : /\ req' = [req EXCEPT ![q] = r] /\ Keeps(q, r)
                /\ r.phase = "delete" /\ r.version = esi[Current(q)]
<1> DEFINE r == [req[q] EXCEPT !.phase = "delete", !.version = esi[Current(q)]]
<1>1. req' = [req EXCEPT ![q] = r]
  BY DEF Fetch
<1>2. r.kind = req[q].kind /\ r.left = req[q].left /\ r.phase = "delete" /\ r.version = esi[Current(q)]
  BY DEF Busy
<1> HIDE DEF r
<1> QED
  BY <1>1, <1>2 DEF Keeps

LEMMA DeleteRowsStep ==
  ASSUME NEW q \in Requests, req[q] \in Busy, DeleteRows(q)
  PROVE  \E r : /\ req' = [req EXCEPT ![q] = r] /\ Keeps(q, r)
                /\ r.phase \in {"insert", "set"} /\ r.version = req[q].version
<1> DEFINE r == [req[q] EXCEPT !.phase = IF req[q].version \in EmptyVersions THEN "set" ELSE "insert"]
<1>1. req' = [req EXCEPT ![q] = r]
  BY DEF DeleteRows
<1>2. r.kind = req[q].kind /\ r.left = req[q].left /\ r.phase \in {"insert", "set"} /\ r.version = req[q].version
  BY DEF Busy
<1> HIDE DEF r
<1> QED
  BY <1>1, <1>2 DEF Keeps

LEMMA InsertRowsStep ==
  ASSUME NEW q \in Requests, req[q] \in Busy, InsertRows(q)
  PROVE  \E r : /\ req' = [req EXCEPT ![q] = r] /\ Keeps(q, r)
                /\ r.phase = "set" /\ r.version = req[q].version
<1> DEFINE r == [req[q] EXCEPT !.phase = "set"]
<1>1. req' = [req EXCEPT ![q] = r]
  BY DEF InsertRows
<1>2. r.kind = req[q].kind /\ r.left = req[q].left /\ r.phase = "set" /\ r.version = req[q].version
  BY DEF Busy
<1> HIDE DEF r
<1> QED
  BY <1>1, <1>2 DEF Keeps

LEMMA InvalidateRowsStep ==
  ASSUME NEW q \in Requests, req[q] \in Busy, InvalidateRows(q)
  PROVE  \E r : req' = [req EXCEPT ![q] = r] /\ Keeps(q, r) /\ r.phase = "key"
<1> DEFINE r == [req[q] EXCEPT !.phase = "key"]
<1>1. req' = [req EXCEPT ![q] = r]
  BY DEF InvalidateRows
<1>2. r.kind = req[q].kind /\ r.left = req[q].left /\ r.phase = "key" /\ r.version = req[q].version
  BY DEF Busy
<1> HIDE DEF r
<1> QED
  BY <1>1, <1>2 DEF Keeps

LEMMA ServedType ==
  ASSUME TypeOK, NEW q \in Requests, req[q] # Idle, Served(q)
  PROVE  ReqType'
<1>1. /\ req[q] \in Busy /\ Tail(req[q].left) \in Seq(Lists)
      /\ Len(req[q].left) \in Nat /\ (Len(req[q].left) # 1 => Tail(req[q].left) # <<>>)
  BY AtWork
<1> DEFINE turned == [req[q] EXCEPT !.phase = "get", !.left = Tail(req[q].left)]
           next == [turned EXCEPT !.version = 0]
<1>a. turned \in Busy /\ turned.left = Tail(req[q].left) /\ turned.phase = "get"
  BY <1>1 DEF Busy
<1> HIDE DEF turned
<1>2. next \in Busy /\ next.left = Tail(req[q].left) /\ next.phase = "get"
  BY <1>a, BoundsAreNat DEF Busy, Versions
<1>3. req' = [req EXCEPT ![q] = IF Len(req[q].left) = 1 THEN Idle ELSE next]
  BY DEF Served, turned
<1> HIDE DEF next
<1> QED
  BY <1>1, <1>2, <1>3, IdleApart DEF TypeOK, ReqType

LEMMA InvalidatedType ==
  ASSUME TypeOK, NEW q \in Requests, req[q] # Idle, Invalidated(q)
  PROVE  ReqType'
<1>1. /\ req[q] \in Busy /\ Tail(req[q].left) \in Seq(Lists) /\ req[q].left # <<>>
      /\ Len(req[q].left) \in Nat /\ (Len(req[q].left) # 1 => Tail(req[q].left) # <<>>)
  BY AtWork
<1> DEFINE next == [req[q] EXCEPT !.phase = "rows", !.left = Tail(req[q].left)]
           last == [req[q] EXCEPT !.phase = "forget"]
<1>2. /\ next \in Busy /\ next.left = Tail(req[q].left) /\ next.phase = "rows"
      /\ last \in Busy /\ last.left = req[q].left /\ last.phase = "forget"
  BY <1>1 DEF Busy
<1>3. req' = [req EXCEPT ![q] = IF Len(req[q].left) > 1 THEN next
                               ELSE IF req[q].kind = "clear" THEN last ELSE Idle]
  BY DEF Invalidated
<1>4. Len(req[q].left) > 1 => Len(req[q].left) # 1
  <2>1. \A n \in Nat : n > 1 => n # 1
    OBVIOUS
  <2> QED
    BY <1>1, <2>1, Zenon
<1> HIDE DEF next, last
<1> DEFINE Fine(r) == r = Idle \/ (r \in Busy /\ r.left # <<>> /\ r.phase # "insert")
<1>5. Fine(last) /\ Fine(Idle) /\ (Len(req[q].left) > 1 => Fine(next))
  BY <1>1, <1>2, <1>4
<1>6. Fine(req'[q])
  <2> HIDE DEF Fine
  <2> QED
    BY <1>3, <1>5 DEF TypeOK
<1>7. \A p \in Requests : p # q => req'[p] = req[p]
  BY <1>3 DEF TypeOK
<1>8. DOMAIN req' = Requests /\ req' = [p \in Requests |-> req'[p]]
  BY <1>3 DEF TypeOK
<1> QED
  BY <1>6, <1>7, <1>8, IdleApart DEF TypeOK, ReqType

\* Another phase of the request, which keeps its list.
LEMMA PhaseType ==
  ASSUME TypeOK, NEW q \in Requests, req[q] # Idle,
         NEW phase \in {"fetch", "delete", "insert", "set", "key"}, NEW version \in Versions,
         phase = "insert" => version \notin EmptyVersions,
         req' = [req EXCEPT ![q] = [req[q] EXCEPT !.phase = phase, !.version = version]]
  PROVE  ReqType'
<1> DEFINE next == [req[q] EXCEPT !.phase = phase, !.version = version]
<1>1. req[q] \in Busy /\ req[q].left # <<>>
  BY AtWork
<1>2. /\ next \in Busy /\ next.left = req[q].left
      /\ next.phase = phase /\ next.version = version
  BY <1>1 DEF Busy
<1> HIDE DEF next
<1>3. req' = [req EXCEPT ![q] = next]
  BY DEF next
<1> QED
  BY <1>1, <1>2, <1>3 DEF TypeOK, ReqType

\* What a request that arrives is: a page, a refresh, or a clear of the personal lists.
Arrival(kind, phase, lists) ==
  \/ kind = "page" /\ phase = "get"
  \/ kind = "refresh" /\ phase = "rows"
  \/ kind = "clear" /\ phase = "rows" /\ lists = Personal

LEMMA ArriveOpens ==
  ASSUME NEW q \in Requests, Arrive(q)
  PROVE  \E kind, phase, lists : Arrival(kind, phase, lists) /\ Open(q, Starting(kind, phase, lists))
<1>1. ASSUME NEW corp \in BOOLEAN, NEW i \in DOMAIN Personal, OpenPage(q, i, corp)
      PROVE  \E lists : Open(q, Starting("page", "get", lists))
  BY <1>1 DEF OpenPage
<1>2. ASSUME NEW corp \in BOOLEAN, OpenRefresh(q, corp)
      PROVE  \E lists : Open(q, Starting("refresh", "rows", lists))
  BY <1>2 DEF OpenRefresh
<1>3. OpenSettings(q) => \E lists : Open(q, Starting("page", "get", lists))
  BY DEF OpenSettings
<1>4. OpenClear(q) => Open(q, Starting("clear", "rows", Personal))
  BY DEF OpenClear
<1>5. \/ \E lists : Open(q, Starting("page", "get", lists))
      \/ \E lists : Open(q, Starting("refresh", "rows", lists))
      \/ Open(q, Starting("clear", "rows", Personal))
  BY <1>1, <1>2, <1>3, <1>4 DEF Arrive
<1> QED
  BY <1>5, Zenon DEF Arrival

LEMMA ArriveType == ASSUME TypeOK, NEW q \in Requests, Arrive(q) PROVE TypeOK'
<1>1. ASSUME NEW corp \in BOOLEAN, NEW i \in DOMAIN Personal, OpenPage(q, i, corp) PROVE TypeOK'
  <2> DEFINE left == <<Personal[i]>> \o (IF corp /\ i \in DOMAIN Corp THEN <<Corp[i]>> ELSE <<>>)
             r == Starting("page", "get", left)
  <2>1. left \in Seq(Lists) /\ left # <<>>
    BY SourceLists
  <2> HIDE DEF left
  <2>2. r \in Busy /\ r.left # <<>> /\ r.phase # "insert"
    BY <2>1, StartingType DEF Starting
  <2>3. Open(q, r)
    BY <1>1 DEF OpenPage, left
  <2> HIDE DEF r
  <2> QED
    BY <2>2, <2>3, OpenType
<1>2. ASSUME NEW corp \in BOOLEAN, OpenRefresh(q, corp) PROVE TypeOK'
  <2> DEFINE left == Personal \o (IF corp THEN Corp ELSE <<>>)
             r == Starting("refresh", "rows", left)
  <2>1. left \in Seq(Lists) /\ left # <<>>
    BY SourceLists
  <2> HIDE DEF left
  <2>2. r \in Busy /\ r.left # <<>> /\ r.phase # "insert"
    BY <2>1, StartingType DEF Starting
  <2>3. Open(q, r)
    BY <1>2 DEF OpenRefresh, left
  <2> HIDE DEF r
  <2> QED
    BY <2>2, <2>3, OpenType
<1>3. ASSUME OpenSettings(q) PROVE TypeOK'
  <2> DEFINE r == Starting("page", "get", Corp)
  <2>1. r \in Busy /\ r.left # <<>> /\ r.phase # "insert"
    BY <1>3, SourceLists, StartingType, NotEmpty DEF Starting, OpenSettings
  <2>2. Open(q, r)
    BY <1>3 DEF OpenSettings
  <2> HIDE DEF r
  <2> QED
    BY <2>1, <2>2, OpenType
<1>4. ASSUME OpenClear(q) PROVE TypeOK'
  <2> DEFINE r == Starting("clear", "rows", Personal)
  <2>1. r \in Busy /\ r.left # <<>> /\ r.phase # "insert"
    BY SourceLists, StartingType DEF Starting
  <2>2. Open(q, r)
    BY <1>4 DEF OpenClear
  <2> HIDE DEF r
  <2> QED
    BY <2>1, <2>2, OpenType
<1> QED
  BY <1>1, <1>2, <1>3, <1>4 DEF Arrive

LEMMA CachedListType == ASSUME TypeOK, NEW q \in Requests, CachedList(q) PROVE TypeOK'
<1> DEFINE r == req[q]
<1>1. r # Idle
  BY DEF CachedList, Hit, Miss, Fetch, Forbidden, DeleteRows, InsertRows, SetCached, SetFails, Idle
<1>2. r \in Busy /\ Current(q) \in Lists /\ r.version \in Versions /\ esi[Current(q)] \in Versions
  BY <1>1, AtWork DEF TypeOK, Busy
<1>e. Error => errors' \in 0..MaxErrors
  BY BoundsAreNat DEF TypeOK, Error
<1>3. CASE Hit(q) \/ Forbidden(q)
  <2>1. ReqType'
    BY <1>1, <1>3, ServedType DEF Hit, Forbidden
  <2> QED
    BY <1>3, <2>1 DEF Hit, Forbidden, TypeOK, ReqType
<1>4. CASE SetFails(q)
  <2>1. ReqType'
    BY <1>1, <1>4, ServedType DEF SetFails
  <2> QED
    BY <1>4, <1>e, <2>1 DEF SetFails, TypeOK, ReqType
<1>5. CASE SetCached(q)
  <2>1. [held |-> TRUE, version |-> r.version, fits |-> TRUE] \in Entries
    BY <1>2 DEF Entries
  <2>2. redis' \in [Lists -> Entries \cup {NoEntry}]
    BY <1>5, <2>1 DEF SetCached, TypeOK
  <2>3. ReqType'
    BY <1>1, <1>5, ServedType DEF SetCached
  <2> QED
    BY <1>5, <2>2, <2>3 DEF SetCached, TypeOK, ReqType
<1>6. CASE Miss(q)
  <2>1. req' = [req EXCEPT ![q] = [req[q] EXCEPT !.phase = "fetch", !.version = req[q].version]]
    BY <1>2, <1>6 DEF Miss, Busy
  <2>2. errors' \in 0..MaxErrors
    BY <1>6, <1>e DEF Miss, TypeOK
  <2>3. ReqType'
    BY <1>1, <1>2, <2>1, PhaseType
  <2> QED
    BY <1>6, <2>2, <2>3 DEF Miss, TypeOK, ReqType
<1>7. CASE Fetch(q)
  <2>1. req' = [req EXCEPT ![q] = [req[q] EXCEPT !.phase = "delete", !.version = esi[Current(q)]]]
    BY <1>7 DEF Fetch, TypeOK
  <2>2. ReqType'
    BY <1>1, <1>2, <2>1, PhaseType
  <2> QED
    BY <1>7, <2>2 DEF Fetch, TypeOK, ReqType
<1>8. CASE DeleteRows(q)
  <2> DEFINE phase == IF r.version \in EmptyVersions THEN "set" ELSE "insert"
  <2>1. req' = [req EXCEPT ![q] = [req[q] EXCEPT !.phase = phase, !.version = req[q].version]]
    BY <1>2, <1>8 DEF DeleteRows, Busy
  <2>2. rows' \in [Lists -> Seq(Versions)]
    BY <1>8, IdleApart DEF DeleteRows, TypeOK
  <2>3. ReqType'
    BY <1>1, <1>2, <2>1, PhaseType
  <2> QED
    BY <1>8, <2>2, <2>3 DEF DeleteRows, TypeOK, ReqType
<1>9. CASE InsertRows(q)
  <2>1. req' = [req EXCEPT ![q] = [req[q] EXCEPT !.phase = "set", !.version = req[q].version]]
    BY <1>2, <1>9 DEF InsertRows, Busy
  <2>2. rows' \in [Lists -> Seq(Versions)]
    BY <1>2, <1>9, AppendProperties DEF InsertRows, TypeOK
  <2>3. ReqType'
    BY <1>1, <1>2, <2>1, PhaseType
  <2> QED
    BY <1>9, <2>2, <2>3 DEF InsertRows, TypeOK, ReqType
<1> QED
  BY <1>3, <1>4, <1>5, <1>6, <1>7, <1>8, <1>9 DEF CachedList

LEMMA InvalidateType == ASSUME TypeOK, NEW q \in Requests, Invalidate(q) PROVE TypeOK'
<1>1. req[q] # Idle
  BY DEF Invalidate, InvalidateRows, InvalidateKey, InvalidateKeyFails, Forget, Idle
<1>2. /\ req[q] \in Busy /\ Current(q) \in Lists
      /\ req[q].version \in Versions /\ esi[Current(q)] \in Versions
  BY <1>1, AtWork DEF TypeOK, Busy
<1>e. Error => errors' \in 0..MaxErrors
  BY BoundsAreNat DEF TypeOK, Error
<1>3. CASE InvalidateRows(q)
  <2>1. req' = [req EXCEPT ![q] = [req[q] EXCEPT !.phase = "key", !.version = req[q].version]]
    BY <1>2, <1>3 DEF InvalidateRows, Busy
  <2>2. rows' \in [Lists -> Seq(Versions)]
    BY <1>3, IdleApart DEF InvalidateRows, TypeOK
  <2>3. ReqType'
    BY <1>1, <1>2, <2>1, PhaseType
  <2> QED
    BY <1>3, <2>2, <2>3 DEF InvalidateRows, TypeOK, ReqType
<1>4. CASE InvalidateKey(q)
  <2>1. /\ redis' \in [Lists -> Entries \cup {NoEntry}] /\ floor' \in [Lists -> Versions]
        /\ missed' \subseteq Lists
    BY <1>2, <1>4 DEF InvalidateKey, TypeOK
  <2>2. Invalidated(q)
    BY <1>4 DEF InvalidateKey
  <2>3. ReqType'
    BY <1>1, <2>2, InvalidatedType
  <2> QED
    BY <1>4, <2>1, <2>2, <2>3 DEF InvalidateKey, TypeOK, ReqType
<1>5. CASE InvalidateKeyFails(q)
  <2>1. floor' \in [Lists -> Versions] /\ missed' \subseteq Lists
    BY <1>2, <1>5 DEF InvalidateKeyFails, TypeOK
  <2>2. Invalidated(q) /\ Error
    BY <1>5 DEF InvalidateKeyFails
  <2>3. ReqType'
    BY <1>1, <2>2, InvalidatedType
  <2> QED
    BY <1>5, <1>e, <2>1, <2>2, <2>3 DEF InvalidateKeyFails, TypeOK, ReqType
<1>6. CASE Forget(q)
  BY <1>6 DEF Forget, TypeOK, Idle
<1> QED
  BY <1>3, <1>4, <1>5, <1>6 DEF Invalidate

LEMMA OutsideType ==
  ASSUME TypeOK, LogIn \/ Release \/ \E l \in Lists : EsiChanges(l) \/ ExpireKey(l)
  PROVE  TypeOK'
<1>1. CASE LogIn
  BY <1>1 DEF LogIn, TypeOK
<1>2. CASE Release
  <2>1. \A l \in Lists : redis[l].held => redis[l] \in Entries
    BY IdleApart DEF TypeOK
  <2>2. \A e \in Entries : [e EXCEPT !.fits = FALSE] \in Entries
    BY DEF Entries
  <2> QED
    BY <1>2, <2>1, <2>2 DEF Release, TypeOK
<1>3. ASSUME NEW l \in Lists, EsiChanges(l) PROVE TypeOK'
  BY <1>3, BoundsAreNat DEF EsiChanges, TypeOK, Versions
<1>4. ASSUME NEW l \in Lists, ExpireKey(l) PROVE TypeOK'
  BY <1>4 DEF ExpireKey, TypeOK
<1> QED
  BY <1>1, <1>2, <1>3, <1>4

LEMMA DiesType == ASSUME TypeOK, NEW q \in Requests, Dies(q) PROVE TypeOK'
BY BoundsAreNat DEF Dies, Error, TypeOK, Idle

LEMMA InitType == Init => TypeOK
<1>1. 0 \in Versions /\ 0 \in 0..MaxErrors
  BY BoundsAreNat DEF Versions
<1> QED
  BY <1>1, IdleApart DEF Init, TypeOK

LEMMA StepType == TypeOK /\ [Next]_vars => TypeOK'
<1>1. TypeOK /\ UNCHANGED vars => TypeOK'
  BY DEF TypeOK, vars
<1> QED
  BY <1>1, ArriveType, CachedListType, InvalidateType, OutsideType, DiesType DEF Next, Step

\* Type correctness, for any lists, requests, versions and number of failures.
THEOREM TypeCorrect == Spec => []TypeOK
BY InitType, StepType, PTL DEF Spec

-----------------------------------------------------------------------------
(* Copies of a list *)

\* The requests that have deleted the rows of a list and not inserted theirs yet.
Inserting(l) == {q \in Requests : req[q].phase = "insert" /\ Current(q) = l}

\* With those still to insert, no more rows than requests.
CopiesInv ==
  \A l \in Lists : Len(rows[l]) + Cardinality(Inserting(l)) <= Cardinality(Requests)

LEMMA InsertingFinite ==
  \A S \in SUBSET Requests :
    IsFiniteSet(S) /\ Cardinality(S) \in Nat /\ Cardinality(S) <= Cardinality(Requests)
BY RequestsFinite, FS_Subset, FS_CardinalityType

\* A step that neither inserts nor goes on to insert.
LEMMA FewerInserting ==
  ASSUME TypeOK, TypeOK', CopiesInv,
         \A l \in Lists : Inserting(l)' \subseteq Inserting(l),
         \A l \in Lists : rows'[l] \in {rows[l], NoRows}
  PROVE  CopiesInv'
<1> SUFFICES ASSUME NEW l \in Lists
             PROVE  Len(rows'[l]) + Cardinality(Inserting(l)') <= Cardinality(Requests)
  BY DEF CopiesInv
<1>1. Inserting(l) \subseteq Requests /\ Inserting(l)' \subseteq Requests
  BY DEF Inserting
<1>2. /\ Cardinality(Inserting(l)') <= Cardinality(Inserting(l))
      /\ Cardinality(Inserting(l)) <= Cardinality(Requests)
      /\ Cardinality(Inserting(l)) \in Nat /\ Cardinality(Inserting(l)') \in Nat
      /\ Cardinality(Requests) \in Nat
  BY <1>1, InsertingFinite, FS_Subset
<1>3. Len(rows[l]) \in Nat /\ Len(NoRows) = 0
  BY LenProperties DEF TypeOK, NoRows
<1>4. Len(rows[l]) + Cardinality(Inserting(l)) <= Cardinality(Requests)
  BY DEF CopiesInv
<1>5. Len(rows'[l]) <= Len(rows[l]) /\ Len(rows'[l]) \in Nat
  BY <1>3
<1> HIDE DEF CopiesInv
<1> QED
  BY <1>2, <1>3, <1>4, <1>5

\* Another phase of a request puts nobody else to insert.
LEMMA OthersStay ==
  ASSUME TypeOK, NEW q \in Requests, NEW r, req' = [req EXCEPT ![q] = r], r.phase # "insert"
  PROVE  \A l \in Lists : Inserting(l)' = Inserting(l) \ {q}
BY DEF Inserting, Current, TypeOK

LEMMA StepCopies == TypeOK /\ TypeOK' /\ CopiesInv /\ [Next]_vars => CopiesInv'
<1> SUFFICES ASSUME TypeOK, TypeOK', CopiesInv, [Next]_vars PROVE CopiesInv'
  OBVIOUS
<1>1. CASE UNCHANGED vars
  BY <1>1 DEF CopiesInv, Inserting, Current, vars
<1>2. CASE LogIn \/ Release \/ \E l \in Lists : EsiChanges(l) \/ ExpireKey(l)
  BY <1>2 DEF CopiesInv, Inserting, Current, LogIn, Release, EsiChanges, ExpireKey
<1>3. ASSUME NEW q \in Requests, Arrive(q) PROVE CopiesInv'
  <2>1. PICK kind, phase, lists : Arrival(kind, phase, lists) /\ Open(q, Starting(kind, phase, lists))
    BY <1>3, ArriveOpens
  <2>2. /\ UNCHANGED rows /\ req' = [req EXCEPT ![q] = Starting(kind, phase, lists)]
        /\ Starting(kind, phase, lists).phase # "insert"
    BY <2>1 DEF Open, Starting, Arrival
  <2>3. \A l \in Lists : Inserting(l)' = Inserting(l) \ {q}
    BY <2>2, OthersStay
  <2> QED
    BY <2>2, <2>3, FewerInserting
<1>4. ASSUME NEW q \in Requests, Dies(q) PROVE CopiesInv'
  BY <1>4, OthersStay, FewerInserting, IdleApart DEF Dies
<1>5. ASSUME NEW q \in Requests, CachedList(q) \/ Invalidate(q), ~DeleteRows(q), ~InsertRows(q)
      PROVE  CopiesInv'
  <2>1. \E r : req' = [req EXCEPT ![q] = r] /\ r.phase # "insert"
    <3>1. req[q] # Idle => req[q] \in Busy
      BY DEF TypeOK
    <3>2. CASE Hit(q) \/ Forbidden(q) \/ SetCached(q) \/ SetFails(q)
      <4>1. req[q] \in Busy /\ Served(q)
        BY <3>1, <3>2, IdleApart DEF Hit, Forbidden, SetCached, SetFails
      <4> QED
        BY <4>1, ServedStep, IdleApart
    <3>3. CASE Miss(q) \/ Fetch(q) \/ InvalidateRows(q)
      <4>1. req[q] \in Busy
        BY <3>1, <3>3, IdleApart DEF Miss, Fetch, InvalidateRows
      <4> QED
        BY <3>3, <4>1, MissStep, FetchStep, InvalidateRowsStep
    <3>4. CASE InvalidateKey(q) \/ InvalidateKeyFails(q) \/ Forget(q)
      <4>1. req[q] \in Busy
        BY <3>1, <3>4, IdleApart DEF InvalidateKey, InvalidateKeyFails, Forget
      <4> QED
        BY <3>4, <4>1, InvalidatedStep, IdleApart DEF InvalidateKey, InvalidateKeyFails, Forget
    <3> QED
      BY <1>5, <3>2, <3>3, <3>4 DEF CachedList, Invalidate
  <2>2. \A l \in Lists : rows'[l] \in {rows[l], NoRows}
    BY <1>5 DEF CachedList, Invalidate, Hit, Miss, Fetch, Forbidden, SetCached, SetFails,
                InvalidateRows, InvalidateKey, InvalidateKeyFails, Forget, TypeOK
  <2> QED
    BY <2>1, <2>2, OthersStay, FewerInserting
<1>6. ASSUME NEW q \in Requests, DeleteRows(q) PROVE CopiesInv'
  <2>1. req[q] \in Busy /\ Current(q) \in Lists
    BY <1>6, AtWork, IdleApart DEF DeleteRows
  <2> SUFFICES ASSUME NEW l \in Lists
               PROVE  Len(rows'[l]) + Cardinality(Inserting(l)') <= Cardinality(Requests)
    BY DEF CopiesInv
  <2>2. CASE l = Current(q)
    <3>1. rows'[l] = NoRows
      BY <1>6, <2>1, <2>2 DEF DeleteRows, TypeOK
    <3>2. Inserting(l)' \subseteq Requests
      BY DEF Inserting
    <3> QED
      BY <3>1, <3>2, InsertingFinite DEF NoRows
  <2>3. CASE l # Current(q)
    <3>1. rows'[l] = rows[l]
      BY <1>6, <2>3 DEF DeleteRows, TypeOK
    <3>2. Inserting(l)' = Inserting(l)
      BY <1>6, <2>1, <2>3 DEF DeleteRows, TypeOK, Inserting, Current, Busy
    <3> QED
      BY <3>1, <3>2 DEF CopiesInv
  <2> QED
    BY <2>2, <2>3
<1>7. ASSUME NEW q \in Requests, InsertRows(q) PROVE CopiesInv'
  <2>1. req[q] \in Busy /\ Current(q) \in Lists
    BY <1>7, AtWork, IdleApart DEF InsertRows
  <2>2. /\ req' = [req EXCEPT ![q] = [req[q] EXCEPT !.phase = "set"]]
        /\ [req[q] EXCEPT !.phase = "set"].phase # "insert"
    BY <1>7, <2>1 DEF InsertRows, Busy
  <2>3. \A l \in Lists : Inserting(l)' = Inserting(l) \ {q}
    BY <2>2, OthersStay
  <2> SUFFICES ASSUME NEW l \in Lists
               PROVE  Len(rows'[l]) + Cardinality(Inserting(l)') <= Cardinality(Requests)
    BY DEF CopiesInv
  <2>4. Len(rows[l]) + Cardinality(Inserting(l)) <= Cardinality(Requests)
    BY DEF CopiesInv
  <2>5. /\ IsFiniteSet(Inserting(l)) /\ Cardinality(Inserting(l)) \in Nat
        /\ Cardinality(Requests) \in Nat /\ Len(rows[l]) \in Nat
    BY InsertingFinite, LenProperties DEF Inserting, TypeOK
  <2>6. CASE l = Current(q)
    <3>1. Cardinality(Inserting(l)') = Cardinality(Inserting(l)) - 1
      <4>1. q \in Inserting(l)
        BY <1>7, <2>6 DEF InsertRows, Inserting
      <4> QED
        BY <2>3, <2>5, <4>1, FS_RemoveElement
    <3>2. rows'[l] = Append(rows[l], req[q].version)
      BY <1>7, <2>1, <2>6 DEF InsertRows, TypeOK
    <3>3. Len(rows'[l]) = Len(rows[l]) + 1
      <4>1. rows[l] \in Seq(Versions) /\ req[q].version \in Versions
        BY <2>1 DEF TypeOK, Busy
      <4> QED
        BY <3>2, <4>1, AppendProperties
    <3> QED
      BY <2>4, <2>5, <3>1, <3>3
  <2>7. CASE l # Current(q)
    <3>1. rows'[l] = rows[l] /\ q \notin Inserting(l)
      BY <1>7, <2>7 DEF InsertRows, TypeOK, Inserting
    <3>2. Inserting(l)' = Inserting(l)
      BY <2>3, <3>1
    <3> QED
      BY <2>4, <3>1, <3>2
  <2> QED
    BY <2>6, <2>7
<1> QED
  BY <1>1, <1>2, <1>3, <1>4, <1>5, <1>6, <1>7 DEF Next, Step

LEMMA InitCopies == Init => CopiesInv
<1>1. Init => \A l \in Lists : Inserting(l) \subseteq Requests /\ Len(rows[l]) = 0
  BY DEF Init, Inserting, NoRows
<1> QED
  BY <1>1, InsertingFinite DEF CopiesInv

\* delete_many and insert_many are two calls (esi_cache.py): pages that miss at once
\* leave a list several times in its collection, never more often than there are
\* requests at once, however many.
THEOREM CopiesAreBounded == Spec => []CopiesBounded
<1>1. TypeOK /\ CopiesInv => CopiesBounded
  <2> SUFFICES ASSUME TypeOK, CopiesInv, NEW l \in Lists
               PROVE  Len(rows[l]) <= Cardinality(Requests)
    BY DEF CopiesBounded
  <2>1. /\ Cardinality(Inserting(l)) \in Nat /\ Cardinality(Requests) \in Nat
        /\ Len(rows[l]) \in Nat
    BY InsertingFinite, LenProperties DEF Inserting, TypeOK
  <2>2. Len(rows[l]) + Cardinality(Inserting(l)) <= Cardinality(Requests)
    BY DEF CopiesInv
  <2> QED
    BY <2>1, <2>2
<1>2. Init => CopiesInv
  BY InitCopies
<1>3. TypeOK /\ TypeOK' /\ CopiesInv /\ [Next]_vars => CopiesInv'
  BY StepCopies
<1> QED
  BY <1>1, <1>2, <1>3, TypeCorrect, PTL DEF Spec

-----------------------------------------------------------------------------
(* What a refresh leaves *)

\* RefreshIsSeenUnlessMissed, and the same of what a request has fetched and is
\* about to cache.
FreshInv ==
  /\ \A l \in Lists : floor[l] <= esi[l]
  /\ RefreshIsSeenUnlessMissed
  /\ \A l \in Lists \ missed : \A q \in Requests : Fetched(q, l) => req[q].version >= floor[l]

\* Versions can be compared.
LEMMA VersionsAreNat ==
  ASSUME TypeOK
  PROVE  /\ \A l \in Lists : esi[l] \in Nat /\ floor[l] \in Nat
         /\ \A l \in Lists : redis[l].held => redis[l].version \in Nat
         /\ \A q \in Requests : req[q] # Idle => req[q].version \in Nat
<1>1. Versions \subseteq Nat
  BY BoundsAreNat DEF Versions
<1>2. \A l \in Lists : redis[l].held => redis[l].version \in Versions
  BY IdleApart DEF TypeOK, Entries
<1>3. \A q \in Requests : req[q] # Idle => req[q].version \in Versions
  BY DEF TypeOK, Busy
<1> QED
  BY <1>1, <1>2, <1>3 DEF TypeOK

\* A request that has fetched nothing, after the step, leaves the others' fetches alone.
LEMMA OthersFetched ==
  ASSUME TypeOK, NEW q \in Requests, NEW r, req' = [req EXCEPT ![q] = r],
         r.phase \notin {"delete", "insert", "set"}
  PROVE  \A p \in Requests, l \in Lists :
           Fetched(p, l)' => Fetched(p, l) /\ req'[p] = req[p]
BY DEF Fetched, Current, TypeOK

\* The fetch of a request that goes on with it stays what it was.
LEMMA SameFetched ==
  ASSUME TypeOK, NEW q \in Requests, NEW r, req' = [req EXCEPT ![q] = r],
         Keeps(q, r), r.version = req[q].version, req[q].phase \in {"delete", "insert", "set"}
  PROVE  \A p \in Requests, l \in Lists :
           Fetched(p, l)' => Fetched(p, l) /\ req'[p].version = req[p].version
BY DEF Fetched, Current, TypeOK, Keeps

\* A step that adds nothing to Redis and fetches nothing.
LEMMA NothingFetched ==
  ASSUME FreshInv, UNCHANGED <<esi, floor, missed>>,
         \A l \in Lists : redis'[l] = redis[l] \/ ~redis'[l].held
                            \/ (redis[l].held /\ redis'[l].version = redis[l].version),
         \A p \in Requests, l \in Lists :
           Fetched(p, l)' => Fetched(p, l) /\ req'[p].version = req[p].version
  PROVE  FreshInv'
BY DEF FreshInv, RefreshIsSeenUnlessMissed

LEMMA CachedListFresh ==
  ASSUME TypeOK, TypeOK', FreshInv, NEW q \in Requests, CachedList(q)
  PROVE  FreshInv'
<1>1. req[q] # Idle
  BY DEF CachedList, Hit, Miss, Fetch, Forbidden, DeleteRows, InsertRows, SetCached, SetFails, Idle
<1>2. req[q] \in Busy /\ Current(q) \in Lists
  BY <1>1, AtWork
<1>3. CASE Hit(q) \/ Forbidden(q) \/ SetFails(q)
  <2>1. Served(q) /\ UNCHANGED <<esi, floor, missed, redis>>
    BY <1>3 DEF Hit, Forbidden, SetFails
  <2>2. \A p \in Requests, l \in Lists : Fetched(p, l)' => Fetched(p, l) /\ req'[p] = req[p]
    BY <1>2, <2>1, ServedStep, OthersFetched, IdleApart
  <2> QED
    BY <2>1, <2>2, NothingFetched
<1>4. CASE Miss(q)
  <2>1. UNCHANGED <<esi, floor, missed, redis>>
    BY <1>4 DEF Miss
  <2>2. \A p \in Requests, l \in Lists : Fetched(p, l)' => Fetched(p, l) /\ req'[p] = req[p]
    BY <1>2, <1>4, MissStep, OthersFetched
  <2> QED
    BY <2>1, <2>2, NothingFetched
<1>5. CASE Fetch(q)
  <2>1. PICK r : /\ req' = [req EXCEPT ![q] = r] /\ Keeps(q, r)
                 /\ r.phase = "delete" /\ r.version = esi[Current(q)]
    BY <1>2, <1>5, FetchStep
  <2>2. UNCHANGED <<esi, floor, missed, redis>>
    BY <1>5 DEF Fetch
  <2>3. ASSUME NEW p \in Requests, NEW l \in Lists \ missed, Fetched(p, l)'
        PROVE  req'[p].version >= floor[l]
    <3>1. CASE p = q
      <4>1. l = Current(q) /\ req'[p].version = esi[l]
        BY <2>1, <2>3, <3>1 DEF Fetched, Current, Keeps, TypeOK
      <4> QED
        BY <4>1, VersionsAreNat DEF FreshInv
    <3>2. CASE p # q
      BY <2>1, <2>3, <3>2 DEF Fetched, Current, FreshInv, TypeOK
    <3> QED
      BY <3>1, <3>2
  <2> QED
    BY <2>2, <2>3 DEF FreshInv, RefreshIsSeenUnlessMissed
<1>6. CASE DeleteRows(q) \/ InsertRows(q)
  <2>1. PICK r : /\ req' = [req EXCEPT ![q] = r] /\ Keeps(q, r) /\ r.version = req[q].version
    BY <1>2, <1>6, DeleteRowsStep, InsertRowsStep
  <2>2. /\ UNCHANGED <<esi, floor, missed, redis>>
        /\ req[q].phase \in {"delete", "insert", "set"}
    BY <1>6 DEF DeleteRows, InsertRows
  <2>3. \A p \in Requests, l \in Lists :
           Fetched(p, l)' => Fetched(p, l) /\ req'[p].version = req[p].version
    BY <2>1, <2>2, SameFetched
  <2> QED
    BY <2>2, <2>3, NothingFetched
<1>7. CASE SetCached(q)
  <2>1. Served(q) /\ UNCHANGED <<esi, floor, missed>>
    BY <1>7 DEF SetCached
  <2>2. \A p \in Requests, l \in Lists : Fetched(p, l)' => Fetched(p, l) /\ req'[p] = req[p]
    BY <1>2, <2>1, ServedStep, OthersFetched, IdleApart
  <2>3. Fetched(q, Current(q))
    BY <1>7 DEF SetCached, Fetched
  <2>4. ASSUME NEW l \in Lists \ missed, redis'[l].held PROVE redis'[l].version >= floor[l]
    <3>1. CASE l = Current(q)
      <4>1. redis'[l].version = req[q].version
        BY <1>7, <3>1 DEF SetCached, TypeOK
      <4> QED
        BY <1>2, <2>3, <3>1, <4>1 DEF FreshInv
    <3>2. CASE l # Current(q)
      <4>1. redis'[l] = redis[l]
        BY <1>7, <3>2 DEF SetCached, TypeOK
      <4> QED
        BY <2>4, <4>1 DEF FreshInv, RefreshIsSeenUnlessMissed
    <3> QED
      BY <3>1, <3>2
  <2> QED
    BY <2>1, <2>2, <2>4 DEF FreshInv, RefreshIsSeenUnlessMissed
<1> QED
  BY <1>3, <1>4, <1>5, <1>6, <1>7 DEF CachedList

LEMMA InvalidateFresh ==
  ASSUME TypeOK, TypeOK', FreshInv, NEW q \in Requests, Invalidate(q)
  PROVE  FreshInv'
<1>1. req[q] # Idle
  BY DEF Invalidate, InvalidateRows, InvalidateKey, InvalidateKeyFails, Forget, Idle
<1>2. req[q] \in Busy /\ Current(q) \in Lists
  BY <1>1, AtWork
<1>3. CASE InvalidateRows(q)
  <2>1. UNCHANGED <<esi, floor, missed, redis>>
    BY <1>3 DEF InvalidateRows
  <2>2. \A p \in Requests, l \in Lists : Fetched(p, l)' => Fetched(p, l) /\ req'[p] = req[p]
    BY <1>2, <1>3, InvalidateRowsStep, OthersFetched
  <2> QED
    BY <2>1, <2>2, NothingFetched
<1>4. CASE Forget(q)
  <2>1. UNCHANGED <<esi, floor, missed, redis>> /\ req' = [req EXCEPT ![q] = Idle]
    BY <1>4 DEF Forget
  <2>2. \A p \in Requests, l \in Lists : Fetched(p, l)' => Fetched(p, l) /\ req'[p] = req[p]
    BY <2>1, OthersFetched, IdleApart
  <2> QED
    BY <2>1, <2>2, NothingFetched
<1>5. CASE InvalidateKey(q) \/ InvalidateKeyFails(q)
  <2> DEFINE c == Current(q)
  <2>1. /\ Invalidated(q) /\ esi' = esi /\ floor' = [floor EXCEPT ![c] = esi[c]]
        /\ missed' \in {missed \cup {c}, missed \ {c}}
        /\ \A l \in Lists : l # c => redis'[l] = redis[l]
    BY <1>5 DEF InvalidateKey, InvalidateKeyFails, TypeOK
  <2>2. \A p \in Requests, l \in Lists : Fetched(p, l)' => Fetched(p, l) /\ req'[p] = req[p]
    BY <1>2, <2>1, InvalidatedStep, OthersFetched, IdleApart
  <2>3. \A l \in Lists : floor'[l] <= esi'[l]
    BY <2>1, VersionsAreNat DEF FreshInv, TypeOK
  <2>4. \A l \in Lists \ missed' : l # c => l \notin missed /\ floor'[l] = floor[l]
    BY <2>1 DEF TypeOK
  <2>5. ASSUME NEW l \in Lists \ missed', NEW p \in Requests, Fetched(p, l)'
        PROVE  req'[p].version >= floor'[l]
    <3>1. CASE l = c
      <4>1. ~(\E o \in Requests : Fetched(o, l) /\ req[o].version < esi[l])
        BY <1>5, <2>5, <3>1 DEF InvalidateKey, InvalidateKeyFails
      <4>2. Fetched(p, l) /\ req'[p] = req[p] /\ floor'[l] = esi[l]
        BY <2>1, <2>2, <2>5, <3>1 DEF TypeOK
      <4>3. req[p].version \in Nat /\ esi[l] \in Nat
        BY <4>2, VersionsAreNat, IdleApart DEF Fetched
      <4> QED
        BY <4>1, <4>2, <4>3
    <3>2. CASE l # c
      BY <2>2, <2>4, <2>5, <3>2 DEF FreshInv
    <3> QED
      BY <3>1, <3>2
  <2>6. ASSUME NEW l \in Lists \ missed', redis'[l].held
        PROVE  redis'[l].version >= floor'[l]
    <3>1. l # c
      BY <1>5, <2>6, IdleApart DEF InvalidateKey, InvalidateKeyFails, TypeOK
    <3> QED
      BY <2>1, <2>4, <2>6, <3>1 DEF FreshInv, RefreshIsSeenUnlessMissed
  <2> QED
    BY <2>3, <2>5, <2>6 DEF FreshInv, RefreshIsSeenUnlessMissed
<1> QED
  BY <1>3, <1>4, <1>5 DEF Invalidate

LEMMA StepFresh == TypeOK /\ TypeOK' /\ FreshInv /\ [Next]_vars => FreshInv'
<1> SUFFICES ASSUME TypeOK, TypeOK', FreshInv, [Next]_vars PROVE FreshInv'
  OBVIOUS
<1>1. CASE UNCHANGED vars \/ LogIn
  BY <1>1 DEF FreshInv, RefreshIsSeenUnlessMissed, Fetched, Current, vars, LogIn
<1>2. CASE Release
  <2>1. UNCHANGED <<esi, floor, missed, req>>
    BY <1>2 DEF Release
  <2>2. \A l \in Lists : ~redis'[l].held \/ (redis[l].held /\ redis'[l].version = redis[l].version)
    <3>1. \A l \in Lists : redis[l].held => redis[l] \in Entries
      BY IdleApart DEF TypeOK
    <3>2. \A e \in Entries : [e EXCEPT !.fits = FALSE].version = e.version
      BY DEF Entries
    <3> QED
      BY <1>2, <3>1, <3>2, IdleApart DEF Release
  <2>3. \A p \in Requests, l \in Lists :
           Fetched(p, l)' => Fetched(p, l) /\ req'[p].version = req[p].version
    BY <2>1 DEF Fetched, Current
  <2> QED
    BY <2>1, <2>2, <2>3, NothingFetched
<1>3. ASSUME NEW l \in Lists, EsiChanges(l) PROVE FreshInv'
  <2>1. UNCHANGED <<redis, floor, missed, req>> /\ \A k \in Lists : floor'[k] <= esi'[k]
    BY <1>3, VersionsAreNat DEF EsiChanges, FreshInv, TypeOK
  <2> QED
    BY <2>1 DEF FreshInv, RefreshIsSeenUnlessMissed, Fetched, Current
<1>4. ASSUME NEW l \in Lists, ExpireKey(l) PROVE FreshInv'
  <2>1. UNCHANGED <<esi, floor, missed, req>> /\ \A k \in Lists : redis'[k] = redis[k] \/ ~redis'[k].held
    BY <1>4, IdleApart DEF ExpireKey, TypeOK
  <2>2. \A p \in Requests, k \in Lists :
           Fetched(p, k)' => Fetched(p, k) /\ req'[p].version = req[p].version
    BY <2>1 DEF Fetched, Current
  <2> QED
    BY <2>1, <2>2, NothingFetched
<1>5. ASSUME NEW q \in Requests, Arrive(q) PROVE FreshInv'
  <2>1. PICK kind, phase, lists : Arrival(kind, phase, lists) /\ Open(q, Starting(kind, phase, lists))
    BY <1>5, ArriveOpens
  <2>2. /\ UNCHANGED <<esi, floor, missed, redis>> /\ req' = [req EXCEPT ![q] = Starting(kind, phase, lists)]
        /\ Starting(kind, phase, lists).phase \notin {"delete", "insert", "set"}
    BY <2>1 DEF Open, Starting, Arrival
  <2>3. \A p \in Requests, l \in Lists : Fetched(p, l)' => Fetched(p, l) /\ req'[p] = req[p]
    BY <2>2, OthersFetched
  <2> QED
    BY <2>2, <2>3, NothingFetched
<1>6. ASSUME NEW q \in Requests, Dies(q) PROVE FreshInv'
  <2>1. UNCHANGED <<esi, floor, missed, redis>> /\ req' = [req EXCEPT ![q] = Idle]
    BY <1>6 DEF Dies
  <2>2. \A p \in Requests, l \in Lists : Fetched(p, l)' => Fetched(p, l) /\ req'[p] = req[p]
    BY <2>1, OthersFetched, IdleApart
  <2> QED
    BY <2>1, <2>2, NothingFetched
<1> QED
  BY <1>1, <1>2, <1>3, <1>4, <1>5, <1>6, CachedListFresh, InvalidateFresh DEF Next, Step

LEMMA InitFresh == Init => FreshInv
BY IdleApart DEF Init, FreshInv, RefreshIsSeenUnlessMissed, Fetched

\* "Invalidates cached data so the next page view re-fetches fresh data from ESI"
\* (refresh_character_data), unless a fetch of an older version was in flight or Redis
\* did not answer.
THEOREM RefreshIsSeen == Spec => []RefreshIsSeenUnlessMissed
<1>1. Init => FreshInv
  BY InitFresh
<1>2. TypeOK /\ TypeOK' /\ FreshInv /\ [Next]_vars => FreshInv'
  BY StepFresh
<1>3. FreshInv => RefreshIsSeenUnlessMissed
  BY DEF FreshInv
<1> QED
  BY <1>1, <1>2, <1>3, TypeCorrect, PTL DEF Spec

-----------------------------------------------------------------------------
(* What a clear leaves *)

\* Only pages fetch and cache, only a clear forgets the document.
KindInv ==
  \A q \in Requests : req[q] # Idle =>
    /\ req[q].phase \in PagePhases <=> req[q].kind = "page"
    /\ req[q].phase = "forget" => req[q].kind = "clear"

Busily(q, kind) == req[q] # Idle /\ req[q].kind = kind

CrossInv ==
  ~crossed => ~ \E p, q \in Requests : Busily(p, "page") /\ Busily(q, "clear")

\* The list has no rows, and Redis has it only if it did not answer a delete.
Gone(l) == rows[l] = NoRows /\ (redis[l].held => l \in missed)

\* Request q has list l behind it.
Passed(q, l) == req[q].phase = "forget" \/ l \notin Elems(req[q].left)

\* What a clear has behind it is gone, and the rows of what it has in its hand.
PassedInv ==
  ~crossed => \A q \in Requests, l \in Elems(Personal) : Busily(q, "clear") =>
    /\ Passed(q, l) => Gone(l)
    /\ req[q].phase = "key" /\ Current(q) = l => rows[l] = NoRows

\* Without a document no page starts, so what is gone stays gone.
GoneInv ==
  ~doc /\ ~crossed =>
    /\ \A q \in Requests : ~Busily(q, "page")
    /\ \A l \in Elems(Personal) : Gone(l)

ClearInv == KindInv /\ CrossInv /\ PassedInv /\ GoneInv

\* The elements of a list are its head and those of its tail.
LEMMA ElemsOfTail ==
  ASSUME NEW s \in Seq(Lists), s # <<>>
  PROVE  /\ Elems(s) = {Head(s)} \cup Elems(Tail(s))
         /\ ~(Len(s) > 1) => Elems(s) = {Head(s)}
<1>1. /\ Len(s) \in Nat /\ DOMAIN s = 1..Len(s) /\ Len(s) > 0
  BY LenProperties, EmptySeq
<1>2. /\ Tail(s) \in Seq(Lists) /\ Len(Tail(s)) = Len(s) - 1
      /\ \A i \in 1..Len(Tail(s)) : Tail(s)[i] = s[i + 1]
  BY HeadTailProperties
<1>3. DOMAIN Tail(s) = 1..(Len(s) - 1) /\ Head(s) = s[1]
  BY <1>1, <1>2, LenProperties
<1>4. Elems(s) \subseteq {Head(s)} \cup Elems(Tail(s))
  <2> SUFFICES ASSUME NEW i \in 1..Len(s), i # 1 PROVE s[i] \in Elems(Tail(s))
    BY <1>1, <1>3 DEF Elems
  <2>1. i - 1 \in 1..(Len(s) - 1) /\ Tail(s)[i - 1] = s[i]
    BY <1>1, <1>2
  <2> QED
    BY <1>3, <2>1 DEF Elems
<1>5. {Head(s)} \cup Elems(Tail(s)) \subseteq Elems(s)
  <2>1. Head(s) \in Elems(s)
    BY <1>1, <1>3 DEF Elems
  <2>2. \A i \in 1..(Len(s) - 1) : Tail(s)[i] = s[i + 1] /\ i + 1 \in 1..Len(s)
    BY <1>1, <1>2
  <2> QED
    BY <1>1, <1>3, <2>1, <2>2 DEF Elems
<1>6. ~(Len(s) > 1) => Elems(s) = {Head(s)}
  <2>1. ~(Len(s) > 1) => Len(s) = 1
    BY <1>1
  <2> QED
    BY <1>1, <1>3, <2>1 DEF Elems
<1> QED
  BY <1>4, <1>5, <1>6

\* A request keeps its kind as long as it is at work.
LEMMA KindsStay ==
  ASSUME TypeOK, NEW q \in Requests, NEW r, req' = [req EXCEPT ![q] = r],
         r = Idle \/ r.kind = req[q].kind, req[q] # Idle
  PROVE  \A p \in Requests : \A kind : Busily(p, kind)' => Busily(p, kind)
BY DEF Busily, TypeOK

\* A step of a page: if it is not crossed no clear is in progress, and it has its document.
LEMMA PageClear ==
  ASSUME TypeOK, ClearInv, NEW q \in Requests, req[q] # Idle, req[q].phase \in PagePhases,
         NEW r, req' = [req EXCEPT ![q] = r],
         r = Idle \/ (r.kind = req[q].kind /\ r.phase \in PagePhases),
         UNCHANGED <<doc, crossed>>
  PROVE  ClearInv'
<1>1. Busily(q, "page")
  BY DEF ClearInv, KindInv, Busily
<1>2. \A p \in Requests : \A kind : Busily(p, kind)' => Busily(p, kind)
  BY KindsStay
<1>3. KindInv'
  BY <1>1 DEF ClearInv, KindInv, TypeOK, Busily, PagePhases
<1>4. CrossInv'
  BY <1>2 DEF ClearInv, CrossInv
<1>5. ~crossed => doc /\ \A p \in Requests : ~Busily(p, "clear")
  BY <1>1 DEF ClearInv, CrossInv, GoneInv, TypeOK
<1>6. PassedInv' /\ GoneInv'
  BY <1>2, <1>5 DEF PassedInv, GoneInv
<1> QED
  BY <1>3, <1>4, <1>6 DEF ClearInv

\* A step that leaves the requests alone and stores nothing.
LEMMA NothingStored ==
  ASSUME ClearInv, UNCHANGED <<req, rows, doc, crossed, missed>>,
         \A l \in Lists : redis'[l].held => redis[l].held
  PROVE  ClearInv'
<1>1. \A l \in Elems(Personal) : Gone(l) => Gone(l)'
  BY DEF Gone, Lists
<1>2. \A p \in Requests : \A kind : Busily(p, kind)' = Busily(p, kind)
  BY DEF Busily
<1>3. \A p \in Requests : \A l : Passed(p, l)' = Passed(p, l) /\ Current(p)' = Current(p)
  BY DEF Passed, Current
<1>4. KindInv' /\ CrossInv'
  BY <1>2 DEF ClearInv, KindInv, CrossInv
<1>5. PassedInv'
  BY <1>1, <1>2, <1>3 DEF ClearInv, PassedInv
<1>6. GoneInv'
  BY <1>1, <1>2 DEF ClearInv, GoneInv
<1> QED
  BY <1>4, <1>5, <1>6 DEF ClearInv

LEMMA CachedListClear == ASSUME TypeOK, ClearInv, NEW q \in Requests, CachedList(q) PROVE ClearInv'
<1>1. req[q] # Idle /\ req[q].phase \in PagePhases /\ UNCHANGED <<doc, crossed>>
  BY DEF CachedList, Hit, Miss, Fetch, Forbidden, DeleteRows, InsertRows, SetCached, SetFails, Idle,
         PagePhases
<1>2. req[q] \in Busy
  BY <1>1, AtWork
<1>3. CASE Hit(q) \/ Forbidden(q) \/ SetCached(q) \/ SetFails(q)
  <2>1. Served(q)
    BY <1>3 DEF Hit, Forbidden, SetCached, SetFails
  <2> QED
    BY <1>1, <1>2, <2>1, ServedStep, PageClear DEF PagePhases
<1>4. CASE Miss(q) \/ Fetch(q) \/ DeleteRows(q) \/ InsertRows(q)
  <2>1. \E r : req' = [req EXCEPT ![q] = r] /\ r.kind = req[q].kind /\ r.phase \in PagePhases
    BY <1>2, <1>4, MissStep, FetchStep, DeleteRowsStep, InsertRowsStep DEF Keeps, PagePhases
  <2> QED
    BY <1>1, <2>1, PageClear
<1> QED
  BY <1>3, <1>4 DEF CachedList

\* A step of a refresh or a clear that goes on, or ends: it stores nothing, and what it
\* has behind it then is gone.
LEMMA InvalidatorClear ==
  ASSUME TypeOK, ClearInv, NEW q \in Requests, req[q] # Idle, req[q].phase \notin PagePhases,
         NEW r, req' = [req EXCEPT ![q] = r], UNCHANGED <<doc, crossed>>,
         \/ r = Idle
         \/ /\ r.kind = req[q].kind /\ r.phase \notin PagePhases
            /\ r.phase = "forget" => r.kind = "clear",
         \A l \in Lists : (Gone(l) => Gone(l)') /\ (rows[l] = NoRows => rows'[l] = NoRows),
         ~crossed /\ r # Idle /\ r.kind = "clear" => \A l \in Elems(Personal) :
           /\ r.phase = "forget" \/ l \notin Elems(r.left) => Gone(l)'
           /\ r.phase = "key" /\ Head(r.left) = l => rows'[l] = NoRows
  PROVE  ClearInv'
<1>1. \A p \in Requests : \A kind : Busily(p, kind)' => Busily(p, kind)
  BY KindsStay
<1>2. KindInv'
  BY DEF ClearInv, KindInv, TypeOK
<1>3. CrossInv'
  BY <1>1 DEF ClearInv, CrossInv
<1>4. PassedInv'
  <2> SUFFICES ASSUME ~crossed, NEW p \in Requests, NEW l \in Elems(Personal), Busily(p, "clear")'
               PROVE  /\ Passed(p, l)' => Gone(l)'
                      /\ req'[p].phase = "key" /\ Current(p)' = l => rows'[l] = NoRows
    BY DEF PassedInv
  <2>1. CASE p = q
    BY <2>1 DEF Busily, Passed, Current, TypeOK
  <2>2. CASE p # q
    <3>1. req'[p] = req[p] /\ Busily(p, "clear") /\ l \in Lists
      BY <1>1, <2>2 DEF TypeOK, Lists
    <3> QED
      BY <3>1 DEF ClearInv, PassedInv, Passed, Current
  <2> QED
    BY <2>1, <2>2
<1>5. GoneInv'
  BY <1>1 DEF ClearInv, GoneInv, Lists
<1> QED
  BY <1>2, <1>3, <1>4, <1>5 DEF ClearInv

LEMMA InvalidateClear == ASSUME TypeOK, ClearInv, NEW q \in Requests, Invalidate(q) PROVE ClearInv'
<1> DEFINE c == Current(q)
<1>1. req[q] # Idle /\ req[q].phase \notin PagePhases
  BY DEF Invalidate, InvalidateRows, InvalidateKey, InvalidateKeyFails, Forget, Idle, PagePhases
<1>2. /\ req[q] \in Busy /\ c \in Lists
      /\ req[q].left \in Seq(Lists) /\ req[q].left # <<>>
  BY <1>1, AtWork
<1>3. CASE InvalidateRows(q)
  <2>1. PICK r : req' = [req EXCEPT ![q] = r] /\ Keeps(q, r) /\ r.phase = "key"
    BY <1>2, <1>3, InvalidateRowsStep
  <2>2. UNCHANGED <<doc, crossed, redis, missed>> /\ rows' = [rows EXCEPT ![c] = NoRows]
    BY <1>3 DEF InvalidateRows
  <2>3. rows'[c] = NoRows /\ \A l \in Lists : rows[l] = NoRows => rows'[l] = NoRows
    BY <1>2, <2>2 DEF TypeOK
  <2>4. \A l \in Lists : Gone(l) => Gone(l)'
    BY <2>2, <2>3 DEF Gone
  <2>5. Head(r.left) = c
    BY <2>1 DEF Current, Keeps
  <2>6. ASSUME ~crossed, r.kind = "clear", NEW l \in Elems(Personal), l \notin Elems(r.left)
        PROVE  Gone(l)'
    <3>1. Busily(q, "clear") /\ Passed(q, l) /\ l \in Lists
      BY <1>1, <2>1, <2>6 DEF Busily, Passed, Keeps, Lists
    <3> QED
      BY <2>4, <2>6, <3>1 DEF ClearInv, PassedInv
  <2>7. r.kind = req[q].kind /\ r.phase \notin PagePhases /\ r.phase # "forget"
    BY <2>1 DEF PagePhases, Keeps
  <2> HIDE DEF c
  <2> QED
    BY <1>1, <2>1, <2>2, <2>3, <2>4, <2>5, <2>6, <2>7, InvalidatorClear
<1>4. CASE InvalidateKey(q) \/ InvalidateKeyFails(q)
  <2>1. /\ Invalidated(q) /\ UNCHANGED <<doc, crossed, rows>>
        /\ \A l \in Lists : l # c => redis'[l] = redis[l] /\ (l \in missed' <=> l \in missed)
        /\ redis'[c].held => c \in missed'
    BY <1>2, <1>4, IdleApart DEF InvalidateKey, InvalidateKeyFails, TypeOK
  <2>2. PICK r :
          /\ req' = [req EXCEPT ![q] = r]
          /\ \/ r = Idle /\ req[q].kind # "clear"
             \/ /\ r.phase = "rows" /\ r.kind = req[q].kind
                /\ r.left = Tail(req[q].left) /\ Len(req[q].left) > 1
             \/ /\ r.phase = "forget" /\ r.kind = "clear" /\ req[q].kind = "clear"
                /\ r.left = req[q].left /\ ~(Len(req[q].left) > 1)
    BY <1>2, <2>1, InvalidatedStep
  <2>3. \A l \in Lists : Gone(l) => Gone(l)'
    BY <2>1 DEF Gone
  <2>4. ASSUME NEW l \in Lists, l = c, rows[l] = NoRows PROVE Gone(l)'
    BY <2>1, <2>4 DEF Gone
  <2>5. req[q].phase = "key"
    BY <1>4 DEF InvalidateKey, InvalidateKeyFails
  <2>6. ASSUME ~crossed, r # Idle, r.kind = "clear", NEW l \in Elems(Personal),
               r.phase = "forget" \/ l \notin Elems(r.left)
        PROVE  Gone(l)'
    <3>1. Busily(q, "clear") /\ l \in Lists
      BY <1>1, <2>2, <2>6, IdleApart DEF Busily, Lists
    <3>2. CASE l = c
      <4>1. rows[l] = NoRows
        <5>1. Busily(q, "clear") /\ req[q].phase = "key" /\ Current(q) = l
          BY <2>5, <3>1, <3>2
        <5> HIDE DEF c
        <5> QED
          BY <2>6, <5>1 DEF ClearInv, PassedInv
      <4> QED
        BY <2>4, <3>1, <3>2, <4>1
    <3>3. CASE l # c
      <4>1. l \notin Elems(req[q].left)
        BY <1>2, <2>2, <2>6, <3>3, ElemsOfTail, IdleApart DEF Current
      <4>2. Gone(l)
        BY <2>6, <3>1, <4>1 DEF ClearInv, PassedInv, Passed
      <4> QED
        BY <2>3, <3>1, <4>2
    <3> QED
      BY <3>2, <3>3
  <2>7. \/ r = Idle
        \/ /\ r.kind = req[q].kind /\ r.phase \notin PagePhases /\ r.phase # "key"
           /\ r.phase = "forget" => r.kind = "clear"
    BY <2>2 DEF PagePhases
  <2> HIDE DEF c
  <2> QED
    BY <1>1, <2>1, <2>2, <2>3, <2>6, <2>7, InvalidatorClear
<1>5. CASE Forget(q)
  <2>1. /\ req' = [req EXCEPT ![q] = Idle] /\ doc' = FALSE
        /\ UNCHANGED <<crossed, rows, redis, missed>>
    BY <1>5 DEF Forget
  <2>2. \A p \in Requests : \A kind : Busily(p, kind)' => Busily(p, kind)
    BY <1>1, <2>1, KindsStay
  <2>3. Busily(q, "clear") /\ req[q].phase = "forget"
    BY <1>1, <1>5 DEF Forget, ClearInv, KindInv, Busily
  <2>4. KindInv' /\ CrossInv'
    BY <2>1, <2>2 DEF ClearInv, KindInv, CrossInv, TypeOK
  <2>5. \A l : Gone(l)' = Gone(l)
    BY <2>1 DEF Gone
  <2>6. PassedInv'
    <3>1. \A p \in Requests : Busily(p, "clear")' => req'[p] = req[p] /\ Busily(p, "clear")
      BY <2>1, <2>2 DEF Busily, TypeOK
    <3> QED
      BY <2>1, <2>5, <3>1 DEF ClearInv, PassedInv, Passed, Current
  <2>7. GoneInv'
    <3>1. ~crossed => \A l \in Elems(Personal) : Gone(l)
      BY <2>3 DEF ClearInv, PassedInv, Passed
    <3>2. ~crossed => \A p \in Requests : ~Busily(p, "page")
      BY <2>3 DEF ClearInv, CrossInv
    <3> QED
      BY <2>1, <2>2, <2>5, <3>1, <3>2 DEF GoneInv
  <2> QED
    BY <2>4, <2>6, <2>7 DEF ClearInv
<1> QED
  BY <1>3, <1>4, <1>5 DEF Invalidate

LEMMA ArriveClear == ASSUME TypeOK, ClearInv, NEW q \in Requests, Arrive(q) PROVE ClearInv'
<1>1. PICK kind, phase, lists : Arrival(kind, phase, lists) /\ Open(q, Starting(kind, phase, lists))
  BY ArriveOpens
<1> DEFINE r == Starting(kind, phase, lists)
<1>2. r.kind = kind /\ r.phase = phase /\ r.left = lists
  BY DEF Starting
<1>3. /\ doc /\ doc' = doc /\ req[q] = Idle /\ req' = [req EXCEPT ![q] = r]
      /\ ~crossed' => ~crossed
      /\ ~crossed' => \A p \in Requests : req[p] # Idle => {req[p].kind, kind} # {"page", "clear"}
      /\ UNCHANGED <<rows, redis, missed>>
  BY <1>1, <1>2 DEF Open
<1> HIDE DEF r
<1>4. \A p \in Requests : p # q => req'[p] = req[p]
  BY <1>3 DEF TypeOK
<1>5. req'[q] = r
  BY <1>3 DEF TypeOK
<1>6. KindInv'
  BY <1>1, <1>2, <1>4, <1>5 DEF ClearInv, KindInv, Arrival, PagePhases
<1>7. CrossInv'
  <2> SUFFICES ASSUME ~crossed', NEW p \in Requests, NEW o \in Requests,
                      Busily(p, "page")', Busily(o, "clear")'
               PROVE  FALSE
    BY DEF CrossInv
  <2>1. CASE p # q /\ o # q
    BY <1>3, <1>4, <2>1 DEF ClearInv, CrossInv, Busily
  <2>2. CASE p = q
    <3>1. kind = "page" /\ o # q
      BY <1>2, <1>5, <2>2 DEF Busily
    <3> QED
      BY <1>3, <1>4, <3>1 DEF Busily
  <2>3. CASE o = q
    <3>1. kind = "clear" /\ p # q
      BY <1>2, <1>5, <2>3 DEF Busily
    <3> QED
      BY <1>3, <1>4, <3>1 DEF Busily
  <2> QED
    BY <2>1, <2>2, <2>3
<1>8. PassedInv'
  <2> SUFFICES ASSUME ~crossed', NEW p \in Requests, NEW l \in Elems(Personal), Busily(p, "clear")'
               PROVE  /\ Passed(p, l)' => Gone(l)'
                      /\ req'[p].phase = "key" /\ Current(p)' = l => rows'[l] = NoRows
    BY DEF PassedInv
  <2>1. CASE p = q
    <3>1. kind = "clear" /\ phase = "rows" /\ lists = Personal
      BY <1>1, <1>2, <1>5, <2>1 DEF Busily, Arrival
    <3>2. ~Passed(p, l)' /\ req'[p].phase = "rows"
      BY <1>2, <1>5, <2>1, <3>1 DEF Passed
    <3> QED
      BY <3>2
  <2>2. CASE p # q
    <3>1. req'[p] = req[p] /\ Busily(p, "clear") /\ (Gone(l)' = Gone(l))
      BY <1>3, <1>4, <2>2 DEF Busily, Gone
    <3> QED
      BY <1>3, <3>1 DEF ClearInv, PassedInv, Passed, Current
  <2> QED
    BY <2>1, <2>2
<1>9. GoneInv'
  BY <1>3 DEF GoneInv
<1> QED
  BY <1>6, <1>7, <1>8, <1>9 DEF ClearInv

LEMMA DiesClear == ASSUME TypeOK, ClearInv, NEW q \in Requests, Dies(q) PROVE ClearInv'
<1>1. /\ req[q] # Idle /\ req' = [req EXCEPT ![q] = Idle]
      /\ UNCHANGED <<doc, crossed, rows, redis, missed>>
  BY DEF Dies
<1>2. \A l \in Lists : (Gone(l) => Gone(l)') /\ (rows[l] = NoRows => rows'[l] = NoRows)
  BY <1>1 DEF Gone
<1>3. CASE req[q].phase \in PagePhases
  BY <1>1, <1>3, PageClear
<1>4. CASE req[q].phase \notin PagePhases
  BY <1>1, <1>2, <1>4, InvalidatorClear
<1> QED
  BY <1>3, <1>4

LEMMA LogInClear == ASSUME TypeOK, ClearInv, LogIn PROVE ClearInv'
<1>1. /\ doc' /\ UNCHANGED <<req, rows, redis, missed>>
      /\ crossed' = (crossed /\ \E q \in Requests : Busily(q, "clear"))
  BY DEF LogIn, Busily
<1>2. \A p \in Requests : \A kind : Busily(p, kind)' = Busily(p, kind)
  BY <1>1 DEF Busily
<1>3. \A p \in Requests : \A l : Passed(p, l)' = Passed(p, l) /\ Current(p)' = Current(p)
  BY <1>1 DEF Passed, Current
<1>4. \A l : Gone(l)' = Gone(l)
  BY <1>1 DEF Gone
<1>5. KindInv'
  BY <1>1 DEF ClearInv, KindInv
<1>6. ~crossed' => ~crossed \/ \A q \in Requests : ~Busily(q, "clear")
  BY <1>1
<1>7. CrossInv'
  BY <1>2, <1>6 DEF ClearInv, CrossInv
<1>8. PassedInv'
  BY <1>1, <1>2, <1>3, <1>4, <1>6 DEF ClearInv, PassedInv
<1>9. GoneInv'
  BY <1>1 DEF GoneInv
<1> QED
  BY <1>5, <1>7, <1>8, <1>9 DEF ClearInv

LEMMA StepClear == TypeOK /\ ClearInv /\ [Next]_vars => ClearInv'
<1> SUFFICES ASSUME TypeOK, ClearInv, [Next]_vars PROVE ClearInv'
  OBVIOUS
<1>1. CASE UNCHANGED vars
  BY <1>1, NothingStored DEF vars
<1>2. CASE Release
  <2>1. /\ UNCHANGED <<req, rows, doc, crossed, missed>>
        /\ \A l \in Lists : redis'[l].held => redis[l].held
    BY <1>2, IdleApart DEF Release
  <2> QED
    BY <2>1, NothingStored
<1>3. ASSUME NEW l \in Lists, EsiChanges(l) \/ ExpireKey(l) PROVE ClearInv'
  <2>1. /\ UNCHANGED <<req, rows, doc, crossed, missed>>
        /\ \A k \in Lists : redis'[k].held => redis[k].held
    BY <1>3, IdleApart DEF EsiChanges, ExpireKey, TypeOK
  <2> QED
    BY <2>1, NothingStored
<1> QED
  BY <1>1, <1>2, <1>3, LogInClear, ArriveClear, DiesClear, CachedListClear, InvalidateClear
     DEF Next, Step

LEMMA InitClear == Init => ClearInv
BY IdleApart DEF Init, ClearInv, KindInv, CrossInv, PassedInv, GoneInv, Gone, Busily, Lists

\* "Deletes everything eve-build has stored about this character" (clear_character_data),
\* unless a page was in progress meanwhile, for any number of pages, refreshes, clears
\* and logins.
THEOREM ClearedIsGone == Spec => []ClearedIsGoneUnlessCrossed
<1>1. Init => ClearInv
  BY InitClear
<1>2. TypeOK /\ ClearInv /\ [Next]_vars => ClearInv'
  BY StepClear
<1>3. ClearInv => ClearedIsGoneUnlessCrossed
  BY DEF ClearInv, GoneInv, Gone, ClearedIsGoneUnlessCrossed
<1> QED
  BY <1>1, <1>2, <1>3, TypeCorrect, PTL DEF Spec

=============================================================================
