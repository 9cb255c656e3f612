------------------------- MODULE MarketOrdersProofs -------------------------
(***************************************************************************)
(* What holds of MarketOrders for every set of regions, runs, orders and   *)
(* workers, every page, chunk and prefetch size and any number of faults.  *)
(***************************************************************************)
EXTENDS MarketOrders, SequenceTheorems, FiniteSetTheorems, TLAPS

-----------------------------------------------------------------------------
(* Elements of sequences *)

\* Appending a message to a queue adds exactly that message.
LEMMA ElemsAppend ==
  ASSUME NEW S, NEW s \in Seq(S), NEW x \in S
  PROVE  Append(s, x) \in Seq(S) /\ Elems(Append(s, x)) = Elems(s) \cup {x}
<1>1. /\ Append(s, x) \in Seq(S) /\ Len(Append(s, x)) = Len(s) + 1
      /\ \A i \in 1 .. Len(s) : Append(s, x)[i] = s[i]
      /\ Append(s, x)[Len(s) + 1] = x
  OBVIOUS
<1>2. DOMAIN s = 1 .. Len(s) /\ DOMAIN Append(s, x) = 1 .. Len(s) + 1 /\ Len(s) \in Nat
  BY <1>1
<1>3. Elems(Append(s, x)) \subseteq Elems(s) \cup {x}
  BY <1>1, <1>2 DEF Elems
<1>4. Elems(s) \cup {x} \subseteq Elems(Append(s, x))
  BY <1>1, <1>2 DEF Elems
<1>5. QED  BY <1>1, <1>3, <1>4

\* A worker's deliveries put back before a queue: nothing is lost or invented.
LEMMA ElemsConcat ==
  ASSUME NEW S, NEW s \in Seq(S), NEW t \in Seq(S)
  PROVE  s \o t \in Seq(S) /\ Elems(s \o t) = Elems(s) \cup Elems(t)
<1>1. /\ s \o t \in Seq(S) /\ Len(s \o t) = Len(s) + Len(t)
      /\ \A i \in 1 .. Len(s) + Len(t) : (s \o t)[i] =
            IF i <= Len(s) THEN s[i] ELSE t[i - Len(s)]
  BY ConcatProperties
<1>2. /\ Len(s) \in Nat /\ Len(t) \in Nat /\ DOMAIN s = 1 .. Len(s)
      /\ DOMAIN t = 1 .. Len(t) /\ DOMAIN (s \o t) = 1 .. Len(s) + Len(t)
  BY <1>1
<1>3. Elems(s \o t) \subseteq Elems(s) \cup Elems(t)
  <2> SUFFICES ASSUME NEW i \in 1 .. Len(s) + Len(t)
               PROVE  (s \o t)[i] \in Elems(s) \cup Elems(t)
    BY <1>2 DEF Elems
  <2>1. CASE i <= Len(s)  BY <2>1, <1>1, <1>2 DEF Elems
  <2>2. CASE ~(i <= Len(s))
    <3>1. i - Len(s) \in 1 .. Len(t)  BY <2>2, <1>2
    <3>2. QED  BY <3>1, <2>2, <1>1, <1>2 DEF Elems
  <2>3. QED  BY <2>1, <2>2
<1>4. Elems(s) \subseteq Elems(s \o t)
  <2> SUFFICES ASSUME NEW i \in 1 .. Len(s) PROVE s[i] \in Elems(s \o t)
    BY <1>2 DEF Elems
  <2>1. i \in 1 .. Len(s) + Len(t) /\ (s \o t)[i] = s[i]  BY <1>1, <1>2
  <2>2. QED  BY <2>1, <1>2 DEF Elems
<1>5. Elems(t) \subseteq Elems(s \o t)
  <2> SUFFICES ASSUME NEW i \in 1 .. Len(t) PROVE t[i] \in Elems(s \o t)
    BY <1>2 DEF Elems
  <2>1. i + Len(s) \in 1 .. Len(s) + Len(t)  BY <1>2
  <2>2. (s \o t)[i + Len(s)] = t[i]  BY <2>1, <1>1, <1>2
  <2>3. QED  BY <2>1, <2>2, <1>2 DEF Elems
<1>6. QED  BY <1>1, <1>3, <1>4, <1>5

\* Delivering the head of a queue leaves the rest.
LEMMA ElemsHeadTail ==
  ASSUME NEW S, NEW s \in Seq(S), s # <<>>
  PROVE  /\ Head(s) \in S /\ Tail(s) \in Seq(S)
         /\ Elems(s) = {Head(s)} \cup Elems(Tail(s))
<1>1. /\ Head(s) \in S /\ Tail(s) \in Seq(S) /\ Len(Tail(s)) = Len(s) - 1
      /\ \A i \in 1 .. Len(Tail(s)) : Tail(s)[i] = s[i + 1]
  BY HeadTailProperties
<1>2. /\ Len(s) \in Nat \ {0} /\ DOMAIN s = 1 .. Len(s) /\ Head(s) = s[1]
      /\ DOMAIN Tail(s) = 1 .. Len(s) - 1
  BY <1>1
<1>3. Elems(s) \subseteq {Head(s)} \cup Elems(Tail(s))
  <2> SUFFICES ASSUME NEW i \in 1 .. Len(s), i # 1 PROVE s[i] \in Elems(Tail(s))
    BY <1>2 DEF Elems
  <2>1. i - 1 \in 1 .. Len(s) - 1  BY <1>2
  <2>2. Tail(s)[i - 1] = s[i]  BY <2>1, <1>1, <1>2
  <2>3. QED  BY <2>1, <2>2, <1>2 DEF Elems
<1>4. Elems(Tail(s)) \subseteq Elems(s)
  <2> SUFFICES ASSUME NEW i \in 1 .. Len(s) - 1 PROVE Tail(s)[i] \in Elems(s)
    BY <1>2 DEF Elems
  <2>1. i + 1 \in 1 .. Len(s) /\ Tail(s)[i] = s[i + 1]  BY <1>1, <1>2
  <2>2. QED  BY <2>1, <1>2 DEF Elems
<1>5. Head(s) \in Elems(s)  BY <1>2 DEF Elems
<1>6. QED  BY <1>1, <1>3, <1>4, <1>5

\* A delivery joins behind what a worker holds.
LEMMA AppendKeepsHead ==
  ASSUME NEW S, NEW s \in Seq(S), NEW x \in S, s # <<>>
  PROVE  Append(s, x) # <<>> /\ Head(Append(s, x)) = Head(s)
<1>1. Len(s) \in Nat \ {0} /\ Head(s) = s[1]  BY EmptySeq
<1>2. /\ Append(s, x) \in Seq(S) /\ Len(Append(s, x)) = Len(s) + 1
      /\ Append(s, x)[1] = s[1]
  BY <1>1
<1>3. Append(s, x) # <<>>  BY <1>1, <1>2, EmptySeq
<1>4. QED  BY <1>1, <1>2, <1>3

LEMMA ElemsEmpty == Elems(<<>>) = {}
  BY DEF Elems

LEMMA ElemsOfSeq ==
  ASSUME NEW S, NEW s \in Seq(S)
  PROVE  Elems(s) \subseteq S
  BY DEF Elems

\* A slice within a sequence, as pages and chunks are.
LEMMA SliceOfSeq ==
  ASSUME NEW S, NEW s \in Seq(S), NEW m \in Nat \ {0}, NEW n \in Nat, n <= Len(s)
  PROVE  /\ SubSeq(s, m, n) \in Seq(S)
         /\ \A i \in m .. n : s[i] \in Elems(SubSeq(s, m, n))
         /\ Elems(SubSeq(s, m, n)) \subseteq Elems(s)
<1>1. Len(s) \in Nat /\ DOMAIN s = 1 .. Len(s) /\ \A i \in m .. n : s[i] \in S
  OBVIOUS
<1>2. /\ SubSeq(s, m, n) \in Seq(S)
      /\ Len(SubSeq(s, m, n)) = IF m <= n THEN n - m + 1 ELSE 0
      /\ \A i \in 1 .. n - m + 1 : SubSeq(s, m, n)[i] = s[m + i - 1]
  BY <1>1, SubSeqProperties
<1>3. DOMAIN SubSeq(s, m, n) = 1 .. n - m + 1
  <2>1. DOMAIN SubSeq(s, m, n) = 1 .. Len(SubSeq(s, m, n))  BY <1>2
  <2>2. CASE m <= n  BY <2>1, <2>2, <1>2
  <2>3. CASE ~(m <= n)
    <3>1. DOMAIN SubSeq(s, m, n) = {} /\ 1 .. n - m + 1 = {}  BY <2>1, <2>3, <1>2
    <3>2. QED  BY <3>1
  <2>4. QED  BY <2>2, <2>3
<1>4. ASSUME NEW i \in m .. n PROVE s[i] \in Elems(SubSeq(s, m, n))
  <2>1. i - m + 1 \in 1 .. n - m + 1  OBVIOUS
  <2>2. SubSeq(s, m, n)[i - m + 1] = s[i]  BY <2>1, <1>2
  <2>3. QED  BY <2>1, <2>2, <1>3 DEF Elems
<1>5. ASSUME NEW i \in 1 .. n - m + 1 PROVE SubSeq(s, m, n)[i] \in Elems(s)
  <2>1. m + i - 1 \in 1 .. Len(s)  BY <1>1
  <2>2. QED  BY <2>1, <1>1, <1>2 DEF Elems
<1>6. QED  BY <1>2, <1>3, <1>4, <1>5 DEF Elems

-----------------------------------------------------------------------------
(* Chunks, pages and inserts *)

\* The next chunk holds every order from the first one not yet sent on, up to
\* the chunk size.
LEMMA ChunkOrders ==
  ASSUME NEW s \in Seq(Orders), NEW start \in Nat
  PROVE  /\ ChunkFrom(s, start) \in Seq(Orders)
         /\ \A i \in DOMAIN s : start < i /\ i <= start + ChunkSize
                                  => s[i] \in Elems(ChunkFrom(s, start))
<1> DEFINE last == IF start + ChunkSize <= Len(s) THEN start + ChunkSize ELSE Len(s)
<1>1. Len(s) \in Nat /\ DOMAIN s = 1 .. Len(s)  OBVIOUS
<1>2. start + 1 \in Nat \ {0} /\ last \in Nat /\ last <= Len(s)
  BY <1>1, SizesAreNat
<1>3. ChunkFrom(s, start) = SubSeq(s, start + 1, last)  BY DEF ChunkFrom
<1>4. /\ SubSeq(s, start + 1, last) \in Seq(Orders)
      /\ \A i \in start + 1 .. last : s[i] \in Elems(SubSeq(s, start + 1, last))
  <2> HIDE DEF last
  <2> QED  BY <1>2, SliceOfSeq
<1>5. ASSUME NEW i \in DOMAIN s, start < i, i <= start + ChunkSize
      PROVE  i \in start + 1 .. last
  BY <1>1, <1>5, SizesAreNat
<1>6. QED  BY <1>3, <1>4, <1>5

\* A page is a list of orders that are on the book.
LEMMA PageOrders ==
  ASSUME NEW b \in Seq(Orders), NEW p \in Nat \ {0}
  PROVE  PageOf(b, p) \in Seq(Orders) /\ Elems(PageOf(b, p)) \subseteq Elems(b)
<1> DEFINE top == p * PageSize
           last == IF top <= Len(b) THEN top ELSE Len(b)
<1>1. Len(b) \in Nat /\ top \in Nat  BY SizesAreNat
<1>2. top - PageSize \in Nat
  <2>1. p - 1 \in Nat /\ PageSize \in Nat  BY SizesAreNat
  <2>2. (p - 1) * PageSize \in Nat  BY <2>1
  <2>3. (p - 1) * PageSize = p * PageSize - PageSize  BY <2>1
  <2>4. QED  BY <2>2, <2>3
<1>3. top - PageSize + 1 \in Nat \ {0} /\ last \in Nat /\ last <= Len(b)
  <2> HIDE DEF top
  <2> QED  BY <1>1, <1>2, SizesAreNat
<1>4. PageOf(b, p) = SubSeq(b, top - PageSize + 1, last)  BY DEF PageOf
<1> HIDE DEF top, last
<1>5. QED  BY <1>3, <1>4, SliceOfSeq

LEMMA PagesNat ==
  ASSUME NEW b \in Seq(Orders)
  PROVE  Pages(b) \in Nat
<1>1. Len(b) + PageSize - 1 \in Nat /\ PageSize \in Nat \ {0}  BY SizesAreNat
<1>2. QED  BY <1>1 DEF Pages

LEMMA CopiesNat ==
  ASSUME NEW c \in Chunks, NEW S \in SUBSET DOMAIN c.orders, NEW k
  PROVE  CopiesAt(k, c, S) \in Nat
<1> DEFINE T == {i \in S : <<c.job, c.orders[i]>> = k}
<1>1. c.orders \in Seq(Orders)  BY DEF Chunks
<1>2. DOMAIN c.orders = 1 .. Len(c.orders) /\ Len(c.orders) \in Nat  BY <1>1
<1>3. IsFiniteSet(1 .. Len(c.orders))  BY <1>2, FS_Interval
<1>4. T \subseteq 1 .. Len(c.orders)  BY <1>2
<1>5. IsFiniteSet(T)  BY <1>3, <1>4, FS_Subset
<1>6. QED  BY <1>5, FS_CardinalityType DEF CopiesAt

LEMMA InsertRows ==
  ASSUME NEW r \in [Keys -> Nat], NEW c \in Chunks, NEW S \in SUBSET DOMAIN c.orders
  PROVE  /\ Insert(r, c, S) \in [Keys -> Nat]
         /\ UniqueIndex /\ (\A k \in Keys : r[k] <= 1)
              => \A k \in Keys : Insert(r, c, S)[k] <= 1
         /\ KeysAt(c, S) \subseteq Keys
<1>1. \A k : CopiesAt(k, c, S) \in Nat  BY CopiesNat
<1>2. Insert(r, c, S) \in [Keys -> Nat]
  BY <1>1 DEF Insert
<1>3. KeysAt(c, S) \subseteq Keys
  <2>1. c.job \in Jobs /\ c.orders \in Seq(Orders)  BY DEF Chunks
  <2>2. \A i \in DOMAIN c.orders : c.orders[i] \in Orders  BY <2>1
  <2>3. QED  BY <2>1, <2>2 DEF KeysAt, Keys
<1>4. ASSUME UniqueIndex, \A k \in Keys : r[k] <= 1, NEW k \in Keys
      PROVE  Insert(r, c, S)[k] <= 1
  BY <1>4 DEF Insert
<1>5. QED  BY <1>2, <1>3, <1>4

-----------------------------------------------------------------------------
(* Type correctness *)

LEMMA InitType == Init => TypeOK
<1> SUFFICES ASSUME Init PROVE TypeOK  OBVIOUS
<1>1. Book0 \in [Regions -> Seq(Orders)]  BY BookIsOfOrders
<1>2. \A r \in Regions : Elems(Book0[r]) \subseteq Orders  BY <1>1, ElemsOfSeq
<1>3. seenOn \in [Regions -> SUBSET Orders]  BY <1>2 DEF Init
<1>4. book \in [Regions -> Seq(Orders)]  BY <1>1 DEF Init
<1>5. QED  BY <1>3, <1>4 DEF Init, TypeOK

LEMMA DispatcherType ==
  ASSUME TypeOK, NEW u \in Runs, Dispatcher(u)
  PROVE  TypeOK'
<1> USE DEF TypeOK, dispatchVars, fetchVars, writeVars, bookVars
<1>1. CASE DispatchStart(u)  BY <1>1 DEF DispatchStart
<1>2. CASE DispatchEnd(u)  BY <1>2 DEF DispatchEnd
<1>3. CASE DispatchFail(u)  BY <1>3 DEF DispatchFail, Fault
<1>4. ASSUME NEW r \in Regions, DispatchPublish(u, r) PROVE TypeOK'
  <2>1. [region |-> r, run |-> u] \in Jobs  BY DEF Jobs
  <2>2. jobs' \in Seq(Jobs)  BY <1>4, <2>1, ElemsAppend DEF DispatchPublish
  <2>3. QED  BY <1>4, <2>2 DEF DispatchPublish
<1>5. QED  BY <1>1, <1>2, <1>3, <1>4 DEF Dispatcher

\* Jobs put back by a worker that exits or loses its connection.
LEMMA RequeueJobsType ==
  ASSUME TypeOK, NEW f \in FetchWorkers, jobs' = unackedJ[f] \o jobs,
         unackedJ' = [unackedJ EXCEPT ![f] = <<>>]
  PROVE  jobs' \in Seq(Jobs) /\ unackedJ' \in [FetchWorkers -> Seq(Jobs)]
  BY ElemsConcat DEF TypeOK

\* A fetch whose page was read is again a fetch.
LEMMA AfterPageType ==
  ASSUME NEW b \in BusyFetch, NEW os \in Seq(Orders), NEW total \in Nat,
         NEW page \in Nat \ {0}, NEW phase \in {"fetch", "publish"}, NEW seen \in Nat,
         NEW first \in SUBSET Orders
  PROVE  [b EXCEPT !.orders = os, !.total = total, !.page = page,
                   !.phase = phase, !.seen = seen, !.first = first] \in BusyFetch
  BY DEF BusyFetch

\* Reading a page changes the worker alone.
LEMMA PageFrame ==
  ASSUME NEW f \in FetchWorkers, FetchPage(f)
  PROVE  UNCHANGED <<dispatchVars, jobs, unackedJ, captured, acked, results, unackedC, ww,
                     rows, stored, bookVars, faults>>
  BY DEF FetchPage, writeVars

\* What the worker has after the page.
LEMMA PageRead ==
  ASSUME NEW f \in FetchWorkers, FetchPage(f)
  PROVE  LET b == book[fw[f].job.region]
             total == IF fw[f].page = 1 THEN Pages(b) ELSE fw[f].total
         IN  fw' = [fw EXCEPT ![f] =
               [fw[f] EXCEPT !.orders = fw[f].orders \o PageOf(b, fw[f].page),
                  !.total = total, !.page = fw[f].page + 1,
                  !.phase = IF fw[f].page + 1 > total THEN "publish" ELSE "fetch",
                  !.seen = IF fw[f].page = 1 THEN version[fw[f].job.region] ELSE fw[f].seen,
                  !.first = IF fw[f].page = 1 THEN Elems(b) ELSE fw[f].first]]
  BY DEF FetchPage

LEMMA AfterPublishType ==
  ASSUME NEW b \in BusyFetch, NEW sent \in Nat
  PROVE  [b EXCEPT !.sent = sent] \in BusyFetch
  BY DEF BusyFetch

LEMMA FetchType ==
  ASSUME TypeOK, InHand, NEW f \in FetchWorkers,
         DeliverJob(f) \/ FetchStep(f) \/ FetchFault(f)
  PROVE  TypeOK'
<1> USE DEF TypeOK, dispatchVars, fetchVars, writeVars, bookVars
<1>0. /\ fw[f] \in BusyFetch \cup {IdleFetch}
      /\ unackedJ[f] \in Seq(Jobs)
      /\ fw[f] # IdleFetch => fw[f] \in BusyFetch
  OBVIOUS
<1>1. CASE DeliverJob(f)
  <2>1. Head(jobs) \in Jobs /\ Tail(jobs) \in Seq(Jobs)
    BY <1>1, ElemsHeadTail DEF DeliverJob
  <2>2. Append(unackedJ[f], Head(jobs)) \in Seq(Jobs)  BY <2>1
  <2>3. QED  BY <1>1, <2>1, <2>2 DEF DeliverJob
<1>2. CASE TakeJob(f)
  <2>1. Head(unackedJ[f]) \in Jobs  BY <1>2, <1>0, ElemsHeadTail DEF TakeJob
  <2>2. version[Head(unackedJ[f]).region] \in Nat  BY <2>1 DEF Jobs
  <2>3. fw'[f] \in BusyFetch  BY <1>2, <2>1, <2>2, EmptySeq DEF TakeJob, BusyFetch
  <2>4. QED  BY <1>2, <2>3 DEF TakeJob
<1>3. CASE FetchPage(f)
  <2> DEFINE b == book[fw[f].job.region]
             total == IF fw[f].page = 1 THEN Pages(b) ELSE fw[f].total
             fetched == fw[f].orders \o PageOf(b, fw[f].page)
             phase == IF fw[f].page + 1 > total THEN "publish" ELSE "fetch"
             seen == IF fw[f].page = 1 THEN version[fw[f].job.region] ELSE fw[f].seen
             next == fw[f].page + 1
             first == IF fw[f].page = 1 THEN Elems(b) ELSE fw[f].first
             after == [fw[f] EXCEPT !.orders = fetched, !.total = total,
                         !.page = next, !.phase = phase, !.seen = seen,
                         !.first = first]
  <2>1. fw[f] \in BusyFetch  BY <1>3, <1>0 DEF FetchPage, IdleFetch
  <2>2. b \in Seq(Orders) /\ version[fw[f].job.region] \in Nat
    BY <2>1 DEF BusyFetch, Jobs
  <2>3. fw[f].page \in Nat \ {0} /\ fw[f].orders \in Seq(Orders)  BY <2>1 DEF BusyFetch
  <2>4. PageOf(b, fw[f].page) \in Seq(Orders)  BY <2>2, <2>3, PageOrders
  <2>5. fetched \in Seq(Orders)  BY <2>3, <2>4, ElemsConcat
  <2>6. total \in Nat  BY <2>1, <2>2, PagesNat DEF BusyFetch
  <2>7. phase \in {"fetch", "publish"} /\ seen \in Nat /\ next \in Nat \ {0}
    BY <2>1, <2>2, <2>3 DEF BusyFetch
  <2>f. first \in SUBSET Orders  BY <2>1, <2>2, ElemsOfSeq DEF BusyFetch
  <2>8. fw' = [fw EXCEPT ![f] = after]
    BY <1>3, PageRead
  <2> HIDE DEF b, total, fetched, phase, seen, next, first
  <2>9. after \in BusyFetch  BY <2>1, <2>5, <2>6, <2>7, <2>f, AfterPageType
  <2> HIDE DEF after
  <2>10. fw' \in [FetchWorkers -> BusyFetch \cup {IdleFetch}]  BY <2>8, <2>9
  <2>11. QED  BY <1>3, <2>10 DEF FetchPage
<1>4. CASE PublishChunk(f)
  <2> DEFINE after == [fw[f] EXCEPT !.sent = fw[f].sent + ChunkSize]
  <2>1. fw[f] \in BusyFetch  BY <1>4, <1>0 DEF PublishChunk, IdleFetch
  <2>2. ChunkFrom(fw[f].orders, fw[f].sent) \in Seq(Orders)
    BY <2>1, ChunkOrders DEF BusyFetch
  <2>3. results' \in Seq(Chunks)
    BY <1>4, <2>1, <2>2, ElemsAppend DEF PublishChunk, Chunks, BusyFetch
  <2>4. after \in BusyFetch
    <3>1. fw[f].sent + ChunkSize \in Nat  BY <2>1, SizesAreNat DEF BusyFetch
    <3>2. QED  BY <2>1, <3>1, AfterPublishType
  <2>5. fw' = [fw EXCEPT ![f] = after]  BY <1>4 DEF PublishChunk
  <2> HIDE DEF after
  <2>6. fw' \in [FetchWorkers -> BusyFetch \cup {IdleFetch}]  BY <2>4, <2>5
  <2>7. QED  BY <1>4, <2>3, <2>6 DEF PublishChunk
<1>5. CASE AckJob(f)
  <2>1. fw[f] \in BusyFetch  BY <1>5, <1>0 DEF AckJob, IdleFetch
  <2>2. fw[f].job \in Jobs /\ Elems(fw[f].orders) \subseteq Orders
    BY <2>1, ElemsOfSeq DEF BusyFetch
  <2>3. unackedJ[f] # <<>>
    BY <1>5, <2>1 DEF AckJob, InHand, JobInHand, IdleFetch
  <2>4. Tail(unackedJ[f]) \in Seq(Jobs)  BY <2>3, <1>0, ElemsHeadTail
  <2>5. QED  BY <1>5, <2>2, <2>4 DEF AckJob
<1>6. CASE StaleAck(f)
  BY <1>6, RequeueJobsType DEF StaleAck, FetchExits
<1>7. CASE FetchCrash(f)
  BY <1>7, RequeueJobsType DEF FetchCrash, FetchExits, Fault
<1>8. CASE FetchConnectionLost(f)
  <2> DEFINE after == [fw[f] EXCEPT !.stale = TRUE]
  <2>1. jobs' \in Seq(Jobs) /\ unackedJ' \in [FetchWorkers -> Seq(Jobs)]
    BY <1>8, RequeueJobsType DEF FetchConnectionLost
  <2>2. after \in BusyFetch  BY <1>8, <1>0 DEF FetchConnectionLost, BusyFetch
  <2>3. fw' = [fw EXCEPT ![f] = after]  BY <1>8 DEF FetchConnectionLost
  <2> HIDE DEF after
  <2>4. fw' \in [FetchWorkers -> BusyFetch \cup {IdleFetch}]  BY <2>2, <2>3
  <2>5. QED  BY <1>8, <2>1, <2>4 DEF FetchConnectionLost, Fault
<1>9. QED
  BY <1>1, <1>2, <1>3, <1>4, <1>5, <1>6, <1>7, <1>8 DEF FetchStep, FetchFault

\* Chunks put back by a worker that exits or loses its connection.
LEMMA RequeueChunksType ==
  ASSUME TypeOK, NEW w \in WriteWorkers, results' = unackedC[w] \o results,
         unackedC' = [unackedC EXCEPT ![w] = <<>>]
  PROVE  results' \in Seq(Chunks) /\ unackedC' \in [WriteWorkers -> Seq(Chunks)]
  BY ElemsConcat DEF TypeOK

LEMMA WriteType ==
  ASSUME TypeOK, InHand, NEW w \in WriteWorkers,
         DeliverChunk(w) \/ WriteStep(w) \/ WriteFault(w)
  PROVE  TypeOK'
<1> USE DEF TypeOK, dispatchVars, fetchVars, writeVars, bookVars
<1>0. /\ ww[w] \in BusyWrite \cup {IdleWrite}
      /\ unackedC[w] \in Seq(Chunks)
      /\ ww[w] # IdleWrite => ww[w] \in BusyWrite /\ ww[w].chunk \in Chunks
  BY DEF BusyWrite
<1>1. CASE DeliverChunk(w)
  <2>1. Head(results) \in Chunks /\ Tail(results) \in Seq(Chunks)
    BY <1>1, ElemsHeadTail DEF DeliverChunk
  <2>2. Append(unackedC[w], Head(results)) \in Seq(Chunks)  BY <2>1
  <2>3. QED  BY <1>1, <2>1, <2>2 DEF DeliverChunk
<1>2. CASE TakeChunk(w)
  <2>1. Head(unackedC[w]) \in Chunks  BY <1>2, <1>0, ElemsHeadTail DEF TakeChunk
  <2>2. ww'[w] \in BusyWrite  BY <1>2, <2>1 DEF TakeChunk, BusyWrite
  <2>3. QED  BY <1>2, <2>2 DEF TakeChunk
<1>3. CASE ApplyChunk(w)
  <2> DEFINE after == [ww[w] EXCEPT !.phase = "ack"]
             c == ww[w].chunk
  <2>1. ww[w] \in BusyWrite /\ c \in Chunks  BY <1>3, <1>0 DEF ApplyChunk, IdleWrite
  <2>2. after \in BusyWrite  BY <2>1 DEF BusyWrite
  <2>3. ww' = [ww EXCEPT ![w] = after]  BY <1>3 DEF ApplyChunk
  <2> HIDE DEF after
  <2>4. ww' \in [WriteWorkers -> BusyWrite \cup {IdleWrite}]  BY <2>2, <2>3
  <2>5. rows' = Insert(rows, c, DOMAIN c.orders) /\ stored' = stored \cup KeysAt(c, DOMAIN c.orders)
    BY <1>3 DEF ApplyChunk
  <2>6. rows' \in [Keys -> Nat] /\ stored' \in SUBSET Keys
    <3> HIDE DEF c
    <3>1. /\ Insert(rows, c, DOMAIN c.orders) \in [Keys -> Nat]
          /\ KeysAt(c, DOMAIN c.orders) \subseteq Keys
      BY <2>1, InsertRows
    <3> QED  BY <2>5, <3>1
  <2>7. QED  BY <1>3, <2>4, <2>6 DEF ApplyChunk
<1>4. CASE AckChunk(w)
  <2>1. unackedC[w] # <<>>
    BY <1>4, <1>0 DEF AckChunk, InHand, ChunkInHand, IdleWrite
  <2>2. Tail(unackedC[w]) \in Seq(Chunks)  BY <2>1, <1>0, ElemsHeadTail
  <2>3. QED  BY <1>4, <2>2 DEF AckChunk
<1>5. CASE StaleChunkAck(w)
  BY <1>5, RequeueChunksType DEF StaleChunkAck, WriteExits
<1>6. CASE WriteCrash(w)
  BY <1>6, RequeueChunksType DEF WriteCrash, WriteExits, Fault
<1>7. CASE ApplyPartially(w)
  <2> DEFINE c == ww[w].chunk
  <2>1. c \in Chunks  BY <1>7, <1>0 DEF ApplyPartially, IdleWrite
  <2>2. PICK S \in SUBSET DOMAIN c.orders :
          rows' = Insert(rows, c, S) /\ stored' = stored \cup KeysAt(c, S)
    BY <1>7 DEF ApplyPartially
  <2>3. rows' \in [Keys -> Nat] /\ stored' \in SUBSET Keys
    BY <2>1, <2>2, InsertRows
  <2>4. QED  BY <1>7, <2>3, RequeueChunksType DEF ApplyPartially, WriteExits, Fault
<1>8. CASE WriteConnectionLost(w)
  <2> DEFINE after == [ww[w] EXCEPT !.stale = TRUE]
  <2>1. after \in BusyWrite  BY <1>8, <1>0 DEF WriteConnectionLost, BusyWrite
  <2>2. ww' = [ww EXCEPT ![w] = after]  BY <1>8 DEF WriteConnectionLost
  <2> HIDE DEF after
  <2>3. ww' \in [WriteWorkers -> BusyWrite \cup {IdleWrite}]  BY <2>1, <2>2
  <2>4. QED  BY <1>8, <2>3, RequeueChunksType DEF WriteConnectionLost, Fault
<1>9. QED
  BY <1>1, <1>2, <1>3, <1>4, <1>5, <1>6, <1>7, <1>8 DEF WriteStep, WriteFault

\* An order that goes leaves the rest alone, but for the version of the book.
LEMMA GoneFrame ==
  ASSUME NEW r \in Regions, OrderGone(r)
  PROVE  /\ version' = [version EXCEPT ![r] = @ + 1]
         /\ UNCHANGED <<dispatchVars, fetchVars, results, writeVars, seenOn, faults>>
  BY DEF OrderGone

LEMMA EnvironmentType ==
  ASSUME TypeOK, \E r \in Markets : BookChange(r)
  PROVE  TypeOK'
<1> USE DEF TypeOK, dispatchVars, fetchVars, writeVars, bookVars
<1>1. ASSUME NEW r \in Regions, OrderGone(r) PROVE TypeOK'
  <2> DEFINE b == book[r]
  <2>1. PICK i \in DOMAIN b :
          book' = [book EXCEPT ![r] = SubSeq(b, 1, i - 1) \o SubSeq(b, i + 1, Len(b))]
    BY <1>1 DEF OrderGone
  <2>2. b \in Seq(Orders) /\ Len(b) \in Nat /\ i \in 1 .. Len(b)  OBVIOUS
  <2>3. i - 1 \in Nat /\ i - 1 <= Len(b) /\ i + 1 \in Nat \ {0} /\ 1 \in Nat \ {0}  BY <2>2
  <2>4. SubSeq(b, 1, i - 1) \in Seq(Orders) /\ SubSeq(b, i + 1, Len(b)) \in Seq(Orders)
    <3> HIDE DEF b
    <3> QED  BY <2>2, <2>3, SliceOfSeq
  <2>5. SubSeq(b, 1, i - 1) \o SubSeq(b, i + 1, Len(b)) \in Seq(Orders)
    BY <2>4, ElemsConcat
  <2>6. book' \in [Regions -> Seq(Orders)]  BY <2>1, <2>5
  <2>7. UNCHANGED <<dispatchVars, fetchVars, results, writeVars, seenOn, faults>>
    BY <1>1, GoneFrame
  <2>8. version' \in [Regions -> Nat]
    <3>1. version' = [version EXCEPT ![r] = version[r] + 1] /\ version[r] + 1 \in Nat
      BY <1>1, GoneFrame
    <3> QED  BY <3>1
  <2> HIDE DEF b
  <2>9. QED  BY <2>6, <2>7, <2>8
<1>2. ASSUME NEW r \in Regions, NEW o \in Orders, OrderPlaced(r, o) PROVE TypeOK'
  <2>1. <<o>> \in Seq(Orders) /\ book[r] \in Seq(Orders)  OBVIOUS
  <2>2. <<o>> \o book[r] \in Seq(Orders)  BY <2>1, ElemsConcat
  <2>3. book' \in [Regions -> Seq(Orders)]
    <3>1. book' = [book EXCEPT ![r] = <<o>> \o book[r]]  BY <1>2 DEF OrderPlaced
    <3> QED  BY <2>2, <3>1
  <2>4. seenOn' \in [Regions -> SUBSET Orders] /\ version' \in [Regions -> Nat]
    BY <1>2 DEF OrderPlaced
  <2>5. QED  BY <1>2, <2>3, <2>4 DEF OrderPlaced
<1>3. QED  BY <1>1, <1>2, BookIsOfOrders DEF BookChange

-----------------------------------------------------------------------------
(* A worker acknowledges what it holds *)

\* Deliveries only join behind what a worker holds, and an exit or a lost
\* connection that takes them away leaves it idle or stale.
LEMMA InHandStep ==
  ASSUME TypeOK, InHand, [Next]_vars
  PROVE  InHand'
<1> USE DEF TypeOK, InHand, JobInHand, ChunkInHand, dispatchVars, fetchVars, writeVars, bookVars
<1>0. /\ \A f \in FetchWorkers : unackedJ[f] \in Seq(Jobs) /\ fw[f] \in BusyFetch \cup {IdleFetch}
      /\ \A w \in WriteWorkers : unackedC[w] \in Seq(Chunks) /\ ww[w] \in BusyWrite \cup {IdleWrite}
      /\ IdleFetch \notin BusyFetch /\ IdleWrite \notin BusyWrite
  BY DEF IdleFetch, BusyFetch, IdleWrite, BusyWrite
<1>1. CASE UNCHANGED vars  BY <1>1 DEF vars
<1>2. ASSUME NEW u \in Runs, Dispatcher(u) PROVE InHand'
  BY <1>2 DEF Dispatcher, DispatchStart, DispatchPublish, DispatchEnd, DispatchFail
<1>3. ASSUME NEW f \in FetchWorkers, DeliverJob(f) PROVE InHand'
  <2>1. /\ Head(jobs) \in Jobs
        /\ unackedJ' = [unackedJ EXCEPT ![f] = Append(unackedJ[f], Head(jobs))]
        /\ UNCHANGED <<fw, ww, unackedC>>
    BY <1>3, ElemsHeadTail DEF DeliverJob
  <2>2. unackedJ[f] # <<>> => /\ Append(unackedJ[f], Head(jobs)) # <<>>
                              /\ Head(Append(unackedJ[f], Head(jobs))) = Head(unackedJ[f])
    BY <2>1, <1>0, AppendKeepsHead
  <2>3. QED  BY <2>1, <2>2
<1>4. ASSUME NEW f \in FetchWorkers, FetchStep(f) \/ FetchFault(f) PROVE InHand'
  <2>1. CASE TakeJob(f)  BY <2>1 DEF TakeJob
  <2>2. CASE FetchPage(f)
    <3>1. fw[f] \in BusyFetch  BY <2>2, <1>0 DEF FetchPage, IdleFetch
    <3>2. fw'[f].job = fw[f].job /\ fw'[f].stale = fw[f].stale
      BY <2>2, <3>1 DEF FetchPage, BusyFetch
    <3>3. \A g \in FetchWorkers \ {f} : fw'[g] = fw[g]  BY <2>2 DEF FetchPage
    <3>4. UNCHANGED <<unackedJ, ww, unackedC>>  BY <2>2 DEF FetchPage
    <3>5. QED  BY <1>0, <3>1, <3>2, <3>3, <3>4
  <2>3. CASE PublishChunk(f)
    <3>1. fw[f] \in BusyFetch  BY <2>3, <1>0 DEF PublishChunk, IdleFetch
    <3>2. fw'[f].job = fw[f].job /\ fw'[f].stale = fw[f].stale
      BY <2>3, <3>1 DEF PublishChunk, BusyFetch
    <3>3. \A g \in FetchWorkers \ {f} : fw'[g] = fw[g]  BY <2>3 DEF PublishChunk
    <3>4. UNCHANGED <<unackedJ, ww, unackedC>>  BY <2>3 DEF PublishChunk
    <3>5. QED  BY <1>0, <3>1, <3>2, <3>3, <3>4
  <2>4. CASE AckJob(f)  BY <2>4 DEF AckJob
  <2>5. CASE StaleAck(f) \/ FetchCrash(f)
    BY <2>5 DEF StaleAck, FetchCrash, FetchExits
  <2>6. CASE FetchConnectionLost(f)
    <3>1. fw[f] \in BusyFetch  BY <2>6, <1>0 DEF FetchConnectionLost
    <3>2. fw'[f].stale  BY <2>6, <3>1 DEF FetchConnectionLost, BusyFetch
    <3>3. QED  BY <2>6, <3>2 DEF FetchConnectionLost
  <2>7. QED  BY <1>4, <2>1, <2>2, <2>3, <2>4, <2>5, <2>6 DEF FetchStep, FetchFault
<1>5. ASSUME NEW w \in WriteWorkers, DeliverChunk(w) PROVE InHand'
  <2>1. /\ Head(results) \in Chunks
        /\ unackedC' = [unackedC EXCEPT ![w] = Append(unackedC[w], Head(results))]
        /\ UNCHANGED <<fw, ww, unackedJ>>
    BY <1>5, ElemsHeadTail DEF DeliverChunk
  <2>2. unackedC[w] # <<>> => /\ Append(unackedC[w], Head(results)) # <<>>
                              /\ Head(Append(unackedC[w], Head(results))) = Head(unackedC[w])
    BY <2>1, <1>0, AppendKeepsHead
  <2>3. QED  BY <2>1, <2>2
<1>6. ASSUME NEW w \in WriteWorkers, WriteStep(w) \/ WriteFault(w) PROVE InHand'
  <2>1. CASE TakeChunk(w)  BY <2>1 DEF TakeChunk
  <2>2. CASE ApplyChunk(w)
    <3>1. ww[w] \in BusyWrite  BY <2>2, <1>0 DEF ApplyChunk, IdleWrite
    <3>2. ww'[w].chunk = ww[w].chunk /\ ww'[w].stale = ww[w].stale
      BY <2>2, <3>1 DEF ApplyChunk, BusyWrite
    <3>3. \A v \in WriteWorkers \ {w} : ww'[v] = ww[v]  BY <2>2 DEF ApplyChunk
    <3>4. UNCHANGED <<unackedJ, fw, unackedC>>  BY <2>2 DEF ApplyChunk
    <3>5. QED  BY <1>0, <3>1, <3>2, <3>3, <3>4
  <2>3. CASE AckChunk(w)  BY <2>3 DEF AckChunk
  <2>4. CASE StaleChunkAck(w) \/ WriteCrash(w) \/ ApplyPartially(w)
    BY <2>4 DEF StaleChunkAck, WriteCrash, ApplyPartially, WriteExits
  <2>5. CASE WriteConnectionLost(w)
    <3>1. ww[w] \in BusyWrite  BY <2>5, <1>0 DEF WriteConnectionLost
    <3>2. ww'[w].stale  BY <2>5, <3>1 DEF WriteConnectionLost, BusyWrite
    <3>3. QED  BY <2>5, <3>2 DEF WriteConnectionLost
  <2>6. QED  BY <1>6, <2>1, <2>2, <2>3, <2>4, <2>5 DEF WriteStep, WriteFault
<1>7. ASSUME \E r \in Markets : BookChange(r) PROVE InHand'
  BY <1>7 DEF BookChange, OrderGone, OrderPlaced
<1>8. QED  BY <1>1, <1>2, <1>3, <1>4, <1>5, <1>6, <1>7 DEF Next

\* The variables keep their types, in every behaviour.
THEOREM TypeCorrect == Spec => [](TypeOK /\ InHand)
<1>1. Init => TypeOK /\ InHand
  BY InitType DEF Init, InHand, JobInHand, ChunkInHand
<1>2. TypeOK /\ InHand /\ [Next]_vars => (TypeOK /\ InHand)'
  <2> SUFFICES ASSUME TypeOK, InHand, [Next]_vars PROVE TypeOK' /\ InHand'  OBVIOUS
  <2>1. CASE UNCHANGED vars
    BY <2>1, InHandStep DEF TypeOK, vars, dispatchVars, fetchVars, writeVars, bookVars
  <2>2. CASE Next
    BY <2>2, InHandStep, DispatcherType, FetchType, WriteType, EnvironmentType DEF Next
  <2>3. QED  BY <2>1, <2>2
<1>3. QED  BY <1>1, <1>2, PTL DEF Spec

-----------------------------------------------------------------------------
(* No order is lost *)

\* Chunks put back on the queue are still open.
LEMMA RequeueKeepsChunks ==
  ASSUME TypeOK, NEW w \in WriteWorkers, results' = unackedC[w] \o results,
         unackedC' = [unackedC EXCEPT ![w] = <<>>]
  PROVE  OpenChunks \subseteq OpenChunks'
<1>1. results \in Seq(Chunks) /\ \A v \in WriteWorkers : unackedC[v] \in Seq(Chunks)
  BY DEF TypeOK
<1>2. Elems(results') = Elems(unackedC[w]) \cup Elems(results)  BY <1>1, ElemsConcat
<1>3. \A v \in WriteWorkers \ {w} : unackedC'[v] = unackedC[v]  BY DEF TypeOK
<1>4. QED  BY <1>2, <1>3 DEF OpenChunks

\* Only an insert changes the collection.
LEMMA RowsFrame ==
  ASSUME [Next]_vars
  PROVE  \/ UNCHANGED <<rows, stored>>
         \/ \E w \in WriteWorkers : ApplyChunk(w) \/ ApplyPartially(w)
<1> USE DEF dispatchVars, fetchVars, writeVars, bookVars
<1>1. CASE UNCHANGED vars
  BY <1>1 DEF vars
<1>2. ASSUME NEW u \in Runs, Dispatcher(u) PROVE UNCHANGED <<rows, stored>>
  BY <1>2 DEF Dispatcher, DispatchStart, DispatchPublish, DispatchEnd, DispatchFail
<1>3. ASSUME NEW f \in FetchWorkers, DeliverJob(f) \/ FetchStep(f)
      PROVE  UNCHANGED <<rows, stored>>
  BY <1>3 DEF DeliverJob, FetchStep, TakeJob, FetchPage, PublishChunk, AckJob, StaleAck,
              FetchExits
<1>4. ASSUME NEW f \in FetchWorkers, FetchFault(f) PROVE UNCHANGED <<rows, stored>>
  BY <1>4 DEF FetchFault, FetchCrash, FetchConnectionLost, FetchExits
<1>5. ASSUME NEW w \in WriteWorkers,
             DeliverChunk(w) \/ TakeChunk(w) \/ AckChunk(w) \/ StaleChunkAck(w)
      PROVE  UNCHANGED <<rows, stored>>
  BY <1>5 DEF DeliverChunk, TakeChunk, AckChunk, StaleChunkAck
<1>6. ASSUME NEW w \in WriteWorkers, WriteCrash(w) \/ WriteConnectionLost(w)
      PROVE  UNCHANGED <<rows, stored>>
  BY <1>6 DEF WriteCrash, WriteConnectionLost
<1>7. ASSUME NEW r \in Markets, BookChange(r) PROVE UNCHANGED <<rows, stored>>
  BY <1>7 DEF BookChange, OrderGone, OrderPlaced
<1> QED
  BY <1>1, <1>2, <1>3, <1>4, <1>5, <1>6, <1>7 DEF Next, WriteStep, WriteFault

\* A step keeps what is stored, and a chunk only stops being open when its
\* orders are stored.
LEMMA ChunksKept ==
  ASSUME TypeOK, InHand, AppliedIsStored, [Next]_vars
  PROVE  /\ stored \subseteq stored'
         /\ \A c \in OpenChunks : c \in OpenChunks' \/ KeysAt(c, DOMAIN c.orders) \subseteq stored
<1> USE DEF dispatchVars, fetchVars, writeVars, bookVars
<1>0. /\ results \in Seq(Chunks)
      /\ \A v \in WriteWorkers : unackedC[v] \in Seq(Chunks)
      /\ unackedC \in [WriteWorkers -> Seq(Chunks)]
  BY DEF TypeOK
<1>1. stored \subseteq stored'
  BY RowsFrame DEF ApplyChunk, ApplyPartially
<1>2. CASE UNCHANGED <<results, unackedC>>
  BY <1>1, <1>2 DEF OpenChunks
<1>3. ASSUME NEW f \in FetchWorkers, PublishChunk(f)
      PROVE  OpenChunks \subseteq OpenChunks'
  <2>1. fw[f] \in BusyFetch
    BY <1>3 DEF TypeOK, PublishChunk, IdleFetch
  <2>2. ChunkFrom(fw[f].orders, fw[f].sent) \in Seq(Orders)
    BY <2>1, ChunkOrders DEF BusyFetch
  <2> DEFINE c == [job |-> fw[f].job, orders |-> ChunkFrom(fw[f].orders, fw[f].sent)]
  <2>c. c \in Chunks /\ results' = Append(results, c)
    BY <1>3, <2>1, <2>2 DEF PublishChunk, Chunks, BusyFetch
  <2> HIDE DEF c
  <2>3. Elems(results) \subseteq Elems(results')  BY <1>0, <2>c, ElemsAppend
  <2>4. QED  BY <1>3, <2>3 DEF OpenChunks, PublishChunk
<1>4. ASSUME NEW w \in WriteWorkers, DeliverChunk(w)
      PROVE  OpenChunks \subseteq OpenChunks'
  <2>1. /\ Head(results) \in Chunks
        /\ Elems(results) = {Head(results)} \cup Elems(Tail(results))
    BY <1>0, <1>4, ElemsHeadTail DEF DeliverChunk
  <2>2. Elems(Append(unackedC[w], Head(results))) = Elems(unackedC[w]) \cup {Head(results)}
    BY <1>0, <2>1, ElemsAppend
  <2>3. /\ results' = Tail(results)
        /\ unackedC'[w] = Append(unackedC[w], Head(results))
        /\ \A v \in WriteWorkers \ {w} : unackedC'[v] = unackedC[v]
    BY <1>0, <1>4 DEF DeliverChunk
  <2>4. QED  BY <2>1, <2>2, <2>3 DEF OpenChunks
<1>5. ASSUME NEW w \in WriteWorkers, AckChunk(w), NEW c \in OpenChunks
      PROVE  c \in OpenChunks' \/ KeysAt(c, DOMAIN c.orders) \subseteq stored
  <2>1. /\ unackedC[w] # <<>> /\ Head(unackedC[w]) = ww[w].chunk
        /\ KeysAt(ww[w].chunk, DOMAIN ww[w].chunk.orders) \subseteq stored
    BY <1>5 DEF AckChunk, InHand, ChunkInHand, AppliedIsStored, IdleWrite
  <2>2. Elems(unackedC[w]) = {Head(unackedC[w])} \cup Elems(Tail(unackedC[w]))
    BY <1>0, <2>1, ElemsHeadTail
  <2>3. /\ results' = results /\ unackedC'[w] = Tail(unackedC[w])
        /\ \A v \in WriteWorkers \ {w} : unackedC'[v] = unackedC[v]
    BY <1>0, <1>5 DEF AckChunk
  <2>4. QED  BY <2>1, <2>2, <2>3 DEF OpenChunks
<1>6. ASSUME NEW w \in WriteWorkers,
             StaleChunkAck(w) \/ WriteCrash(w) \/ ApplyPartially(w) \/ WriteConnectionLost(w)
      PROVE  OpenChunks \subseteq OpenChunks'
  <2>1. results' = unackedC[w] \o results /\ unackedC' = [unackedC EXCEPT ![w] = <<>>]
    BY <1>6 DEF StaleChunkAck, WriteCrash, ApplyPartially, WriteConnectionLost, WriteExits
  <2>2. QED  BY <2>1, RequeueKeepsChunks
<1>7. \/ UNCHANGED <<results, unackedC>>
      \/ \E f \in FetchWorkers : PublishChunk(f)
      \/ \E w \in WriteWorkers : \/ DeliverChunk(w) \/ AckChunk(w)
            \/ StaleChunkAck(w) \/ WriteCrash(w) \/ ApplyPartially(w) \/ WriteConnectionLost(w)
  BY PageFrame DEF Next, vars, Dispatcher, DispatchStart, DispatchPublish, DispatchEnd, DispatchFail,
         DeliverJob, FetchStep, TakeJob, AckJob, StaleAck,
         FetchFault, FetchCrash, FetchConnectionLost, FetchExits, WriteStep,
         TakeChunk, ApplyChunk, WriteFault, BookChange, OrderGone, OrderPlaced
<1>8. QED  BY <1>1, <1>2, <1>3, <1>4, <1>5, <1>6, <1>7

\* What is accounted for stays so.
LEMMA AccountedKept ==
  ASSUME TypeOK, InHand, AppliedIsStored, [Next]_vars, NEW j, NEW o, Accounted(j, o)
  PROVE  Accounted(j, o)'
<1>1. CASE <<j, o>> \in stored  BY <1>1, ChunksKept DEF Accounted
<1>2. CASE \E c \in OpenChunks : c.job = j /\ o \in Elems(c.orders)
  <2>1. PICK c \in OpenChunks : c.job = j /\ o \in Elems(c.orders)  BY <1>2
  <2>2. CASE c \in OpenChunks'  BY <2>1, <2>2 DEF Accounted
  <2>3. CASE KeysAt(c, DOMAIN c.orders) \subseteq stored
    <3>1. <<j, o>> \in KeysAt(c, DOMAIN c.orders)  BY <2>1 DEF KeysAt, Elems
    <3>2. QED  BY <2>3, <3>1, ChunksKept DEF Accounted
  <2>4. QED  BY <2>1, <2>2, <2>3, ChunksKept
<1>3. QED  BY <1>1, <1>2 DEF Accounted

\* A write worker about to acknowledge has inserted its chunk.
LEMMA AppliedStep ==
  ASSUME TypeOK, InHand, AppliedIsStored, [Next]_vars
  PROVE  AppliedIsStored'
<1> USE DEF dispatchVars, fetchVars, writeVars, bookVars, AppliedIsStored
<1>0. stored \subseteq stored' /\ ww \in [WriteWorkers -> BusyWrite \cup {IdleWrite}]
  BY ChunksKept DEF TypeOK
<1>1. CASE UNCHANGED ww  BY <1>0, <1>1
<1>2. ASSUME NEW w \in WriteWorkers, WriteStep(w) \/ WriteFault(w) PROVE AppliedIsStored'
  <2>1. \A v \in WriteWorkers \ {w} : ww'[v] = ww[v]
    BY <1>0, <1>2 DEF WriteStep, TakeChunk, ApplyChunk, AckChunk, StaleChunkAck, WriteFault,
                WriteCrash, ApplyPartially, WriteConnectionLost, WriteExits
  <2>2. CASE TakeChunk(w)  BY <2>1, <2>2, <1>0 DEF TakeChunk
  <2>3. CASE ApplyChunk(w)
    <3>1. ww[w] \in BusyWrite  BY <1>0, <2>3 DEF ApplyChunk, IdleWrite
    <3>2. ww'[w].chunk = ww[w].chunk  BY <1>0, <2>3, <3>1 DEF ApplyChunk, BusyWrite
    <3>3. KeysAt(ww[w].chunk, DOMAIN ww[w].chunk.orders) \subseteq stored'
      BY <2>3 DEF ApplyChunk
    <3>4. QED  BY <1>0, <2>1, <3>2, <3>3
  <2>4. CASE AckChunk(w) \/ StaleChunkAck(w) \/ WriteCrash(w) \/ ApplyPartially(w)
    <3>1. ww'[w] = IdleWrite
      BY <1>0, <2>4 DEF AckChunk, StaleChunkAck, WriteCrash, ApplyPartially, WriteExits
    <3>2. QED  BY <1>0, <2>1, <3>1 DEF IdleWrite
  <2>5. CASE WriteConnectionLost(w)
    <3>1. ww[w] \in BusyWrite  BY <1>0, <2>5 DEF WriteConnectionLost
    <3>2. ww'[w].chunk = ww[w].chunk /\ ww'[w].phase = ww[w].phase
      BY <1>0, <2>5, <3>1 DEF WriteConnectionLost, BusyWrite
    <3>3. QED  BY <1>0, <2>1, <3>2
  <2>6. QED  BY <1>2, <2>2, <2>3, <2>4, <2>5 DEF WriteStep, WriteFault
<1>3. UNCHANGED ww \/ \E w \in WriteWorkers : WriteStep(w) \/ WriteFault(w)
  BY DEF Next, vars, Dispatcher, DispatchStart, DispatchPublish, DispatchEnd, DispatchFail,
         DeliverJob, FetchStep, TakeJob, FetchPage, PublishChunk, AckJob, StaleAck,
         FetchFault, FetchCrash, FetchConnectionLost, FetchExits, DeliverChunk,
         BookChange, OrderGone, OrderPlaced
<1>4. QED  BY <1>1, <1>2, <1>3

\* What a fetch worker has published so far stays accounted for, and the chunk
\* it publishes now accounts for the next orders.
LEMMA PublishedStep ==
  ASSUME TypeOK, InHand, AppliedIsStored, PublishedAccounted, [Next]_vars
  PROVE  PublishedAccounted'
<1> USE DEF dispatchVars, fetchVars, writeVars, bookVars
<1> DEFINE Settled(b) ==
      /\ b.phase = "fetch" => b.sent = 0
      /\ b.phase = "publish" =>
           \A i \in DOMAIN b.orders : i <= b.sent => Accounted(b.job, b.orders[i])
<1>0. fw \in [FetchWorkers -> BusyFetch \cup {IdleFetch}]  BY DEF TypeOK
<1>1. \A j, o : Accounted(j, o) => Accounted(j, o)'  BY AccountedKept
<1>2. \A g \in FetchWorkers : Settled(fw[g])  BY DEF PublishedAccounted
<1>3. \A g \in FetchWorkers : fw'[g] = fw[g] => Settled(fw[g])'
  BY <1>1, <1>2
<1>4. ASSUME NEW f \in FetchWorkers, FetchStep(f) \/ FetchFault(f)
      PROVE  Settled(fw[f])' /\ \A g \in FetchWorkers \ {f} : fw'[g] = fw[g]
  <2>1. \A g \in FetchWorkers \ {f} : fw'[g] = fw[g]
    BY <1>0, <1>4 DEF FetchStep, TakeJob, FetchPage, PublishChunk, AckJob, StaleAck,
                      FetchFault, FetchCrash, FetchConnectionLost, FetchExits
  <2>2. CASE TakeJob(f)  BY <1>0, <2>2 DEF TakeJob
  <2>3. CASE FetchPage(f)
    <3>1. fw[f] \in BusyFetch /\ fw[f].sent = 0
      BY <1>0, <1>2, <2>3 DEF FetchPage, IdleFetch
    <3>2. fw'[f].sent = 0 /\ fw'[f].orders \in Seq(Orders)
      <4>1. fw'[f].sent = 0  BY <1>0, <2>3, <3>1 DEF FetchPage, BusyFetch
      <4>2. TypeOK'  BY <2>3, FetchType DEF FetchStep
      <4>3. fw'[f] \in BusyFetch \cup {IdleFetch}  BY <4>2 DEF TypeOK
      <4>4. fw'[f].phase \in {"fetch", "publish"}
        BY <1>0, <2>3, <3>1 DEF FetchPage, BusyFetch
      <4>5. QED  BY <4>1, <4>3, <4>4 DEF IdleFetch, BusyFetch
    <3>3. \A i \in DOMAIN fw'[f].orders : ~(i <= 0)  BY <3>2
    <3>4. QED  BY <2>1, <3>2, <3>3
  <2>4. CASE PublishChunk(f)
    <3> DEFINE b == fw[f]
               c == [job |-> b.job, orders |-> ChunkFrom(b.orders, b.sent)]
    <3>1. /\ b \in BusyFetch /\ b.phase = "publish" /\ b.sent \in Nat
          /\ b.orders \in Seq(Orders) /\ b.job \in Jobs
      BY <1>0, <2>4 DEF PublishChunk, IdleFetch, BusyFetch
    <3>2. /\ fw'[f].phase = "publish" /\ fw'[f].orders = b.orders
          /\ fw'[f].job = b.job /\ fw'[f].sent = b.sent + ChunkSize
      BY <1>0, <2>4, <3>1 DEF PublishChunk, BusyFetch
    <3>3. /\ ChunkFrom(b.orders, b.sent) \in Seq(Orders)
          /\ \A i \in DOMAIN b.orders : b.sent < i /\ i <= b.sent + ChunkSize
                                          => b.orders[i] \in Elems(c.orders)
      BY <3>1, ChunkOrders
    <3>4. c \in Chunks  BY <3>1, <3>3 DEF Chunks
    <3>5. c \in OpenChunks'
      <4>1. results' = Append(results, c)  BY <2>4 DEF PublishChunk
      <4>2. results \in Seq(Chunks)  BY DEF TypeOK
      <4> HIDE DEF c
      <4>3. c \in Elems(results')  BY <3>4, <4>1, <4>2, ElemsAppend
      <4>4. QED  BY <4>3 DEF OpenChunks
    <3>6. ASSUME NEW i \in DOMAIN b.orders, i <= b.sent + ChunkSize
          PROVE  Accounted(b.job, b.orders[i])'
      <4>1. DOMAIN b.orders = 1 .. Len(b.orders) /\ Len(b.orders) \in Nat  BY <3>1
      <4>2. i \in Nat  BY <4>1
      <4>3. CASE i <= b.sent
        <5>1. Accounted(b.job, b.orders[i])  BY <1>2, <3>1, <4>3
        <5>2. Accounted(b.job, b.orders[i])'
          <6>1. b'.job = b.job /\ b'.orders = b.orders  BY <3>2
          <6>2. <<b.job, b.orders[i]>> \in stored' \/
                \E d \in OpenChunks' : d.job = b.job /\ b.orders[i] \in Elems(d.orders)
            <7> DEFINE j == b.job
                       o == b.orders[i]
            <7> HIDE DEF j, o
            <7>1. Accounted(j, o)  BY <5>1 DEF j, o
            <7>2. <<j, o>> \in stored' \/ \E d \in OpenChunks' : d.job = j /\ o \in Elems(d.orders)
              BY <7>1, <1>1 DEF Accounted
            <7>3. QED  BY <7>2 DEF j, o
          <6>3. QED  BY <6>1, <6>2 DEF Accounted
        <5>3. QED  BY <5>2
      <4>4. CASE ~(i <= b.sent)
        <5>1. b.orders[i] \in Elems(c.orders)  BY <3>1, <3>3, <3>6, <4>2, <4>4
        <5>2. QED  BY <3>2, <3>5, <5>1 DEF Accounted
      <4>5. QED  BY <4>3, <4>4
    <3>7. QED  BY <2>1, <3>2, <3>6
  <2>5. CASE AckJob(f) \/ StaleAck(f) \/ FetchCrash(f)
    <3>1. fw'[f] = IdleFetch
      BY <1>0, <2>5 DEF AckJob, StaleAck, FetchCrash, FetchExits
    <3>2. QED  BY <2>1, <3>1 DEF IdleFetch
  <2>6. CASE FetchConnectionLost(f)
    <3>1. fw[f] \in BusyFetch  BY <1>0, <2>6 DEF FetchConnectionLost
    <3>2. /\ fw'[f].phase = fw[f].phase /\ fw'[f].sent = fw[f].sent
          /\ fw'[f].orders = fw[f].orders /\ fw'[f].job = fw[f].job
      BY <1>0, <2>6, <3>1 DEF FetchConnectionLost, BusyFetch
    <3>3. QED  BY <1>1, <1>2, <2>1, <3>2
  <2>7. QED  BY <1>4, <2>1, <2>2, <2>3, <2>4, <2>5, <2>6 DEF FetchStep, FetchFault
<1>5. UNCHANGED fw \/ \E f \in FetchWorkers : FetchStep(f) \/ FetchFault(f)
  BY DEF Next, vars, Dispatcher, DispatchStart, DispatchPublish, DispatchEnd, DispatchFail,
         DeliverJob, DeliverChunk, WriteStep, TakeChunk, ApplyChunk, AckChunk, StaleChunkAck,
         WriteFault, WriteCrash, ApplyPartially, WriteConnectionLost, WriteExits,
         BookChange, OrderGone, OrderPlaced
<1>6. \A g \in FetchWorkers : Settled(fw[g])'  BY <1>3, <1>4, <1>5
<1>7. QED  BY <1>6 DEF PublishedAccounted

\* An acknowledgement comes after the last chunk, so what it captures is
\* accounted for, and stays so.
LEMMA NoOrderLostStep ==
  ASSUME TypeOK, InHand, AppliedIsStored, PublishedAccounted, NoOrderLost, [Next]_vars
  PROVE  NoOrderLost'
<1> USE DEF dispatchVars, fetchVars, writeVars, bookVars
<1>1. \A j, o : Accounted(j, o) => Accounted(j, o)'  BY AccountedKept
<1>2. CASE UNCHANGED <<acked, captured>>  BY <1>1, <1>2 DEF NoOrderLost
<1>3. ASSUME NEW f \in FetchWorkers, AckJob(f) PROVE NoOrderLost'
  <2> DEFINE b == fw[f]
  <2>1. /\ b \in BusyFetch /\ b.phase = "publish" /\ b.sent \in Nat
        /\ b.orders \in Seq(Orders) /\ b.job \in Jobs /\ b.sent >= Len(b.orders)
    BY <1>3 DEF TypeOK, AckJob, IdleFetch, BusyFetch
  <2>2. \A i \in DOMAIN b.orders : Accounted(b.job, b.orders[i])
    BY <2>1 DEF PublishedAccounted
  <2>3. \A o \in Elems(b.orders) : Accounted(b.job, o)  BY <2>2 DEF Elems
  <2>4. /\ acked' = acked \cup {b.job}
        /\ captured' = [captured EXCEPT ![b.job] = Elems(b.orders)]
        /\ captured \in [Jobs -> SUBSET Orders] /\ acked \subseteq Jobs
    BY <1>3 DEF AckJob, TypeOK
  <2>5. ASSUME NEW j \in acked', NEW o \in captured'[j] PROVE Accounted(j, o)
    <3>1. CASE j = b.job
      <4>1. captured'[j] = Elems(b.orders)  BY <2>1, <2>4, <3>1
      <4>2. QED  BY <2>3, <2>5, <3>1, <4>1
    <3>2. CASE j # b.job
      <4>1. j \in acked /\ captured'[j] = captured[j]  BY <2>4, <3>2
      <4>2. QED  BY <4>1 DEF NoOrderLost
    <3>3. QED  BY <3>1, <3>2
  <2>6. QED  BY <1>1, <2>5 DEF NoOrderLost
<1>4. UNCHANGED <<acked, captured>> \/ \E f \in FetchWorkers : AckJob(f)
  BY PageFrame DEF Next, vars, Dispatcher, DispatchStart, DispatchPublish, DispatchEnd, DispatchFail,
         DeliverJob, FetchStep, TakeJob, PublishChunk, StaleAck,
         FetchFault, FetchCrash, FetchConnectionLost, FetchExits, DeliverChunk,
         WriteStep, TakeChunk, ApplyChunk, AckChunk, StaleChunkAck, WriteFault, WriteCrash,
         ApplyPartially, WriteConnectionLost, WriteExits, BookChange,
         OrderGone, OrderPlaced
<1>5. QED  BY <1>2, <1>3, <1>4

\* The delivery invariant holds in every behaviour.
THEOREM Delivery == Spec => [](DeliveryInv /\ NoOrderLost)
<1> DEFINE IInv == TypeOK /\ DeliveryInv /\ NoOrderLost
<1>1. Init => DeliveryInv /\ NoOrderLost
  BY DEF Init, DeliveryInv, InHand, JobInHand, ChunkInHand, PublishedAccounted,
         AppliedIsStored, NoOrderLost, IdleFetch, IdleWrite
<1>2. TypeOK /\ InHand /\ DeliveryInv /\ NoOrderLost /\ [Next]_vars
        => (DeliveryInv /\ NoOrderLost)'
  BY InHandStep, AppliedStep, PublishedStep, NoOrderLostStep DEF DeliveryInv
<1>3. QED  BY <1>1, <1>2, TypeCorrect, PTL DEF Spec

\* However workers die and messages are redelivered, an acknowledged job's
\* orders are stored or on their way: the acknowledgement of main() in the
\* fetch worker follows the last publish, that of the write worker the insert.
THEOREM OrdersAreNeverLost == Spec => []NoOrderLost
  BY Delivery, PTL

-----------------------------------------------------------------------------
(* One row per order per run *)

\* With the unique index the docstring of apply_orders_chunk relies on, no
\* redelivery of a job or a chunk stores an order of a run twice.
THEOREM UniqueIndexDeduplicates ==
  ASSUME UniqueIndex
  PROVE  Spec => []NoDuplicateRows
<1> USE DEF NoDuplicateRows
<1>1. Init => NoDuplicateRows  BY DEF Init
<1>2. TypeOK /\ InHand /\ NoDuplicateRows /\ [Next]_vars => NoDuplicateRows'
  <2> SUFFICES ASSUME TypeOK, NoDuplicateRows, [Next]_vars PROVE NoDuplicateRows'
    OBVIOUS
  <2> USE DEF dispatchVars, fetchVars, writeVars, bookVars
  <2>1. CASE UNCHANGED rows  BY <2>1
  <2>2. ASSUME NEW w \in WriteWorkers, ApplyChunk(w) \/ ApplyPartially(w)
        PROVE  NoDuplicateRows'
    <3> DEFINE c == ww[w].chunk
    <3>1. c \in Chunks
      BY <2>2 DEF TypeOK, ApplyChunk, ApplyPartially, BusyWrite, IdleWrite
    <3>2. PICK S \in SUBSET DOMAIN c.orders : rows' = Insert(rows, c, S)
      BY <2>2 DEF ApplyChunk, ApplyPartially
    <3>3. rows \in [Keys -> Nat]  BY DEF TypeOK
    <3> HIDE DEF c
    <3>4. QED  BY <3>1, <3>2, <3>3, InsertRows
  <2>3. \/ UNCHANGED rows
        \/ \E w \in WriteWorkers : ApplyChunk(w) \/ ApplyPartially(w)
    BY RowsFrame
  <2>4. QED  BY <2>1, <2>2, <2>3
<1>3. QED  BY <1>1, <1>2, TypeCorrect, PTL DEF Spec

-----------------------------------------------------------------------------
(* A published job is in one place *)

NoRepeat(s) == \A i, n \in DOMAIN s : s[i] = s[n] => i = n

\* A message that is not in a queue joins it without a second copy.
LEMMA NoRepeatAppend ==
  ASSUME NEW S, NEW s \in Seq(S), NEW x \in S, NoRepeat(s), x \notin Elems(s)
  PROVE  NoRepeat(Append(s, x))
<1>1. /\ Len(s) \in Nat /\ DOMAIN s = 1 .. Len(s)
      /\ DOMAIN Append(s, x) = 1 .. Len(s) + 1
      /\ \A i \in 1 .. Len(s) : Append(s, x)[i] = s[i]
      /\ Append(s, x)[Len(s) + 1] = x
  OBVIOUS
<1>2. \A i \in 1 .. Len(s) : s[i] # x  BY <1>1 DEF Elems
<1> SUFFICES ASSUME NEW i \in 1 .. Len(s) + 1, NEW n \in 1 .. Len(s) + 1,
                    Append(s, x)[i] = Append(s, x)[n]
             PROVE  i = n
  BY <1>1 DEF NoRepeat
<1>3. CASE i \in 1 .. Len(s) /\ n \in 1 .. Len(s)  BY <1>1, <1>3 DEF NoRepeat
<1>4. CASE i = Len(s) + 1 \/ n = Len(s) + 1  BY <1>1, <1>2, <1>4
<1> QED  BY <1>1, <1>3, <1>4

\* What is delivered leaves its queue for good.
LEMMA NoRepeatTail ==
  ASSUME NEW S, NEW s \in Seq(S), s # <<>>, NoRepeat(s)
  PROVE  NoRepeat(Tail(s)) /\ Head(s) \notin Elems(Tail(s))
<1>1. /\ Tail(s) \in Seq(S) /\ Len(Tail(s)) = Len(s) - 1
      /\ \A i \in 1 .. Len(Tail(s)) : Tail(s)[i] = s[i + 1]
  BY HeadTailProperties
<1>2. /\ Len(s) \in Nat \ {0} /\ DOMAIN s = 1 .. Len(s) /\ Head(s) = s[1]
      /\ DOMAIN Tail(s) = 1 .. Len(s) - 1
  BY <1>1
<1>3. \A i \in 1 .. Len(s) - 1 : i + 1 \in 1 .. Len(s) /\ Tail(s)[i] = s[i + 1]
  BY <1>1, <1>2
<1>4. ASSUME NEW i \in 1 .. Len(s) - 1, NEW n \in 1 .. Len(s) - 1, Tail(s)[i] = Tail(s)[n]
      PROVE  i = n
  <2>1. i + 1 = n + 1  BY <1>2, <1>3, <1>4 DEF NoRepeat
  <2> QED  BY <2>1
<1>5. \A i \in 1 .. Len(s) - 1 : Tail(s)[i] # Head(s)
  <2> SUFFICES ASSUME NEW i \in 1 .. Len(s) - 1, s[i + 1] = s[1] PROVE FALSE
    BY <1>2, <1>3
  <2>1. i + 1 = 1  BY <1>2, <1>3 DEF NoRepeat
  <2> QED  BY <2>1
<1> QED  BY <1>2, <1>4, <1>5 DEF NoRepeat, Elems

\* What a worker held, put back before a queue that shares nothing with it.
LEMMA NoRepeatConcat ==
  ASSUME NEW S, NEW s \in Seq(S), NEW t \in Seq(S), NoRepeat(s), NoRepeat(t),
         Elems(s) \cap Elems(t) = {}
  PROVE  NoRepeat(s \o t)
<1>1. /\ s \o t \in Seq(S) /\ Len(s \o t) = Len(s) + Len(t)
      /\ \A i \in 1 .. Len(s) + Len(t) : (s \o t)[i] =
            IF i <= Len(s) THEN s[i] ELSE t[i - Len(s)]
  BY ConcatProperties
<1>2. /\ Len(s) \in Nat /\ Len(t) \in Nat /\ DOMAIN s = 1 .. Len(s)
      /\ DOMAIN t = 1 .. Len(t) /\ DOMAIN (s \o t) = 1 .. Len(s) + Len(t)
  BY <1>1
<1>3. \A i \in 1 .. Len(s), n \in 1 .. Len(t) : s[i] # t[n]  BY <1>2 DEF Elems
<1> SUFFICES ASSUME NEW i \in 1 .. Len(s) + Len(t), NEW n \in 1 .. Len(s) + Len(t),
                    (s \o t)[i] = (s \o t)[n]
             PROVE  i = n
  BY <1>2 DEF NoRepeat
<1>4. CASE i <= Len(s) /\ n <= Len(s)  BY <1>1, <1>2, <1>4 DEF NoRepeat
<1>5. CASE ~(i <= Len(s)) /\ ~(n <= Len(s))
  <2>1. i - Len(s) \in 1 .. Len(t) /\ n - Len(s) \in 1 .. Len(t)  BY <1>2, <1>5
  <2>2. t[i - Len(s)] = t[n - Len(s)]  BY <1>1, <1>5
  <2>3. i - Len(s) = n - Len(s)  BY <1>2, <2>1, <2>2 DEF NoRepeat
  <2> QED  BY <1>2, <2>3
<1>6. CASE i <= Len(s) /\ ~(n <= Len(s))
  <2>1. i \in 1 .. Len(s) /\ n - Len(s) \in 1 .. Len(t)  BY <1>2, <1>6
  <2> QED  BY <1>1, <1>3, <1>6, <2>1
<1>7. CASE ~(i <= Len(s)) /\ n <= Len(s)
  <2>1. n \in 1 .. Len(s) /\ i - Len(s) \in 1 .. Len(t)  BY <1>2, <1>7
  <2> QED  BY <1>1, <1>3, <1>7, <2>1
<1> QED  BY <1>4, <1>5, <1>6, <1>7

\* Where the jobs are, as sets: the queue, and what each worker holds.
Apart ==
  /\ NoRepeat(jobs)
  /\ \A f \in FetchWorkers : NoRepeat(unackedJ[f]) /\ Elems(jobs) \cap Elems(unackedJ[f]) = {}
  /\ \A f, g \in FetchWorkers : f # g => Elems(unackedJ[f]) \cap Elems(unackedJ[g]) = {}

OpenIsDispatched == \A j \in Jobs : j \in OpenJobs <=> Dispatched(j) /\ j \notin acked
AckedIsDispatched == \A j \in acked : Dispatched(j)

HeldInv == Apart /\ OpenIsDispatched /\ AckedIsDispatched

LEMMA HeldOnce == HeldInv => JobHeldOnce
<1> SUFFICES ASSUME HeldInv PROVE JobHeldOnce  OBVIOUS
<1>1. ASSUME NEW f \in FetchWorkers, NEW g \in FetchWorkers, NEW i \in DOMAIN unackedJ[f],
             NEW n \in DOMAIN unackedJ[g], unackedJ[f][i] = unackedJ[g][n]
      PROVE  f = g /\ i = n
  <2>1. f = g  BY <1>1 DEF HeldInv, Apart, Elems
  <2> QED  BY <1>1, <2>1 DEF HeldInv, Apart, NoRepeat
<1> QED  BY <1>1 DEF HeldInv, Apart, OpenIsDispatched, JobHeldOnce, NoRepeat

LEMMA InitHeld == Init => HeldInv
<1> SUFFICES ASSUME Init PROVE HeldInv  OBVIOUS
<1>1. DOMAIN <<>> = {}  OBVIOUS
<1>2. jobs = <<>> /\ (\A f \in FetchWorkers : unackedJ[f] = <<>>) /\ acked = {}  BY DEF Init
<1>3. Apart  BY <1>1, <1>2, ElemsEmpty DEF Apart, NoRepeat
<1>4. OpenJobs = {}  BY <1>2, ElemsEmpty DEF OpenJobs
<1>5. \A j \in Jobs : ~Dispatched(j)  BY DEF Init, Dispatched, Jobs
<1> QED  BY <1>2, <1>3, <1>4, <1>5 DEF HeldInv, OpenIsDispatched, AckedIsDispatched

\* A dispatcher's steps, its one publish of a job aside, leave what is published.
LEMMA DispatcherKeepsDispatched ==
  ASSUME TypeOK, NEW u \in Runs, DispatchStart(u) \/ DispatchEnd(u) \/ DispatchFail(u)
  PROVE  (\A j \in Jobs : Dispatched(j)' <=> Dispatched(j)) /\ UNCHANGED <<jobs, unackedJ, acked>>
<1>1. /\ disp \in [Runs -> {"idle", "sending", "done", "failed"}]
      /\ todo \in [Runs -> SUBSET Regions]
  BY DEF TypeOK
<1>2. \A j \in Jobs : j.run \in Runs /\ j.region \in Regions  BY DEF Jobs
<1>3. CASE DispatchStart(u)
  BY <1>1, <1>2, <1>3 DEF DispatchStart, Dispatched, fetchVars
<1>4. CASE DispatchEnd(u) \/ DispatchFail(u)
  BY <1>1, <1>2, <1>4 DEF DispatchEnd, DispatchFail, Dispatched, fetchVars
<1> QED  BY <1>3, <1>4

\* One publish adds the job of this region and run, which was nowhere.
LEMMA PublishKeepsHeld ==
  ASSUME TypeOK, HeldInv, NEW u \in Runs, NEW r \in Regions, DispatchPublish(u, r)
  PROVE  /\ HeldInv'
         /\ [region |-> r, run |-> u] \notin OpenJobs \cup acked
         /\ OpenJobs' = OpenJobs \cup {[region |-> r, run |-> u]}
         /\ UNCHANGED acked
<1> DEFINE new == [region |-> r, run |-> u]
<1>1. new \in Jobs /\ new.region = r /\ new.run = u  BY DEF Jobs
<1>2. /\ disp[u] = "sending" /\ disp' = disp /\ r \in todo[u]
      /\ todo' = [todo EXCEPT ![u] = todo[u] \ {r}]
      /\ todo \in [Runs -> SUBSET Regions]
      /\ jobs \in Seq(Jobs) /\ jobs' = Append(jobs, new)
      /\ unackedJ' = unackedJ /\ acked' = acked /\ acked \subseteq Jobs
  BY DEF DispatchPublish, TypeOK
<1>3. ~Dispatched(new)  BY <1>1, <1>2 DEF Dispatched
<1>4. \A j \in Jobs : Dispatched(j)' <=> Dispatched(j) \/ j = new
  <2> SUFFICES ASSUME NEW j \in Jobs PROVE Dispatched(j)' <=> Dispatched(j) \/ j = new
    OBVIOUS
  <2>1. j.run \in Runs /\ (j.region = r /\ j.run = u => j = new)  BY DEF Jobs
  <2> QED  BY <1>1, <1>2, <2>1 DEF Dispatched
<1> HIDE DEF new
<1>5. new \notin OpenJobs /\ new \notin acked
  BY <1>1, <1>3 DEF HeldInv, OpenIsDispatched, AckedIsDispatched
<1>6. Elems(jobs') = Elems(jobs) \cup {new}  BY <1>1, <1>2, ElemsAppend
<1>7. OpenJobs' = OpenJobs \cup {new}  BY <1>2, <1>6 DEF OpenJobs
<1>8. new \notin Elems(jobs) /\ \A f \in FetchWorkers : new \notin Elems(unackedJ[f])
  BY <1>5 DEF OpenJobs
<1>9. Apart'
  <2>1. NoRepeat(jobs')  BY <1>1, <1>2, <1>8, NoRepeatAppend DEF HeldInv, Apart
  <2> QED  BY <1>2, <1>6, <1>8, <2>1 DEF HeldInv, Apart
<1>10. OpenIsDispatched' /\ AckedIsDispatched'
  BY <1>2, <1>4, <1>5, <1>7 DEF HeldInv, OpenIsDispatched, AckedIsDispatched
<1> QED  BY <1>2, <1>5, <1>7, <1>9, <1>10 DEF HeldInv, new

\* A delivery moves the head of the queue behind what the worker holds.
LEMMA DeliverKeepsHeld ==
  ASSUME TypeOK, HeldInv, NEW f \in FetchWorkers, DeliverJob(f)
  PROVE  HeldInv' /\ OpenJobs' = OpenJobs /\ UNCHANGED acked
<1> DEFINE j == Head(jobs)
<1>1. /\ jobs \in Seq(Jobs) /\ jobs # <<>> /\ jobs' = Tail(jobs)
      /\ unackedJ \in [FetchWorkers -> Seq(Jobs)]
      /\ unackedJ' = [unackedJ EXCEPT ![f] = Append(unackedJ[f], j)]
      /\ UNCHANGED <<disp, todo, acked>>
  BY DEF DeliverJob, TypeOK, dispatchVars
<1>2. /\ j \in Jobs /\ Elems(jobs) = {j} \cup Elems(jobs')
      /\ NoRepeat(jobs') /\ j \notin Elems(jobs')
  BY <1>1, ElemsHeadTail, NoRepeatTail DEF HeldInv, Apart
<1> HIDE DEF j
<1>3. /\ unackedJ'[f] = Append(unackedJ[f], j)
      /\ \A g \in FetchWorkers : g # f => unackedJ'[g] = unackedJ[g]
  BY <1>1
<1>4. \A g \in FetchWorkers : j \notin Elems(unackedJ[g])
  BY <1>2 DEF HeldInv, Apart
<1>5. NoRepeat(unackedJ'[f]) /\ Elems(unackedJ'[f]) = Elems(unackedJ[f]) \cup {j}
  BY <1>1, <1>2, <1>3, <1>4, ElemsAppend, NoRepeatAppend DEF HeldInv, Apart
<1>6. Apart'
  <2>0. \A g \in FetchWorkers : g # f => Elems(unackedJ'[g]) = Elems(unackedJ[g])  BY <1>3
  <2>1. ASSUME NEW g \in FetchWorkers
        PROVE  NoRepeat(unackedJ'[g]) /\ Elems(jobs') \cap Elems(unackedJ'[g]) = {}
    <3>1. CASE g = f  BY <1>2, <1>5, <3>1 DEF HeldInv, Apart
    <3>2. CASE g # f  BY <1>2, <1>3, <3>2 DEF HeldInv, Apart
    <3> QED  BY <3>1, <3>2
  <2>2. ASSUME NEW g \in FetchWorkers, NEW h \in FetchWorkers, g # h
        PROVE  Elems(unackedJ'[g]) \cap Elems(unackedJ'[h]) = {}
    BY <1>4, <1>5, <2>0, <2>2 DEF HeldInv, Apart
  <2> QED  BY <1>2, <2>1, <2>2 DEF Apart
<1>7. OpenJobs' = OpenJobs
  <2>1. \A g \in FetchWorkers : g # f => Elems(unackedJ'[g]) = Elems(unackedJ[g])  BY <1>3
  <2> QED  BY <1>2, <1>5, <2>1 DEF OpenJobs
<1>8. \A k \in Jobs : Dispatched(k)' <=> Dispatched(k)  BY <1>1 DEF Dispatched
<1> QED
  BY <1>1, <1>6, <1>7, <1>8 DEF HeldInv, OpenIsDispatched, AckedIsDispatched, TypeOK

\* What a worker held goes back to the queue when it exits or its connection is lost.
LEMMA RequeueKeepsHeld ==
  ASSUME TypeOK, HeldInv, NEW f \in FetchWorkers, jobs' = unackedJ[f] \o jobs,
         unackedJ' = [unackedJ EXCEPT ![f] = <<>>], UNCHANGED <<disp, todo, acked>>
  PROVE  HeldInv' /\ OpenJobs' = OpenJobs
<1>1. /\ jobs \in Seq(Jobs) /\ unackedJ[f] \in Seq(Jobs)
      /\ unackedJ'[f] = <<>> /\ \A g \in FetchWorkers : g # f => unackedJ'[g] = unackedJ[g]
  BY DEF TypeOK
<1>2. /\ NoRepeat(jobs') /\ Elems(jobs') = Elems(unackedJ[f]) \cup Elems(jobs)
  <2>1. Elems(unackedJ[f]) \cap Elems(jobs) = {}  BY DEF HeldInv, Apart
  <2> QED  BY <1>1, <2>1, ElemsConcat, NoRepeatConcat DEF HeldInv, Apart
<1>3. Elems(unackedJ'[f]) = {} /\ NoRepeat(unackedJ'[f])
  BY <1>1, ElemsEmpty DEF NoRepeat
<1>4. Apart'
  <2>1. \A g \in FetchWorkers : NoRepeat(unackedJ'[g]) /\ Elems(jobs') \cap Elems(unackedJ'[g]) = {}
    BY <1>1, <1>2, <1>3 DEF HeldInv, Apart
  <2>2. \A g, h \in FetchWorkers : g # h => Elems(unackedJ'[g]) \cap Elems(unackedJ'[h]) = {}
    BY <1>1, <1>3 DEF HeldInv, Apart
  <2> QED  BY <1>2, <2>1, <2>2 DEF Apart
<1>5. OpenJobs' = OpenJobs
  <2>1. \A g \in FetchWorkers : g # f => Elems(unackedJ'[g]) = Elems(unackedJ[g])  BY <1>1
  <2> QED  BY <1>2, <1>3, <2>1 DEF OpenJobs
<1>6. \A k \in Jobs : Dispatched(k)' <=> Dispatched(k)  BY DEF Dispatched
<1> QED
  BY <1>4, <1>5, <1>6 DEF HeldInv, OpenIsDispatched, AckedIsDispatched, TypeOK

\* An acknowledgement takes the job in hand out of the only place it was in.
LEMMA AckKeepsHeld ==
  ASSUME TypeOK, JobInHand, HeldInv, NEW f \in FetchWorkers, AckJob(f)
  PROVE  /\ HeldInv'
         /\ fw[f].job \in OpenJobs
         /\ OpenJobs' = OpenJobs \ {fw[f].job}
         /\ acked' = acked \cup {fw[f].job}
<1> DEFINE j == fw[f].job
<1>1. /\ unackedJ \in [FetchWorkers -> Seq(Jobs)]
      /\ unackedJ' = [unackedJ EXCEPT ![f] = Tail(unackedJ[f])]
      /\ acked' = acked \cup {j} /\ UNCHANGED <<jobs, disp, todo>>
  BY DEF AckJob, TypeOK, dispatchVars
<1>2. unackedJ[f] # <<>> /\ Head(unackedJ[f]) = j
  BY DEF AckJob, JobInHand, IdleFetch
<1> HIDE DEF j
<1>3. /\ unackedJ'[f] = Tail(unackedJ[f])
      /\ \A g \in FetchWorkers : g # f => unackedJ'[g] = unackedJ[g]
  BY <1>1
<1>4. /\ j \in Jobs /\ Elems(unackedJ[f]) = {j} \cup Elems(unackedJ'[f])
      /\ NoRepeat(unackedJ'[f]) /\ j \notin Elems(unackedJ'[f])
  BY <1>1, <1>2, <1>3, ElemsHeadTail, NoRepeatTail DEF HeldInv, Apart
<1>5. j \notin Elems(jobs) /\ \A g \in FetchWorkers : g # f => j \notin Elems(unackedJ[g])
  BY <1>4 DEF HeldInv, Apart
<1>6. Apart'
  <2>1. \A g \in FetchWorkers : NoRepeat(unackedJ'[g]) /\ Elems(jobs') \cap Elems(unackedJ'[g]) = {}
    BY <1>1, <1>3, <1>4 DEF HeldInv, Apart
  <2>2. \A g, h \in FetchWorkers : g # h => Elems(unackedJ'[g]) \cap Elems(unackedJ'[h]) = {}
    BY <1>3, <1>4 DEF HeldInv, Apart
  <2>3. NoRepeat(jobs')  BY <1>1 DEF HeldInv, Apart
  <2> QED  BY <2>1, <2>2, <2>3 DEF Apart
<1>7. j \in OpenJobs /\ OpenJobs' = OpenJobs \ {j}
  <2>1. \A g \in FetchWorkers : g # f => Elems(unackedJ'[g]) = Elems(unackedJ[g])  BY <1>3
  <2> QED  BY <1>1, <1>4, <1>5, <2>1 DEF OpenJobs
<1>8. \A k \in Jobs : Dispatched(k)' <=> Dispatched(k)  BY <1>1 DEF Dispatched
<1>9. Dispatched(j)  BY <1>4, <1>7 DEF HeldInv, OpenIsDispatched
<1>10. acked \subseteq Jobs  BY DEF TypeOK
<1>11. OpenIsDispatched' /\ AckedIsDispatched'
  BY <1>1, <1>4, <1>7, <1>8, <1>9, <1>10 DEF HeldInv, OpenIsDispatched, AckedIsDispatched
<1> QED  BY <1>1, <1>6, <1>7, <1>11 DEF HeldInv, j

\* Every other step leaves the jobs where they are.
LEMMA OtherStepsLeaveJobs ==
  ASSUME [Next]_vars
  PROVE  \/ UNCHANGED <<jobs, unackedJ, acked, captured, disp, todo>>
         \/ \E u \in Runs : Dispatcher(u)
         \/ \E f \in FetchWorkers : DeliverJob(f) \/ AckJob(f) \/ StaleAck(f) \/ FetchFault(f)
<1> USE DEF dispatchVars, fetchVars
<1>1. CASE UNCHANGED vars  BY <1>1 DEF vars
<1>2. ASSUME NEW f \in FetchWorkers, TakeJob(f) \/ FetchPage(f) \/ PublishChunk(f)
      PROVE  UNCHANGED <<jobs, unackedJ, acked, captured, disp, todo>>
  BY <1>2 DEF TakeJob, FetchPage, PublishChunk
<1>3. ASSUME NEW w \in WriteWorkers, DeliverChunk(w) \/ WriteStep(w) \/ WriteFault(w)
      PROVE  UNCHANGED <<jobs, unackedJ, acked, captured, disp, todo>>
  BY <1>3 DEF DeliverChunk, WriteStep, TakeChunk, ApplyChunk, AckChunk, StaleChunkAck, WriteFault,
              WriteCrash, ApplyPartially, WriteConnectionLost, WriteExits
<1>4. ASSUME \E r \in Markets : BookChange(r)
      PROVE  UNCHANGED <<jobs, unackedJ, acked, captured, disp, todo>>
  BY <1>4 DEF BookChange, OrderGone, OrderPlaced
<1> QED  BY <1>1, <1>2, <1>3, <1>4 DEF Next, FetchStep

LEMMA HeldStep ==
  ASSUME TypeOK, InHand, HeldInv, [Next]_vars
  PROVE  HeldInv'
<1>1. CASE UNCHANGED <<jobs, unackedJ, acked, captured, disp, todo>>
  <2>1. Apart'  BY <1>1 DEF HeldInv, Apart, NoRepeat
  <2>2. OpenJobs' = OpenJobs /\ \A j : Dispatched(j)' <=> Dispatched(j)
    BY <1>1 DEF OpenJobs, Dispatched
  <2> QED  BY <1>1, <2>1, <2>2 DEF HeldInv, OpenIsDispatched, AckedIsDispatched
<1>2. ASSUME NEW u \in Runs, Dispatcher(u) PROVE HeldInv'
  <2>1. CASE DispatchStart(u) \/ DispatchEnd(u) \/ DispatchFail(u)
    <3>1. (\A j \in Jobs : Dispatched(j)' <=> Dispatched(j)) /\ UNCHANGED <<jobs, unackedJ, acked>>
      BY <2>1, DispatcherKeepsDispatched
    <3>2. Apart' /\ OpenJobs' = OpenJobs
      BY <3>1 DEF HeldInv, Apart, OpenJobs, NoRepeat
    <3>3. acked \subseteq Jobs  BY DEF TypeOK
    <3> QED  BY <3>1, <3>2, <3>3 DEF HeldInv, OpenIsDispatched, AckedIsDispatched
  <2>2. CASE \E r \in Regions : DispatchPublish(u, r)  BY <2>2, PublishKeepsHeld
  <2> QED  BY <1>2, <2>1, <2>2 DEF Dispatcher
<1>3. ASSUME NEW f \in FetchWorkers, StaleAck(f) \/ FetchFault(f) PROVE HeldInv'
  BY <1>3, RequeueKeepsHeld
     DEF StaleAck, FetchFault, FetchCrash, FetchConnectionLost, FetchExits, dispatchVars
<1> QED
  BY <1>1, <1>2, <1>3, OtherStepsLeaveJobs, DeliverKeepsHeld, AckKeepsHeld DEF InHand

LEMMA HeldHolds == Spec => []HeldInv
BY InitHeld, HeldStep, TypeCorrect, PTL DEF Spec

\* A published job that is not acknowledged is in the queue or with one worker, once,
\* whatever exits, connections lost and redeliveries: no job is forgotten or multiplied.
THEOREM JobsAreHeldOnce == Spec => []JobHeldOnce
BY HeldOnce, HeldHolds, PTL

-----------------------------------------------------------------------------
(* The pipeline implements the ledger *)

\* What the workers have in hand, and the chunks between them, is of published jobs.
OriginInv ==
  /\ \A c \in OpenChunks : Dispatched(c.job)
  /\ \A f \in FetchWorkers : fw[f] # IdleFetch => Dispatched(fw[f].job)
  /\ \A w \in WriteWorkers : ww[w] # IdleWrite => Dispatched(ww[w].chunk.job)

LEMMA InitOrigin == Init => OriginInv
BY ElemsEmpty DEF Init, OriginInv, OpenChunks

\* What is published stays published.
LEMMA DispatchedStays ==
  ASSUME TypeOK, HeldInv, [Next]_vars, NEW j \in Jobs, Dispatched(j)
  PROVE  Dispatched(j)'
<1>1. CASE UNCHANGED <<disp, todo>>  BY <1>1 DEF Dispatched
<1>2. ASSUME NEW u \in Runs, Dispatcher(u) PROVE Dispatched(j)'
  <2>1. CASE DispatchStart(u) \/ DispatchEnd(u) \/ DispatchFail(u)
    BY <2>1, DispatcherKeepsDispatched
  <2>2. ASSUME NEW r \in Regions, DispatchPublish(u, r) PROVE Dispatched(j)'
    <3>1. todo \in [Runs -> SUBSET Regions] /\ j.run \in Runs  BY DEF TypeOK, Jobs
    <3> QED  BY <2>2, <3>1 DEF DispatchPublish, Dispatched
  <2> QED  BY <1>2, <2>1, <2>2 DEF Dispatcher
<1>3. \/ UNCHANGED <<disp, todo>>
      \/ \E u \in Runs : Dispatcher(u)
  BY OtherStepsLeaveJobs
     DEF DeliverJob, AckJob, StaleAck, FetchFault, FetchCrash, FetchConnectionLost, FetchExits,
         dispatchVars
<1> QED  BY <1>1, <1>2, <1>3

\* A chunk is open because it was, or because a fetch worker has published it now.
LEMMA ChunksComeFromJobs ==
  ASSUME TypeOK, InHand, [Next]_vars, NEW c \in OpenChunks'
  PROVE  c \in OpenChunks \/ \E f \in FetchWorkers : fw[f] # IdleFetch /\ c.job = fw[f].job
<1>0. /\ results \in Seq(Chunks)
      /\ unackedC \in [WriteWorkers -> Seq(Chunks)]
      /\ fw \in [FetchWorkers -> BusyFetch \cup {IdleFetch}]
  BY DEF TypeOK
<1>1. CASE UNCHANGED <<results, unackedC>>  BY <1>1 DEF OpenChunks
<1>2. ASSUME NEW f \in FetchWorkers, PublishChunk(f)
      PROVE  c \in OpenChunks \/ (fw[f] # IdleFetch /\ c.job = fw[f].job)
  <2> DEFINE d == [job |-> fw[f].job, orders |-> ChunkFrom(fw[f].orders, fw[f].sent)]
  <2>1. fw[f] \in BusyFetch /\ fw[f] # IdleFetch  BY <1>0, <1>2 DEF PublishChunk, IdleFetch
  <2>2. d \in Chunks  BY <2>1, ChunkOrders DEF BusyFetch, Chunks
  <2>3. results' = Append(results, d) /\ unackedC' = unackedC /\ d.job = fw[f].job
    BY <1>2 DEF PublishChunk, writeVars
  <2> HIDE DEF d
  <2>4. Elems(results') = Elems(results) \cup {d}  BY <1>0, <2>2, <2>3, ElemsAppend
  <2> QED  BY <2>1, <2>3, <2>4 DEF OpenChunks
<1>3. ASSUME NEW w \in WriteWorkers, DeliverChunk(w) PROVE c \in OpenChunks
  <2>1. /\ Head(results) \in Chunks
        /\ Elems(results) = {Head(results)} \cup Elems(Tail(results))
    BY <1>0, <1>3, ElemsHeadTail DEF DeliverChunk
  <2>2. Elems(Append(unackedC[w], Head(results))) = Elems(unackedC[w]) \cup {Head(results)}
    BY <1>0, <2>1, ElemsAppend
  <2>3. /\ results' = Tail(results)
        /\ unackedC'[w] = Append(unackedC[w], Head(results))
        /\ \A v \in WriteWorkers \ {w} : unackedC'[v] = unackedC[v]
    BY <1>0, <1>3 DEF DeliverChunk
  <2> QED  BY <2>1, <2>2, <2>3 DEF OpenChunks
<1>4. ASSUME NEW w \in WriteWorkers, AckChunk(w) PROVE c \in OpenChunks
  <2>1. unackedC[w] # <<>>
    BY <1>4 DEF AckChunk, InHand, ChunkInHand, IdleWrite
  <2>2. Elems(unackedC[w]) = {Head(unackedC[w])} \cup Elems(Tail(unackedC[w]))
    BY <1>0, <2>1, ElemsHeadTail
  <2>3. /\ results' = results /\ unackedC'[w] = Tail(unackedC[w])
        /\ \A v \in WriteWorkers \ {w} : unackedC'[v] = unackedC[v]
    BY <1>0, <1>4 DEF AckChunk
  <2> QED  BY <2>2, <2>3 DEF OpenChunks
<1>5. ASSUME NEW w \in WriteWorkers,
             StaleChunkAck(w) \/ WriteCrash(w) \/ ApplyPartially(w) \/ WriteConnectionLost(w)
      PROVE  c \in OpenChunks
  <2>1. results' = unackedC[w] \o results /\ unackedC' = [unackedC EXCEPT ![w] = <<>>]
    BY <1>5 DEF StaleChunkAck, WriteCrash, ApplyPartially, WriteConnectionLost, WriteExits
  <2>2. Elems(results') = Elems(unackedC[w]) \cup Elems(results)  BY <1>0, <2>1, ElemsConcat
  <2>3. /\ Elems(unackedC'[w]) = {}
        /\ \A v \in WriteWorkers \ {w} : unackedC'[v] = unackedC[v]
    BY <1>0, <2>1, ElemsEmpty
  <2> QED  BY <2>2, <2>3 DEF OpenChunks
<1>6. \/ UNCHANGED <<results, unackedC>>
      \/ \E f \in FetchWorkers : PublishChunk(f)
      \/ \E w \in WriteWorkers : \/ DeliverChunk(w) \/ AckChunk(w)
            \/ StaleChunkAck(w) \/ WriteCrash(w) \/ ApplyPartially(w) \/ WriteConnectionLost(w)
  BY PageFrame DEF Next, vars, writeVars, Dispatcher, DispatchStart, DispatchPublish, DispatchEnd,
         DispatchFail, DeliverJob, FetchStep, TakeJob, AckJob, StaleAck,
         FetchFault, FetchCrash, FetchConnectionLost, FetchExits, WriteStep,
         TakeChunk, ApplyChunk, WriteFault, BookChange, OrderGone, OrderPlaced
<1> QED  BY <1>1, <1>2, <1>3, <1>4, <1>5, <1>6

\* What a worker has in hand it had, or has taken from its deliveries now.
LEMMA InHandComesFromQueues ==
  ASSUME TypeOK, [Next]_vars
  PROVE  /\ \A f \in FetchWorkers : fw'[f] # IdleFetch =>
              (fw[f] # IdleFetch /\ fw'[f].job = fw[f].job) \/ fw'[f].job \in OpenJobs
         /\ \A w \in WriteWorkers : ww'[w] # IdleWrite =>
              (ww[w] # IdleWrite /\ ww'[w].chunk = ww[w].chunk) \/ ww'[w].chunk \in OpenChunks
<1>0. /\ fw \in [FetchWorkers -> BusyFetch \cup {IdleFetch}]
      /\ ww \in [WriteWorkers -> BusyWrite \cup {IdleWrite}]
      /\ unackedJ \in [FetchWorkers -> Seq(Jobs)]
      /\ unackedC \in [WriteWorkers -> Seq(Chunks)]
  BY DEF TypeOK
<1>1. ASSUME NEW f \in FetchWorkers, FetchStep(f) \/ FetchFault(f)
      PROVE  /\ \A g \in FetchWorkers \ {f} : fw'[g] = fw[g]
             /\ fw'[f] # IdleFetch =>
                   (fw[f] # IdleFetch /\ fw'[f].job = fw[f].job) \/ fw'[f].job \in OpenJobs
             /\ ww' = ww
  <2>0. (\A g \in FetchWorkers \ {f} : fw'[g] = fw[g]) /\ ww' = ww
    BY <1>0, <1>1 DEF FetchStep, TakeJob, FetchPage, PublishChunk, AckJob, StaleAck,
                      FetchFault, FetchCrash, FetchConnectionLost, FetchExits, writeVars
  <2>1. CASE TakeJob(f)
    <3>1. unackedJ[f] # <<>> /\ fw'[f].job = Head(unackedJ[f])  BY <1>0, <2>1 DEF TakeJob
    <3>2. Head(unackedJ[f]) \in Elems(unackedJ[f])  BY <1>0, <3>1, ElemsHeadTail
    <3> QED  BY <2>0, <3>1, <3>2 DEF OpenJobs
  <2>2. CASE FetchPage(f) \/ PublishChunk(f) \/ FetchConnectionLost(f)
    <3>1. fw[f] \in BusyFetch
      <4>1. fw[f] # IdleFetch
        <5>1. FetchPage(f) \/ PublishChunk(f) => fw[f].phase # "idle"
          BY DEF FetchPage, PublishChunk
        <5>2. FetchConnectionLost(f) => fw[f] # IdleFetch  BY DEF FetchConnectionLost
        <5> QED  BY <2>2, <5>1, <5>2 DEF IdleFetch
      <4> QED  BY <1>0, <4>1
    <3>2. fw'[f].job = fw[f].job
      <4>1. CASE FetchPage(f)  BY <1>0, <3>1, <4>1 DEF FetchPage, BusyFetch
      <4>2. CASE PublishChunk(f)  BY <1>0, <3>1, <4>2 DEF PublishChunk, BusyFetch
      <4>3. CASE FetchConnectionLost(f)  BY <1>0, <3>1, <4>3 DEF FetchConnectionLost, BusyFetch
      <4> QED  BY <2>2, <4>1, <4>2, <4>3
    <3>3. IdleFetch \notin BusyFetch  BY DEF IdleFetch, BusyFetch
    <3> QED  BY <2>0, <3>1, <3>2, <3>3
  <2>3. CASE AckJob(f) \/ StaleAck(f) \/ FetchCrash(f)
    BY <1>0, <2>0, <2>3 DEF AckJob, StaleAck, FetchCrash, FetchExits
  <2> QED  BY <1>1, <2>1, <2>2, <2>3 DEF FetchStep, FetchFault
<1>2. ASSUME NEW w \in WriteWorkers, WriteStep(w) \/ WriteFault(w)
      PROVE  /\ \A v \in WriteWorkers \ {w} : ww'[v] = ww[v]
             /\ ww'[w] # IdleWrite =>
                   (ww[w] # IdleWrite /\ ww'[w].chunk = ww[w].chunk) \/ ww'[w].chunk \in OpenChunks
             /\ fw' = fw
  <2>0. (\A v \in WriteWorkers \ {w} : ww'[v] = ww[v]) /\ fw' = fw
    BY <1>0, <1>2 DEF WriteStep, TakeChunk, ApplyChunk, AckChunk, StaleChunkAck, WriteFault,
                      WriteCrash, ApplyPartially, WriteConnectionLost, WriteExits, fetchVars
  <2>1. CASE TakeChunk(w)
    <3>1. unackedC[w] # <<>> /\ ww'[w].chunk = Head(unackedC[w])  BY <1>0, <2>1 DEF TakeChunk
    <3>2. Head(unackedC[w]) \in Elems(unackedC[w])  BY <1>0, <3>1, ElemsHeadTail
    <3> QED  BY <2>0, <3>1, <3>2 DEF OpenChunks
  <2>2. CASE ApplyChunk(w) \/ WriteConnectionLost(w)
    <3>1. ww[w] \in BusyWrite  BY <1>0, <2>2 DEF ApplyChunk, WriteConnectionLost, IdleWrite
    <3>2. ww'[w].chunk = ww[w].chunk
      BY <1>0, <2>2, <3>1 DEF ApplyChunk, WriteConnectionLost, BusyWrite
    <3>3. IdleWrite \notin BusyWrite  BY DEF IdleWrite, BusyWrite
    <3> QED  BY <2>0, <3>1, <3>2, <3>3
  <2>3. CASE AckChunk(w) \/ StaleChunkAck(w) \/ WriteCrash(w) \/ ApplyPartially(w)
    BY <1>0, <2>0, <2>3 DEF AckChunk, StaleChunkAck, WriteCrash, ApplyPartially, WriteExits
  <2> QED  BY <1>2, <2>1, <2>2, <2>3 DEF WriteStep, WriteFault
<1>3. \/ UNCHANGED <<fw, ww>>
      \/ \E f \in FetchWorkers : FetchStep(f) \/ FetchFault(f)
      \/ \E w \in WriteWorkers : WriteStep(w) \/ WriteFault(w)
  BY DEF Next, vars, fetchVars, writeVars, Dispatcher, DispatchStart, DispatchPublish,
         DispatchEnd, DispatchFail, DeliverJob, DeliverChunk, BookChange,
         OrderGone, OrderPlaced
<1> QED  BY <1>1, <1>2, <1>3

LEMMA OriginStep ==
  ASSUME TypeOK, InHand, HeldInv, OriginInv, [Next]_vars
  PROVE  OriginInv'
<1>1. \A j \in Jobs : Dispatched(j) => Dispatched(j)'  BY DispatchedStays
<1>2. /\ \A f \in FetchWorkers : fw[f] # IdleFetch => fw[f].job \in Jobs
      /\ \A w \in WriteWorkers : ww[w] # IdleWrite => ww[w].chunk.job \in Jobs
  BY DEF TypeOK, BusyFetch, BusyWrite, Chunks
<1>3. \A c \in OpenChunks : c.job \in Jobs
  <2>1. Elems(results) \subseteq Chunks  BY ElemsOfSeq DEF TypeOK
  <2>2. \A w \in WriteWorkers : Elems(unackedC[w]) \subseteq Chunks  BY ElemsOfSeq DEF TypeOK
  <2> QED  BY <2>1, <2>2 DEF OpenChunks, Chunks
<1>4. \A j \in OpenJobs : j \in Jobs /\ Dispatched(j)
  <2>1. Elems(jobs) \subseteq Jobs  BY ElemsOfSeq DEF TypeOK
  <2>2. \A f \in FetchWorkers : Elems(unackedJ[f]) \subseteq Jobs  BY ElemsOfSeq DEF TypeOK
  <2> QED  BY <2>1, <2>2 DEF OpenJobs, HeldInv, OpenIsDispatched
<1>5. ASSUME NEW c \in OpenChunks' PROVE Dispatched(c.job)'
  <2>1. c \in OpenChunks \/ \E f \in FetchWorkers : fw[f] # IdleFetch /\ c.job = fw[f].job
    BY ChunksComeFromJobs
  <2>2. c.job \in Jobs /\ Dispatched(c.job)  BY <1>2, <1>3, <2>1 DEF OriginInv
  <2> QED  BY <1>1, <2>2
<1>6. ASSUME NEW f \in FetchWorkers, fw'[f] # IdleFetch PROVE Dispatched(fw[f].job)'
  <2>0. PICK j : j = fw'[f].job  OBVIOUS
  <2>1. (fw[f] # IdleFetch /\ j = fw[f].job) \/ j \in OpenJobs
    BY <1>6, <2>0, InHandComesFromQueues
  <2>2. j \in Jobs /\ Dispatched(j)  BY <1>2, <1>4, <2>1 DEF OriginInv
  <2>3. Dispatched(j)'  BY <1>1, <2>2
  <2> QED  BY <2>0, <2>3 DEF Dispatched
<1>7. ASSUME NEW w \in WriteWorkers, ww'[w] # IdleWrite PROVE Dispatched(ww[w].chunk.job)'
  <2>0. PICK c : c = ww'[w].chunk  OBVIOUS
  <2>1. (ww[w] # IdleWrite /\ c = ww[w].chunk) \/ c \in OpenChunks
    BY <1>7, <2>0, InHandComesFromQueues
  <2>2. c.job \in Jobs /\ Dispatched(c.job)  BY <1>2, <1>3, <2>1 DEF OriginInv
  <2>3. Dispatched(c.job)'  BY <1>1, <2>2
  <2> QED  BY <2>0, <2>3 DEF Dispatched
<1> QED  BY <1>5, <1>6, <1>7 DEF OriginInv

LEMMA OriginHolds == Spec => []OriginInv
BY InitOrigin, OriginStep, HeldHolds, TypeCorrect, PTL DEF Spec

\* An insert is a store of the ledger, of a job that was published.
LEMMA InsertStores ==
  ASSUME TypeOK, HeldInv, OriginInv, NEW w \in WriteWorkers, ApplyChunk(w) \/ ApplyPartially(w)
  PROVE  \E j \in Jobs : Ledger!Store(j)
<1> DEFINE c == ww[w].chunk
<1>1. ww[w] # IdleWrite /\ c \in Chunks
  BY DEF TypeOK, ApplyChunk, ApplyPartially, BusyWrite, IdleWrite
<1>2. c.job \in Jobs /\ c.orders \in Seq(Orders) /\ Dispatched(c.job)
  BY <1>1 DEF Chunks, OriginInv
<1>3. c.job \in OpenJobs \cup acked  BY <1>2 DEF HeldInv, OpenIsDispatched
<1>4. PICK S \in SUBSET DOMAIN c.orders : stored' = stored \cup KeysAt(c, S)
  BY DEF ApplyChunk, ApplyPartially
<1>5. UNCHANGED <<jobs, unackedJ, acked, captured>>
  BY DEF ApplyChunk, ApplyPartially, WriteExits, fetchVars
<1> HIDE DEF c
<1> DEFINE os == {c.orders[i] : i \in S}
<1>6. os \in SUBSET Orders  BY <1>2
<1>7. KeysAt(c, S) = {c.job} \X os  BY DEF KeysAt
<1>8. OpenJobs' = OpenJobs  BY <1>5 DEF OpenJobs
<1> HIDE DEF os
<1>9. Ledger!Store(c.job)  BY <1>3, <1>4, <1>5, <1>6, <1>7, <1>8 DEF Ledger!Store
<1> QED  BY <1>2, <1>9

LEMMA LedgerStep ==
  ASSUME TypeOK, InHand, HeldInv, OriginInv, [Next]_vars
  PROVE  [Ledger!Next]_(Ledger!vars)
<1>1. CASE UNCHANGED <<jobs, unackedJ, acked, captured, stored>>
  BY <1>1 DEF Ledger!vars, OpenJobs
<1>2. ASSUME NEW u \in Runs, Dispatcher(u) PROVE [Ledger!Next]_(Ledger!vars)
  <2>1. UNCHANGED <<captured, stored>>
    BY <1>2 DEF Dispatcher, DispatchStart, DispatchEnd, DispatchFail, DispatchPublish,
                fetchVars, writeVars
  <2>2. CASE DispatchStart(u) \/ DispatchEnd(u) \/ DispatchFail(u)
    <3>1. UNCHANGED <<jobs, unackedJ, acked>>  BY <2>2, DispatcherKeepsDispatched
    <3> QED  BY <1>1, <2>1, <3>1
  <2>3. ASSUME NEW r \in Regions, DispatchPublish(u, r) PROVE Ledger!Next
    <3> DEFINE j == [region |-> r, run |-> u]
    <3>1. j \in Jobs  BY DEF Jobs
    <3>2. /\ j \notin OpenJobs \cup acked /\ OpenJobs' = OpenJobs \cup {j}
          /\ UNCHANGED acked
      BY <2>3, PublishKeepsHeld
    <3> HIDE DEF j
    <3>3. Ledger!Publish(j)  BY <2>1, <3>2 DEF Ledger!Publish
    <3> QED  BY <3>1, <3>3 DEF Ledger!Next
  <2> QED  BY <1>2, <2>2, <2>3 DEF Dispatcher
<1>3. ASSUME NEW f \in FetchWorkers, DeliverJob(f) PROVE UNCHANGED Ledger!vars
  BY <1>3, DeliverKeepsHeld DEF Ledger!vars, DeliverJob, writeVars
<1>4. ASSUME NEW f \in FetchWorkers, StaleAck(f) \/ FetchFault(f) PROVE UNCHANGED Ledger!vars
  <2>1. /\ jobs' = unackedJ[f] \o jobs /\ unackedJ' = [unackedJ EXCEPT ![f] = <<>>]
        /\ UNCHANGED <<disp, todo, acked, captured, stored>>
    BY <1>4 DEF StaleAck, FetchFault, FetchCrash, FetchConnectionLost, FetchExits,
                dispatchVars, writeVars
  <2>2. OpenJobs' = OpenJobs  BY <2>1, RequeueKeepsHeld
  <2> QED  BY <2>1, <2>2 DEF Ledger!vars
<1>5. ASSUME NEW f \in FetchWorkers, AckJob(f) PROVE Ledger!Next
  <2>1. fw[f] \in BusyFetch  BY <1>5 DEF TypeOK, AckJob, IdleFetch
  <2>2. fw[f].job \in Jobs /\ Elems(fw[f].orders) \in SUBSET Orders
    BY <2>1, ElemsOfSeq DEF BusyFetch
  <2>3. /\ fw[f].job \in OpenJobs /\ OpenJobs' = OpenJobs \ {fw[f].job}
        /\ acked' = acked \cup {fw[f].job}
    BY <1>5, AckKeepsHeld DEF InHand
  <2>4. /\ captured' = [captured EXCEPT ![fw[f].job] = Elems(fw[f].orders)]
        /\ stored' = stored
    BY <1>5 DEF AckJob, writeVars
  <2>5. Ledger!Acknowledge(fw[f].job)  BY <2>2, <2>3, <2>4 DEF Ledger!Acknowledge
  <2> QED  BY <2>2, <2>5 DEF Ledger!Next
<1>6. ASSUME NEW w \in WriteWorkers, ApplyChunk(w) \/ ApplyPartially(w) PROVE Ledger!Next
  BY <1>6, InsertStores DEF Ledger!Next
<1>7. \/ UNCHANGED <<jobs, unackedJ, acked, captured, stored>>
      \/ \E u \in Runs : Dispatcher(u)
      \/ \E f \in FetchWorkers : DeliverJob(f) \/ AckJob(f) \/ StaleAck(f) \/ FetchFault(f)
      \/ \E w \in WriteWorkers : ApplyChunk(w) \/ ApplyPartially(w)
  <2>1. ASSUME NEW u \in Runs, Dispatcher(u) PROVE UNCHANGED stored
    BY <2>1 DEF Dispatcher, DispatchStart, DispatchPublish, DispatchEnd, DispatchFail,
                fetchVars, writeVars
  <2>2. ASSUME NEW f \in FetchWorkers, DeliverJob(f) \/ FetchStep(f) PROVE UNCHANGED stored
    BY <2>2 DEF DeliverJob, FetchStep, TakeJob, FetchPage, PublishChunk, AckJob, StaleAck,
                FetchExits, writeVars
  <2>3. ASSUME NEW f \in FetchWorkers, FetchFault(f) PROVE UNCHANGED stored
    BY <2>3 DEF FetchFault, FetchCrash, FetchConnectionLost, FetchExits, writeVars
  <2>4. ASSUME NEW w \in WriteWorkers, DeliverChunk(w) \/ WriteStep(w) \/ WriteFault(w)
        PROVE  UNCHANGED stored \/ ApplyChunk(w) \/ ApplyPartially(w)
    BY <2>4 DEF DeliverChunk, WriteStep, TakeChunk, AckChunk, StaleChunkAck, WriteFault,
                WriteCrash, WriteConnectionLost, WriteExits
  <2>5. ASSUME NEW r \in Markets, BookChange(r) PROVE UNCHANGED stored
    BY <2>5 DEF BookChange, OrderGone, OrderPlaced, writeVars
  <2>6. ASSUME UNCHANGED vars PROVE UNCHANGED stored
    BY <2>6 DEF vars, writeVars
  <2>7. \/ UNCHANGED stored
        \/ \E w \in WriteWorkers : ApplyChunk(w) \/ ApplyPartially(w)
    BY <2>1, <2>2, <2>3, <2>4, <2>5, <2>6 DEF Next
  <2> QED  BY <2>7, OtherStepsLeaveJobs
<1> QED  BY <1>1, <1>2, <1>3, <1>4, <1>5, <1>6, <1>7

\* Seen from outside, queues, workers, their exits and redeliveries are the ledger: a
\* job is published once and acknowledged once, what it captured is settled then, and
\* orders are stored for good, of published jobs only.
THEOREM PipelineIsLedger == Spec => ImplementsLedger
<1>1. Init => Ledger!Init
  <2> SUFFICES ASSUME Init PROVE Ledger!Init
    OBVIOUS
  <2>1. OpenJobs = {}
    BY ElemsEmpty DEF Init, OpenJobs
  <2>2. acked \in SUBSET Jobs /\ stored \in SUBSET (acked \X Orders)
    BY DEF Init
  <2>3. captured \in [Jobs -> SUBSET Orders]
    BY DEF Init
  <2> QED  BY <2>1, <2>2, <2>3 DEF Ledger!Init
<1>2. TypeOK /\ InHand /\ HeldInv /\ OriginInv /\ [Next]_vars => [Ledger!Next]_(Ledger!vars)
  BY LedgerStep
<1> QED
  BY <1>1, <1>2, TypeCorrect, HeldHolds, OriginHolds, PTL DEF Spec, ImplementsLedger, Ledger!Spec

-----------------------------------------------------------------------------
(* A book that stands still is fetched whole *)

\* The first n orders of a book, all of it if it has fewer.
Prefix(b, n) == SubSeq(b, 1, IF n <= Len(b) THEN n ELSE Len(b))

LEMMA DivBounds ==
  ASSUME NEW a \in Nat, NEW b \in Nat \ {0}
  PROVE  a \div b \in Nat /\ a < (a \div b) * b + b
OBVIOUS

LEMMA ProductMonotone ==
  ASSUME NEW m \in Nat, NEW n \in Nat, NEW k \in Nat, m <= n
  PROVE  m * k <= n * k
OBVIOUS

\* X-Pages many pages reach the end of the book.
LEMMA PagesCover ==
  ASSUME NEW b \in Seq(Orders), NEW p \in Nat, p >= Pages(b)
  PROVE  Len(b) <= p * PageSize
<1>1. Len(b) \in Nat /\ PageSize \in Nat \ {0} /\ Len(b) + PageSize - 1 \in Nat
  BY SizesAreNat
<1>2. Pages(b) \in Nat /\ Len(b) + PageSize - 1 < Pages(b) * PageSize + PageSize
  BY <1>1, DivBounds DEF Pages
<1>3. Pages(b) * PageSize <= p * PageSize  BY <1>1, <1>2, ProductMonotone
<1>4. Pages(b) * PageSize \in Nat /\ p * PageSize \in Nat  BY <1>1, <1>2
<1> QED  BY <1>1, <1>2, <1>3, <1>4

LEMMA PrefixOfSeq ==
  ASSUME NEW b \in Seq(Orders), NEW n \in Nat
  PROVE  /\ Prefix(b, n) \in Seq(Orders)
         /\ Len(Prefix(b, n)) = IF n <= Len(b) THEN n ELSE Len(b)
         /\ \A i \in 1 .. Len(Prefix(b, n)) : Prefix(b, n)[i] = b[i]
<1> DEFINE m == IF n <= Len(b) THEN n ELSE Len(b)
<1>1. Len(b) \in Nat /\ m \in Nat /\ m <= Len(b)  OBVIOUS
<1>2. Prefix(b, n) = SubSeq(b, 1, m)  BY DEF Prefix
<1> HIDE DEF m
<1>3. \A i \in 1 .. m : b[i] \in Orders  BY <1>1
<1>4. /\ SubSeq(b, 1, m) \in Seq(Orders)
      /\ Len(SubSeq(b, 1, m)) = IF 1 <= m THEN m - 1 + 1 ELSE 0
      /\ \A i \in 1 .. m - 1 + 1 : SubSeq(b, 1, m)[i] = b[1 + i - 1]
  BY <1>1, <1>3, SubSeqProperties
<1>5. Len(SubSeq(b, 1, m)) = m  BY <1>1, <1>4
<1>6. \A i \in 1 .. m : SubSeq(b, 1, m)[i] = b[i]  BY <1>1, <1>4
<1> QED  BY <1>2, <1>4, <1>5, <1>6 DEF m

LEMMA PrefixWhole ==
  ASSUME NEW b \in Seq(Orders), NEW n \in Nat, Len(b) <= n
  PROVE  Prefix(b, n) = b
<1>1. Len(Prefix(b, n)) = Len(b)  BY PrefixOfSeq
<1> QED  BY <1>1, PrefixOfSeq, SeqEqual

LEMMA PrefixNone ==
  ASSUME NEW b \in Seq(Orders)
  PROVE  Prefix(b, 0) = <<>>
<1>1. Prefix(b, 0) \in Seq(Orders) /\ Len(Prefix(b, 0)) = 0  BY PrefixOfSeq
<1> QED  BY <1>1, EmptySeq

\* Page p follows what the pages before it had.
LEMMA PrefixExtends ==
  ASSUME NEW b \in Seq(Orders), NEW p \in Nat \ {0}
  PROVE  Prefix(b, (p - 1) * PageSize) \o PageOf(b, p) = Prefix(b, p * PageSize)
<1>0. PageSize \in Nat \ {0} /\ Len(b) \in Nat  BY SizesAreNat
<1>1. PICK n \in Nat : n = (p - 1) * PageSize
  <2>1. p - 1 \in Nat  OBVIOUS
  <2>2. (p - 1) * PageSize \in Nat  BY <1>0, <2>1
  <2> QED  BY <2>2
<1>2. p * PageSize = n + PageSize  BY <1>0, <1>1
<1> DEFINE l == IF n <= Len(b) THEN n ELSE Len(b)
           m == IF n + PageSize <= Len(b) THEN n + PageSize ELSE Len(b)
           page == PageOf(b, p)
           whole == Prefix(b, n + PageSize)
           before == Prefix(b, n)
<1>3. page = SubSeq(b, n + 1, m)
  <2>1. (n + PageSize) - PageSize + 1 = n + 1  BY <1>0
  <2> QED  BY <1>2, <2>1 DEF PageOf
<1>4. m \in Nat /\ m <= Len(b) /\ l <= m /\ l \in Nat /\ (l < m => l = n)  BY <1>0
<1>5. /\ before \in Seq(Orders) /\ Len(before) = l /\ \A i \in 1 .. l : before[i] = b[i]
      /\ whole \in Seq(Orders) /\ Len(whole) = m /\ \A i \in 1 .. m : whole[i] = b[i]
  <2>1. n + PageSize \in Nat  BY <1>0
  <2> QED  BY <2>1, PrefixOfSeq
<1>6. /\ page \in Seq(Orders) /\ Len(page) = m - l /\ \A i \in 1 .. m - l : page[i] = b[l + i]
  <2> HIDE DEF page, m
  <2>1. \A i \in n + 1 .. m : b[i] \in Orders  BY <1>0, <1>4
  <2>2. n + 1 \in Nat /\ m \in Nat  BY <1>4
  <2>3. /\ SubSeq(b, n + 1, m) \in Seq(Orders)
        /\ Len(SubSeq(b, n + 1, m)) = IF n + 1 <= m THEN m - (n + 1) + 1 ELSE 0
        /\ \A i \in 1 .. m - (n + 1) + 1 : SubSeq(b, n + 1, m)[i] = b[n + 1 + i - 1]
    BY <1>0, <2>1, <2>2, SubSeqProperties
  <2>4. CASE n + 1 <= m
    <3>1. l = n  BY <1>0, <2>4 DEF m
    <3>2. Len(page) = m - l  BY <1>3, <1>4, <2>3, <2>4, <3>1
    <3>3. \A i \in 1 .. m - l : page[i] = b[l + i]
      <4> SUFFICES ASSUME NEW i \in 1 .. m - l PROVE page[i] = b[l + i]  OBVIOUS
      <4>1. i \in 1 .. m - (n + 1) + 1 /\ n + 1 + i - 1 = l + i  BY <1>4, <3>1
      <4> QED  BY <1>3, <2>3, <4>1
    <3> QED  BY <1>3, <2>3, <3>2, <3>3
  <2>5. CASE ~(n + 1 <= m)
    <3>1. l = m  BY <1>0, <2>5 DEF m
    <3>2. Len(page) = 0 /\ m - l = 0  BY <1>3, <1>4, <2>3, <2>5, <3>1
    <3> QED  BY <1>3, <2>3, <3>2
  <2> QED  BY <2>4, <2>5
<1> HIDE DEF l, m, page, whole, before
<1>7. /\ before \o page \in Seq(Orders) /\ Len(before \o page) = l + (m - l)
      /\ \A i \in 1 .. l + (m - l) : (before \o page)[i] = IF i <= l THEN before[i] ELSE page[i - l]
  BY <1>5, <1>6, ConcatProperties
<1>8. \A i \in 1 .. m : (before \o page)[i] = whole[i]
  <2> SUFFICES ASSUME NEW i \in 1 .. m PROVE (before \o page)[i] = whole[i]  OBVIOUS
  <2>1. i \in 1 .. l + (m - l)  BY <1>4
  <2>2. CASE i <= l
    <3>1. i \in 1 .. l  BY <1>4, <2>2
    <3> QED  BY <1>5, <1>7, <2>1, <2>2, <3>1
  <2>3. CASE ~(i <= l)
    <3>1. i - l \in 1 .. m - l /\ l + (i - l) = i  BY <1>4, <2>3
    <3>2. (before \o page)[i] = page[i - l]  BY <1>7, <2>1, <2>3
    <3>3. page[i - l] = b[i]  BY <1>6, <3>1
    <3> QED  BY <1>5, <3>2, <3>3
  <2> QED  BY <2>2, <2>3
<1>9. Len(before \o page) = Len(whole)  BY <1>4, <1>5, <1>7
<1>10. before \o page = whole  BY <1>5, <1>7, <1>8, <1>9, SeqEqual
<1> QED  BY <1>1, <1>2, <1>10 DEF before, page, whole

\* What a fetch in progress has of a book that is as it was when page 1 was read: the
\* pages before the next one, and how many there are; all of it when the last is read.
Reading(b, bk, v) ==
  /\ b.seen <= v
  /\ b.phase = "fetch" /\ b.page = 1 => b.orders = <<>>
  /\ b.phase = "fetch" /\ b.page # 1 /\ b.seen = v
       => b.total = Pages(bk) /\ b.orders = Prefix(bk, (b.page - 1) * PageSize)
  /\ b.phase = "publish" /\ b.seen = v => b.orders = bk

ReadInv ==
  \A f \in FetchWorkers :
    fw[f] # IdleFetch => Reading(fw[f], book[fw[f].job.region], version[fw[f].job.region])

\* One page more.
LEMMA PageIsRead ==
  ASSUME NEW b \in BusyFetch, NEW bk \in Seq(Orders), NEW v \in Nat, Reading(b, bk, v),
         b.phase = "fetch", NEW a,
         a.orders = b.orders \o PageOf(bk, b.page),
         a.total = IF b.page = 1 THEN Pages(bk) ELSE b.total,
         a.page = b.page + 1,
         a.phase = IF b.page + 1 > a.total THEN "publish" ELSE "fetch",
         a.seen = IF b.page = 1 THEN v ELSE b.seen
  PROVE  Reading(a, bk, v)
<1>1. b.page \in Nat \ {0} /\ b.seen \in Nat /\ b.total \in Nat  BY DEF BusyFetch
<1>2. a.seen <= v /\ a.page # 1  BY <1>1 DEF Reading
<1>3. ASSUME a.seen = v
      PROVE  a.total = Pages(bk) /\ a.orders = Prefix(bk, b.page * PageSize)
  <2>1. CASE b.page = 1
    <3>1. b.orders = Prefix(bk, (b.page - 1) * PageSize)
      <4>1. (b.page - 1) * PageSize = 0  BY <2>1, SizesAreNat
      <4> QED  BY <2>1, <4>1, PrefixNone DEF Reading
    <3> QED  BY <1>1, <2>1, <3>1, PrefixExtends
  <2>2. CASE b.page # 1
    <3>1. b.total = Pages(bk) /\ b.orders = Prefix(bk, (b.page - 1) * PageSize)
      BY <1>3, <2>2 DEF Reading
    <3> QED  BY <1>1, <2>2, <3>1, PrefixExtends
  <2> QED  BY <2>1, <2>2
<1>4. (a.page - 1) = b.page  BY <1>1
<1>5. ASSUME a.seen = v, a.phase = "publish" PROVE a.orders = bk
  <2>1. b.page >= Pages(bk) /\ b.page \in Nat /\ Pages(bk) \in Nat
    <3>1. Pages(bk) \in Nat  BY PagesNat
    <3>2. b.page + 1 > a.total  BY <1>5
    <3>3. a.total = Pages(bk)  BY <1>3, <1>5
    <3> QED  BY <1>1, <3>1, <3>2, <3>3
  <2>2. Len(bk) <= b.page * PageSize /\ b.page * PageSize \in Nat  BY <2>1, PagesCover, SizesAreNat
  <2> QED  BY <1>3, <1>5, <2>2, PrefixWhole
<1> QED  BY <1>2, <1>3, <1>4, <1>5 DEF Reading

LEMMA ReadStep ==
  ASSUME TypeOK, ReadInv, [Next]_vars
  PROVE  ReadInv'
<1> USE DEF dispatchVars, fetchVars, writeVars, bookVars
<1>0. /\ fw \in [FetchWorkers -> BusyFetch \cup {IdleFetch}]
      /\ book \in [Regions -> Seq(Orders)] /\ version \in [Regions -> Nat]
      /\ IdleFetch \notin BusyFetch
      /\ \A f \in FetchWorkers : fw[f] \in BusyFetch => fw[f].job.region \in Regions
  BY DEF TypeOK, IdleFetch, BusyFetch, Jobs
<1>1. CASE UNCHANGED <<fw, book, version>>  BY <1>1 DEF ReadInv, Reading
<1>2. ASSUME NEW f \in FetchWorkers, FetchStep(f) \/ FetchFault(f)
      PROVE  ReadInv'
  <2>0. (\A g \in FetchWorkers \ {f} : fw'[g] = fw[g]) /\ book' = book /\ version' = version
    BY <1>0, <1>2 DEF FetchStep, TakeJob, FetchPage, PublishChunk, AckJob, StaleAck,
                      FetchFault, FetchCrash, FetchConnectionLost, FetchExits
  <2>q. SUFFICES fw'[f] # IdleFetch
                   => Reading(fw'[f], book[fw'[f].job.region], version[fw'[f].job.region])
    BY <2>0 DEF ReadInv, Reading
  <2>1. CASE TakeJob(f)
    <3>1. PICK j \in Jobs : j = Head(unackedJ[f])
      BY <2>1, ElemsHeadTail DEF TakeJob, TypeOK
    <3>2. fw'[f] = [phase |-> "fetch", job |-> j, page |-> 1, total |-> 1, orders |-> <<>>,
                    sent |-> 0, stale |-> FALSE, seen |-> version[j.region],
                    first |-> {}]
      BY <1>0, <2>1, <3>1 DEF TakeJob
    <3>3. version[j.region] \in Nat  BY <1>0, <3>1 DEF Jobs
    <3> QED  BY <3>2, <3>3 DEF Reading
  <2>2. CASE FetchPage(f)
    <3>1. fw[f] \in BusyFetch /\ fw[f] # IdleFetch /\ fw[f].phase = "fetch"
      BY <1>0, <2>2 DEF FetchPage, IdleFetch
    <3>2. PICK bk \in Seq(Orders), v \in Nat :
            bk = book[fw[f].job.region] /\ v = version[fw[f].job.region]
      BY <1>0, <3>1
    <3>3. Reading(fw[f], bk, v)  BY <3>1, <3>2 DEF ReadInv
    <3> DEFINE total == IF fw[f].page = 1 THEN Pages(bk) ELSE fw[f].total
    <3>4. fw'[f] = [fw[f] EXCEPT
            !.orders = fw[f].orders \o PageOf(bk, fw[f].page),
            !.total = total, !.page = fw[f].page + 1,
            !.phase = IF fw[f].page + 1 > total THEN "publish" ELSE "fetch",
            !.seen = IF fw[f].page = 1 THEN v ELSE fw[f].seen,
            !.first = IF fw[f].page = 1 THEN Elems(bk) ELSE fw[f].first]
      <4> DEFINE b == book[fw[f].job.region]
                 all == IF fw[f].page = 1 THEN Pages(b) ELSE fw[f].total
                 after == [fw[f] EXCEPT
                   !.orders = fw[f].orders \o PageOf(b, fw[f].page),
                   !.total = all, !.page = fw[f].page + 1,
                   !.phase = IF fw[f].page + 1 > all THEN "publish" ELSE "fetch",
                   !.seen = IF fw[f].page = 1 THEN version[fw[f].job.region] ELSE fw[f].seen,
                   !.first = IF fw[f].page = 1 THEN Elems(b) ELSE fw[f].first]
      <4>1. fw' = [fw EXCEPT ![f] = after]  BY <2>2, PageRead
      <4> HIDE DEF after
      <4>2. fw'[f] = after  BY <1>0, <4>1
      <4> USE DEF after
      <4> QED  BY <3>2, <4>2
    <3>5. /\ fw'[f].job = fw[f].job
          /\ fw'[f].orders = fw[f].orders \o PageOf(bk, fw[f].page)
          /\ fw'[f].total = total
          /\ fw'[f].page = fw[f].page + 1
          /\ fw'[f].phase = IF fw[f].page + 1 > fw'[f].total THEN "publish" ELSE "fetch"
          /\ fw'[f].seen = IF fw[f].page = 1 THEN v ELSE fw[f].seen
      BY <3>1, <3>4 DEF BusyFetch
    <3>6. Reading(fw'[f], bk, v)  BY <3>1, <3>3, <3>5, PageIsRead
    <3> QED  BY <3>2, <3>5, <3>6
  <2>3. CASE PublishChunk(f) \/ FetchConnectionLost(f)
    <3>1. fw[f] \in BusyFetch /\ fw[f] # IdleFetch
      <4>1. PublishChunk(f) => fw[f].phase # "idle"  BY DEF PublishChunk
      <4>2. FetchConnectionLost(f) => fw[f] # IdleFetch  BY DEF FetchConnectionLost
      <4> QED  BY <1>0, <2>3, <4>1, <4>2 DEF IdleFetch
    <3>2. /\ fw'[f].job = fw[f].job /\ fw'[f].orders = fw[f].orders
          /\ fw'[f].total = fw[f].total /\ fw'[f].page = fw[f].page
          /\ fw'[f].phase = fw[f].phase /\ fw'[f].seen = fw[f].seen
      <4>1. CASE PublishChunk(f)  BY <1>0, <3>1, <4>1 DEF PublishChunk, BusyFetch
      <4>2. CASE FetchConnectionLost(f)  BY <1>0, <3>1, <4>2 DEF FetchConnectionLost, BusyFetch
      <4> QED  BY <2>3, <4>1, <4>2
    <3>3. Reading(fw[f], book[fw[f].job.region], version[fw[f].job.region])
      BY <3>1 DEF ReadInv
    <3> QED  BY <3>2, <3>3 DEF Reading
  <2>4. CASE AckJob(f) \/ StaleAck(f) \/ FetchCrash(f)
    BY <1>0, <2>4 DEF AckJob, StaleAck, FetchCrash, FetchExits
  <2> QED  BY <1>2, <2>1, <2>2, <2>3, <2>4 DEF FetchStep, FetchFault
<1>3. ASSUME NEW r \in Regions, BookChange(r) PROVE ReadInv'
  <2>1. /\ fw' = fw /\ version' = [version EXCEPT ![r] = version[r] + 1]
        /\ \A q \in Regions : q # r => book'[q] = book[q]
    <3>1. OrderGone(r) => \A q \in Regions : q # r => book'[q] = book[q]
      BY <1>0 DEF OrderGone
    <3>2. (\E o \in Orders : OrderPlaced(r, o)) => \A q \in Regions : q # r => book'[q] = book[q]
      BY <1>0 DEF OrderPlaced
    <3> QED  BY <1>3, <3>1, <3>2 DEF BookChange, OrderGone, OrderPlaced
  <2>2. SUFFICES ASSUME NEW f \in FetchWorkers, fw[f] # IdleFetch
        PROVE  Reading(fw[f], book'[fw[f].job.region], version'[fw[f].job.region])
    BY <2>1 DEF ReadInv, Reading
  <2>3. Reading(fw[f], book[fw[f].job.region], version[fw[f].job.region])
    BY <2>2 DEF ReadInv
  <2>4. fw[f] \in BusyFetch /\ fw[f].job.region \in Regions /\ fw[f].seen \in Nat
    BY <1>0, <2>2 DEF BusyFetch
  <2>5. CASE fw[f].job.region = r
    <3>1. /\ version'[r] = version[r] + 1 /\ version[r] \in Nat /\ fw[f].seen <= version[r]
      BY <1>0, <2>1, <2>3, <2>5 DEF Reading
    <3>2. fw[f].seen <= version'[r] /\ fw[f].seen # version'[r]  BY <2>4, <3>1
    <3> QED  BY <2>3, <2>5, <3>2 DEF Reading
  <2>6. CASE fw[f].job.region # r  BY <1>0, <2>1, <2>3, <2>4, <2>6
  <2> QED  BY <2>5, <2>6
<1>4. \/ UNCHANGED <<fw, book, version>>
      \/ \E f \in FetchWorkers : FetchStep(f) \/ FetchFault(f)
      \/ \E r \in Regions : BookChange(r)
  BY BookIsOfOrders
     DEF Next, vars, Dispatcher, DispatchStart, DispatchPublish, DispatchEnd, DispatchFail,
         DeliverJob, DeliverChunk, WriteStep, TakeChunk, ApplyChunk, AckChunk, StaleChunkAck,
         WriteFault, WriteCrash, ApplyPartially, WriteConnectionLost, WriteExits
<1> QED  BY <1>1, <1>2, <1>3, <1>4

\* run_fetch_job reads how many pages there are from page 1 only: a book that did not
\* change since is captured whole, in order, with no order missing or twice, whatever the
\* page size, and whatever became of the connection meanwhile.
THEOREM StillBooksAreCaptured == Spec => []StillBookCaptured
<1>1. Init => ReadInv
  BY DEF Init, ReadInv
<1>2. ReadInv => StillBookCaptured
  BY DEF ReadInv, Reading, StillBookCaptured, IdleFetch
<1> QED  BY <1>1, <1>2, ReadStep, TypeCorrect, PTL DEF Spec

=============================================================================
