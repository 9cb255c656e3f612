---------------------------- MODULE MarketOrders ----------------------------
(***************************************************************************)
(* The market-orders scrape: an hourly dispatcher publishes one job per    *)
(* region, fetch workers turn a job into chunks of orders, write workers   *)
(* insert the chunks into the market_orders collection.  The broker's two  *)
(* durable queues, ESI's order book and MongoDB's indexes are external     *)
(* and modelled from how the workers use them.                             *)
(*                                                                         *)
(* A worker may exit at any step (an exception, a killed pod) and is       *)
(* restarted; what it had not acknowledged goes back to the head of its    *)
(* queue.  A lost connection does the same but the worker keeps running    *)
(* with the message in its hand: it is then "stale", and only its          *)
(* acknowledgement fails.                                                  *)
(***************************************************************************)
EXTENDS Naturals, Sequences, FiniteSets

CONSTANTS
  Regions,        \* region ids ESI lists
  Markets,        \* the regions with a market (wormhole regions have none)
  Runs,           \* scrape_run_id values, one per dispatcher process
  Orders,         \* order ids
  FetchWorkers, WriteWorkers,
  Book0,          \* [Regions -> Seq(Orders)]: ESI's order book at the start
  PageSize,       \* orders on one ESI page
  ChunkSize,      \* settings.market_orders_chunk_size
  FetchPrefetch,  \* unacknowledged jobs the broker hands one fetch worker
  WritePrefetch,  \* settings.market_orders_write_prefetch
  UniqueIndex,    \* is there a unique (order_id, scrape_run_id) index?
  MaxFaults,      \* bound: exits, lost connections and failed inserts
  MaxChanges      \* bound: changes of one region's order book

ASSUME SizesAreNat ==
  /\ PageSize \in Nat \ {0} /\ ChunkSize \in Nat \ {0}
  /\ FetchPrefetch \in Nat /\ WritePrefetch \in Nat
  /\ MaxFaults \in Nat /\ MaxChanges \in Nat

ASSUME IndexFlag == UniqueIndex \in BOOLEAN

ASSUME BookIsOfOrders ==
  /\ Book0 \in [Regions -> Seq(Orders)]
  /\ Markets \subseteq Regions

VARIABLES
  disp,      \* dispatcher of each run: "idle", "sending", "done", "failed"
  todo,      \* regions it has still to publish
  jobs,      \* queue market_orders.scrape_jobs
  unackedJ,  \* per fetch worker: jobs delivered and not acknowledged
  fw,        \* per fetch worker: its run_fetch_job in progress
  results,   \* queue market_orders.results
  unackedC,  \* per write worker: chunks delivered and not acknowledged
  ww,        \* per write worker: the chunk it is applying
  rows,      \* market_orders: copies of each (job, order)
  book,      \* ESI's order book of each region
  version,   \* how often that book changed
  faults,    \* faults so far
  seenOn,    \* history: orders that were ever on a region's book
  captured,  \* history: the orders of each acknowledged job
  acked,     \* history: acknowledged jobs
  stored     \* history: (job, order) pairs ever inserted

dispatchVars == <<disp, todo>>
fetchVars == <<jobs, unackedJ, fw, captured, acked>>
writeVars == <<unackedC, ww, rows, stored>>
bookVars == <<book, version, seenOn>>
vars == <<dispatchVars, fetchVars, results, writeVars, bookVars, faults>>

Jobs == [region : Regions, run : Runs]
Keys == Jobs \X Orders
Chunks == [job : Jobs, orders : Seq(Orders)]

IdleFetch == [phase |-> "idle"]
\* seen and first are history: how often the book had changed when page 1 was read,
\* and the orders on it then.
BusyFetch == [phase : {"fetch", "publish"}, job : Jobs, page : Nat \ {0}, total : Nat,
              orders : Seq(Orders), sent : Nat, stale : BOOLEAN, seen : Nat,
              first : SUBSET Orders]
IdleWrite == [phase |-> "idle"]
BusyWrite == [phase : {"apply", "ack"}, chunk : Chunks, stale : BOOLEAN]

-----------------------------------------------------------------------------
(* ESI's paged order book *)

\* X-Pages of a book; a region without a market answers 404, hence 0 pages.
Pages(b) == (Len(b) + PageSize - 1) \div PageSize

\* A page; one past the end is a 404, which the client reports as empty.
PageOf(b, p) ==
  LET last == p * PageSize
  IN  SubSeq(b, last - PageSize + 1, IF last <= Len(b) THEN last ELSE Len(b))

\* Mutant of ChunkFrom: the slice stops one order early.
ChunkFromShort(s, start) ==
  SubSeq(s, start + 1,
         (IF start + ChunkSize <= Len(s) THEN start + ChunkSize ELSE Len(s)) - 1)

\* orders[start : start + market_orders_chunk_size]
ChunkFrom(s, start) ==
  SubSeq(s, start + 1, IF start + ChunkSize <= Len(s) THEN start + ChunkSize ELSE Len(s))

Elems(s) == {s[i] : i \in DOMAIN s}

\* The documents of chunk c at the places in S.
KeysAt(c, S) == {<<c.job, c.orders[i]>> : i \in S}
CopiesAt(k, c, S) == Cardinality({i \in S : <<c.job, c.orders[i]>> = k})

\* insert_many(ordered=False) gets the documents of chunk c at the places in S
\* in: with the unique index a row that exists already is error 11000, which
\* apply_orders_chunk swallows.
Insert(r, c, S) ==
  [k \in Keys |->
     IF k \in KeysAt(c, S)
     THEN IF UniqueIndex THEN 1 ELSE r[k] + CopiesAt(k, c, S)
     ELSE r[k]]

-----------------------------------------------------------------------------
Init ==
  /\ disp = [u \in Runs |-> "idle"]
  /\ todo = [u \in Runs |-> {}]
  /\ jobs = <<>>
  /\ unackedJ = [f \in FetchWorkers |-> <<>>]
  /\ fw = [f \in FetchWorkers |-> IdleFetch]
  /\ results = <<>>
  /\ unackedC = [w \in WriteWorkers |-> <<>>]
  /\ ww = [w \in WriteWorkers |-> IdleWrite]
  /\ rows = [k \in Keys |-> 0]
  /\ book = Book0
  /\ version = [r \in Regions |-> 0]
  /\ faults = 0
  /\ seenOn = [r \in Regions |-> Elems(Book0[r])]
  /\ captured = [j \in Jobs |-> {}]
  /\ acked = {}
  /\ stored = {}

Fault == faults < MaxFaults /\ faults' = faults + 1

-----------------------------------------------------------------------------
(* dispatch_scrape *)

DispatchStart(u) ==
  /\ disp[u] = "idle"
  /\ disp' = [disp EXCEPT ![u] = "sending"]
  /\ todo' = [todo EXCEPT ![u] = Regions]
  /\ UNCHANGED <<fetchVars, results, writeVars, bookVars, faults>>

\* Mutant of DispatchPublish: the message fields swapped.
DispatchSwapped(u, r) ==
  /\ disp[u] = "sending"
  /\ r \in todo[u]
  /\ jobs' = Append(jobs, [region |-> u, run |-> r])
  /\ todo' = [todo EXCEPT ![u] = @ \ {r}]
  /\ UNCHANGED <<disp, unackedJ, fw, captured, acked, results, writeVars, bookVars, faults>>

DispatchPublish(u, r) ==
  /\ disp[u] = "sending"
  /\ r \in todo[u]
  /\ jobs' = Append(jobs, [region |-> r, run |-> u])
  /\ todo' = [todo EXCEPT ![u] = @ \ {r}]
  /\ UNCHANGED <<disp, unackedJ, fw, captured, acked, results, writeVars, bookVars, faults>>

DispatchEnd(u) ==
  /\ disp[u] = "sending"
  /\ todo[u] = {}
  /\ disp' = [disp EXCEPT ![u] = "done"]
  /\ UNCHANGED <<todo, fetchVars, results, writeVars, bookVars, faults>>

\* Mutant of DispatchFail: main catches the exception and exits with 0.
DispatchErrorSwallowed(u) ==
  /\ disp[u] = "sending"
  /\ Fault
  /\ disp' = [disp EXCEPT ![u] = "done"]
  /\ UNCHANGED <<todo, fetchVars, results, writeVars, bookVars>>

\* The process dies or a publish raises: the regions left are never published
\* under this run id; the CronJob's retry draws a fresh one.
DispatchFail(u) ==
  /\ disp[u] = "sending"
  /\ Fault
  /\ disp' = [disp EXCEPT ![u] = "failed"]
  /\ UNCHANGED <<todo, fetchVars, results, writeVars, bookVars>>

-----------------------------------------------------------------------------
(* Fetch worker *)

DeliverJob(f) ==
  /\ jobs # <<>>
  /\ Len(unackedJ[f]) < FetchPrefetch
  /\ unackedJ' = [unackedJ EXCEPT ![f] = Append(@, Head(jobs))]
  /\ jobs' = Tail(jobs)
  /\ UNCHANGED <<dispatchVars, fw, captured, acked, results, writeVars, bookVars, faults>>

TakeJob(f) ==
  /\ fw[f] = IdleFetch
  /\ unackedJ[f] # <<>>
  /\ LET job == Head(unackedJ[f]) IN
       fw' = [fw EXCEPT ![f] =
                [phase |-> "fetch", job |-> job, page |-> 1, total |-> 1, orders |-> <<>>,
                 sent |-> 0, stale |-> FALSE, seen |-> version[job.region],
                 first |-> {}]]
  /\ UNCHANGED <<dispatchVars, jobs, unackedJ, captured, acked, results, writeVars,
                 bookVars, faults>>

\* Mutant of FetchPage: an X-Pages other than that of page 1 ends the loop.
FetchPageBreaks(f) ==
  /\ fw[f].phase = "fetch"
  /\ LET b == book[fw[f].job.region]
         total == IF fw[f].page = 1 THEN Pages(b) ELSE fw[f].total
         last == fw[f].page + 1 > total \/ Pages(b) # total
     IN  fw' = [fw EXCEPT ![f].orders = @ \o PageOf(b, fw[f].page),
                          ![f].total = total,
                          ![f].page = @ + 1,
                          ![f].phase = IF last THEN "publish" ELSE "fetch",
                          ![f].seen = IF fw[f].page = 1 THEN version[fw[f].job.region] ELSE @,
                          ![f].first = IF fw[f].page = 1 THEN Elems(b) ELSE @]
  /\ UNCHANGED <<dispatchVars, jobs, unackedJ, captured, acked, results, writeVars,
                 bookVars, faults>>

\* One get_market_orders_page; only page 1 sets the number of pages.
FetchPage(f) ==
  /\ fw[f].phase = "fetch"
  /\ LET b == book[fw[f].job.region]
         total == IF fw[f].page = 1 THEN Pages(b) ELSE fw[f].total
         w == fw[f]
     IN  fw' = [fw EXCEPT ![f] =
           [w EXCEPT !.orders = w.orders \o PageOf(b, w.page),
                     !.total = total,
                     !.page = w.page + 1,
                     !.phase = IF w.page + 1 > total THEN "publish" ELSE "fetch",
                     !.seen = IF w.page = 1 THEN version[w.job.region] ELSE w.seen,
                     !.first = IF w.page = 1 THEN Elems(b) ELSE w.first]]
  /\ UNCHANGED <<dispatchVars, jobs, unackedJ, captured, acked, results, writeVars,
                 bookVars, faults>>

PublishChunk(f) ==
  /\ fw[f].phase = "publish"
  /\ fw[f].sent < Len(fw[f].orders)
  /\ results' = Append(results, [job |-> fw[f].job,
                                 orders |-> ChunkFrom(fw[f].orders, fw[f].sent)])
  /\ fw' = [fw EXCEPT ![f].sent = @ + ChunkSize]
  /\ UNCHANGED <<dispatchVars, jobs, unackedJ, captured, acked, writeVars, bookVars, faults>>

\* Mutant of AckJob: acknowledged before the chunks are published.
AckJobEarly(f) ==
  /\ fw[f].phase = "publish"
  /\ ~fw[f].stale
  /\ unackedJ' = [unackedJ EXCEPT ![f] = Tail(@)]
  /\ fw' = [fw EXCEPT ![f] = IdleFetch]
  /\ acked' = acked \cup {fw[f].job}
  /\ captured' = [captured EXCEPT ![fw[f].job] = Elems(fw[f].orders)]
  /\ UNCHANGED <<dispatchVars, jobs, results, writeVars, bookVars, faults>>

\* Mutant of AckJob: a worker that lost its connection counts as done.
AckJobStale(f) ==
  /\ fw[f].phase = "publish"
  /\ fw[f].sent >= Len(fw[f].orders)
  /\ unackedJ' = IF fw[f].stale THEN unackedJ ELSE [unackedJ EXCEPT ![f] = Tail(@)]
  /\ fw' = [fw EXCEPT ![f] = IdleFetch]
  /\ acked' = acked \cup {fw[f].job}
  /\ captured' = [captured EXCEPT ![fw[f].job] = Elems(fw[f].orders)]
  /\ UNCHANGED <<dispatchVars, jobs, results, writeVars, bookVars, faults>>

AckJob(f) ==
  /\ fw[f].phase = "publish"
  /\ fw[f].sent >= Len(fw[f].orders)
  /\ ~fw[f].stale
  /\ unackedJ' = [unackedJ EXCEPT ![f] = Tail(@)]
  /\ fw' = [fw EXCEPT ![f] = IdleFetch]
  /\ acked' = acked \cup {fw[f].job}
  /\ captured' = [captured EXCEPT ![fw[f].job] = Elems(fw[f].orders)]
  /\ UNCHANGED <<dispatchVars, jobs, results, writeVars, bookVars, faults>>

\* The worker's process ends; its unacknowledged jobs return to the queue.
FetchExits(f) ==
  /\ jobs' = unackedJ[f] \o jobs
  /\ unackedJ' = [unackedJ EXCEPT ![f] = <<>>]
  /\ fw' = [fw EXCEPT ![f] = IdleFetch]
  /\ UNCHANGED <<dispatchVars, captured, acked, results, writeVars, bookVars>>

\* ack() on the channel of a connection that is gone raises.
StaleAck(f) ==
  /\ fw[f].phase = "publish"
  /\ fw[f].sent >= Len(fw[f].orders)
  /\ fw[f].stale
  /\ FetchExits(f)
  /\ UNCHANGED faults

\* Mutant of FetchCrash: the error is swallowed and the job acknowledged.
FetchErrorSwallowed(f) ==
  /\ fw[f] # IdleFetch
  /\ ~fw[f].stale
  /\ Fault
  /\ unackedJ' = [unackedJ EXCEPT ![f] = Tail(@)]
  /\ fw' = [fw EXCEPT ![f] = IdleFetch]
  /\ UNCHANGED <<jobs, dispatchVars, captured, acked, results, writeVars, bookVars>>

\* A page whose retries are used up, a failed publish, a killed pod.
FetchCrash(f) ==
  /\ fw[f] # IdleFetch \/ unackedJ[f] # <<>>
  /\ Fault
  /\ FetchExits(f)

FetchConnectionLost(f) ==
  /\ fw[f] # IdleFetch
  /\ ~fw[f].stale
  /\ Fault
  /\ jobs' = unackedJ[f] \o jobs
  /\ unackedJ' = [unackedJ EXCEPT ![f] = <<>>]
  /\ fw' = [fw EXCEPT ![f].stale = TRUE]
  /\ UNCHANGED <<dispatchVars, captured, acked, results, writeVars, bookVars>>

-----------------------------------------------------------------------------
(* Write worker *)

DeliverChunk(w) ==
  /\ results # <<>>
  /\ Len(unackedC[w]) < WritePrefetch
  /\ unackedC' = [unackedC EXCEPT ![w] = Append(@, Head(results))]
  /\ results' = Tail(results)
  /\ UNCHANGED <<dispatchVars, fetchVars, ww, rows, stored, bookVars, faults>>

TakeChunk(w) ==
  /\ ww[w] = IdleWrite
  /\ unackedC[w] # <<>>
  /\ ww' = [ww EXCEPT ![w] = [phase |-> "apply", chunk |-> Head(unackedC[w]),
                              stale |-> FALSE]]
  /\ UNCHANGED <<dispatchVars, fetchVars, results, unackedC, rows, stored, bookVars, faults>>

ApplyChunk(w) ==
  /\ ww[w].phase = "apply"
  /\ LET c == ww[w].chunk IN
       /\ rows' = Insert(rows, c, DOMAIN c.orders)
       /\ stored' = stored \cup KeysAt(c, DOMAIN c.orders)
  /\ ww' = [ww EXCEPT ![w].phase = "ack"]
  /\ UNCHANGED <<dispatchVars, fetchVars, results, unackedC, bookVars, faults>>

\* Mutant of AckChunk: acknowledged before the insert.
AckChunkEarly(w) ==
  /\ ww[w].phase = "apply"
  /\ ~ww[w].stale
  /\ unackedC' = [unackedC EXCEPT ![w] = Tail(@)]
  /\ ww' = [ww EXCEPT ![w] = IdleWrite]
  /\ UNCHANGED <<dispatchVars, fetchVars, results, rows, stored, bookVars, faults>>

AckChunk(w) ==
  /\ ww[w].phase = "ack"
  /\ ~ww[w].stale
  /\ unackedC' = [unackedC EXCEPT ![w] = Tail(@)]
  /\ ww' = [ww EXCEPT ![w] = IdleWrite]
  /\ UNCHANGED <<dispatchVars, fetchVars, results, rows, stored, bookVars, faults>>

WriteExits(w) ==
  /\ results' = unackedC[w] \o results
  /\ unackedC' = [unackedC EXCEPT ![w] = <<>>]
  /\ ww' = [ww EXCEPT ![w] = IdleWrite]
  /\ UNCHANGED <<dispatchVars, fetchVars, bookVars>>

StaleChunkAck(w) ==
  /\ ww[w].phase = "ack"
  /\ ww[w].stale
  /\ WriteExits(w)
  /\ UNCHANGED <<rows, stored, faults>>

WriteCrash(w) ==
  /\ ww[w] # IdleWrite \/ unackedC[w] # <<>>
  /\ Fault
  /\ WriteExits(w)
  /\ UNCHANGED <<rows, stored>>

\* insert_many fails on some document with another error than 11000, or the
\* database goes away half-way: some documents are in, the error is raised and
\* the worker exits.
ApplyPartially(w) ==
  /\ ww[w].phase = "apply"
  /\ Fault
  /\ LET c == ww[w].chunk IN
       \E S \in SUBSET DOMAIN c.orders :
         /\ rows' = Insert(rows, c, S)
         /\ stored' = stored \cup KeysAt(c, S)
  /\ WriteExits(w)

WriteConnectionLost(w) ==
  /\ ww[w] # IdleWrite
  /\ ~ww[w].stale
  /\ Fault
  /\ results' = unackedC[w] \o results
  /\ unackedC' = [unackedC EXCEPT ![w] = <<>>]
  /\ ww' = [ww EXCEPT ![w].stale = TRUE]
  /\ UNCHANGED <<dispatchVars, fetchVars, rows, stored, bookVars>>

-----------------------------------------------------------------------------
(* The players of the game *)

\* An order is filled, cancelled or expires: the ones behind it move up.
OrderGone(r) ==
  /\ version[r] < MaxChanges
  /\ \E i \in DOMAIN book[r] :
       book' = [book EXCEPT ![r] = SubSeq(@, 1, i - 1) \o SubSeq(@, i + 1, Len(@))]
  /\ version' = [version EXCEPT ![r] = @ + 1]
  /\ UNCHANGED <<dispatchVars, fetchVars, results, writeVars, seenOn, faults>>

\* A new order enters at the front: the ones behind it move down a place.
OrderPlaced(r, o) ==
  /\ version[r] < MaxChanges
  /\ \A q \in Regions : o \notin seenOn[q]
  /\ book' = [book EXCEPT ![r] = <<o>> \o @]
  /\ seenOn' = [seenOn EXCEPT ![r] = @ \cup {o}]
  /\ version' = [version EXCEPT ![r] = @ + 1]
  /\ UNCHANGED <<dispatchVars, fetchVars, results, writeVars, faults>>

-----------------------------------------------------------------------------
Dispatcher(u) ==
  \/ DispatchStart(u) \/ DispatchEnd(u) \/ DispatchFail(u)
  \/ \E r \in Regions : DispatchPublish(u, r)

FetchStep(f) == TakeJob(f) \/ FetchPage(f) \/ PublishChunk(f) \/ AckJob(f) \/ StaleAck(f)
FetchFault(f) == FetchCrash(f) \/ FetchConnectionLost(f)

WriteStep(w) == TakeChunk(w) \/ ApplyChunk(w) \/ AckChunk(w) \/ StaleChunkAck(w)
WriteFault(w) == WriteCrash(w) \/ ApplyPartially(w) \/ WriteConnectionLost(w)

BookChange(r) == OrderGone(r) \/ \E o \in Orders : OrderPlaced(r, o)

Next ==
  \/ \E u \in Runs : Dispatcher(u)
  \/ \E f \in FetchWorkers : DeliverJob(f) \/ FetchStep(f) \/ FetchFault(f)
  \/ \E w \in WriteWorkers : DeliverChunk(w) \/ WriteStep(w) \/ WriteFault(w)
  \/ \E r \in Markets : BookChange(r)

Spec == Init /\ [][Next]_vars

(***************************************************************************)
(* Fairness: the broker hands a queued message to some live consumer, a    *)
(* running worker goes on to its next await, and the Job of the CronJob    *)
(* starts another dispatcher when one has failed (backoffLimit 2, so for   *)
(* two failures at most).  Nothing makes the first dispatcher start, a     *)
(* fault happen or ESI's book change.                                      *)
(***************************************************************************)
Fairness ==
  /\ \A u \in Runs : WF_vars(DispatchEnd(u) \/ \E r \in Regions : DispatchPublish(u, r))
  /\ WF_vars((\E v \in Runs : disp[v] = "failed") /\ \E u \in Runs : DispatchStart(u))
  /\ WF_vars(\E f \in FetchWorkers : DeliverJob(f))
  /\ \A f \in FetchWorkers : WF_vars(FetchStep(f))
  /\ WF_vars(\E w \in WriteWorkers : DeliverChunk(w))
  /\ \A w \in WriteWorkers : WF_vars(WriteStep(w))

FairSpec == Spec /\ Fairness

-----------------------------------------------------------------------------
(* What the pipeline promises *)

TypeOK ==
  /\ disp \in [Runs -> {"idle", "sending", "done", "failed"}]
  /\ todo \in [Runs -> SUBSET Regions]
  /\ jobs \in Seq(Jobs)
  /\ unackedJ \in [FetchWorkers -> Seq(Jobs)]
  /\ fw \in [FetchWorkers -> BusyFetch \cup {IdleFetch}]
  /\ results \in Seq(Chunks)
  /\ unackedC \in [WriteWorkers -> Seq(Chunks)]
  /\ ww \in [WriteWorkers -> BusyWrite \cup {IdleWrite}]
  /\ rows \in [Keys -> Nat]
  /\ book \in [Regions -> Seq(Orders)]
  /\ version \in [Regions -> Nat]
  /\ faults \in Nat
  /\ seenOn \in [Regions -> SUBSET Orders]
  /\ captured \in [Jobs -> SUBSET Orders]
  /\ acked \in SUBSET Jobs
  /\ stored \in SUBSET Keys

Dispatched(j) == disp[j.run] # "idle" /\ j.region \notin todo[j.run]

\* What the broker has not seen acknowledged: queued or in a worker's hands.
OpenJobs == Elems(jobs) \cup UNION {Elems(unackedJ[f]) : f \in FetchWorkers}
OpenChunks == Elems(results) \cup UNION {Elems(unackedC[w]) : w \in WriteWorkers}

\* Order o of job j was inserted, or a write worker will be handed it.
Accounted(j, o) ==
  \/ <<j, o>> \in stored
  \/ \E c \in OpenChunks : c.job = j /\ o \in Elems(c.orders)

\* No order of a region is lost once its job is acknowledged: every order the
\* job fetched was inserted, or is in a chunk a write worker will be handed.
\* (The fetch worker acknowledges after run_fetch_job published every chunk,
\* the write worker after the insert; either may die before or after.)
NoOrderLost == \A j \in acked : \A o \in captured[j] : Accounted(j, o)

\* Why no order is lost, step by step: what a worker will acknowledge is the
\* message in its hand; whatever a fetch worker has published already is
\* accounted for; a write worker about to acknowledge has inserted its chunk.
JobInHand ==
  \A f \in FetchWorkers :
    fw[f] # IdleFetch /\ ~fw[f].stale
      => unackedJ[f] # <<>> /\ Head(unackedJ[f]) = fw[f].job

ChunkInHand ==
  \A w \in WriteWorkers :
    ww[w] # IdleWrite /\ ~ww[w].stale
      => unackedC[w] # <<>> /\ Head(unackedC[w]) = ww[w].chunk

PublishedAccounted ==
  \A f \in FetchWorkers :
    /\ fw[f].phase = "fetch" => fw[f].sent = 0
    /\ fw[f].phase = "publish" =>
         \A i \in DOMAIN fw[f].orders :
           i <= fw[f].sent => Accounted(fw[f].job, fw[f].orders[i])

AppliedIsStored ==
  \A w \in WriteWorkers :
    ww[w].phase = "ack" => KeysAt(ww[w].chunk, DOMAIN ww[w].chunk.orders) \subseteq stored

InHand == JobInHand /\ ChunkInHand
DeliveryInv == InHand /\ PublishedAccounted /\ AppliedIsStored

\* A job published and not acknowledged is in exactly one place, the queue or
\* one worker's deliveries, and no other job is anywhere: a job is neither
\* forgotten nor multiplied by exits, lost connections and requeues, and a
\* worker's acknowledgement is always of the job it has fetched.
JobHeldOnce ==
  /\ \A j \in Jobs : j \in OpenJobs <=> Dispatched(j) /\ j \notin acked
  /\ \A i, n \in DOMAIN jobs : jobs[i] = jobs[n] => i = n
  /\ \A f \in FetchWorkers : Elems(jobs) \cap Elems(unackedJ[f]) = {}
  /\ \A f, g \in FetchWorkers : \A i \in DOMAIN unackedJ[f], n \in DOMAIN unackedJ[g] :
       unackedJ[f][i] = unackedJ[g][n] => f = g /\ i = n

\* One row per order per scrape run, however often jobs and chunks are
\* redelivered (apply_orders_chunk's docstring).
NoDuplicateRows == \A k \in Keys : rows[k] <= 1

\* A book that did not change since page 1 was read is fetched whole: each of
\* its orders once, in order, and the 404 of a region without a market is the
\* empty list.
StillBookCaptured ==
  \A f \in FetchWorkers :
    fw[f].phase = "publish" /\ fw[f].seen = version[fw[f].job.region]
      => fw[f].orders = book[fw[f].job.region]

\* X-Pages is read from page 1 only and orders move between the pages while the
\* rest is fetched: still, a change of the book costs at most one of the orders
\* that stay on it, and makes at most one be fetched twice; what is fetched was
\* on the book.
EachChangeCostsOne ==
  \A f \in FetchWorkers : fw[f].phase = "publish" =>
    LET region == fw[f].job.region
        fetched == Elems(fw[f].orders)
        stayed == fw[f].first \cap Elems(book[region])
        changes == version[region] - fw[f].seen
    IN  /\ Cardinality(stayed \ fetched) <= changes
        /\ Len(fw[f].orders) - Cardinality(fetched) <= changes
        /\ fetched \subseteq seenOn[region]

\* A published job is eventually acknowledged, by whichever worker survives.
DispatchedIsAcked == \A j \in Jobs : Dispatched(j) ~> j \in acked

\* Every order of an acknowledged job eventually reaches the collection.
CapturedIsStored ==
  \A k \in Keys : (k[1] \in acked /\ k[2] \in captured[k[1]]) ~> k \in stored

\* A dispatcher that ends well has its whole run scraped, whatever becomes of the
\* workers; one that fails half-way leaves its run incomplete, but then the retry
\* scrapes every region under a run id of its own.
Complete(u) == \A r \in Regions : [region |-> r, run |-> u] \in acked
EveryHourIsScraped ==
  \A u \in Runs :
    /\ disp[u] = "done" ~> Complete(u)
    /\ disp[u] = "failed" ~> \E v \in Runs : Complete(v)

\* Seen from outside, the pipeline is the ledger: a job is published once and
\* acknowledged once, its capture never changes, stored orders stay known.
Ledger == INSTANCE ScrapeLedger WITH open <- OpenJobs
ImplementsLedger == Ledger!Spec

=============================================================================
