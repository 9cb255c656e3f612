# A TLA+ model of eve-build

eve-build (this repository: a FastAPI application, two queue workers and a dispatcher,
over MongoDB, Redis, RabbitMQ, EVE SSO and ESI) shows an EVE Online player blueprints,
assets, jobs and build chains. This directory holds TLA+ modules of the parts that keep
state or compute something worth getting right, the TLC instances that check them, and
TLAPS proofs of what matters most. Paths below are relative to the repository's root.

    tlasany M.tla                    parse a module
    tlc -config MCX_y.cfg MCX        model-check an instance
    tlapm XProofs.tla                check the proofs of a module

`PROJECT.json` names, for every definition, the source lines it stands for (`map`), the
runs with their properties, one mutant per property (a plausible bug of the code, written
as an operator beside the definition it replaces, that the property must catch), the
hazards of the code and the theorems.

## 1. The system

| Component | Source | State | Operations |
|---|---|---|---|
| Market-orders scrape | `app/services/market_orders.py`, `app/scripts/{dispatch_market_orders_scrape,market_orders_fetch_worker,market_orders_write_worker}.py`, `app/db/rabbitmq.py` | queues `market_orders.scrape_jobs` and `market_orders.results`, collection `market_orders`, the messages each worker holds | publish a job per region; fetch the pages of a region, publish chunks, ack; insert a chunk, ack |
| Sessions, login, token refresh | `app/deps.py`, `app/routes/auth.py`, `app/services/eve_sso.py`, `app/models/character.py` | session cookie, `characters` document with two token pairs, EVE SSO's tokens | login, connect-corp, callback, the two refreshes of `get_current_character_optional`, disconnect, logout, clear-data |
| ESI list cache | `app/services/esi_cache.py`, `app/services/character_data.py` | per list a MongoDB collection and a Redis key | read through, refresh, clear-data |
| Reference-data caches | `app/services/locations.py`, `app/services/sde.py`, `app/services/cache.py` | `location_names`, `system_security`, `planet_names`, `system_names`, `sde_*`, and a Redis key per id | resolve a set of ids |
| Migrations | `app/migrations/` | raw tables, lookup collections, `_migrations` | apply what is not recorded, in order |
| Index sync | `app/db/index_sync.py`, `app/config/mongo_indexes/` | the indexes, `_index_config` | create, rebuild, drop what the release declares |
| Startup | `app/main.py` | the pods | migrations, then indexes, then serve |
| Build chain | `app/services/build_chain.py` | locals of one call | walk, cut, order the steps |
| ESI client | `app/services/esi.py` | none (ESI's error budget) | pages, retries, lookups |
| Container chains, asset and blueprint pages | `app/services/locations.py`, `app/routes/{assets,blueprints}.py` | locals of one request | merge the lists, walk from each item to its station, group |
| Planetary industry | `app/routes/{pi,planetary}.py` | locals of one request | resource flow of a colony, materials of a schematic per starting tier |
| Market prices | `app/services/market_prices.py`, `app/routes/market_prices.py` | `market_prices` | refresh: fetch all, upsert all at once |
| Gauges, settings, rendering, SDE dump, deployment | the rest | none of their own | HTML, filters, configuration |

How they interact. `app/main.py` runs the migrations and the index sync of a pod before it
serves; several pods and several releases share one MongoDB. A request is a coroutine: it
reads the session cookie, `get_current_character_optional` loads the character's document
and may refresh a token at EVE SSO and save it, the page then calls the list caches (with
the token) and the reference-data caches, and computes from them what it shows. A CronJob
posts to `/market-prices/refresh` and posts again when that fails. Every `await` lets other
requests of the same character run, in the same or in another pod; nothing is locked and no
update is conditional. The scrape shares only MongoDB with the rest: its processes talk through
RabbitMQ with manual acknowledgement.

What is hard here: interleaving at every `await`; at-least-once delivery with exits and lost
connections; fetch-then-store sequences that an invalidation, a disconnect or a deletion
overtakes; pods killed in the middle of a migration or an index build; rollouts; Redis
calls whose failure is swallowed; rotating refresh tokens; lists of one hangar fetched page by
page at different moments; upserts that go on after their request has failed; and in the
calculations shared components, rounding and cycles. `PROJECT.json` lists the hazards at their
lines.

What makes each component correct:

- scrape: an acknowledged job's orders are all stored or still on their way, whoever dies;
  no job is multiplied; a redelivery does not duplicate rows; every job is done eventually, and
  every hour's run, if need be by its retry; a book that moves costs an order per change at most.
- tokens: each pair sits in the document and place it was issued for, none is lost through
  overlap alone, a deleted character does not come back, connected means complete.
- list cache: a refresh is seen, or at least what is cached too old goes; what is deleted stays
  deleted; the collections do not fill with copies.
- reference data: what is known is shown, failures are not kept, the stores agree in the end.
- startup: what a serving pod reads is complete and indexed as declared; every start takes up
  what an earlier one left; foreign indexes stay.
- build chain: demand is conserved, enough is built, steps come after their components.
- asset pages: over fresh lists each item is shown once, where it is, and over torn or old ones
  with an error per move at most; over any lists the walk ends, and a container is not taken
  for a station.
- prices: after a refresh that succeeded and ran alone the prices are those of its list; refreshes
  that overlap take no price back behind where it was before them.
- planetary: every starting tier takes the same raw materials; both pages of a colony agree.

## 2. Modules

| Module | Models | Composes |
|---|---|---|
| `MarketOrders` | dispatcher, fetch and write workers, queues, order book, rows | |
| `ScrapeLedger` | abstract: jobs are pending, then captured; captured orders get stored | implemented by `MarketOrders` |
| `CharacterAuth` | sessions, SSO flows, refreshes | |
| `EsiCache` | the cached lists of a character and its corporation | |
| `ReadThrough` | the read-through caches of reference data | |
| `MongoIndexes` | how MongoDB accepts or refuses an index (external) | |
| `Migrations` | the runner and six migrations, one or more of each shape | `MongoIndexes` |
| `IndexSync` | `sync_indexes` | `MongoIndexes` |
| `Startup` | the pods: boot, kill, rollout | `Migrations`, `IndexSync` |
| `BuildChain` | `resolve_build_chain`, `_topological_order` | |
| `Assets` | the merged lists of a page, `resolve_container_chain`, what the pages show | |
| `MarketPrices` | overlapping refreshes of the prices, and the upserts they leave behind | |
| `Planetary` | `_expand_to_tier` for every starting tier | |
| `Colony` | the overview and the page of a player's colony | |
| `MCPages` | instance: runs one of four programs that share no state | `BuildChain`, `MarketPrices`, `Planetary`, `Colony` |
| `MC*` | the values of the constants for TLC | |
| `*Proofs` | theorems; `CalculationProofs` those of `BuildChain` and `Planetary`, `PagesProofs` those of the other pages | |

A coroutine or process is a record per identity: `phase` is the `await` it is suspended at,
the other fields are its live locals. One action is the code from one `await` to the next.
Data are model values or small numbers: a list is a version number, a token an index into
the answers EVE SSO has given, a batch of a table a number.

### MarketOrders

`Dispatch*` is `dispatch_scrape` (one publish at a time; a process that dies leaves the rest
unpublished, and the CronJob's retry has a fresh run id). `DeliverJob`, `TakeJob`,
`FetchPage`, `PublishChunk`, `AckJob` are the loop of the fetch worker around
`run_fetch_job`, and `DeliverChunk`, `TakeChunk`, `ApplyChunk`, `AckChunk` that of the write
worker. `FetchPage` reads page by page and only page 1 says how many there are, while
`OrderPlaced` and `OrderGone` change the book in between. An exception is not caught around
a message: the process exits, and the broker puts what was unacknowledged back at the head
of the queue (`FetchExits`, `WriteExits`). A lost connection (`FetchConnectionLost`) does
the same, but the worker goes on with the message in its hand and fails at the
acknowledgement: aio_pika reconnects, the delivery tag belongs to the old channel.
`ApplyPartially` is an `insert_many` that raises with some documents in.
`Insert` is `insert_many(ordered=False)` with the swallowed error 11000. Nothing takes rows away:
no code of the repository deletes one, and no file declares a TTL index (finding 1).
`FetchPrefetch` stands for the fetch worker's unlimited prefetch: no instance has more
jobs than it. The comments of the code speak of a "region-complete marker"; nothing
publishes one, so none is modelled.

### CharacterAuth

`Login`, `ConnectCorp`, `Exchange`, `StoreLogin`, `StoreCorp` are the two PKCE flows through the
shared callback. `Find`, `RefreshBase`, `RefreshCorp`, `BaseRefused`, `CorpRefused`,
`RefreshFails`, `Save` are `get_current_character_optional`: read the document, refresh one or
both pairs at SSO, `$set` what changed. `Respond` writes the cookie back only if the request
changed the session, as Starlette does. A refresh token that was rotated or revoked is answered
with 400. `ConnectedSpec` starts from the state a login and a corporation connection lead to
(`ConnectedInit`), so that the bounds are spent on what overlaps afterwards. `Expire` happens only
while SSO may still answer (`Room`), within the bound.

### EsiCache

`cached_character_list` and `cached_corporation_list` step by step: `Hit`, `Miss`, `Fetch`,
`DeleteRows`, `InsertRows`, `SetCached`; `InvalidateRows`, `InvalidateKey` for each list of
`refresh_character_data` and `clear_character_data`. A failed Redis read is a miss, a failed
write or delete is swallowed; `Release` is the change of an entry type, which makes cached
entries unusable (the `TypeError` the code catches); `Forbidden` is a corporation list ESI
refuses. `Fetch` takes a list at one moment: that its pages may tear is left to
`MarketOrders` and `Assets`, which model the loop (the colonies, one request each, tear
alike). `crossed` is a history variable: were a page and a clear of the character in progress
at once? A clear that is still in progress across a
later login counts on: it deletes under the new login's pages too (the proof attempt showed
that `crossed` may not be reset then).

### ReadThrough

`_resolve_location_system_ids`, `_resolve_system_security_statuses`, `resolve_planet_names`
and `resolve_system_names` are one algorithm written four times, and `cached_docs_by_id` is
its first half: `Get` (MGET), `Find` (MongoDB for what is missing), `Cache` (a pipeline that
may be cut), then per id `Fetch` or `FetchFails`, `Store`, `Cache`. A page that resolved
locations goes on to their systems (`Finish`), those too that ESI gave for a location without
a name. Redis may fail at every call.

### Migrations, IndexSync, MongoIndexes, Startup

Six migrations stand for the ten: `import` (0001, each raw table a recorded step of its own),
`build` (0002, batch by batch, a second document of an `_id` refused), `schematics` and `again`
(0006 and 0007: a collection emptied and filled from files; 0005 does the same), `reactions`
(0008: upserts in flight, then a field set on the other documents; 0003 and 0004 update so too)
and `index` (0010). 0009 drops a collection nothing reads. Each awaited call is a step: empty,
fill a batch, record. `IndexSync` is `sync_indexes` entry by entry: compare with the record, drop,
create, record, then drop what is recorded and no longer declared. `MongoIndexes` is external: one
index per name and one per keys, `create_index` raises otherwise (IndexOptionsConflict, as in the
MongoDB 7 of `docker-compose.yml`). `Startup` boots pods, kills them and starts them again from
the image they had, and replaces those of older releases: `Replaced` puts the new pod in the place
of the old one, so that what a rolling update of one pod does, a new pod beside the old, is an
instance with two. A release has the first `Shipped` migrations of the order, so pods of an older
one serve, and are started again, while a newer one migrates. `MaxStarting` is how many pods with
something to migrate may start beside each other: 1 is the chart's default (`replicaCount: 1`, or
a rolling update of it), 2 is a deployment scaled up. A pod whose migrations are all recorded
starts beside any other, so that calls of `sync_indexes` overlap. Two things then go wrong and
stay wrong, and `muddled` remembers them: a sync cut off beside another (one drops the index the
other has just created and recorded, and is killed), and a sync of an older release after one of a
newer began (a container of an old pod that restarts during the rollout, or a rollback, drops an
index whose record then matches the newer release again). A third needs neither: release 2 changes
an index, its sync is killed after the drop and before the record, and release 3 declares the
index as release 1 did: record and declaration match, so nothing creates it (`BroughtBack`).

### BuildChain

`Buy`, `Build` are the two branches for one type of a level, `NextLevel` the end of the level
with the recursion guard, `Leftover` the loop after it; `Visit`, `Finish` are `_visit` with
its call stack as `path`. Types of a level and materials of a step are taken in any order,
which includes that of the dicts. `math.ceil` of a float quotient is exact below 2^53.
The blueprint of a type is looked up at every level, and awaited: `Import` is a rollout (0008
and its reaction formulas) that stores a document while the walk of an old pod goes on, so a
type may be bought on one level and built on the next.

### Assets

`Open` is a request for the asset pages or the blueprint pages; `Hit`, `FetchFirst`,
`FetchNext`, `Store` get each list through the cache, page by page, and only page 1 says how
many there are. If the list has become shorter meanwhile, the page after its end is an error
that ends the request (`FetchFails`), as any other error does but a 401 or 403 for a corporation
list, without which the page goes on (`Forbidden`). Without a blueprint in the lists of blueprints
the assets are not fetched (`Rest`). `Begin`, `Ascend`, `Arrive` are `resolve_container_chain`,
one container at a time, over `assets_by_item_id`, in which of an item listed twice the last
entry stays. `OverviewLocations`, `ItemLocations`, `LocationPage`, `OnSite` are what
`list_assets`, `item_detail`, `location_detail` and `blueprint_detail` show. The player moves
items, with what is in them, and hands them between character and corporation (`Move`).
`first` remembers what was in a list when its page 1 was read, and `still` which lists were read
since the last move.

### MarketPrices

`Post`, `FetchPrices`, `Upsert`, `Answer` are one refresh; several may overlap. When an upsert
fails the request is answered with 500 while the others are still in flight (`UpsertFails`,
`Settle`): `asyncio.gather` cancels nothing, and the CronJob's retry may overtake them. Also an
upsert that failed, or whose pod was killed (`Killed`), may have been sent already and land later
(`Ends`). `quiet` remembers the prices at the last moment no refresh was at work.

### Planetary, Colony

`Planetary` expands the inputs of a schematic for each starting tier. The program recurses and
adds up; the module adds up first and expands each material once, which is the same as the
expansion is linear. Amounts are counted in parts of a unit (`Scale`), where the program has
floats; `ScaleIsFine` asks of the unit that the divisions are exact, as those of the program's
floats are but for rounding. Of the data it assumes that nothing is made of itself, however
indirectly (`NothingOfItself`: `_expand_to_tier` has no other guard against a cycle), and that
what has a schematic is of a tier from P1 up (`TiersOfProducts`). The schematics the repository
ships (`app/data/sde/planetSchematicsTypeMap.json.gz`) are so: 68 schematics on four levels, all
of whose products are in the four groups of `_TIER_INDEX_BY_GROUP_ID`, and parts of 1/300 are
fine enough for them. `Colony` goes through the pins of a colony as both pages do; pins are told
apart by kind, so an extractor with an empty `extractor_details`, which only the overview would
overlook, is not distinguished.

## 3. Runs

| Run | Instance | Shows |
|---|---|---|
| `scrape_safety` | 2 regions (one without market), 2 fetch workers, 1 write worker; 2 orders on 2 pages, 2 faults and 1 change of the book ahead, or 4 orders on 4 pages and 3 changes | `NoOrderLost`, `DeliveryInv`, `JobHeldOnce`, `EachChangeCostsOne` (a capture misses or repeats an order per change at most, so none if nothing changed, and holds none that was not there) |
| `scrape_live` | 2 regions, 2 runs, chunks of one order, unique index; 1 job and 2 faults ahead, or a dispatcher half-way, another to come and 1 fault | every published job is acknowledged (`DispatchedIsAcked`), captured orders are stored (`CapturedIsStored`), a run that ended well is scraped whole and so is, after one that failed, another (`EveryHourIsScraped`), `MarketOrders` implements `ScrapeLedger` |
| `scrape_shipped_index` | the index the repository ships | finding: a redelivered chunk is stored twice |
| `auth_safety` | 1 browser, 2 characters, 2 overlapping requests, 2 new tokens, rotation; 1 new nonce and 1 error, or 1 beside an open login page and none | `TokensInPlace`, `StoredTokenAccounted`, `OnlyLoginCreates` |
| `auth_disconnect` | as above | finding: a refresh in flight undoes half of a disconnect |
| `cache_safety` | 1 personal and 1 corporation list, 2 requests; 1 change to an empty list ahead, or behind and 1 failure ahead | `CopiesBounded`, `RefreshIsSeenUnlessMissed`, `ClearedIsGoneUnlessCrossed`; what those miss in Redis goes (`StaleGoes`, `ClearedIsForgotten`) |
| `read_through` | 1 location with its system, 1 document, 2 pages, 1 renaming, 1 migration | `StoredIsShown`, `EventuallyAgree` |
| `startup` | 2 replicas, 1 kill besides the replacements, 3 releases (the third changes an index back), 2 batches, 5 index names, syncs that overlap, migrations from 0007 on in the second release | `ServesItsRelease`, `UpHasItsIndexes`, `UnmanagedKept`, `EventuallyUp` |
| `startup_shipped` | the declaration of `sde_blueprints.json` | finding: no pod ever serves |
| `migrations_scaled_up` | 2 replicas starting together on an empty database | finding: an incomplete collection recorded for good |
| `asset_pages` | 3 items, nested or side by side, 2 stations, 1 entry per page, 2 moves, 4 lists | `StillAssetsInPlace`, `EachMoveCostsOne`, `PagesAreAnswered` |
| `calculations` | build chain: 309 catalogs with and without cycles, depth 3, quantity 2, every choice, 1 import | `DemandConserved`, `BuiltOrBought`, `ComponentsFirst` |
| | prices: 2 goods, 3 lists, 2 refreshes that overlap, 2 failures | `AnsweredPricesAreStored`, `QuietPricesStay`, `PricesCatchUp` |
| | planetary: 56 sets of schematics over 5 types, any tiers unknown | `FloorsAgree` |
| | colonies: every colony of up to 3 pins | `ColonyPagesAgree` |

Each passing run also has the type invariant of its module, but for `scrape_live`; that of
`calculations` is `BuildChain`'s.

Several runs have two starts (the MC module gives them): states the program comes to, each of
which has some of the bounds behind it and others ahead. What the properties ask of two bounds
together (a fault and a change of the book, an error and a second flow) is so checked for one
of each kind ahead at least, and for more of one kind when the other is used up; the proofs do
not depend on them.

Bounds, and why they are enough. Two overlapping actors suffice for every race the code has: each
step of a request reads or writes one document, key or index, and every property is violated, when
a mutant breaks it, by two. Two faults let a recovery be interrupted (in `startup` the
replacements of a rollout interrupt beside the kill). Two pages, chunks and batches distinguish
first, last and in-between. One change of what is outside (book, list, name, release) makes "old"
and "new" differ. In `read_through` the ids of a set do not interact (MGET, find, pipeline and
loop treat each id by itself), so one id of each kind is taken there, and the proof covers sets.
In `asset_pages` pages of one entry tear every list that has two, and a circle of containers takes
two moves between the fetches of two lists. What a change of the book costs shows at the
boundaries of pages: `scrape_safety` has a book of four, so that a first, a last and two in
between may be read before and after a change in any pattern, and three changes, so that a sum of
errors is told from a constant one. For assets three pages and two moves do that. `auth_safety`
has two flows (the first pending at the start), the least with which two are pending at one callback or one
completes after another, and errors with one new flow. `scrape_live` has two regions, so that a
dispatcher may die between them; a run whose regions are empty is enough to tell whether it is
scraped. The build chain's four types are enough for a diamond, a cycle beside the target and a
chain as long as the guard; the proofs cover the rest. Two price refreshes can overtake each
other, and the third list has again what the second lacks. Schematics of three tiers above two raw
materials may skip a tier and share a material, and their products may lack a document; three pins
are enough to make, use and extract one resource. The four programs of `calculations` share no
state, so each behaviour runs one of them and nothing is lost by not interleaving them.
`CHECK_DEADLOCK FALSE` where the run ends by its bounds or because the program stops: run ids,
nonces and tokens are used up, all pods are up, the page is calculated. The other instances never
deadlock.

Fairness. `MarketOrders`: workers are restarted by Kubernetes and their loops run on, and the
broker delivers; a dispatcher that failed is followed by another, as the Job of the CronJob does
(`backoffLimit: 2`); faults and changes of the book are not fair (and bounded). `EsiCache`
and `ReadThrough`: the event loop runs a request to its end, whatever its calls answer; a key
that is not set again expires. `Assets`: the event loop runs a page to its end; players and Redis
need do nothing. `MarketPrices`: a refresh that was posted goes on, and the CronJob posts
again. `Startup`: a process runs on or is started again, and a rollout comes to its end.
Nothing assumes that ESI, SSO, Redis or a player does anything.

Symmetry is used in runs without liveness only, over workers, requests or orders not placed yet.

### Findings

1. `scrape_shipped_index`: `apply_orders_chunk` relies on a unique index over
   `(order_id, scrape_run_id)` and a TTL index that no file of the repository creates;
   `app/config/mongo_indexes/market_orders.json` declares a plain index over `scraped_at` and
   a field `ttl`. A redelivery duplicates rows. That rows never expire needs no run: nothing in
   the repository removes one.
2. `auth_disconnect`: the save of a refreshed corporation token is an unconditional `$set`:
   after a concurrent disconnect the character is "connected" without a corporation.
3. `startup_shipped`: migration 0010 and `sde_blueprints.json` index the same keys under two
   names, which MongoDB refuses: every start fails. All other properties of `Startup` are
   checked with declarations free of this conflict.
4. `migrations_scaled_up`: replicas that start together corrupt the migration for good,
   although the chart calls scaling up safe. It may also double the rows of the raw tables, and
   then the `insert_many` of 0002 is refused (`_id` twice) in every later start.

Facts met on the way that no violation run states:

- A page that fetched a list before `refresh_character_data` invalidated it caches it afterwards
  (`esi_cache.py:58`), so that "the next page view" (`character_data.py:368`) does not re-fetch.
  `RefreshIsSeenUnlessMissed` names this exception and a failed Redis delete, and `StaleGoes`
  shows that what they leave lasts until the key expires and no longer.
- A page in progress while clear-data runs may store its lists, and their Redis keys, after they
  were deleted (`character_data.py:391-394`, `esi_cache.py:47`): `ClearedIsGoneUnlessCrossed` has
  this exception. The keys expire (`ClearedIsForgotten`); the rows in MongoDB stay.
- Of two replicas that sync an index at once, one drops what the other created and recorded; if it
  is killed there, no later start builds the index (the first exception of `UpHasItsIndexes`).
- An extractor that reports no quantity per cycle makes its product look imported, although the
  comment at `pi.py:460` excludes what is made on the colony: `ColonyPagesAgree` says that it
  misleads about what nothing else makes, and about nothing else.
- While 0007 fills the planetary schematics again, pods of the older release answer from a
  collection that is empty or half full; if the pod that does it is killed, until the next
  start. `ServesItsRelease` has this one exception; the upserts of 0008 need none.
- Renaming an index over the same keys fails every start. `UpHasItsIndexes` has the three
  exceptions named under `Startup`; without any of them TLC finds an index that is on record and
  not there, which no later start builds. The third came out of the proof: the invariant was not
  inductive, the step that broke it was reachable, and a third release in the run shows it.
- A corporation connection is dropped when two requests refresh it at once under rotation
  (the loser's 400 clears it).
- A list of assets that becomes shorter while its pages are fetched ends the request with an
  error; one that changes otherwise may show an item twice or not at all until it expires.
  Lists that put containers in a circle show an item id as a location.
- A price ESI no longer lists keeps its last value.
- A component whose document is imported during a request may be both bought and built.
- A factory whose schematic is unknown is a factory on the overview and a storage on the colony's
  own page.
- The ESI client respects the error limit only after answers that succeed.

## 4. Proofs

Proved for every value of the constants that satisfies the `ASSUME`s of the module (ids of
the right kind, sizes positive); they are evaluated by TLC in every run. A lemma per action
shows that the inductive invariant is preserved; the theorems close with PTL. Every
invariant TLC checks in a passing run is proved, but for the two that bound what a moving list
costs (below), every action property, and the refinement. Six properties that TLC checked before
they were proved are not run any more, as the runs keep to what is hardest: `StillBookCaptured`
(that nothing is missed is `EachChangeCostsOne` without a change), `AppliedInOrder`, `NoNeedlessDrop`,
`NeverAKnownContainer`, `EnoughIsBuilt` and `EachStepListed`.

**`MarketOrdersProofs`**: type correctness; `NoOrderLost`, `JobHeldOnce`, `StillBookCaptured`,
`NoDuplicateRows` with the unique index (which `scrape_shipped_index` finds violated
without it), and that the pipeline implements `ScrapeLedger`. `NoOrderLost` is not inductive:
`DeliveryInv` adds that each captured order not yet stored is in a chunk that is queued or held
unacknowledged, and that what a fetch worker has not yet published is in its hand. `HeldInv`
says that no job is twice in the queue or in deliveries, and that it is in one of them exactly if
it was published and not acknowledged.
`ReadInv` describes a book half read: while it is unchanged since page 1, what was read is its
first pages, whatever the page size. For the refinement, `OriginInv` says that what is in
anyone's hand or between the workers is of published jobs; then the initial states map to the
ledger's, and each action to a publish, an acknowledgement, a store or a stutter.

**`CharacterAuthProofs`**: type correctness, `TokensInPlace`, `StoredTokenAccounted`,
`OnlyLoginCreates`, by one invariant `AuthInv`, as they need each other: `LocalsInv` (what a
request has at each phase), `NonceInv` (a nonce is of one flow), `OwnInv` (a new token that a
request is about to save is not rotated, is in no document, and no other request knows it),
`NextInv` (a rotated token's successor is of the same character and flow).
`ConnectedUnlessCrossed` delimits finding 2: what is connected has its corporation and scopes in
every behaviour in which no step clears them under a request that holds the pair (`Crossing`: a
disconnect, a login, a deletion, or the refused refresh of another request), since a request
only comes to hold a pair by reading a complete document (`HeldInv`).

**`EsiCacheProofs`**: type correctness and the three invariants. `CopiesInv` counts the rows of a
list together with the requests that have deleted and not inserted yet. `FreshInv` extends the
claim from what Redis holds to what a request has fetched and is about to store. `ClearInv`:
`KindInv` (who does what), `CrossInv` (a page and a clear in progress at once are remembered),
`PassedInv` (what a clear has behind it is gone), `GoneInv` (without a document nothing starts).

**`ReadThroughProofs`**: type correctness, which says that no failed lookup is ever stored, and
`StoredIsShown`. `PageInv` adds that MongoDB never forgets an id, what a page took from
Redis or MongoDB is no failure, and what it is about to write is known.

**`MigrationsProofs`**: type correctness and `AppliedInOrder` for any number of replicas
(`OrderInv`: what a pod knows is recorded, in order, and what it works on is what comes next);
and for `MaxStarting = 1`, the chart's default, that whoever serves answers from complete
collections. That hypothesis is needed: with two, `migrations_scaled_up` violates the same
property. `AloneInv` says that the pod that migrates is the only one, so that what is recorded
beyond what it knew is its own work; `DataInv` says of each migration what the collections hold
when it is recorded (`Recorded`) and at each of its steps (`PodData`), whatever an earlier
attempt left half done.

**`StartupProofs`**: the two components together, under any releases and rollouts. `StartupInv`
(`OrderInv`, `SyncInv`, `ImageInv`) gives the types, the order and `UnmanagedKept`;
`StartupData` gives `ServesItsRelease` (again for `MaxStarting = 1`), where `DataInv` is that of
the newest release and a pod of an older one reads a part of it. `NoNeedlessDrop`: `CallsInv`
ties each call to its release's declaration, `BesideInv` says that a call nobody was beside acts
on a record that is still what it read. `UpHasItsIndexes`: `RecordInv` (what is on record is
there, or in the hand of a call that has dropped it, or given up by a release in between),
`NewestInv` (what a call of the newest release has done with is recorded, and stale records
deleted). `ReleasesAgree` is assumed: a release declares a name once, or twice alike, as the
shipped files do.

**`CalculationProofs`**: for the build chain type correctness (with the guard), `EnoughIsBuilt`,
`BuiltOrBought`, `ComponentsFirst`, `EachStepListed`, `DemandConserved`, whatever documents are
imported on the way. `DemandConserved` is inductive, but it is about sums over the types: that the
library's `SumFunction` exists, is unique and grows by what one summand grows is shown by a
minimal counterexample among the finite subsets (`MinimalSubset`). `StepsInv` and `RunsInv` relate
the steps to the catalog and the depth; `CutInv` bounds, by a rank of the types, how deep demand
can still go, so that the guard cuts nothing in a catalog that fits; `ListInv` and `RankInv`
describe the call stack of `_visit` (finished, in progress, and in an acyclic catalog decreasing),
`ReachInv` that every step is reached from what is on the stack.

For the planetary pages `FloorsAgree` (`StartingTiersAgree`), from an inductive invariant that TLC
checked first: `PendingInv` says that what still waits at a starting tier is needed there, comes
in multiples of its grain, and makes up, in raw material, exactly for what the list has not got
yet; `ListedInv` that what is listed is needed and not to be expanded, and that a tier that is
done is complete. What a unit takes of a raw material is a recursion over the schematics:
`ContentIsFixed` shows that the recursive function exists and has settled after as many steps
as there are types, by the rank of the types, and `ContentIsExact` that no division by an output
leaves a remainder, so that expanding a type takes nothing away and adds nothing (`RawInExpanded`).
The lemmas beneath, on sums (`SumPlus`, `SumTimes`, `SumOfMultiples`), exact division (`Exact`,
`Cancel`) and functions by recursion on the naturals (`Iteration`), are proved by minimal
counterexamples too: the library's induction theorems take an operator as a parameter.

**`PagesProofs`**: the programs of one request each.
- Prices: `AnsweredPricesAreStored`. `AtWorkInv`: a refresh counts as alone only while no other is
  at work, and then each type of its list is stored or still in flight, and nothing newer is
  stored; `AnsweredInv`: from its answer to the next post none is at work. `AListAtFirst`: ESI has
  a list. `QuietPricesStay`, for refreshes that overlap, fail or are killed in any way: `QuietInv`
  says that what is still to be upserted is no older than what was stored when none was at work.
- Colony: `ColonyPagesAgree`, from `CardInv` (the counts over the pins read so far) and `FlowInv`
  (a resource flows in or out exactly if a pin read so far takes it or gives a quantity of it),
  for any pins in any order.
- Assets: type correctness. `ListsInv` says that a list names an entry once and a page gets each
  list once, so that the entries of a merged list are in a linear order and `assets_by_item_id`
  has a last entry for each item (`LastEntry`). `NeverAKnownContainer` follows from `WalkInv`:
  what a walk has passed lies in what it has passed or is at, so that coming upon a passed
  container closes a circle.
  `StillAssetsInPlace`: `StillInv` says that a list fetched since the last move is as the hangar,
  page by page while it is fetched, then in the cache and in a page that has it; `PlaceInv` that a
  walk stays in the station its item is in and comes to something less deep than all it has passed
  (`Nested` gives the depths), so that it passes every container and stops at the station.

Only model-checked: liveness under fairness, which is out of the provers' reach
(`DispatchedIsAcked`, `CapturedIsStored`, `EveryHourIsScraped`, `StaleGoes`, `EventuallyAgree`,
`EventuallyUp`, `PagesAreAnswered`, `PricesCatchUp`); and `EachChangeCostsOne` and
`EachMoveCostsOne`, whose proof would count over pages read between changes and so take an
induction over the changes. `ImplementsLedger` is the safety of the ledger, and is proved.

## 5. Not modelled

- The backoff and error limit of the ESI client: they sleep; nothing in the code bounds the
  requests in flight, so there is nothing to state.
- The session cookie is one value per browser and the last answer wins (`CharacterAuth` models
  it); no property says which of two overlapping answers ought to win, as the code does not.
- What the pages compute beyond locations and materials: filters, sorting, sums of value and
  volume, job times, the toggle links of the build page, HTML. They are pure functions of the
  lists and results the modules describe, and unit tests reach them.
- Searches by name, and the migrations 0003-0005, which repeat shapes that are modelled; 0009,
  which drops a collection nothing reads.
- Gauges, health, settings, the SDE dump and Helm: no state of their own; what Kubernetes does
  to pods is the environment of the modules.
- Freshness of location names: `cached_at` is written and never read, the code promises none.
- How the broker spreads jobs over fetch replicas: without a prefetch limit one replica may
  hold jobs that a later one could take (`values.yaml:137` scales replicas for parallelism).
  It costs time and loses nothing; `DeliverJob` models the delivery, no property is stated.

## 6. Plan

Done: the scrape with its ledger, tokens, list cache, migrations, index sync, startup with
overlapping syncs and releases, build chain with imports, reference data, asset pages, prices,
planetary pages; the proofs of section 4, which state every invariant and every action property
the runs check.

Next, in this order:

1. Composition of `CharacterAuth` and `EsiCache`: the token a page carries through its lists
   after another request rotated it; connect, disconnect and the corporation's lists.
2. Runs are few: a module that joins shares a run with one of its neighbours or replaces one
   whose question it subsumes.
