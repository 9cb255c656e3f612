---------------------------- MODULE MarketPrices ----------------------------
(***************************************************************************)
(* The market prices (app/services/market_prices.py): a CronJob posts to   *)
(* /market-prices/refresh every hour and again when that fails; a refresh  *)
(* asks ESI for all prices and stores one document per type, all upserts   *)
(* in flight at once (asyncio.gather).  The first upsert that fails is     *)
(* raised, and the others go on after the request has been answered.       *)
(* Nothing keeps two refreshes apart.                                      *)
(*                                                                         *)
(* A version stands for one price list of ESI.                             *)
(***************************************************************************)
EXTENDS Naturals, FiniteSets

CONSTANTS
  Goods,        \* item types
  Refreshes,    \* refreshes that may be in progress at once
  PriceLists,   \* per version: the types ESI has a price of
  MaxFailures   \* bound: failed calls and killed pods

PriceVersions == DOMAIN PriceLists
NoPrice == 0

ASSUME ListsOfGoods == PriceLists \in [1..Cardinality(PriceVersions) -> SUBSET Goods]
ASSUME AListAtFirst == 1 \in PriceVersions
ASSUME FailuresIsNat == MaxFailures \in Nat

VARIABLES
  market,     \* the version of ESI
  prices,     \* market_prices: the version the document of a type is from
  refresh,    \* per refresh: its locals
  failures,   \* failures so far
  answered,   \* history: the version of the last refresh answered with 200
  alone,      \* history: was no other refresh at work since that one began?
  quiet       \* history: the prices when no refresh was last at work

priceVars == <<market, prices, refresh, failures, answered, alone, quiet>>

NoRefresh == [phase |-> "idle", version |-> NoPrice, left |-> {}, alone |-> FALSE]
RefreshPhases == {"idle", "fetch", "upsert", "failed"}

AtWork(r) == refresh[r] # NoRefresh

PriceInit ==
  /\ market = 1
  /\ prices = [t \in Goods |-> NoPrice]
  /\ refresh = [r \in Refreshes |-> NoRefresh]
  /\ failures = 0
  /\ answered = NoPrice
  /\ alone = FALSE
  /\ quiet = prices

\* Refresh r, if it comes to its end, may have been the last at work.
Ends(r, over) ==
  quiet' = IF over /\ \A q \in Refreshes \ {r} : ~AtWork(q) THEN prices ELSE quiet

PriceFailure == failures < MaxFailures /\ failures' = failures + 1

\* POST /market-prices/refresh
Post(r) ==
  /\ refresh[r] = NoRefresh
  /\ LET others == {q \in Refreshes : AtWork(q)}
     IN refresh' = [q \in Refreshes |->
          IF q = r THEN [NoRefresh EXCEPT !.phase = "fetch", !.alone = others = {}]
          ELSE [refresh[q] EXCEPT !.alone = FALSE]]
  /\ alone' = FALSE
  /\ UNCHANGED <<market, prices, failures, answered, quiet>>

\* get_market_prices
\* Mutant of FetchPrices: once there is a list, it is taken again.
FetchPricesCached(r) ==
  /\ refresh[r].phase = "fetch"
  /\ LET version == IF answered = NoPrice THEN market ELSE answered
     IN  refresh' = [refresh EXCEPT ![r].phase = "upsert", ![r].version = version,
                                   ![r].left = PriceLists[version]]
  /\ UNCHANGED <<market, prices, failures, answered, alone, quiet>>

FetchPrices(r) ==
  /\ refresh[r].phase = "fetch"
  /\ refresh' = [refresh EXCEPT ![r].phase = "upsert", ![r].version = market,
                                ![r].left = PriceLists[market]]
  /\ UNCHANGED <<market, prices, failures, answered, alone, quiet>>

FetchPricesFails(r) ==
  /\ refresh[r].phase = "fetch"
  /\ PriceFailure
  /\ refresh' = [refresh EXCEPT ![r] = NoRefresh]
  /\ Ends(r, TRUE)
  /\ UNCHANGED <<market, prices, answered, alone>>

\* Mutant of Upsert: $setOnInsert instead of $set.
UpsertOnInsert(r, t) ==
  /\ t \in refresh[r].left
  /\ prices' = [prices EXCEPT ![t] = IF @ = NoPrice THEN refresh[r].version ELSE @]
  /\ refresh' = [refresh EXCEPT ![r].left = @ \ {t}]
  /\ UNCHANGED <<market, failures, answered, alone, quiet>>

\* _upsert_price
Upsert(r, t) ==
  /\ t \in refresh[r].left
  /\ prices' = [prices EXCEPT ![t] = refresh[r].version]
  /\ refresh' = [refresh EXCEPT ![r].left = @ \ {t}]
  /\ UNCHANGED <<market, failures, answered, alone, quiet>>

\* Mutant of UpsertFails: gather(..., return_exceptions=True).
UpsertFailsUnnoticed(r, t) ==
  /\ t \in refresh[r].left
  /\ PriceFailure
  /\ refresh' = [refresh EXCEPT ![r].left = @ \ {t}]
  /\ UNCHANGED <<market, prices, answered, alone, quiet>>

\* The request is answered with 500; gather does not cancel the other upserts.  The
\* one that failed is lost, or only its answer is and MongoDB stores it later.
UpsertFails(r, t) ==
  /\ t \in refresh[r].left
  /\ PriceFailure
  /\ \E lost \in SUBSET {t} :
       refresh' = [refresh EXCEPT ![r].left = @ \ lost, ![r].phase = "failed"]
  /\ UNCHANGED <<market, prices, answered, alone, quiet>>

\* Every upsert is done: 200 and their number.
Answer(r) ==
  /\ refresh[r].phase = "upsert" /\ refresh[r].left = {}
  /\ answered' = refresh[r].version
  /\ alone' = refresh[r].alone
  /\ refresh' = [refresh EXCEPT ![r] = NoRefresh]
  /\ Ends(r, TRUE)
  /\ UNCHANGED <<market, prices, failures>>

\* The last upsert of a refresh that was answered with 500 is done.
Settle(r) ==
  /\ refresh[r].phase = "failed" /\ refresh[r].left = {}
  /\ refresh' = [refresh EXCEPT ![r] = NoRefresh]
  /\ Ends(r, TRUE)
  /\ UNCHANGED <<market, prices, failures, answered, alone>>

\* The pod is killed: MongoDB may still store what it was sent.
Killed(r) ==
  /\ AtWork(r)
  /\ PriceFailure
  /\ \E sent \in SUBSET refresh[r].left :
       /\ refresh' = [refresh EXCEPT ![r] =
                        IF sent = {} THEN NoRefresh ELSE [@ EXCEPT !.left = sent, !.phase = "failed"]]
       /\ Ends(r, sent = {})
  /\ UNCHANGED <<market, prices, answered, alone>>

\* ESI publishes another list.
MarketMoves ==
  /\ market + 1 \in PriceVersions
  /\ market' = market + 1
  /\ UNCHANGED <<prices, refresh, failures, answered, alone, quiet>>

PriceNext ==
  \/ MarketMoves
  \/ \E r \in Refreshes :
       \/ Post(r) \/ FetchPrices(r) \/ FetchPricesFails(r)
       \/ Answer(r) \/ Settle(r) \/ Killed(r)
       \/ \E t \in Goods : Upsert(r, t) \/ UpsertFails(r, t)

PriceSpec == PriceInit /\ [][PriceNext]_priceVars

\* The CronJob posts again and again, a refresh goes on to its next await, and
\* MongoDB stores what it was sent.
PriceStep(r) ==
  Post(r) \/ FetchPrices(r) \/ Answer(r) \/ Settle(r) \/ \E t \in Goods : Upsert(r, t)
PriceFairness == \A r \in Refreshes : WF_priceVars(PriceStep(r))

-----------------------------------------------------------------------------
(* Properties *)

\* Once a refresh was answered with 200, and neither one before it was still at
\* work when it was posted, the upserts a 500 had left behind included, nor
\* another has been posted since, the prices are the list it fetched: each type
\* of the list has its price from it, and no price is from a later list.
AnsweredPricesAreStored ==
  alone =>
    /\ \A t \in PriceLists[answered] : prices[t] = answered
    /\ \A t \in Goods : prices[t] <= answered

\* Upserts of an older list that land after those of a newer one, in any overlap of
\* retries, late answers and killed pods, take no price further back than it was
\* when no refresh was last at work.
QuietPricesStay == \A t \in Goods : prices[t] >= quiet[t]

\* And what such an overlap left mixed is put right: once ESI stands still, the
\* prices of its list stay those of its list.
PricesCatchUp == <>[](\A t \in PriceLists[market] : prices[t] = market)

=============================================================================
