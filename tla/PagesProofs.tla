----------------------------- MODULE PagesProofs -----------------------------
(***************************************************************************)
(* Proofs about the market prices, the two colony pages and the asset      *)
(* pages: what was answered is stored, both colony pages agree, a page     *)
(* takes no known container for a station, and while nothing is moved it   *)
(* shows every item where it is.                                           *)
(***************************************************************************)
EXTENDS Assets, MarketPrices, Colony, SequenceTheorems, FiniteSetTheorems,
        WellFoundedInduction, TLAPS

-----------------------------------------------------------------------------
(* The market prices: types *)

RefreshRecords ==
  [phase : RefreshPhases, version : {NoPrice} \cup PriceVersions, left : SUBSET Goods,
   alone : BOOLEAN]

PriceTypeOK ==
  /\ market \in PriceVersions
  /\ prices \in [Goods -> {NoPrice} \cup PriceVersions]
  /\ refresh \in [Refreshes -> RefreshRecords]
  /\ answered \in {NoPrice} \cup PriceVersions
  /\ alone \in BOOLEAN
  /\ quiet \in [Goods -> {NoPrice} \cup PriceVersions]

LEMMA VersionsAreNat ==
  /\ PriceVersions \subseteq Nat
  /\ \A v \in PriceVersions : PriceLists[v] \subseteq Goods
<1> DEFINE n == Cardinality(PriceVersions)
<1>1. DOMAIN PriceLists = 1..n
  BY ListsOfGoods
<1>2. PriceVersions = 1..n
  BY <1>1 DEF PriceVersions
<1> HIDE DEF n
<1>3. PriceVersions \subseteq Nat
  BY <1>2
<1>4. PriceLists \in [1..n -> SUBSET Goods]
  BY ListsOfGoods DEF n
<1> QED BY <1>2, <1>3, <1>4

\* A refresh at rest.
LEMMA NoRefreshFields ==
  /\ NoRefresh \in RefreshRecords
  /\ NoRefresh.phase = "idle" /\ NoRefresh.version = NoPrice /\ NoRefresh.left = {}
  /\ NoRefresh.alone = FALSE
BY DEF NoRefresh, RefreshRecords, RefreshPhases

LEMMA PriceNumbers ==
  ASSUME PriceTypeOK
  PROVE  /\ market \in Nat /\ NoPrice <= market
         /\ \A t \in Goods : prices[t] \in Nat /\ quiet[t] \in Nat
         /\ \A r \in Refreshes : refresh[r].version \in Nat
<1>1. PriceVersions \subseteq Nat /\ NoPrice \in Nat
  BY VersionsAreNat DEF NoPrice
<1>2. market \in Nat
  BY <1>1 DEF PriceTypeOK
<1>3. NoPrice <= market
  BY <1>2 DEF NoPrice
<1>4. \A t \in Goods : prices[t] \in Nat /\ quiet[t] \in Nat
  BY <1>1 DEF PriceTypeOK
<1>5. \A r \in Refreshes : refresh[r].version \in Nat
  BY <1>1 DEF PriceTypeOK, RefreshRecords
<1> QED BY <1>2, <1>3, <1>4, <1>5

LEMMA PriceTypeInit == PriceInit => PriceTypeOK
BY NoRefreshFields, AListAtFirst DEF PriceInit, PriceTypeOK

LEMMA PostFields ==
  ASSUME PriceTypeOK, NEW r \in Refreshes, Post(r), NEW q \in Refreshes
  PROVE  /\ refresh'[q] \in RefreshRecords
         /\ q = r => /\ refresh'[q].phase = "fetch" /\ refresh'[q].version = NoPrice
                     /\ refresh'[q].left = {}
                     /\ refresh'[q].alone <=> \A s \in Refreshes : refresh[s] = NoRefresh
         /\ q # r => /\ refresh'[q].phase = refresh[q].phase
                     /\ refresh'[q].version = refresh[q].version
                     /\ refresh'[q].left = refresh[q].left
                     /\ refresh'[q].alone = FALSE
                     /\ refresh[q] = NoRefresh => refresh'[q] = NoRefresh
<1>1. refresh[q] \in RefreshRecords
  BY DEF PriceTypeOK
<1>2. refresh'[q] = IF q = r THEN [NoRefresh EXCEPT !.phase = "fetch",
                             !.alone = {s \in Refreshes : AtWork(s)} = {}]
                    ELSE [refresh[q] EXCEPT !.alone = FALSE]
  BY DEF Post
<1>3. ({s \in Refreshes : AtWork(s)} = {}) <=> \A s \in Refreshes : refresh[s] = NoRefresh
  BY DEF AtWork
<1>4. CASE q = r
  <2> DEFINE b == {s \in Refreshes : AtWork(s)} = {}
  <2>1. b \in BOOLEAN
    OBVIOUS
  <2>2. refresh'[q] = [NoRefresh EXCEPT !.phase = "fetch", !.alone = b]
    BY <1>2, <1>4
  <2>3. b <=> \A s \in Refreshes : refresh[s] = NoRefresh
    BY <1>3
  <2> HIDE DEF b
  <2>4. refresh'[q] \in RefreshRecords /\ refresh'[q].phase = "fetch"
        /\ refresh'[q].version = NoPrice /\ refresh'[q].left = {} /\ refresh'[q].alone = b
    BY <2>1, <2>2 DEF NoRefresh, RefreshRecords, RefreshPhases
  <2> QED BY <1>4, <2>3, <2>4
<1>5. CASE q # r
  <2>1. refresh'[q] = [refresh[q] EXCEPT !.alone = FALSE]
    BY <1>2, <1>5
  <2>2. /\ refresh'[q] \in RefreshRecords
        /\ refresh'[q].phase = refresh[q].phase /\ refresh'[q].version = refresh[q].version
        /\ refresh'[q].left = refresh[q].left /\ refresh'[q].alone = FALSE
    BY <1>1, <2>1 DEF RefreshRecords
  <2>4. refresh[q] = NoRefresh => refresh'[q] = NoRefresh
    <3> SUFFICES ASSUME refresh[q] = NoRefresh PROVE refresh'[q] = NoRefresh
      OBVIOUS
    <3>1. /\ refresh'[q].phase = NoRefresh.phase /\ refresh'[q].version = NoRefresh.version
          /\ refresh'[q].left = NoRefresh.left /\ refresh'[q].alone = NoRefresh.alone
      BY <2>2, NoRefreshFields
    <3>2. NoRefresh \in RefreshRecords
      BY NoRefreshFields
    <3> HIDE DEF NoRefresh
    <3> QED BY <2>2, <3>1, <3>2 DEF RefreshRecords
  <2> QED BY <1>5, <2>2, <2>4
<1> QED BY <1>4, <1>5

\* Every other step changes one refresh at most.
PriceOthers(r) == \A q \in Refreshes : q # r => refresh'[q] = refresh[q]

LEMMA FetchFields ==
  ASSUME PriceTypeOK, NEW r \in Refreshes, FetchPrices(r)
  PROVE  /\ PriceOthers(r) /\ refresh' \in [Refreshes -> RefreshRecords]
         /\ refresh[r].phase = "fetch"
         /\ refresh'[r].phase = "upsert" /\ refresh'[r].version = market
         /\ refresh'[r].left = PriceLists[market] /\ refresh'[r].alone = refresh[r].alone
BY VersionsAreNat DEF PriceTypeOK, FetchPrices, PriceOthers, RefreshRecords, RefreshPhases

LEMMA UpsertFields ==
  ASSUME PriceTypeOK, NEW r \in Refreshes, NEW t \in Goods, Upsert(r, t)
  PROVE  /\ PriceOthers(r) /\ refresh' \in [Refreshes -> RefreshRecords]
         /\ t \in refresh[r].left
         /\ refresh'[r].phase = refresh[r].phase /\ refresh'[r].version = refresh[r].version
         /\ refresh'[r].left = refresh[r].left \ {t} /\ refresh'[r].alone = refresh[r].alone
BY DEF PriceTypeOK, Upsert, PriceOthers, RefreshRecords

LEMMA UpsertFailsFields ==
  ASSUME PriceTypeOK, NEW r \in Refreshes, NEW t \in Goods, UpsertFails(r, t)
  PROVE  /\ PriceOthers(r) /\ refresh' \in [Refreshes -> RefreshRecords]
         /\ t \in refresh[r].left
         /\ refresh'[r].phase = "failed" /\ refresh'[r].version = refresh[r].version
         /\ refresh'[r].left \subseteq refresh[r].left
         /\ refresh'[r].alone = refresh[r].alone
<1>1. PICK lost \in SUBSET {t} :
        refresh' = [refresh EXCEPT ![r] =
                      [refresh[r] EXCEPT !.left = refresh[r].left \ lost, !.phase = "failed"]]
  BY DEF UpsertFails, PriceTypeOK
<1>2. refresh[r] \in RefreshRecords /\ refresh \in [Refreshes -> RefreshRecords]
  BY DEF PriceTypeOK
<1> DEFINE rest == [refresh[r] EXCEPT !.left = refresh[r].left \ lost, !.phase = "failed"]
<1>3. /\ rest \in RefreshRecords /\ rest.phase = "failed" /\ rest.left \subseteq refresh[r].left
      /\ rest.version = refresh[r].version /\ rest.alone = refresh[r].alone
  BY <1>2 DEF RefreshRecords, RefreshPhases
<1>4. refresh' = [refresh EXCEPT ![r] = rest] /\ t \in refresh[r].left
  BY <1>1 DEF UpsertFails
<1> HIDE DEF rest
<1> QED BY <1>2, <1>3, <1>4 DEF PriceOthers

\* A killed refresh is at rest, or what it had sent is still on its way.
LEMMA KilledFields ==
  ASSUME PriceTypeOK, NEW r \in Refreshes, Killed(r)
  PROVE  /\ PriceOthers(r) /\ refresh' \in [Refreshes -> RefreshRecords]
         /\ refresh[r] # NoRefresh
         /\ \/ refresh'[r] = NoRefresh
            \/ /\ refresh'[r].phase = "failed" /\ refresh'[r].version = refresh[r].version
               /\ refresh'[r].left \subseteq refresh[r].left /\ refresh'[r].left # {}
               /\ refresh'[r].alone = refresh[r].alone
<1>1. PICK sent \in SUBSET refresh[r].left :
        refresh' = [refresh EXCEPT ![r] =
                      IF sent = {} THEN NoRefresh
                      ELSE [refresh[r] EXCEPT !.left = sent, !.phase = "failed"]]
  BY DEF Killed
<1>2. refresh[r] \in RefreshRecords
  BY DEF PriceTypeOK
<1>3. CASE sent = {}
  BY <1>1, <1>3, NoRefreshFields DEF Killed, AtWork, PriceTypeOK, PriceOthers
<1>4. CASE sent # {}
  <2> DEFINE rest == [refresh[r] EXCEPT !.left = sent, !.phase = "failed"]
  <2>1. /\ rest \in RefreshRecords /\ rest.phase = "failed" /\ rest.left = sent
        /\ rest.version = refresh[r].version /\ rest.alone = refresh[r].alone
    BY <1>2 DEF RefreshRecords, RefreshPhases
  <2>2. refresh' = [refresh EXCEPT ![r] = rest]
    BY <1>1, <1>4
  <2> HIDE DEF rest
  <2>3. PriceOthers(r) /\ refresh' \in [Refreshes -> RefreshRecords] /\ refresh'[r] = rest
    BY <2>1, <2>2 DEF PriceTypeOK, PriceOthers
  <2> QED BY <1>4, <2>1, <2>3 DEF Killed, AtWork
<1> QED BY <1>3, <1>4

LEMMA EndFields ==
  ASSUME PriceTypeOK, NEW r \in Refreshes, Answer(r) \/ Settle(r) \/ FetchPricesFails(r)
  PROVE  /\ PriceOthers(r) /\ refresh' \in [Refreshes -> RefreshRecords]
         /\ refresh'[r] = NoRefresh
BY NoRefreshFields DEF PriceTypeOK, Answer, Settle, FetchPricesFails, PriceOthers

\* The state stays well typed.
LEMMA PriceTypeStep == PriceTypeOK /\ [PriceNext]_priceVars => PriceTypeOK'
<1> SUFFICES ASSUME PriceTypeOK, [PriceNext]_priceVars
             PROVE  PriceTypeOK'
  OBVIOUS
<1>1. ASSUME MarketMoves PROVE PriceTypeOK'
  BY <1>1 DEF PriceTypeOK, MarketMoves
<1>2. ASSUME NEW r \in Refreshes, Post(r) PROVE PriceTypeOK'
  <2>1. \A q \in Refreshes : refresh'[q] \in RefreshRecords
    BY <1>2, PostFields
  <2>2. refresh' = [q \in Refreshes |-> refresh'[q]]
    BY <1>2 DEF Post
  <2>3. refresh' \in [Refreshes -> RefreshRecords]
    BY <2>1, <2>2
  <2> QED BY <1>2, <2>3 DEF PriceTypeOK, Post
<1>3. ASSUME NEW r \in Refreshes, FetchPrices(r) PROVE PriceTypeOK'
  BY <1>3, FetchFields DEF PriceTypeOK, FetchPrices
<1>4. ASSUME NEW r \in Refreshes, NEW t \in Goods, Upsert(r, t) PROVE PriceTypeOK'
  <2>1. refresh[r].version \in {NoPrice} \cup PriceVersions
    BY DEF PriceTypeOK, RefreshRecords
  <2> QED BY <1>4, <2>1, UpsertFields DEF PriceTypeOK, Upsert
<1>5. ASSUME NEW r \in Refreshes, NEW t \in Goods, UpsertFails(r, t) PROVE PriceTypeOK'
  BY <1>5, UpsertFailsFields DEF PriceTypeOK, UpsertFails
<1>6. ASSUME NEW r \in Refreshes, Answer(r) PROVE PriceTypeOK'
  <2>1. refresh[r].version \in {NoPrice} \cup PriceVersions /\ refresh[r].alone \in BOOLEAN
    BY DEF PriceTypeOK, RefreshRecords
  <2> QED BY <1>6, <2>1, EndFields DEF PriceTypeOK, Answer, Ends
<1>7. ASSUME NEW r \in Refreshes, Settle(r) \/ Killed(r) \/ FetchPricesFails(r)
      PROVE  PriceTypeOK'
  <2>1. refresh' \in [Refreshes -> RefreshRecords]
    BY <1>7, EndFields, KilledFields
  <2>2. quiet' \in {prices, quiet}
    BY <1>7 DEF Settle, Killed, FetchPricesFails, Ends
  <2>3. UNCHANGED <<market, prices, answered, alone>>
    BY <1>7 DEF Settle, Killed, FetchPricesFails
  <2> QED BY <2>1, <2>2, <2>3 DEF PriceTypeOK
<1>8. CASE UNCHANGED priceVars
  BY <1>8 DEF PriceTypeOK, priceVars
<1> QED BY <1>1, <1>2, <1>3, <1>4, <1>5, <1>6, <1>7, <1>8 DEF PriceNext

-----------------------------------------------------------------------------
(* The market prices: a refresh that is alone *)

\* What is at work when no other refresh is, and what it has stored so far.
AtWorkInv ==
  /\ \A t \in Goods : prices[t] <= market
  /\ \A r \in Refreshes :
       /\ refresh[r].version <= market
       /\ refresh[r].phase \in {"idle", "fetch"} => refresh[r].left = {}
       /\ refresh[r].phase = "idle" => refresh[r] = NoRefresh
       /\ refresh[r].alone => \A q \in Refreshes : q # r => refresh[q] = NoRefresh
       /\ refresh[r].alone /\ refresh[r].phase = "upsert" =>
            /\ refresh[r].version \in PriceVersions
            /\ \A t \in PriceLists[refresh[r].version] :
                 t \in refresh[r].left \/ prices[t] = refresh[r].version
            /\ \A t \in Goods : prices[t] <= refresh[r].version

\* After the answer to one that was alone nothing is at work until the next.
AnsweredInv == alone => \A r \in Refreshes : refresh[r] = NoRefresh

PriceInv == PriceTypeOK /\ AtWorkInv /\ AnsweredInv /\ AnsweredPricesAreStored

LEMMA PriceInvInit == PriceInit => PriceInv
<1> SUFFICES ASSUME PriceInit PROVE PriceInv
  OBVIOUS
<1>1. PriceTypeOK
  BY PriceTypeInit
<1>2. AtWorkInv
  BY NoRefreshFields, VersionsAreNat, AListAtFirst DEF PriceInit, AtWorkInv, NoPrice
<1>3. AnsweredInv /\ AnsweredPricesAreStored
  BY DEF PriceInit, AnsweredInv, AnsweredPricesAreStored
<1> QED BY <1>1, <1>2, <1>3 DEF PriceInv

LEMMA AtWorkStep == PriceInv /\ [PriceNext]_priceVars => AtWorkInv'
<1> SUFFICES ASSUME PriceInv, [PriceNext]_priceVars
             PROVE  AtWorkInv'
  OBVIOUS
<1> USE VersionsAreNat
<1>0. PriceTypeOK /\ PriceTypeOK' /\ AtWorkInv
  BY PriceTypeStep DEF PriceInv
<1>1. ASSUME MarketMoves PROVE AtWorkInv'
  <2>1. market' = market + 1 /\ UNCHANGED <<prices, refresh>> /\ market \in Nat
    BY <1>0, <1>1, PriceNumbers DEF MarketMoves
  <2>2. \A t \in Goods : prices[t] \in Nat
    BY <1>0, PriceNumbers
  <2>3. \A r \in Refreshes : refresh[r].version \in Nat
    BY <1>0, PriceNumbers
  <2>4. \A t \in Goods : prices'[t] <= market'
    BY <1>0, <2>1, <2>2 DEF AtWorkInv
  <2>5. \A r \in Refreshes : refresh'[r].version <= market'
    BY <1>0, <2>1, <2>3 DEF AtWorkInv
  <2> QED BY <1>0, <2>1, <2>4, <2>5 DEF AtWorkInv
<1>2. ASSUME NEW r \in Refreshes, Post(r) PROVE AtWorkInv'
  <2>1. UNCHANGED <<market, prices>>
    BY <1>2 DEF Post
  <2>2. refresh[r] = NoRefresh
    BY <1>2 DEF Post
  <2>3. ASSUME NEW q \in Refreshes
        PROVE  /\ refresh'[q].version <= market'
               /\ refresh'[q].phase \in {"idle", "fetch"} => refresh'[q].left = {}
               /\ refresh'[q].phase = "idle" => refresh'[q] = NoRefresh
               /\ refresh'[q].alone => \A s \in Refreshes : s # q => refresh'[s] = NoRefresh
               /\ ~(refresh'[q].alone /\ refresh'[q].phase = "upsert")
    <3>1. CASE q = r
      <4>1. refresh'[q].alone => \A s \in Refreshes : s # q => refresh'[s] = NoRefresh
        BY <1>0, <1>2, <3>1, PostFields
      <4>2. market \in Nat /\ NoPrice <= market
        BY <1>0, PriceNumbers
      <4> QED BY <1>0, <1>2, <2>1, <3>1, <4>1, <4>2, PostFields
    <3>2. CASE q # r
      BY <1>0, <1>2, <2>1, <3>2, PostFields DEF AtWorkInv
    <3> QED BY <3>1, <3>2
  <2>4. \A t \in Goods : prices'[t] <= market'
    BY <1>0, <2>1 DEF AtWorkInv
  <2> QED BY <2>3, <2>4 DEF AtWorkInv
<1>3. ASSUME NEW r \in Refreshes, FetchPrices(r) PROVE AtWorkInv'
  <2>1. UNCHANGED <<market, prices>>
    BY <1>3 DEF FetchPrices
  <2>2. market \in PriceVersions /\ market \in Nat
    BY <1>0, PriceNumbers DEF PriceTypeOK
  <2>3. \A s \in Refreshes : refresh[s].alone /\ s # r => refresh[r] = NoRefresh
    BY <1>0 DEF AtWorkInv
  <2>4. refresh[r] # NoRefresh
    BY <1>0, <1>3, FetchFields, NoRefreshFields
  <2>5. ASSUME NEW q \in Refreshes, q # r
        PROVE  refresh'[q] = refresh[q] /\ ~refresh[q].alone
    BY <1>0, <1>3, <2>3, <2>4, <2>5, FetchFields DEF PriceOthers
  <2>6. refresh[r].alone => \A s \in Refreshes : s # r => refresh'[s] = NoRefresh
    BY <1>0, <2>5 DEF AtWorkInv
  <2>7. \A t \in Goods : prices'[t] <= refresh'[r].version
    BY <1>0, <1>3, <2>1, FetchFields DEF AtWorkInv
  <2> QED BY <1>0, <1>3, <2>1, <2>2, <2>5, <2>6, <2>7, FetchFields DEF AtWorkInv
<1>4. ASSUME NEW r \in Refreshes, NEW t \in Goods, Upsert(r, t) PROVE AtWorkInv'
  <2>1. market' = market /\ prices' = [prices EXCEPT ![t] = refresh[r].version]
    BY <1>4 DEF Upsert
  <2>2. refresh[r] # NoRefresh
    BY <1>0, <1>4, UpsertFields, NoRefreshFields
  <2>3. ASSUME NEW q \in Refreshes, q # r
        PROVE  refresh'[q] = refresh[q] /\ ~refresh[q].alone
    BY <1>0, <1>4, <2>2, <2>3, UpsertFields DEF PriceOthers, AtWorkInv
  <2>4. refresh[r].alone => \A s \in Refreshes : s # r => refresh'[s] = NoRefresh
    BY <1>0, <2>3 DEF AtWorkInv
  <2>5. \A u \in Goods : prices'[u] = IF u = t THEN refresh[r].version ELSE prices[u]
    BY <1>0, <2>1 DEF PriceTypeOK
  <2>6. \A u \in Goods : prices'[u] <= market'
    BY <1>0, <2>1, <2>5 DEF AtWorkInv
  <2>7. refresh[r].alone /\ refresh[r].phase = "upsert" =>
          /\ refresh[r].version \in PriceVersions
          /\ \A u \in PriceLists[refresh[r].version] :
               u \in refresh[r].left \ {t} \/ prices'[u] = refresh[r].version
          /\ \A u \in Goods : prices'[u] <= refresh[r].version
    <3> SUFFICES ASSUME refresh[r].alone, refresh[r].phase = "upsert"
                 PROVE  /\ refresh[r].version \in PriceVersions
                        /\ \A u \in PriceLists[refresh[r].version] :
                             u \in refresh[r].left \ {t} \/ prices'[u] = refresh[r].version
                        /\ \A u \in Goods : prices'[u] <= refresh[r].version
      OBVIOUS
    <3>1. /\ refresh[r].version \in PriceVersions
          /\ \A u \in PriceLists[refresh[r].version] :
               u \in refresh[r].left \/ prices[u] = refresh[r].version
          /\ \A u \in Goods : prices[u] <= refresh[r].version
      BY <1>0 DEF AtWorkInv
    <3>2. PriceLists[refresh[r].version] \subseteq Goods
      BY <3>1, VersionsAreNat
    <3>3. refresh[r].version \in Nat
      BY <1>0, PriceNumbers
    <3> QED BY <2>5, <3>1, <3>2, <3>3
  <2> QED BY <1>0, <1>4, <2>1, <2>2, <2>3, <2>4, <2>6, <2>7, UpsertFields DEF AtWorkInv
<1>5. ASSUME NEW r \in Refreshes, NEW t \in Goods, UpsertFails(r, t) PROVE AtWorkInv'
  <2>1. UNCHANGED <<market, prices>>
    BY <1>5 DEF UpsertFails
  <2>2. refresh[r] # NoRefresh
    BY <1>0, <1>5, UpsertFailsFields, NoRefreshFields
  <2>3. ASSUME NEW q \in Refreshes, q # r
        PROVE  refresh'[q] = refresh[q] /\ ~refresh[q].alone
    BY <1>0, <1>5, <2>2, <2>3, UpsertFailsFields DEF PriceOthers, AtWorkInv
  <2>4. refresh[r].alone => \A s \in Refreshes : s # r => refresh'[s] = NoRefresh
    BY <1>0, <2>3 DEF AtWorkInv
  <2> QED BY <1>0, <1>5, <2>1, <2>2, <2>3, <2>4, UpsertFailsFields DEF AtWorkInv
<1>6. ASSUME NEW r \in Refreshes,
             Answer(r) \/ Settle(r) \/ FetchPricesFails(r)
      PROVE  AtWorkInv'
  <2>1. UNCHANGED <<market, prices>>
    BY <1>6 DEF Answer, Settle, FetchPricesFails
  <2>2. market \in Nat /\ NoPrice <= market
    BY <1>0, PriceNumbers
  <2>3. refresh'[r] = NoRefresh /\ \A q \in Refreshes : q # r => refresh'[q] = refresh[q]
    BY <1>0, <1>6, EndFields DEF PriceOthers
  <2> QED BY <1>0, <2>1, <2>2, <2>3, NoRefreshFields DEF AtWorkInv
<1>7. ASSUME NEW r \in Refreshes, Killed(r) PROVE AtWorkInv'
  <2>1. UNCHANGED <<market, prices>>
    BY <1>7 DEF Killed
  <2>2. market \in Nat /\ NoPrice <= market
    BY <1>0, PriceNumbers
  <2>3. \A q \in Refreshes : q # r => refresh'[q] = refresh[q] /\ ~refresh[q].alone
    BY <1>0, <1>7, KilledFields DEF PriceOthers, AtWorkInv
  <2>4. refresh[r].alone => \A q \in Refreshes : q # r => refresh'[q] = NoRefresh
    BY <1>0, <2>3 DEF AtWorkInv
  <2> QED BY <1>0, <1>7, <2>1, <2>2, <2>3, <2>4, KilledFields, NoRefreshFields DEF AtWorkInv
<1>8. CASE UNCHANGED priceVars
  BY <1>0, <1>8 DEF AtWorkInv, priceVars
<1> QED BY <1>1, <1>2, <1>3, <1>4, <1>5, <1>6, <1>7, <1>8 DEF PriceNext

LEMMA AnsweredStep ==
  PriceInv /\ [PriceNext]_priceVars => AnsweredInv' /\ AnsweredPricesAreStored'
<1> SUFFICES ASSUME PriceInv, [PriceNext]_priceVars
             PROVE  AnsweredInv' /\ AnsweredPricesAreStored'
  OBVIOUS
<1>0. PriceTypeOK /\ AtWorkInv /\ AnsweredInv /\ AnsweredPricesAreStored
  BY DEF PriceInv
<1>1. CASE UNCHANGED <<prices, refresh, answered, alone>>
  BY <1>0, <1>1 DEF AnsweredInv, AnsweredPricesAreStored
<1>2. ASSUME NEW r \in Refreshes, Post(r) PROVE AnsweredInv' /\ AnsweredPricesAreStored'
  BY <1>2 DEF Post, AnsweredInv, AnsweredPricesAreStored
<1>3. ASSUME NEW r \in Refreshes, refresh[r] # NoRefresh, alone' = alone
      PROVE  AnsweredInv' /\ AnsweredPricesAreStored'
  BY <1>0, <1>3 DEF AnsweredInv, AnsweredPricesAreStored
<1>4. ASSUME NEW r \in Refreshes, Answer(r) PROVE AnsweredInv' /\ AnsweredPricesAreStored'
  <2>1. /\ refresh[r].phase = "upsert" /\ refresh[r].left = {}
        /\ answered' = refresh[r].version /\ alone' = refresh[r].alone /\ prices' = prices
    BY <1>4 DEF Answer
  <2>2. refresh'[r] = NoRefresh /\ \A q \in Refreshes : q # r => refresh'[q] = refresh[q]
    BY <1>0, <1>4, EndFields DEF PriceOthers
  <2>3. AnsweredInv'
    BY <1>0, <2>1, <2>2 DEF AnsweredInv, AtWorkInv
  <2>4. AnsweredPricesAreStored'
    BY <1>0, <2>1 DEF AnsweredPricesAreStored, AtWorkInv
  <2> QED BY <2>3, <2>4
<1>5. ASSUME NEW r \in Refreshes, FetchPrices(r) PROVE AnsweredInv' /\ AnsweredPricesAreStored'
  BY <1>3, <1>5, NoRefreshFields DEF FetchPrices
<1>6. ASSUME NEW r \in Refreshes, NEW t \in Goods, Upsert(r, t) \/ UpsertFails(r, t)
      PROVE  AnsweredInv' /\ AnsweredPricesAreStored'
  BY <1>3, <1>6, NoRefreshFields DEF Upsert, UpsertFails
<1>7. ASSUME NEW r \in Refreshes, Settle(r) \/ Killed(r) \/ FetchPricesFails(r)
      PROVE  AnsweredInv' /\ AnsweredPricesAreStored'
  BY <1>3, <1>7, NoRefreshFields DEF Settle, Killed, FetchPricesFails, AtWork
<1>8. CASE MarketMoves
  BY <1>1, <1>8 DEF MarketMoves
<1>9. CASE UNCHANGED priceVars
  BY <1>1, <1>9 DEF priceVars
<1> QED BY <1>2, <1>4, <1>5, <1>6, <1>7, <1>8, <1>9 DEF PriceNext

\* Once a refresh that overlapped no other was answered with 200, and none has been
\* posted since, the prices are those of its list, although gather cancels no
\* upsert (refresh_market_prices): what a 500 left behind counts as overlapping.
THEOREM AnsweredStored == PriceSpec => []AnsweredPricesAreStored
<1>1. PriceInv /\ [PriceNext]_priceVars => PriceInv'
  BY PriceTypeStep, AtWorkStep, AnsweredStep DEF PriceInv
<1>2. PriceInv => AnsweredPricesAreStored
  BY DEF PriceInv
<1> QED BY PriceInvInit, <1>1, <1>2, PTL DEF PriceSpec

-----------------------------------------------------------------------------
(* The market prices: overlapping refreshes *)

\* What is still to be stored is no older than the prices were at the last rest.
QuietInv ==
  /\ \A t \in Goods : quiet[t] <= prices[t]
  /\ \A r \in Refreshes : refresh[r].phase \in {"upsert", "failed"} =>
       \A t \in Goods : quiet[t] <= refresh[r].version

LEMMA QuietStep == PriceInv /\ QuietInv /\ [PriceNext]_priceVars => QuietInv'
<1> SUFFICES ASSUME PriceInv, QuietInv, [PriceNext]_priceVars PROVE QuietInv'
  OBVIOUS
<1>0. PriceTypeOK /\ AtWorkInv
  BY DEF PriceInv
<1>1. /\ \A t \in Goods : prices[t] \in Nat /\ quiet[t] \in Nat
      /\ market \in Nat /\ \A r \in Refreshes : refresh[r].version \in Nat
  BY <1>0, PriceNumbers
<1>2. CASE UNCHANGED <<prices, refresh, quiet>>
  BY <1>2 DEF QuietInv
<1>3. ASSUME NEW r \in Refreshes, Post(r) PROVE QuietInv'
  BY <1>0, <1>3, PostFields DEF QuietInv, Post
<1>4. ASSUME NEW r \in Refreshes, FetchPrices(r) PROVE QuietInv'
  <2>1. UNCHANGED <<prices, quiet>>
    BY <1>4 DEF FetchPrices
  <2>2. \A t \in Goods : quiet[t] <= market
    BY <1>0, <1>1 DEF QuietInv, AtWorkInv
  <2> QED BY <1>0, <1>4, <2>1, <2>2, FetchFields DEF QuietInv, PriceOthers
<1>5. ASSUME NEW r \in Refreshes, NEW t \in Goods, Upsert(r, t) PROVE QuietInv'
  <2>1. quiet' = quiet /\ \A u \in Goods : prices'[u] \in {prices[u], refresh[r].version}
    BY <1>0, <1>5 DEF Upsert, PriceTypeOK
  <2>2. refresh[r].phase \in {"upsert", "failed"}
    BY <1>0, <1>5 DEF Upsert, AtWorkInv, PriceTypeOK, RefreshRecords, RefreshPhases
  <2> QED BY <1>0, <1>5, <2>1, <2>2, UpsertFields DEF QuietInv, PriceOthers
<1>6. ASSUME NEW r \in Refreshes, NEW t \in Goods, UpsertFails(r, t) PROVE QuietInv'
  <2>1. UNCHANGED <<prices, quiet>>
    BY <1>6 DEF UpsertFails
  <2>2. refresh[r].phase \in {"upsert", "failed"}
    BY <1>0, <1>6 DEF UpsertFails, AtWorkInv, PriceTypeOK, RefreshRecords, RefreshPhases
  <2> QED BY <1>0, <1>6, <2>1, <2>2, UpsertFailsFields DEF QuietInv, PriceOthers
<1>7. ASSUME NEW r \in Refreshes, Answer(r) \/ Settle(r) \/ FetchPricesFails(r) \/ Killed(r)
      PROVE  QuietInv'
  <2>1. prices' = prices
    BY <1>7 DEF Answer, Settle, FetchPricesFails, Killed
  <2>2. /\ \A q \in Refreshes : q # r => refresh'[q] = refresh[q]
        /\ \/ refresh'[r] = NoRefresh
           \/ /\ refresh'[r].version = refresh[r].version
              /\ refresh[r].phase \in {"upsert", "failed"}
    <3>1. CASE Killed(r)
      BY <1>0, <3>1, KilledFields
         DEF PriceOthers, AtWorkInv, PriceTypeOK, RefreshRecords, RefreshPhases
    <3> QED BY <1>0, <1>7, <3>1, EndFields DEF PriceOthers
  <2>3. \/ quiet' = quiet
        \/ quiet' = prices /\ \A q \in Refreshes : refresh'[q] = NoRefresh
    <3>1. CASE Killed(r)
      <4>1. PICK sent \in SUBSET refresh[r].left :
              /\ refresh' = [refresh EXCEPT ![r] =
                               IF sent = {} THEN NoRefresh
                               ELSE [refresh[r] EXCEPT !.left = sent, !.phase = "failed"]]
              /\ Ends(r, sent = {})
        BY <3>1 DEF Killed
      <4>2. sent = {} => refresh'[r] = NoRefresh
        BY <1>0, <4>1 DEF PriceTypeOK
      <4> QED BY <2>2, <4>1, <4>2 DEF Ends, AtWork
    <3>2. CASE Answer(r) \/ Settle(r) \/ FetchPricesFails(r)
      <4>1. Ends(r, TRUE)
        BY <3>2 DEF Answer, Settle, FetchPricesFails
      <4> QED BY <1>0, <2>2, <3>2, <4>1, EndFields DEF Ends, AtWork
    <3> QED BY <1>7, <3>1, <3>2
  <2> QED BY <1>1, <2>1, <2>2, <2>3, NoRefreshFields DEF QuietInv
<1>8. CASE MarketMoves
  BY <1>2, <1>8 DEF MarketMoves
<1>9. CASE UNCHANGED priceVars
  BY <1>2, <1>9 DEF priceVars
<1> QED BY <1>3, <1>4, <1>5, <1>6, <1>7, <1>8, <1>9 DEF PriceNext

\* Whatever refreshes overlap, are retried or killed, and however late their upserts
\* land (refresh_market_prices), no price goes further back than it was when no
\* refresh was last at work.
THEOREM QuietPricesStayPut == PriceSpec => []QuietPricesStay
<1>1. PriceInit => QuietInv
  BY NoRefreshFields DEF PriceInit, QuietInv, NoPrice
<1>2. PriceInv /\ [PriceNext]_priceVars => PriceInv'
  BY PriceTypeStep, AtWorkStep, AnsweredStep DEF PriceInv
<1>3. PriceInv /\ QuietInv => QuietPricesStay
  BY PriceNumbers DEF PriceInv, QuietInv, QuietPricesStay
<1> QED BY PriceInvInit, <1>1, <1>2, QuietStep, <1>3, PTL DEF PriceSpec

-----------------------------------------------------------------------------
(* The colonies *)

ColonyTypeOK ==
  /\ \E n \in 0..MaxPins : pins \in [1..n -> Pins]
  /\ read \in Nat /\ read <= Len(pins)
  /\ produced \in Seq(Resources)
  /\ shownPins \in [extractor : Nat, factory : Nat, storage : Nat]
  /\ flow \in [Resources -> [in : Nat, out : Nat]]

LEMMA PinCases ==
  ASSUME NEW p \in Pins
  PROVE  /\ p.kind \in {"extractor", "factory", "storage"}
         /\ p.kind = "extractor" =>
              p.product \in Resources \cup {NoResource} /\ p.quantity \in Nat
         /\ p.kind = "factory" =>
              /\ p.schema \in DOMAIN Schemas \cup {UnknownSchema}
              /\ p = Factory(p.schema)
BY PinsAreFew DEF Pins, Extractor, Factory, Storage

LEMMA SchemaType ==
  ASSUME NEW s \in DOMAIN Schemas
  PROVE  /\ Schemas[s].inputs \in [Resources -> Nat]
         /\ Schemas[s].output \in Resources
         /\ Schemas[s].quantity \in Nat \ {0}
BY SchemasOfResources

\* The pin in hand is one of the colony's.
LEMMA PinInHand ==
  ASSUME ColonyTypeOK, ReadPin
  PROVE  /\ Len(pins) \in Nat /\ DOMAIN pins = 1..Len(pins)
         /\ read + 1 \in DOMAIN pins /\ Pin \in Pins /\ Pin = pins[read + 1]
         /\ read' = read + 1 /\ read' <= Len(pins) /\ pins' = pins
<1>1. PICK n \in 0..MaxPins : pins \in [1..n -> Pins]
  BY DEF ColonyTypeOK
<1>2. n \in Nat
  BY PinsAreFew
<1>3. Len(pins) = n /\ DOMAIN pins = 1..n
  BY <1>1, <1>2, LenProperties, SeqDef
<1>4. read \in Nat /\ read < n /\ read' = read + 1 /\ pins' = pins
  BY <1>3 DEF ColonyTypeOK, ReadPin
<1>5. read + 1 \in 1..n
  BY <1>2, <1>4
<1> QED BY <1>1, <1>2, <1>3, <1>4, <1>5 DEF Pin

\* What the overview adds to its products.
LEMMA ProduceAdds ==
  ASSUME produced \in Seq(Resources), NEW r \in Resources, Produce(r)
  PROVE  /\ produced' \in Seq(Resources)
         /\ ProducedHere' = ProducedHere \cup {r}
<1>1. CASE r \in ProducedHere
  BY <1>1 DEF Produce, ProducedHere
<1>2. CASE r \notin ProducedHere
  <2>1. produced' = Append(produced, r)
    BY <1>2 DEF Produce, ProducedHere
  <2>2. produced' \in Seq(Resources) /\ Len(produced') = Len(produced) + 1
        /\ Len(produced) \in Nat
        /\ \A i \in 1..Len(produced) : produced'[i] = produced[i]
        /\ produced'[Len(produced) + 1] = r
    BY <2>1, AppendProperties, LenProperties
  <2>3. PICK k : k = Len(produced) + 1
    OBVIOUS
  <2>4. produced'[k] = r
    BY <2>1, <2>3, AppendProperties
  <2>5. DOMAIN produced = 1..Len(produced) /\ DOMAIN produced' = 1..(Len(produced) + 1)
    BY <2>2, LenProperties
  <2>6. ASSUME NEW x \in ProducedHere' PROVE x \in ProducedHere \cup {r}
    <3>1. PICK i \in DOMAIN produced' : x = produced'[i]
      BY <2>6 DEF ProducedHere
    <3>2. CASE i \in DOMAIN produced
      <4>1. x = produced[i]
        BY <2>2, <2>5, <3>1, <3>2
      <4> QED BY <3>2, <4>1 DEF ProducedHere
    <3>3. CASE i = Len(produced) + 1
      <4>1. i = k
        BY <2>3, <3>3
      <4> QED BY <2>4, <3>1, <4>1
    <3> QED BY <2>2, <2>5, <3>1, <3>2, <3>3
  <2>7. ASSUME NEW x \in ProducedHere PROVE x \in ProducedHere'
    <3>1. PICK i \in DOMAIN produced : x = produced[i]
      BY <2>7 DEF ProducedHere
    <3>2. i \in DOMAIN produced' /\ x = produced'[i]
      BY <2>2, <2>5, <3>1
    <3> QED BY <3>2 DEF ProducedHere
  <2>8. r \in ProducedHere'
    <3>1. k \in DOMAIN produced'
      BY <2>2, <2>5, <2>3
    <3> QED BY <2>4, <3>1 DEF ProducedHere
  <2> QED BY <2>2, <2>6, <2>7, <2>8
<1> QED BY <1>1, <1>2

\* The three ways to read a pin: an extractor without a product, one with, a factory
\* whose schematic is known, and the rest.
LEMMA ReadCases ==
  ASSUME ColonyTypeOK, ReadPin
  PROVE  /\ ColonyTypeOK'
         /\ \/ /\ Pin.kind = "extractor" /\ Pin.product = NoResource
               /\ UNCHANGED <<produced, flow>> /\ Card("extractor")
            \/ /\ Pin.kind = "extractor" /\ Pin.product \in Resources
               /\ ProducedHere' = ProducedHere \cup {Pin.product} /\ Card("extractor")
               /\ \A r \in Resources :
                    /\ flow'[r].in = flow[r].in
                    /\ flow'[r].out = flow[r].out + (IF r = Pin.product THEN Pin.quantity ELSE 0)
            \/ /\ Pin.kind = "factory" /\ Pin.schema \in DOMAIN Schemas
               /\ ProducedHere' = ProducedHere \cup {Schemas[Pin.schema].output}
               /\ Card("factory")
               /\ \A r \in Resources :
                    /\ flow'[r].in = flow[r].in + Schemas[Pin.schema].inputs[r]
                    /\ flow'[r].out = flow[r].out + (IF r = Schemas[Pin.schema].output
                                                     THEN Schemas[Pin.schema].quantity ELSE 0)
            \/ /\ Pin.kind = "storage" \/ Pin = Factory(UnknownSchema)
               /\ UNCHANGED <<produced, flow>> /\ Card("storage")
<1>0. /\ Pin \in Pins /\ read' = read + 1 /\ read \in Nat /\ read' <= Len(pins) /\ pins' = pins
  BY PinInHand DEF ColonyTypeOK
<1>1. /\ \E n \in 0..MaxPins : pins' \in [1..n -> Pins]
      /\ read' \in Nat /\ read' <= Len(pins')
  BY <1>0 DEF ColonyTypeOK
<1>2. produced \in Seq(Resources) /\ flow \in [Resources -> [in : Nat, out : Nat]]
  BY DEF ColonyTypeOK
<1>3. \A r \in Resources : flow[r].in \in Nat /\ flow[r].out \in Nat
  BY <1>2
<1>4. ASSUME NEW k \in {"extractor", "factory", "storage"}, Card(k)
      PROVE  shownPins' \in [extractor : Nat, factory : Nat, storage : Nat]
  BY <1>4 DEF Card, ColonyTypeOK
<1>5. CASE ReadExtractor
  <2>1. Pin.kind = "extractor" /\ Card("extractor")
    BY <1>5 DEF ReadExtractor
  <2>2. Pin.product \in Resources \cup {NoResource} /\ Pin.quantity \in Nat
    BY <1>0, <2>1, PinCases
  <2>3. CASE Pin.product = NoResource
    <3>1. UNCHANGED <<produced, flow>>
      BY <1>5, <2>3 DEF ReadExtractor
    <3> QED BY <1>1, <1>2, <1>4, <2>1, <2>3, <3>1 DEF ColonyTypeOK
  <2>4. CASE Pin.product # NoResource
    <3>1. Produce(Pin.product) /\ flow' = [flow EXCEPT ![Pin.product].out = @ + Pin.quantity]
      BY <1>5, <2>4 DEF ReadExtractor
    <3>2. Pin.product \in Resources
      BY <2>2, <2>4
    <3>3. produced' \in Seq(Resources) /\ ProducedHere' = ProducedHere \cup {Pin.product}
      BY <1>2, <3>1, <3>2, ProduceAdds
    <3>4. PICK p, q : p = Pin.product /\ q = Pin.quantity
      OBVIOUS
    <3>5. flow' = [flow EXCEPT ![p].out = flow[p].out + q] /\ p \in Resources /\ q \in Nat
      BY <2>2, <3>1, <3>2, <3>4
    <3>6. flow' \in [Resources -> [in : Nat, out : Nat]]
      BY <1>2, <1>3, <3>5
    <3>7. \A r \in Resources :
            /\ flow'[r].in = flow[r].in
            /\ flow'[r].out = flow[r].out + (IF r = p THEN q ELSE 0)
      BY <1>2, <1>3, <3>5
    <3> QED BY <1>1, <1>4, <2>1, <3>2, <3>3, <3>4, <3>6, <3>7 DEF ColonyTypeOK
  <2> QED BY <2>3, <2>4
<1>6. CASE ReadFactory
  <2>1. PICK s \in DOMAIN Schemas : s = Pin.schema
    BY <1>6 DEF ReadFactory
  <2>2. /\ Pin.kind = "factory" /\ Card("factory") /\ Produce(Schemas[s].output)
        /\ flow' = [r \in Resources |->
             [in |-> flow[r].in + Schemas[s].inputs[r],
              out |-> flow[r].out + IF r = Schemas[s].output THEN Schemas[s].quantity ELSE 0]]
    BY <1>6, <2>1 DEF ReadFactory
  <2>3. /\ Schemas[s].inputs \in [Resources -> Nat] /\ Schemas[s].output \in Resources
        /\ Schemas[s].quantity \in Nat
    BY SchemaType
  <2>4. /\ produced' \in Seq(Resources)
        /\ ProducedHere' = ProducedHere \cup {Schemas[s].output}
    BY <1>2, <2>2, <2>3, ProduceAdds
  <2>5. flow' \in [Resources -> [in : Nat, out : Nat]]
    BY <1>3, <2>2, <2>3
  <2>6. \A r \in Resources :
          /\ flow'[r].in = flow[r].in + Schemas[s].inputs[r]
          /\ flow'[r].out = flow[r].out + (IF r = Schemas[s].output
                                           THEN Schemas[s].quantity ELSE 0)
    BY <2>2
  <2> QED BY <1>1, <1>4, <2>1, <2>2, <2>4, <2>5, <2>6 DEF ColonyTypeOK
<1>7. CASE ReadStorage
  <2>1. Card("storage") /\ UNCHANGED <<produced, flow>>
    BY <1>7 DEF ReadStorage
  <2>2. Pin.kind = "storage" \/ Pin = Factory(UnknownSchema)
    BY <1>0, <1>7, PinCases DEF ReadStorage
  <2>3. ColonyTypeOK'
    BY <1>1, <1>2, <1>4, <2>1 DEF ColonyTypeOK
  <2> QED BY <2>1, <2>2, <2>3
<1> QED BY <1>5, <1>6, <1>7 DEF ReadPin

-----------------------------------------------------------------------------
(* The colonies: what was read so far *)

OfKind(kind, n) == {i \in 1..n : pins[i].kind = kind}

\* Each pin has a card, of its kind unless its schematic is unknown.
CardInv ==
  /\ shownPins.extractor + shownPins.factory + shownPins.storage = read
  /\ \/ \E i \in 1..read : pins[i] = Factory(UnknownSchema)
     \/ /\ shownPins.extractor = Cardinality(OfKind("extractor", read))
        /\ shownPins.factory = Cardinality(OfKind("factory", read))

\* A pin makes a resource, gives a quantity of it, takes one.
Makes(i, r) ==
  \/ pins[i].kind = "extractor" /\ pins[i].product = r
  \/ /\ pins[i].kind = "factory" /\ pins[i].schema \in DOMAIN Schemas
     /\ Schemas[pins[i].schema].output = r
Gives(i, r) == Makes(i, r) /\ (pins[i].kind = "extractor" => pins[i].quantity > 0)
Takes(i, r) ==
  /\ pins[i].kind = "factory" /\ pins[i].schema \in DOMAIN Schemas
  /\ Schemas[pins[i].schema].inputs[r] > 0

\* Both pages have seen what the pins so far make, give and take.
FlowInv ==
  /\ ProducedHere \subseteq Resources
  /\ \A r \in Resources :
       /\ flow[r].in > 0 <=> \E i \in 1..read : Takes(i, r)
       /\ flow[r].out > 0 <=> \E i \in 1..read : Gives(i, r)
       /\ r \in ProducedHere <=> \E i \in 1..read : Makes(i, r)

ColonyInv == ColonyTypeOK /\ CardInv /\ FlowInv

LEMMA ColonyInvInit == ColonyInit => ColonyInv
<1> SUFFICES ASSUME ColonyInit PROVE ColonyInv
  OBVIOUS
<1>1. PICK n \in 0..MaxPins : pins \in [1..n -> Pins]
  BY DEF ColonyInit
<1>2. n \in Nat /\ Len(pins) = n
  BY <1>1, PinsAreFew, LenProperties, SeqDef
<1>3. produced = <<>> /\ read = 0 /\ ProducedHere = {}
  BY DEF ColonyInit, ProducedHere
<1>4. \A r \in Resources : flow[r].in = 0 /\ flow[r].out = 0
  BY DEF ColonyInit, NoFlow
<1>5. ColonyTypeOK
  BY <1>1, <1>2, <1>3 DEF ColonyInit, ColonyTypeOK, NoFlow
<1>6. \A k : OfKind(k, read) = {}
  BY <1>3 DEF OfKind
<1>7. CardInv
  <2>1. /\ shownPins.extractor = 0 /\ shownPins.factory = 0 /\ shownPins.storage = 0
    BY DEF ColonyInit
  <2>2. Cardinality(OfKind("extractor", read)) = 0 /\ Cardinality(OfKind("factory", read)) = 0
    BY <1>6, FS_EmptySet
  <2> QED BY <1>3, <2>1, <2>2 DEF CardInv
<1>8. FlowInv
  BY <1>3, <1>4 DEF FlowInv
<1> QED BY <1>5, <1>7, <1>8 DEF ColonyInv

\* One pin more.
LEMMA OneKindMore ==
  ASSUME ColonyTypeOK, ReadPin, NEW k
  PROVE  /\ Cardinality(OfKind(k, read)) \in Nat
         /\ Cardinality(OfKind(k, read)') =
              Cardinality(OfKind(k, read)) + (IF Pin.kind = k THEN 1 ELSE 0)
<1>1. read \in Nat /\ read' = read + 1 /\ pins' = pins /\ Pin = pins[read + 1]
  BY PinInHand DEF ColonyTypeOK
<1>2. IsFiniteSet(1..read)
  BY <1>1, FS_Interval
<1>3. IsFiniteSet(OfKind(k, read))
  BY <1>2, FS_Subset DEF OfKind
<1>4. read + 1 \notin OfKind(k, read)
  BY <1>1 DEF OfKind
<1>5. CASE Pin.kind = k
  <2>1. OfKind(k, read)' = OfKind(k, read) \cup {read + 1}
    BY <1>1, <1>5 DEF OfKind
  <2> QED BY <1>3, <1>4, <1>5, <2>1, FS_AddElement, FS_CardinalityType
<1>6. CASE Pin.kind # k
  <2>1. OfKind(k, read)' = OfKind(k, read)
    BY <1>1, <1>6 DEF OfKind
  <2> QED BY <1>3, <1>6, <2>1, FS_CardinalityType
<1> QED BY <1>5, <1>6

LEMMA CardStep == ASSUME ColonyInv, ReadPin PROVE CardInv'
<1>0. ColonyTypeOK /\ CardInv
  BY DEF ColonyInv
<1>1. /\ read \in Nat /\ read' = read + 1 /\ pins' = pins /\ Pin = pins[read + 1]
      /\ Pin \in Pins
  BY <1>0, PinInHand DEF ColonyTypeOK
<1>2. /\ shownPins.extractor \in Nat /\ shownPins.factory \in Nat /\ shownPins.storage \in Nat
  BY <1>0 DEF ColonyTypeOK
<1>3. ASSUME NEW k \in {"extractor", "factory", "storage"}, Card(k)
      PROVE  /\ shownPins'.extractor = shownPins.extractor + (IF k = "extractor" THEN 1 ELSE 0)
             /\ shownPins'.factory = shownPins.factory + (IF k = "factory" THEN 1 ELSE 0)
             /\ shownPins'.storage = shownPins.storage + (IF k = "storage" THEN 1 ELSE 0)
  BY <1>0, <1>2, <1>3 DEF ColonyTypeOK, Card
<1>4. \E k \in {"extractor", "factory", "storage"} :
        Card(k) /\ (k = Pin.kind \/ Pin = Factory(UnknownSchema))
  BY <1>0, ReadCases
<1>5. PICK k \in {"extractor", "factory", "storage"} :
        Card(k) /\ (k = Pin.kind \/ Pin = Factory(UnknownSchema))
  BY <1>4
<1>6. shownPins'.extractor + shownPins'.factory + shownPins'.storage = read'
  BY <1>0, <1>1, <1>2, <1>3, <1>5 DEF CardInv
<1>7. CASE \E i \in 1..read : pins[i] = Factory(UnknownSchema)
  BY <1>1, <1>6, <1>7 DEF CardInv
<1>8. CASE Pin = Factory(UnknownSchema)
  <2>1. read + 1 \in 1..read'
    BY <1>1
  <2> QED BY <1>1, <1>6, <1>8, <2>1 DEF CardInv
<1>9. CASE ~(\E i \in 1..read : pins[i] = Factory(UnknownSchema)) /\ Pin # Factory(UnknownSchema)
  <2>1. /\ shownPins.extractor = Cardinality(OfKind("extractor", read))
        /\ shownPins.factory = Cardinality(OfKind("factory", read))
    BY <1>0, <1>9 DEF CardInv
  <2>2. k = Pin.kind
    BY <1>5, <1>9
  <2>3. Cardinality(OfKind("extractor", read)') =
          Cardinality(OfKind("extractor", read)) + (IF Pin.kind = "extractor" THEN 1 ELSE 0)
    BY <1>0, OneKindMore
  <2>4. Cardinality(OfKind("factory", read)') =
          Cardinality(OfKind("factory", read)) + (IF Pin.kind = "factory" THEN 1 ELSE 0)
    BY <1>0, OneKindMore
  <2>5. /\ shownPins'.extractor = shownPins.extractor + (IF k = "extractor" THEN 1 ELSE 0)
        /\ shownPins'.factory = shownPins.factory + (IF k = "factory" THEN 1 ELSE 0)
    BY <1>3, <1>5
  <2>6. shownPins'.extractor = Cardinality(OfKind("extractor", read)')
    BY <2>1, <2>2, <2>3, <2>5
  <2>7. shownPins'.factory = Cardinality(OfKind("factory", read)')
    BY <2>1, <2>2, <2>4, <2>5
  <2> QED BY <1>6, <2>6, <2>7 DEF CardInv
<1> QED BY <1>7, <1>8, <1>9

\* What a pin adds to the flow and to the products.
LEMMA PinAdds ==
  ASSUME ColonyTypeOK, ReadPin, NEW r \in Resources
  PROVE  /\ flow'[r].in > 0 <=> flow[r].in > 0 \/ Takes(read + 1, r)
         /\ flow'[r].out > 0 <=> flow[r].out > 0 \/ Gives(read + 1, r)
         /\ r \in ProducedHere' <=> r \in ProducedHere \/ Makes(read + 1, r)
<1>1. Pin = pins[read + 1] /\ Pin \in Pins
  BY PinInHand
<1>2. flow[r].in \in Nat /\ flow[r].out \in Nat
  BY DEF ColonyTypeOK
<1>3. CASE /\ Pin.kind = "extractor" /\ Pin.product = NoResource
           /\ UNCHANGED <<produced, flow>>
  <2>1. ~Makes(read + 1, r) /\ ~Takes(read + 1, r)
    BY <1>1, <1>3, NonesApart DEF Makes, Takes
  <2> QED BY <1>3, <2>1 DEF ProducedHere, Gives
<1>4. CASE /\ Pin.kind = "extractor" /\ Pin.product \in Resources
           /\ ProducedHere' = ProducedHere \cup {Pin.product}
           /\ flow'[r].in = flow[r].in
           /\ flow'[r].out = flow[r].out + (IF r = Pin.product THEN Pin.quantity ELSE 0)
  <2>1. Pin.quantity \in Nat
    BY <1>1, <1>4, PinCases
  <2>2. /\ ~Takes(read + 1, r) /\ (Makes(read + 1, r) <=> r = Pin.product)
        /\ Gives(read + 1, r) <=> r = Pin.product /\ Pin.quantity > 0
    BY <1>1, <1>4 DEF Makes, Gives, Takes
  <2>3. flow'[r].out > 0 <=> flow[r].out > 0 \/ Gives(read + 1, r)
    BY <1>2, <1>4, <2>1, <2>2
  <2> QED BY <1>4, <2>2, <2>3
<1>5. CASE /\ Pin.kind = "factory" /\ Pin.schema \in DOMAIN Schemas
           /\ ProducedHere' = ProducedHere \cup {Schemas[Pin.schema].output}
           /\ flow'[r].in = flow[r].in + Schemas[Pin.schema].inputs[r]
           /\ flow'[r].out = flow[r].out + (IF r = Schemas[Pin.schema].output
                                            THEN Schemas[Pin.schema].quantity ELSE 0)
  <2>1. PICK s \in DOMAIN Schemas : s = Pin.schema
    BY <1>5
  <2>2. Schemas[s].inputs[r] \in Nat /\ Schemas[s].quantity \in Nat \ {0}
    BY SchemaType
  <2>3. /\ Takes(read + 1, r) <=> Schemas[s].inputs[r] > 0
        /\ Makes(read + 1, r) <=> r = Schemas[s].output
        /\ Gives(read + 1, r) <=> r = Schemas[s].output
    BY <1>1, <1>5, <2>1 DEF Makes, Gives, Takes
  <2>4. flow'[r].in > 0 <=> flow[r].in > 0 \/ Takes(read + 1, r)
    BY <1>2, <1>5, <2>1, <2>2, <2>3
  <2>5. flow'[r].out > 0 <=> flow[r].out > 0 \/ Gives(read + 1, r)
    BY <1>2, <1>5, <2>1, <2>2, <2>3
  <2> QED BY <1>5, <2>1, <2>3, <2>4, <2>5
<1>6. CASE /\ Pin.kind = "storage" \/ Pin = Factory(UnknownSchema)
           /\ UNCHANGED <<produced, flow>>
  <2>1. Pin.kind = "storage" \/ (Pin.kind = "factory" /\ Pin.schema = UnknownSchema)
    BY <1>6 DEF Factory
  <2>2. ~Makes(read + 1, r) /\ ~Takes(read + 1, r)
    BY <1>1, <2>1, NonesApart DEF Makes, Takes
  <2> QED BY <1>6, <2>2 DEF ProducedHere, Gives
<1> QED BY <1>3, <1>4, <1>5, <1>6, ReadCases

LEMMA FlowStep == ASSUME ColonyInv, ReadPin PROVE FlowInv'
<1>0. ColonyTypeOK /\ FlowInv
  BY DEF ColonyInv
<1>1. read \in Nat /\ read' = read + 1 /\ pins' = pins
  BY <1>0, PinInHand DEF ColonyTypeOK
<1>2. \A i : i \in 1..read' <=> i \in 1..read \/ i = read + 1
  BY <1>1
<1>3. ProducedHere' \subseteq Resources
  <2>1. produced' \in Seq(Resources)
    BY <1>0, ReadCases DEF ColonyTypeOK
  <2> QED BY <2>1, LenProperties DEF ProducedHere
<1>4. ASSUME NEW r \in Resources
      PROVE  /\ flow'[r].in > 0 <=> \E i \in 1..read' : Takes(i, r)'
             /\ flow'[r].out > 0 <=> \E i \in 1..read' : Gives(i, r)'
             /\ r \in ProducedHere' <=> \E i \in 1..read' : Makes(i, r)'
  <2>1. ASSUME NEW i
        PROVE  /\ Takes(i, r)' <=> Takes(i, r)
               /\ Gives(i, r)' <=> Gives(i, r)
               /\ Makes(i, r)' <=> Makes(i, r)
    <3>1. pins' = pins
      BY <1>1
    <3> QED BY ONLY <3>1 DEF Takes, Gives, Makes
  <2>2. /\ flow[r].in > 0 <=> \E i \in 1..read : Takes(i, r)
        /\ flow[r].out > 0 <=> \E i \in 1..read : Gives(i, r)
        /\ r \in ProducedHere <=> \E i \in 1..read : Makes(i, r)
    BY <1>0 DEF FlowInv
  <2>3. /\ flow'[r].in > 0 <=> flow[r].in > 0 \/ Takes(read + 1, r)
        /\ flow'[r].out > 0 <=> flow[r].out > 0 \/ Gives(read + 1, r)
        /\ r \in ProducedHere' <=> r \in ProducedHere \/ Makes(read + 1, r)
    BY <1>0, PinAdds
  <2>4. flow'[r].in > 0 <=> \E i \in 1..read' : Takes(i, r)'
    BY <1>2, <2>1, <2>2, <2>3
  <2>5. flow'[r].out > 0 <=> \E i \in 1..read' : Gives(i, r)'
    BY <1>2, <2>1, <2>2, <2>3
  <2>6. r \in ProducedHere' <=> \E i \in 1..read' : Makes(i, r)'
    BY <1>2, <2>1, <2>2, <2>3
  <2> QED BY <2>4, <2>5, <2>6
<1> QED BY <1>3, <1>4 DEF FlowInv

LEMMA ColonyAgrees == ColonyInv => ColonyPagesAgree
<1> SUFFICES ASSUME ColonyInv, read = Len(pins)
             PROVE  /\ \/ shownPins = OverviewCounts
                       \/ \E i \in DOMAIN pins : pins[i] = Factory(UnknownSchema)
                    /\ Exports = (ProducedHere \ MadeInSilence) \ Consumed
                    /\ Imports = Consumed \ (ProducedHere \ MadeInSilence)
  BY DEF ColonyPagesAgree
<1>0. ColonyTypeOK /\ CardInv /\ FlowInv
  BY DEF ColonyInv
<1>1. PICK n \in 0..MaxPins : pins \in [1..n -> Pins]
  BY <1>0 DEF ColonyTypeOK
<1>2. n \in Nat /\ Len(pins) = n /\ DOMAIN pins = 1..read
  BY <1>1, PinsAreFew, LenProperties, SeqDef
<1>3. ASSUME ~\E i \in DOMAIN pins : pins[i] = Factory(UnknownSchema)
      PROVE  shownPins = OverviewCounts
  <2>1. /\ shownPins.extractor = Cardinality(OfKind("extractor", read))
        /\ shownPins.factory = Cardinality(OfKind("factory", read))
        /\ shownPins.extractor + shownPins.factory + shownPins.storage = read
    BY <1>0, <1>2, <1>3 DEF CardInv
  <2>2. OfKind("extractor", read) = {i \in DOMAIN pins : pins[i].kind = "extractor"}
        /\ OfKind("factory", read) = {i \in DOMAIN pins : pins[i].kind = "factory"}
    BY <1>2 DEF OfKind
  <2>3. shownPins.extractor = PinsOf("extractor") /\ shownPins.factory = PinsOf("factory")
    BY <2>1, <2>2 DEF PinsOf
  <2>4. shownPins \in [extractor : Nat, factory : Nat, storage : Nat]
    BY <1>0 DEF ColonyTypeOK
  <2>5. shownPins.storage = Len(pins) - PinsOf("extractor") - PinsOf("factory")
    BY <2>1, <2>3, <2>4
  <2> QED BY <2>3, <2>4, <2>5 DEF OverviewCounts
<1>4. /\ Exports = (ProducedHere \ MadeInSilence) \ Consumed
      /\ Imports = Consumed \ (ProducedHere \ MadeInSilence)
  <2> DEFINE Heard == ProducedHere \ MadeInSilence
  <2>1. ASSUME NEW i \in 1..read, NEW r \in Resources
        PROVE  /\ Makes(i, r) <=> r \in MadeBy(i)
               /\ Gives(i, r) <=> r \in MadeBy(i) /\ ~Silent(i)
    <3>1. pins[i] \in Pins
      BY <1>1, <1>2
    <3>2. pins[i].kind = "extractor" => pins[i].quantity \in Nat
      BY <3>1, PinCases
    <3>3. Makes(i, r) <=> r \in MadeBy(i)
      BY <3>1, PinCases DEF Makes, MadeBy
    <3>4. (pins[i].kind = "extractor" => pins[i].quantity > 0) <=> ~Silent(i)
      BY <3>2 DEF Silent
    <3> QED BY <3>3, <3>4 DEF Gives
  <2>2. \A r \in Resources : r \in Consumed <=> \E i \in 1..read : Takes(i, r)
    BY <1>2 DEF Consumed, Takes
  <2>3. ASSUME NEW r \in Resources
        PROVE  /\ flow[r].in \in Nat /\ flow[r].out \in Nat
               /\ flow[r].in > 0 <=> r \in Consumed
               /\ flow[r].out > 0 <=> r \in Heard
    <3>1. flow[r].in > 0 <=> r \in Consumed
      BY <1>0, <2>2 DEF FlowInv
    <3>2. /\ flow[r].out > 0 <=> \E i \in 1..read : Gives(i, r)
          /\ r \in ProducedHere <=> \E i \in 1..read : Makes(i, r)
      BY <1>0 DEF FlowInv
    <3>3. r \in MadeInSilence <=>
            r \in ProducedHere /\ \A i \in 1..read : r \in MadeBy(i) => Silent(i)
      BY <1>2 DEF MadeInSilence
    <3>4. flow[r].out > 0 <=> r \in Heard
      BY <2>1, <3>2, <3>3
    <3> QED BY <1>0, <3>1, <3>4 DEF ColonyTypeOK
  <2>4. Heard \subseteq Resources /\ Consumed \subseteq Resources
    BY <1>0 DEF FlowInv, Consumed
  <2> HIDE DEF Heard
  <2>5. \A r \in Resources : /\ r \in Exports <=> r \in Heard /\ r \notin Consumed
                             /\ r \in Imports <=> r \in Consumed /\ r \notin Heard
    BY <2>3 DEF Exports, Imports
  <2>6. Exports \subseteq Resources /\ Imports \subseteq Resources
    BY DEF Exports, Imports
  <2>7. Exports = Heard \ Consumed /\ Imports = Consumed \ Heard
    BY <2>4, <2>5, <2>6
  <2> QED BY <2>7 DEF Heard
<1> QED BY <1>3, <1>4

\* The overview of a player's colonies and the page of each (pi.py) go through the
\* same pins and agree, for any schematics and any colony.
THEOREM BothPagesAgree == ColonySpec => []ColonyPagesAgree
<1>1. ColonyInv /\ [ReadPin]_colonyVars => ColonyInv'
  <2>1. ColonyInv /\ ReadPin => ColonyInv'
    BY ReadCases, CardStep, FlowStep DEF ColonyInv
  <2>2. ColonyInv /\ UNCHANGED colonyVars => ColonyInv'
    BY DEF ColonyInv, ColonyTypeOK, CardInv, FlowInv, OfKind, Makes, Gives, Takes,
           ProducedHere, colonyVars
  <2> QED BY <2>1, <2>2
<1> QED BY ColonyInvInit, <1>1, ColonyAgrees, PTL DEF ColonySpec

-----------------------------------------------------------------------------
(* The asset pages: the order of a merged list *)

\* A list of assets or one of blueprints names an entry by owner, page and item.
Single(S) ==
  /\ IsFiniteSet(S)
  /\ \A e, f \in S : e.list.owner = f.list.owner /\ e.page = f.page /\ e.item = f.item => e = f

LEMMA EntryFields ==
  ASSUME NEW e \in Entries
  PROVE  /\ e.list \in Lists /\ e.list.owner \in Owners /\ e.list.blueprints \in BOOLEAN
         /\ e.page \in Nat \ {0} /\ e.item \in Items /\ e.item \in Nat
         /\ e.parent \in Places
BY ItemsAreIds DEF Entries, Lists

LEMMA BeforeTransitive ==
  ASSUME NEW e \in Entries, NEW f \in Entries, NEW g \in Entries, Before(e, f), Before(f, g)
  PROVE  Before(e, g)
BY EntryFields DEF Before, Owners

LEMMA BeforeIrreflexive ==
  ASSUME NEW e \in Entries
  PROVE  ~Before(e, e)
BY EntryFields DEF Before

LEMMA BeforeTotal ==
  ASSUME NEW S \in SUBSET Entries, Single(S), NEW e \in S, NEW f \in S
  PROVE  f = e \/ Before(f, e) \/ Before(e, f)
BY EntryFields DEF Before, Owners, Single

\* A merged list has a last entry.
LEMMA LastEntry ==
  ASSUME NEW S \in SUBSET Entries, Single(S), S # {}
  PROVE  \E e \in S : \A f \in S : f = e \/ Before(f, e)
<1> DEFINE After(e) == {f \in S : Before(e, f)}
           U == {After(e) : e \in S}
<1>1. IsFiniteSet(S)
  BY DEF Single
<1>2. \A e \in S : IsFiniteSet(After(e))
  BY <1>1, FS_Subset
<1>3. U \subseteq FiniteSubsetsOf(S)
  BY <1>2 DEF FiniteSubsetsOf
<1>4. U # {}
  OBVIOUS
<1> HIDE DEF U
<1>5. PICK T \in U : \A V \in U : <<V, T>> \notin StrictSubsetOrdering(S)
  BY <1>3, <1>4, WFMin, FS_StrictSubsetOrderingWellFounded
<1>6. PICK e \in S : T = After(e)
  BY DEF U
<1>7. ASSUME NEW f \in After(e) PROVE FALSE
  <2>1. f \in S /\ Before(e, f)
    BY <1>7
  <2>2. After(f) \subseteq After(e)
    BY <2>1, BeforeTransitive
  <2>3. f \in After(e) /\ f \notin After(f)
    BY <1>7, <2>1, BeforeIrreflexive
  <2>4. After(f) \in U
    BY <2>1 DEF U
  <2>5. After(f) \subseteq S /\ After(e) \subseteq S
    OBVIOUS
  <2> HIDE DEF After
  <2>6. <<After(f), After(e)>> \in StrictSubsetOrdering(S)
    BY <2>2, <2>3, <2>5 DEF StrictSubsetOrdering
  <2> QED BY <1>5, <1>6, <2>4, <2>6
<1>8. \A f \in S : f = e \/ Before(f, e)
  BY <1>7, BeforeTotal
<1> QED BY <1>8

\* assets_by_item_id has an entry for each item of the page's list.
LEMMA ByIdIsAnEntry ==
  ASSUME req.assets \in SUBSET Entries, Single(req.assets), NEW i \in Ids
  PROVE  /\ ById(i) \in req.assets /\ ById(i).item = i
         /\ Container(i) \in Places
<1> DEFINE S == {e \in req.assets : e.item = i}
<1>1. S # {} /\ S \in SUBSET Entries
  BY DEF Ids
<1>2. Single(S)
  BY FS_Subset DEF Single
<1>3. PICK e \in S : \A f \in S : f = e \/ Before(f, e)
  <2> HIDE DEF S
  <2> QED BY <1>1, <1>2, LastEntry
<1>4. e \in req.assets /\ e.item = i /\ \A f \in req.assets : f.item = i => f = e \/ Before(f, e)
  BY <1>3
<1>5. ById(i) \in req.assets /\ ById(i).item = i
  BY <1>4 DEF ById
<1> QED BY <1>5, EntryFields DEF Container

-----------------------------------------------------------------------------
(* The asset pages: pages of ESI *)

LEMMA HangarType == ASSUME hangar \in Worlds, NEW i \in Items
                    PROVE  hangar[i].parent \in Places /\ hangar[i].owner \in Owners
BY DEF Worlds

LEMMA ListedFinite == ASSUME NEW l PROVE Listed(l) \subseteq Items /\ IsFiniteSet(Listed(l))
BY ItemsAreIds, FS_Subset DEF Listed

LEMMA OnPageEntries ==
  ASSUME hangar \in Worlds, NEW l \in Lists, NEW p \in Nat \ {0}
  PROVE  /\ OnPage(l, p) \in SUBSET Entries
         /\ IsFiniteSet(OnPage(l, p))
         /\ \A e \in OnPage(l, p) :
              /\ e.list = l /\ e.page = p /\ e.item \in Listed(l) /\ PageOf(l, e.item) = p
              /\ e.parent = hangar[e.item].parent
         /\ \A i \in Listed(l) : PageOf(l, i) = p =>
              \E e \in OnPage(l, p) : e.item = i
<1> DEFINE J == {j \in Listed(l) : PageOf(l, j) = p}
           E(i) == [list |-> l, page |-> p, item |-> i, parent |-> hangar[i].parent]
           g == [i \in J |-> E(i)]
<1>1. J \subseteq Listed(l) /\ J \subseteq Items
  BY ListedFinite
<1>2. IsFiniteSet(J)
  BY <1>1, ListedFinite, FS_Subset
<1>3. OnPage(l, p) = {E(i) : i \in J}
  BY DEF OnPage
<1>4. \A i \in J : E(i) \in Entries
  BY <1>1, HangarType DEF Entries
<1>5. g \in Surjection(J, OnPage(l, p))
  BY <1>3 DEF Surjection
<1>6. IsFiniteSet(OnPage(l, p))
  BY <1>2, <1>5, FS_Surjection
<1>7. \A e \in OnPage(l, p) :
        /\ e.list = l /\ e.page = p /\ e.item \in Listed(l) /\ PageOf(l, e.item) = p
        /\ e.parent = hangar[e.item].parent
  BY <1>3
<1>8. ASSUME NEW i \in Listed(l), PageOf(l, i) = p
      PROVE  \E e \in OnPage(l, p) : e.item = i
  <2>1. E(i) \in OnPage(l, p)
    BY <1>3, <1>8
  <2>2. E(i).item = i
    OBVIOUS
  <2> QED BY <2>1, <2>2
<1> QED BY <1>3, <1>4, <1>6, <1>7, <1>8

LEMMA DivMonotone ==
  ASSUME NEW a \in Nat, NEW b \in Nat, NEW k \in Nat \ {0}, a <= b
  PROVE  /\ a \div k \in Nat /\ b \div k \in Nat
         /\ a \div k <= b \div k
<1> DEFINE q == a \div k
           p == b \div k
<1>1. q \in Nat /\ p \in Nat /\ q * k <= a /\ b < p * k + k
  <2>1. q \in Nat /\ q * k <= a
    BY ONLY a \in Nat, k \in Nat \ {0}, SMTT(30)
  <2>2. p \in Nat /\ b < p * k + k
    BY ONLY b \in Nat, k \in Nat \ {0}, SMTT(30)
  <2> QED BY <2>1, <2>2
<1> HIDE DEF q, p
<1>2. ASSUME q > p PROVE FALSE
  <2>1. q >= p + 1 /\ q - (p + 1) \in Nat
    BY <1>1, <1>2
  <2>2. PICK d \in Nat : q = p + 1 + d
    BY <1>1, <2>1
  <2>3. q * k = p * k + k + d * k
    BY <1>1, <2>2
  <2>4. d * k \in Nat /\ p * k \in Nat
    BY <1>1
  <2> QED BY <1>1, <2>3, <2>4
<1>3. q <= p
  BY <1>1, <1>2
<1> QED BY <1>1, <1>3 DEF q, p

\* Each item of a list is on a page of it.
LEMMA PageExists ==
  ASSUME NEW l \in Lists
  PROVE  /\ Pages(l) \in Nat \ {0}
         /\ \A i \in Listed(l) : PageOf(l, i) \in 1..Pages(l)
<1> DEFINE c == Cardinality(Listed(l))
<1>1. c \in Nat
  BY ListedFinite, FS_CardinalityType
<1>2. CASE Listed(l) = {}
  BY <1>2 DEF Pages
<1>3. CASE Listed(l) # {}
  <2>1. c # 0
    BY <1>3, ListedFinite, FS_EmptySet
  <2>2. c - 1 \in Nat
    BY <1>1, <2>1
  <2>3. Pages(l) = 1 + (c - 1) \div PageSize
    BY <1>3 DEF Pages
  <2>4. ASSUME NEW i \in Listed(l)
        PROVE  PageOf(l, i) \in 1..Pages(l)
    <3> DEFINE B == {j \in Listed(l) : j < i}
               b == Cardinality(B)
    <3>1. i \notin B
      <4>1. i \in Nat
        BY ListedFinite, ItemsAreIds
      <4> QED BY <4>1
    <3>2. B \subseteq Listed(l) \ {i}
      BY <3>1
    <3>3. IsFiniteSet(Listed(l) \ {i}) /\ Cardinality(Listed(l) \ {i}) = c - 1
      BY ListedFinite, FS_RemoveElement
    <3>4. IsFiniteSet(B) /\ b <= c - 1
      BY <3>2, <3>3, FS_Subset
    <3>5. b \in Nat
      BY <3>4, FS_CardinalityType
    <3>6. PageOf(l, i) = 1 + (b \div PageSize)
      BY DEF PageOf
    <3> HIDE DEF b, c
    <3>7. b \div PageSize \in Nat /\ (c - 1) \div PageSize \in Nat
          /\ b \div PageSize <= (c - 1) \div PageSize
      BY <2>2, <3>4, <3>5, BoundsAreNat, DivMonotone
    <3> QED BY <2>3, <3>6, <3>7
  <2>5. (c - 1) \div PageSize \in Nat
    <3> HIDE DEF c
    <3> QED BY <2>2, BoundsAreNat, DivMonotone
  <2> QED BY <2>3, <2>4, <2>5
<1> QED BY <1>2, <1>3

-----------------------------------------------------------------------------
(* The asset pages: the steps, field by field *)

LEMMA RequestFields ==
  ASSUME req \in Busy \cup {Idle}
  PROVE  /\ req.phase \in {"idle", "get", "walk", "done"}
         /\ req.phase = "idle" <=> req = Idle
         /\ req.phase # "idle" =>
              /\ req \in Busy
              /\ req.left \in Seq(Lists) /\ req.blueprints \in BOOLEAN
              /\ req.page \in Nat \ {0} /\ req.pages \in Nat
              /\ req.fetched \in SUBSET Entries /\ req.assets \in SUBSET Entries
              /\ req.owned \in SUBSET Entries
<1>1. CASE req = Idle
  BY <1>1 DEF Idle
<1>2. CASE req \in Busy
  <2>1. req.phase \in {"get", "walk", "done"}
    BY <1>2 DEF Busy
  <2>2. Idle.phase = "idle"
    BY DEF Idle
  <2>3. /\ req.left \in Seq(Lists) /\ req.blueprints \in BOOLEAN
        /\ req.page \in Nat \ {0} /\ req.pages \in Nat
        /\ req.fetched \in SUBSET Entries /\ req.assets \in SUBSET Entries
        /\ req.owned \in SUBSET Entries
    BY <1>2 DEF Busy
  <2> QED BY <1>2, <2>1, <2>2, <2>3
<1> QED BY <1>1, <1>2

LEMMA CachedFields ==
  ASSUME cached \in [Lists -> {NoList} \cup CachedLists], NEW l \in Lists, cached[l].held
  PROVE  cached[l].entries \in SUBSET Entries
<1>1. cached[l] \in {NoList} \cup CachedLists
  OBVIOUS
<1>2. NoList.held = FALSE
  BY DEF NoList
<1>3. cached[l] \in CachedLists
  BY <1>1, <1>2
<1> QED BY <1>3 DEF CachedLists

LEMMA CachedIsAList ==
  ASSUME NEW S \in SUBSET Entries
  PROVE  Cached(S) \in CachedLists /\ Cached(S).held /\ Cached(S).entries = S
BY DEF Cached, CachedLists

\* While the lists are got, the first of those left is the one in hand.
LEMMA InHandFields ==
  ASSUME TypeOK, req.phase = "get"
  PROVE  /\ req \in Busy /\ req.left \in Seq(Lists) /\ req.left # <<>>
         /\ Len(req.left) \in Nat \ {0} /\ DOMAIN req.left = 1..Len(req.left)
         /\ Current = req.left[1] /\ Current \in Lists
         /\ Current.blueprints \in BOOLEAN /\ Current.owner \in Owners
         /\ req.pages > 0 => req.page <= req.pages + 1
<1>1. req \in Busy /\ req.left \in Seq(Lists) /\ req.left # <<>>
      /\ (req.pages > 0 => req.page <= req.pages + 1)
  BY RequestFields DEF TypeOK
<1>2. Len(req.left) \in Nat /\ DOMAIN req.left = 1..Len(req.left)
  BY <1>1, LenProperties
<1>3. Len(req.left) # 0
  BY <1>1, EmptySeq
<1>4. Current = req.left[1]
  BY <1>1 DEF Current
<1>5. Current \in Lists
  BY <1>1, <1>2, <1>3, <1>4, ElementOfSeq
<1>6. Current.blueprints \in BOOLEAN /\ Current.owner \in Owners
  BY <1>5 DEF Lists
<1> QED BY <1>1, <1>2, <1>3, <1>4, <1>5, <1>6

LEMMA GotFields ==
  ASSUME TypeOK, req.phase = "get", NEW S \in SUBSET Entries, Got(S)
  PROVE  /\ req' \in Busy
         /\ req'.blueprints = req.blueprints
         /\ req'.page = 1 /\ req'.pages = 0 /\ req'.fetched = {}
         /\ req'.assets = IF Current.blueprints THEN req.assets ELSE req.assets \cup S
         /\ req'.owned = IF Current.blueprints THEN req.owned \cup S ELSE req.owned
         /\ \/ req'.phase = "walk"
            \/ req'.phase = "get" /\ req'.left # <<>> /\ req'.left = Tail(req.left)
<1>1. /\ req \in Busy /\ req.left \in Seq(Lists) /\ req.left # <<>>
  BY InHandFields
<1>2. PICK b : b = Current.blueprints
  OBVIOUS
<1>3. PICK L : L = Rest(S)
  OBVIOUS
<1>4. L \in Seq(Lists) /\ (L = <<>> \/ L = Tail(req.left))
  <2>1. Tail(req.left) \in Seq(Lists)
    BY <1>1, HeadTailProperties
  <2>2. <<>> \in Seq(Lists)
    BY EmptySeq
  <2> QED BY <1>3, <2>1, <2>2 DEF Rest
<1>5. PICK p : p = IF L = <<>> THEN "walk" ELSE "get"
  OBVIOUS
<1>6. req' = [req EXCEPT
            !.assets = IF b THEN req.assets ELSE req.assets \cup S,
            !.owned = IF b THEN req.owned \cup S ELSE req.owned,
            !.left = L, !.page = 1, !.pages = 0, !.fetched = {}, !.phase = p]
  BY <1>2, <1>3, <1>5 DEF Got
<1>7. PICK A, O : /\ A = IF b THEN req.assets ELSE req.assets \cup S
                  /\ O = IF b THEN req.owned \cup S ELSE req.owned
  OBVIOUS
<1>8. req' = [req EXCEPT !.assets = A, !.owned = O, !.left = L, !.page = 1, !.pages = 0,
                         !.fetched = {}, !.phase = p]
  BY <1>6, <1>7
<1>9. A \in SUBSET Entries /\ O \in SUBSET Entries /\ p \in {"walk", "get"}
  BY <1>1, <1>5, <1>7 DEF Busy
<1>10. /\ req'.left = L /\ req'.blueprints = req.blueprints
       /\ req'.page = 1 /\ req'.pages = 0 /\ req'.fetched = {} /\ req'.assets = A
       /\ req'.owned = O /\ req'.phase = p
  BY <1>1, <1>8 DEF Busy
<1>11. req' \in Busy
  <2>1. [req EXCEPT !.phase = p, !.left = L] \in Busy
    BY <1>1, <1>4, <1>9 DEF Busy
  <2>2. PICK q \in Busy : q = [req EXCEPT !.phase = p, !.left = L]
    BY <2>1
  <2>3. \A m \in Nat \ {0}, n \in Nat, F \in SUBSET Entries :
          [q EXCEPT !.page = m, !.pages = n, !.fetched = F] \in Busy
    BY DEF Busy
  <2>4. 1 \in Nat \ {0} /\ 0 \in Nat /\ {} \in SUBSET Entries
    OBVIOUS
  <2>5. [q EXCEPT !.page = 1, !.pages = 0, !.fetched = {}] \in Busy
    BY <2>3, <2>4, Zenon
  <2>6. PICK u \in Busy : u = [q EXCEPT !.page = 1, !.pages = 0, !.fetched = {}]
    BY <2>5
  <2>7. [u EXCEPT !.assets = A, !.owned = O] \in Busy
    BY <1>9 DEF Busy
  <2>8. req' = [u EXCEPT !.assets = A, !.owned = O]
    BY <1>1, <1>8, <2>2, <2>6 DEF Busy
  <2> QED BY <2>7, <2>8
<1> QED BY <1>2, <1>3, <1>4, <1>5, <1>7, <1>10, <1>11

\* The two lists of one kind, the character's first.
LEMMA ListFields ==
  ASSUME NEW b \in BOOLEAN, NEW o \in Owners
  PROVE  ListOf(b, o) \in Lists /\ ListOf(b, o).blueprints = b /\ ListOf(b, o).owner = o
BY DEF ListOf, Lists

Distinct(s) == \A i, j \in DOMAIN s : s[i] = s[j] => i = j

LEMMA MergedOne ==
  ASSUME NEW b \in BOOLEAN, NEW c \in BOOLEAN
  PROVE  /\ Merged(b, c) \in Seq(Lists) /\ Merged(b, c) # <<>> /\ Distinct(Merged(b, c))
         /\ \A i \in DOMAIN Merged(b, c) : Merged(b, c)[i].blueprints = b
<1>1. ListOf(b, "character") \in Lists /\ ListOf(b, "corporation") \in Lists
      /\ ListOf(b, "character").blueprints = b /\ ListOf(b, "corporation").blueprints = b
      /\ ListOf(b, "character") # ListOf(b, "corporation")
  BY ListFields DEF Owners
<1> QED BY <1>1 DEF Merged, Distinct

LEMMA MergedBoth ==
  ASSUME NEW c \in BOOLEAN
  PROVE  /\ Merged(TRUE, c) \o Merged(FALSE, c) \in Seq(Lists)
         /\ Merged(TRUE, c) \o Merged(FALSE, c) # <<>>
         /\ Distinct(Merged(TRUE, c) \o Merged(FALSE, c))
<1>1. PICK s, t : s = Merged(TRUE, c) /\ t = Merged(FALSE, c)
  OBVIOUS
<1>2. /\ s \in Seq(Lists) /\ t \in Seq(Lists) /\ s # <<>> /\ Distinct(s) /\ Distinct(t)
      /\ \A i \in DOMAIN s : s[i].blueprints = TRUE
      /\ \A i \in DOMAIN t : t[i].blueprints = FALSE
  BY <1>1, MergedOne
<1>3. /\ s \o t \in Seq(Lists) /\ Len(s \o t) = Len(s) + Len(t)
      /\ \A i \in 1..(Len(s) + Len(t)) : (s \o t)[i] = IF i <= Len(s) THEN s[i] ELSE t[i - Len(s)]
  BY <1>2, ConcatProperties
<1>4. /\ Len(s) \in Nat \ {0} /\ Len(t) \in Nat /\ DOMAIN s = 1..Len(s) /\ DOMAIN t = 1..Len(t)
      /\ DOMAIN (s \o t) = 1..(Len(s) + Len(t))
  BY <1>2, <1>3, LenProperties, EmptySeq
<1>5. s \o t # <<>>
  BY <1>3, <1>4, EmptySeq
<1>6. ASSUME NEW i \in DOMAIN (s \o t), NEW j \in DOMAIN (s \o t), (s \o t)[i] = (s \o t)[j]
      PROVE  i = j
  <2>1. i \in 1..(Len(s) + Len(t)) /\ j \in 1..(Len(s) + Len(t))
    BY <1>4
  <2>2. CASE i <= Len(s) /\ j <= Len(s)
    <3>1. i \in DOMAIN s /\ j \in DOMAIN s /\ s[i] = s[j]
      BY <1>3, <1>4, <1>6, <2>1, <2>2
    <3> QED BY <1>2, <3>1 DEF Distinct
  <2>3. CASE i > Len(s) /\ j > Len(s)
    <3>1. i - Len(s) \in DOMAIN t /\ j - Len(s) \in DOMAIN t /\ t[i - Len(s)] = t[j - Len(s)]
      BY <1>3, <1>4, <1>6, <2>1, <2>3
    <3>2. i - Len(s) = j - Len(s)
      BY <1>2, <3>1 DEF Distinct
    <3> QED BY <1>4, <2>1, <3>2
  <2>4. CASE i <= Len(s) /\ j > Len(s)
    <3>1. i \in DOMAIN s /\ j - Len(s) \in DOMAIN t /\ s[i] = t[j - Len(s)]
      BY <1>3, <1>4, <1>6, <2>1, <2>4
    <3> QED BY <1>2, <3>1
  <2>5. CASE i > Len(s) /\ j <= Len(s)
    <3>1. j \in DOMAIN s /\ i - Len(s) \in DOMAIN t /\ s[j] = t[i - Len(s)]
      BY <1>3, <1>4, <1>6, <2>1, <2>5
    <3> QED BY <1>2, <3>1
  <2> QED BY <1>4, <2>1, <2>2, <2>3, <2>4, <2>5
<1> QED BY <1>1, <1>3, <1>5, <1>6 DEF Distinct

LEMMA OpenFields ==
  ASSUME NEW b \in BOOLEAN, NEW c \in BOOLEAN, Open(b, c)
  PROVE  /\ req' \in Busy /\ req'.phase = "get" /\ req'.blueprints = b
         /\ req'.left # <<>> /\ Distinct(req'.left)
         /\ req'.page = 1 /\ req'.pages = 0 /\ req'.fetched = {} /\ req'.assets = {}
         /\ req'.owned = {}
         /\ UNCHANGED <<hangar, moves, cached, still, walk, shown>>
<1>1. PICK L : L = IF b THEN Merged(TRUE, c) \o Merged(FALSE, c) ELSE Merged(FALSE, c)
  OBVIOUS
<1>2. L \in Seq(Lists) /\ L # <<>> /\ Distinct(L)
  <2>1. CASE b
    BY <1>1, <2>1, MergedBoth
  <2>2. CASE ~b
    BY <1>1, <2>2, MergedOne
  <2> QED BY <2>1, <2>2
<1>3. req' = [phase |-> "get", blueprints |-> b, left |-> L, page |-> 1, pages |-> 0,
              fetched |-> {}, assets |-> {}, owned |-> {}]
  BY <1>1 DEF Open
<1>4. req' \in Busy
  BY <1>2, <1>3 DEF Busy
<1>5. /\ req'.phase = "get" /\ req'.blueprints = b /\ req'.left = L
      /\ req'.page = 1 /\ req'.pages = 0 /\ req'.fetched = {} /\ req'.assets = {}
      /\ req'.owned = {}
  BY <1>3
<1> QED BY <1>2, <1>4, <1>5 DEF Open

LEMMA FetchFirstFields ==
  ASSUME TypeOK, FetchFirst
  PROVE  /\ req' \in Busy /\ req'.phase = "get" /\ req'.left = req.left
         /\ req'.blueprints = req.blueprints /\ req'.assets = req.assets /\ req'.owned = req.owned
         /\ req'.fetched = OnPage(Current, 1) /\ req'.pages = Pages(Current) /\ req'.page = 2
<1>1. req \in Busy /\ Current \in Lists /\ req.phase = "get"
  BY InHandFields DEF FetchFirst
<1>2. OnPage(Current, 1) \in SUBSET Entries /\ Pages(Current) \in Nat
  BY <1>1, OnPageEntries, PageExists DEF TypeOK
<1>3. PICK F, n : F = OnPage(Current, 1) /\ n = Pages(Current)
  OBVIOUS
<1>4. req' = [req EXCEPT !.fetched = F, !.pages = n, !.page = 2]
  BY <1>3 DEF FetchFirst
<1>5. F \in SUBSET Entries /\ n \in Nat /\ 2 \in Nat \ {0}
  BY <1>2, <1>3
<1>6. \A m \in Nat \ {0} : [req EXCEPT !.fetched = F, !.pages = n, !.page = m] \in Busy
  BY <1>1, <1>5 DEF Busy
<1>7. req' \in Busy
  BY <1>4, <1>5, <1>6, Zenon
<1>8. /\ req'.phase = "get" /\ req'.left = req.left
      /\ req'.blueprints = req.blueprints /\ req'.assets = req.assets /\ req'.owned = req.owned
      /\ req'.fetched = F /\ req'.pages = n /\ req'.page = 2
  BY <1>1, <1>4 DEF Busy
<1> QED BY <1>3, <1>7, <1>8

LEMMA FetchNextFields ==
  ASSUME TypeOK, FetchNext
  PROVE  /\ req' \in Busy /\ req'.phase = "get" /\ req'.left = req.left
         /\ req'.blueprints = req.blueprints /\ req'.assets = req.assets /\ req'.owned = req.owned
         /\ req'.fetched = req.fetched \cup OnPage(Current, req.page)
         /\ req'.pages = req.pages /\ req'.page = req.page + 1
<1>1. req \in Busy /\ Current \in Lists /\ req.phase = "get"
  BY InHandFields DEF FetchNext
<1>2. req.page \in Nat \ {0} /\ req.fetched \in SUBSET Entries
  BY <1>1 DEF Busy
<1>3. PICK F, n : F = req.fetched \cup OnPage(Current, req.page) /\ n = req.page + 1
  OBVIOUS
<1>4. F \in SUBSET Entries /\ n \in Nat \ {0}
  BY <1>1, <1>2, <1>3, OnPageEntries DEF TypeOK
<1>5. req' = [req EXCEPT !.fetched = F, !.page = n]
  BY <1>3 DEF FetchNext
<1>6. req' \in Busy
  BY <1>1, <1>4, <1>5 DEF Busy
<1>7. /\ req'.phase = "get" /\ req'.left = req.left
      /\ req'.blueprints = req.blueprints /\ req'.assets = req.assets /\ req'.owned = req.owned
      /\ req'.fetched = F /\ req'.pages = req.pages /\ req'.page = n
  BY <1>1, <1>5 DEF Busy
<1> QED BY <1>3, <1>6, <1>7

LEMMA ResolvedFields ==
  ASSUME TypeOK, Resolved
  PROVE  /\ req' \in Busy /\ req'.phase = "done" /\ req'.blueprints = req.blueprints
         /\ req'.assets = req.assets /\ req'.owned = req.owned
<1>1. req \in Busy
  BY RequestFields DEF Resolved, TypeOK
<1> QED BY <1>1 DEF Resolved, Busy

\* What a walk has at hand.
LEMMA WalkFields ==
  ASSUME walk \in Walking \cup {Resting}, walk # Resting
  PROVE  walk.of \in Entries /\ walk.current \in Places /\ walk.visited \in SUBSET Items
BY DEF Walking

\* A beginning or ascending walk is no rest.
LEMMA WalkingIsNotResting ==
  ASSUME NEW w \in Walking
  PROVE  w # Resting
<1>1. w.of \in Entries
  BY DEF Walking
<1>2. w = Resting => w.of = "none"
  BY DEF Resting
<1>3. DOMAIN w = {"of", "current", "visited"}
  BY DEF Walking
<1>4. DOMAIN Resting = {"of"}
  BY DEF Resting
<1> QED BY <1>3, <1>4

LEMMA BeginFields ==
  ASSUME TypeOK, Begin
  PROVE  /\ req.phase = "walk" /\ req \in Busy
         /\ \E e \in Unresolved :
              /\ e \in Entries /\ walk'.of = e /\ walk'.current = e.parent /\ walk'.visited = {}
         /\ walk' \in Walking
<1>1. req \in Busy /\ req.phase = "walk"
  BY RequestFields DEF TypeOK, Begin
<1>2. PICK e \in Unresolved : walk' = [of |-> e, current |-> e.parent, visited |-> {}]
  BY DEF Begin
<1>3. e \in Entries
  BY <1>1, RequestFields DEF TypeOK, Unresolved, Subjects
<1>4. e.parent \in Places
  BY <1>3, EntryFields
<1> QED BY <1>1, <1>2, <1>3, <1>4 DEF Walking

LEMMA AscendFields ==
  ASSUME TypeOK, Ascend
  PROVE  /\ req.phase = "walk" /\ req \in Busy /\ walk # Resting
         /\ walk.current \in Ids \ walk.visited /\ Container(walk.current) \in Items
         /\ walk' \in Walking /\ walk'.of = walk.of
         /\ walk'.current = Container(walk.current)
         /\ walk'.visited = walk.visited \cup {walk.current}
<1>1. walk # Resting /\ req.phase = "walk" /\ req \in Busy
  BY RequestFields DEF TypeOK, Ascend
<1>2. walk.current \in Ids \ walk.visited /\ Container(walk.current) \in Items
  BY DEF Ascend, Known
<1>3. walk \in Walking
  BY <1>1 DEF TypeOK
<1>4. Ids \subseteq Items
  BY <1>1, RequestFields, EntryFields DEF TypeOK, Ids
<1>5. PICK c, V : c = Container(walk.current) /\ V = walk.visited \cup {walk.current}
  OBVIOUS
<1>6. walk' = [walk EXCEPT !.current = c, !.visited = V]
  BY <1>5 DEF Ascend
<1>7. c \in Places /\ V \in SUBSET Items
  BY <1>2, <1>3, <1>4, <1>5 DEF Walking, Places
<1>8. walk' \in Walking /\ walk'.of = walk.of /\ walk'.current = c /\ walk'.visited = V
  BY <1>3, <1>6, <1>7 DEF Walking
<1> QED BY <1>1, <1>2, <1>5, <1>8

-----------------------------------------------------------------------------
(* The asset pages: types, and what is in the lists *)

\* A list holds an entry once, and of one list only; a page gets each list once.
ListsInv ==
  /\ \A l \in Lists : cached[l].held =>
       Single(cached[l].entries) /\ \A e \in cached[l].entries : e.list = l
  /\ req.phase # "idle" =>
       /\ Single(req.assets) /\ \A e \in req.assets : ~e.list.blueprints
       /\ Single(req.owned) /\ \A e \in req.owned : e.list.blueprints
  /\ req.phase = "get" =>
       /\ Single(req.fetched)
       /\ \A e \in req.fetched : e.list = Current /\ e.page < req.page
       /\ Distinct(req.left)
       /\ \A i \in DOMAIN req.left : \A e \in req.assets \cup req.owned : e.list # req.left[i]

TypeInv == TypeOK /\ ListsInv

LEMMA SingleEmpty == Single({})
BY FS_EmptySet DEF Single

\* The entries of a list a page did not have yet.
LEMMA SingleUnion ==
  ASSUME NEW S \in SUBSET Entries, NEW T \in SUBSET Entries, Single(S), Single(T),
         NEW l \in Lists, \A e \in T : e.list = l,
         \A e \in S : e.list # l /\ e.list.blueprints = l.blueprints
  PROVE  Single(S \cup T)
<1>1. IsFiniteSet(S \cup T)
  BY FS_Union DEF Single
<1>2. ASSUME NEW e \in S, NEW f \in T PROVE e.list.owner # f.list.owner
  <2>1. e.list \in Lists /\ e.list # l /\ e.list.blueprints = l.blueprints /\ f.list = l
    BY <1>2, EntryFields
  <2> QED BY <2>1 DEF Lists
<1>3. ASSUME NEW e \in S \cup T, NEW f \in S \cup T,
             e.list.owner = f.list.owner, e.page = f.page, e.item = f.item
      PROVE  e = f
  BY <1>2, <1>3 DEF Single
<1> QED BY <1>1, <1>3 DEF Single

\* A page of ESI.
LEMMA SinglePage ==
  ASSUME hangar \in Worlds, NEW l \in Lists, NEW p \in Nat \ {0},
         NEW F \in SUBSET Entries, Single(F), \A e \in F : e.list = l /\ e.page < p
  PROVE  /\ Single(F \cup OnPage(l, p))
         /\ \A e \in F \cup OnPage(l, p) : e.list = l /\ e.page < p + 1
<1> DEFINE O == OnPage(l, p)
<1>1. /\ O \in SUBSET Entries /\ IsFiniteSet(O)
      /\ \A e \in O : e.list = l /\ e.page = p /\ e.parent = hangar[e.item].parent
  BY OnPageEntries
<1> HIDE DEF O
<1>2. IsFiniteSet(F \cup O)
  BY <1>1, FS_Union DEF Single
<1>3. ASSUME NEW e \in O, NEW f \in O, e.item = f.item PROVE e = f
  <2>1. e.list = f.list /\ e.page = f.page /\ e.parent = f.parent
    BY <1>1, <1>3
  <2>2. e \in Entries /\ f \in Entries
    BY <1>1
  <2> QED BY <1>3, <2>1, <2>2 DEF Entries
<1>4. \A e \in F : e.page \in Nat
  BY EntryFields
<1>5. ASSUME NEW e \in F \cup O, NEW f \in F \cup O,
             e.list.owner = f.list.owner, e.page = f.page, e.item = f.item
      PROVE  e = f
  BY <1>1, <1>3, <1>4, <1>5 DEF Single
<1>6. \A e \in F \cup O : e.list = l /\ e.page < p + 1
  BY <1>1, <1>4
<1> QED BY <1>2, <1>5, <1>6 DEF Single, O

LEMMA TypeInvInit == Init => TypeInv
<1> SUFFICES ASSUME Init PROVE TypeInv
  OBVIOUS
<1>1. req = Idle /\ req.phase = "idle" /\ walk = Resting
  BY DEF Init, Idle
<1>2. TypeOK
  BY <1>1, HangarsAreWorlds, BoundsAreNat DEF Init, TypeOK
<1>3. \A l \in Lists : ~cached[l].held
  BY DEF Init, NoList
<1> QED BY <1>1, <1>2, <1>3 DEF TypeInv, ListsInv

\* The list in hand has been got: it joins the others of its kind.
LEMMA GotKeepsLists ==
  ASSUME TypeInv, req.phase = "get", NEW S \in SUBSET Entries, Got(S),
         Single(S), \A e \in S : e.list = Current
  PROVE  /\ Single(req'.assets) /\ \A e \in req'.assets : ~e.list.blueprints
         /\ Single(req'.owned) /\ \A e \in req'.owned : e.list.blueprints
         /\ req'.phase = "get" =>
              /\ Single(req'.fetched) /\ req'.fetched = {}
              /\ Distinct(req'.left)
              /\ \A i \in DOMAIN req'.left : \A e \in req'.assets \cup req'.owned :
                   e.list # req'.left[i]
<1>0. TypeOK /\ ListsInv
  BY DEF TypeInv
<1>1. /\ req \in Busy /\ req.left \in Seq(Lists) /\ req.left # <<>>
      /\ Len(req.left) \in Nat \ {0} /\ DOMAIN req.left = 1..Len(req.left)
      /\ Current = req.left[1] /\ Current \in Lists /\ Current.blueprints \in BOOLEAN
  BY <1>0, InHandFields
<1>2. /\ req'.phase = "get" => req'.left = Tail(req.left)
      /\ req'.fetched = {}
      /\ req'.assets = IF Current.blueprints THEN req.assets ELSE req.assets \cup S
      /\ req'.owned = IF Current.blueprints THEN req.owned \cup S ELSE req.owned
  BY <1>0, GotFields
<1>3. /\ Single(req.assets) /\ \A e \in req.assets : ~e.list.blueprints
      /\ Single(req.owned) /\ \A e \in req.owned : e.list.blueprints
      /\ Distinct(req.left)
      /\ \A i \in DOMAIN req.left : \A e \in req.assets \cup req.owned : e.list # req.left[i]
  BY <1>0 DEF ListsInv
<1>4. req.assets \in SUBSET Entries /\ req.owned \in SUBSET Entries
  BY <1>1 DEF Busy
<1>5. 1 \in DOMAIN req.left
  BY <1>1
<1>6. \A e \in req.assets \cup req.owned : e.list # Current
  BY <1>1, <1>3, <1>5
<1>7. Single(req'.assets) /\ \A e \in req'.assets : ~e.list.blueprints
  <2>1. CASE Current.blueprints
    BY <1>2, <1>3, <2>1
  <2>2. CASE ~Current.blueprints
    <3>1. \A e \in req.assets : e.list # Current /\ e.list.blueprints = Current.blueprints
      <4> SUFFICES ASSUME NEW e \in req.assets
                   PROVE  e.list # Current /\ e.list.blueprints = Current.blueprints
        OBVIOUS
      <4>1. e.list.blueprints \in BOOLEAN /\ ~e.list.blueprints
        BY <1>3, <1>4, EntryFields
      <4> QED BY <1>1, <1>6, <2>2, <4>1
    <3>2. Single(req.assets \cup S)
      BY <1>1, <1>3, <1>4, <3>1, SingleUnion
    <3> QED BY <1>2, <1>3, <2>2, <3>2
  <2> QED BY <2>1, <2>2
<1>8. Single(req'.owned) /\ \A e \in req'.owned : e.list.blueprints
  <2>1. CASE ~Current.blueprints
    BY <1>2, <1>3, <2>1
  <2>2. CASE Current.blueprints
    <3>1. \A e \in req.owned : e.list # Current /\ e.list.blueprints = Current.blueprints
      <4> SUFFICES ASSUME NEW e \in req.owned
                   PROVE  e.list # Current /\ e.list.blueprints = Current.blueprints
        OBVIOUS
      <4>1. e.list.blueprints \in BOOLEAN /\ e.list.blueprints
        BY <1>3, <1>4, EntryFields
      <4> QED BY <1>1, <1>6, <2>2, <4>1
    <3>2. Single(req.owned \cup S)
      BY <1>1, <1>3, <1>4, <3>1, SingleUnion
    <3> QED BY <1>2, <1>3, <2>2, <3>2
  <2> QED BY <2>1, <2>2
<1>9. /\ Len(Tail(req.left)) = Len(req.left) - 1 /\ Tail(req.left) \in Seq(Lists)
      /\ \A i \in 1..(Len(req.left) - 1) : Tail(req.left)[i] = req.left[i + 1]
  BY <1>1, HeadTailProperties
<1>10. DOMAIN Tail(req.left) = 1..(Len(req.left) - 1)
  BY <1>9, LenProperties
<1>11. ASSUME req'.phase = "get", NEW i \in DOMAIN req'.left
       PROVE  /\ i \in Nat /\ i + 1 \in DOMAIN req.left /\ i + 1 # 1
              /\ req'.left[i] = req.left[i + 1]
  <2>1. PICK L : L = Tail(req.left)
    OBVIOUS
  <2>2. req'.left = L
    BY <1>2, <1>11, <2>1
  <2>3. i \in 1..(Len(req.left) - 1)
    BY <1>10, <1>11, <2>1, <2>2
  <2>4. L[i] = req.left[i + 1]
    BY <1>9, <2>1, <2>3
  <2> QED BY <1>1, <2>2, <2>3, <2>4
<1>12. ASSUME req'.phase = "get" PROVE Distinct(req'.left)
  <2> SUFFICES ASSUME NEW i \in DOMAIN req'.left, NEW j \in DOMAIN req'.left,
                      req'.left[i] = req'.left[j]
               PROVE  i = j
    BY DEF Distinct
  <2>1. i + 1 = j + 1
    BY <1>3, <1>11, <1>12 DEF Distinct
  <2> QED BY <1>11, <1>12, <2>1
<1>13. ASSUME req'.phase = "get",
              NEW i \in DOMAIN req'.left, NEW e \in req'.assets \cup req'.owned
       PROVE  e.list # req'.left[i]
  <2>1. i + 1 \in DOMAIN req.left /\ i + 1 # 1 /\ req'.left[i] = req.left[i + 1]
    BY <1>11, <1>13
  <2>2. CASE e \in req.assets \cup req.owned
    BY <1>3, <2>1, <2>2
  <2>3. CASE e \in S
    <3>1. e.list = req.left[1]
      BY <1>1, <2>3
    <3>2. req.left[i + 1] # req.left[1]
      BY <1>3, <1>5, <2>1 DEF Distinct
    <3> QED BY <2>1, <3>1, <3>2
  <2> QED BY <1>2, <2>2, <2>3
<1> QED BY <1>2, <1>7, <1>8, <1>12, <1>13, SingleEmpty

\* What a step that ends a list leaves.
LEMMA GotStep ==
  ASSUME TypeInv, req.phase = "get", NEW S \in SUBSET Entries, Got(S),
         Single(S), \A e \in S : e.list = Current,
         cached' \in [Lists -> {NoList} \cup CachedLists],
         \A l \in Lists : cached'[l].held =>
           Single(cached'[l].entries) /\ \A e \in cached'[l].entries : e.list = l,
         still' \subseteq still, UNCHANGED <<hangar, moves, walk, shown>>
  PROVE  TypeInv'
<1>0. TypeOK /\ ListsInv
  BY DEF TypeInv
<1>1. /\ req' \in Busy /\ req'.page = 1 /\ req'.pages = 0
      /\ req'.phase = "walk" \/ (req'.phase = "get" /\ req'.left # <<>>)
  BY <1>0, GotFields
<1>2. walk = Resting
  BY <1>0 DEF TypeOK
<1>3. TypeOK'
  BY <1>0, <1>1, <1>2 DEF TypeOK
<1>4. ListsInv'
  BY <1>1, GotKeepsLists DEF ListsInv
<1> QED BY <1>3, <1>4 DEF TypeInv

LEMMA TypeHit == TypeInv /\ Hit => TypeInv'
<1> SUFFICES ASSUME TypeInv, Hit PROVE TypeInv'
  OBVIOUS
<1>0. TypeOK /\ ListsInv /\ req.phase = "get" /\ cached[Current].held
  BY DEF TypeInv, Hit
<1>1. Current \in Lists
  BY <1>0, InHandFields
<1>2. PICK S : S = cached[Current].entries
  OBVIOUS
<1>3. S \in SUBSET Entries /\ Single(S) /\ \A e \in S : e.list = Current
  BY <1>0, <1>1, <1>2, CachedFields DEF TypeOK, ListsInv
<1>4. Got(S) /\ UNCHANGED <<hangar, moves, cached, still, walk, shown>>
  BY <1>2 DEF Hit
<1>5. /\ cached' \in [Lists -> {NoList} \cup CachedLists]
      /\ \A l \in Lists : cached'[l].held =>
           Single(cached'[l].entries) /\ \A e \in cached'[l].entries : e.list = l
  BY <1>0, <1>4 DEF TypeOK, ListsInv
<1> QED BY <1>0, <1>3, <1>4, <1>5, GotStep

LEMMA TypeStore == TypeInv /\ Store => TypeInv'
<1> SUFFICES ASSUME TypeInv, Store PROVE TypeInv'
  OBVIOUS
<1>0. TypeOK /\ ListsInv /\ req.phase = "get"
  BY DEF TypeInv, Store
<1>1. Current \in Lists /\ req \in Busy
  BY <1>0, InHandFields
<1>2. PICK S : S = req.fetched
  OBVIOUS
<1>3. S \in SUBSET Entries /\ Single(S) /\ \A e \in S : e.list = Current
  BY <1>0, <1>1, <1>2 DEF Busy, ListsInv
<1>4. /\ Got(S) /\ cached' = [cached EXCEPT ![Current] = Cached(S)]
      /\ UNCHANGED <<hangar, moves, still, walk, shown>>
  BY <1>2 DEF Store
<1>5. Cached(S) \in CachedLists /\ Cached(S).held /\ Cached(S).entries = S
  BY <1>3, CachedIsAList
<1>6. cached' \in [Lists -> {NoList} \cup CachedLists]
  BY <1>0, <1>4, <1>5 DEF TypeOK
<1>7. ASSUME NEW l \in Lists, cached'[l].held
      PROVE  Single(cached'[l].entries) /\ \A e \in cached'[l].entries : e.list = l
  <2>1. CASE l = Current
    <3>1. cached'[l] = Cached(S)
      BY <1>0, <1>4, <2>1 DEF TypeOK
    <3> QED BY <1>3, <1>5, <2>1, <3>1
  <2>2. CASE l # Current
    <3>1. cached'[l] = cached[l]
      BY <1>0, <1>4, <2>2 DEF TypeOK
    <3> QED BY <1>0, <1>7, <3>1 DEF ListsInv
  <2> QED BY <2>1, <2>2
<1> QED BY <1>0, <1>3, <1>4, <1>6, <1>7, GotStep

LEMMA TypeForbidden == TypeInv /\ Forbidden => TypeInv'
<1> SUFFICES ASSUME TypeInv, Forbidden PROVE TypeInv'
  OBVIOUS
<1>0. TypeOK /\ ListsInv /\ req.phase = "get"
  BY DEF TypeInv, Forbidden, Missing
<1>1. /\ Got({}) /\ still' \subseteq still
      /\ UNCHANGED <<hangar, moves, cached, walk, shown>>
  BY DEF Forbidden, Forget
<1>2. /\ cached' \in [Lists -> {NoList} \cup CachedLists]
      /\ \A l \in Lists : cached'[l].held =>
           Single(cached'[l].entries) /\ \A e \in cached'[l].entries : e.list = l
  BY <1>0, <1>1 DEF TypeOK, ListsInv
<1>3. PICK S : S = {}
  OBVIOUS
<1>4. S \in SUBSET Entries /\ Single(S) /\ (\A e \in S : e.list = Current) /\ Got(S)
  BY <1>1, <1>3, SingleEmpty
<1> QED BY <1>0, <1>1, <1>2, <1>4, GotStep

LEMMA TypeFetchFirst == TypeInv /\ FetchFirst => TypeInv'
<1> SUFFICES ASSUME TypeInv, FetchFirst PROVE TypeInv'
  OBVIOUS
<1>0. TypeOK /\ ListsInv /\ req.phase = "get" /\ still' = still \cup {Current}
      /\ UNCHANGED <<hangar, moves, cached, walk, shown>>
  BY DEF TypeInv, FetchFirst
<1>1. Current \in Lists /\ req.left # <<>>
  BY <1>0, InHandFields
<1>2. /\ req' \in Busy /\ req'.phase = "get" /\ req'.left = req.left
      /\ req'.assets = req.assets /\ req'.owned = req.owned
      /\ req'.fetched = OnPage(Current, 1) /\ req'.pages = Pages(Current) /\ req'.page = 2
  BY <1>0, FetchFirstFields
<1>3. Pages(Current) \in Nat \ {0}
  BY <1>1, PageExists
<1>4. walk = Resting
  BY <1>0 DEF TypeOK
<1>5. req'.left # <<>> /\ req'.page <= req'.pages + 1
  BY <1>1, <1>2, <1>3
<1>6. TypeOK'
  BY <1>0, <1>1, <1>2, <1>4, <1>5 DEF TypeOK
<1>7. /\ Single({} \cup OnPage(Current, 1))
      /\ \A e \in {} \cup OnPage(Current, 1) : e.list = Current /\ e.page < 1 + 1
  <2>1. PICK F : F = {}
    OBVIOUS
  <2>2. F \in SUBSET Entries /\ Single(F) /\ \A e \in F : e.list = Current /\ e.page < 1
    BY <2>1, SingleEmpty
  <2>3. 1 \in Nat \ {0}
    OBVIOUS
  <2> QED BY <1>0, <1>1, <2>1, <2>2, <2>3, SinglePage DEF TypeOK
<1>8. Current' = Current
  BY <1>2 DEF Current
<1>9. Single(req'.fetched) /\ \A e \in req'.fetched : e.list = Current' /\ e.page < req'.page
  BY <1>2, <1>7, <1>8
<1>10. ListsInv'
  BY <1>0, <1>2, <1>9 DEF ListsInv
<1> QED BY <1>6, <1>10 DEF TypeInv

LEMMA TypeFetchNext == TypeInv /\ FetchNext => TypeInv'
<1> SUFFICES ASSUME TypeInv, FetchNext PROVE TypeInv'
  OBVIOUS
<1>0. TypeOK /\ ListsInv /\ req.phase = "get" /\ req.pages > 0 /\ req.page <= req.pages
      /\ UNCHANGED <<hangar, moves, cached, still, walk, shown>>
  BY DEF TypeInv, FetchNext
<1>1. Current \in Lists /\ req.left # <<>> /\ req \in Busy
  BY <1>0, InHandFields
<1>2. /\ req' \in Busy /\ req'.phase = "get" /\ req'.left = req.left
      /\ req'.assets = req.assets /\ req'.owned = req.owned
      /\ req'.fetched = req.fetched \cup OnPage(Current, req.page)
      /\ req'.pages = req.pages /\ req'.page = req.page + 1
  BY <1>0, FetchNextFields
<1>3. req.page \in Nat \ {0} /\ req.pages \in Nat /\ req.fetched \in SUBSET Entries
  BY <1>1 DEF Busy
<1>4. walk = Resting
  BY <1>0 DEF TypeOK
<1>5. req'.left # <<>> /\ req'.page <= req'.pages + 1
  BY <1>0, <1>1, <1>2, <1>3
<1>6. TypeOK'
  BY <1>0, <1>1, <1>2, <1>4, <1>5 DEF TypeOK
<1>7. Single(req.fetched) /\ \A e \in req.fetched : e.list = Current /\ e.page < req.page
  BY <1>0 DEF ListsInv
<1>8. PICK p, F : p = req.page /\ F = req.fetched
  OBVIOUS
<1>9. Single(F \cup OnPage(Current, p))
      /\ \A e \in F \cup OnPage(Current, p) : e.list = Current /\ e.page < p + 1
  <2>1. hangar \in Worlds /\ Current \in Lists
    BY <1>0, <1>1 DEF TypeOK
  <2>2. /\ p \in Nat \ {0} /\ F \in SUBSET Entries /\ Single(F)
        /\ \A e \in F : e.list = Current /\ e.page < p
    BY <1>3, <1>7, <1>8
  <2> QED BY <2>1, <2>2, SinglePage
<1>10. Current' = Current
  BY <1>2 DEF Current
<1>11. Single(req'.fetched) /\ \A e \in req'.fetched : e.list = Current' /\ e.page < req'.page
  BY <1>2, <1>8, <1>9, <1>10
<1>12. ListsInv'
  BY <1>0, <1>2, <1>11 DEF ListsInv
<1> QED BY <1>6, <1>12 DEF TypeInv

\* The request gets no list: what is in the lists stays.
LEMMA ListsStay ==
  ASSUME ListsInv, UNCHANGED cached,
         \/ req'.phase = "idle"
         \/ /\ req.phase \in {"walk", "done"} /\ req'.phase \in {"walk", "done"}
            /\ req'.assets = req.assets /\ req'.owned = req.owned
         \/ req' = req
  PROVE  ListsInv'
<1>1. CASE req'.phase = "idle"
  BY <1>1 DEF ListsInv
<1>2. CASE /\ req.phase \in {"walk", "done"} /\ req'.phase \in {"walk", "done"}
           /\ req'.assets = req.assets /\ req'.owned = req.owned
  BY <1>2 DEF ListsInv
<1>3. CASE req' = req
  BY <1>3 DEF ListsInv, Current
<1> QED BY <1>1, <1>2, <1>3

LEMMA IdleFields == Idle.phase = "idle" /\ Idle \notin Busy
<1>1. Idle.phase = "idle"
  BY DEF Idle
<1>2. \A q \in Busy : q.phase # "idle"
  BY DEF Busy
<1> QED BY <1>1, <1>2

LEMMA TypeOpen ==
  ASSUME TypeInv, NEW b \in BOOLEAN, NEW c \in BOOLEAN, Open(b, c)
  PROVE  TypeInv'
<1>0. TypeOK /\ ListsInv /\ req = Idle
  BY DEF TypeInv, Open
<1>1. /\ req' \in Busy /\ req'.phase = "get"
      /\ req'.left # <<>> /\ Distinct(req'.left)
      /\ req'.page = 1 /\ req'.pages = 0 /\ req'.fetched = {} /\ req'.assets = {}
      /\ req'.owned = {}
      /\ UNCHANGED <<hangar, moves, cached, still, walk, shown>>
  BY OpenFields
<1>2. walk = Resting
  BY <1>0, IdleFields DEF TypeOK
<1>3. TypeOK'
  BY <1>0, <1>1, <1>2 DEF TypeOK
<1>4. ListsInv'
  BY <1>0, <1>1, SingleEmpty DEF ListsInv
<1> QED BY <1>3, <1>4 DEF TypeInv

LEMMA TypeLeave ==
  ASSUME TypeInv, req' = Idle, walk = Resting,
         shown' \subseteq shown, still' \subseteq still,
         UNCHANGED <<hangar, moves, cached, walk>>
  PROVE  TypeInv'
<1>0. TypeOK /\ ListsInv
  BY DEF TypeInv
<1>1. req'.phase = "idle"
  BY IdleFields
<1>2. TypeOK'
  BY <1>0, <1>1 DEF TypeOK
<1> QED BY <1>0, <1>1, <1>2, ListsStay DEF TypeInv

LEMMA TypeFetchFails == TypeInv /\ FetchFails => TypeInv'
<1> SUFFICES ASSUME TypeInv, FetchFails PROVE TypeInv'
  OBVIOUS
<1>1. walk = Resting
  BY DEF TypeInv, TypeOK, FetchFails, Missing
<1> QED BY <1>1, TypeLeave DEF FetchFails, Forget

LEMMA TypeClose == TypeInv /\ Close => TypeInv'
<1> SUFFICES ASSUME TypeInv, Close PROVE TypeInv'
  OBVIOUS
<1>1. walk = Resting
  BY DEF TypeInv, TypeOK, Close
<1> QED BY <1>1, TypeLeave DEF Close

LEMMA TypeBegin == TypeInv /\ Begin => TypeInv'
<1> SUFFICES ASSUME TypeInv, Begin PROVE TypeInv'
  OBVIOUS
<1>0. TypeOK /\ ListsInv /\ UNCHANGED <<hangar, moves, cached, still, req, shown>>
  BY DEF TypeInv, Begin
<1>1. req.phase = "walk" /\ walk' \in Walking /\ walk'.visited = {}
  BY <1>0, BeginFields
<1>2. TypeOK'
  BY <1>0, <1>1 DEF TypeOK
<1> QED BY <1>0, <1>2, ListsStay DEF TypeInv

LEMMA TypeAscend == TypeInv /\ Ascend => TypeInv'
<1> SUFFICES ASSUME TypeInv, Ascend PROVE TypeInv'
  OBVIOUS
<1>0. TypeOK /\ ListsInv /\ UNCHANGED <<hangar, moves, cached, still, req, shown>>
  BY DEF TypeInv, Ascend
<1>1. /\ req.phase = "walk" /\ walk # Resting /\ walk' \in Walking
      /\ walk.current \in Ids /\ walk'.visited = walk.visited \cup {walk.current}
  BY <1>0, AscendFields
<1>2. walk'.visited \subseteq Ids' /\ Ids' = Ids
  BY <1>0, <1>1 DEF TypeOK, Ids
<1>3. TypeOK'
  BY <1>0, <1>1, <1>2 DEF TypeOK
<1> QED BY <1>0, <1>3, ListsStay DEF TypeInv

\* What a walk arrives at.
LEMMA ArriveFields ==
  ASSUME TypeInv, Arrive
  PROVE  /\ req.phase = "walk" /\ walk # Resting /\ walk' = Resting
         /\ UNCHANGED <<hangar, moves, cached, still, req>>
         /\ walk.of \in Entries
         /\ \E p \in Places :
              /\ shown' = shown \cup {[entry |-> walk.of, location |-> p]}
              /\ \/ /\ walk.current \in Ids \ walk.visited
                    /\ p = Container(walk.current) /\ p \in Stations
                 \/ /\ walk.current \notin Ids \ walk.visited
                    /\ p = walk.current
<1>0. TypeOK /\ ListsInv
  BY DEF TypeInv
<1>1. req.phase = "walk" /\ walk # Resting /\ walk' = Resting /\ req \in Busy
      /\ UNCHANGED <<hangar, moves, cached, still, req>>
  BY <1>0, RequestFields DEF TypeOK, Arrive
<1>2. walk.of \in Entries /\ walk.current \in Places
  BY <1>0, <1>1, WalkFields DEF TypeOK
<1>3. CASE Known
  <2>1. walk.current \in Ids \ walk.visited
    BY <1>3 DEF Known
  <2>2. Single(req.assets) /\ req.assets \in SUBSET Entries
    BY <1>0, <1>1 DEF ListsInv, Busy
  <2>3. PICK p : p = Container(walk.current)
    OBVIOUS
  <2>4. p \in Places /\ p \notin Items
    BY <1>3, <2>1, <2>2, <2>3, ByIdIsAnEntry DEF Arrive
  <2>5. shown' = shown \cup {[entry |-> walk.of, location |-> p]}
    BY <1>3, <2>3 DEF Arrive
  <2> QED BY <1>1, <1>2, <2>1, <2>3, <2>4, <2>5 DEF Places
<1>4. CASE ~Known
  <2>1. walk.current \notin Ids \ walk.visited
    BY <1>4 DEF Known
  <2>2. shown' = shown \cup {[entry |-> walk.of, location |-> walk.current]}
    BY <1>4 DEF Arrive
  <2> QED BY <1>1, <1>2, <2>1, <2>2
<1> QED BY <1>3, <1>4

LEMMA TypeArrive == TypeInv /\ Arrive => TypeInv'
<1> SUFFICES ASSUME TypeInv, Arrive PROVE TypeInv'
  OBVIOUS
<1>0. TypeOK /\ ListsInv
  BY DEF TypeInv
<1>1. /\ walk' = Resting /\ UNCHANGED <<hangar, moves, cached, still, req>>
      /\ walk.of \in Entries
  BY ArriveFields
<1>2. PICK p \in Places : shown' = shown \cup {[entry |-> walk.of, location |-> p]}
  BY ArriveFields
<1>3. shown' \subseteq [entry : Entries, location : Places]
  BY <1>0, <1>1, <1>2 DEF TypeOK
<1>4. TypeOK'
  BY <1>0, <1>1, <1>3 DEF TypeOK
<1> QED BY <1>0, <1>1, <1>4, ListsStay DEF TypeInv

LEMMA TypeResolved == TypeInv /\ Resolved => TypeInv'
<1> SUFFICES ASSUME TypeInv, Resolved PROVE TypeInv'
  OBVIOUS
<1>0. /\ TypeOK /\ ListsInv /\ req.phase = "walk" /\ walk = Resting
      /\ UNCHANGED <<hangar, moves, cached, still, walk, shown>>
  BY DEF TypeInv, Resolved
<1>1. /\ req' \in Busy /\ req'.phase = "done" /\ req'.assets = req.assets
      /\ req'.owned = req.owned
  BY <1>0, ResolvedFields
<1>2. TypeOK'
  BY <1>0, <1>1 DEF TypeOK
<1> QED BY <1>0, <1>1, <1>2, ListsStay DEF TypeInv

LEMMA TypeMove ==
  ASSUME TypeInv, NEW i \in Items, NEW p \in Places, NEW o \in Owners, Move(i, p, o)
  PROVE  TypeInv'
<1>0. /\ TypeOK /\ ListsInv /\ hangar' \in Worlds /\ moves < MaxMoves /\ moves' = moves + 1
      /\ still' = {} /\ UNCHANGED <<cached, req, walk, shown>>
  BY DEF TypeInv, Move
<1>1. moves' \in 0..MaxMoves
  BY <1>0, BoundsAreNat DEF TypeOK
<1>2. Ids' = Ids
  BY <1>0 DEF Ids
<1>3. TypeOK'
  BY <1>0, <1>1, <1>2 DEF TypeOK
<1> QED BY <1>0, <1>3, ListsStay DEF TypeInv

LEMMA TypeExpire ==
  ASSUME TypeInv, NEW l \in Lists, Expire(l)
  PROVE  TypeInv'
<1>0. /\ TypeOK /\ ListsInv /\ req = Idle /\ cached' = [cached EXCEPT ![l] = NoList]
      /\ still' \subseteq still /\ UNCHANGED <<hangar, moves, req, walk, shown>>
  BY DEF TypeInv, Expire, Forget
<1>1. req.phase = "idle" /\ walk = Resting
  BY <1>0, IdleFields DEF TypeOK
<1>2. TypeOK'
  BY <1>0, <1>1 DEF TypeOK
<1>3. \A m \in Lists : cached'[m].held => cached'[m] = cached[m] /\ cached[m].held
  <2>1. NoList.held = FALSE
    BY DEF NoList
  <2> QED BY <1>0, <2>1 DEF TypeOK
<1>4. ListsInv'
  BY <1>0, <1>1, <1>3 DEF ListsInv
<1> QED BY <1>2, <1>4 DEF TypeInv

LEMMA TypeStep == TypeInv /\ [Next]_vars => TypeInv'
<1> SUFFICES ASSUME TypeInv, [Next]_vars PROVE TypeInv'
  OBVIOUS
<1>1. CASE UNCHANGED vars
  BY <1>1 DEF TypeInv, TypeOK, ListsInv, Current, Ids, vars
<1> QED BY <1>1, TypeOpen, TypeHit, TypeFetchFirst, TypeFetchNext, TypeFetchFails, TypeStore,
           TypeForbidden, TypeBegin, TypeAscend, TypeArrive, TypeResolved, TypeClose, TypeMove,
           TypeExpire DEF Next, PageStep, Getting, Resolving

\* The asset pages are well typed: a walk never passes a container twice or one the
\* page does not know, and ESI is asked for no page beyond the count of page 1.
THEOREM AssetTypeCorrect == Spec => []TypeOK
<1>1. TypeInv => TypeOK
  BY DEF TypeInv
<1> QED BY TypeInvInit, TypeStep, <1>1, PTL DEF Spec

-----------------------------------------------------------------------------
(* The asset pages: no known container is taken for a station *)

\* The walks of a page are over its own entries, one each, and what a walk has
\* passed lies, by the lists, in what it has passed or has come to.
WalkInv ==
  /\ req.phase \in {"idle", "get"} => shown = {} /\ walk = Resting
  /\ walk # Resting =>
       /\ walk.of \in Subjects /\ \A r \in shown : r.entry # walk.of
       /\ \A i \in walk.visited : Container(i) \in walk.visited \cup {walk.current}
  /\ \A r \in shown : r.entry \in Subjects
  /\ \A r, s \in shown : r.entry = s.entry => r = s

Circle(S) == S \subseteq Ids /\ \A i \in S : Container(i) \in S

LEMMA WalkInvInit == Init => WalkInv /\ NeverAKnownContainer
BY DEF Init, WalkInv, NeverAKnownContainer

\* What the page knows is what its lists said.
LEMMA SameRequest ==
  ASSUME req' = req
  PROVE  /\ Ids' = Ids /\ Subjects' = Subjects
         /\ \A i : Container(i)' = Container(i)
BY DEF Ids, Subjects, Container, ById

LEMMA WalkStep ==
  ASSUME TypeInv, WalkInv, NeverAKnownContainer, [Next]_vars
  PROVE  WalkInv' /\ NeverAKnownContainer'
<1>0. TypeOK /\ ListsInv
  BY DEF TypeInv
<1>1. ASSUME req' = req, UNCHANGED <<walk, shown>>
      PROVE  WalkInv' /\ NeverAKnownContainer'
  BY <1>1, SameRequest DEF WalkInv, NeverAKnownContainer
<1>2. ASSUME shown' = {}, walk' = Resting PROVE WalkInv' /\ NeverAKnownContainer'
  BY <1>2 DEF WalkInv, NeverAKnownContainer
<1>3. ASSUME req.phase \in {"idle", "get"}, UNCHANGED <<walk, shown>>
      PROVE  WalkInv' /\ NeverAKnownContainer'
  BY <1>2, <1>3 DEF WalkInv
<1>4. ASSUME Begin PROVE WalkInv' /\ NeverAKnownContainer'
  <2>1. /\ req.phase = "walk" /\ req' = req /\ shown' = shown /\ walk' \in Walking
        /\ \E e \in Unresolved : walk'.of = e /\ walk'.visited = {}
    BY <1>0, <1>4, BeginFields DEF Begin
  <2>2. walk'.of \in Subjects /\ \A r \in shown : r.entry # walk'.of
    BY <2>1 DEF Unresolved
  <2>3. WalkInv'
    BY <2>1, <2>2, SameRequest DEF WalkInv
  <2>4. NeverAKnownContainer'
    BY <2>1, SameRequest DEF NeverAKnownContainer
  <2> QED BY <2>3, <2>4
<1>5. ASSUME Ascend PROVE WalkInv' /\ NeverAKnownContainer'
  <2>1. /\ req.phase = "walk" /\ walk # Resting /\ walk'.of = walk.of
        /\ walk'.current = Container(walk.current)
        /\ walk'.visited = walk.visited \cup {walk.current}
        /\ req' = req /\ shown' = shown
    BY <1>0, <1>5, AscendFields DEF Ascend
  <2>2. \A i \in walk'.visited : Container(i) \in walk'.visited \cup {walk'.current}
    BY <2>1 DEF WalkInv
  <2>3. WalkInv'
    BY <2>1, <2>2, SameRequest DEF WalkInv
  <2>4. NeverAKnownContainer'
    BY <2>1, SameRequest DEF NeverAKnownContainer
  <2> QED BY <2>3, <2>4
<1>6. ASSUME Arrive PROVE WalkInv' /\ NeverAKnownContainer'
  <2>1. /\ req.phase = "walk" /\ walk # Resting /\ walk' = Resting /\ req' = req
        /\ walk.of \in Entries
    BY <1>6, ArriveFields
  <2>2. PICK p \in Places :
          /\ shown' = shown \cup {[entry |-> walk.of, location |-> p]}
          /\ \/ walk.current \in Ids \ walk.visited /\ p \in Stations
             \/ walk.current \notin Ids \ walk.visited /\ p = walk.current
    BY <1>6, ArriveFields
  <2>3. PICK n : n = [entry |-> walk.of, location |-> p]
    OBVIOUS
  <2>4. n.entry = walk.of /\ n.location = p /\ shown' = shown \cup {n}
    BY <2>2, <2>3
  <2>5. WalkInv'
    BY <2>1, <2>4, SameRequest DEF WalkInv
  <2>6. Ids \subseteq Items /\ walk.visited \subseteq Ids
    BY <1>0, <2>1, RequestFields, EntryFields DEF TypeOK, Ids
  <2>7. p \in Ids => p \in walk.visited /\ p = walk.current
    BY <2>2, <2>6, StationsApart
  <2>8. p \in Ids => Circle(walk.visited) /\ p \in walk.visited
    BY <2>1, <2>6, <2>7 DEF Circle, WalkInv
  <2>9. \A r \in shown' : r.location \in Ids => \E S \in SUBSET Ids : r.location \in S /\ Circle(S)
    BY <2>4, <2>6, <2>8 DEF NeverAKnownContainer, Circle
  <2>10. NeverAKnownContainer'
    <3> SUFFICES ASSUME NEW r \in shown', r.location \in Ids
                 PROVE  \E S \in SUBSET Ids : r.location \in S /\ \A i \in S : Container(i) \in S
      BY <2>1, SameRequest DEF NeverAKnownContainer
    <3> QED BY <2>9 DEF Circle
  <2> QED BY <2>5, <2>10
<1>7. ASSUME Resolved PROVE WalkInv' /\ NeverAKnownContainer'
  <2>1. /\ req'.phase = "done" /\ req'.assets = req.assets /\ req'.owned = req.owned
        /\ req'.blueprints = req.blueprints /\ walk' = walk /\ shown' = shown /\ walk = Resting
    BY <1>0, <1>7, ResolvedFields DEF Resolved
  <2>2. Ids' = Ids /\ Subjects' = Subjects /\ \A i : Container(i)' = Container(i)
    BY <2>1 DEF Ids, Subjects, Container, ById
  <2> QED BY <2>1, <2>2 DEF WalkInv, NeverAKnownContainer
<1>8. ASSUME Close PROVE WalkInv' /\ NeverAKnownContainer'
  <2>1. walk = Resting
    BY <1>0, <1>8 DEF TypeOK, Close
  <2> QED BY <1>2, <1>8, <2>1 DEF Close
<1>9. ASSUME Getting PROVE WalkInv' /\ NeverAKnownContainer'
  BY <1>3, <1>9 DEF Getting, Hit, FetchFirst, FetchNext, FetchFails, Missing, Store, Forbidden
<1>10. ASSUME NEW b \in BOOLEAN, NEW c \in BOOLEAN, Open(b, c)
       PROVE  WalkInv' /\ NeverAKnownContainer'
  BY <1>3, <1>10, IdleFields DEF Open
<1>11. ASSUME NEW i \in Items, NEW p \in Places, NEW o \in Owners, Move(i, p, o)
       PROVE  WalkInv' /\ NeverAKnownContainer'
  BY <1>1, <1>11 DEF Move
<1>12. ASSUME NEW l \in Lists, Expire(l) PROVE WalkInv' /\ NeverAKnownContainer'
  BY <1>1, <1>12 DEF Expire
<1>13. CASE UNCHANGED vars
  BY <1>1, <1>13 DEF vars
<1> QED BY <1>4, <1>5, <1>6, <1>7, <1>8, <1>9, <1>10, <1>11, <1>12, <1>13
        DEF Next, PageStep, Resolving

\* However old and torn its lists are, a page shows an item at one of their items
\* only if they put that in a circle of containers (resolve_container_chain).
THEOREM ContainersAreNoStations == Spec => []NeverAKnownContainer
<1> DEFINE Inv == TypeInv /\ WalkInv /\ NeverAKnownContainer
<1>1. Init => Inv
  BY TypeInvInit, WalkInvInit
<1>2. Inv /\ [Next]_vars => Inv'
  BY TypeStep, WalkStep
<1>3. Inv => NeverAKnownContainer
  OBVIOUS
<1> QED BY <1>1, <1>2, <1>3, PTL DEF Spec

-----------------------------------------------------------------------------
(* The asset pages: lists fetched since the last move *)

\* An entry says where its item is, and is on its page.
EntryTrue(e) ==
  /\ e.item \in Listed(e.list) /\ e.page = PageOf(e.list, e.item)
  /\ e.parent = hangar[e.item].parent

Complete(S, l) ==
  /\ \A e \in S : e.list = l => EntryTrue(e)
  /\ \A i \in Listed(l) : \E e \in S : e.list = l /\ e.item = i

\* A list fetched since the last move is as the hangar in the cache, page by page
\* while it is fetched, and in a page that has it.
StillInv ==
  \A l \in still :
    /\ cached[l].held => Complete(cached[l].entries, l)
    /\ req.phase = "get" /\ l = Current /\ req.pages > 0 =>
         /\ req.pages = Pages(l)
         /\ \A e \in req.fetched : EntryTrue(e)
         /\ \A i \in Listed(l) : PageOf(l, i) < req.page => \E e \in req.fetched : e.item = i
    /\ req.phase # "idle" =>
         \/ \A e \in req.assets \cup req.owned : e.list # l
         \/ Complete(req.assets \cup req.owned, l)

\* Nothing is moved by a step of the program.
LEMMA SameHangar ==
  ASSUME hangar' = hangar
  PROVE  /\ \A e : EntryTrue(e)' <=> EntryTrue(e)
         /\ \A S, l : Complete(S, l)' <=> Complete(S, l)
         /\ \A l : Pages(l)' = Pages(l) /\ Listed(l)' = Listed(l)
         /\ \A l, i : PageOf(l, i)' = PageOf(l, i)
BY DEF EntryTrue, Complete, Pages, Listed, PageOf

\* The entries of a list a page did not have yet are all it has of it.
LEMMA CompleteUnion ==
  ASSUME NEW l, NEW S, NEW T, \A e \in S : e.list # l, Complete(T, l)
  PROVE  Complete(S \cup T, l)
<1>1. \A e \in S \cup T : e.list = l => EntryTrue(e)
  BY DEF Complete
<1>2. \A i \in Listed(l) : \E e \in S \cup T : e.list = l /\ e.item = i
  BY DEF Complete
<1> QED BY <1>1, <1>2 DEF Complete

LEMMA CompleteAnyway ==
  ASSUME NEW l, NEW S, NEW T, \A e \in T : e.list # l, Complete(S, l)
  PROVE  Complete(S \cup T, l)
<1>1. \A e \in S \cup T : e.list = l => EntryTrue(e)
  BY DEF Complete
<1>2. \A i \in Listed(l) : \E e \in S \cup T : e.list = l /\ e.item = i
  BY DEF Complete
<1> QED BY <1>1, <1>2 DEF Complete

LEMMA StillGot ==
  ASSUME TypeInv, StillInv, req.phase = "get", NEW S \in SUBSET Entries, Got(S),
         \A e \in S : e.list = Current,
         S = {} \/ (Current \in still => Complete(S, Current)),
         still' \subseteq still, UNCHANGED hangar,
         \A l \in still' : cached'[l].held => Complete(cached'[l].entries, l)
  PROVE  StillInv'
<1>0. TypeOK /\ ListsInv /\ req \in Busy /\ Current \in Lists
  BY InHandFields DEF TypeInv
<1>1. /\ req'.pages = 0
      /\ req'.assets = IF Current.blueprints THEN req.assets ELSE req.assets \cup S
      /\ req'.owned = IF Current.blueprints THEN req.owned \cup S ELSE req.owned
  BY <1>0, GotFields
<1>2. PICK R, Q : R = req.assets \cup req.owned /\ Q = req'.assets \cup req'.owned
  OBVIOUS
<1>3. Q = R \cup S
  BY <1>1, <1>2
<1>4. \A e \in R : e.list # Current
  <2>1. 1 \in DOMAIN req.left /\ Current = req.left[1]
    BY <1>0, InHandFields
  <2> QED BY <1>0, <1>2, <2>1 DEF ListsInv
<1>5. ASSUME NEW l \in still
      PROVE  (\A e \in Q : e.list # l) \/ Complete(Q, l)
  <2>1. (\A e \in R : e.list # l) \/ Complete(R, l)
    BY <1>0, <1>2, RequestFields DEF StillInv, TypeOK
  <2>2. CASE l = Current
    <3>1. CASE S = {}
      BY <1>3, <1>4, <2>2, <3>1
    <3>2. CASE S # {}
      BY <1>3, <1>4, <2>2, <3>2, CompleteUnion
    <3> QED BY <3>1, <3>2
  <2>3. CASE l # Current
    <3>1. \A e \in S : e.list # l
      BY <2>3
    <3>2. CASE \A e \in R : e.list # l
      BY <1>3, <3>1, <3>2
    <3>3. CASE Complete(R, l)
      BY <1>3, <3>1, <3>3, CompleteAnyway
    <3> QED BY <2>1, <3>2, <3>3
  <2> QED BY <2>2, <2>3
<1>6. ~(req'.pages > 0)
  BY <1>1
<1>7. PICK C : C = cached'
  OBVIOUS
<1>8. ASSUME NEW l \in still'
      PROVE  /\ C[l].held => Complete(C[l].entries, l)'
             /\ (\A e \in Q : e.list # l) \/ Complete(Q, l)'
  <2>1. /\ Complete(C[l].entries, l)' <=> Complete(C[l].entries, l)
        /\ Complete(Q, l)' <=> Complete(Q, l)
    BY SameHangar
  <2> QED BY <1>5, <1>7, <2>1
<1> QED BY <1>2, <1>6, <1>7, <1>8 DEF StillInv, Complete

LEMMA StillHit == TypeInv /\ StillInv /\ Hit => StillInv'
<1> SUFFICES ASSUME TypeInv, StillInv, Hit PROVE StillInv'
  OBVIOUS
<1>0. TypeOK /\ ListsInv /\ req.phase = "get" /\ cached[Current].held /\ Current \in Lists
  BY InHandFields DEF TypeInv, Hit
<1>1. PICK S : S = cached[Current].entries
  OBVIOUS
<1>2. S \in SUBSET Entries /\ (\A e \in S : e.list = Current)
      /\ (Current \in still => Complete(S, Current))
  BY <1>0, <1>1, CachedFields DEF TypeOK, ListsInv, StillInv
<1>3. Got(S) /\ UNCHANGED <<hangar, cached, still>>
  BY <1>1 DEF Hit
<1>4. \A l \in still : cached'[l].held => Complete(cached'[l].entries, l)
  BY <1>3 DEF StillInv
<1> QED BY <1>0, <1>2, <1>3, <1>4, StillGot

\* Every page was read.
LEMMA StillStore == TypeInv /\ StillInv /\ Store => StillInv'
<1> SUFFICES ASSUME TypeInv, StillInv, Store PROVE StillInv'
  OBVIOUS
<1>0. TypeOK /\ ListsInv /\ req.phase = "get" /\ req.pages > 0 /\ req.page > req.pages
      /\ Current \in Lists /\ req \in Busy
  BY InHandFields DEF TypeInv, Store
<1>1. PICK S : S = req.fetched
  OBVIOUS
<1>2. /\ Got(S) /\ cached' = [cached EXCEPT ![Current] = Cached(S)]
      /\ UNCHANGED <<hangar, still>>
  BY <1>1 DEF Store
<1>3. S \in SUBSET Entries /\ \A e \in S : e.list = Current
  BY <1>0, <1>1 DEF Busy, ListsInv
<1>4. ASSUME Current \in still PROVE Complete(S, Current)
  <2>1. /\ req.pages = Pages(Current)
        /\ \A e \in S : EntryTrue(e)
        /\ \A i \in Listed(Current) : PageOf(Current, i) < req.page => \E e \in S : e.item = i
    BY <1>0, <1>1, <1>4 DEF StillInv
  <2>2. \A i \in Listed(Current) : PageOf(Current, i) < req.page
    <3> SUFFICES ASSUME NEW i \in Listed(Current) PROVE PageOf(Current, i) < req.page
      OBVIOUS
    <3>1. PageOf(Current, i) \in 1..Pages(Current) /\ Pages(Current) \in Nat
      BY <1>0, PageExists
    <3>2. req.page \in Nat
      BY <1>0 DEF Busy
    <3> QED BY <1>0, <2>1, <3>1, <3>2
  <2> QED BY <1>3, <2>1, <2>2 DEF Complete
<1>5. Cached(S).held /\ Cached(S).entries = S
  BY <1>3, CachedIsAList
<1>6. ASSUME NEW l \in still, cached'[l].held
      PROVE  Complete(cached'[l].entries, l)
  <2>0. l \in Lists
    BY <1>0 DEF TypeOK
  <2>1. CASE l = Current
    <3>1. cached'[l].entries = S
      BY <1>0, <1>2, <1>5, <2>0, <2>1 DEF TypeOK
    <3> QED BY <1>4, <1>6, <2>1, <3>1
  <2>2. CASE l # Current
    <3>1. cached'[l] = cached[l]
      BY <1>0, <1>2, <2>0, <2>2 DEF TypeOK
    <3> QED BY <1>6, <3>1 DEF StillInv
  <2> QED BY <2>1, <2>2
<1> QED BY <1>0, <1>2, <1>3, <1>4, <1>6, StillGot

LEMMA StillForbidden == TypeInv /\ StillInv /\ Forbidden => StillInv'
<1> SUFFICES ASSUME TypeInv, StillInv, Forbidden PROVE StillInv'
  OBVIOUS
<1>1. PICK S : S = {}
  OBVIOUS
<1>2. /\ req.phase = "get" /\ Got(S) /\ still' \subseteq still
      /\ UNCHANGED <<hangar, cached>>
  BY <1>1 DEF Forbidden, Missing, Forget
<1>3. \A l \in still' : cached'[l].held => Complete(cached'[l].entries, l)
  BY <1>2 DEF StillInv
<1>4. S \in SUBSET Entries /\ \A e \in S : e.list = Current
  BY <1>1
<1> QED BY <1>1, <1>2, <1>3, <1>4, StillGot

LEMMA StillFetchFirst == TypeInv /\ StillInv /\ FetchFirst => StillInv'
<1> SUFFICES ASSUME TypeInv, StillInv, FetchFirst PROVE StillInv'
  OBVIOUS
<1>0. /\ TypeOK /\ ListsInv /\ req.phase = "get" /\ ~cached[Current].held
      /\ still' = still \cup {Current} /\ UNCHANGED <<hangar, cached>>
      /\ Current \in Lists /\ req \in Busy
  BY InHandFields DEF TypeInv, FetchFirst
<1>1. /\ req'.phase = "get" /\ req'.left = req.left
      /\ req'.assets = req.assets /\ req'.owned = req.owned
      /\ req'.fetched = OnPage(Current, 1) /\ req'.pages = Pages(Current) /\ req'.page = 2
  BY <1>0, FetchFirstFields
<1>2. Current' = Current
  BY <1>1 DEF Current
<1>3. \A e \in req.assets \cup req.owned : e.list # Current
  <2>1. 1 \in DOMAIN req.left /\ Current = req.left[1]
    BY <1>0, InHandFields
  <2> QED BY <1>0, <2>1 DEF ListsInv
<1>4. 1 \in Nat \ {0}
  OBVIOUS
<1>5. /\ \A e \in OnPage(Current, 1) :
           /\ e.list = Current /\ e.page = 1 /\ e.item \in Listed(Current)
           /\ PageOf(Current, e.item) = 1 /\ e.parent = hangar[e.item].parent
      /\ \A i \in Listed(Current) : PageOf(Current, i) = 1 =>
           \E e \in OnPage(Current, 1) : e.item = i
  BY <1>0, <1>4, OnPageEntries DEF TypeOK
<1>6. \A e \in req'.fetched : EntryTrue(e)
  BY <1>1, <1>5 DEF EntryTrue
<1>7. \A i \in Listed(Current) : PageOf(Current, i) < 2 => \E e \in req'.fetched : e.item = i
  <2> SUFFICES ASSUME NEW i \in Listed(Current), PageOf(Current, i) < 2
               PROVE  \E e \in req'.fetched : e.item = i
    OBVIOUS
  <2>1. PageOf(Current, i) \in 1..Pages(Current) /\ Pages(Current) \in Nat
    BY <1>0, PageExists
  <2>2. PageOf(Current, i) = 1
    BY <2>1
  <2> QED BY <1>1, <1>5, <2>2
<1>8. PICK F, R : F = req'.fetched /\ R = req.assets \cup req.owned
  OBVIOUS
<1>9. ASSUME NEW l \in still'
      PROVE  /\ cached'[l].held => Complete(cached[l].entries, l)
             /\ l = Current => /\ req'.pages = Pages(l)
                               /\ \A e \in F : EntryTrue(e)
                               /\ \A i \in Listed(l) : PageOf(l, i) < req'.page =>
                                    \E e \in F : e.item = i
             /\ (\A e \in R : e.list # l) \/ Complete(R, l)
  <2>1. CASE l = Current
    BY <1>0, <1>1, <1>3, <1>6, <1>7, <1>8, <2>1
  <2>2. CASE l # Current
    <3>1. l \in still
      BY <1>0, <2>2
    <3> QED BY <1>0, <1>8, <2>2, <3>1, RequestFields DEF StillInv
  <2> QED BY <2>1, <2>2
<1>10. PICK C : C = cached
  OBVIOUS
<1>11. ASSUME NEW l \in still'
       PROVE  /\ cached'[l].held => Complete(C[l].entries, l)'
              /\ l = Current => /\ req'.pages = Pages(l)'
                                /\ \A e \in F : EntryTrue(e)'
                                /\ \A i \in Listed(l)' : PageOf(l, i)' < req'.page =>
                                     \E e \in F : e.item = i
              /\ (\A e \in R : e.list # l) \/ Complete(R, l)'
  BY <1>0, <1>9, <1>10, SameHangar
<1> QED BY <1>0, <1>1, <1>2, <1>8, <1>10, <1>11 DEF StillInv, Complete

LEMMA StillFetchNext == TypeInv /\ StillInv /\ FetchNext => StillInv'
<1> SUFFICES ASSUME TypeInv, StillInv, FetchNext PROVE StillInv'
  OBVIOUS
<1>0. /\ TypeOK /\ ListsInv /\ req.phase = "get" /\ req.pages > 0
      /\ UNCHANGED <<hangar, cached, still>> /\ Current \in Lists /\ req \in Busy
  BY InHandFields DEF TypeInv, FetchNext
<1>1. /\ req'.phase = "get" /\ req'.left = req.left
      /\ req'.assets = req.assets /\ req'.owned = req.owned
      /\ req'.fetched = req.fetched \cup OnPage(Current, req.page)
      /\ req'.pages = req.pages /\ req'.page = req.page + 1
  BY <1>0, FetchNextFields
<1>2. Current' = Current
  BY <1>1 DEF Current
<1>3. PICK p : p = req.page
  OBVIOUS
<1>4. p \in Nat \ {0}
  BY <1>0, <1>3 DEF Busy
<1>5. /\ \A e \in OnPage(Current, p) :
           /\ e.list = Current /\ e.page = p /\ e.item \in Listed(Current)
           /\ PageOf(Current, e.item) = p /\ e.parent = hangar[e.item].parent
      /\ \A i \in Listed(Current) : PageOf(Current, i) = p =>
           \E e \in OnPage(Current, p) : e.item = i
  BY <1>0, <1>4, OnPageEntries DEF TypeOK
<1>6. PICK F, R : F = req'.fetched /\ R = req.assets \cup req.owned
  OBVIOUS
<1>7. F = req.fetched \cup OnPage(Current, p)
  BY <1>1, <1>3, <1>6
<1>8. ASSUME NEW l \in still, l = Current
      PROVE  /\ req'.pages = Pages(l)
             /\ \A e \in F : EntryTrue(e)
             /\ \A i \in Listed(l) : PageOf(l, i) < req'.page => \E e \in F : e.item = i
  <2>1. /\ req.pages = Pages(l)
        /\ \A e \in req.fetched : EntryTrue(e)
        /\ \A i \in Listed(l) : PageOf(l, i) < p => \E e \in req.fetched : e.item = i
    BY <1>0, <1>3, <1>8 DEF StillInv
  <2>2. \A e \in F : EntryTrue(e)
    BY <1>5, <1>7, <2>1 DEF EntryTrue
  <2>3. ASSUME NEW i \in Listed(l), PageOf(l, i) < p + 1
        PROVE  \E e \in F : e.item = i
    <3>1. PageOf(l, i) \in 1..Pages(l) /\ Pages(l) \in Nat
      BY <1>0, <1>8, PageExists
    <3>2. PageOf(l, i) < p \/ PageOf(l, i) = p
      BY <1>4, <2>3, <3>1
    <3>3. CASE PageOf(l, i) < p
      BY <1>7, <2>1, <3>3
    <3>4. CASE PageOf(l, i) = p
      BY <1>5, <1>7, <1>8, <3>4
    <3> QED BY <3>2, <3>3, <3>4
  <2> QED BY <1>1, <1>3, <2>1, <2>2, <2>3
<1>9. ASSUME NEW l \in still
      PROVE  /\ cached'[l].held => Complete(cached[l].entries, l)
             /\ (\A e \in R : e.list # l) \/ Complete(R, l)
  BY <1>0, <1>6, RequestFields DEF StillInv
<1> QED BY <1>0, <1>1, <1>2, <1>6, <1>8, <1>9, SameHangar DEF StillInv, Complete

LEMMA StillStep == TypeInv /\ StillInv /\ [Next]_vars => StillInv'
<1> SUFFICES ASSUME TypeInv, StillInv, [Next]_vars PROVE StillInv'
  OBVIOUS
<1>0. TypeOK /\ ListsInv
  BY DEF TypeInv
<1>1. ASSUME req' = req, UNCHANGED <<hangar, cached, still>> PROVE StillInv'
  <2>1. PICK C, q : C = cached /\ q = req
    OBVIOUS
  <2>2. Current' = Current
    BY <1>1 DEF Current
  <2>3. ASSUME NEW l \in still
        PROVE  /\ C[l].held => Complete(C[l].entries, l)'
               /\ q.phase = "get" /\ l = Current /\ q.pages > 0 =>
                    /\ q.pages = Pages(l)'
                    /\ \A e \in q.fetched : EntryTrue(e)'
                    /\ \A i \in Listed(l)' : PageOf(l, i)' < q.page =>
                         \E e \in q.fetched : e.item = i
               /\ q.phase # "idle" => \/ \A e \in q.assets \cup q.owned : e.list # l
                                     \/ Complete(q.assets \cup q.owned, l)'
    <3>1. /\ C[l].held => Complete(C[l].entries, l)
          /\ q.phase = "get" /\ l = Current /\ q.pages > 0 =>
               /\ q.pages = Pages(l)
               /\ \A e \in q.fetched : EntryTrue(e)
               /\ \A i \in Listed(l) : PageOf(l, i) < q.page => \E e \in q.fetched : e.item = i
          /\ q.phase # "idle" => \/ \A e \in q.assets \cup q.owned : e.list # l
                                \/ Complete(q.assets \cup q.owned, l)
      BY <2>1 DEF StillInv
    <3>2. /\ Complete(C[l].entries, l)' <=> Complete(C[l].entries, l)
          /\ Complete(q.assets \cup q.owned, l)' <=> Complete(q.assets \cup q.owned, l)
      BY <1>1, SameHangar
    <3>3. Pages(l)' = Pages(l) /\ Listed(l)' = Listed(l) /\ \A i : PageOf(l, i)' = PageOf(l, i)
      BY <1>1, SameHangar
    <3>4. \A e : EntryTrue(e)' <=> EntryTrue(e)
      BY <1>1, SameHangar
    <3> QED BY <3>1, <3>2, <3>3, <3>4
  <2> QED BY <1>1, <2>1, <2>2, <2>3 DEF StillInv, Complete
<1>2. ASSUME req' = Idle, still' \subseteq still, UNCHANGED <<hangar, cached>>
      PROVE  StillInv'
  BY <1>2, SameHangar, IdleFields DEF StillInv, Complete
<1>3. ASSUME NEW b \in BOOLEAN, NEW c \in BOOLEAN, Open(b, c) PROVE StillInv'
  <2>1. /\ req'.pages = 0 /\ req'.assets = {} /\ req'.owned = {}
        /\ UNCHANGED <<hangar, cached, still>>
    BY <1>3, OpenFields
  <2>2. ~(req'.pages > 0)
    BY <2>1
  <2>3. \A e \in req'.assets \cup req'.owned : FALSE
    BY <2>1
  <2> QED BY <2>1, <2>2, <2>3, SameHangar DEF StillInv, Complete
<1>4. ASSUME Resolved PROVE StillInv'
  <2>1. /\ req.phase = "walk" /\ req'.phase = "done" /\ req'.assets = req.assets
        /\ req'.owned = req.owned /\ UNCHANGED <<hangar, cached, still>>
    BY <1>0, <1>4, ResolvedFields DEF Resolved
  <2> QED BY <2>1, SameHangar DEF StillInv, Complete
<1>5. ASSUME NEW i \in Items, NEW p \in Places, NEW o \in Owners, Move(i, p, o)
      PROVE  StillInv'
  BY <1>5 DEF Move, StillInv
<1>6. ASSUME NEW l \in Lists, Expire(l) PROVE StillInv'
  <2>1. /\ cached' = [cached EXCEPT ![l] = NoList] /\ UNCHANGED <<hangar, req>>
        /\ still' \subseteq still /\ req = Idle
    BY <1>6 DEF Expire, Forget
  <2>2. \A m \in Lists : cached'[m].held => cached'[m] = cached[m]
    <3>1. NoList.held = FALSE
      BY DEF NoList
    <3> QED BY <1>0, <2>1, <3>1 DEF TypeOK
  <2>3. still \subseteq Lists
    BY <1>0 DEF TypeOK
  <2>4. \A m \in still' : cached'[m].held => cached'[m] = cached[m] /\ cached[m].held
    BY <2>1, <2>2, <2>3
  <2>5. \A m \in still' : cached'[m].held => Complete(cached[m].entries, m)
    BY <2>1, <2>4 DEF StillInv
  <2> QED BY <2>1, <2>4, <2>5, SameHangar, IdleFields DEF StillInv, Complete
<1>7. ASSUME Begin \/ Ascend \/ Arrive PROVE StillInv'
  BY <1>1, <1>7 DEF Begin, Ascend, Arrive
<1>8. ASSUME Close \/ FetchFails PROVE StillInv'
  BY <1>2, <1>8 DEF Close, FetchFails, Forget
<1>9. CASE UNCHANGED vars
  BY <1>1, <1>9 DEF vars
<1> QED BY <1>3, <1>4, <1>5, <1>6, <1>7, <1>8, <1>9, StillHit, StillFetchFirst, StillFetchNext,
           StillStore, StillForbidden DEF Next, PageStep, Getting, Resolving

-----------------------------------------------------------------------------
(* The asset pages: what lies still is shown where it is *)

\* The lists were all fetched since the last move, and name every container met.
InPlace == Used \subseteq still /\ \A i \in Ids : hangar[i].parent \in Ids \cup Stations
OnTheMap(i) == hangar[i].parent \in Ids \cup Stations

At(p) == IF p \in Items THEN StationsIn(hangar)[p] ELSE p

\* A walk stays in the station of its item, and what it comes to lies less deep
\* than what it has passed: it never meets a container again.
PlaceInv ==
  /\ InPlace =>
       /\ walk # Resting /\ OnTheMap(walk.of.item) =>
            /\ walk.current \in Ids \cup Stations
            /\ At(walk.current) = StationsIn(hangar)[walk.of.item]
            /\ \A depth \in [Items -> 0..Cardinality(Items)] : Nested(hangar, depth) =>
                 \A i \in walk.visited :
                   walk.current \in Items => depth[walk.current] < depth[i]
       /\ \A r \in shown :
            OnTheMap(r.entry.item) => r.location = StationsIn(hangar)[r.entry.item]
  /\ req.phase = "done" => \A e \in Subjects : \E r \in shown : r.entry = e

\* Every item is in a station, and nothing lies in itself.
LEMMA StationsLocated ==
  ASSUME hangar \in Worlds
  PROVE  /\ StationsIn(hangar) \in [Items -> Stations] /\ Located(hangar, StationsIn(hangar))
         /\ \E depth \in [Items -> 0..Cardinality(Items)] : Nested(hangar, depth)
<1>1. \E station \in [Items -> Stations] : Located(hangar, station)
  BY DEF Worlds
<1>2. StationsIn(hangar) \in [Items -> Stations] /\ Located(hangar, StationsIn(hangar))
  BY <1>1 DEF StationsIn
<1> QED BY <1>2 DEF Worlds

\* What lies in a place is in the station the place is in.
LEMMA SameStation ==
  ASSUME hangar \in Worlds, NEW i \in Items
  PROVE  At(hangar[i].parent) = StationsIn(hangar)[i]
BY StationsLocated DEF Located, At

LEMMA PageIsTrue ==
  ASSUME TypeInv, StillInv, req.phase # "idle", Used \subseteq still
  PROVE  /\ \A e \in req.assets \cup req.owned : e \in Entries /\ EntryTrue(e) /\ e.item \in Items
         /\ \A l \in Used : Complete(req.assets \cup req.owned, l)
<1>0. TypeOK /\ req.assets \in SUBSET Entries /\ req.owned \in SUBSET Entries
  BY RequestFields DEF TypeInv, TypeOK
<1>1. PICK S : S = req.assets \cup req.owned
  OBVIOUS
<1>2. ASSUME NEW l \in Used PROVE Complete(S, l)
  <2>1. l \in still /\ \E e \in S : e.list = l
    BY <1>1 DEF Used
  <2> QED BY <1>1, <2>1 DEF StillInv
<1>3. ASSUME NEW e \in S PROVE e \in Entries /\ EntryTrue(e) /\ e.item \in Items
  <2>1. e \in Entries /\ e.list \in Lists /\ e.item \in Items
    BY <1>0, <1>1, EntryFields
  <2>2. e.list \in Used
    BY <1>1, <2>1 DEF Used
  <2> QED BY <1>2, <2>1, <2>2 DEF Complete
<1> QED BY <1>1, <1>2, <1>3

\* A container is where the page's lists say it is.
LEMMA ContainerIsTrue ==
  ASSUME TypeInv, StillInv, req.phase # "idle", Used \subseteq still, NEW i \in Ids
  PROVE  Container(i) = hangar[i].parent /\ i \in Items
<1>1. req.assets \in SUBSET Entries /\ Single(req.assets)
  BY RequestFields DEF TypeInv, TypeOK, ListsInv
<1>2. ById(i) \in req.assets /\ ById(i).item = i
  BY <1>1, ByIdIsAnEntry
<1> QED BY <1>2, PageIsTrue DEF Container, EntryTrue

LEMMA PlaceBegin ==
  ASSUME TypeInv, WalkInv, StillInv, PlaceInv, Begin
  PROVE  PlaceInv'
<1>0. TypeOK /\ hangar \in Worlds
  BY DEF TypeInv, TypeOK
<1>1. /\ req.phase = "walk" /\ req \in Busy
      /\ UNCHANGED <<hangar, moves, cached, still, req, shown>>
  BY <1>0, BeginFields DEF Begin
<1>2. PICK e \in Unresolved :
        e \in Entries /\ walk'.of = e /\ walk'.current = e.parent /\ walk'.visited = {}
  BY <1>0, BeginFields
<1>3. e \in req.assets \cup req.owned
  BY <1>2 DEF Unresolved, Subjects
<1>4. ASSUME InPlace, OnTheMap(e.item)
      PROVE  e.parent \in Ids \cup Stations /\ At(e.parent) = StationsIn(hangar)[e.item]
  <2>1. e.parent = hangar[e.item].parent /\ e.item \in Items
    BY <1>1, <1>3, <1>4, PageIsTrue DEF EntryTrue, InPlace
  <2> QED BY <1>0, <1>4, <2>1, SameStation DEF OnTheMap
<1>5. Used' = Used /\ Ids' = Ids /\ InPlace' = InPlace
  BY <1>1 DEF Used, Ids, InPlace
<1>6. \A i : OnTheMap(i)' <=> OnTheMap(i)
  BY <1>1, <1>5 DEF OnTheMap
<1>7. \A p : At(p)' = At(p)
  BY <1>1 DEF At
<1> QED BY <1>1, <1>2, <1>4, <1>5, <1>6, <1>7 DEF PlaceInv, At, OnTheMap, InPlace

LEMMA PlaceAscend ==
  ASSUME TypeInv, WalkInv, StillInv, PlaceInv, Ascend
  PROVE  PlaceInv'
<1>0. TypeOK /\ hangar \in Worlds
  BY DEF TypeInv, TypeOK
<1>1. /\ req.phase = "walk" /\ walk # Resting
      /\ walk.current \in Ids \ walk.visited /\ Container(walk.current) \in Items
      /\ walk'.of = walk.of /\ walk'.current = Container(walk.current)
      /\ walk'.visited = walk.visited \cup {walk.current}
      /\ UNCHANGED <<hangar, moves, cached, still, req, shown>>
  BY <1>0, AscendFields DEF Ascend
<1>2. PICK c, n : c = walk.current /\ n = walk'.current
  OBVIOUS
<1>3. ASSUME InPlace, OnTheMap(walk.of.item)
      PROVE  /\ n \in Ids \cup Stations /\ At(n) = StationsIn(hangar)[walk.of.item]
             /\ \A depth \in [Items -> 0..Cardinality(Items)] : Nested(hangar, depth) =>
                  \A i \in walk'.visited : n \in Items => depth[n] < depth[i]
  <2>1. n = hangar[c].parent /\ c \in Items /\ n \in Items
    BY <1>1, <1>2, <1>3, ContainerIsTrue DEF InPlace
  <2>2. n \in Ids \cup Stations
    BY <1>1, <1>2, <1>3, <2>1 DEF InPlace
  <2>3. At(n) = At(c)
    BY <1>0, <2>1, SameStation DEF At
  <2>4. At(c) = StationsIn(hangar)[walk.of.item]
    BY <1>1, <1>2, <1>3 DEF PlaceInv
  <2>5. ASSUME NEW depth \in [Items -> 0..Cardinality(Items)], Nested(hangar, depth),
               NEW i \in walk'.visited
        PROVE  depth[n] < depth[i]
    <3>1. depth[n] < depth[c]
      BY <2>1, <2>5 DEF Nested
    <3>2. CASE i = c
      BY <3>1, <3>2
    <3>3. CASE i \in walk.visited
      <4>1. depth[c] < depth[i]
        BY <1>1, <1>2, <1>3, <2>1, <2>5, <3>3 DEF PlaceInv
      <4>2. i \in Items
        BY <1>0, <1>1, <3>3, WalkFields DEF TypeOK
      <4>3. IsFiniteSet(Items) /\ Cardinality(Items) \in Nat
        BY ItemsAreIds, FS_CardinalityType
      <4>4. depth[n] \in Nat /\ depth[c] \in Nat /\ depth[i] \in Nat
        BY <2>1, <4>2, <4>3
      <4> QED BY <3>1, <4>1, <4>4
    <3> QED BY <1>1, <1>2, <3>2, <3>3
  <2> QED BY <2>2, <2>3, <2>4, <2>5
<1>4. Used' = Used /\ Ids' = Ids /\ InPlace' = InPlace
  BY <1>1 DEF Used, Ids, InPlace
<1>5. \A i : OnTheMap(i)' <=> OnTheMap(i)
  BY <1>1, <1>4 DEF OnTheMap
<1> QED BY <1>1, <1>2, <1>3, <1>4, <1>5 DEF PlaceInv, At, OnTheMap, InPlace

\* The walk ends in the station of its item.
LEMMA ArrivesInPlace ==
  ASSUME TypeInv, WalkInv, StillInv, PlaceInv, walk # Resting,
         InPlace, OnTheMap(walk.of.item), NEW p \in Places,
         \/ walk.current \in Ids \ walk.visited /\ p = Container(walk.current) /\ p \in Stations
         \/ walk.current \notin Ids \ walk.visited /\ p = walk.current
  PROVE  p = StationsIn(hangar)[walk.of.item]
<1>0. TypeOK /\ hangar \in Worlds /\ walk.visited \subseteq Ids /\ req.phase = "walk"
  BY DEF TypeInv, TypeOK
<1>1. /\ walk.current \in Ids \cup Stations
      /\ At(walk.current) = StationsIn(hangar)[walk.of.item]
      /\ \A depth \in [Items -> 0..Cardinality(Items)] : Nested(hangar, depth) =>
           \A i \in walk.visited : walk.current \in Items => depth[walk.current] < depth[i]
  BY DEF PlaceInv
<1>2. CASE walk.current \in Ids \ walk.visited /\ p = Container(walk.current) /\ p \in Stations
  <2>1. p = hangar[walk.current].parent /\ walk.current \in Items
    BY <1>0, <1>2, ContainerIsTrue DEF InPlace
  <2>2. At(p) = p
    BY <1>2, StationsApart DEF At
  <2>3. At(p) = StationsIn(hangar)[walk.current]
    BY <1>0, <2>1, SameStation
  <2>4. At(walk.current) = StationsIn(hangar)[walk.current]
    BY <2>1 DEF At
  <2> QED BY <1>1, <2>2, <2>3, <2>4
<1>3. CASE walk.current \notin Ids \ walk.visited /\ p = walk.current
  <2>1. walk.current \notin Ids
    <3> SUFFICES ASSUME walk.current \in Ids PROVE FALSE
      OBVIOUS
    <3>1. walk.current \in walk.visited
      BY <1>3
    <3>2. walk.current \in Items
      BY <1>0, ContainerIsTrue DEF InPlace
    <3>3. PICK depth \in [Items -> 0..Cardinality(Items)] : Nested(hangar, depth)
      BY <1>0, StationsLocated
    <3>4. depth[walk.current] < depth[walk.current]
      BY <1>1, <3>1, <3>2, <3>3
    <3>5. IsFiniteSet(Items) /\ Cardinality(Items) \in Nat
      BY ItemsAreIds, FS_CardinalityType
    <3>6. depth[walk.current] \in Nat
      BY <3>2, <3>5
    <3> QED BY <3>4, <3>6
  <2>2. walk.current \in Stations
    BY <1>1, <2>1
  <2> QED BY <1>1, <1>3, <2>2, StationsApart DEF At
<1> QED BY <1>2, <1>3

LEMMA PlaceArrive ==
  ASSUME TypeInv, WalkInv, StillInv, PlaceInv, Arrive
  PROVE  PlaceInv'
<1>1. /\ req.phase = "walk" /\ walk # Resting /\ walk' = Resting
      /\ UNCHANGED <<hangar, moves, cached, still, req>>
  BY ArriveFields
<1>2. PICK p \in Places :
        /\ shown' = shown \cup {[entry |-> walk.of, location |-> p]}
        /\ \/ /\ walk.current \in Ids \ walk.visited
              /\ p = Container(walk.current) /\ p \in Stations
           \/ /\ walk.current \notin Ids \ walk.visited
              /\ p = walk.current
  BY ArriveFields
<1>3. PICK n : n = [entry |-> walk.of, location |-> p]
  OBVIOUS
<1>4. n.entry = walk.of /\ n.location = p /\ shown' = shown \cup {n}
  BY <1>2, <1>3
<1>5. ASSUME InPlace, NEW r \in shown', OnTheMap(r.entry.item)
      PROVE  r.location = StationsIn(hangar)[r.entry.item]
  <2>1. CASE r = n
    BY <1>1, <1>2, <1>4, <1>5, <2>1, ArrivesInPlace
  <2>2. CASE r \in shown
    BY <1>5, <2>2 DEF PlaceInv
  <2> QED BY <1>4, <2>1, <2>2
<1>6. Used' = Used /\ Ids' = Ids /\ InPlace' = InPlace
  BY <1>1 DEF Used, Ids, InPlace
<1>7. \A i : OnTheMap(i)' <=> OnTheMap(i)
  BY <1>1, <1>6 DEF OnTheMap
<1> QED BY <1>1, <1>5, <1>6, <1>7 DEF PlaceInv

LEMMA PlaceInvInit == Init => PlaceInv
BY IdleFields DEF Init, PlaceInv

LEMMA PlaceStep ==
  ASSUME TypeInv, WalkInv, StillInv, PlaceInv, [Next]_vars
  PROVE  PlaceInv'
<1>0. TypeOK /\ ListsInv
  BY DEF TypeInv
<1>1. ASSUME shown' = {}, walk' = Resting, req'.phase # "done" PROVE PlaceInv'
  BY <1>1 DEF PlaceInv
<1>2. ASSUME Getting \/ Close PROVE PlaceInv'
  <2>1. CASE Close
    <3>1. walk = Resting
      BY <1>0, <2>1 DEF TypeOK, Close
    <3> QED BY <1>1, <2>1, <3>1, IdleFields DEF Close
  <2>2. CASE FetchFails
    BY <1>1, <2>2, IdleFields DEF FetchFails, Missing, WalkInv
  <2>3. CASE FetchFirst \/ FetchNext
    <3>1. req'.phase = "get"
      BY <1>0, <2>3, FetchFirstFields, FetchNextFields DEF TypeInv
    <3> QED BY <1>1, <2>3, <3>1 DEF FetchFirst, FetchNext, WalkInv
  <2>4. CASE Hit \/ Store \/ Forbidden
    <3>1. req.phase = "get" /\ (\E S : Got(S)) /\ UNCHANGED <<walk, shown>>
      BY <2>4 DEF Hit, Store, Forbidden, Missing
    <3>2. req \in Busy
      BY <1>0, <3>1, RequestFields DEF TypeOK
    <3>3. PICK S : Got(S)
      BY <3>1
    <3>4. PICK A, O, L : req' = [req EXCEPT
                            !.assets = A, !.owned = O, !.left = L, !.page = 1, !.pages = 0,
                            !.fetched = {}, !.phase = IF L = <<>> THEN "walk" ELSE "get"]
      BY <3>3 DEF Got
    <3>5. req'.phase \in {"walk", "get"}
      BY <3>2, <3>4 DEF Busy
    <3> QED BY <1>1, <3>1, <3>5 DEF WalkInv
  <2> QED BY <1>2, <2>1, <2>2, <2>3, <2>4 DEF Getting
<1>3. ASSUME NEW b \in BOOLEAN, NEW c \in BOOLEAN, Open(b, c) PROVE PlaceInv'
  <2>1. req'.phase = "get" /\ UNCHANGED <<walk, shown>> /\ req = Idle
    BY <1>3, OpenFields DEF Open
  <2> QED BY <1>1, <2>1, IdleFields DEF WalkInv
<1>4. ASSUME Resolved PROVE PlaceInv'
  <2>1. /\ req.phase = "walk" /\ req'.phase = "done" /\ req'.assets = req.assets
        /\ req'.owned = req.owned /\ req'.blueprints = req.blueprints /\ Unresolved = {}
        /\ UNCHANGED <<hangar, moves, cached, still, walk, shown>>
    BY <1>0, <1>4, ResolvedFields DEF Resolved
  <2>2. Used' = Used /\ Ids' = Ids /\ Subjects' = Subjects
    BY <2>1 DEF Used, Ids, Subjects
  <2>3. InPlace' = InPlace
    BY <2>1, <2>2 DEF InPlace
  <2>4. \A i : OnTheMap(i)' <=> OnTheMap(i)
    BY <2>1, <2>2 DEF OnTheMap
  <2>5. \A e \in Subjects : \E r \in shown : r.entry = e
    BY <2>1 DEF Unresolved
  <2>6. walk = Resting
    BY <1>4 DEF Resolved
  <2> QED BY <2>1, <2>2, <2>3, <2>4, <2>5, <2>6 DEF PlaceInv
<1>5. ASSUME NEW i \in Items, NEW p \in Places, NEW o \in Owners, Move(i, p, o)
      PROVE  PlaceInv'
  BY <1>1, <1>5 DEF Move, WalkInv
<1>6. ASSUME NEW l \in Lists, Expire(l) PROVE PlaceInv'
  BY <1>1, <1>6, IdleFields DEF Expire, WalkInv
<1>7. CASE UNCHANGED vars
  <2>1. UNCHANGED <<hangar, still, req, walk, shown>>
    BY <1>7 DEF vars
  <2>2. Used' = Used /\ Ids' = Ids /\ Subjects' = Subjects
    BY <2>1 DEF Used, Ids, Subjects
  <2>3. At(walk.current)' = At(walk.current)
    BY <2>1 DEF At
  <2> QED BY <2>1, <2>2, <2>3 DEF PlaceInv, InPlace, OnTheMap
<1> QED BY <1>2, <1>3, <1>4, <1>5, <1>6, <1>7, PlaceBegin, PlaceAscend, PlaceArrive
        DEF Next, PageStep, Resolving

\* Of an item the page has one entry.
LEMMA OneEntryPerItem ==
  ASSUME TypeInv, StillInv, req.phase # "idle", Used \subseteq still,
         NEW e \in Subjects, NEW f \in Subjects, e.item = f.item
  PROVE  e = f
<1>0. /\ Single(req.assets) /\ \A g \in req.assets : ~g.list.blueprints
      /\ Single(req.owned) /\ \A g \in req.owned : g.list.blueprints
  BY DEF TypeInv, ListsInv
<1>1. /\ EntryTrue(e) /\ EntryTrue(f) /\ e \in Entries /\ f \in Entries
  BY PageIsTrue DEF Subjects
<1>2. e.list \in Lists /\ f.list \in Lists /\ e.list.blueprints = f.list.blueprints
  BY <1>0, <1>1, EntryFields DEF Subjects
<1>3. e.list.owner = f.list.owner
  BY <1>1 DEF EntryTrue, Listed
<1>4. e.list = f.list
  BY <1>2, <1>3 DEF Lists
<1>5. e.page = f.page
  BY <1>1, <1>4 DEF EntryTrue
<1> QED BY <1>0, <1>3, <1>5 DEF Single, Subjects

LEMMA StillShown ==
  ASSUME TypeInv, WalkInv, StillInv, PlaceInv
  PROVE  StillAssetsInPlace
<1> SUFFICES ASSUME req.phase = "done", InPlace
             PROVE  /\ \A r \in shown : OnTheMap(r.entry.item) =>
                         r.location = StationsIn(hangar)[r.entry.item]
                    /\ \A r, s \in shown : r.entry.item = s.entry.item => r = s
                    /\ ~req.blueprints => OverviewLocations = ItemLocations(Items)
                    /\ ~req.blueprints =>
                         req.assets = UNION {LocationPage(p) : p \in OverviewLocations}
                    /\ \A l \in Used :
                         {e.item : e \in {a \in req.assets \cup req.owned : a.list = l}} = Listed(l)
                    /\ \A b \in req.owned :
                         OnSite(b) = {i \in Ids : hangar[i].parent = hangar[b.item].parent}
  BY DEF StillAssetsInPlace, InPlace, OnTheMap
<1>0. Used \subseteq still /\ req.phase # "idle"
  BY DEF InPlace
<1>1. \A r \in shown : OnTheMap(r.entry.item) => r.location = StationsIn(hangar)[r.entry.item]
  BY DEF PlaceInv
<1>2. \A r, s \in shown : r.entry.item = s.entry.item => r = s
  BY <1>0, OneEntryPerItem DEF WalkInv
<1>3. /\ \A r \in shown : r.entry \in Subjects
      /\ \A e \in Subjects : \E r \in shown : r.entry = e
  BY DEF WalkInv, PlaceInv
<1>4. ASSUME ~req.blueprints
      PROVE  /\ OverviewLocations = {r.location : r \in shown}
             /\ ItemLocations(Items) = {r.location : r \in shown}
  <2>1. Subjects = req.assets /\ req.assets \in SUBSET Entries /\ Single(req.assets)
    BY <1>0, <1>4, RequestFields DEF Subjects, TypeInv, TypeOK, ListsInv
  <2>2. ASSUME NEW r \in shown PROVE r.entry.item \in Items /\ r.entry = ById(r.entry.item)
    <3>1. r.entry \in req.assets /\ r.entry \in Entries /\ r.entry.item \in Ids
      BY <1>3, <2>1 DEF Ids
    <3>2. PICK i \in Ids : i = r.entry.item
      BY <3>1
    <3>3. ById(i) \in req.assets /\ ById(i).item = i
      BY <2>1, ByIdIsAnEntry
    <3>4. r.entry = ById(i)
      BY <1>0, <2>1, <3>1, <3>2, <3>3, OneEntryPerItem
    <3> QED BY <3>1, <3>2, <3>4, EntryFields
  <2> QED BY <2>2 DEF OverviewLocations, ItemLocations
<1>5. ASSUME ~req.blueprints
      PROVE  req.assets = UNION {LocationPage(p) : p \in OverviewLocations}
  <2>1. Subjects = req.assets
    BY <1>5 DEF Subjects
  <2>2. \A p : LocationPage(p) = {r.entry : r \in {s \in shown : s.location = p}}
    BY DEF LocationPage
  <2>3. PICK L, U : /\ L = {r.location : r \in shown}
                    /\ U = UNION {LocationPage(p) : p \in L}
    OBVIOUS
  <2>4. \A e : e \in U <=> \E p \in L : e \in LocationPage(p)
    BY <2>3
  <2>5. ASSUME NEW e \in req.assets PROVE e \in U
    <3>1. PICK r \in shown : r.entry = e
      BY <1>3, <2>1
    <3>2. e \in LocationPage(r.location) /\ r.location \in L
      BY <2>2, <2>3, <3>1
    <3> QED BY <2>4, <3>2
  <2>6. ASSUME NEW e \in U PROVE e \in req.assets
    BY <1>3, <2>1, <2>2, <2>4
  <2> QED BY <1>4, <1>5, <2>3, <2>5, <2>6
<1>6. ASSUME NEW l \in Used
      PROVE  {e.item : e \in {a \in req.assets \cup req.owned : a.list = l}} = Listed(l)
  <2>1. Complete(req.assets \cup req.owned, l)
    BY <1>0, PageIsTrue
  <2>2. \A e \in req.assets \cup req.owned : e.list = l => e.item \in Listed(l)
    BY <2>1 DEF Complete, EntryTrue
  <2>3. \A i \in Listed(l) : \E e \in req.assets \cup req.owned : e.list = l /\ e.item = i
    BY <2>1 DEF Complete
  <2> QED BY <2>2, <2>3
<1>7. ASSUME NEW b \in req.owned
      PROVE  OnSite(b) = {i \in Ids : hangar[i].parent = hangar[b.item].parent}
  <2>1. b.parent = hangar[b.item].parent
    BY <1>0, PageIsTrue DEF EntryTrue
  <2>2. \A a \in req.assets : a.parent = hangar[a.item].parent
    BY <1>0, PageIsTrue DEF EntryTrue
  <2> QED BY <2>1, <2>2 DEF OnSite, Ids
<1> QED BY <1>1, <1>2, <1>4, <1>5, <1>6, <1>7

\* While nothing has been moved since the lists were fetched, and the page knows
\* every container it meets, the overview, the page of an item and that of a
\* blueprint show each item once, at the station it is in, for any number of
\* items, pages and containers in containers.
THEOREM AssetsStayInPlace == Spec => []StillAssetsInPlace
<1> DEFINE Inv == TypeInv /\ WalkInv /\ NeverAKnownContainer /\ StillInv /\ PlaceInv
<1>1. Init => Inv
  <2>1. Init => StillInv
    BY DEF Init, StillInv
  <2> QED BY <2>1, TypeInvInit, WalkInvInit, PlaceInvInit
<1>2. Inv /\ [Next]_vars => Inv'
  BY TypeStep, WalkStep, StillStep, PlaceStep
<1>3. Inv => StillAssetsInPlace
  BY StillShown
<1> QED BY <1>1, <1>2, <1>3, PTL DEF Spec

=============================================================================
