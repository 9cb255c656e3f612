--------------------------- MODULE MCMarketOrders ---------------------------
(* Small instances of MarketOrders for TLC. *)
EXTENDS MarketOrders, TLC

CONSTANTS r1, r2, u1, u2, o1, o2, o3, o4, o5, o6, f1, f2, w1, w2

\* r1 has two orders, r2 is a region without a market.
TwoRegionBook == (r1 :> <<o1, o2>>) @@ (r2 :> <<>>)
LongBook == (r1 :> <<o1, o2, o3, o4>>) @@ (r2 :> <<>>)
OneRegionBook == r1 :> <<o1, o2>>

Workers == Permutations(FetchWorkers) \cup Permutations(WriteWorkers)
WorkersAndNewcomers == Workers \cup Permutations({o5, o6})

(***************************************************************************)
(* Two halves of one question, both begun on a book of four orders.        *)
(* Either two of them have gone, one more change and all the faults are to *)
(* come; or the faults have been, r2's job is done, r1's is queued, and    *)
(* all the changes are to come while its pages are read.                   *)
(***************************************************************************)
NothingInHand ==
  /\ unackedJ = [f \in FetchWorkers |-> <<>>]
  /\ fw = [f \in FetchWorkers |-> IdleFetch]
  /\ unackedC = [w \in WriteWorkers |-> <<>>]
  /\ ww = [w \in WriteWorkers |-> IdleWrite]

FaultsAhead ==
  /\ disp = [u \in Runs |-> "idle"]
  /\ todo = [u \in Runs |-> {}]
  /\ jobs = <<>>
  /\ acked = {}
  /\ book = TwoRegionBook
  /\ version = [r \in Regions |-> IF r = r1 THEN 2 ELSE 0]
  /\ faults = 0

ChangesAhead ==
  /\ disp = [u \in Runs |-> "done"]
  /\ todo = [u \in Runs |-> {}]
  /\ jobs = <<[region |-> r1, run |-> u1]>>
  /\ acked = {[region |-> r2, run |-> u1]}
  /\ book = LongBook
  /\ version = [r \in Regions |-> 0]
  /\ faults = MaxFaults

SafetyInit ==
  /\ results = <<>>
  /\ NothingInHand
  /\ FaultsAhead \/ ChangesAhead
  /\ seenOn = [r \in Regions |-> Elems(LongBook[r])]
  /\ captured = [j \in Jobs |-> {}]
  /\ stored = {}
  /\ rows = [k \in Keys |-> 0]

SafetySpec == SafetyInit /\ [][Next]_vars

(***************************************************************************)
(* Liveness likewise.  Of u1's scrape r2, or r1, is done and the other     *)
(* region is not yet published.  Either u2's scrape is over, and two       *)
(* faults are to come; or u2 has not started, the markets are empty, and   *)
(* one fault is to come.                                                   *)
(***************************************************************************)
NothingForSale == [r \in Regions |-> <<>>]

LastJobAhead ==
  /\ disp = (u1 :> "sending") @@ (u2 :> "done")
  /\ todo = (u1 :> {r1}) @@ (u2 :> {})
  /\ book = Book0
  /\ faults = 0

RunAhead ==
  /\ disp = (u1 :> "sending") @@ (u2 :> "idle")
  /\ todo = (u1 :> {r2}) @@ (u2 :> {})
  /\ book = NothingForSale
  /\ faults = 1

LiveInit ==
  /\ jobs = <<>> /\ results = <<>>
  /\ NothingInHand
  /\ LastJobAhead \/ RunAhead
  /\ acked = {j \in Jobs : Dispatched(j)}
  /\ captured = [j \in Jobs |-> IF j \in acked THEN Elems(book[j.region]) ELSE {}]
  /\ stored = {k \in Keys : k[2] \in captured[k[1]]}
  /\ rows = [k \in Keys |-> IF k \in stored THEN 1 ELSE 0]
  /\ version = [r \in Regions |-> 0]
  /\ seenOn = [r \in Regions |-> Elems(book[r])]

LiveSpec == LiveInit /\ [][Next]_vars /\ Fairness
=============================================================================
