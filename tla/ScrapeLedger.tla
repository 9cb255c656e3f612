---------------------------- MODULE ScrapeLedger ----------------------------
(***************************************************************************)
(* What the market-orders scrape promises to whoever reads the collection, *)
(* without queues, workers or faults: a job is open from its publication   *)
(* to its one acknowledgement, which fixes the orders it captured; orders  *)
(* are only ever stored for published jobs, and stored for good.           *)
(***************************************************************************)
CONSTANTS Jobs, Orders

VARIABLES
  open,      \* jobs published and not acknowledged
  acked,     \* jobs acknowledged
  captured,  \* [Jobs -> SUBSET Orders]: what each acknowledged job found
  stored     \* (job, order) pairs that were inserted

vars == <<open, acked, captured, stored>>

\* Between two scrapes: the jobs of earlier ones are done.
Init ==
  /\ open = {}
  /\ acked \in SUBSET Jobs
  /\ captured \in [Jobs -> SUBSET Orders]
  /\ stored \in SUBSET (acked \X Orders)

Publish(j) ==
  /\ j \notin open \cup acked
  /\ open' = open \cup {j}
  /\ UNCHANGED <<acked, captured, stored>>

Acknowledge(j) ==
  /\ j \in open
  /\ open' = open \ {j}
  /\ acked' = acked \cup {j}
  /\ \E os \in SUBSET Orders : captured' = [captured EXCEPT ![j] = os]
  /\ UNCHANGED stored

\* The orders of one chunk, some of which may be there already.
Store(j) ==
  /\ j \in open \cup acked
  /\ \E os \in SUBSET Orders : stored' = stored \cup ({j} \X os)
  /\ UNCHANGED <<open, acked, captured>>

Next == \E j \in Jobs : Publish(j) \/ Acknowledge(j) \/ Store(j)

Spec == Init /\ [][Next]_vars

=============================================================================
