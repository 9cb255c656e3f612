----------------------------- MODULE MCEsiCache -----------------------------
\* Instances of EsiCache for TLC.
EXTENDS EsiCache, TLC

CONSTANTS assets, corpAssets

OneList == <<assets>>
OneCorpList == <<corpAssets>>

(***************************************************************************)
(* Either the lists are still to change on ESI and nothing fails any more; *)
(* or they have changed since they were stored and cached, and failures    *)
(* are to come.                                                            *)
(***************************************************************************)
ChangesAhead ==
  /\ esi = [l \in Lists |-> 0]
  /\ rows = [l \in Lists |-> NoRows]
  /\ redis = [l \in Lists |-> NoEntry]
  /\ doc = FALSE
  /\ errors = MaxErrors

FailuresAhead ==
  /\ esi = [l \in Lists |-> MaxVersion]
  /\ rows = [l \in Lists |-> <<0>>]
  /\ redis = [l \in Lists |-> [held |-> TRUE, version |-> 0, fits |-> TRUE]]
  /\ doc = TRUE
  /\ errors = 0

CacheInit ==
  /\ ChangesAhead \/ FailuresAhead
  /\ req = [q \in Requests |-> Idle]
  /\ floor = [l \in Lists |-> 0]
  /\ missed = {}
  /\ crossed = FALSE

CacheSpec == CacheInit /\ [][Next]_vars /\ Fairness

=============================================================================
