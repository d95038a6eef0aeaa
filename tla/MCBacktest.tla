----------------------------- MODULE MCBacktest -----------------------------
(***************************************************************************)
(* A small instance of Backtest: two periods that overlap, one of which    *)
(* does not start on a minute, prices a quarter apart and PnL in           *)
(* fortieths, so that every return is a whole number.  Metrics are shown   *)
(* to one digit: a drawdown of two ninths is a fifth.                      *)
(***************************************************************************)
EXTENDS Backtest, TLC

TwoWindows == {[start |-> 0, end |-> 6], [start |-> 3, end |-> 4]}

OnePublished ==
  {[period |-> [start |-> 2, end |-> 5], snapshots |-> {2, 4}, prices |-> 2 :> 4 @@ 4 :> 5]}

FourSignals ==
  {[direction |-> "neutral", edge |-> 0, horizon |-> 2],
   [direction |-> "long", edge |-> 2, horizon |-> 2],
   [direction |-> "short", edge |-> -2, horizon |-> 3],
   [direction |-> "long", edge |-> 5, horizon |-> 2]}

\* Bound: what is written after the run has ended is of no interest.
Scenario == run \in {"done", "failed"} => exporter = "idle"
=============================================================================
