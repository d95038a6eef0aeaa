---------------------------- MODULE MCWarehouse ----------------------------
(***************************************************************************)
(* A small instance of Warehouse: a stream and a backfill of bars of two   *)
(* ticks, and one table of either kind of readings.                        *)
(***************************************************************************)
EXTENDS Warehouse, TLC

TwoPollers == {Stream, "backfill"}
TwoSeries == {"oi", "onchain"}
PollTimes == Stream :> LastTime @@ "backfill" :> 4 @@ "oi" :> 1 @@ "onchain" :> 0
=============================================================================
