---------------------------- MODULE MCSettlement ----------------------------
(***************************************************************************)
(* Two runs, two quants and a model of the house.  With the default share  *)
(* one row of q1 is below MIN_PAYOUT_CENTS and the other reaches it; the   *)
(* share of q2 leaves less than CAPITAL_SHARE_BPS.                         *)
(***************************************************************************)
EXTENDS Settlement, TLC

CONSTANTS q1, q2, e1, e2, e3, e4, b1, b2

MCQuantOf == e1 :> q1 @@ e2 :> q1 @@ e3 :> q2 @@ e4 :> None
MCGross == e1 :> 999 @@ e2 :> 1437 @@ e3 :> 1119 @@ e4 :> 7
MCShareBps == q1 :> 7000 @@ q2 :> 9000
=============================================================================
