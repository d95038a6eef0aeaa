----------------------------- MODULE MCBalance -----------------------------
(***************************************************************************)
(* Small instances of Balance.  Mixed: a call and its retry, with one      *)
(* Idempotency-Key, after the price went up, and a second user whose       *)
(* client picked the same key.  Live: a retry and a call of a free model.  *)
(***************************************************************************)
EXTENDS Balance, TLC

CONSTANTS u1, u2, r1, r2, r3, k1, k2

MixedOwner == r1 :> u1 @@ r2 :> u1 @@ r3 :> u2
MixedKey == r1 :> k1 @@ r2 :> k1 @@ r3 :> k1
MixedCost == r1 :> 1 @@ r2 :> 2 @@ r3 :> 1
MixedInitBal == u1 :> 2 @@ u2 :> 1

LiveOwner == r1 :> u1 @@ r2 :> u1 @@ r3 :> u1
LiveKey == r1 :> k1 @@ r2 :> k1 @@ r3 :> k2
LiveCost == r1 :> 1 @@ r2 :> 1 @@ r3 :> 0
LiveInitBal == u1 :> 1
=============================================================================
