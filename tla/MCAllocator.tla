---------------------------- MODULE MCAllocator ----------------------------
(***************************************************************************)
(* A short position of 6 from before, and three signals to go long, of     *)
(* sizes 10 (the cap), 10 and 6, on an equity of 100.  One after the other *)
(* the limits admit some of them, at once they admit all.  A refresh sees  *)
(* the marks rise by half: a loss on the short position alone.             *)
(***************************************************************************)
EXTENDS Allocator, TLC

CONSTANTS s0, s1, s2, s3, m0, m1, eth

MCAssetOf == [s \in Signals |-> eth]
MCSideOf == [s \in Signals |-> IF s = s0 THEN "short" ELSE "long"]
MCModelOf == [s \in Signals |-> IF s = s0 THEN m0 ELSE m1]
MCEdge == [s \in Signals |-> IF s \in {s0, s3} THEN 1 ELSE 5]
MCVol == [s \in Signals |-> IF s \in {s0, s3} THEN 200 ELSE 100]
MCCapacity == m0 :> 12 @@ m1 :> 12
MCMoves == {50}
MCFillErrors == {-1}
Symmetry == Permutations({s1, s2})
=============================================================================
