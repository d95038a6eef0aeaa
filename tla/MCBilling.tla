----------------------------- MODULE MCBilling -----------------------------
(***************************************************************************)
(* One paid call of u1, dearer than what u1 has, while deliveries run: one *)
(* Alchemy payload twice, with one transfer of nobody and two of u1, or    *)
(* one Coinbase charge of u1 twice.                                        *)
(***************************************************************************)
EXTENDS Billing, TLC

CONSTANTS u1, r1, k1, d1, d2, t1, t2, t3, c1, Endpoint, Start, Price

MCOwner == [r \in Reqs |-> u1]
MCKey == [r \in Reqs |-> k1]
MCCost == [r \in Reqs |-> Price]
MCInitBal == u1 :> Start
MCSource == [d \in Deliveries |-> Endpoint]
MCPayload == [d \in Deliveries |-> IF Endpoint = "coinbase" THEN <<c1>> ELSE <<t3, t1, t2>>]
MCPayee == [t \in Transfers |-> IF t = t3 THEN None ELSE u1]
MCCents == [t \in Transfers |-> 1]
=============================================================================
