------------------------------- MODULE Ledger -------------------------------
(***************************************************************************)
(* What the balance of a prepaid user promises, without Redis, locks or    *)
(* coroutines: money leaves the balance only against a hold, by exactly    *)
(* the amount of the hold and never below zero, and a call is served only  *)
(* when a hold of the same user and key has been paid for (or the model is *)
(* free).  Balance is shown to implement this specification.               *)
(***************************************************************************)
EXTENDS Integers

CONSTANTS Users, Reqs, Owner, Key, Cost, InitBal

VARIABLES
  balance,  \* balance[u]: cents user u can still spend
  debited,  \* debited[h]: how many times hold h was paid
  served    \* the requests that were answered with a prediction

vars == <<balance, debited, served>>

Init ==
  /\ balance = InitBal
  /\ debited = [h \in Reqs |-> 0]
  /\ served = {}

Charge(h) ==
  /\ 0 < Cost[h] /\ Cost[h] <= balance[Owner[h]]
  /\ balance' = [balance EXCEPT ![Owner[h]] = @ - Cost[h]]
  /\ debited' = [debited EXCEPT ![h] = @ + 1]
  /\ UNCHANGED served

PaidWith(r, h) ==
  /\ Owner[h] = Owner[r]
  /\ Key[h] = Key[r]
  /\ debited[h] >= 1

Serve(r) ==
  /\ r \notin served
  /\ Cost[r] = 0 \/ \E h \in Reqs : PaidWith(r, h)
  /\ served' = served \cup {r}
  /\ UNCHANGED <<balance, debited>>

Next == \E r \in Reqs : Charge(r) \/ Serve(r)

Spec == Init /\ [][Next]_vars
=============================================================================
