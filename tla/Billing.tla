------------------------------ MODULE Billing ------------------------------
(***************************************************************************)
(* Deposits: credit_balance of apps/api/app/core/balance.py called by the  *)
(* two payment webhooks of routers/billing.py, next to the paid calls of   *)
(* Balance, whose lock and balance row they share.                         *)
(*                                                                         *)
(* A delivery is one HTTP call of a webhook; a redelivery or a duplicate   *)
(* is another delivery of the same transfers.  A Coinbase payload has one  *)
(* charge, an Alchemy payload a list of activities.  A delivery is cut at  *)
(* its awaits.  Its database session keeps the User object it has loaded   *)
(* (expire_on_commit=False, and the handler refers to it), so that db.get  *)
(* in credit_balance finds it in the identity map and reads no row.        *)
(***************************************************************************)
EXTENDS Balance, Sequences, SequencesExt

CONSTANTS
  Transfers,   \* (source, tx_hash): a Coinbase charge or a USDC transfer
  Source,      \* Source[d] \in {"coinbase", "onchain"}: the endpoint of delivery d
  Payload,     \* Payload[d]: the transfers delivery d reports, in order
  Payee,       \* Payee[t]: the user a transfer belongs to, None if unknown
  Cents        \* Cents[t]: its amount

ASSUME BillingConstants ==
  /\ Source \in [Deliveries -> {"coinbase", "onchain"}]
  /\ Payload \in [Deliveries -> Seq(Transfers)]
  /\ \A d \in Deliveries : Payload[d] # <<>>
  /\ \A d \in Deliveries : Source[d] = "coinbase" => Len(Payload[d]) = 1
  /\ Payee \in [Transfers -> Users \cup {None}]
  /\ Cents \in [Transfers -> Nat]
  /\ None \notin Users

VARIABLES
  deposits,   \* the committed rows of usdc_deposits, unique (source, tx_hash)
  dpc,        \* dpc[d]: the await delivery d is suspended at
  at,         \* at[d]: the position in the payload
  who,        \* who[d]: the user object in d's session, None before the first
  seen,       \* seen[d]: its balance_usd_cents as the session knows it
  pending,    \* pending[d]: the deposits added to d's session, not committed
  creditedBy  \* history: creditedBy[t], the deliveries that committed a credit

billingVars == <<deposits, dpc, at, who, seen, pending, creditedBy>>
allVars     == <<vars, billingVars>>
requestVars == <<holds, idem, confirmed, localVars, historyVars>>

CreditSection == {"credit", "unlock", "abort"}
DeliveryEnd   == {"done", "failed", "crashed"}
Tx(d) == Payload[d][at[d]]

DGoto(d, from, to) ==
  /\ dpc[d] = from
  /\ dpc' = [dpc EXCEPT ![d] = to]

\* Where the handler goes when transfer at[d] needs no credit: the Coinbase
\* handler returns, the loop of the other goes on and commits at its end.
Skip(d) ==
  /\ at' = [at EXCEPT ![d] = @ + 1]
  /\ dpc' = [dpc EXCEPT ![d] = IF Source[d] = "coinbase" THEN "done"
                               ELSE IF at[d] < Len(Payload[d]) THEN "new" ELSE "commit"]

-----------------------------------------------------------------------------
(* The handlers up to credit_balance                                       *)

\* Idempotency check: a SELECT, which does not see what other sessions have
\* not committed nor, with autoflush off, what this one has only added.
CheckDeposit(d) ==
  /\ dpc[d] = "new"
  /\ IF Tx(d) \in deposits THEN Skip(d) ELSE DGoto(d, "new", "load") /\ UNCHANGED at
  /\ UNCHANGED <<balance, lock, requestVars, deposits, who, seen, pending, creditedBy>>

\* Load the payee.  An object the session already has keeps its attributes; one
\* the handler no longer refers to is gone from the session.
LoadUser(d) ==
  LET u == Payee[Tx(d)] IN
  /\ dpc[d] = "load"
  /\ who' = [who EXCEPT ![d] = u]
  /\ IF u = None
       THEN Skip(d) /\ UNCHANGED seen
       ELSE /\ DGoto(d, "load", "wait")
            /\ seen' = [seen EXCEPT ![d] = IF who[d] = u THEN @ ELSE balance[u]]
            /\ UNCHANGED at
  /\ UNCHANGED <<balance, lock, requestVars, deposits, pending, creditedBy>>

-----------------------------------------------------------------------------
(* credit_balance                                                          *)

CreditAcquire(d) ==
  /\ DGoto(d, "wait", "credit")
  /\ lock[who[d]] = None
  /\ lock' = [lock EXCEPT ![who[d]] = d]
  /\ UNCHANGED <<balance, requestVars, deposits, at, who, seen, pending, creditedBy>>

\* Mutant of CreditGivesUp: the LockError is caught and the loop goes on.
CreditGivesUpUnnoticed(d) ==
  /\ DGoto(d, "wait", "record")
  /\ lock[who[d]] # None
  /\ UNCHANGED <<balance, lock, requestVars, deposits, at, who, seen, pending, creditedBy>>

\* Mutant of CreditGivesUp: the LockError is answered with 200.
CreditGivesUpAcked(d) ==
  /\ DGoto(d, "wait", "done")
  /\ lock[who[d]] # None
  /\ pending' = [pending EXCEPT ![d] = {}]
  /\ UNCHANGED <<balance, lock, requestVars, deposits, at, who, seen, creditedBy>>

\* LockError after blocking_timeout: get_db rolls the session back.
CreditGivesUp(d) ==
  /\ dpc[d] = "wait"
  /\ lock[who[d]] # None
  /\ dpc' = [dpc EXCEPT ![d] = "failed"]
  /\ pending' = [pending EXCEPT ![d] = {}]
  /\ UNCHANGED <<balance, lock, requestVars, deposits, at, who, seen, creditedBy>>

\* UPDATE to the value the session knows plus cents, and COMMIT, which also
\* inserts the deposits the loop has added so far.  When another delivery has
\* inserted one of them first, the whole transaction is rolled back.
CreditCommit(d) ==
  LET u == who[d]
      t == Tx(d)
  IN /\ dpc[d] = "credit"
     /\ pending' = [pending EXCEPT ![d] = {}]
     /\ \/ /\ pending[d] \cap deposits = {}
           /\ dpc' = [dpc EXCEPT ![d] = "unlock"]
           /\ balance' = [balance EXCEPT ![u] = seen[d] + Cents[t]]
           /\ seen' = [seen EXCEPT ![d] = @ + Cents[t]]
           /\ deposits' = deposits \cup pending[d]
           /\ creditedBy' = [creditedBy EXCEPT ![t] = @ \cup {d}]
        \/ /\ pending[d] \cap deposits # {}
           /\ dpc' = [dpc EXCEPT ![d] = "abort"]
           /\ UNCHANGED <<balance, seen, deposits, creditedBy>>
     /\ UNCHANGED <<lock, requestVars, at, who>>

\* Leaving the lock; an expired lock is an error although the credit is made.
CreditUnlock(d) ==
  /\ dpc[d] \in {"unlock", "abort"}
  /\ IF lock[who[d]] = d
       THEN /\ lock' = [lock EXCEPT ![who[d]] = None]
            /\ dpc' = [dpc EXCEPT ![d] = IF @ = "unlock" THEN "record" ELSE "failed"]
       ELSE /\ lock' = lock
            /\ dpc' = [dpc EXCEPT ![d] = "failed"]
  /\ UNCHANGED <<balance, requestVars, deposits, at, who, seen, pending, creditedBy>>

-----------------------------------------------------------------------------
(* The handlers after credit_balance                                       *)

\* Add the deposit row: the loop goes on, or the commit follows.
Record(d) ==
  /\ dpc[d] = "record"
  /\ pending' = [pending EXCEPT ![d] = @ \cup {Tx(d)}]
  /\ at' = [at EXCEPT ![d] = @ + 1]
  /\ dpc' = [dpc EXCEPT ![d] = IF Source[d] = "onchain" /\ at[d] < Len(Payload[d])
                                 THEN "new" ELSE "commit"]
  /\ UNCHANGED <<balance, lock, requestVars, deposits, who, seen, creditedBy>>

\* The last commit of the handler, in a transaction of its own.  The unique
\* constraint (source, tx_hash) refuses a row that is there: a 500 response.
CommitDeposits(d) ==
  /\ DGoto(d, "commit", IF pending[d] \cap deposits = {} THEN "done" ELSE "failed")
  /\ deposits' = IF pending[d] \cap deposits = {} THEN deposits \cup pending[d] ELSE deposits
  /\ pending' = [pending EXCEPT ![d] = {}]
  /\ UNCHANGED <<balance, lock, requestVars, at, who, seen, creditedBy>>

DeliveryCrash(d) ==
  /\ dpc[d] \notin DeliveryEnd \cup {"new"} \/ (dpc[d] = "new" /\ at[d] > 1)
  /\ dpc' = [dpc EXCEPT ![d] = "crashed"]
  /\ pending' = [pending EXCEPT ![d] = {}]
  /\ UNCHANGED <<balance, lock, requestVars, deposits, at, who, seen, creditedBy>>

DeliveryLockExpires(u) ==
  /\ lock[u] \in Deliveries
  /\ SlowSections \/ dpc[lock[u]] \notin CreditSection
  /\ lock' = [lock EXCEPT ![u] = None]
  /\ UNCHANGED <<balance, requestVars, billingVars>>

-----------------------------------------------------------------------------

BillingInit ==
  /\ Init
  /\ deposits = {}
  /\ dpc = [d \in Deliveries |-> "new"]
  /\ at = [d \in Deliveries |-> 1]
  /\ who = [d \in Deliveries |-> None]
  /\ seen = [d \in Deliveries |-> 0]
  /\ pending = [d \in Deliveries |-> {}]
  /\ creditedBy = [t \in Transfers |-> {}]

Deliver(d) ==
  \/ CheckDeposit(d)
  \/ LoadUser(d)
  \/ CreditAcquire(d)
  \/ CreditGivesUp(d)
  \/ CreditCommit(d)
  \/ CreditUnlock(d)
  \/ Record(d)
  \/ CommitDeposits(d)

BillingNext ==
  \/ Next /\ UNCHANGED billingVars
  \/ \E d \in Deliveries : Deliver(d) \/ DeliveryCrash(d)
  \/ \E u \in Users : DeliveryLockExpires(u)

BillingSpec == BillingInit /\ [][BillingNext]_allVars

-----------------------------------------------------------------------------
(* Properties                                                              *)

\* A deposit row, committed or waiting in a session, stands for a credit that
\* was committed before it: no top-up is marked processed and never paid, at
\* whatever point a delivery dies (billing.py:100-113, 172-184).
DepositWasCredited ==
  \A t \in Transfers :
    t \in deposits \cup UNION {pending[d] : d \in Deliveries} => creditedBy[t] # {}

\* A 2xx answer, after which nobody delivers again, means that every transfer
\* of a known payee in the payload is recorded and credited, also when another
\* delivery did it (billing.py:92-125, 145-185), and that of the deliveries
\* that credited it no other is answered so: a transfer credited twice shows
\* as an error (the unique constraint of usdc_deposits, alembic 003).
AckedIsRecorded ==
  \A d \in Deliveries : dpc[d] = "done" =>
    \A t \in {tx \in ToSet(Payload[d]) : Payee[tx] # None} :
      /\ t \in deposits
      /\ creditedBy[t] # {}
      /\ \A e \in creditedBy[t] \ {d} : d \in creditedBy[t] => dpc[e] # "done"

\* "Replay-safe — duplicate webhooks return already_processed" (billing.py:54):
\* a transfer is credited once, however often it is delivered.
CreditedOnce == \A t \in Transfers : Cardinality(creditedBy[t]) <= 1

\* "Atomic credit via balance module (shares lock with debit path)"
\* (billing.py:100): the balance is what was there, plus the credits, less the
\* debits.
NoLostUpdate ==
  \A u \in Users :
    balance[u] + charged[u] =
      InitBal[u] + MapThenSumSet(LAMBDA t : Cents[t] * Cardinality(creditedBy[t]),
                                 {t \in Transfers : Payee[t] = u})
=============================================================================
