----------------------------- MODULE Settlement -----------------------------
(***************************************************************************)
(* The weekly payout: run_weekly_settlement of                             *)
(* apps/api/app/services/payout_settlement.py, started by the cron job     *)
(* apps/payouts/weekly_settlement.py or by hand, while record_revenue_split *)
(* appends rows to the ledger.                                             *)
(*                                                                         *)
(* A run is one process with one database transaction that is committed    *)
(* only at its end: marks and paid are its uncommitted changes, which hold *)
(* row locks.  The chain is outside the repository; it is what the code    *)
(* relies on: an account whose transactions are mined in nonce order, each *)
(* once, succeeding or reverting.                                          *)
(***************************************************************************)
EXTENDS Integers, FiniteSetsExt

CONSTANTS
  Quants,     \* quant profiles
  Entries,    \* rows of revenue_ledger that will be appended
  QuantOf,    \* QuantOf[e]: its quant_profile_id, None for a model of the house
  Gross,      \* Gross[e]: its gross_cents
  ShareBps,   \* ShareBps[q]: revenue_share_bps of the profile
  MinPayout,  \* MIN_PAYOUT_CENTS
  Runs,       \* executions of the settlement job
  None

ASSUME SettlementConstants ==
  /\ QuantOf \in [Entries -> Quants \cup {None}]
  /\ Gross \in [Entries -> Nat]
  /\ ShareBps \in [Quants -> Nat] /\ \A q \in Quants : ShareBps[q] <= 10000
  /\ MinPayout \in Nat \ {0}
  /\ None \notin Runs \cup Quants

VARIABLES
  ledger,     \* the committed rows
  settledBy,  \* settledBy[e]: settlement_batch_id, None while settled_at is null
  totalPaid,  \* totalPaid[q]: quant_profiles.total_paid_cents
  txs,        \* the transfers the chain has accepted
  pc,         \* pc[r]: where run r is
  rows,       \* rows[r]: the unsettled rows its SELECT summed
  todo,       \* todo[r]: the quants it has yet to pay
  current,    \* current[r]: the quant it is paying
  nonce,      \* nonce[r]: its local nonce
  marks,      \* marks[r]: rows it has marked settled, uncommitted
  paid        \* paid[r]: quants whose totals it has increased, uncommitted

dbVars  == <<ledger, settledBy, totalPaid>>
runVars == <<pc, rows, todo, current, nonce, marks, paid>>
vars    == <<dbVars, txs, runVars>>

Ended == {"confirmed", "failed", "crashed"}
RunPC == {"idle", "nonce", "pay", "receipt", "mark", "failing"} \cup Ended

CAPITAL_SHARE_BPS == 2000

QuantBps(e) == IF QuantOf[e] = None THEN 0 ELSE ShareBps[QuantOf[e]]

\* Mutant of CapitalBps: without the clamp.
CapitalBpsUnclamped(e) == CAPITAL_SHARE_BPS

\* The capital's share, clamped to what the quant's leaves.
CapitalBps(e) ==
  IF QuantBps(e) + CAPITAL_SHARE_BPS > 10000 THEN 10000 - QuantBps(e) ELSE CAPITAL_SHARE_BPS

\* The parts of a row; the protocol takes the rounding remainder.
QuantCents(e)    == (Gross[e] * QuantBps(e)) \div 10000
CapitalCents(e)  == (Gross[e] * CapitalBps(e)) \div 10000
ProtocolCents(e) == Gross[e] - QuantCents(e) - CapitalCents(e)

Owed(S) == SumFunctionOnSet([e \in S |-> QuantCents(e)], S)
Of(S, q) == {e \in S : QuantOf[e] = q}
Unsettled == {e \in ledger : settledBy[e] = None}

-----------------------------------------------------------------------------
(* The chain, external                                                     *)

Mined == {t \in txs : t.status # "pending"}
AtNonce(n) == {t \in txs : t.nonce = n}

\* get_transaction_count(address, "pending"): the first nonce nobody has used.
PendingCount ==
  CHOOSE n \in 0 .. Cardinality(txs) :
    AtNonce(n) = {} /\ \A m \in 0 .. n - 1 : AtNonce(m) # {}

\* The transaction with the next nonce is executed: transferred or reverted.
Mine ==
  \E t \in AtNonce(Cardinality(Mined)), s \in {"success", "reverted"} :
    /\ t.status = "pending"
    /\ txs' = (txs \ {t}) \cup {[t EXCEPT !.status = s]}
    /\ UNCHANGED <<dbVars, runVars>>

Received(q) == {t \in txs : t.to = q /\ t.status = "success"}
Transferred(q) == SumFunctionOnSet([t \in txs |-> t.cents], Received(q))

-----------------------------------------------------------------------------
(* The ledger                                                              *)

\* record_revenue_split: append one row and commit it.
RecordRevenueSplit(e) ==
  /\ e \notin ledger
  /\ ledger' = ledger \cup {e}
  /\ UNCHANGED <<settledBy, totalPaid, txs, runVars>>

-----------------------------------------------------------------------------
(* run_weekly_settlement                                                   *)

\* The SELECT ... GROUP BY quant HAVING sum >= MIN_PAYOUT_CENTS.  With no
\* row the batch is confirmed at once.
SumUnsettled(r) ==
  LET owed == {q \in Quants : Owed(Of(Unsettled, q)) >= MinPayout} IN
  /\ pc[r] = "idle"
  /\ rows' = [rows EXCEPT ![r] = {e \in Unsettled : QuantOf[e] \in owed}]
  /\ todo' = [todo EXCEPT ![r] = owed]
  /\ pc' = [pc EXCEPT ![r] = IF owed = {} THEN "confirmed" ELSE "nonce"]
  /\ UNCHANGED <<dbVars, txs, current, nonce, marks, paid>>

\* SETTLEMENT_PRIVATE_KEY is not configured.
NoKey(r) ==
  /\ pc[r] = "nonce"
  /\ pc' = [pc EXCEPT ![r] = "failed"]
  /\ UNCHANGED <<dbVars, txs, rows, todo, current, nonce, marks, paid>>

GetNonce(r) ==
  /\ pc[r] = "nonce"
  /\ nonce' = [nonce EXCEPT ![r] = PendingCount]
  /\ pc' = [pc EXCEPT ![r] = "pay"]
  /\ UNCHANGED <<dbVars, txs, rows, todo, current, marks, paid>>

\* send_raw_transaction for the next row accepts a transaction with a nonce
\* nobody has used; its answer can get lost on the way back.
Send(r, q) ==
  /\ pc[r] = "pay" /\ q \in todo[r]
  /\ AtNonce(nonce[r]) = {}
  /\ txs' = txs \cup {[run |-> r, to |-> q, nonce |-> nonce[r],
                      cents |-> Owed(Of(rows[r], q)), status |-> "pending"]}
  /\ current' = [current EXCEPT ![r] = q]
  /\ todo' = [todo EXCEPT ![r] = @ \ {q}]
  /\ \E to \in {"receipt", "failing"} : pc' = [pc EXCEPT ![r] = to]
  /\ UNCHANGED <<dbVars, rows, nonce, marks, paid>>

\* Nothing is sent: the nonce is used, the address is no address, the endpoint
\* is down.
SendFails(r) ==
  /\ pc[r] = "pay" /\ todo[r] # {}
  /\ pc' = [pc EXCEPT ![r] = "failing"]
  /\ UNCHANGED <<dbVars, txs, rows, todo, current, nonce, marks, paid>>

MyTx(r) == CHOOSE t \in txs : t.run = r /\ t.to = current[r]

\* Mutant of Receipt: receipt.status is not looked at.
ReceiptUnchecked(r) ==
  /\ pc[r] = "receipt"
  /\ MyTx(r).status # "pending"
  /\ pc' = [pc EXCEPT ![r] = "mark"]
  /\ UNCHANGED <<dbVars, txs, rows, todo, current, nonce, marks, paid>>

\* Mutant of Receipt: a reverted payout is tried again, with the next nonce.
ReceiptRetries(r) ==
  /\ pc[r] = "receipt"
  /\ MyTx(r).status # "pending"
  /\ IF MyTx(r).status = "success"
       THEN pc' = [pc EXCEPT ![r] = "mark"] /\ UNCHANGED <<todo, nonce>>
       ELSE /\ pc' = [pc EXCEPT ![r] = "pay"]
            /\ todo' = [todo EXCEPT ![r] = @ \cup {current[r]}]
            /\ nonce' = [nonce EXCEPT ![r] = @ + 1]
  /\ UNCHANGED <<dbVars, txs, rows, current, marks, paid>>

\* The receipt.  After a revert the loop goes on with the same nonce.
Receipt(r) ==
  /\ pc[r] = "receipt"
  /\ MyTx(r).status # "pending"
  /\ pc' = [pc EXCEPT ![r] = IF MyTx(r).status = "success" THEN "mark" ELSE "pay"]
  /\ UNCHANGED <<dbVars, txs, rows, todo, current, nonce, marks, paid>>

\* Another run holds the row of quant q: the UPDATE waits for its commit.
RowLocked(r, q) == \E s \in Runs \ {r} : q \in paid[s]

\* Mutant of Mark: UPDATE without settled_at IS NULL.
MarkAll(r) ==
  LET q == current[r] IN
  /\ pc[r] = "mark"
  /\ ~RowLocked(r, q)
  /\ marks' = [marks EXCEPT ![r] = @ \cup Of(ledger, q)]
  /\ paid' = [paid EXCEPT ![r] = @ \cup {q}]
  /\ nonce' = [nonce EXCEPT ![r] = @ + 1]
  /\ pc' = [pc EXCEPT ![r] = "pay"]
  /\ UNCHANGED <<dbVars, txs, rows, todo, current>>

\* Mark every row of the quant that is unsettled now, and add what was sent
\* to its total.
Mark(r) ==
  LET q == current[r] IN
  /\ pc[r] = "mark"
  /\ ~RowLocked(r, q)
  /\ marks' = [marks EXCEPT ![r] = @ \cup Of(Unsettled, q)]
  /\ paid' = [paid EXCEPT ![r] = @ \cup {q}]
  /\ nonce' = [nonce EXCEPT ![r] = @ + 1]
  /\ pc' = [pc EXCEPT ![r] = "pay"]
  /\ UNCHANGED <<dbVars, txs, rows, todo, current>>

\* An exception of the RPC endpoint, among them wait_for_transaction_receipt
\* after 120 s: the transaction may still be mined later.
Raise(r) ==
  /\ pc[r] \in {"nonce", "receipt"}
  /\ pc' = [pc EXCEPT ![r] = "failing"]
  /\ UNCHANGED <<dbVars, txs, rows, todo, current, nonce, marks, paid>>

\* Mutant of Commit: the totals grow by what the marked rows are worth.
CommitMarked(r) ==
  /\ \/ pc[r] = "pay" /\ todo[r] = {} /\ pc' = [pc EXCEPT ![r] = "confirmed"]
     \/ pc[r] = "failing" /\ pc' = [pc EXCEPT ![r] = "failed"]
  /\ settledBy' = [e \in Entries |-> IF e \in marks[r] THEN r ELSE settledBy[e]]
  /\ totalPaid' = [q \in Quants |-> totalPaid[q] + Owed(Of(marks[r], q))]
  /\ marks' = [marks EXCEPT ![r] = {}]
  /\ paid' = [paid EXCEPT ![r] = {}]
  /\ UNCHANGED <<ledger, txs, rows, todo, current, nonce>>

\* The commit of the session: the marks and totals of the rows paid so far,
\* with the batch confirmed after the loop or failed in the except branch.
Commit(r) ==
  /\ \/ pc[r] = "pay" /\ todo[r] = {} /\ pc' = [pc EXCEPT ![r] = "confirmed"]
     \/ pc[r] = "failing" /\ pc' = [pc EXCEPT ![r] = "failed"]
  /\ settledBy' = [e \in Entries |-> IF e \in marks[r] THEN r ELSE settledBy[e]]
  /\ totalPaid' = [q \in Quants |-> IF q \in paid[r] THEN totalPaid[q] + Owed(Of(rows[r], q))
                                     ELSE totalPaid[q]]
  /\ marks' = [marks EXCEPT ![r] = {}]
  /\ paid' = [paid EXCEPT ![r] = {}]
  /\ UNCHANGED <<ledger, txs, rows, todo, current, nonce>>

\* Mutant of Crash: what the run has marked stays marked.
CrashKeepsMarks(r) ==
  /\ pc[r] \notin Ended \cup {"idle"}
  /\ pc' = [pc EXCEPT ![r] = "crashed"]
  /\ UNCHANGED <<dbVars, txs, rows, todo, current, nonce, marks, paid>>

\* The job dies, or a statement fails (a deadlock of two runs included) and
\* the commit of the except branch with it: the transaction is rolled back.
Crash(r) ==
  /\ pc[r] \notin Ended \cup {"idle"}
  /\ pc' = [pc EXCEPT ![r] = "crashed"]
  /\ marks' = [marks EXCEPT ![r] = {}]
  /\ paid' = [paid EXCEPT ![r] = {}]
  /\ UNCHANGED <<dbVars, txs, rows, todo, current, nonce>>

-----------------------------------------------------------------------------

Init ==
  /\ ledger = {}
  /\ settledBy = [e \in Entries |-> None]
  /\ totalPaid = [q \in Quants |-> 0]
  /\ txs = {}
  /\ pc = [r \in Runs |-> "idle"]
  /\ rows = [r \in Runs |-> {}]
  /\ todo = [r \in Runs |-> {}]
  /\ current = [r \in Runs |-> None]
  /\ nonce = [r \in Runs |-> 0]
  /\ marks = [r \in Runs |-> {}]
  /\ paid = [r \in Runs |-> {}]

Settle(r) ==
  \/ SumUnsettled(r)
  \/ NoKey(r)
  \/ GetNonce(r)
  \/ \E q \in Quants : Send(r, q)
  \/ SendFails(r)
  \/ Receipt(r)
  \/ Mark(r)
  \/ Raise(r)
  \/ Commit(r)
  \/ Crash(r)

Next ==
  \/ \E e \in Entries : RecordRevenueSplit(e)
  \/ \E r \in Runs : Settle(r)
  \/ Mine

Spec == Init /\ [][Next]_vars

-----------------------------------------------------------------------------
(* Properties                                                              *)

Transfer == [run : Runs, to : Quants, nonce : Nat, cents : Nat,
             status : {"pending", "success", "reverted"}]

\* Every variable has its type; uncommitted changes belong to a live run.
TypeOK ==
  /\ ledger \subseteq Entries
  /\ settledBy \in [Entries -> Runs \cup {None}]
  /\ totalPaid \in [Quants -> Nat]
  /\ txs \subseteq Transfer
  /\ pc \in [Runs -> RunPC]
  /\ rows \in [Runs -> SUBSET Entries]
  /\ todo \in [Runs -> SUBSET Quants]
  /\ current \in [Runs -> Quants \cup {None}]
  /\ nonce \in [Runs -> Nat]
  /\ marks \in [Runs -> SUBSET Entries]
  /\ paid \in [Runs -> SUBSET Quants]
  /\ \A r \in Runs :
       /\ pc[r] \in {"receipt", "mark"} => current[r] \in Quants
       /\ pc[r] \in Ended => marks[r] = {} /\ paid[r] = {}

\* A row never promises more than was earned: no part is negative, whatever
\* share a quant has (payout_settlement.py:49-61, the clamp and the remainder).
SplitWithinGross ==
  \A e \in ledger : QuantCents(e) >= 0 /\ CapitalCents(e) >= 0 /\ ProtocolCents(e) >= 0

\* A row is settled only by a run that has transferred to its quant and seen
\* the transfer succeed, whatever crashed, timed out or reverted around it
\* (payout_settlement.py:174-200).
SettledWasTransferred ==
  \A e \in Entries : settledBy[e] # None =>
    \E t \in txs : t.run = settledBy[e] /\ t.to = QuantOf[e] /\ t.status = "success"

\* Once settled, a row keeps its batch: two runs at once, each with its own
\* snapshot, never settle a row twice (payout_settlement.py:191-199).
SettledForever ==
  [][\A e \in Entries : settledBy[e] # None => settledBy'[e] = settledBy[e]]_vars

\* The books never say that more was paid than reached the quant on chain
\* (payout_settlement.py:183-205 run after the receipt and commit together).
BooksWithinChain == \A q \in Quants : totalPaid[q] <= Transferred(q)

\* A run sends at most one transfer to a quant: a failed or reverted payout
\* is not repeated within the batch (payout_settlement.py:156-181).
OneTransferPerRun ==
  \A t, s \in txs : t.run = s.run /\ t.to = s.to => t = s

\* The job implements the payout book: whatever reverts, times out, dies or
\* runs twice, money arrives in transfers of whole shares of the ledger, and
\* every batch is booked once, at the end (payout_settlement.py:111-223).
Book == INSTANCE Payouts WITH
  Worth    <- [e \in Entries |-> QuantCents(e)],
  received <- {[run |-> t.run, to |-> t.to, cents |-> t.cents] :
                 t \in {u \in txs : u.status = "success"}},
  closed   <- {r \in Runs : pc[r] \in Ended}
ImplementsPayouts == Book!Spec

\* "Compute owed amounts, submit on-chain USDC transfers, mark ledger as
\* settled" (payout_settlement.py:103): what is marked settled was sent.
SettledIsPaid ==
  \A q \in Quants :
    Owed({e \in Entries : settledBy[e] # None /\ QuantOf[e] = q}) <= Transferred(q)
=============================================================================
