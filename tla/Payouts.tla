------------------------------ MODULE Payouts ------------------------------
(***************************************************************************)
(* What the payout book promises, without nonces, receipts, row locks or   *)
(* an account that reverts: a batch sends a quant at most one transfer,    *)
(* for the quant's share in rows of the ledger that reach the minimum; it  *)
(* is closed once, in one step that settles rows of the quants it has paid *)
(* and adds to their totals exactly what it sent them.  Settlement is      *)
(* shown to implement this specification.                                  *)
(***************************************************************************)
EXTENDS Integers, FiniteSetsExt

CONSTANTS Quants, Entries, QuantOf, Worth, MinPayout, Runs, None

VARIABLES
  ledger,     \* the rows
  settledBy,  \* settledBy[e]: the batch that settled row e
  totalPaid,  \* totalPaid[q]: what the books say quant q was paid
  received,   \* the transfers that reached a quant
  closed      \* the batches that are over

vars == <<ledger, settledBy, totalPaid, received, closed>>

Init ==
  /\ ledger = {}
  /\ settledBy = [e \in Entries |-> None]
  /\ totalPaid = [q \in Quants |-> 0]
  /\ received = {}
  /\ closed = {}

RowsOf(q) == {e \in ledger : QuantOf[e] = q}
SentBy(r) == {t \in received : t.run = r}

Append(e) ==
  /\ e \notin ledger
  /\ ledger' = ledger \cup {e}
  /\ UNCHANGED <<settledBy, totalPaid, received, closed>>

\* A transfer may arrive after its batch was closed.
Transfer(r, q, S) ==
  LET cents == SumFunctionOnSet(Worth, S) IN
  /\ \A t \in SentBy(r) : t.to # q
  /\ cents >= MinPayout
  /\ received' = received \cup {[run |-> r, to |-> q, cents |-> cents]}
  /\ UNCHANGED <<ledger, settledBy, totalPaid, closed>>

\* The transfers P are booked and the rows S settled.
Close(r, P, S) ==
  /\ r \notin closed
  /\ \A e \in S : settledBy[e] = None /\ \E t \in P : t.to = QuantOf[e]
  /\ settledBy' = [e \in Entries |-> IF e \in S THEN r ELSE settledBy[e]]
  /\ totalPaid' =
       [q \in Quants |->
          totalPaid[q] + SumFunctionOnSet([t \in P |-> t.cents], {t \in P : t.to = q})]
  /\ closed' = closed \cup {r}
  /\ UNCHANGED <<ledger, received>>

Next ==
  \/ \E e \in Entries : Append(e)
  \/ \E r \in Runs, q \in Quants : \E S \in SUBSET RowsOf(q) : Transfer(r, q, S)
  \/ \E r \in Runs : \E P \in SUBSET SentBy(r), S \in SUBSET ledger : Close(r, P, S)

Spec == Init /\ [][Next]_vars
=============================================================================
