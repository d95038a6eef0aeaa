-------------------------- MODULE SettlementProofs --------------------------
(***************************************************************************)
(* Theorems about Settlement for every set of quants, rows and runs, every *)
(* share and every amount.                                                 *)
(***************************************************************************)
EXTENDS Settlement, SumLemmas

(***************************************************************************)
(* The part of TypeOK that does not speak of sums.                         *)
(***************************************************************************)

TxFields == {"run", "to", "nonce", "cents", "status"}

TxType ==
  \A t \in txs : /\ DOMAIN t = TxFields
                 /\ t.run \in Runs
                 /\ t.to \in Quants

Types ==
  /\ ledger \subseteq Entries
  /\ settledBy \in [Entries -> Runs \cup {None}]
  /\ pc \in [Runs -> RunPC]
  /\ rows \in [Runs -> SUBSET Entries]
  /\ todo \in [Runs -> SUBSET Quants]
  /\ current \in [Runs -> Quants \cup {None}]
  /\ marks \in [Runs -> SUBSET Entries]
  /\ paid \in [Runs -> SUBSET Quants]
  /\ TxType
  /\ \A r \in Runs : pc[r] \in {"receipt", "mark"} => current[r] \in Quants

\* Init establishes the types.
LEMMA TypesInit == Init => Types
BY DEF Init, Types, TxType, RunPC, Ended

\* Mine replaces one pending transfer by itself with another status.
LEMMA MineStep ==
  ASSUME TxType, Mine
  PROVE  /\ UNCHANGED <<dbVars, runVars>>
         /\ \E t \in txs : \E n :
              /\ DOMAIN n = TxFields /\ n.run = t.run /\ n.to = t.to
              /\ t.status = "pending"
              /\ txs' = (txs \ {t}) \cup {n}
<1>1. PICK t \in txs, s \in {"success", "reverted"} :
        t.status = "pending" /\ txs' = (txs \ {t}) \cup {[t EXCEPT !.status = s]}
  BY DEF Mine, AtNonce
<1> DEFINE n == [t EXCEPT !.status = s]
<1>2. DOMAIN n = TxFields /\ n.run = t.run /\ n.to = t.to
  BY DEF TxType, TxFields
<1>3. txs' = (txs \ {t}) \cup {n}
  BY <1>1
<1> HIDE DEF n
<1>4. QED
  BY <1>1, <1>2, <1>3 DEF Mine

\* Every step keeps the types.
LEMMA TypesStep == Types /\ [Next]_vars => Types'
<1> SUFFICES ASSUME Types, [Next]_vars PROVE Types'
  OBVIOUS
<1> USE SettlementConstants DEF Types, RunPC, Ended, dbVars, runVars
<1>1. ASSUME NEW e \in Entries, RecordRevenueSplit(e) PROVE Types'
  BY <1>1 DEF RecordRevenueSplit, TxType
<1>2. ASSUME NEW r \in Runs, SumUnsettled(r) PROVE Types'
  <2> DEFINE owed == {q \in Quants : Owed(Of(Unsettled, q)) >= MinPayout}
  <2>1. owed \subseteq Quants /\ {e \in Unsettled : QuantOf[e] \in owed} \subseteq Entries
    BY DEF Unsettled
  <2>2. QED
    BY <1>2, <2>1 DEF SumUnsettled, TxType
<1>3. ASSUME NEW r \in Runs, NoKey(r) PROVE Types'
  BY <1>3 DEF NoKey, TxType
<1>4. ASSUME NEW r \in Runs, GetNonce(r) PROVE Types'
  BY <1>4 DEF GetNonce, TxType
<1>5. ASSUME NEW r \in Runs, NEW q \in Quants, Send(r, q) PROVE Types'
  <2> DEFINE new == [run |-> r, to |-> q, nonce |-> nonce[r],
                     cents |-> Owed(Of(rows[r], q)), status |-> "pending"]
  <2>1. DOMAIN new = TxFields /\ new.run = r /\ new.to = q
    BY DEF TxFields
  <2>2. txs' = txs \cup {new}
    BY <1>5 DEF Send
  <2> HIDE DEF new
  <2>3. TxType'
    BY <2>1, <2>2 DEF TxType
  <2>4. QED
    BY <1>5, <2>3 DEF Send
<1>6. ASSUME NEW r \in Runs, SendFails(r) PROVE Types'
  BY <1>6 DEF SendFails, TxType
<1>7. ASSUME NEW r \in Runs, Receipt(r) PROVE Types'
  BY <1>7 DEF Receipt, TxType
<1>8. ASSUME NEW r \in Runs, Mark(r) PROVE Types'
  BY <1>8 DEF Mark, TxType, Of, Unsettled
<1>9. ASSUME NEW r \in Runs, Raise(r) PROVE Types'
  BY <1>9 DEF Raise, TxType
<1>10. ASSUME NEW r \in Runs, Commit(r) PROVE Types'
  BY <1>10 DEF Commit, TxType
<1>11. ASSUME NEW r \in Runs, Crash(r) PROVE Types'
  BY <1>11 DEF Crash, TxType
<1>12. CASE Mine
  BY <1>12, MineStep DEF TxType
<1>13. CASE UNCHANGED vars
  BY <1>13 DEF vars, TxType
<1>14. QED
  BY <1>1, <1>2, <1>3, <1>4, <1>5, <1>6, <1>7, <1>8, <1>9, <1>10, <1>11, <1>12, <1>13
     DEF Next, Settle

\* The types hold in every reachable state.
THEOREM TypesCorrect == Spec => []Types
BY TypesInit, TypesStep, PTL DEF Spec

-----------------------------------------------------------------------------
(***************************************************************************)
(* Safety.  What the chain has done stays done, so it is enough to follow  *)
(* one transfer from Send to the Commit that settles its rows.             *)
(***************************************************************************)

Sent(r, q) == \E t \in txs : t.run = r /\ t.to = q /\ t.status = "success"

Once == OneTransferPerRun

\* A transfer exists only of a run that has begun, to a quant no longer due.
NotYet == \A t \in txs : pc[t.run] # "idle" /\ t.to \notin todo[t.run]

\* A run waits for the receipt of a transfer it has sent.
Awaited ==
  \A r \in Runs : pc[r] = "receipt" => \E t \in txs : t.run = r /\ t.to = current[r]

\* A run that is about to mark has seen its transfer succeed.
MarkSent == \A r \in Runs : pc[r] = "mark" => Sent(r, current[r])

\* The uncommitted marks: transferred, not yet settled, under the row lock.
MarksSent ==
  \A r \in Runs, e \in Entries : e \in marks[r] =>
    Sent(r, QuantOf[e]) /\ settledBy[e] = None /\ QuantOf[e] \in paid[r]

\* The row locks exclude each other.
PaidApart == \A r, s \in Runs : r # s => paid[r] \cap paid[s] = {}

Settled == \A e \in Entries : settledBy[e] # None => Sent(settledBy[e], QuantOf[e])

Inv == /\ Types /\ Once /\ NotYet /\ Awaited /\ MarkSent
       /\ MarksSent /\ PaidApart /\ Settled

\* Send adds one transfer of its run to its quant.
LEMMA SendStep ==
  ASSUME NEW r, NEW q, Send(r, q)
  PROVE  \E n : n.run = r /\ n.to = q /\ txs' = txs \cup {n}
<1> DEFINE new == [run |-> r, to |-> q, nonce |-> nonce[r],
                   cents |-> Owed(Of(rows[r], q)), status |-> "pending"]
<1>1. new.run = r /\ new.to = q
  OBVIOUS
<1>2. txs' = txs \cup {new}
  BY DEF Send
<1> HIDE DEF new
<1>3. QED
  BY <1>1, <1>2

\* How the transfers change: not at all, by a new one, or by mining one.
LEMMA TxsStep ==
  ASSUME Types, [Next]_vars
  PROVE  \/ txs' = txs
         \/ \E n : txs' = txs \cup {n}
         \/ \E t \in txs : \E n : /\ n.run = t.run /\ n.to = t.to /\ t.status = "pending"
                                 /\ txs' = (txs \ {t}) \cup {n}
<1>1. CASE Mine
  BY <1>1, MineStep DEF Types
<1>2. CASE UNCHANGED vars
  BY <1>2 DEF vars
<1>3. QED
  BY <1>1, <1>2, SendStep
     DEF Next, Settle, RecordRevenueSplit, SumUnsettled, NoKey, GetNonce, SendFails, Receipt,
         Mark, Raise, Commit, Crash

\* A transfer that succeeded stays.
LEMMA SentStays ==
  ASSUME Types, [Next]_vars, NEW r, NEW q, Sent(r, q)
  PROVE  Sent(r, q)'
BY TxsStep DEF Sent

\* A run sends each payout once: the transfers of a run that has not begun
\* do not exist, and a quant leaves todo with its transfer.
LEMMA OnceStep ==
  ASSUME Types, Once, NotYet, [Next]_vars
  PROVE  Once' /\ NotYet'
<1> USE DEF Once, OneTransferPerRun, NotYet
<1>0. \A t \in txs : t.run \in Runs /\ t.to \in Quants
  BY DEF Types, TxType
<1>1. ASSUME NEW r \in Runs, NEW q \in Quants, Send(r, q) PROVE Once' /\ NotYet'
  <2>1. PICK n : n.run = r /\ n.to = q /\ txs' = txs \cup {n}
    BY <1>1, SendStep
  <2>2. q \in todo[r] /\ todo' = [todo EXCEPT ![r] = @ \ {q}]
    BY <1>1 DEF Send
  <2>3. Once'
    BY <2>1, <2>2
  <2>4. pc'[r] # "idle"
    BY <1>1 DEF Send, Types
  <2>5. \A s \in Runs : pc[s] # "idle" => pc'[s] # "idle"
    BY <1>1 DEF Send, Types
  <2>6. NotYet'
    BY <1>0, <2>1, <2>2, <2>4, <2>5 DEF Types
  <2>7. QED
    BY <2>3, <2>6
<1>2. CASE Mine
  <2>1. PICK t \in txs : \E n : /\ n.run = t.run /\ n.to = t.to
                               /\ txs' = (txs \ {t}) \cup {n}
    BY <1>2, MineStep DEF Types
  <2>2. todo' = todo /\ pc' = pc
    BY <1>2 DEF Mine, runVars
  <2>3. QED
    BY <2>1, <2>2
<1>3. ASSUME NEW r \in Runs, SumUnsettled(r) PROVE Once' /\ NotYet'
  BY <1>0, <1>3 DEF SumUnsettled, Types
<1>4. ASSUME txs' = txs, todo' = todo,
             \A s \in Runs : pc[s] # "idle" => pc'[s] # "idle"
      PROVE  Once' /\ NotYet'
  BY <1>0, <1>4
<1>5. CASE UNCHANGED vars
  BY <1>4, <1>5 DEF vars, runVars
<1>6. CASE \E e \in Entries : RecordRevenueSplit(e)
  BY <1>4, <1>6 DEF RecordRevenueSplit, runVars
<1>7. ASSUME NEW r \in Runs, \/ NoKey(r) \/ GetNonce(r) \/ SendFails(r) \/ Receipt(r)
                             \/ Mark(r) \/ Raise(r) \/ Commit(r) \/ Crash(r)
      PROVE  Once' /\ NotYet'
  <2>1. \A s \in Runs : pc[s] # "idle" => pc'[s] # "idle"
    BY <1>7 DEF NoKey, GetNonce, SendFails, Receipt, Mark, Raise, Commit, Crash, Types
  <2>2. QED
    BY <1>4, <1>7, <2>1 DEF NoKey, GetNonce, SendFails, Receipt, Mark, Raise, Commit, Crash
<1>8. QED
  BY <1>1, <1>2, <1>3, <1>5, <1>6, <1>7 DEF Next, Settle

\* A run that waits has sent, and goes on to mark only after a success.
LEMMA AwaitedStep ==
  ASSUME Types, Once, Awaited, MarkSent, [Next]_vars
  PROVE  Awaited' /\ MarkSent'
<1> DEFINE Waits(r) == pc[r] = "receipt" => \E t \in txs : t.run = r /\ t.to = current[r]
           Marks(r) == pc[r] = "mark" => Sent(r, current[r])
<1>1. ASSUME NEW r \in Runs, pc'[r] = pc[r], current'[r] = current[r]
      PROVE  Waits(r)' /\ Marks(r)'
  <2>1. ASSUME NEW t \in txs PROVE \E u \in txs' : u.run = t.run /\ u.to = t.to
    BY TxsStep
  <2>2. Waits(r)'
    BY <1>1, <2>1 DEF Awaited
  <2>3. ASSUME NEW q, Sent(r, q)
        PROVE  \E t \in txs' : t.run = r /\ t.to = q /\ t.status = "success"
    BY <2>3, SentStays DEF Sent
  <2>4. Marks(r)'
    <3>1. pc'[r] = "mark" => Sent(r, current[r])
      BY <1>1 DEF MarkSent
    <3>2. pc'[r] = "mark" =>
            \E t \in txs' : t.run = r /\ t.to = current[r] /\ t.status = "success"
      BY <2>3, <3>1
    <3>3. QED
      BY <1>1, <3>2 DEF Sent
  <2>5. QED
    BY <2>2, <2>4
<1>2. ASSUME NEW r \in Runs, NEW q \in Quants, Send(r, q) PROVE Waits(r)' /\ Marks(r)'
  <2>1. current'[r] = q /\ pc'[r] # "mark"
    BY <1>2 DEF Send, Types
  <2>2. QED
    BY <1>2, <2>1, SendStep
<1>3. ASSUME NEW r \in Runs, Receipt(r) PROVE Waits(r)' /\ Marks(r)'
  <2>1. \E t \in txs : t.run = r /\ t.to = current[r]
    BY <1>3 DEF Awaited, Receipt
  <2>2. MyTx(r) \in txs /\ MyTx(r).run = r /\ MyTx(r).to = current[r]
    BY <2>1 DEF MyTx
  <2>3. pc'[r] # "receipt" /\ (pc'[r] = "mark" => MyTx(r).status = "success")
    BY <1>3 DEF Receipt, Types
  <2>4. txs' = txs /\ current' = current
    BY <1>3 DEF Receipt
  <2>5. QED
    BY <2>2, <2>3, <2>4 DEF Sent
<1>4. ASSUME NEW r \in Runs, \/ SumUnsettled(r) \/ NoKey(r) \/ GetNonce(r) \/ SendFails(r)
                             \/ Mark(r) \/ Raise(r) \/ Commit(r) \/ Crash(r)
      PROVE  pc'[r] \notin {"receipt", "mark"}
  BY <1>4 DEF SumUnsettled, NoKey, GetNonce, SendFails, Mark, Raise, Commit, Crash, Types
<1>5. ASSUME NEW s \in Runs, Settle(s), NEW r \in Runs \ {s}
      PROVE  pc'[r] = pc[r] /\ current'[r] = current[r]
  BY <1>5 DEF Settle, SumUnsettled, NoKey, GetNonce, Send, SendFails, Receipt, Mark, Raise,
              Commit, Crash, Types
<1>6. ASSUME NEW s \in Runs, Settle(s), NEW r \in Runs PROVE Waits(r)' /\ Marks(r)'
  <2>1. CASE r # s
    BY <1>1, <1>5, <1>6, <2>1
  <2>2. CASE r = s
    BY <1>2, <1>3, <1>4, <1>6, <2>2 DEF Settle
  <2>3. QED
    BY <2>1, <2>2
<1>7. CASE Mine \/ UNCHANGED vars \/ \E e \in Entries : RecordRevenueSplit(e)
  <2>1. pc' = pc /\ current' = current
    BY <1>7 DEF Mine, vars, runVars, RecordRevenueSplit
  <2>2. \A r \in Runs : Waits(r)' /\ Marks(r)'
    BY <1>1, <2>1
  <2>3. QED
    BY <2>2 DEF Awaited, MarkSent
<1>8. QED
  BY <1>6, <1>7 DEF Next, Awaited, MarkSent

\* Marks are made under the row lock, of rows nobody has settled, after the
\* transfer; only the holder of the lock commits them.
LEMMA MarksStep ==
  ASSUME Types, MarkSent, MarksSent, PaidApart, Settled, [Next]_vars
  PROVE  MarksSent' /\ PaidApart' /\ Settled'
<1> USE DEF MarksSent, PaidApart, Settled
<1>0. \A r, q : Sent(r, q) => Sent(r, q)'
  BY SentStays
<1>1. ASSUME settledBy' = settledBy, marks' = marks, paid' = paid
      PROVE  MarksSent' /\ PaidApart' /\ Settled'
  BY <1>0, <1>1
<1>2. ASSUME NEW r \in Runs, Mark(r) PROVE MarksSent' /\ PaidApart' /\ Settled'
  <2>1. settledBy' = settledBy /\ txs' = txs
    BY <1>2 DEF Mark, dbVars
  <2>2. current[r] \in Quants /\ Sent(r, current[r])
    BY <1>2 DEF Mark, Types, MarkSent
  <2>3. \A s \in Runs \ {r} : current[r] \notin paid[s]
    BY <1>2 DEF Mark, RowLocked
  <2>4. /\ paid' = [paid EXCEPT ![r] = @ \cup {current[r]}]
        /\ marks' = [marks EXCEPT ![r] = @ \cup Of(Unsettled, current[r])]
    BY <1>2 DEF Mark
  <2>5. \A e \in Of(Unsettled, current[r]) : QuantOf[e] = current[r] /\ settledBy[e] = None
    BY DEF Of, Unsettled
  <2>6. PaidApart'
    BY <2>3, <2>4 DEF Types
  <2>7. Settled'
    BY <1>0, <2>1
  <2>8. MarksSent'
    <3>1. SUFFICES ASSUME NEW s \in Runs, NEW e \in Entries, e \in marks'[s]
                   PROVE  /\ Sent(s, QuantOf[e])'
                          /\ settledBy'[e] = None /\ QuantOf[e] \in paid'[s]
      OBVIOUS
    <3>2. CASE e \in marks[s]
      BY <1>0, <2>1, <2>4, <3>2 DEF Types
    <3>3. CASE s = r /\ e \in Of(Unsettled, current[r])
      BY <1>0, <2>1, <2>2, <2>4, <2>5, <3>3 DEF Types
    <3>4. QED
      BY <2>4, <3>1, <3>2, <3>3 DEF Types
  <2>9. QED
    BY <2>6, <2>7, <2>8
<1>3. ASSUME NEW r \in Runs, Commit(r) PROVE MarksSent' /\ PaidApart' /\ Settled'
  <2>1. /\ settledBy' = [e \in Entries |-> IF e \in marks[r] THEN r ELSE settledBy[e]]
        /\ marks' = [marks EXCEPT ![r] = {}]
        /\ paid' = [paid EXCEPT ![r] = {}]
    BY <1>3 DEF Commit
  <2>2. PaidApart'
    BY <2>1 DEF Types
  <2>3. Settled'
    BY <1>0, <2>1
  <2>4. \A s \in Runs \ {r}, e \in Entries : e \in marks[s] => e \notin marks[r]
    OBVIOUS
  <2>5. MarksSent'
    BY <1>0, <2>1, <2>4 DEF Types
  <2>6. QED
    BY <2>2, <2>3, <2>5
<1>4. ASSUME NEW r \in Runs, Crash(r) PROVE MarksSent' /\ PaidApart' /\ Settled'
  <2>1. /\ settledBy' = settledBy
        /\ marks' = [marks EXCEPT ![r] = {}]
        /\ paid' = [paid EXCEPT ![r] = {}]
    BY <1>4 DEF Crash, dbVars
  <2>2. QED
    BY <1>0, <2>1 DEF Types
<1>5. QED
  BY <1>1, <1>2, <1>3, <1>4
     DEF Next, Settle, RecordRevenueSplit, SumUnsettled, NoKey, GetNonce, Send, SendFails,
         Receipt, Raise, Mine, vars, dbVars, runVars

\* Every initial state satisfies the invariant.
LEMMA InvInit == Init => Inv
BY TypesInit DEF Init, Inv, Once, OneTransferPerRun, NotYet, Awaited, MarkSent, MarksSent,
                 PaidApart, Settled

\* Every action keeps the invariant.
LEMMA InvStep == Inv /\ [Next]_vars => Inv'
BY TypesStep, OnceStep, AwaitedStep, MarksStep DEF Inv

\* The invariant holds in every reachable state.
LEMMA InvHolds == Spec => []Inv
BY InvInit, InvStep, PTL DEF Spec

\* No run pays a quant twice (payout_settlement.py:156-181).
THEOREM PaidOncePerRun == Spec => []OneTransferPerRun
BY InvHolds, PTL DEF Inv, Once

\* What is settled was transferred by the batch that settled it, however the
\* runs interleave, crash, time out or revert (payout_settlement.py:174-200).
THEOREM SettledCorrect == Spec => []SettledWasTransferred
<1>1. Inv => SettledWasTransferred
  BY DEF Inv, Settled, Sent, SettledWasTransferred
<1>2. QED
  BY <1>1, InvHolds, PTL

\* A settled row keeps its batch (payout_settlement.py:191-199).
THEOREM SettledStays == Spec => SettledForever
<1> DEFINE Keeps == \A e \in Entries : settledBy[e] # None => settledBy'[e] = settledBy[e]
<1>1. ASSUME Inv, [Next]_vars PROVE [Keeps]_vars
  <2>1. ASSUME NEW r \in Runs, Commit(r) PROVE Keeps
    BY <1>1, <2>1 DEF Commit, Inv, MarksSent
  <2>2. CASE settledBy' = settledBy
    BY <2>2
  <2>3. QED
    BY <1>1, <2>1, <2>2
       DEF Next, Settle, RecordRevenueSplit, SumUnsettled, NoKey, GetNonce, Send, SendFails,
           Receipt, Mark, Raise, Crash, Mine, vars, dbVars
<1>2. QED
  BY <1>1, InvHolds, PTL DEF Spec, SettledForever

-----------------------------------------------------------------------------
(***************************************************************************)
(* The split of a row.  Both shares are taken with a division that rounds  *)
(* down, so their sum is at most the gross when the shares are.            *)
(***************************************************************************)

\* Dividing back never gives more than was divided.
LEMMA FloorShare ==
  ASSUME NEW n \in Nat
  PROVE  /\ n \div 10000 \in Nat
         /\ 10000 * (n \div 10000) <= n
OBVIOUS

\* Two shares of g that make at most the whole.
LEMMA TwoShares ==
  ASSUME NEW g \in Nat, NEW x \in Nat, NEW y \in Nat, x + y <= 10000
  PROVE  (g * x) \div 10000 + (g * y) \div 10000 <= g
<1>1. g * x \in Nat /\ g * y \in Nat
  OBVIOUS
<1>2. g * x + g * y <= g * 10000
  <2>1. g * x + g * y = g * (x + y)
    OBVIOUS
  <2>2. PICK d \in Nat : 10000 = x + y + d
    <3>1. 10000 - (x + y) \in Nat /\ 10000 = x + y + (10000 - (x + y))
      OBVIOUS
    <3>2. QED
      BY <3>1
  <2>3. g * 10000 = g * (x + y) + g * d /\ g * d \in Nat
    BY <2>2
  <2>4. QED
    BY <2>1, <2>3
<1> DEFINE a == (g * x) \div 10000
           b == (g * y) \div 10000
<1>3. /\ a \in Nat /\ 10000 * a <= g * x
      /\ b \in Nat /\ 10000 * b <= g * y
  BY <1>1, FloorShare
<1> HIDE DEF a, b
<1>4. a + b <= g
  BY <1>1, <1>2, <1>3
<1>5. QED
  BY <1>4 DEF a, b

\* The three parts of a row are natural numbers.
LEMMA PartsNat ==
  ASSUME NEW e \in Entries
  PROVE  QuantCents(e) \in Nat /\ CapitalCents(e) \in Nat /\ ProtocolCents(e) \in Nat
<1>1. Gross[e] \in Nat /\ QuantBps(e) \in Nat /\ QuantBps(e) <= 10000
  <2>1. Gross[e] \in Nat /\ QuantOf[e] \in Quants \cup {None}
    BY SettlementConstants
  <2>2. \A q \in Quants : ShareBps[q] \in Nat /\ ShareBps[q] <= 10000
    BY SettlementConstants
  <2>3. QED
    BY <2>1, <2>2 DEF QuantBps
<1>2. CapitalBps(e) \in Nat /\ QuantBps(e) + CapitalBps(e) <= 10000
  BY <1>1 DEF CapitalBps, CAPITAL_SHARE_BPS
<1>3. QuantCents(e) + CapitalCents(e) <= Gross[e]
  BY <1>1, <1>2, TwoShares DEF QuantCents, CapitalCents
<1>4. Gross[e] * QuantBps(e) \in Nat /\ Gross[e] * CapitalBps(e) \in Nat
  BY <1>1, <1>2
<1>5. QuantCents(e) \in Nat /\ CapitalCents(e) \in Nat
  BY <1>4, FloorShare DEF QuantCents, CapitalCents
<1>6. QED
  BY <1>1, <1>3, <1>5 DEF ProtocolCents

\* No part of any row is ever negative (payout_settlement.py:49-61).
THEOREM SplitCorrect == Spec => []SplitWithinGross
<1>1. Types => SplitWithinGross
  BY PartsNat DEF Types, SplitWithinGross
<1>2. QED
  BY <1>1, TypesCorrect, PTL

-----------------------------------------------------------------------------
(***************************************************************************)
(* The whole type invariant.  What is summed is finite, since rows and     *)
(* transfers appear one at a time; what is owed is then a natural number.  *)
(***************************************************************************)

Finite == IsFiniteSet(ledger) /\ IsFiniteSet(txs) /\ \A r \in Runs : IsFiniteSet(rows[r])

\* A run outside its loop has nothing uncommitted.
Clean ==
  \A r \in Runs : pc[r] \in {"idle", "nonce"} \cup Ended => marks[r] = {} /\ paid[r] = {}

\* A finite set of rows owes a natural number of cents.
LEMMA OwedType ==
  ASSUME NEW S \in SUBSET Entries, IsFiniteSet(S)
  PROVE  Owed(S) \in Nat
<1> DEFINE f == [e \in S |-> QuantCents(e)]
<1>1. \A e \in S : f[e] \in Nat
  BY PartsNat
<1> HIDE DEF f
<1>2. SumFunctionOnSet(f, S) \in Nat
  BY <1>1, SumNat
<1>3. QED
  BY <1>2 DEF Owed, f

\* Among the first Cardinality(txs) + 1 nonces there is one nobody has used.
LEMMA PendingCountType ==
  ASSUME IsFiniteSet(txs), \A t \in txs : t.nonce \in Nat
  PROVE  PendingCount \in Nat
<1> DEFINE n == Cardinality(txs)
           nonceOf == [t \in txs |-> t.nonce]
           Used == {nonceOf[t] : t \in txs}
           Free == (0 .. n) \ Used
<1>1. n \in Nat
  BY FS_CardinalityType
<1>2. IsFiniteSet(Used) /\ Cardinality(Used) <= n
  <2> HIDE DEF nonceOf
  <2>1. QED
    BY FiniteImage
<1>3. \A m : AtNonce(m) = {} <=> m \notin Used
  BY DEF AtNonce
<1> HIDE DEF n, Used
<1>4. IsFiniteSet(0 .. n) /\ Cardinality(0 .. n) = n + 1
  BY <1>1, FS_Interval
<1>5. Free # {}
  <2> SUFFICES ASSUME 0 .. n \subseteq Used PROVE FALSE
    OBVIOUS
  <2>1. Cardinality(0 .. n) <= Cardinality(Used)
    BY <1>2, FS_Subset
  <2>2. Cardinality(Used) \in Nat
    BY <1>2, FS_CardinalityType
  <2>3. QED
    BY <1>1, <1>2, <1>4, <2>1, <2>2
<1>6. IsFiniteSet(Free) /\ Free \subseteq Int
  BY <1>1, <1>4, FS_Subset
<1>7. PICK m \in Free : \A k \in Free : m <= k
  <2> HIDE DEF Free
  <2>1. QED
    BY <1>5, <1>6, LeastExists
<1>8. m \in 0 .. n /\ AtNonce(m) = {} /\ \A k \in 0 .. m - 1 : AtNonce(k) # {}
  BY <1>1, <1>3, <1>7
<1>9. PendingCount \in 0 .. n
  BY <1>8 DEF PendingCount, n
<1>10. QED
  BY <1>1, <1>9

\* Every step keeps the types and finiteness.
LEMMA TypeOKStep ==
  Types /\ TypeOK /\ Finite /\ Clean /\ [Next]_vars => TypeOK' /\ Finite' /\ Clean'
<1> SUFFICES ASSUME Types, TypeOK, Finite, Clean, [Next]_vars PROVE TypeOK' /\ Finite' /\ Clean'
  OBVIOUS
<1> USE DEF TypeOK, RunPC, Ended, Finite, Clean
<1> DEFINE Typed == /\ totalPaid' \in [Quants -> Nat] /\ nonce' \in [Runs -> Nat]
                    /\ txs' \subseteq Transfer /\ Finite' /\ Clean'
<1>1. ASSUME NEW e \in Entries, RecordRevenueSplit(e) PROVE Typed
  BY <1>1, FS_AddElement DEF RecordRevenueSplit, runVars
<1>2. ASSUME NEW r \in Runs, SumUnsettled(r) PROVE Typed
  <2> DEFINE owed == {q \in Quants : Owed(Of(Unsettled, q)) >= MinPayout}
             mine == {e \in Unsettled : QuantOf[e] \in owed}
  <2>1. rows' = [rows EXCEPT ![r] = mine]
    BY <1>2 DEF SumUnsettled
  <2>2. IsFiniteSet(mine)
    <3>1. mine \subseteq ledger
      BY DEF Unsettled
    <3>2. QED
      BY <3>1, FS_Subset
  <2> HIDE DEF mine, owed
  <2>3. UNCHANGED <<ledger, txs, totalPaid, nonce, marks, paid>>
        /\ pc[r] = "idle" /\ \E to : pc' = [pc EXCEPT ![r] = to]
    BY <1>2 DEF SumUnsettled, dbVars
  <2>4. QED
    BY <2>1, <2>2, <2>3
<1>3. ASSUME NEW r \in Runs, GetNonce(r) PROVE Typed
  <2>1. PendingCount \in Nat
    BY PendingCountType DEF Transfer
  <2>2. QED
    BY <1>3, <2>1 DEF GetNonce, dbVars
<1>4. ASSUME NEW r \in Runs, NEW q \in Quants, Send(r, q) PROVE Typed
  <2> DEFINE new == [run |-> r, to |-> q, nonce |-> nonce[r],
                     cents |-> Owed(Of(rows[r], q)), status |-> "pending"]
  <2>1. Owed(Of(rows[r], q)) \in Nat
    <3>1. Of(rows[r], q) \in SUBSET Entries /\ Of(rows[r], q) \subseteq rows[r]
      BY DEF Of
    <3>2. IsFiniteSet(Of(rows[r], q))
      BY <3>1, FS_Subset
    <3>3. QED
      BY <3>1, <3>2, OwedType
  <2>2. new \in Transfer
    BY <2>1 DEF Transfer
  <2>3. txs' = txs \cup {new}
    BY <1>4 DEF Send
  <2> HIDE DEF new
  <2>4. txs' \subseteq Transfer /\ IsFiniteSet(txs')
    BY <2>2, <2>3, FS_AddElement
  <2>5. QED
    BY <1>4, <2>4 DEF Send, dbVars
<1>5. ASSUME NEW r \in Runs, Mark(r) PROVE Typed
  BY <1>5 DEF Mark, dbVars
<1>6. ASSUME NEW r \in Runs, Commit(r) PROVE Typed
  <2>1. ASSUME NEW q \in Quants PROVE Owed(Of(rows[r], q)) \in Nat
    <3>1. Of(rows[r], q) \in SUBSET Entries /\ Of(rows[r], q) \subseteq rows[r]
      BY DEF Of
    <3>2. IsFiniteSet(Of(rows[r], q))
      BY <3>1, FS_Subset
    <3>3. QED
      BY <3>1, <3>2, OwedType
  <2>2. QED
    BY <1>6, <2>1 DEF Commit
<1>7. ASSUME NEW r \in Runs, NoKey(r) \/ SendFails(r) \/ Receipt(r) \/ Raise(r) PROVE Typed
  BY <1>7 DEF NoKey, SendFails, Receipt, Raise, dbVars
<1>8. ASSUME NEW r \in Runs, Crash(r) PROVE Typed
  BY <1>8 DEF Crash, dbVars
<1>9. ASSUME Mine PROVE Typed
  <2>1. PICK t \in txs, s \in {"success", "reverted"} :
          txs' = (txs \ {t}) \cup {[t EXCEPT !.status = s]}
    BY <1>9 DEF Mine, AtNonce
  <2>2. [t EXCEPT !.status = s] \in Transfer
    BY DEF Transfer
  <2>3. IsFiniteSet(txs \ {t})
    BY FS_RemoveElement
  <2>4. IsFiniteSet(txs') /\ txs' \subseteq Transfer
    BY <2>1, <2>2, <2>3, FS_AddElement
  <2>5. QED
    BY <1>9, <2>4 DEF Mine, dbVars, runVars
<1>10. ASSUME UNCHANGED vars PROVE Typed
  BY <1>10 DEF vars, dbVars, runVars
<1> HIDE DEF Typed, TypeOK, RunPC, Ended, Finite, Clean
<1>11. Typed
  <2>1. ASSUME NEW r \in Runs, Settle(r) PROVE Typed
    BY <2>1, <1>2, <1>3, <1>4, <1>5, <1>6, <1>7, <1>8 DEF Settle
  <2>2. QED
    BY <2>1, <1>1, <1>9, <1>10 DEF Next
<1>12. Types'
  BY TypesStep
<1>13. QED
  BY <1>11, <1>12 DEF Types, TypeOK, Typed, Clean, Ended

\* Every variable of Settlement has its type: amounts and totals are natural
\* numbers, nonces too, and what is not committed belongs to a live run.
THEOREM TypeCorrect == Spec => []TypeOK
<1>1. Init => TypeOK /\ Finite /\ Clean
  BY FS_EmptySet, SettlementConstants DEF Init, TypeOK, Finite, Clean, RunPC, Ended
<1>2. QED
  BY <1>1, TypesCorrect, TypeOKStep, PTL DEF Spec

-----------------------------------------------------------------------------
(***************************************************************************)
(* The books.  A total is a sum of transfers that reached the quant: those *)
(* of ended runs, each counted once because a run ends once.               *)
(***************************************************************************)

CentsOf == [t \in txs |-> t.cents]

\* A transfer carries what the rows of its run owed its quant.
CentsRight == \A t \in txs : t.cents = Owed(Of(rows[t.run], t.to))

\* A run adds to a total only what was received.
PaidSent == \A r \in Runs : \A q \in paid[r] : Sent(r, q)

\* The transfers that make the total of q.
Booked(q) ==
  \E B \in SUBSET Received(q) :
    totalPaid[q] = SumFunctionOnSet(CentsOf, B) /\ \A t \in B : pc[t.run] \in Ended

Books == CentsRight /\ PaidSent /\ \A q \in Quants : Booked(q)

BooksInv == Inv /\ TypeOK /\ Finite /\ Clean /\ Books

\* What was received stays received, with its amount.
LEMMA ReceivedStays ==
  ASSUME BooksInv, [Next]_vars, NEW q \in Quants, NEW B \in SUBSET Received(q)
  PROVE  /\ B \in SUBSET Received(q)'
         /\ SumFunctionOnSet(CentsOf, B)' = SumFunctionOnSet(CentsOf, B)
<1>1. B \in SUBSET Received(q)' /\ B \subseteq txs'
  BY TxsStep DEF BooksInv, Inv, Received
<1>2. B \subseteq txs /\ IsFiniteSet(B) /\ \A t \in B : t.cents \in Int
  BY FS_Subset DEF Received, BooksInv, TypeOK, Transfer, Finite
<1>3. Summable(CentsOf, B) /\ \A t \in B : CentsOf[t] = CentsOf'[t]
  BY <1>1, <1>2 DEF Summable, CentsOf
<1>4. SumFunctionOnSet(CentsOf, B) = SumFunctionOnSet(CentsOf', B)
  <2> HIDE DEF CentsOf
  <2>1. QED
    BY <1>3, SumSame
<1>5. QED
  BY <1>1, <1>4

\* A run that has ended does nothing more, one that has begun keeps its rows.
LEMMA EndedStays ==
  ASSUME Types, [Next]_vars, NEW r \in Runs
  PROVE  /\ pc[r] \in Ended => pc'[r] \in Ended
         /\ pc[r] # "idle" => rows'[r] = rows[r]
<1> USE DEF Types, Ended
<1>1. ASSUME NEW s \in Runs, Settle(s)
      PROVE  /\ pc[r] \in Ended => pc'[r] \in Ended
             /\ pc[r] # "idle" => rows'[r] = rows[r]
  BY <1>1 DEF Settle, SumUnsettled, NoKey, GetNonce, Send, SendFails, Receipt, Mark, Raise, Commit, Crash
<1>2. CASE Mine \/ UNCHANGED vars \/ \E e \in Entries : RecordRevenueSplit(e)
  BY <1>2 DEF Mine, vars, runVars, RecordRevenueSplit
<1>3. QED
  BY <1>1, <1>2 DEF Next

\* Send computes the amount from the rows of the run; mining does not change it.
LEMMA CentsStep == BooksInv /\ [Next]_vars => CentsRight'
<1> SUFFICES ASSUME BooksInv, [Next]_vars PROVE CentsRight'
  OBVIOUS
<1> USE DEF BooksInv, Books, CentsRight
<1>1. ASSUME NEW t \in txs PROVE t.cents = Owed(Of(rows'[t.run], t.to))
  <2>1. t.run \in Runs /\ pc[t.run] # "idle"
    BY DEF Inv, NotYet, Types, TxType
  <2>2. rows'[t.run] = rows[t.run]
    BY <2>1, EndedStays DEF Inv
  <2>3. QED
    BY <2>2
<1>2. CASE txs' = txs
  BY <1>1, <1>2 DEF Owed, Of
<1>3. ASSUME NEW r \in Runs, NEW q \in Quants, Send(r, q) PROVE CentsRight'
  <2> DEFINE new == [run |-> r, to |-> q, nonce |-> nonce[r],
                     cents |-> Owed(Of(rows[r], q)), status |-> "pending"]
  <2>1. new.run = r /\ new.to = q /\ new.cents = Owed(Of(rows[r], q))
    OBVIOUS
  <2>2. txs' = txs \cup {new} /\ rows' = rows
    BY <1>3 DEF Send
  <2> HIDE DEF new
  <2>3. \A t \in txs' : t.cents = Owed(Of(rows'[t.run], t.to))
    BY <2>1, <2>2
  <2>4. QED
    BY <2>3 DEF Owed, Of
<1>4. CASE Mine
  <2>1. PICK t \in txs, s \in {"success", "reverted"} :
          txs' = (txs \ {t}) \cup {[t EXCEPT !.status = s]}
    BY <1>4 DEF Mine, AtNonce
  <2> DEFINE n == [t EXCEPT !.status = s]
  <2>2. n.run = t.run /\ n.to = t.to /\ n.cents = t.cents
    BY DEF TypeOK, Transfer
  <2>3. txs' = (txs \ {t}) \cup {n}
    BY <2>1
  <2> HIDE DEF n
  <2>4. \A u \in txs' : u.cents = Owed(Of(rows'[u.run], u.to))
    BY <1>1, <2>2, <2>3
  <2>5. QED
    BY <2>4 DEF Owed, Of
<1> HIDE DEF BooksInv, Books, CentsRight
<1>5. QED
  BY <1>2, <1>3, <1>4
     DEF Next, Settle, RecordRevenueSplit, SumUnsettled, NoKey, GetNonce, SendFails, Receipt,
         Mark, Raise, Commit, Crash, vars

\* Only Mark adds to paid, after the transfer.
LEMMA PaidSentStep == BooksInv /\ [Next]_vars => PaidSent'
<1> SUFFICES ASSUME BooksInv, [Next]_vars PROVE PaidSent'
  OBVIOUS
<1> USE DEF BooksInv, Books, PaidSent
<1>1. \A r, q : Sent(r, q) => Sent(r, q)'
  BY SentStays DEF Inv
<1>2. ASSUME \A r \in Runs : paid'[r] \subseteq paid[r] PROVE PaidSent'
  BY <1>1, <1>2
<1>3. ASSUME NEW r \in Runs, Mark(r) PROVE PaidSent'
  <2>1. Sent(r, current[r]) /\ paid' = [paid EXCEPT ![r] = @ \cup {current[r]}]
    BY <1>3 DEF Mark, Inv, MarkSent
  <2>2. QED
    BY <1>1, <2>1 DEF Inv, Types
<1>4. ASSUME NEW r \in Runs, Commit(r) \/ Crash(r) PROVE PaidSent'
  <2>1. paid' = [paid EXCEPT ![r] = {}]
    BY <1>4 DEF Commit, Crash
  <2>2. QED
    BY <1>2, <2>1 DEF Inv, Types
<1> HIDE DEF BooksInv, Books, PaidSent
<1>5. QED
  BY <1>2, <1>3, <1>4
     DEF Next, Settle, RecordRevenueSplit, SumUnsettled, NoKey, GetNonce, Send, SendFails,
         Receipt, Raise, Mine, vars, runVars

\* A commit moves the transfers of its run into the totals.
LEMMA BookedStep ==
  ASSUME BooksInv, [Next]_vars, NEW q \in Quants
  PROVE  Booked(q)'
<1>1. PICK B \in SUBSET Received(q) :
        totalPaid[q] = SumFunctionOnSet(CentsOf, B) /\ \A t \in B : pc[t.run] \in Ended
  BY DEF BooksInv, Books, Booked
<1>2. /\ B \in SUBSET Received(q)'
      /\ SumFunctionOnSet(CentsOf, B)' = SumFunctionOnSet(CentsOf, B)
  BY ReceivedStays
<1>3. \A t \in B : t.run \in Runs /\ pc'[t.run] \in Ended
  BY <1>1, EndedStays DEF BooksInv, Inv, Types, TxType, Received
<1>4. ASSUME totalPaid'[q] = totalPaid[q] PROVE Booked(q)'
  BY <1>1, <1>2, <1>3, <1>4 DEF Booked
<1>5. ASSUME NEW r \in Runs, Commit(r), q \in paid[r] PROVE Booked(q)'
  <2>1. /\ pc[r] \in {"pay", "failing"} /\ pc'[r] \in Ended /\ txs' = txs
        /\ totalPaid'[q] = totalPaid[q] + Owed(Of(rows[r], q))
    BY <1>5 DEF Commit, Ended, BooksInv, TypeOK
  <2>2. PICK t \in txs : t.run = r /\ t.to = q /\ t.status = "success"
    BY <1>5 DEF BooksInv, Books, PaidSent, Sent
  <2>3. t \in Received(q) /\ t \notin B /\ CentsOf[t] = Owed(Of(rows[r], q))
    BY <1>1, <2>1, <2>2 DEF Received, Ended, CentsOf, BooksInv, Books, CentsRight
  <2> DEFINE C == B \cup {t}
  <2>4. C \in SUBSET Received(q) /\ C \subseteq txs /\ IsFiniteSet(C)
    BY <2>3, FS_Subset DEF Received, BooksInv, Finite
  <2>5. Summable(CentsOf, C)
    BY <2>4 DEF Summable, CentsOf, BooksInv, TypeOK, Transfer
  <2>6. C \ {t} = B /\ t \in C
    BY <2>3
  <2> HIDE DEF C
  <2>7. SumFunctionOnSet(CentsOf, C) = CentsOf[t] + SumFunctionOnSet(CentsOf, B)
    BY <2>5, <2>6, SumTake
  <2>8. CentsOf[t] \in Int /\ SumFunctionOnSet(CentsOf, B) \in Int
    <3>1. totalPaid[q] \in Int
      BY DEF BooksInv, TypeOK
    <3>2. QED
      BY <1>1, <2>4, <2>5, <2>6, <3>1 DEF Summable
  <2>9. totalPaid'[q] = SumFunctionOnSet(CentsOf, C)
    BY <1>1, <2>1, <2>3, <2>7, <2>8
  <2>10. C \in SUBSET Received(q)' /\ SumFunctionOnSet(CentsOf, C)' = SumFunctionOnSet(CentsOf, C)
    BY <2>4, ReceivedStays
  <2>11. \A u \in C : pc'[u.run] \in Ended
    BY <1>3, <2>1, <2>2 DEF C
  <2>12. QED
    BY <2>9, <2>10, <2>11 DEF Booked
<1>6. ASSUME NEW r \in Runs, Commit(r), q \notin paid[r] PROVE Booked(q)'
  BY <1>4, <1>6 DEF Commit
<1>7. CASE totalPaid' = totalPaid
  BY <1>4, <1>7
<1>8. QED
  BY <1>5, <1>6, <1>7
     DEF Next, Settle, RecordRevenueSplit, SumUnsettled, NoKey, GetNonce, Send, SendFails,
         Receipt, Mark, Raise, Crash, Mine, vars, dbVars

\* The invariant of the books holds in every reachable state.
LEMMA BooksInvHolds == Spec => []BooksInv
<1>1. Init => BooksInv
  <2> SUFFICES ASSUME Init PROVE BooksInv
    OBVIOUS
  <2>1. TypeOK /\ Finite /\ Clean
    BY FS_EmptySet, SettlementConstants DEF Init, TypeOK, Finite, Clean, RunPC, Ended
  <2>2. CentsRight /\ PaidSent
    BY DEF Init, CentsRight, PaidSent
  <2>3. ASSUME NEW q \in Quants PROVE Booked(q)
    BY SumEmpty DEF Init, Booked
  <2>4. QED
    BY <2>1, <2>2, <2>3, InvInit DEF BooksInv, Books
<1>2. BooksInv /\ [Next]_vars => BooksInv'
  BY InvStep, TypeOKStep, CentsStep, PaidSentStep, BookedStep DEF BooksInv, Books, Inv
<1>3. QED
  BY <1>1, <1>2, PTL DEF Spec

\* BooksWithinChain: no total ever says more than the quant received, however
\* runs overlap, crash, time out or revert (payout_settlement.py:183-223).
THEOREM BooksCorrect == Spec => []BooksWithinChain
<1>1. BooksInv => BooksWithinChain
  <2> SUFFICES ASSUME BooksInv, NEW q \in Quants PROVE totalPaid[q] <= Transferred(q)
    BY DEF BooksWithinChain
  <2>1. PICK B \in SUBSET Received(q) : totalPaid[q] = SumFunctionOnSet(CentsOf, B)
    BY DEF BooksInv, Books, Booked
  <2>2. IsFiniteSet(Received(q)) /\ \A t \in Received(q) : CentsOf[t] \in Nat
    BY FS_Subset DEF BooksInv, Finite, TypeOK, Transfer, Received, CentsOf
  <2>3. SumFunctionOnSet(CentsOf, B) <= SumFunctionOnSet(CentsOf, Received(q))
    BY <2>2, SumOfPart
  <2>4. QED
    BY <2>1, <2>3 DEF Transferred, CentsOf
<1>2. QED
  BY <1>1, BooksInvHolds, PTL

-----------------------------------------------------------------------------
(***************************************************************************)
(* Refinement.  A transfer pays for rows that are in the ledger and reach  *)
(* the minimum, since the rows a run has summed stay what they were.       *)
(***************************************************************************)

Selected ==
  \A r \in Runs : /\ rows[r] \subseteq ledger /\ marks[r] \subseteq ledger
                  /\ \A q \in todo[r] : Owed(Of(rows[r], q)) >= MinPayout

SentWorth == \A t \in txs : t.cents >= MinPayout

BookInv == BooksInv /\ Selected /\ SentWorth

\* Only SumUnsettled chooses rows, and only Send takes a quant off the list.
LEMMA SelectedStep == BookInv /\ [Next]_vars => Selected'
<1> SUFFICES ASSUME BookInv, [Next]_vars PROVE Selected'
  OBVIOUS
<1> DEFINE Good(L, R, T, M) ==
      R \subseteq L /\ M \subseteq L /\ \A q \in T : Owed(Of(R, q)) >= MinPayout
<1>0. /\ Types
      /\ \A r \in Runs : Good(ledger, rows[r], todo[r], marks[r])
  BY DEF BookInv, BooksInv, Inv, Selected
<1>1. ASSUME \A r \in Runs : Good(ledger', rows'[r], todo'[r], marks'[r]) PROVE Selected'
  BY <1>1 DEF Selected, Owed, Of
<1>2. ASSUME NEW r \in Runs, SumUnsettled(r) PROVE Selected'
  <2> DEFINE owed == {q \in Quants : Owed(Of(Unsettled, q)) >= MinPayout}
             mine == {e \in Unsettled : QuantOf[e] \in owed}
  <2>1. /\ rows' = [rows EXCEPT ![r] = mine] /\ todo' = [todo EXCEPT ![r] = owed]
        /\ ledger' = ledger /\ marks' = marks
    BY <1>2 DEF SumUnsettled, dbVars
  <2>2. mine \subseteq ledger
    BY DEF Unsettled
  <2>3. ASSUME NEW q \in owed PROVE Owed(Of(mine, q)) >= MinPayout
    <3>1. Of(mine, q) = Of(Unsettled, q)
      BY DEF Of
    <3>2. Owed(Of(Unsettled, q)) >= MinPayout
      OBVIOUS
    <3>3. QED
      BY <3>1, <3>2
  <2> HIDE DEF owed, mine
  <2>4. \A s \in Runs : Good(ledger', rows'[s], todo'[s], marks'[s])
    BY <1>0, <2>1, <2>2, <2>3 DEF Types
  <2>5. QED
    BY <1>1, <2>4
<1>3. ASSUME ledger \subseteq ledger', rows' = rows,
             \A s \in Runs : todo'[s] \subseteq todo[s],
             \A s \in Runs : marks'[s] \subseteq marks[s] \cup ledger
      PROVE  Selected'
  <2>1. \A s \in Runs : Good(ledger', rows'[s], todo'[s], marks'[s])
    BY <1>0, <1>3
  <2>2. QED
    BY <1>1, <2>1
<1>4. ASSUME NEW r \in Runs, NEW q \in Quants, Send(r, q) PROVE Selected'
  <2>1. ledger' = ledger /\ marks' = marks /\ rows' = rows /\ todo' = [todo EXCEPT ![r] = @ \ {q}]
    BY <1>4 DEF Send, dbVars
  <2>2. \A s \in Runs : todo'[s] \subseteq todo[s]
    BY <1>0, <2>1 DEF Types
  <2>3. QED
    BY <1>3, <2>1, <2>2
<1>5. ASSUME NEW r \in Runs, Mark(r) \/ Commit(r) \/ Crash(r) PROVE Selected'
  <2>1. ledger' = ledger /\ rows' = rows /\ todo' = todo
    BY <1>5 DEF Mark, Commit, Crash, dbVars
  <2>2. \A s \in Runs : marks'[s] \subseteq marks[s] \cup ledger
    BY <1>0, <1>5 DEF Mark, Commit, Crash, Types, Of, Unsettled
  <2>3. QED
    BY <1>3, <2>1, <2>2
<1>6. ASSUME ledger \subseteq ledger', UNCHANGED <<rows, todo, marks>> PROVE Selected'
  BY <1>3, <1>6
<1>7. CASE UNCHANGED vars \/ Mine \/ \E e \in Entries : RecordRevenueSplit(e)
  BY <1>6, <1>7 DEF vars, Mine, RecordRevenueSplit, dbVars, runVars
<1>8. ASSUME NEW r \in Runs, NoKey(r) \/ GetNonce(r) \/ SendFails(r) \/ Receipt(r) \/ Raise(r)
      PROVE  Selected'
  BY <1>6, <1>8 DEF NoKey, GetNonce, SendFails, Receipt, Raise, dbVars
<1>9. QED
  BY <1>2, <1>4, <1>5, <1>7, <1>8 DEF Next, Settle

\* Send sends what is due, mining changes no amount.
LEMMA SentWorthStep == BookInv /\ [Next]_vars => SentWorth'
<1> SUFFICES ASSUME BookInv, [Next]_vars PROVE SentWorth'
  OBVIOUS
<1>1. CASE txs' = txs
  BY <1>1 DEF BookInv, SentWorth
<1>2. ASSUME NEW r \in Runs, NEW q \in Quants, Send(r, q) PROVE SentWorth'
  <2> DEFINE new == [run |-> r, to |-> q, nonce |-> nonce[r],
                     cents |-> Owed(Of(rows[r], q)), status |-> "pending"]
  <2>1. new.cents = Owed(Of(rows[r], q))
    OBVIOUS
  <2>2. txs' = txs \cup {new} /\ q \in todo[r]
    BY <1>2 DEF Send
  <2>3. Owed(Of(rows[r], q)) >= MinPayout
    BY <2>2 DEF BookInv, Selected
  <2> HIDE DEF new
  <2>4. QED
    BY <2>1, <2>2, <2>3 DEF BookInv, SentWorth
<1>3. CASE Mine
  <2>1. PICK t \in txs, s \in {"success", "reverted"} :
          txs' = (txs \ {t}) \cup {[t EXCEPT !.status = s]}
    BY <1>3 DEF Mine, AtNonce
  <2> DEFINE n == [t EXCEPT !.status = s]
  <2>2. n.cents = t.cents
    BY DEF BookInv, BooksInv, TypeOK, Transfer
  <2>3. txs' = (txs \ {t}) \cup {n}
    BY <2>1
  <2> HIDE DEF n
  <2>4. QED
    BY <2>2, <2>3 DEF BookInv, SentWorth
<1>4. QED
  BY <1>1, <1>2, <1>3
     DEF Next, Settle, RecordRevenueSplit, SumUnsettled, NoKey, GetNonce, SendFails, Receipt,
         Mark, Raise, Commit, Crash, vars

\* What Book calls received, closed and Worth.
Arrived == {[run |-> t.run, to |-> t.to, cents |-> t.cents] :
              t \in {u \in txs : u.status = "success"}}
Over    == {r \in Runs : pc[r] \in Ended}
WorthOf == [e \in Entries |-> QuantCents(e)]

\* The substitutions of Book, so that its actions can be read in these names.
LEMMA BookReads ==
  /\ Book!vars = <<ledger, settledBy, totalPaid, Arrived, Over>>
  /\ \A r : Book!SentBy(r) = {t \in Arrived : t.run = r}
BY DEF Book!vars, Book!SentBy, Arrived, Over

\* What arrived is what was sent and succeeded.
LEMMA ArrivedIs ==
  ASSUME NEW a
  PROVE  a \in Arrived <=> \E t \in txs : /\ t.status = "success"
                                          /\ a = [run |-> t.run, to |-> t.to, cents |-> t.cents]
BY DEF Arrived

\* The initial states are those of the book.
LEMMA BookInit == Init => Book!Init
<1> SUFFICES ASSUME Init PROVE Book!Init
  OBVIOUS
<1>1. Arrived = {} /\ Over = {}
  BY DEF Init, Arrived, Over, Ended
<1>2. QED
  BY <1>1 DEF Init, Book!Init, Arrived, Over

\* The rows of a run are worth the same to the job and to the book.
LEMMA WorthSame ==
  ASSUME NEW S \in SUBSET Entries, IsFiniteSet(S)
  PROVE  SumFunctionOnSet(WorthOf, S) = Owed(S)
<1> DEFINE f == [e \in S |-> QuantCents(e)]
<1>1. Summable(f, S) /\ \A e \in S : f[e] = WorthOf[e]
  BY PartsNat DEF Summable, WorthOf
<1> HIDE DEF f
<1>2. SumFunctionOnSet(f, S) = SumFunctionOnSet(WorthOf, S)
  BY <1>1, SumSame
<1>3. QED
  BY <1>2 DEF f, Owed

\* The sum of the book is the same sum.
LEMMA SameSum == \A f, S : Book!SumFunctionOnSet(f, S) = SumFunctionOnSet(f, S)
BY Zenon DEF SumFunctionOnSet, FoldFunctionOnSet, MapThenFoldSet,
   Book!SumFunctionOnSet, Book!FoldFunctionOnSet, Book!MapThenFoldSet

\* The book's Close in these names.
LEMMA CloseIs ==
  ASSUME NEW r \in Runs, NEW P \in SUBSET Arrived, NEW S \in SUBSET ledger,
         \A t \in P : t.run = r,
         r \notin Over, Over' = Over \cup {r},
         \A e \in S : settledBy[e] = None /\ \E t \in P : t.to = QuantOf[e],
         settledBy' = [e \in Entries |-> IF e \in S THEN r ELSE settledBy[e]],
         totalPaid' =
           [q \in Quants |->
              totalPaid[q] + SumFunctionOnSet([t \in P |-> t.cents], {t \in P : t.to = q})],
         ledger' = ledger, Arrived' = Arrived
  PROVE  Book!Next
<1>1. Book!Close(r, P, S)
  <2>1. r \notin {s \in Runs : pc[s] \in Ended}
    BY DEF Over
  <2>2. {s \in Runs : pc'[s] \in Ended} = {s \in Runs : pc[s] \in Ended} \cup {r}
    BY DEF Over
  <2>3. {[run |-> t.run, to |-> t.to, cents |-> t.cents] :
            t \in {u \in txs' : u.status = "success"}}
          = {[run |-> t.run, to |-> t.to, cents |-> t.cents] :
            t \in {u \in txs : u.status = "success"}}
    BY DEF Arrived
  <2>4. QED
    BY <2>1, <2>2, <2>3, SameSum DEF Book!Close
<1>2. P \in SUBSET Book!SentBy(r)
  BY BookReads
<1>3. \E s \in Runs : \E Q \in SUBSET Book!SentBy(s), U \in SUBSET ledger : Book!Close(s, Q, U)
  BY <1>1, <1>2
<1>4. QED
  BY <1>3, Zenon DEF Book!Next

\* The book's Transfer in these names.
LEMMA TransferIs ==
  ASSUME NEW r \in Runs, NEW q \in Quants, NEW S \in SUBSET ledger,
         \A e \in S : QuantOf[e] = q,
         \A u \in Arrived : u.run = r => u.to # q,
         SumFunctionOnSet(WorthOf, S) >= MinPayout,
         Arrived' = Arrived \cup {[run |-> r, to |-> q, cents |-> SumFunctionOnSet(WorthOf, S)]},
         UNCHANGED <<ledger, settledBy, totalPaid>>, Over' = Over
  PROVE  Book!Next
<1>1. \A t \in Book!SentBy(r) : t.to # q
  BY BookReads
<1>2. Book!Transfer(r, q, S)
  <2>1. {s \in Runs : pc'[s] \in Ended} = {s \in Runs : pc[s] \in Ended}
    BY DEF Over
  <2>2. {[run |-> t.run, to |-> t.to, cents |-> t.cents] :
            t \in {u \in txs' : u.status = "success"}}
          = {[run |-> t.run, to |-> t.to, cents |-> t.cents] :
            t \in {u \in txs : u.status = "success"}}
              \cup {[run |-> r, to |-> q, cents |-> SumFunctionOnSet(WorthOf, S)]}
    BY DEF Arrived
  <2>3. WorthOf = [e \in Entries |-> QuantCents(e)]
    BY DEF WorthOf
  <2>4. QED
    BY <1>1, <2>1, <2>2, <2>3, SameSum DEF Book!Transfer
<1>3. S \in SUBSET Book!RowsOf(q)
  BY DEF Book!RowsOf
<1>4. \E s \in Runs, p \in Quants : \E U \in SUBSET Book!RowsOf(p) : Book!Transfer(s, p, U)
  BY <1>2, <1>3
<1>5. QED
  BY <1>4, Zenon DEF Book!Next

\* A run that ends without a commit books nothing.
LEMMA CloseNothing ==
  ASSUME BookInv, NEW r \in Runs, pc[r] \notin Ended, NEW x \in Ended,
         pc' = [pc EXCEPT ![r] = x], UNCHANGED <<dbVars, txs>>
  PROVE  Book!Next
<1> USE DEF BookInv, BooksInv, Inv, TypeOK
<1>1. Over' = Over \cup {r} /\ r \notin Over
  BY DEF Over
<1>2. settledBy' = [e \in Entries |-> IF e \in {} THEN r ELSE settledBy[e]]
  BY DEF dbVars
<1>3. totalPaid' = [q \in Quants |-> totalPaid[q] +
                      SumFunctionOnSet([t \in {} |-> t.cents], {t \in {} : t.to = q})]
  <2>1. ASSUME NEW q \in Quants
        PROVE  totalPaid[q] + SumFunctionOnSet([t \in {} |-> t.cents], {t \in {} : t.to = q})
                 = totalPaid[q]
    <3>1. {t \in {} : t.to = q} = {}
      OBVIOUS
    <3>2. SumFunctionOnSet([t \in {} |-> t.cents], {t \in {} : t.to = q}) = 0
      BY <3>1, SumEmpty
    <3>3. totalPaid[q] \in Nat
      OBVIOUS
    <3>4. QED
      BY <3>2, <3>3
  <2>2. totalPaid' = [q \in Quants |-> totalPaid[q]]
    BY DEF dbVars
  <2>3. QED
    BY <2>1, <2>2
<1>4. ledger' = ledger /\ Arrived' = Arrived
  BY DEF dbVars, Arrived
<1>5. QED
  BY <1>1, <1>2, <1>3, <1>4, CloseIs, Zenon

\* A commit books the transfers of its run whose rows it settles.
LEMMA CommitCloses ==
  ASSUME BookInv, NEW r \in Runs, Commit(r)
  PROVE  Book!Next
<1> DEFINE P == {t \in Arrived : t.run = r /\ t.to \in paid[r]}
           S == marks[r]
           cents == [t \in P |-> t.cents]
<1> USE DEF BookInv, BooksInv
<1>1. Over' = Over \cup {r} /\ r \notin Over
  BY DEF Commit, Over, TypeOK, Ended
<1>2. settledBy' = [e \in Entries |-> IF e \in S THEN r ELSE settledBy[e]]
  BY DEF Commit
<1>3. ASSUME NEW q \in paid[r] PROVE \E t \in P : t.to = q
  <2>1. PICK t \in txs : t.run = r /\ t.to = q /\ t.status = "success"
    BY <1>3 DEF Books, PaidSent, Sent
  <2> DEFINE a == [run |-> t.run, to |-> t.to, cents |-> t.cents]
  <2>2. a \in Arrived /\ a.run = r /\ a.to = q
    BY <2>1, ArrivedIs
  <2>3. QED
    BY <2>2
<1>4. \A e \in S : settledBy[e] = None /\ \E t \in P : t.to = QuantOf[e]
  <2>1. ASSUME NEW e \in S PROVE settledBy[e] = None /\ QuantOf[e] \in paid[r]
    BY DEF Inv, MarksSent, TypeOK
  <2> HIDE DEF P
  <2>2. QED
    BY <1>3, <2>1
<1>5. ASSUME NEW q \in Quants, q \in paid[r]
      PROVE  SumFunctionOnSet(cents, {t \in P : t.to = q}) = Owed(Of(rows[r], q))
  <2>1. PICK p \in P : p.to = q
    BY <1>3, <1>5
  <2>2. p.cents = Owed(Of(rows[r], q)) /\ p.cents \in Int
    <3>1. PICK t \in txs : p = [run |-> t.run, to |-> t.to, cents |-> t.cents]
      BY ArrivedIs
    <3>2. t.run = r /\ t.to = q /\ p.cents = t.cents
      BY <2>1, <3>1
    <3>3. t.cents = Owed(Of(rows[r], q)) /\ t.cents \in Nat
      BY <3>2 DEF Books, CentsRight, TypeOK, Transfer
    <3>4. QED
      BY <3>2, <3>3
  <2>3. ASSUME NEW s \in P, s.to = q PROVE s = p
    <3>1. PICK t \in txs : p = [run |-> t.run, to |-> t.to, cents |-> t.cents]
      BY ArrivedIs
    <3>2. PICK u \in txs : s = [run |-> u.run, to |-> u.to, cents |-> u.cents]
      BY ArrivedIs
    <3>3. t.run = r /\ t.to = q /\ u.run = r /\ u.to = q
      BY <2>1, <2>3, <3>1, <3>2
    <3>4. t = u
      BY <3>3 DEF Inv, Once, OneTransferPerRun
    <3>5. QED
      BY <3>1, <3>2, <3>4
  <2>4. cents[p] = p.cents
    OBVIOUS
  <2> HIDE DEF cents, P
  <2>5. {t \in P : t.to = q} = {p}
    BY <2>1, <2>3
  <2>6. SumFunctionOnSet(cents, {p}) = cents[p]
    BY <2>2, <2>4, SumOne
  <2>7. QED
    BY <2>2, <2>4, <2>5, <2>6
<1>6. ASSUME NEW q \in Quants, q \notin paid[r]
      PROVE  SumFunctionOnSet(cents, {t \in P : t.to = q}) = 0
  <2>1. {t \in P : t.to = q} = {}
    BY <1>6
  <2> HIDE DEF cents, P
  <2>2. QED
    BY <2>1, SumEmpty
<1>7. totalPaid' = [q \in Quants |-> totalPaid[q] + SumFunctionOnSet(cents, {t \in P : t.to = q})]
  <2>1. totalPaid' = [q \in Quants |-> IF q \in paid[r] THEN totalPaid[q] + Owed(Of(rows[r], q))
                                       ELSE totalPaid[q]]
    BY DEF Commit
  <2>2. \A q \in Quants : totalPaid[q] \in Nat
    BY DEF TypeOK
  <2> HIDE DEF cents, P
  <2>3. ASSUME NEW q \in Quants
        PROVE  (IF q \in paid[r] THEN totalPaid[q] + Owed(Of(rows[r], q)) ELSE totalPaid[q])
                 = totalPaid[q] + SumFunctionOnSet(cents, {t \in P : t.to = q})
    BY <1>5, <1>6, <2>2
  <2>4. QED
    BY <2>1, <2>3
<1>8. ledger' = ledger /\ Arrived' = Arrived
  BY DEF Commit, Arrived
<1>9. P \in SUBSET Arrived /\ S \in SUBSET ledger /\ \A t \in P : t.run = r
  BY DEF Selected
<1>10. cents = [t \in P |-> t.cents]
  OBVIOUS
<1> HIDE DEF P, S, cents
<1>11. QED
  BY <1>1, <1>2, <1>4, <1>7, <1>8, <1>9, <1>10, CloseIs

\* A transfer that is mined arrives; one that reverts does not.
LEMMA MineArrives ==
  ASSUME BookInv, Mine
  PROVE  Book!Next \/ UNCHANGED Book!vars
<1> USE DEF BookInv, BooksInv
<1>1. PICK t \in txs, s \in {"success", "reverted"} :
        t.status = "pending" /\ txs' = (txs \ {t}) \cup {[t EXCEPT !.status = s]}
  BY DEF Mine, AtNonce
<1> DEFINE n == [t EXCEPT !.status = s]
           a == [run |-> t.run, to |-> t.to, cents |-> t.cents]
<1>2. n.run = t.run /\ n.to = t.to /\ n.cents = t.cents /\ n.status = s
  BY DEF TypeOK, Transfer
<1>3. txs' = (txs \ {t}) \cup {n}
  BY <1>1
<1>4. UNCHANGED <<ledger, settledBy, totalPaid>> /\ Over' = Over
  BY DEF Mine, dbVars, runVars, Over
<1> HIDE DEF n
<1>5. CASE s = "reverted"
  <2>1. {u \in txs' : u.status = "success"} = {u \in txs : u.status = "success"}
    BY <1>1, <1>2, <1>3, <1>5
  <2>2. Arrived' = Arrived
    BY <2>1 DEF Arrived
  <2>3. QED
    BY <1>4, <2>2 DEF Book!vars, Arrived, Over
<1>6. CASE s = "success"
  <2>1. {u \in txs' : u.status = "success"} = {u \in txs : u.status = "success"} \cup {n}
    BY <1>1, <1>2, <1>3, <1>6
  <2>2. Arrived' = Arrived \cup {a}
    BY <1>2, <2>1 DEF Arrived
  <2> DEFINE q == t.to
             r == t.run
             S == Of(rows[r], q)
  <2>3. r \in Runs /\ q \in Quants
    BY DEF TypeOK, Transfer
  <2>4. \A u \in Arrived : u.run = r => u.to # q
    <3> SUFFICES ASSUME NEW u \in Arrived, u.run = r, u.to = q PROVE FALSE
      OBVIOUS
    <3>1. PICK v \in txs : v.status = "success" /\ u = [run |-> v.run, to |-> v.to, cents |-> v.cents]
      BY ArrivedIs
    <3>2. v.run = t.run /\ v.to = t.to
      BY <3>1
    <3>3. v = t
      BY <3>2 DEF Inv, Once, OneTransferPerRun
    <3>4. QED
      BY <1>1, <3>1, <3>3
  <2>5. S \in SUBSET Entries /\ IsFiniteSet(S)
    <3>1. S \subseteq rows[r]
      BY DEF Of
    <3>2. IsFiniteSet(rows[r]) /\ rows[r] \subseteq Entries
      BY <2>3 DEF Finite, TypeOK
    <3>3. QED
      BY <3>1, <3>2, FS_Subset
  <2>6. t.cents = Owed(S) /\ t.cents >= MinPayout
    BY DEF Books, CentsRight, SentWorth
  <2>7. SumFunctionOnSet(WorthOf, S) = t.cents
    <3> HIDE DEF S
    <3>1. QED
      BY <2>5, <2>6, WorthSame
  <2>8. S \in SUBSET ledger /\ \A e \in S : QuantOf[e] = q
    BY <2>3 DEF Selected, Of
  <2>9. a = [run |-> r, to |-> q, cents |-> SumFunctionOnSet(WorthOf, S)]
    BY <2>7
  <2>10. SumFunctionOnSet(WorthOf, S) >= MinPayout
    BY <2>6, <2>7
  <2> HIDE DEF a, S, q, r
  <2>11. QED
    BY <1>4, <2>2, <2>3, <2>4, <2>8, <2>9, <2>10, TransferIs
<1>7. QED
  BY <1>5, <1>6

\* RecordRevenueSplit is the book's Append, Mine its Transfer, the end of a run
\* its Close, and the rest stutters.
LEMMA BookStep == BookInv /\ [Next]_vars => [Book!Next]_(Book!vars)
<1> SUFFICES ASSUME BookInv, [Next]_vars PROVE [Book!Next]_(Book!vars)
  OBVIOUS
<1>0. Types /\ TypeOK
  BY DEF BookInv, BooksInv, Inv
<1>1. ASSUME NEW e \in Entries, RecordRevenueSplit(e) PROVE Book!Next
  <2>1. Book!Append(e)
    BY <1>1 DEF RecordRevenueSplit, Book!Append, runVars
  <2>2. QED
    BY <2>1 DEF Book!Next
<1>2. ASSUME UNCHANGED <<ledger, settledBy, totalPaid>>, Arrived' = Arrived, Over' = Over
      PROVE  UNCHANGED Book!vars
  BY <1>2 DEF Book!vars, Arrived, Over
<1>3. ASSUME UNCHANGED dbVars, txs' = txs, NEW r \in Runs, pc[r] \notin Ended, NEW x \in RunPC,
             pc' = [pc EXCEPT ![r] = x]
      PROVE  Book!Next \/ UNCHANGED Book!vars
  <2>1. CASE x \in Ended
    BY <1>3, <2>1, CloseNothing
  <2>2. CASE x \notin Ended
    <3>1. Over' = Over
      BY <1>0, <1>3, <2>2 DEF Over, TypeOK
    <3>2. Arrived' = Arrived
      BY <1>3 DEF Arrived
    <3>3. QED
      BY <1>2, <1>3, <3>1, <3>2 DEF dbVars
  <2>3. QED
    BY <2>1, <2>2
<1>4. ASSUME NEW r \in Runs, \/ SumUnsettled(r) \/ NoKey(r) \/ GetNonce(r) \/ SendFails(r)
                             \/ Receipt(r) \/ Mark(r) \/ Raise(r) \/ Crash(r)
      PROVE  Book!Next \/ UNCHANGED Book!vars
  <2>1. UNCHANGED dbVars /\ txs' = txs
    BY <1>4 DEF SumUnsettled, NoKey, GetNonce, SendFails, Receipt, Mark, Raise, Crash, dbVars
  <2>2. pc[r] \notin Ended /\ \E x \in RunPC : pc' = [pc EXCEPT ![r] = x]
    BY <1>4 DEF SumUnsettled, NoKey, GetNonce, SendFails, Receipt, Mark, Raise, Crash, RunPC, Ended
  <2>3. QED
    BY <1>3, <2>1, <2>2
<1>5. ASSUME NEW r \in Runs, NEW q \in Quants, Send(r, q) PROVE UNCHANGED Book!vars
  <2> DEFINE new == [run |-> r, to |-> q, nonce |-> nonce[r],
                     cents |-> Owed(Of(rows[r], q)), status |-> "pending"]
  <2>1. new.status # "success"
    OBVIOUS
  <2>2. txs' = txs \cup {new} /\ UNCHANGED dbVars
    BY <1>5 DEF Send
  <2> HIDE DEF new
  <2>3. {u \in txs' : u.status = "success"} = {u \in txs : u.status = "success"}
    BY <2>1, <2>2
  <2>4. Arrived' = Arrived
    BY <2>3 DEF Arrived
  <2>5. Over' = Over
    BY <1>0, <1>5 DEF Send, Over, TypeOK, Ended
  <2>6. QED
    BY <1>2, <2>2, <2>4, <2>5 DEF dbVars
<1>6. CASE UNCHANGED vars
  <2>1. Arrived' = Arrived /\ Over' = Over
    BY <1>6 DEF vars, runVars, Arrived, Over
  <2>2. QED
    BY <1>2, <1>6, <2>1 DEF vars, dbVars
<1>7. QED
  BY <1>1, <1>4, <1>5, <1>6, CommitCloses, MineArrives DEF Next, Settle

\* ImplementsPayouts: the payout job implements the abstract payout book
\* (payout_settlement.py:111-223).
THEOREM ImplementsBook == Spec => ImplementsPayouts
<1>1. Init => Selected /\ SentWorth
  BY DEF Init, Selected, SentWorth
<1>2. BookInv /\ [Next]_vars /\ BooksInv' => BookInv'
  BY SelectedStep, SentWorthStep DEF BookInv
<1>3. Init /\ BooksInv => BookInv
  BY <1>1 DEF BookInv
<1>4. Spec => []BookInv
  BY <1>2, <1>3, BooksInvHolds, PTL DEF Spec
<1>5. QED
  BY <1>4, BookInit, BookStep, PTL DEF Spec, Book!Spec, ImplementsPayouts

=============================================================================
