--------------------------- MODULE BalanceProofs ---------------------------
(***************************************************************************)
(* Theorems about Balance for every set of users, requests and keys, every *)
(* price and every starting balance; and, in the last part, about Billing, *)
(* which extends it, for any number of deliveries and payloads of any      *)
(* length that may repeat a transfer.                                      *)
(***************************************************************************)
EXTENDS Billing, SumLemmas

(***************************************************************************)
(* Types.                                                                  *)
(***************************************************************************)

\* Every initial state has the types.
LEMMA TypeInit == Init => TypeOK
BY BalanceConstants DEF Init, TypeOK, PC, NeedsHold, ConfirmSection

\* Every action keeps the types.
LEMMA TypeStep == TypeOK /\ [Next]_vars => TypeOK'
<1> SUFFICES ASSUME TypeOK, [Next]_vars PROVE TypeOK'
  OBVIOUS
<1> USE BalanceConstants DEF TypeOK, PC, NeedsHold, HoldSection, ConfirmSection, InSection, Terminal
<1>1. CASE UNCHANGED vars
  BY <1>1 DEF vars, redisVars, localVars, historyVars
<1>2. ASSUME NEW r \in Reqs, ReadIdem(r) PROVE TypeOK'
  <2>1. /\ UNCHANGED <<balance, lock, holds, idem, confirmed, bal, view>>
        /\ UNCHANGED <<answered, debited, charged, unbacked>>
    BY <1>2 DEF ReadIdem, redisVars, historyVars
  <2>2. CASE Cost[r] = 0
    BY <1>2, <2>1, <2>2 DEF ReadIdem
  <2>3. CASE Cost[r] # 0 /\ idem[Key[r]] = None
    BY <1>2, <2>1, <2>3 DEF ReadIdem
  <2>4. CASE Cost[r] # 0 /\ idem[Key[r]] # None
    <3>1. idem[Key[r]] \in Reqs
      BY <2>4
    <3>2. QED
      BY <1>2, <2>1, <2>4, <3>1 DEF ReadIdem
  <2>5. QED
    BY <2>2, <2>3, <2>4
<1>3. ASSUME NEW r \in Reqs, ReadPriorHold(r) PROVE TypeOK'
  BY <1>3 DEF ReadPriorHold, Goto, redisVars, localVars, historyVars, HoldsOf
<1>4. ASSUME NEW r \in Reqs, ReadPriorConfirmed(r) PROVE TypeOK'
  BY <1>4 DEF ReadPriorConfirmed, Goto, redisVars, localVars, historyVars, HoldsOf
<1>5. ASSUME NEW r \in Reqs, Acquire(r, "waitHold", "refresh") PROVE TypeOK'
  BY <1>5 DEF Acquire, Goto, redisVars, localVars, historyVars, HoldsOf
<1>6. ASSUME NEW r \in Reqs, GiveUpWaiting(r, "waitHold") PROVE TypeOK'
  BY <1>6 DEF GiveUpWaiting, Goto, redisVars, localVars, historyVars, HoldsOf
<1>7. ASSUME NEW r \in Reqs, Refresh(r) PROVE TypeOK'
  BY <1>7 DEF Refresh, Goto, redisVars, localVars, historyVars, HoldsOf
<1>8. ASSUME NEW r \in Reqs, SumHolds(r) PROVE TypeOK'
  BY <1>8 DEF SumHolds, Goto, redisVars, localVars, historyVars, HoldsOf
<1>9. ASSUME NEW r \in Reqs, SetHold(r) PROVE TypeOK'
  BY <1>9 DEF SetHold, Goto, redisVars, localVars, historyVars, HoldsOf
<1>10. ASSUME NEW r \in Reqs, Unlock(r, "unlockHold", "infer") PROVE TypeOK'
  BY <1>10 DEF Unlock, Goto, redisVars, localVars, historyVars, HoldsOf
<1>11. ASSUME NEW r \in Reqs, Unlock(r, "unlockFail", "failed") PROVE TypeOK'
  BY <1>11 DEF Unlock, Goto, redisVars, localVars, historyVars, HoldsOf
<1>12. ASSUME NEW r \in Reqs, InferenceSucceeds(r) PROVE TypeOK'
  BY <1>12 DEF InferenceSucceeds, Goto, redisVars, localVars, historyVars, HoldsOf
<1>13. ASSUME NEW r \in Reqs, InferenceFails(r) PROVE TypeOK'
  BY <1>13 DEF InferenceFails, Goto, redisVars, localVars, historyVars, HoldsOf
<1>14. ASSUME NEW r \in Reqs, ReleaseHold(r) PROVE TypeOK'
  BY <1>14 DEF ReleaseHold, Goto, redisVars, localVars, historyVars, HoldsOf
<1>15. ASSUME NEW r \in Reqs, ReadConfirmed(r) PROVE TypeOK'
  BY <1>15 DEF ReadConfirmed, Goto, redisVars, localVars, historyVars, HoldsOf
<1>16. ASSUME NEW r \in Reqs, ReadHold(r) PROVE TypeOK'
  BY <1>16 DEF ReadHold, Goto, redisVars, localVars, historyVars, HoldsOf
<1>17. ASSUME NEW r \in Reqs, Acquire(r, "waitConfirm", "refreshConfirm") PROVE TypeOK'
  BY <1>17 DEF Acquire, Goto, redisVars, localVars, historyVars, HoldsOf
<1>18. ASSUME NEW r \in Reqs, GiveUpWaiting(r, "waitConfirm") PROVE TypeOK'
  BY <1>18 DEF GiveUpWaiting, Goto, redisVars, localVars, historyVars, HoldsOf
<1>19. ASSUME NEW r \in Reqs, RefreshConfirm(r) PROVE TypeOK'
  BY <1>19 DEF RefreshConfirm, Goto, redisVars, localVars, historyVars, HoldsOf
<1>20. ASSUME NEW r \in Reqs, DropHold(r) PROVE TypeOK'
  BY <1>20 DEF DropHold, Goto, redisVars, localVars, historyVars, HoldsOf
<1>21. ASSUME NEW r \in Reqs, Debit(r) PROVE TypeOK'
  BY <1>21 DEF Debit, Goto, redisVars, localVars, historyVars, HoldsOf
<1>22. ASSUME NEW r \in Reqs, Settle(r) PROVE TypeOK'
  BY <1>22 DEF Settle, Goto, redisVars, localVars, historyVars, HoldsOf
<1>23. ASSUME NEW r \in Reqs, Unlock(r, "unlockConfirm", "persist") PROVE TypeOK'
  BY <1>23 DEF Unlock, Goto, redisVars, localVars, historyVars, HoldsOf
<1>24. ASSUME NEW r \in Reqs, Persist(r) PROVE TypeOK'
  BY <1>24 DEF Persist, Goto, redisVars, localVars, historyVars, HoldsOf
<1>25. ASSUME NEW r \in Reqs, Crash(r) PROVE TypeOK'
  BY <1>25 DEF Crash, Goto, redisVars, localVars, historyVars, HoldsOf
<1>26. ASSUME NEW r \in Reqs, HoldExpires(r) PROVE TypeOK'
  BY <1>26 DEF HoldExpires, Goto, redisVars, localVars, historyVars, HoldsOf
<1>27. ASSUME NEW u \in Users, LockExpires(u) PROVE TypeOK'
  BY <1>27 DEF LockExpires, localVars, historyVars
<1>28. QED
  BY <1>1, <1>2, <1>3, <1>4, <1>5, <1>6, <1>7, <1>8, <1>9, <1>10, <1>11, <1>12, <1>13,
     <1>14, <1>15, <1>16, <1>17, <1>18, <1>19, <1>20, <1>21, <1>22, <1>23, <1>24, <1>25,
     <1>26, <1>27 DEF Next, Predict, HoldBalance, Inference, ConfirmHold

\* TypeOK: every variable has its type, and a request past hold_balance has
\* the id of a hold (balance.py:100-126).
THEOREM TypeCorrect == Spec => []TypeOK
BY TypeInit, TypeStep, PTL DEF Spec

(***************************************************************************)
(* The balance stays non-negative, with or without slow sections: whatever *)
(* was read, what is written is what was read less an amount that fits.    *)
(***************************************************************************)

DebitFits == \A r \in Reqs : pc[r] = "debit" => bal[r] >= Cost[myHold[r]]

Solvent == BalanceNonNegative /\ DebitFits

\* A section that is about to debit has seen enough balance, and no step forgets it.
LEMMA SolventStep == TypeOK /\ Solvent /\ [Next]_vars => Solvent'
<1> SUFFICES ASSUME TypeOK, Solvent, [Next]_vars PROVE Solvent'
  OBVIOUS
<1> USE BalanceConstants
    DEF TypeOK, PC, NeedsHold, HoldSection, ConfirmSection, InSection, Terminal,
        Solvent, BalanceNonNegative, DebitFits
<1>1. CASE UNCHANGED vars
  BY <1>1 DEF vars, redisVars, localVars, historyVars
<1>2. ASSUME NEW r \in Reqs, ReadIdem(r) PROVE Solvent'
  BY <1>2 DEF ReadIdem, Goto, redisVars, localVars, historyVars
<1>3. ASSUME NEW r \in Reqs, ReadPriorHold(r) PROVE Solvent'
  BY <1>3 DEF ReadPriorHold, Goto, redisVars, localVars, historyVars
<1>4. ASSUME NEW r \in Reqs, ReadPriorConfirmed(r) PROVE Solvent'
  BY <1>4 DEF ReadPriorConfirmed, Goto, redisVars, localVars, historyVars
<1>5. ASSUME NEW r \in Reqs, Acquire(r, "waitHold", "refresh") PROVE Solvent'
  BY <1>5 DEF Acquire, Goto, redisVars, localVars, historyVars
<1>6. ASSUME NEW r \in Reqs, GiveUpWaiting(r, "waitHold") PROVE Solvent'
  BY <1>6 DEF GiveUpWaiting, Goto, redisVars, localVars, historyVars
<1>7. ASSUME NEW r \in Reqs, Refresh(r) PROVE Solvent'
  BY <1>7 DEF Refresh, Goto, redisVars, localVars, historyVars
<1>8. ASSUME NEW r \in Reqs, SumHolds(r) PROVE Solvent'
  BY <1>8 DEF SumHolds, Goto, redisVars, localVars, historyVars
<1>9. ASSUME NEW r \in Reqs, SetHold(r) PROVE Solvent'
  BY <1>9 DEF SetHold, Goto, redisVars, localVars, historyVars
<1>10. ASSUME NEW r \in Reqs, Unlock(r, "unlockHold", "infer") PROVE Solvent'
  BY <1>10 DEF Unlock, Goto, redisVars, localVars, historyVars
<1>11. ASSUME NEW r \in Reqs, Unlock(r, "unlockFail", "failed") PROVE Solvent'
  BY <1>11 DEF Unlock, Goto, redisVars, localVars, historyVars
<1>12. ASSUME NEW r \in Reqs, InferenceSucceeds(r) PROVE Solvent'
  BY <1>12 DEF InferenceSucceeds, Goto, redisVars, localVars, historyVars
<1>13. ASSUME NEW r \in Reqs, InferenceFails(r) PROVE Solvent'
  BY <1>13 DEF InferenceFails, Goto, redisVars, localVars, historyVars
<1>14. ASSUME NEW r \in Reqs, ReleaseHold(r) PROVE Solvent'
  BY <1>14 DEF ReleaseHold, Goto, redisVars, localVars, historyVars
<1>15. ASSUME NEW r \in Reqs, ReadConfirmed(r) PROVE Solvent'
  BY <1>15 DEF ReadConfirmed, Goto, redisVars, localVars, historyVars
<1>16. ASSUME NEW r \in Reqs, ReadHold(r) PROVE Solvent'
  BY <1>16 DEF ReadHold, Goto, redisVars, localVars, historyVars
<1>17. ASSUME NEW r \in Reqs, Acquire(r, "waitConfirm", "refreshConfirm") PROVE Solvent'
  BY <1>17 DEF Acquire, Goto, redisVars, localVars, historyVars
<1>18. ASSUME NEW r \in Reqs, GiveUpWaiting(r, "waitConfirm") PROVE Solvent'
  BY <1>18 DEF GiveUpWaiting, Goto, redisVars, localVars, historyVars
<1>19. ASSUME NEW r \in Reqs, RefreshConfirm(r) PROVE Solvent'
  BY <1>19 DEF RefreshConfirm, Goto, redisVars, localVars, historyVars
<1>20. ASSUME NEW r \in Reqs, DropHold(r) PROVE Solvent'
  BY <1>20 DEF DropHold, Goto, redisVars, localVars, historyVars
<1>21. ASSUME NEW r \in Reqs, Debit(r) PROVE Solvent'
  BY <1>21 DEF Debit, Goto, redisVars, localVars, historyVars
<1>22. ASSUME NEW r \in Reqs, Settle(r) PROVE Solvent'
  BY <1>22 DEF Settle, Goto, redisVars, localVars, historyVars
<1>23. ASSUME NEW r \in Reqs, Unlock(r, "unlockConfirm", "persist") PROVE Solvent'
  BY <1>23 DEF Unlock, Goto, redisVars, localVars, historyVars
<1>24. ASSUME NEW r \in Reqs, Persist(r) PROVE Solvent'
  BY <1>24 DEF Persist, Goto, redisVars, localVars, historyVars
<1>25. ASSUME NEW r \in Reqs, Crash(r) PROVE Solvent'
  BY <1>25 DEF Crash, Goto, redisVars, localVars, historyVars
<1>26. ASSUME NEW r \in Reqs, HoldExpires(r) PROVE Solvent'
  BY <1>26 DEF HoldExpires, Goto, redisVars, localVars, historyVars
<1>27. ASSUME NEW u \in Users, LockExpires(u) PROVE Solvent'
  BY <1>27 DEF LockExpires, localVars, historyVars
<1>28. QED
  BY <1>1, <1>2, <1>3, <1>4, <1>5, <1>6, <1>7, <1>8, <1>9, <1>10, <1>11, <1>12, <1>13,
     <1>14, <1>15, <1>16, <1>17, <1>18, <1>19, <1>20, <1>21, <1>22, <1>23, <1>24, <1>25,
     <1>26, <1>27 DEF Next, Predict, HoldBalance, Inference, ConfirmHold

\* BalanceNonNegative: no interleaving makes a balance negative
\* (balance.py:154-163).
THEOREM NonNegative == Spec => []BalanceNonNegative
<1>1. Init => Solvent
  BY BalanceConstants DEF Init, Solvent, BalanceNonNegative, DebitFits
<1>2. Solvent => BalanceNonNegative
  BY DEF Solvent
<1>3. QED
  BY <1>1, <1>2, TypeCorrect, SolventStep, PTL DEF Spec

(***************************************************************************)
(* Who pays for what.                                                      *)
(***************************************************************************)

KeysMatch ==
  \A k \in Keys : idem[k] # None => Key[idem[k]] = k /\ Cost[idem[k]] > 0

ConfirmedWasPaid == \A h \in Reqs : confirmed[h] >= 0 => debited[h] >= 1

HoldFits ==
  \A r \in Reqs :
    /\ pc[r] \in {"readPrior", "readPriorConfirmed", "waitHold", "refresh", "sum", "setHold"}
         => Cost[r] > 0
    /\ pc[r] \in NeedsHold => Key[myHold[r]] = Key[r]
    /\ pc[r] \in NeedsHold /\ Cost[r] > 0 => Cost[myHold[r]] > 0
    /\ pc[r] \in NeedsHold \ {"readPrior", "readPriorConfirmed"} => Owner[myHold[r]] = Owner[r]

HoldPaid ==
  \A r \in Reqs :
    /\ pc[r] \in {"readHold", "waitConfirm"} \cup ConfirmSection => Cost[myHold[r]] > 0
    /\ pc[r] \in {"settle", "unlockConfirm"} => debited[myHold[r]] >= 1
    /\ pc[r] \in {"persist", "served"} /\ Cost[myHold[r]] > 0 => debited[myHold[r]] >= 1

Paid == KeysMatch /\ ConfirmedWasPaid /\ HoldFits /\ HoldPaid

\* Where a request stands says what is known of the hold it goes through.
LEMMA PaidStep == TypeOK /\ Paid /\ [Next]_vars => Paid'
<1> SUFFICES ASSUME TypeOK, Paid, [Next]_vars PROVE Paid'
  OBVIOUS
<1> USE BalanceConstants
    DEF TypeOK, PC, NeedsHold, HoldSection, ConfirmSection, InSection, Terminal,
        Paid, KeysMatch, ConfirmedWasPaid, HoldFits, HoldPaid
<1>1. CASE UNCHANGED vars
  BY <1>1 DEF vars, redisVars, localVars, historyVars
<1>2. ASSUME NEW r \in Reqs, ReadIdem(r) PROVE Paid'
  <2>1. UNCHANGED <<idem, confirmed, debited>>
    BY <1>2 DEF ReadIdem, redisVars, historyVars
  <2>2. KeysMatch' /\ ConfirmedWasPaid'
    BY <2>1
  <2>3. CASE Cost[r] = 0
    <3>1. pc' = [pc EXCEPT ![r] = "infer"] /\ myHold' = [myHold EXCEPT ![r] = r]
      BY <1>2, <2>3 DEF ReadIdem
    <3>2. QED
      BY <2>1, <2>2, <2>3, <3>1
  <2>4. CASE Cost[r] # 0 /\ idem[Key[r]] = None
    <3>1. pc' = [pc EXCEPT ![r] = "waitHold"] /\ myHold' = [myHold EXCEPT ![r] = None]
      BY <1>2, <2>4 DEF ReadIdem
    <3>2. QED
      BY <2>1, <2>2, <2>4, <3>1
  <2>5. CASE Cost[r] # 0 /\ idem[Key[r]] # None
    <3>1. /\ pc' = [pc EXCEPT ![r] = "readPrior"]
          /\ myHold' = [myHold EXCEPT ![r] = idem[Key[r]]]
      BY <1>2, <2>5 DEF ReadIdem
    <3>2. QED
      BY <2>1, <2>2, <2>5, <3>1
  <2>6. QED
    BY <2>3, <2>4, <2>5
<1>3. ASSUME NEW r \in Reqs, ReadPriorHold(r) PROVE Paid'
  BY <1>3 DEF ReadPriorHold, Goto, redisVars, localVars, historyVars, HoldsOf
<1>4. ASSUME NEW r \in Reqs, ReadPriorConfirmed(r) PROVE Paid'
  BY <1>4 DEF ReadPriorConfirmed, Goto, redisVars, localVars, historyVars, HoldsOf
<1>5. ASSUME NEW r \in Reqs, Acquire(r, "waitHold", "refresh") PROVE Paid'
  BY <1>5 DEF Acquire, Goto, redisVars, localVars, historyVars, HoldsOf
<1>6. ASSUME NEW r \in Reqs, GiveUpWaiting(r, "waitHold") PROVE Paid'
  BY <1>6 DEF GiveUpWaiting, Goto, redisVars, localVars, historyVars, HoldsOf
<1>7. ASSUME NEW r \in Reqs, Refresh(r) PROVE Paid'
  BY <1>7 DEF Refresh, Goto, redisVars, localVars, historyVars, HoldsOf
<1>8. ASSUME NEW r \in Reqs, SumHolds(r) PROVE Paid'
  BY <1>8 DEF SumHolds, Goto, redisVars, localVars, historyVars, HoldsOf
<1>9. ASSUME NEW r \in Reqs, SetHold(r) PROVE Paid'
  BY <1>9 DEF SetHold, Goto, redisVars, localVars, historyVars, HoldsOf
<1>10. ASSUME NEW r \in Reqs, Unlock(r, "unlockHold", "infer") PROVE Paid'
  BY <1>10 DEF Unlock, Goto, redisVars, localVars, historyVars, HoldsOf
<1>11. ASSUME NEW r \in Reqs, Unlock(r, "unlockFail", "failed") PROVE Paid'
  BY <1>11 DEF Unlock, Goto, redisVars, localVars, historyVars, HoldsOf
<1>12. ASSUME NEW r \in Reqs, InferenceSucceeds(r) PROVE Paid'
  BY <1>12 DEF InferenceSucceeds, Goto, redisVars, localVars, historyVars, HoldsOf
<1>13. ASSUME NEW r \in Reqs, InferenceFails(r) PROVE Paid'
  BY <1>13 DEF InferenceFails, Goto, redisVars, localVars, historyVars, HoldsOf
<1>14. ASSUME NEW r \in Reqs, ReleaseHold(r) PROVE Paid'
  BY <1>14 DEF ReleaseHold, Goto, redisVars, localVars, historyVars, HoldsOf
<1>15. ASSUME NEW r \in Reqs, ReadConfirmed(r) PROVE Paid'
  BY <1>15 DEF ReadConfirmed, Goto, redisVars, localVars, historyVars, HoldsOf
<1>16. ASSUME NEW r \in Reqs, ReadHold(r) PROVE Paid'
  BY <1>16 DEF ReadHold, Goto, redisVars, localVars, historyVars, HoldsOf
<1>17. ASSUME NEW r \in Reqs, Acquire(r, "waitConfirm", "refreshConfirm") PROVE Paid'
  BY <1>17 DEF Acquire, Goto, redisVars, localVars, historyVars, HoldsOf
<1>18. ASSUME NEW r \in Reqs, GiveUpWaiting(r, "waitConfirm") PROVE Paid'
  BY <1>18 DEF GiveUpWaiting, Goto, redisVars, localVars, historyVars, HoldsOf
<1>19. ASSUME NEW r \in Reqs, RefreshConfirm(r) PROVE Paid'
  BY <1>19 DEF RefreshConfirm, Goto, redisVars, localVars, historyVars, HoldsOf
<1>20. ASSUME NEW r \in Reqs, DropHold(r) PROVE Paid'
  BY <1>20 DEF DropHold, Goto, redisVars, localVars, historyVars, HoldsOf
<1>21. ASSUME NEW r \in Reqs, Debit(r) PROVE Paid'
  BY <1>21 DEF Debit, Goto, redisVars, localVars, historyVars, HoldsOf
<1>22. ASSUME NEW r \in Reqs, Settle(r) PROVE Paid'
  BY <1>22 DEF Settle, Goto, redisVars, localVars, historyVars, HoldsOf
<1>23. ASSUME NEW r \in Reqs, Unlock(r, "unlockConfirm", "persist") PROVE Paid'
  BY <1>23 DEF Unlock, Goto, redisVars, localVars, historyVars, HoldsOf
<1>24. ASSUME NEW r \in Reqs, Persist(r) PROVE Paid'
  BY <1>24 DEF Persist, Goto, redisVars, localVars, historyVars, HoldsOf
<1>25. ASSUME NEW r \in Reqs, Crash(r) PROVE Paid'
  BY <1>25 DEF Crash, Goto, redisVars, localVars, historyVars, HoldsOf
<1>26. ASSUME NEW r \in Reqs, HoldExpires(r) PROVE Paid'
  BY <1>26 DEF HoldExpires, Goto, redisVars, localVars, historyVars, HoldsOf
<1>27. ASSUME NEW u \in Users, LockExpires(u) PROVE Paid'
  BY <1>27 DEF LockExpires, localVars, historyVars
<1>28. QED
  BY <1>1, <1>2, <1>3, <1>4, <1>5, <1>6, <1>7, <1>8, <1>9, <1>10, <1>11, <1>12, <1>13,
     <1>14, <1>15, <1>16, <1>17, <1>18, <1>19, <1>20, <1>21, <1>22, <1>23, <1>24, <1>25,
     <1>26, <1>27 DEF Next, Predict, HoldBalance, Inference, ConfirmHold

\* ServedIsCharged: a served call went through a hold of its own user and key
\* that was debited (balance.py:86-98, 141-150).
THEOREM PaidCorrect == Spec => []ServedIsCharged
<1>1. Init => Paid
  BY BalanceConstants
     DEF Init, Paid, KeysMatch, ConfirmedWasPaid, HoldFits, HoldPaid, NeedsHold, ConfirmSection
<1>2. TypeOK /\ Paid => ServedIsCharged
  <2> SUFFICES ASSUME TypeOK, Paid, NEW r \in Reqs, pc[r] = "served", Cost[r] > 0
               PROVE  /\ debited[myHold[r]] >= 1
                      /\ Owner[myHold[r]] = Owner[r]
                      /\ Key[myHold[r]] = Key[r]
    BY DEF ServedIsCharged
  <2>1. /\ pc[r] \in NeedsHold \ {"readPrior", "readPriorConfirmed"}
        /\ pc[r] \in {"persist", "served"}
    BY DEF NeedsHold
  <2>2. QED
    BY <2>1 DEF Paid, HoldFits, HoldPaid
<1>3. QED
  BY <1>1, <1>2, TypeCorrect, PaidStep, PTL DEF Spec

(***************************************************************************)
(* Mutual exclusion, when the timeouts of the lock outlast its sections.   *)
(***************************************************************************)

Exclusive == \A r \in Reqs : pc[r] \in InSection => lock[Owner[r]] = r

ReadIsCurrent == \A r \in Reqs : pc[r] = "debit" => bal[r] = balance[Owner[r]]

Locked == Exclusive /\ ReadIsCurrent /\ Conservation

\* With sections shorter than their locks, being in a section means to own the lock.
LEMMA LockedStep == ~SlowSections /\ TypeOK /\ Locked /\ [Next]_vars => Locked'
<1> SUFFICES ASSUME ~SlowSections, TypeOK, Locked, [Next]_vars PROVE Locked'
  OBVIOUS
<1> USE BalanceConstants
    DEF TypeOK, PC, NeedsHold, HoldSection, ConfirmSection, InSection, Terminal,
        Locked, Exclusive, ReadIsCurrent, Conservation
<1>1. CASE UNCHANGED vars
  BY <1>1 DEF vars, redisVars, localVars, historyVars
<1>2. ASSUME NEW r \in Reqs, ReadIdem(r) PROVE Locked'
  BY <1>2 DEF ReadIdem, Goto, redisVars, localVars, historyVars
<1>3. ASSUME NEW r \in Reqs, ReadPriorHold(r) PROVE Locked'
  BY <1>3 DEF ReadPriorHold, Goto, redisVars, localVars, historyVars
<1>4. ASSUME NEW r \in Reqs, ReadPriorConfirmed(r) PROVE Locked'
  BY <1>4 DEF ReadPriorConfirmed, Goto, redisVars, localVars, historyVars
<1>5. ASSUME NEW r \in Reqs, Acquire(r, "waitHold", "refresh") PROVE Locked'
  BY <1>5 DEF Acquire, Goto, redisVars, localVars, historyVars
<1>6. ASSUME NEW r \in Reqs, GiveUpWaiting(r, "waitHold") PROVE Locked'
  BY <1>6 DEF GiveUpWaiting, Goto, redisVars, localVars, historyVars
<1>7. ASSUME NEW r \in Reqs, Refresh(r) PROVE Locked'
  BY <1>7 DEF Refresh, Goto, redisVars, localVars, historyVars
<1>8. ASSUME NEW r \in Reqs, SumHolds(r) PROVE Locked'
  BY <1>8 DEF SumHolds, Goto, redisVars, localVars, historyVars
<1>9. ASSUME NEW r \in Reqs, SetHold(r) PROVE Locked'
  BY <1>9 DEF SetHold, Goto, redisVars, localVars, historyVars
<1>10. ASSUME NEW r \in Reqs, Unlock(r, "unlockHold", "infer") PROVE Locked'
  BY <1>10 DEF Unlock, Goto, redisVars, localVars, historyVars
<1>11. ASSUME NEW r \in Reqs, Unlock(r, "unlockFail", "failed") PROVE Locked'
  BY <1>11 DEF Unlock, Goto, redisVars, localVars, historyVars
<1>12. ASSUME NEW r \in Reqs, InferenceSucceeds(r) PROVE Locked'
  BY <1>12 DEF InferenceSucceeds, Goto, redisVars, localVars, historyVars
<1>13. ASSUME NEW r \in Reqs, InferenceFails(r) PROVE Locked'
  BY <1>13 DEF InferenceFails, Goto, redisVars, localVars, historyVars
<1>14. ASSUME NEW r \in Reqs, ReleaseHold(r) PROVE Locked'
  BY <1>14 DEF ReleaseHold, Goto, redisVars, localVars, historyVars
<1>15. ASSUME NEW r \in Reqs, ReadConfirmed(r) PROVE Locked'
  BY <1>15 DEF ReadConfirmed, Goto, redisVars, localVars, historyVars
<1>16. ASSUME NEW r \in Reqs, ReadHold(r) PROVE Locked'
  BY <1>16 DEF ReadHold, Goto, redisVars, localVars, historyVars
<1>17. ASSUME NEW r \in Reqs, Acquire(r, "waitConfirm", "refreshConfirm") PROVE Locked'
  BY <1>17 DEF Acquire, Goto, redisVars, localVars, historyVars
<1>18. ASSUME NEW r \in Reqs, GiveUpWaiting(r, "waitConfirm") PROVE Locked'
  BY <1>18 DEF GiveUpWaiting, Goto, redisVars, localVars, historyVars
<1>19. ASSUME NEW r \in Reqs, RefreshConfirm(r) PROVE Locked'
  BY <1>19 DEF RefreshConfirm, Goto, redisVars, localVars, historyVars
<1>20. ASSUME NEW r \in Reqs, DropHold(r) PROVE Locked'
  BY <1>20 DEF DropHold, Goto, redisVars, localVars, historyVars
<1>21. ASSUME NEW r \in Reqs, Debit(r) PROVE Locked'
  BY <1>21 DEF Debit, Goto, redisVars, localVars, historyVars
<1>22. ASSUME NEW r \in Reqs, Settle(r) PROVE Locked'
  BY <1>22 DEF Settle, Goto, redisVars, localVars, historyVars
<1>23. ASSUME NEW r \in Reqs, Unlock(r, "unlockConfirm", "persist") PROVE Locked'
  BY <1>23 DEF Unlock, Goto, redisVars, localVars, historyVars
<1>24. ASSUME NEW r \in Reqs, Persist(r) PROVE Locked'
  BY <1>24 DEF Persist, Goto, redisVars, localVars, historyVars
<1>25. ASSUME NEW r \in Reqs, Crash(r) PROVE Locked'
  BY <1>25 DEF Crash, Goto, redisVars, localVars, historyVars
<1>26. ASSUME NEW r \in Reqs, HoldExpires(r) PROVE Locked'
  BY <1>26 DEF HoldExpires, Goto, redisVars, localVars, historyVars
<1>27. ASSUME NEW u \in Users, LockExpires(u) PROVE Locked'
  BY <1>27 DEF LockExpires, localVars, historyVars
<1>28. QED
  BY <1>1, <1>2, <1>3, <1>4, <1>5, <1>6, <1>7, <1>8, <1>9, <1>10, <1>11, <1>12, <1>13,
     <1>14, <1>15, <1>16, <1>17, <1>18, <1>19, <1>20, <1>21, <1>22, <1>23, <1>24, <1>25,
     <1>26, <1>27 DEF Next, Predict, HoldBalance, Inference, ConfirmHold

\* At the start nobody is in a section.
LEMMA LockedInit == Init => Locked
BY BalanceConstants
   DEF Init, Locked, Exclusive, ReadIsCurrent, Conservation, InSection, HoldSection, ConfirmSection

\* Locked holds in every reachable state.
LEMMA LockedCorrect == ~SlowSections /\ Spec => []Locked
<1> SUFFICES ASSUME ~SlowSections PROVE Spec => []Locked
  OBVIOUS
<1>1. TypeOK /\ Locked /\ [Next]_vars => Locked'
  BY LockedStep
<1>2. QED
  BY <1>1, LockedInit, TypeCorrect, PTL DEF Spec

\* Conservation: no debit is lost as long as no section outlasts its lock
\* (balance.py:152-163).
THEOREM Conserved == ~SlowSections /\ Spec => []Conservation
<1>1. Locked => Conservation
  BY DEF Locked
<1>2. QED
  BY <1>1, LockedCorrect, PTL

(***************************************************************************)
(* Charges have an answer, with or without slow sections: a request debits *)
(* a hold at most once, after it has its answer.                           *)
(***************************************************************************)

Undebited == {"confirm", "readHold", "waitConfirm", "refreshConfirm", "debit"}

AfterAnswer ==
  Undebited \cup {"dropHold", "settle", "unlockConfirm", "unlockFail", "persist"} \cup Terminal

\* The answered requests of hold h that have debited it or never will.
Past(h) == {r \in answered : myHold[r] = h /\ pc[r] \notin Undebited}

Justified ==
  /\ IsFiniteSet(answered)
  /\ \A r \in Reqs : pc[r] \in Undebited => r \in answered
  /\ \A r \in answered : pc[r] \in AfterAnswer
  /\ \A h \in Reqs : debited[h] <= Cardinality(Past(h))

\* A step that debits nothing takes no answered request back.
LEMMA AnswersKept ==
  ASSUME TypeOK, Justified, [Next]_vars, \A r \in Reqs : ~Debit(r)
  PROVE  /\ debited' = debited /\ answered \subseteq answered'
         /\ answered' \subseteq Reqs /\ IsFiniteSet(answered')
         /\ \A r \in Reqs : pc'[r] \in Undebited => r \in answered'
         /\ \A r \in answered' : pc'[r] \in AfterAnswer
         /\ \A r \in answered : myHold'[r] = myHold[r]
         /\ \A r \in answered : pc[r] \notin Undebited => pc'[r] \notin Undebited
<1> USE DEF TypeOK, PC, Terminal, InSection, HoldSection, ConfirmSection, Justified, Undebited, AfterAnswer
<1> DEFINE Unmoved == UNCHANGED <<debited, answered, pc, myHold>>
           Kept(r) == /\ UNCHANGED <<debited, answered>>
                      /\ \A s \in Reqs \ {r} : pc'[s] = pc[s] /\ myHold'[s] = myHold[s]
                      /\ pc' \in [Reqs -> PC] /\ r \in Reqs
                      /\ r \in answered => myHold'[r] = myHold[r]
                      /\ r \in answered => pc'[r] \in AfterAnswer
                      /\ pc'[r] \in Undebited => pc[r] \in Undebited
<1>1. ASSUME NEW r \in Reqs, ReadIdem(r) \/ ReadPriorHold(r) \/ ReadPriorConfirmed(r) PROVE Kept(r)
  BY <1>1 DEF ReadIdem, ReadPriorHold, ReadPriorConfirmed, Goto, historyVars
<1>2. ASSUME NEW r \in Reqs, Refresh(r) \/ SumHolds(r) \/ SetHold(r) PROVE Kept(r)
  BY <1>2 DEF Refresh, SumHolds, SetHold, Goto, historyVars
<1>3. ASSUME NEW r \in Reqs, Acquire(r, "waitHold", "refresh") \/ GiveUpWaiting(r, "waitHold")
                             \/ Unlock(r, "unlockHold", "infer") \/ Unlock(r, "unlockFail", "failed")
      PROVE  Kept(r)
  BY <1>3 DEF Acquire, GiveUpWaiting, Unlock, Goto, historyVars
<1>4. ASSUME NEW r \in Reqs, InferenceFails(r) \/ ReleaseHold(r) PROVE Kept(r)
  BY <1>4 DEF InferenceFails, ReleaseHold, Goto, historyVars
<1>5. ASSUME NEW r \in Reqs, ReadConfirmed(r) \/ ReadHold(r) \/ RefreshConfirm(r) PROVE Kept(r)
  BY <1>5 DEF ReadConfirmed, ReadHold, RefreshConfirm, Goto, historyVars
<1>6. ASSUME NEW r \in Reqs, DropHold(r) \/ Settle(r) \/ Persist(r) PROVE Kept(r)
  BY <1>6 DEF DropHold, Settle, Persist, Goto, historyVars
<1>7. ASSUME NEW r \in Reqs, Acquire(r, "waitConfirm", "refreshConfirm") \/ GiveUpWaiting(r, "waitConfirm")
                             \/ Unlock(r, "unlockConfirm", "persist")
      PROVE  Kept(r)
  BY <1>7 DEF Acquire, GiveUpWaiting, Unlock, Goto, historyVars
<1>8. ASSUME NEW r \in Reqs, Crash(r) PROVE Kept(r)
  BY <1>8 DEF Crash, historyVars
<1>9. ASSUME NEW r \in Reqs, InferenceSucceeds(r)
      PROVE  /\ debited' = debited /\ answered' = answered \cup {r} /\ myHold' = myHold
             /\ pc[r] = "infer" /\ pc' = [pc EXCEPT ![r] = "confirm"]
  BY <1>9 DEF InferenceSucceeds, Goto
<1>10. ASSUME NEW r \in Reqs, HoldExpires(r) PROVE Unmoved
  BY <1>10 DEF HoldExpires, localVars, historyVars
<1>11. ASSUME NEW u \in Users, LockExpires(u) PROVE Unmoved
  BY <1>11 DEF LockExpires, localVars, historyVars
<1>12. CASE Unmoved
  BY <1>12
<1>13. CASE \E r \in Reqs : Kept(r)
  BY <1>13
<1>14. CASE \E r \in Reqs : InferenceSucceeds(r)
  <2>1. PICK r \in Reqs : InferenceSucceeds(r)
    BY <1>14
  <2>2. IsFiniteSet(answered')
    BY <1>9, <2>1, FS_AddElement
  <2>3. QED
    BY <1>9, <2>1, <2>2
<1>15. CASE UNCHANGED vars
  BY <1>12, <1>15 DEF vars, localVars, historyVars
<1> HIDE DEF Kept, Unmoved
<1>16. QED
  BY <1>1, <1>2, <1>3, <1>4, <1>5, <1>6, <1>7, <1>8, <1>10, <1>11, <1>12, <1>13, <1>14, <1>15
     DEF Next, Predict, HoldBalance, Inference, ConfirmHold

\* A debit takes one request out of those that may still debit its hold.
LEMMA JustifiedStep == TypeOK /\ Justified /\ [Next]_vars => Justified'
<1> SUFFICES ASSUME TypeOK, Justified, [Next]_vars PROVE Justified'
  OBVIOUS
<1> USE DEF Justified
<1>1. CASE \A r \in Reqs : ~Debit(r)
  <2>1. ASSUME NEW h \in Reqs PROVE Past(h) \subseteq Past(h)' /\ Past(h)' \subseteq answered'
    BY <1>1, AnswersKept DEF Past, TypeOK
  <2>2. ASSUME NEW h \in Reqs PROVE Cardinality(Past(h)) <= Cardinality(Past(h)')
    <3>1. IsFiniteSet(Past(h)')
      BY <1>1, <2>1, AnswersKept, FS_Subset
    <3>2. QED
      BY <2>1, <3>1, FS_Subset
  <2>3. ASSUME NEW h \in Reqs PROVE debited'[h] <= Cardinality(Past(h)')
    <3>1. IsFiniteSet(Past(h)) /\ IsFiniteSet(Past(h)')
      BY <1>1, <2>1, AnswersKept, FS_Subset DEF Past
    <3>2. Cardinality(Past(h)) \in Nat /\ Cardinality(Past(h)') \in Nat
      BY <3>1, FS_CardinalityType
    <3>3. debited[h] <= Cardinality(Past(h)) /\ debited[h] \in Nat /\ debited'[h] = debited[h]
      BY <1>1, AnswersKept DEF TypeOK
    <3>4. QED
      BY <2>2, <3>2, <3>3
  <2>4. QED
    BY <1>1, <2>3, AnswersKept
<1>2. ASSUME NEW r \in Reqs, Debit(r) PROVE Justified'
  <2>1. /\ pc[r] = "debit" /\ pc' = [pc EXCEPT ![r] = "settle"]
        /\ answered' = answered /\ myHold' = myHold
        /\ debited' = [debited EXCEPT ![myHold[r]] = @ + 1]
        /\ myHold[r] \in Reqs
    BY <1>2 DEF Debit, Goto, TypeOK, NeedsHold, ConfirmSection
  <2>2. r \in answered /\ answered \subseteq Reqs
    BY <2>1 DEF Undebited, TypeOK
  <2>3. /\ \A s \in Reqs : pc'[s] \in Undebited => s \in answered'
        /\ \A s \in answered' : pc'[s] \in AfterAnswer
    BY <2>1, <2>2 DEF Undebited, AfterAnswer, TypeOK
  <2>4. ASSUME NEW h \in Reqs PROVE debited'[h] <= Cardinality(Past(h)')
    <3>1. IsFiniteSet(Past(h)) /\ Cardinality(Past(h)) \in Nat
      BY FS_Subset, FS_CardinalityType DEF Past
    <3>2. CASE h = myHold[r]
      <4>1. Past(h)' = Past(h) \cup {r} /\ r \notin Past(h)
        BY <2>1, <2>2, <3>2 DEF Past, Undebited, TypeOK
      <4>2. Cardinality(Past(h)') = Cardinality(Past(h)) + 1
        BY <3>1, <4>1, FS_AddElement
      <4>3. debited'[h] = debited[h] + 1 /\ debited[h] \in Nat /\ debited[h] <= Cardinality(Past(h))
        BY <2>1, <3>2 DEF TypeOK
      <4>4. QED
        BY <3>1, <4>2, <4>3
    <3>3. CASE h # myHold[r]
      <4>1. Past(h)' = Past(h) /\ debited'[h] = debited[h]
        BY <2>1, <2>2, <3>3 DEF Past, TypeOK
      <4>2. QED
        BY <4>1
    <3>4. QED
      BY <3>2, <3>3
  <2>5. QED
    BY <2>1, <2>3, <2>4
<1>3. QED
  BY <1>1, <1>2

\* ChargeJustified: a hold is debited at most once for each answer it was used
\* for (balance.py:4), even when locks expire under live sections.
THEOREM ChargesHaveAnswers == Spec => []ChargeJustified
<1>1. Init => Justified
  <2>1. ASSUME Init, NEW h \in Reqs PROVE debited[h] <= Cardinality(Past(h))
    <3>1. Past(h) = {} /\ debited[h] = 0
      BY <2>1 DEF Init, Past
    <3>2. QED
      BY <3>1, FS_EmptySet
  <2>2. QED
    BY <2>1, FS_EmptySet DEF Init, Justified, Undebited
<1>2. TypeOK /\ Justified => ChargeJustified
  <2> SUFFICES ASSUME TypeOK, Justified, NEW h \in Reqs
               PROVE  debited[h] <= Cardinality({r \in answered : myHold[r] = h})
    BY DEF ChargeJustified
  <2> DEFINE Sharers == {r \in answered : myHold[r] = h}
  <2>1. Past(h) \subseteq Sharers /\ IsFiniteSet(Sharers)
    BY FS_Subset DEF Past, Justified
  <2>2. Cardinality(Past(h)) <= Cardinality(Sharers) /\ IsFiniteSet(Past(h))
    BY <2>1, FS_Subset
  <2>3. Cardinality(Past(h)) \in Nat /\ Cardinality(Sharers) \in Nat
    BY <2>1, <2>2, FS_CardinalityType
  <2>4. debited[h] \in Nat /\ debited[h] <= Cardinality(Past(h))
    BY DEF TypeOK, Justified
  <2>5. QED
    BY <2>2, <2>3, <2>4
<1>3. QED
  BY <1>1, <1>2, TypeCorrect, JustifiedStep, PTL DEF Spec

(***************************************************************************)
(* Holds are covered, when the timeouts of the lock outlast its sections:  *)
(* the scan of hold_balance counts every hold that can still be debited,   *)
(* and nothing but the section itself adds one until it has added its own. *)
(***************************************************************************)

\* The holds of u that nobody debited yet, and what may be promised against.
Open(u)   == {h \in HoldsOf(u) : debited[h] = 0}
Backed(u) == balance[u] + unbacked[u]

Scanning ==
  \A r \in Reqs : pc[r] = "sum" =>
    HoldsOf(Owner[r]) \subseteq view[r] /\ bal[r] = balance[Owner[r]]

Admitted ==
  \A r \in Reqs : pc[r] = "setHold" => Reserved(Open(Owner[r])) + Cost[r] <= Backed(Owner[r])

\* The library sums finite sets only: holds are created one at a time.
Finite == IsFiniteSet(holds) /\ \A r \in Reqs : IsFiniteSet(view[r])

Covered == Finite /\ Scanning /\ Admitted /\ HoldsCovered

\* Sums of prices over finite sets of requests.
LEMMA SumOfHolds ==
  ASSUME NEW S \in SUBSET Reqs, IsFiniteSet(S)
  PROVE  /\ Reserved(S) \in Nat
         /\ \A R \in SUBSET S : Reserved(R) <= Reserved(S) /\ Reserved(R) \in Nat
         /\ \A h \in S : Reserved(S) = Cost[h] + Reserved(S \ {h})
<1>1. \A x \in S : Cost[x] \in Nat
  BY BalanceConstants
<1>2. Summable(Cost, S) /\ \A R \in SUBSET S : IsFiniteSet(R)
  BY <1>1, FS_Subset DEF Summable
<1>3. QED
  BY <1>1, <1>2, SumNat, SumOfPart, SumTake DEF Reserved

\* One more hold adds at most its price.
LEMMA SumWithHold ==
  ASSUME NEW S \in SUBSET Reqs, IsFiniteSet(S), NEW h \in Reqs
  PROVE  Reserved(S \cup {h}) <= Reserved(S) + Cost[h]
<1>1. Cost[h] \in Nat /\ Reserved(S) \in Nat
  BY BalanceConstants, SumOfHolds
<1>2. CASE h \in S
  <2>1. S \cup {h} = S
    BY <1>2
  <2>2. Reserved(S \cup {h}) = Reserved(S)
    BY <2>1
  <2>3. QED
    BY <1>1, <2>2
<1>3. CASE h \notin S
  <2>1. IsFiniteSet(S \cup {h}) /\ S \cup {h} \in SUBSET Reqs /\ h \in S \cup {h}
    BY FS_AddElement
  <2>2. Reserved(S \cup {h}) = Cost[h] + Reserved((S \cup {h}) \ {h})
    BY <2>1, SumOfHolds
  <2>3. (S \cup {h}) \ {h} = S
    BY <1>3
  <2>4. Reserved((S \cup {h}) \ {h}) = Reserved(S)
    BY <2>3
  <2>5. QED
    BY <1>1, <2>2, <2>4
<1>4. QED
  BY <1>2, <1>3

\* What Open and Backed range over.
LEMMA OpenTypes ==
  ASSUME TypeOK, Finite, NEW u \in Users
  PROVE  /\ Open(u) \in SUBSET Reqs /\ IsFiniteSet(Open(u)) /\ Reserved(Open(u)) \in Nat
         /\ balance[u] \in Int /\ unbacked[u] \in Nat /\ Backed(u) \in Int
<1>1. Open(u) \subseteq holds /\ holds \subseteq Reqs
  BY DEF Open, HoldsOf, TypeOK
<1>2. IsFiniteSet(Open(u))
  BY <1>1, FS_Subset DEF Finite
<1>3. QED
  BY <1>1, <1>2, SumOfHolds DEF TypeOK, Backed

\* A step that creates, counts and debits no hold.
Passive ==
  /\ holds' \subseteq holds
  /\ UNCHANGED <<balance, debited, unbacked>>
  /\ \A r \in Reqs : pc'[r] = "sum" => pc[r] = "sum" /\ UNCHANGED <<view[r], bal[r]>>
  /\ \A r \in Reqs : pc'[r] = "setHold" => pc[r] = "setHold"
  /\ \A r \in Reqs : view'[r] = view[r]

\* Every step is of that kind but the four that are about holds.
LEMMA PassiveSteps ==
  ASSUME TypeOK, [Next]_vars,
         \A r \in Reqs : ~Refresh(r) /\ ~SumHolds(r) /\ ~SetHold(r) /\ ~Debit(r)
  PROVE  Passive
<1> USE DEF TypeOK, Passive
<1>1. ASSUME NEW r \in Reqs, ReadIdem(r) \/ ReadPriorHold(r) \/ ReadPriorConfirmed(r) PROVE Passive
  BY <1>1 DEF ReadIdem, ReadPriorHold, ReadPriorConfirmed, Goto, redisVars, historyVars
<1>2. ASSUME NEW r \in Reqs, \/ Acquire(r, "waitHold", "refresh") \/ GiveUpWaiting(r, "waitHold")
                             \/ Unlock(r, "unlockHold", "infer") \/ Unlock(r, "unlockFail", "failed")
                             \/ Acquire(r, "waitConfirm", "refreshConfirm")
                             \/ GiveUpWaiting(r, "waitConfirm") \/ Unlock(r, "unlockConfirm", "persist")
      PROVE  Passive
  BY <1>2 DEF Acquire, GiveUpWaiting, Unlock, Goto, redisVars, historyVars
<1>3. ASSUME NEW r \in Reqs, InferenceSucceeds(r) \/ InferenceFails(r) \/ ReleaseHold(r) PROVE Passive
  BY <1>3 DEF InferenceSucceeds, InferenceFails, ReleaseHold, Goto, redisVars, historyVars
<1>4. ASSUME NEW r \in Reqs, ReadConfirmed(r) \/ ReadHold(r) \/ RefreshConfirm(r) PROVE Passive
  BY <1>4 DEF ReadConfirmed, ReadHold, RefreshConfirm, Goto, redisVars, historyVars
<1>5. ASSUME NEW r \in Reqs, DropHold(r) \/ Settle(r) \/ Persist(r) PROVE Passive
  BY <1>5 DEF DropHold, Settle, Persist, Goto, redisVars, historyVars
<1>6. ASSUME NEW r \in Reqs, Crash(r) \/ HoldExpires(r) PROVE Passive
  BY <1>6 DEF Crash, HoldExpires, redisVars, localVars, historyVars
<1>7. ASSUME NEW u \in Users, LockExpires(u) PROVE Passive
  BY <1>7 DEF LockExpires, localVars, historyVars
<1>8. CASE UNCHANGED vars
  BY <1>8 DEF vars, redisVars, localVars, historyVars
<1> HIDE DEF Passive
<1>9. QED
  BY <1>1, <1>2, <1>3, <1>4, <1>5, <1>6, <1>7, <1>8
     DEF Next, Predict, HoldBalance, Inference, ConfirmHold

\* Such a step only opens room.
LEMMA PassiveCovered ==
  ASSUME TypeOK, Covered, Passive PROVE Covered'
<1>1. \A u \in Users : Open(u)' \subseteq Open(u) /\ HoldsOf(u)' \subseteq HoldsOf(u) /\ Backed(u)' = Backed(u)
  BY DEF Passive, Open, HoldsOf, Backed
<1>2. Finite'
  BY FS_Subset DEF Covered, Finite, Passive
<1>3. ASSUME NEW u \in Users
      PROVE  /\ Reserved(Open(u)') <= Reserved(Open(u)) /\ Reserved(Open(u)') \in Nat
             /\ Reserved(Open(u)) \in Nat /\ Backed(u) \in Int
  BY <1>1, OpenTypes, SumOfHolds DEF Covered
<1>4. Scanning'
  BY <1>1, BalanceConstants DEF Covered, Scanning, Passive
<1>5. Admitted'
  <2> SUFFICES ASSUME NEW r \in Reqs, pc'[r] = "setHold"
               PROVE  Reserved(Open(Owner[r])') + Cost[r] <= Backed(Owner[r])'
    BY DEF Admitted, Reserved
  <2>1. Owner[r] \in Users /\ Cost[r] \in Nat
    BY BalanceConstants
  <2>2. Reserved(Open(Owner[r])) + Cost[r] <= Backed(Owner[r])
    BY DEF Covered, Admitted, Passive
  <2>3. QED
    BY <1>1, <1>3, <2>1, <2>2
<1>6. HoldsCovered'
  <2> SUFFICES ASSUME NEW u \in Users PROVE Reserved(Open(u)') <= Backed(u)'
    BY DEF HoldsCovered, Open, Backed, Reserved
  <2>1. Reserved(Open(u)) <= Backed(u)
    BY DEF Covered, HoldsCovered, Open, Backed
  <2>2. QED
    BY <1>1, <1>3, <2>1
<1>7. QED
  BY <1>2, <1>4, <1>5, <1>6 DEF Covered

\* Two requests of one user are not both in a section.
LEMMA OneInSection ==
  ASSUME Exclusive, NEW r \in Reqs, NEW s \in Reqs, pc[r] \in InSection, pc[s] \in InSection,
         Owner[r] = Owner[s]
  PROVE  r = s
BY DEF Exclusive

\* Nothing changes for a user whose open holds and money stay what they are.
LEMMA SameCovered ==
  ASSUME Covered, NEW r \in Reqs, Open(Owner[r])' = Open(Owner[r]), Backed(Owner[r])' = Backed(Owner[r]),
         pc[r] = "setHold"
  PROVE  Reserved(Open(Owner[r])') + Cost[r] <= Backed(Owner[r])'
BY DEF Covered, Admitted

\* The scan begins with all holds of the user and the balance in view.
LEMMA RefreshCovered ==
  ASSUME TypeOK, Covered, NEW r \in Reqs, Refresh(r) PROVE Covered'
<1>1. /\ UNCHANGED <<balance, holds, debited, unbacked>>
      /\ pc' = [pc EXCEPT ![r] = "sum"]
      /\ bal' = [bal EXCEPT ![r] = balance[Owner[r]]]
      /\ view' = [view EXCEPT ![r] = HoldsOf(Owner[r])]
  BY DEF Refresh, Goto, redisVars, historyVars
<1>2. \A u \in Users : Open(u)' = Open(u) /\ HoldsOf(u)' = HoldsOf(u) /\ Backed(u)' = Backed(u)
  BY <1>1 DEF Open, HoldsOf, Backed
<1>3. Finite'
  <2>1. IsFiniteSet(HoldsOf(Owner[r]))
    BY FS_Subset DEF Covered, Finite, HoldsOf
  <2>2. QED
    BY <1>1, <2>1 DEF Covered, Finite, TypeOK
<1>4. Scanning'
  <2> SUFFICES ASSUME NEW s \in Reqs, pc'[s] = "sum"
               PROVE  HoldsOf(Owner[s])' \subseteq view'[s] /\ bal'[s] = balance'[Owner[s]]
    BY DEF Scanning
  <2>1. HoldsOf(Owner[s])' = HoldsOf(Owner[s])
    BY <1>2, BalanceConstants
  <2>2. CASE s = r
    BY <1>1, <2>1, <2>2 DEF TypeOK
  <2>3. CASE s # r
    BY <1>1, <2>1, <2>3 DEF Covered, Scanning, TypeOK
  <2>4. QED
    BY <2>2, <2>3
<1>5. Admitted'
  <2> SUFFICES ASSUME NEW s \in Reqs, pc'[s] = "setHold"
               PROVE  Reserved(Open(Owner[s])') + Cost[s] <= Backed(Owner[s])'
    BY DEF Admitted, Reserved
  <2>1. pc[s] = "setHold" /\ Owner[s] \in Users
    BY <1>1, BalanceConstants DEF TypeOK
  <2>2. QED
    BY <1>2, <2>1, SameCovered
<1>6. HoldsCovered'
  <2> SUFFICES ASSUME NEW u \in Users PROVE Reserved(Open(u)') <= Backed(u)'
    BY DEF HoldsCovered, Open, Backed, Reserved
  <2>1. Reserved(Open(u)) <= Backed(u)
    BY DEF Covered, HoldsCovered, Open, Backed
  <2>2. QED
    BY <1>2, <2>1
<1>7. QED
  BY <1>3, <1>4, <1>5, <1>6 DEF Covered

\* What the scan counted includes all that can be debited.
LEMMA SumCovered ==
  ASSUME TypeOK, Covered, NEW r \in Reqs, SumHolds(r) PROVE Covered'
<1>1. PICK counted \in SUBSET (view[r] \cup HoldsOf(Owner[r])) :
        /\ view[r] \cap HoldsOf(Owner[r]) \subseteq counted
        /\ pc' = [pc EXCEPT ![r] = IF bal[r] - Reserved(counted) < Cost[r]
                                     THEN "unlockFail" ELSE "setHold"]
  BY DEF SumHolds, Goto
<1>2. /\ pc[r] = "sum" /\ view' = [view EXCEPT ![r] = {}]
      /\ UNCHANGED <<balance, holds, debited, unbacked, bal>>
  BY DEF SumHolds, Goto, redisVars, historyVars
<1>3. \A u \in Users : Open(u)' = Open(u) /\ HoldsOf(u)' = HoldsOf(u) /\ Backed(u)' = Backed(u)
  BY <1>2 DEF Open, HoldsOf, Backed
<1>4. Finite'
  BY <1>2, FS_EmptySet DEF Covered, Finite, TypeOK
<1>5. Scanning'
  BY <1>1, <1>2, <1>3, BalanceConstants DEF Covered, Scanning, TypeOK
<1>6. ASSUME pc'[r] = "setHold"
      PROVE  Reserved(Open(Owner[r])) + Cost[r] <= Backed(Owner[r])
  <2>1. /\ Owner[r] \in Users /\ Cost[r] \in Nat /\ r \in Reqs
        /\ HoldsOf(Owner[r]) \subseteq view[r] /\ bal[r] = balance[Owner[r]]
    BY <1>2, BalanceConstants DEF Covered, Scanning
  <2>2. /\ counted \in SUBSET Reqs /\ counted \subseteq view[r] /\ Open(Owner[r]) \subseteq counted
    BY <1>1, <2>1 DEF Open, TypeOK
  <2>3. IsFiniteSet(counted)
    BY <2>2, FS_Subset DEF Covered, Finite
  <2>4. /\ Reserved(Open(Owner[r])) <= Reserved(counted)
        /\ Reserved(Open(Owner[r])) \in Nat /\ Reserved(counted) \in Nat
    BY <2>2, <2>3, SumOfHolds
  <2>5. bal[r] - Reserved(counted) >= Cost[r]
    BY <1>1, <1>6, <2>1, <2>4 DEF TypeOK
  <2>6. Backed(Owner[r]) = balance[Owner[r]] + unbacked[Owner[r]]
        /\ unbacked[Owner[r]] \in Nat /\ balance[Owner[r]] \in Int
    BY <2>1 DEF Backed, TypeOK
  <2>7. QED
    BY <2>1, <2>4, <2>5, <2>6
<1>7. Admitted'
  <2> SUFFICES ASSUME NEW s \in Reqs, pc'[s] = "setHold"
               PROVE  Reserved(Open(Owner[s])') + Cost[s] <= Backed(Owner[s])'
    BY DEF Admitted, Reserved
  <2>1. Owner[s] \in Users
    BY BalanceConstants
  <2>2. CASE s = r
    BY <1>3, <1>6, <2>1, <2>2
  <2>3. CASE s # r
    <3>1. pc[s] = "setHold"
      BY <1>1, <2>3 DEF TypeOK
    <3>2. QED
      BY <1>3, <2>1, <3>1, SameCovered
  <2>4. QED
    BY <2>2, <2>3
<1>8. HoldsCovered'
  <2> SUFFICES ASSUME NEW u \in Users PROVE Reserved(Open(u)') <= Backed(u)'
    BY DEF HoldsCovered, Open, Backed, Reserved
  <2>1. Reserved(Open(u)) <= Backed(u)
    BY DEF Covered, HoldsCovered, Open, Backed
  <2>2. QED
    BY <1>3, <2>1
<1>9. QED
  BY <1>4, <1>5, <1>7, <1>8 DEF Covered

\* The new hold fits in what was found free.
LEMMA SetHoldCovered ==
  ASSUME TypeOK, Locked, Covered, NEW r \in Reqs, SetHold(r) PROVE Covered'
<1>1. /\ pc[r] = "setHold" /\ pc' = [pc EXCEPT ![r] = "unlockHold"]
      /\ holds' = holds \cup {r} /\ bal' = [bal EXCEPT ![r] = @ - Cost[r]]
      /\ UNCHANGED <<balance, debited, unbacked, view>>
  BY DEF SetHold, Goto, historyVars
<1>2. Owner[r] \in Users /\ Cost[r] \in Nat
  BY BalanceConstants
<1>3. \A u \in Users : Backed(u)' = Backed(u)
  BY <1>1 DEF Backed
<1>4. \A u \in Users \ {Owner[r]} : Open(u)' = Open(u) /\ HoldsOf(u)' = HoldsOf(u)
  BY <1>1 DEF Open, HoldsOf
<1>5. \A s \in Reqs : pc'[s] \in {"sum", "setHold"} =>
        pc[s] = pc'[s] /\ s # r /\ Owner[s] # Owner[r] /\ Owner[s] \in Users
  BY <1>1, OneInSection, BalanceConstants DEF Locked, TypeOK, InSection, HoldSection
<1>6. Finite'
  BY <1>1, FS_AddElement DEF Covered, Finite
<1>7. Scanning'
  BY <1>1, <1>4, <1>5 DEF Covered, Scanning, TypeOK
<1>8. Admitted'
  <2> SUFFICES ASSUME NEW s \in Reqs, pc'[s] = "setHold"
               PROVE  Reserved(Open(Owner[s])') + Cost[s] <= Backed(Owner[s])'
    BY DEF Admitted, Reserved
  <2>1. Open(Owner[s])' = Open(Owner[s]) /\ Backed(Owner[s])' = Backed(Owner[s])
    BY <1>3, <1>4, <1>5
  <2>2. Reserved(Open(Owner[s])) + Cost[s] <= Backed(Owner[s])
    BY <1>5 DEF Covered, Admitted
  <2>3. QED
    BY <2>1, <2>2
<1>9. HoldsCovered'
  <2> SUFFICES ASSUME NEW u \in Users PROVE Reserved(Open(u)') <= Backed(u)'
    BY DEF HoldsCovered, Open, Backed, Reserved
  <2>1. CASE u = Owner[r]
    <3>1. Open(u)' = Open(u) \/ Open(u)' = Open(u) \cup {r}
      BY <1>1, <2>1 DEF Open, HoldsOf
    <3>2. /\ Open(u) \in SUBSET Reqs /\ IsFiniteSet(Open(u))
          /\ Reserved(Open(u)) \in Nat /\ Backed(u) \in Int
      BY OpenTypes DEF Covered
    <3>3. Reserved(Open(u) \cup {r}) <= Reserved(Open(u)) + Cost[r]
      BY <3>2, SumWithHold
    <3>4. IsFiniteSet(Open(u) \cup {r}) /\ Open(u) \cup {r} \in SUBSET Reqs
      BY <3>2, FS_AddElement
    <3>5. Reserved(Open(u) \cup {r}) \in Nat
      BY <3>4, SumOfHolds
    <3>6. Reserved(Open(u)) + Cost[r] <= Backed(u)
      BY <1>1, <2>1 DEF Covered, Admitted
    <3>7. Reserved(Open(u)') = Reserved(Open(u)) \/ Reserved(Open(u)') = Reserved(Open(u) \cup {r})
      BY <3>1
    <3>8. QED
      BY <1>2, <1>3, <3>2, <3>3, <3>5, <3>6, <3>7
  <2>2. CASE u # Owner[r]
    <3>1. Open(u)' = Open(u) /\ Backed(u)' = Backed(u)
      BY <1>3, <1>4, <2>2
    <3>2. Reserved(Open(u)) <= Backed(u)
      BY DEF Covered, HoldsCovered, Open, Backed
    <3>3. QED
      BY <3>1, <3>2
  <2>3. QED
    BY <2>1, <2>2
<1>10. QED
  BY <1>6, <1>7, <1>8, <1>9 DEF Covered

\* A debit spends its own open hold, or is counted as unbacked.
LEMMA DebitCovered ==
  ASSUME TypeOK, Paid, Locked, Covered, NEW r \in Reqs, Debit(r) PROVE Covered'
<1> DEFINE h == myHold[r]
           v == Owner[r]
<1>1. /\ pc[r] = "debit" /\ pc' = [pc EXCEPT ![r] = "settle"]
      /\ h \in Reqs /\ Owner[h] = v
      /\ UNCHANGED <<holds, view>>
      /\ balance' = [balance EXCEPT ![v] = bal[r] - Cost[h]]
      /\ bal' = [bal EXCEPT ![r] = @ - Cost[h]]
      /\ debited' = [debited EXCEPT ![h] = @ + 1]
      /\ unbacked' = [unbacked EXCEPT ![v] = IF h \in holds /\ debited[h] = 0 THEN @ ELSE @ + Cost[h]]
  BY DEF Debit, Goto, redisVars, TypeOK, NeedsHold, ConfirmSection, Paid, HoldFits
<1>2. v \in Users /\ Cost[h] \in Nat /\ bal[r] = balance[v] /\ Owner[r] = v
  BY <1>1, BalanceConstants DEF Locked, ReadIsCurrent
<1>3. \A u \in Users : HoldsOf(u)' = HoldsOf(u)
  BY <1>1 DEF HoldsOf
<1>4. \A u \in Users \ {v} : Open(u)' = Open(u) /\ Backed(u)' = Backed(u) /\ balance'[u] = balance[u]
  BY <1>1 DEF Open, HoldsOf, Backed, TypeOK
<1>5. \A s \in Reqs : pc'[s] \in {"sum", "setHold"} =>
        pc[s] = pc'[s] /\ s # r /\ Owner[s] # v /\ Owner[s] \in Users
  BY <1>1, <1>2, OneInSection, BalanceConstants
     DEF Locked, TypeOK, InSection, HoldSection, ConfirmSection
<1> HIDE DEF h, v
<1>6. Finite'
  BY <1>1 DEF Covered, Finite
<1>7. Scanning'
  BY <1>1, <1>3, <1>4, <1>5 DEF Covered, Scanning, TypeOK
<1>8. Admitted'
  <2> SUFFICES ASSUME NEW s \in Reqs, pc'[s] = "setHold"
               PROVE  Reserved(Open(Owner[s])') + Cost[s] <= Backed(Owner[s])'
    BY DEF Admitted, Reserved
  <2>1. Open(Owner[s])' = Open(Owner[s]) /\ Backed(Owner[s])' = Backed(Owner[s])
    BY <1>4, <1>5
  <2>2. Reserved(Open(Owner[s])) + Cost[s] <= Backed(Owner[s])
    BY <1>5 DEF Covered, Admitted
  <2>3. QED
    BY <2>1, <2>2
<1>9. Reserved(Open(v)') <= Backed(v)'
  <2>1. /\ Open(v) \in SUBSET Reqs /\ IsFiniteSet(Open(v)) /\ Reserved(Open(v)) \in Nat
        /\ Backed(v) \in Int /\ balance[v] \in Int /\ unbacked[v] \in Nat
    BY <1>2, OpenTypes DEF Covered
  <2>2. Reserved(Open(v)) <= Backed(v)
    BY <1>2 DEF Covered, HoldsCovered, Open, Backed
  <2>3. balance'[v] = balance[v] - Cost[h]
    BY <1>1, <1>2 DEF TypeOK
  <2>4. CASE h \in holds /\ debited[h] = 0
    <3>1. unbacked'[v] = unbacked[v]
      BY <1>1, <1>2, <2>4 DEF TypeOK
    <3>2. Open(v)' = Open(v) \ {h} /\ h \in Open(v)
      BY <1>1, <2>4 DEF Open, HoldsOf, TypeOK
    <3>3. Reserved(Open(v)) = Cost[h] + Reserved(Open(v) \ {h}) /\ Reserved(Open(v) \ {h}) \in Nat
      BY <2>1, <3>2, SumOfHolds
    <3>4. Reserved(Open(v)') = Reserved(Open(v) \ {h})
      BY <3>2
    <3>5. Backed(v) = balance[v] + unbacked[v] /\ Backed(v)' = balance[v] - Cost[h] + unbacked[v]
      BY <2>3, <3>1 DEF Backed
    <3>6. QED
      BY <1>2, <2>1, <2>2, <3>3, <3>4, <3>5
  <2>5. CASE ~(h \in holds /\ debited[h] = 0)
    <3>1. unbacked'[v] = unbacked[v] + Cost[h]
      BY <1>1, <1>2, <2>5 DEF TypeOK
    <3>2. Open(v)' \subseteq Open(v)
      BY <1>1, <2>5 DEF Open, HoldsOf, TypeOK
    <3>3. Reserved(Open(v)') <= Reserved(Open(v)) /\ Reserved(Open(v)') \in Nat
      BY <2>1, <3>2, SumOfHolds
    <3>4. Backed(v) = balance[v] + unbacked[v]
          /\ Backed(v)' = (balance[v] - Cost[h]) + (unbacked[v] + Cost[h])
      BY <2>3, <3>1 DEF Backed
    <3>5. QED
      BY <1>2, <2>1, <2>2, <3>3, <3>4
  <2>6. QED
    BY <2>4, <2>5
<1>10. HoldsCovered'
  <2> SUFFICES ASSUME NEW u \in Users PROVE Reserved(Open(u)') <= Backed(u)'
    BY DEF HoldsCovered, Open, Backed, Reserved
  <2>1. CASE u = v
    BY <1>9, <2>1
  <2>2. CASE u # v
    <3>1. Open(u)' = Open(u) /\ Backed(u)' = Backed(u)
      BY <1>4, <2>2
    <3>2. Reserved(Open(u)) <= Backed(u)
      BY DEF Covered, HoldsCovered, Open, Backed
    <3>3. QED
      BY <3>1, <3>2
  <2>3. QED
    BY <2>1, <2>2
<1>11. QED
  BY <1>6, <1>7, <1>8, <1>10 DEF Covered

\* Every step keeps the holds covered.
LEMMA CoveredStep == TypeOK /\ Paid /\ Locked /\ Covered /\ [Next]_vars => Covered'
BY PassiveSteps, PassiveCovered, RefreshCovered, SumCovered, SetHoldCovered, DebitCovered

\* HoldsCovered: what live holds promise is there, or was taken by a debit whose
\* own hold was gone (balance.py:104-121), as long as no section outlasts its lock.
THEOREM AdmissionSound == ~SlowSections /\ Spec => []HoldsCovered
<1>1. Init => Paid
  BY BalanceConstants
     DEF Init, Paid, KeysMatch, ConfirmedWasPaid, HoldFits, HoldPaid, NeedsHold, ConfirmSection
<1>2. Init => Covered
  <2> SUFFICES ASSUME Init PROVE Covered
    OBVIOUS
  <2>1. Finite /\ Scanning /\ Admitted
    BY FS_EmptySet DEF Init, Finite, Scanning, Admitted
  <2>2. ASSUME NEW u \in Users PROVE Reserved(Open(u)) <= Backed(u)
    <3>1. Open(u) = {} /\ Backed(u) = InitBal[u] /\ InitBal[u] \in Nat
      BY BalanceConstants DEF Init, Open, HoldsOf, Backed
    <3>2. Reserved({}) = 0
      BY SumEmpty DEF Reserved
    <3>3. QED
      BY <3>1, <3>2
  <2>3. QED
    BY <2>1, <2>2 DEF Covered, HoldsCovered, Open, Backed
<1>3. Covered => HoldsCovered
  BY DEF Covered
<1>4. Spec => []Paid
  BY <1>1, TypeCorrect, PaidStep, PTL DEF Spec
<1>5. QED
  BY <1>2, <1>3, <1>4, TypeCorrect, LockedCorrect, CoveredStep, PTL DEF Spec

(***************************************************************************)
(* Refinement.                                                             *)
(***************************************************************************)

\* The initial states are those of the ledger.
LEMMA LedgerInit == Init => L!Init
BY DEF Init, L!Init

\* Debit is the ledger's Charge, Persist its Serve, and the rest stutters.
LEMMA LedgerStep ==
  TypeOK /\ Solvent /\ Paid /\ Locked /\ [Next]_vars => [L!Next]_(L!vars)
<1> SUFFICES ASSUME TypeOK, Solvent, Paid, Locked, [Next]_vars
             PROVE  [L!Next]_(L!vars)
  OBVIOUS
<1> DEFINE Served == {r \in Reqs : pc[r] = "served"}
<1> DEFINE Quiet == UNCHANGED <<balance, debited>> /\ Served' = Served
<1> USE BalanceConstants
<1>1. ASSUME NEW r \in Reqs, Debit(r) PROVE L!Charge(myHold[r])
  <2>1. /\ pc[r] = "debit" /\ myHold[r] \in Reqs
        /\ Owner[myHold[r]] = Owner[r] /\ Cost[myHold[r]] > 0
    BY <1>1 DEF Debit, Goto, TypeOK, Paid, HoldFits, HoldPaid, NeedsHold, ConfirmSection
  <2>2. bal[r] = balance[Owner[r]] /\ bal[r] >= Cost[myHold[r]]
    BY <2>1 DEF Locked, ReadIsCurrent, Solvent, DebitFits
  <2>3. Served' = Served
    BY <1>1, <2>1 DEF Debit, Goto, TypeOK
  <2>4. balance' = [balance EXCEPT ![Owner[myHold[r]]] = @ - Cost[myHold[r]]]
    BY <1>1, <2>1, <2>2 DEF Debit, TypeOK
  <2>5. QED
    BY <1>1, <2>1, <2>2, <2>3, <2>4 DEF Debit, L!Charge
<1>2. ASSUME NEW r \in Reqs, Persist(r) PROVE L!Serve(r)
  <2>1. Cost[r] = 0 \/ L!PaidWith(r, myHold[r])
    <3>1. /\ pc[r] \in NeedsHold \ {"readPrior", "readPriorConfirmed"}
          /\ pc[r] \in {"persist", "served"}
      BY <1>2 DEF Persist, Goto, NeedsHold
    <3>2. Cost[r] > 0 => L!PaidWith(r, myHold[r])
      BY <3>1 DEF Paid, HoldFits, HoldPaid, L!PaidWith
    <3>3. QED
      BY <3>2 DEF TypeOK
  <2>2. myHold[r] \in Reqs
    BY <1>2 DEF Persist, Goto, TypeOK, NeedsHold
  <2>3. Served' = Served \cup {r} /\ r \notin Served
    BY <1>2 DEF Persist, Goto, TypeOK
  <2>4. QED
    BY <1>2, <2>1, <2>2, <2>3 DEF Persist, historyVars, L!Serve
<1>3. ASSUME Quiet PROVE UNCHANGED L!vars
  BY <1>3 DEF L!vars
<1>4. ASSUME NEW r \in Reqs, HoldBalance(r) PROVE Quiet
  BY <1>4 DEF HoldBalance, ReadIdem, ReadPriorHold, ReadPriorConfirmed, Acquire, GiveUpWaiting,
     Refresh, SumHolds, SetHold, Unlock, Goto, historyVars, TypeOK
<1>5. ASSUME NEW r \in Reqs, Inference(r) PROVE Quiet
  BY <1>5 DEF Inference, InferenceSucceeds, InferenceFails, ReleaseHold, Goto, historyVars, TypeOK
<1>6. ASSUME NEW r \in Reqs, ConfirmHold(r), ~Debit(r), ~Persist(r) PROVE Quiet
  BY <1>6 DEF ConfirmHold, ReadConfirmed, ReadHold, Acquire, GiveUpWaiting, RefreshConfirm,
     DropHold, Settle, Unlock, Goto, historyVars, TypeOK
<1>7. ASSUME NEW r \in Reqs, Crash(r) PROVE Quiet
  BY <1>7 DEF Crash, Terminal, historyVars, TypeOK
<1>8. ASSUME NEW h \in Reqs, HoldExpires(h) PROVE Quiet
  BY <1>8 DEF HoldExpires, localVars, historyVars
<1>9. ASSUME NEW u \in Users, LockExpires(u) PROVE Quiet
  BY <1>9 DEF LockExpires, localVars, historyVars
<1>10. CASE UNCHANGED vars
  BY <1>10, <1>3 DEF vars, localVars, historyVars
<1>11. ASSUME NEW r \in Reqs, Predict(r) PROVE [L!Next]_(L!vars)
  <2>1. CASE Debit(r)
    <3>1. myHold[r] \in Reqs
      BY <2>1 DEF Debit, Goto, TypeOK, NeedsHold, ConfirmSection
    <3>2. QED
      BY <2>1, <3>1, <1>1 DEF L!Next
  <2>2. CASE Persist(r)
    BY <2>2, <1>2 DEF L!Next
  <2>3. CASE ~Debit(r) /\ ~Persist(r)
    BY <2>3, <1>3, <1>4, <1>5, <1>6, <1>11 DEF Predict
  <2>4. QED
    BY <2>1, <2>2, <2>3
<1>12. QED
  BY <1>3, <1>7, <1>8, <1>9, <1>10, <1>11 DEF Next

\* ImplementsLedger: balance.py and predict.py implement Ledger as long as no
\* section outlasts its lock.
THEOREM Implements == ~SlowSections /\ Spec => ImplementsLedger
<1>1. Init => Solvent /\ Paid
  BY BalanceConstants
     DEF Init, Solvent, BalanceNonNegative, DebitFits, Paid, KeysMatch, ConfirmedWasPaid,
         HoldFits, HoldPaid, NeedsHold, ConfirmSection
<1>2. Spec => [](Solvent /\ Paid)
  BY <1>1, TypeCorrect, SolventStep, PaidStep, PTL DEF Spec
<1>3. QED
  BY <1>2, TypeCorrect, LockedCorrect, LedgerInit, LedgerStep, PTL
     DEF Spec, L!Spec, ImplementsLedger

(***************************************************************************)
(* Billing: deposits are credited once and recorded.  Locks may expire at  *)
(* any time here.                                                          *)
(***************************************************************************)

Working == {"new", "load", "wait", "credit", "unlock", "abort", "record"}

Places == Working \cup {"commit"} \cup DeliveryEnd

\* Where a delivery is, and what its session holds there.
Delivering(d) ==
  /\ dpc[d] \in Working => at[d] <= Len(Payload[d])
  /\ dpc[d] \in {"commit", "done"} => at[d] = Len(Payload[d]) + 1
  /\ at[d] = 1 \/ dpc[d] = "done" => pending[d] = {}

Tables ==
  /\ deposits \subseteq Transfers
  /\ dpc \in [Deliveries -> Places] /\ at \in [Deliveries -> Nat \ {0}]
  /\ pending \in [Deliveries -> SUBSET Transfers]
  /\ creditedBy \in [Transfers -> SUBSET Deliveries]
  /\ \A d \in Deliveries : Delivering(d)

\* What a delivery has passed is recorded, unless it is on its way to an error.
Passed ==
  \A d \in Deliveries : dpc[d] \notin {"abort", "failed", "crashed"} =>
    \A i \in 1 .. at[d] - 1 : Payee[Payload[d][i]] # None => Payload[d][i] \in deposits \cup pending[d]

Credited ==
  /\ \A t \in deposits : creditedBy[t] # {}
  /\ \A d \in Deliveries : \A t \in pending[d] : creditedBy[t] # {}
  /\ \A d \in Deliveries : dpc[d] \in {"unlock", "record"} => d \in creditedBy[Tx(d)]

\* Delivery d credited t and inserted its row.
Inserted(d, t) ==
  /\ d \in creditedBy[t] /\ t \notin pending[d]
  /\ dpc[d] \notin {"abort", "failed", "crashed"}
  /\ ~(dpc[d] \in {"unlock", "record"} /\ Tx(d) = t)

\* The unique constraint lets one of them.
OneInserts ==
  \A t \in Transfers, d \in Deliveries : Inserted(d, t) =>
    t \in deposits /\ \A e \in Deliveries : Inserted(e, t) => e = d

Books == Tables /\ Passed /\ Credited /\ OneInserts

\* A delivery has transfers to go through, a Coinbase one exactly one.
LEMMA Payloads ==
  /\ \A d \in Deliveries : Len(Payload[d]) \in Nat \ {0}
  /\ \A d \in Deliveries : Source[d] = "coinbase" => Len(Payload[d]) = 1
  /\ \A d \in Deliveries : \A i \in 1 .. Len(Payload[d]) : Payload[d][i] \in Transfers
<1>1. \A d \in Deliveries : Payload[d] \in Seq(Transfers) /\ Payload[d] # <<>>
  BY BillingConstants
<1>2. QED
  BY <1>1, BillingConstants

\* The transfer a delivery works on.
LEMMA TxInPayload ==
  ASSUME Tables, NEW d \in Deliveries, dpc[d] \in Working
  PROVE  Tx(d) \in Transfers
BY Payloads DEF Tables, Delivering, Tx

\* At the start no delivery has begun and no row exists.
LEMMA BooksInit == BillingInit => Books
<1> SUFFICES ASSUME BillingInit PROVE Books
  OBVIOUS
<1>1. Tables
  BY Payloads DEF BillingInit, Tables, Delivering, Places, Working, DeliveryEnd
<1>2. Passed /\ Credited /\ OneInserts
  BY DEF BillingInit, Passed, Credited, OneInserts, Inserted
<1>3. QED
  BY <1>1, <1>2 DEF Books

-----------------------------------------------------------------------------
(* Steps that leave the tables and the session alone                       *)

\* Delivery d goes from p to q, and may skip the transfer it works on.
LEMMA BooksMove ==
  ASSUME Books, NEW d \in Deliveries, NEW q \in Places, NEW i \in Nat \ {0},
         dpc[d] \in Working, dpc' = [dpc EXCEPT ![d] = q], at' = [at EXCEPT ![d] = i],
         UNCHANGED <<deposits, pending, creditedBy>>,
         i = at[d] \/ (i = at[d] + 1 /\ (Payee[Tx(d)] = None \/ Tx(d) \in deposits)),
         q \in Working => i <= Len(Payload[d]),
         q \in {"commit", "done"} => i = Len(Payload[d]) + 1,
         q = "done" => pending[d] = {},
         q \in {"unlock", "record"} => dpc[d] = "unlock" /\ i = at[d],
         dpc[d] \in {"unlock", "record"} => q \in {"record", "failed"},
         dpc[d] = "abort" => q = "failed"
  PROVE  Books'
<1>1. /\ \A e \in Deliveries : dpc'[e] = IF e = d THEN q ELSE dpc[e]
      /\ \A e \in Deliveries : at'[e] = IF e = d THEN i ELSE at[e]
      /\ dpc' \in [Deliveries -> Places] /\ at' \in [Deliveries -> Nat \ {0}]
      /\ at[d] \in Nat \ {0}
  BY DEF Books, Tables
<1>2. Tables'
  <2>1. \A e \in Deliveries : Delivering(e)'
    BY <1>1 DEF Books, Tables, Delivering
  <2>2. QED
    BY <1>1, <2>1 DEF Books, Tables
<1>3. Passed'
  <2> SUFFICES ASSUME NEW e \in Deliveries, dpc'[e] \notin {"abort", "failed", "crashed"},
                      NEW j \in 1 .. at'[e] - 1, Payee[Payload[e][j]] # None
               PROVE  Payload[e][j] \in deposits \cup pending[e]
    BY DEF Passed
  <2>1. CASE j \in 1 .. at[e] - 1
    BY <1>1, <2>1 DEF Books, Passed, Working
  <2>2. CASE j \notin 1 .. at[e] - 1
    <3>1. e = d /\ j = at[d] /\ i = at[d] + 1
      BY <1>1, <2>2
    <3>2. QED
      BY <3>1 DEF Tx
  <2>3. QED
    BY <2>1, <2>2
<1>4. Credited'
  BY <1>1 DEF Books, Credited, Tx
<1>5. OneInserts'
  <2>1. ASSUME NEW e \in Deliveries, NEW t \in Transfers, Inserted(e, t)'
        PROVE  Inserted(e, t)
    BY <1>1, <2>1 DEF Inserted, Tx, Working
  <2>2. QED
    BY <2>1 DEF Books, OneInserts
<1>6. QED
  BY <1>2, <1>3, <1>4, <1>5 DEF Books

\* Delivery d ends in an error, and its session forgets what it added.
LEMMA BooksDrop ==
  ASSUME Books, NEW d \in Deliveries, NEW q \in {"abort", "failed", "crashed"},
         dpc[d] \in Working \/ q # "abort",
         dpc' = [dpc EXCEPT ![d] = q], pending' = [pending EXCEPT ![d] = {}],
         UNCHANGED <<deposits, at, creditedBy>>
  PROVE  Books'
<1>1. /\ \A e \in Deliveries : dpc'[e] = IF e = d THEN q ELSE dpc[e]
      /\ \A e \in Deliveries : pending'[e] = IF e = d THEN {} ELSE pending[e]
      /\ dpc' \in [Deliveries -> Places] /\ pending' \in [Deliveries -> SUBSET Transfers]
  BY DEF Books, Tables, Places, Working, DeliveryEnd
<1>2. Tables'
  <2>1. \A e \in Deliveries : Delivering(e)'
    BY <1>1 DEF Books, Tables, Delivering, Working
  <2>2. QED
    BY <1>1, <2>1 DEF Books, Tables
<1>3. Passed' /\ Credited'
  BY <1>1 DEF Books, Passed, Credited, Tx
<1>4. OneInserts'
  <2>1. ASSUME NEW e \in Deliveries, NEW t \in Transfers, Inserted(e, t)'
        PROVE  Inserted(e, t)
    BY <1>1, <2>1 DEF Inserted, Tx
  <2>2. QED
    BY <2>1 DEF Books, OneInserts
<1>5. QED
  BY <1>2, <1>3, <1>4 DEF Books

-----------------------------------------------------------------------------
(* Commits                                                                 *)

\* The transaction of a credit inserts what the session added before.
LEMMA BooksCredit ==
  ASSUME Books, NEW d \in Deliveries, CreditCommit(d)
  PROVE  Books'
<1>1. CASE pending[d] \cap deposits # {}
  <2>1. /\ dpc[d] = "credit" /\ dpc' = [dpc EXCEPT ![d] = "abort"]
        /\ pending' = [pending EXCEPT ![d] = {}] /\ UNCHANGED <<deposits, at, creditedBy>>
    BY <1>1 DEF CreditCommit
  <2>2. QED
    BY <2>1, BooksDrop DEF Working
<1>2. CASE pending[d] \cap deposits = {}
  <2> DEFINE tx == Tx(d)
  <2>1. /\ dpc[d] = "credit" /\ dpc' = [dpc EXCEPT ![d] = "unlock"]
        /\ pending' = [pending EXCEPT ![d] = {}] /\ deposits' = deposits \cup pending[d]
        /\ creditedBy' = [creditedBy EXCEPT ![tx] = @ \cup {d}]
        /\ UNCHANGED at
    BY <1>2 DEF CreditCommit
  <2>2. tx \in Transfers
    BY <2>1, TxInPayload DEF Books, Working
  <2>3. \A e \in Deliveries : Tx(e)' = Tx(e)
    BY <2>1 DEF Tx
  <2>4. tx = Tx(d)
    OBVIOUS
  <2> HIDE DEF tx
  <2>5. /\ \A e \in Deliveries : dpc'[e] = IF e = d THEN "unlock" ELSE dpc[e]
        /\ \A e \in Deliveries : pending'[e] = IF e = d THEN {} ELSE pending[e]
        /\ \A t \in Transfers : creditedBy'[t] = IF t = tx THEN creditedBy[t] \cup {d} ELSE creditedBy[t]
        /\ dpc' \in [Deliveries -> Places] /\ pending' \in [Deliveries -> SUBSET Transfers]
        /\ creditedBy' \in [Transfers -> SUBSET Deliveries]
        /\ deposits' \subseteq Transfers
    BY <2>1, <2>2 DEF Books, Tables, Places, Working
  <2>6. Tables'
    <3>1. \A e \in Deliveries : Delivering(e)'
      BY <2>1, <2>5 DEF Books, Tables, Delivering, Working
    <3>2. QED
      BY <2>1, <2>5, <3>1 DEF Books, Tables
  <2>7. Passed'
    BY <2>1, <2>5 DEF Books, Passed
  <2>8. Credited'
    <3>1. \A t \in Transfers : creditedBy[t] # {} => creditedBy'[t] # {}
      BY <2>5
    <3>2. \A t \in deposits \cup pending[d] : t \in Transfers /\ creditedBy[t] # {}
      BY DEF Books, Tables, Credited
    <3>3. \A e \in Deliveries : \A t \in pending[e] : t \in Transfers /\ creditedBy[t] # {}
      BY DEF Books, Tables, Credited
    <3>4. \A e \in Deliveries : dpc[e] \in {"unlock", "record"} => Tx(e) \in Transfers /\ e \in creditedBy[Tx(e)]
      BY TxInPayload DEF Books, Credited, Working
    <3>5. \A e \in Deliveries : dpc'[e] \in {"unlock", "record"} => e \in creditedBy'[Tx(e)]
      BY <2>2, <2>4, <2>5, <3>4
    <3>6. QED
      BY <2>1, <2>3, <2>5, <3>1, <3>2, <3>3, <3>5 DEF Credited
  <2>9. OneInserts'
    <3>1. ASSUME NEW t \in Transfers, NEW e \in Deliveries, Inserted(e, t)'
          PROVE  Inserted(e, t) \/ (e = d /\ t \in pending[d])
      BY <2>1, <2>3, <2>4, <2>5, <3>1 DEF Inserted
    <3>2. ASSUME NEW t \in Transfers, NEW e \in Deliveries, Inserted(e, t)
          PROVE  t \in deposits /\ \A f \in Deliveries : Inserted(f, t) => f = e
      BY <3>2 DEF Books, OneInserts
    <3>3. \A t \in pending[d] : t \notin deposits
      BY <1>2
    <3>4. QED
      BY <2>1, <3>1, <3>2, <3>3 DEF OneInserts
  <2>10. QED
    BY <2>6, <2>7, <2>8, <2>9 DEF Books
<1>3. QED
  BY <1>1, <1>2

\* The row of the transfer that was credited is added to the session.
LEMMA BooksRecord ==
  ASSUME Books, NEW d \in Deliveries, Record(d)
  PROVE  Books'
<1> DEFINE tx == Tx(d)
           q == IF Source[d] = "onchain" /\ at[d] < Len(Payload[d]) THEN "new" ELSE "commit"
<1>1. /\ dpc[d] = "record" /\ dpc' = [dpc EXCEPT ![d] = q]
      /\ pending' = [pending EXCEPT ![d] = @ \cup {tx}]
      /\ at' = [at EXCEPT ![d] = @ + 1]
      /\ UNCHANGED <<deposits, creditedBy>>
  BY DEF Record
<1>2. tx \in Transfers /\ d \in creditedBy[tx]
  BY <1>1, TxInPayload DEF Books, Credited, Working
<1>3. tx = Tx(d) /\ tx = Payload[d][at[d]]
  BY DEF Tx
<1>4. /\ q \in {"new", "commit"}
      /\ q = "new" => at[d] < Len(Payload[d])
      /\ q = "commit" => at[d] = Len(Payload[d])
  <2>1. at[d] \in Nat \ {0} /\ at[d] <= Len(Payload[d]) /\ Len(Payload[d]) \in Nat
    BY <1>1, Payloads DEF Books, Tables, Delivering, Working
  <2>2. Source[d] # "onchain" => Len(Payload[d]) = 1
    BY BillingConstants
  <2>3. CASE Source[d] = "onchain" /\ at[d] < Len(Payload[d])
    <3>1. q = "new"
      BY <2>3
    <3>2. QED
      BY <2>3, <3>1
  <2>4. CASE ~(Source[d] = "onchain" /\ at[d] < Len(Payload[d]))
    <3>1. q = "commit"
      BY <2>4
    <3>2. at[d] = Len(Payload[d])
      <4>1. CASE Source[d] = "onchain"
        BY <2>1, <2>4, <4>1
      <4>2. CASE Source[d] # "onchain"
        <5>1. \A n \in Nat \ {0} : n <= 1 => n = 1
          OBVIOUS
        <5>2. Len(Payload[d]) = 1
          BY <2>2, <4>2
        <5>3. QED
          BY <2>1, <5>1, <5>2
      <4>3. QED
        BY <4>1, <4>2
    <3>3. QED
      BY <3>1, <3>2
  <2>5. QED
    BY <2>3, <2>4
<1> HIDE DEF tx, q
<1>5. /\ \A e \in Deliveries : dpc'[e] = IF e = d THEN q ELSE dpc[e]
      /\ \A e \in Deliveries : pending'[e] = IF e = d THEN pending[e] \cup {tx} ELSE pending[e]
      /\ \A e \in Deliveries : at'[e] = IF e = d THEN at[e] + 1 ELSE at[e]
      /\ dpc' \in [Deliveries -> Places] /\ pending' \in [Deliveries -> SUBSET Transfers]
      /\ at' \in [Deliveries -> Nat \ {0}] /\ at[d] \in Nat \ {0}
  <2>1. dpc \in [Deliveries -> Places] /\ at \in [Deliveries -> Nat \ {0}] /\ pending \in [Deliveries -> SUBSET Transfers]
    BY DEF Books, Tables
  <2>2. q \in Places
    BY <1>4 DEF Places, Working
  <2>3. at[d] + 1 \in Nat \ {0} /\ pending[d] \cup {tx} \in SUBSET Transfers
    BY <1>2, <2>1
  <2>4. dpc' \in [Deliveries -> Places] /\ at' \in [Deliveries -> Nat \ {0}] /\ pending' \in [Deliveries -> SUBSET Transfers]
    BY <1>1, <2>1, <2>2, <2>3
  <2>5. QED
    BY <1>1, <2>1, <2>4
<1>6. Tables'
  <2>1. \A e \in Deliveries : Delivering(e)'
    BY <1>1, <1>4, <1>5, Payloads DEF Books, Tables, Delivering, Working
  <2>2. QED
    BY <1>1, <1>5, <2>1 DEF Books, Tables
<1>7. Passed'
  <2> SUFFICES ASSUME NEW e \in Deliveries, dpc'[e] \notin {"abort", "failed", "crashed"},
                      NEW j \in 1 .. at'[e] - 1, Payee[Payload[e][j]] # None
               PROVE  Payload[e][j] \in deposits \cup pending'[e]
    BY <1>1 DEF Passed
  <2>1. CASE j \in 1 .. at[e] - 1
    BY <1>1, <1>5, <2>1 DEF Books, Passed
  <2>2. CASE j \notin 1 .. at[e] - 1
    <3>1. e = d /\ j = at[d]
      BY <1>5, <2>2
    <3>2. QED
      BY <1>3, <1>5, <3>1
  <2>3. QED
    BY <2>1, <2>2
<1>8. Credited'
  <2>1. \A e \in Deliveries : e # d => Tx(e)' = Tx(e)
    BY <1>5 DEF Tx
  <2>2. QED
    BY <1>1, <1>2, <1>4, <1>5, <2>1 DEF Books, Credited
<1>9. OneInserts'
  <2>1. ASSUME NEW e \in Deliveries, NEW t \in Transfers, Inserted(e, t)'
        PROVE  Inserted(e, t)
    <3>1. CASE e = d
      BY <1>1, <1>3, <1>5, <2>1, <3>1 DEF Inserted
    <3>2. CASE e # d
      BY <1>1, <1>5, <2>1, <3>2 DEF Inserted, Tx
    <3>3. QED
      BY <3>1, <3>2
  <2>2. QED
    BY <1>1, <2>1 DEF Books, OneInserts
<1>10. QED
  BY <1>6, <1>7, <1>8, <1>9 DEF Books

\* The last commit: the constraint refuses what another delivery inserted.
LEMMA BooksCommit ==
  ASSUME Books, NEW d \in Deliveries, CommitDeposits(d)
  PROVE  Books'
<1>1. CASE pending[d] \cap deposits # {}
  <2>1. /\ dpc' = [dpc EXCEPT ![d] = "failed"]
        /\ pending' = [pending EXCEPT ![d] = {}] /\ UNCHANGED <<deposits, at, creditedBy>>
    BY <1>1 DEF CommitDeposits, DGoto
  <2>2. QED
    BY <2>1, BooksDrop
<1>2. CASE pending[d] \cap deposits = {}
  <2>1. /\ dpc[d] = "commit" /\ dpc' = [dpc EXCEPT ![d] = "done"]
        /\ pending' = [pending EXCEPT ![d] = {}] /\ deposits' = deposits \cup pending[d]
        /\ UNCHANGED <<at, creditedBy>>
    BY <1>2 DEF CommitDeposits, DGoto
  <2>2. /\ \A e \in Deliveries : dpc'[e] = IF e = d THEN "done" ELSE dpc[e]
        /\ \A e \in Deliveries : pending'[e] = IF e = d THEN {} ELSE pending[e]
        /\ dpc' \in [Deliveries -> Places] /\ pending' \in [Deliveries -> SUBSET Transfers]
        /\ deposits' \subseteq Transfers
    BY <2>1 DEF Books, Tables, Places, DeliveryEnd
  <2>3. Tables'
    <3>1. \A e \in Deliveries : Delivering(e)'
      BY <2>1, <2>2 DEF Books, Tables, Delivering, Working
    <3>2. QED
      BY <2>1, <2>2, <3>1 DEF Books, Tables
  <2>4. Passed'
    BY <2>1, <2>2 DEF Books, Passed
  <2>5. Credited'
    BY <2>1, <2>2 DEF Books, Credited, Tx
  <2>6. OneInserts'
    <3>1. ASSUME NEW t \in Transfers, NEW e \in Deliveries, Inserted(e, t)'
          PROVE  Inserted(e, t) \/ (e = d /\ t \in pending[d])
      BY <2>1, <2>2, <3>1 DEF Inserted, Tx
    <3>2. ASSUME NEW t \in Transfers, NEW e \in Deliveries, Inserted(e, t)
          PROVE  t \in deposits /\ \A f \in Deliveries : Inserted(f, t) => f = e
      BY <3>2 DEF Books, OneInserts
    <3>3. \A t \in pending[d] : t \notin deposits
      BY <1>2
    <3>4. QED
      BY <2>1, <3>1, <3>2, <3>3 DEF OneInserts
  <2>7. QED
    BY <2>3, <2>4, <2>5, <2>6 DEF Books
<1>3. QED
  BY <1>1, <1>2

-----------------------------------------------------------------------------
(* Every step                                                              *)

\* Nothing to credit: the handler returns, goes on or commits.
LEMMA BooksSkip ==
  ASSUME Books, NEW d \in Deliveries, dpc[d] \in {"new", "load"}, Skip(d),
         Payee[Tx(d)] = None \/ Tx(d) \in deposits, UNCHANGED <<deposits, pending, creditedBy>>
  PROVE  Books'
<1> DEFINE i == at[d] + 1
<1>1. /\ dpc[d] \in Working /\ at[d] \in Nat \ {0} /\ Len(Payload[d]) \in Nat \ {0}
      /\ at[d] <= Len(Payload[d]) /\ at' = [at EXCEPT ![d] = i]
      /\ i \in Nat \ {0} /\ i = at[d] + 1
  BY Payloads DEF Books, Tables, Delivering, Working, Skip
<1> HIDE DEF i
<1>2. CASE Source[d] = "coinbase"
  <2>1. Len(Payload[d]) = 1 /\ \A n \in Nat \ {0} : n <= 1 => n = 1
    BY <1>2, Payloads
  <2>2. at[d] = 1
    BY <1>1, <2>1
  <2>3. pending[d] = {} /\ i = Len(Payload[d]) + 1
    BY <1>1, <2>1, <2>2 DEF Books, Tables, Delivering
  <2>4. dpc' = [dpc EXCEPT ![d] = "done"]
    BY <1>2 DEF Skip
  <2>5. QED
    BY <1>1, <2>3, <2>4, BooksMove DEF Places, DeliveryEnd, Working
<1>3. CASE Source[d] # "coinbase" /\ at[d] < Len(Payload[d])
  <2>1. dpc' = [dpc EXCEPT ![d] = "new"]
    BY <1>3 DEF Skip
  <2>2. i <= Len(Payload[d])
    BY <1>1, <1>3
  <2>3. QED
    BY <1>1, <2>1, <2>2, BooksMove DEF Places, Working
<1>4. CASE Source[d] # "coinbase" /\ ~(at[d] < Len(Payload[d]))
  <2>1. dpc' = [dpc EXCEPT ![d] = "commit"]
    BY <1>4 DEF Skip
  <2>2. i = Len(Payload[d]) + 1
    BY <1>1, <1>4
  <2>3. QED
    BY <1>1, <2>1, <2>2, BooksMove DEF Places, Working
<1>5. QED
  BY <1>2, <1>3, <1>4

\* A step of a delivery that stays at its transfer and goes from p to q.
LEMMA BooksGo ==
  ASSUME Books, NEW d \in Deliveries, dpc[d] \in Working,
         NEW q \in {"load", "wait", "credit", "record", "failed"},
         dpc' = [dpc EXCEPT ![d] = q], UNCHANGED <<at, deposits, pending, creditedBy>>,
         q = "record" => dpc[d] = "unlock",
         dpc[d] \in {"unlock", "record"} => q \in {"record", "failed"},
         dpc[d] = "abort" => q = "failed"
  PROVE  Books'
<1>1. at[d] \in Nat \ {0} /\ at[d] <= Len(Payload[d]) /\ at' = [at EXCEPT ![d] = at[d]]
  BY DEF Books, Tables, Delivering
<1>2. q \in Places
  BY DEF Places, Working, DeliveryEnd
<1>3. QED
  BY <1>1, <1>2, BooksMove

\* Every step of a delivery, and its death, keeps the books.
LEMMA BooksDeliver ==
  ASSUME Books, NEW d \in Deliveries, Deliver(d) \/ DeliveryCrash(d)
  PROVE  Books'
<1>1. CASE CheckDeposit(d)
  <2>1. dpc[d] = "new" /\ UNCHANGED <<deposits, pending, creditedBy>>
    BY <1>1 DEF CheckDeposit
  <2>2. CASE Tx(d) \in deposits
    BY <1>1, <2>1, <2>2, BooksSkip DEF CheckDeposit
  <2>3. CASE Tx(d) \notin deposits
    <3>1. dpc' = [dpc EXCEPT ![d] = "load"] /\ UNCHANGED at
      BY <1>1, <2>3 DEF CheckDeposit, DGoto
    <3>2. QED
      BY <2>1, <3>1, BooksGo DEF Working
  <2>4. QED
    BY <2>2, <2>3
<1>2. CASE LoadUser(d)
  <2>1. dpc[d] = "load" /\ UNCHANGED <<deposits, pending, creditedBy>>
    BY <1>2 DEF LoadUser
  <2>2. CASE Payee[Tx(d)] = None
    BY <1>2, <2>1, <2>2, BooksSkip DEF LoadUser
  <2>3. CASE Payee[Tx(d)] # None
    <3>1. dpc' = [dpc EXCEPT ![d] = "wait"] /\ UNCHANGED at
      BY <1>2, <2>3 DEF LoadUser, DGoto
    <3>2. QED
      BY <2>1, <3>1, BooksGo DEF Working
  <2>4. QED
    BY <2>2, <2>3
<1>3. CASE CreditAcquire(d)
  <2>1. dpc[d] = "wait" /\ dpc' = [dpc EXCEPT ![d] = "credit"] /\ UNCHANGED <<at, deposits, pending, creditedBy>>
    BY <1>3 DEF CreditAcquire, DGoto
  <2>2. QED
    BY <2>1, BooksGo DEF Working
<1>4. CASE CreditGivesUp(d) \/ DeliveryCrash(d)
  <2>1. PICK q \in {"failed", "crashed"} : dpc' = [dpc EXCEPT ![d] = q]
    BY <1>4 DEF CreditGivesUp, DeliveryCrash
  <2>2. pending' = [pending EXCEPT ![d] = {}] /\ UNCHANGED <<deposits, at, creditedBy>>
    BY <1>4 DEF CreditGivesUp, DeliveryCrash
  <2>3. QED
    BY <2>1, <2>2, BooksDrop
<1>5. CASE CreditUnlock(d)
  <2>1. /\ dpc[d] \in {"unlock", "abort"} /\ UNCHANGED <<at, deposits, pending, creditedBy>>
        /\ \/ dpc' = [dpc EXCEPT ![d] = "failed"]
           \/ dpc[d] = "unlock" /\ dpc' = [dpc EXCEPT ![d] = "record"]
    BY <1>5 DEF CreditUnlock
  <2>2. QED
    BY <2>1, BooksGo DEF Working
<1>6. QED
  BY <1>1, <1>2, <1>3, <1>4, <1>5, BooksCredit, BooksRecord, BooksCommit DEF Deliver

\* Requests, keys that expire and balances keep the books too: they write no deposits.
LEMMA BooksStep == Books /\ [BillingNext]_allVars => Books'
<1> SUFFICES ASSUME Books, [BillingNext]_allVars PROVE Books'
  OBVIOUS
<1>1. CASE \E d \in Deliveries : Deliver(d) \/ DeliveryCrash(d)
  BY <1>1, BooksDeliver
<1>2. CASE UNCHANGED billingVars
  BY <1>2 DEF Books, Tables, Delivering, Passed, Credited, OneInserts, Inserted, Tx, billingVars
<1>3. CASE \E u \in Users : DeliveryLockExpires(u)
  BY <1>2, <1>3 DEF DeliveryLockExpires
<1>4. QED
  BY <1>1, <1>2, <1>3 DEF BillingNext, allVars

\* The books hold in every state of paid calls and webhooks together.
LEMMA BooksHold == BillingSpec => []Books
<1>1. QED
  BY BooksInit, BooksStep, PTL DEF BillingSpec

\* No deposit row, committed or pending, without a committed credit, whatever
\* deliveries crash, lose their lock or run at once (billing.py:100-113, 172-184).
THEOREM DepositsCredited == BillingSpec => []DepositWasCredited
<1>1. Books => DepositWasCredited
  BY DEF DepositWasCredited, Books, Credited
<1>2. QED
  BY <1>1, BooksHold, PTL

\* A 2xx answer means that the whole payload is recorded and credited, and that
\* no other delivery that credited one of its transfers got one
\* (billing.py:92-125, 145-185).
THEOREM AcksRecorded == BillingSpec => []AckedIsRecorded
<1>1. ASSUME Books, NEW d \in Deliveries, dpc[d] = "done",
             NEW t \in ToSet(Payload[d]), Payee[t] # None
      PROVE  /\ t \in deposits /\ creditedBy[t] # {}
             /\ \A e \in creditedBy[t] \ {d} : d \in creditedBy[t] => dpc[e] # "done"
  <2>1. PICK i \in 1 .. Len(Payload[d]) : t = Payload[d][i]
    BY BillingConstants DEF ToSet
  <2>2. t \in Transfers /\ Len(Payload[d]) \in Nat \ {0}
    BY <2>1, Payloads
  <2>3. at[d] = Len(Payload[d]) + 1 /\ pending[d] = {}
    BY <1>1 DEF Books, Tables, Delivering
  <2>4. t \in deposits
    BY <1>1, <2>1, <2>2, <2>3 DEF Books, Passed
  <2>5. creditedBy[t] # {}
    BY <1>1, <2>4 DEF Books, Credited
  <2>6. ASSUME NEW e \in creditedBy[t] \ {d}, d \in creditedBy[t], dpc[e] = "done" PROVE FALSE
    <3>1. e \in Deliveries /\ pending[e] = {}
      BY <1>1, <2>2, <2>6 DEF Books, Tables, Delivering
    <3>2. Inserted(d, t) /\ Inserted(e, t)
      BY <1>1, <2>3, <2>6, <3>1 DEF Inserted
    <3>3. QED
      BY <1>1, <2>2, <3>1, <3>2 DEF Books, OneInserts
  <2>7. QED
    BY <2>4, <2>5, <2>6
<1>2. Books => AckedIsRecorded
  BY <1>1 DEF AckedIsRecorded
<1>3. QED
  BY <1>2, BooksHold, PTL
=============================================================================
