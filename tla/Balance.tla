------------------------------ MODULE Balance ------------------------------
(***************************************************************************)
(* The prepaid balance of a user and the paid call that spends it:         *)
(* apps/api/app/core/balance.py (hold_balance, confirm_hold, release_hold) *)
(* driven by the handler of POST /v1/predict, routers/predict.py.          *)
(*                                                                         *)
(* A request is one coroutine.  It is cut at every await, so that other    *)
(* requests, the clock of Redis and crashes run between any two of its     *)
(* Redis commands and database statements.  Redis is the variables lock,   *)
(* holds, idem and confirmed; the database is balance; what a coroutine    *)
(* keeps in its local variables is pc, myHold, bal and view.  A retry is   *)
(* another request with the same Owner and the same Key.                   *)
(*                                                                         *)
(* A hold is identified with the request that created it: uuid4 makes the  *)
(* ids unique, and the amount stored under a hold never changes, so it is  *)
(* Cost of the creator.  A hold_zero_ id is a request whose Cost is 0.     *)
(***************************************************************************)
EXTENDS Integers, FiniteSetsExt

CONSTANTS
  Users,
  Reqs,         \* calls of POST /v1/predict
  Keys,         \* values of the Idempotency-Key header, or pred_id without one
  Deliveries,   \* webhook deliveries, the other users of the lock (Billing)
  Owner,        \* Owner[r]: the authenticated user of request r
  Key,          \* Key[r]:   its idempotency key
  Cost,         \* Cost[r]:  price_per_call_cents of the model it asks for
  InitBal,      \* InitBal[u]: balance_usd_cents when the behaviour starts
  SlowSections, \* may a live critical section outlast the timeout of its lock?
  None          \* nobody, no hold: an absent key

ASSUME BalanceConstants ==
  /\ Owner \in [Reqs -> Users]
  /\ Key \in [Reqs -> Keys]
  /\ Cost \in [Reqs -> Nat]
  /\ InitBal \in [Users -> Nat]
  /\ SlowSections \in BOOLEAN
  /\ None \notin Reqs \cup Deliveries
  /\ Reqs \cap Deliveries = {}

VARIABLES
  balance,    \* users.balance_usd_cents
  lock,       \* lock[u]: whose token is under balance_lock:{u}, None if free
  holds,      \* the holds whose key hold:{user}:{id} exists
  idem,       \* idem[k]: the hold id under idem:{k}, None if absent
  confirmed,  \* confirmed[h]: hold_confirmed:{user}:{h}, -1 if absent
  pc,         \* pc[r]: the await request r is suspended at
  myHold,     \* myHold[r]: the hold id request r has read or created
  bal,        \* bal[r]: user.balance_usd_cents of r's session, then its result
  view,       \* view[r]: the holds of the user when r's scan began
  answered,   \* history: the requests whose inference succeeded
  debited,    \* history: debited[h], how many times hold h was debited
  charged,    \* history: charged[u], the cents debited from user u
  unbacked    \* history: the part of charged[u] no live hold reserved

redisVars   == <<lock, holds, idem, confirmed>>
localVars   == <<pc, myHold, bal, view>>
historyVars == <<answered, debited, charged, unbacked>>
vars == <<balance, redisVars, localVars, historyVars>>

-----------------------------------------------------------------------------
(* The awaits of a request, by the place in the code it is suspended at.   *)

HoldSection    == {"refresh", "sum", "setHold", "unlockHold"}
ConfirmSection == {"refreshConfirm", "debit", "dropHold", "settle", "unlockConfirm"}
InSection      == HoldSection \cup ConfirmSection \cup {"unlockFail"}
Terminal       == {"served", "failed", "crashed"}
PC == {"new", "readPrior", "readPriorConfirmed", "waitHold", "infer", "release",
       "confirm", "readHold", "waitConfirm", "persist"} \cup InSection \cup Terminal

\* Where a request has left hold_balance with an id, or is looking up a prior one.
NeedsHold == {"readPrior", "readPriorConfirmed", "unlockHold", "infer", "release", "confirm",
              "readHold", "waitConfirm", "persist", "served"} \cup ConfirmSection

HoldsOf(u) == {h \in holds : Owner[h] = u}       \* keys that match hold:{u}:*
Reserved(S) == SumFunctionOnSet(Cost, S)               \* cents reserved by the holds S

Goto(r, from, to) ==
  /\ pc[r] = from
  /\ pc' = [pc EXCEPT ![r] = to]

-----------------------------------------------------------------------------
(* Entry into the lock with blocking_timeout, and exit with the token.     *)

\* Mutant of Acquire: SET without NX, the lock is taken from whoever has it.
AcquireBusy(r, from, to) ==
  /\ lock' = [lock EXCEPT ![Owner[r]] = r]
  /\ Goto(r, from, to)
  /\ UNCHANGED <<balance, holds, idem, confirmed, myHold, bal, view, historyVars>>

Acquire(r, from, to) ==
  /\ lock[Owner[r]] = None
  /\ lock' = [lock EXCEPT ![Owner[r]] = r]
  /\ Goto(r, from, to)
  /\ UNCHANGED <<balance, holds, idem, confirmed, myHold, bal, view, historyVars>>

\* The lock was held by another until blocking_timeout passed: LockError.
GiveUpWaiting(r, from) ==
  /\ lock[Owner[r]] # None
  /\ Goto(r, from, "failed")
  /\ UNCHANGED <<balance, redisVars, myHold, bal, view, historyVars>>

\* Mutant of Unlock: wait for the token to come back instead of failing.
UnlockInsists(r, from, to) ==
  /\ lock[Owner[r]] = r
  /\ lock' = [lock EXCEPT ![Owner[r]] = None]
  /\ Goto(r, from, to)
  /\ UNCHANGED <<balance, holds, idem, confirmed, myHold, bal, view, historyVars>>

\* Leaving async with: delete the key if it still holds this token, else
\* LockNotOwnedError replaces the result of the block.
Unlock(r, from, to) ==
  /\ IF lock[Owner[r]] = r
       THEN /\ lock' = [lock EXCEPT ![Owner[r]] = None]
            /\ Goto(r, from, to)
       ELSE /\ lock' = lock
            /\ Goto(r, from, "failed")
  /\ UNCHANGED <<balance, holds, idem, confirmed, myHold, bal, view, historyVars>>

-----------------------------------------------------------------------------
(* hold_balance                                                            *)

\* A free model needs no hold; otherwise read idem:{key}, outside the lock.
ReadIdem(r) ==
  /\ pc[r] = "new"
  /\ IF Cost[r] = 0
       THEN /\ pc' = [pc EXCEPT ![r] = "infer"]
            /\ myHold' = [myHold EXCEPT ![r] = r]
       ELSE /\ pc' = [pc EXCEPT ![r] = IF idem[Key[r]] = None
                                         THEN "waitHold" ELSE "readPrior"]
            /\ myHold' = [myHold EXCEPT ![r] = idem[Key[r]]]
  /\ UNCHANGED <<balance, redisVars, bal, view, historyVars>>

\* Mutant of ReadPriorHold: hold keys that do not carry the user id.
ReadPriorHoldAnyUser(r) ==
  /\ Goto(r, "readPrior", IF myHold[r] \in holds THEN "infer" ELSE "readPriorConfirmed")
  /\ UNCHANGED <<balance, redisVars, myHold, bal, view, historyVars>>

\* The prior hold is used when it is alive and is one of this user.
ReadPriorHold(r) ==
  /\ Goto(r, "readPrior",
          IF myHold[r] \in HoldsOf(Owner[r]) THEN "infer" ELSE "readPriorConfirmed")
  /\ UNCHANGED <<balance, redisVars, myHold, bal, view, historyVars>>

\* ... or when this user confirmed it; else the mapping is stale.
ReadPriorConfirmed(r) ==
  /\ pc[r] = "readPriorConfirmed"
  /\ IF Owner[myHold[r]] = Owner[r] /\ confirmed[myHold[r]] >= 0
       THEN /\ pc' = [pc EXCEPT ![r] = "infer"]
            /\ UNCHANGED myHold
       ELSE /\ pc' = [pc EXCEPT ![r] = "waitHold"]
            /\ myHold' = [myHold EXCEPT ![r] = None]
  /\ UNCHANGED <<balance, redisVars, bal, view, historyVars>>

\* db.refresh(user) under the lock; the scan starts from what is there now.
Refresh(r) ==
  /\ Goto(r, "refresh", "sum")
  /\ bal' = [bal EXCEPT ![r] = balance[Owner[r]]]
  /\ view' = [view EXCEPT ![r] = HoldsOf(Owner[r])]
  /\ UNCHANGED <<balance, redisVars, myHold, historyVars>>

\* Mutant of SumHolds: compare with the balance, not with what is free of it.
SumNoHolds(r) ==
  /\ Goto(r, "sum", IF bal[r] < Cost[r] THEN "unlockFail" ELSE "setHold")
  /\ view' = [view EXCEPT ![r] = {}]
  /\ UNCHANGED <<balance, redisVars, myHold, bal, historyVars>>

\* _sum_existing_holds: SCAN, then GET of each key.  A hold that stays alive
\* throughout is counted, one that comes or goes meanwhile may or may not be.
SumHolds(r) ==
  \E counted \in SUBSET (view[r] \cup HoldsOf(Owner[r])) :
    /\ view[r] \cap HoldsOf(Owner[r]) \subseteq counted
    /\ Goto(r, "sum", IF bal[r] - Reserved(counted) < Cost[r] THEN "unlockFail" ELSE "setHold")
    /\ view' = [view EXCEPT ![r] = {}]
    /\ UNCHANGED <<balance, redisVars, myHold, bal, historyVars>>

\* Mutant of SetHold: the new hold id is not returned to the handler.
SetHoldForgetsId(r) ==
  /\ Goto(r, "setHold", "unlockHold")
  /\ holds' = holds \cup {r}
  /\ idem' = [idem EXCEPT ![Key[r]] = r]
  /\ bal' = [bal EXCEPT ![r] = @ - Cost[r]]
  /\ UNCHANGED <<balance, lock, confirmed, myHold, view, historyVars>>

\* The pipeline that stores the hold and the mapping with one TTL; the value
\* hold_balance returns beside the id is current - cents.
SetHold(r) ==
  /\ Goto(r, "setHold", "unlockHold")
  /\ holds' = holds \cup {r}
  /\ idem' = [idem EXCEPT ![Key[r]] = r]
  /\ myHold' = [myHold EXCEPT ![r] = r]
  /\ bal' = [bal EXCEPT ![r] = @ - Cost[r]]
  /\ UNCHANGED <<balance, lock, confirmed, view, historyVars>>

HoldBalance(r) ==
  \/ ReadIdem(r)
  \/ ReadPriorHold(r)
  \/ ReadPriorConfirmed(r)
  \/ Acquire(r, "waitHold", "refresh")
  \/ GiveUpWaiting(r, "waitHold")
  \/ Refresh(r)
  \/ SumHolds(r)
  \/ SetHold(r)
  \/ Unlock(r, "unlockHold", "infer")
  \/ Unlock(r, "unlockFail", "failed")

-----------------------------------------------------------------------------
(* The inference call and release_hold                                     *)

InferenceSucceeds(r) ==
  /\ Goto(r, "infer", "confirm")
  /\ answered' = answered \cup {r}
  /\ UNCHANGED <<balance, redisVars, myHold, bal, view, debited, charged, unbacked>>

\* Mutant of InferenceFails: the handler goes on after a failed call.
InferenceFailsUnnoticed(r) ==
  /\ Goto(r, "infer", "confirm")
  /\ UNCHANGED <<balance, redisVars, myHold, bal, view, historyVars>>

InferenceFails(r) ==
  /\ Goto(r, "infer", "release")
  /\ UNCHANGED <<balance, redisVars, myHold, bal, view, historyVars>>

\* Without the lock: drop the hold, and whatever hold the key maps to now.
ReleaseHold(r) ==
  /\ Goto(r, "release", "failed")
  /\ IF Cost[myHold[r]] = 0
       THEN UNCHANGED <<holds, idem>>
       ELSE /\ holds' = holds \ {myHold[r]}
            /\ idem' = [idem EXCEPT ![Key[r]] = None]
  /\ UNCHANGED <<balance, lock, confirmed, myHold, bal, view, historyVars>>

Inference(r) == InferenceSucceeds(r) \/ InferenceFails(r) \/ ReleaseHold(r)

-----------------------------------------------------------------------------
(* confirm_hold                                                            *)

\* A zero hold and a hold already confirmed return at once.
ReadConfirmed(r) ==
  LET h == myHold[r]
      cached == Cost[h] > 0 /\ confirmed[h] >= 0
  IN /\ Goto(r, "confirm", IF Cost[h] = 0 \/ cached THEN "persist" ELSE "readHold")
     /\ bal' = [bal EXCEPT ![r] = IF cached THEN confirmed[h] ELSE @]
     /\ UNCHANGED <<balance, redisVars, myHold, view, historyVars>>

\* GET of the amount, outside the lock: 409 hold_expired when it is gone.
ReadHold(r) ==
  /\ Goto(r, "readHold", IF myHold[r] \in holds THEN "waitConfirm" ELSE "failed")
  /\ UNCHANGED <<balance, redisVars, myHold, bal, view, historyVars>>

\* Mutant of RefreshConfirm: no check, the hold is believed to suffice.
RefreshConfirmUnchecked(r) ==
  /\ Goto(r, "refreshConfirm", "debit")
  /\ bal' = [bal EXCEPT ![r] = balance[Owner[r]]]
  /\ UNCHANGED <<balance, redisVars, myHold, view, historyVars>>

\* db.refresh(user) under the lock, and the "defense in depth" check.
RefreshConfirm(r) ==
  /\ Goto(r, "refreshConfirm",
          IF balance[Owner[r]] < Cost[myHold[r]] THEN "dropHold" ELSE "debit")
  /\ bal' = [bal EXCEPT ![r] = balance[Owner[r]]]
  /\ UNCHANGED <<balance, redisVars, myHold, view, historyVars>>

DropHold(r) ==
  /\ Goto(r, "dropHold", "unlockFail")
  /\ holds' = holds \ {myHold[r]}
  /\ UNCHANGED <<balance, lock, idem, confirmed, myHold, bal, view, historyVars>>

\* UPDATE ... SET balance_usd_cents = the value computed here, and COMMIT.
Debit(r) ==
  LET h == myHold[r]
      u == Owner[r]
  IN /\ Goto(r, "debit", "settle")
     /\ balance' = [balance EXCEPT ![u] = bal[r] - Cost[h]]
     /\ bal' = [bal EXCEPT ![r] = @ - Cost[h]]
     /\ debited' = [debited EXCEPT ![h] = @ + 1]
     /\ charged' = [charged EXCEPT ![u] = @ + Cost[h]]
     /\ unbacked' = [unbacked EXCEPT ![u] =
                       IF h \in holds /\ debited[h] = 0 THEN @ ELSE @ + Cost[h]]
     /\ UNCHANGED <<redisVars, myHold, view, answered>>

\* The pipeline after the commit: delete the hold, remember the result.
Settle(r) ==
  /\ Goto(r, "settle", "unlockConfirm")
  /\ holds' = holds \ {myHold[r]}
  /\ confirmed' = [confirmed EXCEPT ![myHold[r]] = bal[r]]
  /\ UNCHANGED <<balance, lock, idem, myHold, bal, view, historyVars>>

\* The Prediction row, committed on its own, and the response.
Persist(r) ==
  /\ Goto(r, "persist", "served")
  /\ UNCHANGED <<balance, redisVars, myHold, bal, view, historyVars>>

ConfirmHold(r) ==
  \/ ReadConfirmed(r)
  \/ ReadHold(r)
  \/ Acquire(r, "waitConfirm", "refreshConfirm")
  \/ GiveUpWaiting(r, "waitConfirm")
  \/ RefreshConfirm(r)
  \/ DropHold(r)
  \/ Debit(r)
  \/ Settle(r)
  \/ Unlock(r, "unlockConfirm", "persist")
  \/ Persist(r)

-----------------------------------------------------------------------------
(* Time and failures                                                       *)

\* ttl_seconds has passed since SetHold(h): both keys it wrote go together.
\* (hold_confirmed lives for an hour, longer than any key or request that
\* leads to it, so its expiry is never seen.)
HoldExpires(h) ==
  /\ h \in holds \/ idem[Key[h]] = h
  /\ holds' = holds \ {h}
  /\ idem' = [idem EXCEPT ![Key[h]] = IF @ = h THEN None ELSE @]
  /\ UNCHANGED <<balance, lock, confirmed, localVars, historyVars>>

\* Mutant of LockExpires: timeouts shorter than the sections they guard.
LockExpiresEarly(u) ==
  /\ lock[u] \in Reqs
  /\ lock' = [lock EXCEPT ![u] = None]
  /\ UNCHANGED <<balance, holds, idem, confirmed, localVars, historyVars>>

\* Mutant of LockExpires: no timeout for what a dead holder left.
LockOfDeadStays(u) ==
  /\ lock[u] \in Reqs
  /\ SlowSections /\ pc[lock[u]] \in InSection
  /\ lock' = [lock EXCEPT ![u] = None]
  /\ UNCHANGED <<balance, holds, idem, confirmed, localVars, historyVars>>

\* The lock's own timeout: frees what a dead holder left, and, if critical
\* sections may be slow, takes the lock from a living one.
LockExpires(u) ==
  /\ lock[u] \in Reqs
  /\ SlowSections \/ pc[lock[u]] \notin InSection
  /\ lock' = [lock EXCEPT ![u] = None]
  /\ UNCHANGED <<balance, holds, idem, confirmed, localVars, historyVars>>

\* The process dies, or the task is cancelled, at any await of the request.
Crash(r) ==
  /\ pc[r] \notin Terminal \cup {"new"}
  /\ pc' = [pc EXCEPT ![r] = "crashed"]
  /\ UNCHANGED <<balance, redisVars, myHold, bal, view, historyVars>>

-----------------------------------------------------------------------------

Init ==
  /\ balance = InitBal
  /\ lock = [u \in Users |-> None]
  /\ holds = {}
  /\ idem = [k \in Keys |-> None]
  /\ confirmed = [h \in Reqs |-> -1]
  /\ pc = [r \in Reqs |-> "new"]
  /\ myHold = [r \in Reqs |-> None]
  /\ bal = [r \in Reqs |-> 0]
  /\ view = [r \in Reqs |-> {}]
  /\ answered = {}
  /\ debited = [h \in Reqs |-> 0]
  /\ charged = [u \in Users |-> 0]
  /\ unbacked = [u \in Users |-> 0]

Predict(r) == HoldBalance(r) \/ Inference(r) \/ ConfirmHold(r)

Next ==
  \/ \E r \in Reqs : Predict(r) \/ Crash(r) \/ HoldExpires(r)
  \/ \E u \in Users : LockExpires(u)

Spec == Init /\ [][Next]_vars

\* A coroutine that is not suspended for ever runs on, the inference call
\* ends (httpx timeout), and Redis expires what its owner left.  Nothing
\* makes a request arrive, an inference succeed, a process crash or a
\* section be slow.
Fairness ==
  /\ \A r \in Reqs : WF_vars(pc[r] # "new" /\ Predict(r))
  /\ \A r \in Reqs : WF_vars(HoldExpires(r))
  /\ \A u \in Users : WF_vars(lock[u] \in Reqs /\ pc[lock[u]] \notin InSection
                               /\ LockExpires(u))

FairSpec == Spec /\ Fairness
-----------------------------------------------------------------------------
(* Properties                                                              *)

\* Every variable has its type, and a request past hold_balance has a hold id.
TypeOK ==
  /\ balance \in [Users -> Int]
  /\ lock \in [Users -> Reqs \cup Deliveries \cup {None}]
  /\ holds \subseteq Reqs
  /\ idem \in [Keys -> Reqs \cup {None}]
  /\ confirmed \in [Reqs -> Int]
  /\ pc \in [Reqs -> PC]
  /\ myHold \in [Reqs -> Reqs \cup {None}]
  /\ bal \in [Reqs -> Int]
  /\ view \in [Reqs -> SUBSET Reqs]
  /\ answered \subseteq Reqs
  /\ debited \in [Reqs -> Nat]
  /\ charged \in [Users -> Nat]
  /\ unbacked \in [Users -> Nat]
  /\ \A r \in Reqs : pc[r] \in NeedsHold => myHold[r] \in Reqs

\* No order of requests, expiries and crashes drives a user's balance below
\* zero, not even when locks are lost to their timeout (balance.py:154-163:
\* the check and the absolute value written come from one refresh).
BalanceNonNegative == \A u \in Users : balance[u] >= 0

\* A served call was paid for: the hold it went through was debited at least
\* once and is a hold of the same user and the same Idempotency-Key, though
\* the hold may be another request's and hold, idem and confirmed are read by
\* separate commands outside the lock (balance.py:86-98, 141-150).
ServedIsCharged ==
  \A r \in Reqs : pc[r] = "served" /\ Cost[r] > 0 =>
    /\ debited[myHold[r]] >= 1
    /\ Owner[myHold[r]] = Owner[r]
    /\ Key[myHold[r]] = Key[r]

\* Nobody pays for nothing: a hold is debited only when some request that uses
\* it got its inference result, and never more often than such requests exist
\* (balance.py:4, "Failed inference doesn't leave phantom charges").
ChargeJustified ==
  \A h \in Reqs :
    debited[h] <= Cardinality({r \in answered : myHold[r] = h})

\* The balance is what was there less what was debited: no debit is lost to an
\* absolute value computed from a stale read (balance.py:152-163).
Conservation == \A u \in Users : balance[u] + charged[u] = InitBal[u]

\* Admission is sound: the live holds not yet debited never promise more than
\* the balance, except for what debits took whose own hold was already gone
\* (balance.py:104-121; the scan is not atomic and holds expire during it).
HoldsCovered ==
  \A u \in Users :
    Reserved({h \in HoldsOf(u) : debited[h] = 0}) <= balance[u] + unbacked[u]

\* balance.py and predict.py implement the ledger a user is promised.
L == INSTANCE Ledger WITH served <- {r \in Reqs : pc[r] = "served"}
ImplementsLedger == L!Spec

\* Every call that starts returns: no chain of expired locks, lost holds and
\* waiting requests leaves one suspended for ever.
RequestsEnd == \A r \in Reqs : pc[r] # "new" ~> pc[r] \in Terminal

\* A user is never locked out: whatever dies inside a critical section, the
\* lock is free again later (balance.py:102, timeout).
LockFreed == \A u \in Users : lock[u] # None ~> lock[u] = None
=============================================================================
