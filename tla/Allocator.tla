----------------------------- MODULE Allocator -----------------------------
(***************************************************************************)
(* The capital allocator, apps/capital-allocator/app: every signal of the  *)
(* Redis channel is a task of its own that checks the risk limits, places  *)
(* an order and books the fill (process_signal of main.py, with            *)
(* risk_manager.py, attribution.py and state.py), next to the task that    *)
(* refreshes the marks.                                                    *)
(*                                                                         *)
(* A task is cut at its database statements.  No lock orders the tasks:    *)
(* what they read (seen, target, rowDay) may be stale when they write it   *)
(* back; a local that is not needed any more is reset.  Amounts are        *)
(* dollars; the settings are CONSTANTS, as they come from the environment. *)
(* The venue is outside the repository: an order is filled or not, at      *)
(* about the size asked for, and the answer can get lost.                  *)
(***************************************************************************)
EXTENDS Integers, FiniteSetsExt

CONSTANTS
  Signals,          \* the messages of signal_channel
  AssetOf, SideOf,  \* SideOf[s] \in {"long", "short"}
  ModelOf,          \* the model that predicted it
  EdgeBps, VolBps,  \* edge_bps and expected_vol_bps of the prediction
  Models,
  Capacity,         \* Capacity[m]: tested_capacity_usd * per_model_capacity_buffer
  Aum,              \* aum_usd
  KellyBps,         \* kelly_fraction, in basis points
  MaxPositionBps,   \* max_position_pct_of_aum, in basis points
  MinTrade,         \* min_trade_usd
  MaxGross,         \* max_gross_leverage * aum_usd
  MaxNet,           \* max_net_leverage * aum_usd
  LossLimit,        \* starting_aum_usd * daily_loss_circuit_breaker_pct
  FillErrors,       \* how far a fill may be from the size asked for
  Before,           \* the signals that are booked when the behaviour starts
  MovePct,          \* the moves of the marks away from the entry prices, in percent
  LastDay           \* bound: the days of a behaviour are 0 .. LastDay

Sides == {"long", "short"}

ASSUME AllocatorConstants ==
  /\ IsFiniteSet(Signals)   \* those of the time that is looked at
  /\ SideOf \in [Signals -> Sides]
  /\ ModelOf \in [Signals -> Models]
  /\ EdgeBps \in [Signals -> Int]
  /\ VolBps \in [Signals -> Int]
  /\ Capacity \in [Models -> Nat]
  /\ {Aum, KellyBps, MaxPositionBps, MaxGross, MaxNet, LossLimit, LastDay} \subseteq Nat
  /\ MinTrade \in Nat
  /\ FillErrors \subseteq Int /\ IsFiniteSet(FillErrors)
  /\ \A e \in FillErrors : MinTrade + e > 0
  /\ Before \subseteq Signals
  /\ \A s, o \in Before : AssetOf[s] = AssetOf[o] /\ SideOf[s] = SideOf[o] => s = o
  /\ MovePct \subseteq Int

VARIABLES
  position,    \* position[s]: size_usd of the open row task s inserted, 0 if none
  trades,      \* the signals with a trade row and its attribution link
  fill,        \* fill[s]: dollars filled for s at the venue
  today,       \* the UTC date
  dayRows,     \* the dates that have a row in allocator_daily_pnl
  halted,      \* those whose row says halted
  unrealized,  \* unrealized[d]: unrealized_pnl_usd of the row of day d
  tradeCount,  \* tradeCount[d]: its trades_count
  pc,          \* pc[s]: where the task of s is
  seen,        \* seen[s]: the size or the count it has read
  target,      \* target[s]: the position row it will write
  rowDay,      \* rowDay[s]: the day whose row it works on
  rpc,         \* where the mark refresher is
  rday,        \* the day whose row it works on
  total,       \* its total_unrealized
  overlapped   \* history: some task passed the exposure check while another
               \* was between that check and the end of its booking

bookVars    == <<position, trades>>
dailyVars   == <<dayRows, halted, unrealized, tradeCount>>
taskVars    == <<pc, seen, target, rowDay>>
refreshVars == <<rpc, rday, total>>
vars == <<bookVars, fill, today, dailyVars, taskVars, refreshVars, overlapped>>

Days == 0 .. LastDay
Booking == {"execute", "record", "position", "write"}
Over    == {"done", "lost"}
SumOf(f, S) == SumFunctionOnSet(f, S)
OpenRows == {s \in Signals : position[s] > 0}
SameSlot(s) == {p \in OpenRows : AssetOf[p] = AssetOf[s] /\ SideOf[p] = SideOf[s]}

Goto(s, from, to) ==
  /\ pc[s] = from
  /\ pc' = [pc EXCEPT ![s] = to]

-----------------------------------------------------------------------------
(* Size and risk checks                                                    *)

\* kelly_size: the fraction edge / variance of the equity, taken by
\* kelly_fraction and capped; nothing below the floor.
Size(s) ==
  LET wanted == (EdgeBps[s] * 10000 * KellyBps) \div (VolBps[s] * VolBps[s])
      usd == (Aum * Min({wanted, MaxPositionBps})) \div 10000
  IN IF VolBps[s] <= 0 \/ EdgeBps[s] <= 0 \/ usd < MinTrade THEN 0 ELSE usd

\* Not tradeable (asset, direction, sharpe, age), or of size zero.
Skip(s) ==
  /\ Goto(s, "new", "done")
  /\ UNCHANGED <<bookVars, fill, today, dailyVars, seen, target, rowDay, refreshVars, overlapped>>

Accept(s) ==
  /\ Size(s) > 0
  /\ Goto(s, "new", "breaker")
  /\ UNCHANGED <<bookVars, fill, today, dailyVars, seen, target, rowDay, refreshVars, overlapped>>

\* _check_circuit_breaker reads the row of today, if there is one.
CheckBreaker(s) ==
  LET lost == today \in dayRows /\ unrealized[today] <= -LossLimit IN
  /\ Goto(s, "breaker", IF today \in halted THEN "done" ELSE IF lost THEN "halt" ELSE "capacity")
  /\ rowDay' = [rowDay EXCEPT ![s] = IF today \notin halted /\ lost THEN today ELSE @]
  /\ UNCHANGED <<bookVars, fill, today, dailyVars, seen, target, refreshVars, overlapped>>

Halt(s) ==
  /\ Goto(s, "halt", "done")
  /\ halted' = halted \cup {rowDay[s]}
  /\ rowDay' = [rowDay EXCEPT ![s] = 0]
  /\ UNCHANGED <<bookVars, fill, today, dayRows, unrealized, tradeCount, seen, target,
                 refreshVars, overlapped>>

\* The join of _capacity_used_for_model compares the id of a position with the
\* id of a trade; every row of either table has a uuid of its own.
PositionId(s) == <<"position", s>>
TradeId(s)    == <<"trade", s>>
CapacityUsed(m) ==
  SumOf(position, {p \in OpenRows :
                     \E t \in trades : ModelOf[t] = m /\ TradeId(t) = PositionId(p)})

CheckCapacity(s) ==
  /\ Goto(s, "capacity",
          IF CapacityUsed(ModelOf[s]) + Size(s) > Capacity[ModelOf[s]] THEN "done" ELSE "exposure")
  /\ UNCHANGED <<bookVars, fill, today, dailyVars, seen, target, rowDay, refreshVars, overlapped>>

Gross == SumOf(position, OpenRows)
Net == SumOf(position, {p \in OpenRows : SideOf[p] = "long"})
         - SumOf(position, {p \in OpenRows : SideOf[p] = "short"})

Signed(s) == IF SideOf[s] = "long" THEN Size(s) ELSE -Size(s)

\* Mutant of WithinLimits: the new trade is left out of the comparison.
WithinLimitsBefore(s) == Gross <= MaxGross /\ -MaxNet <= Net /\ Net <= MaxNet

WithinLimits(s) ==
  /\ Gross + Size(s) <= MaxGross
  /\ -MaxNet <= Net + Signed(s) /\ Net + Signed(s) <= MaxNet

CheckExposure(s) ==
  /\ Goto(s, "exposure", IF WithinLimits(s) THEN "execute" ELSE "done")
  /\ overlapped' = (overlapped \/ (WithinLimits(s) /\ \E o \in Signals : pc[o] \in Booking))
  /\ UNCHANGED <<bookVars, fill, today, dailyVars, seen, target, rowDay, refreshVars>>

-----------------------------------------------------------------------------
(* Execution                                                               *)

\* place_market: the order is filled and the answer arrives (record), or is
\* lost on the way: the exception becomes a result that is not ok (done).
Fill(s) ==
  \E error \in FillErrors, to \in {"record", "done"} :
    /\ Goto(s, "execute", to)
    /\ fill' = [fill EXCEPT ![s] = Size(s) + error]
    /\ UNCHANGED <<bookVars, today, dailyVars, seen, target, rowDay, refreshVars, overlapped>>

NotFilled(s) ==
  /\ Goto(s, "execute", "done")
  /\ UNCHANGED <<bookVars, fill, today, dailyVars, seen, target, rowDay, refreshVars, overlapped>>

-----------------------------------------------------------------------------
(* Booking                                                                 *)

\* record_trade_and_attribution: trade and link in one transaction.
Record(s) ==
  /\ Goto(s, "record", "position")
  /\ trades' = trades \cup {s}
  /\ UNCHANGED <<position, fill, today, dailyVars, seen, target, rowDay, refreshVars, overlapped>>

\* Mutant of ReadPosition: the row is looked up by id, and never found.
ReadPositionById(s) ==
  /\ Goto(s, "position", "write")
  /\ target' = [target EXCEPT ![s] = s]
  /\ seen' = [seen EXCEPT ![s] = 0]
  /\ UNCHANGED <<bookVars, fill, today, dailyVars, rowDay, refreshVars, overlapped>>

\* upsert_position_after_trade selects the open row of (asset, side): none, and
\* a row will be inserted, or one, and its size will be written back.
ReadPosition(s) ==
  /\ Goto(s, "position", "write")
  /\ \/ /\ SameSlot(s) = {}
        /\ target' = [target EXCEPT ![s] = s]
        /\ seen' = [seen EXCEPT ![s] = 0]
     \/ \E p \in SameSlot(s) :
          /\ SameSlot(s) = {p}
          /\ target' = [target EXCEPT ![s] = p]
          /\ seen' = [seen EXCEPT ![s] = position[p]]
  /\ UNCHANGED <<bookVars, fill, today, dailyVars, rowDay, refreshVars, overlapped>>

\* scalar_one_or_none raises MultipleResultsFound: the task ends there.
ManyPositions(s) ==
  /\ Cardinality(SameSlot(s)) > 1
  /\ Goto(s, "position", "done")
  /\ UNCHANGED <<bookVars, fill, today, dailyVars, seen, target, rowDay, refreshVars, overlapped>>

\* Mutant of WritePosition: books the size asked for, not the size filled.
WritePositionAsked(s) ==
  /\ Goto(s, "write", "daily")
  /\ position' = [position EXCEPT ![target[s]] = seen[s] + Size(s)]
  /\ seen' = [seen EXCEPT ![s] = 0]
  /\ target' = [target EXCEPT ![s] = s]
  /\ UNCHANGED <<trades, fill, today, dailyVars, rowDay, refreshVars, overlapped>>

\* The absolute size computed from what was read.
WritePosition(s) ==
  /\ Goto(s, "write", "daily")
  /\ position' = [position EXCEPT ![target[s]] = seen[s] + fill[s]]
  /\ seen' = [seen EXCEPT ![s] = 0]
  /\ target' = [target EXCEPT ![s] = s]
  /\ UNCHANGED <<trades, fill, today, dailyVars, rowDay, refreshVars, overlapped>>

\* ensure_daily_pnl_row: get the row of today ...
ReadDaily(s) ==
  /\ rowDay' = [rowDay EXCEPT ![s] = today]
  /\ seen' = [seen EXCEPT ![s] = tradeCount[today]]
  /\ Goto(s, "daily", IF today \in dayRows THEN "count" ELSE "newRow")
  /\ UNCHANGED <<bookVars, fill, today, dailyVars, target, refreshVars, overlapped>>

\* ... or insert it, which fails when another task was faster.
InsertDaily(s) ==
  /\ Goto(s, "newRow", IF rowDay[s] \in dayRows THEN "done" ELSE "count")
  /\ dayRows' = dayRows \cup {rowDay[s]}
  /\ UNCHANGED <<bookVars, fill, today, halted, unrealized, tradeCount, seen, target, rowDay,
                 refreshVars, overlapped>>

\* trades_count = what was read + 1; the other columns of the row are not
\* written.
WriteCount(s) ==
  /\ Goto(s, "count", "done")
  /\ tradeCount' = [tradeCount EXCEPT ![rowDay[s]] = seen[s] + 1]
  /\ seen' = [seen EXCEPT ![s] = 0]
  /\ rowDay' = [rowDay EXCEPT ![s] = 0]
  /\ UNCHANGED <<bookVars, fill, today, dayRows, halted, unrealized, target, refreshVars,
                 overlapped>>

-----------------------------------------------------------------------------
(* The mark refresher                                                      *)

Unrealized(move) ==
  MapThenSumSet(LAMBDA p : (IF SideOf[p] = "long" THEN 1 ELSE -1)
                             * ((position[p] * move[AssetOf[p]]) \div 100), OpenRows)

\* Every 30 s: read the open rows and sum their profit; a mark that cannot be
\* fetched counts as no move.
RefreshMarks ==
  /\ rpc = "idle"
  /\ rpc' = "daily"
  /\ \E move \in [{AssetOf[s] : s \in Signals} -> MovePct] : total' = Unrealized(move)
  /\ UNCHANGED <<bookVars, fill, today, dailyVars, taskVars, rday, overlapped>>

RefreshReadDaily ==
  /\ rpc = "daily"
  /\ rday' = today
  /\ rpc' = IF today \in dayRows THEN "write" ELSE "newRow"
  /\ UNCHANGED <<bookVars, fill, today, dailyVars, taskVars, total, overlapped>>

\* The insert fails when a task was faster: the round ends with an exception.
RefreshInsertDaily ==
  /\ rpc = "newRow"
  /\ rpc' = IF rday \in dayRows THEN "idle" ELSE "write"
  /\ dayRows' = dayRows \cup {rday}
  /\ UNCHANGED <<bookVars, fill, today, halted, unrealized, tradeCount, taskVars, rday, total,
                 overlapped>>

RefreshWrite ==
  /\ rpc = "write"
  /\ rpc' = "idle"
  /\ unrealized' = [unrealized EXCEPT ![rday] = total]
  /\ total' = 0 /\ rday' = 0
  /\ UNCHANGED <<bookVars, fill, today, dayRows, halted, tradeCount, taskVars, overlapped>>

-----------------------------------------------------------------------------
(* Time and failures                                                       *)

Midnight ==
  /\ today < LastDay
  /\ today' = today + 1
  /\ UNCHANGED <<bookVars, fill, dailyVars, taskVars, refreshVars, overlapped>>

\* The process stops, at any point of its tasks, and starts again: the signals
\* in flight are forgotten, and main makes sure that today has a row.
Restart ==
  /\ \E s \in Signals : pc[s] \notin Over \cup {"new"}
  /\ pc' = [s \in Signals |-> IF pc[s] \in Over \cup {"new"} THEN pc[s] ELSE "lost"]
  /\ seen' = [s \in Signals |-> 0]
  /\ target' = [s \in Signals |-> s]
  /\ rowDay' = [s \in Signals |-> 0]
  /\ rpc' = "idle" /\ rday' = 0 /\ total' = 0
  /\ dayRows' = dayRows \cup {today}
  /\ UNCHANGED <<bookVars, fill, today, halted, unrealized, tradeCount, overlapped>>

-----------------------------------------------------------------------------

WorstError == Max({0} \cup {e \in FillErrors : e > 0})

\* What is booked at the start was admitted by the same limits.
ASSUME StartWithinLimits ==
  LET size == [s \in Signals |-> IF s \in Before THEN Size(s) ELSE 0]
      net  == SumOf(size, {s \in Signals : SideOf[s] = "long"})
                - SumOf(size, {s \in Signals : SideOf[s] = "short"})
  IN /\ SumOf(size, Signals) <= MaxGross + WorstError
     /\ -(MaxNet + WorstError) <= net /\ net <= MaxNet + WorstError

Init ==
  /\ fill = [s \in Signals |-> IF s \in Before THEN Size(s) ELSE 0]
  /\ position = fill
  /\ trades = Before
  /\ today = 0
  /\ dayRows = {0}
  /\ halted = {}
  /\ unrealized = [d \in Days |-> 0]
  /\ tradeCount = [d \in Days |-> 0]
  /\ pc = [s \in Signals |-> IF s \in Before THEN "done" ELSE "new"]
  /\ seen = [s \in Signals |-> 0]
  /\ target = [s \in Signals |-> s]
  /\ rowDay = [s \in Signals |-> 0]
  /\ rpc = "idle"
  /\ rday = 0
  /\ total = 0
  /\ overlapped = FALSE

Allow(s) == CheckBreaker(s) \/ Halt(s) \/ CheckCapacity(s) \/ CheckExposure(s)

Book(s) ==
  \/ Record(s)
  \/ ReadPosition(s)
  \/ ManyPositions(s)
  \/ WritePosition(s)
  \/ ReadDaily(s)
  \/ InsertDaily(s)
  \/ WriteCount(s)

ProcessSignal(s) == Skip(s) \/ Accept(s) \/ Allow(s) \/ Fill(s) \/ NotFilled(s) \/ Book(s)

Refresh == RefreshMarks \/ RefreshReadDaily \/ RefreshInsertDaily \/ RefreshWrite

Next ==
  \/ \E s \in Signals : ProcessSignal(s)
  \/ Refresh
  \/ Midnight
  \/ Restart

Spec == Init /\ [][Next]_vars

-----------------------------------------------------------------------------
(* Properties                                                              *)

\* The books never show more than the venue filled: a stale size written back
\* can hide a fill of the same asset and side, never invent one
\* (state.py:22-49, no lock).
BooksWithinVenue ==
  \A s \in Signals :
    LET slot == {o \in Signals : AssetOf[o] = AssetOf[s] /\ SideOf[o] = SideOf[s]}
    IN SumOf(position, slot) <= SumOf(fill, slot)

\* As long as no task passes the exposure check while another is between its
\* check and its booking, the books stay within both leverage limits, but for
\* the error of one fill, through crashes, lost answers and halts
\* (risk_manager.py:48-57).
ExposureWithinLimits ==
  ~overlapped => /\ Gross <= MaxGross + WorstError
                 /\ -(MaxNet + WorstError) <= Net /\ Net <= MaxNet + WorstError

\* "Current open position per (asset, side)" (db/models.py:13), with the same
\* reservation: the table has no constraint that says so, and
\* two tasks that find no open row (state.py:31) both insert one.
OneRowPerSlot == ~overlapped => \A s \in OpenRows : SameSlot(s) = {s}
=============================================================================
