------------------------------- MODULE Market -------------------------------
(***************************************************************************)
(* Market data from the candle feed to a model: the stream of              *)
(* sources/hyperliquid.py, its DataWriter, and the snapshots that          *)
(* snapshot.py builds for live predictions and dataset.py for backtests.   *)
(*                                                                         *)
(* A reader is one call of live, or the export.  Each await is a step: the *)
(* statements of _build share a connection but not a database snapshot     *)
(* (READ COMMITTED), so batches are committed between them.  A snapshot is *)
(* its time and the version of each bar it holds; the hash stands for it.  *)
(* The other four series of _build come from tables with writers of their  *)
(* own and are left out.  The key of a minute outlives it (CACHE_TTL) and  *)
(* is never set again, so its expiry shows nowhere; the prices an export   *)
(* adds at its end are one more read of the table.                         *)
(***************************************************************************)
EXTENDS DataWriter

CONSTANTS
  IntervalOf,   \* IntervalOf[b]: "1h" or "4h"
  OpensAt,      \* OpensAt[b]: when bar b opens, its column ts
  ClosesAt,     \* ClosesAt[b]: when it closes
  Lookback,     \* OHLCV_LOOKBACK
  MinuteLength, \* ticks of the clock in a minute
  LastTime,     \* bound: the last time of the clock
  Calls,        \* calls of live
  Cursors,      \* the times an export walks through
  None

ASSUME MarketConstants ==
  /\ IsFiniteSet(Bars) /\ "export" \notin Calls
  /\ IntervalOf \in [Bars -> {"1h", "4h"}]
  /\ OpensAt \in [Bars -> Nat] /\ ClosesAt \in [Bars -> Nat]
  /\ \A b \in Bars : OpensAt[b] < ClosesAt[b]
  /\ Lookback \in [{"1h", "4h"} -> Nat \ {0}]
  /\ MinuteLength \in Nat \ {0} /\ LastTime \in Nat
  /\ Cursors \subseteq 0 .. LastTime

VARIABLES
  now,          \* the clock
  minuteTable,  \* ohlcv as it was when this minute began
  cache,        \* cache[m]: the snapshot under snap:live:{asset}:{m}, or None
  archive,      \* snapshot_archive
  pc, at,       \* pc[r]: where reader r is; at[r]: the time it builds for
  snap,         \* snap[r]: the snapshot it builds or was served
  base,         \* base[r]: minuteTable when it started
  dataset       \* dataset[t]: the exported file, None before or when it failed

readerVars == <<cache, archive, pc, at, snap, base, dataset>>
vars == <<writerVars, now, minuteTable, readerVars>>

Export == "export"
Readers == Calls \cup {Export}
Minute(t) == t \div MinuteLength
Empty == [ts |-> 0, bars |-> [b \in Bars |-> 0]]

-----------------------------------------------------------------------------
(* Time and the feed                                                       *)

Tick ==
  /\ now < LastTime
  /\ now' = now + 1
  /\ minuteTable' = IF Minute(now + 1) = Minute(now) THEN minuteTable ELSE table
  /\ UNCHANGED <<writerVars, readerVars>>

\* Mutant of Candle: every update of a candle is stored.
CandleOpen(b) ==
  /\ OpensAt[b] <= now
  /\ Write(b)
  /\ UNCHANGED <<now, minuteTable, readerVars>>

\* _stream: an update is dropped while its bar is open.
Candle(b) ==
  /\ ClosesAt[b] <= now
  /\ Write(b)
  /\ UNCHANGED <<now, minuteTable, readerVars>>

Writer == WriterNext /\ UNCHANGED <<now, minuteTable, readerVars>>

-----------------------------------------------------------------------------
(* _build                                                                  *)

\* Mutant of Window: the bars of the last Lookback ticks.
WindowByTime(i, ts) ==
  {b \in Bars : /\ IntervalOf[b] = i /\ table[b] # 0
                /\ OpensAt[b] <= ts /\ OpensAt[b] > ts - Lookback[i]}

\* The most recent bars of interval i at or before ts, as many as Lookback.
Window(i, ts) ==
  LET found == {b \in Bars : IntervalOf[b] = i /\ table[b] # 0 /\ OpensAt[b] <= ts} IN
  {b \in found : Cardinality({c \in found : OpensAt[c] > OpensAt[b]}) < Lookback[i]}

\* One _fetch_ohlcv.
Fetch(r, i, next) ==
  /\ pc[r] = i
  /\ snap' = [snap EXCEPT ![r].bars =
       [b \in Bars |-> IF b \in Window(i, at[r]) THEN table[b] ELSE @[b]]]
  /\ pc' = [pc EXCEPT ![r] = next]
  /\ UNCHANGED <<writerVars, now, minuteTable, cache, archive, at, base, dataset>>

FetchBars(r) == Fetch(r, "1h", "4h") \/ Fetch(r, "4h", "built")

\* Start to build for time t.
Build(r, t) ==
  /\ at' = [at EXCEPT ![r] = t]
  /\ snap' = [snap EXCEPT ![r] = [Empty EXCEPT !.ts = t]]

-----------------------------------------------------------------------------
(* live                                                                    *)

\* The time, and with it the key, are fixed before the first await.
Live(c) ==
  /\ pc[c] = "idle"
  /\ Build(c, now)
  /\ base' = [base EXCEPT ![c] = minuteTable]
  /\ pc' = [pc EXCEPT ![c] = "get"]
  /\ UNCHANGED <<writerVars, now, minuteTable, cache, archive, dataset>>

\* Mutant of Key: one key per asset.
KeyOfAsset(t) == 0

\* The key of a live snapshot for time t.
Key(t) == Minute(t)

Hit(c) ==
  /\ pc[c] = "get" /\ cache[Key(at[c])] # None
  /\ snap' = [snap EXCEPT ![c] = cache[Key(at[c])]]
  /\ pc' = [pc EXCEPT ![c] = "served"]
  /\ UNCHANGED <<writerVars, now, minuteTable, cache, archive, at, base, dataset>>

Miss(c) ==
  /\ pc[c] = "get" /\ cache[Key(at[c])] = None
  /\ pc' = [pc EXCEPT ![c] = "1h"]
  /\ UNCHANGED <<writerVars, now, minuteTable, cache, archive, at, snap, base, dataset>>

SetCache(c) ==
  /\ pc[c] = "built"
  /\ cache' = [cache EXCEPT ![Key(at[c])] = snap[c]]
  /\ pc' = [pc EXCEPT ![c] = "archive"]
  /\ UNCHANGED <<writerVars, now, minuteTable, archive, at, snap, base, dataset>>

\* _archive, whose failure is logged and nothing else.
Archive(c) ==
  /\ pc[c] = "archive"
  /\ archive' \in {archive, archive \cup {snap[c]}}
  /\ pc' = [pc EXCEPT ![c] = "served"]
  /\ UNCHANGED <<writerVars, now, minuteTable, cache, at, snap, base, dataset>>

\* Redis or the database raises, the call with it, and its locals are gone.
Raise(c) ==
  /\ pc[c] \in {"get", "1h", "4h", "built"}
  /\ pc' = [pc EXCEPT ![c] = "failed"]
  /\ Build(c, 0)
  /\ base' = [base EXCEPT ![c] = Empty.bars]
  /\ UNCHANGED <<writerVars, now, minuteTable, cache, archive, dataset>>

-----------------------------------------------------------------------------
(* export                                                                  *)

Left(t) == {u \in Cursors : u > t}

\* export of a period that is over.
StartExport ==
  /\ pc[Export] = "idle" /\ \A t \in Cursors : t <= now
  /\ \E t \in Cursors : Left(t) = Cursors \ {t} /\ Build(Export, t)
  /\ pc' = [pc EXCEPT ![Export] = "1h"]
  /\ UNCHANGED <<writerVars, now, minuteTable, cache, archive, base, dataset>>

\* The next cursor; after the last one, the manifest.
Advance ==
  \/ /\ Left(at[Export]) = {}
     /\ pc' = [pc EXCEPT ![Export] = "served"]
     /\ Build(Export, 0)
  \/ /\ \E t \in Left(at[Export]) : Left(t) = Left(at[Export]) \ {t} /\ Build(Export, t)
     /\ pc' = [pc EXCEPT ![Export] = "1h"]

WriteSnapshot ==
  /\ pc[Export] = "built"
  /\ dataset' = [dataset EXCEPT ![at[Export]] = snap[Export]]
  /\ Advance
  /\ UNCHANGED <<writerVars, now, minuteTable, cache, archive, base>>

\* A snapshot that raises is logged and missing from the dataset.
SkipSnapshot ==
  /\ pc[Export] \in {"1h", "4h", "built"}
  /\ Advance
  /\ UNCHANGED <<writerVars, now, minuteTable, cache, archive, base, dataset>>

-----------------------------------------------------------------------------

Init ==
  /\ WriterInit
  /\ now = 0
  /\ minuteTable = table
  /\ cache = [m \in 0 .. Minute(LastTime) |-> None]
  /\ archive = {}
  /\ pc = [r \in Readers |-> "idle"]
  /\ at = [r \in Readers |-> 0]
  /\ snap = [r \in Readers |-> Empty]
  /\ base = [r \in Readers |-> table]
  /\ dataset = [t \in Cursors |-> None]

LiveStep(c) ==
  Live(c) \/ Hit(c) \/ Miss(c) \/ FetchBars(c) \/ SetCache(c) \/ Archive(c) \/ Raise(c)

ExportStep == StartExport \/ FetchBars(Export) \/ WriteSnapshot \/ SkipSnapshot

Next ==
  \/ Tick \/ Writer \/ ExportStep
  \/ \E b \in Bars : Candle(b)
  \/ \E c \in Calls : LiveStep(c)

Spec == Init /\ [][Next]_vars

-----------------------------------------------------------------------------
(* Properties                                                              *)

\* Bar b left the window of snapshot s for as many newer ones.
Displaced(b, s) ==
  Cardinality({c \in Bars : /\ IntervalOf[c] = IntervalOf[b]
                            /\ s.bars[c] # 0
                            /\ OpensAt[c] > OpensAt[b]}) >= Lookback[IntervalOf[b]]

\* Snapshot s holds every bar of seen, in that version or a newer one.
Covers(s, seen) ==
  \A b \in Bars : seen[b] # 0 => s.bars[b] >= seen[b] \/ Displaced(b, s)

\* A live prediction is not made on a bar that is still open when its snapshot
\* takes it in: the query compares only the time at which a bar opens, so this
\* rests on the feed, the buffer and what is re-buffered never holding an open
\* bar (74-75 of hyperliquid.py).  The bar may close after the time on the
\* snapshot, which is fixed before the query.  Of a snapshot of the past nothing like
\* it holds: it has the bar that was open at its time, with the later close.
LiveBarsHaveClosed ==
  \A c \in Calls, b \in Bars : snap[c].bars[b] # 0 => ClosesAt[b] <= now

\* A live call, served from the cache or not, is given everything the table
\* held when the minute of the call began: the cache shares snapshots within
\* a minute and never across (70-76).  (When two flushes overlap, the writer
\* itself may take a bar back.)
LiveIsFresh ==
  \A c \in Calls : pc[c] = "served" /\ ~raced => Covers(snap[c], base[c])

\* In one dataset a later snapshot knows what an earlier one knew, though
\* rows arrive while it is exported, so a backtest never unlearns a bar.
ExportNeverForgets ==
  \A t, u \in Cursors :
    t < u /\ dataset[t] # None /\ dataset[u] # None /\ ~raced =>
      Covers(dataset[u], dataset[t].bars)
=============================================================================
