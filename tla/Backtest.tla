------------------------------ MODULE Backtest ------------------------------
(***************************************************************************)
(* A dataset folder, what writes it (the export of canonical-data's        *)
(* DatasetBuilder, echo-cli dataset pull) and a backtest that reads it     *)
(* (echo_quant/backtest), which decides whether a model passes the         *)
(* marketplace's thresholds.                                               *)
(*                                                                         *)
(* Nothing locks the folder.  A writer writes over whatever an earlier one *)
(* left, file by file, and can end anywhere; a run of the backtest         *)
(* lists the snapshots when it starts and reads the prices when it first   *)
(* needs them.  A snapshot is its time: what a model makes of it is any    *)
(* signal.  PnL is counted in Whole-ths of the entry price (the code:      *)
(* 1e4), without the noise of doubles; the metrics are rounded as the code *)
(* rounds them before they are compared.  There is one asset; a run with   *)
(* another one is refused before it starts.                                *)
(***************************************************************************)
EXTENDS Integers, Sequences, FiniteSetsExt, Functions

CONSTANTS
  Windows,       \* the periods that are exported: start and end
  Published,     \* external: datasets to pull: period, snapshots, prices
  MaxWrites,     \* bound: how often the folder is written, each time from something else
  Step,          \* step_minutes
  Minute,        \* length of a minute
  Prices,        \* closing prices
  Signals,       \* what predict may return: direction, edge and horizon
  MaxEdge,       \* the validator of edge_bps: 1000
  MinEdge,       \* min_edge_bps
  Cost,          \* 2 * slippage_bps + fee_bps
  Whole,
  TradesPerYear, \* 252 * 10
  SharpeUnit,    \* steps of a Sharpe that is shown: 1000, for three digits
  DrawdownUnit,  \* steps of a drawdown that is shown: 10000, for four
  Caps           \* max_predictions, 0 for none

ASSUME BacktestConstants ==
  /\ \A w \in Windows : w.start \in Nat /\ w.end \in Nat /\ w.start <= w.end
  /\ \A d \in Published :
       /\ d.period.start \in Nat /\ d.snapshots \subseteq Nat
       /\ \A t \in DOMAIN d.prices :
            t % Minute = 0 /\ d.period.start <= t /\ t <= d.period.end /\ d.prices[t] \in Nat \ {0}
  /\ MaxWrites \in Nat
  /\ {Step, Minute, Whole, TradesPerYear} \subseteq Nat \ {0}
  /\ Prices \subseteq Nat \ {0}
  /\ \A s \in Signals : s.edge \in Int /\ s.horizon \in Nat \ {0}
  /\ \A u \in {SharpeUnit, DrawdownUnit} : u \in Nat \ {0} /\ u % 10 = 0
  /\ {MinEdge, MaxEdge, Cost} \subseteq Nat
  /\ Caps \subseteq Nat

VARIABLES
  snapshots,  \* the files of snapshots/
  prices,     \* prices/{asset}.csv: minute -> close
  hasPrices,  \* whether that file exists
  manifest,   \* {} or the period in manifest.json
  exporter,   \* where the export is, or "extracting" for a pull
  window,     \* the period it exports
  cursor,     \* its snapshot, or its row of the price file
  left,       \* {} or the published dataset, and of it the files to extract
  written,    \* bound: what it was begun to be written from
  whole,      \* history: the last write begun was completed
  run,        \* where the backtest is
  todo,       \* the snapshots it has not seen
  cap,        \* its max_predictions
  predictions,
  index,      \* _price_index: {} or the prices it read
  period,     \* the period of the manifest it loaded
  trades,
  clean,      \* history: no write was at work or unfinished since it started
  passes      \* what it says of the thresholds

folderVars == <<snapshots, prices, hasPrices, manifest, whole>>
exportVars == <<exporter, window, cursor, left, written>>
runVars == <<run, todo, cap, predictions, index, period, trades, passes>>
vars == <<folderVars, exportVars, runVars, clean>>

NoWindow == [start |-> 0, end |-> 0]
Floor(t) == (t \div Minute) * Minute
Ceiling(t) == Floor(t + Minute - 1)

\* A bound.
MayWrite(from) == from \notin written /\ Cardinality(written) < MaxWrites

-----------------------------------------------------------------------------
(* DatasetBuilder.export                                                   *)

Begin(w) ==
  /\ exporter = "idle" /\ MayWrite(w)
  /\ exporter' = "snapshots" /\ window' = w /\ cursor' = w.start
  /\ written' = written \cup {w}
  /\ whole' = FALSE /\ clean' = FALSE
  /\ UNCHANGED <<snapshots, prices, hasPrices, manifest, left, runVars>>

\* A snapshot that cannot be built is skipped: an older file stays.
Snapshot ==
  /\ exporter = "snapshots" /\ cursor <= window.end
  /\ snapshots' \in {snapshots, snapshots \cup {cursor}}
  /\ cursor' = cursor + Step
  /\ UNCHANGED <<prices, hasPrices, manifest, whole, exporter, window, left, written, runVars, clean>>

\* Mutant of OpenPrices: the rows are appended to those of an earlier export.
AppendPrices ==
  /\ exporter = "snapshots" /\ cursor > window.end
  /\ exporter' = "prices" /\ cursor' = Ceiling(window.start)
  /\ hasPrices' = TRUE
  /\ UNCHANGED <<snapshots, prices, manifest, whole, window, left, written, runVars, clean>>

\* The rows have been fetched and the file is opened for writing.
OpenPrices ==
  /\ exporter = "snapshots" /\ cursor > window.end
  /\ exporter' = "prices" /\ cursor' = Ceiling(window.start)
  /\ prices' = <<>> /\ hasPrices' = TRUE
  /\ UNCHANGED <<snapshots, manifest, whole, window, left, written, runVars, clean>>

\* A row for each minute of the period the warehouse has.
PriceRow ==
  /\ exporter = "prices" /\ cursor <= window.end
  /\ \/ UNCHANGED prices
     \/ \E p \in Prices :
          prices' = [t \in DOMAIN prices \cup {cursor} |-> IF t = cursor THEN p ELSE prices[t]]
  /\ cursor' = cursor + Minute
  /\ UNCHANGED <<snapshots, hasPrices, manifest, whole, exporter, window, left, written,
                 runVars, clean>>

WriteManifest ==
  /\ exporter = "prices" /\ cursor > window.end
  /\ manifest' = {window}
  /\ exporter' = "idle" /\ window' = NoWindow /\ cursor' = 0
  /\ whole' = TRUE
  /\ UNCHANGED <<snapshots, prices, hasPrices, left, written, runVars, clean>>

\* The database, the disk, the archive or the process fails.
Fail ==
  /\ exporter # "idle"
  /\ exporter' = "idle" /\ window' = NoWindow /\ cursor' = 0 /\ left' = {}
  /\ UNCHANGED <<folderVars, written, runVars, clean>>

-----------------------------------------------------------------------------
(* echo-cli dataset pull                                                   *)

Files == {"manifest.json", "prices"}

\* The archive has been downloaded and is extracted over the folder.
Pull(d) ==
  /\ exporter = "idle" /\ MayWrite(d)
  /\ exporter' = "extracting"
  /\ left' = {[dataset |-> d, snapshots |-> d.snapshots, files |-> Files]}
  /\ written' = written \cup {d}
  /\ whole' = FALSE /\ clean' = FALSE
  /\ UNCHANGED <<snapshots, prices, hasPrices, manifest, window, cursor, runVars>>

ExtractSnapshot ==
  \E rest \in left : \E t \in rest.snapshots :
    /\ snapshots' = snapshots \cup {t}
    /\ left' = {[rest EXCEPT !.snapshots = @ \ {t}]}
    /\ UNCHANGED <<prices, hasPrices, manifest, whole, exporter, window, cursor, written, runVars,
                   clean>>

ExtractFile ==
  \E rest \in left : \E f \in rest.files :
    /\ \/ /\ f = "prices" /\ prices' = rest.dataset.prices /\ hasPrices' = TRUE
          /\ UNCHANGED manifest
       \/ /\ f = "manifest.json" /\ manifest' = {rest.dataset.period}
          /\ UNCHANGED <<prices, hasPrices>>
    /\ left' = {[rest EXCEPT !.files = @ \ {f}]}
    /\ UNCHANGED <<snapshots, whole, exporter, window, cursor, written, runVars, clean>>

Pulled ==
  /\ \E rest \in left : rest.snapshots = {} /\ rest.files = {}
  /\ exporter' = "idle" /\ left' = {} /\ whole' = TRUE
  /\ UNCHANGED <<snapshots, prices, hasPrices, manifest, window, cursor, written, runVars, clean>>

-----------------------------------------------------------------------------
(* run_backtest                                                            *)

\* CanonicalDataset.load, and the glob of iter_inputs.
Load ==
  /\ run = "new" /\ manifest # {}
  /\ run' = "running"
  /\ period' \in manifest
  /\ todo' = snapshots
  /\ cap' \in Caps
  /\ clean' = whole
  /\ UNCHANGED <<folderVars, exportVars, predictions, index, trades, passes>>

\* Mutant of PricesOf: the file is read for every trade.
PricesNow == prices

\* The price file, which is read when a trade first needs it.
PricesOf == IF index = {} THEN prices ELSE CHOOSE file \in index : TRUE

EntryOf(t) == Floor(t)
ExitOf(t, horizon) == Floor(EntryOf(t) + horizon)

Gain(entry, exit) == (Whole * (exit - entry)) \div entry

Trade(t, signal, file) ==
  LET gain == Gain(file[EntryOf(t)], file[ExitOf(t, signal.horizon)])
  IN [ts |-> t, horizon |-> signal.horizon,
      entry |-> EntryOf(t), exit |-> ExitOf(t, signal.horizon),
      pnl |-> (IF signal.direction = "short" THEN -gain ELSE gain) - Cost]

\* abs(edge_bps)
Size(signal) == Max({signal.edge, -signal.edge})

Traded(signal) == signal.direction # "neutral" /\ Size(signal) >= MinEdge

NextOf(times) == Min(times)

Going == run = "running" /\ todo # {} /\ (cap = 0 \/ predictions < cap)

\* predict, the filters and resolve_outcome, which needs both prices.
Predict(signal) ==
  LET t == NextOf(todo)
      file == PricesOf
      priced == {EntryOf(t), ExitOf(t, signal.horizon)} \subseteq DOMAIN file
  IN
  /\ Going /\ Size(signal) <= MaxEdge
  /\ todo' = todo \ {t} /\ predictions' = predictions + 1
  /\ \/ ~Traded(signal) /\ UNCHANGED <<index, trades>>
     \/ /\ Traded(signal) /\ (index # {} \/ hasPrices)
        /\ index' = {file}
        /\ trades' = IF priced THEN Append(trades, Trade(t, signal, file)) ELSE trades
  /\ UNCHANGED <<folderVars, exportVars, run, cap, period, passes, clean>>

\* The signal is refused by its validator, or there is no price file.
Abort ==
  /\ Going
  /\ \E signal \in Signals :
       Size(signal) > MaxEdge \/ (Traded(signal) /\ index = {} /\ ~hasPrices)
  /\ run' = "failed"
  /\ UNCHANGED <<folderVars, exportVars, todo, cap, predictions, index, period, trades, passes,
                 clean>>

-----------------------------------------------------------------------------
(* compute_metrics and the thresholds of echo-cli backtest                 *)

Pnl(log) == [i \in DOMAIN log |-> log[i].pnl]
Equity(log) == [i \in DOMAIN log |-> SumFunction(SubSeq(Pnl(log), 1, i))]
Peak(curve, i) == Max({curve[k] : k \in 1 .. i})

\* Mutant of MaxDrawdown: how far the curve ends below its peak.
FinalDrawdown(curve) == Peak(curve, Len(curve)) - curve[Len(curve)]

MaxDrawdown(curve) == Max({Peak(curve, i) - curve[i] : i \in DOMAIN curve})

\* round(sharpe, 3) >= 1: half a step less is enough, a tie goes to the even
\* digit.  Squared, with mean and deviation of the n PnLs as whole numbers.
SharpeShownAtLeastOne(log) ==
  LET n == Len(log)
      sum == SumFunction(Pnl(log))
      squares == SumFunction([i \in DOMAIN log |-> log[i].pnl * log[i].pnl])
      spread == n * squares - sum * sum
  IN /\ n > 1 /\ spread > 0 /\ sum > 0
     /\ TradesPerYear * (n - 1) * sum * sum * (2 * SharpeUnit) * (2 * SharpeUnit)
          >= n * spread * (2 * SharpeUnit - 1) * (2 * SharpeUnit - 1)

\* round(max_drawdown_pct, 4) <= 0.20: up to half a step more than a fifth is
\* enough.  A curve that never rises above 0 has no drawdown.
DrawdownShownAtMostFifth(log) ==
  LET curve == Equity(log)
      top == Peak(curve, Len(curve))
  IN top <= 0 \/ 10 * DrawdownUnit * MaxDrawdown(curve) <= (2 * DrawdownUnit + 5) * top

Passes(log) == log # <<>> /\ SharpeShownAtLeastOne(log) /\ DrawdownShownAtMostFifth(log)

Finish ==
  /\ run = "running" /\ ~Going
  /\ run' = "done" /\ passes' = Passes(trades)
  /\ UNCHANGED <<folderVars, exportVars, todo, cap, predictions, index, period, trades, clean>>

-----------------------------------------------------------------------------

Init ==
  /\ snapshots = {} /\ prices = <<>> /\ hasPrices = FALSE /\ manifest = {}
  /\ exporter = "idle" /\ window = NoWindow /\ cursor = 0 /\ left = {} /\ written = {}
  /\ whole = FALSE
  /\ run = "new" /\ todo = {} /\ cap = 0 /\ predictions = 0 /\ index = {} /\ period = NoWindow
  /\ trades = <<>> /\ clean = FALSE /\ passes = FALSE

Exporting ==
  \/ \E w \in Windows : Begin(w)
  \/ Snapshot \/ OpenPrices \/ PriceRow \/ WriteManifest \/ Fail

Pulling == (\E d \in Published : Pull(d)) \/ ExtractSnapshot \/ ExtractFile \/ Pulled

Next ==
  \/ Exporting \/ Pulling
  \/ Load \/ (\E signal \in Signals : Predict(signal)) \/ Abort \/ Finish

Spec == Init /\ [][Next]_vars

-----------------------------------------------------------------------------
(* Properties                                                              *)

\* The files an earlier write left behind trade nothing: in a folder whose
\* last write was completed, a run trades within the period of its manifest,
\* whatever snapshots it meets (dataset.py:102 writes the prices anew, and a
\* pull replaces them).
TradesInPeriod ==
  clean => \A i \in DOMAIN trades :
    period.start <= trades[i].entry /\ trades[i].exit <= period.end

\* Whether a row of the log is what one file of prices makes of its two fills.
FilledFrom(row, file) ==
  /\ {row.entry, row.exit} \subseteq DOMAIN file
  /\ LET gain == Gain(file[row.entry], file[row.exit])
     IN row.pnl + Cost \in {gain, -gain}

\* A run is judged on one history: exports and pulls may write the price file
\* over at any moment, yet all the trades of a log are filled from one reading
\* of it, and follow one another in time (dataset.py:68-93, runner.py:98-138).
OneHistory ==
  /\ \A i \in DOMAIN trades : i > 1 => trades[i - 1].ts < trades[i].ts
  /\ trades # <<>> => \E file \in index : \A i \in DOMAIN trades : FilledFrom(trades[i], file)

\* A model that passes has earned money after costs, and between no two trades
\* lost more of the most it ever had than is shown as a fifth: in the code
\* 20.005 % (metrics.py:34-57, :74, :80, cli/commands/backtest.py:65-71).
PassedHasEarned ==
  passes =>
    LET curve == Equity(trades) IN
    /\ curve[Len(curve)] > 0
    /\ \A i, j \in DOMAIN curve :
         i <= j => 10 * DrawdownUnit * (curve[i] - curve[j])
                     <= (2 * DrawdownUnit + 5) * Peak(curve, Len(curve))
=============================================================================
