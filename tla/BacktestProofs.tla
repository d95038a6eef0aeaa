--------------------------- MODULE BacktestProofs ---------------------------
(***************************************************************************)
(* Theorems about Backtest, for every set of periods, published datasets,  *)
(* prices and signals.                                                     *)
(***************************************************************************)
EXTENDS Backtest, SumLemmas, SequenceTheorems

-----------------------------------------------------------------------------
(* Minutes                                                                 *)

\* A moment is in the minute it is floored to.
LEMMA FloorIsBelow ==
  ASSUME NEW t \in Int
  PROVE  Floor(t) \in Int /\ Floor(t) <= t /\ t < Floor(t) + Minute
<1> DEFINE M == Minute
           p == t \div M
<1>1. M \in Nat \ {0}
  BY BacktestConstants
<1> HIDE DEF M
<1>2. p \in Int /\ t = M * p + (t % M) /\ (t % M) \in 0 .. M - 1
  BY <1>1
<1>3. Floor(t) = p * M
  BY DEF Floor, M
<1> HIDE DEF p
<1>4. p * M = M * p /\ M * p \in Int
  BY <1>1, <1>2
<1>5. QED
  BY <1>1, <1>2, <1>3, <1>4 DEF M

\* The first minute of a period does not begin before it.
LEMMA CeilingIsAbove ==
  ASSUME NEW t \in Int
  PROVE  Ceiling(t) \in Int /\ t <= Ceiling(t)
<1>1. Minute \in Nat \ {0}
  BY BacktestConstants
<1> DEFINE u == t + Minute - 1
<1>2. u \in Int
  BY <1>1
<1>3. Ceiling(t) = Floor(u)
  BY DEF Ceiling
<1>4. Floor(u) \in Int /\ u < Floor(u) + Minute
  BY <1>2, FloorIsBelow
<1>5. QED
  BY <1>1, <1>3, <1>4

-----------------------------------------------------------------------------
(* Types                                                                   *)

Archives == [dataset : Published, snapshots : SUBSET Nat, files : SUBSET Files]
Row == [ts : Int, horizon : Nat, entry : Int, exit : Int, pnl : Int]

\* Prices to divide by.
Positive(f) == \A t \in DOMAIN f : f[t] \in Nat \ {0}

TimeTypes ==
  /\ snapshots \subseteq Int /\ IsFiniteSet(snapshots)
  /\ todo \subseteq Int /\ IsFiniteSet(todo)
  /\ cursor \in Int /\ window.start \in Int /\ window.end \in Int
  /\ left \subseteq Archives

PriceTypes == Positive(prices) /\ \A f \in index : Positive(f)

Typed == TimeTypes /\ PriceTypes /\ trades \in Seq(Row)

\* At the start the types hold: nothing has been written and nothing is traded.
LEMMA TypedInit == Init => Typed
<1> SUFFICES ASSUME Init PROVE Typed
  OBVIOUS
<1>1. TimeTypes
  BY FS_EmptySet DEF Init, TimeTypes, NoWindow
<1>2. PriceTypes
  BY DEF Init, PriceTypes, Positive
<1>3. trades \in Seq(Row)
  BY EmptySeq DEF Init
<1>4. QED
  BY <1>1, <1>2, <1>3 DEF Typed

\* The next snapshot is the earliest there is.
LEMMA NextIsLeast ==
  ASSUME NEW S, S \subseteq Int, IsFiniteSet(S), S # {}
  PROVE  NextOf(S) \in S /\ \A u \in S : NextOf(S) <= u
BY LeastExists DEF NextOf, Min

\* A trade is a row, when there are prices for it.
LEMMA TradeTyped ==
  ASSUME NEW t \in Int, NEW signal \in Signals, NEW file, Positive(file),
         {EntryOf(t), ExitOf(t, signal.horizon)} \subseteq DOMAIN file
  PROVE  /\ Trade(t, signal, file) \in Row
         /\ Trade(t, signal, file).ts = t
         /\ Trade(t, signal, file).horizon = signal.horizon
         /\ Trade(t, signal, file).entry = EntryOf(t)
         /\ Trade(t, signal, file).exit = ExitOf(t, signal.horizon)
         /\ FilledFrom(Trade(t, signal, file), file)
<1> DEFINE entry == file[EntryOf(t)]
           exit == file[ExitOf(t, signal.horizon)]
           gain == Gain(entry, exit)
           pnl == (IF signal.direction = "short" THEN -gain ELSE gain) - Cost
<1>1. signal.horizon \in Nat /\ Whole \in Nat /\ Cost \in Nat
  BY BacktestConstants
<1>2. entry \in Nat \ {0} /\ exit \in Nat \ {0}
  BY DEF Positive
<1>3. EntryOf(t) \in Int /\ ExitOf(t, signal.horizon) \in Int
  <2>1. EntryOf(t) \in Int
    BY FloorIsBelow DEF EntryOf
  <2>2. EntryOf(t) + signal.horizon \in Int
    BY <1>1, <2>1
  <2>3. QED
    BY <2>1, <2>2, FloorIsBelow DEF ExitOf
<1>4. Trade(t, signal, file)
        = [ts |-> t, horizon |-> signal.horizon, entry |-> EntryOf(t),
           exit |-> ExitOf(t, signal.horizon), pnl |-> pnl]
  BY DEF Trade
<1>5. pnl \in Int /\ pnl + Cost \in {gain, -gain}
  <2> HIDE DEF entry, exit
  <2>1. Whole * (exit - entry) \in Int
    BY <1>1, <1>2
  <2>2. gain \in Int
    BY <1>2, <2>1 DEF Gain
  <2> HIDE DEF gain
  <2>3. QED
    BY <1>1, <2>2
<1> HIDE DEF pnl
<1>6. FilledFrom(Trade(t, signal, file), file)
  BY <1>4, <1>5 DEF FilledFrom
<1>7. QED
  BY <1>1, <1>3, <1>4, <1>5, <1>6 DEF Row

\* What a prediction does to the log and to the prices read: it adds the trade
\* of the earliest snapshot at the prices of the file, or nothing.
LEMMA PredictDoes ==
  ASSUME Typed, NEW signal \in Signals, Predict(signal)
  PROVE  \E t \in todo : \E file :
           /\ \A u \in todo : t <= u
           /\ todo' = todo \ {t}
           /\ run = "running"
           /\ file = prices \/ file \in index
           /\ index # {} => file \in index
           /\ index' = index \/ index' = {file}
           /\ \/ trades' = trades
              \/ /\ {EntryOf(t), ExitOf(t, signal.horizon)} \subseteq DOMAIN file
                 /\ trades' = Append(trades, Trade(t, signal, file))
                 /\ index' = {file}
<1> DEFINE t == NextOf(todo)
           file == PricesOf
<1>1. todo # {} /\ run = "running"
  BY DEF Predict, Going
<1>2. t \in todo /\ \A u \in todo : t <= u
  BY <1>1, NextIsLeast DEF Typed, TimeTypes
<1>3. (file = prices \/ file \in index) /\ (index # {} => file \in index)
  BY DEF PricesOf
<1>4. /\ todo' = todo \ {t}
      /\ index' = index \/ index' = {file}
      /\ \/ trades' = trades
         \/ /\ {EntryOf(t), ExitOf(t, signal.horizon)} \subseteq DOMAIN file
            /\ trades' = Append(trades, Trade(t, signal, file))
            /\ index' = {file}
  BY DEF Predict
<1> HIDE DEF t, file
<1>5. QED
  BY <1>1, <1>2, <1>3, <1>4

\* An archive of which a part has been extracted.
LEMMA ArchivePart ==
  ASSUME NEW rest \in Archives, NEW T \in SUBSET Nat, NEW F \in SUBSET Files
  PROVE  /\ [rest EXCEPT !.snapshots = T] \in Archives
         /\ [rest EXCEPT !.files = F] \in Archives
BY DEF Archives

\* Every step keeps the types.
LEMMA TypedStep == Typed /\ [Next]_vars => Typed'
<1> SUFFICES ASSUME Typed, [Next]_vars PROVE Typed'
  OBVIOUS
<1> USE DEF Typed
<1>1. CASE UNCHANGED vars
  BY <1>1 DEF vars, folderVars, exportVars, runVars, TimeTypes, PriceTypes, Positive
<1>2. ASSUME NEW w \in Windows, Begin(w) PROVE Typed'
  <2>1. w.start \in Int /\ w.end \in Int
    BY BacktestConstants
  <2>2. QED
    BY <1>2, <2>1 DEF Begin, runVars, TimeTypes, PriceTypes, Positive
<1>3. CASE Snapshot
  <2>1. Step \in Int
    BY BacktestConstants
  <2>2. IsFiniteSet(snapshots \cup {cursor})
    BY FS_AddElement DEF TimeTypes
  <2>3. IsFiniteSet(snapshots') /\ snapshots' \subseteq Int
    BY <1>3, <2>2 DEF Snapshot, TimeTypes
  <2>4. QED
    BY <1>3, <2>1, <2>3 DEF Snapshot, runVars, TimeTypes, PriceTypes, Positive
<1>4. CASE OpenPrices
  <2>1. Ceiling(window.start) \in Int
    BY CeilingIsAbove DEF TimeTypes
  <2>2. QED
    BY <1>4, <2>1 DEF OpenPrices, runVars, TimeTypes, PriceTypes, Positive
<1>5. CASE PriceRow
  <2>1. Minute \in Int /\ Prices \subseteq Nat \ {0}
    BY BacktestConstants
  <2>2. Positive(prices')
    BY <1>5, <2>1 DEF PriceRow, PriceTypes, Positive
  <2>3. QED
    BY <1>5, <2>1, <2>2 DEF PriceRow, runVars, TimeTypes, PriceTypes, Positive
<1>6. CASE WriteManifest
  BY <1>6 DEF WriteManifest, runVars, TimeTypes, PriceTypes, Positive, NoWindow
<1>7. CASE Fail
  BY <1>7 DEF Fail, folderVars, runVars, TimeTypes, PriceTypes, Positive, NoWindow
<1>8. ASSUME NEW d \in Published, Pull(d) PROVE Typed'
  <2>1. [dataset |-> d, snapshots |-> d.snapshots, files |-> Files] \in Archives
    BY BacktestConstants DEF Archives
  <2>2. QED
    BY <1>8, <2>1 DEF Pull, runVars, TimeTypes, PriceTypes, Positive
<1>9. CASE ExtractSnapshot
  <2>1. PICK rest \in left : \E t \in rest.snapshots :
          /\ snapshots' = snapshots \cup {t}
          /\ left' = {[rest EXCEPT !.snapshots = @ \ {t}]}
    BY <1>9 DEF ExtractSnapshot
  <2>2. PICK t \in rest.snapshots :
          /\ snapshots' = snapshots \cup {t}
          /\ left' = {[rest EXCEPT !.snapshots = @ \ {t}]}
    BY <2>1
  <2>3. rest \in Archives /\ rest.snapshots \ {t} \in SUBSET Nat /\ t \in Int
    BY DEF TimeTypes, Archives
  <2>4. left' \subseteq Archives
    BY <2>2, <2>3, ArchivePart
  <2>5. IsFiniteSet(snapshots') /\ snapshots' \subseteq Int
    BY <2>2, <2>3, FS_AddElement DEF TimeTypes
  <2>6. QED
    BY <1>9, <2>4, <2>5 DEF ExtractSnapshot, runVars, TimeTypes, PriceTypes, Positive
<1>10. CASE ExtractFile
  <2>1. PICK rest \in left : \E f \in rest.files :
          /\ prices' = prices \/ prices' = rest.dataset.prices
          /\ left' = {[rest EXCEPT !.files = @ \ {f}]}
    BY <1>10 DEF ExtractFile
  <2>2. rest \in Archives /\ rest.dataset \in Published
    BY DEF TimeTypes, Archives
  <2>3. left' \subseteq Archives
    <3>1. PICK f \in rest.files : left' = {[rest EXCEPT !.files = @ \ {f}]}
      BY <2>1
    <3>2. rest.files \ {f} \in SUBSET Files
      BY <2>2 DEF Archives
    <3>3. QED
      BY <2>2, <3>1, <3>2, ArchivePart
  <2>4. Positive(prices')
    BY <2>1, <2>2, BacktestConstants DEF Positive, PriceTypes
  <2>5. QED
    BY <1>10, <2>3, <2>4 DEF ExtractFile, runVars, TimeTypes, PriceTypes, Positive
<1>11. CASE Pulled
  BY <1>11 DEF Pulled, runVars, TimeTypes, PriceTypes, Positive
<1>12. CASE Load
  BY <1>12 DEF Load, folderVars, exportVars, TimeTypes, PriceTypes, Positive
<1>13. ASSUME NEW signal \in Signals, Predict(signal) PROVE Typed'
  <2>1. PICK t \in todo : \E file :
           /\ todo' = todo \ {t}
           /\ file = prices \/ file \in index
           /\ index' = index \/ index' = {file}
           /\ \/ trades' = trades
              \/ /\ {EntryOf(t), ExitOf(t, signal.horizon)} \subseteq DOMAIN file
                 /\ trades' = Append(trades, Trade(t, signal, file))
    BY <1>13, PredictDoes
  <2>2. PICK file :
           /\ todo' = todo \ {t}
           /\ file = prices \/ file \in index
           /\ index' = index \/ index' = {file}
           /\ \/ trades' = trades
              \/ /\ {EntryOf(t), ExitOf(t, signal.horizon)} \subseteq DOMAIN file
                 /\ trades' = Append(trades, Trade(t, signal, file))
    BY <2>1
  <2>3. Positive(file) /\ t \in Int
    BY <2>2 DEF PriceTypes, TimeTypes
  <2>4. trades' \in Seq(Row)
    BY <2>2, <2>3, TradeTyped, AppendProperties
  <2>5. todo' \subseteq Int /\ IsFiniteSet(todo')
    BY <2>2, FS_RemoveElement DEF TimeTypes
  <2>6. \A f \in index' : Positive(f)
    BY <2>2, <2>3 DEF PriceTypes
  <2>7. UNCHANGED <<folderVars, exportVars>>
    BY <1>13 DEF Predict
  <2>8. QED
    BY <2>4, <2>5, <2>6, <2>7 DEF TimeTypes, PriceTypes, Positive, folderVars, exportVars
<1>14. CASE Abort
  BY <1>14 DEF Abort, folderVars, exportVars, TimeTypes, PriceTypes, Positive
<1>15. CASE Finish
  BY <1>15 DEF Finish, folderVars, exportVars, TimeTypes, PriceTypes, Positive
<1> HIDE DEF Typed
<1>16. QED
  BY <1>1, <1>2, <1>3, <1>4, <1>5, <1>6, <1>7, <1>8, <1>9, <1>10, <1>11, <1>12, <1>13, <1>14, <1>15
     DEF Next, Exporting, Pulling

-----------------------------------------------------------------------------
(* Trades are filled from one reading of the prices                        *)

\* Each trade came before every later one and every snapshot that is still to
\* be seen.
InOrder ==
  \A i \in DOMAIN trades :
    /\ trades[i].ts \in Int
    /\ \A u \in todo : trades[i].ts < u
    /\ \A j \in DOMAIN trades : j < i => trades[j].ts < trades[i].ts

OrderInv == InOrder /\ (run = "new" => trades = <<>>)

\* An empty log is in order.
LEMMA OrderInit == Init => OrderInv
BY DEF Init, OrderInv, InOrder

\* A trade appended to the log comes after all others.
LEMMA OrderPredict ==
  ASSUME Typed, OrderInv, NEW signal \in Signals, Predict(signal)
  PROVE  OrderInv'
<1>1. PICK t \in todo : \E file :
           /\ \A u \in todo : t <= u
           /\ todo' = todo \ {t}
           /\ run = "running"
           /\ file = prices \/ file \in index
           /\ \/ trades' = trades
              \/ /\ {EntryOf(t), ExitOf(t, signal.horizon)} \subseteq DOMAIN file
                 /\ trades' = Append(trades, Trade(t, signal, file))
  BY PredictDoes
<1>2. PICK file :
           /\ \A u \in todo : t <= u
           /\ todo' = todo \ {t}
           /\ run = "running"
           /\ file = prices \/ file \in index
           /\ \/ trades' = trades
              \/ /\ {EntryOf(t), ExitOf(t, signal.horizon)} \subseteq DOMAIN file
                 /\ trades' = Append(trades, Trade(t, signal, file))
  BY <1>1
<1>3. Positive(file) /\ t \in Int /\ todo \subseteq Int
  BY <1>2 DEF Typed, PriceTypes, TimeTypes
<1>4. run' = "running"
  BY <1>2 DEF Predict
<1>5. ASSUME trades' = trades PROVE InOrder'
  BY <1>2, <1>5 DEF OrderInv, InOrder
<1>6. ASSUME {EntryOf(t), ExitOf(t, signal.horizon)} \subseteq DOMAIN file,
             trades' = Append(trades, Trade(t, signal, file))
      PROVE  InOrder'
  <2> DEFINE row == Trade(t, signal, file)
             n == Len(trades)
  <2>1. row \in Row /\ row.ts = t
    BY <1>3, <1>6, TradeTyped
  <2> HIDE DEF row
  <2>3. trades \in Seq(Row) /\ n \in Nat /\ DOMAIN trades = 1 .. n
    BY DEF Typed
  <2>4. /\ DOMAIN trades' = 1 .. n + 1
        /\ trades'[n + 1] = row
        /\ \A i \in 1 .. n : trades'[i] = trades[i]
    BY <1>6, <2>1, <2>3, AppendProperties DEF row
  <2>5. ASSUME NEW i \in 1 .. n
        PROVE  /\ trades'[i].ts \in Int
               /\ trades'[i].ts < t
               /\ \A u \in todo' : trades'[i].ts < u
               /\ \A j \in DOMAIN trades' : j < i => trades'[j].ts < trades'[i].ts
    <3>1. trades'[i] = trades[i] /\ i \in DOMAIN trades
      BY <2>3, <2>4
    <3>2. /\ trades[i].ts \in Int
          /\ \A u \in todo : trades[i].ts < u
          /\ \A j \in DOMAIN trades : j < i => trades[j].ts < trades[i].ts
      BY <3>1 DEF OrderInv, InOrder
    <3>3. ASSUME NEW j \in DOMAIN trades', j < i PROVE trades'[j].ts < trades'[i].ts
      <4>1. j \in 1 .. n
        BY <2>3, <2>4, <3>3
      <4>2. QED
        BY <2>3, <2>4, <3>1, <3>2, <3>3, <4>1
    <3>4. QED
      BY <1>2, <3>1, <3>2, <3>3
  <2>6. \A u \in todo' : t < u
    BY <1>2, <1>3
  <2>7. ASSUME NEW i \in DOMAIN trades'
        PROVE  /\ trades'[i].ts \in Int
               /\ \A u \in todo' : trades'[i].ts < u
               /\ \A j \in DOMAIN trades' : j < i => trades'[j].ts < trades'[i].ts
    <3>1. CASE i \in 1 .. n
      BY <2>5, <3>1
    <3>2. CASE i = n + 1
      <4>1. trades'[i] = row
        BY <2>4, <3>2
      <4>2. \A j \in DOMAIN trades' : j < i => trades'[j].ts < t
        BY <2>3, <2>4, <2>5, <3>2
      <4>3. QED
        BY <1>3, <2>1, <2>6, <4>1, <4>2
    <3>3. QED
      BY <2>3, <2>4, <3>1, <3>2
  <2>8. QED
    BY <2>7 DEF InOrder
<1>7. QED
  BY <1>2, <1>4, <1>5, <1>6 DEF OrderInv

\* No step disturbs the order: only Predict writes the log, and writers touch no run.
LEMMA OrderStep == Typed /\ OrderInv /\ [Next]_vars => OrderInv'
<1> SUFFICES ASSUME Typed, OrderInv, [Next]_vars PROVE OrderInv'
  OBVIOUS
<1>1. CASE UNCHANGED <<run, todo, trades>>
  BY <1>1 DEF OrderInv, InOrder
<1>2. CASE Load
  BY <1>2 DEF Load, OrderInv, InOrder
<1>3. CASE \E signal \in Signals : Predict(signal)
  BY <1>3, OrderPredict
<1>4. CASE Abort \/ Finish
  BY <1>4 DEF Abort, Finish, OrderInv, InOrder
<1>5. UNCHANGED vars => UNCHANGED <<run, todo, trades>>
  BY DEF vars, runVars
<1>6. Exporting \/ Pulling => UNCHANGED <<run, todo, trades>>
  BY DEF Exporting, Pulling, Begin, Snapshot, OpenPrices, PriceRow, WriteManifest, Fail, Pull,
         ExtractSnapshot, ExtractFile, Pulled, runVars
<1>7. QED
  BY <1>1, <1>2, <1>3, <1>4, <1>5, <1>6 DEF Next

\* There is at most one reading of the price file, and every trade is filled from it.
HistoryInv ==
  /\ \A f, g \in index : f = g
  /\ \A i \in DOMAIN trades : \E f \in index : FilledFrom(trades[i], f)

\* At the start nothing has been read.
LEMMA HistoryInit == Init => HistoryInv
BY DEF Init, HistoryInv

\* A trade is filled from the reading there is, or makes the first.
LEMMA HistoryPredict ==
  ASSUME Typed, HistoryInv, NEW signal \in Signals, Predict(signal)
  PROVE  HistoryInv'
<1>1. PICK t \in todo : \E file :
           /\ file = prices \/ file \in index
           /\ index # {} => file \in index
           /\ index' = index \/ index' = {file}
           /\ \/ trades' = trades
              \/ /\ {EntryOf(t), ExitOf(t, signal.horizon)} \subseteq DOMAIN file
                 /\ trades' = Append(trades, Trade(t, signal, file))
                 /\ index' = {file}
  BY PredictDoes
<1>2. PICK file :
           /\ file = prices \/ file \in index
           /\ index # {} => file \in index
           /\ index' = index \/ index' = {file}
           /\ \/ trades' = trades
              \/ /\ {EntryOf(t), ExitOf(t, signal.horizon)} \subseteq DOMAIN file
                 /\ trades' = Append(trades, Trade(t, signal, file))
                 /\ index' = {file}
  BY <1>1
<1>3. Positive(file) /\ t \in Int
  BY <1>2 DEF Typed, PriceTypes, TimeTypes
<1>4. (\A f, g \in index' : f = g) /\ index \subseteq index'
  BY <1>2 DEF HistoryInv
<1>5. \A i \in DOMAIN trades : \E f \in index' : FilledFrom(trades[i], f)
  BY <1>4 DEF HistoryInv
<1>6. ASSUME {EntryOf(t), ExitOf(t, signal.horizon)} \subseteq DOMAIN file,
             trades' = Append(trades, Trade(t, signal, file)), file \in index'
      PROVE  HistoryInv'
  <2> DEFINE row == Trade(t, signal, file)
             n == Len(trades)
  <2>1. row \in Row /\ FilledFrom(row, file)
    BY <1>3, <1>6, TradeTyped
  <2> HIDE DEF row
  <2>2. trades \in Seq(Row) /\ n \in Nat /\ DOMAIN trades = 1 .. n
    BY DEF Typed
  <2>3. /\ DOMAIN trades' = 1 .. n + 1
        /\ trades'[n + 1] = row
        /\ \A i \in 1 .. n : trades'[i] = trades[i]
    BY <1>6, <2>1, <2>2, AppendProperties DEF row
  <2>4. ASSUME NEW i \in 1 .. n + 1 PROVE \E f \in index' : FilledFrom(trades'[i], f)
    <3>1. i = n + 1 => trades'[i] = row
      BY <2>3
    <3>2. i # n + 1 => trades'[i] = trades[i] /\ i \in DOMAIN trades
      BY <2>2, <2>3
    <3>3. QED
      BY <1>5, <1>6, <2>1, <3>1, <3>2
  <2>5. QED
    BY <1>4, <2>3, <2>4 DEF HistoryInv
<1>7. ASSUME trades' = trades PROVE HistoryInv'
  BY <1>4, <1>5, <1>7 DEF HistoryInv
<1>8. QED
  BY <1>2, <1>6, <1>7

\* Writers touch neither what has been read nor the log.
LEMMA HistoryStep == Typed /\ HistoryInv /\ [Next]_vars => HistoryInv'
<1> SUFFICES ASSUME Typed, HistoryInv, [Next]_vars PROVE HistoryInv'
  OBVIOUS
<1>1. CASE UNCHANGED <<index, trades>>
  BY <1>1 DEF HistoryInv
<1>2. CASE \E signal \in Signals : Predict(signal)
  BY <1>2, HistoryPredict
<1>3. Load \/ Abort \/ Finish => UNCHANGED <<index, trades>>
  BY DEF Load, Abort, Finish
<1>4. UNCHANGED vars => UNCHANGED <<index, trades>>
  BY DEF vars, runVars
<1>5. Exporting \/ Pulling => UNCHANGED <<index, trades>>
  BY DEF Exporting, Pulling, Begin, Snapshot, OpenPrices, PriceRow, WriteManifest, Fail, Pull,
         ExtractSnapshot, ExtractFile, Pulled, runVars
<1>6. QED
  BY <1>1, <1>2, <1>3, <1>4, <1>5 DEF Next

\* One reading, from which all are filled, and the order of the snapshots.
LEMMA HistorySuffices == Typed /\ OrderInv /\ HistoryInv => OneHistory
<1> SUFFICES ASSUME Typed, OrderInv, HistoryInv PROVE OneHistory
  OBVIOUS
<1>1. DOMAIN trades = 1 .. Len(trades) /\ Len(trades) \in Nat
  BY DEF Typed
<1>2. ASSUME NEW i \in DOMAIN trades, i > 1 PROVE trades[i - 1].ts < trades[i].ts
  <2>1. i - 1 \in DOMAIN trades /\ i - 1 < i
    BY <1>1, <1>2
  <2>2. QED
    BY <2>1 DEF OrderInv, InOrder
<1>3. ASSUME trades # <<>>
      PROVE  \E file \in index : \A i \in DOMAIN trades : FilledFrom(trades[i], file)
  <2>1. 1 \in DOMAIN trades
    BY <1>1, <1>3 DEF Typed
  <2>2. PICK file \in index : TRUE
    BY <2>1 DEF HistoryInv
  <2>3. \A i \in DOMAIN trades : FilledFrom(trades[i], file)
    BY DEF HistoryInv
  <2>4. QED
    BY <2>3
<1>4. QED
  BY <1>2, <1>3 DEF OneHistory

\* A run is judged on one history: whatever exports and pulls write while it
\* runs, all its trades are filled from one reading of the price file, in the
\* order of their snapshots (dataset.py:68-93, runner.py:98-138).
THEOREM OneHistoryFillsAll == Spec => []OneHistory
<1>1. Spec => []Typed
  BY TypedInit, TypedStep, PTL DEF Spec
<1>2. Spec => []OrderInv
  BY <1>1, OrderInit, OrderStep, PTL DEF Spec
<1>3. Spec => []HistoryInv
  BY <1>1, HistoryInit, HistoryStep, PTL DEF Spec
<1>4. QED
  BY <1>1, <1>2, <1>3, HistorySuffices, PTL

-----------------------------------------------------------------------------
(* Trades within the period                                                *)

Covers(w, f) == \A t \in DOMAIN f : w.start <= t /\ t <= w.end

\* What the folder holds while and after it is written: a complete one has
\* prices of the period of its manifest alone.
FolderMatches ==
  /\ exporter # "idle" => ~whole
  /\ exporter # "extracting" => left = {}
  /\ whole => \A w \in manifest : Covers(w, prices)
  /\ exporter = "prices" => window.start <= cursor /\ Covers(window, prices)
  /\ \A rest \in left :
       /\ "prices" \in rest.files \/ prices = rest.dataset.prices
       /\ "manifest.json" \in rest.files \/ manifest = {rest.dataset.period}

\* A clean run has read, or will read, prices of the period it loaded.
RunMatches ==
  /\ run = "new" => trades = <<>> /\ index = {}
  /\ clean => /\ whole /\ Covers(period, prices)
              /\ \A f \in index : Covers(period, f)

PeriodInv == FolderMatches /\ RunMatches /\ TradesInPeriod

\* At the start nothing is complete, and no run claims to be clean.
LEMMA PeriodInit == Init => PeriodInv
BY DEF Init, PeriodInv, FolderMatches, RunMatches, TradesInPeriod

\* What a step of a writer does to the folder.
LEMMA FolderStep ==
  ASSUME Typed, PeriodInv, Exporting \/ Pulling
  PROVE  FolderMatches'
<1> USE DEF PeriodInv, FolderMatches
<1>1. CASE \E w \in Windows : Begin(w)
  BY <1>1 DEF Begin
<1>2. CASE Snapshot
  BY <1>2 DEF Snapshot, Covers
<1>3. CASE OpenPrices
  <2>1. window.start <= Ceiling(window.start)
    BY CeilingIsAbove DEF Typed, TimeTypes
  <2>2. Covers(window', prices')
    BY <1>3 DEF OpenPrices, Covers
  <2>3. QED
    BY <1>3, <2>1, <2>2 DEF OpenPrices
<1>4. CASE PriceRow
  <2>1. Minute \in Nat /\ cursor \in Int /\ window.start \in Int
    BY BacktestConstants DEF Typed, TimeTypes
  <2>2. Covers(window', prices')
    BY <1>4 DEF PriceRow, Covers
  <2>3. window'.start <= cursor'
    BY <1>4, <2>1 DEF PriceRow
  <2>4. QED
    BY <1>4, <2>2, <2>3 DEF PriceRow
<1>5. CASE WriteManifest
  BY <1>5 DEF WriteManifest
<1>6. CASE Fail
  BY <1>6 DEF Fail, folderVars
<1>7. CASE \E d \in Published : Pull(d)
  BY <1>7 DEF Pull, Files
<1>8. CASE ExtractSnapshot
  <2>1. PICK rest \in left : \E t \in rest.snapshots :
          left' = {[rest EXCEPT !.snapshots = @ \ {t}]}
    BY <1>8 DEF ExtractSnapshot
  <2>2. rest \in Archives
    BY DEF Typed, TimeTypes
  <2>3. \A r \in left' : r.files = rest.files /\ r.dataset = rest.dataset
    BY <2>1, <2>2 DEF Archives
  <2>4. QED
    BY <1>8, <2>3 DEF ExtractSnapshot
<1>9. CASE ExtractFile
  <2>1. PICK rest \in left : \E f \in rest.files :
          /\ \/ f = "prices" /\ prices' = rest.dataset.prices /\ UNCHANGED manifest
             \/ f = "manifest.json" /\ manifest' = {rest.dataset.period} /\ UNCHANGED prices
          /\ left' = {[rest EXCEPT !.files = @ \ {f}]}
    BY <1>9 DEF ExtractFile
  <2>2. PICK f \in rest.files :
          /\ \/ f = "prices" /\ prices' = rest.dataset.prices /\ UNCHANGED manifest
             \/ f = "manifest.json" /\ manifest' = {rest.dataset.period} /\ UNCHANGED prices
          /\ left' = {[rest EXCEPT !.files = @ \ {f}]}
    BY <2>1
  <2>3. rest \in Archives
    BY DEF Typed, TimeTypes
  <2>4. \A r \in left' : r.files = rest.files \ {f} /\ r.dataset = rest.dataset
    BY <2>2, <2>3 DEF Archives
  <2>5. exporter = "extracting" /\ ~whole
    OBVIOUS
  <2>6. QED
    BY <1>9, <2>2, <2>4, <2>5 DEF ExtractFile
<1>10. CASE Pulled
  <2>1. PICK rest \in left : rest.files = {}
    BY <1>10 DEF Pulled
  <2>2. prices = rest.dataset.prices /\ manifest = {rest.dataset.period}
    BY <2>1
  <2>3. rest.dataset \in Published
    BY DEF Typed, TimeTypes, Archives
  <2>4. Covers(rest.dataset.period, rest.dataset.prices)
    BY <2>3, BacktestConstants DEF Covers
  <2>5. QED
    BY <1>10, <2>2, <2>4 DEF Pulled
<1> HIDE DEF PeriodInv, FolderMatches
<1>11. QED
  BY <1>1, <1>2, <1>3, <1>4, <1>5, <1>6, <1>7, <1>8, <1>9, <1>10 DEF Exporting, Pulling

\* A writer that begins ends the claim of a run; until then there is none.
LEMMA WriterStep ==
  ASSUME PeriodInv, Exporting \/ Pulling
  PROVE  RunMatches' /\ TradesInPeriod'
<1>1. UNCHANGED runVars
  BY DEF Exporting, Pulling, Begin, Snapshot, OpenPrices, PriceRow, WriteManifest, Fail, Pull,
         ExtractSnapshot, ExtractFile, Pulled
<1>2. ~clean'
  <2>1. exporter # "idle" => ~clean
    BY DEF PeriodInv, FolderMatches, RunMatches
  <2>2. left # {} => exporter # "idle"
    BY DEF PeriodInv, FolderMatches
  <2>3. QED
    BY <2>1, <2>2 DEF Exporting, Pulling, Begin, Snapshot, OpenPrices, PriceRow, WriteManifest,
       Fail, Pull, ExtractSnapshot, ExtractFile, Pulled
<1>3. QED
  BY <1>1, <1>2 DEF PeriodInv, RunMatches, TradesInPeriod, runVars

\* A clean run trades at the prices of its period.
LEMMA PeriodPredict ==
  ASSUME Typed, PeriodInv, NEW signal \in Signals, Predict(signal)
  PROVE  PeriodInv'
<1>1. PICK t \in todo : \E file :
           /\ run = "running"
           /\ file = prices \/ file \in index
           /\ index' = index \/ index' = {file}
           /\ \/ trades' = trades
              \/ /\ {EntryOf(t), ExitOf(t, signal.horizon)} \subseteq DOMAIN file
                 /\ trades' = Append(trades, Trade(t, signal, file))
  BY PredictDoes
<1>2. PICK file :
           /\ run = "running"
           /\ file = prices \/ file \in index
           /\ index' = index \/ index' = {file}
           /\ \/ trades' = trades
              \/ /\ {EntryOf(t), ExitOf(t, signal.horizon)} \subseteq DOMAIN file
                 /\ trades' = Append(trades, Trade(t, signal, file))
  BY <1>1
<1>3. UNCHANGED <<folderVars, exportVars, run, period, clean>>
  BY DEF Predict
<1>4. FolderMatches'
  BY <1>3 DEF PeriodInv, FolderMatches, Covers, folderVars, exportVars
<1>5. clean => Covers(period, file)
  BY <1>2 DEF PeriodInv, RunMatches
<1>6. RunMatches'
  BY <1>2, <1>3, <1>5 DEF PeriodInv, RunMatches, Covers, folderVars
<1>7. ASSUME trades' = trades PROVE TradesInPeriod'
  BY <1>3, <1>7 DEF PeriodInv, TradesInPeriod
<1>8. ASSUME {EntryOf(t), ExitOf(t, signal.horizon)} \subseteq DOMAIN file,
             trades' = Append(trades, Trade(t, signal, file))
      PROVE  TradesInPeriod'
  <2> DEFINE row == Trade(t, signal, file)
             n == Len(trades)
  <2>1. row \in Row /\ row.entry = EntryOf(t) /\ row.exit = ExitOf(t, signal.horizon)
    <3>1. Positive(file) /\ t \in Int
      BY <1>2 DEF Typed, PriceTypes, TimeTypes
    <3>2. QED
      BY <1>8, <3>1, TradeTyped
  <2> HIDE DEF row
  <2>2. trades \in Seq(Row) /\ n \in Nat /\ DOMAIN trades = 1 .. n
    BY DEF Typed
  <2>3. /\ DOMAIN trades' = 1 .. n + 1
        /\ trades'[n + 1] = row
        /\ \A i \in 1 .. n : trades'[i] = trades[i]
    BY <1>8, <2>1, <2>2, AppendProperties DEF row
  <2>4. clean => period.start <= row.entry /\ row.exit <= period.end
    BY <1>5, <1>8, <2>1 DEF Covers
  <2>5. ASSUME clean, NEW i \in 1 .. n + 1
        PROVE  period.start <= trades'[i].entry /\ trades'[i].exit <= period.end
    BY <2>2, <2>3, <2>4, <2>5 DEF PeriodInv, TradesInPeriod
  <2>6. QED
    BY <1>3, <2>3, <2>5 DEF TradesInPeriod
<1>9. QED
  BY <1>2, <1>4, <1>6, <1>7, <1>8 DEF PeriodInv

\* Every step of a writer or of the run keeps folder, run and trades in the period.
LEMMA PeriodStep == Typed /\ PeriodInv /\ [Next]_vars => PeriodInv'
<1> SUFFICES ASSUME Typed, PeriodInv, [Next]_vars PROVE PeriodInv'
  OBVIOUS
<1>1. CASE UNCHANGED vars
  BY <1>1 DEF PeriodInv, FolderMatches, RunMatches, TradesInPeriod, Covers, vars, folderVars,
     exportVars, runVars
<1>2. CASE Exporting \/ Pulling
  BY <1>2, FolderStep, WriterStep DEF PeriodInv
<1>3. CASE Load
  <2>1. UNCHANGED <<folderVars, exportVars>> /\ trades' = <<>> /\ index' = {} /\ run' = "running"
    BY <1>3 DEF Load, PeriodInv, RunMatches
  <2>2. FolderMatches'
    BY <2>1 DEF PeriodInv, FolderMatches, Covers, folderVars, exportVars
  <2>3. clean' => whole' /\ Covers(period', prices')
    BY <1>3, <2>1 DEF Load, PeriodInv, FolderMatches, folderVars
  <2>4. QED
    BY <2>1, <2>2, <2>3 DEF PeriodInv, RunMatches, TradesInPeriod
<1>4. CASE \E signal \in Signals : Predict(signal)
  BY <1>4, PeriodPredict
<1>5. CASE Abort \/ Finish
  BY <1>5 DEF Abort, Finish, PeriodInv, FolderMatches, RunMatches, TradesInPeriod, Covers,
     folderVars, exportVars
<1>6. QED
  BY <1>1, <1>2, <1>3, <1>4, <1>5 DEF Next

\* A run in a folder whose last write was completed trades within the period
\* of its manifest, whatever snapshots earlier writes left (dataset.py:36-105).
THEOREM StrayFilesTradeNothing == Spec => []TradesInPeriod
<1>1. Spec => []Typed
  BY TypedInit, TypedStep, PTL DEF Spec
<1>2. Spec => []PeriodInv
  BY <1>1, PeriodInit, PeriodStep, PTL DEF Spec
<1>3. PeriodInv => TradesInPeriod
  BY DEF PeriodInv
<1>4. QED
  BY <1>2, <1>3, PTL


-----------------------------------------------------------------------------
(* A model that passes has earned                                          *)

\* The equity curve: a whole number for each trade, the last of them the sum.
LEMMA EquityTyped ==
  ASSUME NEW log \in Seq(Row)
  PROVE  /\ DOMAIN Equity(log) = 1 .. Len(log)
         /\ \A i \in 1 .. Len(log) : Equity(log)[i] \in Int
         /\ Len(Equity(log)) = Len(log)
         /\ log # <<>> => Equity(log)[Len(log)] = SumFunction(Pnl(log))
<1> DEFINE n == Len(log)
           all == Pnl(log)
           curve == Equity(log)
           part(i) == SubSeq(all, 1, i)
<1>1. n \in Nat /\ DOMAIN log = 1 .. n /\ \A i \in 1 .. n : log[i].pnl \in Int
  <2>1. n \in Nat /\ DOMAIN log = 1 .. n
    BY LenProperties
  <2>2. \A i \in 1 .. n : log[i] \in Row
    BY ElementOfSeq
  <2>3. \A row \in Row : row.pnl \in Int
    BY DEF Row
  <2>4. QED
    BY <2>1, <2>2, <2>3
<1>2. all = [i \in 1 .. n |-> log[i].pnl]
  BY <1>1 DEF Pnl
<1>3. all \in Seq(Int) /\ Len(all) = n
  BY <1>1, <1>2, IsASeq
<1>4. curve = [i \in 1 .. n |-> SumFunction(part(i))]
  BY <1>1 DEF Equity
<1> HIDE DEF n, all, curve
<1>5. ASSUME NEW i \in 1 .. n PROVE SumFunction(part(i)) \in Int
  <2>1. part(i) \in Seq(Int) /\ Len(part(i)) = i
    BY <1>1, <1>3, SubSeqProperties
  <2> HIDE DEF part
  <2>2. i \in Nat /\ 1 \in Int /\ i \in Int
    BY <1>1
  <2>3. DOMAIN part(i) = 1 .. i /\ \A k \in 1 .. i : part(i)[k] \in Int
    BY <2>1
  <2>4. Summable(part(i), 1 .. i)
    BY <2>2, <2>3, FS_Interval DEF Summable
  <2>5. SumFunctionOnSet(part(i), 1 .. i) \in Int
    BY <2>4, SumType
  <2>6. QED
    BY <2>3, <2>5 DEF SumFunction
<1>6. n > 0 => part(n) = all
  BY <1>1, <1>3, SubSeqFull
<1>7. log # <<>> => n > 0
  BY <1>1 DEF n
<1> HIDE DEF part
<1>8. curve \in Seq(Int) /\ Len(curve) = n
  <2>1. curve \in [1 .. n -> Int]
    BY <1>4, <1>5
  <2>2. QED
    BY <1>1, <2>1, LenProperties, IsASeq
<1>9. /\ DOMAIN curve = 1 .. n /\ (\A i \in 1 .. n : curve[i] \in Int)
      /\ log # <<>> => curve[n] = SumFunction(all)
  BY <1>1, <1>4, <1>5, <1>6, <1>7
<1>10. QED
  BY <1>8, <1>9 DEF n, all, curve

\* The peak of a curve up to a place: no value up to there is higher.
LEMMA PeakIsHighest ==
  ASSUME NEW curve, NEW n \in Nat, \A i \in 1 .. n : curve[i] \in Int, NEW j \in 1 .. n
  PROVE  Peak(curve, j) \in Int /\ \A i \in 1 .. j : curve[i] <= Peak(curve, j)
<1> DEFINE S == {curve[k] : k \in 1 .. j}
<1>1. IsFiniteSet(S)
  <2>1. IsFiniteSet(1 .. j)
    BY FS_Interval
  <2>2. QED
    BY <2>1, FiniteImage
<1>2. S # {} /\ S \subseteq Int
  OBVIOUS
<1>3. Max(S) \in S /\ \A y \in S : y <= Max(S)
  <2> HIDE DEF S
  <2>1. QED
    BY <1>1, <1>2, MaxIsGreatest
<1>4. Peak(curve, j) = Max(S)
  BY DEF Peak
<1> DEFINE top == Max(S)
<1>5. top \in Int /\ \A i \in 1 .. j : curve[i] <= top
  BY <1>2, <1>3
<1> HIDE DEF top
<1>6. QED
  BY <1>4, <1>5 DEF top

\* No loss is greater than the drawdown.
LEMMA DrawdownBounds ==
  ASSUME NEW curve, NEW n \in Nat, DOMAIN curve = 1 .. n, \A i \in 1 .. n : curve[i] \in Int,
         NEW j \in 1 .. n, NEW i \in 1 .. j
  PROVE  MaxDrawdown(curve) \in Int /\ curve[i] - curve[j] <= MaxDrawdown(curve)
<1> DEFINE depth == [k \in 1 .. n |-> Peak(curve, k) - curve[k]]
           S == {depth[k] : k \in 1 .. n}
<1>1. \A k \in 1 .. n : depth[k] \in Int
  BY PeakIsHighest
<1>2. IsFiniteSet(S)
  <2>1. IsFiniteSet(1 .. n)
    BY FS_Interval
  <2> HIDE DEF depth
  <2>2. QED
    BY <2>1, FiniteImage
<1>3. MaxDrawdown(curve) = Max(S)
  <2>1. {Peak(curve, k) - curve[k] : k \in DOMAIN curve} = S
    OBVIOUS
  <2>2. QED
    BY <2>1 DEF MaxDrawdown
<1>4. depth[j] = Peak(curve, j) - curve[j]
  OBVIOUS
<1> HIDE DEF depth
<1>5. S # {} /\ S \subseteq Int /\ depth[j] \in S
  BY <1>1
<1> HIDE DEF S
<1>6. Max(S) \in Int /\ depth[j] <= Max(S)
  BY <1>2, <1>5, MaxIsGreatest
<1>7. Peak(curve, j) \in Int /\ curve[i] <= Peak(curve, j) /\ curve[i] \in Int /\ curve[j] \in Int
  <2>1. i \in 1 .. n
    OBVIOUS
  <2>2. QED
    BY <2>1, PeakIsHighest
<1>8. QED
  BY <1>3, <1>4, <1>6, <1>7

\* A greater loss is still greater counted in steps.
LEMMA TimesKeepsOrder ==
  ASSUME NEW k \in Nat, NEW x \in Int, NEW y \in Int, x <= y
  PROVE  k * x <= k * y
OBVIOUS

\* What the thresholds say of a log: its curve ends above zero, and loses no
\* more of its peak between any two trades than is shown as a fifth.
LEMMA PassingEarns ==
  ASSUME NEW log \in Seq(Row), Passes(log)
  PROVE  /\ Equity(log)[Len(Equity(log))] > 0
         /\ \A i, j \in DOMAIN Equity(log) :
              i <= j => 10 * DrawdownUnit * (Equity(log)[i] - Equity(log)[j])
                          <= (2 * DrawdownUnit + 5) * Peak(Equity(log), Len(Equity(log)))
<1> DEFINE n == Len(log)
           curve == Equity(log)
           top == Peak(curve, n)
<1>1. log # <<>> /\ SumFunction(Pnl(log)) > 0
  BY DEF Passes, SharpeShownAtLeastOne
<1>2. n \in Nat /\ n > 0
  BY <1>1
<1>3. /\ DOMAIN curve = 1 .. n /\ Len(curve) = n /\ curve[n] = SumFunction(Pnl(log))
      /\ \A i \in 1 .. n : curve[i] \in Int
  BY <1>1, EquityTyped
<1>4. top <= 0 \/ 10 * DrawdownUnit * MaxDrawdown(curve) <= (2 * DrawdownUnit + 5) * top
  BY <1>3 DEF Passes, DrawdownShownAtMostFifth
<1> HIDE DEF n, curve
<1>5. top \in Int /\ curve[n] <= top
  BY <1>2, <1>3, PeakIsHighest
<1> HIDE DEF top
<1>6. curve[n] > 0
  BY <1>1, <1>3
<1>7. 10 * DrawdownUnit * MaxDrawdown(curve) <= (2 * DrawdownUnit + 5) * top
  BY <1>2, <1>3, <1>4, <1>5, <1>6
<1>8. ASSUME NEW i \in 1 .. n, NEW j \in 1 .. n, i <= j
      PROVE  10 * DrawdownUnit * (curve[i] - curve[j]) <= (2 * DrawdownUnit + 5) * top
  <2>1. i \in 1 .. j
    BY <1>8
  <2>2. MaxDrawdown(curve) \in Int /\ curve[i] - curve[j] <= MaxDrawdown(curve)
    BY <1>2, <1>3, <2>1, DrawdownBounds
  <2>3. curve[i] - curve[j] \in Int
    BY <1>3
  <2> DEFINE loss == curve[i] - curve[j]
             depth == MaxDrawdown(curve)
  <2> HIDE DEF loss, depth
  <2>4. 10 * DrawdownUnit \in Nat /\ (2 * DrawdownUnit + 5) * top \in Int
    <3>1. DrawdownUnit \in Nat
      BY BacktestConstants
    <3>2. QED
      BY <1>5, <3>1, \A a, b \in Int : a * b \in Int
  <2>5. 10 * DrawdownUnit * loss <= 10 * DrawdownUnit * depth
    BY <2>2, <2>3, <2>4, TimesKeepsOrder DEF loss, depth
  <2>6. 10 * DrawdownUnit * loss \in Int /\ 10 * DrawdownUnit * depth \in Int
    BY <2>2, <2>3, <2>4 DEF loss, depth
  <2>7. QED
    BY <1>7, <2>4, <2>5, <2>6 DEF loss, depth
<1>9. QED
  BY <1>3, <1>6, <1>8 DEF curve, top

\* The verdict is that of the log, which is not written to any more.
VerdictInv == passes => run = "done" /\ Passes(trades)

\* At the start there is no verdict.
LEMMA VerdictInit == Init => VerdictInv
BY DEF Init, VerdictInv

\* Only Finish gives a verdict, and nothing trades after it.
LEMMA VerdictStep == VerdictInv /\ [Next]_vars => VerdictInv'
<1> SUFFICES ASSUME VerdictInv, [Next]_vars PROVE VerdictInv'
  OBVIOUS
<1>1. CASE UNCHANGED <<run, trades, passes>>
  BY <1>1 DEF VerdictInv
<1>2. CASE Load \/ (\E signal \in Signals : Predict(signal)) \/ Abort
  <2>1. run # "done" /\ passes' = passes
    BY <1>2 DEF Load, Predict, Abort, Going
  <2>2. QED
    BY <2>1 DEF VerdictInv
<1>3. CASE Finish
  BY <1>3 DEF Finish, VerdictInv
<1>4. UNCHANGED vars => UNCHANGED <<run, trades, passes>>
  BY DEF vars, runVars
<1>5. Exporting \/ Pulling => UNCHANGED <<run, trades, passes>>
  BY DEF Exporting, Pulling, Begin, Snapshot, OpenPrices, PriceRow, WriteManifest, Fail, Pull,
         ExtractSnapshot, ExtractFile, Pulled, runVars
<1>6. QED
  BY <1>1, <1>2, <1>3, <1>4, <1>5 DEF Next

\* A model that passes the thresholds has earned money after costs and never
\* lost more of the most it had than is shown as a fifth, 20.005 % in the code
\* (metrics.py:34-57, :74, :80, cli/commands/backtest.py:65-71).
THEOREM PassingIsEarned == Spec => []PassedHasEarned
<1>1. Spec => []Typed
  BY TypedInit, TypedStep, PTL DEF Spec
<1>2. Spec => []VerdictInv
  BY VerdictInit, VerdictStep, PTL DEF Spec
<1>3. Typed /\ VerdictInv => PassedHasEarned
  <2> SUFFICES ASSUME Typed, VerdictInv, passes PROVE PassedHasEarned
    BY DEF PassedHasEarned
  <2>1. trades \in Seq(Row) /\ Passes(trades)
    BY DEF Typed, VerdictInv
  <2>2. QED
    BY <2>1, PassingEarns DEF PassedHasEarned
<1>4. QED
  BY <1>1, <1>2, <1>3, PTL

=============================================================================
