---------------------------- MODULE MarketProofs ----------------------------
(***************************************************************************)
(* Theorems about Market and its DataWriter, for every set of candles and  *)
(* readers, every size of the buffer and every lookback.                   *)
(***************************************************************************)
EXTENDS Market, SumLemmas

(***************************************************************************)
(* The writer: types, and sequences of rows.                               *)
(***************************************************************************)

Versions == 0 .. MaxRows
Tables == [Bars -> Versions]

WriterTypes ==
  /\ buf \in Seq(Row) /\ batch \in [Flushers -> Seq(Row)]
  /\ loop \in {"waiting", "ended"}
  /\ stop \in {"no", "joining", "flushing", "stopped", "failed"}
  /\ table \in Tables /\ arrived \in Tables
  /\ raced \in BOOLEAN

\* g stores the rows of rows one after the other, for every subset of them.
Stores(g, rows) ==
  g = [s \in SUBSET (DOMAIN rows) |->
         IF s = {} THEN table
         ELSE [g[s \ {Max(s)}] EXCEPT ![rows[Max(s)][1]] = rows[Max(s)][2]]]

\* The table after an upsert, as a value of the function its fold defines.
LEMMA UpsertUnfolded ==
  ASSUME NEW rows
  PROVE  Upsert(rows) = (CHOOSE g : Stores(g, rows))[DOMAIN rows]
BY DEF Upsert, FoldLeft, MapThenFoldSet, Stores

\* The last of some rows of bar b is the one at i.
LastOf(b, rows, T, i) == i \in T /\ rows[i][1] = b /\ \A j \in T : rows[j][1] = b => j <= i

\* What g makes of the rows at T: each bar has the version of its last row.
StoresLast(t, rows, T) ==
  /\ t \in Tables
  /\ \A b \in Bars :
       \/ t[b] = table[b] /\ \A i \in T : rows[i][1] # b
       \/ \E i \in T : LastOf(b, rows, T, i) /\ t[b] = rows[i][2]

\* A table is stored that has the versions of the last rows.
LEMMA StoresLastStep ==
  ASSUME NEW rows \in Seq(Row), table \in Tables, NEW T \in SUBSET (DOMAIN rows), T # {},
         NEW t, StoresLast(t, rows, T \ {Max(T)})
  PROVE  StoresLast([t EXCEPT ![rows[Max(T)][1]] = rows[Max(T)][2]], rows, T)
<1> DEFINE top == Max(T)
           u == [t EXCEPT ![rows[top][1]] = rows[top][2]]
<1>1. IsFiniteSet(DOMAIN rows) /\ DOMAIN rows \subseteq Int
  BY FS_Interval
<1>2. IsFiniteSet(T) /\ T \subseteq Int
  BY <1>1, FS_Subset
<1>3. top \in T /\ \A y \in T : y <= top
  BY <1>2, MaxIsGreatest
<1> HIDE DEF top
<1>4. rows[top] \in Row
  BY <1>3
<1>5. rows[top][1] \in Bars /\ rows[top][2] \in Versions
  BY <1>4, WriterConstants DEF Row, Versions
<1>6. t \in Tables
  BY DEF StoresLast, top
<1>7. u \in Tables /\ u[rows[top][1]] = rows[top][2]
      /\ \A b \in Bars : b # rows[top][1] => u[b] = t[b]
  BY <1>5, <1>6 DEF Tables
<1> HIDE DEF u
<1>8. ASSUME NEW b \in Bars
      PROVE  \/ u[b] = table[b] /\ \A i \in T : rows[i][1] # b
             \/ \E i \in T : LastOf(b, rows, T, i) /\ u[b] = rows[i][2]
  <2>1. CASE b = rows[top][1]
    BY <1>3, <1>7, <2>1 DEF LastOf
  <2>2. CASE b # rows[top][1]
    <3>1. \/ t[b] = table[b] /\ \A i \in T \ {top} : rows[i][1] # b
          \/ \E i \in T \ {top} : LastOf(b, rows, T \ {top}, i) /\ t[b] = rows[i][2]
      BY DEF StoresLast, top
    <3>2. u[b] = t[b]
      BY <1>7, <2>2
    <3>3. QED
      BY <2>2, <3>1, <3>2 DEF LastOf
  <2>3. QED
    BY <2>1, <2>2
<1>9. StoresLast(u, rows, T)
  BY <1>7, <1>8 DEF StoresLast
<1>10. QED
  BY <1>9 DEF u, top

\* The function that stores them exists ...
LEMMA StoresExists ==
  ASSUME NEW rows \in Seq(Row), table \in Tables
  PROVE  \E g : Stores(g, rows)
<1> DEFINE D == DOMAIN rows
           choice == [s \in SUBSET D |-> Max(s)]
           H == [p \in D \X Tables |-> [p[2] EXCEPT ![rows[p[1]][1]] = rows[p[1]][2]]]
<1>0. IsFiniteSet(D)
  BY FS_Interval
<1>1. D \subseteq Int
  OBVIOUS
<1>2. \A s \in SUBSET D : s # {} => Max(s) \in s
  <2> HIDE DEF D
  <2> TAKE s \in SUBSET D
  <2>1. IsFiniteSet(s) /\ s \subseteq Int
    BY <1>0, <1>1, FS_Subset
  <2>2. QED
    BY <2>1, MaxIsGreatest
<1>3. \A i \in D : rows[i][1] \in Bars /\ rows[i][2] \in Versions
  <2> TAKE i \in D
  <2>1. rows[i] \in Row
    OBVIOUS
  <2>2. QED
    BY <2>1, WriterConstants DEF Row, Versions
<1> HIDE DEF D
<1>4. Choosing(choice, D)
  BY <1>2 DEF Choosing
<1>5. \A i \in D, t \in Tables : /\ H[<<i, t>>] = [t EXCEPT ![rows[i][1]] = rows[i][2]]
                                 /\ H[<<i, t>>] \in Tables
  BY <1>3 DEF Tables
<1>6. \A s \in SUBSET D : choice[s] = Max(s)
  OBVIOUS
<1> HIDE DEF H, choice
<1>7. PICK g : FoldsSubsets(g, D, table, choice, H)
  BY <1>0, <1>4, FoldExists
<1>8. \A s \in SUBSET D : g[s] = IF s = {} THEN table ELSE H[<<choice[s], g[s \ {choice[s]}]>>]
  BY <1>7 DEF FoldsSubsets
<1>9. \A s \in SUBSET D : g[s] \in Tables
  <2> DEFINE B == {s \in SUBSET D : g[s] \notin Tables}
  <2> SUFFICES ASSUME B # {} PROVE FALSE
    OBVIOUS
  <2>0. B \in SUBSET (SUBSET D) /\ B # {}
    OBVIOUS
  <2>1. PICK T \in B : \A U \in B : U \subseteq T => U = T
    <3> HIDE DEF B
    <3>1. QED
      BY <1>0, <2>0, LeastSubset
  <2>2. T \in SUBSET D /\ g[T] \notin Tables
    BY <2>1
  <2>3. T # {}
    BY <1>8, <2>2
  <2>4. choice[T] \in T
    BY <1>2, <1>6, <2>2, <2>3
  <2> DEFINE rest == T \ {choice[T]}
  <2>5. choice[T] \in D /\ rest \in SUBSET D /\ g[rest] \in Tables
    BY <2>1, <2>2, <2>4
  <2>6. g[T] = H[<<choice[T], g[rest]>>]
    BY <1>8, <2>2, <2>3
  <2> HIDE DEF rest
  <2>7. g[T] \in Tables
    BY <1>5, <2>5, <2>6
  <2>8. QED
    BY <2>2, <2>7
<1>10. \A s \in SUBSET D : g[s] = IF s = {} THEN table
          ELSE [g[s \ {Max(s)}] EXCEPT ![rows[Max(s)][1]] = rows[Max(s)][2]]
  BY <1>2, <1>5, <1>6, <1>8, <1>9
<1>11. g = [s \in SUBSET D |-> g[s]]
  BY <1>7 DEF FoldsSubsets
<1>12. g = [s \in SUBSET D |-> IF s = {} THEN table
          ELSE [g[s \ {Max(s)}] EXCEPT ![rows[Max(s)][1]] = rows[Max(s)][2]]]
  BY <1>10, <1>11
<1>13. QED
  BY <1>12 DEF Stores, D

\* ... so a batch leaves each of its bars with the version of its last row, and
\* the others as they were.
LEMMA UpsertLast ==
  ASSUME NEW rows \in Seq(Row), table \in Tables
  PROVE  StoresLast(Upsert(rows), rows, DOMAIN rows)
<1> DEFINE g == CHOOSE g : Stores(g, rows)
           D == DOMAIN rows
<1>1. Stores(g, rows)
  BY StoresExists
<1>2. Upsert(rows) = g[D]
  BY UpsertUnfolded
<1> HIDE DEF g
<1>3. \A s \in SUBSET D : g[s] = IF s = {} THEN table
          ELSE [g[s \ {Max(s)}] EXCEPT ![rows[Max(s)][1]] = rows[Max(s)][2]]
  BY <1>1 DEF Stores
<1>0. IsFiniteSet(D)
  BY FS_Interval
<1>4. D \subseteq Int
  OBVIOUS
<1> DEFINE B == {s \in SUBSET D : ~StoresLast(g[s], rows, s)}
<1> SUFFICES ASSUME B # {} PROVE FALSE
  BY <1>2
<1>5. B \in SUBSET (SUBSET D) /\ B # {}
  OBVIOUS
<1>6. PICK T \in B : \A U \in B : U \subseteq T => U = T
  <2> HIDE DEF B, D
  <2>1. QED
    BY <1>0, <1>5, LeastSubset
<1>7. T \in SUBSET D /\ ~StoresLast(g[T], rows, T)
  BY <1>6
<1>8. CASE T = {}
  BY <1>3, <1>7, <1>8 DEF StoresLast
<1>9. CASE T # {}
  <2> HIDE DEF D
  <2>1. IsFiniteSet(T) /\ T \subseteq Int
    BY <1>0, <1>4, <1>7, FS_Subset
  <2>2. Max(T) \in T
    BY <1>9, <2>1, MaxIsGreatest
  <2> DEFINE rest == T \ {Max(T)}
  <2>3. rest \in SUBSET D /\ rest \subseteq T /\ rest # T
    BY <1>7, <2>2
  <2> HIDE DEF rest
  <2>4. StoresLast(g[rest], rows, rest)
    BY <1>6, <2>3
  <2>5. StoresLast([g[rest] EXCEPT ![rows[Max(T)][1]] = rows[Max(T)][2]], rows, T)
    BY <1>7, <1>9, <2>4, StoresLastStep DEF rest, D
  <2>6. g[T] = [g[rest] EXCEPT ![rows[Max(T)][1]] = rows[Max(T)][2]]
    BY <1>3, <1>7, <1>9 DEF rest
  <2>7. QED
    BY <1>7, <2>5, <2>6
<1>10. QED
  BY <1>8, <1>9

\* What the rest of the system does to the writer: a candle is written, or the
\* writer moves, or nothing.
WriterMove == (\E b \in Bars : Write(b)) \/ WriterNext

\* Seen from the writer, every step of the market is one of its own or none.
LEMMA WriterMoves == [Next]_vars => WriterMove \/ UNCHANGED writerVars
<1> SUFFICES ASSUME [Next]_vars PROVE WriterMove \/ UNCHANGED writerVars
  OBVIOUS
<1>1. CASE Tick \/ UNCHANGED vars
  BY <1>1 DEF Tick, vars
<1>2. CASE Writer \/ \E b \in Bars : Candle(b)
  BY <1>2 DEF Writer, Candle, WriterMove
<1>3. ASSUME NEW r \in Readers, FetchBars(r) PROVE UNCHANGED writerVars
  BY <1>3 DEF FetchBars, Fetch
<1>4. CASE ExportStep
  BY <1>3, <1>4 DEF ExportStep, StartExport, WriteSnapshot, SkipSnapshot, Readers
<1>5. ASSUME NEW c \in Calls, LiveStep(c) PROVE UNCHANGED writerVars
  BY <1>3, <1>5 DEF LiveStep, Live, Hit, Miss, SetCache, Archive, Raise, Readers
<1>6. QED
  BY <1>1, <1>2, <1>4, <1>5 DEF Next

Capped(n) == IF n > MaxBuffer THEN MaxBuffer ELSE n

\* Of a failed batch the last max_buffer rows are kept ...
LEMMA NewestKept ==
  ASSUME NEW rows \in Seq(Row)
  PROVE  /\ Newest(rows) \in Seq(Row) /\ Len(Newest(rows)) = Capped(Len(rows))
         /\ \A i \in 1 .. Len(Newest(rows)) :
              Newest(rows)[i] = rows[i + (Len(rows) - Capped(Len(rows)))]
<1>1. MaxBuffer \in Nat \ {0} /\ Len(rows) \in Nat
  BY WriterConstants
<1>2. CASE Len(rows) > MaxBuffer
  BY <1>1, <1>2 DEF Newest, Capped
<1>3. CASE ~(Len(rows) > MaxBuffer)
  BY <1>1, <1>3 DEF Newest, Capped
<1>4. QED
  BY <1>2, <1>3

\* ... in front of the rows that came since.
LEMMA Rebuffered ==
  ASSUME NEW rows \in Seq(Row), buf \in Seq(Row)
  PROVE  /\ Rebuffer(rows) \in Seq(Row)
         /\ Len(Rebuffer(rows)) = Capped(Len(rows)) + Len(buf)
         /\ \A i \in 1 .. Capped(Len(rows)) :
              Rebuffer(rows)[i] = rows[i + (Len(rows) - Capped(Len(rows)))]
         /\ \A i \in 1 .. Len(buf) : Rebuffer(rows)[Capped(Len(rows)) + i] = buf[i]
<1> DEFINE kept == Newest(rows)
<1>1. kept \in Seq(Row) /\ Len(kept) = Capped(Len(rows))
      /\ \A i \in 1 .. Len(kept) : kept[i] = rows[i + (Len(rows) - Capped(Len(rows)))]
  BY NewestKept
<1>2. Capped(Len(rows)) \in Nat
  BY WriterConstants DEF Capped
<1>3. Rebuffer(rows) = kept \o buf
  BY DEF Rebuffer
<1> HIDE DEF kept
<1>4. /\ kept \o buf \in Seq(Row) /\ Len(kept \o buf) = Len(kept) + Len(buf)
      /\ \A i \in 1 .. Len(kept) : (kept \o buf)[i] = kept[i]
      /\ \A i \in 1 .. Len(buf) : (kept \o buf)[Len(kept) + i] = buf[i]
  <2>1. kept \in Seq(Row)
    BY <1>1
  <2>2. kept \o buf \in Seq(Row) /\ Len(kept \o buf) = Len(kept) + Len(buf)
    BY <2>1
  <2>3. \A i \in 1 .. Len(kept) : (kept \o buf)[i] = kept[i]
    BY <2>1
  <2>4. \A i \in 1 .. Len(buf) : (kept \o buf)[Len(kept) + i] = buf[i]
    BY <2>1
  <2>5. QED
    BY <2>2, <2>3, <2>4
<1>5. QED
  BY <1>1, <1>2, <1>3, <1>4

\* The writer's types at the start.
LEMMA WriterTypesInit == WriterInit => WriterTypes
<1> SUFFICES ASSUME WriterInit PROVE WriterTypes
  OBVIOUS
<1>1. <<>> \in Seq(Row)
  OBVIOUS
<1>2. buf \in Seq(Row) /\ batch \in [Flushers -> Seq(Row)]
  BY <1>1 DEF WriterInit
<1>3. table \in Tables /\ arrived \in Tables
  BY WriterConstants DEF WriterInit, Tables, Versions
<1>4. QED
  BY <1>2, <1>3 DEF WriterInit, WriterTypes

\* Every step keeps the types of the writer.
LEMMA WriterTypesStep == WriterTypes /\ (WriterMove \/ UNCHANGED writerVars) => WriterTypes'
<1> SUFFICES ASSUME WriterTypes, WriterMove \/ UNCHANGED writerVars PROVE WriterTypes'
  OBVIOUS
<1>0. /\ buf \in Seq(Row) /\ batch \in [Flushers -> Seq(Row)] /\ table \in Tables /\ arrived \in Tables
      /\ <<>> \in Seq(Row)
  BY DEF WriterTypes
<1>1. ASSUME NEW b \in Bars, Write(b) PROVE WriterTypes'
  <2> DEFINE row == <<b, arrived[b] + 1>>
             rows == Append(buf, row)
  <2>1. arrived' = [arrived EXCEPT ![b] = arrived[b] + 1] /\ arrived[b] < MaxRows
    BY <1>1 DEF Write
  <2>2. arrived[b] \in Nat /\ MaxRows \in Nat
    BY <1>0, WriterConstants DEF Tables, Versions
  <2>3. row \in Row
    BY <2>1, <2>2 DEF Row
  <2>4. arrived' \in Tables
    BY <1>0, <2>1, <2>2 DEF Tables, Versions
  <2>5. UNCHANGED <<loop, stop, table>>
    BY <1>1 DEF Write
  <2>6. rows \in Seq(Row)
    BY <1>0, <2>3
  <2>7. CASE buf' = rows /\ UNCHANGED <<batch, raced>>
    BY <2>4, <2>5, <2>6, <2>7 DEF WriterTypes
  <2>8. CASE Take("write", rows)
    BY <1>0, <2>4, <2>5, <2>6, <2>8 DEF WriterTypes, Take
  <2> HIDE DEF row
  <2>9. QED
    BY <1>1, <2>7, <2>8 DEF Write, row
<1>2. CASE LoopWakes
  BY <1>0, <1>2 DEF WriterTypes, LoopWakes, Take
<1>3. CASE Stop
  BY <1>3 DEF WriterTypes, Stop
<1>4. CASE FinalFlush
  BY <1>0, <1>4 DEF WriterTypes, FinalFlush, Take
<1>5. CASE Restart
  BY <1>0, <1>5 DEF WriterTypes, Restart
<1>6. ASSUME NEW f \in Flushers, Commit(f) \/ Fail(f) PROVE WriterTypes'
  <2>1. batch[f] \in Seq(Row)
    BY <1>0
  <2>2. Upsert(batch[f]) \in Tables
    BY <1>0, <2>1, UpsertLast DEF StoresLast
  <2>3. Rebuffer(batch[f]) \in Seq(Row)
    BY <1>0, <2>1, Rebuffered
  <2>4. table' \in Tables /\ buf' \in Seq(Row) /\ UNCHANGED <<arrived, raced>>
    BY <1>0, <1>6, <2>2, <2>3 DEF Commit, Fail
  <2>5. Return(f, "stopped") \/ Return(f, "failed")
    BY <1>6 DEF Commit, Fail
  <2>6. batch' \in [Flushers -> Seq(Row)] /\ loop' \in {"waiting", "ended"}
        /\ stop' \in {"no", "joining", "flushing", "stopped", "failed"}
    BY <1>0, <2>5 DEF Return, WriterTypes
  <2>7. QED
    BY <1>0, <2>4, <2>6 DEF WriterTypes
<1>7. CASE UNCHANGED writerVars
  BY <1>7 DEF WriterTypes, writerVars
<1>8. QED
  BY <1>1, <1>2, <1>3, <1>4, <1>5, <1>6, <1>7 DEF WriterMove, WriterNext

-----------------------------------------------------------------------------
(***************************************************************************)
(* The writer's memory.  Each flusher in flight can put back at most       *)
(* max_buffer rows, so what counts against the cap is the buffer and that  *)
(* much of every batch; the loop and stop take what is buffered, and only  *)
(* a write makes one row more of it.                                       *)
(***************************************************************************)

\* Where stop, the loop and the batches can be at once.
Phases ==
  /\ stop # "no" => batch["write"] = <<>>
  /\ loop = "ended" => stop # "no" /\ batch["loop"] = <<>>
  /\ stop \in {"flushing", "stopped", "failed"} => loop = "ended"
  /\ batch["stop"] # <<>> => stop = "flushing"
  /\ stop \in {"flushing", "stopped"} => buf = <<>>

Held(f) == Len(batch[f])

\* n rows are buffered, and w, l and s are in flight.
Fit(n, w, l, s) ==
  /\ n + Capped(w) + Capped(l) + Capped(s) <= 2 * MaxBuffer
  /\ n + w + l + s <= 3 * MaxBuffer + 1
  /\ l <= 2 * MaxBuffer

Sizes == Fit(Len(buf), Held("write"), Held("loop"), Held("stop"))

\* What can become of the numbers.
LEMMA FitStays ==
  ASSUME NEW n \in Nat, NEW w \in Nat, NEW l \in Nat, NEW s \in Nat, Fit(n, w, l, s)
  PROVE  /\ w = 0 /\ s = 0 => Fit(0, n + 1, l, 0) /\ (n + 1 < MaxBuffer => Fit(n + 1, 0, l, 0))
         /\ l = 0 => Fit(0, w, n, s)
         /\ s = 0 => Fit(0, w, l, n)
         /\ Fit(n, 0, l, s) /\ Fit(n, w, 0, s) /\ Fit(n, w, l, 0)
         /\ Fit(Capped(w) + n, 0, l, s) /\ Fit(Capped(l) + n, w, 0, s) /\ Fit(Capped(s) + n, w, l, 0)
         /\ n <= 2 * MaxBuffer
<1>1. MaxBuffer \in Nat \ {0}
  BY WriterConstants
<1>2. QED
  BY <1>1 DEF Fit, Capped

\* Every step keeps the phases.
LEMMA PhasesStep == WriterTypes /\ Phases /\ (WriterMove \/ UNCHANGED writerVars) => Phases'
<1> SUFFICES ASSUME WriterTypes, Phases, WriterMove \/ UNCHANGED writerVars PROVE Phases'
  OBVIOUS
<1>0. batch \in [Flushers -> Seq(Row)] /\ "write" \in Flushers /\ "loop" \in Flushers /\ "stop" \in Flushers
      /\ loop \in {"waiting", "ended"}
  BY DEF WriterTypes, Flushers
<1>1. ASSUME NEW b \in Bars, Write(b) PROVE Phases'
  BY <1>0, <1>1 DEF Phases, Write, Take
<1>2. CASE LoopWakes
  BY <1>0, <1>2 DEF Phases, LoopWakes, Take
<1>3. CASE Stop
  BY <1>0, <1>3 DEF Phases, Stop
<1>4. CASE FinalFlush
  BY <1>0, <1>4 DEF Phases, FinalFlush, Take
<1>5. CASE Restart
  BY <1>0, <1>5 DEF Phases, Restart
<1>6. ASSUME NEW f \in Flushers, Commit(f) PROVE Phases'
  BY <1>0, <1>6 DEF Phases, Commit, Return
<1>7. ASSUME NEW f \in Flushers, Fail(f) PROVE Phases'
  <2>1. batch[f] # <<>> /\ Return(f, "failed")
    BY <1>7 DEF Fail
  <2>2. f = "stop" \/ stop \in {"no", "joining"}
    BY <1>0, <2>1 DEF Phases, Flushers, WriterTypes
  <2>3. stop' \in {"no", "joining", "failed"}
    BY <2>1, <2>2 DEF Return
  <2>4. QED
    BY <1>0, <2>1, <2>2, <2>3 DEF Phases, Return
<1>8. CASE UNCHANGED writerVars
  BY <1>8 DEF Phases, writerVars
<1>9. QED
  BY <1>1, <1>2, <1>3, <1>4, <1>5, <1>6, <1>7, <1>8 DEF WriterMove, WriterNext

\* Every step keeps the sizes.
LEMMA SizesStep ==
  WriterTypes /\ WriterTypes' /\ Phases /\ Sizes /\ (WriterMove \/ UNCHANGED writerVars) => Sizes'
<1> SUFFICES ASSUME WriterTypes, WriterTypes', Phases, Sizes, WriterMove \/ UNCHANGED writerVars
             PROVE  Sizes'
  OBVIOUS
<1>0. /\ batch \in [Flushers -> Seq(Row)] /\ buf \in Seq(Row) /\ Len(buf) \in Nat
      /\ "write" \in Flushers /\ "loop" \in Flushers /\ "stop" \in Flushers
      /\ MaxBuffer \in Nat \ {0}
  BY WriterConstants DEF WriterTypes, Flushers
<1>1. /\ Len(buf) \in Nat /\ Held("write") \in Nat /\ Held("loop") \in Nat /\ Held("stop") \in Nat
      /\ MaxBuffer \in Nat
  BY <1>0 DEF Held
<1>3. /\ \A f \in Flushers : batch[f] = <<>> => Held(f) = 0
      /\ \A f \in Flushers : batch'[f] = <<>> => Held(f)' = 0
      /\ buf' = <<>> => Len(buf') = 0
  BY DEF Held
<1>4. ASSUME NEW b \in Bars, Write(b) PROVE Sizes'
  <2> DEFINE rows == Append(buf, <<b, arrived[b] + 1>>)
  <2>1. Len(rows) = Len(buf) + 1
    BY <1>0
  <2>2. Held("write") = 0 /\ Held("stop") = 0
    BY <1>0, <1>3, <1>4 DEF Write, Phases
  <2>3. CASE Len(rows) < MaxBuffer /\ buf' = rows /\ UNCHANGED batch
    <3>1. /\ Len(buf') = Len(buf) + 1 /\ Len(buf) + 1 < MaxBuffer
          /\ Held("write")' = 0 /\ Held("loop")' = Held("loop") /\ Held("stop")' = 0
      BY <2>1, <2>2, <2>3 DEF Held
    <3> HIDE DEF rows
    <3>2. QED
      BY <1>1, <2>2, <3>1, FitStays DEF Sizes
  <2>4. CASE Take("write", rows)
    <3>1. Len(buf') = 0 /\ Held("write")' = Len(buf) + 1 /\ Held("loop")' = Held("loop")
          /\ Held("stop")' = 0
      BY <1>0, <1>3, <2>1, <2>2, <2>4 DEF Take, Held
    <3>2. QED
      BY <1>1, <2>2, <3>1, FitStays DEF Sizes
  <2> HIDE DEF rows
  <2>5. QED
    BY <1>4, <2>3, <2>4 DEF Write, rows
<1>5. CASE LoopWakes
  <2>1. Held("loop") = 0 /\ Held("loop")' = Len(buf) /\ Len(buf') = 0
        /\ Held("write")' = Held("write") /\ Held("stop")' = Held("stop")
    BY <1>0, <1>3, <1>5 DEF LoopWakes, Take, Held
  <2>2. QED
    BY <1>1, <2>1, FitStays DEF Sizes
<1>6. CASE FinalFlush
  <2>1. Held("stop") = 0 /\ Held("stop")' = Len(buf) /\ Len(buf') = 0
        /\ Held("write")' = Held("write") /\ Held("loop")' = Held("loop")
    BY <1>0, <1>3, <1>6 DEF FinalFlush, Take, Held, Phases
  <2>2. QED
    BY <1>1, <2>1, FitStays DEF Sizes
<1>7. CASE Restart
  <2>1. Len(buf') = 0 /\ Held("write")' = 0 /\ Held("loop")' = 0 /\ Held("stop")' = 0
    BY <1>0, <1>3, <1>7 DEF Restart
  <2>2. QED
    BY <1>0, <2>1 DEF Sizes, Fit, Capped
<1>8. ASSUME NEW f \in Flushers, Commit(f) \/ Fail(f) PROVE Sizes'
  <2>1. Held(f)' = 0 /\ \A h \in Flushers \ {f} : Held(h)' = Held(h)
    BY <1>0, <1>3, <1>8 DEF Commit, Fail, Return, Held
  <2>2. batch[f] \in Seq(Row)
    BY <1>0
  <2>3. Len(Rebuffer(batch[f])) = Capped(Held(f)) + Len(buf)
    BY <1>0, <2>2, Rebuffered DEF Held
  <2>4. Len(buf') = Len(buf) \/ Len(buf') = Capped(Held(f)) + Len(buf)
    BY <1>8, <2>3 DEF Commit, Fail
  <2>5. CASE f = "write"
    <3>1. Held("write")' = 0 /\ Held("loop")' = Held("loop") /\ Held("stop")' = Held("stop")
      BY <1>0, <2>1, <2>5
    <3>2. QED
      BY <1>1, <2>4, <2>5, <3>1, FitStays DEF Sizes
  <2>6. CASE f = "loop"
    <3>1. Held("write")' = Held("write") /\ Held("loop")' = 0 /\ Held("stop")' = Held("stop")
      BY <1>0, <2>1, <2>6
    <3>2. QED
      BY <1>1, <2>4, <2>6, <3>1, FitStays DEF Sizes
  <2>7. CASE f = "stop"
    <3>1. Held("write")' = Held("write") /\ Held("loop")' = Held("loop") /\ Held("stop")' = 0
      BY <1>0, <2>1, <2>7
    <3>2. QED
      BY <1>1, <2>4, <2>7, <3>1, FitStays DEF Sizes
  <2>8. QED
    BY <2>5, <2>6, <2>7 DEF Flushers
<1>9. CASE Stop \/ UNCHANGED writerVars
  <2>1. buf' = buf /\ batch' = batch
    BY <1>9 DEF Stop, writerVars
  <2>2. QED
    BY <2>1 DEF Sizes, Held
<1>10. QED
  BY <1>4, <1>5, <1>6, <1>7, <1>8, <1>9 DEF WriterMove, WriterNext

WriterInv == WriterTypes /\ Phases /\ Sizes

\* The bounds of the buffer and of the batches at the start.
LEMMA WriterInvInit == Init => WriterInv
<1> SUFFICES ASSUME Init PROVE WriterInv
  OBVIOUS
<1>1. WriterInit
  BY DEF Init
<1>2. Phases
  BY <1>1 DEF WriterInit, Phases, Flushers
<1>3. Len(buf) = 0 /\ Held("write") = 0 /\ Held("loop") = 0 /\ Held("stop") = 0
  BY <1>1 DEF WriterInit, Held, Flushers
<1>4. Sizes
  BY <1>3, WriterConstants DEF Sizes, Fit, Capped
<1>5. QED
  BY <1>1, <1>2, <1>4, WriterTypesInit DEF WriterInv

\* Every step keeps them.
LEMMA WriterInvStep == WriterInv /\ [Next]_vars => WriterInv'
BY WriterMoves, WriterTypesStep, PhasesStep, SizesStep DEF WriterInv

\* A worker whose database is down keeps at most twice max_buffer in the buffer
\* and once more that, and one row, in flight, however its flushes overlap, fail
\* and are retried (writer.py:131).
THEOREM MemoryIsBounded == Spec => []MemoryBounded
<1>1. WriterInv => MemoryBounded
  <2> SUFFICES ASSUME WriterInv PROVE MemoryBounded
    OBVIOUS
  <2>1. Len(buf) \in Nat /\ \A f \in Flushers : Held(f) \in Nat
    BY DEF WriterInv, WriterTypes, Held
  <2>2. "write" \in Flushers /\ "loop" \in Flushers /\ "stop" \in Flushers
    BY DEF Flushers
  <2>3. Len(buf) <= 2 * MaxBuffer
    BY <2>1, <2>2, FitStays DEF WriterInv, Sizes
  <2>4. QED
    BY <2>3 DEF WriterInv, Sizes, Fit, MemoryBounded, Held
<1>2. QED
  BY <1>1, WriterInvInit, WriterInvStep, PTL DEF Spec

\* When stop returns without a failed final flush nothing is left in memory,
\* whatever the loop's last flush came to (writer.py:61-67).
THEOREM StopLeavesNothing == Spec => []StopStoresAll
<1>1. WriterInv => StopStoresAll
  <2> SUFFICES ASSUME WriterInv, stop = "stopped" PROVE Memory = {}
    BY DEF StopStoresAll
  <2>1. buf = <<>> /\ batch["write"] = <<>> /\ batch["loop"] = <<>> /\ batch["stop"] = <<>>
    BY DEF WriterInv, Phases
  <2>2. \A f \in Flushers : batch[f] = <<>>
    BY <2>1 DEF Flushers
  <2>3. ToSet(<<>>) = {}
    BY DEF ToSet
  <2>4. QED
    BY <2>1, <2>2, <2>3 DEF Memory
<1>2. QED
  BY <1>1, WriterInvInit, WriterInvStep, PTL DEF Spec

-----------------------------------------------------------------------------
(***************************************************************************)
(* The order of the rows, while no two flushes overlap: the rows of a bar  *)
(* rise through the batch in flight and the buffer behind it, and the      *)
(* table is never ahead of the last of them in either.                     *)
(***************************************************************************)

\* The rows of one bar are in the order of their versions.
Rising(rows) ==
  \A i, j \in DOMAIN rows : i < j /\ rows[i][1] = rows[j][1] => rows[i][2] < rows[j][2]

\* Those of one come before those of the other.
Behind(rows, later) ==
  \A i \in DOMAIN rows, j \in DOMAIN later : rows[i][1] = later[j][1] => rows[i][2] < later[j][2]

\* A table t has no version of a bar beyond all that rows holds of it.
CaughtBy(t, rows) ==
  \A i \in DOMAIN rows : \E j \in DOMAIN rows : rows[j][1] = rows[i][1] /\ t[rows[i][1]] <= rows[j][2]

KnownBy(a, rows) == \A i \in DOMAIN rows : rows[i][2] <= a[rows[i][1]]

Fine(rows) == Rising(rows) /\ CaughtBy(table, rows) /\ KnownBy(arrived, rows)

Ordered ==
  /\ \A f, h \in InFlight : f = h
  /\ Fine(buf)
  /\ \A f \in Flushers : Fine(batch[f]) /\ Behind(batch[f], buf)
  /\ \A b \in Bars : table[b] <= arrived[b]

\* A row is a bar and a version that is at least one.
LEMMA RowType ==
  ASSUME NEW rows \in Seq(Row), NEW i \in DOMAIN rows
  PROVE  rows[i][1] \in Bars /\ rows[i][2] \in Nat /\ rows[i][2] > 0
<1>1. rows[i] \in Row
  OBVIOUS
<1>2. QED
  BY <1>1, WriterConstants DEF Row

\* An empty batch is in order and behind nothing.
LEMMA FineEmpty == Fine(<<>>) /\ \A rows : Behind(<<>>, rows) /\ Behind(rows, <<>>)
BY DEF Fine, Rising, CaughtBy, KnownBy, Behind

\* Storing rows in their order takes the table to the last of them and never back.
LEMMA UpsertRises ==
  ASSUME NEW rows \in Seq(Row), table \in Tables, arrived \in Tables, Fine(rows),
         \A b \in Bars : table[b] <= arrived[b]
  PROVE  /\ Upsert(rows) \in Tables /\ CaughtBy(Upsert(rows), rows)
         /\ \A b \in Bars : Upsert(rows)[b] >= table[b] /\ Upsert(rows)[b] <= arrived[b]
         /\ \A i \in DOMAIN rows : rows[i][2] <= Upsert(rows)[rows[i][1]]
<1> DEFINE t == Upsert(rows)
<1>1. StoresLast(t, rows, DOMAIN rows)
  BY UpsertLast
<1>2. t \in Tables
  BY <1>1 DEF StoresLast
<1> HIDE DEF t
<1>3. \A b \in Bars : t[b] \in Nat /\ table[b] \in Nat /\ arrived[b] \in Nat
  BY <1>2, WriterConstants DEF Tables, Versions
<1>4. DOMAIN rows \subseteq Nat
  OBVIOUS
<1>5. ASSUME NEW i \in DOMAIN rows
      PROVE  \E m \in DOMAIN rows : /\ rows[m][1] = rows[i][1] /\ t[rows[i][1]] = rows[m][2]
                                   /\ rows[i][2] <= rows[m][2] /\ table[rows[i][1]] <= rows[m][2]
                                   /\ rows[m][2] <= arrived[rows[i][1]]
  <2> DEFINE b == rows[i][1]
  <2>1. b \in Bars
    BY RowType
  <2>2. PICK m \in DOMAIN rows : LastOf(b, rows, DOMAIN rows, m) /\ t[b] = rows[m][2]
    BY <1>1, <2>1 DEF StoresLast
  <2>3. rows[m][1] = b /\ \A j \in DOMAIN rows : rows[j][1] = b => j <= m
    BY <2>2 DEF LastOf
  <2>4. \A j \in DOMAIN rows : rows[j][1] = b => rows[j][2] <= rows[m][2]
    <3> SUFFICES ASSUME NEW j \in DOMAIN rows, rows[j][1] = b PROVE rows[j][2] <= rows[m][2]
      OBVIOUS
    <3>1. rows[j][2] \in Nat /\ rows[m][2] \in Nat
      BY RowType
    <3>2. j <= m
      BY <2>3
    <3>3. CASE j = m
      BY <3>1, <3>3
    <3>4. CASE j # m
      <4>1. j < m
        BY <1>4, <3>2, <3>4
      <4>2. rows[j][2] < rows[m][2]
        BY <2>3, <4>1 DEF Fine, Rising
      <4>3. QED
        BY <3>1, <4>2
    <3>5. QED
      BY <3>3, <3>4
  <2>5. PICK j \in DOMAIN rows : rows[j][1] = b /\ table[b] <= rows[j][2]
    BY DEF Fine, CaughtBy
  <2>6. rows[j][2] \in Nat /\ rows[m][2] \in Nat /\ table[b] \in Nat /\ rows[j][2] <= rows[m][2]
    BY <1>3, <2>1, <2>4, <2>5, RowType
  <2>7. table[b] <= rows[m][2]
    BY <2>5, <2>6
  <2>8. rows[m][2] <= arrived[b]
    BY <2>3 DEF Fine, KnownBy
  <2>9. QED
    BY <2>2, <2>3, <2>4, <2>7, <2>8
<1>6. CaughtBy(t, rows)
  <2> SUFFICES ASSUME NEW i \in DOMAIN rows
               PROVE  \E j \in DOMAIN rows : rows[j][1] = rows[i][1] /\ t[rows[i][1]] <= rows[j][2]
    BY DEF CaughtBy
  <2>1. PICK m \in DOMAIN rows : rows[m][1] = rows[i][1] /\ t[rows[i][1]] = rows[m][2]
    BY <1>5
  <2>2. rows[m][2] \in Nat
    BY RowType
  <2>3. QED
    BY <2>1, <2>2
<1>7. \A i \in DOMAIN rows : rows[i][2] <= t[rows[i][1]]
  BY <1>5
<1>8. ASSUME NEW b \in Bars PROVE t[b] >= table[b] /\ t[b] <= arrived[b]
  <2>1. CASE t[b] = table[b]
    BY <1>3, <2>1
  <2>2. ASSUME NEW i \in DOMAIN rows, rows[i][1] = b PROVE t[b] >= table[b] /\ t[b] <= arrived[b]
    BY <1>3, <1>5, <2>2
  <2>3. QED
    BY <1>1, <2>1, <2>2 DEF StoresLast, LastOf
<1>9. QED
  BY <1>2, <1>6, <1>7, <1>8 DEF t

\* The rows of a failed batch and those that came since, with a table that is
\* ahead of neither.
LEMMA RebufferFine ==
  ASSUME NEW rows \in Seq(Row), buf \in Seq(Row), NEW t \in Tables,
         Rising(rows), Rising(buf), Behind(rows, buf), CaughtBy(t, rows), CaughtBy(t, buf),
         NEW a, KnownBy(a, rows), KnownBy(a, buf)
  PROVE  Rising(Rebuffer(rows)) /\ CaughtBy(t, Rebuffer(rows)) /\ KnownBy(a, Rebuffer(rows))
<1> DEFINE k == Capped(Len(rows))
           d == Len(rows) - k
           R == Rebuffer(rows)
<1>1. k \in Nat /\ k <= Len(rows) /\ d \in Nat /\ d + k = Len(rows) /\ Len(buf) \in Nat /\ Len(rows) \in Nat
  BY WriterConstants DEF Capped
<1>2. /\ R \in Seq(Row) /\ Len(R) = k + Len(buf)
      /\ \A i \in 1 .. k : R[i] = rows[i + d]
      /\ \A i \in 1 .. Len(buf) : R[k + i] = buf[i]
  BY Rebuffered
<1> HIDE DEF k, d, R
<1>3. DOMAIN R = 1 .. k + Len(buf) /\ DOMAIN rows = 1 .. d + k /\ DOMAIN buf = 1 .. Len(buf)
  BY <1>1, <1>2
\* Each row of R is one of rows or one of buf, ...
<1>4. \A i \in DOMAIN R : \/ i \in 1 .. k /\ i + d \in DOMAIN rows /\ R[i] = rows[i + d]
                          \/ i > k /\ i - k \in DOMAIN buf /\ R[i] = buf[i - k]
  <2> TAKE i \in DOMAIN R
  <2>1. i \in Nat /\ i >= 1 /\ i <= k + Len(buf)
    BY <1>1, <1>3
  <2>2. CASE i <= k
    BY <1>1, <1>2, <1>3, <2>1, <2>2
  <2>3. CASE i > k
    <3>1. i - k \in 1 .. Len(buf) /\ k + (i - k) = i
      BY <1>1, <2>1, <2>3
    <3>2. QED
      BY <1>2, <1>3, <2>3, <3>1
  <2>4. QED
    BY <1>1, <2>1, <2>2, <2>3
\* ... and the last of rows and all of buf are in R.
<1>5. \A m \in DOMAIN rows : m > d => m - d \in DOMAIN R /\ m - d \in 1 .. k /\ R[m - d] = rows[m]
  <2> SUFFICES ASSUME NEW m \in DOMAIN rows, m > d
               PROVE  m - d \in DOMAIN R /\ m - d \in 1 .. k /\ R[m - d] = rows[m]
    OBVIOUS
  <2>1. m \in Nat /\ m <= d + k
    BY <1>1, <1>3
  <2>2. m - d \in 1 .. k /\ (m - d) + d = m
    BY <1>1, <2>1
  <2>3. m - d \in DOMAIN R
    BY <1>1, <1>3, <2>2
  <2>4. QED
    BY <1>2, <2>2, <2>3
<1>6. \A m \in DOMAIN buf : k + m \in DOMAIN R /\ R[k + m] = buf[m]
  BY <1>1, <1>2, <1>3
<1>7. Rising(R)
  <2> SUFFICES ASSUME NEW i \in DOMAIN R, NEW j \in DOMAIN R, i < j, R[i][1] = R[j][1]
               PROVE  R[i][2] < R[j][2]
    BY DEF Rising
  <2>1. i \in Nat /\ j \in Nat
    BY <1>3
  <2>2. CASE j \in 1 .. k
    <3>1. i \in 1 .. k
      BY <1>1, <1>4, <2>1, <2>2
    <3>2. /\ i + d \in DOMAIN rows /\ R[i] = rows[i + d] /\ j + d \in DOMAIN rows /\ R[j] = rows[j + d]
          /\ i + d < j + d
      BY <1>1, <1>4, <2>1, <2>2, <3>1
    <3>3. QED
      BY <3>2 DEF Rising
  <2>3. CASE i > k /\ j > k
    <3>1. /\ i - k \in DOMAIN buf /\ R[i] = buf[i - k] /\ j - k \in DOMAIN buf /\ R[j] = buf[j - k]
          /\ i - k < j - k
      BY <1>1, <1>4, <2>1, <2>3
    <3>2. QED
      BY <3>1 DEF Rising
  <2>4. CASE i \in 1 .. k /\ j > k
    <3>1. i + d \in DOMAIN rows /\ R[i] = rows[i + d] /\ j - k \in DOMAIN buf /\ R[j] = buf[j - k]
      BY <1>1, <1>4, <2>1, <2>4
    <3>2. QED
      BY <3>1 DEF Behind
  <2>5. QED
    BY <1>4, <2>2, <2>3, <2>4
<1>8. CaughtBy(t, R)
  <2> SUFFICES ASSUME NEW i \in DOMAIN R
               PROVE  \E j \in DOMAIN R : R[j][1] = R[i][1] /\ t[R[i][1]] <= R[j][2]
    BY DEF CaughtBy
  <2>1. i \in Nat
    BY <1>3
  <2>2. CASE i \in 1 .. k /\ i + d \in DOMAIN rows /\ R[i] = rows[i + d]
    <3> DEFINE b == R[i][1]
    <3>1. PICK m \in DOMAIN rows : rows[m][1] = b /\ t[b] <= rows[m][2]
      BY <2>2 DEF CaughtBy
    <3>2. b \in Bars /\ rows[m][2] \in Nat /\ rows[i + d][2] \in Nat /\ m \in Nat
      <4>1. rows[m][2] \in Nat
        BY RowType
      <4>2. rows[i + d][1] \in Bars /\ rows[i + d][2] \in Nat
        BY <2>2, RowType
      <4>3. m \in Nat
        BY <1>1, <1>3
      <4>4. QED
        BY <2>2, <4>1, <4>2, <4>3
    <3>3. t[b] \in Nat
      BY <3>2, WriterConstants DEF Tables, Versions
    <3>4. CASE m > d
      BY <1>5, <3>1, <3>4
    <3>5. CASE ~(m > d)
      <4>1. m < i + d
        BY <1>1, <2>1, <2>2, <3>2, <3>5
      <4>2. rows[m][2] < rows[i + d][2]
        BY <2>2, <3>1, <4>1 DEF Rising
      <4>3. t[b] <= R[i][2]
        BY <2>2, <3>1, <3>2, <3>3, <4>2
      <4>4. QED
        BY <4>3
    <3>6. QED
      BY <3>4, <3>5
  <2>3. CASE i > k /\ i - k \in DOMAIN buf /\ R[i] = buf[i - k]
    <3>1. PICK m \in DOMAIN buf : buf[m][1] = R[i][1] /\ t[R[i][1]] <= buf[m][2]
      BY <2>3 DEF CaughtBy
    <3>2. QED
      BY <1>6, <3>1
  <2>4. QED
    BY <1>4, <2>2, <2>3
<1>9. KnownBy(a, R)
  BY <1>4 DEF KnownBy
<1>10. QED
  BY <1>7, <1>8, <1>9 DEF R

\* Ordered in the next state, spelled out.
LEMMA OrderedNext ==
  ASSUME \A f, h \in Flushers : batch'[f] # <<>> /\ batch'[h] # <<>> => f = h,
         Rising(buf'), CaughtBy(table', buf'), KnownBy(arrived', buf'),
         \A f \in Flushers : /\ Rising(batch'[f]) /\ CaughtBy(table', batch'[f])
                            /\ KnownBy(arrived', batch'[f]) /\ Behind(batch'[f], buf'),
         \A b \in Bars : table'[b] <= arrived'[b]
  PROVE  Ordered'
<1>1. \A f, h \in InFlight' : f = h
  BY DEF InFlight
<1>2. QED
  BY <1>1 DEF Ordered, Fine, Rising, CaughtBy, KnownBy, Behind

\* A row that arrives is the newest of its bar.
LEMMA AppendFine ==
  ASSUME WriterTypes, Ordered, NEW b \in Bars, arrived[b] < MaxRows
  PROVE  LET rows == Append(buf, <<b, arrived[b] + 1>>)
             a == [arrived EXCEPT ![b] = arrived[b] + 1]
         IN  /\ Rising(rows) /\ CaughtBy(table, rows) /\ KnownBy(a, rows)
             /\ \A f \in Flushers : Behind(batch[f], rows) /\ KnownBy(a, batch[f])
             /\ \A c \in Bars : table[c] <= a[c]
<1> DEFINE rows == Append(buf, <<b, arrived[b] + 1>>)
           a == [arrived EXCEPT ![b] = arrived[b] + 1]
           n == Len(buf)
<1>1. /\ buf \in Seq(Row) /\ arrived \in Tables /\ table \in Tables
      /\ \A f \in Flushers : batch[f] \in Seq(Row)
  BY DEF WriterTypes
<1>2. /\ \A c \in Bars : arrived[c] \in Nat /\ table[c] \in Nat /\ table[c] <= arrived[c]
      /\ \A c \in Bars : a[c] = IF c = b THEN arrived[b] + 1 ELSE arrived[c]
  BY <1>1, WriterConstants DEF Tables, Versions, Ordered
<1> DEFINE last == <<b, arrived[b] + 1>>
<1>3. last[1] = b /\ last[2] = arrived[b] + 1
  OBVIOUS
<1> HIDE DEF last
<1>4. n \in Nat /\ DOMAIN rows = 1 .. n + 1 /\ DOMAIN buf = 1 .. n /\ rows[n + 1] = last
      /\ \A i \in 1 .. n : rows[i] = buf[i]
  BY <1>1 DEF last
<1>5. \A i \in DOMAIN buf : buf[i][1] \in Bars /\ buf[i][2] \in Nat /\ buf[i][2] <= arrived[buf[i][1]]
  <2> TAKE i \in DOMAIN buf
  <2>1. buf[i][1] \in Bars /\ buf[i][2] \in Nat
    BY <1>1, RowType
  <2>2. QED
    BY <2>1 DEF Ordered, Fine, KnownBy
<1>6. \A f \in Flushers : \A i \in DOMAIN batch[f] :
        batch[f][i][1] \in Bars /\ batch[f][i][2] \in Nat /\ batch[f][i][2] <= arrived[batch[f][i][1]]
  <2> TAKE f \in Flushers
  <2> TAKE i \in DOMAIN batch[f]
  <2>1. batch[f] \in Seq(Row)
    BY <1>1
  <2>2. batch[f][i][1] \in Bars /\ batch[f][i][2] \in Nat
    BY <2>1, RowType
  <2>3. QED
    BY <2>2 DEF Ordered, Fine, KnownBy
<1> HIDE DEF rows, n, a
<1>7. Rising(rows)
  <2> SUFFICES ASSUME NEW i \in DOMAIN rows, NEW j \in DOMAIN rows, i < j, rows[i][1] = rows[j][1]
               PROVE  rows[i][2] < rows[j][2]
    BY DEF Rising
  <2>1. i \in 1 .. n /\ (j \in 1 .. n \/ j = n + 1)
    BY <1>4
  <2>2. CASE j \in 1 .. n
    <3>1. i \in DOMAIN buf /\ j \in DOMAIN buf /\ rows[i] = buf[i] /\ rows[j] = buf[j]
      BY <1>4, <2>1, <2>2
    <3>2. QED
      BY <3>1 DEF Ordered, Fine, Rising
  <2>3. CASE j = n + 1
    <3>1. i \in DOMAIN buf /\ rows[i] = buf[i] /\ rows[j] = last /\ buf[i][1] = b
      BY <1>3, <1>4, <2>1, <2>3
    <3>2. QED
      BY <1>2, <1>3, <1>5, <3>1
  <2>4. QED
    BY <2>1, <2>2, <2>3
<1>8. CaughtBy(table, rows)
  <2> SUFFICES ASSUME NEW i \in DOMAIN rows
               PROVE  \E j \in DOMAIN rows : rows[j][1] = rows[i][1] /\ table[rows[i][1]] <= rows[j][2]
    BY DEF CaughtBy
  <2>1. CASE i = n + 1
    <3>1. rows[i][1] = b /\ rows[i][2] = arrived[b] + 1
      BY <1>3, <1>4, <2>1
    <3>2. table[b] <= arrived[b] + 1
      BY <1>2
    <3>3. QED
      BY <3>1, <3>2
  <2>2. CASE i \in 1 .. n
    <3>1. i \in DOMAIN buf /\ rows[i] = buf[i]
      BY <1>4, <2>2
    <3>2. PICK m \in DOMAIN buf : buf[m][1] = buf[i][1] /\ table[buf[i][1]] <= buf[m][2]
      BY <3>1 DEF Ordered, Fine, CaughtBy
    <3>3. m \in DOMAIN rows /\ rows[m] = buf[m]
      BY <1>4
    <3>4. QED
      BY <3>1, <3>2, <3>3
  <2>3. QED
    BY <1>4, <2>1, <2>2
<1>9. KnownBy(a, rows)
  <2> SUFFICES ASSUME NEW i \in DOMAIN rows PROVE rows[i][2] <= a[rows[i][1]]
    BY DEF KnownBy
  <2>1. CASE i = n + 1
    BY <1>2, <1>3, <1>4, <2>1
  <2>2. CASE i \in 1 .. n
    <3>1. i \in DOMAIN buf /\ rows[i] = buf[i]
      BY <1>4, <2>2
    <3>2. QED
      BY <1>2, <1>5, <3>1
  <2>3. QED
    BY <1>4, <2>1, <2>2
<1>10. \A f \in Flushers : Behind(batch[f], rows) /\ KnownBy(a, batch[f])
  <2> TAKE f \in Flushers
  <2>1. KnownBy(a, batch[f])
    BY <1>2, <1>6 DEF KnownBy
  <2>2. ASSUME NEW i \in DOMAIN batch[f], NEW j \in DOMAIN rows, batch[f][i][1] = rows[j][1]
        PROVE  batch[f][i][2] < rows[j][2]
    <3>1. CASE j = n + 1
      <4>1. batch[f][i][1] = b /\ rows[j][2] = arrived[b] + 1
        BY <1>3, <1>4, <2>2, <3>1
      <4>2. batch[f][i][2] \in Nat /\ batch[f][i][2] <= arrived[b] /\ arrived[b] \in Nat
        BY <1>2, <1>6, <4>1
      <4>3. QED
        BY <4>1, <4>2
    <3>2. CASE j \in 1 .. n
      <4>1. j \in DOMAIN buf /\ rows[j] = buf[j] /\ Behind(batch[f], buf)
        BY <1>4, <3>2 DEF Ordered
      <4>2. QED
        BY <2>2, <4>1 DEF Behind
    <3>3. QED
      BY <1>4, <3>1, <3>2
  <2>3. QED
    BY <2>1, <2>2 DEF Behind
<1>11. \A c \in Bars : table[c] <= a[c]
  BY <1>2
<1>12. QED
  BY <1>7, <1>8, <1>9, <1>10, <1>11 DEF rows, a

\* A flusher that takes rows, in their order, while none other is in flight.
LEMMA TakeOrdered ==
  ASSUME WriterTypes, Ordered, NEW f \in Flushers, batch[f] = <<>>, NEW rows, Take(f, rows), ~raced',
         table' = table, Rising(rows), CaughtBy(table, rows), KnownBy(arrived', rows),
         \A h \in Flushers : KnownBy(arrived', batch[h]),
         \A b \in Bars : table[b] <= arrived'[b]
  PROVE  Ordered'
<1>1. batch \in [Flushers -> Seq(Row)]
  BY DEF WriterTypes
<1>2. buf' = <<>> /\ batch'[f] = rows /\ \A h \in Flushers \ {f} : batch'[h] = batch[h]
  BY <1>1 DEF Take
<1>3. rows = <<>> \/ \A h \in Flushers : batch[h] = <<>>
  BY DEF Take, InFlight
<1>4. \A g, h \in Flushers : batch'[g] # <<>> /\ batch'[h] # <<>> => g = h
  <2> SUFFICES ASSUME NEW g \in Flushers, NEW h \in Flushers, batch'[g] # <<>>, batch'[h] # <<>>
               PROVE  g = h
    OBVIOUS
  <2>1. CASE rows = <<>>
    <3>1. g \in InFlight /\ h \in InFlight
      BY <1>2, <2>1 DEF InFlight
    <3>2. QED
      BY <3>1 DEF Ordered
  <2>2. CASE \A e \in Flushers : batch[e] = <<>>
    BY <1>2, <2>2
  <2>3. QED
    BY <1>3, <2>1, <2>2
<1>5. Rising(buf') /\ CaughtBy(table', buf') /\ KnownBy(arrived', buf')
  BY <1>2 DEF Rising, CaughtBy, KnownBy
<1>6. ASSUME NEW h \in Flushers
      PROVE  /\ Rising(batch'[h]) /\ CaughtBy(table', batch'[h])
             /\ KnownBy(arrived', batch'[h]) /\ Behind(batch'[h], buf')
  <2>1. Behind(batch'[h], buf')
    BY <1>2 DEF Behind
  <2>2. CASE h = f
    BY <1>2, <2>1, <2>2
  <2>3. CASE h # f
    <3>1. batch'[h] = batch[h] /\ Fine(batch[h])
      BY <1>2, <2>3 DEF Ordered
    <3>2. QED
      BY <2>1, <3>1 DEF Fine
  <2>4. QED
    BY <2>2, <2>3
<1>7. \A b \in Bars : table'[b] <= arrived'[b]
  OBVIOUS
<1>8. QED
  BY <1>4, <1>5, <1>6, <1>7, OrderedNext

\* A batch that is stored is not ahead of the rows that came since.
LEMMA UpsertBehind ==
  ASSUME NEW rows \in Seq(Row), buf \in Seq(Row), table \in Tables, Behind(rows, buf), CaughtBy(table, buf)
  PROVE  CaughtBy(Upsert(rows), buf)
<1> DEFINE t == Upsert(rows)
<1>1. StoresLast(t, rows, DOMAIN rows)
  BY UpsertLast
<1> HIDE DEF t
<1> SUFFICES ASSUME NEW i \in DOMAIN buf
             PROVE  \E j \in DOMAIN buf : buf[j][1] = buf[i][1] /\ t[buf[i][1]] <= buf[j][2]
  BY DEF CaughtBy, t
<1>2. buf[i][1] \in Bars /\ buf[i][2] \in Nat
  BY RowType
<1>3. CASE t[buf[i][1]] = table[buf[i][1]]
  BY <1>3 DEF CaughtBy
<1>4. ASSUME NEW m \in DOMAIN rows, rows[m][1] = buf[i][1], t[buf[i][1]] = rows[m][2]
      PROVE  t[buf[i][1]] <= buf[i][2]
  <2>1. rows[m][2] < buf[i][2] /\ rows[m][2] \in Nat
    BY <1>4, RowType DEF Behind
  <2>2. QED
    BY <1>2, <1>4, <2>1
<1>5. QED
  BY <1>1, <1>2, <1>3, <1>4 DEF StoresLast, LastOf

\* A flusher that returns leaves no batch in flight.
LEMMA ReturnOrdered ==
  ASSUME WriterTypes, Ordered, NEW f \in Flushers, batch[f] # <<>>, batch' = [batch EXCEPT ![f] = <<>>],
         Rising(buf'), CaughtBy(table', buf'), KnownBy(arrived, buf'), UNCHANGED arrived,
         \A b \in Bars : table'[b] <= arrived[b]
  PROVE  Ordered'
<1>1. \A h \in Flushers : batch'[h] = <<>>
  BY DEF Ordered, InFlight, WriterTypes
<1>2. \A h \in Flushers : /\ Rising(batch'[h]) /\ CaughtBy(table', batch'[h])
                         /\ KnownBy(arrived', batch'[h]) /\ Behind(batch'[h], buf')
  BY <1>1 DEF Rising, CaughtBy, KnownBy, Behind
<1>3. KnownBy(arrived', buf') /\ \A b \in Bars : table'[b] <= arrived'[b]
  OBVIOUS
<1>4. QED
  BY <1>1, <1>2, <1>3, OrderedNext

\* What is known of a batch in flight.
LEMMA InFlightFacts ==
  ASSUME WriterTypes, Ordered, NEW f \in Flushers
  PROVE  /\ batch[f] \in Seq(Row) /\ buf \in Seq(Row) /\ table \in Tables /\ arrived \in Tables
         /\ Fine(batch[f]) /\ Fine(buf) /\ Behind(batch[f], buf)
         /\ \A b \in Bars : table[b] <= arrived[b]
BY DEF WriterTypes, Ordered

\* Every step without an overlap keeps the order.
LEMMA OrderedStep ==
  WriterTypes /\ Phases /\ Ordered /\ (WriterMove \/ UNCHANGED writerVars) /\ ~raced' => Ordered'
<1> SUFFICES ASSUME WriterTypes, Phases, Ordered, WriterMove \/ UNCHANGED writerVars, ~raced'
             PROVE  Ordered'
  OBVIOUS
<1>0. "write" \in Flushers /\ "loop" \in Flushers /\ "stop" \in Flushers
  BY DEF Flushers
<1>1. ASSUME NEW b \in Bars, Write(b) PROVE Ordered'
  <2> DEFINE rows == Append(buf, <<b, arrived[b] + 1>>)
             a == [arrived EXCEPT ![b] = arrived[b] + 1]
  <2>1. arrived' = a /\ arrived[b] < MaxRows /\ table' = table /\ batch["write"] = <<>>
    BY <1>1 DEF Write
  <2>2. /\ Rising(rows) /\ CaughtBy(table, rows) /\ KnownBy(a, rows)
        /\ \A f \in Flushers : Behind(batch[f], rows) /\ KnownBy(a, batch[f])
        /\ \A c \in Bars : table[c] <= a[c]
    BY <2>1, AppendFine
  <2>3. (buf' = rows /\ UNCHANGED batch) \/ Take("write", rows)
    BY <1>1 DEF Write
  <2> HIDE DEF rows, a
  <2>4. CASE buf' = rows /\ UNCHANGED batch
    <3>1. \A f, h \in Flushers : batch'[f] # <<>> /\ batch'[h] # <<>> => f = h
      BY <2>4 DEF Ordered, InFlight
    <3>2. Rising(buf') /\ CaughtBy(table', buf') /\ KnownBy(arrived', buf')
      BY <2>1, <2>2, <2>4
    <3>3. \A f \in Flushers : /\ Rising(batch'[f]) /\ CaughtBy(table', batch'[f])
                             /\ KnownBy(arrived', batch'[f]) /\ Behind(batch'[f], buf')
      BY <2>1, <2>2, <2>4 DEF Ordered, Fine
    <3>4. \A c \in Bars : table'[c] <= arrived'[c]
      BY <2>1, <2>2
    <3>5. QED
      BY <3>1, <3>2, <3>3, <3>4, OrderedNext
  <2>5. CASE Take("write", rows)
    BY <1>0, <2>1, <2>2, <2>5, TakeOrdered
  <2>6. QED
    BY <2>3, <2>4, <2>5
<1>2. ASSUME NEW f \in Flushers, Take(f, buf), batch[f] = <<>>, UNCHANGED <<table, arrived>> PROVE Ordered'
  <2>1. Rising(buf) /\ CaughtBy(table, buf) /\ KnownBy(arrived', buf)
        /\ \A h \in Flushers : KnownBy(arrived', batch[h])
    BY <1>2 DEF Ordered, Fine
  <2>2. table' = table /\ \A b \in Bars : table[b] <= arrived'[b]
    BY <1>2 DEF Ordered
  <2>3. QED
    BY <1>2, <2>1, <2>2, TakeOrdered
<1>3. CASE LoopWakes
  BY <1>0, <1>2, <1>3 DEF LoopWakes
<1>4. CASE FinalFlush
  BY <1>0, <1>2, <1>4 DEF FinalFlush, Phases
<1>5. CASE Restart
  <2>1. buf' = <<>> /\ (\A f \in Flushers : batch'[f] = <<>>) /\ UNCHANGED <<table, arrived>>
    BY <1>5 DEF Restart
  <2>2. \A b \in Bars : table'[b] <= arrived'[b]
    BY <2>1 DEF Ordered
  <2>3. QED
    BY <2>1, <2>2, OrderedNext DEF Rising, CaughtBy, KnownBy, Behind
<1>6. ASSUME NEW f \in Flushers, Commit(f) PROVE Ordered'
  <2> DEFINE rows == batch[f]
  <2>1. /\ rows # <<>> /\ table' = Upsert(rows) /\ batch' = [batch EXCEPT ![f] = <<>>]
        /\ buf' = buf /\ UNCHANGED arrived
    BY <1>6 DEF Commit, Return
  <2>2. \A b \in Bars : Upsert(rows)[b] <= arrived[b]
    BY InFlightFacts, UpsertRises
  <2>3. CaughtBy(Upsert(rows), buf)
    BY InFlightFacts, UpsertBehind DEF Fine
  <2>4. Rising(buf) /\ KnownBy(arrived, buf)
    BY DEF Ordered, Fine
  <2>5. QED
    BY <2>1, <2>2, <2>3, <2>4, ReturnOrdered
<1>7. ASSUME NEW f \in Flushers, Fail(f) PROVE Ordered'
  <2> DEFINE rows == batch[f]
  <2>1. /\ rows # <<>> /\ (table' = table \/ table' = Upsert(rows)) /\ batch' = [batch EXCEPT ![f] = <<>>]
        /\ buf' = Rebuffer(rows) /\ UNCHANGED arrived
    BY <1>7 DEF Fail, Return
  <2>2. /\ rows \in Seq(Row) /\ buf \in Seq(Row) /\ table \in Tables /\ arrived \in Tables
        /\ Fine(rows) /\ Fine(buf) /\ Behind(rows, buf) /\ \A b \in Bars : table[b] <= arrived[b]
    BY InFlightFacts
  <2> HIDE DEF rows
  <2>3. /\ Upsert(rows) \in Tables /\ CaughtBy(Upsert(rows), rows) /\ CaughtBy(Upsert(rows), buf)
        /\ \A b \in Bars : Upsert(rows)[b] <= arrived[b]
    BY <2>2, UpsertRises, UpsertBehind DEF Fine
  <2>4. /\ table' \in Tables /\ CaughtBy(table', rows) /\ CaughtBy(table', buf)
        /\ \A b \in Bars : table'[b] <= arrived[b]
    BY <2>1, <2>2, <2>3 DEF Fine
  <2>5. /\ Rising(Rebuffer(rows)) /\ CaughtBy(table', Rebuffer(rows)) /\ KnownBy(arrived, Rebuffer(rows))
    BY <2>2, <2>4, RebufferFine DEF Fine
  <2>6. QED
    BY <2>1, <2>4, <2>5, ReturnOrdered DEF rows
<1>8. CASE Stop \/ UNCHANGED writerVars
  <2>1. UNCHANGED <<buf, batch, table, arrived>>
    BY <1>8 DEF Stop, writerVars
  <2>2. QED
    BY <2>1 DEF Ordered, InFlight, Fine, Rising, CaughtBy, KnownBy, Behind
<1>9. QED
  BY <1>1, <1>3, <1>4, <1>5, <1>6, <1>7, <1>8 DEF WriterMove, WriterNext

OrderInv == WriterInv /\ (~raced => Ordered)

\* Once flushes have overlapped, that is not forgotten.
LEMMA RacedStays == raced /\ (WriterMove \/ UNCHANGED writerVars) => raced'
<1> SUFFICES ASSUME raced, WriterMove \/ UNCHANGED writerVars PROVE raced'
  OBVIOUS
<1>1. CASE WriterMove
  BY <1>1 DEF WriterMove, WriterNext, Write, LoopWakes, FinalFlush, Stop, Restart, Commit, Fail, Take
<1>2. CASE UNCHANGED writerVars
  BY <1>2 DEF writerVars
<1>3. QED
  BY <1>1, <1>2

\* At the start no batch is in flight, so none is behind the table.
LEMMA OrderInvInit == Init => OrderInv
<1> SUFFICES ASSUME Init PROVE OrderInv
  OBVIOUS
<1>1. WriterInv
  BY WriterInvInit
<1>2. buf = <<>> /\ (\A f \in Flushers : batch[f] = <<>>) /\ \A b \in Bars : table[b] <= arrived[b]
  BY DEF Init, WriterInit
<1>3. Ordered
  BY <1>2, FineEmpty DEF Ordered, InFlight
<1>4. QED
  BY <1>1, <1>3 DEF OrderInv

\* Every step keeps the batches in order until flushes overlap.
LEMMA OrderInvStep == OrderInv /\ [Next]_vars => OrderInv'
BY WriterMoves, WriterInvStep, OrderedStep, RacedStays DEF OrderInv, WriterInv

\* No batch in flight is older than the table.
LEMMA TableRises == OrderInv /\ [Next]_vars /\ ~raced' => \A b \in Bars : table'[b] >= table[b]
<1> SUFFICES ASSUME OrderInv, [Next]_vars, ~raced', NEW b \in Bars PROVE table'[b] >= table[b]
  OBVIOUS
<1>1. WriterTypes /\ Ordered /\ (WriterMove \/ UNCHANGED writerVars)
  BY WriterMoves, RacedStays DEF OrderInv, WriterInv
<1>2. table[b] \in Nat
  BY <1>1, WriterConstants DEF WriterTypes, Tables, Versions
<1>3. CASE table' = table
  BY <1>2, <1>3
<1>4. ASSUME NEW f \in Flushers, table' = Upsert(batch[f]) PROVE table'[b] >= table[b]
  <2>1. /\ batch[f] \in Seq(Row) /\ table \in Tables /\ arrived \in Tables /\ Fine(batch[f])
        /\ \A c \in Bars : table[c] <= arrived[c]
    BY <1>1, InFlightFacts
  <2>2. QED
    BY <1>4, <2>1, UpsertRises
<1>5. table' = table \/ \E f \in Flushers : table' = Upsert(batch[f])
  BY <1>1 DEF WriterMove, WriterNext, Write, LoopWakes, FinalFlush, Stop, Restart, Commit, Fail, writerVars
<1>6. QED
  BY <1>3, <1>4, <1>5

\* The table never takes a bar back, through failures, lost answers, retries and
\* restarts, as long as no two flushes overlap.
THEOREM TableNeverBack == Spec => NeverBack
<1>1. OrderInv /\ [Next]_vars => [~raced' => \A b \in Bars : table'[b] >= table[b]]_writerVars
  BY TableRises
<1>2. QED
  BY <1>1, OrderInvInit, OrderInvStep, PTL DEF Spec, NeverBack

\* The row of a batch or of the buffer is in memory.
LEMMA MemoryRows ==
  /\ ToSet(buf) \subseteq Memory
  /\ \A f \in Flushers : ToSet(batch[f]) \subseteq Memory
BY DEF Memory

\* A row that arrives is in memory, and those that were there stay.
LEMMA WriteKeeps ==
  ASSUME WriterTypes, NEW b \in Bars, Write(b)
  PROVE  Memory \cup {<<b, arrived[b] + 1>>} \subseteq Memory'
<1> DEFINE last == <<b, arrived[b] + 1>>
           rows == Append(buf, last)
<1>1. batch["write"] = <<>> /\ "write" \in Flushers /\ buf \in Seq(Row)
      /\ batch \in [Flushers -> Seq(Row)]
  BY DEF Write, Flushers, WriterTypes
<1>2. ToSet(rows) = ToSet(buf) \cup {last}
  <2> HIDE DEF last
  <2>1. Len(buf) \in Nat /\ DOMAIN rows = 1 .. Len(buf) + 1 /\ rows[Len(buf) + 1] = last
        /\ DOMAIN buf = 1 .. Len(buf) /\ \A i \in 1 .. Len(buf) : rows[i] = buf[i]
    BY <1>1
  <2> HIDE DEF rows
  <2>2. QED
    BY <2>1 DEF ToSet
<1>3. (buf' = rows /\ UNCHANGED batch) \/ Take("write", rows)
  BY DEF Write
<1>4. ToSet(<<>>) = {}
  BY DEF ToSet
<1> HIDE DEF rows, last
<1>5. CASE buf' = rows /\ UNCHANGED batch
  <2>1. ToSet(buf') = ToSet(buf) \cup {last} /\ batch' = batch
    BY <1>2, <1>5
  <2>2. Memory' = ToSet(buf') \cup UNION {ToSet(batch[f]) : f \in Flushers}
    BY <2>1 DEF Memory
  <2>3. QED
    BY <2>1, <2>2 DEF Memory, last
<1>6. CASE Take("write", rows)
  <2>1. batch'["write"] = rows /\ \A h \in Flushers \ {"write"} : batch'[h] = batch[h]
    BY <1>1, <1>6 DEF Take
  <2>2. ToSet(rows) \subseteq Memory' /\ \A h \in Flushers \ {"write"} : ToSet(batch[h]) \subseteq Memory'
    BY <1>1, <2>1 DEF Memory
  <2>3. Memory \subseteq ToSet(rows) \cup UNION {ToSet(batch[h]) : h \in Flushers \ {"write"}}
    BY <1>1, <1>2, <1>4 DEF Memory
  <2>4. ASSUME NEW row \in UNION {ToSet(batch[h]) : h \in Flushers \ {"write"}} PROVE row \in Memory'
    BY <2>2, <2>4
  <2>5. UNION {ToSet(batch[h]) : h \in Flushers \ {"write"}} \subseteq Memory'
    BY <2>4
  <2>6. last \in Memory' /\ Memory \subseteq Memory'
    BY <1>2, <2>2, <2>3, <2>5
  <2>7. QED
    BY <2>6 DEF last
<1>7. QED
  BY <1>3, <1>5, <1>6

\* A flusher that takes the buffer forgets nothing.
LEMMA TakeKeeps ==
  ASSUME WriterTypes, NEW f \in Flushers, batch[f] = <<>>, Take(f, buf)
  PROVE  Memory \subseteq Memory'
<1>1. batch'[f] = buf /\ \A h \in Flushers \ {f} : batch'[h] = batch[h]
  BY DEF WriterTypes, Take
<1>2. ToSet(buf) \subseteq Memory' /\ \A h \in Flushers \ {f} : ToSet(batch[h]) \subseteq Memory'
  BY <1>1 DEF Memory
<1>3. ToSet(<<>>) = {}
  BY DEF ToSet
<1>4. Memory \subseteq ToSet(buf) \cup UNION {ToSet(batch[h]) : h \in Flushers \ {f}}
  BY <1>3 DEF Memory
<1>5. QED
  BY <1>2, <1>4

\* A flusher that returns leaves what the others hold.
LEMMA ReturnKeeps ==
  ASSUME WriterTypes, NEW f \in Flushers, batch' = [batch EXCEPT ![f] = <<>>],
         ToSet(buf) \subseteq ToSet(buf')
  PROVE  Memory \subseteq Memory' \cup ToSet(batch[f])
<1>1. \A h \in Flushers \ {f} : batch'[h] = batch[h]
  BY DEF WriterTypes
<1>2. ToSet(buf) \subseteq Memory' /\ \A h \in Flushers \ {f} : ToSet(batch[h]) \subseteq Memory'
  BY <1>1 DEF Memory
<1>3. Memory \subseteq ToSet(buf) \cup ToSet(batch[f]) \cup UNION {ToSet(batch[h]) : h \in Flushers \ {f}}
  BY DEF Memory
<1>4. QED
  BY <1>2, <1>3

\* No row vanishes: it stays in memory until its transaction has stored it, or
\* the cap or the end of the process takes it.
THEOREM RowsNeverVanish == Spec => NothingVanishes
<1> DEFINE Kept == \A b \in Bars, v \in 1 .. MaxRows :
                     <<b, v>> \in Memory \/ v \in arrived[b] + 1 .. arrived'[b] =>
                       <<b, v>> \in Memory' \/ table'[b] >= v \/ (raced' /\ table'[b] # 0)
           Capping == Len(buf') >= MaxBuffer /\ \E f \in InFlight : Len(batch[f]) > MaxBuffer
<1>1. ASSUME OrderInv, [Next]_vars PROVE [Restart \/ Capping \/ Kept]_writerVars
  <2>1. WriterTypes /\ Phases /\ (WriterMove \/ UNCHANGED writerVars) /\ (~raced => Ordered)
    BY <1>1, WriterMoves DEF OrderInv, WriterInv
  <2>2. MaxBuffer \in Nat \ {0} /\ MaxRows \in Nat \ {0} /\ arrived \in Tables
        /\ \A b \in Bars : arrived[b] \in Nat
    BY <2>1, WriterConstants DEF WriterTypes, Tables, Versions
  <2>3. ASSUME arrived' = arrived, Memory \subseteq Memory' PROVE Kept
    BY <2>2, <2>3
  <2>4. ASSUME NEW c \in Bars, Write(c) PROVE Kept
    <3>1. Memory \cup {<<c, arrived[c] + 1>>} \subseteq Memory'
      BY <2>1, <2>4, WriteKeeps
    <3>2. \A b \in Bars : arrived'[b] = IF b = c THEN arrived[c] + 1 ELSE arrived[b]
      BY <2>2, <2>4 DEF Write, Tables
    <3>3. \A b \in Bars : \A v \in arrived[b] + 1 .. arrived'[b] : b = c /\ v = arrived[c] + 1
      BY <2>2, <3>2
    <3>4. QED
      BY <3>1, <3>3
  <2>5. CASE LoopWakes \/ FinalFlush
    <3>1. PICK f \in Flushers : Take(f, buf) /\ batch[f] = <<>>
      BY <2>1, <2>5 DEF LoopWakes, FinalFlush, Phases, Flushers
    <3>2. arrived' = arrived
      BY <2>5 DEF LoopWakes, FinalFlush
    <3>3. Memory \subseteq Memory'
      BY <2>1, <3>1, TakeKeeps
    <3>4. QED
      BY <2>3, <3>2, <3>3
  <2>6. CASE Stop
    <3>1. arrived' = arrived /\ Memory' = Memory
      BY <2>6 DEF Stop, Memory
    <3>2. QED
      BY <2>3, <3>1
  <2>7. ASSUME NEW f \in Flushers, Commit(f) PROVE Kept
    <3> DEFINE rows == batch[f]
    <3>1. /\ table' = Upsert(rows) /\ buf' = buf /\ batch' = [batch EXCEPT ![f] = <<>>]
          /\ arrived' = arrived /\ raced' = raced
      BY <2>7 DEF Commit, Return
    <3>2. Memory \subseteq Memory' \cup ToSet(rows)
      BY <2>1, <3>1, ReturnKeeps
    <3>3. rows \in Seq(Row) /\ table \in Tables
      BY <2>1 DEF WriterTypes
    <3> HIDE DEF rows
    <3>4. ASSUME NEW b \in Bars, NEW v \in 1 .. MaxRows, <<b, v>> \in ToSet(rows)
          PROVE  table'[b] >= v \/ (raced' /\ table'[b] # 0)
      <4>1. PICK i \in DOMAIN rows : rows[i] = <<b, v>>
        BY <3>4 DEF ToSet
      <4>2. rows[i][1] = b /\ rows[i][2] = v
        BY <4>1
      <4>3. CASE raced
        <5>1. StoresLast(table', rows, DOMAIN rows)
          BY <3>1, <3>3, UpsertLast
        <5>2. PICK m \in DOMAIN rows : table'[b] = rows[m][2]
          BY <4>2, <5>1 DEF StoresLast, LastOf
        <5>3. table'[b] # 0
          BY <3>3, <5>2, RowType
        <5>4. QED
          BY <3>1, <4>3, <5>3
      <4>4. CASE ~raced
        <5>1. arrived \in Tables /\ Fine(rows) /\ \A c \in Bars : table[c] <= arrived[c]
          BY <2>1, <4>4, InFlightFacts DEF rows
        <5>2. Upsert(rows) \in Tables /\ rows[i][2] <= Upsert(rows)[rows[i][1]]
          BY <3>3, <5>1, UpsertRises
        <5>3. table'[b] \in Nat /\ v <= table'[b]
          BY <3>1, <4>2, <5>2, <2>2 DEF Tables, Versions
        <5>4. QED
          BY <5>3
      <4>5. QED
        BY <4>3, <4>4
    <3>5. QED
      BY <2>2, <3>1, <3>2, <3>4
  <2>8. ASSUME NEW f \in Flushers, Fail(f) PROVE Capping \/ Kept
    <3> DEFINE rows == batch[f]
    <3>1. /\ rows # <<>> /\ buf' = Rebuffer(rows) /\ batch' = [batch EXCEPT ![f] = <<>>]
          /\ arrived' = arrived
      BY <2>8 DEF Fail, Return
    <3>2. rows \in Seq(Row) /\ buf \in Seq(Row) /\ Len(rows) \in Nat /\ Len(buf) \in Nat
      BY <2>1 DEF WriterTypes
    <3>3. CASE Len(rows) > MaxBuffer
      <4>1. Len(buf') = MaxBuffer + Len(buf)
        BY <3>1, <3>2, <3>3, Rebuffered DEF Capped
      <4>2. Len(buf') >= MaxBuffer /\ f \in InFlight
        BY <2>2, <3>1, <3>2, <4>1 DEF InFlight
      <4>3. QED
        BY <3>3, <4>2
    <3>4. CASE ~(Len(rows) > MaxBuffer)
      <4>1. Capped(Len(rows)) = Len(rows)
        BY <3>4 DEF Capped
      <4>2. ToSet(rows) \subseteq ToSet(buf') /\ ToSet(buf) \subseteq ToSet(buf')
        <5> HIDE DEF rows
        <5> DEFINE R == Rebuffer(rows)
        <5>0. /\ R \in Seq(Row) /\ Len(R) = Capped(Len(rows)) + Len(buf)
              /\ \A i \in 1 .. Capped(Len(rows)) : R[i] = rows[i + (Len(rows) - Capped(Len(rows)))]
              /\ \A i \in 1 .. Len(buf) : R[Capped(Len(rows)) + i] = buf[i]
          BY <3>2, Rebuffered
        <5> HIDE DEF R
        <5>1. /\ R \in Seq(Row) /\ Len(R) = Len(rows) + Len(buf)
              /\ \A i \in 1 .. Len(rows) : R[i] = rows[i + (Len(rows) - Len(rows))]
              /\ \A i \in 1 .. Len(buf) : R[Len(rows) + i] = buf[i]
          BY <4>1, <5>0
        <5>2. \A i \in 1 .. Len(rows) : i \in DOMAIN R /\ R[i] = rows[i]
          BY <3>2, <5>1
        <5>3. \A i \in 1 .. Len(buf) : Len(rows) + i \in DOMAIN R /\ R[Len(rows) + i] = buf[i]
          BY <3>2, <5>1
        <5>4. DOMAIN rows = 1 .. Len(rows) /\ DOMAIN buf = 1 .. Len(buf)
          BY <3>2
        <5>5. ToSet(rows) \subseteq ToSet(R) /\ ToSet(buf) \subseteq ToSet(R)
          BY <5>2, <5>3, <5>4 DEF ToSet
        <5>6. QED
          BY <3>1, <5>5 DEF R, rows
      <4>3. Memory \subseteq Memory' \cup ToSet(rows)
        BY <2>1, <3>1, <4>2, ReturnKeeps
      <4>4. ToSet(buf') \subseteq Memory'
        BY DEF Memory
      <4>5. Memory \subseteq Memory'
        BY <4>2, <4>3, <4>4
      <4>6. QED
        BY <2>3, <3>1, <4>5
    <3>5. QED
      BY <3>3, <3>4
  <2> HIDE DEF Kept, Capping
  <2>9. QED
    BY <2>1, <2>4, <2>5, <2>6, <2>7, <2>8 DEF WriterMove, WriterNext
<1>2. OrderInv /\ [Next]_vars =>
        [\/ Restart
         \/ Len(buf') >= MaxBuffer /\ \E f \in InFlight : Len(batch[f]) > MaxBuffer
         \/ \A b \in Bars, v \in 1 .. MaxRows :
              <<b, v>> \in Memory \/ v \in arrived[b] + 1 .. arrived'[b] =>
                <<b, v>> \in Memory' \/ table'[b] >= v \/ (raced' /\ table'[b] # 0)]_writerVars
  BY <1>1
<1>3. QED
  BY <1>2, OrderInvInit, OrderInvStep, PTL DEF Spec, NothingVanishes

(***************************************************************************)
(* Minutes, windows and what a snapshot covers.                            *)
(***************************************************************************)

\* A later time is in the same minute or in a later one.
LEMMA MinutesRise == \A t, u \in Nat : t <= u => Minute(t) \in Nat /\ Minute(t) <= Minute(u)
<1> SUFFICES ASSUME NEW t \in Nat, NEW u \in Nat, t <= u
             PROVE  Minute(t) \in Nat /\ Minute(t) <= Minute(u)
  OBVIOUS
<1> DEFINE M == MinuteLength
           p == t \div M
           q == u \div M
<1>1. M \in Nat \ {0}
  BY MarketConstants
<1> HIDE DEF M
<1>2. p \in Int /\ q \in Int
  BY <1>1
<1>3. /\ t = M * p + (t % M) /\ (t % M) \in 0 .. M - 1
      /\ u = M * q + (u % M) /\ (u % M) \in 0 .. M - 1
  BY <1>1
<1> HIDE DEF p, q
<1>4. \A a, c \in Int : c >= a + 1 => M * c >= M * a + M
  BY <1>1
<1>5. p >= 0
  <2>1. CASE -1 >= p
    <3>1. M * 0 >= M * p + M
      BY <1>2, <1>4, <2>1
    <3>2. M * p \in Int /\ M * 0 = 0
      BY <1>1, <1>2
    <3>3. QED
      BY <1>1, <1>3, <3>1, <3>2
  <2>2. QED
    BY <1>2, <2>1
<1>6. p <= q
  <2>1. CASE p >= q + 1
    <3>1. M * p >= M * q + M
      BY <1>2, <1>4, <2>1
    <3>2. M * p \in Int /\ M * q \in Int
      BY <1>1, <1>2
    <3>3. QED
      BY <1>1, <1>3, <3>1, <3>2
  <2>2. QED
    BY <1>2, <2>1
<1>7. p \in Nat /\ p <= q
  BY <1>2, <1>5, <1>6
<1>8. QED
  BY <1>7 DEF Minute, M, p, q

\* Snapshot s covers the bars of interval i in seen.
CoversOf(i, s, seen) ==
  \A b \in Bars : IntervalOf[b] = i /\ seen[b] # 0 => s.bars[b] >= seen[b] \/ Displaced(b, s)

\* A snapshot covers what the table held when it does so for both series.
LEMMA CoversBoth ==
  ASSUME NEW s, NEW seen
  PROVE  Covers(s, seen) <=> CoversOf("1h", s, seen) /\ CoversOf("4h", s, seen)
<1>1. \A b \in Bars : IntervalOf[b] \in {"1h", "4h"}
  BY MarketConstants
<1>2. QED
  BY <1>1 DEF Covers, CoversOf

\* What covers the bars of an interval depends on those bars alone.
LEMMA CoversLocal ==
  ASSUME NEW i, NEW s, NEW u, NEW seen, CoversOf(i, s, seen),
         \A b \in Bars : IntervalOf[b] = i => u.bars[b] = s.bars[b]
  PROVE  CoversOf(i, u, seen)
<1> SUFFICES ASSUME NEW b \in Bars, IntervalOf[b] = i, seen[b] # 0
             PROVE  u.bars[b] >= seen[b] \/ Displaced(b, u)
  BY DEF CoversOf
<1> DEFINE newer(v) == {c \in Bars : /\ IntervalOf[c] = IntervalOf[b]
                                     /\ v.bars[c] # 0
                                     /\ OpensAt[c] > OpensAt[b]}
<1>1. newer(u) = newer(s)
  OBVIOUS
<1>2. Displaced(b, u) <=> Displaced(b, s)
  <2>1. Displaced(b, u) <=> Cardinality(newer(u)) >= Lookback[IntervalOf[b]]
    BY DEF Displaced
  <2>2. Displaced(b, s) <=> Cardinality(newer(s)) >= Lookback[IntervalOf[b]]
    BY DEF Displaced
  <2> HIDE DEF newer
  <2>3. QED
    BY <1>1, <2>1, <2>2
<1>3. QED
  BY <1>2 DEF CoversOf

\* A query of the most recent bars at or before ts covers what the table held
\* of them: a bar that it leaves out has as many newer ones in the answer.
LEMMA WindowCovers ==
  ASSUME table \in Tables, NEW i \in {"1h", "4h"}, NEW ts \in Nat, NEW s, NEW seen \in Tables,
         \A b \in Window(i, ts) : s.bars[b] = table[b],
         \A b \in Bars : IntervalOf[b] = i /\ seen[b] # 0 => seen[b] <= table[b] /\ OpensAt[b] <= ts
  PROVE  CoversOf(i, s, seen)
<1> SUFFICES ASSUME NEW b \in Bars, IntervalOf[b] = i, seen[b] # 0, ~(s.bars[b] >= seen[b])
             PROVE  Displaced(b, s)
  BY DEF CoversOf
<1> DEFINE found == {c \in Bars : IntervalOf[c] = i /\ table[c] # 0 /\ OpensAt[c] <= ts}
           newer(c) == {d \in found : OpensAt[d] > OpensAt[c]}
           out == {c \in found : ~(Cardinality(newer(c)) < Lookback[i]) /\ OpensAt[c] >= OpensAt[b]}
           times == {OpensAt[c] : c \in out}
           held == {c \in Bars : /\ IntervalOf[c] = IntervalOf[b]
                                 /\ s.bars[c] # 0
                                 /\ OpensAt[c] > OpensAt[b]}
<1>1. IsFiniteSet(Bars) /\ Lookback[i] \in Nat /\ (\A c \in Bars : OpensAt[c] \in Nat)
      /\ \A c \in Bars : table[c] \in Nat /\ seen[c] \in Nat
  BY MarketConstants, WriterConstants DEF Tables, Versions
<1>2. Window(i, ts) = {c \in found : Cardinality(newer(c)) < Lookback[i]}
  BY DEF Window
<1>3. b \in found
  BY <1>1
<1>4. b \notin Window(i, ts)
  BY <1>1
<1>5. b \in out
  <2> HIDE DEF found, newer
  <2>1. QED
    BY <1>1, <1>2, <1>3, <1>4
<1>6. IsFiniteSet(times) /\ times # {} /\ times \subseteq Int
  <2>1. out \in SUBSET Bars
    OBVIOUS
  <2> HIDE DEF out
  <2>2. IsFiniteSet(out)
    BY <1>1, <2>1, FS_Subset
  <2>3. IsFiniteSet(times)
    BY <2>2, FiniteImage
  <2>4. times # {} /\ times \subseteq Int
    BY <1>1, <1>5, <2>1
  <2>5. QED
    BY <2>3, <2>4
<1>7. PICK c \in out : \A d \in out : OpensAt[d] <= OpensAt[c]
  <2> HIDE DEF times
  <2>1. Max(times) \in times /\ \A y \in times : y <= Max(times)
    BY <1>6, MaxIsGreatest
  <2> HIDE DEF out
  <2>2. PICK c \in out : Max(times) = OpensAt[c]
    BY <2>1 DEF times
  <2>3. \A d \in out : OpensAt[d] <= OpensAt[c]
    BY <2>1, <2>2 DEF times
  <2>4. QED
    BY <2>3
<1>8. c \in Bars /\ OpensAt[c] >= OpensAt[b] /\ ~(Cardinality(newer(c)) < Lookback[i])
  OBVIOUS
<1>9. newer(c) \subseteq held
  <2> SUFFICES ASSUME NEW d \in newer(c) PROVE d \in held
    OBVIOUS
  <2>1. d \in found /\ d \in Bars /\ IntervalOf[d] = i /\ table[d] # 0 /\ OpensAt[d] > OpensAt[c]
    OBVIOUS
  <2>2. OpensAt[d] > OpensAt[b] /\ ~(OpensAt[d] <= OpensAt[c])
    BY <1>1, <1>8, <2>1
  <2>3. d \notin out
    BY <1>7, <2>2
  <2>4. Cardinality(newer(d)) < Lookback[i]
    <3> HIDE DEF found, newer
    <3>1. QED
      BY <1>1, <2>1, <2>2, <2>3
  <2>5. d \in Window(i, ts)
    <3> HIDE DEF found, newer
    <3>1. QED
      BY <1>2, <2>1, <2>4
  <2>6. s.bars[d] = table[d]
    BY <2>5
  <2>7. QED
    BY <2>1, <2>2, <2>6
<1>10. held \in SUBSET Bars
  OBVIOUS
<1> HIDE DEF held, newer
<1>11. IsFiniteSet(held) /\ newer(c) \in SUBSET held
  BY <1>1, <1>9, <1>10, FS_Subset
<1>12. IsFiniteSet(newer(c)) /\ Cardinality(newer(c)) <= Cardinality(held)
  BY <1>11, FS_Subset
<1>13. Cardinality(held) \in Nat /\ Cardinality(newer(c)) \in Nat
  BY <1>11, <1>12, FS_CardinalityType
<1>14. Cardinality(held) >= Lookback[IntervalOf[b]]
  BY <1>1, <1>8, <1>12, <1>13
<1>15. QED
  BY <1>14 DEF Displaced, held

(***************************************************************************)
(* The readers: types, and what their steps do to a snapshot.              *)
(***************************************************************************)

Times == 0 .. LastTime
Minutes == 0 .. Minute(LastTime)
Snaps == [ts : Nat, bars : Tables]

ReaderTypes ==
  /\ now \in Times /\ minuteTable \in Tables
  /\ cache \in [Minutes -> Snaps \cup {None}] /\ archive \subseteq Snaps
  /\ pc \in [Readers -> {"idle", "get", "1h", "4h", "built", "archive", "served", "failed"}]
  /\ at \in [Readers -> Times] /\ snap \in [Readers -> Snaps] /\ base \in [Readers -> Tables]
  /\ dataset \in [Cursors -> Snaps \cup {None}]

Types == WriterTypes /\ ReaderTypes

\* The minute of any time of the clock is a minute.
LEMMA KeyIsMinute == \A t \in Times : t \in Nat /\ Minute(t) \in Minutes
<1> TAKE t \in Times
<1>1. t \in Nat /\ LastTime \in Nat /\ t <= LastTime
  BY MarketConstants DEF Times
<1>2. Minute(t) \in Nat /\ Minute(LastTime) \in Nat /\ Minute(t) <= Minute(LastTime)
  BY <1>1, MinutesRise
<1>3. QED
  BY <1>1, <1>2 DEF Minutes

\* An empty table and an empty snapshot are well typed.
LEMMA NoBars == [b \in Bars |-> 0] \in Tables /\ Empty \in Snaps /\ Empty.bars \in Tables
BY WriterConstants DEF Tables, Versions, Empty, Snaps

\* A query replaces the bars of its window, in the snapshot of its reader.
LEMMA FetchDoes ==
  ASSUME Types, NEW r \in Readers, NEW i, NEW next, Fetch(r, i, next)
  PROVE  /\ snap' \in [Readers -> Snaps]
         /\ \A b \in Bars : snap'[r].bars[b] = IF b \in Window(i, at[r]) THEN table[b] ELSE snap[r].bars[b]
         /\ \A q \in Readers \ {r} : snap'[q] = snap[q]
<1> DEFINE bars == [b \in Bars |-> IF b \in Window(i, at[r]) THEN table[b] ELSE snap[r].bars[b]]
<1>1. snap \in [Readers -> Snaps] /\ table \in Tables /\ snap[r] \in Snaps /\ snap[r].bars \in Tables
  BY DEF Types, ReaderTypes, WriterTypes, Snaps
<1>2. snap' = [snap EXCEPT ![r].bars = bars]
  BY DEF Fetch
<1>3. bars \in Tables
  BY <1>1 DEF Tables
<1>4. \A b \in Bars : bars[b] = IF b \in Window(i, at[r]) THEN table[b] ELSE snap[r].bars[b]
  OBVIOUS
<1> HIDE DEF bars
<1>5. snap'[r] = [snap[r] EXCEPT !.bars = bars] /\ \A q \in Readers \ {r} : snap'[q] = snap[q]
  BY <1>1, <1>2
<1>6. snap'[r] \in Snaps /\ snap'[r].bars = bars
  BY <1>1, <1>3, <1>5 DEF Snaps
<1>7. DOMAIN snap' = Readers /\ snap' = [q \in Readers |-> snap'[q]]
  BY <1>1, <1>2
<1>8. \A q \in Readers : snap'[q] \in Snaps
  BY <1>1, <1>5, <1>6
<1>9. snap' \in [Readers -> Snaps]
  BY <1>7, <1>8
<1>10. QED
  BY <1>4, <1>5, <1>6, <1>9

\* A reader that starts to build has no bar yet.
LEMMA BuildDoes ==
  ASSUME Types, NEW r \in Readers, NEW t \in Times, Build(r, t)
  PROVE  /\ snap' \in [Readers -> Snaps] /\ at' \in [Readers -> Times]
         /\ at'[r] = t /\ snap'[r].bars = [b \in Bars |-> 0]
         /\ \A q \in Readers \ {r} : snap'[q] = snap[q] /\ at'[q] = at[q]
<1>1. snap \in [Readers -> Snaps] /\ at \in [Readers -> Times] /\ t \in Nat
  BY KeyIsMinute DEF Types, ReaderTypes
<1>2. [Empty EXCEPT !.ts = t] \in Snaps /\ [Empty EXCEPT !.ts = t].bars = [b \in Bars |-> 0]
  BY <1>1, NoBars DEF Empty, Snaps
<1>3. QED
  BY <1>1, <1>2 DEF Build

\* The export builds for one of its cursors, and for time 0 when it is done.
LEMMA AdvanceDoes ==
  ASSUME Advance
  PROVE  \/ Build(Export, 0) /\ pc' = [pc EXCEPT ![Export] = "served"] /\ Left(at[Export]) = {}
         \/ \E t \in Left(at[Export]) : /\ Build(Export, t) /\ pc' = [pc EXCEPT ![Export] = "1h"]
BY DEF Advance

\* The start, the cursors and those left to export are times, and the export is a reader.
LEMMA TimesAre == 0 \in Times /\ Cursors \subseteq Times /\ (\A t : Left(t) \subseteq Times) /\ Export \in Readers
<1>1. 0 \in Times /\ Cursors \subseteq Times
  BY MarketConstants DEF Times
<1>2. Export \in Readers
  BY DEF Readers
<1>3. \A t : Left(t) \subseteq Cursors
  BY DEF Left
<1>4. QED
  BY <1>1, <1>2, <1>3

\* The readers' types at the start.
LEMMA ReaderTypesInit == Init => ReaderTypes
<1> SUFFICES ASSUME Init PROVE ReaderTypes
  OBVIOUS
<1>1. table = [b \in Bars |-> 0]
  BY DEF Init, WriterInit
<1>2. now \in Times /\ minuteTable \in Tables
  BY <1>1, NoBars, TimesAre DEF Init
<1>3. at \in [Readers -> Times] /\ snap \in [Readers -> Snaps] /\ base \in [Readers -> Tables]
  BY <1>1, NoBars, TimesAre DEF Init
<1>4. cache \in [Minutes -> Snaps \cup {None}] /\ archive \subseteq Snaps
      /\ dataset \in [Cursors -> Snaps \cup {None}]
  BY DEF Init, Minutes
<1>5. pc \in [Readers -> {"idle", "get", "1h", "4h", "built", "archive", "served", "failed"}]
  BY DEF Init
<1>6. QED
  BY <1>2, <1>3, <1>4, <1>5 DEF ReaderTypes

\* Every step keeps the readers' types.
LEMMA ReaderTypesStep == Types /\ WriterTypes' /\ [Next]_vars => ReaderTypes'
<1> SUFFICES ASSUME Types, WriterTypes', [Next]_vars PROVE ReaderTypes'
  OBVIOUS
<1>0. ReaderTypes /\ table \in Tables
  BY DEF Types, WriterTypes
<1>1. CASE Tick
  <2>1. now' \in Times /\ minuteTable' \in Tables
    BY <1>0, <1>1, MarketConstants DEF Tick, ReaderTypes, Times
  <2>2. QED
    BY <1>0, <1>1, <2>1 DEF Tick, ReaderTypes, readerVars
<1>2. CASE UNCHANGED <<now, minuteTable, readerVars>>
  BY <1>0, <1>2 DEF ReaderTypes, readerVars
<1>3. ASSUME NEW r \in Readers, FetchBars(r) PROVE ReaderTypes'
  <2>1. snap' \in [Readers -> Snaps]
    BY <1>3, FetchDoes DEF FetchBars
  <2>2. UNCHANGED <<now, minuteTable, cache, archive, at, base, dataset>>
        /\ (pc' = [pc EXCEPT ![r] = "4h"] \/ pc' = [pc EXCEPT ![r] = "built"])
    BY <1>3 DEF FetchBars, Fetch
  <2>3. QED
    BY <1>0, <2>1, <2>2 DEF ReaderTypes
<1>4. ASSUME NEW c \in Calls, LiveStep(c) PROVE ReaderTypes'
  <2>1. c \in Readers /\ Minute(at[c]) \in Minutes
    BY <1>0, KeyIsMinute DEF Readers, ReaderTypes
  <2>2. CASE Live(c)
    <3>1. snap' \in [Readers -> Snaps] /\ at' \in [Readers -> Times]
      BY <1>0, <2>1, <2>2, BuildDoes DEF Live, ReaderTypes
    <3>2. base' \in [Readers -> Tables]
      BY <1>0, <2>1, <2>2 DEF Live, ReaderTypes
    <3>3. QED
      BY <1>0, <2>1, <2>2, <3>1, <3>2 DEF Live, ReaderTypes
  <2>3. CASE Hit(c)
    BY <1>0, <2>1, <2>3 DEF Hit, Key, ReaderTypes
  <2>4. CASE Miss(c)
    BY <1>0, <2>1, <2>4 DEF Miss, ReaderTypes
  <2>5. CASE SetCache(c)
    BY <1>0, <2>1, <2>5 DEF SetCache, Key, ReaderTypes
  <2>6. CASE Archive(c)
    BY <1>0, <2>1, <2>6 DEF Archive, ReaderTypes
  <2>7. CASE Raise(c)
    <3>1. snap' \in [Readers -> Snaps] /\ at' \in [Readers -> Times]
      BY <2>1, <2>7, BuildDoes, TimesAre DEF Raise
    <3>2. base' \in [Readers -> Tables]
      BY <1>0, <2>1, <2>7, NoBars DEF Raise, ReaderTypes
    <3>3. QED
      BY <1>0, <2>1, <2>7, <3>1, <3>2 DEF Raise, ReaderTypes
  <2>8. QED
    BY <1>3, <1>4, <2>1, <2>2, <2>3, <2>4, <2>5, <2>6, <2>7 DEF LiveStep
<1>5. CASE ExportStep
  <2>1. CASE StartExport
    <3>1. snap' \in [Readers -> Snaps] /\ at' \in [Readers -> Times]
      BY <2>1, BuildDoes, TimesAre DEF StartExport
    <3>2. QED
      BY <1>0, <2>1, <3>1 DEF StartExport, ReaderTypes
  <2>2. CASE WriteSnapshot \/ SkipSnapshot
    <3>1. Advance /\ UNCHANGED <<now, minuteTable, cache, archive, base>>
          /\ (UNCHANGED dataset \/ dataset' = [dataset EXCEPT ![at[Export]] = snap[Export]])
      BY <2>2 DEF WriteSnapshot, SkipSnapshot
    <3>2. snap' \in [Readers -> Snaps] /\ at' \in [Readers -> Times]
      BY <3>1, AdvanceDoes, BuildDoes, TimesAre
    <3>3. dataset' \in [Cursors -> Snaps \cup {None}]
      BY <1>0, <3>1, TimesAre DEF ReaderTypes
    <3>4. pc' = [pc EXCEPT ![Export] = "served"] \/ pc' = [pc EXCEPT ![Export] = "1h"]
      BY <3>1 DEF Advance
    <3>5. QED
      BY <1>0, <3>1, <3>2, <3>3, <3>4 DEF ReaderTypes
  <2>3. QED
    BY <1>3, <1>5, <2>1, <2>2, TimesAre DEF ExportStep
<1>6. CASE Writer \/ (\E b \in Bars : Candle(b)) \/ UNCHANGED vars
  BY <1>2, <1>6 DEF Writer, Candle, vars
<1>7. QED
  BY <1>1, <1>4, <1>5, <1>6 DEF Next

(***************************************************************************)
(* Only closed bars.                                                       *)
(***************************************************************************)

\* The bars of a table, and those of some rows, had closed by time t.
ClosedBy(bars, t) == \A b \in Bars : bars[b] # 0 => ClosesAt[b] <= t
RowsClosedBy(rows, t) == \A i \in DOMAIN rows : ClosesAt[rows[i][1]] <= t

\* Wherever a bar is kept, on its way to the table, in it, or in a snapshot, it
\* has closed.
ClosedBars ==
  /\ RowsClosedBy(buf, now) /\ \A f \in Flushers : RowsClosedBy(batch[f], now)
  /\ ClosedBy(table, now) /\ ClosedBy(minuteTable, now)
  /\ \A r \in Readers : ClosedBy(snap[r].bars, now)
  /\ \A m \in Minutes : cache[m] # None => ClosedBy(cache[m].bars, now)

\* The rows of a batch keep the table closed.
LEMMA UpsertClosed ==
  ASSUME NEW rows \in Seq(Row), table \in Tables, NEW t, ClosedBy(table, t), RowsClosedBy(rows, t)
  PROVE  ClosedBy(Upsert(rows), t)
<1>1. StoresLast(Upsert(rows), rows, DOMAIN rows)
  BY UpsertLast
<1>2. QED
  BY <1>1 DEF StoresLast, LastOf, ClosedBy, RowsClosedBy

\* So do the rows that go back to the buffer.
LEMMA RebufferClosed ==
  ASSUME NEW rows \in Seq(Row), buf \in Seq(Row), NEW t, RowsClosedBy(buf, t), RowsClosedBy(rows, t)
  PROVE  RowsClosedBy(Rebuffer(rows), t)
<1> DEFINE R == Rebuffer(rows)
           k == Capped(Len(rows))
<1>1. k \in Nat /\ k <= Len(rows) /\ Len(rows) \in Nat /\ Len(buf) \in Nat
  BY WriterConstants DEF Capped
<1>2. /\ R \in Seq(Row) /\ Len(R) = k + Len(buf)
      /\ \A i \in 1 .. k : R[i] = rows[i + (Len(rows) - k)]
      /\ \A i \in 1 .. Len(buf) : R[k + i] = buf[i]
  BY Rebuffered
<1> HIDE DEF R, k
<1>3. ASSUME NEW i \in DOMAIN R PROVE ClosesAt[R[i][1]] <= t
  <2>1. i \in 1 .. k + Len(buf)
    BY <1>2, <1>3
  <2>2. CASE i <= k
    <3>1. i + (Len(rows) - k) \in DOMAIN rows /\ R[i] = rows[i + (Len(rows) - k)]
      BY <1>1, <1>2, <2>1, <2>2
    <3>2. QED
      BY <3>1 DEF RowsClosedBy
  <2>3. CASE ~(i <= k)
    <3>1. i - k \in 1 .. Len(buf) /\ k + (i - k) = i
      BY <1>1, <2>1, <2>3
    <3>2. i - k \in DOMAIN buf /\ R[i] = buf[i - k]
      BY <1>1, <1>2, <3>1
    <3>3. QED
      BY <3>2 DEF RowsClosedBy
  <2>4. QED
    BY <2>2, <2>3
<1>4. QED
  BY <1>3 DEF RowsClosedBy, R

\* The writer holds closed bars when it is only given such.
LEMMA WriterClosed ==
  ASSUME WriterTypes, (\E b \in Bars : Write(b) /\ ClosesAt[b] <= now) \/ WriterNext, ClosedBars
  PROVE  /\ RowsClosedBy(buf', now) /\ \A f \in Flushers : RowsClosedBy(batch'[f], now)
         /\ ClosedBy(table', now)
<1> USE DEF ClosedBars
<1>0. /\ buf \in Seq(Row) /\ batch \in [Flushers -> Seq(Row)] /\ table \in Tables
      /\ "write" \in Flushers /\ "loop" \in Flushers /\ "stop" \in Flushers
  BY DEF WriterTypes, Flushers
<1>1. RowsClosedBy(<<>>, now)
  BY DEF RowsClosedBy
<1>2. ASSUME NEW f \in Flushers, NEW rows, RowsClosedBy(rows, now), Take(f, rows)
      PROVE  RowsClosedBy(buf', now) /\ \A h \in Flushers : RowsClosedBy(batch'[h], now)
  BY <1>0, <1>1, <1>2 DEF Take
<1>3. ASSUME NEW b \in Bars, Write(b), ClosesAt[b] <= now
      PROVE  /\ RowsClosedBy(buf', now) /\ \A f \in Flushers : RowsClosedBy(batch'[f], now)
             /\ ClosedBy(table', now)
  <2> DEFINE rows == Append(buf, <<b, arrived[b] + 1>>)
  <2>1. RowsClosedBy(rows, now)
    BY <1>0, <1>3 DEF RowsClosedBy
  <2>2. (buf' = rows /\ UNCHANGED batch) \/ Take("write", rows)
    BY <1>3 DEF Write
  <2> HIDE DEF rows
  <2>3. CASE buf' = rows /\ UNCHANGED batch
    BY <1>3, <2>1, <2>3 DEF Write
  <2>4. CASE Take("write", rows)
    BY <1>0, <1>2, <1>3, <2>1, <2>4 DEF Write
  <2>5. QED
    BY <2>2, <2>3, <2>4
<1>4. CASE LoopWakes
  BY <1>0, <1>2, <1>4 DEF LoopWakes
<1>5. CASE FinalFlush
  BY <1>0, <1>2, <1>5 DEF FinalFlush
<1>6. CASE Stop
  BY <1>6 DEF Stop
<1>7. CASE Restart
  BY <1>1, <1>7 DEF Restart
<1>8. ASSUME NEW f \in Flushers, Commit(f) \/ Fail(f)
      PROVE  /\ RowsClosedBy(buf', now) /\ \A h \in Flushers : RowsClosedBy(batch'[h], now)
             /\ ClosedBy(table', now)
  <2>1. batch[f] \in Seq(Row) /\ RowsClosedBy(batch[f], now)
    BY <1>0
  <2>2. ClosedBy(Upsert(batch[f]), now) /\ RowsClosedBy(Rebuffer(batch[f]), now)
    BY <1>0, <2>1, UpsertClosed, RebufferClosed
  <2>3. (table' = table \/ table' = Upsert(batch[f])) /\ (buf' = buf \/ buf' = Rebuffer(batch[f]))
        /\ batch' = [batch EXCEPT ![f] = <<>>]
    BY <1>8 DEF Commit, Fail, Return
  <2>4. \A h \in Flushers : RowsClosedBy(batch'[h], now)
    BY <1>0, <1>1, <2>3
  <2>5. QED
    BY <2>2, <2>3, <2>4
<1>9. QED
  BY <1>3, <1>4, <1>5, <1>6, <1>7, <1>8 DEF WriterNext

\* At the start no row is anywhere, so none is of an open bar.
LEMMA ClosedInit == Init => ClosedBars
<1> SUFFICES ASSUME Init PROVE ClosedBars
  OBVIOUS
<1>1. buf = <<>> /\ \A f \in Flushers : batch[f] = <<>>
  BY DEF Init, WriterInit
<1>2. table = [b \in Bars |-> 0] /\ minuteTable = table /\ \A r \in Readers : snap[r] = Empty
  BY DEF Init, WriterInit
<1>3. \A m \in Minutes : cache[m] = None
  BY DEF Init, Minutes
<1>4. QED
  BY <1>1, <1>2, <1>3 DEF ClosedBars, ClosedBy, RowsClosedBy, Empty

\* The filter of the feed keeps open bars out of the buffer, and so out of all that follows.
LEMMA ClosedStep == Types /\ Types' /\ ClosedBars /\ [Next]_vars => ClosedBars'
<1> SUFFICES ASSUME Types, Types', ClosedBars, [Next]_vars PROVE ClosedBars'
  OBVIOUS
<1>0. ReaderTypes /\ WriterTypes
  BY DEF Types
<1>1. CASE Tick
  <2>1. now \in Nat /\ now' \in Nat /\ now <= now' /\ \A b \in Bars : ClosesAt[b] \in Nat
    BY <1>0, <1>1, MarketConstants DEF Tick, ReaderTypes, Times
  <2>2. UNCHANGED <<buf, batch, table, cache, snap>> /\ (minuteTable' = minuteTable \/ minuteTable' = table)
    BY <1>1 DEF Tick, writerVars, readerVars
  <2>3. \A bars : ClosedBy(bars, now) => ClosedBy(bars, now')
    BY <2>1 DEF ClosedBy
  <2>4. RowsClosedBy(buf', now') /\ \A f \in Flushers : RowsClosedBy(batch'[f], now')
    <3>1. ASSUME NEW rows \in Seq(Row), RowsClosedBy(rows, now) PROVE RowsClosedBy(rows, now')
      <4>1. \A i \in DOMAIN rows : rows[i] \in Row /\ rows[i][1] \in Bars
        BY DEF Row
      <4>2. QED
        BY <2>1, <3>1, <4>1 DEF RowsClosedBy
    <3>2. QED
      BY <1>0, <2>2, <3>1 DEF ClosedBars, WriterTypes
  <2>5. QED
    BY <2>2, <2>3, <2>4 DEF ClosedBars
<1>2. CASE Writer \/ \E b \in Bars : Candle(b)
  <2>1. (\E b \in Bars : Write(b) /\ ClosesAt[b] <= now) \/ WriterNext
    BY <1>2 DEF Writer, Candle
  <2>2. UNCHANGED <<now, minuteTable, cache, snap>>
    BY <1>2 DEF Writer, Candle, readerVars
  <2>3. /\ RowsClosedBy(buf', now) /\ \A f \in Flushers : RowsClosedBy(batch'[f], now)
        /\ ClosedBy(table', now)
    BY <1>0, <2>1, WriterClosed
  <2>4. QED
    BY <2>2, <2>3 DEF ClosedBars
<1>3. ASSUME UNCHANGED <<writerVars, now, minuteTable>>,
             \A r \in Readers : ClosedBy(snap'[r].bars, now),
             \A m \in Minutes : cache'[m] # None => ClosedBy(cache'[m].bars, now)
      PROVE  ClosedBars'
  BY <1>3 DEF ClosedBars, writerVars
<1>4. ClosedBy([b \in Bars |-> 0], now)
  BY DEF ClosedBy
<1>5. ASSUME NEW r \in Readers, FetchBars(r) PROVE ClosedBars'
  <2>1. PICK i, next : Fetch(r, i, next)
    BY <1>5 DEF FetchBars
  <2>2. /\ \A b \in Bars : snap'[r].bars[b] = IF b \in Window(i, at[r]) THEN table[b] ELSE snap[r].bars[b]
        /\ \A q \in Readers \ {r} : snap'[q] = snap[q]
    BY <2>1, FetchDoes
  <2>3. ClosedBy(snap'[r].bars, now)
    BY <2>2 DEF ClosedBars, ClosedBy
  <2>4. UNCHANGED <<writerVars, now, minuteTable, cache>>
    BY <2>1 DEF Fetch
  <2>5. QED
    BY <1>3, <2>2, <2>3, <2>4 DEF ClosedBars
<1>6. ASSUME NEW r \in Readers, NEW t \in Times, Build(r, t), UNCHANGED <<writerVars, now, minuteTable, cache>>
      PROVE  ClosedBars'
  <2>1. snap'[r].bars = [b \in Bars |-> 0] /\ \A q \in Readers \ {r} : snap'[q] = snap[q]
    BY <1>6, BuildDoes
  <2>2. QED
    BY <1>3, <1>4, <1>6, <2>1 DEF ClosedBars
<1>7. ASSUME NEW c \in Calls, LiveStep(c) PROVE ClosedBars'
  <2>1. c \in Readers /\ Minute(at[c]) \in Minutes
    BY <1>0, KeyIsMinute DEF Readers, ReaderTypes
  <2>2. CASE Live(c)
    BY <1>0, <1>6, <2>1, <2>2 DEF Live, ReaderTypes
  <2>3. CASE Hit(c)
    <3>1. \A r \in Readers : snap'[r] = snap[r] \/ (snap'[r] = cache[Minute(at[c])] /\ cache[Minute(at[c])] # None)
      BY <1>0, <2>1, <2>3 DEF Hit, Key, ReaderTypes
    <3>2. QED
      BY <1>3, <2>1, <2>3, <3>1 DEF Hit, ClosedBars
  <2>4. CASE Miss(c) \/ Archive(c)
    BY <1>3, <2>4 DEF Miss, Archive, ClosedBars
  <2>5. CASE SetCache(c)
    <3>1. \A m \in Minutes : cache'[m] = cache[m] \/ cache'[m] = snap[c]
      BY <1>0, <2>1, <2>5 DEF SetCache, ReaderTypes
    <3>2. QED
      BY <1>3, <2>1, <2>5, <3>1 DEF SetCache, ClosedBars
  <2>6. CASE Raise(c)
    BY <1>6, <2>1, <2>6, TimesAre DEF Raise
  <2>7. QED
    BY <1>5, <1>7, <2>1, <2>2, <2>3, <2>4, <2>5, <2>6 DEF LiveStep
<1>8. CASE ExportStep
  <2>1. CASE StartExport
    BY <1>6, <2>1, TimesAre DEF StartExport
  <2>2. CASE WriteSnapshot \/ SkipSnapshot
    <3>1. Advance /\ UNCHANGED <<writerVars, now, minuteTable, cache>>
      BY <2>2 DEF WriteSnapshot, SkipSnapshot
    <3>2. \E t \in Times : Build(Export, t)
      BY <3>1, AdvanceDoes, TimesAre
    <3>3. QED
      BY <1>6, <3>1, <3>2, TimesAre
  <2>3. QED
    BY <1>5, <1>8, <2>1, <2>2, TimesAre DEF ExportStep
<1>9. CASE UNCHANGED vars
  BY <1>3, <1>9 DEF vars, readerVars, ClosedBars
<1>10. QED
  BY <1>1, <1>2, <1>7, <1>8, <1>9 DEF Next

ClosedInv == Types /\ ClosedBars

\* Types and closed bars at the start.
LEMMA ClosedInvInit == Init => ClosedInv
<1>1. Init => WriterTypes
  BY WriterTypesInit DEF Init
<1>2. QED
  BY <1>1, ReaderTypesInit, ClosedInit DEF ClosedInv, Types

\* Types and closed bars are kept by every step.
LEMMA ClosedInvStep == ClosedInv /\ [Next]_vars => ClosedInv'
<1> SUFFICES ASSUME ClosedInv, [Next]_vars PROVE ClosedInv'
  OBVIOUS
<1>1. Types /\ WriterTypes /\ ClosedBars
  BY DEF ClosedInv, Types
<1>2. WriterTypes'
  BY <1>1, WriterMoves, WriterTypesStep
<1>3. Types'
  BY <1>1, <1>2, ReaderTypesStep DEF Types
<1>4. QED
  BY <1>1, <1>3, ClosedStep DEF ClosedInv

\* A live prediction is not made on a bar that is still open when its snapshot
\* takes it in: the feed drops such updates before they reach the buffer
\* (hyperliquid.py:74-75), and on the way from there, through failed flushes,
\* the table and the cache, nothing brings one in.
THEOREM LiveBarsClosed == Spec => []LiveBarsHaveClosed
<1>1. ClosedInv => LiveBarsHaveClosed
  BY DEF ClosedInv, ClosedBars, ClosedBy, LiveBarsHaveClosed, Readers
<1>2. QED
  BY <1>1, ClosedInvInit, ClosedInvStep, PTL DEF Spec

(***************************************************************************)
(* Live snapshots are fresh.                                               *)
(***************************************************************************)

Active == {"get", "1h", "4h", "built", "archive", "served"}

\* Call c, while B[m] is what the table held when minute m began: it compares
\* with the minute it started in, which is in the table still, and its queries
\* have covered that for the intervals they have read.
CallFresh(c, B) ==
  /\ pc[c] \in Active =>
       /\ at[c] <= now /\ base[c] = B[Minute(at[c])]
       /\ \A b \in Bars : base[c][b] <= table[b] /\ (base[c][b] # 0 => OpensAt[b] <= at[c])
  /\ pc[c] = "4h" => CoversOf("1h", snap[c], base[c])
  /\ pc[c] \in {"built", "archive", "served"} => Covers(snap[c], base[c])

\* The cache holds snapshots of this minute and of earlier ones, and each covers
\* what the table held when its minute began.
CacheFresh(B) ==
  \A m \in Minutes : cache[m] # None => m <= Minute(now) /\ Covers(cache[m], B[m])

Fresh(B) ==
  /\ B[Minute(now)] = minuteTable /\ \A b \in Bars : minuteTable[b] <= table[b]
  /\ CacheFresh(B) /\ \A c \in Calls : CallFresh(c, B)

LiveFresh == \E B \in [Minutes -> Tables] : Fresh(B)

\* At the start every minute has begun with an empty table.
LEMMA LiveFreshInit == Init => LiveFresh
<1> SUFFICES ASSUME Init PROVE LiveFresh
  OBVIOUS
<1> DEFINE B == [m \in Minutes |-> [b \in Bars |-> 0]]
<1>1. B \in [Minutes -> Tables]
  BY NoBars
<1>2. now = 0 /\ Minute(now) \in Minutes /\ minuteTable = [b \in Bars |-> 0] /\ table = minuteTable
  BY KeyIsMinute, TimesAre DEF Init, WriterInit
<1>3. \A m \in Minutes : cache[m] = None
  BY DEF Init, Minutes
<1>4. \A c \in Calls : pc[c] = "idle"
  BY DEF Init, Readers
<1>5. Fresh(B)
  BY <1>2, <1>3, <1>4 DEF Fresh, CacheFresh, CallFresh, Active
<1>6. QED
  BY <1>1, <1>5 DEF LiveFresh

\* A step that leaves the readers where they are, and may add to the table.
LEMMA FreshStays ==
  ASSUME Types, Types', NEW B \in [Minutes -> Tables], Fresh(B),
         UNCHANGED <<now, minuteTable, readerVars>>, \A b \in Bars : table'[b] >= table[b]
  PROVE  Fresh(B)'
<1>1. \A b \in Bars : /\ table[b] \in Nat /\ table'[b] \in Nat /\ minuteTable[b] \in Nat
                      /\ \A c \in Calls : base[c][b] \in Nat
  BY WriterConstants DEF Types, WriterTypes, ReaderTypes, Tables, Versions, Readers
<1>2. B[Minute(now)]' = minuteTable' /\ \A b \in Bars : minuteTable'[b] <= table'[b]
  BY <1>1 DEF Fresh
<1>3. CacheFresh(B)'
  BY DEF Fresh, CacheFresh, readerVars
<1>4. ASSUME NEW c \in Calls PROVE CallFresh(c, B)'
  <2>1. CallFresh(c, B)
    BY DEF Fresh
  <2>2. pc' = pc /\ at' = at /\ base' = base /\ snap' = snap /\ now' = now
    BY DEF readerVars
  <2>3. pc[c] \in Active => \A b \in Bars : base[c][b] <= table'[b]
    BY <1>1, <2>1 DEF CallFresh
  <2>4. QED
    BY <2>1, <2>2, <2>3 DEF CallFresh
<1>5. QED
  BY <1>2, <1>3, <1>4 DEF Fresh

\* A minute begins: no call and no key is in it yet.
LEMMA FreshTick ==
  ASSUME Types, Types', NEW B \in [Minutes -> Tables], Fresh(B), Tick
  PROVE  LiveFresh'
<1>1. /\ now \in Times /\ now' \in Times /\ now \in Nat /\ now' = now + 1 /\ table \in Tables
      /\ Minute(now) \in Minutes /\ Minute(now') \in Minutes /\ UNCHANGED <<table, readerVars>>
  BY KeyIsMinute DEF Types, ReaderTypes, WriterTypes, Tick, writerVars
<1>2. Minute(now) \in Nat /\ Minute(now') \in Nat /\ Minute(now) <= Minute(now')
  <2>1. now' \in Nat /\ now <= now'
    BY <1>1
  <2>2. QED
    BY <1>1, <2>1, MinutesRise
<1>3. minuteTable' = IF Minute(now') = Minute(now) THEN minuteTable ELSE table
  BY <1>1 DEF Tick
<1>4. PICK B2 \in [Minutes -> Tables] :
        B2 = IF Minute(now') = Minute(now) THEN B ELSE [B EXCEPT ![Minute(now')] = table]
  BY <1>1
<1>5. \A m \in Minutes : m <= Minute(now) => B2[m] = B[m]
  BY <1>2, <1>4
<1>6. B2[Minute(now')] = minuteTable' /\ \A b \in Bars : minuteTable'[b] <= table'[b]
  <2>1. \A b \in Bars : table[b] <= table[b]
    BY <1>1, WriterConstants DEF Tables, Versions
  <2>2. QED
    BY <1>1, <1>3, <1>4, <2>1 DEF Fresh
<1>7. ASSUME NEW m \in Minutes, cache'[m] # None PROVE m <= Minute(now') /\ Covers(cache'[m], B2[m])
  <2>1. cache[m] # None /\ m <= Minute(now) /\ Covers(cache[m], B[m]) /\ m \in Int
    BY <1>1, <1>7 DEF Fresh, CacheFresh, readerVars, Minutes
  <2>2. QED
    BY <1>1, <1>2, <1>5, <2>1 DEF readerVars
<1>8. ASSUME NEW c \in Calls PROVE CallFresh(c, B2)'
  <2>1. CallFresh(c, B) /\ at[c] \in Times
    BY DEF Fresh, Types, ReaderTypes, Readers
  <2>2. pc' = pc /\ at' = at /\ base' = base /\ snap' = snap
    BY <1>1 DEF readerVars
  <2>3. pc[c] \in Active => at[c] <= now' /\ base[c] = B2[Minute(at[c])]
    <3> SUFFICES ASSUME pc[c] \in Active PROVE at[c] <= now' /\ base[c] = B2[Minute(at[c])]
      OBVIOUS
    <3>1. at[c] <= now /\ base[c] = B[Minute(at[c])] /\ at[c] \in Nat /\ Minute(at[c]) \in Minutes
      BY <2>1, KeyIsMinute DEF CallFresh
    <3>2. Minute(at[c]) <= Minute(now)
      BY <1>1, <3>1, MinutesRise
    <3>3. QED
      BY <1>1, <1>5, <3>1, <3>2
  <2>4. QED
    BY <1>1, <2>1, <2>2, <2>3 DEF CallFresh
<1>9. CacheFresh(B2)'
  BY <1>7 DEF CacheFresh
<1>10. Fresh(B2)'
  BY <1>6, <1>8, <1>9 DEF Fresh
<1>11. QED
  BY <1>10 DEF LiveFresh

\* A step of one reader concerns the call it makes, and the cache.
LEMMA FreshCall ==
  ASSUME NEW B \in [Minutes -> Tables], Fresh(B), UNCHANGED <<writerVars, now, minuteTable>>,
         NEW r \in Readers, r \in Calls => CallFresh(r, B)', CacheFresh(B)',
         \A q \in Readers \ {r} : pc'[q] = pc[q] /\ at'[q] = at[q] /\ snap'[q] = snap[q] /\ base'[q] = base[q]
  PROVE  LiveFresh'
<1>1. ASSUME NEW c \in Calls PROVE CallFresh(c, B)'
  <2>1. CASE c = r
    BY <2>1
  <2>2. CASE c # r
    <3>1. CallFresh(c, B) /\ pc'[c] = pc[c] /\ at'[c] = at[c] /\ snap'[c] = snap[c] /\ base'[c] = base[c]
          /\ now' = now /\ table' = table
      BY <2>2 DEF Fresh, Readers, writerVars
    <3>2. QED
      BY <3>1 DEF CallFresh
  <2>3. QED
    BY <2>1, <2>2
<1>2. Fresh(B)'
  BY <1>1 DEF Fresh, writerVars
<1>3. QED
  BY <1>2 DEF LiveFresh

\* A query of interval i covers what was known of it, and leaves the other one.
LEMMA FetchCovers ==
  ASSUME Types, NEW r \in Readers, NEW i \in {"1h", "4h"}, NEW next, Fetch(r, i, next), NEW seen \in Tables,
         \A b \in Bars : seen[b] <= table[b] /\ (seen[b] # 0 => OpensAt[b] <= at[r])
  PROVE  /\ CoversOf(i, snap'[r], seen)
         /\ \A j \in {"1h", "4h"} \ {i} : CoversOf(j, snap[r], seen) => CoversOf(j, snap'[r], seen)
<1>1. table \in Tables /\ at[r] \in Nat
  BY KeyIsMinute DEF Types, WriterTypes, ReaderTypes
<1>2. \A b \in Bars : snap'[r].bars[b] = IF b \in Window(i, at[r]) THEN table[b] ELSE snap[r].bars[b]
  BY FetchDoes
<1>3. \A b \in Window(i, at[r]) : b \in Bars /\ IntervalOf[b] = i
  BY DEF Window
<1>4. CoversOf(i, snap'[r], seen)
  BY <1>1, <1>2, <1>3, WindowCovers
<1>5. ASSUME NEW j \in {"1h", "4h"} \ {i}, CoversOf(j, snap[r], seen) PROVE CoversOf(j, snap'[r], seen)
  <2>1. \A b \in Bars : IntervalOf[b] = j => snap'[r].bars[b] = snap[r].bars[b]
    BY <1>2, <1>3
  <2>2. QED
    BY <1>5, <2>1, CoversLocal
<1>6. QED
  BY <1>4, <1>5

\* A step in which no bar goes back keeps snapshots as fresh as their minute.
LEMMA LiveFreshStep ==
  ASSUME Types, Types', ClosedBars, LiveFresh, [Next]_vars, \A b \in Bars : table'[b] >= table[b]
  PROVE  LiveFresh'
<1>0. ReaderTypes /\ WriterTypes
  BY DEF Types
<1>1. PICK B \in [Minutes -> Tables] : Fresh(B)
  BY DEF LiveFresh
<1>2. CASE Tick
  BY <1>1, <1>2, FreshTick
<1>3. CASE UNCHANGED <<now, minuteTable, readerVars>>
  <2>1. Fresh(B)'
    BY <1>1, <1>3, FreshStays
  <2>2. QED
    BY <2>1 DEF LiveFresh
<1>4. ASSUME UNCHANGED <<writerVars, now, minuteTable, cache>>, NEW r \in Readers, r \in Calls => CallFresh(r, B)',
             \A q \in Readers \ {r} : pc'[q] = pc[q] /\ at'[q] = at[q] /\ snap'[q] = snap[q] /\ base'[q] = base[q]
      PROVE  LiveFresh'
  <2>1. CacheFresh(B)'
    BY <1>1, <1>4 DEF Fresh, CacheFresh
  <2>2. QED
    BY <1>1, <1>4, <2>1, FreshCall
<1>5. ASSUME NEW r \in Readers, FetchBars(r) PROVE LiveFresh'
  <2>1. PICK i \in {"1h", "4h"}, next \in {"4h", "built"} :
          Fetch(r, i, next) /\ (i = "1h" => next = "4h") /\ (i = "4h" => next = "built")
    BY <1>5 DEF FetchBars
  <2>2. /\ \A q \in Readers \ {r} : snap'[q] = snap[q]
        /\ pc[r] = i /\ pc' = [pc EXCEPT ![r] = next]
        /\ UNCHANGED <<writerVars, now, minuteTable, cache, at, base>>
    BY <2>1, FetchDoes DEF Fetch
  <2>3. ASSUME r \in Calls PROVE CallFresh(r, B)'
    <3>1. CallFresh(r, B) /\ base[r] \in Tables
      BY <1>0, <1>1, <2>3 DEF Fresh, ReaderTypes
    <3>2. /\ at[r] <= now /\ base[r] = B[Minute(at[r])]
          /\ \A b \in Bars : base[r][b] <= table[b] /\ (base[r][b] # 0 => OpensAt[b] <= at[r])
      BY <2>1, <2>2, <3>1 DEF CallFresh, Active
    <3>3. /\ CoversOf(i, snap'[r], base[r])
          /\ \A j \in {"1h", "4h"} \ {i} : CoversOf(j, snap[r], base[r]) => CoversOf(j, snap'[r], base[r])
      BY <2>1, <3>1, <3>2, FetchCovers
    <3>4. pc'[r] = next /\ next \in {"4h", "built"}
      BY <1>0, <2>2 DEF ReaderTypes
    <3>5. next = "4h" => CoversOf("1h", snap'[r], base[r])
      BY <2>1, <3>3
    <3>6. next = "built" => Covers(snap'[r], base[r])
      <4>1. next = "built" => CoversOf("1h", snap[r], base[r]) /\ i = "4h"
        BY <2>1, <2>2, <3>1 DEF CallFresh
      <4>2. next = "built" => CoversOf("1h", snap'[r], base[r]) /\ CoversOf("4h", snap'[r], base[r])
        BY <3>3, <4>1
      <4>3. QED
        BY <4>2, CoversBoth
    <3>7. at' = at /\ base' = base /\ now' = now /\ table' = table
      BY <2>2 DEF writerVars
    <3>8. QED
      BY <3>2, <3>4, <3>5, <3>6, <3>7 DEF CallFresh
  <2>4. QED
    BY <1>0, <1>4, <2>2, <2>3 DEF ReaderTypes
<1>6. ASSUME NEW c \in Calls, LiveStep(c) PROVE LiveFresh'
  <2>1. c \in Readers /\ at[c] \in Times /\ Minute(at[c]) \in Minutes /\ Minute(at[c]) \in Nat /\ at[c] \in Nat
    BY <1>0, KeyIsMinute, MinutesRise DEF Readers, ReaderTypes
  <2>2. CallFresh(c, B) /\ CacheFresh(B)
    BY <1>1 DEF Fresh
  <2>3. CASE Live(c)
    <3>1. \A q \in Readers \ {c} : pc'[q] = pc[q] /\ at'[q] = at[q] /\ snap'[q] = snap[q] /\ base'[q] = base[q]
      BY <1>0, <2>1, <2>3, BuildDoes DEF Live, ReaderTypes
    <3>2. at'[c] = now /\ base'[c] = minuteTable /\ pc'[c] = "get"
      BY <1>0, <2>1, <2>3, BuildDoes DEF Live, ReaderTypes
    <3>3. /\ now \in Nat /\ \A b \in Bars : minuteTable[b] <= table[b]
          /\ minuteTable = B[Minute(now)]
      BY <1>0, <1>1, KeyIsMinute DEF Fresh, ReaderTypes
    <3>4. \A b \in Bars : minuteTable[b] # 0 => OpensAt[b] <= now
      BY <3>3, MarketConstants DEF ClosedBars, ClosedBy
    <3>5. now' = now /\ table' = table /\ UNCHANGED <<writerVars, now, minuteTable, cache>>
      BY <2>3 DEF Live, writerVars
    <3>6. CallFresh(c, B)'
      BY <3>2, <3>3, <3>4, <3>5 DEF CallFresh
    <3>7. QED
      BY <1>4, <2>1, <3>1, <3>5, <3>6
  <2>4. ASSUME UNCHANGED <<writerVars, now, minuteTable, at, base>>,
               \A q \in Readers \ {c} : pc'[q] = pc[q] /\ snap'[q] = snap[q],
               pc[c] \in Active, pc'[c] \in {"1h", "archive", "served"},
               pc'[c] # "1h" => Covers(snap'[c], base[c]), CacheFresh(B)'
        PROVE  LiveFresh'
    <3>1. now' = now /\ table' = table /\ at' = at /\ base' = base
      BY <2>4 DEF writerVars
    <3>2. CallFresh(c, B)'
      BY <2>2, <2>4, <3>1 DEF CallFresh
    <3>3. QED
      BY <1>1, <2>1, <2>4, <3>1, <3>2, FreshCall
  <2>5. CASE Hit(c)
    <3>1. pc[c] = "get" /\ pc'[c] = "served" /\ snap'[c] = cache[Minute(at[c])] /\ cache[Minute(at[c])] # None
          /\ \A q \in Readers \ {c} : pc'[q] = pc[q] /\ snap'[q] = snap[q]
      BY <1>0, <2>1, <2>5 DEF Hit, Key, ReaderTypes
    <3>2. base[c] = B[Minute(at[c])]
      BY <2>2, <3>1 DEF CallFresh, Active
    <3>3. Covers(snap'[c], base[c])
      BY <2>1, <2>2, <3>1, <3>2 DEF CacheFresh
    <3>4. UNCHANGED <<writerVars, now, minuteTable, at, base>> /\ cache' = cache
      BY <2>5 DEF Hit
    <3>5. CacheFresh(B)'
      BY <2>2, <3>4 DEF CacheFresh
    <3>6. QED
      BY <2>4, <3>1, <3>3, <3>4, <3>5 DEF Active
  <2>6. CASE Miss(c)
    <3>1. pc[c] = "get" /\ pc'[c] = "1h" /\ snap' = snap
          /\ \A q \in Readers \ {c} : pc'[q] = pc[q]
      BY <1>0, <2>1, <2>6 DEF Miss, ReaderTypes
    <3>2. UNCHANGED <<writerVars, now, minuteTable, at, base>> /\ cache' = cache
      BY <2>6 DEF Miss
    <3>3. CacheFresh(B)'
      BY <2>2, <3>2 DEF CacheFresh
    <3>4. QED
      BY <2>4, <3>1, <3>2, <3>3 DEF Active
  <2>7. CASE SetCache(c)
    <3>1. pc[c] = "built" /\ pc'[c] = "archive" /\ snap' = snap
          /\ \A q \in Readers \ {c} : pc'[q] = pc[q]
      BY <1>0, <2>1, <2>7 DEF SetCache, ReaderTypes
    <3>2. at[c] <= now /\ base[c] = B[Minute(at[c])] /\ Covers(snap[c], base[c])
      BY <2>2, <3>1 DEF CallFresh, Active
    <3>3. \A m \in Minutes : cache'[m] = IF m = Minute(at[c]) THEN snap[c] ELSE cache[m]
      BY <1>0, <2>1, <2>7 DEF SetCache, Key, ReaderTypes
    <3>4. UNCHANGED <<writerVars, now, minuteTable, at, base>>
      BY <2>7 DEF SetCache
    <3>5. Minute(at[c]) <= Minute(now)
      BY <1>0, <2>1, <3>2, KeyIsMinute, MinutesRise DEF ReaderTypes
    <3>6. CacheFresh(B)'
      BY <2>2, <3>2, <3>3, <3>4, <3>5 DEF CacheFresh
    <3>7. QED
      BY <2>4, <3>1, <3>2, <3>4, <3>6 DEF Active
  <2>8. CASE Archive(c)
    <3>1. pc[c] = "archive" /\ pc'[c] = "served" /\ snap' = snap
          /\ \A q \in Readers \ {c} : pc'[q] = pc[q]
      BY <1>0, <2>1, <2>8 DEF Archive, ReaderTypes
    <3>2. UNCHANGED <<writerVars, now, minuteTable, at, base>> /\ cache' = cache
      BY <2>8 DEF Archive
    <3>3. CacheFresh(B)' /\ Covers(snap'[c], base[c])
      BY <2>2, <3>1, <3>2 DEF CacheFresh, CallFresh
    <3>4. QED
      BY <2>4, <3>1, <3>2, <3>3 DEF Active
  <2>9. CASE Raise(c)
    <3>1. \A q \in Readers \ {c} : pc'[q] = pc[q] /\ at'[q] = at[q] /\ snap'[q] = snap[q] /\ base'[q] = base[q]
      BY <1>0, <2>1, <2>9, BuildDoes, TimesAre DEF Raise, ReaderTypes
    <3>2. pc'[c] = "failed" /\ UNCHANGED <<writerVars, now, minuteTable, cache>>
      BY <1>0, <2>1, <2>9 DEF Raise, ReaderTypes
    <3>3. CallFresh(c, B)'
      BY <3>2 DEF CallFresh, Active
    <3>4. QED
      BY <1>4, <2>1, <3>1, <3>2, <3>3
  <2>10. QED
    BY <1>5, <1>6, <2>1, <2>3, <2>5, <2>6, <2>7, <2>8, <2>9 DEF LiveStep
<1>7. CASE ExportStep
  <2>1. Export \notin Calls /\ Export \in Readers
    BY MarketConstants DEF Export, Readers
  <2>2. ASSUME NEW t \in Times, Build(Export, t), pc' = [pc EXCEPT ![Export] = "1h"] \/ pc' = [pc EXCEPT ![Export] = "served"],
               UNCHANGED <<writerVars, now, minuteTable, cache, base>>
        PROVE  LiveFresh'
    <3>1. \A q \in Readers \ {Export} : pc'[q] = pc[q] /\ at'[q] = at[q] /\ snap'[q] = snap[q] /\ base'[q] = base[q]
      BY <1>0, <2>1, <2>2, BuildDoes DEF ReaderTypes
    <3>2. QED
      BY <1>4, <2>1, <2>2, <3>1
  <2>3. CASE StartExport
    BY <2>2, <2>3, TimesAre DEF StartExport
  <2>4. CASE WriteSnapshot \/ SkipSnapshot
    <3>1. Advance /\ UNCHANGED <<writerVars, now, minuteTable, cache, base>>
      BY <2>4 DEF WriteSnapshot, SkipSnapshot
    <3>2. \E t \in Times : /\ Build(Export, t)
                           /\ pc' = [pc EXCEPT ![Export] = "1h"] \/ pc' = [pc EXCEPT ![Export] = "served"]
      BY <3>1, AdvanceDoes, TimesAre
    <3>3. QED
      BY <2>2, <3>1, <3>2
  <2>5. QED
    BY <1>5, <1>7, <2>1, <2>3, <2>4 DEF ExportStep
<1>8. CASE Writer \/ (\E b \in Bars : Candle(b)) \/ UNCHANGED vars
  BY <1>3, <1>8 DEF Writer, Candle, vars
<1>9. QED
  BY <1>2, <1>6, <1>7, <1>8 DEF Next

LiveInv == OrderInv /\ ClosedInv /\ (~raced => LiveFresh)

\* Every step keeps them so, until flushes overlap.
LEMMA LiveInvStep == LiveInv /\ [Next]_vars => LiveInv'
<1> SUFFICES ASSUME LiveInv, [Next]_vars PROVE LiveInv'
  OBVIOUS
<1>1. OrderInv /\ OrderInv' /\ ClosedInv /\ ClosedInv'
  BY OrderInvStep, ClosedInvStep DEF LiveInv
<1>2. ASSUME ~raced' PROVE LiveFresh'
  <2>1. ~raced
    BY <1>2, RacedStays, WriterMoves
  <2>2. \A b \in Bars : table'[b] >= table[b]
    BY <1>1, <1>2, TableRises
  <2>3. QED
    BY <1>1, <2>1, <2>2, LiveFreshStep DEF LiveInv, ClosedInv
<1>3. QED
  BY <1>1, <1>2 DEF LiveInv

\* A live prediction, served from the cache or not, is given every bar that the
\* table held when its minute began, or as many newer ones, whatever is written
\* while it reads, as long as no two flushes overlap (snapshot.py:70-76).
THEOREM LiveSeesItsMinute == Spec => []LiveIsFresh
<1>1. LiveInv => LiveIsFresh
  BY DEF LiveInv, LiveFresh, Fresh, CallFresh, LiveIsFresh
<1>2. Init => LiveInv
  BY OrderInvInit, ClosedInvInit, LiveFreshInit DEF LiveInv
<1>3. QED
  BY <1>1, <1>2, LiveInvStep, PTL DEF Spec

(***************************************************************************)
(* An export never forgets.                                                *)
(***************************************************************************)

\* What is known of a dataset: its snapshots hold bars of the table that opened
\* by their time; the export goes from cursor to cursor, and its queries have
\* covered every earlier snapshot for the intervals they have read.
DataFresh ==
  \A t \in Cursors : dataset[t] # None =>
    \A b \in Bars : dataset[t].bars[b] <= table[b] /\ (dataset[t].bars[b] # 0 => OpensAt[b] <= t)

HeldFresh ==
  \A b \in Bars : /\ snap[Export].bars[b] <= table[b]
                  /\ snap[Export].bars[b] # 0 => OpensAt[b] <= at[Export]

Building ==
  pc[Export] \in {"1h", "4h", "built"} =>
    at[Export] \in Cursors /\ \A t \in Cursors : dataset[t] # None => t < at[Export]

HeldCovers ==
  \A t \in Cursors : dataset[t] # None =>
    /\ pc[Export] = "4h" => CoversOf("1h", snap[Export], dataset[t].bars)
    /\ pc[Export] = "built" => Covers(snap[Export], dataset[t].bars)

DataCovers ==
  \A t, u \in Cursors :
    t < u /\ dataset[t] # None /\ dataset[u] # None => Covers(dataset[u], dataset[t].bars)

ExportFresh ==
  /\ pc[Export] \in {"idle", "1h", "4h", "built", "served"}
  /\ pc[Export] = "idle" => \A t \in Cursors : dataset[t] = None
  /\ DataFresh /\ HeldFresh /\ Building /\ HeldCovers /\ DataCovers

\* At the start nothing has been exported.
LEMMA ExportFreshInit == Init => ExportFresh
<1> SUFFICES ASSUME Init PROVE ExportFresh
  OBVIOUS
<1>1. Export \in Readers /\ pc[Export] = "idle" /\ snap[Export] = Empty /\ \A t \in Cursors : dataset[t] = None
  BY TimesAre DEF Init
<1>2. \A b \in Bars : table[b] = 0 /\ snap[Export].bars[b] = 0
  BY <1>1 DEF Init, WriterInit, Empty
<1>3. QED
  BY <1>1, <1>2 DEF ExportFresh, DataFresh, HeldFresh, Building, HeldCovers, DataCovers

\* A step that leaves the export where it is, and may add to the table.
LEMMA ExportStays ==
  ASSUME Types, Types', ExportFresh, \A b \in Bars : table'[b] >= table[b],
         dataset' = dataset, pc'[Export] = pc[Export], at'[Export] = at[Export], snap'[Export] = snap[Export]
  PROVE  ExportFresh'
<1>1. \A b \in Bars : table[b] \in Nat /\ table'[b] \in Nat /\ snap[Export].bars[b] \in Nat
  BY TimesAre, WriterConstants DEF Types, WriterTypes, ReaderTypes, Snaps, Tables, Versions
<1>2. \A t \in Cursors : dataset[t] # None => \A b \in Bars : dataset[t].bars[b] \in Nat
  BY WriterConstants DEF Types, ReaderTypes, Snaps, Tables, Versions
<1>3. DataFresh'
  BY <1>1, <1>2 DEF ExportFresh, DataFresh
<1>4. HeldFresh'
  BY <1>1 DEF ExportFresh, HeldFresh
<1>5. Building' /\ HeldCovers' /\ DataCovers'
  BY DEF ExportFresh, Building, HeldCovers, DataCovers
<1>6. QED
  BY <1>3, <1>4, <1>5 DEF ExportFresh

\* The export begins the snapshot of a cursor after those it has written, or ends.
LEMMA ExportTurns ==
  ASSUME Types, NEW t \in Times, Build(Export, t), table' = table, pc'[Export] \in {"1h", "served"},
         DataFresh', DataCovers',
         pc'[Export] = "1h" => t \in Cursors /\ \A u \in Cursors : dataset'[u] # None => u < t
  PROVE  ExportFresh'
<1>1. at'[Export] = t /\ snap'[Export].bars = [b \in Bars |-> 0] /\ \A b \in Bars : table[b] \in Nat
  BY BuildDoes, TimesAre, WriterConstants DEF Types, WriterTypes, Tables, Versions
<1>2. HeldFresh'
  BY <1>1 DEF HeldFresh
<1>3. Building' /\ HeldCovers'
  BY <1>1 DEF Building, HeldCovers
<1>4. QED
  BY <1>2, <1>3 DEF ExportFresh

\* A query of the export: the snapshot covers what the dataset knew of the bars
\* it asks for, and takes in only what the table holds.
LEMMA ExportFetches ==
  ASSUME Types, ExportFresh, FetchBars(Export)
  PROVE  ExportFresh'
<1>0. ReaderTypes /\ WriterTypes /\ Export \in Readers
  BY TimesAre DEF Types
<1>1. PICK i \in {"1h", "4h"}, next \in {"4h", "built"} :
        Fetch(Export, i, next) /\ (i = "1h" => next = "4h") /\ (i = "4h" => next = "built")
  BY DEF FetchBars
<1>2. /\ pc[Export] = i /\ pc'[Export] = next
      /\ UNCHANGED <<table, at, dataset>>
      /\ \A b \in Bars : snap'[Export].bars[b] = IF b \in Window(i, at[Export]) THEN table[b] ELSE snap[Export].bars[b]
  BY <1>0, <1>1, FetchDoes DEF Fetch, ReaderTypes, writerVars
<1>3. at[Export] \in Cursors /\ at[Export] \in Nat /\ \A t \in Cursors : t \in Nat /\ OpensAt \in [Bars -> Nat]
  BY <1>1, <1>2, TimesAre, KeyIsMinute, MarketConstants DEF ExportFresh, Building
<1>4. HeldFresh'
  <2> SUFFICES ASSUME NEW b \in Bars
               PROVE  /\ snap'[Export].bars[b] <= table[b]
                      /\ snap'[Export].bars[b] # 0 => OpensAt[b] <= at[Export]
    BY <1>2 DEF HeldFresh
  <2>1. table[b] <= table[b]
    BY <1>0, WriterConstants DEF WriterTypes, Tables, Versions
  <2>2. b \in Window(i, at[Export]) => OpensAt[b] <= at[Export]
    BY DEF Window
  <2>3. QED
    BY <1>2, <2>1, <2>2 DEF ExportFresh, HeldFresh
<1>5. ASSUME NEW t \in Cursors, dataset[t] # None
      PROVE  /\ next = "4h" => CoversOf("1h", snap'[Export], dataset[t].bars)
             /\ next = "built" => Covers(snap'[Export], dataset[t].bars)
  <2> DEFINE seen == dataset[t].bars
  <2>1. seen \in Tables
    BY <1>0, <1>5 DEF ReaderTypes, Snaps
  <2>2. \A b \in Bars : seen[b] <= table[b] /\ (seen[b] # 0 => OpensAt[b] <= t)
    BY <1>5 DEF ExportFresh, DataFresh
  <2>3. t < at[Export]
    BY <1>1, <1>2, <1>5 DEF ExportFresh, Building
  <2>4. pc[Export] = "4h" => CoversOf("1h", snap[Export], seen)
    BY <1>5 DEF ExportFresh, HeldCovers
  <2> HIDE DEF seen
  <2>5. \A b \in Bars : seen[b] <= table[b] /\ (seen[b] # 0 => OpensAt[b] <= at[Export])
    BY <1>3, <2>2, <2>3
  <2>6. /\ CoversOf(i, snap'[Export], seen)
        /\ \A j \in {"1h", "4h"} \ {i} : CoversOf(j, snap[Export], seen) => CoversOf(j, snap'[Export], seen)
    BY <1>0, <1>1, <2>1, <2>5, FetchCovers
  <2>7. next = "4h" => CoversOf("1h", snap'[Export], seen)
    BY <1>1, <2>6
  <2>8. next = "built" => CoversOf("1h", snap'[Export], seen) /\ CoversOf("4h", snap'[Export], seen)
    BY <1>1, <1>2, <2>4, <2>6
  <2>9. QED
    BY <2>7, <2>8, CoversBoth DEF seen
<1>6. HeldCovers'
  BY <1>2, <1>5 DEF HeldCovers
<1>7. Building'
  BY <1>1, <1>2 DEF ExportFresh, Building
<1>8. DataFresh' /\ DataCovers'
  BY <1>2 DEF ExportFresh, DataFresh, DataCovers
<1>9. QED
  BY <1>1, <1>2, <1>4, <1>6, <1>7, <1>8 DEF ExportFresh

\* A step in which no bar goes back keeps later snapshots of a dataset ahead of earlier ones.
LEMMA ExportFreshStep ==
  ASSUME Types, Types', ExportFresh, [Next]_vars, \A b \in Bars : table'[b] >= table[b]
  PROVE  ExportFresh'
<1>0. ReaderTypes /\ WriterTypes /\ Export \in Readers /\ Export \notin Calls
  BY TimesAre, MarketConstants DEF Types, Export
<1>1. CASE Tick \/ Writer \/ (\E b \in Bars : Candle(b)) \/ UNCHANGED vars
  BY <1>1, ExportStays DEF Tick, Writer, Candle, vars, readerVars
<1>2. ASSUME NEW c \in Calls, LiveStep(c) PROVE ExportFresh'
  <2>1. c \in Readers /\ c # Export
    BY <1>0 DEF Readers
  <2>2. dataset' = dataset /\ pc'[Export] = pc[Export]
    BY <1>0, <1>2, <2>1 DEF LiveStep, Live, Hit, Miss, FetchBars, Fetch, SetCache, Archive, Raise, ReaderTypes
  <2>3. at'[Export] = at[Export] /\ snap'[Export] = snap[Export]
    <3>1. CASE Live(c) \/ Raise(c)
      BY <1>0, <2>1, <3>1, BuildDoes, TimesAre DEF Live, Raise, ReaderTypes
    <3>2. CASE FetchBars(c)
      BY <1>0, <2>1, <3>2, FetchDoes DEF FetchBars, Fetch
    <3>3. CASE Hit(c) \/ Miss(c) \/ SetCache(c) \/ Archive(c)
      BY <1>0, <2>1, <3>3 DEF Hit, Miss, SetCache, Archive, ReaderTypes
    <3>4. QED
      BY <1>2, <3>1, <3>2, <3>3 DEF LiveStep
  <2>4. QED
    BY <2>2, <2>3, ExportStays
<1>3. CASE StartExport
  <2>1. PICK t \in Cursors : Build(Export, t)
    BY <1>3 DEF StartExport
  <2>2. /\ pc[Export] = "idle" /\ pc'[Export] = "1h" /\ UNCHANGED <<table, dataset>>
    BY <1>0, <1>3 DEF StartExport, ReaderTypes, writerVars
  <2>3. \A u \in Cursors : dataset'[u] = None
    BY <2>2 DEF ExportFresh
  <2>4. DataFresh' /\ DataCovers'
    BY <2>3 DEF DataFresh, DataCovers
  <2>5. QED
    BY <2>1, <2>2, <2>3, <2>4, ExportTurns, TimesAre
<1>4. ASSUME Advance, table' = table, DataFresh', DataCovers',
             \A u \in Cursors : dataset'[u] # None => u <= at[Export]
      PROVE  ExportFresh'
  <2>1. CASE Build(Export, 0) /\ pc' = [pc EXCEPT ![Export] = "served"]
    <3>1. pc'[Export] = "served"
      BY <1>0, <2>1 DEF ReaderTypes
    <3>2. QED
      BY <1>4, <2>1, <3>1, ExportTurns, TimesAre
  <2>2. ASSUME NEW t \in Left(at[Export]), Build(Export, t), pc' = [pc EXCEPT ![Export] = "1h"]
        PROVE  ExportFresh'
    <3>1. pc'[Export] = "1h" /\ t \in Cursors /\ t > at[Export] /\ t \in Times
      BY <1>0, <2>2, TimesAre DEF ReaderTypes, Left
    <3>2. at[Export] \in Nat /\ t \in Nat /\ \A u \in Cursors : u \in Nat
      BY <1>0, <3>1, KeyIsMinute, TimesAre DEF ReaderTypes
    <3>3. \A u \in Cursors : dataset'[u] # None => u < t
      BY <1>4, <3>1, <3>2
    <3>4. QED
      BY <1>4, <2>2, <3>1, <3>3, ExportTurns
  <2>3. QED
    BY <1>4, <2>1, <2>2, AdvanceDoes
<1>5. CASE SkipSnapshot
  <2>1. Advance /\ UNCHANGED <<table, dataset>> /\ pc[Export] \in {"1h", "4h", "built"}
    BY <1>5 DEF SkipSnapshot, writerVars
  <2>2. \A u \in Cursors : dataset'[u] # None => u <= at[Export]
    <3>1. at[Export] \in Nat /\ \A u \in Cursors : u \in Nat
      BY <1>0, KeyIsMinute, TimesAre DEF ReaderTypes
    <3>2. QED
      BY <2>1, <3>1 DEF ExportFresh, Building
  <2>3. DataFresh' /\ DataCovers'
    BY <2>1 DEF ExportFresh, DataFresh, DataCovers
  <2>4. QED
    BY <1>4, <2>1, <2>2, <2>3
<1>6. CASE WriteSnapshot
  <2>1. /\ Advance /\ table' = table /\ pc[Export] = "built"
        /\ dataset' = [dataset EXCEPT ![at[Export]] = snap[Export]]
    BY <1>6 DEF WriteSnapshot, writerVars
  <2>2. /\ at[Export] \in Cursors /\ at[Export] \in Nat /\ (\A u \in Cursors : u \in Nat)
        /\ \A t \in Cursors : dataset[t] # None => t < at[Export]
    BY <1>0, <2>1, KeyIsMinute, TimesAre DEF ReaderTypes, ExportFresh, Building
  <2>3. \A u \in Cursors : dataset'[u] = IF u = at[Export] THEN snap[Export] ELSE dataset[u]
    BY <1>0, <2>1 DEF ReaderTypes
  <2>4. \A u \in Cursors : dataset'[u] # None => u <= at[Export]
    BY <2>2, <2>3
  <2>5. DataFresh'
    <3> SUFFICES ASSUME NEW t \in Cursors, dataset'[t] # None, NEW b \in Bars
                 PROVE  dataset'[t].bars[b] <= table[b] /\ (dataset'[t].bars[b] # 0 => OpensAt[b] <= t)
      BY <2>1 DEF DataFresh
    <3>1. CASE t = at[Export]
      BY <2>3, <3>1 DEF ExportFresh, HeldFresh
    <3>2. CASE t # at[Export]
      BY <2>3, <3>2 DEF ExportFresh, DataFresh
    <3>3. QED
      BY <3>1, <3>2
  <2>6. DataCovers'
    <3> SUFFICES ASSUME NEW t \in Cursors, NEW u \in Cursors, t < u, dataset'[t] # None, dataset'[u] # None
                 PROVE  Covers(dataset'[u], dataset'[t].bars)
      BY DEF DataCovers
    <3>1. t # at[Export] /\ dataset'[t] = dataset[t]
      BY <2>2, <2>3, <2>4
    <3>2. CASE u = at[Export]
      <4>1. Covers(snap[Export], dataset[t].bars)
        BY <2>1, <3>1 DEF ExportFresh, HeldCovers
      <4>2. QED
        BY <2>3, <3>1, <3>2, <4>1
    <3>3. CASE u # at[Export]
      BY <2>3, <3>1, <3>3 DEF ExportFresh, DataCovers
    <3>4. QED
      BY <3>2, <3>3
  <2>7. QED
    BY <1>4, <2>1, <2>4, <2>5, <2>6
<1>7. CASE FetchBars(Export)
  BY <1>7, ExportFetches
<1>8. QED
  BY <1>1, <1>2, <1>3, <1>5, <1>6, <1>7 DEF Next, ExportStep

ExportInv == OrderInv /\ ClosedInv /\ (~raced => ExportFresh)

\* Every step keeps them so, until flushes overlap.
LEMMA ExportInvStep == ExportInv /\ [Next]_vars => ExportInv'
<1> SUFFICES ASSUME ExportInv, [Next]_vars PROVE ExportInv'
  OBVIOUS
<1>1. OrderInv /\ OrderInv' /\ ClosedInv /\ ClosedInv'
  BY OrderInvStep, ClosedInvStep DEF ExportInv
<1>2. ASSUME ~raced' PROVE ExportFresh'
  <2>1. ~raced
    BY <1>2, RacedStays, WriterMoves
  <2>2. \A b \in Bars : table'[b] >= table[b]
    BY <1>1, <1>2, TableRises
  <2>3. QED
    BY <1>1, <2>1, <2>2, ExportFreshStep DEF ExportInv, ClosedInv
<1>3. QED
  BY <1>1, <1>2 DEF ExportInv

\* In a dataset each snapshot knows what every earlier one knew, or as many
\* newer bars, though the feed writes and snapshots fail while it is exported, as
\* long as no two flushes overlap: a backtest never unlearns a bar.
THEOREM DatasetNeverForgets == Spec => []ExportNeverForgets
<1>1. ExportInv => ExportNeverForgets
  BY DEF ExportInv, ExportFresh, DataCovers, ExportNeverForgets
<1>2. Init => ExportInv
  BY OrderInvInit, ClosedInvInit, ExportFreshInit DEF ExportInv
<1>3. QED
  BY <1>1, <1>2, ExportInvStep, PTL DEF Spec

=============================================================================
