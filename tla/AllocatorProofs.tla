-------------------------- MODULE AllocatorProofs --------------------------
(***************************************************************************)
(* Theorems about Allocator for any number of signals, models, assets and  *)
(* days, every setting and every error of a fill: what the books may show  *)
(* whatever tasks interleave, and what the limits are worth when no task   *)
(* passes its check while another is between check and booking.            *)
(***************************************************************************)
EXTENDS Allocator, SumLemmas

(***************************************************************************)
(* Types and sizes.                                                        *)
(***************************************************************************)

PC == {"new", "breaker", "halt", "capacity", "exposure", "daily", "newRow", "count"} \cup Booking \cup Over

\* A task before its check or in its booking has a size worth trading.
Sized == {"breaker", "capacity", "exposure", "execute"}
Filled == {"record", "position", "write"}

Types ==
  /\ position \in [Signals -> Nat] /\ fill \in [Signals -> Nat]
  /\ today \in Days /\ tradeCount \in [Days -> Nat]
  /\ pc \in [Signals -> PC]
  /\ seen \in [Signals -> Nat] /\ target \in [Signals -> Signals] /\ rowDay \in [Signals -> Days]
  /\ \A s \in Signals : pc[s] \in Sized => Size(s) > 0

\* A size is nothing, or at least the floor.
LEMMA SizeType ==
  ASSUME NEW s \in Signals
  PROVE  Size(s) \in Nat /\ (Size(s) > 0 => Size(s) >= MinTrade)
<1> DEFINE wanted == (EdgeBps[s] * 10000 * KellyBps) \div (VolBps[s] * VolBps[s])
           usd == (Aum * Min({wanted, MaxPositionBps})) \div 10000
<1>1. Size(s) = IF VolBps[s] <= 0 \/ EdgeBps[s] <= 0 \/ usd < MinTrade THEN 0 ELSE usd
  BY DEF Size
<1>2. EdgeBps[s] \in Int /\ VolBps[s] \in Int /\ KellyBps \in Nat /\ Aum \in Nat
      /\ MaxPositionBps \in Nat /\ MinTrade \in Nat
  BY AllocatorConstants
<1>3. ASSUME VolBps[s] > 0, EdgeBps[s] > 0 PROVE usd \in Nat
  <2>1. /\ EdgeBps[s] * 10000 * KellyBps \in Nat
        /\ VolBps[s] * VolBps[s] \in Nat /\ VolBps[s] * VolBps[s] > 0
    BY <1>2, <1>3
  <2>2. wanted \in Nat
    BY <2>1
  <2> HIDE DEF wanted
  <2>3. \E x \in {wanted, MaxPositionBps} : \A y \in {wanted, MaxPositionBps} : x <= y
    BY <1>2, <2>2
  <2>4. Min({wanted, MaxPositionBps}) \in {wanted, MaxPositionBps}
    BY <2>3 DEF Min
  <2> DEFINE least == Min({wanted, MaxPositionBps})
  <2>5. least \in Nat
    BY <1>2, <2>2, <2>4
  <2> HIDE DEF least
  <2>6. Aum * least \in Nat
    BY <1>2, <2>5
  <2>7. (Aum * least) \div 10000 \in Nat
    BY <2>6
  <2>8. QED
    BY <2>7 DEF least
<1> HIDE DEF usd
<1>4. CASE VolBps[s] <= 0 \/ EdgeBps[s] <= 0
  BY <1>1, <1>4
<1>5. CASE VolBps[s] > 0 /\ EdgeBps[s] > 0
  BY <1>1, <1>2, <1>3, <1>5
<1>6. QED
  BY <1>2, <1>4, <1>5

\* A fill of a size worth trading is a positive amount.
LEMMA FillType ==
  ASSUME NEW s \in Signals, NEW error \in FillErrors, Size(s) > 0
  PROVE  Size(s) + error \in Nat
<1>1. Size(s) \in Nat /\ Size(s) >= MinTrade
  BY SizeType
<1>2. error \in Int /\ MinTrade + error > 0 /\ MinTrade \in Nat
  BY AllocatorConstants
<1>3. QED
  BY <1>1, <1>2

\* Init gives the types.
LEMMA TypesInit == Init => Types
<1> SUFFICES ASSUME Init PROVE Types
  OBVIOUS
<1>1. fill \in [Signals -> Nat] /\ position \in [Signals -> Nat]
  BY SizeType DEF Init
<1>2. 0 \in Days
  BY AllocatorConstants DEF Days
<1>3. QED
  BY <1>1, <1>2 DEF Init, Types, PC, Sized, Over, Booking

\* Every step keeps them.
LEMMA TypesStep == Types /\ [Next]_vars => Types'
<1> SUFFICES ASSUME Types, [Next]_vars PROVE Types'
  OBVIOUS
<1>0. 0 \in Days /\ LastDay \in Nat
  BY AllocatorConstants DEF Days
<1> USE <1>0 DEF Types, PC, Sized, Over, Booking, Goto
<1>1. ASSUME NEW s \in Signals, Skip(s) \/ Accept(s) PROVE Types'
  BY <1>1 DEF Skip, Accept, bookVars, dailyVars
<1>2. ASSUME NEW s \in Signals, CheckBreaker(s) \/ Halt(s) PROVE Types'
  BY <1>2 DEF CheckBreaker, Halt, bookVars, dailyVars
<1>3. ASSUME NEW s \in Signals, CheckCapacity(s) \/ CheckExposure(s) PROVE Types'
  BY <1>3 DEF CheckCapacity, CheckExposure, bookVars, dailyVars
<1>4. ASSUME NEW s \in Signals, Fill(s) PROVE Types'
  <2>1. PICK error \in FillErrors, to \in {"record", "done"} :
          /\ pc[s] = "execute" /\ pc' = [pc EXCEPT ![s] = to]
          /\ fill' = [fill EXCEPT ![s] = Size(s) + error]
    BY <1>4 DEF Fill
  <2>2. Size(s) + error \in Nat
    BY <2>1, FillType
  <2>3. UNCHANGED <<position, today, tradeCount, seen, target, rowDay>>
    BY <1>4 DEF Fill, bookVars, dailyVars
  <2>4. QED
    BY <2>1, <2>2, <2>3
<1>5. ASSUME NEW s \in Signals, NotFilled(s) \/ Record(s) \/ ReadPosition(s) \/ ManyPositions(s)
      PROVE  Types'
  BY <1>5 DEF NotFilled, Record, ReadPosition, ManyPositions, SameSlot, OpenRows, bookVars, dailyVars
<1>6. ASSUME NEW s \in Signals, WritePosition(s) PROVE Types'
  BY <1>6 DEF WritePosition, bookVars, dailyVars
<1>7. ASSUME NEW s \in Signals, ReadDaily(s) \/ InsertDaily(s) \/ WriteCount(s) PROVE Types'
  BY <1>7 DEF ReadDaily, InsertDaily, WriteCount, bookVars, dailyVars
<1>8. CASE Refresh
  BY <1>8 DEF Refresh, RefreshMarks, RefreshReadDaily, RefreshInsertDaily, RefreshWrite,
     bookVars, dailyVars, taskVars
<1>9. CASE Midnight
  BY <1>9 DEF Midnight, bookVars, dailyVars, taskVars, Days
<1>10. CASE Restart
  BY <1>10 DEF Restart, bookVars
<1>11. CASE UNCHANGED vars
  BY <1>11 DEF vars, bookVars, dailyVars, taskVars
<1> HIDE DEF Types, PC, Sized, Over, Booking, Goto
<1>12. QED
  BY <1>1, <1>2, <1>3, <1>4, <1>5, <1>6, <1>7, <1>8, <1>9, <1>10, <1>11
     DEF Next, ProcessSignal, Allow, Book

\* Types holds in every reachable state.
LEMMA TypesCorrect == Spec => []Types
BY TypesInit, TypesStep, PTL DEF Spec

-----------------------------------------------------------------------------
(***************************************************************************)
(* The books against the venue.  Whatever was overwritten, the fills that  *)
(* can be behind the size of a row are fills of its slot, and no fill is   *)
(* behind two rows: the tasks that have written are shared out among the   *)
(* rows, and a size, or one that was read and is not written back yet, is  *)
(* at most what is filled for those of its row.                            *)
(***************************************************************************)

Past == {"daily", "newRow", "count"} \cup Over
Slot(s) == {o \in Signals : AssetOf[o] = AssetOf[s] /\ SideOf[o] = SideOf[s]}

\* The tasks of behind[p] are those that the row of p can stem from.
Shared(behind) ==
  /\ behind \in [Signals -> SUBSET Signals]
  /\ \A p, q \in Signals : p # q => behind[p] \cap behind[q] = {}
  /\ \A p \in Signals : behind[p] \subseteq Slot(p) /\ \A o \in behind[p] : pc[o] \in Past

Backed(behind) ==
  /\ \A p \in Signals : position[p] <= SumOf(fill, behind[p])
  /\ \A s \in Signals : pc[s] = "write" => /\ s \in Slot(target[s])
                                           /\ seen[s] <= SumOf(fill, behind[target[s]])

BooksBacked == \E behind : Shared(behind) /\ Backed(behind)

\* What is filled for a set of tasks is an amount.
LEMMA FilledType ==
  ASSUME Types, NEW S \in SUBSET Signals
  PROVE  /\ IsFiniteSet(S) /\ Summable(fill, S) /\ (\A x \in S : fill[x] \in Nat)
         /\ SumOf(fill, S) \in Nat
<1>1. IsFiniteSet(S)
  BY FS_Subset, AllocatorConstants
<1>2. \A x \in S : fill[x] \in Nat
  BY DEF Types
<1>3. QED
  BY <1>1, <1>2, SumNat DEF SumOf, Summable

\* A step that writes no row keeps the backing, as long as the fills of those
\* that have written stay and nobody reads a size.
LEMMA BackingStays ==
  ASSUME Types, Types', NEW behind, Shared(behind), Backed(behind),
         position' = position,
         \A s \in Signals : pc[s] \in Past => pc'[s] \in Past /\ fill'[s] = fill[s],
         \A s \in Signals : pc'[s] = "write" =>
           pc[s] = "write" /\ target'[s] = target[s] /\ seen'[s] = seen[s]
  PROVE  Shared(behind)' /\ Backed(behind)'
<1>1. Shared(behind)'
  BY DEF Shared, Slot
<1>2. \A p \in Signals : SumOf(fill', behind[p]) = SumOf(fill, behind[p])
  <2> TAKE p \in Signals
  <2>1. behind[p] \in SUBSET Signals /\ \A x \in behind[p] : fill[x] = fill'[x]
    BY DEF Shared
  <2>2. Summable(fill, behind[p])
    BY <2>1, FilledType
  <2>3. QED
    BY <2>1, <2>2, SumSame DEF SumOf
<1>3. Backed(behind)'
  <2> SUFFICES /\ \A p \in Signals : position'[p] <= SumOf(fill', behind[p])
               /\ \A s \in Signals : pc'[s] = "write" =>
                    s \in Slot(target'[s]) /\ seen'[s] <= SumOf(fill', behind[target'[s]])
    BY DEF Backed, SumOf, Slot
  <2>1. \A p \in Signals : position'[p] <= SumOf(fill', behind[p])
    BY <1>2 DEF Backed
  <2>2. \A s \in Signals : pc'[s] = "write" => s \in Slot(target'[s])
    BY DEF Backed
  <2>3. \A s \in Signals : pc'[s] = "write" => seen'[s] <= SumOf(fill', behind[target'[s]])
    BY <1>2 DEF Backed, Types
  <2>4. QED
    BY <2>1, <2>2, <2>3
<1>4. QED
  BY <1>1, <1>3

\* A task that reads the row of its slot finds a size that is backed.
LEMMA BackingRead ==
  ASSUME Types, Types', NEW behind, Shared(behind), Backed(behind),
         NEW s \in Signals, ReadPosition(s)
  PROVE  Shared(behind)' /\ Backed(behind)'
<1>1. /\ pc[s] = "position" /\ pc' = [pc EXCEPT ![s] = "write"]
      /\ position' = position /\ fill' = fill
      /\ \A o \in Signals \ {s} : target'[o] = target[o] /\ seen'[o] = seen[o]
  BY DEF ReadPosition, Goto, bookVars, Types
<1>2. Shared(behind)'
  BY <1>1 DEF Shared, Slot, Past, Over, Types
<1>3. s \in Slot(target'[s]) /\ seen'[s] <= SumOf(fill, behind[target'[s]])
  <2>1. CASE SameSlot(s) = {}
    <3>1. target'[s] = s /\ seen'[s] = 0
      BY <2>1 DEF ReadPosition, Types
    <3>2. SumOf(fill, behind[s]) \in Nat
      BY FilledType DEF Shared
    <3>3. QED
      BY <3>1, <3>2 DEF Slot
  <2>2. CASE SameSlot(s) # {}
    <3>1. PICK p \in SameSlot(s) : target' = [target EXCEPT ![s] = p]
                                   /\ seen' = [seen EXCEPT ![s] = position[p]]
      BY <2>2 DEF ReadPosition
    <3>2. p \in Signals /\ AssetOf[p] = AssetOf[s] /\ SideOf[p] = SideOf[s]
      BY DEF SameSlot, OpenRows
    <3>3. target'[s] = p /\ seen'[s] = position[p]
      BY <3>1 DEF Types
    <3>4. QED
      BY <3>2, <3>3 DEF Slot, Backed
  <2>3. QED
    BY <2>1, <2>2
<1>4. Backed(behind)'
  <2> SUFFICES /\ \A p \in Signals : position'[p] <= SumOf(fill', behind[p])
               /\ \A o \in Signals : pc'[o] = "write" =>
                    o \in Slot(target'[o]) /\ seen'[o] <= SumOf(fill', behind[target'[o]])
    BY DEF Backed, SumOf, Slot
  <2>1. \A o \in Signals : pc'[o] = "write" =>
           o \in Slot(target'[o]) /\ seen'[o] <= SumOf(fill', behind[target'[o]])
    <3> TAKE o \in Signals
    <3>1. CASE o = s
      BY <1>1, <1>3, <3>1
    <3>2. CASE o # s
      BY <1>1, <3>2 DEF Backed, Types
    <3>3. QED
      BY <3>1, <3>2
  <2>2. QED
    BY <1>1, <2>1 DEF Backed
<1>5. QED
  BY <1>2, <1>4

\* A task that writes joins those behind the row it writes.
LEMMA BackingWritten ==
  ASSUME Types, Types', NEW behind, Shared(behind), Backed(behind),
         NEW s \in Signals, WritePosition(s), NEW row, row = target[s]
  PROVE  LET grown == [behind EXCEPT ![row] = @ \cup {s}]
         IN  Shared(grown)' /\ Backed(grown)'
<1> DEFINE grown == [behind EXCEPT ![row] = @ \cup {s}]
<1>1. /\ pc[s] = "write" /\ pc' = [pc EXCEPT ![s] = "daily"] /\ fill' = fill
      /\ position' = [position EXCEPT ![row] = seen[s] + fill[s]]
      /\ \A o \in Signals \ {s} : target'[o] = target[o] /\ seen'[o] = seen[o]
  BY DEF WritePosition, Goto, Types
<1>2. row \in Signals /\ s \in Slot(row) /\ seen[s] <= SumOf(fill, behind[row])
  BY <1>1 DEF Backed, Types
<1>3. /\ behind \in [Signals -> SUBSET Signals]
      /\ grown \in [Signals -> SUBSET Signals]
      /\ grown[row] = behind[row] \cup {s}
      /\ \A p \in Signals \ {row} : grown[p] = behind[p]
  BY <1>2 DEF Shared
<1> HIDE DEF grown
<1>4. \A p \in Signals : s \notin behind[p]
  BY <1>1 DEF Shared, Past, Over
<1>5. Shared(grown)'
  <2>1. \A p, q \in Signals : p # q => grown[p] \cap grown[q] = {}
    <3> TAKE p, q \in Signals
    <3>1. behind[p] \cap behind[q] = {} \/ p = q
      BY DEF Shared
    <3>2. QED
      BY <1>3, <1>4, <3>1
  <2>2. \A p \in Signals : grown[p] \subseteq Slot(p) /\ \A o \in grown[p] : pc'[o] \in Past
    <3> TAKE p \in Signals
    <3>1. behind[p] \subseteq Slot(p) /\ \A o \in behind[p] : pc'[o] \in Past
      BY <1>1 DEF Shared, Past, Over, Types
    <3>2. pc'[s] \in Past
      BY <1>1 DEF Past, Types
    <3>3. QED
      BY <1>2, <1>3, <3>1, <3>2
  <2>3. QED
    BY <1>3, <2>1, <2>2 DEF Shared, Slot
<1>6. \A p \in Signals : /\ SumOf(fill, behind[p]) \in Nat /\ SumOf(fill, grown[p]) \in Nat
                         /\ SumOf(fill, behind[p]) <= SumOf(fill, grown[p])
                         /\ p = row => SumOf(fill, grown[p]) = SumOf(fill, behind[p]) + fill[s]
  <2> TAKE p \in Signals
  <2>1. SumOf(fill, behind[p]) \in Nat /\ SumOf(fill, grown[p]) \in Nat
    BY <1>3, FilledType
  <2>2. CASE p # row
    BY <1>3, <2>1, <2>2
  <2>3. CASE p = row
    <3>1. grown[p] \in SUBSET Signals /\ s \in grown[p]
      BY <1>3, <2>3
    <3>2. Summable(fill, grown[p])
      BY <3>1, FilledType
    <3>3. grown[p] \ {s} = behind[p]
      BY <1>3, <1>4, <2>3
    <3>4. SumOf(fill, grown[p] \ {s}) = SumOf(fill, behind[p])
      BY <3>3
    <3>5. SumOf(fill, grown[p]) = fill[s] + SumOf(fill, grown[p] \ {s})
      BY <3>1, <3>2, SumTake DEF SumOf
    <3>6. fill[s] \in Nat
      BY DEF Types
    <3>7. QED
      BY <2>1, <3>4, <3>5, <3>6
  <2>4. QED
    BY <2>2, <2>3
<1>7. Backed(grown)'
  <2> SUFFICES /\ \A p \in Signals : position'[p] <= SumOf(fill', grown[p])
               /\ \A o \in Signals : pc'[o] = "write" =>
                    o \in Slot(target'[o]) /\ seen'[o] <= SumOf(fill', grown[target'[o]])
    BY DEF Backed, SumOf, Slot
  <2>0. position \in [Signals -> Nat] /\ seen \in [Signals -> Nat] /\ fill \in [Signals -> Nat]
    BY DEF Types
  <2>1. \A p \in Signals : position'[p] <= SumOf(fill, grown[p])
    <3> TAKE p \in Signals
    <3>1. CASE p = row
      BY <1>1, <1>2, <1>6, <2>0, <3>1
    <3>2. CASE p # row
      <4>1. position'[p] = position[p] /\ position[p] <= SumOf(fill, behind[p])
        BY <1>1, <2>0, <3>2 DEF Backed
      <4>2. QED
        BY <1>6, <2>0, <4>1
    <3>3. QED
      BY <3>1, <3>2
  <2>2. \A o \in Signals : pc'[o] = "write" =>
           o \in Slot(target'[o]) /\ seen'[o] <= SumOf(fill, grown[target'[o]])
    <3> SUFFICES ASSUME NEW o \in Signals, pc'[o] = "write"
                 PROVE  o \in Slot(target'[o]) /\ seen'[o] <= SumOf(fill, grown[target'[o]])
      OBVIOUS
    <3>1. o # s /\ pc[o] = "write"
      BY <1>1 DEF Types
    <3>2. /\ target'[o] = target[o] /\ target[o] \in Signals /\ seen'[o] = seen[o]
          /\ o \in Slot(target[o]) /\ seen[o] <= SumOf(fill, behind[target[o]])
      BY <1>1, <3>1 DEF Backed, Types
    <3>3. seen[o] \in Nat
      BY <2>0
    <3>4. QED
      BY <1>6, <3>2, <3>3
  <2>3. SumOf(fill', grown[row]) = SumOf(fill, grown[row])
    BY <1>1
  <2>4. QED
    BY <1>1, <2>1, <2>2
<1>8. QED
  BY <1>5, <1>7 DEF grown

\* At the start the fill of a row is its own.
LEMMA BackedInit == Init => BooksBacked
<1> SUFFICES ASSUME Init PROVE BooksBacked
  OBVIOUS
<1> DEFINE behind == [p \in Signals |-> {o \in Before : o = p}]
<1>1. Before \subseteq Signals
  BY AllocatorConstants
<1>2. Shared(behind)
  BY <1>1 DEF Init, Shared, Slot, Past, Over
<1>3. \A p \in Signals : position[p] <= SumOf(fill, behind[p])
  <2> TAKE p \in Signals
  <2>1. fill[p] \in Nat /\ position[p] = fill[p]
    BY TypesInit DEF Types, Init
  <2>2. CASE p \in Before
    <3>1. behind[p] = {p}
      BY <1>1, <2>2
    <3>2. SumOf(fill, {p}) = fill[p]
      BY <2>1, SumOne DEF SumOf
    <3>3. SumOf(fill, behind[p]) = SumOf(fill, {p})
      BY <3>1
    <3>4. QED
      BY <2>1, <3>2, <3>3
  <2>3. CASE p \notin Before
    <3>1. position[p] = 0
      BY <2>3 DEF Init
    <3>2. behind[p] \in SUBSET Signals
      BY <1>1
    <3>3. SumOf(fill, behind[p]) \in Nat
      BY <3>2, TypesInit, FilledType
    <3>4. QED
      BY <3>1, <3>3
  <2>4. QED
    BY <2>2, <2>3
<1>4. \A s \in Signals : pc[s] # "write"
  BY DEF Init
<1> HIDE DEF behind
<1>5. Backed(behind)
  BY <1>3, <1>4 DEF Backed
<1>6. QED
  BY <1>2, <1>5 DEF BooksBacked

\* Every step keeps the books backed.
LEMMA BackedStep == Types /\ Types' /\ BooksBacked /\ [Next]_vars => BooksBacked'
<1> SUFFICES ASSUME Types, Types', BooksBacked, [Next]_vars PROVE BooksBacked'
  OBVIOUS
<1>1. PICK behind : Shared(behind) /\ Backed(behind)
  BY DEF BooksBacked
<1> SUFFICES \E b : Shared(b)' /\ Backed(b)'
  BY DEF BooksBacked
<1> DEFINE Frame == /\ position' = position
                    /\ \A s \in Signals : pc[s] \in Past => pc'[s] \in Past /\ fill'[s] = fill[s]
                    /\ \A s \in Signals : pc'[s] = "write" =>
                         pc[s] = "write" /\ target'[s] = target[s] /\ seen'[s] = seen[s]
<1>2. ASSUME NEW s \in Signals, Skip(s) \/ Accept(s) \/ Allow(s) PROVE Frame
  BY <1>2 DEF Skip, Accept, Allow, CheckBreaker, Halt, CheckCapacity, CheckExposure, Goto, bookVars,
     Past, Over, Types
<1>3. ASSUME NEW s \in Signals, Fill(s) PROVE Frame
  <2>1. PICK error \in FillErrors, to \in {"record", "done"} :
          /\ pc[s] = "execute" /\ pc' = [pc EXCEPT ![s] = to]
          /\ fill' = [fill EXCEPT ![s] = Size(s) + error]
          /\ UNCHANGED <<position, target, seen>>
    BY <1>3 DEF Fill, Goto, bookVars
  <2>2. QED
    BY <2>1 DEF Past, Over, Types
<1>4. ASSUME NEW s \in Signals, NotFilled(s) \/ Record(s) \/ ManyPositions(s) PROVE Frame
  BY <1>4 DEF NotFilled, Record, ManyPositions, Goto, bookVars, Past, Over, Types
<1>5. ASSUME NEW s \in Signals, ReadDaily(s) \/ InsertDaily(s) \/ WriteCount(s) PROVE Frame
  BY <1>5 DEF ReadDaily, InsertDaily, WriteCount, Goto, bookVars, Past, Over, Types
<1>6. CASE Refresh \/ Midnight \/ UNCHANGED vars
  <2>1. Frame
    BY <1>6 DEF Refresh, RefreshMarks, RefreshReadDaily, RefreshInsertDaily, RefreshWrite, Midnight,
       bookVars, taskVars, vars
  <2> HIDE DEF Frame
  <2>2. QED
    BY <1>1, <2>1, BackingStays DEF Frame
<1>7. CASE Restart
  <2>1. Frame
    BY <1>7 DEF Restart, bookVars, Past, Over, Types
  <2>2. QED
    BY <1>1, <2>1, BackingStays
<1>8. ASSUME NEW s \in Signals, ProcessSignal(s) PROVE \E b : Shared(b)' /\ Backed(b)'
  <2>1. CASE ReadPosition(s)
    BY <1>1, <2>1, BackingRead
  <2>2. CASE WritePosition(s)
    <3>1. PICK row : row = target[s]
      OBVIOUS
    <3>2. LET grown == [behind EXCEPT ![row] = @ \cup {s}] IN Shared(grown)' /\ Backed(grown)'
      BY <1>1, <2>2, <3>1, BackingWritten
    <3>3. QED
      BY <3>2
  <2>3. CASE ~ReadPosition(s) /\ ~WritePosition(s)
    <3> HIDE DEF Frame
    <3>1. Frame
      BY <1>2, <1>3, <1>4, <1>5, <1>8, <2>3 DEF ProcessSignal, Book
    <3>2. QED
      BY <1>1, <3>1, BackingStays DEF Frame
  <2>4. QED
    BY <2>1, <2>2, <2>3
<1>9. QED
  BY <1>6, <1>7, <1>8 DEF Next

\* The books never show more than the venue filled, for any slot and however
\* the tasks interleave, crash or overwrite each other: the sum over the rows of
\* a slot is at most the sum of the disjoint parts of its fills behind them.
THEOREM BooksNeverInvent == Spec => []BooksWithinVenue
<1>1. Types /\ BooksBacked => BooksWithinVenue
  <2> SUFFICES ASSUME Types, BooksBacked, NEW s \in Signals
               PROVE  SumOf(position, Slot(s)) <= SumOf(fill, Slot(s))
    BY DEF BooksWithinVenue, Slot
  <2>1. PICK behind : Shared(behind) /\ Backed(behind)
    BY DEF BooksBacked
  <2> DEFINE S == Slot(s)
             parts == [p \in S |-> SumFunctionOnSet(fill, behind[p])]
  <2>2. S \in SUBSET Signals /\ IsFiniteSet(S)
    BY FS_Subset, AllocatorConstants DEF Slot
  <2>3. \A x \in S : fill[x] \in Nat
    BY <2>2 DEF Types
  <2>4. \A p \in S : behind[p] \subseteq S
    BY <2>1 DEF Shared, Slot
  <2>5. \A p \in S, q \in S : p # q => behind[p] \cap behind[q] = {}
    BY <2>1, <2>2 DEF Shared
  <2> HIDE DEF S
  <2>6. SumFunctionOnSet(parts, S) <= SumFunctionOnSet(fill, S)
    BY <2>2, <2>3, <2>4, <2>5, SumOfParts
  <2>7. \A p \in S : parts[p] \in Nat /\ position[p] \in Nat /\ position[p] <= parts[p]
    <3> TAKE p \in S
    <3>1. parts[p] = SumOf(fill, behind[p])
      BY DEF SumOf
    <3>2. behind[p] \in SUBSET Signals /\ position[p] <= SumOf(fill, behind[p])
      BY <2>1, <2>2 DEF Shared, Backed
    <3>3. QED
      BY <2>2, <3>1, <3>2, FilledType DEF Types
  <2> HIDE DEF parts
  <2>8. SumFunctionOnSet(position, S) <= SumFunctionOnSet(parts, S)
    BY <2>2, <2>7, SumMonotone DEF Summable
  <2>9. /\ SumFunctionOnSet(position, S) \in Nat /\ SumFunctionOnSet(parts, S) \in Nat
        /\ SumFunctionOnSet(fill, S) \in Nat
    BY <2>2, <2>3, <2>7, SumNat
  <2>10. QED
    BY <2>6, <2>8, <2>9 DEF SumOf, S
<1>2. QED
  BY <1>1, TypesInit, TypesStep, BackedInit, BackedStep, PTL DEF Spec

-----------------------------------------------------------------------------
(***************************************************************************)
(* What holds as long as no task passes its check while another is between *)
(* check and booking: one task at a time is there, and what it has read of *)
(* its slot is still true when it writes.                                  *)
(***************************************************************************)

OneBooking == \A s, o \in Signals : pc[s] \in Booking /\ pc[o] \in Booking => s = o
OneRow == \A p, q \in OpenRows : AssetOf[p] = AssetOf[q] /\ SideOf[p] = SideOf[q] => p = q

\* The row that task s will write is the one of its slot, and as it was read.
ReadFresh(s) ==
  \/ SameSlot(s) = {} /\ target[s] = s /\ seen[s] = 0
  \/ \E p \in SameSlot(s) : SameSlot(s) = {p} /\ target[s] = p /\ seen[s] = position[p]

Alone == OneBooking /\ OneRow /\ \A s \in Signals : pc[s] = "write" => ReadFresh(s)

\* A step that writes no row, lets no task into the booking and reads nothing.
Bystander ==
  /\ position' = position
  /\ \A s \in Signals : pc'[s] \in Booking => pc[s] \in Booking
  /\ \A s \in Signals : pc'[s] = "write" =>
       pc[s] = "write" /\ target'[s] = target[s] /\ seen'[s] = seen[s]

\* The fill of a step of a task in its booking: only Fill changes it.
FillKept ==
  \A s \in Signals : pc'[s] \in Filled => pc[s] \in Filled /\ fill'[s] = fill[s]

\* A write adds what is filled to the row of its slot.
LEMMA WriteAdds ==
  ASSUME Types, NEW s \in Signals, WritePosition(s), ReadFresh(s)
  PROVE  /\ target[s] \in Signals
         /\ AssetOf[target[s]] = AssetOf[s] /\ SideOf[target[s]] = SideOf[s]
         /\ target[s] = s \/ target[s] \in OpenRows
         /\ position' = [position EXCEPT ![target[s]] = position[target[s]] + fill[s]]
         /\ \A o \in OpenRows : AssetOf[o] = AssetOf[s] /\ SideOf[o] = SideOf[s] => o = target[s]
<1>1. position' = [position EXCEPT ![target[s]] = seen[s] + fill[s]]
  BY DEF WritePosition
<1>2. CASE SameSlot(s) = {} /\ target[s] = s /\ seen[s] = 0
  <2>1. s \notin OpenRows
    BY <1>2 DEF SameSlot
  <2>2. position[s] = 0
    BY <2>1 DEF OpenRows, Types
  <2>3. QED
    BY <1>1, <1>2, <2>2 DEF SameSlot
<1>3. CASE \E p \in SameSlot(s) : SameSlot(s) = {p} /\ target[s] = p /\ seen[s] = position[p]
  <2>1. PICK p \in SameSlot(s) : SameSlot(s) = {p} /\ target[s] = p /\ seen[s] = position[p]
    BY <1>3
  <2>2. p \in OpenRows /\ p \in Signals /\ AssetOf[p] = AssetOf[s] /\ SideOf[p] = SideOf[s]
    BY DEF SameSlot, OpenRows
  <2>3. \A o \in OpenRows : AssetOf[o] = AssetOf[s] /\ SideOf[o] = SideOf[s] => o = p
    BY <2>1 DEF SameSlot
  <2>4. QED
    BY <1>1, <2>1, <2>2, <2>3
<1>4. QED
  BY <1>2, <1>3 DEF ReadFresh

\* What a step of a bystander keeps.
LEMMA BystanderKeeps ==
  ASSUME Types, Alone, Bystander
  PROVE  Alone'
<1>1. OneBooking'
  BY DEF Alone, OneBooking, Bystander
<1>2. OneRow'
  BY DEF Alone, OneRow, OpenRows, Bystander
<1>3. \A s \in Signals : SameSlot(s)' = SameSlot(s)
  BY DEF SameSlot, OpenRows, Bystander
<1>4. ASSUME NEW s \in Signals, pc'[s] = "write" PROVE ReadFresh(s)'
  <2>1. ReadFresh(s) /\ target'[s] = target[s] /\ seen'[s] = seen[s] /\ position' = position
    BY <1>4 DEF Alone, Bystander
  <2>2. QED
    BY <1>3, <2>1 DEF ReadFresh
<1>5. QED
  BY <1>1, <1>2, <1>4 DEF Alone

\* Which steps are those of a bystander.
LEMMA Bystanders ==
  ASSUME Types, [Next]_vars,
         \A s \in Signals : ~CheckExposure(s) /\ ~ReadPosition(s) /\ ~WritePosition(s)
  PROVE  Bystander
<1> USE DEF Bystander, Goto, Types, Booking, Over
<1>1. ASSUME NEW s \in Signals, Skip(s) \/ Accept(s) \/ CheckBreaker(s) \/ Halt(s) \/ CheckCapacity(s)
      PROVE  Bystander
  BY <1>1 DEF Skip, Accept, CheckBreaker, Halt, CheckCapacity, bookVars
<1>2. ASSUME NEW s \in Signals, Fill(s) \/ NotFilled(s) \/ Record(s) \/ ManyPositions(s) PROVE Bystander
  <2>1. CASE Fill(s)
    <3>1. PICK to \in {"record", "done"} : pc[s] = "execute" /\ pc' = [pc EXCEPT ![s] = to]
      BY <2>1 DEF Fill
    <3>2. UNCHANGED <<position, target, seen>>
      BY <2>1 DEF Fill, bookVars
    <3>3. QED
      BY <3>1, <3>2
  <2>2. CASE NotFilled(s) \/ Record(s) \/ ManyPositions(s)
    BY <2>2 DEF NotFilled, Record, ManyPositions, bookVars
  <2>3. QED
    BY <1>2, <2>1, <2>2
<1>3. ASSUME NEW s \in Signals, ReadDaily(s) \/ InsertDaily(s) \/ WriteCount(s) PROVE Bystander
  BY <1>3 DEF ReadDaily, InsertDaily, WriteCount, bookVars
<1>4. CASE Refresh \/ Midnight \/ UNCHANGED vars
  BY <1>4 DEF Refresh, RefreshMarks, RefreshReadDaily, RefreshInsertDaily, RefreshWrite, Midnight,
     bookVars, taskVars, vars
<1>5. CASE Restart
  BY <1>5 DEF Restart, bookVars
<1> HIDE DEF Bystander, Goto, Types, Booking, Over
<1>6. QED
  BY <1>1, <1>2, <1>3, <1>4, <1>5 DEF Next, ProcessSignal, Allow, Book

\* No step forgets an overlap.
LEMMA OverlapStays == [Next]_vars /\ overlapped => overlapped'
<1> SUFFICES ASSUME [Next]_vars, overlapped PROVE overlapped'
  OBVIOUS
<1>1. ASSUME NEW s \in Signals, ProcessSignal(s) PROVE overlapped'
  BY <1>1 DEF ProcessSignal, Skip, Accept, Allow, CheckBreaker, Halt, CheckCapacity, CheckExposure, Fill,
     NotFilled, Book, Record, ReadPosition, ManyPositions, WritePosition, ReadDaily, InsertDaily, WriteCount
<1>2. CASE Refresh \/ Midnight \/ Restart \/ UNCHANGED vars
  BY <1>2 DEF Refresh, RefreshMarks, RefreshReadDaily, RefreshInsertDaily, RefreshWrite, Midnight,
     Restart, vars
<1>3. QED
  BY <1>1, <1>2 DEF Next

\* At the start nobody books, and Before holds one signal for each slot.
LEMMA AloneInit == Init => Alone
<1> SUFFICES ASSUME Init PROVE Alone
  OBVIOUS
<1>1. \A s \in Signals : pc[s] \notin Booking
  BY DEF Init, Booking
<1>2. OpenRows \subseteq Before
  BY DEF Init, OpenRows
<1>3. OneRow
  BY <1>2, AllocatorConstants DEF OneRow
<1>4. QED
  BY <1>1, <1>3 DEF Alone, OneBooking, Booking

\* Every step without an overlap keeps Alone.
LEMMA AloneStep == Types /\ Alone /\ [Next]_vars /\ ~overlapped' => Alone'
<1> SUFFICES ASSUME Types, Alone, [Next]_vars, ~overlapped' PROVE Alone'
  OBVIOUS
<1>1. ASSUME NEW s \in Signals, CheckExposure(s) PROVE Alone'
  <2>1. /\ pc[s] = "exposure" /\ pc' = [pc EXCEPT ![s] = IF WithinLimits(s) THEN "execute" ELSE "done"]
        /\ WithinLimits(s) => \A o \in Signals : pc[o] \notin Booking
        /\ UNCHANGED <<position, seen, target>>
    BY <1>1 DEF CheckExposure, Goto, bookVars
  <2>2. CASE ~WithinLimits(s)
    <3>1. Bystander
      BY <2>1, <2>2 DEF Bystander, Booking, Types
    <3>2. QED
      BY <3>1, BystanderKeeps
  <2>3. CASE WithinLimits(s)
    <3>1. OneBooking' /\ \A o \in Signals : pc'[o] # "write"
      BY <2>1, <2>3 DEF OneBooking, Booking, Types
    <3>2. OneRow'
      BY <2>1 DEF Alone, OneRow, OpenRows
    <3>3. QED
      BY <3>1, <3>2 DEF Alone
  <2>4. QED
    BY <2>2, <2>3
<1>2. ASSUME NEW s \in Signals, ReadPosition(s) PROVE Alone'
  <2>1. /\ pc[s] = "position" /\ pc' = [pc EXCEPT ![s] = "write"] /\ position' = position
        /\ \A o \in Signals : pc[o] # "write"
    BY <1>2 DEF ReadPosition, Goto, bookVars, Alone, OneBooking, Booking
  <2>2. OneBooking' /\ OneRow'
    BY <2>1 DEF Alone, OneBooking, OneRow, OpenRows, Booking, Types
  <2>3. SameSlot(s)' = SameSlot(s)
    BY <2>1 DEF SameSlot, OpenRows
  <2>4. ReadFresh(s)'
    <3>1. CASE SameSlot(s) = {} /\ target' = [target EXCEPT ![s] = s] /\ seen' = [seen EXCEPT ![s] = 0]
      BY <2>3, <3>1 DEF ReadFresh, Types
    <3>2. ASSUME NEW p \in SameSlot(s), SameSlot(s) = {p}, target' = [target EXCEPT ![s] = p],
                 seen' = [seen EXCEPT ![s] = position[p]]
          PROVE  ReadFresh(s)'
      <4>1. target'[s] = p /\ seen'[s] = position'[p]
        BY <2>1, <3>2 DEF Types
      <4>2. QED
        BY <2>3, <3>2, <4>1 DEF ReadFresh
    <3>3. QED
      BY <1>2, <3>1, <3>2 DEF ReadPosition
  <2>5. QED
    BY <2>1, <2>2, <2>4 DEF Alone, Types
<1>3. ASSUME NEW s \in Signals, WritePosition(s) PROVE Alone'
  <2>1. pc[s] = "write" /\ pc' = [pc EXCEPT ![s] = "daily"]
    BY <1>3 DEF WritePosition, Goto
  <2>2. \A o \in Signals : pc'[o] \notin Booking
    BY <2>1 DEF Alone, OneBooking, Booking, Types
  <2>3. ReadFresh(s)
    BY <2>1 DEF Alone
  <2>4. /\ target[s] \in Signals
        /\ AssetOf[target[s]] = AssetOf[s] /\ SideOf[target[s]] = SideOf[s]
        /\ \A o \in Signals \ {target[s]} : position'[o] = position[o]
        /\ \A o \in OpenRows : AssetOf[o] = AssetOf[s] /\ SideOf[o] = SideOf[s] => o = target[s]
    BY <1>3, <2>3, WriteAdds DEF Types
  <2>5. \A o \in OpenRows' : o \in OpenRows \/ o = target[s]
    BY <2>4 DEF OpenRows
  <2>6. OneRow'
    BY <2>4, <2>5 DEF Alone, OneRow
  <2>7. QED
    BY <2>2, <2>6 DEF Alone, OneBooking, Booking
<1>4. CASE \A s \in Signals : ~CheckExposure(s) /\ ~ReadPosition(s) /\ ~WritePosition(s)
  BY <1>4, Bystanders, BystanderKeeps
<1>5. QED
  BY <1>1, <1>2, <1>3, <1>4

\* One open row for each asset and side, however many signals and whatever is
\* lost or restarted, as long as no check overlaps with a booking.
THEOREM OneRowWithoutOverlap == Spec => []OneRowPerSlot
<1> DEFINE Inv == Types /\ (~overlapped => Alone)
<1>1. Init => Inv
  BY TypesInit, AloneInit
<1>2. Inv /\ [Next]_vars => Inv'
  BY TypesStep, AloneStep, OverlapStays
<1>3. Inv => OneRowPerSlot
  BY DEF OneRowPerSlot, Alone, OneRow, SameSlot, OpenRows
<1> HIDE DEF Inv
<1>4. QED
  BY <1>1, <1>2, <1>3, PTL DEF Spec

-----------------------------------------------------------------------------
(***************************************************************************)
(* The leverage limits.  The one task between check and booking has either *)
(* not filled yet, and the books plus its size are within the limits, or   *)
(* has, and the books plus its fill are within the limits plus the worst   *)
(* error of a fill.                                                        *)
(***************************************************************************)

OfSide(side) == {s \in Signals : SideOf[s] = side}
NetOf(f) == SumOf(f, OfSide("long")) - SumOf(f, OfSide("short"))
SignedBy(s, amount) == IF SideOf[s] = "long" THEN amount ELSE -amount

\* The books with an amount more on the side of s are within the limits, but
\* for the error of one fill.
RoomFor(s, amount) ==
  /\ Gross + amount <= MaxGross + WorstError
  /\ -(MaxNet + WorstError) <= Net + SignedBy(s, amount)
  /\ Net + SignedBy(s, amount) <= MaxNet + WorstError

BooksWithinLimits ==
  /\ Gross <= MaxGross + WorstError
  /\ -(MaxNet + WorstError) <= Net /\ Net <= MaxNet + WorstError

Limited ==
  /\ BooksWithinLimits
  /\ \A s \in Signals : /\ pc[s] = "execute" => WithinLimits(s)
                        /\ pc[s] \in Filled => RoomFor(s, fill[s])

\* The error of a fill is at most the worst one.
LEMMA WorstErrorIsWorst == WorstError \in Nat /\ \A error \in FillErrors : error <= WorstError
<1> DEFINE E == {e \in FillErrors : e > 0}
           S == {0} \cup E
<1>1. FillErrors \subseteq Int /\ IsFiniteSet(FillErrors)
  BY AllocatorConstants
<1>2. IsFiniteSet(E)
  BY <1>1, FS_Subset
<1>3. IsFiniteSet({0})
  BY FS_Singleton
<1>4. IsFiniteSet(S)
  <2> HIDE DEF E
  <2>1. QED
    BY <1>2, <1>3, FS_Union
<1>5. /\ S # {} /\ S \subseteq Int
      /\ WorstError = Max(S)
  <2>0. E \subseteq Int
    BY <1>1
  <2>1. S # {} /\ S \subseteq Int
    <3> HIDE DEF E
    <3>1. 0 \in S /\ \A x \in S : x \in Int
      BY <2>0
    <3>2. QED
      BY <3>1
  <2>2. WorstError = Max(S)
    BY DEF WorstError
  <2>3. QED
    BY <2>1, <2>2
<1>6. WorstError \in S /\ \A y \in S : y <= WorstError
  <2> HIDE DEF S
  <2>1. QED
    BY <1>4, <1>5, MaxIsGreatest
<1>7. 0 <= WorstError /\ WorstError \in Int
  BY <1>5, <1>6
<1>8. ASSUME NEW error \in FillErrors PROVE error <= WorstError
  <2>1. error \in Int
    BY <1>1
  <2>2. CASE error > 0
    BY <1>6, <2>2
  <2>3. CASE ~(error > 0)
    BY <1>7, <2>1, <2>3
  <2>4. QED
    BY <2>2, <2>3
<1>9. QED
  BY <1>7, <1>8

\* Rows of size zero do not count: the sum over the open rows of a set is the
\* sum over the set.
LEMMA OpenSum ==
  ASSUME NEW f \in [Signals -> Nat], NEW R \in SUBSET Signals
  PROVE  SumOf(f, {p \in R : f[p] > 0}) = SumOf(f, R) /\ SumOf(f, R) \in Nat
<1> DEFINE Open == {p \in R : f[p] > 0}
<1>1. IsFiniteSet(R) /\ \A x \in R : f[x] \in Nat
  BY FS_Subset, AllocatorConstants
<1>2. Summable(f, R)
  BY <1>1 DEF Summable
<1>3. Open \in SUBSET R /\ IsFiniteSet(Open) /\ IsFiniteSet(R \ Open)
  BY <1>1, FS_Subset
<1>4. \A x \in R \ Open : f[x] = 0
  BY <1>1
<1>5. \A x \in Open : f[x] \in Nat
  BY <1>1
<1> HIDE DEF Open
<1>6. SumFunctionOnSet(f, R) = SumFunctionOnSet(f, Open) + SumFunctionOnSet(f, R \ Open)
  BY <1>2, <1>3, SumSplit
<1>7. SumFunctionOnSet(f, R \ Open) = 0
  BY <1>3, <1>4, SumZero
<1>8. SumFunctionOnSet(f, Open) \in Nat
  BY <1>3, <1>5, SumNat
<1>9. SumFunctionOnSet(f, Open) = SumFunctionOnSet(f, R)
  BY <1>6, <1>7, <1>8
<1>10. QED
  BY <1>8, <1>9 DEF SumOf, Open

\* Gross and Net of the books, as sums over all signals.
LEMMA GrossAndNet ==
  ASSUME position \in [Signals -> Nat]
  PROVE  Gross = SumOf(position, Signals) /\ Net = NetOf(position)
<1>1. Gross = SumOf(position, Signals)
  BY OpenSum DEF Gross, OpenRows
<1>2. ASSUME NEW side
      PROVE  SumOf(position, {p \in OpenRows : SideOf[p] = side}) = SumOf(position, OfSide(side))
  <2>1. OfSide(side) \in SUBSET Signals
    BY DEF OfSide
  <2>2. {p \in OpenRows : SideOf[p] = side} = {p \in OfSide(side) : position[p] > 0}
    BY DEF OfSide, OpenRows
  <2>3. QED
    BY <2>1, <2>2, OpenSum
<1>3. QED
  BY <1>1, <1>2 DEF Net, NetOf

\* What is added to one row is added to the gross and, on its side, to the net.
LEMMA SumAdded ==
  ASSUME NEW f \in [Signals -> Nat], NEW row \in Signals, NEW amount \in Nat,
         NEW g \in [Signals -> Nat], g[row] = f[row] + amount,
         \A y \in Signals \ {row} : g[y] = f[y]
  PROVE  /\ SumOf(g, Signals) = SumOf(f, Signals) + amount
         /\ NetOf(g) = NetOf(f) + SignedBy(row, amount)
<1>1. /\ g[row] = f[row] + amount /\ g[row] \in Nat /\ f[row] \in Nat
      /\ \A y \in Signals \ {row} : g[y] = f[y]
  OBVIOUS
<1>2. ASSUME NEW R \in SUBSET Signals
      PROVE  /\ SumOf(f, R) \in Nat
             /\ row \in R => SumOf(g, R) = SumOf(f, R) + amount
             /\ row \notin R => SumOf(g, R) = SumOf(f, R)
  <2>0. IsFiniteSet(R)
    BY FS_Subset, AllocatorConstants
  <2>1. Summable(f, R) /\ SumOf(f, R) \in Nat
    <3>1. \A x \in R : f[x] \in Int
      OBVIOUS
    <3>2. SumOf(f, R) \in Nat
      BY OpenSum
    <3>3. QED
      BY <2>0, <3>1, <3>2 DEF Summable
  <2>2. CASE row \in R
    <3>1. g[row] \in Int /\ \A y \in R \ {row} : g[y] = f[y]
      BY <1>1
    <3>2. SumFunctionOnSet(g, R) = SumFunctionOnSet(f, R) + g[row] - f[row]
      BY <2>1, <2>2, <3>1, SumChange
    <3>3. SumFunctionOnSet(f, R) \in Nat
      BY <2>1 DEF SumOf
    <3>4. SumFunctionOnSet(g, R) = SumFunctionOnSet(f, R) + amount
      BY <1>1, <3>2, <3>3
    <3>5. QED
      BY <2>1, <2>2, <3>4 DEF SumOf
  <2>3. CASE row \notin R
    <3>1. \A x \in R : f[x] = g[x]
      BY <1>1, <2>3
    <3>2. SumFunctionOnSet(f, R) = SumFunctionOnSet(g, R)
      BY <2>1, <3>1, SumSame
    <3>3. QED
      BY <2>1, <2>3, <3>2 DEF SumOf
  <2>4. QED
    BY <2>2, <2>3
<1>3. SumOf(g, Signals) = SumOf(f, Signals) + amount
  BY <1>2
<1>4. NetOf(g) = NetOf(f) + SignedBy(row, amount)
  <2>1. OfSide("long") \in SUBSET Signals /\ OfSide("short") \in SUBSET Signals
    BY DEF OfSide
  <2>2. /\ SumOf(f, OfSide("long")) \in Nat /\ SumOf(f, OfSide("short")) \in Nat
    BY <1>2, <2>1
  <2>3. CASE SideOf[row] = "long"
    <3>1. row \in OfSide("long") /\ row \notin OfSide("short")
      BY <2>3 DEF OfSide
    <3>2. /\ SumOf(g, OfSide("long")) = SumOf(f, OfSide("long")) + amount
          /\ SumOf(g, OfSide("short")) = SumOf(f, OfSide("short"))
      BY <1>2, <2>1, <3>1
    <3>3. SignedBy(row, amount) = amount
      BY <2>3 DEF SignedBy
    <3>4. QED
      BY <2>2, <3>2, <3>3 DEF NetOf
  <2>4. CASE SideOf[row] # "long"
    <3>1. row \in OfSide("short") /\ row \notin OfSide("long")
      BY <2>4, AllocatorConstants DEF OfSide, Sides
    <3>2. /\ SumOf(g, OfSide("short")) = SumOf(f, OfSide("short")) + amount
          /\ SumOf(g, OfSide("long")) = SumOf(f, OfSide("long"))
      BY <1>2, <2>1, <3>1
    <3>3. SignedBy(row, amount) = -amount
      BY <2>4 DEF SignedBy
    <3>4. QED
      BY <2>2, <3>2, <3>3 DEF NetOf
  <2>5. QED
    BY <2>3, <2>4
<1>5. QED
  BY <1>3, <1>4

\* Gross and Net are dollars.
LEMMA GrossNetType ==
  ASSUME position \in [Signals -> Nat]
  PROVE  Gross \in Nat /\ Net \in Int
<1>1. SumOf(position, Signals) \in Nat
  BY OpenSum
<1>2. OfSide("long") \in SUBSET Signals /\ OfSide("short") \in SUBSET Signals
  BY DEF OfSide
<1>3. SumOf(position, OfSide("long")) \in Nat /\ SumOf(position, OfSide("short")) \in Nat
  BY <1>2, OpenSum
<1>4. QED
  BY <1>1, <1>3, GrossAndNet DEF NetOf

\* At the start the books are within the limits: StartWithinLimits.
LEMMA LimitedInit == Init => Limited
<1> SUFFICES ASSUME Init PROVE Limited
  OBVIOUS
<1> DEFINE size == [s \in Signals |-> IF s \in Before THEN Size(s) ELSE 0]
           Longs == {s \in Signals : SideOf[s] = "long"}
           Shorts == {s \in Signals : SideOf[s] = "short"}
<1>1. /\ SumOf(size, Signals) <= MaxGross + WorstError
      /\ -(MaxNet + WorstError) <= SumOf(size, Longs) - SumOf(size, Shorts)
      /\ SumOf(size, Longs) - SumOf(size, Shorts) <= MaxNet + WorstError
  BY StartWithinLimits
<1>2. position = size
  BY DEF Init
<1> HIDE DEF size
<1>3. Gross = SumOf(size, Signals) /\ Net = SumOf(size, Longs) - SumOf(size, Shorts)
  BY <1>2, GrossAndNet, TypesInit DEF Types, NetOf, OfSide
<1>4. BooksWithinLimits
  BY <1>1, <1>3 DEF BooksWithinLimits
<1>5. \A s \in Signals : pc[s] \in {"new", "done"}
  BY DEF Init
<1>6. QED
  BY <1>4, <1>5 DEF Limited, Filled

\* A step that writes no row and lets no task into execute or into Filled.
LEMMA LimitsStay ==
  ASSUME Types, Limited, position' = position, FillKept,
         \A s \in Signals : pc'[s] = "execute" => pc[s] = "execute"
  PROVE  Limited'
<1>1. OpenRows' = OpenRows /\ Gross' = Gross /\ Net' = Net
  BY DEF OpenRows, Gross, Net
<1>2. BooksWithinLimits'
  BY <1>1 DEF Limited, BooksWithinLimits
<1>3. \A s \in Signals : pc'[s] = "execute" => WithinLimits(s)'
  BY <1>1 DEF Limited, WithinLimits, Size, Signed
<1>4. \A s \in Signals : pc'[s] \in Filled => RoomFor(s, fill[s])'
  <2> SUFFICES ASSUME NEW s \in Signals, pc'[s] \in Filled PROVE RoomFor(s, fill[s])'
    OBVIOUS
  <2>1. RoomFor(s, fill[s]) /\ fill'[s] = fill[s]
    BY DEF FillKept, Limited
  <2>2. QED
    BY <1>1, <2>1 DEF RoomFor, SignedBy
<1>5. QED
  BY <1>2, <1>3, <1>4 DEF Limited

\* A fill of a size that was admitted leaves room for it: the error is at most
\* the worst one, and the books were within the limits on the other side.
LEMMA RoomForFill ==
  ASSUME Types, BooksWithinLimits, NEW s \in Signals, WithinLimits(s),
         NEW error \in FillErrors, Size(s) > 0
  PROVE  RoomFor(s, Size(s) + error)
<1>1. /\ Size(s) \in Nat /\ Size(s) + error \in Nat /\ error \in Int
      /\ WorstError \in Nat /\ error <= WorstError
      /\ Gross \in Nat /\ Net \in Int /\ MaxGross \in Nat /\ MaxNet \in Nat
  BY SizeType, FillType, WorstErrorIsWorst, GrossNetType, AllocatorConstants DEF Types
<1>2. Gross + (Size(s) + error) <= MaxGross + WorstError
  BY <1>1 DEF WithinLimits
<1>3. CASE SideOf[s] = "long"
  <2>1. Signed(s) = Size(s) /\ SignedBy(s, Size(s) + error) = Size(s) + error
    BY <1>3 DEF Signed, SignedBy
  <2>2. -(MaxNet + WorstError) <= Net /\ Net + Size(s) <= MaxNet
    BY <2>1 DEF BooksWithinLimits, WithinLimits
  <2>3. QED
    BY <1>1, <1>2, <2>1, <2>2 DEF RoomFor
<1>4. CASE SideOf[s] # "long"
  <2>1. Signed(s) = -Size(s) /\ SignedBy(s, Size(s) + error) = -(Size(s) + error)
    BY <1>4 DEF Signed, SignedBy
  <2>2. Net <= MaxNet + WorstError /\ -MaxNet <= Net - Size(s)
    <3>1. Net <= MaxNet + WorstError /\ -MaxNet <= Net + (-Size(s))
      BY <2>1 DEF BooksWithinLimits, WithinLimits
    <3>2. QED
      BY <1>1, <3>1
  <2>3. QED
    BY <1>1, <1>2, <2>1, <2>2 DEF RoomFor
<1>5. QED
  BY <1>3, <1>4

\* A write leaves the books as there was room for, and nobody else books.
LEMMA LimitsWritten ==
  ASSUME Types, Types', Alone, Limited, NEW s \in Signals, WritePosition(s)
  PROVE  Limited'
<1>1. pc[s] = "write" /\ pc' = [pc EXCEPT ![s] = "daily"]
  BY DEF WritePosition, Goto
<1>2. ReadFresh(s) /\ RoomFor(s, fill[s])
  BY <1>1 DEF Alone, Limited, Filled
<1>3. /\ target[s] \in Signals /\ SideOf[target[s]] = SideOf[s]
      /\ position' = [position EXCEPT ![target[s]] = position[target[s]] + fill[s]]
  BY <1>2, WriteAdds
<1>4. /\ position \in [Signals -> Nat] /\ position' \in [Signals -> Nat] /\ fill[s] \in Nat
  BY DEF Types
<1>5. /\ target[s] \in Signals
      /\ position'[target[s]] = position[target[s]] + fill[s]
      /\ \A y \in Signals \ {target[s]} : position'[y] = position[y]
  BY <1>3, <1>4
<1>6. /\ SumOf(position', Signals) = SumOf(position, Signals) + fill[s]
      /\ NetOf(position') = NetOf(position) + SignedBy(target[s], fill[s])
  BY <1>4, <1>5, SumAdded
<1>7. Gross = SumOf(position, Signals) /\ Net = NetOf(position)
  BY <1>4, GrossAndNet
<1>8. Gross' = SumOf(position', Signals) /\ Net' = NetOf(position')
  <2>1. OpenRows' = {p \in Signals : position'[p] > 0}
    BY DEF OpenRows
  <2>2. Gross' = SumOf(position', Signals)
    BY <1>4, <2>1, OpenSum DEF Gross
  <2>3. ASSUME NEW side
        PROVE  SumOf(position', {p \in OpenRows' : SideOf[p] = side}) = SumOf(position', OfSide(side))
    <3>1. OfSide(side) \in SUBSET Signals
      BY DEF OfSide
    <3>2. {p \in OpenRows' : SideOf[p] = side} = {p \in OfSide(side) : position'[p] > 0}
      BY <2>1 DEF OfSide
    <3>3. QED
      BY <1>4, <3>1, <3>2, OpenSum
  <2>4. QED
    BY <2>2, <2>3 DEF Net, NetOf
<1>9. SignedBy(target[s], fill[s]) = SignedBy(s, fill[s])
  BY <1>3 DEF SignedBy
<1>10. BooksWithinLimits'
  <2>1. Gross' = Gross + fill[s] /\ Net' = Net + SignedBy(s, fill[s])
    BY <1>6, <1>7, <1>8, <1>9
  <2>2. QED
    BY <1>2, <2>1 DEF RoomFor, BooksWithinLimits
<1>11. \A o \in Signals : pc'[o] # "execute" /\ pc'[o] \notin Filled
  BY <1>1 DEF Alone, OneBooking, Booking, Filled, Types
<1>12. QED
  BY <1>10, <1>11 DEF Limited

\* Every step without an overlap keeps the limits.
LEMMA LimitedStep == Types /\ Types' /\ Alone /\ Limited /\ [Next]_vars => Limited'
<1> SUFFICES ASSUME Types, Types', Alone, Limited, [Next]_vars PROVE Limited'
  OBVIOUS
<1> DEFINE Frame == /\ position' = position /\ FillKept
                    /\ \A s \in Signals : pc'[s] = "execute" => pc[s] = "execute"
<1>1. ASSUME NEW s \in Signals, CheckExposure(s) PROVE Limited'
  <2>1. /\ pc[s] = "exposure" /\ pc' = [pc EXCEPT ![s] = IF WithinLimits(s) THEN "execute" ELSE "done"]
        /\ position' = position /\ fill' = fill
    BY <1>1 DEF CheckExposure, Goto, bookVars
  <2>2. OpenRows' = OpenRows /\ Gross' = Gross /\ Net' = Net
    BY <2>1 DEF OpenRows, Gross, Net
  <2>3. BooksWithinLimits'
    BY <2>2 DEF Limited, BooksWithinLimits
  <2>4. ASSUME NEW o \in Signals, pc'[o] = "execute" PROVE WithinLimits(o)'
    <3>1. WithinLimits(o)
      BY <2>1, <2>4 DEF Limited, Types
    <3>2. QED
      BY <2>2, <3>1 DEF WithinLimits, Size, Signed
  <2>5. ASSUME NEW o \in Signals, pc'[o] \in Filled PROVE RoomFor(o, fill[o])'
    <3>1. RoomFor(o, fill[o])
      BY <2>1, <2>5 DEF Limited, Types, Filled
    <3>2. QED
      BY <2>1, <2>2, <3>1 DEF RoomFor, SignedBy
  <2>6. QED
    BY <2>3, <2>4, <2>5 DEF Limited
<1>2. ASSUME NEW s \in Signals, Fill(s) PROVE Limited'
  <2>1. PICK error \in FillErrors, to \in {"record", "done"} :
          /\ pc[s] = "execute" /\ pc' = [pc EXCEPT ![s] = to]
          /\ fill' = [fill EXCEPT ![s] = Size(s) + error] /\ position' = position
    BY <1>2 DEF Fill, Goto, bookVars
  <2>2. OpenRows' = OpenRows /\ Gross' = Gross /\ Net' = Net
    BY <2>1 DEF OpenRows, Gross, Net
  <2>3. BooksWithinLimits'
    BY <2>2 DEF Limited, BooksWithinLimits
  <2>4. \A o \in Signals : pc'[o] # "execute"
    BY <2>1 DEF Alone, OneBooking, Booking, Types
  <2>5. ASSUME NEW o \in Signals, pc'[o] \in Filled PROVE RoomFor(o, fill[o])'
    <3>1. o = s /\ fill'[s] = Size(s) + error
      BY <2>1, <2>5 DEF Alone, OneBooking, Booking, Filled, Types
    <3>2. WithinLimits(s) /\ BooksWithinLimits /\ Size(s) > 0
      BY <2>1 DEF Limited, Types, Sized
    <3>3. RoomFor(s, Size(s) + error)
      BY <3>2, RoomForFill
    <3>4. QED
      BY <2>2, <3>1, <3>3 DEF RoomFor, SignedBy
  <2>6. QED
    BY <2>3, <2>4, <2>5 DEF Limited
<1>3. ASSUME NEW s \in Signals, WritePosition(s) PROVE Limited'
  BY <1>3, LimitsWritten
<1>4. ASSUME NEW s \in Signals, Skip(s) \/ Accept(s) \/ CheckBreaker(s) \/ Halt(s) \/ CheckCapacity(s)
             \/ NotFilled(s)
      PROVE  Frame
  BY <1>4 DEF Skip, Accept, CheckBreaker, Halt, CheckCapacity, NotFilled, Goto, bookVars, FillKept,
     Filled, Types
<1>5. ASSUME NEW s \in Signals, Record(s) \/ ReadPosition(s) \/ ManyPositions(s) PROVE Frame
  BY <1>5 DEF Record, ReadPosition, ManyPositions, Goto, bookVars, FillKept, Filled, Types
<1>6. ASSUME NEW s \in Signals, ReadDaily(s) \/ InsertDaily(s) \/ WriteCount(s) PROVE Frame
  BY <1>6 DEF ReadDaily, InsertDaily, WriteCount, Goto, bookVars, FillKept, Filled, Types
<1>7. CASE Refresh \/ Midnight \/ UNCHANGED vars
  <2>1. Frame
    BY <1>7 DEF Refresh, RefreshMarks, RefreshReadDaily, RefreshInsertDaily, RefreshWrite, Midnight,
       bookVars, taskVars, vars, FillKept
  <2>2. QED
    BY <2>1, LimitsStay
<1>8. CASE Restart
  <2>1. Frame
    BY <1>8 DEF Restart, bookVars, FillKept, Filled, Over, Types
  <2>2. QED
    BY <2>1, LimitsStay
<1>9. ASSUME NEW s \in Signals, ProcessSignal(s) PROVE Limited'
  <2>1. CASE CheckExposure(s) \/ Fill(s) \/ WritePosition(s)
    BY <1>1, <1>2, <1>3, <2>1
  <2>2. CASE ~CheckExposure(s) /\ ~Fill(s) /\ ~WritePosition(s)
    <3> HIDE DEF Frame
    <3>1. Frame
      BY <1>4, <1>5, <1>6, <1>9, <2>2 DEF ProcessSignal, Allow, Book
    <3>2. QED
      BY <3>1, LimitsStay DEF Frame
  <2>3. QED
    BY <2>1, <2>2
<1>10. QED
  BY <1>7, <1>8, <1>9 DEF Next

\* The books stay within both leverage limits, but for the error of one fill, as
\* long as no check overlaps with a booking: for every number of signals, every
\* setting, and through lost answers, halts, restarts and refreshes.
THEOREM LimitsWithoutOverlap == Spec => []ExposureWithinLimits
<1> DEFINE Inv == Types /\ (~overlapped => Alone /\ Limited)
<1>1. Init => Inv
  BY TypesInit, AloneInit, LimitedInit
<1>2. Inv /\ [Next]_vars => Inv'
  BY TypesStep, AloneStep, LimitedStep, OverlapStays
<1>3. Inv => ExposureWithinLimits
  BY DEF ExposureWithinLimits, Limited, BooksWithinLimits
<1> HIDE DEF Inv
<1>4. QED
  BY <1>1, <1>2, <1>3, PTL DEF Spec

=============================================================================
