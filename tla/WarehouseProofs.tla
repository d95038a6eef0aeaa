-------------------------- MODULE WarehouseProofs --------------------------
(***************************************************************************)
(* Theorems about Warehouse for every set of series and pollers, every     *)
(* delay, every outage and every ring.                                     *)
(***************************************************************************)
EXTENDS Warehouse, SumLemmas

Call == [pc : {"idle", "asked", "answered", "received", "pushing", "trimming"},
         asked : Nat, answered : Nat, ts : Nat]
Reading == [ts : Nat, observed : Nat]

\* A call was answered in the past, and a reading is stamped with that second or
\* a later one.
CallInTime(c) ==
  /\ c.pc \in {"answered", "received"} => c.answered <= now
  /\ c.pc = "received" => c.answered < c.ts + Second

Stamped ==
  /\ now \in Nat
  /\ call \in [Pollers -> Call]
  /\ \A p \in Pollers : CallInTime(call[p])
  /\ rows \in [Series -> SUBSET Reading]
  /\ \A k \in Series : \A r \in rows[k] : r.observed < r.ts + Second

\* No call at all is a call, and in time.
LEMMA NoCallInTime == NoCall \in Call /\ CallInTime(NoCall)
BY DEF NoCall, Call, CallInTime

\* At the start there are no readings.
LEMMA StampedInit == Init => Stamped
<1> SUFFICES ASSUME Init PROVE Stamped
  OBVIOUS
<1>1. now \in Nat /\ rows = [k \in Series |-> {}]
  BY DEF Init
<1>2. call \in [Pollers -> Call] /\ \A p \in Pollers : call[p] = NoCall
  BY NoCallInTime DEF Init
<1>3. QED
  BY <1>1, <1>2, NoCallInTime DEF Stamped

\* A step that gives one poller a call in time, and changes nothing else here.
LEMMA StampedCall ==
  ASSUME Stamped, NEW p \in Pollers, NEW c \in Call, CallInTime(c),
         call' = [call EXCEPT ![p] = c], UNCHANGED <<now, rows>>
  PROVE  Stamped'
<1>1. call' \in [Pollers -> Call]
  BY DEF Stamped
<1>2. \A q \in Pollers : CallInTime(call[q])'
  BY DEF Stamped, CallInTime
<1>3. QED
  BY <1>1, <1>2 DEF Stamped

\* What leaves the time of its answer as it is: to go on, or to return.
LEMMA StampedGoto ==
  ASSUME Stamped, NEW p \in Pollers, NEW from,
         NEW to \in {"pushing", "trimming"},
         Goto(p, from, to), UNCHANGED <<now, rows>>
  PROVE  Stamped'
<1> DEFINE c == [call[p] EXCEPT !.pc = to]
<1>1. call[p] \in Call
  BY DEF Stamped
<1>2. c \in Call /\ c.pc = to
  BY <1>1 DEF Call
<1>3. call' = [call EXCEPT ![p] = c]
  BY DEF Goto
<1> HIDE DEF c
<1>4. CallInTime(c)
  BY <1>2 DEF CallInTime
<1>5. QED
  BY <1>2, <1>3, <1>4, StampedCall

\* A poller that is done keeps nothing of its call.
LEMMA StampedReturn ==
  ASSUME Stamped, NEW p \in Pollers, Return(p), UNCHANGED <<now, rows>>
  PROVE  Stamped'
BY NoCallInTime, StampedCall DEF Return

\* What a source answers was observed before it is stamped.
LEMMA StampedPoll ==
  ASSUME Stamped, NEW p \in Pollers, Poll(p)
  PROVE  Stamped'
<1>0. now \in Nat /\ call[p] \in Call
  BY DEF Stamped
<1>1. CASE Ask(p)
  <2> DEFINE c == [NoCall EXCEPT !.pc = "asked", !.asked = now]
  <2>1. c \in Call /\ c.pc = "asked"
    BY <1>0 DEF NoCall, Call
  <2>2. call' = [call EXCEPT ![p] = c]
    BY <1>1, Zenon DEF Ask
  <2>3. UNCHANGED <<now, rows>>
    BY <1>1 DEF Ask, tableVars
  <2> HIDE DEF c
  <2>4. CallInTime(c)
    BY <2>1 DEF CallInTime
  <2>5. QED
    BY <2>1, <2>2, <2>3, <2>4, StampedCall
<1>2. CASE Answer(p)
  <2> DEFINE c == [call[p] EXCEPT !.pc = "answered", !.answered = now]
  <2>1. c \in Call /\ c.pc = "answered" /\ c.answered = now
    BY <1>0 DEF Call
  <2>2. call' = [call EXCEPT ![p] = c]
    BY <1>2, Zenon DEF Answer
  <2>3. UNCHANGED <<now, rows>>
    BY <1>2 DEF Answer, tableVars
  <2> HIDE DEF c
  <2>4. CallInTime(c)
    BY <1>0, <2>1 DEF CallInTime
  <2>5. QED
    BY <2>1, <2>2, <2>3, <2>4, StampedCall
<1>3. CASE Lose(p) \/ Discard(p)
  BY <1>3, StampedReturn DEF Lose, Discard, tableVars
<1>4. QED
  BY <1>1, <1>2, <1>3 DEF Poll

\* The second of a time has begun and is not over.
LEMMA SecondOfTime ==
  ASSUME NEW t \in Nat
  PROVE  InSeconds(t) \in Nat /\ InSeconds(t) <= t /\ t < InSeconds(t) + Second
<1> DEFINE M == Second
           p == t \div M
<1>1. M \in Nat \ {0}
  BY WarehouseConstants
<1> HIDE DEF M
<1>2. p \in Nat /\ t = M * p + (t % M) /\ (t % M) \in 0 .. M - 1
  BY <1>1
<1>3. InSeconds(t) = p * M
  BY DEF InSeconds, M
<1> HIDE DEF p
<1>4. p * M = M * p /\ M * p \in Nat
  BY <1>1, <1>2
<1>5. QED
  BY <1>1, <1>2, <1>3, <1>4 DEF M

\* A reading is stamped with the second it arrives in, which is not over before
\* its answer.
LEMMA StampedReceive ==
  ASSUME Stamped, NEW k \in Series, Receive(k)
  PROVE  Stamped'
<1> DEFINE time == InSeconds(now)
           c == [call[k] EXCEPT !.pc = "received", !.ts = time]
<1>1. k \in Pollers
  BY DEF Pollers
<1>2. now \in Nat /\ call[k] \in Call /\ call[k].pc = "answered" /\ call[k].answered <= now
  BY <1>1 DEF Stamped, CallInTime, Receive
<1>0. time \in Nat /\ now < time + Second /\ Second \in Nat
  BY <1>2, SecondOfTime, WarehouseConstants
<1> HIDE DEF time
<1>3. c \in Call /\ c.pc = "received" /\ c.ts = time /\ c.answered = call[k].answered
  BY <1>0, <1>2 DEF Call
<1>4. call' = [call EXCEPT ![k] = c]
  BY Zenon DEF Receive, StampOf, time
<1>5. UNCHANGED <<now, rows>>
  BY DEF Receive, tableVars
<1> HIDE DEF c
<1>6. CallInTime(c)
  <2>1. call[k].answered \in Nat
    BY <1>2 DEF Call
  <2>2. QED
    BY <1>0, <1>2, <1>3, <2>1 DEF CallInTime
<1>7. QED
  BY <1>1, <1>3, <1>4, <1>5, <1>6, StampedCall

\* The row keeps both times.
LEMMA StampedWrite ==
  ASSUME Stamped, NEW k \in Series, NEW kept \in SUBSET rows[k], WriteRow(k, kept)
  PROVE  Stamped'
<1> DEFINE row == [ts |-> call[k].ts, observed |-> call[k].answered]
<1>1. k \in Pollers
  BY DEF Pollers
<1>2. call[k] \in Call /\ call[k].answered < call[k].ts + Second
  BY <1>1 DEF Stamped, CallInTime, WriteRow
<1>3. row \in Reading /\ row.observed < row.ts + Second
  BY <1>2 DEF Call, Reading
<1>4. /\ rows' = [rows EXCEPT ![k] = kept \cup {row}]
      /\ call' = [call EXCEPT ![k] = NoCall] /\ UNCHANGED now
  BY DEF WriteRow, Return
<1> HIDE DEF row
<1>5. rows' \in [Series -> SUBSET Reading] /\ \A j \in Series : \A r \in rows'[j] : r.observed < r.ts + Second
  BY <1>3, <1>4 DEF Stamped
<1>6. call' \in [Pollers -> Call] /\ \A p \in Pollers : CallInTime(call[p])'
  BY <1>1, <1>4, NoCallInTime DEF Stamped, CallInTime
<1>7. QED
  BY <1>4, <1>5, <1>6 DEF Stamped

\* Every step keeps readings stamped no earlier than the second of their
\* observation.
LEMMA StampedStep == Stamped /\ [Next]_vars => Stamped'
<1> SUFFICES ASSUME Stamped, [Next]_vars PROVE Stamped'
  OBVIOUS
<1>0. Stream \in Pollers
  BY WarehouseConstants DEF Pollers
<1>1. CASE Tick
  <2>1. now \in Nat /\ now' = now + 1 /\ UNCHANGED <<call, rows>>
    BY <1>1 DEF Tick, Stamped, tableVars
  <2>2. \A p \in Pollers : call[p].answered \in Nat
    BY DEF Stamped, Call
  <2>3. \A p \in Pollers : CallInTime(call[p])'
    BY <2>1, <2>2 DEF Stamped, CallInTime
  <2>4. QED
    BY <2>1, <2>3 DEF Stamped
<1>2. CASE \E p \in Pollers : Poll(p)
  BY <1>2, StampedPoll
<1>3. CASE \E p \in BarPollers : WriteBars(p)
  <2> PICK p \in BarPollers : WriteBars(p)
    BY <1>3
  <2>1. p \in Pollers /\ UNCHANGED <<now, rows>>
    BY DEF Pollers, WriteBars
  <2>2. Goto(p, "answered", "pushing") \/ Return(p)
    BY DEF WriteBars
  <2>3. QED
    BY <2>1, <2>2, StampedGoto, StampedReturn
<1>4. CASE \E k \in Series : Receive(k) \/ WriteUpserted(k) \/ WriteAppended(k)
  BY <1>4, StampedReceive, StampedWrite DEF WriteUpserted, WriteAppended
<1>5. CASE Push \/ Trim
  <2>1. UNCHANGED <<now, rows>>
    BY <1>5 DEF Push, Trim, tableVars
  <2>2. Goto(Stream, "pushing", "trimming") \/ Goto(Stream, "trimming", "pushing")
    BY <1>5 DEF Push, Trim
  <2>3. QED
    BY <1>0, <2>1, <2>2, StampedGoto
<1>6. CASE Pushed
  BY <1>0, <1>6, StampedReturn DEF Pushed, tableVars
<1>7. CASE UNCHANGED vars
  BY <1>7 DEF Stamped, CallInTime, vars, tableVars
<1>8. QED
  BY <1>1, <1>2, <1>3, <1>4, <1>5, <1>6, <1>7 DEF Next

(***************************************************************************)
(* Bars, and polls in time.                                                *)
(***************************************************************************)

\* Bars are finitely many and follow one another.
LEMMA BarsOpen ==
  /\ Bars \subseteq Nat /\ IsFiniteSet(Bars)
  /\ \A b \in Nat : Open(b) \in Nat /\ Close(b) = Open(b) + BarLength /\ Close(b) \in Nat
  /\ \A b, c \in Nat : b < c => Close(b) <= Open(c)
<1>1. BarLength \in Nat \ {0} /\ LastTime \in Nat
  BY WarehouseConstants
<1>2. Bars \subseteq Nat /\ IsFiniteSet(Bars)
  <2> DEFINE n == LastTime \div BarLength
  <2>1. n \in Int
    BY <1>1
  <2> HIDE DEF n
  <2>2. 0 .. n \subseteq Nat /\ IsFiniteSet(0 .. n)
    BY <2>1, FS_Interval
  <2>3. QED
    BY <2>2 DEF Bars, n
<1>3. \A b \in Nat : Open(b) \in Nat /\ Close(b) = Open(b) + BarLength /\ Close(b) \in Nat
  BY <1>1 DEF Open, Close
<1>4. ASSUME NEW b \in Nat, NEW c \in Nat, b < c PROVE Close(b) <= Open(c)
  <2>1. (b + 1) * BarLength <= c * BarLength /\ (b + 1) * BarLength = b * BarLength + BarLength
    BY <1>1, <1>4
  <2>2. QED
    BY <2>1 DEF Open, Close
<1>5. QED
  BY <1>2, <1>3, <1>4

\* The smaller of two times.
LEMMA MinOfTwo == \A a, b \in Int : Min({a, b}) = IF a <= b THEN a ELSE b
<1> SUFFICES ASSUME NEW a \in Int, NEW b \in Int PROVE Min({a, b}) = IF a <= b THEN a ELSE b
  OBVIOUS
<1> DEFINE least(x) == x \in {a, b} /\ \A y \in {a, b} : x <= y
<1>1. least(IF a <= b THEN a ELSE b)
  OBVIOUS
<1>2. least(Min({a, b}))
  BY <1>1 DEF Min
<1>3. QED
  BY <1>1, <1>2

\* The greater of two numbers.
LEMMA MaxOfTwo == \A a, b \in Int : Max({a, b}) = IF a <= b THEN b ELSE a
<1> SUFFICES ASSUME NEW a \in Int, NEW b \in Int PROVE Max({a, b}) = IF a <= b THEN b ELSE a
  OBVIOUS
<1> DEFINE greatest(x) == x \in {a, b} /\ \A y \in {a, b} : x >= y
<1>1. greatest(IF a <= b THEN b ELSE a)
  OBVIOUS
<1>2. greatest(Max({a, b}))
  BY <1>1 DEF Max
<1>3. QED
  BY <1>1, <1>2

\* The version of a bar observed after it closed is its final one.
LEMMA FinalVersion ==
  \A b \in Nat, t \in Nat : Version(b, t) \in Nat /\ (Close(b) <= t => Version(b, t) = Close(b))
<1> SUFFICES ASSUME NEW b \in Nat, NEW t \in Nat
             PROVE  Version(b, t) \in Nat /\ (Close(b) <= t => Version(b, t) = Close(b))
  OBVIOUS
<1>1. Close(b) \in Nat
  BY BarsOpen
<1>2. Version(b, t) = IF t <= Close(b) THEN t ELSE Close(b)
  BY <1>1, MinOfTwo DEF Version
<1>3. QED
  BY <1>1, <1>2

\* A call is under way for at most MaxDelay, and what was answered was so after
\* it was asked.
CallTimely(c) ==
  /\ c.pc # "idle" => c.asked <= now /\ now <= c.asked + MaxDelay
  /\ c.pc = "answered" => c.asked <= c.answered

\* The stream stores its polls in the order in which it asks.
Timely ==
  /\ \A p \in Pollers : CallTimely(call[p])
  /\ stored \in Nat /\ stored <= now /\ now <= stored + MaxOutage
  /\ call[Stream].pc \in {"asked", "answered"} => stored <= call[Stream].asked

\* Every bar whose last poll the stream has stored is final: a poll asked
\* MaxDelay after the bar closed outlives those that saw it open.
Finished == \A b \in Bars : stored >= Close(b) + MaxDelay => bars[b] = Close(b)

History == Stamped /\ Timely /\ bars \in [Bars -> Int] /\ Finished

\* At the start no bar is stored.
LEMMA HistoryInit == Init => History
<1> SUFFICES ASSUME Init PROVE History
  OBVIOUS
<1>0. Stream \in Pollers /\ MaxOutage \in Nat /\ MaxDelay \in Nat \ {0}
  BY WarehouseConstants DEF Pollers
<1>1. \A p \in Pollers : call[p].pc = "idle"
  BY DEF Init, NoCall
<1>2. stored = 0 /\ now = 0 /\ bars = [b \in Bars |-> Missing] /\ Missing \in Int
  BY DEF Init, Missing
<1>3. Timely
  BY <1>0, <1>1, <1>2 DEF Timely, CallTimely
<1>4. Finished
  BY <1>0, <1>2, BarsOpen DEF Finished
<1>5. bars \in [Bars -> Int]
  BY <1>2
<1>6. QED
  BY <1>3, <1>4, <1>5, StampedInit DEF History

\* A step of a poller that stores no bar.
LEMMA HistoryCall ==
  ASSUME History, Stamped', NEW p \in Pollers, NEW c, call' = [call EXCEPT ![p] = c],
         UNCHANGED <<now, bars, stored>>, CallTimely(c),
         p = Stream /\ c.pc \in {"asked", "answered"} => stored <= c.asked
  PROVE  History'
<1>1. call \in [Pollers -> Call]
  BY DEF History, Stamped
<1>2. call'[p] = c /\ \A q \in Pollers \ {p} : call'[q] = call[q]
  BY <1>1
<1>3. \A q \in Pollers : CallTimely(call'[q])
  BY <1>2 DEF History, Timely
<1>4. \A q \in Pollers : CallTimely(call[q])'
  BY <1>3 DEF CallTimely
<1>5. Stream \in Pollers
  BY WarehouseConstants DEF Pollers
<1>6. Timely'
  BY <1>2, <1>4, <1>5 DEF History, Timely
<1>7. Finished' /\ bars' \in [Bars -> Int]
  BY DEF History, Finished
<1>8. QED
  BY <1>6, <1>7 DEF History

\* To return, or to go on.
LEMMA HistoryReturn ==
  ASSUME History, Stamped', NEW p \in Pollers, Return(p), UNCHANGED <<now, bars, stored>>
  PROVE  History'
<1>1. CallTimely(NoCall) /\ NoCall.pc = "idle"
  BY DEF CallTimely, NoCall
<1>2. QED
  BY <1>1, HistoryCall DEF Return

\* A step from one await to the next leaves the table alone.
LEMMA HistoryGoto ==
  ASSUME History, Stamped', NEW p \in Pollers, NEW from \in {"answered", "pushing", "trimming"},
         NEW to \in {"pushing", "trimming"}, Goto(p, from, to), UNCHANGED <<now, bars, stored>>
  PROVE  History'
<1> DEFINE c == [call[p] EXCEPT !.pc = to]
<1>1. call[p] \in Call /\ CallTimely(call[p]) /\ call[p].pc = from
  BY DEF History, Stamped, Timely, Goto
<1>2. c.pc = to /\ c.asked = call[p].asked
  BY <1>1 DEF Call
<1>3. call' = [call EXCEPT ![p] = c]
  BY DEF Goto
<1> HIDE DEF c
<1>4. CallTimely(c)
  BY <1>1, <1>2 DEF CallTimely
<1>5. QED
  BY <1>2, <1>3, <1>4, HistoryCall

\* Asking, answering and losing an answer store nothing.
LEMMA HistoryPoll ==
  ASSUME History, Stamped', NEW p \in Pollers, Poll(p)
  PROVE  History'
<1>0. /\ call[p] \in Call /\ CallTimely(call[p]) /\ now \in Nat /\ MaxDelay \in Nat
      /\ stored \in Nat /\ stored <= now
      /\ call[Stream].pc \in {"asked", "answered"} => stored <= call[Stream].asked
  BY WarehouseConstants DEF History, Stamped, Timely
<1>1. CASE Ask(p)
  <2> DEFINE c == [NoCall EXCEPT !.pc = "asked", !.asked = now]
  <2>1. c.pc = "asked" /\ c.asked = now
    BY DEF NoCall
  <2>2. call' = [call EXCEPT ![p] = c]
    BY <1>1, Zenon DEF Ask
  <2>3. UNCHANGED <<now, bars, stored>>
    BY <1>1 DEF Ask, tableVars
  <2> HIDE DEF c
  <2>4. CallTimely(c)
    BY <1>0, <2>1 DEF CallTimely
  <2>5. QED
    BY <1>0, <2>1, <2>2, <2>3, <2>4, HistoryCall
<1>2. CASE Answer(p)
  <2> DEFINE c == [call[p] EXCEPT !.pc = "answered", !.answered = now]
  <2>1. c.pc = "answered" /\ c.answered = now /\ c.asked = call[p].asked /\ call[p].pc = "asked"
    BY <1>0, <1>2 DEF Call, Answer
  <2>2. call' = [call EXCEPT ![p] = c]
    BY <1>2, Zenon DEF Answer
  <2>3. UNCHANGED <<now, bars, stored>>
    BY <1>2 DEF Answer, tableVars
  <2> HIDE DEF c
  <2>4. CallTimely(c)
    BY <1>0, <2>1 DEF CallTimely
  <2>5. QED
    BY <1>0, <2>1, <2>2, <2>3, <2>4, HistoryCall
<1>3. CASE Lose(p) \/ Discard(p)
  BY <1>3, HistoryReturn DEF Lose, Discard, tableVars
<1>4. QED
  BY <1>1, <1>2, <1>3 DEF Poll

\* A poll that is stored leaves the final bars final, however old its answer,
\* and when it is the stream's it reaches every bar it has to.
LEMMA HistoryWrite ==
  ASSUME History, Stamped', NEW p \in BarPollers, WriteBars(p)
  PROVE  History'
<1> DEFINE c == call[p]
<1>0. /\ p \in Pollers /\ c \in Call /\ CallTimely(c) /\ c.pc = "answered" /\ now \in Nat
      /\ Stream \in Pollers /\ stored \in Nat /\ stored <= now /\ now <= stored + MaxOutage
  BY WarehouseConstants DEF History, Stamped, Timely, WriteBars, Pollers
<1>1. /\ c.asked \in Nat /\ c.answered \in Nat /\ c.asked <= c.answered
      /\ c.asked <= now /\ now <= c.asked + MaxDelay
  BY <1>0 DEF Call, CallTimely
<1>2. /\ MaxDelay \in Nat /\ MaxOutage \in Nat /\ Window \in Nat /\ BarLength \in Nat
      /\ MaxOutage + MaxDelay <= Window - BarLength
  BY WarehouseConstants
<1>3. \A b \in Bars : bars'[b] = IF b \in Batch(p) THEN Version(b, c.answered) ELSE bars[b]
  BY DEF WriteBars, Upsert
<1>4. bars' \in [Bars -> Int]
  <2>1. ASSUME NEW b \in Bars PROVE bars'[b] \in Int
    <3>1. b \in Nat /\ Version(b, c.answered) \in Nat /\ bars[b] \in Int
      BY <1>1, BarsOpen, FinalVersion DEF History
    <3>2. QED
      BY <1>3, <3>1
  <2>2. bars' = [b \in Bars |-> bars'[b]]
    BY DEF WriteBars
  <2>3. QED
    BY <2>1, <2>2
<1>5. stored' = stored \/ (p = Stream /\ stored' = c.asked)
  BY DEF WriteBars
<1>6. p = Stream => stored <= c.asked
  BY <1>0 DEF History, Timely
<1>7. ASSUME NEW b \in Bars, stored' >= Close(b) + MaxDelay PROVE bars'[b] = Close(b)
  <2>0. b \in Nat /\ Open(b) \in Nat /\ Close(b) = Open(b) + BarLength /\ Close(b) \in Nat
    BY BarsOpen
  <2>1. CASE b \in Batch(p)
    <3>1. Close(b) <= c.answered
      BY <1>0, <1>1, <1>2, <1>5, <1>7, <2>0
    <3>2. QED
      BY <1>1, <1>3, <2>0, <2>1, <3>1, FinalVersion
  <2>2. CASE b \notin Batch(p)
    <3>1. ~(c.asked - Window <= Open(b) /\ Open(b) <= c.asked)
      BY <2>2 DEF Batch
    <3>2. stored >= Close(b) + MaxDelay
      <4>1. CASE stored' = stored
        BY <1>7, <4>1
      <4>2. CASE p = Stream /\ stored' = c.asked
        BY <1>0, <1>1, <1>2, <1>7, <2>0, <3>1, <4>2
      <4>3. QED
        BY <1>5, <4>1, <4>2
    <3>3. QED
      BY <1>3, <2>2, <3>2 DEF History, Finished
  <2>3. QED
    BY <2>1, <2>2
<1>8. Finished'
  BY <1>7 DEF Finished
<1>9. now' = now
  BY DEF WriteBars
<1>10. \A q \in Pollers : CallTimely(call'[q]) /\ (q = Stream => (call'[q].pc \in {"asked", "answered"} => stored' <= call'[q].asked))
  <2>1. CASE p = Stream /\ Goto(Stream, "answered", "pushing")
    <3>1. call'[p].pc = "pushing" /\ call'[p].asked = c.asked /\ \A q \in Pollers \ {p} : call'[q] = call[q]
      BY <1>0, <2>1 DEF Goto, History, Stamped, Call
    <3>2. CallTimely(call'[p])
      BY <1>1, <3>1 DEF CallTimely
    <3>3. QED
      BY <2>1, <3>1, <3>2 DEF History, Timely
  <2>2. CASE p # Stream /\ Return(p) /\ stored' = stored
    <3>1. call'[p] = NoCall /\ NoCall.pc = "idle" /\ \A q \in Pollers \ {p} : call'[q] = call[q]
      BY <1>0, <2>2 DEF Return, History, Stamped, NoCall
    <3>2. CallTimely(NoCall)
      BY <3>1 DEF CallTimely
    <3>3. QED
      BY <2>2, <3>1, <3>2 DEF History, Timely
  <2>3. QED
    BY <2>1, <2>2 DEF WriteBars
<1>11. \A q \in Pollers : CallTimely(call[q])'
  BY <1>9, <1>10 DEF CallTimely
<1>12. stored' \in Nat /\ stored' <= now' /\ now' <= stored' + MaxOutage
  BY <1>0, <1>1, <1>2, <1>5, <1>6, <1>9
<1>13. Timely'
  BY <1>0, <1>10, <1>11, <1>12 DEF Timely
<1>14. QED
  BY <1>4, <1>8, <1>13 DEF History

\* Every step keeps stored bars in time and past ones final.
LEMMA HistoryStep == History /\ [Next]_vars => History'
<1> SUFFICES ASSUME History, [Next]_vars PROVE History'
  OBVIOUS
<1>0. Stamped' /\ Stream \in Pollers /\ Series \subseteq Pollers
  BY StampedStep, WarehouseConstants DEF History, Pollers
<1>1. CASE Tick
  <2>1. /\ now \in Nat /\ now' = now + 1 /\ UNCHANGED <<call, bars, stored>> /\ stored \in Nat
        /\ stored <= now /\ now - stored < MaxOutage /\ MaxOutage \in Nat /\ MaxDelay \in Nat
    BY <1>1, WarehouseConstants DEF Tick, History, Stamped, Timely, tableVars
  <2>2. ASSUME NEW p \in Pollers PROVE CallTimely(call[p])'
    <3>1. call[p].pc # "idle" => call[p] # NoCall
      BY DEF NoCall
    <3>2. CallTimely(call[p]) /\ call[p] \in Call /\ call[p].asked \in Nat
      BY DEF History, Stamped, Timely, Call
    <3>3. call[p].pc # "idle" => now - call[p].asked < MaxDelay
      BY <1>1, <3>1 DEF Tick
    <3>4. QED
      BY <2>1, <3>2, <3>3 DEF CallTimely
  <2>3. Timely'
    BY <2>1, <2>2 DEF History, Timely
  <2>4. QED
    BY <1>0, <2>1, <2>3 DEF History, Finished
<1>2. CASE \E p \in Pollers : Poll(p)
  BY <1>0, <1>2, HistoryPoll
<1>3. CASE \E p \in BarPollers : WriteBars(p)
  BY <1>0, <1>3, HistoryWrite
<1>4. ASSUME NEW k \in Series, Receive(k) PROVE History'
  <2> DEFINE c == [call[k] EXCEPT !.pc = "received", !.ts = StampOf(k)]
  <2>1. k \in Pollers /\ call[k] \in Call /\ CallTimely(call[k]) /\ call[k].pc = "answered"
    BY <1>0, <1>4 DEF History, Stamped, Timely, Receive
  <2>2. c.pc = "received" /\ c.asked = call[k].asked
    BY <2>1 DEF Call
  <2>3. call' = [call EXCEPT ![k] = c]
    BY <1>4, Zenon DEF Receive
  <2>4. UNCHANGED <<now, bars, stored>>
    BY <1>4 DEF Receive, tableVars
  <2> HIDE DEF c
  <2>5. CallTimely(c)
    BY <2>1, <2>2 DEF CallTimely
  <2>6. QED
    BY <1>0, <2>1, <2>2, <2>3, <2>4, <2>5, HistoryCall
<1>5. ASSUME NEW k \in Series, WriteUpserted(k) \/ WriteAppended(k) PROVE History'
  <2>1. Return(k) /\ UNCHANGED <<now, bars, stored>>
    BY <1>5 DEF WriteUpserted, WriteAppended, WriteRow
  <2>2. QED
    BY <1>0, <2>1, HistoryReturn
<1>6. CASE Push \/ Trim
  <2>1. UNCHANGED <<now, bars, stored>>
    BY <1>6 DEF Push, Trim, tableVars
  <2>2. Goto(Stream, "pushing", "trimming") \/ Goto(Stream, "trimming", "pushing")
    BY <1>6 DEF Push, Trim
  <2>3. QED
    BY <1>0, <2>1, <2>2, HistoryGoto
<1>7. CASE Pushed
  BY <1>0, <1>7, HistoryReturn DEF Pushed, tableVars
<1>8. CASE UNCHANGED vars
  BY <1>0, <1>8 DEF History, Timely, CallTimely, Finished, vars, tableVars
<1>9. QED
  BY <1>1, <1>2, <1>3, <1>4, <1>5, <1>6, <1>7, <1>8 DEF Next

\* No stored version of a bar is from after its close.
Versions == \A b \in Bars : bars[b] <= Close(b)

\* At the start no bar is stored.
LEMMA VersionsInit == Init => Versions
<1> SUFFICES ASSUME Init, NEW b \in Bars PROVE bars[b] <= Close(b)
  BY DEF Versions
<1>1. Close(b) \in Nat /\ bars[b] = -1
  BY BarsOpen DEF Init, Missing
<1>2. QED
  BY <1>1

\* Whatever poll writes a bar, it was answered then or closed before.
LEMMA VersionsStep == History /\ Versions /\ [Next]_vars => Versions'
<1> SUFFICES ASSUME History, Versions, [Next]_vars PROVE Versions'
  OBVIOUS
<1>1. CASE \E p \in BarPollers : WriteBars(p)
  <2> PICK p \in BarPollers : WriteBars(p)
    BY <1>1
  <2>1. call[p].answered \in Nat
    BY DEF History, Stamped, Call, Pollers
  <2>2. ASSUME NEW b \in Bars PROVE Version(b, call[p].answered) <= Close(b)
    <3>1. Close(b) \in Nat
      BY BarsOpen
    <3>2. Version(b, call[p].answered)
            = IF call[p].answered <= Close(b) THEN call[p].answered ELSE Close(b)
      BY <2>1, <3>1, MinOfTwo DEF Version
    <3>3. QED
      BY <2>1, <3>1, <3>2
  <2>3. \A b \in Bars : bars'[b] = Version(b, call[p].answered) \/ bars'[b] = bars[b]
    BY DEF WriteBars, Upsert
  <2>4. QED
    BY <2>2, <2>3 DEF Versions
<1>2. CASE UNCHANGED bars
  BY <1>2 DEF Versions
<1>3. Tick \/ Push \/ Trim \/ Pushed \/ UNCHANGED vars => UNCHANGED bars
  BY DEF Tick, Push, Trim, Pushed, vars, tableVars
<1>4. (\E p \in Pollers : Poll(p)) => UNCHANGED bars
  BY DEF Poll, Ask, Answer, Lose, Discard, tableVars
<1>5. (\E k \in Series : Receive(k) \/ WriteUpserted(k) \/ WriteAppended(k)) => UNCHANGED bars
  BY DEF Receive, WriteUpserted, WriteAppended, WriteRow, tableVars
<1>6. QED
  BY <1>1, <1>2, <1>3, <1>4, <1>5 DEF Next

\* A read as of a time looks less than a second beyond it for readings, and for
\* bars to the close of the one that was open, however late, often and out of
\* order rows are stored (hyperliquid.py:116, 156, 205, timescale.py:183-255).
THEOREM ReadsLookAheadLittle == Spec => []LookaheadIsShort
<1>1. ASSUME History, Versions, NEW end \in 0 .. now, NEW k \in Series, NEW r \in Read(k, end)
      PROVE  r.observed < end + Second
  <2>1. r \in rows[k] /\ r.ts <= end
    BY <1>1 DEF Read, LatestOnchain, Latest
  <2>2. r \in Reading /\ r.observed < r.ts + Second /\ now \in Nat /\ Second \in Nat
    BY <1>1, <2>1, WarehouseConstants DEF History, Stamped
  <2>3. QED
    BY <2>1, <2>2 DEF Reading
<1>2. ASSUME History, Versions, NEW end \in 0 .. now, NEW b \in Ohlcv(end)
      PROVE  bars[b] <= end \/ (Open(b) <= end /\ end < Close(b) /\ bars[b] <= Close(b))
  <2>1. b \in Bars /\ Open(b) <= end
    BY DEF Ohlcv
  <2>2. bars[b] \in Int /\ bars[b] <= Close(b) /\ Close(b) \in Nat
    BY <1>2, <2>1, BarsOpen DEF History, Versions
  <2>3. end \in Int
    BY <1>2 DEF History, Stamped
  <2>4. QED
    BY <2>1, <2>2, <2>3
<1>3. History /\ Versions => LookaheadIsShort
  BY <1>1, <1>2 DEF LookaheadIsShort
<1>4. Spec => []History
  BY HistoryInit, HistoryStep, PTL DEF Spec
<1>5. Spec => []Versions
  BY <1>4, VersionsInit, VersionsStep, PTL DEF Spec
<1>6. QED
  BY <1>3, <1>4, <1>5, PTL

\* What no poll will ask for again is final and none of it is missing, although
\* each bar is first stored while it is open and an older answer may be stored
\* over a newer one (hyperliquid.py:49, timescale.py:65).
THEOREM HistoryStaysFinal == Spec => []HistoryIsFinal
<1>1. History => HistoryIsFinal
  <2> SUFFICES ASSUME History, NEW b \in Bars, Open(b) + Window + MaxDelay < now
               PROVE  bars[b] = Close(b)
    BY DEF HistoryIsFinal
  <2>1. /\ MaxDelay \in Nat /\ MaxOutage \in Nat /\ Window \in Nat /\ BarLength \in Nat
        /\ MaxOutage + MaxDelay <= Window - BarLength
    BY WarehouseConstants
  <2>2. Open(b) \in Nat /\ Close(b) = Open(b) + BarLength
    BY BarsOpen
  <2>3. now \in Nat /\ stored \in Nat /\ now <= stored + MaxOutage
    BY DEF History, Stamped, Timely
  <2>4. stored >= Close(b) + MaxDelay
    BY <2>1, <2>2, <2>3
  <2>5. QED
    BY <2>4 DEF History, Finished
<1>2. QED
  BY <1>1, HistoryInit, HistoryStep, PTL DEF Spec

(***************************************************************************)
(* The bars in Redis.                                                      *)
(***************************************************************************)

Member == [bar : Bars, version : Nat]

\* The members R hold every bar from their lowest to top.
Solid(R, top) == \A m \in R : m.bar <= top /\ \A c \in m.bar .. top : \E y \in R : y.bar = c

\* Member m is alone below the others, and is the next to be trimmed.
Stray(m, R) == Cardinality(R) = Ring + 1 /\ \A y \in R \ {m} : m.bar < y.bar

\* Outside of a push the ring has every bar from its lowest to the newest;
\* between the commands of one it may have a stray member below them.
Shape ==
  \/ Cardinality(ring) <= Ring /\ Solid(ring, newest)
  \/ call[Stream].pc = "trimming" /\ Cardinality(ring) = Ring + 1 /\ Solid(ring, newest)
  \/ call[Stream].pc = "trimming" /\ \E m \in ring : Stray(m, ring) /\ Solid(ring \ {m}, newest)

\* The bars to push are of the window of the last poll, and in a ring that is
\* not full none of that window is below the lowest.
Low ==
  /\ \A b \in queue : Open(b) >= stored - Window
  /\ ring # {} /\ Cardinality(ring) < Ring =>
       \A b \in Bars : Open(b) >= stored - Window => \E y \in ring : y.bar <= b

\* Nothing is left out above the newest bar: what the stream has seen since is
\* still to be pushed, from the lowest on.
High ==
  ring # {} =>
    /\ \A b \in Bars : Open(b) <= stored => b <= newest \/ b \in queue
    /\ \A x \in queue, c \in Bars : newest < c /\ c < x => c \in queue

Fresh ==
  ring = {} => newest = Missing /\ (queue # {} => queue = {b \in Bars : stored - Window <= Open(b) /\ Open(b) <= stored})

Cached ==
  /\ ring \subseteq Member /\ IsFiniteSet(ring) /\ queue \subseteq Bars
  /\ newest \in Nat \cup {Missing} /\ (ring # {} => newest \in Nat)
  /\ call[Stream].pc \notin {"pushing", "trimming"} => queue = {}
  /\ Shape /\ Low /\ High /\ Fresh

\* At the start the ring is empty.
LEMMA CachedInit == Init => Cached
<1> SUFFICES ASSUME Init PROVE Cached
  OBVIOUS
<1>1. ring = {} /\ queue = {} /\ newest = Missing
  BY DEF Init
<1>2. IsFiniteSet(ring) /\ Cardinality(ring) = 0 /\ Ring \in Nat
  BY <1>1, FS_EmptySet, WarehouseConstants
<1>3. Shape
  BY <1>1, <1>2 DEF Shape, Solid
<1>4. Low /\ High /\ Fresh
  BY <1>1 DEF Low, High, Fresh
<1>5. QED
  BY <1>1, <1>2, <1>3, <1>4 DEF Cached

\* A step that leaves the cache, the stream's last poll and its push alone.
LEMMA CachedStays ==
  ASSUME Cached, UNCHANGED <<cacheVars, stored>>,
         (call'[Stream].pc = call[Stream].pc) \/ (queue = {} /\ call[Stream].pc # "trimming")
  PROVE  Cached'
<1>1. ring' = ring /\ queue' = queue /\ newest' = newest /\ stored' = stored
  BY DEF cacheVars
<1>2. Shape'
  BY <1>1 DEF Cached, Shape
<1>3. Low' /\ High' /\ Fresh'
  BY <1>1 DEF Cached, Low, High, Fresh
<1>4. QED
  BY <1>1, <1>2, <1>3 DEF Cached

\* A lowest member that goes leaves no gap.
LEMMA SolidTrimmed ==
  ASSUME NEW R, R \subseteq Member, NEW top \in Nat, Solid(R, top), NEW m \in Lowest(R)
  PROVE  Solid(R \ {m}, top)
<1> SUFFICES ASSUME NEW y \in R \ {m}, NEW c \in y.bar .. top
             PROVE  \E z \in R \ {m} : z.bar = c
  BY DEF Solid
<1>1. m \in R /\ m.bar <= y.bar /\ m.bar \in Nat /\ y.bar \in Nat
  BY BarsOpen DEF Lowest, Member
<1>2. PICK z \in R : z.bar = c
  BY DEF Solid
<1>3. QED
  BY <1>1, <1>2

\* Nor does a member that comes at or above the lowest, or next to the newest.
LEMMA SolidWith ==
  ASSUME NEW R, R \subseteq Member, NEW top \in Nat, Solid(R, top), NEW n \in Member
  PROVE  /\ n.bar <= top /\ (\E y \in R : y.bar <= n.bar) => Solid(R \cup {n}, top)
         /\ n.bar = top + 1 => Solid(R \cup {n}, n.bar)
<1>0. n.bar \in Nat /\ \A y \in R : y.bar \in Nat
  BY BarsOpen DEF Member
<1>1. ASSUME n.bar <= top, NEW y \in R, y.bar <= n.bar PROVE Solid(R \cup {n}, top)
  <2>1. \A c \in n.bar .. top : c \in y.bar .. top
    BY <1>0, <1>1
  <2>2. \A c \in n.bar .. top : \E z \in R : z.bar = c
    BY <2>1 DEF Solid
  <2>3. QED
    BY <1>1, <2>2 DEF Solid
<1>2. ASSUME n.bar = top + 1 PROVE Solid(R \cup {n}, n.bar)
  <2> SUFFICES ASSUME NEW m \in R \cup {n}, NEW c \in m.bar .. n.bar
               PROVE  m.bar <= n.bar /\ \E z \in R \cup {n} : z.bar = c
    BY <1>0, <1>2 DEF Solid
  <2>1. CASE c = n.bar
    BY <1>0, <1>2, <2>1
  <2>2. CASE c # n.bar
    <3>1. m \in R /\ c \in m.bar .. top
      BY <1>0, <1>2, <2>2
    <3>2. QED
      BY <1>0, <1>2, <3>1 DEF Solid
  <2>3. QED
    BY <2>1, <2>2
<1>3. QED
  BY <1>1, <1>2

\* The least of some bars.
LEMMA LeastBar ==
  ASSUME NEW S \in SUBSET Bars, S # {}
  PROVE  Min(S) \in S /\ \A x \in S : Min(S) <= x
<1>0. IsFiniteSet(Bars) /\ Bars \subseteq Nat
  BY BarsOpen
<1>1. IsFiniteSet(S)
  BY <1>0, FS_Subset
<1>2. S \subseteq Int
  BY <1>0
<1>3. \E x \in S : \A y \in S : x <= y
  BY <1>1, <1>2, LeastExists
<1>4. QED
  BY <1>3 DEF Min

\* How many members there are tells which shape the ring has.
LEMMA ShapeBySize ==
  ASSUME Cached
  PROVE  \/ Cardinality(ring) <= Ring /\ Solid(ring, newest)
         \/ /\ call[Stream].pc = "trimming" /\ Cardinality(ring) = Ring + 1
            /\ Solid(ring, newest) \/ \E m \in ring : Stray(m, ring) /\ Solid(ring \ {m}, newest)
BY Zenon DEF Cached, Shape, Stray

\* The stream's poll is stored, and its bars are to be pushed.
LEMMA CachedWrite ==
  ASSUME History, Cached, WriteBars(Stream)
  PROVE  Cached'
<1> DEFINE a == call[Stream].asked
<1>0. /\ Stream \in Pollers /\ Window \in Nat /\ MaxOutage \in Nat /\ MaxOutage <= Window
      /\ Ring \in Nat
  BY WarehouseConstants DEF Pollers
<1>1. /\ call[Stream].pc = "answered" /\ stored' = a /\ queue' = Batch(Stream)
      /\ ring' = ring /\ newest' = newest /\ Goto(Stream, "answered", "pushing")
  BY DEF WriteBars
<1>2. call'[Stream].pc = "pushing"
  BY <1>0, <1>1 DEF Goto, History, Stamped, Call
<1>3. /\ call[Stream] \in Call /\ CallTimely(call[Stream]) /\ now \in Nat
      /\ stored \in Nat /\ now <= stored + MaxOutage /\ stored <= a
  BY <1>0, <1>1 DEF History, Stamped, Timely
<1>4. a \in Nat /\ a <= now
  BY <1>1, <1>3 DEF Call, CallTimely
<1>5. queue = {}
  BY <1>1 DEF Cached
<1>6. queue' = {b \in Bars : stored' - Window <= Open(b) /\ Open(b) <= stored'}
  BY <1>1 DEF Batch
<1> HIDE DEF a
<1>7. Shape'
  BY <1>0, <1>1, <1>2 DEF Cached, Shape
<1>8. Low'
  <2>1. \A b \in queue' : Open(b) >= stored' - Window
    BY <1>1, <1>4, <1>6, <1>0, BarsOpen
  <2>2. \A b \in Bars : Open(b) >= stored' - Window => Open(b) >= stored - Window
    BY <1>0, <1>1, <1>3, <1>4, BarsOpen
  <2>3. QED
    BY <1>1, <2>1, <2>2 DEF Cached, Low
<1>9. High'
  <2> SUFFICES ASSUME ring # {}
               PROVE  /\ \A b \in Bars : Open(b) <= stored' => b <= newest \/ b \in queue'
                      /\ \A x \in queue', c \in Bars : newest < c /\ c < x => c \in queue'
    BY <1>1 DEF High
  <2>0. newest \in Nat
    BY DEF Cached
  <2>1. ASSUME NEW b \in Bars, newest < b PROVE Open(b) > stored /\ stored' - Window <= Open(b)
    <3>1. ~(b <= newest) /\ b \in Nat /\ Open(b) \in Nat
      BY <2>0, <2>1, BarsOpen
    <3>2. Open(b) > stored
      BY <1>3, <1>5, <3>1 DEF Cached, High
    <3>3. QED
      BY <1>0, <1>1, <1>3, <1>4, <3>1, <3>2
  <2>2. ASSUME NEW b \in Bars, Open(b) <= stored' PROVE b <= newest \/ b \in queue'
    <3>1. b \in Nat
      BY BarsOpen
    <3>2. CASE newest < b
      BY <1>6, <2>1, <2>2, <3>2
    <3>3. QED
      BY <2>0, <3>1, <3>2
  <2>3. ASSUME NEW x \in queue', NEW c \in Bars, newest < c, c < x PROVE c \in queue'
    <3>1. x \in Bars /\ Open(x) <= stored' /\ stored' \in Nat
      BY <1>1, <1>4, <1>6
    <3>2. Close(c) <= Open(x) /\ Open(c) <= Close(c) /\ Open(x) \in Nat /\ Open(c) \in Nat /\ Close(c) \in Nat
      BY <2>3, <3>1, BarsOpen, WarehouseConstants
    <3>3. Open(c) <= stored'
      BY <3>1, <3>2
    <3>4. QED
      BY <1>6, <2>1, <2>3, <3>3
  <2>4. QED
    BY <2>2, <2>3
<1>10. Fresh'
  BY <1>1, <1>6 DEF Cached, Fresh
<1>11. QED
  BY <1>1, <1>2, <1>6, <1>7, <1>8, <1>9, <1>10 DEF Cached

\* The trim takes the stray member, or a lowest one of a ring without gaps.
LEMMA CachedTrim ==
  ASSUME History, Cached, Trim
  PROVE  Cached'
<1>0. /\ Stream \in Pollers /\ Ring \in Nat \ {0} /\ IsFiniteSet(ring) /\ Cardinality(ring) \in Nat
      /\ ring \subseteq Member
  BY WarehouseConstants, FS_CardinalityType DEF Pollers, Cached
<1>1. /\ call[Stream].pc = "trimming" /\ Goto(Stream, "trimming", "pushing")
      /\ queue' = queue /\ newest' = newest /\ stored' = stored
  BY DEF Trim, Goto, tableVars
<1>2. call'[Stream].pc = "pushing"
  BY <1>0, <1>1 DEF Goto, History, Stamped, Call
<1>3. CASE Cardinality(ring) <= Ring /\ ring' = ring
  <2>0. Solid(ring, newest)
    BY <1>0, <1>3, ShapeBySize
  <2>1. Shape'
    BY <1>1, <1>3, <2>0 DEF Shape
  <2>2. Low' /\ High' /\ Fresh'
    BY <1>1, <1>3 DEF Cached, Low, High, Fresh
  <2>3. QED
    BY <1>1, <1>2, <1>3, <2>1, <2>2 DEF Cached
<1>4. CASE Cardinality(ring) > Ring /\ ring' \in Trimmed
  <2>1. PICK m \in Lowest(ring) : ring' = ring \ {m}
    BY <1>4 DEF Trimmed
  <2>2. m \in ring /\ m.bar \in Nat /\ \A y \in ring : m.bar <= y.bar /\ y.bar \in Nat
    BY <1>0, <2>1, BarsOpen DEF Lowest, Member
  <2>3. IsFiniteSet(ring \ {m}) /\ Cardinality(ring \ {m}) = Cardinality(ring) - 1
    BY <1>0, <2>2, FS_RemoveElement
  <2>4. Cardinality(ring) = Ring + 1
    BY <1>0, <1>4, ShapeBySize
  <2>5. ring # {} /\ newest \in Nat
    BY <2>2 DEF Cached
  <2>6. Solid(ring \ {m}, newest)
    <3>1. CASE Solid(ring, newest)
      BY <1>0, <2>1, <2>5, <3>1, SolidTrimmed
    <3>2. ASSUME NEW n \in ring, Stray(n, ring), Solid(ring \ {n}, newest) PROVE Solid(ring \ {m}, newest)
      <4>1. m = n
        <5> SUFFICES ASSUME m # n PROVE FALSE
          OBVIOUS
        <5>1. n.bar < m.bar /\ m.bar <= n.bar
          BY <2>2, <3>2 DEF Stray
        <5>2. QED
          BY <2>2, <5>1
      <4>2. QED
        BY <3>2, <4>1
    <3>3. QED
      BY <1>0, <1>4, <3>1, <3>2, ShapeBySize
  <2>7. Cardinality(ring') = Ring /\ ring' # {}
    <3>1. Cardinality(ring') = Ring
      BY <1>0, <2>1, <2>3, <2>4
    <3>2. QED
      BY <1>0, <3>1, FS_EmptySet
  <2>8. Shape'
    BY <1>0, <1>1, <2>1, <2>6, <2>7 DEF Shape
  <2>9. Low'
    BY <1>0, <1>1, <2>7 DEF Cached, Low
  <2>10. High' /\ Fresh'
    BY <1>1, <2>5, <2>7 DEF Cached, High, Fresh
  <2>11. ring' \subseteq Member /\ IsFiniteSet(ring')
    BY <1>0, <2>1, <2>3
  <2>12. QED
    BY <1>1, <1>2, <2>5, <2>8, <2>9, <2>10, <2>11 DEF Cached
<1>5. QED
  BY <1>3, <1>4 DEF Trim

\* A push: the next bar of the window is in the ring already or next to it, or
\* below a ring that is full, which makes it a stray.
LEMMA CachedPush ==
  ASSUME History, Cached, Push
  PROVE  Cached'
<1> DEFINE b == Min(queue)
           v == Version(b, call[Stream].answered)
           n == [bar |-> b, version |-> v]
<1>0. /\ Stream \in Pollers /\ Ring \in Nat \ {0} /\ IsFiniteSet(ring) /\ Cardinality(ring) \in Nat
      /\ ring \subseteq Member /\ queue \subseteq Bars /\ queue # {} /\ call[Stream] \in Call
  BY WarehouseConstants, FS_CardinalityType DEF Pollers, Cached, Push, History, Stamped
<1>1. /\ call[Stream].pc = "pushing" /\ Goto(Stream, "pushing", "trimming") /\ stored' = stored
      /\ ring' = ring \cup {n} /\ queue' = queue \ {b} /\ newest' = Max({newest, b})
  BY DEF Push, Goto, tableVars
<1>2. call'[Stream].pc = "trimming"
  BY <1>0, <1>1 DEF Goto, History, Stamped, Call
<1>3. b \in queue /\ b \in Bars /\ b \in Nat /\ \A x \in queue : b <= x /\ x \in Nat
  BY <1>0, LeastBar, BarsOpen
<1>4. n \in Member /\ n.bar = b
  <2>1. v \in Nat
    BY <1>0, <1>3, FinalVersion DEF Call
  <2> HIDE DEF v, b
  <2>2. QED
    BY <1>3, <2>1 DEF Member
<1> HIDE DEF b, n, v
<1>5. newest' = IF newest <= b THEN b ELSE newest
  <2>1. newest \in Int
    BY DEF Cached, Missing
  <2>2. QED
    BY <1>1, <1>3, <2>1, MaxOfTwo
<1>6. Cardinality(ring) <= Ring /\ Solid(ring, newest)
  BY <1>1, ShapeBySize
<1>7. /\ IsFiniteSet(ring') /\ ring' \subseteq Member /\ ring' # {}
      /\ Cardinality(ring') = IF n \in ring THEN Cardinality(ring) ELSE Cardinality(ring) + 1
  BY <1>0, <1>1, <1>4, FS_AddElement
<1>8. newest' \in Nat
  BY <1>3, <1>5 DEF Cached
<1>9. Open(b) >= stored - Window /\ Open(b) \in Nat /\ stored \in Nat /\ Window \in Nat
  BY <1>3, BarsOpen, WarehouseConstants DEF Cached, Low, History, Timely
<1>10. ASSUME Solid(ring', newest') PROVE Shape'
  BY <1>0, <1>2, <1>6, <1>7, <1>10 DEF Shape
<1>11. Fresh' /\ queue' \subseteq Bars /\ \A x \in queue' : Open(x) >= stored - Window
  BY <1>0, <1>1, <1>7 DEF Cached, Low, Fresh
<1>12. ASSUME Shape', High',
              Cardinality(ring') < Ring =>
                \A c \in Bars : Open(c) >= stored - Window => \E y \in ring' : y.bar <= c
       PROVE  Cached'
  <2>1. Low'
    BY <1>1, <1>11, <1>12 DEF Low
  <2>2. QED
    BY <1>2, <1>7, <1>8, <1>11, <1>12, <2>1 DEF Cached
<1>13. CASE ring = {}
  <2>1. newest = Missing /\ queue = {c \in Bars : stored - Window <= Open(c) /\ Open(c) <= stored}
    BY <1>0, <1>13 DEF Cached, Fresh
  <2>2. newest' = b
    BY <1>3, <1>5, <2>1 DEF Missing
  <2>3. ring' = {n}
    BY <1>1, <1>13
  <2>4. Solid(ring', newest')
    BY <1>3, <1>4, <2>2, <2>3 DEF Solid
  <2>5. ASSUME NEW c \in Bars, Open(c) >= stored - Window PROVE \E y \in ring' : y.bar <= c
    <3>1. c \in Nat /\ (c < b => Close(c) <= Open(b)) /\ Open(c) <= Close(c) /\ Open(c) \in Nat /\ Close(c) \in Nat
      BY <1>3, BarsOpen, WarehouseConstants
    <3>2. Open(b) <= stored
      BY <1>3, <2>1
    <3>3. b <= c
      BY <1>3, <1>9, <2>1, <2>5, <3>1, <3>2
    <3>4. QED
      BY <1>4, <2>3, <3>3
  <2>6. ASSUME NEW c \in Bars, Open(c) <= stored PROVE c <= newest' \/ c \in queue'
    <3>1. c \in Nat /\ (b < c => Close(b) <= Open(c)) /\ Open(b) <= Close(b) /\ Open(c) \in Nat /\ Close(b) \in Nat
      BY <1>3, BarsOpen, WarehouseConstants
    <3>2. CASE b < c
      BY <1>1, <1>3, <1>9, <2>1, <2>6, <3>1, <3>2
    <3>3. QED
      BY <1>3, <2>2, <3>1, <3>2
  <2>7. ASSUME NEW x \in queue', NEW c \in Bars, newest' < c, c < x PROVE c \in queue'
    <3>1. x \in queue /\ x \in Bars /\ x \in Nat /\ c \in Nat /\ Open(x) <= stored
      BY <1>1, <2>1, BarsOpen
    <3>2. Close(c) <= Open(x) /\ Open(c) <= Close(c) /\ Open(c) \in Nat /\ Close(c) \in Nat /\ Open(x) \in Nat
      BY <2>7, <3>1, BarsOpen, WarehouseConstants
    <3>3. c <= newest' \/ c \in queue'
      BY <1>9, <2>6, <3>1, <3>2
    <3>4. QED
      BY <1>8, <2>7, <3>1, <3>3
  <2>8. High'
    BY <1>1, <2>6, <2>7 DEF High
  <2>9. QED
    BY <1>10, <1>12, <2>4, <2>5, <2>8
<1>14. CASE ring # {}
  <2>0. newest \in Nat
    BY <1>14 DEF Cached
  <2>1. /\ \A c \in Bars : Open(c) <= stored => c <= newest \/ c \in queue
        /\ \A x \in queue, c \in Bars : newest < c /\ c < x => c \in queue
    BY <1>14 DEF Cached, High
  <2>2. newest <= newest' /\ b <= newest'
    BY <1>3, <1>5, <2>0
  <2>3. ASSUME NEW c \in Bars, Open(c) <= stored PROVE c <= newest' \/ c \in queue'
    <3>1. c \in Nat /\ (c <= newest \/ c \in queue)
      BY <2>1, <2>3, BarsOpen
    <3>2. QED
      BY <1>1, <1>8, <2>0, <2>2, <3>1
  <2>4. ASSUME NEW x \in queue', NEW c \in Bars, newest' < c, c < x PROVE c \in queue'
    <3>1. c \in Nat /\ newest < c /\ c # b
      BY <1>3, <1>8, <2>0, <2>2, <2>4, BarsOpen
    <3>2. QED
      BY <1>1, <2>1, <2>4, <3>1
  <2>5. High'
    BY <1>1, <2>3, <2>4 DEF High
  <2>6. Cardinality(ring') < Ring =>
          \A c \in Bars : Open(c) >= stored - Window => \E y \in ring' : y.bar <= c
    <3>1. Cardinality(ring') < Ring => Cardinality(ring) < Ring
      BY <1>0, <1>7
    <3>2. QED
      BY <1>1, <1>14, <3>1 DEF Cached, Low
  <2>7. CASE newest < b
    <3>1. b = newest + 1
      <4> SUFFICES ASSUME newest + 1 < b PROVE FALSE
        BY <1>3, <2>0, <2>7
      <4>1. newest + 1 \in Bars
        <5> DEFINE last == LastTime \div BarLength
        <5>1. last \in Int /\ Bars = 0 .. last
          BY WarehouseConstants DEF Bars
        <5> HIDE DEF last
        <5>2. QED
          BY <1>3, <2>0, <5>1
      <4>2. newest + 1 \in queue
        BY <1>3, <2>0, <2>1, <4>1
      <4>3. QED
        BY <1>3, <2>0, <4>2
    <3>2. newest' = b
      BY <1>3, <1>5, <2>0, <2>7
    <3>3. Solid(ring', newest')
      BY <1>0, <1>1, <1>4, <1>6, <2>0, <3>1, <3>2, SolidWith
    <3>4. QED
      BY <1>10, <1>12, <2>5, <2>6, <3>3
  <2>8. CASE b <= newest /\ \E y \in ring : y.bar <= b
    <3>1. newest' = newest
      BY <1>3, <1>5, <2>0, <2>8
    <3>2. Solid(ring', newest')
      BY <1>0, <1>1, <1>4, <1>6, <2>0, <2>8, <3>1, SolidWith
    <3>3. QED
      BY <1>10, <1>12, <2>5, <2>6, <3>2
  <2>9. CASE b <= newest /\ \A y \in ring : ~(y.bar <= b)
    <3>1. newest' = newest
      BY <1>3, <1>5, <2>0, <2>9
    <3>2. Cardinality(ring) = Ring
      <4>1. ~(Cardinality(ring) < Ring)
        BY <1>3, <1>9, <1>14, <2>9 DEF Cached, Low
      <4>2. QED
        BY <1>0, <1>6, <4>1
    <3>3. n \notin ring
      BY <1>3, <1>4, <2>9
    <3>4. ring' \ {n} = ring /\ n \in ring' /\ Cardinality(ring') = Ring + 1
      BY <1>1, <1>7, <3>2, <3>3
    <3>5. \A y \in ring : n.bar < y.bar
      <4> TAKE y \in ring
      <4>1. y.bar \in Nat /\ ~(y.bar <= b)
        BY <1>0, <2>9, BarsOpen DEF Member
      <4>2. QED
        BY <1>3, <1>4, <4>1
    <3>6. Stray(n, ring') /\ Solid(ring' \ {n}, newest')
      BY <1>6, <3>1, <3>4, <3>5 DEF Stray
    <3>7. Shape'
      BY <1>2, <3>4, <3>6 DEF Shape
    <3>8. QED
      BY <1>12, <2>5, <2>6, <3>7
  <2>10. QED
    BY <1>3, <2>0, <2>7, <2>8, <2>9
<1>15. QED
  BY <1>13, <1>14

\* Every step keeps the ring whole, but for one stray member below it.
LEMMA CachedStep == History /\ Cached /\ [Next]_vars => Cached'
<1> SUFFICES ASSUME History, Cached, [Next]_vars PROVE Cached'
  OBVIOUS
<1>0. /\ Stream \in Pollers /\ Stream \notin Series /\ Series \subseteq Pollers /\ BarPollers \subseteq Pollers
      /\ call \in [Pollers -> Call] /\ (call[Stream].pc \notin {"pushing", "trimming"} => queue = {})
  BY WarehouseConstants DEF Stream, Pollers, History, Stamped, Cached
<1>1. CASE Tick \/ UNCHANGED vars
  <2>1. UNCHANGED <<cacheVars, stored, call>>
    BY <1>1 DEF Tick, vars, tableVars
  <2>2. QED
    BY <2>1, CachedStays
<1>2. ASSUME NEW p \in Pollers, Poll(p) PROVE Cached'
  <2>1. UNCHANGED <<cacheVars, stored>>
    BY <1>2 DEF Poll, Ask, Answer, Lose, Discard, tableVars
  <2>2. CASE p # Stream
    <3>1. call'[Stream] = call[Stream]
      BY <1>0, <1>2, <2>2 DEF Poll, Ask, Answer, Lose, Discard, Return
    <3>2. QED
      BY <2>1, <3>1, CachedStays
  <2>3. CASE p = Stream
    <3>1. call[Stream].pc \in {"idle", "asked", "answered", "received"}
      BY <1>2, <2>3 DEF Poll, Ask, Answer, Lose, Discard, NoCall
    <3>2. QED
      BY <1>0, <2>1, <3>1, CachedStays
  <2>4. QED
    BY <2>2, <2>3
<1>3. ASSUME NEW p \in BarPollers, WriteBars(p) PROVE Cached'
  <2>1. CASE p = Stream
    BY <1>3, <2>1, CachedWrite
  <2>2. CASE p # Stream
    <3>1. call'[Stream] = call[Stream] /\ UNCHANGED <<cacheVars, stored>>
      BY <1>0, <1>3, <2>2 DEF WriteBars, Return, cacheVars
    <3>2. QED
      BY <3>1, CachedStays
  <2>3. QED
    BY <2>1, <2>2
<1>4. ASSUME NEW k \in Series, Receive(k) \/ WriteUpserted(k) \/ WriteAppended(k) PROVE Cached'
  <2>1. call'[Stream] = call[Stream] /\ UNCHANGED <<cacheVars, stored>>
    BY <1>0, <1>4 DEF Receive, WriteUpserted, WriteAppended, WriteRow, Return, tableVars
  <2>2. QED
    BY <2>1, CachedStays
<1>5. CASE Pushed
  <2>1. queue = {} /\ call[Stream].pc = "pushing" /\ UNCHANGED <<cacheVars, stored>>
    BY <1>5 DEF Pushed, tableVars
  <2>2. QED
    BY <2>1, CachedStays
<1>6. QED
  BY <1>1, <1>2, <1>3, <1>4, <1>5, CachedPush, CachedTrim DEF Next

\* Of a ring without gaps, the members that have fewer than Recent above them
\* have none either.
LEMMA RecentSolid ==
  ASSUME NEW R, IsFiniteSet(R), R \subseteq Member, NEW S \in SUBSET R, NEW top \in Nat, Solid(S, top),
         \A m \in R \ S : ~(Cardinality({y \in R : y.bar > m.bar}) < Recent),
         RecentBars(R) # {}
  PROVE  RecentBars(R) = Min(RecentBars(R)) .. top
<1> DEFINE above(m) == {y \in R : y.bar > m.bar}
           recent == {m \in R : Cardinality(above(m)) < Recent}
           found == RecentBars(R)
<1>0. Recent \in Nat /\ \A m \in R : m.bar \in Bars /\ m.bar \in Nat
  <2>1. \A m \in R : m.bar \in Bars
    BY DEF Member
  <2>2. Recent \in Nat
    BY WarehouseConstants
  <2>3. QED
    BY <2>1, <2>2, BarsOpen
<1>1. found = {m.bar : m \in recent}
  BY DEF RecentBars
<1>2. recent \subseteq S
  OBVIOUS
<1>3. \A m \in R : IsFiniteSet(above(m)) /\ Cardinality(above(m)) \in Nat
  BY FS_Subset, FS_CardinalityType
<1>4. ASSUME NEW m \in recent, NEW c \in m.bar .. top PROVE c \in found
  <2>1. PICK y \in S : y.bar = c
    BY <1>2, <1>4 DEF Solid
  <2>2. y \in R /\ m \in R /\ c \in Nat /\ m.bar <= c
    BY <1>0, <2>1
  <2>3. above(y) \in SUBSET above(m)
    BY <1>0, <2>1, <2>2
  <2>4. Cardinality(above(m)) < Recent
    OBVIOUS
  <2> HIDE DEF above
  <2>5. Cardinality(above(y)) <= Cardinality(above(m))
    BY <1>3, <2>2, <2>3, FS_Subset
  <2>6. Cardinality(above(y)) < Recent
    BY <1>0, <1>3, <2>2, <2>4, <2>5
  <2>7. y \in recent
    BY <2>2, <2>6
  <2> HIDE DEF recent, found
  <2>8. QED
    BY <1>1, <2>1, <2>7
<1>5. found \in SUBSET Bars /\ \A x \in found : x <= top /\ x \in Nat
  BY <1>0, <1>1, <1>2 DEF Solid
<1>6. Min(found) \in found /\ \A x \in found : Min(found) <= x
  <2> HIDE DEF found
  <2>1. QED
    BY <1>5, LeastBar DEF found
<1>7. ASSUME NEW c \in Min(found) .. top PROVE c \in found
  <2> HIDE DEF recent, found
  <2>1. PICK m \in recent : m.bar = Min(found)
    BY <1>1, <1>6
  <2>2. QED
    BY <1>4, <1>7, <2>1
<1>8. \A x \in found : x \in Min(found) .. top
  <2> HIDE DEF found
  <2>1. QED
    BY <1>5, <1>6
<1> HIDE DEF found
<1>9. found = Min(found) .. top
  BY <1>7, <1>8
<1>10. QED
  BY <1>9 DEF found

CacheInv == History /\ Cached

\* Who reads the last bars from Redis, at any moment of a push, finds the newest
\* and none left out before it (redis_cache.py:45-55).
THEOREM LastBarsAreWhole == Spec => []RecentBarsAreLast
<1>1. CacheInv => RecentBarsAreLast
  <2> SUFFICES ASSUME History, Cached, RecentBars(ring) # {}
               PROVE  RecentBars(ring) = Min(RecentBars(ring)) .. newest
    BY DEF CacheInv, RecentBarsAreLast
  <2>0. /\ IsFiniteSet(ring) /\ ring \subseteq Member /\ Recent \in Nat /\ Ring \in Nat /\ Recent <= Ring
    BY WarehouseConstants DEF Cached
  <2>1. newest \in Nat
    BY DEF RecentBars, Cached
  <2>2. CASE Solid(ring, newest)
    BY <2>0, <2>1, <2>2, RecentSolid
  <2>3. ASSUME NEW s \in ring, Stray(s, ring), Solid(ring \ {s}, newest)
        PROVE  RecentBars(ring) = Min(RecentBars(ring)) .. newest
    <3>1. {y \in ring : y.bar > s.bar} = ring \ {s}
      <4>1. \A y \in ring : y.bar \in Nat
        BY <2>0, BarsOpen DEF Member
      <4>2. QED
        BY <2>3, <4>1 DEF Stray
    <3>2. Cardinality(ring \ {s}) = Ring
      <4>1. Cardinality(ring) = Ring + 1
        BY <2>3 DEF Stray
      <4>2. Cardinality(ring \ {s}) = Cardinality(ring) - 1
        BY <2>0, <2>3, FS_RemoveElement
      <4>3. QED
        BY <2>0, <4>1, <4>2
    <3>3. ~(Cardinality({y \in ring : y.bar > s.bar}) < Recent)
      BY <2>0, <3>1, <3>2
    <3>4. \A m \in ring \ (ring \ {s}) : m = s
      OBVIOUS
    <3>5. \A m \in ring \ (ring \ {s}) : ~(Cardinality({y \in ring : y.bar > m.bar}) < Recent)
      BY <3>3, <3>4
    <3>6. QED
      BY <2>0, <2>1, <2>3, <3>5, RecentSolid
  <2>4. QED
    BY <2>2, <2>3, ShapeBySize
<1>2. Init => CacheInv
  BY HistoryInit, CachedInit DEF CacheInv
<1>3. CacheInv /\ [Next]_vars => CacheInv'
  BY HistoryStep, CachedStep DEF CacheInv
<1>4. QED
  BY <1>1, <1>2, <1>3, PTL DEF Spec

=============================================================================
