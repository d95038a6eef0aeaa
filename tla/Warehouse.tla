----------------------------- MODULE Warehouse -----------------------------
(***************************************************************************)
(* The first data layer, src/echo_data: its sources poll feeds, and its    *)
(* storage keeps what they yield in Timescale and in Redis.  No worker in  *)
(* the repository connects the two; as redis_cache.py describes it, one    *)
(* takes what a source yields, writes it to the store and pushes the bars  *)
(* of the stream to the cache.  There is one asset and one interval.       *)
(*                                                                         *)
(* Bar b opens at b * BarLength.  A feed shows a bar that is open as it is *)
(* then: its version is the time it was observed, at most the time it      *)
(* closes.  A reading (funding, open interest, book, on-chain) is the time *)
(* it was observed and the time it was stamped with.  A tick is the        *)
(* millisecond in which polls count; stamps and reads count in seconds.    *)
(***************************************************************************)
EXTENDS Integers, FiniteSetsExt

CONSTANTS
  BarPollers,  \* the stream, and others that fetch_latest bars
  Series,      \* kinds of readings, each polled by its source
  Second,      \* ticks in a second
  BarLength,
  Limit,       \* how many bars get_ohlcv returns
  Window,      \* how far back a poll asks for bars
  Day,         \* how old an on-chain reading may be
  Ring,        \* how many bars Redis keeps
  Recent,      \* how many get_recent_bars returns
  MaxDelay,    \* bound: how long a poll is under way, httpx's timeout included
  MaxOutage,   \* assumption: how long the stream stores nothing
  LastPoll,    \* bound: LastPoll[p]: the last time p polls
  LastTime     \* bound: the last time of the clock

Stream == "stream"
Pollers == BarPollers \cup Series

ASSUME WarehouseConstants ==
  /\ Stream \in BarPollers
  /\ Series \subseteq {"funding", "oi", "orderbook", "onchain"}
  /\ {Second, BarLength, Limit, Window, Day, MaxDelay, MaxOutage, Ring} \subseteq Nat \ {0}
  /\ BarLength % Second = 0
  /\ Recent \in 1 .. Ring
  /\ MaxOutage + MaxDelay <= Window - BarLength
  /\ LastTime \in Nat /\ LastPoll \in [Pollers -> 0 .. LastTime]

Bars == 0 .. LastTime \div BarLength
Open(b) == b * BarLength
Close(b) == Open(b) + BarLength
Missing == -1

VARIABLES
  now,     \* the clock
  call,    \* call[p]: where poller p is with its worker, when its request was
           \* sent and answered, and the ts of its record
  bars,    \* ohlcv_bars: bars[b] is the version of b, or Missing
  rows,    \* rows[k]: the table of series k
  stored,  \* when the stream's last stored poll was sent, at first when it began
  ring,    \* the sorted set of Redis: members are bars with a version
  queue,   \* the bars of the stream's record not yet pushed
  newest   \* history: the newest bar pushed, or Missing

tableVars == <<bars, rows, stored>>
cacheVars == <<ring, queue, newest>>
vars == <<now, call, tableVars, cacheVars>>

NoCall == [pc |-> "idle", asked |-> 0, answered |-> 0, ts |-> 0]

Goto(p, from, to) == call[p].pc = from /\ call' = [call EXCEPT ![p].pc = to]
Return(p) == call' = [call EXCEPT ![p] = NoCall]

-----------------------------------------------------------------------------
(* Time and the sources                                                    *)

Tick ==
  /\ now < LastTime
  /\ \A p \in Pollers : call[p] # NoCall => now - call[p].asked < MaxDelay
  /\ now - stored < MaxOutage
  /\ now' = now + 1
  /\ UNCHANGED <<call, tableVars, cacheVars>>

\* fetch_latest sends its request; a stream waits for its answer.
Ask(p) ==
  /\ call[p] = NoCall /\ now <= LastPoll[p]
  /\ call' = [call EXCEPT ![p] = [NoCall EXCEPT !.pc = "asked", !.asked = now]]
  /\ UNCHANGED <<now, tableVars, cacheVars>>

Answer(p) ==
  /\ call[p].pc = "asked"
  /\ call' = [call EXCEPT ![p] = [@ EXCEPT !.pc = "answered", !.answered = now]]
  /\ UNCHANGED <<now, tableVars, cacheVars>>

InSeconds(time) == (time \div Second) * Second

\* Mutant of StampOf: a reading is stamped when it is asked for.
StampAsked(k) == InSeconds(call[k].asked)

\* int(time.time())
StampOf(k) == InSeconds(now)

\* The record of a reading; that of bars needs no time of its own.
Receive(k) ==
  /\ call[k].pc = "answered"
  /\ call' = [call EXCEPT ![k] = [@ EXCEPT !.pc = "received", !.ts = StampOf(k)]]
  /\ UNCHANGED <<now, tableVars, cacheVars>>

\* The request fails or times out, or the store does: there is no row.
Lose(p) ==
  /\ call[p].pc \in {"asked", "received"} \/ (p \in BarPollers /\ call[p].pc = "answered")
  /\ Return(p)
  /\ UNCHANGED <<now, tableVars, cacheVars>>

\* The answer holds no bars, not the asset, or a book without a side.
Discard(p) ==
  /\ call[p].pc = "answered"
  /\ Return(p)
  /\ UNCHANGED <<now, tableVars, cacheVars>>

-----------------------------------------------------------------------------
(* TimescaleStore.write_source_record: one transaction a record.  Two that *)
(* write the same bars write them in the same order, so one waits for the  *)
(* other.                                                                  *)

Batch(p) == {b \in Bars : call[p].asked - Window <= Open(b) /\ Open(b) <= call[p].asked}
Version(b, time) == Min({time, Close(b)})

\* Mutant of Upsert: ON CONFLICT DO NOTHING.
InsertOnly(old, new) == IF old = Missing THEN new ELSE old

Upsert(old, new) == new

WriteBars(p) ==
  /\ call[p].pc = "answered"
  /\ bars' = [b \in Bars |->
       IF b \in Batch(p) THEN Upsert(bars[b], Version(b, call[p].answered)) ELSE bars[b]]
  /\ \/ /\ p = Stream
        /\ Goto(p, "answered", "pushing")
        /\ stored' = call[p].asked /\ queue' = Batch(p)
     \/ /\ p # Stream
        /\ Return(p)
        /\ UNCHANGED <<stored, queue>>
  /\ UNCHANGED <<now, rows, ring, newest>>

WriteRow(k, kept) ==
  /\ call[k].pc = "received"
  /\ rows' = [rows EXCEPT ![k] = kept \cup {[ts |-> call[k].ts, observed |-> call[k].answered]}]
  /\ Return(k)
  /\ UNCHANGED <<now, bars, stored, cacheVars>>

\* funding_history and oi_history have one row a second.
WriteUpserted(k) == k \in {"funding", "oi"} /\ WriteRow(k, {r \in rows[k] : r.ts # call[k].ts})

WriteAppended(k) == k \in {"orderbook", "onchain"} /\ WriteRow(k, rows[k])

-----------------------------------------------------------------------------
(* RedisCache                                                              *)

\* push_bar, its first command; the bars of a record go in their order.
Push ==
  /\ queue # {}
  /\ Goto(Stream, "pushing", "trimming")
  /\ LET b == Min(queue) IN
     /\ ring' = ring \cup {[bar |-> b, version |-> Version(b, call[Stream].answered)]}
     /\ queue' = queue \ {b}
     /\ newest' = Max({newest, b})
  /\ UNCHANGED <<now, tableVars>>

\* Members of one bar are in the order of their bytes, which says nothing of
\* their versions.
Lowest(members) == {m \in members : \A n \in members : m.bar <= n.bar}

\* Mutant of Trimmed: the trim keeps the first members.
TrimmedAbove == {ring \ {m} : m \in {x \in ring : \A n \in ring : x.bar >= n.bar}}

Trimmed == {ring \ {m} : m \in Lowest(ring)}

\* push_bar, its second command.
Trim ==
  /\ Goto(Stream, "trimming", "pushing")
  /\ \/ Cardinality(ring) > Ring /\ ring' \in Trimmed
     \/ Cardinality(ring) <= Ring /\ UNCHANGED ring
  /\ UNCHANGED <<now, tableVars, queue, newest>>

\* The stream sleeps, and asks again.
Pushed ==
  /\ call[Stream].pc = "pushing" /\ queue = {}
  /\ Return(Stream)
  /\ UNCHANGED <<now, tableVars, cacheVars>>

-----------------------------------------------------------------------------
(* Reads at a time end, in whole seconds                                   *)

\* get_ohlcv: the last bars that had opened, in the version they have now.
Ohlcv(end) ==
  LET opened == {b \in Bars : bars[b] # Missing /\ Open(b) <= end} IN
  {b \in opened : Cardinality({c \in opened : c > b}) < Limit}

\* get_latest_funding, get_latest_oi and get_latest_orderbook; rows of one
\* second are in no order.
Latest(k, end) ==
  LET before == {r \in rows[k] : r.ts <= end} IN {r \in before : \A q \in before : q.ts <= r.ts}

\* get_latest_onchain looks a day back.
LatestOnchain(end) == {r \in Latest("onchain", end) : end - Day <= r.ts}

Read(k, end) == IF k = "onchain" THEN LatestOnchain(end) ELSE Latest(k, end)

\* get_recent_bars: the bars among the last members.
RecentBars(members) ==
  {m.bar : m \in {x \in members : Cardinality({y \in members : y.bar > x.bar}) < Recent}}

-----------------------------------------------------------------------------

Init ==
  /\ now = 0
  /\ call = [p \in Pollers |-> NoCall]
  /\ bars = [b \in Bars |-> Missing]
  /\ rows = [k \in Series |-> {}]
  /\ stored = 0
  /\ ring = {} /\ queue = {} /\ newest = Missing

Poll(p) == Ask(p) \/ Answer(p) \/ Lose(p) \/ Discard(p)

Next ==
  \/ Tick
  \/ \E p \in Pollers : Poll(p)
  \/ \E p \in BarPollers : WriteBars(p)
  \/ \E k \in Series : Receive(k) \/ WriteUpserted(k) \/ WriteAppended(k)
  \/ Push \/ Trim \/ Pushed

Spec == Init /\ [][Next]_vars

-----------------------------------------------------------------------------
(* Properties                                                              *)

\* How far a read as of a time looks beyond it, whether it is made then or
\* years later.  A reading is stamped after the feed answered, but with the
\* second that has begun (hyperliquid.py:116, 156, 205): it was observed less
\* than a second later than the time asked for, however late it was stored.
\* Of the bars (timescale.py:183-196) only the one that was open at that time
\* holds what came later, its later prices up to its close.
LookaheadIsShort ==
  \A end \in {t \in 0 .. now : t % Second = 0} :
    /\ \A k \in Series : \A r \in Read(k, end) : r.observed < end + Second
    /\ \A b \in Ohlcv(end) :
         bars[b] <= end \/ (Open(b) <= end /\ end < Close(b) /\ bars[b] <= Close(b))

\* What no poll will ask for again is as it will stay: no bar is missing and
\* each has its final prices, although every one of them was stored while it
\* was open, polls fail, and another poller may store an older answer over a
\* newer one (hyperliquid.py:49, timescale.py:65).
HistoryIsFinal ==
  \A b \in Bars : Open(b) + Window + MaxDelay < now => bars[b] = Close(b)

\* Who reads the last bars from Redis finds the newest one and none left out
\* before it, at any moment of a push, though the stream pushes its whole
\* window each time, a bar has a member for each version that was pushed, and
\* a trim may be yet to come (redis_cache.py:45-55).
RecentBarsAreLast ==
  LET found == RecentBars(ring) IN
  found # {} => found = Min(found) .. newest
=============================================================================
