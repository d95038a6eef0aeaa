----------------------------- MODULE DataWriter -----------------------------
(***************************************************************************)
(* The buffered writer of the ingestion workers: DataWriter of             *)
(* packages/canonical-data/echo_data/writer.py, for the table ohlcv.       *)
(*                                                                         *)
(* Three coroutines flush: a write that fills the buffer, the loop, and    *)
(* stop.  What runs between two awaits is one action: the lock is only     *)
(* held between awaits, so taking a batch is one step, and its transaction *)
(* ends in another, Commit or Fail.  A row is a bar and a version: the     *)
(* feed sends a bar again after a reconnect or a correction.  The caller   *)
(* is the one of the docstring, 33-35: its writes one after the other,     *)
(* then stop.  No caller in the repository publishes the rows.             *)
(***************************************************************************)
EXTENDS Integers, SequencesExt

CONSTANTS
  Bars,       \* candles: the primary keys (asset, interval, source, ts)
  MaxBuffer,  \* max_buffer
  MaxRows     \* bound: how often the feed sends one bar

ASSUME WriterConstants == MaxBuffer \in Nat \ {0} /\ MaxRows \in Nat \ {0}

VARIABLES
  buf,        \* _buf
  batch,      \* batch[f]: the rows flusher f is inserting
  loop,       \* _flush_loop
  stop,       \* stop()
  table,      \* table[b]: the version of bar b in ohlcv, 0 without a row
  arrived,    \* arrived[b]: versions of bar b that write was given
  raced       \* a batch was taken while another was in flight

writerVars == <<buf, batch, loop, stop, table, arrived, raced>>

Flushers == {"write", "loop", "stop"}
Row == Bars \X (1 .. MaxRows)

InFlight == {f \in Flushers : batch[f] # <<>>}
Memory == ToSet(buf) \cup UNION {ToSet(batch[f]) : f \in Flushers}

WriterInit ==
  /\ buf = <<>>
  /\ batch = [f \in Flushers |-> <<>>]
  /\ loop = "waiting"
  /\ stop = "no"
  /\ table = [b \in Bars |-> 0]
  /\ arrived = [b \in Bars |-> 0]
  /\ raced = FALSE

-----------------------------------------------------------------------------

\* _flush up to its await: the whole buffer becomes the batch of f.  An empty
\* buffer leaves f without a batch.
Take(f, rows) ==
  /\ batch' = [batch EXCEPT ![f] = rows]
  /\ buf' = <<>>
  /\ raced' = (raced \/ (rows # <<>> /\ InFlight # {}))

\* write: append, and flush when the buffer is full.
Write(b) ==
  LET rows == Append(buf, <<b, arrived[b] + 1>>) IN
  /\ stop = "no" /\ batch["write"] = <<>>
  /\ arrived[b] < MaxRows
  /\ arrived' = [arrived EXCEPT ![b] = @ + 1]
  /\ \/ Len(rows) < MaxBuffer /\ buf' = rows /\ UNCHANGED <<batch, raced>>
     \/ Len(rows) >= MaxBuffer /\ Take("write", rows)
  /\ UNCHANGED <<loop, stop, table>>

\* _flush_loop: the timeout expires, or stop is set.
LoopWakes ==
  /\ loop = "waiting" /\ batch["loop"] = <<>>
  /\ Take("loop", buf)
  /\ loop' = IF buf = <<>> /\ stop # "no" THEN "ended" ELSE "waiting"
  /\ UNCHANGED <<stop, table, arrived>>

\* stop: set the event and wait for the loop.
Stop ==
  /\ stop = "no" /\ batch["write"] = <<>>
  /\ stop' = "joining"
  /\ UNCHANGED <<buf, batch, loop, table, arrived, raced>>

\* Mutant of FinalFlush: stop trusts the last flush of the loop.
NoFinalFlush ==
  /\ stop = "joining" /\ loop = "ended"
  /\ stop' = "stopped"
  /\ UNCHANGED <<buf, batch, loop, table, arrived, raced>>

\* stop: the final flush.
FinalFlush ==
  /\ stop = "joining" /\ loop = "ended"
  /\ Take("stop", buf)
  /\ stop' = IF buf = <<>> THEN "stopped" ELSE "flushing"
  /\ UNCHANGED <<loop, table, arrived>>

\* The flusher returns; stop does so whether its flush failed or not.
Return(f, outcome) ==
  /\ batch' = [batch EXCEPT ![f] = <<>>]
  /\ loop' = IF f = "loop" /\ stop # "no" THEN "ended" ELSE loop
  /\ stop' = IF f = "stop" THEN outcome ELSE stop

\* The statements of a batch in their order, each ON CONFLICT DO UPDATE.
Upsert(rows) == FoldLeft(LAMBDA t, row : [t EXCEPT ![row[1]] = row[2]], table, rows)

Commit(f) ==
  /\ batch[f] # <<>>
  /\ table' = Upsert(batch[f])
  /\ Return(f, "stopped")
  /\ UNCHANGED <<buf, arrived, raced>>

\* Mutants of Newest: the batch goes back whole; its oldest rows are kept.
AllRows(rows) == rows
Oldest(rows) == SubSeq(rows, 1, IF Len(rows) > MaxBuffer THEN MaxBuffer ELSE Len(rows))

\* batch[-max_buffer:]
Newest(rows) ==
  SubSeq(rows, IF Len(rows) > MaxBuffer THEN Len(rows) - MaxBuffer + 1 ELSE 1, Len(rows))

\* Mutant of Rebuffer: behind the rows that came since.
RebufferBehind(rows) == buf \o Newest(rows)

\* The buffer after a failed batch: retried before the rows that came since.
Rebuffer(rows) == Newest(rows) \o buf

\* The transaction raises, and may have committed when only its answer was
\* lost: the newest rows of the batch are buffered again.
Fail(f) ==
  /\ batch[f] # <<>>
  /\ table' \in {table, Upsert(batch[f])}
  /\ buf' = Rebuffer(batch[f])
  /\ Return(f, "failed")
  /\ UNCHANGED <<arrived, raced>>

\* A process dies, or exits after stop, and another is started.
Restart ==
  /\ buf' = <<>>
  /\ batch' = [f \in Flushers |-> <<>>]
  /\ loop' = "waiting"
  /\ stop' = "no"
  /\ UNCHANGED <<table, arrived, raced>>

WriterNext ==
  \/ LoopWakes \/ Stop \/ FinalFlush \/ Restart
  \/ \E f \in Flushers : Commit(f) \/ Fail(f)

-----------------------------------------------------------------------------
(* Properties                                                              *)

\* A row that write was given stays in memory until its transaction has
\* stored it or a newer version of its bar, except when a full buffer of rows
\* is kept instead (the cap of 132-133) or the process ends.
NothingVanishes ==
  [][\/ Restart
     \/ Len(buf') >= MaxBuffer /\ \E f \in InFlight : Len(batch[f]) > MaxBuffer
     \/ \A b \in Bars, v \in 1 .. MaxRows :
          <<b, v>> \in Memory \/ v \in arrived[b] + 1 .. arrived'[b] =>
            <<b, v>> \in Memory' \/ table'[b] >= v \/ (raced' /\ table'[b] # 0)]_writerVars

\* The table never takes a bar back to an older version, through failures and
\* retries: a failed batch goes in front of the rows that came since.  It
\* takes two flushes in flight at once to break this.
NeverBack == [][~raced' => \A b \in Bars : table'[b] >= table[b]]_writerVars

\* A worker in front of a database that is down buffers at most twice
\* max_buffer, and holds one more flush of as many rows and one, whatever
\* flushes overlap: "capped to avoid memory bomb" (131).
MemoryBounded ==
  /\ Len(buf) <= 2 * MaxBuffer
  /\ Len(buf) + Len(batch["write"]) + Len(batch["loop"]) + Len(batch["stop"])
       <= 3 * MaxBuffer + 1

\* When stop returns, nothing is left behind, even when the loop's last
\* flush failed, unless the final flush failed too (61-67).
StopStoresAll == stop = "stopped" => Memory = {}
=============================================================================
