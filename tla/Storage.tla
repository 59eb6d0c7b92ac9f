------------------------------- MODULE Storage -------------------------------
(***************************************************************************)
(* The storage component (src/storage.rs).                                 *)
(*                                                                         *)
(* Monitoring clients and the task manager send records into a bounded     *)
(* mpsc channel.  One background task receives them, makes sure that the   *)
(* table (or CSV file) of the record exists, puts the record into a shared *)
(* buffer keyed by table, and flushes the buffer: when enough records have *)
(* come in, when a timer ticks, and when it is told to shut down.  A flush *)
(* drains every table, spawns one write task per table, and waits for them.*)
(* close(), run by the main task, signals the background task, sleeps two  *)
(* seconds, flushes the same buffer itself, closes the writers or the pool *)
(* and returns; the process then exits whether or not the background task  *)
(* has finished.                                                           *)
(***************************************************************************)
EXTENDS Naturals, Sequences, FiniteSets, Functions

CONSTANTS
  Records,      \* the records the program sends during one run
  Tables,       \* the table (file) names get_name can produce
  TableOf,      \* the table of each record: free or paid, and its date
  NoRecord,     \* no record is in the hands of the background task
  ChannelCap,   \* capacity of the record channel (10000 in the code)
  BatchSize,    \* batch_size (1000 in the code)
  MaxBuffer,    \* max_buffer (10000 in the code)
  Backend,      \* the configured StorageType
  BackendFails  \* whether the backend may fail an operation in this run

ASSUME StorageAssumption ==
  /\ IsFiniteSet(Records)
  /\ NoRecord \notin Records
  /\ TableOf \in [Records -> Tables]
  /\ ChannelCap \in Nat \ {0}
  /\ BatchSize \in Nat \ {0}
  /\ MaxBuffer \in Nat
  /\ BatchSize <= MaxBuffer
  /\ Backend \in {"csv", "mysql", "postgres", "sqlite"}
  /\ BackendFails \in BOOLEAN

\* Who runs flush_all: the background task, and close().
Flushers == {"bg", "closer"}

\* A flush spawns at most one write task per table.
Jobs == Flushers \X Tables

VARIABLES
  channel,    \* records sent and not yet received
  held,       \* the record in precheck_storage, or NoRecord
  created,    \* created_tables: tables known to exist
  buffer,     \* buffer: the records waiting for a flush, by table
  count,      \* current_buffer
  bg,         \* where the background task is
  phase,      \* how far each flusher is in flush_all
  left,       \* the tables a flusher has not drained yet
  batch,      \* the records a write task owns
  jobState,   \* how far each write task is
  closer,     \* how far close() is
  shutdown,   \* a message waits in the shutdown channel
  store,      \* rows in the tables (files), in the order they were written
  residue,    \* rows a csv::Writer kept in memory after a failed flush
  accepted,   \* history: the records the channel took, in order
  refused,    \* history: the records whose send failed
  dropped     \* history: the records thrown away without being stored

taskVars   == <<channel, held, created, buffer, count, bg>>
flushVars  == <<phase, left, batch, jobState>>
storeVars  == <<store, residue>>
ghostVars  == <<accepted, refused, dropped>>
closeVars  == <<closer, shutdown>>
vars == <<taskVars, flushVars, storeVars, ghostVars, closeVars>>

-----------------------------------------------------------------------------
(* Where a record can be. *)

InHand   == {held} \ {NoRecord}
Buffered == UNION {Range(buffer[t]) : t \in Tables}
Batched  == UNION {Range(batch[j]) : j \in Jobs}
Retained == UNION {Range(residue[t]) : t \in Tables}
Stored   == UNION {Range(store[t]) : t \in Tables}

\* The records the process still has in memory and means to write.
InMemory == Range(channel) \cup InHand \cup Buffered \cup Batched

-----------------------------------------------------------------------------
Init ==
  /\ channel  = <<>>
  /\ held     = NoRecord
  /\ created  = {}
  /\ buffer   = [t \in Tables |-> <<>>]
  /\ count    = 0
  /\ bg       = "select"
  /\ phase    = [p \in Flushers |-> "idle"]
  /\ left     = [p \in Flushers |-> {}]
  /\ batch    = [j \in Jobs |-> <<>>]
  /\ jobState = [j \in Jobs |-> "none"]
  /\ closer   = "open"
  /\ shutdown = FALSE
  /\ store    = [t \in Tables |-> <<>>]
  /\ residue  = [t \in Tables |-> <<>>]
  /\ accepted = <<>>
  /\ refused  = {}
  /\ dropped  = {}

Running == closer # "exit"

\* pool.close() has marked the database pool closed: no connection is handed out.
PoolClosed == closer = "pool"

-----------------------------------------------------------------------------
(* Senders: clients and the task manager hold clones of the Sender. *)

\* Mutant: the channel is unbounded.
RoomAlways == TRUE

Room == Len(channel) < ChannelCap

\* tx.send(record).await completes: there is room in the channel.
Send(r) ==
  /\ Running /\ bg # "exited"
  /\ r \notin Range(accepted) \cup refused
  /\ Room
  /\ channel'  = Append(channel, r)
  /\ accepted' = Append(accepted, r)
  /\ UNCHANGED <<held, created, buffer, count, bg, flushVars, storeVars,
                 refused, dropped, closeVars>>

\* The background task is gone and the receiver with it: send returns Err.
SendFails(r) ==
  /\ Running /\ bg = "exited"
  /\ r \notin Range(accepted) \cup refused
  /\ refused' = refused \cup {r}
  /\ UNCHANGED <<taskVars, flushVars, storeVars, accepted, dropped, closeVars>>

-----------------------------------------------------------------------------
(* flush_all, run by flusher p. *)

BeginFlush(p) ==
  /\ phase' = [phase EXCEPT ![p] = "drain"]
  /\ left'  = [left EXCEPT ![p] = Tables]

\* Mutant: the entry is cloned, not drained.
Cloned(t) == buffer

Drained(t) == [buffer EXCEPT ![t] = <<>>]

\* iter_mut visits one entry under its shard lock and drains it.
Drain(p, t) ==
  /\ Running
  /\ phase[p] = "drain" /\ t \in left[p]
  /\ batch'  = [batch EXCEPT ![<<p, t>>] = buffer[t]]
  /\ buffer' = Drained(t)
  /\ left'   = [left EXCEPT ![p] = @ \ {t}]
  /\ UNCHANGED <<channel, held, created, count, bg, phase, jobState,
                 storeVars, ghostVars, closeVars>>

\* One write task per table with records; empty tables are skipped.
SpawnWrites(p) ==
  /\ Running
  /\ phase[p] = "drain" /\ left[p] = {}
  /\ phase' = [phase EXCEPT ![p] = "await"]
  /\ jobState' = [j \in Jobs |-> IF j[1] = p /\ batch[j] # <<>>
                                 THEN "spawned" ELSE jobState[j]]
  /\ UNCHANGED <<taskVars, left, batch, storeVars, ghostVars, closeVars>>

\* Mutant: the flush returns with the first write task that ends.
FlushReturnedEarly(p) ==
  /\ phase[p] = "await"
  /\ \/ \A t \in Tables : jobState[<<p, t>>] = "none"
     \/ \E t \in Tables : jobState[<<p, t>>] \in {"ok", "err"}

\* Mutant: the flush waits until every write has succeeded.
FlushReturnedOk(p) ==
  /\ phase[p] = "await"
  /\ \A t \in Tables : jobState[<<p, t>>] \in {"none", "ok"}

\* Every write task of p has been joined.
FlushReturned(p) ==
  /\ phase[p] = "await"
  /\ \A t \in Tables : jobState[<<p, t>>] \in {"none", "ok", "err"}

\* flush_all returns Err when any write task failed.
FlushFailed(p) == \E t \in Tables : jobState[<<p, t>>] = "err"

\* The finished write tasks of p are forgotten.
JobsJoined(p) == [j \in Jobs |-> IF j[1] = p THEN "none" ELSE jobState[j]]

-----------------------------------------------------------------------------
(* Write tasks: flush_internal. *)

\* A write to a database first acquires a connection (and a transaction).
Acquire(j) ==
  /\ Running /\ Backend # "csv"
  /\ jobState[j] = "spawned" /\ ~PoolClosed
  /\ jobState' = [jobState EXCEPT ![j] = "writing"]
  /\ UNCHANGED <<taskVars, phase, left, batch, storeVars, ghostVars, closeVars>>

\* The write task is ready to put its batch into the table; the CSV writer
\* needs no connection and runs without a suspension point.
Writing(j) == jobState[j] = IF Backend = "csv" THEN "spawned" ELSE "writing"

\* The task succeeds: all rows are in the table, with those a CSV writer kept.
WriteOk(j) ==
  LET t == j[2] IN
  /\ Running /\ Writing(j)
  /\ store'    = [store EXCEPT ![t] = @ \o residue[t] \o batch[j]]
  /\ residue'  = [residue EXCEPT ![t] = <<>>]
  /\ batch'    = [batch EXCEPT ![j] = <<>>]
  /\ jobState' = [jobState EXCEPT ![j] = "ok"]
  /\ UNCHANGED <<taskVars, phase, left, ghostVars, closeVars>>

\* Mutant: a failed write counts its whole batch as lost.
LostWhole(j, recs, kept) == Range(batch[j])

Lost(j, recs, kept) == Range(batch[j]) \ (Range(recs) \cup Range(kept))

\* The rows recs reach the table, the rows kept stay in its CSV writer, and
\* what remains of the batch is lost with the task.
FailWith(j, recs, kept) ==
  LET t == j[2] IN
  /\ store'    = [store EXCEPT ![t] = @ \o recs]
  /\ residue'  = [residue EXCEPT ![t] = kept]
  /\ dropped'  = dropped \cup Lost(j, recs, kept)
  /\ batch'    = [batch EXCEPT ![j] = <<>>]
  /\ jobState' = [jobState EXCEPT ![j] = "err"]
  /\ UNCHANGED <<taskVars, phase, left, accepted, refused, closeVars>>

\* No connection: the pool is closed, or acquire (or begin) fails.
AcquireFails(j) ==
  /\ Running /\ Backend # "csv"
  /\ jobState[j] = "spawned"
  /\ BackendFails \/ PoolClosed
  /\ FailWith(j, <<>>, <<>>)

\* Mutant: a failed batch goes back into the buffer to be tried again.
StatementRetries(j) ==
  LET t == j[2] IN
  /\ Running /\ BackendFails
  /\ Backend # "csv" /\ Writing(j)
  /\ \E recs \in {<<>>, batch[j]} : store' = [store EXCEPT ![t] = @ \o recs]
  /\ buffer'   = [buffer EXCEPT ![t] = batch[j] \o @]
  /\ batch'    = [batch EXCEPT ![j] = <<>>]
  /\ jobState' = [jobState EXCEPT ![j] = "err"]
  /\ UNCHANGED <<channel, held, created, count, bg, phase, left, residue,
                 ghostVars, closeVars>>

\* A batch is one INSERT statement or one transaction: it fails as a whole,
\* or an error is reported after the commit (a lost reply, a failed begin).
StatementFails(j) ==
  /\ Running /\ BackendFails
  /\ Backend # "csv" /\ Writing(j)
  /\ \E recs \in {<<>>, batch[j]} : FailWith(j, recs, <<>>)

\* The CSV writer took n rows of the batch behind those it had kept; some of
\* its buffer reached the file; the flush that failed leaves its rows buffered.
CsvWriteFails(j) ==
  /\ Running /\ BackendFails
  /\ Backend = "csv" /\ Writing(j)
  /\ \E n \in 0 .. Len(batch[j]) :
       LET rows == residue[j[2]] \o SubSeq(batch[j], 1, n)
       IN  \E w \in 0 .. Len(rows) : \E k \in 0 .. w :
             FailWith(j, SubSeq(rows, 1, w), SubSeq(rows, k + 1, Len(rows)))

-----------------------------------------------------------------------------
(* The background task. *)

\* Mutant: the newest record is taken first.
ReceiveNewest ==
  /\ Running /\ bg = "select"
  /\ channel # <<>>
  /\ held'    = channel[Len(channel)]
  /\ channel' = SubSeq(channel, 1, Len(channel) - 1)
  /\ bg'      = "precheck"
  /\ UNCHANGED <<created, buffer, count, flushVars, storeVars, ghostVars, closeVars>>

\* Some(record) = receiver.recv(): precheck_storage starts.
Receive ==
  /\ Running /\ bg = "select"
  /\ channel # <<>>
  /\ held'    = Head(channel)
  /\ channel' = Tail(channel)
  /\ bg'      = "precheck"
  /\ UNCHANGED <<created, buffer, count, flushVars, storeVars, ghostVars, closeVars>>

\* Mutant: off by one in the batch limit.
FullLate(n) == n > BatchSize

Full(n) == n >= BatchSize

\* The table is cached or has just been created (a CREATE TABLE that has its
\* connection finishes even after the pool is closed): the record is buffered,
\* and a full batch is flushed at once.
Admit ==
  LET t == TableOf[held] IN
  /\ Running /\ bg = "precheck"
  /\ created' = created \cup {t}
  /\ buffer'  = [buffer EXCEPT ![t] = Append(@, held)]
  /\ count'   = count + 1
  /\ held'    = NoRecord
  /\ \/ /\ Full(count + 1)
        /\ bg' = "batch"
        /\ BeginFlush("bg")
     \/ /\ ~Full(count + 1)
        /\ bg' = "select"
        /\ UNCHANGED <<phase, left>>
  /\ UNCHANGED <<channel, batch, jobState, storeVars, ghostVars, closeVars>>

\* create_table, or the creation of the CSV file, fails.
CreateFails == BackendFails \/ PoolClosed

\* precheck_storage returns an error: it has to create the table and cannot.
PrecheckFails == TableOf[held] \notin created /\ CreateFails

\* The table cannot be created: the record is thrown away.
Reject ==
  /\ Running /\ bg = "precheck"
  /\ PrecheckFails
  /\ dropped' = dropped \cup {held}
  /\ held'    = NoRecord
  /\ bg'      = "select"
  /\ UNCHANGED <<channel, created, buffer, count, flushVars, storeVars,
                 accepted, refused, closeVars>>

\* Mutant: the timer only flushes a full batch.
DueWhenFull == count >= BatchSize

Due == count > 0

\* flush_timer.tick() with something counted; a tick at zero does nothing.
TimerTick ==
  /\ Running /\ bg = "select"
  /\ Due
  /\ bg' = "timer"
  /\ BeginFlush("bg")
  /\ UNCHANGED <<channel, held, created, buffer, count, batch, jobState,
                 storeVars, ghostVars, closeVars>>

\* Some(_) = shutdown_rx.recv(): the last flush of the background task.
ShutdownSignal ==
  /\ Running /\ bg = "select"
  /\ shutdown
  /\ shutdown' = FALSE
  /\ bg' = "shutdown"
  /\ BeginFlush("bg")
  /\ UNCHANGED <<channel, held, created, buffer, count, batch, jobState,
                 storeVars, ghostVars, closer>>

\* A batch or timer flush returns.  Success resets the counter, failure leaves
\* it; past max_buffer the memory guard flushes again.
LoopFlushReturn ==
  /\ Running /\ bg \in {"batch", "timer"}
  /\ FlushReturned("bg")
  /\ jobState' = JobsJoined("bg")
  /\ count' = IF FlushFailed("bg") THEN count ELSE 0
  /\ IF count' > MaxBuffer
     THEN bg' = "forced" /\ BeginFlush("bg")
     ELSE /\ bg' = "select"
          /\ phase' = [phase EXCEPT !["bg"] = "idle"]
          /\ UNCHANGED left
  /\ UNCHANGED <<channel, held, created, buffer, batch, storeVars, ghostVars, closeVars>>

\* The memory guard's flush returns; on failure it clears the buffer.
ForcedFlushReturn ==
  /\ Running /\ bg = "forced"
  /\ FlushReturned("bg")
  /\ jobState' = JobsJoined("bg")
  /\ phase' = [phase EXCEPT !["bg"] = "idle"]
  /\ count' = 0
  /\ bg' = "select"
  /\ IF FlushFailed("bg")
     THEN /\ buffer'  = [t \in Tables |-> <<>>]
          /\ dropped' = dropped \cup Buffered
     ELSE UNCHANGED <<buffer, dropped>>
  /\ UNCHANGED <<channel, held, created, left, batch, storeVars,
                 accepted, refused, closeVars>>

\* The last flush returns: the task ends and drops the receiver.
ShutdownFlushReturn ==
  /\ Running /\ bg = "shutdown"
  /\ FlushReturned("bg")
  /\ jobState' = JobsJoined("bg")
  /\ phase' = [phase EXCEPT !["bg"] = "idle"]
  /\ bg' = "exited"
  /\ channel' = <<>>
  /\ dropped' = dropped \cup Range(channel)
  /\ UNCHANGED <<held, created, buffer, count, left, batch, storeVars,
                 accepted, refused, closeVars>>

-----------------------------------------------------------------------------
(* close(), run once by the main task. *)

\* shutdown_tx.send(()).await, and the two-second sleep begins.
CloseSignal ==
  /\ closer = "open"
  /\ shutdown' = TRUE
  /\ closer' = "sleep"
  /\ UNCHANGED <<taskVars, flushVars, storeVars, ghostVars>>

\* The sleep ends; nothing says how far the background task has come.
CloseFlush ==
  /\ closer = "sleep"
  /\ closer' = "flush"
  /\ BeginFlush("closer")
  /\ UNCHANGED <<taskVars, batch, jobState, storeVars, ghostVars, shutdown>>

\* The manual flush returns; its error is only logged.
CloseFlushReturn ==
  /\ closer = "flush"
  /\ FlushReturned("closer")
  /\ jobState' = JobsJoined("closer")
  /\ phase' = [phase EXCEPT !["closer"] = "idle"]
  /\ IF Backend = "csv"
     THEN /\ closer' = "sync"
          /\ left' = [left EXCEPT !["closer"] = Tables]
     ELSE /\ closer' = "pool"
          /\ UNCHANGED left
  /\ UNCHANGED <<taskVars, batch, storeVars, ghostVars, shutdown>>

\* The CSV writer of table t is flushed: all its rows or, on an error, some.
SyncWriter(t) ==
  /\ closer = "sync" /\ t \in left["closer"]
  /\ left' = [left EXCEPT !["closer"] = @ \ {t}]
  /\ \E w \in 0 .. Len(residue[t]) :
       /\ w < Len(residue[t]) => BackendFails
       /\ store' = [store EXCEPT ![t] = @ \o SubSeq(residue[t], 1, w)]
       /\ residue' = [residue EXCEPT ![t] = IF w = Len(@) THEN <<>> ELSE @]
  /\ UNCHANGED <<taskVars, phase, batch, jobState, ghostVars, closeVars>>

\* close() returns once the writers are flushed, or once the pool has every
\* connection back.  main returns and the runtime cancels all other tasks;
\* the CSV writers flush once more as they are dropped.
Exit ==
  /\ \/ closer = "sync" /\ left["closer"] = {}
     \/ closer = "pool" /\ \A j \in Jobs : jobState[j] # "writing"
  /\ closer' = "exit"
  /\ \E w \in [Tables -> 0 .. Cardinality(Records)] :
       /\ \A t \in Tables : /\ w[t] <= Len(residue[t])
                            /\ w[t] < Len(residue[t]) => BackendFails
       /\ store' = [t \in Tables |-> store[t] \o SubSeq(residue[t], 1, w[t])]
  /\ dropped' = dropped \cup ((InMemory \cup Retained)
                  \ UNION {Range(store'[t]) : t \in Tables})
  /\ residue'  = [t \in Tables |-> <<>>]
  /\ channel'  = <<>>
  /\ held'     = NoRecord
  /\ buffer'   = [t \in Tables |-> <<>>]
  /\ batch'    = [j \in Jobs |-> <<>>]
  /\ jobState' = [j \in Jobs |-> "none"]
  /\ phase'    = [p \in Flushers |-> "idle"]
  /\ left'     = [p \in Flushers |-> {}]
  /\ bg'       = "exited"
  /\ UNCHANGED <<created, count, shutdown, accepted, refused>>

\* The process is gone.
Stopped == closer = "exit" /\ UNCHANGED vars

-----------------------------------------------------------------------------
Senders == \E r \in Records : Send(r) \/ SendFails(r)

FlushStep(p) == SpawnWrites(p) \/ \E t \in Tables : Drain(p, t)

WriteStep(j) ==
  \/ Acquire(j)
  \/ WriteOk(j)
  \/ AcquireFails(j)
  \/ StatementFails(j)
  \/ CsvWriteFails(j)

BackgroundTask ==
  \/ Receive \/ Admit \/ Reject
  \/ TimerTick \/ ShutdownSignal
  \/ LoopFlushReturn \/ ForcedFlushReturn \/ ShutdownFlushReturn
  \/ FlushStep("bg")

Close ==
  \/ CloseFlush \/ CloseFlushReturn \/ Exit
  \/ \E t \in Tables : SyncWriter(t)
  \/ FlushStep("closer")

Next ==
  \/ Senders
  \/ BackgroundTask
  \/ \E j \in Jobs : WriteStep(j)
  \/ CloseSignal
  \/ Close
  \/ Stopped

\* The runtime keeps polling every task that is ready, and the backend answers
\* every call, with success or an error.  Sends and the stop command are the
\* environment's: nothing obliges them to happen.
Fairness ==
  /\ WF_vars(BackgroundTask)
  /\ WF_vars(Close)
  /\ \A j \in Jobs : WF_vars(WriteStep(j))

Spec == Init /\ [][Next]_vars /\ Fairness

-----------------------------------------------------------------------------
(* Properties. *)

\* Every variable keeps its type.
TypeOK ==
  /\ channel \in Seq(Records) /\ Len(channel) <= ChannelCap
  /\ held \in Records \cup {NoRecord}
  /\ created \in SUBSET Tables
  /\ buffer \in [Tables -> Seq(Records)]
  /\ count \in Nat
  /\ bg \in {"select", "precheck", "batch", "timer", "forced", "shutdown", "exited"}
  /\ phase \in [Flushers -> {"idle", "drain", "await"}]
  /\ left \in [Flushers -> SUBSET Tables]
  /\ batch \in [Jobs -> Seq(Records)]
  /\ jobState \in [Jobs -> {"none", "spawned", "writing", "ok", "err"}]
  /\ closer \in {"open", "sleep", "flush", "sync", "pool", "exit"}
  /\ shutdown \in BOOLEAN
  /\ store \in [Tables -> Seq(Records)]
  /\ residue \in [Tables -> Seq(Records)]
  /\ accepted \in Seq(Records)
  /\ refused \in SUBSET Records
  /\ dropped \in SUBSET Records

\* A record the channel took is always accounted for: it is in memory, in a table, or
\* was thrown away on one of the known paths (a precheck or a write that failed, the
\* memory guard; without a word, with the channel and with the process).  The drains
\* of the two flushers, which race on one buffer, never make a record vanish.
Conservation == Range(accepted) = InMemory \cup Retained \cup Stored \cup dropped

\* A record is never in two of the places it is moved between (channel, hand,
\* buffer of a table, batch of a write task): the two flushers never drain the
\* same record, so they never write it twice.
OnePlace ==
  /\ Range(channel) \cap (InHand \cup Buffered \cup Batched) = {}
  /\ InHand \cap (Buffered \cup Batched) = {}
  /\ Buffered \cap Batched = {}
  /\ \A j, k \in Jobs : j # k => Range(batch[j]) \cap Range(batch[k]) = {}

\* In a database no record is ever stored twice, although a batch whose write
\* reported an error may in fact have been committed.  (A CSV file can get a row
\* twice: its writer keeps the rows of a flush that failed half way.)
StoredOnce ==
  Backend # "csv" =>
    \A t \in Tables : \A i, k \in DOMAIN store[t] :
      i # k => store[t][i] # store[t][k]

\* A record that was thrown away is never written after all.
DroppedIsFinal == dropped \cap (InMemory \cup Retained \cup Stored) = {}

\* The buffer never outgrows one batch: every flush of the background task takes
\* everything, even when the write then fails.  So the chunking of flush_sqlite
\* sees a single chunk and an INSERT stays below the bind limit of the database.
BufferBounded == Cardinality(Buffered) <= BatchSize

\* Whatever waits in the buffer between two events is counted, so that the next
\* timer tick flushes it; resetting the counter never forgets a record.
WaitingIsCounted == bg = "select" /\ Buffered # {} => count > 0

\* The memory guard never finds anything to flush or to clear: what pushed the
\* counter over max_buffer is failed flushes, whose records are gone already.
GuardFindsNothing == bg = "forced" => Buffered = {}

\* The background task has a record in hand while it prechecks it, and only then.
HandInv == held # NoRecord <=> bg = "precheck"

\* The course of a flush.  A flusher is in flush_all exactly while its caller
\* waits for it; what the background task has drained stays empty until its flush
\* returns; a batch is there from the drain of its table to the end of its write.
FlushInv ==
  /\ phase["bg"] # "idle" <=> bg \in {"batch", "timer", "forced", "shutdown"}
  /\ phase["closer"] # "idle" <=> closer = "flush"
  /\ \A p \in Flushers : phase[p] = "await" => left[p] = {}
  /\ phase["bg"] # "idle" => \A t \in Tables \ left["bg"] : buffer[t] = <<>>
  /\ \A p \in Flushers : \A t \in Tables :
       phase[p] = "idle" \/ (phase[p] = "drain" /\ t \in left[p]) => batch[<<p, t>>] = <<>>
  /\ \A p \in Flushers : \A t \in Tables :
       jobState[<<p, t>>] \in {"spawned", "writing"}
         <=> phase[p] = "await" /\ batch[<<p, t>>] # <<>>

\* Only the CSV writers keep rows of their own.
KeptInv == Backend # "csv" => \A t \in Tables : residue[t] = <<>>

\* The counter and the buffer: no record waits uncounted, and when the background
\* task may take another record the buffer is empty or below one batch.
CountInv ==
  /\ Cardinality(Buffered) <= count
  /\ bg \in {"select", "precheck"} => Buffered = {} \/ count < BatchSize
  /\ BufferBounded /\ GuardFindsNothing

\* The inductive invariant behind the theorems of StorageProofs: a flush and the
\* counter stay in step with the buffer, whoever drains it and however writes end.
FlushesInStep == TypeOK /\ HandInv /\ FlushInv /\ CountInv /\ KeptInv /\ Conservation

\* Position of a record in the order in which the channel took it.
Sent(r) == CHOOSE i \in DOMAIN accepted : accepted[i] = r

\* Until close() starts its own flush, each table receives records in the order
\* in which they were sent: batches of one table are never reordered, failed
\* and retried flushes included (a row a CSV writer repeats counts once).
StoredInOrder ==
  closer \in {"open", "sleep"} =>
    \A t \in Tables : \A k \in DOMAIN store[t] :
      (\A i \in 1 .. k - 1 : store[t][i] # store[t][k])
        => \A i \in 1 .. k - 1 : Sent(store[t][i]) < Sent(store[t][k])

\* "Flushing the remaining data": when the background task has done so and ended, while
\* close() still waits for it, and no operation has failed, nothing it had accepted has
\* been thrown away.  It flushes the buffer once and leaves the channel as it is.
NothingLeftBehind ==
  closer = "sleep" /\ bg = "exited" /\ ~BackendFails => dropped = {}

\* The storage component implements RecordSink: what is in memory, or kept by a
\* CSV writer, is pending; dropping is losing.
Sink == INSTANCE RecordSink WITH
  pending <- InMemory \cup Retained,
  stored  <- store,
  lost    <- dropped,
  closing <- closer # "open",
  Lossy   <- BackendFails,
  Repeats <- Backend = "csv"

ImplementsSink == Sink!Spec

\* To its senders the storage is a RecordChannel: it takes no more records than fit,
\* and its receiver does not go before close() is called, whatever fails.
Channel == INSTANCE RecordChannel WITH
  Cap     <- ChannelCap,
  waiting <- Len(channel),
  open    <- bg # "exited",
  closing <- closer # "open"

ImplementsChannel == Channel!Spec

\* Every record the channel took leaves memory: it is stored, or thrown away on
\* one of those paths.
Settles == \A r \in Records : r \in Range(accepted) ~> r \notin InMemory

\* A full channel always drains again, so senders (the command loop and the
\* status checker among them) are not blocked for ever, even when writes fail.
BackpressureReleases == Len(channel) = ChannelCap ~> Len(channel) < ChannelCap

\* close() returns and the process exits, in whatever state it found the
\* background task.
CloseTerminates == closer # "open" ~> closer = "exit"

=============================================================================
