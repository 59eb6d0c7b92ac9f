# A formal model of danmaku-rs

danmaku-rs records the danmaku (chat, gifts, status changes) of a list of
Bilibili streamers. This directory holds TLA+ models of its moving parts, TLC
configurations that check them on small instances, and TLAPS proofs that hold
for every value of the constants. Paths are relative to `src/`, the repository
root; `storage.rs` and the like are files of `src/src/`.

## The system

One process on the tokio runtime. `main.rs` signs in, starts the storage, the
task manager and the control port, then waits in a `select!` loop.

```
 control port --commands--> main loop --reload--> task manager --spawn/abort--> clients (one per streamer)
 Ctrl-C ------------------>    |                     |   ^                          |
                               |                status checker --live status-->     |
                               |                     |                              |
                               |              LIVE_STATUS records            message records
                               |                     v                              v
                               +--stop--> storage <---------- bounded channel ------+
 login (before all this) <--> auth file          storage --> database or CSV files
```

| component | state it keeps | operations | what is hard | what makes it correct |
|---|---|---|---|---|
| Storage, `storage.rs` | bounded channel, shared buffer by table, counter, table cache, CSV writers or pool | send, receive and precheck, batch/timer/forced/shutdown flush, `close()` | two flushers on one buffer; a write task per table; failures that lose, keep or half write a batch; `close()` does not wait for the background task; CSV files that outlive the process | no record vanishes, is stored twice or out of order; the buffer stays below a batch; a full channel drains; shutdown ends; a fault costs a file at most one flushed row |
| Task manager and main loop, `task_manager.rs`, `main.rs` | registry of tasks, command queue, cancel token, signal handler | start and reload, status check, stop, Ctrl-C | reloads, status checks, ending tasks and stop interleave; answers arrive late; a task dies by itself; the main loop itself waits for room in the channel | one reachable task per listed streamer; every task aborted before the storage closes; commands and signals are obeyed |
| Client, `client.rs` | host list, refresh count, shared live status, open stream | dial, refresh, receive frames, gate, select, send records, heartbeat | back-pressure in the middle of a message; status changes; broken frames; retries in retries; an abort in the middle of a poll | records match messages, messages match frames; dialling ends; a closed connection is left |
| Login, `login.rs` | session in memory and in the auth file | load, validate, QR login, refresh, confirm, save | crash between revoking the old session and saving the new; lost answers; torn file | cookies and token belong together; never use what was revoked; one login per fault |
| Packet format, `packet.rs` | none | build and parse packets | four lengths from the network; packets inside a compressed packet | no slice leaves its buffer; every packet read advances; what is read was sent |
| Control port, `main.rs` | none | lines to commands | several connections | commands reach the one queue |
| Configuration, `config.rs` | the configuration | read once | none | not modelled: constants of the modules |
| Logger, scripts, release workflow | none | none that other parts depend on | none | not modelled |

## Modules

| module | models |
|---|---|
| `RecordSink` | what the storage promises its users: a record taken is pending until it is a row of its table or lost; losing is final, tables only grow, nothing is lost unless the backend fails or the program shuts down |
| `RecordChannel` | what the storage promises its senders: a bounded queue whose one receiver stays until `close()` is called |
| `Storage` | the tasks of `storage.rs` in one run of the program; implements both |
| `CsvFile` | one CSV file of `storage.rs` over many runs |
| `Monitor` | `task_manager.rs` and the loop, shutdown and end of `main.rs` |
| `App` | `Monitor` joined to a `RecordChannel`: whoever sends a record waits for room |
| `Client` | `Client::run` of `client.rs`, one task |
| `Login` | `login.rs` and its calls at the start of `run` |
| `Packet` | `packet.rs` |
| `MCStorage`, `MCMonitor`, `MCClient`, `MCLogin`, `MCPacket` | finite instances, symmetry (`CsvFile` and `App` need none) |
| `StorageProofs`, `PlaceProofs`, `CsvFileProofs`, `MonitorProofs`, `ClientProofs`, `LoginProofs`, `PacketProofs` | theorems about these modules and their proofs; `PlaceProofs` extends `StorageProofs`, `MonitorProofs` is about `App` too |
| `FlattenTheorems` | induction over the numbers and what `FlattenSeq` does, for the proofs about `Client` and `Packet` |

`PROJECT.json` maps each definition to the lines it translates. Definitions with
the comment "Mutant:" are deliberately wrong versions of the definition they
stand beside; no specification uses them. Each property is broken by one of
them, so none of the checks is empty.

### Storage

The unit of interleaving is what runs between two awaits, or under one lock of
the buffer's map. The background task is in `select`, in the precheck of a
record, or in one of four flushes (`bg`); `close()` has stages of its own
(`closer`). `flush_all` is written once, for a flusher that is either of them:
`Drain` takes the records of one table, since `iter_mut` locks one shard at a
time; `SpawnWrites` starts a write task for each table with records; the flush
returns when they are joined. `Acquire` separates waiting for a connection from
writing, because a pool that closes refuses the former and waits for the latter.

A write succeeds, or fails with everything the backend can leave behind: for a
database nothing or the whole batch (a commit whose answer is lost, or the
`begin` after the commit in `flush_sqlite`); for CSV any prefix in the file and a
rest in the writer, which later writes again what it kept. `Exit` is the return
of `main`: other tasks are cancelled wherever they are, and CSV writers flush
once more when dropped. `accepted`, `refused` and `dropped` are history.

Rows, SQL text and dates are abstracted: a record has a table. Records are
distinct.

### CsvFile

`Storage` sees a CSV row as one thing and ends with the process. `CsvFile` looks
at one file more closely and for longer. The file survives; that it exists
(`created_tables`) and what its `csv::Writer` has in memory are forgotten at each
restart. A row, and the header, are two pieces, the second of which ends the
line, so that a failed write or a kill can cut a line in two, and a row whose
last fields the writer never took stays open in its buffer. `File::create` and
the header are two steps, with a kill or a failed write possible between them.
`csv::Writer` is a library: its buffer, its retry on drop and its refusal of a
row of another length are modelled from how the code calls it. Rows are numbered
in the order of their batches.

### Monitor

`main` follows `start_and_update` await by await: load the list and clean up
(one step, nothing is awaited), ask for the rooms, go through them, start a
client, pause two seconds. The checker runs beside it with a list of streamers
and an answer that may both be out of date when used; it applies the answer for
one streamer, sends a LIVE_STATUS record, and goes on to the next. Tasks have
names, so that a second task for the same streamer can be told from the first.
The list may become anything between two reloads; one that cannot be read counts
as empty, as `unwrap_or_default` makes it.

`ctrl_c()` is modelled as tokio has it: the future of a round must have been
polled (`Listen`) for a signal to reach it; the first poll installs a handler for
the life of the process, so that a later signal without a future is swallowed;
before that a signal kills. `due` and `pressed` are history.

`AbortHandle::abort` only marks a task (`aborted`): the poll it may be in on
another thread goes on to its next suspension point (`PollEnds`), and neither
`cleanup_stale_tasks` nor `shutdown()` waits for it. A task is gone at once only
with its runtime (`DropAll`). Commands that arrive behind the main loop, which
nobody reads, and what a LIVE_STATUS record holds are left out.

### App

The main loop sends records while it handles a reload, so a full channel stops
it, and with it the handling of commands; the storage that empties the channel is
closed by the main loop alone. `App` joins the steps of `Monitor` with those of a
`RecordChannel`: `MainSends` and `ClientSends` need room, `CheckerSends` room or a
receiver that is gone; `LateSends` are those of an aborted task in its last poll,
which may still put a record behind the last flush, or be refused; `MainCloses` is the signal of `close()`, after which the
receiver may go, and `MainEnds` its return. That the storage is a
`RecordChannel` is checked (`storage_db`) and proved (`StorageIsChannel`); that a
full one drains and that `close()` returns is checked in `storage_db` and taken
from there as fairness.

### Client

One task, dialled from its host list, serving one connection at a time. Both
loops of `connect_and_handle` interleave at their awaits: the heartbeat may fall
between any two sends. A frame is a sequence of messages, or garbled; a message
says whether it is JSON with a cmd, and which strings `get_json_value` finds in
it. Which records it yields follows from the configuration as in the code: an
entry for the cmd and the category, with a selection condition that is absent,
compares a path with a string, or has no `=`; and from the gate with
`OfflineMsg`, the live status and `LiveInterval`. `log`, `taken` and `sent` are
history. The status is written by a checker that exists only from two minutes
on; the channel is emptied by a storage that may never do so. An abort marks
the task and may find it in a poll, which goes on: it may handle frames and send
while nothing makes it wait, and is gone, with its stream, at `LastPollEnds`. Only
in such a poll can the channel be closed (`ReceiverGone`; proved of the whole
program as `OnlyTheAbortedAreRefused`): `send().await?` then fails and the rest of
the frame is dropped with the record (`SendFails`). The fields copied into a
record, and `last_active`, which is only logged, are left out.

The heartbeat loop stands in the same `select!` as the frames. Nothing in the
handler gates it, so that it goes on is all fairness and no property is spent on
it; what the model keeps of it is where it may fall.

The gate of a message and the start of the checker both compare with 120 seconds
(client.rs:386, task_manager.rs:136), so at two minutes messages are filtered and
the checker runs. The two places agree, which `FrozenStatusIgnored` needs and the
run checks at both sides of the boundary; `config.toml` says otherwise (finding 4).

### Login

The process runs step by step between HTTP requests, may crash in any of them,
and is started again; only the file survives. An answer may be lost after its
request took effect. `save` truncates, then writes; a torn file cannot be parsed,
which the code treats as no file. The platform is external: it issues a session
beside the old one on refresh and drops the session whose token is confirmed.
Session names are reused once neither the process nor the file holds them.

### Packet

Works on bytes, with the offsets and the byte order of the code. A message is
built with `BuildPacket` (plain, or around a compressed body), then arrives
whole, cut short, or with any two bytes changed; what was compressed may be
damaged instead, since the decompressor checks none of our lengths. Slices that
would panic lead to the state `panicked`. `parse_multi_packet` is a loop of
`NextPacket` steps over what is left. The decompressors are libraries: a
compressed body is one byte naming its version, and `content` is what it stands
for; a damaged one is refused.

## Runs

| run | instance | shows |
|---|---|---|
| `storage_db` | 3 records, 2 tables, channel 2, batch 2, guard 2, failing writes, a shutdown at any time | nothing vanishes, is stored twice or reordered; the guard finds nothing; `Storage` implements `RecordSink` and `RecordChannel`; records settle, a full channel drains, `close()` returns |
| `storage_csv` | 3 records, CSV, failing writes | `RecordSink` again, with rows that a writer repeats |
| `storage_shutdown` | violation | the flush at shutdown leaves queued records to be thrown away, although no write fails and `close()` still waits |
| `csv_file` | 5 rows, batches of 1 or 2, 3 faults, any number of restarts | a fault costs at most one flushed row, restarts cost none; the header stands once, on top |
| `monitor_safety` | 2 streamers whose status changes, 4 task names, 1 queued command, aborted tasks in a last poll | registry and tasks agree through reloads, failures, stop and Ctrl-C |
| `app` | 1 streamer whose status changes, 2 task names, 2 queued commands, channel 1 | a settled status reaches the client; a queued stop ends the program; a reload ends; all with senders that wait for room |
| `monitor_revive` | violation | a task that ended is never restarted by a reload |
| `monitor_ctrl_c` | violation | a Ctrl-C can be lost |
| `client` | 3 frames of 2 or 3 messages and a garbled one, 2 hosts, channel 1, 2 frames in all, 1 and 2 minutes, an abort with its last poll | records and messages match, the shared status is used only where it is kept, dialling ends, a closed connection is left |
| `client_two_minutes` | violation | at two minutes messages are filtered that `config.toml` promises to record |
| `login` | 3 sessions, 4 faults | pairs match, no revoked session in use, one scan per fault, the program comes up |
| `packet` | bodies of 0, 1 and 2 bytes, at most 2 inner packets, cut at any byte or any two bytes changed to 0, 15, 17 or 127 | no panic, progress, nothing made up |

**Why the bounds are enough.** Storage: with batch 2 and channel 2, three records
fill a batch and leave one in the hand or the channel while both flushers run; a
second table is needed for a flush that fails in part; the guard (2) is passed
only when a flush has failed and left its count behind, as with the code's 1000
and 10000: at three, with nothing in the buffer. What longer runs add (a second
batch that overtakes the first) is left to the theorems, which cover any number
of records. The free records are interchangeable; the run uses that only where
nothing temporal but the refinement is checked. CsvFile: three faults are a failed creation, a line cut in two
and a kill while the writer still holds rows; five rows leave two batches after
them. Monitor: two streamers let one reload remove one and add the other while
the checker holds an answer for both; with four names two new tasks
may start while two aborted ones are in their last polls, and names return. One
queued command at a time suffices, since runs of them are unbounded; `app` has two,
a stop behind a reload. The theorems cover any number of streamers. App: checks, reloads and
sends treat each streamer by itself, so one is enough for liveness; with channel
1 each record blocks the next sender. `MaxCommands` bounds the unread queue, not
the number of commands: runs of reloads are unbounded. Client: two frames put a
broken one before or after a good one, on one connection or on two; channel 1
blocks between the two records of one message; one and two minutes are the two
sides of the comparison with 120 seconds, and all beyond behave as two. Login: a session in use, its
successor, and one more; four faults reach a crash after a lost answer after a
failed save. Packet: two inner packets put a bad length in the first, behind it,
or in the last; two bytes reach both a total and a header length, or a length
and the version; the changed values are below, above and at neither end of the
header size, or beyond the message (127 rather than 255 keeps a 32-bit number
within TLC's integers). The theorems about `Storage`, `CsvFile`, `Client`, `Login`
and `Packet` hold for any value of these bounds. The packet run ends when the message is read, so
deadlock is not checked there.

**Fairness.** Weak fairness of each task: tokio polls what is ready, and every
request or write ends, with an answer or an error. Every poll ends too
(`PollEnds`, `LastPollEnds`): tokio's cooperative budget bounds the sends and
reads of one. (connect and HTTP have no
time-out in the code; with a peer that is silent for ever none of the progress
properties could hold. This is listed as a hazard.) `App` has strong fairness of
the two senders in `Monitor`'s tasks, because the channel's semaphore serves its
waiters in turn, and takes from `storage_db` that a full channel is emptied and
that `close()` returns. It also has strong fairness of a status check being
answered in full: if the platform refused all checks, a stale status would stay.
Clients' records, commands, signals, hang-ups and aborts are under no obligation,
and in `Client` the storage is not either. In `Login` the user scans a shown code
and the program is started again. `MaxFaults` makes faults end, which `ComesUp`
needs.

## Findings

1. *Shutdown loses records* (`storage_shutdown`). The background task takes the
   shutdown signal before the records that wait in the channel, flushes its buffer
   once and breaks out of its loop (storage.rs:186), which drops the receiver and
   what it holds, while `close()` sleeps for two seconds more. The log says
   "flushing the remaining data".
2. *A task that ended blocks its streamer* (`monitor_revive`). When
   `client.run()` gives up, its entry stays registered, and `contains_key` keeps
   every reload from starting it again. `config.toml` says only
   `status=false` is not monitored.
3. *A Ctrl-C can be lost* (`monitor_ctrl_c`). `ctrl_c()` is created per round of
   `select!`; a signal during a reload meets the installed handler and no future.
4. *Two minutes are not "no check"* (`client_two_minutes`). `config.toml:16` and
   `:21` say that `LiveInterval <= 2` means no status checks and everything
   recorded; the code compares `< 120` seconds, so at 2 it checks and filters.

`HeaderOnce` states what holds of CSV headers, and its exception: a creation that
is cut off leaves a file without a header that no later start repairs.

## What is proved

The theorems hold for every value of the constants that meets the named
assumptions (`StorageAssumption`, `CsvFileAssumption`, `MonitorAssumption`,
`AppAssumption`, `ClientAssumption`, `LoginAssumption`, `PacketAssumption`), which
TLC evaluates in the runs. All are safety theorems, by an invariant that is
inductive and implies the property. Every invariant that a passing run checks,
and both refinements of `Storage`, are proved; they stay in the runs, where a
deliberate error in the model breaks each of them.

**StorageProofs.** `FlushesInStep` is the inductive invariant. `BufferBounded`
and `Conservation` are not inductive alone: that a flush empties the buffer
depends on which tables have been drained while the other flusher drains too
(`FlushInv`), that nobody puts a record into it meanwhile on where the background
task is (`HandInv`), that only CSV writers keep rows on `KeptInv`, and that a
failed flush leaves a counter that is only too high on `CountInv`. From it follow
`TypeOK`, `Conservation`, `BufferBounded`, `GuardFindsNothing` (with
`batch_size <= max_buffer`, the branch that clears the buffer never finds a
record in it) and `WaitingIsCounted`, which no run checks because the proof covers
all cases. `StorageIsChannel` is the refinement of `RecordChannel`: each step is
a step of the channel or changes nothing the senders see; the one fact needed
beside the types is that the background task ends only after `close()` has sent
its signal (`CloseInv`).

**PlaceProofs.** Where each record is. `PlaceInv` adds to `OnePlace` and
`StoredOnce` that no channel, buffer or batch holds a record twice (`OnceInv`),
that what is kept by table is of that table (`FiledInv`), and that a record on its
way has not been written and a lost one is nowhere else (`ApartInv`). Every way a
write can end is put into one form first (`WriteEffect`: some first rows of what
the writer kept and of the batch are appended, some last rows are kept, what
neither has is lost), so that each property meets one case and not four.
`OrderInv` gives `StoredInOrder`: what is written of a table was sent before what
is underway to it, that before what is in hand, and that before what the channel
holds; rows that a CSV writer repeats are compared where they first stand.
`StorageIsSink` is the refinement of `RecordSink`, from `FlushesInStep`,
`PlaceInv` and `CloseInv`: each step takes a record in, moves pending records to
their table or to the lost ones, or changes nothing the users see.

**CsvFileProofs.** `IInv` says that nothing is written before the file and its
header are (`CreationInv`), that pieces of the header come first and make one line
(`HeaderFirst`, `Headed`), and keeps an account (`CountInv`): a line left open, in
the file or in the writer, is a debt, since the next row will join it and become
unreadable with no fault of its own. Rows lost plus debt are never more than the
faults. `OneRowPerFault` alone is not inductive, as the row is lost later than the
fault happens. `HeaderOnce` follows from the other parts.

**MonitorProofs.** `IInv` joins types, `TasksReachable`, `OnlyListed`,
`AbortedAtShutdown`, `ReloadInv` and `OwnTask`. The heart is `TasksReachable`: a
client is awaited only for a streamer without a registered task, and stays so until
the task is registered, because only the main loop writes the registry
(`ReloadInv`). `OneTaskPerStreamer` is a consequence: two tasks of one streamer
would be registered under one name. `AbortedAtShutdown` says that aborting what is
registered aborts what runs, and that nothing registered is aborted earlier; for
the second half `OwnTask` is needed: a registered task belongs to its streamer
alone, so that a reload which aborts the tasks of some streamers spares those of
the others (`LeaveSpares`). `ReloadRegisters` follows because at the end of a reload
no room is left.

The same module holds the theorems about `App`. `TasksImplementMonitor`: sends that
wait for room add no behaviour to the tasks, so every invariant above holds of the
composition. `ChannelUsedAsPromised`: whatever the tasks and the shutdown do to
the channel is a step of `RecordChannel`, the module that `Storage` implements.
`OnlyTheAbortedAreRefused` needs both: the receiver is there as long as no shutdown
has aborted the tasks (`ShutdownFinal` with `AbortedAtShutdown`), so no task that
runs is ever refused, and `Client` meets a closed channel only in a last poll. That
an aborted task may be refused, or may put a record behind the last flush, no
theorem excludes: the code allows it.

**ClientProofs.** `TypeInv` is `TypeOK` with `DialInv` (a host that is dialled is
one of the list, and a new list is asked for only after fewer than three), from
which `FrozenStatusIgnored` follows by the two places that read `LiveInterval`.
`RecordsMatchMessages` and `MessagesMatchFrames` are themselves inductive under
`TypeInv`, while the channel is open (it never opens again, `OpenBefore`; a send that
fails in a last poll drops the rest): each compares what was done and what is in hand with a `FlattenSeq` over
all that was logged or taken, and a step appends one part to that sequence
(`FlattenAppend`) or moves the first element of what is in hand (`FlattenTail`).

**LoginProofs.** `PlaceInv` says where sessions may be at each step, `CountInv`
gives one scan to each fault and one to a usable session. `PairsMatch`,
`NeverOwnRevoked`, `FileStaysUsable` and `OneScanPerFault` follow.

**PacketProofs.** `NeverPanics` and `EveryPacketAdvances` follow from types and the
checks of `parse_header` (`AcceptedPacket`), for any bytes. `BuiltPacketIsRead` is
the round trip of one packet: numbers survive `PutU16`/`U16` and `PutU32`/`U32`
below 2^16 and 2^32, each field is found at its offset, and the body comes out,
whatever follows it. `FramesArrive` is the round trip of a message. It assumes
`Fits`: sixteen bytes and the body are less than 2^32, which is what `as u32` in
`build_packet` needs to lose nothing, and which the bodies of the run meet. Its
invariant is `Sending` (the message is what was built, or a prefix of it) with
`ReadInv`: in the loop, the content is the first bytes of the packets laid end to
end, and the offset stands at the end of one of them, before which all have been
read. A cut makes the last packet shorter than it claims, which `parse_header`
refuses (`CutRejected`).

**FlattenTheorems.** The library's induction theorems take an operator, which the
provers cannot instantiate. `SetInduction` says the same of a set: one that holds
zero and with each number the next holds them all; it is proved from the
well-foundedness of the subset ordering on finite sets. With it, `FlattenSeq` is
characterised by a function that joins the parts one by one (`Collects`), and the
facts about it hold for sequences of every length.

**Only model-checked.** Liveness and everything under fairness, which the prover
does not do: `Settles`, `BackpressureReleases`, `CloseTerminates`,
`StatusCatchesUp`, `StopObeyed`, `ReloadEnds`, `DiallingEnds`,
`ClosedConnectionLeft`, `ComesUp`. The refinements are proved without fairness, as
`RecordSink` and `RecordChannel` state none.

## Not modelled

JSON syntax and the copying of fields; SQL text and row contents; a failure of
power, which also loses what the operating system had taken; the sockets of the
control port; configuration parsing; logging; the clock; HTTP, TLS and WebSocket
handshakes beyond success and failure, and the time-outs they lack; the
decompressors and the CSV library beyond what the code relies on; the QR image
and RSA; control scripts and the release workflow. `PROJECT.json` names each
component with its reason, and lists under "hazards" those no property covers.

## Plan

1. The safety half of the liveness properties, as theorems: a measure of dialling
   (refreshes left, hosts left) that every step before a connection lowers, behind
   `DiallingEnds`; and that after the signal of `close()` what is left to write never
   grows, behind `CloseTerminates`.
2. What a message changed on the way may still yield: packets whose fields and
   bodies all come from bytes that arrived.
3. Action properties of `Login`: which steps may make a session in use unusable.
