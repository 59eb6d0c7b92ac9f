-------------------------------- MODULE Client --------------------------------
(***************************************************************************)
(* One monitoring task: Client::run (src/client.rs).                       *)
(*                                                                         *)
(* The task dials the hosts of its list in turn.  A connection is served   *)
(* until its stream ends: each frame is taken apart into messages, each    *)
(* message passes or fails a gate that depends on the live status, and     *)
(* yields up to two records, which are sent to the storage's bounded       *)
(* channel one by one.  A heartbeat loop runs beside this in the same      *)
(* task.  When all hosts of a list have failed, a new list is asked for,   *)
(* three times in the life of the task.                                    *)
(*                                                                         *)
(* The live status is written by the status checker (module Monitor), the  *)
(* channel is emptied by the storage (module Storage).  An abort only      *)
(* marks the task, which goes on to the next suspension point; meanwhile   *)
(* the storage may close and its receiver go.                              *)
(***************************************************************************)
EXTENDS Naturals, Sequences, SequencesExt, FiniteSets

CONSTANTS
  Messages,    \* what a frame may hold
  Config,      \* message_configs: cmd and category to a condition, where configured
  OfflineMsg,  \* offline_msg: the cmds recorded at any time; empty for all
  Frames,      \* the frames the server may send; garbled ones included
  Garbled,     \* a frame parse_packet rejects
  Minutes,     \* LiveInterval: its possible values
  MaxHosts,    \* longest host list
  ChannelCap,  \* capacity of the channel
  MaxFrames    \* bound of the frames sent to this task

Category == {"free", "paid"}

\* The _select key of a configuration: absent, a path and the string expected there,
\* or a text without "=".
Condition == [kind : {"absent", "equals", "malformed"}, path : STRING, expected : STRING]

\* kind "json": opcode 5, JSON with a cmd; "other": another opcode; "bad": opcode 5,
\* no JSON or no cmd.  strings: the strings get_json_value finds, by path; paths to
\* values that are no strings are left out.
ASSUME ClientAssumption ==
  /\ \A msg \in Messages :
       /\ msg.kind \in {"json", "other", "bad"}
       /\ msg.kind = "json" => msg.cmd \in STRING
       /\ \A path \in DOMAIN msg.strings : msg.strings[path] \in STRING
  /\ DOMAIN Config \subseteq STRING \X Category
  /\ \A key \in DOMAIN Config : Config[key] \in Condition
  /\ Garbled \notin Seq(Messages)
  /\ Frames \subseteq Seq(Messages) \cup {Garbled}
  /\ Minutes \subseteq Nat
  /\ MaxHosts \in Nat /\ MaxFrames \in Nat
  /\ ChannelCap \in Nat \ {0}

VARIABLES
  minutes,    \* LiveInterval
  aborted,    \* abort() has been called for the task
  open,       \* the receiver of the channel exists
  live,       \* status: the streamer is believed to be live
  phase,      \* where the task is
  hosts,      \* length of the current host list
  host,       \* the host that is dialled
  attempts,   \* refresh_attempts
  inbox,      \* frames the open stream still holds
  hungUp,     \* the open stream ends behind them
  frame,      \* messages of the frame in hand that are still to be handled
  out,        \* categories of the message in hand that are still to be sent
  silent,     \* thirty seconds have passed since the last heartbeat
  queued,     \* records in the channel
  sent,       \* history: the records sent, as <<place in log, category>>
  log,        \* history: the messages handled, each with the status it met
  taken       \* history: the frames taken from streams

outsideVars == <<minutes, aborted, open>>
dialVars   == <<phase, hosts, host, attempts>>
streamVars == <<inbox, hungUp>>
workVars   == <<frame, out>>
pastVars   == <<log, taken>>
vars == <<outsideVars, live, dialVars, streamVars, workVars, silent, queued, sent, pastVars>>

Init ==
  /\ minutes \in Minutes
  /\ aborted = FALSE
  /\ open = TRUE
  /\ live \in BOOLEAN
  /\ phase = "dial"
  /\ hosts \in 0 .. MaxHosts
  /\ host = 1
  /\ attempts = 0
  /\ inbox = <<>> /\ hungUp = FALSE
  /\ frame = <<>> /\ out = <<>>
  /\ silent = FALSE
  /\ queued = 0
  /\ sent = <<>> /\ log = <<>> /\ taken = <<>>

-----------------------------------------------------------------------------
(* Dialling: run, try_all_hosts, connect_and_handle up to the connection. *)

\* WsConnection::new and send_auth succeed.
Connect ==
  /\ phase = "dial" /\ host <= hosts
  /\ phase' = "open"
  /\ inbox' = <<>> /\ hungUp' = FALSE /\ silent' = FALSE
  /\ UNCHANGED <<outsideVars, live, hosts, host, attempts, workVars, queued, sent, pastVars>>

\* One of their steps fails: a pause, then the next host.
ConnectFails ==
  /\ phase = "dial" /\ host <= hosts
  /\ phase' = "pause"
  /\ UNCHANGED <<outsideVars, live, hosts, host, attempts, streamVars, workVars, silent, queued,
                 sent, pastVars>>

HostPauseEnds ==
  /\ phase = "pause"
  /\ phase' = "dial" /\ host' = host + 1
  /\ UNCHANGED <<outsideVars, live, hosts, attempts, streamVars, workVars, silent, queued, sent,
                 pastVars>>

\* All hosts have failed: a new list is asked for, or the task ends.
HostsExhausted ==
  /\ phase = "dial" /\ host > hosts
  /\ phase' = IF attempts < 3 THEN "refresh" ELSE "ended"
  /\ UNCHANGED <<outsideVars, live, hosts, host, attempts, streamVars, workVars, silent, queued,
                 sent, pastVars>>

\* Mutant: the refreshes are not counted.
Uncounted == attempts

Counted == attempts + 1

Refreshed ==
  /\ phase = "refresh"
  /\ hosts' \in 0 .. MaxHosts
  /\ attempts' = Counted
  /\ phase' = "backoff"
  /\ UNCHANGED <<outsideVars, live, host, streamVars, workVars, silent, queued, sent, pastVars>>

RefreshFails ==
  /\ phase = "refresh"
  /\ phase' = "ended"
  /\ UNCHANGED <<outsideVars, live, hosts, host, attempts, streamVars, workVars, silent, queued,
                 sent, pastVars>>

BackoffEnds ==
  /\ phase = "backoff"
  /\ phase' = "dial" /\ host' = 1
  /\ UNCHANGED <<outsideVars, live, hosts, attempts, streamVars, workVars, silent, queued, sent,
                 pastVars>>

-----------------------------------------------------------------------------
(* Serving a connection: the message handler. *)

\* Mutant: records are sent by a task of their own while the handler goes on.
SendsAwaitedNot == TRUE

\* handle_json_message has returned: every send of the message has been awaited.
SendsAwaited == out = <<>>

\* Mutant: the reader does not wait until the frame in hand is done.
FrameDoneEarly == SendsAwaited

\* process_binary_data has returned.
FrameDone == frame = <<>> /\ SendsAwaited

\* The next frame of the stream is parsed; a garbled one is dropped whole.
TakeFrame ==
  /\ phase = "open" /\ FrameDone /\ inbox # <<>>
  /\ inbox' = Tail(inbox)
  /\ frame' = IF Head(inbox) = Garbled THEN <<>> ELSE Head(inbox)
  /\ taken' = Append(taken, Head(inbox))
  /\ UNCHANGED <<outsideVars, live, dialVars, hungUp, out, silent, queued, sent, log>>

ShouldProcess(cmd) == minutes * 60 < 120 \/ OfflineMsg = {} \/ cmd \in OfflineMsg

\* The gate of handle_json_message, for the live status it has loaded.
Passes(msg, status) == ShouldProcess(msg.cmd) \/ status

\* check_condition: only a string at the path can be the one expected.
CheckCondition(msg, condition) ==
  /\ condition.kind = "equals"
  /\ condition.path \in DOMAIN msg.strings
  /\ msg.strings[condition.path] = condition.expected

\* should_process_message
Selected(msg, condition) == condition.kind = "absent" \/ CheckCondition(msg, condition)

\* The record of one category: none when it is not configured or not selected.
Wanted(msg, c) ==
  IF <<msg.cmd, c>> \in DOMAIN Config /\ Selected(msg, Config[<<msg.cmd, c>>])
  THEN <<c>> ELSE <<>>

\* The records of a message, in the order they are sent.
Categories(msg) == Wanted(msg, "free") \o Wanted(msg, "paid")

HandleMessage ==
  /\ phase = "open" /\ SendsAwaited /\ frame # <<>> /\ Head(frame).kind = "json"
  /\ frame' = Tail(frame)
  /\ log' = Append(log, [msg |-> Head(frame), live |-> live])
  /\ out' = IF Passes(Head(frame), live) THEN Categories(Head(frame)) ELSE <<>>
  /\ UNCHANGED <<outsideVars, live, dialVars, streamVars, silent, queued, sent, taken>>

SkipOther ==
  /\ phase = "open" /\ SendsAwaited /\ frame # <<>> /\ Head(frame).kind = "other"
  /\ frame' = Tail(frame)
  /\ UNCHANGED <<outsideVars, live, dialVars, streamVars, out, silent, queued, sent, pastVars>>

\* An error leaves process_binary_data: the rest of the frame is dropped.
FrameFails ==
  /\ phase = "open" /\ SendsAwaited /\ frame # <<>> /\ Head(frame).kind = "bad"
  /\ frame' = <<>>
  /\ UNCHANGED <<outsideVars, live, dialVars, streamVars, out, silent, queued, sent, pastVars>>

\* Mutant: the channel is unbounded.
RoomAlways == TRUE

Room == queued < ChannelCap

\* sender.send(record).await, when the channel has room.
SendRecord ==
  /\ phase = "open" /\ out # <<>> /\ open /\ Room
  /\ queued' = queued + 1
  /\ sent' = Append(sent, <<Len(log), Head(out)>>)
  /\ out' = Tail(out)
  /\ UNCHANGED <<outsideVars, live, dialVars, streamVars, frame, silent, pastVars>>

\* Without a receiver it returns an error, which leaves process_binary_data: the
\* rest of the frame is dropped.
SendFails ==
  /\ phase = "open" /\ out # <<>> /\ ~open
  /\ out' = <<>> /\ frame' = <<>>
  /\ UNCHANGED <<outsideVars, live, dialVars, streamVars, silent, queued, sent, pastVars>>

\* Mutant: only the heartbeat loop notices the end of the stream.
ReaderEndedSilent == inbox = <<>> /\ hungUp /\ silent

ReaderEnded == inbox = <<>> /\ hungUp

\* The reader returns None: connect_and_handle is Ok, and so is the round.
StreamEnds ==
  /\ phase = "open" /\ FrameDone /\ ReaderEnded
  /\ phase' = "backoff"
  /\ silent' = FALSE
  /\ UNCHANGED <<outsideVars, live, hosts, host, attempts, streamVars, workVars, queued, sent,
                 pastVars>>

(* The heartbeat loop; a heartbeat that fails is only logged. *)

HeartbeatDue ==
  /\ phase = "open" /\ ~silent
  /\ silent' = TRUE
  /\ UNCHANGED <<outsideVars, live, dialVars, streamVars, workVars, queued, sent, pastVars>>

SendHeartbeat ==
  /\ phase = "open" /\ silent
  /\ silent' = FALSE
  /\ UNCHANGED <<outsideVars, live, dialVars, streamVars, workVars, queued, sent, pastVars>>

-----------------------------------------------------------------------------
(* The environment. *)

FrameArrives ==
  /\ phase = "open" /\ ~hungUp /\ Len(taken) + Len(inbox) < MaxFrames
  /\ \E f \in Frames : inbox' = Append(inbox, f)
  /\ UNCHANGED <<outsideVars, live, dialVars, hungUp, workVars, silent, queued, sent, pastVars>>

\* The server closes the stream, or it breaks: what it held can still be read.
HangUp ==
  /\ phase = "open" /\ ~hungUp
  /\ hungUp' = TRUE
  /\ UNCHANGED <<outsideVars, live, dialVars, inbox, workVars, silent, queued, sent, pastVars>>

\* Mutant: it does so at two minutes, too.
CheckerRunsAboveTwo == minutes * 60 > 120

\* run_status_checker returns at once below two minutes; otherwise it calls
\* update_status from time to time.
CheckerRuns == minutes * 60 >= 120

UpdateStatus ==
  /\ CheckerRuns
  /\ live' \in BOOLEAN
  /\ UNCHANGED <<outsideVars, dialVars, streamVars, workVars, silent, queued, sent, pastVars>>

StorageReceives ==
  /\ open /\ queued > 0
  /\ queued' = queued - 1
  /\ UNCHANGED <<outsideVars, live, dialVars, streamVars, workVars, silent, sent, pastVars>>

\* The task is aborted, which marks it only: it may be in the middle of a poll.
Aborted ==
  /\ phase \notin {"ended", "aborted"} /\ ~aborted
  /\ aborted' = TRUE
  /\ UNCHANGED <<minutes, open, live, dialVars, streamVars, workVars, silent, queued, sent,
                 pastVars>>

\* That poll, or the next one, ends at a suspension point: the task is dropped, and the
\* stream with it.
LastPollEnds ==
  /\ aborted /\ phase \notin {"ended", "aborted"}
  /\ phase' = "aborted"
  /\ inbox' = <<>> /\ hungUp' = FALSE /\ silent' = FALSE
  /\ UNCHANGED <<outsideVars, live, hosts, host, attempts, workVars, queued, sent, pastVars>>

\* The storage's background task ends and drops the receiver with what waits in the
\* channel; not before all tasks have been aborted (App).
ReceiverGone ==
  /\ aborted /\ phase \notin {"ended", "aborted"} /\ open
  /\ open' = FALSE /\ queued' = 0
  /\ UNCHANGED <<minutes, aborted, live, dialVars, streamVars, workVars, silent, sent,
                 pastVars>>

Finished == phase \in {"ended", "aborted"} /\ UNCHANGED vars

\* All of these await something: a poll begun before the abort finishes one of them at
\* most, which might then as well have come before the abort.
Dialling ==
  /\ ~aborted
  /\ \/ Connect \/ ConnectFails \/ HostPauseEnds \/ HostsExhausted
     \/ Refreshed \/ RefreshFails \/ BackoffEnds

\* The last poll goes through whatever frames have arrived.
Handling ==
  \/ TakeFrame \/ HandleMessage \/ SkipOther \/ FrameFails
  \/ SendRecord \/ SendFails \/ StreamEnds

Next ==
  \/ Dialling \/ Handling
  \/ HeartbeatDue \/ SendHeartbeat
  \/ FrameArrives \/ HangUp \/ UpdateStatus \/ StorageReceives
  \/ Aborted \/ LastPollEnds \/ ReceiverGone \/ Finished

\* The runtime polls both loops of the task, every connection attempt and request
\* ends, and so does the poll of an aborted task.  The storage may never receive again.
Fairness ==
  /\ WF_vars(Dialling)
  /\ WF_vars(Handling)
  /\ WF_vars(SendHeartbeat)
  /\ WF_vars(LastPollEnds)

Spec == Init /\ [][Next]_vars /\ Fairness

-----------------------------------------------------------------------------
(* Properties. *)

\* Every variable keeps its type, and the channel its bound.
TypeOK ==
  /\ minutes \in Minutes /\ aborted \in BOOLEAN /\ open \in BOOLEAN
  /\ live \in BOOLEAN /\ hungUp \in BOOLEAN /\ silent \in BOOLEAN
  /\ phase \in {"dial", "pause", "refresh", "backoff", "open", "ended", "aborted"}
  /\ hosts \in 0 .. MaxHosts /\ host \in 1 .. MaxHosts + 1
  /\ attempts \in 0 .. 3
  /\ inbox \in Seq(Frames) /\ taken \in Seq(Frames)
  /\ frame \in Seq(Messages)
  /\ out \in Seq(Category)
  /\ queued \in 0 .. ChannelCap
  /\ sent \in Seq(Nat \X Category)
  /\ log \in Seq([msg : Messages, live : BOOLEAN])

\* What a frame yields when nothing interferes: its JSON messages before the first
\* bad one.
Readable(f) ==
  IF f = Garbled THEN <<>>
  ELSE FlattenSeq([k \in DOMAIN f |->
    IF f[k].kind = "json" /\ \A j \in 1 .. k : f[j].kind # "bad" THEN <<f[k]>> ELSE <<>>])

\* What the messages of the log yield: their records in order, each once.
Expected == FlattenSeq([k \in DOMAIN log |->
  IF Passes(log[k].msg, log[k].live)
  THEN [j \in DOMAIN Categories(log[k].msg) |-> <<k, Categories(log[k].msg)[j]>>]
  ELSE <<>>])

Logged == [k \in DOMAIN log |-> log[k].msg]

\* Every message handled has its records sent once and in order, the free one before
\* the paid one, through a full channel, reconnects, changes of the live status and
\* the last poll of an aborted task; an abort cuts off at most the records of the
\* message in hand.  (Without a receiver nothing can be sent any more.)
RecordsMatchMessages ==
  open => sent \o [k \in DOMAIN out |-> <<Len(log), out[k]>>] = Expected

\* No message of a frame is skipped or handled twice: a broken frame costs its own
\* rest and nothing of the frames around it, on this connection or the next.
MessagesMatchFrames ==
  open => Logged \o Readable(frame) = FlattenSeq([k \in DOMAIN taken |-> Readable(taken[k])])

\* A live status nobody updates never decides what is recorded: checker and gate
\* agree on the shortest interval at which there are checks.
FrozenStatusIgnored ==
  ~CheckerRuns => \A k \in DOMAIN log : Passes(log[k].msg, FALSE)

\* config.toml: up to LiveInterval 2 ("LiveInterval <= 2 时候该设置无效，全记录") OfflineMsg
\* is void and everything is recorded.  At two minutes the code filters.
ShortIntervalRecordsAll ==
  minutes <= 2 => \A k \in DOMAIN log : Passes(log[k].msg, FALSE)

\* The task never dials for ever: it comes to serve a connection, or gives up.
DiallingEnds ==
  phase \in {"dial", "pause", "refresh", "backoff"} ~> phase \in {"open", "ended", "aborted"}

\* A connection the server has closed is given up, although frames and records are
\* still to be handled, unless the channel stays full for ever.
ClosedConnectionLeft ==
  <>[](queued < ChannelCap) => ((phase = "open" /\ hungUp) ~> phase # "open")

=============================================================================
