------------------------------- MODULE Monitor -------------------------------
(***************************************************************************)
(* The task manager and the main loop (src/task_manager.rs, src/main.rs).  *)
(*                                                                         *)
(* The main loop loads the list of streamers, starts one monitoring task   *)
(* for each, and then waits for Ctrl-C, "reload" and "stop".  A reload     *)
(* aborts the tasks of streamers that left the list, asks the platform     *)
(* about those on it, and starts the tasks that are missing.  Beside it    *)
(* the status checker asks about the registered streamers from time to     *)
(* time and updates the live status their clients share with it.  On stop  *)
(* the checker is cancelled, all tasks are aborted and the storage closes. *)
(*                                                                         *)
(* What a monitoring task does while it runs is left to module Client;     *)
(* here it runs until it gives up or is aborted.  An abort only marks it:  *)
(* it is gone when the poll it may be in has come to a suspension point.   *)
(***************************************************************************)
EXTENDS Naturals, Sequences, FiniteSets, Functions

CONSTANTS
  Uids,          \* the streamers
  Changing,      \* those of them whose live status changes; the others stay off
  TaskIds,       \* names for spawned tasks
  NoTask,        \* no task is registered
  NoUid,         \* no streamer
  MaxCommands,   \* bound of the command queue (unbounded in the code)
  CheckerOn      \* live_interval is at least two minutes

ASSUME MonitorAssumption ==
  /\ IsFiniteSet(Uids)
  /\ Changing \subseteq Uids
  /\ NoTask \notin TaskIds
  /\ NoUid \notin Uids
  /\ MaxCommands \in Nat
  /\ CheckerOn \in BOOLEAN

VARIABLES
  live,       \* the streamers that are live on the platform
  registry,   \* tasks: the registered task of each streamer
  run,        \* what the task of that name does
  owner,      \* the streamer a task monitors, until it is aborted
  status,     \* the live status the client of a task knows
  main,       \* where the main loop is
  wanted,     \* new_uids of the current or last reload
  rooms,      \* room_list still to be processed: streamer to live status
  current,    \* the streamer whose Client::new is awaited
  checker,    \* where the status checker is
  asked,      \* uids of the current status check
  answer,     \* its room_list still to be processed
  commands,   \* the command channel
  listening,  \* this round of the loop has polled ctrl_c()
  handler,    \* the SIGINT handler is installed
  interrupt,  \* a SIGINT waits for the ctrl_c() of this round
  cancelled,  \* cancel_token
  pressed,    \* history: Ctrl-C has been pressed
  due         \* history: listed streamers a reload found without a running
              \* task and has neither started nor failed to start since

taskVars    == <<registry, run, owner, status>>
reloadVars  == <<main, wanted, rooms, current, due>>
checkerVars == <<checker, asked, answer>>
signalVars  == <<listening, handler, interrupt, pressed>>
vars == <<live, taskVars, reloadVars, checkerVars, commands, signalVars, cancelled>>

Registered  == {u \in Uids : registry[u] # NoTask}
RunningIds  == {i \in TaskIds : run[i] = "running"}
RunningUids == {owner[i] : i \in RunningIds}

\* A task name that no registered task has, and none that still does something.
Free == {i \in TaskIds : /\ run[i] \in {"none", "ended"}
                        /\ \A u \in Uids : registry[u] # i}

\* The tasks in ids are forgotten; those of them in "running" go on as "next".
Leave(ids, next) ==
  /\ run' = [i \in TaskIds |-> IF i \notin ids THEN run[i]
                               ELSE IF run[i] = "running" THEN next ELSE "none"]
  /\ owner'  = [i \in TaskIds |-> IF i \in ids THEN NoUid ELSE owner[i]]
  /\ status' = [i \in TaskIds |-> IF i \in ids THEN FALSE ELSE status[i]]

\* AbortHandle::abort on the tasks in ids marks those that run; nobody waits for the
\* poll one of them may be in on another thread.
Abort(ids) == Leave(ids, "aborted")

\* The process or its runtime is gone, and every task with it.
DropAll == Leave(TaskIds, "none")

\* Mutant: the handles of the tasks are dropped without abort().
AbortNoneOf(us) == Abort({})

\* The tasks registered for these streamers are aborted.
AbortTasksOf(us) == Abort({registry[u] : u \in us})

Init ==
  /\ live \in SUBSET Changing
  /\ registry  = [u \in Uids |-> NoTask]
  /\ run       = [i \in TaskIds |-> "none"]
  /\ owner     = [i \in TaskIds |-> NoUid]
  /\ status    = [i \in TaskIds |-> FALSE]
  /\ main      = "start"
  /\ wanted    = {}
  /\ rooms     = [u \in {} |-> FALSE]
  /\ current   = NoUid
  /\ checker   = IF CheckerOn THEN "wait" ELSE "gone"
  /\ asked     = {}
  /\ answer    = [u \in {} |-> FALSE]
  /\ commands  = <<>>
  /\ listening = FALSE
  /\ handler   = FALSE
  /\ interrupt = FALSE
  /\ cancelled = FALSE
  /\ pressed   = FALSE
  /\ due       = {}

Alive == main \notin {"closed", "killed"}

-----------------------------------------------------------------------------
(* The environment: the platform, commands, Ctrl-C. *)

GoLiveOrOff ==
  /\ Alive
  /\ \E u \in Changing : live' = IF u \in live THEN live \ {u} ELSE live \cup {u}
  /\ UNCHANGED <<taskVars, reloadVars, checkerVars, commands, signalVars, cancelled>>

\* Mutant: a line that is no command is sent as well.
AnyLine == {"reload", "stop", "unknown"}

\* The lines that are commands.
Commands == {"reload", "stop"}

\* handle_connection parsed a line and sends its command.  (Behind the main loop no
\* command is read; those are left out.)
SendCommand ==
  /\ Alive /\ ~cancelled /\ Len(commands) < MaxCommands
  /\ \E c \in Commands : commands' = Append(commands, c)
  /\ UNCHANGED <<live, taskVars, reloadVars, checkerVars, signalVars, cancelled>>

\* A SIGINT reaches the ctrl_c() future of this round; between rounds the handler
\* drops it; before the handler is installed it kills the process.
CtrlC ==
  /\ Alive /\ ~pressed
  /\ pressed' = TRUE
  /\ IF handler
     THEN /\ interrupt' = (interrupt \/ listening)
          /\ UNCHANGED <<main, run, owner, status>>
     ELSE /\ main' = "killed"
          /\ DropAll
          /\ UNCHANGED interrupt
  /\ UNCHANGED <<live, registry, wanted, rooms, current, due,
                 checkerVars, commands, listening, handler, cancelled>>

-----------------------------------------------------------------------------
(* start_and_update. *)

\* Mutant: a streamer that left the list stays registered.
NeverStale(new) == {}

\* The streamers a list no longer has.
Stale(new) == Uids \ new

\* load_livers and cleanup_stale_tasks: the tasks of streamers not on the list are
\* aborted and removed.  The list may be any; one that cannot be read counts as empty.
LoadList ==
  \E new \in SUBSET Uids :
    /\ wanted' = new
    /\ registry' = [u \in Uids |-> IF u \in Stale(new) THEN NoTask ELSE registry[u]]
    /\ AbortTasksOf(Stale(new))
    /\ due' = new \ RunningUids
    /\ main' = "fetch"

\* The first start_and_update, before the loop.
Start ==
  /\ main = "start"
  /\ LoadList
  /\ UNCHANGED <<live, rooms, current, checkerVars, commands, signalVars, cancelled>>

\* get_room_info_by_uids answers, for the streamers the platform knows.
RoomsAnswered ==
  /\ main = "fetch"
  /\ \E known \in SUBSET wanted :
       /\ rooms' = [u \in known |-> u \in live]
       /\ due' = due \cap known
  /\ main' = "rooms"
  /\ UNCHANGED <<live, taskVars, wanted, current, checkerVars, commands, signalVars,
                 cancelled>>

RoomsFailed ==
  /\ main = "fetch"
  /\ main' = "select"
  /\ due' = {}
  /\ UNCHANGED <<live, taskVars, wanted, rooms, current, checkerVars, commands,
                 signalVars, cancelled>>

\* Mutant: process_room_updates does not look for a registered task.
MissingAlways(u) == TRUE

\* Mutant: only streamers that are live get a client.
MissingIfLive(u) == registry[u] = NoTask /\ rooms[u]

\* !self.tasks.contains_key(uid)
Missing(u) == registry[u] = NoTask

\* Mutant: an entry that is done with is looked at again.
NotHandled(u) == rooms

\* What is left of the list after streamer u.
Handled(u) == Restrict(rooms, DOMAIN rooms \ {u})

\* The initial status of streamer u is sent; a client is needed if none is registered.
NextRoom(u) ==
  /\ main = "rooms" /\ u \in DOMAIN rooms
  /\ IF Missing(u)
     THEN /\ main' = "client"
          /\ current' = u
          /\ UNCHANGED rooms
     ELSE /\ rooms' = Handled(u)
          /\ UNCHANGED <<main, current>>
  /\ UNCHANGED <<live, taskVars, wanted, due, checkerVars, commands, signalVars,
                 cancelled>>

\* Client::new succeeds: the task is spawned and registered; a pause follows.
ClientStarted ==
  /\ main = "client"
  /\ \E i \in Free :
       /\ run'      = [run EXCEPT ![i] = "running"]
       /\ owner'    = [owner EXCEPT ![i] = current]
       /\ status'   = [status EXCEPT ![i] = rooms[current]]
       /\ registry' = [registry EXCEPT ![current] = i]
  /\ due'   = due \ {current}
  /\ rooms' = Handled(current)
  /\ current' = NoUid
  /\ main'  = "pause"
  /\ UNCHANGED <<live, wanted, checkerVars, commands, signalVars, cancelled>>

\* Client::new fails: the streamer is left out until the next reload.
ClientFailed ==
  /\ main = "client"
  /\ due'   = due \ {current}
  /\ rooms' = Handled(current)
  /\ current' = NoUid
  /\ main'  = "rooms"
  /\ UNCHANGED <<live, taskVars, wanted, checkerVars, commands, signalVars,
                 cancelled>>

\* The two-second sleep after a start ends.
PauseEnds ==
  /\ main = "pause"
  /\ main' = "rooms"
  /\ UNCHANGED <<live, taskVars, wanted, rooms, current, due, checkerVars, commands,
                 signalVars, cancelled>>

\* start_and_update returns; the loop goes into its next round.
RoomsDone ==
  /\ main = "rooms" /\ DOMAIN rooms = {}
  /\ main' = "select"
  /\ UNCHANGED <<live, taskVars, wanted, rooms, current, due, checkerVars, commands,
                 signalVars, cancelled>>

-----------------------------------------------------------------------------
(* The main loop. *)

\* select! polls its ctrl_c(), which registers for the signal when first polled.
Listen ==
  /\ main = "select" /\ ~listening
  /\ listening' = TRUE /\ handler' = TRUE
  /\ UNCHANGED <<live, taskVars, reloadVars, checkerVars, commands, interrupt, pressed,
                 cancelled>>

\* Mutant: a command takes those behind it along.
Drained == <<>>

\* cmd_receiver.recv() takes the first command.
Received == Tail(commands)

\* Command::Reload: the other branch of select!, ctrl_c(), is dropped with
\* what it may have received.
HandleReload ==
  /\ main = "select" /\ commands # <<>> /\ Head(commands) = "reload"
  /\ commands' = Received
  /\ listening' = FALSE /\ interrupt' = FALSE
  /\ LoadList
  /\ UNCHANGED <<live, rooms, current, checkerVars, handler, pressed, cancelled>>

\* The loop is left: the token is cancelled, ctrl_c() dropped.
LeaveLoop ==
  /\ cancelled' = TRUE
  /\ main' = "stopping"
  /\ listening' = FALSE /\ interrupt' = FALSE
  /\ UNCHANGED <<live, taskVars, wanted, rooms, current, due, checkerVars, handler, pressed>>

HandleStop ==
  /\ main = "select" /\ commands # <<>> /\ Head(commands) = "stop"
  /\ commands' = Received
  /\ LeaveLoop

HandleInterrupt ==
  /\ main = "select" /\ interrupt
  /\ LeaveLoop
  /\ UNCHANGED commands

\* TaskManager::shutdown: every registered task is aborted, none is waited for; then
\* the storage closes.
AbortAll ==
  /\ main = "stopping"
  /\ AbortTasksOf(Registered)
  /\ main' = "closing"
  /\ UNCHANGED <<live, registry, wanted, rooms, current, due, checkerVars, commands,
                 signalVars, cancelled>>

\* storage.close() returns and so does main: the runtime waits for the polls in
\* progress and drops every task.
StorageClosed ==
  /\ main = "closing"
  /\ main' = "closed"
  /\ DropAll
  /\ checker' = "gone"
  /\ UNCHANGED <<live, registry, wanted, rooms, current, due,
                 asked, answer, commands, signalVars, cancelled>>

-----------------------------------------------------------------------------
(* The status checker. *)

\* A tick: the registered streamers are asked about.
CheckerTick ==
  /\ Alive /\ checker = "wait"
  /\ asked' = Registered
  /\ checker' = "fetch"
  /\ UNCHANGED <<live, taskVars, reloadVars, answer, commands, signalVars, cancelled>>

CheckerAnswered(known) ==
  /\ Alive /\ checker = "fetch"
  /\ answer' = [u \in known |-> u \in live]
  /\ asked' = {}
  /\ checker' = "apply"
  /\ UNCHANGED <<live, taskVars, reloadVars, commands, signalVars, cancelled>>

CheckerFailed ==
  /\ Alive /\ checker = "fetch"
  /\ asked' = {}
  /\ checker' = "wait"
  /\ UNCHANGED <<live, taskVars, reloadVars, answer, commands, signalVars, cancelled>>

\* Mutant: update_status stores only the change to live.
UpdatedOn(u) ==
  IF registry[u] # NoTask /\ answer[u] THEN [status EXCEPT ![registry[u]] = TRUE] ELSE status

\* update_status on the task registered now.
Updated(u) ==
  IF registry[u] # NoTask THEN [status EXCEPT ![registry[u]] = answer[u]] ELSE status

\* One entry of the answer is applied; the status record is to be sent.
CheckerApplies(u) ==
  /\ Alive /\ checker = "apply" /\ u \in DOMAIN answer
  /\ status' = Updated(u)
  /\ answer' = Restrict(answer, DOMAIN answer \ {u})
  /\ checker' = "send"
  /\ UNCHANGED <<live, registry, run, owner, reloadVars, asked, commands, signalVars,
                 cancelled>>

\* tx.send(record).await returns, with or without an error.
CheckerSent ==
  /\ Alive /\ checker = "send"
  /\ checker' = "apply"
  /\ UNCHANGED <<live, taskVars, reloadVars, asked, answer, commands, signalVars,
                 cancelled>>

CheckerDone ==
  /\ Alive /\ checker = "apply" /\ DOMAIN answer = {}
  /\ checker' = "wait"
  /\ UNCHANGED <<live, taskVars, reloadVars, asked, answer, commands, signalVars,
                 cancelled>>

\* The cancelled token ends the checker at one of its suspension points.
CheckerCancelled ==
  /\ Alive /\ cancelled /\ checker # "gone"
  /\ checker' = "gone"
  /\ asked' = {} /\ answer' = [u \in {} |-> FALSE]
  /\ UNCHANGED <<live, taskVars, reloadVars, commands, signalVars, cancelled>>

-----------------------------------------------------------------------------
\* client.run() returns an error: the task ends, its registration stays.
TaskEnds(i) ==
  /\ run[i] = "running"
  /\ run' = [run EXCEPT ![i] = "ended"]
  /\ UNCHANGED <<live, registry, owner, status, reloadVars, checkerVars, commands,
                 signalVars, cancelled>>

\* The last poll of an aborted task has come to a suspension point, or to the end of
\* the task, which is dropped.
PollEnds(i) ==
  /\ run[i] = "aborted"
  /\ run' = [run EXCEPT ![i] = "none"]
  /\ UNCHANGED <<live, registry, owner, status, reloadVars, checkerVars, commands,
                 signalVars, cancelled>>

\* The process is gone.
Stopped == ~Alive /\ UNCHANGED vars

MainLoop ==
  \/ Start \/ RoomsAnswered \/ RoomsFailed
  \/ \E u \in Uids : NextRoom(u)
  \/ ClientStarted \/ ClientFailed \/ PauseEnds \/ RoomsDone
  \/ Listen \/ HandleReload \/ HandleStop \/ HandleInterrupt
  \/ AbortAll \/ StorageClosed

StatusChecker ==
  \/ CheckerTick
  \/ \E known \in SUBSET asked : CheckerAnswered(known)
  \/ CheckerFailed
  \/ \E u \in Uids : CheckerApplies(u)
  \/ CheckerSent \/ CheckerDone \/ CheckerCancelled

Environment == GoLiveOrOff \/ SendCommand \/ CtrlC

Next ==
  \/ MainLoop
  \/ StatusChecker
  \/ \E i \in TaskIds : TaskEnds(i) \/ PollEnds(i)
  \/ Environment
  \/ Stopped

\* The runtime polls the main loop and the checker, every poll ends (tokio's budget
\* bounds the sends of one), and every request gets an answer or an error.  The
\* platform does not refuse all status checks for ever.
Fairness ==
  /\ WF_vars(MainLoop)
  /\ WF_vars(StatusChecker)
  /\ \A i \in TaskIds : WF_vars(PollEnds(i))
  /\ SF_vars(CheckerAnswered(asked))

Spec == Init /\ [][Next]_vars /\ Fairness

-----------------------------------------------------------------------------
(* Properties. *)

\* Every variable keeps its type.
TypeOK ==
  /\ live \in SUBSET Uids
  /\ registry \in [Uids -> TaskIds \cup {NoTask}]
  /\ run \in [TaskIds -> {"none", "running", "aborted", "ended"}]
  /\ owner \in [TaskIds -> Uids \cup {NoUid}]
  /\ status \in [TaskIds -> BOOLEAN]
  /\ main \in {"start", "fetch", "rooms", "client", "pause", "select", "stopping",
               "closing", "closed", "killed"}
  /\ wanted \in SUBSET Uids
  /\ \E known \in SUBSET Uids : rooms \in [known -> BOOLEAN]
  /\ current \in Uids \cup {NoUid}
  /\ checker \in {"wait", "fetch", "apply", "send", "gone"}
  /\ asked \in SUBSET Uids
  /\ \E known \in SUBSET Uids : answer \in [known -> BOOLEAN]
  /\ commands \in Seq({"reload", "stop"})
  /\ listening \in BOOLEAN /\ handler \in BOOLEAN /\ interrupt \in BOOLEAN
  /\ cancelled \in BOOLEAN /\ pressed \in BOOLEAN
  /\ due \in SUBSET Uids

\* No streamer is monitored twice: two tasks would record every message twice.  (An
\* aborted task, in its last poll, is none of them.)
OneTaskPerStreamer ==
  \A i, k \in RunningIds : owner[i] = owner[k] => i = k

\* Every running task is registered under its streamer, so that a reload and the
\* shutdown can abort it, over any sequence of reloads, failures and edits.
TasksReachable == \A i \in RunningIds : owner[i] \in Uids /\ registry[owner[i]] = i

\* No streamer outside the last loaded list has a task, although a status check
\* may still hold an answer from before the reload.
OnlyListed == Registered \subseteq wanted /\ RunningUids \subseteq wanted

\* TaskManager::shutdown has come this far.
ShutDown == main \in {"closing", "closed", "killed"}

\* When the storage closes, every monitoring task has been aborted: what may still
\* send is in its last poll.  Before that no registered task is aborted: reloads
\* would take it for a monitored streamer.
AbortedAtShutdown ==
  IF ShutDown THEN RunningIds = {}
  ELSE \A u \in Registered : run[registry[u]] \in {"running", "ended"}

\* What holds while the rooms of a reload are gone through: all are wanted, the one
\* whose client is awaited has no task yet, and those due are still ahead or have one.
ReloadInv ==
  /\ main \in {"rooms", "client", "pause"} =>
       /\ DOMAIN rooms \subseteq wanted
       /\ \A u \in due : u \in DOMAIN rooms \/ registry[u] # NoTask
  /\ main = "client" => current \in DOMAIN rooms /\ registry[current] = NoTask

\* A reload registers a task for every listed streamer that had none, unless a
\* call for it failed.
ReloadRegisters == main = "select" => \A u \in due : registry[u] # NoTask

\* A listed streamer is monitored after a reload ("status=false: not monitored")
\* unless a call for it failed.
ReloadRevives == main = "select" => due = {}

\* A client learns the live status of its streamer, once that is settled, although
\* reloads hand out and checks apply answers that are out of date.
StatusCatchesUp ==
  \A u \in Uids : \A i \in TaskIds : \A b \in BOOLEAN :
    <>[](registry[u] = i /\ (u \in live) = b /\ CheckerOn /\ ~cancelled /\ Alive)
      => <>[](status[i] = b)

\* A stop command is obeyed, behind any reloads queued before it.
StopObeyed == (\E k \in DOMAIN commands : commands[k] = "stop") ~> ~Alive

\* Ctrl-C ends the program.
CtrlCObeyed == pressed ~> ~Alive

=============================================================================
