---------------------------------- MODULE App ----------------------------------
(***************************************************************************)
(* The tasks of the program joined to the storage by the record channel    *)
(* (src/main.rs, src/task_manager.rs, src/client.rs, src/storage.rs).      *)
(*                                                                         *)
(* The main loop, the status checker and every monitoring task await       *)
(* tx.send(record), so all of them stand still while the channel is full.  *)
(* The main loop is then deaf to commands as well: it is inside the reload *)
(* it started.  Monitor says what the tasks do, RecordChannel what the     *)
(* storage does for them; here the sends of the one are the puts of the    *)
(* other, and the shutdown of the one closes the other.                    *)
(***************************************************************************)
EXTENDS Monitor

CONSTANT Cap

ASSUME AppAssumption == Cap \in Nat \ {0}

VARIABLES waiting, open, closing

Chan == INSTANCE RecordChannel

channel == <<waiting, open, closing>>
appVars == <<vars, channel>>

AppInit == Init /\ Chan!Init

\* The steps of the main loop between its sends.
MainStep ==
  /\ \/ Start \/ RoomsAnswered \/ RoomsFailed
     \/ ClientStarted \/ ClientFailed \/ PauseEnds \/ RoomsDone
     \/ Listen \/ HandleReload \/ HandleStop \/ HandleInterrupt
     \/ AbortAll
  /\ UNCHANGED channel

\* send_initial_status, then the streamer's task is looked for.
MainSends == (\E u \in Uids : NextRoom(u)) /\ Chan!Put

\* storage.close() sends its signal, and returns some time later: then the process
\* ends and the channel with it.
MainCloses == main = "closing" /\ Chan!Close /\ UNCHANGED vars

MainEnds == StorageClosed /\ Chan!Shut

CheckerStep ==
  /\ \/ CheckerTick
     \/ \E known \in SUBSET asked : CheckerAnswered(known)
     \/ CheckerFailed
     \/ \E u \in Uids : CheckerApplies(u)
     \/ CheckerDone \/ CheckerCancelled
  /\ UNCHANGED channel

CheckerSends == CheckerSent /\ (Chan!Put \/ Chan!Refuse)

\* A monitoring task sends a record.
ClientSends(i) == run[i] = "running" /\ Chan!Put /\ UNCHANGED vars

\* An aborted task is in its last poll: it sends while that needs no waiting.
LateSends(i) == run[i] = "aborted" /\ (Chan!Put \/ Chan!Refuse) /\ UNCHANGED vars

\* The storage takes a record, or its background task ends after close() was called.
StorageTakes == Alive /\ Chan!Take /\ UNCHANGED vars
StorageEnds  == Alive /\ open /\ Chan!Shut /\ UNCHANGED vars

Outside ==
  /\ \/ \E i \in TaskIds : TaskEnds(i) \/ PollEnds(i)
     \/ Environment
     \/ Stopped
  /\ UNCHANGED channel

AppNext ==
  \/ MainStep \/ MainSends \/ MainCloses \/ MainEnds
  \/ CheckerStep \/ CheckerSends
  \/ \E i \in TaskIds : ClientSends(i) \/ LateSends(i)
  \/ StorageTakes \/ StorageEnds
  \/ Outside

\* The semaphore of the channel serves waiting senders in turn, so a sender gets
\* its permit if there is room again and again.  A full channel is emptied, and
\* close() returns: the runs of Storage show both.  Every poll ends.  The platform
\* does not refuse all status checks for ever.
AppFairness ==
  /\ WF_appVars(MainStep \/ MainCloses \/ MainEnds)
  /\ SF_appVars(MainSends)
  /\ WF_appVars(CheckerStep)
  /\ SF_appVars(CheckerSends)
  /\ SF_appVars(CheckerAnswered(asked) /\ UNCHANGED channel)
  /\ \A i \in TaskIds : WF_appVars(PollEnds(i) /\ UNCHANGED channel)
  /\ WF_appVars(waiting = Cap /\ StorageTakes)

AppSpec == AppInit /\ [][AppNext]_appVars /\ AppFairness

-----------------------------------------------------------------------------
(* Properties: StatusCatchesUp and StopObeyed of Monitor, with sends that wait. *)

\* A sender that awaits is not forgotten: the main loop does not stay in the rooms
\* of one reload for ever, however many records the clients send.
ReloadEnds == main = "rooms" ~> main \notin {"rooms", "client", "pause"}

=============================================================================
