---------------------------- MODULE MonitorProofs ----------------------------
(***************************************************************************)
(* Theorems about Monitor, for every set of streamers, every number of     *)
(* queued commands, with and without the status checker; and about App,    *)
(* where its tasks wait for a record channel of any length.                *)
(***************************************************************************)
EXTENDS App, SequenceTheorems, TLAPS

-----------------------------------------------------------------------------
(* Type correctness, in the parts the actions change together. *)

TaskType ==
  /\ registry \in [Uids -> TaskIds \cup {NoTask}]
  /\ run \in [TaskIds -> {"none", "running", "aborted", "ended"}]
  /\ owner \in [TaskIds -> Uids \cup {NoUid}]
  /\ status \in [TaskIds -> BOOLEAN]

ReloadType ==
  /\ main \in {"start", "fetch", "rooms", "client", "pause", "select", "stopping",
               "closing", "closed", "killed"}
  /\ wanted \in SUBSET Uids
  /\ \E known \in SUBSET Uids : rooms \in [known -> BOOLEAN]
  /\ current \in Uids \cup {NoUid}
  /\ due \in SUBSET Uids

CheckerType ==
  /\ checker \in {"wait", "fetch", "apply", "send", "gone"}
  /\ asked \in SUBSET Uids
  /\ \E known \in SUBSET Uids : answer \in [known -> BOOLEAN]

SignalType ==
  /\ live \in SUBSET Uids
  /\ commands \in Seq({"reload", "stop"})
  /\ listening \in BOOLEAN /\ handler \in BOOLEAN /\ interrupt \in BOOLEAN
  /\ cancelled \in BOOLEAN /\ pressed \in BOOLEAN

LEMMA TypeParts == TypeOK <=> TaskType /\ ReloadType /\ CheckerType /\ SignalType
BY DEF TypeOK, TaskType, ReloadType, CheckerType, SignalType

LEMMA InitType == Init => TypeOK
<1> SUFFICES ASSUME Init PROVE TypeOK
  OBVIOUS
<1>1. TaskType
  BY DEF Init, TaskType
<1>2. ReloadType
  BY DEF Init, ReloadType
<1>3. CheckerType
  BY DEF Init, CheckerType
<1>4. SignalType
  BY MonitorAssumption, EmptySeq DEF Init, SignalType, MonitorAssumption
<1> QED
  BY <1>1, <1>2, <1>3, <1>4, TypeParts

\* Aborting or dropping tasks keeps the types of what it changes.
LEMMA LeaveType ==
  ASSUME TaskType, NEW ids, NEW next \in {"none", "aborted"}, Leave(ids, next)
  PROVE  /\ run' \in [TaskIds -> {"none", "running", "aborted", "ended"}]
         /\ owner' \in [TaskIds -> Uids \cup {NoUid}]
         /\ status' \in [TaskIds -> BOOLEAN]
<1>1. \A i \in TaskIds : run'[i] \in {"none", "running", "aborted", "ended"}
                         /\ owner'[i] \in Uids \cup {NoUid} /\ status'[i] \in BOOLEAN
  BY DEF TaskType, Leave
<1> QED
  BY <1>1 DEF Leave

\* Taking a streamer off a list of answers keeps its type.
LEMMA RestrictType ==
  ASSUME NEW f, \E known \in SUBSET Uids : f \in [known -> BOOLEAN], NEW u
  PROVE  LET g == Restrict(f, DOMAIN f \ {u}) IN
         /\ \E known \in SUBSET Uids : g \in [known -> BOOLEAN]
         /\ DOMAIN g = DOMAIN f \ {u}
         /\ \A x \in DOMAIN g : g[x] = f[x]
<1>1. PICK known \in SUBSET Uids : f \in [known -> BOOLEAN]
  OBVIOUS
<1>2. Restrict(f, DOMAIN f \ {u}) \in [known \ {u} -> BOOLEAN]
  BY <1>1 DEF Restrict
<1> QED
  BY <1>1, <1>2 DEF Restrict

LEMMA LoadListType ==
  ASSUME TypeOK, LoadList, UNCHANGED <<rooms, current>>
  PROVE  TaskType' /\ ReloadType'
<1>1. PICK new \in SUBSET Uids :
        /\ wanted' = new
        /\ registry' = [u \in Uids |-> IF u \in Uids \ new THEN NoTask ELSE registry[u]]
        /\ Abort({registry[u] : u \in Uids \ new})
        /\ due' = new \ RunningUids
        /\ main' = "fetch"
  BY DEF LoadList, Stale, AbortTasksOf
<1>2. TaskType'
  BY <1>1, LeaveType, TypeParts DEF TaskType, Abort
<1>3. ReloadType'
  BY <1>1, TypeParts DEF ReloadType
<1> QED
  BY <1>2, <1>3

LEMMA NextType == TypeOK /\ ReloadInv /\ [Next]_vars => TypeOK'
<1> SUFFICES ASSUME TypeOK, ReloadInv, [Next]_vars PROVE TypeOK'
  OBVIOUS
<1> USE DEF vars, taskVars, reloadVars, checkerVars, signalVars
<1> USE DEF Missing, AbortTasksOf, Commands, Received, Handled
<1>0. TaskType /\ ReloadType /\ CheckerType /\ SignalType
  BY TypeParts
<1>p. TaskType' /\ ReloadType' /\ CheckerType' /\ SignalType' => TypeOK'
  BY DEF TypeOK, TaskType, ReloadType, CheckerType, SignalType
<1>a. UNCHANGED taskVars => TaskType'
  BY <1>0 DEF TaskType
<1>b. UNCHANGED reloadVars => ReloadType'
  BY <1>0 DEF ReloadType
<1>c. UNCHANGED checkerVars => CheckerType'
  BY <1>0 DEF CheckerType
<1>d. UNCHANGED <<live, commands, signalVars, cancelled>> => SignalType'
  BY <1>0 DEF SignalType
<1>1. CASE Start
  <2>1. TaskType' /\ ReloadType'
    BY <1>1, LoadListType DEF Start
  <2> QED
    BY <1>1, <1>c, <1>d, <2>1, <1>p DEF Start
<1>2. CASE RoomsAnswered
  <2>1. PICK known \in SUBSET wanted :
          rooms' = [u \in known |-> u \in live] /\ due' = due \cap known
    BY <1>2 DEF RoomsAnswered
  <2>2. rooms' \in [known -> BOOLEAN] /\ known \in SUBSET Uids
    BY <2>1, <1>0 DEF ReloadType
  <2>3. ReloadType'
    BY <1>2, <1>0, <2>1, <2>2 DEF ReloadType, RoomsAnswered
  <2> QED
    BY <1>2, <1>a, <1>c, <1>d, <2>3, <1>p DEF RoomsAnswered
<1>3. CASE RoomsFailed
  BY <1>3, <1>0, <1>a, <1>c, <1>d, <1>p DEF RoomsFailed, ReloadType
<1>4. ASSUME NEW u \in Uids, NextRoom(u)  PROVE TypeOK'
  <2>1. \E known \in SUBSET Uids : rooms' \in [known -> BOOLEAN]
    <3>1. CASE registry[u] = NoTask
      BY <1>4, <3>1, <1>0 DEF NextRoom, ReloadType
    <3>2. CASE registry[u] # NoTask
      <4>1. rooms' = Restrict(rooms, DOMAIN rooms \ {u})
        BY <1>4, <3>2 DEF NextRoom
      <4> QED
        BY <4>1, <1>0, RestrictType DEF ReloadType
    <3> QED
      BY <3>1, <3>2
  <2>2. ReloadType'
    BY <1>4, <1>0, <2>1 DEF NextRoom, ReloadType
  <2> QED
    BY <1>4, <1>a, <1>c, <1>d, <2>2, <1>p DEF NextRoom
<1>5. CASE ClientStarted
  <2>1. \E known \in SUBSET Uids : rooms' \in [known -> BOOLEAN]
    BY <1>5, <1>0, RestrictType DEF ClientStarted, ReloadType
  <2>2. ReloadType'
    BY <1>5, <1>0, <2>1 DEF ClientStarted, ReloadType
  <2>3. PICK i \in Free :
          /\ run'      = [run EXCEPT ![i] = "running"]
          /\ owner'    = [owner EXCEPT ![i] = current]
          /\ status'   = [status EXCEPT ![i] = rooms[current]]
          /\ registry' = [registry EXCEPT ![current] = i]
    BY <1>5 DEF ClientStarted
  <2>4. rooms[current] \in BOOLEAN
    BY <1>5, <1>0 DEF ReloadInv, ReloadType, ClientStarted
  <2>5. TaskType'
    BY <1>5, <1>0, <2>3, <2>4 DEF TaskType, ReloadType, Free, ClientStarted
  <2> QED
    BY <1>5, <1>c, <1>d, <2>2, <2>5, <1>p DEF ClientStarted
<1>6. CASE ClientFailed
  <2>1. \E known \in SUBSET Uids : rooms' \in [known -> BOOLEAN]
    BY <1>6, <1>0, RestrictType DEF ClientFailed, ReloadType
  <2>2. ReloadType'
    BY <1>6, <1>0, <2>1 DEF ClientFailed, ReloadType
  <2> QED
    BY <1>6, <1>a, <1>c, <1>d, <2>2, <1>p DEF ClientFailed
<1>7. CASE PauseEnds \/ RoomsDone
  BY <1>7, <1>0, <1>a, <1>c, <1>d, <1>p DEF PauseEnds, RoomsDone, ReloadType
<1>8. CASE Listen
  BY <1>8, <1>0, <1>a, <1>b, <1>c, <1>p DEF Listen, SignalType
<1>9. CASE HandleReload
  <2>1. TaskType' /\ ReloadType'
    BY <1>9, LoadListType DEF HandleReload
  <2>2. commands' \in Seq({"reload", "stop"})
    BY <1>9, <1>0, HeadTailProperties DEF HandleReload, SignalType
  <2>3. SignalType'
    BY <1>9, <1>0, <2>2 DEF HandleReload, SignalType
  <2> QED
    BY <1>9, <1>c, <2>1, <2>3, <1>p DEF HandleReload
<1>10. CASE HandleStop \/ HandleInterrupt
  <2>1. commands' \in Seq({"reload", "stop"})
    BY <1>10, <1>0, HeadTailProperties DEF HandleStop, HandleInterrupt, SignalType
  <2>2. SignalType' /\ ReloadType'
    BY <1>10, <1>0, <2>1 DEF HandleStop, HandleInterrupt, LeaveLoop, SignalType, ReloadType
  <2> QED
    BY <1>10, <1>a, <1>c, <2>2, <1>p DEF HandleStop, HandleInterrupt, LeaveLoop
<1>12. CASE AbortAll
  <2>1. TaskType'
    BY <1>12, <1>0, LeaveType DEF AbortAll, Abort, TaskType
  <2>2. ReloadType'
    BY <1>12, <1>0 DEF AbortAll, ReloadType
  <2> QED
    BY <1>12, <1>c, <1>d, <2>1, <2>2, <1>p DEF AbortAll
<1>13. CASE StorageClosed
  <2>1. TaskType'
    BY <1>13, <1>0, LeaveType DEF StorageClosed, DropAll, TaskType
  <2>2. ReloadType' /\ CheckerType'
    BY <1>13, <1>0 DEF StorageClosed, ReloadType, CheckerType
  <2> QED
    BY <1>13, <1>d, <2>1, <2>2, <1>p DEF StorageClosed
<1>14. CASE CheckerTick \/ CheckerFailed \/ CheckerSent \/ CheckerDone \/ CheckerCancelled
  <2>1. CheckerType'
    <3>1. CASE CheckerCancelled
      <4>1. [u \in {} |-> FALSE] \in [{} -> BOOLEAN]
        OBVIOUS
      <4> QED
        BY <3>1, <4>1, <1>0 DEF CheckerCancelled, CheckerType
    <3>2. CASE CheckerTick \/ CheckerFailed \/ CheckerSent \/ CheckerDone
      BY <3>2, <1>0
      DEF CheckerTick, CheckerFailed, CheckerSent, CheckerDone, CheckerType, Registered
    <3> QED
      BY <1>14, <3>1, <3>2
  <2> QED
    BY <1>14, <1>a, <1>b, <1>d, <2>1, <1>p
    DEF CheckerTick, CheckerFailed, CheckerSent, CheckerDone, CheckerCancelled
<1>15. ASSUME NEW known \in SUBSET asked, CheckerAnswered(known)  PROVE TypeOK'
  <2>1. answer' \in [known -> BOOLEAN] /\ known \in SUBSET Uids
    BY <1>15, <1>0 DEF CheckerAnswered, CheckerType
  <2>2. CheckerType'
    BY <1>15, <1>0, <2>1 DEF CheckerAnswered, CheckerType
  <2> QED
    BY <1>15, <1>a, <1>b, <1>d, <2>2, <1>p DEF CheckerAnswered
<1>16. ASSUME NEW u \in Uids, CheckerApplies(u)  PROVE TypeOK'
  <2>1. \E known \in SUBSET Uids : answer' \in [known -> BOOLEAN]
    BY <1>16, <1>0, RestrictType DEF CheckerApplies, CheckerType
  <2>2. CheckerType'
    BY <1>16, <1>0, <2>1 DEF CheckerApplies, CheckerType
  <2>3. answer[u] \in BOOLEAN
    BY <1>16, <1>0 DEF CheckerApplies, CheckerType
  <2>4. TaskType'
    BY <1>16, <1>0, <2>3 DEF CheckerApplies, Updated, TaskType
  <2> QED
    BY <1>16, <1>b, <1>d, <2>2, <2>4, <1>p DEF CheckerApplies
<1>17. ASSUME NEW i \in TaskIds, TaskEnds(i) \/ PollEnds(i)  PROVE TypeOK'
  <2>1. TaskType'
    BY <1>17, <1>0 DEF TaskEnds, PollEnds, TaskType
  <2> QED
    BY <1>17, <1>b, <1>c, <1>d, <2>1, <1>p DEF TaskEnds, PollEnds
<1>18. CASE GoLiveOrOff
  <2>1. live' \in SUBSET Uids
    BY <1>18, <1>0, MonitorAssumption DEF GoLiveOrOff, SignalType, MonitorAssumption
  <2> QED
    BY <1>18, <1>0, <1>a, <1>b, <1>c, <2>1, <1>p DEF GoLiveOrOff, SignalType
<1>19. CASE SendCommand
  <2>1. commands' \in Seq({"reload", "stop"})
    BY <1>19, <1>0, AppendProperties DEF SendCommand, SignalType
  <2> QED
    BY <1>19, <1>0, <1>a, <1>b, <1>c, <2>1, <1>p DEF SendCommand, SignalType
<1>20. CASE CtrlC
  <2>1. TaskType'
    BY <1>20, <1>0, LeaveType DEF CtrlC, DropAll, TaskType
  <2>2. ReloadType' /\ CheckerType'
    BY <1>20, <1>0 DEF CtrlC, ReloadType, CheckerType
  <2>3. interrupt' \in BOOLEAN
    BY <1>20, <1>0 DEF CtrlC, SignalType
  <2>4. SignalType'
    BY <1>20, <1>0, <2>3 DEF CtrlC, SignalType
  <2> QED
    BY <2>1, <2>2, <2>4, <1>p
<1>21. CASE UNCHANGED vars
  BY <1>21, <1>a, <1>b, <1>c, <1>d, <1>p
<1> QED
  BY <1>1, <1>2, <1>3, <1>4, <1>5, <1>6, <1>7, <1>8, <1>9, <1>10, <1>12, <1>13,
     <1>14, <1>15, <1>16, <1>17, <1>18, <1>19, <1>20, <1>21
  DEF Next, MainLoop, StatusChecker, Environment, Stopped

-----------------------------------------------------------------------------
(* The registry and the running tasks. *)

\* Before the shutdown a registered task is that of its streamer: no two streamers
\* share one, so that an abort hits nobody else's.
OwnTask == ~ShutDown => \A u \in Registered : owner[registry[u]] = u

\* The inductive invariant: types, the course of a reload, every running task
\* registered under its streamer, all of them wanted, none aborted before the
\* shutdown and none running after it.
IInv ==
  /\ TypeOK /\ ReloadInv
  /\ TasksReachable /\ OwnTask
  /\ Registered \subseteq wanted
  /\ AbortedAtShutdown
  /\ ReloadRegisters

\* After an abort, what still runs ran before, for the same streamer, and was spared.
LEMMA LeaveSpares ==
  ASSUME TypeOK, NEW ids, NEW next \in {"none", "aborted"}, Leave(ids, next),
         NEW i \in TaskIds
  PROVE  /\ run'[i] = "running" => run[i] = "running" /\ owner'[i] = owner[i] /\ i \notin ids
         /\ i \notin ids => run'[i] = run[i] /\ owner'[i] = owner[i]
BY DEF TypeOK, Leave

LEMMA InitInv == Init => IInv
<1> SUFFICES ASSUME Init PROVE IInv
  OBVIOUS
<1>1. TypeOK
  BY InitType
<1>2. ReloadInv /\ TasksReachable /\ OwnTask /\ Registered \subseteq wanted
        /\ AbortedAtShutdown /\ ReloadRegisters
  BY DEF Init, ReloadInv, TasksReachable, OwnTask, Registered, AbortedAtShutdown,
         ReloadRegisters, RunningIds, ShutDown
<1> QED
  BY <1>1, <1>2 DEF IInv

\* Loading the list: the tasks that go are those of the streamers that go.
LEMMA LoadListInv ==
  ASSUME IInv, LoadList, TypeOK', ~ShutDown
  PROVE  IInv'
<1>1. PICK new \in SUBSET Uids :
        /\ wanted' = new
        /\ registry' = [u \in Uids |-> IF u \in Uids \ new THEN NoTask ELSE registry[u]]
        /\ Abort({registry[u] : u \in Uids \ new})
        /\ due' = new \ RunningUids
        /\ main' = "fetch"
  BY DEF LoadList, Stale, AbortTasksOf
<1>2. TasksReachable'
  <2> SUFFICES ASSUME NEW i \in TaskIds, run'[i] = "running"
               PROVE  owner'[i] \in Uids /\ registry'[owner'[i]] = i
    BY DEF TasksReachable, RunningIds
  <2>1. run[i] = "running" /\ owner'[i] = owner[i] /\ i \notin {registry[u] : u \in Uids \ new}
    BY <1>1, LeaveSpares DEF IInv, Abort
  <2>2. owner[i] \in Uids /\ registry[owner[i]] = i
    BY <2>1 DEF IInv, TasksReachable, RunningIds
  <2>3. owner[i] \in new
    BY <2>1, <2>2
  <2> QED
    BY <1>1, <2>1, <2>2, <2>3
<1>3. (Registered \subseteq wanted)'
  BY <1>1 DEF Registered
<1>4. \A u \in Registered' : owner'[registry'[u]] = u /\ run'[registry'[u]] \in {"running", "ended"}
  <2> SUFFICES ASSUME NEW u \in Uids, registry'[u] # NoTask
               PROVE  owner'[registry'[u]] = u /\ run'[registry'[u]] \in {"running", "ended"}
    BY DEF Registered
  <2>1. u \in new /\ registry'[u] = registry[u] /\ registry[u] \in TaskIds /\ u \in Registered
    BY <1>1 DEF IInv, TypeOK, Registered
  <2>2. owner[registry[u]] = u /\ run[registry[u]] \in {"running", "ended"}
    BY <2>1 DEF IInv, OwnTask, AbortedAtShutdown
  <2>3. registry[u] \notin {registry[v] : v \in Uids \ new}
    <3> SUFFICES ASSUME NEW v \in Uids \ new, registry[v] = registry[u]  PROVE FALSE
      OBVIOUS
    <3>1. v \in Registered
      BY <2>1, MonitorAssumption DEF Registered, MonitorAssumption
    <3>2. owner[registry[v]] = v
      BY <3>1 DEF IInv, OwnTask
    <3> QED
      BY <2>1, <2>2, <3>2
  <2>4. run'[registry[u]] = run[registry[u]] /\ owner'[registry[u]] = owner[registry[u]]
    BY <1>1, <2>1, <2>3, LeaveSpares DEF IInv, Abort
  <2> QED
    BY <2>1, <2>2, <2>4
<1>5. ReloadInv' /\ AbortedAtShutdown' /\ OwnTask' /\ ReloadRegisters'
  BY <1>1, <1>4 DEF ReloadInv, AbortedAtShutdown, OwnTask, ShutDown, ReloadRegisters
<1> QED
  BY <1>2, <1>3, <1>5 DEF IInv

LEMMA NextInv == IInv /\ [Next]_vars => IInv'
<1> SUFFICES ASSUME IInv, [Next]_vars PROVE IInv'
  OBVIOUS
<1> USE DEF vars, taskVars, reloadVars, checkerVars, signalVars
<1> USE DEF Missing, AbortTasksOf, Commands, Received, Handled
<1>0. TypeOK /\ TypeOK'
  BY NextType DEF IInv
<1> DEFINE Rest == ReloadInv /\ TasksReachable /\ OwnTask /\ Registered \subseteq wanted
                   /\ AbortedAtShutdown /\ ReloadRegisters
<1>p. Rest' => IInv'
  BY <1>0 DEF IInv
<1>r. Rest
  BY DEF IInv
<1> USE DEF ReloadInv, Registered, ShutDown, ReloadRegisters
<1>t. UNCHANGED <<registry, run, owner>> => TasksReachable' /\ RunningIds' = RunningIds
  BY <1>r DEF TasksReachable, RunningIds
<1>s. UNCHANGED <<registry, run, owner>> /\ (ShutDown' <=> ShutDown)
        => OwnTask' /\ AbortedAtShutdown'
  BY <1>r DEF OwnTask, AbortedAtShutdown, RunningIds
<1>1. CASE Start
  BY <1>1, <1>0, LoadListInv DEF Start, ShutDown
<1>2. CASE RoomsAnswered
  <2>1. PICK known \in SUBSET wanted :
          rooms' = [u \in known |-> u \in live] /\ due' = due \cap known
    BY <1>2 DEF RoomsAnswered
  <2> QED
    BY <1>2, <1>r, <1>t, <1>s, <1>p, <2>1 DEF RoomsAnswered
<1>3. CASE RoomsFailed
  BY <1>3, <1>r, <1>t, <1>s, <1>p DEF RoomsFailed
<1>4. ASSUME NEW u \in Uids, NextRoom(u)  PROVE IInv'
  <2>1. CASE registry[u] = NoTask
    BY <1>4, <2>1, <1>r, <1>t, <1>s, <1>p DEF NextRoom
  <2>2. CASE registry[u] # NoTask
    <3>1. DOMAIN rooms' = DOMAIN rooms \ {u}
      BY <1>4, <2>2 DEF NextRoom, Restrict
    <3> QED
      BY <1>4, <2>2, <3>1, <1>r, <1>t, <1>s, <1>p DEF NextRoom
  <2> QED
    BY <2>1, <2>2
<1>5. CASE ClientStarted
  <2>1. PICK i \in Free :
          /\ run'      = [run EXCEPT ![i] = "running"]
          /\ owner'    = [owner EXCEPT ![i] = current]
          /\ registry' = [registry EXCEPT ![current] = i]
    BY <1>5 DEF ClientStarted
  <2>2. /\ main = "client" /\ main' = "pause"
        /\ due' = due \ {current} /\ wanted' = wanted
        /\ DOMAIN rooms' = DOMAIN rooms \ {current}
    BY <1>5 DEF ClientStarted, Restrict
  <2>3. /\ current \in DOMAIN rooms /\ registry[current] = NoTask
        /\ current \in wanted /\ current \in Uids
    BY <1>r, <1>0, <2>2 DEF TypeOK
  <2>4. TasksReachable'
    <3> SUFFICES ASSUME NEW k \in TaskIds, run'[k] = "running"
                 PROVE  owner'[k] \in Uids /\ registry'[owner'[k]] = k
      BY DEF TasksReachable, RunningIds
    <3>1. CASE k = i
      BY <3>1, <2>1, <2>3, <1>0 DEF TypeOK, Free
    <3>2. CASE k # i
      <4>1. run[k] = "running" /\ owner'[k] = owner[k]
        BY <3>2, <2>1, <1>0 DEF TypeOK
      <4>2. owner[k] \in Uids /\ registry[owner[k]] = k
        BY <4>1, <1>r DEF TasksReachable, RunningIds
      <4>3. owner[k] # current
        BY <4>2, <2>3, MonitorAssumption DEF MonitorAssumption
      <4> QED
        BY <4>1, <4>2, <4>3, <2>1, <1>0 DEF TypeOK
    <3> QED
      BY <3>1, <3>2
  <2>5. \A u \in Uids : u # current => registry'[u] = registry[u]
    BY <2>1, <1>0 DEF TypeOK
  <2>6. ReloadInv' /\ (Registered \subseteq wanted)'
    BY <2>2, <2>3, <2>5, <1>r, <1>0 DEF TypeOK
  <2>7. \A u \in Registered' : owner'[registry'[u]] = u /\ run'[registry'[u]] \in {"running", "ended"}
    <3> SUFFICES ASSUME NEW u \in Uids, registry'[u] # NoTask
                 PROVE  owner'[registry'[u]] = u /\ run'[registry'[u]] \in {"running", "ended"}
      OBVIOUS
    <3>1. CASE u = current
      BY <3>1, <2>1, <2>3, <1>0 DEF TypeOK, Free
    <3>2. CASE u # current
      <4>1. registry'[u] = registry[u] /\ registry[u] \in TaskIds /\ u \in Registered
        BY <3>2, <2>5, <1>0 DEF TypeOK
      <4>2. registry[u] # i
        BY <2>1 DEF Free
      <4>3. owner[registry[u]] = u /\ run[registry[u]] \in {"running", "ended"}
        BY <4>1, <2>2, <1>r DEF OwnTask, AbortedAtShutdown
      <4> QED
        BY <4>1, <4>2, <4>3, <2>1, <1>0 DEF TypeOK
    <3> QED
      BY <3>1, <3>2
  <2>8. OwnTask' /\ AbortedAtShutdown'
    BY <2>2, <2>7 DEF OwnTask, AbortedAtShutdown
  <2> QED
    BY <2>2, <2>4, <2>6, <2>8, <1>p
<1>6. CASE ClientFailed
  <2>1. DOMAIN rooms' = DOMAIN rooms \ {current}
    BY <1>6 DEF ClientFailed, Restrict
  <2> QED
    BY <1>6, <2>1, <1>r, <1>t, <1>s, <1>p DEF ClientFailed
<1>7. CASE PauseEnds
  BY <1>7, <1>r, <1>t, <1>s, <1>p DEF PauseEnds
<1>8. CASE RoomsDone
  BY <1>8, <1>r, <1>t, <1>s, <1>p DEF RoomsDone
<1>9. CASE HandleReload
  BY <1>9, <1>0, LoadListInv DEF HandleReload, ShutDown
<1>10. CASE HandleStop \/ HandleInterrupt
  BY <1>10, <1>r, <1>t, <1>s, <1>p DEF HandleStop, HandleInterrupt, LeaveLoop
<1>11. CASE AbortAll
  <2>1. \A i \in TaskIds : run'[i] # "running"
    <3> SUFFICES ASSUME NEW i \in TaskIds, run'[i] = "running" PROVE FALSE
      OBVIOUS
    <3>1. run[i] = "running" /\ i \notin {registry[u] : u \in Registered}
      BY <1>11, <1>0, LeaveSpares DEF AbortAll, Abort
    <3>2. owner[i] \in Uids /\ registry[owner[i]] = i
      BY <3>1, <1>r DEF TasksReachable, RunningIds
    <3>3. owner[i] \in Registered
      BY <3>2, MonitorAssumption DEF MonitorAssumption
    <3> QED
      BY <3>1, <3>2, <3>3
  <2> QED
    BY <1>11, <2>1, <1>r, <1>p DEF AbortAll, TasksReachable, OwnTask, AbortedAtShutdown, RunningIds
<1>12. CASE StorageClosed
  <2>1. \A i \in TaskIds : run'[i] # "running"
    BY <1>12, <1>0, LeaveSpares DEF StorageClosed, DropAll, RunningIds
  <2> QED
    BY <1>12, <2>1, <1>r, <1>p DEF StorageClosed, TasksReachable, OwnTask, AbortedAtShutdown, RunningIds
<1>13. CASE CtrlC
  <2>1. CASE handler
    BY <1>13, <2>1, <1>r, <1>t, <1>s, <1>p DEF CtrlC
  <2>2. CASE ~handler
    <3>1. \A i \in TaskIds : run'[i] # "running"
      BY <1>13, <2>2, <1>0, LeaveSpares DEF CtrlC, DropAll, RunningIds
    <3> QED
      BY <1>13, <2>2, <3>1, <1>r, <1>p DEF CtrlC, TasksReachable, OwnTask, AbortedAtShutdown, RunningIds
  <2> QED
    BY <2>1, <2>2
<1>14. ASSUME NEW i \in TaskIds, TaskEnds(i) \/ PollEnds(i)  PROVE IInv'
  <2>1. /\ UNCHANGED <<registry, owner, reloadVars>>
        /\ \A k \in TaskIds : run'[k] = IF k # i THEN run[k]
                                        ELSE IF run[i] = "running" THEN "ended" ELSE "none"
        /\ run[i] \in {"running", "aborted"}
    BY <1>14, <1>0 DEF TaskEnds, PollEnds, TypeOK
  <2>2. TasksReachable' /\ RunningIds' \subseteq RunningIds
    BY <2>1, <1>r DEF TasksReachable, RunningIds
  <2>3. ASSUME ~ShutDown, NEW u \in Uids, registry[u] # NoTask
        PROVE  run'[registry[u]] \in {"running", "ended"}
    <3>1. registry[u] \in TaskIds /\ run[registry[u]] \in {"running", "ended"}
      BY <2>3, <1>r, <1>0 DEF AbortedAtShutdown, TypeOK
    <3> QED
      BY <3>1, <2>1
  <2>4. OwnTask' /\ AbortedAtShutdown'
    BY <2>1, <2>2, <2>3, <1>r DEF OwnTask, AbortedAtShutdown
  <2> QED
    BY <2>1, <2>2, <2>4, <1>r, <1>p
<1>15. CASE UNCHANGED <<registry, run, owner, reloadVars>>
  BY <1>15, <1>r, <1>t, <1>s, <1>p
<1>16. Listen \/ StatusChecker \/ GoLiveOrOff \/ SendCommand \/ Stopped \/ UNCHANGED vars
         => UNCHANGED <<registry, run, owner, reloadVars>>
  BY DEF Listen, StatusChecker, CheckerTick, CheckerAnswered, CheckerFailed, CheckerApplies,
         CheckerSent, CheckerDone, CheckerCancelled, GoLiveOrOff, SendCommand, Stopped
<1> QED
  BY <1>1, <1>2, <1>3, <1>4, <1>5, <1>6, <1>7, <1>8, <1>9, <1>10, <1>11, <1>12, <1>13,
     <1>14, <1>15, <1>16
  DEF Next, MainLoop, Environment

THEOREM Invariance == Spec => []IInv
BY InitInv, NextInv, PTL DEF Spec

\* Every variable keeps its type, over any number of reloads, tasks and commands.
THEOREM TypeCorrect == Spec => []TypeOK
<1>1. IInv => TypeOK
  BY DEF IInv
<1> QED
  BY <1>1, Invariance, PTL

\* Every running task is registered under its streamer: reloads and the shutdown can
\* abort it.
THEOREM AlwaysReachable == Spec => []TasksReachable
<1>1. IInv => TasksReachable
  BY DEF IInv
<1> QED
  BY <1>1, Invariance, PTL

\* No streamer is ever monitored twice.
THEOREM NeverTwice == Spec => []OneTaskPerStreamer
<1>1. IInv => OneTaskPerStreamer
  BY DEF IInv, TasksReachable, OneTaskPerStreamer
<1> QED
  BY <1>1, Invariance, PTL

\* Nobody outside the last loaded list is monitored.
THEOREM OnlyListedMonitored == Spec => []OnlyListed
<1>1. ASSUME IInv PROVE OnlyListed
  <2>1. ASSUME NEW i \in RunningIds PROVE owner[i] \in Registered
    BY <1>1, <2>1, MonitorAssumption
    DEF IInv, TasksReachable, Registered, RunningIds, MonitorAssumption
  <2> QED
    BY <1>1, <2>1 DEF IInv, OnlyListed, RunningUids
<1> QED
  BY <1>1, Invariance, PTL

\* When the storage closes every monitoring task has been aborted, and none of the
\* tasks in the registry before: a reload's aborts never hit a streamer it keeps.
THEOREM AbortedExactlyAtShutdown == Spec => []AbortedAtShutdown
<1>1. IInv => AbortedAtShutdown
  BY DEF IInv
<1> QED
  BY <1>1, Invariance, PTL

\* A reload leaves out no listed streamer without a task, unless a call failed.
THEOREM ReloadsRegister == Spec => []ReloadRegisters
<1>1. IInv => ReloadRegisters
  BY DEF IInv
<1> QED
  BY <1>1, Invariance, PTL

-----------------------------------------------------------------------------
(* App: the same tasks, with sends that wait. *)

\* A step of App is a step of the tasks, or leaves them alone.
LEMMA TaskStep == [AppNext]_appVars => [Next]_vars
<1> SUFFICES ASSUME [AppNext]_appVars  PROVE [Next]_vars
  OBVIOUS
<1>1. CASE MainStep
  BY <1>1 DEF MainStep, Next, MainLoop
<1>2. CASE MainSends \/ MainEnds
  BY <1>2 DEF MainSends, MainEnds, Next, MainLoop
<1>3. CASE CheckerStep
  BY <1>3 DEF CheckerStep, Next, StatusChecker
<1>4. CASE CheckerSends
  BY <1>4 DEF CheckerSends, Next, StatusChecker
<1>5. CASE MainCloses \/ StorageTakes \/ StorageEnds \/ \E i \in TaskIds : ClientSends(i) \/ LateSends(i)
  BY <1>5 DEF MainCloses, StorageTakes, StorageEnds, ClientSends, LateSends
<1>6. CASE Outside
  BY <1>6 DEF Outside, Next
<1>7. CASE UNCHANGED appVars
  BY <1>7 DEF appVars
<1> QED
  BY <1>1, <1>2, <1>3, <1>4, <1>5, <1>6, <1>7 DEF AppNext

\* A step of App is a step of the record channel, or leaves it alone.
LEMMA ChannelStep == [AppNext]_appVars => [Chan!Next]_channel
<1> SUFFICES ASSUME [AppNext]_appVars  PROVE [Chan!Next]_channel
  OBVIOUS
<1>1. CASE MainStep \/ CheckerStep \/ Outside
  BY <1>1 DEF MainStep, CheckerStep, Outside
<1>2. CASE MainSends \/ CheckerSends \/ \E i \in TaskIds : ClientSends(i) \/ LateSends(i)
  BY <1>2 DEF MainSends, CheckerSends, ClientSends, LateSends, Chan!Next
<1>3. CASE MainCloses \/ MainEnds \/ StorageTakes \/ StorageEnds
  BY <1>3 DEF MainCloses, MainEnds, StorageTakes, StorageEnds, Chan!Next
<1>4. CASE UNCHANGED appVars
  BY <1>4 DEF appVars
<1> QED
  BY <1>1, <1>2, <1>3, <1>4 DEF AppNext

\* The tasks of App behave as Monitor says, so every invariant above holds of them
\* too: a send that waits adds no behaviour of its own.
THEOREM TasksImplementMonitor == AppSpec => Init /\ [][Next]_vars
BY TaskStep, PTL DEF AppSpec, AppInit

\* The sends, the receiver and the shutdown together use the channel as RecordChannel
\* allows: no send beyond its bound, and no end of the receiver before close().
THEOREM ChannelUsedAsPromised == AppSpec => Chan!Spec
<1>1. channel = Chan!chanVars
  BY DEF channel, Chan!chanVars
<1>2. [AppNext]_appVars => [Chan!Next]_Chan!chanVars
  BY <1>1, ChannelStep DEF channel, Chan!chanVars
<1> QED
  BY <1>2, PTL DEF AppSpec, AppInit, Chan!Spec

\* close() is called when the tasks have been aborted, and the receiver goes after
\* close().
ShutdownOrder ==
  /\ waiting \in 0 .. Cap /\ open \in BOOLEAN /\ closing \in BOOLEAN
  /\ ~open => closing
  /\ closing => ShutDown

AppInv == IInv /\ ShutdownOrder

LEMMA InitApp == AppInit => AppInv
<1> SUFFICES ASSUME AppInit  PROVE AppInv
  OBVIOUS
<1>1. IInv
  BY InitInv DEF AppInit
<1>2. waiting = 0 /\ open = TRUE /\ closing = FALSE
  BY DEF AppInit, Chan!Init
<1>3. waiting \in 0 .. Cap
  BY <1>2, AppAssumption DEF AppAssumption
<1>4. open /\ ~closing /\ open \in BOOLEAN /\ closing \in BOOLEAN
  BY <1>2, Zenon
<1> QED
  BY <1>1, <1>3, <1>4, Zenon DEF AppInv, ShutdownOrder

\* The main loop does not come back from its shutdown.
LEMMA ShutdownFinal ==
  ASSUME [Next]_vars, ShutDown
  PROVE  ShutDown'
<1> USE DEF ShutDown, vars, taskVars, reloadVars, checkerVars, signalVars
<1>1. CASE MainLoop
  BY <1>1 DEF MainLoop, Start, RoomsAnswered, RoomsFailed, NextRoom, ClientStarted,
     ClientFailed, PauseEnds, RoomsDone, Listen, HandleReload, HandleStop, HandleInterrupt,
     LeaveLoop, AbortAll, StorageClosed
<1>2. CASE StatusChecker
  BY <1>2 DEF StatusChecker, CheckerTick, CheckerAnswered, CheckerFailed, CheckerApplies,
     CheckerSent, CheckerDone, CheckerCancelled
<1>3. CASE Environment
  BY <1>3 DEF Environment, GoLiveOrOff, SendCommand, CtrlC
<1>4. CASE Stopped \/ UNCHANGED vars \/ \E i \in TaskIds : TaskEnds(i) \/ PollEnds(i)
  BY <1>4 DEF Stopped, TaskEnds, PollEnds
<1> QED
  BY <1>1, <1>2, <1>3, <1>4 DEF Next

LEMMA NextApp == AppInv /\ [AppNext]_appVars => AppInv'
<1> SUFFICES ASSUME AppInv, [AppNext]_appVars  PROVE AppInv'
  OBVIOUS
<1>1. IInv'
  BY TaskStep, NextInv DEF AppInv
<1>2. ShutDown => ShutDown'
  BY TaskStep, ShutdownFinal
<1>3. /\ waiting' \in 0 .. Cap /\ open' \in BOOLEAN /\ closing' \in BOOLEAN
      /\ ~open' => closing'
  <2>1. Cap \in Nat
    BY AppAssumption DEF AppAssumption
  <2>2. /\ waiting \in 0 .. Cap /\ open \in BOOLEAN /\ closing \in BOOLEAN
        /\ ~open => closing
    BY DEF AppInv, ShutdownOrder
  <2>3. [Chan!Next]_channel
    BY ChannelStep
  <2>4. CASE Chan!Put
    BY <2>1, <2>2, <2>4 DEF Chan!Put
  <2>5. CASE Chan!Refuse \/ UNCHANGED channel
    BY <2>2, <2>5 DEF Chan!Refuse, Chan!chanVars, channel
  <2>6. CASE Chan!Take
    BY <2>1, <2>2, <2>6 DEF Chan!Take
  <2>7. CASE Chan!Close
    BY <2>2, <2>7, Zenon DEF Chan!Close
  <2>8. CASE Chan!Shut
    <3>1. waiting' \in 0 .. Cap
      BY <2>1, <2>8 DEF Chan!Shut
    <3>2. open' \in BOOLEAN /\ closing' \in BOOLEAN /\ closing'
      BY <2>2, <2>8, Zenon DEF Chan!Shut
    <3> QED  BY <3>1, <3>2, Zenon
  <2> QED  BY <2>3, <2>4, <2>5, <2>6, <2>7, <2>8 DEF Chan!Next
<1>4. closing' => ShutDown'
  <2>1. CASE closing' = closing
    BY <1>2, <2>1 DEF AppInv, ShutdownOrder
  <2>2. CASE closing' # closing
    <3>1. MainCloses
      BY <2>2 DEF AppNext, MainStep, MainSends, MainEnds, CheckerStep, CheckerSends,
         ClientSends, LateSends, StorageTakes, StorageEnds, Outside, appVars, channel,
         Chan!chanVars, Chan!Put, Chan!Refuse, Chan!Take, Chan!Shut
    <3> QED  BY <3>1, <1>2 DEF MainCloses, ShutDown
  <2> QED  BY <2>1, <2>2
<1> QED
  BY <1>1, <1>3, <1>4 DEF AppInv, ShutdownOrder

\* A record is refused only when the shutdown has aborted every task: what loses one
\* is the status checker, or a task that was aborted with records still to send, in
\* its last poll (LateSends); no task that goes on, and no initial status.
OnlyTheAbortedRefused == ~open => ShutDown /\ RunningIds = {}

\* The shutdown aborts every monitoring task before it lets the receiver go, in
\* whatever order reloads, task ends, Ctrl-C, last polls and the storage fall.
THEOREM OnlyTheAbortedAreRefused == AppSpec => []OnlyTheAbortedRefused
<1>1. AppInv => OnlyTheAbortedRefused
  BY DEF AppInv, IInv, ShutdownOrder, OnlyTheAbortedRefused, AbortedAtShutdown, ShutDown
<1>2. AppSpec => []AppInv
  BY InitApp, NextApp, PTL DEF AppSpec
<1> QED
  BY <1>1, <1>2, PTL

=============================================================================
