---------------------------- MODULE RecordChannel ----------------------------
(***************************************************************************)
(* What the record channel promises its senders (init_storage in           *)
(* src/storage.rs): a bounded queue with one receiver.  Only the number of *)
(* waiting records counts.  Storage implements it, and App, whose tasks    *)
(* are the senders, uses it in place of Storage.                           *)
(***************************************************************************)
EXTENDS Naturals

CONSTANT Cap   \* records the channel holds (10000 in the code)

VARIABLES
  waiting,  \* the records sent and not yet received
  open,     \* the receiver exists
  closing   \* close() has been called

chanVars == <<waiting, open, closing>>

Init == waiting = 0 /\ open = TRUE /\ closing = FALSE

\* send().await returns Ok once there is room.
Put ==
  /\ open /\ waiting < Cap
  /\ waiting' = waiting + 1
  /\ UNCHANGED <<open, closing>>

\* send().await returns an error.
Refuse == ~open /\ UNCHANGED chanVars

Take ==
  /\ open /\ waiting > 0
  /\ waiting' = waiting - 1
  /\ UNCHANGED <<open, closing>>

Close == ~closing /\ closing' = TRUE /\ UNCHANGED <<waiting, open>>

\* The receiver goes, and what waits goes with it, but not before close() is called.
Shut == closing /\ open' = FALSE /\ waiting' = 0 /\ UNCHANGED closing

Next == Put \/ Refuse \/ Take \/ Close \/ Shut

Spec == Init /\ [][Next]_chanVars
=============================================================================
