------------------------------ MODULE RecordSink ------------------------------
(***************************************************************************)
(* What the storage component promises to those who send it records,       *)
(* without channel, buffer, batches or write tasks.  A record that was     *)
(* taken is pending until it becomes a row of its own table or is lost.    *)
(* Losing is final, tables only grow, and a record is lost only while the  *)
(* backend fails or the program shuts down.                                *)
(***************************************************************************)
EXTENDS Naturals, Sequences, Functions

CONSTANTS
  Records,   \* the records the program sends
  Tables,    \* the tables they go to
  TableOf,   \* the table of each record
  Lossy,     \* the backend may fail
  Repeats    \* a row may be written again after a failure (CSV files)

VARIABLES
  pending,   \* records taken and neither stored for good nor lost
  stored,    \* the rows of each table
  lost,      \* records thrown away
  closing    \* the program is shutting down

sinkVars == <<pending, stored, lost, closing>>

Rows == UNION {Range(stored[t]) : t \in Tables}

Init ==
  /\ pending = {}
  /\ stored  = [t \in Tables |-> <<>>]
  /\ lost    = {}
  /\ closing = FALSE

\* A record is taken, once.
Accept ==
  /\ \E r \in Records \ (pending \cup Rows \cup lost) : pending' = pending \cup {r}
  /\ UNCHANGED <<stored, lost, closing>>

\* The rows table t gains in a step.
NewRows(t) == SubSeq(stored'[t], Len(stored[t]) + 1, Len(stored'[t]))

\* Pending records become rows behind the rows their tables have, and the
\* records in gone are lost.  A stored record stays pending only where rows may repeat.
Settle(gone) ==
  /\ \A t \in Tables :
       /\ Len(stored[t]) <= Len(stored'[t])
       /\ SubSeq(stored'[t], 1, Len(stored[t])) = stored[t]
       /\ Range(NewRows(t)) \subseteq {r \in pending : TableOf[r] = t}
       /\ ~Repeats => /\ \A i, k \in DOMAIN NewRows(t) :
                           i # k => NewRows(t)[i] # NewRows(t)[k]
                      /\ Range(NewRows(t)) \cap pending' = {}
  /\ gone \cap UNION {Range(stored'[t]) : t \in Tables} = {}
  /\ gone # {} => Lossy \/ closing
  /\ lost' = lost \cup gone
  /\ pending' \subseteq pending
  /\ pending \ pending' \subseteq gone \cup UNION {Range(stored'[t]) : t \in Tables}
  /\ gone \cap pending' = {}
  /\ UNCHANGED closing

\* The program begins to shut down.
Shutdown == ~closing /\ closing' = TRUE /\ UNCHANGED <<pending, stored, lost>>

Next == Accept \/ Settle(lost' \ lost) \/ Shutdown

Spec == Init /\ [][Next]_sinkVars

=============================================================================
