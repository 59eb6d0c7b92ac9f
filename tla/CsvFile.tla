------------------------------- MODULE CsvFile -------------------------------
(***************************************************************************)
(* One CSV file of the storage over several runs of the program            *)
(* (src/storage.rs: precheck_storage, write_csv_batch, close).             *)
(*                                                                         *)
(* The file outlives the process.  What the process knows of it, that the  *)
(* file exists (created_tables) and the rows its csv::Writer still has in  *)
(* memory, is gone at every restart.  A row, and the header, are written   *)
(* as two pieces, the second of which ends the line: a write that fails or *)
(* a process that is killed may leave a line cut in two.  Power failures,  *)
(* which also lose what the operating system had taken, are not modelled.  *)
(***************************************************************************)
EXTENDS Naturals, Sequences, FiniteSets

CONSTANTS
  MaxRow,     \* bound: the rows written, numbered in the order of their batches
  MaxBatch,   \* bound: the rows of one batch
  MaxFaults   \* bound: failed calls and kills

ASSUME CsvFileAssumption ==
  /\ MaxRow \in Nat /\ MaxBatch \in Nat \ {0} /\ MaxFaults \in Nat

Header == 0
Rows   == 1 .. MaxRow
Pieces == (Rows \cup {Header}) \X {1, 2}

VARIABLES
  exists,   \* path.exists()
  file,     \* the pieces in the file
  process,  \* down, or up, or between File::create and the header
  cached,   \* created_tables has the file
  opened,   \* csv_writers has its writer
  kept,     \* the pieces in the writer's buffer
  next,     \* the first row of the next batch
  acked,    \* history: the rows of the batches that were flushed
  faults,   \* history: how many calls failed or were cut off
  cutOff    \* history: the creation of the file failed or was cut off

processVars == <<process, cached, opened, kept>>
vars == <<exists, file, processVars, next, acked, faults, cutOff>>

HeaderPieces == <<<<Header, 1>>, <<Header, 2>>>>

\* The n rows from the next one on, as write_record puts them into the buffer.
Batch(n) == [i \in 1 .. 2 * n |-> <<next + (i - 1) \div 2, 2 - (i % 2)>>]

\* The first p pieces of s, and those behind the first p.
First(s, p) == SubSeq(s, 1, p)
Behind(s, p) == SubSeq(s, p + 1, Len(s))

\* A row whose last fields the writer never took is still open in its buffer.
RowOpen == kept # <<>> /\ kept[Len(kept)][2] = 1

Init ==
  /\ exists = FALSE /\ file = <<>>
  /\ process = "down"
  /\ cached = FALSE /\ opened = FALSE /\ kept = <<>>
  /\ next = 1 /\ acked = {} /\ faults = 0 /\ cutOff = FALSE

Fault == faults < MaxFaults /\ faults' = faults + 1

\* The process is gone, and what it knew of the file with it.
Gone == process' = "down" /\ cached' = FALSE /\ opened' = FALSE /\ kept' = <<>>

\* Storage::start: nothing is known of the file.
Begin ==
  /\ process = "down" /\ process' = "up"
  /\ UNCHANGED <<exists, file, cached, opened, kept, next, acked, faults, cutOff>>

-----------------------------------------------------------------------------
(* precheck_storage, for the first record of this file. *)

Precheck == process = "up" /\ ~cached

\* Mutant: precheck_storage creates the file without looking for it.
AlwaysMissing == TRUE

\* !path.exists()
Missing == ~exists

\* create_dir_all and File::create, which empties what is there.
CreateFile ==
  /\ Precheck /\ Missing
  /\ process' = "creating"
  /\ exists' = TRUE /\ file' = <<>>
  /\ UNCHANGED <<cached, opened, kept, next, acked, faults, cutOff>>

CreateFails ==
  /\ Precheck /\ Missing
  /\ Fault
  /\ UNCHANGED <<exists, file, processVars, next, acked, cutOff>>

\* Mutant: a file that is found gets the header at its end.
FileFoundHeaded ==
  /\ Precheck /\ ~Missing
  /\ cached' = TRUE
  /\ file' = file \o HeaderPieces
  /\ UNCHANGED <<exists, process, opened, kept, next, acked, faults, cutOff>>

\* The file is there already, from this run or from an earlier one.
FileFound ==
  /\ Precheck /\ ~Missing
  /\ cached' = TRUE
  /\ UNCHANGED <<exists, file, process, opened, kept, next, acked, faults, cutOff>>

WriteHeader ==
  /\ process = "creating" /\ process' = "up"
  /\ file' = file \o HeaderPieces
  /\ cached' = TRUE
  /\ UNCHANGED <<exists, opened, kept, next, acked, faults, cutOff>>

\* The flush of the header fails; the writer tries it again as it is dropped.
HeaderFails ==
  /\ process = "creating" /\ process' = "up"
  /\ \E w \in 0 .. 1, v \in 0 .. 2 :
       file' = file \o First(HeaderPieces, w) \o First(HeaderPieces, v)
  /\ Fault
  /\ cutOff' = TRUE
  /\ UNCHANGED <<exists, cached, opened, kept, next, acked>>

-----------------------------------------------------------------------------
(* write_csv_batch. *)

\* n rows of a table that passed precheck_storage are written.
Writes(n) ==
  /\ process = "up" /\ cached
  /\ next + n <= MaxRow + 1
  /\ next' = next + n

\* The writer is opened, takes the batch and is flushed, with what it had kept.
WriteBatch(n) ==
  /\ Writes(n) /\ ~RowOpen
  /\ file' = file \o kept \o Batch(n)
  /\ opened' = TRUE /\ kept' = <<>>
  /\ acked' = acked \cup (next .. next + n - 1)
  /\ UNCHANGED <<exists, process, cached, faults, cutOff>>

OpenFails(n) ==
  /\ Writes(n) /\ ~opened
  /\ Fault
  /\ UNCHANGED <<exists, file, processVars, acked, cutOff>>

\* The writer took m pieces of the batch.  The first k of its pieces went to the
\* file when its buffer was full; then the file takes those up to w and no more:
\* all behind the first k stay in the buffer, and the rest of the batch is lost.
WriteFails(n) ==
  /\ Writes(n) /\ ~RowOpen
  /\ \E m \in 0 .. 2 * n :
       LET taken == kept \o First(Batch(n), m)
       IN  \E w \in 0 .. Len(taken) - 1 : \E k \in 0 .. w :
             /\ file' = file \o First(taken, w)
             /\ kept' = Behind(taken, k)
  /\ opened' = TRUE
  /\ Fault
  /\ UNCHANGED <<exists, process, cached, acked, cutOff>>

\* The writer adds the fields to the row left open and refuses their number: the
\* batch fails before its flush.
WriteRefused(n) ==
  /\ Writes(n) /\ RowOpen
  /\ kept' = Append(kept, <<next, 1>>)
  /\ UNCHANGED <<exists, file, process, cached, opened, acked, faults, cutOff>>

-----------------------------------------------------------------------------
(* The end of a run. *)

\* close() flushes the writer and the process ends.
Stop ==
  /\ process = "up"
  /\ file' = file \o kept
  /\ Gone
  /\ UNCHANGED <<exists, next, acked, faults, cutOff>>

\* That flush fails; the writer tries again as it is dropped.
StopFails ==
  /\ process = "up" /\ kept # <<>>
  /\ \E w \in 0 .. Len(kept) - 1, v \in 0 .. Len(kept) :
       file' = file \o First(kept, w) \o First(kept, v)
  /\ Fault
  /\ Gone
  /\ UNCHANGED <<exists, next, acked, cutOff>>

\* The process is killed, perhaps in the middle of a write.
Kill ==
  /\ process # "down"
  /\ Fault
  /\ Gone
  /\ cutOff' = (cutOff \/ process = "creating")
  /\ \/ UNCHANGED <<file, next>>
     \/ /\ process = "creating"
        /\ file' = Append(file, <<Header, 1>>)
        /\ UNCHANGED next
     \/ \E n \in 1 .. MaxBatch :
          /\ Writes(n) /\ ~RowOpen
          /\ \E w \in 1 .. Len(kept) + 2 * n : file' = file \o First(kept \o Batch(n), w)
  /\ UNCHANGED <<exists, acked>>

Write ==
  \E n \in 1 .. MaxBatch :
    WriteBatch(n) \/ OpenFails(n) \/ WriteFails(n) \/ WriteRefused(n)

Next ==
  \/ Begin
  \/ CreateFile \/ CreateFails \/ FileFound \/ WriteHeader \/ HeaderFails
  \/ Write
  \/ Stop \/ StopFails \/ Kill

Spec == Init /\ [][Next]_vars

-----------------------------------------------------------------------------
(* Properties. *)

\* The line of the file that starts at piece i is row r (or the header) and
\* nothing else.
LineAt(i, r) ==
  /\ i < Len(file)
  /\ i = 1 \/ file[i - 1][2] = 2
  /\ file[i] = <<r, 1>> /\ file[i + 1] = <<r, 2>>

Readable(r) == \E i \in DOMAIN file : LineAt(i, r)

\* A fault costs the rows it reports, and at most one of the others: the row that
\* is appended to the line it left open.  Restarts, which look for the file
\* again and append to it, cost none.
OneRowPerFault == Cardinality({r \in acked : ~Readable(r)}) <= faults

\* The header is written once, above the rows, over all restarts; only a creation
\* that failed or was cut off leaves a file of rows without it (and no later
\* start repairs that, since the file is there).
HeaderOnce ==
  /\ \A i \in DOMAIN file : file[i][1] = Header =>
       \A k \in 1 .. i : file[k][1] = Header
  /\ Cardinality({i \in DOMAIN file : LineAt(i, Header)}) <= 1
  /\ acked # {} /\ ~cutOff => LineAt(1, Header)

=============================================================================
