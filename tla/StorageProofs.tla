---------------------------- MODULE StorageProofs ----------------------------
(***************************************************************************)
(* Theorems about Storage, for every number of records and tables, every   *)
(* capacity and batch size, every backend, with and without failures.      *)
(***************************************************************************)
EXTENDS Storage, SequenceTheorems, FiniteSetTheorems, TLAPS

(***************************************************************************)
(* Sequences.                                                              *)
(***************************************************************************)

\* A slice of a sequence is a sequence over the same set.
LEMMA SliceType ==
  ASSUME NEW S, NEW s \in Seq(S), NEW m \in Nat \ {0}, NEW n \in 0 .. Len(s)
  PROVE  SubSeq(s, m, n) \in Seq(S)
<1>1. \A i \in m .. n : s[i] \in S
  BY ElementOfSeq, LenProperties
<1> QED
  BY <1>1, SubSeqProperties

-----------------------------------------------------------------------------
(* Type correctness. *)

\* Starting a flush, and forgetting the joined write tasks, keeps the types.
LEMMA BeginFlushType ==
  ASSUME TypeOK, NEW p \in Flushers, BeginFlush(p)
  PROVE  /\ phase' \in [Flushers -> {"idle", "drain", "await"}]
         /\ left' \in [Flushers -> SUBSET Tables]
BY DEF TypeOK, BeginFlush

LEMMA JobsJoinedType ==
  ASSUME TypeOK, NEW p
  PROVE  JobsJoined(p) \in [Jobs -> {"none", "spawned", "writing", "ok", "err"}]
BY DEF TypeOK, JobsJoined

LEMMA InitType == Init => TypeOK /\ HandInv
<1> SUFFICES ASSUME Init  PROVE TypeOK /\ HandInv
  OBVIOUS
<1>1. <<>> \in Seq(Records) /\ Len(<<>>) = 0
  BY EmptySeq
<1>2. /\ buffer \in [Tables -> Seq(Records)]
      /\ batch \in [Jobs -> Seq(Records)]
      /\ store \in [Tables -> Seq(Records)]
      /\ residue \in [Tables -> Seq(Records)]
  BY <1>1 DEF Init
<1>3. /\ phase \in [Flushers -> {"idle", "drain", "await"}]
      /\ left \in [Flushers -> SUBSET Tables]
      /\ jobState \in [Jobs -> {"none", "spawned", "writing", "ok", "err"}]
  BY DEF Init
<1>4. shutdown \in BOOLEAN
  BY Zenon DEF Init
<1>5. /\ channel \in Seq(Records) /\ Len(channel) <= ChannelCap
      /\ held \in Records \cup {NoRecord}
      /\ created \in SUBSET Tables
      /\ count \in Nat
      /\ accepted \in Seq(Records)
      /\ refused \in SUBSET Records
      /\ dropped \in SUBSET Records
  BY <1>1, StorageAssumption DEF StorageAssumption, Init
<1>6. HandInv /\ bg = "select" /\ closer = "open"
  BY DEF Init, HandInv
<1> QED
  BY <1>2, <1>3, <1>4, <1>5, <1>6 DEF TypeOK

LEMMA SendType ==
  ASSUME TypeOK, NEW r \in Records, Send(r) \/ SendFails(r)
  PROVE  TypeOK'
<1> USE StorageAssumption DEF StorageAssumption, TypeOK, vars, taskVars, flushVars, storeVars,
        ghostVars, closeVars
<1>1. CASE Send(r)
  <2>1. /\ channel' \in Seq(Records) /\ Len(channel') = Len(channel) + 1
        /\ accepted' \in Seq(Records)
    BY <1>1, AppendProperties DEF Send, Room
  <2> QED  BY <1>1, <2>1, LenProperties DEF Send, Room
<1>2. CASE SendFails(r)
  BY <1>2 DEF SendFails
<1> QED  BY <1>1, <1>2

LEMMA FlushType ==
  ASSUME TypeOK, NEW p \in Flushers, FlushStep(p)
  PROVE  TypeOK'
<1> USE DEF TypeOK, taskVars, flushVars, storeVars, ghostVars, closeVars, Jobs
<1>1. CASE SpawnWrites(p)
  BY <1>1 DEF SpawnWrites
<1>2. ASSUME NEW t \in Tables, Drain(p, t)  PROVE TypeOK'
  BY <1>2, EmptySeq DEF Drain, Drained
<1> QED  BY <1>1, <1>2 DEF FlushStep

LEMMA FailWithType ==
  ASSUME TypeOK, NEW j \in Jobs, NEW recs \in Seq(Records), NEW kept \in Seq(Records),
         FailWith(j, recs, kept)
  PROVE  TypeOK'
<1> USE DEF TypeOK, taskVars, flushVars, storeVars, ghostVars, closeVars
<1> DEFINE t == j[2]
<1>1. t \in Tables  BY DEF Jobs
<1>2. store[t] \o recs \in Seq(Records)  BY <1>1, ConcatProperties
<1>3. Range(batch[j]) \subseteq Records  BY RangeOfSeq
<1> QED  BY <1>1, <1>2, <1>3, EmptySeq DEF FailWith, Lost

LEMMA WriteType ==
  ASSUME TypeOK, NEW j \in Jobs, WriteStep(j)
  PROVE  TypeOK'
<1> USE DEF TypeOK, taskVars, flushVars, storeVars, ghostVars, closeVars
<1> DEFINE t == j[2]
<1>0. t \in Tables  BY DEF Jobs
<1>1. CASE Acquire(j)
  BY <1>1 DEF Acquire
<1>2. CASE WriteOk(j)
  <2>1. store[t] \o residue[t] \o batch[j] \in Seq(Records)
    BY <1>0, ConcatProperties
  <2> QED  BY <1>0, <1>2, <2>1, EmptySeq DEF WriteOk
<1>3. CASE AcquireFails(j)
  BY <1>3, FailWithType, EmptySeq DEF AcquireFails
<1>4. CASE StatementFails(j)
  BY <1>4, FailWithType, EmptySeq, ZenonT(60) DEF StatementFails
<1>5. CASE CsvWriteFails(j)
  <2>1. PICK n \in 0 .. Len(batch[j]) :
          LET rows == residue[t] \o SubSeq(batch[j], 1, n)
          IN  \E w \in 0 .. Len(rows) : \E k \in 0 .. w :
                FailWith(j, SubSeq(rows, 1, w), SubSeq(rows, k + 1, Len(rows)))
    BY <1>5 DEF CsvWriteFails
  <2> DEFINE rows == residue[t] \o SubSeq(batch[j], 1, n)
  <2>2. SubSeq(batch[j], 1, n) \in Seq(Records)  BY SliceType
  <2>3. rows \in Seq(Records)  BY <1>0, <2>2, ConcatProperties
  <2> HIDE DEF rows
  <2>4. PICK w \in 0 .. Len(rows) : \E k \in 0 .. w :
          FailWith(j, SubSeq(rows, 1, w), SubSeq(rows, k + 1, Len(rows)))
    BY <2>1 DEF rows
  <2>k. PICK k \in 0 .. w :
          FailWith(j, SubSeq(rows, 1, w), SubSeq(rows, k + 1, Len(rows)))
    BY <2>4
  <2>5. SubSeq(rows, 1, w) \in Seq(Records)  BY <2>3, SliceType
  <2>6. SubSeq(rows, k + 1, Len(rows)) \in Seq(Records)
    BY <2>3, SliceType, LenProperties
  <2> QED  BY <2>k, <2>5, <2>6, FailWithType
<1> QED  BY <1>1, <1>2, <1>3, <1>4, <1>5 DEF WriteStep

LEMMA BackgroundType ==
  ASSUME TypeOK, HandInv, BackgroundTask
  PROVE  TypeOK'
<1> USE StorageAssumption DEF StorageAssumption, TypeOK, taskVars, flushVars, storeVars,
        ghostVars, closeVars
<1>0. "bg" \in Flushers  BY DEF Flushers
<1>1. CASE Receive
  <2>1. /\ Head(channel) \in Records /\ Tail(channel) \in Seq(Records)
        /\ Len(Tail(channel)) = Len(channel) - 1
    BY <1>1, HeadTailProperties DEF Receive
  <2> QED  BY <1>1, <2>1, LenProperties DEF Receive
<1>2. CASE Admit
  <2>1. held \in Records /\ TableOf[held] \in Tables  BY <1>2 DEF Admit, Full, HandInv
  <2>2. Append(buffer[TableOf[held]], held) \in Seq(Records)
    BY <2>1, AppendProperties
  <2>3. buffer' \in [Tables -> Seq(Records)]  BY <1>2, <2>1, <2>2 DEF Admit, Full
  <2>4. created' \in SUBSET Tables  BY <1>2, <2>1 DEF Admit, Full
  <2>5. /\ bg' \in {"batch", "select"}
        /\ BeginFlush("bg") \/ UNCHANGED <<phase, left>>
    BY <1>2, Zenon DEF Admit, Full
  <2>6. /\ phase' \in [Flushers -> {"idle", "drain", "await"}]
        /\ left' \in [Flushers -> SUBSET Tables]
    BY <1>0, <2>5, BeginFlushType
  <2> QED  BY <1>2, <2>3, <2>4, <2>5, <2>6 DEF Admit
<1>3. CASE Reject
  BY <1>3 DEF Reject, HandInv
<1>4. CASE TimerTick \/ ShutdownSignal
  <2>1. /\ phase' \in [Flushers -> {"idle", "drain", "await"}]
        /\ left' \in [Flushers -> SUBSET Tables]
    BY <1>0, <1>4, BeginFlushType DEF TimerTick, ShutdownSignal
  <2> QED  BY <1>4, <2>1 DEF TimerTick, ShutdownSignal
<1>5. CASE LoopFlushReturn
  <2>1. jobState' \in [Jobs -> {"none", "spawned", "writing", "ok", "err"}]
    BY <1>5, JobsJoinedType DEF LoopFlushReturn
  <2>2. /\ bg' \in {"forced", "select"}
        /\ BeginFlush("bg") \/ (phase' = [phase EXCEPT !["bg"] = "idle"] /\ left' = left)
    BY <1>5, Zenon DEF LoopFlushReturn
  <2>3. /\ phase' \in [Flushers -> {"idle", "drain", "await"}]
        /\ left' \in [Flushers -> SUBSET Tables]
    BY <1>0, <2>2, BeginFlushType
  <2>4. count' \in Nat  BY <1>5 DEF LoopFlushReturn
  <2> QED  BY <1>5, <2>1, <2>2, <2>3, <2>4 DEF LoopFlushReturn
<1>6. CASE ForcedFlushReturn
  <2>1. Buffered \subseteq Records  BY RangeOfSeq DEF Buffered
  <2>2. jobState' \in [Jobs -> {"none", "spawned", "writing", "ok", "err"}]
    BY <1>6, JobsJoinedType DEF ForcedFlushReturn
  <2>3. /\ buffer' \in [Tables -> Seq(Records)]
        /\ dropped' \in SUBSET Records
    <3>1. CASE FlushFailed("bg")
      <4>1. /\ buffer' = [t \in Tables |-> <<>>]
            /\ dropped' = dropped \cup Buffered
        BY <1>6, <3>1 DEF ForcedFlushReturn
      <4> QED  BY <2>1, <4>1, EmptySeq
    <3>2. CASE ~FlushFailed("bg")
      BY <1>6, <3>2 DEF ForcedFlushReturn
    <3> QED  BY <3>1, <3>2
  <2> QED  BY <1>0, <1>6, <2>2, <2>3 DEF ForcedFlushReturn
<1>7. CASE ShutdownFlushReturn
  <2>1. Range(channel) \subseteq Records  BY RangeOfSeq
  <2>2. jobState' \in [Jobs -> {"none", "spawned", "writing", "ok", "err"}]
    BY <1>7, JobsJoinedType DEF ShutdownFlushReturn
  <2>3. channel' \in Seq(Records) /\ Len(channel') = 0
    BY <1>7, EmptySeq DEF ShutdownFlushReturn
  <2> QED  BY <1>0, <1>7, <2>1, <2>2, <2>3 DEF ShutdownFlushReturn
<1>8. CASE FlushStep("bg")
  BY <1>0, <1>8, FlushType
<1> QED
  BY <1>1, <1>2, <1>3, <1>4, <1>5, <1>6, <1>7, <1>8 DEF BackgroundTask

LEMMA ExitType ==
  ASSUME TypeOK, Exit
  PROVE  TypeOK'
<1> USE StorageAssumption DEF StorageAssumption, TypeOK, taskVars, flushVars, storeVars,
        ghostVars, closeVars
<1>1. PICK w \in [Tables -> 0 .. Cardinality(Records)] :
        /\ \A t \in Tables : w[t] <= Len(residue[t])
        /\ store' = [t \in Tables |-> store[t] \o SubSeq(residue[t], 1, w[t])]
  BY DEF Exit
<1>2. \A t \in Tables : w[t] \in 0 .. Len(residue[t])
  <2>1. Cardinality(Records) \in Nat  BY FS_CardinalityType
  <2> QED  BY <1>1, <2>1
<1>3. \A t \in Tables : store[t] \o SubSeq(residue[t], 1, w[t]) \in Seq(Records)
  BY <1>2, SliceType, ConcatProperties
<1>4. store' \in [Tables -> Seq(Records)]
  BY <1>1, <1>3
<1>5. InMemory \cup Retained \subseteq Records
  BY RangeOfSeq DEF InMemory, Retained, InHand, Buffered, Batched
<1>6. dropped' \subseteq Records
  BY <1>5 DEF Exit
<1> QED
  BY <1>4, <1>6, EmptySeq DEF Exit

LEMMA CloseType ==
  ASSUME TypeOK, CloseSignal \/ Close
  PROVE  TypeOK'
<1> USE DEF TypeOK, taskVars, flushVars, storeVars, ghostVars, closeVars,
        BeginFlush, JobsJoined
<1>0. "closer" \in Flushers  BY DEF Flushers
<1>1. CASE CloseSignal
  BY <1>1 DEF CloseSignal
<1>2. CASE CloseFlush
  BY <1>0, <1>2 DEF CloseFlush
<1>3. CASE CloseFlushReturn
  BY <1>0, <1>3 DEF CloseFlushReturn
<1>4. ASSUME NEW t \in Tables, SyncWriter(t)  PROVE TypeOK'
  <2>1. PICK w \in 0 .. Len(residue[t]) :
          /\ store' = [store EXCEPT ![t] = @ \o SubSeq(residue[t], 1, w)]
          /\ residue' = [residue EXCEPT ![t] = IF w = Len(@) THEN <<>> ELSE @]
    BY <1>4 DEF SyncWriter
  <2>2. SubSeq(residue[t], 1, w) \in Seq(Records)  BY SliceType
  <2>3. store[t] \o SubSeq(residue[t], 1, w) \in Seq(Records)
    BY <2>2, ConcatProperties
  <2>4. store' \in [Tables -> Seq(Records)]  BY <2>1, <2>3
  <2>5. residue' \in [Tables -> Seq(Records)]  BY <2>1, EmptySeq
  <2> QED  BY <1>0, <1>4, <2>4, <2>5 DEF SyncWriter
<1>5. CASE Exit
  BY <1>5, ExitType
<1>6. CASE FlushStep("closer")
  BY <1>0, <1>6, FlushType
<1> QED
  BY <1>1, <1>2, <1>3, <1>4, <1>5, <1>6 DEF Close

\* Every step of the storage component keeps the types.
LEMMA NextType == TypeOK /\ HandInv /\ [Next]_vars => TypeOK'
<1> SUFFICES ASSUME TypeOK, HandInv, [Next]_vars  PROVE TypeOK'
  OBVIOUS
<1>1. CASE Senders
  BY <1>1, SendType DEF Senders
<1>2. CASE BackgroundTask
  BY <1>2, BackgroundType
<1>3. CASE \E j \in Jobs : WriteStep(j)
  BY <1>3, WriteType
<1>4. CASE CloseSignal \/ Close
  BY <1>4, CloseType
<1>5. CASE Stopped \/ UNCHANGED vars
  BY <1>5 DEF Stopped, vars, taskVars, flushVars, storeVars, ghostVars, closeVars, TypeOK
<1> QED
  BY <1>1, <1>2, <1>3, <1>4, <1>5 DEF Next

\* A write task touches its batch, its own state and the store, and nothing else.
LEMMA WriteFrame ==
  ASSUME NEW j \in Jobs, WriteStep(j)
  PROVE  /\ UNCHANGED <<channel, held, created, buffer, count, bg, phase, left,
                         accepted, refused, closer, shutdown>>
         /\ \/ Acquire(j)
            \/ WriteOk(j)
            \/ /\ jobState[j] \in {"spawned", "writing"}
               /\ \E recs, kept : FailWith(j, recs, kept)
<1> USE DEF taskVars, closeVars, Writing
<1>1. CASE Acquire(j)
  BY <1>1 DEF Acquire, ghostVars
<1>2. CASE WriteOk(j)
  BY <1>2 DEF WriteOk, ghostVars
<1>3. CASE AcquireFails(j)
  <2>1. FailWith(j, <<>>, <<>>) /\ jobState[j] = "spawned"
    BY <1>3 DEF AcquireFails
  <2> QED  BY <2>1 DEF FailWith, Lost
<1>4. CASE StatementFails(j)
  <2>1. PICK recs : FailWith(j, recs, <<>>)
    BY <1>4 DEF StatementFails
  <2>2. jobState[j] \in {"spawned", "writing"}
    BY <1>4 DEF StatementFails
  <2> QED  BY <2>1, <2>2 DEF FailWith, Lost
<1>5. CASE CsvWriteFails(j)
  <2>1. PICK recs, kept : FailWith(j, recs, kept)
    BY <1>5 DEF CsvWriteFails
  <2>2. jobState[j] \in {"spawned", "writing"}
    BY <1>5 DEF CsvWriteFails
  <2> QED  BY <2>1, <2>2 DEF FailWith, Lost
<1> QED
  BY <1>1, <1>2, <1>3, <1>4, <1>5 DEF WriteStep

\* A record is in hand exactly between its receipt and its admission or rejection.
LEMMA NextHand == TypeOK /\ HandInv /\ [Next]_vars => HandInv'
<1> SUFFICES ASSUME TypeOK, HandInv, [Next]_vars  PROVE HandInv'
  OBVIOUS
<1> USE StorageAssumption DEF StorageAssumption, HandInv, taskVars, flushVars, storeVars,
        ghostVars, closeVars
<1>1. CASE Senders
  BY <1>1 DEF Senders, Send, Room, SendFails
<1>2. CASE Receive
  <2>1. Head(channel) \in Records  BY <1>2, HeadTailProperties DEF Receive, TypeOK
  <2> QED  BY <1>2, <2>1 DEF Receive
<1>3. CASE Admit \/ Reject
  BY <1>3 DEF Admit, Full, Reject
<1>4. CASE TimerTick \/ ShutdownSignal
  BY <1>4 DEF TimerTick, ShutdownSignal
<1>5. CASE LoopFlushReturn \/ ForcedFlushReturn \/ ShutdownFlushReturn
  BY <1>5 DEF LoopFlushReturn, ForcedFlushReturn, ShutdownFlushReturn
<1>6. ASSUME NEW p \in Flushers, FlushStep(p)  PROVE HandInv'
  BY <1>6 DEF FlushStep, Drain, Drained, SpawnWrites
<1>7. CASE BackgroundTask
  <2>1. "bg" \in Flushers  BY DEF Flushers
  <2>2. CASE FlushStep("bg")
    BY <1>6, <2>1, <2>2
  <2> QED  BY <1>2, <1>3, <1>4, <1>5, <1>7, <2>2 DEF BackgroundTask
<1>8. CASE \E j \in Jobs : WriteStep(j)
  BY <1>8, WriteFrame
<1>9. CASE CloseSignal \/ Close
  BY <1>6, <1>9 DEF CloseSignal, Close, CloseFlush, CloseFlushReturn, SyncWriter, Exit, Flushers
<1>10. CASE Stopped \/ UNCHANGED vars
  BY <1>10 DEF Stopped, vars
<1> QED
  BY <1>1, <1>7, <1>8, <1>9, <1>10 DEF Next

\* The variables of the storage component always have their types: among other
\* things the channel never holds more records than its capacity.
THEOREM TypeCorrect == Spec => []TypeOK
<1>1. TypeOK /\ HandInv /\ [Next]_vars => TypeOK' /\ HandInv'
  BY NextType, NextHand
<1> QED
  BY InitType, <1>1, PTL DEF Spec

-----------------------------------------------------------------------------
(* The course of a flush. *)

LEMMA InitFlush == Init => FlushInv
BY DEF Init, FlushInv, Flushers, Jobs

\* Drains and spawns of either flusher keep the flushes in step.
LEMMA FlushStepFlush ==
  ASSUME TypeOK, FlushInv, NEW p \in Flushers, FlushStep(p)
  PROVE  FlushInv'
<1> USE DEF TypeOK, FlushInv, taskVars, storeVars, ghostVars, closeVars, Flushers, Jobs
<1>1. CASE SpawnWrites(p)
  BY <1>1 DEF SpawnWrites
<1>2. ASSUME NEW t \in Tables, Drain(p, t)  PROVE FlushInv'
  BY <1>2 DEF Drain, Drained
<1> QED  BY <1>1, <1>2 DEF FlushStep

\* So do the steps of the write tasks: a batch is empty when its write has ended.
LEMMA WriteStepFlush ==
  ASSUME TypeOK, FlushInv, NEW j \in Jobs, WriteStep(j)
  PROVE  FlushInv'
<1> USE DEF TypeOK, FlushInv
<1>1. PICK p \in Flushers, t \in Tables : j = <<p, t>>
  BY DEF Jobs
<1>2. /\ UNCHANGED <<buffer, bg, phase, left, closer>>
      /\ jobState[j] \in {"spawned", "writing"}
      /\ \/ /\ batch' = batch
            /\ jobState' = [jobState EXCEPT ![j] = "writing"]
         \/ /\ batch' = [batch EXCEPT ![j] = <<>>]
            /\ \E e \in {"ok", "err"} : jobState' = [jobState EXCEPT ![j] = e]
  BY WriteFrame DEF Acquire, WriteOk, Writing, FailWith, Lost
<1>3. /\ phase[p] = "await" /\ batch[j] # <<>>
      /\ \A k \in Jobs : k # j => batch'[k] = batch[k] /\ jobState'[k] = jobState[k]
      /\ \/ batch'[j] = batch[j] /\ jobState'[j] = "writing"
         \/ batch'[j] = <<>> /\ jobState'[j] \in {"ok", "err"}
  BY <1>1, <1>2
<1>4. ASSUME NEW q \in Flushers, NEW u \in Tables
      PROVE  /\ phase[q] = "idle" \/ (phase[q] = "drain" /\ u \in left[q])
                  => batch'[<<q, u>>] = <<>>
             /\ jobState'[<<q, u>>] \in {"spawned", "writing"}
                  <=> phase[q] = "await" /\ batch'[<<q, u>>] # <<>>
  <2>1. <<q, u>> \in Jobs  BY DEF Jobs
  <2>2. CASE <<q, u>> = j
    BY <1>1, <1>3, <2>2
  <2>3. CASE <<q, u>> # j
    BY <1>3, <2>1, <2>3
  <2> QED  BY <2>2, <2>3
<1> QED
  BY <1>2, <1>4

\* When a flush returns, its flusher has drained every table and owns no batch.
LEMMA ReturnedFlush ==
  ASSUME TypeOK, FlushInv, NEW p \in Flushers, FlushReturned(p)
  PROVE  /\ phase[p] = "await" /\ left[p] = {}
         /\ \A t \in Tables : batch[<<p, t>>] = <<>>
         /\ p = "bg" => Buffered = {}
<1>1. /\ phase[p] = "await" /\ left[p] = {}
      /\ \A t \in Tables : batch[<<p, t>>] = <<>>
  BY DEF FlushReturned, FlushInv
<1>2. p = "bg" => \A t \in Tables : Range(buffer[t]) = {}
  BY <1>1 DEF FlushInv, Range
<1> QED
  BY <1>1, <1>2 DEF Buffered

\* Every step keeps the flushes in step.
LEMMA NextFlush == TypeOK /\ HandInv /\ FlushInv /\ [Next]_vars => FlushInv'
<1> SUFFICES ASSUME TypeOK, HandInv, FlushInv, [Next]_vars  PROVE FlushInv'
  OBVIOUS
<1> USE DEF flushVars, taskVars, storeVars, ghostVars, closeVars
<1>1. CASE Senders
  BY <1>1 DEF Senders, Send, Room, SendFails, FlushInv
<1>2. CASE BackgroundTask
  <2>0. "bg" \in Flushers  BY DEF Flushers
  <2>1. CASE Receive \/ Reject
    BY <2>1 DEF Receive, Reject, FlushInv
  <2>2. CASE Admit
    BY <2>0, <2>2 DEF Admit, Full, BeginFlush, FlushInv, Flushers, TypeOK
  <2>3. CASE TimerTick \/ ShutdownSignal
    BY <2>0, <2>3 DEF TimerTick, ShutdownSignal, BeginFlush, FlushInv, Flushers, TypeOK
  <2>4. CASE LoopFlushReturn
    BY <2>0, <2>4, ReturnedFlush
       DEF LoopFlushReturn, BeginFlush, JobsJoined, FlushInv, Flushers, TypeOK, Jobs
  <2>5. CASE ForcedFlushReturn
    BY <2>0, <2>5, ReturnedFlush, SMTT(60)
       DEF ForcedFlushReturn, JobsJoined, FlushInv, Flushers, TypeOK, Jobs
  <2>6. CASE ShutdownFlushReturn
    BY <2>0, <2>6, ReturnedFlush, SMTT(60)
       DEF ShutdownFlushReturn, JobsJoined, FlushInv, Flushers, TypeOK, Jobs
  <2>7. CASE FlushStep("bg")
    BY <2>0, <2>7, FlushStepFlush
  <2> QED
    BY <1>2, <2>1, <2>2, <2>3, <2>4, <2>5, <2>6, <2>7 DEF BackgroundTask
<1>3. CASE \E j \in Jobs : WriteStep(j)
  BY <1>3, WriteStepFlush
<1>4. CASE CloseSignal
  BY <1>4 DEF CloseSignal, FlushInv
<1>5. CASE Close
  <2>0. "closer" \in Flushers  BY DEF Flushers
  <2>1. CASE CloseFlush
    BY <2>0, <2>1 DEF CloseFlush, BeginFlush, FlushInv, Flushers, TypeOK
  <2>2. CASE CloseFlushReturn
    BY <2>0, <2>2, ReturnedFlush, SMTT(60)
       DEF CloseFlushReturn, JobsJoined, FlushInv, Flushers, TypeOK, Jobs
  <2>3. ASSUME NEW t \in Tables, SyncWriter(t)  PROVE FlushInv'
    BY <2>0, <2>3 DEF SyncWriter, FlushInv, Flushers, TypeOK
  <2>4. CASE Exit
    BY <2>4 DEF Exit, FlushInv, Flushers, Jobs
  <2>5. CASE FlushStep("closer")
    BY <2>0, <2>5, FlushStepFlush
  <2> QED
    BY <1>5, <2>1, <2>2, <2>3, <2>4, <2>5 DEF Close
<1>6. CASE Stopped \/ UNCHANGED vars
  BY <1>6 DEF Stopped, vars, FlushInv
<1> QED
  BY <1>1, <1>2, <1>3, <1>4, <1>5, <1>6 DEF Next

-----------------------------------------------------------------------------
(* The counter and the buffer. *)

\* The records of a sequence with one more, or one less, element.
LEMMA RangeAppend ==
  ASSUME NEW S, NEW s \in Seq(S), NEW e \in S
  PROVE  Range(Append(s, e)) = Range(s) \cup {e}
<1>1. <<e>> \in Seq(S) /\ Range(<<e>>) = {e}
  BY DEF Range
<1>2. Append(s, e) = s \o <<e>>
  BY AppendIsConcat
<1>3. Range(s \o <<e>>) = Range(s) \cup Range(<<e>>)
  BY <1>1, RangeConcatenation, ZenonT(60)
<1> QED
  BY <1>1, <1>2, <1>3

LEMMA RangeHeadTail ==
  ASSUME NEW S, NEW s \in Seq(S), s # <<>>
  PROVE  Range(s) = {Head(s)} \cup Range(Tail(s))
<1> DEFINE h == <<Head(s)>>
           t == Tail(s)
<1>1. h \in Seq(S) /\ Range(h) = {Head(s)}
  BY HeadTailProperties DEF Range
<1>2. t \in Seq(S)
  BY HeadTailProperties
<1>3. s = h \o t
  BY SMT
<1> HIDE DEF h, t
<1>4. Range(h \o t) = Range(h) \cup Range(t)
  BY <1>1, <1>2, RangeConcatenation
<1> QED
  BY <1>1, <1>3, <1>4 DEF t

LEMMA BufferedFinite ==
  ASSUME TypeOK
  PROVE  /\ Buffered \subseteq Records /\ IsFiniteSet(Buffered)
         /\ Cardinality(Buffered) \in Nat
         /\ \A B \in SUBSET Buffered : Cardinality(B) <= Cardinality(Buffered)
<1>1. Buffered \subseteq Records
  BY RangeOfSeq DEF Buffered, TypeOK
<1>2. IsFiniteSet(Buffered)
  BY <1>1, FS_Subset, StorageAssumption DEF StorageAssumption
<1> QED
  BY <1>1, <1>2, FS_Subset, FS_CardinalityType

\* Admitting a record adds it to what is buffered, and nothing else.
LEMMA AdmitBuffers ==
  ASSUME TypeOK, HandInv, Admit
  PROVE  /\ held \in Records
         /\ Buffered' = Buffered \cup {held}
<1>1. held \in Records /\ TableOf[held] \in Tables
  BY StorageAssumption DEF Admit, Full, HandInv, TypeOK, StorageAssumption
<1> DEFINE u == TableOf[held]
<1>2. buffer' = [buffer EXCEPT ![u] = Append(@, held)]
  BY DEF Admit, Full
<1>3. Range(buffer'[u]) = Range(buffer[u]) \cup {held}
  BY <1>1, <1>2, RangeAppend DEF TypeOK
<1>4. \A t \in Tables : t # u => Range(buffer'[t]) = Range(buffer[t])
  BY <1>2 DEF TypeOK
<1> HIDE DEF u
<1> QED
  BY <1>1, <1>3, <1>4 DEF Buffered, u

\* A step that takes from the buffer at most, keeps the counter and does not turn
\* to the channel keeps the counter right.
LEMMA CountFrame ==
  ASSUME TypeOK, CountInv,
         Buffered' \subseteq Buffered,
         count' = count,
         bg' \in {"select", "precheck"} => bg \in {"select", "precheck"},
         bg' = "forced" => bg = "forced"
  PROVE  CountInv'
<1>1. Cardinality(Buffered)' <= Cardinality(Buffered) /\ Cardinality(Buffered)' \in Nat
  BY BufferedFinite, FS_Subset, FS_CardinalityType
<1>2. BatchSize \in Nat /\ count \in Nat /\ Cardinality(Buffered) \in Nat
  BY BufferedFinite, StorageAssumption DEF StorageAssumption, TypeOK
<1> QED
  BY <1>1, <1>2 DEF CountInv, BufferBounded, GuardFindsNothing

LEMMA InitCount == Init => CountInv
<1> SUFFICES ASSUME Init  PROVE CountInv
  OBVIOUS
<1>1. Buffered = {}
  BY DEF Init, Buffered, Range
<1> QED
  BY <1>1, FS_EmptySet, StorageAssumption
     DEF Init, CountInv, BufferBounded, GuardFindsNothing, StorageAssumption

\* Every step keeps the counter right.
LEMMA NextCount ==
  TypeOK /\ HandInv /\ FlushInv /\ CountInv /\ [Next]_vars => CountInv'
<1> SUFFICES ASSUME TypeOK, HandInv, FlushInv, CountInv, [Next]_vars  PROVE CountInv'
  OBVIOUS
<1> USE DEF taskVars, flushVars, storeVars, ghostVars, closeVars
<1>0. buffer' = buffer => Buffered' = Buffered
  BY DEF Buffered
<1>e. ASSUME Buffered' = {}, count' \in Nat  PROVE CountInv'
  <2>1. Cardinality(Buffered)' = 0  BY <1>e, FS_EmptySet
  <2> QED
    BY <1>e, <2>1, StorageAssumption DEF CountInv, BufferBounded, GuardFindsNothing, StorageAssumption
<1>1. CASE Senders
  BY <1>0, <1>1, CountFrame DEF Senders, Send, Room, SendFails
<1>2. ASSUME NEW p \in Flushers, FlushStep(p)  PROVE CountInv'
  <2>1. CASE SpawnWrites(p)
    BY <1>0, <2>1, CountFrame DEF SpawnWrites
  <2>2. ASSUME NEW t \in Tables, Drain(p, t)  PROVE CountInv'
    <3>1. buffer' = [buffer EXCEPT ![t] = <<>>]
      BY <2>2 DEF Drain, Drained
    <3>2. \A u \in Tables : Range(buffer'[u]) \subseteq Range(buffer[u])
      BY <3>1 DEF TypeOK, Range
    <3>3. Buffered' \subseteq Buffered
      BY <3>2 DEF Buffered
    <3> QED  BY <2>2, <3>3, CountFrame DEF Drain, Drained
  <2> QED  BY <1>2, <2>1, <2>2 DEF FlushStep
<1>3. CASE BackgroundTask
  <2>0. "bg" \in Flushers  BY DEF Flushers
  <2>1. CASE Receive \/ Reject
    BY <1>0, <2>1, CountFrame DEF Receive, Reject
  <2>2. CASE Admit
    <3>1. /\ held \in Records /\ Buffered' = Buffered \cup {held}
          /\ bg = "precheck" /\ count' = count + 1
          /\ bg' = "select" => count' < BatchSize
          /\ bg' \in {"select", "batch"}
      BY <2>2, AdmitBuffers, StorageAssumption DEF Admit, Full, TypeOK, StorageAssumption
    <3>2. /\ Cardinality(Buffered)' <= Cardinality(Buffered) + 1
          /\ Buffered = {} => Cardinality(Buffered)' = 1
      <4>1. /\ IsFiniteSet(Buffered) /\ Cardinality(Buffered) \in Nat
            /\ Cardinality(Buffered)' = Cardinality(Buffered \cup {held})
        BY <3>1, BufferedFinite
      <4>2. Cardinality(Buffered \cup {held})
              = IF held \in Buffered THEN Cardinality(Buffered) ELSE Cardinality(Buffered) + 1
        BY <4>1, FS_AddElement
      <4> QED  BY <4>1, <4>2, FS_EmptySet
    <3>3. /\ BatchSize \in Nat \ {0} /\ count \in Nat /\ Cardinality(Buffered) \in Nat
          /\ Cardinality(Buffered)' \in Nat
      BY <3>1, BufferedFinite, FS_AddElement, FS_CardinalityType, StorageAssumption
         DEF StorageAssumption, TypeOK
    <3>4. Cardinality(Buffered)' <= count'
      BY <3>1, <3>2, <3>3 DEF CountInv
    <3>5. Cardinality(Buffered)' <= BatchSize
      BY <3>1, <3>2, <3>3 DEF CountInv
    <3> QED  BY <3>1, <3>4, <3>5 DEF CountInv, BufferBounded, GuardFindsNothing
  <2>3. CASE TimerTick \/ ShutdownSignal
    BY <1>0, <2>3, CountFrame DEF TimerTick, ShutdownSignal
  <2>4. CASE LoopFlushReturn
    <3>1. Buffered' = {}
      BY <1>0, <2>0, <2>4, ReturnedFlush DEF LoopFlushReturn
    <3>2. count' \in Nat
      BY <2>4 DEF LoopFlushReturn, TypeOK
    <3> QED  BY <1>e, <3>1, <3>2
  <2>5. CASE ForcedFlushReturn
    <3>1. Buffered = {} /\ (buffer' = buffer \/ buffer' = [t \in Tables |-> <<>>])
      BY <2>0, <2>5, ReturnedFlush DEF ForcedFlushReturn
    <3>2. CASE buffer' = [t \in Tables |-> <<>>]
      <4>1. \A t \in Tables : Range(buffer'[t]) = {}  BY <3>2 DEF Range
      <4> QED  BY <4>1, <1>e, <2>5 DEF Buffered, ForcedFlushReturn
    <3>3. CASE buffer' = buffer
      BY <1>0, <1>e, <2>5, <3>1, <3>3 DEF ForcedFlushReturn
    <3> QED  BY <3>1, <3>2, <3>3
  <2>6. CASE ShutdownFlushReturn
    BY <1>0, <2>6, CountFrame DEF ShutdownFlushReturn
  <2>7. CASE FlushStep("bg")
    BY <1>2, <2>0, <2>7
  <2> QED
    BY <1>3, <2>1, <2>2, <2>3, <2>4, <2>5, <2>6, <2>7 DEF BackgroundTask
<1>4. CASE \E j \in Jobs : WriteStep(j)
  BY <1>0, <1>4, WriteFrame, CountFrame
<1>5. CASE CloseSignal
  BY <1>0, <1>5, CountFrame DEF CloseSignal
<1>6. CASE Close
  <2>0. "closer" \in Flushers  BY DEF Flushers
  <2>1. CASE CloseFlush \/ CloseFlushReturn
    BY <1>0, <2>1, CountFrame DEF CloseFlush, CloseFlushReturn
  <2>2. ASSUME NEW t \in Tables, SyncWriter(t)  PROVE CountInv'
    BY <1>0, <2>2, CountFrame DEF SyncWriter
  <2>3. CASE Exit
    <3>1. Buffered' = {} /\ count' = count
      BY <2>3 DEF Exit, Buffered, Range
    <3> QED  BY <1>e, <3>1 DEF TypeOK
  <2>4. CASE FlushStep("closer")
    BY <1>2, <2>0, <2>4
  <2> QED
    BY <1>6, <2>1, <2>2, <2>3, <2>4 DEF Close
<1>7. CASE Stopped \/ UNCHANGED vars
  BY <1>0, <1>7, CountFrame DEF Stopped, vars
<1> QED
  BY <1>1, <1>3, <1>4, <1>5, <1>6, <1>7 DEF Next

-----------------------------------------------------------------------------
(* Where the rows of a write go. *)

\* The records of a slice are among those of the sequence; a prefix and a suffix
\* that leave no gap have all of them.
LEMMA RangeSlice ==
  ASSUME NEW S, NEW s \in Seq(S), NEW m \in Nat \ {0}, NEW n \in 0 .. Len(s)
  PROVE  /\ SubSeq(s, m, n) \in Seq(S)
         /\ Range(SubSeq(s, m, n)) = {s[i] : i \in m .. n}
         /\ Range(SubSeq(s, m, n)) \subseteq Range(s)
<1> DEFINE q == SubSeq(s, m, n)
<1>1. \A i \in m .. n : s[i] \in S
  BY ElementOfSeq, LenProperties
<1>2. /\ q \in Seq(S)
      /\ Len(q) = IF m <= n THEN n - m + 1 ELSE 0
      /\ \A i \in 1 .. n - m + 1 : q[i] = s[m + i - 1]
  BY <1>1, SubSeqProperties
<1> HIDE DEF q
<1>3. Range(q) = {q[i] : i \in 1 .. Len(q)}
  BY <1>2, RangeEquality
<1>4. Range(s) = {s[i] : i \in 1 .. Len(s)} /\ Len(s) \in Nat
  BY RangeEquality, LenProperties
<1>5. Range(q) = {s[i] : i \in m .. n}
  <2>1. ASSUME NEW i \in 1 .. Len(q)  PROVE q[i] \in {s[k] : k \in m .. n}
    <3>1. i \in 1 .. n - m + 1 /\ m + i - 1 \in m .. n  BY <1>2, <1>4
    <3> QED  BY <1>2, <3>1
  <2>2. ASSUME NEW k \in m .. n  PROVE s[k] \in {q[i] : i \in 1 .. Len(q)}
    <3>1. /\ k - m + 1 \in 1 .. Len(q) /\ k - m + 1 \in 1 .. n - m + 1
          /\ m + (k - m + 1) - 1 = k
      BY <1>2, <1>4
    <3>2. q[k - m + 1] = s[m + (k - m + 1) - 1]  BY <1>2, <3>1
    <3> QED  BY <3>1, <3>2
  <2> QED  BY <1>3, <2>1, <2>2
<1>6. m .. n \subseteq 1 .. Len(s)
  BY <1>4
<1> QED
  BY <1>2, <1>4, <1>5, <1>6 DEF q

LEMMA RangeSplit ==
  ASSUME NEW S, NEW s \in Seq(S), NEW w \in 0 .. Len(s), NEW k \in 0 .. w
  PROVE  Range(SubSeq(s, 1, w)) \cup Range(SubSeq(s, k + 1, Len(s))) = Range(s)
<1>1. Len(s) \in Nat
  BY LenProperties
<1>2. Range(SubSeq(s, 1, w)) = {s[i] : i \in 1 .. w}
  BY <1>1, RangeSlice
<1>3. Range(SubSeq(s, k + 1, Len(s))) = {s[i] : i \in k + 1 .. Len(s)}
  <2>1. k + 1 \in Nat \ {0} /\ Len(s) \in 0 .. Len(s)  BY <1>1
  <2> QED  BY <2>1, RangeSlice
<1>4. Range(s) = {s[i] : i \in 1 .. Len(s)}
  BY RangeEquality
<1>5. 1 .. Len(s) = (1 .. w) \cup (k + 1 .. Len(s))
  BY <1>1
<1> QED
  BY <1>2, <1>3, <1>4, <1>5

\* A write that fails puts rows of its table into the table, and what its CSV
\* writer held is in the table or still held.
LEMMA FailedWrite ==
  ASSUME TypeOK, KeptInv, NEW j \in Jobs,
         AcquireFails(j) \/ StatementFails(j) \/ CsvWriteFails(j)
  PROVE  \E recs, kept \in Seq(Records) :
           /\ FailWith(j, recs, kept)
           /\ Range(residue[j[2]]) \subseteq Range(recs) \cup Range(kept)
           /\ Range(recs) \cup Range(kept) \subseteq Range(residue[j[2]]) \cup Range(batch[j])
           /\ Backend # "csv" => kept = <<>>
<1> DEFINE t == j[2]
<1>1. t \in Tables /\ residue[t] \in Seq(Records) /\ batch[j] \in Seq(Records)
  BY DEF Jobs, TypeOK
<1>2. <<>> \in Seq(Records) /\ Range(<<>>) = {}
  BY EmptySeq DEF Range
<1>3. CASE Backend # "csv"
  <2>1. PICK recs \in {<<>>, batch[j]} : FailWith(j, recs, <<>>)
    BY <1>3 DEF AcquireFails, StatementFails, CsvWriteFails
  <2>2. Range(residue[t]) = {}
    BY <1>1, <1>2, <1>3 DEF KeptInv
  <2>3. recs \in Seq(Records) /\ Range(recs) \subseteq Range(batch[j])
    BY <1>1, <1>2, <2>1
  <2> QED
    BY <1>2, <2>1, <2>2, <2>3
<1>4. CASE Backend = "csv"
  <2>1. PICK n \in 0 .. Len(batch[j]) :
          LET rows == residue[t] \o SubSeq(batch[j], 1, n)
          IN  \E w \in 0 .. Len(rows) : \E k \in 0 .. w :
                FailWith(j, SubSeq(rows, 1, w), SubSeq(rows, k + 1, Len(rows)))
    BY <1>4 DEF CsvWriteFails, AcquireFails, StatementFails
  <2> DEFINE rows == residue[t] \o SubSeq(batch[j], 1, n)
  <2>2. SubSeq(batch[j], 1, n) \in Seq(Records)
        /\ Range(SubSeq(batch[j], 1, n)) \subseteq Range(batch[j])
    BY <1>1, RangeSlice
  <2>3. /\ rows \in Seq(Records)
        /\ Range(residue[t]) \subseteq Range(rows)
        /\ Range(rows) \subseteq Range(residue[t]) \cup Range(batch[j])
    <3>1. rows \in Seq(Records)
      BY <1>1, <2>2, ConcatProperties
    <3>2. Range(rows) = Range(residue[t]) \cup Range(SubSeq(batch[j], 1, n))
      BY <1>1, <2>2, RangeConcatenation, ZenonT(60)
    <3> HIDE DEF rows
    <3> QED  BY <2>2, <3>1, <3>2
  <2> HIDE DEF rows
  <2>4. PICK w \in 0 .. Len(rows) : \E k \in 0 .. w :
          FailWith(j, SubSeq(rows, 1, w), SubSeq(rows, k + 1, Len(rows)))
    BY <2>1 DEF rows
  <2>5. PICK k \in 0 .. w :
          FailWith(j, SubSeq(rows, 1, w), SubSeq(rows, k + 1, Len(rows)))
    BY <2>4
  <2> DEFINE recs == SubSeq(rows, 1, w)
             kept == SubSeq(rows, k + 1, Len(rows))
  <2>6. recs \in Seq(Records)
    BY <2>3, SliceType
  <2>7. kept \in Seq(Records)
    BY <2>3, SliceType, LenProperties
  <2>8. Range(recs) \cup Range(kept) = Range(rows)
    BY <2>3, RangeSplit
  <2> HIDE DEF recs, kept
  <2>9. FailWith(j, recs, kept)
    BY <2>5 DEF recs, kept
  <2> QED
    BY <1>4, <2>3, <2>6, <2>7, <2>8, <2>9
<1> QED
  BY <1>3, <1>4

\* Only a CSV writer ever keeps rows.
LEMMA NextKept == TypeOK /\ KeptInv /\ [Next]_vars => KeptInv'
<1> SUFFICES ASSUME TypeOK, KeptInv, [Next]_vars, Backend # "csv"
             PROVE  \A t \in Tables : residue'[t] = <<>>
  BY DEF KeptInv
<1> USE DEF KeptInv, taskVars, flushVars, storeVars, ghostVars, closeVars
<1>1. CASE UNCHANGED residue
  BY <1>1
<1>2. CASE Senders
  BY <1>1, <1>2 DEF Senders, Send, Room, SendFails
<1>3. ASSUME NEW p \in Flushers, FlushStep(p)  PROVE UNCHANGED residue
  BY <1>3 DEF FlushStep, SpawnWrites, Drain, Drained
<1>4. CASE BackgroundTask
  <2>1. "bg" \in Flushers  BY DEF Flushers
  <2>2. CASE FlushStep("bg")
    BY <1>1, <1>3, <2>1, <2>2
  <2> QED
    BY <1>1, <1>4, <2>2 DEF BackgroundTask, Receive, Admit, Full, Reject, TimerTick, ShutdownSignal,
         LoopFlushReturn, ForcedFlushReturn, ShutdownFlushReturn
<1>5. ASSUME NEW j \in Jobs, WriteStep(j)
      PROVE  \A t \in Tables : residue'[t] = <<>>
  <2>1. CASE AcquireFails(j) \/ StatementFails(j) \/ CsvWriteFails(j)
    <3>1. \E recs : FailWith(j, recs, <<>>)  BY <2>1, FailedWrite
    <3> QED  BY <3>1 DEF FailWith, Lost, TypeOK
  <2>2. CASE Acquire(j)
    BY <2>2, <1>1 DEF Acquire
  <2>3. CASE WriteOk(j)
    BY <2>3 DEF WriteOk, TypeOK
  <2> QED  BY <1>5, <2>1, <2>2, <2>3 DEF WriteStep
<1>6. CASE CloseSignal
  BY <1>1, <1>6 DEF CloseSignal
<1>7. CASE Close
  <2>0. "closer" \in Flushers  BY DEF Flushers
  <2>1. CASE CloseFlush \/ CloseFlushReturn
    BY <1>1, <2>1 DEF CloseFlush, CloseFlushReturn
  <2>2. ASSUME NEW t \in Tables, SyncWriter(t)  PROVE \A u \in Tables : residue'[u] = <<>>
    BY <2>2 DEF SyncWriter, TypeOK
  <2>3. CASE Exit
    BY <2>3 DEF Exit
  <2>4. CASE FlushStep("closer")
    BY <1>1, <1>3, <2>0, <2>4
  <2> QED
    BY <1>7, <2>1, <2>2, <2>3, <2>4 DEF Close
<1>8. CASE Stopped \/ UNCHANGED vars
  BY <1>1, <1>8 DEF Stopped, vars
<1> QED
  BY <1>2, <1>4, <1>5, <1>6, <1>7, <1>8 DEF Next

-----------------------------------------------------------------------------
(* No record vanishes. *)

\* The records of the sequences f[x], and of those other than f[d].
RecordsOf(f, D) == UNION {Range(f[x]) : x \in D}
OthersOf(f, D, d) == UNION {Range(f[x]) : x \in D \ {d}}

LEMMA RecordsOfOne ==
  ASSUME NEW D, NEW d \in D, NEW f
  PROVE  RecordsOf(f, D) = Range(f[d]) \cup OthersOf(f, D, d)
BY DEF RecordsOf, OthersOf

LEMMA OthersSame ==
  ASSUME NEW D, NEW d, NEW f, NEW g, \A x \in D \ {d} : g[x] = f[x]
  PROVE  OthersOf(g, D, d) = OthersOf(f, D, d)
BY DEF OthersOf

LEMMA AsRecordsOf ==
  /\ Buffered = RecordsOf(buffer, Tables) /\ Buffered' = RecordsOf(buffer', Tables)
  /\ Batched = RecordsOf(batch, Jobs) /\ Batched' = RecordsOf(batch', Jobs)
  /\ Retained = RecordsOf(residue, Tables) /\ Retained' = RecordsOf(residue', Tables)
  /\ Stored = RecordsOf(store, Tables) /\ Stored' = RecordsOf(store', Tables)
BY DEF RecordsOf, Buffered, Batched, Retained, Stored

LEMMA InitConservation == Init => Conservation
BY DEF Init, Conservation, InMemory, InHand, Buffered, Batched, Retained, Stored, Range

\* A drain moves the records of a table from the buffer to an empty batch.
LEMMA DrainMoves ==
  ASSUME TypeOK, FlushInv, NEW p \in Flushers, NEW t \in Tables, Drain(p, t)
  PROVE  Buffered' \cup Batched' = Buffered \cup Batched
<1> DEFINE j == <<p, t>>
           B == OthersOf(buffer, Tables, t)
           Q == OthersOf(batch, Jobs, j)
<1>1. j \in Jobs
  BY DEF Jobs
<1>2. Range(batch[j]) = {}
  BY DEF Drain, Drained, FlushInv, Range
<1>3. /\ Range(buffer'[t]) = {} /\ \A u \in Tables \ {t} : buffer'[u] = buffer[u]
      /\ Range(batch'[j]) = Range(buffer[t]) /\ \A k \in Jobs \ {j} : batch'[k] = batch[k]
  BY <1>1 DEF Drain, Drained, TypeOK, Range
<1>4. Buffered = Range(buffer[t]) \cup B /\ Buffered' = Range(buffer'[t]) \cup B
  <2>1. OthersOf(buffer', Tables, t) = B  BY <1>3, OthersSame
  <2>2. Buffered = Range(buffer[t]) \cup B  BY RecordsOfOne, AsRecordsOf
  <2>3. Buffered' = Range(buffer'[t]) \cup OthersOf(buffer', Tables, t)
    BY RecordsOfOne, AsRecordsOf
  <2> QED  BY <2>1, <2>2, <2>3
<1>5. Batched = Range(batch[j]) \cup Q /\ Batched' = Range(batch'[j]) \cup Q
  BY <1>1, <1>3, RecordsOfOne, OthersSame, AsRecordsOf
<1> HIDE DEF B, Q, j
<1> QED
  BY <1>2, <1>3, <1>4, <1>5

\* A write moves its batch to the table, to the CSV writer, or to the lost records.
LEMMA WriteMoves ==
  ASSUME TypeOK, KeptInv, NEW j \in Jobs, WriteStep(j)
  PROVE  Batched' \cup Retained' \cup Stored' \cup dropped'
           = Batched \cup Retained \cup Stored \cup dropped
<1> DEFINE t == j[2]
           Q == OthersOf(batch, Jobs, j)
           K == OthersOf(residue, Tables, t)
           S == OthersOf(store, Tables, t)
<1>1. /\ t \in Tables /\ store[t] \in Seq(Records)
      /\ residue[t] \in Seq(Records) /\ batch[j] \in Seq(Records)
  BY DEF Jobs, TypeOK
<1>2. CASE Acquire(j)
  BY <1>2 DEF Acquire, storeVars, ghostVars, Batched, Retained, Stored
<1>3. /\ Batched = Range(batch[j]) \cup Q
      /\ Retained = Range(residue[t]) \cup K
      /\ Stored = Range(store[t]) \cup S
  BY <1>1, RecordsOfOne, AsRecordsOf
<1>4. ASSUME NEW b, NEW r, NEW s,
             batch' = [batch EXCEPT ![j] = b],
             residue' = [residue EXCEPT ![t] = r],
             store' = [store EXCEPT ![t] = s]
      PROVE  /\ Batched' = Range(b) \cup Q
             /\ Retained' = Range(r) \cup K
             /\ Stored' = Range(s) \cup S
  <2>1. batch'[j] = b /\ \A k \in Jobs \ {j} : batch'[k] = batch[k]
    BY <1>4 DEF TypeOK
  <2>2. residue'[t] = r /\ \A u \in Tables \ {t} : residue'[u] = residue[u]
    BY <1>1, <1>4 DEF TypeOK
  <2>3. store'[t] = s /\ \A u \in Tables \ {t} : store'[u] = store[u]
    BY <1>1, <1>4 DEF TypeOK
  <2>4. Batched' = Range(batch'[j]) \cup Q
    BY <2>1, RecordsOfOne, OthersSame, AsRecordsOf
  <2>5. Retained' = Range(residue'[t]) \cup K
    BY <1>1, <2>2, RecordsOfOne, OthersSame, AsRecordsOf
  <2>6. Stored' = Range(store'[t]) \cup S
    BY <1>1, <2>3, RecordsOfOne, OthersSame, AsRecordsOf
  <2> QED  BY <2>1, <2>2, <2>3, <2>4, <2>5, <2>6
<1>0. Range(<<>>) = {}
  BY DEF Range
<1>5. CASE WriteOk(j)
  <2> DEFINE s == store[t] \o residue[t] \o batch[j]
  <2>1. /\ batch' = [batch EXCEPT ![j] = <<>>]
        /\ residue' = [residue EXCEPT ![t] = <<>>]
        /\ store' = [store EXCEPT ![t] = s]
        /\ dropped' = dropped
    BY <1>5 DEF WriteOk, ghostVars
  <2>2. store[t] \o residue[t] \in Seq(Records)
        /\ Range(store[t] \o residue[t]) = Range(store[t]) \cup Range(residue[t])
    BY <1>1, ConcatProperties, RangeConcatenation
  <2>3. Range(s) = Range(store[t]) \cup Range(residue[t]) \cup Range(batch[j])
    <3> DEFINE q == store[t] \o residue[t]
    <3> HIDE DEF q
    <3>1. q \in Seq(Records) /\ Range(q) = Range(store[t]) \cup Range(residue[t])
      BY <2>2 DEF q
    <3>2. Range(q \o batch[j]) = Range(q) \cup Range(batch[j])
      BY <1>1, <3>1, RangeConcatenation
    <3> QED  BY <3>1, <3>2 DEF q
  <2> HIDE DEF s
  <2>4. Batched' = Q /\ Retained' = K /\ Stored' = Range(s) \cup S
    BY <1>0, <1>4, <2>1
  <2> HIDE DEF Q, K, S
  <2> QED  BY <1>3, <2>1, <2>3, <2>4
<1>6. CASE AcquireFails(j) \/ StatementFails(j) \/ CsvWriteFails(j)
  <2>1. PICK recs \in Seq(Records), kept \in Seq(Records) :
           /\ FailWith(j, recs, kept)
           /\ Range(residue[t]) \subseteq Range(recs) \cup Range(kept)
           /\ Range(recs) \cup Range(kept) \subseteq Range(residue[t]) \cup Range(batch[j])
    BY <1>6, FailedWrite
  <2>2. /\ batch' = [batch EXCEPT ![j] = <<>>]
        /\ residue' = [residue EXCEPT ![t] = kept]
        /\ store' = [store EXCEPT ![t] = store[t] \o recs]
        /\ dropped' = dropped \cup (Range(batch[j]) \ (Range(recs) \cup Range(kept)))
    BY <2>1 DEF FailWith, Lost
  <2>3. Range(store[t] \o recs) = Range(store[t]) \cup Range(recs)
    BY <1>1, RangeConcatenation
  <2>4. /\ Batched' = Q
        /\ Retained' = Range(kept) \cup K
        /\ Stored' = Range(store[t] \o recs) \cup S
    BY <1>0, <1>4, <2>2
  <2> HIDE DEF Q, K, S
  <2> QED  BY <1>3, <2>1, <2>2, <2>3, <2>4
<1> QED
  BY <1>2, <1>5, <1>6 DEF WriteStep

\* Flushing a CSV writer moves the rows it kept to the table, or keeps them.
LEMMA SyncMoves ==
  ASSUME TypeOK, NEW t \in Tables, SyncWriter(t)
  PROVE  Retained' \cup Stored' = Retained \cup Stored
<1> DEFINE K == OthersOf(residue, Tables, t)
           S == OthersOf(store, Tables, t)
<1>1. store[t] \in Seq(Records) /\ residue[t] \in Seq(Records)
  BY DEF TypeOK
<1>2. PICK w \in 0 .. Len(residue[t]) :
        /\ store' = [store EXCEPT ![t] = @ \o SubSeq(residue[t], 1, w)]
        /\ residue' = [residue EXCEPT ![t] = IF w = Len(@) THEN <<>> ELSE @]
  BY DEF SyncWriter
<1> DEFINE q == SubSeq(residue[t], 1, w)
<1>3. q \in Seq(Records) /\ Range(q) \subseteq Range(residue[t])
  BY <1>1, RangeSlice
<1>4. w = Len(residue[t]) => q = residue[t]
  BY <1>1, SubSeqFull
<1> HIDE DEF q
<1>5. /\ store'[t] = store[t] \o q /\ \A u \in Tables \ {t} : store'[u] = store[u]
      /\ residue'[t] = (IF w = Len(residue[t]) THEN <<>> ELSE residue[t])
      /\ \A u \in Tables \ {t} : residue'[u] = residue[u]
  BY <1>2 DEF q, TypeOK
<1>6. Range(store'[t]) = Range(store[t]) \cup Range(q)
  BY <1>1, <1>3, <1>5, RangeConcatenation
<1>7. Range(residue'[t]) \cup Range(q) = Range(residue[t])
  <2>1. CASE w = Len(residue[t])
    <3>1. Range(residue'[t]) = {}
      BY <1>5, <2>1 DEF Range
    <3> QED  BY <1>4, <2>1, <3>1
  <2>2. CASE w # Len(residue[t])
    BY <1>3, <1>5, <2>2
  <2> QED  BY <2>1, <2>2
<1>8. Retained = Range(residue[t]) \cup K /\ Retained' = Range(residue'[t]) \cup K
  BY <1>5, RecordsOfOne, OthersSame, AsRecordsOf
<1>9. Stored = Range(store[t]) \cup S /\ Stored' = Range(store'[t]) \cup S
  <2>1. OthersOf(store', Tables, t) = S  BY <1>5, OthersSame
  <2>2. Stored = Range(store[t]) \cup S  BY RecordsOfOne, AsRecordsOf
  <2>3. Stored' = Range(store'[t]) \cup OthersOf(store', Tables, t)
    BY RecordsOfOne, AsRecordsOf
  <2> QED  BY <2>1, <2>2, <2>3
<1> HIDE DEF K, S
<1> QED
  BY <1>6, <1>7, <1>8, <1>9

\* At the end of the process all that was not written is lost.
LEMMA ExitMoves ==
  ASSUME TypeOK, Exit
  PROVE  /\ InMemory' = {} /\ Retained' = {} /\ accepted' = accepted
         /\ Stored' \cup dropped' = InMemory \cup Retained \cup Stored \cup dropped
<1>1. PICK w \in [Tables -> 0 .. Cardinality(Records)] :
        /\ \A t \in Tables : w[t] <= Len(residue[t])
        /\ store' = [t \in Tables |-> store[t] \o SubSeq(residue[t], 1, w[t])]
  BY DEF Exit
<1>2. ASSUME NEW t \in Tables
      PROVE  /\ Range(store[t]) \subseteq Range(store'[t])
             /\ Range(store'[t]) \subseteq Range(store[t]) \cup Range(residue[t])
  <2>1. store[t] \in Seq(Records) /\ residue[t] \in Seq(Records) /\ Len(residue[t]) \in Nat
    BY LenProperties DEF TypeOK
  <2>2. w[t] \in 0 .. Len(residue[t])
    BY <1>1, <2>1, FS_CardinalityType, StorageAssumption DEF StorageAssumption
  <2> DEFINE q == SubSeq(residue[t], 1, w[t])
  <2>3. q \in Seq(Records) /\ Range(q) \subseteq Range(residue[t])
    BY <2>1, <2>2, RangeSlice
  <2> HIDE DEF q
  <2>4. store'[t] = store[t] \o q
    BY <1>1 DEF q
  <2> QED  BY <2>1, <2>3, <2>4, RangeConcatenation
<1>3. Stored \subseteq Stored' /\ Stored' \subseteq Stored \cup Retained
  BY <1>2 DEF Stored, Retained
<1>4. dropped' = dropped \cup ((InMemory \cup Retained) \ Stored')
  BY DEF Exit, Stored
<1>5. /\ channel' = <<>> /\ held' = NoRecord
      /\ \A t \in Tables : buffer'[t] = <<>> /\ residue'[t] = <<>>
      /\ \A j \in Jobs : batch'[j] = <<>>
      /\ accepted' = accepted
  BY DEF Exit
<1>6. InMemory' = {} /\ Retained' = {}
  BY <1>5 DEF InMemory, InHand, Buffered, Batched, Retained, Range
<1> QED
  BY <1>3, <1>4, <1>5, <1>6

\* Every step accounts for every record.
LEMMA NextConservation ==
  ASSUME TypeOK, HandInv, FlushInv, KeptInv, Conservation, [Next]_vars
  PROVE  Conservation'
<1> USE DEF Conservation, taskVars, flushVars, storeVars, ghostVars, closeVars
<1>0. /\ channel' = channel /\ held' = held => Range(channel)' \cup InHand' = Range(channel) \cup InHand
      /\ buffer' = buffer => Buffered' = Buffered
      /\ batch' = batch => Batched' = Batched
      /\ residue' = residue => Retained' = Retained
      /\ store' = store => Stored' = Stored
  BY DEF InHand, Buffered, Batched, Retained, Stored
<1>1. CASE UNCHANGED <<channel, held, buffer, batch, residue, store, accepted, dropped>>
  BY <1>0, <1>1 DEF InMemory
<1>2. CASE Senders
  <2>1. ASSUME NEW r \in Records, Send(r)  PROVE Conservation'
    <3>1. /\ Range(channel') = Range(channel) \cup {r}
          /\ Range(accepted') = Range(accepted) \cup {r}
      BY <2>1, RangeAppend DEF Send, Room, TypeOK
    <3>2. InHand' = InHand
      BY <2>1 DEF Send, Room, InHand
    <3> QED  BY <1>0, <2>1, <3>1, <3>2 DEF Send, Room, InMemory
  <2>2. ASSUME NEW r \in Records, SendFails(r)  PROVE Conservation'
    BY <1>1, <2>2 DEF SendFails
  <2> QED  BY <1>2, <2>1, <2>2 DEF Senders
<1>3. ASSUME NEW p \in Flushers, FlushStep(p)  PROVE Conservation'
  <2>1. CASE SpawnWrites(p)
    BY <1>1, <2>1 DEF SpawnWrites
  <2>2. ASSUME NEW t \in Tables, Drain(p, t)  PROVE Conservation'
    <3>1. Buffered' \cup Batched' = Buffered \cup Batched
      BY <2>2, DrainMoves
    <3> QED  BY <1>0, <2>2, <3>1 DEF Drain, Drained, InMemory
  <2> QED  BY <1>3, <2>1, <2>2 DEF FlushStep
<1>4. CASE BackgroundTask
  <2>0. "bg" \in Flushers  BY DEF Flushers
  <2>1. CASE Receive
    <3>1. /\ held' = Head(channel) /\ channel' = Tail(channel) /\ channel # <<>>
          /\ UNCHANGED <<buffer, batch, residue, store, accepted, dropped>>
      BY <2>1 DEF Receive
    <3>2. Range(channel) = {Head(channel)} \cup Range(Tail(channel))
          /\ Head(channel) \in Records
      BY <3>1, RangeHeadTail, HeadTailProperties DEF TypeOK
    <3>3. InHand = {} /\ InHand' = {Head(channel)}
      BY <2>1, <3>1, <3>2, StorageAssumption DEF StorageAssumption, InHand, HandInv, Receive
    <3> QED  BY <1>0, <3>1, <3>2, <3>3 DEF InMemory
  <2>2. CASE Admit
    <3>1. held \in Records /\ Buffered' = Buffered \cup {held}
      BY <2>2, AdmitBuffers
    <3>2. InHand = {held} /\ InHand' = {}
      BY <2>2, <3>1, StorageAssumption DEF StorageAssumption, InHand, Admit, Full
    <3> QED  BY <1>0, <2>2, <3>1, <3>2 DEF InMemory, Admit, Full
  <2>3. CASE Reject
    <3>1. InHand' = {} /\ InHand = {held} /\ dropped' = dropped \cup {held}
      BY <2>3, StorageAssumption DEF StorageAssumption, InHand, Reject, HandInv
    <3> QED  BY <1>0, <2>3, <3>1 DEF InMemory, Reject
  <2>4. CASE TimerTick \/ ShutdownSignal \/ LoopFlushReturn
    BY <1>1, <2>4 DEF TimerTick, ShutdownSignal, LoopFlushReturn
  <2>5. CASE ForcedFlushReturn
    <3>1. Buffered = {}
      BY <2>0, <2>5, ReturnedFlush DEF ForcedFlushReturn
    <3>2. CASE buffer' = buffer /\ dropped' = dropped
      BY <1>1, <2>5, <3>2 DEF ForcedFlushReturn
    <3>3. CASE buffer' = [t \in Tables |-> <<>>] /\ dropped' = dropped \cup Buffered
      <4>1. \A t \in Tables : Range(buffer'[t]) = {}  BY <3>3 DEF Range
      <4>2. Buffered' = {}  BY <4>1 DEF Buffered
      <4> QED  BY <1>0, <2>5, <3>1, <3>3, <4>2 DEF ForcedFlushReturn, InMemory
    <3> QED  BY <2>5, <3>2, <3>3 DEF ForcedFlushReturn
  <2>6. CASE ShutdownFlushReturn
    <3>1. Range(channel') = {} /\ dropped' = dropped \cup Range(channel)
      BY <2>6 DEF ShutdownFlushReturn, Range
    <3>2. InHand' = InHand
      BY <2>6 DEF ShutdownFlushReturn, InHand
    <3> QED  BY <1>0, <2>6, <3>1, <3>2 DEF ShutdownFlushReturn, InMemory
  <2>7. CASE FlushStep("bg")
    BY <1>3, <2>0, <2>7
  <2> QED
    BY <1>4, <2>1, <2>2, <2>3, <2>4, <2>5, <2>6, <2>7 DEF BackgroundTask
<1>5. CASE \E j \in Jobs : WriteStep(j)
  <2>1. PICK j \in Jobs : WriteStep(j)
    BY <1>5
  <2>2. /\ UNCHANGED <<channel, held, buffer, accepted>>
        /\ Batched' \cup Retained' \cup Stored' \cup dropped'
             = Batched \cup Retained \cup Stored \cup dropped
    BY <2>1, WriteFrame, WriteMoves
  <2> QED  BY <1>0, <2>2 DEF InMemory
<1>6. CASE CloseSignal
  BY <1>1, <1>6 DEF CloseSignal
<1>7. CASE Close
  <2>0. "closer" \in Flushers  BY DEF Flushers
  <2>1. CASE CloseFlush \/ CloseFlushReturn
    BY <1>1, <2>1 DEF CloseFlush, CloseFlushReturn
  <2>2. ASSUME NEW t \in Tables, SyncWriter(t)  PROVE Conservation'
    <3>1. Retained' \cup Stored' = Retained \cup Stored
      BY <2>2, SyncMoves
    <3> QED  BY <1>0, <2>2, <3>1 DEF SyncWriter, InMemory
  <2>3. CASE Exit
    BY <2>3, ExitMoves
  <2>4. CASE FlushStep("closer")
    BY <1>3, <2>0, <2>4
  <2> QED
    BY <1>7, <2>1, <2>2, <2>3, <2>4 DEF Close
<1>8. CASE Stopped \/ UNCHANGED vars
  BY <1>1, <1>8 DEF Stopped, vars
<1> QED
  BY <1>2, <1>4, <1>5, <1>6, <1>7, <1>8 DEF Next

-----------------------------------------------------------------------------
(* The storage is a RecordChannel to its senders. *)

\* The background task ends only because close() told it to.
CloseInv == shutdown \/ bg \in {"shutdown", "exited"} => closer # "open"

\* What the senders see of a step that neither sends, receives, closes nor ends.
LEMMA ChannelStutters ==
  ASSUME UNCHANGED <<channel, closer>>, bg = "exited" <=> bg' = "exited"
  PROVE  UNCHANGED Channel!chanVars
BY DEF Channel!chanVars

LEMMA NextClose == CloseInv /\ [Next]_vars => CloseInv'
<1> SUFFICES ASSUME CloseInv, [Next]_vars  PROVE CloseInv'
  OBVIOUS
<1> USE DEF CloseInv, taskVars, flushVars, storeVars, ghostVars, closeVars
<1>1. CASE Senders
  BY <1>1 DEF Senders, Send, SendFails
<1>2. ASSUME NEW p \in Flushers, FlushStep(p)  PROVE CloseInv'
  BY <1>2 DEF FlushStep, Drain, SpawnWrites
<1>3. CASE BackgroundTask
  <2>1. "bg" \in Flushers  BY DEF Flushers
  <2>2. CASE Receive \/ Reject \/ ForcedFlushReturn
    BY <2>2 DEF Receive, Reject, ForcedFlushReturn
  <2>3. CASE Admit
    BY <2>3 DEF Admit
  <2>4. CASE TimerTick \/ ShutdownSignal
    BY <2>4 DEF TimerTick, ShutdownSignal
  <2>5. CASE LoopFlushReturn \/ ShutdownFlushReturn
    BY <2>5 DEF LoopFlushReturn, ShutdownFlushReturn
  <2> QED
    BY <1>2, <1>3, <2>1, <2>2, <2>3, <2>4, <2>5 DEF BackgroundTask
<1>4. CASE \E j \in Jobs : WriteStep(j)
  BY <1>4, WriteFrame
<1>5. CASE CloseSignal
  BY <1>5 DEF CloseSignal
<1>6. CASE Close
  <2>1. "closer" \in Flushers  BY DEF Flushers
  <2>2. CASE CloseFlush \/ CloseFlushReturn \/ Exit
    BY <2>2 DEF CloseFlush, CloseFlushReturn, Exit
  <2>3. ASSUME NEW t \in Tables, SyncWriter(t)  PROVE CloseInv'
    BY <2>3 DEF SyncWriter
  <2> QED
    BY <1>2, <1>6, <2>1, <2>2, <2>3 DEF Close
<1>7. CASE Stopped \/ UNCHANGED vars
  BY <1>7 DEF Stopped, vars
<1> QED
  BY <1>1, <1>3, <1>4, <1>5, <1>6, <1>7 DEF Next

\* Every step is a step of the channel, or the senders do not see it.
LEMMA NextChannel ==
  TypeOK /\ CloseInv /\ [Next]_vars => [Channel!Next]_(Channel!chanVars)
<1> SUFFICES ASSUME TypeOK, CloseInv, [Next]_vars
             PROVE  Channel!Next \/ UNCHANGED Channel!chanVars
  OBVIOUS
<1> USE DEF CloseInv, taskVars, flushVars, storeVars, ghostVars, closeVars
<1>0. channel \in Seq(Records) /\ Len(channel) \in Nat
  BY LenProperties DEF TypeOK
<1>1. CASE Senders
  <2>1. ASSUME NEW r \in Records, Send(r)  PROVE Channel!Put
    <3>1. Len(channel') = Len(channel) + 1
      BY <1>0, <2>1, AppendProperties DEF Send
    <3> QED
      BY <2>1, <3>1 DEF Send, Room, Channel!Put
  <2>2. ASSUME NEW r \in Records, SendFails(r)  PROVE UNCHANGED Channel!chanVars
    BY <2>2, ChannelStutters DEF SendFails
  <2> QED
    BY <1>1, <2>1, <2>2 DEF Senders, Channel!Next
<1>2. ASSUME NEW p \in Flushers, FlushStep(p)  PROVE UNCHANGED Channel!chanVars
  BY <1>2, ChannelStutters DEF FlushStep, Drain, SpawnWrites
<1>3. CASE BackgroundTask
  <2>1. "bg" \in Flushers  BY DEF Flushers
  <2>2. CASE Receive
    <3>1. Len(channel') = Len(channel) - 1 /\ Len(channel) > 0
      BY <1>0, <2>2, HeadTailProperties, EmptySeq DEF Receive
    <3>2. Channel!Take
      BY <2>2, <3>1 DEF Receive, Channel!Take
    <3> QED
      BY <3>2 DEF Channel!Next
  <2>3. CASE Admit
    <3>1. bg = "precheck" /\ bg' # "exited" /\ UNCHANGED <<channel, closer>>
      BY <2>3 DEF Admit
    <3> QED
      BY <3>1, ChannelStutters
  <2>4. CASE Reject \/ TimerTick \/ ShutdownSignal
    BY <2>4, ChannelStutters DEF Reject, TimerTick, ShutdownSignal
  <2>5. CASE LoopFlushReturn \/ ForcedFlushReturn
    <3>1. bg # "exited" /\ bg' # "exited" /\ UNCHANGED <<channel, closer>>
      BY <2>5 DEF LoopFlushReturn, ForcedFlushReturn
    <3> QED
      BY <3>1, ChannelStutters
  <2>6. CASE ShutdownFlushReturn
    <3>1. Len(channel') = 0  BY <2>6, EmptySeq DEF ShutdownFlushReturn
    <3>2. Channel!Shut
      BY <2>6, <3>1 DEF ShutdownFlushReturn, Channel!Shut
    <3> QED
      BY <3>2 DEF Channel!Next
  <2> QED
    BY <1>2, <1>3, <2>1, <2>2, <2>3, <2>4, <2>5, <2>6 DEF BackgroundTask
<1>4. CASE \E j \in Jobs : WriteStep(j)
  BY <1>4, WriteFrame, ChannelStutters
<1>5. CASE CloseSignal
  <2>1. Channel!Close
    BY <1>5 DEF CloseSignal, Channel!Close
  <2> QED
    BY <2>1 DEF Channel!Next
<1>6. CASE Close
  <2>1. "closer" \in Flushers  BY DEF Flushers
  <2>2. CASE CloseFlush \/ CloseFlushReturn
    BY <2>2 DEF CloseFlush, CloseFlushReturn, Channel!chanVars
  <2>3. ASSUME NEW t \in Tables, SyncWriter(t)  PROVE UNCHANGED Channel!chanVars
    BY <2>3, ChannelStutters DEF SyncWriter
  <2>4. CASE Exit
    <3>1. Len(channel') = 0  BY <2>4, EmptySeq DEF Exit
    <3>2. Channel!Shut
      BY <2>4, <3>1 DEF Exit, Channel!Shut
    <3> QED
      BY <3>2 DEF Channel!Next
  <2> QED
    BY <1>2, <1>6, <2>1, <2>2, <2>3, <2>4 DEF Close
<1>7. CASE Stopped \/ UNCHANGED vars
  BY <1>7, ChannelStutters DEF Stopped, vars
<1> QED
  BY <1>1, <1>3, <1>4, <1>5, <1>6, <1>7 DEF Next

-----------------------------------------------------------------------------
(* The theorems. *)

\* The inductive invariant holds: flushes, counter, CSV writers and the account of
\* the records stay in step, whichever flusher drains what and however writes end.
THEOREM FlushesAlwaysInStep == Spec => []FlushesInStep
<1>1. Init => FlushesInStep
  <2>1. Init => KeptInv
    BY DEF Init, KeptInv
  <2> QED
    BY <2>1, InitType, InitFlush, InitCount, InitConservation DEF FlushesInStep
<1>2. FlushesInStep /\ [Next]_vars => FlushesInStep'
  BY NextType, NextHand, NextFlush, NextCount, NextKept, NextConservation DEF FlushesInStep
<1> QED
  BY <1>1, <1>2, PTL DEF Spec

\* No record vanishes: what the channel took is in memory, in a table, or counted as
\* lost on one of the known paths, through both flushers, failing writes and the exit of the process.
THEOREM NothingVanishes == Spec => []Conservation
<1>1. FlushesInStep => Conservation
  BY DEF FlushesInStep
<1> QED
  BY <1>1, FlushesAlwaysInStep, PTL

\* The buffer never holds more than one batch, for every batch size.
THEOREM BufferAlwaysBounded == Spec => []BufferBounded
<1>1. FlushesInStep => BufferBounded
  BY DEF FlushesInStep, CountInv
<1> QED
  BY <1>1, FlushesAlwaysInStep, PTL

\* A record that waits in the buffer is counted: the next tick flushes it.
THEOREM WaitingAlwaysCounted == Spec => []WaitingIsCounted
<1>1. FlushesInStep => WaitingIsCounted
  <2> SUFFICES ASSUME FlushesInStep, Buffered # {}
               PROVE  count > 0
    BY DEF WaitingIsCounted
  <2>1. Cardinality(Buffered) # 0 /\ Cardinality(Buffered) \in Nat
    BY BufferedFinite, FS_EmptySet DEF FlushesInStep
  <2>2. Cardinality(Buffered) <= count /\ count \in Nat
    BY DEF FlushesInStep, CountInv, TypeOK
  <2> QED
    BY <2>1, <2>2
<1> QED
  BY <1>1, FlushesAlwaysInStep, PTL

\* The memory guard never has anything to flush or to clear: max_buffer is only
\* passed by the counts of failed flushes, whose records are gone.
THEOREM GuardNeverNeeded == Spec => []GuardFindsNothing
<1>1. FlushesInStep => GuardFindsNothing
  BY DEF FlushesInStep, CountInv
<1> QED
  BY <1>1, FlushesAlwaysInStep, PTL

\* To its senders the storage is a bounded channel with one receiver, which stays
\* until close() is called: App may use RecordChannel in its place.
THEOREM StorageIsChannel == Spec => ImplementsChannel
<1>1. Init => Channel!Init /\ CloseInv
  <2>1. Len(<<>>) = 0  BY EmptySeq
  <2> QED
    BY <2>1 DEF Init, Channel!Init, CloseInv
<1>2. Spec => []CloseInv
  BY <1>1, NextClose, PTL DEF Spec
<1> QED
  BY <1>1, <1>2, TypeCorrect, NextChannel, PTL DEF Spec, ImplementsChannel, Channel!Spec

=============================================================================
