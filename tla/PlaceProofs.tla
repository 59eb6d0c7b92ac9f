----------------------------- MODULE PlaceProofs -----------------------------
(***************************************************************************)
(* Where each record of Storage is: in one place at a time, in its own     *)
(* table, in the order in which it was sent.  From this follows that the   *)
(* storage implements RecordSink.                                          *)
(***************************************************************************)
EXTENDS StorageProofs

(***************************************************************************)
(* The invariant.                                                          *)
(***************************************************************************)

\* The records that belong to table t.
Filed(t) == {r \in Records : TableOf[r] = t}

\* Nothing holds a record twice.
OnceInv ==
  /\ IsInjective(accepted) /\ IsInjective(channel)
  /\ \A t \in Tables : IsInjective(buffer[t])
  /\ \A j \in Jobs : IsInjective(batch[j])

\* Whatever is kept by table is of that table.
FiledInv ==
  /\ \A t \in Tables :
       Range(buffer[t]) \cup Range(residue[t]) \cup Range(store[t]) \subseteq Filed(t)
  /\ \A j \in Jobs : Range(batch[j]) \subseteq Filed(j[2])

\* A record on its way has not been written, a lost one is nowhere else.
ApartInv ==
  /\ OnePlace
  /\ InMemory \cap (Retained \cup Stored) = {}
  /\ dropped \cap (InMemory \cup Retained \cup Stored) = {}

PlaceInv == OnceInv /\ FiledInv /\ ApartInv /\ StoredOnce

-----------------------------------------------------------------------------
(* Sequences without repetitions. *)

LEMMA OnceAppend ==
  ASSUME NEW S, NEW s \in Seq(S), NEW e \in S, IsInjective(s), e \notin Range(s)
  PROVE  IsInjective(Append(s, e))
<1> DEFINE q == Append(s, e)
<1>1. /\ q \in Seq(S) /\ Len(q) = Len(s) + 1 /\ Len(s) \in Nat
      /\ \A i \in 1 .. Len(s) : q[i] = s[i]
      /\ q[Len(s) + 1] = e
  BY AppendProperties, LenProperties
<1>2. DOMAIN s = 1 .. Len(s) /\ DOMAIN q = 1 .. Len(s) + 1
  BY <1>1, LenProperties
<1> HIDE DEF q
<1>3. ASSUME NEW i \in DOMAIN q, NEW k \in DOMAIN q, q[i] = q[k]  PROVE i = k
  BY <1>1, <1>2, <1>3 DEF IsInjective, Range
<1> QED
  BY <1>3 DEF IsInjective, q

LEMMA OnceTail ==
  ASSUME NEW S, NEW s \in Seq(S), s # <<>>, IsInjective(s)
  PROVE  IsInjective(Tail(s)) /\ Head(s) \notin Range(Tail(s))
<1> DEFINE q == Tail(s)
<1>1. /\ q \in Seq(S) /\ Len(q) = Len(s) - 1 /\ Len(s) \in Nat \ {0}
      /\ \A i \in 1 .. Len(q) : q[i] = s[i + 1]
  BY HeadTailProperties, EmptySeq
<1>2. DOMAIN s = 1 .. Len(s) /\ DOMAIN q = 1 .. Len(q) /\ Head(s) = s[1]
  BY <1>1, LenProperties
<1> HIDE DEF q
<1>3. IsInjective(q)
  BY <1>1, <1>2 DEF IsInjective
<1>4. Head(s) \notin Range(q)
  BY <1>1, <1>2 DEF IsInjective, Range
<1> QED
  BY <1>3, <1>4 DEF q

LEMMA OnceConcat ==
  ASSUME NEW S, NEW s \in Seq(S), NEW t \in Seq(S),
         IsInjective(s), IsInjective(t), Range(s) \cap Range(t) = {}
  PROVE  IsInjective(s \o t)
<1> DEFINE q == s \o t
<1>1. /\ q \in Seq(S) /\ Len(q) = Len(s) + Len(t) /\ Len(s) \in Nat /\ Len(t) \in Nat
      /\ \A i \in 1 .. Len(s) + Len(t) : q[i] = IF i <= Len(s) THEN s[i] ELSE t[i - Len(s)]
  BY ConcatProperties, LenProperties
<1>2. /\ DOMAIN s = 1 .. Len(s) /\ DOMAIN t = 1 .. Len(t)
      /\ DOMAIN q = 1 .. Len(s) + Len(t)
  BY <1>1, LenProperties
<1> HIDE DEF q
<1>3. \A i \in DOMAIN s, k \in DOMAIN t : s[i] # t[k]
  BY DEF Range
<1>4. ASSUME NEW i \in DOMAIN q, NEW k \in DOMAIN q, q[i] = q[k]  PROVE i = k
  <2>1. CASE i <= Len(s) /\ k <= Len(s)
    BY <1>1, <1>2, <1>4, <2>1 DEF IsInjective
  <2>2. CASE i > Len(s) /\ k > Len(s)
    <3>1. i - Len(s) \in DOMAIN t /\ k - Len(s) \in DOMAIN t
      BY <1>1, <1>2, <2>2
    <3>2. t[i - Len(s)] = t[k - Len(s)]
      BY <1>1, <1>2, <1>4, <2>2
    <3>3. i - Len(s) = k - Len(s)
      BY <3>1, <3>2 DEF IsInjective
    <3> QED  BY <1>1, <1>2, <3>3
  <2>a. ASSUME NEW a \in DOMAIN q, NEW b \in DOMAIN q, a <= Len(s), b > Len(s)
        PROVE  q[a] # q[b]
    <3>1. a \in DOMAIN s /\ q[a] = s[a]
      BY <1>1, <1>2, <2>a
    <3>2. b - Len(s) \in DOMAIN t /\ q[b] = t[b - Len(s)]
      BY <1>1, <1>2, <2>a
    <3>3. s[a] # t[b - Len(s)]
      BY <1>3, <3>1, <3>2
    <3> QED  BY <3>1, <3>2, <3>3
  <2>3. CASE i <= Len(s) /\ k > Len(s)
    BY <1>4, <2>a, <2>3
  <2>4. CASE i > Len(s) /\ k <= Len(s)
    BY <1>4, <2>a, <2>4
  <2> QED  BY <1>1, <1>2, <2>1, <2>2, <2>3, <2>4
<1> QED
  BY <1>4 DEF IsInjective, q

LEMMA OnceSlice ==
  ASSUME NEW S, NEW s \in Seq(S), NEW m \in Nat \ {0}, NEW n \in 0 .. Len(s), IsInjective(s)
  PROVE  IsInjective(SubSeq(s, m, n))
<1> DEFINE q == SubSeq(s, m, n)
<1>1. Len(s) \in Nat /\ DOMAIN s = 1 .. Len(s)
  BY LenProperties
<1>2. \A i \in m .. n : s[i] \in S
  BY <1>1, ElementOfSeq
<1>3. /\ q \in Seq(S)
      /\ Len(q) = IF m <= n THEN n - m + 1 ELSE 0
      /\ \A i \in 1 .. n - m + 1 : q[i] = s[m + i - 1]
  BY <1>2, SubSeqProperties
<1>4. DOMAIN q = 1 .. Len(q)
  BY <1>3, LenProperties
<1> HIDE DEF q
<1>5. ASSUME NEW i \in DOMAIN q, NEW k \in DOMAIN q, q[i] = q[k]  PROVE i = k
  <2>0. i \in 1 .. n - m + 1 /\ k \in 1 .. n - m + 1
    BY <1>3, <1>4
  <2>1. /\ m + i - 1 \in DOMAIN s /\ m + k - 1 \in DOMAIN s
        /\ s[m + i - 1] = s[m + k - 1]
    BY <1>1, <1>3, <1>5, <2>0, SMTT(60)
  <2>2. m + i - 1 = m + k - 1
    BY <2>1 DEF IsInjective
  <2> QED  BY <1>3, <1>4, <2>2
<1> QED
  BY <1>5 DEF IsInjective, q

LEMMA Associated ==
  ASSUME NEW S, NEW s \in Seq(S), NEW t \in Seq(S), NEW u \in Seq(S)
  PROVE  s \o t \o u = s \o (t \o u)
BY ConcatAssociative

-----------------------------------------------------------------------------
(* The write tasks, in one form. *)

\* What write task j works on when n records of its batch were taken.
Taken(j, n) == residue[j[2]] \o SubSeq(batch[j], 1, n)

\* A write task that ends has appended some first rows of what its CSV writer kept and
\* of its batch; the writer keeps some last rows of these; what neither has is lost.
LEMMA WriteEffect ==
  ASSUME TypeOK, KeptInv, NEW j \in Jobs, WriteStep(j), ~Acquire(j)
  PROVE  \E n \in 0 .. Len(batch[j]) :
         \E w \in 0 .. Len(Taken(j, n)) : \E k \in 0 .. w :
           LET rows == SubSeq(Taken(j, n), 1, w)
               kept == SubSeq(Taken(j, n), k + 1, Len(Taken(j, n)))
           IN  /\ store' = [store EXCEPT ![j[2]] = @ \o rows]
               /\ residue' = [residue EXCEPT ![j[2]] = kept]
               /\ batch' = [batch EXCEPT ![j] = <<>>]
               /\ dropped' = dropped \cup (Range(batch[j]) \ (Range(rows) \cup Range(kept)))
               /\ Backend # "csv" => kept = <<>> /\ residue[j[2]] = <<>>
               /\ dropped' # dropped => BackendFails \/ PoolClosed
<1> DEFINE t == j[2]
           All(n) == residue[t] \o SubSeq(batch[j], 1, n)
           Effect(n, w, k) ==
             LET rows == SubSeq(All(n), 1, w)
                 kept == SubSeq(All(n), k + 1, Len(All(n)))
             IN  /\ store' = [store EXCEPT ![t] = @ \o rows]
                 /\ residue' = [residue EXCEPT ![t] = kept]
                 /\ batch' = [batch EXCEPT ![j] = <<>>]
                 /\ dropped' = dropped \cup (Range(batch[j]) \ (Range(rows) \cup Range(kept)))
                 /\ Backend # "csv" => kept = <<>> /\ residue[t] = <<>>
                 /\ dropped' # dropped => BackendFails \/ PoolClosed
<1> SUFFICES \E n \in 0 .. Len(batch[j]) : \E w \in 0 .. Len(All(n)) : \E k \in 0 .. w :
               Effect(n, w, k)
  BY DEF Taken
<1>1. /\ t \in Tables /\ store[t] \in Seq(Records)
      /\ residue[t] \in Seq(Records) /\ batch[j] \in Seq(Records)
      /\ Len(batch[j]) \in Nat
  BY LenProperties DEF Jobs, TypeOK
<1>2. Backend # "csv" => residue[t] = <<>>
  BY <1>1 DEF KeptInv
<1>f. ASSUME NEW n \in 0 .. Len(batch[j])
      PROVE  All(n) \in Seq(Records) /\ Len(All(n)) \in Nat
  BY <1>1, SliceType, ConcatProperties, LenProperties
<1>3. CASE WriteOk(j)
  <2> DEFINE n == Len(batch[j])
             all == residue[t] \o batch[j]
  <2>1. SubSeq(batch[j], 1, n) = batch[j]
    BY <1>1, SubSeqFull
  <2>2. All(n) = all
    BY <2>1
  <2>3. all \in Seq(Records) /\ Len(all) \in Nat
    BY <1>1, ConcatProperties, LenProperties
  <2>4. SubSeq(all, 1, Len(all)) = all /\ SubSeq(all, Len(all) + 1, Len(all)) = <<>>
    <3> HIDE DEF all
    <3> QED  BY <2>3, SubSeqFull, SubSeqEmpty
  <2>5. /\ store' = [store EXCEPT ![t] = store[t] \o residue[t] \o batch[j]]
        /\ residue' = [residue EXCEPT ![t] = <<>>]
        /\ batch' = [batch EXCEPT ![j] = <<>>]
        /\ dropped' = dropped
    BY <1>3 DEF WriteOk, ghostVars
  <2>6. store[t] \o residue[t] \o batch[j] = store[t] \o all
    <3> DEFINE a == store[t]
               b == residue[t]
               c == batch[j]
    <3>1. a \in Seq(Records) /\ b \in Seq(Records) /\ c \in Seq(Records)
      BY <1>1
    <3> HIDE DEF a, b, c
    <3>2. a \o b \o c = a \o (b \o c)
      BY <3>1, Associated
    <3> QED  BY <3>2 DEF a, b, c
  <2>7. Range(batch[j]) \subseteq Range(all)
    BY <1>1, RangeConcatenation
  <2> HIDE DEF all
  <2>8. Effect(n, Len(all), Len(all))
    BY <1>2, <2>2, <2>4, <2>5, <2>6, <2>7
  <2> HIDE DEF All, Effect
  <2>9. n \in 0 .. Len(batch[j]) /\ Len(all) \in 0 .. Len(All(n)) /\ Len(all) \in 0 .. Len(all)
    BY <1>1, <2>2, <2>3
  <2> QED  BY <2>8, <2>9
<1>4. CASE Backend # "csv" /\ ~WriteOk(j)
  <2>1. PICK recs \in {<<>>, batch[j]} :
          FailWith(j, recs, <<>>) /\ (BackendFails \/ PoolClosed)
    BY <1>4 DEF WriteStep, AcquireFails, StatementFails, CsvWriteFails
  <2>2. ASSUME NEW n \in {0, Len(batch[j])}, SubSeq(batch[j], 1, n) = recs
        PROVE  Effect(n, n, n)
    <3>1. recs \in Seq(Records) /\ Len(recs) = n
      BY <1>1, <2>1, <2>2, EmptySeq, LenProperties, SliceType, SubSeqEmpty, SubSeqFull
    <3>2. All(n) = recs
      BY <1>2, <1>4, <2>2, <3>1, ConcatEmptySeq
    <3>3. SubSeq(recs, 1, n) = recs /\ SubSeq(recs, n + 1, n) = <<>>
      BY <1>1, <3>1, SubSeqFull, SubSeqEmpty
    <3>4. Range(<<>>) = {}
      BY DEF Range
    <3> QED
      BY <1>2, <1>4, <2>1, <3>1, <3>2, <3>3, <3>4 DEF FailWith, Lost
  <2>3. \E n \in {0, Len(batch[j])} : SubSeq(batch[j], 1, n) = recs
    <3>1. SubSeq(batch[j], 1, 0) = <<>> /\ SubSeq(batch[j], 1, Len(batch[j])) = batch[j]
      BY <1>1, SubSeqFull, SubSeqEmpty
    <3> QED  BY <2>1, <3>1
  <2>4. PICK n \in {0, Len(batch[j])} : SubSeq(batch[j], 1, n) = recs
    BY <2>3
  <2>5. n \in 0 .. Len(batch[j])
    BY <1>1
  <2>6. Len(All(n)) = n
    <3>1. Len(recs) = n
      BY <1>1, <2>1, <2>4, EmptySeq, LenProperties, SubSeqEmpty, SubSeqFull
    <3> QED  BY <1>1, <1>2, <1>4, <2>1, <2>4, <3>1, ConcatEmptySeq, EmptySeq
  <2>7. Effect(n, n, n)
    BY <2>2, <2>4
  <2> HIDE DEF All, Effect
  <2>8. n \in 0 .. Len(All(n)) /\ n \in 0 .. n
    BY <1>1, <2>5, <2>6
  <2> QED  BY <2>5, <2>7, <2>8
<1>5. CASE Backend = "csv" /\ ~WriteOk(j)
  <2>1. CsvWriteFails(j)
    BY <1>5 DEF WriteStep, AcquireFails, StatementFails
  <2>2. PICK n \in 0 .. Len(batch[j]) : \E w \in 0 .. Len(All(n)) : \E k \in 0 .. w :
          FailWith(j, SubSeq(All(n), 1, w), SubSeq(All(n), k + 1, Len(All(n))))
    BY <2>1 DEF CsvWriteFails
  <2>3. PICK w \in 0 .. Len(All(n)) : \E k \in 0 .. w :
          FailWith(j, SubSeq(All(n), 1, w), SubSeq(All(n), k + 1, Len(All(n))))
    BY <2>2
  <2>4. PICK k \in 0 .. w :
          FailWith(j, SubSeq(All(n), 1, w), SubSeq(All(n), k + 1, Len(All(n))))
    BY <2>3
  <2>5. Effect(n, w, k)
    <3> HIDE DEF All
    <3> QED  BY <1>5, <2>1, <2>4 DEF FailWith, Lost, CsvWriteFails
  <2> HIDE DEF All, Effect
  <2> QED  BY <2>5
<1> QED
  BY <1>3, <1>4, <1>5

-----------------------------------------------------------------------------
(* A record is in one place. *)

\* Unchanged variables leave the sets of records unchanged.
LEMMA SetsFrame ==
  /\ channel' = channel => Range(channel)' = Range(channel)
  /\ held' = held => InHand' = InHand
  /\ buffer' = buffer => Buffered' = Buffered
  /\ batch' = batch => Batched' = Batched
  /\ residue' = residue => Retained' = Retained
  /\ store' = store => Stored' = Stored
BY DEF InHand, Buffered, Batched, Retained, Stored

LEMMA PlaceFrame ==
  ASSUME PlaceInv, UNCHANGED <<channel, held, buffer, batch, residue, store, accepted, dropped>>
  PROVE  PlaceInv'
<1>1. OnceInv' /\ FiledInv' /\ StoredOnce'
  BY DEF PlaceInv, OnceInv, FiledInv, Filed, StoredOnce, IsInjective
<1>2. ApartInv'
  BY SetsFrame DEF PlaceInv, ApartInv, OnePlace, InMemory
<1> QED
  BY <1>1, <1>2 DEF PlaceInv

LEMMA InitPlace == Init => PlaceInv
<1> SUFFICES ASSUME Init  PROVE PlaceInv
  OBVIOUS
<1>1. Range(<<>>) = {} /\ IsInjective(<<>>)
  BY DEF Range, IsInjective
<1>2. OnceInv /\ FiledInv /\ StoredOnce
  BY <1>1 DEF Init, OnceInv, FiledInv, StoredOnce
<1>3. ApartInv
  BY <1>1 DEF Init, ApartInv, OnePlace, InMemory, InHand, Buffered, Batched, Retained, Stored
<1> QED
  BY <1>2, <1>3 DEF PlaceInv

\* Only records the channel took are anywhere.
LEMMA AllAccepted ==
  ASSUME Conservation
  PROVE  /\ Range(channel) \cup InHand \cup Buffered \cup Batched \subseteq Range(accepted)
         /\ Retained \cup Stored \cup dropped \subseteq Range(accepted)
BY DEF Conservation, InMemory

LEMMA SendPlace ==
  ASSUME TypeOK, Conservation, PlaceInv, NEW r \in Records, Send(r)
  PROVE  PlaceInv'
<1>1. /\ channel' = Append(channel, r) /\ accepted' = Append(accepted, r)
      /\ r \notin Range(accepted)
      /\ UNCHANGED <<held, buffer, batch, residue, store, dropped>>
  BY DEF Send, flushVars, storeVars
<1>2. r \notin InMemory \cup Retained \cup Stored \cup dropped
  BY <1>1 DEF Conservation
<1>3. Range(channel') = Range(channel) \cup {r}
  BY <1>1, RangeAppend DEF TypeOK
<1>4. OnceInv'
  <2>1. IsInjective(channel') /\ IsInjective(accepted')
    BY <1>1, <1>2, OnceAppend DEF TypeOK, PlaceInv, OnceInv, InMemory
  <2> QED  BY <1>1, <2>1 DEF PlaceInv, OnceInv
<1>5. FiledInv' /\ StoredOnce'
  BY <1>1 DEF PlaceInv, FiledInv, Filed, StoredOnce
<1>6. ApartInv'
  <2>1. /\ InHand' = InHand /\ Buffered' = Buffered /\ Batched' = Batched
        /\ Retained' = Retained /\ Stored' = Stored
    BY <1>1, SetsFrame
  <2>2. OnePlace'
    <3>1. /\ r \notin InHand /\ r \notin Buffered /\ r \notin Batched
          /\ batch' = batch
      BY <1>1, <1>2 DEF InMemory
    <3>2. OnePlace
      BY DEF PlaceInv, ApartInv
    <3> QED
      BY <1>3, <2>1, <3>1, <3>2 DEF OnePlace
  <2>3. InMemory' = InMemory \cup {r}
    BY <1>3, <2>1 DEF InMemory
  <2> QED
    BY <1>1, <1>2, <2>1, <2>2, <2>3 DEF PlaceInv, ApartInv
<1> QED
  BY <1>4, <1>5, <1>6 DEF PlaceInv

LEMMA ReceivePlace ==
  ASSUME TypeOK, HandInv, PlaceInv, Receive
  PROVE  PlaceInv'
<1>1. /\ held' = Head(channel) /\ channel' = Tail(channel) /\ channel # <<>>
      /\ UNCHANGED <<buffer, batch, residue, store, accepted, dropped>>
  BY DEF Receive, flushVars, storeVars, ghostVars
<1>2. /\ Range(channel) = {Head(channel)} \cup Range(channel')
      /\ Head(channel) \notin Range(channel') /\ IsInjective(channel')
      /\ Head(channel) \in Records
  BY <1>1, RangeHeadTail, OnceTail, HeadTailProperties DEF TypeOK, PlaceInv, OnceInv
<1>3. InHand = {} /\ InHand' = {Head(channel)}
  BY <1>1, <1>2, StorageAssumption DEF StorageAssumption, InHand, HandInv, Receive
<1>4. OnceInv' /\ FiledInv' /\ StoredOnce'
  BY <1>1, <1>2 DEF PlaceInv, OnceInv, FiledInv, Filed, StoredOnce
<1>5. ApartInv'
  BY <1>1, <1>2, <1>3, SetsFrame, ZenonT(60) DEF PlaceInv, ApartInv, OnePlace, InMemory
<1> QED
  BY <1>4, <1>5 DEF PlaceInv

LEMMA AdmitPlace ==
  ASSUME TypeOK, HandInv, PlaceInv, Admit
  PROVE  PlaceInv'
<1> DEFINE u == TableOf[held]
<1>1. /\ held \in Records /\ u \in Tables
      /\ Buffered' = Buffered \cup {held}
      /\ InHand = {held} /\ InHand' = {}
  BY AdmitBuffers, StorageAssumption DEF StorageAssumption, InHand, Admit, Full
<1>2. /\ buffer' = [buffer EXCEPT ![u] = Append(@, held)]
      /\ UNCHANGED <<channel, batch, residue, store, accepted, dropped>>
  BY DEF Admit, Full, storeVars, ghostVars
<1>3. held \notin Buffered /\ held \notin Range(buffer[u])
  BY <1>1 DEF PlaceInv, ApartInv, OnePlace, Buffered
<1>4. /\ Range(buffer'[u]) = Range(buffer[u]) \cup {held} /\ IsInjective(buffer'[u])
      /\ \A t \in Tables \ {u} : buffer'[t] = buffer[t]
  BY <1>1, <1>2, <1>3, RangeAppend, OnceAppend DEF TypeOK, PlaceInv, OnceInv
<1>5. held \in Filed(u)
  BY <1>1 DEF Filed
<1> HIDE DEF u
<1>6. OnceInv'
  BY <1>1, <1>2, <1>4 DEF PlaceInv, OnceInv
<1>7. FiledInv' /\ StoredOnce'
  <2>1. ASSUME NEW t \in Tables  PROVE Range(buffer'[t]) \subseteq Filed(t)
    BY <1>1, <1>4, <1>5 DEF PlaceInv, FiledInv
  <2> QED  BY <1>2, <2>1 DEF PlaceInv, FiledInv, Filed, StoredOnce
<1>8. ApartInv'
  BY <1>1, <1>2, <1>3, SetsFrame DEF PlaceInv, ApartInv, OnePlace, InMemory
<1> QED
  BY <1>6, <1>7, <1>8 DEF PlaceInv

LEMMA RejectPlace ==
  ASSUME TypeOK, HandInv, PlaceInv, Reject
  PROVE  PlaceInv'
<1>1. /\ InHand = {held} /\ InHand' = {}
      /\ dropped' = dropped \cup {held}
      /\ UNCHANGED <<channel, buffer, batch, residue, store, accepted>>
  BY StorageAssumption DEF StorageAssumption, InHand, HandInv, Reject, flushVars, storeVars
<1>2. OnceInv' /\ FiledInv' /\ StoredOnce'
  BY <1>1 DEF PlaceInv, OnceInv, FiledInv, Filed, StoredOnce
<1>3. ApartInv'
  BY <1>1, SetsFrame DEF PlaceInv, ApartInv, OnePlace, InMemory
<1> QED
  BY <1>2, <1>3 DEF PlaceInv

LEMMA DrainPlace ==
  ASSUME TypeOK, FlushInv, PlaceInv, NEW p \in Flushers, NEW t \in Tables, Drain(p, t)
  PROVE  PlaceInv'
<1> DEFINE j == <<p, t>>
           B == OthersOf(buffer, Tables, t)
           Q == OthersOf(batch, Jobs, j)
<1>1. j \in Jobs /\ j[2] = t
  BY DEF Jobs
<1>2. /\ UNCHANGED <<channel, held, residue, store, accepted, dropped>>
      /\ buffer'[t] = <<>> /\ \A u \in Tables \ {t} : buffer'[u] = buffer[u]
      /\ batch[j] = <<>>
      /\ batch'[j] = buffer[t] /\ \A k \in Jobs \ {j} : batch'[k] = batch[k]
  BY <1>1 DEF Drain, Drained, FlushInv, TypeOK, storeVars, ghostVars
<1>3. Range(<<>>) = {} /\ IsInjective(<<>>)
  BY DEF Range, IsInjective
<1>4. Buffered = Range(buffer[t]) \cup B /\ Buffered' = B
  <2>1. OthersOf(buffer', Tables, t) = B  BY <1>2, OthersSame
  <2>2. Buffered = Range(buffer[t]) \cup B  BY RecordsOfOne, AsRecordsOf
  <2>3. Buffered' = Range(buffer'[t]) \cup OthersOf(buffer', Tables, t)
    BY RecordsOfOne, AsRecordsOf
  <2> QED  BY <1>2, <1>3, <2>1, <2>2, <2>3
<1>5. Batched = Q /\ Batched' = Range(buffer[t]) \cup Q
  <2>1. OthersOf(batch', Jobs, j) = Q  BY <1>2, OthersSame
  <2>2. Batched = Range(batch[j]) \cup Q  BY <1>1, RecordsOfOne, AsRecordsOf
  <2>3. Batched' = Range(batch'[j]) \cup OthersOf(batch', Jobs, j)
    BY <1>1, RecordsOfOne, AsRecordsOf
  <2> QED  BY <1>2, <1>3, <2>1, <2>2, <2>3
<1>6. Range(buffer[t]) \cap B = {}
  BY DEF PlaceInv, FiledInv, Filed, OthersOf
<1>7. \A k \in Jobs : Range(batch[k]) \cap Range(buffer[t]) = {}
  BY DEF PlaceInv, ApartInv, OnePlace, Buffered, Batched
<1> HIDE DEF j, B, Q
<1>8. OnceInv'
  BY <1>1, <1>2, <1>3 DEF PlaceInv, OnceInv
<1>9. FiledInv' /\ StoredOnce'
  <2>1. \A u \in Tables : Range(buffer'[u]) \subseteq Filed(u)
    BY <1>2, <1>3 DEF PlaceInv, FiledInv
  <2>2. \A k \in Jobs : Range(batch'[k]) \subseteq Filed(k[2])
    BY <1>1, <1>2 DEF PlaceInv, FiledInv
  <2> QED  BY <1>2, <2>1, <2>2 DEF PlaceInv, FiledInv, Filed, StoredOnce
<1>10. ApartInv'
  <2>1. /\ Range(channel') = Range(channel) /\ InHand' = InHand
        /\ Retained' = Retained /\ Stored' = Stored /\ dropped' = dropped
    BY <1>2, SetsFrame
  <2>2. ApartInv /\ OnePlace
    BY DEF PlaceInv, ApartInv
  <2>3. Buffered' \cup Batched' = Buffered \cup Batched
    BY <1>4, <1>5
  <2>4. InMemory' = InMemory
    BY <2>1, <2>3 DEF InMemory
  <2>5. \A k, l \in Jobs : k # l => Range(batch'[k]) \cap Range(batch'[l]) = {}
    BY <1>1, <1>2, <1>7, <2>2 DEF OnePlace
  <2>6. Buffered' \cap Batched' = {}
    BY <1>4, <1>5, <1>6, <2>2 DEF OnePlace
  <2>7. OnePlace'
    BY <2>1, <2>2, <2>3, <2>5, <2>6 DEF OnePlace
  <2> QED  BY <2>1, <2>2, <2>4, <2>7 DEF ApartInv
<1> QED
  BY <1>8, <1>9, <1>10 DEF PlaceInv

\* The slices of the rows a write task works on are rows of its own table.
LEMMA WriteRows ==
  ASSUME TypeOK, NEW j \in Jobs, NEW n \in 0 .. Len(batch[j])
  PROVE  /\ Taken(j, n) \in Seq(Records) /\ Len(Taken(j, n)) \in Nat
         /\ Range(residue[j[2]]) \subseteq Range(Taken(j, n))
         /\ Range(Taken(j, n)) \subseteq Range(residue[j[2]]) \cup Range(batch[j])
<1> DEFINE first == SubSeq(batch[j], 1, n)
           t == j[2]
<1>1. t \in Tables /\ residue[t] \in Seq(Records) /\ batch[j] \in Seq(Records)
  BY DEF Jobs, TypeOK
<1>2. first \in Seq(Records) /\ Range(first) \subseteq Range(batch[j])
  BY <1>1, RangeSlice
<1>3. Taken(j, n) = residue[t] \o first
  BY DEF Taken
<1> HIDE DEF first, t
<1>4. /\ Taken(j, n) \in Seq(Records)
      /\ Range(Taken(j, n)) = Range(residue[t]) \cup Range(first)
  BY <1>1, <1>2, <1>3, ConcatProperties, RangeConcatenation
<1>5. Len(Taken(j, n)) \in Nat
  BY <1>4, LenProperties
<1> QED
  BY <1>2, <1>4, <1>5 DEF t

LEMMA WriteSlices ==
  ASSUME NEW S, NEW s \in Seq(S), NEW w \in 0 .. Len(s), NEW k \in 0 .. w
  PROVE  /\ SubSeq(s, 1, w) \in Seq(S)
         /\ SubSeq(s, k + 1, Len(s)) \in Seq(S)
         /\ Range(SubSeq(s, 1, w)) \cup Range(SubSeq(s, k + 1, Len(s))) = Range(s)
<1>1. k + 1 \in Nat \ {0} /\ Len(s) \in 0 .. Len(s)
  BY LenProperties
<1> QED  BY <1>1, SliceType, RangeSplit

\* What matters of this for the place of the records.
LEMMA WriteTask ==
  ASSUME TypeOK, KeptInv, NEW j \in Jobs, WriteStep(j), ~Acquire(j)
  PROVE  \E rows, kept \in Seq(Records) :
           /\ store' = [store EXCEPT ![j[2]] = @ \o rows]
           /\ residue' = [residue EXCEPT ![j[2]] = kept]
           /\ batch' = [batch EXCEPT ![j] = <<>>]
           /\ dropped' = dropped \cup (Range(batch[j]) \ (Range(rows) \cup Range(kept)))
           /\ Range(rows) \cup Range(kept) \subseteq Range(residue[j[2]]) \cup Range(batch[j])
           /\ Range(residue[j[2]]) \subseteq Range(rows) \cup Range(kept)
           /\ Backend # "csv" => /\ kept = <<>> /\ Range(rows) \subseteq Range(batch[j])
                                 /\ IsInjective(batch[j]) => IsInjective(rows)
           /\ dropped' # dropped => BackendFails \/ PoolClosed
<1> DEFINE t == j[2]
           Rows(n, w) == SubSeq(Taken(j, n), 1, w)
           Kept(n, k) == SubSeq(Taken(j, n), k + 1, Len(Taken(j, n)))
           Effect(rows, kept) ==
             /\ store' = [store EXCEPT ![t] = @ \o rows]
             /\ residue' = [residue EXCEPT ![t] = kept]
             /\ batch' = [batch EXCEPT ![j] = <<>>]
             /\ dropped' = dropped \cup (Range(batch[j]) \ (Range(rows) \cup Range(kept)))
             /\ dropped' # dropped => BackendFails \/ PoolClosed
           Filled(rows, kept) == Backend # "csv" => kept = <<>> /\ residue[t] = <<>>
<1>1. PICK n \in 0 .. Len(batch[j]) : \E w \in 0 .. Len(Taken(j, n)) : \E k \in 0 .. w :
        Effect(Rows(n, w), Kept(n, k)) /\ Filled(Rows(n, w), Kept(n, k))
  BY WriteEffect
<1>2. PICK w \in 0 .. Len(Taken(j, n)) : \E k \in 0 .. w :
        Effect(Rows(n, w), Kept(n, k)) /\ Filled(Rows(n, w), Kept(n, k))
  BY <1>1
<1>3. PICK k \in 0 .. w : Effect(Rows(n, w), Kept(n, k)) /\ Filled(Rows(n, w), Kept(n, k))
  BY <1>2
<1>4. /\ Rows(n, w) \in Seq(Records) /\ Kept(n, k) \in Seq(Records)
      /\ Range(Rows(n, w)) \cup Range(Kept(n, k)) = Range(Taken(j, n))
  BY WriteRows, WriteSlices
<1>5. /\ Range(residue[t]) \subseteq Range(Taken(j, n))
      /\ Range(Taken(j, n)) \subseteq Range(residue[t]) \cup Range(batch[j])
  BY WriteRows
<1>6. CASE Backend # "csv"
  <2>1. /\ residue[t] = <<>> /\ Kept(n, k) = <<>> /\ Range(<<>>) = {}
        /\ batch[j] \in Seq(Records)
    BY <1>3, <1>6 DEF TypeOK, Range
  <2>2. Taken(j, n) = SubSeq(batch[j], 1, n) /\ Taken(j, n) \in Seq(Records)
    <3>1. SubSeq(batch[j], 1, n) \in Seq(Records)
      BY <2>1, SliceType
    <3> QED  BY <2>1, <3>1, ConcatEmptySeq DEF Taken
  <2>3. Range(Rows(n, w)) \subseteq Range(batch[j])
    BY <1>4, <1>5, <2>1
  <2>4. ASSUME IsInjective(batch[j])  PROVE IsInjective(Rows(n, w))
    <3>1. IsInjective(Taken(j, n))
      BY <2>1, <2>2, <2>4, OnceSlice
    <3>2. Taken(j, n) \in Seq(Records)
      BY <2>2
    <3> QED  BY <3>1, <3>2, OnceSlice
  <2> HIDE DEF Rows, Kept, t
  <2>5. Effect(Rows(n, w), Kept(n, k))
    BY <1>3
  <2> QED  BY <1>4, <1>5, <2>1, <2>3, <2>4, <2>5 DEF t
<1>7. CASE Backend = "csv"
  <2> HIDE DEF Rows, Kept, t
  <2>1. Effect(Rows(n, w), Kept(n, k))
    BY <1>3
  <2> QED  BY <1>4, <1>5, <1>7, <2>1 DEF t
<1> QED  BY <1>6, <1>7

LEMMA WritePlace ==
  ASSUME TypeOK, KeptInv, PlaceInv, NEW j \in Jobs, WriteStep(j)
  PROVE  PlaceInv'
<1> DEFINE t == j[2]
           Q == OthersOf(batch, Jobs, j)
           K == OthersOf(residue, Tables, t)
           S == OthersOf(store, Tables, t)
<1>0. UNCHANGED <<channel, held, buffer, accepted>>
  BY WriteFrame
<1>1. CASE Acquire(j)
  <2>1. UNCHANGED <<batch, residue, store, dropped>>
    BY <1>1 DEF Acquire, storeVars, ghostVars
  <2> QED  BY <1>0, <2>1, PlaceFrame
<1>2. CASE ~Acquire(j)
  <2>1. t \in Tables /\ store[t] \in Seq(Records)
    BY DEF Jobs, TypeOK
  <2>2. PICK rows \in Seq(Records), kept \in Seq(Records) :
          /\ store' = [store EXCEPT ![t] = @ \o rows]
          /\ residue' = [residue EXCEPT ![t] = kept]
          /\ batch' = [batch EXCEPT ![j] = <<>>]
          /\ dropped' = dropped \cup (Range(batch[j]) \ (Range(rows) \cup Range(kept)))
          /\ Range(rows) \cup Range(kept) \subseteq Range(residue[t]) \cup Range(batch[j])
          /\ Backend # "csv" => /\ kept = <<>> /\ Range(rows) \subseteq Range(batch[j])
                                /\ IsInjective(batch[j]) => IsInjective(rows)
    BY <1>2, WriteTask
  <2>3. /\ store'[t] = store[t] \o rows /\ \A u \in Tables \ {t} : store'[u] = store[u]
        /\ residue'[t] = kept /\ \A u \in Tables \ {t} : residue'[u] = residue[u]
        /\ batch'[j] = <<>> /\ \A k \in Jobs \ {j} : batch'[k] = batch[k]
    BY <2>1, <2>2 DEF TypeOK
  <2>4. Range(store'[t]) = Range(store[t]) \cup Range(rows)
    BY <2>1, <2>3, RangeConcatenation
  <2>5. Range(<<>>) = {} /\ IsInjective(<<>>)
    BY DEF Range, IsInjective
  <2>6. Batched = Range(batch[j]) \cup Q /\ Batched' = Q
    <3>1. OthersOf(batch', Jobs, j) = Q  BY <2>3, OthersSame
    <3>2. Batched = Range(batch[j]) \cup Q  BY RecordsOfOne, AsRecordsOf
    <3>3. Batched' = Range(batch'[j]) \cup OthersOf(batch', Jobs, j)
      BY RecordsOfOne, AsRecordsOf
    <3> QED  BY <2>3, <2>5, <3>1, <3>2, <3>3
  <2>7. Retained = Range(residue[t]) \cup K /\ Retained' = Range(kept) \cup K
    <3>1. OthersOf(residue', Tables, t) = K  BY <2>3, OthersSame
    <3>2. Retained = Range(residue[t]) \cup K  BY <2>1, RecordsOfOne, AsRecordsOf
    <3>3. Retained' = Range(residue'[t]) \cup OthersOf(residue', Tables, t)
      BY <2>1, RecordsOfOne, AsRecordsOf
    <3> QED  BY <2>3, <3>1, <3>2, <3>3
  <2>8. Stored = Range(store[t]) \cup S /\ Stored' = Range(store[t]) \cup Range(rows) \cup S
    <3>1. OthersOf(store', Tables, t) = S  BY <2>3, OthersSame
    <3>2. Stored = Range(store[t]) \cup S  BY <2>1, RecordsOfOne, AsRecordsOf
    <3>3. Stored' = Range(store'[t]) \cup OthersOf(store', Tables, t)
      BY <2>1, RecordsOfOne, AsRecordsOf
    <3> QED  BY <2>4, <3>1, <3>2, <3>3
  <2>9. Range(batch[j]) \cap Q = {}
    BY ZenonT(60) DEF PlaceInv, ApartInv, OnePlace, OthersOf
  <2>10. Range(batch[j]) \subseteq Filed(t) /\ Range(residue[t]) \subseteq Filed(t)
    BY <2>1 DEF PlaceInv, FiledInv
  <2>11. OnceInv'
    BY <1>0, <2>3, <2>5 DEF PlaceInv, OnceInv
  <2>12. FiledInv'
    <3>1. \A u \in Tables : Range(residue'[u]) \cup Range(store'[u]) \subseteq Filed(u)
      BY <2>1, <2>2, <2>3, <2>4, <2>10 DEF PlaceInv, FiledInv
    <3>2. \A k \in Jobs : Range(batch'[k]) \subseteq Filed(k[2])
      BY <2>3, <2>5 DEF PlaceInv, FiledInv
    <3> QED  BY <1>0, <3>1, <3>2 DEF PlaceInv, FiledInv, Filed
  <2>13. ApartInv'
    <3> HIDE DEF Q, K, S, t
    <3>1. Range(channel') = Range(channel) /\ InHand' = InHand /\ Buffered' = Buffered
      BY <1>0, SetsFrame
    <3>2. ApartInv /\ OnePlace
      BY DEF PlaceInv, ApartInv
    <3>3. \A k, l \in Jobs : k # l => Range(batch'[k]) \cap Range(batch'[l]) = {}
      BY <2>3, <2>5, <3>2 DEF OnePlace
    <3>4. OnePlace'
      BY <2>6, <3>1, <3>2, <3>3 DEF OnePlace
    <3>5. InMemory' \cap Range(batch[j]) = {} /\ InMemory' \subseteq InMemory
          /\ Range(batch[j]) \subseteq InMemory
      BY <2>6, <2>9, <3>1, <3>2 DEF OnePlace, InMemory
    <3>6. Retained' \cup Stored' \subseteq Retained \cup Stored \cup Range(batch[j])
      BY <2>2, <2>7, <2>8
    <3>7. InMemory' \cap (Retained' \cup Stored') = {}
      BY <3>2, <3>5, <3>6 DEF ApartInv
    <3>8. dropped' \cap (InMemory' \cup Retained' \cup Stored') = {}
      <4>1. dropped \cap (InMemory' \cup Retained' \cup Stored') = {}
        BY <3>2, <3>5, <3>6 DEF ApartInv
      <4>2. dropped' \subseteq dropped \cup (Range(batch[j]) \ (Range(rows) \cup Range(kept)))
        BY <2>2
      <4>3. Range(batch[j]) \cap (Retained' \cup Stored') \subseteq Range(rows) \cup Range(kept)
        BY <2>7, <2>8, <3>2, <3>5 DEF ApartInv
      <4> QED  BY <3>5, <4>1, <4>2, <4>3
    <3> QED  BY <3>4, <3>7, <3>8 DEF ApartInv
  <2>14. StoredOnce'
    <3> SUFFICES ASSUME Backend # "csv", NEW u \in Tables
                 PROVE  \A i, k \in DOMAIN store'[u] : i # k => store'[u][i] # store'[u][k]
      BY DEF StoredOnce
    <3>1. CASE u # t
      BY <2>3, <3>1 DEF PlaceInv, StoredOnce
    <3>2. CASE u = t
      <4>1. IsInjective(store[t]) /\ IsInjective(rows)
        BY <2>1, <2>2 DEF PlaceInv, OnceInv, StoredOnce, IsInjective
      <4>2. Range(store[t]) \cap Range(batch[j]) = {}
        BY <2>1 DEF PlaceInv, ApartInv, InMemory, Batched, Stored
      <4>3. IsInjective(store[t] \o rows)
        BY <2>1, <2>2, <4>1, <4>2, OnceConcat
      <4> QED  BY <2>3, <3>2, <4>3 DEF IsInjective
    <3> QED  BY <3>1, <3>2
  <2> QED  BY <2>11, <2>12, <2>13, <2>14 DEF PlaceInv
<1> QED  BY <1>1, <1>2

\* Flushing the CSV writers, one by one or as they are dropped, adds first rows of
\* what they kept; what a writer keeps after that it had kept before.
LEMMA KeptRows ==
  ASSUME TypeOK, (\E u \in Tables : SyncWriter(u)) \/ Exit, NEW t \in Tables
  PROVE  /\ \E w \in 0 .. Len(residue[t]) : store'[t] = store[t] \o SubSeq(residue[t], 1, w)
         /\ residue'[t] \in {<<>>, residue[t]}
<1>0. store[t] \in Seq(Records) /\ residue[t] \in Seq(Records) /\ Len(residue[t]) \in Nat
  BY LenProperties DEF TypeOK
<1>1. ASSUME NEW u \in Tables, SyncWriter(u)
      PROVE  /\ \E w \in 0 .. Len(residue[t]) : store'[t] = store[t] \o SubSeq(residue[t], 1, w)
             /\ residue'[t] \in {<<>>, residue[t]}
  <2>1. PICK w \in 0 .. Len(residue[u]) :
          /\ store' = [store EXCEPT ![u] = @ \o SubSeq(residue[u], 1, w)]
          /\ residue' = [residue EXCEPT ![u] = IF w = Len(@) THEN <<>> ELSE @]
    BY <1>1 DEF SyncWriter
  <2>2. CASE t = u
    <3>1. store'[t] = store[t] \o SubSeq(residue[t], 1, w) /\ residue'[t] \in {<<>>, residue[t]}
      BY <2>1, <2>2 DEF TypeOK
    <3> QED  BY <2>2, <3>1
  <2>3. CASE t # u
    <3>1. store'[t] = store[t] /\ residue'[t] = residue[t]
      BY <2>1, <2>3 DEF TypeOK
    <3>2. SubSeq(residue[t], 1, 0) = <<>> /\ store[t] \o <<>> = store[t]
      BY <1>0, SubSeqEmpty, ConcatEmptySeq
    <3>3. store'[t] = store[t] \o SubSeq(residue[t], 1, 0) /\ 0 \in 0 .. Len(residue[t])
      BY <1>0, <3>1, <3>2
    <3> QED  BY <3>1, <3>3
  <2> QED  BY <2>2, <2>3
<1>2. CASE Exit
  <2>1. PICK w \in [Tables -> 0 .. Cardinality(Records)] :
          /\ \A u \in Tables : w[u] <= Len(residue[u])
          /\ store' = [u \in Tables |-> store[u] \o SubSeq(residue[u], 1, w[u])]
    BY <1>2 DEF Exit
  <2>2. Cardinality(Records) \in Nat
    BY FS_CardinalityType, StorageAssumption DEF StorageAssumption
  <2>3. w[t] \in 0 .. Len(residue[t])
    BY <1>0, <2>1, <2>2
  <2>4. store'[t] = store[t] \o SubSeq(residue[t], 1, w[t])
    BY <2>1
  <2>5. residue'[t] = <<>>
    BY <1>2 DEF Exit
  <2> QED  BY <2>3, <2>4, <2>5
<1> QED  BY <1>1, <1>2

LEMMA ClosePlace ==
  ASSUME TypeOK, KeptInv, PlaceInv, (\E u \in Tables : SyncWriter(u)) \/ Exit
  PROVE  PlaceInv'
<1>1. ASSUME NEW t \in Tables
      PROVE  /\ Range(store'[t]) \cup Range(residue'[t]) \subseteq Range(store[t]) \cup Range(residue[t])
             /\ Backend # "csv" => store'[t] = store[t]
  <2>1. store[t] \in Seq(Records) /\ residue[t] \in Seq(Records)
    BY DEF TypeOK
  <2>2. PICK w \in 0 .. Len(residue[t]) : store'[t] = store[t] \o SubSeq(residue[t], 1, w)
    BY KeptRows
  <2>3. residue'[t] \in {<<>>, residue[t]} /\ Range(<<>>) = {}
    <3>1. residue'[t] \in {<<>>, residue[t]}
      BY KeptRows
    <3>2. Range(<<>>) = {}
      BY DEF Range
    <3> QED  BY <3>1, <3>2
  <2> DEFINE q == SubSeq(residue[t], 1, w)
  <2>4. q \in Seq(Records) /\ Range(q) \subseteq Range(residue[t])
    BY <2>1, RangeSlice
  <2>5. Backend # "csv" => q = <<>>
    <3> SUFFICES ASSUME Backend # "csv"  PROVE q = <<>>
      OBVIOUS
    <3>1. residue[t] = <<>> /\ w = 0
      BY <2>1, EmptySeq DEF KeptInv
    <3> QED  BY <3>1, SubSeqEmpty
  <2> HIDE DEF q
  <2>6. store'[t] = store[t] \o q
    BY <2>2 DEF q
  <2>7. Range(store'[t]) = Range(store[t]) \cup Range(q)
    BY <2>1, <2>4, <2>6, RangeConcatenation
  <2>8. Backend # "csv" => store'[t] = store[t]
    BY <2>1, <2>5, <2>6, ConcatEmptySeq
  <2> QED  BY <2>3, <2>4, <2>7, <2>8
<1>2. Retained' \cup Stored' \subseteq Retained \cup Stored
  BY <1>1 DEF Retained, Stored
<1>3. StoredOnce'
  BY <1>1 DEF PlaceInv, StoredOnce
<1>4. ASSUME NEW u \in Tables, SyncWriter(u)  PROVE PlaceInv'
  <2>1. UNCHANGED <<channel, held, buffer, batch, accepted, dropped>>
    BY <1>4 DEF SyncWriter, taskVars, ghostVars
  <2>2. OnceInv' /\ FiledInv'
    BY <1>1, <2>1 DEF PlaceInv, OnceInv, FiledInv, Filed
  <2>3. OnePlace' /\ InMemory' = InMemory
    BY <2>1, SetsFrame DEF PlaceInv, ApartInv, OnePlace, InMemory
  <2>4. ApartInv'
    BY <1>2, <2>1, <2>3 DEF PlaceInv, ApartInv
  <2> QED  BY <1>3, <2>2, <2>4 DEF PlaceInv
<1>5. CASE Exit
  <2>1. /\ channel' = <<>> /\ held' = NoRecord
        /\ \A t \in Tables : buffer'[t] = <<>>
        /\ \A j \in Jobs : batch'[j] = <<>>
        /\ accepted' = accepted
        /\ dropped' = dropped \cup ((InMemory \cup Retained) \ Stored')
    BY <1>5 DEF Exit, Stored
  <2>2. Range(<<>>) = {} /\ IsInjective(<<>>)
    BY DEF Range, IsInjective
  <2>3. OnceInv'
    BY <2>1, <2>2 DEF PlaceInv, OnceInv
  <2>4. FiledInv'
    <3>1. \A t \in Tables : Range(buffer'[t]) = {}
      BY <2>1, <2>2
    <3>2. \A j \in Jobs : Range(batch'[j]) = {}
      BY <2>1, <2>2
    <3> QED  BY <1>1, <3>1, <3>2 DEF PlaceInv, FiledInv, Filed
  <2>5. /\ Range(channel') = {} /\ InHand' = {} /\ Buffered' = {} /\ Batched' = {}
        /\ \A j \in Jobs : Range(batch'[j]) = {}
    BY <2>1, <2>2 DEF InHand, Buffered, Batched
  <2>6. OnePlace' /\ InMemory' = {} /\ Retained' = {}
    BY <1>5, <2>5, ExitMoves DEF OnePlace
  <2>7. dropped' \cap Stored' = {}
    BY <1>2, <2>1 DEF PlaceInv, ApartInv
  <2>8. ApartInv'
    BY <2>6, <2>7 DEF ApartInv
  <2> QED  BY <1>3, <2>3, <2>4, <2>8 DEF PlaceInv
<1> QED  BY <1>4, <1>5

\* The memory guard clears a buffer that is empty.
LEMMA ForcedFrame ==
  ASSUME TypeOK, FlushInv, ForcedFlushReturn
  PROVE  buffer' = buffer /\ dropped' = dropped
<1>0. "bg" \in Flushers  BY DEF Flushers
<1>1. Buffered = {} /\ \A t \in Tables : buffer[t] = <<>>
  BY <1>0, ReturnedFlush DEF ForcedFlushReturn, FlushInv, FlushReturned
<1>2. buffer = [t \in Tables |-> <<>>]
  BY <1>1 DEF TypeOK
<1>3. CASE FlushFailed("bg")
  BY <1>1, <1>2, <1>3 DEF ForcedFlushReturn
<1>4. CASE ~FlushFailed("bg")
  BY <1>4 DEF ForcedFlushReturn
<1> QED  BY <1>3, <1>4

LEMMA NextPlace == FlushesInStep /\ PlaceInv /\ [Next]_vars => PlaceInv'
<1> SUFFICES ASSUME FlushesInStep, PlaceInv, [Next]_vars  PROVE PlaceInv'
  OBVIOUS
<1> USE DEF FlushesInStep, taskVars, flushVars, storeVars, ghostVars, closeVars
<1>1. CASE Senders
  BY <1>1, SendPlace, PlaceFrame DEF Senders, SendFails
<1>2. ASSUME NEW p \in Flushers, FlushStep(p)  PROVE PlaceInv'
  BY <1>2, DrainPlace, PlaceFrame DEF FlushStep, SpawnWrites
<1>3. CASE BackgroundTask
  <2>0. "bg" \in Flushers  BY DEF Flushers
  <2>1. CASE Receive \/ Admit \/ Reject
    BY <2>1, ReceivePlace, AdmitPlace, RejectPlace
  <2>2. CASE TimerTick \/ ShutdownSignal \/ LoopFlushReturn
    BY <2>2, PlaceFrame DEF TimerTick, ShutdownSignal, LoopFlushReturn
  <2>3. CASE ForcedFlushReturn
    BY <2>3, ForcedFrame, PlaceFrame DEF ForcedFlushReturn
  <2>4. CASE ShutdownFlushReturn
    <3>1. /\ channel' = <<>> /\ dropped' = dropped \cup Range(channel)
          /\ UNCHANGED <<held, buffer, batch, residue, store, accepted>>
      BY <2>4 DEF ShutdownFlushReturn
    <3>2. Range(<<>>) = {} /\ IsInjective(<<>>)
      BY DEF Range, IsInjective
    <3>3. OnceInv' /\ FiledInv' /\ StoredOnce'
      BY <3>1, <3>2 DEF PlaceInv, OnceInv, FiledInv, Filed, StoredOnce
    <3>4. Range(channel') = {}
      BY <3>1, <3>2
    <3>5. ApartInv'
      BY <3>1, <3>4, SetsFrame DEF PlaceInv, ApartInv, OnePlace, InMemory
    <3> QED  BY <3>3, <3>5 DEF PlaceInv
  <2>5. CASE FlushStep("bg")
    BY <1>2, <2>0, <2>5
  <2> QED
    BY <1>3, <2>1, <2>2, <2>3, <2>4, <2>5 DEF BackgroundTask
<1>4. CASE \E j \in Jobs : WriteStep(j)
  BY <1>4, WritePlace
<1>5. CASE CloseSignal
  BY <1>5, PlaceFrame DEF CloseSignal
<1>6. CASE Close
  <2>0. "closer" \in Flushers  BY DEF Flushers
  <2>1. CASE CloseFlush \/ CloseFlushReturn
    BY <2>1, PlaceFrame DEF CloseFlush, CloseFlushReturn
  <2>2. CASE (\E t \in Tables : SyncWriter(t)) \/ Exit
    BY <2>2, ClosePlace
  <2>3. CASE FlushStep("closer")
    BY <1>2, <2>0, <2>3
  <2> QED
    BY <1>6, <2>1, <2>2, <2>3 DEF Close
<1>7. CASE Stopped \/ UNCHANGED vars
  BY <1>7, PlaceFrame DEF Stopped, vars
<1> QED
  BY <1>1, <1>3, <1>4, <1>5, <1>6, <1>7 DEF Next

-----------------------------------------------------------------------------
(* Where the records are, as theorems. *)

LEMMA PlaceAlways == Spec => []PlaceInv
BY InitPlace, NextPlace, FlushesAlwaysInStep, PTL DEF Spec

\* The two flushers never hold the same record, nor is one held while it still waits:
\* no record is written from two places, for any number of records and tables.
THEOREM AlwaysOnePlace == Spec => []OnePlace
<1>1. PlaceInv => OnePlace
  BY DEF PlaceInv, ApartInv
<1> QED
  BY <1>1, PlaceAlways, PTL

\* A database never gets a row twice, even where a write reported as failed was
\* in fact committed: the batch that failed is never written again.
THEOREM AlwaysStoredOnce == Spec => []StoredOnce
<1>1. PlaceInv => StoredOnce
  BY DEF PlaceInv
<1> QED
  BY <1>1, PlaceAlways, PTL

\* What was counted as lost is never written after all, not even by a CSV writer
\* that is flushed as it is dropped.
THEOREM LostStaysLost == Spec => []DroppedIsFinal
<1>1. PlaceInv => DroppedIsFinal
  BY DEF PlaceInv, ApartInv, DroppedIsFinal
<1> QED
  BY <1>1, PlaceAlways, PTL

-----------------------------------------------------------------------------
(* Sequences that follow an order. *)

\* The place of r in s, the order in which the channel took the records.
Rank(s, r) == CHOOSE i \in DOMAIN s : s[i] = r

\* Every record of A comes before every record of B.
Before(s, A, B) == \A a \in A, b \in B : Rank(s, a) < Rank(s, b)

\* The records of q stand in the order of s; so do, at least, their first occurrences.
InOrder(s, q) == \A i, k \in DOMAIN q : i < k => Rank(s, q[i]) < Rank(s, q[k])

FirstsInOrder(s, q) ==
  \A k \in DOMAIN q :
    (\A i \in 1 .. k - 1 : q[i] # q[k]) => \A i \in 1 .. k - 1 : Rank(s, q[i]) < Rank(s, q[k])

LEMMA RankOf ==
  ASSUME NEW S, NEW s \in Seq(S), IsInjective(s), NEW i \in DOMAIN s
  PROVE  Rank(s, s[i]) = i
BY DEF Rank, IsInjective

\* A record that is appended comes last and moves no other.
LEMMA RankAppend ==
  ASSUME NEW S, NEW s \in Seq(S), IsInjective(s), NEW e \in S, e \notin Range(s)
  PROVE  \A x \in Range(s) : /\ Rank(Append(s, e), x) = Rank(s, x)
                             /\ Rank(Append(s, e), x) < Rank(Append(s, e), e)
<1> DEFINE q == Append(s, e)
<1>1. /\ q \in Seq(S) /\ Len(q) = Len(s) + 1 /\ Len(s) \in Nat
      /\ \A i \in 1 .. Len(s) : q[i] = s[i]
      /\ q[Len(s) + 1] = e
      /\ IsInjective(q)
  BY AppendProperties, LenProperties, OnceAppend
<1>2. DOMAIN s = 1 .. Len(s) /\ DOMAIN q = 1 .. Len(s) + 1
  BY <1>1, LenProperties
<1> HIDE DEF q
<1>3. Rank(q, q[Len(s) + 1]) = Len(s) + 1
  BY <1>1, <1>2, RankOf
<1>4. ASSUME NEW x \in Range(s)
      PROVE  Rank(q, x) = Rank(s, x) /\ Rank(q, x) < Rank(q, e)
  <2>1. PICK i \in DOMAIN s : s[i] = x
    BY DEF Range
  <2>2. Rank(s, s[i]) = i
    BY RankOf
  <2>3. i \in DOMAIN q /\ q[i] = x
    BY <1>1, <1>2, <2>1
  <2>4. Rank(q, q[i]) = i
    BY <1>1, <2>3, RankOf
  <2> QED  BY <1>1, <1>2, <1>3, <2>1, <2>2, <2>3, <2>4
<1> QED  BY <1>4 DEF q

LEMMA InOrderAppend ==
  ASSUME NEW s, NEW S, NEW q \in Seq(S), NEW e \in S, InOrder(s, q), Before(s, Range(q), {e})
  PROVE  InOrder(s, Append(q, e))
<1> DEFINE p == Append(q, e)
<1>1. /\ p \in Seq(S) /\ Len(p) = Len(q) + 1 /\ Len(q) \in Nat
      /\ \A i \in 1 .. Len(q) : p[i] = q[i]
      /\ p[Len(q) + 1] = e
  BY AppendProperties, LenProperties
<1>2. DOMAIN q = 1 .. Len(q) /\ DOMAIN p = 1 .. Len(q) + 1
  BY <1>1, LenProperties
<1> HIDE DEF p
<1>3. \A i \in DOMAIN q : Rank(s, q[i]) < Rank(s, e)
  BY DEF Before, Range
<1>4. ASSUME NEW i \in DOMAIN p, NEW k \in DOMAIN p, i < k
      PROVE  Rank(s, p[i]) < Rank(s, p[k])
  <2>1. i \in DOMAIN q /\ p[i] = q[i]
    BY <1>1, <1>2, <1>4
  <2>2. CASE k \in DOMAIN q
    BY <1>1, <1>2, <1>4, <2>1, <2>2 DEF InOrder
  <2>3. CASE k \notin DOMAIN q
    BY <1>1, <1>2, <1>3, <2>1, <2>3
  <2> QED  BY <2>2, <2>3
<1> QED  BY <1>4 DEF InOrder, p

LEMMA InOrderTail ==
  ASSUME NEW s, NEW S, NEW q \in Seq(S), q # <<>>, InOrder(s, q)
  PROVE  InOrder(s, Tail(q)) /\ Before(s, {Head(q)}, Range(Tail(q)))
<1> DEFINE p == Tail(q)
<1>1. /\ p \in Seq(S) /\ Len(p) = Len(q) - 1 /\ Len(q) \in Nat \ {0}
      /\ \A i \in 1 .. Len(p) : p[i] = q[i + 1]
  BY HeadTailProperties, EmptySeq
<1>2. DOMAIN q = 1 .. Len(q) /\ DOMAIN p = 1 .. Len(p) /\ Head(q) = q[1]
  BY <1>1, LenProperties
<1> HIDE DEF p
<1>3. InOrder(s, p)
  <2> SUFFICES ASSUME NEW i \in DOMAIN p, NEW k \in DOMAIN p, i < k
      PROVE  Rank(s, p[i]) < Rank(s, p[k])
    BY DEF InOrder
  <2>1. /\ i + 1 \in DOMAIN q /\ k + 1 \in DOMAIN q /\ i + 1 < k + 1
        /\ i \in 1 .. Len(p) /\ k \in 1 .. Len(p)
    BY <1>1, <1>2
  <2>2. Rank(s, q[i + 1]) < Rank(s, q[k + 1])
    BY <2>1 DEF InOrder
  <2> QED  BY <1>1, <2>1, <2>2
<1>4. ASSUME NEW k \in DOMAIN p  PROVE Rank(s, Head(q)) < Rank(s, p[k])
  <2>1. 1 \in DOMAIN q /\ k + 1 \in DOMAIN q /\ 1 < k + 1 /\ k \in 1 .. Len(p)
    BY <1>1, <1>2
  <2>2. Rank(s, q[1]) < Rank(s, q[k + 1])
    BY <2>1 DEF InOrder
  <2> QED  BY <1>1, <1>2, <2>1, <2>2
<1> QED
  BY <1>3, <1>4 DEF Before, Range, p

LEMMA InOrderConcat ==
  ASSUME NEW s, NEW S, NEW p \in Seq(S), NEW q \in Seq(S),
         InOrder(s, p), InOrder(s, q), Before(s, Range(p), Range(q))
  PROVE  InOrder(s, p \o q)
<1> DEFINE c == p \o q
<1>1. /\ c \in Seq(S) /\ Len(c) = Len(p) + Len(q) /\ Len(p) \in Nat /\ Len(q) \in Nat
      /\ \A i \in 1 .. Len(p) + Len(q) : c[i] = IF i <= Len(p) THEN p[i] ELSE q[i - Len(p)]
  BY ConcatProperties, LenProperties
<1>2. /\ DOMAIN p = 1 .. Len(p) /\ DOMAIN q = 1 .. Len(q)
      /\ DOMAIN c = 1 .. Len(p) + Len(q)
  BY <1>1, LenProperties
<1> HIDE DEF c
<1>3. \A i \in DOMAIN p, k \in DOMAIN q : Rank(s, p[i]) < Rank(s, q[k])
  BY DEF Before, Range
<1>4. ASSUME NEW i \in DOMAIN c, NEW k \in DOMAIN c, i < k
      PROVE  Rank(s, c[i]) < Rank(s, c[k])
  <2>1. CASE k <= Len(p)
    BY <1>1, <1>2, <1>4, <2>1 DEF InOrder
  <2>2. CASE i > Len(p)
    <3>1. i - Len(p) \in DOMAIN q /\ k - Len(p) \in DOMAIN q /\ i - Len(p) < k - Len(p)
      BY <1>1, <1>2, <1>4, <2>2
    <3>2. c[i] = q[i - Len(p)] /\ c[k] = q[k - Len(p)]
      BY <1>1, <1>2, <1>4, <2>2
    <3> QED  BY <3>1, <3>2 DEF InOrder
  <2>3. CASE i <= Len(p) /\ k > Len(p)
    <3>1. i \in DOMAIN p /\ c[i] = p[i]
      BY <1>1, <1>2, <2>3
    <3>2. k - Len(p) \in DOMAIN q /\ c[k] = q[k - Len(p)]
      BY <1>1, <1>2, <2>3
    <3> QED  BY <1>3, <3>1, <3>2
  <2> QED  BY <1>1, <1>2, <2>1, <2>2, <2>3
<1> QED  BY <1>4 DEF InOrder, c

LEMMA InOrderSlice ==
  ASSUME NEW s, NEW S, NEW q \in Seq(S), NEW m \in Nat \ {0}, NEW n \in 0 .. Len(q), InOrder(s, q)
  PROVE  InOrder(s, SubSeq(q, m, n))
<1> DEFINE p == SubSeq(q, m, n)
<1>1. Len(q) \in Nat /\ DOMAIN q = 1 .. Len(q)
  BY LenProperties
<1>2. \A i \in m .. n : q[i] \in S
  BY <1>1, ElementOfSeq
<1>3. /\ p \in Seq(S)
      /\ Len(p) = IF m <= n THEN n - m + 1 ELSE 0
      /\ \A i \in 1 .. n - m + 1 : p[i] = q[m + i - 1]
  BY <1>2, SubSeqProperties
<1>4. DOMAIN p = 1 .. Len(p)
  BY <1>3, LenProperties
<1> HIDE DEF p
<1>5. ASSUME NEW i \in DOMAIN p, NEW k \in DOMAIN p, i < k
      PROVE  Rank(s, p[i]) < Rank(s, p[k])
  <2>1. i \in 1 .. n - m + 1 /\ k \in 1 .. n - m + 1
    BY <1>3, <1>4
  <2>2. /\ m + i - 1 \in DOMAIN q /\ m + k - 1 \in DOMAIN q /\ m + i - 1 < m + k - 1
        /\ p[i] = q[m + i - 1] /\ p[k] = q[m + k - 1]
    BY <1>1, <1>3, <1>5, <2>1
  <2> QED  BY <2>2 DEF InOrder
<1> QED  BY <1>5 DEF InOrder, p

\* Of a sequence in order, the records that only the suffix has come after the prefix.
LEMMA InOrderSplit ==
  ASSUME NEW s, NEW S, NEW q \in Seq(S), NEW w \in 0 .. Len(q), NEW k \in 0 .. w, InOrder(s, q)
  PROVE  LET first == Range(SubSeq(q, 1, w))
         IN  Before(s, first, Range(SubSeq(q, k + 1, Len(q))) \ first)
<1> DEFINE first == Range(SubSeq(q, 1, w))
           rest == Range(SubSeq(q, k + 1, Len(q)))
<1>1. Len(q) \in Nat /\ DOMAIN q = 1 .. Len(q)
  BY LenProperties
<1>2. first = {q[i] : i \in 1 .. w}
  BY <1>1, RangeSlice
<1>3. rest = {q[i] : i \in k + 1 .. Len(q)}
  <2>1. k + 1 \in Nat \ {0} /\ Len(q) \in 0 .. Len(q)
    BY <1>1
  <2> QED  BY <2>1, RangeSlice
<1> HIDE DEF first, rest
<1>4. ASSUME NEW a \in first, NEW b \in rest \ first
      PROVE  Rank(s, a) < Rank(s, b)
  <2>1. PICK i \in 1 .. w : a = q[i]
    BY <1>2
  <2>2. PICK m \in k + 1 .. Len(q) : b = q[m]
    BY <1>3
  <2>3. m \notin 1 .. w
    BY <1>2, <2>2
  <2>4. i \in DOMAIN q /\ m \in DOMAIN q /\ i < m
    BY <1>1, <2>3
  <2> QED  BY <2>1, <2>2, <2>4 DEF InOrder
<1> QED  BY <1>4 DEF Before, first, rest

LEMMA FirstsConcat ==
  ASSUME NEW s, NEW S, NEW q \in Seq(S), NEW p \in Seq(S),
         FirstsInOrder(s, q), InOrder(s, p), Before(s, Range(q), Range(p) \ Range(q))
  PROVE  FirstsInOrder(s, q \o p)
<1> DEFINE c == q \o p
<1>1. /\ c \in Seq(S) /\ Len(c) = Len(q) + Len(p) /\ Len(q) \in Nat /\ Len(p) \in Nat
      /\ \A i \in 1 .. Len(q) + Len(p) : c[i] = IF i <= Len(q) THEN q[i] ELSE p[i - Len(q)]
  BY ConcatProperties, LenProperties
<1>2. /\ DOMAIN q = 1 .. Len(q) /\ DOMAIN p = 1 .. Len(p)
      /\ DOMAIN c = 1 .. Len(q) + Len(p)
  BY <1>1, LenProperties
<1> HIDE DEF c
<1>3. ASSUME NEW k \in DOMAIN c, \A i \in 1 .. k - 1 : c[i] # c[k], NEW i \in 1 .. k - 1
      PROVE  Rank(s, c[i]) < Rank(s, c[k])
  <2>1. CASE k <= Len(q)
    <3>1. k \in DOMAIN q /\ c[k] = q[k] /\ \A m \in 1 .. k - 1 : c[m] = q[m]
      BY <1>1, <1>2, <2>1
    <3> QED  BY <1>3, <3>1 DEF FirstsInOrder
  <2>2. CASE k > Len(q)
    <3>1. k - Len(q) \in DOMAIN p /\ c[k] = p[k - Len(q)]
      BY <1>1, <1>2, <2>2
    <3>2. CASE i <= Len(q)
      <4>1. i \in DOMAIN q /\ c[i] = q[i]
        BY <1>1, <1>2, <3>2
      <4>2. \A m \in DOMAIN q : q[m] # c[k]
        BY <1>1, <1>2, <1>3, <2>2, SMTT(60)
      <4>3. c[k] \in Range(p) \ Range(q) /\ c[i] \in Range(q)
        BY <3>1, <4>1, <4>2 DEF Range
      <4> QED  BY <4>3 DEF Before
    <3>3. CASE i > Len(q)
      <4>1. i - Len(q) \in DOMAIN p /\ c[i] = p[i - Len(q)] /\ i - Len(q) < k - Len(q)
        BY <1>1, <1>2, <2>2, <3>3
      <4> QED  BY <3>1, <4>1 DEF InOrder
    <3> QED  BY <1>1, <1>2, <3>2, <3>3
  <2> QED  BY <1>1, <1>2, <2>1, <2>2
<1> QED  BY <1>3 DEF FirstsInOrder, c

-----------------------------------------------------------------------------
(* The order of the rows of a table. *)

\* What table t has, or its CSV writer will add to it.
Written(t) == Range(store[t]) \cup Range(residue[t])

\* The records on their way to table t, in the hands of the background task.
Underway(t) == Range(buffer[t]) \cup Range(batch[<<"bg", t>>])

\* What was received before the record in hand.
Received == Buffered \cup Batched \cup Retained \cup Stored

\* The records of table t are written in single file.
TableOrder(t) ==
  /\ InOrder(accepted, buffer[t]) /\ InOrder(accepted, batch[<<"bg", t>>])
  /\ InOrder(accepted, residue[t]) /\ FirstsInOrder(accepted, store[t])
  /\ Before(accepted, Written(t), Underway(t))
  /\ Before(accepted, Range(store[t]), Range(residue[t]) \ Range(store[t]))

\* Records pass from the channel through the hand into the rest in the order in which
\* they were sent and, until close() flushes as well, from there into their tables.
OrderInv ==
  /\ InOrder(accepted, channel)
  /\ Before(accepted, InHand \cup Received, Range(channel))
  /\ Before(accepted, Received, InHand)
  /\ closer \in {"open", "sleep"} => \A t \in Tables : TableOrder(t)

LEMMA InitOrder == Init => OrderInv
<1> SUFFICES ASSUME Init  PROVE OrderInv
  OBVIOUS
<1>1. Range(<<>>) = {} /\ InOrder(accepted, <<>>) /\ FirstsInOrder(accepted, <<>>)
  BY DEF Range, InOrder, FirstsInOrder
<1>2. \A t \in Tables : <<"bg", t>> \in Jobs
  BY DEF Jobs, Flushers
<1>3. ASSUME NEW t \in Tables  PROVE TableOrder(t)
  BY <1>1, <1>2 DEF Init, TableOrder, Written, Underway, Before
<1>4. InHand = {} /\ Range(channel) = {} /\ channel = <<>>
  BY <1>1 DEF Init, InHand
<1> QED
  BY <1>1, <1>3, <1>4 DEF OrderInv, Before

\* The queue ahead of the buffer stays in order when nothing joins it and what was
\* received stays received, or is gone.
LEMMA QueueFrame ==
  ASSUME OrderInv, UNCHANGED <<channel, held, accepted>>,
         Received' \subseteq Received,
         closer' \in {"open", "sleep"} => \A t \in Tables : TableOrder(t)'
  PROVE  OrderInv'
<1>1. InHand' = InHand
  BY SetsFrame
<1> QED
  BY <1>1 DEF OrderInv, Before

\* So does a step that moves no record.
LEMMA OrderFrame ==
  ASSUME OrderInv, UNCHANGED <<channel, held, buffer, batch, residue, store, accepted>>,
         closer' \in {"open", "sleep"} => closer \in {"open", "sleep"}
  PROVE  OrderInv'
<1>1. Received' = Received
  BY SetsFrame DEF Received
<1>2. \A t \in Tables : TableOrder(t) => TableOrder(t)'
  BY DEF TableOrder, Written, Underway
<1> QED
  BY <1>1, <1>2, QueueFrame DEF OrderInv

LEMMA SendOrder ==
  ASSUME TypeOK, Conservation, PlaceInv, OrderInv, NEW r \in Records, Send(r)
  PROVE  OrderInv'
<1>1. /\ channel' = Append(channel, r) /\ accepted' = Append(accepted, r)
      /\ r \notin Range(accepted)
      /\ UNCHANGED <<held, buffer, batch, residue, store, closer>>
  BY DEF Send, flushVars, storeVars, closeVars
<1>2. /\ accepted \in Seq(Records) /\ IsInjective(accepted) /\ channel \in Seq(Records)
  BY DEF TypeOK, PlaceInv, OnceInv
<1>3. \A x \in Range(accepted) : /\ Rank(accepted', x) = Rank(accepted, x)
                                 /\ Rank(accepted', x) < Rank(accepted', r)
  BY <1>1, <1>2, RankAppend
<1>4. /\ Range(channel) \subseteq Range(accepted) /\ InHand \subseteq Range(accepted)
      /\ Received \subseteq Range(accepted)
  BY AllAccepted DEF Received
<1>5. ASSUME NEW A, NEW B, A \subseteq Range(accepted), B \subseteq Range(accepted),
             Before(accepted, A, B)
      PROVE  Before(accepted', A, B)
  BY <1>3, <1>5 DEF Before
<1>6. ASSUME NEW q, Range(q) \subseteq Range(accepted)
      PROVE  /\ InOrder(accepted, q) => InOrder(accepted', q)
             /\ q \in Seq(Records) /\ FirstsInOrder(accepted, q) => FirstsInOrder(accepted', q)
  <2>1. \A i \in DOMAIN q : Rank(accepted', q[i]) = Rank(accepted, q[i])
    BY <1>3, <1>6 DEF Range
  <2>2. ASSUME q \in Seq(Records), FirstsInOrder(accepted, q)  PROVE FirstsInOrder(accepted', q)
    <3>1. DOMAIN q = 1 .. Len(q) /\ Len(q) \in Nat
      BY <2>2, LenProperties
    <3>2. \A k \in DOMAIN q : \A i \in 1 .. k - 1 : i \in DOMAIN q
      BY <3>1
    <3> QED  BY <2>1, <2>2, <3>2 DEF FirstsInOrder
  <2> QED  BY <2>1, <2>2 DEF InOrder
<1>7. InHand' = InHand /\ Received' = Received /\ Range(channel') = Range(channel) \cup {r}
  <2>1. InHand' = InHand /\ Received' = Received
    BY <1>1, SetsFrame DEF Received
  <2>2. Range(channel') = Range(channel) \cup {r}
    BY <1>1, <1>2, RangeAppend
  <2> QED  BY <2>1, <2>2
<1>8. InOrder(accepted', channel')
  <2>1. InOrder(accepted', channel)
    BY <1>4, <1>6 DEF OrderInv
  <2>2. Before(accepted', Range(channel), {r})
    BY <1>3, <1>4 DEF Before
  <2> QED  BY <1>1, <1>2, <2>1, <2>2, InOrderAppend
<1>9. Before(accepted', InHand' \cup Received', Range(channel'))
  <2>1. Before(accepted', InHand \cup Received, Range(channel))
    BY <1>4, <1>5 DEF OrderInv
  <2>2. Before(accepted', InHand \cup Received, {r})
    BY <1>3, <1>4 DEF Before
  <2> QED  BY <1>7, <2>1, <2>2 DEF Before
<1>10. Before(accepted', Received', InHand')
  BY <1>4, <1>5, <1>7 DEF OrderInv
<1>11. ASSUME NEW t \in Tables, TableOrder(t)  PROVE TableOrder(t)'
  <2>1. /\ Range(buffer[t]) \subseteq Range(accepted)
        /\ Range(batch[<<"bg", t>>]) \subseteq Range(accepted)
        /\ Range(residue[t]) \subseteq Range(accepted) /\ Range(store[t]) \subseteq Range(accepted)
    BY <1>4 DEF Received, Buffered, Batched, Retained, Stored, Jobs, Flushers
  <2>2. /\ InOrder(accepted', buffer[t]) /\ InOrder(accepted', batch[<<"bg", t>>])
        /\ InOrder(accepted', residue[t]) /\ FirstsInOrder(accepted', store[t])
    BY <1>6, <1>11, <2>1 DEF TableOrder, TypeOK
  <2>3. /\ Before(accepted', Written(t), Underway(t))
        /\ Before(accepted', Range(store[t]), Range(residue[t]) \ Range(store[t]))
    BY <1>5, <1>11, <2>1 DEF TableOrder, Written, Underway
  <2> QED  BY <1>1, <2>2, <2>3 DEF TableOrder, Written, Underway
<1> QED
  BY <1>1, <1>8, <1>9, <1>10, <1>11 DEF OrderInv

LEMMA ReceiveOrder ==
  ASSUME TypeOK, HandInv, OrderInv, Receive
  PROVE  OrderInv'
<1>1. /\ held' = Head(channel) /\ channel' = Tail(channel) /\ channel # <<>>
      /\ UNCHANGED <<buffer, batch, residue, store, accepted, closer>>
  BY DEF Receive, flushVars, storeVars, ghostVars, closeVars
<1>2. /\ Range(channel) = {Head(channel)} \cup Range(channel')
      /\ Head(channel) \in Records
      /\ InOrder(accepted, channel')
      /\ Before(accepted, {Head(channel)}, Range(channel'))
  BY <1>1, RangeHeadTail, InOrderTail, HeadTailProperties DEF TypeOK, OrderInv
<1>3. InHand' = {Head(channel)}
  BY <1>1, <1>2, StorageAssumption DEF StorageAssumption, InHand
<1>4. Received' = Received
  BY <1>1, SetsFrame DEF Received
<1>5. Before(accepted, Received, Range(channel))
  BY DEF OrderInv, Before
<1>6. /\ Before(accepted, InHand' \cup Received, Range(channel'))
      /\ Before(accepted, Received, InHand')
  BY <1>2, <1>3, <1>5 DEF Before
<1>7. \A t \in Tables : TableOrder(t) => TableOrder(t)'
  BY <1>1 DEF TableOrder, Written, Underway
<1> QED
  BY <1>1, <1>2, <1>4, <1>6, <1>7 DEF OrderInv

LEMMA AdmitOrder ==
  ASSUME TypeOK, HandInv, FlushInv, OrderInv, Admit
  PROVE  OrderInv'
<1> DEFINE u == TableOf[held]
<1>1. /\ held \in Records /\ u \in Tables
      /\ Buffered' = Buffered \cup {held}
      /\ InHand = {held} /\ InHand' = {}
  BY AdmitBuffers, StorageAssumption DEF StorageAssumption, InHand, Admit, Full
<1>2. /\ buffer' = [buffer EXCEPT ![u] = Append(@, held)]
      /\ UNCHANGED <<channel, batch, residue, store, accepted, closer>>
  BY DEF Admit, Full, storeVars, ghostVars, closeVars
<1>3. /\ buffer'[u] = Append(buffer[u], held) /\ buffer[u] \in Seq(Records)
      /\ \A t \in Tables \ {u} : buffer'[t] = buffer[t]
  BY <1>1, <1>2 DEF TypeOK
<1>4. Received' = Received \cup {held}
  BY <1>1, <1>2, SetsFrame DEF Received
<1>5. Before(accepted, Received, {held})
  BY <1>1 DEF OrderInv
<1>6. /\ Before(accepted, InHand' \cup Received', Range(channel))
      /\ Before(accepted, Received', InHand')
  BY <1>1, <1>4 DEF OrderInv, Before
<1> HIDE DEF u
<1>7. ASSUME NEW t \in Tables, TableOrder(t)  PROVE TableOrder(t)'
  <2>1. CASE t # u
    BY <1>2, <1>3, <1>7, <2>1 DEF TableOrder, Written, Underway
  <2>2. CASE t = u
    <3>1. Range(buffer'[t]) = Range(buffer[t]) \cup {held}
      <4>1. Range(Append(buffer[u], held)) = Range(buffer[u]) \cup {held}
        BY <1>1, <1>3, RangeAppend
      <4> QED  BY <1>3, <2>2, <4>1
    <3>2. /\ Range(buffer[t]) \subseteq Received
          /\ Written(t) \subseteq Received
      BY DEF Received, Buffered, Retained, Stored, Written
    <3>3. Before(accepted, Range(buffer[t]), {held})
      BY <1>5, <3>2 DEF Before
    <3>4. InOrder(accepted, buffer'[t])
      BY <1>1, <1>3, <1>7, <2>2, <3>3, InOrderAppend DEF TableOrder
    <3>5. Before(accepted, Written(t), Underway(t) \cup {held})
      BY <1>5, <1>7, <3>2 DEF Before, TableOrder
    <3>6. Written(t)' = Written(t) /\ Underway(t)' = Underway(t) \cup {held}
      BY <1>2, <3>1 DEF Written, Underway
    <3> QED  BY <1>2, <1>7, <3>4, <3>5, <3>6 DEF TableOrder
  <2> QED  BY <2>1, <2>2
<1> QED
  BY <1>2, <1>6, <1>7 DEF OrderInv

LEMMA DrainOrder ==
  ASSUME TypeOK, FlushInv, OrderInv, NEW p \in Flushers, NEW t \in Tables, Drain(p, t)
  PROVE  OrderInv'
<1> DEFINE j == <<p, t>>
<1>0. j \in Jobs /\ \A u \in Tables : <<"bg", u>> \in Jobs
  BY DEF Jobs, Flushers
<1>1. /\ UNCHANGED <<channel, held, residue, store, accepted, closer>>
      /\ buffer'[t] = <<>> /\ \A u \in Tables \ {t} : buffer'[u] = buffer[u]
      /\ batch[j] = <<>> /\ phase[p] = "drain"
      /\ batch'[j] = buffer[t] /\ \A k \in Jobs \ {j} : batch'[k] = batch[k]
  BY <1>0 DEF Drain, Drained, FlushInv, TypeOK, storeVars, ghostVars, closeVars
<1>2. Received' = Received
  BY <1>1, DrainMoves, SetsFrame DEF Received
<1>3. ASSUME closer' \in {"open", "sleep"}, NEW u \in Tables  PROVE TableOrder(u)'
  <2>1. p = "bg" /\ TableOrder(u)
    BY <1>1, <1>3 DEF FlushInv, Flushers, OrderInv
  <2>2. CASE u # t
    <3>1. buffer'[u] = buffer[u] /\ batch'[<<"bg", u>>] = batch[<<"bg", u>>]
      BY <1>0, <1>1, <2>2
    <3> QED  BY <1>1, <2>1, <3>1 DEF TableOrder, Written, Underway
  <2>3. CASE u = t
    <3>1. /\ buffer'[u] = <<>> /\ batch'[<<"bg", u>>] = buffer[u] /\ batch[<<"bg", u>>] = <<>>
      BY <1>1, <2>1, <2>3
    <3>2. Range(<<>>) = {} /\ InOrder(accepted, <<>>)
      BY DEF Range, InOrder
    <3>3. Written(u)' = Written(u) /\ Underway(u)' = Underway(u)
      BY <1>1, <3>1, <3>2 DEF Written, Underway
    <3> QED  BY <1>1, <2>1, <3>1, <3>2, <3>3 DEF TableOrder
  <2> QED  BY <2>2, <2>3
<1> QED
  BY <1>1, <1>2, <1>3, QueueFrame

\* The write task of table t appends rows that follow those it has.
LEMMA WriteOrder ==
  ASSUME TypeOK, KeptInv, FlushInv, PlaceInv, OrderInv, NEW j \in Jobs, WriteStep(j)
  PROVE  OrderInv'
<1> DEFINE t == j[2]
<1>0. UNCHANGED <<channel, held, buffer, phase, left, accepted, closer>>
  BY WriteFrame
<1>1. CASE Acquire(j)
  <2>1. UNCHANGED <<batch, residue, store>>
    BY <1>1 DEF Acquire, storeVars
  <2> QED  BY <1>0, <2>1, OrderFrame
<1>2. CASE ~Acquire(j)
  <2> DEFINE Rows(n, w) == SubSeq(Taken(j, n), 1, w)
             Kept(n, k) == SubSeq(Taken(j, n), k + 1, Len(Taken(j, n)))
             Effect(rows, kept) ==
               /\ store' = [store EXCEPT ![t] = @ \o rows]
               /\ residue' = [residue EXCEPT ![t] = kept]
               /\ batch' = [batch EXCEPT ![j] = <<>>]
               /\ dropped' = dropped \cup (Range(batch[j]) \ (Range(rows) \cup Range(kept)))
               /\ Backend # "csv" => kept = <<>> /\ residue[t] = <<>>
               /\ dropped' # dropped => BackendFails \/ PoolClosed
  <2>1. PICK n \in 0 .. Len(batch[j]) : \E w \in 0 .. Len(Taken(j, n)) : \E k \in 0 .. w :
          Effect(Rows(n, w), Kept(n, k))
    BY <1>2, WriteEffect
  <2>2. PICK w \in 0 .. Len(Taken(j, n)) : \E k \in 0 .. w : Effect(Rows(n, w), Kept(n, k))
    BY <2>1
  <2>3. PICK k \in 0 .. w : Effect(Rows(n, w), Kept(n, k))
    BY <2>2
  <2> DEFINE taken == Taken(j, n)
             rows == SubSeq(taken, 1, w)
             kept == SubSeq(taken, k + 1, Len(taken))
  <2>4. /\ t \in Tables /\ store[t] \in Seq(Records) /\ residue[t] \in Seq(Records)
        /\ batch[j] \in Seq(Records)
    BY DEF Jobs, TypeOK
  <2>5. /\ taken \in Seq(Records) /\ Len(taken) \in Nat
        /\ rows \in Seq(Records) /\ kept \in Seq(Records)
        /\ Range(rows) \cup Range(kept) = Range(taken)
    BY WriteRows, WriteSlices
  <2>6. /\ store'[t] = store[t] \o rows /\ \A u \in Tables \ {t} : store'[u] = store[u]
        /\ residue'[t] = kept /\ \A u \in Tables \ {t} : residue'[u] = residue[u]
        /\ batch'[j] = <<>> /\ \A i \in Jobs \ {j} : batch'[i] = batch[i]
        /\ dropped \subseteq dropped'
    BY <2>3, <2>4 DEF TypeOK
  <2>7. Range(<<>>) = {} /\ InOrder(accepted, <<>>)
    BY DEF Range, InOrder
  <2>8. Received' \subseteq Received
    <3>1. Received' \subseteq Received \cup dropped
      BY <1>0, WriteMoves, SetsFrame DEF Received
    <3>2. Received' \cap dropped' = {}
      BY WritePlace DEF PlaceInv, ApartInv, InMemory, Received
    <3> QED  BY <2>6, <3>1, <3>2
  <2>9. ASSUME closer \in {"open", "sleep"}, NEW u \in Tables  PROVE TableOrder(u)'
    <3>1. jobState[j] \in {"spawned", "writing"}
      BY <1>2, WriteFrame DEF WriteOk, Writing
    <3>2. PICK p \in Flushers : j = <<p, t>>
      BY DEF Jobs
    <3>3. phase[p] = "await" /\ p = "bg" /\ left["bg"] = {}
      BY <2>4, <2>9, <3>1, <3>2 DEF FlushInv, Flushers
    <3>4. j = <<"bg", t>> /\ buffer[t] = <<>> /\ TableOrder(u)
      BY <2>4, <2>9, <3>2, <3>3 DEF FlushInv, OrderInv
    <3>5. CASE u # t
      <4>1. <<"bg", u>> \in Jobs \ {j}
        BY <3>4, <3>5 DEF Jobs, Flushers
      <4>2. /\ store'[u] = store[u] /\ residue'[u] = residue[u]
            /\ batch'[<<"bg", u>>] = batch[<<"bg", u>>] /\ buffer' = buffer
        BY <1>0, <2>6, <3>5, <4>1
      <4> QED  BY <1>0, <3>4, <4>2 DEF TableOrder, Written, Underway
    <3>6. CASE u = t
      <4> DEFINE A == Range(store[t])
                 first == SubSeq(batch[j], 1, n)
      <4>1. first \in Seq(Records) /\ Range(first) \subseteq Range(batch[j])
        <5>1. batch[j] \in Seq(Records)
          BY <2>4
        <5> QED  BY <5>1, RangeSlice
      <4>2. TableOrder(t) /\ InOrder(accepted, residue[t]) /\ InOrder(accepted, batch[j])
        BY <3>4, <3>6 DEF TableOrder
      <4>3. InOrder(accepted, first)
        BY <2>4, <4>2, InOrderSlice
      <4>4. Before(accepted, A \cup Range(residue[t]), Range(batch[j]))
        BY <3>4, <3>6 DEF TableOrder, Written, Underway, Before
      <4>5. Before(accepted, Range(residue[t]), Range(first))
        BY <4>1, <4>4 DEF Before
      <4>6. taken = residue[t] \o first
        BY DEF Taken
      <4> HIDE DEF A, first, taken
      <4>7. InOrder(accepted, taken)
        BY <2>4, <4>1, <4>2, <4>3, <4>5, <4>6, InOrderConcat
      <4>8. Range(taken) = Range(residue[t]) \cup Range(first)
        BY <2>4, <4>1, <4>6, RangeConcatenation
      <4>9. Before(accepted, A, Range(taken) \ A)
        <5>1. Before(accepted, A, Range(residue[t]) \ A)
          BY <4>2 DEF TableOrder, A
        <5> QED  BY <4>1, <4>4, <4>8, <5>1 DEF Before
      <4>10. InOrder(accepted, rows) /\ InOrder(accepted, kept)
        <5>1. k + 1 \in Nat \ {0} /\ Len(taken) \in 0 .. Len(taken) /\ w \in 0 .. Len(taken)
          BY <2>5 DEF taken
        <5> QED  BY <2>5, <4>7, <5>1, InOrderSlice
      <4>11. Before(accepted, Range(rows), Range(kept) \ Range(rows))
        <5>1. w \in 0 .. Len(taken)
          BY DEF taken
        <5> QED  BY <2>5, <4>7, <5>1, InOrderSplit
      <4> HIDE DEF rows, kept
      <4>12. Before(accepted, A, Range(rows) \ A)
        BY <2>5, <4>9 DEF Before
      <4>13. FirstsInOrder(accepted, store[t] \o rows)
        BY <2>4, <2>5, <4>2, <4>10, <4>12, FirstsConcat DEF TableOrder, A
      <4>14. Range(store'[t]) = A \cup Range(rows)
        BY <2>4, <2>5, <2>6, RangeConcatenation DEF A
      <4>15. Before(accepted, A \cup Range(rows), Range(kept) \ (A \cup Range(rows)))
        BY <2>5, <4>9, <4>11 DEF Before
      <4>16. Range(buffer'[t]) = {} /\ Range(batch'[j]) = {}
        BY <1>0, <2>6, <2>7, <3>4
      <4>17. Underway(t)' = {}
        BY <3>4, <4>16 DEF Underway
      <4>18. Before(accepted, Written(t)', Underway(t)')
        BY <4>17 DEF Before
      <4>19. InOrder(accepted, buffer'[t]) /\ InOrder(accepted, batch'[<<"bg", t>>])
        BY <1>0, <2>6, <2>7, <3>4
      <4> HIDE DEF t
      <4>20. TableOrder(t)'
        BY <1>0, <2>6, <4>10, <4>13, <4>14, <4>15, <4>18, <4>19 DEF TableOrder
      <4> QED  BY <3>6, <4>20
    <3> QED  BY <3>5, <3>6
  <2> QED
    BY <1>0, <2>8, <2>9, QueueFrame
<1> QED  BY <1>1, <1>2

LEMMA NextOrder == FlushesInStep /\ PlaceInv /\ OrderInv /\ [Next]_vars => OrderInv'
<1> SUFFICES ASSUME FlushesInStep, PlaceInv, OrderInv, [Next]_vars  PROVE OrderInv'
  OBVIOUS
<1> USE DEF FlushesInStep, taskVars, flushVars, storeVars, ghostVars, closeVars
<1>1. CASE Senders
  BY <1>1, SendOrder, OrderFrame DEF Senders, SendFails
<1>2. ASSUME NEW p \in Flushers, FlushStep(p)  PROVE OrderInv'
  BY <1>2, DrainOrder, OrderFrame DEF FlushStep, SpawnWrites
<1>e. ASSUME channel' = <<>>, InHand' = {} \/ (InHand' = InHand /\ Received' \subseteq Received),
             accepted' = accepted,
             closer' \in {"open", "sleep"} => \A t \in Tables : TableOrder(t)'
      PROVE  OrderInv'
  <2>1. Range(channel') = {} /\ InOrder(accepted', channel')
    BY <1>e DEF Range, InOrder
  <2>2. Before(accepted', Received', InHand')
    BY <1>e DEF OrderInv, Before
  <2> QED  BY <1>e, <2>1, <2>2 DEF OrderInv, Before
<1>3. CASE BackgroundTask
  <2>0. "bg" \in Flushers  BY DEF Flushers
  <2>1. CASE Receive \/ Admit
    BY <2>1, ReceiveOrder, AdmitOrder
  <2>2. CASE Reject
    <3>1. InHand' = {} /\ UNCHANGED <<channel, buffer, batch, residue, store, accepted, closer>>
      BY <2>2 DEF Reject, InHand
    <3>2. Received' = Received /\ \A t \in Tables : TableOrder(t) => TableOrder(t)'
      BY <3>1, SetsFrame DEF Received, TableOrder, Written, Underway
    <3> QED  BY <3>1, <3>2 DEF OrderInv, Before
  <2>3. CASE TimerTick \/ ShutdownSignal \/ LoopFlushReturn
    BY <2>3, OrderFrame DEF TimerTick, ShutdownSignal, LoopFlushReturn
  <2>4. CASE ForcedFlushReturn
    BY <2>4, ForcedFrame, OrderFrame DEF ForcedFlushReturn
  <2>5. CASE ShutdownFlushReturn
    <3>1. channel' = <<>> /\ UNCHANGED <<held, buffer, batch, residue, store, accepted, closer>>
      BY <2>5 DEF ShutdownFlushReturn
    <3>2. /\ InHand' = InHand /\ Received' = Received
          /\ \A t \in Tables : TableOrder(t) => TableOrder(t)'
      BY <3>1, SetsFrame DEF Received, TableOrder, Written, Underway
    <3>3. closer' \in {"open", "sleep"} => \A t \in Tables : TableOrder(t)'
      BY <3>1, <3>2 DEF OrderInv
    <3>4. channel' = <<>> /\ accepted' = accepted /\ InHand' = InHand /\ Received' \subseteq Received
      BY <3>1, <3>2
    <3> QED  BY <1>e, <3>3, <3>4
  <2>6. CASE FlushStep("bg")
    BY <1>2, <2>0, <2>6
  <2> QED
    BY <1>3, <2>1, <2>2, <2>3, <2>4, <2>5, <2>6 DEF BackgroundTask
<1>4. CASE \E j \in Jobs : WriteStep(j)
  BY <1>4, WriteOrder
<1>5. CASE CloseSignal
  BY <1>5, OrderFrame DEF CloseSignal
<1>6. CASE Close
  <2>0. "closer" \in Flushers  BY DEF Flushers
  <2>1. CASE CloseFlush \/ CloseFlushReturn
    BY <2>1, OrderFrame DEF CloseFlush, CloseFlushReturn
  <2>2. ASSUME NEW t \in Tables, SyncWriter(t)  PROVE OrderInv'
    <3>1. /\ UNCHANGED <<channel, held, buffer, batch, accepted, closer>> /\ closer = "sync"
      BY <2>2 DEF SyncWriter
    <3>2. Received' = Received
      BY <2>2, <3>1, SyncMoves, SetsFrame DEF Received
    <3> QED  BY <3>1, <3>2, QueueFrame
  <2>3. CASE Exit
    <3>1. channel' = <<>> /\ InHand' = {} /\ accepted' = accepted /\ closer' = "exit"
      BY <2>3 DEF Exit, InHand
    <3> QED  BY <1>e, <3>1
  <2>4. CASE FlushStep("closer")
    BY <1>2, <2>0, <2>4
  <2> QED
    BY <1>6, <2>1, <2>2, <2>3, <2>4 DEF Close
<1>7. CASE Stopped \/ UNCHANGED vars
  BY <1>7, OrderFrame DEF Stopped, vars
<1> QED
  BY <1>1, <1>3, <1>4, <1>5, <1>6, <1>7 DEF Next

\* Until close() starts a flush of its own, the rows of a table stand in the order in
\* which their records were sent, through batches, timers, retries and failed writes.
THEOREM AlwaysStoredInOrder == Spec => []StoredInOrder
<1>1. OrderInv => StoredInOrder
  BY DEF OrderInv, TableOrder, FirstsInOrder, StoredInOrder, Sent, Rank
<1> QED
  BY <1>1, InitOrder, NextOrder, FlushesAlwaysInStep, PlaceAlways, PTL DEF Spec

-----------------------------------------------------------------------------
(* The storage implements RecordSink. *)

Pending == InMemory \cup Retained

\* A step that appends pending records to their tables, and loses others, settles them.
LEMMA SettleStep ==
  ASSUME FlushesInStep, PlaceInv, FlushesInStep', PlaceInv',
         accepted' = accepted, closer' = "open" <=> closer = "open",
         dropped \subseteq dropped',
         dropped' # dropped => BackendFails \/ closer # "open",
         Pending' \subseteq Pending,
         \A t \in Tables : \E rows \in Seq(Records) :
           store'[t] = store[t] \o rows /\ Range(rows) \subseteq Pending
  PROVE  Sink!Next
<1> DEFINE gone == dropped' \ dropped
<1>1. /\ gone \cap Stored' = {} /\ gone \cap Pending' = {}
      /\ gone # {} => BackendFails \/ closer # "open"
      /\ dropped' = dropped \cup gone
  BY DEF PlaceInv, ApartInv, Pending
<1>2. Pending \ Pending' \subseteq gone \cup Stored'
  BY DEF FlushesInStep, Conservation, PlaceInv, ApartInv, Pending
<1>3. ASSUME NEW t \in Tables
      PROVE  /\ Len(store[t]) <= Len(store'[t])
             /\ SubSeq(store'[t], 1, Len(store[t])) = store[t]
             /\ Range(Sink!NewRows(t)) \subseteq {r \in Pending : TableOf[r] = t}
             /\ Backend # "csv" =>
                  /\ \A i, k \in DOMAIN Sink!NewRows(t) :
                       i # k => Sink!NewRows(t)[i] # Sink!NewRows(t)[k]
                  /\ Range(Sink!NewRows(t)) \cap Pending' = {}
  <2> DEFINE old == store[t]
             new == store'[t]
  <2>1. PICK rows \in Seq(Records) : new = old \o rows /\ Range(rows) \subseteq Pending
    OBVIOUS
  <2>2. old \in Seq(Records) /\ new \in Seq(Records) /\ Range(new) \subseteq Filed(t)
    <3>1. old \in Seq(Records) /\ new \in Seq(Records)
      BY DEF FlushesInStep, TypeOK
    <3>2. Range(new) \subseteq Filed(t)
      BY DEF PlaceInv, FiledInv, Filed
    <3> QED  BY <3>1, <3>2
  <2>3. Sink!NewRows(t) = SubSeq(new, Len(old) + 1, Len(new))
    BY DEF Sink!NewRows
  <2>4. Range(new) \subseteq Stored'
    BY DEF Stored
  <2>5. Backend # "csv" => IsInjective(new) /\ Stored' \cap Pending' = {}
    <3>1. Backend # "csv" => IsInjective(new)
      BY DEF PlaceInv, StoredOnce, IsInjective
    <3>2. Backend # "csv" => Retained' = {}
      <4>1. Range(<<>>) = {}
        BY DEF Range
      <4> QED  BY <4>1 DEF FlushesInStep, KeptInv, Retained
    <3> QED  BY <3>1, <3>2 DEF PlaceInv, ApartInv, Pending
  <2> HIDE DEF old, new
  <2>6. /\ Len(new) = Len(old) + Len(rows) /\ Len(old) \in Nat /\ Len(rows) \in Nat
        /\ \A i \in 1 .. Len(old) + Len(rows) :
             new[i] = IF i <= Len(old) THEN old[i] ELSE rows[i - Len(old)]
    BY <2>1, <2>2, ConcatProperties, LenProperties
  <2>7. SubSeq(new, 1, Len(old)) = old
    <3>1. /\ SubSeq(new, 1, Len(old)) \in Seq(Records)
          /\ Len(SubSeq(new, 1, Len(old))) = Len(old)
          /\ \A i \in 1 .. Len(old) : SubSeq(new, 1, Len(old))[i] = new[i]
      <4>1. \A i \in 1 .. Len(old) : new[i] \in Records
        BY <2>2, <2>6, ElementOfSeq
      <4>2. /\ SubSeq(new, 1, Len(old)) \in Seq(Records)
            /\ Len(SubSeq(new, 1, Len(old))) = IF 1 <= Len(old) THEN Len(old) - 1 + 1 ELSE 0
            /\ \A i \in 1 .. Len(old) - 1 + 1 : SubSeq(new, 1, Len(old))[i] = new[1 + i - 1]
        BY <2>6, <4>1, SubSeqProperties
      <4> QED  BY <2>6, <4>2
    <3>2. \A i \in 1 .. Len(old) : SubSeq(new, 1, Len(old))[i] = old[i]
      BY <2>6, <3>1
    <3> QED  BY <2>2, <3>1, <3>2, SeqEqual
  <2> DEFINE m == Len(old) + 1
             more == SubSeq(new, m, Len(new))
  <2> HIDE DEF m
  <2>8. m \in Nat \ {0} /\ Len(new) \in 0 .. Len(new)
    BY <2>6 DEF m
  <2>9. /\ Range(more) = {new[i] : i \in m .. Len(new)}
        /\ Range(more) \subseteq Range(new)
    BY <2>2, <2>8, RangeSlice, SMTT(60)
  <2>10. Range(more) \subseteq Range(rows)
    <3>1. \A i \in m .. Len(new) : new[i] = rows[i - Len(old)] /\ i - Len(old) \in 1 .. Len(rows)
      BY <2>6 DEF m
    <3>2. Range(rows) = {rows[i] : i \in 1 .. Len(rows)}
      BY RangeEquality
    <3> QED  BY <2>9, <3>1, <3>2
  <2>11. IsInjective(new) => IsInjective(more)
    BY <2>2, <2>8, OnceSlice
  <2> HIDE DEF more
  <2>12. Range(more) \subseteq {r \in Pending : TableOf[r] = t}
    BY <2>1, <2>2, <2>9, <2>10 DEF Filed
  <2>13. Backend # "csv" => /\ \A i, k \in DOMAIN more : i # k => more[i] # more[k]
                            /\ Range(more) \cap Pending' = {}
    BY <2>4, <2>5, <2>9, <2>11 DEF IsInjective
  <2>14. Sink!NewRows(t) = more
    BY <2>3 DEF more, m
  <2> QED  BY <2>6, <2>7, <2>12, <2>13, <2>14 DEF old, new
<1> HIDE DEF gone
<1>4. Sink!Settle(gone)
  <2>1. \A s : Sink!Range(s) = Range(s)
    BY DEF Sink!Range, Range
  <2>2. (closer' # "open") = (closer # "open")
    OBVIOUS
  <2> QED
    BY <1>1, <1>2, <1>3, <2>1, <2>2 DEF Sink!Settle, Pending, Stored
<1> QED
  BY <1>4 DEF Sink!Next, gone

\* A step that only moves records about in memory is none of the sink's.
LEMMA SinkStutters ==
  ASSUME InMemory' \cup Retained' = InMemory \cup Retained, UNCHANGED <<store, dropped>>,
         closer' = "open" <=> closer = "open"
  PROVE  UNCHANGED Sink!sinkVars
BY DEF Sink!sinkVars

\* A step that writes nothing, and after which some pending records may be lost.
LEMMA LoseStep ==
  ASSUME FlushesInStep, PlaceInv, FlushesInStep', PlaceInv',
         UNCHANGED <<accepted, store, closer>>, dropped \subseteq dropped',
         dropped' # dropped => BackendFails \/ closer # "open",
         Pending' \subseteq Pending
  PROVE  Sink!Next
<1>1. \A t \in Tables : store'[t] = store[t] \o <<>>
  BY ConcatEmptySeq DEF FlushesInStep, TypeOK
<1>2. <<>> \in Seq(Records) /\ Range(<<>>) \subseteq Pending
  BY EmptySeq DEF Range
<1> QED
  BY <1>1, <1>2, SettleStep

\* A write settles the records of its batch, and those its CSV writer kept.
LEMMA WriteSettles ==
  ASSUME FlushesInStep, PlaceInv, FlushesInStep', PlaceInv', NEW j \in Jobs, WriteStep(j)
  PROVE  Sink!Next \/ UNCHANGED Sink!sinkVars
<1> DEFINE t == j[2]
<1>1. UNCHANGED <<channel, held, buffer, accepted, closer>>
  BY WriteFrame
<1>2. CASE Acquire(j)
  <2>1. UNCHANGED <<batch, residue, store, dropped>>
    BY <1>2 DEF Acquire, storeVars, ghostVars
  <2>2. InMemory' \cup Retained' = InMemory \cup Retained
    BY <1>1, <2>1, SetsFrame DEF InMemory
  <2> QED  BY <1>1, <2>1, <2>2, SinkStutters
<1>3. CASE ~Acquire(j)
  <2>1. PICK rows \in Seq(Records), kept \in Seq(Records) :
          /\ store' = [store EXCEPT ![t] = @ \o rows]
          /\ residue' = [residue EXCEPT ![t] = kept]
          /\ batch' = [batch EXCEPT ![j] = <<>>]
          /\ dropped' = dropped \cup (Range(batch[j]) \ (Range(rows) \cup Range(kept)))
          /\ Range(rows) \cup Range(kept) \subseteq Range(residue[t]) \cup Range(batch[j])
          /\ dropped' # dropped => BackendFails \/ PoolClosed
    BY <1>3, WriteTask DEF FlushesInStep
  <2>2. t \in Tables /\ \A u \in Tables : store[u] \in Seq(Records)
    BY DEF Jobs, FlushesInStep, TypeOK
  <2>3. /\ store'[t] = store[t] \o rows /\ \A u \in Tables \ {t} : store'[u] = store[u]
        /\ residue'[t] = kept /\ \A u \in Tables \ {t} : residue'[u] = residue[u]
        /\ batch'[j] = <<>> /\ \A k \in Jobs \ {j} : batch'[k] = batch[k]
    BY <2>1, <2>2 DEF FlushesInStep, TypeOK
  <2>4. Range(<<>>) = {} /\ <<>> \in Seq(Records)
    BY EmptySeq DEF Range
  <2>5. Range(rows) \cup Range(kept) \subseteq Retained \cup Batched
    BY <2>1, <2>2 DEF Retained, Batched
  <2>6. Batched' \subseteq Batched
    BY <2>3, <2>4 DEF Batched
  <2>7. Retained' \subseteq Retained \cup Batched
    BY <2>3, <2>5 DEF Retained
  <2>8. Pending' \subseteq Pending
    BY <1>1, <2>6, <2>7, SetsFrame DEF Pending, InMemory
  <2>9. Range(rows) \subseteq Pending
    BY <2>5 DEF Pending, InMemory
  <2>10. ASSUME NEW u \in Tables
         PROVE  \E q \in Seq(Records) : store'[u] = store[u] \o q /\ Range(q) \subseteq Pending
    <3>1. CASE u = t
      BY <2>3, <2>9, <3>1
    <3>2. CASE u # t
      <4>1. store'[u] = store[u] \o <<>>
        BY <2>2, <2>3, <3>2, ConcatEmptySeq
      <4> QED  BY <2>4, <4>1
    <3> QED  BY <3>1, <3>2
  <2>11. /\ dropped \subseteq dropped'
         /\ dropped' # dropped => BackendFails \/ closer # "open"
    BY <2>1 DEF PoolClosed
  <2>12. accepted' = accepted /\ (closer' = "open" <=> closer = "open")
    BY <1>1
  <2>13. Sink!Next
    BY <2>8, <2>10, <2>11, <2>12, SettleStep
  <2> QED  BY <2>13
<1> QED  BY <1>2, <1>3

\* So do the flushes of the CSV writers, and the end of the process.
LEMMA CloseSettles ==
  ASSUME FlushesInStep, PlaceInv, FlushesInStep', PlaceInv',
         (\E u \in Tables : SyncWriter(u)) \/ Exit
  PROVE  Sink!Next
<1>1. closer # "open" /\ closer' # "open" /\ accepted' = accepted /\ dropped \subseteq dropped'
  BY DEF SyncWriter, Exit, ghostVars, closeVars
<1>2. ASSUME NEW t \in Tables
      PROVE  /\ \E q \in Seq(Records) : store'[t] = store[t] \o q /\ Range(q) \subseteq Pending
             /\ Range(residue'[t]) \subseteq Range(residue[t])
  <2>1. residue[t] \in Seq(Records)
    BY DEF FlushesInStep, TypeOK
  <2>2. PICK w \in 0 .. Len(residue[t]) : store'[t] = store[t] \o SubSeq(residue[t], 1, w)
    BY KeptRows DEF FlushesInStep
  <2>3. SubSeq(residue[t], 1, w) \in Seq(Records)
        /\ Range(SubSeq(residue[t], 1, w)) \subseteq Range(residue[t])
    BY <2>1, RangeSlice
  <2>4. Range(residue[t]) \subseteq Pending
    BY DEF Pending, Retained
  <2>5. residue'[t] \in {<<>>, residue[t]}
    BY KeptRows DEF FlushesInStep
  <2>6. Range(<<>>) = {}
    BY DEF Range
  <2> QED  BY <2>2, <2>3, <2>4, <2>5, <2>6
<1>3. Pending' \subseteq Pending
  <2>1. Retained' \subseteq Retained
    BY <1>2 DEF Retained
  <2>2. ASSUME NEW u \in Tables, SyncWriter(u)  PROVE InMemory' = InMemory
    BY <2>2, SetsFrame DEF SyncWriter, taskVars, InMemory
  <2>3. CASE Exit
    BY <2>1, <2>3, ExitMoves DEF Pending, FlushesInStep
  <2> QED  BY <2>1, <2>2, <2>3 DEF Pending
<1> QED
  BY <1>1, <1>2, <1>3, SettleStep

LEMMA NextSink ==
  ASSUME FlushesInStep, PlaceInv, CloseInv, FlushesInStep', PlaceInv', [Next]_vars
  PROVE  Sink!Next \/ UNCHANGED Sink!sinkVars
<1> USE DEF taskVars, flushVars, storeVars, ghostVars, closeVars
<1>t. TypeOK /\ HandInv /\ FlushInv
  BY DEF FlushesInStep
<1>f. ASSUME UNCHANGED <<channel, held, buffer, batch, residue, store, dropped>>,
             closer' = "open" <=> closer = "open"
      PROVE  UNCHANGED Sink!sinkVars
  BY <1>f, SetsFrame, SinkStutters DEF InMemory
<1>1. CASE Senders
  <2>1. ASSUME NEW r \in Records, Send(r)  PROVE Sink!Next
    <3>1. /\ channel' = Append(channel, r) /\ r \notin Range(accepted)
          /\ UNCHANGED <<held, buffer, batch, residue, store, dropped, closer>>
      BY <2>1 DEF Send
    <3>2. Range(channel') = Range(channel) \cup {r}
      BY <1>t, <3>1, RangeAppend DEF TypeOK
    <3>3. (InMemory \cup Retained)' = (InMemory \cup Retained) \cup {r}
      BY <3>1, <3>2, SetsFrame DEF InMemory
    <3>4. r \notin InMemory \cup Retained \cup Stored \cup dropped
      BY <3>1 DEF FlushesInStep, Conservation
    <3>5. Sink!Rows = Stored
      BY DEF Sink!Rows, Stored, Sink!Range, Range
    <3>6. Sink!Accept
      BY <3>1, <3>3, <3>4, <3>5 DEF Sink!Accept
    <3> QED  BY <3>6 DEF Sink!Next
  <2>2. ASSUME NEW r \in Records, SendFails(r)  PROVE UNCHANGED Sink!sinkVars
    BY <1>f, <2>2 DEF SendFails
  <2> QED  BY <1>1, <2>1, <2>2 DEF Senders
<1>2. ASSUME NEW p \in Flushers, FlushStep(p)  PROVE UNCHANGED Sink!sinkVars
  <2>1. CASE SpawnWrites(p)
    BY <1>f, <2>1 DEF SpawnWrites
  <2>2. ASSUME NEW t \in Tables, Drain(p, t)  PROVE UNCHANGED Sink!sinkVars
    <3>1. UNCHANGED <<channel, held, residue, store, dropped, closer>>
      BY <2>2 DEF Drain
    <3>2. Buffered' \cup Batched' = Buffered \cup Batched
      BY <1>t, <2>2, DrainMoves
    <3>3. InMemory' \cup Retained' = InMemory \cup Retained
      BY <3>1, <3>2, SetsFrame DEF InMemory
    <3> QED  BY <3>1, <3>3, SinkStutters
  <2> QED  BY <1>2, <2>1, <2>2 DEF FlushStep
<1>3. CASE BackgroundTask
  <2>0. "bg" \in Flushers  BY DEF Flushers
  <2>1. CASE Receive
    <3>1. /\ held' = Head(channel) /\ channel' = Tail(channel) /\ channel # <<>>
          /\ UNCHANGED <<buffer, batch, residue, store, dropped, closer>>
      BY <2>1 DEF Receive
    <3>2. Range(channel) = {Head(channel)} \cup Range(channel') /\ Head(channel) \in Records
      BY <1>t, <3>1, RangeHeadTail, HeadTailProperties DEF TypeOK
    <3>3. InHand = {} /\ InHand' = {Head(channel)}
      BY <1>t, <2>1, <3>1, <3>2, StorageAssumption DEF StorageAssumption, InHand, HandInv, Receive
    <3>4. InMemory' \cup Retained' = InMemory \cup Retained
      BY <3>1, <3>2, <3>3, SetsFrame DEF InMemory
    <3> QED  BY <3>1, <3>4, SinkStutters
  <2>2. CASE Admit
    <3>1. UNCHANGED <<channel, batch, residue, store, dropped, closer>>
      BY <2>2 DEF Admit
    <3>2. Buffered' = Buffered \cup {held} /\ InHand = {held} /\ InHand' = {}
      BY <1>t, <2>2, AdmitBuffers, StorageAssumption DEF StorageAssumption, InHand, Admit, Full
    <3>3. InMemory' \cup Retained' = InMemory \cup Retained
      BY <3>1, <3>2, SetsFrame DEF InMemory
    <3> QED  BY <3>1, <3>3, SinkStutters
  <2>3. CASE Reject
    <3>1. /\ InHand' = {} /\ dropped \subseteq dropped'
          /\ UNCHANGED <<channel, buffer, batch, residue, store, accepted, closer>>
          /\ BackendFails \/ closer = "pool"
      BY <2>3 DEF Reject, InHand, PrecheckFails, CreateFails, PoolClosed
    <3>2. Pending' \subseteq Pending
      BY <3>1, SetsFrame DEF Pending, InMemory
    <3> QED  BY <3>1, <3>2, LoseStep
  <2>4. CASE TimerTick \/ ShutdownSignal \/ LoopFlushReturn
    BY <1>f, <2>4 DEF TimerTick, ShutdownSignal, LoopFlushReturn
  <2>5. CASE ForcedFlushReturn
    BY <1>f, <1>t, <2>5, ForcedFrame DEF ForcedFlushReturn
  <2>6. CASE ShutdownFlushReturn
    <3>1. /\ channel' = <<>> /\ dropped \subseteq dropped' /\ closer # "open"
          /\ UNCHANGED <<held, buffer, batch, residue, store, accepted, closer>>
      BY <2>6 DEF ShutdownFlushReturn, CloseInv
    <3>2. Range(channel') = {}
      BY <3>1 DEF Range
    <3>3. Pending' \subseteq Pending
      BY <3>1, <3>2, SetsFrame DEF Pending, InMemory
    <3> QED  BY <3>1, <3>3, LoseStep
  <2>7. CASE FlushStep("bg")
    BY <1>2, <2>0, <2>7
  <2> QED
    BY <1>3, <2>1, <2>2, <2>3, <2>4, <2>5, <2>6, <2>7 DEF BackgroundTask
<1>4. CASE \E j \in Jobs : WriteStep(j)
  BY <1>4, WriteSettles
<1>5. CASE CloseSignal
  <2>1. Sink!Shutdown
    BY <1>5, SetsFrame DEF CloseSignal, Sink!Shutdown, InMemory
  <2> QED  BY <2>1 DEF Sink!Next
<1>6. CASE Close
  <2>0. "closer" \in Flushers  BY DEF Flushers
  <2>1. CASE CloseFlush \/ CloseFlushReturn
    BY <1>f, <2>1 DEF CloseFlush, CloseFlushReturn
  <2>2. CASE (\E t \in Tables : SyncWriter(t)) \/ Exit
    BY <2>2, CloseSettles
  <2>3. CASE FlushStep("closer")
    BY <1>2, <2>0, <2>3
  <2> QED
    BY <1>6, <2>1, <2>2, <2>3 DEF Close
<1>7. CASE Stopped \/ UNCHANGED vars
  BY <1>7, <1>f DEF Stopped, vars
<1> QED
  BY <1>1, <1>3, <1>4, <1>5, <1>6, <1>7 DEF Next

\* The storage keeps what RecordSink promises: a record taken once is pending until it
\* is a row of its own table or lost, tables only grow, losing is final, and nothing is
\* lost while the backend works and close() was not called.
THEOREM StorageIsSink == Spec => ImplementsSink
<1>1. Init => Sink!Init /\ CloseInv
  <2>1. Range(<<>>) = {}
    BY DEF Range
  <2>2. Init => InMemory = {} /\ Retained = {}
    BY <2>1 DEF Init, InMemory, InHand, Buffered, Batched, Retained
  <2> QED
    BY <2>2 DEF Init, Sink!Init, CloseInv
<1>2. Spec => []CloseInv
  BY <1>1, NextClose, PTL DEF Spec
<1>3. /\ FlushesInStep /\ PlaceInv /\ CloseInv /\ FlushesInStep' /\ PlaceInv' /\ [Next]_vars
      => [Sink!Next]_(Sink!sinkVars)
  BY NextSink
<1> QED
  BY <1>1, <1>2, <1>3, FlushesAlwaysInStep, PlaceAlways, PTL
     DEF Spec, ImplementsSink, Sink!Spec

=============================================================================
