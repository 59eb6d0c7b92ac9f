---------------------------- MODULE CsvFileProofs ----------------------------
(***************************************************************************)
(* Theorems about CsvFile, for every number of rows, every size of a batch *)
(* and every number of failed calls and kills.                             *)
(***************************************************************************)
EXTENDS CsvFile, SequenceTheorems, FiniteSetTheorems, TLAPS

RowPieces == Rows \X {1, 2}

\* The last line of s is not ended.
EndsOpen(s) == s # <<>> /\ s[Len(s)][2] = 1

-----------------------------------------------------------------------------
(* The inductive invariant. *)

TypeInv ==
  /\ exists \in BOOLEAN /\ cached \in BOOLEAN /\ opened \in BOOLEAN /\ cutOff \in BOOLEAN
  /\ process \in {"down", "up", "creating"}
  /\ file \in Seq(Pieces) /\ kept \in Seq(RowPieces)
  /\ next \in Nat \ {0} /\ acked \in SUBSET Rows /\ faults \in Nat

\* Nothing is written before the file and its header are.
CreationInv ==
  /\ ~exists \/ process = "creating" =>
       file = <<>> /\ kept = <<>> /\ acked = {} /\ ~cached
  /\ process = "creating" => exists

\* Pieces of the header come first, and a second first piece makes no new line.
HeaderFirst ==
  /\ \A i \in 1 .. Len(file) : file[i][1] = Header =>
       \A k \in 1 .. i : file[k][1] = Header
  /\ \A i \in 2 .. Len(file) : file[i] = <<Header, 1>> => file[i - 1][2] = 1

\* A file that was created has its header, if no call that creates it was cut off.
Headed == exists /\ process # "creating" /\ ~cutOff => LineAt(1, Header)

Lost == {r \in acked : ~Readable(r)}

\* A line left open, in the file or in the writer, will cost a row that no fault
\* reports: each fault pays for one such line, and each lost row has used one up.
Debt == IF EndsOpen(file) \/ EndsOpen(kept) THEN 1 ELSE 0
CountInv == Cardinality(Lost) + Debt <= faults

IInv == TypeInv /\ CreationInv /\ HeaderFirst /\ Headed /\ CountInv

-----------------------------------------------------------------------------
(* The pieces. *)

LEMMA HeaderType ==
  /\ HeaderPieces \in Seq(Pieces) /\ Len(HeaderPieces) = 2
  /\ HeaderPieces[1] = <<Header, 1>> /\ HeaderPieces[2] = <<Header, 2>>
<1>1. <<Header, 1>> \in Pieces /\ <<Header, 2>> \in Pieces
  BY DEF Pieces
<1> QED
  BY <1>1 DEF HeaderPieces

LEMMA RowsArePieces == RowPieces \subseteq Pieces
BY DEF RowPieces, Pieces

LEMMA RowSequences == \A s \in Seq(RowPieces) : s \in Seq(Pieces)
BY RowsArePieces, SeqMonotonic

LEMMA FirstType ==
  ASSUME NEW S, NEW s \in Seq(S), NEW p \in 0 .. Len(s)
  PROVE  /\ First(s, p) \in Seq(S) /\ Len(First(s, p)) = p
         /\ \A i \in 1 .. p : First(s, p)[i] = s[i]
<1>1. Len(s) \in Nat /\ p \in Int /\ \A i \in 1 .. p : s[i] \in S
  BY LenProperties, ElementOfSeq
<1>2. /\ SubSeq(s, 1, p) \in Seq(S)
      /\ Len(SubSeq(s, 1, p)) = IF 1 <= p THEN p - 1 + 1 ELSE 0
      /\ \A i \in 1 .. p - 1 + 1 : SubSeq(s, 1, p)[i] = s[1 + i - 1]
  BY <1>1, SubSeqProperties
<1> QED
  BY <1>1, <1>2 DEF First

LEMMA BehindType ==
  ASSUME NEW S, NEW s \in Seq(S), NEW p \in 0 .. Len(s)
  PROVE  Behind(s, p) \in Seq(S)
<1>1. Len(s) \in Nat /\ p + 1 \in Int /\ \A i \in p + 1 .. Len(s) : s[i] \in S
  BY LenProperties, ElementOfSeq
<1> QED
  BY <1>1, SubSeqProperties DEF Behind

LEMMA BatchType ==
  ASSUME TypeInv, NEW n \in 1 .. MaxBatch, next + n <= MaxRow + 1
  PROVE  /\ Batch(n) \in Seq(RowPieces) /\ Len(Batch(n)) = 2 * n
         /\ \A j \in 0 .. n - 1 : /\ Batch(n)[2 * j + 1] = <<next + j, 1>>
                                  /\ Batch(n)[2 * j + 2] = <<next + j, 2>>
<1>0. n \in Nat /\ MaxRow \in Nat /\ next \in Nat \ {0}
  BY CsvFileAssumption DEF TypeInv, CsvFileAssumption
<1>1. \A i \in 1 .. 2 * n : next + ((i - 1) \div 2) \in Rows /\ 2 - (i % 2) \in {1, 2}
  BY <1>0 DEF Rows
<1>2. Batch(n) \in [1 .. 2 * n -> RowPieces]
  BY <1>1 DEF Batch, RowPieces
<1>3. Batch(n) \in Seq(RowPieces) /\ Len(Batch(n)) = 2 * n
  <2>1. 2 * n \in Nat
    BY <1>0
  <2> QED  BY <1>2, <2>1, SeqDef, LenProperties
<1>4. ASSUME NEW j \in 0 .. n - 1
      PROVE  Batch(n)[2 * j + 1] = <<next + j, 1>> /\ Batch(n)[2 * j + 2] = <<next + j, 2>>
  <2>1. 2 * j + 1 \in 1 .. 2 * n /\ 2 * j + 2 \in 1 .. 2 * n
    BY <1>0
  <2>2. /\ next + ((2 * j + 1) - 1) \div 2 = next + j /\ next + ((2 * j + 2) - 1) \div 2 = next + j
        /\ 2 - ((2 * j + 1) % 2) = 1 /\ 2 - ((2 * j + 2) % 2) = 2
    BY <1>0
  <2>3. /\ Batch(n)[2 * j + 1] = <<next + ((2 * j + 1) - 1) \div 2, 2 - ((2 * j + 1) % 2)>>
        /\ Batch(n)[2 * j + 2] = <<next + ((2 * j + 2) - 1) \div 2, 2 - ((2 * j + 2) % 2)>>
    BY <2>1, Zenon DEF Batch
  <2> QED  BY <2>2, <2>3, Zenon
<1> QED
  BY <1>3, <1>4

-----------------------------------------------------------------------------
(* The file grows at its end. *)

LEMMA Grown ==
  ASSUME file \in Seq(Pieces), NEW t \in Seq(Pieces), file' = file \o t
  PROVE  /\ file' \in Seq(Pieces) /\ Len(file') = Len(file) + Len(t)
         /\ Len(file) \in Nat /\ Len(t) \in Nat
         /\ \A i \in 1 .. Len(file) : file'[i] = file[i]
         /\ \A i \in 1 .. Len(t) : file'[Len(file) + i] = t[i]
<1>1. Len(file) \in Nat /\ Len(t) \in Nat
  BY LenProperties
<1>2. /\ file' \in Seq(Pieces) /\ Len(file') = Len(file) + Len(t)
      /\ \A i \in 1 .. Len(file) + Len(t) :
           file'[i] = IF i <= Len(file) THEN file[i] ELSE t[i - Len(file)]
  BY ConcatProperties
<1>3. \A i \in 1 .. Len(file) : file'[i] = file[i]
  BY <1>1, <1>2
<1>4. ASSUME NEW i \in 1 .. Len(t)  PROVE file'[Len(file) + i] = t[i]
  <2>1. Len(file) + i \in 1 .. Len(file) + Len(t) /\ ~(Len(file) + i <= Len(file))
        /\ Len(file) + i - Len(file) = i
    BY <1>1
  <2> QED  BY <1>2, <2>1
<1> QED
  BY <1>1, <1>2, <1>3, <1>4

\* A line that is there stays there.
LEMMA LinesStay ==
  ASSUME file \in Seq(Pieces), NEW t \in Seq(Pieces), file' = file \o t
  PROVE  /\ \A r : \A i \in 1 .. Len(file) : LineAt(i, r) => LineAt(i, r)'
         /\ \A r : Readable(r) => Readable(r)'
<1>1. /\ file' \in Seq(Pieces) /\ Len(file') = Len(file) + Len(t)
      /\ Len(file) \in Nat /\ Len(t) \in Nat
      /\ \A i \in 1 .. Len(file) : file'[i] = file[i]
  BY Grown
<1>2. DOMAIN file = 1 .. Len(file) /\ DOMAIN file' = 1 .. Len(file')
  BY <1>1, LenProperties
<1>3. ASSUME NEW r, NEW i \in 1 .. Len(file), LineAt(i, r)  PROVE LineAt(i, r)'
  <2>1. /\ i < Len(file) /\ (i = 1 \/ file[i - 1][2] = 2)
        /\ file[i] = <<r, 1>> /\ file[i + 1] = <<r, 2>>
    BY <1>3 DEF LineAt
  <2>2. i < Len(file') /\ file'[i] = file[i] /\ file'[i + 1] = file[i + 1]
    BY <1>1, <2>1
  <2>3. i = 1 \/ file'[i - 1] = file[i - 1]
    BY <1>1
  <2> QED  BY <2>1, <2>2, <2>3 DEF LineAt
<1>4. ASSUME NEW r, Readable(r)  PROVE Readable(r)'
  <2>1. PICK i \in 1 .. Len(file) : LineAt(i, r)
    BY <1>2, <1>4 DEF Readable
  <2>2. LineAt(i, r)' /\ i \in DOMAIN file'
    BY <1>1, <1>2, <1>3, <2>1
  <2> QED  BY <2>2 DEF Readable
<1> QED
  BY <1>3, <1>4

\* Rows behind the file leave its header as it is.
LEMMA RowsBehind ==
  ASSUME file \in Seq(Pieces), NEW t \in Seq(RowPieces), file' = file \o t, HeaderFirst
  PROVE  HeaderFirst'
<1>0. t \in Seq(Pieces)
  BY RowSequences
<1>1. /\ file' \in Seq(Pieces) /\ Len(file') = Len(file) + Len(t)
      /\ Len(file) \in Nat /\ Len(t) \in Nat
      /\ \A i \in 1 .. Len(file) : file'[i] = file[i]
      /\ \A i \in 1 .. Len(t) : file'[Len(file) + i] = t[i]
  BY <1>0, Grown
<1>2. ASSUME NEW i \in 1 .. Len(file'), file'[i][1] = Header  PROVE i \in 1 .. Len(file)
  <2>1. SUFFICES ASSUME i > Len(file)  PROVE FALSE
    BY <1>1
  <2>2. i - Len(file) \in 1 .. Len(t) /\ Len(file) + (i - Len(file)) = i
    BY <1>1, <2>1
  <2>3. t[i - Len(file)] \in RowPieces
    BY <2>2, ElementOfSeq
  <2>4. file'[i] = t[i - Len(file)]
    BY <1>1, <2>2
  <2> QED  BY <1>2, <2>3, <2>4, CsvFileAssumption DEF RowPieces, Rows, Header, CsvFileAssumption
<1>3. ASSUME NEW i \in 1 .. Len(file'), file'[i][1] = Header, NEW k \in 1 .. i
      PROVE  file'[k][1] = Header
  <2>1. i \in 1 .. Len(file)
    BY <1>2, <1>3
  <2>2. file'[i] = file[i] /\ file'[k] = file[k]
    BY <1>1, <2>1
  <2> QED  BY <1>3, <2>1, <2>2 DEF HeaderFirst
<1>4. ASSUME NEW i \in 2 .. Len(file'), file'[i] = <<Header, 1>>
      PROVE  file'[i - 1][2] = 1
  <2>1. i \in 1 .. Len(file') /\ file'[i][1] = Header
    BY <1>1, <1>4
  <2>2. i \in 1 .. Len(file)
    BY <1>2, <2>1
  <2>3. file'[i] = file[i] /\ file'[i - 1] = file[i - 1] /\ i \in 2 .. Len(file)
    BY <1>1, <2>2
  <2> QED  BY <1>4, <2>3 DEF HeaderFirst
<1> QED
  BY <1>3, <1>4 DEF HeaderFirst

-----------------------------------------------------------------------------
(* Counting the lost rows. *)

LEMMA LostFinite ==
  ASSUME TypeInv  PROVE IsFiniteSet(Lost) /\ Cardinality(Lost) \in Nat
<1>1. IsFiniteSet(Rows)
  BY FS_Interval, CsvFileAssumption DEF Rows, CsvFileAssumption
<1>2. Lost \in SUBSET Rows
  BY DEF TypeInv, Lost
<1> QED
  BY <1>1, <1>2, FS_Subset, FS_CardinalityType

\* No row is lost by what is put behind it.
LEMMA LostStays ==
  ASSUME TypeInv, NEW t \in Seq(Pieces), file' = file \o t, acked' = acked
  PROVE  /\ Cardinality(Lost) \in Nat /\ Cardinality(Lost') \in Nat
         /\ Cardinality(Lost') <= Cardinality(Lost)
<1>1. IsFiniteSet(Lost) /\ Cardinality(Lost) \in Nat
  BY LostFinite
<1>2. \A r : Readable(r) => Readable(r)'
  BY LinesStay DEF TypeInv
<1>3. Lost' \in SUBSET Lost
  BY <1>2 DEF Lost
<1> QED
  BY <1>1, <1>3, FS_Subset, FS_CardinalityType

LEMMA DebtType == Debt \in {0, 1} /\ Debt' \in {0, 1}
BY DEF Debt

\* A fault pays for the line it may leave open.
LEMMA FaultPays ==
  ASSUME TypeInv, CountInv, faults' = faults + 1,
         Cardinality(Lost) \in Nat, Cardinality(Lost') \in Nat,
         Cardinality(Lost') <= Cardinality(Lost)
  PROVE  CountInv'
BY DebtType DEF CountInv, TypeInv

\* Without a fault no line may be left open that was not.
LEMMA NothingOwed ==
  ASSUME TypeInv, CountInv, faults' = faults, Debt' <= Debt,
         Cardinality(Lost) \in Nat, Cardinality(Lost') \in Nat,
         Cardinality(Lost') <= Cardinality(Lost)
  PROVE  CountInv'
BY DebtType DEF CountInv, TypeInv

\* The row parts of a step that puts rows, or nothing, behind the file.
LEMMA RowsPut ==
  ASSUME IInv, NEW t \in Seq(RowPieces), file' = file \o t,
         exists' = exists, cutOff' = cutOff, process # "creating"
  PROVE  HeaderFirst' /\ Headed'
<1>1. HeaderFirst'
  BY RowsBehind DEF IInv, TypeInv
<1>2. ASSUME exists, ~cutOff  PROVE LineAt(1, Header)'
  <2>1. LineAt(1, Header)
    BY <1>2 DEF IInv, Headed
  <2>2. file \in Seq(Pieces) /\ Len(file) \in Nat
    BY LenProperties DEF IInv, TypeInv
  <2>3. 1 \in 1 .. Len(file)
    BY <2>1, <2>2 DEF LineAt
  <2>4. t \in Seq(Pieces)
    BY RowSequences
  <2> QED  BY <2>1, <2>2, <2>3, <2>4, LinesStay
<1> QED
  BY <1>1, <1>2 DEF Headed

\* What ends with rows ends as they end.
LEMMA EndOf ==
  ASSUME NEW S, NEW s \in Seq(S), NEW t \in Seq(S), t # <<>>
  PROVE  EndsOpen(s \o t) <=> EndsOpen(t)
<1>1. Len(s) \in Nat /\ Len(t) \in Nat \ {0}
  BY EmptySeq, LenProperties
<1>2. /\ s \o t \in Seq(S) /\ Len(s \o t) = Len(s) + Len(t)
      /\ (s \o t)[Len(s) + Len(t)] =
           IF Len(s) + Len(t) <= Len(s) THEN s[Len(s) + Len(t)]
           ELSE t[Len(s) + Len(t) - Len(s)]
  BY <1>1, ConcatProperties
<1>3. ~(Len(s) + Len(t) <= Len(s)) /\ Len(s) + Len(t) - Len(s) = Len(t)
  BY <1>1
<1>4. s \o t # <<>>
  BY <1>1, <1>2, EmptySeq
<1> QED
  BY <1>2, <1>3, <1>4, Zenon DEF EndsOpen

-----------------------------------------------------------------------------
(* The steps. *)

LEMMA InitInv == Init => IInv
<1> SUFFICES ASSUME Init  PROVE IInv
  OBVIOUS
<1>1. file = <<>> /\ kept = <<>> /\ acked = {} /\ faults = 0 /\ Len(file) = 0
  BY DEF Init
<1>2. TypeInv
  <2>1. <<>> \in Seq(Pieces) /\ <<>> \in Seq(RowPieces) /\ 0 \in Nat /\ 1 \in Nat \ {0}
    BY EmptySeq
  <2>2. TRUE \in BOOLEAN /\ FALSE \in BOOLEAN /\ {} \in SUBSET Rows
    OBVIOUS
  <2> QED  BY <2>1, <2>2, Zenon DEF Init, TypeInv
<1>3. CreationInv /\ Headed
  BY <1>1 DEF Init, CreationInv, Headed
<1>4. HeaderFirst
  BY <1>1 DEF HeaderFirst
<1>5. Lost = {} /\ Debt = 0
  BY <1>1 DEF Lost, Debt, EndsOpen
<1>6. CountInv
  BY <1>1, <1>5, FS_EmptySet DEF CountInv
<1> QED
  BY <1>2, <1>3, <1>4, <1>6 DEF IInv

\* Steps that leave the file and the buffer alone.
LEMMA QuietSteps ==
  ASSUME IInv, Begin \/ CreateFails \/ FileFound \/ UNCHANGED vars
                 \/ \E n \in 1 .. MaxBatch : OpenFails(n)
  PROVE  IInv'
<1>1. /\ file' = file /\ kept' = kept /\ acked' = acked /\ exists' = exists
      /\ cutOff' = cutOff
  BY DEF Begin, CreateFails, FileFound, OpenFails, vars, processVars
<1>2. TypeInv'
  <2>1. faults' \in Nat /\ next' \in Nat \ {0}
    <3>1. CASE \E n \in 1 .. MaxBatch : OpenFails(n)
      <4>1. PICK n \in 1 .. MaxBatch : OpenFails(n)
        BY <3>1
      <4>2. n \in Nat
        BY CsvFileAssumption DEF CsvFileAssumption
      <4> QED  BY <4>1, <4>2 DEF OpenFails, Writes, Fault, IInv, TypeInv
    <3>2. CASE Begin \/ CreateFails \/ FileFound \/ UNCHANGED vars
      BY <3>2 DEF Begin, CreateFails, FileFound, vars, processVars, Fault, IInv, TypeInv
    <3> QED  BY <3>1, <3>2
  <2>2. /\ cached' \in BOOLEAN /\ opened' \in BOOLEAN
        /\ process' \in {"down", "up", "creating"}
    BY Zenon DEF Begin, CreateFails, FileFound, OpenFails, vars, processVars, IInv, TypeInv
  <2> QED  BY <1>1, <2>1, <2>2, Zenon DEF IInv, TypeInv
<1>3. CreationInv'
  BY <1>1 DEF Begin, CreateFails, FileFound, OpenFails, vars, processVars, Missing, IInv,
     CreationInv, Writes, Precheck, TypeInv
<1>4. HeaderFirst'
  BY <1>1 DEF IInv, HeaderFirst
<1>5. Headed'
  BY <1>1 DEF Begin, CreateFails, FileFound, OpenFails, vars, processVars, IInv, Headed, LineAt
<1>6. Lost' = Lost /\ Debt' = Debt /\ Cardinality(Lost) \in Nat
  BY <1>1, LostFinite DEF IInv, Lost, Debt, Readable, LineAt
<1>7. faults' = faults \/ faults' = faults + 1
  BY DEF Begin, CreateFails, FileFound, OpenFails, vars, Fault
<1>8. CountInv'
  BY <1>6, <1>7, DebtType DEF IInv, CountInv, TypeInv
<1> QED
  BY <1>2, <1>3, <1>4, <1>5, <1>8 DEF IInv

\* What all steps that create the file start from: the file is empty, so is the
\* writer's buffer, and no row can be lost.
LEMMA CreateStep ==
  ASSUME IInv, CreateFile
  PROVE  IInv'
<1>1. /\ file' = <<>> /\ kept' = kept /\ kept = <<>> /\ acked' = acked /\ acked = {}
      /\ exists' = TRUE /\ process' = "creating" /\ ~cached /\ cached' = cached
  BY Zenon DEF CreateFile, Precheck, Missing, IInv, CreationInv
<1>2. TypeInv'
  <2>1. file' \in Seq(Pieces)
    BY <1>1, EmptySeq
  <2> QED  BY <1>1, <2>1, Zenon DEF CreateFile, IInv, TypeInv
<1>3. CreationInv' /\ Headed'
  BY <1>1, Zenon DEF CreationInv, Headed
<1>4. HeaderFirst'
  BY <1>1 DEF HeaderFirst
<1>5. Lost' = {} /\ Lost = {} /\ Debt' = 0
  BY <1>1 DEF Lost, Debt, EndsOpen
<1>6. CountInv'
  BY <1>5, FS_EmptySet DEF CreateFile, CountInv, IInv, TypeInv
<1> QED
  BY <1>2, <1>3, <1>4, <1>6 DEF IInv

\* Pieces of the header that a cut-off creation leaves in the file: in the first
\* line, the first of them perhaps twice.
LEMMA HeaderCut ==
  ASSUME IInv, process = "creating", NEW h \in Seq(Pieces), file' = file \o h,
         exists' = exists, kept' = <<>>, acked' = acked, TypeInv',
         \A k \in 1 .. Len(h) : h[k][1] = Header,
         \A k \in 2 .. Len(h) : h[k] = <<Header, 1>> => h[k - 1][2] = 1,
         process' # "creating", cutOff', faults' = faults + 1
  PROVE  IInv'
<1>1. file = <<>> /\ acked = {} /\ file' = h /\ exists
  BY ConcatEmptySeq, Zenon DEF IInv, CreationInv
<1>2. CreationInv' /\ Headed'
  BY <1>1, Zenon DEF CreationInv, Headed
<1>3. HeaderFirst'
  <2>1. Len(h) \in Nat
    BY LenProperties
  <2> QED  BY <1>1, <2>1 DEF HeaderFirst
<1>4. Lost' = {} /\ Lost = {}
  BY <1>1 DEF Lost
<1>5. Cardinality(Lost) = 0 /\ Cardinality(Lost') = 0
  BY <1>4, FS_EmptySet
<1>6. CountInv'
  BY <1>5, FaultPays DEF IInv
<1> QED
  BY <1>2, <1>3, <1>6 DEF IInv

LEMMA HeaderStep ==
  ASSUME IInv, WriteHeader  PROVE IInv'
<1>1. /\ process = "creating" /\ process' = "up" /\ exists' = exists /\ acked' = acked
      /\ kept' = kept /\ kept = <<>> /\ faults' = faults /\ cutOff' = cutOff
      /\ file' = file \o HeaderPieces
  BY Zenon DEF WriteHeader, IInv, CreationInv
<1>2. TypeInv'
  <2>1. file' \in Seq(Pieces)
    BY <1>1, HeaderType, ConcatProperties DEF IInv, TypeInv
  <2> QED  BY <1>1, <2>1, Zenon DEF WriteHeader, IInv, TypeInv
<1>3. /\ Len(HeaderPieces) \in 0 .. 3
      /\ \A k \in 1 .. Len(HeaderPieces) : HeaderPieces[k][1] = Header
      /\ \A k \in 2 .. Len(HeaderPieces) :
           HeaderPieces[k] = <<Header, 1>> => HeaderPieces[k - 1][2] = 1
  BY HeaderType
<1>4. HeaderFirst' /\ Headed' /\ CreationInv'
  <2>1. file = <<>> /\ file' = HeaderPieces
    BY <1>1, HeaderType, ConcatEmptySeq, Zenon DEF IInv, CreationInv
  <2>2. HeaderFirst' /\ Headed'
    BY <2>1, <1>3, HeaderType DEF HeaderFirst, Headed, LineAt
  <2> QED  BY <1>1, <2>2, Zenon DEF CreationInv, IInv
<1>5. acked = {} /\ file = <<>> /\ file' = HeaderPieces
  BY <1>1, HeaderType, ConcatEmptySeq, Zenon DEF IInv, CreationInv
<1>6. Lost = {} /\ Lost' = {} /\ Cardinality({}) = 0
  BY <1>1, <1>5, FS_EmptySet DEF Lost
<1>7. ~EndsOpen(file') /\ ~EndsOpen(kept')
  <2>1. HeaderPieces[Len(HeaderPieces)][2] = 2
    BY HeaderType
  <2>2. HeaderPieces[Len(HeaderPieces)][2] # 1
    BY <2>1
  <2> QED  BY <1>1, <1>5, <2>2, Zenon DEF EndsOpen
<1>8. Debt' = 0
  BY <1>7 DEF Debt
<1>9. CountInv'
  BY <1>1, <1>6, <1>8, DebtType, NothingOwed DEF IInv
<1> QED
  BY <1>2, <1>4, <1>9 DEF IInv

LEMMA HeaderFailsStep ==
  ASSUME IInv, HeaderFails  PROVE IInv'
<1>1. PICK w \in 0 .. 1, v \in 0 .. 2 :
        file' = file \o First(HeaderPieces, w) \o First(HeaderPieces, v)
  BY DEF HeaderFails
<1> DEFINE a == First(HeaderPieces, w)
           b == First(HeaderPieces, v)
           h == a \o b
<1>2. /\ process = "creating" /\ process' = "up" /\ exists' = exists /\ acked' = acked
      /\ kept' = kept /\ kept = <<>> /\ faults' = faults + 1 /\ cutOff'
  BY Zenon DEF HeaderFails, Fault, IInv, CreationInv
<1>3. /\ a \in Seq(Pieces) /\ Len(a) = w /\ \A i \in 1 .. w : a[i] = HeaderPieces[i]
      /\ b \in Seq(Pieces) /\ Len(b) = v /\ \A i \in 1 .. v : b[i] = HeaderPieces[i]
  <2>1. w \in 0 .. Len(HeaderPieces) /\ v \in 0 .. Len(HeaderPieces)
    BY HeaderType
  <2> QED  BY <2>1, HeaderType, FirstType
<1>4. file' = (file \o a) \o b
  BY <1>1
<1> HIDE DEF a, b
<1>5. /\ h \in Seq(Pieces) /\ Len(h) = w + v
      /\ \A i \in 1 .. w + v : h[i] = IF i <= w THEN a[i] ELSE b[i - w]
  BY <1>3, ConcatProperties
<1>6. file' = file \o h
  BY <1>3, <1>4, ConcatAssociative, SMTT(60) DEF IInv, TypeInv
<1> HIDE DEF h
<1>7. ASSUME NEW k \in 1 .. Len(h)
      PROVE  h[k] = IF k <= w THEN HeaderPieces[k] ELSE HeaderPieces[k - w]
  BY <1>3, <1>5
<1>8. ASSUME NEW k \in 1 .. Len(h)  PROVE h[k][1] = Header
  <2>1. k \in 1 .. w \/ k - w \in 1 .. v
    BY <1>5
  <2>2. \A i \in 1 .. 2 : HeaderPieces[i][1] = Header
    BY HeaderType
  <2>3. CASE k <= w
    BY <1>7, <2>2, <2>3
  <2>4. CASE ~(k <= w)
    BY <1>7, <2>1, <2>2, <2>4
  <2> QED  BY <2>3, <2>4
<1>9. ASSUME NEW k \in 2 .. Len(h), h[k] = <<Header, 1>>  PROVE h[k - 1][2] = 1
  <2>1. k \in 1 .. Len(h) /\ k - 1 \in 1 .. Len(h) /\ k <= w + v
    BY <1>5
  <2>2. h[k] = HeaderPieces[k - w] /\ k - w \in 1 .. 2
    BY <1>7, <2>1
  <2>3. HeaderPieces[2] # <<Header, 1>>
    BY HeaderType
  <2>4. k - w = 1 /\ w = 1 /\ k - 1 = 1
    <3>1. k - w # 2
      BY <1>9, <2>2, <2>3
    <3> QED  BY <2>2, <3>1
  <2>5. h[1] = HeaderPieces[1]
    BY <1>7, <2>1, <2>4
  <2> QED  BY <2>4, <2>5, HeaderType
<1>10. TypeInv'
  <2>1. file' \in Seq(Pieces)
    BY <1>5, <1>6, ConcatProperties DEF IInv, TypeInv
  <2>2. faults' \in Nat
    BY <1>2 DEF IInv, TypeInv
  <2> QED  BY <1>2, <2>1, <2>2, Zenon DEF HeaderFails, IInv, TypeInv
<1> QED
  BY <1>2, <1>5, <1>6, <1>8, <1>9, <1>10, HeaderCut

\* A step that puts row pieces behind the file and counts as a fault.
LEMMA RowFault ==
  ASSUME IInv, TypeInv', NEW t \in Seq(RowPieces), file' = file \o t,
         exists' = exists, cutOff' = cutOff, acked' = acked,
         process # "creating", process' # "creating",
         exists \/ (kept' = <<>> /\ t = <<>> /\ ~cached'),
         faults' = faults + 1
  PROVE  IInv'
<1>1. HeaderFirst' /\ Headed'
  BY RowsPut
<1>2. t \in Seq(Pieces)
  BY RowSequences
<1>3. CountInv'
  BY <1>2, LostStays, FaultPays DEF IInv
<1>4. CreationInv'
  <2>1. CASE exists
    BY <2>1, Zenon DEF CreationInv
  <2>2. CASE ~exists
    <3>1. file' = <<>> /\ kept' = <<>> /\ acked' = {} /\ ~cached'
      BY <1>2, <2>2, ConcatEmptySeq, Zenon DEF IInv, CreationInv
    <3> QED  BY <3>1, Zenon DEF CreationInv
  <2> QED  BY <2>1, <2>2
<1> QED
  BY <1>1, <1>3, <1>4 DEF IInv

\* A table that passed precheck_storage has its file.
LEMMA WritesExists ==
  ASSUME IInv, NEW n \in 1 .. MaxBatch, Writes(n)
  PROVE  /\ exists /\ process = "up" /\ process # "creating"
         /\ n \in Nat /\ next + n <= MaxRow + 1 /\ next' \in Nat \ {0}
<1>1. process = "up" /\ cached /\ next' = next + n /\ next + n <= MaxRow + 1
  BY DEF Writes
<1>2. exists
  BY <1>1, Zenon DEF IInv, CreationInv
<1>3. n \in Nat /\ next \in Nat \ {0}
  BY CsvFileAssumption DEF CsvFileAssumption, IInv, TypeInv
<1> QED
  BY <1>1, <1>2, <1>3

LEMMA WriteFailsStep ==
  ASSUME IInv, NEW n \in 1 .. MaxBatch, WriteFails(n)  PROVE IInv'
<1>1. /\ exists /\ process # "creating" /\ process = "up"
      /\ n \in Nat /\ next + n <= MaxRow + 1 /\ next' \in Nat \ {0}
  BY WritesExists DEF WriteFails
<1>2. Batch(n) \in Seq(RowPieces) /\ Len(Batch(n)) = 2 * n /\ kept \in Seq(RowPieces)
  BY <1>1, BatchType DEF IInv, TypeInv
<1>3. PICK m \in 0 .. 2 * n :
        \E w \in 0 .. Len(kept \o First(Batch(n), m)) - 1 : \E k \in 0 .. w :
          /\ file' = file \o First(kept \o First(Batch(n), m), w)
          /\ kept' = Behind(kept \o First(Batch(n), m), k)
  BY DEF WriteFails
<1> DEFINE s == kept \o First(Batch(n), m)
<1>4. s \in Seq(RowPieces) /\ Len(s) \in Nat
  <2>1. First(Batch(n), m) \in Seq(RowPieces)
    BY <1>2, FirstType
  <2> QED  BY <1>2, <2>1, ConcatProperties, LenProperties
<1> HIDE DEF s
<1>5. PICK w \in 0 .. Len(s) - 1, k \in 0 .. Len(s) :
        file' = file \o First(s, w) /\ kept' = Behind(s, k)
  <2>1. PICK w \in 0 .. Len(s) - 1 :
          \E k \in 0 .. w : file' = file \o First(s, w) /\ kept' = Behind(s, k)
    BY <1>3 DEF s
  <2>2. PICK k \in 0 .. w : file' = file \o First(s, w) /\ kept' = Behind(s, k)
    BY <2>1
  <2>3. k \in 0 .. Len(s)
    BY <1>4
  <2> QED  BY <2>2, <2>3
<1>6. First(s, w) \in Seq(RowPieces) /\ kept' \in Seq(RowPieces)
  <2>1. w \in 0 .. Len(s)
    BY <1>4
  <2> QED  BY <1>4, <1>5, <2>1, FirstType, BehindType
<1>7. /\ exists' = exists /\ cutOff' = cutOff /\ acked' = acked /\ process' = process
      /\ cached' = cached /\ opened' = TRUE /\ faults' = faults + 1
  BY DEF WriteFails, Fault
<1>8. TypeInv'
  <2>1. file' \in Seq(Pieces)
    BY <1>5, <1>6, RowSequences, ConcatProperties DEF IInv, TypeInv
  <2>2. faults' \in Nat
    BY <1>7 DEF IInv, TypeInv
  <2> QED  BY <1>1, <1>6, <1>7, <2>1, <2>2, Zenon DEF IInv, TypeInv
<1>9. process' # "creating" /\ cutOff' = cutOff /\ exists' = exists
  BY <1>1, <1>7
<1> DEFINE t == First(s, w)
<1>10. t \in Seq(RowPieces) /\ file' = file \o t
  BY <1>5, <1>6
<1> HIDE DEF t
<1> QED
  BY <1>1, <1>7, <1>8, <1>9, <1>10, RowFault

\* The process ends: what it held in memory is gone, and types are kept.
LEMMA GoneType ==
  ASSUME TypeInv, Gone, file' \in Seq(Pieces), next' \in Nat \ {0}, exists' = exists,
         acked' = acked, faults' \in Nat, cutOff' \in BOOLEAN
  PROVE  TypeInv' /\ kept' = <<>> /\ ~cached' /\ process' = "down"
<1>1. kept' = <<>> /\ cached' = FALSE /\ opened' = FALSE /\ process' = "down"
  BY DEF Gone
<1>2. kept' \in Seq(RowPieces)
  BY <1>1, EmptySeq
<1> QED
  BY <1>1, <1>2, Zenon DEF TypeInv

LEMMA StopFailsStep ==
  ASSUME IInv, StopFails  PROVE IInv'
<1>1. /\ process = "up" /\ kept # <<>> /\ Gone /\ exists' = exists /\ next' = next
      /\ acked' = acked /\ cutOff' = cutOff /\ faults' = faults + 1
  BY DEF StopFails, Fault
<1>2. exists /\ process # "creating"
  BY <1>1, Zenon DEF IInv, CreationInv
<1>3. kept \in Seq(RowPieces) /\ Len(kept) \in Nat /\ file \in Seq(Pieces)
  BY LenProperties DEF IInv, TypeInv
<1>4. PICK w \in 0 .. Len(kept) - 1, v \in 0 .. Len(kept) :
        file' = file \o First(kept, w) \o First(kept, v)
  BY DEF StopFails
<1> DEFINE a == First(kept, w)
           b == First(kept, v)
<1>5. a \in Seq(RowPieces) /\ b \in Seq(RowPieces)
  <2>1. w \in 0 .. Len(kept)
    BY <1>3
  <2> QED  BY <1>3, <2>1, FirstType
<1>6. file' = (file \o a) \o b
  BY <1>4
<1> HIDE DEF a, b
<1>7. a \o b \in Seq(RowPieces) /\ a \in Seq(Pieces) /\ b \in Seq(Pieces)
  BY <1>5, ConcatProperties, RowSequences
<1>8. file' = file \o (a \o b)
  BY <1>3, <1>6, <1>7, ConcatAssociative, SMTT(60)
<1>9. file' \in Seq(Pieces)
  BY <1>3, <1>7, <1>8, RowSequences, ConcatProperties
<1>10. faults' \in Nat /\ next' \in Nat \ {0} /\ cutOff' \in BOOLEAN
  BY <1>1 DEF IInv, TypeInv
<1>11. TypeInv' /\ process' = "down"
  BY <1>1, <1>9, <1>10, GoneType DEF IInv
<1>12. process' # "creating"
  BY <1>11
<1> DEFINE t == a \o b
<1>13. t \in Seq(RowPieces) /\ file' = file \o t
  BY <1>7, <1>8
<1> HIDE DEF t
<1> QED
  BY <1>1, <1>2, <1>11, <1>12, <1>13, RowFault

LEMMA KillStep ==
  ASSUME IInv, Kill  PROVE IInv'
<1>1. /\ process # "down" /\ Gone /\ exists' = exists /\ acked' = acked
      /\ faults' = faults + 1 /\ cutOff' = (cutOff \/ process = "creating")
  BY DEF Kill, Fault
<1>2. file \in Seq(Pieces) /\ <<>> \in Seq(RowPieces) /\ <<>> \in Seq(Pieces)
      /\ file \o <<>> = file
  BY EmptySeq, ConcatEmptySeq DEF IInv, TypeInv
<1>3. faults' \in Nat /\ next \in Nat \ {0} /\ cutOff' \in BOOLEAN
  <2>1. faults' \in Nat
    BY <1>1 DEF IInv, TypeInv
  <2> QED  BY <1>1, <2>1, Zenon DEF IInv, TypeInv
<1>4. kept' = <<>> /\ ~cached' /\ process' = "down"
  BY <1>1 DEF Gone
<1>5. CASE process = "creating"
  <2>1. cutOff'
    BY <1>1, <1>5, Zenon
  <2>2. PICK h \in {<<>>, <<<<Header, 1>>>>} : file' = file \o h /\ next' = next
    <3>1. /\ file' = file \/ file' = Append(file, <<Header, 1>>)
          /\ next' = next
      BY <1>5 DEF Kill, Writes
    <3>2. Append(file, <<Header, 1>>) = file \o <<<<Header, 1>>>>
      <4>1. <<Header, 1>> \in Pieces
        BY DEF Pieces
      <4> QED  BY <1>2, <4>1, SMTT(60)
    <3> QED  BY <1>2, <3>1, <3>2
  <2>3. h \in Seq(Pieces) /\ Len(h) \in 0 .. 1 /\ \A k \in 1 .. Len(h) : h[k][1] = Header
    <3>1. <<Header, 1>> \in Pieces
      BY DEF Pieces
    <3>2. CASE h = <<>>
      BY <1>2, <3>2
    <3>3. CASE h = <<<<Header, 1>>>>
      BY <3>1, <3>3
    <3> QED  BY <3>2, <3>3
  <2>4. file' \in Seq(Pieces)
    BY <1>2, <2>2, <2>3, ConcatProperties
  <2>5. TypeInv'
    BY <1>1, <1>3, <2>2, <2>4, GoneType DEF IInv
  <2>6. \A k \in 2 .. Len(h) : h[k] = <<Header, 1>> => h[k - 1][2] = 1
    BY <2>3
  <2>7. process' # "creating"
    BY <1>4
  <2> QED  BY <1>1, <1>4, <1>5, <2>1, <2>2, <2>3, <2>5, <2>6, <2>7, HeaderCut
<1>6. CASE process # "creating"
  <2>1. cutOff' = cutOff
    BY <1>1, <1>6, Zenon DEF IInv, TypeInv
  <2>2. \E t \in Seq(RowPieces) :
          /\ file' = file \o t /\ next' \in Nat \ {0}
          /\ exists \/ t = <<>>
    <3>1. CASE UNCHANGED <<file, next>>
      BY <1>2, <1>3, <3>1
    <3>2. CASE \E n \in 1 .. MaxBatch :
                 /\ Writes(n) /\ ~RowOpen
                 /\ \E w \in 1 .. Len(kept) + 2 * n : file' = file \o First(kept \o Batch(n), w)
      <4>1. PICK n \in 1 .. MaxBatch : 
              /\ Writes(n)
              /\ \E w \in 1 .. Len(kept) + 2 * n : file' = file \o First(kept \o Batch(n), w)
        BY <3>2
      <4>2. exists /\ n \in Nat /\ next + n <= MaxRow + 1 /\ next' \in Nat \ {0}
        BY <4>1, WritesExists
      <4>3. PICK w \in 1 .. Len(kept) + 2 * n : file' = file \o First(kept \o Batch(n), w)
        BY <4>1
      <4>4. kept \in Seq(RowPieces) /\ Batch(n) \in Seq(RowPieces) /\ Len(Batch(n)) = 2 * n
        BY <4>2, BatchType DEF IInv, TypeInv
      <4>5. kept \o Batch(n) \in Seq(RowPieces)
            /\ Len(kept \o Batch(n)) = Len(kept) + 2 * n /\ Len(kept) \in Nat
        BY <4>4, ConcatProperties, LenProperties
      <4>6. First(kept \o Batch(n), w) \in Seq(RowPieces)
        <5>1. w \in 0 .. Len(kept \o Batch(n))
          BY <4>2, <4>5
        <5> QED  BY <4>5, <5>1, FirstType
      <4> QED  BY <4>2, <4>3, <4>6
    <3> QED  BY <1>6, <3>1, <3>2 DEF Kill
  <2>3. PICK t \in Seq(RowPieces) :
          /\ file' = file \o t /\ next' \in Nat \ {0}
          /\ exists \/ t = <<>>
    BY <2>2
  <2>4. file' \in Seq(Pieces)
    BY <1>2, <2>3, RowSequences, ConcatProperties
  <2>5. TypeInv'
    BY <1>1, <1>3, <2>3, <2>4, GoneType DEF IInv
  <2>6. process' # "creating"
    BY <1>4
  <2>7. exists \/ (kept' = <<>> /\ t = <<>> /\ ~cached')
    BY <1>4, <2>3, Zenon
  <2> QED  BY <1>1, <1>6, <2>1, <2>3, <2>5, <2>6, <2>7, RowFault
<1> QED
  BY <1>5, <1>6

\* A row refused by a writer that has a line open: the line stays open.
LEMMA WriteRefusedStep ==
  ASSUME IInv, NEW n \in 1 .. MaxBatch, WriteRefused(n)  PROVE IInv'
<1>1. /\ exists /\ process = "up" /\ process # "creating"
      /\ n \in Nat /\ next + n <= MaxRow + 1 /\ next' \in Nat \ {0}
  BY WritesExists DEF WriteRefused
<1>2. /\ kept' = Append(kept, <<next, 1>>) /\ file' = file /\ RowOpen
      /\ exists' = exists /\ process' = process /\ cached' = cached /\ opened' = opened
      /\ acked' = acked /\ faults' = faults /\ cutOff' = cutOff
  BY DEF WriteRefused
<1>3. kept' \in Seq(RowPieces)
  <2>1. next \in Rows
    BY <1>1, CsvFileAssumption DEF IInv, TypeInv, Rows, CsvFileAssumption
  <2> QED  BY <1>2, <2>1 DEF IInv, TypeInv, RowPieces
<1>4. TypeInv'
  BY <1>1, <1>2, <1>3, Zenon DEF IInv, TypeInv
<1>5. CreationInv'
  BY <1>1, <1>2, Zenon DEF CreationInv
<1>6. HeaderFirst' /\ Headed'
  BY <1>2 DEF IInv, HeaderFirst, Headed, LineAt
<1>7. Lost' = Lost /\ Cardinality(Lost) \in Nat
  BY <1>2, LostFinite DEF IInv, Lost, Readable, LineAt
<1>8. Debt = 1
  BY <1>2, Zenon DEF Debt, EndsOpen, RowOpen
<1>9. CountInv'
  BY <1>2, <1>7, <1>8, DebtType DEF IInv, CountInv, TypeInv
<1> QED
  BY <1>4, <1>5, <1>6, <1>9 DEF IInv

LEMMA StopStep ==
  ASSUME IInv, Stop  PROVE IInv'
<1>1. /\ process = "up" /\ Gone /\ exists' = exists /\ next' = next /\ acked' = acked
      /\ cutOff' = cutOff /\ faults' = faults /\ file' = file \o kept
  BY DEF Stop
<1>2. kept \in Seq(RowPieces) /\ kept \in Seq(Pieces) /\ file \in Seq(Pieces)
  BY RowSequences DEF IInv, TypeInv
<1>3. file' \in Seq(Pieces)
  BY <1>1, <1>2, ConcatProperties
<1>4. faults' \in Nat /\ next' \in Nat \ {0} /\ cutOff' \in BOOLEAN
  BY <1>1, Zenon DEF IInv, TypeInv
<1>5. TypeInv' /\ kept' = <<>> /\ ~cached' /\ process' # "creating"
  <2>1. TypeInv' /\ kept' = <<>> /\ ~cached' /\ process' = "down"
    BY <1>1, <1>3, <1>4, GoneType DEF IInv
  <2> QED  BY <2>1
<1>6. CreationInv'
  <2>1. CASE exists
    BY <1>1, <1>5, <2>1, Zenon DEF CreationInv
  <2>2. CASE ~exists
    <3>1. file' = <<>> /\ acked' = {}
      BY <1>1, <1>2, <2>2, ConcatEmptySeq, Zenon DEF IInv, CreationInv
    <3> QED  BY <1>5, <3>1, Zenon DEF CreationInv
  <2> QED  BY <2>1, <2>2
<1>7. process # "creating"
  BY <1>1
<1>8. HeaderFirst' /\ Headed'
  BY <1>1, <1>2, <1>7, RowsPut
<1>9. Debt' <= Debt
  <2>1. ~EndsOpen(kept')
    BY <1>5, Zenon DEF EndsOpen
  <2>2. CASE kept = <<>>
    <3>1. file' = file
      BY <1>1, <1>2, <2>2, ConcatEmptySeq
    <3> QED  BY <2>1, <3>1 DEF Debt
  <2>3. CASE kept # <<>>
    <3>1. EndsOpen(file') <=> EndsOpen(kept)
      BY <1>1, <1>2, <2>3, EndOf, Zenon
    <3> QED  BY <2>1, <3>1 DEF Debt
  <2> QED  BY <2>2, <2>3
<1>10. CountInv'
  BY <1>1, <1>2, <1>9, LostStays, NothingOwed DEF IInv
<1> QED
  BY <1>5, <1>6, <1>8, <1>10 DEF IInv

\* A batch that is flushed can be read, all but its first row if that went into a line
\* left open.
LEMMA BatchReadable ==
  ASSUME IInv, NEW n \in 1 .. MaxBatch, WriteBatch(n), NEW j \in 0 .. n - 1,
         j # 0 \/ ~EndsOpen(file \o kept), NEW r, r = next + j
  PROVE  Readable(r)'
<1>1. n \in Nat /\ next + n <= MaxRow + 1 /\ next \in Nat
  BY WritesExists DEF WriteBatch, IInv, TypeInv
<1>2. /\ Batch(n) \in Seq(RowPieces) /\ Len(Batch(n)) = 2 * n
      /\ \A l \in 0 .. n - 1 : /\ Batch(n)[2 * l + 1] = <<next + l, 1>>
                               /\ Batch(n)[2 * l + 2] = <<next + l, 2>>
  BY <1>1, BatchType DEF IInv
<1> DEFINE s == file \o kept
<1>3. s \in Seq(Pieces) /\ Len(s) \in Nat /\ Batch(n) \in Seq(Pieces)
  <2>1. kept \in Seq(Pieces) /\ file \in Seq(Pieces) /\ Batch(n) \in Seq(Pieces)
    BY <1>2, RowSequences DEF IInv, TypeInv
  <2> QED  BY <2>1, ConcatProperties, LenProperties
<1>4. file' = s \o Batch(n)
  BY DEF WriteBatch
<1>5. ~EndsOpen(s) \/ j # 0
  OBVIOUS
<1> HIDE DEF s
<1>6. /\ file' \in Seq(Pieces) /\ Len(file') = Len(s) + 2 * n
      /\ \A i \in 1 .. Len(s) + 2 * n :
           file'[i] = IF i <= Len(s) THEN s[i] ELSE Batch(n)[i - Len(s)]
  <2> DEFINE b == Batch(n)
  <2>1. b \in Seq(Pieces) /\ Len(b) = 2 * n /\ file' = s \o b
    BY <1>2, <1>3, <1>4
  <2> HIDE DEF b
  <2>2. /\ file' \in Seq(Pieces) /\ Len(file') = Len(s) + 2 * n
        /\ \A i \in 1 .. Len(s) + 2 * n :
             file'[i] = IF i <= Len(s) THEN s[i] ELSE b[i - Len(s)]
    BY <1>3, <2>1, ConcatProperties, ZenonT(60)
  <2> QED  BY <2>2 DEF b
<1>i. PICK i : i = Len(s) + (2 * j + 1)
  OBVIOUS
<1>7. /\ i \in 1 .. Len(file') /\ i < Len(file') /\ i - 1 \in 0 .. Len(file')
      /\ i \in Nat
  BY <1>1, <1>3, <1>6, <1>i
<1>8. file'[i] = Batch(n)[2 * j + 1] /\ file'[i + 1] = Batch(n)[2 * j + 2]
  <2>1. /\ i - Len(s) = 2 * j + 1 /\ (i + 1) - Len(s) = 2 * j + 2
        /\ ~(i <= Len(s)) /\ ~(i + 1 <= Len(s))
        /\ i \in 1 .. Len(s) + 2 * n /\ i + 1 \in 1 .. Len(s) + 2 * n
    BY <1>1, <1>3, <1>i
  <2> QED  BY <1>6, <2>1
<1>9. file'[i] = <<r, 1>> /\ file'[i + 1] = <<r, 2>>
  BY <1>2, <1>8
<1>10. i = 1 \/ file'[i - 1][2] = 2
  <2>1. CASE j # 0
    <3>1. /\ i - 1 \in 1 .. Len(s) + 2 * n /\ ~(i - 1 <= Len(s))
          /\ (i - 1) - Len(s) = 2 * (j - 1) + 2 /\ j - 1 \in 0 .. n - 1
      BY <1>1, <1>3, <1>i, <2>1
    <3>2. file'[i - 1] = Batch(n)[2 * (j - 1) + 2]
      BY <1>6, <3>1
    <3>3. file'[i - 1] = <<next + (j - 1), 2>>
      BY <1>2, <3>1, <3>2
    <3> QED  BY <3>3
  <2>2. CASE j = 0 /\ s # <<>>
    <3>1. Len(s) # 0
      BY <1>3, <2>2, EmptySeq
    <3>2. i - 1 = Len(s) /\ Len(s) \in 1 .. Len(s) + 2 * n
      BY <1>1, <1>3, <1>i, <2>2, <3>1
    <3>3. file'[i - 1] = s[Len(s)] /\ s[Len(s)] \in Pieces
      <4>1. Len(s) \in 1 .. Len(s)
        BY <1>3, <3>1
      <4> QED  BY <1>3, <1>6, <3>2, <4>1, ElementOfSeq
    <3>4. s[Len(s)][2] # 1
      BY <1>5, <2>2, Zenon DEF EndsOpen
    <3>5. s[Len(s)][2] \in {1, 2}
      BY <3>3 DEF Pieces
    <3> QED  BY <3>3, <3>4, <3>5
  <2>3. CASE j = 0 /\ s = <<>>
    <3>1. Len(s) = 0
      BY <2>3
    <3> QED  BY <1>i, <2>3, <3>1
  <2> QED  BY <2>1, <2>2, <2>3
<1>11. LineAt(i, r)'
  BY <1>7, <1>9, <1>10 DEF LineAt
<1>12. i \in DOMAIN file'
  BY <1>6, <1>7, LenProperties
<1> QED
  BY <1>11, <1>12 DEF Readable

LEMMA WriteBatchStep ==
  ASSUME IInv, NEW n \in 1 .. MaxBatch, WriteBatch(n)  PROVE IInv'
<1>1. /\ exists /\ process = "up" /\ process # "creating"
      /\ n \in Nat /\ next + n <= MaxRow + 1 /\ next' \in Nat \ {0}
  BY WritesExists DEF WriteBatch
<1>2. /\ file' = (file \o kept) \o Batch(n) /\ kept' = <<>> /\ ~RowOpen /\ opened' = TRUE
      /\ acked' = acked \cup (next .. next + n - 1) /\ exists' = exists
      /\ process' = process /\ cached' = cached /\ faults' = faults /\ cutOff' = cutOff
  BY DEF WriteBatch
<1>3. /\ Batch(n) \in Seq(RowPieces) /\ Len(Batch(n)) = 2 * n
      /\ Batch(n)[2 * (n - 1) + 2] = <<next + (n - 1), 2>>
      /\ kept \in Seq(RowPieces) /\ file \in Seq(Pieces)
      /\ kept \in Seq(Pieces) /\ Batch(n) \in Seq(Pieces)
  <2>1. n - 1 \in 0 .. n - 1
    BY <1>1
  <2> QED  BY <1>1, <2>1, BatchType, RowSequences DEF IInv, TypeInv
<1>4. PICK t \in Seq(RowPieces) : t \in Seq(Pieces) /\ file' = file \o t
  <2>1. kept \o Batch(n) \in Seq(RowPieces)
    BY <1>3, ConcatProperties
  <2>2. file' = file \o (kept \o Batch(n))
    BY <1>2, <1>3, ConcatAssociative, SMTT(60)
  <2> QED  BY <2>1, <2>2, RowSequences
<1>5. TypeInv'
  <2>1. file' \in Seq(Pieces) /\ kept' \in Seq(RowPieces)
    BY <1>2, <1>3, <1>4, ConcatProperties, EmptySeq
  <2>2. acked' \in SUBSET Rows
    BY <1>1, <1>2, CsvFileAssumption DEF IInv, TypeInv, Rows, CsvFileAssumption
  <2>3. opened' \in BOOLEAN
    BY <1>2, Zenon
  <2> QED  BY <1>1, <1>2, <2>1, <2>2, <2>3, Zenon DEF IInv, TypeInv
<1>6. CreationInv'
  BY <1>1, <1>2, Zenon DEF CreationInv
<1>7. HeaderFirst' /\ Headed'
  BY <1>1, <1>2, <1>4, RowsPut
<1>8. EndsOpen(file \o kept) => Debt = 1
  <2>1. CASE kept = <<>>
    BY <1>3, <2>1, ConcatEmptySeq, Zenon DEF Debt
  <2>2. CASE kept # <<>>
    BY <1>2, <1>3, <2>2, EndOf, Zenon DEF EndsOpen, RowOpen
  <2> QED  BY <2>1, <2>2
<1>9. Debt' = 0
  <2>1. Len(Batch(n)) # 0 /\ Batch(n)[Len(Batch(n))][2] # 1
    <3>1. 2 * (n - 1) + 2 = 2 * n /\ 2 * n # 0
      BY <1>1
    <3>2. Batch(n)[2 * n] = <<next + (n - 1), 2>>
      BY <1>3, <3>1
    <3> QED  BY <1>3, <3>1, <3>2
  <2>2. Batch(n) # <<>> /\ ~EndsOpen(Batch(n))
    BY <1>3, <2>1, EmptySeq DEF EndsOpen
  <2>3. file \o kept \in Seq(Pieces)
    BY <1>3, ConcatProperties
  <2>4. ~EndsOpen(file') /\ ~EndsOpen(kept')
    <3> DEFINE s == file \o kept  b == Batch(n)
    <3>1. s \in Seq(Pieces) /\ b \in Seq(Pieces) /\ b # <<>> /\ file' = s \o b
      BY <1>2, <1>3, <2>2, <2>3
    <3>2. ~EndsOpen(b)
      BY <2>2
    <3> HIDE DEF s, b
    <3>3. ~EndsOpen(file')
      BY <3>1, <3>2, EndOf, Zenon
    <3>4. ~EndsOpen(kept')
      BY <1>2, Zenon DEF EndsOpen
    <3> QED  BY <3>3, <3>4
  <2> QED  BY <2>4, Zenon DEF Debt
<1>10. /\ IsFiniteSet(Lost) /\ Cardinality(Lost) \in Nat
       /\ \A r : Readable(r) => Readable(r)'
  <2>1. \A r : Readable(r) => Readable(r)'
    BY <1>3, <1>4, LinesStay
  <2> QED  BY <2>1, LostFinite DEF IInv
<1>11. ASSUME NEW r \in next .. next + n - 1, ~Readable(r)'
       PROVE  r = next /\ EndsOpen(file \o kept)
  <2>1. PICK j \in 0 .. n - 1 : r = next + j
    <3>1. r - next \in 0 .. n - 1 /\ r = next + (r - next)
      BY <1>1 DEF IInv, TypeInv
    <3> QED  BY <3>1
  <2>2. j = 0 /\ EndsOpen(file \o kept)
    BY <1>11, <2>1, BatchReadable
  <2>3. r = next
    BY <2>1, <2>2 DEF IInv, TypeInv
  <2> QED  BY <2>2, <2>3
<1>12. CountInv'
  <2>1. CASE EndsOpen(file \o kept)
    <3>1. Lost' \in SUBSET (Lost \cup {next})
      BY <1>2, <1>10, <1>11 DEF Lost
    <3>2. IsFiniteSet(Lost \cup {next}) /\ Cardinality(Lost \cup {next}) <= Cardinality(Lost) + 1
          /\ Cardinality(Lost \cup {next}) \in Nat
      <4> DEFINE l == Lost
      <4>1. IsFiniteSet(l) /\ Cardinality(l) \in Nat
        BY <1>10
      <4> HIDE DEF l
      <4>2. /\ IsFiniteSet(l \cup {next})
            /\ Cardinality(l \cup {next}) = IF next \in l THEN Cardinality(l) ELSE Cardinality(l) + 1
        BY <4>1, FS_AddElement
      <4>3. Cardinality(l \cup {next}) <= Cardinality(l) + 1 /\ Cardinality(l \cup {next}) \in Nat
        BY <4>1, <4>2
      <4> QED  BY <4>2, <4>3 DEF l
    <3>3. Cardinality(Lost') \in Nat /\ Cardinality(Lost') <= Cardinality(Lost) + 1
      BY <1>10, <3>1, <3>2, FS_Subset, FS_CardinalityType
    <3> QED  BY <1>2, <1>8, <1>9, <1>10, <2>1, <3>3 DEF IInv, TypeInv, CountInv
  <2>2. CASE ~EndsOpen(file \o kept)
    <3>1. Lost' \in SUBSET Lost
      BY <1>2, <1>10, <1>11, <2>2 DEF Lost
    <3>2. Cardinality(Lost') \in Nat /\ Cardinality(Lost') <= Cardinality(Lost)
      BY <1>10, <3>1, FS_Subset, FS_CardinalityType
    <3> QED  BY <1>2, <1>9, <1>10, <3>2, DebtType, NothingOwed DEF IInv
  <2> QED  BY <2>1, <2>2
<1> QED
  BY <1>5, <1>6, <1>7, <1>12 DEF IInv

LEMMA NextInv == IInv /\ [Next]_vars => IInv'
<1> SUFFICES ASSUME IInv, [Next]_vars  PROVE IInv'
  OBVIOUS
<1>1. CASE Write
  <2>1. PICK n \in 1 .. MaxBatch :
          WriteBatch(n) \/ OpenFails(n) \/ WriteFails(n) \/ WriteRefused(n)
    BY <1>1 DEF Write
  <2> QED  BY <2>1, WriteBatchStep, QuietSteps, WriteFailsStep, WriteRefusedStep
<1>2. CASE Begin \/ CreateFails \/ FileFound \/ UNCHANGED vars
  BY <1>2, QuietSteps
<1>3. CASE CreateFile \/ WriteHeader \/ HeaderFails
  BY <1>3, CreateStep, HeaderStep, HeaderFailsStep
<1>4. CASE Stop \/ StopFails \/ Kill
  BY <1>4, StopStep, StopFailsStep, KillStep
<1> QED
  BY <1>1, <1>2, <1>3, <1>4 DEF Next

THEOREM Invariance == Spec => []IInv
BY InitInv, NextInv, PTL DEF Spec

-----------------------------------------------------------------------------
(* The theorems. *)

\* However often calls fail and the process is killed or restarted, no more rows of
\* flushed batches are lost to unreadable lines than there were faults: the only such
\* row is the first of a batch that goes behind a line left open.
THEOREM AlwaysOneRowPerFault == Spec => []OneRowPerFault
<1>1. IInv => OneRowPerFault
  <2> SUFFICES ASSUME IInv  PROVE OneRowPerFault
    OBVIOUS
  <2>1. Cardinality(Lost) \in Nat /\ Cardinality(Lost) + Debt <= faults /\ faults \in Nat
    BY LostFinite DEF IInv, CountInv, TypeInv
  <2>2. Cardinality(Lost) <= faults
    BY <2>1, DebtType
  <2> QED  BY <2>2 DEF OneRowPerFault, Lost
<1> QED
  BY <1>1, Invariance, PTL

\* The header is written once, above the rows, over all restarts, and it is there
\* unless the creation of the file failed or was cut off.
THEOREM AlwaysHeaderOnce == Spec => []HeaderOnce
<1>1. IInv => HeaderOnce
  <2> SUFFICES ASSUME IInv  PROVE HeaderOnce
    OBVIOUS
  <2>1. file \in Seq(Pieces) /\ Len(file) \in Nat /\ DOMAIN file = 1 .. Len(file)
    BY LenProperties DEF IInv, TypeInv
  <2>2. \A i \in DOMAIN file : file[i][1] = Header => \A k \in 1 .. i : file[k][1] = Header
    BY <2>1 DEF IInv, HeaderFirst
  <2>3. Cardinality({i \in DOMAIN file : LineAt(i, Header)}) <= 1
    <3> DEFINE lines == {i \in DOMAIN file : LineAt(i, Header)}
    <3>1. ASSUME NEW i \in DOMAIN file, LineAt(i, Header)  PROVE i = 1
      <4>1. SUFFICES ASSUME i # 1  PROVE FALSE
        OBVIOUS
      <4>2. file[i] = <<Header, 1>> /\ file[i - 1][2] = 2
        BY <3>1, <4>1 DEF LineAt
      <4>3. i \in 2 .. Len(file)
        BY <2>1, <4>1
      <4> QED  BY <4>2, <4>3 DEF IInv, HeaderFirst
    <3>2. lines \in SUBSET {1}
      BY <3>1
    <3> HIDE DEF lines
    <3>3. IsFiniteSet({1}) /\ Cardinality({1}) = 1
      BY FS_Singleton
    <3>4. Cardinality(lines) <= 1
      BY <3>2, <3>3, FS_Subset
    <3> QED  BY <3>4 DEF lines
  <2>4. acked # {} /\ ~cutOff => LineAt(1, Header)
    BY Zenon DEF IInv, CreationInv, Headed
  <2> QED  BY <2>2, <2>3, <2>4 DEF HeaderOnce
<1> QED
  BY <1>1, Invariance, PTL

=============================================================================
