----------------------------- MODULE PacketProofs -----------------------------
(***************************************************************************)
(* Theorems about Packet, for bodies of any length, any number of packets  *)
(* in a body and any bytes a fault writes.                                 *)
(***************************************************************************)
EXTENDS Packet, FlattenTheorems

\* The packets parse_packet and parse_multi_packet return.
ReadPacket == [version : Nat, opcode : Nat, body : Seq(Byte)]

\* Until the message itself is read nothing is: the loop over its body starts at zero.
NothingReadYet == pc = "frame" => packets = <<>> /\ offset = 0

\* The inductive invariant.
IInv == TypeOK /\ NeverPanics /\ EveryPacketAdvances /\ NothingReadYet

-----------------------------------------------------------------------------
(* One packet. *)

\* The numbers of a header are numbers.
LEMMA HeaderType ==
  ASSUME NEW b \in Seq(Byte), Len(b) >= HeaderMinSize
  PROVE  Total(b) \in Nat /\ Size(b) \in Nat /\ Version(b) \in Nat /\ Opcode(b) \in Nat
<1>1. \A i \in 1 .. 16 : b[i] \in Nat
  <2>1. Len(b) \in Nat
    BY LenProperties
  <2>2. \A i \in 1 .. 16 : i \in 1 .. Len(b)
    BY <2>1 DEF HeaderMinSize
  <2>3. \A i \in 1 .. 16 : b[i] \in Byte
    BY <2>2, ElementOfSeq
  <2>4. \A n \in Byte : n \in Nat
    BY DEF Byte
  <2> QED  BY <2>3, <2>4
<1>2. \A i \in 1 .. 15 : U16(b, i) \in Nat
  <2> SUFFICES ASSUME NEW i \in 1 .. 15  PROVE U16(b, i) \in Nat
    OBVIOUS
  <2>1. i \in 1 .. 16 /\ i + 1 \in 1 .. 16
    OBVIOUS
  <2>2. b[i] \in Nat /\ b[i + 1] \in Nat
    BY <1>1, <2>1
  <2> QED  BY <2>2 DEF U16
<1>3. U32(b, 1) \in Nat /\ U32(b, 9) \in Nat
  <2>1. U16(b, 1) \in Nat /\ U16(b, 1 + 2) \in Nat /\ U16(b, 9) \in Nat /\ U16(b, 9 + 2) \in Nat
    <3>1. 1 \in 1 .. 15 /\ 1 + 2 \in 1 .. 15 /\ 9 \in 1 .. 15 /\ 9 + 2 \in 1 .. 15
      OBVIOUS
    <3> QED  BY <1>2, <3>1
  <2> QED  BY <2>1 DEF U32
<1>4. U16(b, 5) \in Nat /\ U16(b, 7) \in Nat
  BY <1>2
<1> QED
  BY <1>3, <1>4 DEF Total, Size, Version, Opcode

\* A packet that was accepted lies in its buffer: no slice panics, at least a header
\* is taken, and what is read is a packet.
LEMMA AcceptedPacket ==
  ASSUME NEW b \in Seq(Byte), Accepted(b)
  PROVE  /\ \A then : Sliced(b, then) = then
         /\ Total(b) \in HeaderMinSize .. Len(b)
         /\ PacketOf(b, Body(b)) \in ReadPacket
         /\ \A body \in Seq(Byte) : PacketOf(b, body) \in ReadPacket
<1>1. /\ Len(b) >= HeaderMinSize /\ Len(b) \in Nat
      /\ Size(b) >= HeaderMinSize /\ Size(b) <= Total(b) /\ Total(b) <= Len(b)
  BY LenProperties DEF Accepted, HeaderOk
<1>2. Total(b) \in Nat /\ Size(b) \in Nat /\ Version(b) \in Nat /\ Opcode(b) \in Nat
  BY <1>1, HeaderType
<1>3. Body(b) \in Seq(Byte)
  <2>1. \A i \in Size(b) + 1 .. Total(b) : i \in 1 .. Len(b)
    BY <1>1, <1>2
  <2>2. \A i \in Size(b) + 1 .. Total(b) : b[i] \in Byte
    BY <2>1, ElementOfSeq
  <2> QED  BY <1>2, <2>2, SubSeqProperties DEF Body
<1>4. \A body \in Seq(Byte) : PacketOf(b, body) \in ReadPacket
  BY <1>2 DEF PacketOf, ReadPacket
<1>5. Total(b) \in HeaderMinSize .. Len(b)
  BY <1>1, <1>2 DEF HeaderMinSize
<1>6. \A then : Sliced(b, then) = then
  BY <1>1 DEF Sliced
<1> QED
  BY <1>3, <1>4, <1>5, <1>6

-----------------------------------------------------------------------------
(* Reading what was built. *)

\* A number is read where it stands: in the first part of a concatenation, or in the
\* second.
LEMMA U16Joined ==
  ASSUME NEW s \in Seq(Byte), NEW t \in Seq(Byte), NEW k \in Nat, 1 <= k
  PROVE  /\ k + 1 <= Len(s) => U16(s \o t, k) = U16(s, k)
         /\ k + 1 <= Len(t) => U16(s \o t, Len(s) + k) = U16(t, k)
<1> DEFINE w == s \o t
<1>1. Len(s) \in Nat /\ Len(t) \in Nat
  BY LenProperties
<1>2. \A i \in 1 .. Len(s) + Len(t) : w[i] = IF i <= Len(s) THEN s[i] ELSE t[i - Len(s)]
  BY ConcatProperties
<1> HIDE DEF w
<1>3. ASSUME k + 1 <= Len(s)  PROVE U16(w, k) = U16(s, k)
  <2>1. w[k] = s[k] /\ w[k + 1] = s[k + 1]
    BY <1>1, <1>2, <1>3, SMT
  <2> QED  BY <2>1, SMT DEF U16
<1>4. ASSUME k + 1 <= Len(t)  PROVE U16(w, Len(s) + k) = U16(t, k)
  <2>1. w[Len(s) + k] = t[k] /\ w[(Len(s) + k) + 1] = t[k + 1]
    <3> DEFINE i == Len(s) + k
    <3>1. /\ i \in 1 .. Len(s) + Len(t) /\ i + 1 \in 1 .. Len(s) + Len(t)
          /\ ~(i <= Len(s)) /\ ~(i + 1 <= Len(s))
          /\ i - Len(s) = k /\ (i + 1) - Len(s) = k + 1
      BY <1>1, <1>4, SMT
    <3> HIDE DEF i
    <3>2. w[i] = t[k] /\ w[i + 1] = t[k + 1]
      BY <1>2, <3>1, Zenon
    <3> QED  BY <3>2 DEF i
  <2> QED  BY <2>1, SMT DEF U16
<1> QED
  BY <1>3, <1>4, SMT DEF w

LEMMA U32Joined ==
  ASSUME NEW s \in Seq(Byte), NEW t \in Seq(Byte), NEW k \in Nat, 1 <= k
  PROVE  /\ k + 3 <= Len(s) => U32(s \o t, k) = U32(s, k)
         /\ k + 3 <= Len(t) => U32(s \o t, Len(s) + k) = U32(t, k)
<1> DEFINE w == s \o t  j == k + 2
<1>1. Len(s) \in Nat /\ Len(t) \in Nat
  BY LenProperties
<1>2. j \in Nat /\ 1 <= j
  BY SMT
<1>3. /\ k + 1 <= Len(s) => U16(w, k) = U16(s, k)
      /\ k + 1 <= Len(t) => U16(w, Len(s) + k) = U16(t, k)
  BY U16Joined, Zenon
<1> HIDE DEF j
<1>4. /\ j + 1 <= Len(s) => U16(w, j) = U16(s, j)
      /\ j + 1 <= Len(t) => U16(w, Len(s) + j) = U16(t, j)
  BY <1>2, U16Joined, Zenon
<1> HIDE DEF w
<1>5. ASSUME k + 3 <= Len(s)  PROVE U32(w, k) = U32(s, k)
  BY <1>1, <1>3, <1>4, <1>5, SMT DEF U32, j
<1>6. ASSUME k + 3 <= Len(t)  PROVE U32(w, Len(s) + k) = U32(t, k)
  <2>1. Len(s) + j = (Len(s) + k) + 2
    BY <1>1, SMT DEF j
  <2> QED  BY <1>1, <1>3, <1>4, <1>6, <2>1, SMT DEF U32, j
<1> QED
  BY <1>5, <1>6, SMT DEF w

\* The halves of a number.
LEMMA U32Halves ==
  ASSUME NEW s \in Seq(Byte), NEW t \in Seq(Byte), Len(s) = 2, Len(t) = 2
  PROVE  /\ s \o t \in Seq(Byte) /\ Len(s \o t) = 4
         /\ U32(s \o t, 1) = 65536 * U16(s, 1) + U16(t, 1)
<1>1. s \o t \in Seq(Byte) /\ Len(s \o t) = 4
  BY ConcatProperties
<1>2. 1 \in Nat /\ 1 <= 1 /\ 1 + 1 <= Len(s) /\ 1 + 1 <= Len(t) /\ Len(s) + 1 = 1 + 2
  OBVIOUS
<1>3. U16(s \o t, 1) = U16(s, 1) /\ U16(s \o t, 1 + 2) = U16(t, 1)
  <2>1. U16(s \o t, 1) = U16(s, 1)
    BY <1>2, U16Joined, Zenon
  <2>2. U16(s \o t, Len(s) + 1) = U16(t, 1)
    BY <1>2, U16Joined, Zenon
  <2> QED  BY <1>2, <2>1, <2>2, Zenon
<1> QED
  BY <1>1, <1>3, SMT DEF U32

\* The values of a u16 and of a u32.
Word16 == {n \in Nat : n < 65536}
Word32 == {n \in Nat : n < 65536 * 65536}

\* The bytes of a number give the number.
LEMMA PutGet16 ==
  ASSUME NEW n \in Word16
  PROVE  PutU16(n) \in Seq(Byte) /\ Len(PutU16(n)) = 2 /\ U16(PutU16(n), 1) = n
<1> n \in Nat /\ n < 65536
  BY DEF Word16
<1>1. n \div 256 \in 0 .. 255 /\ n % 256 \in 0 .. 255 /\ 256 * (n \div 256) + (n % 256) = n
  BY SMT
<1>2. (n \div 256) % 256 = n \div 256
  BY <1>1, SMT
<1>3. PutU16(n) = <<n \div 256, n % 256>>
  BY <1>2, SMT DEF PutU16
<1>4. PutU16(n)[1] = n \div 256 /\ PutU16(n)[1 + 1] = n % 256
  BY <1>3, SMT
<1>5. PutU16(n) \in Seq(Byte) /\ Len(PutU16(n)) = 2
  BY <1>1, <1>3, SMT DEF Byte
<1> QED
  BY <1>1, <1>4, <1>5, SMT DEF U16

LEMMA PutGet32 ==
  ASSUME NEW n \in Word32
  PROVE  PutU32(n) \in Seq(Byte) /\ Len(PutU32(n)) = 4 /\ U32(PutU32(n), 1) = n
<1> n \in Nat /\ n < 65536 * 65536
  BY SMT DEF Word32
<1> DEFINE h == n \div 65536  l == n % 65536
<1>1. h \in Word16
  BY SMT DEF Word16
<1>2. l \in Word16
  BY SMT DEF Word16
<1>3. 65536 * h + l = n
  BY SMT
<1>4. PutU32(n) = PutU16(h) \o PutU16(l)
  BY SMT DEF PutU32
<1> HIDE DEF h, l
<1>5. PutU16(h) \in Seq(Byte) /\ Len(PutU16(h)) = 2 /\ U16(PutU16(h), 1) = h
  BY <1>1, PutGet16, SMT
<1>6. PutU16(l) \in Seq(Byte) /\ Len(PutU16(l)) = 2 /\ U16(PutU16(l), 1) = l
  BY <1>2, PutGet16, SMT
<1>7. /\ PutU32(n) \in Seq(Byte) /\ Len(PutU32(n)) = 4
      /\ U32(PutU32(n), 1) = 65536 * U16(PutU16(h), 1) + U16(PutU16(l), 1)
  BY <1>4, <1>5, <1>6, U32Halves, SMT
<1> QED
  BY <1>3, <1>5, <1>6, <1>7, SMT

\* What is appended changes no number in front of it.
Keeps(w, s) ==
  \A k \in Nat \ {0} :
    /\ k + 1 <= Len(s) => U16(w, k) = U16(s, k)
    /\ k + 3 <= Len(s) => U32(w, k) = U32(s, k)

LEMMA Appended ==
  ASSUME NEW s \in Seq(Byte), NEW t \in Seq(Byte)
  PROVE  s \o t \in Seq(Byte) /\ Len(s \o t) = Len(s) + Len(t) /\ Keeps(s \o t, s)
<1>1. s \o t \in Seq(Byte) /\ Len(s \o t) = Len(s) + Len(t)
  BY ConcatProperties
<1>2. \A k \in Nat \ {0} : 1 <= k
  OBVIOUS
<1>3. Keeps(s \o t, s)
  BY <1>2, U16Joined, U32Joined, Zenon DEF Keeps
<1> QED
  BY <1>1, <1>3

\* The fields of a header, as they are written and where they are read.
Written(total, size, vers, oper, seqn) ==
  /\ total \in Seq(Byte) /\ size \in Seq(Byte) /\ vers \in Seq(Byte)
  /\ oper \in Seq(Byte) /\ seqn \in Seq(Byte)
  /\ Len(total) = 4 /\ Len(size) = 2 /\ Len(vers) = 2 /\ Len(oper) = 4 /\ Len(seqn) = 4

ReadBack(total, size, vers, oper, seqn) ==
  LET h == total \o size \o vers \o oper \o seqn IN
  /\ h \in Seq(Byte) /\ Len(h) = 16
  /\ U32(h, 1) = U32(total, 1) /\ U16(h, 5) = U16(size, 1)
  /\ U16(h, 7) = U16(vers, 1) /\ U32(h, 9) = U32(oper, 1)

LEMMA FieldsOfHeader ==
  ASSUME NEW total, NEW size, NEW vers, NEW oper, NEW seqn,
         Written(total, size, vers, oper, seqn)
  PROVE  ReadBack(total, size, vers, oper, seqn)
<1> USE DEF Written
<1> DEFINE p2 == total \o size
           p3 == p2 \o vers
           p4 == p3 \o oper
           h  == p4 \o seqn
<1>1. p2 \in Seq(Byte) /\ Len(p2) = 6 /\ Keeps(p2, total) /\ U16(p2, 5) = U16(size, 1)
  <2>1. p2 \in Seq(Byte) /\ Len(p2) = Len(total) + Len(size) /\ Keeps(p2, total)
    BY Appended, Zenon
  <2>2. 1 \in Nat /\ 1 <= 1 /\ 1 + 1 <= Len(size) /\ Len(total) + 1 = 5
    OBVIOUS
  <2>3. U16(p2, Len(total) + 1) = U16(size, 1)
    BY <2>2, U16Joined, Zenon
  <2> HIDE DEF p2
  <2>4. Len(total) + Len(size) = 6
    OBVIOUS
  <2> QED  BY <2>1, <2>2, <2>3, <2>4, Zenon
<1> HIDE DEF p2
<1>2. p3 \in Seq(Byte) /\ Len(p3) = 8 /\ Keeps(p3, p2) /\ U16(p3, 7) = U16(vers, 1)
  <2>1. p3 \in Seq(Byte) /\ Len(p3) = Len(p2) + Len(vers) /\ Keeps(p3, p2)
    BY <1>1, Appended, Zenon
  <2>2. 1 \in Nat /\ 1 <= 1 /\ 1 + 1 <= Len(vers) /\ Len(p2) + 1 = 7
    BY <1>1
  <2>3. U16(p3, Len(p2) + 1) = U16(vers, 1)
    BY <1>1, <2>2, U16Joined, Zenon
  <2> HIDE DEF p3
  <2>4. Len(p2) + Len(vers) = 8
    BY <1>1
  <2> QED  BY <2>1, <2>2, <2>3, <2>4, Zenon
<1> HIDE DEF p3
<1>3. p4 \in Seq(Byte) /\ Len(p4) = 12 /\ Keeps(p4, p3) /\ U32(p4, 9) = U32(oper, 1)
  <2>1. p4 \in Seq(Byte) /\ Len(p4) = Len(p3) + Len(oper) /\ Keeps(p4, p3)
    BY <1>2, Appended, Zenon
  <2>2. 1 \in Nat /\ 1 <= 1 /\ 1 + 3 <= Len(oper) /\ Len(p3) + 1 = 9
    BY <1>2
  <2>3. U32(p4, Len(p3) + 1) = U32(oper, 1)
    BY <1>2, <2>2, U32Joined, Zenon
  <2> HIDE DEF p4
  <2>4. Len(p3) + Len(oper) = 12
    BY <1>2
  <2> QED  BY <2>1, <2>2, <2>3, <2>4, Zenon
<1> HIDE DEF p4
<1>4. h \in Seq(Byte) /\ Len(h) = 16 /\ Keeps(h, p4)
  <2>1. h \in Seq(Byte) /\ Len(h) = Len(p4) + Len(seqn) /\ Keeps(h, p4)
    BY <1>3, Appended, Zenon
  <2> HIDE DEF h
  <2> QED  BY <1>3, <2>1, SMT
<1> HIDE DEF h
<1>5. U32(h, 1) = U32(total, 1)
  <2>1. U32(h, 1) = U32(p4, 1)
    BY <1>3, <1>4, SMT DEF Keeps
  <2>2. U32(p4, 1) = U32(p3, 1)
    BY <1>2, <1>3, SMT DEF Keeps
  <2>3. U32(p3, 1) = U32(p2, 1)
    BY <1>1, <1>2, SMT DEF Keeps
  <2>4. U32(p2, 1) = U32(total, 1)
    BY <1>1, SMT DEF Keeps
  <2> QED  BY <2>1, <2>2, <2>3, <2>4, Zenon
<1>6. U16(h, 5) = U16(size, 1)
  <2>1. U16(h, 5) = U16(p4, 5)
    BY <1>3, <1>4, SMT DEF Keeps
  <2>2. U16(p4, 5) = U16(p3, 5)
    BY <1>2, <1>3, SMT DEF Keeps
  <2>3. U16(p3, 5) = U16(p2, 5)
    BY <1>1, <1>2, SMT DEF Keeps
  <2> QED  BY <1>1, <2>1, <2>2, <2>3, Zenon
<1>7. U16(h, 7) = U16(vers, 1)
  <2>1. U16(h, 7) = U16(p4, 7)
    BY <1>3, <1>4, SMT DEF Keeps
  <2>2. U16(p4, 7) = U16(p3, 7)
    BY <1>2, <1>3, SMT DEF Keeps
  <2> QED  BY <1>2, <2>1, <2>2, Zenon
<1>8. U32(h, 9) = U32(oper, 1)
  <2>1. U32(h, 9) = U32(p4, 9)
    BY <1>3, <1>4, SMT DEF Keeps
  <2> QED  BY <1>3, <2>1, Zenon
<1> QED
  BY <1>4, <1>5, <1>6, <1>7, <1>8, Zenon DEF h, p4, p3, p2, ReadBack

\* What stands between two others is the part cut out there.
LEMMA CutOut ==
  ASSUME NEW s \in Seq(Byte), NEW t \in Seq(Byte), NEW u \in Seq(Byte)
  PROVE  SubSeq(s \o t \o u, Len(s) + 1, Len(s) + Len(t)) = t
<1> DEFINE w == s \o t \o u  m == Len(s)  n == Len(s) + Len(t)  c == SubSeq(w, m + 1, n)
<1>1. Len(s) \in Nat /\ Len(t) \in Nat /\ Len(u) \in Nat
  BY LenProperties
<1>2. s \o t \in Seq(Byte) /\ Len(s \o t) = n
  BY ConcatProperties
<1>3. w \in Seq(Byte) /\ Len(w) = n + Len(u)
  BY <1>2, ConcatProperties
<1>4. \A k \in 1 .. Len(t) : w[m + k] = t[k]
  <2> SUFFICES ASSUME NEW k \in 1 .. Len(t)  PROVE w[m + k] = t[k]
    OBVIOUS
  <2>1. (s \o t)[m + k] = t[k]
    BY <1>1, ConcatProperties
  <2>2. w[m + k] = (s \o t)[m + k]
    BY <1>1, <1>2, ConcatProperties
  <2> QED  BY <2>1, <2>2
<1> HIDE DEF w
<1>5. \A i \in m + 1 .. n : w[i] \in Byte
  <2>1. \A i \in m + 1 .. n : i \in 1 .. Len(w)
    BY <1>1, <1>3
  <2> QED  BY <1>3, <2>1, ElementOfSeq
<1>6. /\ c \in Seq(Byte) /\ Len(c) = Len(t)
      /\ \A k \in 1 .. Len(t) : c[k] = w[m + k]
  <2>1. /\ c \in Seq(Byte)
        /\ Len(c) = IF m + 1 <= n THEN n - (m + 1) + 1 ELSE 0
        /\ \A k \in 1 .. n - (m + 1) + 1 : c[k] = w[(m + 1) + k - 1]
    BY <1>1, <1>5, SubSeqProperties
  <2> HIDE DEF c
  <2> QED  BY <1>1, <2>1
<1> HIDE DEF c
<1>7. c = t
  BY <1>4, <1>6, SeqEqual
<1> QED
  BY <1>7 DEF c, w

\* And so in the packet, whatever comes behind it, with the body behind the header.
LEMMA FieldsOfPacket ==
  ASSUME NEW h \in Seq(Byte), NEW body \in Seq(Byte), NEW behind \in Seq(Byte), Len(h) = 16
  PROVE  LET b == h \o body \o behind IN
         /\ Len(h \o body) = 16 + Len(body) /\ Len(b) = 16 + Len(body) + Len(behind)
         /\ Total(b) = U32(h, 1) /\ Size(b) = U16(h, 5)
         /\ Version(b) = U16(h, 7) /\ Opcode(b) = U32(h, 9)
         /\ SubSeq(b, 16 + 1, 16 + Len(body)) = body
<1> DEFINE w == h \o body  b == w \o behind
<1>1. Len(body) \in Nat /\ Len(behind) \in Nat
  BY LenProperties
<1>2. w \in Seq(Byte) /\ Len(w) = 16 + Len(body) /\ Keeps(w, h)
  <2>1. w \in Seq(Byte) /\ Len(w) = Len(h) + Len(body) /\ Keeps(w, h)
    BY Appended, Zenon
  <2> QED  BY <2>1, Zenon
<1>3. SubSeq(b, 16 + 1, 16 + Len(body)) = body
  <2>1. SubSeq(b, Len(h) + 1, Len(h) + Len(body)) = body
    BY CutOut, Zenon
  <2> QED  BY <2>1, Zenon
<1> HIDE DEF w
<1>4. Len(b) = 16 + Len(body) + Len(behind) /\ Keeps(b, w)
  <2>1. Len(b) = Len(w) + Len(behind) /\ Keeps(b, w)
    BY <1>2, Appended, Zenon
  <2> QED  BY <1>2, <2>1, Zenon
<1> HIDE DEF b
<1>5. Total(b) = U32(h, 1)
  <2>1. U32(b, 1) = U32(w, 1)
    BY <1>1, <1>2, <1>4, SMT DEF Keeps
  <2>2. U32(w, 1) = U32(h, 1)
    BY <1>2, SMT DEF Keeps
  <2> QED  BY <2>1, <2>2, Zenon DEF Total
<1>6. Size(b) = U16(h, 5)
  <2>1. U16(b, 5) = U16(w, 5)
    BY <1>1, <1>2, <1>4, SMT DEF Keeps
  <2>2. U16(w, 5) = U16(h, 5)
    BY <1>2, SMT DEF Keeps
  <2> QED  BY <2>1, <2>2, Zenon DEF Size
<1>7. Version(b) = U16(h, 7)
  <2>1. U16(b, 7) = U16(w, 7)
    BY <1>1, <1>2, <1>4, SMT DEF Keeps
  <2>2. U16(w, 7) = U16(h, 7)
    BY <1>2, SMT DEF Keeps
  <2> QED  BY <2>1, <2>2, Zenon DEF Version
<1>8. Opcode(b) = U32(h, 9)
  <2>1. U32(b, 9) = U32(w, 9)
    BY <1>1, <1>2, <1>4, SMT DEF Keeps
  <2>2. U32(w, 9) = U32(h, 9)
    BY <1>2, SMT DEF Keeps
  <2> QED  BY <2>1, <2>2, Zenon DEF Opcode
<1> QED
  BY <1>2, <1>3, <1>4, <1>5, <1>6, <1>7, <1>8, Zenon DEF b, w

\* A packet with sixteen bytes of header that claims the length it has is accepted.
LEMMA WholeIsAccepted ==
  ASSUME NEW b, NEW n \in Nat, NEW m \in Nat,
         Total(b) = 16 + n, Size(b) = 16, Len(b) = 16 + n + m
  PROVE  Accepted(b) /\ Body(b) = SubSeq(b, 16 + 1, 16 + n)
BY SMT DEF Accepted, HeaderOk, HeaderMinSize, Body

\* parse_packet undoes build_packet: a packet that was built is accepted, with the
\* version, the operation and the body it was built from, and exactly its bytes are
\* taken, whatever comes behind them.  Its length has to fit in a u32.
THEOREM BuiltPacketIsRead ==
  ASSUME NEW version \in Word16, NEW opcode \in Word32,
         NEW body \in Seq(Byte), HeaderMinSize + Len(body) \in Word32,
         NEW behind \in Seq(Byte)
  PROVE  LET b == BuildPacket(version, opcode, body) \o behind IN
         /\ Accepted(b)
         /\ Total(b) = Len(BuildPacket(version, opcode, body))
         /\ PacketOf(b, Body(b)) = [version |-> version, opcode |-> opcode, body |-> body]
<1> DEFINE total == PutU32(HeaderMinSize + Len(body))
           size  == PutU16(HeaderMinSize)
           vers  == PutU16(version)
           oper  == PutU32(opcode)
           seqn  == PutU32(1)
           h     == total \o size \o vers \o oper \o seqn
           p     == BuildPacket(version, opcode, body)
           b     == p \o behind
<1>1. Len(body) \in Nat /\ Len(behind) \in Nat
  BY LenProperties, Zenon
<1>2. total \in Seq(Byte) /\ Len(total) = 4 /\ U32(total, 1) = 16 + Len(body)
  BY <1>1, PutGet32, Zenon DEF HeaderMinSize
<1>3. size \in Seq(Byte) /\ Len(size) = 2 /\ U16(size, 1) = 16
  <2>1. 16 \in Word16
    BY SMT DEF Word16
  <2> QED  BY <2>1, PutGet16, Zenon DEF HeaderMinSize
<1>4. vers \in Seq(Byte) /\ Len(vers) = 2 /\ U16(vers, 1) = version
  BY PutGet16, Zenon
<1>5. oper \in Seq(Byte) /\ Len(oper) = 4 /\ U32(oper, 1) = opcode
  BY PutGet32, Zenon
<1>6. seqn \in Seq(Byte) /\ Len(seqn) = 4
  <2>1. 1 \in Word32
    BY SMT DEF Word32
  <2> QED  BY <2>1, PutGet32, Zenon
<1>7. p = h \o body
  BY Zenon DEF BuildPacket
<1> HIDE DEF total, size, vers, oper, seqn, p
<1>8. /\ h \in Seq(Byte) /\ Len(h) = 16
      /\ U32(h, 1) = U32(total, 1) /\ U16(h, 5) = U16(size, 1)
      /\ U16(h, 7) = U16(vers, 1) /\ U32(h, 9) = U32(oper, 1)
  <2>1. Written(total, size, vers, oper, seqn)
    BY <1>2, <1>3, <1>4, <1>5, <1>6, Zenon DEF Written
  <2>2. ReadBack(total, size, vers, oper, seqn)
    BY <2>1, FieldsOfHeader, Zenon
  <2> QED  BY <2>2, Zenon DEF ReadBack
<1> HIDE DEF h
<1>9. /\ Len(h \o body) = 16 + Len(body) /\ Len(h \o body \o behind) = 16 + Len(body) + Len(behind)
      /\ Total(h \o body \o behind) = U32(h, 1) /\ Size(h \o body \o behind) = U16(h, 5)
      /\ Version(h \o body \o behind) = U16(h, 7) /\ Opcode(h \o body \o behind) = U32(h, 9)
      /\ SubSeq(h \o body \o behind, 16 + 1, 16 + Len(body)) = body
  BY <1>8, FieldsOfPacket, ZenonT(60)
<1>10. b = h \o body \o behind
  BY <1>7, Zenon
<1> HIDE DEF b
<1>11. /\ Len(p) = 16 + Len(body) /\ Len(b) = 16 + Len(body) + Len(behind)
       /\ Total(b) = 16 + Len(body) /\ Size(b) = 16
       /\ Version(b) = version /\ Opcode(b) = opcode
       /\ SubSeq(b, 16 + 1, 16 + Len(body)) = body
  BY <1>2, <1>3, <1>4, <1>5, <1>7, <1>8, <1>9, <1>10, Zenon
<1>12. Accepted(b) /\ Body(b) = body
  BY <1>1, <1>11, WholeIsAccepted, Zenon
<1>13. PacketOf(b, Body(b)) = [version |-> version, opcode |-> opcode, body |-> body]
  BY <1>11, <1>12, Zenon DEF PacketOf
<1> QED
  BY <1>11, <1>12, <1>13, Zenon DEF b, p

-----------------------------------------------------------------------------
(* The invariant. *)

LEMMA InitInv == Init => IInv
<1> SUFFICES ASSUME Init  PROVE IInv
  OBVIOUS
<1>1. /\ frame \in Seq(Byte) /\ content \in Seq(Byte)
      /\ pc = "frame" /\ offset = 0 /\ packets = <<>>
  BY DEF Init
<1>2. <<>> \in Seq(ReadPacket)
  BY EmptySeq
<1> QED
  BY <1>1, <1>2 DEF IInv, TypeOK, NeverPanics, EveryPacketAdvances, NothingReadYet, ReadPacket

LEMMA NextInv == IInv /\ [Next]_vars => IInv'
<1> SUFFICES ASSUME IInv, [Next]_vars  PROVE IInv'
  OBVIOUS
<1> USE DEF vars, input
<1>0. /\ frame \in Seq(Byte) /\ content \in Seq(Byte) /\ offset \in Nat
      /\ packets \in Seq(ReadPacket) /\ Len(packets) \in Nat /\ Len(content) \in Nat
      /\ <<>> \in Seq(ReadPacket) /\ Len(<<>>) = 0
  <2>1. packets \in Seq(ReadPacket)
    BY DEF IInv, TypeOK, ReadPacket
  <2> QED  BY <2>1, LenProperties, EmptySeq DEF IInv, TypeOK
\* What a step has to keep.
<1>i. ASSUME UNCHANGED input, offset' \in Nat, packets' \in Seq(ReadPacket),
             pc' \in {"multi", "done", "failed"},
             pc' = "multi" => HeaderMinSize * Len(packets') <= offset' /\ offset' <= Len(content)
      PROVE  IInv'
  BY <1>0, <1>i DEF IInv, TypeOK, NeverPanics, EveryPacketAdvances, NothingReadYet, ReadPacket
<1>o. ASSUME NEW body \in Seq(Byte), Accepted(frame)
      PROVE  <<PacketOf(frame, body)>> \in Seq(ReadPacket)
  BY <1>0, <1>o, AcceptedPacket
<1>1. CASE Plain
  <2>1. pc' = "done" /\ Body(frame) \in Seq(Byte)
    BY <1>0, <1>1, AcceptedPacket DEF Plain, PacketOf, ReadPacket
  <2>2. packets' \in Seq(ReadPacket)
    BY <1>o, <1>1, <2>1 DEF Plain
  <2> QED  BY <1>0, <1>i, <1>1, <2>1, <2>2 DEF Plain
<1>2. CASE Inflated
  <2>1. pc' = "done"
    BY <1>0, <1>2, AcceptedPacket DEF Inflated
  <2>2. packets' \in Seq(ReadPacket)
    BY <1>0, <1>o, <1>2 DEF Inflated
  <2> QED  BY <1>0, <1>i, <1>2, <2>1, <2>2 DEF Inflated
<1>3. CASE Unpacked
  <2>1. pc' = "multi"
    BY <1>0, <1>3, AcceptedPacket DEF Unpacked
  <2> QED  BY <1>0, <1>i, <1>3, <2>1 DEF Unpacked, IInv, NothingReadYet, HeaderMinSize
<1>4. CASE DecompressFails
  <2>1. pc' = "failed"
    BY <1>0, <1>4, AcceptedPacket DEF DecompressFails
  <2> QED  BY <1>0, <1>i, <1>4, <2>1 DEF DecompressFails
<1>5. CASE Rejected \/ PacketRejected \/ AllRead
  BY <1>0, <1>i, <1>5 DEF Rejected, PacketRejected, AllRead
<1>6. CASE NextPacket
  <2>1. /\ Rest \in Seq(Byte) /\ Len(Rest) = Len(content) - offset
        /\ offset < Len(content)
    <3>1. offset < Len(content)
      BY <1>6 DEF NextPacket
    <3>2. \A i \in offset + 1 .. Len(content) : content[i] \in Byte
      <4>1. \A i \in offset + 1 .. Len(content) : i \in 1 .. Len(content)
        BY <1>0
      <4> QED  BY <1>0, <4>1, ElementOfSeq
    <3> QED  BY <1>0, <3>1, <3>2, SubSeqProperties DEF Rest
  <2>2. /\ pc' = "multi" /\ Total(Rest) \in HeaderMinSize .. Len(Rest)
        /\ PacketOf(Rest, Body(Rest)) \in ReadPacket
    BY <1>6, <2>1, AcceptedPacket DEF NextPacket
  <2>3. packets' \in Seq(ReadPacket) /\ Len(packets') = Len(packets) + 1
    BY <1>0, <1>6, <2>2, AppendProperties DEF NextPacket
  <2>4. /\ offset' = offset + Total(Rest) /\ UNCHANGED input
        /\ HeaderMinSize * Len(packets) <= offset
    BY <1>6 DEF NextPacket, IInv, EveryPacketAdvances
  <2>5. /\ offset' \in Nat /\ offset' <= Len(content)
        /\ HeaderMinSize * Len(packets') <= offset'
    BY <1>0, <2>1, <2>2, <2>3, <2>4 DEF HeaderMinSize
  <2> QED  BY <1>i, <2>2, <2>3, <2>4, <2>5
<1>7. CASE UNCHANGED vars
  BY <1>7 DEF IInv, TypeOK, NeverPanics, EveryPacketAdvances, NothingReadYet
<1> QED
  BY <1>1, <1>2, <1>3, <1>4, <1>5, <1>6, <1>7 DEF Next

LEMMA Invariance == Spec => []IInv
BY InitInv, NextInv, PTL DEF Spec

-----------------------------------------------------------------------------
(* The theorems. *)

\* What the parser holds is always a packet, an offset and bytes.
THEOREM TypeCorrect == Spec => []TypeOK
<1>1. IInv => TypeOK
  BY DEF IInv
<1> QED
  BY <1>1, Invariance, PTL

\* Whatever bytes arrive, in the message or out of the decompressor, no slice of the
\* parser leaves its buffer: no message can end a monitoring task by a panic.
THEOREM ParserNeverPanics == Spec => []NeverPanics
<1>1. IInv => NeverPanics
  BY DEF IInv
<1> QED
  BY <1>1, Invariance, PTL

\* Each packet read takes sixteen bytes or more: the loop over a decompressed body is
\* bounded by its length, whatever the headers in it claim.
THEOREM PacketsAlwaysAdvance == Spec => []EveryPacketAdvances
<1>1. IInv => EveryPacketAdvances
  BY DEF IInv
<1> QED
  BY <1>1, Invariance, PTL

-----------------------------------------------------------------------------
(* What was built arrives whole. *)

\* A prefix and what is behind it.
LEMMA PrefixParts ==
  ASSUME NEW s \in Seq(Byte), NEW c \in 0 .. Len(s)
  PROVE  /\ SubSeq(s, 1, c) \in Seq(Byte) /\ Len(SubSeq(s, 1, c)) = c
         /\ \A i \in 1 .. c : SubSeq(s, 1, c)[i] = s[i]
<1>1. Len(s) \in Nat /\ c \in Int /\ \A i \in 1 .. c : s[i] \in Byte
  <2>1. Len(s) \in Nat
    BY LenProperties
  <2>2. \A i \in 1 .. c : i \in 1 .. Len(s)
    BY <2>1
  <2> QED  BY <2>1, <2>2, ElementOfSeq
<1>2. /\ SubSeq(s, 1, c) \in Seq(Byte)
      /\ Len(SubSeq(s, 1, c)) = IF 1 <= c THEN c - 1 + 1 ELSE 0
      /\ \A i \in 1 .. c - 1 + 1 : SubSeq(s, 1, c)[i] = s[1 + i - 1]
  BY <1>1, SubSeqProperties
<1> QED
  BY <1>1, <1>2

\* p is a packet build_packet made.
Built(p, version, body) ==
  /\ version \in Word16 /\ body \in Seq(Byte) /\ HeaderMinSize + Len(body) \in Word32
  /\ p = BuildPacket(version, SendMsgReply, body)

LEMMA BuiltRead ==
  ASSUME NEW p, NEW version, NEW body, Built(p, version, body), NEW behind \in Seq(Byte)
  PROVE  /\ Accepted(p \o behind) /\ Total(p \o behind) = Len(p)
         /\ PacketOf(p \o behind, Body(p \o behind))
              = [version |-> version, opcode |-> SendMsgReply, body |-> body]
<1>1. SendMsgReply \in Word32
  BY SMT DEF SendMsgReply, Word32
<1> QED
  BY <1>1, BuiltPacketIsRead, Zenon DEF Built

LEMMA BuiltType ==
  ASSUME NEW p, NEW version, NEW body, Built(p, version, body)
  PROVE  p \in Seq(Byte) /\ p \o <<>> = p /\ Len(p) \in Nat
<1>1. SendMsgReply \in Word32 /\ 1 \in Word32 /\ HeaderMinSize \in Word16
  BY SMT DEF SendMsgReply, Word32, Word16, HeaderMinSize
<1>2. /\ PutU32(HeaderMinSize + Len(body)) \in Seq(Byte) /\ PutU16(HeaderMinSize) \in Seq(Byte)
      /\ PutU16(version) \in Seq(Byte) /\ PutU32(SendMsgReply) \in Seq(Byte)
      /\ PutU32(1) \in Seq(Byte)
  BY <1>1, PutGet16, PutGet32, Zenon DEF Built
<1>3. p \in Seq(Byte)
  BY <1>2, ConcatProperties, Zenon DEF Built, BuildPacket
<1> QED
  BY <1>3, ConcatEmptySeq, LenProperties

\* Of a packet whose end is missing nothing is read.
LEMMA CutRejected ==
  ASSUME NEW p, NEW version, NEW body, Built(p, version, body), NEW c \in 0 .. Len(p) - 1
  PROVE  ~Accepted(SubSeq(p, 1, c))
<1> DEFINE s == SubSeq(p, 1, c)
<1>1. p \in Seq(Byte) /\ p \o <<>> = p /\ Len(p) \in Nat /\ <<>> \in Seq(Byte)
  BY BuiltType, EmptySeq
<1>2. Total(p) = Len(p)
  BY <1>1, BuiltRead, Zenon
<1>3. s \in Seq(Byte) /\ Len(s) = c /\ \A i \in 1 .. c : s[i] = p[i]
  <2>1. c \in 0 .. Len(p)
    BY <1>1
  <2> QED  BY <1>1, <2>1, PrefixParts
<1> HIDE DEF s
<1>4. ASSUME Accepted(s)  PROVE FALSE
  <2>1. c >= 16 /\ c >= Total(s)
    BY <1>3, <1>4 DEF Accepted, HeaderOk, HeaderMinSize
  <2>2. s[1] = p[1] /\ s[1 + 1] = p[1 + 1] /\ s[1 + 2] = p[1 + 2] /\ s[1 + 2 + 1] = p[1 + 2 + 1]
    <3>1. 1 \in 1 .. c /\ 1 + 1 \in 1 .. c /\ 1 + 2 \in 1 .. c /\ 1 + 2 + 1 \in 1 .. c
      BY <2>1
    <3> QED  BY <1>3, <3>1, Zenon
  <2>3. Total(s) = Total(p)
    <3>1. U16(s, 1) = U16(p, 1) /\ U16(s, 1 + 2) = U16(p, 1 + 2)
      BY <2>2, SMT DEF U16
    <3> QED  BY <3>1, SMT DEF Total, U32
  <2> QED  BY <1>1, <1>2, <2>1, <2>3
<1> QED
  BY <1>4 DEF s

\* Of a message that is whole or was cut, only a whole one is accepted.
LEMMA OnlyWholeAccepted ==
  ASSUME NEW p, NEW version, NEW body, Built(p, version, body),
         NEW b, NEW h \in {"none", "cut"}, b \in Harmed(p, h)
  PROVE  /\ Accepted(b) => b = p
         /\ h = "none" => b = p /\ Accepted(b)
<1>1. p \in Seq(Byte) /\ p \o <<>> = p /\ Len(p) \in Nat /\ <<>> \in Seq(Byte)
  BY BuiltType, EmptySeq
<1>2. Accepted(p)
  BY <1>1, BuiltRead, Zenon
<1>3. CASE h = "none"
  BY <1>2, <1>3 DEF Harmed
<1>4. CASE h = "cut"
  <2>1. PICK c \in 0 .. Len(p) - 1 : b = SubSeq(p, 1, c)
    BY <1>4 DEF Harmed, CutShort
  <2>2. ~Accepted(b)
    BY <2>1, CutRejected, Zenon
  <2> QED  BY <1>4, <2>2
<1> QED
  BY <1>3, <1>4

\* The rest of F behind its first o bytes, of which the first c arrived, starts with p:
\* all of it is there, or only part of p.
RestOf(F, c, o, p) ==
  /\ F \in Seq(Byte) /\ c \in 0 .. Len(F) /\ o \in 0 .. c /\ p \in Seq(Byte)
  /\ o + Len(p) <= Len(F) /\ \A i \in 1 .. Len(p) : F[o + i] = p[i]

ArrivedFrom(F, c, o) == SubSeq(SubSeq(F, 1, c), o + 1, c)

SplitAt(F, c, o, p) ==
  /\ c >= o + Len(p) => \E u \in Seq(Byte) : ArrivedFrom(F, c, o) = p \o u
  /\ c < o + Len(p) =>
       c - o \in 0 .. Len(p) - 1 /\ ArrivedFrom(F, c, o) = SubSeq(p, 1, c - o)

LEMMA RestSplit ==
  ASSUME NEW F, NEW c, NEW o, NEW p, RestOf(F, c, o, p)
  PROVE  SplitAt(F, c, o, p)
<1> USE DEF RestOf
<1> DEFINE w == SubSeq(F, 1, c)  r == SubSeq(w, o + 1, c)
<1>1. Len(F) \in Nat /\ Len(p) \in Nat
  BY LenProperties
<1>2. w \in Seq(Byte) /\ Len(w) = c /\ \A i \in 1 .. c : w[i] = F[i]
  BY PrefixParts
<1> HIDE DEF w
<1>3. \A i \in o + 1 .. c : w[i] \in Byte
  <2>1. \A i \in o + 1 .. c : i \in 1 .. Len(w)
    BY <1>1, <1>2
  <2> QED  BY <1>2, <2>1, ElementOfSeq
<1>4. r \in Seq(Byte) /\ Len(r) = c - o /\ \A i \in 1 .. c - o : r[i] = F[o + i]
  <2>1. /\ r \in Seq(Byte) /\ Len(r) = IF o + 1 <= c THEN c - (o + 1) + 1 ELSE 0
        /\ \A i \in 1 .. c - (o + 1) + 1 : r[i] = w[(o + 1) + i - 1]
    BY <1>1, <1>3, SubSeqProperties
  <2> HIDE DEF r
  <2>2. ASSUME NEW i \in 1 .. c - o  PROVE r[i] = F[o + i]
    <3>1. /\ i \in 1 .. c - (o + 1) + 1 /\ (o + 1) + i - 1 = o + i /\ o + i \in 1 .. c
      BY <1>1
    <3> QED  BY <1>2, <2>1, <3>1
  <2> QED  BY <1>1, <2>1, <2>2
<1> HIDE DEF r
<1>5. ASSUME c >= o + Len(p)  PROVE \E u \in Seq(Byte) : r = p \o u
  <2> DEFINE u == SubSeq(r, Len(p) + 1, c - o)
  <2>1. \A i \in Len(p) + 1 .. c - o : r[i] \in Byte
    <3>1. \A i \in Len(p) + 1 .. c - o : i \in 1 .. Len(r)
      BY <1>1, <1>4
    <3> QED  BY <1>4, <3>1, ElementOfSeq
  <2>2. /\ u \in Seq(Byte)
        /\ Len(u) = IF Len(p) + 1 <= c - o THEN c - o - (Len(p) + 1) + 1 ELSE 0
        /\ \A i \in 1 .. c - o - (Len(p) + 1) + 1 : u[i] = r[(Len(p) + 1) + i - 1]
    BY <1>1, <2>1, SubSeqProperties
  <2> HIDE DEF u
  <2>3. Len(u) = c - o - Len(p) /\ \A i \in 1 .. Len(u) : u[i] = r[Len(p) + i]
    <3>1. Len(u) = c - o - Len(p)
      BY <1>1, <1>5, <2>2, SMTT(60)
    <3>2. ASSUME NEW i \in 1 .. Len(u)  PROVE u[i] = r[Len(p) + i]
      <4>1. i \in 1 .. c - o - (Len(p) + 1) + 1 /\ (Len(p) + 1) + i - 1 = Len(p) + i
        BY <1>1, <3>1
      <4> QED  BY <2>2, <4>1
    <3> QED  BY <3>1, <3>2
  <2> DEFINE q == p \o u
  <2>4. /\ q \in Seq(Byte) /\ Len(q) = c - o
        /\ \A i \in 1 .. c - o : q[i] = IF i <= Len(p) THEN p[i] ELSE u[i - Len(p)]
    <3>1. /\ q \in Seq(Byte) /\ Len(q) = Len(p) + Len(u)
          /\ \A i \in 1 .. Len(p) + Len(u) : q[i] = IF i <= Len(p) THEN p[i] ELSE u[i - Len(p)]
      <4>1. p \in Seq(Byte) /\ u \in Seq(Byte)
        BY <2>2
      <4> QED  BY <4>1, ConcatProperties, Zenon
    <3>2. Len(p) + Len(u) = c - o
      BY <1>1, <2>3
    <3> HIDE DEF q
    <3> QED  BY <3>1, <3>2
  <2> HIDE DEF q
  <2>5. ASSUME NEW i \in 1 .. c - o  PROVE q[i] = r[i]
    <3>1. CASE i <= Len(p)
      <4>1. i \in 1 .. Len(p)
        BY <1>1, <3>1
      <4> QED  BY <1>4, <2>4, <3>1, <4>1
    <3>2. CASE ~(i <= Len(p))
      <4>1. i - Len(p) \in 1 .. Len(u) /\ Len(p) + (i - Len(p)) = i
        BY <1>1, <2>3, <3>2
      <4> QED  BY <2>3, <2>4, <3>2, <4>1
    <3> QED  BY <3>1, <3>2
  <2>6. q = r
    BY <1>4, <2>4, <2>5, SeqEqual
  <2> QED  BY <2>2, <2>6 DEF q
<1>6. ASSUME c < o + Len(p)  PROVE c - o \in 0 .. Len(p) - 1 /\ r = SubSeq(p, 1, c - o)
  <2> DEFINE d == c - o  q == SubSeq(p, 1, d)
  <2>1. d \in 0 .. Len(p) - 1 /\ d \in 0 .. Len(p)
    BY <1>1, <1>6
  <2>2. q \in Seq(Byte) /\ Len(q) = d /\ \A i \in 1 .. d : q[i] = p[i]
    <3> HIDE DEF d
    <3> QED  BY <2>1, PrefixParts
  <2> HIDE DEF q
  <2>3. \A i \in 1 .. d : q[i] = r[i]
    <3>1. \A i \in 1 .. d : i \in 1 .. Len(p)
      BY <1>1, <2>1
    <3> QED  BY <1>4, <2>2, <3>1
  <2>4. q = r
    BY <1>4, <2>2, <2>3, SeqEqual
  <2> QED  BY <2>1, <2>4 DEF q
<1> QED
  BY <1>5, <1>6 DEF r, w, ArrivedFrom, SplitAt

\* Every packet that is sent has a length that fits in its header.
Fits == \A body \in Bodies : HeaderMinSize + Len(body) \in Word32

Parts(bodies) == [i \in DOMAIN bodies |-> BuildPacket(0, SendMsgReply, bodies[i])]

\* g[i] is the first i packets one behind the other.
Laid(g, bodies, n) ==
  /\ n \in Nat /\ bodies \in [1 .. n -> Bodies]
  /\ Parts(bodies) \in Seq(Seq(Byte)) /\ Len(Parts(bodies)) = n
  /\ g \in [0 .. n -> Seq(Byte)] /\ Collects(g, Parts(bodies)) /\ Joined(bodies) = g[n]

LEMMA PartBuilt ==
  ASSUME Fits, NEW n \in Nat, NEW bodies \in [1 .. n -> Bodies], NEW i \in 1 .. n
  PROVE  Built(Parts(bodies)[i], 0, bodies[i])
<1>1. 0 \in Word16
  BY SMT DEF Word16
<1>2. bodies[i] \in Bodies /\ bodies[i] \in Seq(Byte)
  BY PacketAssumption DEF PacketAssumption
<1>3. Parts(bodies)[i] = BuildPacket(0, SendMsgReply, bodies[i])
  BY DEF Parts
<1> QED
  BY <1>1, <1>2, <1>3, Zenon DEF Built, Fits

LEMMA LaidExists ==
  ASSUME Fits, NEW n \in Nat, NEW bodies \in [1 .. n -> Bodies]
  PROVE  \E g : Laid(g, bodies, n)
<1> DEFINE ss == Parts(bodies)
<1>1. \A i \in 1 .. n : ss[i] \in Seq(Byte)
  BY PartBuilt, BuiltType, Zenon
<1>2. ss = [i \in 1 .. n |-> ss[i]]
  BY DEF Parts
<1> HIDE DEF ss
<1>3. ss \in [1 .. n -> Seq(Byte)]
  BY <1>1, <1>2
<1>4. ss \in Seq(Seq(Byte)) /\ Len(ss) = n
  BY <1>3, SeqDef, LenProperties
<1>5. PICK g \in [0 .. Len(ss) -> Seq(Byte)] : Collects(g, ss) /\ FlattenSeq(ss) = g[Len(ss)]
  BY <1>4, FlattenType
<1>6. Joined(bodies) = FlattenSeq(ss)
  BY DEF Joined, Parts, ss
<1> QED
  BY <1>4, <1>5, <1>6, Zenon DEF Laid, ss

\* The packet behind the first k.
NextIs(p, g, bodies, n, k) ==
  /\ Built(p, 0, bodies[k + 1]) /\ p \in Seq(Byte) /\ Len(p) \in Nat \ {0}
  /\ g[k] \in Seq(Byte) /\ g[n] \in Seq(Byte)
  /\ Len(g[k + 1]) = Len(g[k]) + Len(p) /\ Len(g[k + 1]) <= Len(g[n])
  /\ \A i \in 1 .. Len(p) : g[n][Len(g[k]) + i] = p[i]

LEMMA NextPart ==
  ASSUME Fits, NEW n, NEW bodies, NEW g, Laid(g, bodies, n), NEW k \in 0 .. n - 1
  PROVE  \E p : NextIs(p, g, bodies, n, k)
<1> DEFINE ss == Parts(bodies)
<1>0. /\ n \in Nat /\ bodies \in [1 .. n -> Bodies] /\ ss \in Seq(Seq(Byte)) /\ Len(ss) = n
      /\ g \in [0 .. n -> Seq(Byte)] /\ Collects(g, ss)
  BY DEF Laid
<1>1. k + 1 \in 1 .. n /\ (k + 1) - 1 = k /\ k \in 0 .. n /\ k + 1 \in 0 .. n /\ n \in 0 .. n
  BY <1>0
<1>2. PICK p : p = ss[k + 1]
  OBVIOUS
<1>3. Built(p, 0, bodies[k + 1])
  BY <1>0, <1>1, <1>2, PartBuilt
<1>4. p \in Seq(Byte) /\ Len(p) \in Nat /\ p \o <<>> = p /\ <<>> \in Seq(Byte)
  BY <1>3, BuiltType, EmptySeq
<1>5. Len(p) # 0
  <2>1. Accepted(p)
    BY <1>3, <1>4, BuiltRead, Zenon
  <2> QED  BY <2>1 DEF Accepted, HeaderOk, HeaderMinSize
<1> HIDE DEF ss
<1>6. PICK x, y, z : x = g[k] /\ y = g[k + 1] /\ z = g[n]
  OBVIOUS
<1>7. x \in Seq(Byte) /\ y \in Seq(Byte) /\ z \in Seq(Byte) /\ y = x \o p
  BY <1>0, <1>1, <1>2, <1>6 DEF Collects
<1>8. Len(y) <= Len(z) /\ \A i \in 1 .. Len(y) : z[i] = y[i]
  <2>1. PICK q : q = k + 1
    OBVIOUS
  <2>2. Within(Byte, ss, g, q, n)
    BY <1>0, <1>1, <2>1 DEF Within
  <2>3. StaysInFront(g[q], g[n])
    BY <2>2, CollectorGrows
  <2> QED  BY <1>6, <2>1, <2>3, Zenon DEF StaysInFront
<1>9. /\ Len(x) \in Nat /\ Len(y) = Len(x) + Len(p)
      /\ \A i \in 1 .. Len(x) + Len(p) : y[i] = IF i <= Len(x) THEN x[i] ELSE p[i - Len(x)]
  BY <1>4, <1>7, ConcatProperties, LenProperties
<1>10. ASSUME NEW i \in 1 .. Len(p)  PROVE z[Len(x) + i] = p[i]
  <2>1. /\ Len(x) + i \in 1 .. Len(x) + Len(p) /\ ~(Len(x) + i <= Len(x))
        /\ (Len(x) + i) - Len(x) = i
    BY <1>4, <1>9
  <2> QED  BY <1>8, <1>9, <2>1
<1> QED
  BY <1>3, <1>4, <1>5, <1>6, <1>7, <1>8, <1>9, <1>10 DEF NextIs

\* What the platform sent, when nothing was changed on the way.
Sent(body, v) == [version |-> v, opcode |-> SendMsgReply, body |-> body]

SentPlain ==
  \E v \in {0, 1}, body \in Bodies :
    sent = <<Sent(body, v)>> /\ frame \in Harmed(BuildPacket(v, SendMsgReply, body), harm)

SentDeflated ==
  \E body \in Bodies :
    /\ sent = <<Sent(body, 2)>> /\ content = body
    /\ frame \in Harmed(BuildPacket(2, SendMsgReply, <<2>>), harm)

\* The packets in a compressed body, all of them or cut short.
ContentOf(n, bodies) ==
  /\ n \in Nat /\ bodies \in [1 .. n -> Bodies] /\ sent = Inner(bodies)
  /\ content = Joined(bodies) \/ (harm = "cut" /\ content \in CutShort(Joined(bodies)))

SentSeveral ==
  \E n \in Nat : \E bodies \in [1 .. n -> Bodies] :
    /\ ContentOf(n, bodies)
    /\ LET whole == BuildPacket(3, SendMsgReply, <<3>>) IN
         frame \in Harmed(whole, harm) \/ frame = whole

Sending == harm \in {"none", "cut"} => SentPlain \/ SentDeflated \/ SentSeveral

LEMMA InitSending == Init => Sending
<1> SUFFICES ASSUME Init, harm \in {"none", "cut"}  PROVE SentPlain \/ SentDeflated \/ SentSeveral
  BY DEF Sending
<1>1. CASE \E v \in {0, 1}, body \in Bodies :
             /\ sent = <<[version |-> v, opcode |-> SendMsgReply, body |-> body]>>
             /\ frame \in Harmed(BuildPacket(v, SendMsgReply, body), harm)
             /\ content = <<>>
  BY <1>1, Zenon DEF SentPlain, Sent
<1>2. CASE \E body \in Bodies :
             /\ sent = <<[version |-> 2, opcode |-> SendMsgReply, body |-> body]>>
             /\ frame \in Harmed(BuildPacket(2, SendMsgReply, <<2>>), harm)
             /\ content = body
  BY <1>2, Zenon DEF SentDeflated, Sent
<1>3. CASE \E n \in 0 .. MaxInner : \E bodies \in [1 .. n -> Bodies] :
             LET whole == BuildPacket(3, SendMsgReply, <<3>>) IN
             /\ sent = Inner(bodies)
             /\ \/ frame \in Harmed(whole, harm) /\ content = Joined(bodies)
                \/ frame = whole /\ content \in Harmed(Joined(bodies), harm)
  <2> DEFINE whole == BuildPacket(3, SendMsgReply, <<3>>)
  <2>1. PICK n \in 0 .. MaxInner : \E bodies \in [1 .. n -> Bodies] :
               /\ sent = Inner(bodies)
               /\ \/ frame \in Harmed(whole, harm) /\ content = Joined(bodies)
                  \/ frame = whole /\ content \in Harmed(Joined(bodies), harm)
    BY <1>3, Zenon
  <2>2. PICK bodies \in [1 .. n -> Bodies] :
               /\ sent = Inner(bodies)
               /\ \/ frame \in Harmed(whole, harm) /\ content = Joined(bodies)
                  \/ frame = whole /\ content \in Harmed(Joined(bodies), harm)
    BY <2>1, Zenon
  <2>3. n \in Nat
    BY PacketAssumption DEF PacketAssumption
  <2>4. content \in Harmed(Joined(bodies), harm) =>
          content = Joined(bodies) \/ (harm = "cut" /\ content \in CutShort(Joined(bodies)))
    <3>1. CASE harm = "none"
      BY <3>1 DEF Harmed
    <3>2. CASE harm = "cut"
      BY <3>2 DEF Harmed
    <3> QED  BY <3>1, <3>2
  <2> HIDE DEF whole
  <2>5. ContentOf(n, bodies)
    BY <2>2, <2>3, <2>4, Zenon DEF ContentOf
  <2>6. frame \in Harmed(whole, harm) \/ frame = whole
    BY <2>2, Zenon
  <2> QED  BY <2>3, <2>5, <2>6, Zenon DEF SentSeveral, whole
<1> QED
  BY <1>1, <1>2, <1>3, Zenon DEF Init

\* What an accepted frame is: one of the three kinds that were sent.
ReadAs(k) ==
  CASE k = "plain"    -> Version(frame) \in {0, 1} /\ sent = <<PacketOf(frame, Body(frame))>>
    [] k = "deflated" -> /\ Version(frame) = 2 /\ Body(frame) = <<2>>
                         /\ sent = <<PacketOf(frame, content)>>
    [] k = "several"  -> /\ Version(frame) = 3 /\ Body(frame) = <<3>>
                         /\ \E n \in Nat : \E bodies \in [1 .. n -> Bodies] : ContentOf(n, bodies)

\* The fields of a packet that was read.
LEMMA FieldsRead ==
  ASSUME NEW b, NEW v, NEW body,
         PacketOf(b, Body(b)) = [version |-> v, opcode |-> SendMsgReply, body |-> body]
  PROVE  Version(b) = v /\ Opcode(b) = SendMsgReply /\ Body(b) = body
BY DEF PacketOf

\* An accepted frame is a whole one, and reads as the packet it was built from.
LEMMA FrameBuilt ==
  ASSUME NEW p, NEW v, NEW body, Built(p, v, body), harm \in {"none", "cut"},
         frame \in Harmed(p, harm) \/ frame = p
  PROVE  /\ harm = "none" => Accepted(frame)
         /\ Accepted(frame) => /\ Version(frame) = v /\ Opcode(frame) = SendMsgReply
                               /\ Body(frame) = body
<1>1. p \in Seq(Byte) /\ p \o <<>> = p /\ <<>> \in Seq(Byte)
  BY BuiltType, EmptySeq
<1>2. Accepted(p) /\ PacketOf(p, Body(p)) = [version |-> v, opcode |-> SendMsgReply, body |-> body]
  <2>1. /\ Accepted(p \o <<>>)
        /\ PacketOf(p \o <<>>, Body(p \o <<>>))
             = [version |-> v, opcode |-> SendMsgReply, body |-> body]
    BY <1>1, BuiltRead
  <2> QED  BY <1>1, <2>1
<1>3. Version(p) = v /\ Opcode(p) = SendMsgReply /\ Body(p) = body
  BY <1>2, FieldsRead, Zenon
<1>4. frame \in Harmed(p, harm) =>
        (Accepted(frame) => frame = p) /\ (harm = "none" => frame = p /\ Accepted(frame))
  <2>1. PICK h \in {"none", "cut"} : h = harm
    OBVIOUS
  <2>2. PICK b : b = frame
    OBVIOUS
  <2>3. b \in Harmed(p, h) => (Accepted(b) => b = p) /\ (h = "none" => b = p /\ Accepted(b))
    BY OnlyWholeAccepted
  <2> QED  BY <2>1, <2>2, <2>3, Zenon
<1> QED
  BY <1>2, <1>3, <1>4, Zenon

LEMMA FrameRead ==
  ASSUME Fits, Sending, harm \in {"none", "cut"}
  PROVE  /\ harm = "none" => Accepted(frame)
         /\ Accepted(frame) => ReadAs("plain") \/ ReadAs("deflated") \/ ReadAs("several")
<1>0. Bodies \subseteq Seq(Byte)
  BY PacketAssumption DEF PacketAssumption
<1>1. CASE SentPlain
  <2>1. PICK v \in {0, 1}, body \in Bodies :
          sent = <<Sent(body, v)>> /\ frame \in Harmed(BuildPacket(v, SendMsgReply, body), harm)
    BY <1>1 DEF SentPlain
  <2>2. Built(BuildPacket(v, SendMsgReply, body), v, body)
    <3>1. 0 \in Word16 /\ 1 \in Word16
      BY SMT DEF Word16
    <3>2. v \in Word16 /\ body \in Seq(Byte)
      BY <1>0, <3>1, Zenon
    <3> QED  BY <3>2, Zenon DEF Built, Fits
  <2>3. /\ harm = "none" => Accepted(frame)
        /\ Accepted(frame) => Version(frame) = v /\ Opcode(frame) = SendMsgReply /\ Body(frame) = body
    BY <2>1, <2>2, FrameBuilt, Zenon
  <2>4. Accepted(frame) => ReadAs("plain")
    BY <2>1, <2>3, Zenon DEF ReadAs, PacketOf, Sent
  <2> QED  BY <2>3, <2>4
<1>2. CASE SentDeflated
  <2>1. PICK body \in Bodies :
          /\ sent = <<Sent(body, 2)>> /\ content = body
          /\ frame \in Harmed(BuildPacket(2, SendMsgReply, <<2>>), harm)
    BY <1>2 DEF SentDeflated
  <2>2. Built(BuildPacket(2, SendMsgReply, <<2>>), 2, <<2>>)
    <3>1. 2 \in Word16 /\ 2 \in Byte
      BY SMT DEF Word16, Byte
    <3>2. <<2>> \in Seq(Byte) /\ Len(<<2>>) = 1
      BY <3>1
    <3>3. HeaderMinSize + Len(<<2>>) \in Word32
      BY <3>2, SMT DEF Word32, HeaderMinSize
    <3> QED  BY <3>1, <3>2, <3>3, Zenon DEF Built
  <2>3. /\ harm = "none" => Accepted(frame)
        /\ Accepted(frame) => Version(frame) = 2 /\ Opcode(frame) = SendMsgReply /\ Body(frame) = <<2>>
    BY <2>1, <2>2, FrameBuilt, Zenon
  <2>4. Accepted(frame) => ReadAs("deflated")
    BY <2>1, <2>3 DEF ReadAs, PacketOf, Sent
  <2> QED  BY <2>3, <2>4
<1>3. CASE SentSeveral
  <2>1. PICK n \in Nat : \E bodies \in [1 .. n -> Bodies] :
          /\ ContentOf(n, bodies)
          /\ LET whole == BuildPacket(3, SendMsgReply, <<3>>) IN
               frame \in Harmed(whole, harm) \/ frame = whole
    BY <1>3 DEF SentSeveral
  <2>2. Built(BuildPacket(3, SendMsgReply, <<3>>), 3, <<3>>)
    <3>1. 3 \in Word16 /\ 3 \in Byte
      BY SMT DEF Word16, Byte
    <3>2. <<3>> \in Seq(Byte) /\ Len(<<3>>) = 1
      BY <3>1
    <3>3. HeaderMinSize + Len(<<3>>) \in Word32
      BY <3>2, SMT DEF Word32, HeaderMinSize
    <3> QED  BY <3>1, <3>2, <3>3, Zenon DEF Built
  <2>3. /\ harm = "none" => Accepted(frame)
        /\ Accepted(frame) => Version(frame) = 3 /\ Opcode(frame) = SendMsgReply /\ Body(frame) = <<3>>
    BY <2>1, <2>2, FrameBuilt, Zenon
  <2>4. Accepted(frame) => ReadAs("several")
    <3>1. \E m \in Nat : \E bodies \in [1 .. m -> Bodies] : ContentOf(m, bodies)
      BY <2>1
    <3> HIDE DEF ContentOf
    <3> QED  BY <2>3, <3>1 DEF ReadAs
  <2> QED  BY <2>3, <2>4
<1> QED
  BY <1>1, <1>2, <1>3 DEF Sending

\* The first k packets have been read, of the c bytes that came of the first n.
ReadUpto(g, bodies, n, c, k) ==
  /\ Laid(g, bodies, n) /\ sent = Inner(bodies)
  /\ c \in 0 .. Len(g[n]) /\ content = SubSeq(g[n], 1, c)
  /\ harm = "none" => c = Len(g[n])
  /\ k \in 0 .. n /\ offset = Len(g[k]) /\ offset <= c /\ packets = SubSeq(sent, 1, k)

ReadInv ==
  harm \in {"none", "cut"} =>
    /\ pc = "done" => packets = SubSeq(sent, 1, Len(packets)) /\ (harm = "none" => packets = sent)
    /\ pc = "failed" => harm # "none"
    /\ pc = "multi" => \E g, bodies, n, c, k : ReadUpto(g, bodies, n, c, k)

LEMMA InnerType ==
  ASSUME NEW n \in Nat, NEW bodies \in [1 .. n -> Bodies]
  PROVE  /\ Inner(bodies) \in Seq(ReadPacket) /\ Len(Inner(bodies)) = n
         /\ \A i \in 1 .. n : Inner(bodies)[i]
              = [version |-> 0, opcode |-> SendMsgReply, body |-> bodies[i]]
<1>1. Inner(bodies) \in [1 .. n -> ReadPacket]
  BY PacketAssumption DEF PacketAssumption, Inner, ReadPacket, SendMsgReply
<1>2. Inner(bodies) \in Seq(ReadPacket) /\ Len(Inner(bodies)) = n
  BY <1>1, SeqDef, LenProperties
<1> QED
  BY <1>2 DEF Inner

\* The loop starts at the first packet.
LEMMA ReadStarts ==
  ASSUME Fits, NEW n \in Nat, NEW bodies \in [1 .. n -> Bodies], ContentOf(n, bodies),
         offset = 0, packets = <<>>
  PROVE  \E g, c : ReadUpto(g, bodies, n, c, 0)
<1>1. PICK g : Laid(g, bodies, n)
  BY LaidExists
<1>2. g[n] \in Seq(Byte) /\ Len(g[n]) \in Nat /\ Joined(bodies) = g[n] /\ g[0] = <<>>
  <2>1. /\ g \in [0 .. n -> Seq(Byte)] /\ Collects(g, Parts(bodies)) /\ Joined(bodies) = g[n]
    BY <1>1, Zenon DEF Laid
  <2>2. n \in 0 .. n
    OBVIOUS
  <2>3. g[n] \in Seq(Byte)
    BY <2>1, <2>2
  <2>4. Len(g[n]) \in Nat
    BY <2>3, LenProperties
  <2>5. g[0] = <<>>
    BY <2>1, Zenon DEF Collects
  <2> QED  BY <2>1, <2>3, <2>4, <2>5
<1>3. PICK c \in 0 .. Len(g[n]) :
        content = SubSeq(g[n], 1, c) /\ (harm = "none" => c = Len(g[n]))
  <2>1. CASE content = Joined(bodies)
    <3>1. content = SubSeq(g[n], 1, Len(g[n])) /\ Len(g[n]) \in 0 .. Len(g[n])
      BY <1>2, <2>1, SubSeqFull
    <3> QED  BY <3>1
  <2>2. CASE harm = "cut" /\ content \in CutShort(Joined(bodies))
    <3>1. PICK c \in 0 .. Len(g[n]) - 1 : content = SubSeq(g[n], 1, c)
      BY <1>2, <2>2 DEF CutShort
    <3>2. c \in 0 .. Len(g[n])
      BY <1>2
    <3> QED  BY <2>2, <3>1, <3>2
  <2> QED  BY <2>1, <2>2 DEF ContentOf
<1>4. offset = Len(g[0]) /\ offset <= c /\ 0 \in 0 .. n
  BY <1>2, EmptySeq
<1>5. packets = SubSeq(sent, 1, 0)
  BY SubSeqEmpty
<1>6. sent = Inner(bodies)
  BY DEF ContentOf
<1> QED
  BY <1>1, <1>3, <1>4, <1>5, <1>6, Zenon DEF ReadUpto

\* In the loop: the packet that comes next is read as it was sent, or was cut short.
LEMMA ReadNext ==
  ASSUME Fits, TypeOK, NEW g, NEW bodies, NEW n, NEW c, NEW k, ReadUpto(g, bodies, n, c, k),
         offset < Len(content)
  PROVE  /\ k + 1 \in 1 .. n
         /\ harm = "none" => Accepted(Rest)
         /\ Accepted(Rest) => /\ PacketOf(Rest, Body(Rest)) = Inner(bodies)[k + 1]
                              /\ offset + Total(Rest) = Len(g[k + 1])
                              /\ Len(g[k + 1]) <= c
<1>0. /\ Laid(g, bodies, n) /\ n \in Nat /\ bodies \in [1 .. n -> Bodies] /\ k \in 0 .. n
      /\ c \in 0 .. Len(g[n]) /\ content = SubSeq(g[n], 1, c)
      /\ harm = "none" => c = Len(g[n])
      /\ offset = Len(g[k]) /\ offset <= c /\ offset \in Nat
  BY DEF ReadUpto, Laid, TypeOK
<1>1. PICK F : F = g[n] /\ F \in Seq(Byte) /\ Len(F) \in Nat
  BY <1>0, LenProperties DEF Laid
<1>2. Len(content) = c /\ c \in Nat
  BY <1>0, <1>1, PrefixParts
<1>3. k # n
  BY <1>0, <1>1, <1>2
<1>4. k \in 0 .. n - 1 /\ k + 1 \in 1 .. n
  BY <1>0, <1>3
<1>p. PICK p : NextIs(p, g, bodies, n, k)
  BY <1>0, <1>4, NextPart, Zenon
<1>5. /\ Built(p, 0, bodies[k + 1]) /\ p \in Seq(Byte) /\ Len(p) \in Nat \ {0}
      /\ Len(g[k + 1]) = Len(g[k]) + Len(p) /\ Len(g[k + 1]) <= Len(g[n])
      /\ \A i \in 1 .. Len(p) : g[n][Len(g[k]) + i] = p[i]
  BY <1>p, Zenon DEF NextIs
<1>6. PICK o \in Nat : o = offset
  BY <1>0
<1>7. RestOf(F, c, o, p)
  <2>1. F \in Seq(Byte) /\ c \in 0 .. Len(F) /\ o \in 0 .. c /\ p \in Seq(Byte)
    BY <1>0, <1>1, <1>2, <1>5, <1>6
  <2>2. o + Len(p) <= Len(F)
    BY <1>0, <1>1, <1>5, <1>6
  <2>3. \A i \in 1 .. Len(p) : F[o + i] = p[i]
    BY <1>0, <1>1, <1>5, <1>6, Zenon
  <2> QED  BY <2>1, <2>2, <2>3, Zenon DEF RestOf
<1>8. PICK r : r = Rest /\ r = SubSeq(SubSeq(F, 1, c), o + 1, c)
  BY <1>0, <1>1, <1>2, <1>6 DEF Rest
<1>9. /\ c >= o + Len(p) => \E u \in Seq(Byte) : r = p \o u
      /\ c < o + Len(p) => c - o \in 0 .. Len(p) - 1 /\ r = SubSeq(p, 1, c - o)
  <2>1. r = ArrivedFrom(F, c, o)
    BY <1>8 DEF ArrivedFrom
  <2>2. SplitAt(F, c, o, p)
    BY <1>7, RestSplit, Zenon
  <2> QED  BY <2>1, <2>2, Zenon DEF SplitAt
<1>10. CASE c >= o + Len(p)
  <2>1. PICK u \in Seq(Byte) : r = p \o u
    BY <1>9, <1>10
  <2>2. /\ Accepted(r) /\ Total(r) = Len(p)
        /\ PacketOf(r, Body(r)) = [version |-> 0, opcode |-> SendMsgReply, body |-> bodies[k + 1]]
    BY <1>5, <2>1, BuiltRead
  <2>3. PacketOf(r, Body(r)) = Inner(bodies)[k + 1]
    BY <1>0, <1>4, <2>2, InnerType
  <2>4. offset + Total(r) = Len(g[k + 1]) /\ Len(g[k + 1]) <= c
    BY <1>0, <1>5, <1>6, <1>10, <2>2
  <2> QED  BY <1>4, <1>8, <2>2, <2>3, <2>4, Zenon
<1>11. CASE c < o + Len(p)
  <2>1. ~Accepted(r)
    <3>1. PICK d \in 0 .. Len(p) - 1 : d = c - o /\ r = SubSeq(p, 1, d)
      BY <1>9, <1>11
    <3> QED  BY <1>5, <3>1, CutRejected
  <2>2. harm # "none"
    <3>1. CASE harm = "none"
      <4>1. c = Len(g[n]) /\ Len(g[k]) + Len(p) <= Len(g[n]) /\ o = Len(g[k])
        BY <1>0, <1>5, <1>6, <3>1
      <4> QED  BY <1>2, <1>5, <1>6, <1>11, <4>1
    <3> QED  BY <3>1
  <2> QED  BY <1>4, <1>8, <2>1, <2>2, Zenon
<1> QED
  BY <1>2, <1>5, <1>6, <1>10, <1>11

\* A prefix and the element behind it.
LEMMA PrefixGrows ==
  ASSUME NEW S, NEW s \in Seq(S), NEW k \in Nat, k + 1 <= Len(s)
  PROVE  /\ SubSeq(s, 1, k) \in Seq(S) /\ Len(SubSeq(s, 1, k)) = k
         /\ Append(SubSeq(s, 1, k), s[k + 1]) = SubSeq(s, 1, k + 1)
<1> DEFINE a == SubSeq(s, 1, k)  b == SubSeq(s, 1, k + 1)  x == s[k + 1]
           t == Append(a, x)
<1>1. Len(s) \in Nat /\ k + 1 \in 1 .. Len(s) /\ \A i \in 1 .. k + 1 : s[i] \in S
  <2>1. Len(s) \in Nat
    BY LenProperties
  <2>2. \A i \in 1 .. k + 1 : i \in 1 .. Len(s)
    BY <2>1
  <2> QED  BY <2>1, <2>2, ElementOfSeq
<1>2. a \in Seq(S) /\ Len(a) = k /\ \A i \in 1 .. k : a[i] = s[i]
  <2>1. /\ a \in Seq(S) /\ Len(a) = IF 1 <= k THEN k - 1 + 1 ELSE 0
        /\ \A i \in 1 .. k - 1 + 1 : a[i] = s[1 + i - 1]
    BY <1>1, SubSeqProperties
  <2> HIDE DEF a
  <2> QED  BY <2>1
<1>3. b \in Seq(S) /\ Len(b) = k + 1 /\ \A i \in 1 .. k + 1 : b[i] = s[i]
  <2>1. /\ b \in Seq(S) /\ Len(b) = IF 1 <= k + 1 THEN k + 1 - 1 + 1 ELSE 0
        /\ \A i \in 1 .. k + 1 - 1 + 1 : b[i] = s[1 + i - 1]
    BY <1>1, SubSeqProperties
  <2> HIDE DEF b
  <2> QED  BY <2>1
<1>4. x \in S
  BY <1>1
<1> HIDE DEF a, b
<1>5. t \in Seq(S) /\ Len(t) = k + 1 /\ (\A i \in 1 .. k : t[i] = a[i]) /\ t[k + 1] = x
  <2> HIDE DEF x
  <2> QED  BY <1>2, <1>4, AppendProperties
<1> HIDE DEF t
<1>6. ASSUME NEW i \in 1 .. Len(t)  PROVE t[i] = b[i]
  <2>1. CASE i = k + 1
    BY <1>3, <1>5, <2>1
  <2>2. CASE i # k + 1
    <3>1. i \in 1 .. k
      BY <1>5, <2>2
    <3> QED  BY <1>2, <1>3, <1>5, <3>1
  <2> QED  BY <2>1, <2>2
<1>7. t = b
  BY <1>3, <1>5, <1>6, SeqEqual
<1> QED
  BY <1>2, <1>7 DEF t, a, b, x

\* The loop ends behind the last packet, or what came was cut short.
LEMMA ReadEnds ==
  ASSUME Fits, TypeOK, NEW g, NEW bodies, NEW n, NEW c, NEW k, ReadUpto(g, bodies, n, c, k),
         offset >= Len(content)
  PROVE  /\ packets = SubSeq(sent, 1, Len(packets))
         /\ harm = "none" => packets = sent
<1>0. /\ Laid(g, bodies, n) /\ n \in Nat /\ bodies \in [1 .. n -> Bodies] /\ k \in 0 .. n
      /\ c \in 0 .. Len(g[n]) /\ content = SubSeq(g[n], 1, c)
      /\ harm = "none" => c = Len(g[n])
      /\ offset = Len(g[k]) /\ offset <= c /\ offset \in Nat
      /\ sent = Inner(bodies) /\ packets = SubSeq(sent, 1, k)
  BY DEF ReadUpto, Laid, TypeOK
<1>1. PICK F : F = g[n] /\ F \in Seq(Byte) /\ Len(F) \in Nat
  BY <1>0, LenProperties DEF Laid
<1>2. Len(content) = c /\ c \in Nat
  BY <1>0, <1>1, PrefixParts
<1>3. sent \in Seq(ReadPacket) /\ Len(sent) = n
  BY <1>0, InnerType
<1>4. Len(packets) = k
  <2>1. CASE k = n
    <3>1. packets = sent
      BY <1>0, <1>3, <2>1, SubSeqFull
    <3> QED  BY <1>3, <2>1, <3>1
  <2>2. CASE k # n
    <3>1. k \in Nat /\ k + 1 <= Len(sent)
      BY <1>0, <1>3, <2>2
    <3> QED  BY <1>0, <1>3, <3>1, PrefixGrows
  <2> QED  BY <2>1, <2>2
<1>5. ASSUME harm = "none"  PROVE packets = sent
  <2>1. ASSUME k # n  PROVE FALSE
    <3>1. k \in 0 .. n - 1
      BY <1>0, <2>1
    <3>2. PICK p : NextIs(p, g, bodies, n, k)
      BY <1>0, <3>1, NextPart, Zenon
    <3>3. /\ Len(p) \in Nat \ {0} /\ Len(g[k + 1]) = Len(g[k]) + Len(p)
          /\ Len(g[k + 1]) <= Len(g[n])
      BY <3>2, Zenon DEF NextIs
    <3>4. c = Len(g[n]) /\ offset = c
      BY <1>0, <1>2, <1>5
    <3> QED  BY <1>0, <1>2, <3>3, <3>4
  <2> QED  BY <1>0, <1>3, <2>1, SubSeqFull
<1> QED
  BY <1>0, <1>4, <1>5

\* At the start nothing was read.
LEMMA InitRead == Init => ReadInv
BY DEF Init, ReadInv

\* What was sent and what came of it stay; ReadInv is kept step by step.
LEMMA NextSending == Sending /\ [Next]_vars => Sending'
<1> SUFFICES ASSUME Sending, [Next]_vars  PROVE Sending'
  OBVIOUS
<1>1. UNCHANGED input
  BY DEF Next, vars, Plain, Inflated, Unpacked, DecompressFails, Rejected, NextPacket,
         PacketRejected, AllRead
<1>2. /\ SentPlain => SentPlain'
      /\ SentDeflated => SentDeflated'
      /\ SentSeveral => SentSeveral'
  BY <1>1, Zenon DEF input, SentPlain, SentDeflated, SentSeveral, ContentOf
<1> QED
  BY <1>1, <1>2 DEF Sending, input

LEMMA NextRead ==
  Fits /\ IInv /\ Sending /\ ReadInv /\ [Next]_vars => ReadInv'
<1> SUFFICES ASSUME Fits, IInv, Sending, ReadInv, [Next]_vars, harm' \in {"none", "cut"}
    PROVE  /\ pc' = "done" => /\ packets' = SubSeq(sent', 1, Len(packets'))
                              /\ harm' = "none" => packets' = sent'
           /\ pc' = "failed" => harm' # "none"
           /\ pc' = "multi" => (\E g, bodies, n, c, k : ReadUpto(g, bodies, n, c, k))'
  BY DEF ReadInv
<1>0. /\ UNCHANGED input /\ harm \in {"none", "cut"} /\ frame \in Seq(Byte)
      /\ TypeOK /\ IInv' /\ packets \in Seq(ReadPacket) /\ packets' \in Seq(ReadPacket)
  <2>1. UNCHANGED input
    BY DEF Next, vars, Plain, Inflated, Unpacked, DecompressFails, Rejected, NextPacket,
           PacketRejected, AllRead
  <2>2. IInv'
    BY NextInv
  <2> QED  BY <2>1, <2>2 DEF input, IInv, TypeOK, ReadPacket
<1>1. /\ harm = "none" => Accepted(frame)
      /\ Accepted(frame) => ReadAs("plain") \/ ReadAs("deflated") \/ ReadAs("several")
  BY <1>0, FrameRead, Zenon
<1>2. Accepted(frame) => \A then : Sliced(frame, then) = then
  BY <1>0, AcceptedPacket
\* A message that was one packet.
<1>d. ASSUME pc' = "done", sent = packets'
      PROVE  packets' = SubSeq(sent', 1, Len(packets')) /\ packets' = sent'
  <2>1. PICK x \in Seq(ReadPacket) : x = packets'
    BY <1>0
  <2>2. SubSeq(x, 1, Len(x)) = x
    BY SubSeqFull
  <2> QED  BY <1>0, <1>d, <2>1, <2>2 DEF input
<1>3. CASE Plain
  <2>1. Accepted(frame) /\ Version(frame) # 2 /\ Version(frame) # 3
        /\ packets' = <<PacketOf(frame, Body(frame))>> /\ pc' = Sliced(frame, "done")
    BY <1>3 DEF Plain
  <2>2. pc' = "done"
    BY <1>2, <2>1
  <2>3. sent = packets'
    BY <1>1, <2>1, Zenon DEF ReadAs
  <2> QED  BY <1>d, <2>2, <2>3
<1>4. CASE Inflated
  <2>1. Accepted(frame) /\ Version(frame) = 2
        /\ packets' = <<PacketOf(frame, content)>> /\ pc' = Sliced(frame, "done")
    BY <1>4 DEF Inflated, Compressed
  <2>2. pc' = "done"
    BY <1>2, <2>1
  <2>3. sent = packets'
    BY <1>1, <2>1 DEF ReadAs
  <2> QED  BY <1>d, <2>2, <2>3
<1>5. CASE Unpacked
  <2>1. /\ Accepted(frame) /\ Version(frame) = 3 /\ pc = "frame"
        /\ pc' = Sliced(frame, "multi") /\ UNCHANGED <<input, offset, packets>>
    BY <1>5 DEF Unpacked, Compressed
  <2>2. pc' = "multi" /\ offset = 0 /\ packets = <<>>
    BY <1>2, <2>1 DEF IInv, NothingReadYet
  <2>3. ReadAs("several")
    BY <1>1, <2>1 DEF ReadAs
  <2>4. PICK n \in Nat : \E bodies \in [1 .. n -> Bodies] : ContentOf(n, bodies)
    BY <2>3 DEF ReadAs
  <2>5. PICK bodies \in [1 .. n -> Bodies] : ContentOf(n, bodies)
    BY <2>4
  <2>6. PICK g, c : ReadUpto(g, bodies, n, c, 0)
    BY <2>2, <2>5, ReadStarts
  <2>7. ReadUpto(g, bodies, n, c, 0)'
    BY <2>1, <2>6, Zenon DEF ReadUpto, input
  <2> QED  BY <2>2, <2>7, Zenon
<1>6. CASE DecompressFails
  <2>1. Accepted(frame) /\ Version(frame) \in {2, 3} /\ Body(frame) # <<Version(frame)>>
    BY <1>6 DEF DecompressFails, Compressed
  <2> QED  BY <1>1, <2>1 DEF ReadAs
<1>7. CASE Rejected
  <2>1. ~Accepted(frame) /\ pc' = "failed"
    BY <1>7 DEF Rejected
  <2> QED  BY <1>0, <1>1, <2>1 DEF input
<1>8. CASE NextPacket
  <2>1. /\ pc = "multi" /\ offset < Len(content) /\ Accepted(Rest)
        /\ packets' = Append(packets, PacketOf(Rest, Body(Rest)))
        /\ offset' = offset + Total(Rest) /\ UNCHANGED <<frame, content, sent, harm>>
    BY <1>8 DEF NextPacket, input
  <2>2. PICK g, bodies, n, c, k : ReadUpto(g, bodies, n, c, k)
    BY <1>0, <2>1, Zenon DEF ReadInv
  <2>3. /\ k + 1 \in 1 .. n /\ PacketOf(Rest, Body(Rest)) = Inner(bodies)[k + 1]
        /\ offset + Total(Rest) = Len(g[k + 1]) /\ Len(g[k + 1]) <= c
    BY <1>0, <2>1, <2>2, ReadNext
  <2>4. /\ Laid(g, bodies, n) /\ n \in Nat /\ bodies \in [1 .. n -> Bodies] /\ k \in 0 .. n
        /\ c \in 0 .. Len(g[n]) /\ content = SubSeq(g[n], 1, c)
        /\ harm = "none" => c = Len(g[n])
        /\ sent = Inner(bodies) /\ packets = SubSeq(sent, 1, k)
    BY <2>2 DEF ReadUpto, Laid
  <2>5. packets' = SubSeq(sent, 1, k + 1)
    <3>1. sent \in Seq(ReadPacket) /\ Len(sent) = n
      BY <2>4, InnerType
    <3>2. k \in Nat /\ k + 1 <= Len(sent)
      BY <2>3, <2>4, <3>1
    <3>3. Append(SubSeq(sent, 1, k), sent[k + 1]) = SubSeq(sent, 1, k + 1)
      BY <3>1, <3>2, PrefixGrows
    <3> QED  BY <2>1, <2>3, <2>4, <3>3
  <2>6. PICK m : m = k + 1
    OBVIOUS
  <2>7. m \in 0 .. n /\ offset' = Len(g[m]) /\ offset' <= c /\ packets' = SubSeq(sent, 1, m)
    BY <2>1, <2>3, <2>4, <2>5, <2>6
  <2>8. ReadUpto(g, bodies, n, c, m)'
    BY <2>1, <2>4, <2>7, Zenon DEF ReadUpto
  <2>9. pc' = "multi"
    <3>1. Rest \in Seq(Byte)
      <4>1. /\ content \in Seq(Byte) /\ offset \in Nat /\ Len(content) \in Nat
        BY <1>0, LenProperties DEF TypeOK
      <4>2. \A i \in offset + 1 .. Len(content) : i \in 1 .. Len(content)
        BY <4>1
      <4>3. \A i \in offset + 1 .. Len(content) : content[i] \in Byte
        BY <4>1, <4>2, ElementOfSeq
      <4> QED  BY <4>1, <4>3, SubSeqProperties DEF Rest
    <3> QED  BY <1>8, <2>1, <3>1, AcceptedPacket DEF NextPacket
  <2> QED  BY <2>8, <2>9, Zenon
<1>9. CASE PacketRejected
  <2>1. /\ pc = "multi" /\ offset < Len(content) /\ ~Accepted(Rest) /\ pc' = "failed"
    BY <1>9 DEF PacketRejected
  <2>2. PICK g, bodies, n, c, k : ReadUpto(g, bodies, n, c, k)
    BY <1>0, <2>1, Zenon DEF ReadInv
  <2>3. harm # "none"
    BY <1>0, <2>1, <2>2, ReadNext
  <2> QED  BY <1>0, <2>1, <2>3 DEF input
<1>10. CASE AllRead
  <2>1. /\ pc = "multi" /\ offset >= Len(content) /\ pc' = "done"
        /\ UNCHANGED <<sent, harm, packets>>
    BY <1>10 DEF AllRead, input
  <2>2. PICK g, bodies, n, c, k : ReadUpto(g, bodies, n, c, k)
    BY <1>0, <2>1, Zenon DEF ReadInv
  <2>3. packets = SubSeq(sent, 1, Len(packets)) /\ (harm = "none" => packets = sent)
    BY <1>0, <2>1, <2>2, ReadEnds
  <2> QED  BY <2>1, <2>3
<1>11. CASE UNCHANGED vars
  <2>1. UNCHANGED <<frame, content, sent, harm, pc, offset, packets>>
    BY <1>11 DEF vars, input
  <2>2. ASSUME NEW g, NEW bodies, NEW n, NEW c, NEW k, ReadUpto(g, bodies, n, c, k)
        PROVE  ReadUpto(g, bodies, n, c, k)'
    BY <2>1, <2>2, Zenon DEF ReadUpto
  <2>3. pc' = "multi" => (\E g, bodies, n, c, k : ReadUpto(g, bodies, n, c, k))'
    BY <1>0, <2>1, <2>2, SMTT(60) DEF ReadInv
  <2> QED  BY <1>0, <2>1, <2>3 DEF ReadInv
<1> QED
  BY <1>3, <1>4, <1>5, <1>6, <1>7, <1>8, <1>9, <1>10, <1>11, Zenon DEF Next

\* When every length fits in the 32 bits the header has for it: a message that nothing
\* happened to is never refused and yields exactly the packets it was built from, all
\* packets of a compressed body in their order; and one that was cut short, outside or
\* inside, yields packets that were sent, or nothing.
THEOREM FramesArrive ==
  ASSUME Fits
  PROVE  Spec => []FramesArriveWhole
<1>1. Init => IInv /\ Sending /\ ReadInv
  BY InitInv, InitSending, InitRead
<1>2. IInv /\ Sending /\ ReadInv /\ [Next]_vars => (IInv /\ Sending /\ ReadInv)'
  BY NextInv, NextSending, NextRead
<1>3. ReadInv => FramesArriveWhole
  BY DEF ReadInv, FramesArriveWhole
<1> QED
  BY <1>1, <1>2, <1>3, PTL DEF Spec

=============================================================================
