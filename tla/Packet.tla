-------------------------------- MODULE Packet --------------------------------
(***************************************************************************)
(* Taking a WebSocket message apart (src/packet.rs).                       *)
(*                                                                         *)
(* A packet is a header of sixteen bytes or more (its total length, the    *)
(* length of the header, a version, an operation and a sequence number)    *)
(* and a body.  parse_packet reads one packet; a body of version 3 is      *)
(* decompressed and parse_multi_packet reads the packets in it one after   *)
(* the other.  Every length comes from the network: a message may be cut   *)
(* short or carry bytes that no sender meant, outside or, since the        *)
(* decompressor checks no lengths of ours, inside.                         *)
(*                                                                         *)
(* The decompressors belong to the environment: a compressed body is the   *)
(* single byte that names its version, and what it stands for is content.  *)
(***************************************************************************)
EXTENDS Naturals, Sequences, SequencesExt

CONSTANTS
  Bodies,    \* the bodies of the packets sent
  MaxInner,  \* bound: the packets in one compressed body
  Noise      \* the bytes a fault writes

Byte == 0 .. 255

ASSUME PacketAssumption ==
  /\ Bodies \subseteq Seq(Byte)
  /\ MaxInner \in Nat
  /\ Noise \subseteq Byte

VARIABLES
  frame,    \* buf of parse_packet: the message
  content,  \* what its compressed body decompresses to
  pc,       \* where the parser is
  offset,   \* offset of parse_multi_packet
  packets,  \* the packets read so far
  sent,     \* history: the packets that were sent
  harm      \* history: what happened to them on the way

input == <<frame, content, sent, harm>>
vars == <<input, pc, offset, packets>>

HeaderMinSize == 16

-----------------------------------------------------------------------------
(* Numbers in network byte order. *)

U16(b, i) == 256 * b[i] + b[i + 1]
U32(b, i) == 65536 * U16(b, i) + U16(b, i + 2)

PutU16(n) == <<(n \div 256) % 256, n % 256>>
PutU32(n) == PutU16(n \div 65536) \o PutU16(n % 65536)

\* Mutant: the total length leaves out the header.
BuildWithoutHeader(version, opcode, body) ==
  PutU32(Len(body)) \o PutU16(HeaderMinSize) \o PutU16(version)
    \o PutU32(opcode) \o PutU32(1) \o body

BuildPacket(version, opcode, body) ==
  PutU32(HeaderMinSize + Len(body)) \o PutU16(HeaderMinSize) \o PutU16(version)
    \o PutU32(opcode) \o PutU32(1) \o body

Total(b)   == U32(b, 1)
Size(b)    == U16(b, 5)
Version(b) == U16(b, 7)
Opcode(b)  == U32(b, 9)

\* Mutant: a header may be shorter than sixteen bytes.
HeaderOkShort(b) == Len(b) >= HeaderMinSize /\ Size(b) <= Total(b)

\* Mutant: the header is not compared with the whole.
HeaderOkLong(b) == Len(b) >= HeaderMinSize /\ Size(b) >= HeaderMinSize

\* parse_header: b has room for a header whose lengths make sense.
HeaderOk(b) ==
  /\ Len(b) >= HeaderMinSize
  /\ Size(b) >= HeaderMinSize /\ Size(b) <= Total(b)

\* The whole packet has come.
Accepted(b) == HeaderOk(b) /\ Len(b) >= Total(b)

\* &buf[header_size..total_size] panics unless the slice lies in the buffer.
Sliced(b, then) ==
  IF Size(b) <= Total(b) /\ Total(b) <= Len(b) THEN then ELSE "panicked"

Body(b) == SubSeq(b, Size(b) + 1, Total(b))

PacketOf(b, body) == [version |-> Version(b), opcode |-> Opcode(b), body |-> body]

-----------------------------------------------------------------------------
(* The messages of the platform. *)

\* One fault: nothing, the end is missing, or up to two bytes are others.
CutShort(s) == {SubSeq(s, 1, n) : n \in 0 .. Len(s) - 1}
Changed(s)  ==
  {[s EXCEPT ![i] = v, ![k] = w] : i, k \in DOMAIN s, v, w \in Noise}

Harmed(s, h) ==
  CASE h = "none" -> {s} [] h = "cut" -> CutShort(s) [] h = "changed" -> Changed(s)

\* SendMsgReply
SendMsgReply == 5

Inner(bodies) ==
  [i \in DOMAIN bodies |-> [version |-> 0, opcode |-> SendMsgReply, body |-> bodies[i]]]

\* The packets one behind the other.
Joined(bodies) ==
  FlattenSeq([i \in DOMAIN bodies |-> BuildPacket(0, SendMsgReply, bodies[i])])

\* A plain packet, one whose body is compressed with zlib, or several in a body
\* compressed with brotli; the fault hits the message or what was compressed.
\* All of it is bytes (&[u8]).
Init ==
  /\ harm \in {"none", "cut", "changed"}
  /\ \/ \E v \in {0, 1}, body \in Bodies :
          /\ sent = <<[version |-> v, opcode |-> SendMsgReply, body |-> body]>>
          /\ frame \in Harmed(BuildPacket(v, SendMsgReply, body), harm)
          /\ content = <<>>
     \/ \E body \in Bodies :
          /\ sent = <<[version |-> 2, opcode |-> SendMsgReply, body |-> body]>>
          /\ frame \in Harmed(BuildPacket(2, SendMsgReply, <<2>>), harm)
          /\ content = body
     \/ \E n \in 0 .. MaxInner : \E bodies \in [1 .. n -> Bodies] :
          LET whole == BuildPacket(3, SendMsgReply, <<3>>) IN
          /\ sent = Inner(bodies)
          /\ \/ frame \in Harmed(whole, harm) /\ content = Joined(bodies)
             \/ frame = whole /\ content \in Harmed(Joined(bodies), harm)
  /\ frame \in Seq(Byte) /\ content \in Seq(Byte)
  /\ pc = "frame" /\ offset = 0 /\ packets = <<>>

-----------------------------------------------------------------------------
(* parse_packet. *)

Plain ==
  /\ pc = "frame" /\ Accepted(frame) /\ Version(frame) \notin {2, 3}
  /\ packets' = <<PacketOf(frame, Body(frame))>>
  /\ pc' = Sliced(frame, "done")
  /\ UNCHANGED <<input, offset>>

\* A body the decompressor of this version made.
Compressed(version) == Version(frame) = version /\ Body(frame) = <<version>>

\* decompress_zlib: the body becomes the content, in one packet.
Inflated ==
  /\ pc = "frame" /\ Accepted(frame) /\ Compressed(2)
  /\ packets' = <<PacketOf(frame, content)>>
  /\ pc' = Sliced(frame, "done")
  /\ UNCHANGED <<input, offset>>

\* decompress_brotli: the packets in the content come next.
Unpacked ==
  /\ pc = "frame" /\ Accepted(frame) /\ Compressed(3)
  /\ pc' = Sliced(frame, "multi")
  /\ UNCHANGED <<input, offset, packets>>

DecompressFails ==
  /\ pc = "frame" /\ Accepted(frame)
  /\ Version(frame) \in {2, 3} /\ ~Compressed(Version(frame))
  /\ pc' = Sliced(frame, "failed")
  /\ UNCHANGED <<input, offset, packets>>

Rejected ==
  /\ pc = "frame" /\ ~Accepted(frame)
  /\ pc' = "failed"
  /\ UNCHANGED <<input, offset, packets>>

-----------------------------------------------------------------------------
(* parse_multi_packet. *)

Rest == SubSeq(content, offset + 1, Len(content))

\* One packet is read; compression has one level only.
NextPacket ==
  /\ pc = "multi" /\ offset < Len(content) /\ Accepted(Rest)
  /\ packets' = Append(packets, PacketOf(Rest, Body(Rest)))
  /\ offset' = offset + Total(Rest)
  /\ pc' = Sliced(Rest, "multi")
  /\ UNCHANGED input

\* A bad length: the whole message is given up, the packets before it as well.
PacketRejected ==
  /\ pc = "multi" /\ offset < Len(content) /\ ~Accepted(Rest)
  /\ pc' = "failed" /\ packets' = <<>>
  /\ UNCHANGED <<input, offset>>

AllRead ==
  /\ pc = "multi" /\ offset >= Len(content)
  /\ pc' = "done"
  /\ UNCHANGED <<input, offset, packets>>

Next ==
  \/ Plain \/ Inflated \/ Unpacked \/ DecompressFails \/ Rejected
  \/ NextPacket \/ PacketRejected \/ AllRead

Spec == Init /\ [][Next]_vars

-----------------------------------------------------------------------------
(* Properties. *)

\* Every variable keeps its type.
TypeOK ==
  /\ frame \in Seq(Byte) /\ content \in Seq(Byte)
  /\ pc \in {"frame", "multi", "done", "failed", "panicked"}
  /\ offset \in Nat
  /\ packets \in Seq([version : Nat, opcode : Nat, body : Seq(Byte)])

\* Whatever lengths a message claims, inside and out, no slice leaves its buffer:
\* a panic would end the monitoring task.
NeverPanics == pc # "panicked"

\* Every packet read takes at least a header of the input, so the loop of
\* parse_multi_packet ends and its result is bounded by the input.
EveryPacketAdvances ==
  pc = "multi" => HeaderMinSize * Len(packets) <= offset /\ offset <= Len(content)

\* What was built arrives as it was built, all packets of a compressed body in
\* order; of a message that was cut short nothing is made up: it is refused, or
\* what is read was sent.
FramesArriveWhole ==
  /\ harm = "none" => pc # "failed" /\ (pc = "done" => packets = sent)
  /\ harm = "cut" /\ pc = "done" => packets = SubSeq(sent, 1, Len(packets))

=============================================================================
