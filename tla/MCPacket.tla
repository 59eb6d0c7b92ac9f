------------------------------- MODULE MCPacket -------------------------------
(* Packet on bodies of up to two bytes and bytes small enough for TLC's integers. *)
EXTENDS Packet

ShortBodies == {<<>>, <<7>>, <<0, 16>>}
=============================================================================
