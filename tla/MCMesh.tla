------------------------------- MODULE MCMesh -------------------------------
(***************************************************************************)
(* The five phones' mesh with four: a sender, a stranger and two bridges.   *)
(* Packet ids are random and only compared: which is which does not matter. *)
(***************************************************************************)
EXTENDS MeshSimulator, TLC

CONSTANTS alice, stranger, bridge1, bridge2

MCDeviceOrder == <<alice, stranger, bridge1, bridge2>>

PacketSymmetry == Permutations(Packets)
=============================================================================
