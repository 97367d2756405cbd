------------------------------ MODULE MCCrypto ------------------------------
(***************************************************************************)
(* Small instances of HybridCrypto: a payment of two bytes, a text that is *)
(* no JSON, two keys and two sealings of everything; a text as encrypt()   *)
(* writes it or, say, with its lines wrapped.                              *)
(***************************************************************************)
EXTENDS HybridCrypto

CONSTANTS pay, noJson, canonical, wrapped

MCSize == [p \in Plaintexts |-> IF p = pay THEN 2 ELSE 1]

MCParsed == [p \in Plaintexts |-> IF p = pay THEN p ELSE None]
=============================================================================
