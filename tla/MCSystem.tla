------------------------------ MODULE MCSystem ------------------------------
(***************************************************************************)
(* A small instance of OfflinePayments: two phones, bridges both, a        *)
(* payment from Alice to Bob and one from Bob to himself.  Before the      *)
(* first one the second is rejected for lack of funds, after it its        *)
(* settlement throws: the order of the uploads shows in the answers.  A    *)
(* text that is no packet of the mesh may be uploaded at any time: the     *)
(* first payment in another spelling, which spends Alice's money before    *)
(* the packet does or after it.                                            *)
(***************************************************************************)
EXTENDS OfflinePayments

CONSTANTS bridge1, bridge2, cPay, cSelf, cRespelled

MCDeviceOrder == <<bridge1, bridge2>>

MCSeedBalance == [v \in {"alice", "bob"} |-> IF v = "alice" THEN 3 ELSE 1]

Pay(s, r, paise, signedAt) ==
  [senderVpa |-> s, receiverVpa |-> r, amount |-> [paise |-> paise, frac |-> "none"],
   signedAt |-> signedAt]

Sealed ==
  [c \in Hashes |-> CASE c \in {cPay, cRespelled} -> Pay("alice", "bob", 2, 0)
                      [] c = cSelf -> Pay("bob", "bob", 2, 0)]

MCInstructionOf == [k \in Keys |-> Sealed]

MCInstructions == {Sealed[c] : c \in Hashes}
=============================================================================
