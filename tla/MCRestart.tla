------------------------------ MODULE MCRestart ------------------------------
(***************************************************************************)
(* A small instance of Restarts: two packets sent during the first start,  *)
(* of which the second can be paid only without the first, one sent during *)
(* the second, and texts sealed elsewhere, with a date in words, for the   *)
(* second start's key and for the third's.                                 *)
(***************************************************************************)
EXTENDS Restarts

CONSTANTS alice, bridge, cPay, cLarge, cNext, cWords, cLast,
          InWords   \* a signedAt such as "2026-01-01": no comparison refuses it

MCDeviceOrder == <<alice, bridge>>

MCSeedBalance == [v \in {"alice", "bob"} |-> IF v = "alice" THEN 3 ELSE 1]

Pay(paise, signedAt) ==
  [senderVpa |-> "alice", receiverVpa |-> "bob",
   amount |-> [paise |-> paise, frac |-> "none"], signedAt |-> signedAt]

MCInstructionOf ==
  [k \in Keys |-> [c \in Hashes |->
     CASE k = 1 /\ c = cPay   -> Pay(2, 0)
       [] k = 1 /\ c = cLarge -> Pay(3, 0)
       [] k = 2 /\ c = cNext  -> Pay(2, 1)
       [] k = 2 /\ c = cWords -> Pay(3, InWords)
       [] k = 3 /\ c = cLast  -> Pay(2, InWords)
       [] OTHER -> None]]

MCInstructions == {MCInstructionOf[k][c] : k \in Keys, c \in Hashes} \ {None}
=============================================================================
