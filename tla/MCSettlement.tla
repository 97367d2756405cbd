---------------------------- MODULE MCSettlement ----------------------------
(***************************************************************************)
(* Small instances of SettlementService: three accounts, of which one is   *)
(* poor, and one instruction per way settle() can go.                      *)
(***************************************************************************)
EXTENDS SettlementInvariant

MCSeedBalance == [v \in {"alice", "bob", "carol"} |->
                    CASE v = "alice" -> 3 [] v = "bob" -> 1 [] v = "carol" -> 0]

Pay(s, r, paise, frac) ==
  [senderVpa |-> s, receiverVpa |-> r, amount |-> [paise |-> paise, frac |-> frac],
   signedAt |-> 0]

\* Amounts in whole paise, or a fraction away from the half.
MCInstructions ==
  {Pay("alice", "bob", 2, "none"), Pay("bob", "carol", 1, "high"),
   Pay("bob", "alice", 2, "low"),  Pay("alice", "alice", 1, "none"),
   Pay("carol", "bob", 0, "low"),  Pay("carol", "mallory", 1, "none"),
   Pay("alice", "carol", 0, "none"),
   [Pay("alice", "carol", 1, "none") EXCEPT !.signedAt = None]}

\* An amount of half a paisa, given as a string.
MCHalfPaisa == {Pay("alice", "bob", 0, "half"), Pay("bob", "alice", 1, "none")}
=============================================================================
