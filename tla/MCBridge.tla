------------------------------ MODULE MCBridge ------------------------------
(***************************************************************************)
(* Small instances of BridgeIngestion.  A ciphertext stands for what is in *)
(* it; the clock counts coarse units, and an instruction may be one unit   *)
(* in the future.                                                          *)
(***************************************************************************)
EXTENDS BridgeIngestion

CONSTANTS cPay, cPoor, cUndated, cFuture

MCSeedBalance == [v \in {"alice", "bob"} |-> IF v = "alice" THEN 3 ELSE 1]

Pay(s, r, paise, signedAt) ==
  [senderVpa |-> s, receiverVpa |-> r, amount |-> [paise |-> paise, frac |-> "none"],
   signedAt |-> signedAt]

\* What decrypt() makes of each text: cPoor has too little unless cPay came first,
\* cFuture is too early for a while, and cUndated, which has no signedAt, is never
\* too old but makes settle() throw after both accounts are saved.
Sealed ==
  [c \in Hashes |->
     CASE c = cPay     -> Pay("alice", "bob", 2, 0)
       [] c = cPoor    -> Pay("bob", "alice", 2, 1)
       [] c = cUndated -> [Pay("alice", "bob", 1, 0) EXCEPT !.signedAt = None]
       [] c = cFuture  -> Pay("alice", "bob", 1, 3)]

MCInstructionOf == [k \in Keys |-> Sealed]

MCInstructions == {Sealed[c] : c \in Hashes}
=============================================================================
