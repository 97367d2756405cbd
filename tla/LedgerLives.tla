----------------------------- MODULE LedgerLives -----------------------------
(***************************************************************************)
(* What the settlement engine promises when the program may stop and start *)
(* anew at any time: it forgets the whole ledger at once, and whatever it  *)
(* had decided stays undecided from then on.                               *)
(***************************************************************************)
EXTENDS Ledger

VARIABLE retired  \* the hashes of which no payment will be decided any more

lives == <<balance, payments, refused, retired>>

InitLives == Init /\ retired = {}

DecideInLife(h) == h \notin retired /\ Decide(h) /\ UNCHANGED retired

LoseAll ==
  /\ balance' = SeedBalance /\ payments' = {} /\ refused' = {}
  /\ retired \cup Decided \subseteq retired'

NextLives == (\E h \in Hashes : DecideInLife(h)) \/ LoseAll

SpecLives == InitLives /\ [][NextLives]_lives
=============================================================================
