------------------------------- MODULE Ledger -------------------------------
(***************************************************************************)
(* What the settlement engine promises, with no transaction, version,      *)
(* snapshot or row id in sight: a payment is either transferred, in one    *)
(* step that takes from one account what it gives to another and never     *)
(* more than the first one has, or refused; and the payment of a packet    *)
(* hash is decided once, for ever.                                         *)
(***************************************************************************)
EXTENDS Integers

CONSTANTS SeedBalance,  \* the balance of each account at start-up
          Hashes        \* packet hashes

VARIABLES balance,      \* account -> paise
          payments,     \* the transfers made
          refused       \* the hashes refused

vars == <<balance, payments, refused>>

Decided == {p.packetHash : p \in payments} \cup refused

Init == balance = SeedBalance /\ payments = {} /\ refused = {}

Transfer(h, s, r, x) ==
  /\ h \notin Decided
  /\ s # r
  /\ 0 <= x /\ x <= balance[s]
  /\ balance' = [balance EXCEPT ![s] = @ - x, ![r] = @ + x]
  /\ payments' = payments \cup
       {[packetHash |-> h, senderVpa |-> s, receiverVpa |-> r, amount |-> x]}
  /\ UNCHANGED refused

Refuse(h) ==
  /\ h \notin Decided
  /\ refused' = refused \cup {h}
  /\ UNCHANGED <<balance, payments>>

Decide(h) ==
  \/ Refuse(h)
  \/ \E s, r \in DOMAIN SeedBalance : \E x \in 0..balance[s] : Transfer(h, s, r, x)

Next == \E h \in Hashes : Decide(h)

Spec == Init /\ [][Next]_vars
=============================================================================
