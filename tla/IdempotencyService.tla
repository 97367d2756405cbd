------------------------- MODULE IdempotencyService -------------------------
(***************************************************************************)
(* The duplicate gate of src/services/idempotencyService.js: a map from    *)
(* packet hash to the time it was claimed, emptied of old entries by a     *)
(* timer.  The clock is Date.now(), in a unit left open; it does not go    *)
(* back, and MaxTime bounds it for model checking.                         *)
(***************************************************************************)
EXTENDS Integers

CONSTANTS TtlSeconds,  \* how long a claim is kept
          MaxTime      \* bound on the clock, for model checking only

ASSUME TimesAreNat == TtlSeconds \in Nat /\ MaxTime \in Nat

VARIABLES seen,        \* packet hash -> time of the claim, for the claimed ones
          now          \* Date.now()

gateVars == <<seen, now>>

\* Nothing seen, at any time of day.
GateInit == seen = [h \in {} |-> 0] /\ now = 0

\* Mutant: a gate that lets everything pass.
NeverClaimed(hash) == FALSE

Claimed(hash) == hash \in DOMAIN seen

\* Mutant: the time the claim ends is stored.
ClaimUntil(hash) ==
  seen' = [h \in DOMAIN seen \cup {hash} |->
             IF h = hash THEN now + TtlSeconds ELSE seen[h]]

\* claim() of a hash not seen; a second claim() changes nothing.
Claim(hash) ==
  seen' = [h \in DOMAIN seen \cup {hash} |-> IF h = hash THEN now ELSE seen[h]]

\* Mutants: the boundary, and milliseconds taken for seconds.
ExpiredAtTtl(hash) == seen[hash] <= now - TtlSeconds

ExpiredInMillis(hash) == seen[hash] < now - TtlSeconds * 1000

Expired(hash) == seen[hash] < now - TtlSeconds

EvictExpired == seen' = [h \in {k \in DOMAIN seen : ~Expired(k)} |-> seen[h]]

Clear == seen' = [h \in {} |-> 0]

Tick == now < MaxTime /\ now' = now + 1
=============================================================================
