--------------------------- MODULE BridgeIngestion ---------------------------
(***************************************************************************)
(* BridgeIngestionService.ingest(): what the server does with a packet a   *)
(* bridge phone uploads.  It hashes the ciphertext text, claims the hash   *)
(* at the gate, decrypts, checks freshness and settles.                    *)
(*                                                                         *)
(* Node runs a handler to its end before the next one starts: stage is     *)
(* "idle" between handlers, and the eviction timer and the reset button    *)
(* run only then.  The clock runs whatever the program does, so the time   *)
(* ingest() reads at the gate and at the freshness check may differ.       *)
(*                                                                         *)
(* A ciphertext and its SHA-256 are one value here: the hash is injective. *)
(* InstructionOf is not: hashing works on the Base64 text and decryption   *)
(* on the bytes it decodes to, so one instruction may have several texts.  *)
(*                                                                         *)
(* Each start of the program makes a key pair of its own (ServerKeyHolder, *)
(* kept nowhere but in memory); a key is the number of the start.  What is *)
(* sealed for one opens with no other: HybridCrypto has the reason.        *)
(***************************************************************************)
EXTENDS SettlementService, IdempotencyService

CONSTANTS MaxStarts,          \* bound on the starts, for model checking only
          InstructionOf,      \* what decrypt() makes, with the private key of a start,
                              \* of a ciphertext; None if it throws
          MaxAgeSeconds,      \* how old an instruction may be
          ClockSkewTolerance  \* how far in the future it may be dated

Keys == 1..MaxStarts

ASSUME BridgeConstants ==
  /\ MaxStarts \in Nat \ {0}
  /\ InstructionOf \in [Keys -> [Hashes -> Instructions \cup {None}]]
  /\ MaxAgeSeconds \in Nat /\ ClockSkewTolerance \in Nat

ASSUME OneKeyOpens ==
  \A c \in Hashes, k, l \in Keys :
    InstructionOf[k][c] # None /\ InstructionOf[l][c] # None => k = l

VARIABLES serverKey,  \* the key pair of ServerKeyHolder
          stage,      \* where ingest() is
          ciphertext, \* the one it was called with
          response    \* the last IngestResult, or None

handlerVars == <<stage, ciphertext, response>>
bridgeVars == <<accounts, transactions, txPacketHashes, nextTxId, snapshot,
                pc, instruction, packetHash, sender, receiver,
                seen, now, serverKey, stage, ciphertext, response>>

Result(outcome, hash, reason, txId) ==
  [outcome |-> outcome, packetHash |-> hash, reason |-> reason, transactionId |-> txId]

BridgeInit ==
  /\ SettlementInit /\ GateInit
  /\ serverKey = 1
  /\ stage = "idle" /\ ciphertext = None /\ response = None

-----------------------------------------------------------------------------

\* ingest() answers and the event loop is free again.
Answer(result) == stage' = "idle" /\ ciphertext' = None /\ response' = result

\* Steps 1 and 2: a bridge uploads c, which was seen before ...
DropDuplicate(c) ==
  /\ stage = "idle" /\ Claimed(c)
  /\ Answer(Result("DUPLICATE_DROPPED", c, None, None))
  /\ UNCHANGED <<settlementVars, gateVars, serverKey>>

\* ... or was not: its hash is claimed and the handler goes on.
PassGate(c) ==
  /\ stage = "idle" /\ ~Claimed(c)
  /\ Claim(c)
  /\ stage' = "decrypt" /\ ciphertext' = c /\ response' = None
  /\ UNCHANGED <<settlementVars, now, serverKey>>

\* What decrypt() makes of c now.
Decrypted(c) == InstructionOf[serverKey][c]

\* Step 3: decrypt() throws or yields the instruction.
Decrypt ==
  /\ stage = "decrypt"
  /\ IF Decrypted(ciphertext) = None
     THEN Answer(Result("INVALID", ciphertext, "decryption_failed", None))
     ELSE stage' = "freshness" /\ UNCHANGED <<ciphertext, response>>
  /\ UNCHANGED <<settlementVars, gateVars, serverKey>>

\* signedAt may also be missing (None), or a date in words that Date can read.
IsEpoch(signedAt) == signedAt \in Nat

\* Mutant: the skew is tolerated on both sides.
StaleWithSkew(ins) ==
  IsEpoch(ins.signedAt) /\ now - ins.signedAt > MaxAgeSeconds + ClockSkewTolerance

\* Otherwise the age is NaN and neither comparison holds.
Stale(ins) == IsEpoch(ins.signedAt) /\ now - ins.signedAt > MaxAgeSeconds

FutureDated(ins) ==
  IsEpoch(ins.signedAt) /\ now - ins.signedAt < -ClockSkewTolerance

\* Step 4, refusing.
RefuseUntimely ==
  LET ins == Decrypted(ciphertext) IN
  /\ stage = "freshness"
  /\ \/ Stale(ins) /\ Answer(Result("INVALID", ciphertext, "stale_packet", None))
     \/ ~Stale(ins) /\ FutureDated(ins)
        /\ Answer(Result("INVALID", ciphertext, "future_dated", None))
  /\ UNCHANGED <<settlementVars, gateVars, serverKey>>

\* Step 4 passed, step 5 entered.
CallSettle ==
  LET ins == Decrypted(ciphertext) IN
  /\ stage = "freshness"
  /\ ~Stale(ins) /\ ~FutureDated(ins)
  /\ Settle(ins, ciphertext)
  /\ stage' = "settle"
  /\ UNCHANGED <<ciphertext, response, gateVars, serverKey>>

InSettle == SettlementStep /\ UNCHANGED <<gateVars, serverKey, handlerVars>>

\* Mutant: the answer names the next row instead of the one just written.
AnswerWithNextId ==
  /\ stage = "settle"
  /\ Return
  /\ Answer(IF pc = "returned"
            THEN Result("SETTLED", ciphertext, None, nextTxId)
            ELSE Result("INVALID", None, "internal_error", None))
  /\ UNCHANGED <<gateVars, serverKey>>

\* settle() returned a row, or threw and the outer catch answers for it.
AnswerSettled ==
  /\ stage = "settle"
  /\ Return
  /\ Answer(IF pc = "returned"
            THEN Result("SETTLED", ciphertext, None, transactions[Len(transactions)].id)
            ELSE Result("INVALID", None, "internal_error", None))
  /\ UNCHANGED <<gateVars, serverKey>>

HandlerStep == Decrypt \/ RefuseUntimely \/ CallSettle \/ InSettle \/ AnswerSettled

\* The 60 s timer.
EvictionTimer ==
  /\ stage = "idle" /\ EvictExpired
  /\ UNCHANGED <<settlementVars, now, serverKey, handlerVars>>

\* POST /api/mesh/reset, its server half.
Reset ==
  /\ stage = "idle" /\ Clear
  /\ UNCHANGED <<settlementVars, now, serverKey, handlerVars>>

\* A handler takes milliseconds, so the clock's unit turns at most once during it.
TimePasses ==
  /\ stage # "idle" => now = seen[ciphertext]
  /\ Tick
  /\ UNCHANGED <<settlementVars, seen, serverKey, handlerVars>>

\* The server as phones see it, and with the demo's reset button.
ServerNext ==
  \/ \E c \in Hashes : DropDuplicate(c) \/ PassGate(c)
  \/ HandlerStep
  \/ EvictionTimer
  \/ TimePasses

BridgeNext == ServerNext \/ Reset

BridgeSpec == BridgeInit /\ [][BridgeNext]_bridgeVars

(***************************************************************************)
(* Fairness.  A handler is synchronous code and time passes.  The timer    *)
(* competes with requests for the event loop, which never favours one for  *)
(* ever: strong fairness.  No request is ever promised to come.            *)
(***************************************************************************)
BridgeFairness ==
  /\ WF_bridgeVars(HandlerStep)
  /\ WF_bridgeVars(TimePasses)
  /\ SF_bridgeVars(EvictionTimer)

ServerSpec == BridgeInit /\ [][ServerNext]_bridgeVars

FairBridgeSpec == BridgeSpec /\ BridgeFairness

-----------------------------------------------------------------------------

\* Where the handler, the call of settle() and the gate are to each other.
HandlerInv ==
  /\ serverKey \in Keys
  /\ now \in 0..MaxTime
  /\ DOMAIN seen \subseteq Hashes
  /\ \A h \in DOMAIN seen : seen[h] \in 0..now
  /\ stage \in {"idle", "decrypt", "freshness", "settle"}
  /\ stage = "settle" <=> pc # "idle"
  /\ stage # "idle" => ciphertext \in DOMAIN seen /\ response = None
  /\ stage \in {"freshness", "settle"} => Decrypted(ciphertext) # None
  /\ stage = "settle" => packetHash = ciphertext /\ instruction = Decrypted(ciphertext)

\* The type invariant: settle() is active exactly when the handler called it, and
\* then with the packet the handler has.
BridgeTypeOK == SettlementTypeOK /\ HandlerInv

\* config.js: "Any duplicate packet received within 24 hours of the first delivery
\* is dropped".  Nothing but the reset button, no eviction and no second delivery,
\* removes or renews a claim before its time is up.
ClaimOutlivesWindow ==
  [][ServerNext =>
       \A h \in DOMAIN seen :
         now' <= seen[h] + TtlSeconds
           => h \in DOMAIN seen' /\ seen'[h] = seen[h]]_bridgeVars

SettledAnswer(c) ==
  response # None /\ response.outcome = "SETTLED" /\ response.packetHash = c

\* A bridge that is told SETTLED is told of the ledger row of its own packet.
SettledAnswerHasRow ==
  \A c \in Hashes : SettledAnswer(c) =>
    \E i \in 1..Len(transactions) :
      transactions[i].id = response.transactionId /\ transactions[i].packetHash = c

\* README: "the payment settles exactly once".  Of all the deliveries of a packet,
\* before and after evictions and resets, at most one is answered SETTLED: once the
\* packet has a row and its answer is gone, no other delivery gets that answer.  A
\* packet is its ciphertext text: the same bytes spelled otherwise are another one.
OneSettledAnswer ==
  \A c \in Hashes :
    []( /\ stage = "idle" /\ c \in txPacketHashes /\ ~SettledAnswer(c)
        => []~SettledAnswer(c) )

\* bridgeIngestionService.js: "SETTLED": Transaction succeeded, funds transferred,
\* ledger recorded.
SettledMeansTransferred ==
  \A c \in Hashes : SettledAnswer(c) =>
    \E i \in 1..Len(transactions) :
      transactions[i].packetHash = c /\ transactions[i].status = "SETTLED"

\* README: "Concurrent or subsequent requests receive `false` and are immediately
\* short-circuited as `DUPLICATE_DROPPED`".  No delivery of a packet that has its
\* row gets as far as settle().
OnlyFirstDeliverySettles == pc = "verify" => packetHash \notin txPacketHashes

\* Nothing about the instruction itself stands in the way of its payment now.
Payable(ins) ==
  /\ ins.signedAt # None /\ ~Stale(ins) /\ ~FutureDated(ins)
  /\ ins.senderVpa \in Accounts /\ ins.receiverVpa \in Accounts
  /\ ins.senderVpa # ins.receiverVpa /\ IsPositive(ins.amount)

\* bridgeIngestionService.js: "DUPLICATE_DROPPED": Another bridge node already
\* delivered this packet; safely ignored.  What is dropped as a duplicate either
\* has its row or could not be paid anyway.
DroppedIsSafelyIgnored ==
  [][\A c \in Hashes :
       DropDuplicate(c) /\ Decrypted(c) # None /\ Payable(Decrypted(c))
         => c \in txPacketHashes]_bridgeVars

\* An instruction with a numeric date that reaches the ledger was signed no longer than
\* MaxAgeSeconds before its delivery and is no further in the future than the tolerated
\* skew.  One that has no date, or a date in words, gets there at any time: its age is
\* NaN, which no comparison refuses.
OnlyTimelySettles ==
  pc # "idle" /\ IsEpoch(instruction.signedAt) =>
    /\ seen[packetHash] - instruction.signedAt <= MaxAgeSeconds
    /\ now - instruction.signedAt >= -ClockSkewTolerance

\* "so memory does not grow infinitely": a claim whose time is up is removed.
ClaimsAreEvicted ==
  \A h \in Hashes, t \in 0..(MaxTime - TtlSeconds - 1) :
    (h \in DOMAIN seen /\ seen[h] = t) ~> ~(h \in DOMAIN seen /\ seen[h] = t)
=============================================================================
