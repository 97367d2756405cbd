---------------------------- MODULE BridgeProofs ----------------------------
(***************************************************************************)
(* What is proved of ingest() for every set of ciphertexts, every clock    *)
(* bound and every TTL, any number of deliveries, evictions and resets:    *)
(* that it uses settle() as SettlementSpec has it used, how long claims    *)
(* last, and what its answers say of the ledger.                           *)
(***************************************************************************)
EXTENDS SettlementProofs, BridgeIngestion

\* A step of settle() other than its return leaves it active, its parameters alone.
LEMMA SettlementStepStaysActive ==
  ASSUME SettlementStep
  PROVE  pc # "idle" /\ pc' # "idle" /\ UNCHANGED <<instruction, packetHash>>
BY DEF SettlementStep, RefuseInstruction, RejectPayment, ComputeBalances, SaveSender,
   SaveReceiver, SaveClone, SaveRow, Throw, locals

LEMMA InitHandlerInv == BridgeInit => HandlerInv
BY TimesAreNat, BridgeConstants DEF BridgeInit, SettlementInit, GateInit, HandlerInv,
   TimesAreNat, BridgeConstants, Keys

\* What an answer leaves behind: no packet in hand.
LEMMA AnswerKeepsInv ==
  ASSUME HandlerInv, NEW result, Answer(result), pc' = "idle",
         UNCHANGED <<gateVars, serverKey>>
  PROVE  HandlerInv'
BY DEF HandlerInv, Answer, gateVars

LEMMA PassGateKeepsInv ==
  ASSUME HandlerInv, NEW c \in Hashes, PassGate(c)
  PROVE  HandlerInv'
<1>1. /\ stage = "idle" /\ pc = "idle" /\ pc' = "idle" /\ now' = now
      /\ stage' = "decrypt" /\ ciphertext' = c /\ response' = None
      /\ serverKey' = serverKey
  BY DEF PassGate, HandlerInv, settlementVars
<1>2. /\ seen' = [h \in DOMAIN seen \cup {c} |-> IF h = c THEN now ELSE seen[h]]
      /\ now \in 0..now
  BY DEF PassGate, Claim, HandlerInv
<1>3. /\ DOMAIN seen' \subseteq Hashes /\ c \in DOMAIN seen'
      /\ \A h \in DOMAIN seen' : seen'[h] \in 0..now
  BY <1>2 DEF HandlerInv
<1> QED
  BY <1>1, <1>3 DEF HandlerInv

LEMMA HandlerNextKeepsInv ==
  ASSUME HandlerInv, [BridgeNext]_bridgeVars
  PROVE  HandlerInv'
<1>1. CASE \E c \in Hashes : DropDuplicate(c)
  BY <1>1, AnswerKeepsInv DEF DropDuplicate, HandlerInv, settlementVars, gateVars, Answer
<1>2. CASE \E c \in Hashes : PassGate(c)
  BY <1>2, PassGateKeepsInv
<1>3. CASE Decrypt
  BY <1>3 DEF Decrypt, Decrypted, Answer, HandlerInv, settlementVars, gateVars
<1>4. CASE RefuseUntimely
  BY <1>4 DEF RefuseUntimely, Answer, HandlerInv, settlementVars, gateVars
<1>5. CASE CallSettle
  BY <1>5 DEF CallSettle, Settle, Decrypted, HandlerInv, gateVars
<1>6. CASE InSettle
  BY <1>6, SettlementStepStaysActive DEF InSettle, Decrypted, HandlerInv, gateVars,
     handlerVars
<1>7. CASE AnswerSettled
  BY <1>7 DEF AnswerSettled, Return, Answer, HandlerInv, gateVars
<1>8. CASE EvictionTimer
  BY <1>8 DEF EvictionTimer, EvictExpired, HandlerInv, settlementVars, handlerVars
<1>9. CASE TimePasses
  BY <1>9, TimesAreNat DEF TimePasses, Tick, Decrypted, HandlerInv, settlementVars,
     handlerVars, TimesAreNat
<1>10. CASE Reset
  BY <1>10 DEF Reset, Clear, HandlerInv, settlementVars, handlerVars
<1>11. CASE UNCHANGED bridgeVars
  BY <1>11 DEF bridgeVars, Decrypted, HandlerInv
<1> QED
  BY <1>1, <1>2, <1>3, <1>4, <1>5, <1>6, <1>7, <1>8, <1>9, <1>10, <1>11
     DEF BridgeNext, ServerNext, HandlerStep

\* settle() is active exactly while the handler waits for it, with the handler's
\* packet; the gate holds no claim of the future.
THEOREM HandlerKeepsItsInvariant == BridgeSpec => []HandlerInv
BY InitHandlerInv, HandlerNextKeepsInv, PTL DEF BridgeSpec

-----------------------------------------------------------------------------

\* ingest() only ever calls settle() as SettlementSpec lets it be called.
LEMMA BridgeStepIsSettlementStep ==
  ASSUME HandlerInv, [BridgeNext]_bridgeVars
  PROVE  [SettlementNext]_settlementVars
<1>1. CASE CallSettle
  <2>1. ciphertext \in Hashes /\ Decrypted(ciphertext) \in Instructions
    BY <1>1, BridgeConstants DEF CallSettle, Decrypted, HandlerInv, BridgeConstants
  <2>2. Settle(Decrypted(ciphertext), ciphertext)
    BY <1>1 DEF CallSettle
  <2> QED
    BY <2>1, <2>2 DEF SettlementNext, Settle
<1>2. CASE InSettle
  BY <1>2 DEF InSettle, SettlementNext
<1>3. CASE AnswerSettled
  BY <1>3 DEF AnswerSettled, SettlementNext
<1>4. CASE BridgeNext /\ ~CallSettle /\ ~InSettle /\ ~AnswerSettled
  BY <1>4 DEF BridgeNext, ServerNext, HandlerStep, DropDuplicate, PassGate, Decrypt,
     RefuseUntimely, EvictionTimer, TimePasses, Reset
<1>5. CASE UNCHANGED bridgeVars
  BY <1>5 DEF bridgeVars, settlementVars
<1> QED
  BY <1>1, <1>2, <1>3, <1>4, <1>5

\* Everything proved of settle() holds of the server: ingest(), with the timer, the
\* clock and the reset button, is one of the environments settle() is proved in.
THEOREM BridgeImplementsSettlement == BridgeSpec => SettlementSpec
<1>1. BridgeInit => SettlementInit
  BY DEF BridgeInit
<1> QED
  BY <1>1, HandlerKeepsItsInvariant, BridgeStepIsSettlementStep, PTL
     DEF BridgeSpec, SettlementSpec

\* Hence, with amounts that need no rounding at the half, the server as a whole,
\* gate, timer and reset button included, implements the abstract ledger.
THEOREM BridgeImplementsLedger ==
  ASSUME NoTies
  PROVE  BridgeSpec => ImplementsLedger
BY BridgeImplementsSettlement, SettleImplementsLedger, PTL

\* Type correctness of the handler, the gate and the ledger together.
THEOREM BridgeTypeCorrect == BridgeSpec => []BridgeTypeOK
BY HandlerKeepsItsInvariant, BridgeImplementsSettlement, SettlementTypeCorrect, PTL
   DEF BridgeTypeOK

-----------------------------------------------------------------------------

\* Only the eviction timer removes claims, and only those older than the TTL; a
\* second claim() renews nothing.
LEMMA StepKeepsYoungClaims ==
  ASSUME HandlerInv, [ServerNext]_bridgeVars,
         NEW h \in DOMAIN seen, now' <= seen[h] + TtlSeconds
  PROVE  h \in DOMAIN seen' /\ seen'[h] = seen[h]
<1>1. CASE \E c \in Hashes : PassGate(c)
  BY <1>1 DEF PassGate, Claimed, Claim
<1>2. CASE EvictionTimer
  <2>1. now' = now /\ now \in Nat /\ seen[h] \in Nat
    BY <1>2, TimesAreNat DEF EvictionTimer, HandlerInv, TimesAreNat
  <2>2. ~Expired(h)
    BY <2>1, TimesAreNat DEF Expired, TimesAreNat
  <2> QED
    BY <1>2, <2>2 DEF EvictionTimer, EvictExpired
<1>3. CASE ServerNext /\ ~(\E c \in Hashes : PassGate(c)) /\ ~EvictionTimer
  <2>1. UNCHANGED seen
    BY <1>3 DEF ServerNext, HandlerStep, DropDuplicate, Decrypt, RefuseUntimely,
       CallSettle, InSettle, AnswerSettled, TimePasses, gateVars
  <2> QED
    BY <2>1
<1>4. CASE UNCHANGED bridgeVars
  BY <1>4 DEF bridgeVars
<1> QED
  BY <1>1, <1>2, <1>3, <1>4

\* As long as nobody presses reset, a claim stays, with its time, for at least
\* TtlSeconds: in that window every other delivery of the packet is dropped.
THEOREM ClaimsLastTheirTtl == BridgeSpec => ClaimOutlivesWindow
<1>1. HandlerInv /\ [BridgeNext]_bridgeVars =>
        [ServerNext => \A h \in DOMAIN seen :
           now' <= seen[h] + TtlSeconds
             => h \in DOMAIN seen' /\ seen'[h] = seen[h]]_bridgeVars
  BY StepKeepsYoungClaims
<1> QED
  BY <1>1, HandlerKeepsItsInvariant, PTL DEF BridgeSpec, ClaimOutlivesWindow

-----------------------------------------------------------------------------

\* Only a row that commits changes the rows, and it comes last.
LEMMA RowsGrowAtTheEnd ==
  ASSUME SettlementInv, [SettlementNext]_settlementVars
  PROVE  \/ UNCHANGED <<transactions, txPacketHashes>> /\ pc' # "returned"
         \/ UNCHANGED <<transactions, txPacketHashes, pc, packetHash>>
         \/ /\ pc' = "returned" /\ UNCHANGED packetHash /\ packetHash \in Hashes
            /\ packetHash \notin txPacketHashes
            /\ txPacketHashes' = txPacketHashes \cup {packetHash}
            /\ \E row : row.packetHash = packetHash /\ transactions' = Append(transactions, row)
<1>1. CASE Busy /\ Throw
  BY <1>1, ThrowRestores DEF Throw
<1>2. CASE SaveRow /\ ~Throw
  <2>1. PICK amount \in ToFixed(instruction.amount), status \in {"SETTLED", "REJECTED"} :
          SaveTransaction(packetHash, instruction, amount, status)
    BY <1>2 DEF SaveRow
  <2>2. packetHash \in Hashes /\ packetHash \notin txPacketHashes
    BY <1>2 DEF SaveRow, CanSaveTransaction, SettlementInv, ParametersInv, Busy
  <2> DEFINE row == [id |-> nextTxId, packetHash |-> packetHash,
                     senderVpa |-> instruction.senderVpa,
                     receiverVpa |-> instruction.receiverVpa, amount |-> amount,
                     status |-> status]
  <2>3. row.packetHash = packetHash /\ transactions' = Append(transactions, row)
    BY <2>1 DEF SaveTransaction
  <2> HIDE DEF row
  <2> QED
    BY <1>2, <2>1, <2>2, <2>3 DEF SaveRow, SaveTransaction, locals
<1>3. CASE SettlementNext /\ ~(Busy /\ Throw) /\ ~SaveRow
  BY <1>3 DEF SettlementNext, SettlementStep, Settle, RefuseInstruction, RejectPayment,
     ComputeBalances, SaveSender, SaveReceiver, SaveClone, Return, tables, Busy
<1>4. CASE UNCHANGED settlementVars
  BY <1>4 DEF settlementVars
<1>5. SaveRow => Busy
  BY DEF SaveRow, Busy
<1> QED
  BY <1>1, <1>2, <1>3, <1>4, <1>5

-----------------------------------------------------------------------------

\* When settle() has returned, the last row is the one it wrote: that is the id
\* ingest() puts into its answer.
LastRowIsHandled ==
  pc = "returned" =>
    transactions # <<>> /\ transactions[Len(transactions)].packetHash = packetHash

\* The inductive invariant of the answers.
AnswerInv ==
  /\ SettlementInv /\ HandlerInv
  /\ LastRowIsHandled
  /\ response # None /\ response.outcome = "SETTLED" => response.packetHash \in Hashes
  /\ SettledAnswerHasRow
  /\ OnlyTimelySettles

LEMMA InitAnswerInv == BridgeInit => AnswerInv
<1> SUFFICES ASSUME BridgeInit PROVE AnswerInv
  OBVIOUS
<1>1. SettlementInv /\ HandlerInv
  BY InitSettlementInv, InitHandlerInv DEF BridgeInit
<1>2. pc = "idle" /\ response = None
  BY DEF BridgeInit, SettlementInit
<1> QED
  BY <1>1, <1>2 DEF AnswerInv, LastRowIsHandled, SettledAnswerHasRow, SettledAnswer,
     OnlyTimelySettles

LEMMA AnsweredRowStays ==
  ASSUME AnswerInv, SettlementInv', [SettlementNext]_settlementVars, UNCHANGED response
  PROVE  SettledAnswerHasRow'
<1> SUFFICES ASSUME NEW c \in Hashes, SettledAnswer(c)
             PROVE  \E i \in 1..Len(transactions') :
                      /\ transactions'[i].id = response.transactionId
                      /\ transactions'[i].packetHash = c
  BY DEF SettledAnswerHasRow, SettledAnswer
<1>1. PICK i \in 1..Len(transactions) :
        transactions[i].id = response.transactionId /\ transactions[i].packetHash = c
  BY DEF AnswerInv, SettledAnswerHasRow
<1>2. transactions \in Seq(Row)
  BY DEF AnswerInv, SettlementInv, SettlementTypeOK
<1>3. i \in 1..Len(transactions') /\ transactions'[i] = transactions[i]
  <2>1. CASE UNCHANGED transactions
    BY <2>1
  <2>2. CASE \E row : transactions' = Append(transactions, row)
    <3>1. PICK row : transactions' = Append(transactions, row)
      BY <2>2
    <3> QED
      BY <1>2, <3>1
  <2> QED
    BY <2>1, <2>2, RowsGrowAtTheEnd DEF AnswerInv
<1> QED
  BY <1>1, <1>3

\* The steps that answer, and what the others leave alone.
LEMMA AnswersOfStep ==
  ASSUME HandlerInv, [BridgeNext]_bridgeVars
  PROVE  \/ UNCHANGED response
         \/ response' = None
         \/ response' # None /\ response'.outcome # "SETTLED"
         \/ /\ stage = "settle" /\ pc = "returned" /\ UNCHANGED transactions
            /\ response' = Result("SETTLED", ciphertext, None,
                                  transactions[Len(transactions)].id)
<1>1. \A outcome, hash, reason, id :
        Result(outcome, hash, reason, id).outcome = outcome
  BY DEF Result
<1>2. CASE \E c \in Hashes : DropDuplicate(c)
  BY <1>1, <1>2 DEF DropDuplicate, Answer
<1>3. CASE \E c \in Hashes : PassGate(c)
  BY <1>3 DEF PassGate
<1>4. CASE Decrypt
  BY <1>1, <1>4 DEF Decrypt, Answer
<1>5. CASE RefuseUntimely
  BY <1>1, <1>5 DEF RefuseUntimely, Answer
<1>6. CASE AnswerSettled
  BY <1>1, <1>6 DEF AnswerSettled, Answer, Return, tables
<1>7. CASE CallSettle \/ InSettle \/ EvictionTimer \/ TimePasses \/ Reset
  BY <1>7 DEF CallSettle, InSettle, EvictionTimer, TimePasses, Reset, handlerVars
<1>8. CASE UNCHANGED bridgeVars
  BY <1>8 DEF bridgeVars
<1> QED
  BY <1>2, <1>3, <1>4, <1>5, <1>6, <1>7, <1>8 DEF BridgeNext, ServerNext, HandlerStep

LEMMA AnswerHasItsRow ==
  ASSUME AnswerInv, SettlementInv', [BridgeNext]_bridgeVars
  PROVE  /\ response' # None /\ response'.outcome = "SETTLED" => response'.packetHash \in Hashes
         /\ SettledAnswerHasRow'
<1>1. HandlerInv /\ [SettlementNext]_settlementVars
  BY BridgeStepIsSettlementStep DEF AnswerInv
<1>2. CASE UNCHANGED response
  BY <1>1, <1>2, AnsweredRowStays DEF AnswerInv
<1>3. CASE response' = None \/ (response' # None /\ response'.outcome # "SETTLED")
  BY <1>3 DEF SettledAnswerHasRow, SettledAnswer
<1>4. CASE /\ stage = "settle" /\ pc = "returned" /\ UNCHANGED transactions
           /\ response' = Result("SETTLED", ciphertext, None,
                                 transactions[Len(transactions)].id)
  <2>1. /\ response'.packetHash = ciphertext
        /\ response'.transactionId = transactions[Len(transactions)].id
    BY <1>4 DEF Result
  <2>2. ciphertext \in Hashes /\ packetHash = ciphertext
    BY <1>4 DEF AnswerInv, HandlerInv
  <2>3. /\ Len(transactions) \in 1..Len(transactions)
        /\ transactions[Len(transactions)].packetHash = ciphertext
    <3>1. transactions \in Seq(Row) /\ transactions # <<>>
      BY <1>4 DEF AnswerInv, SettlementInv, SettlementTypeOK, LastRowIsHandled
    <3> QED
      BY <1>4, <2>2, <3>1 DEF AnswerInv, LastRowIsHandled
  <2> QED
    BY <1>4, <2>1, <2>2, <2>3 DEF SettledAnswerHasRow, SettledAnswer
<1> QED
  BY <1>1, <1>2, <1>3, <1>4, AnswersOfStep

LEMMA LastRowStaysHandled ==
  ASSUME AnswerInv, [SettlementNext]_settlementVars
  PROVE  LastRowIsHandled'
<1>1. CASE \E row : row.packetHash = packetHash /\ transactions' = Append(transactions, row)
  <2>1. PICK row : row.packetHash = packetHash /\ transactions' = Append(transactions, row)
    BY <1>1
  <2>2. transactions \in Seq(Row)
    BY DEF AnswerInv, SettlementInv, SettlementTypeOK
  <2>3. Len(transactions') = Len(transactions) + 1 /\ transactions' # <<>>
    BY <2>1, <2>2
  <2>4. transactions'[Len(transactions')] = row
    BY <2>1, <2>2
  <2> QED
    BY <1>1, <2>1, <2>3, <2>4, RowsGrowAtTheEnd DEF LastRowIsHandled, AnswerInv
<1> QED
  BY <1>1, RowsGrowAtTheEnd DEF LastRowIsHandled, AnswerInv

LEMMA TimelyStays ==
  ASSUME AnswerInv, HandlerInv', [BridgeNext]_bridgeVars
  PROVE  OnlyTimelySettles'
<1>1. CASE CallSettle
  <2>1. /\ instruction' = Decrypted(ciphertext) /\ packetHash' = ciphertext
        /\ seen' = seen /\ now' = now
        /\ ~Stale(Decrypted(ciphertext)) /\ ~FutureDated(Decrypted(ciphertext))
    BY <1>1 DEF CallSettle, Settle, gateVars
  <2>2. seen[ciphertext] \in 0..now /\ now \in Nat /\ MaxAgeSeconds \in Nat
        /\ ClockSkewTolerance \in Nat
    BY <1>1, BridgeConstants, TimesAreNat DEF CallSettle, AnswerInv, HandlerInv,
       BridgeConstants, TimesAreNat
  <2> QED
    BY <2>1, <2>2 DEF Stale, FutureDated, OnlyTimelySettles, IsEpoch
<1>2. CASE InSettle
  BY <1>2, SettlementStepStaysActive DEF InSettle, gateVars, OnlyTimelySettles, AnswerInv
<1>3. CASE TimePasses
  <2>1. /\ UNCHANGED <<pc, instruction, packetHash, seen>>
        /\ now \in Nat /\ now' = now + 1 /\ ClockSkewTolerance \in Nat
    BY <1>3, BridgeConstants, TimesAreNat DEF TimePasses, Tick, settlementVars, AnswerInv,
       HandlerInv, BridgeConstants, TimesAreNat
  <2> QED
    BY <2>1 DEF OnlyTimelySettles, AnswerInv, IsEpoch
<1>4. CASE AnswerSettled
  BY <1>4 DEF AnswerSettled, Return, OnlyTimelySettles
<1>5. CASE BridgeNext /\ ~CallSettle /\ ~InSettle /\ ~TimePasses /\ ~AnswerSettled
  <2>1. pc' = "idle"
    BY <1>5 DEF BridgeNext, ServerNext, HandlerStep, DropDuplicate, PassGate, Decrypt,
       RefuseUntimely, EvictionTimer, Reset, settlementVars, AnswerInv, HandlerInv
  <2> QED
    BY <2>1 DEF OnlyTimelySettles
<1>6. CASE UNCHANGED bridgeVars
  BY <1>6 DEF bridgeVars, OnlyTimelySettles, AnswerInv
<1> QED
  BY <1>1, <1>2, <1>3, <1>4, <1>5, <1>6

LEMMA NextKeepsAnswerInv == AnswerInv /\ [BridgeNext]_bridgeVars => AnswerInv'
<1> SUFFICES ASSUME AnswerInv, [BridgeNext]_bridgeVars PROVE AnswerInv'
  OBVIOUS
<1>1. HandlerInv' /\ [SettlementNext]_settlementVars
  BY HandlerNextKeepsInv, BridgeStepIsSettlementStep DEF AnswerInv
<1>2. SettlementInv'
  BY <1>1, NextKeepsInv DEF AnswerInv
<1> QED
  BY <1>1, <1>2, AnswerHasItsRow, LastRowStaysHandled, TimelyStays DEF AnswerInv

\* What a bridge is answered, and what ingest() has in hand, agree with the ledger.
THEOREM AnswersKeepTheirInvariant == BridgeSpec => []AnswerInv
BY InitAnswerInv, NextKeepsAnswerInv, PTL DEF BridgeSpec

\* An answer SETTLED names the row of the packet it answers for.
THEOREM AnsweredRowExists == BridgeSpec => []SettledAnswerHasRow
<1>1. AnswerInv => SettledAnswerHasRow
  BY DEF AnswerInv
<1> QED
  BY <1>1, AnswersKeepTheirInvariant, PTL

\* What settle() is called with was signed in time, at the gate and still now.
THEOREM SettledInTime == BridgeSpec => []OnlyTimelySettles
<1>1. AnswerInv => OnlyTimelySettles
  BY DEF AnswerInv
<1> QED
  BY <1>1, AnswersKeepTheirInvariant, PTL
-----------------------------------------------------------------------------

\* c has its row, and neither the last answer nor the one under way is SETTLED for it.
Spent(c) ==
  c \in txPacketHashes /\ ~SettledAnswer(c) /\ (pc = "returned" => packetHash # c)

LEMMA SpentStays ==
  ASSUME AnswerInv, [BridgeNext]_bridgeVars, NEW c \in Hashes, Spent(c)
  PROVE  Spent(c)'
<1>1. HandlerInv /\ [SettlementNext]_settlementVars
  BY BridgeStepIsSettlementStep DEF AnswerInv
<1>2. c \in txPacketHashes' /\ (pc' = "returned" => packetHash' # c)
  BY <1>1, RowsGrowAtTheEnd DEF AnswerInv, Spent
<1>3. ~SettledAnswer(c)'
  <2>1. CASE /\ stage = "settle" /\ pc = "returned"
             /\ response' = Result("SETTLED", ciphertext, None,
                                   transactions[Len(transactions)].id)
    <3>1. response'.packetHash = ciphertext /\ packetHash = ciphertext
      BY <2>1 DEF Result, AnswerInv, HandlerInv
    <3> QED
      BY <2>1, <3>1 DEF Spent, SettledAnswer
  <2> QED
    BY <1>1, <2>1, AnswersOfStep DEF Spent, SettledAnswer
<1> QED
  BY <1>2, <1>3 DEF Spent

\* However often, when and by whom a packet is delivered, before and after evictions
\* and resets, at most one delivery of it is answered SETTLED.
THEOREM SettledOnce == BridgeSpec => OneSettledAnswer
<1> SUFFICES ASSUME NEW c \in Hashes
             PROVE  BridgeSpec =>
                      []( /\ stage = "idle" /\ c \in txPacketHashes /\ ~SettledAnswer(c)
                          => []~SettledAnswer(c) )
  BY DEF OneSettledAnswer
<1>1. AnswerInv /\ stage = "idle" /\ c \in txPacketHashes /\ ~SettledAnswer(c) => Spent(c)
  BY DEF AnswerInv, HandlerInv, Spent
<1>2. AnswerInv /\ Spent(c) /\ [BridgeNext]_bridgeVars => Spent(c)'
  BY SpentStays
<1>3. Spent(c) => ~SettledAnswer(c)
  BY DEF Spent
<1> QED
  BY <1>1, <1>2, <1>3, AnswersKeepTheirInvariant, PTL DEF BridgeSpec
=============================================================================
