---------------------------- MODULE RestartProofs ----------------------------
(***************************************************************************)
(* What is proved of the demo with restarts, for any number of starts and  *)
(* wherever in a handler the program stops.                                *)
(***************************************************************************)
EXTENDS Restarts, SystemProofs

LEMMA InitRestartInv == RestartInit => RestartInv
<1>1. RestartInit => SettlementInv /\ HandlerInv
  BY InitSettlementInv, InitHandlerInv DEF RestartInit, SystemInit, BridgeInit
<1> QED
  BY <1>1 DEF RestartInit, SystemInit, BridgeInit, SettlementInit, DbInit, RestartInv

\* A step within a life writes a row only of what the key of this life opened.
LEMMA RowsAreOfThisLife ==
  ASSUME RestartInv, [SystemNext]_systemVars
  PROVE  \A c \in txPacketHashes' : InstructionOf[life][c] # None
<1>1. [SettlementNext]_settlementVars
  BY SystemStepIsBridgeStep, BridgeStepIsSettlementStep DEF RestartInv
<1>2. CASE UNCHANGED txPacketHashes
  BY <1>2 DEF RestartInv
<1>3. CASE SaveRow /\ txPacketHashes' = txPacketHashes \cup {packetHash}
  <2>1. stage = "settle" /\ packetHash = ciphertext /\ Decrypted(ciphertext) # None
    BY <1>3 DEF SaveRow, RestartInv, HandlerInv
  <2> QED
    BY <1>3, <2>1 DEF RestartInv, Decrypted
<1> QED
  BY <1>1, <1>2, <1>3, IndexGrowsByRow DEF RestartInv

LEMMA SystemStepKeepsRestartInv ==
  ASSUME RestartInv, [SystemNext]_systemVars, UNCHANGED life
  PROVE  RestartInv'
<1>1. [BridgeNext]_bridgeVars
  BY SystemStepIsBridgeStep
<1>2. HandlerInv' /\ [SettlementNext]_settlementVars
  BY <1>1, HandlerNextKeepsInv, BridgeStepIsSettlementStep DEF RestartInv
<1>3. SettlementInv'
  BY <1>2, NextKeepsInv DEF RestartInv
<1> QED
  BY <1>1, <1>2, <1>3, KeyStays, RowsAreOfThisLife DEF RestartInv

\* A restart leaves the tables as they are at first and no handler running, whatever
\* was running.
LEMMA RestartIsClean ==
  ASSUME RestartInv, Restart
  PROVE  SettlementInit' /\ HandlerInv'
<1> USE DEF Restart, NewLedger, NewServices, NewHandlers, Clear
<1>1. SettlementInit'
  BY DEF SettlementInit, DbInit, Seeded
<1>2. now \in 0..MaxTime /\ life \in Keys
  BY DEF RestartInv, HandlerInv
<1>3. serverKey' \in Keys
  BY <1>2, BridgeConstants DEF Keys, BridgeConstants
<1>4. HandlerInv'
  BY <1>2, <1>3 DEF HandlerInv
<1> QED
  BY <1>1, <1>4

LEMMA RestartKeepsInv ==
  ASSUME RestartInv, Restart
  PROVE  RestartInv'
<1>1. (SettlementInit => SettlementInv)'
  BY InitSettlementInv, PTL
<1>2. SettlementInv' /\ HandlerInv'
  BY <1>1, RestartIsClean
<1>3. serverKey' = life' /\ txPacketHashes' = {}
  BY DEF Restart, NewLedger
<1> QED
  BY <1>2, <1>3 DEF RestartInv

LEMMA RestartNextKeepsInv == RestartInv /\ [RestartNext]_restartVars => RestartInv'
<1> SUFFICES ASSUME RestartInv, [RestartNext]_restartVars PROVE RestartInv'
  OBVIOUS
<1>1. CASE Restart
  BY <1>1, RestartKeepsInv
<1>2. CASE SystemNext /\ UNCHANGED life
  BY <1>2, SystemStepKeepsRestartInv
<1>3. CASE UNCHANGED restartVars
  <2>1. UNCHANGED systemVars /\ UNCHANGED life
    BY <1>3 DEF restartVars, systemVars
  <2> QED
    BY <2>1, SystemStepKeepsRestartInv
<1> QED
  BY <1>1, <1>2, <1>3 DEF RestartNext

\* Wherever the program stops, in the middle of a transfer too, it starts again with
\* consistent tables and an idle handler, and from then on the ledger has only rows of
\* packets sealed for the new key.
THEOREM RestartKeepsItsInvariant == RestartSpec => []RestartInv
BY InitRestartInv, RestartNextKeepsInv, PTL DEF RestartSpec

-----------------------------------------------------------------------------

LEMMA SystemStepKeepsBooks ==
  ASSUME NoTies, RestartInv, RestartInv', LedgerExplainsBalances,
         [SystemNext]_systemVars
  PROVE  LedgerExplainsBalances'
BY SystemStepIsBridgeStep, BridgeStepIsSettlementStep, NextKeepsBooks DEF RestartInv

\* The books balance in every life: the rows written since the last start explain the
\* balances, also when that start came between the two saves of a transfer.
THEOREM BooksBalanceInEveryLife ==
  ASSUME NoTies
  PROVE  RestartSpec => []LedgerExplainsBalances
<1>1. RestartInit => LedgerExplainsBalances
  BY FirstBooksBalance DEF RestartInit, SystemInit, BridgeInit
<1>2. ASSUME RestartInv, RestartInv', LedgerExplainsBalances, [RestartNext]_restartVars
      PROVE  LedgerExplainsBalances'
  <2>1. CASE Restart
    <3>1. (SettlementInit => LedgerExplainsBalances)'
      BY FirstBooksBalance, PTL
    <3> QED
      BY <1>2, <2>1, <3>1, RestartIsClean
  <2>2. CASE SystemNext /\ UNCHANGED life
    BY <1>2, <2>2, SystemStepKeepsBooks
  <2>3. CASE UNCHANGED restartVars
    <3>1. UNCHANGED systemVars
      BY <2>3 DEF restartVars, systemVars
    <3> QED
      BY <1>2, <3>1, SystemStepKeepsBooks
  <2> QED
    BY <1>2, <2>1, <2>2, <2>3 DEF RestartNext
<1> QED
  BY <1>1, <1>2, RestartKeepsItsInvariant, PTL DEF RestartSpec

-----------------------------------------------------------------------------

\* No packet is in the ledger of two lives, because no key outlives its ledger.
THEOREM PaidInOneLife == RestartSpec => OneLifePerPayment
<1> SUFFICES ASSUME NEW c \in Hashes, NEW l \in Keys
             PROVE  RestartSpec =>
                      []( c \in txPacketHashes /\ life = l
                            => [](c \in txPacketHashes => life = l) )
  BY DEF OneLifePerPayment
<1>1. CASE InstructionOf[l][c] # None
  <2>1. RestartInv => (c \in txPacketHashes => life = l)
    BY <1>1, OneKeyOpens DEF RestartInv, HandlerInv, OneKeyOpens
  <2> QED
    BY <2>1, RestartKeepsItsInvariant, PTL
<1>2. CASE InstructionOf[l][c] = None
  <2>1. RestartInv => ~(c \in txPacketHashes /\ life = l)
    BY <1>2 DEF RestartInv
  <2> QED
    BY <2>1, RestartKeepsItsInvariant, PTL
<1> QED
  BY <1>1, <1>2

-----------------------------------------------------------------------------

Retired == {c \in Hashes : SealedBefore(c)}

\* What is decided in this life was sealed for no earlier one.
LEMMA SystemStepRefinesLives ==
  ASSUME NoTies, RestartInv, RestartInv', [SystemNext]_systemVars, UNCHANGED life
  PROVE  [Lives!NextLives]_(Lives!lives)
<1>1. SettlementInv /\ SettlementInv' /\ [SettlementNext]_settlementVars
  BY SystemStepIsBridgeStep, BridgeStepIsSettlementStep DEF RestartInv
<1>2. UNCHANGED Retired
  BY DEF Retired, SealedBefore
<1>3. CASE SaveRow /\ ~Throw
  <2>1. packetHash \in Hashes /\ AbstractLedger!Decide(packetHash)
    BY <1>1, <1>3, SaveRowRefinesLedger
  <2>2. packetHash \in txPacketHashes'
    BY <1>3 DEF SaveRow, SaveTransaction
  <2>3. InstructionOf[life][packetHash] # None /\ life \in Keys
    BY <2>2, RowsAreOfThisLife DEF RestartInv, HandlerInv
  <2>4. packetHash \notin Retired
    BY <2>1, <2>3, OneKeyOpens, BridgeConstants DEF Retired, SealedBefore, Keys, OneKeyOpens,
       BridgeConstants
  <2>5. Lives!DecideInLife(packetHash)
    BY <1>2, <2>1, <2>4 DEF Lives!DecideInLife, Lives!Decide, Lives!Refuse, Lives!Transfer,
       Lives!Decided, AbstractLedger!Decide, AbstractLedger!Refuse,
       AbstractLedger!Transfer, AbstractLedger!Decided, Retired
  <2> QED
    BY <2>1, <2>5 DEF Lives!NextLives
<1>4. CASE ~(SaveRow /\ ~Throw)
  <2>1. UNCHANGED AbstractLedger!vars
    BY <1>1, <1>4, QuietSteps, Invisible
  <2> QED
    BY <1>2, <2>1 DEF AbstractLedger!vars, Lives!lives, Retired
<1> QED
  BY <1>3, <1>4

\* All that was decided in a life is retired with its key.
LEMMA RestartLosesAll ==
  ASSUME RestartInv, Restart
  PROVE  Lives!LoseAll
<1>1. (SettlementInit => AbstractLedger!Init)'
  BY InitRefinesLedger, PTL
<1>2. LedgerBalance' = SeedBalance /\ LedgerPayments' = {} /\ LedgerRefused' = {}
  BY <1>1, RestartIsClean DEF AbstractLedger!Init
<1>3. life \in Keys /\ life' = life + 1
  BY DEF RestartInv, HandlerInv, Restart
<1>4. Retired \subseteq Retired'
  BY <1>3, BridgeConstants DEF Retired, SealedBefore, Keys, BridgeConstants
<1>5. Lives!Decided = txPacketHashes
  BY DecidedIsIndex DEF RestartInv, Lives!Decided, AbstractLedger!Decided
<1>6. txPacketHashes \subseteq Retired'
  BY <1>3, BridgeConstants DEF RestartInv, SettlementInv, SettlementTypeOK, Retired,
     SealedBefore, Keys, BridgeConstants
<1> QED
  BY <1>2, <1>4, <1>5, <1>6 DEF Lives!LoseAll, Retired

\* With restarts anywhere, and amounts that are no ties, the server implements the
\* ledger that may lose everything at once but decides nothing twice.
THEOREM RestartImplementsLives ==
  ASSUME NoTies
  PROVE  RestartSpec => ImplementsLives
<1>1. RestartInit => Lives!InitLives
  <2>1. RestartInit => AbstractLedger!Init
    BY InitRefinesLedger DEF RestartInit, SystemInit, BridgeInit
  <2>2. RestartInit => {c \in Hashes : SealedBefore(c)} = {}
    BY DEF RestartInit, SealedBefore
  <2> QED
    BY <2>1, <2>2 DEF Lives!InitLives, Lives!Init, AbstractLedger!Init
<1>2. RestartInv /\ RestartInv' /\ [RestartNext]_restartVars
        => [Lives!NextLives]_(Lives!lives)
  <2> SUFFICES ASSUME RestartInv, RestartInv', [RestartNext]_restartVars
               PROVE  [Lives!NextLives]_(Lives!lives)
    OBVIOUS
  <2>1. CASE Restart
    BY <2>1, RestartLosesAll DEF Lives!NextLives
  <2>2. CASE SystemNext /\ UNCHANGED life
    BY <2>2, SystemStepRefinesLives
  <2>3. CASE UNCHANGED restartVars
    <3>1. UNCHANGED systemVars /\ UNCHANGED life
      BY <2>3 DEF restartVars, systemVars
    <3> QED
      BY <3>1, SystemStepRefinesLives
  <2> QED
    BY <2>1, <2>2, <2>3 DEF RestartNext
<1> QED
  BY <1>1, <1>2, RestartKeepsItsInvariant, PTL DEF RestartSpec, ImplementsLives,
     Lives!SpecLives
=============================================================================
