------------------------------ MODULE Restarts ------------------------------
(***************************************************************************)
(* The demo when the program stops, in the middle of whatever it does, and *)
(* is started again.  Ledger, claims, phones and key pair are all in its   *)
(* memory: nothing survives but the packets that phones elsewhere carry    *)
(* and upload over POST /bridge/ingest, sealed for a key that is gone.     *)
(***************************************************************************)
EXTENDS OfflinePayments, SettlementInvariant

VARIABLE life   \* how often the program was started

restartVars == <<held, created, accounts, transactions, txPacketHashes, nextTxId,
                 snapshot, pc, instruction, packetHash, sender, receiver, seen, now,
                 serverKey, stage, ciphertext, response, route, queue, results, life>>

\* new InMemoryDb() and seedAccounts()
NewLedger ==
  /\ accounts' = Seeded
  /\ transactions' = <<>> /\ txPacketHashes' = {} /\ nextTxId' = 1
  /\ snapshot' = None

\* Nothing of a handler, of its call of settle() or of its answer is left.
NewHandlers ==
  /\ pc' = "idle" /\ instruction' = None /\ packetHash' = None
  /\ sender' = None /\ receiver' = None
  /\ stage' = "idle" /\ ciphertext' = None /\ response' = None
  /\ route' = "none" /\ queue' = <<>> /\ results' = <<>>

NewPhones == held' = [d \in Devices |-> <<>>]

\* The singletons that start up with an empty memory.
NewServices == Clear /\ NewHandlers /\ NewPhones

\* Mutants: a key, accounts, or a unique index that survive.
RestartWithOldKey ==
  /\ life < MaxStarts
  /\ life' = life + 1 /\ UNCHANGED serverKey
  /\ NewLedger /\ NewServices
  /\ UNCHANGED <<created, now>>

RestartWithOldBalances ==
  /\ life < MaxStarts
  /\ life' = life + 1 /\ serverKey' = life'
  /\ accounts' = CommittedAccounts
  /\ transactions' = <<>> /\ txPacketHashes' = {} /\ nextTxId' = 1 /\ snapshot' = None
  /\ NewServices
  /\ UNCHANGED <<created, now>>

RestartWithOldIndex ==
  /\ life < MaxStarts
  /\ life' = life + 1 /\ serverKey' = life'
  /\ accounts' = Seeded
  /\ transactions' = <<>> /\ nextTxId' = 1 /\ snapshot' = None
  /\ UNCHANGED txPacketHashes
  /\ NewServices
  /\ UNCHANGED <<created, now>>

\* The process ends, by a crash or a signal, and app.js runs again.
Restart ==
  /\ life < MaxStarts
  /\ life' = life + 1
  /\ serverKey' = life'
  /\ NewLedger /\ NewServices
  /\ UNCHANGED <<created, now>>

RestartInit == SystemInit /\ life = 1

RestartNext == (SystemNext /\ UNCHANGED life) \/ Restart

RestartSpec == RestartInit /\ [][RestartNext]_restartVars

-----------------------------------------------------------------------------

\* Sealed for the key pair of an earlier start.
SealedBefore(c) == \E k \in 1..(life - 1) : InstructionOf[k][c] # None

\* The inductive invariant: a restart in the middle of a handler, even between the
\* two saves of a transfer, leaves tables, activation and gate as consistent as they
\* were, and every row is of a packet sealed in this life.
RestartInv ==
  /\ SettlementInv /\ HandlerInv
  /\ serverKey = life
  /\ \A c \in txPacketHashes : InstructionOf[life][c] # None

\* A packet is in the ledger of one life at most: phones that upload it again after
\* a restart, to a server that remembers neither row nor claim, do not have it paid
\* a second time.
OneLifePerPayment ==
  \A c \in Hashes, l \in Keys :
    []( c \in txPacketHashes /\ life = l => [](c \in txPacketHashes => life = l) )

\* With restarts the server implements the abstract ledger that may lose everything
\* at once and decides nothing that was decided before.
Lives == INSTANCE LedgerLives WITH
  balance <- LedgerBalance, payments <- LedgerPayments, refused <- LedgerRefused,
  retired <- {c \in Hashes : SealedBefore(c)}

ImplementsLives == Lives!SpecLives
=============================================================================
