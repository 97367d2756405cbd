-------------------------- MODULE SettlementService --------------------------
(***************************************************************************)
(* SettlementService.settle(): one database transaction that checks an     *)
(* instruction, moves the money and writes the ledger row.  An activation  *)
(* of settle() is followed step by step, so that each place where it can   *)
(* throw is a step that may roll back.  The program is single-threaded     *)
(* and settle() never awaits, so there is one activation at a time.        *)
(***************************************************************************)
EXTENDS InMemoryDb, Rupees

CONSTANTS Hashes,        \* packet hashes
          Instructions   \* decrypted payment instructions

ASSUME InstructionType ==
  /\ \A i \in Instructions : i.amount \in Amounts
  /\ None \notin Instructions
  /\ None \notin Hashes

VARIABLES pc,            \* where settle() is
          instruction, packetHash,   \* its parameters
          sender, receiver           \* its copies of the two accounts

locals == <<instruction, packetHash, sender, receiver>>
settlementVars == <<accounts, transactions, txPacketHashes, nextTxId, snapshot,
                    pc, instruction, packetHash, sender, receiver>>

SettlementInit ==
  /\ DbInit
  /\ pc = "idle"
  /\ instruction = None /\ packetHash = None
  /\ sender = None /\ receiver = None

-----------------------------------------------------------------------------

\* An exception leaves the callback: runTransaction() restores and rethrows.
Throw == pc' = "threw" /\ Rollback /\ UNCHANGED locals

\* Mutant: the hash is not handed over.
SettleWithoutHash(ins, hash) ==
  /\ pc = "idle"
  /\ pc' = "verify"
  /\ instruction' = ins
  /\ packetHash' = None
  /\ TakeSnapshot
  /\ UNCHANGED <<tables, sender, receiver>>

\* settle(instruction, packetHash, ...) enters runTransaction().
Settle(ins, hash) ==
  /\ pc = "idle"
  /\ pc' = "verify"
  /\ instruction' = ins
  /\ packetHash' = hash
  /\ TakeSnapshot
  /\ UNCHANGED <<tables, sender, receiver>>

Acceptable == /\ instruction.senderVpa \in Accounts
              /\ instruction.receiverVpa \in Accounts
              /\ IsPositive(instruction.amount)

\* Mutant: the fraction of a paisa is dropped before the comparison, not after.
InsufficientInWholePaise ==
  instruction.amount.paise > accounts[instruction.senderVpa].balance

Insufficient ==
  Exceeds(instruction.amount, accounts[instruction.senderVpa].balance)

\* Unknown sender, unknown receiver, or an amount that is no positive number.
RefuseInstruction == pc = "verify" /\ ~Acceptable /\ Throw

\* The sender has too little: the payment will be recorded as REJECTED.
RejectPayment ==
  /\ pc = "verify" /\ Acceptable /\ Insufficient
  /\ pc' = "saveRejected"
  /\ UNCHANGED <<tables, snapshot, locals>>

\* Both new balances are computed on copies read before either is saved.
ComputeBalances ==
  /\ pc = "verify" /\ Acceptable /\ ~Insufficient
  /\ \E debit, credit \in ToFixed(instruction.amount) :
       /\ sender' = [Clone(instruction.senderVpa) EXCEPT !.balance = @ - debit]
       /\ receiver' = [Clone(instruction.receiverVpa) EXCEPT !.balance = @ + credit]
  /\ pc' = "saveSender"
  /\ UNCHANGED <<tables, snapshot, instruction, packetHash>>

\* accounts.save(account) at label here, which continues at label next.  The copy
\* gets the new version too, but is not used again.
SaveClone(account, here, next) ==
  /\ pc = here
  /\ IF CanSaveAccount(account)
     THEN /\ SaveAccount(account)
          /\ pc' = next
          /\ UNCHANGED <<transactions, txPacketHashes, nextTxId, snapshot, locals>>
     ELSE Throw

SaveSender == SaveClone(sender, "saveSender", "saveReceiver")

SaveReceiver == SaveClone(receiver, "saveReceiver", "saveSettled")

\* transactions.save(...): throws when signedAt is no date or the hash is taken.
\* It is the last thing the callback does, so the transaction commits.
SaveRow ==
  /\ pc \in {"saveSettled", "saveRejected"}
  /\ IF instruction.signedAt # None /\ CanSaveTransaction(packetHash)
     THEN /\ \E amount \in ToFixed(instruction.amount) :
               SaveTransaction(packetHash, instruction, amount,
                               IF pc = "saveSettled" THEN "SETTLED" ELSE "REJECTED")
          /\ pc' = "returned"
          /\ Commit
          /\ UNCHANGED <<accounts, locals>>
     ELSE Throw

\* The caller gets the row or the exception; the locals are gone.
Return ==
  /\ pc \in {"returned", "threw"}
  /\ pc' = "idle"
  /\ instruction' = None /\ packetHash' = None
  /\ sender' = None /\ receiver' = None
  /\ UNCHANGED <<tables, snapshot>>

SettlementStep == \/ RefuseInstruction \/ RejectPayment \/ ComputeBalances
                  \/ SaveSender \/ SaveReceiver \/ SaveRow

SettlementNext ==
  \/ \E ins \in Instructions, hash \in Hashes : Settle(ins, hash)
  \/ SettlementStep
  \/ Return

SettlementSpec == SettlementInit /\ [][SettlementNext]_settlementVars

-----------------------------------------------------------------------------

Row == [id : Nat, packetHash : Hashes, senderVpa : Accounts,
        receiverVpa : Accounts, amount : Int, status : {"SETTLED", "REJECTED"}]

AccountCopy == [vpa : Accounts, balance : Int, version : Nat]

AccountTable == [Accounts -> [balance : Int, version : Nat]]

Snapshot == [accounts : AccountTable, txCount : Nat,
             packetHashes : SUBSET Hashes, nextId : Nat]

ASSUME NoneIsNoSnapshot == None \notin Snapshot

\* The type invariant: the tables, the activation of settle() and its copies.
SettlementTypeOK ==
  /\ accounts \in AccountTable
  /\ transactions \in Seq(Row)
  /\ txPacketHashes \in SUBSET Hashes
  /\ nextTxId \in Nat
  /\ snapshot \in Snapshot \cup {None}
  /\ pc \in {"idle", "verify", "saveSender", "saveReceiver", "saveSettled",
             "saveRejected", "returned", "threw"}
  /\ instruction \in Instructions \cup {None}
  /\ packetHash \in Hashes \cup {None}
  /\ sender \in AccountCopy \cup {None}
  /\ receiver \in AccountCopy \cup {None}

\* The three places the database keeps the ledger's identity in agree: the rows
\* are numbered 1, 2, ... with no gap, nextTxId is the next number, the unique
\* index holds exactly the hashes of the rows, and no two rows share a hash.
\* saveTransaction() changes all of them, in steps, and the second row of a hash must
\* be stopped before any of them is changed.
LedgerIndexed ==
  /\ nextTxId = Len(transactions) + 1
  /\ \A i \in 1..Len(transactions) : transactions[i].id = i
  /\ txPacketHashes = {transactions[i].packetHash : i \in 1..Len(transactions)}
  /\ \A i, j \in 1..Len(transactions) :
       transactions[i].packetHash = transactions[j].packetHash => i = j

\* No account is ever overdrawn, even between the two saves of a transfer.
NoOverdraft == \A v \in Accounts : accounts[v].balance >= 0

\* settle() fails only for what the instruction itself says, or for a hash that has
\* its row: the optimistic lock never stops a payment between two accounts, however
\* many payments, rejections and rollbacks went before.
ThrowsForAReason ==
  pc = "threw" =>
    \/ ~Acceptable
    \/ instruction.senderVpa = instruction.receiverVpa
    \/ instruction.signedAt = None
    \/ packetHash \in txPacketHashes

\* start and what the changes, one after the other, add to it.
Summed(start, changes) ==
  LET after[n \in 0..Len(changes)] ==
        IF n = 0 THEN start ELSE after[n - 1] + changes[n]
  IN  after[Len(changes)]

\* What a row says happened to the balance of v.
Effect(row, v) ==
  IF row.status = "SETTLED"
  THEN (IF row.receiverVpa = v THEN row.amount ELSE 0)
       - (IF row.senderVpa = v THEN row.amount ELSE 0)
  ELSE 0

\* The audit: replaying the rows from the balance an account was seeded with yields
\* what it holds: no payment moves money without its row, and no row is written for
\* money that did not move.  It holds of the committed state, whatever threw in
\* between.
LedgerExplainsBalances ==
  \A v \in Accounts :
    CommittedAccounts[v].balance =
      Summed(SeedBalance[v], [n \in DOMAIN CommittedRows |-> Effect(CommittedRows[n], v)])

\* The committed balances.
LedgerBalance == [v \in Accounts |-> CommittedAccounts[v].balance]

\* The ways to go through the accounts.
Enumerations ==
  {order \in [1..Cardinality(Accounts) -> Accounts] :
     /\ \A i, j \in DOMAIN order : order[i] = order[j] => i = j
     /\ \A v \in Accounts : \E i \in DOMAIN order : order[i] = v}

Total(balance, order) == Summed(0, [n \in DOMAIN order |-> balance[order[n]]])

\* Account.js: "Currency amounts must be tracked precisely without floating-point
\* rounding errors".  The balances add up to what was seeded.
MoneyIsConserved ==
  \A order \in Enumerations : Total(LedgerBalance, order) = Total(SeedBalance, order)

PaymentOf(row) == [packetHash |-> row.packetHash, senderVpa |-> row.senderVpa,
                   receiverVpa |-> row.receiverVpa, amount |-> row.amount]

RowsWith(status) == {i \in 1..Len(CommittedRows) : CommittedRows[i].status = status}

\* The committed rows as the abstract ledger sees them.
LedgerPayments == {PaymentOf(CommittedRows[i]) : i \in RowsWith("SETTLED")}

LedgerRefused == {CommittedRows[i].packetHash : i \in RowsWith("REJECTED")}

\* No amount is exactly between two paise: amounts in rupees with two decimals.
NoTies == \A i \in Instructions : i.amount.frac # "half"

\* settle() implements the abstract ledger if NoTies: whatever it is called with,
\* however often, and wherever it throws, the committed state changes by one
\* transfer or one refusal of a hash never decided before, or not at all.
AbstractLedger == INSTANCE Ledger WITH
  balance <- LedgerBalance, payments <- LedgerPayments, refused <- LedgerRefused

ImplementsLedger == AbstractLedger!Spec
=============================================================================
