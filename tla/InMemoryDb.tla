----------------------------- MODULE InMemoryDb -----------------------------
(***************************************************************************)
(* The in-memory database of src/db/inMemoryDb.js: the tables, the         *)
(* optimistic lock on accounts, the unique index on packetHash, and the    *)
(* snapshot runTransaction() takes and restores.  Each operation that can  *)
(* throw is a pair: a predicate saying it does not throw, and its effect.  *)
(***************************************************************************)
EXTENDS Integers, Sequences, FiniteSets

CONSTANTS SeedBalance,  \* vpa -> paise: the accounts DemoService seeds
          None          \* no value (undefined, null, or out of scope)

Accounts == DOMAIN SeedBalance

ASSUME SeedsArePositive == SeedBalance \in [Accounts -> Nat] /\ IsFiniteSet(Accounts)

VARIABLES accounts,        \* vpa -> [balance, version]
          transactions,    \* the ledger rows, oldest first
          txPacketHashes,  \* unique index on packetHash
          nextTxId,        \* auto-increment key
          snapshot         \* the locals of a running runTransaction(), or None

tables == <<accounts, transactions, txPacketHashes, nextTxId>>

\* The accounts once seedAccounts() has saved them: new ones get version 0.
Seeded == [v \in Accounts |-> [balance |-> SeedBalance[v], version |-> 0]]

DbInit ==
  /\ accounts = Seeded
  /\ transactions = <<>>
  /\ txPacketHashes = {}
  /\ nextTxId = 1
  /\ snapshot = None

-----------------------------------------------------------------------------

\* runTransaction(), before the callback.
TakeSnapshot ==
  snapshot' = [accounts |-> accounts, txCount |-> Len(transactions),
               packetHashes |-> txPacketHashes, nextId |-> nextTxId]

\* Mutant: the accounts saved before the exception stay saved.
RollbackOfTheLedgerOnly ==
  /\ accounts' = accounts
  /\ transactions' = SubSeq(transactions, 1, snapshot.txCount)
  /\ txPacketHashes' = snapshot.packetHashes
  /\ nextTxId' = snapshot.nextId
  /\ snapshot' = None

\* runTransaction(), when the callback threw.
Rollback ==
  /\ accounts' = snapshot.accounts
  /\ transactions' = SubSeq(transactions, 1, snapshot.txCount)
  /\ txPacketHashes' = snapshot.packetHashes
  /\ nextTxId' = snapshot.nextId
  /\ snapshot' = None

\* runTransaction(), when the callback returned.
Commit == snapshot' = None

\* Mutant: the copy is built without the version.
CloneAsNew(vpa) == [vpa |-> vpa, balance |-> accounts[vpa].balance, version |-> 0]

\* findAccountByVpa() returns a copy, not the stored account.
Clone(vpa) == [vpa |-> vpa, balance |-> accounts[vpa].balance,
               version |-> accounts[vpa].version]

\* Mutant: no optimistic lock.
LastWriterWins(acc) == TRUE

\* saveAccount() of a stored account: the version read must be current.
CanSaveAccount(acc) == accounts[acc.vpa].version = acc.version

SaveAccount(acc) ==
  accounts' = [accounts EXCEPT
                 ![acc.vpa] = [balance |-> acc.balance, version |-> acc.version + 1]]

\* Mutant: no unique index, the gate is trusted.
AnyHashMayBeSaved(hash) == TRUE

\* saveTransaction(): the unique index, then the insertion.
CanSaveTransaction(hash) == hash \notin txPacketHashes

SaveTransaction(hash, ins, amount, status) ==
  /\ transactions' = Append(transactions,
       [id |-> nextTxId, packetHash |-> hash, senderVpa |-> ins.senderVpa,
        receiverVpa |-> ins.receiverVpa, amount |-> amount, status |-> status])
  /\ txPacketHashes' = txPacketHashes \cup {hash}
  /\ nextTxId' = nextTxId + 1

-----------------------------------------------------------------------------

\* What is committed: the tables as they will be if the callback throws.
InTransaction == snapshot # None

CommittedAccounts == IF InTransaction THEN snapshot.accounts ELSE accounts

CommittedRows == IF InTransaction THEN SubSeq(transactions, 1, snapshot.txCount)
                 ELSE transactions
=============================================================================
