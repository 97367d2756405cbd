-------------------------- MODULE SettlementProofs --------------------------
(***************************************************************************)
(* What is proved of SettlementService for every set of accounts, hashes   *)
(* and instructions; and that it implements Ledger, if toFixed(2) rounds   *)
(* the amounts in one way only.                                            *)
(***************************************************************************)
EXTENDS SettlementInvariant, Loops, SequenceTheorems, FiniteSetTheorems, TLAPS

\* What toFixed(2) makes of an amount that passed the checks is no more than the
\* balance it was compared with.
LEMMA ToFixedBounds ==
  ASSUME NEW amount \in Amounts, NEW balance \in Int,
         IsPositive(amount), ~Exceeds(amount, balance),
         NEW x \in ToFixed(amount)
  PROVE  x \in Int /\ 0 <= x /\ x <= balance
BY SMT DEF ToFixed, IsPositive, Exceeds, Amounts, Fractions

\* Undoing the rows to the count they had at the snapshot leaves them alone.
LEMMA SubSeqWhole ==
  ASSUME NEW S, NEW s \in Seq(S)
  PROVE  SubSeq(s, 1, Len(s)) = s
OBVIOUS

\* The tables once the accounts are seeded satisfy the invariant.
LEMMA InitSettlementInv == SettlementInit => SettlementInv
<1> SUFFICES ASSUME SettlementInit PROVE SettlementInv
  OBVIOUS
<1> USE DEF SettlementInit, DbInit, Seeded
<1>1. SettlementTypeOK
  <2>1. accounts \in AccountTable
    BY SeedsArePositive DEF AccountTable, SeedsArePositive
  <2> QED
    BY <2>1 DEF SettlementTypeOK
<1>2. LedgerIndexed
  BY DEF LedgerIndexed
<1>3. NoOverdraft
  BY SeedsArePositive DEF NoOverdraft, SeedsArePositive
<1>4. SnapshotInv /\ ParametersInv /\ TransferInv
  BY DEF SnapshotInv, ParametersInv, TransferInv, Busy, InTransaction
<1> QED
  BY <1>1, <1>2, <1>3, <1>4 DEF SettlementInv

-----------------------------------------------------------------------------

\* The ledger is indexed as long as nothing touches it.
LEMMA LedgerUntouched ==
  LedgerIndexed /\ UNCHANGED <<transactions, txPacketHashes, nextTxId>> => LedgerIndexed'
BY DEF LedgerIndexed

\* A rollback puts back what the snapshot holds, which of all tables changes at
\* most the accounts.
LEMMA ThrowRestores ==
  ASSUME SettlementInv, Busy, Throw
  PROVE  /\ accounts' = snapshot.accounts
         /\ UNCHANGED <<transactions, txPacketHashes, nextTxId>>
         /\ snapshot' = None /\ pc' = "threw"
BY SubSeqWhole DEF SettlementInv, SettlementTypeOK, SnapshotInv, Throw, Rollback

LEMMA ThrowKeepsInv ==
  ASSUME SettlementInv, Busy, Throw
  PROVE  SettlementInv'
<1>1. /\ accounts' = snapshot.accounts
      /\ UNCHANGED <<transactions, txPacketHashes, nextTxId>>
      /\ snapshot' = None /\ pc' = "threw"
  BY ThrowRestores
<1>2. snapshot \in Snapshot /\ \A v \in Accounts : snapshot.accounts[v].balance >= 0
  BY DEF SettlementInv, SnapshotInv
<1>3. SettlementTypeOK'
  BY <1>1, <1>2 DEF SettlementInv, SettlementTypeOK, Snapshot, Throw, locals
<1>4. LedgerIndexed'
  BY <1>1, LedgerUntouched DEF SettlementInv
<1>5. NoOverdraft'
  BY <1>1, <1>2 DEF NoOverdraft
<1>6. SnapshotInv' /\ ParametersInv' /\ TransferInv'
  BY <1>1 DEF SnapshotInv, ParametersInv, TransferInv, Busy, InTransaction
<1> QED
  BY <1>3, <1>4, <1>5, <1>6 DEF SettlementInv

LEMMA SettleKeepsInv ==
  ASSUME SettlementInv, NEW ins \in Instructions, NEW hash \in Hashes,
         Settle(ins, hash)
  PROVE  SettlementInv'
<1> USE DEF Settle, tables
<1>1. snapshot' \in Snapshot
  BY DEF SettlementInv, SettlementTypeOK, TakeSnapshot, Snapshot
<1>2. SettlementTypeOK'
  BY <1>1 DEF SettlementInv, SettlementTypeOK
<1>3. LedgerIndexed'
  BY LedgerUntouched DEF SettlementInv
<1>4. NoOverdraft'
  BY DEF SettlementInv, NoOverdraft
<1>5. SnapshotInv'
  BY <1>1, NoneIsNoSnapshot DEF SettlementInv, NoOverdraft, SnapshotInv, Busy,
     InTransaction, TakeSnapshot, NoneIsNoSnapshot
<1>6. ParametersInv' /\ TransferInv'
  BY DEF ParametersInv, TransferInv, Busy
<1> QED
  BY <1>2, <1>3, <1>4, <1>5, <1>6 DEF SettlementInv

LEMMA RejectPaymentKeepsInv ==
  ASSUME SettlementInv, RejectPayment
  PROVE  SettlementInv'
<1> USE DEF RejectPayment, tables, locals
<1>1. SettlementTypeOK'
  BY DEF SettlementInv, SettlementTypeOK
<1>2. LedgerIndexed'
  BY LedgerUntouched DEF SettlementInv
<1>3. NoOverdraft'
  BY DEF SettlementInv, NoOverdraft
<1>4. SnapshotInv' /\ ParametersInv' /\ TransferInv'
  BY DEF SettlementInv, SnapshotInv, ParametersInv, TransferInv, Busy, InTransaction,
     Acceptable
<1> QED
  BY <1>1, <1>2, <1>3, <1>4 DEF SettlementInv

LEMMA ComputeBalancesKeepsInv ==
  ASSUME SettlementInv, ComputeBalances
  PROVE  SettlementInv'
<1> DEFINE s == instruction.senderVpa
           r == instruction.receiverVpa
<1>1. PICK debit, credit \in ToFixed(instruction.amount) :
        /\ sender' = [Clone(s) EXCEPT !.balance = @ - debit]
        /\ receiver' = [Clone(r) EXCEPT !.balance = @ + credit]
  BY DEF ComputeBalances
<1>2. /\ pc = "verify" /\ pc' = "saveSender"
      /\ Acceptable /\ ~Insufficient
      /\ UNCHANGED <<accounts, transactions, txPacketHashes, nextTxId, snapshot,
                     instruction, packetHash>>
  BY DEF ComputeBalances, tables
<1>3. /\ instruction \in Instructions /\ instruction.amount \in Amounts
      /\ accounts \in AccountTable /\ accounts = snapshot.accounts
      /\ s \in Accounts /\ r \in Accounts /\ IsPositive(instruction.amount)
  BY <1>2, InstructionType DEF SettlementInv, SettlementTypeOK, ParametersInv, SnapshotInv,
     Busy, Acceptable, InstructionType
<1>4. /\ accounts[s].balance \in Int /\ accounts[s].version \in Nat
      /\ accounts[r].balance \in Int /\ accounts[r].version \in Nat
  BY <1>3 DEF AccountTable
<1>5. /\ debit \in Int /\ 0 <= debit /\ debit <= accounts[s].balance
      /\ credit \in Int /\ 0 <= credit
  BY <1>2, <1>3, <1>4, ToFixedBounds DEF Insufficient
<1>6. /\ sender' = [vpa |-> s, balance |-> accounts[s].balance - debit,
                    version |-> accounts[s].version]
      /\ receiver' = [vpa |-> r, balance |-> accounts[r].balance + credit,
                      version |-> accounts[r].version]
  BY <1>1 DEF Clone
<1>7. sender' \in AccountCopy /\ receiver' \in AccountCopy
  BY <1>3, <1>4, <1>5, <1>6 DEF AccountCopy
<1>8. SettlementTypeOK'
  BY <1>2, <1>7 DEF SettlementInv, SettlementTypeOK
<1>9. LedgerIndexed'
  BY <1>2, LedgerUntouched DEF SettlementInv
<1>10. NoOverdraft'
  BY <1>2 DEF SettlementInv, NoOverdraft
<1>11. SnapshotInv'
  BY <1>2 DEF SettlementInv, SnapshotInv, Busy, InTransaction
<1>12. ParametersInv'
  BY <1>2 DEF SettlementInv, ParametersInv, Busy, Acceptable
<1>13. Transferring(debit, credit)'
  BY <1>2, <1>3, <1>5, <1>6 DEF Transferring
<1>14. TransferInv'
  BY <1>2, <1>13 DEF TransferInv
<1> QED
  BY <1>8, <1>9, <1>10, <1>11, <1>12, <1>14 DEF SettlementInv

LEMMA SaveSenderKeepsInv ==
  ASSUME SettlementInv, SaveSender
  PROVE  SettlementInv'
<1> DEFINE s == instruction.senderVpa
           r == instruction.receiverVpa
           old == snapshot.accounts
<1>1. CASE Throw
  BY <1>1, ThrowKeepsInv DEF SaveSender, SaveClone, Busy
<1>2. CASE ~Throw
  <2>1. /\ pc = "saveSender" /\ pc' = "saveReceiver" /\ SaveAccount(sender)
        /\ UNCHANGED <<transactions, txPacketHashes, nextTxId, snapshot,
                       instruction, packetHash, sender, receiver>>
    BY <1>2 DEF SaveSender, SaveClone, locals
  <2>2. PICK debit, credit \in ToFixed(instruction.amount) : Transferring(debit, credit)
    BY <2>1 DEF SettlementInv, TransferInv
  <2>3. /\ accounts = old /\ accounts \in AccountTable /\ s \in Accounts
        /\ debit \in Int /\ credit \in Int
        /\ \A v \in Accounts : accounts[v].balance >= 0
    BY <2>1, <2>2, InstructionType DEF SettlementInv, SettlementTypeOK, SnapshotInv,
       ParametersInv, Busy, Acceptable, NoOverdraft, InstructionType, ToFixed, Amounts
  <2>4. accounts' = [old EXCEPT ![s] = Saved(old[s], old[s].balance - debit)]
    BY <2>1, <2>2, <2>3 DEF SaveAccount, Transferring, Saved
  <2>5. Saved(old[s], old[s].balance - debit) \in [balance : Nat, version : Nat]
    BY <2>2, <2>3 DEF Saved, Transferring, AccountTable
  <2>6. SettlementTypeOK'
    BY <2>1, <2>3, <2>4, <2>5 DEF SettlementInv, SettlementTypeOK, AccountTable
  <2>7. LedgerIndexed'
    BY <2>1, LedgerUntouched DEF SettlementInv
  <2>8. NoOverdraft'
    BY <2>3, <2>4, <2>5 DEF NoOverdraft, AccountTable
  <2>9. SnapshotInv' /\ ParametersInv'
    BY <2>1 DEF SettlementInv, SnapshotInv, ParametersInv, Busy, InTransaction, Acceptable
  <2>10. Transferring(debit, credit)'
    BY <2>1, <2>2, <2>4 DEF Transferring
  <2>11. TransferInv'
    BY <2>1, <2>10 DEF TransferInv
  <2> QED
    BY <2>6, <2>7, <2>8, <2>9, <2>11 DEF SettlementInv
<1> QED
  BY <1>1, <1>2

LEMMA SaveReceiverKeepsInv ==
  ASSUME SettlementInv, SaveReceiver
  PROVE  SettlementInv'
<1> DEFINE s == instruction.senderVpa
           r == instruction.receiverVpa
           old == snapshot.accounts
<1>1. CASE Throw
  BY <1>1, ThrowKeepsInv DEF SaveReceiver, SaveClone, Busy
<1>2. CASE ~Throw
  <2>1. /\ pc = "saveReceiver" /\ pc' = "saveSettled"
        /\ CanSaveAccount(receiver) /\ SaveAccount(receiver)
        /\ UNCHANGED <<transactions, txPacketHashes, nextTxId, snapshot,
                       instruction, packetHash, sender, receiver>>
    BY <1>2 DEF SaveReceiver, SaveClone, locals
  <2>2. PICK debit, credit \in ToFixed(instruction.amount) : Transferring(debit, credit)
    BY <2>1 DEF SettlementInv, TransferInv
  <2>3. /\ old \in AccountTable /\ s \in Accounts /\ r \in Accounts
        /\ debit \in Int /\ credit \in Int
        /\ \A v \in Accounts : old[v].balance >= 0
    BY <2>1, InstructionType DEF SettlementInv, SettlementTypeOK, SnapshotInv, Snapshot,
       ParametersInv, Busy, Acceptable, InstructionType, ToFixed, Amounts
  <2>4. accounts = [old EXCEPT ![s] = Saved(old[s], old[s].balance - debit)]
    BY <2>1, <2>2 DEF Transferring
  <2>5. receiver = [vpa |-> r, balance |-> old[r].balance + credit,
                    version |-> old[r].version]
    BY <2>2 DEF Transferring
  \* The optimistic lock: the copy of an account that was just saved is stale.
  <2>6. s # r
    <3>1. SUFFICES ASSUME s = r PROVE FALSE
      OBVIOUS
    <3>2. accounts[r].version = old[r].version + 1
      BY <2>3, <2>4, <3>1 DEF Saved, AccountTable
    <3>3. accounts[r].version = old[r].version
      BY <2>1, <2>5 DEF CanSaveAccount
    <3> QED
      BY <2>3, <3>2, <3>3 DEF AccountTable
  <2>7. accounts' = [old EXCEPT ![s] = Saved(old[s], old[s].balance - debit),
                                ![r] = Saved(old[r], old[r].balance + credit)]
    BY <2>1, <2>3, <2>4, <2>5 DEF SaveAccount, Saved
  <2>8. /\ Saved(old[s], old[s].balance - debit) \in [balance : Nat, version : Nat]
        /\ Saved(old[r], old[r].balance + credit) \in [balance : Nat, version : Nat]
    BY <2>2, <2>3 DEF Saved, Transferring, AccountTable
  <2>9. SettlementTypeOK'
    <3>1. accounts' \in AccountTable
      <4> HIDE DEF s, r, old
      <4> QED
        BY <2>3, <2>7, <2>8 DEF AccountTable
    <3> QED
      BY <2>1, <3>1 DEF SettlementInv, SettlementTypeOK
  <2>10. LedgerIndexed'
    BY <2>1, LedgerUntouched DEF SettlementInv
  <2>11. NoOverdraft'
    BY <2>3, <2>7, <2>8 DEF NoOverdraft, AccountTable
  <2>12. SnapshotInv' /\ ParametersInv'
    BY <2>1 DEF SettlementInv, SnapshotInv, ParametersInv, Busy, InTransaction, Acceptable
  <2>13. Transferring(debit, credit)'
    BY <2>1, <2>2, <2>6, <2>7 DEF Transferring
  <2>14. TransferInv'
    BY <2>1, <2>13 DEF TransferInv
  <2> QED
    BY <2>9, <2>10, <2>11, <2>12, <2>14 DEF SettlementInv
<1> QED
  BY <1>1, <1>2

LEMMA SaveRowKeepsInv ==
  ASSUME SettlementInv, SaveRow
  PROVE  SettlementInv'
<1>1. CASE Throw
  BY <1>1, ThrowKeepsInv DEF SaveRow, Busy
<1>2. CASE ~Throw
  <2> DEFINE status == IF pc = "saveSettled" THEN "SETTLED" ELSE "REJECTED"
             n == Len(transactions)
  <2>1. PICK amount \in ToFixed(instruction.amount) :
          SaveTransaction(packetHash, instruction, amount, status)
    BY <1>2 DEF SaveRow
  <2>2. /\ pc \in {"saveSettled", "saveRejected"} /\ pc' = "returned"
        /\ CanSaveTransaction(packetHash) /\ snapshot' = None
        /\ UNCHANGED <<accounts, instruction, packetHash, sender, receiver>>
    BY <1>2 DEF SaveRow, Commit, locals
  <2>3. /\ instruction \in Instructions /\ packetHash \in Hashes
        /\ instruction.senderVpa \in Accounts /\ instruction.receiverVpa \in Accounts
        /\ amount \in Int
    BY <2>2, InstructionType DEF SettlementInv, ParametersInv, Busy, Acceptable,
       InstructionType, ToFixed, Amounts
  <2> DEFINE row == [id |-> nextTxId, packetHash |-> packetHash,
                     senderVpa |-> instruction.senderVpa,
                     receiverVpa |-> instruction.receiverVpa,
                     amount |-> amount, status |-> status]
  <2>4. /\ transactions' = Append(transactions, row)
        /\ txPacketHashes' = txPacketHashes \cup {packetHash}
        /\ nextTxId' = nextTxId + 1
        /\ packetHash \notin txPacketHashes
    BY <2>1, <2>2 DEF SaveTransaction, CanSaveTransaction
  <2>5. row \in Row /\ transactions \in Seq(Row) /\ nextTxId \in Nat
    BY <2>3 DEF Row, SettlementInv, SettlementTypeOK
  <2>6. SettlementTypeOK'
    BY <2>2, <2>3, <2>4, <2>5 DEF SettlementInv, SettlementTypeOK
  <2>7. /\ Len(transactions') = n + 1 /\ n \in Nat
        /\ transactions'[n + 1] = row
        /\ \A i \in 1..n : transactions'[i] = transactions[i]
    <3> HIDE DEF row
    <3> QED
      BY <2>4, <2>5
  <2>8. LedgerIndexed'
    <3> USE DEF LedgerIndexed
    <3>1. LedgerIndexed
      BY DEF SettlementInv
    <3>2. nextTxId' = Len(transactions') + 1
      BY <2>4, <2>7, <3>1
    <3>3. \A i \in 1..Len(transactions') : transactions'[i].id = i
      BY <2>7, <3>1
    <3>4. \A i \in 1..n : transactions'[i].packetHash # packetHash
      BY <2>4, <2>7, <3>1
    <3>5. txPacketHashes' = {transactions'[i].packetHash : i \in 1..Len(transactions')}
      <4>1. 1..Len(transactions') = 1..n \cup {n + 1}
        BY <2>7
      <4> QED
        BY <2>4, <2>7, <3>1, <4>1
    <3>6. \A i, j \in 1..Len(transactions') :
            transactions'[i].packetHash = transactions'[j].packetHash => i = j
      BY <2>7, <3>1, <3>4
    <3> QED
      BY <3>2, <3>3, <3>5, <3>6
  <2>9. NoOverdraft'
    BY <2>2 DEF SettlementInv, NoOverdraft
  <2>10. SnapshotInv' /\ ParametersInv' /\ TransferInv'
    BY <2>2 DEF SnapshotInv, ParametersInv, TransferInv, Busy, InTransaction
  <2> QED
    BY <2>6, <2>8, <2>9, <2>10 DEF SettlementInv
<1> QED
  BY <1>1, <1>2

LEMMA ReturnKeepsInv ==
  ASSUME SettlementInv, Return
  PROVE  SettlementInv'
<1> USE DEF Return, tables
<1>1. SettlementTypeOK'
  BY DEF SettlementInv, SettlementTypeOK
<1>2. LedgerIndexed'
  BY LedgerUntouched DEF SettlementInv
<1>3. NoOverdraft'
  BY DEF SettlementInv, NoOverdraft
<1>4. SnapshotInv' /\ ParametersInv' /\ TransferInv'
  BY DEF SettlementInv, SnapshotInv, ParametersInv, TransferInv, Busy, InTransaction
<1> QED
  BY <1>1, <1>2, <1>3, <1>4 DEF SettlementInv

LEMMA StutterKeepsInv ==
  ASSUME SettlementInv, UNCHANGED settlementVars
  PROVE  SettlementInv'
BY DEF settlementVars, SettlementInv, SettlementTypeOK, LedgerIndexed, NoOverdraft,
   SnapshotInv, ParametersInv, TransferInv, Transferring, Busy, InTransaction, Acceptable

-----------------------------------------------------------------------------

LEMMA NextKeepsInv ==
  ASSUME SettlementInv, [SettlementNext]_settlementVars
  PROVE  SettlementInv'
<1>1. CASE \E ins \in Instructions, hash \in Hashes : Settle(ins, hash)
  BY <1>1, SettleKeepsInv
<1>2. CASE RefuseInstruction
  BY <1>2, ThrowKeepsInv DEF RefuseInstruction, Busy
<1>3. CASE RejectPayment
  BY <1>3, RejectPaymentKeepsInv
<1>4. CASE ComputeBalances
  BY <1>4, ComputeBalancesKeepsInv
<1>5. CASE SaveSender
  BY <1>5, SaveSenderKeepsInv
<1>6. CASE SaveReceiver
  BY <1>6, SaveReceiverKeepsInv
<1>7. CASE SaveRow
  BY <1>7, SaveRowKeepsInv
<1>8. CASE Return
  BY <1>8, ReturnKeepsInv
<1>9. CASE UNCHANGED settlementVars
  BY <1>9, StutterKeepsInv
<1> QED
  BY <1>1, <1>2, <1>3, <1>4, <1>5, <1>6, <1>7, <1>8, <1>9
     DEF SettlementNext, SettlementStep

\* The unique index only ever gains the hash settle() was called with, when it writes
\* its row.
LEMMA IndexGrowsByRow ==
  ASSUME SettlementInv, [SettlementNext]_settlementVars
  PROVE  \/ UNCHANGED txPacketHashes
         \/ SaveRow /\ ~Throw /\ txPacketHashes' = txPacketHashes \cup {packetHash}
<1>1. CASE Busy /\ Throw
  BY <1>1, ThrowRestores
<1>2. CASE SaveRow /\ ~Throw
  BY <1>2 DEF SaveRow, SaveTransaction
<1>3. CASE ~(Busy /\ Throw) /\ ~SaveRow
  BY <1>3 DEF SettlementNext, SettlementStep, Settle, RefuseInstruction, RejectPayment,
     ComputeBalances, SaveSender, SaveReceiver, SaveClone, Return, tables, Busy,
     settlementVars
<1>4. SaveRow => Busy
  BY DEF SaveRow, Busy
<1> QED
  BY <1>1, <1>2, <1>3, <1>4

\* The versions the optimistic lock compares are those of the snapshot, but for the
\* account saved first.
LEMMA SavesFailForAReason ==
  ASSUME SettlementInv
  PROVE  /\ pc = "saveSender" => CanSaveAccount(sender)
         /\ pc = "saveReceiver" /\ instruction.senderVpa # instruction.receiverVpa
              => CanSaveAccount(receiver)
<1> DEFINE s == instruction.senderVpa
           r == instruction.receiverVpa
           old == snapshot.accounts
<1>1. ASSUME pc \in {"saveSender", "saveReceiver"}
      PROVE  /\ old \in AccountTable /\ s \in Accounts /\ r \in Accounts
             /\ \E debit, credit \in ToFixed(instruction.amount) : Transferring(debit, credit)
  BY <1>1 DEF SettlementInv, SnapshotInv, Snapshot, ParametersInv, TransferInv, Busy, Acceptable
<1>2. ASSUME pc = "saveSender" PROVE CanSaveAccount(sender)
  <2>1. sender.vpa = s /\ sender.version = old[s].version
    BY <1>1, <1>2 DEF Transferring
  <2>2. accounts = old
    BY <1>2 DEF SettlementInv, SnapshotInv
  <2> QED
    BY <2>1, <2>2 DEF CanSaveAccount
<1>3. ASSUME pc = "saveReceiver", s # r PROVE CanSaveAccount(receiver)
  <2>1. PICK debit, credit \in ToFixed(instruction.amount) : Transferring(debit, credit)
    BY <1>1, <1>3
  <2>2. /\ receiver.vpa = r /\ receiver.version = old[r].version
        /\ accounts = [old EXCEPT ![s] = Saved(old[s], old[s].balance - debit)]
    BY <1>3, <2>1 DEF Transferring
  <2>3. accounts[r] = old[r]
    BY <1>1, <1>3, <2>2 DEF AccountTable
  <2> QED
    BY <2>2, <2>3 DEF CanSaveAccount
<1> QED
  BY <1>2, <1>3

LEMMA NextKeepsReasons ==
  ASSUME SettlementInv, ThrowsForAReason, [SettlementNext]_settlementVars
  PROVE  ThrowsForAReason'
<1>1. CASE Busy /\ Throw
  <2>1. UNCHANGED <<instruction, packetHash, txPacketHashes>> /\ pc' = "threw"
    BY <1>1, ThrowRestores DEF Throw, locals
  <2>2. CASE RefuseInstruction
    BY <2>1, <2>2 DEF RefuseInstruction, ThrowsForAReason, Acceptable
  <2>3. CASE SaveSender \/ SaveReceiver
    BY <2>1, <2>3, SavesFailForAReason DEF SaveSender, SaveReceiver, SaveClone, ThrowsForAReason
  <2>4. CASE SaveRow
    BY <2>1, <2>4 DEF SaveRow, CanSaveTransaction, ThrowsForAReason
  <2>5. ~(RejectPayment \/ ComputeBalances \/ Return)
    BY <1>1, <2>1 DEF RejectPayment, ComputeBalances, Return
  <2>6. ~(\E ins \in Instructions, hash \in Hashes : Settle(ins, hash))
    BY <1>1 DEF Settle, Busy
  <2>7. ~UNCHANGED settlementVars
    BY <1>1, <2>1 DEF settlementVars, Busy
  <2> QED
    BY <2>2, <2>3, <2>4, <2>5, <2>6, <2>7 DEF SettlementNext, SettlementStep
<1>2. CASE SettlementNext /\ ~(Busy /\ Throw)
  <2>1. pc' # "threw"
    BY <1>2 DEF SettlementNext, SettlementStep, Settle, RefuseInstruction, RejectPayment,
       ComputeBalances, SaveSender, SaveReceiver, SaveClone, SaveRow, Return, Busy
  <2> QED
    BY <2>1 DEF ThrowsForAReason
<1>3. CASE UNCHANGED settlementVars
  BY <1>3 DEF settlementVars, ThrowsForAReason, Acceptable
<1> QED
  BY <1>1, <1>2, <1>3

\* Whatever settle() is called with and wherever it throws: at each of its steps
\* the snapshot is what a rollback must restore, and the accounts are those of the
\* snapshot with the debit and the credit applied that pc says are done.
THEOREM SettleKeepsItsInvariant == SettlementSpec => []SettlementInv
BY InitSettlementInv, NextKeepsInv, PTL DEF SettlementSpec

\* Type correctness of the tables, the snapshot and the locals of settle().
THEOREM SettlementTypeCorrect == SettlementSpec => []SettlementTypeOK
<1>1. SettlementInv => SettlementTypeOK
  BY DEF SettlementInv
<1> QED
  BY <1>1, SettleKeepsItsInvariant, PTL

\* settle() never overdraws an account.
THEOREM NeverOverdrawn == SettlementSpec => []NoOverdraft
<1>1. SettlementInv => NoOverdraft
  BY DEF SettlementInv
<1> QED
  BY <1>1, SettleKeepsItsInvariant, PTL

\* A payment between two accounts that may be paid is never stopped by the optimistic
\* lock: settle() throws for what the instruction says, or because the hash has its row.
THEOREM SettleThrowsForAReason == SettlementSpec => []ThrowsForAReason
<1>1. SettlementInit => ThrowsForAReason
  BY DEF SettlementInit, ThrowsForAReason
<1> QED
  BY <1>1, SettleKeepsItsInvariant, NextKeepsReasons, PTL DEF SettlementSpec

\* Rows, row numbers and the unique index agree, and a packet hash has one row.
THEOREM LedgerStaysIndexed == SettlementSpec => []LedgerIndexed
<1>1. SettlementInv => LedgerIndexed
  BY DEF SettlementInv
<1> QED
  BY <1>1, SettleKeepsItsInvariant, PTL

-----------------------------------------------------------------------------

\* Between transactions the tables are what is committed; during one, the snapshot.
LEMMA WhatIsCommitted ==
  ASSUME SettlementInv
  PROVE  /\ CommittedRows = transactions
         /\ CommittedAccounts = IF Busy THEN snapshot.accounts ELSE accounts
BY SubSeqWhole DEF SettlementInv, SettlementTypeOK, SnapshotInv, CommittedRows,
   CommittedAccounts, InTransaction

\* Without ties toFixed(2) has one outcome.
LEMMA ToFixedIsUnique ==
  ASSUME NoTies, NEW i \in Instructions, IsPositive(i.amount),
         NEW x \in ToFixed(i.amount), NEW y \in ToFixed(i.amount)
  PROVE  x = y
BY InstructionType DEF NoTies, ToFixed, IsPositive, Amounts, Fractions, InstructionType

\* The hashes the abstract ledger has decided are those of the unique index.
LEMMA DecidedIsIndex ==
  ASSUME SettlementInv
  PROVE  AbstractLedger!Decided = txPacketHashes
<1>1. CommittedRows = transactions /\ transactions \in Seq(Row)
  BY WhatIsCommitted DEF SettlementInv, SettlementTypeOK
<1>2. \A i \in 1..Len(transactions) : transactions[i].status \in {"SETTLED", "REJECTED"}
  <2>1. \A i \in 1..Len(transactions) : transactions[i] \in Row
    BY <1>1
  <2> QED
    BY <2>1 DEF Row
<1>3. txPacketHashes = {transactions[i].packetHash : i \in 1..Len(transactions)}
  BY DEF SettlementInv, LedgerIndexed
<1>4. \A i \in 1..Len(transactions) :
        PaymentOf(transactions[i]).packetHash = transactions[i].packetHash
  BY DEF PaymentOf
<1>5. ASSUME NEW h \in AbstractLedger!Decided PROVE h \in txPacketHashes
  BY <1>1, <1>3, <1>4, <1>5 DEF AbstractLedger!Decided, LedgerPayments, LedgerRefused, RowsWith
<1>6. ASSUME NEW h \in txPacketHashes PROVE h \in AbstractLedger!Decided
  <2>1. PICK i \in 1..Len(transactions) : transactions[i].packetHash = h
    BY <1>3
  <2>2. CASE transactions[i].status = "SETTLED"
    <3>1. i \in RowsWith("SETTLED")
      BY <1>1, <2>2 DEF RowsWith
    <3> QED
      BY <1>1, <1>4, <2>1, <3>1 DEF AbstractLedger!Decided, LedgerPayments
  <2>3. CASE transactions[i].status = "REJECTED"
    <3>1. i \in RowsWith("REJECTED")
      BY <1>1, <2>3 DEF RowsWith
    <3> QED
      BY <1>1, <2>1, <3>1 DEF AbstractLedger!Decided, LedgerRefused
  <2> QED
    BY <1>2, <2>2, <2>3
<1> QED
  BY <1>5, <1>6

LEMMA InitRefinesLedger == SettlementInit => AbstractLedger!Init
<1> SUFFICES ASSUME SettlementInit PROVE AbstractLedger!Init
  OBVIOUS
<1>1. CommittedRows = <<>> /\ CommittedAccounts = accounts
  BY DEF SettlementInit, DbInit, CommittedRows, CommittedAccounts, InTransaction
<1>2. RowsWith("SETTLED") = {} /\ RowsWith("REJECTED") = {}
  BY <1>1 DEF RowsWith
<1>3. LedgerBalance = SeedBalance
  <2>1. \A v \in Accounts : CommittedAccounts[v].balance = SeedBalance[v]
    BY <1>1 DEF SettlementInit, DbInit, Seeded
  <2> QED
    BY <2>1, SeedsArePositive DEF LedgerBalance, SeedsArePositive
<1> QED
  BY <1>2, <1>3 DEF AbstractLedger!Init, LedgerPayments, LedgerRefused

-----------------------------------------------------------------------------

\* A step that commits nothing is invisible to the abstract ledger.
LEMMA Invisible ==
  ASSUME UNCHANGED <<CommittedAccounts, CommittedRows>>
  PROVE  UNCHANGED AbstractLedger!vars
BY DEF AbstractLedger!vars, LedgerBalance, LedgerPayments, LedgerRefused, RowsWith

LEMMA QuietSteps ==
  ASSUME SettlementInv, SettlementInv', [SettlementNext]_settlementVars,
         ~(SaveRow /\ ~Throw)
  PROVE  UNCHANGED <<CommittedAccounts, CommittedRows>>
<1>1. /\ CommittedRows = transactions
      /\ CommittedAccounts = IF Busy THEN snapshot.accounts ELSE accounts
  BY WhatIsCommitted
<1>2. /\ CommittedRows' = transactions'
      /\ CommittedAccounts' = IF Busy' THEN snapshot'.accounts ELSE accounts'
  BY SubSeqWhole DEF SettlementInv, SettlementTypeOK, SnapshotInv, CommittedRows,
     CommittedAccounts, InTransaction
<1>3. CASE \E ins \in Instructions, hash \in Hashes : Settle(ins, hash)
  BY <1>1, <1>2, <1>3 DEF Settle, TakeSnapshot, tables, Busy
<1>4. CASE Busy /\ Throw
  BY <1>1, <1>2, <1>4, ThrowRestores DEF Busy
<1>5. CASE RejectPayment
  BY <1>1, <1>2, <1>5 DEF RejectPayment, tables, Busy
<1>6. CASE ComputeBalances
  BY <1>1, <1>2, <1>6 DEF ComputeBalances, tables, Busy
<1>7. CASE SaveSender /\ ~Throw
  BY <1>1, <1>2, <1>7 DEF SaveSender, SaveClone, Busy
<1>8. CASE SaveReceiver /\ ~Throw
  BY <1>1, <1>2, <1>8 DEF SaveReceiver, SaveClone, Busy
<1>9. CASE Return
  BY <1>1, <1>2, <1>9 DEF Return, tables, Busy
<1>10. CASE UNCHANGED settlementVars
  BY <1>1, <1>2, <1>10 DEF settlementVars, Busy
<1>11. SaveRow \/ SaveSender \/ SaveReceiver \/ RefuseInstruction => Busy
  BY DEF SaveRow, SaveSender, SaveReceiver, SaveClone, RefuseInstruction, Busy
<1> QED
  BY <1>3, <1>4, <1>5, <1>6, <1>7, <1>8, <1>9, <1>10, <1>11
     DEF SettlementNext, SettlementStep, RefuseInstruction

LEMMA SaveRowRefinesLedger ==
  ASSUME NoTies, SettlementInv, SettlementInv', SaveRow, ~Throw
  PROVE  packetHash \in Hashes /\ AbstractLedger!Decide(packetHash)
<1> DEFINE s == instruction.senderVpa
           r == instruction.receiverVpa
           h == packetHash
           n == Len(transactions)
           status == IF pc = "saveSettled" THEN "SETTLED" ELSE "REJECTED"
<1>1. /\ Busy /\ pc' = "returned" /\ accounts' = accounts /\ h \notin txPacketHashes
      /\ pc \in {"saveSettled", "saveRejected"}
  BY DEF SaveRow, Busy, CanSaveTransaction
<1>2. PICK amount \in ToFixed(instruction.amount) :
        SaveTransaction(packetHash, instruction, amount, status)
  BY DEF SaveRow
<1>3. /\ instruction \in Instructions /\ h \in Hashes /\ s \in Accounts /\ r \in Accounts
      /\ IsPositive(instruction.amount)
  BY <1>1 DEF SettlementInv, ParametersInv, Acceptable
<1> DEFINE row == [id |-> nextTxId, packetHash |-> h, senderVpa |-> s,
                   receiverVpa |-> r, amount |-> amount, status |-> status]
<1>4. /\ CommittedRows = transactions
      /\ CommittedAccounts = snapshot.accounts
  BY <1>1, WhatIsCommitted
<1>5. /\ CommittedRows' = Append(transactions, row)
      /\ CommittedAccounts' = accounts
  <2>1. CommittedRows' = transactions' /\ CommittedAccounts' = accounts'
    BY <1>1 DEF SettlementInv, SnapshotInv, Busy, CommittedRows, CommittedAccounts,
       InTransaction
  <2>2. transactions' = Append(transactions, row)
    BY <1>2 DEF SaveTransaction
  <2> QED
    BY <1>1, <2>1, <2>2
<1>6. /\ transactions \in Seq(Row) /\ n \in Nat
      /\ Len(CommittedRows') = n + 1
      /\ CommittedRows'[n + 1] = row
      /\ \A i \in 1..n : CommittedRows'[i] = CommittedRows[i]
      /\ 1..(n + 1) = 1..n \cup {n + 1}
  <2>1. transactions \in Seq(Row)
    BY DEF SettlementInv, SettlementTypeOK
  <2> HIDE DEF row
  <2> QED
    BY <1>4, <1>5, <2>1
<1>7. h \notin AbstractLedger!Decided
  BY <1>1, DecidedIsIndex
<1>8. \A st : RowsWith(st)' = RowsWith(st) \cup (IF status = st THEN {n + 1} ELSE {})
  <2> TAKE st
  <2>1. RowsWith(st) = {i \in 1..n : CommittedRows[i].status = st}
    BY <1>4 DEF RowsWith
  <2>2. RowsWith(st)' = {i \in 1..(n + 1) : CommittedRows'[i].status = st}
    BY <1>6 DEF RowsWith
  <2> QED
    BY <1>6, <2>1, <2>2
<1>9. RowsWith("SETTLED") \subseteq 1..n /\ RowsWith("REJECTED") \subseteq 1..n
  BY <1>4 DEF RowsWith
<1>10. CASE pc = "saveRejected"
  <2>1. accounts = snapshot.accounts /\ status = "REJECTED"
    BY <1>10 DEF SettlementInv, SnapshotInv
  <2>2. UNCHANGED LedgerBalance
    BY <1>4, <1>5, <2>1 DEF LedgerBalance
  <2>3. UNCHANGED LedgerPayments
    BY <1>6, <1>8, <1>9, <2>1 DEF LedgerPayments, PaymentOf
  <2>4. LedgerRefused' = LedgerRefused \cup {h}
    BY <1>6, <1>8, <1>9, <2>1 DEF LedgerRefused
  <2>5. AbstractLedger!Refuse(h)
    BY <1>7, <2>2, <2>3, <2>4 DEF AbstractLedger!Refuse
  <2> QED
    BY <1>3, <2>5 DEF AbstractLedger!Decide
<1>11. CASE pc = "saveSettled"
  <2>1. PICK debit, credit \in ToFixed(instruction.amount) : Transferring(debit, credit)
    BY <1>11 DEF SettlementInv, TransferInv
  <2>2. debit = amount /\ credit = amount
    BY <1>2, <1>3, <2>1, ToFixedIsUnique
  <2> DEFINE old == snapshot.accounts
  <2>3. /\ s # r /\ 0 <= amount /\ amount <= old[s].balance
        /\ accounts = [old EXCEPT ![s] = Saved(old[s], old[s].balance - amount),
                                  ![r] = Saved(old[r], old[r].balance + amount)]
        /\ status = "SETTLED"
    BY <1>11, <2>1, <2>2 DEF Transferring
  <2>4. old \in AccountTable /\ amount \in Int
    BY <1>1, <1>2, <1>3, InstructionType DEF SettlementInv, SnapshotInv, Snapshot,
       ToFixed, Amounts, InstructionType
  <2>5. LedgerBalance' = [LedgerBalance EXCEPT ![s] = @ - amount, ![r] = @ + amount]
    <3> DEFINE new == [LedgerBalance EXCEPT ![s] = @ - amount, ![r] = @ + amount]
    <3>1. LedgerBalance' = [v \in Accounts |-> accounts[v].balance]
      BY <1>5 DEF LedgerBalance
    <3>2. LedgerBalance = [v \in Accounts |-> old[v].balance]
      BY <1>4 DEF LedgerBalance
    <3>3. ASSUME NEW v \in Accounts PROVE accounts[v].balance = new[v]
      BY <1>3, <2>3, <2>4, <3>2 DEF AccountTable, Saved
    <3>4. new = [v \in Accounts |-> new[v]]
      BY <3>2
    <3> QED
      BY <3>1, <3>3, <3>4
  <2>6. LedgerPayments' = LedgerPayments \cup
              {[packetHash |-> h, senderVpa |-> s, receiverVpa |-> r, amount |-> amount]}
    BY <1>6, <1>8, <1>9, <2>3 DEF LedgerPayments, PaymentOf
  <2>7. UNCHANGED LedgerRefused
    BY <1>6, <1>8, <1>9, <2>3 DEF LedgerRefused
  <2>8. LedgerBalance[s] = old[s].balance /\ amount \in 0..LedgerBalance[s]
    BY <1>3, <1>4, <2>3, <2>4 DEF AccountTable, LedgerBalance
  <2>9. AbstractLedger!Transfer(h, s, r, amount)
    BY <1>7, <2>3, <2>5, <2>6, <2>7, <2>8 DEF AbstractLedger!Transfer
  <2> QED
    BY <1>3, <2>8, <2>9 DEF AbstractLedger!Decide, Accounts
<1> QED
  BY <1>1, <1>10, <1>11

\* With amounts that need no rounding at the half, every run of settle() is a run
\* of the abstract ledger: money moves from one account to another in one step,
\* with its row, for a packet hash not decided before, or it does not move.
THEOREM SettleImplementsLedger ==
  ASSUME NoTies
  PROVE  SettlementSpec => ImplementsLedger
<1>1. SettlementInv /\ SettlementInv' /\ [SettlementNext]_settlementVars
        => [AbstractLedger!Next]_AbstractLedger!vars
  <2> SUFFICES ASSUME SettlementInv, SettlementInv', [SettlementNext]_settlementVars
               PROVE  [AbstractLedger!Next]_AbstractLedger!vars
    OBVIOUS
  <2>1. CASE SaveRow /\ ~Throw
    BY <2>1, SaveRowRefinesLedger DEF AbstractLedger!Next
  <2>2. CASE ~(SaveRow /\ ~Throw)
    BY <2>2, QuietSteps, Invisible
  <2> QED
    BY <2>1, <2>2
<1> QED
  BY <1>1, InitRefinesLedger, SettleKeepsItsInvariant, PTL
     DEF SettlementSpec, ImplementsLedger, AbstractLedger!Spec

-----------------------------------------------------------------------------

LEMMA EffectIsInt ==
  ASSUME NEW row \in Row, NEW v
  PROVE  Effect(row, v) \in Int
BY DEF Row, Effect

\* A sum is made change by change.
LEMMA SumRuns ==
  ASSUME NEW start \in Int, NEW changes \in Seq(Int)
  PROVE  \E after \in [0..Len(changes) -> Int] :
           /\ after[0] = start /\ Summed(start, changes) = after[Len(changes)]
           /\ \A n \in 1..Len(changes) : after[n] = after[n - 1] + changes[n]
<1> DEFINE N == Len(changes)
           Turn == [sn \in Int \X (1..N) |-> sn[1] + changes[sn[2]]]
           Body(g) == [n \in 0..N |-> IF n = 0 THEN start ELSE g[n - 1] + changes[n]]
           after == CHOOSE g : g = Body(g)
<1>1. N \in Nat /\ \A n \in 1..N : changes[n] \in Int
  OBVIOUS
<1>2. Turn \in [Int \X (1..N) -> Int]
  BY <1>1
<1>3. PICK f \in [0..N -> Int] :
        f[0] = start /\ \A n \in 1..N : f[n] = Turn[<<f[n - 1], n>>]
  <2> HIDE DEF Turn
  <2>1. LoopsOf(N, Int, start, Turn) # {}
    BY <1>1, <1>2, LoopRuns
  <2> QED
    BY <2>1 DEF LoopsOf
<1>4. \A n \in 1..N : f[n] = f[n - 1] + changes[n]
  <2> TAKE n \in 1..N
  <2>1. f[n - 1] \in Int
    BY <1>1
  <2> QED
    BY <1>3, <2>1
<1>5. f = Body(f)
  <2> HIDE DEF Turn
  <2>1. \A n \in 0..N : f[n] = IF n = 0 THEN start ELSE f[n - 1] + changes[n]
    BY <1>1, <1>3, <1>4
  <2>2. f = [n \in 0..N |-> f[n]]
    OBVIOUS
  <2> QED
    BY <2>1, <2>2, Zenon
<1>6. after = Body(after)
  <2> HIDE DEF Body
  <2> QED
    BY <1>5
<1>7. Summed(start, changes) = after[N]
  BY DEF Summed
<1> HIDE DEF after
<1>8. /\ DOMAIN after = 0..N /\ after[0] = start
      /\ \A n \in 1..N : after[n] = after[n - 1] + changes[n]
  <2>1. \A n \in 0..N : after[n] = IF n = 0 THEN start ELSE after[n - 1] + changes[n]
    BY <1>6
  <2>2. 0 \in 0..N /\ \A n \in 1..N : n \in 0..N /\ n # 0
    BY <1>1
  <2> QED
    BY <1>6, <2>1, <2>2
<1> DEFINE T == {n \in 0..N : after[n] \in Int}
<1>9. 0 \in T
  BY <1>1, <1>8
<1>10. ASSUME NEW n \in 0..(N - 1), n \in T PROVE n + 1 \in T
  <2>1. n + 1 \in 1..N /\ (n + 1) - 1 = n
    BY <1>1
  <2>2. after[n + 1] = after[n] + changes[n + 1]
    BY <1>8, <2>1
  <2> QED
    BY <1>1, <1>10, <2>1, <2>2
<1>11. 0..N \subseteq T
  <2> HIDE DEF T
  <2> QED
    BY <1>1, <1>9, <1>10, UpTo
<1>12. after \in [0..N -> Int]
  <2>1. after = [n \in 0..N |-> after[n]]
    BY <1>6, <1>8
  <2> QED
    BY <1>11, <2>1
<1> QED
  BY <1>7, <1>8, <1>12

\* One more change is added to the sum of those before it.
LEMMA SumGrows ==
  ASSUME NEW start \in Int, NEW changes \in Seq(Int), NEW more \in Seq(Int),
         Len(more) = Len(changes) + 1,
         \A n \in 1..Len(changes) : more[n] = changes[n]
  PROVE  Summed(start, more) = Summed(start, changes) + more[Len(more)]
<1> DEFINE N == Len(changes)
<1>1. N \in Nat
  OBVIOUS
<1>2. PICK f \in [0..N -> Int] :
        /\ f[0] = start /\ Summed(start, changes) = f[N]
        /\ \A n \in 1..N : f[n] = f[n - 1] + changes[n]
  BY SumRuns
<1>3. PICK g \in [0..(N + 1) -> Int] :
        /\ g[0] = start /\ Summed(start, more) = g[N + 1]
        /\ \A n \in 1..(N + 1) : g[n] = g[n - 1] + more[n]
  <2>1. \E g \in [0..Len(more) -> Int] :
          /\ g[0] = start /\ Summed(start, more) = g[Len(more)]
          /\ \A n \in 1..Len(more) : g[n] = g[n - 1] + more[n]
    BY SumRuns, Zenon
  <2> QED
    BY <2>1
<1> DEFINE T == {n \in 0..N : g[n] = f[n]}
<1>4. 0 \in T
  BY <1>1, <1>2, <1>3
<1>5. ASSUME NEW n \in 0..(N - 1), n \in T PROVE n + 1 \in T
  <2>1. n + 1 \in 1..N /\ n + 1 \in 1..(N + 1) /\ (n + 1) - 1 = n /\ n + 1 \in 0..N
    BY <1>1
  <2>2. f[n + 1] = f[n] + changes[n + 1] /\ g[n + 1] = g[n] + more[n + 1]
    BY <1>2, <1>3, <2>1
  <2> QED
    BY <1>1, <1>5, <2>1, <2>2
<1>6. 0..N \subseteq T
  <2> HIDE DEF T
  <2> QED
    BY <1>1, <1>4, <1>5, UpTo
<1>7. g[N] = f[N] /\ N + 1 \in 1..(N + 1) /\ (N + 1) - 1 = N /\ f[N] \in Int
  <2>1. N \in T
    <3> HIDE DEF T
    <3> QED
      BY <1>1, <1>6
  <2> QED
    BY <1>1, <2>1
<1>8. g[N + 1] = g[N] + more[N + 1]
  BY <1>3, <1>7
<1> QED
  BY <1>1, <1>2, <1>3, <1>7, <1>8

\* What is taken off one change and put on another leaves the sum alone.
Shifted(new, old, p, q, x) ==
  /\ {old, new} \subseteq Seq(Int) /\ Len(new) = Len(old)
  /\ {p, q} \subseteq 1..Len(old) /\ p # q /\ x \in Int
  /\ new[p] = old[p] - x /\ new[q] = old[q] + x
  /\ \A n \in 1..Len(old) : n # p /\ n # q => new[n] = old[n]

LEMMA SumOfTransfer ==
  ASSUME NEW start \in Int, NEW old, NEW new, NEW p, NEW q, NEW x,
         Shifted(new, old, p, q, x)
  PROVE  Summed(start, new) = Summed(start, old)
<1> USE DEF Shifted
<1> DEFINE N == Len(old)
           Moved(n) == (IF q <= n THEN x ELSE 0) - (IF p <= n THEN x ELSE 0)
<1>1. N \in Nat /\ \A n \in 1..N : old[n] \in Int /\ new[n] \in Int
  OBVIOUS
<1>2. PICK f \in [0..N -> Int] :
        /\ f[0] = start /\ Summed(start, old) = f[N]
        /\ \A n \in 1..N : f[n] = f[n - 1] + old[n]
  BY SumRuns
<1>3. PICK g \in [0..N -> Int] :
        /\ g[0] = start /\ Summed(start, new) = g[N]
        /\ \A n \in 1..N : g[n] = g[n - 1] + new[n]
  <2>1. \E g \in [0..Len(new) -> Int] :
          /\ g[0] = start /\ Summed(start, new) = g[Len(new)]
          /\ \A n \in 1..Len(new) : g[n] = g[n - 1] + new[n]
    BY SumRuns, Zenon
  <2> QED
    BY <2>1
<1> DEFINE T == {n \in 0..N : g[n] = f[n] + Moved(n)}
<1>4. 0 \in T
  <2>1. Moved(0) = 0
    BY <1>1
  <2>2. 0 \in 0..N /\ f[0] = start /\ g[0] = start
    BY <1>1, <1>2, <1>3
  <2> HIDE DEF Moved, N
  <2> QED
    BY <2>1, <2>2
<1>5. ASSUME NEW n \in 0..(N - 1), n \in T PROVE n + 1 \in T
  <2>1. n + 1 \in 1..N /\ (n + 1) - 1 = n /\ n + 1 \in 0..N /\ n \in Nat
    BY <1>1
  <2>2. f[n + 1] = f[n] + old[n + 1] /\ g[n + 1] = g[n] + new[n + 1]
    BY <1>2, <1>3, <2>1
  <2>3. f[n] \in Int /\ old[n + 1] \in Int /\ g[n] = f[n] + Moved(n)
    BY <1>1, <1>5, <2>1
  <2>4. new[n + 1] = old[n + 1] + (Moved(n + 1) - Moved(n))
    <3>1. CASE n + 1 = p
      <4>1. Moved(n + 1) - Moved(n) = -x
        BY <1>1, <2>1, <3>1
      <4> QED
        BY <2>3, <3>1, <4>1
    <3>2. CASE n + 1 = q
      <4>1. Moved(n + 1) - Moved(n) = x
        BY <1>1, <2>1, <3>2
      <4> QED
        BY <2>3, <3>2, <4>1
    <3>3. CASE n + 1 # p /\ n + 1 # q
      <4>1. Moved(n + 1) - Moved(n) = 0
        BY <1>1, <2>1, <3>3
      <4>2. new[n + 1] = old[n + 1]
        BY <2>1, <3>3
      <4> QED
        BY <2>3, <4>1, <4>2
    <3> QED
      BY <3>1, <3>2, <3>3
  <2>5. Moved(n) \in Int /\ Moved(n + 1) \in Int
    OBVIOUS
  <2> HIDE DEF Moved
  <2>6. g[n + 1] = f[n + 1] + Moved(n + 1)
    <3>1. PICK a \in Int, b \in Int, c \in Int, d \in Int :
            a = f[n] /\ b = old[n + 1] /\ c = Moved(n) /\ d = Moved(n + 1)
      BY <2>3, <2>5
    <3>2. g[n + 1] = (a + c) + (b + (d - c)) /\ f[n + 1] = a + b
      BY <2>2, <2>3, <2>4, <3>1
    <3>3. (a + c) + (b + (d - c)) = (a + b) + d
      OBVIOUS
    <3> QED
      BY <3>1, <3>2, <3>3
  <2> QED
    BY <2>1, <2>6
<1>6. 0..N \subseteq T
  <2> HIDE DEF T
  <2> QED
    BY <1>1, <1>4, <1>5, UpTo
<1>7. N \in T /\ f[N] \in Int
  <2>1. N \in 0..N
    BY <1>1
  <2> HIDE DEF T
  <2> QED
    BY <1>6, <2>1
<1>8. Moved(N) = 0
  BY <1>1
<1> HIDE DEF Moved
<1> QED
  BY <1>1, <1>2, <1>3, <1>7, <1>8

\* What the rows say of an account is a sequence of numbers.
LEMMA EffectsAreInt ==
  ASSUME NEW rows \in Seq(Row), NEW v
  PROVE  /\ [n \in DOMAIN rows |-> Effect(rows[n], v)] \in Seq(Int)
         /\ Len([n \in DOMAIN rows |-> Effect(rows[n], v)]) = Len(rows)
BY EffectIsInt

\* The row that commits says what the transaction did to each balance.
LEMMA RowSaysWhatMoved ==
  ASSUME NoTies, SettlementInv, SettlementInv', SaveRow, ~Throw
  PROVE  \E row \in Row :
           /\ CommittedRows' = Append(CommittedRows, row)
           /\ \A v \in Accounts :
                CommittedAccounts'[v].balance = CommittedAccounts[v].balance + Effect(row, v)
<1> DEFINE s == instruction.senderVpa
           r == instruction.receiverVpa
           old == snapshot.accounts
           status == IF pc = "saveSettled" THEN "SETTLED" ELSE "REJECTED"
<1>1. /\ Busy /\ pc' = "returned" /\ accounts' = accounts
      /\ pc \in {"saveSettled", "saveRejected"}
  BY DEF SaveRow, Busy
<1>2. PICK amount \in ToFixed(instruction.amount) :
        SaveTransaction(packetHash, instruction, amount, status)
  BY DEF SaveRow
<1>3. /\ instruction \in Instructions /\ packetHash \in Hashes /\ s \in Accounts
      /\ r \in Accounts /\ IsPositive(instruction.amount) /\ nextTxId \in Nat
      /\ amount \in Int /\ old \in AccountTable
  BY <1>1, <1>2, InstructionType DEF SettlementInv, SettlementTypeOK, ParametersInv, Acceptable,
     SnapshotInv, Snapshot, ToFixed, Amounts, InstructionType
<1> DEFINE row == [id |-> nextTxId, packetHash |-> packetHash, senderVpa |-> s,
                   receiverVpa |-> r, amount |-> amount, status |-> status]
<1>4. /\ row \in Row /\ row.senderVpa = s /\ row.receiverVpa = r
      /\ row.amount = amount /\ row.status = status
  BY <1>3 DEF Row
<1>5. /\ CommittedRows = transactions /\ CommittedAccounts = old
      /\ CommittedRows' = Append(CommittedRows, row) /\ CommittedAccounts' = accounts
  <2>1. CommittedRows' = transactions' /\ CommittedAccounts' = accounts'
    BY <1>1 DEF SettlementInv, SnapshotInv, Busy, CommittedRows, CommittedAccounts,
       InTransaction
  <2>2. transactions' = Append(transactions, row)
    BY <1>2 DEF SaveTransaction
  <2> QED
    BY <1>1, <2>1, <2>2, WhatIsCommitted
<1> HIDE DEF row
<1>6. ASSUME NEW v \in Accounts PROVE accounts[v].balance = old[v].balance + Effect(row, v)
  <2>1. CASE pc = "saveRejected"
    BY <1>3, <1>4, <2>1 DEF SettlementInv, SnapshotInv, Effect, AccountTable
  <2>2. CASE pc = "saveSettled"
    <3>1. PICK debit, credit \in ToFixed(instruction.amount) : Transferring(debit, credit)
      BY <2>2 DEF SettlementInv, TransferInv
    <3>2. debit = amount /\ credit = amount
      BY <1>2, <1>3, <3>1, ToFixedIsUnique
    <3>3. /\ s # r
          /\ accounts = [old EXCEPT ![s] = Saved(old[s], old[s].balance - amount),
                                    ![r] = Saved(old[r], old[r].balance + amount)]
      BY <2>2, <3>1, <3>2 DEF Transferring
    <3>4. accounts[v].balance = IF v = s THEN old[s].balance - amount
                                ELSE IF v = r THEN old[r].balance + amount
                                ELSE old[v].balance
      BY <1>3, <3>3 DEF Saved, AccountTable
    <3>5. Effect(row, v) = IF v = s THEN 0 - amount ELSE IF v = r THEN amount - 0 ELSE 0 - 0
      BY <1>4, <2>2, <3>3 DEF Effect
    <3>6. old[v].balance \in Int
      BY <1>3 DEF AccountTable
    <3> QED
      BY <1>3, <3>4, <3>5, <3>6
  <2> QED
    BY <1>1, <2>1, <2>2
<1> QED
  BY <1>4, <1>5, <1>6

\* What the rows make of the seeded balance of v.
Replayed(rows, v) == Summed(SeedBalance[v], [n \in DOMAIN rows |-> Effect(rows[n], v)])

LEMMA ReplayGrows ==
  ASSUME NEW rows \in Seq(Row), NEW row \in Row, NEW v \in Accounts
  PROVE  Replayed(Append(rows, row), v) = Replayed(rows, v) + Effect(row, v)
<1> DEFINE N == Len(rows)
           longer == Append(rows, row)
           changes == [n \in DOMAIN rows |-> Effect(rows[n], v)]
           more == [n \in DOMAIN longer |-> Effect(longer[n], v)]
<1>1. /\ longer \in Seq(Row) /\ N \in Nat /\ Len(longer) = N + 1 /\ longer[N + 1] = row
      /\ DOMAIN rows = 1..N /\ DOMAIN longer = 1..(N + 1)
      /\ \A n \in 1..N : longer[n] = rows[n] /\ n \in 1..(N + 1)
  OBVIOUS
<1> HIDE DEF longer
<1>2. /\ changes \in Seq(Int) /\ Len(changes) = N
      /\ more \in Seq(Int) /\ Len(more) = N + 1
  BY <1>1, EffectsAreInt
<1>3. \A n \in 1..N : more[n] = changes[n]
  BY <1>1
<1>4. more[N + 1] = Effect(row, v)
  BY <1>1
<1> HIDE DEF more, changes
<1>5. SeedBalance[v] \in Int
  BY SeedsArePositive DEF SeedsArePositive
<1>6. Summed(SeedBalance[v], more) = Summed(SeedBalance[v], changes) + more[Len(more)]
  BY <1>2, <1>3, <1>5, SumGrows
<1> QED
  BY <1>2, <1>4, <1>6 DEF Replayed, changes, more, longer

LEMMA NothingReplayed ==
  ASSUME NEW v \in Accounts
  PROVE  Replayed(<<>>, v) = SeedBalance[v]
<1> DEFINE none == <<>>
           changes == [n \in DOMAIN none |-> Effect(none[n], v)]
<1>1. changes \in Seq(Int) /\ Len(changes) = 0 /\ SeedBalance[v] \in Int
  BY SeedsArePositive DEF SeedsArePositive
<1>2. Replayed(none, v) = Summed(SeedBalance[v], changes)
  BY DEF Replayed
<1> HIDE DEF none, changes
<1>3. \E after \in [0..Len(changes) -> Int] :
        /\ after[0] = SeedBalance[v] /\ Summed(SeedBalance[v], changes) = after[Len(changes)]
        /\ \A n \in 1..Len(changes) : after[n] = after[n - 1] + changes[n]
  BY <1>1, SumRuns, Zenon
<1> QED
  BY <1>1, <1>2, <1>3 DEF none

LEMMA BooksAsReplay ==
  LedgerExplainsBalances <=>
    \A v \in Accounts : CommittedAccounts[v].balance = Replayed(CommittedRows, v)
BY DEF LedgerExplainsBalances, Replayed

LEMMA NextKeepsBooks ==
  ASSUME NoTies, SettlementInv, SettlementInv', LedgerExplainsBalances,
         [SettlementNext]_settlementVars
  PROVE  LedgerExplainsBalances'
<1>1. CASE SaveRow /\ ~Throw
  <2>1. PICK row \in Row :
          /\ CommittedRows' = Append(CommittedRows, row)
          /\ \A v \in Accounts :
               CommittedAccounts'[v].balance = CommittedAccounts[v].balance + Effect(row, v)
    BY <1>1, RowSaysWhatMoved
  <2>2. CommittedRows \in Seq(Row)
    BY WhatIsCommitted DEF SettlementInv, SettlementTypeOK
  <2>3. ASSUME NEW v \in Accounts
        PROVE  CommittedAccounts'[v].balance = Replayed(Append(CommittedRows, row), v)
    BY <2>1, <2>2, BooksAsReplay, ReplayGrows
  <2> QED
    BY <2>1, <2>3 DEF LedgerExplainsBalances, Replayed
<1>2. CASE ~(SaveRow /\ ~Throw)
  BY <1>2, QuietSteps DEF LedgerExplainsBalances
<1> QED
  BY <1>1, <1>2

\* No row explains the seeded balances.
LEMMA FirstBooksBalance ==
  ASSUME SettlementInit
  PROVE  LedgerExplainsBalances
<1>1. CommittedRows = <<>> /\ CommittedAccounts = Seeded
  BY DEF SettlementInit, DbInit, CommittedRows, CommittedAccounts, InTransaction
<1>2. \A v \in Accounts : CommittedAccounts[v].balance = SeedBalance[v]
  BY <1>1 DEF Seeded
<1> QED
  BY <1>1, <1>2, NothingReplayed, BooksAsReplay

\* The books balance: replaying the rows of the ledger from the seeded balances yields
\* what each account holds, for any accounts, instructions and number of calls and
\* wherever they threw, if no amount is exactly between two paise.
THEOREM BooksBalance ==
  ASSUME NoTies
  PROVE  SettlementSpec => []LedgerExplainsBalances
BY FirstBooksBalance, SettleKeepsItsInvariant, NextKeepsBooks, PTL DEF SettlementSpec

-----------------------------------------------------------------------------

LEMMA ListOfNumbers ==
  ASSUME NEW N \in Nat, NEW f \in [1..N -> Int]
  PROVE  f \in Seq(Int) /\ Len(f) = N
OBVIOUS

\* A transfer between two accounts leaves the total alone.
Moves(b, c, s, r, x) ==
  /\ b \in [Accounts -> Int] /\ {s, r} \subseteq Accounts /\ s # r /\ x \in Int
  /\ c = [b EXCEPT ![s] = @ - x, ![r] = @ + x]

LEMMA TransferKeepsTotal ==
  ASSUME NEW b, NEW c, NEW s, NEW r, NEW x, Moves(b, c, s, r, x),
         NEW order \in Enumerations
  PROVE  Total(c, order) = Total(b, order)
<1> USE DEF Moves
<1> DEFINE N == Cardinality(Accounts)
           old == [n \in DOMAIN order |-> b[order[n]]]
           new == [n \in DOMAIN order |-> c[order[n]]]
<1>1. N \in Nat /\ order \in [1..N -> Accounts] /\ DOMAIN order = 1..N
  BY SeedsArePositive, FS_CardinalityType DEF SeedsArePositive, Enumerations
<1>2. c \in [Accounts -> Int]
  OBVIOUS
<1>3. old \in Seq(Int) /\ new \in Seq(Int) /\ Len(old) = N /\ Len(new) = N
  <2>1. \A n \in 1..N : b[order[n]] \in Int /\ c[order[n]] \in Int
    BY <1>1, <1>2
  <2>2. old \in [1..N -> Int] /\ new \in [1..N -> Int]
    BY <1>1, <2>1
  <2> HIDE DEF old, new, N
  <2> QED
    BY <1>1, <2>2, ListOfNumbers
<1>4. PICK p, q \in 1..N : order[p] = s /\ order[q] = r
  BY <1>1 DEF Enumerations
<1>5. /\ p # q /\ new[p] = old[p] - x /\ new[q] = old[q] + x
      /\ \A n \in 1..N : n # p /\ n # q => new[n] = old[n]
  <2>1. \A n \in 1..N : (order[n] = s => n = p) /\ (order[n] = r => n = q)
    BY <1>1, <1>4 DEF Enumerations
  <2>2. \A v \in Accounts : c[v] = IF v = r THEN b[r] + x ELSE IF v = s THEN b[s] - x ELSE b[v]
    OBVIOUS
  <2> QED
    BY <1>1, <1>4, <2>1, <2>2
<1>6. Total(c, order) = Summed(0, new) /\ Total(b, order) = Summed(0, old)
  BY DEF Total
<1> HIDE DEF old, new
<1>7. Summed(0, new) = Summed(0, old)
  <2>1. p \in 1..Len(old) /\ q \in 1..Len(old) /\ Len(new) = Len(old) /\ 0 \in Int
    BY <1>3
  <2>2. \A n \in 1..Len(old) : n # p /\ n # q => new[n] = old[n]
    BY <1>3, <1>5
  <2>3. new[p] = old[p] - x /\ new[q] = old[q] + x /\ p # q
    BY <1>5
  <2>4. old \in Seq(Int) /\ new \in Seq(Int)
    BY <1>3
  <2>5. Shifted(new, old, p, q, x)
    BY <2>1, <2>2, <2>3, <2>4 DEF Shifted
  <2> QED
    BY <2>1, <2>5, SumOfTransfer
<1> QED
  BY <1>6, <1>7

\* No money is made or lost: the committed balances add up to what was seeded, whatever
\* settle() is called with and wherever it throws, if no amount is exactly between two
\* paise.
THEOREM MoneyStays ==
  ASSUME NoTies
  PROVE  SettlementSpec => []MoneyIsConserved
<1>1. AbstractLedger!Init => MoneyIsConserved
  BY DEF AbstractLedger!Init, MoneyIsConserved
<1>2. ASSUME SettlementInv, MoneyIsConserved, [AbstractLedger!Next]_AbstractLedger!vars
      PROVE  MoneyIsConserved'
  <2>1. LedgerBalance \in [Accounts -> Int]
    <3>1. CommittedAccounts \in AccountTable
      <4>1. accounts \in AccountTable /\ (Busy => snapshot \in Snapshot)
        BY <1>2 DEF SettlementInv, SettlementTypeOK, SnapshotInv
      <4>2. snapshot \in Snapshot => snapshot.accounts \in AccountTable
        BY DEF Snapshot
      <4> QED
        BY <1>2, <4>1, <4>2, WhatIsCommitted
    <3> QED
      BY <3>1 DEF AccountTable, LedgerBalance
  <2>2. CASE UNCHANGED LedgerBalance
    BY <1>2, <2>2 DEF MoneyIsConserved, Total
  <2>3. ASSUME NEW s \in Accounts, NEW r \in Accounts, NEW x \in Int, s # r,
               LedgerBalance' = [LedgerBalance EXCEPT ![s] = @ - x, ![r] = @ + x]
        PROVE  MoneyIsConserved'
    <3>1. PICK old, new : old = LedgerBalance /\ new = [old EXCEPT ![s] = @ - x, ![r] = @ + x]
      OBVIOUS
    <3>2. old \in [Accounts -> Int] /\ LedgerBalance' = new
      BY <2>1, <2>3, <3>1
    <3>3. ASSUME NEW order \in Enumerations
          PROVE  Total(new, order) = Total(SeedBalance, order)
      <4>1. Total(new, order) = Total(old, order)
        <5>1. Moves(old, new, s, r, x)
          BY <2>3, <3>1, <3>2 DEF Moves
        <5> QED
          BY <5>1, TransferKeepsTotal
      <4> QED
        BY <1>2, <3>1, <4>1 DEF MoneyIsConserved
    <3> QED
      BY <3>2, <3>3 DEF MoneyIsConserved, Total
  <2>4. CASE \E h \in Hashes, s, r \in Accounts : \E x \in 0..LedgerBalance[s] :
               AbstractLedger!Transfer(h, s, r, x)
    <3>1. PICK h \in Hashes, s \in Accounts, r \in Accounts :
            \E x \in 0..LedgerBalance[s] : AbstractLedger!Transfer(h, s, r, x)
      BY <2>4
    <3>2. PICK x \in 0..LedgerBalance[s] : AbstractLedger!Transfer(h, s, r, x)
      BY <3>1
    <3>3. /\ x \in Int /\ s # r
          /\ LedgerBalance' = [LedgerBalance EXCEPT ![s] = @ - x, ![r] = @ + x]
      BY <3>2 DEF AbstractLedger!Transfer
    <3> QED
      BY <2>3, <3>3
  <2> QED
    BY <1>2, <2>2, <2>4 DEF AbstractLedger!Next, AbstractLedger!Decide,
       AbstractLedger!Refuse, AbstractLedger!vars, Accounts
<1> QED
  BY <1>1, <1>2, SettleKeepsItsInvariant, SettleImplementsLedger, PTL
     DEF ImplementsLedger, AbstractLedger!Spec
=============================================================================
