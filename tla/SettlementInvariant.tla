------------------------ MODULE SettlementInvariant ------------------------
(***************************************************************************)
(* The inductive invariant of SettlementService: what the snapshot, the    *)
(* tables and the copies of the two accounts are to each other at each     *)
(* place settle() can be.  TLC checks it, SettlementProofs proves it.      *)
(***************************************************************************)
EXTENDS SettlementService

\* Inside the callback of runTransaction().
Busy == pc \in {"verify", "saveSender", "saveReceiver", "saveSettled", "saveRejected"}

\* The snapshot differs from the tables in the accounts at most.
SnapshotInv ==
  /\ InTransaction <=> Busy
  /\ Busy => /\ snapshot \in Snapshot
             /\ snapshot.txCount = Len(transactions)
             /\ snapshot.packetHashes = txPacketHashes
             /\ snapshot.nextId = nextTxId
             /\ \A v \in Accounts : snapshot.accounts[v].balance >= 0
  /\ pc \in {"verify", "saveSender", "saveRejected"} => accounts = snapshot.accounts

ParametersInv ==
  /\ Busy => instruction \in Instructions /\ packetHash \in Hashes
  /\ Busy /\ pc # "verify" => Acceptable

\* A saved account.
Saved(account, balance) == [balance |-> balance, version |-> account.version + 1]

\* Where a transfer of debit out and credit in stands, counted from the snapshot.
\* The second save succeeds only if the first one was of another account.
Transferring(debit, credit) ==
  LET old == snapshot.accounts
      s == instruction.senderVpa
      r == instruction.receiverVpa
  IN /\ 0 <= debit /\ debit <= old[s].balance
     /\ 0 <= credit
     /\ sender = [vpa |-> s, balance |-> old[s].balance - debit,
                  version |-> old[s].version]
     /\ receiver = [vpa |-> r, balance |-> old[r].balance + credit,
                    version |-> old[r].version]
     /\ pc = "saveReceiver" =>
          accounts = [old EXCEPT ![s] = Saved(old[s], old[s].balance - debit)]
     /\ pc = "saveSettled" =>
          /\ s # r
          /\ accounts = [old EXCEPT ![s] = Saved(old[s], old[s].balance - debit),
                                    ![r] = Saved(old[r], old[r].balance + credit)]

TransferInv ==
  pc \in {"saveSender", "saveReceiver", "saveSettled"} =>
    \E debit, credit \in ToFixed(instruction.amount) : Transferring(debit, credit)

\* What settle() relies on and keeps, at each of its steps: the snapshot is what a
\* rollback must restore, the copies are the accounts of the snapshot with the new
\* balances, and money has left the sender, or reached the receiver, exactly when
\* pc says so.
SettlementInv ==
  /\ SettlementTypeOK
  /\ LedgerIndexed
  /\ NoOverdraft
  /\ SnapshotInv
  /\ ParametersInv
  /\ TransferInv
=============================================================================
