------------------------------- MODULE Rupees -------------------------------
(***************************************************************************)
(* Amounts and balances of the ledger.                                     *)
(*                                                                         *)
(* A balance is a string with two decimals (Account.js): here a number of  *)
(* paise.  The amount of an instruction is whatever decimal the phone put  *)
(* in it (a JSON number is rounded to two decimals when the instruction is *)
(* built, a JSON string is kept), so it has a whole number of paise and a  *)
(* fraction of a paisa that toFixed(2) rounds away, of which only the side *)
(* of the half matters.  "nan" is an amount parseFloat cannot read.        *)
(***************************************************************************)
EXTENDS Integers

Fractions == {"none", "low", "half", "high"}

Amounts == [paise : Int, frac : Fractions \cup {"nan"}]

\* ~(isNaN(amount) || amount <= 0)
IsPositive(amount) ==
  /\ amount.frac # "nan"
  /\ amount.paise > 0 \/ (amount.paise = 0 /\ amount.frac # "none")

\* senderBalance < amount
Exceeds(amount, balance) ==
  amount.paise > balance \/ (amount.paise = balance /\ amount.frac # "none")

(***************************************************************************)
(* What toFixed(2) can make of a balance plus or minus the amount, as the  *)
(* number of paise the balance then changes by.  Half a paisa has no exact *)
(* binary value: the sum is a little above or below the tie depending on   *)
(* the other operand, so either neighbour may come out, independently at   *)
(* each use (0.01 - 0.005 gives 0.01, 1000 + 0.005 gives 1000.00).         *)
(***************************************************************************)
ToFixed(amount) ==
  {x \in {amount.paise, amount.paise + 1} :
     /\ amount.frac \in {"none", "low"} => x = amount.paise
     /\ amount.frac = "high" => x = amount.paise + 1}
=============================================================================
