-------------------------------- MODULE Ledger --------------------------------
(***************************************************************************)
(* What the payment system promises about money: a payment is debited at   *)
(* most once and then credited at most once, each in one atomic step, and  *)
(* an account is never debited below zero.  Only when the answer to a call *)
(* has been lost may a payment be begun again.  A bank may lose all it     *)
(* knows, and starts from its first balances then.  Nothing is said of who *)
(* is told what, and a payment may stop after its debit.                   *)
(***************************************************************************)
EXTENDS Integers

CONSTANTS Customers, InitialBalance, Payments, Sender, Recipient, Amount

VARIABLES
  balance,
  debits, credits,   \* how often each payment has been debited and credited
  lost,              \* an answer has been lost
  forgot             \* a bank has lost its memory

vars == <<balance, debits, credits, lost, forgot>>

Init ==
  /\ balance = InitialBalance
  /\ debits = [p \in Payments |-> 0]
  /\ credits = [p \in Payments |-> 0]
  /\ lost = FALSE
  /\ forgot = FALSE

LoseAnswer ==
  /\ lost' = TRUE
  /\ UNCHANGED <<balance, debits, credits, forgot>>

Debit(p) ==
  /\ debits[p] = 0 \/ lost
  /\ balance[Sender[p]] >= Amount[p]
  /\ debits' = [debits EXCEPT ![p] = @ + 1]
  /\ balance' = [balance EXCEPT ![Sender[p]] = @ - Amount[p]]
  /\ UNCHANGED <<credits, lost, forgot>>

Credit(p) ==
  /\ credits[p] < debits[p] \/ forgot
  /\ credits' = [credits EXCEPT ![p] = @ + 1]
  /\ balance' = [balance EXCEPT ![Recipient[p]] = @ + Amount[p]]
  /\ UNCHANGED <<debits, lost, forgot>>

(* The accounts A are as they were at first, without the debits and the    *)
(* credits they have seen; the other side of such a payment stays.         *)
Forget(A) ==
  /\ balance' = [a \in Customers |-> IF a \in A THEN InitialBalance[a] ELSE balance[a]]
  /\ debits' = [p \in Payments |-> IF Sender[p] \in A THEN 0 ELSE debits[p]]
  /\ credits' = [p \in Payments |-> IF Recipient[p] \in A THEN 0 ELSE credits[p]]
  /\ forgot' = TRUE
  /\ UNCHANGED lost

Next ==
  \/ LoseAnswer
  \/ \E A \in SUBSET Customers : Forget(A)
  \/ \E p \in Payments : Debit(p) \/ Credit(p)

Spec == Init /\ [][Next]_vars
===============================================================================
