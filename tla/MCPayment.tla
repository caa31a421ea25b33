------------------------------- MODULE MCPayment ------------------------------
(***************************************************************************)
(* Small instances of PaymentSystem for TLC.  The customers are those of   *)
(* q3/sample_data: alice and bob at bank1, charlie at bank2.               *)
(***************************************************************************)
EXTENDS PaymentSystem

MCBanks == {"bank1", "bank2"}
MCCustomers == {"alice", "bob", "charlie"}
MCAccounts == MCCustomers
MCBankOf == [a \in MCAccounts |-> IF a \in {"alice", "bob"} THEN "bank1" ELSE "bank2"]
MCBalance == [alice |-> 6, bob |-> 4, charlie |-> 1]

(* One transfer between two banks.                                         *)
OnePayment == {"p"}
OneSender == [p |-> "alice"]
OneRecipient == [p |-> "charlie"]
OneAmount == [p |-> 2]

TwoPayments == {"p", "q"}
(* Two debits of alice that her balance cannot both cover.                 *)
SpendSender == [p |-> "alice", q |-> "alice"]
SpendRecipient == [p |-> "charlie", q |-> "bob"]
SpendAmount == [p |-> 4, q |-> 5]

(* Two transfers that lock the same accounts in opposite orders.           *)
CrossSender == [p |-> "alice", q |-> "charlie"]
CrossRecipient == [p |-> "charlie", q |-> "alice"]
CrossAmount == [p |-> 4, q |-> 1]
-------------------------------------------------------------------------------
(* Instances with two payments start when both banks have registered and   *)
(* listen, a state that Spec reaches before any request is sent.           *)
ServingInit ==
  /\ bankState = [b \in Banks |-> "serving"]
  /\ BankServers = Banks
  /\ balance = InitialBalance
  /\ isLocked = [a \in Customers |-> FALSE]
  /\ rpc = [c \in Calls |-> "idle"]
  /\ tries = [c \in Calls |-> 0]
  /\ loaded = [c \in Calls |-> 0]
  /\ crashes = 0
  /\ restarts = 0
  /\ UserTransactions = [p \in Payments |-> "absent"]
  /\ pc = [h \in Handlers |-> "none"]
  /\ gatewayUp = TRUE
  /\ gatewayRestarts = 0
  /\ expired = {}
  /\ timeouts = 0
  /\ drops = 0
  /\ ClientInit

ServingSpec == ServingInit /\ [][Next]_vars
FairServingSpec == ServingSpec /\ Fairness
===============================================================================
