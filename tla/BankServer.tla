------------------------------ MODULE BankServer ------------------------------
(***************************************************************************)
(* The bank servers of the payment system (q3/server/bank_server).         *)
(*                                                                         *)
(* A bank keeps its customers in memory: a balance and a lock flag per     *)
(* account.  It answers the RPCs of the payment gateway, each in a         *)
(* goroutine of its own.  Every RPC of the system is made on behalf of one *)
(* execution of the gateway's MakePayment handler, and an execution makes  *)
(* each kind of call at most once, so a call is named by the payment, the  *)
(* client attempt whose handler makes it, and its kind.  rpc[c] is how far *)
(* the bank's handler for call c has come; the handler goes on when the    *)
(* gateway has given up waiting, since it never looks at its context.      *)
(*                                                                         *)
(* Amounts are integers: float32 rounding is not modelled.                 *)
(***************************************************************************)
EXTENDS Integers

CONSTANTS
  Banks,               \* bank names
  Accounts,            \* (bank, account number) pairs a request may name
  BankOf,              \* the bank an account belongs to
  Customers,           \* the accounts that exist (bank_customers.json)
  InitialBalance,      \* their balance when the bank starts
  Payments,            \* transaction ids; one per payment a user makes
  Sender, Recipient,   \* the accounts of a payment
  Amount,              \* its amount
  MaxRetries,          \* attempts of the client interceptor
  MaxAcquireAttempts,  \* attempts to take an account lock
  MaxBankCrashes,      \* bound: bank processes killed from outside
  MaxBankRestarts      \* bound: crashed bank processes started again

ASSUME BankAssumption ==
  /\ BankOf \in [Accounts -> Banks]
  /\ Customers \subseteq Accounts
  /\ InitialBalance \in [Customers -> Nat]
  /\ Sender \in [Payments -> Accounts]
  /\ Recipient \in [Payments -> Accounts]
  /\ Amount \in [Payments -> Nat]
  /\ MaxRetries \in Nat \ {0}
  /\ MaxAcquireAttempts \in Nat \ {0}
  /\ MaxBankCrashes \in Nat
  /\ MaxBankRestarts \in Nat

VARIABLES
  bankState,   \* life cycle of each bank process
  balance,     \* Customer.CurrBalance
  isLocked,    \* Customer.isLocked
  rpc,         \* progress of each call at its bank
  tries,       \* failed lock attempts of a prepare handler (variable i)
  loaded,      \* the balance a commit handler has read and not written back
  crashes,     \* bank processes killed so far
  restarts     \* bank processes started again so far

bankVars == <<bankState, balance, isLocked, rpc, tries, loaded, crashes, restarts>>
-------------------------------------------------------------------------------
Attempts == 1 .. MaxRetries
PrepareKinds == {"prepDebit", "prepCredit"}
CommitKinds == {"commDebit", "commCredit"}
Kinds == PrepareKinds \union CommitKinds \union {"release"}
Calls == Payments \X Attempts \X Kinds

BankStates == {"new", "registered", "serving", "down", "restarting"}
RpcStates ==
  {"idle", "sent", "ok", "rejected",          \* not made, in flight, answered
   "gone",                                     \* made to a process that has died
   "acquiring",                                \* prepare
   "valid", "entered", "loaded", "applied"}   \* commit

(* The two sides of a transfer, told apart in the code by ReqType.         *)
IsDebit(c) == c[3] \in {"prepDebit", "commDebit"}
AccountOf(c) ==
  IF c[3] \in {"prepCredit", "commCredit"} THEN Recipient[c[1]] ELSE Sender[c[1]]

Serving(c) == bankState[BankOf[AccountOf(c)]] = "serving"

(* Mutant: the amount is not compared with the balance.                    *)
RequestExists(c) == AccountOf(c) \in Customers

(* checkPrepareRequestValidity and checkCommitRequestValidity are the same *)
(* test: the account exists and a debit does not exceed its balance.       *)
RequestValid(c) ==
  /\ AccountOf(c) \in Customers
  /\ IsDebit(c) => balance[AccountOf(c)] >= Amount[c[1]]

BankInit ==
  /\ bankState = [b \in Banks |-> "new"]
  /\ balance = InitialBalance
  /\ isLocked = [a \in Customers |-> FALSE]
  /\ rpc = [c \in Calls |-> "idle"]
  /\ tries = [c \in Calls |-> 0]
  /\ loaded = [c \in Calls |-> 0]
  /\ crashes = 0
  /\ restarts = 0

(* The handler of call c moves from one of its states to the next.         *)
Step(c, from, to) ==
  /\ Serving(c)
  /\ rpc[c] = from
  /\ rpc' = [rpc EXCEPT ![c] = to]
-------------------------------------------------------------------------------
(* PrepareTransaction: the request is checked first ...                    *)
PrepareRefuse(c) ==
  /\ c[3] \in PrepareKinds
  /\ ~RequestValid(c)
  /\ Step(c, "sent", "rejected")
  /\ UNCHANGED <<bankState, balance, isLocked, tries, loaded, crashes, restarts>>

PrepareAccept(c) ==
  /\ c[3] \in PrepareKinds
  /\ RequestValid(c)
  /\ Step(c, "sent", "acquiring")
  /\ UNCHANGED <<bankState, balance, isLocked, tries, loaded, crashes, restarts>>

(* Mutant: the old value of isLocked is not looked at.                     *)
AcquireLockBlindly(c) ==
  /\ Step(c, "acquiring", "ok")
  /\ isLocked' = [isLocked EXCEPT ![AccountOf(c)] = TRUE]
  /\ tries' = [tries EXCEPT ![c] = 0]
  /\ UNCHANGED <<bankState, balance, loaded, crashes, restarts>>

(* ... and the account lock is taken afterwards, in at most                *)
(* MaxAcquireAttempts attempts with a sleep after each failed one.         *)
AcquireLock(c) ==
  /\ Step(c, "acquiring", "ok")
  /\ ~isLocked[AccountOf(c)]
  /\ isLocked' = [isLocked EXCEPT ![AccountOf(c)] = TRUE]
  /\ tries' = [tries EXCEPT ![c] = 0]
  /\ UNCHANGED <<bankState, balance, loaded, crashes, restarts>>

(* Mutants: one attempt too many; waiting for the lock without a limit.    *)
AcquireOnceMore(c) ==
  /\ rpc[c] = "acquiring"
  /\ isLocked[AccountOf(c)]
  /\ tries[c] < MaxAcquireAttempts
  /\ Step(c, "acquiring", "acquiring")
  /\ tries' = [tries EXCEPT ![c] = @ + 1]
  /\ UNCHANGED <<bankState, balance, isLocked, loaded, crashes, restarts>>

AcquireForever(c) ==
  /\ Step(c, "acquiring", "acquiring")
  /\ isLocked[AccountOf(c)]
  /\ UNCHANGED <<bankState, balance, isLocked, tries, loaded, crashes, restarts>>

AcquireBusy(c) ==
  /\ rpc[c] = "acquiring"
  /\ isLocked[AccountOf(c)]
  /\ \/ /\ tries[c] + 1 < MaxAcquireAttempts
        /\ Step(c, "acquiring", "acquiring")
        /\ tries' = [tries EXCEPT ![c] = @ + 1]
     \/ /\ tries[c] + 1 = MaxAcquireAttempts
        /\ Step(c, "acquiring", "rejected")
        /\ tries' = [tries EXCEPT ![c] = 0]
  /\ UNCHANGED <<bankState, balance, isLocked, loaded, crashes, restarts>>
-------------------------------------------------------------------------------
(* CommitTransaction: validity check, lock check, then the read and the    *)
(* write of the unsynchronised CurrBalance += or -= amount, then unlock.   *)
CommitValidate(c) ==
  /\ c[3] \in CommitKinds
  /\ RequestValid(c)
  /\ Step(c, "sent", "valid")
  /\ UNCHANGED <<bankState, balance, isLocked, tries, loaded, crashes, restarts>>

CommitLockCheck(c) ==
  /\ Step(c, "valid", "entered")
  /\ isLocked[AccountOf(c)]
  /\ UNCHANGED <<bankState, balance, isLocked, tries, loaded, crashes, restarts>>

(* A failed check panics, and gRPC recovers no panic: the process dies.    *)
CommitCheckFails(c) ==
  IF rpc[c] = "sent" THEN ~RequestValid(c) ELSE ~isLocked[AccountOf(c)]

CommitPanic(c) ==
  /\ c[3] \in CommitKinds
  /\ Serving(c)
  /\ rpc[c] \in {"sent", "valid"}
  /\ CommitCheckFails(c)
  /\ bankState' = [bankState EXCEPT ![BankOf[AccountOf(c)]] = "down"]
  /\ UNCHANGED <<balance, isLocked, rpc, tries, loaded, crashes, restarts>>

(* Mutant: the account is unlocked before the balance is written back.     *)
CommitLoadUnlocks(c) ==
  /\ Step(c, "entered", "loaded")
  /\ loaded' = [loaded EXCEPT ![c] = balance[AccountOf(c)]]
  /\ isLocked' = [isLocked EXCEPT ![AccountOf(c)] = FALSE]
  /\ UNCHANGED <<bankState, balance, tries, crashes, restarts>>

CommitLoad(c) ==
  /\ Step(c, "entered", "loaded")
  /\ loaded' = [loaded EXCEPT ![c] = balance[AccountOf(c)]]
  /\ UNCHANGED <<bankState, balance, isLocked, tries, crashes, restarts>>

CommitStore(c) ==
  /\ Step(c, "loaded", "applied")
  /\ balance' = [balance EXCEPT ![AccountOf(c)] =
                   IF IsDebit(c) THEN loaded[c] - Amount[c[1]]
                                 ELSE loaded[c] + Amount[c[1]]]
  /\ loaded' = [loaded EXCEPT ![c] = 0]
  /\ UNCHANGED <<bankState, isLocked, tries, crashes, restarts>>

CommitUnlock(c) ==
  /\ Step(c, "applied", "ok")
  /\ isLocked' = [isLocked EXCEPT ![AccountOf(c)] = FALSE]
  /\ UNCHANGED <<bankState, balance, tries, loaded, crashes, restarts>>
-------------------------------------------------------------------------------
(* ReleaseResource unlocks without asking who holds the lock.              *)
ReleaseResource(c) ==
  /\ c[3] = "release"
  /\ Step(c, "sent", "ok")
  /\ isLocked' = [isLocked EXCEPT ![AccountOf(c)] = FALSE]
  /\ UNCHANGED <<bankState, balance, tries, loaded, crashes, restarts>>
-------------------------------------------------------------------------------
(* main: a bank listens only after it has registered with the gateway.     *)
BankListen(b) ==
  /\ bankState[b] = "registered"
  /\ bankState' = [bankState EXCEPT ![b] = "serving"]
  /\ UNCHANGED <<balance, isLocked, rpc, tries, loaded, crashes, restarts>>

(* The process is killed.  Its memory is lost: until another process takes *)
(* its place, balance and isLocked keep the state it died in, which nobody *)
(* reads.                                                                  *)
BankCrash(b) ==
  /\ bankState[b] \in {"registered", "serving"}
  /\ crashes < MaxBankCrashes
  /\ crashes' = crashes + 1
  /\ bankState' = [bankState EXCEPT ![b] = "down"]
  /\ UNCHANGED <<balance, isLocked, rpc, tries, loaded, restarts>>

(* A new process for the same bank.  It loads its own copy of the          *)
(* customers and asks to be registered (BankServerDiscovery).              *)
BankRestart(b) ==
  /\ bankState[b] = "down"
  /\ restarts < MaxBankRestarts
  /\ restarts' = restarts + 1
  /\ bankState' = [bankState EXCEPT ![b] = "restarting"]
  /\ UNCHANGED <<balance, isLocked, rpc, tries, loaded, crashes>>

(* Mutant: the balances outlive the process.                               *)
MemoryKeepsBalances(b) ==
  /\ isLocked' = [a \in Customers |-> isLocked[a] /\ BankOf[a] # b]
  /\ rpc' = [c \in Calls |->
               IF rpc[c] # "idle" /\ BankOf[AccountOf(c)] = b THEN "gone" ELSE rpc[c]]
  /\ UNCHANGED balance

(* loadUsers: the process that takes the place of bank b knows the         *)
(* balances of bank_customers.json, no lock, and no call made before.      *)
FreshMemory(b) ==
  /\ balance' = [a \in Customers |-> IF BankOf[a] = b THEN InitialBalance[a] ELSE balance[a]]
  /\ isLocked' = [a \in Customers |-> isLocked[a] /\ BankOf[a] # b]
  /\ rpc' = [c \in Calls |->
               IF rpc[c] # "idle" /\ BankOf[AccountOf(c)] = b THEN "gone" ELSE rpc[c]]
-------------------------------------------------------------------------------
(* One step of the goroutine that serves call c.                           *)
BankHandler(c) ==
  \/ PrepareRefuse(c) \/ PrepareAccept(c) \/ AcquireLock(c) \/ AcquireBusy(c)
  \/ CommitValidate(c) \/ CommitLockCheck(c) \/ CommitPanic(c)
  \/ CommitLoad(c) \/ CommitStore(c) \/ CommitUnlock(c)
  \/ ReleaseResource(c)

BankTypeOK ==
  /\ bankState \in [Banks -> BankStates]
  /\ balance \in [Customers -> Int]
  /\ isLocked \in [Customers -> BOOLEAN]
  /\ rpc \in [Calls -> RpcStates]
  /\ tries \in [Calls -> 0 .. MaxAcquireAttempts - 1]
  /\ loaded \in [Calls -> Int]
  /\ crashes \in 0 .. MaxBankCrashes
  /\ restarts \in 0 .. MaxBankRestarts
===============================================================================
