---------------------------- MODULE PaymentSystem -----------------------------
(***************************************************************************)
(* Clients, gateway and banks together: the steps of all goroutines and    *)
(* the faults interleave.                                                  *)
(***************************************************************************)
EXTENDS PaymentClient, FiniteSetsExt

vars == <<bankVars, gatewayVars, clientVars>>
-------------------------------------------------------------------------------
Init == BankInit /\ GatewayInit /\ ClientInit

BankStep ==
  /\ \/ \E c \in Calls : BankHandler(c)
     \/ \E b \in Banks : BankListen(b) \/ BankCrash(b) \/ BankRestart(b)
  /\ UNCHANGED <<gatewayVars, clientVars>>

GatewayStep ==
  /\ \/ \E b \in Banks : BankServerDiscovery(b)
     \/ \E h \in Handlers : GatewayHandler(h)
     \/ \E h \in Handlers, b \in Banks : ConcurrentMapAccess(h, b)
     \/ \E u \in Users : TokenExpires(u)
     \/ GatewayCrash \/ GatewayRestart
  /\ UNCHANGED clientVars

ClientStep == \E p \in Payments : ClientProcess(p) \/ DeadlineExceeded(p)

Next == BankStep \/ GatewayStep \/ ClientStep

Spec == Init /\ [][Next]_vars

(* Goroutines, processes and their messages make progress; what nobody has *)
(* to do (a deadline that passes, a fault) is under no fairness condition. *)
Fairness ==
  /\ \A c \in Calls : WF_vars(BankHandler(c) /\ UNCHANGED <<gatewayVars, clientVars>>)
  /\ \A b \in Banks : WF_vars(BankListen(b) /\ UNCHANGED <<gatewayVars, clientVars>>)
  /\ \A b \in Banks : WF_vars(BankServerDiscovery(b) /\ UNCHANGED clientVars)
  /\ \A h \in Handlers : WF_vars(GatewayHandler(h) /\ UNCHANGED clientVars)
  /\ \A p \in Payments : WF_vars(ClientProcess(p))

FairSpec == Spec /\ Fairness
-------------------------------------------------------------------------------
(* Every variable keeps to its type; in particular a prepare gives up      *)
(* after MaxAcquireAttempts failed attempts (tries).                       *)
TypeOK == BankTypeOK /\ GatewayTypeOK /\ ClientTypeOK

(* The prepare call c has locked its account, and neither the commit nor   *)
(* the release that belongs to it has unlocked it.                         *)
HoldsLock(c) ==
  /\ rpc[c] = "ok"
  /\ \/ /\ c[3] = "prepDebit"
        /\ rpc[Call(c, "commDebit")] # "ok"
        /\ rpc[Call(c, "release")] # "ok"
     \/ /\ c[3] = "prepCredit"
        /\ rpc[Call(c, "commCredit")] # "ok"

(* isLocked is a bare flag that any commit or release clears, yet an       *)
(* account is locked exactly while one prepared transfer holds it: no      *)
(* unlock ever frees a lock another transfer has taken.                    *)
LockHeldByOneTransfer ==
  \A a \in Customers :
    LET holders == {c \in Calls : HoldsLock(c) /\ AccountOf(c) = a}
    IN  Cardinality(holders) = IF isLocked[a] THEN 1 ELSE 0

(* "Account Should be lock while commit" never panics (bank_server/rpc.go  *)
(* line 104): a commit on its way finds its account locked until it is     *)
(* done, and every step that changes the balance is taken under the lock.  *)
CommitFindsLock ==
  \A c \in Calls :
    c[3] \in CommitKinds /\ rpc[c] \in {"sent", "valid", "entered", "loaded", "applied"} =>
      AccountOf(c) \in Customers /\ isLocked[AccountOf(c)]

(* A debit never takes an account below zero, although the balance is      *)
(* tested in one RPC and reduced in another.                               *)
NonNegativeBalance == \A a \in Customers : balance[a] >= 0

(* A handler that waits for a call is the only one of its payment to do    *)
(* so: a retry never starts a second two-phase exchange beside the first.  *)
OneExchangePerPayment ==
  \A p \in Payments : \A m, n \in Attempts :
    Active(<<p, m>>) /\ Active(<<p, n>>) => m = n

(* How often the commit of kind k has been applied, over all attempts.     *)
Times(p, k) == Cardinality({n \in Attempts : rpc[<<p, n, k>>] \in {"applied", "ok"}})
Applied(p, k) == Times(p, k) > 0
Settled(p) == gatewayUp /\ \A n \in Attempts : ~Active(<<p, n>>)
BankFailed(a) == bankState[BankOf[a]] \in {"down", "restarting"}
SomeBankFailed(p) == BankFailed(Sender[p]) \/ BankFailed(Recipient[p])

(* When no handler works on a payment any more, its recorded status agrees *)
(* with the money: a success has moved it, and a failure has moved none    *)
(* unless a bank died under the payment or a commit was cut off.           *)
StatusMatchesMoney ==
  \A p \in Payments : Settled(p) =>
    /\ UserTransactions[p] = "success" =>
         Applied(p, "commDebit") /\ Applied(p, "commCredit")
    /\ UserTransactions[p] = "failed" /\ Applied(p, "commDebit") =>
         SomeBankFailed(p) \/ drops > 0

(* A lock outlives the handler that asked for it only after a prepare      *)
(* passed its deadline, a call was cut off, or a process died.  A gateway  *)
(* that has been restarted knows no bank that still holds such a lock.     *)
NoOrphanedLock ==
  \A c \in Calls :
    HoldsLock(c) /\ ~Active(<<c[1], c[2]>>) =>
      \/ timeouts > 0 \/ drops > 0 \/ ~gatewayUp
      \/ SomeBankFailed(c[1])
      \/ BankOf[AccountOf(c)] \notin BankServers

(* Every unit of an account is explained by payments: the balance is the   *)
(* first one without the applied debits and with the applied credits, each *)
(* counted once.  CurrBalance += amount is neither atomic nor ordered, and *)
(* a bank that starts again forgets its balances and its debits together.  *)
Booked(k) == [p \in Payments |-> Amount[p] * Times(p, k)]

SumOver(S, w) == MapThenSumSet(LAMBDA p : w[p], S)

BalanceIsBooked ==
  \A a \in Customers :
    balance[a] + SumOver({p \in Payments : Sender[p] = a}, Booked("commDebit"))
      = InitialBalance[a] + SumOver({p \in Payments : Recipient[p] = a}, Booked("commCredit"))

(* A bank panics only for a debit whose cover has gone since its prepare:  *)
(* no credit takes a bank down, and no commit misses its lock.             *)
OnlyDebitsPanic ==
  [][\A c \in Calls : CommitPanic(c) => c[3] = "commDebit" /\ rpc[c] = "sent"]_vars
-------------------------------------------------------------------------------
(* Refinement.                                                             *)
L == INSTANCE Ledger WITH
  balance <- balance,
  debits <- [p \in Payments |-> Times(p, "commDebit")],
  credits <- [p \in Payments |-> Times(p, "commCredit")],
  lost <- drops > 0,
  forgot <- \E c \in Calls : rpc[c] = "gone"

(* Retries, timeouts, crashes and restarts notwithstanding, every payment  *)
(* is debited and credited at most once, in this order, and no update of   *)
(* the unsynchronised CurrBalance is lost; only a lost answer lets a retry *)
(* debit again, and each such debit too is in the balance exactly once.    *)
(* A restarted gateway has forgotten which payments have succeeded, yet it *)
(* repeats none in the accounts of a bank that remembers it.               *)
RefinesLedger == L!Spec
-------------------------------------------------------------------------------
(* Without faults every lock is given back for good.                       *)
LocksReleased == <>[](\A a \in Customers : ~isLocked[a])

(* A payment reported as successful has moved the money or will do so,     *)
(* even when the report is an early answer to a retry, unless the gateway  *)
(* dies.                                                                   *)
SuccessMeansPaid ==
  <>[](\A p \in Payments : client[p] = "success" =>
         \/ Applied(p, "commDebit") /\ Applied(p, "commCredit")
         \/ ~gatewayUp \/ gatewayRestarts > 0)

(* The user is always told something.                                      *)
ClientAnswered == \A p \in Payments : <>(client[p] \in Reported)
-------------------------------------------------------------------------------
(* "Commit Request Should be valid", says the panic of CommitTransaction   *)
(* (q3/server/bank_server/rpc.go:101): a commit that arrives finds the     *)
(* account with the balance that its prepare has checked.                  *)
CommitRequestIsValid ==
  \A c \in Calls : c[3] \in CommitKinds /\ rpc[c] = "sent" => RequestValid(c)

(* A retry carries the transaction id "to check idopotency feature" (the   *)
(* comment in DebitBalance, q3/server/bank_server/rpc.go:119): the debit   *)
(* of a payment is applied once however often it is sent.                  *)
DebitedAtMostOnce == \A p \in Payments : Times(p, "commDebit") <= 1
===============================================================================
