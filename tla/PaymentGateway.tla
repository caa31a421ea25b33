---------------------------- MODULE PaymentGateway ----------------------------
(***************************************************************************)
(* The payment gateway (q3/server/payment_gateway) in front of the banks.  *)
(*                                                                         *)
(* Every request of a client runs in a goroutine of its own: first the     *)
(* interceptor, then MakePayment, which drives a two-phase exchange with   *)
(* the banks of the two accounts.  A handler h = <<p, n>> is the execution *)
(* for attempt n of payment p; pc[h] is the point it has reached: the call *)
(* it waits for, or the answer it has given ("success", "inProgress",      *)
(* "error").                                                               *)
(*                                                                         *)
(* UserTransactions remembers the outcome of a transaction id.  The code   *)
(* stores nil for success and an error otherwise; which error is not told  *)
(* apart here ("failed").                                                  *)
(***************************************************************************)
EXTENDS BankServer, FiniteSets

CONSTANTS
  MaxTimeouts,       \* bound: prepare calls whose deadline passes
  MaxDrops,          \* bound: commit and release calls cut off
  MaxExpiries,       \* bound: tokens that expire
  MaxGatewayDeaths,  \* bound: 1 if the gateway may be killed, 0 if not
  MaxGatewayRestarts \* bound: gateway processes started after a death

ASSUME GatewayAssumption ==
  /\ MaxTimeouts \in Nat
  /\ MaxDrops \in Nat
  /\ MaxExpiries \in Nat
  /\ MaxGatewayDeaths \in 0 .. 1
  /\ MaxGatewayRestarts \in Nat

VARIABLES
  BankServers,        \* the banks whose address is known
  UserTransactions,   \* outcome of each transaction id
  pc,                 \* control point of each MakePayment handler
  gatewayUp,          \* the gateway process is alive
  gatewayRestarts,    \* gateway processes started after a death
  expired,            \* users, by their account, whose token has expired
  timeouts,           \* prepare calls abandoned so far
  drops               \* commit and release calls cut off so far

gatewayVars ==
  <<BankServers, UserTransactions, pc, gatewayUp, gatewayRestarts, expired,
    timeouts, drops>>
-------------------------------------------------------------------------------
Handlers == Payments \X Attempts
Call(h, k) == <<h[1], h[2], k>>

CallPoints ==   \* the handler waits for its call of that kind
  {"prepDebit", "prepCredit", "release", "commDebit", "commCredit"}
Answers == {"success", "inProgress", "error"}
Points == {"none", "arrived", "authorized"} \union CallPoints \union Answers

Active(h) == pc[h] \in CallPoints

GatewayInit ==
  /\ BankServers = {}
  /\ UserTransactions = [p \in Payments |-> "absent"]
  /\ pc = [h \in Handlers |-> "none"]
  /\ gatewayUp = TRUE
  /\ gatewayRestarts = 0
  /\ expired = {}
  /\ timeouts = 0
  /\ drops = 0

(* The handler leaves a point; the gateway process is alive.               *)
Leave(h, from, to) ==
  /\ gatewayUp
  /\ pc[h] = from
  /\ pc' = [pc EXCEPT ![h] = to]

(* It makes a call of kind k and waits for it at the point of that name.   *)
Send(h, k) == rpc' = [rpc EXCEPT ![Call(h, k)] = "sent"]

UpdateTransaction(h, status) ==
  UserTransactions' = [UserTransactions EXCEPT ![h[1]] = status]

banksIdle == UNCHANGED <<bankState, balance, isLocked, tries, loaded, crashes, restarts>>
processOnly == UNCHANGED <<BankServers, gatewayUp, gatewayRestarts, expired>>

(* A user is named by the account the gateway knows for the user.          *)
Users == {Sender[p] : p \in Payments}
TokenExpired(p) == Sender[p] \in expired
-------------------------------------------------------------------------------
(* BankServerDiscovery: a bank process, new or started again, registers.   *)
(* A name that is known is refused and the process exits (log.Fatalf); the *)
(* same happens when the gateway cannot be reached.  From here on the      *)
(* process is the bank, with the memory it has loaded.                     *)
(* Mutant: a known name is accepted again with its new address.            *)
DiscoveryOverwrites(b) ==
  /\ bankState[b] \in {"new", "restarting"}
  /\ IF gatewayUp
       THEN /\ BankServers' = BankServers \union {b}
            /\ bankState' = [bankState EXCEPT ![b] = "registered"]
            /\ FreshMemory(b)
       ELSE /\ bankState' = [bankState EXCEPT ![b] = "down"]
            /\ UNCHANGED <<BankServers, balance, isLocked, rpc>>
  /\ UNCHANGED <<tries, loaded, crashes, restarts>>
  /\ UNCHANGED <<UserTransactions, pc, gatewayUp, gatewayRestarts, expired, timeouts, drops>>

BankServerDiscovery(b) ==
  /\ bankState[b] \in {"new", "restarting"}
  /\ IF gatewayUp /\ b \notin BankServers
       THEN /\ BankServers' = BankServers \union {b}
            /\ bankState' = [bankState EXCEPT ![b] = "registered"]
            /\ FreshMemory(b)
       ELSE /\ bankState' = [bankState EXCEPT ![b] = "down"]
            /\ UNCHANGED <<BankServers, balance, isLocked, rpc>>
  /\ UNCHANGED <<tries, loaded, crashes, restarts>>
  /\ UNCHANGED <<UserTransactions, pc, gatewayUp, gatewayRestarts, expired, timeouts, drops>>

(* authInterceptor: the token is parsed and verified.                      *)
AuthOk(h) ==
  /\ ~TokenExpired(h[1])
  /\ Leave(h, "arrived", "authorized")
  /\ UNCHANGED <<bankVars, UserTransactions, timeouts, drops>> /\ processOnly

AuthReject(h) ==
  /\ TokenExpired(h[1])
  /\ Leave(h, "arrived", "error")
  /\ UNCHANGED <<bankVars, UserTransactions, timeouts, drops>> /\ processOnly
-------------------------------------------------------------------------------
(* MakePayment up to checkAndUpdateTranscation.  The token is parsed again *)
(* (a failure panics, see TokenPanic); then both banks must be known and   *)
(* the accounts differ.  BankServers only grows while the process lives,   *)
(* so reading it and the status in one step loses no behaviour.            *)
Acceptable(p) ==
  /\ BankOf[Sender[p]] \in BankServers
  /\ BankOf[Recipient[p]] \in BankServers
  /\ Sender[p] # Recipient[p]

RejectPayment(h) ==
  /\ ~TokenExpired(h[1])
  /\ ~Acceptable(h[1])
  /\ Leave(h, "authorized", "error")
  /\ UNCHANGED <<bankVars, UserTransactions, timeouts, drops>> /\ processOnly

(* The id is in progress or has succeeded: its status is the answer.       *)
ReplayStatus(h) ==
  /\ ~TokenExpired(h[1])
  /\ Acceptable(h[1])
  /\ UserTransactions[h[1]] \in {"inProgress", "success"}
  /\ Leave(h, "authorized", UserTransactions[h[1]])
  /\ UNCHANGED <<bankVars, UserTransactions, timeouts, drops>> /\ processOnly

(* Mutant: a payment that is in progress is begun once more.               *)
BeginAgain(h) ==
  /\ ~TokenExpired(h[1])
  /\ Acceptable(h[1])
  /\ UserTransactions[h[1]] # "success"
  /\ Leave(h, "authorized", "prepDebit")
  /\ UpdateTransaction(h, "inProgress")
  /\ Send(h, "prepDebit")
  /\ banksIdle /\ UNCHANGED <<timeouts, drops>> /\ processOnly

(* The id is new or has failed: it is in progress, sendPrepare begins.     *)
BeginPayment(h) ==
  /\ ~TokenExpired(h[1])
  /\ Acceptable(h[1])
  /\ UserTransactions[h[1]] \in {"absent", "failed"}
  /\ Leave(h, "authorized", "prepDebit")
  /\ UpdateTransaction(h, "inProgress")
  /\ Send(h, "prepDebit")
  /\ banksIdle /\ UNCHANGED <<timeouts, drops>> /\ processOnly
-------------------------------------------------------------------------------
(* A call fails when the bank rejects it or does not serve ...             *)
Answered(h, k) == rpc[Call(h, k)] = "ok"
Unavailable(h, k) == ~Serving(Call(h, k)) \/ rpc[Call(h, k)] = "rejected"

(* ... or a prepare passes its deadline, or loses its connection.  The     *)
(* bank's handler does not notice.                                         *)
PrepareLost(h, k) ==
  \/ Unavailable(h, k) /\ UNCHANGED timeouts
  \/ /\ timeouts < MaxTimeouts
     /\ timeouts' = timeouts + 1

(* A request that finds no process listening never reaches the bank, not   *)
(* even one that begins to listen later.                                   *)
GivenUp(h, k) ==
  IF rpc[Call(h, k)] = "sent" /\ ~Serving(Call(h, k)) THEN "rejected" ELSE rpc[Call(h, k)]

Abandon(h, k) == rpc' = [rpc EXCEPT ![Call(h, k)] = GivenUp(h, k)]

(* Commits and releases are sent with context.Background(): they have no   *)
(* deadline and only end early when the connection breaks.                 *)
CallLost(h, k) ==
  \/ Unavailable(h, k) /\ UNCHANGED drops
  \/ /\ drops < MaxDrops
     /\ drops' = drops + 1

PrepDebitOk(h) ==
  /\ Answered(h, "prepDebit")
  /\ Leave(h, "prepDebit", "prepCredit")
  /\ Send(h, "prepCredit")
  /\ banksIdle /\ UNCHANGED <<UserTransactions, timeouts, drops>> /\ processOnly

(* Mutant: the lock is released after a prepare whose fate is unknown.     *)
PrepDebitFailReleases(h) ==
  /\ PrepareLost(h, "prepDebit")
  /\ Leave(h, "prepDebit", "release")
  /\ Send(h, "release")
  /\ banksIdle /\ UNCHANGED <<UserTransactions, drops>> /\ processOnly

PrepDebitFail(h) ==
  /\ PrepareLost(h, "prepDebit")
  /\ Leave(h, "prepDebit", "error")
  /\ UpdateTransaction(h, "failed")
  /\ Abandon(h, "prepDebit")
  /\ banksIdle /\ UNCHANGED drops /\ processOnly

(* Mutant: the client is told of the success before the commits.           *)
SuccessBeforeCommit(h) ==
  /\ Answered(h, "prepCredit")
  /\ Leave(h, "prepCredit", "success")
  /\ UpdateTransaction(h, "success")
  /\ Send(h, "commDebit")
  /\ banksIdle /\ UNCHANGED <<timeouts, drops>> /\ processOnly

(* The status is set after sendPrepare, nil when both banks are prepared:  *)
(* the payment counts as successful before any commit is sent.             *)
PrepCreditOk(h) ==
  /\ Answered(h, "prepCredit")
  /\ Leave(h, "prepCredit", "commDebit")
  /\ UpdateTransaction(h, "success")
  /\ Send(h, "commDebit")
  /\ banksIdle /\ UNCHANGED <<timeouts, drops>> /\ processOnly

(* Mutant: the sender's account is not released.                           *)
PrepCreditFailKeepsLock(h) ==
  /\ PrepareLost(h, "prepCredit")
  /\ Leave(h, "prepCredit", "error")
  /\ UpdateTransaction(h, "failed")
  /\ Abandon(h, "prepCredit")
  /\ banksIdle /\ UNCHANGED drops /\ processOnly

PrepCreditFail(h) ==
  /\ PrepareLost(h, "prepCredit")
  /\ Leave(h, "prepCredit", "release")
  /\ rpc' = [rpc EXCEPT ![Call(h, "prepCredit")] = GivenUp(h, "prepCredit"),
                        ![Call(h, "release")] = "sent"]
  /\ banksIdle /\ UNCHANGED <<UserTransactions, drops>> /\ processOnly

(* The result of the release is ignored.                                   *)
ReleaseDone(h) ==
  /\ \/ Answered(h, "release") /\ UNCHANGED drops
     \/ CallLost(h, "release")
  /\ Leave(h, "release", "error")
  /\ UpdateTransaction(h, "failed")
  /\ Abandon(h, "release")
  /\ banksIdle /\ UNCHANGED timeouts /\ processOnly

(* Mutant: the credit is forgotten.                                        *)
CommDebitOnly(h) ==
  /\ Answered(h, "commDebit")
  /\ Leave(h, "commDebit", "success")
  /\ UNCHANGED <<bankVars, UserTransactions, timeouts, drops>> /\ processOnly

CommDebitOk(h) ==
  /\ Answered(h, "commDebit")
  /\ Leave(h, "commDebit", "commCredit")
  /\ Send(h, "commCredit")
  /\ banksIdle /\ UNCHANGED <<UserTransactions, timeouts, drops>> /\ processOnly

CommCreditOk(h) ==
  /\ Answered(h, "commCredit")
  /\ Leave(h, "commCredit", "success")
  /\ UpdateTransaction(h, "success")
  /\ UNCHANGED <<bankVars, timeouts, drops>> /\ processOnly

(* Mutant: the outcome of the commit is not recorded.                      *)
CommitFailUnrecorded(h, k) ==
  /\ CallLost(h, k)
  /\ Leave(h, k, "error")
  /\ Abandon(h, k)
  /\ banksIdle /\ UNCHANGED <<UserTransactions, timeouts>> /\ processOnly

CommitFail(h, k) ==
  /\ CallLost(h, k)
  /\ Leave(h, k, "error")
  /\ UpdateTransaction(h, "failed")
  /\ Abandon(h, k)
  /\ banksIdle /\ UNCHANGED timeouts /\ processOnly
-------------------------------------------------------------------------------
TokenExpires(u) ==
  /\ u \notin expired
  /\ Cardinality(expired) < MaxExpiries
  /\ expired' = expired \union {u}
  /\ UNCHANGED <<bankVars, BankServers, UserTransactions, pc, gatewayUp, gatewayRestarts,
                 timeouts, drops>>

(* The gateway process dies.  Nothing it was doing goes on.                *)
GatewayDies ==
  /\ gatewayUp
  /\ gatewayUp' = FALSE
  /\ UNCHANGED <<BankServers, UserTransactions, pc, gatewayRestarts, expired, timeouts, drops>>

(* Mutant: the banks' addresses outlive the process, the statuses do not.  *)
RestartKeepsBanks ==
  /\ ~gatewayUp
  /\ gatewayRestarts < MaxGatewayRestarts
  /\ gatewayRestarts' = gatewayRestarts + 1
  /\ gatewayUp' = TRUE
  /\ UserTransactions' = [p \in Payments |-> "absent"]
  /\ pc' = [h \in Handlers |-> IF pc[h] = "none" THEN "none" ELSE "error"]
  /\ UNCHANGED <<bankVars, BankServers, expired, timeouts, drops>>

(* A new gateway process: NewPaymentServer makes empty maps, and the       *)
(* connections of the handlers are broken.  The banks are not told and     *)
(* never register again.                                                   *)
GatewayRestart ==
  /\ ~gatewayUp
  /\ gatewayRestarts < MaxGatewayRestarts
  /\ gatewayRestarts' = gatewayRestarts + 1
  /\ gatewayUp' = TRUE
  /\ BankServers' = {}
  /\ UserTransactions' = [p \in Payments |-> "absent"]
  /\ pc' = [h \in Handlers |-> IF pc[h] = "none" THEN "none" ELSE "error"]
  /\ UNCHANGED <<bankVars, expired, timeouts, drops>>

(* checkUserValidity panics when the token expires between the interceptor *)
(* and itself.                                                             *)
TokenPanic(h) ==
  /\ pc[h] = "authorized"
  /\ TokenExpired(h[1])
  /\ GatewayDies
  /\ UNCHANGED bankVars

(* BankServers is read outside bankListmutex: Go's runtime stops the       *)
(* process when it sees the map read while BankServerDiscovery writes it.  *)
ReadsBankServers(h) ==
  \/ pc[h] = "authorized"
  \/ pc[h] = "prepCredit" /\ Answered(h, "prepCredit")

ConcurrentMapAccess(h, b) ==
  /\ MaxGatewayDeaths = 1
  /\ ReadsBankServers(h)
  /\ bankState[b] \in {"new", "restarting"}
  /\ b \notin BankServers
  /\ GatewayDies
  /\ bankState' = [bankState EXCEPT ![b] = "down"]
  /\ UNCHANGED <<balance, isLocked, rpc, tries, loaded, crashes, restarts>>

(* The process is killed, or GetBalance, a call that changes nothing else, *)
(* panics in checkUserValidity with a token that has expired.              *)
GatewayCrash ==
  /\ MaxGatewayDeaths = 1 \/ expired # {}
  /\ GatewayDies
  /\ UNCHANGED bankVars
-------------------------------------------------------------------------------
(* One step of the goroutine that serves h, faults included.               *)
GatewayHandler(h) ==
  \/ AuthOk(h) \/ AuthReject(h) \/ RejectPayment(h) \/ ReplayStatus(h)
  \/ BeginPayment(h) \/ PrepDebitOk(h) \/ PrepDebitFail(h)
  \/ PrepCreditOk(h) \/ PrepCreditFail(h) \/ ReleaseDone(h)
  \/ CommDebitOk(h) \/ CommCreditOk(h)
  \/ \E k \in CommitKinds : CommitFail(h, k)
  \/ TokenPanic(h)

GatewayTypeOK ==
  /\ BankServers \subseteq Banks
  /\ UserTransactions \in [Payments -> {"absent", "inProgress", "success", "failed"}]
  /\ pc \in [Handlers -> Points]
  /\ gatewayUp \in BOOLEAN
  /\ gatewayRestarts \in 0 .. MaxGatewayRestarts
  /\ expired \subseteq Users
  /\ timeouts \in 0 .. MaxTimeouts
  /\ drops \in 0 .. MaxDrops
===============================================================================
