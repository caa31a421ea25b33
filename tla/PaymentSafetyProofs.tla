-------------------------- MODULE PaymentSafetyProofs --------------------------
(***************************************************************************)
(* What the exclusive locks are good for: a commit always finds its        *)
(* account locked, no account is overdrawn, and a payment has one          *)
(* two-phase exchange at a time.  And nobody leaves a lock behind without  *)
(* a fault.                                                                *)
(***************************************************************************)
EXTENDS PaymentLockProofs
-------------------------------------------------------------------------------
(* A commit on its way is covered by the lock its prepare has taken.       *)
LEMMA CommitIsCovered == LockInv => CommitFindsLock
<1> SUFFICES ASSUME LockInv, NEW c \in Calls, c[3] \in CommitKinds,
                    rpc[c] \in {"sent", "valid", "entered", "loaded", "applied"}
             PROVE  AccountOf(c) \in Customers /\ isLocked[AccountOf(c)]
  BY DEF CommitFindsLock
<1>1. PICK d \in Calls : HoldsLock(d) /\ AccountOf(d) = AccountOf(c)
  BY CommitHolds DEF LockInv
<1>2. QED
  BY <1>1 DEF LockInv, LockOwner

(* The assertion at rpc.go:104 of the banks holds.                         *)
THEOREM CommitsFindTheirLock == Spec => []CommitFindsLock
  BY CommitIsCovered, LockInvHolds, PTL

(* Two commits cannot be on their way to the same account.                 *)
LEMMA CommitsDisjoint ==
  ASSUME LockInv, NEW c \in Calls, NEW d \in Calls,
         c[3] \in CommitKinds, rpc[c] \notin {"idle", "ok", "gone"},
         d[3] \in CommitKinds, rpc[d] \notin {"idle", "ok", "gone"},
         AccountOf(c) = AccountOf(d)
  PROVE  c = d
<1>1. PICK x \in Calls : /\ HoldsLock(x) /\ AccountOf(x) = AccountOf(c)
                         /\ x[1] = c[1] /\ x[2] = c[2]
                         /\ x[3] = IF c[3] = "commCredit" THEN "prepCredit" ELSE "prepDebit"
  BY CommitHolds DEF LockInv
<1>2. PICK y \in Calls : /\ HoldsLock(y) /\ AccountOf(y) = AccountOf(d)
                         /\ y[1] = d[1] /\ y[2] = d[2]
                         /\ y[3] = IF d[3] = "commCredit" THEN "prepCredit" ELSE "prepDebit"
  BY CommitHolds DEF LockInv
<1>3. x = y
  BY <1>1, <1>2 DEF LockInv, LockOwner
<1>4. c[1] = d[1] /\ c[2] = d[2] /\ c[3] = d[3]
  BY <1>1, <1>2, <1>3 DEF CommitKinds
<1>5. c = <<c[1], c[2], c[3]>> /\ d = <<d[1], d[2], d[3]>>
  BY DEF Calls
<1>6. QED
  BY <1>4, <1>5
-------------------------------------------------------------------------------
(* The balance that a debit's commit has validated stays until its write:  *)
(* only a commit on the same account changes it, and there is none.        *)
Funded ==
  /\ \A a \in Customers : balance[a] >= 0
  /\ \A c \in Calls :
       c[3] = "commDebit" /\ rpc[c] \in {"valid", "entered", "loaded"} =>
         balance[AccountOf(c)] >= Amount[c[1]]
  /\ \A c \in Calls : rpc[c] = "loaded" => loaded[c] = balance[AccountOf(c)]

(* A step that leaves the balances alone keeps Funded if every call that   *)
(* is past its validation was there before.                                *)
LEMMA FundedKept ==
  ASSUME Funded, balance' = balance,
         \A c \in Calls :
           /\ rpc'[c] \in {"valid", "entered", "loaded"} =>
                \/ rpc[c] \in {"valid", "entered", "loaded"}
                \/ c[3] = "commDebit" => balance[AccountOf(c)] >= Amount[c[1]]
           /\ rpc'[c] = "loaded" => loaded'[c] = balance[AccountOf(c)]
  PROVE  Funded'
  BY DEF Funded, AccountOf

(* The bank's own steps preserve Funded.                                   *)
LEMMA FundedBank ==
  ASSUME LockInv, Funded, BankStep
  PROVE  Funded'
<1> USE DEF LockInv, TypeInv, TypeOK, BankTypeOK
<1>1. ASSUME NEW c \in Calls, BankHandler(c)
      PROVE  Funded'
  <2>1. c[3] \in Kinds /\ c[1] \in Payments
    BY CallParts
  <2> DEFINE Past == {"valid", "entered", "loaded"}
  <2>2. ASSUME NEW v, rpc' = [rpc EXCEPT ![c] = v], balance' = balance, loaded' = loaded,
               v \notin Past \/ (rpc[c] \in Past /\ v # "loaded")
        PROVE  Funded'
    BY <2>2, FundedKept DEF Funded
  <2>3. CASE PrepareRefuse(c)
    BY <2>3, <2>2 DEF PrepareRefuse, Step
  <2>4. CASE PrepareAccept(c)
    BY <2>4, <2>2 DEF PrepareAccept, Step
  <2>5. CASE AcquireLock(c)
    BY <2>5, <2>2 DEF AcquireLock, Step
  <2>6. CASE AcquireBusy(c)
    BY <2>6, <2>2 DEF AcquireBusy, Step
  <2>7. CASE CommitValidate(c)
    BY <2>7, FundedKept DEF Funded, CommitValidate, RequestValid, IsDebit, Step
  <2>8. CASE CommitLockCheck(c)
    BY <2>8, <2>2 DEF CommitLockCheck, Step
  <2>9. CASE CommitPanic(c)
    BY <2>9 DEF Funded, CommitPanic, AccountOf
  <2>10. CASE CommitLoad(c)
    BY <2>10, FundedKept DEF Funded, CommitLoad, Step
  <2>11. CASE CommitStore(c)
    <3>1. /\ rpc[c] = "loaded" /\ rpc' = [rpc EXCEPT ![c] = "applied"]
          /\ balance' = [balance EXCEPT ![AccountOf(c)] =
                           IF IsDebit(c) THEN loaded[c] - Amount[c[1]]
                                         ELSE loaded[c] + Amount[c[1]]]
          /\ loaded' = [loaded EXCEPT ![c] = 0]
      BY <2>11 DEF CommitStore, Step
    <3>2. c[3] \in CommitKinds
      BY <2>1, <3>1 DEF ExchangeInv, CallStates, Pre, Kinds
    <3>3. /\ AccountOf(c) \in Customers /\ Amount[c[1]] \in Nat
          /\ loaded[c] = balance[AccountOf(c)] /\ balance[AccountOf(c)] \in Int
          /\ balance[AccountOf(c)] >= 0
          /\ IsDebit(c) => balance[AccountOf(c)] >= Amount[c[1]]
      BY <2>1, <3>1, <3>2, BankAssumption
         DEF Funded, KnownAccounts, BankAssumption, IsDebit, CommitKinds
    <3>4. \A a \in Customers : balance'[a] >= 0
      <4> TAKE a \in Customers
      <4>1. CASE a = AccountOf(c)
        BY <3>1, <3>3, <4>1
      <4>2. CASE a # AccountOf(c)
        BY <3>1, <4>2 DEF Funded
      <4>3. QED
        BY <4>1, <4>2
    <3>5. ASSUME NEW d \in Calls, rpc'[d] \in Past, d[3] \in CommitKinds
          PROVE  d # c /\ balance'[AccountOf(d)] = balance[AccountOf(d)]
      <4>1. d # c /\ rpc'[d] = rpc[d]
        BY <3>1, <3>5
      <4>2. AccountOf(d) # AccountOf(c)
        BY <3>1, <3>2, <3>5, <4>1, CommitsDisjoint
      <4>3. AccountOf(d) \in Customers
        BY <3>5, <4>1 DEF KnownAccounts
      <4>4. QED
        BY <3>1, <4>1, <4>2, <4>3
    <3>6. \A d \in Calls : d[3] = "commDebit" /\ rpc'[d] \in Past =>
            balance'[AccountOf(d)] >= Amount[d[1]]
      BY <3>1, <3>5 DEF Funded, CommitKinds
    <3>7. \A d \in Calls : rpc'[d] = "loaded" => loaded'[d] = balance'[AccountOf(d)]
      <4> TAKE d \in Calls
      <4> HAVE rpc'[d] = "loaded"
      <4>1. d # c /\ rpc[d] = "loaded"
        BY <3>1
      <4>2. d[3] \in CommitKinds
        BY <4>1, CallParts DEF ExchangeInv, CallStates, Pre, Kinds
      <4>3. QED
        BY <3>1, <3>5, <4>1, <4>2 DEF Funded
    <3>8. QED
      BY <3>4, <3>6, <3>7 DEF Funded, AccountOf
  <2>12. CASE CommitUnlock(c)
    BY <2>12, <2>2 DEF CommitUnlock, Step
  <2>13. CASE ReleaseResource(c)
    BY <2>13, <2>2 DEF ReleaseResource, Step
  <2>14. QED
    BY <1>1, <2>3, <2>4, <2>5, <2>6, <2>7, <2>8, <2>9, <2>10, <2>11, <2>12, <2>13
       DEF BankHandler
<1>2. ASSUME NEW b \in Banks, BankListen(b) \/ BankCrash(b) \/ BankRestart(b)
      PROVE  Funded'
  BY <1>2 DEF BankListen, BankCrash, BankRestart, Funded, AccountOf
<1>3. QED
  BY <1>1, <1>2 DEF BankStep

(* A new bank process has the balances of its file and no handlers.        *)
LEMMA FundedFresh ==
  ASSUME Funded, NEW b \in Banks, FreshMemory(b), loaded' = loaded,
         KnownAccounts
  PROVE  Funded'
<1>1. /\ \A c \in Calls : rpc'[c] \in {"valid", "entered", "loaded"} =>
           rpc'[c] = rpc[c] /\ BankOf[AccountOf(c)] # b
      /\ \A a \in Customers : balance'[a] = IF BankOf[a] = b THEN InitialBalance[a] ELSE balance[a]
  BY DEF FreshMemory
<1>2. \A a \in Customers : InitialBalance[a] >= 0
  BY BankAssumption DEF BankAssumption
<1>3. \A c \in Calls : rpc'[c] \in {"valid", "entered", "loaded"} =>
        balance'[AccountOf(c)] = balance[AccountOf(c)]
  BY <1>1 DEF KnownAccounts
<1>4. QED
  BY <1>1, <1>2, <1>3 DEF Funded, AccountOf

(* Nor do the steps of the gateway and the clients touch the money: they   *)
(* send calls and give them up.                                            *)
LEMMA FundedElsewhere ==
  ASSUME LockInv, Funded, GatewayStep \/ ClientStep
  PROVE  Funded'
<1> DEFINE Past == {"valid", "entered", "loaded"}
<1>1. ASSUME balance' = balance, loaded' = loaded,
             \A c \in Calls : rpc'[c] \in Past => rpc'[c] = rpc[c]
      PROVE  Funded'
  BY <1>1, FundedKept DEF Funded
<1>2. UNCHANGED <<rpc, balance, loaded>> => Funded'
  BY <1>1
<1>3. ASSUME NEW h \in Handlers, GatewayHandler(h)
      PROVE  Funded'
  <2> rpc \in [Calls -> RpcStates]
    BY DEF LockInv, TypeInv, TypeOK, BankTypeOK
  <2>1. ASSUME NEW k, Send(h, k) \/ Abandon(h, k), banksIdle PROVE Funded'
    <3>1. \A c \in Calls : rpc'[c] \in Past => rpc'[c] = rpc[c]
      BY <2>1 DEF Send, Abandon, GivenUp
    <3>2. QED
      BY <1>1, <2>1, <3>1 DEF banksIdle
  <2>2. CASE PrepCreditFail(h)
    <3>1. \A c \in Calls : rpc'[c] \in Past => rpc'[c] = rpc[c]
      BY <2>2 DEF PrepCreditFail, GivenUp, Call
    <3>2. QED
      BY <1>1, <2>2, <3>1 DEF PrepCreditFail, banksIdle
  <2>3. CASE \/ BeginPayment(h) \/ PrepDebitOk(h) \/ PrepCreditOk(h) \/ CommDebitOk(h)
             \/ PrepDebitFail(h) \/ ReleaseDone(h) \/ \E k \in CommitKinds : CommitFail(h, k)
    BY <2>1, <2>3 DEF BeginPayment, PrepDebitOk, PrepCreditOk, CommDebitOk, PrepDebitFail,
       ReleaseDone, CommitFail
  <2>4. CASE \/ AuthOk(h) \/ AuthReject(h) \/ RejectPayment(h) \/ ReplayStatus(h)
             \/ CommCreditOk(h) \/ TokenPanic(h)
    BY <1>2, <2>4 DEF AuthOk, AuthReject, RejectPayment, ReplayStatus, CommCreditOk,
       TokenPanic, bankVars
  <2>5. QED
    BY <1>3, <2>2, <2>3, <2>4 DEF GatewayHandler
<1>4. CASE GatewayStep
  <2>1. ASSUME NEW b \in Banks, BankServerDiscovery(b) PROVE Funded'
    BY <1>2, <2>1, FundedFresh DEF BankServerDiscovery, LockInv, TypeInv
  <2>2. QED
    BY <1>2, <1>3, <1>4, <2>1 DEF GatewayStep, ConcurrentMapAccess, TokenExpires,
       GatewayCrash, GatewayRestart, bankVars
<1>5. CASE ClientStep
  BY <1>2, <1>5 DEF ClientStep, ClientProcess, SendAttempt, GatewayUnavailable, RecvSuccess,
     RecvError, RecvInProgress, DeadlineExceeded, TryAgain, bankVars
<1>6. QED
  BY <1>4, <1>5

LEMMA FundedHolds == Spec => []Funded
<1>1. Init => Funded
  <2>1. \A c \in Calls : rpc[c] = "idle" => rpc[c] \notin {"valid", "entered", "loaded"}
    OBVIOUS
  <2>2. QED
    BY <2>1, BankAssumption DEF Init, BankInit, Funded, BankAssumption
<1>2. LockInv /\ Funded /\ [Next]_vars => Funded'
  <2>1. Funded /\ UNCHANGED vars => Funded'
    BY DEF vars, bankVars, Funded, AccountOf
  <2>2. QED
    BY <2>1, FundedBank, FundedElsewhere DEF Next
<1>3. QED
  BY <1>1, <1>2, LockInvHolds, PTL DEF Spec

(* No account is ever overdrawn, although its balance is tested in one RPC *)
(* and reduced in another: the lock keeps every other commit away between  *)
(* the test of the commit and its write.                                   *)
THEOREM NeverOverdrawn == Spec => []NonNegativeBalance
<1>1. Funded => NonNegativeBalance
  BY DEF Funded, NonNegativeBalance
<1>2. QED
  BY <1>1, FundedHolds, PTL
-------------------------------------------------------------------------------
(* While a handler works on a payment, its status says that it is in       *)
(* progress or, too early, that it has succeeded; both keep a second       *)
(* handler out.                                                            *)
Exchange ==
  /\ OneExchangePerPayment
  /\ \A p \in Payments : \A n \in Attempts :
       Active(<<p, n>>) => UserTransactions[p] \in {"inProgress", "success"}

(* A step that starts no exchange, and touches the status of no payment    *)
(* that has one, preserves Exchange.                                       *)
LEMMA ExchangeKept ==
  ASSUME Exchange,
         \A h \in Handlers : Active(h)' => Active(h),
         \A h \in Handlers : Active(h)' => UserTransactions'[h[1]] \in {"inProgress", "success"}
  PROVE  Exchange'
<1>1. \A p \in Payments : \A n \in Attempts : <<p, n>> \in Handlers /\ <<p, n>>[1] = p
  BY DEF Handlers
<1>2. \A p, n : Active(<<p, n>>)' <=> pc'[<<p, n>>] \in CallPoints
  BY DEF Active
<1>3. QED
  BY <1>1, <1>2 DEF Exchange, OneExchangePerPayment

(* The steps of the handlers preserve Exchange.                            *)
LEMMA ExchangeHandler ==
  ASSUME TypeInv, Exchange, NEW h \in Handlers, GatewayHandler(h)
  PROVE  Exchange'
<1> USE DEF TypeInv, TypeOK, GatewayTypeOK
<1>1. h[1] \in Payments /\ h[2] \in Attempts /\ h = <<h[1], h[2]>>
  BY DEF Handlers
<1>2. \A g \in Handlers : g[1] \in Payments /\ g[2] \in Attempts /\ g = <<g[1], g[2]>>
  BY DEF Handlers
<1>3. ASSUME NEW to \in Points, pc' = [pc EXCEPT ![h] = to], to \in CallPoints => Active(h),
             \/ UserTransactions' = UserTransactions
             \/ \E s \in {"inProgress", "success"} : UpdateTransaction(h, s)
      PROVE  Exchange'
  <2>1. \A g \in Handlers : Active(g)' => Active(g)
    BY <1>3 DEF Active
  <2>2. \A g \in Handlers : UserTransactions[g[1]] \in {"inProgress", "success"} =>
          UserTransactions'[g[1]] \in {"inProgress", "success"}
    BY <1>1, <1>2, <1>3 DEF UpdateTransaction
  <2>3. \A g \in Handlers : Active(g) => UserTransactions[g[1]] \in {"inProgress", "success"}
    BY <1>2 DEF Exchange
  <2>4. QED
    BY <2>1, <2>2, <2>3, ExchangeKept
<1>4. ASSUME Active(h), pc' = [pc EXCEPT ![h] = "error"], UpdateTransaction(h, "failed")
      PROVE  Exchange'
  <2>1. \A g \in Handlers : Active(g)' => Active(g) /\ g # h
    BY <1>4 DEF Active, CallPoints
  <2>2. \A g \in Handlers : Active(g)' => g[1] # h[1]
    BY <1>1, <1>2, <1>4, <2>1 DEF Exchange, OneExchangePerPayment
  <2>3. \A g \in Handlers : Active(g)' => UserTransactions'[g[1]] = UserTransactions[g[1]]
    BY <1>2, <1>4, <2>2 DEF UpdateTransaction
  <2>4. \A g \in Handlers : Active(g) => UserTransactions[g[1]] \in {"inProgress", "success"}
    BY <1>2 DEF Exchange
  <2>5. QED
    BY <2>1, <2>3, <2>4, ExchangeKept
<1>5. CASE BeginPayment(h)
  <2>1. /\ UserTransactions[h[1]] \in {"absent", "failed"} /\ pc' = [pc EXCEPT ![h] = "prepDebit"]
        /\ UserTransactions' = [UserTransactions EXCEPT ![h[1]] = "inProgress"]
    BY <1>5 DEF BeginPayment, Leave, UpdateTransaction
  <2>2. \A g \in Handlers : g[1] = h[1] => ~Active(g)
    BY <1>2, <2>1 DEF Exchange
  <2>3. \A g \in Handlers : Active(g)' => g = h \/ (Active(g) /\ g[1] # h[1])
    BY <2>1, <2>2 DEF Active
  <2>4. OneExchangePerPayment'
    <3> SUFFICES ASSUME NEW p \in Payments, NEW m \in Attempts, NEW n \in Attempts,
                        Active(<<p, m>>)', Active(<<p, n>>)'
                 PROVE  m = n
      BY DEF OneExchangePerPayment, Active
    <3>1. <<p, m>> \in Handlers /\ <<p, n>> \in Handlers
      BY DEF Handlers
    <3>2. CASE p = h[1]
      BY <1>1, <2>3, <3>1, <3>2
    <3>3. CASE p # h[1]
      BY <2>3, <3>1, <3>3 DEF Exchange, OneExchangePerPayment
    <3>4. QED
      BY <3>2, <3>3
  <2>5. \A g \in Handlers : Active(g)' => UserTransactions'[g[1]] \in {"inProgress", "success"}
    BY <1>1, <1>2, <2>1, <2>3 DEF Exchange
  <2>6. \A p \in Payments : \A n \in Attempts : <<p, n>> \in Handlers
    BY DEF Handlers
  <2>7. QED
    BY <2>4, <2>5, <2>6 DEF Exchange, Active
<1> USE DEF Leave, Points, CallPoints, Answers
<1>6. CASE AuthOk(h) \/ AuthReject(h) \/ RejectPayment(h)
  BY <1>3, <1>6 DEF AuthOk, AuthReject, RejectPayment
<1>7. CASE ReplayStatus(h)
  BY <1>1, <1>3, <1>7 DEF ReplayStatus
<1>8. CASE PrepDebitOk(h) \/ CommDebitOk(h) \/ PrepCreditFail(h)
  BY <1>3, <1>8 DEF PrepDebitOk, CommDebitOk, PrepCreditFail, Active
<1>9. CASE PrepCreditOk(h) \/ CommCreditOk(h)
  BY <1>3, <1>9 DEF PrepCreditOk, CommCreditOk, Active
<1>10. CASE PrepDebitFail(h) \/ ReleaseDone(h)
  BY <1>4, <1>10 DEF PrepDebitFail, ReleaseDone, Active
<1>11. CASE \E k \in CommitKinds : CommitFail(h, k)
  BY <1>4, <1>11 DEF CommitFail, Active, CommitKinds
<1>12. CASE TokenPanic(h)
  BY <1>12 DEF TokenPanic, GatewayDies, Exchange, OneExchangePerPayment, Active
<1>13. QED
  BY <1>5, <1>6, <1>7, <1>8, <1>9, <1>10, <1>11, <1>12 DEF GatewayHandler

(* Exchange is an invariant of the specification.                          *)
LEMMA ExchangeHolds == Spec => []Exchange
<1>1. Init => Exchange
  BY DEF Init, GatewayInit, Exchange, OneExchangePerPayment, Active, CallPoints, Handlers
<1>2. TypeInv /\ Exchange /\ [Next]_vars => Exchange'
  <2> SUFFICES ASSUME TypeInv, Exchange, [Next]_vars PROVE Exchange'
    OBVIOUS
  <2>1. UNCHANGED <<pc, UserTransactions>> => Exchange'
    BY DEF Exchange, OneExchangePerPayment, Active
  <2>2. CASE BankStep \/ UNCHANGED vars
    BY <2>1, <2>2 DEF BankStep, vars, gatewayVars
  <2>3. CASE GatewayRestart
    <3>1. \A h \in Handlers : ~Active(h)'
      BY <2>3 DEF GatewayRestart, Active, CallPoints
    <3>2. QED
      BY <3>1, ExchangeKept
  <2>4. CASE GatewayStep
    BY <2>1, <2>4, <2>3, ExchangeHandler DEF GatewayStep, BankServerDiscovery,
       ConcurrentMapAccess, TokenExpires, GatewayCrash, GatewayDies
  <2>5. ASSUME NEW p \in Payments, SendAttempt(p) PROVE Exchange'
    <3>1. \A g \in Handlers : Active(g)' => Active(g)
      BY <2>5 DEF SendAttempt, Active, CallPoints, TypeInv, TypeOK, GatewayTypeOK
    <3>2. \A g \in Handlers : Active(g) => UserTransactions[g[1]] \in {"inProgress", "success"}
      BY DEF Exchange, Handlers
    <3>3. QED
      BY <2>5, <3>1, <3>2, ExchangeKept DEF SendAttempt
  <2>6. CASE ClientStep
    BY <2>1, <2>5, <2>6 DEF ClientStep, ClientProcess, GatewayUnavailable, RecvSuccess,
       RecvError, RecvInProgress, DeadlineExceeded, TryAgain, gatewayVars
  <2>7. QED
    BY <2>2, <2>4, <2>6 DEF Next
<1>3. LockInv => TypeInv
  BY DEF LockInv
<1>4. QED
  BY <1>1, <1>2, <1>3, LockInvHolds, PTL DEF Spec

(* A retry never runs a second two-phase exchange beside the first one:    *)
(* the status of the transaction id keeps it out until the first is over.  *)
THEOREM ExchangesAreAlone == Spec => []OneExchangePerPayment
<1>1. Exchange => OneExchangePerPayment
  BY DEF Exchange
<1>2. QED
  BY <1>1, ExchangeHolds, PTL
-------------------------------------------------------------------------------
(* The faults that excuse a lock on account a without its handler h.  Once *)
(* there, an excuse remains for as long as the bank remembers the lock: a  *)
(* restarted gateway knows no bank, and a bank that registers with it      *)
(* knows no lock.                                                          *)
Blamed(h, a) ==
  \/ drops > 0
  \/ BankOf[a] \notin BankServers
  \/ BankFailed(Sender[h[1]]) /\ BankOf[Sender[h[1]]] \in BankServers
  \/ BankFailed(Recipient[h[1]]) /\ BankOf[Recipient[h[1]]] \in BankServers

Excused(h, a) == timeouts > 0 \/ ~gatewayUp \/ Blamed(h, a)

(* A prepare that is on its way at its bank, or has locked its account, is *)
(* either waited for or will be followed by the call that unlocks.         *)
PreparesAttended(h) ==
  /\ rpc[Call(h, "prepDebit")] \in {"sent", "acquiring"} =>
       pc[h] = "prepDebit" \/ Excused(h, Sender[h[1]])
  /\ rpc[Call(h, "prepCredit")] \in {"sent", "acquiring"} =>
       pc[h] = "prepCredit" \/ Excused(h, Recipient[h[1]])
  /\ rpc[Call(h, "prepDebit")] = "ok" =>
       \/ pc[h] \in CallPoints
       \/ rpc[Call(h, "commDebit")] = "ok" \/ rpc[Call(h, "release")] = "ok"
       \/ Excused(h, Sender[h[1]])
  /\ rpc[Call(h, "prepCredit")] = "ok" =>
       \/ pc[h] \in {"prepCredit", "commDebit", "commCredit"}
       \/ rpc[Call(h, "commCredit")] = "ok"
       \/ Excused(h, Recipient[h[1]])

(* A call that unlocks is waited for at the bank that has locked.          *)
UnlocksAwaited(h) ==
  /\ \A k \in {"release", "commDebit", "commCredit"} :
       pc[h] = k => rpc[Call(h, k)] \notin {"idle", "gone", "rejected"}
  /\ pc[h] = "commCredit" => rpc[Call(h, "commDebit")] = "ok"

(* A bank that does not listen yet has done nothing for any call.          *)
FreshBanks ==
  \A c \in Calls :
    bankState[BankOf[AccountOf(c)]] \in {"new", "registered"} =>
      rpc[c] \in {"idle", "sent", "rejected", "gone"}

Attended == \A h \in Handlers : PreparesAttended(h) /\ UnlocksAwaited(h)
OrphanInv == Attended /\ FreshBanks
-------------------------------------------------------------------------------
(* Handlers, their calls and the accounts of their calls.                  *)
LEMMA CallAccounts ==
  ASSUME NEW h \in Handlers
  PROVE  /\ AccountOf(Call(h, "prepDebit")) = Sender[h[1]]
         /\ AccountOf(Call(h, "release")) = Sender[h[1]]
         /\ AccountOf(Call(h, "commDebit")) = Sender[h[1]]
         /\ AccountOf(Call(h, "prepCredit")) = Recipient[h[1]]
         /\ AccountOf(Call(h, "commCredit")) = Recipient[h[1]]
         /\ Sender[h[1]] \in Accounts /\ Recipient[h[1]] \in Accounts
         /\ BankOf[Sender[h[1]]] \in Banks /\ BankOf[Recipient[h[1]]] \in Banks
  BY BankAssumption DEF AccountOf, Call, Handlers, BankAssumption

LEMMA OrphanInvInit == Init => OrphanInv
<1> SUFFICES ASSUME Init PROVE OrphanInv
  OBVIOUS
<1>1. \A c \in Calls : rpc[c] = "idle"
  BY DEF Init, BankInit
<1>2. \A h \in Handlers : \A k \in Kinds : rpc[Call(h, k)] = "idle"
  BY <1>1, HandlerParts
<1>3. \A h \in Handlers : pc[h] = "none"
  BY DEF Init, GatewayInit
<1>4. QED
  BY <1>1, <1>2, <1>3 DEF OrphanInv, Attended, PreparesAttended, UnlocksAwaited, FreshBanks,
     Kinds, PrepareKinds, CommitKinds
-------------------------------------------------------------------------------
(* An excuse remains, unless the bank has just registered.                 *)
LEMMA ExcuseRemains ==
  ASSUME TypeInv, [Next]_vars, NEW h \in Handlers,
         NEW a \in {Sender[h[1]], Recipient[h[1]]}
  PROVE  /\ Excused(h, a) => Excused(h, a)' \/ BankOf[a] \in BankServers' \ BankServers
         /\ Blamed(h, a) => Blamed(h, a)' \/ BankOf[a] \in BankServers' \ BankServers
<1> USE DEF Excused, Blamed, BankFailed, TypeInv, TypeOK, BankTypeOK, GatewayTypeOK
<1> DEFINE Remain == (Excused(h, a) => Excused(h, a)') /\ (Blamed(h, a) => Blamed(h, a)')
<1>0. h[1] \in Payments /\ BankOf[Sender[h[1]]] \in Banks /\ BankOf[Recipient[h[1]]] \in Banks
  BY CallAccounts, HandlerParts
<1>1. CASE UNCHANGED <<timeouts, drops, gatewayUp, BankServers, bankState>>
  BY <1>1
<1>2. ASSUME BankStep
      PROVE  Remain
  <2>1. UNCHANGED <<timeouts, drops, gatewayUp, BankServers>>
    BY <1>2 DEF BankStep, gatewayVars
  <2>2. \A b \in Banks : bankState[b] \in {"down", "restarting"} =>
                           bankState'[b] \in {"down", "restarting"}
    <3>1. ASSUME NEW c \in Calls, BankHandler(c)
          PROVE  UNCHANGED bankState \/ bankState' = [bankState EXCEPT ![BankOf[AccountOf(c)]] = "down"]
      BY <3>1 DEF BankHandler, PrepareRefuse, PrepareAccept, AcquireLock, AcquireBusy,
         CommitValidate, CommitLockCheck, CommitPanic, CommitLoad, CommitStore, CommitUnlock,
         ReleaseResource
    <3>2. ASSUME NEW b \in Banks, BankListen(b) \/ BankCrash(b) \/ BankRestart(b)
          PROVE  \A d \in Banks : bankState[d] \in {"down", "restarting"} =>
                                    bankState'[d] \in {"down", "restarting"}
      BY <3>2 DEF BankListen, BankCrash, BankRestart
    <3>3. QED
      BY <1>2, <3>1, <3>2 DEF BankStep
  <2>3. QED
    BY <1>0, <2>1, <2>2
<1>3. ASSUME NEW g \in Handlers, GatewayHandler(g)
      PROVE  Remain
  <2>1. UNCHANGED <<BankServers, bankState>>
    BY <1>3 DEF GatewayHandler, AuthOk, AuthReject, RejectPayment, ReplayStatus, BeginPayment,
       PrepDebitOk, PrepDebitFail, PrepCreditOk, PrepCreditFail, ReleaseDone, CommDebitOk,
       CommCreditOk, CommitFail, TokenPanic, GatewayDies, processOnly, banksIdle, bankVars
  <2>2. gatewayUp' = gatewayUp \/ ~gatewayUp'
    BY <1>3 DEF GatewayHandler, AuthOk, AuthReject, RejectPayment, ReplayStatus, BeginPayment,
       PrepDebitOk, PrepDebitFail, PrepCreditOk, PrepCreditFail, ReleaseDone, CommDebitOk,
       CommCreditOk, CommitFail, TokenPanic, GatewayDies, processOnly
  <2>3. timeouts' \in {timeouts, timeouts + 1} /\ drops' \in {drops, drops + 1}
    BY <1>3 DEF GatewayHandler, AuthOk, AuthReject, RejectPayment, ReplayStatus, BeginPayment,
       PrepDebitOk, PrepDebitFail, PrepCreditOk, PrepCreditFail, ReleaseDone, CommDebitOk,
       CommCreditOk, CommitFail, TokenPanic, GatewayDies, PrepareLost, CallLost
  <2>4. QED
    BY <2>1, <2>2, <2>3, GatewayAssumption DEF GatewayAssumption
<1>4. ASSUME NEW b \in Banks, BankServerDiscovery(b)
      PROVE  Remain \/ BankOf[a] \in BankServers' \ BankServers
  BY <1>0, <1>4 DEF BankServerDiscovery
<1>5. CASE GatewayRestart
  BY <1>5 DEF GatewayRestart
<1>6. CASE GatewayStep
  BY <1>1, <1>3, <1>4, <1>5, <1>6 DEF GatewayStep, ConcurrentMapAccess, TokenExpires,
     GatewayCrash, GatewayDies, bankVars
<1>7. CASE ClientStep
  BY <1>1, <1>7 DEF ClientStep, ClientProcess, SendAttempt, GatewayUnavailable, RecvSuccess,
     RecvError, RecvInProgress, DeadlineExceeded, TryAgain, gatewayVars, bankVars
<1>8. QED
  BY <1>1, <1>2, <1>6, <1>7 DEF Next, vars, gatewayVars, bankVars
-------------------------------------------------------------------------------
(* The excuses of h remain in a step.                                      *)
Keeps(h) ==
  \A a \in {Sender[h[1]], Recipient[h[1]]} :
    (Excused(h, a) => Excused(h, a)') /\ (Blamed(h, a) => Blamed(h, a)')

(* Where no bank registers every excuse remains.                           *)
LEMMA NobodyRegisters ==
  ASSUME TypeInv, [Next]_vars, BankServers' \subseteq BankServers
  PROVE  \A h \in Handlers : Keeps(h)
  BY ExcuseRemains DEF Keeps

(* Whoever leaves a handler and its calls alone leaves it attended.        *)
AttendedOf(h) == PreparesAttended(h) /\ UnlocksAwaited(h)

LEMMA LeftAlone ==
  ASSUME NEW h \in Handlers, AttendedOf(h), Keeps(h), pc'[h] = pc[h],
         \A k \in Kinds : rpc'[Call(h, k)] = rpc[Call(h, k)]
  PROVE  AttendedOf(h)'
<1>1. \A k : Call(h, k)' = Call(h, k)
  BY DEF Call
<1>2. /\ Excused(h, Sender[h[1]]) => Excused(h, Sender[h[1]])'
      /\ Excused(h, Recipient[h[1]]) => Excused(h, Recipient[h[1]])'
  BY DEF Keeps
<1> DEFINE Same(k) == rpc'[Call(h, k)] = rpc[Call(h, k)]
<1>3. Same("prepDebit") /\ Same("prepCredit") /\ Same("release") /\ Same("commDebit")
      /\ Same("commCredit")
  BY DEF Kinds, PrepareKinds, CommitKinds
<1>4. QED
  BY <1>1, <1>2, <1>3 DEF AttendedOf, PreparesAttended, UnlocksAwaited

(* What a bank does with a call of kind k: it begins with one that was     *)
(* sent, goes on, and rejects none that unlocks.                           *)
BankMove(k, u, v) ==
  \/ u = v
  \/ /\ u \notin {"idle", "ok", "gone", "rejected"}
     /\ v \notin {"idle", "gone", "sent"}
     /\ k \in PrepareKinds => u \in {"sent", "acquiring"}
     /\ u = "applied" => v = "ok"
     /\ v = "applied" => u = "loaded"
     /\ k \in CommitKinds /\ v = "ok" => u = "applied"
     /\ k \notin PrepareKinds => v # "rejected"

LEMMA BankMoves ==
  ASSUME NEW h \in Handlers, AttendedOf(h), Keeps(h), pc' = pc,
         \A k \in Kinds : BankMove(k, rpc[Call(h, k)], rpc'[Call(h, k)])
  PROVE  AttendedOf(h)'
<1>1. \A k : Call(h, k)' = Call(h, k)
  BY DEF Call
<1>2. /\ Excused(h, Sender[h[1]]) => Excused(h, Sender[h[1]])'
      /\ Excused(h, Recipient[h[1]]) => Excused(h, Recipient[h[1]])'
  BY DEF Keeps
<1> DEFINE At(k) == BankMove(k, rpc[Call(h, k)], rpc'[Call(h, k)])
<1>3. At("prepDebit") /\ At("prepCredit") /\ At("release") /\ At("commDebit")
      /\ At("commCredit")
  BY DEF Kinds, PrepareKinds, CommitKinds
<1>4. PreparesAttended(h)'
  BY <1>1, <1>2, <1>3 DEF AttendedOf, PreparesAttended, BankMove, PrepareKinds, CallPoints
<1>5. UnlocksAwaited(h)'
  BY <1>1, <1>3 DEF AttendedOf, UnlocksAwaited, BankMove, PrepareKinds
<1>6. QED
  BY <1>4, <1>5 DEF AttendedOf

(* What the goroutine that serves call c does to the calls and the banks.  *)
LEMMA HandlerCalls ==
  ASSUME LockInv, NEW c \in Calls, BankHandler(c)
  PROVE  /\ \A d \in Calls : BankMove(d[3], rpc[d], rpc'[d])
         /\ \A d \in Calls : rpc'[d] # rpc[d] => Serving(d)
         /\ \A d \in Calls : rpc'[d] = "applied" => rpc[d] = "applied" \/ CommitStore(d)
         /\ \A b \in Banks : bankState'[b] \in {bankState[b], "down"}
<1> USE DEF LockInv
<1> USE DEF TypeInv, TypeOK, BankTypeOK
<1>1. CASE CommitPanic(c)
  BY <1>1 DEF CommitPanic, BankMove
<1>2. CASE ~CommitPanic(c)
  <2>1. PICK u, v \in RpcStates :
          /\ Serving(c) /\ rpc[c] = u /\ rpc' = [rpc EXCEPT ![c] = v]
          /\ u \notin {"idle", "ok", "gone", "rejected"} /\ v \notin {"idle", "gone", "sent"}
          /\ c[3] \in PrepareKinds => u \in {"sent", "acquiring"}
          /\ u = "applied" => v = "ok"
          /\ v = "applied" => u = "loaded" /\ CommitStore(c)
          /\ c[3] \in CommitKinds /\ v = "ok" => u = "applied"
          /\ c[3] \notin PrepareKinds => v # "rejected"
    <3> c[3] \in Kinds
      BY CallParts
    <3> USE DEF RpcStates, Step, PrepareKinds, CommitKinds, Kinds, ExchangeInv, CallStates, Pre
    <3>1. CASE PrepareRefuse(c) \/ PrepareAccept(c) \/ AcquireLock(c) \/ AcquireBusy(c)
      BY <3>1 DEF PrepareRefuse, PrepareAccept, AcquireLock, AcquireBusy
    <3>2. CASE CommitValidate(c) \/ CommitLockCheck(c) \/ CommitLoad(c)
      BY <3>2 DEF CommitValidate, CommitLockCheck, CommitLoad
    <3>3. CASE CommitStore(c) \/ CommitUnlock(c) \/ ReleaseResource(c)
      BY <3>3 DEF CommitStore, CommitUnlock, ReleaseResource
    <3>4. QED
      BY <1>2, <3>1, <3>2, <3>3 DEF BankHandler
  <2>2. bankState' = bankState
    BY <1>2 DEF BankHandler, PrepareRefuse, PrepareAccept, AcquireLock, AcquireBusy,
       CommitValidate, CommitLockCheck, CommitLoad, CommitStore, CommitUnlock,
       ReleaseResource
  <2>3. QED
    BY <2>1, <2>2 DEF BankMove
<1>3. QED
  BY <1>1, <1>2

LEMMA OrphanInvBank ==
  ASSUME LockInv, OrphanInv, BankStep
  PROVE  OrphanInv'
<1> USE DEF LockInv, OrphanInv
<1>1. pc' = pc /\ UNCHANGED <<timeouts, drops, gatewayUp, BankServers>>
  BY DEF BankStep, gatewayVars
<1>2. \A h \in Handlers : Keeps(h)
  BY <1>1, NobodyRegisters DEF Next
<1>3. ASSUME NEW c \in Calls, BankHandler(c)
      PROVE  /\ \A d \in Calls : BankMove(d[3], rpc[d], rpc'[d])
             /\ \A d \in Calls : rpc'[d] # rpc[d] => Serving(d)
             /\ \A b \in Banks : bankState'[b] \in {bankState[b], "down"}
  BY <1>3, HandlerCalls
<1>4. ASSUME NEW b \in Banks, BankListen(b) \/ BankCrash(b) \/ BankRestart(b)
      PROVE  /\ rpc' = rpc
             /\ \A d \in Banks : bankState'[d] \in {bankState[d], "serving", "down", "restarting"}
  BY <1>4 DEF BankListen, BankCrash, BankRestart, TypeInv, TypeOK, BankTypeOK
<1>5. \A d \in Calls : BankMove(d[3], rpc[d], rpc'[d])
  BY <1>3, <1>4 DEF BankStep, BankMove
<1>6. Attended'
  <2> SUFFICES ASSUME NEW h \in Handlers PROVE AttendedOf(h)'
    BY DEF Attended, AttendedOf
  <2>1. \A k \in Kinds : BankMove(k, rpc[Call(h, k)], rpc'[Call(h, k)])
    BY <1>5, HandlerParts
  <2>2. QED
    BY <1>1, <1>2, <2>1, BankMoves DEF Attended, AttendedOf
<1>7. FreshBanks'
  <2> SUFFICES ASSUME NEW c \in Calls,
                      bankState'[BankOf[AccountOf(c)]] \in {"new", "registered"}
               PROVE  rpc'[c] \in {"idle", "sent", "rejected", "gone"}
    BY DEF FreshBanks, AccountOf
  <2>1. BankOf[AccountOf(c)] \in Banks
    BY BankAssumption, CallParts DEF BankAssumption, AccountOf
  <2>2. bankState[BankOf[AccountOf(c)]] \in {"new", "registered"} /\ rpc'[c] = rpc[c]
    BY <1>3, <1>4, <2>1 DEF BankStep, Serving
  <2>3. QED
    BY <2>2 DEF FreshBanks
<1>8. QED
  BY <1>6, <1>7
-------------------------------------------------------------------------------
(* A call that has come further than its way to the bank, and all calls    *)
(* that unlock have, can only fail because the bank's process has ended.   *)
LEMMA FailedCall ==
  ASSUME LockInv, KnownBanks, OrphanInv, NEW h \in Handlers, NEW k \in CallPoints,
         pc[h] = k, ~Serving(Call(h, k)),
         k \in PrepareKinds => rpc[Call(h, k)] \in {"acquiring", "ok"}
  PROVE  /\ Blamed(h, Sender[h[1]]) /\ Blamed(h, Recipient[h[1]])
         /\ Excused(h, Sender[h[1]]) /\ Excused(h, Recipient[h[1]])
<1> DEFINE b == BankOf[AccountOf(Call(h, k))]
           first == IF k \in PrepareKinds THEN k
                    ELSE IF k = "commCredit" THEN "prepCredit" ELSE "prepDebit"
<1>1. b \in Banks /\ b \in BankServers
  BY CallAccounts DEF CallPoints, KnownBanks, Active
<1>2. first \in Kinds /\ k \in Kinds /\ AccountOf(Call(h, first)) = AccountOf(Call(h, k))
  BY CallAccounts DEF CallPoints, PrepareKinds, CommitKinds, Kinds
<1>3. rpc[Call(h, first)] \in {"acquiring", "ok"}
  <2>1. k \notin PrepareKinds => rpc[Call(h, k)] \notin {"idle", "gone"}
    BY DEF OrphanInv, Attended, UnlocksAwaited, CallPoints, PrepareKinds
  <2>2. OrderOf(h)
    BY DEF LockInv, ExchangeInv, CallOrder
  <2>3. QED
    BY <2>1, <2>2 DEF OrderOf, CallPoints, PrepareKinds
<1>4. bankState[b] \notin {"new", "registered"}
  BY <1>2, <1>3, CallsDistinct DEF OrphanInv, FreshBanks
<1>5. bankState[b] \in {"down", "restarting"}
  BY <1>1, <1>4 DEF Serving, LockInv, TypeInv, TypeOK, BankTypeOK, BankStates
<1>6. QED
  BY <1>1, <1>5, CallAccounts DEF Excused, Blamed, BankFailed, CallPoints

(* A step of handler g that ends its wait: the calls it makes and gives up *)
(* are its own.                                                            *)
LEMMA OneHandlerMoves ==
  ASSUME TypeInv, OrphanInv, NEW g \in Handlers, NEW to, pc' = [pc EXCEPT ![g] = to],
         bankState' = bankState,
         \A c \in Calls : <<c[1], c[2]>> # g => rpc'[c] = rpc[c],
         \A c \in Calls : rpc'[c] \in {rpc[c], "sent", "rejected"},
         \A h \in Handlers : Keeps(h),
         AttendedOf(g)'
  PROVE  OrphanInv'
<1>1. ASSUME NEW h \in Handlers, h # g
      PROVE  AttendedOf(h)'
  <2>1. pc'[h] = pc[h]
    BY <1>1 DEF TypeInv, TypeOK, GatewayTypeOK
  <2>2. \A k \in Kinds : rpc'[Call(h, k)] = rpc[Call(h, k)]
    BY <1>1, HandlerParts
  <2>3. QED
    BY <2>1, <2>2, LeftAlone DEF OrphanInv, Attended, AttendedOf
<1>2. Attended'
  BY <1>1 DEF Attended, AttendedOf
<1>3. FreshBanks'
  BY DEF OrphanInv, FreshBanks, AccountOf
<1>4. QED
  BY <1>2, <1>3 DEF OrphanInv

(* The two banks of a handler after a step of its own.                     *)
LEMMA HandlerAttended ==
  ASSUME LockInv, KnownBanks, OrphanInv, NEW g \in Handlers, GatewayHandler(g),
         \A h \in Handlers : Keeps(h)
  PROVE  OrphanInv'
<1> USE DEF LockInv
<1> DEFINE D == rpc[Call(g, "prepDebit")]
           C == rpc[Call(g, "prepCredit")]
           R == rpc[Call(g, "release")]
           CD == rpc[Call(g, "commDebit")]
           CC == rpc[Call(g, "commCredit")]
           S == Sender[g[1]]
           T == Recipient[g[1]]
<1>1. /\ \A k \in Kinds : Call(g, k) \in Calls
      /\ \A k, l \in Kinds : Call(g, k) = Call(g, l) => k = l
      /\ \A c \in Calls : \A k \in Kinds : <<c[1], c[2]>> # g => c # Call(g, k)
  BY CallsDistinct
<1>2. /\ "prepDebit" \in Kinds /\ "prepCredit" \in Kinds /\ "release" \in Kinds
      /\ "commDebit" \in Kinds /\ "commCredit" \in Kinds
  BY DEF Kinds, PrepareKinds, CommitKinds
<1>3. /\ Excused(g, S) => Excused(g, S)'
      /\ Excused(g, T) => Excused(g, T)'
  BY DEF Keeps
<1>4. /\ AttendedOf(g) <=>
           /\ D \in {"sent", "acquiring"} => pc[g] = "prepDebit" \/ Excused(g, S)
           /\ C \in {"sent", "acquiring"} => pc[g] = "prepCredit" \/ Excused(g, T)
           /\ D = "ok" => pc[g] \in CallPoints \/ CD = "ok" \/ R = "ok" \/ Excused(g, S)
           /\ C = "ok" => pc[g] \in {"prepCredit", "commDebit", "commCredit"}
                            \/ CC = "ok" \/ Excused(g, T)
           /\ pc[g] = "release" => R \notin {"idle", "gone", "rejected"}
           /\ pc[g] = "commDebit" => CD \notin {"idle", "gone", "rejected"}
           /\ pc[g] = "commCredit" => CC \notin {"idle", "gone", "rejected"} /\ CD = "ok"
      /\ AttendedOf(g)' <=>
           /\ D' \in {"sent", "acquiring"} => pc'[g] = "prepDebit" \/ Excused(g, S)'
           /\ C' \in {"sent", "acquiring"} => pc'[g] = "prepCredit" \/ Excused(g, T)'
           /\ D' = "ok" => pc'[g] \in CallPoints \/ CD' = "ok" \/ R' = "ok" \/ Excused(g, S)'
           /\ C' = "ok" => pc'[g] \in {"prepCredit", "commDebit", "commCredit"}
                            \/ CC' = "ok" \/ Excused(g, T)'
           /\ pc'[g] = "release" => R' \notin {"idle", "gone", "rejected"}
           /\ pc'[g] = "commDebit" => CD' \notin {"idle", "gone", "rejected"}
           /\ pc'[g] = "commCredit" => CC' \notin {"idle", "gone", "rejected"} /\ CD' = "ok"
  BY DEF AttendedOf, PreparesAttended, UnlocksAwaited, Call
<1>5. AttendedOf(g)
  BY DEF OrphanInv, Attended, AttendedOf
<1>6. \A to : pc' = [pc EXCEPT ![g] = to] => pc'[g] = to
  BY DEF TypeInv, TypeOK, GatewayTypeOK
<1>7. ASSUME NEW to \in {"authorized"} \union Answers, rpc' = rpc,
             bankState' = bankState, pc' = [pc EXCEPT ![g] = to],
             pc[g] \in {"arrived", "authorized"} \/ (pc[g] = "commCredit" /\ CC = "ok")
      PROVE  OrphanInv'
  <2>1. pc[g] \in {"arrived", "authorized"} => D = "idle" /\ C = "idle"
    BY <1>2 DEF ExchangeInv, CallsAheadIdle, Ahead
  <2>2. D' = D /\ C' = C /\ R' = R /\ CD' = CD /\ CC' = CC
    BY <1>7 DEF Call
  <2>3. pc'[g] = to
    BY <1>6, <1>7
  <2>4. AttendedOf(g)'
    BY <1>3, <1>4, <1>5, <1>7, <2>1, <2>2, <2>3 DEF Answers, CallPoints
  <2>5. QED
    BY <1>7, <2>4, OneHandlerMoves
<1>8. ASSUME NEW k \in Kinds, NEW to \in CallPoints, Send(g, k), k = to,
             bankState' = bankState, pc' = [pc EXCEPT ![g] = to],
             \/ k = "prepDebit" /\ pc[g] = "authorized"
             \/ k = "prepCredit" /\ pc[g] = "prepDebit" /\ D = "ok"
             \/ k = "commDebit" /\ pc[g] = "prepCredit" /\ C = "ok"
             \/ k = "commCredit" /\ pc[g] = "commDebit" /\ CD = "ok"
      PROVE  OrphanInv'
  <2>1. \A c \in Calls : rpc'[c] = IF c = Call(g, k) THEN "sent" ELSE rpc[c]
    BY <1>1, <1>8 DEF Send, TypeInv, TypeOK, BankTypeOK
  <2>2. \A l \in Kinds : rpc'[Call(g, l)] = IF l = k THEN "sent" ELSE rpc[Call(g, l)]
    BY <1>1, <2>1
  <2>3. /\ D' = IF k = "prepDebit" THEN "sent" ELSE D
        /\ C' = IF k = "prepCredit" THEN "sent" ELSE C
        /\ R' = IF k = "release" THEN "sent" ELSE R
        /\ CD' = IF k = "commDebit" THEN "sent" ELSE CD
        /\ CC' = IF k = "commCredit" THEN "sent" ELSE CC
    BY <1>2, <2>2 DEF Call
  <2>4. pc[g] = "authorized" => D = "idle" /\ C = "idle" /\ CD = "idle" /\ CC = "idle"
    BY <1>2 DEF ExchangeInv, CallsAheadIdle, Ahead
  <2>5. pc[g] = "prepDebit" => C = "idle"
    BY <1>2 DEF ExchangeInv, CallsAheadIdle, Ahead, Kinds
  <2>6. pc[g] = "prepCredit" => D = "ok"
    BY DEF ExchangeInv, CallOrder, OrderOf
  <2>7. pc'[g] = k
    BY <1>6, <1>8
  <2>8. AttendedOf(g)'
    BY <1>3, <1>4, <1>5, <1>8, <2>3, <2>4, <2>5, <2>6, <2>7 DEF CallPoints
  <2>9. \A c \in Calls : <<c[1], c[2]>> # g => rpc'[c] = rpc[c]
    BY <1>1, <2>1
  <2>10. QED
    BY <1>8, <2>1, <2>8, <2>9, OneHandlerMoves
<1>9. ASSUME NEW k \in CallPoints, pc[g] = k,
             Unavailable(g, k) \/ timeouts' = timeouts + 1 \/ drops' = drops + 1
      PROVE  \/ Excused(g, S)' /\ Excused(g, T)'
             \/ k \in PrepareKinds /\ GivenUp(g, k) \notin {"sent", "acquiring", "ok"}
  <2>1. CASE timeouts' = timeouts + 1 \/ drops' = drops + 1
    <3>1. timeouts \in Nat /\ drops \in Nat
      BY GatewayAssumption DEF GatewayAssumption, TypeInv, TypeOK, GatewayTypeOK
    <3>2. QED
      BY <2>1, <3>1 DEF Excused, Blamed
  <2>2. CASE Unavailable(g, k)
    <3>1. k \notin PrepareKinds => rpc[Call(g, k)] # "rejected"
      BY <1>9 DEF OrphanInv, Attended, UnlocksAwaited, CallPoints, PrepareKinds
    <3>2. CASE k \in PrepareKinds /\ GivenUp(g, k) \notin {"sent", "acquiring", "ok"}
      BY <3>2
    <3>3. CASE ~Serving(Call(g, k)) /\ (k \in PrepareKinds => rpc[Call(g, k)] \in {"acquiring", "ok"})
      BY <1>3, <1>9, <3>3, FailedCall
    <3>4. QED
      BY <2>2, <3>1, <3>2, <3>3 DEF Unavailable, GivenUp
  <2>3. QED
    BY <1>9, <2>1, <2>2
<1>10. ASSUME NEW k \in CallPoints, pc[g] = k, pc' = [pc EXCEPT ![g] = "error"],
              Abandon(g, k), bankState' = bankState,
              \/ Unavailable(g, k) \/ timeouts' = timeouts + 1 \/ drops' = drops + 1
              \/ k = "release" /\ R = "ok",
              k # "prepCredit"
       PROVE  OrphanInv'
  <2> DEFINE v == GivenUp(g, k)
  <2>1. v \in {rpc[Call(g, k)], "rejected"} /\ (v = "ok" <=> rpc[Call(g, k)] = "ok")
    BY DEF GivenUp
  <2> k \in Kinds
    BY DEF CallPoints, Kinds, PrepareKinds, CommitKinds
  <2>2. \A c \in Calls : rpc'[c] = IF c = Call(g, k) THEN v ELSE rpc[c]
    BY <1>1, <1>10 DEF Abandon, TypeInv, TypeOK, BankTypeOK
  <2> HIDE DEF v
  <2>3. \A l \in Kinds : rpc'[Call(g, l)] = IF l = k THEN v ELSE rpc[Call(g, l)]
    BY <1>1, <2>2
  <2>4. /\ D' = IF k = "prepDebit" THEN v ELSE D
        /\ C' = IF k = "prepCredit" THEN v ELSE C
        /\ R' = IF k = "release" THEN v ELSE R
        /\ CD' = IF k = "commDebit" THEN v ELSE CD
        /\ CC' = IF k = "commCredit" THEN v ELSE CC
    BY <1>2, <2>3 DEF Call
  <2>5. pc'[g] = "error"
    BY <1>6, <1>10
  <2>6. pc[g] = "prepDebit" => C = "idle"
    BY <1>2 DEF ExchangeInv, CallsAheadIdle, Ahead, Kinds
  <2>7. AttendedOf(g)'
    <3>1. CASE k = "release" /\ R = "ok"
      BY <1>3, <1>4, <1>5, <1>10, <2>1, <2>4, <2>5, <3>1
    <3>2. CASE Excused(g, S)' /\ Excused(g, T)'
      BY <1>4, <2>5, <3>2
    <3>3. CASE k = "prepDebit" /\ v \notin {"sent", "acquiring", "ok"}
      BY <1>3, <1>4, <1>5, <1>10, <2>4, <2>5, <2>6, <3>3
    <3>4. QED
      BY <1>9, <1>10, <3>1, <3>2, <3>3 DEF PrepareKinds, v
  <2>8. \A c \in Calls : <<c[1], c[2]>> # g => rpc'[c] = rpc[c]
    BY <1>1, <2>2
  <2>9. QED
    BY <1>10, <2>1, <2>2, <2>7, <2>8, OneHandlerMoves
<1>11. CASE PrepCreditFail(g)
  <2> DEFINE v == GivenUp(g, "prepCredit")
  <2>1. v \in {C, "rejected"} /\ (Excused(g, T)' \/ v \notin {"sent", "acquiring", "ok"})
    BY <1>9, <1>11 DEF GivenUp, PrepCreditFail, PrepareLost, Leave, CallPoints
  <2>2. \A c \in Calls : rpc'[c] = IF c = Call(g, "release") THEN "sent"
                                   ELSE IF c = Call(g, "prepCredit") THEN v ELSE rpc[c]
    BY <1>1, <1>2, <1>11 DEF PrepCreditFail, TypeInv, TypeOK, BankTypeOK
  <2> HIDE DEF v
  <2>3. D' = D /\ C' = v /\ R' = "sent" /\ CD' = CD /\ CC' = CC
    BY <1>1, <1>2, <2>2 DEF Call
  <2>4. pc[g] = "prepCredit" /\ pc'[g] = "release"
    BY <1>6, <1>11 DEF PrepCreditFail, Leave
  <2>5. D = "ok" /\ R = "idle"
    BY <1>2, <2>4 DEF ExchangeInv, CallOrder, OrderOf, CallsAheadIdle, Ahead
  <2>6. AttendedOf(g)'
    BY <1>3, <1>4, <1>5, <2>1, <2>3, <2>4, <2>5 DEF CallPoints
  <2>7. \A c \in Calls : <<c[1], c[2]>> # g => rpc'[c] = rpc[c]
    BY <1>1, <1>2, <2>2
  <2>8. pc' = [pc EXCEPT ![g] = "release"] /\ bankState' = bankState
    BY <1>11 DEF PrepCreditFail, Leave, banksIdle
  <2>9. QED
    BY <2>1, <2>2, <2>6, <2>7, <2>8, OneHandlerMoves
<1>12. CASE AuthOk(g) \/ AuthReject(g) \/ RejectPayment(g) \/ CommCreditOk(g)
  BY <1>7, <1>12 DEF AuthOk, AuthReject, RejectPayment, CommCreditOk, Leave, bankVars,
     Answers, Answered
<1>13. CASE ReplayStatus(g)
  BY <1>7, <1>13 DEF ReplayStatus, Leave, bankVars, Answers
<1>14. CASE BeginPayment(g) \/ PrepDebitOk(g) \/ PrepCreditOk(g) \/ CommDebitOk(g)
  BY <1>2, <1>8, <1>14 DEF BeginPayment, PrepDebitOk, PrepCreditOk, CommDebitOk, Leave, banksIdle,
     CallPoints, Answered
<1>15. CASE PrepDebitFail(g) \/ ReleaseDone(g)
  BY <1>10, <1>15 DEF PrepDebitFail, ReleaseDone, PrepareLost, CallLost, Leave, banksIdle,
     CallPoints, Answered
<1>16. CASE \E k \in CommitKinds : CommitFail(g, k)
  BY <1>10, <1>16 DEF CommitFail, CallLost, Leave, banksIdle, CommitKinds, CallPoints
<1>17. CASE TokenPanic(g)
  <2>1. pc' = [pc EXCEPT ![g] = pc[g]] /\ UNCHANGED <<rpc, bankState>>
    BY <1>17 DEF TokenPanic, GatewayDies, bankVars, TypeInv, TypeOK, GatewayTypeOK
  <2>2. pc'[g] = pc[g] /\ \A k \in Kinds : rpc'[Call(g, k)] = rpc[Call(g, k)]
    BY <1>6, <2>1
  <2>3. AttendedOf(g)'
    BY <1>5, <2>2, LeftAlone
  <2>4. QED
    BY <2>1, <2>3, OneHandlerMoves
<1>18. QED
  BY <1>11, <1>12, <1>13, <1>14, <1>15, <1>16, <1>17 DEF GatewayHandler
-------------------------------------------------------------------------------
(* A step that changes no call and no handler.                             *)
LEMMA NobodyMoves ==
  ASSUME TypeInv, OrphanInv, \A h \in Handlers : Keeps(h), pc' = pc, rpc' = rpc,
         \A b \in Banks : bankState'[b] \in {bankState[b], "down"}
  PROVE  OrphanInv'
<1>1. \A c \in Calls : BankOf[AccountOf(c)] \in Banks
  BY CallParts, BankAssumption DEF AccountOf, BankAssumption
<1>2. FreshBanks'
  BY <1>1 DEF OrphanInv, FreshBanks, AccountOf
<1>3. Attended'
  <2> SUFFICES ASSUME NEW h \in Handlers PROVE AttendedOf(h)'
    BY DEF Attended, AttendedOf
  <2>1. QED
    BY LeftAlone DEF OrphanInv, Attended, AttendedOf
<1>4. QED
  BY <1>2, <1>3 DEF OrphanInv

(* The memory of a bank that registers knows no call: what it held before  *)
(* needs no excuse any more.                                               *)
LEMMA FreshBankForgets ==
  ASSUME LockInv, KnownBanks, OrphanInv, NEW b \in Banks, BankServerDiscovery(b),
         gatewayUp, b \notin BankServers
  PROVE  OrphanInv'
<1> USE DEF LockInv, TypeInv, TypeOK, BankTypeOK
<1>1. /\ FreshMemory(b) /\ bankState' = [bankState EXCEPT ![b] = "registered"]
      /\ BankServers' = BankServers \union {b}
      /\ UNCHANGED <<pc, gatewayUp, timeouts, drops>>
  BY DEF BankServerDiscovery
<1>2. \A c \in Calls : rpc'[c] = IF rpc[c] # "idle" /\ BankOf[AccountOf(c)] = b
                                   THEN "gone" ELSE rpc[c]
  BY <1>1 DEF FreshMemory
<1>3. FreshBanks'
  <2> SUFFICES ASSUME NEW c \in Calls,
                      bankState'[BankOf[AccountOf(c)]] \in {"new", "registered"}
               PROVE  rpc'[c] \in {"idle", "sent", "rejected", "gone"}
    BY DEF FreshBanks, AccountOf
  <2>1. BankOf[AccountOf(c)] \in Banks
    BY BankAssumption, CallParts DEF BankAssumption, AccountOf
  <2>2. QED
    BY <1>1, <1>2, <2>1 DEF OrphanInv, FreshBanks
<1>4. ASSUME NEW h \in Handlers
      PROVE  AttendedOf(h)'
  <2> DEFINE S == Sender[h[1]]
             T == Recipient[h[1]]
             At(k, a) == rpc'[Call(h, k)] = IF rpc[Call(h, k)] # "idle" /\ BankOf[a] = b
                                              THEN "gone" ELSE rpc[Call(h, k)]
  <2>1. /\ At("prepDebit", S) /\ At("release", S) /\ At("commDebit", S)
        /\ At("prepCredit", T) /\ At("commCredit", T)
    BY <1>2, HandlerParts, CallAccounts DEF Kinds, PrepareKinds, CommitKinds
  <2>2. \A a \in {S, T} : Excused(h, a) /\ BankOf[a] # b => Excused(h, a)'
    BY <1>1, CallAccounts DEF Excused, Blamed, BankFailed
  <2>3. pc[h] \in CallPoints => BankOf[S] # b /\ BankOf[T] # b
    BY DEF KnownBanks, Active
  <2>4. AttendedOf(h)
    BY DEF OrphanInv, Attended, AttendedOf
  <2>5. PreparesAttended(h)'
    BY <1>1, <2>1, <2>2, <2>3, <2>4 DEF AttendedOf, PreparesAttended, Call
  <2>6. UnlocksAwaited(h)'
    BY <1>1, <2>1, <2>3, <2>4 DEF AttendedOf, UnlocksAwaited, Call, CallPoints
  <2>7. QED
    BY <2>5, <2>6 DEF AttendedOf
<1>5. QED
  BY <1>3, <1>4 DEF OrphanInv, Attended, AttendedOf

(* Every step of the gateway preserves the invariant.                      *)
LEMMA OrphanInvGateway ==
  ASSUME LockInv, KnownBanks, OrphanInv, GatewayStep
  PROVE  OrphanInv'
<1> USE DEF LockInv
<1>1. [Next]_vars
  BY DEF Next
<1>2. ASSUME BankServers' \subseteq BankServers
      PROVE  \A h \in Handlers : Keeps(h)
  BY <1>1, <1>2, NobodyRegisters
<1>3. ASSUME NEW h \in Handlers, GatewayHandler(h)
      PROVE  OrphanInv'
  <2>1. BankServers' = BankServers
    BY <1>3 DEF GatewayHandler, AuthOk, AuthReject, RejectPayment, ReplayStatus, BeginPayment,
       PrepDebitOk, PrepDebitFail, PrepCreditOk, PrepCreditFail, ReleaseDone, CommDebitOk,
       CommCreditOk, CommitFail, TokenPanic, GatewayDies, processOnly
  <2>2. QED
    BY <1>2, <1>3, <2>1, HandlerAttended
<1>4. ASSUME NEW b \in Banks, BankServerDiscovery(b)
      PROVE  OrphanInv'
  <2>1. CASE gatewayUp /\ b \notin BankServers
    BY <1>4, <2>1, FreshBankForgets
  <2>2. CASE ~(gatewayUp /\ b \notin BankServers)
    <3>1. UNCHANGED <<BankServers, pc, rpc>> /\ bankState' = [bankState EXCEPT ![b] = "down"]
      BY <1>4, <2>2 DEF BankServerDiscovery
    <3>2. \A d \in Banks : bankState'[d] \in {bankState[d], "down"}
      BY <3>1 DEF TypeInv, TypeOK, BankTypeOK
    <3>3. QED
      BY <1>2, <3>1, <3>2, NobodyMoves
  <2>3. QED
    BY <2>1, <2>2
<1>5. ASSUME NEW h \in Handlers, NEW b \in Banks, ConcurrentMapAccess(h, b)
      PROVE  OrphanInv'
  <2>1. UNCHANGED <<BankServers, pc, rpc>> /\ bankState' = [bankState EXCEPT ![b] = "down"]
    BY <1>5 DEF ConcurrentMapAccess, GatewayDies
  <2>2. \A d \in Banks : bankState'[d] \in {bankState[d], "down"}
    BY <2>1 DEF TypeInv, TypeOK, BankTypeOK
  <2>3. QED
    BY <1>2, <2>1, <2>2, NobodyMoves
<1>6. CASE GatewayRestart
  <2>1. BankServers' = {} /\ UNCHANGED <<rpc, bankState>>
        /\ pc' = [h \in Handlers |-> IF pc[h] = "none" THEN "none" ELSE "error"]
    BY <1>6 DEF GatewayRestart, bankVars
  <2>2. \A h \in Handlers : AttendedOf(h)'
    BY <2>1 DEF AttendedOf, PreparesAttended, UnlocksAwaited, Excused, Blamed
  <2>3. FreshBanks'
    BY <2>1 DEF OrphanInv, FreshBanks, AccountOf
  <2>4. QED
    BY <2>2, <2>3 DEF OrphanInv, Attended, AttendedOf
<1>7. CASE GatewayCrash \/ \E u \in Users : TokenExpires(u)
  <2>1. UNCHANGED <<BankServers, pc, rpc, bankState>>
    BY <1>7 DEF GatewayCrash, GatewayDies, TokenExpires, bankVars
  <2>2. QED
    BY <1>2, <2>1, NobodyMoves
<1>8. QED
  BY <1>3, <1>4, <1>5, <1>6, <1>7 DEF GatewayStep
-------------------------------------------------------------------------------
(* A client begins an attempt whose handler has made no call; otherwise it *)
(* changes nothing here.                                                   *)
LEMMA OrphanInvClient ==
  ASSUME LockInv, OrphanInv, ClientStep
  PROVE  OrphanInv'
<1> USE DEF LockInv
<1>1. UNCHANGED <<BankServers, rpc, bankState>>
  BY DEF ClientStep, ClientProcess, SendAttempt, GatewayUnavailable, RecvSuccess, RecvError,
     RecvInProgress, DeadlineExceeded, TryAgain, gatewayVars, bankVars
<1>2. \A h \in Handlers : Keeps(h)
  BY <1>1, NobodyRegisters DEF Next
<1>3. ASSUME NEW p \in Payments, SendAttempt(p)
      PROVE  OrphanInv'
  <2>1. PICK g \in Handlers : g = <<p, attempt[p] + 1>> /\ pc[g] = "none"
    <3>1. attempt[p] \in 0 .. MaxRetries - 1
      BY <1>3, BankAssumption DEF SendAttempt, Turn, TypeInv, TypeOK, ClientTypeOK, AttemptBounds,
         BankAssumption
    <3>2. attempt[p] + 1 \in Attempts /\ attempt[p] + 1 > attempt[p]
      BY <3>1, BankAssumption DEF Attempts, BankAssumption
    <3>3. pc[<<p, attempt[p] + 1>>] = "none"
      BY <3>2 DEF ExchangeInv, UnusedAttempts
    <3>4. QED
      BY <3>2, <3>3 DEF Handlers
  <2>2. pc' = [pc EXCEPT ![g] = "arrived"]
    BY <1>3, <2>1 DEF SendAttempt
  <2>3. \A k \in Kinds : rpc[Call(g, k)] = "idle"
    BY <2>1 DEF ExchangeInv, CallsAheadIdle, Ahead
  <2>4. \A k \in Kinds : rpc'[Call(g, k)] = "idle"
    BY <1>1, <2>3
  <2>5. pc'[g] = "arrived"
    BY <2>1, <2>2 DEF TypeInv, TypeOK, GatewayTypeOK
  <2>6. AttendedOf(g)'
    BY <2>4, <2>5 DEF AttendedOf, PreparesAttended, UnlocksAwaited, Call, Kinds,
       PrepareKinds, CommitKinds
  <2>7. QED
    BY <1>1, <1>2, <2>1, <2>2, <2>6, OneHandlerMoves
<1>4. CASE UNCHANGED pc
  BY <1>1, <1>2, <1>4, NobodyMoves
<1>5. QED
  BY <1>3, <1>4 DEF ClientStep, ClientProcess, GatewayUnavailable, RecvSuccess, RecvError,
     RecvInProgress, DeadlineExceeded, TryAgain, gatewayVars
-------------------------------------------------------------------------------
(* Every lock left behind by its handler has an excuse.                    *)
LEMMA OrphansExcused ==
  ASSUME OrphanInv
  PROVE  NoOrphanedLock
<1> SUFFICES ASSUME NEW c \in Calls, HoldsLock(c), ~Active(<<c[1], c[2]>>)
             PROVE  \/ timeouts > 0 \/ drops > 0 \/ ~gatewayUp
                    \/ SomeBankFailed(c[1]) \/ BankOf[AccountOf(c)] \notin BankServers
  BY DEF NoOrphanedLock
<1> DEFINE h == <<c[1], c[2]>>
<1>1. h \in Handlers /\ h[1] = c[1] /\ Call(h, c[3]) = c /\ \A k : Call(h, k) = Call(c, k)
  BY CallParts
<1>2. PreparesAttended(h) /\ pc[h] \notin CallPoints
  BY <1>1 DEF OrphanInv, Attended, Active
<1>3. c[3] = "prepDebit" => Excused(h, Sender[c[1]])
  BY <1>1, <1>2 DEF PreparesAttended, HoldsLock
<1>4. c[3] = "prepCredit" => Excused(h, Recipient[c[1]])
  BY <1>1, <1>2 DEF PreparesAttended, HoldsLock, CallPoints
<1>5. AccountOf(c) = IF c[3] = "prepCredit" THEN Recipient[c[1]] ELSE Sender[c[1]]
  BY DEF AccountOf, HoldsLock
<1>6. Excused(h, AccountOf(c))
  BY <1>3, <1>4, <1>5 DEF HoldsLock
<1>7. QED
  BY <1>1, <1>6 DEF Excused, Blamed, SomeBankFailed

(* Both parts are invariants of the specification.                         *)
LEMMA OrphanInvHolds == Spec => [](KnownBanks /\ OrphanInv)
<1>1. OrphanInv /\ UNCHANGED vars => OrphanInv'
  BY DEF vars, bankVars, gatewayVars, clientVars, OrphanInv, Attended, PreparesAttended,
     UnlocksAwaited, FreshBanks, Excused, Blamed, BankFailed, AccountOf, Call
<1>2. LockInv /\ KnownBanks /\ OrphanInv /\ [Next]_vars => OrphanInv'
  BY <1>1, OrphanInvBank, OrphanInvGateway, OrphanInvClient DEF Next
<1>3. Init => KnownBanks
  BY DEF Init, GatewayInit, KnownBanks, Active, CallPoints
<1>4. LockInv /\ KnownBanks /\ [Next]_vars => KnownBanks'
  BY KnownBanksNext DEF LockInv
<1>5. QED
  BY <1>2, <1>3, <1>4, LockInvHolds, OrphanInvInit, PTL DEF Spec

(* Without a fault no account stays locked: a lock outlives the handler    *)
(* that asked for it only after a prepare passed its deadline, a call was  *)
(* cut off or a process died.                                              *)
THEOREM NoLockOrphaned == Spec => []NoOrphanedLock
<1>1. OrphanInv => NoOrphanedLock
  BY OrphansExcused
<1>2. QED
  BY <1>1, OrphanInvHolds, PTL
===============================================================================
