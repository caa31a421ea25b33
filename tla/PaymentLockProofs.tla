-------------------------- MODULE PaymentLockProofs ---------------------------
(***************************************************************************)
(* PaymentSystem keeps its types and its account locks are exclusive:      *)
(* proofs for every value of the constants, faults included.               *)
(***************************************************************************)
EXTENDS PaymentSystem, FiniteSetTheorems, TLAPS
-------------------------------------------------------------------------------
(* TypeOK is not inductive.  A commit reads the balance of its account, so *)
(* the accounts of accepted requests must exist; the attempt counter stays *)
(* in its range because only certain states of the client lead to a send.  *)
KnownAccounts ==
  \A c \in Calls :
    rpc[c] \in {"acquiring", "valid", "entered", "loaded"} => AccountOf(c) \in Customers

AttemptBounds ==
  \A p \in Payments :
    /\ client[p] = "new" => attempt[p] = 0
    /\ client[p] = "backoff" => attempt[p] < MaxRetries
    /\ client[p] = "waiting" => attempt[p] \in Attempts

TypeInv == TypeOK /\ KnownAccounts /\ AttemptBounds

(* Init establishes the typing invariant.                                  *)
LEMMA TypeInvInit == Init => TypeInv
  BY BankAssumption, GatewayAssumption DEF Init, BankInit, GatewayInit, ClientInit, TypeInv, TypeOK, BankTypeOK,
     GatewayTypeOK, ClientTypeOK, KnownAccounts, AttemptBounds, BankAssumption,
     GatewayAssumption, BankStates, RpcStates, Points, CallPoints, Answers, ClientStates,
     Attempts

(* The actions of the banks preserve it: a step of the goroutine of call c *)
(* touches only the entry of c and the account that c names.               *)
LEMMA TypeInvBank ==
  ASSUME TypeInv, BankStep
  PROVE  TypeInv'
<1> USE BankAssumption, GatewayAssumption DEF TypeInv, TypeOK, BankTypeOK, BankAssumption
<1>1. (GatewayTypeOK /\ ClientTypeOK /\ AttemptBounds)'
  BY DEF BankStep, gatewayVars, clientVars, GatewayTypeOK, ClientTypeOK, AttemptBounds
<1>2. ASSUME NEW c \in Calls, BankHandler(c)
      PROVE  (BankTypeOK /\ KnownAccounts)'
  <2>1. CASE PrepareRefuse(c)
    BY <2>1 DEF PrepareRefuse, Step, RpcStates, KnownAccounts, AccountOf
  <2>2. CASE PrepareAccept(c)
    BY <2>2 DEF PrepareAccept, RequestValid, Step, RpcStates, KnownAccounts, AccountOf
  <2>3. CASE AcquireLock(c)
    BY <2>3 DEF AcquireLock, Step, RpcStates, KnownAccounts, AccountOf
  <2>4. CASE AcquireBusy(c)
    BY <2>4 DEF AcquireBusy, Step, RpcStates, KnownAccounts, AccountOf
  <2>5. CASE CommitValidate(c)
    BY <2>5 DEF CommitValidate, RequestValid, Step, RpcStates, KnownAccounts, AccountOf
  <2>6. CASE CommitLockCheck(c)
    BY <2>6 DEF CommitLockCheck, Step, RpcStates, KnownAccounts, AccountOf
  <2>7. CASE CommitPanic(c)
    BY <2>7 DEF CommitPanic, BankStates, KnownAccounts, AccountOf
  <2>8. CASE CommitLoad(c)
    BY <2>8 DEF CommitLoad, Step, RpcStates, KnownAccounts, AccountOf
  <2>9. CASE CommitStore(c)
    <3>1. Amount[c[1]] \in Int
      BY DEF Calls
    <3>2. QED
      BY <2>9, <3>1 DEF CommitStore, Step, RpcStates, KnownAccounts, AccountOf
  <2>10. CASE CommitUnlock(c)
    BY <2>10 DEF CommitUnlock, Step, RpcStates, KnownAccounts, AccountOf
  <2>11. CASE ReleaseResource(c)
    BY <2>11 DEF ReleaseResource, Step, RpcStates, KnownAccounts, AccountOf
  <2>12. QED
    BY <1>2, <2>1, <2>2, <2>3, <2>4, <2>5, <2>6, <2>7, <2>8, <2>9, <2>10, <2>11
       DEF BankHandler
<1>3. ASSUME NEW b \in Banks, BankListen(b) \/ BankCrash(b) \/ BankRestart(b)
      PROVE  (BankTypeOK /\ KnownAccounts)'
  BY <1>3 DEF BankListen, BankCrash, BankRestart, BankStates, KnownAccounts, AccountOf
<1>4. QED
  BY <1>1, <1>2, <1>3 DEF BankStep

(* Calls that are sent or given up keep to the types and accept nothing.   *)
LEMMA CallsTyped ==
  ASSUME TypeInv, NEW h \in Handlers, NEW k \in Kinds, NEW v \in {"sent", GivenUp(h, k)},
         rpc' = [rpc EXCEPT ![Call(h, k)] = v], UNCHANGED bankState, banksIdle
  PROVE  (BankTypeOK /\ KnownAccounts)'
<1>1. Call(h, k) \in Calls
  BY DEF Call, Handlers, Calls
<1>2. v \in {"sent", "rejected"} \/ v = rpc[Call(h, k)]
  BY DEF GivenUp
<1>3. QED
  BY <1>1, <1>2 DEF TypeInv, TypeOK, BankTypeOK, KnownAccounts, banksIdle, RpcStates, AccountOf

(* The actions of the gateway preserve the typing invariant.               *)
LEMMA TypeInvGateway ==
  ASSUME TypeInv, GatewayStep
  PROVE  TypeInv'
<1> USE BankAssumption, GatewayAssumption DEF TypeInv, TypeOK, GatewayTypeOK
<1>1. (ClientTypeOK /\ AttemptBounds)'
  BY DEF GatewayStep, clientVars, ClientTypeOK, AttemptBounds
<1>2. ASSUME NEW h \in Handlers, GatewayHandler(h)
      PROVE  (BankTypeOK /\ KnownAccounts /\ GatewayTypeOK)'
  <2> h[1] \in Payments
    BY DEF Handlers
  <2> USE DEF Leave, processOnly, UpdateTransaction, Points, CallPoints, Answers
  <2> DEFINE banksUnchanged == UNCHANGED bankVars
  <2>1. ASSUME banksUnchanged PROVE (BankTypeOK /\ KnownAccounts)'
    BY <2>1 DEF bankVars, BankTypeOK, KnownAccounts, AccountOf
  <2>2. CASE AuthOk(h)
    BY <2>2, <2>1 DEF AuthOk, bankVars
  <2>3. CASE AuthReject(h)
    BY <2>3, <2>1 DEF AuthReject, bankVars
  <2>4. CASE RejectPayment(h)
    BY <2>4, <2>1 DEF RejectPayment, bankVars
  <2>5. CASE ReplayStatus(h)
    BY <2>5, <2>1 DEF ReplayStatus, bankVars
  <2>6. CASE BeginPayment(h)
    <3>1. (BankTypeOK /\ KnownAccounts)'
      BY <2>6, CallsTyped DEF BeginPayment, Send, Kinds, PrepareKinds, CommitKinds, banksIdle
    <3>2. QED
      BY <2>6, <3>1 DEF BeginPayment
  <2>7. CASE PrepDebitOk(h)
    <3>1. (BankTypeOK /\ KnownAccounts)'
      BY <2>7, CallsTyped DEF PrepDebitOk, Send, Kinds, PrepareKinds, CommitKinds, banksIdle
    <3>2. QED
      BY <2>7, <3>1 DEF PrepDebitOk
  <2>8. CASE PrepCreditOk(h)
    <3>1. (BankTypeOK /\ KnownAccounts)'
      BY <2>8, CallsTyped DEF PrepCreditOk, Send, Kinds, PrepareKinds, CommitKinds, banksIdle
    <3>2. QED
      BY <2>8, <3>1 DEF PrepCreditOk
  <2>9. CASE CommDebitOk(h)
    <3>1. (BankTypeOK /\ KnownAccounts)'
      BY <2>9, CallsTyped DEF CommDebitOk, Send, Kinds, PrepareKinds, CommitKinds, banksIdle
    <3>2. QED
      BY <2>9, <3>1 DEF CommDebitOk
  <2>10. CASE PrepDebitFail(h)
    <3>1. (BankTypeOK /\ KnownAccounts)'
      BY <2>10, CallsTyped DEF PrepDebitFail, Abandon, Kinds, PrepareKinds, CommitKinds, banksIdle
    <3>2. QED
      BY <2>10, <3>1, GatewayAssumption DEF PrepDebitFail, PrepareLost, CallLost, GatewayAssumption
  <2>11. CASE ReleaseDone(h)
    <3>1. (BankTypeOK /\ KnownAccounts)'
      BY <2>11, CallsTyped DEF ReleaseDone, Abandon, Kinds, PrepareKinds, CommitKinds, banksIdle
    <3>2. QED
      BY <2>11, <3>1, GatewayAssumption DEF ReleaseDone, PrepareLost, CallLost, GatewayAssumption
  <2>12. CASE PrepCreditFail(h)
    <3>1. (BankTypeOK /\ KnownAccounts)'
      <4>1. Call(h, "prepCredit") \in Calls /\ Call(h, "release") \in Calls
        BY DEF Call, Handlers, Calls, Kinds, PrepareKinds
      <4>2. GivenUp(h, "prepCredit") \in {"rejected", rpc[Call(h, "prepCredit")]}
        BY DEF GivenUp
      <4>3. Call(h, "prepCredit") # Call(h, "release")
        BY DEF Call
      <4>4. QED
        BY <2>12, <4>1, <4>2, <4>3
           DEF PrepCreditFail, BankTypeOK, KnownAccounts, banksIdle, RpcStates, AccountOf
    <3>2. QED
      BY <2>12, <3>1 DEF PrepCreditFail, PrepareLost, GatewayAssumption
  <2>13. CASE CommCreditOk(h)
    BY <2>13, <2>1 DEF CommCreditOk, bankVars
  <2>14. CASE \E k \in CommitKinds : CommitFail(h, k)
    <3>1. PICK k \in CommitKinds : CommitFail(h, k)
      BY <2>14
    <3>2. (BankTypeOK /\ KnownAccounts)'
      BY <3>1, CallsTyped DEF CommitFail, Abandon, Kinds, banksIdle
    <3>3. QED
      BY <3>1, <3>2 DEF CommitFail, CallLost, GatewayAssumption
  <2>15. CASE TokenPanic(h)
    BY <2>15, <2>1 DEF TokenPanic, GatewayDies, bankVars
  <2>16. QED
    BY <1>2, <2>2, <2>3, <2>4, <2>5, <2>6, <2>7, <2>8, <2>9, <2>10, <2>11, <2>12, <2>13, <2>14, <2>15 DEF GatewayHandler
<1>3. ASSUME NEW b \in Banks, BankServerDiscovery(b)
      PROVE  (BankTypeOK /\ KnownAccounts /\ GatewayTypeOK)'
  <2>1. CASE FreshMemory(b)
    <3>1. balance' \in [Customers -> Int] /\ isLocked' \in [Customers -> BOOLEAN]
      BY <2>1, BankAssumption DEF FreshMemory, BankAssumption, BankTypeOK
    <3>2. rpc' \in [Calls -> RpcStates]
      BY <2>1 DEF FreshMemory, BankTypeOK, RpcStates
    <3>3. KnownAccounts'
      BY <2>1 DEF FreshMemory, KnownAccounts, AccountOf
    <3>4. QED
      BY <1>3, <3>1, <3>2, <3>3 DEF BankServerDiscovery, BankTypeOK, BankStates
  <2>2. CASE UNCHANGED <<balance, isLocked, rpc>>
    BY <1>3, <2>2 DEF BankServerDiscovery, BankTypeOK, BankStates, KnownAccounts, AccountOf
  <2>3. QED
    BY <1>3, <2>1, <2>2 DEF BankServerDiscovery
<1>4. ASSUME NEW h \in Handlers, NEW b \in Banks, ConcurrentMapAccess(h, b)
      PROVE  (BankTypeOK /\ KnownAccounts /\ GatewayTypeOK)'
  BY <1>4 DEF ConcurrentMapAccess, GatewayDies, BankTypeOK, BankStates, KnownAccounts, AccountOf
<1>5. ASSUME NEW u \in Users, TokenExpires(u)
      PROVE  (BankTypeOK /\ KnownAccounts /\ GatewayTypeOK)'
  BY <1>5 DEF TokenExpires, bankVars, BankTypeOK, KnownAccounts, AccountOf
<1>6. ASSUME GatewayCrash
      PROVE  (BankTypeOK /\ KnownAccounts /\ GatewayTypeOK)'
  BY <1>6 DEF GatewayCrash, GatewayDies, bankVars, BankTypeOK, KnownAccounts, AccountOf
<1>7. ASSUME GatewayRestart
      PROVE  (BankTypeOK /\ KnownAccounts /\ GatewayTypeOK)'
  BY <1>7 DEF GatewayRestart, GatewayAssumption, Points, Answers, bankVars, BankTypeOK,
     KnownAccounts, AccountOf
<1>8. QED
  BY <1>1, <1>2, <1>3, <1>4, <1>5, <1>6, <1>7 DEF GatewayStep

(* The actions of the clients preserve the typing invariant.               *)
LEMMA TypeInvClient ==
  ASSUME TypeInv, ClientStep
  PROVE  TypeInv'
<1> USE BankAssumption, GatewayAssumption DEF TypeInv, TypeOK, ClientTypeOK, AttemptBounds
<1>1. UNCHANGED bankVars => (BankTypeOK /\ KnownAccounts)'
  BY DEF bankVars, BankTypeOK, KnownAccounts, AccountOf
<1>2. ASSUME NEW p \in Payments, SendAttempt(p)
      PROVE  (BankTypeOK /\ KnownAccounts /\ GatewayTypeOK /\ ClientTypeOK /\ AttemptBounds)'
  <2>1. attempt[p] + 1 \in Attempts
    BY <1>2 DEF SendAttempt, Turn, Attempts, BankAssumption
  <2>2. (ClientTypeOK /\ AttemptBounds)'
    BY <1>2, <2>1 DEF SendAttempt, Turn, ClientStates, Attempts, BankAssumption
  <2>3. GatewayTypeOK'
    BY <1>2 DEF SendAttempt, GatewayTypeOK, Points
  <2>4. QED
    BY <1>1, <1>2, <2>2, <2>3 DEF SendAttempt
<1>3. ASSUME NEW p \in Payments,
             GatewayUnavailable(p) \/ RecvSuccess(p) \/ RecvError(p) \/ TryAgain(p)
      PROVE  (BankTypeOK /\ KnownAccounts /\ GatewayTypeOK /\ ClientTypeOK /\ AttemptBounds)'
  <2>1. UNCHANGED <<bankVars, gatewayVars, attempt>>
    BY <1>3 DEF GatewayUnavailable, RecvSuccess, RecvError, TryAgain
  <2>2. GatewayTypeOK'
    BY <2>1 DEF gatewayVars, GatewayTypeOK
  <2>3. (ClientTypeOK /\ AttemptBounds)'
    <3>1. CASE GatewayUnavailable(p) \/ RecvSuccess(p) \/ RecvError(p)
      BY <2>1, <3>1 DEF GatewayUnavailable, RecvSuccess, RecvError, Turn, ClientStates
    <3>2. CASE TryAgain(p)
      BY <2>1, <3>2 DEF TryAgain, Turn, ClientStates, Attempts, BankAssumption
    <3>3. QED
      BY <1>3, <3>1, <3>2
  <2>4. QED
    BY <1>1, <2>1, <2>2, <2>3
<1>4. QED
  BY <1>2, <1>3 DEF ClientStep, ClientProcess, RecvInProgress, DeadlineExceeded

(* Type correctness: the variables keep to their types, and no prepare     *)
(* handler makes more than MaxAcquireAttempts attempts at a lock.          *)
THEOREM TypeCorrect == Spec => []TypeOK
<1>1. TypeInv /\ [Next]_vars => TypeInv'
  <2>1. CASE UNCHANGED vars
    BY <2>1 DEF vars, bankVars, gatewayVars, clientVars, TypeInv, TypeOK, BankTypeOK,
       GatewayTypeOK, ClientTypeOK, KnownAccounts, AttemptBounds, AccountOf
  <2>2. QED
    BY <2>1, TypeInvBank, TypeInvGateway, TypeInvClient DEF Next
<1>2. TypeInv => TypeOK
  BY DEF TypeInv
<1>3. QED
  BY <1>1, <1>2, TypeInvInit, PTL DEF Spec
-------------------------------------------------------------------------------
(* The inductive invariant.  A lock is a flag without an owner; that an    *)
(* unlock always comes from the transfer that locked follows from the      *)
(* order in which a handler makes its calls.                               *)
Pre == {"idle", "sent", "ok", "rejected", "gone"}

CallStates ==
  \A c \in Calls :
    /\ c[3] \in PrepareKinds => rpc[c] \in Pre \union {"acquiring"}
    /\ c[3] \in CommitKinds => rpc[c] \in Pre \union {"valid", "entered", "loaded", "applied"}
    /\ c[3] = "release" => rpc[c] \in Pre

OrderOf(h) ==
  /\ pc[h] = "prepCredit" => rpc[Call(h, "prepDebit")] = "ok"
  /\ pc[h] = "commDebit" => rpc[Call(h, "prepCredit")] = "ok"
  /\ rpc[Call(h, "release")] \notin {"idle", "gone"} => rpc[Call(h, "prepDebit")] = "ok"
  /\ rpc[Call(h, "commDebit")] \notin {"idle", "gone"} => rpc[Call(h, "prepDebit")] = "ok"
  /\ rpc[Call(h, "commCredit")] \notin {"idle", "gone"} => rpc[Call(h, "prepCredit")] = "ok"
  /\ rpc[Call(h, "release")] = "idle" \/ rpc[Call(h, "commDebit")] = "idle"

CallOrder == \A h \in Handlers : OrderOf(h)

(* The calls a handler may still make at the point it has reached.         *)
Ahead(h) ==
  IF pc[h] \in {"none", "arrived", "authorized"} THEN Kinds
  ELSE IF pc[h] = "prepDebit" THEN Kinds \ {"prepDebit"}
  ELSE IF pc[h] = "prepCredit" THEN {"release", "commDebit", "commCredit"}
  ELSE IF pc[h] = "commDebit" THEN {"commCredit"}
  ELSE {}

CallsAheadIdle ==
  \A h \in Handlers : \A k \in Ahead(h) : rpc[Call(h, k)] = "idle"

UnusedAttempts ==
  \A p \in Payments : \A n \in Attempts : n > attempt[p] => pc[<<p, n>>] = "none"

Holding(c) == c \in Calls /\ HoldsLock(c)

LockOwner ==
  /\ \A c \in Calls : HoldsLock(c) =>
       AccountOf(c) \in Customers /\ isLocked[AccountOf(c)]
  /\ \A c, d \in Calls :
       HoldsLock(c) /\ HoldsLock(d) /\ AccountOf(c) = AccountOf(d) => c = d
  /\ \A a \in Customers : isLocked[a] =>
       \E c \in Calls : HoldsLock(c) /\ AccountOf(c) = a

(* A handler that has begun its exchange knows the addresses of both banks *)
(* and keeps them: no process can take the place of a bank it talks to.    *)
KnownBanks ==
  \A h \in Handlers : Active(h) =>
    BankOf[Sender[h[1]]] \in BankServers /\ BankOf[Recipient[h[1]]] \in BankServers

ExchangeInv == CallStates /\ CallOrder /\ CallsAheadIdle /\ UnusedAttempts
LockInv == TypeInv /\ ExchangeInv /\ LockOwner
-------------------------------------------------------------------------------
(* The components of a call.                                               *)
LEMMA CallParts ==
  ASSUME NEW c \in Calls
  PROVE  /\ c[1] \in Payments /\ c[2] \in Attempts /\ c[3] \in Kinds
         /\ <<c[1], c[2]>> \in Handlers
         /\ \A k : Call(<<c[1], c[2]>>, k) = Call(c, k)
         /\ Call(c, c[3]) = c
         /\ \A k \in Kinds : Call(c, k) \in Calls
  BY DEF Calls, Handlers, Call

(* The components of a handler, and its calls.                             *)
LEMMA HandlerParts ==
  ASSUME NEW h \in Handlers
  PROVE  /\ h[1] \in Payments /\ h[2] \in Attempts /\ h = <<h[1], h[2]>>
         /\ \A k : Call(h, k)[1] = h[1] /\ Call(h, k)[2] = h[2] /\ Call(h, k)[3] = k
         /\ \A k, l : Call(Call(h, k), l) = Call(h, l)
         /\ \A k \in Kinds : Call(h, k) \in Calls
  BY DEF Calls, Handlers, Call

(* Init establishes the invariant: no call has been made.                  *)
LEMMA LockInvInit == Init => LockInv
<1> SUFFICES ASSUME Init PROVE LockInv
  OBVIOUS
<1>1. TypeInv
  BY TypeInvInit
<1>2. \A c \in Calls : rpc[c] = "idle" /\ ~HoldsLock(c)
  BY DEF Init, BankInit, HoldsLock
<1>3. \A h \in Handlers : \A k \in Kinds : rpc[Call(h, k)] = "idle"
  BY <1>2, HandlerParts
<1>4. CallStates
  BY <1>2 DEF CallStates, Pre
<1>5. CallOrder
  BY <1>3 DEF Init, GatewayInit, CallOrder, OrderOf, Kinds, PrepareKinds, CommitKinds
<1>6. CallsAheadIdle
  BY <1>3 DEF CallsAheadIdle, Ahead, Kinds, PrepareKinds, CommitKinds
<1>7. UnusedAttempts
  BY DEF UnusedAttempts, Init, GatewayInit, Handlers
<1>8. LockOwner
  BY <1>2 DEF LockOwner, Init, BankInit
<1>9. QED
  BY <1>1, <1>4, <1>5, <1>6, <1>7, <1>8 DEF LockInv, ExchangeInv

(* Whoever leaves the answered calls and the flags alone leaves the owners *)
(* of the locks alone.                                                     *)
LEMMA SameOwners ==
  ASSUME LockOwner, isLocked' = isLocked,
         \A c \in Calls : rpc'[c] = "ok" <=> rpc[c] = "ok"
  PROVE  LockOwner'
<1>1. \A c \in Calls : HoldsLock(c)' <=> HoldsLock(c)
  BY CallParts DEF HoldsLock, Kinds, PrepareKinds, CommitKinds
<1>2. \A c : AccountOf(c)' = AccountOf(c)
  BY DEF AccountOf
<1>3. QED
  BY <1>1, <1>2 DEF LockOwner
-------------------------------------------------------------------------------
(* A bank's goroutine moves its call forward: not from or to "idle", and   *)
(* never away from "ok".  That alone keeps the order of the calls.         *)
Legal(c, v) ==
  /\ c[3] \in PrepareKinds => v \in Pre \union {"acquiring"}
  /\ c[3] \in CommitKinds => v \in Pre \union {"valid", "entered", "loaded", "applied"}
  /\ c[3] = "release" => v \in Pre

LEMMA CallStepExchange ==
  ASSUME TypeInv, ExchangeInv, NEW c \in Calls, NEW v, Legal(c, v), v # "idle",
         v # "gone", rpc[c] \notin {"idle", "ok", "gone"}, rpc' = [rpc EXCEPT ![c] = v],
         pc' = pc, attempt' = attempt
  PROVE  ExchangeInv'
<1>1. \A d \in Calls : /\ rpc'[d] = "idle" <=> rpc[d] = "idle"
                       /\ rpc'[d] = "gone" <=> rpc[d] = "gone"
                       /\ rpc[d] = "ok" => rpc'[d] = "ok"
  BY DEF TypeInv, TypeOK, BankTypeOK
<1>2. CallStates'
  BY DEF ExchangeInv, CallStates, Legal, TypeInv, TypeOK, BankTypeOK
<1>3. CallOrder'
  <2>1. \A h \in Handlers : \A k \in Kinds : Call(h, k) \in Calls
    BY HandlerParts
  <2>2. \A h : \A k : Call(h, k)' = Call(h, k)
    BY DEF Call
  <2>3. QED
    BY <1>1, <2>1, <2>2 DEF ExchangeInv, CallOrder, OrderOf, Kinds, PrepareKinds, CommitKinds
<1>4. CallsAheadIdle'
  <2>1. \A h \in Handlers : Ahead(h)' = Ahead(h) /\ Ahead(h) \subseteq Kinds
    BY DEF Ahead, Kinds, PrepareKinds, CommitKinds
  <2>2. \A h \in Handlers : \A k \in Kinds : Call(h, k) \in Calls
    BY HandlerParts
  <2>3. QED
    BY <1>1, <2>1, <2>2 DEF ExchangeInv, CallsAheadIdle, Call
<1>5. UnusedAttempts'
  BY DEF ExchangeInv, UnusedAttempts
<1>6. QED
  BY <1>2, <1>3, <1>4, <1>5 DEF ExchangeInv

(* Unless it takes or gives up a lock, such a step keeps the owners too.   *)
LEMMA CallStepOwners ==
  ASSUME TypeInv, LockOwner, NEW c \in Calls, NEW v, v # "ok", rpc[c] # "ok",
         rpc' = [rpc EXCEPT ![c] = v], isLocked' = isLocked
  PROVE  LockOwner'
<1>1. \A d \in Calls : rpc'[d] = "ok" <=> rpc[d] = "ok"
  BY DEF TypeInv, TypeOK, BankTypeOK
<1>2. QED
  BY <1>1, SameOwners

(* A commit on its way, and a release, is backed by the lock of a prepare. *)
LEMMA CommitHolds ==
  ASSUME TypeInv, ExchangeInv, NEW c \in Calls, rpc[c] \notin {"idle", "ok", "gone"},
         c[3] \in CommitKinds \union {"release"}
  PROVE  \E d \in Calls : /\ HoldsLock(d) /\ AccountOf(d) = AccountOf(c)
                          /\ d[1] = c[1] /\ d[2] = c[2]
                          /\ d[3] = IF c[3] = "commCredit" THEN "prepCredit" ELSE "prepDebit"
<1> DEFINE h == <<c[1], c[2]>>
<1>1. h \in Handlers /\ Call(h, c[3]) = c /\ \A k : Call(h, k) = Call(c, k)
  BY CallParts
<1>2. \A k \in Kinds : Call(h, k) \in Calls
  BY <1>1, HandlerParts
<1>3. CASE c[3] = "commCredit"
  <2>1. rpc[Call(h, "prepCredit")] = "ok"
    BY <1>1, <1>3 DEF ExchangeInv, CallOrder, OrderOf
  <2>2. HoldsLock(Call(h, "prepCredit"))
    BY <1>1, <1>3, <2>1 DEF HoldsLock, Call
  <2>3. QED
    BY <1>2, <1>3, <2>2 DEF AccountOf, Call, Kinds, PrepareKinds
<1>4. CASE c[3] = "commDebit"
  <2>1. rpc[Call(h, "prepDebit")] = "ok" /\ rpc[Call(h, "release")] = "idle"
    BY <1>1, <1>4 DEF ExchangeInv, CallOrder, OrderOf
  <2>2. HoldsLock(Call(h, "prepDebit"))
    BY <1>1, <1>4, <2>1 DEF HoldsLock, Call
  <2>3. QED
    BY <1>2, <1>4, <2>2 DEF AccountOf, Call, Kinds, PrepareKinds
<1>5. CASE c[3] = "release"
  <2>1. rpc[Call(h, "prepDebit")] = "ok" /\ rpc[Call(h, "commDebit")] = "idle"
    BY <1>1, <1>5 DEF ExchangeInv, CallOrder, OrderOf
  <2>2. HoldsLock(Call(h, "prepDebit"))
    BY <1>1, <1>5, <2>1 DEF HoldsLock, Call
  <2>3. QED
    BY <1>2, <1>5, <2>2 DEF AccountOf, Call, Kinds, PrepareKinds
<1>6. QED
  BY <1>3, <1>4, <1>5 DEF CommitKinds

(* The answer to a commit or a release clears the flag and ends exactly    *)
(* the hold of the prepare behind it.                                      *)
LEMMA UnlockOwners ==
  ASSUME TypeInv, ExchangeInv, LockOwner, NEW c \in Calls, rpc[c] \notin {"idle", "ok", "gone"},
         c[3] \in CommitKinds \union {"release"},
         rpc' = [rpc EXCEPT ![c] = "ok"],
         isLocked' = [isLocked EXCEPT ![AccountOf(c)] = FALSE]
  PROVE  LockOwner'
<1>1. PICK d \in Calls : /\ HoldsLock(d) /\ AccountOf(d) = AccountOf(c)
                         /\ d[1] = c[1] /\ d[2] = c[2]
                         /\ d[3] = IF c[3] = "commCredit" THEN "prepCredit" ELSE "prepDebit"
  BY CommitHolds
<1>2. d # c /\ rpc'[c] = "ok" /\ rpc'[d] = "ok" /\ \A e \in Calls : e # c => rpc'[e] = rpc[e]
  BY <1>1 DEF HoldsLock, TypeInv, TypeOK, BankTypeOK
<1>3. ~HoldsLock(d)'
  <2>1. c = Call(d, c[3])
    BY <1>1, CallParts DEF Call
  <2>2. QED
    BY <1>1, <1>2, <2>1 DEF HoldsLock, CommitKinds, Call
<1>4. ~HoldsLock(c)'
  BY DEF HoldsLock, CommitKinds
<1>5. \A e \in Calls : HoldsLock(e)' => HoldsLock(e) /\ e # d
  <2> TAKE e \in Calls
  <2> HAVE HoldsLock(e)'
  <2>1. e # d /\ e # c /\ rpc[e] = "ok"
    BY <1>2, <1>3, <1>4 DEF HoldsLock
  <2>2. \A k \in Kinds : rpc[Call(e, k)] = "ok" => rpc'[Call(e, k)] = "ok"
    BY <1>2, CallParts
  <2>3. QED
    BY <2>1, <2>2 DEF HoldsLock, Kinds, PrepareKinds, CommitKinds, Call
<1>6. \A e \in Calls : HoldsLock(e) /\ e # d => HoldsLock(e)'
  <2> TAKE e \in Calls
  <2> HAVE HoldsLock(e) /\ e # d
  <2>1. e # c /\ rpc'[e] = "ok"
    BY <1>2 DEF HoldsLock
  <2>2. CASE e[3] = "prepDebit"
    <3>1. Call(e, "commDebit") # c /\ Call(e, "release") # c
      <4>1. ASSUME Call(e, "commDebit") = c \/ Call(e, "release") = c PROVE e = d
        <5>1. c[1] = e[1] /\ c[2] = e[2] /\ c[3] # "commCredit"
          BY <4>1 DEF Call
        <5>2. e = Call(e, e[3]) /\ d = Call(d, d[3])
          BY CallParts
        <5>3. QED
          BY <1>1, <2>2, <5>1, <5>2 DEF Call
      <4>2. QED
        BY <4>1
    <3>2. Call(e, "commDebit") \in Calls /\ Call(e, "release") \in Calls
      BY CallParts DEF Kinds, CommitKinds
    <3>3. QED
      BY <1>2, <2>1, <2>2, <3>1, <3>2 DEF HoldsLock, Call
  <2>3. CASE e[3] = "prepCredit"
    <3>1. Call(e, "commCredit") # c
      <4>1. ASSUME Call(e, "commCredit") = c PROVE e = d
        <5>1. c[1] = e[1] /\ c[2] = e[2] /\ c[3] = "commCredit"
          BY <4>1 DEF Call
        <5>2. e = Call(e, e[3]) /\ d = Call(d, d[3])
          BY CallParts
        <5>3. QED
          BY <1>1, <2>3, <5>1, <5>2 DEF Call
      <4>2. QED
        BY <4>1
    <3>2. Call(e, "commCredit") \in Calls
      BY CallParts DEF Kinds, CommitKinds
    <3>3. QED
      BY <1>2, <2>1, <2>3, <3>1, <3>2 DEF HoldsLock, Call
  <2>4. QED
    BY <2>2, <2>3 DEF HoldsLock
<1>7. \A e : AccountOf(e)' = AccountOf(e)
  BY DEF AccountOf
<1>8. \A a \in Customers : isLocked'[a] = IF a = AccountOf(c) THEN FALSE ELSE isLocked[a]
  BY DEF TypeInv, TypeOK, BankTypeOK
<1>9. \A e \in Calls : HoldsLock(e)' => AccountOf(e) # AccountOf(c)
  BY <1>1, <1>5 DEF LockOwner
<1>10. \A a \in Customers : isLocked'[a] => \E e \in Calls : HoldsLock(e)' /\ AccountOf(e) = a
  <2> TAKE a \in Customers
  <2> HAVE isLocked'[a]
  <2>1. isLocked[a] /\ a # AccountOf(c)
    BY <1>8
  <2>2. PICK e \in Calls : HoldsLock(e) /\ AccountOf(e) = a
    BY <2>1 DEF LockOwner
  <2>3. e # d
    BY <1>1, <2>1, <2>2
  <2>4. QED
    BY <1>6, <2>2, <2>3
<1>11. QED
  BY <1>5, <1>7, <1>8, <1>9, <1>10 DEF LockOwner

(* A prepare that takes a free lock becomes the one who holds it: the      *)
(* calls that could end its hold have not been made.                       *)
LEMMA AcquireOwners ==
  ASSUME TypeInv, ExchangeInv, LockOwner, NEW c \in Calls, AcquireLock(c)
  PROVE  LockOwner'
<1>1. /\ rpc[c] = "acquiring" /\ rpc' = [rpc EXCEPT ![c] = "ok"]
      /\ ~isLocked[AccountOf(c)]
      /\ isLocked' = [isLocked EXCEPT ![AccountOf(c)] = TRUE]
  BY DEF AcquireLock, Step
<1>2. AccountOf(c) \in Customers /\ c[3] \in PrepareKinds
  BY <1>1, CallParts DEF TypeInv, KnownAccounts, ExchangeInv, CallStates, Pre, Kinds
<1>3. \A e \in Calls : rpc'[e] = IF e = c THEN "ok" ELSE rpc[e]
  BY <1>1 DEF TypeInv, TypeOK, BankTypeOK
<1>4. HoldsLock(c)'
  <2> DEFINE h == <<c[1], c[2]>>
  <2>1. h \in Handlers /\ Call(h, c[3]) = c /\ \A k : Call(h, k) = Call(c, k)
    BY CallParts
  <2>2. CASE c[3] = "prepDebit"
    <3>1. rpc[Call(h, "commDebit")] \in {"idle", "gone"} /\ rpc[Call(h, "release")] \in {"idle", "gone"}
      BY <1>1, <2>1, <2>2 DEF ExchangeInv, CallOrder, OrderOf
    <3>2. Call(c, "commDebit") \in Calls /\ Call(c, "release") \in Calls
      BY CallParts DEF Kinds, CommitKinds
    <3>3. rpc'[Call(c, "commDebit")] # "ok" /\ rpc'[Call(c, "release")] # "ok"
      BY <1>1, <1>3, <2>1, <3>1, <3>2
    <3>4. QED
      BY <1>3, <2>2, <3>3 DEF HoldsLock, Call
  <2>3. CASE c[3] = "prepCredit"
    <3>1. rpc[Call(h, "commCredit")] \in {"idle", "gone"}
      BY <1>1, <2>1, <2>3 DEF ExchangeInv, CallOrder, OrderOf
    <3>2. Call(c, "commCredit") \in Calls
      BY CallParts DEF Kinds, CommitKinds
    <3>3. rpc'[Call(c, "commCredit")] # "ok"
      BY <1>1, <1>3, <2>1, <3>1, <3>2
    <3>4. QED
      BY <1>3, <2>3, <3>3 DEF HoldsLock, Call
  <2>4. QED
    BY <1>2, <2>2, <2>3 DEF PrepareKinds
<1>5. \A e \in Calls : e # c => (HoldsLock(e)' <=> HoldsLock(e))
  <2> TAKE e \in Calls
  <2> HAVE e # c
  <2>1. \A k \in CommitKinds \union {"release"} : rpc'[Call(e, k)] = rpc[Call(e, k)]
    <3> TAKE k \in CommitKinds \union {"release"}
    <3>1. Call(e, k) \in Calls
      BY CallParts DEF Kinds
    <3>2. Call(e, k) # c
      BY <1>2 DEF Call, PrepareKinds, CommitKinds
    <3>3. QED
      BY <1>3, <3>1, <3>2
  <2>2. QED
    BY <1>3, <2>1 DEF HoldsLock, CommitKinds, Call
<1>6. \A e : AccountOf(e)' = AccountOf(e)
  BY DEF AccountOf
<1>7. \A a \in Customers : isLocked'[a] = IF a = AccountOf(c) THEN TRUE ELSE isLocked[a]
  BY <1>1 DEF TypeInv, TypeOK, BankTypeOK
<1>8. \A e \in Calls : HoldsLock(e)' /\ e # c => AccountOf(e) # AccountOf(c)
  BY <1>1, <1>5 DEF LockOwner
<1>9. \A a \in Customers : isLocked'[a] => \E e \in Calls : HoldsLock(e)' /\ AccountOf(e) = a
  <2> TAKE a \in Customers
  <2> HAVE isLocked'[a]
  <2>1. CASE a = AccountOf(c)
    BY <1>4, <2>1
  <2>2. CASE a # AccountOf(c)
    <3>1. PICK e \in Calls : HoldsLock(e) /\ AccountOf(e) = a
      BY <1>7, <2>2 DEF LockOwner
    <3>2. QED
      BY <1>5, <2>2, <3>1
  <2>3. QED
    BY <2>1, <2>2
<1>10. QED
  BY <1>2, <1>5, <1>6, <1>7, <1>8, <1>9 DEF LockOwner

(* Every step of a bank preserves the invariant.                           *)
LEMMA LockInvBank ==
  ASSUME LockInv, BankStep
  PROVE  LockInv'
<1> USE DEF LockInv
<1>1. TypeInv' /\ pc' = pc /\ attempt' = attempt
  BY TypeInvBank DEF BankStep, gatewayVars, clientVars
<1>2. ASSUME NEW c \in Calls, BankHandler(c)
      PROVE  (ExchangeInv /\ LockOwner)'
  <2> c[3] \in Kinds
    BY CallParts
  <2> USE DEF Step, Legal, Pre, Kinds, PrepareKinds, CommitKinds
  <2>1. CASE PrepareRefuse(c)
    BY <1>1, <2>1, CallStepExchange, CallStepOwners DEF PrepareRefuse
  <2>2. CASE PrepareAccept(c)
    BY <1>1, <2>2, CallStepExchange, CallStepOwners DEF PrepareAccept
  <2>3. CASE AcquireLock(c)
    BY <1>1, <2>3, CallStepExchange, AcquireOwners DEF AcquireLock
  <2>4. CASE AcquireBusy(c)
    <3>1. c[3] \in PrepareKinds
      BY <2>4 DEF AcquireBusy, ExchangeInv, CallStates
    <3>2. PICK v \in {"acquiring", "rejected"} :
            rpc[c] = "acquiring" /\ rpc' = [rpc EXCEPT ![c] = v] /\ isLocked' = isLocked
      BY <2>4 DEF AcquireBusy
    <3>3. QED
      BY <1>1, <3>1, <3>2, CallStepExchange, CallStepOwners
  <2>5. CASE CommitValidate(c)
    BY <1>1, <2>5, CallStepExchange, CallStepOwners DEF CommitValidate
  <2>6. CASE CommitLockCheck(c)
    <3>1. c[3] \in CommitKinds
      BY <2>6 DEF CommitLockCheck, ExchangeInv, CallStates
    <3>2. QED
      BY <1>1, <2>6, <3>1, CallStepExchange, CallStepOwners DEF CommitLockCheck
  <2>7. CASE CommitPanic(c)
    <3>1. rpc' = rpc /\ isLocked' = isLocked
      BY <2>7 DEF CommitPanic
    <3>2. ExchangeInv'
      BY <1>1, <3>1 DEF ExchangeInv, CallStates, CallOrder, OrderOf, CallsAheadIdle, UnusedAttempts,
         Ahead, Call
    <3>3. QED
      BY <3>1, <3>2, SameOwners
  <2>8. CASE CommitLoad(c)
    <3>1. c[3] \in CommitKinds
      BY <2>8 DEF CommitLoad, ExchangeInv, CallStates
    <3>2. QED
      BY <1>1, <2>8, <3>1, CallStepExchange, CallStepOwners DEF CommitLoad
  <2>9. CASE CommitStore(c)
    <3>1. c[3] \in CommitKinds
      BY <2>9 DEF CommitStore, ExchangeInv, CallStates
    <3>2. QED
      BY <1>1, <2>9, <3>1, CallStepExchange, CallStepOwners DEF CommitStore
  <2>10. CASE CommitUnlock(c)
    <3>1. c[3] \in CommitKinds
      BY <2>10 DEF CommitUnlock, ExchangeInv, CallStates
    <3>2. QED
      BY <1>1, <2>10, <3>1, CallStepExchange, UnlockOwners DEF CommitUnlock
  <2>11. CASE ReleaseResource(c)
    BY <1>1, <2>11, CallStepExchange, UnlockOwners DEF ReleaseResource
  <2>12. QED
    BY <1>2, <2>1, <2>2, <2>3, <2>4, <2>5, <2>6, <2>7, <2>8, <2>9, <2>10, <2>11
       DEF BankHandler
<1>3. ASSUME NEW b \in Banks, BankListen(b) \/ BankCrash(b) \/ BankRestart(b)
      PROVE  (ExchangeInv /\ LockOwner)'
  <2>1. rpc' = rpc /\ isLocked' = isLocked
    BY <1>3 DEF BankListen, BankCrash, BankRestart
  <2>2. ExchangeInv'
    BY <1>1, <2>1 DEF ExchangeInv, CallStates, CallOrder, OrderOf, CallsAheadIdle, UnusedAttempts,
       Ahead, Call
  <2>3. QED
    BY <2>1, <2>2, SameOwners
<1>4. QED
  BY <1>1, <1>2, <1>3 DEF BankStep
-------------------------------------------------------------------------------
(* Giving up a call neither answers it nor unmakes it.                     *)
LEMMA GivenUpCall ==
  ASSUME TypeInv, ExchangeInv, NEW h \in Handlers, NEW k \in Kinds
  PROVE  /\ GivenUp(h, k) = "idle" <=> rpc[Call(h, k)] = "idle"
         /\ GivenUp(h, k) = "ok" <=> rpc[Call(h, k)] = "ok"
         /\ GivenUp(h, k) = "gone" <=> rpc[Call(h, k)] = "gone"
         /\ Legal(Call(h, k), GivenUp(h, k))
  BY HandlerParts DEF GivenUp, Legal, ExchangeInv, CallStates, Pre

(* What it takes for a step of handler h to preserve the order of the      *)
(* calls: everything that is said of the other handlers stays true.        *)
LEMMA HandlerStep ==
  ASSUME TypeInv, ExchangeInv, NEW h \in Handlers, attempt' = attempt,
         NEW to, pc[h] # "none", pc' = [pc EXCEPT ![h] = to],
         \A c \in Calls : <<c[1], c[2]>> # h => rpc'[c] = rpc[c],
         \A k \in Kinds : Legal(Call(h, k), rpc'[Call(h, k)]),
         OrderOf(h)',
         \A k \in Ahead(h)' : rpc'[Call(h, k)] = "idle"
  PROVE  ExchangeInv'
<1>1. CallStates'
  <2> SUFFICES ASSUME NEW c \in Calls PROVE Legal(c, rpc'[c])
    BY DEF CallStates, Legal
  <2>1. CASE <<c[1], c[2]>> = h
    BY <2>1, CallParts DEF Call
  <2>2. CASE <<c[1], c[2]>> # h
    BY <2>2 DEF ExchangeInv, CallStates, Legal
  <2>3. QED
    BY <2>1, <2>2
<1>2. ASSUME NEW g \in Handlers, g # h
      PROVE  \A k \in Kinds : rpc'[Call(g, k)] = rpc[Call(g, k)]
  BY <1>2, HandlerParts
<1>3. CallOrder'
  <2> SUFFICES ASSUME NEW g \in Handlers PROVE OrderOf(g)'
    BY DEF CallOrder
  <2>1. CASE g = h
    BY <2>1
  <2>2. CASE g # h
    <3>1. pc'[g] = pc[g]
      BY <2>2 DEF TypeInv, TypeOK, GatewayTypeOK
    <3>2. \A k \in Kinds : rpc'[Call(g, k)]  = rpc[Call(g, k)]
      BY <1>2, <2>2
    <3>3. OrderOf(g)
      BY DEF ExchangeInv, CallOrder
    <3>4. QED
      BY <3>1, <3>2, <3>3 DEF OrderOf, Call, Kinds, PrepareKinds, CommitKinds
  <2>3. QED
    BY <2>1, <2>2
<1>4. CallsAheadIdle'
  <2> SUFFICES ASSUME NEW g \in Handlers, NEW k \in Ahead(g)' PROVE rpc'[Call(g, k)] = "idle"
    BY DEF CallsAheadIdle, Call
  <2>1. CASE g = h
    BY <2>1
  <2>2. CASE g # h
    <3>1. Ahead(g)' = Ahead(g) /\ Ahead(g) \subseteq Kinds
      BY <2>2 DEF Ahead, TypeInv, TypeOK, GatewayTypeOK, Kinds, PrepareKinds, CommitKinds
    <3>2. QED
      BY <1>2, <2>2, <3>1 DEF ExchangeInv, CallsAheadIdle
  <2>3. QED
    BY <2>1, <2>2
<1>5. UnusedAttempts'
  BY DEF ExchangeInv, UnusedAttempts, Handlers, TypeInv, TypeOK, GatewayTypeOK
<1>6. QED
  BY <1>1, <1>3, <1>4, <1>5 DEF ExchangeInv

(* The calls of a handler differ from each other and from all others.      *)
LEMMA CallsDistinct ==
  ASSUME NEW h \in Handlers
  PROVE  /\ \A k \in Kinds : Call(h, k) \in Calls
         /\ \A k, l \in Kinds : Call(h, k) = Call(h, l) => k = l
         /\ \A c \in Calls : \A k \in Kinds : <<c[1], c[2]>> # h => c # Call(h, k)
  BY HandlerParts DEF Call

(* The handler makes a call that lay ahead ...                             *)
LEMMA SendOwners ==
  ASSUME TypeInv, LockOwner, NEW h \in Handlers, NEW k \in Kinds,
         rpc[Call(h, k)] = "idle", Send(h, k), isLocked' = isLocked
  PROVE  LockOwner'
  BY CallStepOwners, HandlerParts DEF Send

(* ... or gives one up: the owners of the locks stay.                      *)
LEMMA AbandonOwners ==
  ASSUME TypeInv, ExchangeInv, LockOwner, NEW h \in Handlers, NEW k \in Kinds,
         Abandon(h, k), isLocked' = isLocked
  PROVE  LockOwner'
<1>1. \A c \in Calls : rpc'[c] = "ok" <=> rpc[c] = "ok"
  BY GivenUpCall, HandlerParts DEF Abandon, TypeInv, TypeOK, BankTypeOK
<1>2. QED
  BY <1>1, SameOwners

(* A handler that makes a call which lay ahead of it, and goes on to a     *)
(* point with fewer calls ahead, keeps the invariant if the call is in     *)
(* order.                                                                  *)
LEMMA SendsNext ==
  ASSUME TypeInv, ExchangeInv, LockOwner, NEW h \in Handlers,
         NEW k \in Kinds, NEW to \in CallPoints,
         pc[h] # "none", k \in Ahead(h), pc' = [pc EXCEPT ![h] = to], attempt' = attempt,
         Ahead(h)' \subseteq Ahead(h) \ {k}, Send(h, k), isLocked' = isLocked,
         /\ \A l \in Kinds : rpc'[Call(h, l)] = IF l = k THEN "sent" ELSE rpc[Call(h, l)]
         /\ pc'[h] = to
         => OrderOf(h)'
  PROVE  (ExchangeInv /\ LockOwner)'
<1>1. rpc[Call(h, k)] = "idle"
  BY DEF ExchangeInv, CallsAheadIdle
<1>2. LockOwner'
  BY <1>1, SendOwners
<1>3. /\ \A c \in Calls : <<c[1], c[2]>> # h => rpc'[c] = rpc[c]
      /\ \A l \in Kinds : rpc'[Call(h, l)] = IF l = k THEN "sent" ELSE rpc[Call(h, l)]
  BY CallsDistinct DEF Send, TypeInv, TypeOK, BankTypeOK
<1>4. OrderOf(h)'
  BY <1>3 DEF TypeInv, TypeOK, GatewayTypeOK
<1>5. \A l \in Ahead(h)' : rpc'[Call(h, l)] = "idle"
  <2>1. Ahead(h)' \subseteq Kinds
    BY DEF Ahead, Kinds, PrepareKinds, CommitKinds
  <2>2. QED
    BY <1>3, <2>1 DEF ExchangeInv, CallsAheadIdle
<1>6. \A l \in Kinds : Legal(Call(h, l), rpc'[Call(h, l)])
  BY <1>3, HandlerParts DEF Legal, Pre, ExchangeInv, CallStates
<1>7. QED
  BY <1>2, <1>3, <1>4, <1>5, <1>6, HandlerStep

(* A handler that gives up its call and answers with an error keeps the    *)
(* whole invariant.                                                        *)
LEMMA EndsWithError ==
  ASSUME TypeInv, ExchangeInv, LockOwner, NEW h \in Handlers, NEW k \in Kinds,
         pc[h] # "none", pc' = [pc EXCEPT ![h] = "error"], attempt' = attempt,
         Abandon(h, k), isLocked' = isLocked
  PROVE  (ExchangeInv /\ LockOwner)'
<1> DEFINE v == GivenUp(h, k)
<1>1. rpc' = [rpc EXCEPT ![Call(h, k)] = v]
  BY DEF Abandon
<1>2. /\ v = "idle" <=> rpc[Call(h, k)] = "idle"
      /\ v = "ok" <=> rpc[Call(h, k)] = "ok"
      /\ v = "gone" <=> rpc[Call(h, k)] = "gone"
      /\ Legal(Call(h, k), v)
  BY GivenUpCall
<1>3. LockOwner'
  BY AbandonOwners
<1> HIDE DEF v
<1>4. /\ \A c \in Calls : <<c[1], c[2]>> # h => rpc'[c] = rpc[c]
      /\ \A l \in Kinds : rpc'[Call(h, l)] = IF l = k THEN v ELSE rpc[Call(h, l)]
  BY <1>1, CallsDistinct DEF TypeInv, TypeOK, BankTypeOK
<1>5. pc'[h] = "error"
  BY DEF TypeInv, TypeOK, GatewayTypeOK
<1>6. OrderOf(h)'
  <2>1. OrderOf(h)
    BY DEF ExchangeInv, CallOrder
  <2> DEFINE Same(l, x) == rpc'[Call(h, l)] = x <=> rpc[Call(h, l)] = x
  <2>2. \A l \in Kinds : Same(l, "idle") /\ Same(l, "ok") /\ Same(l, "gone")
    BY <1>2, <1>4
  <2>3. /\ Same("prepDebit", "ok") /\ Same("prepCredit", "ok")
        /\ Same("release", "idle") /\ Same("commDebit", "idle") /\ Same("commCredit", "idle")
        /\ Same("release", "gone") /\ Same("commDebit", "gone") /\ Same("commCredit", "gone")
    BY <2>2 DEF Kinds, PrepareKinds, CommitKinds
  <2>4. QED
    BY <1>5, <2>1, <2>3 DEF OrderOf, Call
<1>7. Ahead(h)' = {}
  BY <1>5 DEF Ahead
<1>8. \A l \in Kinds : Legal(Call(h, l), rpc'[Call(h, l)])
  BY <1>2, <1>4, HandlerParts DEF Legal, ExchangeInv, CallStates
<1>9. QED
  BY <1>3, <1>4, <1>6, <1>7, <1>8, HandlerStep

-------------------------------------------------------------------------------
(* Every step keeps the banks of the active handlers known: BankServers    *)
(* only grows while the process lives, and a new one has no handlers.      *)
LEMMA KnownBanksNext ==
  ASSUME TypeInv, KnownBanks, [Next]_vars
  PROVE  KnownBanks'
<1> USE DEF TypeInv, TypeOK, GatewayTypeOK
<1>1. ASSUME BankServers \subseteq BankServers',
             \A h \in Handlers : Active(h)' => Active(h)
      PROVE  KnownBanks'
  BY <1>1 DEF KnownBanks
<1>2. UNCHANGED <<BankServers, pc>> => KnownBanks'
  BY DEF KnownBanks, Active
<1>3. ASSUME NEW h \in Handlers, GatewayHandler(h)
      PROVE  KnownBanks'
  <2>1. CASE BeginPayment(h)
    BY <2>1 DEF BeginPayment, Acceptable, Leave, processOnly, KnownBanks, Active
  <2> USE DEF Leave, processOnly, Active, CallPoints, Answers
  <2>2. CASE AuthOk(h) \/ AuthReject(h) \/ RejectPayment(h) \/ CommCreditOk(h)
    BY <1>1, <2>2 DEF AuthOk, AuthReject, RejectPayment, CommCreditOk
  <2>3. CASE ReplayStatus(h)
    BY <1>1, <2>3 DEF ReplayStatus
  <2>4. CASE PrepDebitOk(h) \/ PrepDebitFail(h) \/ PrepCreditOk(h)
    BY <1>1, <2>4 DEF PrepDebitOk, PrepDebitFail, PrepCreditOk
  <2>5. CASE PrepCreditFail(h) \/ ReleaseDone(h) \/ CommDebitOk(h)
    BY <1>1, <2>5 DEF PrepCreditFail, ReleaseDone, CommDebitOk
  <2>6. CASE \E k \in CommitKinds : CommitFail(h, k)
    BY <1>1, <2>6 DEF CommitFail, CommitKinds
  <2>7. CASE TokenPanic(h)
    BY <1>2, <2>7 DEF TokenPanic, GatewayDies
  <2>8. QED
    BY <1>3, <2>1, <2>2, <2>3, <2>4, <2>5, <2>6, <2>7 DEF GatewayHandler
<1>4. ASSUME NEW b \in Banks, BankServerDiscovery(b)
      PROVE  KnownBanks'
  BY <1>1, <1>4 DEF BankServerDiscovery, Active
<1>5. CASE GatewayRestart
  BY <1>5 DEF GatewayRestart, KnownBanks, Active, CallPoints
<1>6. CASE GatewayStep
  BY <1>2, <1>3, <1>4, <1>5, <1>6 DEF GatewayStep, ConcurrentMapAccess, TokenExpires,
     GatewayCrash, GatewayDies
<1>7. ASSUME NEW p \in Payments, SendAttempt(p)
      PROVE  KnownBanks'
  BY <1>1, <1>7 DEF SendAttempt, Active, CallPoints
<1>8. CASE ClientStep
  BY <1>2, <1>7, <1>8 DEF ClientStep, ClientProcess, GatewayUnavailable, RecvSuccess,
     RecvError, RecvInProgress, DeadlineExceeded, TryAgain, gatewayVars
<1>9. CASE BankStep \/ UNCHANGED vars
  BY <1>2, <1>9 DEF BankStep, vars, gatewayVars
<1>10. QED
  BY <1>6, <1>8, <1>9 DEF Next

(* A process that takes the place of a bank nobody talks to leaves the     *)
(* order of the calls as it was.                                           *)
LEMMA FreshExchange ==
  ASSUME TypeInv, ExchangeInv, KnownBanks, NEW b \in Banks, b \notin BankServers,
         FreshMemory(b), pc' = pc, attempt' = attempt
  PROVE  ExchangeInv'
<1> DEFINE lost(c) == BankOf[AccountOf(c)] = b
<1>1. \A c \in Calls : /\ rpc'[c] = IF rpc[c] # "idle" /\ lost(c) THEN "gone" ELSE rpc[c]
                       /\ rpc'[c] = "idle" <=> rpc[c] = "idle"
  BY DEF FreshMemory
<1>2. \A h \in Handlers : \A k \in Kinds : Call(h, k) \in Calls /\ Call(h, k)' = Call(h, k)
  BY HandlerParts DEF Call
<1>3. CallStates'
  BY <1>1 DEF ExchangeInv, CallStates, Pre
<1>4. CallOrder'
  <2> SUFFICES ASSUME NEW h \in Handlers PROVE OrderOf(h)'
    BY DEF CallOrder
  <2>1. OrderOf(h)
    BY DEF ExchangeInv, CallOrder
  <2>2. /\ AccountOf(Call(h, "prepDebit")) = Sender[h[1]]
        /\ AccountOf(Call(h, "release")) = Sender[h[1]]
        /\ AccountOf(Call(h, "commDebit")) = Sender[h[1]]
        /\ AccountOf(Call(h, "prepCredit")) = Recipient[h[1]]
        /\ AccountOf(Call(h, "commCredit")) = Recipient[h[1]]
    BY DEF AccountOf, Call
  <2>3. /\ pc[h] = "prepCredit" => BankOf[Sender[h[1]]] # b
        /\ pc[h] = "commDebit" => BankOf[Recipient[h[1]]] # b
    BY DEF KnownBanks, Active, CallPoints
  <2> DEFINE At(k) == rpc'[Call(h, k)] =
               IF rpc[Call(h, k)] # "idle" /\ lost(Call(h, k)) THEN "gone" ELSE rpc[Call(h, k)]
  <2>4. /\ At("prepDebit") /\ At("prepCredit") /\ At("release")
        /\ At("commDebit") /\ At("commCredit")
    BY <1>1, <1>2 DEF Kinds, PrepareKinds, CommitKinds
  <2>5. OrderOf(h)' <=>
          /\ pc[h] = "prepCredit" => rpc'[Call(h, "prepDebit")] = "ok"
          /\ pc[h] = "commDebit" => rpc'[Call(h, "prepCredit")] = "ok"
          /\ rpc'[Call(h, "release")] \notin {"idle", "gone"} => rpc'[Call(h, "prepDebit")] = "ok"
          /\ rpc'[Call(h, "commDebit")] \notin {"idle", "gone"} => rpc'[Call(h, "prepDebit")] = "ok"
          /\ rpc'[Call(h, "commCredit")] \notin {"idle", "gone"} => rpc'[Call(h, "prepCredit")] = "ok"
          /\ rpc'[Call(h, "release")] = "idle" \/ rpc'[Call(h, "commDebit")] = "idle"
    BY DEF OrderOf, Call
  <2>6. QED
    BY <2>1, <2>2, <2>3, <2>4, <2>5 DEF OrderOf
<1>5. CallsAheadIdle'
  <2>1. \A h \in Handlers : Ahead(h)' = Ahead(h) /\ Ahead(h) \subseteq Kinds
    BY DEF Ahead, Kinds, PrepareKinds, CommitKinds
  <2>2. QED
    BY <1>1, <1>2, <2>1 DEF ExchangeInv, CallsAheadIdle
<1>6. UnusedAttempts'
  BY DEF ExchangeInv, UnusedAttempts
<1>7. QED
  BY <1>3, <1>4, <1>5, <1>6 DEF ExchangeInv

(* The locks at that bank go together with the calls that held them.       *)
LEMMA FreshOwners ==
  ASSUME TypeInv, LockOwner, NEW b \in Banks, FreshMemory(b)
  PROVE  LockOwner'
<1> DEFINE lost(c) == BankOf[AccountOf(c)] = b
<1>1. \A c \in Calls : /\ lost(c) => rpc'[c] # "ok"
                       /\ ~lost(c) => rpc'[c] = rpc[c]
  BY DEF FreshMemory
<1>2. \A c \in Calls : lost(c) => ~HoldsLock(c)'
  BY <1>1 DEF HoldsLock
<1>3. \A c \in Calls : ~lost(c) => (HoldsLock(c)' <=> HoldsLock(c))
  <2> SUFFICES ASSUME NEW c \in Calls, ~lost(c)
               PROVE  HoldsLock(c)' <=> HoldsLock(c)
    OBVIOUS
  <2>1. /\ Call(c, "commDebit") \in Calls /\ Call(c, "release") \in Calls
        /\ Call(c, "commCredit") \in Calls
    BY CallParts DEF Kinds, CommitKinds
  <2>2. CASE c[3] = "prepDebit"
    <3>1. ~lost(Call(c, "commDebit")) /\ ~lost(Call(c, "release"))
      BY <2>2 DEF AccountOf, Call
    <3>2. QED
      BY <1>1, <2>1, <2>2, <3>1 DEF HoldsLock, Call
  <2>3. CASE c[3] = "prepCredit"
    <3>1. ~lost(Call(c, "commCredit"))
      BY <2>3 DEF AccountOf, Call
    <3>2. QED
      BY <1>1, <2>1, <2>3, <3>1 DEF HoldsLock, Call
  <2>4. QED
    BY <2>2, <2>3 DEF HoldsLock
<1>4. \A c : AccountOf(c)' = AccountOf(c)
  BY DEF AccountOf
<1>5. \A a \in Customers : isLocked'[a] <=> isLocked[a] /\ BankOf[a] # b
  BY DEF FreshMemory
<1>6. QED
  BY <1>2, <1>3, <1>4, <1>5 DEF LockOwner

(* Every step of the gateway preserves the invariant.                      *)
LEMMA LockInvGateway ==
  ASSUME LockInv, KnownBanks, GatewayStep
  PROVE  LockInv'
<1> USE DEF LockInv
<1>1. TypeInv' /\ attempt' = attempt
  BY TypeInvGateway DEF GatewayStep, clientVars
<1>0. /\ "prepDebit" \in Kinds /\ "prepCredit" \in Kinds /\ "release" \in Kinds
      /\ "commDebit" \in Kinds /\ "commCredit" \in Kinds /\ CommitKinds \subseteq Kinds
  BY DEF Kinds, PrepareKinds, CommitKinds
<1>2. ASSUME UNCHANGED <<rpc, isLocked, pc>>
      PROVE  (ExchangeInv /\ LockOwner)'
  <2>1. ExchangeInv'
    BY <1>1, <1>2 DEF ExchangeInv, CallStates, CallOrder, OrderOf, CallsAheadIdle,
       UnusedAttempts, Ahead, Call
  <2>2. QED
    BY <1>2, <2>1, SameOwners
<1>3. ASSUME NEW h \in Handlers, GatewayHandler(h)
      PROVE  (ExchangeInv /\ LockOwner)'
  <2>1. ASSUME UNCHANGED <<rpc, isLocked>>, NEW from \in Points \ {"none"},
               NEW to \in {"authorized"} \union Answers, pc[h] = from,
               to = "authorized" => from = "arrived", pc' = [pc EXCEPT ![h] = to]
        PROVE  (ExchangeInv /\ LockOwner)'
    <3>1. \A k \in Ahead(h)' : rpc'[Call(h, k)] = "idle"
      BY <2>1 DEF ExchangeInv, CallsAheadIdle, Ahead, TypeInv, TypeOK, GatewayTypeOK, Answers
    <3>2. OrderOf(h)'
      BY <2>1 DEF OrderOf, ExchangeInv, CallOrder, Call, TypeInv, TypeOK, GatewayTypeOK, Answers
    <3>3. \A k \in Kinds : Legal(Call(h, k), rpc'[Call(h, k)])
      BY <2>1, HandlerParts DEF Legal, ExchangeInv, CallStates
    <3>4. pc[h] # "none"
      BY <2>1
    <3>5. ExchangeInv'
      BY <1>1, <2>1, <3>1, <3>2, <3>3, <3>4, HandlerStep
    <3>6. QED
      BY <2>1, <3>5, SameOwners
  <2>2. CASE AuthOk(h)
    BY <2>2, <2>1 DEF AuthOk, Leave, bankVars, Points, CallPoints, Answers
  <2>3. CASE AuthReject(h)
    BY <2>3, <2>1 DEF AuthReject, Leave, bankVars, Points, CallPoints, Answers
  <2>4. CASE RejectPayment(h)
    BY <2>4, <2>1 DEF RejectPayment, Leave, bankVars, Points, CallPoints, Answers
  <2>5. CASE CommCreditOk(h)
    BY <2>5, <2>1 DEF CommCreditOk, Leave, bankVars, Points, CallPoints, Answers
  <2>6. CASE ReplayStatus(h)
    BY <2>6, <2>1 DEF ReplayStatus, Leave, bankVars, Points, CallPoints, Answers
  <2>7. CASE BeginPayment(h)
    <3>1. /\ pc[h] = "authorized" /\ pc' = [pc EXCEPT ![h] = "prepDebit"] /\ Send(h, "prepDebit")
          /\ isLocked' = isLocked /\ pc'[h] = "prepDebit"
      BY <2>7 DEF BeginPayment, Leave, banksIdle, TypeInv, TypeOK, GatewayTypeOK
    <3>2. "prepDebit" \in Ahead(h) /\ Ahead(h)' \subseteq Ahead(h) \ {"prepDebit"}
      BY <3>1 DEF Ahead, Kinds, PrepareKinds, CommitKinds
    <3>3. ASSUME \A l \in Kinds :
                   rpc'[Call(h, l)] = IF l = "prepDebit" THEN "sent" ELSE rpc[Call(h, l)]
          PROVE  OrderOf(h)'
      BY <2>7, <3>1, <3>3 DEF BeginPayment, Answered, OrderOf, ExchangeInv, CallOrder,
         CallsAheadIdle, Ahead, Call, Kinds, PrepareKinds, CommitKinds
    <3>4. QED
      BY <1>0, <1>1, <3>1, <3>2, <3>3, SendsNext DEF CallPoints
  <2>8. CASE PrepDebitOk(h)
    <3>1. /\ pc[h] = "prepDebit" /\ pc' = [pc EXCEPT ![h] = "prepCredit"] /\ Send(h, "prepCredit")
          /\ isLocked' = isLocked /\ pc'[h] = "prepCredit"
      BY <2>8 DEF PrepDebitOk, Leave, banksIdle, TypeInv, TypeOK, GatewayTypeOK
    <3>2. "prepCredit" \in Ahead(h) /\ Ahead(h)' \subseteq Ahead(h) \ {"prepCredit"}
      BY <3>1 DEF Ahead, Kinds, PrepareKinds, CommitKinds
    <3>3. ASSUME \A l \in Kinds :
                   rpc'[Call(h, l)] = IF l = "prepCredit" THEN "sent" ELSE rpc[Call(h, l)]
          PROVE  OrderOf(h)'
      BY <2>8, <3>1, <3>3 DEF PrepDebitOk, Answered, OrderOf, ExchangeInv, CallOrder,
         CallsAheadIdle, Ahead, Call, Kinds, PrepareKinds, CommitKinds
    <3>4. QED
      BY <1>0, <1>1, <3>1, <3>2, <3>3, SendsNext DEF CallPoints
  <2>9. CASE PrepCreditOk(h)
    <3>1. /\ pc[h] = "prepCredit" /\ pc' = [pc EXCEPT ![h] = "commDebit"] /\ Send(h, "commDebit")
          /\ isLocked' = isLocked /\ pc'[h] = "commDebit"
      BY <2>9 DEF PrepCreditOk, Leave, banksIdle, TypeInv, TypeOK, GatewayTypeOK
    <3>2. "commDebit" \in Ahead(h) /\ Ahead(h)' \subseteq Ahead(h) \ {"commDebit"}
      BY <3>1 DEF Ahead, Kinds, PrepareKinds, CommitKinds
    <3>3. ASSUME \A l \in Kinds :
                   rpc'[Call(h, l)] = IF l = "commDebit" THEN "sent" ELSE rpc[Call(h, l)]
          PROVE  OrderOf(h)'
      BY <2>9, <3>1, <3>3 DEF PrepCreditOk, Answered, OrderOf, ExchangeInv, CallOrder,
         CallsAheadIdle, Ahead, Call, Kinds, PrepareKinds, CommitKinds
    <3>4. QED
      BY <1>0, <1>1, <3>1, <3>2, <3>3, SendsNext DEF CallPoints
  <2>10. CASE CommDebitOk(h)
    <3>1. /\ pc[h] = "commDebit" /\ pc' = [pc EXCEPT ![h] = "commCredit"] /\ Send(h, "commCredit")
          /\ isLocked' = isLocked /\ pc'[h] = "commCredit"
      BY <2>10 DEF CommDebitOk, Leave, banksIdle, TypeInv, TypeOK, GatewayTypeOK
    <3>2. "commCredit" \in Ahead(h) /\ Ahead(h)' \subseteq Ahead(h) \ {"commCredit"}
      BY <3>1 DEF Ahead, Kinds, PrepareKinds, CommitKinds
    <3>3. ASSUME \A l \in Kinds :
                   rpc'[Call(h, l)] = IF l = "commCredit" THEN "sent" ELSE rpc[Call(h, l)]
          PROVE  OrderOf(h)'
      BY <2>10, <3>1, <3>3 DEF CommDebitOk, Answered, OrderOf, ExchangeInv, CallOrder,
         CallsAheadIdle, Ahead, Call, Kinds, PrepareKinds, CommitKinds
    <3>4. QED
      BY <1>0, <1>1, <3>1, <3>2, <3>3, SendsNext DEF CallPoints
  <2>11. CASE PrepDebitFail(h)
    BY <1>0, <1>1, <2>11, EndsWithError DEF PrepDebitFail, Leave, banksIdle
  <2>12. CASE ReleaseDone(h)
    BY <1>0, <1>1, <2>12, EndsWithError DEF ReleaseDone, Leave, banksIdle
  <2>13. CASE \E k \in CommitKinds : CommitFail(h, k)
    <3>1. PICK k \in CommitKinds : CommitFail(h, k)
      BY <2>13
    <3>2. /\ k \in Kinds /\ pc[h] # "none" /\ pc' = [pc EXCEPT ![h] = "error"]
          /\ Abandon(h, k) /\ isLocked' = isLocked
      BY <1>0, <3>1 DEF CommitFail, Leave, banksIdle, CommitKinds
    <3>3. QED
      BY <1>1, <3>2, EndsWithError
  <2>14. CASE PrepCreditFail(h)
    <3>1. /\ pc[h] = "prepCredit" /\ pc' = [pc EXCEPT ![h] = "release"] /\ pc'[h] = "release"
          /\ rpc' = [rpc EXCEPT ![Call(h, "prepCredit")] = GivenUp(h, "prepCredit"),
                               ![Call(h, "release")] = "sent"]
          /\ isLocked' = isLocked
      BY <2>14 DEF PrepCreditFail, Leave, banksIdle, TypeInv, TypeOK, GatewayTypeOK
    <3>2. /\ rpc[Call(h, "release")] = "idle" /\ rpc[Call(h, "commDebit")] = "idle"
          /\ rpc[Call(h, "commCredit")] = "idle"
      BY <3>1 DEF ExchangeInv, CallsAheadIdle, Ahead
    <3>3. /\ \A l \in Kinds : Call(h, l) \in Calls
          /\ \A l, m \in Kinds : Call(h, l) = Call(h, m) => l = m
          /\ \A c \in Calls : \A l \in Kinds : <<c[1], c[2]>> # h => c # Call(h, l)
      BY HandlerParts DEF Call
    <3>4. \A c \in Calls :
            rpc'[c] = IF c = Call(h, "release") THEN "sent"
                      ELSE IF c = Call(h, "prepCredit") THEN GivenUp(h, "prepCredit")
                      ELSE rpc[c]
      BY <3>1, <3>3 DEF TypeInv, TypeOK, BankTypeOK, Kinds, PrepareKinds
    <3>5. LockOwner'
      <4>1. \A c \in Calls : rpc'[c] = "ok" <=> rpc[c] = "ok"
        BY <3>2, <3>4, GivenUpCall DEF Kinds, PrepareKinds
      <4>2. QED
        BY <3>1, <4>1, SameOwners
    <3>6. /\ \A c \in Calls : <<c[1], c[2]>> # h => rpc'[c] = rpc[c]
          /\ \A l \in Kinds :
               rpc'[Call(h, l)] = IF l = "release" THEN "sent"
                                  ELSE IF l = "prepCredit" THEN GivenUp(h, "prepCredit")
                                  ELSE rpc[Call(h, l)]
      BY <3>3, <3>4 DEF Kinds, PrepareKinds
    <3>7. rpc[Call(h, "prepDebit")] = "ok"
      BY <3>1 DEF ExchangeInv, CallOrder, OrderOf
    <3>8. OrderOf(h)'
      BY <3>1, <3>2, <3>6, <3>7 DEF OrderOf, Call, Kinds, PrepareKinds, CommitKinds
    <3>9. Ahead(h)' = {}
      BY <3>1 DEF Ahead, TypeInv, TypeOK, GatewayTypeOK
    <3>10. \A l \in Kinds : Legal(Call(h, l), rpc'[Call(h, l)])
      BY <3>6, GivenUpCall, HandlerParts DEF Legal, Pre, ExchangeInv, CallStates, Kinds, PrepareKinds, CommitKinds
    <3>11. QED
      BY <1>1, <3>1, <3>5, <3>6, <3>8, <3>9, <3>10, HandlerStep
  <2>15. CASE TokenPanic(h)
    BY <1>2, <2>15 DEF TokenPanic, GatewayDies, bankVars
  <2>16. QED
    BY <1>3, <2>2, <2>3, <2>4, <2>5, <2>6, <2>7, <2>8, <2>9, <2>10, <2>11, <2>12, <2>13, <2>14, <2>15 DEF GatewayHandler
<1>4. ASSUME NEW b \in Banks, BankServerDiscovery(b)
      PROVE  (ExchangeInv /\ LockOwner)'
  <2>1. CASE FreshMemory(b)
    <3>1. pc' = pc
      BY <1>4 DEF BankServerDiscovery
    <3>2. CASE b \notin BankServers
      BY <1>1, <2>1, <3>1, <3>2, FreshExchange, FreshOwners
    <3>3. CASE b \in BankServers
      BY <1>2, <1>4, <3>1, <3>3 DEF BankServerDiscovery
    <3>4. QED
      BY <3>2, <3>3
  <2>2. CASE UNCHANGED <<rpc, isLocked>>
    BY <1>2, <1>4, <2>2 DEF BankServerDiscovery
  <2>3. QED
    BY <1>4, <2>1, <2>2 DEF BankServerDiscovery
<1>5. ASSUME NEW h \in Handlers, NEW b \in Banks, ConcurrentMapAccess(h, b)
      PROVE  (ExchangeInv /\ LockOwner)'
  BY <1>2, <1>5 DEF ConcurrentMapAccess, GatewayDies
<1>6. ASSUME NEW u \in Users, TokenExpires(u)
      PROVE  (ExchangeInv /\ LockOwner)'
  BY <1>2, <1>6 DEF TokenExpires, bankVars
<1>7. ASSUME GatewayCrash
      PROVE  (ExchangeInv /\ LockOwner)'
  BY <1>2, <1>7 DEF GatewayCrash, GatewayDies, bankVars
<1>8. ASSUME GatewayRestart
      PROVE  (ExchangeInv /\ LockOwner)'
  <2>1. /\ rpc' = rpc /\ isLocked' = isLocked
        /\ \A h \in Handlers : pc'[h] = IF pc[h] = "none" THEN "none" ELSE "error"
    BY <1>8 DEF GatewayRestart, bankVars
  <2>2. CallStates' /\ CallOrder'
    BY <2>1 DEF ExchangeInv, CallStates, CallOrder, OrderOf, Call
  <2>3. CallsAheadIdle'
    BY <2>1 DEF ExchangeInv, CallsAheadIdle, Ahead, Call
  <2>4. UnusedAttempts'
    BY <1>1, <2>1 DEF ExchangeInv, UnusedAttempts, Handlers
  <2>5. QED
    BY <2>1, <2>2, <2>3, <2>4, SameOwners DEF ExchangeInv
<1>9. QED
  BY <1>1, <1>3, <1>4, <1>5, <1>6, <1>7, <1>8 DEF GatewayStep

(* Every step of a client preserves the invariant: the attempt it starts   *)
(* is a handler that has made no call.                                     *)
LEMMA LockInvClient ==
  ASSUME LockInv, ClientStep
  PROVE  LockInv'
<1> USE DEF LockInv
<1>1. TypeInv' /\ UNCHANGED bankVars
  BY TypeInvClient DEF ClientStep, ClientProcess, SendAttempt, GatewayUnavailable, RecvSuccess,
     RecvError, RecvInProgress, DeadlineExceeded, TryAgain
<1>2. LockOwner' /\ CallStates'
  BY <1>1, SameOwners DEF bankVars, ExchangeInv, CallStates
<1>3. ASSUME NEW p \in Payments, SendAttempt(p)
      PROVE  ExchangeInv'
  <2> DEFINE h == <<p, attempt[p] + 1>>
  <2>1. /\ attempt[p] + 1 \in Attempts /\ h \in Handlers
        /\ attempt' = [attempt EXCEPT ![p] = @ + 1]
        /\ pc' = [pc EXCEPT ![h] = "arrived"]
    BY <1>3, BankAssumption DEF SendAttempt, Turn, TypeInv, TypeOK, ClientTypeOK,
       AttemptBounds, Attempts, Handlers, BankAssumption
  <2>2. pc[h] = "none"
    BY <2>1 DEF ExchangeInv, UnusedAttempts, Attempts, TypeInv, TypeOK, ClientTypeOK
  <2>3. \A g \in Handlers : pc'[g] = IF g = h THEN "arrived" ELSE pc[g]
    BY <2>1 DEF TypeInv, TypeOK, GatewayTypeOK
  <2>4. \A g \in Handlers : Ahead(g)' = Ahead(g)
    BY <2>2, <2>3 DEF Ahead
  <2>5. \A g \in Handlers : OrderOf(g)'
    BY <1>1, <2>3 DEF bankVars, ExchangeInv, CallOrder, OrderOf, Call
  <2>6. CallsAheadIdle'
    BY <1>1, <2>4 DEF bankVars, ExchangeInv, CallsAheadIdle, Call
  <2>7. UnusedAttempts'
    <3> SUFFICES ASSUME NEW q \in Payments, NEW n \in Attempts, n > attempt'[q]
                 PROVE  pc'[<<q, n>>] = "none"
      BY DEF UnusedAttempts
    <3>1. n > attempt[q] /\ <<q, n>> # h /\ <<q, n>> \in Handlers
      BY <2>1 DEF TypeInv, TypeOK, ClientTypeOK, Attempts, Handlers
    <3>2. QED
      BY <2>3, <3>1 DEF ExchangeInv, UnusedAttempts
  <2>8. QED
    BY <1>2, <2>5, <2>6, <2>7 DEF ExchangeInv, CallOrder
<1>4. ASSUME NEW p \in Payments,
             GatewayUnavailable(p) \/ RecvSuccess(p) \/ RecvError(p) \/ TryAgain(p)
      PROVE  ExchangeInv'
  <2>1. UNCHANGED <<bankVars, gatewayVars, attempt>>
    BY <1>4 DEF GatewayUnavailable, RecvSuccess, RecvError, TryAgain
  <2>2. QED
    BY <2>1 DEF bankVars, gatewayVars, ExchangeInv, CallStates, CallOrder, OrderOf,
       CallsAheadIdle, Ahead, UnusedAttempts, Call
<1>5. QED
  BY <1>1, <1>2, <1>3, <1>4
     DEF ClientStep, ClientProcess, RecvInProgress, DeadlineExceeded

(* LockInv is an invariant of the specification.                           *)
THEOREM LockInvHolds == Spec => []LockInv
<1>1. LockInv /\ UNCHANGED vars => LockInv'
  <2> SUFFICES ASSUME LockInv, UNCHANGED vars PROVE LockInv'
    OBVIOUS
  <2> USE DEF vars, bankVars, gatewayVars, clientVars, LockInv
  <2>1. TypeInv'
    BY DEF TypeInv, TypeOK, BankTypeOK, GatewayTypeOK, ClientTypeOK, KnownAccounts,
       AttemptBounds, AccountOf
  <2>2. ExchangeInv'
    BY DEF ExchangeInv, CallStates, CallOrder, OrderOf, CallsAheadIdle, Ahead, UnusedAttempts, Call
  <2>3. LockOwner'
    BY SameOwners
  <2>4. QED
    BY <2>1, <2>2, <2>3
<1>2. LockInv /\ KnownBanks /\ [Next]_vars => LockInv'
  BY <1>1, LockInvBank, LockInvGateway, LockInvClient DEF Next
<1>3. Init => KnownBanks
  BY DEF Init, GatewayInit, KnownBanks, Active, CallPoints
<1>4. LockInv /\ KnownBanks /\ [Next]_vars => KnownBanks'
  BY KnownBanksNext DEF LockInv
<1>5. QED
  BY <1>2, <1>3, <1>4, LockInvInit, PTL DEF Spec

(* The locks are exclusive: a locked account has exactly one transfer that *)
(* holds it and a free one has none, although isLocked keeps no owner and  *)
(* every commit and release clears it unasked.                             *)
THEOREM LocksExclusive == Spec => []LockHeldByOneTransfer
<1>1. LockOwner => LockHeldByOneTransfer
  <2> SUFFICES ASSUME LockOwner, NEW a \in Customers
               PROVE  Cardinality({c \in Calls : HoldsLock(c) /\ AccountOf(c) = a})
                        = IF isLocked[a] THEN 1 ELSE 0
    BY DEF LockHeldByOneTransfer
  <2> DEFINE holders == {c \in Calls : HoldsLock(c) /\ AccountOf(c) = a}
  <2>1. CASE isLocked[a]
    <3>1. PICK c \in Calls : HoldsLock(c) /\ AccountOf(c) = a
      BY <2>1 DEF LockOwner
    <3>2. holders = {c}
      BY <3>1 DEF LockOwner
    <3>3. QED
      BY <2>1, <3>2, FS_Singleton
  <2>2. CASE ~isLocked[a]
    <3>1. holders = {}
      BY <2>2 DEF LockOwner
    <3>2. QED
      BY <2>2, <3>1, FS_EmptySet
  <2>3. QED
    BY <2>1, <2>2
<1>2. LockInv => LockHeldByOneTransfer
  BY <1>1 DEF LockInv
<1>3. QED
  BY <1>2, LockInvHolds, PTL
===============================================================================
