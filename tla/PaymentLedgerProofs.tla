-------------------------- MODULE PaymentLedgerProofs -------------------------
(***************************************************************************)
(* What the system says of the money and what it does with it: the status  *)
(* of a payment agrees with the accounts, and the accounts are a ledger.   *)
(* Both are proved for every value of the constants.                       *)
(***************************************************************************)
EXTENDS PaymentSafetyProofs, RecursionTheorems
-------------------------------------------------------------------------------
(* The status of a payment and its money.                                  *)
Paid(h) ==
  /\ rpc[Call(h, "commDebit")] \in {"applied", "ok"}
  /\ rpc[Call(h, "commCredit")] \in {"applied", "ok"}

(* A gateway that has a status for a payment knows both its banks.         *)
KnownStatus(p) ==
  UserTransactions[p] # "absent" =>
    BankOf[Sender[p]] \in BankServers /\ BankOf[Recipient[p]] \in BankServers

(* A success is recorded too early, but then a handler still works on it.  *)
SuccessAccounted(p) ==
  UserTransactions[p] = "success" =>
    \E n \in Attempts : Active(<<p, n>>) \/ Paid(<<p, n>>)

(* A debit that a handler has sent is waited for, or has led to the        *)
(* success of the payment, or its loss has an excuse.                      *)
DebitAccounted(h) ==
  rpc[Call(h, "commDebit")] \notin {"idle", "gone"} =>
    \/ Active(h)
    \/ UserTransactions[h[1]] = "success" /\ \A n \in Attempts : ~Active(<<h[1], n>>)
    \/ Blamed(h, Sender[h[1]])

MoneyInv ==
  /\ \A p \in Payments : KnownStatus(p) /\ SuccessAccounted(p)
  /\ \A h \in Handlers : DebitAccounted(h)
-------------------------------------------------------------------------------
LEMMA MoneyInvInit == Init => MoneyInv
<1> SUFFICES ASSUME Init PROVE MoneyInv
  OBVIOUS
<1>1. \A h \in Handlers : rpc[Call(h, "commDebit")] = "idle"
  BY HandlerParts DEF Init, BankInit, Kinds, CommitKinds
<1>2. \A p \in Payments : UserTransactions[p] = "absent"
  BY DEF Init, GatewayInit
<1>3. QED
  BY <1>1, <1>2 DEF MoneyInv, KnownStatus, SuccessAccounted, DebitAccounted

(* What a step may do with the calls of h: it begins no debit and takes    *)
(* back none that has been applied.                                        *)
MoneyKept(h) ==
  /\ Paid(h) => Paid(h)'
  /\ rpc'[Call(h, "commDebit")] \notin {"idle", "gone"} =>
       rpc[Call(h, "commDebit")] \notin {"idle", "gone"}

(* A step that ends and begins no exchange, and leaves the statuses alone. *)
LEMMA QuietStep ==
  ASSUME MoneyInv, UserTransactions' = UserTransactions,
         BankServers \subseteq BankServers',
         \A h \in Handlers : Active(h)' <=> Active(h),
         \A h \in Handlers : Keeps(h) /\ MoneyKept(h)
  PROVE  MoneyInv'
<1>1. \A p \in Payments : \A n \in Attempts : <<p, n>> \in Handlers
  BY DEF Handlers
<1>2. \A p \in Payments : \A n \in Attempts : Active(<<p, n>>)' <=> Active(<<p, n>>)
  BY <1>1 DEF Active
<1>3. ASSUME NEW p \in Payments
      PROVE  KnownStatus(p)' /\ SuccessAccounted(p)'
  <2>1. KnownStatus(p)'
    BY DEF MoneyInv, KnownStatus
  <2>2. \A n \in Attempts : Paid(<<p, n>>) => Paid(<<p, n>>)'
    <3> TAKE n \in Attempts
    <3>1. MoneyKept(<<p, n>>)
      BY <1>1
    <3>2. QED
      BY <3>1 DEF MoneyKept, Paid
  <2>3. SuccessAccounted(p)'
    BY <1>2, <2>2 DEF MoneyInv, SuccessAccounted, Active, Paid
  <2>4. QED
    BY <2>1, <2>3
<1>4. ASSUME NEW h \in Handlers
      PROVE  DebitAccounted(h)'
  <2>1. h[1] \in Payments /\ MoneyKept(h) /\ (Active(h)' <=> Active(h))
    BY HandlerParts
  <2>2. Blamed(h, Sender[h[1]]) => Blamed(h, Sender[h[1]])'
    BY DEF Keeps
  <2>3. \A n \in Attempts : Active(<<h[1], n>>)' <=> Active(<<h[1], n>>)
    BY <1>2, <2>1
  <2>4. QED
    BY <2>1, <2>2, <2>3 DEF MoneyInv, DebitAccounted, MoneyKept, Active, Call
<1>5. QED
  BY <1>3, <1>4 DEF MoneyInv

(* Two handlers of a payment never have a debit under way together: what   *)
(* is left of the other's debit has an excuse.                             *)
LEMMA RivalsBlamed ==
  ASSUME MoneyInv, Exchange, NEW g \in Handlers, NEW h \in Handlers,
         h[1] = g[1], h # g, rpc[Call(h, "commDebit")] \notin {"idle", "gone"},
         Active(g) \/ UserTransactions[g[1]] \in {"absent", "failed"}
  PROVE  Blamed(h, Sender[h[1]])
<1>1. /\ g[1] \in Payments /\ g[2] \in Attempts /\ g = <<g[1], g[2]>>
      /\ h[2] \in Attempts /\ h = <<g[1], h[2]>>
  BY HandlerParts
<1>2. ~Active(h)
  <2>1. CASE Active(g)
    BY <1>1, <2>1 DEF Exchange, OneExchangePerPayment
  <2>2. CASE UserTransactions[g[1]] \in {"absent", "failed"}
    BY <1>1, <2>2 DEF Exchange
  <2>3. QED
    BY <2>1, <2>2
<1>3. UserTransactions[g[1]] # "success" \/ Active(<<g[1], g[2]>>)
  BY <1>1
<1>4. QED
  BY <1>1, <1>2, <1>3 DEF MoneyInv, DebitAccounted

(* A step of handler g touches the status and the calls of its payment     *)
(* only: of that payment alone the invariant is to be shown.               *)
LEMMA OwnPayment ==
  ASSUME TypeInv, MoneyInv, NEW g \in Handlers, NEW to, pc' = [pc EXCEPT ![g] = to],
         NEW s, UserTransactions' = [UserTransactions EXCEPT ![g[1]] = s],
         BankServers' = BankServers,
         \A c \in Calls : <<c[1], c[2]>> # g => rpc'[c] = rpc[c],
         \A h \in Handlers : Keeps(h),
         KnownStatus(g[1])', SuccessAccounted(g[1])',
         \A h \in Handlers : h[1] = g[1] => DebitAccounted(h)'
  PROVE  MoneyInv'
<1>1. g[1] \in Payments
  BY HandlerParts
<1>2. \A h \in Handlers : h # g => /\ pc'[h] = pc[h]
                                   /\ rpc'[Call(h, "commDebit")] = rpc[Call(h, "commDebit")]
                                   /\ rpc'[Call(h, "commCredit")] = rpc[Call(h, "commCredit")]
  BY HandlerParts DEF TypeInv, TypeOK, GatewayTypeOK, Kinds, CommitKinds
<1>3. ASSUME NEW p \in Payments, p # g[1]
      PROVE  /\ UserTransactions'[p] = UserTransactions[p]
             /\ \A n \in Attempts : /\ Active(<<p, n>>)' <=> Active(<<p, n>>)
                                    /\ Paid(<<p, n>>)' <=> Paid(<<p, n>>)
  <2>1. UserTransactions'[p] = UserTransactions[p]
    BY <1>3 DEF TypeInv, TypeOK, GatewayTypeOK
  <2>2. \A n \in Attempts : <<p, n>> \in Handlers /\ <<p, n>> # g
    BY <1>3 DEF Handlers
  <2>3. QED
    BY <1>2, <2>1, <2>2 DEF Active, Paid, Call
<1>4. ASSUME NEW p \in Payments
      PROVE  KnownStatus(p)' /\ SuccessAccounted(p)'
  <2>1. CASE p = g[1]
    BY <2>1
  <2>2. CASE p # g[1]
    BY <1>3, <2>2 DEF MoneyInv, KnownStatus, SuccessAccounted, Active, Paid
  <2>3. QED
    BY <2>1, <2>2
<1>5. ASSUME NEW h \in Handlers, h[1] # g[1]
      PROVE  DebitAccounted(h)'
  <2>1. h[1] \in Payments /\ h # g
    BY <1>5, HandlerParts
  <2>2. Blamed(h, Sender[h[1]]) => Blamed(h, Sender[h[1]])'
    BY DEF Keeps
  <2>3. /\ UserTransactions'[h[1]] = UserTransactions[h[1]]
        /\ \A n \in Attempts : Active(<<h[1], n>>)' <=> Active(<<h[1], n>>)
    BY <1>3, <1>5, <2>1
  <2>4. DebitAccounted(h)
    BY DEF MoneyInv
  <2>5. QED
    BY <1>2, <2>1, <2>2, <2>3, <2>4 DEF DebitAccounted, Active, Call
<1>6. QED
  BY <1>4, <1>5 DEF MoneyInv

(* The steps of a handler that end an exchange, with the failure of the    *)
(* payment.                                                                *)
LEMMA FailedMoney ==
  ASSUME TypeInv, Exchange, MoneyInv, NEW g \in Handlers, Active(g),
         pc' = [pc EXCEPT ![g] = "error"], UpdateTransaction(g, "failed"),
         BankServers' = BankServers,
         \A c \in Calls : <<c[1], c[2]>> # g => rpc'[c] = rpc[c],
         \A h \in Handlers : Keeps(h),
         \/ rpc'[Call(g, "commDebit")] = "idle"
         \/ Blamed(g, Sender[g[1]])'
  PROVE  MoneyInv'
<1>1. g[1] \in Payments /\ g[2] \in Attempts /\ g = <<g[1], g[2]>>
  BY HandlerParts
<1>2. UserTransactions'[g[1]] = "failed"
  BY <1>1 DEF UpdateTransaction, TypeInv, TypeOK, GatewayTypeOK
<1>3. KnownStatus(g[1])'
  <2>1. UserTransactions[g[1]] # "absent"
    BY <1>1 DEF Exchange
  <2>2. QED
    BY <1>1, <2>1 DEF MoneyInv, KnownStatus
<1>4. SuccessAccounted(g[1])'
  BY <1>2 DEF SuccessAccounted
<1>5. ASSUME NEW h \in Handlers, h[1] = g[1]
      PROVE  DebitAccounted(h)'
  <2>1. CASE h = g
    BY <2>1 DEF DebitAccounted, Call
  <2>2. CASE h # g
    <3>1. rpc'[Call(h, "commDebit")] = rpc[Call(h, "commDebit")]
      BY <2>2, HandlerParts DEF Kinds, CommitKinds
    <3>2. rpc[Call(h, "commDebit")] \notin {"idle", "gone"} => Blamed(h, Sender[h[1]])
      BY <1>5, <2>2, RivalsBlamed
    <3>3. Blamed(h, Sender[h[1]]) => Blamed(h, Sender[h[1]])'
      BY DEF Keeps
    <3>4. QED
      BY <3>1, <3>2, <3>3 DEF DebitAccounted, Call
  <2>3. QED
    BY <2>1, <2>2
<1>6. QED
  BY <1>3, <1>4, <1>5, OwnPayment DEF UpdateTransaction

(* The steps that set the status before an exchange is over.               *)
LEMMA BegunMoney ==
  ASSUME TypeInv, Exchange, MoneyInv, NEW g \in Handlers,
         NEW to \in CallPoints, pc' = [pc EXCEPT ![g] = to],
         NEW s \in {"inProgress", "success"}, UpdateTransaction(g, s),
         BankServers' = BankServers,
         \A c \in Calls : <<c[1], c[2]>> # g => rpc'[c] = rpc[c],
         \A h \in Handlers : Keeps(h),
         Active(g) \/ UserTransactions[g[1]] \in {"absent", "failed"},
         BankOf[Sender[g[1]]] \in BankServers, BankOf[Recipient[g[1]]] \in BankServers
  PROVE  MoneyInv'
<1>1. g[1] \in Payments /\ g[2] \in Attempts /\ g = <<g[1], g[2]>>
  BY HandlerParts
<1>2. Active(g)'
  BY DEF Active, TypeInv, TypeOK, GatewayTypeOK
<1>3. KnownStatus(g[1])'
  BY DEF KnownStatus
<1>4. SuccessAccounted(g[1])'
  <2>1. Active(<<g[1], g[2]>>)'
    BY <1>1, <1>2 DEF Active
  <2>2. QED
    BY <1>1, <2>1 DEF SuccessAccounted, Active
<1>5. ASSUME NEW h \in Handlers, h[1] = g[1]
      PROVE  DebitAccounted(h)'
  <2>1. CASE h = g
    BY <1>2, <2>1 DEF DebitAccounted, Active
  <2>2. CASE h # g
    <3>1. rpc'[Call(h, "commDebit")] = rpc[Call(h, "commDebit")]
      BY <2>2, HandlerParts DEF Kinds, CommitKinds
    <3>2. rpc[Call(h, "commDebit")] \notin {"idle", "gone"} => Blamed(h, Sender[h[1]])
      BY <1>5, <2>2, RivalsBlamed
    <3>3. Blamed(h, Sender[h[1]]) => Blamed(h, Sender[h[1]])'
      BY DEF Keeps
    <3>4. QED
      BY <3>1, <3>2, <3>3 DEF DebitAccounted, Call
  <2>3. QED
    BY <2>1, <2>2
<1>6. QED
  BY <1>3, <1>4, <1>5, OwnPayment DEF UpdateTransaction

(* The end of an exchange in which every call was answered.                *)
LEMMA CompletedMoney ==
  ASSUME LockInv, KnownBanks, OrphanInv, Exchange, MoneyInv,
         NEW g \in Handlers, CommCreditOk(g), \A h \in Handlers : Keeps(h)
  PROVE  MoneyInv'
<1> USE DEF LockInv
<1>1. g[1] \in Payments /\ g[2] \in Attempts /\ g = <<g[1], g[2]>>
  BY HandlerParts
<1>2. /\ rpc[Call(g, "commCredit")] = "ok" /\ pc[g] = "commCredit" /\ UpdateTransaction(g, "success")
      /\ pc' = [pc EXCEPT ![g] = "success"] /\ rpc' = rpc /\ BankServers' = BankServers
  BY DEF CommCreditOk, Answered, Leave, bankVars, processOnly
<1>3. rpc[Call(g, "commDebit")] = "ok"
  BY <1>2 DEF OrphanInv, Attended, UnlocksAwaited
<1>4. UserTransactions'[g[1]] = "success"
  BY <1>1, <1>2 DEF UpdateTransaction, TypeInv, TypeOK, GatewayTypeOK
<1>5. Active(g)
  BY <1>2 DEF Active, CallPoints
<1>6. KnownStatus(g[1])'
  BY <1>2, <1>5 DEF KnownStatus, KnownBanks
<1>7. SuccessAccounted(g[1])'
  <2>1. Paid(<<g[1], g[2]>>)'
    BY <1>1, <1>2, <1>3 DEF Paid, Call
  <2>2. QED
    BY <1>1, <2>1 DEF SuccessAccounted, Paid
<1>8. \A n \in Attempts : ~Active(<<g[1], n>>)'
  <2> SUFFICES ASSUME NEW n \in Attempts PROVE ~Active(<<g[1], n>>)'
    OBVIOUS
  <2>1. CASE n = g[2]
    BY <1>1, <1>2, <2>1 DEF Active, CallPoints, TypeInv, TypeOK, GatewayTypeOK
  <2>2. CASE n # g[2]
    <3>1. ~Active(<<g[1], n>>)
      BY <1>1, <1>5, <2>2 DEF Exchange, OneExchangePerPayment
    <3>2. <<g[1], n>> \in Handlers /\ <<g[1], n>> # g
      BY <1>1, <2>2 DEF Handlers
    <3>3. QED
      BY <1>2, <3>1, <3>2 DEF Active, TypeInv, TypeOK, GatewayTypeOK
  <2>3. QED
    BY <2>1, <2>2
<1>9. \A h \in Handlers : h[1] = g[1] => DebitAccounted(h)'
  BY <1>4, <1>8 DEF DebitAccounted, Active
<1>10. QED
  BY <1>2, <1>6, <1>7, <1>9, OwnPayment DEF UpdateTransaction

(* A handler that goes on within its exchange or outside of it.            *)
LEMMA QuietHandler ==
  ASSUME TypeInv, MoneyInv, NEW g \in Handlers, NEW to, pc' = [pc EXCEPT ![g] = to],
         UserTransactions' = UserTransactions, BankServers' = BankServers,
         to \in CallPoints <=> Active(g),
         \A h \in Handlers : Keeps(h) /\ MoneyKept(h)
  PROVE  MoneyInv'
<1>1. \A h \in Handlers : Active(h)' <=> Active(h)
  BY DEF Active, TypeInv, TypeOK, GatewayTypeOK
<1>2. QED
  BY <1>1, QuietStep

(* Every step of a handler preserves the invariant.                        *)
LEMMA MoneyHandler ==
  ASSUME LockInv, KnownBanks, OrphanInv, Exchange, MoneyInv,
         NEW g \in Handlers, GatewayHandler(g), \A h \in Handlers : Keeps(h)
  PROVE  MoneyInv'
<1> USE DEF LockInv
<1>1. /\ \A k \in Kinds : Call(g, k) \in Calls
      /\ \A k, l \in Kinds : Call(g, k) = Call(g, l) => k = l
      /\ \A c \in Calls : \A k \in Kinds : <<c[1], c[2]>> # g => c # Call(g, k)
  BY CallsDistinct
<1>2. /\ "prepDebit" \in Kinds /\ "prepCredit" \in Kinds /\ "release" \in Kinds
      /\ "commDebit" \in Kinds /\ "commCredit" \in Kinds
  BY DEF Kinds, PrepareKinds, CommitKinds
<1>3. BankServers' = BankServers
  BY DEF GatewayHandler, AuthOk, AuthReject, RejectPayment, ReplayStatus, BeginPayment,
     PrepDebitOk, PrepDebitFail, PrepCreditOk, PrepCreditFail, ReleaseDone, CommDebitOk,
     CommCreditOk, CommitFail, TokenPanic, GatewayDies, processOnly
<1>4. \A h \in Handlers :
        h # g => \A k \in Kinds : Call(h, k) \in Calls /\ <<Call(h, k)[1], Call(h, k)[2]>> # g
  BY HandlerParts
<1>5. ASSUME NEW h \in Handlers, \A c \in Calls : <<c[1], c[2]>> # g => rpc'[c] = rpc[c], h # g
      PROVE  MoneyKept(h)
  BY <1>2, <1>4, <1>5 DEF MoneyKept, Paid, Call
<1>6. CASE AuthOk(g) \/ AuthReject(g) \/ RejectPayment(g) \/ ReplayStatus(g) \/ TokenPanic(g)
  <2>1. rpc' = rpc /\ UserTransactions' = UserTransactions
    BY <1>6 DEF AuthOk, AuthReject, RejectPayment, ReplayStatus, TokenPanic, GatewayDies, bankVars
  <2>2. PICK to : pc' = [pc EXCEPT ![g] = to] /\ (to \in CallPoints <=> Active(g))
    <3>1. CASE AuthOk(g) \/ AuthReject(g) \/ RejectPayment(g)
      BY <3>1 DEF AuthOk, AuthReject, RejectPayment, Leave, Active, CallPoints
    <3>2. CASE ReplayStatus(g)
      BY <3>2 DEF ReplayStatus, Leave, Active, CallPoints
    <3>3. CASE TokenPanic(g)
      <4>1. pc' = [pc EXCEPT ![g] = pc[g]]
        BY <3>3 DEF TokenPanic, GatewayDies, TypeInv, TypeOK, GatewayTypeOK
      <4>2. QED
        BY <4>1 DEF Active
    <3>4. QED
      BY <1>6, <3>1, <3>2, <3>3
  <2>3. \A h \in Handlers : MoneyKept(h)
    BY <2>1 DEF MoneyKept, Paid, Call
  <2>4. QED
    BY <1>3, <2>1, <2>2, <2>3, QuietHandler
<1>7. ASSUME NEW to \in CallPoints, Active(g), pc' = [pc EXCEPT ![g] = to],
             UserTransactions' = UserTransactions,
             rpc'[Call(g, "commDebit")] = rpc[Call(g, "commDebit")],
             rpc[Call(g, "commCredit")] = "idle",
             \A c \in Calls : <<c[1], c[2]>> # g => rpc'[c] = rpc[c]
      PROVE  MoneyInv'
  <2>1. MoneyKept(g)
    BY <1>7 DEF MoneyKept, Paid
  <2>2. \A h \in Handlers : MoneyKept(h)
    BY <1>5, <1>7, <2>1
  <2>3. QED
    BY <1>3, <1>7, <2>2, QuietHandler
<1>8. CASE PrepDebitOk(g) \/ CommDebitOk(g) \/ PrepCreditFail(g)
  <2>1. PICK to \in CallPoints : /\ pc' = [pc EXCEPT ![g] = to] /\ Active(g)
                                 /\ pc[g] \in {"prepDebit", "prepCredit", "commDebit"}
                                 /\ UserTransactions' = UserTransactions
    BY <1>8 DEF PrepDebitOk, CommDebitOk, PrepCreditFail, Leave, Active, CallPoints
  <2>2. \A c \in Calls : <<c[1], c[2]>> # g \/ c = Call(g, "commDebit") => rpc'[c] = rpc[c]
    BY <1>1, <1>2, <1>8 DEF PrepDebitOk, CommDebitOk, PrepCreditFail, Send, TypeInv, TypeOK,
       BankTypeOK
  <2>3. rpc[Call(g, "commCredit")] = "idle"
    BY <1>2, <2>1 DEF ExchangeInv, CallsAheadIdle, Ahead
  <2>4. QED
    BY <1>1, <1>2, <1>7, <2>1, <2>2, <2>3
<1>9. ASSUME NEW k \in Kinds, Send(g, k)
      PROVE  \A c \in Calls : <<c[1], c[2]>> # g => rpc'[c] = rpc[c]
  BY <1>1, <1>9 DEF Send, TypeInv, TypeOK, BankTypeOK
<1>10. CASE BeginPayment(g)
  BY <1>2, <1>3, <1>9, <1>10, BegunMoney DEF BeginPayment, Leave, Acceptable, CallPoints
<1>11. CASE PrepCreditOk(g)
  <2>1. Active(g)
    BY <1>11 DEF PrepCreditOk, Leave, Active, CallPoints
  <2>2. BankOf[Sender[g[1]]] \in BankServers /\ BankOf[Recipient[g[1]]] \in BankServers
    BY <2>1 DEF KnownBanks
  <2>3. QED
    BY <1>2, <1>3, <1>9, <1>11, <2>1, <2>2, BegunMoney DEF PrepCreditOk, Leave, CallPoints
<1>12. ASSUME NEW k \in Kinds, Abandon(g, k)
       PROVE  \A c \in Calls : c # Call(g, k) => rpc'[c] = rpc[c]
  BY <1>1, <1>12 DEF Abandon, TypeInv, TypeOK, BankTypeOK
<1>13. CASE PrepDebitFail(g)
  <2>1. /\ Active(g) /\ pc[g] = "prepDebit" /\ pc' = [pc EXCEPT ![g] = "error"]
        /\ Abandon(g, "prepDebit") /\ UpdateTransaction(g, "failed")
    BY <1>13 DEF PrepDebitFail, Leave, Active, CallPoints
  <2>2. rpc[Call(g, "commDebit")] = "idle"
    BY <1>2, <2>1 DEF ExchangeInv, CallsAheadIdle, Ahead
  <2>3. QED
    BY <1>1, <1>2, <1>3, <1>12, <2>1, <2>2, FailedMoney
<1>14. CASE ReleaseDone(g)
  <2>1. /\ Active(g) /\ pc[g] = "release" /\ pc' = [pc EXCEPT ![g] = "error"]
        /\ Abandon(g, "release") /\ UpdateTransaction(g, "failed")
    BY <1>14 DEF ReleaseDone, Leave, Active, CallPoints
  <2>2. rpc[Call(g, "release")] # "idle"
    BY <2>1 DEF OrphanInv, Attended, UnlocksAwaited
  <2>3. rpc[Call(g, "commDebit")] = "idle"
    BY <2>2 DEF ExchangeInv, CallOrder, OrderOf
  <2>4. QED
    BY <1>1, <1>2, <1>3, <1>12, <2>1, <2>3, FailedMoney
<1>15. ASSUME NEW k \in CommitKinds, CommitFail(g, k)
       PROVE  MoneyInv'
  <2>1. /\ Active(g) /\ pc[g] = k /\ pc' = [pc EXCEPT ![g] = "error"] /\ k \in Kinds
        /\ k \in CallPoints /\ k \notin PrepareKinds
        /\ Abandon(g, k) /\ UpdateTransaction(g, "failed") /\ CallLost(g, k)
    BY <1>15 DEF CommitFail, Leave, Active, CallPoints, CommitKinds, Kinds, PrepareKinds
  <2>2. ASSUME drops' = drops + 1
        PROVE  Blamed(g, Sender[g[1]])'
    BY <2>2, GatewayAssumption DEF GatewayAssumption, TypeInv, TypeOK, GatewayTypeOK, Blamed
  <2>3. ASSUME Unavailable(g, k)
        PROVE  Blamed(g, Sender[g[1]])'
    <3>1. rpc[Call(g, k)] # "rejected"
      BY <2>1 DEF OrphanInv, Attended, UnlocksAwaited, CommitKinds
    <3>2. Blamed(g, Sender[g[1]])
      BY <2>1, <2>3, <3>1, FailedCall DEF Unavailable
    <3>3. QED
      BY <3>2 DEF Keeps
  <2>4. Blamed(g, Sender[g[1]])'
    BY <2>1, <2>2, <2>3 DEF CallLost, Keeps
  <2>5. QED
    BY <1>1, <1>3, <1>12, <2>1, <2>4, FailedMoney
<1>16. CASE CommCreditOk(g)
  BY <1>16, CompletedMoney
<1>17. QED
  BY <1>6, <1>8, <1>10, <1>11, <1>13, <1>14, <1>15, <1>16 DEF GatewayHandler

(* A bank goes on with the debits that were sent and keeps what it has     *)
(* applied.                                                                *)
LEMMA MoneyBank ==
  ASSUME LockInv, MoneyInv, BankStep
  PROVE  MoneyInv'
<1>1. pc' = pc /\ UNCHANGED <<UserTransactions, BankServers>>
  BY DEF BankStep, gatewayVars
<1>2. \A h \in Handlers : Keeps(h)
  BY <1>1, NobodyRegisters DEF Next, LockInv
<1>3. \A d \in Calls : BankMove(d[3], rpc[d], rpc'[d])
  <2>1. ASSUME NEW b \in Banks, BankListen(b) \/ BankCrash(b) \/ BankRestart(b)
        PROVE  rpc' = rpc
    BY <2>1 DEF BankListen, BankCrash, BankRestart
  <2>2. QED
    BY <2>1, HandlerCalls DEF BankStep, BankMove
<1>4. ASSUME NEW h \in Handlers
      PROVE  MoneyKept(h)
  <2>1. /\ BankMove("commDebit", rpc[Call(h, "commDebit")], rpc'[Call(h, "commDebit")])
        /\ BankMove("commCredit", rpc[Call(h, "commCredit")], rpc'[Call(h, "commCredit")])
    BY <1>3, HandlerParts DEF Kinds, CommitKinds
  <2>2. QED
    BY <2>1 DEF MoneyKept, Paid, BankMove, Call
<1>5. \A h \in Handlers : Active(h)' <=> Active(h)
  BY <1>1 DEF Active
<1>6. QED
  BY <1>1, <1>2, <1>4, <1>5, QuietStep

(* A step that touches no call, no status and no handler.                  *)
LEMMA MoneyAlone ==
  ASSUME TypeInv, [Next]_vars, MoneyInv, UNCHANGED <<pc, rpc, UserTransactions, BankServers>>
  PROVE  MoneyInv'
<1>1. \A h \in Handlers : Keeps(h)
  BY NobodyRegisters
<1>2. \A h \in Handlers : MoneyKept(h) /\ (Active(h)' <=> Active(h))
  BY DEF MoneyKept, Paid, Active, Call
<1>3. QED
  BY <1>1, <1>2, QuietStep

(* A bank that registers has forgotten every call, but no payment that has *)
(* a status runs over it.                                                  *)
LEMMA MoneyFresh ==
  ASSUME LockInv, MoneyInv, NEW b \in Banks, BankServerDiscovery(b),
         gatewayUp, b \notin BankServers
  PROVE  MoneyInv'
<1> USE DEF LockInv, TypeInv, TypeOK, BankTypeOK
<1>1. /\ FreshMemory(b) /\ bankState' = [bankState EXCEPT ![b] = "registered"]
      /\ BankServers' = BankServers \union {b}
      /\ UNCHANGED <<pc, UserTransactions, drops>>
  BY DEF BankServerDiscovery
<1>2. \A h \in Handlers :
        /\ rpc'[Call(h, "commDebit")] =
             IF rpc[Call(h, "commDebit")] # "idle" /\ BankOf[Sender[h[1]]] = b
               THEN "gone" ELSE rpc[Call(h, "commDebit")]
        /\ rpc'[Call(h, "commCredit")] =
             IF rpc[Call(h, "commCredit")] # "idle" /\ BankOf[Recipient[h[1]]] = b
               THEN "gone" ELSE rpc[Call(h, "commCredit")]
  BY <1>1, HandlerParts, CallAccounts DEF FreshMemory, Kinds, CommitKinds
<1>3. ASSUME NEW p \in Payments
      PROVE  KnownStatus(p)' /\ SuccessAccounted(p)'
  <2>1. KnownStatus(p)'
    BY <1>1 DEF MoneyInv, KnownStatus
  <2>2. ASSUME UserTransactions[p] = "success", NEW n \in Attempts, Paid(<<p, n>>)
        PROVE  Paid(<<p, n>>)'
    <3>1. BankOf[Sender[p]] # b /\ BankOf[Recipient[p]] # b
      BY <2>2 DEF MoneyInv, KnownStatus
    <3>2. <<p, n>> \in Handlers /\ <<p, n>>[1] = p
      BY DEF Handlers
    <3>3. QED
      BY <1>2, <2>2, <3>1, <3>2 DEF Paid, Call
  <2>3. SuccessAccounted(p)'
    BY <1>1, <2>2 DEF MoneyInv, SuccessAccounted, Active, Paid
  <2>4. QED
    BY <2>1, <2>3
<1>4. ASSUME NEW h \in Handlers
      PROVE  DebitAccounted(h)'
  <2>1. rpc'[Call(h, "commDebit")] \notin {"idle", "gone"} =>
          BankOf[Sender[h[1]]] # b /\ rpc[Call(h, "commDebit")] \notin {"idle", "gone"}
    BY <1>2
  <2>2. Blamed(h, Sender[h[1]]) /\ BankOf[Sender[h[1]]] # b => Blamed(h, Sender[h[1]])'
    BY <1>1, CallAccounts DEF Blamed, BankFailed
  <2>3. QED
    BY <1>1, <2>1, <2>2 DEF MoneyInv, DebitAccounted, Active, Call
<1>5. QED
  BY <1>3, <1>4 DEF MoneyInv

(* Every step of the gateway preserves the invariant.                      *)
LEMMA MoneyGateway ==
  ASSUME LockInv, KnownBanks, OrphanInv, Exchange, MoneyInv, GatewayStep
  PROVE  MoneyInv'
<1>1. [Next]_vars /\ TypeInv
  BY DEF Next, LockInv
<1>2. ASSUME NEW g \in Handlers, GatewayHandler(g)
      PROVE  MoneyInv'
  <2>1. BankServers' = BankServers
    BY <1>2 DEF GatewayHandler, AuthOk, AuthReject, RejectPayment, ReplayStatus, BeginPayment,
       PrepDebitOk, PrepDebitFail, PrepCreditOk, PrepCreditFail, ReleaseDone, CommDebitOk,
       CommCreditOk, CommitFail, TokenPanic, GatewayDies, processOnly
  <2>2. QED
    BY <1>1, <1>2, <2>1, NobodyRegisters, MoneyHandler
<1>3. ASSUME NEW b \in Banks, BankServerDiscovery(b)
      PROVE  MoneyInv'
  <2>1. CASE gatewayUp /\ b \notin BankServers
    BY <1>3, <2>1, MoneyFresh
  <2>2. CASE ~(gatewayUp /\ b \notin BankServers)
    BY <1>1, <1>3, <2>2, MoneyAlone DEF BankServerDiscovery
  <2>3. QED
    BY <2>1, <2>2
<1>4. CASE GatewayRestart
  <2>1. /\ \A p \in Payments : UserTransactions'[p] = "absent"
        /\ BankServers' = {}
    BY <1>4 DEF GatewayRestart
  <2>2. QED
    BY <2>1 DEF MoneyInv, KnownStatus, SuccessAccounted, DebitAccounted, Blamed
<1>5. ASSUME NEW h \in Handlers, NEW b \in Banks, ConcurrentMapAccess(h, b)
      PROVE  MoneyInv'
  BY <1>1, <1>5, MoneyAlone DEF ConcurrentMapAccess, GatewayDies
<1>6. CASE GatewayCrash \/ \E u \in Users : TokenExpires(u)
  BY <1>1, <1>6, MoneyAlone DEF GatewayCrash, GatewayDies, TokenExpires, bankVars
<1>7. QED
  BY <1>2, <1>3, <1>4, <1>5, <1>6 DEF GatewayStep

(* So does every step of a client: a handler that arrives is not active.   *)
LEMMA MoneyClient ==
  ASSUME LockInv, MoneyInv, ClientStep
  PROVE  MoneyInv'
<1> USE DEF LockInv
<1>1. UNCHANGED <<BankServers, rpc, UserTransactions>>
  BY DEF ClientStep, ClientProcess, SendAttempt, GatewayUnavailable, RecvSuccess, RecvError,
     RecvInProgress, DeadlineExceeded, TryAgain, gatewayVars, bankVars
<1>2. [Next]_vars
  BY DEF Next
<1>3. ASSUME NEW p \in Payments, SendAttempt(p)
      PROVE  MoneyInv'
  <2>1. PICK g : g = <<p, attempt[p] + 1>> /\ pc' = [pc EXCEPT ![g] = "arrived"]
    BY <1>3 DEF SendAttempt
  <2>2. attempt[p] + 1 \in Attempts /\ attempt[p] + 1 > attempt[p]
    BY <1>3, BankAssumption DEF SendAttempt, Turn, TypeInv, TypeOK, ClientTypeOK,
       AttemptBounds, BankAssumption, Attempts
  <2>3. pc[g] = "none"
    BY <2>1, <2>2 DEF ExchangeInv, UnusedAttempts
  <2>4. \A h \in Handlers : Active(h)' <=> Active(h)
    BY <2>1, <2>3 DEF Active, CallPoints, TypeInv, TypeOK, GatewayTypeOK
  <2>5. \A h \in Handlers : Keeps(h) /\ MoneyKept(h)
    BY <1>1, <1>2, NobodyRegisters DEF MoneyKept, Paid, Call
  <2>6. QED
    BY <1>1, <2>4, <2>5, QuietStep
<1>4. CASE UNCHANGED pc
  BY <1>1, <1>2, <1>4, MoneyAlone
<1>5. QED
  BY <1>3, <1>4 DEF ClientStep, ClientProcess, GatewayUnavailable, RecvSuccess, RecvError,
     RecvInProgress, DeadlineExceeded, TryAgain, gatewayVars
-------------------------------------------------------------------------------
(* A commit has been applied exactly when some attempt's call was.         *)
LEMMA AppliedOnce ==
  ASSUME NEW p \in Payments, NEW k
  PROVE  Applied(p, k) <=> \E n \in Attempts : rpc[<<p, n, k>>] \in {"applied", "ok"}
<1> DEFINE Done(n) == rpc[<<p, n, k>>] \in {"applied", "ok"}
           done == {n \in Attempts : Done(n)}
<1>1. IsFiniteSet(Attempts)
  BY FS_Interval, BankAssumption DEF Attempts, BankAssumption
<1>2. IsFiniteSet(done)
  <2>1. done \subseteq Attempts
    OBVIOUS
  <2>2. QED
    BY <1>1, <2>1, FS_Subset
<1>3. Cardinality(done) \in Nat /\ (Cardinality(done) = 0 <=> done = {})
  BY <1>2, FS_CardinalityType, FS_EmptySet
<1>4. Applied(p, k) <=> Cardinality(done) > 0
  BY DEF Applied, Times
<1>5. done # {} <=> \E n \in Attempts : Done(n)
  OBVIOUS
<1> HIDE DEF done
<1>6. Applied(p, k) <=> done # {}
  BY <1>3, <1>4
<1>7. QED
  BY <1>5, <1>6

(* The invariant implies that status and money agree.                      *)
LEMMA MoneyAgrees ==
  ASSUME TypeInv, MoneyInv
  PROVE  StatusMatchesMoney
<1> SUFFICES ASSUME NEW p \in Payments, Settled(p)
             PROVE  /\ UserTransactions[p] = "success" =>
                         Applied(p, "commDebit") /\ Applied(p, "commCredit")
                    /\ UserTransactions[p] = "failed" /\ Applied(p, "commDebit") =>
                         SomeBankFailed(p) \/ drops > 0
  BY DEF StatusMatchesMoney
<1>1. \A n \in Attempts : ~Active(<<p, n>>) /\ <<p, n>> \in Handlers
  BY DEF Settled, Handlers
<1>2. CASE UserTransactions[p] = "success"
  <2>1. PICK n \in Attempts : Paid(<<p, n>>)
    BY <1>1, <1>2 DEF MoneyInv, SuccessAccounted
  <2>2. QED
    BY <1>2, <2>1, AppliedOnce DEF Paid, Call
<1>3. CASE UserTransactions[p] = "failed" /\ Applied(p, "commDebit")
  <2>1. PICK n \in Attempts : rpc[<<p, n, "commDebit">>] \in {"applied", "ok"}
    BY <1>3, AppliedOnce
  <2>2. Blamed(<<p, n>>, Sender[p])
    BY <1>1, <1>3, <2>1 DEF MoneyInv, DebitAccounted, Call
  <2>3. BankOf[Sender[p]] \in BankServers
    BY <1>3 DEF MoneyInv, KnownStatus
  <2>4. QED
    BY <1>3, <2>2, <2>3 DEF Blamed, SomeBankFailed
<1>4. QED
  BY <1>2, <1>3

LEMMA MoneyInvHolds == Spec => []MoneyInv
<1>1. MoneyInv /\ UNCHANGED vars => MoneyInv'
  BY DEF vars, bankVars, gatewayVars, clientVars, MoneyInv, KnownStatus, SuccessAccounted,
     DebitAccounted, Paid, Active, Blamed, BankFailed, Call
<1>2. LockInv /\ KnownBanks /\ OrphanInv /\ Exchange /\ MoneyInv /\ [Next]_vars => MoneyInv'
  BY <1>1, MoneyBank, MoneyGateway, MoneyClient DEF Next
<1>3. QED
  BY <1>2, LockInvHolds, ExchangeHolds, OrphanInvHolds, MoneyInvInit, PTL DEF Spec

(* When nobody works on a payment any more its status agrees with the      *)
(* money: a recorded success has moved it, although it is recorded before  *)
(* the first commit is sent, and a recorded failure has moved none unless  *)
(* a bank has died or a commit was cut off.                                *)
THEOREM StatusAgreesWithMoney == Spec => []StatusMatchesMoney
<1>1. LockInv /\ MoneyInv => StatusMatchesMoney
  BY MoneyAgrees DEF LockInv
<1>2. QED
  BY <1>1, LockInvHolds, MoneyInvHolds, PTL
-------------------------------------------------------------------------------
(* The inductive invariant behind the refinement of Ledger.  A payment is  *)
(* begun again although its first debit may be under way: that attempt has *)
(* to get past the bank that failed the first one.                         *)
Hopeless(h) ==
  \/ drops > 0
  \/ /\ BankFailed(Sender[h[1]]) /\ BankOf[Sender[h[1]]] \in BankServers
     /\ rpc[Call(h, "prepDebit")] \notin {"acquiring", "ok"}
  \/ /\ BankFailed(Recipient[h[1]]) /\ BankOf[Recipient[h[1]]] \in BankServers
     /\ rpc[Call(h, "prepCredit")] \notin {"acquiring", "ok"}

Debiting(h) == rpc[Call(h, "commDebit")] \notin {"idle", "gone"}
Rivals(g, h) == g[1] = h[1] /\ g # h

RetriesHopeless ==
  \A g, h \in Handlers :
    Rivals(g, h) /\ Debiting(g) => (Active(h) => Hopeless(h)) /\ (Debiting(h) => drops > 0)

(* A credit is sent when its debit has been answered.                      *)
CreditAfterDebit ==
  \A h \in Handlers :
    rpc[Call(h, "commCredit")] \notin {"idle", "gone"} =>
      rpc[Call(h, "commDebit")] \in {"ok", "gone"}

(* What has been applied is in the balance of an account that exists, and  *)
(* without a call an account is as it was at first.                        *)
AppliedToCustomers ==
  \A c \in Calls :
    c[3] \in CommitKinds /\ rpc[c] \in {"applied", "ok"} => AccountOf(c) \in Customers

UntouchedBalance ==
  \A a \in Customers :
    (\A c \in Calls : AccountOf(c) = a => rpc[c] = "idle") => balance[a] = InitialBalance[a]

LedgerInv == RetriesHopeless /\ CreditAfterDebit /\ AppliedToCustomers /\ UntouchedBalance
-------------------------------------------------------------------------------
LEMMA LedgerInvInit == Init => LedgerInv
<1> SUFFICES ASSUME Init PROVE LedgerInv
  OBVIOUS
<1>1. \A c \in Calls : rpc[c] = "idle"
  BY DEF Init, BankInit
<1>2. \A h \in Handlers : rpc[Call(h, "commDebit")] = "idle" /\ rpc[Call(h, "commCredit")] = "idle"
  BY <1>1, HandlerParts DEF Kinds, CommitKinds
<1>3. balance = InitialBalance
  BY DEF Init, BankInit
<1>4. QED
  BY <1>1, <1>2, <1>3 DEF LedgerInv, RetriesHopeless, Debiting, CreditAfterDebit,
     AppliedToCustomers, UntouchedBalance

(* A bank process takes the place of one whose memory is lost.             *)
Fresh == \E b \in Banks : gatewayUp /\ b \notin BankServers /\ BankServerDiscovery(b)

(* What a step may do to a call: a commit is sent by the step of its       *)
(* handler that comes before it, and applied by the step that writes the   *)
(* balance.                                                                *)
Sends(h, k) ==
  /\ k = "commDebit" => PrepCreditOk(h)
  /\ k = "commCredit" => CommDebitOk(h)

HandlerMove(c) ==
  \/ rpc'[c] = rpc[c]
  \/ rpc[c] = "sent" /\ rpc'[c] = "rejected"
  \/ rpc[c] = "idle" /\ rpc'[c] = "sent" /\ Sends(<<c[1], c[2]>>, c[3])

CallMove(c) ==
  \/ HandlerMove(c)
  \/ /\ Serving(c)
     /\ BankMove(c[3], rpc[c], rpc'[c])
     /\ rpc'[c] = "applied" => CommitStore(c)
  \/ rpc[c] # "idle" /\ rpc'[c] = "gone" /\ Fresh

(* The calls of a handler that takes a step.                               *)
LEMMA HandlerMoves ==
  ASSUME LockInv, NEW g \in Handlers, GatewayHandler(g), NEW c \in Calls
  PROVE  HandlerMove(c)
<1> USE DEF LockInv, TypeInv, TypeOK, BankTypeOK
<1>1. /\ \A k \in Kinds : Call(g, k) \in Calls
      /\ \A k, l \in Kinds : Call(g, k) = Call(g, l) => k = l
      /\ \A k : Call(g, k)[1] = g[1] /\ Call(g, k)[2] = g[2] /\ Call(g, k)[3] = k
      /\ g = <<g[1], g[2]>>
  BY CallsDistinct, HandlerParts
<1>2. /\ "prepDebit" \in Kinds /\ "prepCredit" \in Kinds /\ "release" \in Kinds
      /\ "commDebit" \in Kinds /\ "commCredit" \in Kinds
  BY DEF Kinds, PrepareKinds, CommitKinds
<1>3. ASSUME NEW k \in Kinds, Send(g, k), Sends(g, k), k \in Ahead(g)
      PROVE  HandlerMove(c)
  <2>1. rpc[Call(g, k)] = "idle"
    BY <1>3 DEF ExchangeInv, CallsAheadIdle
  <2>2. rpc'[c] = IF c = Call(g, k) THEN "sent" ELSE rpc[c]
    BY <1>1, <1>3 DEF Send
  <2>3. QED
    BY <1>1, <1>3, <2>1, <2>2 DEF HandlerMove
<1>4. ASSUME NEW k \in Kinds, Abandon(g, k)
      PROVE  HandlerMove(c)
  BY <1>1, <1>4 DEF Abandon, GivenUp, HandlerMove
<1>5. CASE AuthOk(g) \/ AuthReject(g) \/ RejectPayment(g) \/ ReplayStatus(g) \/ TokenPanic(g)
           \/ CommCreditOk(g)
  BY <1>5 DEF AuthOk, AuthReject, RejectPayment, ReplayStatus, TokenPanic, CommCreditOk,
     bankVars, HandlerMove
<1>6. CASE BeginPayment(g)
  BY <1>2, <1>3, <1>6 DEF BeginPayment, Leave, Sends, Ahead
<1>7. CASE PrepDebitOk(g)
  BY <1>2, <1>3, <1>7 DEF PrepDebitOk, Leave, Sends, Ahead
<1>8. CASE PrepCreditOk(g)
  BY <1>2, <1>3, <1>8 DEF PrepCreditOk, Leave, Sends, Ahead
<1>9. CASE CommDebitOk(g)
  BY <1>2, <1>3, <1>9 DEF CommDebitOk, Leave, Sends, Ahead
<1>10. CASE PrepCreditFail(g)
  <2>1. rpc[Call(g, "release")] = "idle"
    BY <1>10 DEF PrepCreditFail, Leave, ExchangeInv, CallsAheadIdle, Ahead
  <2>2. rpc'[c] = IF c = Call(g, "release") THEN "sent"
                  ELSE IF c = Call(g, "prepCredit") THEN GivenUp(g, "prepCredit") ELSE rpc[c]
    BY <1>1, <1>2, <1>10 DEF PrepCreditFail
  <2>3. Sends(g, "release")
    BY DEF Sends
  <2>4. QED
    BY <1>1, <2>1, <2>2, <2>3 DEF HandlerMove, GivenUp
<1>11. CASE PrepDebitFail(g) \/ ReleaseDone(g)
  BY <1>2, <1>4, <1>11 DEF PrepDebitFail, ReleaseDone
<1>12. CASE \E k \in CommitKinds : CommitFail(g, k)
  BY <1>4, <1>12 DEF CommitFail, Kinds
<1>13. QED
  BY <1>5, <1>6, <1>7, <1>8, <1>9, <1>10, <1>11, <1>12 DEF GatewayHandler

(* Every step.                                                             *)
LEMMA CallMoves ==
  ASSUME LockInv, [Next]_vars, NEW c \in Calls
  PROVE  CallMove(c)
<1>1. UNCHANGED rpc => CallMove(c)
  BY DEF CallMove, HandlerMove
<1>2. CASE BankStep
  <2>1. ASSUME NEW d \in Calls, BankHandler(d)
        PROVE  CallMove(c)
    <3>1. /\ BankMove(c[3], rpc[c], rpc'[c])
          /\ rpc'[c] # rpc[c] => Serving(c)
          /\ rpc'[c] = "applied" => rpc[c] = "applied" \/ CommitStore(c)
      BY <2>1, HandlerCalls
    <3>2. QED
      BY <3>1 DEF CallMove, HandlerMove
  <2>2. ASSUME NEW b \in Banks, BankListen(b) \/ BankCrash(b) \/ BankRestart(b)
        PROVE  UNCHANGED rpc
    BY <2>2 DEF BankListen, BankCrash, BankRestart
  <2>3. QED
    BY <1>1, <1>2, <2>1, <2>2 DEF BankStep
<1>3. ASSUME NEW b \in Banks, BankServerDiscovery(b)
      PROVE  CallMove(c)
  <2>1. CASE gatewayUp /\ b \notin BankServers
    <3>1. rpc'[c] = rpc[c] \/ (rpc[c] # "idle" /\ rpc'[c] = "gone")
      BY <1>3, <2>1 DEF BankServerDiscovery, FreshMemory
    <3>2. Fresh
      BY <1>3, <2>1 DEF Fresh
    <3>3. QED
      BY <3>1, <3>2 DEF CallMove, HandlerMove
  <2>2. CASE ~(gatewayUp /\ b \notin BankServers)
    BY <1>1, <1>3, <2>2 DEF BankServerDiscovery
  <2>3. QED
    BY <2>1, <2>2
<1>4. CASE GatewayStep
  BY <1>1, <1>3, <1>4, HandlerMoves DEF CallMove, GatewayStep, ConcurrentMapAccess, TokenExpires,
     GatewayCrash, GatewayRestart, bankVars
<1>5. CASE ClientStep
  BY <1>1, <1>5 DEF ClientStep, ClientProcess, SendAttempt, GatewayUnavailable, RecvSuccess,
     RecvError, RecvInProgress, DeadlineExceeded, TryAgain, bankVars
<1>6. QED
  BY <1>1, <1>2, <1>4, <1>5 DEF Next, vars, bankVars

(* The balances change when a commit is applied or a bank starts anew.     *)
LEMMA BalanceMoves ==
  ASSUME [Next]_vars
  PROVE  balance' = balance \/ (\E c \in Calls : CommitStore(c)) \/ Fresh
<1>1. ASSUME NEW c \in Calls, BankHandler(c)
      PROVE  balance' = balance \/ CommitStore(c)
  BY <1>1 DEF BankHandler, PrepareRefuse, PrepareAccept, AcquireLock, AcquireBusy,
     CommitValidate, CommitLockCheck, CommitPanic, CommitLoad, CommitUnlock, ReleaseResource
<1>2. ASSUME NEW b \in Banks, BankServerDiscovery(b)
      PROVE  balance' = balance \/ Fresh
  BY <1>2 DEF BankServerDiscovery, Fresh
<1>3. ASSUME NEW g \in Handlers, GatewayHandler(g)
      PROVE  balance' = balance
  BY <1>3 DEF GatewayHandler, AuthOk, AuthReject, RejectPayment, ReplayStatus, BeginPayment,
     PrepDebitOk, PrepDebitFail, PrepCreditOk, PrepCreditFail, ReleaseDone, CommDebitOk,
     CommCreditOk, CommitFail, TokenPanic, banksIdle, bankVars
<1>4. CASE BankStep
  BY <1>1, <1>4 DEF BankStep, BankListen, BankCrash, BankRestart
<1>5. CASE GatewayStep
  BY <1>2, <1>3, <1>5 DEF GatewayStep, ConcurrentMapAccess, TokenExpires, GatewayCrash,
     GatewayRestart, bankVars
<1>6. CASE ClientStep
  BY <1>6 DEF ClientStep, ClientProcess, SendAttempt, GatewayUnavailable, RecvSuccess,
     RecvError, RecvInProgress, DeadlineExceeded, TryAgain, bankVars
<1>7. QED
  BY <1>4, <1>5, <1>6 DEF Next, vars, bankVars

(* The calls that were cut off are counted.                                *)
LEMMA DropMoves ==
  ASSUME TypeInv, [Next]_vars
  PROVE  drops \in Nat /\ drops' \in {drops, drops + 1}
<1>1. drops \in Nat
  BY GatewayAssumption DEF GatewayAssumption, TypeInv, TypeOK, GatewayTypeOK
<1>2. ASSUME NEW g \in Handlers, GatewayHandler(g)
      PROVE  drops' \in {drops, drops + 1}
  BY <1>2 DEF GatewayHandler, AuthOk, AuthReject, RejectPayment, ReplayStatus, BeginPayment,
     PrepDebitOk, PrepDebitFail, PrepCreditOk, PrepCreditFail, ReleaseDone, CommDebitOk,
     CommCreditOk, CommitFail, TokenPanic, GatewayDies, CallLost
<1>3. ASSUME GatewayStep
      PROVE  drops' \in {drops, drops + 1}
  BY <1>2, <1>3 DEF GatewayStep, BankServerDiscovery, ConcurrentMapAccess, TokenExpires,
     GatewayCrash, GatewayRestart, GatewayDies
<1>4. ClientStep => drops' = drops
  BY DEF ClientStep, ClientProcess, SendAttempt, GatewayUnavailable, RecvSuccess,
     RecvError, RecvInProgress, DeadlineExceeded, TryAgain, gatewayVars
<1>5. QED
  BY <1>1, <1>3, <1>4 DEF Next, BankStep, vars, gatewayVars

(* An exchange begins with its first call.                                 *)
LEMMA ActiveMoves ==
  ASSUME TypeInv, [Next]_vars, NEW h \in Handlers, Active(h)'
  PROVE  (Active(h) \/ BeginPayment(h)) /\ ~GatewayRestart
<1>0. pc \in [Handlers -> Points] /\ pc'[h] \in CallPoints /\ (Active(h) <=> pc[h] \in CallPoints)
  BY DEF Active, TypeInv, TypeOK, GatewayTypeOK
<1> USE <1>0 DEF CallPoints
<1>1. ASSUME NEW g \in Handlers, GatewayHandler(g)
      PROVE  Active(h) \/ BeginPayment(h)
  <2>1. CASE pc'[h] = pc[h]
    BY <2>1
  <2>2. CASE pc'[h] # pc[h]
    <3>1. ~BeginPayment(g) => pc[g] \in CallPoints \/ pc'[g] \notin CallPoints
      BY <1>1 DEF GatewayHandler, AuthOk, AuthReject, RejectPayment, ReplayStatus,
         PrepDebitOk, PrepDebitFail, PrepCreditOk, PrepCreditFail, ReleaseDone, CommDebitOk,
         CommCreditOk, CommitFail, TokenPanic, GatewayDies, Leave, CommitKinds
    <3>2. g # h => pc'[h] = pc[h]
      BY <1>1 DEF GatewayHandler, AuthOk, AuthReject, RejectPayment, ReplayStatus, BeginPayment,
         PrepDebitOk, PrepDebitFail, PrepCreditOk, PrepCreditFail, ReleaseDone, CommDebitOk,
         CommCreditOk, CommitFail, TokenPanic, GatewayDies, Leave
    <3>3. QED
      BY <2>2, <3>1, <3>2
  <2>3. QED
    BY <2>1, <2>2
<1>2. ~GatewayRestart
  BY DEF GatewayRestart
<1>3. CASE GatewayStep
  BY <1>1, <1>2, <1>3 DEF GatewayStep, BankServerDiscovery, ConcurrentMapAccess,
     TokenExpires, GatewayCrash, GatewayDies
<1>4. ASSUME NEW p \in Payments, SendAttempt(p)
      PROVE  Active(h)
  BY <1>4 DEF SendAttempt
<1>5. ClientStep => UNCHANGED pc \/ \E p \in Payments : SendAttempt(p)
  BY DEF ClientStep, ClientProcess, GatewayUnavailable, RecvSuccess, RecvError,
     RecvInProgress, DeadlineExceeded, TryAgain, gatewayVars
<1>6. QED
  BY <1>2, <1>3, <1>4, <1>5 DEF Next, BankStep, vars, gatewayVars

(* A bank that has failed under a gateway that knows it does not come back *)
(* while the gateway lives.                                                *)
LEMMA FailedForGood ==
  ASSUME TypeInv, [Next]_vars, ~GatewayRestart, NEW b \in BankServers,
         bankState[b] \in {"down", "restarting"}
  PROVE  b \in BankServers' /\ bankState'[b] \in {"down", "restarting"}
<1> USE DEF TypeInv, TypeOK, BankTypeOK, GatewayTypeOK
<1>1. b \in Banks
  OBVIOUS
<1>2. CASE BankStep
  <2>1. ASSUME NEW c \in Calls, BankHandler(c)
        PROVE  UNCHANGED bankState \/ bankState' = [bankState EXCEPT ![BankOf[AccountOf(c)]] = "down"]
    BY <2>1 DEF BankHandler, PrepareRefuse, PrepareAccept, AcquireLock, AcquireBusy,
       CommitValidate, CommitLockCheck, CommitPanic, CommitLoad, CommitStore, CommitUnlock,
       ReleaseResource
  <2>2. ASSUME NEW d \in Banks, BankListen(d) \/ BankCrash(d) \/ BankRestart(d)
        PROVE  bankState'[b] \in {"down", "restarting"}
    BY <1>1, <2>2 DEF BankListen, BankCrash, BankRestart
  <2>3. QED
    BY <1>1, <1>2, <2>1, <2>2 DEF BankStep, gatewayVars
<1>3. ASSUME NEW g \in Handlers, GatewayHandler(g)
      PROVE  UNCHANGED <<BankServers, bankState>>
  BY <1>3 DEF GatewayHandler, AuthOk, AuthReject, RejectPayment, ReplayStatus, BeginPayment,
     PrepDebitOk, PrepDebitFail, PrepCreditOk, PrepCreditFail, ReleaseDone, CommDebitOk,
     CommCreditOk, CommitFail, TokenPanic, GatewayDies, processOnly, banksIdle, bankVars
<1>4. ASSUME NEW d \in Banks, BankServerDiscovery(d)
      PROVE  b \in BankServers' /\ bankState'[b] \in {"down", "restarting"}
  BY <1>1, <1>4 DEF BankServerDiscovery
<1>5. ASSUME NEW g \in Handlers, NEW d \in Banks, ConcurrentMapAccess(g, d)
      PROVE  b \in BankServers' /\ bankState'[b] \in {"down", "restarting"}
  BY <1>1, <1>5 DEF ConcurrentMapAccess, GatewayDies
<1>6. CASE GatewayStep
  BY <1>3, <1>4, <1>5, <1>6 DEF GatewayStep, TokenExpires, GatewayCrash, GatewayDies, bankVars
<1>7. ClientStep => UNCHANGED <<BankServers, bankState>>
  BY DEF ClientStep, ClientProcess, SendAttempt, GatewayUnavailable, RecvSuccess,
     RecvError, RecvInProgress, DeadlineExceeded, TryAgain, gatewayVars, bankVars
<1>8. QED
  BY <1>2, <1>6, <1>7 DEF Next, vars, gatewayVars, bankVars

(* An attempt that cannot get past the bank that failed before it cannot   *)
(* do so later.                                                            *)
LEMMA HopelessStays ==
  ASSUME LockInv, [Next]_vars, NEW h \in Handlers, Active(h)', Hopeless(h)
  PROVE  Hopeless(h)'
<1>1. ~GatewayRestart /\ TypeInv
  BY ActiveMoves DEF LockInv
<1>2. drops > 0 => drops' > 0
  BY <1>1, DropMoves
<1>3. ASSUME NEW k \in PrepareKinds, NEW a \in Accounts, AccountOf(Call(h, k)) = a,
             BankFailed(a), BankOf[a] \in BankServers, rpc[Call(h, k)] \notin {"acquiring", "ok"}
      PROVE  /\ BankFailed(a)' /\ BankOf[a] \in BankServers'
             /\ rpc'[Call(h, k)] \notin {"acquiring", "ok"}
  <2>1. BankFailed(a)' /\ BankOf[a] \in BankServers'
    BY <1>1, <1>3, FailedForGood DEF BankFailed
  <2>2. Call(h, k) \in Calls
    BY HandlerParts DEF Kinds
  <2>3. CallMove(Call(h, k)) /\ ~Serving(Call(h, k))
    BY <1>3, <2>2, CallMoves DEF Serving, BankFailed
  <2>4. QED
    BY <1>3, <2>1, <2>3 DEF CallMove, HandlerMove
<1>4. "prepDebit" \in PrepareKinds /\ "prepCredit" \in PrepareKinds
  BY DEF PrepareKinds
<1>5. \A k : Call(h, k)' = Call(h, k)
  BY DEF Call
<1>6. QED
  BY <1>2, <1>3, <1>4, <1>5, CallAccounts DEF Hopeless

(* A payment that is begun although an earlier attempt has sent its debit. *)
LEMMA BegunHopeless ==
  ASSUME LockInv, Exchange, MoneyInv, NEW g \in Handlers, NEW h \in Handlers,
         Rivals(g, h), Debiting(g), BeginPayment(h)
  PROVE  Hopeless(h)'
<1>1. h[1] = g[1] /\ h # g /\ UserTransactions[h[1]] \in {"absent", "failed"}
  BY DEF Rivals, BeginPayment
<1>2. Blamed(g, Sender[g[1]])
  BY <1>1, RivalsBlamed DEF Debiting
<1>3. /\ UNCHANGED <<drops, bankState, BankServers>>
      /\ BankOf[Sender[h[1]]] \in BankServers
  BY DEF BeginPayment, banksIdle, processOnly, Acceptable
<1>4. rpc[Call(h, "prepCredit")] = "idle"
  BY DEF BeginPayment, Leave, LockInv, ExchangeInv, CallsAheadIdle, Ahead, Kinds, PrepareKinds
<1>5. /\ Call(h, "prepDebit") \in Calls /\ Call(h, "prepCredit") \in Calls
      /\ Call(h, "prepDebit") # Call(h, "prepCredit")
  BY HandlerParts DEF Kinds, PrepareKinds, Call
<1>6. rpc'[Call(h, "prepDebit")] = "sent" /\ rpc'[Call(h, "prepCredit")] = "idle"
  BY <1>4, <1>5 DEF BeginPayment, Send, LockInv, TypeInv, TypeOK, BankTypeOK
<1>7. QED
  BY <1>1, <1>2, <1>3, <1>6 DEF Blamed, Hopeless, BankFailed, Call

(* Only a handler that waits for its second prepare sends a debit, and     *)
(* then its attempt was not hopeless.                                      *)
LEMMA DebitBegins ==
  ASSUME LockInv, [Next]_vars, NEW h \in Handlers, Debiting(h)', ~Debiting(h)
  PROVE  PrepCreditOk(h) /\ Active(h) /\ (Hopeless(h) => drops > 0)
<1>1. Call(h, "commDebit") \in Calls /\ h = <<Call(h, "commDebit")[1], Call(h, "commDebit")[2]>>
  BY HandlerParts DEF Kinds, CommitKinds, Call
<1>2. /\ rpc'[Call(h, "commDebit")] \notin {"idle", "gone"}
      /\ rpc[Call(h, "commDebit")] \in {"idle", "gone"}
  BY DEF Debiting, Call
<1>3. PrepCreditOk(h)
  <2>1. CallMove(Call(h, "commDebit"))
    BY <1>1, CallMoves
  <2>2. Call(h, "commDebit")[3] = "commDebit"
    BY DEF Call
  <2>3. QED
    BY <1>1, <1>2, <2>1, <2>2 DEF CallMove, HandlerMove, BankMove, Sends
<1>4. pc[h] = "prepCredit" /\ rpc[Call(h, "prepCredit")] = "ok"
  BY <1>3 DEF PrepCreditOk, Leave, Answered
<1>5. rpc[Call(h, "prepDebit")] = "ok"
  BY <1>4 DEF LockInv, ExchangeInv, CallOrder, OrderOf
<1>6. QED
  BY <1>3, <1>4, <1>5 DEF Active, CallPoints, Hopeless

(* So retries of a payment that has been debited remain hopeless.          *)
LEMMA RetriesNext ==
  ASSUME LockInv, Exchange, MoneyInv, RetriesHopeless, [Next]_vars
  PROVE  RetriesHopeless'
<1> SUFFICES ASSUME NEW g \in Handlers, NEW h \in Handlers, Rivals(g, h), Debiting(g)'
             PROVE  (Active(h)' => Hopeless(h)') /\ (Debiting(h)' => drops' > 0)
  BY DEF RetriesHopeless, Rivals, Debiting, Active
<1>1. Rivals(h, g) /\ ~(Active(g) /\ Active(h)) /\ ~(Active(g) /\ BeginPayment(h))
  <2>1. /\ g = <<g[1], g[2]>> /\ h = <<g[1], h[2]>> /\ g[2] # h[2] /\ h[1] = g[1]
        /\ g[1] \in Payments /\ g[2] \in Attempts /\ h[2] \in Attempts
    BY HandlerParts DEF Rivals
  <2>2. ~(Active(g) /\ Active(h))
    BY <2>1 DEF Exchange, OneExchangePerPayment
  <2>3. ~(Active(g) /\ BeginPayment(h))
    BY <2>1 DEF Exchange, BeginPayment
  <2>4. QED
    BY <2>1, <2>2, <2>3 DEF Rivals
<1>2. drops > 0 => drops' > 0
  BY DropMoves DEF LockInv
<1>3. ASSUME Active(h)'
      PROVE  Hopeless(h)'
  <2>1. Active(h) \/ BeginPayment(h)
    BY <1>3, ActiveMoves DEF LockInv
  <2>2. Debiting(g)
    BY <1>1, <2>1, DebitBegins
  <2>3. CASE Active(h)
    BY <1>3, <2>2, <2>3, HopelessStays DEF RetriesHopeless
  <2>4. CASE BeginPayment(h)
    BY <2>2, <2>4, BegunHopeless
  <2>5. QED
    BY <2>1, <2>3, <2>4
<1>4. ASSUME Debiting(h)'
      PROVE  drops > 0
  <2>1. CASE Debiting(g)
    BY <1>4, <2>1, DebitBegins DEF RetriesHopeless
  <2>2. CASE ~Debiting(g)
    <3>1. Active(g) /\ (Hopeless(g) => drops > 0)
      BY <2>2, DebitBegins
    <3>2. Debiting(h)
      BY <1>1, <1>4, <3>1, DebitBegins
    <3>3. QED
      BY <1>1, <3>1, <3>2 DEF RetriesHopeless
  <2>3. QED
    BY <2>1, <2>2
<1>5. QED
  BY <1>2, <1>3, <1>4

LEMMA CreditsNext ==
  ASSUME LockInv, CreditAfterDebit, [Next]_vars
  PROVE  CreditAfterDebit'
<1> SUFFICES ASSUME NEW h \in Handlers, rpc'[Call(h, "commCredit")] \notin {"idle", "gone"}
             PROVE  rpc'[Call(h, "commDebit")] \in {"ok", "gone"}
  BY DEF CreditAfterDebit, Call
<1>1. /\ Call(h, "commDebit") \in Calls /\ Call(h, "commCredit") \in Calls
      /\ Call(h, "commCredit")[3] = "commCredit"
      /\ h = <<Call(h, "commCredit")[1], Call(h, "commCredit")[2]>>
  BY HandlerParts DEF Kinds, CommitKinds, Call
<1>2. CallMove(Call(h, "commDebit")) /\ CallMove(Call(h, "commCredit"))
  BY <1>1, CallMoves
<1>3. rpc[Call(h, "commDebit")] \in {"ok", "gone"}
  <2>1. CASE rpc[Call(h, "commCredit")] \notin {"idle", "gone"}
    BY <2>1 DEF CreditAfterDebit
  <2>2. CASE rpc[Call(h, "commCredit")] \in {"idle", "gone"}
    <3>1. CommDebitOk(h)
      BY <1>1, <1>2, <2>2 DEF CallMove, HandlerMove, BankMove, Sends
    <3>2. QED
      BY <3>1 DEF CommDebitOk, Answered
  <2>3. QED
    BY <2>1, <2>2
<1>4. QED
  BY <1>2, <1>3 DEF CallMove, HandlerMove, BankMove

LEMMA AppliedNext ==
  ASSUME LockInv, AppliedToCustomers, [Next]_vars
  PROVE  AppliedToCustomers'
<1> SUFFICES ASSUME NEW c \in Calls, c[3] \in CommitKinds, rpc'[c] \in {"applied", "ok"}
             PROVE  AccountOf(c) \in Customers
  BY DEF AppliedToCustomers, AccountOf
<1>1. CallMove(c)
  BY CallMoves
<1>2. rpc[c] \in {"applied", "ok", "loaded"}
  BY <1>1 DEF CallMove, HandlerMove, BankMove
<1>3. QED
  BY <1>2 DEF AppliedToCustomers, LockInv, TypeInv, KnownAccounts

LEMMA UntouchedNext ==
  ASSUME LockInv, UntouchedBalance, [Next]_vars
  PROVE  UntouchedBalance'
<1> SUFFICES ASSUME NEW a \in Customers, \A c \in Calls : AccountOf(c) = a => rpc'[c] = "idle"
             PROVE  balance'[a] = InitialBalance[a]
  BY DEF UntouchedBalance, AccountOf
<1>1. \A c \in Calls : AccountOf(c) = a => rpc[c] = "idle"
  <2> SUFFICES ASSUME NEW c \in Calls, AccountOf(c) = a PROVE rpc[c] = "idle"
    OBVIOUS
  <2>1. CallMove(c)
    BY CallMoves
  <2>2. QED
    BY <2>1 DEF CallMove, HandlerMove, BankMove
<1>2. balance[a] = InitialBalance[a]
  BY <1>1 DEF UntouchedBalance
<1>3. ASSUME NEW c \in Calls, CommitStore(c)
      PROVE  balance'[a] = balance[a]
  BY <1>1, <1>3 DEF CommitStore, Step, LockInv, TypeInv, TypeOK, BankTypeOK
<1>4. Fresh => balance'[a] \in {balance[a], InitialBalance[a]}
  BY DEF Fresh, BankServerDiscovery, FreshMemory
<1>5. QED
  BY <1>2, <1>3, <1>4, BalanceMoves

LEMMA LedgerInvHolds == Spec => []LedgerInv
<1>1. LockInv /\ Exchange /\ MoneyInv /\ LedgerInv /\ [Next]_vars => LedgerInv'
  BY RetriesNext, CreditsNext, AppliedNext, UntouchedNext DEF LedgerInv
<1>2. QED
  BY <1>1, LockInvHolds, ExchangeHolds, MoneyInvHolds, LedgerInvInit, PTL DEF Spec
-------------------------------------------------------------------------------
(* The refinement of Ledger.  The attempts that have applied their commit. *)
Effective == {"applied", "ok"}
Done(p, k) == {n \in Attempts : rpc[<<p, n, k>>] \in Effective}
SomeGone == \E c \in Calls : rpc[c] = "gone"

LEMMA SomeAttempts ==
  ASSUME NEW S \in SUBSET Attempts
  PROVE  /\ IsFiniteSet(S) /\ Cardinality(S) \in Nat
         /\ Cardinality(S) = 0 <=> S = {}
<1>1. IsFiniteSet(Attempts)
  BY FS_Interval, BankAssumption DEF Attempts, BankAssumption
<1>2. IsFiniteSet(S)
  BY <1>1, FS_Subset
<1>3. QED
  BY <1>2, FS_CardinalityType, FS_EmptySet

LEMMA TimesDone ==
  ASSUME NEW p, NEW k
  PROVE  /\ Done(p, k) \in SUBSET Attempts /\ Times(p, k) = Cardinality(Done(p, k))
         /\ Done(p, k)' \in SUBSET Attempts /\ Times(p, k)' = Cardinality(Done(p, k)')
         /\ Times(p, k) \in Nat
<1>1. /\ Done(p, k) \in SUBSET Attempts /\ Times(p, k) = Cardinality(Done(p, k))
      /\ Done(p, k)' \in SUBSET Attempts /\ Times(p, k)' = Cardinality(Done(p, k)')
  BY DEF Done, Times, Effective
<1>2. QED
  BY <1>1, SomeAttempts

(* No commit is applied and none is forgotten.                             *)
CommitsKept ==
  \A c \in Calls : c[3] \in CommitKinds => (rpc'[c] \in Effective <=> rpc[c] \in Effective)

LEMMA TimesKept ==
  ASSUME NEW p \in Payments, NEW k \in CommitKinds, CommitsKept
  PROVE  Times(p, k)' = Times(p, k)
<1>1. \A n \in Attempts : <<p, n, k>> \in Calls /\ <<p, n, k>>[3] = k
  BY DEF Calls, Kinds
<1>2. Done(p, k)' = Done(p, k)
  BY <1>1 DEF Done, CommitsKept
<1>3. QED
  BY <1>2, TimesDone

(* A payment is debited once more when one more attempt has applied it.    *)
LEMMA TimesGrows ==
  ASSUME NEW c \in Calls, rpc[c] \notin Effective, rpc'[c] \in Effective,
         \A d \in Calls : d # c => (rpc'[d] \in Effective <=> rpc[d] \in Effective),
         NEW p \in Payments, NEW k \in Kinds
  PROVE  Times(p, k)' = IF p = c[1] /\ k = c[3] THEN Times(p, k) + 1 ELSE Times(p, k)
<1>1. \A n \in Attempts : <<p, n, k>> \in Calls
  BY DEF Calls
<1>2. c = <<c[1], c[2], c[3]>> /\ c[2] \in Attempts
  BY DEF Calls
<1>3. CASE p = c[1] /\ k = c[3]
  <2>1. Done(p, k)' = Done(p, k) \union {c[2]} /\ c[2] \notin Done(p, k)
    BY <1>1, <1>2, <1>3 DEF Done
  <2>2. Cardinality(Done(p, k) \union {c[2]}) = Cardinality(Done(p, k)) + 1
    BY <2>1, TimesDone, SomeAttempts, FS_AddElement
  <2>3. QED
    BY <1>3, <2>1, <2>2, TimesDone
<1>4. CASE ~(p = c[1] /\ k = c[3])
  <2>1. Done(p, k)' = Done(p, k)
    BY <1>1, <1>2, <1>4 DEF Done
  <2>2. QED
    BY <1>4, <2>1, TimesDone
<1>5. QED
  BY <1>3, <1>4
-------------------------------------------------------------------------------
(* A step that applies no commit and loses no memory changes nothing in    *)
(* the ledger, or loses an answer.                                         *)
LEMMA OtherStep ==
  ASSUME LockInv, [Next]_vars, balance' = balance, CommitsKept,
         \A c \in Calls : rpc'[c] = "gone" <=> rpc[c] = "gone"
  PROVE  [L!Next]_(L!vars)
<1>1. \A p \in Payments : /\ Times(p, "commDebit")' = Times(p, "commDebit")
                          /\ Times(p, "commCredit")' = Times(p, "commCredit")
  BY TimesKept DEF CommitKinds
<1>2. SomeGone' <=> SomeGone
  BY DEF SomeGone
<1>3. drops \in Nat /\ drops' \in {drops, drops + 1}
  BY DropMoves DEF LockInv
<1>4. /\ [p \in Payments |-> Times(p, "commDebit")]' = [p \in Payments |-> Times(p, "commDebit")]
      /\ [p \in Payments |-> Times(p, "commCredit")]' = [p \in Payments |-> Times(p, "commCredit")]
  BY <1>1
<1>5. (\E c \in Calls : rpc[c] = "gone")' = (\E c \in Calls : rpc[c] = "gone")
  BY <1>2 DEF SomeGone
<1>6. CASE (drops' > 0) <=> (drops > 0)
  BY <1>4, <1>5, <1>6 DEF L!vars
<1>7. CASE ~((drops' > 0) <=> (drops > 0))
  <2>1. L!LoseAnswer
    BY <1>3, <1>4, <1>5, <1>7 DEF L!LoseAnswer
  <2>2. QED
    BY <2>1 DEF L!Next
<1>8. QED
  BY <1>6, <1>7

(* The write of a commit is the debit or the credit: what it has read is   *)
(* still the balance.                                                      *)
LEMMA StoreStep ==
  ASSUME LockInv, Funded, LedgerInv, NEW c \in Calls, CommitStore(c), UNCHANGED drops
  PROVE  L!Next
<1> USE DEF LockInv, TypeInv, TypeOK, BankTypeOK
<1> DEFINE p == c[1]
           debits == [q \in Payments |-> Times(q, "commDebit")]
           credits == [q \in Payments |-> Times(q, "commCredit")]
<1>1. /\ p \in Payments /\ c[2] \in Attempts /\ c[3] \in Kinds /\ <<p, c[2]>> \in Handlers
      /\ c = Call(<<p, c[2]>>, c[3])
  BY CallParts DEF Call
<1>2. /\ rpc[c] = "loaded" /\ rpc' = [rpc EXCEPT ![c] = "applied"]
      /\ AccountOf(c) \in Customers /\ loaded[c] = balance[AccountOf(c)]
  BY DEF CommitStore, Step, KnownAccounts, Funded
<1>3. c[3] \in CommitKinds
  BY <1>1, <1>2 DEF ExchangeInv, CallStates, Pre, Kinds, PrepareKinds
<1>4. \A q \in Payments : \A k \in Kinds :
        Times(q, k)' = IF q = p /\ k = c[3] THEN Times(q, k) + 1 ELSE Times(q, k)
  BY <1>2, TimesGrows DEF Effective
<1>5. (\E d \in Calls : rpc[d] = "gone")' = (\E d \in Calls : rpc[d] = "gone")
  BY <1>2
<1>6. "commDebit" \in Kinds /\ "commCredit" \in Kinds /\ Amount[p] \in Nat
  BY <1>1, BankAssumption DEF Kinds, CommitKinds, BankAssumption
<1>7. CASE c[3] = "commDebit"
  <2>1. debits' = [debits EXCEPT ![p] = @ + 1] /\ credits' = credits
    BY <1>1, <1>4, <1>6, <1>7
  <2>2. AccountOf(c) = Sender[p] /\ balance[Sender[p]] >= Amount[p]
    BY <1>2, <1>7 DEF Funded, AccountOf
  <2>3. balance' = [balance EXCEPT ![Sender[p]] = @ - Amount[p]]
    BY <1>2, <1>7, <2>2 DEF CommitStore, IsDebit
  <2>4. debits[p] = 0 \/ drops > 0
    <3>1. SUFFICES ASSUME NEW n \in Done(p, "commDebit")
                   PROVE  drops > 0
      BY <1>1, TimesDone, SomeAttempts
    <3>2. n \in Attempts /\ rpc[<<p, n, "commDebit">>] \in Effective
      BY DEF Done
    <3>3. <<p, n>> \in Handlers /\ Rivals(<<p, n>>, <<p, c[2]>>)
      BY <1>1, <1>2, <1>7, <3>2 DEF Handlers, Rivals, Effective, Call
    <3>4. Debiting(<<p, n>>) /\ Debiting(<<p, c[2]>>)
      BY <1>1, <1>2, <1>7, <3>2 DEF Debiting, Effective, Call
    <3>5. QED
      BY <1>1, <3>3, <3>4 DEF LedgerInv, RetriesHopeless
  <2>5. L!Debit(p)
    BY <1>5, <2>1, <2>2, <2>3, <2>4 DEF L!Debit
  <2>6. QED
    BY <1>1, <2>5 DEF L!Next
<1>8. CASE c[3] = "commCredit"
  <2>1. credits' = [credits EXCEPT ![p] = @ + 1] /\ debits' = debits
    BY <1>1, <1>4, <1>6, <1>8
  <2>2. AccountOf(c) = Recipient[p]
    BY <1>8 DEF AccountOf
  <2>3. balance' = [balance EXCEPT ![Recipient[p]] = @ + Amount[p]]
    BY <1>2, <1>8, <2>2 DEF CommitStore, IsDebit
  <2>4. credits[p] < debits[p] \/ \E d \in Calls : rpc[d] = "gone"
    <3>1. SUFFICES ASSUME \A d \in Calls : rpc[d] # "gone"
                   PROVE  credits[p] < debits[p]
      OBVIOUS
    <3>2. ASSUME NEW n \in Attempts, rpc[<<p, n, "commCredit">>] \notin {"idle", "gone"}
          PROVE  rpc[<<p, n, "commDebit">>] = "ok"
      <4>1. /\ <<p, n>> \in Handlers /\ <<p, n, "commDebit">> \in Calls
            /\ Call(<<p, n>>, "commCredit") = <<p, n, "commCredit">>
            /\ Call(<<p, n>>, "commDebit") = <<p, n, "commDebit">>
        BY <1>1, <1>6 DEF Handlers, Calls, Call
      <4>2. rpc[<<p, n, "commDebit">>] \in {"ok", "gone"}
        BY <3>2, <4>1 DEF LedgerInv, CreditAfterDebit
      <4>3. QED
        BY <3>1, <4>1, <4>2
    <3>3. c[2] \notin Done(p, "commCredit")
      BY <1>1, <1>2, <1>8 DEF Done, Effective, Call
    <3>4. Done(p, "commCredit") \union {c[2]} \subseteq Done(p, "commDebit")
      BY <1>1, <1>2, <1>8, <3>2 DEF Done, Effective, Call
    <3>5. Cardinality(Done(p, "commCredit") \union {c[2]}) = Cardinality(Done(p, "commCredit")) + 1
      BY <3>3, TimesDone, SomeAttempts, FS_AddElement
    <3>6. Cardinality(Done(p, "commCredit") \union {c[2]}) <= Cardinality(Done(p, "commDebit"))
      BY <3>4, TimesDone, SomeAttempts, FS_Subset
    <3>7. QED
      BY <1>1, <3>5, <3>6, TimesDone
  <2>5. L!Credit(p)
    BY <1>5, <2>1, <2>3, <2>4 DEF L!Credit
  <2>6. QED
    BY <1>1, <2>5 DEF L!Next
<1>9. QED
  BY <1>3, <1>7, <1>8 DEF CommitKinds

(* A bank that starts anew forgets its side of every payment, or had none. *)
LEMMA ForgetStep ==
  ASSUME LockInv, LedgerInv, [Next]_vars, NEW b \in Banks, BankServerDiscovery(b),
         gatewayUp, b \notin BankServers
  PROVE  [L!Next]_(L!vars)
<1> USE DEF LockInv, TypeInv, TypeOK, BankTypeOK
<1> DEFINE A == {a \in Customers : BankOf[a] = b}
           debits == [q \in Payments |-> Times(q, "commDebit")]
           credits == [q \in Payments |-> Times(q, "commCredit")]
<1>1. FreshMemory(b) /\ UNCHANGED drops
  BY DEF BankServerDiscovery
<1>2. CASE \A c \in Calls : BankOf[AccountOf(c)] = b => rpc[c] = "idle"
  <2>1. rpc' = rpc
    BY <1>1, <1>2 DEF FreshMemory
  <2>2. \A a \in A : balance[a] = InitialBalance[a]
    BY <1>2 DEF LedgerInv, UntouchedBalance
  <2>3. balance' = balance
    BY <1>1, <2>2 DEF FreshMemory
  <2>4. QED
    BY <2>1, <2>3, OtherStep DEF CommitsKept
<1>3. ASSUME NEW d \in Calls, BankOf[AccountOf(d)] = b, rpc[d] # "idle"
      PROVE  L!Forget(A)
  <2>1. balance' = [a \in Customers |-> IF a \in A THEN InitialBalance[a] ELSE balance[a]]
    BY <1>1 DEF FreshMemory
  <2>2. ASSUME NEW p \in Payments, NEW k \in CommitKinds, NEW a \in Accounts,
               \A n \in Attempts : AccountOf(<<p, n, k>>) = a
        PROVE  Times(p, k)' = IF a \in A THEN 0 ELSE Times(p, k)
    <3>1. \A n \in Attempts :
            /\ <<p, n, k>> \in Calls /\ AccountOf(<<p, n, k>>) = a /\ <<p, n, k>>[3] = k
            /\ rpc'[<<p, n, k>>] = IF rpc[<<p, n, k>>] # "idle" /\ BankOf[a] = b THEN "gone"
                                                                         ELSE rpc[<<p, n, k>>]
      BY <1>1, <2>2 DEF FreshMemory, Calls, Kinds
    <3>2. CASE a \in A
      <4>1. Done(p, k)' = {}
        BY <3>1, <3>2 DEF Done, Effective
      <4>2. QED
        BY <3>2, <4>1, TimesDone, SomeAttempts
    <3>3. CASE a \notin A
      <4>1. Done(p, k)' = Done(p, k)
        <5>1. CASE BankOf[a] = b
          <6>1. a \notin Customers
            BY <3>3, <5>1
          <6>2. \A n \in Attempts : rpc[<<p, n, k>>] \notin Effective
            BY <3>1, <6>1 DEF LedgerInv, AppliedToCustomers, Effective
          <6>3. QED
            BY <3>1, <6>2 DEF Done, Effective
        <5>2. CASE BankOf[a] # b
          BY <3>1, <5>2 DEF Done
        <5>3. QED
          BY <5>1, <5>2
      <4>2. QED
        BY <3>3, <4>1, TimesDone
    <3>4. QED
      BY <3>2, <3>3
  <2>3. ASSUME NEW p \in Payments
        PROVE  /\ Times(p, "commDebit")' = IF Sender[p] \in A THEN 0 ELSE Times(p, "commDebit")
               /\ Times(p, "commCredit")' = IF Recipient[p] \in A THEN 0 ELSE Times(p, "commCredit")
    <3>1. /\ \A n \in Attempts : AccountOf(<<p, n, "commDebit">>) = Sender[p]
          /\ \A n \in Attempts : AccountOf(<<p, n, "commCredit">>) = Recipient[p]
          /\ Sender[p] \in Accounts /\ Recipient[p] \in Accounts
          /\ "commDebit" \in CommitKinds /\ "commCredit" \in CommitKinds
      BY BankAssumption DEF AccountOf, BankAssumption, CommitKinds
    <3>2. QED
      BY <2>2, <3>1
  <2>4. /\ debits' = [p \in Payments |-> IF Sender[p] \in A THEN 0 ELSE debits[p]]
        /\ credits' = [p \in Payments |-> IF Recipient[p] \in A THEN 0 ELSE credits[p]]
    BY <2>3
  <2>5. rpc'[d] = "gone"
    BY <1>1, <1>3 DEF FreshMemory
  <2>6. (\E c \in Calls : rpc[c] = "gone")' = TRUE
    BY <2>5
  <2>7. QED
    BY <1>1, <2>1, <2>4, <2>6 DEF L!Forget
<1>4. A \in SUBSET Customers
  OBVIOUS
<1>5. QED
  BY <1>2, <1>3, <1>4 DEF L!Next

(* Every step is one of the ledger, or none.                               *)
LEMMA LedgerStep ==
  ASSUME LockInv, Funded, OrphanInv, LedgerInv, [Next]_vars
  PROVE  [L!Next]_(L!vars)
<1>1. UNCHANGED <<balance, rpc>> => [L!Next]_(L!vars)
  BY OtherStep DEF CommitsKept
<1>2. CASE BankStep
  <2>1. UNCHANGED drops
    BY <1>2 DEF BankStep, gatewayVars
  <2>2. ASSUME NEW c \in Calls, CommitStore(c)
        PROVE  L!Next
    BY <2>1, <2>2, StoreStep
  <2>3. ASSUME NEW c \in Calls, BankHandler(c), \A d \in Calls : ~CommitStore(d)
        PROVE  [L!Next]_(L!vars)
    <3>1. balance' = balance
      BY <2>3 DEF BankHandler, PrepareRefuse, PrepareAccept, AcquireLock, AcquireBusy,
         CommitValidate, CommitLockCheck, CommitPanic, CommitLoad, CommitUnlock, ReleaseResource
    <3>2. \A d \in Calls : BankMove(d[3], rpc[d], rpc'[d]) /\ (rpc'[d] = "applied" => rpc[d] = "applied")
      BY <2>3, HandlerCalls
    <3>3. \A d \in Calls : rpc'[d] = "gone" <=> rpc[d] = "gone"
      BY <3>2 DEF BankMove
    <3>4. CommitsKept
      BY <3>2 DEF BankMove, CommitsKept, Effective
    <3>5. QED
      BY <3>1, <3>3, <3>4, OtherStep
  <2>4. ASSUME NEW b \in Banks, BankListen(b) \/ BankCrash(b) \/ BankRestart(b)
        PROVE  [L!Next]_(L!vars)
    BY <1>1, <2>4 DEF BankListen, BankCrash, BankRestart
  <2>5. QED
    BY <1>2, <2>2, <2>3, <2>4 DEF BankStep
<1>3. ASSUME NEW g \in Handlers, GatewayHandler(g)
      PROVE  [L!Next]_(L!vars)
  <2>1. balance' = balance
    BY <1>3 DEF GatewayHandler, AuthOk, AuthReject, RejectPayment, ReplayStatus, BeginPayment,
       PrepDebitOk, PrepDebitFail, PrepCreditOk, PrepCreditFail, ReleaseDone, CommDebitOk,
       CommCreditOk, CommitFail, TokenPanic, banksIdle, bankVars
  <2>2. \A c \in Calls : HandlerMove(c)
    BY <1>3, HandlerMoves
  <2>3. CommitsKept /\ \A c \in Calls : rpc'[c] = "gone" <=> rpc[c] = "gone"
    BY <2>2 DEF HandlerMove, CommitsKept, Effective
  <2>4. QED
    BY <2>1, <2>3, OtherStep DEF CommitsKept
<1>4. ASSUME NEW b \in Banks, BankServerDiscovery(b)
      PROVE  [L!Next]_(L!vars)
  <2>1. CASE gatewayUp /\ b \notin BankServers
    BY <1>4, <2>1, ForgetStep
  <2>2. CASE ~(gatewayUp /\ b \notin BankServers)
    BY <1>1, <1>4, <2>2 DEF BankServerDiscovery
  <2>3. QED
    BY <2>1, <2>2
<1>5. CASE GatewayStep
  BY <1>1, <1>3, <1>4, <1>5 DEF GatewayStep, ConcurrentMapAccess, TokenExpires, GatewayCrash,
     GatewayRestart, bankVars
<1>6. ClientStep => UNCHANGED <<balance, rpc>>
  BY DEF ClientStep, ClientProcess, SendAttempt, GatewayUnavailable, RecvSuccess, RecvError,
     RecvInProgress, DeadlineExceeded, TryAgain, bankVars
<1>7. QED
  BY <1>1, <1>2, <1>5, <1>6 DEF Next, vars, bankVars

LEMMA LedgerStart == Init => L!Init
<1> SUFFICES ASSUME Init PROVE L!Init
  OBVIOUS
<1>1. \A c \in Calls : rpc[c] = "idle"
  BY DEF Init, BankInit
<1>2. ASSUME NEW p \in Payments, NEW k \in CommitKinds
      PROVE  Times(p, k) = 0
  <2>1. \A n \in Attempts : <<p, n, k>> \in Calls
    BY DEF Calls, Kinds
  <2>2. Done(p, k) = {}
    BY <1>1, <2>1 DEF Done, Effective
  <2>3. QED
    BY <2>2, TimesDone, SomeAttempts
<1>3. \A p \in Payments : Times(p, "commDebit") = 0 /\ Times(p, "commCredit") = 0
  BY <1>2 DEF CommitKinds
<1>4. balance = InitialBalance /\ drops = 0
  BY DEF Init, BankInit, GatewayInit
<1>5. QED
  BY <1>1, <1>3, <1>4 DEF L!Init

(* The banks and the gateway together are a ledger: each payment is        *)
(* debited once and credited after it, in steps that find the balance they *)
(* have read, a debit is repeated only after an answer was lost and a      *)
(* credit stands alone only where a bank has forgotten the debit.          *)
THEOREM MoneyIsALedger == Spec => RefinesLedger
<1>1. LockInv /\ Funded /\ OrphanInv /\ LedgerInv /\ [Next]_vars => [L!Next]_(L!vars)
  BY LedgerStep
<1>2. QED
  BY <1>1, LedgerStart, LockInvHolds, FundedHolds, OrphanInvHolds, LedgerInvHolds,
     PTL DEF Spec, L!Spec, RefinesLedger
-------------------------------------------------------------------------------
(* The steps of a ledger, said of each payment.                            *)
Same(k) == \A q \in Payments : Times(q, k)' = Times(q, k)
OnceMore(p, k) == \A q \in Payments : Times(q, k)' = IF q = p THEN Times(q, k) + 1 ELSE Times(q, k)
Forgot(k, who, A) ==
  \A q \in Payments : Times(q, k)' = IF who[q] \in A THEN 0 ELSE Times(q, k)

LedgerMove ==
  \/ balance' = balance /\ Same("commDebit") /\ Same("commCredit")
  \/ \E p \in Payments :
       /\ Times(p, "commDebit") = 0 \/ drops > 0
       /\ balance' = [balance EXCEPT ![Sender[p]] = @ - Amount[p]]
       /\ OnceMore(p, "commDebit") /\ Same("commCredit")
  \/ \E p \in Payments :
       /\ balance' = [balance EXCEPT ![Recipient[p]] = @ + Amount[p]]
       /\ Same("commDebit") /\ OnceMore(p, "commCredit")
  \/ \E A \in SUBSET Customers :
       /\ balance' = [a \in Customers |-> IF a \in A THEN InitialBalance[a] ELSE balance[a]]
       /\ Forgot("commDebit", Sender, A) /\ Forgot("commCredit", Recipient, A)

LEMMA LedgerMoves ==
  ASSUME [L!Next]_(L!vars)
  PROVE  LedgerMove /\ (drops > 0 => (drops > 0)')
<1> DEFINE D == [p \in Payments |-> Times(p, "commDebit")]
           C == [p \in Payments |-> Times(p, "commCredit")]
<1>1. \A q \in Payments : /\ D[q] = Times(q, "commDebit") /\ D'[q] = Times(q, "commDebit")'
                          /\ C[q] = Times(q, "commCredit") /\ C'[q] = Times(q, "commCredit")'
  OBVIOUS
<1>2. DOMAIN D = Payments /\ DOMAIN C = Payments
  OBVIOUS
<1>3. CASE UNCHANGED L!vars
  <2>1. balance' = balance /\ D' = D /\ C' = C /\ (drops > 0)' = (drops > 0)
    BY <1>3 DEF L!vars
  <2> HIDE DEF D, C
  <2>2. QED
    BY <1>1, <2>1 DEF LedgerMove, Same
<1>4. CASE L!LoseAnswer
  <2>1. balance' = balance /\ D' = D /\ C' = C /\ (drops > 0)'
    BY <1>4 DEF L!LoseAnswer
  <2> HIDE DEF D, C
  <2>2. QED
    BY <1>1, <2>1 DEF LedgerMove, Same
<1>5. CASE \E A \in SUBSET Customers : L!Forget(A)
  <2> PICK A \in SUBSET Customers : L!Forget(A)
    BY <1>5
  <2>1. /\ balance' = [a \in Customers |-> IF a \in A THEN InitialBalance[a] ELSE balance[a]]
        /\ D' = [p \in Payments |-> IF Sender[p] \in A THEN 0 ELSE D[p]]
        /\ C' = [p \in Payments |-> IF Recipient[p] \in A THEN 0 ELSE C[p]]
        /\ (drops > 0)' = (drops > 0)
    BY DEF L!Forget
  <2> HIDE DEF D, C
  <2>2. Forgot("commDebit", Sender, A) /\ Forgot("commCredit", Recipient, A)
    BY <1>1, <2>1 DEF Forgot
  <2>3. QED
    BY <2>1, <2>2 DEF LedgerMove
<1>6. CASE \E p \in Payments : L!Debit(p)
  <2> PICK p \in Payments : L!Debit(p)
    BY <1>6
  <2>1. /\ D[p] = 0 \/ drops > 0
        /\ D' = [D EXCEPT ![p] = @ + 1] /\ C' = C
        /\ balance' = [balance EXCEPT ![Sender[p]] = @ - Amount[p]]
        /\ (drops > 0)' = (drops > 0)
    BY DEF L!Debit
  <2> HIDE DEF D, C
  <2>2. OnceMore(p, "commDebit") /\ Same("commCredit")
    BY <1>1, <1>2, <2>1 DEF OnceMore, Same
  <2>3. QED
    BY <1>1, <2>1, <2>2 DEF LedgerMove
<1>7. CASE \E p \in Payments : L!Credit(p)
  <2> PICK p \in Payments : L!Credit(p)
    BY <1>7
  <2>1. /\ C' = [C EXCEPT ![p] = @ + 1] /\ D' = D
        /\ balance' = [balance EXCEPT ![Recipient[p]] = @ + Amount[p]]
        /\ (drops > 0)' = (drops > 0)
    BY DEF L!Credit
  <2> HIDE DEF D, C
  <2>2. OnceMore(p, "commCredit") /\ Same("commDebit")
    BY <1>1, <1>2, <2>1 DEF OnceMore, Same
  <2>3. QED
    BY <2>1, <2>2 DEF LedgerMove
<1>8. QED
  BY <1>3, <1>4, <1>5, <1>6, <1>7 DEF L!Next

(* What a ledger implies.  Without a lost answer no payment is debited     *)
(* twice, whatever times out and whoever dies and is started again: the    *)
(* transaction id protects a retry although the banks never look at it.    *)
THEOREM DebitedOnceUnlessLost == Spec => [](drops = 0 => DebitedAtMostOnce)
<1> DEFINE Once == ~(drops > 0) => \A p \in Payments : Times(p, "commDebit") \in 0 .. 1
<1>1. Init => Once
  <2>1. Init => L!Init
    BY LedgerStart
  <2>2. QED
    BY <2>1 DEF L!Init
<1>2. Once /\ [L!Next]_(L!vars) => Once'
  <2> SUFFICES ASSUME Once, [L!Next]_(L!vars), ~(drops > 0)', NEW q \in Payments
               PROVE  Times(q, "commDebit")' \in 0 .. 1
    OBVIOUS
  <2>1. LedgerMove /\ ~(drops > 0)
    BY LedgerMoves
  <2>2. Times(q, "commDebit") \in 0 .. 1
    BY <2>1
  <2>3. QED
    BY <2>1, <2>2 DEF LedgerMove, Same, OnceMore, Forgot
<1>3. Spec => [][L!Next]_(L!vars)
  BY MoneyIsALedger, PTL DEF RefinesLedger, L!Spec
<1>4. drops \in Nat /\ Once => (drops = 0 => DebitedAtMostOnce)
  BY DEF DebitedAtMostOnce
<1>5. TypeInv => drops \in Nat
  BY DEF TypeInv, TypeOK, GatewayTypeOK
<1> HIDE DEF Once
<1>6. QED
  BY <1>1, <1>2, <1>3, <1>4, <1>5, LockInvHolds, PTL DEF Spec, LockInv
-------------------------------------------------------------------------------
(* Sums over payments.                                                     *)
LEMMA SumOverIsTotal ==
  ASSUME NEW S, IsFiniteSet(S), NEW w, \A x \in S : w[x] \in Nat
  PROVE  \E f \in [SUBSET S -> Nat] : IsTotal(f, w, S) /\ SumOver(S, w) = f[S]
<1> DEFINE g == CHOOSE h : IsTotal(h, w, S)
<1>1. PICK f \in [SUBSET S -> Nat] : IsTotal(f, w, S)
  BY TotalExists
<1>2. IsTotal(g, w, S)
  BY <1>1
<1>3. SumOver(S, w) = g[S]
  BY Zenon DEF SumOver, MapThenSumSet, MapThenFoldSet, IsTotal, Chosen
<1> HIDE DEF g
<1>4. \A s \in SUBSET S : f[s] = g[s]
  BY <1>1, <1>2, TotalsAgree
<1>5. QED
  BY <1>1, <1>3, <1>4

LEMMA SumOverNat ==
  ASSUME NEW S, IsFiniteSet(S), NEW w, \A x \in S : w[x] \in Nat
  PROVE  SumOver(S, w) \in Nat
<1>1. PICK f \in [SUBSET S -> Nat] : SumOver(S, w) = f[S]
  BY SumOverIsTotal
<1>2. QED
  BY <1>1

LEMMA SumOverSame ==
  ASSUME NEW S, IsFiniteSet(S), NEW w, NEW v, \A x \in S : v[x] \in Nat /\ w[x] = v[x]
  PROVE  SumOver(S, w) = SumOver(S, v)
<1>1. \A x \in S : v[x] \in Nat /\ w[x] \in Nat /\ v[x] = w[x]
  OBVIOUS
<1>2. PICK f \in [SUBSET S -> Nat] : IsTotal(f, w, S) /\ SumOver(S, w) = f[S]
  BY <1>1, SumOverIsTotal
<1>3. PICK g \in [SUBSET S -> Nat] : IsTotal(g, v, S) /\ SumOver(S, v) = g[S]
  BY <1>1, SumOverIsTotal
<1>4. f[S] = g[S]
  BY <1>1, <1>2, <1>3, TotalsOfSameNumbers
<1>5. QED
  BY <1>2, <1>3, <1>4

LEMMA SumOverAdds ==
  ASSUME NEW S, IsFiniteSet(S), NEW w, \A x \in S : w[x] \in Nat, NEW p, p \notin S, w[p] \in Nat
  PROVE  SumOver(S \union {p}, w) = SumOver(S, w) + w[p]
<1> DEFINE T == S \union {p}
<1>1. IsFiniteSet(T) /\ S \in SUBSET T /\ p \in T \ S /\ \A x \in T : w[x] \in Nat
  BY FS_AddElement
<1> HIDE DEF T
<1>2. PICK f \in [SUBSET T -> Nat] : IsTotal(f, w, T) /\ SumOver(T, w) = f[T]
  BY <1>1, SumOverIsTotal
<1>3. PICK g \in [SUBSET S -> Nat] : IsTotal(g, w, S) /\ SumOver(S, w) = g[S]
  BY SumOverIsTotal
<1>4. \A s \in SUBSET S : f[s] = g[s]
  BY <1>1, <1>2, <1>3, TotalsAgree
<1>5. AddsUp(f, w, T)
  BY <1>1, <1>2, TotalAdds
<1>6. f[S \union {p}] = f[S] + w[p] /\ f[S] = g[S]
  BY <1>1, <1>4, <1>5 DEF AddsUp
<1>7. QED
  BY <1>2, <1>3, <1>6 DEF T

LEMMA SumOverGrows ==
  ASSUME NEW S, IsFiniteSet(S), NEW w, NEW v, NEW p \in S,
         \A x \in S : w[x] \in Nat /\ v[x] \in Nat, \A x \in S \ {p} : v[x] = w[x]
  PROVE  SumOver(S, v) + w[p] = SumOver(S, w) + v[p]
<1> DEFINE R == S \ {p}
<1>1. /\ IsFiniteSet(R) /\ p \notin R /\ S = R \union {p}
      /\ \A x \in R : w[x] \in Nat /\ v[x] \in Nat /\ v[x] = w[x]
  BY FS_Subset
<1>2. w[p] \in Nat /\ v[p] \in Nat
  OBVIOUS
<1> HIDE DEF R
<1>3. SumOver(R \union {p}, w) = SumOver(R, w) + w[p]
  BY <1>1, <1>2, SumOverAdds
<1>4. SumOver(R \union {p}, v) = SumOver(R, v) + v[p]
  BY <1>1, <1>2, SumOverAdds
<1>5. SumOver(R, v) = SumOver(R, w) /\ SumOver(R, w) \in Nat
  BY <1>1, SumOverSame, SumOverNat
<1>6. QED
  BY <1>1, <1>2, <1>3, <1>4, <1>5

LEMMA SumOverNothing ==
  ASSUME NEW S, IsFiniteSet(S), NEW w, \A x \in S : w[x] = 0
  PROVE  SumOver(S, w) = 0
<1>1. \A x \in S : w[x] \in Nat
  OBVIOUS
<1>2. PICK f \in [SUBSET S -> Nat] : IsTotal(f, w, S) /\ SumOver(S, w) = f[S]
  BY <1>1, SumOverIsTotal
<1>3. QED
  BY <1>2, TotalOfNothing
-------------------------------------------------------------------------------
(* The amount of a payment is added to a sum where it belongs.             *)
LEMMA AmountAdds ==
  ASSUME IsFiniteSet(Payments), NEW S \in SUBSET Payments, NEW p \in Payments, NEW w, NEW v,
         \A q \in Payments : w[q] \in Nat /\ v[q] = IF q = p THEN w[q] + Amount[q] ELSE w[q]
  PROVE  SumOver(S, v) = SumOver(S, w) + (IF p \in S THEN Amount[p] ELSE 0)
<1>1. IsFiniteSet(S) /\ Amount[p] \in Nat
  BY FS_Subset, BankAssumption DEF BankAssumption
<1>2. \A q \in S : w[q] \in Nat
  OBVIOUS
<1>3. SumOver(S, w) \in Nat
  BY <1>1, <1>2, SumOverNat
<1>4. CASE p \in S
  <2>1. /\ \A q \in S : w[q] \in Nat /\ v[q] \in Nat
        /\ \A q \in S \ {p} : v[q] = w[q]
        /\ v[p] = w[p] + Amount[p] /\ w[p] \in Nat
    BY <1>1
  <2>2. SumOver(S, v) + w[p] = SumOver(S, w) + v[p]
    BY <1>1, <1>4, <2>1, SumOverGrows
  <2>3. SumOver(S, v) \in Nat
    BY <1>1, <2>1, SumOverNat
  <2>4. QED
    BY <1>1, <1>3, <1>4, <2>1, <2>2, <2>3
<1>5. CASE p \notin S
  <2>1. \A q \in S : w[q] \in Nat /\ v[q] = w[q]
    BY <1>5
  <2>2. SumOver(S, v) = SumOver(S, w)
    BY <1>1, <2>1, SumOverSame
  <2>3. QED
    BY <1>3, <1>5, <2>2
<1>6. QED
  BY <1>4, <1>5

(* What the payments of an account have booked.                            *)
By(a) == {p \in Payments : Sender[p] = a}
To(a) == {p \in Payments : Recipient[p] = a}

LEMMA BookedTypes ==
  ASSUME NEW k
  PROVE  /\ \A p \in Payments : /\ Booked(k)[p] = Amount[p] * Times(p, k)
                                /\ Booked(k)[p] \in Nat /\ Times(p, k) \in Nat
         /\ \A p \in Payments : Booked(k)'[p] = Amount[p] * Times(p, k)'
<1>1. \A p \in Payments : Times(p, k) \in Nat /\ Amount[p] \in Nat
  BY TimesDone, BankAssumption DEF BankAssumption
<1>2. QED
  BY <1>1 DEF Booked

LEMMA BookedMoves ==
  ASSUME NEW k
  PROVE  /\ Same(k) => \A q \in Payments : Booked(k)'[q] = Booked(k)[q]
         /\ \A p : OnceMore(p, k) => \A q \in Payments :
              Booked(k)'[q] = IF q = p THEN Booked(k)[q] + Amount[q] ELSE Booked(k)[q]
         /\ \A who, A : Forgot(k, who, A) => \A q \in Payments :
              Booked(k)'[q] = IF who[q] \in A THEN 0 ELSE Booked(k)[q]
<1>1. \A q \in Payments : Amount[q] \in Nat /\ Times(q, k) \in Nat
  BY TimesDone, BankAssumption DEF BankAssumption
<1>2. \A q \in Payments : /\ Amount[q] * (Times(q, k) + 1) = Amount[q] * Times(q, k) + Amount[q]
                          /\ Amount[q] * 0 = 0
  BY <1>1
<1>3. Same(k) => \A q \in Payments : Booked(k)'[q] = Booked(k)[q]
  BY BookedTypes DEF Same
<1>4. ASSUME NEW p, OnceMore(p, k), NEW q \in Payments
      PROVE  Booked(k)'[q] = IF q = p THEN Booked(k)[q] + Amount[q] ELSE Booked(k)[q]
  BY <1>2, <1>4, BookedTypes DEF OnceMore
<1>5. ASSUME NEW who, NEW A, Forgot(k, who, A), NEW q \in Payments
      PROVE  Booked(k)'[q] = IF who[q] \in A THEN 0 ELSE Booked(k)[q]
  BY <1>2, <1>5, BookedTypes DEF Forgot
<1>6. QED
  BY <1>3, <1>4, <1>5

LEMMA BookedNext ==
  ASSUME IsFiniteSet(Payments), TypeInv, BalanceIsBooked, LedgerMove
  PROVE  BalanceIsBooked'
<1> DEFINE out == Booked("commDebit")
           in == Booked("commCredit")
<1> SUFFICES ASSUME NEW a \in Customers
             PROVE  balance'[a] + SumOver(By(a), out') = InitialBalance[a] + SumOver(To(a), in')
  BY DEF BalanceIsBooked, By, To
<1>1. balance[a] + SumOver(By(a), out) = InitialBalance[a] + SumOver(To(a), in)
  BY DEF BalanceIsBooked, By, To
<1>2. /\ balance \in [Customers -> Int] /\ InitialBalance[a] \in Nat
      /\ \A p \in Payments : Amount[p] \in Nat
  BY BankAssumption DEF BankAssumption, TypeInv, TypeOK, BankTypeOK
<1>3. By(a) \in SUBSET Payments /\ To(a) \in SUBSET Payments
  BY DEF By, To
<1>4. IsFiniteSet(By(a)) /\ IsFiniteSet(To(a))
  BY <1>3, FS_Subset
<1>5. \A p \in Payments : out[p] \in Nat /\ in[p] \in Nat
  BY BookedTypes
<1>6. /\ \A p \in Payments : Sender[p] = a <=> p \in By(a)
      /\ \A p \in Payments : Recipient[p] = a <=> p \in To(a)
  BY DEF By, To
<1>7. SumOver(By(a), out) \in Nat /\ SumOver(To(a), in) \in Nat
  BY <1>3, <1>4, <1>5, SumOverNat
<1>8. Same("commDebit") => SumOver(By(a), out') = SumOver(By(a), out)
  <2> SUFFICES ASSUME Same("commDebit") PROVE SumOver(By(a), out') = SumOver(By(a), out)
    OBVIOUS
  <2>1. \A p \in By(a) : out[p] \in Nat /\ out'[p] = out[p]
    BY <1>3, <1>5, BookedMoves
  <2> HIDE DEF out
  <2>2. QED
    BY <1>4, <2>1, SumOverSame
<1>9. Same("commCredit") => SumOver(To(a), in') = SumOver(To(a), in)
  <2> SUFFICES ASSUME Same("commCredit") PROVE SumOver(To(a), in') = SumOver(To(a), in)
    OBVIOUS
  <2>1. \A p \in To(a) : in[p] \in Nat /\ in'[p] = in[p]
    BY <1>3, <1>5, BookedMoves
  <2> HIDE DEF in
  <2>2. QED
    BY <1>4, <2>1, SumOverSame
<1>10. CASE balance' = balance /\ Same("commDebit") /\ Same("commCredit")
  BY <1>1, <1>8, <1>9, <1>10
<1>11. ASSUME NEW p \in Payments, OnceMore(p, "commDebit"), Same("commCredit"),
              balance' = [balance EXCEPT ![Sender[p]] = @ - Amount[p]]
       PROVE  balance'[a] + SumOver(By(a), out') = InitialBalance[a] + SumOver(To(a), in')
  <2>1. \A q \in Payments : out[q] \in Nat /\ out'[q] = IF q = p THEN out[q] + Amount[q] ELSE out[q]
    BY <1>5, <1>11, BookedMoves
  <2>2. balance'[a] = balance[a] - IF p \in By(a) THEN Amount[p] ELSE 0
    BY <1>2, <1>6, <1>11
  <2> HIDE DEF out, in
  <2>3. SumOver(By(a), out') = SumOver(By(a), out) + (IF p \in By(a) THEN Amount[p] ELSE 0)
    BY <1>3, <2>1, AmountAdds
  <2>4. QED
    BY <1>1, <1>2, <1>7, <1>9, <1>11, <2>2, <2>3
<1>12. ASSUME NEW p \in Payments, OnceMore(p, "commCredit"), Same("commDebit"),
              balance' = [balance EXCEPT ![Recipient[p]] = @ + Amount[p]]
       PROVE  balance'[a] + SumOver(By(a), out') = InitialBalance[a] + SumOver(To(a), in')
  <2>1. \A q \in Payments : in[q] \in Nat /\ in'[q] = IF q = p THEN in[q] + Amount[q] ELSE in[q]
    BY <1>5, <1>12, BookedMoves
  <2>2. balance'[a] = balance[a] + IF p \in To(a) THEN Amount[p] ELSE 0
    BY <1>2, <1>6, <1>12
  <2> HIDE DEF out, in
  <2>3. SumOver(To(a), in') = SumOver(To(a), in) + (IF p \in To(a) THEN Amount[p] ELSE 0)
    BY <1>3, <2>1, AmountAdds
  <2>4. QED
    BY <1>1, <1>2, <1>7, <1>8, <1>12, <2>2, <2>3
<1>13. ASSUME NEW A \in SUBSET Customers,
              Forgot("commDebit", Sender, A), Forgot("commCredit", Recipient, A),
              balance' = [b \in Customers |-> IF b \in A THEN InitialBalance[b] ELSE balance[b]]
       PROVE  balance'[a] + SumOver(By(a), out') = InitialBalance[a] + SumOver(To(a), in')
  <2>1. /\ \A q \in Payments : out'[q] = IF Sender[q] \in A THEN 0 ELSE out[q]
        /\ \A q \in Payments : in'[q] = IF Recipient[q] \in A THEN 0 ELSE in[q]
    BY <1>13, BookedMoves
  <2> HIDE DEF out, in
  <2>2. CASE a \in A
    <3>1. (\A q \in By(a) : out'[q] = 0) /\ (\A q \in To(a) : in'[q] = 0)
      BY <1>3, <1>6, <2>1, <2>2
    <3>2. SumOver(By(a), out') = 0 /\ SumOver(To(a), in') = 0
      BY <1>4, <3>1, SumOverNothing
    <3>3. QED
      BY <1>2, <1>13, <2>2, <3>2
  <2>3. CASE a \notin A
    <3>1. /\ \A q \in By(a) : out[q] \in Nat /\ out'[q] = out[q]
          /\ \A q \in To(a) : in[q] \in Nat /\ in'[q] = in[q]
      BY <1>3, <1>5, <1>6, <2>1, <2>3
    <3>2. SumOver(By(a), out') = SumOver(By(a), out) /\ SumOver(To(a), in') = SumOver(To(a), in)
      BY <1>4, <3>1, SumOverSame
    <3>3. QED
      BY <1>1, <1>13, <2>3, <3>2
  <2>4. QED
    BY <2>2, <2>3
<1>14. QED
  BY <1>10, <1>11, <1>12, <1>13 DEF LedgerMove

(* Every unit of a balance is explained by debits and credits, for any     *)
(* number of accounts, payments, retries and faults.                       *)
THEOREM BalancesAreBooked ==
  ASSUME IsFiniteSet(Payments)
  PROVE  Spec => []BalanceIsBooked
<1>1. Init => BalanceIsBooked
  <2> SUFFICES ASSUME Init, NEW a \in Customers
               PROVE  balance[a] + SumOver(By(a), Booked("commDebit"))
                        = InitialBalance[a] + SumOver(To(a), Booked("commCredit"))
    BY DEF BalanceIsBooked, By, To
  <2>1. \A p \in Payments : Times(p, "commDebit") = 0 /\ Times(p, "commCredit") = 0
    BY LedgerStart DEF L!Init
  <2>2. \A p \in Payments : Booked("commDebit")[p] = 0 /\ Booked("commCredit")[p] = 0
    BY <2>1, BookedTypes, BankAssumption DEF BankAssumption
  <2>3. /\ IsFiniteSet(By(a)) /\ By(a) \subseteq Payments
        /\ IsFiniteSet(To(a)) /\ To(a) \subseteq Payments
    BY FS_Subset DEF By, To
  <2>4. SumOver(By(a), Booked("commDebit")) = 0 /\ SumOver(To(a), Booked("commCredit")) = 0
    BY <2>2, <2>3, SumOverNothing
  <2>5. QED
    BY <2>4 DEF Init, BankInit
<1>2. TypeInv /\ BalanceIsBooked /\ [L!Next]_(L!vars) => BalanceIsBooked'
  BY LedgerMoves, BookedNext
<1>3. Spec => [][L!Next]_(L!vars)
  BY MoneyIsALedger, PTL DEF RefinesLedger, L!Spec
<1>4. QED
  BY <1>1, <1>2, <1>3, LockInvHolds, PTL DEF Spec, LockInv
-------------------------------------------------------------------------------
(* A commit's two checks panic.  A credit passes both, and a debit finds   *)
(* its lock, so the one thing that takes a bank down is a debit whose      *)
(* cover another one has taken between its prepare's check and its lock.   *)
THEOREM PanicsAreDebits == Spec => OnlyDebitsPanic
<1>1. CommitFindsLock
        => \A c \in Calls : CommitPanic(c) => c[3] = "commDebit" /\ rpc[c] = "sent"
  <2> SUFFICES ASSUME CommitFindsLock, NEW c \in Calls, CommitPanic(c)
               PROVE  c[3] = "commDebit" /\ rpc[c] = "sent"
    OBVIOUS
  <2>1. c[3] \in CommitKinds /\ AccountOf(c) \in Customers /\ isLocked[AccountOf(c)]
    BY DEF CommitPanic, CommitFindsLock
  <2>2. rpc[c] = "sent" /\ ~RequestValid(c)
    BY <2>1 DEF CommitPanic, CommitCheckFails
  <2>3. IsDebit(c)
    BY <2>1, <2>2 DEF RequestValid
  <2>4. QED
    BY <2>1, <2>2, <2>3 DEF IsDebit, CommitKinds
<1>2. QED
  BY <1>1, CommitsFindTheirLock, PTL DEF OnlyDebitsPanic
===============================================================================
