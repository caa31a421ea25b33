------------------------- MODULE PaymentSessionProofs -------------------------
(***************************************************************************)
(* Theorems about a whole session.  Seen from the servers a session is a   *)
(* behaviour of PaymentSystem, seen from the offline queue a behaviour of  *)
(* OfflineQueue, so that what is proved of the parts holds of the whole.   *)
(***************************************************************************)
EXTENDS PaymentSession, PaymentLedgerProofs, RecursionTheorems

(* Before the user is logged in the menu has not been reached.             *)
LoginFirst == loggedIn \/ menu \in {"ready", "exited"}
-------------------------------------------------------------------------------
(* Every step of a session is one of the payment system or leaves it       *)
(* alone: an enquiry changes nothing there except by its panic.            *)
LEMMA SessionStep ==
  ASSUME [SessionNext]_sessionVars
  PROVE  [Next]_vars
<1>1. CASE UNCHANGED sessionVars
  BY <1>1 DEF sessionVars
<1>2. CASE Login
  BY <1>2 DEF Login
<1>3. CASE ServerStep
  <2>1. CASE \E e \in Enquiries : EnquiryPanic(e)
    <3>1. GatewayCrash /\ UNCHANGED clientVars
      BY <2>1 DEF EnquiryPanic, GatewayCrash
    <3>2. QED
      BY <3>1 DEF Next, GatewayStep
  <2>2. QED
    BY <1>3, <2>1 DEF ServerStep, Next
<1>4. CASE QueueStep
  BY <1>4 DEF QueueStep, AfterReturn
<1>5. CASE \E p \in Payments : PaymentStep(p) \/ PaymentDeadline(p)
  BY <1>5 DEF PaymentStep, PaymentDeadline, Next, ClientStep
<1>6. CASE \E e \in Enquiries : EnquiryStep(e) \/ EnquiryDeadline(e)
  BY <1>6 DEF EnquiryStep, EnquiryDeadline, AskBalance, AskInVain, AuthEnquiry, GetBalance,
     CheckBalance, EnquiryReturns, enquiryOnly
<1>7. QED
  BY <1>1, <1>2, <1>3, <1>4, <1>5, <1>6 DEF SessionNext

(* A session implements the payment system.                                *)
THEOREM SessionIsPaymentSystem == SessionSpec => Spec
<1>1. SessionInit => Init
  BY DEF SessionInit
<1>2. [SessionNext]_sessionVars => [Next]_vars
  BY SessionStep
<1>3. QED
  BY <1>1, <1>2, PTL DEF SessionSpec, Spec

(* In a session no account is overdrawn, whatever the menu and the queue   *)
(* send at the same time.                                                  *)
THEOREM SessionNeverOverdraws == SessionSpec => []NonNegativeBalance
  BY SessionIsPaymentSystem, NeverOverdrawn, PTL

(* In a session a commit always finds its account locked.                  *)
THEOREM SessionCommitsFindTheirLock == SessionSpec => []CommitFindsLock
  BY SessionIsPaymentSystem, CommitsFindTheirLock, PTL
-------------------------------------------------------------------------------
(* A step that is not one of the queue leaves its variables alone, except  *)
(* that the login may end the program.                                     *)
LEMMA QueueStepOrNot ==
  ASSUME LoginFirst, [SessionNext]_sessionVars
  PROVE  [Q!Next]_(Q!queueVars)
<1> USE DEF queueVars, Q!queueVars
<1>1. CASE UNCHANGED sessionVars
  BY <1>1 DEF sessionVars
<1>2. CASE Login
  <2>1. CASE menu' = menu
    BY <1>2, <2>1 DEF Login
  <2>2. CASE menu' # menu
    <3>1. menu = "ready" /\ menu' = "exited"
      BY <1>2, <2>2 DEF Login, Authenticated, NotAuthenticated, LoginFirst
    <3>2. Q!Exit
      BY <1>2, <3>1 DEF Login, Q!Exit, Q!timeVars, Q!consumerVars
    <3>3. QED
      BY <3>2 DEF Q!Next
  <2>3. QED
    BY <2>1, <2>2
<1>3. CASE ServerStep
  BY <1>3 DEF ServerStep
<1>4. CASE QueueStep
  BY <1>4 DEF QueueStep
<1>5. CASE \E p \in Payments : PaymentStep(p) \/ PaymentDeadline(p)
  BY <1>5 DEF PaymentStep, PaymentDeadline
<1>6. CASE \E e \in Enquiries : EnquiryStep(e) \/ EnquiryDeadline(e)
  BY <1>6 DEF EnquiryStep, EnquiryDeadline, AskBalance, AskInVain, AuthEnquiry, GetBalance,
     CheckBalance, EnquiryReturns, enquiryOnly
<1>7. QED
  BY <1>1, <1>2, <1>3, <1>4, <1>5, <1>6 DEF SessionNext

(* The queue's steps come after the login.                                 *)
LEMMA LoginFirstStep ==
  ASSUME LoginFirst, [SessionNext]_sessionVars
  PROVE  LoginFirst'
<1> USE DEF LoginFirst, loginVars, queueVars
<1>1. CASE UNCHANGED sessionVars
  BY <1>1 DEF sessionVars
<1>2. CASE Login
  BY <1>2 DEF Login, Authenticated, NotAuthenticated
<1>3. CASE ServerStep
  BY <1>3 DEF ServerStep
<1>4. CASE QueueStep
  BY <1>4 DEF QueueStep, AfterReturn
<1>5. CASE \E p \in Payments : PaymentStep(p) \/ PaymentDeadline(p)
  BY <1>5 DEF PaymentStep, PaymentDeadline
<1>6. CASE \E e \in Enquiries : EnquiryStep(e) \/ EnquiryDeadline(e)
  BY <1>6 DEF EnquiryStep, EnquiryDeadline, AskBalance, AskInVain, AuthEnquiry, GetBalance,
     CheckBalance, EnquiryReturns, enquiryOnly
<1>7. QED
  BY <1>1, <1>2, <1>3, <1>4, <1>5, <1>6 DEF SessionNext

(* A session implements the offline queue, so that nothing the user enters *)
(* is sent twice by menu and queue (OfflineProofs).                        *)
THEOREM SessionIsOfflineQueue == SessionSpec => Q!Spec
<1>1. SessionInit => Q!Init /\ LoginFirst
  BY DEF SessionInit, LoginFirst, Q!Init
<1>2. LoginFirst /\ [SessionNext]_sessionVars => [Q!Next]_(Q!queueVars)
  BY QueueStepOrNot
<1>3. LoginFirst /\ [SessionNext]_sessionVars => LoginFirst'
  BY LoginFirstStep
<1>4. QED
  BY <1>1, <1>2, <1>3, PTL DEF SessionSpec, Q!Spec
-------------------------------------------------------------------------------
(* What the types of a session rest on: an attempt is begun only while     *)
(* some are left, and so is one more login.                                *)
SessionTypeInv ==
  /\ SessionTypeOK
  /\ \A e \in Enquiries : enquiry[e] = "new" => asked[e] = 0
  /\ \A e \in Enquiries : enquiry[e] = "backoff" => asked[e] < MaxRetries
  /\ ~loggedIn /\ menu # "exited" => logins < MaxLoginAttempts

LEMMA SessionTypeInit == SessionInit => SessionTypeInv
<1> SUFFICES ASSUME SessionInit PROVE SessionTypeInv
  OBVIOUS
<1>1. MaxRetries \in Nat \ {0} /\ MaxLoginAttempts \in Nat \ {0}
  BY BankAssumption, SessionAssumption DEF BankAssumption, SessionAssumption
<1>2. /\ enquiry \in [Enquiries -> EnquiryStates] /\ asked \in [Enquiries -> 0 .. MaxRetries]
      /\ shown \in [Enquiries -> Int] /\ known \in [Enquiries -> SUBSET Payments]
  BY <1>1 DEF SessionInit, LoginInit, EnquiryStates
<1>3. loggedIn \in BOOLEAN
  BY Zenon DEF SessionInit, LoginInit
<1>4. logins = 0 /\ \A e \in Enquiries : enquiry[e] = "new" /\ asked[e] = 0
  BY DEF SessionInit, LoginInit
<1>5. logins \in 0 .. MaxLoginAttempts /\ logins < MaxLoginAttempts
  BY <1>1, <1>4
<1>6. QED
  BY <1>2, <1>3, <1>4, <1>5 DEF SessionTypeInv, SessionTypeOK

(* The steps of the login, of the servers and of the queue.                *)
LEMMA SessionTypeOthers ==
  ASSUME SessionTypeInv, Login \/ ServerStep \/ QueueStep
  PROVE  SessionTypeInv'
<1> USE DEF SessionTypeInv, SessionTypeOK
<1>1. CASE Login
  <2>1. UNCHANGED enquiryVars /\ ~loggedIn /\ menu # "exited"
    BY <1>1 DEF Login
  <2>2. MaxLoginAttempts \in Nat
    BY SessionAssumption DEF SessionAssumption
  <2>3. /\ logins' \in 0 .. MaxLoginAttempts /\ loggedIn' \in BOOLEAN
        /\ ~loggedIn' /\ menu' # "exited" => logins' < MaxLoginAttempts
    <3>1. CASE Authenticated
      BY <2>1, <2>2, <3>1 DEF Authenticated
    <3>2. CASE NotAuthenticated
      BY <2>1, <2>2, <3>2 DEF NotAuthenticated
    <3>3. QED
      BY <1>1, <3>1, <3>2 DEF Login
  <2>4. QED
    BY <2>1, <2>3 DEF enquiryVars
<1>2. CASE ServerStep
  <2>1. UNCHANGED <<loggedIn, logins, menu, asked, shown, known>> /\ Disconnect
    BY <1>2 DEF ServerStep, Disconnect, queueVars, loginVars
  <2>2. /\ enquiry' \in [Enquiries -> EnquiryStates]
        /\ \A e \in Enquiries : enquiry'[e] \in {enquiry[e], "error"}
    BY <2>1 DEF Disconnect, EnquiryStates
  <2>3. QED
    BY <2>1, <2>2
<1>3. CASE QueueStep
  BY <1>3 DEF QueueStep, AfterReturn, enquiryVars, loginVars
<1>4. QED
  BY <1>1, <1>2, <1>3

(* The steps of an enquiry.                                                *)
LEMMA SessionTypeEnquiry ==
  ASSUME TypeInv, SessionTypeInv, NEW e \in Enquiries, EnquiryStep(e) \/ EnquiryDeadline(e)
  PROVE  SessionTypeInv'
<1> USE DEF SessionTypeInv, SessionTypeOK, EnquiryMoves, enquiryOnly, queueVars, loginVars
<1>1. MaxRetries \in Nat \ {0}
  BY BankAssumption DEF BankAssumption
<1>2. CASE AskBalance(e) \/ AskInVain(e)
  <2>1. known' \in [Enquiries -> SUBSET Payments]
    BY <1>2 DEF AskBalance, AskInVain
  <2>2. asked[e] + 1 \in 0 .. MaxRetries
    BY <1>1, <1>2 DEF AskBalance, AskInVain
  <2>3. QED
    BY <1>1, <1>2, <2>1, <2>2 DEF AskBalance, AskInVain, EnquiryStates, AtGateway, Shown
<1>3. CASE AuthEnquiry(e) \/ GetBalance(e)
  BY <1>3 DEF AuthEnquiry, GetBalance, SendCheckBalanceRequest, EnquiryStates, AtGateway
<1>4. CASE CheckBalance(e)
  <2>1. shown' \in [Enquiries -> Int]
    <3>1. User \in Customers => balance[User] \in Int
      BY DEF TypeInv, TypeOK, BankTypeOK
    <3>2. QED
      BY <1>4, <3>1 DEF CheckBalance
  <2>2. QED
    BY <1>4, <2>1 DEF CheckBalance, EnquiryStates, AtGateway
<1>5. CASE EnquiryReturns(e)
  BY <1>1, <1>5 DEF EnquiryReturns, EnquiryStates, Shown
<1>6. CASE EnquiryDeadline(e)
  BY <1>1, <1>6 DEF EnquiryDeadline, EnquiryStates, Shown
<1>7. QED
  BY <1>2, <1>3, <1>4, <1>5, <1>6 DEF EnquiryStep

LEMMA SessionTypeNext ==
  ASSUME TypeInv, SessionTypeInv, [SessionNext]_sessionVars
  PROVE  SessionTypeInv'
<1>1. UNCHANGED <<loginVars, queueVars, enquiryVars>> => SessionTypeInv'
  BY DEF loginVars, queueVars, enquiryVars, SessionTypeInv, SessionTypeOK
<1>2. CASE \E p \in Payments : PaymentStep(p) \/ PaymentDeadline(p)
  BY <1>1, <1>2 DEF PaymentStep, PaymentDeadline
<1>3. QED
  BY <1>1, <1>2, SessionTypeOthers, SessionTypeEnquiry DEF SessionNext, sessionVars

(* Every variable of a session keeps to its type: the interceptor makes at *)
(* most MaxRetries attempts at an enquiry, whatever ends each of them.     *)
THEOREM SessionTypeCorrect == SessionSpec => []SessionTypeOK
<1>1. SessionTypeInv => SessionTypeOK
  BY DEF SessionTypeInv
<1>2. Spec => []TypeInv
  BY LockInvHolds, PTL DEF LockInv
<1>3. QED
  BY <1>1, <1>2, SessionIsPaymentSystem, SessionTypeInit, SessionTypeNext, PTL DEF SessionSpec
-------------------------------------------------------------------------------
(* Sums of amounts.                                                        *)
SumOf(S) == SumOver(S, Amount)

LEMMA AmountsAreNumbers == \A p \in Payments : Amount[p] \in Nat
  BY BankAssumption DEF BankAssumption

(* What the proofs below use: a sum is a number, an element more adds its  *)
(* amount, and a part is no more than the whole.                           *)
LEMMA SumGrows ==
  ASSUME NEW T \in SUBSET Payments, IsFiniteSet(T), NEW x \in Payments, x \notin T
  PROVE  /\ SumOf(T) \in Nat
         /\ SumOf(T \union {x}) = SumOf(T) + Amount[x]
<1>1. Amount[x] \in Nat /\ \A y \in T : Amount[y] \in Nat
  BY AmountsAreNumbers
<1>2. QED
  BY <1>1, SumOverNat, SumOverAdds DEF SumOf

LEMMA SumNothing == SumOf({}) = 0
  BY FS_EmptySet, SumOverNothing DEF SumOf

LEMMA SumPart ==
  ASSUME NEW T \in SUBSET Payments, IsFiniteSet(T), NEW S \in SUBSET T
  PROVE  SumOf(S) \in Nat /\ SumOf(T) \in Nat /\ SumOf(S) <= SumOf(T)
<1> DEFINE I == {k \in Nat : \A t \in SUBSET T :
                   S \subseteq t /\ Cardinality(t) = k => SumOf(S) <= SumOf(t)}
<1>1. \A t \in SUBSET T : SumOf(t) \in Nat
  <2> SUFFICES ASSUME NEW t \in SUBSET T PROVE SumOf(t) \in Nat
    OBVIOUS
  <2>1. IsFiniteSet(t) /\ \A x \in t : Amount[x] \in Nat
    BY FS_Subset, AmountsAreNumbers
  <2>2. QED
    BY <2>1, SumOverNat DEF SumOf
<1>2. ASSUME NEW t \in SUBSET T, S \subseteq t,
             \A r \in SUBSET T : S \subseteq r /\ Cardinality(r) = Cardinality(t) - 1 =>
               SumOf(S) <= SumOf(r)
      PROVE  SumOf(S) <= SumOf(t)
  <2>1. CASE S = t
    BY <1>1, <2>1
  <2>2. CASE S # t
    <3>1. PICK x \in t : x \notin S
      BY <1>2, <2>2
    <3> DEFINE r == t \ {x}
    <3>2. r \in SUBSET T /\ S \subseteq r /\ Cardinality(r) = Cardinality(t) - 1 /\ x \notin r
      BY <1>2, <3>1, SmallerSets
    <3>3. IsFiniteSet(r) /\ x \in Payments /\ r \in SUBSET Payments /\ t = r \union {x}
      BY <3>2, SmallerSets
    <3>4. SumOf(S) <= SumOf(r)
      BY <1>2, <3>2
    <3> HIDE DEF r
    <3>5. SumOf(t) = SumOf(r) + Amount[x]
      BY <3>2, <3>3, SumGrows
    <3>6. Amount[x] \in Nat
      BY <3>3, BankAssumption DEF BankAssumption
    <3>7. QED
      BY <1>1, <3>2, <3>4, <3>5, <3>6
  <2>3. QED
    BY <2>1, <2>2
<1>3. 0 \in I
  <2> SUFFICES ASSUME NEW t \in SUBSET T, S \subseteq t, Cardinality(t) = 0
               PROVE  SumOf(S) <= SumOf(t)
    OBVIOUS
  <2>1. \A r \in SUBSET T : Cardinality(r) \in Nat
    BY SmallerSets
  <2>2. QED
    BY <1>2, <2>1
<1>4. ASSUME NEW k \in Nat, k \in I PROVE k + 1 \in I
  <2> SUFFICES ASSUME NEW t \in SUBSET T, S \subseteq t, Cardinality(t) = k + 1
               PROVE  SumOf(S) <= SumOf(t)
    OBVIOUS
  <2>1. \A r \in SUBSET T : S \subseteq r /\ Cardinality(r) = Cardinality(t) - 1 =>
          SumOf(S) <= SumOf(r)
    BY <1>4
  <2>2. QED
    BY <1>2, <2>1
<1>5. Nat \subseteq I
  <2> HIDE DEF I
  <2>1. QED
    BY <1>3, <1>4, SetInduction
<1>6. Cardinality(T) \in Nat
  BY FS_CardinalityType
<1>7. QED
  BY <1>1, <1>5, <1>6
-------------------------------------------------------------------------------
(* The sums as one value, which no step changes.                           *)
Sum == [S \in SUBSET Payments |-> SumOf(S)]

LEMMA SumConstant == Sum' = Sum
  BY Zenon DEF Sum, SumOf, SumOver, MapThenSumSet, MapThenFoldSet

LEMMA SumFacts ==
  ASSUME NEW T \in SUBSET Payments, IsFiniteSet(T)
  PROVE  /\ Sum[T] \in Nat
         /\ \A S \in SUBSET T : Sum[S] \in Nat /\ Sum[S] <= Sum[T]
         /\ \A x \in Payments \ T : Sum[T \union {x}] = Sum[T] + Amount[x]
<1>1. \A S \in SUBSET Payments : Sum[S] = SumOf(S)
  BY DEF Sum
<1>2. \A S \in SUBSET T : SumOf(S) \in Nat /\ SumOf(T) \in Nat /\ SumOf(S) <= SumOf(T)
  BY SumPart
<1>3. \A x \in Payments \ T : SumOf(T \union {x}) = SumOf(T) + Amount[x]
  BY SumGrows
<1>4. QED
  BY <1>1, <1>2, <1>3
-------------------------------------------------------------------------------
(* What a user is told.  A payment whose exchange has begun has two        *)
(* accounts, so that nothing is credited to the one who pays ...           *)
TwoAccounts ==
  \A h \in Handlers : Active(h) \/ Debiting(h) => Sender[h[1]] # Recipient[h[1]]

(* ... and the first attempt at a payment is answered "success" only when  *)
(* its debit has been applied, since no other attempt has begun it.        *)
FirstDebited(p) == rpc[<<p, 1, "commDebit">>] \in Effective \/ SomeGone

FirstReply(p) ==
  /\ attempt[p] <= 1 => /\ pc[<<p, 1>>] \in {"none", "arrived", "authorized"} =>
                             UserTransactions[p] = "absent"
                        /\ pc[<<p, 1>>] = "success" => FirstDebited(p)
  /\ client[p] = "success" /\ attempt[p] = 1 => FirstDebited(p)

(* The balance of the user is what it was at first without what has been   *)
(* debited, or less: a retry may have debited a payment again.             *)
Debited == {p \in Payments : Applied(p, "commDebit")}

Spent ==
  SomeGone \/ /\ IsFiniteSet(Debited)
              /\ User \in Customers => balance[User] <= InitialBalance[User] - Sum[Debited]

ToldInv == TwoAccounts /\ Spent /\ \A p \in Payments : FirstReply(p)

LEMMA TwoAccountsNext ==
  ASSUME LockInv, TwoAccounts, [Next]_vars
  PROVE  TwoAccounts'
<1> SUFFICES ASSUME NEW h \in Handlers, Active(h)' \/ Debiting(h)'
             PROVE  Sender[h[1]] # Recipient[h[1]]
  BY DEF TwoAccounts, Active, Debiting
<1>1. CASE Active(h) \/ Debiting(h)
  BY <1>1 DEF TwoAccounts
<1>2. CASE Active(h)' /\ ~Active(h)
  <2>1. BeginPayment(h)
    BY <1>2, ActiveMoves DEF LockInv
  <2>2. QED
    BY <2>1 DEF BeginPayment, Acceptable
<1>3. CASE Debiting(h)' /\ ~Debiting(h)
  BY <1>3, DebitBegins DEF TwoAccounts
<1>4. QED
  BY <1>1, <1>2, <1>3

(* What has been applied stays so, unless the bank loses its memory.       *)
LEMMA GoneForGood ==
  ASSUME LockInv, [Next]_vars
  PROVE  SomeGone => SomeGone'
<1> SUFFICES ASSUME NEW c \in Calls, rpc[c] = "gone" PROVE rpc'[c] = "gone"
  BY DEF SomeGone
<1>1. CallMove(c)
  BY CallMoves
<1>2. QED
  BY <1>1 DEF CallMove, HandlerMove, BankMove

LEMMA FirstDebitedStays ==
  ASSUME LockInv, [Next]_vars, NEW p \in Payments, FirstDebited(p)
  PROVE  FirstDebited(p)'
<1> DEFINE c == <<p, 1, "commDebit">>
<1>1. c \in Calls
  BY BankAssumption DEF BankAssumption, Calls, Attempts, Kinds, CommitKinds
<1>2. CallMove(c)
  BY <1>1, CallMoves
<1>3. rpc[c] \in Effective => rpc'[c] \in Effective \/ rpc'[c] = "gone"
  <2>1. c[3] \in CommitKinds
    BY DEF CommitKinds
  <2>2. QED
    BY <1>2, <2>1 DEF CallMove, HandlerMove, BankMove, Effective
<1>4. QED
  BY <1>1, <1>3, GoneForGood DEF FirstDebited, SomeGone

LEMMA FirstReplyHandler ==
  ASSUME LockInv, OrphanInv, NEW p \in Payments, FirstReply(p),
         FirstDebited(p) => FirstDebited(p)', NEW g \in Handlers, GatewayHandler(g),
         UNCHANGED clientVars
  PROVE  FirstReply(p)'
<1> USE DEF LockInv, TypeInv, TypeOK, GatewayTypeOK
<1> DEFINE h == <<p, 1>>
<1>1. h \in Handlers /\ MaxRetries \in Nat \ {0}
  BY BankAssumption DEF BankAssumption, Handlers, Attempts
<1>2. /\ g[1] \in Payments /\ g[2] \in Attempts /\ g = <<g[1], g[2]>>
      /\ attempt' = attempt /\ client' = client /\ attempt[p] \in 0 .. MaxRetries
  BY HandlerParts DEF clientVars, ClientTypeOK
<1>3. SUFFICES ASSUME attempt[p] <= 1
               PROVE  /\ pc'[h] \in {"none", "arrived", "authorized"} =>
                           UserTransactions'[p] = "absent"
                      /\ pc'[h] = "success" => FirstDebited(p)'
  BY <1>2 DEF FirstReply
<1>4. CASE pc'[h] = pc[h] /\ UserTransactions'[p] = UserTransactions[p]
  BY <1>3, <1>4 DEF FirstReply
<1>5. CASE ~(pc'[h] = pc[h] /\ UserTransactions'[p] = UserTransactions[p])
  <2>1. g[1] = p
    BY <1>1, <1>2, <1>5 DEF GatewayHandler, AuthOk, AuthReject, RejectPayment, ReplayStatus,
       BeginPayment, PrepDebitOk, PrepDebitFail, PrepCreditOk, PrepCreditFail, ReleaseDone,
       CommDebitOk, CommCreditOk, CommitFail, TokenPanic, GatewayDies, Leave, UpdateTransaction
  <2>2. pc[g] # "none"
    BY DEF GatewayHandler, AuthOk, AuthReject, RejectPayment, ReplayStatus,
       BeginPayment, PrepDebitOk, PrepDebitFail, PrepCreditOk, PrepCreditFail, ReleaseDone,
       CommDebitOk, CommCreditOk, CommitFail, TokenPanic, Leave, CommitKinds
  <2>3. g = h
    <3>1. ~(g[2] > attempt[p])
      BY <1>2, <2>1, <2>2 DEF ExchangeInv, UnusedAttempts
    <3>2. g[2] = 1
      BY <1>2, <1>3, <3>1 DEF Attempts
    <3>3. QED
      BY <1>2, <2>1, <3>2
  <2>4. CASE AuthOk(g) \/ AuthReject(g) \/ RejectPayment(g) \/ TokenPanic(g)
    BY <1>1, <1>3, <2>3, <2>4 DEF AuthOk, AuthReject, RejectPayment, TokenPanic, GatewayDies,
       Leave, FirstReply
  <2>5. CASE ReplayStatus(g)
    BY <1>3, <2>1, <2>3, <2>5 DEF ReplayStatus, Leave, FirstReply
  <2>6. CASE CommCreditOk(g)
    <3>1. pc[g] = "commCredit" /\ pc'[g] = "success"
      BY <1>1, <2>3, <2>6 DEF CommCreditOk, Leave
    <3>2. rpc[Call(g, "commDebit")] = "ok"
      BY <3>1 DEF OrphanInv, Attended, UnlocksAwaited
    <3>3. FirstDebited(p)
      BY <2>3, <3>2 DEF FirstDebited, Effective, Call
    <3>4. QED
      BY <2>3, <3>1, <3>3
  <2>7. CASE \/ BeginPayment(g) \/ PrepDebitOk(g) \/ PrepDebitFail(g) \/ PrepCreditOk(g)
             \/ PrepCreditFail(g) \/ ReleaseDone(g) \/ CommDebitOk(g)
             \/ \E k \in CommitKinds : CommitFail(g, k)
    <3>1. pc'[h] \notin {"none", "arrived", "authorized", "success"}
      BY <1>1, <2>3, <2>7 DEF BeginPayment, PrepDebitOk, PrepDebitFail, PrepCreditOk,
         PrepCreditFail, ReleaseDone, CommDebitOk, CommitFail, Leave
    <3>2. QED
      BY <3>1
  <2>8. QED
    BY <2>4, <2>5, <2>6, <2>7 DEF GatewayHandler
<1>6. QED
  BY <1>4, <1>5

LEMMA FirstReplyNext ==
  ASSUME LockInv, OrphanInv, NEW p \in Payments, FirstReply(p), [Next]_vars
  PROVE  FirstReply(p)'
<1> USE DEF LockInv, TypeInv, TypeOK, GatewayTypeOK, ClientTypeOK
<1> DEFINE h == <<p, 1>>
<1>1. FirstDebited(p) => FirstDebited(p)'
  BY FirstDebitedStays
<1>2. h \in Handlers /\ MaxRetries \in Nat \ {0} /\ attempt[p] \in 0 .. MaxRetries
  BY BankAssumption DEF BankAssumption, Handlers, Attempts
<1>3. UNCHANGED <<pc, UserTransactions, client, attempt>> => FirstReply(p)'
  BY <1>1 DEF FirstReply
<1>4. CASE BankStep
  BY <1>3, <1>4 DEF BankStep, gatewayVars, clientVars
<1>5. ASSUME NEW g \in Handlers, GatewayHandler(g), UNCHANGED clientVars
      PROVE  FirstReply(p)'
  BY <1>1, <1>5, FirstReplyHandler
<1>6. CASE GatewayRestart /\ UNCHANGED clientVars
  <2>1. pc'[h] \in {"none", "error"} /\ UserTransactions'[p] = "absent"
    BY <1>2, <1>6 DEF GatewayRestart
  <2>2. attempt' = attempt /\ client' = client
    BY <1>6 DEF clientVars
  <2>3. QED
    BY <1>1, <2>1, <2>2 DEF FirstReply
<1>7. CASE GatewayStep
  BY <1>3, <1>5, <1>6, <1>7 DEF GatewayStep, BankServerDiscovery, ConcurrentMapAccess,
     TokenExpires, GatewayCrash, GatewayDies, clientVars
<1>8. ASSUME NEW q \in Payments, ClientProcess(q) \/ DeadlineExceeded(q)
      PROVE  FirstReply(p)'
  <2>1. UserTransactions' = UserTransactions
    BY <1>8 DEF ClientProcess, SendAttempt, GatewayUnavailable, RecvSuccess, RecvError,
       RecvInProgress, DeadlineExceeded, TryAgain, gatewayVars
  <2>2. CASE q # p
    <3>1. client'[p] = client[p] /\ attempt'[p] = attempt[p] /\ pc'[h] = pc[h]
      BY <1>2, <1>8, <2>2 DEF ClientProcess, SendAttempt, GatewayUnavailable, RecvSuccess,
         RecvError, RecvInProgress, DeadlineExceeded, TryAgain, Turn, gatewayVars
    <3>2. QED
      BY <1>1, <2>1, <3>1 DEF FirstReply
  <2>3. CASE q = p /\ SendAttempt(p)
    <3>1. client'[p] = "waiting" /\ attempt'[p] = attempt[p] + 1
      BY <2>3 DEF SendAttempt, Turn
    <3>2. CASE attempt[p] = 0
      <4>1. pc[h] = "none" /\ pc'[h] = "arrived"
        BY <1>2, <2>3, <3>2 DEF SendAttempt, ExchangeInv, UnusedAttempts, Attempts
      <4>2. QED
        BY <2>1, <3>1, <3>2, <4>1 DEF FirstReply
    <3>3. CASE attempt[p] # 0
      BY <1>2, <3>1, <3>3 DEF FirstReply
    <3>4. QED
      BY <3>2, <3>3
  <2>4. CASE q = p /\ RecvSuccess(p)
    <3>1. attempt' = attempt /\ pc' = pc /\ pc[<<p, attempt[p]>>] = "success"
      BY <2>4 DEF RecvSuccess, Handler, gatewayVars
    <3>2. attempt[p] = 1 => FirstDebited(p)
      BY <3>1 DEF FirstReply
    <3>3. QED
      BY <1>1, <2>1, <3>1, <3>2 DEF FirstReply
  <2>5. CASE q = p /\ ~SendAttempt(p) /\ ~RecvSuccess(p)
    <3>1. /\ client'[p] # "success" /\ attempt' = attempt /\ pc' = pc
      BY <1>8, <2>5 DEF ClientProcess, GatewayUnavailable, RecvError,
         RecvInProgress, DeadlineExceeded, TryAgain, Turn, gatewayVars
    <3>2. QED
      BY <1>1, <2>1, <3>1 DEF FirstReply
  <2>6. QED
    BY <2>2, <2>3, <2>4, <2>5
<1>9. QED
  BY <1>3, <1>4, <1>7, <1>8 DEF Next, ClientStep, vars, gatewayVars, clientVars

(* Every payment is made by the one user of the session.                   *)
LEMMA OneUser == \A p \in Payments : Sender[p] = User
<1> SUFFICES ASSUME NEW p \in Payments PROVE Sender[p] = User
  OBVIOUS
<1>1. Sender[p] \in Users
  BY DEF Users
<1>2. PICK u \in Users : Users = {u}
  BY SessionAssumption DEF SessionAssumption
<1>3. User = u
  BY <1>2 DEF User
<1>4. QED
  BY <1>1, <1>2, <1>3

LEMMA SpentInit == Init => Spent
<1> SUFFICES ASSUME Init PROVE Spent
  OBVIOUS
<1>1. L!Init
  BY LedgerStart
<1>2. \A p \in Payments : Times(p, "commDebit") = 0
  <2>1. [p \in Payments |-> Times(p, "commDebit")] = [p \in Payments |-> 0]
    BY <1>1 DEF L!Init
  <2> DEFINE times(p) == Times(p, "commDebit")
  <2>2. [p \in Payments |-> times(p)] = [p \in Payments |-> 0]
    BY <2>1
  <2> HIDE DEF times
  <2>3. \A p \in Payments : times(p) = 0
    BY <2>2
  <2>4. QED
    BY <2>3 DEF times
<1>3. Debited = {}
  BY <1>2 DEF Debited, Applied
<1>4. User \in Customers => balance[User] <= InitialBalance[User] - Sum[{}]
  <2>1. balance = InitialBalance
    BY DEF Init, BankInit
  <2>2. QED
    BY <2>1, SumNothing, BankAssumption DEF BankAssumption, Sum
<1>5. QED
  BY <1>3, <1>4, FS_EmptySet DEF Spent

(* A debited payment remains one, and the balance follows.                 *)
LEMMA SpentNext ==
  ASSUME LockInv, Funded, OrphanInv, LedgerInv, TwoAccounts, Spent, [Next]_vars, ~SomeGone'
  PROVE  Spent' /\ Debited \subseteq Debited'
<1> DEFINE debits(p) == Times(p, "commDebit")
           credits(p) == Times(p, "commCredit")
<1>1. [L!Next]_(L!vars)
  BY LedgerStep
<1>2. ~SomeGone /\ IsFiniteSet(Debited) /\ Debited \in SUBSET Payments
  BY GoneForGood DEF Spent, Debited
<1>3. \A p \in Payments : debits(p) \in Nat /\ credits(p) \in Nat
  BY TimesDone
<1>4. Debited = {p \in Payments : debits(p) > 0} /\ Debited' = {p \in Payments : debits(p)' > 0}
  BY DEF Debited, Applied
<1>5. User \in Customers =>
        balance[User] \in Int /\ InitialBalance[User] \in Int /\ Sum[Debited] \in Nat
        /\ balance[User] <= InitialBalance[User] - Sum[Debited]
  <2>1. Sum[Debited] \in Nat
    BY <1>2, SumFacts
  <2>2. QED
    BY <1>2, <2>1, BankAssumption DEF Spent, BankAssumption, LockInv, TypeInv, TypeOK, BankTypeOK
<1>6. ASSUME \A p \in Payments : debits(p)' = debits(p),
             User \in Customers => balance'[User] = balance[User]
      PROVE  Spent' /\ Debited \subseteq Debited'
  <2>1. Debited' = Debited
    BY <1>4, <1>6
  <2>2. Sum[Debited]' = Sum[Debited]
    BY <2>1, SumConstant
  <2>3. QED
    BY <1>2, <1>5, <1>6, <2>1, <2>2 DEF Spent
<1> DEFINE D == [p \in Payments |-> debits(p)]
           C == [p \in Payments |-> credits(p)]
<1>7. /\ \A p \in Payments : D[p] = debits(p) /\ D'[p] = debits(p)'
      /\ \A p \in Payments : C[p] = credits(p)
  OBVIOUS
<1>8. CASE UNCHANGED L!vars \/ L!LoseAnswer
  <2>1. D' = D /\ balance' = balance
    BY <1>8 DEF L!vars, L!LoseAnswer
  <2> HIDE DEF debits, D
  <2>2. \A p \in Payments : debits(p)' = debits(p)
    BY <1>7, <2>1
  <2>3. QED
    BY <1>6, <2>1, <2>2
<1>9. ASSUME NEW A \in SUBSET Customers, L!Forget(A)
      PROVE  FALSE
  BY <1>9 DEF L!Forget, SomeGone
<1>10. ASSUME NEW p \in Payments, L!Debit(p)
       PROVE  Spent' /\ Debited \subseteq Debited'
  <2>1. /\ D' = [D EXCEPT ![p] = @ + 1]
        /\ balance' = [balance EXCEPT ![User] = @ - Amount[p]]
    BY <1>10, OneUser DEF L!Debit
  <2> HIDE DEF debits, D
  <2>2. \A q \in Payments : debits(q)' = IF q = p THEN debits(p) + 1 ELSE debits(q)
    BY <1>7, <2>1 DEF D
  <2>3. Debited' = Debited \union {p}
    BY <1>3, <1>4, <2>2
  <2>4. IsFiniteSet(Debited')
    BY <1>2, <2>3, FS_AddElement
  <2>5. ASSUME User \in Customers
        PROVE  balance'[User] <= InitialBalance[User] - Sum[Debited]'
    <3>1. balance'[User] = balance[User] - Amount[p] /\ Amount[p] \in Nat
      BY <2>1, <2>5, BankAssumption DEF BankAssumption, LockInv, TypeInv, TypeOK, BankTypeOK
    <3>2. Sum[Debited]' = Sum[Debited \union {p}]
      BY <2>3, SumConstant
    <3>3. Sum[Debited \union {p}] \in {Sum[Debited], Sum[Debited] + Amount[p]}
      <4>1. CASE p \in Debited
        <5>1. Debited \union {p} = Debited
          BY <4>1
        <5>2. QED
          BY <5>1
      <4>2. CASE p \notin Debited
        BY <1>2, <4>2, SumFacts
      <4>3. QED
        BY <4>1, <4>2
    <3>4. QED
      BY <1>5, <2>5, <3>1, <3>2, <3>3
  <2>6. QED
    BY <2>3, <2>4, <2>5 DEF Spent
<1>11. ASSUME NEW p \in Payments, L!Credit(p)
       PROVE  Spent' /\ Debited \subseteq Debited'
  <2>1. /\ C[p] < D[p] \/ SomeGone
        /\ balance' = [balance EXCEPT ![Recipient[p]] = @ + Amount[p]]
        /\ D' = D
    BY <1>11 DEF L!Credit, SomeGone
  <2>2. debits(p) > 0
    BY <1>2, <1>3, <1>7, <2>1
  <2>3. Recipient[p] # User
    <3>1. PICK n \in Attempts : rpc[<<p, n, "commDebit">>] \in Effective
      <4>1. Done(p, "commDebit") # {}
        BY <2>2, TimesDone, SomeAttempts
      <4>2. QED
        BY <4>1 DEF Done
    <3>2. <<p, n>> \in Handlers /\ Debiting(<<p, n>>)
      BY <3>1 DEF Handlers, Debiting, Call, Effective
    <3>3. QED
      BY <3>2, OneUser DEF TwoAccounts
  <2> HIDE DEF debits, D
  <2>4. \A q \in Payments : debits(q)' = debits(q)
    BY <1>7, <2>1
  <2>5. User \in Customers => balance'[User] = balance[User]
    BY <2>1, <2>3 DEF LockInv, TypeInv, TypeOK, BankTypeOK
  <2>6. QED
    BY <1>6, <2>4, <2>5
<1>12. QED
  BY <1>1, <1>8, <1>9, <1>10, <1>11 DEF L!Next

LEMMA ToldInvHolds == Spec => []ToldInv
<1>1. Init => ToldInv
  <2> SUFFICES ASSUME Init PROVE ToldInv
    OBVIOUS
  <2>1. TwoAccounts
    <3>1. \A h \in Handlers : rpc[Call(h, "commDebit")] = "idle" /\ pc[h] = "none"
      BY HandlerParts DEF Init, BankInit, GatewayInit, Kinds, CommitKinds
    <3>2. QED
      BY <3>1 DEF TwoAccounts, Active, CallPoints, Debiting
  <2>2. \A p \in Payments : FirstReply(p)
    <3>1. \A p \in Payments : <<p, 1>> \in Handlers
      BY BankAssumption DEF BankAssumption, Handlers, Attempts
    <3>2. QED
      BY <3>1 DEF Init, GatewayInit, ClientInit, FirstReply
  <2>3. QED
    BY <2>1, <2>2, SpentInit DEF ToldInv
<1>2. LockInv /\ Funded /\ OrphanInv /\ LedgerInv /\ ToldInv /\ [Next]_vars => ToldInv'
  <2> SUFFICES ASSUME LockInv, Funded, OrphanInv, LedgerInv, ToldInv, [Next]_vars
               PROVE  ToldInv'
    OBVIOUS
  <2>1. TwoAccounts'
    BY TwoAccountsNext DEF ToldInv
  <2>2. Spent'
    <3>1. SomeGone' => Spent'
      BY DEF Spent
    <3>2. ~SomeGone' => Spent'
      BY SpentNext DEF ToldInv
    <3>3. QED
      BY <3>1, <3>2
  <2>3. \A p \in Payments : FirstReply(p)'
    BY FirstReplyNext DEF ToldInv
  <2>4. QED
    BY <2>1, <2>2, <2>3 DEF ToldInv
<1>3. QED
  BY <1>1, <1>2, LockInvHolds, FundedHolds, OrphanInvHolds, LedgerInvHolds, PTL DEF Spec
-------------------------------------------------------------------------------
(* The payments a user knows to be paid when asking for the balance are    *)
(* debited, and the answer is without them.                                *)
AnsweredWithout(e) ==
  /\ known[e] \subseteq Debited
  /\ enquiry[e] \in {"read", "shown"} => shown[e] <= InitialBalance[User] - Sum[known[e]]

ShownInv == SomeGone \/ \A e \in Enquiries : AnsweredWithout(e)

LEMMA KnownIsDebited ==
  ASSUME ToldInv, ~SomeGone, NEW p \in Payments, client[p] = "success", attempt[p] = 1
  PROVE  p \in Debited
<1>1. rpc[<<p, 1, "commDebit">>] \in Effective
  BY DEF ToldInv, FirstReply, FirstDebited
<1>2. 1 \in Done(p, "commDebit")
  BY <1>1, BankAssumption DEF BankAssumption, Attempts, Done
<1>3. Times(p, "commDebit") > 0
  BY <1>2, TimesDone, SomeAttempts
<1>4. QED
  BY <1>3 DEF Debited, Applied

LEMMA ShownNext ==
  ASSUME LockInv, Funded, OrphanInv, LedgerInv, ToldInv, SessionTypeInv, ShownInv,
         [Next]_vars, [SessionNext]_sessionVars
  PROVE  ShownInv'
<1> USE DEF SessionTypeInv, SessionTypeOK
<1> SUFFICES ASSUME ~SomeGone', NEW e \in Enquiries
             PROVE  AnsweredWithout(e)'
  BY DEF ShownInv
<1>1. ~SomeGone /\ Debited \subseteq Debited' /\ AnsweredWithout(e)
  BY GoneForGood, SpentNext DEF ToldInv, ShownInv
<1>2. Sum' = Sum
  BY SumConstant
<1>3. ASSUME known'[e] = known[e], shown'[e] = shown[e],
             enquiry'[e] \in {"read", "shown"} => enquiry[e] \in {"read", "shown"}
      PROVE  AnsweredWithout(e)'
  BY <1>1, <1>2, <1>3 DEF AnsweredWithout
<1>4. ASSUME NEW d \in Enquiries, EnquiryStep(d) \/ EnquiryDeadline(d), d # e
      PROVE  AnsweredWithout(e)'
  BY <1>3, <1>4 DEF EnquiryStep, EnquiryDeadline, AskBalance, AskInVain, AuthEnquiry, GetBalance,
     SendCheckBalanceRequest, CheckBalance, EnquiryReturns, EnquiryMoves
<1>5. CASE AskBalance(e)
  <2>1. enquiry'[e] = "arrived" /\ Debited' = Debited
    <3>1. rpc' = rpc
      BY <1>5 DEF AskBalance, enquiryOnly, vars, bankVars
    <3>2. QED
      BY <1>5, <3>1 DEF AskBalance, EnquiryMoves, Debited, Applied, Times
  <2>2. known'[e] \subseteq Debited
    BY <1>1, <1>5, KnownIsDebited DEF AskBalance, AnsweredWithout
  <2>3. QED
    BY <2>1, <2>2 DEF AnsweredWithout
<1>6. CASE CheckBalance(e) /\ enquiry'[e] \in {"read", "shown"}
  <2>1. User \in Customers /\ shown'[e] = balance[User] /\ known' = known
    BY <1>6 DEF CheckBalance, EnquiryMoves
  <2>2. balance[User] <= InitialBalance[User] - Sum[Debited] /\ IsFiniteSet(Debited)
    BY <1>1, <2>1 DEF ToldInv, Spent
  <2>3. Sum[Debited] \in Nat /\ Sum[known[e]] \in Nat /\ Sum[known[e]] <= Sum[Debited]
    <3>1. Debited \in SUBSET Payments /\ known[e] \in SUBSET Debited
      BY <1>1 DEF Debited, AnsweredWithout
    <3>2. QED
      BY <2>2, <3>1, SumFacts
  <2>4. balance[User] \in Int /\ InitialBalance[User] \in Int
    BY <2>1, BankAssumption DEF BankAssumption, LockInv, TypeInv, TypeOK, BankTypeOK
  <2>5. shown'[e] <= InitialBalance[User] - Sum[known[e]]
    BY <2>1, <2>2, <2>3, <2>4
  <2>6. QED
    BY <1>1, <1>2, <2>1, <2>5 DEF AnsweredWithout
<1>7. CASE EnquiryDeadline(e)
  BY <1>1, <1>7 DEF EnquiryDeadline, EnquiryMoves, AnsweredWithout
<1>8. CASE \/ AskInVain(e) \/ AuthEnquiry(e) \/ GetBalance(e) \/ EnquiryReturns(e)
           \/ CheckBalance(e) /\ enquiry'[e] \notin {"read", "shown"}
  <2>1. CASE CheckBalance(e) /\ enquiry'[e] \notin {"read", "shown"}
    BY <1>1, <2>1 DEF CheckBalance, AnsweredWithout
  <2>2. CASE AskInVain(e) \/ AuthEnquiry(e) \/ GetBalance(e) \/ EnquiryReturns(e)
    BY <1>3, <2>2 DEF AskInVain, AuthEnquiry, GetBalance, SendCheckBalanceRequest,
       EnquiryReturns, EnquiryMoves
  <2>3. QED
    BY <1>8, <2>1, <2>2
<1>9. CASE ServerStep
  BY <1>3, <1>9 DEF ServerStep, Disconnect
<1>10. CASE Login \/ QueueStep \/ \E p \in Payments : PaymentStep(p) \/ PaymentDeadline(p)
  BY <1>3, <1>10 DEF Login, QueueStep, AfterReturn, PaymentStep, PaymentDeadline, enquiryVars
<1>11. CASE UNCHANGED sessionVars
  BY <1>3, <1>11 DEF sessionVars, enquiryVars
<1>12. QED
  BY <1>4, <1>5, <1>6, <1>7, <1>8, <1>9, <1>10, <1>11 DEF SessionNext, EnquiryStep

LEMMA ShownInvInit == SessionInit => ShownInv
  BY DEF SessionInit, LoginInit, ShownInv, AnsweredWithout

LEMMA ShownInvIsRight == SessionTypeInv /\ ShownInv => ShownAfterPaid
<1> SUFFICES ASSUME SessionTypeInv, ShownInv, NEW e \in Enquiries,
                    enquiry[e] \in {"read", "shown"}, \A c \in Calls : rpc[c] # "gone"
             PROVE  shown[e] <= InitialBalance[User] - SumOver(known[e], Amount)
  BY DEF ShownAfterPaid
<1>1. shown[e] <= InitialBalance[User] - Sum[known[e]]
  BY DEF ShownInv, SomeGone, AnsweredWithout
<1>2. Sum[known[e]] = SumOf(known[e])
  BY DEF Sum, SessionTypeInv, SessionTypeOK
<1>3. QED
  BY <1>1, <1>2 DEF SumOf

(* What a user has been told is true when the user asks: the interceptor,  *)
(* the gateway's replies and the bank's read without a lock together show  *)
(* a balance without every payment whose first attempt was answered        *)
(* "success" before, unless a bank has lost its memory.                    *)
THEOREM BalanceShownAfterPaid == SessionSpec => []ShownAfterPaid
<1>1. /\ LockInv /\ Funded /\ OrphanInv /\ LedgerInv /\ ToldInv /\ SessionTypeInv /\ ShownInv
      /\ [Next]_vars /\ [SessionNext]_sessionVars
      => ShownInv'
  BY ShownNext
<1>2. [SessionNext]_sessionVars => [Next]_vars
  BY SessionStep
<1>3. SessionSpec => []SessionTypeInv
  <2>1. Spec => []TypeInv
    BY LockInvHolds, PTL DEF LockInv
  <2>2. QED
    BY <2>1, SessionIsPaymentSystem, SessionTypeInit, SessionTypeNext, PTL DEF SessionSpec
<1>4. QED
  BY <1>1, <1>2, <1>3, SessionIsPaymentSystem, ShownInvInit, ShownInvIsRight, LockInvHolds,
     FundedHolds, OrphanInvHolds, LedgerInvHolds, ToldInvHolds, PTL DEF SessionSpec
===============================================================================
