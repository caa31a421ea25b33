---------------------------- MODULE PaymentSession ----------------------------
(***************************************************************************)
(* A whole session of one user with the q3 client: main logs the user in   *)
(* and then runs the menu beside the goroutine of the offline queue.  Both *)
(* make payments and balance enquiries, through the same interceptor, at   *)
(* the gateway and the banks of PaymentSystem.                             *)
(*                                                                         *)
(* A request is worked on while the menu or the queue's consumer stands at *)
(* "online" with it; OfflineQueue's MenuSends and ConsumerSends are the    *)
(* return of that call.                                                    *)
(***************************************************************************)
EXTENDS PaymentSystem, Sequences

CONSTANTS
  Enquiries,         \* the balance enquiries the user makes
  MaxOffline,        \* bound: times the user goes offline
  MaxLoginAttempts   \* attempts to log in

ASSUME SessionAssumption ==
  /\ Enquiries \intersect Payments = {}
  /\ \E u \in Users : Users = {u}
  /\ MaxLoginAttempts \in Nat \ {0}

VARIABLES
  requestQueue, isSetOffline, elapsed, menu, menuReq, consumer, req,
  sentCount, entered, offlines,   \* the client program, see OfflineQueue
  loggedIn,      \* the login loop has ended with a token
  logins,        \* failed attempts to log in
  enquiry,       \* where each enquiry stands, in the client, gateway and bank
  asked,         \* its attempts
  shown,         \* the balance the bank has answered
  known          \* history: payments reported as paid before it was asked

Q == INSTANCE OfflineQueue WITH Requests <- Payments \union Enquiries

queueVars == <<requestQueue, isSetOffline, elapsed, menu, menuReq, consumer,
               req, sentCount, entered, offlines>>
loginVars == <<loggedIn, logins>>
enquiryVars == <<enquiry, asked, shown, known>>
sessionVars == <<vars, queueVars, loginVars, enquiryVars>>
-------------------------------------------------------------------------------
User == CHOOSE u \in Users : TRUE

AtGateway == {"arrived", "authorized", "asked", "read"}
Shown == {"shown", "failed", "timeout"}
EnquiryStates == {"new", "backoff", "error"} \union AtGateway \union Shown

Working(r) ==
  \/ menu = "online" /\ r \in menuReq
  \/ menu # "exited" /\ consumer = "online" /\ r \in req

Returned(r) ==
  \/ r \in Payments /\ client[r] \in Reported
  \/ r \in Enquiries /\ enquiry[r] \in Shown

LoginInit ==
  /\ loggedIn = FALSE
  /\ logins = 0
  /\ enquiry = [e \in Enquiries |-> "new"]
  /\ asked = [e \in Enquiries |-> 0]
  /\ shown = [e \in Enquiries |-> 0]
  /\ known = [e \in Enquiries |-> {}]

SessionInit == Init /\ Q!Init /\ LoginInit
-------------------------------------------------------------------------------
(* The login loop of main: Authenticate knows the user and the password or *)
(* does not; an unreachable gateway counts as a failed attempt.  After the *)
(* last one the program exits.                                             *)
Authenticated ==
  /\ gatewayUp
  /\ loggedIn' = TRUE
  /\ UNCHANGED <<logins, menu>>

NotAuthenticated ==
  /\ logins' = logins + 1
  /\ menu' = IF logins' = MaxLoginAttempts THEN "exited" ELSE menu
  /\ UNCHANGED loggedIn

Login ==
  /\ ~loggedIn
  /\ menu # "exited"
  /\ Authenticated \/ NotAuthenticated
  /\ UNCHANGED <<vars, enquiryVars, requestQueue, isSetOffline, elapsed, menuReq,
                 consumer, req, sentCount, entered, offlines>>
-------------------------------------------------------------------------------
EnquiryMoves(e, from, to) ==
  /\ enquiry[e] \in from
  /\ enquiry' = [enquiry EXCEPT ![e] = to]

enquiryOnly == UNCHANGED <<vars, queueVars, loginVars>>

(* sendGetBalanceRequest through the interceptor: each pass of its loop    *)
(* asks the gateway, or sees at once that there is none.                   *)
AskBalance(e) ==
  /\ Working(e)
  /\ gatewayUp
  /\ EnquiryMoves(e, {"new", "backoff"}, "arrived")
  /\ asked' = [asked EXCEPT ![e] = @ + 1]
  /\ known' = [known EXCEPT ![e] =
       IF asked[e] > 0 THEN @
       ELSE {p \in Payments : client[p] = "success" /\ attempt[p] = 1}]
  /\ UNCHANGED shown
  /\ enquiryOnly

AskInVain(e) ==
  /\ Working(e)
  /\ ~gatewayUp
  /\ EnquiryMoves(e, {"new", "backoff"}, "failed")
  /\ asked' = [asked EXCEPT ![e] = 0]
  /\ UNCHANGED <<shown, known>>
  /\ enquiryOnly

(* The gateway's authInterceptor, which asks for no role here ...          *)
AuthEnquiry(e) ==
  /\ EnquiryMoves(e, {"arrived"}, IF User \in expired THEN "error" ELSE "authorized")
  /\ UNCHANGED <<asked, shown, known>>
  /\ enquiryOnly

(* ... and GetBalance: checkUserValidity, checkBankValidity and the call,  *)
(* which has no deadline, ...                                              *)
SendCheckBalanceRequest(e) == EnquiryMoves(e, {"authorized"}, "asked")

GetBalance(e) ==
  /\ User \notin expired
  /\ IF BankOf[User] \in BankServers THEN SendCheckBalanceRequest(e)
                                     ELSE EnquiryMoves(e, {"authorized"}, "error")
  /\ UNCHANGED <<asked, shown, known>>
  /\ enquiryOnly

(* ... where an expired token panics as it does in MakePayment (a          *)
(* GatewayCrash that has to happen), ...                                   *)
EnquiryPanic(e) ==
  /\ enquiry[e] = "authorized"
  /\ User \in expired
  /\ GatewayDies
  /\ UNCHANGED <<bankVars, clientVars>>

(* ... and the bank's CheckBalance, which reads without any lock.          *)
CheckBalance(e) ==
  /\ IF bankState[BankOf[User]] = "serving" /\ User \in Customers
       THEN EnquiryMoves(e, {"asked"}, "read") /\ shown' = [shown EXCEPT ![e] = balance[User]]
       ELSE EnquiryMoves(e, {"asked"}, "error") /\ UNCHANGED shown
  /\ UNCHANGED <<asked, known>>
  /\ enquiryOnly

EnquiryReturns(e) ==
  /\ Working(e)
  /\ EnquiryMoves(e, {"read"}, "shown") \/ EnquiryMoves(e, {"error"}, "failed")
  /\ asked' = [asked EXCEPT ![e] = 0]
  /\ UNCHANGED <<shown, known>>
  /\ enquiryOnly

(* Mutant: one attempt too many.                                           *)
EnquiryAsksOnceMore(e) ==
  /\ Working(e)
  /\ EnquiryMoves(e, AtGateway \union {"error"},
                  IF asked[e] > MaxRetries THEN "timeout" ELSE "backoff")
  /\ asked' = [asked EXCEPT ![e] = IF @ > MaxRetries THEN 0 ELSE @]
  /\ shown' = [shown EXCEPT ![e] = 0]
  /\ UNCHANGED known
  /\ enquiryOnly

(* The deadline of the attempt passes.  What the abandoned attempt goes on *)
(* to do is seen by nobody; should it panic, GatewayCrash stands for that. *)
EnquiryDeadline(e) ==
  /\ Working(e)
  /\ EnquiryMoves(e, AtGateway \union {"error"},
                  IF asked[e] = MaxRetries THEN "timeout" ELSE "backoff")
  /\ asked' = [asked EXCEPT ![e] = IF @ = MaxRetries THEN 0 ELSE @]
  /\ shown' = [shown EXCEPT ![e] = 0]
  /\ UNCHANGED known
  /\ enquiryOnly

EnquiryStep(e) ==
  \/ AskBalance(e) \/ AskInVain(e) \/ AuthEnquiry(e) \/ GetBalance(e)
  \/ CheckBalance(e) \/ EnquiryReturns(e)
-------------------------------------------------------------------------------
(* When the gateway dies its clients' connections break.                   *)
Disconnect ==
  /\ enquiry' = [e \in Enquiries |->
       IF ~gatewayUp' /\ enquiry[e] \in AtGateway THEN "error" ELSE enquiry[e]]
  /\ UNCHANGED <<asked, shown, known>>

(* A token expires after it has been issued.                               *)
ServerStep ==
  /\ BankStep \/ GatewayStep \/ \E e \in Enquiries : EnquiryPanic(e)
  /\ loggedIn \/ expired' = expired
  /\ Disconnect
  /\ UNCHANGED <<queueVars, loginVars>>

PaymentStep(p) ==
  /\ Working(p)
  /\ ClientProcess(p)
  /\ UNCHANGED <<queueVars, loginVars, enquiryVars>>

PaymentDeadline(p) ==
  /\ Working(p)
  /\ DeadlineExceeded(p)
  /\ UNCHANGED <<queueVars, loginVars, enquiryVars>>

(* The steps of the client program that make no call, and the return of    *)
(* one.                                                                    *)
AfterReturn ==
  /\ loggedIn
  /\ \A r \in Payments \union Enquiries : sentCount'[r] # sentCount[r] => Returned(r)
  /\ UNCHANGED <<vars, loginVars, enquiryVars>>

QueueStep == Q!Next /\ AfterReturn

SessionNext ==
  \/ Login \/ ServerStep \/ QueueStep
  \/ \E p \in Payments : PaymentStep(p) \/ PaymentDeadline(p)
  \/ \E e \in Enquiries : EnquiryStep(e) \/ EnquiryDeadline(e)

SessionSpec == SessionInit /\ [][SessionNext]_sessionVars

(* Programs run and messages arrive; the user, deadlines and faults are    *)
(* free.  One condition for all goroutines of a process asks for less than *)
(* PaymentSystem's one each, and is enough: they make finitely many steps. *)
Outside == Disconnect /\ UNCHANGED <<queueVars, loginVars>>

BanksRun ==
  /\ (\E c \in Calls : BankHandler(c)) \/ (\E b \in Banks : BankListen(b))
  /\ UNCHANGED <<gatewayVars, clientVars>>

GatewayRuns ==
  /\ \/ \E b \in Banks : BankServerDiscovery(b)
     \/ \E h \in Handlers : GatewayHandler(h)
     \/ \E e \in Enquiries : EnquiryPanic(e)
  /\ UNCHANGED clientVars

RequestsRun ==
  (\E p \in Payments : PaymentStep(p)) \/ (\E e \in Enquiries : EnquiryStep(e))

SessionFairness ==
  /\ WF_sessionVars(BanksRun /\ Outside)
  /\ WF_sessionVars(GatewayRuns /\ Outside)
  /\ WF_sessionVars(RequestsRun)
  /\ WF_sessionVars(Q!Menu /\ AfterReturn)
  /\ WF_sessionVars(Q!Consumer /\ AfterReturn)
  /\ WF_sessionVars(Q!IntervalPasses /\ AfterReturn)

FairSession == SessionSpec /\ SessionFairness
-------------------------------------------------------------------------------
(* Every variable keeps to its type; an enquiry is asked at most           *)
(* MaxRetries times.                                                       *)
SessionTypeOK ==
  /\ loggedIn \in BOOLEAN
  /\ logins \in 0 .. MaxLoginAttempts
  /\ enquiry \in [Enquiries -> EnquiryStates]
  /\ asked \in [Enquiries -> 0 .. MaxRetries]
  /\ shown \in [Enquiries -> Int]
  /\ known \in [Enquiries -> SUBSET Payments]

(* What a user has been told is true when the user asks: a balance that is *)
(* asked for after a payment was reported as paid is without its amount,   *)
(* whatever goroutine made it and though the bank reads without the lock.  *)
(* Only the answer to the first attempt counts: a retry is told "success"  *)
(* from the moment both banks are prepared.                                *)
ShownAfterPaid ==
  \A e \in Enquiries :
    enquiry[e] \in {"read", "shown"} /\ (\A c \in Calls : rpc[c] # "gone") =>
      shown[e] <= InitialBalance[User] - SumOver(known[e], Amount)

(* Whatever the user enters is answered in the end, online or offline, by  *)
(* a menu and a consumer that share the queue, and by a gateway that may   *)
(* die: unless the user exits first.                                       *)
EnteredIsAnswered == <>[](\A r \in entered : Returned(r) \/ menu = "exited")
===============================================================================
