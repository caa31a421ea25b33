----------------------------- MODULE OfflineQueue -----------------------------
(***************************************************************************)
(* The offline queue of the q3 client (q3/client/requests.go).  The menu   *)
(* loop of main and the goroutine processRequestQueue both call            *)
(* sendRequest, which stores the request while the client is offline; the  *)
(* consumer removes a request only after sendRequest has returned.         *)
(***************************************************************************)
EXTENDS Naturals, Sequences, SequencesExt

CONSTANTS
  Requests,    \* requests the user enters, each once
  MaxOffline   \* bound on the times the user goes offline

ASSUME QueueAssumption == MaxOffline \in Nat

VARIABLES
  requestQueue,
  isSetOffline,
  elapsed,    \* offlineInterval has passed since startTime
  menu,       \* where the menu loop is
  menuReq,    \* the request it works on, if any
  consumer,   \* where processRequestQueue is
  req,        \* the request it works on, if any
  sentCount,  \* how often each request has been sent to the gateway
  entered,    \* requests the user has entered
  offlines

queueVars == <<requestQueue, isSetOffline, elapsed, menu, menuReq, consumer,
               req, sentCount, entered, offlines>>
menuVars == <<menu, menuReq, entered, offlines>>
consumerVars == <<consumer, req>>
timeVars == <<isSetOffline, elapsed>>

Init ==
  /\ requestQueue = <<>>
  /\ isSetOffline = FALSE
  /\ elapsed = FALSE
  /\ menu = "ready"
  /\ menuReq = {}
  /\ consumer = "idle"
  /\ req = {}
  /\ sentCount = [r \in Requests |-> 0]
  /\ entered = {}
  /\ offlines = 0
-------------------------------------------------------------------------------
(* Mutant: the interval is not looked at.                                  *)
OfflineForEver == isSetOffline

Offline == isSetOffline /\ ~elapsed

(* isOffline() has returned the value is, and has reset a flag whose time  *)
(* is over.                                                                *)
IsOffline(is) ==
  /\ Offline = is
  /\ isSetOffline' = is
  /\ UNCHANGED elapsed

IntervalPasses ==
  /\ Offline
  /\ elapsed' = TRUE
  /\ UNCHANGED <<requestQueue, isSetOffline, menuVars, consumerVars, sentCount>>

(* Mutant: the request is put in front.                                    *)
queueInFront(r) == requestQueue' = <<r>> \o requestQueue

(* inQue is never filled, so the request is always appended.               *)
queueRequest(r) == requestQueue' = Append(requestQueue, r)

Invoke(r) == sentCount' = [sentCount EXCEPT ![r] = @ + 1]
-------------------------------------------------------------------------------
(* The menu loop.                                                          *)
setOffline ==
  /\ menu = "ready"
  /\ offlines < MaxOffline
  /\ offlines' = offlines + 1
  /\ isSetOffline' = TRUE
  /\ elapsed' = FALSE
  /\ UNCHANGED <<requestQueue, menu, menuReq, entered, consumerVars, sentCount>>

EnterRequest(r) ==
  /\ menu = "ready"
  /\ r \notin entered
  /\ entered' = entered \union {r}
  /\ menuReq' = {r}
  /\ \/ IsOffline(TRUE) /\ menu' = "offline"
     \/ IsOffline(FALSE) /\ menu' = "online"
  /\ UNCHANGED <<requestQueue, consumerVars, sentCount, offlines>>

MenuReturns == menu' = "ready" /\ menuReq' = {} /\ UNCHANGED <<entered, offlines>>

MenuQueues ==
  /\ menu = "offline"
  /\ \E r \in menuReq : queueRequest(r)
  /\ MenuReturns
  /\ UNCHANGED <<timeVars, consumerVars, sentCount>>

MenuSends ==
  /\ menu = "online"
  /\ \E r \in menuReq : Invoke(r)
  /\ MenuReturns
  /\ UNCHANGED <<requestQueue, timeVars, consumerVars>>

(* main returns, and the queue is gone with the process.                   *)
Exit ==
  /\ menu = "ready"
  /\ menu' = "exited"
  /\ UNCHANGED <<requestQueue, timeVars, menuReq, entered, offlines, consumerVars, sentCount>>
-------------------------------------------------------------------------------
(* The consumer.                                                           *)
Turn(from, to) ==
  /\ menu # "exited"
  /\ consumer = from
  /\ consumer' = to

(* The outer loop polls until the client is online and the queue filled.   *)
StartDraining ==
  /\ Turn("idle", "draining")
  /\ IsOffline(FALSE)
  /\ requestQueue # <<>>
  /\ UNCHANGED <<requestQueue, menuVars, req, sentCount>>

PeekEmpty ==
  /\ Turn("draining", "idle")
  /\ requestQueue = <<>>
  /\ UNCHANGED <<requestQueue, timeVars, menuVars, req, sentCount>>

Peek ==
  /\ Turn("draining", "peeked")
  /\ requestQueue # <<>>
  /\ req' = {Head(requestQueue)}
  /\ UNCHANGED <<requestQueue, timeVars, menuVars, sentCount>>

sendRequest ==
  /\ \/ IsOffline(TRUE) /\ Turn("peeked", "offline")
     \/ IsOffline(FALSE) /\ Turn("peeked", "online")
  /\ UNCHANGED <<requestQueue, menuVars, req, sentCount>>

(* Mutant: the request is not stored again.                                *)
NotQueuedAgain ==
  /\ Turn("offline", "processed")
  /\ UNCHANGED <<requestQueue, timeVars, menuVars, req, sentCount>>

QueueAgain ==
  /\ Turn("offline", "processed")
  /\ \E r \in req : queueRequest(r)
  /\ UNCHANGED <<timeVars, menuVars, req, sentCount>>

ConsumerSends ==
  /\ Turn("online", "processed")
  /\ \E r \in req : Invoke(r)
  /\ UNCHANGED <<requestQueue, timeVars, menuVars, req>>

(* Mutant: the request stays in the queue.                                 *)
deQueueForgets ==
  /\ Turn("processed", "draining")
  /\ req' = {}
  /\ UNCHANGED <<requestQueue, timeVars, menuVars, sentCount>>

deQueueRequest ==
  /\ Turn("processed", "draining")
  /\ requestQueue' = Tail(requestQueue)
  /\ req' = {}
  /\ UNCHANGED <<timeVars, menuVars, sentCount>>
-------------------------------------------------------------------------------
Menu == MenuQueues \/ MenuSends

Consumer ==
  \/ StartDraining \/ PeekEmpty \/ Peek \/ sendRequest
  \/ QueueAgain \/ ConsumerSends \/ deQueueRequest

Next ==
  \/ setOffline \/ (\E r \in Requests : EnterRequest(r)) \/ Exit
  \/ Menu \/ Consumer \/ IntervalPasses

Spec == Init /\ [][Next]_queueVars

(* Time passes and both goroutines run; the user may stop at any point.    *)
FairSpec == Spec /\ WF_queueVars(Menu) /\ WF_queueVars(Consumer) /\ WF_queueVars(IntervalPasses)
-------------------------------------------------------------------------------
(* Every variable keeps to its type; the queue never holds more than one   *)
(* request twice.                                                          *)
TypeOK ==
  /\ requestQueue \in Seq(Requests)
  /\ Len(requestQueue) <= Cardinality(entered) + 1
  /\ isSetOffline \in BOOLEAN /\ elapsed \in BOOLEAN
  /\ menu \in {"ready", "offline", "online", "exited"}
  /\ consumer \in {"idle", "draining", "peeked", "offline", "online", "processed"}
  /\ menuReq \in {{}} \union {{r} : r \in Requests}
  /\ req \in {{}} \union {{r} : r \in Requests}
  /\ sentCount \in [Requests -> Nat]
  /\ entered \subseteq Requests
  /\ offlines \in 0 .. MaxOffline

(* The request the consumer removes is the one it has worked on, although  *)
(* the queue has grown meanwhile and its mutex was free: deQueueRequest    *)
(* neither removes another request nor slices an empty queue.              *)
HeadIsCurrent ==
  consumer \in {"peeked", "offline", "online", "processed"} =>
    requestQueue # <<>> /\ req = {Head(requestQueue)}

(* Going offline and online at any moment neither loses a request nor      *)
(* sends one twice.                                                        *)
Store == INSTANCE Outbox WITH
  pending <- {r \in ToSet(requestQueue) : sentCount[r] = 0},
  sent <- {r \in Requests : sentCount[r] > 0}

RefinesOutbox == Store!Spec

AtMostOnce == \A r \in Requests : sentCount[r] <= 1

(* A stored request is sent when the client is online again, unless the    *)
(* user exits.                                                             *)
StoredIsSent ==
  \A r \in Requests : r \in ToSet(requestQueue) ~> (sentCount[r] > 0 \/ menu = "exited")
===============================================================================
