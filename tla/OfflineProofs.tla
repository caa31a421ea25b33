---------------------------- MODULE OfflineProofs -----------------------------
(***************************************************************************)
(* Theorems about OfflineQueue, for every set of requests and any number   *)
(* of times the client goes offline.                                       *)
(***************************************************************************)
EXTENDS OfflineQueue, SequenceTheorems, FiniteSetTheorems, TLAPS

Busy == consumer \in {"peeked", "offline", "online", "processed"}

QueueTypes ==
  /\ requestQueue \in Seq(Requests)
  /\ sentCount \in [Requests -> Nat]
  /\ consumer \in {"idle", "draining", "peeked", "offline", "online", "processed"}
  /\ menu \in {"ready", "offline", "online", "exited"}
  /\ menuReq \subseteq Requests

(* Only the first request can stand in the queue again, when it has been   *)
(* stored a second time and not been removed yet.                          *)
StoredOnce ==
  \A i, j \in 1 .. Len(requestQueue) :
    i < j /\ requestQueue[i] = requestQueue[j] => i = 1 /\ consumer = "processed"

(* Only the first request can have been sent.                              *)
QueuedUnsent ==
  \A i \in 1 .. Len(requestQueue) :
    i > 1 \/ consumer # "processed" => sentCount[requestQueue[i]] = 0

(* A request the menu works on is neither in the queue nor sent.           *)
MenuIsNew ==
  /\ menu \in {"ready", "exited"} => menuReq = {}
  /\ \A r, q \in menuReq : r = q
  /\ \A r \in menuReq :
       /\ sentCount[r] = 0
       /\ \A i \in 1 .. Len(requestQueue) : requestQueue[i] # r

(* What is in the queue, has been sent or is in the menu has been entered. *)
OnlyEntered ==
  /\ \A i \in 1 .. Len(requestQueue) : requestQueue[i] \in entered
  /\ \A r \in Requests : sentCount[r] > 0 => r \in entered
  /\ menuReq \subseteq entered

QueueInv ==
  /\ QueueTypes
  /\ HeadIsCurrent
  /\ StoredOnce
  /\ QueuedUnsent
  /\ MenuIsNew
  /\ OnlyEntered
  /\ AtMostOnce
-------------------------------------------------------------------------------
(* The initial state satisfies the invariant.                              *)
LEMMA QueueInit == Init => QueueInv
  BY DEF Init, QueueInv, QueueTypes, HeadIsCurrent, StoredOnce, QueuedUnsent,
         MenuIsNew, OnlyEntered, AtMostOnce

(* Steps that leave queue, counts and menu alone.                          *)
LEMMA QuietStep ==
  ASSUME QueueInv,
         UNCHANGED <<requestQueue, sentCount, menuReq, entered, req>>,
         \/ consumer' = consumer
         \/ consumer' \in {"idle", "draining"} /\ consumer \in {"idle", "draining"}
         \/ consumer' \in {"offline", "online"} /\ consumer = "peeked",
         \/ menu' = menu
         \/ menu' = "exited" /\ menu = "ready"
  PROVE  QueueInv'
  BY DEF QueueInv, QueueTypes, HeadIsCurrent, StoredOnce, QueuedUnsent,
         MenuIsNew, OnlyEntered, AtMostOnce

(* A new request in the menu.                                              *)
LEMMA EnterStep ==
  ASSUME QueueInv, NEW r \in Requests, EnterRequest(r)
  PROVE  QueueInv'
<1>1. r \notin entered /\ menuReq' = {r} /\ menu' \in {"offline", "online"}
      /\ entered' = entered \union {r}
  BY DEF EnterRequest
<1>2. UNCHANGED <<requestQueue, consumer, req, sentCount>>
  BY DEF EnterRequest, consumerVars
<1>3. sentCount[r] = 0 /\ \A i \in 1 .. Len(requestQueue) : requestQueue[i] # r
  BY <1>1 DEF QueueInv, OnlyEntered, QueueTypes
<1>. QED
  BY <1>1, <1>2, <1>3
  DEF QueueInv, QueueTypes, HeadIsCurrent, StoredOnce, QueuedUnsent,
      MenuIsNew, OnlyEntered, AtMostOnce

(* The menu appends its request to the queue.                              *)
LEMMA MenuQueuesStep ==
  ASSUME QueueInv, MenuQueues
  PROVE  QueueInv'
<1>1. PICK r \in menuReq : requestQueue' = Append(requestQueue, r)
  BY DEF MenuQueues, queueRequest
<1>2. menu' = "ready" /\ menuReq' = {}
      /\ UNCHANGED <<entered, consumer, req, sentCount>>
  BY DEF MenuQueues, MenuReturns, consumerVars
<1>3. /\ r \in Requests /\ r \in entered /\ sentCount[r] = 0
      /\ \A i \in 1 .. Len(requestQueue) : requestQueue[i] # r
  BY DEF QueueInv, QueueTypes, MenuIsNew, OnlyEntered
<1>4. /\ requestQueue' \in Seq(Requests)
      /\ Len(requestQueue') = Len(requestQueue) + 1
      /\ requestQueue'[Len(requestQueue) + 1] = r
      /\ \A i \in 1 .. Len(requestQueue) : requestQueue'[i] = requestQueue[i]
      /\ requestQueue # <<>> => requestQueue' # <<>> /\ Head(requestQueue') = Head(requestQueue)
  BY <1>1, <1>3 DEF QueueInv, QueueTypes
<1>. DEFINE n == Len(requestQueue)
<1>5. n \in Nat
  BY DEF QueueInv, QueueTypes
<1>. HIDE DEF n
<1>6. QueueTypes' /\ MenuIsNew' /\ AtMostOnce'
  BY <1>2, <1>4 DEF QueueInv, QueueTypes, MenuIsNew, AtMostOnce
<1>7. HeadIsCurrent'
  BY <1>2, <1>4 DEF QueueInv, HeadIsCurrent
<1>8. StoredOnce'
  BY <1>2, <1>3, <1>4, <1>5 DEF QueueInv, StoredOnce, n
<1>9. QueuedUnsent' /\ OnlyEntered'
  BY <1>2, <1>3, <1>4, <1>5 DEF QueueInv, QueuedUnsent, OnlyEntered, n
<1>. QED
  BY <1>6, <1>7, <1>8, <1>9 DEF QueueInv

(* The menu sends its request.                                             *)
LEMMA MenuSendsStep ==
  ASSUME QueueInv, MenuSends
  PROVE  QueueInv'
<1>1. PICK r \in menuReq : sentCount' = [sentCount EXCEPT ![r] = @ + 1]
  BY DEF MenuSends, Invoke
<1>2. menu' = "ready" /\ menuReq' = {}
      /\ UNCHANGED <<entered, consumer, req, requestQueue>>
  BY DEF MenuSends, MenuReturns, consumerVars
<1>3. /\ r \in Requests /\ r \in entered /\ sentCount[r] = 0
      /\ \A i \in 1 .. Len(requestQueue) : requestQueue[i] # r /\ requestQueue[i] \in Requests
  BY DEF QueueInv, QueueTypes, MenuIsNew, OnlyEntered
<1>. QED
  BY <1>1, <1>2, <1>3
  DEF QueueInv, QueueTypes, HeadIsCurrent, StoredOnce, QueuedUnsent,
      MenuIsNew, OnlyEntered, AtMostOnce

(* The consumer takes the first request.                                   *)
LEMMA PeekStep ==
  ASSUME QueueInv, Peek
  PROVE  QueueInv'
  BY DEF Peek, Turn, timeVars, menuVars, QueueInv, QueueTypes, HeadIsCurrent,
         StoredOnce, QueuedUnsent, MenuIsNew, OnlyEntered, AtMostOnce

(* The consumer stores its request again, behind the others.               *)
LEMMA QueueAgainStep ==
  ASSUME QueueInv, QueueAgain
  PROVE  QueueInv'
<1>1. /\ consumer = "offline" /\ consumer' = "processed"
      /\ UNCHANGED <<entered, menu, menuReq, req, sentCount>>
  BY DEF QueueAgain, Turn, menuVars
<1>2. PICK r \in req : requestQueue' = Append(requestQueue, r)
  BY DEF QueueAgain, queueRequest
<1>. DEFINE n == Len(requestQueue)
<1>3. /\ n \in Nat /\ n >= 1
      /\ r = requestQueue[1] /\ req = {r}
      /\ r \in Requests /\ r \in entered /\ sentCount[r] = 0
  BY <1>1, <1>2 DEF QueueInv, QueueTypes, HeadIsCurrent, QueuedUnsent, OnlyEntered
<1>4. /\ requestQueue' \in Seq(Requests)
      /\ Len(requestQueue') = n + 1
      /\ requestQueue'[n + 1] = r
      /\ \A i \in 1 .. n : requestQueue'[i] = requestQueue[i]
      /\ requestQueue' # <<>> /\ Head(requestQueue') = r
  BY <1>2, <1>3 DEF QueueInv, QueueTypes
<1>5. QueueTypes' /\ AtMostOnce' /\ HeadIsCurrent'
  BY <1>1, <1>3, <1>4 DEF QueueInv, QueueTypes, AtMostOnce, HeadIsCurrent
<1>6. StoredOnce'
  BY <1>1, <1>3, <1>4 DEF QueueInv, StoredOnce
<1>7. QueuedUnsent' /\ OnlyEntered' /\ MenuIsNew'
  BY <1>1, <1>3, <1>4 DEF QueueInv, QueuedUnsent, OnlyEntered, MenuIsNew
<1>. QED
  BY <1>5, <1>6, <1>7 DEF QueueInv

(* The consumer sends its request, which is nowhere else.                  *)
LEMMA ConsumerSendsStep ==
  ASSUME QueueInv, ConsumerSends
  PROVE  QueueInv'
<1>1. /\ consumer = "online" /\ consumer' = "processed"
      /\ UNCHANGED <<requestQueue, entered, menu, menuReq, req>>
  BY DEF ConsumerSends, Turn, menuVars
<1>2. PICK r \in req : sentCount' = [sentCount EXCEPT ![r] = @ + 1]
  BY DEF ConsumerSends, Invoke
<1>. DEFINE n == Len(requestQueue)
<1>3. /\ n \in Nat /\ n >= 1
      /\ r = requestQueue[1] /\ req = {r}
      /\ r \in Requests /\ r \in entered /\ sentCount[r] = 0
  BY <1>1, <1>2 DEF QueueInv, QueueTypes, HeadIsCurrent, QueuedUnsent, OnlyEntered
<1>4. /\ \A i \in 1 .. n : requestQueue[i] \in Requests /\ (i > 1 => requestQueue[i] # r)
      /\ r \notin menuReq
  BY <1>1, <1>3 DEF QueueInv, QueueTypes, StoredOnce, MenuIsNew
<1>5. QueueTypes' /\ AtMostOnce' /\ HeadIsCurrent' /\ StoredOnce'
  BY <1>1, <1>2, <1>3 DEF QueueInv, QueueTypes, AtMostOnce, HeadIsCurrent, StoredOnce
<1>6. QueuedUnsent' /\ OnlyEntered' /\ MenuIsNew'
  BY <1>1, <1>2, <1>3, <1>4 DEF QueueInv, QueueTypes, QueuedUnsent, OnlyEntered, MenuIsNew
<1>. QED
  BY <1>5, <1>6 DEF QueueInv

(* The consumer removes the first request.                                 *)
LEMMA DequeueStep ==
  ASSUME QueueInv, deQueueRequest
  PROVE  QueueInv'
<1>1. /\ consumer = "processed" /\ consumer' = "draining"
      /\ requestQueue' = Tail(requestQueue)
      /\ UNCHANGED <<entered, menu, menuReq, sentCount>>
  BY DEF deQueueRequest, Turn, menuVars
<1>. DEFINE n == Len(requestQueue)
<1>2. /\ n \in Nat /\ n >= 1
      /\ requestQueue' \in Seq(Requests)
      /\ Len(requestQueue') = n - 1
      /\ \A i \in 1 .. n - 1 : requestQueue'[i] = requestQueue[i + 1] /\ i + 1 \in 1 .. n
  BY <1>1 DEF QueueInv, QueueTypes, HeadIsCurrent
<1>3. QueueTypes' /\ AtMostOnce' /\ HeadIsCurrent'
  BY <1>1, <1>2 DEF QueueInv, QueueTypes, AtMostOnce, HeadIsCurrent
<1>4. StoredOnce'
  <2>. SUFFICES ASSUME NEW i \in 1 .. n - 1, NEW j \in 1 .. n - 1,
                       i < j, requestQueue'[i] = requestQueue'[j]
                PROVE  FALSE
    BY <1>2 DEF StoredOnce
  <2>. QED
    BY <1>2 DEF QueueInv, StoredOnce
<1>5. QueuedUnsent' /\ OnlyEntered' /\ MenuIsNew'
  BY <1>1, <1>2 DEF QueueInv, QueuedUnsent, OnlyEntered, MenuIsNew
<1>. QED
  BY <1>3, <1>4, <1>5 DEF QueueInv

(* Every step of the program preserves the invariant.                      *)
LEMMA QueueNext == QueueInv /\ [Next]_queueVars => QueueInv'
<1>. SUFFICES ASSUME QueueInv, [Next]_queueVars PROVE QueueInv'
  OBVIOUS
<1>. DEFINE Quiet == UNCHANGED <<requestQueue, sentCount, menuReq, entered, req>>
           Turns == \/ consumer' = consumer
                    \/ consumer' \in {"idle", "draining"} /\ consumer \in {"idle", "draining"}
                    \/ consumer' \in {"offline", "online"} /\ consumer = "peeked"
           Ends == \/ menu' = menu
                   \/ menu' = "exited" /\ menu = "ready"
<1>0. ASSUME Quiet, Turns, Ends PROVE QueueInv'
  BY <1>0, QuietStep
<1>1. CASE UNCHANGED queueVars
  BY <1>1, <1>0 DEF queueVars
<1>2. CASE setOffline \/ Exit \/ IntervalPasses
  <2>1. Quiet
    BY <1>2 DEF setOffline, Exit, IntervalPasses, timeVars, menuVars, consumerVars
  <2>2. Turns /\ Ends
    BY <1>2 DEF setOffline, Exit, IntervalPasses, timeVars, menuVars, consumerVars
  <2>. QED
    BY <2>1, <2>2, <1>0
<1>3. ASSUME NEW r \in Requests, EnterRequest(r) PROVE QueueInv'
  BY <1>3, EnterStep
<1>4. CASE Menu
  BY <1>4, MenuQueuesStep, MenuSendsStep DEF Menu
<1>5. CASE StartDraining \/ PeekEmpty \/ sendRequest
  <2>1. Quiet
    BY <1>5 DEF StartDraining, PeekEmpty, sendRequest, menuVars
  <2>2. Ends
    BY <1>5 DEF StartDraining, PeekEmpty, sendRequest, menuVars
  <2>3. StartDraining \/ PeekEmpty => Turns
    BY DEF StartDraining, PeekEmpty, Turn
  <2>4. sendRequest => Turns
    BY DEF sendRequest, Turn
  <2>. QED
    BY <2>1, <2>2, <2>3, <2>4, <1>5, <1>0
<1>6. CASE Peek \/ QueueAgain \/ ConsumerSends \/ deQueueRequest
  BY <1>6, PeekStep, QueueAgainStep, ConsumerSendsStep, DequeueStep
<1>. QED
  BY <1>1, <1>2, <1>3, <1>4, <1>5, <1>6 DEF Next, Consumer

LEMMA QueueInvHolds == Spec => []QueueInv
  BY QueueInit, QueueNext, PTL DEF Spec

(* The consumer always removes the request it has worked on               *)
(* (deQueueRequest drops whatever comes first).                            *)
THEOREM HeadStaysCurrent == Spec => []HeadIsCurrent
<1>1. QueueInv => HeadIsCurrent
  BY DEF QueueInv
<1>. QED
  BY <1>1, QueueInvHolds, PTL

(* No request is sent twice, however often the client goes offline while   *)
(* the queue is drained.                                                   *)
THEOREM NeverSentTwice == Spec => []AtMostOnce
<1>1. QueueInv => AtMostOnce
  BY DEF QueueInv
<1>. QED
  BY <1>1, QueueInvHolds, PTL
-------------------------------------------------------------------------------
(* The types of the variables that the invariant above does not mention.   *)
OtherTypes ==
  /\ isSetOffline \in BOOLEAN /\ elapsed \in BOOLEAN
  /\ req \in {{}} \union {{r} : r \in Requests}
  /\ entered \subseteq Requests /\ IsFiniteSet(entered)
  /\ offlines \in 0 .. MaxOffline

LEMMA OtherTypesInit == Init => OtherTypes
<1>. SUFFICES ASSUME Init PROVE OtherTypes
  OBVIOUS
<1>1. offlines \in 0 .. MaxOffline
  BY QueueAssumption DEF Init, QueueAssumption
<1>2. IsFiniteSet(entered) /\ entered \subseteq Requests
  BY FS_EmptySet DEF Init
<1>. QED
  BY <1>1, <1>2 DEF Init, OtherTypes

LEMMA OtherTypesNext ==
  ASSUME QueueInv, OtherTypes, [Next]_queueVars
  PROVE  OtherTypes'
<1>. USE DEF OtherTypes, timeVars, menuVars, consumerVars, MenuReturns, Turn, IsOffline
<1>1. CASE UNCHANGED queueVars
  BY <1>1 DEF queueVars
<1>2. CASE setOffline
  <2>1. offlines' \in 0 .. MaxOffline
    BY <1>2, QueueAssumption DEF setOffline, QueueAssumption
  <2>. QED
    BY <1>2, <2>1 DEF setOffline
<1>3. CASE Exit \/ IntervalPasses
  BY <1>3 DEF Exit, IntervalPasses
<1>4. ASSUME NEW r \in Requests, EnterRequest(r) PROVE OtherTypes'
  <2>1. IsFiniteSet(entered')
    BY <1>4, FS_AddElement DEF EnterRequest
  <2>2. isSetOffline' \in BOOLEAN /\ elapsed' = elapsed
    BY <1>4 DEF EnterRequest
  <2>3. entered' = entered \union {r} /\ UNCHANGED <<offlines, req>>
    BY <1>4 DEF EnterRequest
  <2>. QED
    BY <2>1, <2>2, <2>3
<1>5. CASE Menu
  BY <1>5 DEF Menu, MenuQueues, MenuSends
<1>6. CASE StartDraining \/ PeekEmpty \/ QueueAgain \/ ConsumerSends \/ deQueueRequest
  BY <1>6 DEF StartDraining, PeekEmpty, QueueAgain, ConsumerSends, deQueueRequest
<1>7. CASE Peek
  <2>1. Head(requestQueue) \in Requests
    BY <1>7 DEF Peek, QueueInv, QueueTypes
  <2>. QED
    BY <1>7, <2>1 DEF Peek
<1>8. CASE sendRequest
  <2>1. isSetOffline' \in BOOLEAN
    BY <1>8 DEF sendRequest
  <2>. QED
    BY <1>8, <2>1 DEF sendRequest
<1>. QED
  BY <1>1, <1>2, <1>3, <1>4, <1>5, <1>6, <1>7, <1>8 DEF Next, Consumer

(* Apart from its first, the queue holds every request once.               *)
LEMMA QueueIsBounded ==
  ASSUME QueueInv, OtherTypes
  PROVE  Len(requestQueue) <= Cardinality(entered) + 1
<1>. DEFINE n == Len(requestQueue)
            behind == [i \in 2 .. n |-> requestQueue[i]]
<1>1. n \in Nat /\ Cardinality(entered) \in Nat
  BY FS_CardinalityType DEF QueueInv, QueueTypes, OtherTypes
<1>2. IsFiniteSet(2 .. n) /\ Cardinality(2 .. n) = IF 2 > n THEN 0 ELSE n - 2 + 1
  <2>. HIDE DEF n
  <2>. QED
    BY <1>1, FS_Interval
<1>3. behind \in [2 .. n -> entered]
  BY <1>1 DEF QueueInv, OnlyEntered
<1>4. ASSUME Cardinality(entered) < Cardinality(2 .. n) PROVE FALSE
  <2>1. PICK i, j \in 2 .. n : i # j /\ behind[i] = behind[j]
    <3>. HIDE DEF n, behind
    <3>. QED
      BY <1>2, <1>3, <1>4, FS_PigeonHole DEF OtherTypes
  <2>2. requestQueue[i] = requestQueue[j] /\ (i < j \/ j < i) /\ i \in 1 .. n /\ j \in 1 .. n
    BY <1>1, <2>1
  <2>. QED
    BY <1>1, <2>1, <2>2 DEF QueueInv, StoredOnce
<1>. HIDE DEF n, behind
<1>. QED
  BY <1>1, <1>2, <1>4 DEF n

LEMMA OtherTypesHold == Spec => []OtherTypes
  BY OtherTypesInit, OtherTypesNext, QueueInvHolds, PTL DEF Spec

(* Every variable of the client keeps to its type, and the queue never     *)
(* holds more than one request twice although the consumer stores the one  *)
(* it works on a second time.                                              *)
THEOREM QueueTypeCorrect == Spec => []TypeOK
<1>1. QueueInv /\ OtherTypes => TypeOK
  <2>. SUFFICES ASSUME QueueInv, OtherTypes PROVE TypeOK
    OBVIOUS
  <2>1. menuReq \in {{}} \union {{r} : r \in Requests}
    BY DEF QueueInv, QueueTypes, MenuIsNew
  <2>. QED
    BY <2>1, QueueIsBounded DEF QueueInv, QueueTypes, OtherTypes, TypeOK
<1>. QED
  BY <1>1, QueueInvHolds, OtherTypesHold, PTL
-------------------------------------------------------------------------------
(* What the consumer has done with the first request before it removes it. *)
HeadIsDone ==
  consumer = "processed" =>
    \/ sentCount[Head(requestQueue)] > 0
    \/ \E i \in 2 .. Len(requestQueue) : requestQueue[i] = Head(requestQueue)

Queued(r) == \E i \in 1 .. Len(requestQueue) : requestQueue[i] = r

LEMMA QueuedElements ==
  ASSUME QueueInv
  PROVE  \A r : r \in ToSet(requestQueue) <=> Queued(r)
<1>1. DOMAIN requestQueue = 1 .. Len(requestQueue)
  BY DEF QueueInv, QueueTypes
<1>. QED
  BY <1>1 DEF ToSet, Queued

(* A request that is appended stands behind the others.                    *)
LEMMA AppendedRequest ==
  ASSUME QueueInv, NEW r \in Requests, queueRequest(r)
  PROVE  /\ requestQueue' \in Seq(Requests) /\ Len(requestQueue') = Len(requestQueue) + 1
         /\ requestQueue'[Len(requestQueue) + 1] = r
         /\ \A i \in 1 .. Len(requestQueue) : requestQueue'[i] = requestQueue[i]
         /\ requestQueue # <<>> => Head(requestQueue') = Head(requestQueue)
  BY DEF QueueInv, QueueTypes, queueRequest

LEMMA HeadIsDoneNext ==
  ASSUME QueueInv, HeadIsDone, [Next]_queueVars
  PROVE  HeadIsDone'
<1>. USE DEF timeVars, menuVars, consumerVars, MenuReturns, Turn
<1>1. ASSUME UNCHANGED <<consumer, requestQueue, sentCount>> PROVE HeadIsDone'
  BY <1>1 DEF HeadIsDone
<1>2. ASSUME consumer' # "processed" PROVE HeadIsDone'
  BY <1>2 DEF HeadIsDone
<1>3. ASSUME NEW r \in Requests, queueRequest(r), sentCount' = sentCount,
             consumer' = "processed" => requestQueue # <<>>,
             consumer' = consumer \/ r = Head(requestQueue)
      PROVE  HeadIsDone'
  <2>. SUFFICES ASSUME consumer' = "processed" PROVE HeadIsDone'
    BY <1>2
  <2>1. Len(requestQueue) \in Nat /\ Len(requestQueue) >= 1
    BY <1>3 DEF QueueInv, QueueTypes
  <2>2. CASE r = Head(requestQueue)
    BY <1>3, <2>1, <2>2, AppendedRequest DEF HeadIsDone
  <2>3. CASE consumer' = consumer
    BY <1>3, <2>1, <2>3, AppendedRequest DEF HeadIsDone
  <2>. QED
    BY <1>3, <2>2, <2>3
<1>4. CASE MenuQueues
  <2>1. PICK r \in Requests : queueRequest(r)
    BY <1>4 DEF MenuQueues, QueueInv, QueueTypes
  <2>2. consumer' = consumer /\ sentCount' = sentCount
    BY <1>4 DEF MenuQueues
  <2>3. consumer' = "processed" => requestQueue # <<>>
    BY <2>2 DEF QueueInv, HeadIsCurrent
  <2>. QED
    BY <1>3, <2>1, <2>2, <2>3
<1>5. CASE MenuSends
  <2>1. UNCHANGED <<consumer, requestQueue>>
    BY <1>5 DEF MenuSends
  <2>2. PICK r \in Requests : sentCount' = [sentCount EXCEPT ![r] = @ + 1]
    BY <1>5 DEF MenuSends, Invoke, QueueInv, QueueTypes
  <2>3. consumer = "processed" => Head(requestQueue) \in Requests
    BY DEF QueueInv, QueueTypes, HeadIsCurrent
  <2>. QED
    BY <2>1, <2>2, <2>3 DEF HeadIsDone, QueueInv, QueueTypes
<1>6. CASE QueueAgain
  <2>1. PICK r \in req : queueRequest(r)
    BY <1>6 DEF QueueAgain
  <2>2. requestQueue # <<>> /\ r = Head(requestQueue) /\ r \in Requests
    BY <1>6, <2>1 DEF QueueAgain, QueueInv, QueueTypes, HeadIsCurrent
  <2>. QED
    BY <1>3, <1>6, <2>1, <2>2 DEF QueueAgain
<1>7. CASE ConsumerSends
  <2>1. PICK r \in req : sentCount' = [sentCount EXCEPT ![r] = @ + 1]
    BY <1>7 DEF ConsumerSends, Invoke
  <2>2. r = Head(requestQueue) /\ r \in Requests /\ requestQueue' = requestQueue
    BY <1>7, <2>1 DEF ConsumerSends, QueueInv, QueueTypes, HeadIsCurrent
  <2>. QED
    BY <2>1, <2>2 DEF HeadIsDone, QueueInv, QueueTypes
<1>8. CASE setOffline \/ Exit \/ IntervalPasses \/ \E r \in Requests : EnterRequest(r)
  BY <1>1, <1>8 DEF setOffline, Exit, IntervalPasses, EnterRequest
<1>9. CASE StartDraining \/ PeekEmpty \/ Peek \/ sendRequest \/ deQueueRequest
  BY <1>2, <1>9 DEF StartDraining, PeekEmpty, Peek, sendRequest, deQueueRequest
<1>. QED
  BY <1>1, <1>4, <1>5, <1>6, <1>7, <1>8, <1>9 DEF Next, Menu, Consumer, queueVars
-------------------------------------------------------------------------------
Pending == {r \in ToSet(requestQueue) : sentCount[r] = 0}
Sent == {r \in Requests : sentCount[r] > 0}

LEMMA PendingRequests ==
  ASSUME QueueInv
  PROVE  \A r : r \in Pending <=> Queued(r) /\ sentCount[r] = 0
  BY QueuedElements DEF Pending

(* A request is sent for the first time, and is not kept any longer.       *)
LEMMA SendsRequest ==
  ASSUME QueueInv, NEW r \in Requests, Invoke(r), sentCount[r] = 0, requestQueue' = requestQueue
  PROVE  Store!Send(r)
<1>1. /\ sentCount'[r] > 0
      /\ \A q \in Requests : q # r => sentCount'[q] = sentCount[q]
  BY DEF Invoke, QueueInv, QueueTypes
<1>2. ToSet(requestQueue) \subseteq Requests
  BY QueuedElements DEF QueueInv, QueueTypes, Queued
<1>3. Pending' = Pending \ {r}
  BY <1>1, <1>2 DEF Pending
<1>4. Sent' = Sent \union {r} /\ r \notin Sent
  BY <1>1 DEF Sent
<1>. QED
  BY <1>3, <1>4 DEF Store!Send, Pending, Sent

(* Every step stores a new request, sends one or moves one in the queue.   *)
LEMMA OutboxStep ==
  ASSUME QueueInv, QueueInv', HeadIsDone, [Next]_queueVars
  PROVE  [Store!Next]_(Store!vars)
<1>. USE DEF timeVars, menuVars, consumerVars, MenuReturns, Turn
<1>0. \A r : /\ r \in Pending' <=> Queued(r)' /\ sentCount'[r] = 0
             /\ Queued(r) \/ Queued(r)' => r \in Requests
  <2>1. \A r : r \in ToSet(requestQueue') <=> Queued(r)'
    BY DEF ToSet, Queued, QueueInv, QueueTypes
  <2>. QED
    BY <2>1 DEF Pending, Queued, QueueInv, QueueTypes
<1>1. ASSUME sentCount' = sentCount,
             \A r \in Requests : sentCount[r] = 0 => (Queued(r)' <=> Queued(r))
      PROVE  UNCHANGED Store!vars
  <2>1. Pending' = Pending
    BY <1>0, <1>1, PendingRequests
  <2>2. Sent' = Sent
    BY <1>1 DEF Sent
  <2>. QED
    BY <2>1, <2>2 DEF Store!vars, Pending, Sent
<1>2. CASE UNCHANGED <<requestQueue, sentCount>>
  BY <1>1, <1>2 DEF Queued
<1>3. CASE MenuQueues
  <2>1. PICK r \in menuReq : queueRequest(r)
    BY <1>3 DEF MenuQueues
  <2>2. /\ r \in Requests /\ sentCount[r] = 0 /\ ~Queued(r) /\ sentCount' = sentCount
        /\ Len(requestQueue) \in Nat
    BY <1>3 DEF MenuQueues, QueueInv, QueueTypes, MenuIsNew, Queued
  <2>3. \A q : Queued(q)' <=> Queued(q) \/ q = r
    BY <2>1, <2>2, AppendedRequest DEF Queued
  <2>4. Pending' = Pending \union {r} /\ r \notin Pending
    BY <1>0, <2>2, <2>3, PendingRequests
  <2>5. Sent' = Sent /\ r \notin Sent
    BY <2>2 DEF Sent
  <2>6. Store!Store(r)
    BY <2>4, <2>5 DEF Store!Store, Pending, Sent
  <2>. QED
    BY <2>2, <2>6 DEF Store!Next
<1>4. CASE MenuSends
  <2>1. PICK r \in menuReq : Invoke(r)
    BY <1>4 DEF MenuSends
  <2>2. r \in Requests /\ sentCount[r] = 0 /\ requestQueue' = requestQueue
    BY <1>4 DEF MenuSends, QueueInv, QueueTypes, MenuIsNew
  <2>. QED
    BY <2>1, <2>2, SendsRequest DEF Store!Next
<1>5. CASE QueueAgain
  <2>1. PICK r \in req : queueRequest(r)
    BY <1>5 DEF QueueAgain
  <2>2. /\ r \in Requests /\ Queued(r) /\ sentCount' = sentCount /\ Len(requestQueue) \in Nat
    BY <1>5, <2>1 DEF QueueAgain, QueueInv, QueueTypes, HeadIsCurrent, Queued
  <2>3. \A q : Queued(q)' <=> Queued(q) \/ q = r
    BY <2>1, <2>2, AppendedRequest DEF Queued
  <2>. QED
    BY <1>1, <2>2, <2>3
<1>6. CASE ConsumerSends
  <2>1. PICK r \in req : Invoke(r)
    BY <1>6 DEF ConsumerSends
  <2>2. /\ r \in Requests /\ r = requestQueue[1] /\ 1 \in 1 .. Len(requestQueue)
        /\ requestQueue' = requestQueue
    BY <1>6, <2>1 DEF ConsumerSends, QueueInv, QueueTypes, HeadIsCurrent
  <2>3. sentCount[r] = 0
    BY <1>6, <2>2 DEF ConsumerSends, QueueInv, QueuedUnsent
  <2>. QED
    BY <2>1, <2>2, <2>3, SendsRequest DEF Store!Next
<1>7. CASE deQueueRequest
  <2>1. /\ requestQueue # <<>> /\ requestQueue' = Tail(requestQueue) /\ sentCount' = sentCount
        /\ Len(requestQueue) \in Nat /\ Len(requestQueue) >= 1
        /\ requestQueue \in Seq(Requests) /\ consumer = "processed"
    BY <1>7 DEF deQueueRequest, QueueInv, QueueTypes, HeadIsCurrent
  <2>2. /\ Len(requestQueue') = Len(requestQueue) - 1
        /\ \A i \in 1 .. Len(requestQueue) - 1 : requestQueue'[i] = requestQueue[i + 1]
        /\ Head(requestQueue) = requestQueue[1]
    BY <2>1
  <2>3. ASSUME NEW r \in Requests, sentCount[r] = 0
        PROVE  Queued(r)' <=> Queued(r)
    <3>1. Queued(r)' => Queued(r)
      BY <2>1, <2>2 DEF Queued
    <3>2. ASSUME NEW i \in 2 .. Len(requestQueue), requestQueue[i] = r
          PROVE  Queued(r)'
      <4>1. i - 1 \in 1 .. Len(requestQueue') /\ requestQueue'[i - 1] = r
        BY <2>1, <2>2, <3>2
      <4>. QED
        BY <4>1 DEF Queued
    <3>3. ASSUME requestQueue[1] = r
          PROVE  \E i \in 2 .. Len(requestQueue) : requestQueue[i] = r
      BY <2>1, <2>2, <2>3, <3>3 DEF HeadIsDone
    <3>. QED
      BY <2>1, <3>1, <3>2, <3>3 DEF Queued
  <2>. QED
    BY <1>1, <2>1, <2>3
<1>8. CASE setOffline \/ Exit \/ IntervalPasses \/ \E r \in Requests : EnterRequest(r)
  BY <1>2, <1>8 DEF setOffline, Exit, IntervalPasses, EnterRequest
<1>9. CASE StartDraining \/ PeekEmpty \/ Peek \/ sendRequest
  BY <1>2, <1>9 DEF StartDraining, PeekEmpty, Peek, sendRequest
<1>. QED
  BY <1>2, <1>3, <1>4, <1>5, <1>6, <1>7, <1>8, <1>9 DEF Next, Menu, Consumer, queueVars

(* The client keeps what it has stored until it sends it, and sends it     *)
(* once, although the menu and the consumer share the queue and the client *)
(* goes offline between the consumer's look at the queue and its send.     *)
THEOREM QueueIsAnOutbox == Spec => RefinesOutbox
<1>1. Init => Store!Init /\ HeadIsDone
  BY DEF Init, Store!Init, HeadIsDone, ToSet
<1>2. QueueInv /\ QueueInv' /\ HeadIsDone /\ [Next]_queueVars => [Store!Next]_(Store!vars)
  BY OutboxStep
<1>3. QueueInv /\ HeadIsDone /\ [Next]_queueVars => HeadIsDone'
  BY HeadIsDoneNext
<1>. QED
  BY <1>1, <1>2, <1>3, QueueInvHolds, PTL DEF Spec, Store!Spec, RefinesOutbox
===============================================================================
