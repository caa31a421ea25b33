-------------------------- MODULE LoadBalancingProofs -------------------------
(***************************************************************************)
(* Proofs about LoadBalancing, for every set of servers, loads and clients *)
(* and every value of the bounds.                                          *)
(***************************************************************************)
EXTENDS LoadBalancing, RecursionTheorems, FiniteSetTheorems, SequenceTheorems, TLAPS
-------------------------------------------------------------------------------
(* A new list brings its loads with it.                                    *)
LEMMA ListWithLoads ==
  ASSUME NEW list, ReplaceList(list)
  PROVE  LoadsMatchServers'
  BY DEF ReplaceList, LoadsMatchServers, ToSet

(* Whoever keeps the list and the set of known servers keeps them in step. *)
LEMMA SameServers ==
  ASSUME LoadsMatchServers, availableServers' = availableServers,
         DOMAIN loadStatus' = DOMAIN loadStatus
  PROVE  LoadsMatchServers'
  BY DEF LoadsMatchServers, ToSet

(* A report changes the load of a known server and nothing else.           *)
LEMMA ReportKeepsServers ==
  ASSUME NEW s, ReportLoadRPC(s)
  PROVE  availableServers' = availableServers /\ DOMAIN loadStatus' = DOMAIN loadStatus
<1>1. PICK l \in report[s] :
        loadStatus' = IF s \in DOMAIN loadStatus
                      THEN [loadStatus EXCEPT ![s] = l] ELSE loadStatus
  BY DEF ReportLoadRPC
<1>2. QED
  BY <1>1 DEF ReportLoadRPC

(* A client never touches the list.                                        *)
LEMMA ClientKeepsList ==
  ASSUME NEW c, ClientProcess(c)
  PROVE  UNCHANGED listVars
<1>1. CASE LoadBalancerRPC(c)
  BY <1>1 DEF LoadBalancerRPC
<1>2. CASE getBackendServer(c)
  BY <1>2 DEF getBackendServer, usePickFirst, useRoundRobin, useLeastLoad, Choose, IndexPanic
<1>3. CASE BalancerGone(c) \/ BackendRPC(c) \/ CallFails(c)
  BY <1>3 DEF BalancerGone, BackendRPC, CallFails, ClientEnds
<1>4. CASE sendRequestToBackendServer(c) \/ StartClient(c)
  BY <1>4 DEF sendRequestToBackendServer, StartClient
<1>5. QED
  BY <1>1, <1>2, <1>3, <1>4 DEF ClientProcess

LEMMA LoadsMatchNext == LoadsMatchServers /\ [Next]_vars => LoadsMatchServers'
<1> SUFFICES ASSUME LoadsMatchServers, [Next]_vars PROVE LoadsMatchServers'
  OBVIOUS
<1>1. CASE UNCHANGED listVars
  BY <1>1, SameServers DEF listVars
<1>2. CASE Discovery
  BY <1>1, <1>2, ListWithLoads DEF Discovery, FetchBackends, discoverBackends
<1>3. ASSUME NEW c \in Clients, ClientProcess(c)
      PROVE  LoadsMatchServers'
  BY <1>1, <1>3, ClientKeepsList
<1>4. ASSUME NEW s \in Servers, Reporting(s)
      PROVE  LoadsMatchServers'
  BY <1>1, <1>4, ReportKeepsServers, SameServers DEF Reporting, balancerVars
<1>5. ASSUME NEW s \in Servers, Startup(s) \/ Expiry(s) \/ Fault(s)
      PROVE  LoadsMatchServers'
  BY <1>1, <1>5 DEF Startup, Expiry, Fault, balancerVars
<1>6. QED
  BY <1>1, <1>2, <1>3, <1>4, <1>5 DEF Next, vars, balancerVars

LEMMA LoadsMatchInit == Init => LoadsMatchServers
  BY DEF Init, BalancerInit, LoadsMatchServers, ToSet

(* Whatever the order in which lists of etcd and reports of servers reach  *)
(* the load balancer, it knows the load of exactly the servers of its      *)
(* list, so that the search of useRoundRobin under the mutex ends and      *)
(* useLeastLoad compares loads that were reported or are the initial 0.    *)
THEOREM LoadsAlwaysMatch == Spec => []LoadsMatchServers
  BY LoadsMatchInit, LoadsMatchNext, PTL DEF Spec
-------------------------------------------------------------------------------
(* The list of etcd's answer grows by the server of each key it holds.     *)
LEMMA ServersUpToUnfolds ==
  ASSUME NEW registered
  PROVE  /\ ServersUpTo(registered)[0] = <<>>
         /\ \A k \in 1 .. Len(KeyOrder) :
              ServersUpTo(registered)[k] =
                IF KeyOrder[k] \in registered
                THEN Append(ServersUpTo(registered)[k - 1], KeyOrder[k])
                ELSE ServersUpTo(registered)[k - 1]
<1> DEFINE n == Len(KeyOrder)
           V == Seq(Servers)
           none == <<>>
           Longer(k, v) == IF KeyOrder[k] \in registered THEN Append(v, KeyOrder[k]) ELSE v
<1>1. n \in Nat /\ \A k \in 1 .. n : KeyOrder[k] \in Servers
  BY BalancerAssumption
<1>2. none \in V /\ \A k \in 1 .. n, v \in V : Longer(k, v) \in V
  BY <1>1
<1> HIDE DEF n, V, none, Longer
<1>3. PICK step \in [1 .. n -> [V -> V]] : \A k \in 1 .. n, v \in V : step[k][v] = Longer(k, v)
  <2> DEFINE h == [k \in 1 .. n |-> [v \in V |-> Longer(k, v)]]
  <2>1. h \in [1 .. n -> [V -> V]] /\ \A k \in 1 .. n, v \in V : h[k][v] = Longer(k, v)
    BY <1>2
  <2>2. QED
    BY <2>1
<1>4. PICK f \in [0 .. n -> V] : f[0] = none /\ \A k \in 1 .. n : f[k] = step[k][f[k - 1]]
  <2>1. n \in Nat /\ none \in V
    BY <1>1, <1>2
  <2>2. QED
    BY <2>1, RecursionOnInterval
<1>5. ASSUME NEW k \in 0 .. n
      PROVE  f[k] = IF k = 0 THEN none ELSE Longer(k, f[k - 1])
  <2>1. CASE k = 0
    BY <1>4, <2>1
  <2>2. CASE k # 0
    <3>1. k \in 1 .. n /\ k - 1 \in 0 .. n
      BY <1>1, <2>2
    <3>2. QED
      BY <1>3, <1>4, <2>2, <3>1
  <2>3. QED
    BY <2>1, <2>2
<1>6. f = [k \in 0 .. n |-> IF k = 0 THEN none ELSE Longer(k, f[k - 1])]
  BY <1>5
<1> DEFINE L == ServersUpTo(registered)
<1>7. L = [k \in 0 .. n |-> IF k = 0 THEN none ELSE Longer(k, L[k - 1])]
  BY <1>6, Zenon DEF ServersUpTo, Longer, n, none
<1> HIDE DEF L
<1>8. L[0] = none /\ \A k \in 1 .. n : L[k] = Longer(k, L[k - 1])
  BY <1>1, <1>7
<1>9. QED
  BY <1>8 DEF L, Longer, n, none

(* The answer of etcd is a list of servers, of at most one for each key;   *)
(* with more keys there is no server less.                                 *)
LEMMA ListOfKeys ==
  ASSUME NEW registered
  PROVE  \A k \in 0 .. Len(KeyOrder) :
           ServersUpTo(registered)[k] \in Seq(Servers) /\ Len(ServersUpTo(registered)[k]) <= k
<1> DEFINE n == Len(KeyOrder)
           L == ServersUpTo(registered)
           S == {k \in 0 .. n : L[k] \in Seq(Servers) /\ Len(L[k]) <= k}
<1>1. n \in Nat /\ \A k \in 1 .. n : KeyOrder[k] \in Servers
  BY BalancerAssumption
<1>2. L[0] = <<>>
      /\ \A k \in 1 .. n : L[k] = IF KeyOrder[k] \in registered
                                  THEN Append(L[k - 1], KeyOrder[k]) ELSE L[k - 1]
  BY ServersUpToUnfolds
<1> HIDE DEF n, L
<1>3. 0 \in S
  <2>1. L[0] \in Seq(Servers) /\ Len(L[0]) <= 0 /\ 0 \in 0 .. n
    BY <1>1, <1>2
  <2>2. QED
    BY <2>1
<1>4. ASSUME NEW k \in 0 .. n - 1, k \in S PROVE k + 1 \in S
  <2>1. k + 1 \in 1 .. n /\ k + 1 - 1 = k
    BY <1>1
  <2>2. L[k + 1] = IF KeyOrder[k + 1] \in registered THEN Append(L[k], KeyOrder[k + 1]) ELSE L[k]
    BY <1>2, <2>1
  <2>3. L[k + 1] \in Seq(Servers) /\ Len(L[k + 1]) <= k + 1 /\ k + 1 \in 0 .. n
    BY <1>1, <1>4, <2>1, <2>2
  <2>4. QED
    BY <2>3
<1>5. 0 .. n \subseteq S
  BY <1>1, <1>3, <1>4, IntervalInduction
<1>6. QED
  BY <1>5 DEF n, L

LEMMA MoreKeysMoreServers ==
  ASSUME NEW few, NEW many, few \subseteq many
  PROVE  Len(ServersUpTo(few)[Len(KeyOrder)]) <= Len(ServersUpTo(many)[Len(KeyOrder)])
<1> DEFINE n == Len(KeyOrder)
           F == ServersUpTo(few)
           M == ServersUpTo(many)
           S == {k \in 0 .. n : Len(F[k]) <= Len(M[k])}
<1>1. n \in Nat
  BY BalancerAssumption
<1>2. F[0] = <<>>
      /\ \A k \in 1 .. n : F[k] = IF KeyOrder[k] \in few
                                  THEN Append(F[k - 1], KeyOrder[k]) ELSE F[k - 1]
  BY ServersUpToUnfolds
<1>3. M[0] = <<>>
      /\ \A k \in 1 .. n : M[k] = IF KeyOrder[k] \in many
                                  THEN Append(M[k - 1], KeyOrder[k]) ELSE M[k - 1]
  BY ServersUpToUnfolds
<1>4. \A k \in 0 .. n : F[k] \in Seq(Servers) /\ M[k] \in Seq(Servers)
  BY ListOfKeys
<1> HIDE DEF n, F, M
<1>5. 0 \in S
  BY <1>1, <1>2, <1>3
<1>6. ASSUME NEW k \in 0 .. n - 1, k \in S PROVE k + 1 \in S
  <2>1. k + 1 \in 1 .. n /\ k + 1 - 1 = k /\ k \in 0 .. n
    BY <1>1
  <2>2. /\ F[k + 1] = IF KeyOrder[k + 1] \in few THEN Append(F[k], KeyOrder[k + 1]) ELSE F[k]
        /\ M[k + 1] = IF KeyOrder[k + 1] \in many THEN Append(M[k], KeyOrder[k + 1]) ELSE M[k]
    BY <1>2, <1>3, <2>1
  <2>3. \A q \in Seq(Servers) : \A s : Len(Append(q, s)) = Len(q) + 1 /\ Len(q) \in Nat
    OBVIOUS
  <2>4. F[k] \in Seq(Servers) /\ M[k] \in Seq(Servers) /\ Len(F[k]) <= Len(M[k])
    BY <1>4, <1>6, <2>1
  <2>5. KeyOrder[k + 1] \in few => KeyOrder[k + 1] \in many
    OBVIOUS
  <2>6. Len(F[k + 1]) <= Len(M[k + 1]) /\ k + 1 \in 0 .. n
    BY <1>1, <2>1, <2>2, <2>3, <2>4, <2>5
  <2>7. QED
    BY <2>6
<1>7. 0 .. n \subseteq S
  BY <1>1, <1>5, <1>6, IntervalInduction
<1>8. QED
  BY <1>1, <1>7 DEF n, F, M
-------------------------------------------------------------------------------
(* The search for the best element of a list, one after the other.         *)
IsSearch(f, n, first, list, load) ==
  f = [i \in 0 .. n |-> IF i = 0 THEN first
                        ELSE IF load[list[i]] < load[f[i - 1]] THEN list[i] ELSE f[i - 1]]

LEMMA SearchExists ==
  ASSUME NEW V, NEW n \in Nat, NEW first \in V, NEW list, NEW load,
         \A i \in 1 .. n : list[i] \in V
  PROVE  \E f : IsSearch(f, n, first, list, load)
<1> DEFINE Better(i, s) == IF load[list[i]] < load[s] THEN list[i] ELSE s
           step == [i \in 1 .. n |-> [s \in V |-> Better(i, s)]]
<1>1. \A i \in 1 .. n, s \in V : Better(i, s) \in V
  OBVIOUS
<1> HIDE DEF Better
<1>2. step \in [1 .. n -> [V -> V]]
  BY <1>1
<1>3. \A i \in 1 .. n, s \in V : step[i][s] = Better(i, s)
  BY <1>1
<1> HIDE DEF step
<1>4. PICK f \in [0 .. n -> V] : f[0] = first /\ \A i \in 1 .. n : f[i] = step[i][f[i - 1]]
  <2>1. PICK f : Recursion(f, V, first, n, step)
    BY <1>2, RecursionExists
  <2>2. QED
    BY <2>1 DEF Recursion
<1>5. ASSUME NEW i \in 0 .. n
      PROVE  f[i] = IF i = 0 THEN first ELSE Better(i, f[i - 1])
  <2>1. CASE i = 0
    BY <1>4, <2>1
  <2>2. CASE i # 0
    <3>1. i \in 1 .. n /\ i - 1 \in 0 .. n
      BY <2>2
    <3>2. QED
      BY <1>3, <1>4, <2>2, <3>1
  <2>3. QED
    BY <2>1, <2>2
<1>6. f = [i \in 0 .. n |-> IF i = 0 THEN first ELSE Better(i, f[i - 1])]
  BY <1>5
<1>7. QED
  BY <1>6, Zenon DEF Better, IsSearch

LEMMA SearchUnfolds ==
  ASSUME NEW n \in Nat, NEW first, NEW list, NEW load, NEW f, IsSearch(f, n, first, list, load)
  PROVE  /\ f[0] = first
         /\ \A i \in 1 .. n :
              f[i] = IF load[list[i]] < load[f[i - 1]] THEN list[i] ELSE f[i - 1]
<1> DEFINE Better(i, s) == IF load[list[i]] < load[s] THEN list[i] ELSE s
<1>1. f = [i \in 0 .. n |-> IF i = 0 THEN first ELSE Better(i, f[i - 1])]
  BY Zenon DEF IsSearch
<1> HIDE DEF Better
<1>2. f[0] = first /\ \A i \in 1 .. n : f[i] = Better(i, f[i - 1])
  BY <1>1
<1>3. QED
  BY <1>2 DEF Better

(* The best server so far is replaced by one with a smaller load.          *)
LEMMA LeastLoadedUnfolds ==
  ASSUME availableServers \in Seq(Servers), numServers > 0
  PROVE  /\ LeastLoaded[0] = availableServers[1]
         /\ \A i \in 1 .. numServers :
              LeastLoaded[i] =
                IF loadStatus[availableServers[i]] < loadStatus[LeastLoaded[i - 1]]
                THEN availableServers[i] ELSE LeastLoaded[i - 1]
<1>1. /\ numServers \in Nat /\ Server(0) \in Servers /\ Server(0) = availableServers[1]
      /\ \A i \in 1 .. numServers : availableServers[i] \in Servers
  BY DEF numServers, Server
<1>2. PICK f : IsSearch(f, numServers, Server(0), availableServers, loadStatus)
  BY <1>1, SearchExists
<1>3. IsSearch(LeastLoaded, numServers, Server(0), availableServers, loadStatus)
  BY <1>2, Zenon DEF LeastLoaded, IsSearch
<1>4. QED
  BY <1>1, <1>3, SearchUnfolds

(* The loop of useLeastLoad finds the first of the least loaded servers.   *)
LEMMA LeastLoadedIsLeast ==
  ASSUME availableServers \in Seq(Servers), numServers > 0,
         \A i \in 1 .. numServers : loadStatus[availableServers[i]] \in Nat
  PROVE  \E i \in 1 .. numServers :
           /\ LeastLoaded[numServers] = availableServers[i]
           /\ \A j \in 1 .. numServers :
                IF j < i THEN loadStatus[availableServers[j]] > loadStatus[availableServers[i]]
                ELSE loadStatus[availableServers[j]] >= loadStatus[availableServers[i]]
<1> DEFINE n == numServers
           load == [i \in 1 .. n |-> loadStatus[availableServers[i]]]
           First(k, i) ==
             /\ LeastLoaded[k] = availableServers[i]
             /\ i = 1 \/ i <= k
             /\ \A j \in 1 .. n :
                  j <= k => IF j < i THEN load[j] > load[i] ELSE load[j] >= load[i]
           S == {k \in 0 .. n : \E i \in 1 .. n : First(k, i)}
<1>1. /\ n \in Nat /\ n > 0
      /\ load \in [1 .. n -> Nat]
      /\ \A i \in 1 .. n : load[i] = loadStatus[availableServers[i]]
  BY DEF numServers
<1>2. /\ LeastLoaded[0] = availableServers[1]
      /\ \A k \in 1 .. n :
           LeastLoaded[k] = IF load[k] < loadStatus[LeastLoaded[k - 1]]
                            THEN availableServers[k] ELSE LeastLoaded[k - 1]
  BY LeastLoadedUnfolds
<1> HIDE DEF n, load
<1>3. 0 \in S
  <2>1. First(0, 1)
    BY <1>2
  <2>2. QED
    BY <1>1, <2>1
<1>4. ASSUME NEW k \in 0 .. n - 1, k \in S PROVE k + 1 \in S
  <2>1. PICK i \in 1 .. n : First(k, i)
    BY <1>4
  <2>2. k + 1 \in 1 .. n /\ k + 1 - 1 = k /\ k + 1 \in 0 .. n
    BY <1>1
  <2>3. LeastLoaded[k + 1] = IF load[k + 1] < load[i]
                             THEN availableServers[k + 1] ELSE availableServers[i]
    <3>1. LeastLoaded[k] = availableServers[i] /\ loadStatus[LeastLoaded[k]] = load[i]
      BY <1>1, <2>1
    <3>2. LeastLoaded[k + 1] = IF load[k + 1] < loadStatus[LeastLoaded[k]]
                               THEN availableServers[k + 1] ELSE LeastLoaded[k]
      BY <1>2, <2>2
    <3>3. QED
      BY <3>1, <3>2
  <2>4. CASE load[k + 1] < load[i]
    <3>1. \A j \in 1 .. n : j <= k + 1 =>
            IF j < k + 1 THEN load[j] > load[k + 1] ELSE load[j] >= load[k + 1]
      BY <1>1, <2>1, <2>2, <2>4
    <3>2. First(k + 1, k + 1)
      BY <2>2, <2>3, <2>4, <3>1
    <3>3. QED
      BY <2>2, <3>2
  <2>5. CASE ~(load[k + 1] < load[i])
    <3>1. load[k + 1] >= load[i] /\ ~(k + 1 < i)
      BY <1>1, <2>1, <2>2, <2>5
    <3>2. \A j \in 1 .. n : j <= k + 1 =>
            IF j < i THEN load[j] > load[i] ELSE load[j] >= load[i]
      <4>1. ASSUME NEW j \in 1 .. n, j <= k
            PROVE  IF j < i THEN load[j] > load[i] ELSE load[j] >= load[i]
        BY <2>1, <4>1
      <4>2. \A j \in 1 .. n : j <= k + 1 => j <= k \/ j = k + 1
        BY <1>1
      <4>3. QED
        BY <3>1, <4>1, <4>2
    <3>3. First(k + 1, i)
      BY <2>1, <2>2, <2>3, <2>5, <3>2
    <3>4. QED
      BY <2>2, <3>3
  <2>6. QED
    BY <2>4, <2>5
<1>5. n \in S
  <2> HIDE DEF S
  <2>1. 0 .. n \subseteq S
    BY <1>1, <1>3, <1>4, IntervalInduction
  <2>2. QED
    BY <1>1, <2>1
<1>6. PICK i \in 1 .. n : First(n, i)
  <2> HIDE DEF First
  <2>1. QED
    BY <1>5
<1>7. QED
  BY <1>1, <1>6 DEF n
-------------------------------------------------------------------------------
(* A list never has more servers than there are keys, nor does the index   *)
(* of round robin go beyond; of which server a load is must be known to    *)
(* see that the one that is chosen exists.                                 *)
IsList(list) == list \in Seq(Servers) /\ Len(list) <= Len(KeyOrder)

TypeInv ==
  /\ TypeOK
  /\ LoadsMatchServers
  /\ fetched # NotFetched => IsList(fetched)
  /\ IsList(availableServers)
  /\ rrIndex <= Len(KeyOrder)

(* There is one key for each server.                                       *)
LEMMA OneKeyEach == Len(KeyOrder) \in Nat /\ Cardinality(Servers) = Len(KeyOrder)
<1> DEFINE n == Len(KeyOrder)
           I == 1 .. n
<1>1. n \in Nat /\ KeyOrder \in [I -> Servers]
  BY BalancerAssumption
<1>2. \A s \in Servers : \E i \in I : KeyOrder[i] = s
  BY <1>1, BalancerAssumption DEF ToSet
<1>3. \A i, j \in I : KeyOrder[i] = KeyOrder[j] => i = j
  BY <1>1, BalancerAssumption DEF IsInjective
<1>4. IsFiniteSet(I) /\ Cardinality(I) = n
  BY <1>1, FS_Interval
<1>5. KeyOrder \in Surjection(I, Servers) /\ KeyOrder \in Injection(I, Servers)
  BY <1>1, <1>2, <1>3 DEF Surjection, Injection, IsInjective
<1> HIDE DEF n, I
<1>6. Cardinality(Servers) = Cardinality(I)
  BY <1>4, <1>5, FS_Surjection
<1>7. QED
  BY <1>1, <1>4, <1>6 DEF n

LEMMA TypeInvInit == Init => TypeInv
<1> SUFFICES ASSUME Init PROVE TypeInv
  OBVIOUS
<1>1. 0 \in 0 .. Cardinality(Servers) /\ Len(KeyOrder) \in Nat
  BY OneKeyEach
<1>2. BackendTypeOK
  BY BackendAssumption DEF Init, BackendInit, BackendTypeOK
<1>3. IsList(availableServers) /\ LoadsMatchServers
  BY <1>1 DEF Init, BalancerInit, IsList, LoadsMatchServers, ToSet
<1>4. loadStatus \in [DOMAIN loadStatus -> Loads \union {0}]
  BY DEF Init, BalancerInit
<1>5. BalancerTypeOK
  BY <1>1, <1>4 DEF Init, BalancerInit, BalancerTypeOK
<1>6. QED
  BY <1>1, <1>2, <1>3, <1>5 DEF Init, BalancerInit, TypeInv, TypeOK

(* The processes of the servers and etcd.                                  *)
LEMMA BackendTypes ==
  ASSUME BackendTypeOK, [Next]_vars
  PROVE  BackendTypeOK'
<1> USE DEF BackendTypeOK, Runs
<1> USE BackendAssumption
<1>1. CASE UNCHANGED backendVars
  BY <1>1 DEF backendVars
<1>2. ASSUME NEW s \in Servers, registerWithEtcd(s) PROVE BackendTypeOK'
  BY <1>2 DEF registerWithEtcd
<1>3. ASSUME NEW s \in Servers, Serve(s) PROVE BackendTypeOK'
  BY <1>3 DEF Serve
<1>4. ASSUME NEW s \in Servers, LeaseExpires(s) PROVE BackendTypeOK'
  BY <1>4 DEF LeaseExpires
<1>5. ASSUME NEW s \in Servers, ReportLoadStatus(s) PROVE BackendTypeOK'
  BY <1>5 DEF ReportLoadStatus
<1>6. ASSUME NEW s \in Servers, ReportAnswered(s) PROVE BackendTypeOK'
  BY <1>6 DEF ReportAnswered
<1>7. ASSUME NEW s \in Servers, ReportFails(s) PROVE BackendTypeOK'
  BY <1>7 DEF ReportFails, EndProcess
<1>8. ASSUME NEW s \in Servers, BackendDies(s) PROVE BackendTypeOK'
  BY <1>8 DEF BackendDies, EndProcess
<1>9. ASSUME NEW s \in Servers, KeepAliveEnds(s) PROVE BackendTypeOK'
  BY <1>9 DEF KeepAliveEnds
<1>10. QED
  BY <1>1, <1>2, <1>3, <1>4, <1>5, <1>6, <1>7, <1>8, <1>9
  DEF Next, vars, Discovery, ClientProcess, Startup, Expiry, Reporting, Fault

(* What is kept about the list and the index.                              *)
ListTypes ==
  /\ fetched # NotFetched => IsList(fetched)
  /\ IsList(availableServers)
  /\ loadStatus \in [DOMAIN loadStatus -> Loads \union {0}]
  /\ rrIndex \in 0 .. Len(KeyOrder)

ClientTypes ==
  /\ client \in [Clients -> {"start", "choosing", "told", "calling", "served", "failed"}]
  /\ target \in [Clients -> Servers \union {NoServer}]
  /\ output \in [Clients -> Answers \union {NoOutput}]

TypeParts ==
  /\ BackendTypeOK /\ LoadsMatchServers /\ ListTypes /\ ClientTypes
  /\ loadBalancingPolicy \in Policies /\ lb \in {"up", "panicked"}

LEMMA TypesInParts == TypeInv <=> TypeParts
<1>1. Len(KeyOrder) \in Nat /\ Cardinality(Servers) = Len(KeyOrder)
  BY OneKeyEach
<1>2. IsList(availableServers) => availableServers \in Seq(Servers)
  BY DEF IsList
<1>3. (fetched # NotFetched => IsList(fetched)) => fetched \in Seq(Servers) \union {NotFetched}
  BY DEF IsList
<1>4. rrIndex \in 0 .. Len(KeyOrder) => rrIndex <= Len(KeyOrder)
  BY <1>1
<1>5. QED
  BY <1>1, <1>2, <1>3, <1>4
  DEF TypeParts, TypeInv, TypeOK, BalancerTypeOK, ListTypes, ClientTypes

(* With a list round robin stays within its servers, and each of the       *)
(* policies gives a server of the list.                                    *)
LEMMA RoundRobinInRange ==
  ASSUME availableServers \in Seq(Servers), LoadsMatchServers, rrIndex \in Nat,
         NEW c \in Clients, useRoundRobin(c)
  PROVE  \E s \in ToSet(availableServers) : Choose(c, s) /\ rrIndex' \in 0 .. numServers - 1
<1> DEFINE n == numServers
           skips == {k \in 0 .. n - 1 : Server((rrIndex + k) % n) \in DOMAIN loadStatus}
           index == (rrIndex + Min(skips) + 1) % n
<1>1. n \in Nat /\ n > 0
  BY DEF useRoundRobin, numServers
<1>2. \A i \in 0 .. n - 1 : Server(i) \in ToSet(availableServers)
  BY DEF numServers, Server, ToSet
<1>3. \A i \in Nat : i % n \in 0 .. n - 1
  BY <1>1
<1>4. Choose(c, Server(index)) /\ rrIndex' = (index + 1) % n /\ skips # {}
  BY DEF useRoundRobin
<1>5. skips = 0 .. n - 1
  <2> HIDE DEF n
  <2>1. ASSUME NEW k \in 0 .. n - 1 PROVE Server((rrIndex + k) % n) \in DOMAIN loadStatus
    BY <1>2, <1>3 DEF LoadsMatchServers
  <2>2. QED
    BY <2>1
<1> HIDE DEF n, skips
<1>6. Min(skips) = 0
  <2>1. 0 \in skips /\ \A k \in skips : 0 <= k
    BY <1>1, <1>5
  <2>2. \A x \in skips : (\A y \in skips : x <= y) => x = 0
    BY <1>1, <1>5, <2>1
  <2>3. QED
    BY <2>1, <2>2 DEF Min
<1>7. index \in 0 .. n - 1
  BY <1>1, <1>3, <1>6
<1> HIDE DEF index
<1>8. rrIndex' \in 0 .. n - 1
  BY <1>3, <1>4, <1>7
<1>9. QED
  BY <1>2, <1>4, <1>7, <1>8 DEF n

LEMMA LoadsAreNumbers ==
  ASSUME LoadsMatchServers, availableServers \in Seq(Servers),
         loadStatus \in [DOMAIN loadStatus -> Loads \union {0}]
  PROVE  \A i \in 1 .. numServers : loadStatus[availableServers[i]] \in Nat
  BY BackendAssumption DEF LoadsMatchServers, ToSet, numServers

LEMMA ListedIsChosen ==
  ASSUME ListTypes, LoadsMatchServers, NEW c \in Clients, getBackendServer(c),
         ~IndexPanic
  PROVE  /\ \E s \in ToSet(availableServers) : Choose(c, s)
         /\ rrIndex' = rrIndex \/ rrIndex' \in 0 .. numServers - 1
<1>1. availableServers \in Seq(Servers) /\ rrIndex \in Nat
  BY OneKeyEach DEF ListTypes, IsList
<1>2. \A i \in 1 .. numServers : availableServers[i] \in ToSet(availableServers)
  BY <1>1 DEF ToSet, numServers
<1>3. CASE usePickFirst(c)
  <2>1. Choose(c, availableServers[1]) /\ 1 \in 1 .. numServers /\ UNCHANGED rrIndex
    BY <1>1, <1>3 DEF usePickFirst, Server, numServers
  <2>2. QED
    BY <1>2, <2>1
<1>4. CASE useRoundRobin(c)
  BY <1>1, <1>4, RoundRobinInRange
<1>5. CASE useLeastLoad(c)
  <2>1. numServers > 0 /\ Choose(c, LeastLoaded[numServers]) /\ UNCHANGED rrIndex
    BY <1>5 DEF useLeastLoad
  <2>2. \A i \in 1 .. numServers : loadStatus[availableServers[i]] \in Nat
    BY <1>1, LoadsAreNumbers DEF ListTypes
  <2>3. PICK i \in 1 .. numServers : LeastLoaded[numServers] = availableServers[i]
    BY <1>1, <2>1, <2>2, LeastLoadedIsLeast
  <2>4. QED
    BY <1>2, <2>1, <2>3
<1>6. QED
  BY <1>3, <1>4, <1>5 DEF getBackendServer

(* A step of the goroutine of discovery, of the handler of load reports,   *)
(* of a client or of nobody at the load balancer.                          *)
LEMMA BalancerSteps ==
  ASSUME [Next]_vars
  PROVE  \/ FetchBackends /\ UNCHANGED <<output, backendVars>>
         \/ discoverBackends /\ UNCHANGED <<output, backendVars>>
         \/ \E s \in Servers : ReportLoadRPC(s) /\ ReportAnswered(s) /\ UNCHANGED output
         \/ \E c \in Clients : ClientProcess(c)
         \/ UNCHANGED <<balancerVars, output>>
  BY DEF Next, vars, Discovery, Startup, Expiry, Reporting, Fault

LEMMA ListTypesStep ==
  ASSUME TypeInv, [Next]_vars
  PROVE  ListTypes'
<1>1. /\ BackendTypeOK /\ LoadsMatchServers /\ ListTypes
      /\ Len(KeyOrder) \in Nat
  BY TypesInParts, OneKeyEach DEF TypeParts
<1>2. ASSUME UNCHANGED <<fetched, listVars, rrIndex>> PROVE ListTypes'
  BY <1>1, <1>2 DEF ListTypes, IsList, listVars
<1>3. CASE FetchBackends
  <2>1. IsList(fetched')
    BY <1>1, <1>3, ListOfKeys DEF FetchBackends, IsList
  <2>2. QED
    BY <1>1, <1>3, <2>1 DEF FetchBackends, ListTypes, IsList, listVars
<1>4. CASE discoverBackends
  <2>1. IsList(availableServers') /\ fetched' = NotFetched /\ rrIndex' = rrIndex
    BY <1>1, <1>4 DEF discoverBackends, ReplaceList, ListTypes, IsList
  <2>2. loadStatus' \in [DOMAIN loadStatus' -> Loads \union {0}]
    BY <1>1, <1>4 DEF discoverBackends, ReplaceList, ListTypes
  <2>3. QED
    BY <1>1, <2>1, <2>2 DEF ListTypes, IsList
<1>5. ASSUME NEW s \in Servers, ReportLoadRPC(s) PROVE ListTypes'
  <2>1. PICK l \in report[s] :
          loadStatus' = IF s \in DOMAIN loadStatus
                        THEN [loadStatus EXCEPT ![s] = l] ELSE loadStatus
    BY <1>5 DEF ReportLoadRPC
  <2>2. l \in Loads
    BY <1>1, <2>1 DEF BackendTypeOK
  <2>3. loadStatus' \in [DOMAIN loadStatus' -> Loads \union {0}]
    BY <1>1, <2>1, <2>2 DEF ListTypes
  <2>4. QED
    BY <1>1, <1>5, <2>3 DEF ReportLoadRPC, ListTypes, IsList
<1>6. ASSUME NEW c \in Clients, getBackendServer(c) PROVE ListTypes'
  <2>1. CASE IndexPanic
    BY <1>2, <2>1 DEF IndexPanic
  <2>2. CASE ~IndexPanic
    <3>1. /\ UNCHANGED <<fetched, listVars>>
          /\ rrIndex' = rrIndex \/ rrIndex' \in 0 .. numServers - 1
      BY <1>1, <1>6, <2>2, ListedIsChosen DEF Choose
    <3>2. rrIndex' \in 0 .. Len(KeyOrder)
      BY <1>1, <3>1 DEF ListTypes, IsList, numServers
    <3>3. QED
      BY <1>1, <3>1, <3>2 DEF ListTypes, IsList, listVars
  <2>3. QED
    BY <2>1, <2>2
<1>7. ASSUME NEW c \in Clients, ClientProcess(c), ~getBackendServer(c) PROVE ListTypes'
  BY <1>2, <1>7
  DEF ClientProcess, LoadBalancerRPC, BalancerGone, sendRequestToBackendServer, BackendRPC,
      CallFails, StartClient, ClientEnds
<1>8. QED
  BY <1>2, <1>3, <1>4, <1>5, <1>6, <1>7, BalancerSteps DEF balancerVars

LEMMA ClientTypesStep ==
  ASSUME TypeInv, [Next]_vars
  PROVE  ClientTypes' /\ loadBalancingPolicy' = loadBalancingPolicy /\ lb' \in {"up", "panicked"}
<1> DEFINE Goal == /\ ClientTypes' /\ loadBalancingPolicy' = loadBalancingPolicy
                   /\ lb' \in {"up", "panicked"}
<1>1. /\ LoadsMatchServers /\ ListTypes /\ ClientTypes
      /\ availableServers \in Seq(Servers) /\ lb \in {"up", "panicked"}
  BY TypesInParts DEF TypeParts, ListTypes, IsList
<1>2. ASSUME UNCHANGED <<processVars, clientVars, output>> PROVE Goal
  BY <1>1, <1>2 DEF ClientTypes, processVars, clientVars
<1>3. CASE (FetchBackends \/ discoverBackends) /\ UNCHANGED output
  BY <1>2, <1>3 DEF FetchBackends, discoverBackends
<1>4. ASSUME NEW s \in Servers, ReportLoadRPC(s), UNCHANGED output PROVE Goal
  BY <1>2, <1>4 DEF ReportLoadRPC
<1>5. ASSUME NEW c \in Clients, getBackendServer(c), UNCHANGED output PROVE Goal
  <2>1. CASE IndexPanic
    BY <1>1, <2>1, <1>5 DEF IndexPanic, ClientTypes, clientVars
  <2>2. CASE ~IndexPanic
    <3>1. PICK s \in ToSet(availableServers) : Choose(c, s)
      BY <1>1, <1>5, <2>2, ListedIsChosen
    <3>2. s \in Servers
      BY <1>1, <3>1 DEF ToSet
    <3>3. QED
      BY <1>1, <1>5, <3>1, <3>2 DEF Choose, ClientTypes, processVars
  <2>3. QED
    BY <2>1, <2>2
<1>6. ASSUME NEW c \in Clients, BackendRPC(c) PROVE Goal
  <2>1. PICK t \in Tasks : output' = [output EXCEPT ![c] = <<t, executeTask(t[1], t[2])>>]
    BY <1>6 DEF BackendRPC
  <2>2. <<t, executeTask(t[1], t[2])>> \in Answers
    BY Zenon DEF Answers
  <2>3. output' \in [Clients -> Answers \union {NoOutput}]
    BY <1>1, <2>1, <2>2 DEF ClientTypes
  <2>4. QED
    BY <1>1, <1>6, <2>3 DEF BackendRPC, ClientEnds, ClientTypes, processVars
<1>7. ASSUME NEW c \in Clients, StartClient(c) PROVE Goal
  BY <1>1, <1>7 DEF StartClient, ClientTypes, processVars
<1>8. ASSUME NEW c \in Clients, LoadBalancerRPC(c), UNCHANGED output PROVE Goal
  BY <1>1, <1>8 DEF LoadBalancerRPC, ClientTypes, processVars
<1>9. ASSUME NEW c \in Clients, BalancerGone(c) \/ CallFails(c) \/ sendRequestToBackendServer(c)
      PROVE  Goal
  BY <1>1, <1>9
  DEF BalancerGone, CallFails, sendRequestToBackendServer, ClientEnds, ClientTypes, processVars
<1>10. ASSUME NEW c \in Clients, ClientProcess(c) PROVE Goal
  BY <1>5, <1>6, <1>7, <1>8, <1>9, <1>10 DEF ClientProcess
<1>11. QED
  BY <1>2, <1>3, <1>4, <1>10, BalancerSteps DEF balancerVars

LEMMA TypeInvHolds == Spec => []TypeInv
<1>1. TypeInv /\ [Next]_vars => TypeParts'
  <2> SUFFICES ASSUME TypeInv, [Next]_vars PROVE TypeParts'
    OBVIOUS
  <2>1. BackendTypeOK /\ LoadsMatchServers /\ loadBalancingPolicy \in Policies
    BY TypesInParts DEF TypeParts
  <2>2. BackendTypeOK' /\ LoadsMatchServers'
    BY <2>1, BackendTypes, LoadsMatchNext
  <2>3. /\ ListTypes' /\ ClientTypes' /\ lb' \in {"up", "panicked"}
        /\ loadBalancingPolicy' \in Policies
    BY <2>1, ListTypesStep, ClientTypesStep
  <2>4. QED
    BY <2>2, <2>3 DEF TypeParts
<1>2. QED
  BY <1>1, TypeInvInit, TypesInParts, PTL DEF Spec

(* Whatever servers come and go and whatever they report: the list names   *)
(* servers, every load is a number, the index of round robin stays within  *)
(* the number of servers, and the server a client is given, by any of the  *)
(* policies, is one of the servers.                                        *)
THEOREM BalancingTypeCorrect == Spec => []TypeOK
<1>1. TypeInv => TypeOK
  BY DEF TypeInv
<1>2. QED
  BY <1>1, TypeInvHolds, PTL
-------------------------------------------------------------------------------
(* Under LL a client is given the first of the least loaded servers of the *)
(* list, by the loads known at that moment, whatever lists and reports     *)
(* come in between its steps: for every number of servers.                 *)
THEOREM LeastLoadedIsChosen == Spec => LeastLoadChosen
<1> DEFINE Least(c, i) ==
             /\ target'[c] = availableServers[i]
             /\ \A j \in DOMAIN availableServers :
                  LET mine == loadStatus[availableServers[i]]
                      other == loadStatus[availableServers[j]]
                  IN  IF j < i THEN other > mine ELSE other >= mine
<1>1. ASSUME TypeInv, [Next]_vars, NEW c \in Clients,
             loadBalancingPolicy = "LL", client[c] = "choosing", client'[c] = "told"
      PROVE  \E i \in DOMAIN availableServers : Least(c, i)
  <2>1. /\ availableServers \in Seq(Servers) /\ LoadsMatchServers /\ ListTypes
        /\ client \in [Clients -> {"start", "choosing", "told", "calling", "served", "failed"}]
        /\ target \in [Clients -> Servers \union {NoServer}]
        /\ DOMAIN availableServers = 1 .. numServers
    BY <1>1, TypesInParts DEF TypeParts, ListTypes, IsList, ClientTypes, numServers
  <2>2. ASSUME NEW d \in Clients, ClientProcess(d)
        PROVE  useLeastLoad(c)
    <3>1. CASE d # c
      <4>1. \A e \in Clients \ {d} : client'[e] = client[e]
        BY <2>1, <2>2
        DEF ClientProcess, LoadBalancerRPC, getBackendServer, usePickFirst, useRoundRobin,
            useLeastLoad, IndexPanic, Choose, BalancerGone, sendRequestToBackendServer,
            BackendRPC, CallFails, StartClient, ClientEnds, clientVars
      <4>2. QED
        BY <1>1, <3>1, <4>1
    <3>2. CASE d = c
      <4>1. ~LoadBalancerRPC(c) /\ ~sendRequestToBackendServer(c) /\ ~StartClient(c)
        BY <1>1 DEF LoadBalancerRPC, sendRequestToBackendServer, StartClient
      <4>2. ~BalancerGone(c) /\ ~BackendRPC(c) /\ ~CallFails(c)
        BY <1>1, <2>1 DEF BalancerGone, BackendRPC, CallFails, ClientEnds
      <4>3. ~IndexPanic /\ ~usePickFirst(c) /\ ~useRoundRobin(c)
        BY <1>1 DEF IndexPanic, clientVars, usePickFirst, useRoundRobin
      <4>4. QED
        BY <2>2, <3>2, <4>1, <4>2, <4>3 DEF ClientProcess, getBackendServer
    <3>3. QED
      BY <3>1, <3>2
  <2>3. useLeastLoad(c)
    BY <1>1, <2>2, BalancerSteps
    DEF FetchBackends, discoverBackends, ReportLoadRPC, balancerVars, clientVars
  <2>4. numServers > 0 /\ Choose(c, LeastLoaded[numServers])
    BY <2>3 DEF useLeastLoad
  <2>5. \A i \in 1 .. numServers : loadStatus[availableServers[i]] \in Nat
    BY <2>1, LoadsAreNumbers DEF ListTypes
  <2>6. PICK i \in 1 .. numServers :
          /\ LeastLoaded[numServers] = availableServers[i]
          /\ \A j \in 1 .. numServers :
               IF j < i THEN loadStatus[availableServers[j]] > loadStatus[availableServers[i]]
               ELSE loadStatus[availableServers[j]] >= loadStatus[availableServers[i]]
    BY <2>1, <2>4, <2>5, LeastLoadedIsLeast
  <2>7. target'[c] = availableServers[i]
    BY <2>1, <2>4, <2>6 DEF Choose
  <2>8. QED
    BY <2>1, <2>6, <2>7
<1>2. TypeInv /\ [Next]_vars =>
        [\A c \in Clients :
           /\ loadBalancingPolicy = "LL"
           /\ client[c] = "choosing" /\ client'[c] = "told"
           => \E i \in DOMAIN availableServers : Least(c, i)]_vars
  BY <1>1
<1>3. QED
  BY <1>2, TypeInvHolds, PTL DEF Spec, LeastLoadChosen
-------------------------------------------------------------------------------
(* As long as no server has died and no lease is lost, nothing leaves      *)
(* etcd: no answer is longer than the next one, so that the list never     *)
(* shrinks, the index of round robin remains in it, and a client that has  *)
(* seen a list with servers will find one.                                 *)
Registered == Len(ServersUpTo(etcd)[Len(KeyOrder)])

GrowInv ==
  deaths + leaseLosses = 0 =>
    /\ lb = "up"
    /\ etcd = keptAlive
    /\ Len(availableServers) <= Registered
    /\ fetched # NotFetched =>
         Len(availableServers) <= Len(fetched) /\ Len(fetched) <= Registered
    /\ rrIndex = 0 \/ rrIndex < Len(availableServers)
    /\ \A c \in Clients : client[c] = "choosing" => availableServers # <<>>

LEMMA GrowInvInit == Init => GrowInv
<1> SUFFICES ASSUME Init PROVE GrowInv
  OBVIOUS
<1>1. ServersUpTo(etcd)[Len(KeyOrder)] \in Seq(Servers)
  BY OneKeyEach, ListOfKeys
<1>2. Registered \in Nat
  BY <1>1 DEF Registered
<1>3. QED
  BY <1>2 DEF Init, BackendInit, BalancerInit, GrowInv

(* Without losses no step removes a key or ends the load balancer.         *)
LEMMA OnlyGrows ==
  ASSUME TypeInv, GrowInv, [Next]_vars, deaths' + leaseLosses' = 0
  PROVE  /\ deaths + leaseLosses = 0
         /\ lb' = "up"
         /\ etcd' = keptAlive' /\ etcd \subseteq etcd'
<1>1. /\ deaths \in Nat /\ leaseLosses \in Nat
      /\ availableServers \in Seq(Servers) /\ LoadsMatchServers /\ ListTypes
  BY TypesInParts, BackendAssumption DEF TypeParts, BackendTypeOK, ListTypes, IsList
<1> DEFINE Goal == /\ deaths + leaseLosses = 0
                   /\ lb' = "up" /\ etcd' = keptAlive' /\ etcd \subseteq etcd'
<1>2. ASSUME UNCHANGED backendVars, lb' = lb PROVE Goal
  BY <1>2 DEF backendVars, GrowInv
<1>3. ASSUME NEW s \in Servers, Startup(s) PROVE Goal
  BY <1>3 DEF Startup, registerWithEtcd, Serve, GrowInv, balancerVars, processVars
<1>4. ASSUME NEW s \in Servers, Expiry(s) PROVE Goal
  <2>1. deaths + leaseLosses = 0
    BY <1>4 DEF Expiry, LeaseExpires
  <2>2. QED
    BY <1>4, <2>1 DEF Expiry, LeaseExpires, GrowInv
<1>5. ASSUME NEW s \in Servers, Reporting(s) PROVE Goal
  <2>1. deaths + leaseLosses = 0
    BY <1>5 DEF Reporting, ReportLoadStatus, ReportAnswered, ReportFails
  <2>2. QED
    BY <1>5, <2>1
    DEF Reporting, ReportLoadStatus, ReportAnswered, ReportFails, ReportLoadRPC, GrowInv,
        balancerVars, processVars
<1>6. ASSUME NEW s \in Servers, Fault(s) PROVE Goal
  <2>1. deaths' + leaseLosses' > 0
    BY <1>1, <1>6 DEF Fault, BackendDies, KeepAliveEnds
  <2>2. QED
    BY <2>1
<1>7. CASE Discovery
  BY <1>2, <1>7 DEF Discovery, FetchBackends, discoverBackends, processVars
<1>8. ASSUME NEW c \in Clients, ClientProcess(c) PROVE Goal
  <2>1. CASE IndexPanic /\ getBackendServer(c)
    <3>1. deaths + leaseLosses = 0
      BY <1>8 DEF ClientProcess, backendVars
    <3>2. availableServers # <<>> /\ (rrIndex = 0 \/ rrIndex < Len(availableServers))
      BY <2>1, <3>1 DEF GrowInv, getBackendServer
    <3>3. numServers > 0 /\ ~(rrIndex >= numServers)
      BY <1>1, <3>2 DEF numServers, ListTypes
    <3>4. QED
      BY <2>1, <3>3 DEF IndexPanic
  <2>2. CASE ~(IndexPanic /\ getBackendServer(c))
    <3>1. lb' = lb
      BY <1>8, <2>2
      DEF ClientProcess, LoadBalancerRPC, getBackendServer, usePickFirst, useRoundRobin,
          useLeastLoad, Choose, BalancerGone, sendRequestToBackendServer, BackendRPC,
          CallFails, StartClient, ClientEnds, processVars
    <3>2. QED
      BY <1>2, <1>8, <3>1 DEF ClientProcess
  <2>3. QED
    BY <2>1, <2>2
<1>9. CASE UNCHANGED vars
  BY <1>2, <1>9 DEF vars, balancerVars, processVars
<1>10. QED
  BY <1>3, <1>4, <1>5, <1>6, <1>7, <1>8, <1>9 DEF Next

LEMMA GrowInvNext == TypeInv /\ TypeInv' /\ GrowInv /\ [Next]_vars => GrowInv'
<1> SUFFICES ASSUME TypeInv, TypeInv', GrowInv, [Next]_vars, deaths' + leaseLosses' = 0
             PROVE  GrowInv'
  BY DEF GrowInv
<1> DEFINE InRange ==
             /\ Len(availableServers) <= Registered
             /\ fetched # NotFetched =>
                  Len(availableServers) <= Len(fetched) /\ Len(fetched) <= Registered
             /\ rrIndex = 0 \/ rrIndex < Len(availableServers)
           Seen == \A c \in Clients : client[c] = "choosing" => availableServers # <<>>
<1>1. /\ deaths + leaseLosses = 0 /\ lb' = "up" /\ etcd' = keptAlive'
      /\ Len(ServersUpTo(etcd)[Len(KeyOrder)]) <= Len(ServersUpTo(etcd')[Len(KeyOrder)])
  BY OnlyGrows, MoreKeysMoreServers
<1>2. InRange /\ Seen
  BY <1>1 DEF GrowInv
<1>3. /\ ServersUpTo(etcd)[Len(KeyOrder)] \in Seq(Servers)
      /\ ServersUpTo(etcd')[Len(KeyOrder)] \in Seq(Servers)
  BY OneKeyEach, ListOfKeys
<1>4. Registered \in Nat /\ Registered' \in Nat /\ Registered <= Registered'
  BY <1>1, <1>3 DEF Registered
<1>5. /\ availableServers \in Seq(Servers) /\ LoadsMatchServers /\ ListTypes
      /\ fetched # NotFetched => fetched \in Seq(Servers)
      /\ client \in [Clients -> {"start", "choosing", "told", "calling", "served", "failed"}]
      /\ numServers \in Nat
  BY TypesInParts DEF TypeParts, ListTypes, ClientTypes, IsList, numServers
<1>6. ASSUME UNCHANGED <<fetched, availableServers, rrIndex>> PROVE InRange'
  BY <1>2, <1>4, <1>5, <1>6
<1>7. ASSUME UNCHANGED <<availableServers, client>> PROVE Seen'
  BY <1>2, <1>7
<1>8. CASE FetchBackends /\ UNCHANGED <<output, backendVars>>
  <2>1. /\ fetched' = ServersUpTo(etcd)[Len(KeyOrder)]
        /\ UNCHANGED <<availableServers, rrIndex, client>>
    BY <1>8 DEF FetchBackends, listVars, clientVars
  <2>2. Len(fetched') = Registered /\ etcd' = etcd
    BY <1>8, <2>1 DEF Registered, backendVars
  <2>3. InRange'
    BY <1>2, <1>4, <1>5, <2>1, <2>2
  <2>4. QED
    BY <1>1, <1>7, <2>1, <2>3 DEF GrowInv
<1>9. CASE discoverBackends /\ UNCHANGED <<output, backendVars>>
  <2>1. /\ fetched # NotFetched /\ fetched' = NotFetched /\ availableServers' = fetched
        /\ UNCHANGED <<rrIndex, client>>
    BY <1>9 DEF discoverBackends, ReplaceList, clientVars
  <2>2. InRange'
    BY <1>2, <1>4, <1>5, <2>1 DEF ListTypes
  <2>3. availableServers # <<>> => fetched # <<>>
    BY <1>2, <1>5, <2>1
  <2>4. Seen'
    BY <1>2, <2>1, <2>3
  <2>5. QED
    BY <1>1, <2>2, <2>4 DEF GrowInv
<1>10. ASSUME NEW s \in Servers, ReportLoadRPC(s) PROVE GrowInv'
  BY <1>1, <1>6, <1>7, <1>10 DEF ReportLoadRPC, clientVars, GrowInv
<1>11. ASSUME NEW c \in Clients, ClientProcess(c) PROVE GrowInv'
  <2>1. UNCHANGED <<fetched, availableServers>>
    BY <1>11
    DEF ClientProcess, LoadBalancerRPC, getBackendServer, usePickFirst, useRoundRobin,
        useLeastLoad, IndexPanic, Choose, BalancerGone, sendRequestToBackendServer, BackendRPC,
        CallFails, StartClient, ClientEnds, listVars
  <2>2. InRange'
    <3>1. CASE getBackendServer(c) /\ ~IndexPanic
      <4>1. rrIndex' = rrIndex \/ rrIndex' \in 0 .. numServers - 1
        BY <1>5, <3>1, ListedIsChosen
      <4>2. QED
        BY <1>2, <1>4, <1>5, <2>1, <4>1 DEF numServers
    <3>2. CASE ~(getBackendServer(c) /\ ~IndexPanic)
      <4>1. rrIndex' = rrIndex
        BY <1>11, <3>2
        DEF ClientProcess, LoadBalancerRPC, getBackendServer, IndexPanic, BalancerGone,
            sendRequestToBackendServer, BackendRPC, CallFails, StartClient, ClientEnds
      <4>2. QED
        BY <1>6, <2>1, <4>1
    <3>3. QED
      BY <3>1, <3>2
  <2>3. Seen'
    <3>1. \A d \in Clients : client'[d] = "choosing" =>
            client[d] = "choosing" \/ availableServers # <<>>
      <4>1. CASE LoadBalancerRPC(c)
        BY <1>5, <4>1 DEF LoadBalancerRPC
      <4>2. CASE ~LoadBalancerRPC(c)
        BY <1>5, <1>11, <4>2
        DEF ClientProcess, getBackendServer, usePickFirst, useRoundRobin, useLeastLoad,
            IndexPanic, Choose, BalancerGone, sendRequestToBackendServer, BackendRPC,
            CallFails, StartClient, ClientEnds, clientVars
      <4>3. QED
        BY <4>1, <4>2
    <3>2. QED
      BY <1>2, <2>1, <3>1
  <2>4. QED
    BY <1>1, <2>2, <2>3 DEF GrowInv
<1>12. ASSUME UNCHANGED <<balancerVars, output>> PROVE GrowInv'
  BY <1>1, <1>6, <1>7, <1>12 DEF balancerVars, listVars, clientVars, GrowInv
<1>13. QED
  BY <1>8, <1>9, <1>10, <1>11, <1>12, BalancerSteps

(* The load balancer never dies before the first server does or the first  *)
(* lease is lost: however its list is read without the mutex, grows and is *)
(* late, an index found in range remains in range.                         *)
THEOREM PanicsAfterLoss == Spec => []PanicNeedsLoss
<1>1. TypeInv /\ GrowInv => PanicNeedsLoss
  <2>1. TypeInv => deaths \in Nat /\ leaseLosses \in Nat
    BY TypesInParts, BackendAssumption DEF TypeParts, BackendTypeOK
  <2>2. QED
    BY <2>1 DEF GrowInv, PanicNeedsLoss
<1>2. Spec => []GrowInv
  BY GrowInvInit, GrowInvNext, TypeInvHolds, PTL DEF Spec
<1>3. QED
  BY <1>1, <1>2, TypeInvHolds, PTL
-------------------------------------------------------------------------------
(* What the tasks of the backends compute, for every number.               *)

(* Division without remainder.                                             *)
LEMMA Divides ==
  ASSUME NEW n \in Nat, NEW d \in Nat \ {0}
  PROVE  n % d = 0 <=> \E k \in Nat : n = k * d
<1>1. n % d = 0 => \E k \in Nat : n = k * d
  <2>1. n = d * (n \div d) + (n % d) /\ n \div d \in Int
    OBVIOUS
  <2>2. n \div d \in Nat
    OBVIOUS
  <2>3. QED
    BY <2>1, <2>2
<1>2. ASSUME NEW k \in Nat, n = k * d PROVE n % d = 0
  BY <1>2
<1>3. QED
  BY <1>1, <1>2

(* The least number of a set.                                              *)
LEMMA LeastNumber ==
  ASSUME NEW T \in SUBSET Nat, T # {}
  PROVE  \E x \in T : \A y \in T : x <= y
<1> DEFINE S == {k \in Nat : (\E y \in T : y <= k) => \E x \in T : \A y \in T : x <= y}
<1>1. 0 \in S
  OBVIOUS
<1>2. ASSUME NEW k \in Nat, k \in S PROVE k + 1 \in S
  <2> SUFFICES ASSUME NEW z \in T, z <= k + 1, \A y \in T : ~ (y <= k)
               PROVE  \E x \in T : \A y \in T : x <= y
    BY <1>2
  <2>1. \A y \in T : z <= y
    OBVIOUS
  <2>2. QED
    BY <2>1
<1>3. Nat \subseteq S
  <2> HIDE DEF S
  <2>1. QED
    BY <1>1, <1>2, SetInduction
<1>4. PICK z \in T : TRUE
  OBVIOUS
<1>5. z \in S /\ z <= z
  BY <1>3, <1>4
<1>6. QED
  BY <1>5

(* Sets without neighbours: each either lacks the greatest number or has   *)
(* it and not the one before.                                              *)
Sparse(m) == {S \in SUBSET (1 .. m) : \A i \in S : i + 1 \notin S}

LEMMA SparseIsFinite ==
  ASSUME NEW m \in Int
  PROVE  IsFiniteSet(Sparse(m)) /\ Cardinality(Sparse(m)) \in Nat
<1>1. IsFiniteSet(1 .. m)
  BY FS_Interval
<1>2. IsFiniteSet(SUBSET (1 .. m))
  BY <1>1, FS_SUBSET
<1>3. Sparse(m) \in SUBSET (SUBSET (1 .. m))
  BY DEF Sparse
<1>4. QED
  BY <1>2, <1>3, FS_Subset, FS_CardinalityType

LEMMA SparseOfNothing ==
  ASSUME NEW m \in Int, m <= 0
  PROVE  Cardinality(Sparse(m)) = 1
<1>1. Sparse(m) = {{}}
  BY DEF Sparse
<1>2. QED
  BY <1>1, FS_Singleton

LEMMA SparseSplit ==
  ASSUME NEW m \in Nat
  PROVE  Cardinality(Sparse(m + 1)) = Cardinality(Sparse(m)) + Cardinality(Sparse(m - 1))
<1> DEFINE A == Sparse(m)
           Z == Sparse(m - 1)
           g == [S \in Z |-> S \union {m + 1}]
           B == {S \union {m + 1} : S \in Z}
<1>1. \A S \in Z : S \in SUBSET (1 .. m - 1) /\ m + 1 \notin S /\ m \notin S
  BY DEF Sparse
<1>2. g \in Bijection(Z, B)
  <2>1. g \in [Z -> B]
    OBVIOUS
  <2>2. ASSUME NEW S \in Z, NEW T \in Z, g[S] = g[T] PROVE S = T
    <3>1. S = (S \union {m + 1}) \ {m + 1} /\ T = (T \union {m + 1}) \ {m + 1}
      BY <1>1
    <3>2. S \union {m + 1} = T \union {m + 1}
      BY <2>2
    <3>3. QED
      BY <3>1, <3>2
  <2>3. \A R \in B : \E S \in Z : g[S] = R
    OBVIOUS
  <2> HIDE DEF g, B, Z
  <2>4. QED
    BY <2>1, <2>2, <2>3 DEF Bijection, Injection, Surjection, IsInjective
<1>3. IsFiniteSet(A) /\ IsFiniteSet(Z)
  BY SparseIsFinite
<1>4. IsFiniteSet(B) /\ Cardinality(B) = Cardinality(Z)
  <2> HIDE DEF g, B, Z
  <2>1. QED
    BY <1>2, <1>3, FS_Bijection DEF ExistsBijection
<1>5. A \intersect B = {}
  BY DEF Sparse
<1>6. Sparse(m + 1) = A \union B
  <2>1. ASSUME NEW S \in Sparse(m + 1) PROVE S \in A \union B
    <3>1. S \subseteq 1 .. m + 1 /\ \A i \in S : i + 1 \notin S
      BY DEF Sparse
    <3>2. CASE m + 1 \notin S
      <4>1. S \subseteq 1 .. m
        BY <3>1, <3>2
      <4>2. QED
        BY <3>1, <4>1 DEF Sparse
    <3>3. CASE m + 1 \in S
      <4> DEFINE T == S \ {m + 1}
      <4>1. m \notin S
        BY <3>1, <3>3
      <4>2. T \subseteq 1 .. m - 1
        BY <3>1, <4>1
      <4>3. T \in Z
        BY <3>1, <4>2 DEF Sparse
      <4>4. S = T \union {m + 1}
        BY <3>3
      <4>5. QED
        BY <4>3, <4>4
    <3>4. QED
      BY <3>2, <3>3
  <2>2. ASSUME NEW S \in A PROVE S \in Sparse(m + 1)
    BY DEF Sparse
  <2>3. ASSUME NEW T \in Z PROVE T \union {m + 1} \in Sparse(m + 1)
    <3> DEFINE S == T \union {m + 1}
    <3>1. T \subseteq 1 .. m - 1 /\ \A i \in T : i + 1 \notin T
      BY DEF Sparse
    <3>2. S \subseteq 1 .. m + 1
      BY <3>1
    <3>3. ASSUME NEW i \in S PROVE i + 1 \notin S
      BY <3>1
    <3>4. QED
      BY <3>2, <3>3 DEF Sparse
  <2>4. QED
    BY <2>1, <2>2, <2>3
<1>7. Cardinality(A \union B) = Cardinality(A) + Cardinality(B) - Cardinality(A \intersect B)
  <2> HIDE DEF A, B
  <2>1. QED
    BY <1>3, <1>4, FS_Union
<1>8. Cardinality(A) \in Nat /\ Cardinality(Z) \in Nat /\ Cardinality({}) = 0
  BY SparseIsFinite, FS_EmptySet
<1>9. Cardinality(Sparse(m + 1)) = Cardinality(A \union B) /\ Cardinality(A \intersect B) = Cardinality({})
  BY <1>5, <1>6, Zenon
<1> HIDE DEF B
<1>10. QED
  BY <1>4, <1>7, <1>8, <1>9

(* The recursion of fibonacci has a solution, and what it computes is the  *)
(* number of these sets.                                                   *)
LEMMA FibonacciUnfolds ==
  ASSUME NEW n \in Int
  PROVE  fibonacci[n] = IF n <= 1 THEN n ELSE fibonacci[n - 1] + fibonacci[n - 2]
<1> DEFINE N(m) == Cardinality(Sparse(m))
           f == [k \in Int |-> IF k <= 1 THEN k ELSE N(k - 2)]
<1>1. ASSUME NEW k \in Int PROVE f[k] = IF k <= 1 THEN k ELSE f[k - 1] + f[k - 2]
  <2>1. CASE k <= 1
    BY <2>1
  <2>2. CASE k = 2
    <3>1. N(0) = 1
      BY SparseOfNothing
    <3>2. QED
      BY <2>2, <3>1
  <2>3. CASE k = 3
    <3>1. N(0) = 1 /\ N(-1) = 1
      BY SparseOfNothing
    <3>2. N(0 + 1) = N(0) + N(0 - 1)
      BY SparseSplit
    <3>3. f[3] = N(1) /\ f[2] = N(0) /\ f[1] = 1
      OBVIOUS
    <3> HIDE DEF f, N
    <3>4. QED
      BY <2>3, <3>1, <3>2, <3>3
  <2>4. CASE k >= 4
    <3>1. N((k - 3) + 1) = N(k - 3) + N((k - 3) - 1)
      BY <2>4, SparseSplit
    <3>2. (k - 3) + 1 = k - 2 /\ (k - 3) - 1 = k - 4 /\ (k - 1) - 2 = k - 3 /\ (k - 2) - 2 = k - 4
      BY <2>4
    <3>3. f[k] = N(k - 2) /\ f[k - 1] = N((k - 1) - 2) /\ f[k - 2] = N((k - 2) - 2)
      BY <2>4
    <3> HIDE DEF f, N
    <3>4. QED
      BY <2>4, <3>1, <3>2, <3>3
  <2>5. QED
    BY <2>1, <2>2, <2>3, <2>4
<1>2. f = [k \in Int |-> IF k <= 1 THEN k ELSE f[k - 1] + f[k - 2]]
  <2> DEFINE F(k) == IF k <= 1 THEN k ELSE N(k - 2)
  <2>1. f = [k \in Int |-> f[k]]
    OBVIOUS
  <2> HIDE DEF f
  <2>2. QED
    BY <1>1, <2>1
<1> HIDE DEF f
<1>3. fibonacci = [k \in Int |-> IF k <= 1 THEN k ELSE fibonacci[k - 1] + fibonacci[k - 2]]
  BY <1>2, Zenon DEF fibonacci
<1>4. QED
  BY <1>3

LEMMA FibonacciCounts ==
  ASSUME NEW n \in Nat \ {0}
  PROVE  fibonacci[n] = Cardinality(Sparse(n - 2))
<1> DEFINE N(m) == Cardinality(Sparse(m))
           S == {k \in Nat : fibonacci[k + 1] = N(k - 1) /\ fibonacci[k + 2] = N(k)}
<1>1. 0 \in S
  <2>1. N(0) = 1 /\ N(-1) = 1
    BY SparseOfNothing
  <2>2. fibonacci[0] = 0 /\ fibonacci[1] = 1 /\ fibonacci[2] = fibonacci[2 - 1] + fibonacci[2 - 2]
    BY FibonacciUnfolds
  <2> HIDE DEF N
  <2>3. QED
    BY <2>1, <2>2
<1>2. ASSUME NEW k \in Nat, k \in S PROVE k + 1 \in S
  <2>1. N(k + 1) = N(k) + N(k - 1) /\ N(k) \in Nat /\ N(k - 1) \in Nat
    BY SparseSplit, SparseIsFinite
  <2>2. fibonacci[k + 3] = fibonacci[(k + 3) - 1] + fibonacci[(k + 3) - 2]
    BY FibonacciUnfolds
  <2>3. (k + 3) - 1 = k + 2 /\ (k + 3) - 2 = k + 1 /\ (k + 1) + 1 = k + 2 /\ (k + 1) + 2 = k + 3
        /\ (k + 1) - 1 = k
    OBVIOUS
  <2> HIDE DEF N
  <2>4. QED
    BY <1>2, <2>1, <2>2, <2>3
<1>3. Nat \subseteq S
  <2> HIDE DEF S
  <2>1. QED
    BY <1>1, <1>2, SetInduction
<1>4. n - 1 \in Nat /\ (n - 1) + 1 = n /\ (n - 1) - 1 = n - 2
  OBVIOUS
<1>5. n - 1 \in S
  BY <1>3, <1>4
<1> HIDE DEF N
<1>6. QED
  BY <1>4, <1>5 DEF N

(* Prime numbers: a number of two divisors is one that isPrime finds, with *)
(* a search for divisors up to its root.                                   *)
LEMMA SmallDivisor ==
  ASSUME NEW q \in Nat, NEW d \in Nat, NEW k \in Nat, q = k * d, 1 < d, d < q
  PROVE  \E i \in 2 .. q : i * i <= q /\ q % i = 0
<1>1. q = d * k /\ 1 < k /\ k < q
  OBVIOUS
<1>2. q % d = 0 /\ q % k = 0
  BY <1>1, Divides
<1>3. CASE d <= k
  <2>1. d * d <= q
    BY <1>1, <1>3
  <2>2. QED
    BY <1>2, <2>1
<1>4. CASE k <= d
  <2>1. k * k <= q
    BY <1>1, <1>4
  <2>2. QED
    BY <1>1, <1>2, <2>1
<1>5. QED
  BY <1>3, <1>4

LEMMA TwoDivisors ==
  ASSUME NEW q \in Nat \ {0}
  PROVE  isPrime(q) <=> Cardinality(Divisors(q)) = 2
<1>1. IsFiniteSet(Divisors(q))
  <2>1. IsFiniteSet(1 .. q) /\ Divisors(q) \in SUBSET (1 .. q)
    BY FS_Interval DEF Divisors
  <2>2. QED
    BY <2>1, FS_Subset
<1>2. 1 \in Divisors(q) /\ q \in Divisors(q)
  <2>1. q = q * 1 /\ q = 1 * q
    OBVIOUS
  <2>2. q % 1 = 0 /\ q % q = 0
    BY <2>1, Divides
  <2>3. QED
    BY <2>2 DEF Divisors
<1>3. CASE q = 1
  <2>1. Divisors(q) = {1}
    BY <1>2, <1>3 DEF Divisors
  <2>2. Cardinality(Divisors(q)) = 1
    BY <2>1, FS_Singleton
  <2>3. QED
    BY <1>3, <2>2 DEF isPrime
<1>4. CASE q >= 2
  <2>1. IsFiniteSet({1, q}) /\ Cardinality({1, q}) = 2
    <3>1. IsFiniteSet({1}) /\ Cardinality({1}) = 1 /\ {1, q} = {1} \union {q} /\ q \notin {1}
      BY <1>4, FS_Singleton
    <3>2. QED
      BY <3>1, FS_AddElement
  <2>2. {1, q} \in SUBSET Divisors(q)
    BY <1>2
  <2>3. Cardinality(Divisors(q)) = 2 <=> Divisors(q) = {1, q}
    BY <1>1, <2>1, <2>2, FS_Subset
  <2>4. ASSUME Divisors(q) = {1, q} PROVE isPrime(q)
    <3> SUFFICES ASSUME NEW i \in 2 .. q, i * i <= q, q % i = 0 PROVE FALSE
      BY <1>4 DEF isPrime
    <3>1. i \in Divisors(q)
      BY DEF Divisors
    <3>2. i = q
      BY <2>4, <3>1
    <3>3. q * q > q
      BY <1>4
    <3>4. QED
      BY <3>2, <3>3
  <2>5. ASSUME isPrime(q), NEW d \in Divisors(q), d \notin {1, q} PROVE FALSE
    <3>1. d \in Nat \ {0} /\ 1 < d /\ d < q /\ q % d = 0
      BY <2>5 DEF Divisors
    <3>2. PICK k \in Nat : q = k * d
      BY <3>1, Divides
    <3>3. QED
      BY <2>5, <3>1, <3>2, SmallDivisor DEF isPrime
  <2>6. QED
    BY <2>2, <2>3, <2>4, <2>5
<1>5. QED
  BY <1>3, <1>4

(* There is always another prime: the least divisor of one more than a     *)
(* common multiple.                                                        *)
IsMultiple(m, n) == \A d \in 1 .. n : \E k \in Nat : m = k * d

LEMMA CommonMultiple ==
  ASSUME NEW n \in Nat
  PROVE  \E m \in Nat \ {0} : IsMultiple(m, n)
<1> DEFINE S == {j \in Nat : \E m \in Nat \ {0} : IsMultiple(m, j)}
<1>1. 0 \in S
  BY DEF IsMultiple
<1>2. ASSUME NEW j \in Nat, j \in S PROVE j + 1 \in S
  <2>1. PICK m \in Nat \ {0} : IsMultiple(m, j)
    BY <1>2
  <2> DEFINE l == m * (j + 1)
  <2>2. l \in Nat \ {0}
    OBVIOUS
  <2>3. ASSUME NEW d \in 1 .. j + 1 PROVE \E k \in Nat : l = k * d
    <3>1. CASE d = j + 1
      <4>1. l = m * d
        BY <3>1
      <4> HIDE DEF l
      <4>2. QED
        BY <4>1
    <3>2. CASE d # j + 1
      <4>1. PICK k \in Nat : m = k * d
        <5>1. d \in 1 .. j
          BY <3>2
        <5>2. QED
          BY <2>1, <5>1 DEF IsMultiple
      <4>2. l = (k * (j + 1)) * d /\ k * (j + 1) \in Nat
        BY <4>1
      <4> HIDE DEF l
      <4>3. QED
        BY <4>2
    <3>3. QED
      BY <3>1, <3>2
  <2> HIDE DEF l
  <2>4. IsMultiple(l, j + 1)
    BY <2>3 DEF IsMultiple
  <2>5. QED
    BY <2>2, <2>4
<1>3. Nat \subseteq S
  <2> HIDE DEF S
  <2>1. QED
    BY <1>1, <1>2, SetInduction
<1>4. QED
  BY <1>3

LEMMA AnotherPrime ==
  ASSUME NEW n \in Nat
  PROVE  \E p \in Nat : p > n /\ isPrime(p)
<1>1. PICK m \in Nat \ {0} : IsMultiple(m, n)
  BY CommonMultiple
<1> DEFINE q == m + 1
           D == {d \in Nat : d >= 2 /\ \E k \in Nat : q = k * d}
<1>2. q \in D
  <2>1. q = 1 * q
    OBVIOUS
  <2>2. QED
    BY <2>1
<1>3. PICK p \in D : \A d \in D : p <= d
  <2>1. D \in SUBSET Nat /\ D # {}
    BY <1>2
  <2> HIDE DEF D
  <2>2. QED
    BY <2>1, LeastNumber
<1>4. PICK k \in Nat : q = k * p
  OBVIOUS
<1>5. isPrime(p)
  <2> SUFFICES ASSUME NEW i \in 2 .. p, i * i <= p, p % i = 0 PROVE FALSE
    BY DEF isPrime
  <2>1. PICK j \in Nat : p = j * i
    BY Divides
  <2>2. q = (k * j) * i /\ k * j \in Nat
    <3>1. k * (j * i) = (k * j) * i /\ k * j \in Nat
      OBVIOUS
    <3>2. QED
      BY <1>4, <2>1, <3>1
  <2>3. i \in D
    <3>1. i \in Nat /\ i >= 2
      OBVIOUS
    <3> HIDE DEF q
    <3>2. QED
      BY <2>2, <3>1
  <2>4. i < p
    <3>1. i < i * i
      OBVIOUS
    <3>2. QED
      BY <3>1
  <2>5. QED
    BY <1>3, <2>3, <2>4
<1>6. p > n
  <2> SUFFICES ASSUME p <= n PROVE FALSE
    OBVIOUS
  <2>1. PICK a \in Nat : m = a * p
    <3>1. p \in 1 .. n
      OBVIOUS
    <3>2. QED
      BY <1>1, <3>1 DEF IsMultiple
  <2>2. (k - a) * p = 1
    BY <1>4, <2>1
  <2>3. p >= 2 /\ k - a \in Int
    OBVIOUS
  <2>4. QED
    BY <2>2, <2>3
<1>7. QED
  BY <1>5, <1>6

(* How many primes there are up to p.                                      *)
NumPrimes(p) == Cardinality(Primes(p))

LEMMA PrimesAreFinite ==
  ASSUME NEW p \in Nat
  PROVE  IsFiniteSet(Primes(p)) /\ NumPrimes(p) \in Nat
<1>1. IsFiniteSet(1 .. p) /\ Primes(p) \in SUBSET (1 .. p)
  BY FS_Interval DEF Primes
<1>2. QED
  BY <1>1, FS_Subset, FS_CardinalityType DEF NumPrimes

LEMMA NoPrimes == NumPrimes(0) = 0 /\ NumPrimes(1) = 0
<1>1. Primes(0) = {}
  BY DEF Primes
<1>2. Primes(1) = {}
  <2>1. ~ isPrime(1)
    BY DEF isPrime
  <2>2. Cardinality(Divisors(1)) # 2
    BY <2>1, TwoDivisors
  <2>3. QED
    BY <2>2 DEF Primes
<1>3. QED
  BY <1>1, <1>2, FS_EmptySet DEF NumPrimes

LEMMA NextPrime ==
  ASSUME NEW p \in Nat
  PROVE  NumPrimes(p + 1) = IF isPrime(p + 1) THEN NumPrimes(p) + 1 ELSE NumPrimes(p)
<1>1. isPrime(p + 1) <=> Cardinality(Divisors(p + 1)) = 2
  BY TwoDivisors
<1>2. Primes(p + 1) = IF isPrime(p + 1) THEN Primes(p) \union {p + 1} ELSE Primes(p)
  BY <1>1 DEF Primes
<1>3. p + 1 \notin Primes(p)
  BY DEF Primes
<1>4. QED
  BY <1>2, <1>3, PrimesAreFinite, FS_AddElement DEF NumPrimes

LEMMA MorePrimes ==
  ASSUME NEW n \in Nat
  PROVE  \E p \in Nat : NumPrimes(p) >= n
<1> DEFINE S == {k \in Nat : \E p \in Nat : NumPrimes(p) >= k}
<1>1. 0 \in S
  BY NoPrimes
<1>2. ASSUME NEW k \in Nat, k \in S PROVE k + 1 \in S
  <2>1. PICK p \in Nat : NumPrimes(p) >= k
    BY <1>2
  <2>2. PICK q \in Nat : q > p /\ isPrime(q)
    BY AnotherPrime
  <2>3. Primes(p) \in SUBSET Primes(q - 1) /\ q - 1 \in Nat
    BY <2>2 DEF Primes
  <2>4. NumPrimes(p) <= NumPrimes(q - 1)
    BY <2>3, PrimesAreFinite, FS_Subset DEF NumPrimes
  <2>5. (q - 1) + 1 = q
    BY <2>2
  <2>6. NumPrimes(q) = NumPrimes(q - 1) + 1
    BY <2>2, <2>3, <2>5, NextPrime
  <2>7. NumPrimes(p) \in Nat /\ NumPrimes(q - 1) \in Nat
    BY <2>3, PrimesAreFinite
  <2>8. NumPrimes(q) >= k + 1
    BY <2>1, <2>4, <2>6, <2>7
  <2>9. QED
    BY <2>8
<1>3. Nat \subseteq S
  <2> HIDE DEF S
  <2>1. QED
    BY <1>1, <1>2, SetInduction
<1>4. QED
  BY <1>3

(* The search of nthPrime goes on until it has seen n primes.              *)
Finds(n, s) == {m \in Nat : m >= s[1] /\ s[2] + (NumPrimes(m) - NumPrimes(s[1])) >= n}

NextNumber(s) == <<s[1] + 1, IF isPrime(s[1] + 1) THEN s[2] + 1 ELSE s[2]>>

Searches(f, n) ==
  f = [s \in Nat \X Nat |->
        IF s[2] >= n THEN s[1]
        ELSE f[<<s[1] + 1, IF isPrime(s[1] + 1) THEN s[2] + 1 ELSE s[2]>>]]

Found(T) == IF T = {} THEN 0 ELSE CHOOSE x \in T : \A y \in T : x <= y

LEMMA FindsTheSame ==
  ASSUME NEW n \in Nat, NEW s \in Nat \X Nat, ~ (s[2] >= n)
  PROVE  /\ NextNumber(s) \in Nat \X Nat
         /\ Finds(n, s) = Finds(n, NextNumber(s))
<1>1. \A m \in Nat : NumPrimes(m) \in Nat
  BY PrimesAreFinite
<1>2. PICK a \in Nat, c \in Nat : s = <<a, c>>
  OBVIOUS
<1> DEFINE d == IF isPrime(a + 1) THEN c + 1 ELSE c
<1>3. d \in Nat /\ NextNumber(s) = <<a + 1, d>>
  BY <1>2 DEF NextNumber
<1>4. NumPrimes(a + 1) = NumPrimes(a) + (d - c)
  BY <1>1, NextPrime
<1>5. a \notin Finds(n, s)
  BY <1>1, <1>2 DEF Finds
<1> HIDE DEF d
<1>6. ASSUME NEW m \in Nat PROVE m \in Finds(n, s) <=> m \in Finds(n, NextNumber(s))
  <2>1. m \in Finds(n, s) <=> m >= a /\ c + (NumPrimes(m) - NumPrimes(a)) >= n
    BY <1>2 DEF Finds
  <2>2. m \in Finds(n, NextNumber(s)) <=> m >= a + 1 /\ d + (NumPrimes(m) - NumPrimes(a + 1)) >= n
    BY <1>3 DEF Finds
  <2>3. d + (NumPrimes(m) - NumPrimes(a + 1)) = c + (NumPrimes(m) - NumPrimes(a))
    BY <1>1, <1>3, <1>4
  <2>4. m = a => m \notin Finds(n, s)
    BY <1>5
  <2>5. QED
    BY <2>1, <2>2, <2>3, <2>4
<1>7. Finds(n, s) \subseteq Nat /\ Finds(n, NextNumber(s)) \subseteq Nat
  BY DEF Finds
<1>8. QED
  BY <1>3, <1>6, <1>7

LEMMA SearchIsDefined ==
  ASSUME NEW n \in Nat
  PROVE  \E f : Searches(f, n)
<1> DEFINE f == [s \in Nat \X Nat |-> Found(Finds(n, s))]
<1>1. ASSUME NEW s \in Nat \X Nat PROVE f[s] = IF s[2] >= n THEN s[1] ELSE f[NextNumber(s)]
  <2>1. CASE s[2] >= n
    <3> DEFINE T == Finds(n, s)
    <3>1. NumPrimes(s[1]) \in Nat /\ s[1] \in Nat /\ s[2] \in Nat
      BY PrimesAreFinite
    <3>2. s[1] \in T /\ \A y \in T : s[1] <= y
      BY <2>1, <3>1 DEF Finds
    <3>3. T \in SUBSET Nat
      BY DEF Finds
    <3> HIDE DEF T
    <3>4. \A x \in T : (\A y \in T : x <= y) => x = s[1]
      BY <3>1, <3>2, <3>3
    <3>5. Found(T) = s[1]
      BY <3>2, <3>4 DEF Found
    <3>6. QED
      BY <2>1, <3>5 DEF T
  <2>2. CASE ~ (s[2] >= n)
    <3>1. NextNumber(s) \in Nat \X Nat /\ Finds(n, s) = Finds(n, NextNumber(s))
      BY <2>2, FindsTheSame
    <3>2. Found(Finds(n, s)) = Found(Finds(n, NextNumber(s)))
      BY <3>1, Zenon
    <3>3. QED
      BY <2>2, <3>1, <3>2
  <2>3. QED
    BY <2>1, <2>2
<1>2. f = [s \in Nat \X Nat |-> f[s]]
  OBVIOUS
<1> HIDE DEF f
<1>3. f = [s \in Nat \X Nat |-> IF s[2] >= n THEN s[1] ELSE f[NextNumber(s)]]
  BY <1>1, <1>2
<1>4. Searches(f, n)
  BY <1>3 DEF Searches, NextNumber
<1>5. QED
  BY <1>4

LEMMA SearchEnds ==
  ASSUME NEW n \in Nat \ {0}, NEW f, Searches(f, n)
  PROVE  f[<<1, 0>>] \in Primes(f[<<1, 0>>]) /\ NumPrimes(f[<<1, 0>>]) = n
<1>1. \A a, c \in Nat :
        f[<<a, c>>] = IF c >= n THEN a ELSE f[<<a + 1, IF isPrime(a + 1) THEN c + 1 ELSE c>>]
  BY DEF Searches
<1>2. \A m \in Nat : NumPrimes(m) \in Nat
  BY PrimesAreFinite
<1> DEFINE T == {m \in Nat : NumPrimes(m) >= n}
<1>3. PICK p \in T : \A m \in T : p <= m
  <2>1. T \in SUBSET Nat /\ T # {}
    BY MorePrimes
  <2> HIDE DEF T
  <2>2. QED
    BY <2>1, LeastNumber
<1>4. p \in Nat /\ p > 1
  BY <1>3, NoPrimes
<1>5. \A m \in Nat : m < p => NumPrimes(m) < n
  BY <1>2, <1>3
<1> DEFINE S == {j \in Nat : j + 1 <= p => f[<<1, 0>>] = f[<<j + 1, NumPrimes(j + 1)>>]}
<1>6. 0 \in S
  BY NoPrimes
<1>7. ASSUME NEW j \in Nat, j \in S PROVE j + 1 \in S
  <2> SUFFICES ASSUME (j + 1) + 1 <= p PROVE f[<<1, 0>>] = f[<<(j + 1) + 1, NumPrimes((j + 1) + 1)>>]
    OBVIOUS
  <2>1. f[<<1, 0>>] = f[<<j + 1, NumPrimes(j + 1)>>]
    BY <1>4, <1>7
  <2>2. ~ (NumPrimes(j + 1) >= n) /\ NumPrimes(j + 1) \in Nat
    BY <1>2, <1>4, <1>5
  <2>3. NumPrimes((j + 1) + 1) = IF isPrime((j + 1) + 1) THEN NumPrimes(j + 1) + 1 ELSE NumPrimes(j + 1)
    BY NextPrime
  <2>4. QED
    BY <1>1, <2>1, <2>2, <2>3
<1>8. Nat \subseteq S
  <2> HIDE DEF S
  <2>1. QED
    BY <1>6, <1>7, SetInduction
<1>9. f[<<1, 0>>] = f[<<p, NumPrimes(p)>>]
  <2>1. p - 1 \in S /\ (p - 1) + 1 = p
    BY <1>4, <1>8
  <2>2. QED
    BY <1>4, <2>1
<1>10. f[<<1, 0>>] = p
  BY <1>1, <1>2, <1>3, <1>9
<1>11. NumPrimes(p) = n /\ isPrime(p)
  <2>1. NumPrimes(p - 1) < n /\ p - 1 \in Nat /\ (p - 1) + 1 = p
    BY <1>4, <1>5
  <2>2. NumPrimes(p) = IF isPrime(p) THEN NumPrimes(p - 1) + 1 ELSE NumPrimes(p - 1)
    BY <2>1, NextPrime
  <2>3. NumPrimes(p) >= n
    BY <1>3
  <2>4. QED
    BY <1>2, <2>1, <2>2, <2>3
<1>12. p \in Primes(p)
  BY <1>4, <1>11, TwoDivisors DEF Primes
<1>13. QED
  BY <1>10, <1>11, <1>12

LEMMA NthPrimeIsRight ==
  ASSUME NEW n \in Nat \ {0}
  PROVE  nthPrime(n) \in Primes(nthPrime(n)) /\ NumPrimes(nthPrime(n)) = n
<1> DEFINE f == CHOOSE g : Searches(g, n)
<1>1. Searches(f, n)
  BY SearchIsDefined
<1>2. ~ (n < 1)
  OBVIOUS
<1>3. nthPrime(n) = f[<<1, 0>>]
  BY <1>2, Zenon DEF nthPrime, Searches
<1> HIDE DEF f
<1>4. QED
  BY <1>1, <1>3, SearchEnds

(* The loop of Sum, in whatever order its numbers are added.               *)
LEMMA SumByTotal ==
  ASSUME NEW n \in Nat
  PROVE  \E f \in [SUBSET (0 .. n - 1) -> Nat] :
           IsTotal(f, [i \in 0 .. n - 1 |-> i + 1], 0 .. n - 1) /\ SumTo(n) = f[0 .. n - 1]
<1> DEFINE T == 0 .. n - 1
           w == [i \in T |-> i + 1]
           Adds(f) == f = [s \in SUBSET T |->
                            IF s = {} THEN 0 ELSE (Chosen(s) + 1) + f[s \ {Chosen(s)}]]
           g == CHOOSE f : Adds(f)
<1>1. IsFiniteSet(T) /\ \A x \in T : w[x] \in Nat /\ w[x] = x + 1
  BY FS_Interval
<1>2. \A s \in SUBSET T : s # {} => Chosen(s) \in T
  BY DEF Chosen
<1>3. SumTo(n) = g[T]
  BY Zenon DEF SumTo, MapThenSumSet, MapThenFoldSet, Chosen
<1> HIDE DEF w, T
<1>4. \A f : Adds(f) <=> IsTotal(f, w, T)
  <2>1. ASSUME NEW f, NEW s \in SUBSET T
        PROVE  (IF s = {} THEN 0 ELSE (Chosen(s) + 1) + f[s \ {Chosen(s)}])
               = (IF s = {} THEN 0 ELSE w[Chosen(s)] + f[s \ {Chosen(s)}])
    BY <1>1, <1>2
  <2>2. QED
    BY <2>1 DEF IsTotal
<1>5. PICK f \in [SUBSET T -> Nat] : IsTotal(f, w, T)
  BY <1>1, TotalExists
<1>6. Adds(g)
  <2> HIDE DEF Adds
  <2>1. QED
    BY <1>4, <1>5
<1>7. IsTotal(g, w, T)
  <2> HIDE DEF Adds, g
  <2>1. QED
    BY <1>4, <1>6
<1> HIDE DEF g, Adds
<1>8. g[T] = f[T]
  <2>1. \A s \in SUBSET T : g[s] = f[s]
    BY <1>1, <1>5, <1>7, TotalsAgree
  <2>2. QED
    BY <2>1
<1>9. QED
  BY <1>3, <1>5, <1>8 DEF T, w

LEMMA SumIsRight ==
  ASSUME NEW n \in Nat
  PROVE  2 * SumTo(n) = n * (n + 1)
<1> DEFINE T == 0 .. n - 1
           w == [i \in T |-> i + 1]
<1>1. PICK f \in [SUBSET T -> Nat] : IsTotal(f, w, T) /\ SumTo(n) = f[T]
  BY SumByTotal
<1>2. \A s \in SUBSET T : \A x \in T \ s : f[s \union {x}] = f[s] + w[x]
  <2>1. IsFiniteSet(T) /\ \A x \in T : w[x] \in Nat
    BY FS_Interval
  <2> HIDE DEF w, T
  <2>2. IsTotal(f, w, T)
    BY <1>1
  <2>3. AddsUp(f, w, T)
    BY <2>1, <2>2, TotalAdds
  <2>4. QED
    BY <2>3 DEF AddsUp
<1> DEFINE S == {k \in 0 .. n : 2 * f[0 .. k - 1] = k * (k + 1)}
<1>3. 0 \in S
  <2>1. f[{}] = 0
    BY <1>1 DEF IsTotal
  <2>2. 0 .. 0 - 1 = {}
    OBVIOUS
  <2>3. f[0 .. 0 - 1] = 0
    BY <2>1, <2>2, Zenon
  <2>4. QED
    BY <2>3
<1>4. ASSUME NEW k \in 0 .. n - 1, k \in S PROVE k + 1 \in S
  <2> DEFINE a == 0 .. k - 1
             b == 0 .. (k + 1) - 1
  <2>1. a \in SUBSET T /\ k \in T \ a /\ w[k] = k + 1 /\ b = a \union {k}
    OBVIOUS
  <2>2. 2 * f[a] = k * (k + 1)
    BY <1>4
  <2>3. f[a] \in Nat
    BY <2>1
  <2> HIDE DEF a, b, w, T
  <2>4. f[b] = f[a] + (k + 1)
    BY <1>2, <2>1
  <2>5. 2 * f[b] = k * (k + 1) + 2 * (k + 1)
    <3>1. 2 * (f[a] + (k + 1)) = 2 * f[a] + 2 * (k + 1)
      BY <2>3
    <3>2. QED
      BY <2>2, <2>4, <3>1
  <2>6. k * (k + 1) + 2 * (k + 1) = (k + 1) * ((k + 1) + 1)
    OBVIOUS
  <2>7. QED
    BY <2>5, <2>6 DEF b
<1>5. n \in S
  <2> HIDE DEF S
  <2>1. 0 .. n \subseteq S
    BY <1>3, <1>4, IntervalInduction
  <2>2. QED
    BY <2>1
<1>6. QED
  BY <1>1, <1>5

(* Each task is answered with what it asks for.                            *)
LEMMA TaskIsRight ==
  ASSUME NEW tasktype \in Nat, NEW n \in Nat \ {0}
  PROVE  IsAnswer(executeTask(tasktype, n), tasktype, n)
<1>1. CASE tasktype = 0
  BY <1>1, SumIsRight DEF IsAnswer, executeTask
<1>2. CASE tasktype = 1
  BY <1>2, NthPrimeIsRight DEF IsAnswer, executeTask, NumPrimes
<1>3. CASE tasktype \notin {0, 1}
  BY <1>3, FibonacciCounts DEF IsAnswer, executeTask, Sparse
<1>4. QED
  BY <1>1, <1>2, <1>3
-------------------------------------------------------------------------------
(* A client that has been served holds the answer to one of its tasks.     *)
Served == \A c \in Clients : client[c] = "served" => output[c] \in Answers

LEMMA ServedNext == TypeInv /\ Served /\ [Next]_vars => Served'
<1> SUFFICES ASSUME TypeInv, Served, [Next]_vars PROVE Served'
  OBVIOUS
<1>1. DOMAIN client = Clients /\ DOMAIN output = Clients
  BY TypesInParts DEF TypeParts, ClientTypes
<1>2. ASSUME UNCHANGED <<client, output>> PROVE Served'
  BY <1>2 DEF Served
<1>3. ASSUME NEW c \in Clients, client' = [client EXCEPT ![c] = client'[c]], client'[c] # "served",
             UNCHANGED output \/ output' = [output EXCEPT ![c] = NoOutput]
      PROVE  Served'
  BY <1>1, <1>3 DEF Served
<1>4. ASSUME NEW c \in Clients, BackendRPC(c) PROVE Served'
  <2>1. PICK t \in Tasks : output' = [output EXCEPT ![c] = <<t, executeTask(t[1], t[2])>>]
    BY <1>4 DEF BackendRPC
  <2>2. <<t, executeTask(t[1], t[2])>> \in Answers
    BY Zenon DEF Answers
  <2>3. client' = [client EXCEPT ![c] = "served"]
    BY <1>4 DEF BackendRPC, ClientEnds
  <2>4. QED
    BY <1>1, <2>1, <2>2, <2>3 DEF Served
<1>5. ASSUME NEW c \in Clients, ClientProcess(c) PROVE Served'
  <2>1. CASE getBackendServer(c) /\ UNCHANGED output
    <3>1. CASE IndexPanic
      BY <1>2, <2>1, <3>1 DEF getBackendServer, IndexPanic, clientVars
    <3>2. CASE ~ IndexPanic
      <4>1. \E s : Choose(c, s)
        BY <2>1, <3>2 DEF getBackendServer, usePickFirst, useRoundRobin, useLeastLoad
      <4>2. client' = [client EXCEPT ![c] = "told"]
        BY <4>1 DEF Choose
      <4>3. QED
        BY <1>1, <1>3, <2>1, <4>2
    <3>3. QED
      BY <3>1, <3>2
  <2>2. CASE LoadBalancerRPC(c) /\ UNCHANGED output
    BY <1>1, <1>3, <2>2 DEF LoadBalancerRPC
  <2>3. CASE BalancerGone(c) \/ CallFails(c) \/ sendRequestToBackendServer(c)
    BY <1>1, <1>3, <2>3 DEF BalancerGone, CallFails, sendRequestToBackendServer, ClientEnds
  <2>4. CASE StartClient(c)
    BY <1>1, <1>3, <2>4 DEF StartClient
  <2>5. QED
    BY <1>4, <1>5, <2>1, <2>2, <2>3, <2>4 DEF ClientProcess
<1>6. CASE Discovery
  BY <1>2, <1>6 DEF Discovery, FetchBackends, discoverBackends, clientVars
<1>7. ASSUME NEW s \in Servers, Startup(s) \/ Expiry(s) \/ Reporting(s) \/ Fault(s)
      PROVE  Served'
  BY <1>2, <1>7 DEF Startup, Expiry, Reporting, Fault, balancerVars, clientVars, ReportLoadRPC
<1>8. QED
  BY <1>2, <1>5, <1>6, <1>7 DEF Next, vars, balancerVars, clientVars

LEMMA AnswersRight == Served => AnswerIsRight
<1> SUFFICES ASSUME NEW c \in Clients, output[c] \in Answers
             PROVE  LET t == output[c][1] IN IsAnswer(output[c][2], t[1], t[2])
  BY DEF Served, AnswerIsRight
<1>1. PICK t \in Tasks : output[c] = <<t, executeTask(t[1], t[2])>>
  BY DEF Answers
<1>2. t[1] \in Nat /\ t[2] \in Nat \ {0}
  BY TasksAssumption DEF TasksAssumption
<1>3. IsAnswer(executeTask(t[1], t[2]), t[1], t[2])
  BY <1>2, TaskIsRight
<1>4. output[c][1] = t /\ output[c][2] = executeTask(t[1], t[2])
  BY <1>1
<1>5. QED
  BY <1>3, <1>4, Zenon

(* Every client is told the sum, the prime or the Fibonacci number it has  *)
(* asked for, for every number and whichever server answers: the search    *)
(* for divisors may stop at the root, and the search for a prime ends.     *)
THEOREM AnswersAreRight == Spec => []AnswerIsRight
<1>1. Init => Served
  BY DEF Init, BalancerInit, Served
<1>2. QED
  BY <1>1, ServedNext, AnswersRight, TypeInvHolds, PTL DEF Spec
===============================================================================
