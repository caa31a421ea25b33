----------------------------- MODULE LoadBalancing ----------------------------
(***************************************************************************)
(* Backend servers, etcd, load balancer and clients of q1 together.        *)
(* A client (q1/client/main.go) asks the load balancer for a server, calls *)
(* it and ends; a client process that has ended may be started again.      *)
(***************************************************************************)
EXTENDS LoadBalancer, BackendTasks

CONSTANT Tasks   \* the requests <<TaskType, Num>> a client makes

ASSUME TasksAssumption == Tasks \subseteq (0 .. 3) \X (Nat \ {0})

VARIABLE output   \* the task each client has had done, and the answer

vars == <<backendVars, balancerVars, output>>

NoOutput == <<>>

(* The tasks with what the servers answer to them.                         *)
Answers == {<<t, executeTask(t[1], t[2])>> : t \in Tasks}

Init ==
  /\ BackendInit
  /\ BalancerInit
  /\ output = [c \in Clients |-> NoOutput]
-------------------------------------------------------------------------------
ClientEnds(c, how) ==
  /\ client' = [client EXCEPT ![c] = how]
  /\ target' = [target EXCEPT ![c] = NoServer]
  /\ UNCHANGED <<processVars, fetched, listVars, rrIndex>>

(* sendRequestToLoadBalancer: log.Fatalf when there is no answer.          *)
BalancerGone(c) ==
  /\ lb = "panicked"
  /\ client[c] \in {"start", "choosing"}
  /\ ClientEnds(c, "failed")
  /\ UNCHANGED output

(* The client calls the server it has been given and waits.                *)
sendRequestToBackendServer(c) ==
  /\ client[c] = "told"
  /\ client' = [client EXCEPT ![c] = "calling"]
  /\ UNCHANGED <<processVars, fetched, listVars, rrIndex, target, output>>

(* Mutant: the two numbers of the request are exchanged.                   *)
BackendRPCExchanges(c) ==
  /\ client[c] = "calling"
  /\ backend[target[c]] = "serving"
  /\ \E t \in Tasks :
       output' = [output EXCEPT ![c] = <<t, executeTask(t[2], t[1])>>]
  /\ ClientEnds(c, "served")

(* The server's handler takes its time and answers.  Which task it has     *)
(* been sent matters only now.                                             *)
BackendRPC(c) ==
  /\ client[c] = "calling"
  /\ backend[target[c]] = "serving"
  /\ \E t \in Tasks :
       output' = [output EXCEPT ![c] = <<t, executeTask(t[1], t[2])>>]
  /\ ClientEnds(c, "served")

(* Or the server does not listen yet, or no longer.                        *)
CallFails(c) ==
  /\ client[c] = "calling"
  /\ backend[target[c]] # "serving"
  /\ ClientEnds(c, "failed")
  /\ UNCHANGED output

StartClient(c) ==
  /\ client[c] \in {"served", "failed"}
  /\ client' = [client EXCEPT ![c] = "start"]
  /\ output' = [output EXCEPT ![c] = NoOutput]
  /\ UNCHANGED <<processVars, fetched, listVars, rrIndex, target>>
-------------------------------------------------------------------------------
Discovery == (FetchBackends \/ discoverBackends) /\ UNCHANGED <<backendVars, output>>

ClientProcess(c) ==
  /\ \/ (LoadBalancerRPC(c) \/ getBackendServer(c)) /\ UNCHANGED output
     \/ BalancerGone(c) \/ sendRequestToBackendServer(c) \/ BackendRPC(c)
     \/ CallFails(c) \/ StartClient(c)
  /\ UNCHANGED backendVars

Startup(s) == (registerWithEtcd(s) \/ Serve(s)) /\ UNCHANGED <<balancerVars, output>>

Expiry(s) == LeaseExpires(s) /\ UNCHANGED <<balancerVars, output>>

Reporting(s) ==
  /\ \/ ReportLoadStatus(s) /\ UNCHANGED balancerVars
     \/ ReportLoadRPC(s) /\ ReportAnswered(s)
     \/ lb = "panicked" /\ ReportFails(s) /\ UNCHANGED balancerVars
  /\ UNCHANGED output

Fault(s) ==
  /\ BackendDies(s) \/ KeepAliveEnds(s)
  /\ UNCHANGED <<balancerVars, output>>

Next ==
  \/ Discovery
  \/ \E c \in Clients : ClientProcess(c)
  \/ \E s \in Servers : Startup(s) \/ Expiry(s) \/ Reporting(s) \/ Fault(s)

Spec == Init /\ [][Next]_vars

(* Processes run, etcd lets leases expire, and clients keep coming; faults *)
(* need not happen.                                                        *)
FairSpec ==
  /\ Spec
  /\ WF_vars(Discovery)
  /\ \A c \in Clients : WF_vars(ClientProcess(c))
  /\ \A s \in Servers : WF_vars(Startup(s)) /\ WF_vars(Expiry(s)) /\ WF_vars(Reporting(s))
-------------------------------------------------------------------------------
(* Every variable keeps to its type.                                       *)
TypeOK ==
  /\ BackendTypeOK
  /\ BalancerTypeOK
  /\ output \in [Clients -> Answers \union {NoOutput}]

Listed(s) == s \in ToSet(availableServers)

(* Reports that come late, from servers that are dead or not yet known,    *)
(* never leave a load without its server or a server without a load: the   *)
(* search of useRoundRobin, which holds the mutex, ends at once, and       *)
(* useLeastLoad compares real loads only.                                  *)
LoadsMatchServers == DOMAIN loadStatus = ToSet(availableServers)

(* The load balancer dies of an index out of range only after a server has *)
(* gone: rrIndex stays in range while the list grows.                      *)
PanicNeedsLoss == lb = "panicked" => deaths + leaseLosses > 0

(* What a client is told is the answer to its task, each type's own.       *)
AnswerIsRight ==
  \A c \in Clients : client[c] = "served" =>
    LET t == output[c][1] IN IsAnswer(output[c][2], t[1], t[2])

(* The server given to a client under LL is the least loaded of the list   *)
(* at that moment, and the first of them in the list.                      *)
LeastLoadChosen ==
  [][\A c \in Clients :
       /\ loadBalancingPolicy = "LL"
       /\ client[c] = "choosing" /\ client'[c] = "told"
       =>
         \E i \in DOMAIN availableServers :
           /\ target'[c] = availableServers[i]
           /\ \A j \in DOMAIN availableServers :
                LET mine == loadStatus[availableServers[i]]
                    other == loadStatus[availableServers[j]]
                IN  IF j < i THEN other > mine ELSE other >= mine]_vars
-------------------------------------------------------------------------------
(* A server whose key is gone, because it died or because its lease was    *)
(* lost, leaves the list for good.                                         *)
UnregisteredLeave ==
  \A s \in Servers :
    <>[](backend[s] # "absent" /\ s \notin etcd => ~Listed(s) \/ lb = "panicked")

(* A server that stays up and keeps its lease is in the list from some     *)
(* time on.                                                                *)
KeptServersListed ==
  \A s \in Servers :
    <>[](backend[s] = "serving" /\ s \in keptAlive /\ lb = "up") => <>[]Listed(s)

(* A server is registered before it listens, and the list may name dead    *)
(* servers; yet as long as one server is there for good, clients will be   *)
(* served again and again.                                                 *)
CallsSucceed ==
  (\E s \in Servers : <>[](backend[s] = "serving" /\ s \in keptAlive /\ lb = "up")) =>
    []<>(\E c \in Clients : client[c] = "served")

(* A server whose load report fails ends itself: the panic of the load     *)
(* balancer takes all servers with it, those too that start afterwards.    *)
PanicEndsServers == <>[](lb = "panicked" => etcd = {})

(* No server of a stable list is passed over for ever: "Round Robin        *)
(* Policy" (q1/server/load_balancer/main.go:159).                          *)
RoundRobinVisitsAll ==
  \A s \in Servers :
    <>[]Listed(s) => []<>(\E c \in Clients : client[c] = "told" /\ target[c] = s)
===============================================================================
