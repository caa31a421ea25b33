----------------------------- MODULE LoadBalancer -----------------------------
(***************************************************************************)
(* The load balancer of q1 (q1/server/load_balancer/main.go): a goroutine  *)
(* that refreshes the list of servers from etcd, a handler that stores     *)
(* load reports, and handlers that choose a server for a client.  What is  *)
(* done under mutexLock is one step.                                       *)
(***************************************************************************)
EXTENDS BackendServer, FiniteSetsExt

CONSTANTS
  Policies,  \* what the flag lbpolicy may say: "PF", "RR" or "LL"
  KeyOrder,  \* the servers in the order of their etcd keys
  Clients    \* clients that ask for a server

ASSUME BalancerAssumption ==
  /\ Policies \subseteq {"PF", "RR", "LL"}
  /\ KeyOrder \in Seq(Servers) /\ ToSet(KeyOrder) = Servers /\ IsInjective(KeyOrder)

NotFetched == <<"not fetched">>
NoServer == "no server"

VARIABLES
  loadBalancingPolicy,
  lb,                \* "up", or "panicked" when the process is gone
  fetched,           \* servers in the response of etcd that discovery holds
  availableServers,
  loadStatus,
  rrIndex,
  client,            \* how far each client is
  target             \* the server it has been given

processVars == <<loadBalancingPolicy, lb>>
listVars == <<availableServers, loadStatus>>
clientVars == <<client, target>>
balancerVars == <<processVars, fetched, listVars, rrIndex, clientVars>>
-------------------------------------------------------------------------------
BalancerInit ==
  /\ loadBalancingPolicy \in Policies
  /\ lb = "up"
  /\ fetched = NotFetched
  /\ availableServers = <<>>
  /\ loadStatus = <<>>
  /\ rrIndex = 0
  /\ client = [c \in Clients |-> "start"]
  /\ target = [c \in Clients |-> NoServer]

(* The servers of the first keys of the answer, key by key.                *)
ServersUpTo(registered) ==
  LET upTo[k \in 0 .. Len(KeyOrder)] ==
        IF k = 0 THEN <<>>
        ELSE IF KeyOrder[k] \in registered
          THEN Append(upTo[k - 1], KeyOrder[k])
          ELSE upTo[k - 1]
  IN  upTo

(* client.Get with the prefix of the backends: ordered by key.             *)
FetchBackends ==
  /\ lb = "up"
  /\ fetched = NotFetched
  /\ fetched' = ServersUpTo(etcd)[Len(KeyOrder)]
  /\ UNCHANGED <<processVars, listVars, rrIndex, clientVars>>

(* The list and the loads are replaced; servers that stay keep their load. *)
ReplaceList(list) ==
  /\ availableServers' = list
  /\ loadStatus' = [s \in ToSet(list) |->
                     IF s \in DOMAIN loadStatus THEN loadStatus[s] ELSE 0]

(* Mutants: an empty response does not change the list; the list is not    *)
(* refreshed when it has a server.                                         *)
discoverUnlessEmpty ==
  /\ lb = "up"
  /\ fetched # NotFetched
  /\ ReplaceList(IF fetched = <<>> THEN availableServers ELSE fetched)
  /\ fetched' = NotFetched
  /\ UNCHANGED <<processVars, rrIndex, clientVars>>

discoverOnce ==
  /\ lb = "up"
  /\ fetched # NotFetched
  /\ ReplaceList(IF availableServers = <<>> THEN fetched ELSE availableServers)
  /\ fetched' = NotFetched
  /\ UNCHANGED <<processVars, rrIndex, clientVars>>

(* The rest of an iteration of the loop.                                   *)
discoverBackends ==
  /\ lb = "up"
  /\ fetched # NotFetched
  /\ ReplaceList(fetched)
  /\ fetched' = NotFetched
  /\ UNCHANGED <<processVars, rrIndex, clientVars>>

(* Mutant: the load is stored whether the server is known or not.          *)
ReportLoadBlindly(s) ==
  /\ lb = "up"
  /\ \E l \in report[s] :
       loadStatus' = [x \in DOMAIN loadStatus \union {s} |->
                       IF x = s THEN l ELSE loadStatus[x]]
  /\ UNCHANGED <<processVars, fetched, availableServers, rrIndex, clientVars>>

ReportLoadRPC(s) ==
  /\ lb = "up"
  /\ \E l \in report[s] :
       loadStatus' = IF s \in DOMAIN loadStatus
                     THEN [loadStatus EXCEPT ![s] = l] ELSE loadStatus
  /\ UNCHANGED <<processVars, fetched, availableServers, rrIndex, clientVars>>
-------------------------------------------------------------------------------
numServers == Len(availableServers)
Server(i) == availableServers[i + 1]

Choose(c, s) ==
  /\ client' = [client EXCEPT ![c] = "told"]
  /\ target' = [target EXCEPT ![c] = s]
  /\ UNCHANGED <<processVars, fetched, listVars>>

(* getBackendServer looks at the length of the list without the mutex.     *)
LoadBalancerRPC(c) ==
  /\ lb = "up"
  /\ client[c] = "start"
  /\ client' = [client EXCEPT ![c] = IF availableServers = <<>> THEN "failed" ELSE "choosing"]
  /\ UNCHANGED <<processVars, fetched, listVars, rrIndex, target>>

usePickFirst(c) ==
  /\ loadBalancingPolicy = "PF"
  /\ numServers > 0
  /\ Choose(c, Server(0))
  /\ UNCHANGED rrIndex

(* Mutant: the stored index is not reduced modulo the number of servers.   *)
useRoundRobinUnwrapped(c) ==
  /\ loadBalancingPolicy = "RR"
  /\ rrIndex < numServers
  /\ LET index == (rrIndex + 1) % numServers
     IN  /\ Choose(c, Server(index))
         /\ rrIndex' = index + 1

(* The loop ends at the first server with a load, counted from rrIndex,    *)
(* and has advanced the index beyond it.                                   *)
useRoundRobin(c) ==
  /\ loadBalancingPolicy = "RR"
  /\ rrIndex < numServers
  /\ LET skips == {k \in 0 .. numServers - 1 :
                    Server((rrIndex + k) % numServers) \in DOMAIN loadStatus}
         index == (rrIndex + Min(skips) + 1) % numServers
     IN  /\ skips # {}
         /\ Choose(c, Server(index))
         /\ rrIndex' = (index + 1) % numServers

(* Mutant: a server replaces the best one if its load is the same.         *)
LastLeastLoaded ==
  LET best[i \in 0 .. numServers] ==
        IF i = 0 THEN Server(0)
        ELSE IF loadStatus[availableServers[i]] <= loadStatus[best[i - 1]]
          THEN availableServers[i]
          ELSE best[i - 1]
  IN  best

(* A server replaces the best one so far only if its load is smaller.      *)
LeastLoaded ==
  LET best[i \in 0 .. numServers] ==
        IF i = 0 THEN Server(0)
        ELSE IF loadStatus[availableServers[i]] < loadStatus[best[i - 1]]
          THEN availableServers[i]
          ELSE best[i - 1]
  IN  best

useLeastLoad(c) ==
  /\ loadBalancingPolicy = "LL"
  /\ numServers > 0
  /\ Choose(c, LeastLoaded[numServers])
  /\ UNCHANGED rrIndex

(* An index out of range panics, and nothing recovers in a gRPC handler.   *)
IndexPanic ==
  /\ IF loadBalancingPolicy = "RR" THEN rrIndex >= numServers ELSE numServers = 0
  /\ lb' = "panicked"
  /\ UNCHANGED <<loadBalancingPolicy, fetched, listVars, rrIndex, clientVars>>

getBackendServer(c) ==
  /\ lb = "up"
  /\ client[c] = "choosing"
  /\ usePickFirst(c) \/ useRoundRobin(c) \/ useLeastLoad(c) \/ IndexPanic
-------------------------------------------------------------------------------
BalancerTypeOK ==
  /\ loadBalancingPolicy \in Policies
  /\ lb \in {"up", "panicked"}
  /\ fetched \in Seq(Servers) \union {NotFetched}
  /\ availableServers \in Seq(Servers)
  /\ loadStatus \in [DOMAIN loadStatus -> Loads \union {0}]
  /\ rrIndex \in 0 .. Cardinality(Servers)
  /\ client \in [Clients -> {"start", "choosing", "told", "calling", "served", "failed"}]
  /\ target \in [Clients -> Servers \union {NoServer}]
===============================================================================
