----------------------------- MODULE BackendServer ----------------------------
(***************************************************************************)
(* The backend servers of q1 (q1/server/backend_server/main.go) and the    *)
(* etcd keys they are found by.  A server stores its address under a       *)
(* lease, keeps the lease alive, reports its load and serves.              *)
(***************************************************************************)
EXTENDS Naturals, Sequences, SequencesExt

CONSTANTS
  Servers,         \* addresses of backend servers
  Loads,           \* CPU loads they may measure
  MaxDeaths,       \* bound on servers that die by themselves
  MaxLeaseLosses   \* bound on leases that end under a living server

ASSUME BackendAssumption ==
  /\ Loads \subseteq Nat
  /\ MaxDeaths \in Nat
  /\ MaxLeaseLosses \in Nat

VARIABLES
  backend,      \* state of each server process
  etcd,         \* addresses stored in etcd
  keptAlive,    \* servers whose keepAlive goroutine renews the lease
  report,       \* the load in the report each server has sent, if any
  deaths,
  leaseLosses

backendVars == <<backend, etcd, keptAlive, report, deaths, leaseLosses>>
-------------------------------------------------------------------------------
BackendInit ==
  /\ backend = [s \in Servers |-> "absent"]
  /\ etcd = {}
  /\ keptAlive = {}
  /\ report = [s \in Servers |-> {}]
  /\ deaths = 0
  /\ leaseLosses = 0

Runs(s) == backend[s] \in {"registered", "serving"}

(* Grant, Put and the start of keepAlive.                                  *)
registerWithEtcd(s) ==
  /\ backend[s] = "absent"
  /\ backend' = [backend EXCEPT ![s] = "registered"]
  /\ etcd' = etcd \union {s}
  /\ keptAlive' = keptAlive \union {s}
  /\ UNCHANGED <<report, deaths, leaseLosses>>

(* Only now does the server listen on the address it has registered.       *)
Serve(s) ==
  /\ backend[s] = "registered"
  /\ backend' = [backend EXCEPT ![s] = "serving"]
  /\ UNCHANGED <<etcd, keptAlive, report, deaths, leaseLosses>>

(* Mutant: the lease of a dead process is still renewed.                   *)
EndProcessKeepsLease(s) ==
  /\ backend' = [backend EXCEPT ![s] = "dead"]
  /\ UNCHANGED keptAlive

EndProcess(s) ==
  /\ backend' = [backend EXCEPT ![s] = "dead"]
  /\ keptAlive' = keptAlive \ {s}

BackendDies(s) ==
  /\ Runs(s)
  /\ deaths < MaxDeaths
  /\ deaths' = deaths + 1
  /\ EndProcess(s)
  /\ UNCHANGED <<etcd, report, leaseLosses>>

(* The channel of KeepAlive closes and its goroutine returns; the server   *)
(* goes on serving and does not register again.                            *)
KeepAliveEnds(s) ==
  /\ s \in keptAlive
  /\ leaseLosses < MaxLeaseLosses
  /\ leaseLosses' = leaseLosses + 1
  /\ keptAlive' = keptAlive \ {s}
  /\ UNCHANGED <<backend, etcd, report, deaths>>

(* etcd deletes the key with its lease.                                    *)
LeaseExpires(s) ==
  /\ s \in etcd \ keptAlive
  /\ etcd' = etcd \ {s}
  /\ UNCHANGED <<backend, keptAlive, report, deaths, leaseLosses>>
-------------------------------------------------------------------------------
(* One iteration of ReportLoadStatus sends a load; the next one waits for  *)
(* the answer (report is reset by the load balancer's handler).            *)
ReportLoadStatus(s) ==
  /\ Runs(s)
  /\ report[s] = {}
  /\ \E l \in Loads : report' = [report EXCEPT ![s] = {l}]
  /\ UNCHANGED <<backend, etcd, keptAlive, deaths, leaseLosses>>

ReportAnswered(s) ==
  /\ report' = [report EXCEPT ![s] = {}]
  /\ UNCHANGED <<backend, etcd, keptAlive, deaths, leaseLosses>>

(* Mutant: the server goes on without the report.                          *)
ReportFailsQuietly(s) ==
  /\ Runs(s)
  /\ report[s] # {}
  /\ report' = [report EXCEPT ![s] = {}]
  /\ UNCHANGED <<backend, etcd, keptAlive, deaths, leaseLosses>>

(* log.Fatalf: a server whose report fails ends itself.                    *)
ReportFails(s) ==
  /\ Runs(s)
  /\ report[s] # {}
  /\ EndProcess(s)
  /\ UNCHANGED <<etcd, report, deaths, leaseLosses>>
-------------------------------------------------------------------------------
BackendTypeOK ==
  /\ backend \in [Servers -> {"absent", "registered", "serving", "dead"}]
  /\ etcd \subseteq Servers
  /\ keptAlive \subseteq {s \in Servers : Runs(s)}
  /\ report \in [Servers -> {{}} \union {{l} : l \in Loads}]
  /\ deaths \in 0 .. MaxDeaths
  /\ leaseLosses \in 0 .. MaxLeaseLosses
===============================================================================
