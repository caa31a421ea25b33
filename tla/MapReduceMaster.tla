---------------------------- MODULE MapReduceMaster ---------------------------
(***************************************************************************)
(* The master of q2 (q2/master) with its workers.  Its main goroutine      *)
(* starts the workers, sends out the map tasks, waits for the channel      *)
(* mapDone, sends out the reduce tasks, waits for reduceDone and tells the *)
(* workers to exit, while RPC handlers count the results that come in.     *)
(***************************************************************************)
EXTENDS MapReduceWorker

CONSTANT PromptStart  \* half a second is enough for a worker to listen

ASSUME MasterAssumption == PromptStart \in BOOLEAN

VARIABLES
  pc,             \* where the main goroutine is
  next,           \* its loop variable
  mapCounter,
  reduceCounter,
  mapDone,        \* number of elements in the channel, whose capacity is 1
  reduceDone

masterVars == <<pc, next, mapCounter, reduceCounter, mapDone, reduceDone>>
counterVars == <<mapCounter, reduceCounter, mapDone, reduceDone>>
vars == <<workerVars, masterVars>>

Init ==
  /\ WorkerInit
  /\ pc = "spawn"
  /\ next = 0
  /\ mapCounter = 0
  /\ reduceCounter = 0
  /\ mapDone = 0
  /\ reduceDone = 0
-------------------------------------------------------------------------------
(* The loops of main, with the number of iterations of each and what comes *)
(* after it.                                                               *)
(* Mutant: only the workers of the map phase are told to exit.             *)
LimitForgetsExtra == [spawn |-> NumFiles, map |-> NumFiles, extra |-> NumWorkers - NumFiles,
                      reduce |-> NumReduce, exit |-> NumFiles]
Limit == [spawn |-> NumFiles, map |-> NumFiles, extra |-> NumWorkers - NumFiles,
          reduce |-> NumReduce, exit |-> NumWorkers]
After == [spawn |-> "map", map |-> "waitMap", extra |-> "reduce",
          reduce |-> "waitReduce", exit |-> "done"]

InLoop(loop) == pc = loop /\ next < Limit[loop]
NextEntry == next' = next + 1 /\ UNCHANGED <<pc, counterVars>>
Goto(l) == pc' = l /\ next' = 0
Fatal == Goto("failed") /\ UNCHANGED counterVars
MasterUp == pc \notin {"done", "failed"}

(* time.Sleep(500 * time.Millisecond) after each start.                    *)
Slept == PromptStart => \A w \in Workers : worker[w] # "starting"

LoopEnd ==
  /\ pc \in DOMAIN Limit
  /\ next = Limit[pc]
  /\ pc \in {"spawn", "extra"} => Slept
  /\ Goto(After[pc])
  /\ UNCHANGED <<counterVars, workerVars>>

(* A directory is skipped, though it counts as a mapper.                   *)
SkipDirectory ==
  /\ InLoop("spawn") \/ InLoop("map")
  /\ next \in subDirs
  /\ NextEntry
  /\ UNCHANGED workerVars

SpawnWorker ==
  /\ InLoop("spawn")
  /\ next \in Mappers
  /\ Slept
  /\ \E p \in Ports : StartWorker(next, p)
  /\ NextEntry

SpawnExtraWorker ==
  /\ InLoop("extra")
  /\ Slept
  /\ \E p \in Ports : StartWorker(NumFiles + next, p)
  /\ NextEntry
-------------------------------------------------------------------------------
(* sendMapRequest: the request reaches whoever listens on the worker's     *)
(* port, and main goes on when the answer is there.                        *)
SendMap ==
  /\ InLoop("map")
  /\ next \in Mappers
  /\ mapTask[next] = "none"
  /\ \E w \in Workers : Listens(w, port[next]) /\ MapRPC(w, next)
  /\ UNCHANGED masterVars

MapAnswered ==
  /\ InLoop("map")
  /\ mapTask[next] # "none"
  /\ NextEntry
  /\ UNCHANGED workerVars

(* Mutant: the master asks after the process it started, not after whoever *)
(* listens on its port.                                                    *)
RefusedByProcess ==
  /\ InLoop("map")
  /\ next \in Mappers
  /\ IF mapTask[next] = "none" THEN ~Serving(next) ELSE ~Serving(mapHost[next])
  /\ Fatal
  /\ UNCHANGED workerVars

MapRefused ==
  /\ InLoop("map")
  /\ next \in Mappers
  /\ IF mapTask[next] = "none"
       THEN \A w \in Workers : ~Listens(w, port[next])
       ELSE ~Serving(mapHost[next])
  /\ Fatal
  /\ UNCHANGED workerVars

(* Mutant: the master does not wait for the channel.                       *)
MapsNotAwaited ==
  /\ pc = "waitMap"
  /\ Goto("extra")
  /\ UNCHANGED <<counterVars, workerVars>>

(* <-master.mapDone                                                        *)
MapsAreDone ==
  /\ pc = "waitMap"
  /\ mapDone = 1
  /\ mapDone' = 0
  /\ Goto("extra")
  /\ UNCHANGED <<mapCounter, reduceCounter, reduceDone, workerVars>>
-------------------------------------------------------------------------------
(* The extra workers are not among those that get a reduce task.           *)
ReducePort == port[next % NumFiles]

SendReduce ==
  /\ InLoop("reduce")
  /\ reduceTask[next] = "none"
  /\ \E w \in Workers : Listens(w, ReducePort) /\ ReduceRPC(w, next)
  /\ UNCHANGED masterVars

ReduceAnswered ==
  /\ InLoop("reduce")
  /\ reduceTask[next] # "none"
  /\ NextEntry
  /\ UNCHANGED workerVars

ReduceRefused ==
  /\ InLoop("reduce")
  /\ IF reduceTask[next] = "none"
       THEN \A w \in Workers : ~Listens(w, ReducePort)
       ELSE ~Serving(reduceHost[next])
  /\ Fatal
  /\ UNCHANGED workerVars

(* <-master.reduceDone, and the job is announced as completed.             *)
ReducesAreDone ==
  /\ pc = "waitReduce"
  /\ reduceDone = 1
  /\ reduceDone' = 0
  /\ Goto("exit")
  /\ UNCHANGED <<mapCounter, reduceCounter, mapDone, workerVars>>

SendExit ==
  /\ InLoop("exit")
  /\ \E w \in Workers : Listens(w, port[next]) /\ ExitRPC(w)
  /\ NextEntry

(* A worker that cannot be reached is only logged.                         *)
ExitRefused ==
  /\ InLoop("exit")
  /\ \A w \in Workers : ~Listens(w, port[next])
  /\ NextEntry
  /\ UNCHANGED workerVars
-------------------------------------------------------------------------------
(* Mutants: every result fills the channel; results are expected from      *)
(* extra workers too.                                                      *)
MapResultSignalsAlways(m) ==
  /\ MasterUp
  /\ MapReported(m)
  /\ mapCounter' = mapCounter + 1
  /\ mapDone' = mapDone + 1
  /\ UNCHANGED <<pc, next, reduceCounter, reduceDone>>

MapResultCountsWorkers(m) ==
  /\ MasterUp
  /\ MapReported(m)
  /\ mapCounter' = mapCounter + 1
  /\ mapDone' = IF mapCounter' = NumWorkers THEN mapDone + 1 ELSE mapDone
  /\ UNCHANGED <<pc, next, reduceCounter, reduceDone>>

(* The handlers run under the mutex mu; the last result fills the channel. *)
MapResultRPC(m) ==
  /\ MasterUp
  /\ MapReported(m)
  /\ mapCounter' = mapCounter + 1
  /\ mapDone' = IF mapCounter' = NumFiles THEN mapDone + 1 ELSE mapDone
  /\ UNCHANGED <<pc, next, reduceCounter, reduceDone>>

ReduceResultRPC(r) ==
  /\ MasterUp
  /\ ReduceReported(r)
  /\ reduceCounter' = reduceCounter + 1
  /\ reduceDone' = IF reduceCounter' = NumReduce THEN reduceDone + 1 ELSE reduceDone
  /\ UNCHANGED <<pc, next, mapCounter, mapDone>>

ReportUnanswered(w) == ~MasterUp /\ ReportFails(w) /\ UNCHANGED masterVars
-------------------------------------------------------------------------------
Main ==
  \/ LoopEnd \/ SkipDirectory \/ SpawnWorker \/ SpawnExtraWorker
  \/ SendMap \/ MapAnswered \/ MapRefused \/ MapsAreDone
  \/ SendReduce \/ ReduceAnswered \/ ReduceRefused \/ ReducesAreDone
  \/ SendExit \/ ExitRefused

MapGoroutine(m) ==
  \/ (MapOpen(m) \/ MapWrite(m)) /\ UNCHANGED masterVars
  \/ MapResultRPC(m)

ReduceGoroutine(r) ==
  \/ (ReduceRead(r) \/ ReduceWrite(r)) /\ UNCHANGED masterVars
  \/ ReduceResultRPC(r)

WorkerProcess(w) ==
  \/ (WorkerListen(w) \/ WorkerExit(w)) /\ UNCHANGED masterVars
  \/ ReportUnanswered(w)

Next ==
  \/ Main
  \/ \E m \in Entries : MapGoroutine(m)
  \/ \E r \in Reducers : ReduceGoroutine(r)
  \/ \E w \in Workers : WorkerProcess(w) \/ (WorkerDies(w) /\ UNCHANGED masterVars)

Spec == Init /\ [][Next]_vars

(* The main goroutine, task goroutines and worker processes keep running;  *)
(* a worker need not die.                                                  *)
FairSpec ==
  /\ Spec
  /\ WF_vars(Main)
  /\ \A m \in Entries : WF_vars(MapGoroutine(m))
  /\ \A r \in Reducers : WF_vars(ReduceGoroutine(r))
  /\ \A w \in Workers : WF_vars(WorkerProcess(w))
-------------------------------------------------------------------------------
(* Every variable keeps to its type; no handler ever finds its channel     *)
(* full, so none blocks while it holds the mutex.                          *)
TypeOK ==
  /\ WorkerTypeOK
  /\ pc \in DOMAIN Limit \union {"waitMap", "waitReduce", "done", "failed"}
  /\ next \in 0 .. NumWorkers
  /\ mapCounter \in 0 .. NumFiles
  /\ reduceCounter \in 0 .. NumReduce
  /\ mapDone \in 0 .. 1
  /\ reduceDone \in 0 .. 1

(* A reduce task never sees a map file that is missing, left over from an  *)
(* earlier job or still being written: when one has started, every file    *)
(* holds the lines of all words of its mapper that belong to its reducer.  *)
ReducersReadFinalFiles ==
  (\E r \in Reducers : reduceTask[r] # "none") =>
    \A m \in Entries, r \in Reducers :
      /\ mapTask[m] = "done"
      /\ mapFile[m][r] = LinesFor(m, r)[Len(Text[m])]

(* The port main is sending to.                                            *)
SentTo == IF pc = "map" THEN port[next] ELSE ReducePort

(* A send ends the master only if a worker that was given the port it goes *)
(* to has been killed, or if the worker of a map task is still starting,   *)
(* which takes a worker slower than the half second.  The death of another *)
(* worker, and ports handed out twice, whose second worker ends itself,    *)
(* fail no send, and no request for a reduce task comes too early.         *)
MasterFailsOnlyWithWorker ==
  [][pc' = "failed" => \/ pc = "failed"
                       \/ \E w \in killed : port[w] = SentTo
                       \/ ~PromptStart /\ pc = "map" /\ worker[next] = "starting"]_vars

(* Crashes, ports used twice, slow starts and files of an earlier job      *)
(* notwithstanding, reduce tasks start after all map tasks, deliver the    *)
(* result expected of their words, and success is announced only then.     *)
Job == INSTANCE MapReduceJob WITH
  mapped <- {m \in Entries : mapTask[m] = "done"},
  result <- reduceOut,
  complete <- pc \in {"exit", "done"}

RefinesJob == Job!Spec
-------------------------------------------------------------------------------
(* A job over files ends when no worker dies.                              *)
JobCompletes == [](subDirs = {} /\ killed = {}) => <>(pc = "done")

(* No worker process is left behind then, the extra ones included.         *)
WorkersStop ==
  [](subDirs = {} /\ killed = {}) => <>[](\A w \in Workers : worker[w] \in {"absent", "dead"})
-------------------------------------------------------------------------------
(* "Master - All Map tasks completed, proceeding to Reduce phase"          *)
(* (q2/master/rpc.go:32): when every file has been mapped the master goes  *)
(* on.                                                                     *)
ProceedsToReduce ==
  (\A m \in Mappers : mapTask[m] = "done") ~> pc \in {"reduce", "waitReduce", "exit", "done"}
===============================================================================
