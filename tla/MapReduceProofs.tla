---------------------------- MODULE MapReduceProofs ---------------------------
(***************************************************************************)
(* Proofs about MapReduceMaster, for every directory, text, hash function  *)
(* and number of reduce tasks, every choice of ports and any number of     *)
(* crashes.                                                                *)
(***************************************************************************)
EXTENDS MapReduceMaster, RecursionTheorems, FiniteSetTheorems, SequenceTheorems, TLAPS

MapsDone == {m \in Entries : mapTask[m] = "done"}
ReducesDone == {r \in Reducers : reduceTask[r] = "done"}

(* The counters count the tasks whose results have come in.                *)
CountInv ==
  /\ mapCounter = Cardinality(MapsDone)
  /\ reduceCounter = Cardinality(ReducesDone)

(* Only files get a map task; the channels are filled by the last result,  *)
(* and main passes them only then.                                         *)
PhaseInv ==
  /\ \A m \in Entries : mapTask[m] # "none" => m \in Mappers
  /\ mapDone = 1 \/ pc \in {"extra", "reduce", "waitReduce", "exit", "done"}
       \/ (\E r \in Reducers : reduceTask[r] # "none")
       => MapsDone = Entries /\ Entries # {}
  /\ reduceDone = 1 \/ pc \in {"exit", "done"} => ReducesDone = Reducers

JobInv == TypeOK /\ CountInv /\ PhaseInv

(* The files of a map task hold the lines of the words it has got to.      *)
FileInv ==
  \A m \in Entries :
    /\ DOMAIN mapFile[m] = Reducers
    /\ mapTask[m] \in {"writing", "done"} =>
         \A r \in Reducers : mapFile[m][r] = LinesFor(m, r)[mapPos[m]]
    /\ mapTask[m] \in {"none", "accepted"} => mapPos[m] = 0
    /\ mapTask[m] = "done" => mapPos[m] = Len(Text[m])

(* Worker w has been up on port p; it is there still or has been killed.   *)
Hosted(w, p) == w \in Workers /\ port[w] = p /\ (Serving(w) \/ w \in killed)
Held(p) == \E w \in Workers : Hosted(w, p)

(* Until the workers are told to exit or the master fails, whoever is dead *)
(* has been killed, or has lost its port to one that was up there.         *)
Working == pc \notin {"exit", "done", "failed"}

ProcessesCalm ==
  /\ \A w \in Workers : worker[w] # "exiting"
  /\ \A w \in killed : worker[w] = "dead"
  /\ \A w \in Workers : worker[w] = "dead" => Held(port[w])

(* Main has started the workers of the files it has passed, was answered   *)
(* on the ports of those it has sent a task to, and so on all ports of     *)
(* files when the map phase is over.                                       *)
SpawnCalm ==
  pc = "spawn" => \A m \in Mappers : /\ m < next => worker[m] # "absent"
                                     /\ mapTask[m] = "none"

MapCalm ==
  /\ pc = "map" => \A m \in Mappers :
       /\ worker[m] # "absent"
       /\ PromptStart => worker[m] # "starting"
       /\ m < next => Held(port[m])
       /\ mapTask[m] # "none" => Hosted(mapHost[m], port[m])
  /\ pc \in {"waitMap", "extra", "reduce", "waitReduce"} =>
       \A m \in Mappers : worker[m] # "absent" /\ Held(port[m])

ReduceCalm ==
  /\ pc \in {"spawn", "map", "waitMap", "extra"} => \A r \in Reducers : reduceTask[r] = "none"
  /\ pc = "reduce" => \A r \in Reducers :
       reduceTask[r] # "none" => Hosted(reduceHost[r], port[r % NumFiles])

Calm == ProcessesCalm /\ SpawnCalm /\ MapCalm /\ ReduceCalm
CalmInv == Working => Calm
-------------------------------------------------------------------------------
LEMMA Bounds ==
  /\ NumFiles \in Nat
  /\ NumReduce \in Nat \ {0}
  /\ NumWorkers \in Nat
  /\ NumFiles <= NumWorkers
  /\ NumReduce <= NumWorkers
  BY TasksAssumption DEF NumWorkers

LEMMA TasksAreFinite ==
  /\ IsFiniteSet(Entries) /\ Cardinality(Entries) = NumFiles
  /\ IsFiniteSet(Reducers) /\ Cardinality(Reducers) = NumReduce
<1>1. ASSUME NEW n \in Nat
      PROVE  IsFiniteSet(0 .. n - 1) /\ Cardinality(0 .. n - 1) = n
  <2>1. 0 \in Int /\ n - 1 \in Int
    OBVIOUS
  <2>2. /\ IsFiniteSet(0 .. n - 1)
        /\ Cardinality(0 .. n - 1) = IF 0 > n - 1 THEN 0 ELSE (n - 1) - 0 + 1
    BY <2>1, FS_Interval
  <2>3. QED
    BY <2>2
<1>2. NumFiles \in Nat /\ NumReduce \in Nat
  BY Bounds
<1>3. QED
  BY <1>1, <1>2 DEF Entries, Reducers

LEMMA ReducerInRange ==
  ASSUME NEW w \in Words
  PROVE  getReducerIndex(w) \in Reducers
<1>1. Hash[w] \in Nat /\ NumReduce \in Nat \ {0}
  BY TasksAssumption
<1>2. QED
  BY <1>1 DEF getReducerIndex, Reducers

(* Every iteration of a loop of main counts within the number of workers.  *)
LEMMA LoopsAreBounded ==
  ASSUME NEW loop \in DOMAIN Limit
  PROVE  Limit[loop] \in 0 .. NumWorkers
  BY Bounds DEF Limit

LEMMA NextInLoop ==
  ASSUME NEW loop \in DOMAIN Limit, InLoop(loop), next \in Nat
  PROVE  next \in 0 .. NumWorkers - 1 /\ next + 1 \in 0 .. NumWorkers
  BY LoopsAreBounded, Bounds DEF InLoop

LEMMA WorkerTypesKept ==
  ASSUME TypeOK, PhaseInv, [Next]_vars
  PROVE  WorkerTypeOK'
<1> USE Bounds DEF TypeOK, WorkerTypeOK
<1>1. ASSUME NEW w, NEW p \in Ports, StartWorker(w, p) PROVE WorkerTypeOK'
  BY <1>1 DEF StartWorker, mapVars, reduceVars, Mappers
<1>2. ASSUME NEW w \in Workers, WorkerListen(w) \/ WorkerExit(w) \/ ExitRPC(w) PROVE WorkerTypeOK'
  BY <1>2 DEF WorkerListen, WorkerExit, ExitRPC, mapVars, reduceVars, Mappers
<1>3. ASSUME NEW w \in Workers, WorkerDies(w) PROVE WorkerTypeOK'
  BY <1>3, WorkerAssumption DEF WorkerDies, mapVars, reduceVars, Mappers
<1>4. ASSUME NEW w \in Workers, ReportFails(w) PROVE WorkerTypeOK'
  BY <1>4 DEF ReportFails, mapVars, reduceVars, Mappers
<1>5. ASSUME NEW w \in Workers, NEW m, MapRPC(w, m) PROVE WorkerTypeOK'
  BY <1>5 DEF MapRPC, procVars, reduceVars, Mappers
<1>6. ASSUME NEW m \in Entries, MapOpen(m) PROVE WorkerTypeOK'
  BY <1>6 DEF MapOpen, procVars, reduceVars, Mappers
<1>7. ASSUME NEW m \in Entries, MapWrite(m) PROVE WorkerTypeOK'
  <2>1. m \in Mappers /\ Len(Text[m]) \in Nat /\ mapPos[m] \in 0 .. Len(Text[m])
    BY <1>7, TasksAssumption DEF MapWrite, MapRuns, PhaseInv
  <2>2. /\ UNCHANGED <<subDirs, worker, port, killed, mapTask, mapHost, reduceTask,
                       reduceHost, reducePos>>
        /\ mapPos[m] < Len(Text[m])
        /\ mapPos' = [mapPos EXCEPT ![m] = @ + 1]
        /\ DOMAIN mapFile' = DOMAIN mapFile
    BY <1>7 DEF MapWrite, procVars, reduceVars
  <2>3. mapPos'[m] \in 0 .. Len(Text[m])
    BY <2>1, <2>2
  <2>4. \A e \in Entries : mapPos'[e] \in IF e \in Mappers THEN 0 .. Len(Text[e]) ELSE {0}
    BY <2>1, <2>2, <2>3
  <2>5. QED
    BY <2>2, <2>4 DEF Mappers
<1>8. ASSUME NEW m \in Entries, MapReported(m) PROVE WorkerTypeOK'
  BY <1>8 DEF MapReported, procVars, reduceVars, Mappers
<1>9. ASSUME NEW w \in Workers, NEW r, ReduceRPC(w, r) PROVE WorkerTypeOK'
  BY <1>9 DEF ReduceRPC, procVars, mapVars, Mappers
<1>10. ASSUME NEW r \in Reducers, ReduceRead(r) PROVE WorkerTypeOK'
  BY <1>10 DEF ReduceRead, procVars, mapVars, Mappers
<1>11. ASSUME NEW r \in Reducers, ReduceWrite(r) \/ ReduceReported(r) PROVE WorkerTypeOK'
  BY <1>11 DEF ReduceWrite, ReduceReported, procVars, mapVars, Mappers
<1>12. CASE UNCHANGED workerVars
  BY <1>12 DEF workerVars, Mappers
<1>13. CASE Main
  <2>1. CASE LoopEnd \/ SkipDirectory \/ MapAnswered \/ MapRefused \/ MapsAreDone
               \/ ReduceAnswered \/ ReduceRefused \/ ReducesAreDone \/ ExitRefused
    BY <1>12, <2>1 DEF LoopEnd, SkipDirectory, MapAnswered, MapRefused, MapsAreDone,
         ReduceAnswered, ReduceRefused, ReducesAreDone, ExitRefused
  <2>2. CASE SpawnWorker \/ SpawnExtraWorker
    BY <1>1, <2>2 DEF SpawnWorker, SpawnExtraWorker
  <2>3. CASE SendMap
    BY <1>5, <2>3 DEF SendMap
  <2>4. CASE SendReduce
    BY <1>9, <2>4 DEF SendReduce
  <2>5. CASE SendExit
    BY <1>2, <2>5 DEF SendExit
  <2>6. QED
    BY <1>13, <2>1, <2>2, <2>3, <2>4, <2>5 DEF Main
<1>14. ASSUME NEW m \in Entries, MapGoroutine(m) PROVE WorkerTypeOK'
  BY <1>6, <1>7, <1>8, <1>14 DEF MapGoroutine, MapResultRPC
<1>15. ASSUME NEW r \in Reducers, ReduceGoroutine(r) PROVE WorkerTypeOK'
  BY <1>10, <1>11, <1>15 DEF ReduceGoroutine, ReduceResultRPC
<1>16. ASSUME NEW w \in Workers, WorkerProcess(w) \/ WorkerDies(w) PROVE WorkerTypeOK'
  BY <1>2, <1>3, <1>4, <1>16 DEF WorkerProcess, ReportUnanswered
<1>17. QED
  BY <1>12, <1>13, <1>14, <1>15, <1>16 DEF Next, vars
-------------------------------------------------------------------------------
(* The goroutine of main is where the code has one of these places.        *)
LEMMA MainStaysInPlace ==
  ASSUME TypeOK, [Next]_vars
  PROVE  /\ pc' \in DOMAIN Limit \union {"waitMap", "waitReduce", "done", "failed"}
         /\ next' \in 0 .. NumWorkers
<1> DEFINE Place == /\ pc \in DOMAIN Limit \union {"waitMap", "waitReduce", "done", "failed"}
                    /\ next \in 0 .. NumWorkers
<1>1. Place /\ 0 \in 0 .. NumWorkers /\ next \in Nat
  BY Bounds DEF TypeOK
<1>2. CASE UNCHANGED <<pc, next>>
  BY <1>1, <1>2
<1>3. ASSUME NEW loop \in {"spawn", "map", "extra", "reduce", "exit"}, InLoop(loop), NextEntry
      PROVE  Place'
  <2>1. loop \in DOMAIN Limit
    BY <1>3 DEF Limit
  <2>2. QED
    BY <1>1, <1>3, <2>1, NextInLoop DEF NextEntry
<1>4. ASSUME NEW l \in {"map", "waitMap", "extra", "reduce", "waitReduce", "exit", "done", "failed"},
             Goto(l)
      PROVE  Place'
  BY <1>1, <1>4 DEF Goto, Limit
<1>5. CASE Main
  <2>1. CASE LoopEnd
    <3>1. pc \in DOMAIN Limit /\ Goto(After[pc])
      BY <2>1 DEF LoopEnd
    <3>2. After[pc] \in {"map", "waitMap", "reduce", "waitReduce", "done"}
      BY <3>1 DEF After, Limit
    <3>3. QED
      BY <1>4, <3>1, <3>2
  <2>2. CASE SkipDirectory \/ SpawnWorker \/ MapAnswered
    BY <1>3, <2>2 DEF SkipDirectory, SpawnWorker, MapAnswered
  <2>3. CASE SpawnExtraWorker \/ ReduceAnswered \/ SendExit \/ ExitRefused
    BY <1>3, <2>3 DEF SpawnExtraWorker, ReduceAnswered, SendExit, ExitRefused
  <2>4. CASE MapRefused \/ MapsAreDone \/ ReduceRefused \/ ReducesAreDone
    BY <1>4, <2>4 DEF MapRefused, MapsAreDone, ReduceRefused, ReducesAreDone, Fatal
  <2>5. CASE SendMap \/ SendReduce
    BY <1>2, <2>5 DEF SendMap, SendReduce, masterVars
  <2>6. QED
    BY <1>5, <2>1, <2>2, <2>3, <2>4, <2>5 DEF Main
<1>6. CASE UNCHANGED masterVars
  BY <1>2, <1>6 DEF masterVars
<1>7. ASSUME NEW m \in Entries, MapGoroutine(m) PROVE Place'
  BY <1>2, <1>6, <1>7 DEF MapGoroutine, MapResultRPC
<1>8. ASSUME NEW r \in Reducers, ReduceGoroutine(r) PROVE Place'
  BY <1>2, <1>6, <1>8 DEF ReduceGoroutine, ReduceResultRPC
<1>9. ASSUME NEW w \in Workers, WorkerProcess(w) \/ (WorkerDies(w) /\ UNCHANGED masterVars)
      PROVE Place'
  BY <1>6, <1>9 DEF WorkerProcess, ReportUnanswered
<1>10. QED
  BY <1>5, <1>6, <1>7, <1>8, <1>9 DEF Next, vars

(* Nothing but the result of a map task counts as one, and only main takes *)
(* the element of the channel.                                             *)
LEMMA OnlyResultsCount ==
  ASSUME TypeOK, [Next]_vars, ~ \E m \in Entries : MapResultRPC(m)
  PROVE  /\ MapsDone' = MapsDone
         /\ mapCounter' = mapCounter
         /\ mapDone' # mapDone => MapsAreDone /\ mapDone' = 0
<1> DEFINE Same == MapsDone' = MapsDone /\ mapCounter' = mapCounter /\ mapDone' = mapDone
<1> USE DEF MapsDone
<1>1. CASE UNCHANGED <<mapTask, mapCounter, mapDone>>
  BY <1>1
<1>2. CASE UNCHANGED <<mapVars, masterVars>>
  BY <1>1, <1>2 DEF mapVars, masterVars
<1>3. CASE Main
  <2>1. CASE MapsAreDone
    BY <2>1 DEF MapsAreDone, workerVars
  <2>2. CASE LoopEnd \/ SkipDirectory \/ MapAnswered \/ MapRefused
               \/ ReduceAnswered \/ ReduceRefused \/ ReducesAreDone \/ ExitRefused
    BY <1>1, <2>2 DEF LoopEnd, SkipDirectory, MapAnswered, MapRefused, NextEntry, Fatal,
         ReduceAnswered, ReduceRefused, ReducesAreDone, ExitRefused, counterVars, workerVars
  <2>3. CASE SpawnWorker \/ SpawnExtraWorker
    BY <1>1, <2>3 DEF SpawnWorker, SpawnExtraWorker, StartWorker, NextEntry, counterVars, mapVars
  <2>4. CASE SendMap
    BY <2>4 DEF SendMap, MapRPC, masterVars, TypeOK, WorkerTypeOK, Mappers
  <2>5. CASE SendReduce
    BY <1>2, <2>5 DEF SendReduce, ReduceRPC
  <2>6. CASE SendExit
    BY <1>1, <2>6 DEF SendExit, ExitRPC, NextEntry, counterVars, mapVars
  <2>7. QED
    BY <1>3, <2>1, <2>2, <2>3, <2>4, <2>5, <2>6 DEF Main
<1>4. ASSUME NEW m \in Entries, MapGoroutine(m) PROVE Same
  BY <1>4 DEF MapGoroutine, MapOpen, MapWrite, MapRuns, masterVars, TypeOK, WorkerTypeOK
<1>5. ASSUME NEW r \in Reducers, ReduceGoroutine(r) PROVE Same
  <2>1. UNCHANGED mapVars
    BY <1>5 DEF ReduceGoroutine, ReduceResultRPC, ReduceRead, ReduceWrite, ReduceReported
  <2>2. UNCHANGED <<mapCounter, mapDone>>
    BY <1>5 DEF ReduceGoroutine, ReduceResultRPC, masterVars
  <2>3. QED
    BY <2>1, <2>2 DEF mapVars
<1>6. ASSUME NEW w \in Workers, WorkerProcess(w) \/ (WorkerDies(w) /\ UNCHANGED masterVars)
      PROVE Same
  <2>1. UNCHANGED masterVars
    BY <1>6 DEF WorkerProcess, ReportUnanswered
  <2>2. UNCHANGED mapVars
    BY <1>6 DEF WorkerProcess, ReportUnanswered, ReportFails, WorkerListen, WorkerExit, WorkerDies
  <2>3. QED
    BY <2>1, <2>2 DEF mapVars, masterVars
<1>7. CASE UNCHANGED vars
  BY <1>2, <1>7 DEF vars, workerVars, mapVars
<1>8. QED
  BY <1>3, <1>4, <1>5, <1>6, <1>7 DEF Next

(* The same for reduce tasks.                                              *)
LEMMA OnlyReduceResultsCount ==
  ASSUME TypeOK, [Next]_vars, ~ \E r \in Reducers : ReduceResultRPC(r)
  PROVE  /\ ReducesDone' = ReducesDone
         /\ reduceCounter' = reduceCounter
         /\ reduceDone' # reduceDone => ReducesAreDone /\ reduceDone' = 0
<1> DEFINE Same == /\ ReducesDone' = ReducesDone
                   /\ reduceCounter' = reduceCounter
                   /\ reduceDone' = reduceDone
<1> USE DEF ReducesDone
<1>1. CASE UNCHANGED <<reduceTask, reduceCounter, reduceDone>>
  BY <1>1
<1>2. CASE UNCHANGED <<reduceVars, masterVars>>
  BY <1>1, <1>2 DEF reduceVars, masterVars
<1>3. CASE Main
  <2>1. CASE ReducesAreDone
    BY <2>1 DEF ReducesAreDone, workerVars
  <2>2. CASE LoopEnd \/ SkipDirectory \/ MapAnswered \/ MapRefused \/ MapsAreDone
               \/ ReduceAnswered \/ ReduceRefused \/ ExitRefused
    BY <1>1, <2>2 DEF LoopEnd, SkipDirectory, MapAnswered, MapRefused, NextEntry, Fatal,
         ReduceAnswered, ReduceRefused, MapsAreDone, ExitRefused, counterVars, workerVars
  <2>3. CASE SpawnWorker \/ SpawnExtraWorker
    BY <1>1, <2>3
       DEF SpawnWorker, SpawnExtraWorker, StartWorker, NextEntry, counterVars, reduceVars
  <2>4. CASE SendReduce
    BY <2>4 DEF SendReduce, ReduceRPC, masterVars, TypeOK, WorkerTypeOK
  <2>5. CASE SendMap
    BY <1>2, <2>5 DEF SendMap, MapRPC
  <2>6. CASE SendExit
    BY <1>1, <2>6 DEF SendExit, ExitRPC, NextEntry, counterVars, reduceVars
  <2>7. QED
    BY <1>3, <2>1, <2>2, <2>3, <2>4, <2>5, <2>6 DEF Main
<1>4. ASSUME NEW r \in Reducers, ReduceGoroutine(r) PROVE Same
  BY <1>4 DEF ReduceGoroutine, ReduceRead, ReduceWrite, ReduceRuns, masterVars, TypeOK, WorkerTypeOK
<1>5. ASSUME NEW m \in Entries, MapGoroutine(m) PROVE Same
  <2>1. UNCHANGED reduceVars
    BY <1>5 DEF MapGoroutine, MapResultRPC, MapOpen, MapWrite, MapReported
  <2>2. UNCHANGED <<reduceCounter, reduceDone>>
    BY <1>5 DEF MapGoroutine, MapResultRPC, masterVars
  <2>3. QED
    BY <2>1, <2>2 DEF reduceVars
<1>6. ASSUME NEW w \in Workers, WorkerProcess(w) \/ (WorkerDies(w) /\ UNCHANGED masterVars)
      PROVE Same
  <2>1. UNCHANGED masterVars
    BY <1>6 DEF WorkerProcess, ReportUnanswered
  <2>2. UNCHANGED reduceVars
    BY <1>6 DEF WorkerProcess, ReportUnanswered, ReportFails, WorkerListen, WorkerExit, WorkerDies
  <2>3. QED
    BY <2>1, <2>2 DEF reduceVars, masterVars
<1>7. CASE UNCHANGED vars
  BY <1>2, <1>7 DEF vars, workerVars, reduceVars
<1>8. QED
  BY <1>3, <1>4, <1>5, <1>6, <1>7 DEF Next

(* Main is past the map phase, or a reduce task runs, only when it has     *)
(* taken the element of the channel.                                       *)
LEMMA PhasesInOrder ==
  ASSUME TypeOK, [Next]_vars
  PROVE  /\ pc' \in {"extra", "reduce", "waitReduce", "exit", "done"} =>
              pc \in {"extra", "reduce", "waitReduce", "exit", "done"} \/ MapsAreDone
         /\ pc' \in {"exit", "done"} => pc \in {"exit", "done"} \/ ReducesAreDone
         /\ (\E r \in Reducers : reduceTask'[r] # "none") =>
              pc = "reduce" \/ \E r \in Reducers : reduceTask[r] # "none"
         /\ \A m \in Entries :
              mapTask'[m] # "none" => mapTask[m] # "none" \/ m \in Mappers
         /\ subDirs' = subDirs
<1> DEFINE Phases ==
             /\ pc' \in {"extra", "reduce", "waitReduce", "exit", "done"} =>
                  pc \in {"extra", "reduce", "waitReduce", "exit", "done"} \/ MapsAreDone
             /\ pc' \in {"exit", "done"} => pc \in {"exit", "done"} \/ ReducesAreDone
           Tasks ==
             /\ (\E r \in Reducers : reduceTask'[r] # "none") =>
                  pc = "reduce" \/ \E r \in Reducers : reduceTask[r] # "none"
             /\ \A m \in Entries :
                  mapTask'[m] # "none" => mapTask[m] # "none" \/ m \in Mappers
             /\ subDirs' = subDirs
<1>1. CASE UNCHANGED <<pc, mapTask, reduceTask, subDirs>>
  BY <1>1
<1>2. CASE Main
  <2>1. Phases
    <3>1. CASE LoopEnd
      BY <3>1 DEF LoopEnd, Goto, After, Limit
    <3>2. CASE SkipDirectory \/ SpawnWorker \/ SpawnExtraWorker \/ SendMap \/ MapAnswered
                 \/ SendReduce \/ ReduceAnswered \/ SendExit \/ ExitRefused
      <4>1. pc' = pc
        BY <3>2 DEF SkipDirectory, SpawnWorker, SpawnExtraWorker, SendMap, MapAnswered,
             SendReduce, ReduceAnswered, SendExit, ExitRefused, NextEntry, masterVars
      <4>2. QED
        BY <4>1
    <3>3. CASE MapRefused \/ ReduceRefused \/ MapsAreDone \/ ReducesAreDone
      BY <3>3 DEF MapRefused, ReduceRefused, MapsAreDone, ReducesAreDone, Fatal, Goto
    <3>4. QED
      BY <1>2, <3>1, <3>2, <3>3 DEF Main
  <2>2. Tasks
    <3>1. CASE UNCHANGED workerVars
      BY <3>1 DEF workerVars
    <3>2. CASE SpawnWorker \/ SpawnExtraWorker \/ SendExit
      BY <3>2 DEF SpawnWorker, SpawnExtraWorker, StartWorker, SendExit, ExitRPC, mapVars, reduceVars
    <3>3. CASE SendMap
      BY <3>3 DEF SendMap, MapRPC, TypeOK, WorkerTypeOK, procVars, reduceVars
    <3>4. CASE SendReduce
      BY <3>4 DEF SendReduce, InLoop, ReduceRPC, TypeOK, WorkerTypeOK, procVars, mapVars
    <3>5. CASE \/ LoopEnd \/ SkipDirectory \/ MapAnswered \/ MapRefused \/ MapsAreDone
               \/ ReduceAnswered \/ ReduceRefused \/ ReducesAreDone \/ ExitRefused
      BY <3>1, <3>5 DEF LoopEnd, SkipDirectory, MapAnswered, MapRefused, MapsAreDone,
           ReduceAnswered, ReduceRefused, ReducesAreDone, ExitRefused
    <3>6. QED
      BY <1>2, <3>1, <3>2, <3>3, <3>4, <3>5 DEF Main
  <2>3. QED
    BY <2>1, <2>2
<1>3. ASSUME NEW m \in Entries, MapGoroutine(m)
      PROVE  pc' = pc /\ Tasks
  BY <1>3 DEF MapGoroutine, MapResultRPC, MapOpen, MapWrite, MapReported, MapRuns, procVars,
       reduceVars, masterVars, TypeOK, WorkerTypeOK
<1>4. ASSUME NEW r \in Reducers, ReduceGoroutine(r)
      PROVE  pc' = pc /\ Tasks
  BY <1>4 DEF ReduceGoroutine, ReduceResultRPC, ReduceRead, ReduceWrite, ReduceReported,
       ReduceRuns, procVars, mapVars, masterVars, TypeOK, WorkerTypeOK
<1>5. ASSUME NEW w \in Workers, WorkerProcess(w) \/ (WorkerDies(w) /\ UNCHANGED masterVars)
      PROVE  UNCHANGED <<pc, mapTask, reduceTask, subDirs>>
  <2>1. UNCHANGED masterVars
    BY <1>5 DEF WorkerProcess, ReportUnanswered
  <2>2. UNCHANGED <<subDirs, mapVars, reduceVars>>
    BY <1>5 DEF WorkerProcess, ReportUnanswered, ReportFails, WorkerListen, WorkerExit, WorkerDies
  <2>3. QED
    BY <2>1, <2>2 DEF mapVars, reduceVars, masterVars
<1>6. CASE UNCHANGED vars
  BY <1>1, <1>6 DEF vars, workerVars, masterVars
<1>7. QED
  BY <1>1, <1>2, <1>3, <1>4, <1>5, <1>6 DEF Next

LEMMA JobInvStep == JobInv /\ [Next]_vars => JobInv'
<1> SUFFICES ASSUME JobInv, [Next]_vars PROVE JobInv'
  OBVIOUS
<1>1. TypeOK /\ CountInv /\ PhaseInv
  BY DEF JobInv
<1>2. /\ WorkerTypeOK'
      /\ pc' \in DOMAIN Limit \union {"waitMap", "waitReduce", "done", "failed"}
      /\ next' \in 0 .. NumWorkers
  BY <1>1, WorkerTypesKept, MainStaysInPlace
<1>3. /\ mapCounter' = Cardinality(MapsDone')
      /\ MapsDone \subseteq MapsDone'
      /\ mapDone' \in 0 .. 1
      /\ mapDone' = 1 => MapsDone' = Entries /\ Entries # {}
  <2> DEFINE Maps == /\ mapCounter' = Cardinality(MapsDone')
                     /\ MapsDone \subseteq MapsDone'
                     /\ mapDone' \in 0 .. 1
                     /\ mapDone' = 1 => MapsDone' = Entries /\ Entries # {}
  <2>1. CASE ~ \E m \in Entries : MapResultRPC(m)
    <3>1. MapsDone' = MapsDone /\ mapCounter' = mapCounter /\ (mapDone' = mapDone \/ mapDone' = 0)
      BY <1>1, <2>1, OnlyResultsCount
    <3>2. QED
      BY <1>1, <3>1 DEF CountInv, PhaseInv, TypeOK
  <2>2. ASSUME NEW m \in Entries, MapResultRPC(m)
        PROVE  Maps
    <3>1. m \notin MapsDone /\ MapsDone' = MapsDone \union {m}
      BY <1>1, <2>2 DEF MapResultRPC, MapReported, MapRuns, MapsDone, TypeOK, WorkerTypeOK
    <3>2. IsFiniteSet(MapsDone)
      BY TasksAreFinite, FS_Subset DEF MapsDone
    <3>3. Cardinality(MapsDone') = Cardinality(MapsDone) + 1
      BY <3>1, <3>2, FS_AddElement
    <3>4. Cardinality(MapsDone') = NumFiles => MapsDone' = Entries
      <4>1. MapsDone' \in SUBSET Entries
        BY DEF MapsDone
      <4>2. QED
        BY <4>1, TasksAreFinite, FS_Subset
    <3>5. mapDone = 0
      BY <1>1, <3>1 DEF PhaseInv, TypeOK
    <3>6. QED
      BY <1>1, <2>2, <3>1, <3>3, <3>4, <3>5 DEF MapResultRPC, CountInv
  <2>3. QED
    BY <2>1, <2>2
<1>4. /\ reduceCounter' = Cardinality(ReducesDone')
      /\ ReducesDone \subseteq ReducesDone'
      /\ reduceDone' \in 0 .. 1
      /\ reduceDone' = 1 => ReducesDone' = Reducers
  <2> DEFINE Reduces == /\ reduceCounter' = Cardinality(ReducesDone')
                        /\ ReducesDone \subseteq ReducesDone'
                        /\ reduceDone' \in 0 .. 1
                        /\ reduceDone' = 1 => ReducesDone' = Reducers
  <2>1. CASE ~ \E r \in Reducers : ReduceResultRPC(r)
    <3>1. /\ ReducesDone' = ReducesDone
          /\ reduceCounter' = reduceCounter
          /\ reduceDone' = reduceDone \/ reduceDone' = 0
      BY <1>1, <2>1, OnlyReduceResultsCount
    <3>2. QED
      BY <1>1, <3>1 DEF CountInv, PhaseInv, TypeOK
  <2>2. ASSUME NEW r \in Reducers, ReduceResultRPC(r)
        PROVE  Reduces
    <3>1. r \notin ReducesDone /\ ReducesDone' = ReducesDone \union {r}
      BY <1>1, <2>2
         DEF ReduceResultRPC, ReduceReported, ReduceRuns, ReducesDone, TypeOK, WorkerTypeOK
    <3>2. IsFiniteSet(ReducesDone)
      BY TasksAreFinite, FS_Subset DEF ReducesDone
    <3>3. Cardinality(ReducesDone') = Cardinality(ReducesDone) + 1
      BY <3>1, <3>2, FS_AddElement
    <3>4. Cardinality(ReducesDone') = NumReduce => ReducesDone' = Reducers
      <4>1. ReducesDone' \in SUBSET Reducers
        BY DEF ReducesDone
      <4>2. QED
        BY <4>1, TasksAreFinite, FS_Subset
    <3>5. reduceDone = 0
      BY <1>1, <3>1 DEF PhaseInv, TypeOK
    <3>6. QED
      BY <1>1, <2>2, <3>1, <3>3, <3>4, <3>5 DEF ReduceResultRPC, CountInv
  <2>3. QED
    BY <2>1, <2>2
<1>5. /\ \A m \in Entries : mapTask'[m] # "none" => m \in Mappers'
      /\ pc' \in {"extra", "reduce", "waitReduce", "exit", "done"}
           \/ (\E r \in Reducers : reduceTask'[r] # "none") => MapsDone' = Entries /\ Entries # {}
      /\ pc' \in {"exit", "done"} => ReducesDone' = Reducers
  <2>1. MapsDone' \subseteq Entries /\ ReducesDone' \subseteq Reducers
    BY DEF MapsDone, ReducesDone
  <2>2. MapsAreDone => MapsDone = Entries /\ Entries # {}
    BY <1>1 DEF MapsAreDone, PhaseInv
  <2>3. ReducesAreDone => ReducesDone = Reducers
    BY <1>1 DEF ReducesAreDone, PhaseInv
  <2>4. QED
    BY <1>1, <1>3, <1>4, <2>1, <2>2, <2>3, PhasesInOrder DEF PhaseInv, Mappers
<1>6. mapCounter' \in 0 .. NumFiles /\ reduceCounter' \in 0 .. NumReduce
  <2>1. MapsDone' \in SUBSET Entries /\ ReducesDone' \in SUBSET Reducers
    BY DEF MapsDone, ReducesDone
  <2>2. /\ IsFiniteSet(MapsDone') /\ Cardinality(MapsDone') <= NumFiles
        /\ IsFiniteSet(ReducesDone') /\ Cardinality(ReducesDone') <= NumReduce
    BY <2>1, TasksAreFinite, FS_Subset
  <2>3. Cardinality(MapsDone') \in Nat /\ Cardinality(ReducesDone') \in Nat
    BY <2>2, FS_CardinalityType
  <2>4. QED
    BY <1>3, <1>4, <2>2, <2>3, Bounds
<1>7. TypeOK'
  BY <1>2, <1>3, <1>4, <1>6 DEF TypeOK, Limit
<1>8. CountInv' /\ PhaseInv'
  BY <1>3, <1>4, <1>5 DEF CountInv, PhaseInv
<1>9. QED
  BY <1>7, <1>8 DEF JobInv

LEMMA JobInvInit == Init => JobInv
<1> SUFFICES ASSUME Init PROVE JobInv
  OBVIOUS
<1>1. TypeOK
  <2>1. WorkerTypeOK
    BY Bounds, TasksAssumption, WorkerAssumption DEF Init, WorkerInit, WorkerTypeOK
  <2>2. QED
    BY <2>1, Bounds DEF Init, TypeOK, Limit
<1>2. MapsDone = {} /\ ReducesDone = {}
  BY DEF Init, WorkerInit, MapsDone, ReducesDone
<1>3. CountInv
  BY <1>2, FS_EmptySet DEF Init, CountInv
<1>4. PhaseInv
  BY DEF Init, WorkerInit, PhaseInv
<1>5. QED
  BY <1>1, <1>3, <1>4 DEF JobInv

(* Every variable of the master and of its workers keeps to its type: in   *)
(* particular each of the channels mapDone and reduceDone is filled at     *)
(* most once, so that no handler ever blocks on a full channel while it    *)
(* holds the mutex, for any number of files and reduce tasks.              *)
THEOREM MasterTypeCorrect == Spec => []TypeOK
<1>1. Spec => []JobInv
  BY JobInvInit, JobInvStep, PTL DEF Spec
<1>2. JobInv => TypeOK
  BY DEF JobInv
<1>3. QED
  BY <1>1, <1>2, PTL

-------------------------------------------------------------------------------
(* LinesFor adds the line of a word to those of the words before it.       *)
LEMMA LinesForUnfolds ==
  ASSUME NEW m \in Entries, NEW r \in Reducers
  PROVE  /\ LinesFor(m, r)[0] = <<>>
         /\ \A k \in 1 .. Len(Text[m]) :
              LinesFor(m, r)[k] = IF getReducerIndex(Text[m][k]) = r
                                  THEN Append(LinesFor(m, r)[k - 1], Line(m, Text[m][k]))
                                  ELSE LinesFor(m, r)[k - 1]
<1> DEFINE n == Len(Text[m])
           V == Seq({Line(m, w) : w \in Words})
           Longer(k, v) == IF getReducerIndex(Text[m][k]) = r
                           THEN Append(v, Line(m, Text[m][k])) ELSE v
<1>1. n \in Nat /\ \A k \in 1 .. n : Text[m][k] \in Words
  BY TasksAssumption
<1>2. <<>> \in V /\ \A k \in 1 .. n, v \in V : Longer(k, v) \in V
  BY <1>1
<1> HIDE DEF n, V, Longer
<1>3. PICK step \in [1 .. n -> [V -> V]] : \A k \in 1 .. n, v \in V : step[k][v] = Longer(k, v)
  <2> DEFINE h == [k \in 1 .. n |-> [v \in V |-> Longer(k, v)]]
  <2>1. h \in [1 .. n -> [V -> V]] /\ \A k \in 1 .. n, v \in V : h[k][v] = Longer(k, v)
    BY <1>2
  <2>2. QED
    BY <2>1
<1>4. PICK f \in [0 .. n -> V] : f[0] = <<>> /\ \A k \in 1 .. n : f[k] = step[k][f[k - 1]]
  BY <1>1, <1>2, RecursionOnInterval
<1>5. ASSUME NEW k \in 0 .. n
      PROVE  f[k] = IF k = 0 THEN <<>> ELSE Longer(k, f[k - 1])
  <2>1. CASE k = 0
    BY <1>4, <2>1
  <2>2. CASE k # 0
    <3>1. k \in 1 .. n /\ k - 1 \in 0 .. n
      BY <1>1, <2>2
    <3>2. QED
      BY <1>3, <1>4, <2>2, <3>1
  <2>3. QED
    BY <2>1, <2>2
<1>6. f = [k \in 0 .. n |-> IF k = 0 THEN <<>> ELSE Longer(k, f[k - 1])]
  BY <1>5
<1>7. LinesFor(m, r) = [k \in 0 .. n |-> IF k = 0 THEN <<>> ELSE Longer(k, LinesFor(m, r)[k - 1])]
  BY <1>6, Zenon DEF LinesFor, Longer, n
<1> DEFINE L == LinesFor(m, r)
<1> HIDE DEF L
<1>8. L[0] = <<>> /\ \A k \in 1 .. n : L[k] = Longer(k, L[k - 1])
  <2>1. L = [k \in 0 .. n |-> IF k = 0 THEN <<>> ELSE Longer(k, L[k - 1])]
    BY <1>7 DEF L
  <2>2. QED
    BY <1>1, <2>1
<1>9. QED
  BY <1>8 DEF L, Longer, n

-------------------------------------------------------------------------------
(* What a step does to the map tasks.                                      *)
LEMMA MapTaskSteps ==
  ASSUME [Next]_vars
  PROVE  \/ UNCHANGED mapVars
         \/ \E m \in Mappers, w \in Workers :
              mapTask[m] = "none" /\ Serving(w) /\ Listens(w, port[m]) /\ MapRPC(w, m)
         \/ \E m \in Entries : MapOpen(m) \/ MapWrite(m) \/ MapResultRPC(m)
<1>1. CASE Main
  <2>1. CASE LoopEnd \/ SkipDirectory \/ MapAnswered \/ MapRefused \/ MapsAreDone
               \/ ReduceAnswered \/ ReduceRefused \/ ReducesAreDone \/ ExitRefused
    BY <2>1 DEF LoopEnd, SkipDirectory, MapAnswered, MapRefused, ReduceAnswered, ReduceRefused,
         MapsAreDone, ReducesAreDone, ExitRefused, workerVars, mapVars
  <2>2. CASE SpawnWorker \/ SpawnExtraWorker \/ SendExit \/ SendReduce
    BY <2>2 DEF SpawnWorker, SpawnExtraWorker, StartWorker, SendExit, ExitRPC, SendReduce, ReduceRPC
  <2>3. CASE SendMap
    BY <2>3 DEF SendMap, Listens
  <2>4. QED
    BY <1>1, <2>1, <2>2, <2>3 DEF Main
<1>2. ASSUME NEW m \in Entries, MapGoroutine(m)
      PROVE  MapOpen(m) \/ MapWrite(m) \/ MapResultRPC(m)
  BY <1>2 DEF MapGoroutine
<1>3. ASSUME NEW r \in Reducers, ReduceGoroutine(r) PROVE UNCHANGED mapVars
  BY <1>3 DEF ReduceGoroutine, ReduceResultRPC, ReduceRead, ReduceWrite, ReduceReported
<1>4. ASSUME NEW w \in Workers, WorkerProcess(w) \/ WorkerDies(w) PROVE UNCHANGED mapVars
  BY <1>4 DEF WorkerProcess, ReportUnanswered, ReportFails, WorkerListen, WorkerExit, WorkerDies
<1>5. CASE UNCHANGED vars
  BY <1>5 DEF vars, workerVars, mapVars
<1>6. QED
  BY <1>1, <1>2, <1>3, <1>4, <1>5 DEF Next

LEMMA FileInvStep == JobInv /\ FileInv /\ [Next]_vars => FileInv'
<1> SUFFICES ASSUME JobInv, FileInv, [Next]_vars PROVE FileInv'
  OBVIOUS
<1> DEFINE File(m) ==
      /\ DOMAIN mapFile[m] = Reducers
      /\ mapTask[m] \in {"writing", "done"} =>
           \A r \in Reducers : mapFile[m][r] = LinesFor(m, r)[mapPos[m]]
      /\ mapTask[m] \in {"none", "accepted"} => mapPos[m] = 0
      /\ mapTask[m] = "done" => mapPos[m] = Len(Text[m])
<1>1. SUFFICES ASSUME NEW m \in Entries PROVE File(m)'
  BY DEF FileInv
<1>2. /\ File(m)
      /\ mapTask \in [Entries -> {"none", "accepted", "writing", "done"}]
      /\ DOMAIN mapFile = Entries /\ DOMAIN mapPos = Entries
      /\ mapPos[m] \in Nat /\ Len(Text[m]) \in Nat
  BY TasksAssumption DEF JobInv, FileInv, TypeOK, WorkerTypeOK
<1>3. CASE UNCHANGED mapVars
  BY <1>2, <1>3 DEF mapVars
<1>4. ASSUME NEW e \in Mappers, NEW w \in Workers, mapTask[e] = "none", MapRPC(w, e)
      PROVE  File(m)'
  BY <1>2, <1>4 DEF MapRPC, Mappers
<1>5. ASSUME NEW e \in Entries, MapOpen(e) PROVE File(m)'
  BY <1>2, <1>5, LinesForUnfolds DEF MapOpen, MapRuns
<1>6. ASSUME NEW e \in Entries, MapWrite(e) PROVE File(m)'
  <2>1. CASE e # m
    BY <1>2, <1>6, <2>1 DEF MapWrite
  <2>2. CASE e = m
    <3> DEFINE k == mapPos[m] + 1
               word == Text[m][k]
    <3>1. /\ mapTask[m] = "writing" /\ k \in 1 .. Len(Text[m]) /\ k - 1 = mapPos[m]
          /\ mapTask' = mapTask /\ mapPos' = [mapPos EXCEPT ![m] = k]
          /\ mapFile' = [mapFile EXCEPT ![m][getReducerIndex(word)] = Append(@, Line(m, word))]
      BY <1>2, <1>6, <2>2 DEF MapWrite, MapRuns
    <3>2. getReducerIndex(word) \in Reducers
      BY <3>1, TasksAssumption, ReducerInRange
    <3> HIDE DEF k, word
    <3>3. DOMAIN mapFile'[m] = Reducers /\ mapPos'[m] = k
      BY <1>2, <3>1
    <3>4. ASSUME NEW r \in Reducers PROVE mapFile'[m][r] = LinesFor(m, r)[k]
      <4>1. mapFile[m][r] = LinesFor(m, r)[k - 1]
        BY <1>2, <3>1
      <4>2. LinesFor(m, r)[k] = IF getReducerIndex(word) = r
                                THEN Append(LinesFor(m, r)[k - 1], Line(m, word))
                                ELSE LinesFor(m, r)[k - 1]
        BY <3>1, LinesForUnfolds DEF word
      <4>3. mapFile'[m][r] = IF getReducerIndex(word) = r
                             THEN Append(mapFile[m][r], Line(m, word)) ELSE mapFile[m][r]
        BY <1>2, <3>1
      <4>4. QED
        BY <4>1, <4>2, <4>3
    <3>5. QED
      BY <3>1, <3>3, <3>4
  <2>3. QED
    BY <2>1, <2>2
<1>7. ASSUME NEW e \in Entries, MapResultRPC(e) PROVE File(m)'
  BY <1>2, <1>7 DEF MapResultRPC, MapReported, MapRuns
<1>8. QED
  BY <1>3, <1>4, <1>5, <1>6, <1>7, MapTaskSteps

LEMMA FileInvInit == Init => FileInv
  BY DEF Init, WorkerInit, FileInv

(* A reduce task never starts before every map task has been done, and     *)
(* from then on each map file holds exactly the lines of the words of its  *)
(* file that belong to its reducer, in order: none is missing, left over   *)
(* from an earlier job or half written, whatever workers die or meet on a  *)
(* port.                                                                   *)
THEOREM ReducersSeeFinalFiles == Spec => []ReducersReadFinalFiles
<1>1. Init => JobInv /\ FileInv
  BY JobInvInit, FileInvInit
<1>2. JobInv /\ FileInv /\ [Next]_vars => (JobInv /\ FileInv)'
  BY JobInvStep, FileInvStep
<1>3. JobInv /\ FileInv => ReducersReadFinalFiles
  BY DEF JobInv, PhaseInv, MapsDone, FileInv, ReducersReadFinalFiles
<1>4. QED
  BY <1>1, <1>2, <1>3, PTL DEF Spec
-------------------------------------------------------------------------------
LEMMA EntriesAreWorkers == Entries \subseteq Workers
  BY Bounds DEF Entries, Workers

(* Before the workers are told to exit, they change only where main starts *)
(* one, and where one listens or is killed.                                *)
LEMMA ProcessSteps ==
  ASSUME TypeOK, Calm, Working, [Next]_vars
  PROVE  \/ UNCHANGED procVars
         \/ \E w \in Workers : \E p : /\ pc \in {"spawn", "extra"}
                                       /\ StartWorker(w, p)
         \/ \E w \in Workers : WorkerListen(w) \/ WorkerDies(w)
<1> USE DEF procVars
<1>1. CASE Main
  <2>1. CASE UNCHANGED workerVars
    BY <2>1 DEF workerVars
  <2>2. CASE SendMap \/ SendReduce
    BY <2>2 DEF SendMap, SendReduce, MapRPC, ReduceRPC
  <2>3. CASE SpawnWorker
    BY <2>3, EntriesAreWorkers DEF SpawnWorker, InLoop, Mappers
  <2>4. CASE SpawnExtraWorker
    <3>1. pc = "extra" /\ \E p : StartWorker(NumFiles + next, p)
      BY <2>4 DEF SpawnExtraWorker, InLoop
    <3>2. NumFiles + next \in Workers
      BY <2>4, Bounds DEF SpawnExtraWorker, InLoop, Limit, Workers, TypeOK
    <3>3. QED
      BY <3>1, <3>2
  <2>5. ~ SendExit
    BY DEF SendExit, InLoop, Working
  <2>6. QED
    BY <1>1, <2>1, <2>2, <2>3, <2>4, <2>5
       DEF Main, LoopEnd, SkipDirectory, MapAnswered, MapRefused, MapsAreDone, ReduceAnswered,
           ReduceRefused, ReducesAreDone, ExitRefused
<1>2. ASSUME NEW m \in Entries, MapGoroutine(m) PROVE UNCHANGED procVars
  BY <1>2 DEF MapGoroutine, MapResultRPC, MapOpen, MapWrite, MapReported
<1>3. ASSUME NEW r \in Reducers, ReduceGoroutine(r) PROVE UNCHANGED procVars
  BY <1>3 DEF ReduceGoroutine, ReduceResultRPC, ReduceRead, ReduceWrite, ReduceReported
<1>4. ASSUME NEW w \in Workers PROVE ~ WorkerExit(w) /\ ~ ReportUnanswered(w)
  BY DEF Calm, ProcessesCalm, Working, WorkerExit, ReportUnanswered, MasterUp
<1>5. CASE UNCHANGED vars
  BY <1>5 DEF vars, workerVars
<1>6. QED
  BY <1>1, <1>2, <1>3, <1>4, <1>5 DEF Next, WorkerProcess

(* Whoever was up on a port still is, or has been killed there; whoever    *)
(* ends without being killed has met another one on its port.              *)
LEMMA PortsStayHeld ==
  ASSUME TypeOK, Calm, Working, [Next]_vars
  PROVE  /\ ProcessesCalm'
         /\ \A w, p : Hosted(w, p) => Hosted(w, p)'
         /\ \A w \in Workers : worker[w] # "absent" => worker'[w] # "absent" /\ port'[w] = port[w]
         /\ pc \in {"spawn", "extra"} \/
              /\ port' = port
              /\ \A w \in Workers : worker'[w] = "starting" => worker[w] = "starting"
<1> USE DEF Hosted, Held, Serving, ProcessesCalm
<1>1. /\ worker \in [Workers -> {"absent", "starting", "serving", "exiting", "dead"}]
      /\ DOMAIN port = Workers /\ killed \subseteq Workers
      /\ \A w \in Workers : worker[w] # "exiting"
      /\ \A w \in killed : worker[w] = "dead"
      /\ \A w \in Workers : worker[w] = "dead" => Held(port[w])
  BY DEF TypeOK, WorkerTypeOK, Calm
<1>2. CASE UNCHANGED procVars
  BY <1>1, <1>2 DEF procVars
<1>3. ASSUME NEW u \in Workers, NEW q, pc \in {"spawn", "extra"}, StartWorker(u, q)
      PROVE  /\ ProcessesCalm'
             /\ \A w, p : Hosted(w, p) => Hosted(w, p)'
             /\ \A w \in Workers :
                  worker[w] # "absent" => worker'[w] # "absent" /\ port'[w] = port[w]
  <2>1. /\ worker[u] = "absent" /\ worker' = [worker EXCEPT ![u] = "starting"]
        /\ port' = [port EXCEPT ![u] = q] /\ killed' = killed
    BY <1>3 DEF StartWorker
  <2>2. \A w \in Workers : worker[w] # "absent" => worker'[w] = worker[w] /\ port'[w] = port[w]
    BY <1>1, <2>1
  <2>3. \A w, p : Hosted(w, p) => Hosted(w, p)'
    BY <1>1, <2>1, <2>2
  <2>4. \A w \in Workers : worker'[w] = "dead" => worker[w] = "dead" /\ port'[w] = port[w]
    BY <1>1, <2>1
  <2>5. QED
    BY <1>1, <2>1, <2>2, <2>3, <2>4
<1>4. ASSUME NEW u \in Workers, WorkerListen(u)
      PROVE  /\ ProcessesCalm'
             /\ \A w, p : Hosted(w, p) => Hosted(w, p)'
             /\ \A w \in Workers :
                  worker[w] # "absent" => worker'[w] # "absent" /\ port'[w] = port[w]
             /\ port' = port
             /\ \A w \in Workers : worker'[w] = "starting" => worker[w] = "starting"
  <2>1. /\ worker[u] = "starting" /\ port' = port /\ killed' = killed
        /\ worker' = [worker EXCEPT ![u] =
                       IF \E v \in Workers : Listens(v, port[u]) THEN "dead" ELSE "serving"]
    BY <1>4 DEF WorkerListen
  <2>2. \A w, p : Hosted(w, p) => Hosted(w, p)'
    BY <1>1, <2>1
  <2>3. worker'[u] = "dead" => Held(port[u])
    BY <1>1, <2>1 DEF Listens
  <2>4. \A w \in Workers : worker'[w] = "dead" => Held(port[w])
    BY <1>1, <2>1, <2>3
  <2>5. QED
    BY <1>1, <2>1, <2>2, <2>4
<1>5. ASSUME NEW u \in Workers, WorkerDies(u)
      PROVE  /\ ProcessesCalm'
             /\ \A w, p : Hosted(w, p) => Hosted(w, p)'
             /\ \A w \in Workers :
                  worker[w] # "absent" => worker'[w] # "absent" /\ port'[w] = port[w]
             /\ port' = port
             /\ \A w \in Workers : worker'[w] = "starting" => worker[w] = "starting"
  <2>1. /\ worker' = [worker EXCEPT ![u] = "dead"] /\ killed' = killed \union {u} /\ port' = port
    BY <1>5 DEF WorkerDies
  <2>2. \A w, p : Hosted(w, p) => Hosted(w, p)'
    BY <1>1, <2>1
  <2>3. Hosted(u, port[u])'
    BY <2>1
  <2>4. QED
    BY <1>1, <2>1, <2>2, <2>3
<1>6. QED
  BY <1>1, <1>2, <1>3, <1>4, <1>5, ProcessSteps DEF procVars

(* While main is where it was, its loops keep what they rely on.           *)
LEMMA CalmElsewhere ==
  ASSUME TypeOK, Calm, Working, [Next]_vars, ~ Main
  PROVE  Calm'
<1>1. /\ mapTask \in [Entries -> {"none", "accepted", "writing", "done"}]
      /\ reduceTask \in [Reducers -> {"none", "reading", "written", "done"}]
  BY DEF TypeOK, WorkerTypeOK
<1>2. /\ UNCHANGED <<pc, next, subDirs, mapHost, reduceHost>>
      /\ \A m \in Entries : mapTask'[m] # "none" => mapTask[m] # "none"
      /\ \A r \in Reducers : reduceTask'[r] # "none" => reduceTask[r] # "none"
  <2>1. CASE \E m \in Entries : MapGoroutine(m)
    BY <1>1, <2>1 DEF MapGoroutine, MapResultRPC, MapOpen, MapWrite, MapReported, MapRuns, procVars,
         reduceVars, masterVars
  <2>2. CASE \E r \in Reducers : ReduceGoroutine(r)
    BY <1>1, <2>2 DEF ReduceGoroutine, ReduceResultRPC, ReduceRead, ReduceWrite, ReduceReported,
         ReduceRuns, procVars, mapVars, masterVars
  <2>3. CASE \E w \in Workers : WorkerProcess(w) \/ (WorkerDies(w) /\ UNCHANGED masterVars)
    BY <2>3 DEF WorkerProcess, ReportUnanswered, ReportFails, WorkerListen, WorkerExit, WorkerDies,
         mapVars, reduceVars, masterVars
  <2>4. CASE UNCHANGED vars
    BY <2>4 DEF vars, workerVars, masterVars
  <2>5. QED
    BY <2>1, <2>2, <2>3, <2>4 DEF Next
<1>3. /\ ProcessesCalm'
      /\ \A w, p : Hosted(w, p) => Hosted(w, p)'
      /\ \A w \in Workers : worker[w] # "absent" => worker'[w] # "absent" /\ port'[w] = port[w]
      /\ pc \in {"spawn", "extra"} \/
           /\ port' = port
           /\ \A w \in Workers : worker'[w] = "starting" => worker[w] = "starting"
  BY PortsStayHeld
<1>4. Mappers' = Mappers /\ Mappers \subseteq Workers /\ Mappers \subseteq Entries
  BY <1>2, EntriesAreWorkers DEF Mappers
<1>5. SpawnCalm'
  BY <1>2, <1>3, <1>4 DEF Calm, SpawnCalm
<1>6. \A p : Held(p) => Held(p)'
  BY <1>3 DEF Held
<1>7. MapCalm'
  BY <1>2, <1>3, <1>4, <1>6 DEF Calm, MapCalm
<1>8. ReduceCalm'
  BY <1>2, <1>3, <1>4, <1>6, EntriesAreWorkers DEF Calm, ReduceCalm
<1>9. QED
  BY <1>3, <1>5, <1>7, <1>8 DEF Calm

(* Steps of main: a worker is expected to listen only when it has been     *)
(* started, and after the map phase every file's port has answered.        *)
LEMMA CalmMain ==
  ASSUME JobInv, Calm, Working, Main, Working'
  PROVE  Calm'
<1>1. /\ TypeOK /\ PhaseInv /\ next \in Nat /\ NumFiles \in Nat
      /\ DOMAIN worker = Workers /\ DOMAIN mapTask = Entries /\ DOMAIN mapHost = Entries
      /\ DOMAIN reduceTask = Reducers /\ DOMAIN reduceHost = Reducers
      /\ Mappers \subseteq Workers /\ Mappers \subseteq Entries
  BY Bounds, EntriesAreWorkers DEF JobInv, TypeOK, WorkerTypeOK, Mappers
<1>2. /\ ProcessesCalm'
      /\ \A w, p : Hosted(w, p) => Hosted(w, p)'
      /\ \A w \in Workers : worker[w] # "absent" => worker'[w] # "absent" /\ port'[w] = port[w]
      /\ \A p : Held(p) => Held(p)'
  <2>1. [Next]_vars
    BY DEF Next
  <2>2. QED
    BY <1>1, <2>1, PortsStayHeld DEF Held
<1>3. SpawnCalm /\ MapCalm /\ ReduceCalm
  BY DEF Calm
<1>4. SUFFICES SpawnCalm' /\ MapCalm' /\ ReduceCalm'
  BY <1>2 DEF Calm
<1>5. ASSUME UNCHANGED workerVars
      PROVE  /\ UNCHANGED <<worker, port, mapTask, mapHost, reduceTask, reduceHost>>
             /\ Mappers' = Mappers
  BY <1>5 DEF workerVars, Mappers
<1>6. CASE LoopEnd
  <2>1. UNCHANGED workerVars /\ pc \in DOMAIN Limit /\ next = Limit[pc]
        /\ pc' = After[pc] /\ next' = 0 /\ (pc \in {"spawn", "extra"} => Slept)
    BY <1>6 DEF LoopEnd, Goto
  <2>2. \A m \in Mappers : m < NumFiles /\ ~ (m < 0)
    BY <1>1 DEF Entries
  <2>3. CASE pc = "spawn"
    <3>1. next = NumFiles /\ pc' = "map"
      BY <2>1, <2>3 DEF Limit, After
    <3>2. QED
      BY <1>1, <1>3, <1>5, <2>1, <2>2, <2>3, <3>1 DEF SpawnCalm, MapCalm, ReduceCalm, Slept
  <2>4. CASE pc = "map"
    <3>1. next = NumFiles /\ pc' = "waitMap"
      BY <2>1, <2>4 DEF Limit, After
    <3>2. QED
      BY <1>2, <1>3, <1>5, <2>1, <2>2, <2>4, <3>1 DEF SpawnCalm, MapCalm, ReduceCalm
  <2>5. CASE pc \in {"extra", "reduce"}
    <3>1. pc' = IF pc = "extra" THEN "reduce" ELSE "waitReduce"
      BY <2>1, <2>5 DEF After
    <3>2. QED
      BY <1>2, <1>3, <1>5, <2>1, <2>5, <3>1 DEF SpawnCalm, MapCalm, ReduceCalm
  <2>6. QED
    BY <2>1, <2>3, <2>4, <2>5 DEF Limit, Working
<1>7. CASE SkipDirectory
  <2>1. UNCHANGED workerVars /\ pc' = pc /\ next' = next + 1 /\ next \notin Mappers
    BY <1>7 DEF SkipDirectory, NextEntry, Mappers
  <2>2. \A m \in Mappers : m < next' => m < next
    BY <1>1, <2>1 DEF Entries
  <2>3. QED
    BY <1>2, <1>3, <1>5, <2>1, <2>2 DEF SpawnCalm, MapCalm, ReduceCalm
<1>8. CASE SpawnWorker
  <2>1. PICK p \in Ports : StartWorker(next, p)
    BY <1>8 DEF SpawnWorker
  <2>2. pc = "spawn" /\ pc' = pc /\ next' = next + 1 /\ next \in Mappers
    BY <1>8 DEF SpawnWorker, InLoop, NextEntry
  <2>3. /\ worker'[next] = "starting"
        /\ UNCHANGED <<mapTask, reduceTask>> /\ Mappers' = Mappers
    BY <1>1, <2>1, <2>2 DEF StartWorker, mapVars, reduceVars, Mappers
  <2>4. \A m \in Mappers : m < next' => m < next \/ m = next
    BY <1>1, <2>2 DEF Entries
  <2>5. QED
    BY <1>1, <1>2, <1>3, <2>2, <2>3, <2>4 DEF SpawnCalm, MapCalm, ReduceCalm
<1>9. CASE SpawnExtraWorker
  <2>1. PICK p \in Ports : StartWorker(NumFiles + next, p)
    BY <1>9 DEF SpawnExtraWorker
  <2>2. pc = "extra" /\ pc' = pc
    BY <1>9 DEF SpawnExtraWorker, InLoop, NextEntry
  <2>3. UNCHANGED reduceTask /\ Mappers' = Mappers
    BY <2>1 DEF StartWorker, reduceVars, Mappers
  <2>4. QED
    BY <1>1, <1>2, <1>3, <2>2, <2>3 DEF SpawnCalm, MapCalm, ReduceCalm
<1>10. CASE SendMap
  <2>1. PICK w \in Workers : Listens(w, port[next]) /\ MapRPC(w, next)
    BY <1>10 DEF SendMap
  <2>2. pc = "map" /\ next \in Mappers
    BY <1>10 DEF SendMap, InLoop
  <2>3. /\ UNCHANGED <<pc, next, worker, port, subDirs, reduceTask>> /\ Mappers' = Mappers
        /\ mapTask' = [mapTask EXCEPT ![next] = "accepted"]
        /\ mapHost' = [mapHost EXCEPT ![next] = w]
    BY <1>10, <2>1 DEF SendMap, MapRPC, procVars, reduceVars, masterVars, Mappers
  <2>4. Hosted(w, port[next])
    BY <2>1 DEF Hosted, Listens
  <2>5. QED
    BY <1>1, <1>2, <1>3, <2>2, <2>3, <2>4 DEF SpawnCalm, MapCalm, ReduceCalm
<1>11. CASE SendReduce
  <2>1. PICK w \in Workers : Listens(w, ReducePort) /\ ReduceRPC(w, next)
    BY <1>11 DEF SendReduce
  <2>2. pc = "reduce"
    BY <1>11 DEF SendReduce, InLoop
  <2>3. /\ UNCHANGED <<pc, next, worker, port, subDirs>> /\ Mappers' = Mappers
        /\ reduceTask' = [reduceTask EXCEPT ![next] = "reading"]
        /\ reduceHost' = [reduceHost EXCEPT ![next] = w]
    BY <1>11, <2>1 DEF SendReduce, ReduceRPC, procVars, mapVars, masterVars, Mappers
  <2>4. Hosted(w, port[next % NumFiles])
    BY <2>1 DEF Hosted, Listens, ReducePort
  <2>5. QED
    BY <1>1, <1>2, <1>3, <2>2, <2>3, <2>4 DEF SpawnCalm, MapCalm, ReduceCalm
<1>12. CASE MapAnswered
  <2>1. /\ UNCHANGED workerVars /\ pc = "map" /\ pc' = pc /\ next' = next + 1
        /\ mapTask[next] # "none" /\ next < NumFiles
    BY <1>12 DEF MapAnswered, InLoop, Limit, NextEntry
  <2>2. next \in Mappers
    BY <1>1, <2>1 DEF PhaseInv, Entries
  <2>3. Held(port[next])
    BY <1>3, <2>1, <2>2 DEF MapCalm, Held, Hosted
  <2>4. \A m \in Mappers : m < next' => m < next \/ m = next
    BY <1>1, <2>1 DEF Entries
  <2>5. QED
    BY <1>2, <1>3, <1>5, <2>1, <2>3, <2>4 DEF SpawnCalm, MapCalm, ReduceCalm
<1>13. CASE ReduceAnswered \/ MapsAreDone
  <2>1. UNCHANGED workerVars /\ \/ pc = "reduce" /\ pc' = "reduce"
                                \/ pc = "waitMap" /\ pc' = "extra"
    BY <1>13 DEF ReduceAnswered, MapsAreDone, InLoop, NextEntry, Goto
  <2>2. QED
    BY <1>2, <1>3, <1>5, <2>1 DEF SpawnCalm, MapCalm, ReduceCalm
<1>14. ~ (MapRefused \/ ReduceRefused \/ ReducesAreDone \/ SendExit \/ ExitRefused)
  BY DEF MapRefused, ReduceRefused, ReducesAreDone, SendExit, ExitRefused, InLoop, Fatal, Goto,
     Working
<1>15. QED
  BY <1>6, <1>7, <1>8, <1>9, <1>10, <1>11, <1>12, <1>13, <1>14 DEF Main

LEMMA CalmInvStep == JobInv /\ CalmInv /\ [Next]_vars => CalmInv'
<1> SUFFICES ASSUME JobInv, CalmInv, [Next]_vars, Working' PROVE Calm'
  BY DEF CalmInv
<1>1. Working
  <2>1. CASE Main
    BY <2>1 DEF Working, Main, LoopEnd, SkipDirectory, SpawnWorker, SpawnExtraWorker, SendMap,
         MapAnswered, MapRefused, MapsAreDone, SendReduce, ReduceAnswered, ReduceRefused,
         ReducesAreDone, SendExit, ExitRefused, InLoop, NextEntry, Fatal, Goto, After, Limit,
         masterVars
  <2>2. CASE ~ Main
    <3>1. pc' = pc
      BY <2>2 DEF Next, vars, masterVars, MapGoroutine, MapResultRPC, ReduceGoroutine,
           ReduceResultRPC, WorkerProcess, ReportUnanswered
    <3>2. QED
      BY <3>1 DEF Working
  <2>3. QED
    BY <2>1, <2>2
<1>2. Calm
  BY <1>1 DEF CalmInv
<1>3. QED
  BY <1>1, <1>2, CalmMain, CalmElsewhere DEF JobInv

(* A send that fails went to a port whose worker has been killed, or to a  *)
(* mapper that is still starting.                                          *)
LEMMA FailingSend ==
  ASSUME JobInv, Calm, MapRefused \/ ReduceRefused
  PROVE  \/ \E w \in killed : port[w] = SentTo
         \/ ~PromptStart /\ pc = "map" /\ worker[next] = "starting"
<1>1. \A w, p : Hosted(w, p) /\ ~ Listens(w, p) => w \in killed /\ port[w] = p
  BY DEF Hosted, Listens
<1>2. CASE MapRefused
  <2>1. pc = "map" /\ next \in Mappers /\ next \in Workers /\ SentTo = port[next]
    BY <1>2, EntriesAreWorkers DEF MapRefused, InLoop, Mappers, SentTo
  <2>2. CASE mapTask[next] # "none"
    <3>1. Hosted(mapHost[next], port[next]) /\ ~ Serving(mapHost[next])
      BY <1>2, <2>1, <2>2 DEF MapRefused, Calm, MapCalm
    <3>2. QED
      BY <1>1, <2>1, <3>1 DEF Listens
  <2>3. CASE mapTask[next] = "none"
    <3>1. \A w \in Workers : ~ Listens(w, port[next])
      BY <1>2, <2>3 DEF MapRefused
    <3>2. worker[next] \in {"starting", "dead"}
      BY <2>1, <3>1 DEF Calm, MapCalm, JobInv, TypeOK, WorkerTypeOK, Listens, Serving
    <3>3. CASE worker[next] = "starting"
      BY <2>1, <3>3, MasterAssumption DEF Calm, MapCalm
    <3>4. CASE worker[next] = "dead"
      <4>1. PICK w : Hosted(w, port[next])
        BY <2>1, <3>4 DEF Calm, ProcessesCalm, Held
      <4>2. QED
        BY <1>1, <2>1, <3>1, <4>1 DEF Hosted
    <3>5. QED
      BY <3>2, <3>3, <3>4
  <2>4. QED
    BY <2>2, <2>3
<1>3. CASE ReduceRefused
  <2>1. pc = "reduce" /\ next \in Reducers /\ SentTo = ReducePort
    BY <1>3, Bounds DEF ReduceRefused, InLoop, Limit, Reducers, SentTo, JobInv, TypeOK
  <2>2. CASE reduceTask[next] # "none"
    <3>1. Hosted(reduceHost[next], ReducePort) /\ ~ Serving(reduceHost[next])
      BY <1>3, <2>1, <2>2 DEF ReduceRefused, Calm, ReduceCalm, ReducePort
    <3>2. QED
      BY <1>1, <2>1, <3>1 DEF Listens
  <2>3. CASE reduceTask[next] = "none"
    <3>1. MapsDone = Entries /\ Entries # {}
      BY <2>1 DEF JobInv, PhaseInv
    <3>2. NumFiles > 0 /\ next \in Nat
      BY <2>1, <3>1, Bounds DEF Entries, Reducers
    <3>3. next % NumFiles \in Entries
      BY <3>2, Bounds DEF Entries
    <3>4. next % NumFiles \in Mappers
      BY <3>1, <3>3 DEF JobInv, PhaseInv, MapsDone
    <3>5. PICK w : Hosted(w, ReducePort)
      BY <2>1, <3>4 DEF Calm, MapCalm, Held, ReducePort
    <3>6. ~ Listens(w, ReducePort)
      BY <1>3, <2>3, <3>5 DEF ReduceRefused, Hosted
    <3>7. QED
      BY <1>1, <2>1, <3>5, <3>6
  <2>4. QED
    BY <2>2, <2>3
<1>4. QED
  BY <1>2, <1>3

(* A send ends the master only if a worker that was given the port it goes *)
(* to has been killed, or if it is a map request and its worker is still   *)
(* starting, for which a worker has to be slow.  A worker that ends itself *)
(* because another one took its port, the death of other workers,          *)
(* directories among the files and more reducers than files make no send   *)
(* of main fail, nor is a reduce request ever too early.                   *)
THEOREM MasterFailsWithWorkers == Spec => MasterFailsOnlyWithWorker
<1>1. Init => JobInv /\ CalmInv
  <2>1. Init => CalmInv
    BY Bounds, TasksAssumption
       DEF Init, WorkerInit, CalmInv, Calm, ProcessesCalm, SpawnCalm, MapCalm, ReduceCalm, Working,
           Mappers, Entries
  <2>2. QED
    BY <2>1, JobInvInit
<1>2. JobInv /\ CalmInv /\ [Next]_vars => (JobInv /\ CalmInv)'
  BY JobInvStep, CalmInvStep
<1>3. ASSUME JobInv, CalmInv, [Next]_vars, pc' = "failed", pc # "failed"
      PROVE  \/ \E w \in killed : port[w] = SentTo
             \/ ~PromptStart /\ pc = "map" /\ worker[next] = "starting"
  <2>1. Main
    BY <1>3 DEF Next, vars, masterVars, MapGoroutine, MapResultRPC, ReduceGoroutine,
         ReduceResultRPC, WorkerProcess, ReportUnanswered
  <2>2. MapRefused \/ ReduceRefused
    BY <1>3, <2>1 DEF Main, LoopEnd, SkipDirectory, SpawnWorker, SpawnExtraWorker, SendMap,
         MapAnswered, MapsAreDone, SendReduce, ReduceAnswered, ReducesAreDone, SendExit,
         ExitRefused, NextEntry, Goto, After, Limit, masterVars
  <2>3. Working
    BY <2>2 DEF MapRefused, ReduceRefused, InLoop, Working
  <2>4. QED
    BY <1>3, <2>2, <2>3, FailingSend DEF CalmInv
<1>4. JobInv /\ CalmInv /\ [Next]_vars =>
        [pc' = "failed" => \/ pc = "failed"
                           \/ \E w \in killed : port[w] = SentTo
                           \/ ~PromptStart /\ pc = "map" /\ worker[next] = "starting"]_vars
  BY <1>3
<1>5. QED
  BY <1>1, <1>2, <1>4, PTL DEF Spec, MasterFailsOnlyWithWorker
-------------------------------------------------------------------------------
(* The fold of MergeFile, unfolded: FoldLeft recurses over the sets of     *)
(* positions, from the greatest one down.                                  *)
IsTable(it, acc, seq, n) ==
  it = [s \in SUBSET (1 .. n) |->
         IF s = {} THEN acc ELSE MergeLine(it[s \ {Max(s)}], seq[Max(s)])]

(* Merging a line of X into a map of V gives a map of V.                   *)
MergesWithin(V, X) == \A v \in V, x \in X : MergeLine(v, x) \in V

LEMMA GreatestPosition ==
  ASSUME NEW n \in Nat, NEW s \in SUBSET (1 .. n), n \in s
  PROVE  Max(s) = n
<1>1. \A y \in s : n >= y
  OBVIOUS
<1>2. \A x \in s : (\A y \in s : x >= y) => x = n
  OBVIOUS
<1>3. QED
  BY <1>1, <1>2 DEF Max

LEMMA TableExists ==
  ASSUME NEW V, NEW X, NEW acc \in V, NEW seq \in Seq(X), MergesWithin(V, X)
  PROVE  \E it \in [SUBSET (1 .. Len(seq)) -> V] : IsTable(it, acc, seq, Len(seq))
<1> DEFINE S == {n \in Nat : n <= Len(seq) =>
                   \E it \in [SUBSET (1 .. n) -> V] : IsTable(it, acc, seq, n)}
<1>1. 0 \in S
  <2> DEFINE it == [s \in SUBSET (1 .. 0) |-> acc]
  <2>1. it \in [SUBSET (1 .. 0) -> V]
    OBVIOUS
  <2>2. \A s \in SUBSET (1 .. 0) : s = {}
    OBVIOUS
  <2>3. it = [s \in SUBSET (1 .. 0) |->
               IF s = {} THEN acc ELSE MergeLine(it[s \ {Max(s)}], seq[Max(s)])]
    BY <2>2
  <2>4. IsTable(it, acc, seq, 0)
    BY <2>3 DEF IsTable
  <2>5. QED
    BY <2>1, <2>4
<1>2. ASSUME NEW n \in Nat, n \in S PROVE n + 1 \in S
  <2>1. SUFFICES ASSUME n + 1 <= Len(seq)
                 PROVE  \E it \in [SUBSET (1 .. n + 1) -> V] : IsTable(it, acc, seq, n + 1)
    <3>1. n + 1 \in Nat
      OBVIOUS
    <3>2. QED
      BY <3>1, Zenon
  <2>2. PICK old \in [SUBSET (1 .. n) -> V] : IsTable(old, acc, seq, n)
    <3>1. n <= Len(seq)
      BY <2>1
    <3>2. QED
      BY <1>2, <3>1, Zenon
  <2> DEFINE new == [s \in SUBSET (1 .. n + 1) |->
                      IF n + 1 \in s THEN MergeLine(old[s \ {n + 1}], seq[n + 1]) ELSE old[s]]
  <2>3. \A s \in SUBSET (1 .. n + 1) :
          /\ s \ {n + 1} \in SUBSET (1 .. n)
          /\ n + 1 \notin s => s \in SUBSET (1 .. n)
    OBVIOUS
  <2>4. seq[n + 1] \in X
    BY <2>1
  <2>5. new \in [SUBSET (1 .. n + 1) -> V]
    BY <2>3, <2>4 DEF MergesWithin
  <2>6. ASSUME NEW s \in SUBSET (1 .. n + 1)
        PROVE  new[s] = IF s = {} THEN acc ELSE MergeLine(new[s \ {Max(s)}], seq[Max(s)])
    <3>1. CASE n + 1 \in s
      <4>1. Max(s) = n + 1
        BY <3>1, GreatestPosition
      <4>2. new[s \ {n + 1}] = old[s \ {n + 1}]
        BY <2>3
      <4>3. QED
        BY <3>1, <4>1, <4>2
    <3>2. CASE n + 1 \notin s
      <4>1. s \in SUBSET (1 .. n) /\ s \ {Max(s)} \in SUBSET (1 .. n)
        BY <2>3, <3>2
      <4>2. s \ {Max(s)} \in SUBSET (1 .. n + 1) /\ n + 1 \notin s \ {Max(s)}
        BY <3>2
      <4>3. new[s] = old[s] /\ new[s \ {Max(s)}] = old[s \ {Max(s)}]
        BY <3>2, <4>2
      <4>4. old[s] = IF s = {} THEN acc ELSE MergeLine(old[s \ {Max(s)}], seq[Max(s)])
        BY <2>2, <4>1 DEF IsTable
      <4>5. QED
        BY <4>3, <4>4
    <3>3. QED
      BY <3>1, <3>2
  <2>7. IsTable(new, acc, seq, n + 1)
    <3> HIDE DEF new
    <3>1. DOMAIN new = SUBSET (1 .. n + 1)
      BY <2>5
    <3>2. QED
      BY <2>5, <2>6 DEF IsTable
  <2>8. QED
    BY <2>5, <2>7
<1>3. Len(seq) \in Nat /\ Len(seq) <= Len(seq)
  OBVIOUS
<1>4. Len(seq) \in S
  <2> HIDE DEF S
  <2>1. QED
    BY <1>1, <1>2, <1>3, SetInduction
<1>5. QED
  BY <1>3, <1>4, Zenon

LEMMA MergeFileByTable ==
  ASSUME NEW V, NEW X, NEW acc \in V, NEW seq \in Seq(X), MergesWithin(V, X)
  PROVE  \E it : /\ IsTable(it, acc, seq, Len(seq))
                 /\ MergeFile(acc, seq) = it[1 .. Len(seq)]
<1> DEFINE T == CHOOSE it : IsTable(it, acc, seq, Len(seq))
<1>1. IsTable(T, acc, seq, Len(seq))
  BY TableExists
<1>2. DOMAIN seq = 1 .. Len(seq)
  OBVIOUS
<1>3. MergeFile(acc, seq) = T[1 .. Len(seq)]
  BY <1>2, Zenon DEF MergeFile, FoldLeft, MapThenFoldSet, IsTable
<1>4. QED
  BY <1>1, <1>3

LEMMA MergeNoLines ==
  ASSUME NEW V, NEW X, NEW acc \in V, MergesWithin(V, X)
  PROVE  MergeFile(acc, <<>>) = acc
<1>1. ASSUME NEW sq \in Seq(X)
      PROVE  \E it : IsTable(it, acc, sq, Len(sq)) /\ MergeFile(acc, sq) = it[1 .. Len(sq)]
  BY <1>1, MergeFileByTable
<1> DEFINE none == <<>>
<1>2. none \in Seq(X) /\ Len(none) = 0
  OBVIOUS
<1> HIDE DEF none
<1>3. PICK it : IsTable(it, acc, none, Len(none)) /\ MergeFile(acc, none) = it[1 .. Len(none)]
  BY <1>1, <1>2, Zenon
<1>4. 1 .. 0 = {}
  OBVIOUS
<1>5. MergeFile(acc, none) = acc
  BY <1>2, <1>3, <1>4 DEF IsTable
<1>6. QED
  BY <1>5 DEF none

LEMMA MergeFileStep ==
  ASSUME NEW V, NEW X, NEW acc \in V, NEW seq \in Seq(X), NEW x \in X, MergesWithin(V, X)
  PROVE  /\ MergeFile(acc, Append(seq, x)) = MergeLine(MergeFile(acc, seq), x)
         /\ MergeFile(acc, seq) \in V
<1>1. ASSUME NEW sq \in Seq(X)
      PROVE  \E it : IsTable(it, acc, sq, Len(sq)) /\ MergeFile(acc, sq) = it[1 .. Len(sq)]
  BY <1>1, MergeFileByTable
<1> DEFINE n == Len(seq)
           longer == Append(seq, x)
<1>2. /\ n \in Nat /\ longer \in Seq(X) /\ Len(longer) = n + 1 /\ longer[n + 1] = x
      /\ \A k \in 1 .. n : longer[k] = seq[k] /\ seq[k] \in X
  OBVIOUS
<1> HIDE DEF n, longer
<1>3. PICK a : IsTable(a, acc, seq, n) /\ MergeFile(acc, seq) = a[1 .. n]
  BY <1>1, Zenon DEF n
<1>4. PICK b : IsTable(b, acc, longer, n + 1) /\ MergeFile(acc, longer) = b[1 .. n + 1]
  <2>1. \E b : IsTable(b, acc, longer, Len(longer)) /\ MergeFile(acc, longer) = b[1 .. Len(longer)]
    BY <1>1, <1>2, Zenon
  <2>2. QED
    BY <1>2, <2>1, Zenon
<1>5. ASSUME NEW k \in Nat
      PROVE  (1 .. k + 1) \ {Max(1 .. k + 1)} = 1 .. k /\ Max(1 .. k + 1) = k + 1 /\ 1 .. k + 1 # {}
  <2>1. k + 1 \in Nat /\ 1 .. k + 1 \in SUBSET (1 .. k + 1) /\ k + 1 \in 1 .. k + 1
    OBVIOUS
  <2>2. Max(1 .. k + 1) = k + 1
    BY <2>1, GreatestPosition
  <2>3. (1 .. k + 1) \ {k + 1} = 1 .. k
    OBVIOUS
  <2>4. QED
    BY <2>1, <2>2, <2>3
<1>6. ASSUME NEW k \in Nat, k + 1 <= n
      PROVE  a[1 .. k + 1] = MergeLine(a[1 .. k], seq[k + 1])
  <2>1. 1 .. k + 1 \in SUBSET (1 .. n)
    BY <1>2, <1>6
  <2> DEFINE s == 1 .. k + 1
  <2>2. s \ {Max(s)} = 1 .. k /\ Max(s) = k + 1 /\ s # {}
    BY <1>5
  <2>3. a[s] = IF s = {} THEN acc ELSE MergeLine(a[s \ {Max(s)}], seq[Max(s)])
    <3> HIDE DEF s
    <3>1. QED
      BY <1>3, <2>1 DEF IsTable, s
  <2>4. QED
    BY <2>2, <2>3
<1>7. ASSUME NEW k \in Nat, k + 1 <= n + 1
      PROVE  b[1 .. k + 1] = MergeLine(b[1 .. k], longer[k + 1])
  <2>1. 1 .. k + 1 \in SUBSET (1 .. n + 1)
    BY <1>2, <1>7
  <2> DEFINE s == 1 .. k + 1
  <2>2. s \ {Max(s)} = 1 .. k /\ Max(s) = k + 1 /\ s # {}
    BY <1>5
  <2>3. b[s] = IF s = {} THEN acc ELSE MergeLine(b[s \ {Max(s)}], longer[Max(s)])
    <3> HIDE DEF s
    <3>1. QED
      BY <1>4, <2>1 DEF IsTable, s
  <2>4. QED
    BY <2>2, <2>3
<1> DEFINE S == {k \in Nat : k <= n => a[1 .. k] = b[1 .. k] /\ a[1 .. k] \in V}
<1>8. 0 \in S
  <2>1. 1 .. 0 = {} /\ {} \in SUBSET (1 .. n) /\ {} \in SUBSET (1 .. n + 1)
    OBVIOUS
  <2>2. a[{}] = acc /\ b[{}] = acc
    BY <1>3, <1>4, <2>1 DEF IsTable
  <2>3. QED
    BY <2>1, <2>2
<1>9. ASSUME NEW k \in Nat, k \in S PROVE k + 1 \in S
  <2>1. SUFFICES ASSUME k + 1 <= n PROVE a[1 .. k + 1] = b[1 .. k + 1] /\ a[1 .. k + 1] \in V
    OBVIOUS
  <2>2. k <= n /\ k + 1 \in 1 .. n /\ k + 1 <= n + 1
    BY <1>2, <2>1
  <2>3. QED
    BY <1>2, <1>6, <1>7, <1>9, <2>1, <2>2 DEF MergesWithin
<1>10. n \in S
  BY <1>2, <1>8, <1>9, SetInduction
<1>11. QED
  BY <1>2, <1>3, <1>4, <1>7, <1>10 DEF n, longer
-------------------------------------------------------------------------------
LEMMA LinesForType ==
  ASSUME NEW m \in Entries, NEW r \in Reducers, NEW k \in 0 .. Len(Text[m])
  PROVE  LinesFor(m, r)[k] \in Seq({Line(m, w) : w \in Words})
<1> DEFINE n == Len(Text[m])
           X == {Line(m, w) : w \in Words}
           L == LinesFor(m, r)
           S == {j \in 0 .. n : L[j] \in Seq(X)}
<1>1. n \in Nat /\ \A j \in 1 .. n : Text[m][j] \in Words
  BY TasksAssumption
<1>2. /\ L[0] = <<>>
      /\ \A j \in 1 .. n :
           L[j] = L[j - 1] \/ L[j] = Append(L[j - 1], Line(m, Text[m][j]))
  BY LinesForUnfolds
<1>3. \A j \in 1 .. n : Line(m, Text[m][j]) \in X
  BY <1>1
<1> HIDE DEF n, X, L
<1>4. 0 \in S
  <2>1. <<>> \in Seq(X) /\ 0 \in 0 .. n
    BY <1>1
  <2>2. L[0] \in Seq(X)
    BY <1>2, <2>1
  <2>3. QED
    BY <2>1, <2>2
<1>5. ASSUME NEW j \in 0 .. n - 1, j \in S PROVE j + 1 \in S
  <2>1. j + 1 \in 1 .. n /\ j + 1 \in 0 .. n /\ (j + 1) - 1 = j
    BY <1>1
  <2>2. L[j] \in Seq(X) /\ Line(m, Text[m][j + 1]) \in X
    BY <1>3, <1>5, <2>1
  <2>3. L[j + 1] = L[j] \/ L[j + 1] = Append(L[j], Line(m, Text[m][j + 1]))
    BY <1>2, <2>1
  <2>4. L[j + 1] \in Seq(X)
    BY <2>2, <2>3
  <2>5. QED
    BY <2>1, <2>4
<1>6. 0 .. n \subseteq S
  BY <1>1, <1>4, <1>5, IntervalInduction
<1>7. QED
  BY <1>6 DEF n, L, X

(* The positions at which a word stands among the first j of a text.       *)
Positions(s, w, j) == {i \in 1 .. j : s[i] = w}

LEMMA PositionsStep ==
  ASSUME NEW s, NEW w, NEW j \in Nat
  PROVE  /\ Cardinality(Positions(s, w, 0)) = 0
         /\ Cardinality(Positions(s, w, j)) \in Nat
         /\ Cardinality(Positions(s, w, j + 1)) =
              Cardinality(Positions(s, w, j)) + IF s[j + 1] = w THEN 1 ELSE 0
<1>1. Positions(s, w, 0) = {}
  BY DEF Positions
<1>2. IsFiniteSet(1 .. j)
  BY FS_Interval
<1>3. IsFiniteSet(Positions(s, w, j))
  BY <1>2, FS_Subset DEF Positions
<1>4. Cardinality(Positions(s, w, j)) \in Nat
  BY <1>3, FS_CardinalityType
<1>5. ASSUME s[j + 1] = w
      PROVE  Cardinality(Positions(s, w, j + 1)) =
               Cardinality(Positions(s, w, j)) + IF s[j + 1] = w THEN 1 ELSE 0
  <2>1. Positions(s, w, j + 1) = Positions(s, w, j) \union {j + 1} /\ j + 1 \notin Positions(s, w, j)
    BY <1>5 DEF Positions
  <2>2. Cardinality(Positions(s, w, j) \union {j + 1}) = Cardinality(Positions(s, w, j)) + 1
    BY <1>3, <2>1, FS_AddElement
  <2>3. QED
    BY <1>5, <2>1, <2>2
<1>6. ASSUME s[j + 1] # w
      PROVE  Cardinality(Positions(s, w, j + 1)) =
               Cardinality(Positions(s, w, j)) + IF s[j + 1] = w THEN 1 ELSE 0
  <2>1. Positions(s, w, j + 1) = Positions(s, w, j)
    BY <1>6 DEF Positions
  <2>2. QED
    BY <1>4, <1>6, <2>1
<1>7. Cardinality(Positions(s, w, 0)) = 0
  BY <1>1, FS_EmptySet
<1>8. QED
  BY <1>4, <1>5, <1>6, <1>7

LEMMA OccurrencesUnfolds ==
  ASSUME NEW w \in Words
  PROVE  /\ Occurrences(w)[0] = 0
         /\ \A k \in 1 .. NumFiles :
              Occurrences(w)[k] = Occurrences(w)[k - 1]
                + Cardinality(Positions(Text[k - 1], w, Len(Text[k - 1])))
<1> DEFINE Add(k, v) == v + Cardinality({i \in DOMAIN Text[k - 1] : Text[k - 1][i] = w})
<1>1. NumFiles \in Nat
  BY Bounds
<1>2. ASSUME NEW k \in 1 .. NumFiles
      PROVE  /\ {i \in DOMAIN Text[k - 1] : Text[k - 1][i] = w}
                  = Positions(Text[k - 1], w, Len(Text[k - 1]))
             /\ \A v \in Nat : Add(k, v) \in Nat
  <2>1. k - 1 \in Entries
    BY <1>1 DEF Entries
  <2>2. Text[k - 1] \in Seq(Words) /\ DOMAIN Text[k - 1] = 1 .. Len(Text[k - 1])
        /\ Len(Text[k - 1]) \in Nat
    BY <2>1, TasksAssumption
  <2>3. {i \in DOMAIN Text[k - 1] : Text[k - 1][i] = w}
          = Positions(Text[k - 1], w, Len(Text[k - 1]))
    BY <2>2 DEF Positions
  <2>4. Cardinality(Positions(Text[k - 1], w, Len(Text[k - 1]))) \in Nat
    BY <2>2, PositionsStep
  <2>5. Cardinality({i \in DOMAIN Text[k - 1] : Text[k - 1][i] = w}) \in Nat
    BY <2>3, <2>4, Zenon
  <2> DEFINE c == Cardinality({i \in DOMAIN Text[k - 1] : Text[k - 1][i] = w})
  <2>6. \A v \in Nat : v + c \in Nat
    <3> HIDE DEF c
    <3>1. c \in Nat
      BY <2>5 DEF c
    <3>2. QED
      BY <3>1
  <2>7. QED
    BY <2>3, <2>6, Zenon
<1> DEFINE V == Nat
           zero == 0
<1> HIDE DEF Add, V, zero
<1>3. PICK step \in [1 .. NumFiles -> [V -> V]] :
        \A k \in 1 .. NumFiles, v \in V : step[k][v] = Add(k, v)
  <2> DEFINE h == [k \in 1 .. NumFiles |-> [v \in V |-> Add(k, v)]]
  <2>1. \A k \in 1 .. NumFiles, v \in V : Add(k, v) \in V
    BY <1>2 DEF V
  <2>2. h \in [1 .. NumFiles -> [V -> V]]
        /\ \A k \in 1 .. NumFiles, v \in V : h[k][v] = Add(k, v)
    BY <2>1
  <2>3. QED
    BY <2>2
<1>4. PICK f \in [0 .. NumFiles -> V] :
        f[0] = zero /\ \A k \in 1 .. NumFiles : f[k] = step[k][f[k - 1]]
  <2>1. zero \in V
    BY DEF zero, V
  <2>2. QED
    BY <1>1, <2>1, RecursionOnInterval
<1>5. ASSUME NEW k \in 0 .. NumFiles
      PROVE  f[k] = IF k = 0 THEN 0 ELSE Add(k, f[k - 1])
  <2>1. CASE k = 0
    BY <1>4, <2>1 DEF zero
  <2>2. CASE k # 0
    <3>1. k \in 1 .. NumFiles /\ k - 1 \in 0 .. NumFiles
      BY <1>1, <2>2
    <3>2. QED
      BY <1>3, <1>4, <2>2, <3>1
  <2>3. QED
    BY <2>1, <2>2
<1>6. f = [k \in 0 .. NumFiles |-> IF k = 0 THEN 0 ELSE Add(k, f[k - 1])]
  BY <1>5
<1>7. Occurrences(w) =
        [k \in 0 .. NumFiles |-> IF k = 0 THEN 0 ELSE Add(k, Occurrences(w)[k - 1])]
  BY <1>6, Zenon DEF Occurrences, Add
<1> DEFINE O == Occurrences(w)
<1> HIDE DEF O
<1>8. O[0] = 0 /\ \A k \in 1 .. NumFiles : O[k] = Add(k, O[k - 1])
  <2>1. O = [k \in 0 .. NumFiles |-> IF k = 0 THEN 0 ELSE Add(k, O[k - 1])]
    BY <1>7 DEF O
  <2>2. \A k \in 0 .. NumFiles : O[k] = IF k = 0 THEN 0 ELSE Add(k, O[k - 1])
    BY <2>1, Zenon
  <2>3. 0 \in 0 .. NumFiles /\ \A k \in 1 .. NumFiles : k \in 0 .. NumFiles /\ k # 0
    BY <1>1
  <2>4. QED
    BY <2>2, <2>3, Zenon
<1>9. QED
  BY <1>2, <1>8 DEF O, Add

LEMMA FilesWithUnfolds ==
  ASSUME NEW w \in Words
  PROVE  /\ FilesWith(w)[0] = <<>>
         /\ \A k \in 1 .. NumFiles :
              FilesWith(w)[k] = IF \E i \in DOMAIN Text[k - 1] : Text[k - 1][i] = w
                                THEN Append(FilesWith(w)[k - 1], Path[k - 1])
                                ELSE FilesWith(w)[k - 1]
<1> DEFINE V == Seq(STRING)
           none == <<>>
           Add(k, v) == IF \E i \in DOMAIN Text[k - 1] : Text[k - 1][i] = w
                        THEN Append(v, Path[k - 1]) ELSE v
<1>1. NumFiles \in Nat /\ none \in V
  BY Bounds
<1>2. ASSUME NEW k \in 1 .. NumFiles, NEW v \in V PROVE Add(k, v) \in V
  <2>1. k - 1 \in Entries
    BY <1>1 DEF Entries
  <2>2. Path[k - 1] \in STRING
    BY <2>1, TasksAssumption
  <2>3. Append(v, Path[k - 1]) \in V
    BY <2>2
  <2>4. QED
    BY <2>3, Zenon
<1> HIDE DEF Add, V, none
<1>3. PICK step \in [1 .. NumFiles -> [V -> V]] :
        \A k \in 1 .. NumFiles, v \in V : step[k][v] = Add(k, v)
  <2> DEFINE h == [k \in 1 .. NumFiles |-> [v \in V |-> Add(k, v)]]
  <2>1. h \in [1 .. NumFiles -> [V -> V]]
        /\ \A k \in 1 .. NumFiles, v \in V : h[k][v] = Add(k, v)
    BY <1>2
  <2>2. QED
    BY <2>1
<1>4. PICK f \in [0 .. NumFiles -> V] :
        f[0] = none /\ \A k \in 1 .. NumFiles : f[k] = step[k][f[k - 1]]
  BY <1>1, RecursionOnInterval
<1>5. ASSUME NEW k \in 0 .. NumFiles
      PROVE  f[k] = IF k = 0 THEN none ELSE Add(k, f[k - 1])
  <2>1. CASE k = 0
    BY <1>4, <2>1
  <2>2. CASE k # 0
    <3>1. k \in 1 .. NumFiles /\ k - 1 \in 0 .. NumFiles
      BY <1>1, <2>2
    <3>2. QED
      BY <1>3, <1>4, <2>2, <3>1
  <2>3. QED
    BY <2>1, <2>2
<1>6. f = [k \in 0 .. NumFiles |-> IF k = 0 THEN none ELSE Add(k, f[k - 1])]
  BY <1>5
<1>7. FilesWith(w) =
        [k \in 0 .. NumFiles |-> IF k = 0 THEN none ELSE Add(k, FilesWith(w)[k - 1])]
  BY <1>6, Zenon DEF FilesWith, Add, none
<1> DEFINE F == FilesWith(w)
<1> HIDE DEF F
<1>8. F[0] = none /\ \A k \in 1 .. NumFiles : F[k] = Add(k, F[k - 1])
  <2>1. F = [k \in 0 .. NumFiles |-> IF k = 0 THEN none ELSE Add(k, F[k - 1])]
    BY <1>7 DEF F
  <2>2. QED
    BY <1>1, <2>1
<1>9. QED
  BY <1>8, Zenon DEF F, Add, none

(* The reference lists only paths of entries that have been considered.    *)
LEMMA FilesWithPaths ==
  ASSUME NEW w \in Words, NEW k \in 0 .. NumFiles
  PROVE  /\ FilesWith(w)[k] \in Seq(STRING)
         /\ \A i \in 1 .. Len(FilesWith(w)[k]) :
              \E m \in Entries : m < k /\ FilesWith(w)[k][i] = Path[m]
<1> DEFINE F == FilesWith(w)
           S == {j \in 0 .. NumFiles :
                  /\ F[j] \in Seq(STRING)
                  /\ \A i \in 1 .. Len(F[j]) : \E m \in Entries : m < j /\ F[j][i] = Path[m]}
<1>1. NumFiles \in Nat
  BY Bounds
<1>2. /\ F[0] = <<>>
      /\ \A j \in 1 .. NumFiles : F[j] = F[j - 1] \/ F[j] = Append(F[j - 1], Path[j - 1])
  BY FilesWithUnfolds
<1> HIDE DEF F
<1>3. 0 \in S
  <2>1. 0 \in 0 .. NumFiles /\ <<>> \in Seq(STRING) /\ Len(<<>>) = 0 /\ 1 .. 0 = {}
    BY <1>1
  <2>2. F[0] \in Seq(STRING) /\ 1 .. Len(F[0]) = {}
    BY <1>2, <2>1
  <2>3. QED
    BY <2>1, <2>2
<1>4. ASSUME NEW j \in 0 .. NumFiles - 1, j \in S PROVE j + 1 \in S
  <2>1. j + 1 \in 1 .. NumFiles /\ j + 1 \in 0 .. NumFiles /\ (j + 1) - 1 = j /\ j \in Entries
    BY <1>1 DEF Entries
  <2>2. /\ F[j] \in Seq(STRING) /\ Path[j] \in STRING
        /\ \A i \in 1 .. Len(F[j]) : \E m \in Entries : m < j /\ F[j][i] = Path[m]
    BY <1>4, <2>1, TasksAssumption
  <2>3. \A m \in Entries : m \in Int
    BY <1>1 DEF Entries
  <2>4. CASE F[j + 1] = F[j]
    <3>1. \A i \in 1 .. Len(F[j]) : \E m \in Entries : m < j + 1 /\ F[j][i] = Path[m]
      BY <2>1, <2>2, <2>3
    <3>2. QED
      BY <2>1, <2>2, <2>4, <3>1
  <2>5. CASE F[j + 1] = Append(F[j], Path[j])
    <3>1. /\ F[j + 1] \in Seq(STRING) /\ Len(F[j + 1]) = Len(F[j]) + 1
          /\ \A i \in 1 .. Len(F[j]) : F[j + 1][i] = F[j][i]
          /\ F[j + 1][Len(F[j]) + 1] = Path[j]
      BY <2>2, <2>5
    <3>2. ASSUME NEW i \in 1 .. Len(F[j + 1])
          PROVE  \E m \in Entries : m < j + 1 /\ F[j + 1][i] = Path[m]
      <4>1. CASE i = Len(F[j]) + 1
        BY <2>1, <3>1, <4>1
      <4>2. CASE i # Len(F[j]) + 1
        <5>1. i \in 1 .. Len(F[j])
          BY <2>2, <3>1, <4>2
        <5>2. QED
          BY <2>1, <2>2, <2>3, <3>1, <5>1
      <4>3. QED
        BY <4>1, <4>2
    <3>3. QED
      BY <2>1, <3>1, <3>2
  <2>6. QED
    BY <1>2, <2>1, <2>4, <2>5
<1>5. 0 .. NumFiles \subseteq S
  BY <1>1, <1>3, <1>4, IntervalInduction
<1>6. QED
  BY <1>5 DEF F
-------------------------------------------------------------------------------
(* A line that a reducer can split into two fields: file names without     *)
(* white space, and no two entries with the same path.                     *)
PlainPaths ==
  /\ \A m \in Entries : PathFields[m] = <<Path[m]>>
  /\ \A m, n \in Entries : Path[m] = Path[n] => m = n

Lines(m) == {Line(m, w) : w \in Words}

LEMMA LineHasTwoFields ==
  ASSUME NEW m \in Entries, NEW w \in Words, CountWords \/ PlainPaths
  PROVE  /\ Len(Line(m, w)) = 2
         /\ Line(m, w)[1] = w
         /\ ~ CountWords => Line(m, w)[2] = Path[m]
<1>1. ASSUME NEW U, NEW a \in U, NEW b \in U
      PROVE  Len(<<a>> \o <<b>>) = 2 /\ (<<a>> \o <<b>>)[1] = a /\ (<<a>> \o <<b>>)[2] = b
  <2> DEFINE s == <<a>>
             t == <<b>>
  <2>1. s \in Seq(U) /\ t \in Seq(U) /\ Len(s) = 1 /\ Len(t) = 1 /\ s[1] = a /\ t[1] = b
    OBVIOUS
  <2> HIDE DEF s, t
  <2>2. /\ Len(s \o t) = Len(s) + Len(t)
        /\ \A i \in 1 .. Len(s) + Len(t) :
             (s \o t)[i] = IF i <= Len(s) THEN s[i] ELSE t[i - Len(s)]
    BY <2>1, ConcatProperties
  <2>3. Len(s \o t) = 2 /\ (s \o t)[1] = a /\ (s \o t)[2] = b
    BY <2>1, <2>2
  <2>4. QED
    BY <2>3, Zenon DEF s, t
<1>2. CASE CountWords
  <2>1. Line(m, w) = <<w>> \o <<"1">>
    BY <1>2 DEF Line
  <2>2. Len(Line(m, w)) = 2 /\ Line(m, w)[1] = w
    BY <1>1, <2>1
  <2>3. QED
    BY <1>2, <2>2
<1>3. CASE ~ CountWords
  <2>1. Line(m, w) = <<w>> \o <<Path[m]>>
    BY <1>3, Zenon DEF Line, PlainPaths
  <2>2. Len(Line(m, w)) = 2 /\ Line(m, w)[1] = w /\ Line(m, w)[2] = Path[m]
    BY <1>1, <2>1
  <2>3. QED
    BY <2>2
<1>4. QED
  BY <1>2, <1>3

LEMMA CountingMerge ==
  ASSUME CountWords, NEW m \in Entries, NEW v \in [Words -> Nat], NEW w \in Words
  PROVE  /\ MergeLine(v, Line(m, w)) = [v EXCEPT ![w] = @ + 1]
         /\ MergeLine(v, Line(m, w)) \in [Words -> Nat]
<1>1. MergeLine(v, Line(m, w)) = [v EXCEPT ![w] = @ + 1]
  BY LineHasTwoFields DEF MergeLine
<1>2. [v EXCEPT ![w] = @ + 1] \in [Words -> Nat]
  OBVIOUS
<1>3. QED
  BY <1>1, <1>2

LEMMA IndexingMerge ==
  ASSUME ~ CountWords, PlainPaths, NEW m \in Entries, NEW v \in [Words -> Seq(STRING)],
         NEW w \in Words
  PROVE  /\ MergeLine(v, Line(m, w)) =
              IF Contains(v[w], Path[m]) THEN v ELSE [v EXCEPT ![w] = Append(@, Path[m])]
         /\ MergeLine(v, Line(m, w)) \in [Words -> Seq(STRING)]
<1>1. MergeLine(v, Line(m, w)) =
        IF Contains(v[w], Path[m]) THEN v ELSE [v EXCEPT ![w] = Append(@, Path[m])]
  BY LineHasTwoFields DEF MergeLine
<1>2. Path[m] \in STRING
  BY TasksAssumption
<1>3. [v EXCEPT ![w] = Append(@, Path[m])] \in [Words -> Seq(STRING)]
  BY <1>2
<1>4. QED
  BY <1>1, <1>3

(* Merging the lines of the first k words counts these words.              *)
Counted(acc, m, r, k) ==
  [w \in Words |-> acc[w] + IF getReducerIndex(w) = r
                            THEN Cardinality(Positions(Text[m], w, k)) ELSE 0]

LEMMA CountedStart ==
  ASSUME NEW m \in Entries, NEW r \in Reducers, NEW acc \in [Words -> Nat]
  PROVE  Counted(acc, m, r, 0) = acc
<1>1. \A w \in Words : Cardinality(Positions(Text[m], w, 0)) = 0
  BY PositionsStep
<1>2. \A w \in Words : acc[w] \in Nat /\ acc[w] + 0 = acc[w]
  OBVIOUS
<1>3. QED
  BY <1>1, <1>2 DEF Counted

LEMMA CountedStep ==
  ASSUME NEW m \in Entries, NEW r \in Reducers, NEW acc \in [Words -> Nat], NEW k \in Nat
  PROVE  /\ Counted(acc, m, r, k) \in [Words -> Nat]
         /\ Text[m][k + 1] \in Words =>
              Counted(acc, m, r, k + 1) =
              IF getReducerIndex(Text[m][k + 1]) = r
              THEN [Counted(acc, m, r, k) EXCEPT ![Text[m][k + 1]] = @ + 1]
              ELSE Counted(acc, m, r, k)
<1> DEFINE c(w, j) == Cardinality(Positions(Text[m], w, j))
<1>1. \A w \in Words : /\ c(w, k) \in Nat
                       /\ c(w, k + 1) = c(w, k) + IF Text[m][k + 1] = w THEN 1 ELSE 0
  BY PositionsStep
<1>2. \A j : Counted(acc, m, r, j) =
               [w \in Words |-> acc[w] + IF getReducerIndex(w) = r THEN c(w, j) ELSE 0]
  BY DEF Counted
<1> HIDE DEF c
<1>3. Counted(acc, m, r, k) \in [Words -> Nat]
  <2>1. \A w \in Words : acc[w] + (IF getReducerIndex(w) = r THEN c(w, k) ELSE 0) \in Nat
    BY <1>1
  <2>2. QED
    BY <1>2, <2>1
<1>4. ASSUME Text[m][k + 1] \in Words
      PROVE  Counted(acc, m, r, k + 1) =
        IF getReducerIndex(Text[m][k + 1]) = r
        THEN [Counted(acc, m, r, k) EXCEPT ![Text[m][k + 1]] = @ + 1]
        ELSE Counted(acc, m, r, k)
  BY <1>1, <1>2, <1>4
<1>5. QED
  BY <1>3, <1>4

(* Merging the lines of the first k words lists the file under each.       *)
Indexed(acc, m, r, k) ==
  [w \in Words |-> IF getReducerIndex(w) = r /\ (\E i \in 1 .. k : Text[m][i] = w)
                   THEN Append(acc[w], Path[m]) ELSE acc[w]]

LEMMA IndexedStart ==
  ASSUME NEW m \in Entries, NEW r \in Reducers, NEW acc \in [Words -> Seq(STRING)]
  PROVE  Indexed(acc, m, r, 0) = acc
<1>1. \A w \in Words : ~ \E i \in 1 .. 0 : Text[m][i] = w
  OBVIOUS
<1>2. QED
  BY <1>1 DEF Indexed

LEMMA IndexedStep ==
  ASSUME NEW m \in Entries, NEW r \in Reducers, NEW acc \in [Words -> Seq(STRING)], NEW k \in Nat,
         \A w \in Words : ~ Contains(acc[w], Path[m])
  PROVE  /\ Indexed(acc, m, r, k) \in [Words -> Seq(STRING)]
         /\ Text[m][k + 1] \in Words =>
              Indexed(acc, m, r, k + 1) =
              IF getReducerIndex(Text[m][k + 1]) = r
              THEN IF Contains(Indexed(acc, m, r, k)[Text[m][k + 1]], Path[m])
                   THEN Indexed(acc, m, r, k)
                   ELSE [Indexed(acc, m, r, k) EXCEPT ![Text[m][k + 1]] = Append(@, Path[m])]
              ELSE Indexed(acc, m, r, k)
<1> DEFINE seen(w, j) == \E i \in 1 .. j : Text[m][i] = w
           word == Text[m][k + 1]
<1>1. /\ Path[m] \in STRING
      /\ \A w \in Words : seen(w, k + 1) <=> seen(w, k) \/ w = word
  <2>1. Path[m] \in STRING
    BY TasksAssumption
  <2>2. ASSUME NEW w \in Words PROVE seen(w, k + 1) <=> seen(w, k) \/ w = word
    <3>1. k + 1 \in 1 .. k + 1 /\ \A i \in 1 .. k + 1 : i = k + 1 \/ i \in 1 .. k
      OBVIOUS
    <3>2. \A i \in 1 .. k : i \in 1 .. k + 1
      OBVIOUS
    <3>3. QED
      BY <3>1, <3>2
  <2>3. QED
    BY <2>1, <2>2
<1>2. \A j : Indexed(acc, m, r, j) =
               [w \in Words |-> IF getReducerIndex(w) = r /\ seen(w, j)
                                THEN Append(acc[w], Path[m]) ELSE acc[w]]
  BY DEF Indexed
<1> HIDE DEF seen
<1>3. \A w \in Words : acc[w] \in Seq(STRING) /\ Append(acc[w], Path[m]) \in Seq(STRING)
  BY <1>1
<1>4. ASSUME NEW j PROVE Indexed(acc, m, r, j) \in [Words -> Seq(STRING)]
  BY <1>2, <1>3
<1>5. ASSUME NEW w \in Words
      PROVE  Contains(Append(acc[w], Path[m]), Path[m])
  <2>1. Len(acc[w]) + 1 \in 1 .. Len(Append(acc[w], Path[m]))
        /\ Append(acc[w], Path[m])[Len(acc[w]) + 1] = Path[m]
    BY <1>3
  <2>2. QED
    BY <2>1 DEF Contains
<1>6. ASSUME word \in Words
      PROVE  Indexed(acc, m, r, k + 1) =
        IF getReducerIndex(word) = r
        THEN IF Contains(Indexed(acc, m, r, k)[word], Path[m])
             THEN Indexed(acc, m, r, k)
             ELSE [Indexed(acc, m, r, k) EXCEPT ![word] = Append(@, Path[m])]
        ELSE Indexed(acc, m, r, k)
  <2>1. word \in Words
    BY <1>6
  <2> HIDE DEF word
  <2>2. CASE getReducerIndex(word) # r
    <3>1. \A w \in Words : getReducerIndex(w) = r => (seen(w, k + 1) <=> seen(w, k))
      BY <1>1, <2>2
    <3>2. QED
      BY <1>2, <2>2, <3>1
  <2>3. CASE getReducerIndex(word) = r /\ seen(word, k)
    <3>1. \A w \in Words : seen(w, k + 1) <=> seen(w, k)
      BY <1>1, <2>3
    <3>2. Indexed(acc, m, r, k + 1) = Indexed(acc, m, r, k)
      BY <1>2, <3>1
    <3>3. Indexed(acc, m, r, k)[word] = Append(acc[word], Path[m])
      BY <1>2, <2>1, <2>3
    <3>4. QED
      BY <1>5, <2>1, <2>3, <3>2, <3>3
  <2>4. CASE getReducerIndex(word) = r /\ ~ seen(word, k)
    <3>1. Indexed(acc, m, r, k)[word] = acc[word]
      BY <1>2, <2>1, <2>4
    <3>2. Indexed(acc, m, r, k + 1) =
            [Indexed(acc, m, r, k) EXCEPT ![word] = Append(acc[word], Path[m])]
      <4>1. PICK a, b : a = Indexed(acc, m, r, k) /\ b = Indexed(acc, m, r, k + 1)
        OBVIOUS
      <4>2. \A w \in Words : b[w] = IF w = word THEN Append(acc[word], Path[m]) ELSE a[w]
        BY <1>1, <1>2, <2>1, <2>4, <4>1
      <4>3. a \in [Words -> Seq(STRING)] /\ b \in [Words -> Seq(STRING)]
        BY <1>4, <4>1
      <4>4. b = [a EXCEPT ![word] = Append(acc[word], Path[m])]
        BY <4>2, <4>3
      <4>5. QED
        BY <4>1, <4>4
    <3>3. QED
      BY <2>1, <2>4, <3>1, <3>2
  <2>5. QED
    BY <2>2, <2>3, <2>4
<1>7. QED
  BY <1>4, <1>6

(* The reference as the same steps, entry by entry.                        *)
LEMMA ResultType ==
  ASSUME NEW r \in Reducers, NEW k \in 0 .. NumFiles
  PROVE  ResultOf(r, k) \in IF CountWords THEN [Words -> Nat] ELSE [Words -> Seq(STRING)]
<1>1. NumFiles \in Nat
  BY Bounds
<1>2. CASE CountWords
  <2>1. ASSUME NEW w \in Words PROVE \A j \in 0 .. NumFiles : Occurrences(w)[j] \in Nat
    <3> DEFINE O == Occurrences(w)
               P(j) == Cardinality(Positions(Text[j - 1], w, Len(Text[j - 1])))
               S == {j \in 0 .. NumFiles : O[j] \in Nat}
    <3>1. O[0] = 0 /\ \A j \in 1 .. NumFiles : O[j] = O[j - 1] + P(j)
      BY OccurrencesUnfolds
    <3>2. \A j \in 1 .. NumFiles : P(j) \in Nat
      <4>1. \A j \in 1 .. NumFiles : j - 1 \in Entries
        BY <1>1 DEF Entries
      <4>2. \A j \in 1 .. NumFiles : Len(Text[j - 1]) \in Nat
        BY <4>1, TasksAssumption
      <4>3. QED
        BY <4>2, PositionsStep
    <3> HIDE DEF O, P
    <3>3. 0 \in S
      BY <1>1, <3>1
    <3>4. \A j \in 0 .. NumFiles - 1 : j \in S => j + 1 \in S
      <4>1. ASSUME NEW j \in 0 .. NumFiles - 1, j \in S PROVE j + 1 \in S
        <5>1. j + 1 \in 1 .. NumFiles /\ j + 1 \in 0 .. NumFiles /\ (j + 1) - 1 = j
          BY <1>1
        <5>2. O[j] \in Nat /\ P(j + 1) \in Nat /\ O[j + 1] = O[j] + P(j + 1)
          BY <3>1, <3>2, <4>1, <5>1
        <5>3. QED
          BY <5>1, <5>2
      <4>2. QED
        BY <4>1
    <3>5. 0 .. NumFiles \subseteq S
      BY <1>1, <3>3, <3>4, IntervalInduction
    <3>6. QED
      BY <3>5 DEF O
  <2>2. \A w \in Words : (IF getReducerIndex(w) # r THEN 0 ELSE Occurrences(w)[k]) \in Nat
    BY <2>1
  <2>3. QED
    BY <1>2, <2>2 DEF ResultOf, NoEntry
<1>3. CASE ~ CountWords
  <2>1. \A w \in Words : FilesWith(w)[k] \in Seq(STRING) /\ <<>> \in Seq(STRING)
    BY FilesWithPaths
  <2>2. QED
    BY <1>3, <2>1 DEF ResultOf, NoEntry
<1>4. QED
  BY <1>2, <1>3

LEMMA ResultStarts ==
  ASSUME NEW r \in Reducers
  PROVE  ResultOf(r, 0) = EmptyMap
  BY OccurrencesUnfolds, FilesWithUnfolds DEF ResultOf, EmptyMap, NoEntry

LEMMA ResultStep ==
  ASSUME NEW m \in Entries, NEW r \in Reducers
  PROVE  ResultOf(r, m + 1) = IF CountWords
                              THEN Counted(ResultOf(r, m), m, r, Len(Text[m]))
                              ELSE Indexed(ResultOf(r, m), m, r, Len(Text[m]))
<1>1. m + 1 \in 1 .. NumFiles /\ (m + 1) - 1 = m /\ m \in 0 .. NumFiles
  BY Bounds DEF Entries
<1>2. DOMAIN Text[m] = 1 .. Len(Text[m])
  BY TasksAssumption
<1>3. CASE CountWords
  <2>1. \A w \in Words : Occurrences(w)[m + 1] =
          Occurrences(w)[m] + Cardinality(Positions(Text[m], w, Len(Text[m])))
    BY <1>1, OccurrencesUnfolds
  <2>2. QED
    BY <1>3, <2>1 DEF ResultOf, Counted, NoEntry
<1>4. CASE ~ CountWords
  <2>1. \A w \in Words : FilesWith(w)[m + 1] =
          IF \E i \in 1 .. Len(Text[m]) : Text[m][i] = w
          THEN Append(FilesWith(w)[m], Path[m]) ELSE FilesWith(w)[m]
    BY <1>1, <1>2, FilesWithUnfolds
  <2>2. QED
    BY <1>4, <2>1 DEF ResultOf, Indexed, NoEntry
<1>5. QED
  BY <1>3, <1>4

(* One reducer reading one finished map file adds what the reference adds  *)
(* for that entry.                                                         *)
LEMMA MergeOneFile ==
  ASSUME CountWords \/ PlainPaths, NEW m \in Entries, NEW r \in Reducers
  PROVE  MergeFile(ResultOf(r, m), LinesFor(m, r)[Len(Text[m])]) = ResultOf(r, m + 1)
<1> DEFINE acc == ResultOf(r, m)
           n == Len(Text[m])
           L == LinesFor(m, r)
           V == IF CountWords THEN [Words -> Nat] ELSE [Words -> Seq(STRING)]
           Made(k) == IF CountWords THEN Counted(acc, m, r, k) ELSE Indexed(acc, m, r, k)
           S == {k \in 0 .. n : MergeFile(acc, L[k]) = Made(k)}
<1>1. /\ m \in 0 .. NumFiles /\ m \in Nat
      /\ n \in Nat /\ \A k \in 0 .. n - 1 : Text[m][k + 1] \in Words
  BY Bounds, TasksAssumption DEF Entries
<1>2. acc \in V
  BY <1>1, ResultType
<1>3. ~ CountWords => \A w \in Words : ~ Contains(acc[w], Path[m])
  <2> SUFFICES ASSUME ~ CountWords, NEW w \in Words PROVE ~ Contains(acc[w], Path[m])
    OBVIOUS
  <2>1. acc[w] = <<>> \/ acc[w] = FilesWith(w)[m]
    BY DEF ResultOf, NoEntry
  <2>2. CASE acc[w] = <<>>
    BY <2>2 DEF Contains
  <2>3. CASE acc[w] = FilesWith(w)[m]
    <3>1. \A i \in 1 .. Len(FilesWith(w)[m]) : \E e \in Entries : e < m /\ FilesWith(w)[m][i] = Path[e]
      BY <1>1, FilesWithPaths
    <3>2. \A e \in Entries : e < m => Path[e] # Path[m]
      BY <1>1 DEF PlainPaths
    <3>3. \A i \in 1 .. Len(FilesWith(w)[m]) : FilesWith(w)[m][i] # Path[m]
      BY <3>1, <3>2
    <3>4. QED
      BY <2>3, <3>3 DEF Contains
  <2>4. QED
    BY <2>1, <2>2, <2>3
<1>4. MergesWithin(V, Lines(m))
  BY CountingMerge, IndexingMerge DEF MergesWithin, Lines
<1>5. /\ L[0] = <<>>
      /\ \A k \in 0 .. n - 1 :
           /\ L[k] \in Seq(Lines(m)) /\ Line(m, Text[m][k + 1]) \in Lines(m)
           /\ L[k + 1] = IF getReducerIndex(Text[m][k + 1]) = r
                         THEN Append(L[k], Line(m, Text[m][k + 1])) ELSE L[k]
  <2>1. \A k \in 0 .. n - 1 : k \in 0 .. n /\ k + 1 \in 1 .. n /\ (k + 1) - 1 = k
    BY <1>1
  <2>2. \A k \in 0 .. n - 1 : L[k] \in Seq(Lines(m)) /\ Line(m, Text[m][k + 1]) \in Lines(m)
    BY <1>1, <2>1, LinesForType DEF Lines
  <2>3. QED
    BY <2>1, <2>2, LinesForUnfolds
<1>6. \A k \in 0 .. n - 1 : k + 1 \in 0 .. n
  BY <1>1
<1>7. Made(n) = ResultOf(r, m + 1)
  BY ResultStep
<1> HIDE DEF acc, n, L, V, Made
<1>8. /\ Made(0) = acc
      /\ \A k \in 0 .. n - 1 : Made(k) \in V /\
           Made(k + 1) = IF getReducerIndex(Text[m][k + 1]) = r
                         THEN MergeLine(Made(k), Line(m, Text[m][k + 1])) ELSE Made(k)
  <2>1. CASE CountWords
    <3>1. acc \in [Words -> Nat] /\ V = [Words -> Nat]
          /\ \A k : Made(k) = Counted(acc, m, r, k)
      BY <1>2, <2>1 DEF V, Made
    <3>2. Made(0) = acc
      BY <3>1, CountedStart
    <3>3. ASSUME NEW k \in 0 .. n - 1
          PROVE  Made(k) \in V /\
                 Made(k + 1) = IF getReducerIndex(Text[m][k + 1]) = r
                               THEN MergeLine(Made(k), Line(m, Text[m][k + 1])) ELSE Made(k)
      <4>1. k \in Nat /\ Text[m][k + 1] \in Words
        BY <1>1
      <4> DEFINE w == Text[m][k + 1]
                 v == Counted(acc, m, r, k)
      <4>2. v \in [Words -> Nat] /\
            Counted(acc, m, r, k + 1) =
              IF getReducerIndex(w) = r THEN [v EXCEPT ![w] = @ + 1] ELSE v
        <5>1. v \in [Words -> Nat]
          BY <3>1, <4>1, CountedStep, Zenon
        <5>2. Counted(acc, m, r, k + 1) =
                IF getReducerIndex(w) = r THEN [v EXCEPT ![w] = @ + 1] ELSE v
          BY <3>1, <4>1, CountedStep, SMTT(30)
        <5>3. QED
          BY <5>1, <5>2
      <4> HIDE DEF w, v
      <4>3. w \in Words
        BY <4>1 DEF w
      <4>4. MergeLine(v, Line(m, w)) = [v EXCEPT ![w] = @ + 1]
        BY <2>1, <4>2, <4>3, CountingMerge
      <4>5. Counted(acc, m, r, k + 1) =
              IF getReducerIndex(w) = r THEN MergeLine(v, Line(m, w)) ELSE v
        BY <4>2, <4>4, Zenon
      <4>6. QED
        BY <3>1, <4>2, <4>5 DEF w, v
    <3>4. QED
      BY <3>2, <3>3
  <2>2. CASE ~ CountWords
    <3>1. acc \in [Words -> Seq(STRING)] /\ V = [Words -> Seq(STRING)]
          /\ \A k : Made(k) = Indexed(acc, m, r, k)
      BY <1>2, <2>2 DEF V, Made
    <3>2. Made(0) = acc
      BY <3>1, IndexedStart
    <3>3. ASSUME NEW k \in 0 .. n - 1
          PROVE  Made(k) \in V /\
                 Made(k + 1) = IF getReducerIndex(Text[m][k + 1]) = r
                               THEN MergeLine(Made(k), Line(m, Text[m][k + 1])) ELSE Made(k)
      <4>1. k \in Nat /\ Text[m][k + 1] \in Words
        BY <1>1
      <4> DEFINE w == Text[m][k + 1]
                 v == Indexed(acc, m, r, k)
      <4>2. /\ v \in [Words -> Seq(STRING)]
            /\ Indexed(acc, m, r, k + 1) =
                 IF getReducerIndex(w) = r
                 THEN IF Contains(v[w], Path[m]) THEN v
                      ELSE [v EXCEPT ![w] = Append(@, Path[m])]
                 ELSE v
        BY <1>3, <2>2, <3>1, <4>1, IndexedStep
      <4> HIDE DEF w, v
      <4>3. w \in Words
        BY <4>1 DEF w
      <4>4. MergeLine(v, Line(m, w)) =
              IF Contains(v[w], Path[m]) THEN v ELSE [v EXCEPT ![w] = Append(@, Path[m])]
        BY <2>2, <4>2, <4>3, IndexingMerge
      <4>5. Indexed(acc, m, r, k + 1) =
              IF getReducerIndex(w) = r THEN MergeLine(v, Line(m, w)) ELSE v
        BY <4>2, <4>4, Zenon
      <4>6. QED
        BY <3>1, <4>2, <4>5 DEF w, v
    <3>4. QED
      BY <3>2, <3>3
  <2>3. QED
    BY <2>1, <2>2
<1>9. 0 \in S
  <2>1. MergeFile(acc, <<>>) = acc
    BY <1>2, <1>4, MergeNoLines
  <2>2. QED
    BY <1>1, <1>5, <1>8, <2>1
<1>10. ASSUME NEW k \in 0 .. n - 1, k \in S PROVE k + 1 \in S
  <2> DEFINE line == Line(m, Text[m][k + 1])
  <2>1. /\ MergeFile(acc, L[k]) = Made(k)
        /\ L[k] \in Seq(Lines(m)) /\ line \in Lines(m)
        /\ k + 1 \in 0 .. n
    BY <1>5, <1>6, <1>10
  <2> HIDE DEF line
  <2>2. MergeFile(acc, Append(L[k], line)) = MergeLine(Made(k), line)
    BY <1>2, <1>4, <2>1, MergeFileStep
  <2>3. MergeFile(acc, L[k + 1]) = Made(k + 1)
    BY <1>5, <1>8, <2>1, <2>2 DEF line
  <2>4. QED
    BY <2>1, <2>3
<1>11. n \in S
  <2>1. 0 .. n \subseteq S
    BY <1>1, <1>9, <1>10, IntervalInduction
  <2>2. QED
    BY <1>1, <2>1
<1>12. QED
  BY <1>7, <1>11 DEF acc, L, n
-------------------------------------------------------------------------------
(* Each reduce task holds what the reference makes of the entries it has   *)
(* read, and writes it after the last one.                                 *)
ReduceInv ==
  /\ DOMAIN merged = Reducers /\ DOMAIN reduceOut = Reducers
  /\ \A r \in Reducers :
       /\ merged[r] = ResultOf(r, reducePos[r])
       /\ reduceTask[r] = "none" => reducePos[r] = 0
       /\ reduceTask[r] \in {"none", "reading"} => reduceOut[r] = <<>>
       /\ reduceTask[r] \in {"written", "done"} => /\ reducePos[r] = NumFiles
                                                   /\ reduceOut[r] = Expected(r)

(* What a step does to the reduce tasks.                                   *)
LEMMA ReduceTaskSteps ==
  ASSUME TypeOK, [Next]_vars
  PROVE  \/ UNCHANGED reduceVars
         \/ \E r \in Reducers, w \in Workers : reduceTask[r] = "none" /\ ReduceRPC(w, r)
         \/ \E r \in Reducers : ReduceRead(r) \/ ReduceWrite(r) \/ ReduceResultRPC(r)
<1>1. CASE Main
  <2>1. CASE SendReduce
    <3>1. next \in Reducers
      BY <2>1, Bounds DEF SendReduce, InLoop, Limit, TypeOK, Reducers
    <3>2. QED
      BY <2>1, <3>1 DEF SendReduce, Listens, Serving
  <2>2. CASE LoopEnd \/ SkipDirectory \/ MapAnswered \/ MapRefused \/ MapsAreDone
               \/ ReduceAnswered \/ ReduceRefused \/ ReducesAreDone \/ ExitRefused
    BY <2>2 DEF LoopEnd, SkipDirectory, MapAnswered, MapRefused, MapsAreDone, ReduceAnswered,
         ReduceRefused, ReducesAreDone, ExitRefused, workerVars, reduceVars
  <2>3. CASE SpawnWorker \/ SpawnExtraWorker
    BY <2>3 DEF SpawnWorker, SpawnExtraWorker, StartWorker
  <2>4. CASE SendMap
    BY <2>4 DEF SendMap, MapRPC
  <2>5. CASE SendExit
    BY <2>5 DEF SendExit, ExitRPC
  <2>6. QED
    BY <1>1, <2>1, <2>2, <2>3, <2>4, <2>5 DEF Main
<1>2. ASSUME NEW m \in Entries, MapGoroutine(m) PROVE UNCHANGED reduceVars
  BY <1>2 DEF MapGoroutine, MapResultRPC, MapOpen, MapWrite, MapReported
<1>3. ASSUME NEW r \in Reducers, ReduceGoroutine(r)
      PROVE  ReduceRead(r) \/ ReduceWrite(r) \/ ReduceResultRPC(r)
  BY <1>3 DEF ReduceGoroutine
<1>4. ASSUME NEW w \in Workers, WorkerProcess(w) \/ (WorkerDies(w) /\ UNCHANGED masterVars)
      PROVE  UNCHANGED reduceVars
  BY <1>4 DEF WorkerProcess, ReportUnanswered, ReportFails, WorkerListen, WorkerExit, WorkerDies
<1>5. CASE UNCHANGED vars
  BY <1>5 DEF vars, workerVars, reduceVars
<1>6. QED
  BY <1>1, <1>2, <1>3, <1>4, <1>5 DEF Next

(* The lines of a finished map file are not taken for a missing file.      *)
LEMMA LinesAreThere ==
  ASSUME CountWords \/ PlainPaths, NEW m \in Entries, NEW r \in Reducers
  PROVE  LinesFor(m, r)[Len(Text[m])] # Missing
<1> DEFINE lines == LinesFor(m, r)[Len(Text[m])]
<1>1. lines \in Seq(Lines(m))
  <2>1. Len(Text[m]) \in 0 .. Len(Text[m])
    BY TasksAssumption
  <2>2. QED
    BY <2>1, LinesForType DEF Lines
<1>2. \A l \in Lines(m) : Len(l) = 2
  BY LineHasTwoFields DEF Lines
<1> HIDE DEF lines
<1>3. SUFFICES ASSUME lines = Missing PROVE FALSE
  BY DEF lines
<1>4. Len(Missing) = 1 /\ Missing[1] = <<"missing">> /\ Len(<<"missing">>) = 1
  BY DEF Missing
<1>5. Missing[1] \in Lines(m)
  BY <1>1, <1>3, <1>4
<1>6. QED
  BY <1>2, <1>4, <1>5

LEMMA ReduceInvInit == Init => ReduceInv
<1>1. \A r \in Reducers : EmptyMap = ResultOf(r, 0)
  BY ResultStarts
<1>2. QED
  BY <1>1, Zenon DEF Init, WorkerInit, ReduceInv

LEMMA ReduceInvStep ==
  ASSUME CountWords \/ PlainPaths, JobInv, FileInv, ReduceInv, [Next]_vars
  PROVE  ReduceInv'
<1> DEFINE Task(r) ==
      /\ merged[r] = ResultOf(r, reducePos[r])
      /\ reduceTask[r] = "none" => reducePos[r] = 0
      /\ reduceTask[r] \in {"none", "reading"} => reduceOut[r] = <<>>
      /\ reduceTask[r] \in {"written", "done"} => /\ reducePos[r] = NumFiles
                                                  /\ reduceOut[r] = Expected(r)
<1>1. /\ \A r \in Reducers : Task(r) /\ reducePos[r] \in 0 .. NumFiles
      /\ DOMAIN merged = Reducers /\ DOMAIN reduceOut = Reducers
      /\ DOMAIN reducePos = Reducers /\ DOMAIN reduceTask = Reducers
      /\ TypeOK
  BY DEF ReduceInv, JobInv, TypeOK, WorkerTypeOK
<1>2. SUFFICES /\ \A r \in Reducers : Task(r)'
               /\ DOMAIN merged' = Reducers /\ DOMAIN reduceOut' = Reducers
  BY DEF ReduceInv
<1>3. CASE UNCHANGED reduceVars
  BY <1>1, <1>3 DEF reduceVars
<1>4. ASSUME NEW e \in Reducers, NEW w \in Workers, reduceTask[e] = "none", ReduceRPC(w, e)
      PROVE  /\ \A r \in Reducers : Task(r)'
             /\ DOMAIN merged' = Reducers /\ DOMAIN reduceOut' = Reducers
  BY <1>1, <1>4 DEF ReduceRPC
<1>5. ASSUME NEW e \in Reducers, ReduceRead(e)
      PROVE  /\ \A r \in Reducers : Task(r)'
             /\ DOMAIN merged' = Reducers /\ DOMAIN reduceOut' = Reducers
  <2> DEFINE m == reducePos[e]
             lines == mapFile[m][e]
  <2>1. /\ reduceTask[e] = "reading" /\ m < NumFiles
        /\ reducePos' = [reducePos EXCEPT ![e] = m + 1]
        /\ merged' = [merged EXCEPT ![e] = IF lines = Missing THEN @ ELSE MergeFile(@, lines)]
        /\ UNCHANGED <<reduceTask, reduceOut>>
    BY <1>5 DEF ReduceRead, ReduceRuns
  <2>2. m \in Entries
    BY <1>1, <2>1, Bounds DEF Entries
  <2>3. lines = LinesFor(m, e)[Len(Text[m])]
    BY <2>1, <2>2 DEF JobInv, PhaseInv, MapsDone, FileInv
  <2>4. lines # Missing
    BY <2>2, <2>3, LinesAreThere
  <2>5. MergeFile(ResultOf(e, m), lines) = ResultOf(e, m + 1)
    BY <2>2, <2>3, MergeOneFile
  <2> HIDE DEF m, lines
  <2>6. merged[e] = ResultOf(e, m)
    BY <1>1 DEF m
  <2>7. merged' = [merged EXCEPT ![e] = ResultOf(e, m + 1)]
    BY <2>1, <2>4, <2>5, <2>6
  <2>8. QED
    BY <1>1, <2>1, <2>7
<1>6. ASSUME NEW e \in Reducers, ReduceWrite(e)
      PROVE  /\ \A r \in Reducers : Task(r)'
             /\ DOMAIN merged' = Reducers /\ DOMAIN reduceOut' = Reducers
  <2>1. reduceTask[e] = "reading" /\ reducePos[e] = NumFiles /\ merged[e] = Expected(e)
    BY <1>1, <1>6 DEF ReduceWrite, ReduceRuns, Expected
  <2>2. QED
    BY <1>1, <1>6, <2>1 DEF ReduceWrite
<1>7. ASSUME NEW e \in Reducers, ReduceResultRPC(e)
      PROVE  /\ \A r \in Reducers : Task(r)'
             /\ DOMAIN merged' = Reducers /\ DOMAIN reduceOut' = Reducers
  BY <1>1, <1>7 DEF ReduceResultRPC, ReduceReported, ReduceRuns
<1>8. QED
  BY <1>1, <1>3, <1>4, <1>5, <1>6, <1>7, ReduceTaskSteps
Announced == pc \in {"exit", "done"}

(* The master announces success once, when it has taken the element of     *)
(* reduceDone.                                                             *)
LEMMA AnnouncedOnce ==
  ASSUME [Next]_vars, ~ (Announced' <=> Announced)
  PROVE  ReducesAreDone /\ ~ Announced /\ Announced' /\ UNCHANGED workerVars
<1> USE DEF Announced
<1>1. UNCHANGED pc => FALSE
  OBVIOUS
<1>2. Main
  <2>1. UNCHANGED masterVars => FALSE
    BY <1>1 DEF masterVars
  <2>2. ASSUME NEW m \in Entries, MapGoroutine(m) PROVE FALSE
    BY <1>1, <2>1, <2>2 DEF MapGoroutine, MapResultRPC
  <2>3. ASSUME NEW r \in Reducers, ReduceGoroutine(r) PROVE FALSE
    BY <1>1, <2>1, <2>3 DEF ReduceGoroutine, ReduceResultRPC
  <2>4. ASSUME NEW w \in Workers, WorkerProcess(w) \/ (WorkerDies(w) /\ UNCHANGED masterVars)
        PROVE  FALSE
    BY <2>1, <2>4 DEF WorkerProcess, ReportUnanswered
  <2>5. QED
    BY <1>1, <2>2, <2>3, <2>4 DEF Next, vars, masterVars
<1>3. ~ LoopEnd
  BY DEF LoopEnd, Limit, After, Goto
<1>4. ~ (SkipDirectory \/ SpawnWorker \/ SpawnExtraWorker \/ MapAnswered \/ ReduceAnswered
           \/ SendExit \/ ExitRefused \/ SendMap \/ SendReduce)
  BY <1>1 DEF SkipDirectory, SpawnWorker, SpawnExtraWorker, MapAnswered, ReduceAnswered,
       SendExit, ExitRefused, SendMap, SendReduce, NextEntry, masterVars
<1>5. ~ (MapRefused \/ ReduceRefused \/ MapsAreDone)
  BY DEF MapRefused, ReduceRefused, MapsAreDone, Fatal, Goto, InLoop
<1>6. ReducesAreDone
  BY <1>2, <1>3, <1>4, <1>5 DEF Main
<1>7. QED
  BY <1>6 DEF ReducesAreDone, Goto

(* The abstract job is about the same data.                                *)
LEMMA SameData ==
  /\ Job!Entries = Entries /\ Job!Reducers = Reducers /\ Job!NoResult = <<>>
  /\ \A r : Job!Expected(r) = Expected(r)
<1>1. Job!NoEntry = NoEntry
  BY Zenon DEF NoEntry, Job!NoEntry
<1>2. \A w : Job!getReducerIndex(w) = getReducerIndex(w)
  BY Zenon DEF getReducerIndex, Job!getReducerIndex
<1>3. \A w : Job!Occurrences(w) = Occurrences(w)
  <2>1. \A X : Job!Cardinality(X) = Cardinality(X)
    BY Zenon DEF Cardinality, Job!Cardinality
  <2>2. QED
    BY <2>1, Zenon DEF Occurrences, Job!Occurrences
<1>4. \A w : Job!FilesWith(w) = FilesWith(w)
  BY Zenon DEF FilesWith, Job!FilesWith
<1>5. \A r, k : Job!ResultOf(r, k) = ResultOf(r, k)
  BY <1>1, <1>2, <1>3, <1>4 DEF ResultOf, Job!ResultOf
<1>6. QED
  BY <1>5 DEF Expected, Job!Expected, Entries, Job!Entries, Reducers, Job!Reducers, Job!NoResult

(* Each step of the master and its workers is a step of the abstract job   *)
(* or leaves what the job shows as it was.                                 *)
LEMMA JobStep ==
  ASSUME CountWords \/ PlainPaths, JobInv, FileInv, ReduceInv, [Next]_vars
  PROVE  [Job!Next]_(Job!vars)
<1>1. /\ TypeOK
      /\ DOMAIN reduceOut = Reducers
      /\ DOMAIN mapTask = Entries
      /\ Mappers \subseteq Entries
  BY DEF JobInv, TypeOK, WorkerTypeOK, ReduceInv, Mappers
<1>2. CASE ~ (Announced' <=> Announced)
  <2>1. ReducesAreDone /\ ~ Announced /\ Announced' /\ UNCHANGED workerVars
    BY <1>2, AnnouncedOnce
  <2>2. \A r \in Reducers : reduceOut[r] = Expected(r)
    <3>1. reduceDone = 1
      BY <2>1 DEF ReducesAreDone
    <3>2. \A r \in Reducers : reduceTask[r] = "done"
      BY <3>1 DEF JobInv, PhaseInv, ReducesDone
    <3>3. QED
      BY <3>2 DEF ReduceInv
  <2>3. ~ (pc \in {"exit", "done"}) /\ (pc' \in {"exit", "done"}) = TRUE
    BY <2>1 DEF Announced
  <2>4. UNCHANGED <<mapTask, reduceOut>>
    BY <2>1 DEF workerVars
  <2>5. Job!Complete
    BY <2>2, <2>3, <2>4, SameData DEF Job!Complete
  <2>6. QED
    BY <2>5 DEF Job!Next
<1>3. CASE Announced' <=> Announced
  <2> USE <1>3 DEF Announced
  <2>1. CASE UNCHANGED <<mapTask, reduceOut>>
    BY <1>3, <2>1 DEF Job!vars
  <2>2. ASSUME NEW m \in Mappers, NEW w \in Workers, mapTask[m] = "none", MapRPC(w, m)
        PROVE  UNCHANGED <<MapsDone, reduceOut>>
    BY <1>1, <2>2 DEF MapRPC, MapsDone, reduceVars
  <2>3. ASSUME NEW m \in Entries, MapOpen(m) \/ MapWrite(m)
        PROVE  UNCHANGED <<MapsDone, reduceOut>>
    BY <1>1, <2>3 DEF MapOpen, MapWrite, MapRuns, MapsDone, reduceVars
  <2>4. ASSUME NEW m \in Entries, MapResultRPC(m)
        PROVE  m \notin MapsDone /\ MapsDone' = MapsDone \union {m} /\ reduceOut' = reduceOut
    BY <1>1, <2>4 DEF MapResultRPC, MapReported, MapRuns, MapsDone, reduceVars
  <2>5. ASSUME UNCHANGED mapVars, NEW r \in Reducers,
               ReduceRead(r) \/ ReduceResultRPC(r) \/ \E w \in Workers : ReduceRPC(w, r)
        PROVE  UNCHANGED <<MapsDone, reduceOut>>
    BY <2>5 DEF ReduceRead, ReduceResultRPC, ReduceReported, ReduceRPC, mapVars, MapsDone
  <2>6. ASSUME NEW r \in Reducers, ReduceWrite(r)
        PROVE  /\ MapsDone = Entries /\ MapsDone' = MapsDone
               /\ reduceOut[r] = <<>> /\ reduceOut' = [reduceOut EXCEPT ![r] = Expected(r)]
    <3>1. reduceTask[r] = "reading" /\ reducePos[r] = NumFiles
          /\ reduceOut' = [reduceOut EXCEPT ![r] = merged[r]] /\ mapTask' = mapTask
      BY <2>6 DEF ReduceWrite, ReduceRuns, mapVars
    <3>2. MapsDone = Entries /\ reduceOut[r] = <<>> /\ merged[r] = Expected(r)
      BY <3>1 DEF JobInv, PhaseInv, ReduceInv, Expected
    <3>3. QED
      BY <3>1, <3>2 DEF MapsDone
  <2>7. CASE UNCHANGED <<MapsDone, reduceOut>>
    BY <1>3, <2>7 DEF Job!vars, MapsDone
  <2>8. ASSUME NEW m \in Entries, MapResultRPC(m) PROVE Job!Map(m)
    BY <1>3, <2>4, <2>8 DEF Job!Map, MapsDone
  <2>9. ASSUME NEW r \in Reducers, ReduceWrite(r) PROVE Job!Reduce(r)
    BY <1>3, <2>6, <2>9, SameData DEF Job!Reduce, MapsDone
  <2>10. CASE UNCHANGED mapVars
    <3>1. CASE UNCHANGED reduceVars
      BY <2>1, <2>10, <3>1 DEF mapVars, reduceVars
    <3>2. QED
      BY <1>1, <2>5, <2>7, <2>9, <2>10, <3>1, ReduceTaskSteps, SameData DEF Job!Next
  <2>11. QED
    BY <1>1, <2>2, <2>3, <2>7, <2>8, <2>10, MapTaskSteps, SameData DEF Job!Next
<1>4. QED
  BY <1>2, <1>3

(* Reduce tasks start after all map tasks, every one that delivers does so *)
(* once and with the exact result expected of the words of its reducer     *)
(* (the count of each, or the paths of the files with it in the order of   *)
(* the directory), and success is announced only after all have: for every *)
(* text, hash function and number of reducers, whatever workers die and    *)
(* whatever an earlier job left behind.  For an inverted index the paths   *)
(* must differ and have no white space, at which reducers split lines.     *)
THEOREM JobRefined ==
  ASSUME CountWords \/ PlainPaths
  PROVE  Spec => RefinesJob
<1>1. Init => Job!Init
  BY SameData DEF Init, WorkerInit, Job!Init
<1>2. Init => JobInv /\ FileInv /\ ReduceInv
  BY JobInvInit, FileInvInit, ReduceInvInit
<1>3. JobInv /\ FileInv /\ ReduceInv /\ [Next]_vars => (JobInv /\ FileInv /\ ReduceInv)'
  BY JobInvStep, FileInvStep, ReduceInvStep
<1>4. JobInv /\ FileInv /\ ReduceInv /\ [Next]_vars => [Job!Next]_(Job!vars)
  BY JobStep
<1>5. QED
  BY <1>1, <1>2, <1>3, <1>4, PTL DEF Spec, RefinesJob, Job!Spec
===============================================================================
