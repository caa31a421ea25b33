---------------------------- MODULE MapReduceWorker ---------------------------
(***************************************************************************)
(* The worker processes of q2 (q2/worker): a process listens on the port   *)
(* the master gave it, MapRPC and ReduceRPC start a goroutine and return   *)
(* at once, and the tasks meet in the files of mapper_output.              *)
(***************************************************************************)
EXTENDS MapReduceTasks

CONSTANTS
  Ports,               \* TCP ports the operating system hands out
  Directories,         \* sets of entries that may be sub-directories
  OldLines,            \* contents an earlier job may have left in a map file
  MaxCrashes           \* bound on the workers that die

(* One worker for each entry, and more when there are more reducers.       *)
NumWorkers == IF NumReduce > NumFiles THEN NumReduce ELSE NumFiles
Workers == 0 .. NumWorkers - 1

NoPort == "port 0"
Nobody == NumWorkers

ASSUME WorkerAssumption ==
  /\ NoPort \notin Ports
  /\ Directories \subseteq SUBSET Entries
  /\ MaxCrashes \in Nat

(* Contents of a file that does not exist; no task writes such a line.     *)
Missing == << <<"missing">> >>

VARIABLES
  subDirs,     \* the entries of the data directory that are no files
  worker,      \* state of each worker process
  port,        \* workerPorts of the master: the port each was started with
  mapTask,     \* the goroutine of each map task
  mapHost,     \* the worker that runs it
  mapPos,      \* number of words it has written
  mapFile,     \* mapFile[m][r]: the lines of mapper_output/map-<m>-<r>.txt
  reduceTask,  \* the goroutine of each reduce task
  reduceHost,  \* the worker that runs it
  reducePos,   \* number of map files it has read
  merged,      \* its map from words to counts or files
  reduceOut,   \* contents of reduce_output/reduce-<r>.txt of this job
  killed       \* the workers that were killed or ended themselves

workerVars == <<subDirs, worker, port, mapTask, mapHost, mapPos, mapFile, reduceTask,
                reduceHost, reducePos, merged, reduceOut, killed>>
procVars == <<subDirs, worker, port, killed>>
mapVars == <<mapTask, mapHost, mapPos, mapFile>>
reduceVars == <<reduceTask, reduceHost, reducePos, merged, reduceOut>>
-------------------------------------------------------------------------------
Mappers == Entries \ subDirs

WorkerInit ==
  /\ subDirs \in Directories
  /\ worker = [w \in Workers |-> "absent"]
  /\ port = [w \in Workers |-> NoPort]
  /\ mapTask = [m \in Entries |-> "none"]
  /\ mapHost = [m \in Entries |-> Nobody]
  /\ mapPos = [m \in Entries |-> 0]
  /\ \E old \in OldLines \union {Missing} :
       mapFile = [m \in Entries |-> [r \in Reducers |-> old]]
  /\ reduceTask = [r \in Reducers |-> "none"]
  /\ reduceHost = [r \in Reducers |-> Nobody]
  /\ reducePos = [r \in Reducers |-> 0]
  /\ merged = [r \in Reducers |-> EmptyMap]
  /\ reduceOut = [r \in Reducers |-> <<>>]
  /\ killed = {}

(* ExitRPC leaves a worker a second to live, in which it still answers.    *)
Serving(w) == w \in Workers /\ worker[w] \in {"serving", "exiting"}
Listens(w, p) == Serving(w) /\ port[w] = p
-------------------------------------------------------------------------------
(* exec.Command("go", "run", "./worker", port)                             *)
StartWorker(w, p) ==
  /\ worker[w] = "absent"
  /\ ~ \E v \in Workers : Listens(v, p)
  /\ worker' = [worker EXCEPT ![w] = "starting"]
  /\ port' = [port EXCEPT ![w] = p]
  /\ UNCHANGED <<mapVars, reduceVars, killed, subDirs>>

(* The port was free when the master probed it; another worker may listen  *)
(* on it by now.                                                           *)
WorkerListen(w) ==
  /\ worker[w] = "starting"
  /\ worker' = [worker EXCEPT ![w] =
                 IF \E v \in Workers : Listens(v, port[w]) THEN "dead" ELSE "serving"]
  /\ UNCHANGED <<subDirs, port, killed, mapVars, reduceVars>>

(* A worker is killed, or ends itself in log.Fatalf over a file it cannot  *)
(* open or create.                                                         *)
WorkerDies(w) ==
  /\ Cardinality(killed) < MaxCrashes
  /\ Serving(w) \/ worker[w] = "starting"
  /\ worker' = [worker EXCEPT ![w] = "dead"]
  /\ killed' = killed \union {w}
  /\ UNCHANGED <<subDirs, port, mapVars, reduceVars>>

ExitRPC(w) ==
  /\ worker' = [worker EXCEPT ![w] = "exiting"]
  /\ UNCHANGED <<subDirs, port, killed, mapVars, reduceVars>>

WorkerExit(w) ==
  /\ worker[w] = "exiting"
  /\ worker' = [worker EXCEPT ![w] = "dead"]
  /\ UNCHANGED <<subDirs, port, killed, mapVars, reduceVars>>
-------------------------------------------------------------------------------
MapRPC(w, m) ==
  /\ mapTask' = [mapTask EXCEPT ![m] = "accepted"]
  /\ mapHost' = [mapHost EXCEPT ![m] = w]
  /\ UNCHANGED <<procVars, reduceVars, mapPos, mapFile>>

MapRuns(m, at) == mapTask[m] = at /\ Serving(mapHost[m])

(* Mutant: the files are opened for appending.                             *)
MapOpenAppends(m) ==
  /\ MapRuns(m, "accepted")
  /\ mapTask' = [mapTask EXCEPT ![m] = "writing"]
  /\ mapFile' = [mapFile EXCEPT ![m] = [r \in Reducers |-> IF @[r] = Missing THEN <<>> ELSE @[r]]]
  /\ UNCHANGED <<procVars, reduceVars, mapHost, mapPos>>

(* All intermediate files are created, and truncated, before any is        *)
(* written.  os.Create succeeds: the directory mapper_output is there.     *)
MapOpen(m) ==
  /\ MapRuns(m, "accepted")
  /\ mapTask' = [mapTask EXCEPT ![m] = "writing"]
  /\ mapFile' = [mapFile EXCEPT ![m] =
                  [r \in Reducers |-> <<>>]]
  /\ UNCHANGED <<procVars, reduceVars, mapHost, mapPos>>

MapWrite(m) ==
  /\ MapRuns(m, "writing")
  /\ mapPos[m] < Len(Text[m])
  /\ mapPos' = [mapPos EXCEPT ![m] = @ + 1]
  /\ LET w == Text[m][mapPos[m] + 1]
     IN  mapFile' = [mapFile EXCEPT ![m][getReducerIndex(w)] =
                      Append(@, Line(m, w))]
  /\ UNCHANGED <<procVars, reduceVars, mapTask, mapHost>>

(* sendMapResults has been answered.                                       *)
MapReported(m) ==
  /\ MapRuns(m, "writing")
  /\ mapPos[m] = Len(Text[m])
  /\ mapTask' = [mapTask EXCEPT ![m] = "done"]
  /\ UNCHANGED <<procVars, reduceVars, mapHost, mapPos, mapFile>>
-------------------------------------------------------------------------------
ReduceRPC(w, r) ==
  /\ reduceTask' = [reduceTask EXCEPT ![r] = "reading"]
  /\ reduceHost' = [reduceHost EXCEPT ![r] = w]
  /\ UNCHANGED <<procVars, mapVars, reducePos, merged, reduceOut>>

ReduceRuns(r, at) == reduceTask[r] = at /\ Serving(reduceHost[r])

(* The next map file is read; a missing one is skipped.                    *)
ReduceRead(r) ==
  LET lines == mapFile[reducePos[r]][r]
  IN  /\ ReduceRuns(r, "reading")
      /\ reducePos[r] < NumFiles
      /\ reducePos' = [reducePos EXCEPT ![r] = @ + 1]
      /\ merged' = [merged EXCEPT ![r] =
                     IF lines = Missing THEN @ ELSE MergeFile(@, lines)]
      /\ UNCHANGED <<procVars, mapVars, reduceTask, reduceHost, reduceOut>>

ReduceWrite(r) ==
  /\ ReduceRuns(r, "reading")
  /\ reducePos[r] = NumFiles
  /\ reduceTask' = [reduceTask EXCEPT ![r] = "written"]
  /\ reduceOut' = [reduceOut EXCEPT ![r] = merged[r]]
  /\ UNCHANGED <<procVars, mapVars, reduceHost, reducePos, merged>>

(* sendReduceResults has been answered.                                    *)
ReduceReported(r) ==
  /\ ReduceRuns(r, "written")
  /\ reduceTask' = [reduceTask EXCEPT ![r] = "done"]
  /\ UNCHANGED <<procVars, mapVars, reduceHost, reducePos, merged, reduceOut>>

(* The master is gone: the report of a result ends the worker.             *)
ReportFails(w) ==
  /\ \/ \E m \in Mappers : MapRuns(m, "writing") /\ mapHost[m] = w /\ mapPos[m] = Len(Text[m])
     \/ \E r \in Reducers : ReduceRuns(r, "written") /\ reduceHost[r] = w
  /\ worker' = [worker EXCEPT ![w] = "dead"]
  /\ UNCHANGED <<subDirs, port, killed, mapVars, reduceVars>>
-------------------------------------------------------------------------------
WorkerTypeOK ==
  /\ worker \in [Workers -> {"absent", "starting", "serving", "exiting", "dead"}]
  /\ port \in [Workers -> Ports \union {NoPort}]
  /\ mapTask \in [Entries -> {"none", "accepted", "writing", "done"}]
  /\ mapHost \in [Entries -> Workers \union {Nobody}]
  /\ DOMAIN mapPos = Entries
  /\ \A m \in Entries : mapPos[m] \in IF m \in Mappers THEN 0 .. Len(Text[m]) ELSE {0}
  /\ DOMAIN mapFile = Entries
  /\ reduceTask \in [Reducers -> {"none", "reading", "written", "done"}]
  /\ reduceHost \in [Reducers -> Workers \union {Nobody}]
  /\ reducePos \in [Reducers -> 0 .. NumFiles]
  /\ killed \subseteq Workers
===============================================================================
