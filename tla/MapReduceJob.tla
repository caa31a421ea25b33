----------------------------- MODULE MapReduceJob -----------------------------
(***************************************************************************)
(* What a MapReduce job promises: no reduce task delivers before all map   *)
(* tasks are done, each delivers the result expected of its words, and the *)
(* job is complete only when all of them have.                             *)
(***************************************************************************)
EXTENDS MapReduceTasks

VARIABLES
  mapped,     \* files whose map task is done
  result,     \* result[r]: the output of reduce task r, once delivered
  complete    \* the master has announced success

vars == <<mapped, result, complete>>

NoResult == <<>>

Init ==
  /\ mapped = {}
  /\ result = [r \in Reducers |-> NoResult]
  /\ complete = FALSE

Map(m) ==
  /\ m \notin mapped
  /\ mapped' = mapped \union {m}
  /\ UNCHANGED <<result, complete>>

Reduce(r) ==
  /\ mapped = Entries
  /\ result[r] = NoResult
  /\ result' = [result EXCEPT ![r] = Expected(r)]
  /\ UNCHANGED <<mapped, complete>>

Complete ==
  /\ ~complete
  /\ \A r \in Reducers : result[r] = Expected(r)
  /\ complete' = TRUE
  /\ UNCHANGED <<mapped, result>>

Next ==
  \/ \E m \in Entries : Map(m)
  \/ \E r \in Reducers : Reduce(r)
  \/ Complete

Spec == Init /\ [][Next]_vars
===============================================================================
