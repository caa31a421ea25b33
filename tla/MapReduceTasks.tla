---------------------------- MODULE MapReduceTasks ----------------------------
(***************************************************************************)
(* The data of a q2 job: the directory entries, the lines that map tasks   *)
(* write for each word, what reduce tasks make of these lines              *)
(* (q2/worker/tasks.go), and the result a user expects of the whole.       *)
(***************************************************************************)
EXTENDS Naturals, Sequences, FiniteSets, SequencesExt

CONSTANTS
  Words,       \* the words that occur in the input
  NumFiles,    \* number of entries of the data directory
  Text,        \* Text[m]: the words of entry m, if it is a file, in order
  Path,        \* Path[m]: the path of entry m
  PathFields,  \* PathFields[m]: the same, split at white space
  NumReduce,   \* number of reduce tasks
  Hash,        \* Hash[w]: the FNV hash of a word
  CountWords   \* TRUE for task type 0, FALSE for an inverted index

Entries == 0 .. NumFiles - 1
Reducers == 0 .. NumReduce - 1

ASSUME TasksAssumption ==
  /\ NumFiles \in Nat
  /\ NumReduce \in Nat \ {0}
  /\ Text \in [Entries -> Seq(Words)]
  /\ Path \in [Entries -> STRING]
  /\ PathFields \in [Entries -> Seq(STRING) \ {<<>>}]
  /\ Hash \in [Words -> Nat]
  /\ CountWords \in BOOLEAN
-------------------------------------------------------------------------------
getReducerIndex(w) == Hash[w] % NumReduce

(* The line printed for word w of file m, as the fields that a reducer     *)
(* splits it into: "w 1" or "w path".                                      *)
Line(m, w) == <<w>> \o IF CountWords THEN <<"1">> ELSE PathFields[m]

(* The lines for reducer r among the first k words of file m, k from 0 on. *)
LinesFor(m, r) ==
  LET upTo[k \in 0 .. Len(Text[m])] ==
        IF k = 0 THEN <<>>
        ELSE IF getReducerIndex(Text[m][k]) = r
          THEN Append(upTo[k - 1], Line(m, Text[m][k]))
          ELSE upTo[k - 1]
  IN  upTo

NoEntry == IF CountWords THEN 0 ELSE <<>>
EmptyMap == [w \in Words |-> NoEntry]

(* Mutant: without contains, a file is listed once for each occurrence.    *)
MergeLineAgain(acc, line) ==
  IF Len(line) # 2 THEN acc
  ELSE IF CountWords THEN [acc EXCEPT ![line[1]] = @ + 1]
  ELSE [acc EXCEPT ![line[1]] = Append(@, line[2])]

(* A line that does not have two fields is skipped.                        *)
MergeLine(acc, line) ==
  IF Len(line) # 2 THEN acc
  ELSE IF CountWords THEN [acc EXCEPT ![line[1]] = @ + 1]
  ELSE IF Contains(acc[line[1]], line[2]) THEN acc
  ELSE [acc EXCEPT ![line[1]] = Append(@, line[2])]

MergeFile(acc, lines) == FoldLeft(MergeLine, acc, lines)
-------------------------------------------------------------------------------
(* Reference: how often a word occurs in the first k entries, and the      *)
(* paths of those that contain it in the order of the directory.           *)
Occurrences(w) ==
  LET inFirst[k \in 0 .. NumFiles] ==
        IF k = 0 THEN 0
        ELSE inFirst[k - 1] + Cardinality({i \in DOMAIN Text[k - 1] : Text[k - 1][i] = w})
  IN  inFirst

FilesWith(w) ==
  LET inFirst[k \in 0 .. NumFiles] ==
        IF k = 0 THEN <<>>
        ELSE IF \E i \in DOMAIN Text[k - 1] : Text[k - 1][i] = w
          THEN Append(inFirst[k - 1], Path[k - 1])
          ELSE inFirst[k - 1]
  IN  inFirst

(* What the first k entries contribute to the words of reducer r, and what *)
(* reduce-<r>.txt should hold.                                             *)
ResultOf(r, k) ==
  [w \in Words |->
    IF getReducerIndex(w) # r THEN NoEntry
    ELSE IF CountWords THEN Occurrences(w)[k] ELSE FilesWith(w)[k]]

Expected(r) == ResultOf(r, NumFiles)
===============================================================================
