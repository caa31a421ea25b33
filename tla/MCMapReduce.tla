------------------------------ MODULE MCMapReduce -----------------------------
(***************************************************************************)
(* Small instances of MapReduceMaster for TLC: a directory with two files  *)
(* whose three words go to different reducers.                             *)
(***************************************************************************)
EXTENDS MapReduceMaster

MCWords == {"a", "b", "c"}
MCHash == [a |-> 6, b |-> 7, c |-> 12]
MCText == [m \in Entries |-> IF m = 0 THEN <<"a", "b", "a">> ELSE <<"c", "a">>]
MCPath == [m \in Entries |-> IF m = 0 THEN "data/one" ELSE "data/two"]
MCFields == [m \in Entries |-> <<MCPath[m]>>]
MCPorts == {"p1", "p2", "p3"}

(* What an earlier job with other data may have left in a map file.        *)
Stale == {<< <<"b", "1">> >>}
NoneStale == {}

(* The second entry is a file or a directory.                              *)
FilesOnly == {{}}
SecondIsDir == {{1}}
FilesOrDir == {{}, {1}}
===============================================================================
