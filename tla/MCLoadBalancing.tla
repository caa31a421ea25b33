---------------------------- MODULE MCLoadBalancing ---------------------------
(***************************************************************************)
(* Small instances of LoadBalancing for TLC.                               *)
(***************************************************************************)
EXTENDS LoadBalancing

TwoServers == {"s1", "s2"}
TwoKeys == <<"s2", "s1">>
OneClient == {"c"}
ThreeTasks == {<<0, 6>>, <<1, 5>>, <<3, 8>>}

(* The tasks on their own, for more numbers than the clients send.         *)
ASSUME TasksAreRight ==
  \A tasktype \in 0 .. 3, n \in 1 .. 12 : IsAnswer(executeTask(tasktype, n), tasktype, n)
===============================================================================
