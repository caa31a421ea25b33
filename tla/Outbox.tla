-------------------------------- MODULE Outbox --------------------------------
(***************************************************************************)
(* What the offline client promises for the requests of its user: each is  *)
(* kept until it is sent, and is sent once.                                *)
(***************************************************************************)
CONSTANT Requests

VARIABLES
  pending,  \* requests that have been stored for later
  sent      \* requests that have been sent

vars == <<pending, sent>>

Init == pending = {} /\ sent = {}

Store(r) ==
  /\ r \notin pending \union sent
  /\ pending' = pending \union {r}
  /\ UNCHANGED sent

Send(r) ==
  /\ r \notin sent
  /\ pending' = pending \ {r}
  /\ sent' = sent \union {r}

Next == \E r \in Requests : Store(r) \/ Send(r)

Spec == Init /\ [][Next]_vars
===============================================================================
