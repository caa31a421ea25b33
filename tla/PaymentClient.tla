---------------------------- MODULE PaymentClient -----------------------------
(***************************************************************************)
(* The client's side of a payment (q3/client): sendPaymentRequest picks a  *)
(* transaction id, and ClientRequestInterceptor sends the same request up  *)
(* to MaxRetries times, again after a deadline or an "in progress" answer. *)
(* client[p] is where the client stands with payment p, "success",         *)
(* "failed" and "timeout" being what it reports to the user; attempt[p] is *)
(* the loop counter i + 1.                                                 *)
(***************************************************************************)
EXTENDS PaymentGateway

VARIABLES client, attempt

clientVars == <<client, attempt>>
-------------------------------------------------------------------------------
ClientStates == {"new", "waiting", "backoff", "success", "failed", "timeout"}
Reported == {"success", "failed", "timeout"}

ClientInit ==
  /\ client = [p \in Payments |-> "new"]
  /\ attempt = [p \in Payments |-> 0]

Turn(p, from, to) ==
  /\ client[p] = from
  /\ client' = [client EXCEPT ![p] = to]

Handler(p) == <<p, attempt[p]>>

(* One pass of the loop sends the request.  A gateway that is down is seen *)
(* at once, and the error is reported without a retry.                     *)
SendAttempt(p) ==
  /\ \/ Turn(p, "new", "waiting")
     \/ Turn(p, "backoff", "waiting")
  /\ gatewayUp
  /\ attempt' = [attempt EXCEPT ![p] = @ + 1]
  /\ pc' = [pc EXCEPT ![<<p, attempt[p] + 1>>] = "arrived"]
  /\ UNCHANGED <<bankVars, BankServers, UserTransactions, gatewayUp, gatewayRestarts,
                 expired, timeouts, drops>>

GatewayUnavailable(p) ==
  /\ client[p] \in {"new", "backoff", "waiting"}
  /\ ~gatewayUp
  /\ client' = [client EXCEPT ![p] = "failed"]
  /\ UNCHANGED <<bankVars, gatewayVars, attempt>>

RecvSuccess(p) ==
  /\ Turn(p, "waiting", "success")
  /\ pc[Handler(p)] = "success"
  /\ UNCHANGED <<bankVars, gatewayVars, attempt>>

RecvError(p) ==
  /\ Turn(p, "waiting", "failed")
  /\ pc[Handler(p)] = "error"
  /\ UNCHANGED <<bankVars, gatewayVars, attempt>>

(* After the last attempt the loop reports a timeout, otherwise it sleeps. *)
TryAgain(p) ==
  /\ IF attempt[p] = MaxRetries THEN Turn(p, "waiting", "timeout")
                                ELSE Turn(p, "waiting", "backoff")
  /\ UNCHANGED <<bankVars, gatewayVars, attempt>>

RecvInProgress(p) ==
  /\ TryAgain(p)
  /\ pc[Handler(p)] = "inProgress"

(* The deadline of the attempt passes.  It is looked at after the answer,  *)
(* so an error that arrives just before it is taken for a timeout too.     *)
DeadlineExceeded(p) == TryAgain(p)

ClientProcess(p) ==
  SendAttempt(p) \/ GatewayUnavailable(p) \/ RecvSuccess(p) \/ RecvError(p)
  \/ RecvInProgress(p)

ClientTypeOK ==
  /\ client \in [Payments -> ClientStates]
  /\ attempt \in [Payments -> 0 .. MaxRetries]
===============================================================================
