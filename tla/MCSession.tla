------------------------------- MODULE MCSession ------------------------------
(***************************************************************************)
(* A small session for TLC: alice pays charlie once and asks for her       *)
(* balance once; both banks serve.                                         *)
(***************************************************************************)
EXTENDS PaymentSession, MCPayment

OneEnquiry == {"e"}

ServingSession ==
  /\ ServingInit
  /\ Q!Init
  /\ LoginInit
  /\ [][SessionNext]_sessionVars

FairServingSession == ServingSession /\ SessionFairness
===============================================================================
