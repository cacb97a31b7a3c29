------------------------------ MODULE RequestLife ------------------------------
(***************************************************************************)
(* What balancing and the circuit breakers may rely on when a request is   *)
(* given an upstream: the request may be moved to another one a limited    *)
(* number of times, and only until its answer has begun; it ends with at   *)
(* most one report; and it is reported as failed only if the client got no *)
(* part of an answer.  These are the steps that the requests of            *)
(* UpstreamsPool take (Select, Retry, Succeed, Fail, Abandon), and         *)
(* ClientHandler, where the code is that reports, is checked to take no    *)
(* others.                                                                 *)
(***************************************************************************)
EXTENDS Naturals

CONSTANT MaxRetries   \* retry.max_retries

VARIABLES
  stage,   \* "none", "chosen" when it has an upstream, "answered" when that answers
  tries,   \* how often it was moved
  verdict  \* the report about the last request: "none", "success", "failure"

vars == <<stage, tries, verdict>>

Init ==
  /\ stage = "none"
  /\ tries = 0
  /\ verdict = "none"

\* get_next_alive in handle_connection
Choose ==
  /\ stage = "none"
  /\ stage' = "chosen"
  /\ UNCHANGED tries
  /\ verdict' = "none"

\* get_next_alive in handle(), after a 5xx
MoveOn ==
  /\ stage = "chosen"
  /\ tries < MaxRetries
  /\ tries' = tries + 1
  /\ UNCHANGED <<stage, verdict>>

\* The response begins to reach the client.
Answer ==
  /\ stage = "chosen"
  /\ stage' = "answered"
  /\ UNCHANGED <<tries, verdict>>

End ==
  /\ stage # "none"
  /\ stage' = "none"
  /\ tries' = 0

\* record_metrics, once
Succeed == End /\ verdict' = "success"
Fail    == End /\ stage = "chosen" /\ verdict' = "failure"

\* The client never sent a request, or the task was cancelled, or handle() was left
\* by an exception it does not catch.
Abandon == End /\ UNCHANGED verdict

Next == Choose \/ MoveOn \/ Answer \/ Succeed \/ Fail \/ Abandon

Spec == Init /\ [][Next]_vars
================================================================================
