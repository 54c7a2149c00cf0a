---------------------------- MODULE GovernedRun ----------------------------
(***************************************************************************)
(* What a governed run promises, without its graph, its trees and its      *)
(* containers: a bounded number of attempts, each one after the first      *)
(* provoked by validation that failed, then one verdict that agrees with   *)
(* the last attempt; or an exception, and no verdict.                      *)
(***************************************************************************)
EXTENDS Naturals

CONSTANTS
  Limits      \* the values max_attempts may have, numbers

VARIABLES
  limit,      \* max_attempts
  requested,  \* a worker was asked for
  phase,      \* "open", "reported" or "aborted"
  attempt,    \* attempts that are over
  outcome,    \* what the last of them came to
  status      \* the verdict

runVars == <<limit, requested, phase, attempt, outcome, status>>

\* no worker ran; the worker was refused; validation failed in a way a worker can
\* repair; worker or validation failed otherwise; both succeeded
Outcomes == {"skipped", "refused", "red", "failed", "green"}

RunInit ==
  /\ limit \in Limits /\ requested \in BOOLEAN
  /\ phase = "open" /\ attempt = 0 /\ outcome = "none" /\ status = "none"

\* One turn of the loop: worker, diff, enforcement, validation.
Attempt ==
  /\ phase = "open"
  /\ attempt = 0 \/ (outcome = "red" /\ attempt < limit)
  /\ attempt' = attempt + 1
  /\ outcome' \in (IF requested THEN Outcomes ELSE {"skipped"})
  /\ UNCHANGED <<limit, requested, phase, status>>

\* Any outcome may be blocked, by the gate, the permission tiers or the risk
\* score.  What was asked for and did not run is never better than that.
Allowed ==
  CASE outcome = "green"   -> {"completed", "blocked"}
    [] outcome = "refused" -> {"blocked"}
    [] outcome = "skipped" -> IF requested THEN {"blocked"} ELSE {"completed", "blocked"}
    [] OTHER               -> {"failed", "blocked"}

Report ==
  /\ phase = "open" /\ attempt > 0
  /\ outcome = "red" => attempt >= limit
  /\ phase' = "reported" /\ status' \in Allowed
  /\ UNCHANGED <<limit, requested, attempt, outcome>>

\* An exception: what the attempts came to is lost with the graph's state.
Abort ==
  /\ phase = "open" /\ phase' = "aborted"
  /\ attempt' = 0 /\ outcome' = "none"
  /\ UNCHANGED <<limit, requested, status>>

RunNext == Attempt \/ Report \/ Abort

RunSpec == RunInit /\ [][RunNext]_runVars /\ WF_runVars(RunNext)
============================================================================
