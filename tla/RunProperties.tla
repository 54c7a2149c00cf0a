--------------------------- MODULE RunProperties ---------------------------
(***************************************************************************)
(* What one governed run promises, stated on the model of run_harness.     *)
(***************************************************************************)
EXTENDS HarnessRun

\* The state of a run has its type: the statuses of ExternalEditResult and of
\* RunRecord, and file lists that only name entries of the repository
\* (app/core/state.py, app/schemas/run.py).
TypeOK ==
  /\ opts \in Options
  /\ pc \in Nodes \union {"working", "finish", "done", "raised"}
  /\ steps \in Nat /\ attempts \in Nat
  /\ host \in Tree /\ box \in Tree /\ base \in Tree
  /\ container \in {"none", "up", "expired", "removed"}
  /\ ready \in BOOLEAN /\ gate \in BOOLEAN /\ converged \in BOOLEAN
  /\ riskBlocked \in BOOLEAN /\ permDenied \in BOOLEAN /\ executed \in BOOLEAN
  /\ edit \in {"none", "completed", "failed", "blocked", "timeout", "auth_missing"}
  /\ changed \subseteq Entries /\ deleted \subseteq Files
  /\ reverts \subseteq Entries /\ everReverted \subseteq Entries
  /\ tests \in {"none", "passed", "failing", "broken"}
  /\ validated \subseteq [Files -> Content]
  /\ orphan \in {"none", "host", "box"}
  /\ cause \in {"none", "worker", "enforce", "tests", "recursion"}
  /\ verdict \in {"none", "completed", "failed", "blocked"}

LoopEnd == {"run_tests", "check_convergence"}
AfterLoop == {"build_changed_subgraph", "review_diff", "assess_risk", "classify_permissions",
              "write_report", "check_report_quality", "check_evidence",
              "build_product_review", "assemble_verification", "audit_conflicts",
              "finish", "done"}

\* Once enforce_permissions has run, no sensitive file differs from HEAD in the
\* tree that is tested and delivered, whatever the worker's exit status was and
\* in whichever attempt it wrote the file.
NothingSensitiveSurvives ==
  (pc \in LoopEnd \union AfterLoop /\ edit # "none") =>
    \A f \in Sensitive \intersect Files : host.wt[f] = host.head[f]

\* A run that had a worker is reported completed only if its validation commands
\* passed, on exactly the tree that is left for the operator.
CompletedIsValidated ==
  (verdict = "completed" /\ executed) => tests = "passed" /\ validated = {host.wt}

\* A worker that was asked for and never started is never a completed run: every
\* early return of run_external_worker shows in the terminal status.
NoSilentNoOp == (verdict = "completed" /\ Requested) => executed

\* On a dirty repository, without allow_dirty, no worker of the host ever starts,
\* although later attempts of the retry loop are always allowed to be dirty.
DirtyRepoNeverDispatched ==
  (executed /\ ~InBox) => (opts.dirtyOk \/ Clean(base))

\* A secret that does not have the bytes the operator had blocks the run: what
\* path enforcement could not restore, the permission gate or the risk guard
\* still sees.
SecretChangeBlocks ==
  pc = "done" =>
    \/ verdict # "completed"
    \/ \A f \in Secret \intersect Files : host.wt[f] = base.wt[f]

\* In the sandbox nothing of the worker's ever reaches a sensitive file of the
\* operator, at any point of the run: it holds what it held or what is staged for
\* it.  A file without an uncommitted edit therefore never changes; an edit may be
\* put back by enforcement (see SandboxLeavesSecrets).
DeniedNeverOnHost ==
  InBox => \A f \in Sensitive \intersect Files : host.wt[f] \in {base.wt[f], base.index[f]}

\* The sandbox changes no sensitive file of the operator at all.  Refuted: what the
\* worker changes in the container, enforce_permissions_node checks out on the host.
SandboxLeavesSecrets ==
  InBox => \A f \in Sensitive \intersect Files : host.wt[f] = base.wt[f]

\* A run that ends, with a record or with an exception, leaves no container.
NoContainerLeft == pc \in {"done", "raised"} => container \in {"none", "removed"}

\* Every file enforcement reverted is in the record's permission report.
RevertsRecorded == pc = "done" => everReverted \subseteq reverts

\* The recursion limit never cuts a run short.
WithinStepLimit == cause # "recursion"

\* The worker is retried only after validation commands really ran on its tree.
RetryAfterRealFailure ==
  [][(pc = "check_convergence" /\ pc' = "run_external_worker") => validated # {}]_vars

\* What the operator had not committed is still there, at every point of a run
\* that was not allowed to start on a dirty repository.  (Sensitive files are
\* another matter: see NoWorkerNoRevert.)
UncommittedWorkKept ==
  ~opts.dirtyOk => \A f \in Files \ Sensitive : base.wt[f] = Theirs => host.wt[f] = Theirs

\* When no worker ran, enforce_permissions is a no-op: a refused worker changed
\* nothing, and what differs from HEAD is the operator's.
NoWorkerNoRevert == ~executed => everReverted = {}

\* A run that ends in an exception, and so leaves no record, leaves every sensitive
\* file as the operator or HEAD had it.  Refuted: enforcement itself may raise.
RaisedLeavesNothing ==
  pc = "raised" =>
    \A f \in Sensitive \intersect Files : host.wt[f] \in {base.wt[f], base.head[f]}

\* Enforcement came to a new sensitive directory that still has content: Path.unlink
\* raised, and the entries not yet gone through are as the worker left them.
EnforcementStuck == cause = "enforce" /\ \E e \in changed \intersect Sensitive : ~Unlinkable(host, e)

\* That is the only exception that leaves the worker's sensitive files behind: any
\* other one leaves each of them as the operator or HEAD had it.
RaisedLeavesNoDenied == RaisedLeavesNothing \/ EnforcementStuck

\* A worker that could not start for lack of credentials makes the run blocked.
SetupFailureBlocks == (pc = "done" /\ edit = "auth_missing") => verdict = "blocked"

---------------------------------------------------------------------------
(* The run as GovernedRun sees it.  An attempt is over when the loop has    *)
(* decided what follows it, so while a later one is under way the outcome   *)
(* is the one that provoked it.                                            *)

InLoop == {"working", "collect_diff", "enforce_permissions", "run_tests", "check_convergence"}
OutcomeOf ==
  IF edit = "none" THEN "skipped"
  ELSE IF edit = "blocked" THEN "refused"
  ELSE IF tests = "failing" THEN "red"
  ELSE IF edit = "completed" /\ tests = "passed" THEN "green" ELSE "failed"

Phase == CASE pc = "done" -> "reported" [] pc = "raised" -> "aborted" [] OTHER -> "open"
AttemptsOver ==
  CASE pc = "raised" -> 0 [] pc \in InLoop -> attempts - 1 [] OTHER -> attempts
LastOutcome ==
  IF AttemptsOver = 0 THEN "none"
  ELSE IF pc \in InLoop THEN "red" ELSE OutcomeOf

Governed == INSTANCE GovernedRun WITH
  Limits <- {o.max : o \in Options}, limit <- opts.max, requested <- Requested,
  phase <- Phase, attempt <- AttemptsOver, outcome <- LastOutcome, status <- verdict

\* The workflow implements GovernedRun: attempts are bounded by max_attempts and
\* provoked by repairable failures only, the verdict agrees with the last attempt,
\* and a run that raised reports nothing.
ImplementsGovernedRun == Governed!RunSpec

\* A run always ends with a record or an exception: the retry loop is bounded and
\* the wait for the worker is.
Ends == <>(pc \in {"done", "raised"})

---------------------------------------------------------------------------
(* The strengthening the proofs rest on (module HarnessRunProofs).          *)

PreLoop == {"scan_repo", "recall_experience", "create_plan", "prepare_workspace",
            "pre_dispatch_gate"}
LoopBody == InLoop \ {"working"}

\* Where the loop stands: a second attempt is under way, or due, only after a
\* repairable failure below max_attempts, and the loop is left otherwise.
LoopShape ==
  /\ pc \in PreLoop => attempts = 0
  /\ pc \in InLoop \union AfterLoop => attempts >= 1
  /\ pc = "run_external_worker" /\ attempts >= 1 => Retry
  /\ pc \in InLoop \union AfterLoop => attempts = 1 \/ attempts <= opts.max
  /\ pc \in AfterLoop => ~Retry
  /\ pc \in AfterLoop \union {"check_convergence"} => tests # "none"
  /\ verdict # "none" => pc = "done"
  /\ pc = "done" => verdict # "none"

\* What is known of the worker: before the first attempt the operator's tree is
\* as it was, a run without a worker process has no edit result but "blocked",
\* and a process of the host started on a tree that allowed it.
WorkerShape ==
  /\ ~Requested => edit = "none" /\ ~executed
  /\ attempts = 0 => host = base /\ ~executed
  /\ ~executed => orphan = "none" /\ pc # "working" /\ edit \in {"none", "blocked"}
  /\ pc \in LoopBody \union AfterLoop /\ Requested /\ edit = "none" => ~ready \/ gate
  /\ executed /\ ~InBox => opts.dirtyOk \/ Clean(base)

\* The nodes run so far, by the node that is next: five before the loop, five in
\* every attempt, ten after it.
Place ==
  [scan_repo |-> 0, recall_experience |-> 1, create_plan |-> 2, prepare_workspace |-> 3,
   pre_dispatch_gate |-> 4, run_external_worker |-> 5, working |-> 1, collect_diff |-> 1,
   enforce_permissions |-> 2, run_tests |-> 3, check_convergence |-> 4,
   build_changed_subgraph |-> 5, review_diff |-> 6, assess_risk |-> 7,
   classify_permissions |-> 8, write_report |-> 9, check_report_quality |-> 10,
   check_evidence |-> 11, build_product_review |-> 12, assemble_verification |-> 13,
   audit_conflicts |-> 14, finish |-> 15]

StepsShape == pc \in DOMAIN Place => steps = 5 * attempts + Place[pc]

\* The inductive invariant of the workflow's control.
ControlInv == LoopShape /\ WorkerShape /\ StepsShape
============================================================================
