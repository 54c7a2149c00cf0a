----------------------------- MODULE HarnessRun -----------------------------
(***************************************************************************)
(* One governed run: run_harness and the LangGraph workflow it invokes     *)
(* (app/core/graph.py), with the worker process, the operating tree it     *)
(* edits and, for `--workspace docker` and `--sandbox`, the container.     *)
(*                                                                         *)
(* pc names the graph node that runs next.  The nodes of the workflow run  *)
(* one after the other; what interleaves with them is the worker process   *)
(* while run_external_worker waits for it, a child of a killed worker that *)
(* outlives it, and the container's own lifetime.                          *)
(***************************************************************************)
EXTENDS GitTree, Naturals, FiniteSets

CONSTANTS
  Options,       \* the ways the run may be started, a subset of LegalOptions
  InitialTrees,  \* the trees the operator may start it on
  Secret,        \* entries that are secret by name: the gate's deny tier
  Dependency,    \* entries that are dependency manifests of the risk score
  TestFiles,     \* entries under tests/
  WorkerGit,     \* git commands the worker uses, a subset of {"add","mv","commit"}
  Orphans,       \* whether a worker killed at its timeout leaves a child behind
  Expiry,        \* whether the run can outlive the container's `sleep 3600`
  StepLimit      \* nodes LangGraph runs before it raises (recursion_limit)

WorkerKinds == {"none", "command", "cli", "openhands", "unknown"}

\* What `agentops run`, `edit`, `issue solve` and the API pass to run_harness.
\* command: the worker command names a sensitive path, has an unbalanced quote,
\* or names a program that is not installed.  tests: a test command has an
\* unbalanced quote, or contains a blocked fragment.
LegalOptions ==
  [worker : WorkerKinds, docker : BOOLEAN, full : BOOLEAN, dirtyOk : BOOLEAN,
   max : Nat, command : {"plain", "sensitive", "malformed", "missing"},
   tests : {"plain", "malformed", "destructive"}]

ASSUME RunAssumption ==
  /\ Options \subseteq LegalOptions
  /\ InitialTrees \subseteq Tree
  /\ Secret \subseteq Sensitive /\ Dependency \subseteq Entries /\ TestFiles \subseteq Entries
  /\ WorkerGit \subseteq {"add", "mv", "commit"}
  /\ Orphans \in BOOLEAN /\ Expiry \in BOOLEAN
  /\ StepLimit \in Nat

VARIABLES
  opts, pc, steps,
  host, box,            \* the operator's tree; the copy inside a full-isolation container
  container, ready,     \* the container's state; PrepareResult.ok
  gate,                 \* PreDispatchDecision.blocked
  attempts, edit,       \* edit: the status of edit_result, "none" for None
  changed, deleted, reverts,
  tests, converged,
  riskBlocked, permDenied,
  orphan,               \* a child of a killed worker still runs: "none", "host" or "box"
  cause,                \* what made the run raise
  verdict,              \* RunRecord.status, "none" while there is no record
  \* history, read by the properties only
  base,                 \* the operator's tree when the run started
  executed,             \* a worker process was started
  everReverted,         \* what enforcement reverted in any attempt
  validated             \* {} or {the tree the last test commands really ran on}

state == <<opts, host, box, container, ready, gate, attempts, edit, changed, deleted,
           reverts, tests, converged, riskBlocked, permDenied>>
world == <<orphan, cause, verdict, base, executed, everReverted, validated>>
vars == <<pc, steps, state, world>>

Nodes == {"scan_repo", "recall_experience", "create_plan", "prepare_workspace",
          "pre_dispatch_gate", "run_external_worker", "collect_diff", "enforce_permissions",
          "run_tests", "check_convergence", "build_changed_subgraph", "review_diff",
          "assess_risk", "classify_permissions", "write_report", "check_report_quality",
          "check_evidence", "build_product_review", "assemble_verification",
          "audit_conflicts"}

\* The nodes that only compute reports, and the node after each.
ReportNodes ==
  [scan_repo |-> "recall_experience", recall_experience |-> "create_plan",
   create_plan |-> "prepare_workspace", build_changed_subgraph |-> "review_diff",
   review_diff |-> "assess_risk", write_report |-> "check_report_quality",
   check_report_quality |-> "check_evidence", check_evidence |-> "build_product_review",
   build_product_review |-> "assemble_verification",
   assemble_verification |-> "audit_conflicts", audit_conflicts |-> "finish"]

---------------------------------------------------------------------------
Requested == opts.worker # "none"
\* make_workspace: OpenHands always gets a LocalWorkspace.
UsesDocker == opts.docker /\ opts.worker # "openhands"
\* The worker command runs inside the container, not on the host.
InBox == UsesDocker /\ opts.full /\ opts.worker = "command"
SandboxUnsupported == opts.full /\ opts.worker \in {"cli", "unknown"}
AllowDirty == opts.dirtyOk \/ attempts >= 1
ContainerUp == container = "up"

\* Workspace.read_changes.  The image has no git unless full isolation installed
\* it, and a container that is not up answers nothing: both read as no change.
\* The host's reader cuts the arrow of a rename, the container's does not.
ReadChanges(h, b) ==
  IF ~UsesDocker THEN Status(h)
  ELSE IF opts.full /\ ContainerUp THEN UncutStatus(b) ELSE {}

RetriableBlocked == tests = "failing"                    \* mutant: blocked workers retried
RetriableBroken == edit # "blocked" /\ tests # "passed"  \* mutant: any failure retried

\* _is_retriable_failure and _route_convergence.  tests = "failing" says that
\* some command exited with 1, "broken" that none did though they did not pass.
IsRetriable == edit # "blocked" /\ tests = "failing"
RetryUnbounded == edit # "none" /\ IsRetriable          \* mutant: max_attempts unread
Retry == edit # "none" /\ IsRetriable /\ attempts < opts.max

\* RiskGuard.assess on what the state holds.
Capped(n, cap) == IF n > cap THEN cap ELSE n
RiskScore ==
  Capped(4 * Cardinality(changed), 25)
    + (IF changed \intersect Sensitive # {} THEN 70 ELSE 0)
    + (IF changed \intersect Dependency # {} THEN 20 ELSE 0)
    + Capped(10 * Cardinality(deleted), 30)
    + (IF tests # "passed" THEN 35 ELSE 0)
    + (IF changed # {} /\ changed \intersect TestFiles = {} THEN 10 ELSE 0)

\* Mutants of the verdict: without the gate, without the validation result,
\* without the permission report, with the worker's own status.
VerdictUngated ==
  IF riskBlocked \/ permDenied \/ edit = "blocked" THEN "blocked"
  ELSE IF edit = "completed" /\ tests # "passed" THEN "failed" ELSE "completed"
VerdictUntested ==
  IF gate \/ riskBlocked \/ permDenied \/ edit = "blocked" THEN "blocked"
  ELSE IF edit \notin {"none", "completed"} THEN "failed" ELSE "completed"
VerdictUnpermitted ==
  IF gate \/ riskBlocked \/ edit = "blocked" THEN "blocked"
  ELSE IF edit = "completed" /\ tests # "passed" THEN "failed" ELSE "completed"
VerdictVerbatim == IF gate \/ edit = "none" THEN "blocked" ELSE edit

\* The status computed at the end of run_harness.
Verdict ==
  IF gate \/ riskBlocked \/ permDenied THEN "blocked"
  ELSE IF edit = "blocked" \/ (edit = "none" /\ Requested /\ ~ready) THEN "blocked"
  ELSE IF edit \notin {"none", "completed"} THEN "failed"
  ELSE IF edit = "completed" /\ tests # "passed" THEN "failed" ELSE "completed"

Init ==
  /\ opts \in Options /\ host \in InitialTrees
  /\ pc = "scan_repo" /\ steps = 0
  /\ box = host /\ container = "none" /\ ready = TRUE /\ gate = FALSE
  /\ attempts = 0 /\ edit = "none"
  /\ changed = {} /\ deleted = {} /\ reverts = {}
  /\ tests = "none" /\ converged = TRUE /\ riskBlocked = FALSE /\ permDenied = FALSE
  /\ orphan = "none" /\ cause = "none" /\ verdict = "none"
  /\ base = host /\ executed = FALSE /\ everReverted = {} /\ validated = {}

\* LangGraph runs node n and moves on to node next.
Node(n, next) ==
  /\ pc = n /\ steps < StepLimit
  /\ steps' = steps + 1 /\ pc' = next

\* A node raises: invoke raises, and run_harness with it.
Raise(why) ==
  /\ steps < StepLimit
  /\ pc' = "raised" /\ cause' = why
  /\ UNCHANGED <<steps, orphan, verdict, base, executed, everReverted, validated>>

ReportNode ==
  /\ \E n \in DOMAIN ReportNodes : Node(n, ReportNodes[n])
  /\ UNCHANGED <<state, world>>

PrepareWorkspace ==
  /\ Node("prepare_workspace", "pre_dispatch_gate")
  /\ \E ok \in (IF UsesDocker THEN BOOLEAN ELSE {TRUE}) :
       /\ ready' = ok
       /\ container' = IF UsesDocker /\ ok THEN "up" ELSE "none"
       /\ box' = IF UsesDocker /\ ok /\ opts.full THEN Archived(host) ELSE box
  /\ UNCHANGED <<opts, host, gate, attempts, edit, changed, deleted, reverts, tests,
                 converged, riskBlocked, permDenied, world>>

PreDispatchGate ==
  /\ Node("pre_dispatch_gate", "run_external_worker")
  /\ gate' = (Requested /\ opts.command = "sensitive")
  /\ UNCHANGED <<opts, host, box, container, ready, attempts, edit, changed, deleted,
                 reverts, tests, converged, riskBlocked, permDenied, world>>

---------------------------------------------------------------------------
(* run_external_worker_node, by its early returns.                         *)

Dispatchable == ~SandboxUnsupported /\ ready /\ ~gate
CommandRaises == opts.worker = "command" /\ opts.command = "malformed"
RefusesDirty ==
  opts.worker \in {"command", "cli", "openhands"} /\ ~InBox /\ ~Clean(host) /\ ~AllowDirty

WorkerReturns(status) ==
  /\ Node("run_external_worker", "collect_diff")
  /\ attempts' = attempts + 1 /\ edit' = status
  /\ UNCHANGED <<opts, host, box, container, ready, gate, changed, deleted, reverts, tests,
                 converged, riskBlocked, permDenied, world>>

SkipWorker ==
  /\ ~SandboxUnsupported
  /\ ~ready \/ gate \/ ~Requested
  /\ WorkerReturns("none")

\* An unsupported or unknown worker, a dirty repository, a CLI that is not
\* installed, a capability pack that does not load.
BlockWorker ==
  /\ \/ SandboxUnsupported
     \/ Dispatchable /\ opts.worker \in {"unknown", "cli", "openhands"}
     \/ Dispatchable /\ RefusesDirty /\ ~CommandRaises
  /\ WorkerReturns("blocked")

WorkerRaises ==
  /\ pc = "run_external_worker" /\ Dispatchable
  /\ \/ CommandRaises
     \/ opts.worker = "command" /\ opts.command = "missing" /\ ~InBox /\ ~RefusesDirty
  /\ Raise("worker") /\ UNCHANGED state

\* The worker process starts; the node waits for it.
DispatchWorker ==
  /\ Dispatchable /\ opts.worker \in {"command", "cli", "openhands"}
  /\ ~CommandRaises /\ ~RefusesDirty
  /\ opts.worker = "command" => InBox \/ opts.command = "plain"
  /\ Node("run_external_worker", "working")
  /\ attempts' = attempts + 1 /\ executed' = TRUE
  /\ UNCHANGED <<opts, host, box, container, ready, gate, edit, changed, deleted, reverts,
                 tests, converged, riskBlocked, permDenied, orphan, cause, verdict, base,
                 everReverted, validated>>

WorkerStep ==
  /\ pc = "working"
  /\ IF InBox
     THEN ContainerUp /\ box' \in WorkerEdits(box, WorkerGit) /\ UNCHANGED host
     ELSE host' \in WorkerEdits(host, WorkerGit) /\ UNCHANGED box
  /\ UNCHANGED <<pc, steps, opts, container, ready, gate, attempts, edit, changed, deleted,
                 reverts, tests, converged, riskBlocked, permDenied, world>>

HungStatuses == IF host = base THEN {} ELSE {"completed", "failed"}  \* mutant: no timeout

\* The statuses a finished worker maps to; "auth_missing" stands for the three
\* set-up failures of OpenHands.  Inside the container only the exit code counts.
Statuses ==
  CASE InBox /\ (~ContainerUp \/ opts.command = "missing") -> {"failed"}
    [] opts.worker = "cli"                                 -> {"completed", "failed", "blocked"}
    [] opts.worker = "openhands" -> {"completed", "failed", "timeout", "auth_missing"}
    [] OTHER                                               -> {"completed", "failed"}

PermittedAll == Status(box)    \* mutant: the sandbox delivers everything

\* DockerWorkspace.extract_permitted, which ends the sandbox branch of the node.
\* A `docker cp` that fails or times out is skipped, so any part may arrive.
Permitted == {e \in Status(box) \ Sensitive : e \notin Files \/ ~PureDelete(box, e)}
Extractions(h) ==
  IF InBox /\ ContainerUp THEN {Extracted(h, box, E) : E \in SUBSET Permitted} ELSE {h}

\* The worker ends, or is killed at its timeout: then only the direct child is
\* killed, and in the container only the `docker exec` client.
WorkerExit ==
  /\ pc = "working" /\ pc' = "collect_diff"
  /\ \E status \in Statuses :
       /\ edit' = status
       /\ orphan' \in IF Orphans /\ status \in {"failed", "timeout"}
                      THEN {orphan, IF InBox THEN "box" ELSE "host"} ELSE {orphan}
  /\ host' \in Extractions(host)
  /\ UNCHANGED <<steps, opts, box, container, ready, gate, attempts, changed, deleted, reverts,
                 tests, converged, riskBlocked, permDenied, cause, verdict, base, executed,
                 everReverted, validated>>

\* What an earlier worker left running keeps editing, whatever the run does.
OrphanEdit ==
  /\ \/ orphan = "host" /\ host' \in WorkerEdits(host, WorkerGit) /\ UNCHANGED box
     \/ orphan = "box" /\ ContainerUp /\ box' \in WorkerEdits(box, WorkerGit) /\ UNCHANGED host
  /\ UNCHANGED <<pc, steps, opts, container, ready, gate, attempts, edit, changed, deleted,
                 reverts, tests, converged, riskBlocked, permDenied, world>>

\* `sleep 3600` ends: every later `docker exec` exits with 1 and prints nothing.
ContainerExpires ==
  /\ Expiry /\ ContainerUp /\ container' = "expired"
  /\ UNCHANGED <<pc, steps, opts, host, box, ready, gate, attempts, edit, changed, deleted,
                 reverts, tests, converged, riskBlocked, permDenied, world>>

---------------------------------------------------------------------------
CollectDiff ==
  /\ Node("collect_diff", "enforce_permissions")
  /\ changed' = ReadChanges(host, box) /\ deleted' = DeletedFiles(host)
  /\ UNCHANGED <<opts, host, box, container, ready, gate, attempts, edit, reverts, tests,
                 converged, riskBlocked, permDenied, world>>

\* Mutants: only the files of a worker that succeeded; every file it changed.
DeniedIfCompleted == IF edit # "completed" THEN {} ELSE changed \intersect Sensitive
DeniedAll == IF edit = "none" THEN {} ELSE changed

\* The entries enforcement goes through; deleted_files is not read again after it.
Denied == IF edit = "none" THEN {} ELSE changed \intersect Sensitive

EnforcePermissions ==
  /\ Node("enforce_permissions", "run_tests")
  /\ \A e \in Denied : Unlinkable(host, e)
  /\ host' = Reverted(host, Denied) /\ reverts' = Denied
  /\ changed' = IF edit = "none" THEN changed ELSE ReadChanges(host', box)
  /\ everReverted' = everReverted \union Denied
  /\ UNCHANGED <<opts, box, container, ready, gate, attempts, edit, deleted, tests, converged,
                 riskBlocked, permDenied, orphan, cause, verdict, base, executed, validated>>

\* Path.unlink on a directory: the entries before it were reverted already.
EnforceRaises ==
  /\ pc = "enforce_permissions"
  /\ \E e \in Denied : ~Unlinkable(host, e)
  /\ \E E \in SUBSET Denied :
       (\A e \in E : Unlinkable(host, e)) /\ host' = Reverted(host, E)
  /\ Raise("enforce")
  /\ UNCHANGED <<opts, box, container, ready, gate, attempts, edit, changed, deleted, reverts,
                 tests, converged, riskBlocked, permDenied>>

\* The tree the test commands run on: the container's copy, or the host's (bind
\* mounted in validation mode).
TestedTree == IF UsesDocker /\ opts.full THEN box.wt ELSE host.wt
TestsRaise ==
  opts.tests = "malformed" \/ (opts.tests = "destructive" /\ ~opts.docker)

\* Without a container every command exits with 125, in a dead one with 1.
RunTests ==
  /\ Node("run_tests", "check_convergence") /\ ~TestsRaise
  /\ \/ UsesDocker /\ container = "none" /\ tests' = "broken" /\ validated' = {}
     \/ UsesDocker /\ container = "expired" /\ tests' = "failing" /\ validated' = {}
     \/ (UsesDocker => ContainerUp) /\ tests' \in {"passed", "failing"}
        /\ validated' = {TestedTree}
     \/ (UsesDocker => ContainerUp) /\ tests' = "broken" /\ validated' = {}
  /\ UNCHANGED <<opts, host, box, container, ready, gate, attempts, edit, changed, deleted,
                 reverts, converged, riskBlocked, permDenied, orphan, cause, verdict, base,
                 executed, everReverted>>

TestsRaised ==
  /\ pc = "run_tests" /\ TestsRaise
  /\ Raise("tests") /\ UNCHANGED state

CheckConvergence ==
  /\ Node("check_convergence",
          IF Retry THEN "run_external_worker" ELSE "build_changed_subgraph")
  /\ converged' = (edit = "none" \/ tests = "passed")
  /\ UNCHANGED <<opts, host, box, container, ready, gate, attempts, edit, changed, deleted,
                 reverts, tests, riskBlocked, permDenied, world>>

AssessRisk ==
  /\ Node("assess_risk", "classify_permissions")
  /\ riskBlocked' = (RiskScore \in 80..190)
  /\ UNCHANGED <<opts, host, box, container, ready, gate, attempts, edit, changed, deleted,
                 reverts, tests, converged, permDenied, world>>

ClassifyPermissions ==
  /\ Node("classify_permissions", "write_report")
  /\ permDenied' = ((changed \union deleted) \intersect Secret # {}
                      \/ opts.tests = "destructive")
  /\ UNCHANGED <<opts, host, box, container, ready, gate, attempts, edit, changed, deleted,
                 reverts, tests, converged, riskBlocked, world>>

\* The end of run_harness: cleanup, the terminal status, the record.
Finish ==
  /\ pc = "finish" /\ pc' = "done"
  /\ verdict' = Verdict
  /\ container' = IF container = "none" THEN "none" ELSE "removed"
  /\ UNCHANGED <<steps, opts, host, box, ready, gate, attempts, edit, changed, deleted, reverts,
                 tests, converged, riskBlocked, permDenied, orphan, cause, base, executed,
                 everReverted, validated>>

\* LangGraph's own bound on the nodes of one invocation.
RecursionError ==
  /\ pc \in Nodes \union {"finish"} /\ steps >= StepLimit
  /\ pc' = "raised" /\ cause' = "recursion"
  /\ UNCHANGED <<steps, state, orphan, verdict, base, executed, everReverted, validated>>

Terminated == pc \in {"done", "raised"} /\ UNCHANGED vars

HarnessStep ==
  \/ ReportNode \/ PrepareWorkspace \/ PreDispatchGate
  \/ SkipWorker \/ BlockWorker \/ WorkerRaises \/ DispatchWorker \/ WorkerExit
  \/ CollectDiff \/ EnforcePermissions \/ EnforceRaises
  \/ RunTests \/ TestsRaised \/ CheckConvergence
  \/ AssessRisk \/ ClassifyPermissions \/ Finish \/ RecursionError

Next == HarnessStep \/ WorkerStep \/ OrphanEdit \/ ContainerExpires \/ Terminated

Spec == Init /\ [][Next]_vars /\ WF_vars(HarnessStep)
============================================================================
