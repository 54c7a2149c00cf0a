------------------------- MODULE EnforcementProofs -------------------------
(***************************************************************************)
(* What path enforcement and validation guarantee of the operator's tree,  *)
(* for every repository, under the conditions in which they do, each named *)
(* before the theorem that needs it.                                       *)
(*                                                                         *)
(* PlainEdits: a worker of the host that edits files without staging,      *)
(* moving or committing them and leaves no process behind, in directories  *)
(* that are sensitive by name when a sensitive file may appear in them.    *)
(* Then nothing sensitive survives enforcement, a completed run is         *)
(* validated, and a run that raises leaves nothing either, unless it was   *)
(* enforcement that raised.                                                *)
(* StagedEdits: the worker may also stage; a secret then may survive, but  *)
(* not in a completed run.  OperatorsWork: any worker of the host; what    *)
(* the operator had not committed stays.  NamedDirectories: the sandbox;   *)
(* nothing of the worker's reaches a sensitive file of the host.  A retry  *)
(* follows a real failure unless the container expires.  The runs that     *)
(* drop one of the conditions show that it is needed.                      *)
(***************************************************************************)
EXTENDS HarnessRunProofs

USE DEF Requested, UsesDocker, InBox, SandboxUnsupported, AllowDirty, ContainerUp

\* A worker, if there is one, runs on the host and leaves no process behind.
HostWorker ==
  /\ Orphans = FALSE
  /\ \A o \in Options : o.docker => o.worker \in {"none", "openhands"}

\* A directory that git lists as one line is sensitive by name when a sensitive file
\* may be in it.
NamedDirectories == \A f \in Sensitive \intersect Files : DirOf[f] \in Sensitive

PlainEdits ==
  /\ HostWorker /\ WorkerGit = {}
  /\ NamedDirectories
  /\ \A t \in InitialTrees : t.index = t.head

\* Nothing is staged, nobody else edits, and enforcement looks at the tree as the
\* worker left it.
EnforcementInv ==
  /\ host.index = host.head
  /\ orphan = "none"
  /\ pc = "enforce_permissions" /\ Requested => changed = Status(host)
  /\ NothingSensitiveSurvives

\* What was tested is what is there.
ValidationInv ==
  /\ pc \in AfterLoop \union {"check_convergence"} /\ tests = "passed" /\ Requested
       => validated = {host.wt}
  /\ CompletedIsValidated

\* With nothing staged, git status lists every sensitive file whose content is not
\* HEAD's, by its own name or by that of a directory that is sensitive as well.
LEMMA StatusComplete ==
  ASSUME PlainEdits, NEW t \in Tree, t.index = t.head,
         NEW f \in Sensitive \intersect Files, t.wt[f] # t.head[f]
  PROVE  \E e \in Status(t) \intersect Sensitive : f \in Covers(e)
<1>1. CASE Tracked(t, f)
  <2>1. ~RenameSource(t, f)
    BY DEF RenameSource
  <2>2. f \in Status(t)
    BY <1>1, <2>1 DEF Status
  <2> QED BY <2>2 DEF Covers
<1>2. CASE ~Tracked(t, f)
  <2>1. t.wt[f] # Absent
    BY <1>2 DEF Tracked
  <2>2. UntrackedEntry(t, f) \in Status(t)
    BY <1>2, <2>1 DEF Status
  <2>3. UntrackedEntry(t, f) \in Sensitive /\ f \in Covers(UntrackedEntry(t, f))
    BY DEF PlainEdits, NamedDirectories, UntrackedEntry, Covers
  <2> QED BY <2>2, <2>3
<1> QED BY <1>1, <1>2

\* A worker that only edits files stages nothing.
LEMMA PlainWorker ==
  ASSUME PlainEdits, NEW t \in Tree, NEW u \in WorkerEdits(t, WorkerGit)
  PROVE  u.index = t.index /\ u.head = t.head
<1>1. u \in {Write(t, f) : f \in Files} \union {Remove(t, f) : f \in Files}
  BY DEF PlainEdits, WorkerEdits
<1> QED BY <1>1 DEF Write, Remove, Tree

LEMMA NoDocker ==
  ASSUME HostWorker, TypeOK
  PROVE  ~InBox /\ (Requested => ~UsesDocker)
BY RunAssumption DEF HostWorker, TypeOK

\* The way a run was started never changes, and a step starts from a tree that
\* the operator may have had.
LEMMA SameOptions == [Next]_vars => opts' = opts /\ base' = base
BY DEF Next, HarnessStep, ReportNode, PrepareWorkspace, PreDispatchGate, SkipWorker, BlockWorker,
       WorkerReturns, WorkerRaises, DispatchWorker, WorkerExit, CollectDiff, EnforcePermissions,
       EnforceRaises, RunTests, TestsRaised, CheckConvergence, AssessRisk, ClassifyPermissions,
       Finish, RecursionError, WorkerStep, OrphanEdit, ContainerExpires, Terminated, Raise,
       vars, state, world

LEMMA InitEnforcement ==
  ASSUME PlainEdits
  PROVE  Init => EnforcementInv /\ ValidationInv
<1> SUFFICES ASSUME Init PROVE EnforcementInv /\ ValidationInv
  OBVIOUS
<1>1. /\ host.index = host.head /\ orphan = "none" /\ pc = "scan_repo"
      /\ executed = FALSE /\ verdict = "none"
  BY DEF Init, PlainEdits
<1>2. EnforcementInv
  BY <1>1 DEF EnforcementInv, NothingSensitiveSurvives, LoopEnd, AfterLoop
<1> QED BY <1>1, <1>2 DEF ValidationInv, CompletedIsValidated, AfterLoop

LEMMA StepEnforcement ==
  ASSUME PlainEdits
  PROVE  TypeOK /\ ControlInv /\ EnforcementInv /\ [Next]_vars => EnforcementInv'
<1> SUFFICES ASSUME TypeOK, ControlInv, EnforcementInv, [Next]_vars PROVE EnforcementInv'
  OBVIOUS
<1>0. /\ ~InBox /\ (Requested => ~UsesDocker) /\ (edit # "none" => Requested) /\ LoopShape
      /\ host \in Tree /\ host.index = host.head /\ orphan = "none" /\ Orphans = FALSE
      /\ pc = "enforce_permissions" /\ Requested => changed = Status(host)
      /\ NothingSensitiveSurvives /\ opts' = opts
  BY NoDocker, SameOptions DEF ControlInv, WorkerShape, EnforcementInv, TypeOK, PlainEdits, HostWorker
<1> USE DEF state, world, Node, LoopEnd, AfterLoop
<1>1. CASE ReportNode
  <2>1. PICK n \in DOMAIN ReportNodes : Node(n, ReportNodes[n])
    BY <1>1 DEF ReportNode
  <2>2. UNCHANGED <<host, orphan, changed, edit>>
    BY <1>1 DEF ReportNode
  <2>3. pc' # "enforce_permissions" /\ (pc' \in LoopEnd \union AfterLoop => pc \in AfterLoop)
    BY <2>1, ReportSuccessor
  <2> QED BY <1>0, <2>2, <2>3 DEF EnforcementInv, NothingSensitiveSurvives
<1>2. CASE PrepareWorkspace \/ PreDispatchGate \/ SkipWorker \/ BlockWorker \/ WorkerRaises
             \/ DispatchWorker \/ TestsRaised \/ RecursionError
  <2>1. UNCHANGED <<host, orphan>>
    BY <1>2 DEF PrepareWorkspace, PreDispatchGate, SkipWorker, BlockWorker, WorkerReturns,
                WorkerRaises, DispatchWorker, TestsRaised, RecursionError, Raise
  <2>2. pc' \in {"pre_dispatch_gate", "run_external_worker", "collect_diff", "working", "raised"}
    BY <1>2 DEF PrepareWorkspace, PreDispatchGate, SkipWorker, BlockWorker, WorkerReturns,
                WorkerRaises, DispatchWorker, TestsRaised, RecursionError, Raise
  <2> QED BY <1>0, <2>1, <2>2 DEF EnforcementInv, NothingSensitiveSurvives
<1>3. CASE WorkerStep
  <2>1. /\ pc = "working" /\ pc' = pc /\ orphan' = orphan
        /\ host' \in WorkerEdits(host, WorkerGit)
    BY <1>3, <1>0 DEF WorkerStep
  <2>2. host'.index = host'.head
    BY <1>0, <2>1, PlainWorker
  <2> QED BY <1>0, <2>1, <2>2 DEF EnforcementInv, NothingSensitiveSurvives
<1>4. CASE WorkerExit
  <2>1. host' = host /\ orphan' = "none" /\ pc' = "collect_diff"
    BY <1>4, <1>0 DEF WorkerExit, Extractions
  <2> QED BY <1>0, <2>1 DEF EnforcementInv, NothingSensitiveSurvives
<1>5. CASE OrphanEdit
  BY <1>5, <1>0 DEF OrphanEdit
<1>6. CASE CollectDiff
  <2>1. /\ UNCHANGED <<host, orphan>> /\ pc' = "enforce_permissions"
        /\ Requested => changed' = Status(host)
    BY <1>6, <1>0 DEF CollectDiff, ReadChanges
  <2> QED BY <1>0, <2>1 DEF EnforcementInv, NothingSensitiveSurvives
<1>7. CASE EnforcePermissions
  <2>1. /\ UNCHANGED <<edit, orphan>> /\ pc' = "run_tests"
        /\ host' = Reverted(host, Denied) /\ (edit # "none" => changed = Status(host))
    BY <1>7, <1>0 DEF EnforcePermissions
  <2>2. host'.index = host.index /\ host'.head = host.head
    BY <1>0, <2>1 DEF Reverted, Tree
  <2>3. edit # "none" => \A f \in Sensitive \intersect Files : host'.wt[f] = host'.head[f]
    <3> SUFFICES ASSUME edit # "none", NEW f \in Sensitive \intersect Files
                 PROVE  host'.wt[f] = host.head[f]
      BY <2>2
    <3>1. Denied = Status(host) \intersect Sensitive
      BY <2>1 DEF Denied
    <3>2. host'.wt[f] = IF \E e \in Denied : f \in Covers(e) THEN host.index[f] ELSE host.wt[f]
      BY <1>0, <2>1, <3>1, RevertedListed
    <3>3. host.wt[f] # host.head[f] => \E e \in Denied : f \in Covers(e)
      BY <1>0, <3>1, StatusComplete
    <3> QED BY <1>0, <3>2, <3>3
  <2> QED BY <1>0, <2>1, <2>2, <2>3 DEF EnforcementInv, NothingSensitiveSurvives
<1>8. CASE EnforceRaises
  <2>1. PICK E \in SUBSET Denied : host' = Reverted(host, E)
    BY <1>8 DEF EnforceRaises
  <2>2. host'.index = host'.head
    BY <2>1, <1>0 DEF Reverted, Tree
  <2> QED BY <1>0, <1>8, <2>2 DEF EnforceRaises, Raise, EnforcementInv, NothingSensitiveSurvives
<1>9. CASE RunTests \/ CheckConvergence \/ AssessRisk \/ ClassifyPermissions \/ Finish
             \/ ContainerExpires
  <2>1. UNCHANGED <<host, orphan, changed, edit>>
    BY <1>9 DEF RunTests, CheckConvergence, AssessRisk, ClassifyPermissions, Finish,
                ContainerExpires
  <2>2. /\ pc' = "enforce_permissions" => pc = "enforce_permissions"
        /\ pc' \in LoopEnd \union AfterLoop => pc \in LoopEnd \union AfterLoop
    BY <1>9 DEF RunTests, CheckConvergence, AssessRisk, ClassifyPermissions, Finish,
                ContainerExpires
  <2> QED BY <1>0, <2>1, <2>2 DEF EnforcementInv, NothingSensitiveSurvives
<1>10. CASE UNCHANGED vars
  BY <1>10, <1>0, Unchanged DEF EnforcementInv, NothingSensitiveSurvives
<1> QED BY <1>1, <1>2, <1>3, <1>4, <1>5, <1>6, <1>7, <1>8, <1>9, <1>10
        DEF Next, HarnessStep, Terminated

\* After enforcement no sensitive file differs from HEAD, in any repository and in
\* any attempt, whatever the worker's exit status (enforce_permissions_node).
THEOREM EnforcementHolds ==
  ASSUME PlainEdits
  PROVE  Spec => []NothingSensitiveSurvives
<1>1. Init => EnforcementInv
  BY InitEnforcement
<1>2. TypeOK /\ ControlInv /\ EnforcementInv /\ [Next]_vars => EnforcementInv'
  BY StepEnforcement
<1>3. EnforcementInv => NothingSensitiveSurvives
  BY DEF EnforcementInv
<1> QED BY <1>1, <1>2, <1>3, TypeCorrect, ControlCorrect, PTL DEF Spec

---------------------------------------------------------------------------

\* A worker that started was dispatchable and still is, and from then on every
\* attempt leaves an edit result.
DispatchInv ==
  /\ executed => Dispatchable
  /\ executed /\ pc \in LoopBody \union AfterLoop => edit # "none"

LEMMA StepDispatch == TypeOK /\ ControlInv /\ DispatchInv /\ [Next]_vars => DispatchInv'
<1> SUFFICES ASSUME TypeOK, ControlInv, DispatchInv, [Next]_vars PROVE DispatchInv'
  OBVIOUS
<1>0. /\ WorkerShape /\ LoopShape /\ opts' = opts
      /\ executed => Dispatchable
      /\ executed /\ pc \in LoopBody \union AfterLoop => edit # "none"
      /\ attempts \in Nat /\ executed \in BOOLEAN /\ ready \in BOOLEAN /\ gate \in BOOLEAN
  BY SameOptions DEF ControlInv, DispatchInv, TypeOK
<1> USE DEF state, world, Node, LoopBody, InLoop, AfterLoop
<1>1. CASE ReportNode
  <2>1. PICK n \in DOMAIN ReportNodes : Node(n, ReportNodes[n])
    BY <1>1 DEF ReportNode
  <2>2. UNCHANGED <<ready, gate, edit, executed>>
    BY <1>1 DEF ReportNode
  <2>3. pc' \in LoopBody \union AfterLoop => pc \in AfterLoop
    BY <2>1, ReportSuccessor
  <2> QED BY <1>0, <2>2, <2>3 DEF DispatchInv, Dispatchable
<1>2. CASE PrepareWorkspace \/ PreDispatchGate
  <2>1. /\ UNCHANGED executed /\ pc \in PreLoop
    BY <1>2 DEF PrepareWorkspace, PreDispatchGate, PreLoop
  <2>2. ~executed
    BY <1>0, <2>1 DEF WorkerShape, LoopShape
  <2> QED BY <1>0, <2>1, <2>2 DEF DispatchInv
<1>3. CASE SkipWorker \/ BlockWorker
  <2>1. UNCHANGED <<ready, gate, executed>>
    BY <1>3 DEF SkipWorker, BlockWorker, WorkerReturns
  <2>2. executed => edit' # "none"
    BY <1>3, <1>0 DEF SkipWorker, BlockWorker, WorkerReturns, Dispatchable, WorkerShape
  <2> QED BY <1>0, <2>1, <2>2 DEF DispatchInv, Dispatchable
<1>4. CASE WorkerRaises \/ TestsRaised \/ RecursionError \/ EnforceRaises
  <2>1. UNCHANGED <<ready, gate, edit, executed>> /\ pc' = "raised"
    BY <1>4 DEF WorkerRaises, TestsRaised, RecursionError, EnforceRaises, Raise
  <2> QED BY <1>0, <2>1 DEF DispatchInv, Dispatchable
<1>5. CASE DispatchWorker
  <2>1. UNCHANGED <<ready, gate>> /\ pc' = "working" /\ Dispatchable
    BY <1>5 DEF DispatchWorker
  <2> QED BY <1>0, <2>1 DEF DispatchInv, Dispatchable
<1>6. CASE WorkerExit
  <2>1. UNCHANGED <<ready, gate, executed>> /\ edit' # "none"
    BY <1>6 DEF WorkerExit, Statuses
  <2> QED BY <1>0, <2>1 DEF DispatchInv, Dispatchable
<1>7. CASE CollectDiff \/ EnforcePermissions \/ RunTests \/ CheckConvergence
             \/ AssessRisk \/ ClassifyPermissions \/ Finish
  <2>1. UNCHANGED <<ready, gate, edit, executed>>
    BY <1>7 DEF CollectDiff, EnforcePermissions, RunTests, CheckConvergence, AssessRisk,
                ClassifyPermissions, Finish
  <2>2. pc \in LoopBody \union AfterLoop
    BY <1>7 DEF CollectDiff, EnforcePermissions, RunTests, CheckConvergence, AssessRisk,
                ClassifyPermissions, Finish
  <2> QED BY <1>0, <2>1, <2>2 DEF DispatchInv, Dispatchable
<1>8. CASE WorkerStep \/ OrphanEdit \/ ContainerExpires
  <2>1. UNCHANGED <<pc, ready, gate, edit, executed>>
    BY <1>8 DEF WorkerStep, OrphanEdit, ContainerExpires
  <2> QED BY <1>0, <2>1 DEF DispatchInv, Dispatchable
<1>9. CASE UNCHANGED vars
  BY <1>9, <1>0, Unchanged DEF DispatchInv, Dispatchable
<1> QED BY <1>1, <1>2, <1>3, <1>4, <1>5, <1>6, <1>7, <1>8, <1>9
        DEF Next, HarnessStep, Terminated

LEMMA DispatchCorrect == Spec => []DispatchInv
<1>1. Init => DispatchInv
  BY DEF Init, DispatchInv
<1> QED BY <1>1, StepDispatch, TypeCorrect, ControlCorrect, PTL DEF Spec

LEMMA StepValidation ==
  ASSUME PlainEdits
  PROVE  TypeOK /\ ControlInv /\ DispatchInv /\ EnforcementInv /\ ValidationInv /\ [Next]_vars
           => ValidationInv'
<1> SUFFICES ASSUME TypeOK, ControlInv, DispatchInv, EnforcementInv, ValidationInv, [Next]_vars
             PROVE  ValidationInv'
  OBVIOUS
<1>0. /\ ~InBox /\ (Requested => ~UsesDocker) /\ LoopShape /\ orphan = "none"
      /\ (executed => Requested) /\ (edit # "none" => Requested) /\ opts' = opts
      /\ pc \in AfterLoop \union {"check_convergence"} /\ tests = "passed" /\ Requested
           => validated = {host.wt}
      /\ CompletedIsValidated
  BY NoDocker, SameOptions
  DEF ControlInv, WorkerShape, EnforcementInv, ValidationInv, TypeOK, PlainEdits
<1> USE DEF state, world, Node, LoopBody, InLoop, AfterLoop
<1>1. CASE ReportNode
  <2>1. PICK n \in DOMAIN ReportNodes : Node(n, ReportNodes[n])
    BY <1>1 DEF ReportNode
  <2>2. UNCHANGED <<host, executed, tests, validated, verdict>>
    BY <1>1 DEF ReportNode
  <2>3. /\ pc' \in AfterLoop \union {"check_convergence"} => pc \in AfterLoop
    BY <2>1, ReportSuccessor
  <2> QED BY <1>0, <2>2, <2>3 DEF ValidationInv, CompletedIsValidated
<1>2. CASE PrepareWorkspace \/ PreDispatchGate \/ SkipWorker \/ BlockWorker
             \/ WorkerRaises \/ TestsRaised \/ RecursionError
  <2>1. /\ UNCHANGED <<host, executed, tests, validated, verdict>>
        /\ pc' \notin AfterLoop \union {"check_convergence"}
    BY <1>2 DEF PrepareWorkspace, PreDispatchGate, SkipWorker, BlockWorker, WorkerReturns,
                WorkerRaises, TestsRaised, RecursionError, Raise
  <2> QED BY <1>0, <2>1 DEF ValidationInv, CompletedIsValidated
<1>3. CASE DispatchWorker \/ WorkerStep \/ WorkerExit \/ CollectDiff
             \/ EnforcePermissions \/ EnforceRaises
  <2>1. /\ pc \in {"run_external_worker", "working", "collect_diff", "enforce_permissions"}
        /\ pc' \notin AfterLoop \union {"check_convergence"} /\ verdict' = verdict
    BY <1>3 DEF DispatchWorker, WorkerStep, WorkerExit, CollectDiff, EnforcePermissions,
                EnforceRaises, Raise
  <2>2. verdict = "none"
    BY <1>0, <2>1 DEF LoopShape
  <2> QED BY <1>0, <2>1, <2>2 DEF ValidationInv, CompletedIsValidated
<1>4. CASE OrphanEdit
  BY <1>4, <1>0 DEF OrphanEdit
<1>5. CASE RunTests
  <2>1. /\ UNCHANGED <<host, executed, verdict>>
        /\ pc = "run_tests" /\ pc' = "check_convergence"
    BY <1>5 DEF RunTests
  <2>2. tests' = "passed" /\ Requested => validated' = {host.wt}
    BY <1>5, <1>0 DEF RunTests, TestedTree
  <2>3. verdict = "none"
    BY <1>0, <2>1 DEF LoopShape
  <2> QED BY <1>0, <2>1, <2>2, <2>3 DEF ValidationInv, CompletedIsValidated
<1>6. CASE CheckConvergence \/ AssessRisk \/ ClassifyPermissions \/ ContainerExpires
  <2>1. UNCHANGED <<host, executed, tests, validated, verdict>>
    BY <1>6 DEF CheckConvergence, AssessRisk, ClassifyPermissions, ContainerExpires
  <2>2. pc' \in AfterLoop \union {"check_convergence"} => pc \in AfterLoop \union {"check_convergence"}
    BY <1>6 DEF CheckConvergence, AssessRisk, ClassifyPermissions, ContainerExpires
  <2> QED BY <1>0, <2>1, <2>2 DEF ValidationInv, CompletedIsValidated
<1>7. CASE Finish
  <2>1. /\ UNCHANGED <<host, edit, executed, tests, validated>>
        /\ pc = "finish" /\ pc' = "done" /\ verdict' = Verdict
    BY <1>7 DEF Finish
  <2>2. verdict' = "completed" /\ edit # "none" => tests = "passed"
    BY <2>1 DEF Verdict
  <2>3. executed => edit # "none"
    BY <2>1 DEF DispatchInv
  <2> QED BY <1>0, <2>1, <2>2, <2>3 DEF ValidationInv, CompletedIsValidated
<1>8. CASE UNCHANGED vars
  BY <1>8, <1>0, Unchanged DEF ValidationInv, CompletedIsValidated
<1> QED BY <1>1, <1>2, <1>3, <1>4, <1>5, <1>6, <1>7, <1>8
        DEF Next, HarnessStep, Terminated

\* A run that had a worker is completed only if validation passed, on exactly the
\* tree the operator is left with (run_harness, AO-D01-02).
THEOREM CompletedRunsAreValidated ==
  ASSUME PlainEdits
  PROVE  Spec => []CompletedIsValidated
<1>1. Init => EnforcementInv /\ ValidationInv
  BY InitEnforcement
<1>2. TypeOK /\ ControlInv /\ DispatchInv /\ EnforcementInv /\ ValidationInv /\ [Next]_vars
        => EnforcementInv' /\ ValidationInv'
  BY StepEnforcement, StepValidation
<1>3. ValidationInv => CompletedIsValidated
  BY DEF ValidationInv
<1> QED BY <1>1, <1>2, <1>3, TypeCorrect, ControlCorrect, DispatchCorrect, PTL DEF Spec

---------------------------------------------------------------------------
(* Retries.                                                                *)

\* A failed validation that may provoke another attempt comes from commands that
\* really ran: only a container that expired answers 1 without running them.
RetryInv ==
  /\ container # "expired"
  /\ pc = "check_convergence" /\ tests = "failing" => validated # {}

LEMMA StepRetry ==
  ASSUME Expiry = FALSE
  PROVE  TypeOK /\ RetryInv /\ [Next]_vars => RetryInv'
<1> SUFFICES ASSUME TypeOK, RetryInv, [Next]_vars PROVE RetryInv'
  OBVIOUS
<1> USE DEF RetryInv, state, world, Node
<1>1. CASE RunTests
  BY <1>1 DEF RunTests
<1>2. CASE ReportNode
  <2>1. PICK n \in DOMAIN ReportNodes : Node(n, ReportNodes[n])
    BY <1>2 DEF ReportNode
  <2> QED BY <1>2, <2>1, ReportSuccessor DEF ReportNode, AfterLoop
<1>3. CASE PrepareWorkspace \/ PreDispatchGate \/ SkipWorker \/ BlockWorker \/ DispatchWorker
             \/ WorkerExit \/ CollectDiff \/ EnforcePermissions \/ CheckConvergence
             \/ AssessRisk \/ ClassifyPermissions \/ Finish
  BY <1>3 DEF PrepareWorkspace, PreDispatchGate, SkipWorker, BlockWorker, WorkerReturns,
              DispatchWorker, WorkerExit, CollectDiff, EnforcePermissions, CheckConvergence,
              AssessRisk, ClassifyPermissions, Finish
<1>4. CASE WorkerRaises \/ EnforceRaises \/ TestsRaised \/ RecursionError
  BY <1>4 DEF WorkerRaises, EnforceRaises, TestsRaised, RecursionError, Raise
<1>5. CASE WorkerStep \/ OrphanEdit \/ ContainerExpires
  BY <1>5 DEF WorkerStep, OrphanEdit, ContainerExpires
<1>6. CASE UNCHANGED vars
  BY <1>6, Unchanged
<1> QED BY <1>1, <1>2, <1>3, <1>4, <1>5, <1>6 DEF Next, HarnessStep, Terminated

\* A worker is started again only after the validation commands really ran on the
\* tree it left, in a run that its container outlives (check_convergence_node).
THEOREM RetriesFollowFailures ==
  ASSUME Expiry = FALSE
  PROVE  Spec => RetryAfterRealFailure
<1>1. Init => RetryInv
  BY DEF Init, RetryInv
<1>2. TypeOK /\ RetryInv /\ [Next]_vars => RetryInv'
  BY StepRetry
<1>3. RetryInv /\ [Next]_vars
        => [(pc = "check_convergence" /\ pc' = "run_external_worker") => validated # {}]_vars
  <2> SUFFICES ASSUME RetryInv, Next, pc = "check_convergence", pc' = "run_external_worker"
               PROVE  validated # {}
    OBVIOUS
  <2>1. CheckConvergence
    BY DEF Next, HarnessStep, ReportNode, ReportNodes, PrepareWorkspace, PreDispatchGate,
           SkipWorker, BlockWorker, WorkerReturns, WorkerRaises, DispatchWorker, WorkerExit,
           CollectDiff, EnforcePermissions, EnforceRaises, RunTests, TestsRaised, AssessRisk,
           ClassifyPermissions, Finish, RecursionError, WorkerStep, OrphanEdit,
           ContainerExpires, Terminated, Raise, Node, vars
  <2>2. tests = "failing"
    BY <2>1 DEF CheckConvergence, Node, Retry, IsRetriable
  <2> QED BY <2>2 DEF RetryInv
<1> QED BY <1>1, <1>2, <1>3, TypeCorrect, PTL DEF Spec, RetryAfterRealFailure

---------------------------------------------------------------------------
(* The operator's uncommitted work.                                        *)

\* What the operator had not committed is not in HEAD, and no worker of the sandbox
\* delivers into a tree that is allowed to be dirty but was not declared so.
OperatorsWork ==
  /\ \A t \in InitialTrees : \A f \in Files : t.head[f] # Theirs
  /\ \A o \in Options : ~o.dirtyOk => ~(o.docker /\ o.full /\ o.worker = "command")

\* As long as no worker process was started, enforcement is all that edits the tree,
\* and what it goes through is what git says of that very tree.
UntouchedInv ==
  /\ base \in InitialTrees
  /\ ~executed => \A f \in Files \ Sensitive : host.wt[f] = base.wt[f]
  /\ ~executed /\ UsesDocker /\ opts.full /\ ContainerUp => Status(box) = {}
  /\ ~executed /\ pc = "enforce_permissions" => changed \subseteq Status(host)

LEMMA InitUntouched == Init => UntouchedInv
BY DEF Init, UntouchedInv

LEMMA StepUntouched == TypeOK /\ ControlInv /\ UntouchedInv /\ [Next]_vars => UntouchedInv'
<1> SUFFICES ASSUME TypeOK, ControlInv, UntouchedInv, [Next]_vars PROVE UntouchedInv'
  OBVIOUS
<1>0. /\ opts' = opts /\ base' = base /\ base \in InitialTrees /\ host \in Tree
      /\ executed \in BOOLEAN /\ (~executed => orphan = "none" /\ pc # "working")
      /\ ~executed => \A f \in Files \ Sensitive : host.wt[f] = base.wt[f]
      /\ ~executed /\ UsesDocker /\ opts.full /\ ContainerUp => Status(box) = {}
      /\ ~executed /\ pc = "enforce_permissions" => changed \subseteq Status(host)
  BY SameOptions DEF ControlInv, WorkerShape, UntouchedInv, TypeOK
<1> USE DEF state, world, Node
<1>1. CASE ReportNode
  <2>1. PICK n \in DOMAIN ReportNodes : Node(n, ReportNodes[n])
    BY <1>1 DEF ReportNode
  <2>2. UNCHANGED <<host, box, container, executed>> /\ pc' # "enforce_permissions"
    BY <1>1, <2>1, ReportSuccessor DEF ReportNode, AfterLoop
  <2> QED BY <1>0, <2>2 DEF UntouchedInv
<1>2. CASE PrepareWorkspace
  <2>1. UNCHANGED <<host, executed>> /\ pc' = "pre_dispatch_gate"
    BY <1>2 DEF PrepareWorkspace
  <2>2. UsesDocker /\ opts.full /\ ContainerUp' => box' = Archived(host)
    BY <1>2 DEF PrepareWorkspace
  <2>3. Status(Archived(host)) = {}
    BY HeadIsClean DEF Archived
  <2> QED BY <1>0, <2>1, <2>2, <2>3 DEF UntouchedInv
<1>3. CASE PreDispatchGate \/ SkipWorker \/ BlockWorker \/ RunTests \/ CheckConvergence
             \/ AssessRisk \/ ClassifyPermissions
  <2>1. UNCHANGED <<host, box, container, executed>> /\ pc' # "enforce_permissions"
    BY <1>3 DEF PreDispatchGate, SkipWorker, BlockWorker, WorkerReturns, RunTests,
                CheckConvergence, AssessRisk, ClassifyPermissions
  <2> QED BY <1>0, <2>1 DEF UntouchedInv
<1>4. CASE WorkerRaises \/ TestsRaised \/ RecursionError
  <2>1. UNCHANGED <<host, box, container, executed>> /\ pc' # "enforce_permissions"
    BY <1>4 DEF WorkerRaises, TestsRaised, RecursionError, Raise
  <2> QED BY <1>0, <2>1 DEF UntouchedInv
<1>5. CASE DispatchWorker
  <2>1. executed'
    BY <1>5 DEF DispatchWorker
  <2> QED BY <1>0, <2>1 DEF UntouchedInv
<1>6. CASE WorkerStep \/ WorkerExit \/ OrphanEdit
  <2>1. executed' = executed /\ (pc = "working" \/ orphan # "none")
    BY <1>6 DEF WorkerStep, WorkerExit, OrphanEdit
  <2> QED BY <1>0, <2>1 DEF UntouchedInv
<1>7. CASE CollectDiff
  <2>1. UNCHANGED <<host, box, container, executed>> /\ changed' = ReadChanges(host, box)
    BY <1>7 DEF CollectDiff
  <2>2. ~executed => changed' \subseteq Status(host)
    BY <1>0, <2>1 DEF ReadChanges, UncutStatus
  <2> QED BY <1>0, <2>1, <2>2 DEF UntouchedInv
<1>8. CASE EnforcePermissions \/ EnforceRaises
  <2>1. /\ UNCHANGED <<box, container, executed>>
        /\ pc = "enforce_permissions" /\ pc' # "enforce_permissions"
    BY <1>8 DEF EnforcePermissions, EnforceRaises, Raise
  <2>2. PICK E \in SUBSET Denied : host' = Reverted(host, E) /\ \A e \in E : Unlinkable(host, e)
    BY <1>8 DEF EnforcePermissions, EnforceRaises
  <2>3. ~executed => E \in SUBSET (Status(host) \intersect Sensitive)
    BY <1>0, <2>1 DEF Denied
  <2>4. ~executed => \A f \in Files \ Sensitive : host'.wt[f] = host.wt[f]
    BY <1>0, <2>2, <2>3, RevertedElsewhere
  <2> QED BY <1>0, <2>1, <2>4 DEF UntouchedInv
<1>9. CASE Finish \/ ContainerExpires
  <2>1. UNCHANGED <<host, box, changed, executed>> /\ (pc' # pc => pc' = "done") /\ ~ContainerUp'
    BY <1>9 DEF Finish, ContainerExpires
  <2> QED BY <1>0, <2>1 DEF UntouchedInv
<1>10. CASE UNCHANGED vars
  BY <1>10, <1>0, Unchanged DEF UntouchedInv
<1> QED BY <1>1, <1>2, <1>3, <1>4, <1>5, <1>6, <1>7, <1>8, <1>9, <1>10
        DEF Next, HarnessStep, Terminated

\* Whatever git commands a worker runs and whatever outlives it, what the operator had
\* not committed is still there, unless the run was started with allow_dirty: a worker
\* that starts finds nothing uncommitted, and one that does not leaves everything
\* (run_external_worker_node, enforce_permissions_node).
THEOREM UncommittedWorkSafe ==
  ASSUME OperatorsWork
  PROVE  Spec => []UncommittedWorkKept
<1>1. TypeOK /\ ControlInv /\ UntouchedInv => UncommittedWorkKept
  <2> SUFFICES ASSUME TypeOK, ControlInv, UntouchedInv, ~opts.dirtyOk,
                      NEW f \in Files \ Sensitive, base.wt[f] = Theirs
               PROVE  host.wt[f] = Theirs
    BY DEF UncommittedWorkKept
  <2>1. CASE ~executed
    BY <2>1 DEF UntouchedInv
  <2>2. CASE executed
    <3>1. ~InBox
      BY DEF OperatorsWork, TypeOK
    <3>2. Clean(base)
      BY <2>2, <3>1 DEF ControlInv, WorkerShape
    <3>3. base.wt[f] = base.head[f]
      BY <3>2, CleanMeansHead
    <3> QED BY <3>3 DEF OperatorsWork, UntouchedInv
  <2> QED BY <2>1, <2>2 DEF TypeOK
<1> QED BY <1>1, InitUntouched, StepUntouched, TypeCorrect, ControlCorrect, PTL DEF Spec

---------------------------------------------------------------------------
(* The sandbox.                                                            *)

\* In the sandbox nothing but extraction and enforcement touches the operator's tree,
\* and neither stages anything: what enforcement restores is what the operator had
\* staged.
SandboxInv ==
  InBox => /\ orphan # "host" /\ host.index = base.index
           /\ \A f \in Sensitive \intersect Files : host.wt[f] \in {base.wt[f], base.index[f]}

\* Extraction of entries that are not sensitive delivers no sensitive file.
LEMMA ExtractedElsewhere ==
  ASSUME NamedDirectories, NEW t \in Tree, NEW b, NEW E, E \intersect Sensitive = {},
         NEW f \in Sensitive \intersect Files
  PROVE  Extracted(t, b, E).wt[f] = t.wt[f]
<1>1. ~\E e \in E : f \in Covers(e)
  BY DEF NamedDirectories, Covers
<1>2. Extracted(t, b, E).wt[f] =
        IF b.wt[f] # Absent
             /\ \E e \in E : f \in Covers(e) /\ (e = f \/ \A g \in Covers(e) : t.wt[g] = Absent)
        THEN b.wt[f] ELSE t.wt[f]
  BY DEF Extracted, Tree
<1> QED BY <1>1, <1>2

LEMMA InitSandbox == Init => SandboxInv
BY DEF Init, SandboxInv

LEMMA StepSandbox ==
  ASSUME NamedDirectories
  PROVE  TypeOK /\ SandboxInv /\ [Next]_vars => SandboxInv'
<1> SUFFICES ASSUME TypeOK, SandboxInv, [Next]_vars, InBox PROVE SandboxInv'
  <2>1. [Next]_vars => (InBox' <=> InBox)
    BY SameOptions
  <2> QED BY <2>1 DEF SandboxInv
<1>0. /\ opts' = opts /\ base' = base /\ host \in Tree /\ box \in Tree
      /\ orphan # "host" /\ host.index = base.index
      /\ \A f \in Sensitive \intersect Files : host.wt[f] \in {base.wt[f], base.index[f]}
  BY SameOptions DEF SandboxInv, TypeOK
<1> USE DEF state, world, Node
<1>1. CASE ReportNode \/ PrepareWorkspace \/ PreDispatchGate \/ SkipWorker \/ BlockWorker
             \/ DispatchWorker \/ CollectDiff \/ RunTests \/ CheckConvergence \/ AssessRisk
             \/ ClassifyPermissions \/ Finish
  <2>1. UNCHANGED <<host, orphan>>
    BY <1>1 DEF ReportNode, PrepareWorkspace, PreDispatchGate, SkipWorker, BlockWorker,
                WorkerReturns, DispatchWorker, CollectDiff, RunTests, CheckConvergence,
                AssessRisk, ClassifyPermissions, Finish
  <2> QED BY <1>0, <2>1 DEF SandboxInv
<1>2. CASE WorkerRaises \/ TestsRaised \/ RecursionError \/ ContainerExpires \/ WorkerStep
             \/ OrphanEdit
  <2>1. UNCHANGED <<host, orphan>>
    BY <1>2, <1>0 DEF WorkerRaises, TestsRaised, RecursionError, Raise, ContainerExpires,
                      WorkerStep, OrphanEdit
  <2> QED BY <1>0, <2>1 DEF SandboxInv
<1>3. CASE WorkerExit
  <2>1. orphan' \in {orphan, "box"}
    BY <1>3 DEF WorkerExit
  <2>2. host' = host \/ \E E \in SUBSET Permitted : host' = Extracted(host, box, E)
    BY <1>3 DEF WorkerExit, Extractions
  <2>3. CASE host' = host
    BY <1>0, <2>1, <2>3 DEF SandboxInv
  <2>4. ASSUME NEW E \in SUBSET Permitted, host' = Extracted(host, box, E) PROVE SandboxInv'
    <3>1. E \intersect Sensitive = {}
      BY <2>4 DEF Permitted
    <3>2. host'.index = host.index
      BY <1>0, <2>4 DEF Extracted, Tree
    <3>3. \A f \in Sensitive \intersect Files : host'.wt[f] = host.wt[f]
      BY <1>0, <2>4, <3>1, ExtractedElsewhere
    <3> QED BY <1>0, <2>1, <3>2, <3>3 DEF SandboxInv
  <2> QED BY <2>2, <2>3, <2>4
<1>4. CASE EnforcePermissions \/ EnforceRaises
  <2>1. PICK E : host' = Reverted(host, E)
    BY <1>4 DEF EnforcePermissions, EnforceRaises
  <2>2. orphan' = orphan
    BY <1>4 DEF EnforcePermissions, EnforceRaises, Raise
  <2>3. host'.index = host.index
    BY <1>0, <2>1 DEF Reverted, Tree
  <2>4. \A f \in Files : host'.wt[f] \in {host.wt[f], host.index[f]}
    BY <1>0, <2>1, RevertedChoices
  <2> QED BY <1>0, <2>2, <2>3, <2>4 DEF SandboxInv
<1>5. CASE UNCHANGED vars
  BY <1>5, <1>0, Unchanged DEF SandboxInv
<1> QED BY <1>1, <1>2, <1>3, <1>4, <1>5 DEF Next, HarnessStep, Terminated

\* In the sandbox a sensitive file of the operator's tree holds what it held or what
\* the operator had staged, at any point of any run: whatever git commands the worker
\* runs in the container, whatever it leaves running there, whichever copies fail, and
\* whenever the container ends (extract_permitted, enforce_permissions_node).
THEOREM SandboxHolds ==
  ASSUME NamedDirectories
  PROVE  Spec => []DeniedNeverOnHost
<1>1. SandboxInv => DeniedNeverOnHost
  BY DEF SandboxInv, DeniedNeverOnHost
<1> QED BY <1>1, InitSandbox, StepSandbox, TypeCorrect, PTL DEF Spec

---------------------------------------------------------------------------
(* A run that raises.                                                      *)

\* Between attempts, and whenever no worker ran, every sensitive file is the
\* operator's or HEAD's, unless enforcement is stuck; HEAD itself stays.
SettledInv ==
  /\ host.head = base.head
  /\ \/ executed /\ pc \in {"working", "collect_diff", "enforce_permissions"}
     \/ pc = "raised" /\ EnforcementStuck
     \/ \A f \in Sensitive \intersect Files : host.wt[f] \in {base.wt[f], base.head[f]}

LEMMA StepSettled ==
  ASSUME PlainEdits
  PROVE  TypeOK /\ ControlInv /\ DispatchInv /\ EnforcementInv /\ SettledInv /\ [Next]_vars
           /\ WithinStepLimit' => SettledInv'
<1> SUFFICES ASSUME TypeOK, ControlInv, DispatchInv, EnforcementInv, SettledInv, [Next]_vars,
                    WithinStepLimit'
             PROVE  SettledInv'
  OBVIOUS
<1>0. /\ ~InBox /\ opts' = opts /\ base' = base /\ host \in Tree /\ host.head = base.head
      /\ orphan = "none" /\ Orphans = FALSE /\ executed \in BOOLEAN
      /\ (pc = "working" => executed)
      /\ \/ executed /\ pc \in {"working", "collect_diff", "enforce_permissions"}
         \/ pc = "raised" /\ EnforcementStuck
         \/ \A f \in Sensitive \intersect Files : host.wt[f] \in {base.wt[f], base.head[f]}
  BY NoDocker, SameOptions
  DEF ControlInv, WorkerShape, EnforcementInv, SettledInv, TypeOK, PlainEdits, HostWorker
<1> USE DEF state, world, Node
<1>1. CASE ReportNode
  <2>1. PICK n \in DOMAIN ReportNodes : Node(n, ReportNodes[n])
    BY <1>1 DEF ReportNode
  <2>2. UNCHANGED <<host, executed>>
    BY <1>1 DEF ReportNode
  <2>3. pc \notin {"working", "collect_diff", "enforce_permissions", "raised"}
    BY <2>1 DEF ReportNodes
  <2> QED BY <1>0, <2>2, <2>3 DEF SettledInv
<1>2. CASE PrepareWorkspace \/ PreDispatchGate \/ SkipWorker \/ BlockWorker \/ RunTests
             \/ CheckConvergence \/ AssessRisk \/ ClassifyPermissions \/ Finish
  <2>1. /\ UNCHANGED <<host, executed>>
        /\ pc \notin {"working", "collect_diff", "enforce_permissions", "raised"}
    BY <1>2 DEF PrepareWorkspace, PreDispatchGate, SkipWorker, BlockWorker, WorkerReturns,
                RunTests, CheckConvergence, AssessRisk, ClassifyPermissions, Finish
  <2> QED BY <1>0, <2>1 DEF SettledInv
<1>3. CASE WorkerRaises \/ TestsRaised
  <2>1. /\ UNCHANGED <<host, executed>>
        /\ pc \notin {"working", "collect_diff", "enforce_permissions", "raised"}
    BY <1>3 DEF WorkerRaises, TestsRaised, Raise
  <2> QED BY <1>0, <2>1 DEF SettledInv
<1>4. CASE RecursionError
  BY <1>4 DEF RecursionError, WithinStepLimit
<1>5. CASE DispatchWorker
  <2>1. host' = host /\ executed' /\ pc' = "working"
    BY <1>5 DEF DispatchWorker
  <2> QED BY <1>0, <2>1 DEF SettledInv
<1>6. CASE WorkerStep
  <2>1. pc = "working" /\ UNCHANGED <<pc, executed>> /\ host' \in WorkerEdits(host, WorkerGit)
    BY <1>6, <1>0 DEF WorkerStep
  <2> QED BY <1>0, <2>1, PlainWorker DEF SettledInv
<1>7. CASE WorkerExit
  <2>1. pc = "working" /\ pc' = "collect_diff" /\ UNCHANGED <<host, executed>>
    BY <1>7, <1>0 DEF WorkerExit, Extractions
  <2> QED BY <1>0, <2>1 DEF SettledInv
<1>8. CASE CollectDiff
  <2>1. /\ pc = "collect_diff" /\ pc' = "enforce_permissions" /\ UNCHANGED <<host, executed>>
    BY <1>8 DEF CollectDiff
  <2> QED BY <1>0, <2>1 DEF SettledInv
<1>9. CASE EnforcePermissions
  <2>1. /\ pc = "enforce_permissions" /\ pc' = "run_tests" /\ UNCHANGED <<executed, edit>>
        /\ host' = Reverted(host, Denied)
    BY <1>9 DEF EnforcePermissions
  <2>2. host'.head = host.head
    BY <1>0, <2>1 DEF Reverted, Tree
  <2>3. CASE edit # "none"
    <3>1. NothingSensitiveSurvives'
      BY StepEnforcement DEF EnforcementInv
    <3> QED BY <1>0, <2>1, <2>2, <2>3, <3>1 DEF NothingSensitiveSurvives, LoopEnd, SettledInv
  <2>4. CASE edit = "none"
    <3>1. ~executed
      BY <2>1, <2>4 DEF DispatchInv, LoopBody, InLoop
    <3>2. \A f \in Files : host'.wt[f] = host.wt[f]
      BY <1>0, <2>1, <2>4 DEF Denied, Reverted, Tree
    <3> QED BY <1>0, <2>1, <2>2, <3>1, <3>2 DEF SettledInv
  <2> QED BY <2>3, <2>4
<1>10. CASE EnforceRaises
  <2>1. /\ edit # "none" /\ Denied = changed \intersect Sensitive
        /\ pc = "enforce_permissions" /\ pc' = "raised" /\ cause' = "enforce"
        /\ changed' = changed
    BY <1>10 DEF EnforceRaises, Raise, Denied
  <2>2. changed = Status(host) /\ host.index = host.head
    BY <2>1 DEF EnforcementInv, ControlInv, WorkerShape
  <2>3. PICK d \in Denied : ~Unlinkable(host, d)
    BY <1>10 DEF EnforceRaises
  <2>4. PICK E \in SUBSET Denied : (\A e \in E : Unlinkable(host, e)) /\ host' = Reverted(host, E)
    BY <1>10 DEF EnforceRaises
  <2>5. ~Unlinkable(host', d)
    BY <1>0, <2>1, <2>2, <2>3, <2>4, DirectoryStays
  <2>6. host'.head = host.head
    BY <1>0, <2>4 DEF Reverted, Tree
  <2> QED BY <1>0, <2>1, <2>3, <2>5, <2>6 DEF SettledInv, EnforcementStuck
<1>11. CASE OrphanEdit
  BY <1>11, <1>0 DEF OrphanEdit
<1>12. CASE ContainerExpires \/ UNCHANGED vars
  <2>1. UNCHANGED <<pc, host, changed, executed, cause>>
    BY <1>12, Unchanged DEF ContainerExpires
  <2>2. EnforcementStuck => EnforcementStuck'
    BY <2>1 DEF EnforcementStuck
  <2> QED BY <1>0, <2>1, <2>2 DEF SettledInv
<1> QED BY <1>1, <1>2, <1>3, <1>4, <1>5, <1>6, <1>7, <1>8, <1>9, <1>10, <1>11, <1>12
        DEF Next, HarnessStep, Terminated

\* A run that ends in an exception leaves no record, but every sensitive file as the
\* operator or HEAD had it: a node raises only before a worker starts or after
\* enforcement, as long as the recursion limit leaves room for every attempt, or else
\* it is enforcement that raises, over a new sensitive directory that has content.
THEOREM RaisedRunsLeaveNothing ==
  ASSUME PlainEdits, StepBudget
  PROVE  Spec => []RaisedLeavesNoDenied
<1>1. Init => EnforcementInv /\ SettledInv
  BY InitEnforcement DEF Init, SettledInv
<1>2. TypeOK /\ ControlInv /\ DispatchInv /\ EnforcementInv /\ SettledInv /\ [Next]_vars
        /\ WithinStepLimit' => EnforcementInv' /\ SettledInv'
  BY StepEnforcement, StepSettled
<1>3. SettledInv => RaisedLeavesNoDenied
  BY DEF SettledInv, RaisedLeavesNoDenied, RaisedLeavesNothing
<1> QED BY <1>1, <1>2, <1>3, TypeCorrect, ControlCorrect, DispatchCorrect, BudgetSuffices, PTL
        DEF Spec

---------------------------------------------------------------------------
(* Secrets that enforcement could not restore.                             *)

\* The contents a file may have as long as nothing is moved to its path.
Own(f) == {f, Absent, Edited, Theirs}

\* A worker of the host that edits and stages, on a tree with nothing staged and no
\* secret edited; a secret that a directory's line stands for is listed as one.
StagedEdits ==
  /\ HostWorker /\ WorkerGit \subseteq {"add"}
  /\ \A f \in Secret \intersect Files : DirOf[f] \in Secret
  /\ \A t \in InitialTrees : \A f \in Files :
       /\ t.head[f] \in {f, Absent} /\ t.index[f] = t.head[f] /\ t.wt[f] \in Own(f)
       /\ f \in Secret => t.wt[f] = t.head[f]

\* HEAD stays, nothing is renamed, and after enforcement the changed files of the
\* record are what git says of the tree that is left.
StagedInv ==
  /\ base \in InitialTrees /\ orphan = "none" /\ host.head = base.head
  /\ \A f \in Files : host.index[f] \in Own(f) /\ host.wt[f] \in Own(f)
  /\ ~executed => \A f \in Secret \intersect Files :
                    host.index[f] = base.head[f] /\ host.wt[f] = base.head[f]
  /\ executed /\ pc \in LoopEnd \union AfterLoop => changed = Status(host)

\* Every secret that is not as in HEAD is under some line of git status by a name that
\* is secret: only a rename could hide it, and nothing was moved.
LEMMA SecretListed ==
  ASSUME StagedEdits, NEW t \in Tree, NEW f \in Secret \intersect Files,
         \A g \in Files : t.head[g] \in {g, Absent} /\ t.index[g] \in Own(g),
         t.wt[f] # t.head[f]
  PROVE  Status(t) \intersect Secret # {}
<1>1. CASE Tracked(t, f)
  <2>1. ~RenameSource(t, f)
    BY <1>1 DEF Tracked, RenameSource
  <2>2. f \in Status(t)
    BY <1>1, <2>1 DEF Status
  <2> QED BY <2>2
<1>2. CASE ~Tracked(t, f) /\ t.wt[f] # Absent
  <2>1. UntrackedEntry(t, f) \in Status(t)
    BY <1>2 DEF Status
  <2>2. UntrackedEntry(t, f) \in Secret
    BY DEF UntrackedEntry, StagedEdits
  <2> QED BY <2>1, <2>2
<1>3. CASE ~Tracked(t, f) /\ t.wt[f] = Absent
  <2>1. t.head[f] = f /\ t.index[f] = Absent /\ f # Absent
    BY <1>3 DEF Tracked
  <2>2. \A g \in Files : t.head[g] = Absent => t.index[g] # f
    <3> SUFFICES ASSUME NEW g \in Files, t.head[g] = Absent, t.index[g] = f PROVE FALSE
      OBVIOUS
    <3>1. g # f
      BY <2>1
    <3>2. f \in {Absent, Edited, Theirs}
      BY <3>1 DEF Own
    <3> QED BY <3>2, TreeAssumption
  <2>3. ~RenameSource(t, f)
    BY <2>1, <2>2 DEF RenameSource
  <2>4. f \in Status(t)
    BY <2>1, <2>3 DEF Status
  <2> QED BY <2>4
<1> QED BY <1>1, <1>2, <1>3

\* A worker that edits and stages keeps HEAD, and every file its own contents.
LEMMA StagingWorker ==
  ASSUME StagedEdits, NEW t \in Tree, NEW u \in WorkerEdits(t, WorkerGit),
         \A f \in Files : t.index[f] \in Own(f) /\ t.wt[f] \in Own(f)
  PROVE  u.head = t.head /\ \A f \in Files : u.index[f] \in Own(f) /\ u.wt[f] \in Own(f)
<1>1. PICK g \in Files : u = Write(t, g) \/ u = Remove(t, g) \/ u = Add(t, g)
  BY DEF StagedEdits, WorkerEdits
<1>2. CASE u = Write(t, g)
  BY <1>2 DEF Write, Tree, Own
<1>3. CASE u = Remove(t, g)
  BY <1>3 DEF Remove, Tree, Own
<1>4. CASE u = Add(t, g)
  BY <1>4 DEF Add, Tree, Own
<1> QED BY <1>1, <1>2, <1>3, <1>4

LEMMA RevertedOwn ==
  ASSUME NEW t \in Tree, NEW E,
         \A f \in Files : t.index[f] \in Own(f) /\ t.wt[f] \in Own(f)
  PROVE  /\ Reverted(t, E).head = t.head /\ Reverted(t, E).index = t.index
         /\ \A f \in Files : Reverted(t, E).wt[f] \in Own(f)
BY DEF Reverted, Tree, Own

LEMMA InitStaged ==
  ASSUME StagedEdits
  PROVE  Init => StagedInv
<1> SUFFICES ASSUME Init PROVE StagedInv
  OBVIOUS
<1>1. \A f \in Files : host.index[f] \in Own(f) /\ host.wt[f] \in Own(f)
  BY DEF Init, StagedEdits, Own
<1>2. \A f \in Secret \intersect Files : host.index[f] = base.head[f] /\ host.wt[f] = base.head[f]
  BY DEF Init, StagedEdits
<1> QED BY <1>1, <1>2 DEF Init, StagedInv

LEMMA StepStaged ==
  ASSUME StagedEdits
  PROVE  TypeOK /\ ControlInv /\ DispatchInv /\ StagedInv /\ [Next]_vars => StagedInv'
<1> SUFFICES ASSUME TypeOK, ControlInv, DispatchInv, StagedInv, [Next]_vars PROVE StagedInv'
  OBVIOUS
<1>0. /\ ~InBox /\ (executed => ~UsesDocker) /\ opts' = opts /\ base' = base
      /\ base \in InitialTrees /\ host \in Tree /\ host.head = base.head
      /\ orphan = "none" /\ Orphans = FALSE /\ executed \in BOOLEAN
      /\ (pc = "working" => executed)
      /\ \A f \in Files : host.index[f] \in Own(f) /\ host.wt[f] \in Own(f)
      /\ ~executed => \A f \in Secret \intersect Files :
                        host.index[f] = base.head[f] /\ host.wt[f] = base.head[f]
      /\ executed /\ pc \in LoopEnd \union AfterLoop => changed = Status(host)
  BY NoDocker, SameOptions
  DEF ControlInv, WorkerShape, StagedInv, TypeOK, StagedEdits, HostWorker
<1> USE DEF state, world, Node, LoopEnd, AfterLoop
<1>1. CASE ReportNode
  <2>1. PICK n \in DOMAIN ReportNodes : Node(n, ReportNodes[n])
    BY <1>1 DEF ReportNode
  <2>2. UNCHANGED <<host, executed, changed, orphan>>
    BY <1>1 DEF ReportNode
  <2>3. pc' \in LoopEnd \union AfterLoop => pc \in AfterLoop
    BY <2>1, ReportSuccessor
  <2> QED BY <1>0, <2>2, <2>3 DEF StagedInv
<1>2. CASE PrepareWorkspace \/ PreDispatchGate \/ SkipWorker \/ BlockWorker \/ WorkerRaises
             \/ TestsRaised \/ RecursionError
  <2>1. UNCHANGED <<host, executed, orphan>> /\ pc' \notin LoopEnd \union AfterLoop
    BY <1>2 DEF PrepareWorkspace, PreDispatchGate, SkipWorker, BlockWorker, WorkerReturns,
                WorkerRaises, TestsRaised, RecursionError, Raise
  <2> QED BY <1>0, <2>1 DEF StagedInv
<1>3. CASE DispatchWorker
  <2>1. UNCHANGED <<host, orphan>> /\ executed' /\ pc' = "working"
    BY <1>3 DEF DispatchWorker
  <2> QED BY <1>0, <2>1 DEF StagedInv
<1>4. CASE WorkerStep
  <2>1. /\ pc = "working" /\ UNCHANGED <<pc, executed, orphan>>
        /\ host' \in WorkerEdits(host, WorkerGit)
    BY <1>4, <1>0 DEF WorkerStep
  <2>2. /\ host'.head = host.head
        /\ \A f \in Files : host'.index[f] \in Own(f) /\ host'.wt[f] \in Own(f)
    BY <1>0, <2>1, StagingWorker
  <2> QED BY <1>0, <2>1, <2>2 DEF StagedInv
<1>5. CASE WorkerExit
  <2>1. pc' = "collect_diff" /\ UNCHANGED <<host, executed, orphan>>
    BY <1>5, <1>0 DEF WorkerExit, Extractions
  <2> QED BY <1>0, <2>1 DEF StagedInv
<1>6. CASE CollectDiff
  <2>1. pc' = "enforce_permissions" /\ UNCHANGED <<host, executed, orphan>>
    BY <1>6 DEF CollectDiff
  <2> QED BY <1>0, <2>1 DEF StagedInv
<1>7. CASE EnforcePermissions \/ EnforceRaises
  <2>1. PICK E : host' = Reverted(host, E)
    BY <1>7 DEF EnforcePermissions, EnforceRaises
  <2>2. UNCHANGED <<executed, orphan>> /\ pc = "enforce_permissions"
    BY <1>7 DEF EnforcePermissions, EnforceRaises, Raise
  <2>3. /\ host'.head = host.head /\ host'.index = host.index
        /\ \A f \in Files : host'.wt[f] \in Own(f)
    BY <1>0, <2>1, RevertedOwn
  <2>4. ~executed => \A f \in Secret \intersect Files : host'.wt[f] = host.wt[f]
    BY <1>0, <2>1, RevertedChoices
  <2>5. executed /\ pc' \in LoopEnd \union AfterLoop => changed' = Status(host')
    <3> SUFFICES ASSUME executed, pc' \in LoopEnd \union AfterLoop PROVE changed' = Status(host')
      OBVIOUS
    <3>1. EnforcePermissions
      BY <1>7 DEF EnforceRaises, Raise
    <3>2. edit # "none"
      BY <2>2 DEF DispatchInv, LoopBody, InLoop
    <3> QED BY <3>1, <3>2, <1>0 DEF EnforcePermissions, ReadChanges
  <2> QED BY <1>0, <2>2, <2>3, <2>4, <2>5 DEF StagedInv
<1>8. CASE OrphanEdit
  BY <1>8, <1>0 DEF OrphanEdit
<1>9. CASE RunTests \/ CheckConvergence \/ AssessRisk \/ ClassifyPermissions \/ Finish
             \/ ContainerExpires
  <2>1. UNCHANGED <<host, executed, changed, orphan>>
    BY <1>9 DEF RunTests, CheckConvergence, AssessRisk, ClassifyPermissions, Finish,
                ContainerExpires
  <2>2. pc' \in LoopEnd \union AfterLoop => pc \in LoopEnd \union AfterLoop
    BY <1>9 DEF RunTests, CheckConvergence, AssessRisk, ClassifyPermissions, Finish,
                ContainerExpires
  <2> QED BY <1>0, <2>1, <2>2 DEF StagedInv
<1>10. CASE UNCHANGED vars
  BY <1>10, <1>0, Unchanged DEF StagedInv
<1> QED BY <1>1, <1>2, <1>3, <1>4, <1>5, <1>6, <1>7, <1>8, <1>9, <1>10
        DEF Next, HarnessStep, Terminated

\* The nodes after the permission gate.
Classified == {"write_report", "check_report_quality", "check_evidence",
               "build_product_review", "assemble_verification", "audit_conflicts",
               "finish", "done"}

\* The gate's word on the changed files is the one the record is made of.
GateInv ==
  /\ pc \in Classified /\ changed \intersect Secret # {} => permDenied
  /\ verdict = "completed" => ~permDenied

LEMMA StepGate == TypeOK /\ LoopShape /\ GateInv /\ [Next]_vars => GateInv'
<1> SUFFICES ASSUME TypeOK, LoopShape, GateInv, [Next]_vars PROVE GateInv'
  OBVIOUS
<1>0. /\ pc \in Classified /\ changed \intersect Secret # {} => permDenied
      /\ verdict = "completed" => ~permDenied
      /\ verdict # "none" => pc = "done"
  BY DEF GateInv, LoopShape
<1> USE DEF state, world, Node, Classified
<1>1. CASE ReportNode
  <2>1. PICK n \in DOMAIN ReportNodes : Node(n, ReportNodes[n])
    BY <1>1 DEF ReportNode
  <2>2. pc' \in Classified => pc \in Classified
    BY <2>1 DEF ReportNodes
  <2> QED BY <1>0, <1>1, <2>2 DEF ReportNode, GateInv
<1>2. CASE PrepareWorkspace \/ PreDispatchGate \/ SkipWorker \/ BlockWorker \/ DispatchWorker
             \/ WorkerExit \/ CollectDiff \/ EnforcePermissions \/ RunTests \/ CheckConvergence
             \/ AssessRisk
  <2>1. UNCHANGED <<permDenied, verdict>> /\ pc' \notin Classified
    BY <1>2 DEF PrepareWorkspace, PreDispatchGate, SkipWorker, BlockWorker, WorkerReturns,
                DispatchWorker, WorkerExit, CollectDiff, EnforcePermissions, RunTests,
                CheckConvergence, AssessRisk
  <2> QED BY <1>0, <2>1 DEF GateInv
<1>3. CASE WorkerRaises \/ EnforceRaises \/ TestsRaised \/ RecursionError
  <2>1. UNCHANGED <<permDenied, verdict>> /\ pc' \notin Classified
    BY <1>3 DEF WorkerRaises, EnforceRaises, TestsRaised, RecursionError, Raise
  <2> QED BY <1>0, <2>1 DEF GateInv
<1>4. CASE ClassifyPermissions
  <2>1. pc = "classify_permissions" /\ UNCHANGED <<changed, verdict>>
    BY <1>4 DEF ClassifyPermissions
  <2>2. changed \intersect Secret # {} => permDenied'
    BY <1>4 DEF ClassifyPermissions
  <2> QED BY <1>0, <2>1, <2>2 DEF GateInv
<1>5. CASE Finish
  <2>1. UNCHANGED <<changed, permDenied>> /\ pc = "finish" /\ verdict' = Verdict
    BY <1>5 DEF Finish
  <2>2. Verdict = "completed" => ~permDenied
    BY DEF Verdict
  <2> QED BY <1>0, <2>1, <2>2 DEF GateInv
<1>6. CASE WorkerStep \/ OrphanEdit \/ ContainerExpires
  <2>1. UNCHANGED <<pc, changed, permDenied, verdict>>
    BY <1>6 DEF WorkerStep, OrphanEdit, ContainerExpires
  <2> QED BY <1>0, <2>1 DEF GateInv
<1>7. CASE UNCHANGED vars
  BY <1>7, <1>0, Unchanged DEF GateInv
<1> QED BY <1>1, <1>2, <1>3, <1>4, <1>5, <1>6, <1>7 DEF Next, HarnessStep, Terminated

\* A run is not completed over a secret that has other bytes than the operator's: what
\* a worker staged, and enforcement therefore could not restore, the permission gate
\* still sees (classify_permissions_node, run_harness).
THEOREM SecretsBlock ==
  ASSUME StagedEdits
  PROVE  Spec => []SecretChangeBlocks
<1>1. Init => StagedInv /\ GateInv
  BY InitStaged DEF Init, GateInv, Classified
<1>2. TypeOK /\ ControlInv /\ DispatchInv /\ StagedInv /\ GateInv /\ [Next]_vars
        => StagedInv' /\ GateInv'
  BY StepStaged, StepGate DEF ControlInv
<1>3. TypeOK /\ StagedInv /\ GateInv => SecretChangeBlocks
  <2> SUFFICES ASSUME TypeOK, StagedInv, GateInv, pc = "done", verdict = "completed",
                      NEW f \in Secret \intersect Files, host.wt[f] # base.wt[f]
               PROVE  FALSE
    BY DEF SecretChangeBlocks
  <2>1. base.wt[f] = base.head[f] /\ host.head = base.head
        /\ \A g \in Files : host.head[g] \in {g, Absent} /\ host.index[g] \in Own(g)
    BY DEF StagedInv, StagedEdits
  <2>2. executed /\ changed = Status(host)
    BY <2>1 DEF StagedInv, TypeOK, AfterLoop
  <2>3. Status(host) \intersect Secret # {}
    BY <2>1, SecretListed DEF TypeOK
  <2> QED BY <2>2, <2>3 DEF GateInv, Classified
<1> QED BY <1>1, <1>2, <1>3, TypeCorrect, ControlCorrect, DispatchCorrect, PTL DEF Spec
============================================================================
