-------------------------- MODULE HarnessRunProofs --------------------------
(***************************************************************************)
(* Proofs about one governed run, for every repository, every way the run  *)
(* may be started and every bound.                                         *)
(***************************************************************************)
EXTENDS RunProperties, GitTreeProofs

USE DEF Requested, UsesDocker, InBox, SandboxUnsupported, AllowDirty, ContainerUp

\* What a step leaves alone.
LEMMA Unchanged ==
  ASSUME UNCHANGED vars
  PROVE  /\ UNCHANGED <<opts, pc, steps, host, box, container, ready, gate, attempts, edit>>
         /\ UNCHANGED <<changed, deleted, reverts, tests, converged, riskBlocked, permDenied>>
         /\ UNCHANGED <<orphan, cause, verdict, base, executed, everReverted, validated>>
BY DEF vars, state, world

\* The nodes that only compute reports lead to nodes, and never into the loop.
LEMMA ReportSuccessor ==
  ASSUME NEW n \in DOMAIN ReportNodes
  PROVE  /\ n \in Nodes
         /\ ReportNodes[n] \in {"recall_experience", "create_plan", "prepare_workspace"}
                                 \union (AfterLoop \ {"done"})
         /\ ReportNodes[n] \in Nodes \union {"finish"}
         /\ n \in AfterLoop <=> ReportNodes[n] \in AfterLoop
BY DEF ReportNodes, Nodes, AfterLoop

---------------------------------------------------------------------------
(* Type correctness.                                                       *)

LEMMA InitType == Init => TypeOK
<1> SUFFICES ASSUME Init PROVE TypeOK
  OBVIOUS
<1> QED BY RunAssumption DEF Init, TypeOK, Nodes

LEMMA ReadChangesType ==
  ASSUME NEW h, NEW b
  PROVE  ReadChanges(h, b) \subseteq Entries
BY StatusType DEF ReadChanges

LEMMA StepType == TypeOK /\ [Next]_vars => TypeOK'
<1> SUFFICES ASSUME TypeOK, [Next]_vars PROVE TypeOK'
  OBVIOUS
<1> USE DEF state, world, Node
<1>1. CASE ReportNode
  <2>1. PICK n \in DOMAIN ReportNodes : Node(n, ReportNodes[n])
    BY <1>1 DEF ReportNode
  <2>2. pc' \in Nodes \union {"finish"}
    BY <2>1, ReportSuccessor
  <2> QED BY <1>1, <2>1, <2>2 DEF ReportNode, TypeOK
<1>2. CASE PrepareWorkspace
  <2>1. PICK ok \in (IF UsesDocker THEN BOOLEAN ELSE {TRUE}) :
          /\ ready' = ok
          /\ container' = IF UsesDocker /\ ok THEN "up" ELSE "none"
          /\ box' = IF UsesDocker /\ ok /\ opts.full THEN Archived(host) ELSE box
    BY <1>2 DEF PrepareWorkspace
  <2>2. ready' \in BOOLEAN /\ container' \in {"up", "none"} /\ box' \in Tree
    BY <2>1, ArchivedType DEF TypeOK
  <2> QED BY <1>2, <2>2 DEF PrepareWorkspace, TypeOK, Nodes
<1>3. CASE PreDispatchGate
  <2>1. gate' \in BOOLEAN
    BY <1>3 DEF PreDispatchGate
  <2> QED BY <1>3, <2>1 DEF PreDispatchGate, TypeOK, Nodes
<1>4. CASE SkipWorker \/ BlockWorker
  BY <1>4 DEF SkipWorker, BlockWorker, WorkerReturns, TypeOK, Nodes
<1>5. CASE WorkerRaises
  BY <1>5 DEF WorkerRaises, Raise, TypeOK
<1>6. CASE DispatchWorker
  BY <1>6 DEF DispatchWorker, TypeOK
<1>7. CASE WorkerStep \/ OrphanEdit
  <2>1. WorkerEdits(host, WorkerGit) \subseteq Tree /\ WorkerEdits(box, WorkerGit) \subseteq Tree
    BY WorkerEditsType DEF TypeOK
  <2>2. host' \in Tree /\ box' \in Tree
    BY <1>7, <2>1 DEF WorkerStep, OrphanEdit, TypeOK
  <2> QED BY <1>7, <2>2 DEF WorkerStep, OrphanEdit, TypeOK
<1>8. CASE WorkerExit
  <2>1. host' \in Tree
    BY <1>8, ExtractedType DEF WorkerExit, Extractions, TypeOK
  <2>2. edit' \in {"completed", "failed", "blocked", "timeout", "auth_missing"}
    BY <1>8 DEF WorkerExit, Statuses
  <2>3. orphan' \in {orphan, "box", "host"}
    BY <1>8 DEF WorkerExit
  <2> QED BY <1>8, <2>1, <2>2, <2>3 DEF WorkerExit, TypeOK, Nodes
<1>9. CASE ContainerExpires
  BY <1>9 DEF ContainerExpires, TypeOK
<1>10. CASE CollectDiff
  BY <1>10, ReadChangesType, StatusType DEF CollectDiff, TypeOK, Nodes
<1>11. CASE EnforcePermissions
  <2>1. Denied \subseteq Entries
    BY DEF Denied, TypeOK
  <2>2. host' \in Tree
    BY <1>11, RevertedType DEF EnforcePermissions, TypeOK
  <2>3. changed' \subseteq Entries
    BY <1>11, ReadChangesType DEF EnforcePermissions, TypeOK
  <2> QED BY <1>11, <2>1, <2>2, <2>3 DEF EnforcePermissions, TypeOK, Nodes
<1>12. CASE EnforceRaises
  <2>1. host' \in Tree
    BY <1>12, RevertedType DEF EnforceRaises, TypeOK
  <2> QED BY <1>12, <2>1 DEF EnforceRaises, Raise, TypeOK
<1>13. CASE RunTests
  <2>1. TestedTree \in [Files -> Content]
    BY DEF TestedTree, TypeOK, Tree
  <2>2. validated' \subseteq [Files -> Content] /\ tests' \in {"passed", "failing", "broken"}
    BY <1>13, <2>1 DEF RunTests
  <2> QED BY <1>13, <2>2 DEF RunTests, TypeOK, Nodes
<1>14. CASE TestsRaised
  BY <1>14 DEF TestsRaised, Raise, TypeOK
<1>15. CASE CheckConvergence
  <2>1. converged' \in BOOLEAN
    BY <1>15 DEF CheckConvergence
  <2> QED BY <1>15, <2>1 DEF CheckConvergence, TypeOK, Nodes
<1>16. CASE AssessRisk
  <2>1. riskBlocked' \in BOOLEAN
    BY <1>16 DEF AssessRisk
  <2> QED BY <1>16, <2>1 DEF AssessRisk, TypeOK, Nodes
<1>17. CASE ClassifyPermissions
  <2>1. permDenied' \in BOOLEAN
    BY <1>17 DEF ClassifyPermissions
  <2> QED BY <1>17, <2>1 DEF ClassifyPermissions, TypeOK, Nodes
<1>18. CASE Finish
  <2>1. Verdict \in {"completed", "failed", "blocked"}
    BY DEF Verdict
  <2> QED BY <1>18, <2>1 DEF Finish, TypeOK
<1>19. CASE RecursionError
  BY <1>19 DEF RecursionError, TypeOK
<1>20. CASE UNCHANGED vars
  BY <1>20, Unchanged DEF TypeOK
<1> QED BY <1>1, <1>2, <1>3, <1>4, <1>5, <1>6, <1>7, <1>8, <1>9, <1>10, <1>11, <1>12, <1>13,
           <1>14, <1>15, <1>16, <1>17, <1>18, <1>19, <1>20
        DEF Next, HarnessStep, Terminated

\* Every reachable state of a run has its type, for every repository and every
\* bound.
THEOREM TypeCorrect == Spec => []TypeOK
<1> QED BY InitType, StepType, PTL DEF Spec
---------------------------------------------------------------------------
(* The control of the workflow.                                            *)

LEMMA InitControl == Init => ControlInv
<1> SUFFICES ASSUME Init PROVE ControlInv
  OBVIOUS
<1> USE DEF Init
<1>1. LoopShape
  BY DEF LoopShape, PreLoop, InLoop, AfterLoop
<1>2. WorkerShape
  BY DEF WorkerShape, LoopBody, InLoop, AfterLoop
<1>3. StepsShape
  BY DEF StepsShape, Place
<1> QED BY <1>1, <1>2, <1>3 DEF ControlInv

\* The shape of the loop depends on nothing that a running worker, the container
\* or a report changes.
LEMMA StepLoop == TypeOK /\ ControlInv /\ [Next]_vars => LoopShape'
<1> SUFFICES ASSUME TypeOK, ControlInv, [Next]_vars PROVE LoopShape'
  OBVIOUS
<1>0. LoopShape /\ attempts \in Nat /\ opts.max \in Nat /\ (~Requested => edit = "none")
  BY RunAssumption DEF ControlInv, WorkerShape, TypeOK, LegalOptions
<1> USE DEF state, world, Node, LoopShape, PreLoop, InLoop, AfterLoop, Retry, IsRetriable
<1>1. CASE ReportNode
  <2>1. PICK n \in DOMAIN ReportNodes : Node(n, ReportNodes[n])
    BY <1>1 DEF ReportNode
  <2>2. UNCHANGED <<attempts, edit, tests, opts, verdict>>
    BY <1>1 DEF ReportNode
  <2>3. pc \in AfterLoop <=> pc' \in AfterLoop
    BY <2>1, ReportSuccessor
  <2>4. pc' \in {"recall_experience", "create_plan", "prepare_workspace"}
                  \union (AfterLoop \ {"done"})
    BY <2>1, ReportSuccessor
  <2>5. pc \notin AfterLoop => pc \in PreLoop
    BY <2>1 DEF ReportNodes
  <2>6. pc # "done"
    BY <2>1, ReportSuccessor DEF Nodes
  <2> QED BY <1>0, <2>2, <2>3, <2>4, <2>5, <2>6
<1>2. CASE PrepareWorkspace \/ PreDispatchGate
  <2>1. UNCHANGED <<attempts, edit, tests, opts, verdict>>
    BY <1>2 DEF PrepareWorkspace, PreDispatchGate
  <2>2. /\ pc \in {"prepare_workspace", "pre_dispatch_gate"}
        /\ pc' \in {"pre_dispatch_gate", "run_external_worker"}
    BY <1>2 DEF PrepareWorkspace, PreDispatchGate
  <2> QED BY <1>0, <2>1, <2>2
<1>3. CASE SkipWorker \/ BlockWorker
  BY <1>3, <1>0 DEF SkipWorker, BlockWorker, WorkerReturns
<1>4. CASE WorkerRaises \/ EnforceRaises \/ TestsRaised \/ RecursionError
  BY <1>4, <1>0 DEF WorkerRaises, EnforceRaises, TestsRaised, RecursionError, Raise, Nodes
<1>5. CASE DispatchWorker
  BY <1>5, <1>0 DEF DispatchWorker
<1>6. CASE WorkerExit
  BY <1>6, <1>0 DEF WorkerExit
<1>7. CASE CollectDiff \/ EnforcePermissions \/ RunTests
  BY <1>7, <1>0 DEF CollectDiff, EnforcePermissions, RunTests
<1>8. CASE CheckConvergence
  BY <1>8, <1>0 DEF CheckConvergence
<1>9. CASE AssessRisk \/ ClassifyPermissions
  BY <1>9, <1>0 DEF AssessRisk, ClassifyPermissions
<1>10. CASE Finish
  <2>1. Verdict # "none"
    BY DEF Verdict
  <2> QED BY <1>10, <1>0, <2>1 DEF Finish
<1>11. CASE WorkerStep \/ OrphanEdit \/ ContainerExpires
  BY <1>11, <1>0 DEF WorkerStep, OrphanEdit, ContainerExpires
<1>12. CASE UNCHANGED vars
  BY <1>12, <1>0, Unchanged
<1> QED BY <1>1, <1>2, <1>3, <1>4, <1>5, <1>6, <1>7, <1>8, <1>9, <1>10, <1>11, <1>12
        DEF Next, HarnessStep, Terminated

\* What is known of the worker.
LEMMA StepWorker == TypeOK /\ ControlInv /\ [Next]_vars => WorkerShape'
<1> SUFFICES ASSUME TypeOK, ControlInv, [Next]_vars PROVE WorkerShape'
  OBVIOUS
<1>0. /\ WorkerShape /\ LoopShape /\ attempts \in Nat
      /\ ready \in BOOLEAN /\ gate \in BOOLEAN /\ executed \in BOOLEAN
      /\ opts.docker \in BOOLEAN /\ opts.full \in BOOLEAN /\ opts.dirtyOk \in BOOLEAN
      /\ opts.worker \in WorkerKinds
  BY RunAssumption DEF ControlInv, TypeOK, LegalOptions
<1> USE DEF state, world, Node, WorkerShape, LoopBody, InLoop, AfterLoop
<1>1. CASE ReportNode
  <2>1. PICK n \in DOMAIN ReportNodes : Node(n, ReportNodes[n])
    BY <1>1 DEF ReportNode
  <2>2. UNCHANGED <<opts, host, attempts, edit, ready, gate, orphan, base, executed>>
    BY <1>1 DEF ReportNode
  <2>3. (pc \in AfterLoop <=> pc' \in AfterLoop) /\ pc' \notin InLoop
    BY <2>1, ReportSuccessor
  <2> QED BY <1>0, <2>2, <2>3
<1>2. CASE PrepareWorkspace \/ PreDispatchGate
  <2>1. UNCHANGED <<opts, host, attempts, edit, orphan, base, executed>>
    BY <1>2 DEF PrepareWorkspace, PreDispatchGate
  <2>2. pc' \in {"pre_dispatch_gate", "run_external_worker"}
    BY <1>2 DEF PrepareWorkspace, PreDispatchGate
  <2> QED BY <1>0, <2>1, <2>2
<1>3. CASE SkipWorker
  <2>1. /\ UNCHANGED <<opts, host, ready, gate, orphan, base, executed>>
        /\ pc' = "collect_diff" /\ edit' = "none" /\ attempts' = attempts + 1
        /\ ~ready \/ gate \/ ~Requested
    BY <1>3 DEF SkipWorker, WorkerReturns
  <2> QED BY <1>0, <2>1
<1>4. CASE BlockWorker
  <2>1. /\ UNCHANGED <<opts, host, ready, gate, orphan, base, executed>>
        /\ pc' = "collect_diff" /\ edit' = "blocked" /\ attempts' = attempts + 1
    BY <1>4 DEF BlockWorker, WorkerReturns
  <2>2. Requested
    BY <1>4 DEF BlockWorker, RefusesDirty
  <2> QED BY <1>0, <2>1, <2>2
<1>5. CASE WorkerRaises \/ TestsRaised \/ RecursionError
  <2>1. /\ UNCHANGED <<opts, host, attempts, edit, ready, gate, orphan, base, executed>>
        /\ pc' = "raised"
    BY <1>5 DEF WorkerRaises, TestsRaised, RecursionError, Raise
  <2> QED BY <1>0, <2>1
<1>6. CASE DispatchWorker
  <2>1. /\ UNCHANGED <<opts, host, edit, ready, gate, orphan, base>>
        /\ pc = "run_external_worker" /\ pc' = "working"
        /\ executed' = TRUE /\ attempts' = attempts + 1
    BY <1>6 DEF DispatchWorker
  <2>2. Requested
    BY <1>6 DEF DispatchWorker
  <2>3. attempts = 0 => host = base
    BY <1>0
  <2>4. attempts # 0 => executed
    BY <1>0, <2>1 DEF LoopShape, Retry, IsRetriable
  <2>5. ~InBox => opts.dirtyOk \/ Clean(base)
    <3>1. CASE attempts = 0
      <4>1. ~InBox => Clean(host) \/ opts.dirtyOk
        BY <1>6, <3>1 DEF DispatchWorker, RefusesDirty
      <4> QED BY <4>1, <2>3, <3>1
    <3>2. CASE attempts # 0
      BY <3>2, <2>4, <1>0
    <3> QED BY <3>1, <3>2
  <2> QED BY <1>0, <2>1, <2>2, <2>5
<1>7. CASE WorkerStep \/ OrphanEdit
  <2>1. /\ UNCHANGED <<opts, pc, attempts, edit, ready, gate, orphan, base, executed>>
        /\ pc = "working" \/ orphan # "none"
    BY <1>7 DEF WorkerStep, OrphanEdit
  <2>2. executed /\ attempts # 0
    BY <2>1, <1>0
  <2> QED BY <1>0, <2>1, <2>2
<1>8. CASE WorkerExit
  <2>1. /\ UNCHANGED <<opts, attempts, ready, gate, base, executed>>
        /\ pc = "working" /\ pc' = "collect_diff"
    BY <1>8 DEF WorkerExit
  <2>2. executed /\ attempts # 0 /\ Requested
    BY <2>1, <1>0 DEF LoopShape
  <2>3. edit' # "none"
    BY <1>8 DEF WorkerExit, Statuses
  <2> QED BY <1>0, <2>1, <2>2, <2>3
<1>9. CASE ContainerExpires \/ CollectDiff \/ RunTests \/ CheckConvergence
             \/ AssessRisk \/ ClassifyPermissions \/ Finish
  <2>1. UNCHANGED <<opts, host, attempts, edit, ready, gate, orphan, base, executed>>
    BY <1>9 DEF ContainerExpires, CollectDiff, RunTests, CheckConvergence, AssessRisk,
                ClassifyPermissions, Finish
  <2>2. pc' \in LoopBody \union AfterLoop => pc \in LoopBody \union AfterLoop
    BY <1>9 DEF ContainerExpires, CollectDiff, RunTests, CheckConvergence, AssessRisk,
                ClassifyPermissions, Finish
  <2>3. pc' = "working" => pc = "working"
    BY <1>9 DEF ContainerExpires, CollectDiff, RunTests, CheckConvergence, AssessRisk,
                ClassifyPermissions, Finish
  <2> QED BY <1>0, <2>1, <2>2, <2>3
<1>10. CASE EnforcePermissions \/ EnforceRaises
  <2>1. /\ UNCHANGED <<opts, attempts, edit, ready, gate, orphan, base, executed>>
        /\ pc = "enforce_permissions" /\ pc' \in {"run_tests", "raised"}
    BY <1>10 DEF EnforcePermissions, EnforceRaises, Raise
  <2>2. attempts # 0
    BY <2>1, <1>0 DEF LoopShape
  <2> QED BY <1>0, <2>1, <2>2
<1>11. CASE UNCHANGED vars
  BY <1>11, <1>0, Unchanged
<1> QED BY <1>1, <1>2, <1>3, <1>4, <1>5, <1>6, <1>7, <1>8, <1>9, <1>10, <1>11
        DEF Next, HarnessStep, Terminated

\* Every node takes the run one place further.
LEMMA ReportPlace ==
  ASSUME NEW n \in DOMAIN ReportNodes
  PROVE  /\ n \in DOMAIN Place /\ ReportNodes[n] \in DOMAIN Place
         /\ Place[ReportNodes[n]] = Place[n] + 1
BY DEF ReportNodes, Place

LEMMA StepSteps == TypeOK /\ ControlInv /\ [Next]_vars => StepsShape'
<1> SUFFICES ASSUME TypeOK, ControlInv, [Next]_vars PROVE StepsShape'
  OBVIOUS
<1>0. /\ pc \in DOMAIN Place => steps = 5 * attempts + Place[pc]
      /\ attempts \in Nat /\ steps \in Nat
  BY DEF ControlInv, StepsShape, TypeOK
<1>1. CASE ReportNode
  <2>1. PICK n \in DOMAIN ReportNodes : Node(n, ReportNodes[n])
    BY <1>1 DEF ReportNode
  <2>2. attempts' = attempts /\ steps' = steps + 1 /\ pc = n /\ pc' = ReportNodes[n]
    BY <1>1, <2>1 DEF ReportNode, Node, state
  <2>3. Place[n] \in Nat
    BY DEF ReportNodes, Place
  <2> QED BY <1>0, <2>2, <2>3, ReportPlace DEF StepsShape
<1> USE <1>0 DEF state, world, Node, StepsShape, Place
<1>2. CASE PrepareWorkspace
  BY <1>2 DEF PrepareWorkspace
<1>3. CASE PreDispatchGate
  <2>1. attempts = 0
    BY <1>3 DEF PreDispatchGate, ControlInv, LoopShape, PreLoop
  <2> QED BY <1>3, <2>1 DEF PreDispatchGate
<1>4. CASE SkipWorker \/ BlockWorker
  <2>1. WorkerReturns("none") \/ WorkerReturns("blocked")
    BY <1>4 DEF SkipWorker, BlockWorker
  <2>2. /\ attempts' = attempts + 1 /\ steps' = steps + 1
        /\ pc = "run_external_worker" /\ pc' = "collect_diff"
    BY <2>1 DEF WorkerReturns
  <2> QED BY <2>2
<1>5. CASE WorkerRaises \/ EnforceRaises \/ TestsRaised \/ RecursionError
  <2>1. pc' = "raised"
    BY <1>5 DEF WorkerRaises, EnforceRaises, TestsRaised, RecursionError, Raise
  <2> QED BY <2>1
<1>6. CASE DispatchWorker
  BY <1>6 DEF DispatchWorker
<1>7. CASE WorkerExit
  BY <1>7 DEF WorkerExit
<1>8. CASE CollectDiff
  BY <1>8 DEF CollectDiff
<1>9. CASE EnforcePermissions
  BY <1>9 DEF EnforcePermissions
<1>10. CASE RunTests
  BY <1>10 DEF RunTests
<1>11. CASE CheckConvergence
  BY <1>11 DEF CheckConvergence
<1>12. CASE AssessRisk
  BY <1>12 DEF AssessRisk
<1>13. CASE ClassifyPermissions
  BY <1>13 DEF ClassifyPermissions
<1>14. CASE Finish
  BY <1>14 DEF Finish
<1>15. CASE WorkerStep \/ OrphanEdit \/ ContainerExpires
  BY <1>15 DEF WorkerStep, OrphanEdit, ContainerExpires
<1>16. CASE UNCHANGED vars
  BY <1>16, Unchanged
<1> QED BY <1>1, <1>2, <1>3, <1>4, <1>5, <1>6, <1>7, <1>8, <1>9, <1>10, <1>11, <1>12, <1>13,
           <1>14, <1>15, <1>16
        DEF Next, HarnessStep, Terminated

\* The control of the workflow keeps its shape in every reachable state.
THEOREM ControlCorrect == Spec => []ControlInv
<1>1. TypeOK /\ ControlInv /\ [Next]_vars => ControlInv'
  BY StepLoop, StepWorker, StepSteps DEF ControlInv
<1> QED BY <1>1, InitControl, TypeCorrect, PTL DEF Spec

\* On a dirty repository, without allow_dirty, no host worker is ever started:
\* not even by the retries, which always pass allow_dirty (run_external_worker_node).
THEOREM DirtyRepoSafe == Spec => []DirtyRepoNeverDispatched
<1>1. ControlInv => DirtyRepoNeverDispatched
  BY DEF ControlInv, WorkerShape, DirtyRepoNeverDispatched
<1> QED BY <1>1, ControlCorrect, PTL

---------------------------------------------------------------------------
(* The terminal status.                                                    *)

\* A record that says completed, for a run that asked for a worker, means that a
\* worker process was started (run_harness, AO-D01-03).
THEOREM CompletedMeansExecuted == Spec => []NoSilentNoOp
<1>1. Init => NoSilentNoOp
  BY DEF Init, NoSilentNoOp
<1>2. TypeOK /\ ControlInv /\ NoSilentNoOp /\ [Next]_vars => NoSilentNoOp'
  <2> SUFFICES ASSUME TypeOK, ControlInv, NoSilentNoOp, [Next]_vars PROVE NoSilentNoOp'
    OBVIOUS
  <2>1. CASE Finish
    <3>1. UNCHANGED <<opts, executed>> /\ verdict' = Verdict /\ pc = "finish"
      BY <2>1 DEF Finish
    <3>2. ~executed /\ Requested => edit = "blocked" \/ (edit = "none" /\ (~ready \/ gate))
      BY <3>1 DEF ControlInv, WorkerShape, LoopBody, AfterLoop
    <3>3. ~executed /\ Requested => Verdict = "blocked"
      BY <3>2 DEF Verdict
    <3> QED BY <3>1, <3>3 DEF NoSilentNoOp
  <2>2. CASE DispatchWorker
    BY <2>2 DEF DispatchWorker, NoSilentNoOp
  <2>3. CASE ReportNode \/ PrepareWorkspace \/ PreDispatchGate \/ SkipWorker \/ BlockWorker
               \/ WorkerExit \/ CollectDiff \/ EnforcePermissions \/ RunTests
               \/ CheckConvergence \/ AssessRisk \/ ClassifyPermissions
    <3>1. UNCHANGED <<opts, verdict, executed>>
      BY <2>3
      DEF ReportNode, PrepareWorkspace, PreDispatchGate, SkipWorker, BlockWorker, WorkerReturns,
          WorkerExit, CollectDiff, EnforcePermissions, RunTests, CheckConvergence, AssessRisk,
          ClassifyPermissions, state, world
    <3> QED BY <3>1 DEF NoSilentNoOp
  <2>4. CASE WorkerRaises \/ EnforceRaises \/ TestsRaised \/ RecursionError \/ WorkerStep
               \/ OrphanEdit \/ ContainerExpires
    <3>1. UNCHANGED <<opts, verdict, executed>>
      BY <2>4
      DEF WorkerRaises, EnforceRaises, TestsRaised, RecursionError, WorkerStep, OrphanEdit,
          ContainerExpires, Raise, state, world
    <3> QED BY <3>1 DEF NoSilentNoOp
  <2>5. CASE UNCHANGED vars
    BY <2>5, Unchanged DEF NoSilentNoOp
  <2> QED BY <2>1, <2>2, <2>3, <2>4, <2>5 DEF Next, HarnessStep, Terminated
<1> QED BY <1>1, <1>2, TypeCorrect, ControlCorrect, PTL DEF Spec

---------------------------------------------------------------------------
(* The step budget.                                                        *)

\* max_attempts fits LangGraph's recursion limit.
StepBudget == 20 < StepLimit /\ \A o \in Options : 15 + 5 * o.max < StepLimit

\* With the recursion limit of 50, six attempts are always affordable: the error
\* is impossible as long as 15 + 5 * max_attempts is below the limit.
THEOREM BudgetSuffices ==
  ASSUME StepBudget
  PROVE  Spec => []WithinStepLimit
<1>1. Init => WithinStepLimit
  BY DEF Init, WithinStepLimit
<1>2. TypeOK /\ ControlInv /\ WithinStepLimit /\ [Next]_vars => WithinStepLimit'
  <2> SUFFICES ASSUME TypeOK, ControlInv, WithinStepLimit, [Next]_vars
               PROVE  WithinStepLimit'
    OBVIOUS
  <2>1. /\ opts.max \in Nat /\ attempts \in Nat /\ steps \in Nat /\ StepLimit \in Nat
        /\ 15 + 5 * opts.max < StepLimit
    BY RunAssumption, StepBudget DEF TypeOK, LegalOptions, StepBudget
  <2>2. pc \in Nodes \union {"finish"} => steps < StepLimit
    <3> SUFFICES ASSUME pc \in Nodes \union {"finish"} PROVE steps < StepLimit
      OBVIOUS
    <3>1. pc \in DOMAIN Place /\ steps = 5 * attempts + Place[pc]
      BY DEF ControlInv, StepsShape, Place, Nodes
    <3>2. Place[pc] \in 0 .. 15
      BY <3>1 DEF Place
    <3>3. CASE attempts = 0 \/ attempts = 1
      BY <3>1, <3>2, <3>3, <2>1, StepBudget DEF StepBudget
    <3>4. CASE attempts > 1
      <4>1. attempts <= opts.max
        BY <3>4, <2>1 DEF ControlInv, LoopShape, Retry, PreLoop, InLoop, AfterLoop, Nodes
      <4> QED BY <3>1, <3>2, <4>1, <2>1
    <3> QED BY <3>3, <3>4, <2>1
  <2>3. ~RecursionError
    BY <2>1, <2>2 DEF RecursionError
  <2>4. cause' \in {cause, "worker", "enforce", "tests"}
    BY <2>3, Unchanged
    DEF Next, HarnessStep, ReportNode, PrepareWorkspace, PreDispatchGate, SkipWorker,
        BlockWorker, WorkerReturns, WorkerRaises, DispatchWorker, WorkerExit, CollectDiff,
        EnforcePermissions, EnforceRaises, RunTests, TestsRaised, CheckConvergence, AssessRisk,
        ClassifyPermissions, Finish, WorkerStep, OrphanEdit, ContainerExpires,
        Terminated, Raise, state, world
  <2> QED BY <2>4 DEF WithinStepLimit
<1> QED BY <1>1, <1>2, TypeCorrect, ControlCorrect, PTL DEF Spec

---------------------------------------------------------------------------
(* The workflow implements GovernedRun.                                    *)

\* What of the state the abstract run is a function of.
LEMMA SameView ==
  ASSUME UNCHANGED <<opts, verdict, Phase, AttemptsOver, LastOutcome>>
  PROVE  UNCHANGED Governed!runVars
BY DEF Governed!runVars

LEMMA InitRefines == Init => Governed!RunInit
<1> SUFFICES ASSUME Init PROVE Governed!RunInit
  OBVIOUS
<1>1. opts.max \in {o.max : o \in Options}
  BY DEF Init
<1> QED BY <1>1 DEF Init, Governed!RunInit, Phase, AttemptsOver, LastOutcome, InLoop

\* A node that raises aborts the run.
LEMMA RaiseRefines ==
  ASSUME pc \notin {"done", "raised"}, pc' = "raised", UNCHANGED <<opts, verdict>>
  PROVE  Governed!Abort
BY DEF Governed!Abort, Phase, AttemptsOver, LastOutcome, InLoop

\* A step outside the loop, or within it, that keeps what the attempts came to.
LEMMA ViewKept ==
  ASSUME TypeOK,
         UNCHANGED <<opts, verdict, attempts>>,
         pc \in InLoop <=> pc' \in InLoop,
         pc \notin {"done", "raised"}, pc' \notin {"done", "raised"},
         pc \in InLoop \/ attempts = 0 \/ UNCHANGED <<edit, tests>>
  PROVE  UNCHANGED Governed!runVars
<1>1. UNCHANGED <<Phase, AttemptsOver>>
  BY DEF Phase, AttemptsOver, InLoop
<1>2. UNCHANGED LastOutcome
  <2>1. CASE attempts = 0
    <3>1. pc \notin InLoop => AttemptsOver = 0 /\ AttemptsOver' = 0
      BY <2>1 DEF AttemptsOver, InLoop
    <3> QED BY <3>1, <1>1 DEF LastOutcome
  <2>2. CASE attempts # 0
    BY <2>2, <1>1 DEF LastOutcome, OutcomeOf
  <2> QED BY <2>1, <2>2
<1> QED BY <1>1, <1>2, SameView

LEMMA StepRefines ==
  TypeOK /\ ControlInv /\ [Next]_vars => Governed!RunNext \/ UNCHANGED Governed!runVars
<1> SUFFICES ASSUME TypeOK, ControlInv, [Next]_vars
             PROVE  Governed!RunNext \/ UNCHANGED Governed!runVars
  OBVIOUS
<1>0. LoopShape /\ WorkerShape /\ attempts \in Nat /\ opts.max \in Nat
  BY RunAssumption DEF ControlInv, TypeOK, LegalOptions
<1> USE DEF state, world, Node
<1>1. CASE ReportNode
  <2>1. PICK n \in DOMAIN ReportNodes : Node(n, ReportNodes[n])
    BY <1>1 DEF ReportNode
  <2>2. UNCHANGED <<opts, verdict, attempts, edit, tests>>
    BY <1>1 DEF ReportNode
  <2>3. pc \notin InLoop \union {"done", "raised"}
    BY <2>1 DEF ReportNodes, InLoop
  <2>4. pc' \notin InLoop \union {"done", "raised"}
    BY <2>1, ReportSuccessor DEF InLoop, AfterLoop
  <2> QED BY <2>2, <2>3, <2>4, ViewKept
<1>2. CASE PrepareWorkspace \/ PreDispatchGate \/ AssessRisk \/ ClassifyPermissions
  <2>1. /\ UNCHANGED <<opts, verdict, attempts, edit, tests>>
        /\ pc \notin InLoop \union {"done", "raised"}
        /\ pc' \notin InLoop \union {"done", "raised"}
    BY <1>2 DEF PrepareWorkspace, PreDispatchGate, AssessRisk, ClassifyPermissions, InLoop
  <2> QED BY <2>1, ViewKept
<1>3. CASE SkipWorker \/ BlockWorker \/ DispatchWorker
  <2>1. /\ UNCHANGED <<opts, verdict, tests>> /\ attempts' = attempts + 1
        /\ pc = "run_external_worker" /\ pc' \in {"working", "collect_diff"}
    BY <1>3 DEF SkipWorker, BlockWorker, DispatchWorker, WorkerReturns
  <2>2. UNCHANGED <<Phase, AttemptsOver>>
    BY <2>1, <1>0 DEF Phase, AttemptsOver, InLoop
  <2>3. attempts # 0 => OutcomeOf = "red"
    BY <2>1, <1>0 DEF LoopShape, Retry, IsRetriable, OutcomeOf
  <2>4. UNCHANGED LastOutcome
    <3>1. AttemptsOver = attempts
      BY <2>1 DEF AttemptsOver, InLoop
    <3> QED BY <2>1, <2>2, <2>3, <3>1 DEF LastOutcome, InLoop
  <2> QED BY <2>1, <2>2, <2>4, SameView
<1>4. CASE WorkerRaises \/ EnforceRaises \/ TestsRaised \/ RecursionError
  <2>1. UNCHANGED <<opts, verdict>> /\ pc \notin {"done", "raised"} /\ pc' = "raised"
    BY <1>4 DEF WorkerRaises, EnforceRaises, TestsRaised, RecursionError, Raise, Nodes
  <2> QED BY <2>1, RaiseRefines DEF Governed!RunNext
<1>5. CASE WorkerExit \/ CollectDiff \/ EnforcePermissions \/ RunTests
  <2>1. /\ UNCHANGED <<opts, verdict, attempts>>
        /\ pc \in InLoop /\ pc' \in InLoop
    BY <1>5 DEF WorkerExit, CollectDiff, EnforcePermissions, RunTests, InLoop
  <2> QED BY <2>1, ViewKept DEF InLoop
<1>6. CASE WorkerStep \/ OrphanEdit \/ ContainerExpires
  <2>1. UNCHANGED <<opts, pc, verdict, attempts, edit, tests>>
    BY <1>6 DEF WorkerStep, OrphanEdit, ContainerExpires
  <2> QED BY <2>1, SameView DEF Phase, AttemptsOver, LastOutcome, OutcomeOf
<1>7. CASE CheckConvergence
  <2>1. /\ UNCHANGED <<opts, verdict, attempts, edit, tests>>
        /\ pc = "check_convergence"
        /\ pc' \in {"run_external_worker", "build_changed_subgraph"}
    BY <1>7 DEF CheckConvergence
  <2>2. /\ Phase = "open" /\ Phase' = "open"
        /\ AttemptsOver = attempts - 1 /\ AttemptsOver' = attempts
        /\ attempts >= 1 /\ (attempts = 1 \/ attempts <= opts.max)
    BY <2>1, <1>0 DEF Phase, AttemptsOver, InLoop, LoopShape
  <2>3. LastOutcome = IF attempts = 1 THEN "none" ELSE "red"
    BY <2>1, <2>2, <1>0 DEF LastOutcome, InLoop
  <2>4. LastOutcome' = OutcomeOf
    BY <2>1, <2>2, <1>0 DEF LastOutcome, InLoop, OutcomeOf
  <2>5. OutcomeOf \in Governed!Outcomes /\ (~Requested => OutcomeOf = "skipped")
    BY <1>0 DEF OutcomeOf, Governed!Outcomes, WorkerShape
  <2>6. Governed!Attempt
    BY <2>1, <2>2, <2>3, <2>4, <2>5, <1>0 DEF Governed!Attempt
  <2> QED BY <2>6 DEF Governed!RunNext
<1>8. CASE Finish
  <2>1. /\ UNCHANGED <<opts, attempts, edit, tests>>
        /\ pc = "finish" /\ pc' = "done" /\ verdict' = Verdict
    BY <1>8 DEF Finish
  <2>2. /\ Phase = "open" /\ Phase' = "reported" /\ AttemptsOver = attempts /\ attempts >= 1
    BY <2>1, <1>0 DEF Phase, AttemptsOver, InLoop, LoopShape, AfterLoop
  <2>3. UNCHANGED <<AttemptsOver, LastOutcome>> /\ LastOutcome = OutcomeOf
    BY <2>1, <2>2, <1>0 DEF AttemptsOver, LastOutcome, OutcomeOf, InLoop
  <2>4. OutcomeOf = "red" => attempts >= opts.max
    BY <2>1, <1>0 DEF OutcomeOf, LoopShape, AfterLoop, Retry, IsRetriable
  <2>5. edit = "none" /\ Requested => ~ready \/ gate
    BY <2>1, <1>0 DEF WorkerShape, LoopBody, AfterLoop
  <2>6. Verdict \in Governed!Allowed
    BY <2>3, <2>5, <1>0 DEF Verdict, OutcomeOf, Governed!Allowed, TypeOK
  <2>7. Governed!Report
    BY <2>1, <2>2, <2>3, <2>4, <2>6, <1>0 DEF Governed!Report
  <2> QED BY <2>7 DEF Governed!RunNext
<1>9. CASE UNCHANGED vars
  BY <1>9, Unchanged, SameView DEF Phase, AttemptsOver, LastOutcome, OutcomeOf
<1> QED BY <1>1, <1>2, <1>3, <1>4, <1>5, <1>6, <1>7, <1>8, <1>9
        DEF Next, HarnessStep, Terminated

\* Every step of the workflow is an attempt, a report or an abort of GovernedRun,
\* or changes nothing it can see.
THEOREM RefinesGovernedRun == Spec => Governed!RunInit /\ [][Governed!RunNext]_Governed!runVars
<1> QED BY InitRefines, StepRefines, TypeCorrect, ControlCorrect, PTL DEF Spec
============================================================================
