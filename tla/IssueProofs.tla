---------------------------- MODULE IssueProofs -----------------------------
(***************************************************************************)
(* Proofs about IssueSolve, for every set of files, tests and contracts,   *)
(* whatever the tests do on whatever tree, and any number of starts: two   *)
(* starts never work in one directory, a worker is only given a tree on    *)
(* which the negative gate saw the bug, and a solved contract holds on the *)
(* tree that was left, patched and committed.                              *)
(***************************************************************************)
EXTENDS IssueSolve, TLAPS

-----------------------------------------------------------------------------
(* Every step is one of these; the proofs have a case for each.            *)
Begins == BeginCommand \/ BeginRequest
Quiet == Fetch \/ VerifyCommand \/ VerifyRequest \/ WorkerKind \/ Finish

LEMMA Actions ==
  ASSUME Next
  PROVE  \/ Begins \/ Quiet \/ CommandGate \/ RequestGate \/ RunHarness
         \/ PositiveVerdict \/ ExportPatch \/ CommitChanges \/ Straggle
         \/ RemoveWorkspace
         \/ \E p \in Procs : \/ CheckAbsent(p) \/ Clone(p) \/ Checkout(p) \/ SetUp(p)
                             \/ ApplyTestPatch(p) \/ Probe(p) \/ Die(p)
BY DEF Next, Request, Command, Prepare, Begins, Quiet, Procs

(* What a contract gives the steps.                                        *)
LEMMA SpecType ==
  ASSUME IssueTypeOK
  PROVE  /\ spec.setup \in 0..2 /\ spec.by_spec \in BOOLEAN
         /\ spec.f2p \in SUBSET Tests /\ spec.p2p \in SUBSET Tests
         /\ spec.by_spec <=> spec.f2p # {}
BY IssueAssumption, SpecsAssumption DEF IssueTypeOK, Contract

-----------------------------------------------------------------------------
(* Type correctness of the two commands, their directory and their record, *)
(* for every contract and every bound on the starts (IssueTypeOK).         *)
LEMMA TypeInit == Init => IssueTypeOK
<1> SUFFICES ASSUME Init PROVE IssueTypeOK
  OBVIOUS
<1>1. starts \in 0..MaxStarts
  BY IssueAssumption DEF Init
<1>2. /\ pc \in [Procs -> Steps \cup {"idle", "over"}] /\ todo \in [Procs -> 0..2]
      /\ left \in [Procs -> SUBSET Tests] /\ seen \in [Procs -> SUBSET (Tests \X Probes)]
      /\ exit \in [Procs -> Ends \cup {"none"}]
  BY DEF Init
<1>3. record \in [status: {"none", "completed", "failed", "blocked"}, changed: BOOLEAN]
  BY DEF Init, NoRecord
<1>4. start \in [given: BOOLEAN, tree: SUBSET Files, cut: SUBSET Tests, git: BOOLEAN]
  BY DEF Init, NotStarted
<1>5. known \subseteq Files
  BY IssueAssumption DEF Init
<1> QED BY <1>1, <1>2, <1>3, <1>4, <1>5 DEF Init, IssueTypeOK

(* IssueTypeOK in three parts, as the actions disturb them.                *)
LocalOK ==
  /\ spec \in Specs
  /\ pc \in [Procs -> Steps \cup {"idle", "over"}]
  /\ todo \in [Procs -> 0..2]
  /\ left \in [Procs -> SUBSET Tests]
  /\ seen \in [Procs -> SUBSET (Tests \X Probes)]
  /\ exit \in [Procs -> Ends \cup {"none"}]
  /\ starts \in 0..MaxStarts
DirOK ==
  /\ dir \in Procs \cup {"absent"}
  /\ changes \subseteq Files /\ committed \subseteq Files /\ known \subseteq Files
  /\ straggler \in BOOLEAN
RunOK ==
  /\ record \in [status: {"none", "completed", "failed", "blocked"}, changed: BOOLEAN]
  /\ patch \subseteq Files
  /\ start \in [given: BOOLEAN, tree: SUBSET Files, cut: SUBSET Tests, git: BOOLEAN]

LEMMA Parts == IssueTypeOK <=> LocalOK /\ DirOK /\ RunOK
BY DEF IssueTypeOK, LocalOK, DirOK, RunOK

(* A start goes to another place or ends, and keeps the directory or not.  *)
LEMMA Moves ==
  ASSUME LocalOK, NEW p \in Procs,
         (\E step \in Steps : Goto(p, step)) \/ (\E how \in Ends : End(p, how))
  PROVE  LocalOK'
BY DEF LocalOK, Goto, End

LEMMA LocalStep ==
  ASSUME IssueTypeOK, Next
  PROVE  LocalOK'
<1> USE IssueAssumption, Parts
<1>1. CASE Begins
  <2>1. PICK p \in Procs, step \in Steps : Begin(p, step)
    BY <1>1 DEF Begins, BeginCommand, BeginRequest, Procs, Steps
  <2>2. starts' \in 0..MaxStarts
    BY <2>1 DEF Begin, IssueTypeOK
  <2> QED BY <2>1, <2>2, SpecType DEF Begin, LocalOK
<1>2. CASE Quiet \/ CommandGate \/ RequestGate \/ ExportPatch \/ CommitChanges
  <2>1. \E p \in Procs : (\E step \in Steps : Goto(p, step)) \/ (\E how \in Ends : End(p, how))
    BY <1>2 DEF Quiet, Fetch, VerifyCommand, VerifyRequest, WorkerKind, Finish, CommandGate,
                RequestGate, ExportPatch, CommitChanges, Procs, Steps, Ends
  <2> QED BY <2>1, Moves
<1>3. CASE PositiveVerdict
  <2>1. \E p \in Procs : (\E step \in Steps : Goto(p, step)) \/ (\E how \in Ends : End(p, how))
    BY <1>3 DEF PositiveVerdict, Procs, Steps, Ends
  <2> QED BY <2>1, Moves
<1>4. CASE RunHarness
  <2>1. CASE End("command", "crash")
    BY <2>1, Moves DEF Procs, Ends
  <2>2. CASE ~End("command", "crash")
    <3>1. PositiveTests \in SUBSET Tests
      BY SpecType DEF PositiveTests
    <3>2. /\ left' = [left EXCEPT !["command"] = PositiveTests]
          /\ seen' = [seen EXCEPT !["command"] = {}]
          /\ pc' = [pc EXCEPT !["command"] = IF spec.by_spec THEN "positive" ELSE "finish"]
          /\ UNCHANGED <<spec, todo, exit, starts>>
      BY <1>4, <2>2 DEF RunHarness
    <3> QED BY <3>1, <3>2 DEF LocalOK, Procs, Steps
  <2> QED BY <2>1, <2>2
<1>5. CASE Straggle \/ RemoveWorkspace
  BY <1>5 DEF Straggle, RemoveWorkspace, LocalOK, local
<1>6. ASSUME NEW p \in Procs, CheckAbsent(p) \/ Clone(p) \/ Checkout(p) \/ Die(p)
      PROVE  LocalOK'
  <2>1. (\E step \in Steps : Goto(p, step)) \/ (\E how \in Ends : End(p, how))
    BY <1>6 DEF CheckAbsent, Clone, Checkout, Die, Steps, Ends
  <2> QED BY <2>1, Moves
<1>7. ASSUME NEW p \in Procs, SetUp(p) \/ ApplyTestPatch(p)
      PROVE  LocalOK'
  <2>1. \/ (\E step \in Steps : Goto(p, step)) \/ (\E how \in Ends : End(p, how))
        \/ /\ todo[p] > 0 /\ todo' = [todo EXCEPT ![p] = @ - 1]
           /\ UNCHANGED <<spec, pc, left, seen, exit, starts>>
    BY <1>7 DEF SetUp, ApplyTestPatch, Steps, Ends
  <2>2. CASE /\ todo[p] > 0 /\ todo' = [todo EXCEPT ![p] = @ - 1]
             /\ UNCHANGED <<spec, pc, left, seen, exit, starts>>
    <3>1. todo[p] \in 0..2 /\ todo[p] - 1 \in 0..2
      BY <2>2 DEF LocalOK
    <3> QED BY <2>2, <3>1 DEF LocalOK
  <2> QED BY <2>1, <2>2, Moves
<1>8. ASSUME NEW p \in Procs, Probe(p)
      PROVE  LocalOK'
  <2>1. PICK t \in left[p] :
          \/ End(p, "crash")
          \/ /\ \E r \in Seen(t) : seen' = [seen EXCEPT ![p] = @ \cup {<<t, r>>}]
             /\ left' = [left EXCEPT ![p] = @ \ {t}]
             /\ UNCHANGED <<spec, pc, todo, exit, starts>>
    BY <1>8 DEF Probe
  <2>2. CASE End(p, "crash")
    BY <2>2, Moves DEF Ends
  <2>3. ASSUME NEW r \in Seen(t), seen' = [seen EXCEPT ![p] = @ \cup {<<t, r>>}],
               left' = [left EXCEPT ![p] = @ \ {t}],
               UNCHANGED <<spec, pc, todo, exit, starts>>
        PROVE  LocalOK'
    <3>1. r \in Probes /\ t \in Tests
      BY <2>3 DEF Seen, Verdict, Probes, LocalOK
    <3>2. seen[p] \cup {<<t, r>>} \in SUBSET (Tests \X Probes)
      BY <3>1 DEF LocalOK
    <3> QED BY <2>3, <3>2 DEF LocalOK
  <2> QED BY <2>1, <2>2, <2>3
<1> QED BY Actions, <1>1, <1>2, <1>3, <1>4, <1>5, <1>6, <1>7, <1>8

LEMMA DirStep ==
  ASSUME IssueTypeOK, Next
  PROVE  DirOK'
<1> USE IssueAssumption, Parts
<1>1. CASE \/ Begins \/ Quiet \/ CommandGate \/ RequestGate \/ PositiveVerdict \/ ExportPatch
           \/ \E p \in Procs : CheckAbsent(p) \/ Checkout(p) \/ Probe(p) \/ Die(p)
  <2>1. UNCHANGED dirVars
    BY <1>1 DEF Begins, BeginCommand, BeginRequest, Begin, Quiet, Fetch, VerifyCommand,
                VerifyRequest, WorkerKind, Finish, CommandGate, RequestGate, PositiveVerdict,
                ExportPatch, CheckAbsent, Checkout, Probe, Die
  <2> QED BY <2>1 DEF dirVars, DirOK
<1>2. CASE RunHarness
  <2>1. committed' \subseteq Files /\ known' \subseteq Files
    BY <1>2 DEF RunHarness
  <2> QED BY <1>2, <2>1 DEF RunHarness, DirOK
<1>2a. CASE CommitChanges
  BY <1>2a DEF CommitChanges, DirOK, tree
<1>3. CASE Straggle \/ RemoveWorkspace
  BY <1>3 DEF Straggle, RemoveWorkspace, DirOK
<1>4. ASSUME NEW p \in Procs, Clone(p)
      PROVE  DirOK'
  BY <1>4 DEF Clone, DirOK
<1>5. ASSUME NEW p \in Procs, SetUp(p) \/ ApplyTestPatch(p)
      PROVE  DirOK'
  <2>1. changes' \subseteq Files
    BY <1>5 DEF SetUp, ApplyTestPatch, DirOK
  <2> QED BY <1>5, <2>1 DEF SetUp, ApplyTestPatch, DirOK
<1> QED BY Actions, <1>1, <1>2, <1>2a, <1>3, <1>4, <1>5

LEMMA RunStep ==
  ASSUME IssueTypeOK, Next
  PROVE  RunOK'
<1> USE IssueAssumption, Parts
<1>1. CASE RunHarness
  <2>1. {x[1] : x \in {y \in seen["command"] : y[2] = "unfinished"}} \in SUBSET Tests
    BY DEF LocalOK, Procs
  <2>2. start' \in [given: BOOLEAN, tree: SUBSET Files, cut: SUBSET Tests, git: BOOLEAN]
    BY <1>1, <2>1 DEF RunHarness, DirOK, tree
  <2>3. record' \in [status: {"none", "completed", "failed", "blocked"}, changed: BOOLEAN]
    <3>1. record' = record \/ \E status \in {"completed", "failed", "blocked"}, c \in BOOLEAN :
                                record' = [status |-> status, changed |-> c]
      BY <1>1 DEF RunHarness
    <3> QED BY <3>1 DEF RunOK
  <2> QED BY <1>1, <2>2, <2>3 DEF RunHarness, RunOK
<1>2. CASE BeginCommand
  BY <1>2 DEF BeginCommand, RunOK, NoRecord, NotStarted
<1>3. CASE PositiveVerdict
  <2>1. record' \in {record, [record EXCEPT !.status = "failed"]} /\ UNCHANGED <<patch, start>>
    BY <1>3 DEF PositiveVerdict
  <2> QED BY <2>1 DEF RunOK
<1>4. CASE ExportPatch
  BY <1>4 DEF ExportPatch, RunOK, DirOK
<1>5. CASE ~(RunHarness \/ BeginCommand \/ PositiveVerdict \/ ExportPatch)
  <2>1. UNCHANGED runVars
    BY <1>5, Actions
    DEF Begins, BeginRequest, Quiet, Fetch, VerifyCommand, VerifyRequest, WorkerKind, Finish,
        CommandGate, RequestGate, CommitChanges, Straggle, RemoveWorkspace, CheckAbsent, Clone,
        Checkout, SetUp, ApplyTestPatch, Probe, Die
  <2> QED BY <2>1 DEF runVars, RunOK
<1> QED BY <1>1, <1>2, <1>3, <1>4, <1>5

LEMMA TypeStep ==
  ASSUME IssueTypeOK, [Next]_vars
  PROVE  IssueTypeOK'
<1>1. CASE Next
  BY <1>1, LocalStep, DirStep, RunStep DEF IssueTypeOK, LocalOK, DirOK, RunOK
<1>2. CASE UNCHANGED vars
  BY <1>2 DEF vars, IssueTypeOK
<1> QED BY <1>1, <1>2

(* What the two commands, their directory and their record hold has its    *)
(* shape at every moment (IssueTypeOK).                                    *)
THEOREM TypeCorrect == Spec => []IssueTypeOK
BY TypeInit, TypeStep, PTL DEF Spec

-----------------------------------------------------------------------------
(* One workspace.  The invariant names the owner: who works inside the     *)
(* directory is who cloned it.                                             *)
Ours == \A p \in Procs : Inside(p) => dir = p

LEMMA OursStep ==
  ASSUME Ours, [Next]_vars, IssueTypeOK
  PROVE  Ours'
<1> DEFINE Out == {"idle", "over", "fetch", "env", "exists", "clone"}
<1>0. \A p \in Procs : Inside(p) <=> pc[p] \notin Out
  BY DEF Inside, Steps, IssueTypeOK
<1>0a. \A p \in Procs : Inside(p)' => pc'[p] \notin Out
  BY DEF Inside, Steps
<1>1. ASSUME NEW p \in Procs, Clone(p)
      PROVE  Ours'
  <2>1. CASE dir = "absent" /\ dir' = p
    <3>1. \A q \in Procs : q # p => pc[q] \in Out
      BY <2>1, <1>0 DEF Ours, Procs
    <3>2. \A q \in Procs : q # p => pc'[q] = pc[q]
      BY <1>1 DEF Clone, Goto, End, IssueTypeOK
    <3> QED BY <2>1, <3>1, <3>2, <1>0a DEF Ours
  <2>2. CASE UNCHANGED dir /\ End(p, "crash")
    BY <2>2, <1>0, <1>0a DEF Ours, End, IssueTypeOK
  <2> QED BY <1>1, <2>1, <2>2 DEF Clone
<1>2. CASE RemoveWorkspace
  BY <1>2, <1>0a DEF RemoveWorkspace, local, Ours
<1>3. CASE UNCHANGED vars
  BY <1>3, <1>0, <1>0a DEF vars, Ours
<1>4. CASE Next /\ ~RemoveWorkspace /\ \A p \in Procs : ~Clone(p)
  <2>1. dir' = dir
    BY <1>4, Actions
    DEF Begins, BeginCommand, BeginRequest, Begin, Quiet, Fetch, VerifyCommand, VerifyRequest,
        WorkerKind, Finish, CommandGate, RequestGate, RunHarness, PositiveVerdict, ExportPatch,
        CommitChanges, Straggle, CheckAbsent, Checkout, SetUp, ApplyTestPatch, Probe, Die, dirVars
  <2>2. \A p \in Procs : pc[p] \in Out => pc'[p] \in Out
    <3>1. CASE Begins
      <4>1. PICK p \in Procs, step \in {"fetch", "env"} : Begin(p, step)
        BY <3>1 DEF Begins, BeginCommand, BeginRequest, Procs
      <4> QED BY <4>1 DEF Begin, IssueTypeOK
    <3>2. CASE Straggle
      BY <3>2 DEF Straggle, local
    <3>3. CASE Quiet \/ CommandGate \/ RequestGate \/ RunHarness \/ PositiveVerdict
               \/ ExportPatch \/ CommitChanges
      BY <3>3 DEF Quiet, Fetch, VerifyCommand, VerifyRequest, WorkerKind, Finish, CommandGate,
                  RequestGate, RunHarness, PositiveVerdict, ExportPatch, CommitChanges, Goto, End,
                  IssueTypeOK, Procs
    <3>4. ASSUME NEW p \in Procs, \/ CheckAbsent(p) \/ Checkout(p) \/ SetUp(p)
                                  \/ ApplyTestPatch(p) \/ Probe(p) \/ Die(p)
          PROVE  \A q \in Procs : pc[q] \in Out => pc'[q] \in Out
      BY <3>4 DEF CheckAbsent, Checkout, SetUp, ApplyTestPatch, Probe, Die, Goto, End, IssueTypeOK
    <3> QED BY <1>4, Actions, <3>1, <3>2, <3>3, <3>4
  <2> QED BY <2>1, <2>2, <1>0, <1>0a DEF Ours
<1> QED BY <1>1, <1>2, <1>3, <1>4

(* Two starts never work in one directory (cli.py issue solve, api.py      *)
(* pre-dispatch, issues.py prepare_issue_workspace).                       *)
THEOREM Apart == Spec => []OneWorkspace
<1>1. Init => Ours
  BY DEF Init, Ours, Inside, Steps, Procs
<1>2. IssueTypeOK /\ Ours /\ [Next]_vars => Ours'
  BY OursStep
<1>3. Ours => OneWorkspace
  BY DEF Ours, OneWorkspace
<1> QED BY <1>1, <1>2, <1>3, TypeCorrect, PTL DEF Spec

-----------------------------------------------------------------------------
(* The gate's word.  While the command goes from its clone to its worker   *)
(* no straggler of an earlier worker writes (Calm) and nobody else is in   *)
(* the directory (Ours), so what the gate saw is true of the tree until    *)
(* the worker has it (Word).                                               *)
Before == {"fetch", "env", "exists", "clone", "checkout", "setup", "testpatch"}
Gate == {"negative", "kind", "worker"}
At == pc["command"]
Found == seen["command"]
Shown(t) == tree \notin Runnable[t] \cap Passing[t]

Calm ==
  /\ dir = "absent" => ~straggler
  /\ At \in (Before \ {"fetch", "env", "exists"}) \cup Gate => ~straggler
Word ==
  /\ At \in Before => left["command"] = spec.f2p /\ Found = {}
  /\ At = "negative" =>
       /\ \A x \in Found : x[2] = "failed" => Shown(x[1])
       /\ \A t \in spec.f2p : t \in left["command"] \/ \E r \in Probes : <<t, r>> \in Found
  /\ At \in {"kind", "worker"} /\ spec.by_spec =>
       \A t \in spec.f2p : Shown(t) \/ <<t, "unfinished">> \in Found
  /\ DispatchNeedsBug
Mine == At' = At /\ left'["command"] = left["command"] /\ Found' = Found /\ start' = start

LEMMA SpecKept ==
  ASSUME IssueTypeOK, Next
  PROVE  spec' = spec
BY Actions
DEF Begins, BeginCommand, BeginRequest, Begin, Quiet, Fetch, VerifyCommand, VerifyRequest,
    WorkerKind, Finish, CommandGate, RequestGate, RunHarness, PositiveVerdict, ExportPatch,
    CommitChanges, Straggle, RemoveWorkspace, local, CheckAbsent, Clone, Checkout, SetUp,
    ApplyTestPatch, Probe, Die, Goto, End

(* What is not a step of the command leaves its place and its gate alone.  *)
Others ==
  \/ BeginRequest \/ VerifyRequest \/ RequestGate \/ Straggle
  \/ LET p == "endpoint"
     IN CheckAbsent(p) \/ Clone(p) \/ Checkout(p) \/ SetUp(p) \/ ApplyTestPatch(p)
          \/ Probe(p) \/ Die(p)

LEMMA OthersLeave ==
  ASSUME IssueTypeOK, Others
  PROVE  Mine
BY DEF Others, Mine, At, Found, BeginRequest, Begin, VerifyRequest, RequestGate, Straggle, local,
       runVars, CheckAbsent, Clone, Checkout, SetUp, ApplyTestPatch, Probe, Die, Goto, End,
       IssueTypeOK, Procs

LEMMA CalmStep ==
  ASSUME IssueTypeOK, Ours, Calm, Next
  PROVE  Calm'
<1>1. CASE Others
  <2>1. CASE Straggle
    BY <2>1, OthersLeave, <1>1 DEF Straggle, Calm, Mine, local
  <2>2. CASE ~Straggle
    <3>1. straggler' = straggler /\ (dir' = dir \/ dir' = "endpoint")
      BY <1>1, <2>2 DEF Others, BeginRequest, Begin, VerifyRequest, RequestGate, dirVars,
         CheckAbsent, Clone, Checkout, SetUp, ApplyTestPatch, Probe, Die
    <3> QED BY <3>1, OthersLeave, <1>1 DEF Calm, Mine
  <2> QED BY <2>1, <2>2
<1>2. CASE RemoveWorkspace
  BY <1>2 DEF RemoveWorkspace, Calm
<1>3. CASE BeginCommand \/ Fetch \/ VerifyCommand
  <2>1. UNCHANGED dirVars /\ At' \in {"fetch", "env", "exists", "over"}
    BY <1>3 DEF BeginCommand, Begin, Fetch, VerifyCommand, Goto, End, At, IssueTypeOK, Procs
  <2> QED BY <2>1 DEF Calm, dirVars, Before, Gate
<1>4. CASE CheckAbsent("command")
  <2>1. UNCHANGED dirVars /\ (dir = "absent" \/ At' = "over")
    BY <1>4 DEF CheckAbsent, Goto, End, At, IssueTypeOK, Procs
  <2> QED BY <2>1 DEF Calm, dirVars, Before, Gate
<1>5. CASE \/ Clone("command") \/ Checkout("command") \/ SetUp("command")
           \/ ApplyTestPatch("command") \/ Probe("command") \/ CommandGate \/ WorkerKind
  <2>1. straggler' = straggler /\ (dir' = dir \/ dir' = "command")
    BY <1>5 DEF Clone, Checkout, SetUp, ApplyTestPatch, Probe, CommandGate, WorkerKind, dirVars
  <2>2. At \in (Before \ {"fetch", "env", "exists"}) \cup Gate \cup {"positive"}
    BY <1>5 DEF Clone, Checkout, SetUp, ApplyTestPatch, Probe, CommandGate, WorkerKind, At,
       Before, Gate
  <2>3. At = "positive" => At' \in {"positive", "over"}
    BY <1>5 DEF Clone, Checkout, SetUp, ApplyTestPatch, Probe, CommandGate, WorkerKind, At, End,
       IssueTypeOK, Procs
  <2> QED BY <2>1, <2>2, <2>3 DEF Calm, Before, Gate
<1>6. CASE RunHarness \/ PositiveVerdict \/ Finish \/ ExportPatch \/ CommitChanges \/ Die("command")
  <2>1. At' \in {"positive", "finish", "export", "commit", "over"}
    BY <1>6 DEF RunHarness, PositiveVerdict, Finish, ExportPatch, CommitChanges, Die, Goto, End,
       At, IssueTypeOK, Procs
  <2>2. dir' = dir /\ (straggler' = straggler \/ At = "worker")
    BY <1>6 DEF RunHarness, PositiveVerdict, Finish, ExportPatch, CommitChanges, Die, dirVars, At
  <2>3. At = "worker" => dir = "command"
    BY DEF Ours, Inside, Procs, Steps, At
  <2> QED BY <2>1, <2>2, <2>3 DEF Calm, Before, Gate
<1> QED BY <1>1, <1>2, <1>3, <1>4, <1>5, <1>6, Actions DEF Begins, Quiet, Others, Procs

(* Between the gate and the worker nothing changes the tree.               *)
LEMMA TreeKept ==
  ASSUME IssueTypeOK, Ours, Calm, Next, At \in Gate, ~RunHarness
  PROVE  tree' = tree
<1>1. ~straggler /\ Inside("command") /\ At \notin {"commit", "idle", "over"}
  BY DEF Calm, Gate, Inside, Steps, At
<1>2. ~Inside("endpoint")
  BY <1>1 DEF Ours, Procs
<1>3. ~SetUp("endpoint") /\ ~ApplyTestPatch("endpoint")
  BY <1>2 DEF SetUp, ApplyTestPatch, Inside, Steps
<1>4. ~SetUp("command") /\ ~ApplyTestPatch("command") /\ ~CommitChanges
      /\ ~Straggle /\ ~RemoveWorkspace
  BY <1>1 DEF SetUp, ApplyTestPatch, CommitChanges, Straggle, RemoveWorkspace, At, Gate, Procs
<1>5. UNCHANGED <<changes, committed>>
  BY <1>3, <1>4, Actions
  DEF Begins, BeginCommand, BeginRequest, Begin, Quiet, Fetch, VerifyCommand, VerifyRequest,
      WorkerKind, Finish, CommandGate, RequestGate, PositiveVerdict, ExportPatch, CheckAbsent,
      Clone, Checkout, Probe, Die, dirVars, Procs
<1> QED BY <1>5 DEF tree

LEMMA WordStep ==
  ASSUME IssueTypeOK, Ours, Calm, Word, Next
  PROVE  Word'
<1>0. spec' = spec
  BY SpecKept
<1>1. CASE Others \/ RemoveWorkspace
  <2>1. Mine
    BY <1>1, OthersLeave DEF RemoveWorkspace, local, runVars, Mine, At, Found
  <2>2. At \in Gate => tree' = tree
    <3>1. RunHarness => At' # At
      BY DEF RunHarness, End, At, IssueTypeOK, Procs
    <3> QED BY <2>1, <3>1, TreeKept DEF Mine
  <2> QED BY <1>0, <2>1, <2>2 DEF Word, Mine, Gate, Shown, DispatchNeedsBug, Reproduced
<1>2. CASE BeginCommand
  <2>1. At' \in {"fetch", "env"} /\ left'["command"] = spec.f2p /\ Found' = {}
    BY <1>2 DEF BeginCommand, Begin, At, Found, IssueTypeOK, Procs
  <2>2. ~start'.given
    BY <1>2 DEF BeginCommand, NotStarted
  <2> QED BY <1>0, <2>1, <2>2 DEF Word, DispatchNeedsBug
<1>3. CASE \/ Fetch \/ VerifyCommand \/ CheckAbsent("command") \/ Clone("command")
           \/ Checkout("command") \/ SetUp("command") \/ ApplyTestPatch("command")
  <2>1. At \in Before /\ start' = start
    BY <1>3 DEF Fetch, VerifyCommand, CheckAbsent, Clone, Checkout, SetUp, ApplyTestPatch, At,
       Before, runVars
  <2>2. \/ At' = "over"
        \/ /\ At' \in Before \cup {"negative"} \/ (At' = "kind" /\ ~spec.by_spec)
           /\ left'["command"] = left["command"] /\ Found' = Found
    BY <1>3 DEF Fetch, VerifyCommand, CheckAbsent, Clone, Checkout, SetUp, ApplyTestPatch, At,
       Before, Found, Goto, End, IssueTypeOK, Procs
  <2>3. DispatchNeedsBug'
    BY <1>0, <2>1 DEF Word, DispatchNeedsBug, Reproduced
  <2> QED BY <1>0, <2>1, <2>2, <2>3 DEF Word, Before
<1>4. CASE Probe("command")
  <2>1. start' = start
    BY <1>4 DEF Probe, runVars
  <2>2. DispatchNeedsBug'
    BY <1>0, <2>1 DEF Word, DispatchNeedsBug, Reproduced
  <2>3. CASE End("command", "crash")
    BY <2>2, <2>3 DEF Word, End, At, Before, IssueTypeOK, Procs
  <2>4. CASE ~End("command", "crash")
    <3>1. PICK t \in left["command"], r \in Probes :
            /\ r \in Seen(t)
            /\ seen' = [seen EXCEPT !["command"] = @ \cup {<<t, r>>}]
            /\ left' = [left EXCEPT !["command"] = @ \ {t}]
            /\ pc' = pc
      BY <1>4, <2>4 DEF Probe, Seen, Verdict, Probes
    <3>2. Found' = Found \cup {<<t, r>>} /\ left'["command"] = left["command"] \ {t} /\ At' = At
      BY <3>1 DEF Found, At, IssueTypeOK, Procs
    <3>3. r \in Probes /\ (r = "failed" => Shown(t))
      BY <3>1 DEF Seen, Verdict, Shown
    <3>4. At \in {"negative", "positive"}
      BY <1>4 DEF Probe, At
    <3>5. CASE At = "negative"
      <4>1. tree' = tree
        BY <3>5, <1>4, TreeKept DEF Gate, RunHarness, At
      <4>2. \A x \in Found' : x[2] = "failed" => Shown(x[1])'
        BY <3>2, <3>3, <3>5, <4>1 DEF Word, Shown
      <4>3. \A u \in spec.f2p : u \in left'["command"] \/ \E q \in Probes : <<u, q>> \in Found'
        BY <3>2, <3>3, <3>5 DEF Word
      <4> QED BY <1>0, <2>2, <3>2, <3>5, <4>2, <4>3 DEF Word, Before
    <3>6. CASE At = "positive"
      BY <2>2, <3>2, <3>6 DEF Word, Before
    <3> QED BY <3>4, <3>5, <3>6
  <2> QED BY <2>3, <2>4
<1>5. CASE CommandGate
  <2>1. start' = start /\ At = "negative" /\ left["command"] = {}
    BY <1>5 DEF CommandGate, runVars, At
  <2>2. DispatchNeedsBug'
    BY <1>0, <2>1 DEF Word, DispatchNeedsBug, Reproduced
  <2>3. CASE ~GateOpen("command")
    BY <1>5, <2>2, <2>3 DEF CommandGate, Word, End, At, Before, IssueTypeOK, Procs
  <2>4. CASE GateOpen("command")
    <3>1. At' = "kind" /\ Found' = Found
      BY <1>5, <2>4 DEF CommandGate, Goto, At, Found, IssueTypeOK, Procs
    <3>2. tree' = tree
      BY <1>5, <2>1, TreeKept DEF Gate, RunHarness, At
    <3>3. ASSUME NEW t \in spec.f2p PROVE Shown(t) \/ <<t, "unfinished">> \in Found
      <4>1. PICK r \in Probes : <<t, r>> \in Found
        BY <2>1 DEF Word
      <4>2. r \in {"failed", "unfinished"}
        BY <2>4, <4>1 DEF GateOpen, ProvesBug, Found
      <4> QED BY <2>1, <4>1, <4>2 DEF Word
    <3> QED BY <1>0, <2>2, <3>1, <3>2, <3>3 DEF Word, Before, Shown
  <2> QED BY <2>3, <2>4
<1>6. CASE WorkerKind
  <2>1. start' = start /\ At = "kind"
    BY <1>6 DEF WorkerKind, runVars, At
  <2>2. At' \in {"worker", "over"} /\ (At' = "worker" => Found' = Found)
    BY <1>6 DEF WorkerKind, Goto, End, At, Found, IssueTypeOK, Procs
  <2>3. tree' = tree
    BY <1>6, <2>1, TreeKept DEF Gate, RunHarness, At
  <2> QED BY <1>0, <2>1, <2>2, <2>3 DEF Word, Before, Shown, DispatchNeedsBug, Reproduced
<1>7. CASE RunHarness
  <2>1. At = "worker" /\ At' \in {"positive", "finish", "over"}
    BY <1>7 DEF RunHarness, End, At, IssueTypeOK, Procs
  <2>2. start'.tree = tree
        /\ start'.cut = {x[1] : x \in {y \in Found : y[2] = "unfinished"}}
    BY <1>7 DEF RunHarness, Found
  <2>3. ASSUME spec.by_spec, NEW t \in spec.f2p
        PROVE  Shown(t) \/ t \in start'.cut
    <3>1. CASE <<t, "unfinished">> \in Found
      <4>1. <<t, "unfinished">>[1] = t /\ <<t, "unfinished">>[2] = "unfinished"
        OBVIOUS
      <4> QED BY <2>2, <3>1, <4>1
    <3> QED BY <2>1, <2>3, <3>1 DEF Word
  <2>4. DispatchNeedsBug'
    BY <1>0, <2>2, <2>3 DEF DispatchNeedsBug, Reproduced, Shown
  <2> QED BY <2>1, <2>4 DEF Word, Before
<1>8. CASE PositiveVerdict \/ Finish \/ ExportPatch \/ CommitChanges \/ Die("command")
  <2>1. At' \in {"finish", "export", "commit", "over"} /\ start' = start
    BY <1>8 DEF PositiveVerdict, Finish, ExportPatch, CommitChanges, Die, Goto, End, At, runVars,
       IssueTypeOK, Procs
  <2> QED BY <1>0, <2>1 DEF Word, Before, DispatchNeedsBug, Reproduced
<1> QED BY <1>1, <1>2, <1>3, <1>4, <1>5, <1>6, <1>7, <1>8, Actions
    DEF Begins, Quiet, Others, Procs

(* A worker is only given a tree on which the negative gate saw every      *)
(* fail_to_pass test fail, or be cut off (cli.py:718-800, api.py:430-520). *)
THEOREM BugFirst == Spec => []DispatchNeedsBug
<1> DEFINE IInv == IssueTypeOK /\ Ours /\ Calm /\ Word
<1>1. Init => IInv
  <2>1. Init => Ours /\ Calm /\ Word
    BY DEF Init, Ours, Inside, Steps, Calm, Word, At, Found, Before, Gate, DispatchNeedsBug,
       NotStarted, Procs
  <2> QED BY <2>1, TypeInit
<1>2. IInv /\ [Next]_vars => IInv'
  <2>1. IInv /\ UNCHANGED vars => Calm' /\ Word'
    <3>1. UNCHANGED vars => /\ spec' = spec /\ At' = At /\ Found' = Found /\ tree' = tree
                            /\ left' = left /\ start' = start /\ dir' = dir
                            /\ straggler' = straggler
      BY DEF vars, At, Found, tree
    <3>2. IInv /\ UNCHANGED vars => Calm'
      BY <3>1 DEF Calm, Before, Gate
    <3>3. IInv /\ UNCHANGED vars => Word'
      BY <3>1 DEF Word, Before, Shown, DispatchNeedsBug, Reproduced
    <3> QED BY <3>2, <3>3
  <2> QED BY <2>1, OursStep, CalmStep, WordStep, TypeStep
<1>3. IInv => DispatchNeedsBug
  BY DEF Word
<1> QED BY <1>1, <1>2, <1>3, PTL DEF Spec

-----------------------------------------------------------------------------
(* The end of a run.  While the command is past its worker nobody else is  *)
(* in its directory (Ours), so unless a straggler writes, what the positive*)
(* gate saw stays true of the tree (Solved), and what was exported is what *)
(* is committed (Exported).                                                *)
After == {"finish", "export", "commit"}

Solved ==
  /\ exit["command"] # "none" => At = "over"
  /\ spec.by_spec /\ ~straggler =>
       /\ At = "positive" =>
            /\ \A x \in Found : x[2] = "passed" => Holds(x[1])
            /\ \A t \in PositiveTests : t \in left["command"] \/ \E r \in Probes : <<t, r>> \in Found
       /\ At \in After => \A t \in PositiveTests : Holds(t)
  /\ SolvedHoldsContract

Late == {"positive", "finish", "export", "commit"}
HeadKept == committed = {} /\ known = Tracked

Exported ==
  /\ ~HeadKept => dir = "command" /\ At \in Late \cup {"over", "fetch", "env", "exists"}
  /\ At \in Late /\ ~start.git => HeadKept
  /\ At \in Steps \ {"commit"} => patch = {}
  /\ At = "commit" /\ ~straggler /\ ~start.git => patch \in {{}, changes \cap Tracked}
  /\ PatchIsTrackedChange

LEMMA OthersLeaveEnd ==
  ASSUME IssueTypeOK, Others
  PROVE  exit'["command"] = exit["command"] /\ patch' = patch
BY DEF Others, BeginRequest, Begin, VerifyRequest, RequestGate, Straggle, local, runVars,
       CheckAbsent, Clone, Checkout, SetUp, ApplyTestPatch, Probe, Die, Goto, End, IssueTypeOK,
       Procs

(* In the command's clone only the command's own steps change the tree.    *)
LEMMA DirKept ==
  ASSUME IssueTypeOK, Ours, Next, ~straggler, dir = "command", At \notin {"setup", "testpatch"},
         ~RunHarness, ~CommitChanges, ~RemoveWorkspace
  PROVE  UNCHANGED <<changes, committed>>
<1>1. ~SetUp("endpoint") /\ ~ApplyTestPatch("endpoint")
  <2>1. ~Inside("endpoint")
    BY DEF Ours, Procs
  <2> QED BY <2>1 DEF SetUp, ApplyTestPatch, Inside, Steps
<1>2. ~SetUp("command") /\ ~ApplyTestPatch("command") /\ ~Straggle
  BY DEF SetUp, ApplyTestPatch, Straggle, At
<1> QED BY <1>1, <1>2, Actions
    DEF Begins, BeginCommand, BeginRequest, Begin, Quiet, Fetch, VerifyCommand, VerifyRequest,
        WorkerKind, Finish, CommandGate, RequestGate, PositiveVerdict, ExportPatch, CheckAbsent,
        Clone, Checkout, Probe, Die, dirVars, Procs

(* The endpoint's steps, and a straggler's, leave what is said of the      *)
(* command's tree.                                                         *)
LEMMA OthersKeep ==
  ASSUME IssueTypeOK, Ours, Next, Others
  PROVE  /\ straggler' = straggler /\ dir' \in {dir, "endpoint"}
         /\ dir = "command" => dir' = "command"
         /\ ~straggler /\ dir = "command" => UNCHANGED <<changes, committed>>
<1>1. straggler' = straggler /\ dir' \in {dir, "endpoint"} /\ (dir' = dir \/ dir = "absent")
  BY DEF Others, BeginRequest, Begin, VerifyRequest, RequestGate, dirVars, Straggle,
     CheckAbsent, Clone, Checkout, SetUp, ApplyTestPatch, Probe, Die
<1>2. ASSUME ~straggler, dir = "command"
      PROVE  UNCHANGED <<changes, committed>>
  <2>1. ~Inside("endpoint")
    BY <1>2 DEF Ours, Procs
  <2> QED BY <1>2, <2>1
      DEF Others, BeginRequest, Begin, VerifyRequest, RequestGate, dirVars, Straggle,
          CheckAbsent, Clone, Checkout, SetUp, ApplyTestPatch, Probe, Die, Inside, Steps
<1> QED BY <1>1, <1>2

(* The command on its way to the worker: it goes on, or ends unsolved.     *)
Early ==
  LET p == "command"
  IN  Fetch \/ VerifyCommand \/ CommandGate \/ WorkerKind
        \/ CheckAbsent(p) \/ Clone(p) \/ Checkout(p) \/ SetUp(p) \/ ApplyTestPatch(p)

LEMMA EarlyMoves ==
  ASSUME IssueTypeOK, Early
  PROVE  /\ At \in Before \cup {"negative", "kind"} /\ patch' = patch /\ straggler' = straggler
         /\ \/ At' \in Before \cup Gate /\ exit'["command"] = exit["command"]
            \/ At' = "over" /\ exit'["command"] \notin {"none", "solved"}
<1>1. At \in Before \cup {"negative", "kind"} /\ patch' = patch /\ straggler' = straggler
  BY DEF Early, Fetch, VerifyCommand, CommandGate, WorkerKind, CheckAbsent, Clone, Checkout, SetUp,
     ApplyTestPatch, At, Before, runVars, dirVars
<1>2. \/ \E step \in Before \cup Gate : Goto("command", step)
      \/ \E how \in Ends \ {"none", "solved"} : End("command", how)
      \/ pc' = pc /\ exit' = exit
  BY DEF Early, Fetch, VerifyCommand, CommandGate, WorkerKind, CheckAbsent, Clone, Checkout, SetUp,
     ApplyTestPatch, Before, Gate, Ends
<1>3. ASSUME NEW step \in Before \cup Gate, Goto("command", step)
      PROVE  At' \in Before \cup Gate /\ exit'["command"] = exit["command"]
  BY <1>3 DEF Goto, At, IssueTypeOK, Procs
<1>4. ASSUME NEW how \in Ends \ {"none", "solved"}, End("command", how)
      PROVE  At' = "over" /\ exit'["command"] \notin {"none", "solved"}
  BY <1>4 DEF End, At, IssueTypeOK, Procs
<1> QED BY <1>1, <1>2, <1>3, <1>4 DEF At, Gate

LEMMA SolvedStep ==
  ASSUME IssueTypeOK, Ours, Solved, Next
  PROVE  Solved'
<1>0. spec' = spec /\ PositiveTests' = PositiveTests
  BY SpecKept DEF PositiveTests
<1>1. CASE Others
  <2>1. Mine /\ exit'["command"] = exit["command"]
    BY <1>1, OthersLeave, OthersLeaveEnd
  <2>2. CASE straggler \/ dir # "command"
    <3>1. straggler' \/ dir' # "command"
      BY <1>1, <2>2, OthersKeep
    <3>2. At \in {"positive"} \cup After => dir = "command"
      BY DEF Ours, Inside, Steps, At, After, Procs
    <3> QED BY <1>0, <1>1, <2>1, <2>2, <3>1, <3>2, OthersKeep
        DEF Solved, Mine, SolvedHoldsContract
  <2>3. CASE ~straggler /\ dir = "command"
    <3>1. tree' = tree /\ straggler' = straggler /\ dir' = dir
      BY <1>1, <2>3, OthersKeep DEF tree
    <3> QED BY <1>0, <2>1, <3>1 DEF Solved, Mine, SolvedHoldsContract, PositiveTests, Holds
  <2> QED BY <2>2, <2>3
<1>2. CASE RemoveWorkspace
  <2>1. At \in {"idle", "over"} /\ At' = At /\ exit' = exit /\ dir' = "absent"
    BY <1>2 DEF RemoveWorkspace, local, At, Procs
  <2> QED BY <2>1 DEF Solved, SolvedHoldsContract, After
<1>3. CASE BeginCommand
  <2>1. At' \in {"fetch", "env"} /\ exit'["command"] = "none"
    BY <1>3 DEF BeginCommand, Begin, At, IssueTypeOK, Procs
  <2> QED BY <2>1 DEF Solved, SolvedHoldsContract, After
<1>4. CASE Early
  BY <1>4, EarlyMoves DEF Solved, SolvedHoldsContract, After, Before, Gate
<1>5. CASE Probe("command")
  <2>1. UNCHANGED <<dir, tree, straggler>> /\ At \in {"negative", "positive"}
    BY <1>5 DEF Probe, dirVars, tree, At
  <2>2. CASE End("command", "crash")
    BY <2>2 DEF End, At, Solved, SolvedHoldsContract, After, IssueTypeOK, Procs
  <2>3. CASE ~End("command", "crash")
    <3>1. PICK t \in left["command"], r \in Probes :
            /\ r \in Seen(t)
            /\ seen' = [seen EXCEPT !["command"] = @ \cup {<<t, r>>}]
            /\ left' = [left EXCEPT !["command"] = @ \ {t}]
            /\ pc' = pc /\ exit' = exit
      BY <1>5, <2>3 DEF Probe, Seen, Verdict, Probes
    <3>2. Found' = Found \cup {<<t, r>>} /\ left'["command"] = left["command"] \ {t} /\ At' = At
      BY <3>1 DEF Found, At, IssueTypeOK, Procs
    <3>3. r = "passed" => Holds(t)
      BY <3>1 DEF Seen, Verdict, Holds
    <3>4. exit'["command"] = "none"
      BY <2>1, <3>1 DEF Solved
    <3>5. ASSUME spec.by_spec, ~straggler, At = "positive"
          PROVE  /\ \A x \in Found' : x[2] = "passed" => Holds(x[1])
                 /\ \A u \in PositiveTests :
                      u \in left'["command"] \/ \E q \in Probes : <<u, q>> \in Found'
      <4>1. \A x \in Found' : x[2] = "passed" => Holds(x[1])
        BY <3>2, <3>3, <3>5 DEF Solved
      <4>2. \A u \in PositiveTests :
              u \in left'["command"] \/ \E q \in Probes : <<u, q>> \in Found'
        BY <3>2, <3>5 DEF Solved
      <4> QED BY <4>1, <4>2
    <3> QED BY <1>0, <2>1, <3>2, <3>4, <3>5 DEF Solved, SolvedHoldsContract, After, Holds
  <2> QED BY <2>2, <2>3
<1>6. CASE RunHarness
  <2>1. CASE End("command", "crash")
    BY <2>1 DEF End, At, Solved, SolvedHoldsContract, After, IssueTypeOK, Procs
  <2>2. CASE ~End("command", "crash")
    <3>1. /\ At' = (IF spec.by_spec THEN "positive" ELSE "finish")
          /\ Found' = {} /\ left'["command"] = PositiveTests /\ exit' = exit /\ At = "worker"
      BY <1>6, <2>2 DEF RunHarness, At, Found, IssueTypeOK, Procs
    <3> QED BY <1>0, <3>1 DEF Solved, SolvedHoldsContract, After
  <2> QED BY <2>1, <2>2
<1>7. CASE PositiveVerdict
  <2>1. At = "positive" /\ left["command"] = {} /\ UNCHANGED <<dir, tree, straggler>>
    BY <1>7 DEF PositiveVerdict, At, dirVars, tree
  <2>2. CASE \A x \in Found : x[2] = "passed"
    <3>1. At' = "finish" /\ exit' = exit
      BY <1>7, <2>2 DEF PositiveVerdict, Goto, At, Found, IssueTypeOK, Procs
    <3>2. ASSUME spec.by_spec, ~straggler, NEW t \in PositiveTests PROVE Holds(t)
      <4>1. PICK r \in Probes : <<t, r>> \in Found
        BY <2>1, <3>2 DEF Solved
      <4>2. r = "passed"
        BY <2>2, <4>1
      <4> QED BY <2>1, <3>2, <4>1, <4>2 DEF Solved
    <3> QED BY <1>0, <2>1, <3>1, <3>2 DEF Solved, SolvedHoldsContract, After, Holds
  <2>3. CASE ~\A x \in Found : x[2] = "passed"
    BY <1>7, <2>3 DEF PositiveVerdict, End, At, Found, Solved, SolvedHoldsContract, After,
       IssueTypeOK, Procs
  <2> QED BY <2>2, <2>3
<1>8. CASE Finish \/ ExportPatch \/ CommitChanges
  <2>1. At \in After /\ UNCHANGED <<tree, dir, straggler>>
    BY <1>8 DEF Finish, ExportPatch, CommitChanges, At, After, dirVars, tree
  <2>2. \/ At' \in After /\ exit' = exit
        \/ At' = "over"
    BY <1>8 DEF Finish, ExportPatch, CommitChanges, Goto, End, At, After, IssueTypeOK, Procs
  <2>3. exit["command"] = "none"
    BY <2>1 DEF Solved, After
  <2>4. spec.by_spec /\ ~straggler => \A t \in PositiveTests : Holds(t)'
    BY <2>1 DEF Solved, Holds
  <2> QED BY <1>0, <2>1, <2>2, <2>3, <2>4 DEF Solved, SolvedHoldsContract, PositiveTests, After
<1>9. CASE Die("command")
  BY <1>9 DEF Die, End, At, Solved, SolvedHoldsContract, After, IssueTypeOK, Procs
<1> QED BY <1>1, <1>2, <1>3, <1>4, <1>5, <1>6, <1>7, <1>8, <1>9, Actions
    DEF Begins, Quiet, Others, Early, Procs

LEMMA ExportedStep ==
  ASSUME IssueTypeOK, Ours, Solved, Exported, Next
  PROVE  Exported'
<1>1. CASE Others
  <2>1. At' = At /\ exit'["command"] = exit["command"] /\ patch' = patch /\ start' = start
    BY <1>1, OthersLeave, OthersLeaveEnd DEF Mine
  <2>2. committed' = committed /\ known' = known
    BY <1>1 DEF Others, BeginRequest, Begin, VerifyRequest, RequestGate, dirVars, Straggle,
       CheckAbsent, Clone, Checkout, SetUp, ApplyTestPatch, Probe, Die
  <2>3. straggler' = straggler /\ dir' \in {dir, "endpoint"}
        /\ (dir = "command" => dir' = "command")
        /\ (~straggler /\ dir = "command" => UNCHANGED <<changes, committed>>)
    BY <1>1, OthersKeep
  <2>4. At = "commit" => dir = "command"
    BY DEF Ours, Inside, Steps, At, Procs
  <2>5. At' = "commit" /\ ~straggler' /\ ~start'.git => patch' \in {{}, changes' \cap Tracked}
    BY <2>1, <2>3, <2>4 DEF Exported
  <2>6. PatchIsTrackedChange'
    BY <2>1, <2>3 DEF Exported, PatchIsTrackedChange
  <2> QED BY <2>1, <2>2, <2>3, <2>5, <2>6 DEF Exported, HeadKept
<1>2. CASE RemoveWorkspace
  <2>1. /\ At \in {"idle", "over"} /\ At' = At /\ dir' = "absent"
        /\ committed' = {} /\ known' = Tracked /\ patch' = patch
    BY <1>2 DEF RemoveWorkspace, local, runVars, At, Procs
  <2> QED BY <2>1 DEF Exported, HeadKept, PatchIsTrackedChange, Steps, Late
<1>3. CASE BeginCommand
  <2>1. At' \in {"fetch", "env"} /\ exit'["command"] = "none" /\ patch' = {}
        /\ At \in {"idle", "over"} /\ UNCHANGED <<dir, committed, known>>
    BY <1>3 DEF BeginCommand, Begin, At, dirVars, IssueTypeOK, Procs
  <2> QED BY <2>1 DEF Exported, HeadKept, PatchIsTrackedChange, Late
<1>4. CASE Early
  <2>1. /\ At \in Before \cup {"negative", "kind"} /\ patch' = patch /\ straggler' = straggler
        /\ \/ At' \in Before \cup Gate /\ exit'["command"] = exit["command"]
           \/ At' = "over" /\ exit'["command"] \notin {"none", "solved"}
    BY <1>4, EarlyMoves
  <2>2. patch = {} /\ exit["command"] = "none"
    BY <2>1 DEF Exported, Solved, Before, Steps
  <2>3. committed' = committed /\ known' = known /\ dir' \in {dir, "command"}
    BY <1>4 DEF Early, Fetch, VerifyCommand, CommandGate, WorkerKind, CheckAbsent, Clone, Checkout,
       SetUp, ApplyTestPatch, dirVars
  <2>4. ~HeadKept => At' \in {"over", "fetch", "env", "exists"} /\ dir = "command"
    <3>1. ~HeadKept => At \in {"fetch", "env", "exists"} /\ dir = "command"
      BY <2>1 DEF Exported, Before, Late
    <3>2. At \in {"fetch", "env", "exists"} =>
            Fetch \/ VerifyCommand \/ CheckAbsent("command")
      BY <1>4 DEF Early, CommandGate, WorkerKind, Clone, Checkout, SetUp, ApplyTestPatch, At
    <3>3. Fetch \/ VerifyCommand \/ (CheckAbsent("command") /\ dir = "command") =>
            At' \in {"over", "exists"}
      BY DEF Fetch, VerifyCommand, CheckAbsent, Goto, End, At, IssueTypeOK, Procs
    <3> QED BY <3>1, <3>2, <3>3
  <2>5. At' \notin Late
    BY <2>1 DEF Before, Gate, Late
  <2> QED BY <2>1, <2>2, <2>3, <2>4, <2>5
      DEF Exported, HeadKept, PatchIsTrackedChange, Before, Gate, Steps, Late
<1>5. CASE Probe("command")
  <2>1. UNCHANGED <<dir, changes, committed, known, straggler, patch, start>>
        /\ At \in {"negative", "positive"}
    BY <1>5 DEF Probe, dirVars, runVars, At
  <2>2. At' \in {At, "over"}
    BY <1>5 DEF Probe, End, At, IssueTypeOK, Procs
  <2>3. patch = {}
    BY <2>1 DEF Exported, Steps
  <2> QED BY <2>1, <2>2, <2>3 DEF Exported, HeadKept, PatchIsTrackedChange, Late
<1>6. CASE RunHarness
  <2>1. UNCHANGED <<dir, patch>> /\ At = "worker" /\ At' \in {"positive", "finish", "over"}
    BY <1>6 DEF RunHarness, End, At, IssueTypeOK, Procs
  <2>2. patch = {} /\ dir = "command"
    BY <2>1 DEF Exported, Ours, Inside, Steps, At, Procs
  <2>3. ~start'.git => HeadKept'
    <3>1. PICK w \in WorkerGit :
            /\ committed' = w.committed /\ known' = w.known
            /\ start' = [given |-> TRUE, tree |-> tree,
                         cut |-> {x[1] : x \in {y \in seen["command"] : y[2] = "unfinished"}},
                         git |-> w # [committed |-> {}, known |-> Tracked]]
      BY <1>6 DEF RunHarness
    <3>2. w # [committed |-> {}, known |-> Tracked] => start'.git
      BY <3>1
    <3>3. w = [committed |-> {}, known |-> Tracked] => w.committed = {} /\ w.known = Tracked
      OBVIOUS
    <3> QED BY <3>1, <3>2, <3>3 DEF HeadKept
  <2> QED BY <2>1, <2>2, <2>3 DEF Exported, PatchIsTrackedChange, Late
<1>6a. CASE PositiveVerdict \/ Finish
  <2>1. UNCHANGED <<dir, committed, known, patch, start>> /\ At \in {"positive", "finish"}
    BY <1>6a DEF PositiveVerdict, Finish, dirVars, runVars, At
  <2>2. At' \in {"finish", "export", "over"}
    BY <1>6a DEF PositiveVerdict, Finish, Goto, End, At, IssueTypeOK, Procs
  <2>3. patch = {}
    BY <2>1 DEF Exported, Steps
  <2> QED BY <2>1, <2>2, <2>3 DEF Exported, HeadKept, PatchIsTrackedChange, Late
<1>7. CASE ExportPatch
  <2>1. UNCHANGED <<dir, changes, committed, known, straggler, start>> /\ At = "export"
    BY <1>7 DEF ExportPatch, dirVars, At
  <2>2. \/ At' = "commit" /\ exit' = exit /\ patch' \in {changes \cap known, {}}
        \/ At' = "over" /\ exit'["command"] = "crash" /\ patch' = patch
    BY <1>7 DEF ExportPatch, Goto, End, At, IssueTypeOK, Procs
  <2>3. patch = {} /\ exit["command"] = "none"
    BY <2>1 DEF Exported, Solved, Steps
  <2> QED BY <2>1, <2>2, <2>3 DEF Exported, HeadKept, PatchIsTrackedChange, Steps, Late
<1>8. CASE CommitChanges
  <2>1. At = "commit" /\ At' = "over" /\ UNCHANGED <<dir, straggler, patch, start>>
    BY <1>8 DEF CommitChanges, End, At, runVars, IssueTypeOK, Procs
  <2>2. dir = "command" /\ (~start.git => committed = {})
    BY <2>1 DEF Exported, HeadKept, Ours, Inside, Steps, At, Procs, Late
  <2>3. \/ committed' = tree /\ changes' = {}
        \/ UNCHANGED <<committed, changes>>
    BY <1>8 DEF CommitChanges
  <2>4. PatchIsTrackedChange'
    BY <2>1, <2>2, <2>3 DEF Exported, PatchIsTrackedChange, tree
  <2> QED BY <2>1, <2>2, <2>4 DEF Exported, Steps, Late
<1>9. CASE Die("command")
  <2>1. At' = "over" /\ exit'["command"] = "died" /\ UNCHANGED <<dir, committed, known>>
    BY <1>9 DEF Die, End, At, dirVars, IssueTypeOK, Procs
  <2>2. ~HeadKept => dir = "command"
    BY DEF Exported
  <2> QED BY <2>1, <2>2 DEF Exported, HeadKept, PatchIsTrackedChange, Steps, Late
<1> QED BY <1>1, <1>2, <1>3, <1>4, <1>5, <1>6, <1>6a, <1>7, <1>8, <1>9, Actions
    DEF Begins, Quiet, Others, Early, Procs

LEMMA EndInit == Init => Solved /\ Exported
  BY DEF Init, Solved, Exported, HeadKept, Late, SolvedHoldsContract, PatchIsTrackedChange, At,
         After, Steps, Procs

LEMMA EndStep ==
  ASSUME IssueTypeOK, Ours, Solved, Exported, [Next]_vars
  PROVE  Solved' /\ Exported'
<1>1. CASE Next
  BY <1>1, SolvedStep, ExportedStep
<1>2. CASE UNCHANGED vars
  <2>1. /\ spec' = spec /\ At' = At /\ Found' = Found /\ tree' = tree /\ left' = left
        /\ dir' = dir /\ straggler' = straggler /\ exit' = exit /\ changes' = changes
        /\ committed' = committed /\ known' = known /\ patch' = patch /\ start' = start
    BY <1>2 DEF vars, At, Found, tree
  <2>2. Solved'
    BY <2>1 DEF Solved, SolvedHoldsContract, PositiveTests, Holds, After
  <2>3. Exported'
    BY <2>1 DEF Exported, HeadKept, PatchIsTrackedChange
  <2> QED BY <2>2, <2>3
<1> QED BY <1>1, <1>2

(* A spec run that ends well leaves, in its own clone, a tree on which the *)
(* whole contract holds, whatever else was started meanwhile: no step of   *)
(* another start, of the export or of the commit comes between the         *)
(* positive gate and the end (cli.py issue solve, task_spec_gate.py).      *)
THEOREM ContractHolds == Spec => []SolvedHoldsContract
<1> DEFINE IInv == IssueTypeOK /\ Ours /\ Solved /\ Exported
<1>1. Init => IInv
  BY TypeInit, EndInit DEF Init, Ours, Inside, Steps, Procs
<1>2. IInv /\ [Next]_vars => IInv'
  BY TypeStep, OursStep, EndStep
<1>3. IInv => SolvedHoldsContract
  BY DEF Solved
<1> QED BY <1>1, <1>2, <1>3, PTL DEF Spec

(* For a worker that left git alone in its clone, the patch that is        *)
(* exported is the tracked part of the commit, and the commit all of the   *)
(* change, once both were written (issues.py, export_patch and             *)
(* commit_workspace_changes); changed_files of the run may say anything.   *)
THEOREM PatchHolds == Spec => []PatchIsTrackedChange
<1> DEFINE IInv == IssueTypeOK /\ Ours /\ Solved /\ Exported
<1>1. Init => IInv
  BY TypeInit, EndInit DEF Init, Ours, Inside, Steps, Procs
<1>2. IInv /\ [Next]_vars => IInv'
  BY TypeStep, OursStep, EndStep
<1>3. IInv => PatchIsTrackedChange
  BY DEF Exported
<1> QED BY <1>1, <1>2, <1>3, PTL DEF Spec
=============================================================================
