----------------------------- MODULE IssueSolve -----------------------------
(***************************************************************************)
(* `agentops issue solve` (cli.py) and the console's pre-dispatch endpoint *)
(* (api.py) share one workspace directory, named after the issue or spec:  *)
(* both clone into it, prepare it and run the negative contract gate;      *)
(* the command goes on to the worker, the positive gate, the patch and the *)
(* commit.  run_harness is one step here (GovernedRun says what it is).    *)
(*                                                                         *)
(* A tree is the set of files that differ from the base commit, and what   *)
(* a test does is a function of the tree.  Limits: a child dies with its   *)
(* command; the operator removes the directory only when nobody is in it;  *)
(* a file that a worker commits and then changes again is not back at its  *)
(* base content; what a worker leaves running edits, and runs no git.      *)
(***************************************************************************)
EXTENDS Naturals, FiniteSets

CONSTANTS
    Files,       \* paths that a patch, a set-up command or a worker changes
    Tracked,     \* those the base commit has
    TestFiles,   \* what the spec's test_patch changes
    SetupFiles,  \* what the set-up commands may leave behind
    Tests,       \* the contract's test ids
    Runnable,    \* [Tests -> trees on which pytest can collect the test]
    Passing,     \* [Tests -> trees on which the test passes]
    Unsafe,      \* test ids that validate_safe_command refuses
    Specs,       \* the contracts that are tried
    WorkerGit,   \* bound: what workers may make of HEAD and the index of their clone
    MaxStarts    \* bound: starts of the command and of the endpoint together

(* What HEAD and the index may have when HEAD differs from the base commit in c:
   a base file that c deleted may be gone, any other file may be staged. *)
Knowable(c, k) == (Tracked \ c) \cup (c \ Tracked) \subseteq k

ASSUME IssueAssumption ==
    /\ Tracked \subseteq Files /\ TestFiles \subseteq Files /\ SetupFiles \subseteq Files
    /\ Runnable \in [Tests -> SUBSET SUBSET Files]
    /\ Passing \in [Tests -> SUBSET SUBSET Files]
    /\ Unsafe \subseteq Tests
    /\ WorkerGit \subseteq [committed: SUBSET Files, known: SUBSET Files]
    /\ [committed |-> {}, known |-> Tracked] \in WorkerGit
    /\ \A w \in WorkerGit : Knowable(w.committed, w.known)
    /\ MaxStarts \in Nat

(* SweTaskSpec: base_commit is pinned and fail_to_pass is never empty.
   by_spec is FALSE for a GitHub issue, which has no contract. *)
Contract == [by_spec: BOOLEAN, pinned: BOOLEAN, setup: 0..2, patched: BOOLEAN,
             f2p: SUBSET Tests, p2p: SUBSET Tests]

ASSUME SpecsAssumption ==
    Specs \subseteq {s \in Contract : s.by_spec <=> s.f2p # {}}

VARIABLES
    spec,       \* the contract of this behaviour
    pc,         \* where the command and the endpoint are
    todo,       \* set-up commands still to run
    left,       \* tests the current gate has still to probe
    seen,       \* what the probes of the current gate saw
    exit,       \* how the last start ended
    starts,     \* starts so far, of both
    dir,        \* who cloned the workspace directory; "absent" if there is none
    changes,    \* the files of the directory that differ from its HEAD
    committed,  \* the files its HEAD has otherwise than the base commit
    known,      \* the files HEAD or the index has: git diff HEAD shows no others
    straggler,  \* a process of a timed out worker still writes
    record,     \* what RunStorage serves: the status, and changed_files # []
    patch,      \* the files in the exported patch
    start       \* history: the tree the worker was given, the tests whose probe
                \* before it was cut off, and whether it used git on the clone

vars == <<spec, pc, todo, left, seen, exit, starts, dir, changes, committed,
          known, straggler, record, patch, start>>
local == <<pc, todo, left, seen, exit, starts>>
dirVars == <<dir, changes, committed, known, straggler>>
runVars == <<record, patch, start>>
NoRecord == [status |-> "none", changed |-> FALSE]
NotStarted == [given |-> FALSE, tree |-> {}, cut |-> {}, git |-> FALSE]

Procs == {"command", "endpoint"}
Steps == {"fetch", "env", "exists", "clone", "checkout", "setup", "testpatch", "negative",
          "kind", "worker", "positive", "finish", "export", "commit"}
Ends == {"crash", "env", "gate", "usage", "contract", "solved", "exists", "died",
         "open", "validated"}
Probes == {"passed", "failed", "unable", "unfinished"}

tree == committed \cup changes
Inside(p) == pc[p] \in Steps \ {"fetch", "env", "exists", "clone"}

(* What a probe of t sees: the test's own verdict; or `unable`: collection
   fails, pytest is missing, the interpreter does not start; or `unfinished`:
   its timeout (TestRunner's exit 124) or a signal. *)
VerdictMissing(t) ==
    IF tree \notin Runnable[t] THEN "missing"
    ELSE IF tree \in Passing[t] THEN "passed" ELSE "failed"
Verdict(t) ==
    IF tree \notin Runnable[t] THEN "unable"
    ELSE IF tree \in Passing[t] THEN "passed" ELSE "failed"
Seen(t) == {Verdict(t), "unable", "unfinished"}

(* Exits 2, 4 and 5, a missing pytest and a failed spawn block the gate;
   every other exit but 0 is taken as a failing test, 124 too. *)
ProvesUnlessPassed(r) == r # "passed"
ProvesBug(r) == r \in {"failed", "unfinished"}

-----------------------------------------------------------------------------
IssueTypeOK ==
    /\ spec \in Specs
    /\ pc \in [Procs -> Steps \cup {"idle", "over"}]
    /\ todo \in [Procs -> 0..2]
    /\ left \in [Procs -> SUBSET Tests]
    /\ seen \in [Procs -> SUBSET (Tests \X Probes)]
    /\ exit \in [Procs -> Ends \cup {"none"}]
    /\ starts \in 0..MaxStarts
    /\ dir \in Procs \cup {"absent"}
    /\ changes \subseteq Files /\ committed \subseteq Files /\ known \subseteq Files
    /\ straggler \in BOOLEAN
    /\ record \in [status: {"none", "completed", "failed", "blocked"}, changed: BOOLEAN]
    /\ patch \subseteq Files
    /\ start \in [given: BOOLEAN, tree: SUBSET Files, cut: SUBSET Tests, git: BOOLEAN]

Init ==
    /\ spec \in Specs
    /\ pc = [p \in Procs |-> "idle"]
    /\ todo = [p \in Procs |-> 0]
    /\ left = [p \in Procs |-> {}]
    /\ seen = [p \in Procs |-> {}]
    /\ exit = [p \in Procs |-> "none"]
    /\ starts = 0
    /\ dir = "absent" /\ changes = {} /\ committed = {} /\ known = Tracked /\ straggler = FALSE
    /\ record = NoRecord /\ patch = {} /\ start = NotStarted

(* A step of p to another place, and the end of p. *)
Goto(p, step) ==
    /\ pc' = [pc EXCEPT ![p] = step]
    /\ UNCHANGED <<spec, todo, left, seen, exit, starts>>
End(p, how) ==
    /\ pc' = [pc EXCEPT ![p] = "over"]
    /\ exit' = [exit EXCEPT ![p] = how]
    /\ todo' = [todo EXCEPT ![p] = 0]
    /\ left' = [left EXCEPT ![p] = {}]
    /\ seen' = [seen EXCEPT ![p] = {}]
    /\ UNCHANGED <<spec, starts>>

-----------------------------------------------------------------------------
(* A start is a new set of gates; what ended before it is forgotten. *)
Begin(p, step) ==
    /\ pc[p] \in {"idle", "over"} /\ starts < MaxStarts
    /\ pc' = [pc EXCEPT ![p] = step]
    /\ todo' = [todo EXCEPT ![p] = spec.setup]
    /\ left' = [left EXCEPT ![p] = spec.f2p]
    /\ seen' = [seen EXCEPT ![p] = {}]
    /\ exit' = [exit EXCEPT ![p] = "none"]
    /\ starts' = starts + 1
    /\ UNCHANGED <<spec, dirVars>>

(* A new command is a new run: no record, no patch. *)
BeginCommand ==
    /\ Begin("command", IF spec.by_spec THEN "env" ELSE "fetch")
    /\ record' = NoRecord /\ patch' = {} /\ start' = NotStarted

(* A request can only pre-dispatch a spec. *)
BeginRequest == spec.by_spec /\ Begin("endpoint", "env") /\ UNCHANGED runVars

(* gh issue view; only the comments may fail without failing the command. *)
Fetch ==
    /\ pc["command"] = "fetch"
    /\ Goto("command", "exists") \/ End("command", "crash")
    /\ UNCHANGED <<dirVars, runVars>>

(* A pinned image needs the docker workspace and a digest that resolves and is
   equal.  A spec without one is a recorded gap, and goes on. *)
Identities(docker) ==
    IF ~spec.pinned THEN {TRUE} ELSE IF docker THEN BOOLEAN ELSE {FALSE}

VerifyCommand ==
    /\ pc["command"] = "env"
    /\ \E docker \in BOOLEAN : \E ok \in Identities(docker) :
          IF ok THEN Goto("command", "exists") ELSE End("command", "env")
    /\ UNCHANGED <<dirVars, runVars>>

(* The endpoint gates on the host; run_gate is the request's. *)
VerifyRequest ==
    /\ pc["endpoint"] = "env"
    /\ \E ok \in Identities(FALSE), run_gate \in BOOLEAN :
          IF ~ok THEN End("endpoint", "env")
          ELSE IF run_gate THEN Goto("endpoint", "exists") ELSE End("endpoint", "validated")
    /\ UNCHANGED <<dirVars, runVars>>

(* repo_path.exists() and the clone are two steps; a clone into a directory
   that is there fails too.  A clone that fails removes what it made, one
   that is killed at its timeout does not. *)
CheckAbsent(p) ==
    /\ pc[p] = "exists"
    /\ IF dir = "absent" THEN Goto(p, "clone") ELSE End(p, "exists")
    /\ UNCHANGED <<dirVars, runVars>>

CloneAnyway(p) ==
    /\ pc[p] = "clone" /\ dir' = p /\ Goto(p, "checkout")
    /\ UNCHANGED <<changes, committed, known, straggler, runVars>>
Clone(p) ==
    /\ pc[p] = "clone"
    /\ \/ dir = "absent" /\ dir' = p /\ (Goto(p, "checkout") \/ End(p, "crash"))
       \/ UNCHANGED dir /\ End(p, "crash")
    /\ UNCHANGED <<changes, committed, known, straggler, runVars>>

(* git checkout of the ref and of the new branch; a failure leaves the clone. *)
Checkout(p) ==
    /\ pc[p] = "checkout"
    /\ \/ Goto(p, IF spec.by_spec THEN "setup" ELSE "kind")
       \/ End(p, "crash")
    /\ UNCHANGED <<dirVars, runVars>>

(* run_environment_setup: in order, the first failure ends the start; a
   timeout or a command that cannot be started is an unhandled exception. *)
SetUp(p) ==
    /\ pc[p] = "setup"
    /\ \/ /\ todo[p] = 0 /\ UNCHANGED changes
          /\ Goto(p, IF spec.patched THEN "testpatch" ELSE "negative")
       \/ /\ todo[p] > 0
          /\ \E made \in SUBSET SetupFiles : changes' = changes \cup made
          /\ \/ /\ todo' = [todo EXCEPT ![p] = @ - 1]
                /\ UNCHANGED <<spec, pc, left, seen, exit, starts>>
             \/ \E how \in {"env", "crash"} : End(p, how)
    /\ UNCHANGED <<dir, committed, known, straggler, runVars>>

(* git apply changes all of the patch's files or none. *)
ApplyTestPatch(p) ==
    /\ pc[p] = "testpatch"
    /\ \/ changes' = changes \cup TestFiles /\ Goto(p, "negative")
       \/ UNCHANGED changes /\ \E how \in {"gate", "crash"} : End(p, how)
    /\ UNCHANGED <<dir, committed, known, straggler, runVars>>

(* One probe of a gate.  A test id with a blocked fragment raises ValueError,
   which neither gate catches. *)
Probe(p) ==
    /\ pc[p] \in {"negative", "positive"}
    /\ \E t \in left[p] :
          IF t \in Unsafe THEN End(p, "crash")
          ELSE /\ \E r \in Seen(t) : seen' = [seen EXCEPT ![p] = @ \cup {<<t, r>>}]
               /\ left' = [left EXCEPT ![p] = @ \ {t}]
               /\ UNCHANGED <<spec, pc, todo, exit, starts>>
    /\ UNCHANGED <<dirVars, runVars>>

(* The negative gate is open when every fail_to_pass test seems to fail. *)
GateOpen(p) == left[p] = {} /\ \A x \in seen[p] : ProvesBug(x[2])

CommandGateAgain ==
    /\ pc["command"] = "negative" /\ left["command"] = {}
    /\ Goto("command", IF GateOpen("command") THEN "kind" ELSE "setup")
    /\ UNCHANGED <<dirVars, runVars>>
CommandGate ==
    /\ pc["command"] = "negative" /\ left["command"] = {}
    /\ IF GateOpen("command") THEN Goto("command", "kind") ELSE End("command", "gate")
    /\ UNCHANGED <<dirVars, runVars>>

(* The endpoint ends here and leaves its clone; with the gate open its answer
   has the command to run. *)
RequestGate ==
    /\ pc["endpoint"] = "negative" /\ left["endpoint"] = {}
    /\ End("endpoint", IF GateOpen("endpoint") THEN "open" ELSE "gate")
    /\ UNCHANGED <<dirVars, runVars>>

(* The name of the worker is looked at after the clone and the gate. *)
WorkerKind ==
    /\ pc["command"] = "kind"
    /\ Goto("command", "worker") \/ End("command", "usage")
    /\ UNCHANGED <<dirVars, runVars>>

(* The positive gate probes both halves of the contract. *)
BugTests == spec.f2p
PositiveTests == spec.f2p \cup spec.p2p

(* run_harness with allow_dirty: the tree afterwards is whatever the worker
   and the enforcement made of it, and so are HEAD and the index, for the worker
   may commit and stage in its clone.  changed_files is what the run saw, which is
   not always the tree that is left (an image without git sees nothing).  The run
   may also raise and save nothing.  Without a contract its verdict is the end,
   but for the patch. *)
RunHarness ==
    /\ pc["command"] = "worker"
    /\ changes' \in SUBSET Files /\ straggler' \in BOOLEAN
    /\ \E w \in WorkerGit :
          /\ committed' = w.committed /\ known' = w.known
          /\ start' = [given |-> TRUE, tree |-> tree,
                       cut |-> {x[1] : x \in {y \in seen["command"] : y[2] = "unfinished"}},
                       git |-> w # [committed |-> {}, known |-> Tracked]]
    /\ \/ UNCHANGED record /\ End("command", "crash")
       \/ /\ \E status \in {"completed", "failed", "blocked"}, changed \in BOOLEAN :
                 record' = [status |-> status, changed |-> changed]
          /\ left' = [left EXCEPT !["command"] = PositiveTests]
          /\ seen' = [seen EXCEPT !["command"] = {}]
          /\ pc' = [pc EXCEPT !["command"] = IF spec.by_spec THEN "positive" ELSE "finish"]
          /\ UNCHANGED <<spec, todo, exit, starts>>
    /\ UNCHANGED <<dir, patch>>

(* The positive gate's verdict: one probe that did not pass fails the run,
   and the corrected record is saved again. *)
PositiveVerdict ==
    /\ pc["command"] = "positive" /\ left["command"] = {}
    /\ IF \A x \in seen["command"] : x[2] = "passed"
       THEN UNCHANGED record /\ Goto("command", "finish")
       ELSE record' = [record EXCEPT !.status = "failed"] /\ End("command", "contract")
    /\ UNCHANGED <<dirVars, patch, start>>

(* Only a run that changed files has a patch. *)
Finish ==
    /\ pc["command"] = "finish"
    /\ IF record.changed THEN Goto("command", "export") ELSE End("command", "solved")
    /\ UNCHANGED <<dirVars, runVars>>

(* git diff HEAD: the part of the change that git knows.  Its exit code is not
   read: a diff that fails leaves an empty patch.  A timeout raises. *)
ExportPatch ==
    /\ pc["command"] = "export"
    /\ \/ patch' \in {changes \cap known, {}} /\ Goto("command", "commit")
       \/ UNCHANGED patch /\ End("command", "crash")
    /\ UNCHANGED <<dirVars, record, start>>

(* git add -A and git commit: untracked files too; exit codes are not read.  (What
   git knows afterwards is not read again: a file that the commit deletes counts.) *)
CommitTracked ==
    /\ pc["command"] = "commit"
    /\ committed' = committed \cup (changes \cap known) /\ changes' = changes \ known
    /\ UNCHANGED known
    /\ End("command", "solved")
    /\ UNCHANGED <<dir, straggler, runVars>>
CommitChanges ==
    /\ pc["command"] = "commit"
    /\ \/ committed' = tree /\ changes' = {} /\ known' = known \cup changes
       \/ UNCHANGED <<committed, changes>> /\ known' \in {known, known \cup changes}
    /\ End("command", "solved")
    /\ UNCHANGED <<dir, straggler, runVars>>

-----------------------------------------------------------------------------
(* What is left of a timed out worker writes on, whatever the command does. *)
Straggle ==
    /\ straggler
    /\ \E f \in Files : changes' = changes \cup {f}
    /\ UNCHANGED <<spec, local, dir, committed, known, straggler, runVars>>

(* The process is killed at any point. *)
Die(p) ==
    /\ pc[p] \in Steps
    /\ End(p, "died")
    /\ UNCHANGED <<dirVars, runVars>>

(* The operator removes the directory, as the refusal asks. *)
RemoveWorkspace ==
    /\ dir # "absent" /\ \A p \in Procs : pc[p] \in {"idle", "over"}
    /\ dir' = "absent" /\ changes' = {} /\ committed' = {} /\ known' = Tracked
    /\ straggler' = FALSE
    /\ UNCHANGED <<spec, local, runVars>>

(* Preparation and gate, the same for both; then what each does of its own. *)
Prepare(p) ==
    CheckAbsent(p) \/ Clone(p) \/ Checkout(p) \/ SetUp(p) \/ ApplyTestPatch(p) \/ Probe(p)
Request == VerifyRequest \/ Prepare("endpoint") \/ RequestGate
Command ==
    \/ Fetch \/ VerifyCommand \/ Prepare("command") \/ CommandGate \/ WorkerKind
    \/ RunHarness \/ PositiveVerdict \/ Finish \/ ExportPatch \/ CommitChanges
Next ==
    \/ BeginCommand \/ BeginRequest \/ Command \/ Request
    \/ Straggle \/ RemoveWorkspace \/ \E p \in Procs : Die(p)

(* Every call the code waits for ends or is ended by its timeout. *)
Spec ==
    /\ Init /\ [][Next]_vars
    /\ WF_vars(Command) /\ WF_vars(Request)

-----------------------------------------------------------------------------
(* Two starts never work in one directory: the check of prepare_issue_workspace
   and git's own refusal keep the endpoint and the command apart, whatever
   their steps do in between. *)
OneWorkspace == \A p, q \in Procs : Inside(p) /\ Inside(q) => p = q

(* A worker is only ever given a tree on which no fail_to_pass test passes,
   unless its probe was cut off by a timeout: nothing another start left in the
   directory, and no later step, comes between the gate and the worker. *)
Reproduced(t) == start.tree \notin Runnable[t] \cap Passing[t]
DispatchNeedsBug ==
    spec.by_spec /\ start.given => \A t \in spec.f2p : Reproduced(t) \/ t \in start.cut

(* A spec run that ends well leaves, in its own clone, a tree on which the whole
   contract holds, whatever status the worker's run had: unless something the
   worker left behind still writes. *)
Holds(t) == tree \in Runnable[t] \cap Passing[t]
SolvedHoldsContract ==
    spec.by_spec /\ exit["command"] = "solved" /\ dir = "command" /\ ~straggler =>
        \A t \in spec.f2p \cup spec.p2p : Holds(t)

(* When the worker left git alone in its clone, and the patch was written and the
   commit made, the commit is the whole change and the patch is the tracked part of
   it.  A diff or a commit that fails unread, and a worker that commits or stages
   new files itself, are left out: see SolvedIsDelivered. *)
PatchIsTrackedChange ==
    exit["command"] = "solved" /\ dir = "command" /\ ~straggler /\ ~start.git
        /\ patch # {} /\ committed # {} => changes = {} /\ patch = committed \cap Tracked

(* Every start ends: no gate is run again and no failure is retried. *)
StartEnds == \A p \in Procs : pc[p] \in Steps ~> pc[p] = "over"

(* Refuted.  task_spec_gate.py: a test that cannot run, by a timeout too, is
   inconclusive and blocks. *)
ProvenBugOnly ==
    spec.by_spec /\ start.given => \A t \in spec.f2p : Reproduced(t)

(* Refuted.  api.py: with the gate open the endpoint returns the exact command
   to dispatch; the clone it leaves is what that command refuses. *)
HintWorks ==
    exit["endpoint"] = "open" /\ dir = "endpoint" => exit["command"] # "exists"

(* Refuted.  issues.py: untracked files are part of the change. *)
PatchIsTheChange ==
    exit["command"] = "solved" /\ dir = "command" /\ ~straggler
        /\ patch # {} /\ committed # {} => patch = committed

(* Refuted.  issues.py: commit_workspace_changes commits the worker's changes and
   says when it did.  The exit codes of git are not read, changed_files may have
   missed the change, and what the worker committed itself is in no patch. *)
SolvedIsDelivered ==
    exit["command"] = "solved" /\ dir = "command" /\ ~straggler
        => changes = {} /\ tree \cap Tracked \subseteq patch

(* Refuted.  A spec run stored as completed is one whose contract holds, once
   no command is at work: not when it dies, or raises, before the gate's save. *)
CompletedHoldsContract ==
    /\ spec.by_spec /\ record.status = "completed" /\ pc["command"] = "over"
    /\ dir = "command" /\ ~straggler
    => \A t \in spec.f2p \cup spec.p2p : Holds(t)
=============================================================================
