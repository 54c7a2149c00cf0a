# A verification development for agentops-harness

TLA+ models of the program's own state machines, checked by TLC on small
instances, with theorems that TLAPS checks for every instance. Every definition
is translated from `src/` (the paths below are relative to it); `PROJECT.json`
names the lines each definition stands for, lists the runs, the mutants that show
each property can fail, the hazards, the findings and the theorems.

## 1. Inventory of the system

`agentops` lets a coding worker (a shell command, the Claude, Codex or OpenCode
CLI, or an OpenHands process) edit a repository, reverts what it may not change,
runs validation commands, retries, and records one verdict. Around that sit the
stores and the API that show runs, a benchmark, and a "project control room" that
keeps a roadmap in files and on a GitHub project.

| Component | State it keeps | Operations | Hard behaviour | What makes it correct |
|---|---|---|---|---|
| Governed run (`app/core/graph.py`, `state.py`) | the graph state: attempts, edit result, changed and deleted files, reverts, test results, reports, verdict | `run_harness`, 20 graph nodes, the retry edge | worker processes that outlive their timeout, nodes that raise half way, state of one attempt read in the next, a bound on graph steps | no silent no-op, no completed run without validation of the tree that is left, nothing sensitive survives, the operator's own work survives, the run ends |
| Git helpers (`git_utils.py`) | the working copy: HEAD, index, worktree | status, diff, checkout, apply | a worker that stages, renames, commits | what is called changed is what differs; a revert restores |
| Workspaces (`workspace/`) | a container with a copy or a mount of the repository | prepare, run, read_changes, extract_permitted, cleanup | a container that expires, `docker` calls that time out, a copy and a host that differ | denied files never reach the host; no container is left |
| Worker adapters (`edit_runner.py`, `workers/`) | - (artifact files) | dispatch, map an exit to a status | refused dirty trees, missing programs, timeouts | a refusal is never reported as work |
| Path and command policy (`security.py`, `agents/permission_gate.py`, `risk_guard.py`) | - | classify paths and commands, score risk | what a path means after a rename or a deletion | a secret touched blocks the run |
| Test runner (`test_runner.py`) | - | run the commands | commands that hang, are missing or malformed | passed means every command ran and exited 0 |
| Storage, artifacts, API (`storage.py`, `run_artifacts.py`, `api.py`) | a JSONL log or SQLite table, one directory per run, a cache of interrupted runs | save, get, list, reconcile | unlocked appends, processes that die between two writes, requests that read two sources | a saved verdict is never shown as an older one; no run gets lost |
| Issue solving, task contracts (`issues.py`, `task_spec_gate.py`, `environment_guard.py`, `cli.py`, `api.py`) | a clone named after the issue or contract, a patch, a commit, a record | fetch, clone, set-up, negative gate, run, positive gate, patch, commit; the console's pre-dispatch request | two processes that derive one directory, probes that are cut off, a process that dies between a run's record and the gate's verdict | a worker only gets a tree that shows the bug, one start per directory, a solved contract holds on what was committed |
| GitHub provisioning (`project_control/github.py`) | a GitHub project; a report and an index | discover, plan, apply, reconcile, report | lost answers, refusals, repeated applies, people who edit meanwhile | nothing twice, nothing of people's overwritten, success only when seen |
| Discovery and export (`project_control/github.py`, `models.py`) | cursors and nodes of several connections | one request per page, nested connections after the outer ones | people who work between two pages, cursors that repeat, connections that end at different pages | nothing that lasts is missed, the pieces fit together, every reading ends |
| Snapshots, CodeGraph, reports (`project_control/snapshots.py`, `codegraph.py`, `artifacts.py`, `io.py`) | pairs of files replaced one after the other | write, roll back, validate, name a revision, take a digest | a death between the two replacements, a rollback that fails, a developer who commits between reading and labelling | the pair is of one command; the revision holds what the page shows; a fresh graph is of the source that is there |
| Handoffs (`project_control/handoffs.py`, `core/handoff.py`) | notes created once | create, validate | two sessions at once | one note per session, never overwritten |
| Guards and reports (`agents/*`, `conflict.py`) | - | pure functions of the record | free text | a blocking conflict is never reported as verified |
| Memory, evolution, benchmarks, packs, repository graph, MCP, cockpit, web console | stored runs, files, a browser's state | ranking, parsing, rendering, polling | stale views | see `PROJECT.json` "components" |

How they interact: the CLI, the API and the MCP server call `run_harness`, which
runs the LangGraph workflow in one thread; the workflow calls the workspace, the
worker adapter (which waits for a child process), git, the guards and the test
runner, and at its end saves the record in the storage and then writes the
artifact directory. `issue solve` wraps that call between two gates, and the
positive one may save the record again; the console's pre-dispatch request runs the
negative gate in the same directory. The API reads the storage and the artifact
directories without a lock, at any moment. The control room shares nothing with the
runs but the repository: provisioning and board export read GitHub page by page,
snapshots, graphs and reports are pairs of files written without a lock, handoffs
are read by the snapshots.

## 2. Modules

| Module | Models | Proofs |
|---|---|---|
| `GitTree` | a working copy (HEAD, index, worktree per file), `git status`, enforcement's checkout/unlink, the worker's edits and git commands, `docker cp` extraction | `GitTreeProofs` |
| `HarnessRun` | `run_harness` and the workflow: one action per node (and per early return of the worker node), the worker process, its orphans, the container | `HarnessRunProofs`, `EnforcementProofs` |
| `GovernedRun` | the abstract promise: bounded attempts, each provoked by a repairable failure, one verdict that agrees with the last, or an exception and none | |
| `RunProperties` | the properties of a run, the refinement mapping, the inductive invariant | |
| `MCRun` | instances for TLC | |
| `RunStore`, `MCStore` | the log or table, the artifact directories, runs that may die, the API's two reads and its cache | `RunStoreProofs` |
| `IssueSolve`, `MCIssue` | `issue solve` and the pre-dispatch request on one workspace | `IssueProofs` |
| `Provisioner`, `MCProvisioner` | `github-provision --apply`, repeated, with GitHub, failures and people | `ProvisionerProofs` |
| `Discovery`, `MCDiscovery` | how a provisioning and a board export read GitHub, page by page | `DiscoveryProofs` |
| `ControlRoom`, `MCRoom` | the control room's commands that write to the repository | `RoomProofs` |

### HarnessRun

`pc` is the graph node that runs next. Nodes are sequential in the program, so a
node is one action; what interleaves is the worker (`WorkerStep` while
`run_external_worker_node` waits, `pc = "working"`), a child of a killed worker
(`OrphanEdit`: `subprocess.run` kills only the direct child, the timeout of
`docker exec` only the client) and the container's `sleep 3600`
(`ContainerExpires`). `Extractions` is the set of hosts that `extract_permitted` may
leave: each `docker cp` can fail and is skipped. `run_external_worker_node` is split by its early returns:
`SkipWorker`, `BlockWorker`, `WorkerRaises`, `DispatchWorker`, then `WorkerExit`,
which ends with `extract_permitted` in the sandbox. `EnforceRaises`,
`TestsRaised` and `RecursionError` are the exceptions that leave no record. Nodes
that only compute reports are the steps of `ReportNode`: they count against
LangGraph's limit and change nothing a property reads.

In the sandbox the changes are read without cutting the arrow of a renamed file's
line, so such a line names no path (`UncutStatus`, `RenameLine`).

Contents are tokens: the original bytes of each file, a worker's bytes, the
operator's uncommitted bytes, absent. That is as much as "differs from HEAD",
"restored", "renamed" and "the operator's work" can tell apart. `base`,
`executed`, `everReverted` and `validated` are history the properties read.

Assumed, because the code's behaviour there is outside the model: validation
commands do not edit the tree; ephemeral paths (`is_ephemeral_path`) are left out;
report nodes do not raise; preparing a container is one action, and a failed one
leaves no container.

### RunStore

Each run is a process with a `phase`; a JSONL line is appended in two pieces, so
a reader or a death can fall between them (the operating system serialises the
appends of different processes); a row of the table is one transaction. A request
is two actions: `Ask*` reads the storage, `Answer*` the directories and the cache.
`saved` is history: the last revision whose `save` returned. The worker's summary
is written once, in one step.

### Provisioner

GitHub holds, for each managed object, "absent", "other" or "wanted", so one model
covers option lists, titles, bodies and layouts alike. `Discover` takes a
snapshot, `Kind` is what `plan` decides from it, and `Reuse`, `Mutate`,
`Unsupported`, `Refused` and `Fails` are the branches of the loop of `apply`
(`Fails` loses the request or the answer; `Stop` and `Raise` are its `break`s and
re-raises). `Finish`, `Check` and `Report` are the rest of `apply`; `Recordable` is
what `ArtifactRecord` accepts. `People` edit at any moment between these. One command
runs at a time, a discovery is one step (`Discovery` opens it up), and GitHub reads
its own writes.

### Discovery

`hub` is GitHub: a set of nodes per connection, numbered in the order they were made;
a node's number is its cursor, and a page is the next `PageSize` nodes after a cursor
at the moment of the request. `List` is one turn of `discover_state`'s loop, which asks for a page of
the projects and a page of the issues together; `Follow` is one turn of
`_connection_pages`, `RestOfValues` the rest of an item's values, `Parse`
`_parse_discovered_project`, `Export` one turn of `export_project`. `People` make,
change and remove what is read, between any two requests, and an answer may point to
a cursor that was already used. A refused reading has no result, so what it had read
is forgotten.

Assumed: GitHub lists in the order of creation. Left out: malformed payloads (they
refuse, as `Fail` does), views, the control fields an export requires, values as
anything but the field they belong to, a project deleted during the reading.

### IssueSolve

Two processes, `"command"` and `"endpoint"`, with a step each per call that can
fail: `CheckAbsent` and `Clone` are the check and the clone of
`prepare_issue_workspace`, `SetUp` one set-up command, `Probe` one test of a gate,
`CommandGate`, `RequestGate` and `PositiveVerdict` the verdicts. A tree is the set
of files that differ from the base commit, and `Runnable` and `Passing` say on which
trees a test can be collected and passes, so that "this test shows the bug" is a
statement about the tree and not about the probe, which may also be cut off.
`RunHarness` is a whole governed run, which may leave any tree, any status and any word
on whether files changed, or raise; what a run may do is the matter of `HarnessRun`.
Its worker has the clone, and may commit and stage there: `committed` is what HEAD has
otherwise than the base commit, `known` what HEAD or the index has, which is what
`git diff HEAD` can show, and `WorkerGit` bounds what workers make of the two.
`Straggle` is a child of a timed out
worker, `Die` a kill at any point, `RemoveWorkspace` the operator. `start` is history.

Assumed: a child of a killed command dies with it; the operator removes the
directory only when nobody works in it; a test is deterministic on a tree; a file that
a worker commits and changes again is not back at its base content; what a worker
leaves running edits, and runs no git.

### ControlRoom

Each session is a process that runs one command at a time: `snapshot` and
`board-export` (CURRENT.md, then BOARD.md), `codegraph` (graph.json, then
manifest.json), the report of an applied provisioning (report, then index),
`handoff`. Reading the inputs, naming the revision or taking the digest, writing the
first file, the second, and the two steps of a rollback are actions; each may fail,
and a session may die between any two. `Edit` and `Commit` are the developer.
Contents are versions: path 0 stands for the source, the others for notes, and the
last version of a note is one the loaders refuse. `Revisions` is
`_snapshot_source_revision`, `Digest` `source_tree_digest`. `apart` and `stable` are
history: which pairs a death or a reported failure left apart, and whether anything
moved between a page's inputs and its label.

Assumed: history is linear, a commit takes the whole work tree, one file is replaced
atomically (`os.replace`) but copied back piecemeal by a rollback.

## 3. What is checked

| Run | Instance | Distinct states | Shows |
|---|---|---|---|
| `run_local` | 3 files (a secret, a test, one in a sensitive directory that git may list as one line and that cannot be unlinked), trees with all of them or with the test alone, clean or with the operator's edit of the test, of the secret or of the new directory, every worker kind and bad command, up to 6 attempts, limit 50 | 334 202 | the safety properties of a host run, `RetryAfterRealFailure`, the inductive invariant, refinement of `GovernedRun`, termination |
| `run_git` | 3 files with a collapsible sensitive directory, a worker that also runs `git add`, up to 8 attempts | 2 042 940 | a secret left with other bytes never goes with a completed run |
| `run_sandbox` | 2 files, `edit --sandbox`, a secret that is tracked or new, clean or with the operator's edit, a worker that also runs `git mv`, expiring container, orphans, copies that fail | 909 331 | a sensitive file of the host holds what it held or what was staged, at any moment; control and refinement survive the container |
| `run_store` | 2 runs, both gated, one with a summary, log and table, deaths | 564 724 | a saved verdict is never answered with an older one; no saved and no lost run is missing from a list |
| `provision` | 1 task, 2 fields (one built in), 1 view, 2 edits, 1 failure | 220 336 | nothing twice, success is real, text is kept, the report accounts for every action, repetition converges |
| `issue` | 3 files (tracked, new, of the test patch), 3 tests (one refused as unsafe), 4 contracts, 3 starts, a worker that leaves git alone or commits the tracked file and stages the new one | 555 639 | one start per directory, a worker only after the bug was seen, a solved contract holds, patch and commit agree, every start ends |
| `room` | 2 sessions, 2 commands, at one time never of one pair, 1 note, 2 commits, 2 edits | 543 314 | the two files of a pair are of one command, a named revision holds what the page shows, a fresh graph is of the source |
| `discovery` | pages of 1 node, at most 2 projects, issues, items, 2 fields, 2 events | 375 384 | nothing that lasts is missed, what is handed on is consistent, every reading ends |

Runs that show a disagreement between the code and what it says of itself (each is
a finding, with the line it contradicts): `operator_reverted` (a refused worker
leaves an edit result, so enforcement reverts the operator's own uncommitted
sensitive files), `badge` (the cache of interrupted runs is never cleared),
`success_recorded` (the report of a complete apply needs a record that
`ArtifactRecord` refuses, so success is never said), `ambiguous` (when one of two
connections has a further page the finished one is read again, and its only project
of the name is refused as ambiguous). More of them are in section 5.

Why the bounds are enough. *Files*: enforcement, status and the guards treat every
path alike but for its class, and the instance has one file per class. *Attempts*:
two show everything the retry loop can carry over; six and eight sit on both sides
of the recursion limit of 50 (5 per attempt and 15 around them: six fit, and
`BudgetSuffices` proves the formula). *Runs*: two are the least that interleave
appends and lists; a third only lengthens the log. *Edits and failures* of the
provisioner: one failure at every possible point, so every prefix of an apply is
left behind once, and two edits before, during or after it; every safety property is
proved for any number of tasks, fields, views, edits and failures (section 4).
`Limit = 4` is twice the runs, the longest list the API can compose; `storage_wins`
uses 1 for that reason; what `run_store` checks is proved for any finite set of runs
and any limit. *Starts* of `IssueSolve`: two that overlap and one after them, which
finds what they left; its four safety properties are proved for any number, and for
any files and tests. The contracts differ in what the code branches on: a pinned image, set-up
commands, a test patch, a test that passes at the base, a refused test id, no
contract. *Sessions* of `ControlRoom`: two commands are what one pair can be torn
between, two edits and two commits what can come between inputs and label and be
undone again. Two sessions of one and the same pair are left out (`Overlap`): nothing
in the code keeps them apart, and their files mix at once; for any number of sessions
at different pairs the three properties are proved. *Nodes* of `Discovery`:
pages of one node, so two nodes are two pages and one more, made meanwhile, a third;
`Coherent` and `NothingMissed` are proved for any page size and any number of nodes
and events.

Deadlock is checked except where the system really stops: the provisioner, after
someone files an issue without a task id (every discovery then raises), a reading
of GitHub that is done or refused, the issue commands after their last start, and
the control room after its last command, edit and commit.

Fairness. `HarnessRun`: `WF(HarnessStep)`, nothing of the worker or container;
the node that waits for a worker is ended by its `subprocess` timeout and so is
every test command, which is what the code guarantees. `Provisioner`: the operator
repeats the command, every command ends, and builds the views the report asks for;
`Resumes` further assumes nobody files an issue without a task id, since the code
then refuses for ever. `IssueSolve`: weak fairness of the command's steps and of
the request's, since every call they wait for has a timeout, and none for the
operator, a straggler or a death. `Discovery`: weak fairness of the reader, whose
requests are answered or fail; `Ends` holds whatever GitHub answers, because a used
cursor is refused. `RunStore` and `ControlRoom` have only safety.

## 4. What is proved

Every safety property of a passing run is the statement of a theorem. *Any* below
means for every value of the constants that the named assumption of its module (a
type, or the finiteness of a set) allows.

| Module | Theorem | Statement | For |
|---|---|---|---|
| `HarnessRunProofs` | `TypeCorrect`, `ControlCorrect` | `Spec => []TypeOK`, `Spec => []ControlInv` | any |
| | `DirtyRepoSafe`, `CompletedMeansExecuted` | `DirtyRepoNeverDispatched`, `NoSilentNoOp` | any |
| | `BudgetSuffices` | `WithinStepLimit` | `5 * max(1, max_attempts) + 15 < StepLimit` |
| | `RefinesGovernedRun` | the safety part of `ImplementsGovernedRun` | any |
| `EnforcementProofs` | `EnforcementHolds`, `CompletedRunsAreValidated` | `NothingSensitiveSurvives`, `CompletedIsValidated` | `PlainEdits` |
| | `RaisedRunsLeaveNothing` | `RaisedLeavesNoDenied` | `PlainEdits` and a sufficient step budget |
| | `SecretsBlock` | `SecretChangeBlocks` | `StagedEdits` |
| | `UncommittedWorkSafe` | `UncommittedWorkKept` | `OperatorsWork` |
| | `SandboxHolds` | `DeniedNeverOnHost` | `NamedDirectories` |
| | `RetriesFollowFailures` | `RetryAfterRealFailure` (an action property) | no container that expires |
| `RunStoreProofs` | `TypeCorrect` | `StoreTypeOK` | any |
| | `LatestVerdictServed`, `SavedRunsShown`, `LostRunsShown` | `ServesLatestVerdict`, `SavedRunsListed`, `LostRunsListed` | any |
| | `ReadsRefusedOnlyTorn` | the API fails to read the storage only over a line being written, or after a death with an unsaved revision; never with the table | any |
| `ProvisionerProofs` | `TypeCorrect` | `ProvisionerTypeOK` | any |
| | `NothingTwice`, `EverythingAccountedFor`, `PeoplesTextKept` | `NoDuplicates`, `ReportAccounts`, `ReadTextKept` | any |
| | `SuccessHolds` | `SuccessIsReal` | a roadmap that is not empty |
| `IssueProofs` | `TypeCorrect` | `IssueTypeOK` | any |
| | `Apart`, `BugFirst` | `OneWorkspace`, `DispatchNeedsBug` | any |
| | `ContractHolds`, `PatchHolds` | `SolvedHoldsContract`, `PatchIsTrackedChange` | any |
| `DiscoveryProofs` | `TypeCorrect` | `DiscoveryTypeOK` | any |
| | `OneRoom`, `PagesComplete` | `Coherent`, `NothingMissed` | any |
| `RoomProofs` | `TypeCorrect`, `RevisionHolds` | `RoomTypeOK`, `LabelShowsInputs` | any |
| | `PairsHold`, `GraphHolds` | `PairTogether`, `FreshIsBuilt` | no two sessions run one command (`~Overlap`) |

*The run.* `ControlInv` is the conjunction of `LoopShape` (a further attempt is
under way only after a repairable failure below `max_attempts`, and the loop is
left otherwise), `WorkerShape` (before the first attempt the tree is the
operator's; a run without a process has no result but "blocked"; a host process
started on a tree that allowed it) and `StepsShape` (the step counter as a function
of attempts and node). None of the properties is inductive alone:
`DirtyRepoNeverDispatched` needs that a blocked first attempt is never retried,
`WithinStepLimit` needs the counter, `NoSilentNoOp` needs what a missing edit
result means at every later node. Refinement maps each loop turn to `Attempt`, the
end to `Report`, every exception to `Abort`, everything else to a stutter.

*Enforcement.* What enforcement guarantees depends on what the worker does to git, so
each theorem names what it needs, and section 5 or a run shows what happens without.
`HostWorker`: the worker edits the host and leaves no process behind. `PlainEdits`
adds that it runs no git command, that nothing is staged at the start, and
`NamedDirectories`: a directory that git lists as one line is sensitive by name when a
sensitive file may be in it. Then the sensitive lines of `Status` stand for every
sensitive file that differs and `Reverted` restores them or raises (`GitTreeProofs`), so
`EnforcementInv` and `ValidationInv` hold; `staged_change` violates the first theorem
once the worker may stage, `hidden_secret` without `NamedDirectories`.
`RaisedRunsLeaveNothing` carries `SettledInv`: between two attempts every
sensitive file is the operator's or HEAD's. Nodes raise in that gap only, except in two
ways. One is the recursion error, which may strike between the worker and enforcement:
hence the step budget. The other is enforcement itself, which comes to a new sensitive
directory and cannot unlink it: what it had not gone through stays as the worker left
it. `RaisedLeavesNoDenied` names that case (`EnforcementStuck`) and the proof shows that
there is no other (`DirectoryStays`); without the exemption it is `RaisedLeavesNothing`,
which the code violates (section 5).

`SecretsBlock` lets the worker stage as well. A staged secret survives enforcement, so
`StagedInv` is about the report instead: what the record calls changed is what git says
of the tree that is left, a secret that differs from HEAD is under a line whose name is
secret, and the permission gate sees that line. `Own` excludes renames, since git
status names a moved file by its new path only. `UncommittedWorkSafe` holds with any
git commands, children and expiries: `UntouchedInv` says that until a worker is started enforcement alone edits the tree,
and it goes through what git says of that very tree.

`SandboxHolds` holds of any worker and any failing copies, whatever the operator had
edited or staged: nothing sensitive is copied out and nothing stages on the host, so
the only thing that changes a sensitive file there is enforcement, which takes it from
the index. That change is real: enforcement checks out on the host what the worker
touched in the container, and an uncommitted edit of the operator's is gone
(`SandboxLeavesSecrets`, section 5); so the theorem says "what it held or what was
staged" and not "unchanged". It needs `NamedDirectories`; the proof does not go through
without, and TLC shows that the code needs it: `hidden_secret` in section 5. `RetriesFollowFailures` needs that the
container lives, because `docker exec` into an expired one exits with 1, which reads as
a failed test.

*The storage.* `ServesLatestVerdict` relates what a request is answered with what was
saved when it was made. `Kept` says that a saved revision is in the log, whole;
`Ordered` that later pieces of a run are of no earlier revision, so the newest whole
line is good enough; `Told` says of an open request that
the storage told it no less than was known, unless the limit cut the runs
(`storage_wins`); and by `Stages` no directory has a record before a revision is saved,
so what the directories add is never in the place of what was read. A limit cuts
nothing as long as it is above the number of rows (`LongList`), which is where `Runs`
must be finite. `LinesInv` says that until
a process dies with an unsaved revision the log is pairs of pieces, of which the last
may be half there, with one writer; so a reader that fails has met that piece or a
death. That a torn line then refuses every later read is what the theorem leaves open.

*Provisioning.* `NothingTwice` rests on `CreatesAhead`: what the plan still wants
to create is not on GitHub, because one failed mutation ends the apply.
`EverythingAccountedFor` adds that what an action completed is still there when the
report is written (`Keeps`: nobody takes anything off GitHub but a field value), and
that completed and remaining actions are the plan at every step, not only at the end.
`PeoplesTextKept` is about one text in three places, the issue, the snapshot and the
mutation; `TextInv` says that the snapshot of a running apply holds no text that is
newer than GitHub's and none of an issue that was not there.
`SuccessHolds` rests on `IssuesNeverReused`: an apply without a confirmed mutation
reports success without a rediscovery, and would accept a view whose layout people
changed, since the plan compares views by name. It never happens, because every plan
updates every issue, which is the defect `plan_settles` shows. Whoever repairs
that comparison must make the plan compare layouts or always rediscover.

*Issue solving.* `OneWorkspace` is not inductive: two processes could be past the
clone of one directory. `Ours` says whose it is: who works inside is who cloned it;
the directory is only taken while it is absent, and then nobody is inside.
`DispatchNeedsBug` speaks of the tree the worker was given, so the proof has to carry
what the gate saw from the probe to the worker: `Word` says that a test seen failing
still shows the bug, and that every `fail_to_pass` test is still to be probed or was
seen. It is inductive because nothing changes the tree in between (`TreeKept`): not
the request, by `Ours`, and not a straggler of an earlier worker, by `Calm`, which
holds because a straggler needs a directory and a directory in the way ends the
start. The test patch and the set-up commands come before the first probe, which is
all that makes the gate's word good; `DispatchNeedsBug` fails as soon as they move.
`ContractHolds` repeats that for the positive gate (`Solved`), and `PatchHolds` follows
the change from the patch to the commit (`Exported`); both except a straggler, which
may edit in between, as the properties do. `PatchHolds` also excepts a worker that
commits or stages in its clone (`start.git`): what it committed is in HEAD, so
`git diff HEAD` does not show it, and a new file that it staged is shown.

*Discovery.* `PagesComplete` says of every cursor that was used that all that lasts up
to there has been read (`Asked`). From there to the end, `Listing` says what holds when
both lists are done, `Opened` that the nested connections begin at the first page that
came with their project, and `Nesting` that they are done in order, each when no page
is announced. It rests on `HubOK`: nodes have different numbers below `next`, and a
node that is made gets a new one, so nothing can slip in before a cursor. A page has a
first and a last node because a connection is finite, which the prover gets from
well-foundedness. `Coherent` speaks of the end only; `Collected` adds that a discovery has
no item before its project is taken, that a board has one item per task at every
page, and that people never touch what was read. Everything else a reading collects
may be inconsistent until `Parse`, which refuses it: the proof uses nothing of what
GitHub answers.

*The control room.* `RevisionHolds` is about a whole history, for which the prover
has no induction over commits; the invariant does it, one commit at a time:
`Untouched` says that a path nobody touched since a commit still has that commit's
content. `Labelled` carries the inputs of a session from loading to its label
unchanged unless something moved, and the pages that a session holds to put back are
as good as those in place. `PairsHold` and `GraphHolds` share one invariant.
`Alone` says that no two sessions are at one pair, `Handled` where each file stands at
each step of a write or a rollback (before the first, `old` is what is there; after
it, the first is new and the second still `old`; half undone, the first is `old`
again, unless a step failed), and `AllWhole` that a pair nobody is at and nothing left
apart is whole. Without `Alone` the step from `first` to `second` already fails,
which is why the theorems assume `~Overlap`, and nothing in the code grants it.

Only model-checked: the termination of runs (`Ends`), the convergence of provisioning
(`Resumes`), the end of issue commands (`StartEnds`) and of readings
(`Discovery!Ends`), and the fairness part of the refinement, because TLAPS 1.4.5 has no
proof of liveness under fairness. The properties of `EnforcementProofs` are not
theorems without their assumptions, since the code breaks most of them there; the
instances of the runs that check them satisfy the assumptions.

## 5. Known disagreements without a run of the list

Each is a property of a module that the code violates. Those with a configuration
are shown by hand, `tlc -config <name>.cfg <module>`; TLC prints the behaviour.

| Property | Shown by | What the code does |
|---|---|---|
| `RevertsRecorded` | `reverts_lost.cfg`, `MCRun` | only the reverts of the last attempt are reported (`graph.py:667`) |
| `NothingSensitiveSurvives` | `staged_change.cfg`, `MCRun` | `git checkout --` restores the index: a staged edit of a sensitive file survives enforcement |
| `SecretChangeBlocks` | `docker_blind.cfg`, `MCRun` | `--workspace docker` reads changes with a git its image lacks |
| `DeniedNeverOnHost` | `hidden_secret.cfg`, `MCRun` | git lists a new directory as one line and only its name is classified: a sensitive file in it is copied out of the sandbox; enforcement on the host misses it likewise |
| `RaisedLeavesNothing` | `enforce_raises.cfg`, `MCRun` | `Path.unlink` raises on a new sensitive directory that git lists as one line (`graph.py:465`): the run ends in an exception, without a record, and the worker's sensitive files stay (`graph.py:436`: "Revert files the worker changed that violate path-based policy.") |
| `SandboxLeavesSecrets` | `sandbox_reverts.cfg`, `MCRun` | the sandbox does not look for a dirty repository; when the worker touches a secret in the container, enforcement checks it out on the host (`graph.py:461`) and the operator's uncommitted edit of it is lost |
| `StorageWins` | `storage_wins.cfg`, `MCStore` | a list shorter than the number of runs serves an artifact instead of the gate's later verdict |
| `PlanSettles` | `plan_settles.cfg`, `MCProvisioner` | every plan updates every issue, because one side of a comparison is stripped of its newline |
| `HintWorks` | `hint.cfg`, `MCIssue` | with the gate open the request answers with the command to run, and leaves the clone which that command refuses |
| `SolvedIsDelivered` | `undelivered.cfg`, `MCIssue` | `issue solve` ends as solved without its patch or its commit: the exit codes of git are not read, a run that saw no change exports nothing, and what the worker committed itself is in no patch |
| `PagesNameOneRevision` | `export_revision.cfg`, `MCRoom` | the board of an export says `unavailable` beside a page of the same command that names a revision |
| `ValidMeansBuilt` | `stale_graph.cfg`, `MCRoom` | a graph validates although it was built from other source: an edit while it was read, or a death after graph.json |
| `ProvenBugOnly` | | a probe cut off by its timeout exits 124 and counts as a failing test |
| `PatchIsTheChange` | | the patch is `git diff HEAD`, which has no new file; the commit has |
| `CompletedHoldsContract` | | a death, or a refused test id, after `run_harness` saved and before the positive gate did leaves `completed` |
| `LabelIsInputs` | | the revision is chosen by the paths of today: a path deleted since is not looked at |
| `IndexKept` | | the rollback of a report takes an index that could not be read for one that was not there, and removes it |
| `NoteKept` | | a note that comes between the check and the write is replaced |
| `SetupFailureBlocks` | | `auth_missing`, `model_missing` and `sdk_missing` fail a run that `graph.py:988` calls blocked |
| `ListedOnce` | | a stored run without its `run_record.json` is two rows of a list |
| `AnsweredIsCompleted` | | a changed field value counts as failed after GitHub changed it: the planned id is the value's, the answer carries the item's |
| `NoContainerLeft` | | a node that raises after `prepare_workspace` skips the clean-up |

Seen in the code and not stated: the risk score and the permission gate use deletions
that enforcement undid; extraction from the sandbox overwrites the operator's
uncommitted edits of the files it delivers; `max_attempts` above six meets the
recursion limit and raises without a record; the sandbox validates the container's
copy, which can differ from what was extracted; a child of a killed worker can edit
after validation; `docker exec` into a container that expired exits with 1, read as
failed tests; two operators who apply at once make two projects.

## 6. Not modelled

The reasons are in `PROJECT.json` "components". In short: text (diffs, prompts,
reports, prints), parsers (Python and Java graphs, YAML packs, issues and contracts),
model calls with heuristic fallbacks, the OpenHands runner (an external SDK),
rendering (cockpit, benchmark and portfolio pages), thin wrappers (MCP servers, vault
codec). They keep no state and decide nothing a run depends on, so a model of them
would be a second copy of a function.

Inside the modelled parts: the steps of preparing a container, two provisionings at
a time, two sessions that write one pair at a time, payloads as JSON.

## 7. Plan

The order was by what a wrong state costs its user. Done: `GitTree` and `HarnessRun`
with `GovernedRun` as its abstraction, `RunStore`, `Provisioner`, `IssueSolve`,
`ControlRoom`, `Discovery`. Left:

1. `DockerPrepare`: the steps of preparing and removing a container, each with its
   timeout; composed with `HarnessRun` in place of its one action.
2. `Policy`, `Verification`: the pure decisions (risk score, permission tiers,
   verification verdicts, blocking conflicts, convergence classes) as operators
   compared with reference definitions over bounded inputs.
3. `WebClient`: polling and replay in the browser against `RunStore`.
4. Proofs: the action properties and lemmas of the modules above as they come, and
   conditional forms of the properties of section 5, with the condition under which
   the code keeps them (a list as long as the runs for `StorageWins`, for one).
