------------------------------- MODULE MCRun -------------------------------
(***************************************************************************)
(* Instances of HarnessRun for TLC: a repository of two or three files and *)
(* the ways of starting a run on it.                                       *)
(***************************************************************************)
EXTENDS RunProperties, Sequences

\* A repository with a secret at its root, a source file and a test.
FlatFiles == {"env", "main", "test_main"}
FlatDirOf == [f \in FlatFiles |-> f]

\* The same with a directory that is sensitive by its own name, where HEAD may
\* hold nothing yet; and a smaller one.
AuthFiles == {"env", "test_main", "auth/session"}
AuthDirOf == [f \in AuthFiles |-> IF f = "auth/session" THEN "auth/" ELSE f]
TwoFiles == {"env", "main"}
TwoDirOf == [f \in TwoFiles |-> f]
\* A secret that only its own name gives away, in a directory that may be new.
ConfFiles == {"main", "conf/env"}
ConfDirOf == [f \in ConfFiles |-> IF f = "conf/env" THEN "conf/" ELSE f]

\* The status line of a move as the container's reader takes it: no path, and no name
\* that is_sensitive_path knows.
MovedTo == [f \in Files |-> "moved to " \o f]

\* A tree whose HEAD holds S, with the operator's uncommitted edit of the files D.
TreeOf(S, D) ==
  LET head == [f \in Files |-> IF f \in S THEN f ELSE Absent]
  IN  [head |-> head, index |-> head, wt |-> [f \in Files |-> IF f \in D THEN Theirs ELSE head[f]]]

CleanTree == {TreeOf(Files, {})}
CleanTrees == {TreeOf(Files, {}), TreeOf(Files \ Sensitive, {})}
DirtySecret == {TreeOf(Files, {"env"})}
\* The operator's edit of a secret, tracked or not.
SecretTrees == CleanTree \union DirtySecret \union {TreeOf(Files \ Sensitive, {"env"})}
\* The operator's edit of a test, and a new directory that is sensitive by name.
CleanOrDirty ==
  CleanTrees \union DirtySecret
    \union {TreeOf(Files, {"test_main"}), TreeOf(Files \ Sensitive, {"auth/session"})}

Plain(worker) ==
  [worker |-> worker, docker |-> FALSE, full |-> FALSE, dirtyOk |-> FALSE, max |-> 2,
   command |-> "plain", tests |-> "plain"]

\* `agentops run`, and the API without a worker.
Observe ==
  {[Plain("none") EXCEPT !.docker = m[1], !.full = m[2], !.tests = t] :
     m \in {<<FALSE, FALSE>>, <<TRUE, FALSE>>, <<TRUE, TRUE>>}, t \in {"plain", "malformed"}}
\* `agentops edit` on the host.
EditLocal ==
  {[Plain(w) EXCEPT !.dirtyOk = d] : w \in WorkerKinds \ {"none"}, d \in BOOLEAN}
    \union {[Plain("command") EXCEPT !.command = c] : c \in {"sensitive", "malformed", "missing"}}
    \union {[Plain("command") EXCEPT !.tests = t] : t \in {"malformed", "destructive"}}
\* `agentops edit --sandbox`.
EditSandbox ==
  {[Plain(w) EXCEPT !.docker = TRUE, !.full = TRUE, !.command = c] :
     w \in WorkerKinds \ {"none"}, c \in {"plain", "sensitive", "missing"}}
\* `agentops issue solve --workspace docker`.
IssueDocker == {[Plain("command") EXCEPT !.docker = TRUE, !.dirtyOk = TRUE]}

\* As many attempts as LangGraph's limit leaves room for, and more.
SixAttempts == {[Plain(w) EXCEPT !.max = 6] : w \in {"cli", "openhands"}}
EightAttempts == {[Plain("command") EXCEPT !.max = 8]}

LocalOptions == Observe \union EditLocal \union SixAttempts
OneEdit == {Plain("command")}
GitOptions == OneEdit \union EightAttempts
============================================================================
