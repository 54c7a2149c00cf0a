---------------------------- MODULE Provisioner ----------------------------
(***************************************************************************)
(* `github-provision --apply` (app/project_control/github.py): discover the*)
(* project on GitHub, plan an action for every desired object, apply the   *)
(* actions one mutation at a time, discover again and report.              *)
(*                                                                         *)
(* Between and during the applies, which an operator repeats, people edit  *)
(* the board and the roadmap changes; a mutation may be refused, or applied*)
(* without a usable answer, and the process may die.  One command runs at a*)
(* time, a discovery is one step, and GitHub reads its own writes.         *)
(***************************************************************************)
EXTENDS Naturals

CONSTANTS
  Tasks,     \* stable task ids: one issue and one project item each
  Fields,    \* managed fields
  BuiltIn,   \* fields GitHub itself creates with a project
  Views,
  Edits,     \* bound on the edits of people and of the roadmap
  Failures   \* bound on the failures of transport, disk and process

ASSUME ProvisionerAssumption ==
  BuiltIn \subseteq Fields /\ Edits \in Nat /\ Failures \in Nat

VARIABLES
  remote,    \* GitHub
  seen,      \* the snapshot read last
  pc,        \* "idle", "applying", "checking" (rediscovery) or "reporting"
  remaining, completed,  \* actions of the plan
  manual,    \* view actions GitHub does not support
  error,     \* the loop of apply stopped
  confirmed, \* mutation_confirmed
  answered,  \* history: actions GitHub performed and answered without an error
  verdict,   \* the state of the report being written
  report,    \* the state of the report on disk
  edits, failures

progress == <<remaining, completed, manual, error, confirmed, answered>>
vars == <<remote, seen, pc, progress, verdict, report, edits, failures>>

(***************************************************************************)
(* GitHub: the number of projects of the configured name and, in it, each  *)
(* managed object as "absent", "other" (there, not as wanted) or "wanted". *)
(* An issue has a title, a managed region and the text people wrote around *)
(* it, as a version; `foreign` is an issue without a task id.              *)
(***************************************************************************)
NoIssue == [count |-> 0, title |-> "wanted", managed |-> "none", text |-> 0]
NoProject(supports) ==
  [project |-> 0, field |-> [f \in Fields |-> "absent"], issue |-> [t \in Tasks |-> NoIssue],
   item |-> {}, value |-> [t \in Tasks |-> [f \in Fields |-> "absent"]],
   view |-> [v \in Views |-> "absent"], foreign |-> FALSE, viewMutations |-> supports]

(* An action of the plan is its resource and its stable key.               *)
Project == <<"project", "project">>
Actions ==
  {Project} \union ({"field"} \X Fields) \union ({"issue"} \X Tasks) \union ({"item"} \X Tasks)
    \union ({"field-value"} \X (Tasks \X Fields)) \union ({"view"} \X Views)

\* plan.actions puts the resources in this order.
Earlier(a, b) ==
  LET rank(r) == CASE r = "project" -> 1 [] r = "field" -> 2 [] r = "issue" -> 3
                   [] r = "item" -> 4 [] r = "field-value" -> 5 [] r = "view" -> 6
  IN  rank(a[1]) < rank(b[1])

Init ==
  /\ \E supports \in BOOLEAN : remote = NoProject(supports)
  /\ seen = remote /\ pc = "idle" /\ remaining = {} /\ completed = {} /\ manual = {}
  /\ error = FALSE /\ confirmed = FALSE /\ answered = {}
  /\ verdict = "none" /\ report = "none" /\ edits = 0 /\ failures = 0

---------------------------------------------------------------------------
(* The plan: what it takes from a snapshot s.                              *)

\* discover_state refuses a second project of the name, a second issue of a task
\* and an issue without a task id.
Discoverable(s) ==
  /\ s.project <= 1 /\ ~s.foreign
  /\ \A t \in Tasks : s.issue[t].count <= 1

\* render_issue_body ends with a newline, and _managed_issue_content strips its own.
Canonical == <<"wanted", "newline">>
ManagedContent(issue) == <<issue.managed>>

ThereByItem(a, s) ==                \* mutant: issues are looked up among the items
  CASE a[1] = "project" -> s.project > 0
    [] a[1] = "field" -> s.field[a[2]] # "absent"
    [] a[1] \in {"issue", "item"} -> a[2] \in s.item
    [] a[1] = "field-value" -> s.value[a[2][1]][a[2][2]] # "absent"
    [] a[1] = "view" -> s.view[a[2]] # "absent"
There(a, s) ==
  CASE a[1] = "project" -> s.project > 0
    [] a[1] = "field" -> s.field[a[2]] # "absent"
    [] a[1] = "issue" -> s.issue[a[2]].count > 0
    [] a[1] = "item" -> a[2] \in s.item
    [] a[1] = "field-value" -> s.value[a[2][1]][a[2][2]] # "absent"
    [] a[1] = "view" -> s.view[a[2]] # "absent"

\* What the plan compares of an object that is there: a view only by its name.
Same(a, s) ==
  CASE a[1] = "field" -> s.field[a[2]] = "wanted"
    [] a[1] = "issue" ->
         s.issue[a[2]].title = "wanted" /\ ManagedContent(s.issue[a[2]]) = Canonical
    [] a[1] = "field-value" -> s.value[a[2][1]][a[2][2]] = "wanted"
    [] OTHER -> TRUE

OptionsIgnored(a, s) ==              \* mutant: a field that is there is reused as it is
  IF ~There(a, s) THEN "create" ELSE IF Same(a, s) \/ a[1] = "field" THEN "reuse"
  ELSE IF a[1] = "field-value" THEN "create" ELSE "update"
Kind(a, s) ==
  IF ~There(a, s) THEN "create" ELSE IF Same(a, s) THEN "reuse"
  ELSE IF a[1] = "field-value" THEN "create" ELSE "update"

---------------------------------------------------------------------------
(* What GitHub does with a mutation.                                       *)

\* It refuses a second field of one name; the other dependencies are ids of
\* objects that exist.
Refuses(a) == a[1] = "field" /\ Kind(a, seen) = "create" /\ remote.field[a[2]] # "absent"

TextForgotten(t) == 0                \* mutant: the body is the managed region alone
\* update_issue sends the whole body, merged when the plan was made.
TextSent(t) == seen.issue[t].text

WithProject ==
  [remote EXCEPT !.project = @ + 1,
                 !.field = [f \in Fields |-> IF f \in BuiltIn THEN "other" ELSE @[f]]]
WithIssue(t) ==
  [remote EXCEPT !.issue[t] =
     IF Kind(<<"issue", t>>, seen) = "create"
     THEN [count |-> @.count + 1, title |-> "wanted", managed |-> "wanted", text |-> 0]
     ELSE [@ EXCEPT !.title = "wanted", !.managed = "wanted", !.text = TextSent(t)]]

\* Replacing the options of a field clears the values that used one of the old.
WithField(f, cleared) ==
  [remote EXCEPT
     !.field[f] = "wanted",
     !.value = [t \in Tasks |-> IF t \in cleared THEN [@[t] EXCEPT ![f] = "absent"] ELSE @[t]]]

Performed(a) ==
  CASE a[1] = "project" -> {WithProject}
    [] a[1] = "field" ->
         {WithField(a[2], cleared) :
            cleared \in SUBSET {t \in Tasks : remote.value[t][a[2]] = "other"}}
    [] a[1] = "issue" -> {WithIssue(a[2])}
    [] a[1] = "item" -> {[remote EXCEPT !.item = @ \union {a[2]}]}
    [] a[1] = "field-value" -> {[remote EXCEPT !.value[a[2][1]][a[2][2]] = "wanted"]}
    [] a[1] = "view" -> {[remote EXCEPT !.view[a[2]] = "wanted"]}

\* _validate_mutation_identity wants the planned remote id back: a field value's is
\* the id of the value, and set_field_value answers with the id of the item.
IdentityMatches(a) == a[1] = "field-value" => ~There(a, seen)

---------------------------------------------------------------------------
(* The command.                                                            *)

Discover ==
  /\ pc = "idle" /\ Discoverable(remote) /\ pc' = "applying"
  /\ seen' = remote /\ remaining' = Actions /\ completed' = {} /\ manual' = {}
  /\ error' = FALSE /\ confirmed' = FALSE /\ answered' = {} /\ verdict' = "none"
  /\ UNCHANGED <<remote, report, edits, failures>>

Turn(a) ==
  /\ pc = "applying" /\ a \in remaining \ manual
  /\ \A b \in remaining \ manual : ~Earlier(b, a)

NotPopped(a) == completed' = completed \union {a} /\ UNCHANGED remaining  \* mutant
Completes(a) == completed' = completed \union {a} /\ remaining' = remaining \ {a}

Reuse(a) ==
  /\ Turn(a) /\ Kind(a, seen) = "reuse" /\ Completes(a)
  /\ UNCHANGED <<remote, seen, pc, manual, error, confirmed, answered, verdict, report, edits, failures>>

MutationTurn(a) ==
  /\ Turn(a) /\ Kind(a, seen) # "reuse"
  /\ UNCHANGED <<seen, report, edits>>

StopAndCheck ==                      \* mutant: rediscovers although nothing was done
  /\ error' = TRUE /\ pc' = "checking"
  /\ verdict' = "partial" /\ UNCHANGED <<completed, remaining, manual, confirmed>>
\* The loop breaks; what was confirmed before is checked and reported.
Stop ==
  /\ error' = TRUE /\ pc' = IF confirmed THEN "checking" ELSE "reporting"
  /\ verdict' = "partial" /\ UNCHANGED <<completed, remaining, manual, confirmed>>

\* DependencyUnavailable is raised to the caller if nothing was confirmed.
Raise ==
  /\ ~confirmed /\ pc' = "idle"
  /\ UNCHANGED <<completed, remaining, manual, confirmed, error, verdict>>

Supported(a) == a[1] = "view" => remote.viewMutations

Mutate(a) ==
  /\ MutationTurn(a) /\ Supported(a) /\ ~Refuses(a) /\ remote' \in Performed(a)
  /\ answered' = answered \union {a}
  /\ IF IdentityMatches(a)
     THEN /\ Completes(a) /\ confirmed' = TRUE
          /\ UNCHANGED <<pc, manual, error, verdict>>
     ELSE Stop
  /\ UNCHANGED failures

\* The operator is told to build the view.
Unsupported(a) ==
  /\ MutationTurn(a) /\ ~Supported(a) /\ manual' = manual \union {a}
  /\ UNCHANGED <<remote, pc, remaining, completed, error, confirmed, answered, verdict, failures>>

\* A refusal that gh reports by its exit code is an error, for a view as well.
Refused(a) ==
  /\ MutationTurn(a) /\ (Refuses(a) \/ ~Supported(a)) /\ Stop
  /\ UNCHANGED <<remote, answered, failures>>

\* The mutation fails before GitHub performs it, or after, without a usable answer.
Fails(a) ==
  /\ MutationTurn(a) /\ Supported(a) /\ ~Refuses(a)
  /\ failures < Failures /\ failures' = failures + 1
  /\ remote' \in Performed(a) \union {remote}
  /\ Stop \/ Raise
  /\ UNCHANGED answered

\* The loop is over; only confirmed mutations call for a rediscovery.
Finish ==
  /\ pc = "applying" /\ remaining = manual
  /\ pc' = IF confirmed THEN "checking" ELSE "reporting"
  /\ verdict' = IF manual = {} THEN "success" ELSE "partial"
  /\ UNCHANGED <<remote, seen, progress, report, edits, failures>>

ReconciledButValues(s) ==            \* mutant: field values are not checked
  /\ s.project = 1
  /\ \A f \in Fields : s.field[f] = "wanted"
  /\ \A t \in Tasks : /\ s.issue[t].count > 0 /\ s.issue[t].title = "wanted"
                      /\ s.issue[t].managed = "wanted" /\ t \in s.item
  /\ \A v \in Views : <<"view", v>> \in manual \/ s.view[v] = "wanted"

\* _reconcile_plan finds no mismatch in the snapshot s.
Reconciled(s) ==
  /\ s.project = 1
  /\ \A f \in Fields : s.field[f] = "wanted"
  /\ \A t \in Tasks : /\ s.issue[t].count > 0 /\ s.issue[t].title = "wanted"
                      /\ s.issue[t].managed = "wanted" /\ t \in s.item
                      /\ \A f \in Fields : s.value[t][f] = "wanted"
  /\ \A v \in Views : <<"view", v>> \in manual \/ s.view[v] = "wanted"

Check ==
  /\ pc = "checking" /\ pc' = "reporting"
  /\ \/ /\ Discoverable(remote) /\ seen' = remote
        /\ verdict' = IF Reconciled(remote) THEN verdict ELSE "partial"
        /\ UNCHANGED failures
     \/ /\ ~Discoverable(remote) /\ verdict' = "partial" /\ UNCHANGED <<seen, failures>>
     \/ /\ failures < Failures /\ failures' = failures + 1
        /\ verdict' = "partial" /\ UNCHANGED seen
  /\ UNCHANGED <<remote, progress, report, edits>>

\* The index takes no record of a success: its evidence would be verified, which an
\* artifact that is not immutable cannot be.
Recordable(state) == state # "success"

\* _write_report; a failure restores the old report and is raised.
Report ==
  /\ pc = "reporting" /\ pc' = "idle" /\ verdict' = "none"
  /\ \/ Recordable(verdict) /\ report' = verdict /\ UNCHANGED failures
     \/ ~Recordable(verdict) /\ UNCHANGED <<report, failures>>
     \/ failures < Failures /\ failures' = failures + 1 /\ UNCHANGED report
  /\ UNCHANGED <<remote, seen, progress, edits>>

Crash ==
  /\ pc # "idle" /\ failures < Failures /\ failures' = failures + 1
  /\ pc' = "idle" /\ verdict' = "none"
  /\ UNCHANGED <<remote, seen, progress, report, edits>>

---------------------------------------------------------------------------
(* People, and the roadmap, whose changes make what is there other.        *)

Edit(change) ==
  /\ edits < Edits /\ edits' = edits + 1 /\ remote' \in change
  /\ UNCHANGED <<seen, pc, progress, verdict, report, failures>>

EditText(t) ==
  remote.issue[t].count > 0 /\ Edit({[remote EXCEPT !.issue[t].text = @ + 1]})
EditIssue(t) ==
  remote.issue[t].count > 0 /\ Edit({[remote EXCEPT !.issue[t].title = "other"],
                                     [remote EXCEPT !.issue[t].managed = "other"],
                                     [remote EXCEPT !.issue[t].managed = "none"]})
EditValue(t, f) ==
  remote.value[t][f] = "wanted" /\ Edit({[remote EXCEPT !.value[t][f] = "other"],
                                         [remote EXCEPT !.value[t][f] = "absent"]})
EditOptions(f) ==
  remote.field[f] = "wanted" /\ Edit({[remote EXCEPT !.field[f] = "other"]})
FileIssue == ~remote.foreign /\ Edit({[remote EXCEPT !.foreign = TRUE]})

EditView(v) == remote.view[v] = "wanted" /\ Edit({[remote EXCEPT !.view[v] = "other"]})

\* The operator builds, or puts right, a view the report speaks of, at any moment; no
\* plan ever updates a view.
BuildView(v) ==
  /\ \/ remote.project > 0 /\ remote.view[v] = "absent" /\ ~remote.viewMutations
     \/ remote.view[v] = "other"
  /\ remote' = [remote EXCEPT !.view[v] = "wanted"]
  /\ UNCHANGED <<seen, pc, progress, verdict, report, edits, failures>>

Apply(a) == Reuse(a) \/ Mutate(a) \/ Unsupported(a) \/ Refused(a) \/ Fails(a)
Command == Discover \/ (\E a \in Actions : Apply(a)) \/ Finish \/ Check \/ Report
People ==
  \/ \E t \in Tasks : EditText(t) \/ EditIssue(t) \/ \E f \in Fields : EditValue(t, f)
  \/ \E f \in Fields : EditOptions(f)
  \/ \E v \in Views : EditView(v)
  \/ FileIssue

Next == Command \/ Crash \/ People \/ \E v \in Views : BuildView(v)

Spec == Init /\ [][Next]_vars

\* The operator repeats the command, which ends, and builds the views asked for.
FairSpec == Spec /\ WF_vars(Command) /\ \A v \in Views : WF_vars(BuildView(v))
---------------------------------------------------------------------------
Presence == {"absent", "other", "wanted"}
Issues ==
  [count : 0..2, title : {"other", "wanted"}, managed : {"none", "other", "wanted"}, text : 0..Edits]
Remotes ==
  [project : 0..2, field : [Fields -> Presence], issue : [Tasks -> Issues], item : SUBSET Tasks,
   value : [Tasks -> [Fields -> Presence]], view : [Views -> Presence],
   foreign : BOOLEAN, viewMutations : BOOLEAN]

\* Types, and what pc says of the other variables: only an apply that confirmed a
\* mutation is checked, and only a finished one has a verdict.
ProvisionerTypeOK ==
  /\ remote \in Remotes /\ seen \in Remotes
  /\ pc \in {"idle", "applying", "checking", "reporting"}
  /\ remaining \subseteq Actions /\ completed \subseteq Actions
  /\ manual \subseteq {"view"} \X Views /\ answered \subseteq Actions
  /\ error \in BOOLEAN /\ confirmed \in BOOLEAN
  /\ verdict \in {"none", "success", "partial"} /\ report \in {"none", "success", "partial"}
  /\ edits \in 0..Edits /\ failures \in 0..Failures
  /\ pc = "applying" => ~error
  /\ pc = "checking" => confirmed
  /\ pc \in {"checking", "reporting"} <=> verdict # "none"

\* Everything is on GitHub as the roadmap wants it.
Wanted(s) ==
  /\ s.project = 1
  /\ \A f \in Fields : s.field[f] = "wanted"
  /\ \A t \in Tasks : /\ s.issue[t].count = 1 /\ s.issue[t].title = "wanted"
                      /\ s.issue[t].managed = "wanted" /\ t \in s.item
                      /\ \A f \in Fields : s.value[t][f] = "wanted"
  /\ \A v \in Views : s.view[v] = "wanted"

\* However often the command fails, dies, loses an answer and is repeated, it makes
\* one project and one issue per task.
NoDuplicates == remote.project <= 1 /\ \A t \in Tasks : remote.issue[t].count <= 1

\* A report of success rests on a snapshot, read after the last mutation, in which
\* everything was as wanted.
SuccessIsReal == pc = "reporting" /\ verdict = "success" => Wanted(seen)

\* What people wrote in an issue before the apply read it is still there.
ReadTextKept == pc # "idle" => \A t \in Tasks : remote.issue[t].text >= seen.issue[t].text

\* A report accounts for every action of the plan, once, and what it calls completed
\* exists (people may clear a value meanwhile).
ReportAccounts ==
  pc = "reporting" =>
    /\ completed \union remaining = Actions /\ completed \intersect remaining = {}
    /\ \A a \in completed : a[1] # "field-value" => There(a, remote)

\* Unless someone files an issue without a task id, repeating the command makes
\* everything as wanted, for good, whatever failed before.
Resumes == [](~remote.foreign) => <>[]Wanted(remote)

\* The plan made from a snapshot in which everything is as wanted has nothing to do.
PlanSettles == pc = "applying" /\ Wanted(seen) => \A a \in Actions : Kind(a, seen) = "reuse"

\* Refuted.  Repeating the command ends in a report of success.
SuccessRecorded == [](~remote.foreign) => <>(report = "success")

\* A mutation GitHub performed and answered is among the completed.
AnsweredIsCompleted == answered \subseteq completed
============================================================================
