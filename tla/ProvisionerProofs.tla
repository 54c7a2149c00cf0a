------------------------- MODULE ProvisionerProofs -------------------------
(***************************************************************************)
(* For every set of tasks, fields and views, and any number of failures and*)
(* edits: repeating the command duplicates nothing, reports success only   *)
(* of what it saw to be as wanted, keeps what people wrote before it read, *)
(* and its report accounts for every action of the plan.                   *)
(***************************************************************************)
EXTENDS Provisioner, TLAPS

IssueShape ==
  [count : Nat, title : {"other", "wanted"}, managed : {"none", "other", "wanted"}, text : Nat]
RemoteShape ==
  [project : Nat, field : [Fields -> Presence], issue : [Tasks -> IssueShape], item : SUBSET Tasks,
   value : [Tasks -> [Fields -> Presence]], view : [Views -> Presence],
   foreign : BOOLEAN, viewMutations : BOOLEAN]

Shape == remote \in RemoteShape /\ seen \in RemoteShape /\ remaining \subseteq Actions

\* What the plan wants to create and has not come to is not on GitHub.
CreatesAhead ==
  pc = "applying" =>
    /\ Project \in remaining /\ seen.project = 0 => remote.project = 0
    /\ \A t \in Tasks :
         <<"issue", t>> \in remaining /\ seen.issue[t].count = 0 => remote.issue[t].count = 0

CountInv == Shape /\ NoDuplicates /\ CreatesAhead

\* r has the projects and issues of remote.
SameCounts(r) ==
  r.project = remote.project /\ \A t \in Tasks : r.issue[t].count = remote.issue[t].count

---------------------------------------------------------------------------
LEMMA ActionKinds ==
  ASSUME NEW a \in Actions
  PROVE  \/ a = Project
         \/ \E f \in Fields : a = <<"field", f>>
         \/ \E t \in Tasks : a = <<"issue", t>>
         \/ \E t \in Tasks : a = <<"item", t>>
         \/ \E t \in Tasks, f \in Fields : a = <<"field-value", <<t, f>>>>
         \/ \E v \in Views : a = <<"view", v>>
  BY DEF Actions

\* A mutation adds a project or an issue only where the snapshot had none.
LEMMA PerformedResult ==
  ASSUME Shape, NEW a \in Actions, NEW r \in Performed(a), Kind(a, seen) # "reuse"
  PROVE  /\ r \in RemoteShape
         /\ \/ SameCounts(r)
            \/ /\ a = Project /\ seen.project = 0 /\ r.project = remote.project + 1
               /\ \A t \in Tasks : r.issue[t].count = remote.issue[t].count
            \/ \E t \in Tasks :
                 /\ a = <<"issue", t>> /\ seen.issue[t].count = 0 /\ r.project = remote.project
                 /\ r.issue[t].count = remote.issue[t].count + 1
                 /\ \A u \in Tasks \ {t} : r.issue[u].count = remote.issue[u].count
<1>1. CASE a = Project
  <2>1. r = WithProject
    BY <1>1 DEF Performed, Project
  <2>2. seen.project = 0
    BY <1>1, SMT DEF Kind, There, Same, Project, Shape, RemoteShape
  <2>3. /\ r \in RemoteShape /\ r.project = remote.project + 1
        /\ \A t \in Tasks : r.issue[t].count = remote.issue[t].count
    <3> DEFINE field == [f \in Fields |-> IF f \in BuiltIn THEN "other" ELSE remote.field[f]]
    <3>1. field \in [Fields -> Presence]
      BY DEF Shape, RemoteShape, Presence
    <3>2. r = [remote EXCEPT !.project = remote.project + 1, !.field = field]
      BY <2>1 DEF WithProject
    <3> HIDE DEF field
    <3> DEFINE n == remote.project + 1
    <3>3. n \in Nat
      BY DEF Shape, RemoteShape
    <3>4. r = [remote EXCEPT !.project = n, !.field = field]
      BY <3>2
    <3> HIDE DEF n
    <3>5. r \in RemoteShape /\ r.project = n /\ r.issue = remote.issue
      BY <3>1, <3>3, <3>4 DEF Shape, RemoteShape
    <3> QED BY <3>5 DEF n
  <2> QED BY <1>1, <2>2, <2>3
<1>2. ASSUME NEW f \in Fields, a = <<"field", f>>
      PROVE  r \in RemoteShape /\ SameCounts(r)
  <2>1. PICK cleared \in SUBSET Tasks : r = WithField(f, cleared)
    BY <1>2 DEF Performed
  <2> DEFINE value == [t \in Tasks |-> IF t \in cleared THEN [remote.value[t] EXCEPT ![f] = "absent"]
                                       ELSE remote.value[t]]
  <2>2. value \in [Tasks -> [Fields -> Presence]]
    BY DEF Shape, RemoteShape, Presence
  <2>3. r = [remote EXCEPT !.field[f] = "wanted", !.value = value]
    BY <2>1 DEF WithField
  <2> HIDE DEF value
  <2> QED BY <2>2, <2>3, <1>2 DEF Shape, RemoteShape, SameCounts, Presence
<1>3. ASSUME NEW t \in Tasks, a = <<"issue", t>>
      PROVE  /\ r \in RemoteShape
             /\ \/ SameCounts(r)
                \/ /\ seen.issue[t].count = 0 /\ r.project = remote.project
                   /\ r.issue[t].count = remote.issue[t].count + 1
                   /\ \A u \in Tasks \ {t} : r.issue[u].count = remote.issue[u].count
  <2>1. r = WithIssue(t)
    BY <1>3 DEF Performed
  <2>2. CASE Kind(<<"issue", t>>, seen) = "create"
    <3>1. seen.issue[t].count = 0
      BY <2>2 DEF Kind, There, Shape, RemoteShape, IssueShape
    <3> DEFINE new == [count |-> remote.issue[t].count + 1, title |-> "wanted",
                       managed |-> "wanted", text |-> 0]
    <3>2. r = [remote EXCEPT !.issue[t] = new]
      BY <2>1, <2>2 DEF WithIssue
    <3>3. new \in IssueShape /\ new.count = remote.issue[t].count + 1
      BY DEF Shape, RemoteShape, IssueShape
    <3> HIDE DEF new
    <3> QED BY <3>1, <3>2, <3>3 DEF Shape, RemoteShape
  <2>3. CASE Kind(<<"issue", t>>, seen) # "create"
    <3> DEFINE old == remote.issue[t]
               text == TextSent(t)
               new == [old EXCEPT !.title = "wanted", !.managed = "wanted", !.text = text]
    <3>1. r = [remote EXCEPT !.issue[t] = new]
      BY <2>1, <2>3 DEF WithIssue
    <3>2. new \in IssueShape /\ new.count = remote.issue[t].count
      <4>1. seen.issue[t] \in IssueShape /\ old \in IssueShape
        BY DEF Shape, RemoteShape
      <4>2. text \in Nat
        BY <4>1 DEF IssueShape, TextSent
      <4> HIDE DEF text
      <4>3. new \in IssueShape /\ new.count = old.count
        BY <4>1, <4>2 DEF IssueShape
      <4> QED BY <4>3
    <3> HIDE DEF new
    <3> QED BY <3>1, <3>2 DEF Shape, RemoteShape, SameCounts
  <2> QED BY <2>2, <2>3
<1>4. ASSUME NEW t \in Tasks, a = <<"item", t>>
      PROVE  r \in RemoteShape /\ SameCounts(r)
  <2>1. r = [remote EXCEPT !.item = @ \union {t}]
    BY <1>4 DEF Performed
  <2> QED BY <2>1 DEF Shape, RemoteShape, SameCounts
<1>5. ASSUME NEW t \in Tasks, NEW f \in Fields, a = <<"field-value", <<t, f>>>>
      PROVE  r \in RemoteShape /\ SameCounts(r)
  <2>1. r = [remote EXCEPT !.value[t][f] = "wanted"]
    BY <1>5 DEF Performed
  <2> QED BY <2>1 DEF Shape, RemoteShape, SameCounts, Presence
<1>6. ASSUME NEW v \in Views, a = <<"view", v>>
      PROVE  r \in RemoteShape /\ SameCounts(r)
  <2>1. r = [remote EXCEPT !.view[v] = "wanted"]
    BY <1>6 DEF Performed
  <2> QED BY <2>1 DEF Shape, RemoteShape, SameCounts, Presence
<1> QED BY <1>1, <1>2, <1>3, <1>4, <1>5, <1>6, ActionKinds
---------------------------------------------------------------------------
LEMMA InitCounts == Init => CountInv
<1> SUFFICES ASSUME Init PROVE CountInv
  OBVIOUS
<1>1. PICK supports \in BOOLEAN : remote = NoProject(supports)
  BY DEF Init
<1>2. remote \in RemoteShape /\ remote.project = 0 /\ \A t \in Tasks : remote.issue[t].count = 0
  BY <1>1 DEF NoProject, NoIssue, RemoteShape, IssueShape, Presence
<1> QED BY <1>2 DEF Init, CountInv, Shape, NoDuplicates, CreatesAhead

\* A mutation, whether its answer arrives or not.
LEMMA MutationCounts ==
  ASSUME CountInv, NEW a \in Actions, MutationTurn(a), remote' \in Performed(a) \union {remote},
         remaining' \subseteq Actions,
         pc' = "applying" => pc' = pc /\ remaining' = remaining \ {a}
  PROVE  CountInv'
<1>1. pc = "applying" /\ a \in remaining /\ Kind(a, seen) # "reuse" /\ seen' = seen
  BY DEF MutationTurn, Turn
<1>2. CASE remote' = remote
  BY <1>1, <1>2 DEF CountInv, Shape, NoDuplicates, CreatesAhead
<1>3. CASE remote' \in Performed(a)
  <2>1. /\ remote' \in RemoteShape
        /\ \/ SameCounts(remote')
           \/ /\ a = Project /\ seen.project = 0 /\ remote'.project = remote.project + 1
              /\ \A t \in Tasks : remote'.issue[t].count = remote.issue[t].count
           \/ \E t \in Tasks :
                /\ a = <<"issue", t>> /\ seen.issue[t].count = 0 /\ remote'.project = remote.project
                /\ remote'.issue[t].count = remote.issue[t].count + 1
                /\ \A u \in Tasks \ {t} : remote'.issue[u].count = remote.issue[u].count
    BY <1>1, <1>3, PerformedResult DEF CountInv
  <2>2. Shape'
    BY <1>1, <2>1 DEF CountInv, Shape
  <2>3. CASE SameCounts(remote')
    BY <1>1, <2>2, <2>3 DEF CountInv, NoDuplicates, CreatesAhead, SameCounts
  <2>4. CASE /\ a = Project /\ seen.project = 0 /\ remote'.project = remote.project + 1
             /\ \A t \in Tasks : remote'.issue[t].count = remote.issue[t].count
    <3>1. remote.project = 0
      BY <1>1, <2>4 DEF CountInv, CreatesAhead
    <3>2. NoDuplicates'
      BY <2>4, <3>1 DEF CountInv, NoDuplicates
    <3>3. CreatesAhead'
      BY <1>1, <2>4 DEF CountInv, CreatesAhead
    <3> QED BY <2>2, <3>2, <3>3 DEF CountInv
  <2>5. ASSUME NEW t \in Tasks,
               a = <<"issue", t>>, seen.issue[t].count = 0, remote'.project = remote.project,
               remote'.issue[t].count = remote.issue[t].count + 1,
               \A u \in Tasks \ {t} : remote'.issue[u].count = remote.issue[u].count
        PROVE  CountInv'
    <3>1. remote.issue[t].count = 0
      BY <1>1, <2>5 DEF CountInv, CreatesAhead
    <3>2. NoDuplicates'
      BY <2>5, <3>1 DEF CountInv, NoDuplicates
    <3>3. CreatesAhead'
      BY <1>1, <2>5 DEF CountInv, CreatesAhead
    <3> QED BY <2>2, <3>2, <3>3 DEF CountInv
  <2> QED BY <2>1, <2>3, <2>4, <2>5
<1> QED BY <1>2, <1>3

\* Nobody but the command makes projects and issues.
LEMMA PeopleCounts ==
  ASSUME Shape, People \/ \E v \in Views : BuildView(v)
  PROVE  /\ remote' \in RemoteShape /\ SameCounts(remote')
         /\ UNCHANGED <<seen, pc, progress, verdict>>
<1>1. ASSUME NEW t \in Tasks, EditText(t) \/ EditIssue(t)
      PROVE  remote' \in RemoteShape /\ SameCounts(remote')
  <2>1. PICK new \in IssueShape : /\ new.count = remote.issue[t].count
                                 /\ remote' = [remote EXCEPT !.issue[t] = new]
    <3> DEFINE old == remote.issue[t]
    <3>1. old \in IssueShape
      BY DEF Shape, RemoteShape
    <3>2. \/ remote' = [remote EXCEPT !.issue[t] = [old EXCEPT !.text = @ + 1]]
          \/ remote' = [remote EXCEPT !.issue[t] = [old EXCEPT !.title = "other"]]
          \/ remote' = [remote EXCEPT !.issue[t] = [old EXCEPT !.managed = "other"]]
          \/ remote' = [remote EXCEPT !.issue[t] = [old EXCEPT !.managed = "none"]]
      BY <1>1 DEF EditText, EditIssue, Edit
    <3>3. /\ [old EXCEPT !.text = @ + 1] \in IssueShape
          /\ [old EXCEPT !.title = "other"] \in IssueShape
          /\ [old EXCEPT !.managed = "other"] \in IssueShape
          /\ [old EXCEPT !.managed = "none"] \in IssueShape
      BY <3>1 DEF IssueShape
    <3>4. /\ [old EXCEPT !.text = @ + 1].count = old.count
          /\ [old EXCEPT !.title = "other"].count = old.count
          /\ [old EXCEPT !.managed = "other"].count = old.count
          /\ [old EXCEPT !.managed = "none"].count = old.count
      BY <3>1 DEF IssueShape
    <3> QED BY <3>2, <3>3, <3>4
  <2> QED BY <2>1 DEF Shape, RemoteShape, SameCounts
<1>2. ASSUME NEW t \in Tasks, NEW f \in Fields, EditValue(t, f)
      PROVE  remote' \in RemoteShape /\ SameCounts(remote')
  <2>1. PICK new \in Presence : remote' = [remote EXCEPT !.value[t][f] = new]
    BY <1>2 DEF EditValue, Edit, Presence
  <2> QED BY <2>1 DEF Shape, RemoteShape, SameCounts
<1>3. ASSUME NEW f \in Fields, EditOptions(f)
      PROVE  remote' \in RemoteShape /\ SameCounts(remote')
  <2>1. PICK new \in Presence : remote' = [remote EXCEPT !.field[f] = new]
    BY <1>3 DEF EditOptions, Edit, Presence
  <2> QED BY <2>1 DEF Shape, RemoteShape, SameCounts
<1>4. ASSUME NEW v \in Views, EditView(v) \/ BuildView(v)
      PROVE  remote' \in RemoteShape /\ SameCounts(remote')
  <2>1. PICK new \in Presence : remote' = [remote EXCEPT !.view[v] = new]
    BY <1>4 DEF EditView, BuildView, Edit, Presence
  <2> QED BY <2>1 DEF Shape, RemoteShape, SameCounts
<1>5. ASSUME FileIssue
      PROVE  remote' \in RemoteShape /\ SameCounts(remote')
  <2>1. remote' = [remote EXCEPT !.foreign = TRUE]
    BY <1>5 DEF FileIssue, Edit
  <2> QED BY <2>1 DEF Shape, RemoteShape, SameCounts
<1>6. UNCHANGED <<seen, pc, progress, verdict>>
  BY DEF People, BuildView, EditText, EditIssue, EditValue, EditOptions, EditView, FileIssue, Edit
<1> QED BY <1>1, <1>2, <1>3, <1>4, <1>5, <1>6 DEF People

LEMMA StepCounts == CountInv /\ [Next]_vars => CountInv'
<1> SUFFICES ASSUME CountInv, [Next]_vars PROVE CountInv'
  OBVIOUS
<1>1. CASE Discover
  BY <1>1 DEF Discover, CountInv, Shape, NoDuplicates, CreatesAhead
<1>2. ASSUME NEW a \in Actions, Apply(a) PROVE CountInv'
  <2>1. CASE Reuse(a)
    BY <2>1 DEF Reuse, Completes, CountInv, Shape, NoDuplicates, CreatesAhead
  <2>2. CASE Mutate(a)
    BY <2>2, MutationCounts DEF Mutate, Completes, Stop, CountInv, Shape
  <2>3. CASE Fails(a)
    BY <2>3, MutationCounts DEF Fails, Stop, Raise, CountInv, Shape
  <2>4. CASE Refused(a) \/ Unsupported(a)
    BY <2>4 DEF Refused, Unsupported, MutationTurn, Stop, CountInv, Shape, NoDuplicates, CreatesAhead
  <2> QED BY <1>2, <2>1, <2>2, <2>3, <2>4 DEF Apply
<1>3. CASE Finish
  BY <1>3 DEF Finish, progress, CountInv, Shape, NoDuplicates, CreatesAhead
<1>4. CASE Check
  BY <1>4 DEF Check, progress, CountInv, Shape, NoDuplicates, CreatesAhead
<1>5. CASE Report \/ Crash
  BY <1>5 DEF Report, Crash, progress, CountInv, Shape, NoDuplicates, CreatesAhead
<1>6. CASE People \/ \E v \in Views : BuildView(v)
  <2>1. /\ remote' \in RemoteShape /\ SameCounts(remote')
        /\ UNCHANGED <<seen, pc, progress, verdict>>
    BY <1>6, PeopleCounts DEF CountInv
  <2> QED BY <2>1 DEF progress, CountInv, Shape, NoDuplicates, CreatesAhead, SameCounts
<1>7. CASE UNCHANGED vars
  BY <1>7 DEF vars, progress, CountInv, Shape, NoDuplicates, CreatesAhead
<1> QED BY <1>1, <1>2, <1>3, <1>4, <1>5, <1>6, <1>7 DEF Next, Command

\* However often github-provision fails, dies, loses an answer and is repeated, it
\* makes one project and one issue per task.
THEOREM NothingTwice == Spec => []NoDuplicates
<1>1. CountInv => NoDuplicates
  BY DEF CountInv
<1> QED BY <1>1, InitCounts, StepCounts, PTL DEF Spec
---------------------------------------------------------------------------
\* What a verdict of success rests on.  An apply that changed nothing would reuse every
\* issue, and no plan does: each apply that ends well has updated them and is checked.
SuccessInv ==
  /\ pc = "applying" /\ ~confirmed => \A t \in Tasks : <<"issue", t>> \in remaining
  /\ pc \in {"checking", "reporting"} /\ verdict = "success" => manual = {}
  /\ SuccessIsReal

LEMMA IssuesNeverReused ==
  ASSUME NEW t \in Tasks, NEW s
  PROVE  Kind(<<"issue", t>>, s) # "reuse"
<1>1. ManagedContent(s.issue[t]) # Canonical
  BY DEF ManagedContent, Canonical
<1>2. ~Same(<<"issue", t>>, s)
  BY <1>1 DEF Same
<1> QED BY <1>2 DEF Kind

\* With no view excepted, what a rediscovery accepts is everything the roadmap wants.
LEMMA ReconciledIsWanted ==
  ASSUME remote \in RemoteShape, Discoverable(remote), Reconciled(remote), manual = {}
  PROVE  Wanted(remote)
<1>1. ASSUME NEW t \in Tasks PROVE remote.issue[t].count = 1
  <2> DEFINE n == remote.issue[t].count
  <2>1. n \in Nat
    BY DEF RemoteShape, IssueShape
  <2>2. n > 0 /\ n <= 1
    BY DEF Discoverable, Reconciled
  <2> QED BY <2>1, <2>2
<1>2. \A v \in Views : remote.view[v] = "wanted"
  BY DEF Reconciled
<1> QED BY <1>1, <1>2 DEF Reconciled, Wanted

LEMMA StepSuccess ==
  ASSUME Tasks # {}, CountInv, SuccessInv, [Next]_vars
  PROVE  SuccessInv'
<1>1. CASE Discover
  BY <1>1 DEF Discover, SuccessInv, SuccessIsReal, Actions
<1>2. ASSUME NEW a \in Actions, Apply(a) PROVE SuccessInv'
  <2>1. CASE Reuse(a)
    <3>1. \A t \in Tasks : a # <<"issue", t>>
      BY <2>1, IssuesNeverReused DEF Reuse
    <3> QED BY <2>1, <3>1 DEF Reuse, Turn, Completes, SuccessInv, SuccessIsReal
  <2>2. CASE Mutate(a)
    BY <2>2 DEF Mutate, MutationTurn, Turn, Completes, Stop, SuccessInv, SuccessIsReal
  <2>3. CASE Unsupported(a)
    BY <2>3 DEF Unsupported, MutationTurn, Turn, SuccessInv, SuccessIsReal
  <2>4. CASE Refused(a) \/ Fails(a)
    BY <2>4 DEF Refused, Fails, MutationTurn, Turn, Stop, Raise, SuccessInv, SuccessIsReal
  <2> QED BY <1>2, <2>1, <2>2, <2>3, <2>4 DEF Apply
<1>3. CASE Finish
  <2>1. verdict' = "success" => remaining = {} /\ manual' = {}
    BY <1>3 DEF Finish, progress
  <2>2. verdict' = "success" => pc' = "checking"
    BY <1>3, <2>1 DEF Finish, SuccessInv
  <2> QED BY <1>3, <2>1, <2>2 DEF Finish, SuccessInv, SuccessIsReal
<1>4. CASE Check
  <2>1. manual' = manual /\ pc' = "reporting" /\ remote' = remote
    BY <1>4 DEF Check, progress
  <2>2. verdict' = "success" =>
          verdict = "success" /\ seen' = remote /\ Discoverable(remote) /\ Reconciled(remote)
    BY <1>4 DEF Check
  <2>3. verdict' = "success" => manual = {}
    BY <1>4, <2>2 DEF Check, SuccessInv
  <2>4. verdict' = "success" => Wanted(remote)
    BY <2>2, <2>3, ReconciledIsWanted DEF CountInv, Shape
  <2>5. SuccessIsReal'
    BY <2>2, <2>4 DEF SuccessIsReal
  <2> QED BY <2>1, <2>3, <2>5 DEF SuccessInv
<1>5. CASE Report \/ Crash
  BY <1>5 DEF Report, Crash, SuccessInv, SuccessIsReal
<1>6. CASE People \/ \E v \in Views : BuildView(v)
  <2>1. UNCHANGED <<seen, pc, progress, verdict>>
    BY <1>6, PeopleCounts DEF CountInv
  <2> QED BY <2>1 DEF progress, SuccessInv, SuccessIsReal
<1>7. CASE UNCHANGED vars
  BY <1>7 DEF vars, progress, SuccessInv, SuccessIsReal
<1> QED BY <1>1, <1>2, <1>3, <1>4, <1>5, <1>6, <1>7 DEF Next, Command

\* With at least one task, a report of success rests on a snapshot in which everything
\* was as wanted: the apply's own rediscovery, after its last mutation.
THEOREM SuccessHolds == ASSUME Tasks # {} PROVE Spec => []SuccessIsReal
<1>1. Init => SuccessInv
  BY DEF Init, SuccessInv, SuccessIsReal
<1>2. CountInv /\ SuccessInv /\ [Next]_vars => CountInv' /\ SuccessInv'
  BY StepCounts, StepSuccess
<1>3. SuccessInv => SuccessIsReal
  BY DEF SuccessInv
<1> QED BY <1>1, <1>2, <1>3, InitCounts, PTL DEF Spec
---------------------------------------------------------------------------
\* Nothing is ever taken off GitHub but a field value, so what the snapshot showed, and
\* what the apply completed since, exists.
Keeps(s, r) ==
  /\ r.project >= s.project
  /\ \A f \in Fields : s.field[f] # "absent" => r.field[f] # "absent"
  /\ \A t \in Tasks : r.issue[t].count >= s.issue[t].count
  /\ s.item \subseteq r.item
  /\ \A v \in Views : s.view[v] # "absent" => r.view[v] # "absent"

AccountInv ==
  pc # "idle" =>
    /\ Keeps(seen, remote)
    /\ completed \union remaining = Actions /\ completed \intersect remaining = {}
    /\ \A a \in completed : a[1] # "field-value" => There(a, remote)

LEMMA KeptIsThere ==
  ASSUME NEW s \in RemoteShape, NEW r \in RemoteShape, Keeps(s, r),
         NEW a \in Actions, a[1] # "field-value", There(a, s)
  PROVE  There(a, r)
<1>1. CASE a = Project
  BY <1>1 DEF Keeps, There, Project, RemoteShape
<1>2. ASSUME NEW f \in Fields, a = <<"field", f>> PROVE There(a, r)
  BY <1>2 DEF Keeps, There
<1>3. ASSUME NEW t \in Tasks, a = <<"issue", t>> PROVE There(a, r)
  <2>1. s.issue[t].count \in Nat /\ r.issue[t].count \in Nat
    BY DEF RemoteShape, IssueShape
  <2> QED BY <1>3, <2>1 DEF Keeps, There
<1>4. ASSUME NEW t \in Tasks, a = <<"item", t>> PROVE There(a, r)
  BY <1>4 DEF Keeps, There
<1>5. ASSUME NEW v \in Views, a = <<"view", v>> PROVE There(a, r)
  BY <1>5 DEF Keeps, There
<1> QED BY <1>1, <1>2, <1>3, <1>4, <1>5, ActionKinds

LEMMA KeepsReflexive ==
  ASSUME NEW r \in RemoteShape
  PROVE  Keeps(r, r)
<1>1. r.project \in Nat /\ \A t \in Tasks : r.issue[t].count \in Nat
  BY DEF RemoteShape, IssueShape
<1> QED BY <1>1 DEF Keeps

LEMMA KeepsTransitive ==
  ASSUME NEW s \in RemoteShape, NEW r \in RemoteShape, NEW u \in RemoteShape,
         Keeps(s, r), Keeps(r, u)
  PROVE  Keeps(s, u)
<1>1. /\ s.project \in Nat /\ r.project \in Nat /\ u.project \in Nat
      /\ \A t \in Tasks : /\ s.issue[t].count \in Nat /\ r.issue[t].count \in Nat
                          /\ u.issue[t].count \in Nat
  BY DEF RemoteShape, IssueShape
<1>2. u.project >= s.project
  BY <1>1 DEF Keeps
<1>3. ASSUME NEW t \in Tasks PROVE u.issue[t].count >= s.issue[t].count
  <2> DEFINE i == s.issue[t].count
             j == r.issue[t].count
             k == u.issue[t].count
  <2>1. i \in Nat /\ j \in Nat /\ k \in Nat
    BY <1>1
  <2>2. j >= i /\ k >= j
    BY DEF Keeps
  <2> HIDE DEF i, j, k
  <2>3. k >= i
    BY <2>1, <2>2
  <2> QED BY <2>3 DEF i, k
<1> QED BY <1>2, <1>3 DEF Keeps

\* GitHub performs a mutation by adding or changing: the object of the action exists then.
LEMMA PerformedKeeps ==
  ASSUME Shape, Keeps(seen, remote),
         NEW a \in Actions, NEW r \in Performed(a), Kind(a, seen) # "reuse"
  PROVE  Keeps(remote, r) /\ There(a, r)
<1> USE DEF Shape
<1>0. r \in RemoteShape /\ remote.project \in Nat /\ \A t \in Tasks : remote.issue[t].count \in Nat
  BY PerformedResult DEF RemoteShape, IssueShape
<1>1. CASE a = Project
  <2>1. r = WithProject
    BY <1>1 DEF Performed, Project
  <2>2. /\ r.project = remote.project + 1 /\ r.issue = remote.issue /\ r.item = remote.item
        /\ r.view = remote.view
        /\ r.field = [f \in Fields |-> IF f \in BuiltIn THEN "other" ELSE remote.field[f]]
    BY <2>1 DEF WithProject, RemoteShape
  <2> QED BY <1>0, <1>1, <2>2 DEF Keeps, There, Project
<1>2. ASSUME NEW f \in Fields, a = <<"field", f>>
      PROVE  Keeps(remote, r) /\ There(a, r)
  <2>1. PICK cleared \in SUBSET Tasks : r = WithField(f, cleared)
    BY <1>2 DEF Performed
  <2>2. /\ r.project = remote.project /\ r.issue = remote.issue /\ r.item = remote.item
        /\ r.view = remote.view /\ r.field = [remote.field EXCEPT ![f] = "wanted"]
    BY <2>1 DEF WithField, RemoteShape
  <2>3. \A g \in Fields : r.field[g] = IF g = f THEN "wanted" ELSE remote.field[g]
    BY <2>2 DEF RemoteShape
  <2> QED BY <1>0, <1>2, <2>2, <2>3 DEF Keeps, There
<1>3. ASSUME NEW t \in Tasks, a = <<"issue", t>>
      PROVE  Keeps(remote, r) /\ There(a, r)
  <2>1. r = WithIssue(t)
    BY <1>3 DEF Performed
  <2>2. /\ r.project = remote.project /\ r.field = remote.field /\ r.item = remote.item
        /\ r.view = remote.view
    BY <2>1 DEF WithIssue, RemoteShape
  <2>3. \A u \in Tasks : r.issue[u].count >= remote.issue[u].count
    BY <1>0, PerformedResult, <1>3 DEF SameCounts, Project
  <2>4. r.issue[t].count > 0
    <3>1. CASE Kind(a, seen) = "create"
      <4>1. r.issue[t].count = remote.issue[t].count + 1
        BY <1>3, <2>1, <3>1 DEF WithIssue, RemoteShape
      <4> QED BY <1>0, <4>1
    <3>2. CASE Kind(a, seen) # "create"
      <4>1. There(a, seen)
        BY <3>2 DEF Kind
      <4>2. There(a, remote)
        BY <1>3, <4>1, KeptIsThere
      <4>3. remote.issue[t].count > 0
        BY <1>3, <4>2 DEF There
      <4>4. r.issue[t].count \in Nat
        BY <1>0 DEF RemoteShape, IssueShape
      <4> QED BY <1>0, <2>3, <4>3, <4>4
    <3> QED BY <3>1, <3>2
  <2> QED BY <1>0, <1>3, <2>2, <2>3, <2>4 DEF Keeps, There
<1>4. ASSUME NEW t \in Tasks, a = <<"item", t>>
      PROVE  Keeps(remote, r) /\ There(a, r)
  <2>1. r = [remote EXCEPT !.item = remote.item \union {t}]
    BY <1>4 DEF Performed
  <2>2. /\ r.project = remote.project /\ r.issue = remote.issue /\ r.field = remote.field
        /\ r.view = remote.view /\ r.item = remote.item \union {t}
    BY <2>1 DEF RemoteShape
  <2> QED BY <1>0, <1>4, <2>2 DEF Keeps, There
<1>5. ASSUME NEW t \in Tasks, NEW f \in Fields, a = <<"field-value", <<t, f>>>>
      PROVE  Keeps(remote, r) /\ There(a, r)
  <2>1. r = [remote EXCEPT !.value[t][f] = "wanted"]
    BY <1>5 DEF Performed
  <2>2. /\ r.project = remote.project /\ r.issue = remote.issue /\ r.field = remote.field
        /\ r.view = remote.view /\ r.item = remote.item /\ r.value[t][f] = "wanted"
    BY <2>1 DEF RemoteShape
  <2> QED BY <1>0, <1>5, <2>2 DEF Keeps, There
<1>6. ASSUME NEW v \in Views, a = <<"view", v>>
      PROVE  Keeps(remote, r) /\ There(a, r)
  <2>1. r = [remote EXCEPT !.view[v] = "wanted"]
    BY <1>6 DEF Performed
  <2>2. /\ r.project = remote.project /\ r.issue = remote.issue /\ r.field = remote.field
        /\ r.item = remote.item /\ r.view = [remote.view EXCEPT ![v] = "wanted"]
    BY <2>1 DEF RemoteShape
  <2>3. \A w \in Views : r.view[w] = IF w = v THEN "wanted" ELSE remote.view[w]
    BY <2>2 DEF RemoteShape
  <2> QED BY <1>0, <1>6, <2>2, <2>3 DEF Keeps, There
<1> QED BY <1>1, <1>2, <1>3, <1>4, <1>5, <1>6, ActionKinds

LEMMA PeopleKeep ==
  ASSUME Shape, People \/ \E v \in Views : BuildView(v)
  PROVE  Keeps(remote, remote')
<1>0. /\ remote' \in RemoteShape /\ SameCounts(remote') /\ remote.project \in Nat
      /\ \A t \in Tasks : remote.issue[t].count \in Nat
  BY PeopleCounts DEF Shape, RemoteShape, IssueShape
<1>1. /\ remote'.project >= remote.project
      /\ \A t \in Tasks : remote'.issue[t].count >= remote.issue[t].count
  BY <1>0 DEF SameCounts
<1>2. /\ remote'.item = remote.item
      /\ \A f \in Fields : remote.field[f] # "absent" => remote'.field[f] # "absent"
      /\ \A v \in Views : remote.view[v] # "absent" => remote'.view[v] # "absent"
  <2>1. ASSUME NEW t \in Tasks, EditText(t) \/ EditIssue(t) \/ \E f \in Fields : EditValue(t, f)
        PROVE  remote'.item = remote.item /\ remote'.field = remote.field /\ remote'.view = remote.view
    BY <2>1 DEF EditText, EditIssue, EditValue, Edit, Shape, RemoteShape
  <2>2. ASSUME FileIssue
        PROVE  remote'.item = remote.item /\ remote'.field = remote.field /\ remote'.view = remote.view
    BY <2>2 DEF FileIssue, Edit, Shape, RemoteShape
  <2>3. ASSUME NEW f \in Fields, EditOptions(f)
        PROVE  /\ remote'.item = remote.item /\ remote'.view = remote.view
               /\ remote'.field = [remote.field EXCEPT ![f] = "other"]
    BY <2>3 DEF EditOptions, Edit, Shape, RemoteShape
  <2>4. ASSUME NEW v \in Views, EditView(v) \/ BuildView(v)
        PROVE  /\ remote'.item = remote.item /\ remote'.field = remote.field
               /\ \E p \in {"other", "wanted"} : remote'.view = [remote.view EXCEPT ![v] = p]
    BY <2>4 DEF EditView, BuildView, Edit, Shape, RemoteShape
  <2>5. remote.field \in [Fields -> Presence] /\ remote.view \in [Views -> Presence]
    BY DEF Shape, RemoteShape
  <2> QED BY <2>1, <2>2, <2>3, <2>4, <2>5 DEF People
<1> QED BY <1>1, <1>2 DEF Keeps

\* A mutation, whether it is answered (and its action completed) or not.
LEMMA MutationAccounts ==
  ASSUME CountInv, AccountInv, NEW a \in Actions, MutationTurn(a),
         remote' \in Performed(a) \union {remote},
         \/ UNCHANGED <<completed, remaining>>
         \/ remote' \in Performed(a) /\ Completes(a)
  PROVE  AccountInv'
<1>1. /\ pc = "applying" /\ a \in remaining /\ Kind(a, seen) # "reuse" /\ seen' = seen
      /\ Shape /\ Keeps(seen, remote) /\ remaining \subseteq Actions
  BY DEF MutationTurn, Turn, AccountInv, CountInv, Shape
<1>2. remote' \in RemoteShape
  BY <1>1, PerformedResult DEF Shape
<1>3. Keeps(remote, remote')
  BY <1>1, PerformedKeeps, KeepsReflexive DEF Shape
<1>4. Keeps(seen, remote')
  BY <1>1, <1>2, <1>3, KeepsTransitive DEF Shape
<1>5. completed' \union remaining' = Actions /\ completed' \intersect remaining' = {}
  BY <1>1 DEF AccountInv, Completes
<1>6. ASSUME NEW b \in completed', b[1] # "field-value" PROVE There(b, remote')
  <2>1. CASE b \in completed
    <3>1. There(b, remote) /\ b \in Actions
      BY <1>1, <1>6, <2>1 DEF AccountInv
    <3> QED BY <1>1, <1>2, <1>3, <1>6, <3>1, KeptIsThere DEF Shape
  <2>2. CASE b \notin completed
    <3>1. b = a /\ remote' \in Performed(a)
      BY <2>2 DEF Completes
    <3> QED BY <1>1, <3>1, PerformedKeeps
  <2> QED BY <2>1, <2>2
<1> QED BY <1>1, <1>4, <1>5, <1>6 DEF AccountInv

LEMMA StepAccounts == CountInv /\ AccountInv /\ [Next]_vars => AccountInv'
<1> SUFFICES ASSUME CountInv, AccountInv, [Next]_vars PROVE AccountInv'
  OBVIOUS
<1>0. remote \in RemoteShape /\ seen \in RemoteShape
  BY DEF CountInv, Shape
<1>1. CASE Discover
  BY <1>0, <1>1, KeepsReflexive DEF Discover, AccountInv
<1>2. ASSUME NEW a \in Actions, Apply(a) PROVE AccountInv'
  <2>1. CASE Reuse(a)
    <3>1. There(a, seen)
      BY <2>1 DEF Reuse, Kind
    <3>2. pc # "idle" /\ a \in remaining /\ Completes(a) /\ UNCHANGED <<remote, seen, pc>>
      BY <2>1 DEF Reuse, Turn
    <3>3. a[1] # "field-value" => There(a, remote)
      BY <1>0, <3>1, <3>2, KeptIsThere DEF AccountInv
    <3> QED BY <3>2, <3>3 DEF Completes, AccountInv
  <2>2. CASE Mutate(a)
    BY <2>2, MutationAccounts DEF Mutate, Stop
  <2>3. CASE Fails(a)
    BY <2>3, MutationAccounts DEF Fails, Stop, Raise
  <2>4. CASE Refused(a) \/ Unsupported(a)
    BY <2>4 DEF Refused, Unsupported, MutationTurn, Turn, Stop, AccountInv
  <2> QED BY <1>2, <2>1, <2>2, <2>3, <2>4 DEF Apply
<1>3. CASE Finish
  BY <1>3 DEF Finish, progress, AccountInv
<1>4. CASE Check
  BY <1>0, <1>4, KeepsReflexive DEF Check, progress, AccountInv
<1>5. CASE Report \/ Crash
  BY <1>5 DEF Report, Crash, AccountInv
<1>6. CASE People \/ \E v \in Views : BuildView(v)
  <2>1. UNCHANGED <<seen, pc, completed, remaining>> /\ remote' \in RemoteShape
    BY <1>6, PeopleCounts DEF CountInv, progress
  <2>2. Keeps(remote, remote')
    BY <1>6, PeopleKeep DEF CountInv
  <2>3. pc # "idle" => Keeps(seen, remote')
    BY <1>0, <2>1, <2>2, KeepsTransitive DEF AccountInv
  <2>4. pc # "idle" => \A a \in completed : a[1] # "field-value" => There(a, remote')
    BY <1>0, <2>1, <2>2, KeptIsThere DEF AccountInv
  <2> QED BY <2>1, <2>3, <2>4 DEF AccountInv
<1>7. CASE UNCHANGED vars
  BY <1>7 DEF vars, progress, AccountInv
<1> QED BY <1>1, <1>2, <1>3, <1>4, <1>5, <1>6, <1>7 DEF Next, Command

\* The report of an apply, whatever failed in it, accounts for every action of the plan,
\* once, and what it calls completed exists on GitHub.
THEOREM EverythingAccountedFor == Spec => []ReportAccounts
<1>1. Init => AccountInv
  BY DEF Init, AccountInv
<1>2. AccountInv => ReportAccounts
  BY DEF AccountInv, ReportAccounts
<1> QED BY <1>1, <1>2, InitCounts, StepCounts, StepAccounts, PTL DEF Spec
---------------------------------------------------------------------------
\* Text around the managed region takes an issue and an edit, and the snapshot of a
\* running apply has no text that is not there any more.
TextInv ==
  /\ edits \in 0..Edits
  /\ \A t \in Tasks : /\ remote.issue[t].text <= edits /\ seen.issue[t].text <= edits
                      /\ remote.issue[t].count = 0 => remote.issue[t].text = 0
                      /\ seen.issue[t].count = 0 => seen.issue[t].text = 0
  /\ ReadTextKept

IssueNumbers ==
  \A t \in Tasks : /\ remote.issue[t].count \in Nat /\ remote.issue[t].text \in Nat
                   /\ seen.issue[t].count \in Nat /\ seen.issue[t].text \in Nat

LEMMA ShapeNumbers == Shape => IssueNumbers
  BY DEF Shape, RemoteShape, IssueShape, IssueNumbers

SameIssue(t, r) ==
  r.issue[t].text = remote.issue[t].text /\ r.issue[t].count = remote.issue[t].count

\* A mutation makes an empty issue the snapshot did not have, or sends the text of one
\* that it had.
LEMMA PerformedText ==
  ASSUME Shape, NEW a \in Actions, NEW r \in Performed(a), Kind(a, seen) # "reuse",
         NEW t \in Tasks
  PROVE  \/ SameIssue(t, r)
         \/ /\ seen.issue[t].count = 0 /\ r.issue[t].text = 0
            /\ r.issue[t].count = remote.issue[t].count + 1
         \/ /\ seen.issue[t].count > 0 /\ r.issue[t].text = seen.issue[t].text
            /\ r.issue[t].count = remote.issue[t].count
<1> USE DEF Shape
<1>1. CASE \A u \in Tasks : a # <<"issue", u>>
  <2>1. r.issue = remote.issue
    <3>1. CASE a = Project
      BY <3>1 DEF Performed, Project, WithProject, RemoteShape
    <3>2. ASSUME NEW f \in Fields, a = <<"field", f>> PROVE r.issue = remote.issue
      BY <3>2 DEF Performed, WithField, RemoteShape
    <3>3. ASSUME NEW u \in Tasks, a = <<"item", u>> PROVE r.issue = remote.issue
      BY <3>3 DEF Performed, RemoteShape
    <3>4. ASSUME NEW u \in Tasks, NEW f \in Fields, a = <<"field-value", <<u, f>>>>
          PROVE  r.issue = remote.issue
      BY <3>4 DEF Performed, RemoteShape
    <3>5. ASSUME NEW v \in Views, a = <<"view", v>> PROVE r.issue = remote.issue
      BY <3>5 DEF Performed, RemoteShape
    <3> QED BY <1>1, <3>1, <3>2, <3>3, <3>4, <3>5, ActionKinds
  <2> QED BY <2>1 DEF SameIssue
<1>2. ASSUME NEW u \in Tasks, a = <<"issue", u>>
      PROVE  \/ SameIssue(t, r)
             \/ /\ seen.issue[t].count = 0 /\ r.issue[t].text = 0
                /\ r.issue[t].count = remote.issue[t].count + 1
             \/ /\ seen.issue[t].count > 0 /\ r.issue[t].text = seen.issue[t].text
                /\ r.issue[t].count = remote.issue[t].count
  <2>1. r = WithIssue(u)
    BY <1>2 DEF Performed
  <2>2. CASE u # t
    BY <2>1, <2>2 DEF WithIssue, RemoteShape, SameIssue
  <2>3. CASE u = t /\ Kind(a, seen) = "create"
    <3>1. /\ r.issue[t].text = 0 /\ r.issue[t].count = remote.issue[t].count + 1
      BY <1>2, <2>1, <2>3 DEF WithIssue, RemoteShape
    <3>2. ~There(a, seen)
      BY <1>2, <2>3 DEF Kind
    <3>3. seen.issue[t].count = 0
      BY <1>2, <2>3, <3>2, ShapeNumbers DEF There, IssueNumbers
    <3> QED BY <3>1, <3>3
  <2>4. CASE u = t /\ Kind(a, seen) # "create"
    <3>1. There(a, seen)
      BY <2>4 DEF Kind
    <3> DEFINE old == remote.issue[t]
               text == seen.issue[t].text
               new == [old EXCEPT !.title = "wanted", !.managed = "wanted", !.text = text]
    <3>2. r.issue[t] = new
      BY <1>2, <2>1, <2>4 DEF WithIssue, RemoteShape, TextSent
    <3>3. old \in IssueShape
      BY DEF RemoteShape
    <3>4. new.text = text /\ new.count = old.count
      BY <3>3 DEF IssueShape
    <3> QED BY <1>2, <2>4, <3>1, <3>2, <3>4 DEF There
  <2> QED BY <2>2, <2>3, <2>4
<1> QED BY <1>1, <1>2

LEMMA PeopleText ==
  ASSUME Shape, People \/ \E v \in Views : BuildView(v)
  PROVE  \/ edits' = edits /\ remote'.issue = remote.issue
         \/ /\ edits < Edits /\ edits' = edits + 1
            /\ \A t \in Tasks :
                 \/ SameIssue(t, remote')
                 \/ /\ remote.issue[t].count > 0 /\ remote'.issue[t].text = remote.issue[t].text + 1
                    /\ remote'.issue[t].count = remote.issue[t].count
<1> USE DEF Shape
<1>1. CASE \E v \in Views : BuildView(v)
  BY <1>1 DEF BuildView, RemoteShape
<1>2. ASSUME NEW t \in Tasks, EditText(t) \/ EditIssue(t)
      PROVE  /\ edits < Edits /\ edits' = edits + 1
             /\ \A u \in Tasks \ {t} : SameIssue(u, remote')
             /\ \/ SameIssue(t, remote')
                \/ /\ remote.issue[t].count > 0 /\ remote'.issue[t].text = remote.issue[t].text + 1
                   /\ remote'.issue[t].count = remote.issue[t].count
  <2> DEFINE old == remote.issue[t]
  <2>1. old \in IssueShape
    BY DEF RemoteShape
  <2>2. PICK new :
          /\ remote' = [remote EXCEPT !.issue[t] = new]
          /\ \/ new = [old EXCEPT !.text = @ + 1]
             \/ new = [old EXCEPT !.title = "other"]
             \/ new = [old EXCEPT !.managed = "other"]
             \/ new = [old EXCEPT !.managed = "none"]
    BY <1>2 DEF EditText, EditIssue, Edit
  <2>3. new.count = old.count /\ new.text \in {old.text, old.text + 1}
    BY <2>1, <2>2 DEF IssueShape
  <2>4. remote.issue[t].count > 0 /\ edits < Edits /\ edits' = edits + 1
    BY <1>2 DEF EditText, EditIssue, Edit
  <2>5. remote'.issue = [remote.issue EXCEPT ![t] = new]
    BY <2>2 DEF RemoteShape
  <2>6. \A u \in Tasks : remote'.issue[u] = IF u = t THEN new ELSE remote.issue[u]
    BY <2>5 DEF RemoteShape
  <2> QED BY <2>3, <2>4, <2>6 DEF SameIssue
<1>3. ASSUME \/ \E t \in Tasks, f \in Fields : EditValue(t, f)
             \/ \E f \in Fields : EditOptions(f)
             \/ \E v \in Views : EditView(v)
             \/ FileIssue
      PROVE  edits < Edits /\ edits' = edits + 1 /\ \A u \in Tasks : SameIssue(u, remote')
  <2>1. remote'.issue = remote.issue
    BY <1>3 DEF EditValue, EditOptions, EditView, FileIssue, Edit, RemoteShape
  <2>2. edits < Edits /\ edits' = edits + 1
    BY <1>3 DEF EditValue, EditOptions, EditView, FileIssue, Edit
  <2> QED BY <2>1, <2>2 DEF SameIssue
<1> QED BY <1>1, <1>2, <1>3 DEF People

LEMMA MutationText ==
  ASSUME CountInv, AccountInv, TextInv, NEW a \in Actions, MutationTurn(a),
         remote' \in Performed(a) \union {remote}
  PROVE  TextInv'
<1>1. /\ pc = "applying" /\ Kind(a, seen) # "reuse" /\ seen' = seen /\ edits' = edits
      /\ Shape /\ Keeps(seen, remote)
  BY DEF MutationTurn, Turn, AccountInv, CountInv
<1>2. IssueNumbers /\ edits \in Nat
  BY <1>1, ShapeNumbers, ProvisionerAssumption DEF TextInv
<1>3. ASSUME NEW t \in Tasks
      PROVE  /\ remote'.issue[t].text <= edits
             /\ remote'.issue[t].count = 0 => remote'.issue[t].text = 0
             /\ remote'.issue[t].text >= seen.issue[t].text
  <2>1. \/ SameIssue(t, remote')
        \/ /\ seen.issue[t].count = 0 /\ remote'.issue[t].text = 0
           /\ remote'.issue[t].count = remote.issue[t].count + 1
        \/ /\ seen.issue[t].count > 0 /\ remote'.issue[t].text = seen.issue[t].text
           /\ remote'.issue[t].count = remote.issue[t].count
    BY <1>1, PerformedText DEF SameIssue
  <2>2. remote.issue[t].count >= seen.issue[t].count
    BY <1>1 DEF Keeps
  <2>3. remote.issue[t].text >= seen.issue[t].text /\ remote.issue[t].text <= edits
        /\ seen.issue[t].text <= edits
        /\ (remote.issue[t].count = 0 => remote.issue[t].text = 0)
        /\ (seen.issue[t].count = 0 => seen.issue[t].text = 0)
    BY <1>1 DEF TextInv, ReadTextKept
  <2>4. /\ remote.issue[t].count \in Nat /\ remote.issue[t].text \in Nat
        /\ seen.issue[t].count \in Nat /\ seen.issue[t].text \in Nat
    BY <1>2 DEF IssueNumbers
  <2> QED BY <1>2, <2>1, <2>2, <2>3, <2>4 DEF SameIssue
<1> QED BY <1>1, <1>3 DEF TextInv, ReadTextKept

LEMMA StepText == CountInv /\ AccountInv /\ TextInv /\ [Next]_vars => TextInv'
<1> SUFFICES ASSUME CountInv, AccountInv, TextInv, [Next]_vars PROVE TextInv'
  OBVIOUS
<1>0. Shape /\ IssueNumbers /\ edits \in Nat
  BY ShapeNumbers, ProvisionerAssumption DEF CountInv, TextInv
<1>1. CASE Discover
  BY <1>0, <1>1 DEF Discover, TextInv, ReadTextKept, IssueNumbers
<1>2. ASSUME NEW a \in Actions, Apply(a) PROVE TextInv'
  <2>1. CASE Mutate(a) \/ Fails(a)
    BY <2>1, MutationText DEF Mutate, Fails
  <2>2. CASE Reuse(a) \/ Refused(a) \/ Unsupported(a)
    <3>1. UNCHANGED <<remote, seen, edits>> /\ pc # "idle"
      BY <2>2 DEF Reuse, Refused, Unsupported, MutationTurn, Turn
    <3> QED BY <3>1 DEF TextInv, ReadTextKept
  <2> QED BY <1>2, <2>1, <2>2 DEF Apply
<1>3. CASE Finish \/ Report \/ Crash
  <2>1. UNCHANGED <<remote, seen, edits>> /\ pc # "idle"
    BY <1>3 DEF Finish, Report, Crash
  <2> QED BY <2>1 DEF TextInv, ReadTextKept
<1>4. CASE Check
  <2>1. UNCHANGED <<remote, edits>> /\ pc # "idle" /\ seen' \in {seen, remote}
    BY <1>4 DEF Check
  <2> QED BY <1>0, <2>1 DEF TextInv, ReadTextKept, IssueNumbers
<1>5. CASE People \/ \E v \in Views : BuildView(v)
  <2>1. UNCHANGED <<seen, pc>>
    BY <1>0, <1>5, PeopleCounts
  <2>2. CASE edits' = edits /\ remote'.issue = remote.issue
    BY <2>1, <2>2 DEF TextInv, ReadTextKept
  <2>3. CASE /\ edits < Edits /\ edits' = edits + 1
             /\ \A t \in Tasks :
                  \/ SameIssue(t, remote')
                  \/ /\ remote.issue[t].count > 0
                     /\ remote'.issue[t].text = remote.issue[t].text + 1
                     /\ remote'.issue[t].count = remote.issue[t].count
    <3>1. edits' \in 0..Edits
      BY <1>0, <2>3, ProvisionerAssumption
    <3>2. ASSUME NEW t \in Tasks
          PROVE  /\ remote'.issue[t].text <= edits' /\ seen.issue[t].text <= edits'
                 /\ remote'.issue[t].count = 0 => remote'.issue[t].text = 0
                 /\ remote'.issue[t].text >= remote.issue[t].text
      <4>1. /\ remote.issue[t].count \in Nat /\ remote.issue[t].text \in Nat
            /\ seen.issue[t].text \in Nat
            /\ remote.issue[t].text <= edits /\ seen.issue[t].text <= edits
            /\ remote.issue[t].count = 0 => remote.issue[t].text = 0
        BY <1>0 DEF IssueNumbers, TextInv
      <4> QED BY <1>0, <2>3, <4>1 DEF SameIssue
    <3>3. pc # "idle" => \A t \in Tasks : remote'.issue[t].text >= seen.issue[t].text
      <4> SUFFICES ASSUME pc # "idle", NEW t \in Tasks
                   PROVE  remote'.issue[t].text >= seen.issue[t].text
        OBVIOUS
      <4>1. /\ remote.issue[t].text >= seen.issue[t].text
            /\ remote'.issue[t].text >= remote.issue[t].text
        BY <3>2 DEF TextInv, ReadTextKept
      <4>2. remote.issue[t].text \in Nat /\ seen.issue[t].text \in Nat
        BY <1>0 DEF IssueNumbers
      <4>3. remote'.issue[t].text \in {remote.issue[t].text, remote.issue[t].text + 1}
        BY <2>3 DEF SameIssue
      <4> QED BY <4>1, <4>2, <4>3
    <3> QED BY <2>1, <3>1, <3>2, <3>3 DEF TextInv, ReadTextKept
  <2> QED BY <1>0, <1>5, <2>2, <2>3, PeopleText
<1>6. CASE UNCHANGED vars
  BY <1>6 DEF vars, TextInv, ReadTextKept
<1> QED BY <1>1, <1>2, <1>3, <1>4, <1>5, <1>6 DEF Next, Command

LEMMA InitText == Init => TextInv
<1> SUFFICES ASSUME Init PROVE TextInv
  OBVIOUS
<1>1. PICK supports \in BOOLEAN : remote = NoProject(supports)
  BY DEF Init
<1>2. \A t \in Tasks : remote.issue[t].count = 0 /\ remote.issue[t].text = 0
  BY <1>1 DEF NoProject, NoIssue
<1> QED BY <1>2, ProvisionerAssumption DEF Init, TextInv, ReadTextKept

\* What people wrote in an issue before the apply read it survives the apply's updates,
\* however the plan, made before them, and later edits interleave.
THEOREM PeoplesTextKept == Spec => []ReadTextKept
<1>1. Init => AccountInv
  BY DEF Init, AccountInv
<1>2. TextInv => ReadTextKept
  BY DEF TextInv
<1> QED BY <1>1, <1>2, InitCounts, InitText, StepCounts, StepAccounts, StepText, PTL DEF Spec
---------------------------------------------------------------------------
\* The other variables, with the snapshot, which discover_state refuses to make of two
\* projects or two issues.
StatusInv ==
  /\ pc \in {"idle", "applying", "checking", "reporting"}
  /\ remaining \subseteq Actions /\ completed \subseteq Actions
  /\ manual \subseteq {"view"} \X Views /\ answered \subseteq Actions
  /\ error \in BOOLEAN /\ confirmed \in BOOLEAN
  /\ verdict \in {"none", "success", "partial"} /\ report \in {"none", "success", "partial"}
  /\ failures \in 0..Failures
  /\ pc = "applying" => ~error
  /\ pc = "checking" => confirmed
  /\ pc \in {"checking", "reporting"} <=> verdict # "none"
  /\ seen.project <= 1 /\ \A t \in Tasks : seen.issue[t].count <= 1

LEMMA StepStatus == CountInv /\ StatusInv /\ [Next]_vars => StatusInv'
<1> SUFFICES ASSUME CountInv, StatusInv, [Next]_vars PROVE StatusInv'
  OBVIOUS
<1>0. failures \in Nat /\ Failures \in Nat
  BY ProvisionerAssumption DEF StatusInv
<1>1. CASE Discover
  BY <1>1 DEF Discover, Discoverable, StatusInv
<1>2. ASSUME NEW a \in Actions, Apply(a) PROVE StatusInv'
  <2>1. CASE Reuse(a)
    BY <2>1 DEF Reuse, Completes, Turn, StatusInv
  <2>2. CASE Mutate(a)
    BY <2>2 DEF Mutate, MutationTurn, Turn, Completes, Stop, StatusInv
  <2>3. CASE Unsupported(a)
    <3>1. a \in {"view"} \X Views
      <4>1. a[1] = "view"
        BY <2>3 DEF Unsupported, Supported
      <4> QED BY <4>1, ActionKinds DEF Project
    <3> QED BY <2>3, <3>1 DEF Unsupported, MutationTurn, Turn, StatusInv
  <2>4. CASE Refused(a)
    BY <2>4 DEF Refused, MutationTurn, Turn, Stop, StatusInv
  <2>5. CASE Fails(a)
    <3>1. failures' \in 0..Failures
      BY <1>0, <2>5 DEF Fails
    <3>2. /\ pc = "applying" /\ ~error /\ verdict = "none"
          /\ UNCHANGED <<seen, remaining, completed, manual, answered, confirmed, report>>
      BY <2>5 DEF Fails, MutationTurn, Turn, Stop, Raise, StatusInv
    <3>3. CASE Stop
      BY <3>1, <3>2, <3>3 DEF Stop, StatusInv
    <3>4. CASE Raise
      BY <3>1, <3>2, <3>4 DEF Raise, StatusInv
    <3> QED BY <2>5, <3>3, <3>4 DEF Fails
  <2> QED BY <1>2, <2>1, <2>2, <2>3, <2>4, <2>5 DEF Apply
<1>3. CASE Finish
  BY <1>3 DEF Finish, progress, StatusInv
<1>4. CASE Check
  <2>1. failures' \in 0..Failures
    BY <1>0, <1>4 DEF Check, StatusInv
  <2>2. seen'.project <= 1 /\ \A t \in Tasks : seen'.issue[t].count <= 1
    BY <1>4 DEF Check, Discoverable, StatusInv
  <2>3. verdict' \in {"success", "partial"}
    BY <1>4 DEF Check, StatusInv
  <2> QED BY <1>4, <2>1, <2>2, <2>3 DEF Check, progress, StatusInv
<1>5. CASE Report \/ Crash
  <2>1. failures' \in 0..Failures
    BY <1>0, <1>5 DEF Report, Crash, StatusInv
  <2>2. report' \in {report, verdict} /\ verdict' = "none" /\ pc' = "idle"
    BY <1>5 DEF Report, Crash
  <2> QED BY <1>5, <2>1, <2>2 DEF Report, Crash, progress, StatusInv
<1>6. CASE People \/ \E v \in Views : BuildView(v)
  <2>1. UNCHANGED <<seen, pc, progress, verdict>>
    BY <1>6, PeopleCounts DEF CountInv
  <2>2. UNCHANGED <<report, failures>>
    BY <1>6 DEF People, BuildView, EditText, EditIssue, EditValue, EditOptions, EditView,
       FileIssue, Edit
  <2> QED BY <2>1, <2>2 DEF progress, StatusInv
<1>7. CASE UNCHANGED vars
  BY <1>7 DEF vars, progress, StatusInv
<1> QED BY <1>1, <1>2, <1>3, <1>4, <1>5, <1>6, <1>7 DEF Next, Command

LEMMA BoundedRemote ==
  ASSUME NEW r \in RemoteShape, r.project <= 1, edits \in 0..Edits,
         \A t \in Tasks : r.issue[t].count <= 1 /\ r.issue[t].text <= edits
  PROVE  r \in Remotes
<1>1. r.project \in 0..2
  <2>1. r.project \in Nat
    BY DEF RemoteShape
  <2> QED BY <2>1
<1>2. ASSUME NEW t \in Tasks PROVE r.issue[t] \in Issues
  <2>1. r.issue[t] \in IssueShape
    BY DEF RemoteShape
  <2>2. r.issue[t].count \in 0..2 /\ r.issue[t].text \in 0..Edits
    BY <2>1, ProvisionerAssumption DEF IssueShape
  <2> QED BY <2>1, <2>2 DEF IssueShape, Issues
<1>3. r.issue \in [Tasks -> Issues]
  BY <1>2 DEF RemoteShape
<1> QED BY <1>1, <1>3 DEF RemoteShape, Remotes

\* Only an apply that confirmed a mutation is checked, only a finished one has a verdict,
\* a second project or issue is never made and an issue's text never outgrows the edits.
THEOREM TypeCorrect == Spec => []ProvisionerTypeOK
<1>1. Init => AccountInv /\ StatusInv
  <2> SUFFICES ASSUME Init PROVE StatusInv
    BY DEF Init, AccountInv
  <2>1. PICK supports \in BOOLEAN : remote = NoProject(supports)
    BY DEF Init
  <2>2. remote.project = 0 /\ \A t \in Tasks : remote.issue[t].count = 0
    BY <2>1 DEF NoProject, NoIssue
  <2>3. failures \in 0..Failures
    BY ProvisionerAssumption DEF Init
  <2>4. seen.project <= 1 /\ \A t \in Tasks : seen.issue[t].count <= 1
    BY <2>2 DEF Init
  <2> QED BY <2>3, <2>4 DEF Init, StatusInv
<1>2. CountInv /\ TextInv /\ StatusInv => ProvisionerTypeOK
  <2> SUFFICES ASSUME CountInv, TextInv, StatusInv PROVE ProvisionerTypeOK
    OBVIOUS
  <2>1. remote \in Remotes
    BY BoundedRemote DEF CountInv, Shape, NoDuplicates, TextInv
  <2>2. seen \in Remotes
    BY BoundedRemote DEF CountInv, Shape, StatusInv, TextInv
  <2> QED BY <2>1, <2>2 DEF StatusInv, TextInv, ProvisionerTypeOK
<1> QED BY <1>1, <1>2, InitCounts, InitText, StepCounts, StepAccounts, StepText, StepStatus, PTL
        DEF Spec
============================================================================
