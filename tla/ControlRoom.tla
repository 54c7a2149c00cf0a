---------------------------- MODULE ControlRoom ----------------------------
(***************************************************************************)
(* The commands of the Project Control Room (src/app/project_control) that *)
(* write to the repository: `snapshot` and `board-export` replace          *)
(* CURRENT.md and BOARD.md, `codegraph` writes graph.json and then         *)
(* manifest.json, `handoff` creates a note, an applied provisioning        *)
(* replaces its report and the artifact index; `validate` reads them.      *)
(* Sessions run them at the same time, a developer edits and commits       *)
(* meanwhile, writes fail, sessions die.                                   *)
(*                                                                         *)
(* Path 0 stands for the source, the others for handoff and decision       *)
(* notes; the content of a path is a version: 0 when the path is absent,   *)
(* the last one, of a note, when the loaders refuse it.  History is linear *)
(* and a commit takes the whole work tree.                                 *)
(***************************************************************************)
EXTENDS Integers, Sequences, FiniteSets

CONSTANTS
    Sessions,     \* processes that run commands
    Notes,        \* handoff notes: the paths 1..Notes
    Versions,     \* bound: the last version of a path
    MaxCommands,  \* bound: commands started
    MaxCommits,   \* bound: commits of the developer after the first
    MaxEdits,     \* bound: edits of the developer
    Overlap       \* whether two sessions run one command at the same time

ASSUME RoomAssumption ==
    /\ Notes \in Nat /\ Versions \in Nat \ {0, 1}
    /\ MaxCommands \in Nat /\ MaxCommits \in Nat /\ MaxEdits \in Nat
    /\ Overlap \in BOOLEAN

VARIABLES
    work,     \* the work tree's content of each path
    log,      \* the commits, each the content of every path
    file,     \* the generated files
    at,       \* each session: where it is, its command, what it writes, what it puts back
    started,  \* commands started
    edits,    \* edits made
    apart     \* history: pairs left as they were by a death, by a failure that was reported,
              \* or by the rollback of a report whose old content could not be read

vars == <<work, log, file, at, started, edits, apart>>

Paths == 0..Notes
Trees == [Paths -> 0..Versions]
Malformed == Versions

Pairs == {"snapshot", "report", "codegraph"}
Commands == Pairs \cup {"export", "handoff"}
PairOf(c) == IF c = "export" THEN "snapshot" ELSE c
First(c) == CASE PairOf(c) = "snapshot" -> "current" [] c = "report" -> "report" [] OTHER -> "graph"
Second(c) == CASE PairOf(c) = "snapshot" -> "board" [] c = "report" -> "index" [] OTHER -> "manifest"
Files == {"current", "board", "report", "index", "graph", "manifest"}
PairFile(c, i) == IF i = 1 THEN First(c) ELSE Second(c)
HalfWay == {"second", "undo first", "undo second"}
Tip == log[Len(log)]

(* A page: the command that made it, the inputs it was made from, the revision a
   snapshot names (0 is `unavailable`) and the digest a manifest holds.
   stable is history: nothing moved between the inputs and the label. *)
Nothing == [x \in Paths |-> 0]
Blank == [of |-> 0, inputs |-> Nothing, label |-> 0, digest |-> Nothing, stable |-> TRUE]
Torn == [Blank EXCEPT !.of = -1]
Absent == [Blank EXCEPT !.of = -2]
Pages == [of: -2..MaxCommands, inputs: Trees, label: Nat, digest: Trees, stable: BOOLEAN]

(* A session: where it is, its command, the page it makes, the pages it puts back,
   whether a step of its rollback failed, and whether something moved since it
   read its inputs. *)
Idle == [pc |-> "idle", cmd |-> "none", new |-> Blank, old |-> <<Blank, Blank>>,
         partly |-> FALSE, moved |-> FALSE]
Contexts == [pc: {"idle", "fetch", "load", "label", "ready", "first", "check", "create"}
                    \cup HalfWay,
             cmd: Commands \cup {"none"}, new: Pages, old: Pages \X Pages,
             partly: BOOLEAN, moved: BOOLEAN]

-----------------------------------------------------------------------------
(* tracked_graph_inputs and source_tree_digest, which refuse a tracked path that
   is not there. *)
Tracked == {x \in Paths : Tip[x] # 0}
AllPresent(X) == \A x \in X : work[x] # 0
DigestNames(X) == [x \in X |-> work[x]]
Digest(X) == [x \in Paths |-> IF x \in X THEN work[x] ELSE 0]

(* validate_codegraph_freshness: the manifest's digest is the source's. *)
Fresh ==
    /\ file["manifest"] # Absent /\ AllPresent(Tracked)
    /\ file["manifest"].digest = Digest(Tracked)

(* What loading refuses: a note, a missing index. *)
NotesValid == \A x \in Paths \ {0} : work[x] # Malformed
IndexThere == file["index"] # Absent

(* validate_control_room reads all of it and changes nothing. *)
RoomValid == NotesValid /\ IndexThere /\ Fresh

(* _snapshot_source_revision.  The inputs are what is tracked and the notes that
   lie in the work tree.  When one differs from HEAD there is no revision; else
   it is the last commit that touched one of them, or a later one that touched
   the manifest or the index, which are inputs too. *)
RecordPaths == {x \in Paths \ {0} : Tip[x] # 0 \/ work[x] # 0}
Inputs == Tracked \cup RecordPaths
Dirty == \E x \in Inputs : work[x] # Tip[x]
Touches(i, x) == IF i = 1 THEN log[i][x] # 0 ELSE log[i][x] # log[i-1][x]
Revisions ==
    IF Dirty THEN {}
    ELSE {i \in 1..Len(log) : \A j \in (i+1)..Len(log) : \A x \in Inputs : ~Touches(j, x)}

-----------------------------------------------------------------------------
RoomTypeOK ==
    /\ work \in Trees /\ work[0] # 0
    /\ log \in Seq(Trees) /\ Len(log) \in 1..(MaxCommits + 1)
    /\ file \in [Files -> Pages]
    /\ at \in [Sessions -> Contexts]
    /\ started \in 0..MaxCommands /\ edits \in 0..MaxEdits
    /\ apart \subseteq Pairs

Init ==
    /\ work = [x \in Paths |-> IF x = 0 THEN 1 ELSE 0]
    /\ log = <<work>>
    /\ file = [f \in Files |-> IF f = "index" THEN Blank ELSE Absent]
    /\ at = [s \in Sessions |-> Idle]
    /\ started = 0 /\ edits = 0
    /\ apart = {}

Goto(s, step) == at' = [at EXCEPT ![s].pc = step]
Done(s) == at' = [at EXCEPT ![s] = Idle]
(* Something moved under the sessions that have read and not labelled yet. *)
Stirred == [t \in Sessions |-> IF at[t].pc = "label" THEN [at[t] EXCEPT !.moved = TRUE] ELSE at[t]]

FirstStep(c) ==
    CASE c = "handoff" -> "check" [] c = "report" -> "ready" [] c = "export" -> "fetch"
      [] OTHER -> "load"
Start(s, c) ==
    /\ at[s].pc = "idle" /\ started < MaxCommands
    /\ Overlap \/ \A t \in Sessions : PairOf(at[t].cmd) # PairOf(c)
    /\ started' = started + 1
    /\ at' = [at EXCEPT ![s] = [Idle EXCEPT !.pc = FirstStep(c), !.cmd = c, !.new.of = started']]
    /\ UNCHANGED <<work, log, file, edits, apart>>

(* The live board is read from GitHub first. *)
Fetch(s) ==
    /\ at[s].pc = "fetch"
    /\ Goto(s, "load") \/ Done(s)
    /\ UNCHANGED <<work, log, file, started, edits, apart>>

(* _load_state: every note and the index must validate. *)
LoadState(s) ==
    /\ at[s].pc = "load" /\ at[s].cmd # "codegraph"
    /\ \/ /\ NotesValid /\ IndexThere
          /\ at' = [at EXCEPT ![s].pc = "label", ![s].new.inputs = work]
       \/ Done(s)
    /\ UNCHANGED <<work, log, file, started, edits, apart>>

(* The graph is built from a copy of the tracked paths. *)
CopyInputs(s) ==
    /\ at[s].pc = "load" /\ at[s].cmd = "codegraph"
    /\ \/ /\ AllPresent(Tracked)
          /\ at' = [at EXCEPT ![s].pc = "label", ![s].new.inputs = Digest(Tracked)]
       \/ Done(s)
    /\ UNCHANGED <<work, log, file, started, edits, apart>>

(* The revision is read after the inputs; git may fail to tell it. *)
NameRevision(s) ==
    /\ at[s].pc = "label" /\ at[s].cmd # "codegraph"
    /\ \E label \in Revisions \cup {0} :
          at' = [at EXCEPT ![s].pc = "ready", ![s].new.label = label,
                           ![s].new.stable = ~at[s].moved]
    /\ UNCHANGED <<work, log, file, started, edits, apart>>

(* The digest is of the paths that were copied, as they are now. *)
TakeDigest(s) ==
    LET copied == {x \in Paths : at[s].new.inputs[x] # 0} IN
    /\ at[s].pc = "label" /\ at[s].cmd = "codegraph"
    /\ \/ /\ AllPresent(copied)
          /\ at' = [at EXCEPT ![s].pc = "first", ![s].new.digest = Digest(copied),
                              ![s].new.stable = ~at[s].moved]
       \/ Done(s)
    /\ UNCHANGED <<work, log, file, started, edits, apart>>

(* CURRENT.md says whether the graph is fresh, which cannot be told when a tracked
   path is missing.  Both pages are prepared, both old ones are backed up. *)
FreshnessTold == file["manifest"] = Absent \/ AllPresent(Tracked)
Prepare(s) ==
    /\ at[s].pc = "ready" /\ at[s].cmd # "report"
    /\ \/ /\ FreshnessTold
          /\ at' = [at EXCEPT ![s].pc = "first", ![s].old = <<file["current"], file["board"]>>]
       \/ Done(s)
    /\ UNCHANGED <<work, log, file, started, edits, apart>>

(* _write_report: both files are read, to be put back.  A read that fails starts
   the rollback, which takes what was not read for absent. *)
ReadReport(s) ==
    /\ at[s].pc = "ready" /\ at[s].cmd = "report"
    /\ \/ /\ at' = [at EXCEPT ![s].pc = "first", ![s].old = <<file["report"], file["index"]>>]
          /\ UNCHANGED apart
       \/ /\ \E report \in {file["report"], Absent} :
                at' = [at EXCEPT ![s].pc = "undo first", ![s].old = <<report, Absent>>]
          /\ apart' = apart \cup {"report"}
    /\ UNCHANGED <<work, log, file, started, edits>>

(* The pages.  A board made from the roadmap names the snapshot's revision, one
   made from an export the export's, which export_project leaves `unavailable`. *)
CurrentPage(s) == at[s].new
RoadmapBoard(s) == at[s].new
LiveBoard(s) == [at[s].new EXCEPT !.label = 0]
Content(s, i) ==
    CASE i = 1 -> CurrentPage(s)
      [] i = 2 /\ at[s].cmd = "export" -> LiveBoard(s)
      [] OTHER -> RoadmapBoard(s)

(* The first of the two files.  A failure is undone, but for a graph. *)
Fail(s) == IF at[s].cmd = "codegraph" THEN Done(s) ELSE Goto(s, "undo first")
PutFirstOnce(s) ==
    /\ at[s].pc = "first" /\ Goto(s, "second")
    /\ file' = IF at[s].cmd = "codegraph" /\ file["graph"].of > 0 THEN file
               ELSE [file EXCEPT ![First(at[s].cmd)] = Content(s, 1)]
    /\ UNCHANGED <<work, log, started, edits, apart>>
PutFirst(s) ==
    /\ at[s].pc = "first"
    /\ \/ file' = [file EXCEPT ![First(at[s].cmd)] = Content(s, 1)] /\ Goto(s, "second")
       \/ UNCHANGED file /\ Fail(s)
    /\ UNCHANGED <<work, log, started, edits, apart>>

(* The second.  The index is loaded before it is replaced, which may fail too. *)
PutSecondKept(s) ==
    /\ at[s].pc = "second" /\ Done(s)
    /\ file' \in {file, [file EXCEPT ![Second(at[s].cmd)] = Content(s, 2)]}
    /\ UNCHANGED <<work, log, started, edits, apart>>
PutSecond(s) ==
    /\ at[s].pc = "second"
    /\ \/ /\ at[s].cmd = "report" => IndexThere
          /\ file' = [file EXCEPT ![Second(at[s].cmd)] = Content(s, 2)]
          /\ apart' = apart \ {PairOf(at[s].cmd)}
          /\ Done(s)
       \/ /\ UNCHANGED file
          /\ apart' = IF at[s].cmd = "codegraph" THEN apart \cup {"codegraph"} ELSE apart
          /\ Fail(s)
    /\ UNCHANGED <<work, log, started, edits>>

(* The rollback tries both files whatever became of them.  A backup is copied
   over a page in place, so that a failure can leave a part of it. *)
Lost(s, i) ==
    {file} \cup IF PairOf(at[s].cmd) = "snapshot" /\ at[s].old[i] # Absent
                THEN {[file EXCEPT ![PairFile(at[s].cmd, i)] = Torn]} ELSE {}
UndoFirst(s) ==
    /\ at[s].pc = "undo first"
    /\ \/ file' = [file EXCEPT ![First(at[s].cmd)] = at[s].old[1]] /\ Goto(s, "undo second")
       \/ /\ file' \in Lost(s, 1)
          /\ at' = [at EXCEPT ![s].pc = "undo second", ![s].partly = TRUE]
    /\ UNCHANGED <<work, log, started, edits, apart>>

UndoSecond(s) ==
    /\ at[s].pc = "undo second" /\ Done(s)
    /\ \/ /\ file' = [file EXCEPT ![Second(at[s].cmd)] = at[s].old[2]]
          /\ apart' = IF at[s].partly THEN apart \cup {PairOf(at[s].cmd)} ELSE apart
       \/ /\ file' \in Lost(s, 2)
          /\ apart' = apart \cup {PairOf(at[s].cmd)}
    /\ UNCHANGED <<work, log, started, edits>>

(* create_handoff: a note that is there is refused, then the file is written
   whole, and replaces what came to be there since the check. *)
CheckNote(s) ==
    /\ at[s].pc = "check"
    /\ \/ \E x \in 1..Notes :
             work[x] = 0 /\ at' = [at EXCEPT ![s].pc = "create", ![s].new.label = x]
       \/ Done(s)
    /\ UNCHANGED <<work, log, file, started, edits, apart>>

CreateNote(s) ==
    /\ at[s].pc = "create"
    /\ \/ /\ work' = [work EXCEPT ![at[s].new.label] = 1]
          /\ at' = [Stirred EXCEPT ![s] = Idle]
       \/ UNCHANGED work /\ Done(s)
    /\ UNCHANGED <<log, file, started, edits, apart>>

-----------------------------------------------------------------------------
(* A developer edits a path, removes or adds a note, or commits everything. *)
Edit ==
    /\ edits < MaxEdits /\ edits' = edits + 1
    /\ \E x \in Paths, v \in 0..Versions :
          /\ v # work[x] /\ (x = 0 => v # 0)
          /\ work' = [work EXCEPT ![x] = v]
    /\ at' = Stirred
    /\ UNCHANGED <<log, file, started, apart>>

Commit ==
    /\ work # Tip /\ Len(log) <= MaxCommits
    /\ log' = Append(log, work)
    /\ at' = Stirred
    /\ UNCHANGED <<work, file, started, edits, apart>>

(* A session dies.  Between the two files, or while they are put back, the pair
   stays as it is. *)
Die(s) ==
    /\ at[s].pc # "idle" /\ Done(s)
    /\ apart' = IF at[s].pc \in HalfWay THEN apart \cup {PairOf(at[s].cmd)} ELSE apart
    /\ file' \in CASE at[s].pc = "undo first" -> Lost(s, 1)
                    [] at[s].pc = "undo second" -> Lost(s, 2)
                    [] OTHER -> {file}
    /\ UNCHANGED <<work, log, started, edits>>

Next ==
    \/ Edit \/ Commit
    \/ \E s \in Sessions :
          \/ \E c \in Commands : Start(s, c)
          \/ Fetch(s) \/ LoadState(s) \/ CopyInputs(s) \/ NameRevision(s) \/ TakeDigest(s)
          \/ Prepare(s) \/ ReadReport(s) \/ PutFirst(s) \/ PutSecond(s)
          \/ UndoFirst(s) \/ UndoSecond(s)
          \/ CheckNote(s) \/ CreateNote(s) \/ Die(s)

Spec == Init /\ [][Next]_vars

-----------------------------------------------------------------------------
(* The two files of a snapshot, and the report and its index, are of one command
   at any time that no command is between them: unless a death or a rollback
   that was reported as partial left them apart, and no later one repaired it
   (apart).  It holds of sessions at different pairs: with Overlap two sessions
   mix the files of one pair. *)
Between(c) ==
    \E s \in Sessions : PairOf(at[s].cmd) = c /\ at[s].pc \in HalfWay
PairTogether ==
    \A c \in {"snapshot", "report"} :
        (file[First(c)].of > 0 \/ file[Second(c)].of > 0) /\ file[First(c)].of # file[Second(c)].of
            => c \in apart \/ Between(c)

(* The commit that a page names holds every input the page shows, in the content
   it was shown with, however many commits touched other paths since.  What moves
   between the inputs and the label is exempt (stable): see LabelIsInputs. *)
LabelShowsInputs ==
    \A f \in {"current", "board"} :
        LET page == file[f] IN
        page.label # 0 /\ page.stable =>
            \A x \in Paths : page.inputs[x] # 0 => log[page.label][x] = page.inputs[x]

(* A graph that validates was built from the source that is there, when the last
   build was not cut short and nothing moved while it read: a second replacement
   that fails puts the old graph back.  ValidMeansBuilt is without exemptions. *)
FreshIsBuilt ==
    Fresh /\ "codegraph" \notin apart /\ ~Between("codegraph") /\ file["manifest"].stable
        => file["graph"].inputs = Digest(Tracked)

(* Refuted.  codegraph.py: validate raises when the graph export no longer
   matches the current tracked source tree. *)
ValidMeansBuilt ==
    RoomValid /\ (\A s \in Sessions : at[s].pc = "idle") => file["graph"].inputs = Digest(Tracked)

(* Refuted.  snapshots.py, on the revision: unavailable means validated inputs are
   dirty or provenance could not be resolved.  The board of an export is
   unavailable beside a page of the same command that names one. *)
PagesNameOneRevision ==
    file["current"].of = file["board"].of => file["current"].label = file["board"].label

(* Refuted.  The inputs of the named revision are those of the page: not when
   one was deleted since, for the paths of today choose the commit. *)
LabelIsInputs ==
    \A f \in {"current", "board"} :
        file[f].label # 0 /\ file[f].stable => log[file[f].label] = file[f].inputs

(* Refuted.  A rollback never removes the index: an index that could not be read
   is taken for one that was not there. *)
IndexKept == IndexThere

(* Refuted.  handoffs.py refuses to overwrite a note: not one that came after
   its check. *)
NoteKept == [][\A s \in Sessions : CreateNote(s) /\ work' # work => work[at[s].new.label] = 0]_vars
=============================================================================
