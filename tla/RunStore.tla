------------------------------ MODULE RunStore ------------------------------
(***************************************************************************)
(* Where runs are recorded and how the API reads them back: the append-only*)
(* JSONL log or the SQLite table (app/core/storage.py), the artifact       *)
(* directory of each run (app/core/run_artifacts.py, the OpenHands         *)
(* worker's summary), and the two reads that reconcile them with the cache *)
(* of interrupted runs (app/api.py).                                       *)
(*                                                                         *)
(* Every run is a process that may die at any point; a request of the API  *)
(* reads the storage first and the artifact directories after it.          *)
(***************************************************************************)
EXTENDS Naturals, Sequences, FiniteSets

CONSTANTS
  Runs,        \* run ids
  Summarised,  \* runs whose worker leaves worker_loop_summary.json
  Gated,       \* runs of `issue solve --task-spec`, judged again after the run
  Blocked,     \* runs the harness itself reports as blocked
  Backends,    \* a subset of {"jsonl", "sqlite"}
  Limit,       \* the limit of a list request
  Crashes      \* whether processes die

ASSUME StoreAssumption ==
  /\ IsFiniteSet(Runs)
  /\ Summarised \subseteq Runs /\ Gated \subseteq Runs /\ Blocked \subseteq Runs
  /\ Backends \subseteq {"jsonl", "sqlite"}
  /\ Limit \in Nat \ {0} /\ Crashes \in BOOLEAN

VARIABLES
  backend,
  phase,       \* of each run's process
  rev,         \* the revision of its record: 1 from run_harness, 2 with the gate's verdict
  log,         \* what has been written to the storage, in pieces
  summaries,   \* runs with a worker_loop_summary.json
  recordFile,  \* run_record.json: "absent", "torn" (being written) or "whole"
  clock, noted, ended,  \* when the summary was written; completed_at
  cache,       \* _INTERRUPTED_SUMMARIES
  request, answer,
  saved        \* history: the last revision whose save returned

writer == <<backend, phase, rev, log, summaries, recordFile, clock, noted, ended, saved>>
reader == <<cache, request, answer>>
vars == <<writer, reader>>

\* A record's line is on the file in part before it is there whole: a reader takes
\* no lock, and a process that is killed leaves what it had written.
Piece(r, part) == [run |-> r, rev |-> rev[r], part |-> part]

Zero == [r \in Runs |-> 0]
NoRequest == [op |-> "none", run |-> {}, stored |-> Zero, known |-> Zero, lost |-> {}]
NoAnswer == [op |-> "none", rows |-> {}, known |-> Zero, lost |-> {}]

Init ==
  /\ backend \in Backends
  /\ phase = [r \in Runs |-> "running"] /\ rev = Zero /\ log = <<>>
  /\ summaries = {} /\ recordFile = [r \in Runs |-> "absent"]
  /\ clock = 0 /\ noted = Zero /\ ended = Zero /\ saved = Zero
  /\ cache = {} /\ request = NoRequest /\ answer = NoAnswer

Goto(r, next) == phase' = [phase EXCEPT ![r] = next]

---------------------------------------------------------------------------
(* A run's process.                                                        *)

\* The OpenHands worker ends and leaves its summary, while the run goes on.
Summarise(r) ==
  /\ phase[r] = "running" /\ r \in Summarised \ summaries
  /\ summaries' = summaries \union {r}
  /\ clock' = clock + 1 /\ noted' = [noted EXCEPT ![r] = clock + 1]
  /\ UNCHANGED <<backend, phase, rev, log, recordFile, ended, saved, reader>>

\* run_harness assembles the record, and stamps it.
Complete(r) ==
  /\ phase[r] = "running" /\ Goto(r, "saving")
  /\ rev' = [rev EXCEPT ![r] = 1]
  /\ clock' = clock + 1 /\ ended' = [ended EXCEPT ![r] = clock + 1]
  /\ UNCHANGED <<backend, log, summaries, recordFile, noted, saved, reader>>

RecordAlways(r) == "recording"      \* mutant: a revision starts over
\* After the first save the artifacts are written; a revision is saved last.
AfterSave(r) == IF rev[r] = 1 THEN "recording" ELSE "done"

\* SQLiteRunStorage.save: one transaction.
SaveRow(r) ==
  /\ backend = "sqlite" /\ phase[r] = "saving" /\ Goto(r, AfterSave(r))
  /\ log' = log \o <<Piece(r, 1), Piece(r, 2)>>
  /\ saved' = [saved EXCEPT ![r] = rev[r]]
  /\ UNCHANGED <<backend, rev, summaries, recordFile, clock, noted, ended, reader>>

\* RunStorage.save appends to the file; the system lets one append at a time.
AppendHead(r) ==
  /\ backend = "jsonl" /\ phase[r] = "saving" /\ Goto(r, "appending")
  /\ \A q \in Runs : phase[q] # "appending"
  /\ log' = Append(log, Piece(r, 1))
  /\ UNCHANGED <<backend, rev, summaries, recordFile, clock, noted, ended, saved, reader>>

AppendTail(r) ==
  /\ phase[r] = "appending" /\ Goto(r, AfterSave(r))
  /\ log' = Append(log, Piece(r, 2))
  /\ saved' = [saved EXCEPT ![r] = rev[r]]
  /\ UNCHANGED <<backend, rev, summaries, recordFile, clock, noted, ended, reader>>

\* RunArtifactWriter.write ends with run_record.json: opened empty, then written.
OpenRecord(r) ==
  /\ phase[r] = "recording" /\ Goto(r, "writing")
  /\ recordFile' = [recordFile EXCEPT ![r] = "torn"]
  /\ UNCHANGED <<backend, rev, log, summaries, clock, noted, ended, saved, reader>>

CloseRecord(r) ==
  /\ phase[r] = "writing" /\ Goto(r, IF r \in Gated THEN "gating" ELSE "done")
  /\ recordFile' = [recordFile EXCEPT ![r] = "whole"]
  /\ UNCHANGED <<backend, rev, log, summaries, clock, noted, ended, saved, reader>>

\* The positive contract gate: a failed one makes the record failed and saves it
\* again, in the storage only.
GateHolds(r) ==
  /\ phase[r] = "gating" /\ Goto(r, "done")
  /\ UNCHANGED <<backend, rev, log, summaries, recordFile, clock, noted, ended, saved, reader>>

GateFails(r) ==
  /\ phase[r] = "gating" /\ Goto(r, "saving")
  /\ rev' = [rev EXCEPT ![r] = rev[r] + 1]
  /\ UNCHANGED <<backend, log, summaries, recordFile, clock, noted, ended, saved, reader>>

Crash(r) ==
  /\ Crashes /\ phase[r] \notin {"done", "dead"} /\ Goto(r, "dead")
  /\ UNCHANGED <<backend, rev, log, summaries, recordFile, clock, noted, ended, saved, reader>>

---------------------------------------------------------------------------
(* Reading the storage.                                                    *)

\* Positions where a line of the log ends; the last one may lack its newline.
LineEnds == {i \in DOMAIN log : log[i].part = 2 \/ i = Len(log)}

\* The line that ends at i is one whole record.
WholeLine(i) ==
  /\ i >= 2 /\ log[i].part = 2
  /\ log[i - 1] = [log[i] EXCEPT !.part = 1]
  /\ i = 2 \/ log[i - 2].part = 2

LinesOf(r) == {i \in LineEnds : WholeLine(i) /\ log[i].run = r}
LastLine(r) == CHOOSE i \in LinesOf(r) : \A j \in LinesOf(r) : j <= i
FirstLine(r) == CHOOSE i \in LinesOf(r) : \A j \in LinesOf(r) : i <= j
Stored == {r \in Runs : LinesOf(r) # {}}
FirstRevision(r) == IF r \in Stored THEN log[FirstLine(r)].rev ELSE 0  \* mutant: first match wins
LatestRevision(r) == IF r \in Stored THEN log[LastLine(r)].rev ELSE 0

\* get parses every line, list parses them from the last one back until it has
\* Limit runs: a line that is not a record makes either of them raise.
GetRaises == \E i \in LineEnds : ~WholeLine(i)
ListRaises ==
  \E i \in LineEnds :
    ~WholeLine(i) /\ Cardinality({r \in Runs : \E j \in LinesOf(r) : j > i}) < Limit

\* The order of list: by line in the log, by completed_at in the table.
Newer(q, r) ==
  IF backend = "jsonl" THEN LastLine(q) > LastLine(r) ELSE ended[q] > ended[r]
NewestUntilRepeat ==                \* mutant: stops at the first repeated run
  {r \in Stored : \A i, j \in LineEnds : LastLine(r) < i /\ i < j => log[i].run # log[j].run}
Newest == {r \in Stored : Cardinality({q \in Stored : Newer(q, r)}) < Limit}

---------------------------------------------------------------------------
(* The API: _get_record and _reconciled_records.                           *)

\* Runs that died with a worker summary and no record: history of the request.
LostRuns == {r \in summaries : phase[r] = "dead" /\ saved[r] = 0}

Ask(op, R, raises) ==
  /\ request.op = "none"
  /\ IF raises
     THEN /\ answer' = [NoAnswer EXCEPT !.op = "error"]
          /\ UNCHANGED request
     ELSE /\ request' = [op |-> op, run |-> R, known |-> saved, lost |-> LostRuns,
                         stored |-> [r \in Runs |-> IF r \in R THEN LatestRevision(r) ELSE 0]]
          /\ UNCHANGED answer
  /\ UNCHANGED <<writer, cache>>

AskRun(r) == Ask("get", {r}, GetRaises)
AskList == Ask("list", Newest, ListRaises)

Row(r, n, source, badge) == [run |-> r, rev |-> n, source |-> source, badge |-> badge]
Reply(rows) ==
  /\ answer' = [op |-> request.op, rows |-> rows, known |-> request.known, lost |-> request.lost]
  /\ request' = NoRequest

\* Directories the API takes for interrupted runs.
StoredDirs == {r \in summaries : recordFile[r] = "absent" /\ r \in Stored}  \* mutant
InterruptedDirs == {r \in summaries : recordFile[r] = "absent"}

\* get_run: the record found first, marked interrupted if the cache says so.
AnswerRun ==
  /\ request.op = "get"
  /\ \E r \in request.run :
       LET rebuilt == request.stored[r] = 0 /\ r \in InterruptedDirs
           known == IF rebuilt THEN cache \union {r} ELSE cache
           row(n, source) == Row(r, n, source, r \in known)
       IN  /\ cache' = known
           /\ Reply(IF request.stored[r] > 0 THEN {row(request.stored[r], "storage")}
                    ELSE IF recordFile[r] = "whole" THEN {row(1, "artifact")}
                    ELSE IF rebuilt THEN {row(0, "interrupted")} ELSE {})
  /\ UNCHANGED writer

\* list_runs: what the storage listed, then every directory with a record of a
\* run that is not among it, or with a summary and no record; newest first.
AnswerList ==
  /\ request.op = "list"
  /\ LET known == cache \union InterruptedDirs
         stored == {r \in Runs : request.stored[r] > 0}
         badge(r, n) == r \in known /\ n = 1 /\ r \in Blocked
         rows == {Row(r, request.stored[r], "storage", badge(r, request.stored[r])) : r \in stored}
                   \union {Row(r, 1, "artifact", badge(r, 1)) :
                             r \in {q \in Runs \ stored : recordFile[q] = "whole"}}
                   \union {Row(r, 0, "interrupted", TRUE) : r \in InterruptedDirs}
         time(row) == IF row.source = "interrupted" THEN noted[row.run] ELSE ended[row.run]
     IN  /\ cache' = known
         /\ Reply({row \in rows : Cardinality({q \in rows : time(q) > time(row)}) < Limit})
  /\ UNCHANGED writer

---------------------------------------------------------------------------
RunStep(r) ==
  \/ Summarise(r) \/ Complete(r) \/ SaveRow(r) \/ AppendHead(r) \/ AppendTail(r)
  \/ OpenRecord(r) \/ CloseRecord(r) \/ GateHolds(r) \/ GateFails(r) \/ Crash(r)

Next == (\E r \in Runs : RunStep(r) \/ AskRun(r)) \/ AskList \/ AnswerRun \/ AnswerList

Spec == Init /\ [][Next]_vars
---------------------------------------------------------------------------
Revisions == [Runs -> 0..2]
Rows == [run : Runs, rev : 0..2, source : {"storage", "artifact", "interrupted"}, badge : BOOLEAN]

\* A run's record has at most the revision of run_harness and the gate's, and a
\* request only ever sees those.
StoreTypeOK ==
  /\ backend \in Backends
  /\ phase \in [Runs -> {"running", "saving", "appending", "recording", "writing", "gating",
                         "done", "dead"}]
  /\ rev \in Revisions /\ saved \in Revisions
  /\ log \in Seq([run : Runs, rev : 1..2, part : 1..2])
  /\ summaries \subseteq Summarised /\ cache \subseteq summaries
  /\ recordFile \in [Runs -> {"absent", "torn", "whole"}]
  /\ clock \in Nat /\ noted \in [Runs -> Nat] /\ ended \in [Runs -> Nat]
  /\ request \in [op : {"none", "get", "list"}, run : SUBSET Runs, stored : Revisions,
                  known : Revisions, lost : SUBSET Runs]
  /\ answer \in [op : {"none", "get", "list", "error"}, rows : SUBSET Rows,
                 known : Revisions, lost : SUBSET Runs]

\* A verdict that was saved before the request is never answered with an earlier
\* one, by the storage or by the artifacts: the gate's `failed` cannot be read as
\* the `completed` it replaced, whoever else appends, crashes or reads meanwhile.
\* (For a list this needs a limit above the number of runs: see StorageWins.)
ServesLatestVerdict ==
  answer.op = "get" \/ Limit > Cardinality(Runs) =>
    \A row \in answer.rows : row.source = "interrupted" \/ row.rev >= answer.known[row.run]

\* Storage wins on conflict: whatever the limit, an artifact is not served in the
\* place of a later revision in the storage.
StorageWins == \A row \in answer.rows : row.source = "artifact" => answer.known[row.run] <= row.rev

\* A run that was saved is in every list that is long enough.
SavedRunsListed ==
  answer.op = "list" /\ Limit >= 2 * Cardinality(Runs) =>
    \A r \in Runs : answer.known[r] > 0 => \E row \in answer.rows : row.run = r /\ row.rev > 0

\* A run that died after its worker and before its record is in every such list,
\* as interrupted.
LostRunsListed ==
  answer.op = "list" /\ Limit >= 2 * Cardinality(Runs) =>
    \A r \in answer.lost : Row(r, 0, "interrupted", TRUE) \in answer.rows

\* A revision supersedes its earlier lines, so a run is never twice in a list.
ListedOnce == \A row, other \in answer.rows : row.run = other.run => row = other

\* Only a run without a record is marked as interrupted.
BadgeMeansNoRecord == \A row \in answer.rows : row.badge => answer.known[row.run] = 0
============================================================================
