--------------------------- MODULE RunStoreProofs ---------------------------
(***************************************************************************)
(* Proofs about RunStore, for any finite set of runs, log or table, deaths *)
(* at any point and any requests: a saved verdict is never answered with   *)
(* an older one, no saved and no lost run is missing from a list that is   *)
(* long enough, and the storage is refused only over a torn line.          *)
(***************************************************************************)
EXTENDS RunStore, FiniteSetTheorems, SequenceTheorems, WellFoundedInduction, TLAPS

-----------------------------------------------------------------------------
(* Type correctness.  The phase of a process tells which revision its      *)
(* record has, and what of it has been saved.                              *)
Pieces == [run : Runs, rev : 1..2, part : 1..2]
Phases == {"running", "saving", "appending", "recording", "writing", "gating", "done", "dead"}
WriterOK ==
  /\ backend \in Backends /\ phase \in [Runs -> Phases]
  /\ rev \in Revisions /\ saved \in Revisions /\ log \in Seq(Pieces)
  /\ summaries \subseteq Summarised
  /\ recordFile \in [Runs -> {"absent", "torn", "whole"}]
  /\ clock \in Nat /\ noted \in [Runs -> Nat] /\ ended \in [Runs -> Nat]
CacheOK == cache \subseteq summaries
RequestOK ==
  request \in [op : {"none", "get", "list"}, run : SUBSET Runs, stored : Revisions,
               known : Revisions, lost : SUBSET Runs]
AnswerOK ==
  answer \in [op : {"none", "get", "list", "error"}, rows : SUBSET Rows,
              known : Revisions, lost : SUBSET Runs]
Stage(r) ==
  /\ phase[r] = "running" => rev[r] = 0 /\ saved[r] = 0
  /\ phase[r] \in {"saving", "appending"} => rev[r] \in 1..2
  /\ phase[r] \in {"recording", "writing", "gating"} => rev[r] = 1 /\ saved[r] > 0
  /\ recordFile[r] # "absent" => saved[r] > 0
Stages == \A r \in Runs : Stage(r)

LEMMA TypeParts == WriterOK /\ CacheOK /\ RequestOK /\ AnswerOK => StoreTypeOK
BY DEF WriterOK, CacheOK, RequestOK, AnswerOK, StoreTypeOK, Pieces, Phases

LEMMA TypeInit == Init => WriterOK /\ CacheOK /\ RequestOK /\ AnswerOK /\ Stages
<1> SUFFICES ASSUME Init PROVE WriterOK /\ CacheOK /\ RequestOK /\ AnswerOK /\ Stages
  OBVIOUS
<1>1. Zero \in Revisions /\ Zero \in [Runs -> Nat]
  BY DEF Zero, Revisions
<1>2. log \in Seq(Pieces)
  BY DEF Init
<1>3. WriterOK
  BY <1>1, <1>2 DEF Init, WriterOK, Phases
<1>4. CacheOK /\ RequestOK /\ AnswerOK
  BY <1>1 DEF Init, CacheOK, RequestOK, AnswerOK, NoRequest, NoAnswer
<1>5. Stages
  BY DEF Init, Stages, Stage, Zero
<1> QED BY <1>3, <1>4, <1>5

LEMMA SavedType ==
  ASSUME WriterOK, NEW r \in Runs
  PROVE  saved[r] \in Nat
<1>1. saved \in [Runs -> 0..2]
  BY DEF WriterOK, Revisions
<1>2. saved[r] \in 0..2
  BY <1>1
<1> QED BY <1>2

(* What is appended to the log, a piece at a time or both at once.         *)
LEMMA PieceType ==
  ASSUME WriterOK, Stages, NEW r \in Runs, phase[r] \in {"saving", "appending"},
         NEW part \in 1..2
  PROVE  Piece(r, part) \in Pieces
BY DEF WriterOK, Stages, Stage, Piece, Pieces, Revisions

LEMMA LogGrows ==
  ASSUME WriterOK, Stages, NEW r \in Runs, SaveRow(r) \/ AppendHead(r) \/ AppendTail(r)
  PROVE  \E new \in Seq({Piece(r, 1), Piece(r, 2)}) :
           /\ log' = log \o new /\ log' \in Seq(Pieces)
           /\ \/ saved' = saved
              \/ /\ saved' = [saved EXCEPT ![r] = rev[r]]
                 /\ \E i \in DOMAIN new : new[i] = Piece(r, 2)
<1>1. Piece(r, 1) \in Pieces /\ Piece(r, 2) \in Pieces
  BY PieceType DEF SaveRow, AppendHead, AppendTail
<1>2. log \in Seq(Pieces)
  BY DEF WriterOK
<1>3. CASE SaveRow(r)
  <2> DEFINE new == <<Piece(r, 1), Piece(r, 2)>>
  <2>1. new \in Seq({Piece(r, 1), Piece(r, 2)}) /\ new \in Seq(Pieces) /\ new[2] = Piece(r, 2)
        /\ 2 \in DOMAIN new
    BY <1>1
  <2>2. log \o new \in Seq(Pieces)
    BY <1>2, <2>1, ConcatProperties
  <2> HIDE DEF new
  <2>3. log' = log \o new /\ saved' = [saved EXCEPT ![r] = rev[r]]
    BY <1>3 DEF SaveRow, new
  <2> QED BY <2>1, <2>2, <2>3
<1>4. CASE AppendHead(r)
  <2> DEFINE new == <<Piece(r, 1)>>
  <2>1. new \in Seq({Piece(r, 1), Piece(r, 2)}) /\ new \in Seq(Pieces)
    BY <1>1
  <2>2. log \o new \in Seq(Pieces) /\ log \o new = Append(log, Piece(r, 1))
    BY <1>1, <1>2
  <2> HIDE DEF new
  <2> QED BY <1>4, <2>1, <2>2 DEF AppendHead
<1>5. CASE AppendTail(r)
  <2> DEFINE new == <<Piece(r, 2)>>
  <2>1. new \in Seq({Piece(r, 1), Piece(r, 2)}) /\ new \in Seq(Pieces) /\ new[1] = Piece(r, 2)
        /\ 1 \in DOMAIN new
    BY <1>1
  <2>2. log \o new \in Seq(Pieces) /\ log \o new = Append(log, Piece(r, 2))
    BY <1>1, <1>2
  <2> HIDE DEF new
  <2>3. log' = log \o new /\ saved' = [saved EXCEPT ![r] = rev[r]]
    BY <1>5, <2>2 DEF AppendTail
  <2> QED BY <2>1, <2>2, <2>3
<1> QED BY <1>3, <1>4, <1>5

LEMMA WriterStep ==
  ASSUME WriterOK, Stages, NEW r \in Runs, RunStep(r)
  PROVE  WriterOK' /\ Stages' /\ UNCHANGED reader
<1> USE DEF Goto
<1>0. phase[r] \in Phases /\ rev[r] \in 0..2 /\ Stage(r)
  BY DEF WriterOK, Stages, Revisions
<1>1. CASE Summarise(r)
  <2>1. WriterOK'
    BY <1>1, StoreAssumption DEF Summarise, WriterOK
  <2>2. Stages'
    BY <1>1 DEF Summarise, Stages, Stage
  <2> QED BY <1>1, <2>1, <2>2 DEF Summarise
<1>2. CASE Complete(r)
  <2>1. WriterOK'
    BY <1>2 DEF Complete, WriterOK, Phases, Revisions
  <2>2. Stages'
    BY <1>2, <1>0 DEF Complete, Stages, Stage, WriterOK, Revisions
  <2> QED BY <1>2, <2>1, <2>2 DEF Complete
<1>3. CASE SaveRow(r) \/ AppendTail(r)
  <2>1. /\ phase[r] \in {"saving", "appending"} /\ phase' = [phase EXCEPT ![r] = AfterSave(r)]
        /\ saved' = [saved EXCEPT ![r] = rev[r]]
        /\ UNCHANGED <<backend, rev, summaries, recordFile, clock, noted, ended, reader>>
    BY <1>3 DEF SaveRow, AppendTail
  <2>2. log' \in Seq(Pieces)
    BY <1>3, LogGrows
  <2>3. AfterSave(r) \in Phases /\ rev[r] \in 1..2
    BY <1>0, <2>1 DEF AfterSave, Phases, Stage
  <2>4. WriterOK'
    BY <2>1, <2>2, <2>3 DEF WriterOK, Revisions
  <2>5. Stages'
    BY <2>1, <2>3 DEF Stages, Stage, AfterSave, WriterOK, Revisions
  <2> QED BY <2>1, <2>4, <2>5
<1>4. CASE AppendHead(r)
  <2>1. /\ phase[r] = "saving" /\ phase' = [phase EXCEPT ![r] = "appending"]
        /\ UNCHANGED <<backend, rev, summaries, recordFile, clock, noted, ended, saved, reader>>
    BY <1>4 DEF AppendHead
  <2>2. log' \in Seq(Pieces)
    BY <1>4, LogGrows
  <2>3. WriterOK'
    BY <2>1, <2>2 DEF WriterOK, Phases
  <2>4. Stages'
    BY <2>1 DEF Stages, Stage, WriterOK
  <2> QED BY <2>1, <2>3, <2>4
<1>5. CASE OpenRecord(r)
  <2>1. WriterOK'
    BY <1>5 DEF OpenRecord, WriterOK, Phases
  <2>2. Stages'
    BY <1>5 DEF OpenRecord, Stages, Stage, WriterOK
  <2> QED BY <1>5, <2>1, <2>2 DEF OpenRecord
<1>6. CASE CloseRecord(r)
  <2>1. WriterOK'
    BY <1>6 DEF CloseRecord, WriterOK, Phases
  <2>2. Stages'
    BY <1>6 DEF CloseRecord, Stages, Stage, WriterOK
  <2> QED BY <1>6, <2>1, <2>2 DEF CloseRecord
<1>7. CASE GateHolds(r) \/ Crash(r)
  <2>1. /\ phase' \in {[phase EXCEPT ![r] = "done"], [phase EXCEPT ![r] = "dead"]}
        /\ UNCHANGED <<backend, rev, log, summaries, recordFile, clock, noted, ended, saved, reader>>
    BY <1>7 DEF GateHolds, Crash
  <2>2. WriterOK'
    BY <2>1 DEF WriterOK, Phases
  <2>3. Stages'
    BY <2>1 DEF Stages, Stage, WriterOK
  <2> QED BY <2>1, <2>2, <2>3
<1>8. CASE GateFails(r)
  <2>1. rev[r] = 1
    BY <1>0, <1>8 DEF GateFails, Stage
  <2>2. WriterOK'
    BY <1>8, <2>1 DEF GateFails, WriterOK, Phases, Revisions
  <2>3. Stages'
    BY <1>8, <2>1 DEF GateFails, Stages, Stage, WriterOK, Revisions
  <2> QED BY <1>8, <2>2, <2>3 DEF GateFails
<1> QED BY <1>1, <1>2, <1>3, <1>4, <1>5, <1>6, <1>7, <1>8 DEF RunStep

-----------------------------------------------------------------------------
(* The log.  What was saved is in it, whole, and later pieces of a run are *)
(* of no earlier revision.                                                 *)
Kept ==
  \A r \in Runs : saved[r] > 0 =>
    \E i \in DOMAIN log : log[i] = [run |-> r, rev |-> saved[r], part |-> 2]
Ordered ==
  /\ \A i, j \in DOMAIN log : i <= j /\ log[i].run = log[j].run => log[i].rev <= log[j].rev
  /\ \A i \in DOMAIN log : log[i].rev <= rev[log[i].run]

LEMMA LogInit == Init => Kept /\ Ordered
BY DEF Init, Kept, Ordered, Zero

LEMMA LogStep ==
  ASSUME WriterOK, Stages, Kept, Ordered, NEW r \in Runs, RunStep(r)
  PROVE  Kept' /\ Ordered'
<1>0. /\ log \in Seq(Pieces) /\ rev \in Revisions /\ saved \in Revisions
      /\ Len(log) \in Nat /\ DOMAIN log = 1..Len(log)
  BY LenProperties DEF WriterOK
<1>1. CASE SaveRow(r) \/ AppendHead(r) \/ AppendTail(r)
  <2>1. PICK new \in Seq({Piece(r, 1), Piece(r, 2)}) :
          /\ log' = log \o new
          /\ \/ saved' = saved
             \/ /\ saved' = [saved EXCEPT ![r] = rev[r]]
                /\ \E i \in DOMAIN new : new[i] = Piece(r, 2)
    BY <1>1, LogGrows
  <2>2. rev' = rev
    BY <1>1 DEF SaveRow, AppendHead, AppendTail
  <2>3. /\ Len(new) \in Nat /\ DOMAIN new = 1..Len(new)
        /\ \A i \in DOMAIN new : new[i] = Piece(r, 1) \/ new[i] = Piece(r, 2)
    BY LenProperties, ElementOfSeq
  <2>4. Piece(r, 1) \in Pieces /\ Piece(r, 2) \in Pieces
    BY <1>1, PieceType DEF SaveRow, AppendHead, AppendTail
  <2>5. new \in Seq(Pieces)
    BY <2>4, SeqMonotonic
  <2>6. /\ DOMAIN log' = 1..(Len(log) + Len(new))
        /\ \A i \in 1..(Len(log) + Len(new)) :
             log'[i] = IF i <= Len(log) THEN log[i] ELSE new[i - Len(log)]
    BY <1>0, <2>1, <2>5, ConcatProperties, LenProperties
  <2>7. \A i \in DOMAIN log : i \in DOMAIN log' /\ log'[i] = log[i]
    BY <1>0, <2>3, <2>6
  <2>8. \A i \in DOMAIN log' \ DOMAIN log : log'[i].run = r /\ log'[i].rev = rev[r] /\ i > Len(log)
    <3>1. ASSUME NEW i \in DOMAIN log' \ DOMAIN log PROVE i > Len(log) /\ i - Len(log) \in DOMAIN new
      BY <1>0, <2>3, <2>6
    <3> QED BY <2>3, <2>6, <3>1 DEF Piece
  <2>9. \A i \in DOMAIN new : Len(log) + i \in DOMAIN log' /\ log'[Len(log) + i] = new[i]
    BY <1>0, <2>3, <2>6
  <2>10. Kept'
    <3> SUFFICES ASSUME NEW q \in Runs, saved'[q] > 0
                 PROVE  \E i \in DOMAIN log' :
                          log'[i] = [run |-> q, rev |-> saved'[q], part |-> 2]
      BY DEF Kept
    <3>1. CASE saved'[q] = saved[q]
      BY <2>7, <3>1 DEF Kept
    <3>2. CASE saved'[q] # saved[q]
      <4>1. q = r /\ saved'[q] = rev[r] /\ \E i \in DOMAIN new : new[i] = Piece(r, 2)
        BY <1>0, <2>1, <3>2 DEF Revisions
      <4> QED BY <2>9, <4>1 DEF Piece
    <3> QED BY <3>1, <3>2
  <2>11. \A i \in DOMAIN log' : log'[i].rev <= rev[log'[i].run]
    <3>1. rev[r] <= rev[r]
      BY <1>0 DEF Revisions
    <3> QED BY <2>7, <2>8, <3>1 DEF Ordered
  <2>12. ASSUME NEW i \in DOMAIN log', NEW j \in DOMAIN log', i <= j, log'[i].run = log'[j].run
         PROVE  log'[i].rev <= log'[j].rev
    <3>1. CASE j \in DOMAIN log
      <4>1. i \in DOMAIN log
        BY <1>0, <2>3, <2>6, <2>12, <3>1
      <4> QED BY <2>7, <2>12, <3>1, <4>1 DEF Ordered
    <3>2. CASE j \notin DOMAIN log
      BY <2>8, <2>11, <2>12, <3>2
    <3> QED BY <3>1, <3>2
  <2> QED BY <2>2, <2>10, <2>11, <2>12 DEF Ordered
<1>2. CASE ~(SaveRow(r) \/ AppendHead(r) \/ AppendTail(r))
  <2>1. /\ log' = log /\ saved' = saved
        /\ \/ rev' = rev
           \/ phase[r] = "running" /\ rev' = [rev EXCEPT ![r] = 1]
           \/ rev' = [rev EXCEPT ![r] = rev[r] + 1]
    BY <1>2 DEF RunStep, Summarise, Complete, OpenRecord, CloseRecord, GateHolds, GateFails, Crash
  <2>2. \A q \in Runs : rev[q] \in Nat /\ rev'[q] \in Nat /\ rev[q] <= rev'[q]
    BY <1>0, <2>1 DEF Revisions, Stages, Stage
  <2>3. \A i \in DOMAIN log : log[i].run \in Runs /\ log[i].rev \in Nat
    <3>1. \A i \in DOMAIN log : log[i] \in Pieces
      BY <1>0, ElementOfSeq
    <3> QED BY <3>1 DEF Pieces
  <2>4. \A i \in DOMAIN log : log[i].rev <= rev'[log[i].run]
    BY <2>2, <2>3 DEF Ordered
  <2> QED BY <2>1, <2>4 DEF Kept, Ordered
<1> QED BY <1>1, <1>2

-----------------------------------------------------------------------------
(* Reading.  A run with a whole line has a last one: the positions of a    *)
(* log, counted from its end, have a least one.                            *)
LEMMA Least ==
  ASSUME NEW S \in SUBSET Nat, S # {}
  PROVE  \E x \in S : \A y \in S : x <= y
<1> DEFINE R == {ss \in Nat \X Nat : ss[1] < ss[2]}
<1>1. IsWellFoundedOn(R, Nat)
  BY NatLessThanWellFounded DEF OpToRel
<1> HIDE DEF R
<1>2. PICK x \in S : \A y \in S : ~(<<y, x>> \in R)
  BY <1>1, WFMin
<1>3. \A y \in S : ~(y < x)
  BY <1>2 DEF R
<1> QED BY <1>3

LEMMA LastOf ==
  ASSUME WriterOK, NEW r \in Runs, LinesOf(r) # {}
  PROVE  LastLine(r) \in LinesOf(r) /\ \A j \in LinesOf(r) : j <= LastLine(r)
<1>1. Len(log) \in Nat /\ DOMAIN log = 1..Len(log)
  BY LenProperties DEF WriterOK
<1>2. LinesOf(r) \subseteq 1..Len(log)
  BY <1>1 DEF LinesOf, LineEnds
<1> DEFINE Back == {Len(log) - i : i \in LinesOf(r)}
<1>3. Back \in SUBSET Nat /\ Back # {}
  BY <1>1, <1>2
<1>4. PICK x \in Back : \A y \in Back : x <= y
  <2> HIDE DEF Back
  <2> QED BY <1>3, Least
<1>5. PICK i \in LinesOf(r) : x = Len(log) - i
  BY <1>4
<1>6. ASSUME NEW j \in LinesOf(r) PROVE j <= i
  <2>1. Len(log) - j \in Back
    OBVIOUS
  <2>2. Len(log) - i <= Len(log) - j
    BY <1>4, <1>5, <2>1
  <2>3. i \in Nat /\ j \in Nat
    BY <1>2
  <2> HIDE DEF Back
  <2> QED BY <1>1, <2>2, <2>3
<1>7. \E k \in LinesOf(r) : \A j \in LinesOf(r) : j <= k
  BY <1>5, <1>6
<1> HIDE DEF Back
<1> QED BY <1>7 DEF LastLine

LEMMA LatestType ==
  ASSUME WriterOK, NEW r \in Runs
  PROVE  LatestRevision(r) \in 0..2
<1>1. CASE r \in Stored
  <2>1. LastLine(r) \in DOMAIN log
    BY <1>1, LastOf DEF Stored, LinesOf, LineEnds
  <2>2. log[LastLine(r)] \in Pieces
    BY <2>1, ElementOfSeq, LenProperties DEF WriterOK
  <2> QED BY <1>1, <2>2 DEF LatestRevision, Pieces
<1> QED BY <1>1 DEF LatestRevision

(* When no line is broken, the storage has every saved run, in its last    *)
(* revision or in one that is just being saved.                            *)
LEMMA NothingOlder ==
  ASSUME WriterOK, Kept, Ordered, \A i \in LineEnds : WholeLine(i), NEW r \in Runs, saved[r] > 0
  PROVE  r \in Stored /\ LatestRevision(r) >= saved[r]
<1>1. PICK i \in DOMAIN log : log[i] = [run |-> r, rev |-> saved[r], part |-> 2]
  BY DEF Kept
<1>2. i \in LinesOf(r)
  BY <1>1 DEF LinesOf, LineEnds
<1>3. r \in Stored
  BY <1>2 DEF Stored
<1>4. LastLine(r) \in LinesOf(r) /\ i <= LastLine(r)
  BY <1>2, LastOf
<1>5. log[LastLine(r)].run = r /\ LastLine(r) \in DOMAIN log
  BY <1>4 DEF LinesOf, LineEnds
<1>6. saved[r] <= log[LastLine(r)].rev
  BY <1>1, <1>4, <1>5 DEF Ordered
<1>7. log[LastLine(r)] \in Pieces /\ saved[r] \in Nat
  <2>1. log \in Seq(Pieces) /\ saved[r] \in Nat
    BY SavedType DEF WriterOK
  <2>2. LastLine(r) \in 1..Len(log)
    BY <1>5, <2>1, LenProperties
  <2> QED BY <2>1, <2>2, ElementOfSeq
<1>8. log[LastLine(r)].rev \in Nat /\ LatestRevision(r) = log[LastLine(r)].rev
  BY <1>3, <1>7 DEF LatestRevision, Pieces
<1> QED BY <1>3, <1>6, <1>7, <1>8

(* A limit above the number of runs cuts nothing.                          *)
Long == Limit > Cardinality(Runs)

LEMMA FewRuns ==
  ASSUME NEW S \in SUBSET Runs, Long
  PROVE  Cardinality(S) < Limit
<1>1. Cardinality(S) <= Cardinality(Runs) /\ IsFiniteSet(S)
  BY StoreAssumption, FS_Subset
<1>2. Cardinality(S) \in Nat /\ Cardinality(Runs) \in Nat /\ Limit \in Nat
  BY <1>1, StoreAssumption, FS_CardinalityType
<1> QED BY <1>1, <1>2 DEF Long

LEMMA LongList ==
  ASSUME Long
  PROVE  /\ Newest = Stored
         /\ ~ListRaises => \A i \in LineEnds : WholeLine(i)
<1>1. ASSUME NEW r \in Stored PROVE Cardinality({q \in Stored : Newer(q, r)}) < Limit
  <2>1. {q \in Stored : Newer(q, r)} \in SUBSET Runs
    BY DEF Stored
  <2> QED BY <2>1, FewRuns
<1>2. ASSUME NEW i \in LineEnds
      PROVE  Cardinality({r \in Runs : \E j \in LinesOf(r) : j > i}) < Limit
  <2>1. {r \in Runs : \E j \in LinesOf(r) : j > i} \in SUBSET Runs
    OBVIOUS
  <2> QED BY <2>1, FewRuns
<1> QED BY <1>1, <1>2 DEF Newest, ListRaises

-----------------------------------------------------------------------------
(* A request knows nothing the storage did not tell it better, unless its  *)
(* limit cut the runs; a run that was lost then is lost now.               *)
Told ==
  /\ request.op = "get" => \A r \in request.run : request.known[r] <= request.stored[r]
  /\ request.op = "list" /\ Long => \A r \in Runs : request.known[r] <= request.stored[r]
  /\ request.lost \subseteq LostRuns
Answered == ServesLatestVerdict /\ SavedRunsListed /\ LostRunsListed
StoreInv ==
  /\ WriterOK /\ CacheOK /\ RequestOK /\ AnswerOK /\ Stages
  /\ Kept /\ Ordered /\ Told /\ Answered

LEMMA InvInit == Init => StoreInv
<1> SUFFICES ASSUME Init PROVE StoreInv
  OBVIOUS
<1>1. request = NoRequest /\ answer = NoAnswer
  BY DEF Init
<1>2. Told
  BY <1>1 DEF Told, NoRequest
<1>3. Answered
  BY <1>1 DEF Answered, ServesLatestVerdict, SavedRunsListed, LostRunsListed, NoAnswer
<1> QED BY <1>2, <1>3, TypeInit, LogInit DEF StoreInv

(* A process that is dead does nothing more.                               *)
LEMMA LostStays ==
  ASSUME WriterOK, NEW r \in Runs, RunStep(r)
  PROVE  LostRuns \subseteq LostRuns' /\ summaries \subseteq summaries'
<1>1. phase[r] # "dead"
  BY DEF RunStep, Summarise, Complete, SaveRow, AppendHead, AppendTail, OpenRecord, CloseRecord,
     GateHolds, GateFails, Crash
<1>2. summaries \subseteq summaries'
  BY DEF RunStep, Summarise, Complete, SaveRow, AppendHead, AppendTail, OpenRecord, CloseRecord,
     GateHolds, GateFails, Crash
<1>3. ASSUME NEW q \in Runs, q # r PROVE phase'[q] = phase[q] /\ saved'[q] = saved[q]
  <2>1. phase' = phase \/ \E p : phase' = [phase EXCEPT ![r] = p]
    BY DEF RunStep, Summarise, Complete, SaveRow, AppendHead, AppendTail, OpenRecord,
       CloseRecord, GateHolds, GateFails, Crash, Goto
  <2>2. saved' = saved \/ saved' = [saved EXCEPT ![r] = rev[r]]
    BY DEF RunStep, Summarise, Complete, SaveRow, AppendHead, AppendTail, OpenRecord,
       CloseRecord, GateHolds, GateFails, Crash
  <2> QED BY <1>3, <2>1, <2>2 DEF WriterOK, Revisions
<1>4. summaries \subseteq Runs
  BY StoreAssumption DEF WriterOK
<1> QED BY <1>1, <1>2, <1>3, <1>4 DEF LostRuns

LEMMA RunInv ==
  ASSUME StoreInv, NEW r \in Runs, RunStep(r)
  PROVE  StoreInv'
<1>1. WriterOK' /\ Stages' /\ cache' = cache /\ request' = request /\ answer' = answer
  BY WriterStep DEF StoreInv, reader
<1>2. Kept' /\ Ordered'
  BY LogStep DEF StoreInv
<1>3. CacheOK' /\ RequestOK' /\ AnswerOK'
  BY <1>1, LostStays DEF StoreInv, CacheOK, RequestOK, AnswerOK
<1>4. Told'
  BY <1>1, LostStays DEF StoreInv, Told
<1>5. Answered'
  BY <1>1 DEF StoreInv, Answered, ServesLatestVerdict, SavedRunsListed, LostRunsListed
<1> QED BY <1>1, <1>2, <1>3, <1>4, <1>5 DEF StoreInv

(* A request that is not refused.                                          *)
LEMMA WriterKept ==
  ASSUME StoreInv, UNCHANGED writer
  PROVE  /\ WriterOK' /\ Stages' /\ Kept' /\ Ordered' /\ LostRuns' = LostRuns
BY DEF StoreInv, writer, WriterOK, Stages, Stage, Kept, Ordered, LostRuns

LEMMA Asking ==
  ASSUME StoreInv, NEW op \in {"get", "list"}, NEW R \in SUBSET Runs, NEW raises \in BOOLEAN,
         Ask(op, R, raises),
         ~raises /\ op = "get" => \A r \in R : saved[r] <= LatestRevision(r),
         ~raises /\ op = "list" /\ Long =>
           \A r \in Runs : saved[r] <= (IF r \in R THEN LatestRevision(r) ELSE 0)
  PROVE  StoreInv'
<1>1. WriterOK' /\ Stages' /\ Kept' /\ Ordered' /\ LostRuns' = LostRuns /\ CacheOK'
  BY WriterKept DEF Ask, StoreInv, CacheOK, writer
<1>2. CASE raises
  <2>1. answer' = [NoAnswer EXCEPT !.op = "error"] /\ request' = request
    BY <1>2 DEF Ask
  <2>2. Zero \in Revisions
    BY DEF Zero, Revisions
  <2>3. AnswerOK' /\ RequestOK'
    BY <2>1, <2>2 DEF AnswerOK, RequestOK, NoAnswer, StoreInv
  <2>4. Answered'
    BY <2>1 DEF Answered, ServesLatestVerdict, SavedRunsListed, LostRunsListed, NoAnswer
  <2>5. Told'
    BY <1>1, <2>1 DEF StoreInv, Told
  <2> QED BY <1>1, <2>3, <2>4, <2>5 DEF StoreInv
<1>3. CASE ~raises
  <2> DEFINE stored == [r \in Runs |-> IF r \in R THEN LatestRevision(r) ELSE 0]
  <2>1. /\ request' = [op |-> op, run |-> R, known |-> saved, lost |-> LostRuns, stored |-> stored]
        /\ answer' = answer
    BY <1>3 DEF Ask
  <2>2. stored \in Revisions /\ saved \in Revisions
    BY LatestType DEF StoreInv, WriterOK, Revisions
  <2>3. LostRuns \subseteq Runs
    BY StoreAssumption DEF LostRuns, StoreInv, WriterOK
  <2>4. /\ request'.op = op /\ request'.run = R /\ request'.known = saved
        /\ request'.lost = LostRuns
        /\ \A r \in Runs : request'.stored[r] = IF r \in R THEN LatestRevision(r) ELSE 0
    BY <2>1
  <2> HIDE DEF stored
  <2>5. RequestOK'
    BY <2>1, <2>2, <2>3 DEF RequestOK
  <2>6. Told'
    <3>1. op = "get" => \A r \in R : saved[r] <= request'.stored[r]
      BY <1>3, <2>4
    <3>2. op = "list" /\ Long => \A r \in Runs : saved[r] <= request'.stored[r]
      BY <1>3, <2>4
    <3> QED BY <1>1, <2>4, <3>1, <3>2 DEF Told, Long
  <2>7. AnswerOK' /\ Answered'
    BY <2>1 DEF StoreInv, AnswerOK, Answered, ServesLatestVerdict, SavedRunsListed, LostRunsListed
  <2> QED BY <1>1, <2>5, <2>6, <2>7 DEF StoreInv
<1> QED BY <1>2, <1>3

LEMMA GetInv ==
  ASSUME StoreInv, NEW r \in Runs, AskRun(r)
  PROVE  StoreInv'
<1>1. ~GetRaises => saved[r] <= LatestRevision(r)
  <2>1. CASE saved[r] > 0
    BY <2>1, NothingOlder DEF GetRaises, StoreInv
  <2>2. CASE ~(saved[r] > 0)
    <3>1. saved[r] \in Nat /\ LatestRevision(r) \in 0..2
      BY SavedType, LatestType DEF StoreInv
    <3> QED BY <2>2, <3>1
  <2> QED BY <2>1, <2>2
<1>2. GetRaises \in BOOLEAN /\ {r} \in SUBSET Runs /\ Ask("get", {r}, GetRaises)
  BY DEF GetRaises, AskRun
<1> QED BY <1>1, <1>2, Asking

LEMMA ListInv ==
  ASSUME StoreInv, AskList
  PROVE  StoreInv'
<1>1. ASSUME ~ListRaises, Long, NEW r \in Runs
      PROVE  saved[r] <= (IF r \in Newest THEN LatestRevision(r) ELSE 0)
  <2>1. CASE saved[r] > 0
    <3>1. r \in Newest /\ LatestRevision(r) >= saved[r]
      BY <1>1, <2>1, NothingOlder, LongList DEF StoreInv
    <3>2. LatestRevision(r) \in Nat /\ saved[r] \in Nat
      BY SavedType, LatestType DEF StoreInv
    <3> QED BY <3>1, <3>2
  <2>2. CASE ~(saved[r] > 0)
    <3>1. saved[r] \in Nat /\ LatestRevision(r) \in 0..2
      BY SavedType, LatestType DEF StoreInv
    <3> QED BY <2>2, <3>1
  <2> QED BY <2>1, <2>2
<1>2. ListRaises \in BOOLEAN /\ Newest \in SUBSET Runs /\ Ask("list", Newest, ListRaises)
  BY DEF ListRaises, AskList, Newest, Stored
<1> QED BY <1>1, <1>2, Asking

(* The answer of get_run is the storage's if it has the run.               *)
LEMMA AnswerRunInv ==
  ASSUME StoreInv, AnswerRun
  PROVE  StoreInv'
<1> DEFINE rebuilt(r) == request.stored[r] = 0 /\ r \in InterruptedDirs
           known(r) == IF rebuilt(r) THEN cache \cup {r} ELSE cache
           found(r) ==
             IF request.stored[r] > 0
             THEN {Row(r, request.stored[r], "storage", r \in known(r))}
             ELSE IF recordFile[r] = "whole" THEN {Row(r, 1, "artifact", r \in known(r))}
             ELSE IF rebuilt(r) THEN {Row(r, 0, "interrupted", r \in known(r))} ELSE {}
<1>1. PICK r \in request.run : cache' = known(r) /\ Reply(found(r))
  BY DEF AnswerRun
<1> DEFINE rows == found(r)
<1>2. /\ Reply(rows)
      /\ cache' \in {cache, cache \cup ({r} \cap InterruptedDirs)}
      /\ \E b \in BOOLEAN :
           \/ rows = {}
           \/ rows = {Row(r, request.stored[r], "storage", b)}
           \/ rows = {Row(r, 1, "artifact", b)} /\ ~(request.stored[r] > 0)
           \/ rows = {Row(r, 0, "interrupted", b)}
  <2>1. cache' \in {cache, cache \cup ({r} \cap InterruptedDirs)}
    BY <1>1
  <2>2. (r \in known(r)) \in BOOLEAN
    OBVIOUS
  <2> HIDE DEF known, rebuilt
  <2>3. \/ rows = {}
        \/ rows = {Row(r, request.stored[r], "storage", r \in known(r))}
        \/ rows = {Row(r, 1, "artifact", r \in known(r))} /\ ~(request.stored[r] > 0)
        \/ rows = {Row(r, 0, "interrupted", r \in known(r))}
    OBVIOUS
  <2> HIDE DEF rows
  <2>4. Reply(rows)
    BY <1>1 DEF rows
  <2> QED BY <2>1, <2>2, <2>3, <2>4
<1> HIDE DEF rows
<1>3. /\ r \in Runs /\ request.known \in Revisions /\ request.stored \in Revisions
      /\ request.lost \in SUBSET Runs /\ request.op = "get"
      /\ request.stored[r] \in 0..2 /\ request.known[r] \in 0..2
  BY DEF AnswerRun, StoreInv, RequestOK, Revisions
<1>4. /\ answer' = [op |-> "get", rows |-> rows, known |-> request.known, lost |-> request.lost]
      /\ request' = NoRequest
  BY <1>2, <1>3 DEF Reply
<1>5. rows \in SUBSET Rows
  BY <1>2, <1>3 DEF Row, Rows
<1>6. AnswerOK'
  BY <1>3, <1>4, <1>5 DEF AnswerOK
<1>7. RequestOK' /\ Told'
  BY <1>4 DEF RequestOK, Told, NoRequest, Zero, Revisions
<1>8. Answered'
  <2>1. request.known[r] <= request.stored[r]
    BY <1>3 DEF StoreInv, Told
  <2>2. \A row \in rows : row.source = "interrupted" \/ row.rev >= request.known[row.run]
    BY <1>2, <1>3, <2>1 DEF Row
  <2>3. answer'.op = "get" /\ answer'.rows = rows /\ answer'.known = request.known
    BY <1>4
  <2> QED BY <2>2, <2>3 DEF Answered, ServesLatestVerdict, SavedRunsListed, LostRunsListed
<1>9. WriterOK' /\ Stages' /\ Kept' /\ Ordered' /\ CacheOK'
  <2>1. UNCHANGED writer
    BY DEF AnswerRun
  <2>2. summaries' = summaries /\ InterruptedDirs \subseteq summaries
    BY <2>1 DEF writer, InterruptedDirs
  <2>3. CacheOK'
    BY <1>2, <2>2 DEF CacheOK, StoreInv
  <2> QED BY <2>1, <2>3, WriterKept
<1> QED BY <1>6, <1>7, <1>8, <1>9 DEF StoreInv

-----------------------------------------------------------------------------
(* The rows of a list: of each run at most one from the storage or from    *)
(* its record's file, and one of an interrupted run.                       *)
ListRows(badge) ==
  LET stored == {r \in Runs : request.stored[r] > 0}
  IN  {Row(r, request.stored[r], "storage", badge[r]) : r \in stored}
        \cup {Row(r, 1, "artifact", badge[r]) : r \in {q \in Runs \ stored : recordFile[q] = "whole"}}
        \cup {Row(r, 0, "interrupted", TRUE) : r \in InterruptedDirs}

LEMMA AtMostTwice ==
  ASSUME StoreInv, NEW badge, NEW S \in SUBSET ListRows(badge)
  PROVE  /\ IsFiniteSet(S) /\ Cardinality(S) \in Nat
         /\ Cardinality(S) <= 2 * Cardinality(Runs)
<1> DEFINE first(r) == IF request.stored[r] > 0 THEN Row(r, request.stored[r], "storage", badge[r])
                       ELSE Row(r, 1, "artifact", badge[r])
           second(r) == Row(r, 0, "interrupted", TRUE)
           Firsts == {first(r) : r \in Runs}
           Seconds == {second(r) : r \in Runs}
<1>1. /\ IsFiniteSet(Firsts) /\ Cardinality(Firsts) <= Cardinality(Runs)
      /\ IsFiniteSet(Seconds) /\ Cardinality(Seconds) <= Cardinality(Runs)
  <2>1. [r \in Runs |-> first(r)] \in Surjection(Runs, Firsts)
    BY DEF Surjection
  <2>2. [r \in Runs |-> second(r)] \in Surjection(Runs, Seconds)
    BY DEF Surjection
  <2> HIDE DEF Firsts, Seconds
  <2> QED BY <2>1, <2>2, StoreAssumption, FS_Surjection
<1>2. S \subseteq Firsts \cup Seconds
  <2>1. InterruptedDirs \subseteq Runs
    BY StoreAssumption DEF InterruptedDirs, StoreInv, WriterOK
  <2>2. ListRows(badge) \subseteq Firsts \cup Seconds
    BY <2>1 DEF ListRows
  <2> QED BY <2>2
<1> HIDE DEF Firsts, Seconds
<1>3. /\ IsFiniteSet(Firsts \cup Seconds)
      /\ Cardinality(Firsts \cup Seconds) <= 2 * Cardinality(Runs)
  <2>1. /\ IsFiniteSet(Firsts \cup Seconds)
        /\ Cardinality(Firsts \cup Seconds)
             = Cardinality(Firsts) + Cardinality(Seconds) - Cardinality(Firsts \cap Seconds)
    BY <1>1, FS_Union
  <2>2. IsFiniteSet(Firsts \cap Seconds)
    BY <1>1, FS_Subset
  <2>3. /\ Cardinality(Firsts) \in Nat /\ Cardinality(Seconds) \in Nat
        /\ Cardinality(Firsts \cap Seconds) \in Nat /\ Cardinality(Runs) \in Nat
    BY <1>1, <2>2, StoreAssumption, FS_CardinalityType
  <2> QED BY <1>1, <2>1, <2>3
<1>4. IsFiniteSet(S) /\ Cardinality(S) <= Cardinality(Firsts \cup Seconds)
  BY <1>2, <1>3, FS_Subset
<1>5. /\ Cardinality(S) \in Nat /\ Cardinality(Firsts \cup Seconds) \in Nat
      /\ Cardinality(Runs) \in Nat
  BY <1>3, <1>4, StoreAssumption, FS_CardinalityType
<1> QED BY <1>3, <1>4, <1>5

(* A list cut at twice the number of runs has them all: no row is newer    *)
(* than itself.                                                            *)
LEMMA NoneCut ==
  ASSUME StoreInv, NEW badge, Limit >= 2 * Cardinality(Runs),
         NEW row \in ListRows(badge), NEW S \in SUBSET ListRows(badge), row \notin S
  PROVE  Cardinality(S) < Limit
<1>1. /\ IsFiniteSet(S) /\ Cardinality(S) \in Nat
  BY AtMostTwice
<1>2. IsFiniteSet(S \cup {row}) /\ Cardinality(S \cup {row}) = Cardinality(S) + 1
  BY <1>1, FS_AddElement
<1>3. Cardinality(S \cup {row}) <= 2 * Cardinality(Runs)
  <2>1. S \cup {row} \in SUBSET ListRows(badge)
    OBVIOUS
  <2> QED BY <2>1, AtMostTwice
<1>4. Cardinality(Runs) \in Nat /\ Limit \in Nat
  BY StoreAssumption, FS_CardinalityType
<1> QED BY <1>1, <1>2, <1>3, <1>4

LEMMA AnswerListInv ==
  ASSUME StoreInv, AnswerList
  PROVE  StoreInv'
<1> DEFINE stored == {r \in Runs : request.stored[r] > 0}
           badge == [r \in Runs |-> /\ r \in cache \cup InterruptedDirs /\ r \in Blocked
                                    /\ (r \in stored => request.stored[r] = 1)]
           time(row) == IF row.source = "interrupted" THEN noted[row.run] ELSE ended[row.run]
           all == ListRows(badge)
           rows == {row \in all : Cardinality({q \in all : time(q) > time(row)}) < Limit}
<1>0. /\ request.known \in Revisions /\ request.stored \in Revisions
      /\ request.lost \in SUBSET Runs /\ request.op = "list"
      /\ InterruptedDirs \subseteq summaries /\ summaries \subseteq Runs
      /\ cache' = cache \cup InterruptedDirs /\ UNCHANGED writer
  BY StoreAssumption DEF AnswerList, StoreInv, RequestOK, InterruptedDirs, WriterOK
<1>1. Reply(rows)
  <2> DEFINE mark(r, n) == r \in cache \cup InterruptedDirs /\ n = 1 /\ r \in Blocked
             every ==
               {Row(r, request.stored[r], "storage", mark(r, request.stored[r])) : r \in stored}
                 \cup {Row(r, 1, "artifact", mark(r, 1)) :
                         r \in {q \in Runs \ stored : recordFile[q] = "whole"}}
                 \cup {Row(r, 0, "interrupted", TRUE) : r \in InterruptedDirs}
  <2>1. Reply({row \in every : Cardinality({q \in every : time(q) > time(row)}) < Limit})
    BY DEF AnswerList
  <2>2. every = all
    <3>1. \A r \in stored : mark(r, request.stored[r]) = badge[r]
      OBVIOUS
    <3>2. \A r \in Runs \ stored : mark(r, 1) = badge[r]
      OBVIOUS
    <3> HIDE DEF badge, mark
    <3> QED BY <3>1, <3>2 DEF ListRows
  <2> HIDE DEF every, all, time
  <2> QED BY <2>1, <2>2
<1>2. \A r \in Runs : badge[r] \in BOOLEAN
  OBVIOUS
<1> HIDE DEF badge
<1>3. all \in SUBSET Rows
  <2>1. \A r \in Runs : request.stored[r] \in 0..2
    BY <1>0 DEF Revisions
  <2>2. InterruptedDirs \subseteq Runs
    BY <1>0
  <2>3. \A r \in Runs : /\ Row(r, request.stored[r], "storage", badge[r]) \in Rows
                        /\ Row(r, 1, "artifact", badge[r]) \in Rows
                        /\ Row(r, 0, "interrupted", TRUE) \in Rows
    BY <1>2, <2>1 DEF Row, Rows
  <2> QED BY <2>2, <2>3 DEF ListRows
<1>4. rows \subseteq all
  OBVIOUS
<1>5. /\ answer' = [op |-> "list", rows |-> rows, known |-> request.known, lost |-> request.lost]
      /\ request' = NoRequest
  BY <1>0, <1>1 DEF Reply
<1>6. ASSUME Limit >= 2 * Cardinality(Runs), NEW row \in all PROVE row \in rows
  <2> DEFINE S == {q \in all : time(q) > time(row)}
  <2>1. S \in SUBSET all
    OBVIOUS
  <2>2. row \notin S
    <3>1. row.run \in Runs
      BY <1>3, <1>6 DEF Rows
    <3>2. time(row) \in Nat
      BY <3>1 DEF StoreInv, WriterOK
    <3> QED BY <3>2
  <2> HIDE DEF S, all, time
  <2>3. Cardinality(S) < Limit
    BY <1>6, <2>1, <2>2, NoneCut DEF all
  <2> QED BY <1>6, <2>3 DEF S
<1> HIDE DEF rows, time
<1>7. AnswerOK' /\ RequestOK' /\ Told'
  <2>1. AnswerOK'
    BY <1>0, <1>3, <1>4, <1>5 DEF AnswerOK
  <2>2. RequestOK' /\ Told'
    BY <1>5 DEF RequestOK, Told, NoRequest, Zero, Revisions
  <2> QED BY <2>1, <2>2
<1>8. ServesLatestVerdict'
  <2>1. ASSUME Long, NEW row \in all, row.source # "interrupted"
        PROVE  row.rev >= request.known[row.run]
    <3>1. \A r \in Runs : /\ request.known[r] <= request.stored[r]
                          /\ request.known[r] \in Nat /\ request.stored[r] \in Nat
      BY <1>0, <2>1 DEF StoreInv, Told, Revisions
    <3>2. \/ \E r \in Runs : row = Row(r, request.stored[r], "storage", badge[r])
          \/ \E r \in Runs : row = Row(r, 1, "artifact", badge[r]) /\ ~(request.stored[r] > 0)
      BY <2>1 DEF ListRows, Row
    <3> QED BY <3>1, <3>2 DEF Row
  <2>2. answer'.op = "list" /\ answer'.rows = rows /\ answer'.known = request.known
    BY <1>5
  <2> QED BY <1>4, <2>1, <2>2 DEF ServesLatestVerdict, Long
<1>9. SavedRunsListed'
  <2>1. ASSUME Limit >= 2 * Cardinality(Runs), NEW r \in Runs, request.known[r] > 0
        PROVE  \E row \in rows : row.run = r /\ row.rev > 0
    <3>1. Long
      <4>1. Cardinality(Runs) \in Nat /\ Cardinality(Runs) # 0 /\ Limit \in Nat
        BY StoreAssumption, FS_CardinalityType, FS_EmptySet
      <4> QED BY <2>1, <4>1 DEF Long
    <3>2. request.known[r] <= request.stored[r]
      BY <1>0, <3>1 DEF StoreInv, Told
    <3>3. request.known[r] \in Nat /\ request.stored[r] \in Nat
      BY <1>0 DEF Revisions
    <3>4. Row(r, request.stored[r], "storage", badge[r]) \in all /\ request.stored[r] > 0
      <4>1. request.stored[r] > 0
        BY <2>1, <3>2, <3>3
      <4> QED BY <4>1 DEF ListRows
    <3>5. Row(r, request.stored[r], "storage", badge[r]) \in rows
      BY <1>6, <2>1, <3>4
    <3> QED BY <3>4, <3>5 DEF Row
  <2>2. answer'.op = "list" /\ answer'.rows = rows /\ answer'.known = request.known
    BY <1>5
  <2> QED BY <2>1, <2>2 DEF SavedRunsListed
<1>10. LostRunsListed'
  <2>1. ASSUME Limit >= 2 * Cardinality(Runs), NEW r \in request.lost
        PROVE  Row(r, 0, "interrupted", TRUE) \in rows
    <3>1. r \in Runs /\ r \in LostRuns
      BY <1>0, <2>1 DEF StoreInv, Told
    <3>2. r \in InterruptedDirs
      BY <3>1 DEF LostRuns, InterruptedDirs, StoreInv, Stages, Stage
    <3>3. Row(r, 0, "interrupted", TRUE) \in all
      BY <3>2 DEF ListRows
    <3> QED BY <1>6, <2>1, <3>3
  <2>2. answer'.op = "list" /\ answer'.rows = rows /\ answer'.lost = request.lost
    BY <1>5
  <2> QED BY <2>1, <2>2 DEF LostRunsListed
<1>11. WriterOK' /\ Stages' /\ Kept' /\ Ordered' /\ CacheOK'
  <2>1. summaries' = summaries
    BY <1>0 DEF writer
  <2>2. CacheOK'
    BY <1>0, <2>1 DEF CacheOK, StoreInv
  <2> QED BY <1>0, <2>2, WriterKept
<1> QED BY <1>7, <1>8, <1>9, <1>10, <1>11 DEF StoreInv, Answered

LEMMA InvStep ==
  ASSUME StoreInv, [Next]_vars
  PROVE  StoreInv'
<1>1. CASE UNCHANGED vars
  <2>1. WriterOK' /\ Stages' /\ Kept' /\ Ordered' /\ LostRuns' = LostRuns
    BY <1>1, WriterKept DEF vars
  <2>2. cache' = cache /\ summaries' = summaries /\ request' = request /\ answer' = answer
    BY <1>1 DEF vars, writer, reader
  <2> QED BY <2>1, <2>2 DEF StoreInv, CacheOK, RequestOK, AnswerOK, Told, Answered,
      ServesLatestVerdict, SavedRunsListed, LostRunsListed
<1>2. CASE Next
  BY <1>2, RunInv, GetInv, ListInv, AnswerRunInv, AnswerListInv DEF Next
<1> QED BY <1>1, <1>2

LEMMA InvHolds == Spec => []StoreInv
<1> QED BY InvInit, InvStep, PTL DEF Spec

(* Type correctness, for any finite set of runs.                           *)
THEOREM TypeCorrect == Spec => []StoreTypeOK
<1>1. StoreInv => StoreTypeOK
  BY TypeParts DEF StoreInv
<1> QED BY <1>1, InvHolds, PTL

(* What was saved before a request is never answered with something older, *)
(* by get_run or by a list with a limit above the number of runs, however  *)
(* appends, deaths, gates and requests interleave (storage.py:14-68,       *)
(* api.py:94-174).                                                         *)
THEOREM LatestVerdictServed == Spec => []ServesLatestVerdict
<1>1. StoreInv => ServesLatestVerdict
  BY DEF StoreInv, Answered
<1> QED BY <1>1, InvHolds, PTL

(* No saved run is missing from a list that is long enough (api.py,        *)
(* _reconciled_records).                                                   *)
THEOREM SavedRunsShown == Spec => []SavedRunsListed
<1>1. StoreInv => SavedRunsListed
  BY DEF StoreInv, Answered
<1> QED BY <1>1, InvHolds, PTL

(* Nor is a run that died with its worker's summary and without a record   *)
(* (api.py, _is_interrupted_run).                                          *)
THEOREM LostRunsShown == Spec => []LostRunsListed
<1>1. StoreInv => LostRunsListed
  BY DEF StoreInv, Answered
<1> QED BY <1>1, InvHolds, PTL

-----------------------------------------------------------------------------
(* When the storage cannot be read.                                        *)

\* A process died with a revision it had not saved.
CutOff == \E r \in Runs : phase[r] = "dead" /\ saved[r] < rev[r]

\* A record is saved after it was made, and the latest one is saved when its process
\* goes on.
Due(r) == saved[r] <= rev[r] /\ (phase[r] \in {"saving", "appending"} => saved[r] < rev[r])

\* The log is a sequence of whole lines, of which at most the last is half written.
Lines ==
  /\ \A i \in 1..Len(log) :
       IF i % 2 = 1 THEN log[i].part = 1
       ELSE log[i].part = 2 /\ log[i - 1] = [log[i] EXCEPT !.part = 1]
  /\ (\A r \in Runs : phase[r] # "appending") => Len(log) % 2 = 0
  /\ \A r \in Runs : phase[r] = "appending" =>
       /\ Len(log) % 2 = 1 /\ log[Len(log)] = Piece(r, 1)
       /\ \A q \in Runs : phase[q] = "appending" => q = r

LinesInv ==
  /\ \A r \in Runs : Due(r) /\ (backend = "sqlite" => phase[r] # "appending")
  /\ (backend = "jsonl" /\ CutOff) \/ Lines

LEMMA InitLines == Init => LinesInv
BY DEF Init, LinesInv, Lines, Due, Zero

LEMMA StepDue ==
  ASSUME WriterOK, Stages, LinesInv, NEW r \in Runs, RunStep(r)
  PROVE  /\ \A q \in Runs : Due(q)' /\ (backend' = "sqlite" => phase'[q] # "appending")
         /\ CutOff => CutOff'
<1>0. /\ phase \in [Runs -> Phases] /\ rev \in [Runs -> 0..2] /\ saved \in [Runs -> 0..2]
      /\ \A q \in Runs : Due(q) /\ (backend = "sqlite" => phase[q] # "appending")
      /\ Stage(r) /\ backend' = backend
  BY DEF WriterOK, Stages, LinesInv, Revisions, RunStep, Summarise, Complete, SaveRow, AppendHead,
         AppendTail, OpenRecord, CloseRecord, GateHolds, GateFails, Crash
<1> USE DEF Goto, Due
<1>1. \A q \in Runs \ {r} : phase'[q] = phase[q] /\ rev'[q] = rev[q] /\ saved'[q] = saved[q]
  BY <1>0 DEF RunStep, Summarise, Complete, SaveRow, AppendHead, AppendTail, OpenRecord,
              CloseRecord, GateHolds, GateFails, Crash
<1>2. phase[r] # "dead"
  BY DEF RunStep, Summarise, Complete, SaveRow, AppendHead, AppendTail, OpenRecord,
         CloseRecord, GateHolds, GateFails, Crash
<1>3. Due(r)' /\ (backend = "sqlite" => phase'[r] # "appending")
  <2>1. CASE Complete(r)
    BY <2>1, <1>0 DEF Complete, Stage
  <2>2. CASE SaveRow(r) \/ AppendTail(r)
    BY <2>2, <1>0 DEF SaveRow, AppendTail, AfterSave
  <2>3. CASE AppendHead(r)
    BY <2>3, <1>0 DEF AppendHead
  <2>4. CASE GateFails(r)
    BY <2>4, <1>0 DEF GateFails
  <2>5. CASE Summarise(r) \/ OpenRecord(r) \/ CloseRecord(r) \/ GateHolds(r) \/ Crash(r)
    BY <2>5, <1>0 DEF Summarise, OpenRecord, CloseRecord, GateHolds, Crash
  <2> QED BY <2>1, <2>2, <2>3, <2>4, <2>5 DEF RunStep
<1> QED BY <1>0, <1>1, <1>2, <1>3 DEF CutOff

\* An append starts on whole lines, ends its own, and a step of another kind leaves the
\* log alone; only a death in between leaves half a line.
LEMMA StepLines ==
  ASSUME WriterOK, Stages, LinesInv, NEW r \in Runs, RunStep(r)
  PROVE  LinesInv'
<1>a. /\ \A q \in Runs : Due(q)' /\ (backend' = "sqlite" => phase'[q] # "appending")
      /\ (CutOff => CutOff') /\ backend' = backend
  BY StepDue DEF RunStep, Summarise, Complete, SaveRow, AppendHead, AppendTail, OpenRecord,
                 CloseRecord, GateHolds, GateFails, Crash
<1>b. phase \in [Runs -> Phases] /\ log \in Seq(Pieces) /\ rev \in [Runs -> 0..2]
  BY DEF WriterOK, Revisions
<1>c. Len(log) \in Nat
  BY <1>b
<1>0. /\ \A q \in Runs : Due(q)' /\ (backend' = "sqlite" => phase'[q] # "appending")
      /\ (CutOff => CutOff') /\ backend' = backend
      /\ phase \in [Runs -> Phases] /\ log \in Seq(Pieces) /\ Len(log) \in Nat
      /\ rev \in [Runs -> 0..2]
  BY <1>a, <1>b, <1>c
<1> SUFFICES ASSUME Lines, ~(backend = "jsonl" /\ CutOff)' PROVE Lines'
  BY <1>0 DEF LinesInv
<1> USE DEF Goto
<1>1. CASE SaveRow(r)
  <2> DEFINE new == <<Piece(r, 1), Piece(r, 2)>>
  <2>1. \A q \in Runs : phase[q] # "appending" /\ phase'[q] # "appending"
    BY <1>0, <1>1 DEF LinesInv, SaveRow
  <2>2. Len(log) % 2 = 0
    BY <2>1 DEF Lines
  <2>3. /\ new \in Seq(Pieces) /\ Len(new) = 2
        /\ new[1] = Piece(r, 1) /\ new[2] = Piece(r, 2)
    BY <1>1, PieceType DEF SaveRow
  <2>4. log' = log \o new
    BY <1>1 DEF SaveRow
  <2> HIDE DEF new
  <2>5. /\ Len(log') = Len(log) + 2
        /\ \A i \in 1..Len(log) : log'[i] = log[i]
        /\ log'[Len(log) + 1] = Piece(r, 1) /\ log'[Len(log) + 2] = Piece(r, 2)
    <3>1. /\ Len(log \o new) = Len(log) + Len(new)
          /\ \A i \in 1..Len(log) + Len(new) :
               (log \o new)[i] = IF i <= Len(log) THEN log[i] ELSE new[i - Len(log)]
      BY <1>0, <2>3, ConcatProperties
    <3>2. Len(log) + 1 - Len(log) = 1 /\ Len(log) + 2 - Len(log) = 2
      BY <1>0
    <3> QED BY <1>0, <2>3, <2>4, <3>1, <3>2
  <2>6. Piece(r, 1) = [Piece(r, 2) EXCEPT !.part = 1]
        /\ Piece(r, 1).part = 1 /\ Piece(r, 2).part = 2
    BY DEF Piece
  <2>7. ASSUME NEW i \in 1..Len(log')
        PROVE  IF i % 2 = 1 THEN log'[i].part = 1
               ELSE log'[i].part = 2 /\ log'[i - 1] = [log'[i] EXCEPT !.part = 1]
    <3>1. CASE i <= Len(log)
      <4>1. i \in 1..Len(log) /\ (i % 2 # 1 => i - 1 \in 1..Len(log))
        BY <1>0, <2>7, <3>1
      <4> QED BY <2>5, <4>1 DEF Lines
    <3>2. CASE i = Len(log) + 1
      <4>1. i % 2 = 1
        BY <1>0, <2>2, <3>2
      <4> QED BY <2>5, <2>6, <3>2, <4>1
    <3>3. CASE i = Len(log) + 2
      <4>1. i % 2 = 0 /\ i - 1 = Len(log) + 1
        BY <1>0, <2>2, <3>3
      <4> QED BY <2>5, <2>6, <3>3, <4>1
    <3> QED BY <1>0, <2>5, <2>7, <3>1, <3>2, <3>3
  <2>8. Len(log') % 2 = 0
    BY <1>0, <2>2, <2>5
  <2> QED BY <2>1, <2>7, <2>8 DEF Lines
<1>2. CASE AppendHead(r)
  <2>1. Len(log) % 2 = 0
    BY <1>2 DEF AppendHead, Lines
  <2>2. /\ log' = Append(log, Piece(r, 1)) /\ Piece(r, 1) \in Pieces
        /\ rev' = rev /\ phase' = [phase EXCEPT ![r] = "appending"]
        /\ \A q \in Runs : phase[q] # "appending"
    BY <1>2, PieceType DEF AppendHead
  <2>3. /\ Len(log') = Len(log) + 1
        /\ \A i \in 1..Len(log) : log'[i] = log[i]
        /\ log'[Len(log) + 1] = Piece(r, 1)
    BY <1>0, <2>2
  <2>4. ASSUME NEW i \in 1..Len(log')
        PROVE  IF i % 2 = 1 THEN log'[i].part = 1
               ELSE log'[i].part = 2 /\ log'[i - 1] = [log'[i] EXCEPT !.part = 1]
    <3>1. CASE i <= Len(log)
      <4>1. i \in 1..Len(log) /\ (i % 2 # 1 => i - 1 \in 1..Len(log))
        BY <1>0, <2>4, <3>1
      <4> QED BY <2>3, <4>1 DEF Lines
    <3>2. CASE i = Len(log) + 1
      <4>1. i % 2 = 1 /\ Piece(r, 1).part = 1
        BY <1>0, <2>1, <3>2 DEF Piece
      <4> QED BY <2>3, <3>2, <4>1
    <3> QED BY <1>0, <2>3, <2>4, <3>1, <3>2
  <2>5. Len(log') % 2 = 1
    BY <1>0, <2>1, <2>3
  <2>6. Piece(r, 1)' = Piece(r, 1)
    BY <2>2 DEF Piece
  <2>7. phase'[r] = "appending" /\ \A q \in Runs : phase'[q] = "appending" => q = r
    BY <1>0, <2>2
  <2> QED BY <2>3, <2>4, <2>5, <2>6, <2>7 DEF Lines
<1>3. CASE AppendTail(r)
  <2>1. /\ Len(log) % 2 = 1 /\ log[Len(log)] = Piece(r, 1)
        /\ \A q \in Runs : phase[q] = "appending" => q = r
    BY <1>3 DEF AppendTail, Lines
  <2>2. /\ log' = Append(log, Piece(r, 2)) /\ Piece(r, 2) \in Pieces
        /\ phase' = [phase EXCEPT ![r] = AfterSave(r)]
    BY <1>3, PieceType DEF AppendTail
  <2>3. /\ Len(log') = Len(log) + 1
        /\ \A i \in 1..Len(log) : log'[i] = log[i]
        /\ log'[Len(log) + 1] = Piece(r, 2)
    BY <1>0, <2>2
  <2>4. Piece(r, 1) = [Piece(r, 2) EXCEPT !.part = 1] /\ Piece(r, 2).part = 2
    BY DEF Piece
  <2>5. ASSUME NEW i \in 1..Len(log')
        PROVE  IF i % 2 = 1 THEN log'[i].part = 1
               ELSE log'[i].part = 2 /\ log'[i - 1] = [log'[i] EXCEPT !.part = 1]
    <3>1. CASE i <= Len(log)
      <4>1. i \in 1..Len(log) /\ (i % 2 # 1 => i - 1 \in 1..Len(log))
        BY <1>0, <2>5, <3>1
      <4> QED BY <2>3, <4>1 DEF Lines
    <3>2. CASE i = Len(log) + 1
      <4>1. i % 2 = 0 /\ i - 1 = Len(log) /\ Len(log) \in 1..Len(log)
        BY <1>0, <2>1, <3>2
      <4> QED BY <2>1, <2>3, <2>4, <3>2, <4>1
    <3> QED BY <1>0, <2>3, <2>5, <3>1, <3>2
  <2>6. Len(log') % 2 = 0
    BY <1>0, <2>1, <2>3
  <2>7. \A q \in Runs : phase'[q] # "appending"
    BY <1>0, <2>1, <2>2 DEF AfterSave
  <2> QED BY <2>5, <2>6, <2>7 DEF Lines
<1>4. CASE Summarise(r) \/ Complete(r) \/ OpenRecord(r) \/ CloseRecord(r) \/ GateHolds(r)
             \/ GateFails(r) \/ Crash(r)
  <2>1. log' = log
    BY <1>4 DEF Summarise, Complete, OpenRecord, CloseRecord, GateHolds, GateFails, Crash
  <2>2. phase[r] # "appending"
    <3>1. CASE Crash(r) /\ phase[r] = "appending"
      <4>1. CutOff'
        BY <3>1, <1>0 DEF Crash, CutOff, LinesInv, Due
      <4>2. backend # "sqlite" /\ backend \in {"jsonl", "sqlite"}
        BY <3>1, StoreAssumption DEF LinesInv, WriterOK
      <4> QED BY <4>1, <4>2, <1>0
    <3> QED BY <3>1, <1>4 DEF Summarise, Complete, OpenRecord, CloseRecord, GateHolds, GateFails
  <2>3. \A q \in Runs : phase'[q] = "appending" <=> phase[q] = "appending"
    BY <1>4, <1>0, <2>2
    DEF Summarise, Complete, OpenRecord, CloseRecord, GateHolds, GateFails, Crash
  <2>4. \A q \in Runs \ {r} : rev'[q] = rev[q]
    BY <1>4, <1>0 DEF Summarise, Complete, OpenRecord, CloseRecord, GateHolds, GateFails, Crash
  <2>5. \A q \in Runs : phase'[q] = "appending" => Piece(q, 1)' = Piece(q, 1)
    BY <2>2, <2>3, <2>4 DEF Piece
  <2> QED BY <2>1, <2>3, <2>5 DEF Lines
<1> QED BY <1>1, <1>2, <1>3, <1>4 DEF RunStep

\* A place of the log is that of a line's first or of its second piece.
LEMMA Parity == \A m \in Nat : \A n \in 1..m : n % 2 = 0 \/ n % 2 = 1
OBVIOUS

\* A reader is refused only what is not a whole line.
LEMMA LinesReadable ==
  ASSUME WriterOK, Lines, \A r \in Runs : phase[r] # "appending"
  PROVE  ~GetRaises
<1>a. Len(log) % 2 = 0
  BY DEF Lines
<1>b. log \in Seq(Pieces)
  BY DEF WriterOK
<1>1. Len(log) % 2 = 0 /\ Len(log) \in Nat /\ DOMAIN log = 1..Len(log)
  BY <1>a, <1>b
<1> SUFFICES ASSUME NEW i \in LineEnds PROVE WholeLine(i)
  BY DEF GetRaises
<1>2. i \in 1..Len(log) /\ (log[i].part = 2 \/ i = Len(log))
  BY <1>1 DEF LineEnds
<1>3. i % 2 = 0
  <2>1. i % 2 = 1 => log[i].part = 1
    BY <1>2 DEF Lines
  <2>2. CASE i = Len(log)
    BY <1>1, <2>2
  <2>3. CASE log[i].part = 2
    <3>1. i % 2 # 1
      BY <2>1, <2>3
    <3>2. Len(log) \in Nat /\ i \in 1..Len(log)
      BY <1>1, <1>2
    <3>3. i % 2 = 0 \/ i % 2 = 1
      BY <3>2, Parity, Zenon
    <3> QED BY <3>1, <3>3
  <2> QED BY <1>2, <2>2, <2>3
<1>4. i >= 2 /\ log[i].part = 2 /\ log[i - 1] = [log[i] EXCEPT !.part = 1]
  BY <1>1, <1>2, <1>3 DEF Lines
<1>5. i = 2 \/ log[i - 2].part = 2
  <2>1. i # 2 => i - 2 \in 1..Len(log) /\ (i - 2) % 2 = 0
    BY <1>1, <1>2, <1>3, <1>4
  <2> QED BY <2>1 DEF Lines
<1> QED BY <1>4, <1>5 DEF WholeLine

(* The API refuses to answer only over a line of the log that is being     *)
(* written, or after a process died with an unsaved revision; never with   *)
(* the table (storage.py, RunStorage.get and list).                        *)
RefusedOnlyOverTornLine ==
  GetRaises \/ ListRaises =>
    backend = "jsonl" /\ (CutOff \/ \E r \in Runs : phase[r] = "appending")

THEOREM ReadsRefusedOnlyTorn == Spec => []RefusedOnlyOverTornLine
<1>1. StoreInv /\ LinesInv /\ [Next]_vars => LinesInv'
  <2> SUFFICES ASSUME StoreInv, LinesInv, [Next]_vars PROVE LinesInv'
    OBVIOUS
  <2>1. CASE \E r \in Runs : RunStep(r)
    BY <2>1, StepLines DEF StoreInv
  <2>2. CASE UNCHANGED writer
    BY <2>2 DEF writer, LinesInv, Lines, Due, CutOff, Piece
  <2>3. (\E r \in Runs : RunStep(r)) \/ UNCHANGED writer
    BY DEF Next, vars, AskRun, AskList, Ask, AnswerRun, AnswerList
  <2> QED BY <2>1, <2>2, <2>3
<1>2. StoreInv /\ LinesInv => RefusedOnlyOverTornLine
  <2> SUFFICES ASSUME StoreInv, LinesInv, GetRaises
               PROVE  backend = "jsonl" /\ (CutOff \/ \E r \in Runs : phase[r] = "appending")
    BY DEF RefusedOnlyOverTornLine, GetRaises, ListRaises
  <2>1. Lines => \E r \in Runs : phase[r] = "appending"
    BY LinesReadable DEF StoreInv
  <2>2. backend \in {"jsonl", "sqlite"}
    BY StoreAssumption DEF StoreInv, WriterOK
  <2> QED BY <2>1, <2>2 DEF LinesInv
<1> QED BY <1>1, <1>2, InitLines, InvHolds, PTL DEF Spec
=============================================================================
