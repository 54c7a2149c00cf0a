----------------------------- MODULE RoomProofs -----------------------------
(***************************************************************************)
(* Proofs about ControlRoom, for any number of sessions, notes, versions,  *)
(* commands, commits and edits: the type invariant, the revision a page    *)
(* names, and, when no two sessions run one command, that the two files of *)
(* a pair belong together and that a graph that validates was built from   *)
(* the source that is there.                                               *)
(***************************************************************************)
EXTENDS ControlRoom, TLAPS

-----------------------------------------------------------------------------
(* Type correctness.  Pages and sessions are records, so what an action    *)
(* makes of them is stated once for each.                                  *)
LEMMA Bounds ==
  /\ Notes \in Nat /\ Versions \in Nat /\ Versions > 1
  /\ MaxCommands \in Nat /\ MaxCommits \in Nat /\ MaxEdits \in Nat
  /\ 0 \in Paths /\ 0 \in 0..Versions /\ 1 \in 0..Versions
BY RoomAssumption DEF Paths

LEMMA PageType ==
  ASSUME NEW of \in -2..MaxCommands, NEW inputs \in Trees, NEW label \in Nat,
         NEW digest \in Trees, NEW stable \in BOOLEAN
  PROVE  [of |-> of, inputs |-> inputs, label |-> label, digest |-> digest,
          stable |-> stable] \in Pages
BY DEF Pages

LEMMA PageBecomes ==
  ASSUME NEW n \in Pages
  PROVE  /\ \A of \in -2..MaxCommands : [n EXCEPT !.of = of] \in Pages
         /\ \A inputs \in Trees : [n EXCEPT !.inputs = inputs] \in Pages
         /\ \A label \in Nat : [n EXCEPT !.label = label] \in Pages
         /\ \A digest \in Trees : [n EXCEPT !.digest = digest] \in Pages
         /\ \A stable \in BOOLEAN : [n EXCEPT !.stable = stable] \in Pages
BY DEF Pages

LEMMA PlainPages ==
  /\ Nothing \in Trees
  /\ Blank \in Pages /\ Torn \in Pages /\ Absent \in Pages
<1>1. Nothing \in Trees
  BY Bounds DEF Nothing, Trees
<1>2. -2 \in -2..MaxCommands /\ -1 \in -2..MaxCommands /\ 0 \in -2..MaxCommands
  BY Bounds
<1>3. Blank \in Pages
  BY <1>1, <1>2, PageType DEF Blank
<1> QED BY <1>1, <1>2, <1>3, PageBecomes DEF Torn, Absent

LEMMA IdleType == Idle \in Contexts
<1>1. <<Blank, Blank>> \in Pages \X Pages
  BY PlainPages
<1> QED BY <1>1, PlainPages DEF Idle, Contexts

(* What a session becomes keeps its shape.                                 *)
LEMMA Becomes ==
  ASSUME NEW c \in Contexts
  PROVE  /\ \A pc \in {"idle", "fetch", "load", "label", "ready", "first", "check", "create"}
                        \cup HalfWay :
              [c EXCEPT !.pc = pc] \in Contexts
         /\ \A n \in Pages : [c EXCEPT !.new = n] \in Contexts
         /\ \A o \in Pages \X Pages : [c EXCEPT !.old = o] \in Contexts
         /\ [c EXCEPT !.partly = TRUE] \in Contexts
         /\ [c EXCEPT !.moved = TRUE] \in Contexts
BY DEF Contexts

(* A step of a session: the others stay as they are.                       *)
Sets(s) ==
  /\ at' \in [Sessions -> Contexts]
  /\ \A t \in Sessions \ {s} : at'[t] = at[t]
Keeps(s) ==
  /\ at'[s].cmd = at[s].cmd /\ at'[s].moved = at[s].moved
PageKept(s) == at'[s].new = at[s].new
OldKept(s) == at'[s].old = at[s].old

LEMMA Context ==
  ASSUME RoomTypeOK, NEW s \in Sessions
  PROVE  at[s] \in Contexts /\ at[s].new \in Pages /\ at[s].old \in Pages \X Pages
BY DEF RoomTypeOK, Contexts

LEMMA Assigned ==
  ASSUME RoomTypeOK, NEW s \in Sessions, NEW c \in Contexts, at' = [at EXCEPT ![s] = c]
  PROVE  Sets(s) /\ at'[s] = c
BY DEF RoomTypeOK, Sets

LEMMA GotoSets ==
  ASSUME RoomTypeOK, NEW s \in Sessions,
         NEW step \in {"load", "label", "ready", "first"} \cup HalfWay, Goto(s, step)
  PROVE  /\ Sets(s) /\ Keeps(s) /\ PageKept(s) /\ OldKept(s)
         /\ at'[s].pc = step /\ at'[s].partly = at[s].partly
<1> DEFINE c == [at[s] EXCEPT !.pc = step]
<1>1. c \in Contexts
  BY Context, Becomes
<1>2. at' = [at EXCEPT ![s] = c]
  BY DEF Goto
<1>3. /\ c.pc = step /\ c.cmd = at[s].cmd /\ c.new = at[s].new /\ c.old = at[s].old
      /\ c.partly = at[s].partly /\ c.moved = at[s].moved
  BY Context DEF Contexts
<1> HIDE DEF c
<1> QED BY <1>1, <1>2, <1>3, Assigned DEF Keeps, PageKept, OldKept

LEMMA DoneSets ==
  ASSUME RoomTypeOK, NEW s \in Sessions, Done(s)
  PROVE  Sets(s) /\ at'[s] = Idle
BY IdleType, Assigned DEF Done

LEMMA PageSets ==
  ASSUME RoomTypeOK, NEW s \in Sessions, NEW n \in Pages,
         NEW step \in {"label", "ready", "first", "create"},
         at' = [at EXCEPT ![s] = [[at[s] EXCEPT !.pc = step] EXCEPT !.new = n]]
  PROVE  /\ Sets(s) /\ Keeps(s) /\ OldKept(s)
         /\ at'[s].pc = step /\ at'[s].new = n /\ at'[s].partly = at[s].partly
<1> DEFINE c == [at[s] EXCEPT !.pc = step]
           d == [c EXCEPT !.new = n]
<1>1. c \in Contexts
  BY Context, Becomes
<1>2. /\ c.pc = step /\ c.cmd = at[s].cmd /\ c.new = at[s].new /\ c.old = at[s].old
      /\ c.partly = at[s].partly /\ c.moved = at[s].moved
  BY Context DEF Contexts
<1>3. at' = [at EXCEPT ![s] = d]
  OBVIOUS
<1> HIDE DEF c
<1>4. d \in Contexts
  BY <1>1, Becomes
<1>5. /\ d.pc = step /\ d.cmd = at[s].cmd /\ d.new = n /\ d.old = at[s].old
      /\ d.partly = at[s].partly /\ d.moved = at[s].moved
  BY <1>1, <1>2 DEF Contexts
<1> HIDE DEF d
<1> QED BY <1>3, <1>4, <1>5, Assigned DEF Keeps, OldKept

LEMMA LoadSets ==
  ASSUME RoomTypeOK, NEW s \in Sessions, NEW inputs \in Trees,
         at' = [at EXCEPT ![s].pc = "label", ![s].new.inputs = inputs]
  PROVE  /\ Sets(s) /\ Keeps(s) /\ OldKept(s)
         /\ at'[s].pc = "label" /\ at'[s].partly = at[s].partly
         /\ at'[s].new.inputs = inputs /\ at'[s].new.of = at[s].new.of
         /\ at'[s].new.label = at[s].new.label
<1> DEFINE n == [at[s].new EXCEPT !.inputs = inputs]
<1>1. n \in Pages
  BY Context, PageBecomes
<1>2. n.inputs = inputs /\ n.of = at[s].new.of /\ n.label = at[s].new.label
  BY Context DEF Pages
<1>3. at' = [at EXCEPT ![s] = [[at[s] EXCEPT !.pc = "label"] EXCEPT !.new = n]]
  BY Context DEF RoomTypeOK, Contexts
<1> HIDE DEF n
<1> QED BY <1>1, <1>2, <1>3, PageSets, ZenonT(30)

LEMMA LabelSets ==
  ASSUME RoomTypeOK, NEW s \in Sessions, NEW label \in Nat, NEW stable \in BOOLEAN,
         at' = [at EXCEPT ![s].pc = "ready", ![s].new.label = label, ![s].new.stable = stable]
  PROVE  /\ Sets(s) /\ Keeps(s) /\ OldKept(s)
         /\ at'[s].pc = "ready" /\ at'[s].partly = at[s].partly
         /\ at'[s].new.inputs = at[s].new.inputs /\ at'[s].new.of = at[s].new.of
         /\ at'[s].new.label = label /\ at'[s].new.stable = stable
<1> DEFINE m == [at[s].new EXCEPT !.label = label]
           n == [m EXCEPT !.stable = stable]
<1>1. m \in Pages
  BY Context, PageBecomes
<1>2. n \in Pages
  BY <1>1, PageBecomes
<1>3. m.inputs = at[s].new.inputs /\ m.of = at[s].new.of /\ m.label = label
  BY Context DEF Pages
<1>4. /\ n.inputs = at[s].new.inputs /\ n.of = at[s].new.of /\ n.label = label
      /\ n.stable = stable
  BY <1>1, <1>3 DEF Pages
<1>5. at' = [at EXCEPT ![s] = [[at[s] EXCEPT !.pc = "ready"] EXCEPT !.new = n]]
  BY Context DEF RoomTypeOK, Contexts
<1> HIDE DEF n
<1> QED BY <1>2, <1>4, <1>5, PageSets

LEMMA DigestSets ==
  ASSUME RoomTypeOK, NEW s \in Sessions, NEW digest \in Trees, NEW stable \in BOOLEAN,
         at' = [at EXCEPT ![s].pc = "first", ![s].new.digest = digest, ![s].new.stable = stable]
  PROVE  /\ Sets(s) /\ Keeps(s) /\ OldKept(s)
         /\ at'[s].pc = "first" /\ at'[s].partly = at[s].partly
         /\ at'[s].new.inputs = at[s].new.inputs /\ at'[s].new.of = at[s].new.of
         /\ at'[s].new.digest = digest /\ at'[s].new.stable = stable
<1> DEFINE m == [at[s].new EXCEPT !.digest = digest]
           n == [m EXCEPT !.stable = stable]
<1>1. m \in Pages
  BY Context, PageBecomes
<1>2. n \in Pages
  BY <1>1, PageBecomes
<1>3. m.inputs = at[s].new.inputs /\ m.of = at[s].new.of /\ m.digest = digest
  BY Context DEF Pages
<1>4. /\ n.inputs = at[s].new.inputs /\ n.of = at[s].new.of /\ n.digest = digest
      /\ n.stable = stable
  BY <1>1, <1>3 DEF Pages
<1>5. at' = [at EXCEPT ![s] = [[at[s] EXCEPT !.pc = "first"] EXCEPT !.new = n]]
  BY Context DEF RoomTypeOK, Contexts
<1> HIDE DEF n
<1> QED BY <1>2, <1>4, <1>5, PageSets

LEMMA OldSets ==
  ASSUME RoomTypeOK, NEW s \in Sessions, NEW o \in Pages \X Pages,
         NEW step \in {"first", "undo first"},
         at' = [at EXCEPT ![s].pc = step, ![s].old = o]
  PROVE  /\ Sets(s) /\ Keeps(s) /\ PageKept(s)
         /\ at'[s].pc = step /\ at'[s].old = o /\ at'[s].partly = at[s].partly
<1> DEFINE c == [at[s] EXCEPT !.pc = step]
           d == [c EXCEPT !.old = o]
<1>1. c \in Contexts
  BY Context, Becomes DEF HalfWay
<1>2. /\ c.pc = step /\ c.cmd = at[s].cmd /\ c.new = at[s].new /\ c.old = at[s].old
      /\ c.partly = at[s].partly /\ c.moved = at[s].moved
  BY Context DEF Contexts
<1>3. at' = [at EXCEPT ![s] = d]
  BY Context DEF RoomTypeOK, Contexts
<1> HIDE DEF c
<1>4. d \in Contexts
  BY <1>1, Becomes
<1>5. /\ d.pc = step /\ d.cmd = at[s].cmd /\ d.new = at[s].new /\ d.old = o
      /\ d.partly = at[s].partly /\ d.moved = at[s].moved
  BY <1>1, <1>2 DEF Contexts
<1> HIDE DEF d
<1> QED BY <1>3, <1>4, <1>5, Assigned DEF Keeps, PageKept

LEMMA PartlySets ==
  ASSUME RoomTypeOK, NEW s \in Sessions,
         at' = [at EXCEPT ![s].pc = "undo second", ![s].partly = TRUE]
  PROVE  /\ Sets(s) /\ Keeps(s) /\ PageKept(s) /\ OldKept(s)
         /\ at'[s].pc = "undo second" /\ at'[s].partly = TRUE
<1> DEFINE c == [at[s] EXCEPT !.pc = "undo second"]
           d == [c EXCEPT !.partly = TRUE]
<1>1. c \in Contexts
  BY Context, Becomes DEF HalfWay
<1>2. /\ c.pc = "undo second" /\ c.cmd = at[s].cmd /\ c.new = at[s].new /\ c.old = at[s].old
      /\ c.moved = at[s].moved
  BY Context DEF Contexts
<1>3. at' = [at EXCEPT ![s] = d]
  BY Context DEF RoomTypeOK, Contexts
<1> HIDE DEF c
<1>4. d \in Contexts
  BY <1>1, Becomes
<1>5. /\ d.pc = "undo second" /\ d.cmd = at[s].cmd /\ d.new = at[s].new /\ d.old = at[s].old
      /\ d.partly = TRUE /\ d.moved = at[s].moved
  BY <1>1, <1>2 DEF Contexts
<1> HIDE DEF d
<1> QED BY <1>3, <1>4, <1>5, Assigned DEF Keeps, PageKept, OldKept

LEMMA NoteSets ==
  ASSUME RoomTypeOK, NEW s \in Sessions, NEW x \in Nat,
         at' = [at EXCEPT ![s].pc = "create", ![s].new.label = x]
  PROVE  /\ Sets(s) /\ Keeps(s) /\ OldKept(s)
         /\ at'[s].pc = "create" /\ at'[s].partly = at[s].partly
         /\ at'[s].new.of = at[s].new.of /\ at'[s].new.label = x
<1> DEFINE n == [at[s].new EXCEPT !.label = x]
<1>1. n \in Pages
  BY Context, PageBecomes
<1>2. n.of = at[s].new.of /\ n.label = x
  BY Context DEF Pages
<1>3. at' = [at EXCEPT ![s] = [[at[s] EXCEPT !.pc = "create"] EXCEPT !.new = n]]
  BY Context DEF RoomTypeOK, Contexts
<1> HIDE DEF n
<1> QED BY <1>1, <1>2, <1>3, PageSets

LEMMA StartSets ==
  ASSUME RoomTypeOK, NEW s \in Sessions, NEW c \in Commands, Start(s, c)
  PROVE  /\ Sets(s)
         /\ at'[s].pc = FirstStep(c) /\ at'[s].cmd = c /\ at'[s].old = <<Blank, Blank>>
         /\ at'[s].new.of = started' /\ at'[s].new.label = 0
         /\ ~at'[s].partly /\ ~at'[s].moved
         /\ started' \in 0..MaxCommands /\ started' > 0
<1> DEFINE n == [Blank EXCEPT !.of = started']
           b == [Idle EXCEPT !.pc = FirstStep(c)]
           d == [b EXCEPT !.cmd = c]
           e == [d EXCEPT !.new = n]
<1>1. started' \in 0..MaxCommands /\ started' > 0 /\ started' \in -2..MaxCommands
  BY Bounds DEF Start, RoomTypeOK
<1>2. n \in Pages /\ n.of = started' /\ n.label = 0
  <2>1. Blank \in Pages /\ Blank.label = 0
    BY PlainPages DEF Blank
  <2> HIDE DEF n
  <2>2. n = [Blank EXCEPT !.of = started']
    BY DEF n
  <2> QED BY <1>1, <2>1, <2>2, PageBecomes DEF Pages
<1>3. FirstStep(c) \in {"fetch", "load", "check", "ready"}
  BY DEF FirstStep, Commands, Pairs
<1>4. b \in Contexts
  BY <1>3, IdleType, Becomes
<1>5. /\ b.pc = FirstStep(c) /\ b.new = Blank /\ b.old = <<Blank, Blank>>
      /\ b.partly = FALSE /\ b.moved = FALSE
  <2>1. Idle.new = Blank /\ Idle.old = <<Blank, Blank>> /\ Idle.partly = FALSE /\ Idle.moved = FALSE
    BY DEF Idle
  <2> QED BY <2>1, IdleType DEF Contexts
<1> HIDE DEF b
<1>6. d \in Contexts
  BY <1>4 DEF Contexts
<1>7. /\ d.pc = FirstStep(c) /\ d.cmd = c /\ d.new = Blank /\ d.old = <<Blank, Blank>>
      /\ d.partly = FALSE /\ d.moved = FALSE
  BY <1>4, <1>5 DEF Contexts
<1>8. at' = [at EXCEPT ![s] = [d EXCEPT !.new.of = started']]
  BY DEF Start, b, d
<1> HIDE DEF d
<1>9. at' = [at EXCEPT ![s] = e]
  BY <1>6, <1>7, <1>8 DEF Contexts
<1>10. e \in Contexts
  BY <1>2, <1>6, Becomes
<1> HIDE DEF n
<1>11. /\ e.pc = FirstStep(c) /\ e.cmd = c /\ e.new = n /\ e.old = <<Blank, Blank>>
       /\ e.partly = FALSE /\ e.moved = FALSE
  BY <1>6, <1>7 DEF Contexts
<1> HIDE DEF e
<1> QED BY <1>1, <1>2, <1>9, <1>10, <1>11, Assigned

(* When something moves, whoever has read and not labelled yet is told.    *)
LEMMA StirredSets ==
  ASSUME RoomTypeOK
  PROVE  /\ Stirred \in [Sessions -> Contexts]
         /\ \A t \in Sessions :
              /\ Stirred[t].pc = at[t].pc /\ Stirred[t].cmd = at[t].cmd
              /\ Stirred[t].new = at[t].new /\ Stirred[t].old = at[t].old
              /\ Stirred[t].partly = at[t].partly
              /\ Stirred[t].moved = (at[t].moved \/ at[t].pc = "label")
<1> SUFFICES ASSUME NEW t \in Sessions
             PROVE  /\ Stirred[t] \in Contexts
                    /\ Stirred[t].pc = at[t].pc /\ Stirred[t].cmd = at[t].cmd
                    /\ Stirred[t].new = at[t].new /\ Stirred[t].old = at[t].old
                    /\ Stirred[t].partly = at[t].partly
                    /\ Stirred[t].moved = (at[t].moved \/ at[t].pc = "label")
  BY DEF Stirred
<1> DEFINE c == [at[t] EXCEPT !.moved = TRUE]
<1>1. c \in Contexts
  BY Context, Becomes
<1>2. /\ c.pc = at[t].pc /\ c.cmd = at[t].cmd /\ c.new = at[t].new /\ c.old = at[t].old
      /\ c.partly = at[t].partly /\ c.moved = TRUE
  BY Context DEF Contexts
<1>3. Stirred[t] = IF at[t].pc = "label" THEN c ELSE at[t]
  BY DEF Stirred
<1>4. at[t].moved \in BOOLEAN
  BY Context DEF Contexts
<1> HIDE DEF c
<1> QED BY <1>1, <1>2, <1>3, <1>4, Context

LEMMA TreeTypes ==
  ASSUME RoomTypeOK
  PROVE  /\ work \in Trees /\ \A X \in SUBSET Paths : Digest(X) \in Trees
         /\ \A x \in Paths, v \in 0..Versions : [work EXCEPT ![x] = v] \in Trees
BY Bounds DEF RoomTypeOK, Digest, Trees

(* A label and a stability that NameRevision or TakeDigest may give.       *)
LEMMA LabelTypes ==
  ASSUME RoomTypeOK, NEW s \in Sessions
  PROVE  Revisions \cup {0} \subseteq Nat /\ (~at[s].moved) \in BOOLEAN
<1>1. Len(log) \in Nat
  BY DEF RoomTypeOK
<1> QED BY <1>1 DEF Revisions

(* The steps of a session by what they do to where it is.                  *)
Ending(s) == Done(s)
Going(s) ==
  \E step \in {"load", "label", "ready", "first"} \cup HalfWay : Goto(s, step)
Loading(s) ==
  \E inputs \in Trees : at' = [at EXCEPT ![s].pc = "label", ![s].new.inputs = inputs]
Labelling(s) ==
  \E label \in Nat, stable \in BOOLEAN :
     at' = [at EXCEPT ![s].pc = "ready", ![s].new.label = label, ![s].new.stable = stable]
Digesting(s) ==
  \E digest \in Trees, stable \in BOOLEAN :
     at' = [at EXCEPT ![s].pc = "first", ![s].new.digest = digest, ![s].new.stable = stable]
Reading(s) ==
  \E o \in Pages \X Pages, step \in {"first", "undo first"} :
     at' = [at EXCEPT ![s].pc = step, ![s].old = o]
Failing(s) == at' = [at EXCEPT ![s].pc = "undo second", ![s].partly = TRUE]
Naming(s) == \E x \in Nat : at' = [at EXCEPT ![s].pc = "create", ![s].new.label = x]

(* What each of them is: an end, or one of these.                          *)
LEMMA HandsOn ==
  ASSUME RoomTypeOK, NEW s \in Sessions
  PROVE  /\ Fetch(s) => Ending(s) \/ Going(s)
         /\ LoadState(s) \/ CopyInputs(s) => Ending(s) \/ Loading(s)
         /\ NameRevision(s) => Labelling(s)
         /\ TakeDigest(s) => Ending(s) \/ Digesting(s)
         /\ Prepare(s) \/ ReadReport(s) => Ending(s) \/ Reading(s)
         /\ PutFirst(s) \/ PutSecond(s) \/ UndoFirst(s) => Ending(s) \/ Going(s) \/ Failing(s)
         /\ UndoSecond(s) \/ Die(s) => Ending(s)
         /\ CheckNote(s) => Ending(s) \/ Naming(s)
<1>1. Tracked \subseteq Paths
  BY DEF Tracked
<1>2. {x \in Paths : at[s].new.inputs[x] # 0} \subseteq Paths
  OBVIOUS
<1>3. Absent \in Pages /\ \A f \in Files : file[f] \in Pages
  BY PlainPages DEF RoomTypeOK
<1>4. LoadState(s) \/ CopyInputs(s) => Ending(s) \/ Loading(s)
  BY <1>1, TreeTypes DEF LoadState, CopyInputs, Ending, Loading
<1>5. NameRevision(s) => Labelling(s)
  BY LabelTypes DEF NameRevision, Labelling
<1>6. TakeDigest(s) => Ending(s) \/ Digesting(s)
  BY <1>2, TreeTypes, LabelTypes DEF TakeDigest, Ending, Digesting
<1>7. Prepare(s) \/ ReadReport(s) => Ending(s) \/ Reading(s)
  BY <1>3 DEF Prepare, ReadReport, Ending, Reading, Files
<1>8. CheckNote(s) => Ending(s) \/ Naming(s)
  BY Bounds DEF CheckNote, Ending, Naming
<1>9. /\ Fetch(s) => Ending(s) \/ Going(s)
      /\ PutFirst(s) \/ PutSecond(s) \/ UndoFirst(s) => Ending(s) \/ Going(s) \/ Failing(s)
      /\ UndoSecond(s) \/ Die(s) => Ending(s)
  BY DEF Fetch, PutFirst, PutSecond, UndoFirst, UndoSecond, Die, Fail, Ending, Going, Failing,
     HalfWay
<1> QED BY <1>4, <1>5, <1>6, <1>7, <1>8, <1>9

(* None of them changes the command, and each changes only its session.    *)
LEMMA CommandKept ==
  ASSUME RoomTypeOK, NEW s \in Sessions,
         \/ Going(s) \/ Loading(s) \/ Labelling(s) \/ Digesting(s)
         \/ Reading(s) \/ Failing(s) \/ Naming(s)
  PROVE  Sets(s) /\ at'[s].cmd = at[s].cmd
<1>1. CASE Going(s) \/ Failing(s)
  BY <1>1, GotoSets, PartlySets DEF Going, Failing, Keeps
<1>2. CASE Loading(s)
  BY <1>2, LoadSets DEF Loading, Keeps
<1>3. CASE Labelling(s)
  <2>1. PICK label \in Nat, stable \in BOOLEAN :
          at' = [at EXCEPT ![s].pc = "ready", ![s].new.label = label, ![s].new.stable = stable]
    BY <1>3 DEF Labelling
  <2> QED BY <2>1, LabelSets DEF Keeps
<1>4. CASE Digesting(s)
  <2>1. PICK digest \in Trees, stable \in BOOLEAN :
          at' = [at EXCEPT ![s].pc = "first", ![s].new.digest = digest, ![s].new.stable = stable]
    BY <1>4 DEF Digesting
  <2> QED BY <2>1, DigestSets DEF Keeps
<1>5. CASE Reading(s)
  <2>1. PICK o \in Pages \X Pages, step \in {"first", "undo first"} :
          at' = [at EXCEPT ![s].pc = step, ![s].old = o]
    BY <1>5 DEF Reading
  <2> QED BY <2>1, OldSets DEF Keeps
<1>6. CASE Naming(s)
  BY <1>6, NoteSets DEF Naming, Keeps
<1> QED BY <1>1, <1>2, <1>3, <1>4, <1>5, <1>6

LEMMA AtType ==
  ASSUME RoomTypeOK, Next
  PROVE  at' \in [Sessions -> Contexts]
<1>1. ASSUME NEW s \in Sessions, NEW c \in Commands, Start(s, c)
      PROVE  at' \in [Sessions -> Contexts]
  BY <1>1, StartSets DEF Sets
<1>2. CASE Edit \/ Commit
  BY <1>2, StirredSets DEF Edit, Commit
<1>3. ASSUME NEW s \in Sessions, Ending(s)
      PROVE  at' \in [Sessions -> Contexts]
  BY <1>3, DoneSets DEF Ending, Sets
<1>4. ASSUME NEW s \in Sessions, CreateNote(s)
      PROVE  at' \in [Sessions -> Contexts]
  <2>1. CASE at' = [Stirred EXCEPT ![s] = Idle]
    BY <2>1, StirredSets, IdleType
  <2> QED BY <1>3, <1>4, <2>1 DEF CreateNote, Ending
<1> QED BY <1>1, <1>2, <1>3, <1>4, HandsOn, CommandKept DEF Next, Sets

LEMMA PageTypes ==
  ASSUME RoomTypeOK, NEW s \in Sessions
  PROVE  Content(s, 1) \in Pages /\ Content(s, 2) \in Pages
         /\ at[s].old[1] \in Pages /\ at[s].old[2] \in Pages
<1>1. at[s].new \in Pages /\ at[s].old \in Pages \X Pages
  BY Context
<1>2. [at[s].new EXCEPT !.label = 0] \in Pages
  BY <1>1, PageBecomes
<1> QED BY <1>1, <1>2 DEF Content, CurrentPage, RoadmapBoard, LiveBoard

LEMMA FileType ==
  ASSUME RoomTypeOK, Next
  PROVE  file' \in [Files -> Pages]
<1>1. CASE file' = file
  BY <1>1 DEF RoomTypeOK
<1>2. CASE \E f \in Files, page \in Pages : file' = [file EXCEPT ![f] = page]
  BY <1>2 DEF RoomTypeOK
<1>3. \A c : First(c) \in Files /\ Second(c) \in Files
  BY DEF First, Second, Files
<1>4. ASSUME NEW s \in Sessions, NEW i \in {1, 2}, file' \in Lost(s, i)
      PROVE  file' = file \/ \E f \in Files, page \in Pages : file' = [file EXCEPT ![f] = page]
  BY <1>3, <1>4, PlainPages DEF Lost, PairFile
<1>5. ASSUME NEW s \in Sessions, PutFirst(s) \/ PutSecond(s) \/ UndoFirst(s) \/ UndoSecond(s)
      PROVE  file' = file \/ \E f \in Files, page \in Pages : file' = [file EXCEPT ![f] = page]
  BY <1>3, <1>4, <1>5, PageTypes DEF PutFirst, PutSecond, UndoFirst, UndoSecond
<1>6. ASSUME NEW s \in Sessions, Die(s)
      PROVE  file' = file \/ \E f \in Files, page \in Pages : file' = [file EXCEPT ![f] = page]
  BY <1>4, <1>6 DEF Die
<1>7. CASE \/ Edit \/ Commit
           \/ \E s \in Sessions :
                \/ \E c \in Commands : Start(s, c)
                \/ Fetch(s) \/ LoadState(s) \/ CopyInputs(s) \/ NameRevision(s) \/ TakeDigest(s)
                \/ Prepare(s) \/ ReadReport(s) \/ CheckNote(s) \/ CreateNote(s)
  BY <1>1, <1>7 DEF Edit, Commit, Start, Fetch, LoadState, CopyInputs, NameRevision, TakeDigest,
     Prepare, ReadReport, CheckNote, CreateNote
<1> QED BY <1>1, <1>2, <1>5, <1>6, <1>7 DEF Next

(* The sessions that do not write to the source, to history and to counters. *)
LEMMA SourceKept ==
  ASSUME Next, ~Edit, ~Commit, \A s \in Sessions : ~CreateNote(s)
  PROVE  work' = work /\ log' = log /\ edits' = edits
BY DEF Next, Start, Fetch, LoadState, CopyInputs, NameRevision, TakeDigest, Prepare, ReadReport,
   PutFirst, PutSecond, UndoFirst, UndoSecond, CheckNote, Die

LEMMA SourceType ==
  ASSUME RoomTypeOK, Next
  PROVE  /\ work' \in Trees /\ work'[0] # 0
         /\ log' \in Seq(Trees) /\ Len(log') \in 1..(MaxCommits + 1)
         /\ edits' \in 0..MaxEdits
<1>1. CASE Edit
  <2>1. PICK x \in Paths, v \in 0..Versions :
          (x = 0 => v # 0) /\ work' = [work EXCEPT ![x] = v]
    BY <1>1 DEF Edit
  <2>2. work' \in Trees /\ work'[0] # 0
    BY <2>1, TreeTypes, Bounds DEF RoomTypeOK, Trees
  <2> QED BY <1>1, <2>2, Bounds DEF Edit, RoomTypeOK
<1>2. CASE Commit
  BY <1>2, Bounds DEF Commit, RoomTypeOK
<1>3. ASSUME NEW s \in Sessions, CreateNote(s), ~Edit
      PROVE  /\ work' \in Trees /\ work'[0] # 0 /\ log' = log /\ edits' = edits
  <2>1. CASE work' = work
    BY <1>3, <2>1 DEF CreateNote, RoomTypeOK
  <2>2. CASE work' = [work EXCEPT ![at[s].new.label] = 1]
    <3>1. work' \in [Paths -> 0..Versions]
      BY <2>2, Bounds DEF RoomTypeOK, Trees
    <3>2. work'[0] \in {work[0], 1}
      BY <2>2, Bounds DEF RoomTypeOK, Trees
    <3> QED BY <1>3, <3>1, <3>2 DEF CreateNote, RoomTypeOK, Trees
  <2> QED BY <1>3, <2>1, <2>2 DEF CreateNote
<1> QED BY <1>1, <1>2, <1>3, SourceKept DEF RoomTypeOK

(* Which commands come where; only a pair is ever half way.                *)
Route(pc, cmd) ==
  \/ pc = "idle" /\ cmd = "none"
  \/ pc = "fetch" /\ cmd = "export"
  \/ pc \in {"load", "label"} /\ cmd \in {"snapshot", "export", "codegraph"}
  \/ pc = "ready" /\ cmd \in {"snapshot", "export", "report"}
  \/ pc \in {"first", "second"} /\ cmd \in Pairs \cup {"export"}
  \/ pc \in {"undo first", "undo second"} /\ cmd \in {"snapshot", "export", "report"}
  \/ pc \in {"check", "create"} /\ cmd = "handoff"
Routes == \A s \in Sessions : Route(at[s].pc, at[s].cmd)

LEMMA RouteStep ==
  ASSUME RoomTypeOK, Routes, Next
  PROVE  Routes'
<1>1. ASSUME NEW s \in Sessions, Sets(s), Route(at'[s].pc, at'[s].cmd)
      PROVE  Routes'
  BY <1>1 DEF Sets, Routes
<1>2. ASSUME NEW s \in Sessions, Done(s)
      PROVE  Routes'
  <2>1. Idle.pc = "idle" /\ Idle.cmd = "none"
    BY DEF Idle
  <2> QED BY <1>1, <1>2, <2>1, DoneSets DEF Route
<1>3. CASE Edit \/ Commit
  BY <1>3, StirredSets DEF Edit, Commit, Routes
<1>4. ASSUME NEW s \in Sessions, CreateNote(s)
      PROVE  Routes'
  <2>1. CASE at' = [Stirred EXCEPT ![s] = Idle]
    BY <2>1, StirredSets, ZenonT(30) DEF Routes, Route, Idle
  <2> QED BY <1>2, <1>4, <2>1 DEF CreateNote
<1>5. ASSUME NEW s \in Sessions, NEW c \in Commands, Start(s, c)
      PROVE  Routes'
  <2>1. Route(FirstStep(c), c)
    BY DEF FirstStep, Commands, Pairs, Route
  <2> QED BY <1>1, <1>5, <2>1, StartSets
<1>6. ASSUME NEW s \in Sessions, Fetch(s) \/ LoadState(s) \/ CopyInputs(s)
      PROVE  Routes'
  <2>1. CASE at[s].pc = "fetch" /\ Goto(s, "load")
    <3>1. Sets(s) /\ at'[s].pc = "load" /\ at'[s].cmd = "export"
      BY <2>1, GotoSets DEF Routes, Route, Keeps
    <3> QED BY <3>1, <1>1 DEF Route
  <2>2. CASE at[s].pc = "load" /\ Loading(s)
    <3>1. Sets(s) /\ at'[s].pc = "label" /\ at'[s].cmd \in {"snapshot", "export", "codegraph"}
      BY <2>2, LoadSets DEF Routes, Route, Keeps, Loading
    <3> QED BY <3>1, <1>1 DEF Route
  <2>3. Done(s) \/ (at[s].pc = "fetch" /\ Goto(s, "load")) \/ (at[s].pc = "load" /\ Loading(s))
    <3>1. Tracked \subseteq Paths
      BY DEF Tracked
    <3> QED BY <1>6, <3>1, TreeTypes DEF Fetch, LoadState, CopyInputs, Loading
  <2> QED BY <2>1, <2>2, <2>3, <1>2
<1>7. ASSUME NEW s \in Sessions, NameRevision(s) \/ TakeDigest(s)
      PROVE  Routes'
  <2>0. /\ NameRevision(s) => at[s].pc = "label" /\ at[s].cmd # "codegraph" /\ Labelling(s)
        /\ TakeDigest(s) => at[s].pc = "label" /\ at[s].cmd = "codegraph"
                             /\ (Done(s) \/ Digesting(s))
    <3>1. {x \in Paths : at[s].new.inputs[x] # 0} \subseteq Paths
      OBVIOUS
    <3> QED BY <3>1, TreeTypes, LabelTypes DEF NameRevision, TakeDigest, Labelling, Digesting
  <2>1. CASE NameRevision(s)
    <3>1. at[s].cmd \in {"snapshot", "export"}
      BY <2>0, <2>1 DEF Routes, Route
    <3>2. Sets(s) /\ at'[s].pc = "ready" /\ at'[s].cmd = at[s].cmd
      <4>1. PICK label \in Nat, stable \in BOOLEAN :
              at' = [at EXCEPT ![s].pc = "ready", ![s].new.label = label,
                               ![s].new.stable = stable]
        BY <2>0, <2>1 DEF Labelling
      <4> QED BY <4>1, LabelSets DEF Keeps
    <3> QED BY <3>1, <3>2, <1>1 DEF Route
  <2>2. CASE TakeDigest(s) /\ Digesting(s)
    <3>1. Sets(s) /\ at'[s].pc = "first" /\ at'[s].cmd = at[s].cmd
      <4>1. PICK digest \in Trees, stable \in BOOLEAN :
              at' = [at EXCEPT ![s].pc = "first", ![s].new.digest = digest,
                               ![s].new.stable = stable]
        BY <2>2 DEF Digesting
      <4> QED BY <4>1, DigestSets DEF Keeps
    <3> QED BY <2>0, <2>2, <3>1, <1>1 DEF Route, Pairs
  <2> QED BY <1>7, <2>0, <2>1, <2>2, <1>2
<1>8. ASSUME NEW s \in Sessions, Prepare(s) \/ ReadReport(s)
      PROVE  Routes'
  <2>1. CASE Reading(s)
    <3>1. at[s].cmd \in {"snapshot", "export", "report"}
      BY <1>8 DEF Prepare, ReadReport, Routes, Route
    <3>2. Sets(s) /\ at'[s].pc \in {"first", "undo first"} /\ at'[s].cmd = at[s].cmd
      <4>1. PICK o \in Pages \X Pages, step \in {"first", "undo first"} :
              at' = [at EXCEPT ![s].pc = step, ![s].old = o]
        BY <2>1 DEF Reading
      <4> QED BY <4>1, OldSets DEF Keeps
    <3> QED BY <3>1, <3>2, <1>1 DEF Route, Pairs
  <2>2. Done(s) \/ Reading(s)
    <3>1. \A f \in Files : file[f] \in Pages
      BY DEF RoomTypeOK
    <3> QED BY <1>8, <3>1, PlainPages DEF Prepare, ReadReport, Reading, Files
  <2> QED BY <2>1, <2>2, <1>2
<1>9. ASSUME NEW s \in Sessions,
             PutFirst(s) \/ PutSecond(s) \/ UndoFirst(s) \/ UndoSecond(s) \/ Die(s)
      PROVE  Routes'
  <2>1. CASE at[s].pc = "first" /\ Goto(s, "second")
    <3>1. Sets(s) /\ at'[s].pc = "second" /\ at'[s].cmd \in Pairs \cup {"export"}
      BY <2>1, GotoSets DEF Routes, Route, Keeps, HalfWay
    <3> QED BY <3>1, <1>1 DEF Route
  <2>2. CASE at[s].pc \in {"first", "second"} /\ at[s].cmd # "codegraph" /\ Goto(s, "undo first")
    <3>1. Sets(s) /\ at'[s].pc = "undo first" /\ at'[s].cmd \in {"snapshot", "export", "report"}
      BY <2>2, GotoSets DEF Routes, Route, Keeps, HalfWay, Pairs
    <3> QED BY <3>1, <1>1 DEF Route
  <2>3. CASE at[s].pc = "undo first" /\ (Goto(s, "undo second") \/ Failing(s))
    <3>1. Sets(s) /\ at'[s].pc = "undo second" /\ at'[s].cmd \in {"snapshot", "export", "report"}
      <4>1. at[s].cmd \in {"snapshot", "export", "report"}
        BY <2>3 DEF Routes, Route
      <4>2. CASE Goto(s, "undo second")
        BY <4>1, <4>2, GotoSets DEF Keeps, HalfWay
      <4>3. CASE Failing(s)
        BY <4>1, <4>3, PartlySets DEF Keeps, Failing
      <4> QED BY <2>3, <4>2, <4>3
    <3> QED BY <3>1, <1>1 DEF Route
  <2> QED BY <1>2, <1>9, <2>1, <2>2, <2>3
          DEF PutFirst, PutSecond, UndoFirst, UndoSecond, Die, Fail, Failing
<1>10. ASSUME NEW s \in Sessions, CheckNote(s)
       PROVE  Routes'
  <2>1. CASE Naming(s)
    <3>1. Sets(s) /\ at'[s].pc = "create" /\ at'[s].cmd = "handoff"
      BY <1>10, <2>1, NoteSets DEF CheckNote, Naming, Keeps, Routes, Route
    <3> QED BY <3>1, <1>1 DEF Route
  <2>2. Done(s) \/ Naming(s)
    BY <1>10, Bounds DEF CheckNote, Naming
  <2> QED BY <2>1, <2>2, <1>2
<1> QED BY <1>3, <1>4, <1>5, <1>6, <1>7, <1>8, <1>9, <1>10 DEF Next

LEMMA TypeStep ==
  ASSUME RoomTypeOK, Routes, [Next]_vars
  PROVE  RoomTypeOK' /\ Routes'
<1>1. CASE UNCHANGED vars
  BY <1>1 DEF vars, RoomTypeOK, Routes
<1>2. CASE Next
  <2>1. started' \in 0..MaxCommands
    <3>1. started' = started \/ \E s \in Sessions, c \in Commands : Start(s, c)
      BY <1>2, ZenonT(30) DEF Next, Edit, Commit, Fetch, LoadState, CopyInputs, NameRevision, TakeDigest,
         Prepare, ReadReport, PutFirst, PutSecond, UndoFirst, UndoSecond, CheckNote, CreateNote,
         Die
    <3> QED BY <3>1, StartSets DEF RoomTypeOK
  <2>2. apart' \subseteq Pairs
    <3>1. \A s \in Sessions : at[s].pc \in HalfWay => PairOf(at[s].cmd) \in Pairs
      BY DEF Routes, Route, HalfWay, PairOf, Pairs
    <3>2. apart' \subseteq apart \cup {"report", "codegraph"}
          \/ \E s \in Sessions : at[s].pc \in HalfWay /\ apart' = apart \cup {PairOf(at[s].cmd)}
      BY <1>2 DEF Next, Start, Edit, Commit, Fetch, LoadState, CopyInputs, NameRevision,
         TakeDigest, Prepare, ReadReport, PutFirst, PutSecond, UndoFirst, UndoSecond, CheckNote,
         CreateNote, Die, HalfWay
    <3> QED BY <3>1, <3>2 DEF RoomTypeOK, Pairs
  <2> QED BY <1>2, <2>1, <2>2, AtType, FileType, SourceType, RouteStep DEF RoomTypeOK
<1> QED BY <1>1, <1>2

LEMMA TypeInit == Init => RoomTypeOK /\ Routes
<1> SUFFICES ASSUME Init PROVE RoomTypeOK /\ Routes
  OBVIOUS
<1>1. work \in Trees /\ work[0] # 0
  BY Bounds DEF Init, Trees
<1>2. log \in Seq(Trees) /\ Len(log) \in 1..(MaxCommits + 1)
  BY <1>1, Bounds DEF Init
<1>3. file \in [Files -> Pages]
  BY PlainPages DEF Init
<1>4. at \in [Sessions -> Contexts] /\ Routes
  BY IdleType DEF Init, Routes, Route, Idle
<1> QED BY <1>1, <1>2, <1>3, <1>4, Bounds DEF Init, RoomTypeOK

(* Where every session is, what it holds, the files and the repository     *)
(* have their shape at every moment (RoomTypeOK).                          *)
THEOREM TypeCorrect == Spec => []RoomTypeOK
<1>1. RoomTypeOK /\ Routes /\ [Next]_vars => RoomTypeOK' /\ Routes'
  BY TypeStep
<1> QED BY <1>1, TypeInit, PTL DEF Spec

-----------------------------------------------------------------------------
(* The revision a page names.  Whether a path was touched since a commit   *)
(* is asked of every later commit; that it then still has the content of   *)
(* that commit is an invariant of the history (Untouched), which each      *)
(* commit extends by one.                                                  *)
Untouched ==
  \A i \in 1..Len(log) :
    /\ log[i][0] # 0
    /\ \A x \in Paths :
         (\A j \in (i+1)..Len(log) : ~Touches(j, x)) => log[i][x] = Tip[x]

LEMMA UntouchedStep ==
  ASSUME RoomTypeOK, Untouched, Next
  PROVE  Untouched'
<1>1. CASE log' = log
  BY <1>1 DEF Untouched, Touches, Tip
<1>2. CASE Commit
  <2>1. /\ log' = Append(log, work) /\ Len(log') = Len(log) + 1 /\ log'[Len(log) + 1] = work
        /\ \A i \in 1..Len(log) : log'[i] = log[i]
        /\ Len(log) \in Nat \ {0}
    BY <1>2 DEF Commit, RoomTypeOK
  <2>2. work[0] # 0 /\ Tip' = work
    BY <2>1 DEF RoomTypeOK, Tip
  <2>3. ASSUME NEW i \in 1..Len(log), NEW x \in Paths,
               \A j \in (i+1)..Len(log') : log'[j][x] = log'[j-1][x]
        PROVE  log'[i][x] = Tip'[x]
    <3>1. \A j \in (i+1)..Len(log) : ~Touches(j, x)
      BY <2>1, <2>3 DEF Touches
    <3>2. log[i][x] = Tip[x]
      BY <3>1 DEF Untouched
    <3>3. Len(log) + 1 \in (i+1)..Len(log')
      BY <2>1
    <3>4. log'[Len(log) + 1][x] = log'[(Len(log) + 1) - 1][x]
      BY <2>3, <3>3
    <3> QED BY <2>1, <2>2, <3>2, <3>4 DEF Tip
  <2>4. \A i \in 1..Len(log) : log'[i][0] # 0
    BY <2>1 DEF Untouched
  <2>5. \A i \in 1..Len(log), x \in Paths :
          (\A j \in (i+1)..Len(log') : ~Touches(j, x)') => log'[i][x] = Tip'[x]
    <3> SUFFICES ASSUME NEW i \in 1..Len(log), NEW x \in Paths,
                        \A j \in (i+1)..Len(log') : ~Touches(j, x)'
                 PROVE  log'[i][x] = Tip'[x]
      OBVIOUS
    <3>1. ASSUME NEW j \in (i+1)..Len(log')
          PROVE  log'[j][x] = log'[j-1][x]
      <4>1. ~Touches(j, x)' /\ j # 1
        BY <2>1
      <4> QED BY <4>1 DEF Touches
    <3> QED BY <2>3, <3>1
  <2> QED BY <2>1, <2>2, <2>4, <2>5 DEF Untouched
<1>3. log' = log \/ Commit
  BY ZenonT(30) DEF Next, Edit, Start, Fetch, LoadState, CopyInputs, NameRevision, TakeDigest, Prepare,
     ReadReport, PutFirst, PutSecond, UndoFirst, UndoSecond, CheckNote, CreateNote, Die
<1> QED BY <1>1, <1>2, <1>3

(* A revision that may be named has every input that is there.             *)
LEMMA RevisionShows ==
  ASSUME RoomTypeOK, Untouched, NEW label \in Revisions
  PROVE  label \in 1..Len(log) /\ \A x \in Paths : work[x] # 0 => log[label][x] = work[x]
<1>1. /\ ~Dirty /\ label \in 1..Len(log)
      /\ \A j \in (label+1)..Len(log) : \A x \in Inputs : ~Touches(j, x)
  BY DEF Revisions
<1>2. ASSUME NEW x \in Paths, work[x] # 0
      PROVE  log[label][x] = work[x]
  <2>1. Tip[0] # 0
    BY DEF Untouched, Tip, RoomTypeOK
  <2>2. x \in Inputs
    BY <1>2, <2>1 DEF Inputs, Tracked, RecordPaths
  <2>3. log[label][x] = Tip[x]
    BY <1>1, <2>2 DEF Untouched
  <2> QED BY <1>1, <2>2, <2>3 DEF Dirty
<1> QED BY <1>1, <1>2

(* What a page shows is in the commit it names, in a history.              *)
ShowsIn(page, history) ==
  page.label # 0 /\ page.stable =>
    /\ page.label \in 1..Len(history)
    /\ \A x \in Paths : page.inputs[x] # 0 => history[page.label][x] = page.inputs[x]

LEMMA ShowsLater ==
  ASSUME RoomTypeOK, Next, NEW page, ShowsIn(page, log)
  PROVE  ShowsIn(page, log')
<1>1. log' = log \/ log' = Append(log, work)
  BY ZenonT(30) DEF Next, Commit, Edit, Start, Fetch, LoadState, CopyInputs, NameRevision, TakeDigest,
     Prepare, ReadReport, PutFirst, PutSecond, UndoFirst, UndoSecond, CheckNote, CreateNote, Die
<1>2. CASE log' = Append(log, work)
  <2>1. Len(log') = Len(log) + 1 /\ \A i \in 1..Len(log) : log'[i] = log[i]
    BY <1>2 DEF RoomTypeOK
  <2> QED BY <2>1 DEF ShowsIn, RoomTypeOK
<1> QED BY <1>1, <1>2

LEMMA PlainShows ==
  ASSUME NEW history
  PROVE  ShowsIn(Blank, history) /\ ShowsIn(Torn, history) /\ ShowsIn(Absent, history)
<1>1. Blank.label = 0 /\ Torn.label = 0 /\ Absent.label = 0
  BY PlainPages DEF Blank, Torn, Absent, Pages
<1> QED BY <1>1 DEF ShowsIn

(* The pages of snapshots, those in a session's hands too.                 *)
Labelled(c) ==
  PairOf(c.cmd) = "snapshot" =>
    /\ ShowsIn(c.old[1], log) /\ ShowsIn(c.old[2], log)
    /\ c.pc \in {"ready", "first"} \cup HalfWay => ShowsIn(c.new, log)
    /\ c.pc = "label" /\ ~c.moved => c.new.inputs = work
PagesShow ==
  /\ \A f \in {"current", "board"} : ShowsIn(file[f], log)
  /\ \A s \in Sessions : Labelled(at[s])

LEMMA FilesShow ==
  ASSUME RoomTypeOK, Routes, PagesShow, Next, NEW f \in {"current", "board"}
  PROVE  ShowsIn(file'[f], log')
<1> DEFINE Good(page) == ShowsIn(page, log')
<1>1. Good(file[f])
  BY ShowsLater DEF PagesShow
<1>2. ASSUME NEW s \in Sessions, PairOf(at[s].cmd) = "snapshot"
      PROVE  /\ Good(at[s].old[1]) /\ Good(at[s].old[2])
             /\ at[s].pc \in {"first", "second"} => Good(at[s].new)
  BY <1>2, ShowsLater DEF PagesShow, Labelled, HalfWay
<1>3. Good(Torn)
  BY PlainShows
<1>4. CASE file' = file
  BY <1>1, <1>4
<1>5. ASSUME NEW s \in Sessions,
             \/ PutFirst(s) \/ PutSecond(s) \/ UndoFirst(s) \/ UndoSecond(s) \/ Die(s)
      PROVE  Good(file'[f])
  <2> DEFINE c == at[s].cmd
  <2>1. c \in Commands => /\ First(c) = f => PairOf(c) = "snapshot"
                          /\ Second(c) = f => PairOf(c) = "snapshot"
    BY DEF First, Second, PairOf, Commands, Pairs
  <2>2. at[s].pc \in {"first"} \cup HalfWay => c \in Commands
    BY DEF Routes, Route, Commands, Pairs, HalfWay
  <2>3. file \in [Files -> Pages] /\ f \in Files
    BY DEF RoomTypeOK, Files
  <2>4. Good([at[s].new EXCEPT !.label = 0])
    <3>1. [at[s].new EXCEPT !.label = 0].label = 0
      BY Context DEF Pages
    <3> QED BY <3>1 DEF ShowsIn
  <2>5. CASE PutFirst(s)
    <3>1. at[s].pc = "first" /\ (file' = file \/ file' = [file EXCEPT ![First(c)] = at[s].new])
      BY <2>5 DEF PutFirst, Content, CurrentPage
    <3> QED BY <1>1, <1>2, <2>1, <2>2, <2>3, <3>1
  <2>6. CASE PutSecond(s)
    <3>1. at[s].pc = "second"
          /\ \/ file' = file
             \/ file' = [file EXCEPT ![Second(c)] = at[s].new]
             \/ file' = [file EXCEPT ![Second(c)] = [at[s].new EXCEPT !.label = 0]]
      BY <2>6 DEF PutSecond, Content, CurrentPage, RoadmapBoard, LiveBoard
    <3> QED BY <1>1, <1>2, <2>1, <2>2, <2>3, <2>4, <3>1 DEF HalfWay
  <2>7. CASE UndoFirst(s) \/ UndoSecond(s) \/ Die(s)
    <3>1. \/ file' = file
          \/ /\ at[s].pc \in HalfWay
             /\ \/ file' = [file EXCEPT ![First(c)] = at[s].old[1]]
                \/ file' = [file EXCEPT ![Second(c)] = at[s].old[2]]
                \/ \E g \in Files : file' = [file EXCEPT ![g] = Torn]
      BY <2>7 DEF UndoFirst, UndoSecond, Die, Lost, PairFile, HalfWay, First, Second, Files
    <3> QED BY <1>1, <1>2, <1>3, <2>1, <2>2, <2>3, <3>1
  <2> QED BY <1>5, <2>5, <2>6, <2>7
<1>6. file' = file \/ \E s \in Sessions :
        PutFirst(s) \/ PutSecond(s) \/ UndoFirst(s) \/ UndoSecond(s) \/ Die(s)
  BY DEF Next, Edit, Commit, Start, Fetch, LoadState, CopyInputs, NameRevision, TakeDigest,
     Prepare, ReadReport, CheckNote, CreateNote
<1> QED BY <1>4, <1>5, <1>6

LEMMA SessionsShow ==
  ASSUME RoomTypeOK, Routes, Untouched, PagesShow, Next, NEW t \in Sessions
  PROVE  Labelled(at[t])'
<1> DEFINE Good(page) == ShowsIn(page, log')
           Fine(c) ==
             PairOf(c.cmd) = "snapshot" =>
               /\ Good(c.old[1]) /\ Good(c.old[2])
               /\ c.pc \in {"ready", "first"} \cup HalfWay => Good(c.new)
               /\ c.pc = "label" /\ ~c.moved => c.new.inputs = work'
<1> SUFFICES Fine(at'[t])
  BY DEF Labelled
<1>1. ASSUME NEW s \in Sessions, PairOf(at[s].cmd) = "snapshot"
      PROVE  /\ Good(at[s].old[1]) /\ Good(at[s].old[2])
             /\ at[s].pc \in {"ready", "first"} \cup HalfWay => Good(at[s].new)
             /\ at[s].pc = "label" /\ ~at[s].moved => at[s].new.inputs = work
  BY <1>1, ShowsLater DEF PagesShow, Labelled
<1>2. Good(file["current"]) /\ Good(file["board"]) /\ Good(Blank)
  BY ShowsLater, PlainShows DEF PagesShow
<1>3. ASSUME work' = work, at'[t] = at[t]
      PROVE  Fine(at'[t])
  BY <1>1, <1>3
<1>4. Fine(Idle)
  <2>1. Idle.cmd = "none"
    BY DEF Idle
  <2> QED BY <2>1 DEF PairOf
<1>4a. ASSUME at'[t] = Stirred[t]
      PROVE  Fine(at'[t])
  <2>1. /\ at'[t].pc = at[t].pc /\ at'[t].cmd = at[t].cmd
        /\ at'[t].new = at[t].new /\ at'[t].old = at[t].old
        /\ at[t].pc = "label" => at'[t].moved
    BY <1>4a, StirredSets
  <2> QED BY <2>1, <1>1
<1>5. CASE Edit \/ Commit
  BY <1>5, <1>4a DEF Edit, Commit
<1>6. ASSUME NEW s \in Sessions, CreateNote(s)
      PROVE  Fine(at'[t])
  <2>1. CASE at' = [Stirred EXCEPT ![s] = Idle]
    <3>1. at'[t] = Idle \/ at'[t] = Stirred[t]
      BY <2>1, StirredSets
    <3> QED BY <3>1, <1>4, <1>4a
  <2>2. CASE work' = work /\ Done(s)
    BY <2>2, <1>3, <1>4, DoneSets DEF Sets
  <2> QED BY <1>6, <2>1, <2>2 DEF CreateNote
<1>7. CASE ~Edit /\ ~Commit /\ \A s \in Sessions : ~CreateNote(s)
  <2>0. work' = work
    BY <1>7, SourceKept
  <2>1. ASSUME NEW s \in Sessions, Sets(s), Fine(at'[s])
        PROVE  Fine(at'[t])
    BY <2>0, <2>1, <1>3 DEF Sets
  <2>2. ASSUME NEW s \in Sessions, Done(s)
        PROVE  Fine(at'[t])
    BY <2>1, <2>2, <1>4, DoneSets
  <2>3. ASSUME NEW s \in Sessions, NEW c \in Commands, Start(s, c)
        PROVE  Fine(at'[t])
    <3>1. /\ Sets(s) /\ at'[s].pc = FirstStep(c) /\ at'[s].cmd = c
          /\ at'[s].old = <<Blank, Blank>>
      BY <2>3, StartSets
    <3>2. PairOf(c) = "snapshot" => FirstStep(c) \in {"fetch", "load"}
      BY DEF PairOf, FirstStep, Commands, Pairs
    <3>3. Good(at'[s].old[1]) /\ Good(at'[s].old[2])
      <4>1. at'[s].old[1] = Blank /\ at'[s].old[2] = Blank
        BY <3>1
      <4> QED BY <4>1, <1>2
    <3>4. PairOf(at'[s].cmd) = "snapshot" => at'[s].pc \in {"fetch", "load"}
      BY <3>1, <3>2
    <3> QED BY <3>1, <3>3, <3>4, <2>1 DEF HalfWay
  <2>4. ASSUME NEW s \in Sessions, Fetch(s)
        PROVE  Fine(at'[t])
    <3>1. CASE Goto(s, "load")
      <4>1. /\ Sets(s) /\ at'[s].pc = "load" /\ at'[s].cmd = at[s].cmd
            /\ at'[s].old = at[s].old
        BY <3>1, GotoSets DEF Keeps, OldKept
      <4> QED BY <4>1, <1>1, <2>1 DEF HalfWay
    <3> QED BY <2>2, <2>4, <3>1 DEF Fetch
  <2>5. ASSUME NEW s \in Sessions, LoadState(s)
        PROVE  Fine(at'[t])
    <3>1. CASE at' = [at EXCEPT ![s].pc = "label", ![s].new.inputs = work]
      <4>1. /\ Sets(s) /\ at'[s].pc = "label" /\ at'[s].cmd = at[s].cmd
            /\ at'[s].old = at[s].old /\ at'[s].new.inputs = work
        BY <3>1, TreeTypes, LoadSets DEF Keeps, OldKept
      <4> QED BY <4>1, <1>1, <2>0, <2>1 DEF HalfWay
    <3> QED BY <2>2, <2>5, <3>1 DEF LoadState
  <2>6. ASSUME NEW s \in Sessions, CopyInputs(s) \/ TakeDigest(s) \/ CheckNote(s) \/ ReadReport(s)
        PROVE  Fine(at'[t])
    <3>1. PairOf(at[s].cmd) # "snapshot"
      BY <2>6 DEF CopyInputs, TakeDigest, CheckNote, ReadReport, PairOf, Routes, Route
    <3>2. CASE Done(s)
      BY <2>2, <3>2
    <3>3. CASE Loading(s) \/ Digesting(s) \/ Reading(s) \/ Naming(s)
      <4>1. Sets(s) /\ at'[s].cmd = at[s].cmd
        BY <3>3, CommandKept
      <4> QED BY <3>1, <4>1, <2>1
    <3>4. Ending(s) \/ Loading(s) \/ Digesting(s) \/ Reading(s) \/ Naming(s)
      BY <2>6, HandsOn
    <3> QED BY <3>2, <3>3, <3>4 DEF Ending
  <2>7. ASSUME NEW s \in Sessions, NameRevision(s)
        PROVE  Fine(at'[t])
    <3>1. PICK label \in Revisions \cup {0} :
            at' = [at EXCEPT ![s].pc = "ready", ![s].new.label = label,
                             ![s].new.stable = ~at[s].moved]
      BY <2>7 DEF NameRevision
    <3>2. /\ Sets(s) /\ at'[s].pc = "ready" /\ at'[s].cmd = at[s].cmd
          /\ at'[s].old = at[s].old /\ at'[s].new.label = label
          /\ at'[s].new.stable = (~at[s].moved) /\ at'[s].new.inputs = at[s].new.inputs
      <4>1. label \in Nat /\ (~at[s].moved) \in BOOLEAN
        BY LabelTypes
      <4> DEFINE stable == ~at[s].moved
      <4>2. at' = [at EXCEPT ![s].pc = "ready", ![s].new.label = label, ![s].new.stable = stable]
        BY <3>1
      <4>3. stable \in BOOLEAN
        BY <4>1
      <4> HIDE DEF stable
      <4>4. /\ Sets(s) /\ Keeps(s) /\ OldKept(s) /\ at'[s].pc = "ready"
            /\ at'[s].new.inputs = at[s].new.inputs
            /\ at'[s].new.label = label /\ at'[s].new.stable = stable
        BY <4>1, <4>2, <4>3, LabelSets, ZenonT(30)
      <4> QED BY <4>4 DEF Keeps, OldKept, stable
    <3>3. log' = log
      BY <1>7, SourceKept
    <3>4. ASSUME PairOf(at[s].cmd) = "snapshot"
          PROVE  Good(at'[s].new)
      <4>1. CASE label = 0 \/ at[s].moved
        BY <4>1, <3>2 DEF ShowsIn
      <4>2. CASE label \in Revisions /\ ~at[s].moved
        <5>1. at[s].new.inputs = work
          BY <1>1, <2>7, <3>4, <4>2 DEF NameRevision
        <5>2. label \in 1..Len(log) /\ \A x \in Paths : work[x] # 0 => log[label][x] = work[x]
          BY <4>2, RevisionShows
        <5> QED BY <3>2, <3>3, <5>1, <5>2 DEF ShowsIn
      <4> QED BY <4>1, <4>2
    <3> QED BY <3>2, <3>4, <1>1, <2>1
  <2>8. ASSUME NEW s \in Sessions, Prepare(s)
        PROVE  Fine(at'[t])
    <3>1. CASE at' = [at EXCEPT ![s].pc = "first", ![s].old = <<file["current"], file["board"]>>]
      <4>1. <<file["current"], file["board"]>> \in Pages \X Pages
        BY DEF RoomTypeOK, Files
      <4>2. /\ Sets(s) /\ at'[s].pc = "first" /\ at'[s].cmd = at[s].cmd
            /\ at'[s].old = <<file["current"], file["board"]>> /\ at'[s].new = at[s].new
        BY <3>1, <4>1, OldSets DEF Keeps, PageKept
      <4>3. at'[s].old[1] = file["current"] /\ at'[s].old[2] = file["board"]
        BY <4>2
      <4>4. PairOf(at[s].cmd) = "snapshot" => Good(at[s].new)
        BY <1>1, <2>8 DEF Prepare
      <4> QED BY <4>2, <4>3, <4>4, <1>2, <2>1
    <3> QED BY <2>2, <2>8, <3>1 DEF Prepare
  <2>9. ASSUME NEW s \in Sessions, PutFirst(s) \/ PutSecond(s) \/ UndoFirst(s)
        PROVE  Fine(at'[t])
    <3>1. CASE \E step \in HalfWay : Goto(s, step) \/ Failing(s)
      <4>1. /\ Sets(s) /\ at'[s].pc \in HalfWay /\ at'[s].cmd = at[s].cmd
            /\ at'[s].old = at[s].old /\ at'[s].new = at[s].new
        BY <3>1, GotoSets, PartlySets DEF Keeps, OldKept, PageKept, Failing, HalfWay
      <4>2. at[s].pc \in {"first"} \cup HalfWay
        BY <2>9 DEF PutFirst, PutSecond, UndoFirst, HalfWay
      <4> QED BY <4>1, <4>2, <1>1, <2>1 DEF HalfWay
    <3> QED BY <2>2, <2>9, <3>1 DEF PutFirst, PutSecond, UndoFirst, Fail, Failing, HalfWay
  <2>10. ASSUME NEW s \in Sessions, UndoSecond(s) \/ Die(s)
         PROVE  Fine(at'[t])
    BY <2>2, <2>10 DEF UndoSecond, Die
  <2> QED BY <1>7, <2>2, <2>3, <2>4, <2>5, <2>6, <2>7, <2>8, <2>9, <2>10 DEF Next
<1> QED BY <1>5, <1>6, <1>7

(* The commit that a page names holds every input the page shows, in the   *)
(* content it was shown with (LabelShowsInputs), for any number of         *)
(* sessions, commits and edits (snapshots.py:342-366, 435-463).            *)
THEOREM RevisionHolds == Spec => []LabelShowsInputs
<1> DEFINE IInv == RoomTypeOK /\ Routes /\ Untouched /\ PagesShow
<1>1. Init => Untouched /\ PagesShow
  <2> SUFFICES ASSUME Init PROVE Untouched /\ PagesShow
    OBVIOUS
  <2>1. Untouched
    <3>1. Len(log) = 1 /\ log[1] = work /\ work[0] # 0
      BY Bounds DEF Init
    <3> QED BY <3>1 DEF Untouched, Tip
  <2>2. \A f \in {"current", "board"} : ShowsIn(file[f], log)
    <3>1. file["current"] = Absent /\ file["board"] = Absent
      BY DEF Init, Files
    <3> QED BY <3>1, PlainShows
  <2>3. \A s \in Sessions : Labelled(at[s])
    <3>1. Idle.cmd = "none"
      BY DEF Idle
    <3> QED BY <3>1 DEF Init, Labelled, PairOf
  <2> QED BY <2>1, <2>2, <2>3 DEF PagesShow
<1>2. IInv /\ Next => Untouched' /\ PagesShow'
  BY UntouchedStep, FilesShow, SessionsShow DEF PagesShow
<1>3. Untouched /\ PagesShow /\ UNCHANGED vars => Untouched' /\ PagesShow'
  <2> SUFFICES ASSUME Untouched, PagesShow, UNCHANGED vars
               PROVE  Untouched' /\ PagesShow'
    OBVIOUS
  <2>1. UNCHANGED <<work, log, file, at>>
    BY DEF vars
  <2> QED BY <2>1 DEF Untouched, PagesShow, Labelled, Touches, Tip
<1>4. IInv => LabelShowsInputs
  BY DEF PagesShow, ShowsIn, LabelShowsInputs
<1> QED BY <1>1, <1>2, <1>3, <1>4, TypeInit, TypeStep, PTL DEF Spec

-----------------------------------------------------------------------------
(* The pairs of files.  When no two sessions run one command, whoever is   *)
(* between the two files of a pair has the pair to itself (Alone), and     *)
(* knows where each file stands: what it holds to be put back, what it has *)
(* written (Handled).  A pair that no death and no reported failure left   *)
(* apart is whole whenever nobody is between its files (AllWhole).         *)
Same(a, b) == a.of > 0 \/ b.of > 0 => a.of = b.of
Built(page) == page.stable => page.inputs = page.digest
Alone == \A s, t \in Sessions :
           s # t /\ at[s].cmd # "none" => PairOf(at[s].cmd) # PairOf(at[t].cmd)

WholePair(d) == Same(file[First(d)], file[Second(d)])
WholeGraph ==
  file["manifest"] = Absent \/ (file["graph"].inputs = file["manifest"].inputs
                                /\ Built(file["manifest"]))
Whole(d) == IF d = "codegraph" THEN WholeGraph ELSE WholePair(d)
Sound(d) == d \in apart \/ Between(d) \/ Whole(d)
AllWhole == \A d \in Pairs : Sound(d)

HandledPair(s) ==
  LET d == PairOf(at[s].cmd)
      a == file[First(d)]
      b == file[Second(d)]
      old == at[s].old
  IN
  /\ at[s].pc = "first" => old[1] = a /\ old[2] = b
  /\ at[s].pc = "second" =>
       a.of = at[s].new.of /\ old[2] = b /\ (d \in apart \/ Same(old[1], old[2]))
  /\ at[s].pc = "undo first" => d \in apart \/ (Same(old[1], old[2]) /\ old[2] = b)
  /\ at[s].pc = "undo second" =>
       d \in apart \/ at[s].partly \/ (Same(old[1], old[2]) /\ old[1] = a)
HandledGraph(s) ==
  /\ at[s].pc = "label" /\ ~at[s].moved =>
       \A x \in Paths : at[s].new.inputs[x] \in {0, work[x]}
  /\ at[s].pc \in {"first", "second"} => Built(at[s].new)
  /\ at[s].pc = "second" => file["graph"].inputs = at[s].new.inputs
Handled(s) ==
  /\ PairOf(at[s].cmd) \in {"snapshot", "report"} => HandledPair(s)
  /\ at[s].cmd = "codegraph" => HandledGraph(s)

SessionStep(s) ==
  \/ Fetch(s) \/ LoadState(s) \/ CopyInputs(s) \/ NameRevision(s) \/ TakeDigest(s)
  \/ Prepare(s) \/ ReadReport(s) \/ PutFirst(s) \/ PutSecond(s)
  \/ UndoFirst(s) \/ UndoSecond(s) \/ CheckNote(s) \/ Die(s)
Kept(d) ==
  /\ file'[First(d)] = file[First(d)] /\ file'[Second(d)] = file[Second(d)]
  /\ d \in apart' <=> d \in apart

LEMMA FilesOf ==
  /\ \A d, e \in Pairs : d # e => {First(d), Second(d)} \cap {First(e), Second(e)} = {}
  /\ \A d \in Pairs : First(d) # Second(d) /\ First(d) \in Files /\ Second(d) \in Files
  /\ \A c \in Commands : First(c) = First(PairOf(c)) /\ Second(c) = Second(PairOf(c))
BY DEF First, Second, PairOf, Pairs, Commands, Files

(* A session at its files writes no other pair's.                          *)
LEMMA OwnFilesOnly ==
  ASSUME RoomTypeOK, Routes, NEW s \in Sessions, SessionStep(s)
  PROVE  /\ Sets(s) /\ work' = work
         /\ at[s].cmd # "none" /\ at'[s].cmd \in {at[s].cmd, "none"}
         /\ \A d \in Pairs \ {PairOf(at[s].cmd)} : Kept(d)
<1> DEFINE c == at[s].cmd
<1>1. Sets(s) /\ at'[s].cmd \in {c, "none"}
  <2>1. CASE Ending(s)
    BY <2>1, DoneSets DEF Ending, Idle
  <2> QED BY <2>1, HandsOn, CommandKept DEF SessionStep
<1>2. work' = work
  BY DEF SessionStep, Fetch, LoadState, CopyInputs, NameRevision, TakeDigest, Prepare, ReadReport,
     PutFirst, PutSecond, UndoFirst, UndoSecond, CheckNote, Die
<1>3. c # "none"
  <2>1. at[s].pc # "idle"
    BY DEF SessionStep, Fetch, LoadState, CopyInputs, NameRevision, TakeDigest, Prepare,
       ReadReport, PutFirst, PutSecond, UndoFirst, UndoSecond, CheckNote, Die
  <2> QED BY <2>1 DEF Routes, Route, Pairs
<1>4. \/ file' = file
      \/ /\ at[s].pc \in {"first"} \cup HalfWay
         /\ \E f \in {First(c), Second(c)}, page \in Pages : file' = [file EXCEPT ![f] = page]
  <2>1. ASSUME NEW i \in {1, 2}, file' \in Lost(s, i), at[s].pc \in HalfWay
        PROVE  file' = file
               \/ \E f \in {First(c), Second(c)}, page \in Pages : file' = [file EXCEPT ![f] = page]
    BY <2>1, PlainPages DEF Lost, PairFile
  <2> QED BY <2>1, PageTypes
          DEF SessionStep, Fetch, LoadState, CopyInputs, NameRevision, TakeDigest, Prepare,
              ReadReport, PutFirst, PutSecond, UndoFirst, UndoSecond, CheckNote, Die, HalfWay
<1>5. at[s].pc \in {"first"} \cup HalfWay => c \in Commands /\ PairOf(c) \in Pairs
  BY DEF Routes, Route, HalfWay, PairOf, Pairs, Commands
<1>6. \/ apart' = apart
      \/ apart' = apart \cup {PairOf(c)} \/ apart' = apart \ {PairOf(c)}
  BY DEF SessionStep, Fetch, LoadState, CopyInputs, NameRevision, TakeDigest, Prepare,
     ReadReport, PutFirst, PutSecond, UndoFirst, UndoSecond, CheckNote, Die, PairOf
<1>7. ASSUME NEW d \in Pairs \ {PairOf(c)}
      PROVE  Kept(d)
  <2>1. file'[First(d)] = file[First(d)] /\ file'[Second(d)] = file[Second(d)]
    BY <1>4, <1>5, FilesOf DEF RoomTypeOK
  <2> QED BY <1>6, <2>1 DEF Kept
<1> QED BY <1>1, <1>2, <1>3, <1>7

LEMMA OthersKept ==
  ASSUME RoomTypeOK, Routes, Alone, NEW s \in Sessions, SessionStep(s),
         NEW t \in Sessions, t # s, Handled(t)
  PROVE  Handled(t)'
<1>1. at'[t] = at[t] /\ work' = work
  BY OwnFilesOnly DEF Sets
<1>2. PairOf(at[t].cmd) # PairOf(at[s].cmd)
  BY OwnFilesOnly DEF Alone
<1>3. PairOf(at[t].cmd) \in Pairs => Kept(PairOf(at[t].cmd))
  BY <1>2, OwnFilesOnly
<1>4. at[t].cmd = "codegraph" => PairOf(at[t].cmd) = "codegraph" /\ First("codegraph") = "graph"
  BY DEF PairOf, First
<1>5. PairOf(at[t].cmd) \in {"snapshot", "report"} /\ HandledPair(t) => HandledPair(t)'
  BY <1>1, <1>3 DEF HandledPair, Kept, Pairs
<1>6. at[t].cmd = "codegraph" /\ HandledGraph(t) => HandledGraph(t)'
  BY <1>1, <1>3, <1>4 DEF HandledGraph, Kept, Pairs
<1> QED BY <1>1, <1>5, <1>6 DEF Handled

LEMMA OtherPairsKept ==
  ASSUME RoomTypeOK, Routes, Alone, NEW s \in Sessions, SessionStep(s),
         NEW d \in Pairs, d # PairOf(at[s].cmd), Sound(d)
  PROVE  Sound(d)'
<1>1. Kept(d)
  BY OwnFilesOnly
<1>2. Between(d) => Between(d)'
  <2> SUFFICES ASSUME NEW t \in Sessions, PairOf(at[t].cmd) = d, at[t].pc \in HalfWay
               PROVE  Between(d)'
    BY DEF Between
  <2>1. at'[t] = at[t]
    BY OwnFilesOnly DEF Sets
  <2> QED BY <2>1 DEF Between
<1>3. Whole(d) => Whole(d)'
  <2>1. First("codegraph") = "graph" /\ Second("codegraph") = "manifest"
    BY DEF First, Second, PairOf
  <2> QED BY <1>1, <2>1 DEF Kept, Whole, WholePair, WholeGraph
<1> QED BY <1>1, <1>2, <1>3 DEF Sound, Kept

(* Before its first file a session leaves its pair as it found it.         *)
LEMMA NotYet ==
  ASSUME Alone, NEW s \in Sessions, at[s].cmd # "none", at[s].pc \notin HalfWay,
         NEW d \in Pairs, d = PairOf(at[s].cmd), UNCHANGED <<file, apart>>, Sound(d)
  PROVE  Sound(d)'
<1>1. ~Between(d)
  BY DEF Between, Alone
<1>2. Whole(d) => Whole(d)'
  BY DEF Whole, WholePair, WholeGraph
<1> QED BY <1>1, <1>2 DEF Sound

LEMMA OverHandled ==
  ASSUME RoomTypeOK, NEW s \in Sessions, Done(s)
  PROVE  Handled(s)'
<1>1. at'[s].cmd = "none"
  BY DoneSets DEF Idle
<1> QED BY <1>1 DEF Handled, PairOf

LEMMA OwnGraph ==
  ASSUME RoomTypeOK, Routes, Alone, NEW s \in Sessions, SessionStep(s),
         at[s].cmd = "codegraph", Handled(s), Sound("codegraph")
  PROVE  Handled(s)' /\ Sound("codegraph")'
<1>0. /\ PairOf("codegraph") = "codegraph" /\ "codegraph" \in Pairs
      /\ First("codegraph") = "graph" /\ Second("codegraph") = "manifest"
      /\ HandledGraph(s) /\ file \in [Files -> Pages] /\ "graph" \in Files /\ "manifest" \in Files
  BY DEF PairOf, Pairs, First, Second, Handled, RoomTypeOK, Files
<1>1. ASSUME at'[s].cmd = "codegraph", HandledGraph(s)'
      PROVE  Handled(s)'
  BY <1>0, <1>1 DEF Handled
<1>2. ASSUME at[s].pc \notin HalfWay, UNCHANGED <<file, apart>>
      PROVE  Sound("codegraph")'
  BY <1>0, <1>2, NotYet
<1>3. CASE CopyInputs(s)
  <2>1. ASSUME at' = [at EXCEPT ![s].pc = "label", ![s].new.inputs = Digest(Tracked)]
        PROVE  Handled(s)'
    <3>1. Digest(Tracked) \in Trees
      BY TreeTypes DEF Tracked
    <3>2. at'[s].pc = "label" /\ at'[s].cmd = at[s].cmd /\ at'[s].new.inputs = Digest(Tracked)
      BY <2>1, <3>1, LoadSets DEF Keeps
    <3>3. \A x \in Paths : Digest(Tracked)[x] \in {0, work[x]}
      BY DEF Digest
    <3>4. work' = work
      BY <1>3 DEF CopyInputs
    <3>5. HandledGraph(s)'
      BY <3>2, <3>3, <3>4 DEF HandledGraph
    <3> QED BY <3>2, <3>5, <1>1
  <2>2. at[s].pc \notin HalfWay /\ UNCHANGED <<file, apart>>
    BY <1>3 DEF CopyInputs, HalfWay
  <2> QED BY <1>2, <1>3, <2>1, <2>2, OverHandled DEF CopyInputs
<1>4. CASE TakeDigest(s)
  <2> DEFINE copied == {x \in Paths : at[s].new.inputs[x] # 0}
             stable == ~at[s].moved
  <2>1. ASSUME at' = [at EXCEPT ![s].pc = "first", ![s].new.digest = Digest(copied),
                                ![s].new.stable = stable]
        PROVE  Handled(s)'
    <3>1. Digest(copied) \in Trees
      BY TreeTypes
    <3>2. stable \in BOOLEAN
      OBVIOUS
    <3>3. at[s].new.inputs \in Trees
      BY Context DEF Pages
    <3>4. stable => at[s].new.inputs = Digest(copied)
      <4>1. ASSUME stable, NEW x \in Paths
            PROVE  at[s].new.inputs[x] = Digest(copied)[x]
        BY <1>0, <1>4, <4>1 DEF HandledGraph, TakeDigest, Digest
      <4> QED BY <3>1, <3>3, <4>1 DEF Trees
    <3> HIDE DEF copied, stable
    <3>5. /\ at'[s].pc = "first" /\ at'[s].cmd = at[s].cmd
          /\ at'[s].new.inputs = at[s].new.inputs
          /\ at'[s].new.digest = Digest(copied) /\ at'[s].new.stable = stable
      BY <2>1, <3>1, <3>2, DigestSets, ZenonT(30) DEF Keeps
    <3>6. HandledGraph(s)'
      BY <3>4, <3>5 DEF HandledGraph, Built
    <3> QED BY <3>5, <3>6, <1>1
  <2>2. at[s].pc \notin HalfWay /\ UNCHANGED <<file, apart>>
    BY <1>4 DEF TakeDigest, HalfWay
  <2> QED BY <1>2, <1>4, <2>1, <2>2, OverHandled DEF TakeDigest
<1>5. CASE PutFirst(s)
  <2>1. CASE file' = [file EXCEPT !["graph"] = at[s].new] /\ Goto(s, "second")
    <3>1. /\ at'[s].pc = "second" /\ at'[s].cmd = at[s].cmd /\ at'[s].new = at[s].new
      BY <2>1, GotoSets DEF Keeps, PageKept, HalfWay
    <3>2. Built(at[s].new)
      BY <1>0, <1>5 DEF HandledGraph, PutFirst
    <3>3. HandledGraph(s)'
      BY <1>0, <2>1, <3>1, <3>2 DEF HandledGraph
    <3>4. Between("codegraph")'
      BY <1>0, <3>1 DEF Between, HalfWay
    <3> QED BY <1>1, <3>1, <3>3, <3>4 DEF Sound
  <2>2. CASE UNCHANGED file /\ Fail(s)
    <3>1. Done(s) /\ at[s].pc \notin HalfWay /\ UNCHANGED <<file, apart>>
      BY <1>5, <2>2 DEF Fail, PutFirst, HalfWay
    <3> QED BY <3>1, <1>2, OverHandled
  <2> QED BY <1>0, <1>5, <2>1, <2>2 DEF PutFirst, Content, CurrentPage
<1>6. CASE PutSecond(s)
  <2>1. Done(s)
    BY <1>6 DEF PutSecond, Fail
  <2>2. CASE file' = [file EXCEPT !["manifest"] = at[s].new]
    <3>1. file["graph"].inputs = at[s].new.inputs /\ Built(at[s].new)
      BY <1>0, <1>6 DEF HandledGraph, PutSecond
    <3>2. WholeGraph'
      BY <1>0, <2>2, <3>1 DEF WholeGraph, Built
    <3> QED BY <2>1, <3>2, OverHandled DEF Sound, Whole
  <2>3. CASE "codegraph" \in apart'
    BY <2>1, <2>3, OverHandled DEF Sound
  <2> QED BY <1>0, <1>6, <2>2, <2>3 DEF PutSecond, Content, RoadmapBoard
<1>7. CASE Die(s)
  <2>1. CASE at[s].pc \in HalfWay
    BY <1>0, <1>7, <2>1, OverHandled DEF Die, Sound
  <2>2. CASE at[s].pc \notin HalfWay
    BY <1>2, <1>7, <2>2, OverHandled DEF Die, HalfWay
  <2> QED BY <2>1, <2>2
<1>8. CopyInputs(s) \/ TakeDigest(s) \/ PutFirst(s) \/ PutSecond(s) \/ Die(s)
  BY DEF SessionStep, Routes, Route, Fetch, LoadState, NameRevision, Prepare, ReadReport,
     UndoFirst, UndoSecond, CheckNote
<1> QED BY <1>3, <1>4, <1>5, <1>6, <1>7, <1>8

LEMMA OwnPair ==
  ASSUME RoomTypeOK, Routes, Alone, NEW s \in Sessions, SessionStep(s),
         NEW d \in {"snapshot", "report"}, d = PairOf(at[s].cmd), Handled(s), Sound(d)
  PROVE  Handled(s)' /\ Sound(d)'
<1> DEFINE c == at[s].cmd
           new == at[s].new
           old == at[s].old
           a == First(d)
           b == Second(d)
<1>0. /\ First(c) = a /\ Second(c) = b /\ a # b /\ a \in Files /\ b \in Files
      /\ file \in [Files -> Pages] /\ HandledPair(s) /\ d \in Pairs
      /\ c \notin {"none", "codegraph"} /\ (c = "report" <=> d = "report")
      /\ d = "snapshot" => a = "current" /\ b = "board"
      /\ d = "report" => a = "report" /\ b = "index"
  BY DEF PairOf, Pairs, First, Second, Handled, RoomTypeOK, Files
<1>1. ASSUME at'[s].cmd = c, HandledPair(s)'
      PROVE  Handled(s)'
  BY <1>0, <1>1 DEF Handled
<1>2. ASSUME at[s].pc \notin HalfWay, UNCHANGED <<file, apart>>
      PROVE  Sound(d)'
  BY <1>0, <1>2, NotYet
<1>3. ASSUME at'[s].cmd = c, at'[s].pc \in HalfWay
      PROVE  Sound(d)'
  BY <1>0, <1>3 DEF Sound, Between
<1>4. ASSUME ~Done(s), at'[s].pc \in {"load", "label", "ready"}, at'[s].cmd = c
      PROVE  Handled(s)'
  BY <1>1, <1>4 DEF HandledPair
<1>5. at[s].pc = "first" => d \in apart \/ Same(file[a], file[b])
  <2>1. at[s].pc = "first" => ~Between(d)
    BY <1>0 DEF Between, Alone, HalfWay
  <2> QED BY <1>0, <2>1 DEF Sound, Whole, WholePair
<1>6. CASE Fetch(s) \/ LoadState(s) \/ NameRevision(s)
  <2>1. at[s].pc \notin HalfWay /\ UNCHANGED <<file, apart>>
    BY <1>6 DEF Fetch, LoadState, NameRevision, HalfWay
  <2>2. CASE Fetch(s)
    BY <1>2, <1>4, <2>1, <2>2, OverHandled, GotoSets DEF Fetch, Keeps
  <2>3. CASE LoadState(s)
    BY <1>2, <1>4, <2>1, <2>3, OverHandled, TreeTypes, LoadSets DEF LoadState, Keeps
  <2>4. CASE NameRevision(s)
    <3>1. PICK label \in Revisions \cup {0} :
            at' = [at EXCEPT ![s].pc = "ready", ![s].new.label = label,
                             ![s].new.stable = ~at[s].moved]
      BY <2>4 DEF NameRevision
    <3>2. label \in Nat /\ (~at[s].moved) \in BOOLEAN
      BY LabelTypes
    <3>3. at'[s].pc = "ready" /\ at'[s].cmd = c
      BY <3>1, <3>2, LabelSets DEF Keeps
    <3> QED BY <1>2, <1>4, <2>1, <3>3, OverHandled
  <2> QED BY <1>6, <2>2, <2>3, <2>4
<1>7. CASE Prepare(s)
  <2>1. ASSUME at' = [at EXCEPT ![s].pc = "first", ![s].old = <<file["current"], file["board"]>>]
        PROVE  Handled(s)'
    <3>1. <<file["current"], file["board"]>> \in Pages \X Pages
      BY DEF RoomTypeOK, Files
    <3>2. /\ at'[s].pc = "first" /\ at'[s].cmd = c
          /\ at'[s].old = <<file["current"], file["board"]>>
      BY <2>1, <3>1, OldSets DEF Keeps
    <3>3. at'[s].old[1] = file["current"] /\ at'[s].old[2] = file["board"] /\ file' = file
      BY <1>7, <3>2 DEF Prepare
    <3>4. d = "snapshot"
      BY <1>0, <1>7 DEF Prepare
    <3>5. HandledPair(s)'
      BY <1>0, <3>2, <3>3, <3>4 DEF HandledPair
    <3> QED BY <1>1, <3>2, <3>5
  <2>2. at[s].pc \notin HalfWay /\ UNCHANGED <<file, apart>>
    BY <1>7 DEF Prepare, HalfWay
  <2> QED BY <1>2, <1>7, <2>1, <2>2, OverHandled DEF Prepare
<1>8. CASE ReadReport(s)
  <2>1. d = "report" /\ at[s].pc \notin HalfWay /\ UNCHANGED file
    BY <1>0, <1>8 DEF ReadReport, HalfWay
  <2>2. CASE /\ at' = [at EXCEPT ![s].pc = "first", ![s].old = <<file["report"], file["index"]>>]
             /\ UNCHANGED apart
    <3>1. <<file["report"], file["index"]>> \in Pages \X Pages
      BY DEF RoomTypeOK, Files
    <3>2. /\ at'[s].pc = "first" /\ at'[s].cmd = c
          /\ at'[s].old = <<file["report"], file["index"]>>
      BY <2>2, <3>1, OldSets DEF Keeps
    <3>3. at'[s].old[1] = file["report"] /\ at'[s].old[2] = file["index"]
      BY <3>2
    <3>4. HandledPair(s)'
      BY <1>0, <2>1, <3>2, <3>3 DEF HandledPair
    <3> QED BY <1>1, <1>2, <2>1, <2>2, <3>2, <3>4
  <2>3. CASE /\ \E report \in {file["report"], Absent} :
                  at' = [at EXCEPT ![s].pc = "undo first", ![s].old = <<report, Absent>>]
             /\ apart' = apart \cup {"report"}
    <3>1. PICK report \in {file["report"], Absent} :
            at' = [at EXCEPT ![s].pc = "undo first", ![s].old = <<report, Absent>>]
      BY <2>3
    <3>2. <<report, Absent>> \in Pages \X Pages
      BY PlainPages DEF RoomTypeOK, Files
    <3>3. at'[s].pc = "undo first" /\ at'[s].cmd = c
      BY <3>1, <3>2, OldSets DEF Keeps
    <3>4. d \in apart'
      BY <2>1, <2>3
    <3>5. HandledPair(s)'
      BY <1>0, <3>3, <3>4 DEF HandledPair
    <3> QED BY <1>1, <3>3, <3>4, <3>5 DEF Sound
  <2> QED BY <1>8, <2>2, <2>3 DEF ReadReport
<1>9. CASE PutFirst(s)
  <2>0. at[s].pc = "first" /\ apart' = apart /\ old[1] = file[a] /\ old[2] = file[b]
    BY <1>0, <1>9 DEF PutFirst, HandledPair
  <2>1. CASE file' = [file EXCEPT ![a] = new] /\ Goto(s, "second")
    <3>1. /\ at'[s].pc = "second" /\ at'[s].cmd = c /\ at'[s].new = new /\ at'[s].old = old
      BY <2>1, GotoSets DEF Keeps, PageKept, OldKept, HalfWay
    <3>2. file'[a] = new /\ file'[b] = file[b]
      BY <1>0, <2>1
    <3>3. HandledPair(s)'
      BY <1>0, <1>5, <2>0, <3>1, <3>2 DEF HandledPair
    <3> QED BY <1>1, <1>3, <3>1, <3>3 DEF HalfWay
  <2>2. CASE UNCHANGED file /\ Goto(s, "undo first")
    <3>1. at'[s].pc = "undo first" /\ at'[s].cmd = c /\ at'[s].old = old
      BY <2>2, GotoSets DEF Keeps, OldKept, HalfWay
    <3>2. HandledPair(s)'
      BY <1>0, <1>5, <2>0, <2>2, <3>1 DEF HandledPair
    <3> QED BY <1>1, <1>3, <3>1, <3>2 DEF HalfWay
  <2>3. Content(s, 1) = new
    BY DEF Content, CurrentPage
  <2>4. Fail(s) => Goto(s, "undo first")
    BY <1>0 DEF Fail
  <2> QED BY <1>0, <1>9, <2>1, <2>2, <2>3, <2>4 DEF PutFirst
<1>10. CASE PutSecond(s)
  <2>0. /\ at[s].pc = "second" /\ file[a].of = new.of /\ old[2] = file[b]
        /\ d \in apart \/ Same(old[1], old[2])
    BY <1>0, <1>10 DEF PutSecond, HandledPair
  <2>1. CASE file' = [file EXCEPT ![b] = Content(s, 2)] /\ Done(s)
    <3>1. Content(s, 2).of = new.of
      BY Context DEF Content, RoadmapBoard, LiveBoard, Pages
    <3>2. Same(file'[a], file'[b])
      BY <1>0, <2>0, <2>1, <3>1 DEF Same
    <3> QED BY <1>0, <2>1, <3>2, OverHandled DEF Sound, Whole, WholePair
  <2>2. CASE UNCHANGED <<file, apart>> /\ Goto(s, "undo first")
    <3>1. at'[s].pc = "undo first" /\ at'[s].cmd = c /\ at'[s].old = old
      BY <2>2, GotoSets DEF Keeps, OldKept, HalfWay
    <3>2. HandledPair(s)'
      BY <1>0, <2>0, <2>2, <3>1 DEF HandledPair
    <3> QED BY <1>1, <1>3, <3>1, <3>2 DEF HalfWay
  <2> QED BY <1>0, <1>10, <2>1, <2>2 DEF PutSecond, Fail
<1>11. CASE UndoFirst(s)
  <2>0. /\ at[s].pc = "undo first" /\ apart' = apart
        /\ d \in apart \/ (Same(old[1], old[2]) /\ old[2] = file[b])
    BY <1>0, <1>11 DEF UndoFirst, HandledPair
  <2>1. CASE file' = [file EXCEPT ![a] = old[1]] /\ Goto(s, "undo second")
    <3>1. at'[s].pc = "undo second" /\ at'[s].cmd = c /\ at'[s].old = old
      BY <2>1, GotoSets DEF Keeps, OldKept, HalfWay
    <3>2. file'[a] = old[1]
      BY <1>0, <2>1
    <3>3. HandledPair(s)'
      BY <1>0, <2>0, <3>1, <3>2 DEF HandledPair
    <3> QED BY <1>1, <1>3, <3>1, <3>3 DEF HalfWay
  <2>2. CASE at' = [at EXCEPT ![s].pc = "undo second", ![s].partly = TRUE]
    <3>1. at'[s].pc = "undo second" /\ at'[s].cmd = c /\ at'[s].partly
      BY <2>2, PartlySets DEF Keeps
    <3>2. HandledPair(s)'
      BY <1>0, <3>1 DEF HandledPair
    <3> QED BY <1>1, <1>3, <3>1, <3>2 DEF HalfWay
  <2> QED BY <1>0, <1>11, <2>1, <2>2 DEF UndoFirst
<1>12. CASE UndoSecond(s)
  <2>0. /\ at[s].pc = "undo second" /\ Done(s)
        /\ d \in apart \/ at[s].partly \/ (Same(old[1], old[2]) /\ old[1] = file[a])
    BY <1>0, <1>12 DEF UndoSecond, HandledPair
  <2>1. CASE file' = [file EXCEPT ![b] = old[2]] /\ ~at[s].partly /\ apart' = apart
    <3>1. d \in apart \/ Same(file'[a], file'[b])
      BY <1>0, <2>0, <2>1
    <3> QED BY <1>0, <2>0, <2>1, <3>1, OverHandled DEF Sound, Whole, WholePair
  <2>2. CASE d \in apart'
    BY <2>0, <2>2, OverHandled DEF Sound
  <2> QED BY <1>0, <1>12, <2>1, <2>2 DEF UndoSecond
<1>13. CASE Die(s)
  <2>1. CASE at[s].pc \in HalfWay
    BY <1>13, <2>1, OverHandled DEF Die, Sound
  <2>2. CASE at[s].pc \notin HalfWay
    BY <1>2, <1>13, <2>2, OverHandled DEF Die, HalfWay
  <2> QED BY <2>1, <2>2
<1>14. ~CopyInputs(s) /\ ~TakeDigest(s) /\ ~CheckNote(s)
  <2>1. at[s].pc = "check" => c = "handoff"
    BY DEF Routes, Route
  <2> QED BY <1>0, <2>1 DEF CopyInputs, TakeDigest, CheckNote, PairOf
<1> QED BY <1>6, <1>7, <1>8, <1>9, <1>10, <1>11, <1>12, <1>13, <1>14 DEF SessionStep

PairsInv == Alone /\ (\A s \in Sessions : Handled(s)) /\ AllWhole

LEMMA SessionsStep ==
  ASSUME RoomTypeOK, Routes, PairsInv, NEW s \in Sessions, SessionStep(s)
  PROVE  PairsInv'
<1> USE DEF PairsInv
<1>1. /\ Sets(s) /\ at[s].cmd # "none" /\ at'[s].cmd \in {at[s].cmd, "none"}
  BY OwnFilesOnly
<1>2. Alone'
  <2> SUFFICES ASSUME NEW t \in Sessions, NEW u \in Sessions, t # u, at'[t].cmd # "none"
               PROVE  PairOf(at'[t].cmd) # PairOf(at'[u].cmd)
    BY DEF Alone
  <2>1. at'[t].cmd = at[t].cmd /\ at'[u].cmd \in {at[u].cmd, "none"}
    BY <1>1 DEF Sets
  <2>2. at[t].cmd # "none" => PairOf(at[t].cmd) # "none"
    BY Context DEF PairOf, Contexts, Commands, Pairs
  <2> QED BY <2>1, <2>2 DEF Alone, PairOf
<1>3. /\ Handled(s)'
      /\ \A d \in Pairs : d = PairOf(at[s].cmd) => Sound(d)'
  <2>1. CASE at[s].cmd = "codegraph"
    <3>1. PairOf(at[s].cmd) = "codegraph" /\ Sound("codegraph")
      BY <2>1 DEF AllWhole, Pairs, PairOf
    <3> QED BY <2>1, <3>1, OwnGraph
  <2>2. CASE PairOf(at[s].cmd) \in {"snapshot", "report"}
    <3>1. ASSUME NEW d \in {"snapshot", "report"}, d = PairOf(at[s].cmd)
          PROVE  Handled(s)' /\ Sound(d)'
      <4>1. Sound(d)
        BY DEF AllWhole, Pairs
      <4> QED BY <3>1, <4>1, OwnPair
    <3> QED BY <2>2, <3>1
  <2>3. CASE at[s].cmd = "handoff"
    BY <1>1, <2>3 DEF Handled, PairOf, Pairs
  <2>4. at[s].cmd \in Commands
    BY <1>1, Context DEF Contexts
  <2> QED BY <2>1, <2>2, <2>3, <2>4 DEF Commands, Pairs, PairOf
<1>4. ASSUME NEW t \in Sessions, t # s
      PROVE  Handled(t)'
  BY <1>4, OthersKept
<1>5. ASSUME NEW d \in Pairs, d # PairOf(at[s].cmd)
      PROVE  Sound(d)'
  <2>1. Sound(d)
    BY DEF AllWhole
  <2> QED BY <1>5, <2>1, OtherPairsKept
<1>6. AllWhole'
  BY <1>3, <1>5 DEF AllWhole
<1> QED BY <1>2, <1>3, <1>4, <1>6

LEMMA PairsStep ==
  ASSUME RoomTypeOK, Routes, PairsInv, ~Overlap, Next
  PROVE  PairsInv'
<1> USE DEF PairsInv
<1>1. ASSUME NEW s \in Sessions, NEW c \in Commands, Start(s, c)
      PROVE  PairsInv'
  <2>1. /\ Sets(s) /\ at'[s].pc = FirstStep(c) /\ at'[s].cmd = c
        /\ UNCHANGED <<work, file, apart>> /\ at[s].pc = "idle"
        /\ \A t \in Sessions : PairOf(at[t].cmd) # PairOf(c)
    BY <1>1, StartSets DEF Start
  <2>2. Alone'
    BY <2>1 DEF Alone, Sets, Pairs, Commands, PairOf
  <2>3. at'[s].pc \in {"fetch", "load", "check", "ready"}
    BY <2>1 DEF FirstStep, Commands, Pairs
  <2>4. Handled(s)'
    BY <2>3 DEF Handled, HandledPair, HandledGraph
  <2>5. ASSUME NEW t \in Sessions, t # s
        PROVE  Handled(t)'
    <3>1. at'[t] = at[t] /\ work' = work /\ file' = file /\ apart' = apart
      BY <2>1, <2>5 DEF Sets
    <3>2. HandledPair(t) => HandledPair(t)'
      BY <3>1 DEF HandledPair
    <3>3. HandledGraph(t) => HandledGraph(t)'
      BY <3>1 DEF HandledGraph
    <3>4. Handled(t)
      OBVIOUS
    <3> QED BY <3>1, <3>2, <3>3, <3>4 DEF Handled
  <2>6. ASSUME NEW d \in Pairs
        PROVE  Sound(d)'
    <3>1. Between(d) => Between(d)'
      BY <2>1 DEF Between, Sets, HalfWay
    <3> QED BY <2>1, <3>1 DEF AllWhole, Sound, Whole, WholePair, WholeGraph
  <2> QED BY <2>2, <2>4, <2>5, <2>6 DEF AllWhole
<1>2. ASSUME UNCHANGED <<file, apart>>, at' \in [Sessions -> Contexts],
             \A t \in Sessions :
               \/ at'[t] = Idle /\ at[t].pc \notin HalfWay
               \/ /\ at'[t].pc = at[t].pc /\ at'[t].cmd = at[t].cmd
                  /\ at'[t].new = at[t].new /\ at'[t].old = at[t].old
                  /\ at'[t].partly = at[t].partly
                  /\ at[t].pc = "label" => at'[t].moved
      PROVE  PairsInv'
  <2>1. Idle.cmd = "none" /\ Idle.pc = "idle"
    BY DEF Idle
  <2>2. \A t \in Sessions : at[t].cmd \in Commands \cup {"none"}
    BY Context DEF Contexts
  <2>3. Alone'
    BY <1>2, <2>1, <2>2 DEF Alone, PairOf, Commands, Pairs
  <2>4. ASSUME NEW t \in Sessions
        PROVE  Handled(t)'
    <3>1. CASE at'[t] = Idle
      BY <2>1, <3>1 DEF Handled, PairOf
    <3>2. CASE /\ at'[t].pc = at[t].pc /\ at'[t].cmd = at[t].cmd
               /\ at'[t].new = at[t].new /\ at'[t].old = at[t].old
               /\ at'[t].partly = at[t].partly
               /\ at[t].pc = "label" => at'[t].moved
      <4>1. file' = file /\ apart' = apart
        BY <1>2
      <4>2. HandledPair(t) => HandledPair(t)'
        BY <3>2, <4>1 DEF HandledPair
      <4>3. HandledGraph(t) => HandledGraph(t)'
        BY <3>2, <4>1 DEF HandledGraph
      <4>4. Handled(t)
        OBVIOUS
      <4> QED BY <3>2, <4>2, <4>3, <4>4 DEF Handled
    <3> QED BY <1>2, <3>1, <3>2
  <2>5. ASSUME NEW d \in Pairs
        PROVE  Sound(d)'
    <3>1. Between(d) => Between(d)'
      BY <1>2 DEF Between
    <3> QED BY <1>2, <3>1 DEF AllWhole, Sound, Whole, WholePair, WholeGraph
  <2> QED BY <2>3, <2>4, <2>5 DEF AllWhole
<1>3. CASE Edit \/ Commit
  BY <1>2, <1>3, StirredSets DEF Edit, Commit
<1>4. ASSUME NEW s \in Sessions, CreateNote(s)
      PROVE  PairsInv'
  <2>1. at[s].pc \notin HalfWay /\ UNCHANGED <<file, apart>>
    BY <1>4 DEF CreateNote, HalfWay
  <2>2. CASE at' = [Stirred EXCEPT ![s] = Idle]
    BY <1>2, <2>1, <2>2, StirredSets, IdleType
  <2>3. CASE UNCHANGED work /\ Done(s)
    <3>1. Sets(s) /\ at'[s] = Idle
      BY <2>3, DoneSets
    <3>2. Alone'
      <4>1. Idle.cmd = "none" /\ PairOf("none") = "none"
        BY DEF Idle, PairOf
      <4>2. \A t \in Sessions : at[t].cmd # "none" => PairOf(at[t].cmd) # "none"
        BY Context DEF PairOf, Contexts, Commands, Pairs
      <4> QED BY <3>1, <4>1, <4>2 DEF Alone, Sets
    <3>3. ASSUME NEW t \in Sessions, t # s
          PROVE  Handled(t)'
      <4>1. at'[t] = at[t] /\ work' = work /\ file' = file /\ apart' = apart
        BY <2>1, <2>3, <3>1, <3>3 DEF Sets
      <4>2. Handled(t)
        OBVIOUS
      <4>3. HandledPair(t) => HandledPair(t)'
        BY <4>1 DEF HandledPair
      <4>4. HandledGraph(t) => HandledGraph(t)'
        BY <4>1 DEF HandledGraph
      <4> QED BY <4>1, <4>2, <4>3, <4>4 DEF Handled
    <3>4. ASSUME NEW d \in Pairs
          PROVE  Sound(d)'
      <4>1. Between(d) => Between(d)'
        BY <2>1, <3>1 DEF Between, Sets
      <4> QED BY <2>1, <4>1 DEF AllWhole, Sound, Whole, WholePair, WholeGraph
    <3> QED BY <2>3, <3>2, <3>3, <3>4, OverHandled DEF AllWhole
  <2> QED BY <1>4, <2>2, <2>3 DEF CreateNote
<1> QED BY <1>1, <1>3, <1>4, SessionsStep DEF Next, SessionStep

LEMMA PairsInit == Init => PairsInv
<1> SUFFICES ASSUME Init PROVE PairsInv
  OBVIOUS
<1>1. Idle.cmd = "none" /\ Idle.pc = "idle"
  BY DEF Idle
<1>2. Alone /\ \A s \in Sessions : Handled(s)
  BY <1>1 DEF Init, Alone, Handled, PairOf
<1>3. \A f \in Files : file[f].of <= 0
  <2>1. Absent.of = -2 /\ Blank.of = 0
    BY PlainPages DEF Absent, Blank, Pages
  <2> QED BY <2>1 DEF Init
<1>4. AllWhole
  <2>1. file["manifest"] = Absent
    BY DEF Init, Files
  <2>2. \A f \in Files : ~(file[f].of > 0)
    <3>1. \A f \in Files : file[f] \in Pages
      BY PlainPages DEF Init
    <3> QED BY <1>3, <3>1 DEF Pages
  <2> QED BY <2>1, <2>2, FilesOf DEF AllWhole, Sound, Whole, WholePair, WholeGraph, Same
<1> QED BY <1>2, <1>4 DEF PairsInv

LEMMA PairsCorrect ==
  ASSUME ~Overlap
  PROVE  Spec => []PairsInv
<1>1. RoomTypeOK /\ Routes /\ PairsInv /\ [Next]_vars => PairsInv'
  <2> SUFFICES ASSUME RoomTypeOK, Routes, PairsInv, [Next]_vars
               PROVE  PairsInv'
    OBVIOUS
  <2>1. CASE UNCHANGED vars
    <3>1. UNCHANGED <<work, file, at, apart>>
      BY <2>1 DEF vars
    <3>2. Alone' /\ \A s \in Sessions : Handled(s)'
      BY <3>1 DEF PairsInv, Alone, Handled, HandledPair, HandledGraph
    <3>3. AllWhole'
      BY <3>1 DEF PairsInv, AllWhole, Sound, Whole, WholePair, WholeGraph, Between
    <3> QED BY <3>2, <3>3 DEF PairsInv
  <2> QED BY <2>1, PairsStep
<1>2. RoomTypeOK /\ Routes /\ [Next]_vars => RoomTypeOK' /\ Routes'
  BY TypeStep
<1> QED BY <1>1, <1>2, TypeInit, PairsInit, PTL DEF Spec

(* CURRENT.md and BOARD.md, and the report and the artifact index, are of  *)
(* one command whenever nobody is between them, unless a death or a        *)
(* failure that was reported left them apart (PairTogether): when no two   *)
(* sessions run one command, for any number of sessions and commands       *)
(* (snapshots.py:572-608, github.py:1522-1578).                            *)
THEOREM PairsHold ==
  ASSUME ~Overlap
  PROVE  Spec => []PairTogether
<1>1. PairsInv => PairTogether
  BY DEF PairsInv, AllWhole, Sound, Whole, WholePair, Same, PairTogether, Pairs
<1> QED BY <1>1, PairsCorrect, PTL

(* A graph that validates was built from the source that is there, when    *)
(* the last build was not cut short and nothing moved while it read        *)
(* (FreshIsBuilt): when no two sessions build at a time                    *)
(* (codegraph.py:250-288).                                                 *)
THEOREM GraphHolds ==
  ASSUME ~Overlap
  PROVE  Spec => []FreshIsBuilt
<1>1. PairsInv => FreshIsBuilt
  BY DEF PairsInv, AllWhole, Sound, Whole, WholeGraph, Built, FreshIsBuilt, Fresh, Pairs
<1> QED BY <1>1, PairsCorrect, PTL
=============================================================================
