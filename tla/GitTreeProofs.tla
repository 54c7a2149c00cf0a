--------------------------- MODULE GitTreeProofs ---------------------------
(***************************************************************************)
(* What the operations on a tree return, for every set of files.           *)
(***************************************************************************)
EXTENDS GitTree, TLAPS

\* A line of git status names an entry of the repository, and a listed deletion
\* names a file (collect_changed_files, collect_deleted_files).
LEMMA StatusType ==
  ASSUME NEW t
  PROVE  /\ Status(t) \subseteq Entries /\ UncutStatus(t) \subseteq Entries
         /\ DeletedFiles(t) \subseteq Files
<1>1. \A f \in Files : UntrackedEntry(t, f) \in Entries
  BY DEF UntrackedEntry, Entries
<1>2. Status(t) \subseteq Entries
  BY <1>1 DEF Status, Entries
<1>3. UncutStatus(t) \subseteq Entries
  BY <1>2 DEF UncutStatus, RenameTarget, Entries
<1> QED BY <1>2, <1>3 DEF DeletedFiles

\* A worktree replaced by any assignment of contents is a tree again.
LEMMA WithWorktree ==
  ASSUME NEW t \in Tree, NEW w \in [Files -> Content]
  PROVE  [t EXCEPT !.wt = w] \in Tree
BY DEF Tree

\* Enforcement, extraction from a container and the copy into one keep the type.
LEMMA RevertedType ==
  ASSUME NEW t \in Tree, NEW E
  PROVE  Reverted(t, E) \in Tree
BY DEF Reverted, Tree, Content

LEMMA ExtractedType ==
  ASSUME NEW t \in Tree, NEW b \in Tree, NEW E
  PROVE  Extracted(t, b, E) \in Tree
BY DEF Extracted, Tree, Content

LEMMA ArchivedType ==
  ASSUME NEW t \in Tree
  PROVE  Archived(t) \in Tree
BY DEF Archived, Tree

\* Whatever one operation of a worker does, what it leaves is a tree.
LEMMA WorkerEditsType ==
  ASSUME NEW t \in Tree, NEW git
  PROVE  WorkerEdits(t, git) \subseteq Tree
<1>1. \A f \in Files : Write(t, f) \in Tree /\ Remove(t, f) \in Tree /\ Add(t, f) \in Tree
  BY DEF Write, Remove, Add, Tree, Content
<1>2. \A f, g \in Files : Move(t, f, g) \in Tree
  BY DEF Move, Tree, Content
<1>3. Commit(t) \in Tree
  BY DEF Commit, Tree
<1>4. \A p \in Files \X Files : Move(t, p[1], p[2]) \in Tree
  BY <1>2
<1> QED BY <1>1, <1>3, <1>4 DEF WorkerEdits

---------------------------------------------------------------------------
(* What a clean status says, and what enforcement leaves alone.            *)

\* A tree with an empty `git status` is the tree of its HEAD: the one line that
\* is cut, the source of a rename, never stands alone.
LEMMA CleanMeansHead ==
  ASSUME NEW t, Clean(t), NEW f \in Files
  PROVE  t.index[f] = t.head[f] /\ t.wt[f] = t.head[f]
<1>1. \A g \in Files : t.head[g] # t.index[g] => RenameSource(t, g)
  BY DEF Clean, Status
<1>2. \A g \in Files : ~RenameSource(t, g)
  <2> SUFFICES ASSUME NEW g \in Files, RenameSource(t, g) PROVE FALSE
    OBVIOUS
  <2>1. PICK h \in Files : t.head[h] = Absent /\ t.index[h] = t.head[g] /\ t.head[g] # Absent
    BY DEF RenameSource
  <2>2. RenameSource(t, h)
    BY <1>1, <2>1
  <2> QED BY <2>1, <2>2 DEF RenameSource
<1>3. \A g \in Files : Tracked(t, g) => t.index[g] = t.wt[g]
  BY <1>2 DEF Clean, Status
<1>4. \A g \in Files : ~Tracked(t, g) => t.wt[g] = Absent
  BY DEF Clean, Status
<1> QED BY <1>1, <1>2, <1>3, <1>4 DEF Tracked

LEMMA HeadIsClean ==
  ASSUME NEW t, \A f \in Files : t.index[f] = t.head[f] /\ t.wt[f] = t.head[f]
  PROVE  Status(t) = {}
BY DEF Status, Tracked

\* A directory is one line of git status only while nothing in it is tracked.
LEMMA DirectoryLine ==
  ASSUME NEW t, NEW e \in Status(t), e \notin Files, NEW f \in Covers(e)
  PROVE  DirOf[f] = e /\ ~Tracked(t, f)
<1>1. f \in Files /\ DirOf[f] = e
  BY DEF Covers
<1>2. PICK g \in Files : e = UntrackedEntry(t, g)
  BY DEF Status
<1>3. e = DirOf[g] /\ ~(\E h \in Files : DirOf[h] = DirOf[g] /\ Tracked(t, h))
  BY <1>2 DEF UntrackedEntry
<1> QED BY <1>1, <1>3

\* Enforcement of listed sensitive entries that it can go through touches no other
\* file, whatever git's lines stand for: a directory it unlinks holds nothing.
LEMMA RevertedElsewhere ==
  ASSUME NEW t \in Tree, NEW E \in SUBSET (Status(t) \intersect Sensitive),
         \A e \in E : Unlinkable(t, e), NEW f \in Files, f \notin Sensitive
  PROVE  Reverted(t, E).wt[f] = t.wt[f]
<1> DEFINE hit == \E e \in E : f \in Covers(e)
           known == \E e \in E : f \in Covers(e) /\ \E g \in Covers(e) : Tracked(t, g)
<1>1. Reverted(t, E).wt[f] =
        IF ~hit THEN t.wt[f]
        ELSE IF Tracked(t, f) THEN t.index[f] ELSE IF known THEN t.wt[f] ELSE Absent
  BY DEF Reverted, Tree
<1>2. CASE ~hit
  BY <1>1, <1>2
<1>3. CASE hit
  <2>1. PICK e \in E : f \in Covers(e)
    BY <1>3
  <2>2. e # f /\ DirOf[f] = e /\ e \notin Files
    BY <2>1, TreeAssumption DEF Covers
  <2>3. \A g \in Covers(e) : ~Tracked(t, g)
    BY <2>1, <2>2, DirectoryLine
  <2>4. t.wt[f] = Absent /\ ~Tracked(t, f)
    BY <2>1, <2>2, <2>3 DEF Unlinkable
  <2> QED BY <1>1, <2>4
<1> QED BY <1>2, <1>3

\* Whatever entries enforcement goes through, a file keeps its content or gets the
\* staged one: what git does not know is staged as absent.
LEMMA RevertedChoices ==
  ASSUME NEW t \in Tree, NEW E, NEW f \in Files
  PROVE  Reverted(t, E).wt[f] \in {t.wt[f], t.index[f]}
BY DEF Reverted, Tree, Tracked

\* Of the entries git status lists, each gives the staged content to every file it
\* stands for: a listed directory holds nothing that git checkout would restore.
LEMMA RevertedListed ==
  ASSUME NEW t \in Tree, NEW E \in SUBSET Status(t), NEW f \in Files
  PROVE  Reverted(t, E).wt[f] = IF \E e \in E : f \in Covers(e) THEN t.index[f] ELSE t.wt[f]
<1> DEFINE hit == \E e \in E : f \in Covers(e)
           known == \E e \in E : f \in Covers(e) /\ \E g \in Covers(e) : Tracked(t, g)
<1>1. Reverted(t, E).wt[f] =
        IF ~hit THEN t.wt[f]
        ELSE IF Tracked(t, f) THEN t.index[f] ELSE IF known THEN t.wt[f] ELSE Absent
  BY DEF Reverted, Tree
<1>2. known => Tracked(t, f)
  <2> SUFFICES ASSUME NEW e \in E, f \in Covers(e), NEW g \in Covers(e), Tracked(t, g)
               PROVE  Tracked(t, f)
    OBVIOUS
  <2>1. e \in Files
    BY DirectoryLine
  <2>2. f = e /\ g = e
    BY <2>1, TreeAssumption DEF Covers
  <2> QED BY <2>2
<1> QED BY <1>1, <1>2 DEF Tracked

\* A directory that cannot be unlinked still cannot be after the entries that can
\* were gone through: what is in it is under no other line.
LEMMA DirectoryStays ==
  ASSUME NEW t \in Tree, t.index = t.head, NEW d \in Status(t), ~Unlinkable(t, d),
         NEW E \in SUBSET Status(t), \A e \in E : Unlinkable(t, e)
  PROVE  ~Unlinkable(Reverted(t, E), d)
<1>1. PICK f \in Covers(d) : t.wt[f] # Absent
  BY DEF Unlinkable
<1>2. d \notin Files /\ f \in Files /\ DirOf[f] = d /\ \A g \in Covers(d) : ~Tracked(t, g)
  BY DirectoryLine DEF Unlinkable, Covers
<1>3. f \notin Status(t)
  <2>1. \A g \in Files : DirOf[g] = d => ~Tracked(t, g)
    BY <1>2 DEF Covers
  <2>2. \A g \in Files : UntrackedEntry(t, g) # f
    <3> SUFFICES ASSUME NEW g \in Files, UntrackedEntry(t, g) = f PROVE FALSE
      OBVIOUS
    <3>1. CASE DirOf[g] = f
      BY <1>2, <3>1, TreeAssumption
    <3>2. CASE g = f /\ \E h \in Files : DirOf[h] = DirOf[g] /\ Tracked(t, h)
      BY <1>2, <2>1, <3>2
    <3> QED BY <3>1, <3>2 DEF UntrackedEntry
  <2>3. ~Tracked(t, f)
    BY <1>2, <2>1
  <2> QED BY <2>2, <2>3 DEF Status
<1>4. ~\E e \in E : f \in Covers(e)
  <2> SUFFICES ASSUME NEW e \in E, f \in Covers(e) PROVE FALSE
    OBVIOUS
  <2>1. e = f \/ e = d
    BY <1>2 DEF Covers
  <2> QED BY <1>3, <2>1
<1>5. Reverted(t, E).wt[f] # Absent
  BY <1>1, <1>2, <1>4, RevertedListed
<1>6. \A g \in Files : Tracked(Reverted(t, E), g) <=> Tracked(t, g)
  BY DEF Reverted, Tree, Tracked
<1> QED BY <1>2, <1>5, <1>6, <1>1 DEF Unlinkable, Covers
============================================================================
