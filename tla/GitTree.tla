------------------------------ MODULE GitTree ------------------------------
(***************************************************************************)
(* A git working copy as the harness sees it: what HEAD, the index and the *)
(* worktree hold for each file, what `git status --porcelain` prints for   *)
(* it, and what the commands the harness and its workers run do to it      *)
(* (app/core/git_utils.py and the git calls of app/core/graph.py and       *)
(* app/core/workspace/docker.py).                                          *)
(*                                                                         *)
(* Contents are tokens.  The token f stands for the bytes file f had in    *)
(* the HEAD the run started from, so a content found under another name is *)
(* recognisable as a rename, as it is for git.                             *)
(***************************************************************************)
CONSTANTS
  Files,        \* the paths of the repository that matter to the run
  DirOf,        \* the directory of a file whose entries git may collapse; a
                \*   file at the root, or in a directory that always holds
                \*   another tracked file, is its own directory
  RenameLine,   \* the porcelain line "old -> f" of a file moved to f, uncut
  Sensitive,    \* the entries for which is_sensitive_path holds
  Absent,       \* the content of a path that does not exist
  Edited,       \* what a worker writes
  Theirs        \* what the operator had written, uncommitted

Content == Files \union {Absent, Edited, Theirs}
Tree == [head : [Files -> Content], index : [Files -> Content], wt : [Files -> Content]]

\* A line of git status names a file, or a directory that holds no tracked file,
\* or, while its arrow is not cut, no path at all.
Entries == Files \union {DirOf[f] : f \in Files} \union {RenameLine[f] : f \in Files}

ASSUME TreeAssumption ==
  /\ Sensitive \subseteq Entries
  /\ {Absent, Edited, Theirs} \intersect Files = {}
  /\ \A f \in Files : DirOf[f] \in Files => DirOf[f] = f
  /\ \A f, g \in Files : RenameLine[f] # g /\ RenameLine[f] # DirOf[g]

\* The files an entry stands for.
Covers(e) == {f \in Files : f = e \/ DirOf[f] = e}

Tracked(t, f) == t.index[f] # Absent

\* A file staged as deleted whose HEAD content is staged under a new path: the
\* porcelain line is "R  old -> new", and only the new path is read from it.
RenameSource(t, f) ==
  /\ t.head[f] # Absent /\ t.index[f] = Absent
  /\ \E g \in Files : t.head[g] = Absent /\ t.index[g] = t.head[f]

\* The entry of an untracked file: its directory, when git knows nothing in it.
UntrackedEntry(t, f) ==
  IF \E g \in Files : DirOf[g] = DirOf[f] /\ Tracked(t, g) THEN f ELSE DirOf[f]

\* The paths of `git status --porcelain`, after collect_changed_files has cut
\* the rename arrow.
Status(t) ==
  {f \in Files : /\ t.head[f] # t.index[f] \/ (Tracked(t, f) /\ t.index[f] # t.wt[f])
                 /\ ~RenameSource(t, f)}
    \union {UntrackedEntry(t, f) : f \in {g \in Files : ~Tracked(t, g) /\ t.wt[g] # Absent}}

\* A file that git shows as moved to g: of two candidates git picks one, the model
\* takes both.
RenameTarget(t, g) ==
  /\ g \in Files /\ t.head[g] = Absent /\ Tracked(t, g)
  /\ \E f \in Files : t.index[f] = Absent /\ t.head[f] = t.index[g]

\* The lines as they are when nobody cuts the arrow.
UncutStatus(t) == {IF RenameTarget(t, e) THEN RenameLine[e] ELSE e : e \in Status(t)}

Clean(t) == Status(t) = {}

\* `git diff --name-only --diff-filter=D`: index against worktree, so a staged
\* deletion is not in it.
DeletedFiles(t) == {f \in Files : Tracked(t, f) /\ t.wt[f] = Absent}

\* A file all of whose status lines are deletions: "D ", " D" or "DD".  One that
\* is staged as deleted and exists again has a "??" line as well.
PureDelete(t, f) ==
  \/ t.head[f] # Absent /\ t.index[f] = Absent /\ t.wt[f] = Absent
  \/ Tracked(t, f) /\ t.index[f] = t.head[f] /\ t.wt[f] = Absent

\* What enforce_permissions_node does for the entries E: `git checkout -- e`
\* restores the INDEX content of what git tracks, anything else is unlinked.
Reverted(t, E) ==
  LET hit == {f \in Files : \E e \in E : f \in Covers(e)}
      known(f) == \E e \in E : f \in Covers(e) /\ \E g \in Covers(e) : Tracked(t, g)
  IN  [t EXCEPT !.wt = [f \in Files |->
         IF f \notin hit THEN t.wt[f]
         ELSE IF Tracked(t, f) THEN t.index[f]
         ELSE IF known(f) THEN t.wt[f] ELSE Absent]]

\* Path.unlink raises on a directory: an untracked one that still has content.
Unlinkable(t, e) ==
  \/ e \in Files
  \/ \E f \in Covers(e) : Tracked(t, f)
  \/ \A f \in Covers(e) : t.wt[f] = Absent

---------------------------------------------------------------------------
(* The operations a worker process performs on the tree it runs in.        *)

Write(t, f)  == [t EXCEPT !.wt = [t.wt EXCEPT ![f] = Edited]]
Remove(t, f) == [t EXCEPT !.wt = [t.wt EXCEPT ![f] = Absent]]
Add(t, f)    == [t EXCEPT !.index = [t.index EXCEPT ![f] = t.wt[f]]]
Move(t, f, g) ==   \* git mv f g
  [t EXCEPT !.index = [t.index EXCEPT ![g] = t.index[f], ![f] = Absent],
            !.wt = [t.wt EXCEPT ![g] = t.wt[f], ![f] = Absent]]
Commit(t)    == [t EXCEPT !.head = t.index]

\* The trees one operation of a worker may lead to; git is the set of git
\* commands the worker uses besides plain edits.
WorkerEdits(t, git) ==
  {Write(t, f) : f \in Files} \union {Remove(t, f) : f \in Files}
    \union (IF "add" \in git THEN {Add(t, f) : f \in Files} ELSE {})
    \union (IF "mv" \in git
            THEN {Move(t, p[1], p[2]) :
                    p \in {q \in Files \X Files : /\ Tracked(t, q[1]) /\ t.wt[q[1]] # Absent
                                                  /\ ~Tracked(t, q[2]) /\ t.wt[q[2]] = Absent}}
            ELSE {})
    \union (IF "commit" \in git THEN {Commit(t)} ELSE {})

\* The tree of a repository copied with `git archive HEAD` and committed.
Archived(t) == [head |-> t.head, index |-> t.head, wt |-> t.head]

\* `docker cp` of the entries E out of the tree b: what exists in b is copied,
\* deletions are not, and a directory that exists on the host already receives
\* the copy as a subdirectory of its own, not in place.
Extracted(t, b, E) ==
  LET lands(e, f) == f \in Covers(e) /\ (e = f \/ \A g \in Covers(e) : t.wt[g] = Absent)
  IN  [t EXCEPT !.wt = [f \in Files |->
         IF b.wt[f] # Absent /\ \E e \in E : lands(e, f) THEN b.wt[f] ELSE t.wt[f]]]
============================================================================
