------------------------------ MODULE MCIssue ------------------------------
(***************************************************************************)
(* Two tests over trees of three files: `bug` needs the patched test file   *)
(* and the fix in a tracked module; `old` breaks when the fix comes        *)
(* without the new module.                                                 *)
(***************************************************************************)
EXTENDS IssueSolve

MCFiles == {"src", "new", "test"}
Trees == SUBSET MCFiles
MCRunnable == [bug |-> {t \in Trees : "test" \in t}, old |-> Trees, odd |-> Trees]
MCPassing == [bug |-> {t \in Trees : "src" \in t}, odd |-> Trees,
              old |-> {t \in Trees : "src" \in t => "new" \in t}]
SpecOf(pinned, setup, patched, f2p, p2p) ==
    [by_spec |-> f2p # {}, pinned |-> pinned, setup |-> setup, patched |-> patched,
     f2p |-> f2p, p2p |-> p2p]
MCSpecs == {
    SpecOf(FALSE, 1, TRUE, {"bug"}, {"old"}),   \* the fix must not break old
    SpecOf(TRUE, 0, TRUE, {"bug"}, {"odd"}),    \* a pinned image, a refused test id
    SpecOf(FALSE, 0, TRUE, {"bug", "old"}, {}), \* old passes at base: not a bug
    SpecOf(FALSE, 0, FALSE, {}, {})}            \* a GitHub issue
MCWorkerGit == {
    [committed |-> {}, known |-> {"src"}],             \* none
    [committed |-> {"src"}, known |-> {"src", "new"}]} \* a commit, then git add
=============================================================================
