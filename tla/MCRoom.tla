------------------------------- MODULE MCRoom -------------------------------
(* Two sessions, one note, two versions; a session is like any other. *)
EXTENDS ControlRoom, TLC

Symmetric == Permutations(Sessions)
=============================================================================
