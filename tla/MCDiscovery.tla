---- MODULE MCDiscovery ----
(* Two tasks and pages of one node.                                        *)
EXTENDS Discovery, TLC

SameTasks == Permutations(Tasks)
====
