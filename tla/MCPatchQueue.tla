---------------------------- MODULE MCPatchQueue ----------------------------
(* A queue of two patches and one to come, for TLC. *)
EXTENDS PatchQueue

CONSTANTS p1, p2, p3

QueueStart == <<p1, p2>>

\* Every patch has a name of its own, or the two listed ones share theirs.
OwnSlugs == [p \in Patches |-> p]
SharedSlugs == [p \in Patches |-> IF p = p2 THEN p1 ELSE p]
=============================================================================
