----------------------------- MODULE MCFileLock -----------------------------
(* Instances of FileLock for TLC: which process makes which attempt, and   *)
(* how many kinds of fault one behaviour mixes.                            *)
EXTENDS FileLock, Naturals, FiniteSets, TLC

CONSTANTS a1, a2, a3

(* One attempt per process, the process named like its attempt; attempts   *)
(* are then interchangeable.                                               *)
OneEach == [a \in Attempts |-> a]
Interchangeable == Permutations(Attempts)

(* Process a1 makes two attempts at once. *)
TwoInOne == a1 :> a1 @@ a2 :> a1 @@ a3 :> a3

OneKindOfFault == Cardinality(faults) <= 1
=============================================================================
