---------------------------- MODULE MCSharedLock ----------------------------
(* Instances of SharedLock for TLC.  TwoInTrouble bounds the faults of a   *)
(* behaviour to two processes: each may be signalled, exit or crash at any *)
(* step.  It does not bound write failures.                                *)
EXTENDS SharedLock, Naturals, FiniteSets

CONSTANTS r1, r2, w1, w2

TwoInTrouble == Cardinality(swept \cup (Procs \ alive)) <= 2
=============================================================================
