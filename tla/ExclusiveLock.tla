--------------------------- MODULE ExclusiveLock ---------------------------
(***************************************************************************)
(* What withFileLock promises to its callers: one operation at a time      *)
(* inside the lock, until the lock is broken, and the lock is broken only  *)
(* after a fault.  FileLock implements it.                                 *)
(***************************************************************************)
CONSTANT Attempts

VARIABLES inside,   \* the attempts inside the lock
          faulty,   \* whether a process crashed, stalled or was interrupted
          broken    \* whether the lock was taken from somebody inside

Init == inside = {} /\ ~faulty /\ ~broken

Enter(a) == /\ inside = {} \/ broken
            /\ inside' = inside \cup {a}
            /\ UNCHANGED <<faulty, broken>>

Leave == inside' \subseteq inside /\ UNCHANGED <<faulty, broken>>

(* A fault may throw somebody out of the lock ... *)
Fault == faulty' /\ inside' \subseteq inside /\ UNCHANGED broken

(* ... and from then on the lock may break. *)
Break == faulty /\ broken' /\ inside' \subseteq inside /\ UNCHANGED faulty

Next == (\E a \in Attempts : Enter(a)) \/ Leave \/ Fault \/ Break

Spec == Init /\ [][Next]_<<inside, faulty, broken>>
=============================================================================
