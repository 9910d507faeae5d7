----------------------------- MODULE SharedLock -----------------------------
(***************************************************************************)
(* Shared and exclusive holds of one lock (src/core/file-lock-shared.ts    *)
(* and runWhileHeld in src/core/file-lock.ts).  The exclusive lock is a    *)
(* turnstile: a reader takes it, records a shared hold beside the lock and *)
(* lets go at once; a writer takes it and keeps it while it waits until no *)
(* live shared holder is left.                                             *)
(*                                                                         *)
(* The turnstile is what ExclusiveLock promises: one holder, reclaimed     *)
(* from a dead one.  Every process makes one call at a time and comes back *)
(* for another; how it queues for the turnstile is WaiterQueue.            *)
(***************************************************************************)
CONSTANTS Readers,     \* processes that call with mode 'shared'
          Writers,     \* processes that call with mode 'exclusive'
          None,
          FaultKinds

ASSUME SharedLockAssumption ==
  /\ Readers \cap Writers = {}
  /\ None \notin Readers \cup Writers
  /\ FaultKinds \subseteq {"crash", "signal", "io"}

Procs == Readers \cup Writers

VARIABLES pc,
          turnstile,  \* the owner of the lock directory
          holds,      \* readers with a directory under <lock>.shared
          recorded,   \* those whose directory has an owner record
          todo,       \* entries a draining writer has still to look at
          busy,       \* writers that met a live shared holder in this round
          alive,
          swept       \* processes whose locks the signal sweep has released

vars == <<pc, turnstile, holds, recorded, todo, busy, alive, swept>>

-----------------------------------------------------------------------------
Goto(p, label) == pc' = [pc EXCEPT ![p] = label]

Init == /\ pc = [p \in Procs |-> "idle"]
        /\ turnstile = None
        /\ holds = {} /\ recorded = {}
        /\ todo = [w \in Writers |-> {}]
        /\ busy = {}
        /\ alive = Procs
        /\ swept = {}

(* Mutant: readers do not wait for the turnstile. *)
TakeShared(p) ==
  /\ p \in alive \ swept /\ pc[p] = "idle" /\ (turnstile \notin alive \/ p \in Readers)
  /\ turnstile' = IF turnstile \notin alive THEN p ELSE turnstile
  /\ Goto(p, IF p \in Readers THEN "mkhold" ELSE "drain")
  /\ UNCHANGED <<holds, recorded, todo, busy, alive, swept>>

(* The exclusive acquisition; a dead owner does not count. *)
Take(p) ==
  /\ p \in alive \ swept /\ pc[p] = "idle" /\ turnstile \notin alive
  /\ turnstile' = p
  /\ Goto(p, IF p \in Readers THEN "mkhold" ELSE "drain")
  /\ UNCHANGED <<holds, recorded, todo, busy, alive, swept>>

-----------------------------------------------------------------------------
(* The reader: registerSharedHold, release the turnstile, work, drop.      *)

(* Mutant: the turnstile is released before the hold is on disk. *)
MkHoldLate(r) ==
  /\ r \in alive /\ pc[r] = "mkhold"
  /\ holds' = holds \cup {r}
  /\ turnstile' = None
  /\ Goto(r, "record")
  /\ UNCHANGED <<recorded, todo, busy, alive, swept>>

MkHold(r) ==
  /\ r \in alive /\ pc[r] = "mkhold"
  /\ holds' = holds \cup {r}
  /\ Goto(r, "record")
  /\ UNCHANGED <<turnstile, recorded, todo, busy, alive, swept>>

Record(r) ==
  /\ r \in alive /\ pc[r] = "record"
  /\ recorded' = recorded \cup {r}
  /\ Goto(r, "pass")
  /\ UNCHANGED <<turnstile, holds, todo, busy, alive, swept>>

(* mkdir or writeLockOwner (which removes the directory) throws; the       *)
(* turnstile is released all the same.                                     *)
RecordFails(r) ==
  /\ r \in alive /\ pc[r] \in {"mkhold", "record"} /\ "io" \in FaultKinds
  /\ holds' = holds \ {r}
  /\ Goto(r, "giveup")
  /\ UNCHANGED <<turnstile, recorded, todo, busy, alive, swept>>

Pass(r) ==
  /\ r \in alive /\ pc[r] \in {"pass", "giveup"}
  /\ turnstile' = IF turnstile = r THEN None ELSE turnstile
  /\ Goto(r, IF pc[r] = "pass" THEN "read" ELSE "idle")
  /\ UNCHANGED <<holds, recorded, todo, busy, alive, swept>>

(* Mutant: a reader keeps its hold when its operation is over. *)
DropNothing(r) ==
  /\ r \in alive /\ pc[r] = "read"
  /\ Goto(r, "idle")
  /\ UNCHANGED <<turnstile, holds, recorded, todo, busy, alive, swept>>

DropHold(r) ==
  /\ r \in alive /\ pc[r] = "read"
  /\ holds' = holds \ {r}
  /\ recorded' = recorded \ {r}
  /\ Goto(r, "idle")
  /\ UNCHANGED <<turnstile, todo, busy, alive, swept>>

-----------------------------------------------------------------------------
(* The writer: waitForSharedHoldersToDrain, one directory entry at a time. *)

ListHolds(w) ==
  /\ w \in alive /\ pc[w] = "drain"
  /\ todo' = [todo EXCEPT ![w] = holds]
  /\ busy' = busy \ {w}
  /\ Goto(w, "scan")
  /\ UNCHANGED <<turnstile, holds, recorded, alive, swept>>

(* Mutant: the reaper does not ask whether the owner is alive. *)
LookAndReap(w, r) ==
  /\ w \in alive /\ pc[w] = "scan" /\ r \in todo[w]
  /\ todo' = [todo EXCEPT ![w] = @ \ {r}]
  /\ holds' = holds \ {r} /\ recorded' = recorded \ {r}
  /\ busy' = IF r \in recorded \cap alive THEN busy \cup {w} ELSE busy
  /\ UNCHANGED <<pc, turnstile, alive, swept>>

(* A live owner counts; a dead one is reaped; no record yet is left alone. *)
LookAt(w, r) ==
  /\ w \in alive /\ pc[w] = "scan" /\ r \in todo[w]
  /\ todo' = [todo EXCEPT ![w] = @ \ {r}]
  /\ busy' = IF r \in recorded \cap alive THEN busy \cup {w} ELSE busy
  /\ IF r \in recorded \ alive
     THEN holds' = holds \ {r} /\ recorded' = recorded \ {r}
     ELSE UNCHANGED <<holds, recorded>>
  /\ UNCHANGED <<pc, turnstile, alive, swept>>

EndRound(w) ==
  /\ w \in alive /\ pc[w] = "scan" /\ todo[w] = {}
  /\ Goto(w, IF w \in busy THEN "drain" ELSE "write")
  /\ UNCHANGED <<turnstile, holds, recorded, todo, busy, alive, swept>>

(* The shared holders outlast the budget. *)
DrainTimeout(w) ==
  /\ w \in alive /\ pc[w] = "scan" /\ todo[w] = {} /\ w \in busy
  /\ Goto(w, "release")
  /\ UNCHANGED <<turnstile, holds, recorded, todo, busy, alive, swept>>

FinishWrite(w) ==
  /\ w \in alive /\ pc[w] = "write"
  /\ Goto(w, "release")
  /\ UNCHANGED <<turnstile, holds, recorded, todo, busy, alive, swept>>

Release(w) ==
  /\ w \in alive /\ pc[w] = "release"
  /\ turnstile' = IF turnstile = w THEN None ELSE turnstile
  /\ Goto(w, "idle")
  /\ UNCHANGED <<holds, recorded, todo, busy, alive, swept>>

-----------------------------------------------------------------------------
(* forceReleaseHeldLocksForSignal: the turnstile of a writer (a reader's   *)
(* is not registered for the sweep) and the shared hold of a reader that   *)
(* has recorded one.  The operation goes on until the process exits.       *)
Sweep(p) ==
  /\ p \in alive \ swept /\ "signal" \in FaultKinds
  /\ swept' = swept \cup {p}
  /\ turnstile' = IF p \in Writers /\ turnstile = p THEN None ELSE turnstile
  /\ IF p \in Readers /\ pc[p] \in {"pass", "read"}
     THEN holds' = holds \ {p} /\ recorded' = recorded \ {p}
     ELSE UNCHANGED <<holds, recorded>>
  /\ UNCHANGED <<pc, todo, busy, alive>>

Exit(p) ==
  /\ p \in alive \cap swept
  /\ alive' = alive \ {p}
  /\ UNCHANGED <<pc, turnstile, holds, recorded, todo, busy, swept>>

Crash(p) ==
  /\ p \in alive /\ "crash" \in FaultKinds
  /\ alive' = alive \ {p}
  /\ UNCHANGED <<pc, turnstile, holds, recorded, todo, busy, swept>>

ReaderStep(r) == MkHold(r) \/ Record(r) \/ Pass(r) \/ DropHold(r)
WriterStep(w) == \/ ListHolds(w) \/ EndRound(w) \/ FinishWrite(w) \/ Release(w)
                 \/ \E r \in Readers : LookAt(w, r)

Next == \/ \E p \in Procs : Take(p) \/ Sweep(p) \/ Exit(p) \/ Crash(p)
        \/ \E r \in Readers : ReaderStep(r) \/ RecordFails(r)
        \/ \E w \in Writers : WriterStep(w) \/ DrainTimeout(w)

(* Operations end and the drain loop keeps polling.  Nobody has to come    *)
(* back for the lock.                                                      *)
Fairness == /\ \A r \in Readers : WF_vars(ReaderStep(r))
            /\ \A w \in Writers : WF_vars(WriterStep(w))
            /\ \A p \in Procs : WF_vars(Exit(p))

Spec == Init /\ [][Next]_vars /\ Fairness

-----------------------------------------------------------------------------
(* Every variable has its type. *)
TypeOK ==
  /\ pc \in [Procs -> {"idle", "mkhold", "record", "pass", "giveup", "read",
                       "drain", "scan", "write", "release"}]
  /\ turnstile \in Procs \cup {None}
  /\ holds \subseteq Readers /\ recorded \subseteq Readers
  /\ todo \in [Writers -> SUBSET Readers]
  /\ busy \subseteq Writers
  /\ alive \subseteq Procs /\ swept \subseteq Procs

Reading == {r \in Readers : r \in alive \ swept /\ pc[r] = "read"}
Writing == {w \in Writers : w \in alive \ swept /\ pc[w] = "write"}

(* Whoever writes has the lock alone: no shared holder, and no other       *)
(* writer, runs its operation meanwhile, whatever crashed and whatever     *)
(* records dead processes have left.                                       *)
WriterAlone == \A w \in Writing : Reading = {} /\ Writing = {w}

(* Reaping the holds of dead processes never costs a live reader its hold. *)
HoldKept ==
  \A r \in Readers :
    r \in alive \ swept /\ pc[r] \in {"pass", "read"} => r \in holds \cap recorded

(* Once a writer holds the turnstile no new shared holder slips in ahead   *)
(* of it.                                                                  *)
NoNewcomers ==
  [][\A w \in Writers :
       w \in alive \ swept /\ pc[w] \in {"drain", "scan"} => holds' \subseteq holds]_vars

(* A writer that holds the turnstile gets its turn or gives up; readers    *)
(* that come and go do not starve it.                                      *)
WriterServed ==
  \A w \in Writers :
    pc[w] = "drain" ~> (pc[w] \in {"write", "release"} \/ w \notin alive)
=============================================================================
