-------------------------- MODULE FurnaceMutation --------------------------
(***************************************************************************)
(* runFurnaceMutation (src/core/furnace-operation.ts): a furnace mutation  *)
(* runs under the furnace lock, hands a rollback journal to the wrapper,   *)
(* and is rolled back from it when it throws or is interrupted.  If the    *)
(* rollback fails a pendingRepair marker is written, which is to block     *)
(* further mutations; if that fails too, the process says so.              *)
(*                                                                         *)
(* A process runs one mutation.  Two activities share it: the body (with   *)
(* the wrapper's catch and finally around it) and the signal handler of    *)
(* bin/fireforge.ts; JavaScript interleaves them at every await.  What a   *)
(* mutation did to the engine is one value per process.  A restore takes   *)
(* two steps, so that it can be cut short, and one that missed its timeout *)
(* goes on in the background.  The lock is what ExclusiveLock promises.    *)
(* Cleanup callbacks fail like a restore and are part of it; a dry run     *)
(* takes no lock and writes nothing, and is left out.  A second signal     *)
(* that finds no rollback in flight is merged with the first.              *)
(***************************************************************************)
CONSTANTS Procs,
          None,
          OwnRollback,   \* processes whose body restores its journal itself
          FaultKinds

ASSUME FurnaceMutationAssumption ==
  /\ None \notin Procs
  /\ OwnRollback \subseteq Procs
  /\ FaultKinds \subseteq {"throw", "signal", "again", "io", "slow", "state"}

VARIABLES body,     \* where the body and its wrapper are
          handler,  \* where the signal handler is
          rolling,  \* processes with signalRollbackInFlight set
          late,     \* processes with a timed-out restore still running
          claim,    \* who owns the rollback: rollbackState
          journal,  \* processes that have registered a journal
          engine,   \* what is left of each mutation in the engine
          marker,   \* pendingRepair in the furnace state
          warned,   \* processes that reported an unwritten marker
          lock,     \* who holds the furnace lock
          exited    \* how each process ended

vars == <<body, handler, rolling, late, claim, journal, engine, marker, warned, lock, exited>>

(* What neither the locks nor the labels touch. *)
repair == <<marker, warned>>
signals == <<handler, rolling>>

-----------------------------------------------------------------------------
Live(p) == exited[p] = "no"

(* In activeOperations and not completed. *)
Active == {"running", "writing", "restoring", "marking", "unwinding"}

To(p, label) == body' = [body EXCEPT ![p] = label]
HandlerTo(p, label) == handler' = [handler EXCEPT ![p] = label]

(* The handler's restore is under way or over.                             *)
Restored(p) == claim[p] = "handler" /\ handler[p] # "marking"

Init == /\ body = [p \in Procs |-> "start"]
        /\ handler = [p \in Procs |-> "none"]
        /\ rolling = {} /\ late = {}
        /\ claim = [p \in Procs |-> "free"]
        /\ journal = {}
        /\ engine = [p \in Procs |-> "clean"]
        /\ marker = FALSE /\ warned = {}
        /\ lock = None
        /\ exited = [p \in Procs |-> "no"]

-----------------------------------------------------------------------------
(* The body. *)

(* The marker is read before the lock is taken. *)
Preflight(p) ==
  /\ Live(p) /\ body[p] = "start"
  /\ To(p, IF marker THEN "failed" ELSE "waiting")
  /\ UNCHANGED <<signals, late, claim, journal, engine, repair, lock, exited>>

Enter(p) ==
  /\ Live(p) /\ body[p] = "waiting" /\ lock = None
  /\ lock' = p
  /\ To(p, "running")
  /\ UNCHANGED <<signals, late, claim, journal, engine, repair, exited>>

RegisterJournal(p) ==
  /\ Live(p) /\ body[p] = "running"
  /\ journal' = journal \cup {p}
  /\ To(p, "writing")
  /\ UNCHANGED <<signals, late, claim, engine, repair, lock, exited>>

(* A write after the handler's restore began is not undone. *)
Write(p) ==
  /\ Live(p) /\ body[p] = "writing"
  /\ engine' = [engine EXCEPT ![p] = IF Restored(p) THEN "rewritten" ELSE "partial"]
  /\ UNCHANGED <<body, signals, late, claim, journal, repair, lock, exited>>

(* The body returns: every write it meant to make is there. *)
Return(p) ==
  /\ Live(p) /\ body[p] = "writing"
  /\ engine' = [engine EXCEPT ![p] = IF Restored(p) THEN @ ELSE "applied"]
  /\ To(p, "returned")
  /\ UNCHANGED <<signals, late, claim, journal, repair, lock, exited>>

(* Mutant: the throw path does not look at the claim. *)
ThrowUnclaimed(p) ==
  /\ Live(p) /\ body[p] \in {"running", "writing"} /\ "throw" \in FaultKinds
  /\ claim' = [claim EXCEPT ![p] = "body"]
  /\ To(p, IF p \in journal THEN "restoring" ELSE "unwinding")
  /\ UNCHANGED <<signals, late, journal, engine, repair, lock, exited>>

(* Mutant: the wrapper's catch stands outside withFileLock. *)
ThrowUnlocked(p) ==
  /\ Live(p) /\ body[p] \in {"running", "writing"} /\ "throw" \in FaultKinds
  /\ LET own == p \in OwnRollback \cap journal
         mine == own \/ claim[p] = "free"
     IN /\ claim' = IF mine THEN [claim EXCEPT ![p] = "body"] ELSE claim
        /\ To(p, IF mine /\ p \in journal THEN "restoring" ELSE "unwinding")
  /\ lock' = IF lock = p THEN None ELSE lock
  /\ UNCHANGED <<signals, late, journal, engine, repair, exited>>

(* The body throws; if nobody has claimed the rollback, or the body does   *)
(* not ask (OwnRollback: markRolledBack is unconditional), its journal is  *)
(* restored.  Without a journal there is nothing to restore, and no marker *)
(* is written.                                                             *)
Throw(p) ==
  /\ Live(p) /\ body[p] \in {"running", "writing"} /\ "throw" \in FaultKinds
  /\ LET own == p \in OwnRollback \cap journal
         mine == own \/ claim[p] = "free"
     IN /\ claim' = IF mine THEN [claim EXCEPT ![p] = "body"] ELSE claim
        /\ To(p, IF mine /\ p \in journal THEN "restoring" ELSE "unwinding")
  /\ UNCHANGED <<signals, late, journal, engine, repair, lock, exited>>

RestoreByBody(p) ==
  /\ Live(p) /\ body[p] = "restoring"
  /\ engine' = [engine EXCEPT ![p] = "clean"]
  /\ To(p, "unwinding")
  /\ UNCHANGED <<signals, late, claim, journal, repair, lock, exited>>

(* A file cannot be restored, or 15 s are not enough; a body that restores *)
(* on its own has no such limit.                                           *)
RestoreByBodyFails(p) ==
  /\ Live(p) /\ body[p] = "restoring"
  /\ \/ "io" \in FaultKinds /\ UNCHANGED late
     \/ "slow" \in FaultKinds /\ p \notin OwnRollback /\ late' = late \cup {p}
  /\ To(p, "marking")
  /\ UNCHANGED <<signals, claim, journal, engine, repair, lock, exited>>

(* Writing the marker may fail in its turn, and that is reported: the      *)
(* wrapper and the handler warn; a body that restores on its own throws    *)
(* the failure of the write, in place of the error it had.                 *)
WriteMarker(p) ==
  \/ marker' = TRUE /\ UNCHANGED warned
  \/ "state" \in FaultKinds /\ warned' = warned \cup {p} /\ UNCHANGED marker

(* Mutant: a failed rollback is only logged. *)
MarkNothing(p) ==
  /\ Live(p) /\ body[p] = "marking"
  /\ To(p, "unwinding")
  /\ UNCHANGED <<signals, late, claim, journal, engine, repair, lock, exited>>

MarkByBody(p) ==
  /\ Live(p) /\ body[p] = "marking"
  /\ WriteMarker(p)
  /\ To(p, "unwinding")
  /\ UNCHANGED <<signals, late, claim, journal, engine, lock, exited>>

(* A restore that timed out ends after all. *)
RestoreLate(p) ==
  /\ Live(p) /\ p \in late
  /\ late' = late \ {p}
  /\ engine' = [engine EXCEPT ![p] = "clean"]
  /\ UNCHANGED <<body, signals, claim, journal, repair, lock, exited>>

(* Mutant: the wrapper forgets the claim when it deregisters. *)
UnwindForgetful(p) ==
  /\ Live(p) /\ body[p] \in {"unwinding", "returned"}
  /\ lock' = IF lock = p THEN None ELSE lock
  /\ claim' = [claim EXCEPT ![p] = None]
  /\ To(p, IF body[p] = "returned" THEN "succeeded" ELSE "failed")
  /\ UNCHANGED <<signals, late, journal, engine, repair, exited>>

(* The finally of the wrapper, then that of withFileLock. *)
Unwind(p) ==
  /\ Live(p) /\ body[p] \in {"unwinding", "returned"}
  /\ lock' = IF lock = p THEN None ELSE lock
  /\ To(p, IF body[p] = "returned" THEN "succeeded" ELSE "failed")
  /\ UNCHANGED <<signals, late, claim, journal, engine, repair, exited>>

(* The process ends: at once after an error (main's catch exits), and when *)
(* nothing is left to do after success.                                    *)
ExitMain(p) ==
  /\ Live(p)
  /\ \/ body[p] = "failed"
     \/ body[p] = "succeeded" /\ handler[p] = "none" /\ p \notin late
  /\ exited' = [exited EXCEPT ![p] = "main"]
  /\ UNCHANGED <<body, signals, late, claim, journal, engine, repair, lock>>

-----------------------------------------------------------------------------
(* The signal handler.  It claims the rollback, or leaves it to the body   *)
(* and goes on to the lock sweep.                                          *)

Signal(p) ==
  /\ Live(p) /\ handler[p] = "none" /\ "signal" \in FaultKinds
  /\ rolling' = IF body[p] \in Active THEN rolling \cup {p} ELSE rolling
  /\ IF body[p] \in Active /\ claim[p] = "free"
     THEN /\ claim' = [claim EXCEPT ![p] = "handler"]
          /\ HandlerTo(p, IF p \in journal THEN "restoring" ELSE "marking")
     ELSE HandlerTo(p, "sweeping") /\ UNCHANGED claim
  /\ UNCHANGED <<body, late, journal, engine, repair, lock, exited>>

(* Writes that landed during the restore may or may not survive it. *)
RestoreByHandler(p) ==
  /\ Live(p) /\ handler[p] = "restoring"
  /\ \E e \in {"clean"} \cup ({engine[p]} \cap {"rewritten"}) :
       engine' = [engine EXCEPT ![p] = e]
  /\ HandlerTo(p, "sweeping")
  /\ UNCHANGED <<body, rolling, late, claim, journal, repair, lock, exited>>

(* Mutant: the handler goes on to the sweep when the restore fails. *)
RestoreByHandlerFailsQuietly(p) ==
  /\ Live(p) /\ handler[p] = "restoring" /\ "io" \in FaultKinds
  /\ HandlerTo(p, "sweeping")
  /\ UNCHANGED <<body, rolling, late, claim, journal, engine, repair, lock, exited>>

RestoreByHandlerFails(p) ==
  /\ Live(p) /\ handler[p] = "restoring"
  /\ \/ "io" \in FaultKinds /\ UNCHANGED late
     \/ "slow" \in FaultKinds /\ late' = late \cup {p}
  /\ HandlerTo(p, "marking")
  /\ UNCHANGED <<body, rolling, claim, journal, engine, repair, lock, exited>>

(* Rollback failed, or no journal was registered yet. *)
MarkByHandler(p) ==
  /\ Live(p) /\ handler[p] = "marking"
  /\ WriteMarker(p)
  /\ HandlerTo(p, "sweeping")
  /\ UNCHANGED <<body, rolling, late, claim, journal, engine, lock, exited>>

(* Mutant: the sweep insists on a lock of its own. *)
SweepOwnOnly(p) ==
  /\ Live(p) /\ handler[p] = "sweeping" /\ lock = p
  /\ lock' = None
  /\ HandlerTo(p, "exiting")
  /\ UNCHANGED <<body, rolling, late, claim, journal, engine, repair, exited>>

(* Releases the lock whatever the body is doing. *)
Sweep(p) ==
  /\ Live(p) /\ handler[p] = "sweeping"
  /\ lock' = IF lock = p THEN None ELSE lock
  /\ HandlerTo(p, "exiting")
  /\ UNCHANGED <<body, rolling, late, claim, journal, engine, repair, exited>>

ExitHandler(p) ==
  /\ Live(p) /\ handler[p] = "exiting"
  /\ exited' = [exited EXCEPT ![p] = "handler"]
  /\ UNCHANGED <<body, signals, late, claim, journal, engine, repair, lock>>

(* A second Ctrl+C during or after a rollback exits at once. *)
SignalAgain(p) ==
  /\ Live(p) /\ p \in rolling /\ "again" \in FaultKinds
  /\ exited' = [exited EXCEPT ![p] = "again"]
  /\ UNCHANGED <<body, signals, late, claim, journal, engine, repair, lock>>

(* The lock of a process that is gone is reaped by the next contender. *)
ReclaimLock ==
  /\ lock # None /\ ~Live(lock)
  /\ lock' = None
  /\ UNCHANGED <<body, signals, late, claim, journal, engine, repair, exited>>

-----------------------------------------------------------------------------
BodyStep(p) == \/ Preflight(p) \/ Enter(p) \/ RegisterJournal(p) \/ Return(p)
               \/ RestoreByBody(p) \/ MarkByBody(p) \/ Unwind(p) \/ ExitMain(p)

HandlerStep(p) == \/ RestoreByHandler(p) \/ MarkByHandler(p) \/ Sweep(p) \/ ExitHandler(p)

Next == \/ ReclaimLock
        \/ \E p \in Procs :
             \/ BodyStep(p) \/ HandlerStep(p) \/ Write(p) \/ Throw(p) \/ RestoreLate(p)
             \/ RestoreByBodyFails(p) \/ RestoreByHandlerFails(p)
             \/ Signal(p) \/ SignalAgain(p)

(* Bodies return or throw in the end, and every wait of the handler is     *)
(* bounded by a timer.                                                     *)
Fairness == /\ WF_vars(ReclaimLock)
            /\ \A p \in Procs : WF_vars(BodyStep(p)) /\ WF_vars(HandlerStep(p))

Spec == Init /\ [][Next]_vars /\ Fairness

-----------------------------------------------------------------------------
(* Every variable has its type. *)
TypeOK ==
  /\ body \in [Procs -> Active \cup {"start", "waiting", "returned", "succeeded", "failed"}]
  /\ handler \in [Procs -> {"none", "restoring", "marking", "sweeping", "exiting"}]
  /\ rolling \subseteq Procs /\ late \subseteq Procs
  /\ claim \in [Procs -> {"free", "body", "handler"}]
  /\ journal \subseteq Procs
  /\ engine \in [Procs -> {"clean", "partial", "rewritten", "applied"}]
  /\ marker \in BOOLEAN /\ warned \subseteq Procs
  /\ lock \in Procs \cup {None}
  /\ exited \in [Procs -> {"no", "main", "handler", "again"}]

(* The marker is set, or the operator was told that it could not be.       *)
Told(p) == marker \/ p \in warned

(* A mutation that does not finish restores the engine or says so: no      *)
(* process ends with a torn engine and neither marker nor warning.         *)
NoTornExit ==
  \A p \in Procs : exited[p] # "no" /\ engine[p] \in {"partial", "rewritten"} => Told(p)

(* A mutation that nobody interrupts keeps that promise, whatever happens  *)
(* to others.                                                              *)
RestoredOrMarked ==
  \A p \in Procs :
    exited[p] # "no" /\ handler[p] = "none" /\ engine[p] \in {"partial", "rewritten"} => Told(p)

(* The handler that owns the rollback keeps it for everything the body     *)
(* wrote before the restore.                                               *)
HandlerRestoresOrMarks ==
  \A p \in Procs :
    exited[p] = "handler" /\ claim[p] = "handler" /\ engine[p] = "partial" => Told(p)

BodyRestores(p) ==
  body[p] = "restoring" \/ (p \in late \ OwnRollback /\ claim[p] = "body")
HandlerRestores(p) == handler[p] = "restoring" \/ (p \in late /\ claim[p] = "handler")

(* The two rollback paths never restore one journal at the same time: who  *)
(* claims it first restores, and the other skips, timed-out restores       *)
(* included.  A body that restores its journal itself does not ask.        *)
OneRestorer ==
  \A p \in Procs \ OwnRollback : ~(Live(p) /\ BodyRestores(p) /\ HandlerRestores(p))

(* The sweep of its signal handler has not taken the lock from p.          *)
Unswept(p) == Live(p) /\ handler[p] # "exiting"

(* The lock covers the restore of a throw: nobody mutates the engine while *)
(* another process puts it back, until a signal sweep gives the lock away. *)
(* But a restore that timed out is not stopped: it outlives the lock, and  *)
(* whoever waited for that may run beside it.  The wrapper has marked the  *)
(* engine, or said that it could not, before it let anybody in.            *)
RestoreUnderLock ==
  \A p, q \in Procs :
    p # q /\ Unswept(p) /\ Unswept(q) /\ BodyRestores(p) /\ body[q] \in {"running", "writing"}
    => body[p] = "failed" /\ Told(p)

(* An interrupted process exits, whatever its body and its restores do.    *)
SignalEnds == \A p \in Procs : handler[p] # "none" ~> ~Live(p)
=============================================================================
