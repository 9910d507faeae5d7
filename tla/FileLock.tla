------------------------------ MODULE FileLock ------------------------------
(***************************************************************************)
(* withFileLock (src/core/file-lock.ts): the directory lock every FireForge*)
(* mutation takes.  A lock is a directory created with mkdir; an owner     *)
(* record (process id and per-acquisition token) is written into it after- *)
(* wards; a contender that finds the recorded process dead, or no record   *)
(* in a directory older than five minutes, renames the directory aside,    *)
(* looks again, and deletes it or renames it back.                         *)
(*                                                                         *)
(* An attempt is one call of withFileLock and stands for its token too; a  *)
(* process makes several, some of them at once (PidOf).  The lock is two   *)
(* things at once: a path, by which every process reads, writes and        *)
(* removes, and a directory, which rename moves.  Abstracted away:         *)
(*  - the waiter queue and the shared mode, which have their own modules;  *)
(*  - polls between two stale probes (a poll that does not probe changes   *)
(*    nothing), the clock (a deadline may expire at any wait), and the     *)
(*    removal of a directory tree, which is one step;                      *)
(*  - a reused process id, which the start tick tells apart.               *)
(***************************************************************************)
CONSTANTS Attempts,    \* calls of withFileLock on one lock path
          Pids,        \* process ids
          PidOf,       \* the process that makes each attempt
          None,        \* no attempt: an absent directory or record
          FaultKinds   \* the faults a behaviour may contain

ASSUME FileLockAssumption ==
  /\ PidOf \in [Attempts -> Pids]
  /\ None \notin Attempts
  /\ FaultKinds \subseteq {"crash", "signal", "stall", "io"}

VARIABLES pc,         \* where each attempt is in withFileLock
          lock,       \* what is at the lock path
          aside,      \* the directory each reaper has renamed aside
          alive,      \* the running processes
          sweep,      \* how far the signal sweep of each process is
          faults,     \* the kinds of fault that have happened
          displaced   \* attempts whose directory another process took away

vars == <<pc, lock, aside, alive, sweep, faults, displaced>>

-----------------------------------------------------------------------------
(* A directory: the attempt that made it (its identity on disk), the       *)
(* attempt its owner record names, and whether it is past the stale age.   *)
Dirs == [by : Attempts \cup {None}, rec : Attempts \cup {None}, old : BOOLEAN]

NoDir == [by |-> None, rec |-> None, old |-> FALSE]

PCs == {"contend", "probe", "wait", "reap", "judge", "restore", "discard",
        "write", "verify", "undo", "held", "check", "remove", "done", "failed"}

Running(a) == PidOf[a] \in alive

(* isLockOwnerAlive on a record that is present. *)
OwnerAlive(d) == d.rec # None /\ PidOf[d.rec] \in alive

(* The attempts that count on the directory they made. *)
Relying == {a \in Attempts : Running(a) /\ pc[a] \in {"write", "verify", "held"}}

(* Mutant: counts the directory of anybody, or of nobody, as relied on.    *)
EvictedAnyone(own) == {lock.by} \ own

(* Whoever loses the directory at the lock path when someone who is not    *)
(* among "own" removes, moves or replaces it.                              *)
Evicted(own) == (Relying \cap {lock.by}) \ own

Goto(a, label) == pc' = [pc EXCEPT ![a] = label]

Init == /\ pc = [a \in Attempts |-> "contend"]
        /\ lock = NoDir
        /\ aside = [a \in Attempts |-> NoDir]
        /\ alive = Pids
        /\ sweep = [p \in Pids |-> "idle"]
        /\ faults = {}
        /\ displaced = {}

-----------------------------------------------------------------------------
(* The acquisition loop. *)

(* Mutant: a recursive mkdir, which succeeds on an existing directory.     *)
MkdirRecursive(a) ==
  /\ Running(a) /\ pc[a] = "contend"
  /\ lock' = IF lock = NoDir THEN [by |-> a, rec |-> None, old |-> FALSE] ELSE lock
  /\ Goto(a, "write")
  /\ UNCHANGED <<aside, alive, sweep, faults, displaced>>

(* mkdir of the lock path: succeeds for one contender, EEXIST for others.  *)
Mkdir(a) ==
  /\ Running(a) /\ pc[a] = "contend" /\ lock = NoDir
  /\ lock' = [by |-> a, rec |-> None, old |-> FALSE]
  /\ Goto(a, "write")
  /\ UNCHANGED <<aside, alive, sweep, faults, displaced>>

Contended(a) ==
  /\ Running(a) /\ pc[a] = "contend" /\ lock # NoDir
  /\ Goto(a, "probe")
  /\ UNCHANGED <<lock, aside, alive, sweep, faults, displaced>>

(* Mutants: staleness by age before the process id, and without it.        *)
VerdictByAge(d) == IF d = NoDir THEN "contend"
                   ELSE IF ~d.old THEN "wait"
                   ELSE IF d.rec # None /\ OwnerAlive(d) THEN "wait" ELSE "reap"

(* The verdict of removeIfStaleLock on what is at the lock path. *)
Verdict(d) == IF d = NoDir THEN "contend"
              ELSE IF d.rec # None
                   THEN IF OwnerAlive(d) THEN "wait" ELSE "reap"
                   ELSE IF d.old THEN "reap" ELSE "wait"

Probe(a) ==
  /\ Running(a) /\ pc[a] = "probe"
  /\ Goto(a, Verdict(lock))
  /\ UNCHANGED <<lock, aside, alive, sweep, faults, displaced>>

Poll(a) ==
  /\ Running(a) /\ pc[a] = "wait"
  /\ Goto(a, "contend")
  /\ UNCHANGED <<lock, aside, alive, sweep, faults, displaced>>

(* Any other error of mkdir, or of the probe's stat, is thrown. *)
AcquireFails(a) ==
  /\ Running(a) /\ pc[a] \in {"contend", "probe"} /\ "io" \in FaultKinds
  /\ Goto(a, "failed")
  /\ faults' = faults \cup {"io"}
  /\ UNCHANGED <<lock, aside, alive, sweep, displaced>>

(* The wait budget expires: LockContentionError. *)
Deadline(a) ==
  /\ Running(a) /\ pc[a] = "wait"
  /\ Goto(a, "failed")
  /\ UNCHANGED <<lock, aside, alive, sweep, faults, displaced>>

-----------------------------------------------------------------------------
(* reapStaleLock, decided on what the probe saw. *)

RenameAside(a) ==
  /\ Running(a) /\ pc[a] = "reap" /\ lock # NoDir
  /\ aside' = [aside EXCEPT ![a] = lock]
  /\ lock' = NoDir
  /\ displaced' = displaced \cup Evicted({a})
  /\ Goto(a, "judge")
  /\ UNCHANGED <<alive, sweep, faults>>

(* ENOENT: another reaper won or the owner released; retry mkdir. *)
RenameTooLate(a) ==
  /\ Running(a) /\ pc[a] = "reap" /\ lock = NoDir
  /\ Goto(a, "contend")
  /\ UNCHANGED <<lock, aside, alive, sweep, faults, displaced>>

(* Any other errno: leave the lock alone and keep waiting. *)
RenameFails(a) ==
  /\ Running(a) /\ pc[a] = "reap" /\ "io" \in FaultKinds
  /\ Goto(a, "wait")
  /\ faults' = faults \cup {"io"}
  /\ UNCHANGED <<lock, aside, alive, sweep, displaced>>

(* Mutant: no second look. *)
NoRejudge(a) ==
  /\ Running(a) /\ pc[a] = "judge"
  /\ Goto(a, "discard")
  /\ UNCHANGED <<lock, aside, alive, sweep, faults, displaced>>

(* The second look, at the renamed directory. *)
Rejudge(a) ==
  /\ Running(a) /\ pc[a] = "judge"
  /\ Goto(a, IF OwnerAlive(aside[a]) THEN "restore" ELSE "discard")
  /\ UNCHANGED <<lock, aside, alive, sweep, faults, displaced>>

(* rename back: free path, or a directory still empty (POSIX replaces it). *)
RenameBack(a) ==
  /\ Running(a) /\ pc[a] = "restore" /\ lock.rec = None
  /\ lock' = aside[a]
  /\ aside' = [aside EXCEPT ![a] = NoDir]
  /\ displaced' = displaced \cup Evicted({a})
  /\ Goto(a, "wait")
  /\ UNCHANGED <<alive, sweep, faults>>

(* A third process has the path: the displaced lock stays where it is.     *)
(* (Windows also refuses to replace an empty directory.)                   *)
RenameBackFails(a) ==
  /\ Running(a) /\ pc[a] = "restore" /\ lock # NoDir
  /\ Goto(a, "wait")
  /\ UNCHANGED <<lock, aside, alive, sweep, faults, displaced>>

Discard(a) ==
  /\ Running(a) /\ pc[a] = "discard"
  /\ aside' = [aside EXCEPT ![a] = NoDir]
  /\ Goto(a, "contend")
  /\ UNCHANGED <<lock, alive, sweep, faults, displaced>>

-----------------------------------------------------------------------------
(* writeLockOwner: write the record by path, read it back, undo on failure *)

WriteOwner(a) ==
  /\ Running(a) /\ pc[a] = "write" /\ lock # NoDir
  /\ lock' = [lock EXCEPT !.rec = a]
  /\ Goto(a, "verify")
  /\ UNCHANGED <<aside, alive, sweep, faults, displaced>>

(* The directory is gone. *)
WriteNowhere(a) ==
  /\ Running(a) /\ pc[a] = "write" /\ lock = NoDir
  /\ Goto(a, "undo")
  /\ UNCHANGED <<lock, aside, alive, sweep, faults, displaced>>

(* The disk is full, or the directory cannot be written. *)
WriteFails(a) ==
  /\ Running(a) /\ pc[a] = "write" /\ "io" \in FaultKinds
  /\ Goto(a, "undo")
  /\ faults' = faults \cup {"io"}
  /\ UNCHANGED <<lock, aside, alive, sweep, displaced>>

ReadBack(a) ==
  /\ Running(a) /\ pc[a] = "verify"
  /\ Goto(a, IF lock.rec = a THEN "held" ELSE "undo")
  /\ UNCHANGED <<lock, aside, alive, sweep, faults, displaced>>

(* rm of the lock path, whoever's directory is there by now. *)
UndoMkdir(a) ==
  /\ Running(a) /\ pc[a] = "undo"
  /\ lock' = NoDir
  /\ displaced' = displaced \cup Evicted({a})
  /\ Goto(a, "failed")
  /\ UNCHANGED <<aside, alive, sweep, faults>>

-----------------------------------------------------------------------------
(* The operation ends, by return or throw; releaseLock checks, then        *)
(* removes.                                                                *)

Finish(a) ==
  /\ Running(a) /\ pc[a] = "held"
  /\ Goto(a, "check")
  /\ UNCHANGED <<lock, aside, alive, sweep, faults, displaced>>

CheckOwner(a) ==
  /\ Running(a) /\ pc[a] = "check"
  /\ Goto(a, IF lock.rec \in {a, None} THEN "remove" ELSE "done")
  /\ UNCHANGED <<lock, aside, alive, sweep, faults, displaced>>

RemoveLock(a) ==
  /\ Running(a) /\ pc[a] = "remove"
  /\ lock' = NoDir
  /\ displaced' = displaced \cup Evicted({a})
  /\ Goto(a, "done")
  /\ UNCHANGED <<aside, alive, sweep, faults>>

-----------------------------------------------------------------------------
(* The signal path: forceReleaseHeldLocksForSignal runs while the          *)
(* interrupted operation is still running, then the process exits.         *)

AttemptsOf(p) == {a \in Attempts : PidOf[a] = p}

Signal(p) ==
  /\ p \in alive /\ sweep[p] = "idle" /\ "signal" \in FaultKinds
  /\ sweep' = [sweep EXCEPT ![p] = "read"]
  /\ faults' = faults \cup {"signal"}
  /\ UNCHANGED <<pc, lock, aside, alive, displaced>>

(* Only a lock registered in heldLocks is swept, and only when its record  *)
(* does not name another process.                                          *)
SweepCheck(p) ==
  /\ p \in alive /\ sweep[p] = "read"
  /\ sweep' = [sweep EXCEPT ![p] =
       IF /\ \E a \in AttemptsOf(p) : pc[a] = "held"
          /\ lock.rec = None \/ PidOf[lock.rec] = p
       THEN "remove" ELSE "swept"]
  /\ UNCHANGED <<pc, lock, aside, alive, faults, displaced>>

SweepRemove(p) ==
  /\ p \in alive /\ sweep[p] = "remove"
  /\ lock' = NoDir
  /\ displaced' = displaced \cup Evicted(AttemptsOf(p))
  /\ sweep' = [sweep EXCEPT ![p] = "swept"]
  /\ UNCHANGED <<pc, aside, alive, faults>>

(* process.exit at the end of the signal handler. *)
Exit(p) ==
  /\ p \in alive /\ sweep[p] = "swept"
  /\ alive' = alive \ {p}
  /\ UNCHANGED <<pc, lock, aside, sweep, faults, displaced>>

-----------------------------------------------------------------------------
(* Faults *)

Crash(p) ==
  /\ p \in alive /\ "crash" \in FaultKinds
  /\ alive' = alive \ {p}
  /\ faults' = faults \cup {"crash"}
  /\ UNCHANGED <<pc, lock, aside, sweep, displaced>>

(* Five minutes pass and the directory still has no record: its maker is   *)
(* suspended, or died between mkdir and the write.                         *)
Stall ==
  /\ lock # NoDir /\ lock.rec = None /\ ~lock.old /\ "stall" \in FaultKinds
  /\ lock' = [lock EXCEPT !.old = TRUE]
  /\ faults' = faults \cup {"stall"}
  /\ UNCHANGED <<pc, aside, alive, sweep, displaced>>

-----------------------------------------------------------------------------
Acquire(a) == Mkdir(a) \/ Contended(a) \/ Probe(a) \/ Poll(a)
Reap(a)    == \/ RenameAside(a) \/ RenameTooLate(a) \/ Rejudge(a)
              \/ RenameBack(a) \/ RenameBackFails(a) \/ Discard(a)
Own(a)     == WriteOwner(a) \/ WriteNowhere(a) \/ ReadBack(a) \/ UndoMkdir(a)
Release(a) == Finish(a) \/ CheckOwner(a) \/ RemoveLock(a)
Step(a)    == Acquire(a) \/ Reap(a) \/ Own(a) \/ Release(a)

SignalStep(p) == SweepCheck(p) \/ SweepRemove(p) \/ Exit(p)

Next == \/ \E a \in Attempts :
             \/ Step(a) \/ Deadline(a)
             \/ AcquireFails(a) \/ RenameFails(a) \/ WriteFails(a)
        \/ \E p \in Pids : Signal(p) \/ SignalStep(p) \/ Crash(p)
        \/ Stall

(* Every running process keeps running: no step of the wait loop, of the   *)
(* reaper, of an operation or of the signal handler is put off for ever.   *)
(* Nothing makes a fault or a deadline happen.                             *)
Fairness == /\ \A a \in Attempts : WF_vars(Step(a))
            /\ \A p \in Pids : WF_vars(SignalStep(p))

Spec == Init /\ [][Next]_vars /\ Fairness

-----------------------------------------------------------------------------
(* Every variable has its type. *)
TypeOK ==
  /\ pc \in [Attempts -> PCs]
  /\ lock \in Dirs
  /\ aside \in [Attempts -> Dirs]
  /\ alive \subseteq Pids
  /\ sweep \in [Pids -> {"idle", "read", "remove", "swept"}]
  /\ faults \subseteq {"crash", "signal", "stall", "io"}
  /\ displaced \subseteq Attempts

(* Attempts running their operation. *)
Operating == {a \in Attempts : Running(a) /\ pc[a] = "held"}

(* ... of a process whose signal handler has not yet given the lock away. *)
Inside == {a \in Operating : sweep[PidOf[a]] # "swept"}

(* Two operations never run under the lock at once, whatever the processes *)
(* do: the lifecycle document's "at most one real engine or patch mutation *)
(* runs at a time" and the reaper's "rename-aside closes it".              *)
MutualExclusion == \A a, b \in Inside : a = b

(* withFileLock implements the lock its callers rely on: an attempt enters *)
(* only an empty lock until the lock is broken, and only a crash, a stall  *)
(* or an interrupt lets it break.                                          *)
Promise == INSTANCE ExclusiveLock
             WITH inside <- Inside,
                  faulty <- faults \cap {"crash", "signal", "stall"} # {},
                  broken <- displaced # {}

KeepsPromise == Promise!Spec

(* As long as nobody's directory was taken from under them, two operations *)
(* never run under the lock at once: the removal of a lock that somebody   *)
(* relies on is the only way mutual exclusion of withFileLock is lost.     *)
ExclusiveUntilDisplaced == displaced = {} => MutualExclusion

(* withFileLock's reapers, releases and failed acquisitions never take     *)
(* away a directory somebody relies on unless a process crashed, was       *)
(* interrupted, or stalled for five minutes between mkdir and its record.  *)
(* Errors of the file system alone never do.                               *)
DisplacedOnlyByFault == displaced # {} => faults \cap {"crash", "signal", "stall"} # {}

(* A reaper that looked at the directory it renamed never deletes the      *)
(* record of a process that is alive.                                      *)
NeverDiscardsLiveRecord ==
  \A a \in Attempts : pc[a] = "discard" => ~OwnerAlive(aside[a])

(* A lock whose recorded process is gone does not block those who wait:    *)
(* they reclaim it, unless every one of them gives up or dies first.       *)
Waiting == {a \in Attempts : Running(a) /\ pc[a] \in {"contend", "probe", "wait", "reap"}}

DeadOwnerReclaimed ==
  \A d \in Attempts :
    (lock.rec = d /\ ~OwnerAlive(lock) /\ Waiting # {})
      ~> (lock.rec # d \/ Waiting = {})
=============================================================================
