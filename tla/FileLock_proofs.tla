-------------------------- MODULE FileLock_proofs --------------------------
(***************************************************************************)
(* Proofs about FileLock for any number of processes and attempts.         *)
(*                                                                         *)
(* ExclusiveUntilDisplaced is not inductive: the steps before "held" must  *)
(* be covered too.  Rely says that whoever made a directory and counts on  *)
(* it finds it at the lock path, unless it was displaced or its process    *)
(* has swept it; two attempts that both find their own directory there are *)
(* one.  FaultFree says what the state looks like before the first crash,  *)
(* stall or signal: no reaper has started, and everybody between mkdir and *)
(* release owns the directory at the lock path, so removing it evicts      *)
(* nobody else.                                                            *)
(***************************************************************************)
EXTENDS FileLock, TLAPS

Calm == faults \cap {"crash", "signal", "stall"} = {}

Reaping == {"reap", "judge", "restore", "discard"}
Owning  == {"write", "verify", "held", "check", "remove", "undo"}

Rely == \A a \in Relying :
          sweep[PidOf[a]] = "swept" \/ a \in displaced \/ lock.by = a

FaultFree ==
  Calm => /\ alive = Pids
          /\ \A p \in Pids : sweep[p] = "idle"
          /\ displaced = {}
          /\ ~lock.old
          /\ \A a \in Attempts : pc[a] \notin Reaping
          /\ \A a \in Attempts : pc[a] \in Owning => lock.by = a

IInv == TypeOK /\ Rely /\ FaultFree

USE FileLockAssumption

-----------------------------------------------------------------------------
(* Every variable keeps its type: one step per group of actions. *)
LEMMA TypeStep == TypeOK /\ [Next]_vars => TypeOK'
<1> SUFFICES ASSUME TypeOK, [Next]_vars PROVE TypeOK'
  OBVIOUS
<1> USE DEF TypeOK, Dirs, NoDir, PCs, Goto
<1>1. ASSUME NEW a \in Attempts, Acquire(a) \/ Deadline(a) PROVE TypeOK'
  <2>1. CASE Mkdir(a)
    BY <2>1 DEF Mkdir
  <2>2. CASE Contended(a)
    BY <2>2 DEF Contended
  <2>3. CASE Probe(a)
    BY <2>3 DEF Probe, Verdict
  <2>4. CASE Poll(a) \/ Deadline(a)
    BY <2>4 DEF Poll, Deadline
  <2> QED BY <1>1, <2>1, <2>2, <2>3, <2>4 DEF Acquire
<1>2. ASSUME NEW a \in Attempts, Reap(a) \/ RenameFails(a) PROVE TypeOK'
  <2>1. CASE RenameAside(a)
    BY <2>1 DEF RenameAside, Evicted, Relying
  <2>2. CASE RenameBack(a)
    BY <2>2 DEF RenameBack, Evicted, Relying
  <2>3. CASE RenameTooLate(a) \/ RenameBackFails(a)
    BY <2>3 DEF RenameTooLate, RenameBackFails
  <2>4. CASE RenameFails(a)
    BY <2>4, SMTT(20) DEF RenameFails
  <2>5. CASE Rejudge(a)
    BY <2>5 DEF Rejudge
  <2>6. CASE Discard(a)
    BY <2>6 DEF Discard
  <2> QED BY <1>2, <2>1, <2>2, <2>3, <2>4, <2>5, <2>6 DEF Reap
<1>3. ASSUME NEW a \in Attempts, Own(a) \/ WriteFails(a) \/ AcquireFails(a) PROVE TypeOK'
  <2>1. CASE WriteOwner(a)
    BY <2>1 DEF WriteOwner
  <2>2. CASE WriteNowhere(a)
    BY <2>2 DEF WriteNowhere
  <2>3. CASE WriteFails(a)
    BY <2>3, SMTT(20) DEF WriteFails
  <2>4. CASE AcquireFails(a)
    BY <2>4, SMTT(20) DEF AcquireFails
  <2>5. CASE ReadBack(a)
    BY <2>5 DEF ReadBack
  <2>6. CASE UndoMkdir(a)
    BY <2>6 DEF UndoMkdir, Evicted, Relying
  <2> QED BY <1>3, <2>1, <2>2, <2>3, <2>4, <2>5, <2>6 DEF Own
<1>4. ASSUME NEW a \in Attempts, Release(a) PROVE TypeOK'
  <2>1. CASE Finish(a) \/ CheckOwner(a)
    BY <2>1 DEF Finish, CheckOwner
  <2>2. CASE RemoveLock(a)
    BY <2>2 DEF RemoveLock, Evicted, Relying
  <2> QED BY <1>4, <2>1, <2>2 DEF Release
<1>5. ASSUME NEW p \in Pids, Signal(p) \/ SignalStep(p) \/ Crash(p) PROVE TypeOK'
  <2>1. CASE Signal(p) \/ SweepCheck(p)
    BY <2>1 DEF Signal, SweepCheck
  <2>2. CASE SweepRemove(p)
    BY <2>2 DEF SweepRemove, Evicted, Relying
  <2>3. CASE Exit(p) \/ Crash(p)
    BY <2>3 DEF Exit, Crash
  <2> QED BY <1>5, <2>1, <2>2, <2>3 DEF SignalStep
<1>6. CASE Stall
  BY <1>6 DEF Stall
<1>7. CASE UNCHANGED vars
  BY <1>7 DEF vars
<1> QED
  BY <1>1, <1>2, <1>3, <1>4, <1>5, <1>6, <1>7 DEF Next, Step

-----------------------------------------------------------------------------
(* Only the steps that change what is at the lock path can take a relied-on *)
(* directory away, and they record it in displaced (or sweep it).          *)
LEMMA RelyStep == TypeOK /\ Rely /\ [Next]_vars => Rely'
<1> SUFFICES ASSUME TypeOK, Rely, [Next]_vars,
                    NEW b \in Relying', sweep'[PidOf[b]] # "swept", b \notin displaced'
             PROVE  lock'.by = b
  BY DEF Rely
<1> USE DEF TypeOK, Relying, Running, Goto
<1>0. b \in Attempts
  OBVIOUS
<1>1. ASSUME NEW a \in Attempts, Acquire(a) \/ Deadline(a) PROVE lock'.by = b
  <2>1. CASE Mkdir(a)
    BY <1>0, <2>1 DEF Mkdir, Rely, NoDir
  <2>2. CASE Contended(a) \/ Probe(a) \/ Poll(a) \/ Deadline(a)
    BY <1>0, <2>2 DEF Contended, Probe, Verdict, Poll, Deadline, Rely
  <2> QED BY <1>1, <2>1, <2>2 DEF Acquire
<1>2. ASSUME NEW a \in Attempts, Reap(a) \/ RenameFails(a) PROVE lock'.by = b
  <2>1. CASE RenameAside(a)
    BY <1>0, <2>1 DEF RenameAside, Evicted, Rely
  <2>2. CASE RenameBack(a)
    BY <1>0, <2>2 DEF RenameBack, Evicted, Rely
  <2>3. CASE RenameTooLate(a) \/ Rejudge(a) \/ RenameBackFails(a) \/ RenameFails(a)
    BY <1>0, <2>3 DEF RenameTooLate, Rejudge, RenameBackFails, RenameFails, Rely
  <2>4. CASE Discard(a)
    BY <1>0, <2>4 DEF Discard, Rely
  <2> QED BY <1>2, <2>1, <2>2, <2>3, <2>4 DEF Reap
<1>3. ASSUME NEW a \in Attempts, Own(a) \/ WriteFails(a) \/ AcquireFails(a) PROVE lock'.by = b
  <2>1. CASE WriteOwner(a)
    BY <1>0, <2>1 DEF WriteOwner, Rely, Dirs
  <2>2. CASE WriteNowhere(a) \/ WriteFails(a) \/ AcquireFails(a) \/ ReadBack(a)
    BY <1>0, <2>2 DEF WriteNowhere, WriteFails, AcquireFails, ReadBack, Rely
  <2>3. CASE UndoMkdir(a)
    BY <1>0, <2>3 DEF UndoMkdir, Evicted, Rely
  <2> QED BY <1>3, <2>1, <2>2, <2>3 DEF Own
<1>4. ASSUME NEW a \in Attempts, Release(a) PROVE lock'.by = b
  <2>1. CASE Finish(a) \/ CheckOwner(a)
    BY <1>0, <2>1 DEF Finish, CheckOwner, Rely
  <2>2. CASE RemoveLock(a)
    BY <1>0, <2>2 DEF RemoveLock, Evicted, Rely
  <2> QED BY <1>4, <2>1, <2>2 DEF Release
<1>5. ASSUME NEW p \in Pids, Signal(p) \/ SignalStep(p) \/ Crash(p) PROVE lock'.by = b
  <2>1. CASE Signal(p) \/ SweepCheck(p)
    BY <1>0, <2>1 DEF Signal, SweepCheck, Rely
  <2>2. CASE SweepRemove(p)
    BY <1>0, <2>2 DEF SweepRemove, Evicted, AttemptsOf, Rely
  <2>3. CASE Exit(p) \/ Crash(p)
    BY <1>0, <2>3 DEF Exit, Crash, Rely
  <2> QED BY <1>5, <2>1, <2>2, <2>3 DEF SignalStep
<1>6. CASE Stall
  BY <1>0, <1>6 DEF Stall, Rely, Dirs
<1>7. CASE UNCHANGED vars
  BY <1>0, <1>7 DEF vars, Rely
<1> QED
  BY <1>1, <1>2, <1>3, <1>4, <1>5, <1>6, <1>7 DEF Next, Step

(* Before the first crash, stall or signal no probe says "reap", and the   *)
(* directory a release or a failed acquisition removes is the remover's.   *)
LEMMA FaultFreeStep == TypeOK /\ FaultFree /\ [Next]_vars => FaultFree'
<1> SUFFICES ASSUME TypeOK, FaultFree, [Next]_vars, Calm' PROVE FaultFree'
  BY DEF FaultFree
<1> USE DEF TypeOK, Running, Goto, Reaping, Owning
<1>0. faults \subseteq faults'
  BY DEF Next, Step, vars, Acquire, Mkdir, Contended, Probe, Poll, Deadline,
         Reap, RenameAside, RenameTooLate, RenameFails, Rejudge, RenameBack,
         RenameBackFails, Discard, Own, WriteOwner, WriteNowhere, WriteFails, AcquireFails,
         ReadBack, UndoMkdir, Release, Finish, CheckOwner, RemoveLock,
         Signal, SignalStep, SweepCheck, SweepRemove, Exit, Crash, Stall
<1>1. /\ Calm /\ alive = Pids /\ displaced = {} /\ ~lock.old
      /\ \A p \in Pids : sweep[p] = "idle"
      /\ \A a \in Attempts : pc[a] \notin Reaping
      /\ \A a \in Attempts : pc[a] \in Owning => lock.by = a
  BY <1>0 DEF Calm, FaultFree
<1>2. ASSUME NEW a \in Attempts, Acquire(a) \/ Deadline(a) PROVE FaultFree'
  <2>1. CASE Mkdir(a)
    BY <1>1, <2>1 DEF Mkdir, FaultFree, NoDir
  <2>2. CASE Contended(a) \/ Poll(a) \/ Deadline(a)
    BY <1>1, <2>2 DEF Contended, Poll, Deadline, FaultFree
  <2>3. CASE Probe(a)
    <3>1. lock.rec # None => OwnerAlive(lock)
      BY <1>1 DEF OwnerAlive, Dirs
    <3> QED BY <1>1, <2>3, <3>1 DEF Probe, Verdict, FaultFree
  <2> QED BY <1>2, <2>1, <2>2, <2>3 DEF Acquire
<1>3. ASSUME NEW a \in Attempts, Reap(a) \/ RenameFails(a) PROVE FaultFree'
  BY <1>1, <1>3 DEF Reap, RenameAside, RenameTooLate, RenameFails, Rejudge,
                    RenameBack, RenameBackFails, Discard
<1>4. ASSUME NEW a \in Attempts, Own(a) \/ WriteFails(a) \/ AcquireFails(a) PROVE FaultFree'
  <2>1. CASE WriteOwner(a)
    BY <1>1, <2>1 DEF WriteOwner, FaultFree, Dirs
  <2>2. CASE WriteNowhere(a) \/ WriteFails(a) \/ AcquireFails(a) \/ ReadBack(a)
    BY <1>1, <2>2 DEF WriteNowhere, WriteFails, AcquireFails, ReadBack, FaultFree
  <2>3. CASE UndoMkdir(a)
    BY <1>1, <2>3 DEF UndoMkdir, Evicted, FaultFree, NoDir
  <2> QED BY <1>4, <2>1, <2>2, <2>3 DEF Own
<1>5. ASSUME NEW a \in Attempts, Release(a) PROVE FaultFree'
  <2>1. CASE Finish(a) \/ CheckOwner(a)
    BY <1>1, <2>1 DEF Finish, CheckOwner, FaultFree
  <2>2. CASE RemoveLock(a)
    BY <1>1, <2>2 DEF RemoveLock, Evicted, FaultFree, NoDir
  <2> QED BY <1>5, <2>1, <2>2 DEF Release
<1>6. ASSUME NEW p \in Pids, Signal(p) \/ SignalStep(p) \/ Crash(p) PROVE FaultFree'
  BY <1>1, <1>6 DEF Signal, SignalStep, SweepCheck, SweepRemove, Exit, Crash, Calm
<1>7. CASE Stall
  BY <1>7 DEF Stall, Calm
<1>8. CASE UNCHANGED vars
  BY <1>1, <1>8 DEF vars, FaultFree
<1> QED
  BY <1>2, <1>3, <1>4, <1>5, <1>6, <1>7, <1>8 DEF Next, Step

(* A reaper at "discard" has judged the directory it holds; nobody else      *)
(* touches it, and the dead stay dead.                                     *)
LEMMA DiscardStep == TypeOK /\ NeverDiscardsLiveRecord /\ [Next]_vars => NeverDiscardsLiveRecord'
<1> SUFFICES ASSUME TypeOK, NeverDiscardsLiveRecord, [Next]_vars,
                    NEW b \in Attempts, pc'[b] = "discard"
             PROVE  ~OwnerAlive(aside[b])'
  BY DEF NeverDiscardsLiveRecord
<1> USE DEF TypeOK, Running, Goto, OwnerAlive
<1>1. alive' \subseteq alive
  BY DEF Next, Step, vars, Acquire, Mkdir, Contended, Probe, Poll, Deadline,
         Reap, RenameAside, RenameTooLate, RenameFails, Rejudge, RenameBack,
         RenameBackFails, Discard, Own, WriteOwner, WriteNowhere, WriteFails, AcquireFails,
         ReadBack, UndoMkdir, Release, Finish, CheckOwner, RemoveLock,
         Signal, SignalStep, SweepCheck, SweepRemove, Exit, Crash, Stall
<1>2. CASE pc[b] = "discard" /\ aside'[b] = aside[b]
  BY <1>1, <1>2 DEF NeverDiscardsLiveRecord
<1>3. CASE Rejudge(b)
  BY <1>3 DEF Rejudge
<1>4. (pc[b] = "discard" /\ aside'[b] = aside[b]) \/ Rejudge(b)
  <2>1. ASSUME NEW a \in Attempts, Acquire(a) \/ Deadline(a) \/ AcquireFails(a)
        PROVE  pc[b] = "discard" /\ aside'[b] = aside[b]
    BY <2>1 DEF Acquire, Mkdir, Contended, Probe, Verdict, Poll, Deadline, AcquireFails
  <2>2. ASSUME NEW a \in Attempts, Reap(a) \/ RenameFails(a), ~Rejudge(b)
        PROVE  pc[b] = "discard" /\ aside'[b] = aside[b]
    BY <2>2 DEF Reap, RenameAside, RenameTooLate, RenameFails, Rejudge, RenameBack,
                RenameBackFails, Discard
  <2>3. ASSUME NEW a \in Attempts, Own(a) \/ WriteFails(a) \/ Release(a)
        PROVE  pc[b] = "discard" /\ aside'[b] = aside[b]
    BY <2>3 DEF Own, WriteOwner, WriteNowhere, WriteFails, ReadBack, UndoMkdir,
                Release, Finish, CheckOwner, RemoveLock
  <2>4. ASSUME NEW p \in Pids, Signal(p) \/ SignalStep(p) \/ Crash(p)
        PROVE  pc[b] = "discard" /\ aside'[b] = aside[b]
    BY <2>4 DEF Signal, SignalStep, SweepCheck, SweepRemove, Exit, Crash
  <2>5. CASE Stall \/ UNCHANGED vars
    BY <2>5 DEF Stall, vars
  <2> QED BY <2>1, <2>2, <2>3, <2>4, <2>5 DEF Next, Step
<1> QED BY <1>2, <1>3, <1>4

-----------------------------------------------------------------------------
LEMMA InitIInv == Init => IInv
BY DEF Init, IInv, TypeOK, Dirs, NoDir, PCs, Rely, Relying, FaultFree, Reaping, Owning

(* IInv is inductive. *)
LEMMA StepIInv == IInv /\ [Next]_vars => IInv'
BY TypeStep, RelyStep, FaultFreeStep DEF IInv

LEMMA IInvHolds == Spec => []IInv
BY InitIInv, StepIInv, PTL DEF Spec

(* Every variable of withFileLock keeps its type. *)
THEOREM TypeCorrect == Spec => []TypeOK
BY IInvHolds, PTL DEF IInv

(* Two operations never run under the lock at once before somebody's       *)
(* directory is taken from under them, for any number of processes.        *)
THEOREM Exclusion == Spec => []ExclusiveUntilDisplaced
<1>1. IInv => ExclusiveUntilDisplaced
  BY DEF IInv, TypeOK, Rely, Relying, ExclusiveUntilDisplaced, MutualExclusion,
         Inside, Operating
<1> QED BY <1>1, IInvHolds, PTL

(* Nobody's directory is taken away without a crash, a stall or a signal.  *)
THEOREM Displacement == Spec => []DisplacedOnlyByFault
<1>1. IInv => DisplacedOnlyByFault
  BY DEF IInv, FaultFree, Calm, DisplacedOnlyByFault
<1> QED BY <1>1, IInvHolds, PTL

(* Whatever directory a reaper deletes, no live process's record is in it   *)
(* (reapStaleLock's second look).                                          *)
THEOREM LiveRecordsKept == Spec => []NeverDiscardsLiveRecord
<1>1. Init => NeverDiscardsLiveRecord
  BY DEF Init, NeverDiscardsLiveRecord
<1> QED BY <1>1, IInvHolds, DiscardStep, PTL DEF Spec, IInv

-----------------------------------------------------------------------------
(* The refinement.  Only ReadBack lets an attempt in; every other step      *)
(* leaves the set of insiders as it was or makes it smaller.               *)
LEMMA OnlyReadBackEnters ==
  ASSUME TypeOK, [Next]_vars, ~(\E a \in Attempts : ReadBack(a))
  PROVE  /\ Inside' \subseteq Inside
         /\ faults \subseteq faults' /\ displaced \subseteq displaced'
         /\ faults' = faults \/ displaced' = displaced
<1> USE DEF TypeOK, Inside, Operating, Running, Goto
<1>1. ASSUME NEW a \in Attempts, Acquire(a) \/ Deadline(a)
      PROVE  Inside' \subseteq Inside /\ UNCHANGED <<faults, displaced>>
  BY <1>1 DEF Acquire, Mkdir, Contended, Probe, Verdict, Poll, Deadline
<1>2. ASSUME NEW a \in Attempts, Reap(a)
      PROVE  Inside' \subseteq Inside /\ faults' = faults /\ displaced \subseteq displaced'
  <2>1. CASE RenameAside(a) \/ RenameTooLate(a) \/ Rejudge(a)
    BY <2>1 DEF RenameAside, RenameTooLate, Rejudge
  <2>2. CASE RenameBack(a) \/ RenameBackFails(a) \/ Discard(a)
    BY <2>2 DEF RenameBack, RenameBackFails, Discard
  <2> QED BY <1>2, <2>1, <2>2 DEF Reap
<1>3. ASSUME NEW a \in Attempts, RenameFails(a) \/ WriteFails(a) \/ AcquireFails(a)
      PROVE  Inside' \subseteq Inside /\ faults \subseteq faults' /\ displaced' = displaced
  BY <1>3 DEF RenameFails, WriteFails, AcquireFails
<1>4. ASSUME NEW a \in Attempts, WriteOwner(a) \/ WriteNowhere(a) \/ UndoMkdir(a)
      PROVE  Inside' \subseteq Inside /\ faults' = faults /\ displaced \subseteq displaced'
  BY <1>4 DEF WriteOwner, WriteNowhere, UndoMkdir
<1>5. ASSUME NEW a \in Attempts, Release(a)
      PROVE  Inside' \subseteq Inside /\ faults' = faults /\ displaced \subseteq displaced'
  BY <1>5 DEF Release, Finish, CheckOwner, RemoveLock
<1>6. ASSUME NEW p \in Pids, Signal(p) \/ Crash(p)
      PROVE  Inside' \subseteq Inside /\ faults \subseteq faults' /\ displaced' = displaced
  BY <1>6 DEF Signal, Crash
<1>7. ASSUME NEW p \in Pids, SignalStep(p)
      PROVE  Inside' \subseteq Inside /\ faults' = faults /\ displaced \subseteq displaced'
  BY <1>7 DEF SignalStep, SweepCheck, SweepRemove, Exit
<1>8. CASE Stall
  BY <1>8 DEF Stall
<1>9. CASE UNCHANGED vars
  BY <1>9 DEF vars
<1> QED
  BY <1>1, <1>2, <1>3, <1>4, <1>5, <1>6, <1>7, <1>8, <1>9 DEF Next, Step, Own

(* Whoever enters enters an empty lock, or a broken one. *)
LEMMA ReadBackEnters ==
  ASSUME TypeOK, Rely, NEW a \in Attempts, ReadBack(a)
  PROVE  /\ Inside' = Inside \/ Inside' = Inside \cup {a}
         /\ Inside' # Inside => Inside = {} \/ displaced # {}
         /\ UNCHANGED <<faults, displaced>>
BY DEF TypeOK, Rely, Relying, ReadBack, Inside, Operating, Running, Goto

(* withFileLock implements the lock its callers rely on. *)
THEOREM Refinement == Spec => KeepsPromise
<1>1. Init => Promise!Init
  BY DEF Init, Promise!Init, Inside, Operating
<1>2. IInv /\ IInv' /\ [Next]_vars =>
        [Promise!Next]_<<Inside, faults \cap {"crash", "signal", "stall"} # {}, displaced # {}>>
  <2> SUFFICES ASSUME IInv, IInv', [Next]_vars
               PROVE  [Promise!Next]_<<Inside, faults \cap {"crash", "signal", "stall"} # {}, displaced # {}>>
    OBVIOUS
  <2>1. ASSUME NEW a \in Attempts, ReadBack(a)
        PROVE  [Promise!Next]_<<Inside, faults \cap {"crash", "signal", "stall"} # {}, displaced # {}>>
    BY <2>1, ReadBackEnters DEF IInv, Promise!Next, Promise!Enter
  <2>2. CASE ~(\E a \in Attempts : ReadBack(a))
    <3>1. displaced' # {} => faults' \cap {"crash", "signal", "stall"} # {}
      BY DEF IInv, FaultFree, Calm
    <3> QED
      BY <2>2, <3>1, OnlyReadBackEnters
         DEF IInv, Promise!Next, Promise!Leave, Promise!Fault, Promise!Break
  <2> QED BY <2>1, <2>2
<1> QED
  BY <1>1, <1>2, IInvHolds, PTL DEF Spec, KeepsPromise, Promise!Spec
=============================================================================
