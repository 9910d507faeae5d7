----------------------- MODULE FurnaceMutation_proofs -----------------------
(***************************************************************************)
(* Proofs about FurnaceMutation for any number of processes and any mix of *)
(* faults.  The claim decides who restores: the handler restores or marks  *)
(* what it has claimed (Promise), and whoever restores has claimed, unless *)
(* its body does not ask (Claims).  A process that nobody interrupts       *)
(* (Undisturbed) restores or marks on its own, and holds the lock for as   *)
(* long as its handler has not swept (Covered); a restore that runs on     *)
(* after that was given up and told of before (GivenUp).                   *)
(***************************************************************************)
EXTENDS FurnaceMutation, TLAPS

(* What the handler has claimed is restored, or will be, or it is told.    *)
Promise ==
  \A p \in Procs :
    /\ claim[p] = "handler" /\ engine[p] = "partial" =>
         handler[p] \in {"restoring", "marking"} \/ Told(p)
    /\ exited[p] = "handler" => handler[p] = "exiting"

Claims ==
  \A p \in Procs \ OwnRollback :
    /\ body[p] \in {"restoring", "marking"} => claim[p] = "body"
    /\ handler[p] \in {"restoring", "marking"} => claim[p] = "handler"

(* A process without a signal: nobody but its body claims; a torn engine   *)
(* is being written, being restored, or told of.                           *)
Undisturbed ==
  \A p \in Procs :
    /\ p \in rolling => handler[p] # "none"
    /\ exited[p] \in {"handler", "again"} => handler[p] # "none"
    /\ body[p] = "writing" => p \in journal
    /\ handler[p] = "none" =>
         /\ claim[p] # "handler"
         /\ body[p] \in {"start", "waiting", "running", "writing"} => claim[p] = "free"
         /\ engine[p] # "rewritten"
         /\ engine[p] = "partial" => body[p] \in {"writing", "restoring", "marking"} \/ Told(p)

(* Whoever is inside the wrapper holds its lock until the sweep.           *)
Covered ==
  \A p \in Procs :
    /\ Unswept(p) /\ body[p] \in Active \cup {"returned"} => lock = p
    /\ exited[p] = "main" => body[p] \in {"failed", "succeeded"}

(* A wrapper that lost its restore to the clock tells before it unwinds.   *)
GivenUp ==
  \A p \in late \ OwnRollback :
    /\ claim[p] # "free"
    /\ claim[p] = "body" => \/ body[p] = "marking"
                            \/ body[p] \in {"unwinding", "failed"} /\ Told(p)

USE FurnaceMutationAssumption

LEMMA InitAll == Init => TypeOK /\ Promise /\ Claims /\ Undisturbed /\ Covered /\ GivenUp
<1> SUFFICES ASSUME Init PROVE TypeOK /\ Promise /\ Claims /\ Undisturbed /\ Covered /\ GivenUp
  OBVIOUS
<1>1. TypeOK
  BY DEF Init, TypeOK
<1>2. Promise /\ Claims
  BY DEF Init, Promise, Claims, Told
<1>3. Undisturbed /\ Covered /\ GivenUp
  BY DEF Init, Undisturbed, Covered, GivenUp, Unswept, Told, Live, Active
<1> QED BY <1>1, <1>2, <1>3

LEMMA TypeStep == TypeOK /\ [Next]_vars => TypeOK'
<1> SUFFICES ASSUME TypeOK, [Next]_vars PROVE TypeOK'
  OBVIOUS
<1> USE DEF TypeOK, To, HandlerTo, Active, WriteMarker, repair, signals
<1>1. CASE ReclaimLock
  BY <1>1 DEF ReclaimLock
<1>2. ASSUME NEW p \in Procs, BodyStep(p) PROVE TypeOK'
  <2>1. CASE Preflight(p) \/ Enter(p)
    BY <2>1 DEF Preflight, Enter
  <2>2. CASE RegisterJournal(p) \/ Return(p)
    BY <2>2 DEF RegisterJournal, Return
  <2>3. CASE RestoreByBody(p)
    BY <2>3 DEF RestoreByBody
  <2>4. CASE MarkByBody(p)
    BY <2>4 DEF MarkByBody
  <2>5. CASE Unwind(p) \/ ExitMain(p)
    BY <2>5 DEF Unwind, ExitMain
  <2> QED BY <1>2, <2>1, <2>2, <2>3, <2>4, <2>5 DEF BodyStep
<1>3. ASSUME NEW p \in Procs, HandlerStep(p) PROVE TypeOK'
  <2>1. CASE RestoreByHandler(p)
    <3>1. PICK e \in {"clean", "rewritten"} : engine' = [engine EXCEPT ![p] = e]
      BY <2>1 DEF RestoreByHandler
    <3> QED BY <2>1, <3>1 DEF RestoreByHandler
  <2>2. CASE MarkByHandler(p) \/ Sweep(p)
    BY <2>2 DEF MarkByHandler, Sweep
  <2>3. CASE ExitHandler(p)
    BY <2>3 DEF ExitHandler
  <2> QED BY <1>3, <2>1, <2>2, <2>3 DEF HandlerStep
<1>4. ASSUME NEW p \in Procs, Write(p) \/ Throw(p) \/ RestoreLate(p) PROVE TypeOK'
  BY <1>4 DEF Write, Throw, RestoreLate
<1>5. ASSUME NEW p \in Procs, RestoreByBodyFails(p) \/ RestoreByHandlerFails(p) PROVE TypeOK'
  BY <1>5 DEF RestoreByBodyFails, RestoreByHandlerFails
<1>6. ASSUME NEW p \in Procs, Signal(p) \/ SignalAgain(p) PROVE TypeOK'
  BY <1>6 DEF Signal, SignalAgain
<1>7. CASE UNCHANGED vars
  BY <1>7 DEF vars
<1> QED BY <1>1, <1>2, <1>3, <1>4, <1>5, <1>6, <1>7 DEF Next

LEMMA PromiseStep == TypeOK /\ Promise /\ [Next]_vars => Promise'
<1> SUFFICES ASSUME TypeOK, Promise, [Next]_vars PROVE Promise'
  OBVIOUS
<1> USE DEF TypeOK, Promise, Live, Told, To, HandlerTo, Active, WriteMarker, repair, signals
<1>1. CASE ReclaimLock
  BY <1>1 DEF ReclaimLock
<1>2. ASSUME NEW p \in Procs, BodyStep(p) PROVE Promise'
  BY <1>2 DEF BodyStep, Preflight, Enter, RegisterJournal, Return, RestoreByBody,
              MarkByBody, Unwind, ExitMain
<1>3. ASSUME NEW p \in Procs, HandlerStep(p) PROVE Promise'
  BY <1>3 DEF HandlerStep, RestoreByHandler, MarkByHandler, Sweep, ExitHandler
<1>4. ASSUME NEW p \in Procs, Write(p) \/ Throw(p) \/ RestoreLate(p) PROVE Promise'
  BY <1>4 DEF Write, Throw, RestoreLate, Restored
<1>5. ASSUME NEW p \in Procs, RestoreByBodyFails(p) \/ RestoreByHandlerFails(p) PROVE Promise'
  BY <1>5 DEF RestoreByBodyFails, RestoreByHandlerFails
<1>6. ASSUME NEW p \in Procs, Signal(p) \/ SignalAgain(p) PROVE Promise'
  BY <1>6 DEF Signal, SignalAgain
<1>7. CASE UNCHANGED vars
  BY <1>7 DEF vars
<1> QED BY <1>1, <1>2, <1>3, <1>4, <1>5, <1>6, <1>7 DEF Next

LEMMA ClaimsStep == TypeOK /\ Claims /\ [Next]_vars => Claims'
<1> SUFFICES ASSUME TypeOK, Claims, [Next]_vars PROVE Claims'
  OBVIOUS
<1> USE DEF TypeOK, Claims, To, HandlerTo, Active, WriteMarker, repair, signals
<1>1. CASE ReclaimLock
  BY <1>1 DEF ReclaimLock
<1>2. ASSUME NEW p \in Procs, BodyStep(p) PROVE Claims'
  BY <1>2 DEF BodyStep, Preflight, Enter, RegisterJournal, Return, RestoreByBody,
              MarkByBody, Unwind, ExitMain
<1>3. ASSUME NEW p \in Procs, HandlerStep(p) PROVE Claims'
  BY <1>3 DEF HandlerStep, RestoreByHandler, MarkByHandler, Sweep, ExitHandler
<1>4. ASSUME NEW p \in Procs, Write(p) \/ Throw(p) \/ RestoreLate(p) PROVE Claims'
  BY <1>4 DEF Write, Throw, RestoreLate
<1>5. ASSUME NEW p \in Procs, RestoreByBodyFails(p) \/ RestoreByHandlerFails(p) PROVE Claims'
  BY <1>5 DEF RestoreByBodyFails, RestoreByHandlerFails
<1>6. ASSUME NEW p \in Procs, Signal(p) \/ SignalAgain(p) PROVE Claims'
  BY <1>6 DEF Signal, SignalAgain
<1>7. CASE UNCHANGED vars
  BY <1>7 DEF vars
<1> QED BY <1>1, <1>2, <1>3, <1>4, <1>5, <1>6, <1>7 DEF Next

LEMMA UndisturbedStep == TypeOK /\ Undisturbed /\ [Next]_vars => Undisturbed'
<1> SUFFICES ASSUME TypeOK, Undisturbed, [Next]_vars PROVE Undisturbed'
  OBVIOUS
<1> USE DEF TypeOK, Undisturbed, Live, Told, To, HandlerTo, WriteMarker, repair, signals
<1>1. CASE ReclaimLock
  BY <1>1 DEF ReclaimLock
<1>2. ASSUME NEW p \in Procs, Preflight(p) \/ Enter(p) \/ RegisterJournal(p) \/ Return(p)
      PROVE  Undisturbed'
  BY <1>2 DEF Preflight, Enter, RegisterJournal, Return, Restored
<1>3. ASSUME NEW p \in Procs, RestoreByBody(p) \/ MarkByBody(p) \/ Unwind(p) \/ ExitMain(p)
      PROVE  Undisturbed'
  BY <1>3 DEF RestoreByBody, MarkByBody, Unwind, ExitMain
<1>4. ASSUME NEW p \in Procs, Write(p) \/ RestoreLate(p) PROVE Undisturbed'
  BY <1>4 DEF Write, RestoreLate, Restored
<1>5. ASSUME NEW p \in Procs, Throw(p) PROVE Undisturbed'
  BY <1>5 DEF Throw
<1>6. ASSUME NEW p \in Procs, RestoreByBodyFails(p) \/ RestoreByHandlerFails(p)
      PROVE  Undisturbed'
  BY <1>6 DEF RestoreByBodyFails, RestoreByHandlerFails
<1>7. ASSUME NEW p \in Procs, HandlerStep(p) PROVE Undisturbed'
  BY <1>7 DEF HandlerStep, RestoreByHandler, MarkByHandler, Sweep, ExitHandler
<1>8. ASSUME NEW p \in Procs, Signal(p) \/ SignalAgain(p) PROVE Undisturbed'
  BY <1>8 DEF Signal, SignalAgain, Active
<1>9. CASE UNCHANGED vars
  BY <1>9 DEF vars
<1> QED BY <1>1, <1>2, <1>3, <1>4, <1>5, <1>6, <1>7, <1>8, <1>9 DEF Next, BodyStep

LEMMA CoveredStep == TypeOK /\ Covered /\ [Next]_vars => Covered'
<1> SUFFICES ASSUME TypeOK, Covered, [Next]_vars PROVE Covered'
  OBVIOUS
<1> USE DEF TypeOK, Covered, Unswept, Live, Active, To, HandlerTo, repair, signals
<1>1. CASE ReclaimLock
  BY <1>1 DEF ReclaimLock
<1>2. ASSUME NEW p \in Procs, Preflight(p) \/ Enter(p) \/ RegisterJournal(p) \/ Return(p)
      PROVE  Covered'
  BY <1>2 DEF Preflight, Enter, RegisterJournal, Return
<1>3. ASSUME NEW p \in Procs, RestoreByBody(p) \/ MarkByBody(p) \/ Unwind(p) \/ ExitMain(p)
      PROVE  Covered'
  BY <1>3 DEF RestoreByBody, MarkByBody, Unwind, ExitMain
<1>4. ASSUME NEW p \in Procs,
             Write(p) \/ RestoreLate(p) \/ Throw(p) \/ RestoreByBodyFails(p)
      PROVE  Covered'
  BY <1>4 DEF Write, RestoreLate, Throw, RestoreByBodyFails
<1>5. ASSUME NEW p \in Procs,
             HandlerStep(p) \/ RestoreByHandlerFails(p) \/ Signal(p) \/ SignalAgain(p)
      PROVE  Covered'
  BY <1>5 DEF HandlerStep, RestoreByHandler, MarkByHandler, Sweep, ExitHandler,
              RestoreByHandlerFails, Signal, SignalAgain
<1>6. CASE UNCHANGED vars
  BY <1>6 DEF vars
<1> QED BY <1>1, <1>2, <1>3, <1>4, <1>5, <1>6 DEF Next, BodyStep

LEMMA GivenUpStep == TypeOK /\ Claims /\ GivenUp /\ [Next]_vars => GivenUp'
<1> SUFFICES ASSUME TypeOK, Claims, GivenUp, [Next]_vars PROVE GivenUp'
  OBVIOUS
<1> USE DEF TypeOK, GivenUp, Told, To, HandlerTo, WriteMarker, repair, signals
<1>1. CASE ReclaimLock
  BY <1>1 DEF ReclaimLock
<1>2. ASSUME NEW p \in Procs, Preflight(p) \/ Enter(p) \/ RegisterJournal(p) \/ Return(p)
      PROVE  GivenUp'
  BY <1>2 DEF Preflight, Enter, RegisterJournal, Return
<1>3. ASSUME NEW p \in Procs, RestoreByBody(p) \/ MarkByBody(p) \/ Unwind(p) \/ ExitMain(p)
      PROVE  GivenUp'
  BY <1>3 DEF RestoreByBody, MarkByBody, Unwind, ExitMain
<1>4. ASSUME NEW p \in Procs, Throw(p) PROVE GivenUp'
  BY <1>4 DEF Throw
<1>5. ASSUME NEW p \in Procs, Write(p) \/ RestoreLate(p) \/ RestoreByBodyFails(p)
      PROVE  GivenUp'
  BY <1>5 DEF Write, RestoreLate, RestoreByBodyFails, Claims
<1>6. ASSUME NEW p \in Procs, HandlerStep(p) PROVE GivenUp'
  BY <1>6 DEF HandlerStep, RestoreByHandler, MarkByHandler, Sweep, ExitHandler
<1>7. ASSUME NEW p \in Procs, RestoreByHandlerFails(p) PROVE GivenUp'
  BY <1>7 DEF RestoreByHandlerFails, Claims
<1>8. ASSUME NEW p \in Procs, Signal(p) \/ SignalAgain(p) PROVE GivenUp'
  BY <1>8 DEF Signal, SignalAgain
<1>9. CASE UNCHANGED vars
  BY <1>9 DEF vars
<1> QED BY <1>1, <1>2, <1>3, <1>4, <1>5, <1>6, <1>7, <1>8, <1>9 DEF Next, BodyStep

-----------------------------------------------------------------------------
(* Every variable of a mutation keeps its type, throws, signals and late   *)
(* restores included (runFurnaceMutation).                                 *)
THEOREM TypeCorrect == Spec => []TypeOK
BY InitAll, TypeStep, PTL DEF Spec

(* What the signal handler has claimed it restores, marks or reports,      *)
(* whatever the body does meanwhile.                                       *)
THEOREM HandlerKeepsPromise == Spec => []HandlerRestoresOrMarks
<1>1. TypeOK /\ Promise => HandlerRestoresOrMarks
  BY DEF TypeOK, Promise, HandlerRestoresOrMarks
<1> QED BY <1>1, InitAll, TypeStep, PromiseStep, PTL DEF Spec

(* Unless a body restores its own journal, the claim keeps the two         *)
(* rollback paths apart.                                                   *)
THEOREM ClaimedOnce == Spec => []OneRestorer
<1>1. TypeOK /\ Claims => OneRestorer
  BY DEF TypeOK, Claims, OneRestorer, BodyRestores, HandlerRestores
<1> QED BY <1>1, InitAll, TypeStep, ClaimsStep, PTL DEF Spec

(* No process that was left alone leaves a torn engine behind in silence.  *)
THEOREM ThrowRestores == Spec => []RestoredOrMarked
<1>1. TypeOK /\ Undisturbed /\ Covered => RestoredOrMarked
  BY DEF TypeOK, Undisturbed, Covered, RestoredOrMarked
<1> QED BY <1>1, InitAll, TypeStep, UndisturbedStep, CoveredStep, PTL DEF Spec

(* Until a signal sweep the furnace lock covers the restore of a throw; one *)
(* that timed out runs on when the lock is gone, but then the engine has    *)
(* been marked or the missing marker reported, whoever enters next.         *)
THEOREM ThrowUnderLock == Spec => []RestoreUnderLock
<1>1. TypeOK /\ Covered /\ GivenUp => RestoreUnderLock
  BY DEF TypeOK, Covered, GivenUp, RestoreUnderLock, BodyRestores, Active
<1> QED BY <1>1, InitAll, TypeStep, ClaimsStep, CoveredStep, GivenUpStep, PTL DEF Spec
=============================================================================
