-------------------------- MODULE Workspace_proofs --------------------------
(***************************************************************************)
(* Proofs about the stores of a project, for any processes, files and       *)
(* bounds, by the store: its invariant, the lemmas that every step of it    *)
(* keeps that, and what follows, and at the end the same for MCWorkspace's  *)
(* specification, whose steps are steps of one store.                       *)
(*                                                                         *)
(*   State files  What an update reads, it reads and writes under the lock  *)
(*                (Locked), so it writes back what others have written      *)
(*                (Current); the loads, which read without the lock, only   *)
(*                ever come to quarantine a file that was damaged           *)
(*                (Undamaged), and then what it holds is set aside.         *)
(*   Parks        A hunk that its file does not hold is in a listed park    *)
(*                (Carried): a park is listed once its bodies are there     *)
(*                (Filed), before a file is written (Filing), and written   *)
(*                files keep what was not taken out (Written).              *)
(*   Downloads    The engine is the newest tree (Ordered), a worked-in tree *)
(*                is replaced by agreement only and set aside until the     *)
(*                new one is committed (SetAside), and an engine without a  *)
(*                commit has never been worked in (Unborn).                 *)
(*   Trees        Creation holds the session lock from the copy to the      *)
(*                marker (TreeLocked), so what it has copied the primary    *)
(*                still has (Copying).                                      *)
(*   Import       The gate refuses edits in claimed files (GateHolds); what  *)
(*                an import changes or puts back is in claimed files only    *)
(*                (KeepsClaimed). What is applied is the start of the queue  *)
(*                and is all there (Progress); a file is as the whole queue  *)
(*                or as its applied patches make it (Exact); and a forced    *)
(*                import gets beyond where the last one failed (Recovering). *)
(*                                                                         *)
(* The patch queue's invariant is PatchQueue_proofs'.                        *)
(***************************************************************************)
EXTENDS PatchQueue_proofs, TLAPS, FiniteSetTheorems, SequenceTheorems, WellFoundedInduction

USE StateFileAssumption

-----------------------------------------------------------------------------
(* State files                                                              *)

(* A file that is not JSON has no values, and no process works with a bad one. *)
Plain ==
    /\ file.kind # "json" => file.val = Empty
    /\ \A p \in Procs, d \in Fields : value[p][d] # Bad

Holding(p) ==
    \/ pc[p] \in {"quarantine", "restore", "write"}
    \/ pc[p] \in {"exists", "read"} /\ field[p] # NoField

Locked ==
    \A p \in Procs : /\ Holding(p) => lock = p
                     /\ pc[p] \in {"lock", "write"} => field[p] # NoField
                     /\ pc[p] \in {"idle", "wait"} => field[p] = NoField

(* Before the first damage nobody recovers: a file that was there stays.       *)
Undamaged ==
    ~damaged =>
        /\ file.kind # "garbage" /\ Valid(file.val)
        /\ \A p \in Procs : /\ pc[p] \notin {"wait", "quarantine", "restore"}
                            /\ pc[p] = "read" => file.kind = "json"

Safe(d, v) == last[d] \in {Unset, v} \/ (damaged /\ \E c \in aside : c[d] = last[d])

(* Whoever is about to write has the last updates in hand.                     *)
Current ==
    \A p \in Procs : /\ pc[p] = "restore" => file = Gone
                     /\ pc[p] = "write" => \A d \in Fields : Safe(d, value[p][d])

IInv == TypeOK /\ Plain /\ Locked /\ Undamaged /\ Current /\ UpdateKept

LEMMA SanitizedType ==
    ASSUME NEW v \in Values
    PROVE  Sanitized(v) \in Values /\ \A d \in Fields : Sanitized(v)[d] # Bad
BY DEF Sanitized, Values, Unset, Bad

LEMMA EmptyType == Empty \in Values /\ \A d \in Fields : Empty[d] # Bad
BY DEF Empty, Values, Unset, Bad

(* Handing on a state keeps the types of what a process keeps.                 *)
LEMMA HaveType ==
    ASSUME TypeOK, NEW p \in Procs, NEW v \in Values, Have(p, v)
    PROVE  /\ lock' \in Procs \cup {NoProc}
           /\ pc' \in [Procs -> {"idle", "exists", "lock", "read", "wait", "quarantine",
                                 "restore", "write"}]
           /\ field' \in [Procs -> Fields \cup {NoField}]
           /\ value' \in [Procs -> Values]
BY EmptyType DEF TypeOK, Have, Leave

LEMMA InitIInv == Init => IInv
<1> SUFFICES ASSUME Init PROVE IInv
  OBVIOUS
<1> USE DEF Init
<1>1. TypeOK
  <2>1. file \in Files /\ last \in Values
    BY EmptyType DEF Files, Gone
  <2>2. value \in [Procs -> Values] /\ field \in [Procs -> Fields \cup {NoField}]
    BY EmptyType
  <2>3. updates \in 0 .. MaxUpdates /\ faults \in 0 .. MaxFaults
    OBVIOUS
  <2> QED BY <2>1, <2>2, <2>3 DEF TypeOK
<1>2. Plain /\ Locked
  BY EmptyType DEF Plain, Locked, Holding, Gone
<1>3. Undamaged /\ Current
  BY EmptyType DEF Undamaged, Current, Gone, Valid, Sanitized, Empty, Unset, Bad
<1>4. UpdateKept
  BY DEF UpdateKept, Empty
<1> QED BY <1>1, <1>2, <1>3, <1>4 DEF IInv

(* Every variable keeps its type: one step per action.                         *)
LEMMA TypeStep == TypeOK /\ [Next]_vars => TypeOK'
<1> SUFFICES ASSUME TypeOK, [Next]_vars PROVE TypeOK'
  OBVIOUS
<1> USE EmptyType DEF TypeOK, Files, Gone, Goto, history
<1>1. ASSUME NEW p \in Procs, Load(p) \/ Lock(p) \/ \E d \in Fields : Update(p, d)
      PROVE  TypeOK'
  BY <1>1 DEF Load, Lock, Update
<1>2. ASSUME NEW p \in Procs, Exists(p) PROVE TypeOK'
  BY <1>2, HaveType DEF Exists
<1>3. ASSUME NEW p \in Procs, Read(p) PROVE TypeOK'
  BY <1>3, HaveType, SanitizedType DEF Read, Recover
<1>4. ASSUME NEW p \in Procs, Quarantine(p) PROVE TypeOK'
  BY <1>4, HaveType DEF Quarantine
<1>5. ASSUME NEW p \in Procs, Restore(p) PROVE TypeOK'
  <2>1. value[p] \in Values
    OBVIOUS
  <2> QED BY <1>5, <2>1, HaveType DEF Restore
<1>6. ASSUME NEW p \in Procs, RecoveryFails(p) PROVE TypeOK'
  BY <1>6 DEF RecoveryFails
<1>7. ASSUME NEW p \in Procs, Write(p) PROVE TypeOK'
  <2>1. field[p] \in Fields \cup {NoField} /\ updates' \in Unset .. Bad
    BY <1>7 DEF Write, Unset, Bad
  <2>2. [value[p] EXCEPT ![field[p]] = updates'] \in Values
    BY <2>1 DEF Values
  <2>3. last' \in Values
    BY <1>7, <2>1 DEF Write, Values
  <2>4. updates' \in 0 .. MaxUpdates
    BY <1>7 DEF Write
  <2> QED BY <1>7, <2>2, <2>3, <2>4 DEF Write, Leave
<1>8. ASSUME NEW p \in Procs, Stop(p) PROVE TypeOK'
  BY <1>8 DEF Stop, Leave
<1>9. CASE Damage
  <2>1. file.val \in Values /\ Bad \in Unset .. Bad /\ Unset \in Unset .. Bad
    BY DEF Unset, Bad
  <2>2. file' \in Files
    <3>1. ASSUME NEW d \in Fields PROVE [file.val EXCEPT ![d] = Bad] \in Values
      BY <2>1 DEF Values
    <3>2. ASSUME NEW d \in Fields, file' = [file EXCEPT !.val[d] = Bad] PROVE file' \in Files
      BY <3>1, <3>2
    <3> QED BY <1>9, <3>2 DEF Damage
  <2>3. last' \in Values
    BY <1>9, <2>1 DEF Damage, Values
  <2> QED BY <1>9, <2>2, <2>3 DEF Damage, local
<1>10. CASE UNCHANGED vars
  BY <1>10 DEF vars, local
<1> QED
  BY <1>1, <1>2, <1>3, <1>4, <1>5, <1>6, <1>7, <1>8, <1>9, <1>10 DEF Next

(* Plain, action by action.                                                    *)
LEMMA PlainStep == TypeOK /\ Plain /\ [Next]_vars => Plain'
<1> SUFFICES ASSUME TypeOK, Plain, [Next]_vars PROVE Plain'
  OBVIOUS
<1> USE EmptyType DEF Plain, TypeOK, Goto, history
<1>1. ASSUME NEW p \in Procs, Load(p) \/ Lock(p) \/ \E d \in Fields : Update(p, d)
      PROVE  Plain'
  BY <1>1 DEF Load, Lock, Update
<1>2. ASSUME NEW p \in Procs, NEW v \in Values, \A d \in Fields : v[d] # Bad, Have(p, v)
      PROVE  \A q \in Procs, d \in Fields : value'[q][d] # Bad
  BY <1>2 DEF Have, Leave
<1>3. ASSUME NEW p \in Procs, Exists(p) PROVE Plain'
  BY <1>2, <1>3 DEF Exists
<1>4. ASSUME NEW p \in Procs, Read(p) PROVE Plain'
  <2>1. file.val \in Values
    BY DEF Files
  <2>2. CASE file.kind = "json" /\ Valid(file.val) /\ Have(p, file.val)
    BY <1>2, <1>4, <2>1, <2>2, SanitizedType DEF Read, Valid
  <2>3. ASSUME NEW v \in Values, \A d \in Fields : v[d] # Bad, Recover(p, v) PROVE Plain'
    BY <1>4, <2>3 DEF Read, Recover
  <2> QED BY <1>4, <2>1, <2>2, <2>3, SanitizedType DEF Read
<1>5. ASSUME NEW p \in Procs, Quarantine(p) PROVE Plain'
  BY <1>2, <1>5 DEF Quarantine, Gone
<1>6. ASSUME NEW p \in Procs, Restore(p) PROVE Plain'
  <2>1. value[p] \in Values /\ \A d \in Fields : value[p][d] # Bad
    OBVIOUS
  <2> QED BY <1>2, <1>6, <2>1 DEF Restore
<1>7. ASSUME NEW p \in Procs, RecoveryFails(p) PROVE Plain'
  BY <1>7 DEF RecoveryFails
<1>8. ASSUME NEW p \in Procs, Write(p) \/ Stop(p) PROVE Plain'
  BY <1>8 DEF Write, Stop, Leave
<1>9. CASE Damage
  BY <1>9 DEF Damage, local, Files
<1>10. CASE UNCHANGED vars
  BY <1>10 DEF vars, local
<1> QED
  BY <1>1, <1>3, <1>4, <1>5, <1>6, <1>7, <1>8, <1>9, <1>10 DEF Next

(* The lock is held wherever a process would be hurt by another one's write.    *)
LEMMA LockedStep == TypeOK /\ Locked /\ [Next]_vars => Locked'
<1> SUFFICES ASSUME TypeOK, Locked, [Next]_vars PROVE Locked'
  OBVIOUS
<1> USE DEF Locked, Holding, TypeOK, Goto, history
<1>1. ASSUME NEW p \in Procs, Load(p) \/ Lock(p) PROVE Locked'
  BY <1>1 DEF Load, Lock
<1>2. ASSUME NEW p \in Procs, NEW d \in Fields, Update(p, d) PROVE Locked'
  BY <1>2 DEF Update
<1>3. ASSUME NEW p \in Procs, Leave(p) PROVE Locked'
  BY <1>3 DEF Leave
<1>4. ASSUME NEW p \in Procs, NEW v, Have(p, v),
             pc[p] \in {"exists", "read", "quarantine", "restore"}
      PROVE  Locked'
  BY <1>3, <1>4 DEF Have
<1>5. ASSUME NEW p \in Procs, Exists(p) PROVE Locked'
  BY <1>4, <1>5 DEF Exists
<1>6. ASSUME NEW p \in Procs, Read(p) PROVE Locked'
  <2>1. ASSUME NEW v, Recover(p, v) PROVE Locked'
    BY <1>6, <2>1 DEF Read, Recover
  <2>2. ASSUME NEW v, Have(p, v) PROVE Locked'
    BY <1>4, <1>6, <2>2 DEF Read
  <2> QED BY <1>6, <2>1, <2>2 DEF Read
<1>7. ASSUME NEW p \in Procs, Quarantine(p) \/ Restore(p) PROVE Locked'
  BY <1>4, <1>7 DEF Quarantine, Restore
<1>8. ASSUME NEW p \in Procs, RecoveryFails(p) PROVE Locked'
  BY <1>8 DEF RecoveryFails
<1>9. ASSUME NEW p \in Procs, Write(p) \/ Stop(p) PROVE Locked'
  BY <1>3, <1>9 DEF Write, Stop
<1>10. CASE Damage \/ UNCHANGED vars
  BY <1>10 DEF Damage, vars, local
<1> QED
  BY <1>1, <1>2, <1>5, <1>6, <1>7, <1>8, <1>9, <1>10 DEF Next

(* Only damage sends a process into a recovery.                                 *)
LEMMA UndamagedStep == TypeOK /\ Plain /\ Undamaged /\ [Next]_vars => Undamaged'
<1> SUFFICES ASSUME TypeOK, Plain, Undamaged, [Next]_vars, ~damaged' PROVE Undamaged'
  BY DEF Undamaged
<1>1. ~damaged /\ ~Damage
  BY DEF Next, Load, Update, Lock, Exists, Read, Quarantine, Restore, RecoveryFails, Write,
         Stop, Damage, vars, history
<1> USE <1>1 DEF Undamaged, TypeOK, Goto, history
<1>2. ASSUME NEW p \in Procs, Load(p) \/ Lock(p) \/ \E d \in Fields : Update(p, d)
      PROVE  Undamaged'
  BY <1>2 DEF Load, Lock, Update
<1>3. ASSUME NEW p \in Procs, Exists(p) PROVE Undamaged'
  <2>1. file # Gone => file.kind = "json"
    BY DEF Gone, Plain, Files
  <2> QED BY <1>3, <2>1 DEF Exists, Have, Leave
<1>4. ASSUME NEW p \in Procs, Read(p) PROVE Undamaged'
  BY <1>4 DEF Read, Have, Leave
<1>5. ASSUME NEW p \in Procs, Write(p) PROVE Undamaged'
  <2>1. updates' # Bad /\ value[p] \in Values
    BY <1>5 DEF Write, Bad
  <2>2. \A d \in Fields : [value[p] EXCEPT ![field[p]] = updates'][d] # Bad
    BY <2>1 DEF Plain, Values
  <2>3. file'.kind = "json" /\ Valid(file'.val)
    BY <1>5, <2>1, <2>2 DEF Write, Valid, Sanitized, Values
  <2> QED BY <1>5, <2>3 DEF Write, Leave
<1>6. ASSUME NEW p \in Procs, Stop(p) PROVE Undamaged'
  BY <1>6 DEF Stop, Leave
<1>7. CASE UNCHANGED vars
  BY <1>7 DEF vars, local
<1> QED
  BY <1>2, <1>3, <1>4, <1>5, <1>6, <1>7 DEF Next, Quarantine, Restore, RecoveryFails

(* An update that is about to write has what was written last: it read it, or   *)
(* recovered it, under the lock.                                                *)
LEMMA CurrentStep ==
    TypeOK /\ Plain /\ Locked /\ Undamaged /\ Current /\ UpdateKept /\ [Next]_vars
    => Current' /\ UpdateKept'
<1> SUFFICES ASSUME TypeOK, Plain, Locked, Undamaged, Current, UpdateKept, [Next]_vars
             PROVE  Current' /\ UpdateKept'
  OBVIOUS
<1> USE DEF TypeOK, Current, Safe, UpdateKept, Goto, history
(* A process that hands on what the file holds.                                 *)
<1>1. ASSUME NEW p \in Procs, NEW v \in Values, Have(p, v), UNCHANGED history,
             aside \subseteq aside', \A d \in Fields : Safe(d, v[d]),
             UpdateKept', \A q \in Procs : pc'[q] = "restore" => file' = Gone
      PROVE  Current' /\ UpdateKept'
  <2>1. last' = last /\ damaged' = damaged /\ aside \subseteq aside'
    BY <1>1
  <2>2. ASSUME NEW q \in Procs, pc'[q] = "write", NEW d \in Fields
        PROVE  Safe(d, value[q][d])'
    <3>1. CASE q = p
      BY <1>1, <2>1, <2>2, <3>1 DEF Have, Leave
    <3>2. CASE q # p
      BY <1>1, <2>1, <2>2, <3>2 DEF Have, Leave
    <3> QED BY <3>1, <3>2
  <2> QED BY <1>1, <2>2
<1>2. ASSUME NEW p \in Procs, Load(p) \/ Lock(p) \/ \E d \in Fields : Update(p, d)
      PROVE  Current' /\ UpdateKept'
  BY <1>2 DEF Load, Lock, Update
<1>3. ASSUME NEW p \in Procs, Exists(p) PROVE Current' /\ UpdateKept'
  <2>1. CASE file = Gone /\ Have(p, Empty)
    <3>1. \A d \in Fields : Safe(d, Empty[d])
      BY <2>1 DEF Gone
    <3> QED BY <1>1, <1>3, <2>1, <3>1, EmptyType DEF Exists, Have, Leave
  <2>2. CASE file # Gone
    BY <1>3, <2>2 DEF Exists
  <2> QED BY <1>3, <2>1, <2>2 DEF Exists
<1>4. ASSUME NEW p \in Procs, Read(p) PROVE Current' /\ UpdateKept'
  <2>1. CASE Have(p, file.val)
    BY <1>1, <1>4, <2>1 DEF Read, Have, Leave, Files
  <2>2. ASSUME NEW v, Recover(p, v) PROVE Current' /\ UpdateKept'
    BY <1>4, <2>2 DEF Read, Recover
  <2> QED BY <1>4, <2>1, <2>2 DEF Read
<1>5. ASSUME NEW p \in Procs, Quarantine(p) PROVE Current' /\ UpdateKept'
  <2>1. damaged
    BY <1>5 DEF Quarantine, Undamaged
  <2>2. \A d \in Fields : last[d] = Unset \/ \E c \in aside' : c[d] = last[d]
    BY <1>5, <2>1 DEF Quarantine, Plain, Empty, Unset
  <2>3. UNCHANGED history /\ aside \subseteq aside' /\ file' = Gone
    BY <1>5 DEF Quarantine
  <2>4. UpdateKept'
    BY <2>1, <2>2, <2>3
  <2>5. \A q \in Procs : q # p => value'[q] = value[q] /\ pc'[q] = pc[q]
    BY <1>5 DEF Quarantine, Have, Leave
  <2>6. \A q \in Procs, d \in Fields : Safe(d, value[q][d])'
    BY <2>1, <2>2, <2>3
  <2> QED BY <2>3, <2>4, <2>1, <2>2
<1>6. ASSUME NEW p \in Procs, Restore(p) PROVE Current' /\ UpdateKept'
  <2>1. file = Gone /\ file'.val = value[p]
    BY <1>6 DEF Restore
  <2>2. \A d \in Fields : last[d] = Unset \/ (damaged /\ \E c \in aside : c[d] = last[d])
    BY <2>1 DEF Gone, Empty, Unset
  <2>3. UNCHANGED <<history, aside>>
    BY <1>6 DEF Restore
  <2>4. \A q \in Procs : pc'[q] # "restore"
    BY <1>6 DEF Restore, Have, Leave, Locked, Holding
  <2> QED BY <2>2, <2>3, <2>4
<1>7. ASSUME NEW p \in Procs, RecoveryFails(p) PROVE Current' /\ UpdateKept'
  BY <1>7 DEF RecoveryFails
<1>8. ASSUME NEW p \in Procs, Write(p) PROVE Current' /\ UpdateKept'
  <2>1. \A q \in Procs : pc'[q] \notin {"restore", "write"}
    BY <1>8 DEF Write, Leave, Locked, Holding
  <2>2. \A d \in Fields : file'.val[d] = IF d = field[p] THEN updates' ELSE value[p][d]
    BY <1>8 DEF Write, Values
  <2>3. \A d \in Fields : last'[d] = IF d = field[p] THEN updates' ELSE last[d]
    BY <1>8 DEF Write, Values
  <2>4. UNCHANGED <<aside, damaged>>
    BY <1>8 DEF Write
  <2> QED BY <1>8, <2>1, <2>2, <2>3, <2>4 DEF Write
<1>9. ASSUME NEW p \in Procs, Stop(p) PROVE Current' /\ UpdateKept'
  BY <1>9 DEF Stop, Leave
<1>10. CASE Damage
  <2>1. damaged' /\ UNCHANGED <<aside, pc, value>> /\ file.kind = "json"
    BY <1>10 DEF Damage, local
  <2>2. \A d \in Fields : last'[d] \in {Unset, last[d]}
    BY <1>10 DEF Damage, Values, Empty
  <2>3. \A d \in Fields : last'[d] = Unset \/ file'.val[d] = file.val[d]
    BY <1>10 DEF Damage, Values, Files, Empty
  <2>4. \A q \in Procs : pc[q] # "restore"
    BY <2>1 DEF Gone
  <2> QED BY <2>1, <2>2, <2>3, <2>4
<1>11. CASE UNCHANGED vars
  BY <1>11 DEF vars, local
<1> QED
  BY <1>2, <1>3, <1>4, <1>5, <1>6, <1>7, <1>8, <1>9, <1>10, <1>11 DEF Next

LEMMA StepIInv == IInv /\ [Next]_vars => IInv'
BY TypeStep, PlainStep, LockedStep, UndamagedStep, CurrentStep DEF IInv

-----------------------------------------------------------------------------
(* Every variable of a state file keeps its type, whoever loads, updates,       *)
(* recovers or dies (config-state.ts loadState, updateState).                   *)
THEOREM TypeCorrect == Spec => []TypeOK
<1>1. IInv => TypeOK
  BY DEF IInv
<1> QED
  BY <1>1, InitIInv, StepIInv, PTL DEF Spec

(* No completed update is lost, however loads that read without the lock and    *)
(* recoveries interleave with updates (updateState, recoverInvalidProjectState). *)
THEOREM UpdatesKept == Spec => []UpdateKept
<1>1. IInv => UpdateKept
  BY DEF IInv
<1> QED
  BY <1>1, InitIInv, StepIInv, PTL DEF Spec

-----------------------------------------------------------------------------
(* Parks                                                                    *)

(* Every file has one body, and none brings hunks of its own back.          *)
Single(P)  == \A b, c \in P : b.path = c.path => b = c
Orderly(P) == \A b \in P : b.after \cap Hunks \subseteq b.before

Bodied ==
    /\ Single(plan) /\ (mode = "park" => Orderly(plan))
    /\ \A l \in Labels : Single(parks[l].bodies) /\ Orderly(parks[l].bodies)

(* A park is listed when its bodies are there, and not before.              *)
Filed ==
    /\ \A l \in Labels : /\ ~parks[l].there => parks[l] = Park!NoPark
                         /\ parks[l].listed => Park!Paths(parks[l].bodies) \subseteq parks[l].index
    /\ step = "bodies" => ~parks[label].listed /\ parks[label].bodies \subseteq plan \ todo
    /\ step \in {"check", "bodies"} => mode = "park"
    /\ step = "check" => todo = plan
    /\ step = "drop" => mode = "restore"

ParkKept       == made \ praced
Held(e)    == e[2] \in source[e[1]]
Carries(l, e) ==
    /\ Park!Readable(l)
    /\ \E b \in parks[l].bodies : b.path = e[1] /\ e[2] \in b.before \ b.after

(* What is neither held nor carried is gone: a park carries what it took out. *)
Carried == \A e \in ParkKept : Held(e) \/ \E l \in Labels : Carries(l, e)

(* What a file in the command's hands holds has been read, ...              *)
Taken ==
    step \in {"check", "bodies"} =>
        \A b \in plan, e \in ParkKept : e[1] = b.path /\ Held(e) => e[2] \in b.before

(* ... is in its park, unless the park has been dropped, ...                *)
Filing ==
    /\ step = "bodies" => \/ plan \ todo \subseteq parks[label].bodies
                          \/ Park!HunksOf(plan) \cap ParkKept = {}
    /\ step = "write" /\ mode = "park" =>
          \/ Park!Readable(label) /\ plan \subseteq parks[label].bodies
          \/ Park!HunksOf(todo) \cap ParkKept = {}

(* ... and is written back or stays in the park.                            *)
Written ==
    step = "write" =>
        \A b \in todo, e \in ParkKept :
            e[1] = b.path /\ Held(e) => e[2] \in b.after \/ (mode = "park" /\ e[2] \in b.before)

(* A restoration needs its own park no more for what it has written.        *)
Restored ==
    mode = "restore" =>
        \A e \in ParkKept :
            \/ Held(e)
            \/ \E l \in Labels \ {label} : Carries(l, e)
            \/ step = "write" /\ \E b \in todo : b.path = e[1] /\ e[2] \in b.before \cap b.after

(* The invariant of the parks.                                              *)
ParkInv == Park!TypeOK /\ Bodied /\ Filed /\ Carried /\ Taken /\ Filing /\ Written /\ Restored

-----------------------------------------------------------------------------

(* The absent content holds no hunk, and no park is one of its type.        *)
LEMMA Baseline ==
    ASSUME ParkBounds
    PROVE  \A x \in PatchFiles : Park!Base(x) \in Park!Contents /\ Park!Base(x) \cap Hunks = {}
<1>1. Park!Absent \cap Hunks = {}
  BY DEF Park!Absent, ParkBounds
<1>2. Park!Absent \in Park!Contents /\ {} \in Park!Contents
  BY DEF Park!Contents
<1>3. \A x \in PatchFiles : Park!Base(x) = Park!Absent \/ Park!Base(x) = {}
  BY DEF Park!Base
<1> QED BY <1>1, <1>2, <1>3

(* At first nothing is parked.                                              *)
LEMMA ParkInitInv ==
    ASSUME ParkBounds
    PROVE  Park!Init => ParkInv
<1> SUFFICES ASSUME Park!Init PROVE ParkInv
  OBVIOUS
<1> USE DEF Park!Init, ParkBounds
<1>1. Park!TypeOK
  <2>1. \A x \in PatchFiles : Park!Base(x) \in Park!Contents
    BY Baseline
  <2>2. Park!NoPark \in [there : BOOLEAN, bodies : SUBSET Park!Bodies,
                         listed : BOOLEAN, index : SUBSET PatchFiles]
    BY DEF Park!NoPark
  <2> QED BY <2>1, <2>2 DEF Park!TypeOK
<1>2. Bodied /\ Filed /\ Carried /\ Taken /\ Filing /\ Written /\ Restored
  BY DEF Bodied, Filed, Carried, Taken, Filing, Written, Restored, Single, Orderly, Park!NoPark,
     ParkKept, Park!Paths
<1> QED BY <1>1, <1>2 DEF ParkInv

(* planPark: one body for each file, which holds what is read and keeps what *)
(* stays.                                                                   *)
LEMMA Parking ==
    ASSUME ParkBounds, Park!TypeOK, NEW l \in Labels, Park!Park(l)
    PROVE  /\ plan' \subseteq Park!Bodies /\ Single(plan') /\ Orderly(plan')
           /\ \A b \in plan' : b.before = source[b.path]
           /\ todo' = plan' /\ mode' = "park" /\ label' = l /\ UNCHANGED <<Park!record, Park!past>>
<1> USE DEF ParkBounds, Park!TypeOK, Park!Begin
<1>1. \A x \in PatchFiles : Park!Base(x) \in Park!Contents /\ Park!Base(x) \cap Hunks = {}
  BY Baseline
<1>2. CASE Park!Begin(l, "park", Park!Drifted)
  BY <1>1, <1>2 DEF Park!Drifted, Single, Orderly, Park!Bodies
<1>3. ASSUME NEW x \in PatchFiles, NEW H \in SUBSET (source[x] \cap Hunks) \ {{}},
             Park!Begin(l, "park", {[path |-> x, before |-> source[x], after |-> source[x] \ H]})
      PROVE  /\ plan' \subseteq Park!Bodies /\ Single(plan') /\ Orderly(plan')
             /\ \A b \in plan' : b.before = source[b.path]
  <2>1. source[x] \ H \in Park!Contents
    BY DEF Park!Contents, Park!Absent
  <2> QED BY <1>3, <2>1 DEF Single, Orderly, Park!Bodies
<1> QED BY <1>2, <1>3 DEF Park!Park

(* mergeThreeWay: nothing the file holds is lost, and without a conflict     *)
(* nothing the park took out.                                               *)
LEMMA Merging ==
    ASSUME ParkBounds, Park!TypeOK, NEW c \in Park!Bodies, c.after \cap Hunks \subseteq c.before,
           NEW clash, c \in clash => Park!Merges(c) /\ ~Park!Fails(c)
    PROVE  /\ Park!Content(c, clash) \in Park!Contents
           /\ source[c.path] \cap Hunks \subseteq Park!Content(c, clash)
           /\ c \notin clash
                /\ ~Park!Fails(c) => c.before \ c.after \subseteq Park!Content(c, clash)
BY DEF Park!Content, Park!Fails, Park!Merges, Park!Merged, Park!TypeOK, Park!Bodies, Park!Contents,
   Park!Absent, ParkBounds

(* planRestore: one body for each file of the park, merged with what it
   holds now.                                                               *)
LEMMA Restoring ==
    ASSUME ParkBounds, Park!TypeOK, Bodied, Filed, NEW l \in Labels, Park!Restore(l)
    PROVE  /\ plan' \subseteq Park!Bodies /\ Single(plan') /\ todo' = plan'
           /\ mode' \in {"restore", "conflict"} /\ label' = l /\ step' = "write"
           /\ Park!Readable(l) /\ UNCHANGED <<Park!record, Park!past>>
           /\ \A b \in plan' : source[b.path] \cap Hunks \subseteq b.after
           /\ mode' = "restore" =>
                \A c \in parks[l].bodies : \E b \in plan' :
                    b.path = c.path /\ c.before \ c.after \subseteq b.before \cap b.after
<1> DEFINE B == {b \in parks[l].bodies : b.path \in parks[l].index}
<1>1. PICK clash \in SUBSET {b \in B : Park!Merges(b) /\ ~Park!Fails(b)} :
          Park!Begin(l, IF clash # {} \/ \E b \in B : Park!Fails(b) THEN "conflict" ELSE "restore",
                {[b EXCEPT !.after = Park!Content(b, clash)] : b \in B})
  BY DEF Park!Restore
<1>2. \A c \in B : /\ c \in Park!Bodies /\ Park!Content(c, clash) \in Park!Contents
                   /\ source[c.path] \cap Hunks \subseteq Park!Content(c, clash)
                   /\ c \notin clash
                        /\ ~Park!Fails(c) => c.before \ c.after \subseteq Park!Content(c, clash)
  <2> SUFFICES ASSUME NEW c \in B
               PROVE  /\ c \in Park!Bodies /\ Park!Content(c, clash) \in Park!Contents
                      /\ source[c.path] \cap Hunks \subseteq Park!Content(c, clash)
                      /\ c \notin clash
                           /\ ~Park!Fails(c) => c.before \ c.after \subseteq Park!Content(c, clash)
    OBVIOUS
  <2>1. c \in Park!Bodies /\ c.after \cap Hunks \subseteq c.before
    BY DEF Park!TypeOK, Bodied, Orderly
  <2>2. c \in clash => Park!Merges(c) /\ ~Park!Fails(c)
    OBVIOUS
  <2> HIDE DEF B
  <2> QED BY <2>1, <2>2, Merging
<1>3. B = parks[l].bodies
  BY DEF Park!Restore, Park!Readable, Filed, Park!Paths
<1>4. plan' = {[b EXCEPT !.after = Park!Content(b, clash)] : b \in B} /\ todo' = plan' /\ label' = l
  BY <1>1 DEF Park!Begin
<1>5. mode' = IF clash # {} \/ \E b \in B : Park!Fails(b) THEN "conflict" ELSE "restore"
  BY <1>1 DEF Park!Begin
<1>6. Single(B)
  BY <1>3 DEF Bodied
<1> HIDE DEF B
<1>7. plan' \subseteq Park!Bodies /\ Single(plan')
  BY <1>2, <1>4, <1>6 DEF Park!Bodies, Single
<1>8. \A b \in plan' : source[b.path] \cap Hunks \subseteq b.after
  BY <1>2, <1>4 DEF Park!Bodies
<1>9. ASSUME mode' = "restore", NEW c \in B
      PROVE  \E b \in plan' : b.path = c.path /\ c.before \ c.after \subseteq b.before \cap b.after
  <2>1. c \notin clash /\ ~Park!Fails(c)
    BY <1>5, <1>9
  <2>2. [c EXCEPT !.after = Park!Content(c, clash)] \in plan'
    BY <1>4
  <2> QED BY <1>2, <2>1, <2>2 DEF Park!Bodies
<1> QED BY <1>1, <1>3, <1>4, <1>5, <1>7, <1>8, <1>9 DEF Park!Begin, Park!Restore

(* Whoever edits a file in the command's hands makes an edit that is raced.  *)
LEMMA Editing ==
    ASSUME ParkBounds, Park!TypeOK, NEW x \in PatchFiles, NEW h \in Hunks, Park!Edit(x, h)
    PROVE  /\ \A e \in ParkKept' : \/ e \in ParkKept /\ (Held(e)' <=> Held(e))
                                   \/ e[1] = x /\ ~Park!Pending(x) /\ Held(e)'
           /\ source' \in [PatchFiles -> Park!Contents]
           /\ made' \subseteq PatchFiles \X Hunks /\ praced' \subseteq PatchFiles \X Hunks
           /\ UNCHANGED <<parks, step, Park!plans, todo, runs, pstops>>
<1> USE DEF ParkKept, Held
<1>1. Park!Absent \cap Hunks = {}
  BY DEF Park!Absent, ParkBounds
<1>2. CASE h \in source[x]
  <2>1. source[x] \in SUBSET Hunks
    BY <1>1, <1>2 DEF Park!TypeOK, Park!Contents
  <2> QED BY <1>2, <2>1 DEF Park!Edit, Park!TypeOK, Park!Contents
<1>3. CASE h \notin source[x]
  <2>1. (source[x] \ Park!Absent) \cup {h} \in SUBSET Hunks
    BY <1>1 DEF Park!TypeOK, Park!Contents
  <2>2. source' = [source EXCEPT ![x] = (source[x] \ Park!Absent) \cup {h}]
    BY <1>3 DEF Park!Edit
  <2>3. source' \in [PatchFiles -> Park!Contents]
    BY <2>1, <2>2 DEF Park!TypeOK, Park!Contents
  <2>4. made' = made \cup {<<x, h>>}
        /\ praced' = IF Park!Pending(x) THEN praced \cup {<<x, h>>} ELSE praced \ {<<x, h>>}
    BY <1>3 DEF Park!Edit
  <2>5. \A e \in ParkKept : Held(e)' <=> (Held(e) \/ e = <<x, h>>)
    BY <1>1, <2>2 DEF Park!TypeOK
  <2> QED BY <2>2, <2>3, <2>4, <2>5 DEF Park!Edit, Park!TypeOK
<1> QED BY <1>2, <1>3

(* What a written file holds is what its body says.                         *)
LEMMA Writing ==
    ASSUME Park!TypeOK, NEW b \in todo, Park!WriteEngineFile(b)
    PROVE  /\ ParkKept' = ParkKept /\ UNCHANGED <<parks, step, Park!plans, Park!past, Park!bounds>>
           /\ todo' = todo \ {b} /\ source' \in [PatchFiles -> Park!Contents] /\ b \in Park!Bodies
           /\ \A e \in ParkKept : Held(e)' <=> IF e[1] = b.path THEN e[2] \in b.after ELSE Held(e)
BY DEF Park!WriteEngineFile, Park!TypeOK, Park!Bodies, ParkKept, Held, Park!past

(* What writing one body, and the index, does to the park.                  *)
LEMMA Bodying ==
    ASSUME Park!TypeOK, NEW b \in todo, Park!Body(b)
    PROVE  /\ step = "bodies" /\ todo' = todo \ {b} /\ b \in Park!Bodies
           /\ UNCHANGED <<source, step, Park!plans, Park!past, Park!bounds>>
           /\ parks' \in [Labels -> [there : BOOLEAN, bodies : SUBSET Park!Bodies, listed : BOOLEAN,
                                     index : SUBSET PatchFiles]]
           /\ \A l \in Labels \ {label} : parks'[l] = parks[l]
           /\ parks'[label].there
           /\ parks'[label].bodies = {c \in parks[label].bodies : c.path # b.path} \cup {b}
           /\ parks'[label].listed = parks[label].listed /\ parks'[label].index = parks[label].index
<1> DEFINE B == {c \in parks[label].bodies : c.path # b.path} \cup {b}
<1>1. parks' = [parks EXCEPT ![label] = [@ EXCEPT !.there = TRUE, !.bodies = B]]
  BY DEF Park!Body
<1>2. b \in Park!Bodies /\ B \in SUBSET Park!Bodies /\ label \in Labels
  BY DEF Park!TypeOK
<1> HIDE DEF B
<1>3. parks[label] \in [there : BOOLEAN, bodies : SUBSET Park!Bodies,
                        listed : BOOLEAN, index : SUBSET PatchFiles]
  BY DEF Park!TypeOK
<1>4. /\ parks'[label] = [parks[label] EXCEPT !.there = TRUE, !.bodies = B]
      /\ \A l \in Labels \ {label} : parks'[l] = parks[l]
      /\ parks' = [parks EXCEPT ![label] = parks'[label]]
  BY <1>1, <1>2 DEF Park!TypeOK
<1>5. /\ parks'[label] \in [there : BOOLEAN, bodies : SUBSET Park!Bodies,
                            listed : BOOLEAN, index : SUBSET PatchFiles]
      /\ parks'[label].there /\ parks'[label].bodies = B
      /\ parks'[label].listed = parks[label].listed /\ parks'[label].index = parks[label].index
  BY <1>2, <1>3, <1>4
<1>6. parks' \in [Labels -> [there : BOOLEAN, bodies : SUBSET Park!Bodies, listed : BOOLEAN,
                            index : SUBSET PatchFiles]]
  BY <1>2, <1>4, <1>5 DEF Park!TypeOK
<1> QED BY Zenon, <1>2, <1>4, <1>5, <1>6 DEF Park!Body, B

(* A listed park indexes the bodies it has.                                 *)
LEMMA Indexing ==
    ASSUME Park!TypeOK, Park!Index
    PROVE  /\ step = "bodies" /\ todo = {} /\ step' = "write" /\ todo' = plan
           /\ UNCHANGED <<source, Park!plans, Park!past, Park!bounds>>
           /\ parks' \in [Labels -> [there : BOOLEAN, bodies : SUBSET Park!Bodies, listed : BOOLEAN,
                                     index : SUBSET PatchFiles]]
           /\ \A l \in Labels \ {label} : parks'[l] = parks[l]
           /\ parks'[label].there /\ parks'[label].listed /\ parks'[label].index = Park!Paths(plan)
           /\ parks'[label].bodies = parks[label].bodies
<1>1. parks' = [parks EXCEPT ![label] =
                  [@ EXCEPT !.there = TRUE, !.listed = TRUE, !.index = Park!Paths(plan)]]
  BY DEF Park!Index
<1>2. Park!Paths(plan) \in SUBSET PatchFiles /\ label \in Labels
  BY DEF Park!TypeOK, Park!Paths, Park!Bodies
<1>3. parks[label] \in [there : BOOLEAN, bodies : SUBSET Park!Bodies,
                        listed : BOOLEAN, index : SUBSET PatchFiles]
  BY DEF Park!TypeOK
<1>4. /\ parks'[label] =
            [parks[label] EXCEPT !.there = TRUE, !.listed = TRUE, !.index = Park!Paths(plan)]
      /\ \A l \in Labels \ {label} : parks'[l] = parks[l]
      /\ parks' = [parks EXCEPT ![label] = parks'[label]]
  BY <1>1, <1>2 DEF Park!TypeOK
<1>5. /\ parks'[label] \in [there : BOOLEAN, bodies : SUBSET Park!Bodies,
                            listed : BOOLEAN, index : SUBSET PatchFiles]
      /\ parks'[label].there /\ parks'[label].listed /\ parks'[label].index = Park!Paths(plan)
      /\ parks'[label].bodies = parks[label].bodies
  BY <1>2, <1>3, <1>4
<1>6. parks' \in [Labels -> [there : BOOLEAN, bodies : SUBSET Park!Bodies, listed : BOOLEAN,
                            index : SUBSET PatchFiles]]
  BY <1>2, <1>4, <1>5 DEF Park!TypeOK
<1> QED BY <1>2, <1>4, <1>5, <1>6 DEF Park!Index

(* Every variable of the parks keeps its type, ...                          *)
LEMMA ParkTypeStep ==
    ASSUME ParkBounds, Park!TypeOK, Bodied, Filed, [Park!Next]_(Park!vars)
    PROVE  Park!TypeOK'
<1> USE DEF ParkBounds, Park!TypeOK, Park!record, Park!plans, Park!past, Park!bounds
<1>1. ASSUME NEW l \in Labels, Park!Park(l) PROVE Park!TypeOK'
  <2>1. step' = "check" /\ runs' = runs + 1 /\ runs < MaxCommands /\ UNCHANGED <<edits, pstops>>
    BY <1>1 DEF Park!Park, Park!Begin
  <2> QED BY <1>1, <2>1, Parking
<1>2. ASSUME NEW l \in Labels, Park!Restore(l) PROVE Park!TypeOK'
  <2>1. runs' = runs + 1 /\ runs < MaxCommands /\ UNCHANGED <<edits, pstops>>
    BY <1>2 DEF Park!Restore, Park!Begin
  <2> QED BY <1>2, <2>1, Restoring
<1>3. ASSUME NEW l \in Labels, Park!Drop(l) PROVE Park!TypeOK'
  BY <1>3 DEF Park!Drop, Park!NoPark
<1>4. ASSUME NEW b \in todo, Park!Body(b) PROVE Park!TypeOK'
  BY <1>4, Bodying
<1>5. ASSUME NEW b \in todo, Park!WriteEngineFile(b) PROVE Park!TypeOK'
  BY <1>5, Writing DEF Park!WriteEngineFile
<1>6. CASE Park!Index
  BY <1>6, Indexing
<1>7. CASE Park!Check \/ Park!Finish \/ Park!Stop
  BY <1>7 DEF Park!Check, Park!Finish, Park!Stop, Park!Leave, Park!Stay
<1>8. CASE Park!DropSome \/ Park!DropRest
  <2>1. Park!NoPark \in [there : BOOLEAN, bodies : SUBSET Park!Bodies,
                         listed : BOOLEAN, index : SUBSET PatchFiles]
    BY DEF Park!NoPark
  <2>2. CASE Park!DropSome
    BY <2>2 DEF Park!DropSome
  <2>3. CASE Park!DropRest
    BY <2>1, <2>3 DEF Park!DropRest, Park!Leave
  <2> QED BY <1>8, <2>2, <2>3
<1>9. ASSUME NEW x \in PatchFiles, NEW h \in Hunks, Park!Edit(x, h) PROVE Park!TypeOK'
  <2>1. edits' \in 0..MaxEdits
    BY <1>9 DEF Park!Edit
  <2> QED BY <1>9, <2>1, Editing
<1>10. CASE UNCHANGED Park!vars
  BY <1>10 DEF Park!vars
<1> QED BY <1>1, <1>2, <1>3, <1>4, <1>5, <1>6, <1>7, <1>8, <1>9, <1>10 DEF Park!Next

(* ... every park one body for each file, ...                               *)
LEMMA BodiedStep ==
    ASSUME ParkBounds, Park!TypeOK, Bodied, Filed, [Park!Next]_(Park!vars)
    PROVE  Bodied'
<1> USE DEF Bodied, Park!TypeOK, Park!record, Park!plans
<1>1. ASSUME NEW l \in Labels, Park!Park(l) PROVE Bodied'
  BY <1>1, Parking
<1>2. ASSUME NEW l \in Labels, Park!Restore(l) PROVE Bodied'
  BY <1>2, Restoring
<1>3. ASSUME NEW l \in Labels, Park!Drop(l) PROVE Bodied'
  BY <1>3 DEF Park!Drop, Park!NoPark, Single, Orderly
<1>4. ASSUME NEW b \in todo, Park!Body(b) PROVE Bodied'
  BY <1>4, Bodying DEF Filed, Single, Orderly
<1>5. ASSUME NEW b \in todo, Park!WriteEngineFile(b) PROVE Bodied'
  BY <1>5 DEF Park!WriteEngineFile
<1>6. CASE Park!Check \/ Park!Index \/ Park!Finish \/ Park!Stop
  <2>1. CASE Park!Index
    BY <2>1, Indexing
  <2>2. CASE Park!Check \/ Park!Finish \/ Park!Stop
    BY <2>2 DEF Park!Check, Park!Finish, Park!Stop, Park!Leave, Park!Stay, Single, Orderly
  <2> QED BY <1>6, <2>1, <2>2
<1>7. CASE Park!DropSome \/ Park!DropRest
  BY <1>7 DEF Park!DropSome, Park!DropRest, Park!Leave, Park!NoPark, Single, Orderly
<1>8. ASSUME NEW x \in PatchFiles, NEW h \in Hunks, Park!Edit(x, h) PROVE Bodied'
  BY <1>8 DEF Park!Edit
<1>9. CASE UNCHANGED Park!vars
  BY <1>9 DEF Park!vars
<1> QED BY <1>1, <1>2, <1>3, <1>4, <1>5, <1>6, <1>7, <1>8, <1>9 DEF Park!Next

(* ... and its index; ...                                                   *)
LEMMA FiledStep ==
    ASSUME ParkBounds, Park!TypeOK, Bodied, Filed, [Park!Next]_(Park!vars)
    PROVE  Filed'
<1> USE DEF Filed, Park!TypeOK, Park!record, Park!plans, Park!Paths
<1>1. ASSUME NEW l \in Labels, Park!Park(l) PROVE Filed'
  BY <1>1, Parking DEF Park!Park
<1>2. ASSUME NEW l \in Labels, Park!Restore(l) PROVE Filed'
  BY <1>2, Restoring
<1>3. ASSUME NEW l \in Labels, Park!Drop(l) PROVE Filed'
  BY <1>3 DEF Park!Drop, Park!NoPark
<1>4. ASSUME NEW b \in todo, Park!Body(b) PROVE Filed'
  BY <1>4, Bodying
<1>5. ASSUME NEW b \in todo, Park!WriteEngineFile(b) PROVE Filed'
  BY <1>5 DEF Park!WriteEngineFile
<1>6. CASE Park!Check \/ Park!Index \/ Park!Finish \/ Park!Stop
  <2>1. CASE Park!Check
    <3>1. ~Park!NoPark.listed /\ Park!NoPark.bodies = {}
      BY DEF Park!NoPark
    <3> QED BY <2>1, <3>1 DEF Park!Check, Park!Leave, Park!Stay
  <2>3. CASE Park!Finish \/ Park!Stop
    BY <2>3 DEF Park!Finish, Park!Stop, Park!Leave, Park!Stay
  <2>2. CASE Park!Index
    BY <2>2 DEF Park!Index
  <2> QED BY <1>6, <2>1, <2>2, <2>3
<1>7. CASE Park!DropSome
  <2>1. PICK b \in parks[label].bodies : parks' = [parks EXCEPT ![label].bodies = @ \ {b}]
    BY <1>7 DEF Park!DropSome
  <2>2. \A l \in Labels : /\ parks'[l].listed = parks[l].listed /\ parks'[l].index = parks[l].index
                          /\ parks'[l].bodies \subseteq parks[l].bodies
                          /\ parks[l].there \/ l # label => parks'[l].there = parks[l].there
                          /\ l # label => parks'[l] = parks[l]
    BY <2>1
  <2>3. parks[label].there /\ step = "drop"
    BY <1>7 DEF Park!DropSome
  <2> QED BY <1>7, <2>2, <2>3 DEF Park!DropSome
<1>8. CASE Park!DropRest
  BY <1>8 DEF Park!DropRest, Park!Leave, Park!NoPark
<1>9. ASSUME NEW x \in PatchFiles, NEW h \in Hunks, Park!Edit(x, h) PROVE Filed'
  BY <1>9 DEF Park!Edit
<1>10. CASE UNCHANGED Park!vars
  BY <1>10 DEF Park!vars
<1> QED BY <1>1, <1>2, <1>3, <1>4, <1>5, <1>6, <1>7, <1>8, <1>9, <1>10 DEF Park!Next

(* what a file loses a park carries; ...                                    *)
LEMMA CarriedStep ==
    ASSUME ParkBounds, Park!TypeOK, Bodied, Filed, Carried, Filing, Written, Restored,
           [Park!Next]_(Park!vars)
    PROVE  Carried'
<1> USE DEF Carried, Park!TypeOK
<1>1. ASSUME NEW l \in Labels, Park!Park(l) PROVE Carried'
  BY <1>1, Parking DEF Park!record, Park!past, ParkKept, Held, Carries, Park!Readable
<1>2. ASSUME NEW l \in Labels, Park!Restore(l) PROVE Carried'
  BY <1>2, Restoring DEF Park!record, Park!past, ParkKept, Held, Carries, Park!Readable
<1>3. ASSUME NEW l \in Labels, Park!Drop(l) PROVE Carried'
  BY <1>3 DEF Park!Drop, Park!NoPark, ParkKept, Held, Carries, Park!Readable, Park!HunksOf
<1>4. ASSUME NEW b \in todo, Park!Body(b) PROVE Carried'
  BY <1>4 DEF Park!Body, Filed, Park!past, ParkKept, Held, Carries, Park!Readable
<1>5. ASSUME NEW b \in todo, Park!WriteEngineFile(b) PROVE Carried'
  <2> SUFFICES ASSUME NEW e \in ParkKept PROVE (Held(e) \/ \E l \in Labels : Carries(l, e))'
    BY <1>5, Writing
  <2>1. \A l \in Labels : Carries(l, e)' <=> Carries(l, e)
    BY <1>5, Writing DEF Carries, Park!Readable
  <2>2. CASE Held(e) /\ e[1] = b.path /\ e[2] \notin b.after
    <3>1. mode = "park" /\ e[2] \in b.before
      BY <1>5, <2>2 DEF Written, Park!WriteEngineFile
    <3>2. e \in Park!HunksOf(todo)
      BY <2>2, <3>1 DEF Park!HunksOf, ParkKept
    <3>3. Park!Readable(label) /\ plan \subseteq parks[label].bodies
      BY <1>5, <3>1, <3>2 DEF Filing, Park!WriteEngineFile
    <3>4. Carries(label, e)
      BY <2>2, <3>1, <3>3 DEF Carries
    <3> QED BY <2>1, <3>4
  <2> QED BY <1>5, <2>1, <2>2, Writing
<1>6. CASE Park!Check \/ Park!Finish \/ Park!Stop
  BY <1>6 DEF Park!Check, Park!Finish, Park!Stop, Park!Leave, Park!Stay, Park!record, Park!past,
     ParkKept, Held, Carries, Park!Readable
<1>7. CASE Park!Index
  BY <1>7 DEF Park!Index, Filed, Park!past, ParkKept, Held, Carries, Park!Readable
<1>8. CASE Park!DropSome \/ Park!DropRest
  <2>1. step = "drop" /\ mode = "restore" /\ UNCHANGED <<source, made, praced>>
    BY <1>8 DEF Park!DropSome, Park!DropRest, Filed, Park!past
  <2>2. \A l \in Labels \ {label} : parks'[l] = parks[l]
    BY <1>8 DEF Park!DropSome, Park!DropRest
  <2> QED BY <2>1, <2>2 DEF Restored, ParkKept, Held, Carries, Park!Readable
<1>9. ASSUME NEW x \in PatchFiles, NEW h \in Hunks, Park!Edit(x, h) PROVE Carried'
  BY <1>9, Editing DEF Carries, Park!Readable
<1>10. CASE UNCHANGED Park!vars
  BY <1>10 DEF Park!vars, Park!record, Park!past, ParkKept, Held, Carries, Park!Readable
<1> QED BY <1>1, <1>2, <1>3, <1>4, <1>5, <1>6, <1>7, <1>8, <1>9, <1>10 DEF Park!Next

(* what a command has read covers what its files hold, ...                  *)
LEMMA TakenStep ==
    ASSUME ParkBounds, Park!TypeOK, Bodied, Filed, Taken, [Park!Next]_(Park!vars)
    PROVE  Taken'
<1> USE DEF Taken, Park!TypeOK
<1>1. ASSUME NEW l \in Labels, Park!Park(l) PROVE Taken'
  BY <1>1, Parking DEF Park!record, Park!past, ParkKept, Held
<1>2. ASSUME NEW l \in Labels, Park!Restore(l) PROVE Taken'
  BY <1>2, Restoring
<1>3. ASSUME NEW l \in Labels, Park!Drop(l) PROVE Taken'
  BY <1>3 DEF Park!Drop, Park!plans, ParkKept, Held
<1>4. ASSUME NEW b \in todo, Park!Body(b) PROVE Taken'
  BY <1>4 DEF Park!Body, Park!plans, Park!past, ParkKept, Held
<1>5. ASSUME NEW b \in todo, Park!WriteEngineFile(b) PROVE Taken'
  BY <1>5 DEF Park!WriteEngineFile
<1>6. CASE Park!Check \/ Park!Index \/ Park!Finish \/ Park!Stop
  BY <1>6 DEF Park!Check, Park!Index, Park!Finish, Park!Stop, Park!Leave, Park!Stay, Park!record,
     Park!past, ParkKept, Held
<1>7. CASE Park!DropSome \/ Park!DropRest
  BY <1>7 DEF Park!DropSome, Park!DropRest, Park!Leave
<1>8. ASSUME NEW x \in PatchFiles, NEW h \in Hunks, Park!Edit(x, h) PROVE Taken'
  BY <1>8, Editing DEF Park!Pending, Park!Paths, Park!plans
<1>9. CASE UNCHANGED Park!vars
  BY <1>9 DEF Park!vars, Park!record, Park!plans, Park!past, ParkKept, Held
<1> QED BY <1>1, <1>2, <1>3, <1>4, <1>5, <1>6, <1>7, <1>8, <1>9 DEF Park!Next

(* ... its park has what it takes out before it writes, ...                 *)
LEMMA FilingStep ==
    ASSUME ParkBounds, Park!TypeOK, Bodied, Filed, Filing, [Park!Next]_(Park!vars)
    PROVE  Filing'
<1> USE DEF Filing, Park!TypeOK, Park!record, Park!plans, Park!past
<1>1. ASSUME NEW l \in Labels, Park!Park(l) PROVE Filing'
  BY <1>1 DEF Park!Park, Park!Begin
<1>2. ASSUME NEW l \in Labels, Park!Restore(l) PROVE Filing'
  BY <1>2, Restoring
<1>3. ASSUME NEW l \in Labels, Park!Drop(l) PROVE Filing'
  BY <1>3 DEF Park!Drop, ParkKept, Park!HunksOf, Park!Readable
<1>4. ASSUME NEW b \in todo, Park!Body(b) PROVE Filing'
  BY <1>4, Bodying DEF ParkKept, Park!HunksOf, Bodied, Single
<1>5. ASSUME NEW b \in todo, Park!WriteEngineFile(b) PROVE Filing'
  BY <1>5 DEF Park!WriteEngineFile, ParkKept, Park!HunksOf, Park!Readable
<1>6. CASE Park!Check
  <2>1. CASE step' = "bodies"
    <3>1. plan' = plan /\ todo' = todo /\ todo = plan
      BY <1>6, <2>1 DEF Park!Check, Park!Leave, Park!Stay, Filed
    <3> QED BY <1>6, <2>1, <3>1 DEF Park!Check
  <2> QED BY <1>6, <2>1 DEF Park!Check, Park!Leave, Park!Stay
<1>7. CASE Park!Index
  BY <1>7 DEF Park!Index, ParkKept, Park!HunksOf, Park!Readable, Park!Paths
<1>8. CASE Park!Finish \/ Park!DropSome \/ Park!DropRest \/ Park!Stop
  BY <1>8 DEF Park!Finish, Park!DropSome, Park!DropRest, Park!Stop, Park!Leave, Park!Stay
<1>9. ASSUME NEW x \in PatchFiles, NEW h \in Hunks, Park!Edit(x, h) PROVE Filing'
  <2>1. \A P : P \subseteq plan /\ Park!HunksOf(P) \cap ParkKept = {}
                 /\ (\A b \in P : Park!Pending(b.path))
               => Park!HunksOf(P) \cap ParkKept' = {}
    BY <1>9, Editing DEF Park!HunksOf
  <2>2. /\ step = "bodies" => \A b \in plan : Park!Pending(b.path)
        /\ step = "write" => \A b \in todo : Park!Pending(b.path)
    BY DEF Park!Pending, Park!Paths
  <2> QED BY <1>9, <2>1, <2>2, Editing DEF Park!Readable, Park!HunksOf
<1>10. CASE UNCHANGED Park!vars
  BY <1>10 DEF Park!vars, ParkKept, Park!HunksOf, Park!Readable
<1> QED BY <1>1, <1>2, <1>3, <1>4, <1>5, <1>6, <1>7, <1>8, <1>9, <1>10 DEF Park!Next

(* ... what it writes keeps the rest, ...                                   *)
LEMMA WrittenStep ==
    ASSUME ParkBounds, Park!TypeOK, Bodied, Filed, Taken, Written, [Park!Next]_(Park!vars)
    PROVE  Written'
<1> USE DEF Written, Park!TypeOK
<1>1. ASSUME NEW l \in Labels, Park!Park(l) PROVE Written'
  BY <1>1 DEF Park!Park
<1>2. ASSUME NEW l \in Labels, Park!Restore(l) PROVE Written'
  <2>1. \A e \in ParkKept : e[2] \in Hunks
    BY DEF ParkKept
  <2> QED BY <1>2, <2>1, Restoring DEF Park!record, Park!past, ParkKept, Held
<1>3. ASSUME NEW l \in Labels, Park!Drop(l) PROVE Written'
  BY <1>3 DEF Park!Drop, Park!plans, ParkKept, Held
<1>4. ASSUME NEW b \in todo, Park!Body(b) PROVE Written'
  BY <1>4 DEF Park!Body
<1>5. ASSUME NEW b \in todo, Park!WriteEngineFile(b) PROVE Written'
  <2>1. \A c \in todo \ {b} : c.path # b.path
    BY DEF Bodied, Single
  <2> QED BY <1>5, <2>1, Writing DEF Park!plans
<1>6. CASE Park!Check \/ Park!Finish \/ Park!Stop
  BY <1>6 DEF Park!Check, Park!Finish, Park!Stop, Park!Leave, Park!Stay
<1>7. CASE Park!Index
  BY <1>7 DEF Park!Index, Filed, Taken, Park!plans, Park!past, ParkKept, Held
<1>8. CASE Park!DropSome \/ Park!DropRest
  BY <1>8 DEF Park!DropSome, Park!DropRest, Park!Leave
<1>9. ASSUME NEW x \in PatchFiles, NEW h \in Hunks, Park!Edit(x, h) PROVE Written'
  <2>1. step = "write" => \A b \in todo : Park!Pending(b.path)
    BY DEF Park!Pending, Park!Paths
  <2> QED BY <1>9, <2>1, Editing DEF Park!plans
<1>10. CASE UNCHANGED Park!vars
  BY <1>10 DEF Park!vars, Park!record, Park!plans, Park!past, ParkKept, Held
<1> QED BY <1>1, <1>2, <1>3, <1>4, <1>5, <1>6, <1>7, <1>8, <1>9, <1>10 DEF Park!Next

(* ... and a restoration gives up a park only for what is back in its file. *)
LEMMA RestoredStep ==
    ASSUME ParkBounds, Park!TypeOK, Bodied, Filed, Carried, Written, Restored,
           [Park!Next]_(Park!vars)
    PROVE  Restored'
<1> USE DEF Restored, Park!TypeOK
<1>1. ASSUME NEW l \in Labels, Park!Park(l) PROVE Restored'
  BY <1>1, Parking
<1>2. ASSUME NEW l \in Labels, Park!Restore(l) PROVE Restored'
  <2>1. /\ label' = l /\ todo' = plan' /\ (mode' = "restore" => step' = "write")
        /\ UNCHANGED <<source, parks, made, praced>>
    BY <1>2, Restoring DEF Park!record, Park!past
  <2>2. /\ ParkKept' = ParkKept
        /\ \A e : Held(e)' <=> Held(e)
        /\ \A k, e : Carries(k, e)' <=> Carries(k, e)
    BY <2>1 DEF ParkKept, Held, Carries, Park!Readable
  <2>3. ASSUME mode' = "restore", NEW e \in ParkKept
        PROVE  \/ Held(e)
               \/ \E k \in Labels \ {l} : Carries(k, e)
               \/ \E b \in plan' : b.path = e[1] /\ e[2] \in b.before \cap b.after
    <3>1. CASE Carries(l, e)
      BY <1>2, <2>3, <3>1, Restoring DEF Carries
    <3> QED BY <3>1 DEF Carried
  <2> QED BY <2>1, <2>2, <2>3
<1>3. ASSUME NEW l \in Labels, Park!Drop(l) PROVE Restored'
  BY ZenonT(60), <1>3 DEF Park!Drop, Park!NoPark, ParkKept, Held, Carries, Park!Readable, Park!HunksOf,
     Park!plans
<1>4. ASSUME NEW b \in todo, Park!Body(b) PROVE Restored'
  BY <1>4, Bodying DEF Filed, Park!plans
<1>5. ASSUME NEW b \in todo, Park!WriteEngineFile(b) PROVE Restored'
  <2> SUFFICES ASSUME mode = "restore", NEW e \in ParkKept
               PROVE  \/ Held(e)'
                      \/ \E k \in Labels \ {label} : Carries(k, e)
                      \/ \E c \in todo \ {b} : c.path = e[1] /\ e[2] \in c.before \cap c.after
    BY <1>5, Writing DEF Park!plans, Carries, Park!Readable, Park!WriteEngineFile
  <2>1. Held(e) => Held(e)'
    BY <1>5, Writing DEF Written, Park!WriteEngineFile
  <2> QED BY <1>5, <2>1, Writing
<1>6. CASE Park!Check \/ Park!Index
  <2>1. CASE Park!Index
    BY <2>1, Indexing DEF Filed, Park!plans
  <2>2. CASE Park!Check
    BY <2>2 DEF Park!Check, Filed, Park!Leave, Park!Stay
  <2> QED BY <1>6, <2>1, <2>2
<1>7. CASE Park!Finish
  BY <1>7 DEF Park!Finish, Park!Leave, Park!Stay, Park!record, Park!past, ParkKept, Held, Carries,
     Park!Readable
<1>8. CASE Park!Stop
  BY <1>8 DEF Park!Stop, Park!Leave
<1>9. CASE Park!DropSome \/ Park!DropRest
  <2>1. UNCHANGED <<source, made, praced, label>> /\ step = "drop"
    BY <1>9 DEF Park!DropSome, Park!DropRest, Park!past, Park!plans
  <2>2. \A l \in Labels \ {label} : parks'[l] = parks[l]
    BY <1>9 DEF Park!DropSome, Park!DropRest
  <2>3. mode' = "restore" => mode = "restore"
    BY <1>9 DEF Park!DropSome, Park!DropRest, Park!Leave, Park!plans
  <2> QED BY <2>1, <2>2, <2>3 DEF ParkKept, Held, Carries, Park!Readable
<1>10. ASSUME NEW x \in PatchFiles, NEW h \in Hunks, Park!Edit(x, h) PROVE Restored'
  BY <1>10, Editing DEF Carries, Park!Readable, Park!plans
<1>11. CASE UNCHANGED Park!vars
  BY <1>11 DEF Park!vars, Park!record, Park!plans, Park!past, ParkKept, Held, Carries, Park!Readable
<1> QED BY <1>1, <1>2, <1>3, <1>4, <1>5, <1>6, <1>7, <1>8, <1>9, <1>10, <1>11 DEF Park!Next

(* Every step keeps all of it.                                              *)
LEMMA ParkStep ==
    ASSUME ParkBounds, ParkInv, [Park!Next]_(Park!vars)
    PROVE  ParkInv'
BY ParkTypeStep, BodiedStep, FiledStep, CarriedStep, TakenStep, FilingStep, WrittenStep,
   RestoredStep DEF ParkInv

(* What an invariant park carries can be read from it.                      *)
LEMMA ParkHolds == ParkInv => Park!WorkKept
<1> SUFFICES ASSUME ParkInv, NEW e \in ParkKept, NEW l \in Labels, Carries(l, e)
             PROVE  Park!Readable(l) /\ e \in Park!HunksOf(parks[l].bodies)
  BY DEF Park!WorkKept, ParkInv, Carried, ParkKept, Held
<1> QED BY DEF Carries, Park!HunksOf, ParkInv, Park!TypeOK, ParkKept

-----------------------------------------------------------------------------
(* Downloads                                                                *)

Getting  == {"validate", "invalidate", "unlink", "fetch", "promote", "verify", "describe",
             "discard", "extract", "extracting", "install"}
Building == {"init", "commit", "clean", "forget", "record", "note", "unbackup"}

(* The trees of finished commands are older than the one a command brings.  *)
Counted ==
    /\ agreed \subseteq 1..dcommands
    /\ worked \subseteq 1..dcommands + 1 /\ (dpc # "idle" => worked \subseteq 1..dcommands)
    /\ \A t \in backups : t.gen <= dcommands
    /\ engine.gen <= dcommands + 1 /\ stamp <= dcommands + 1
    /\ dpc # "idle" => dcommands > 0
    /\ dpc \in {"sweep", "look", "validate", "invalidate", "unlink", "fetch"} => tries < MaxAttempts
    /\ dpc \in Getting \cup {"sweep", "look", "aside", "activate", "unactivate"} =>
          engine.gen <= dcommands
    /\ dpc \in {"aside", "activate"} => fresh.gen = dcommands + 1
    /\ dpc \in Building \cup {"putback"} => engine.gen = dcommands + 1
    /\ dpc \in {"note", "unbackup"} => stamp = dcommands + 1

(* No two trees are of one generation, and the engine is the newest.        *)
Ordered ==
    /\ \A t, u \in backups : t.gen = u.gen => t = u
    /\ Source!There(engine) => \A t \in backups : t.gen < engine.gen

(* What a tree's replacement may take for granted.                          *)
Staged ==
    /\ dpc \in {"sweep", "look"} => ~replacing
    /\ dpc \in Getting => (replacing <=> Source!There(engine))
    /\ dpc = "aside" => Source!There(engine)
    /\ dpc \in {"activate", "unactivate"} => ~Source!There(engine)
    /\ dpc \in {"aside", "activate", "unactivate", "forget", "unbackup", "putback"} => replacing
    /\ replacing /\ dpc \in Getting \cup {"aside"} => engine.gen \in agreed

(* An unborn engine has not been worked in, ...                             *)
Unborn == \A t \in {engine} \cup backups : t.git = "unborn" => t.gen \notin worked

(* ... and whatever work is gone is older than it.                          *)
SourceGone(t) == \A e \in worked : Source!Intact(e) \/ e < t.gen

Lost ==
    /\ Source!WorkKept
    /\ engine.git = "unborn" \/ dpc \in {"resume", "resumed"} => SourceGone(engine)

(* The previous engine, from being set aside to being removed or put back.  *)
Moved == dpc \in {"activate", "unactivate"} \/ (replacing /\ dpc \in Building \cup {"putback"})

SetAside ==
    Moved =>
        \E t \in backups : /\ \A u \in backups : u.gen <= t.gen
                           /\ t.gen \in agreed
                           /\ t.git = "unborn" => SourceGone(t)

(* What is extracted from a verified archive is whole.                      *)
Sound ==
    /\ dpc \in {"describe", "extract", "extracting", "install"} => tarball \in Source!Accepted
    /\ dpc = "install" => tmp = "whole"
    /\ dpc \in {"aside", "activate"} => fresh.state = "whole"
    /\ \A t \in {engine} \cup backups : t.state = "torn" => late

(* The invariant of the downloads.                                          *)
SourceInv == Source!TypeOK /\ Counted /\ Ordered /\ Staged /\ Unborn /\ Lost /\ SetAside /\ Sound

(* What becomes of a tree is one.                                           *)
LEMMA Typed ==
    ASSUME SourceBounds
    PROVE  /\ Source!NoTree \in Source!Trees
           /\ \A t \in Source!Trees : /\ \A s \in {Source!Nothing, "unborn", "head"} : [t EXCEPT !.git = s] \in Source!Trees
                                      /\ [t EXCEPT !.work = TRUE] \in Source!Trees
                                      /\ [t EXCEPT !.state = "torn"] \in Source!Trees
                                      /\ t.gen \in Source!Gens
<1> USE DEF Source!Trees, Source!Nothing
<1>1. Source!NoTree \in Source!Trees
  BY DEF SourceBounds, Source!NoTree, Source!Gens
<1>2. ASSUME NEW t \in Source!Trees
      PROVE  /\ \A s \in {Source!Nothing, "unborn", "head"} : [t EXCEPT !.git = s] \in Source!Trees
             /\ [t EXCEPT !.work = TRUE] \in Source!Trees
             /\ [t EXCEPT !.state = "torn"] \in Source!Trees
             /\ t.gen \in Source!Gens
  <2>1. \A s \in {Source!Nothing, "unborn", "head"} : [t EXCEPT !.git = s] \in Source!Trees
    OBVIOUS
  <2>2. [t EXCEPT !.work = TRUE] \in Source!Trees
    OBVIOUS
  <2>3. [t EXCEPT !.state = "torn"] \in Source!Trees
    OBVIOUS
  <2> QED BY <2>1, <2>2, <2>3
<1> QED BY <1>1, <1>2

(* The backup a command takes for its own is the one it set aside.          *)
LEMMA TheBackup ==
    ASSUME SourceInv, Moved
    PROVE  /\ Source!Backup \in backups /\ Source!Backup \in Source!Trees
           /\ \A t \in backups : t = Source!Backup \/ t.gen < Source!Backup.gen
           /\ Source!Backup.gen \in agreed
           /\ Source!Backup.git = "unborn" => SourceGone(Source!Backup)
<1>1. PICK t \in backups : /\ \A u \in backups : u.gen <= t.gen
                           /\ t.gen \in agreed
                           /\ t.git = "unborn" => SourceGone(t)
  BY DEF SourceInv, SetAside
<1>2. \A u \in backups : u.gen \in Nat /\ (u.gen = t.gen => u = t)
  BY <1>1 DEF SourceInv, Ordered, Source!TypeOK, Source!Trees, Source!Gens
<1>3. Source!Backup = t
  <2>1. \A u \in backups : (\A v \in backups : v.gen <= u.gen) => u = t
    BY <1>1, <1>2
  <2> QED BY <1>1, <2>1 DEF Source!Backup
<1> QED BY <1>1, <1>2, <1>3 DEF SourceInv, Source!TypeOK

(* Every variable of a download keeps its type, ...                         *)
LEMMA SourceTypeStep ==
    ASSUME SourceBounds, Source!TypeOK, SourceInv, [Source!Next]_(Source!vars)
    PROVE  Source!TypeOK'
<1> USE DEF Source!TypeOK, SourceBounds, Source!Goto, Source!Fault, Source!PCs, Source!Archives,
            Source!cache, Source!trees, Source!states, Source!choice, Source!rest, Source!Nothing,
            Source!NoGen, Source!GiveUp, Source!GoBack
<1>1. CASE Source!Sweep \/ Source!Invalidate
  BY <1>1, Typed DEF Source!Sweep, Source!Invalidate
<1>2. CASE Source!Validate \/ Source!Fetch \/ Source!FetchFails \/ Source!Promote \/ Source!Verify
             \/ Source!Unverifiable \/
           Source!DescribeFails
  BY <1>2 DEF Source!Validate, Source!Fetch, Source!FetchFails, Source!Promote, Source!Verify,
     Source!Unverifiable, Source!DescribeFails
<1>3. CASE Source!Start
  <2>1. metadata' \in BOOLEAN /\ dforce' \in BOOLEAN /\ replacing' \in BOOLEAN /\ late' \in BOOLEAN
    BY <1>3 DEF Source!Start
  <2> QED BY <1>3, <2>1, Typed DEF Source!Start
<1>4. CASE Source!Look
  <2>1. metadata' \in BOOLEAN /\ dforce' \in BOOLEAN /\ replacing' \in BOOLEAN /\ late' \in BOOLEAN
    BY <1>4 DEF Source!Look
  <2> QED BY ZenonT(60), <1>4, <2>1, Typed DEF Source!Look
<1>5. CASE Source!Unlink
  <2>1. metadata' \in BOOLEAN /\ dforce' \in BOOLEAN /\ replacing' \in BOOLEAN /\ late' \in BOOLEAN
    BY <1>5 DEF Source!Unlink
  <2> QED BY <1>5, <2>1, Typed DEF Source!Unlink
<1>6. CASE Source!Retry
  <2>1. tries' \in 0..MaxAttempts
    BY <1>6 DEF Source!Retry, SourceInv, Counted
  <2>2. dpc' \in Source!PCs
    BY <1>6 DEF Source!Retry
  <2> QED BY <1>6, <2>1, <2>2 DEF Source!Retry
<1>7. CASE Source!Describe
  BY <1>7 DEF Source!Describe
<1>8. CASE Source!Discard
  <2>1. metadata' \in BOOLEAN /\ dforce' \in BOOLEAN /\ replacing' \in BOOLEAN /\ late' \in BOOLEAN
    BY <1>8 DEF Source!Discard
  <2> QED BY <1>8, <2>1, Typed DEF Source!Discard
<1>9. CASE Source!Extract \/ Source!Extracted \/ Source!UnactivateFails
  BY <1>9 DEF Source!Extract, Source!Extracted, Source!UnactivateFails
<1>10. CASE Source!Aside \/ Source!Activate \/ Source!Drop
  BY <1>10, Typed DEF Source!Aside, Source!Activate, Source!Drop
<1>11. CASE Source!ExtractFails
  <2>1. metadata' \in BOOLEAN /\ dforce' \in BOOLEAN /\ replacing' \in BOOLEAN /\ late' \in BOOLEAN
    BY <1>11 DEF Source!ExtractFails
  <2> QED BY <1>11, <2>1, Typed DEF Source!ExtractFails
<1>12. CASE Source!Install
  <2>1. Source!NewTree \in Source!Trees
    BY <1>12 DEF Source!NewTree, Source!Install, Source!Trees, Source!Gens, Counted, SourceInv,
       Getting
  <2> QED BY <1>12, <2>1 DEF Source!Install
<1>13. CASE Source!AsideFails
  <2>1. dpc' \in Source!PCs
    BY <1>13 DEF Source!AsideFails
 <2>2. metadata' \in BOOLEAN /\ dforce' \in BOOLEAN /\ replacing' \in BOOLEAN /\ late' \in BOOLEAN
    BY <1>13 DEF Source!AsideFails
  <2> QED BY <1>13, <2>1, <2>2, Typed DEF Source!AsideFails
<1>14. CASE Source!Unactivate
  BY <1>14, TheBackup DEF Moved, Source!Unactivate, SourceInv
<1>15. CASE Source!CleanPatchTouched \/ Source!ForgetFurnace \/ Source!NoteUnapplied
              \/ Source!RemoveBackup \/
            Source!BaselineFails
  BY <1>15 DEF Source!CleanPatchTouched, Source!ForgetFurnace, Source!NoteUnapplied,
     Source!RemoveBackup, Source!BaselineFails
<1>16. CASE Source!Record
  BY ZenonT(60), <1>16, Typed DEF Source!Record
<1>17. CASE Source!InitRepository
  <2>2. engine' \in Source!Trees
    BY <1>17, Typed DEF Source!InitRepository
  <2> QED BY <1>17, <2>2 DEF Source!InitRepository
<1>18. CASE Source!Commit
  <2>2. engine' \in Source!Trees
    BY <1>18, Typed DEF Source!Commit
  <2> QED BY <1>18, <2>2 DEF Source!Commit
<1>19. CASE Source!FailsLate
  <2>1. metadata' \in BOOLEAN /\ dforce' \in BOOLEAN /\ replacing' \in BOOLEAN /\ late' \in BOOLEAN
    BY <1>19 DEF Source!FailsLate
  <2>2. dpc = "unbackup" => Source!Backup \in backups /\ Source!Backup \in Source!Trees
    BY TheBackup DEF SourceInv, Staged, Building, Moved
  <2>3. backups' \subseteq Source!Trees
    BY <1>19, <2>2, Typed DEF Source!FailsLate
  <2> QED BY <1>19, <2>1, <2>3 DEF Source!FailsLate
<1>20. CASE Source!Resumed
  BY ZenonT(60), <1>20, Typed DEF Source!Resumed
<1>21. CASE Source!Kill
  BY <1>21 DEF Source!Kill
<1>22. CASE Source!PutBack
  BY <1>22, TheBackup DEF Moved, Building, Source!PutBack, SourceInv, Staged
<1>23. CASE Source!PutBackFails
  <2>1. metadata' \in BOOLEAN /\ dforce' \in BOOLEAN /\ replacing' \in BOOLEAN /\ late' \in BOOLEAN
    BY <1>23 DEF Source!PutBackFails
  <2>2. engine' \in Source!Trees
    BY <1>23, Typed DEF Source!PutBackFails
  <2> QED BY <1>23, <2>1, <2>2 DEF Source!PutBackFails
<1>24. CASE Source!Resume
  <2>2. engine' \in Source!Trees
    BY <1>24, Typed DEF Source!Resume
  <2> QED BY <1>24, <2>2 DEF Source!Resume
<1>25. CASE Source!ResumeFails
  <2>1. dpc' \in Source!PCs
    BY <1>25 DEF Source!ResumeFails
 <2>2. metadata' \in BOOLEAN /\ dforce' \in BOOLEAN /\ replacing' \in BOOLEAN /\ late' \in BOOLEAN
    BY <1>25 DEF Source!ResumeFails
  <2> QED BY <1>25, <2>1, <2>2, Typed DEF Source!ResumeFails
<1>26. CASE Source!Work
  <2>1. dpc' \in Source!PCs
    BY <1>26 DEF Source!Work
 <2>2. metadata' \in BOOLEAN /\ dforce' \in BOOLEAN /\ replacing' \in BOOLEAN /\ late' \in BOOLEAN
    BY <1>26 DEF Source!Work
  <2> QED BY <1>26, <2>1, <2>2, Typed DEF Source!Work
<1>27. CASE UNCHANGED Source!vars
  BY <1>27 DEF Source!vars
<1> QED BY <1>1, <1>2, <1>3, <1>4, <1>5, <1>6, <1>7, <1>8, <1>9, <1>10, <1>11, <1>12,
           <1>13, <1>14, <1>15, <1>16, <1>17, <1>18, <1>19, <1>20, <1>21, <1>22, <1>23,
           <1>24, <1>25, <1>26, <1>27 DEF Source!Next

(* ... trees their generations, ...                                         *)
LEMMA CountedStep ==
    ASSUME SourceBounds, Source!TypeOK, Counted, SourceInv, [Source!Next]_(Source!vars)
    PROVE  Counted'
<1> USE DEF Source!TypeOK, SourceBounds, Source!Goto, Source!Fault, Source!PCs, Source!cache,
            Source!trees, Source!states, Source!choice, Source!rest, Source!Nothing, Source!NoGen,
            Source!GiveUp, Source!GoBack, Counted, Getting, Building, Source!Gens, Source!Trees,
            Source!NoTree, Source!There
<1>1. CASE Source!Start \/ Source!Sweep \/ Source!Validate \/ Source!Invalidate \/ Source!Unlink
             \/ Source!Fetch \/ Source!FetchFails \/
           Source!Retry \/ Source!Promote \/ Source!Verify \/ Source!Unverifiable \/ Source!Describe
             \/ Source!DescribeFails \/
           Source!Discard
  BY <1>1 DEF Source!Start, Source!Sweep, Source!Validate, Source!Invalidate, Source!Unlink,
     Source!Fetch, Source!FetchFails, Source!Retry, Source!Promote, Source!Verify,
     Source!Unverifiable, Source!Describe, Source!DescribeFails, Source!Discard
<1>2. CASE Source!Look
  <2>1. CASE replacing' = replacing /\ agreed' = agreed
    BY <1>2, <2>1 DEF Source!Look
  <2>2. CASE Source!There(engine) /\ dpc' = "validate" /\ replacing' = TRUE
               /\ agreed' = agreed \cup {engine.gen}
    <3>1. engine.gen \in 1..dcommands
      BY <1>2 DEF Source!Look
    <3>2. agreed' \subseteq 1..dcommands
      BY <2>2, <3>1
    <3> QED BY <1>2, <2>2, <3>2 DEF Source!Look
  <2> QED BY <1>2, <2>1, <2>2 DEF Source!Look
<1>3. CASE Source!Extract \/ Source!Extracted \/ Source!ExtractFails \/ Source!AsideFails
             \/ Source!UnactivateFails \/ Source!Drop
  BY <1>3 DEF Source!Extract, Source!Extracted, Source!ExtractFails, Source!AsideFails,
     Source!UnactivateFails, Source!Drop
<1>4. CASE Source!Install
  BY <1>4 DEF Source!Install, Source!NewTree
<1>5. CASE Source!Aside
  BY <1>5 DEF Source!Aside
<1>6. CASE Source!Activate
  BY <1>6 DEF Source!Activate
<1>7. CASE Source!Unactivate
  BY <1>7, TheBackup DEF Moved, Source!Unactivate
<1>8. CASE Source!InitRepository \/ Source!Commit \/ Source!CleanPatchTouched
             \/ Source!ForgetFurnace \/ Source!Record \/
           Source!NoteUnapplied \/ Source!RemoveBackup \/ Source!BaselineFails
  BY <1>8 DEF Source!InitRepository, Source!Commit, Source!CleanPatchTouched, Source!ForgetFurnace,
     Source!Record, Source!NoteUnapplied, Source!RemoveBackup, Source!BaselineFails
<1>9. CASE Source!FailsLate
  <2>1. dpc = "unbackup" => Source!Backup \in backups /\ Source!Backup \in Source!Trees
    BY TheBackup DEF SourceInv, Staged, Building, Moved
  <2> QED BY <1>9, <2>1, Typed DEF Source!FailsLate
<1>10. CASE Source!PutBackFails \/ Source!Resume \/ Source!Resumed \/ Source!ResumeFails
              \/ Source!Kill \/ Source!Work
  BY <1>10 DEF Source!PutBackFails, Source!Resume, Source!Resumed, Source!ResumeFails, Source!Kill,
     Source!Work
<1>11. CASE Source!PutBack
  BY <1>11, TheBackup DEF Moved, Source!PutBack, SourceInv, Staged
<1>12. CASE UNCHANGED Source!vars
  BY <1>12 DEF Source!vars
<1> QED BY <1>1, <1>2, <1>3, <1>4, <1>5, <1>6, <1>7, <1>8, <1>9, <1>10, <1>11, <1>12 DEF Source!Next

(* ... the engine the newest one; ...                                       *)
LEMMA OrderedStep ==
    ASSUME SourceBounds, Source!TypeOK, Ordered, Counted, Staged, SourceInv,
           [Source!Next]_(Source!vars)
    PROVE  Ordered'
<1> USE DEF Source!TypeOK, SourceBounds, Source!Goto, Source!Fault, Source!PCs, Source!cache,
            Source!trees, Source!states, Source!choice, Source!rest, Source!Nothing, Source!NoGen,
            Source!GiveUp, Source!GoBack, Ordered, Source!Gens, Source!Trees, Source!NoTree,
            Source!There
<1>1. CASE Source!Start \/ Source!Sweep \/ Source!Look \/ Source!Validate \/ Source!Invalidate
             \/ Source!Unlink \/ Source!Fetch \/
           Source!FetchFails \/ Source!Retry \/ Source!Promote \/ Source!Verify
             \/ Source!Unverifiable \/ Source!Describe \/
           Source!DescribeFails \/ Source!Discard
  BY <1>1 DEF Source!Start, Source!Sweep, Source!Look, Source!Validate, Source!Invalidate,
     Source!Unlink, Source!Fetch, Source!FetchFails, Source!Retry, Source!Promote, Source!Verify,
     Source!Unverifiable, Source!Describe, Source!DescribeFails, Source!Discard
<1>2. CASE Source!Extract \/ Source!Extracted \/ Source!ExtractFails \/ Source!AsideFails
             \/ Source!UnactivateFails \/ Source!Drop
  BY <1>2 DEF Source!Extract, Source!Extracted, Source!ExtractFails, Source!AsideFails,
     Source!UnactivateFails, Source!Drop
<1>3. CASE Source!Install
  BY <1>3 DEF Source!Install, Source!NewTree, Counted, Getting
<1>4. CASE Source!Aside
  BY <1>4 DEF Source!Aside, Staged
<1>5. CASE Source!Activate
  BY <1>5 DEF Source!Activate, Counted
<1>6. CASE Source!Unactivate
  BY <1>6, TheBackup DEF Moved, Source!Unactivate
<1>7. CASE Source!InitRepository \/ Source!Commit \/ Source!CleanPatchTouched
             \/ Source!ForgetFurnace \/ Source!Record \/
           Source!NoteUnapplied \/ Source!RemoveBackup \/ Source!BaselineFails
  BY <1>7 DEF Source!InitRepository, Source!Commit, Source!CleanPatchTouched, Source!ForgetFurnace,
     Source!Record, Source!NoteUnapplied, Source!RemoveBackup, Source!BaselineFails
<1>8. CASE Source!FailsLate
  <2>1. dpc = "unbackup" => Source!Backup \in backups /\ Source!Backup \in Source!Trees
    BY TheBackup DEF SourceInv, Staged, Building, Moved
  <2>2. CASE backups' = backups
    BY <1>8, <2>2 DEF Source!FailsLate
  <2>3. CASE dpc = "unbackup"
               /\ backups' = (backups \ {Source!Backup}) \cup {[Source!Backup EXCEPT !.state = "torn"]}
    <3>1. [Source!Backup EXCEPT !.state = "torn"].gen = Source!Backup.gen
      BY <2>1, <2>3
    <3> HIDE DEF Source!Trees
    <3> QED BY <1>8, <2>1, <2>3, <3>1 DEF Source!FailsLate
  <2> QED BY <1>8, <2>2, <2>3 DEF Source!FailsLate
<1>9. CASE Source!Resume \/ Source!Resumed \/ Source!ResumeFails \/ Source!Kill \/ Source!Work
  BY <1>9 DEF Source!Resume, Source!Resumed, Source!ResumeFails, Source!Kill, Source!Work
<1>10. CASE Source!PutBack
  BY <1>10, TheBackup DEF Moved, Source!PutBack, SourceInv, Staged
<1>11. CASE Source!PutBackFails
  <2>1. engine.gen = dcommands + 1 /\ \A t \in backups : t.gen < dcommands + 1
    BY <1>11 DEF Source!PutBackFails, Counted
  <2>2. Source!There(engine)' => engine'.gen = engine.gen
    BY <1>11 DEF Source!PutBackFails
  <2> QED BY <1>11, <2>1, <2>2 DEF Source!PutBackFails
<1>12. CASE UNCHANGED Source!vars
  BY <1>12 DEF Source!vars
<1> QED BY <1>1, <1>2, <1>3, <1>4, <1>5, <1>6, <1>7, <1>8, <1>9, <1>10, <1>11, <1>12 DEF Source!Next

(* a replacement has an engine to replace, ...                              *)
LEMMA StagedStep ==
    ASSUME SourceBounds, Source!TypeOK, Staged, SourceInv, [Source!Next]_(Source!vars)
    PROVE  Staged'
<1> USE DEF Source!TypeOK, SourceBounds, Source!Goto, Source!Fault, Source!PCs, Source!cache,
            Source!trees, Source!states, Source!choice, Source!rest, Source!Nothing, Source!NoGen,
            Source!GiveUp, Source!GoBack, Staged, Getting, Source!Trees, Source!NoTree,
            Source!There
<1>1. CASE Source!Start \/ Source!Sweep \/ Source!Validate \/ Source!Invalidate \/ Source!Unlink
             \/ Source!Fetch \/ Source!FetchFails \/
           Source!Retry \/ Source!Promote \/ Source!Verify \/ Source!Unverifiable \/ Source!Describe
             \/ Source!DescribeFails \/
           Source!Discard
  BY <1>1 DEF Source!Start, Source!Sweep, Source!Validate, Source!Invalidate, Source!Unlink,
     Source!Fetch, Source!FetchFails, Source!Retry, Source!Promote, Source!Verify,
     Source!Unverifiable, Source!Describe, Source!DescribeFails, Source!Discard
<1>2. CASE Source!Look
  <2>1. CASE replacing' = replacing /\ agreed' = agreed
    BY <1>2, <2>1 DEF Source!Look
  <2>2. CASE Source!There(engine) /\ dpc' = "validate" /\ replacing' = TRUE
               /\ agreed' = agreed \cup {engine.gen}
    BY <1>2, <2>2 DEF Source!Look
  <2> QED BY <1>2, <2>1, <2>2 DEF Source!Look
<1>3. CASE Source!Extract \/ Source!Extracted \/ Source!ExtractFails \/ Source!Aside
             \/ Source!Activate \/ Source!AsideFails \/
           Source!Unactivate \/ Source!UnactivateFails \/ Source!Drop
  BY <1>3 DEF Source!Extract, Source!Extracted, Source!ExtractFails, Source!Aside, Source!Activate,
     Source!AsideFails, Source!Unactivate, Source!UnactivateFails, Source!Drop
<1>4. CASE Source!Install
  BY <1>4 DEF Source!Install, Source!NewTree
<1>5. CASE Source!InitRepository \/ Source!Commit \/ Source!CleanPatchTouched
             \/ Source!ForgetFurnace \/ Source!Record \/
           Source!NoteUnapplied \/ Source!RemoveBackup \/ Source!BaselineFails \/ Source!FailsLate
  BY <1>5 DEF Source!InitRepository, Source!Commit, Source!CleanPatchTouched, Source!ForgetFurnace,
     Source!Record, Source!NoteUnapplied, Source!RemoveBackup, Source!BaselineFails,
     Source!FailsLate
<1>6. CASE Source!PutBack \/ Source!PutBackFails \/ Source!Resume \/ Source!Resumed
             \/ Source!ResumeFails \/ Source!Kill \/ Source!Work
  BY <1>6 DEF Source!PutBack, Source!PutBackFails, Source!Resume, Source!Resumed,
     Source!ResumeFails, Source!Kill, Source!Work
<1>7. CASE UNCHANGED Source!vars
  BY <1>7 DEF Source!vars
<1> QED BY <1>1, <1>2, <1>3, <1>4, <1>5, <1>6, <1>7 DEF Source!Next

(* ... nobody has worked in an engine without a commit, ...                 *)
LEMMA UnbornStep ==
    ASSUME SourceBounds, Source!TypeOK, Unborn, SourceInv, [Source!Next]_(Source!vars)
    PROVE  Unborn'
<1> USE DEF Source!TypeOK, SourceBounds, Source!Goto, Source!Fault, Source!PCs, Source!cache,
            Source!trees, Source!states, Source!choice, Source!rest, Source!Nothing, Source!NoGen,
            Source!GiveUp, Source!GoBack, Unborn, Source!Trees, Source!NoTree, Source!There,
            Source!Gens
<1>1. CASE Source!Start \/ Source!Sweep \/ Source!Look \/ Source!Validate \/ Source!Invalidate
             \/ Source!Unlink \/ Source!Fetch \/
           Source!FetchFails \/ Source!Retry \/ Source!Promote \/ Source!Verify
             \/ Source!Unverifiable \/ Source!Describe \/
           Source!DescribeFails \/ Source!Discard
  BY <1>1 DEF Source!Start, Source!Sweep, Source!Look, Source!Validate, Source!Invalidate,
     Source!Unlink, Source!Fetch, Source!FetchFails, Source!Retry, Source!Promote, Source!Verify,
     Source!Unverifiable, Source!Describe, Source!DescribeFails, Source!Discard
<1>2. CASE Source!Extract \/ Source!Extracted \/ Source!ExtractFails \/ Source!Aside
             \/ Source!AsideFails \/
           Source!UnactivateFails \/ Source!Drop
  BY <1>2 DEF Source!Extract, Source!Extracted, Source!ExtractFails, Source!Aside,
     Source!AsideFails, Source!UnactivateFails, Source!Drop
<1>3. CASE Source!Install
  BY <1>3 DEF Source!Install, Source!NewTree
<1>4. CASE Source!Activate
  <2>1. dcommands + 1 \notin worked
    BY <1>4 DEF Source!Activate, SourceInv, Counted
  <2>2. fresh.gen = dcommands + 1
    BY <1>4 DEF Source!Activate, SourceInv, Counted
  <2> QED BY <1>4, <2>1, <2>2 DEF Source!Activate
<1>5. CASE Source!Unactivate
  BY <1>5, TheBackup DEF Moved, Source!Unactivate
<1>6. CASE Source!Commit \/ Source!CleanPatchTouched \/ Source!ForgetFurnace \/ Source!Record
             \/ Source!NoteUnapplied \/
           Source!RemoveBackup \/ Source!BaselineFails
  BY <1>6 DEF Source!Commit, Source!CleanPatchTouched, Source!ForgetFurnace, Source!Record,
     Source!NoteUnapplied, Source!RemoveBackup, Source!BaselineFails
<1>7. CASE Source!InitRepository
  <2>1. dcommands + 1 \notin worked
    BY <1>7 DEF Source!InitRepository, SourceInv, Counted
  <2>2. engine.gen = dcommands + 1
    BY <1>7 DEF Source!InitRepository, SourceInv, Counted, Building
  <2> QED BY <1>7, <2>1, <2>2 DEF Source!InitRepository
<1>8. CASE Source!FailsLate
  <2>1. dpc = "unbackup" => Source!Backup \in backups /\ Source!Backup \in Source!Trees
    BY TheBackup DEF SourceInv, Staged, Building, Moved
  <2> QED BY SMTT(30), <1>8, <2>1, Typed DEF Source!FailsLate
<1>9. CASE Source!PutBackFails \/ Source!Resume \/ Source!Resumed \/ Source!ResumeFails
             \/ Source!Kill
  BY <1>9 DEF Source!PutBackFails, Source!Resume, Source!Resumed, Source!ResumeFails, Source!Kill
<1>10. CASE Source!PutBack
  BY <1>10, TheBackup DEF Moved, Source!PutBack, SourceInv, Staged
<1>11. CASE Source!Work
  BY <1>11 DEF Source!Work, SourceInv, Ordered
<1>12. CASE UNCHANGED Source!vars
  BY <1>12 DEF Source!vars
<1> QED BY <1>1, <1>2, <1>3, <1>4, <1>5, <1>6, <1>7, <1>8, <1>9, <1>10, <1>11, <1>12 DEF Source!Next

(* ... and what comes from a verified archive is whole.                     *)
LEMMA SoundStep ==
    ASSUME SourceBounds, Source!TypeOK, Sound, SourceInv, [Source!Next]_(Source!vars)
    PROVE  Sound'
<1> USE DEF Source!TypeOK, SourceBounds, Source!Goto, Source!Fault, Source!PCs, Source!cache,
            Source!trees, Source!states, Source!choice, Source!rest, Source!Nothing, Source!NoGen,
            Source!GiveUp, Source!GoBack, Sound, Source!Trees, Source!NoTree, Source!There,
            Source!Gens, Source!Accepted
<1>1. CASE Source!Start \/ Source!Sweep \/ Source!Look \/ Source!Invalidate \/ Source!Unlink
             \/ Source!Fetch \/ Source!FetchFails \/
           Source!Retry \/ Source!Promote \/ Source!Verify \/ Source!Unverifiable \/ Source!Describe
             \/ Source!DescribeFails \/
           Source!Discard
  BY <1>1 DEF Source!Start, Source!Sweep, Source!Look, Source!Invalidate, Source!Unlink,
     Source!Fetch, Source!FetchFails, Source!Retry, Source!Promote, Source!Verify,
     Source!Unverifiable, Source!Describe, Source!DescribeFails, Source!Discard
<1>2. CASE Source!Validate
  BY <1>2 DEF Source!Validate, Source!Valid
<1>3. CASE Source!Extract \/ Source!Extracted \/ Source!ExtractFails \/ Source!Aside
             \/ Source!Activate \/ Source!AsideFails \/
           Source!UnactivateFails \/ Source!Drop
  BY <1>3 DEF Source!Extract, Source!Extracted, Source!ExtractFails, Source!Aside, Source!Activate,
     Source!AsideFails, Source!UnactivateFails, Source!Drop
<1>4. CASE Source!Install
  BY <1>4 DEF Source!Install, Source!NewTree
<1>5. CASE Source!Unactivate
  BY <1>5, TheBackup DEF Moved, Source!Unactivate
<1>6. CASE Source!InitRepository \/ Source!Commit \/ Source!CleanPatchTouched
             \/ Source!ForgetFurnace \/ Source!Record \/
           Source!NoteUnapplied \/ Source!RemoveBackup \/ Source!BaselineFails
  BY <1>6 DEF Source!InitRepository, Source!Commit, Source!CleanPatchTouched, Source!ForgetFurnace,
     Source!Record, Source!NoteUnapplied, Source!RemoveBackup, Source!BaselineFails
<1>7. CASE Source!FailsLate
  <2>1. dpc = "unbackup" => Source!Backup \in backups /\ Source!Backup \in Source!Trees
    BY TheBackup DEF SourceInv, Staged, Building, Moved
  <2> QED BY <1>7, <2>1, Typed DEF Source!FailsLate
<1>8. CASE Source!PutBackFails \/ Source!Resume \/ Source!Resumed \/ Source!ResumeFails
             \/ Source!Kill \/ Source!Work
  BY <1>8 DEF Source!PutBackFails, Source!Resume, Source!Resumed, Source!ResumeFails, Source!Kill,
     Source!Work
<1>9. CASE Source!PutBack
  BY <1>9, TheBackup DEF Moved, Source!PutBack, SourceInv, Staged
<1>10. CASE UNCHANGED Source!vars
  BY <1>10 DEF Source!vars
<1> QED BY <1>1, <1>2, <1>3, <1>4, <1>5, <1>6, <1>7, <1>8, <1>9, <1>10 DEF Source!Next

(* Intact work stays so, except in a backup that is removed or half removed. *)
LEMMA KeptStep ==
    ASSUME SourceBounds, Source!TypeOK, SourceInv, [Source!Next]_(Source!vars)
    PROVE  \A e \in worked : Source!Intact(e) => Source!Intact(e)' \/ (dpc = "unbackup" /\ e = Source!Backup.gen)
<1> USE DEF Source!TypeOK, SourceBounds, Source!Goto, Source!Fault, Source!PCs, Source!cache,
            Source!trees, Source!states, Source!choice, Source!rest, Source!Nothing, Source!NoGen,
            Source!GiveUp, Source!GoBack, Source!Intact, Source!Trees, Source!NoTree, Source!There,
            Source!Gens
<1>1. CASE Source!Start \/ Source!Sweep \/ Source!Look \/ Source!Validate \/ Source!Invalidate
             \/ Source!Unlink \/ Source!Fetch \/
           Source!FetchFails \/ Source!Retry \/ Source!Promote \/ Source!Verify
             \/ Source!Unverifiable \/ Source!Describe \/
           Source!DescribeFails \/ Source!Discard
  BY <1>1 DEF Source!Start, Source!Sweep, Source!Look, Source!Validate, Source!Invalidate,
     Source!Unlink, Source!Fetch, Source!FetchFails, Source!Retry, Source!Promote, Source!Verify,
     Source!Unverifiable, Source!Describe, Source!DescribeFails, Source!Discard
<1>2. CASE Source!Extract \/ Source!Extracted \/ Source!ExtractFails \/ Source!AsideFails
             \/ Source!UnactivateFails \/ Source!Drop
  BY <1>2 DEF Source!Extract, Source!Extracted, Source!ExtractFails, Source!AsideFails,
     Source!UnactivateFails, Source!Drop
<1>3. CASE Source!Install
  BY <1>3 DEF Source!Install, Source!NewTree, SourceInv, Staged, Getting
<1>4. CASE Source!Aside
  BY <1>4 DEF Source!Aside, SourceInv, Staged
<1>5. CASE Source!Activate
  BY <1>5 DEF Source!Activate, SourceInv, Staged
<1>6. CASE Source!Unactivate
  BY <1>6, TheBackup DEF Moved, Source!Unactivate, SourceInv, Staged
<1>7. CASE Source!InitRepository \/ Source!Commit \/ Source!CleanPatchTouched
             \/ Source!ForgetFurnace \/ Source!Record \/
           Source!NoteUnapplied \/ Source!BaselineFails
  BY <1>7 DEF Source!InitRepository, Source!Commit, Source!CleanPatchTouched, Source!ForgetFurnace,
     Source!Record, Source!NoteUnapplied, Source!BaselineFails
<1>8. CASE Source!RemoveBackup
  BY <1>8, TheBackup DEF Moved, Source!RemoveBackup, Building, SourceInv, Staged
<1>9. CASE Source!FailsLate
  <2>1. dpc = "unbackup" => Source!Backup \in backups /\ Source!Backup \in Source!Trees
    BY TheBackup DEF SourceInv, Staged, Building, Moved
  <2> QED BY <1>9, <2>1 DEF Source!FailsLate
<1>10. CASE Source!Resume \/ Source!Resumed \/ Source!ResumeFails \/ Source!Kill \/ Source!Work
  BY <1>10 DEF Source!Resume, Source!Resumed, Source!ResumeFails, Source!Kill, Source!Work
<1>11. CASE Source!PutBack
  BY <1>11, TheBackup DEF Moved, Source!PutBack, SourceInv, Staged, Counted, Ordered
<1>12. CASE Source!PutBackFails
  BY <1>12 DEF Source!PutBackFails, SourceInv, Staged, Counted
<1>13. CASE UNCHANGED Source!vars
  BY <1>13 DEF Source!vars
<1> QED BY <1>1, <1>2, <1>3, <1>4, <1>5, <1>6, <1>7, <1>8, <1>9, <1>10, <1>11, <1>12,
           <1>13 DEF Source!Next

(* Work is gone only when a newer engine was agreed to.                     *)
LEMMA LostStep ==
    ASSUME SourceBounds, Source!TypeOK, SourceInv, [Source!Next]_(Source!vars)
    PROVE  Lost'
<1> USE DEF Source!TypeOK, SourceBounds, Source!Goto, Source!Fault, Source!PCs, Source!cache,
            Source!trees, Source!states, Source!choice, Source!rest, Source!Nothing, Source!NoGen,
            Source!GiveUp, Source!GoBack, Source!WorkKept, Lost, SourceGone, Source!Trees,
            Source!NoTree, Source!There, Source!Gens
<1>now. Counted /\ Ordered /\ Staged /\ Unborn /\ Lost /\ SourceInv
      /\ \A e \in worked : Source!Intact(e) => Source!Intact(e)'
                             \/ (dpc = "unbackup" /\ e = Source!Backup.gen)
  BY KeptStep DEF SourceInv
<1>1. CASE Source!Start \/ Source!Sweep \/ Source!Look \/ Source!Validate \/ Source!Invalidate
             \/ Source!Unlink \/ Source!Fetch \/
           Source!FetchFails \/ Source!Retry \/ Source!Promote \/ Source!Verify
             \/ Source!Unverifiable \/ Source!Describe \/
           Source!DescribeFails \/ Source!Discard
  BY <1>1, <1>now DEF Source!Start, Source!Sweep, Source!Look, Source!Validate, Source!Invalidate,
     Source!Unlink, Source!Fetch, Source!FetchFails, Source!Retry, Source!Promote, Source!Verify,
     Source!Unverifiable, Source!Describe, Source!DescribeFails, Source!Discard
<1>2. CASE Source!Extract \/ Source!Extracted \/ Source!AsideFails \/ Source!UnactivateFails
             \/ Source!Drop
  BY <1>2, <1>now DEF Source!Extract, Source!Extracted, Source!AsideFails, Source!UnactivateFails,
     Source!Drop
<1>3. CASE Source!ExtractFails
  BY <1>3, <1>now DEF Source!ExtractFails
<1>4. CASE Source!Install
  BY <1>4, <1>now DEF Source!Install, Source!NewTree
<1>5. CASE Source!Aside
  BY <1>5, <1>now DEF Source!Aside
<1>6. CASE Source!Activate
  BY <1>6, <1>now DEF Source!Activate, Counted
<1>7. CASE Source!Unactivate
  BY <1>7, <1>now, TheBackup DEF Moved, Source!Unactivate
<1>8. CASE Source!Commit \/ Source!CleanPatchTouched \/ Source!ForgetFurnace \/ Source!NoteUnapplied
             \/ Source!BaselineFails
  BY <1>8, <1>now DEF Source!Commit, Source!CleanPatchTouched, Source!ForgetFurnace,
     Source!NoteUnapplied, Source!BaselineFails
<1>9. CASE Source!InitRepository
  BY <1>9, <1>now DEF Source!InitRepository, Counted, Building
<1>10. CASE Source!Record
  BY <1>10, <1>now DEF Source!Record, Counted, Building
<1>11. CASE Source!RemoveBackup
  BY <1>11, <1>now, TheBackup DEF Moved, Source!RemoveBackup, Staged, Counted, Building
<1>12. CASE Source!FailsLate
  BY <1>12, <1>now, TheBackup DEF Moved, Source!FailsLate, Staged, Counted, Building
<1>13. CASE Source!PutBackFails \/ Source!Resume \/ Source!Resumed \/ Source!ResumeFails
  BY <1>13, <1>now DEF Source!PutBackFails, Source!Resume, Source!Resumed, Source!ResumeFails
<1>14. CASE Source!PutBack
  BY <1>14, <1>now, TheBackup DEF Moved, Source!PutBack, Staged
<1>15. CASE Source!Kill
  <2>1. UNCHANGED <<engine, worked, agreed, stamp>> /\ dpc' = "idle" /\ dpc # "idle"
    BY <1>15 DEF Source!Kill
  <2>2. \A e \in worked : Source!Intact(e) => Source!Intact(e)'
    BY <1>15 DEF Source!Kill, Source!Intact
  <2> QED BY <1>now, <2>1, <2>2
<1>16. CASE Source!Work
  BY <1>16, <1>now DEF Source!Work, Source!Intact
<1>17. CASE UNCHANGED Source!vars
  <2>1. UNCHANGED <<engine, backups, worked, agreed, stamp, dpc>>
    BY <1>17 DEF Source!vars
  <2> QED BY <1>now, <2>1 DEF Source!Intact
<1> QED BY <1>1, <1>2, <1>3, <1>4, <1>5, <1>6, <1>7, <1>8, <1>9, <1>10, <1>11, <1>12,
           <1>13, <1>14, <1>15, <1>16, <1>17 DEF Source!Next

(* The newest backup stays the running command's own.                       *)
LEMMA SetAsideStep ==
    ASSUME SourceBounds, Source!TypeOK, SourceInv, [Source!Next]_(Source!vars)
    PROVE  SetAside'
<1> USE DEF Source!Goto, Source!Fault, Source!trees, Source!states, Source!choice, Source!rest,
            Source!GiveUp, Source!GoBack, SetAside, Moved, Building
<1>now. /\ Counted /\ Ordered /\ Staged /\ Unborn /\ Lost /\ SetAside /\ SourceInv
      /\ \A e \in worked : Source!Intact(e) => Source!Intact(e)'
                             \/ (dpc = "unbackup" /\ e = Source!Backup.gen)
  BY KeptStep DEF SourceInv
<1>same. ASSUME UNCHANGED <<backups, agreed, worked>>, Moved' => Moved,
             dpc # "unbackup" \/ \A e \in worked : Source!Intact(e) => Source!Intact(e)'
      PROVE  SetAside'
  BY <1>now, <1>same DEF SourceGone
<1>1. CASE Source!Start \/ Source!Sweep \/ Source!Look \/ Source!Validate \/ Source!Invalidate
             \/ Source!Unlink \/ Source!Fetch \/
           Source!FetchFails \/ Source!Retry \/ Source!Promote \/ Source!Verify
             \/ Source!Unverifiable \/ Source!Describe \/
           Source!DescribeFails \/ Source!Discard
  BY <1>1, <1>now, <1>same DEF Source!Start, Source!Sweep, Source!Look, Source!Validate,
     Source!Invalidate, Source!Unlink, Source!Fetch, Source!FetchFails, Source!Retry,
     Source!Promote, Source!Verify, Source!Unverifiable, Source!Describe, Source!DescribeFails,
     Source!Discard
<1>2. CASE Source!Extract \/ Source!Extracted \/ Source!ExtractFails \/ Source!Install
             \/ Source!Activate \/ Source!AsideFails \/
           Source!UnactivateFails \/ Source!Drop
  BY <1>2, <1>now, <1>same DEF Source!Extract, Source!Extracted, Source!ExtractFails,
     Source!Install, Source!Activate, Source!AsideFails, Source!UnactivateFails, Source!Drop
<1>3. CASE Source!Unactivate
  BY <1>3 DEF Source!Unactivate
<1>4. CASE Source!Aside
  <2>1. engine \in backups' /\ engine.gen \in agreed /\ \A u \in backups' : u.gen <= engine.gen
    BY <1>4, <1>now DEF Source!Aside, Staged, Ordered, Source!Trees, Source!Gens, Source!TypeOK
  <2>2. engine.git = "unborn" => \A e \in worked : Source!Intact(e)' \/ e < engine.gen
    BY <1>4, <1>now DEF Source!Aside, Lost, SourceGone
  <2>3. \E t \in backups' : /\ \A u \in backups' : u.gen <= t.gen
                            /\ t.gen \in agreed
                            /\ t.git = "unborn" => \A e \in worked : Source!Intact(e)' \/ e < t.gen
    BY <2>1, <2>2
  <2> QED BY <1>4, <2>3 DEF Source!Aside, SourceGone
<1>5. CASE Source!InitRepository \/ Source!Commit \/ Source!CleanPatchTouched
             \/ Source!ForgetFurnace \/ Source!Record \/
           Source!NoteUnapplied \/ Source!BaselineFails
  BY <1>5, <1>now, <1>same DEF Source!InitRepository, Source!Commit, Source!CleanPatchTouched,
     Source!ForgetFurnace, Source!Record, Source!NoteUnapplied, Source!BaselineFails
<1>6. CASE Source!RemoveBackup
  BY <1>6 DEF Source!RemoveBackup
<1>7. CASE Source!FailsLate
  <2> DEFINE torn == [Source!Backup EXCEPT !.state = "torn"]
  <2>1. CASE backups' = backups /\ dpc = "note"
    BY <1>7, <1>now, <1>same, <2>1 DEF Source!FailsLate
  <2>2. CASE dpc = "unbackup" /\ backups' \in {backups, (backups \ {Source!Backup}) \cup {torn}}
    <3>1. /\ Source!Backup \in backups /\ \A t \in backups : t.gen <= Source!Backup.gen
          /\ Source!Backup.gen \in agreed
               /\ (Source!Backup.git = "unborn" => SourceGone(Source!Backup))
      BY <1>now, <2>2, TheBackup DEF Staged, Source!Trees, Source!Gens, Source!TypeOK
    <3>2. torn.gen = Source!Backup.gen /\ torn.git = Source!Backup.git
      BY <3>1 DEF Source!Trees
    <3>3. Source!Backup.git = "unborn" => \A e \in worked : Source!Intact(e)'
            \/ e < Source!Backup.gen
      BY <1>now, <3>1 DEF Unborn, SourceGone
    <3> HIDE DEF torn
    <3>4. PICK t \in backups' : t.gen = Source!Backup.gen /\ t.git = Source!Backup.git
      BY <2>2, <3>1, <3>2
    <3>5. /\ \A u \in backups' : u.gen <= t.gen
          /\ t.gen \in agreed /\ (t.git = "unborn" => SourceGone(t)')
      BY <2>2, <3>1, <3>2, <3>3, <3>4, <1>7 DEF Source!FailsLate, SourceGone
    <3> QED BY <1>7, <3>5 DEF Source!FailsLate
  <2> QED BY <1>7, <2>1, <2>2 DEF Source!FailsLate
<1>8. CASE Source!PutBack
  BY <1>8 DEF Source!PutBack
<1>9. CASE Source!PutBackFails \/ Source!Resume \/ Source!Resumed \/ Source!ResumeFails
             \/ Source!Kill
  BY <1>9, <1>now, <1>same DEF Source!PutBackFails, Source!Resume, Source!Resumed,
     Source!ResumeFails, Source!Kill
<1>10. CASE Source!Work
  <2>1. engine.gen \notin agreed \/ ~Moved
    BY <1>10, <1>now DEF Source!Work, Counted, Staged, Source!There, Source!Trees, Source!Gens,
       Source!TypeOK, Source!Nothing
  <2> QED BY <1>10, <1>now, <2>1 DEF Source!Work
<1>11. CASE UNCHANGED Source!vars
  <2>1. UNCHANGED <<engine, backups, worked, agreed, stamp, dpc, replacing>>
    BY <1>11 DEF Source!vars
  <2> QED BY <1>same, <2>1 DEF Source!Intact
<1> QED BY <1>1, <1>2, <1>3, <1>4, <1>5, <1>6, <1>7, <1>8, <1>9, <1>10, <1>11 DEF Source!Next

(* At first there is no engine.                                             *)
LEMMA SourceInit ==
    ASSUME SourceBounds, Source!Init
    PROVE  SourceInv
<1> USE DEF SourceBounds, Source!Init, Source!NoTree, Source!Nothing, Source!NoGen
<1>1. Source!TypeOK
  <2>1. metadata \in BOOLEAN /\ dforce \in BOOLEAN /\ replacing \in BOOLEAN /\ late \in BOOLEAN
    OBVIOUS
  <2>2. engine \in Source!Trees /\ fresh \in Source!Trees
    <3>1. Source!NoTree \in Source!Trees
      BY Typed
    <3>2. [gen |-> 1, git |-> "head", work |-> FALSE, state |-> "whole"] \in Source!Trees
      BY DEF Source!Trees, Source!Gens
    <3> QED BY <3>1, <3>2
  <2>3. stamp \in {Source!NoGen} \cup Source!Gens /\ furnace \in {Source!NoGen} \cup Source!Gens
    BY DEF Source!Gens
  <2> QED BY <2>1, <2>2, <2>3 DEF Source!TypeOK, Source!Archives, Source!PCs
<1>2. Counted /\ Ordered /\ Staged /\ Unborn /\ Lost /\ SetAside /\ Sound
  BY DEF Counted, Ordered, Staged, Unborn, Lost, SetAside, Sound, Source!WorkKept, SourceGone,
     Moved, Getting, Building, Source!There
<1> QED BY <1>1, <1>2 DEF SourceInv

(* Every step keeps all of it.                                              *)
LEMMA SourceStep ==
    ASSUME SourceBounds, SourceInv, [Source!Next]_(Source!vars)
    PROVE  SourceInv'
<1>1. Source!TypeOK
  BY DEF SourceInv
<1>2. Counted /\ Ordered /\ Staged /\ Unborn /\ Sound
  BY DEF SourceInv
<1> QED BY <1>1, <1>2, SourceTypeStep, CountedStep, OrderedStep, StagedStep, UnbornStep, SoundStep,
           LostStep, SetAsideStep DEF SourceInv

-----------------------------------------------------------------------------
(* Verification trees                                                       *)

(* Who holds the session lock: a creation from the copy to its end, and only *)
(* a command has entries left to write.                                     *)
TreeLocked ==
    /\ create \notin {"idle", "lock"} <=> session = "create"
    /\ pending # {} => session = "command"
    /\ withObjdir /\ create \notin {"idle", "lock"} => ~build

(* Creations and removals exclude each other, and a tree that is not there   *)
(* has nothing.                                                             *)
OneOfThem ==
    /\ create # "idle" => remove = "idle" /\ ~marker.there
    /\ create = "lock" => ~there
    /\ create \notin {"idle", "lock"} => there
    /\ marker.there => there
    /\ ~there => copied = Trees!NoCopy /\ ~traced

(* What has been copied is what the primary still has.                      *)
Copying ==
    /\ create = "copy" /\ ~traced => \A e \in Entries : copied[e] \in {Trees!Missing, primary[e]}
    /\ create \in {"rewrite", "configure", "mark"} /\ ~traced => copied = primary
    /\ create \in {"rewrite", "configure"} => objdir = "primary"
    /\ create = "mark" /\ withObjdir => objdir = "tree"

(* A test that no removal has overlooked stands on a marked tree.           *)
TreeTested ==
    test # "none" /\ ~doomed => marker.there /\ marker.objdir /\ remove = "idle"

(* The invariant of the trees.                                              *)
TreeInv == Trees!TypeOK /\ TreeLocked /\ OneOfThem /\ Copying /\ TreeTested /\ Trees!SnapshotTrue

(* No tree at all is one too.                                               *)
LEMMA NoTreeTyped ==
    ASSUME TreeBounds
    PROVE  /\ Trees!NoMarker \in [there : BOOLEAN, print : [Entries ->
                                  0..Trees!Missing], objdir : BOOLEAN]
           /\ Trees!NoCopy \in [Entries -> 0..Trees!Missing]
           /\ ~Trees!NoMarker.there /\ ~Trees!NoMarker.objdir
BY DEF TreeBounds, Trees!NoMarker, Trees!NoCopy, Trees!Missing

(* At first there is no tree.                                               *)
LEMMA TreeInit ==
    ASSUME TreeBounds, Trees!Init
    PROVE  TreeInv
<1> USE DEF TreeBounds, Trees!Init
<1>1. Trees!TypeOK
  <2>1. /\ build \in BOOLEAN /\ withObjdir \in BOOLEAN /\ there \in BOOLEAN
        /\ traced \in BOOLEAN /\ doomed \in BOOLEAN /\ cut \in BOOLEAN
    OBVIOUS
  <2> QED BY <2>1, NoTreeTyped DEF Trees!TypeOK
<1>2. TreeLocked /\ OneOfThem /\ Copying /\ TreeTested /\ Trees!SnapshotTrue
  BY NoTreeTyped DEF TreeLocked, OneOfThem, Copying, TreeTested, Trees!SnapshotTrue
<1> QED BY <1>1, <1>2 DEF TreeInv

(* A failed creation takes its tree away again, ...                         *)
LEMMA TreeUndoStep ==
    ASSUME TreeBounds, TreeInv, Trees!Undo
    PROVE  TreeInv'
<1> USE DEF TreeInv, Trees!TypeOK, TreeLocked, OneOfThem, Copying, TreeTested, Trees!SnapshotTrue,
            Trees!primaries, Trees!creation, Trees!tree, Trees!past, Trees!bounds
<1>1. Trees!TypeOK'
  <2>1. there' \in BOOLEAN /\ traced' \in BOOLEAN
    BY DEF Trees!Undo
  <2> QED BY <2>1, NoTreeTyped DEF Trees!Undo
<1> QED BY <1>1, NoTreeTyped DEF Trees!Undo

(* ... and so does a removal.                                               *)
LEMMA TreeRestStep ==
    ASSUME TreeBounds, TreeInv, Trees!RemoveRest
    PROVE  TreeInv'
<1> USE DEF TreeInv, Trees!TypeOK, TreeLocked, OneOfThem, Copying, TreeTested, Trees!SnapshotTrue,
            Trees!primaries, Trees!creation, Trees!tree, Trees!past, Trees!bounds
<1>1. Trees!TypeOK'
  <2>1. there' \in BOOLEAN /\ traced' \in BOOLEAN /\ cut' \in BOOLEAN
    BY Zenon DEF Trees!RemoveRest
  <2> QED BY <2>1, NoTreeTyped DEF Trees!RemoveRest
<1> QED BY <1>1, NoTreeTyped DEF Trees!RemoveRest

(* Every step keeps all of it.                                              *)
LEMMA TreeStep ==
    ASSUME TreeBounds, TreeInv, [Trees!Next]_(Trees!vars)
    PROVE  TreeInv'
<1> USE DEF TreeBounds, TreeInv, Trees!TypeOK, TreeLocked, OneOfThem, Copying, TreeTested,
            Trees!SnapshotTrue, Trees!Missing, Trees!NoCopy, Trees!NoMarker, Trees!primaries,
            Trees!creation, Trees!tree, Trees!past, Trees!bounds
<1>1. CASE Trees!CommandBegins
  BY <1>1 DEF Trees!CommandBegins
<1>2. CASE Trees!CommandEnds \/ Trees!CommandKilled
  BY <1>2 DEF Trees!CommandEnds, Trees!CommandKilled
<1>3. CASE Trees!Building
  BY <1>3 DEF Trees!Building
<1>4. ASSUME NEW e \in Entries, Trees!CommandWrites(e) PROVE TreeInv'
  BY <1>4 DEF Trees!CommandWrites
<1>5. ASSUME NEW e \in Entries, Trees!Edit(e) PROVE TreeInv'
  BY <1>5 DEF Trees!Edit
<1>6. ASSUME NEW e \in Entries, Trees!CloneEntry(e) PROVE TreeInv'
  BY <1>6 DEF Trees!CloneEntry
<1>7. ASSUME NEW e \in Entries, Trees!RemoveEntry(e) PROVE TreeInv'
  BY <1>7 DEF Trees!RemoveEntry
<1>8. CASE Trees!Create
  BY <1>8 DEF Trees!Create
<1>9. CASE Trees!Lock
  BY <1>9 DEF Trees!Lock
<1>10. CASE Trees!Cloned
  BY <1>10 DEF Trees!Cloned
<1>11. CASE Trees!Rewrite
  BY <1>11 DEF Trees!Rewrite
<1>12. CASE Trees!Reconfigure
  BY <1>12 DEF Trees!Reconfigure
<1>13. CASE Trees!Mark
  BY <1>13 DEF Trees!Mark
<1>14. CASE Trees!CreateFails
  BY <1>14 DEF Trees!CreateFails
<1>15. CASE Trees!Undo
  BY <1>15, TreeUndoStep
<1>16. CASE Trees!CreateKilled
  BY <1>16 DEF Trees!CreateKilled
<1>17. CASE Trees!Remove
  BY <1>17 DEF Trees!Remove
<1>18. CASE Trees!RemoveRest
  BY <1>18, TreeRestStep
<1>19. CASE Trees!RemoveKilled
  BY <1>19 DEF Trees!RemoveKilled
<1>20. CASE Trees!Test
  BY <1>20 DEF Trees!Test
<1>21. CASE Trees!TestRecords
  BY <1>21 DEF Trees!TestRecords
<1>22. CASE Trees!TestEnds
  <2>1. doomed' \in BOOLEAN
    BY <1>22 DEF Trees!TestEnds
  <2> QED BY <1>22, <2>1 DEF Trees!TestEnds
<1>23. CASE UNCHANGED Trees!vars
  BY <1>23 DEF Trees!vars
<1> QED BY ZenonT(60), <1>1, <1>2, <1>3, <1>4, <1>5, <1>6, <1>7, <1>8, <1>9, <1>10, <1>11, <1>12,
          <1>13, <1>14, <1>15, <1>16, <1>17, <1>18, <1>19, <1>20, <1>21, <1>22, <1>23 DEF Trees!Next

-----------------------------------------------------------------------------
(* The import                                                               *)

(* A set of numbers is all of them once it has zero and every successor.     *)
LEMMA Induct ==
    ASSUME NEW T, T \subseteq Nat, 0 \in T, \A j \in T : j + 1 \in T
    PROVE  T = Nat
<1>1. SUFFICES ASSUME Nat \ T # {} PROVE FALSE
  OBVIOUS
<1>2. PICK j \in Nat \ T : \A m \in Nat \ T : j <= m
  BY <1>1, Least
<1>3. j # 0 /\ j - 1 \in Nat /\ j - 1 \notin Nat \ T
  BY <1>2, SMT
<1>4. j \in T
  BY <1>3, SMT
<1> QED BY <1>2, <1>4

(* The hunks the patches bring to a file, and what the fold of them may be. *)
Brought(x) == UNION {bodies[p][x] : p \in ImportPatches}
Baselines(x) == [ok : BOOLEAN, content : SUBSET Brought(x)]


(* One patch of the fold. *)
Folds(x, base, k) ==
    LET section == bodies[Order[k]][x]
        absent == x \in Added /\ base.content = {} /\ New \notin section
    IN  IF ~base.ok \/ absent THEN base
        ELSE IF New \in section \/ Import!Fits(x, section, base.content)
        THEN [ok |-> TRUE, content |-> base.content \cup section]
        ELSE [base EXCEPT !.ok = FALSE]

(* One patch keeps the fold within what the patches bring, ...              *)
LEMMA FoldTyped ==
    ASSUME ImportBounds, NEW x \in EngineFiles, NEW r \in Baselines(x), NEW k \in 1..Len(Order)
    PROVE  Folds(x, r, k) \in Baselines(x)
<1>1. bodies[Order[k]][x] \subseteq Brought(x)
  BY DEF ImportBounds, Brought
<1>2. CASE ~r.ok \/ (x \in Added /\ r.content = {} /\ New \notin bodies[Order[k]][x])
  BY <1>2 DEF Folds
<1>3. CASE ~(~r.ok \/ (x \in Added /\ r.content = {} /\ New \notin bodies[Order[k]][x]))
  <2>1. [ok |-> TRUE, content |-> r.content \cup bodies[Order[k]][x]] \in Baselines(x)
    BY <1>1 DEF Baselines
  <2>2. [r EXCEPT !.ok = FALSE] \in Baselines(x)
    BY DEF Baselines
  <2> HIDE DEF Baselines
  <2> QED BY <1>3, <2>1, <2>2 DEF Folds
<1> QED BY <1>2, <1>3

(* ... what the queue makes of a file is what it comes to patch by patch, ... *)
LEMMA ExpectedFolds ==
    ASSUME ImportBounds, NEW x \in EngineFiles
    PROVE  \E b : /\ b[0] = [ok |-> TRUE, content |-> {}]
                  /\ \A k \in 1..Len(Order) : b[k] = Folds(x, b[k - 1], k)
                  /\ Import!Expected(x) = b[Len(Order)]
<1> DEFINE L == Len(Order)
           z == [ok |-> TRUE, content |-> {}]
           S == Baselines(x)
           Up(b) == [k \in 0..L |-> IF k = 0 THEN z ELSE Folds(x, b[k - 1], k)]
           F == CHOOSE b : b = Up(b)
           T == {m \in Nat : m <= L => \E b \in [0..m -> S] :
                                 b[0] = z /\ \A k \in 1..m : b[k] = Folds(x, b[k - 1], k)}
<1>1. L \in Nat /\ z \in S
  BY DEF ImportBounds, Baselines
<1>2. \A r \in S, k \in 1..L : Folds(x, r, k) \in S
  BY FoldTyped
<1>3. Import!Expected(x) = F[L]
  BY DEF Import!Expected, Folds
<1> HIDE DEF S, z, L
<1>4. T = Nat
  <2>1. 0 \in T
    <3> DEFINE h == [k \in 0..0 |-> z]
    <3>1. h \in [0..0 -> S] /\ h[0] = z
      BY <1>1
    <3>2. \A k \in 1..0 : h[k] = Folds(x, h[k - 1], k)
      OBVIOUS
    <3> HIDE DEF h
    <3>3. \E b \in [0..0 -> S] : b[0] = z /\ \A k \in 1..0 : b[k] = Folds(x, b[k - 1], k)
      BY <3>1, <3>2
    <3> QED BY <3>3
  <2>2. \A j \in T : j + 1 \in T
    <3>1. SUFFICES ASSUME NEW j \in T, j + 1 <= L
                   PROVE  \E b \in [0..j + 1 -> S] :
                              b[0] = z /\ \A k \in 1..j + 1 : b[k] = Folds(x, b[k - 1], k)
      OBVIOUS
    <3>2. PICK b \in [0..j -> S] : b[0] = z /\ \A k \in 1..j : b[k] = Folds(x, b[k - 1], k)
      BY <3>1, <1>1
    <3> DEFINE h == [k \in 0..j + 1 |-> IF k <= j THEN b[k] ELSE Folds(x, b[j], j + 1)]
    <3>3. h \in [0..j + 1 -> S]
      BY <3>1, <3>2, <1>2, <1>1
    <3>4. h[0] = z /\ \A k \in 1..j + 1 : h[k] = Folds(x, h[k - 1], k)
      BY <3>1, <3>2, <1>1
    <3> QED BY <3>3, <3>4
  <2> HIDE DEF T
  <2> QED BY <2>1, <2>2, Induct DEF T
<1>5. \E b : b = Up(b)
  <2>1. PICK b \in [0..L -> S] : b[0] = z /\ \A k \in 1..L : b[k] = Folds(x, b[k - 1], k)
    <3>1. L \in T
      BY <1>1, <1>4
    <3>2. L <= L
      BY <1>1
    <3> QED BY <3>1, <3>2
  <2>2. b = Up(b)
    BY <2>1, <1>1
  <2> QED BY <2>2
<1>6. F = Up(F)
  BY <1>5
<1>7. F[0] = z /\ \A k \in 1..L : F[k] = Folds(x, F[k - 1], k)
  <2>1. \A k \in 0..L : F[k] = IF k = 0 THEN z ELSE Folds(x, F[k - 1], k)
    <3> HIDE DEF F
    <3> QED BY <1>6
  <2> HIDE DEF F
  <2> QED BY <2>1, <1>1
<1> HIDE DEF F
<1> QED BY <1>3, <1>7 DEF z, L

(* ... and made of their hunks: computePatchedContent, by induction over the queue. *)
LEMMA ExpectedTyped ==
    ASSUME ImportBounds, NEW x \in EngineFiles
    PROVE  Import!Expected(x) \in Baselines(x)
<1> DEFINE L == Len(Order)
<1>1. L \in Nat /\ [ok |-> TRUE, content |-> {}] \in Baselines(x)
  BY DEF ImportBounds, Baselines
<1>2. PICK b : /\ b[0] = [ok |-> TRUE, content |-> {}]
               /\ \A k \in 1..L : b[k] = Folds(x, b[k - 1], k)
               /\ Import!Expected(x) = b[L]
  BY ExpectedFolds
<1> DEFINE U == {m \in Nat : m <= L => b[m] \in Baselines(x)}
<1> HIDE DEF L
<1>3. U = Nat
  <2>1. 0 \in U
    BY <1>1, <1>2
  <2>2. ASSUME NEW j \in U PROVE j + 1 \in U
    <3>1. SUFFICES ASSUME j + 1 <= L PROVE b[j + 1] \in Baselines(x)
      OBVIOUS
    <3>2. b[j] \in Baselines(x) /\ j + 1 \in 1..L /\ b[j + 1] = Folds(x, b[j], j + 1)
      BY <1>1, <1>2, <3>1
    <3> QED BY <3>2, FoldTyped DEF L
  <2> HIDE DEF U
  <2> QED BY <2>1, <2>2, Induct DEF U
<1> QED BY <1>1, <1>2, <1>3

(* What the import keeps of a patch it has applied.                         *)
Patched == [patch : ImportPatches, saved : SUBSET (EngineFiles \X SUBSET Changes)]

(* The invariant the types rest on: inside a patch the index is in range, and *)
(* a running import is one of those counted.                                  *)
InRange ==
    /\ ipc \in {"checkout", "delete", "forward", "failed"} => i <= until
    /\ again <= imports
    /\ ipc \notin {"idle", "unpend"} => again < imports

(* The types that every step keeps.                                         *)
ImportTyped == Import!TypeOK /\ InRange

(* What the queue makes of a file is made of hunks.                         *)
LEMMA ExpectedSubset ==
    ASSUME ImportBounds, Import!TypeOK, NEW x \in EngineFiles
    PROVE  Import!Expected(x).content \in SUBSET Changes
<1>1. Import!Expected(x) \in Baselines(x)
  BY ExpectedTyped
<1>2. Brought(x) \subseteq Changes
  BY DEF Brought, Import!TypeOK
<1> QED BY <1>1, <1>2 DEF Baselines

(* A sequence with an element more, and with one less.                      *)
LEMMA Sequence ==
    ASSUME NEW R, NEW s \in Seq(R), NEW r \in R
    PROVE  /\ Append(s, r) \in Seq(R) /\ Len(Append(s, r)) = Len(s) + 1
           /\ s # <<>> => /\ SubSeq(s, 1, Len(s) - 1) \in Seq(R)
                          /\ Len(SubSeq(s, 1, Len(s) - 1)) = Len(s) - 1
<1>1. Append(s, r) \in Seq(R) /\ Len(Append(s, r)) = Len(s) + 1
  OBVIOUS
<1>2. ASSUME s # <<>>
      PROVE  /\ SubSeq(s, 1, Len(s) - 1) \in Seq(R)
             /\ Len(SubSeq(s, 1, Len(s) - 1)) = Len(s) - 1
  <2>1. Len(s) \in Nat /\ Len(s) - 1 <= Len(s) /\ Len(s) - 1 \in Nat
    BY <1>2
  <2>2. \A j \in 1..Len(s) - 1 : s[j] \in R
    BY <2>1
  <2> DEFINE k == Len(s) - 1
  <2>3. 1 \in Int /\ k \in Int /\ \A j \in 1..k : s[j] \in R
    BY <2>1, <2>2
  <2> HIDE DEF k
  <2>4. SubSeq(s, 1, k) \in Seq(R) /\ Len(SubSeq(s, 1, k)) = IF 1 <= k THEN k - 1 + 1 ELSE 0
    BY <2>3, SubSeqProperties
  <2>5. k \in Nat /\ k = Len(s) - 1
    BY <2>1 DEF k
  <2> QED BY <2>4, <2>5
<1> QED BY <1>1, <1>2

(* At first nothing is imported.                                            *)
LEMMA InitTyped ==
    ASSUME ImportBounds, Import!Init
    PROVE  ImportTyped
<1>1. Len(Order) \in Nat /\ Len(Order) >= 1
  BY DEF ImportBounds
<1>2. applied \in Seq(Patched) /\ Len(applied) = 0
  BY DEF Import!Init
<1>3. /\ tree \in [EngineFiles -> SUBSET Changes]
      /\ bodies \in [ImportPatches -> [EngineFiles -> SUBSET Changes]]
      /\ saved \subseteq EngineFiles \X SUBSET Changes
  BY DEF ImportBounds, Import!Init, Import!Clean
<1>4. /\ until \in 1..Len(Order) /\ i \in 1..Len(Order) + 1 /\ Len(applied) < i
      /\ again \in 0..MaxImports /\ imports \in 0..MaxImports
      /\ changes \in 0..MaxChanges /\ gitFaults \in 0..MaxGitFaults
  BY <1>1, <1>2 DEF ImportBounds, Import!Init
<1>5. InRange
  BY DEF Import!Init, InRange
<1> QED BY <1>2, <1>3, <1>4, <1>5 DEF Import!Init, ImportTyped, Import!TypeOK, Patched

(* What a step of the import does to the rest of the types, once the tree is typed. *)
ImportTrees == [EngineFiles -> SUBSET Changes]

(* The patch being applied, and the contents a rollback puts back.          *)
LEMMA CurrentTyped ==
    ASSUME ImportBounds, Import!TypeOK, i <= until
    PROVE  /\ Import!Current \in ImportPatches
           /\ \A x \in EngineFiles : bodies[Import!Current][x] \in SUBSET Changes
BY DEF ImportBounds, Import!TypeOK, Import!Current

LEMMA PutBackTyped ==
    ASSUME Import!TypeOK, NEW s \in SUBSET (EngineFiles \X SUBSET Changes)
    PROVE  Import!PutBack(s) \in ImportTrees
<1>1. SUFFICES ASSUME NEW x \in EngineFiles
              PROVE  (IF \E o \in s : o[1] = x THEN (CHOOSE o \in s : o[1] = x)[2] ELSE tree[x])
                         \in SUBSET Changes
  BY DEF Import!PutBack, ImportTrees
<1>2. CASE \E o \in s : o[1] = x
  <2>1. (CHOOSE o \in s : o[1] = x) \in s
    BY <1>2
  <2> QED BY <2>1, <1>2
<1>3. CASE ~ \E o \in s : o[1] = x
  BY <1>3 DEF Import!TypeOK
<1> QED BY <1>2, <1>3

(* A command that ends leaves every variable in its type, ...               *)
LEMMA IdleTyped ==
    ASSUME ImportBounds, ImportTyped, Import!Idle, tree' \in ImportTrees, bodies' = bodies,
           unresolved' \in ImportPatches \cup {NoPatch},
           again' \in 0..MaxImports, imports' = imports, again' <= imports,
           changes' \in 0..MaxChanges, gitFaults' \in 0..MaxGitFaults
    PROVE  ImportTyped'
<1>1. Len(Order) \in Nat /\ Len(Order) >= 1
  BY DEF ImportBounds
<1>2. applied' \in Seq(Patched) /\ Len(applied') = 0
  BY DEF Import!Idle
<1>3. InRange' /\ until' \in 1..Len(Order) /\ i' \in 1..Len(Order) + 1
  BY <1>1 DEF Import!Idle, InRange
<1>4. Len(applied') < i'
  BY <1>2 DEF Import!Idle
<1>5. /\ tree' \in [EngineFiles -> SUBSET Changes]
      /\ bodies' \in [ImportPatches -> [EngineFiles -> SUBSET Changes]]
      /\ saved' \subseteq EngineFiles \X SUBSET Changes
      /\ imports' \in 0..MaxImports
  BY DEF ImportTyped, Import!TypeOK, Import!Idle, ImportTrees
<1>6. /\ ipc' = "idle" /\ firstFailed' \in ImportPatches \cup {NoPatch} /\ attempt' = "first"
      /\ force' \in BOOLEAN /\ onward' \in BOOLEAN /\ settled' \in BOOLEAN /\ disturbed' \in BOOLEAN
  BY DEF Import!Idle
<1> QED BY <1>2, <1>3, <1>4, <1>5, <1>6 DEF ImportTyped, Import!TypeOK, Patched

(* ... and so does every step of one: its start, ...                        *)
LEMMA StartTyped ==
    ASSUME ImportBounds, ImportTyped, NEW l \in 1..Len(Order), NEW w \in BOOLEAN, NEW c \in BOOLEAN,
           Import!Start(l, w, c)
    PROVE  ImportTyped'
BY DEF ImportTyped, Import!TypeOK, InRange, Import!Start, Import!progress, Import!watch,
   ImportBounds

(* ... the gate, ...                                                        *)
LEMMA CheckTyped ==
    ASSUME ImportBounds, ImportTyped, Import!Check
    PROVE  ImportTyped'
<1>1. CASE Import!Idle /\ UNCHANGED again
  <2>1. /\ tree' \in ImportTrees /\ bodies' = bodies /\ unresolved' \in ImportPatches \cup {NoPatch}
        /\ again' \in 0..MaxImports /\ imports' = imports /\ again' <= imports
        /\ changes' \in 0..MaxChanges /\ gitFaults' \in 0..MaxGitFaults
    BY <1>1 DEF Import!Check, ImportTyped, Import!TypeOK, InRange, ImportTrees, Import!budget
  <2> QED BY <1>1, <2>1, IdleTyped
<1>2. CASE /\ ipc' = "reverse" /\ seen' = tree
           /\ settled' = (/\ until = Len(Order)
                          /\ \A x \in Import!Claimed : Import!Expected(x).ok
                                                         /\ tree[x] = Import!Expected(x).content)
           /\ UNCHANGED <<Import!command, Import!progress, disturbed, again>>
  <2>1. settled' \in BOOLEAN
    BY <1>2
  <2> QED BY <1>2, <2>1 DEF Import!Check, ImportTyped, Import!TypeOK, InRange, Import!command,
             Import!progress, Import!budget
<1> QED BY <1>1, <1>2 DEF Import!Check

(* ... giving a patch up, ...                                               *)
LEMMA GiveUpTyped ==
    ASSUME ImportBounds, ImportTyped, Import!GiveUp, i <= until, ipc # "idle", ipc # "unpend",
           tree' \in ImportTrees, bodies' = bodies,
           unresolved' = unresolved, UNCHANGED Import!command,
           settled' = settled, disturbed' \in BOOLEAN, again' = again, imports' = imports,
           changes' = changes, gitFaults' \in 0..MaxGitFaults
    PROVE  ImportTyped'
<1>1. Import!Current \in ImportPatches
  BY CurrentTyped DEF ImportTyped
<1>2. firstFailed' \in ImportPatches \cup {NoPatch}
  BY <1>1 DEF Import!GiveUp, Import!FirstFailed, ImportTyped, Import!TypeOK
<1>3. CASE onward
  BY <1>2, <1>3 DEF Import!GiveUp, Import!Advance, ImportTyped, Import!TypeOK, InRange,
     ImportTrees, Import!command, ImportBounds
<1>4. CASE ~onward
  BY <1>2, <1>4 DEF Import!GiveUp, Import!Advance, ImportTyped, Import!TypeOK, InRange,
     ImportTrees, Import!command, ImportBounds
<1> QED BY <1>3, <1>4

(* ... putting new files aside, ...                                         *)
LEMMA ApplyTyped ==
    ASSUME ImportBounds, ImportTyped,
           Import!Reverse \/ Import!Checkout \/ Import!CheckoutFails \/ Import!Delete
    PROVE  ImportTyped'
<1>1. CASE Import!Reverse
  <2>1. tree' \in ImportTrees
    BY <1>1 DEF Import!Reverse, ImportTyped, Import!TypeOK, ImportTrees
  <2> QED BY <1>1, <2>1 DEF Import!Reverse, ImportTyped, Import!TypeOK, InRange, ImportTrees,
             Import!command, Import!progress, Import!watch, Import!budget
<1>2. CASE Import!Checkout
  <2>1. tree' \in ImportTrees
    BY <1>2 DEF Import!Checkout, ImportTyped, Import!TypeOK, ImportTrees
  <2> QED BY <1>2, <2>1 DEF Import!Checkout, ImportTyped, Import!TypeOK, InRange, ImportTrees,
             Import!command, Import!progress, Import!watch, Import!budget
<1>3. CASE Import!CheckoutFails
  BY <1>3 DEF Import!CheckoutFails, ImportTyped, Import!TypeOK, InRange, ImportTrees,
     Import!command, Import!progress, ImportBounds
<1>4. CASE Import!Delete
  <2>1. tree' \in ImportTrees
    BY <1>4 DEF Import!Delete, ImportTyped, Import!TypeOK, ImportTrees
  <2> QED BY <1>4, <2>1 DEF Import!Delete, ImportTyped, Import!TypeOK, InRange, ImportTrees,
             Import!command, Import!progress, Import!watch, Import!budget
<1> QED BY <1>1, <1>2, <1>3, <1>4

(* ... git apply, ...                                                       *)
LEMMA ForwardTyped ==
    ASSUME ImportBounds, ImportTyped, Import!Forward
    PROVE  ImportTyped'
<1>0. i <= until
  BY DEF Import!Forward, ImportTyped, InRange
<1>1. Import!Current \in ImportPatches /\ \A x \in EngineFiles : Import!Body[x] \in SUBSET Changes
  BY <1>0, CurrentTyped DEF ImportTyped, Import!Body
<1>2. CASE \A x \in Import!Touched(Import!Current) : Import!Fits(x, Import!Body[x], tree[x])
  <2>1. tree' \in ImportTrees
    BY <1>1, <1>2 DEF Import!Forward, ImportTyped, Import!TypeOK, ImportTrees
  <2>2. [patch |-> Import!Current, saved |-> saved] \in Patched
    BY <1>1 DEF ImportTyped, Import!TypeOK, Patched
  <2>3. applied' \in Seq(Patched) /\ Len(applied') = Len(applied) + 1
    <3>1. applied \in Seq(Patched)
            /\ applied' = Append(applied, [patch |-> Import!Current, saved |-> saved])
      BY <1>2 DEF Import!Forward, ImportTyped, Import!TypeOK, Patched
    <3> QED BY <3>1, <2>2, Sequence
  <2>4. i' = i + 1 /\ ipc' = "reverse" /\ attempt' = "first" /\ saved' = {}
    BY <1>2 DEF Import!Forward, Import!Advance
  <2> QED BY <1>0, <1>2, <2>1, <2>3, <2>4 DEF Import!Forward, ImportTyped, Import!TypeOK, InRange,
             ImportTrees, Patched, Import!command, Import!watch, Import!budget
<1>3. CASE ~ \A x \in Import!Touched(Import!Current) : Import!Fits(x, Import!Body[x], tree[x])
  BY <1>0, <1>3 DEF Import!Forward, ImportTyped, Import!TypeOK, InRange, Import!command,
     Import!progress, Import!watch, Import!budget
<1> QED BY <1>2, <1>3

(* ... with --reject, which applies a part of each section, ...             *)
LEMMA MatchingPart ==
    ASSUME NEW x, NEW section, NEW content
    PROVE  Import!Matching(x, section, content) \subseteq section
BY DEF Import!Matching

(* ... with --reject, ...                                                   *)
LEMMA RejectTyped ==
    ASSUME ImportBounds, ImportTyped, Import!Reject \/ Import!OverwriteFails \/
           Import!RejectFails
    PROVE  ImportTyped'
<1>0. i <= until /\ ipc # "idle" /\ ipc # "unpend"
  BY DEF Import!Reject, Import!OverwriteFails, Import!RejectFails, ImportTyped, InRange
<1>1. CASE Import!Reject
  <2>1. \A x \in EngineFiles : Import!Body[x] \in SUBSET Changes
    BY <1>0, CurrentTyped DEF ImportTyped, Import!Body
  <2>2. tree' \in ImportTrees
    <3>1. \A x \in EngineFiles : Import!Matching(x, Import!Body[x], tree[x]) \subseteq Import!Body[x]
      BY MatchingPart
    <3> HIDE DEF Import!Matching
    <3> QED BY <1>1, <2>1, <3>1 DEF Import!Reject, ImportTyped, Import!TypeOK, ImportTrees
  <2>3. /\ bodies' = bodies /\ unresolved' = unresolved /\ UNCHANGED Import!command
        /\ settled' = settled /\ disturbed' \in BOOLEAN /\ again' = again /\ imports' = imports
        /\ changes' = changes /\ gitFaults' \in 0..MaxGitFaults /\ Import!GiveUp
    BY <1>1 DEF Import!Reject, ImportTyped, Import!TypeOK, Import!watch, Import!budget
  <2> QED BY <1>0, <2>2, <2>3, GiveUpTyped
<1>2. CASE Import!OverwriteFails
  <2>3. /\ tree' \in ImportTrees
        /\ bodies' = bodies /\ unresolved' = unresolved /\ UNCHANGED Import!command
        /\ settled' = settled /\ disturbed' \in BOOLEAN /\ again' = again /\ imports' = imports
        /\ changes' = changes /\ gitFaults' \in 0..MaxGitFaults /\ Import!GiveUp
    BY <1>2 DEF Import!OverwriteFails, ImportTyped, Import!TypeOK, ImportTrees, ImportBounds
  <2> QED BY <1>0, <2>3, GiveUpTyped
<1>3. CASE Import!RejectFails
  <2>3. /\ tree' \in ImportTrees
        /\ bodies' = bodies /\ unresolved' = unresolved /\ UNCHANGED Import!command
        /\ settled' = settled /\ disturbed' \in BOOLEAN /\ again' = again /\ imports' = imports
        /\ changes' = changes /\ gitFaults' \in 0..MaxGitFaults /\ Import!GiveUp
    BY <1>3 DEF Import!RejectFails, ImportTyped, Import!TypeOK, ImportTrees, Import!watch,
       Import!budget
  <2> QED BY <1>0, <2>3, GiveUpTyped
<1> QED BY <1>1, <1>2, <1>3

(* ... its retry, ...                                                       *)
LEMMA RetryTyped ==
    ASSUME ImportBounds, ImportTyped, Import!Overwrite \/ Import!TryReject
    PROVE  ImportTyped'
<1>0. i <= until
  BY DEF Import!Overwrite, Import!TryReject, ImportTyped, InRange
<1>1. CASE Import!Overwrite
  <2>1. \A x \in EngineFiles : Import!Body[x] \in SUBSET Changes
    BY <1>0, CurrentTyped DEF ImportTyped, Import!Body
  <2>2. tree' \in ImportTrees
    BY <1>1, <2>1 DEF Import!Overwrite, ImportTyped, Import!TypeOK, ImportTrees
  <2>3. saved' \in SUBSET (EngineFiles \X SUBSET Changes)
    BY <1>1 DEF Import!Overwrite, Import!InTheWay, Import!Touched, ImportTyped, Import!TypeOK
  <2> QED BY <1>1, <2>2, <2>3 DEF Import!Overwrite, ImportTyped, Import!TypeOK, InRange,
             ImportTrees, Import!command, Import!watch, Import!budget
<1>2. CASE Import!TryReject
  <2>1. tree' \in ImportTrees
    BY <1>2, PutBackTyped DEF Import!TryReject, ImportTyped, Import!TypeOK
  <2> QED BY <1>2, <2>1 DEF Import!TryReject, ImportTyped, Import!TypeOK, InRange, ImportTrees,
             Import!command, Import!watch, Import!budget
<1> QED BY <1>1, <1>2

(* ... the rollback, ...                                                    *)
LEMMA RollbackTyped ==
    ASSUME ImportBounds, ImportTyped, Import!Rollback
    PROVE  ImportTyped'
<1> DEFINE done == applied[Len(applied)]
<1>1. applied \in Seq(Patched) /\ applied # <<>>
  BY DEF Import!Rollback, ImportTyped, Import!TypeOK, Patched
<1>2. done \in Patched
  BY <1>1
<1>3. /\ SubSeq(applied, 1, Len(applied) - 1) \in Seq(Patched)
      /\ Len(SubSeq(applied, 1, Len(applied) - 1)) = Len(applied) - 1
  BY <1>1, <1>2, Sequence
<1> DEFINE off == IF \A x \in Import!Touched(done.patch) : Import!Unfits(x, bodies[done.patch][x], tree[x])
                  THEN [x \in EngineFiles |-> tree[x] \ bodies[done.patch][x]]
                  ELSE tree
<1>4. off \in ImportTrees
  BY DEF ImportTyped, Import!TypeOK, ImportTrees
<1>5. tree' = [x \in EngineFiles |->
                 IF \E o \in done.saved : o[1] = x
                 THEN (CHOOSE o \in done.saved : o[1] = x)[2] ELSE off[x]]
  BY DEF Import!Rollback
<1>6. done.saved \in SUBSET (EngineFiles \X SUBSET Changes)
  BY <1>2 DEF Patched
<1> HIDE DEF off, done
<1>7. tree' \in ImportTrees
  <2>1. SUFFICES ASSUME NEW x \in EngineFiles
                PROVE  (IF \E o \in done.saved : o[1] = x
                        THEN (CHOOSE o \in done.saved : o[1] = x)[2] ELSE off[x]) \in SUBSET Changes
    BY <1>5 DEF ImportTrees
  <2>2. CASE \E o \in done.saved : o[1] = x
    <3>1. (CHOOSE o \in done.saved : o[1] = x) \in done.saved
      BY <2>2
    <3> QED BY <3>1, <2>2, <1>6
  <2>3. CASE ~ \E o \in done.saved : o[1] = x
    BY <2>3, <1>4 DEF ImportTrees
  <2> QED BY <2>2, <2>3
<1> QED BY <1>1, <1>3, <1>7 DEF Import!Rollback, ImportTyped, Import!TypeOK, InRange, ImportTrees,
           Patched, Import!command, Import!watch, Import!budget

(* ... the end, ...                                                         *)
LEMMA EndTyped ==
    ASSUME ImportBounds, ImportTyped, Import!RolledBack \/ Import!Finish \/ Import!Report \/
           Import!Close \/ Import!Kill
    PROVE  ImportTyped'
<1>1. CASE Import!RolledBack \/ Import!Finish
  BY <1>1 DEF Import!RolledBack, Import!Finish, ImportTyped, Import!TypeOK, InRange,
     Import!command, Import!progress, Import!watch, Import!budget
<1>2. CASE Import!Report \/ Import!Close \/ Import!Kill
  <2>1. Import!Idle
    BY <1>2 DEF Import!Report, Import!Close, Import!Kill
  <2>2. /\ tree' \in ImportTrees /\ bodies' = bodies /\ unresolved' \in ImportPatches \cup {NoPatch}
        /\ again' \in 0..MaxImports /\ imports' = imports /\ again' <= imports
    BY <1>2 DEF Import!Report, Import!Close, Import!Kill, ImportTyped, Import!TypeOK, InRange,
       ImportTrees, Import!budget, ImportBounds
  <2>3. changes' \in 0..MaxChanges /\ gitFaults' \in 0..MaxGitFaults
    BY <1>2 DEF Import!Report, Import!Close, Import!Kill, ImportTyped, Import!TypeOK,
       Import!budget, ImportBounds
  <2> QED BY <2>1, <2>2, <2>3, IdleTyped
<1> QED BY <1>1, <1>2

(* ... resolve, ...                                                         *)
LEMMA ResolveTyped ==
    ASSUME ImportBounds, ImportTyped, Import!Resolve \/ Import!Unpend \/ Import!Reset
    PROVE  ImportTyped'
<1>1. CASE Import!Resolve
  <2>1. unresolved \in ImportPatches
    BY <1>1 DEF Import!Resolve, ImportTyped, Import!TypeOK
  <2>2. bodies' \in [ImportPatches -> [EngineFiles -> SUBSET Changes]]
    BY <1>1, <2>1 DEF Import!Resolve, ImportTyped, Import!TypeOK
  <2> QED BY <1>1, <2>2 DEF Import!Resolve, ImportTyped, Import!TypeOK, InRange, Import!command,
             Import!progress, Import!budget, ImportBounds
<1>2. CASE Import!Unpend
  BY <1>2 DEF Import!Unpend, ImportTyped, Import!TypeOK, InRange, Import!command, Import!progress,
     Import!watch, Import!budget
<1>3. CASE Import!Reset
  BY <1>3 DEF Import!Reset, Import!Clean, ImportTyped, Import!TypeOK, InRange, Import!command,
     Import!progress, ImportBounds
<1> QED BY <1>1, <1>2, <1>3

(* ... discard, reset ...                                                   *)
LEMMA DiscardTyped ==
    ASSUME ImportBounds, ImportTyped, NEW x \in EngineFiles, NEW u \in BOOLEAN, Import!Discard(x, u)
    PROVE  ImportTyped'
<1>1. Import!Expected(x).content \in SUBSET Changes
  BY ExpectedSubset DEF ImportTyped
<1>2. tree' \in ImportTrees
  BY <1>1 DEF Import!Discard, ImportTyped, Import!TypeOK, ImportTrees
<1> QED BY <1>2 DEF Import!Discard, ImportTyped, Import!TypeOK, InRange, ImportTrees,
           Import!command, Import!progress, ImportBounds

(* ... and the operator.                                                    *)
LEMMA EditTyped ==
    ASSUME ImportBounds, ImportTyped, NEW x \in EngineFiles, NEW h \in Edits, Import!Edit(x, h)
    PROVE  ImportTyped'
<1>1. h \in Changes /\ New \in Changes
  BY DEF ImportBounds
<1>2. tree' \in ImportTrees
  BY <1>1 DEF Import!Edit, ImportTyped, Import!TypeOK, ImportTrees
<1>3. disturbed' \in BOOLEAN
  BY DEF Import!Edit, ImportTyped, Import!TypeOK
<1> QED BY <1>2, <1>3 DEF Import!Edit, ImportTyped, Import!TypeOK, InRange, ImportTrees,
           Import!command, Import!progress, ImportBounds

(* Every step keeps the types.                                              *)
LEMMA NextTyped ==
    ASSUME ImportBounds, ImportTyped, Import!Next
    PROVE  ImportTyped'
BY StartTyped, CheckTyped, ApplyTyped, ForwardTyped, RejectTyped, RetryTyped, RollbackTyped,
   EndTyped, ResolveTyped, DiscardTyped, EditTyped DEF Import!Next

(* So does no step.                                                         *)
LEMMA StutterTyped ==
    ASSUME ImportTyped, UNCHANGED Import!vars
    PROVE  ImportTyped'
BY DEF ImportTyped, Import!TypeOK, InRange, Import!vars

(* Nothing is kept for a rollback while no import runs; what is kept while one *)
(* does is of files that patches claim.                                        *)
OfClaimed(originals) == \A o \in originals : o[1] \in Import!Claimed

KeepsClaimed ==
    /\ ~Import!Importing => saved = {} /\ applied = <<>>
    /\ OfClaimed(saved)
    /\ \A k \in DOMAIN applied : OfClaimed(applied[k].saved)

(* An edit that was in the tree when the import looked, and that no patch has,  *)
(* is in a file no patch claims: the gate refused the others.                   *)
EditsOutside ==
    Import!Importing /\ ~force =>
        \A x \in EngineFiles, h \in Edits :
            h \in seen[x] /\ (\A p \in ImportPatches : h \notin bodies[p][x]) =>
                x \notin Import!Claimed /\ h \in tree[x]

(* The invariant of the edits.                                              *)
ImportKept == KeepsClaimed /\ EditsOutside

(* A step that changes the tree only in files patches claim, or adds to it.     *)
Spares == \A x \in EngineFiles : x \notin Import!Claimed => tree[x] \subseteq tree'[x]

(* Such a step leaves the edits that are outside the claimed files.         *)
LEMMA OutsideStays ==
    ASSUME EditsOutside, Spares, Import!Importing, bodies' = bodies, seen' = seen, force' = force
    PROVE  EditsOutside'
<1>1. Import!Claimed' = Import!Claimed
  BY DEF Import!Claimed, Import!Touched
<1> QED BY <1>1 DEF EditsOutside, Spares

(* While no import runs nothing is asked.                                   *)
LEMMA NotImporting ==
    ASSUME ~Import!Importing'
    PROVE  EditsOutside'
BY DEF EditsOutside

(* The gate refuses an edit in a claimed file: what the queue makes of it
   has no such hunk.                                                        *)
LEMMA GateHolds ==
    ASSUME ImportBounds, ImportTyped, ImportKept, Import!Check PROVE ImportKept'
<1>1. CASE Import!Idle
  <2>1. ~Import!Importing' /\ saved' = {} /\ applied' = <<>>
    BY <1>1 DEF Import!Idle, Import!Importing
  <2> QED BY <2>1, NotImporting DEF ImportKept, KeepsClaimed, OfClaimed
<1>2. CASE ~Import!Idle
  <2>1. /\ Import!UnmanagedFiles = {} \/ force
        /\ seen' = tree /\ tree' = tree /\ bodies' = bodies /\ saved' = saved /\ applied' = applied
        /\ force' = force /\ ipc = "check"
    BY <1>2 DEF Import!Check, Import!command, Import!progress
  <2>2. Import!Claimed' = Import!Claimed
    BY <2>1 DEF Import!Claimed, Import!Touched
  <2>3. KeepsClaimed'
    BY <2>1, <2>2 DEF ImportKept, KeepsClaimed, OfClaimed, Import!Importing
  <2>4. ASSUME ~force, NEW x \in EngineFiles, NEW h \in Edits, h \in tree[x],
               \A p \in ImportPatches : h \notin bodies[p][x]
        PROVE  x \notin Import!Claimed
    <3>1. SUFFICES ASSUME x \in Import!Claimed PROVE FALSE
      OBVIOUS
    <3>2. x \in Import!DirtyFiles
      BY <3>1, <2>4 DEF Import!DirtyFiles
    <3>3. tree[x] = Import!Expected(x).content
      BY <2>1, <2>4, <3>2 DEF Import!UnmanagedFiles
    <3>4. Import!Expected(x).content \subseteq Brought(x)
      BY ExpectedTyped DEF Baselines
    <3> QED BY <2>4, <3>3, <3>4 DEF Brought
  <2> QED BY <2>1, <2>2, <2>3, <2>4 DEF ImportKept, EditsOutside
<1> QED BY <1>1, <1>2

(* The files of the patch being applied are claimed.                        *)
LEMMA CurrentClaimed ==
    ASSUME ImportBounds, Import!TypeOK, i <= until
    PROVE  Import!Touched(Import!Current) \subseteq Import!Claimed /\ Import!Current \in ImportPatches
BY CurrentTyped DEF Import!Claimed

(* The steps of a running import that leave what it keeps for a rollback alone. *)
LEMMA StepKeeps ==
    ASSUME ImportBounds, ImportTyped, ImportKept, Import!Importing, Import!Importing',
           Spares, bodies' = bodies, seen' = seen, force' = force,
           saved' = saved \/ saved' = {}, applied' = applied
    PROVE  ImportKept'
<1>1. Import!Claimed' = Import!Claimed
  BY DEF Import!Claimed, Import!Touched
<1>2. EditsOutside'
  BY OutsideStays DEF ImportKept
<1> QED BY <1>1, <1>2 DEF ImportKept, KeepsClaimed, OfClaimed

(* A tree that stays is one of these.                                       *)
LEMMA SameTree ==
    ASSUME tree' = tree
    PROVE  Spares
BY DEF Spares

(* A command that ends keeps nothing, ...                                   *)
LEMMA IdleKeeps ==
    ASSUME Import!Idle
    PROVE  ImportKept'
<1>1. ~Import!Importing' /\ saved' = {} /\ applied' = <<>>
  BY DEF Import!Idle, Import!Importing
<1> QED BY <1>1, NotImporting DEF ImportKept, KeepsClaimed, OfClaimed

(* What a patch brings, and only to files it touches. *)
LEMMA UntouchedIsEmpty ==
    ASSUME ImportBounds, Import!TypeOK, i <= until, NEW x \in EngineFiles, x \notin Import!Claimed
    PROVE  x \notin Import!Touched(Import!Current) /\ Import!Body[x] = {}
<1>1. x \notin Import!Touched(Import!Current)
  BY CurrentClaimed
<1> QED BY <1>1 DEF Import!Touched, Import!Body

(* ... one that puts new files aside changes claimed files only, ...        *)
LEMMA ApplyKeeps ==
    ASSUME ImportBounds, ImportTyped, ImportKept,
           Import!Reverse \/ Import!Checkout \/ Import!CheckoutFails \/ Import!Delete
    PROVE  ImportKept'
<1>0. i <= until /\ Import!Importing /\ Import!Importing'
  BY DEF Import!Reverse, Import!Checkout, Import!CheckoutFails, Import!Delete, ImportTyped,
     InRange, Import!Importing
<1>1. /\ bodies' = bodies /\ seen' = seen /\ force' = force /\ saved' = saved /\ applied' = applied
  BY DEF Import!Reverse, Import!Checkout, Import!CheckoutFails, Import!Delete, Import!command,
     Import!progress, Import!watch
<1>2. Spares
  <2>1. SUFFICES ASSUME NEW x \in EngineFiles, x \notin Import!Claimed PROVE tree[x] \subseteq tree'[x]
    BY DEF Spares
  <2>2. x \notin Import!Touched(Import!Current) /\ Import!Body[x] = {}
    BY <1>0, <2>1, UntouchedIsEmpty DEF ImportTyped
  <2>3. x \notin Import!Resettable
    BY <2>2 DEF Import!Resettable
  <2> QED BY <2>2, <2>3 DEF Import!Reverse, Import!Checkout, Import!CheckoutFails, Import!Delete
<1> QED BY <1>0, <1>1, <1>2, StepKeeps

(* ... as does git apply, ...                                               *)
LEMMA ForwardKeeps ==
    ASSUME ImportBounds, ImportTyped, ImportKept, Import!Forward
    PROVE  ImportKept'
<1>0. i <= until /\ Import!Importing /\ Import!Importing'
  BY DEF Import!Forward, Import!Advance, ImportTyped, InRange, Import!Importing
<1>1. bodies' = bodies /\ seen' = seen /\ force' = force
  BY DEF Import!Forward, Import!command, Import!watch
<1>2. Spares
  BY DEF Spares, Import!Forward, Import!TypeOK, ImportTyped
<1>3. CASE \A x \in Import!Touched(Import!Current) : Import!Fits(x, Import!Body[x], tree[x])
  <2>1. Import!Claimed' = Import!Claimed
    BY <1>1 DEF Import!Claimed, Import!Touched
  <2>2. EditsOutside'
    BY <1>0, <1>1, <1>2, OutsideStays DEF ImportKept
  <2>3. saved' = {} /\ applied' = Append(applied, [patch |-> Import!Current, saved |-> saved])
    BY <1>3 DEF Import!Forward, Import!Advance
  <2>4. applied \in Seq(Patched)
    BY DEF ImportTyped, Import!TypeOK, Patched
  <2>5. \A k \in DOMAIN applied' : applied'[k].saved = saved
                                     \/ \E j \in DOMAIN applied : applied'[k] = applied[j]
    BY <2>3, <2>4
  <2>6. KeepsClaimed'
    BY <1>0, <2>1, <2>3, <2>5 DEF ImportKept, KeepsClaimed, OfClaimed
  <2> QED BY <2>2, <2>6 DEF ImportKept
<1>4. CASE ~ \A x \in Import!Touched(Import!Current) : Import!Fits(x, Import!Body[x], tree[x])
  <2>1. saved' = saved /\ applied' = applied
    BY <1>4 DEF Import!Forward, Import!progress
  <2> QED BY <1>0, <1>1, <1>2, <2>1, StepKeeps
<1> QED BY <1>3, <1>4

(* ... a reject, ...                                                        *)
LEMMA RejectKeeps ==
    ASSUME ImportBounds, ImportTyped, ImportKept, Import!Reject \/ Import!OverwriteFails \/
           Import!RejectFails
    PROVE  ImportKept'
<1>0. i <= until /\ Import!Importing /\ Import!Importing'
  BY DEF Import!Reject, Import!OverwriteFails, Import!RejectFails, Import!GiveUp, Import!Advance,
     ImportTyped, InRange, Import!Importing
<1>1. /\ bodies' = bodies /\ seen' = seen /\ force' = force /\ applied' = applied
      /\ saved' = saved \/ saved' = {}
  BY DEF Import!Reject, Import!OverwriteFails, Import!RejectFails, Import!GiveUp, Import!Advance,
     Import!command, Import!watch
<1>2. Spares
  <2>1. SUFFICES ASSUME NEW x \in EngineFiles, x \notin Import!Claimed PROVE tree[x] \subseteq tree'[x]
    BY DEF Spares
  <2>2. Import!Body[x] = {}
    BY <1>0, <2>1, UntouchedIsEmpty DEF ImportTyped
  <2> QED BY <2>2 DEF Import!Reject, Import!OverwriteFails, Import!RejectFails
<1> QED BY <1>0, <1>1, <1>2, StepKeeps

(* ... the retry, which keeps what it overwrites, ...                       *)
LEMMA OverwriteKeeps ==
    ASSUME ImportBounds, ImportTyped, ImportKept, Import!Overwrite
    PROVE  ImportKept'
<1>0. i <= until /\ Import!Importing /\ Import!Importing'
  BY DEF Import!Overwrite, ImportTyped, InRange, Import!Importing
<1>1. bodies' = bodies /\ seen' = seen /\ force' = force /\ applied' = applied
  BY DEF Import!Overwrite, Import!command, Import!watch
<1>2. Import!InTheWay \subseteq Import!Claimed
  BY <1>0, CurrentClaimed DEF Import!InTheWay, ImportTyped
<1>3. Spares
  BY <1>2 DEF Spares, Import!Overwrite
<1>4. Import!Claimed' = Import!Claimed
  BY <1>1 DEF Import!Claimed, Import!Touched
<1>5. EditsOutside'
  BY <1>0, <1>1, <1>3, OutsideStays DEF ImportKept
<1>6. \A o \in saved' : o[1] \in Import!Claimed
  BY <1>2 DEF Import!Overwrite
<1> QED BY <1>0, <1>1, <1>4, <1>5, <1>6 DEF ImportKept, KeepsClaimed, OfClaimed

(* ... what follows it, ...                                                 *)
LEMMA RejectStartKeeps ==
    ASSUME ImportBounds, ImportTyped, ImportKept, Import!TryReject
    PROVE  ImportKept'
<1>0. Import!Importing /\ Import!Importing'
  BY DEF Import!TryReject, Import!Importing
<1>1. bodies' = bodies /\ seen' = seen /\ force' = force /\ applied' = applied /\ saved' = {}
  BY DEF Import!TryReject, Import!command, Import!watch
<1>2. Spares
  BY DEF Spares, Import!TryReject, Import!PutBack, ImportKept, KeepsClaimed, OfClaimed
<1> QED BY <1>0, <1>1, <1>2, StepKeeps

(* ... and the rollback, which puts back what was kept.                     *)
LEMMA RollbackKeeps ==
    ASSUME ImportBounds, ImportTyped, ImportKept, Import!Rollback
    PROVE  ImportKept'
<1> DEFINE done == applied[Len(applied)]
<1>0. Import!Importing /\ Import!Importing'
  BY DEF Import!Rollback, Import!Importing
<1>1. bodies' = bodies /\ seen' = seen /\ force' = force /\ saved' = saved
  BY DEF Import!Rollback, Import!command, Import!watch
<1>2. applied \in Seq(Patched) /\ applied # <<>>
  BY DEF Import!Rollback, ImportTyped, Import!TypeOK, Patched
<1>3. Len(applied) \in DOMAIN applied /\ done.patch \in ImportPatches
  <2>1. Len(applied) \in DOMAIN applied /\ done \in Patched
    BY <1>2
  <2> QED BY <2>1 DEF Patched
<1>4. OfClaimed(done.saved)
  BY <1>3 DEF ImportKept, KeepsClaimed
<1>5. Spares
  <2>1. SUFFICES ASSUME NEW x \in EngineFiles, x \notin Import!Claimed PROVE tree[x] \subseteq tree'[x]
    BY DEF Spares
  <2>2. bodies[done.patch][x] = {}
    BY <1>3, <2>1 DEF Import!Claimed, Import!Touched
  <2>3. ~ \E o \in done.saved : o[1] = x
    BY <1>4, <2>1 DEF OfClaimed
  <2> QED BY <2>2, <2>3 DEF Import!Rollback
<1>6. Import!Claimed' = Import!Claimed
  BY <1>1 DEF Import!Claimed, Import!Touched
<1>7. EditsOutside'
  BY <1>0, <1>1, <1>5, OutsideStays DEF ImportKept
<1>8. \A k \in DOMAIN applied' : k \in DOMAIN applied /\ applied'[k] = applied[k]
  BY <1>2 DEF Import!Rollback
<1> QED BY <1>0, <1>1, <1>6, <1>7, <1>8 DEF ImportKept, KeepsClaimed, OfClaimed

(* The end of an import,                                                    *)
LEMMA EndKeeps ==
    ASSUME ImportBounds, ImportTyped, ImportKept, Import!RolledBack \/ Import!Finish \/
           Import!Report \/ Import!Close \/ Import!Kill
    PROVE  ImportKept'
<1>1. CASE Import!RolledBack \/ Import!Finish
  <2>1. Import!Importing /\ Import!Importing'
    BY <1>1 DEF Import!RolledBack, Import!Finish, Import!Importing
  <2>2. /\ bodies' = bodies /\ seen' = seen /\ force' = force /\ saved' = saved
             /\ applied' = applied
        /\ tree' = tree
    BY <1>1 DEF Import!RolledBack, Import!Finish, Import!command, Import!watch, Import!progress
  <2> QED BY <2>1, <2>2, SameTree, StepKeeps
<1>2. CASE Import!Report \/ Import!Close \/ Import!Kill
  BY <1>2, IdleKeeps DEF Import!Report, Import!Close, Import!Kill
<1> QED BY <1>1, <1>2

(* what is done while none runs,                                            *)
LEMMA OutsideKeeps ==
    ASSUME ImportKept, ~Import!Importing, ~Import!Importing', saved' = saved, applied' = applied
    PROVE  ImportKept'
BY NotImporting DEF ImportKept, KeepsClaimed, OfClaimed

(* the commands of the operator,                                            *)
LEMMA OperatorKeeps ==
    ASSUME ImportBounds, ImportTyped, ImportKept,
           \/ \E l \in 1..Len(Order), w \in BOOLEAN, c \in BOOLEAN : Import!Start(l, w, c)
           \/ Import!Resolve \/ Import!Unpend \/ Import!Reset
           \/ \E x \in EngineFiles : \E u \in BOOLEAN : Import!Discard(x, u)
    PROVE  ImportKept'
<1>1. ~Import!Importing /\ ~Import!Importing' /\ saved' = saved /\ applied' = applied
  BY DEF Import!Start, Import!Resolve, Import!Unpend, Import!Reset, Import!Discard,
     Import!Importing, Import!progress
<1> QED BY <1>1, OutsideKeeps

(* and an edit all keep the invariant, ...                                  *)
LEMMA EditKeeps ==
    ASSUME ImportBounds, ImportTyped, ImportKept, NEW x \in EngineFiles, NEW h \in Edits,
           Import!Edit(x, h)
    PROVE  ImportKept'
<1>1. /\ bodies' = bodies /\ seen' = seen /\ force' = force /\ saved' = saved /\ applied' = applied
      /\ ipc' = ipc
  BY DEF Import!Edit, Import!command, Import!progress
<1>2. Spares
  BY DEF Spares, Import!Edit, ImportTyped, Import!TypeOK
<1>3. CASE Import!Importing
  <2>1. Import!Importing'
    BY <1>1, <1>3 DEF Import!Importing
  <2> QED BY <1>1, <1>2, <1>3, <2>1, StepKeeps
<1>4. CASE ~Import!Importing
  <2>1. ~Import!Importing'
    BY <1>1, <1>4 DEF Import!Importing
  <2> QED BY <1>1, <1>4, <2>1, OutsideKeeps
<1> QED BY <1>3, <1>4

(* ... so every step does, ...                                              *)
LEMMA NextKeeps ==
    ASSUME ImportBounds, ImportTyped, ImportKept, Import!Next
    PROVE  ImportKept'
BY GateHolds, ApplyKeeps, ForwardKeeps, RejectKeeps, OverwriteKeeps, RejectStartKeeps,
   RollbackKeeps, EndKeeps, OperatorKeeps, EditKeeps DEF Import!Next

(* ... and no step, ...                                                     *)
LEMMA StutterKeeps ==
    ASSUME ImportKept, UNCHANGED Import!vars
    PROVE  ImportKept'
BY DEF ImportKept, KeepsClaimed, OfClaimed, EditsOutside, Import!Importing, Import!Claimed,
   Import!Touched, Import!vars, Import!command, Import!progress, Import!watch, Import!budget

(* ... and it holds at first.                                               *)
LEMMA InitKeeps ==
    ASSUME Import!Init
    PROVE  ImportKept
BY DEF Import!Init, ImportKept, KeepsClaimed, OfClaimed, EditsOutside, Import!Importing

(* It says what EditsKept does.                                             *)
LEMMA KeptSuffices ==
    ASSUME ImportKept
    PROVE  Import!EditsKept
BY DEF ImportKept, EditsOutside, Import!EditsKept

-----------------------------------------------------------------------------
(* What an import has delivered. A patch resets only files that it is the    *)
(* first to touch (ResettableOpened), so the earlier ones' hunks stay.       *)

(* What the patch at a place of the queue brings to a file.                 *)
Section(k, x) == bodies[Order[k]][x]

(* The files that no patch before it touches.                               *)
Opened(k) == {x \in EngineFiles : Section(k, x) # {} /\ \A m \in 1..k - 1 : Section(m, x) = {}}

(* The patches applied so far are the first of the queue.                   *)
InOrder(l) == Len(applied) = l /\ \A k \in 1..l : applied[k].patch = Order[k]

(* Between commands, and until the gate has let one in, nothing is under way. *)
AtRest ==
    ~Import!Importing =>
        i = 1 /\ attempt = "first" /\ saved = {} /\ applied = <<>> /\ firstFailed = NoPatch

(* Nothing has failed so far.                                               *)
Undisturbed ==
    /\ ipc \in {"reverse", "checkout", "delete", "forward", "failed", "done"}
    /\ firstFailed = NoPatch /\ ~disturbed

(* What earlier patches brought is there, or is in what the patch at hand brings as well. *)
Delivering ==
    /\ InOrder(i - 1)
    /\ \A o \in saved : i <= until /\ New \in Section(i, o[1])
    /\ \A k \in 1..i - 1, x \in EngineFiles :
           Section(k, x) \subseteq tree[x] \cup (IF i <= until THEN Section(i, x) ELSE {})
    /\ ipc = "reverse" /\ attempt = "first" =>
           \A k \in 1..i - 1, x \in EngineFiles : Section(k, x) \subseteq tree[x]
    /\ ipc = "done" => until < i

(* The invariant of what is delivered.                                      *)
Progress ==
    /\ AtRest
    /\ ipc = "done" => firstFailed = NoPatch
    /\ Undisturbed /\ Import!CreatedFirst => Delivering

(* The types of what the queue brings.                                      *)
LEMMA SectionTyped ==
    ASSUME ImportBounds, Import!TypeOK, NEW k \in 1..Len(Order), NEW x \in EngineFiles
    PROVE  Section(k, x) \in SUBSET Changes /\ Order[k] \in ImportPatches /\ Order[k] # NoPatch
BY DEF ImportBounds, Import!TypeOK, Section

(* The patch at hand is one of the queue.                                   *)
LEMMA AtHand ==
    ASSUME ImportBounds, ImportTyped, i <= until
    PROVE  /\ i \in 1..Len(Order) /\ until \in 1..Len(Order) /\ Import!Current = Order[i]
           /\ Import!Touched(Import!Current) = {x \in EngineFiles : Section(i, x) # {}}
           /\ \A x \in EngineFiles : Import!Body[x] = Section(i, x)
           /\ Import!Current \in ImportPatches /\ Import!Current # NoPatch
<1>1. /\ i \in 1..Len(Order) /\ until \in 1..Len(Order)
  BY DEF ImportTyped, Import!TypeOK, ImportBounds
<1> QED BY <1>1, SectionTyped
        DEF ImportTyped, ImportBounds, Import!Current, Import!Touched, Import!Body, Section

(* While the bodies stay, so does all that is said of them.                 *)
LEMMA BodiesStay ==
    ASSUME bodies' = bodies
    PROVE  /\ \A k, x : Section(k, x)' = Section(k, x)
           /\ \A k : Opened(k)' = Opened(k)
           /\ Import!CreatedFirst' <=> Import!CreatedFirst
BY DEF Section, Opened, Import!CreatedFirst

(* Of the files of the patch at hand, an import resets those it is the first to touch. *)
LEMMA ResettableOpened ==
    ASSUME ImportBounds, ImportTyped, i <= until, InOrder(i - 1)
    PROVE  Import!Resettable = Opened(i)
<1>1. /\ i \in 1..Len(Order)
      /\ Import!Touched(Import!Current) = {x \in EngineFiles : Section(i, x) # {}}
  BY AtHand
<1>2. DOMAIN applied = 1..i - 1
  BY <1>1 DEF InOrder, ImportTyped, Import!TypeOK
<1>3. \A x \in EngineFiles : x \in Import!Protected <=> \E m \in 1..i - 1 : Section(m, x) # {}
  <2>1. \A x \in EngineFiles :
            x \in Import!Protected <=> \E m \in 1..i - 1 : bodies[applied[m].patch][x] # {}
    <3>1. \A x : x \in Import!Protected
                     <=> \E m \in 1..i - 1 : x \in Import!Touched(applied[m].patch)
      BY <1>2 DEF Import!Protected
    <3>2. \A x \in EngineFiles : \A p : x \in Import!Touched(p) <=> bodies[p][x] # {}
      BY DEF Import!Touched
    <3> QED BY <3>1, <3>2
  <2>2. \A m \in 1..i - 1 : applied[m].patch = Order[m]
    BY DEF InOrder
  <2> QED BY <2>1, <2>2 DEF Section
<1> QED BY <1>1, <1>3 DEF Import!Resettable, Opened

(* The steps of the patch at hand, ...                                      *)
LEMMA ApplyDelivers ==
    ASSUME ImportBounds, ImportTyped, Progress,
           Import!Reverse \/ Import!Checkout \/ Import!CheckoutFails \/ Import!Delete
    PROVE  Progress'
<1>0. /\ i <= until /\ Import!Importing /\ Import!Importing' /\ bodies' = bodies /\ ipc' # "done"
      /\ i' = i /\ until' = until /\ saved' = saved /\ applied' = applied
      /\ firstFailed' = firstFailed /\ ipc' # "reverse"
      /\ ipc \in {"reverse", "checkout", "delete"}
  BY DEF Import!Reverse, Import!Checkout, Import!CheckoutFails, Import!Delete, ImportTyped,
     InRange, Import!Importing, Import!command, Import!progress
<1>1. AtRest' /\ (ipc' = "done" => firstFailed' = NoPatch)
  BY <1>0 DEF AtRest
<1>2. SUFFICES ASSUME Undisturbed', Import!CreatedFirst'
               PROVE  Delivering'
  BY <1>1 DEF Progress
<1>3. Delivering
  BY <1>0, <1>2, BodiesStay DEF Undisturbed, Progress, Import!Reverse, Import!Checkout, Import!CheckoutFails,
     Import!Delete, Import!watch
<1>4. \A k \in 1..i - 1, x \in EngineFiles : Section(k, x) \subseteq tree'[x] \cup Section(i, x)
  <2>1. SUFFICES ASSUME NEW k \in 1..i - 1, NEW x \in EngineFiles
                 PROVE  Section(k, x) \subseteq tree'[x] \cup Section(i, x)
    OBVIOUS
  <2>2. Section(k, x) \subseteq tree[x] \cup Section(i, x)
    BY <1>0, <1>3, <2>1 DEF Delivering
  <2>3. CASE Import!Reverse
    <3>1. Import!Body[x] = Section(i, x)
      BY <1>0, AtHand
    <3>2. tree'[x] = tree[x] \ Section(i, x) \/ tree'[x] = tree[x]
      BY <2>3, <3>1 DEF Import!Reverse
    <3> QED BY <2>2, <3>2
  <2>4. CASE Import!Checkout \/ Import!CheckoutFails \/ Import!Delete
    <3>1. Import!Resettable = Opened(i)
      BY <1>0, <1>3, ResettableOpened DEF Delivering
    <3>2. tree'[x] = tree[x] \/ x \in Opened(i)
      BY <2>4, <3>1 DEF Import!Checkout, Import!CheckoutFails, Import!Delete
    <3> QED BY <2>2, <3>2 DEF Opened
  <2> QED BY <2>3, <2>4, <1>0
          DEF Import!Reverse, Import!Checkout, Import!CheckoutFails, Import!Delete
<1> QED BY <1>0, <1>3, <1>4, BodiesStay DEF Delivering, InOrder

(* ... git apply, after which all of it is there, ...                       *)
LEMMA ForwardDelivers ==
    ASSUME ImportBounds, ImportTyped, Progress, Import!Forward
    PROVE  Progress'
<1>0. /\ i <= until /\ Import!Importing /\ Import!Importing' /\ bodies' = bodies /\ until' = until
      /\ firstFailed' = firstFailed /\ disturbed' = disturbed /\ ipc = "forward"
      /\ ipc' \in {"reverse", "failed"}
  BY DEF Import!Forward, Import!Advance, ImportTyped, InRange, Import!Importing, Import!command,
     Import!progress, Import!watch
<1>1. AtRest' /\ (ipc' = "done" => firstFailed' = NoPatch)
  BY <1>0 DEF AtRest
<1>2. SUFFICES ASSUME Undisturbed', Import!CreatedFirst'
               PROVE  Delivering'
  BY <1>1 DEF Progress
<1>3. Delivering
  BY <1>0, <1>2, BodiesStay DEF Undisturbed, Progress
<1>4. /\ i \in 1..Len(Order) /\ until \in 1..Len(Order) /\ Import!Current = Order[i]
      /\ \A x \in EngineFiles : Import!Body[x] = Section(i, x)
  BY <1>0, AtHand
<1>5. CASE \A x \in Import!Touched(Import!Current) : Import!Fits(x, Import!Body[x], tree[x])
  <2>1. /\ tree' = [x \in EngineFiles |-> tree[x] \cup Import!Body[x]]
        /\ applied' = Append(applied, [patch |-> Import!Current, saved |-> saved])
        /\ ipc' = "reverse" /\ i' = i + 1 /\ saved' = {}
    BY <1>5 DEF Import!Forward, Import!Advance
  <2>2. applied \in Seq(Patched) /\ Len(applied) = i - 1
    BY <1>3 DEF ImportTyped, Import!TypeOK, Patched, Delivering, InOrder
  <2>3. InOrder(i - 1)'
    <3>1. Len(applied') = i /\ applied'[i].patch = Order[i]
      BY <2>1, <2>2, <1>4
    <3>2. \A k \in 1..i - 1 : applied'[k].patch = Order[k]
      BY <2>1, <2>2, <1>3 DEF Delivering, InOrder
    <3>3. \A k \in 1..i : k = i \/ k \in 1..i - 1
      BY <1>4
    <3>4. i' - 1 = i
      BY <2>1, <1>4
    <3>5. Len(applied') = i' - 1 /\ \A k \in 1..i' - 1 : applied'[k].patch = Order[k]
      BY <3>1, <3>2, <3>3, <3>4
    <3> QED BY <3>5 DEF InOrder
  <2>4. \A k \in 1..i' - 1, x \in EngineFiles : Section(k, x) \subseteq tree'[x]
    <3>1. SUFFICES ASSUME NEW k \in 1..i, NEW x \in EngineFiles
                   PROVE  Section(k, x) \subseteq tree[x] \cup Section(i, x)
      BY <2>1, <1>4
    <3>2. CASE k = i
      BY <3>2
    <3>3. CASE k \in 1..i - 1
      BY <3>3, <1>0, <1>3 DEF Delivering
    <3> QED BY <3>2, <3>3, <1>4
  <2> HIDE DEF InOrder
  <2> QED BY <2>1, <2>3, <2>4, <1>0, BodiesStay DEF Delivering
<1>6. CASE ~ \A x \in Import!Touched(Import!Current) : Import!Fits(x, Import!Body[x], tree[x])
  <2>1. /\ tree' = tree /\ i' = i /\ saved' = saved /\ applied' = applied /\ ipc' = "failed"
    BY <1>6 DEF Import!Forward, Import!progress
  <2> QED BY <2>1, <1>0, <1>3, BodiesStay DEF Delivering, InOrder
<1> QED BY <1>5, <1>6

(* ... a patch given up, after which the import no longer succeeds, ...     *)
LEMMA GivenUp ==
    ASSUME ImportBounds, ImportTyped, Progress,
           Import!Reject \/ Import!OverwriteFails \/ Import!RejectFails
    PROVE  Progress'
<1>1. /\ i <= until /\ Import!GiveUp /\ Import!Importing' /\ ipc' # "done"
  BY DEF Import!Reject, Import!OverwriteFails, Import!RejectFails, Import!GiveUp, Import!Advance,
     ImportTyped, InRange, Import!Importing
<1>2. Import!Current # NoPatch
  BY <1>1, AtHand
<1>3. firstFailed' # NoPatch
  BY <1>1, <1>2 DEF Import!GiveUp, Import!FirstFailed
<1> QED BY <1>1, <1>3 DEF Progress, AtRest, Undisturbed

(* ... and a file put aside, which the patch at hand creates, ...           *)
LEMMA RetryDelivers ==
    ASSUME ImportBounds, ImportTyped, Progress, Import!Overwrite \/ Import!TryReject
    PROVE  Progress'
<1>0. /\ i <= until /\ Import!Importing /\ Import!Importing' /\ bodies' = bodies /\ until' = until
      /\ i' = i /\ applied' = applied /\ firstFailed' = firstFailed /\ disturbed' = disturbed
      /\ ipc = "failed" /\ ipc' = "reverse" /\ attempt' # "first"
  BY DEF Import!Overwrite, Import!TryReject, ImportTyped, InRange, Import!Importing,
     Import!command, Import!watch
<1>1. AtRest' /\ (ipc' = "done" => firstFailed' = NoPatch)
  BY <1>0 DEF AtRest
<1>2. SUFFICES ASSUME Undisturbed', Import!CreatedFirst'
               PROVE  Delivering'
  BY <1>1 DEF Progress
<1>3. Delivering /\ Import!CreatedFirst
  BY <1>0, <1>2, BodiesStay DEF Undisturbed, Progress
<1>4. /\ i \in 1..Len(Order) /\ until \in 1..Len(Order)
      /\ Import!Touched(Import!Current) = {x \in EngineFiles : Section(i, x) # {}}
      /\ \A x \in EngineFiles : Import!Body[x] = Section(i, x)
  BY <1>0, AtHand
<1>5. ASSUME NEW x \in EngineFiles, New \in Section(i, x), NEW k \in 1..i - 1
      PROVE  Section(k, x) = {}
  <2>1. i \in DOMAIN Order /\ k \in DOMAIN Order /\ k < i
    BY <1>4 DEF ImportBounds
  <2> QED BY <1>3, <1>5, <2>1 DEF Import!CreatedFirst, Section
<1>6. CASE Import!Overwrite
  <2>1. /\ saved' = {<<x, tree[x]>> : x \in Import!InTheWay}
        /\ tree' = [x \in EngineFiles |-> IF x \in Import!InTheWay THEN Import!Body[x] ELSE tree[x]]
    BY <1>6 DEF Import!Overwrite
  <2>2. \A x \in Import!InTheWay : x \in EngineFiles /\ New \in Section(i, x)
    BY <1>4 DEF Import!InTheWay
  <2>3. \A o \in saved' : New \in Section(i, o[1])
    BY <2>1, <2>2
  <2>4. \A k \in 1..i - 1, x \in EngineFiles : Section(k, x) \subseteq tree'[x] \cup Section(i, x)
    <3>1. SUFFICES ASSUME NEW k \in 1..i - 1, NEW x \in EngineFiles
                   PROVE  Section(k, x) \subseteq tree'[x] \cup Section(i, x)
      OBVIOUS
    <3>2. CASE x \in Import!InTheWay
      BY <3>2, <2>2, <1>5
    <3>3. CASE x \notin Import!InTheWay
      BY <3>3, <2>1, <1>0, <1>3 DEF Delivering
    <3> QED BY <3>2, <3>3
  <2> QED BY <1>0, <1>3, <2>3, <2>4, BodiesStay DEF Delivering, InOrder
<1>7. CASE Import!TryReject
  <2>1. tree' = Import!PutBack(saved) /\ saved' = {}
    BY <1>7 DEF Import!TryReject
  <2>2. \A k \in 1..i - 1, x \in EngineFiles : Section(k, x) \subseteq tree'[x] \cup Section(i, x)
    <3>1. SUFFICES ASSUME NEW k \in 1..i - 1, NEW x \in EngineFiles
                   PROVE  Section(k, x) \subseteq tree'[x] \cup Section(i, x)
      OBVIOUS
    <3>2. CASE \E o \in saved : o[1] = x
      BY <3>2, <1>3, <1>5 DEF Delivering
    <3>3. CASE ~ \E o \in saved : o[1] = x
      BY <3>3, <2>1, <1>0, <1>3 DEF Delivering, Import!PutBack
    <3> QED BY <3>2, <3>3
  <2> QED BY <1>0, <1>3, <2>1, <2>2, BodiesStay DEF Delivering, InOrder
<1> QED BY <1>6, <1>7

(* ... keep it, as the gate does, where nothing is applied yet, ...         *)
LEMMA CheckDelivers ==
    ASSUME ImportBounds, ImportTyped, Progress, Import!Check
    PROVE  Progress'
<1>1. CASE Import!Idle
  BY <1>1 DEF Import!Idle, Progress, AtRest, Undisturbed
<1>2. CASE ~Import!Idle
  <2>1. /\ ipc' = "reverse" /\ i = 1 /\ saved = {} /\ applied = <<>> /\ firstFailed = NoPatch
        /\ UNCHANGED <<Import!progress, tree, bodies>>
    BY <1>2 DEF Import!Check, Progress, AtRest, Import!Importing
  <2>2. i' = 1 /\ saved' = {} /\ applied' = <<>> /\ Import!Importing'
    BY <2>1 DEF Import!progress, Import!Importing
  <2>3. Delivering'
    BY <2>1, <2>2 DEF Delivering, InOrder
  <2> QED BY <2>1, <2>2, <2>3 DEF Progress, AtRest
<1> QED BY <1>1, <1>2

(* ... the end of an import, ...                                            *)
LEMMA EndDelivers ==
    ASSUME ImportBounds, ImportTyped, Progress, Import!Rollback \/ Import!RolledBack \/
           Import!Finish \/ Import!Report \/ Import!Close \/ Import!Kill
    PROVE  Progress'
<1>1. CASE Import!Rollback \/ Import!RolledBack
  BY <1>1 DEF Import!Rollback, Import!RolledBack, Import!Importing, Progress, AtRest, Undisturbed
<1>2. CASE Import!Finish
  <2>1. /\ UNCHANGED <<tree, bodies, Import!command, Import!progress, Import!watch>>
        /\ ipc = "reverse" /\ until < i /\ Import!Importing'
        /\ ipc' = IF firstFailed = NoPatch THEN "done" ELSE "report"
    <3>1. i \in Int /\ until \in Int
      BY DEF ImportTyped, Import!TypeOK, ImportBounds
    <3> QED BY <1>2, <3>1 DEF Import!Finish, Import!Importing
  <2>2. ASSUME Undisturbed', Import!CreatedFirst' PROVE Delivering'
    <3>1. Delivering
      BY <2>1, <2>2, BodiesStay DEF Progress, Undisturbed, Import!watch, Import!progress
    <3> QED BY <2>1, <3>1, BodiesStay DEF Delivering, InOrder, Import!command, Import!progress
  <2> QED BY <2>1, <2>2 DEF Progress, AtRest, Import!progress
<1>3. CASE Import!Report \/ Import!Close \/ Import!Kill
  <2>1. Import!Idle
    BY <1>3 DEF Import!Report, Import!Close, Import!Kill
  <2> QED BY <2>1 DEF Import!Idle, Progress, AtRest, Undisturbed
<1> QED BY <1>1, <1>2, <1>3

(* ... and what the operator does, who disturbs an import that is running:  *)
LEMMA OperatorDelivers ==
    ASSUME Progress,
           \/ \E l \in 1..Len(Order), w \in BOOLEAN, c \in BOOLEAN : Import!Start(l, w, c)
           \/ Import!Resolve \/ Import!Unpend \/ Import!Reset
           \/ \E x \in EngineFiles : \E u \in BOOLEAN : Import!Discard(x, u)
           \/ \E x \in EngineFiles, h \in Edits : Import!Edit(x, h)
    PROVE  Progress'
<1>1. UNCHANGED Import!progress
  BY DEF Import!Start, Import!Resolve, Import!Unpend, Import!Reset, Import!Discard, Import!Edit
<1>2. CASE ~ \E x \in EngineFiles, h \in Edits : Import!Edit(x, h)
  <2>1. ~Import!Importing /\ ~Import!Importing'
    BY <1>2 DEF Import!Start, Import!Resolve, Import!Unpend, Import!Reset, Import!Discard,
       Import!Importing
  <2> QED BY <1>1, <2>1 DEF Progress, AtRest, Undisturbed, Import!progress, Import!Importing
<1>3. CASE \E x \in EngineFiles, h \in Edits : Import!Edit(x, h)
  <2>1. ipc' = ipc /\ disturbed' = (disturbed \/ Import!Importing)
    BY <1>3 DEF Import!Edit
  <2> QED BY <1>1, <2>1 DEF Progress, AtRest, Undisturbed, Import!progress, Import!Importing
<1> QED BY <1>2, <1>3

(* every step keeps the invariant, ...                                      *)
LEMMA NextDelivers ==
    ASSUME ImportBounds, ImportTyped, Progress, Import!Next
    PROVE  Progress'
BY ApplyDelivers, ForwardDelivers, GivenUp, RetryDelivers, CheckDelivers, EndDelivers,
   OperatorDelivers DEF Import!Next

(* ... no step does, ...                                                    *)
LEMMA StutterDelivers ==
    ASSUME Progress, UNCHANGED Import!vars
    PROVE  Progress'
<1>1. Import!CreatedFirst' <=> Import!CreatedFirst
  BY BodiesStay DEF Import!vars
<1> QED BY <1>1 DEF Progress, AtRest, Undisturbed, Delivering, InOrder, Section, Import!Importing,
           Import!vars, Import!command, Import!progress, Import!watch, Import!budget

(* ... and it holds at first.                                               *)
LEMMA InitDelivers ==
    ASSUME Import!Init
    PROVE  Progress
BY DEF Import!Init, Progress, AtRest, Undisturbed

-----------------------------------------------------------------------------
(* How forced imports recover. A forced import that fails at a patch leaves    *)
(* the earlier ones unable to be reversed (Stuck) and the files it was the     *)
(* first to touch as it wants them (Whole), so the next one, which finds the   *)
(* former stuck, resets and applies them and this one too, and fails only      *)
(* where a later patch shares a file with another that is later as well.       *)

(* In a tree, a patch that does not reverse, or that has nothing to.        *)
Refuses(k, t) == \E x \in EngineFiles : Section(k, x) # {} /\ ~Import!Unfits(x, Section(k, x), t[x])
Stuck(k, t) == (\A x \in EngineFiles : Section(k, x) = {}) \/ Refuses(k, t)

(* The files a patch is the first to touch, as HEAD has them and as it makes them. *)
Emptied(k, t) == \A x \in Opened(k) : t[x] = {}
Whole(k, t)   == \A x \in Opened(k) : t[x] = Section(k, x)

AllFit(k, t) ==
    \A x \in EngineFiles : Section(k, x) # {} => Import!Fits(x, Section(k, x), t[x])

(* One of the first k patches, none after the j-th, touches the file.       *)
Reached(x, k, j) == \E m \in 1..k : m <= j /\ Section(m, x) # {}

(* Nothing was overwritten: there is nothing to put back.                   *)
Bare(l) == InOrder(l) /\ \A k \in 1..l : applied[k].saved = {}

(* Between imports: the next one goes beyond the j-th patch.                *)
Ready(j) ==
    /\ \A m \in 1..j - 1 : Stuck(m, tree)
    /\ j # 0 => Whole(j, tree)

(* While it runs: the files of the patches up to the j-th that it has passed  *)
(* are what the queue makes of them, and those to come are as Ready has them. *)
Advancing(j) ==
    /\ firstFailed = NoPatch /\ saved = {} /\ Bare(i - 1) /\ attempt # "retry"
    /\ \A m \in i + 1..j - 1 : Stuck(m, tree)
    /\ i < j => Whole(j, tree)
    /\ \A x \in EngineFiles : Reached(x, i - 1, j) => tree[x] = Import!Laid(i - 1, x)
    /\ ipc = "reverse" /\ attempt = "first" =>
         /\ i < j => Stuck(i, tree)
         /\ i = j => Whole(i, tree)
    /\ ipc = "reverse" /\ attempt # "first" => Refuses(i, tree)
    /\ ipc \in {"checkout", "delete", "failed"} => Refuses(i, tree)
    /\ ipc = "delete" => \A x \in Opened(i) \ Added : tree[x] = {}
    /\ ipc = "forward" =>
         /\ i <= j \/ attempt = "reject" => Emptied(i, tree)
         /\ AllFit(i, tree) \/ (Refuses(i, tree) /\ Emptied(i, tree))
    /\ ipc = "failed" => attempt = "first" /\ Emptied(i, tree)
    /\ ipc = "failed" \/ attempt # "first" => j + 2 <= i

(* When it has failed at a patch: the ones rolled back so far do not reverse, *)
(* and the next import is ready to go beyond that patch.                     *)
BackedOut ==
    /\ i <= Len(Order) /\ 2 * (again + 1) <= i /\ Len(applied) < i /\ Bare(Len(applied))
    /\ \A m \in Len(applied) + 1..i - 1 : Stuck(m, tree)
    /\ Whole(i, tree)
    /\ ipc = "report" => applied = <<>>

Working == ipc \in {"reverse", "checkout", "delete", "forward", "failed"}
Forcing == force /\ ~onward /\ until = Len(Order) /\ ~disturbed

(* The invariant of the forced imports.                                     *)
Recovering ==
    Import!Applies =>
        /\ 2 * again <= Len(Order)
        /\ ~Import!Importing => \E j \in 0..Len(Order) : 2 * again <= j /\ Ready(j)
        /\ Working /\ Forcing => \E j \in 0..Len(Order) : 2 * again <= j /\ Advancing(j)
        /\ ipc \in {"rollback", "report"} /\ Forcing => BackedOut

(* What the first patches bring, one patch at a time.                       *)
LEMMA LaidSteps ==
    ASSUME NEW k \in Nat, NEW x
    PROVE  /\ Import!Laid(0, x) = {}
           /\ Import!Laid(k + 1, x) = Import!Laid(k, x) \cup Section(k + 1, x)
           /\ \A m \in 1..k : Section(m, x) \subseteq Import!Laid(k, x)
           /\ \A h \in Import!Laid(k, x) : \E m \in 1..k : h \in Section(m, x)
<1>1. Import!Laid(0, x) = {}
  BY DEF Import!Laid
<1>2. /\ \A h : h \in Import!Laid(k, x) <=> \E m \in 1..k : h \in Section(m, x)
      /\ \A h : h \in Import!Laid(k + 1, x) <=> \E m \in 1..k + 1 : h \in Section(m, x)
  BY DEF Import!Laid, Section
<1>3. \A m : m \in 1..k + 1 <=> m \in 1..k \/ m = k + 1
  OBVIOUS
<1> QED BY <1>1, <1>2, <1>3

(* A section that fits brings what is not there.                            *)
LEMMA FitsNew ==
    ASSUME NEW x, NEW section, NEW content, Import!Fits(x, section, content)
    PROVE  section \cap content = {}
BY DEF Import!Fits, Import!Matches

(* Of a queue that applies to HEAD, a section fits what the patches before it bring, *)
(* and has nothing of it.                                                   *)
LEMMA AppliesAt ==
    ASSUME ImportBounds, Import!Applies, NEW k \in 1..Len(Order), NEW x \in EngineFiles,
           Section(k, x) # {}
    PROVE  /\ Import!Fits(x, Section(k, x), Import!Laid(k - 1, x))
           /\ Section(k, x) \cap Import!Laid(k - 1, x) = {}
<1>1. k \in DOMAIN Order /\ x \in Import!Touched(Order[k])
  BY DEF ImportBounds, Import!Touched, Section
<1>2. Import!Fits(x, Section(k, x), Import!Laid(k - 1, x))
  BY <1>1 DEF Import!Applies, Section
<1> QED BY <1>2, FitsNew

(* Sections of two patches on a file are disjoint, and only the first creates it. *)
LEMMA Disjoint ==
    ASSUME ImportBounds, Import!Applies, NEW m \in 1..Len(Order), NEW k \in 1..m - 1,
           NEW x \in EngineFiles, Section(k, x) # {}, Section(m, x) # {}
    PROVE  /\ Section(k, x) \cap Section(m, x) = {} /\ New \notin Section(m, x)
           /\ Import!Laid(m - 1, x) # {} /\ Section(k, x) \subseteq Import!Laid(m - 1, x)
<1>1. m - 1 \in Nat /\ k \in 1..m - 1
  BY DEF ImportBounds
<1>2. Section(k, x) \subseteq Import!Laid(m - 1, x)
  BY <1>1, LaidSteps
<1>3. /\ Import!Fits(x, Section(m, x), Import!Laid(m - 1, x))
      /\ Section(m, x) \cap Import!Laid(m - 1, x) = {}
  BY AppliesAt
<1> QED BY <1>2, <1>3 DEF Import!Fits

(* A section that is not all there does not reverse, as one still to come does not *)
(* where the patches before it are laid.                                    *)
LEMMA NotThere ==
    ASSUME NEW x, NEW section, NEW content, ~(section \subseteq content)
    PROVE  ~Import!Unfits(x, section, content)
BY DEF Import!Unfits

LEMMA NotYet ==
    ASSUME ImportBounds, Import!Applies, NEW m \in 1..Len(Order), NEW l \in 0..m - 1,
           NEW x \in EngineFiles, Section(m, x) # {}
    PROVE  ~Import!Unfits(x, Section(m, x), Import!Laid(l, x))
<1>1. m - 1 \in Nat /\ l \in Nat
  BY DEF ImportBounds
<1>2. Import!Laid(l, x) \subseteq Import!Laid(m - 1, x)
  <2>1. \A h \in Import!Laid(l, x) : \E k \in 1..l : h \in Section(k, x)
    BY <1>1, LaidSteps
  <2>2. \A k \in 1..l : k \in 1..m - 1
    BY <1>1
  <2>3. \A k \in 1..m - 1 : Section(k, x) \subseteq Import!Laid(m - 1, x)
    BY <1>1, LaidSteps
  <2> QED BY <2>1, <2>2, <2>3
<1>3. Section(m, x) \cap Import!Laid(m - 1, x) = {}
  BY AppliesAt
<1>4. ~(Section(m, x) \subseteq Import!Laid(l, x))
  BY <1>2, <1>3
<1> QED BY <1>4, NotThere

(* A patch that does not reverse still does not when an earlier one has been. *)
LEMMA RefusesStays ==
    ASSUME ImportBounds, Import!TypeOK, Import!Applies, NEW m \in 1..Len(Order),
           NEW k \in 1..m - 1, NEW x \in EngineFiles, Section(k, x) # {}, Section(m, x) # {},
           NEW content, Import!Unfits(x, Section(k, x), content),
           ~Import!Unfits(x, Section(m, x), content)
    PROVE  ~Import!Unfits(x, Section(m, x), content \ Section(k, x))
<1> DEFINE S == Section(m, x)
           R == Section(k, x)
           rest == content \ R
<1>1. SUFFICES ASSUME Import!Unfits(x, S, rest) PROVE Import!Unfits(x, S, content)
  OBVIOUS
<1>2. k \in 1..Len(Order)
  BY DEF ImportBounds
<1>3. /\ S \cap R = {} /\ New \notin S /\ Import!Laid(m - 1, x) # {}
      /\ R \subseteq Import!Laid(m - 1, x)
  BY Disjoint
<1>4. S \in SUBSET Changes
  BY SectionTyped
<1>5. /\ S \subseteq rest /\ Import!Fits(x, S, rest \ S)
      /\ \A h \in rest \ S, g1 \in S : <<x, h, g1>> \notin Needs
  BY <1>1 DEF Import!Unfits
<1>6. /\ \A h \in S : Import!Matches(x, h, S, rest \ S)
      /\ x \in Added => rest \ S # {}
  BY <1>3, <1>5 DEF Import!Fits
<1>7. \A h \in S : Import!Matches(x, h, S, Import!Laid(m - 1, x))
  <2>1. Import!Fits(x, S, Import!Laid(m - 1, x))
    BY AppliesAt
  <2> QED BY <2>1, <1>3 DEF Import!Fits
<1>8. \A h \in S : Import!Matches(x, h, S, content \ S)
  <2>1. SUFFICES ASSUME NEW h \in S PROVE Import!Matches(x, h, S, content \ S)
    OBVIOUS
  <2>2. Import!Matches(x, h, S, rest \ S) /\ Import!Matches(x, h, S, Import!Laid(m - 1, x))
    BY <1>6, <1>7
  <2>3. \A d \in content \ S : d \in rest \ S \/ d \in Import!Laid(m - 1, x)
    BY <1>3
  <2>4. \A d : d \in (rest \ S) \cup S => d \in (content \ S) \cup S
    OBVIOUS
  <2> QED BY <2>2, <2>3, <2>4 DEF Import!Matches
<1>9. Import!Fits(x, S, content \ S)
  BY <1>3, <1>6, <1>8 DEF Import!Fits
<1>10. ASSUME NEW h \in content \ S, NEW d \in S, <<x, h, d>> \in Needs
       PROVE  FALSE
  <2>1. h \in R
    BY <1>5, <1>10
  <2>2. Import!Fits(x, R, content \ R)
    BY DEF Import!Unfits
  <2>3. New \notin R
    BY <2>2, <1>5 DEF Import!Fits
  <2>4. Import!Fits(x, R, Import!Laid(k - 1, x))
    BY <1>2, AppliesAt
  <2>5. d \in Import!Laid(k - 1, x) \cup R
    BY <2>1, <2>3, <2>4, <1>4, <1>10 DEF Import!Fits, Import!Matches
  <2>6. Import!Laid(k - 1, x) \subseteq Import!Laid(m - 1, x)
    <3>1. k - 1 \in Nat /\ m - 1 \in Nat /\ \A q \in 1..k - 1 : q \in 1..m - 1
      BY <1>2
    <3> QED BY <3>1, LaidSteps
  <2>7. S \cap Import!Laid(m - 1, x) = {}
    BY AppliesAt
  <2> QED BY <2>5, <2>6, <2>7, <1>3
<1>11. S \subseteq content
  BY <1>5
<1> QED BY <1>9, <1>10, <1>11 DEF Import!Unfits

(* What is said of the queue stays while its patches do.                    *)
LEMMA QueueStays ==
    ASSUME bodies' = bodies
    PROVE  /\ Import!Applies' <=> Import!Applies
           /\ \A k, x : Import!Laid(k, x)' = Import!Laid(k, x)
           /\ \A x, k, j : Reached(x, k, j)' <=> Reached(x, k, j)
           /\ \A k : /\ Refuses(k, tree)' <=> Refuses(k, tree')
                     /\ Stuck(k, tree)' <=> Stuck(k, tree')
                     /\ Emptied(k, tree)' <=> Emptied(k, tree')
                     /\ Whole(k, tree)' <=> Whole(k, tree')
                     /\ AllFit(k, tree)' <=> AllFit(k, tree')
BY DEF Import!Applies, Import!Touched, Import!Laid, Reached, Refuses, Stuck, Emptied, Whole, AllFit,
   Opened, Section

(* Files that are reset do not make a patch reverse.                        *)
LEMMA RefusesReset ==
    ASSUME NEW k, NEW t, NEW u, \A x \in EngineFiles : u[x] = t[x] \/ u[x] = {}
    PROVE  /\ Refuses(k, t) => Refuses(k, u)
           /\ Stuck(k, t) => Stuck(k, u)
<1>1. ASSUME Refuses(k, t) PROVE Refuses(k, u)
  <2>1. PICK x \in EngineFiles : Section(k, x) # {} /\ ~Import!Unfits(x, Section(k, x), t[x])
    BY <1>1 DEF Refuses
  <2>2. ~Import!Unfits(x, Section(k, x), {})
    BY <2>1, NotThere
  <2> QED BY <2>1, <2>2 DEF Refuses
<1> QED BY <1>1 DEF Stuck

(* A patch all of whose sections reverse has nothing to, if it was stuck.   *)
LEMMA ReversesNothing ==
    ASSUME NEW k, Stuck(k, tree), ~Refuses(k, tree), tree' = [x \in EngineFiles |-> tree[x] \ Section(k, x)],
           Import!TypeOK
    PROVE  tree' = tree
<1>1. \A x \in EngineFiles : Section(k, x) = {}
  BY DEF Stuck
<1>2. \A x \in EngineFiles : tree'[x] = tree[x]
  BY <1>1
<1> QED BY <1>2 DEF Import!TypeOK

(* The step to a state in which no import runs: nothing has changed, or the count starts anew. *)
LEMMA IdleRecovers ==
    ASSUME Recovering, ~Import!Importing, ~Import!Importing', bodies' = bodies, tree' = tree,
           again' = again
    PROVE  Recovering'
<1>1. SUFFICES ASSUME Import!Applies PROVE /\ 2 * again <= Len(Order)
                   /\ \E j \in 0..Len(Order) : 2 * again <= j /\ Ready(j)'
  <2>1. ipc' \in {"idle", "check", "unpend"}
    BY DEF Import!Importing
  <2> QED BY <2>1, QueueStays DEF Recovering, Working
<1>2. \A j : Ready(j)' <=> Ready(j)
  BY QueueStays DEF Ready
<1> QED BY <1>1, <1>2 DEF Recovering

LEMMA AnewRecovers ==
    ASSUME ImportBounds, ~Import!Importing', again' = 0
    PROVE  Recovering'
<1>1. ipc' \in {"idle", "check", "unpend"}
  BY DEF Import!Importing
<1>2. Len(Order) \in Nat /\ 0 \in 0..Len(Order)
  BY DEF ImportBounds
<1>3. Ready(0)'
  <2>1. \A m : ~(m \in 1..-1)
    OBVIOUS
  <2> QED BY <2>1 DEF Ready
<1> QED BY <1>1, <1>2, <1>3 DEF Recovering, Working

(* A step of an import that is not forced, or is disturbed, keeps the count. *)
LEMMA OtherRecovers ==
    ASSUME ImportBounds, Recovering, Import!Importing', bodies' = bodies, again' = again \/ again' = 0,
           ~Forcing'
    PROVE  Recovering'
<1>1. Len(Order) \in Nat
  BY DEF ImportBounds
<1> QED BY <1>1, QueueStays DEF Recovering

(* A forced import starts where the last one has left the tree.             *)
LEMMA CheckRecovers ==
    ASSUME ImportBounds, ImportTyped, Progress, Recovering, Import!Check
    PROVE  Recovering'
<1>1. bodies' = bodies /\ tree' = tree /\ again' = again /\ ~Import!Importing
  BY DEF Import!Check, Import!Importing, Import!Idle
<1>2. CASE Import!Idle
  BY <1>1, <1>2, IdleRecovers DEF Import!Idle, Import!Importing
<1>3. CASE ~Import!Idle
  <2>1. /\ ipc' = "reverse" /\ i = 1 /\ saved = {} /\ applied = <<>> /\ firstFailed = NoPatch
        /\ attempt = "first" /\ UNCHANGED Import!progress
    BY <1>1, <1>3 DEF Import!Check, Progress, AtRest
  <2>2. /\ i' = 1 /\ saved' = {} /\ applied' = <<>> /\ Import!Importing' /\ firstFailed' = NoPatch
        /\ attempt' = "first"
    BY <2>1 DEF Import!progress, Import!Importing
  <2>3. SUFFICES ASSUME Import!Applies
                 PROVE  /\ 2 * again <= Len(Order)
                        /\ \E j \in 0..Len(Order) : 2 * again <= j /\ Advancing(j)'
    BY <1>1, <2>1, <2>2, QueueStays DEF Recovering
  <2>4. PICK j \in 0..Len(Order) : 2 * again <= j /\ Ready(j)
    BY <1>1, <2>3 DEF Recovering
  <2>5. Bare(i - 1)'
    BY <2>2 DEF Bare, InOrder
  <2>6. \A x : ~Reached(x, 0, j)
    BY DEF Reached
  <2>7. /\ \A m \in 1 + 1..j - 1 : Stuck(m, tree)
        /\ 1 < j => Whole(j, tree) /\ Stuck(1, tree)
        /\ 1 = j => Whole(1, tree)
    <3>1. j \in Int /\ \A m \in 1 + 1..j - 1 : m \in 1..j - 1
      BY DEF ImportBounds
    <3> QED BY <2>4, <3>1 DEF Ready
  <2>8. Advancing(j)'
    BY <1>1, <2>1, <2>2, <2>5, <2>6, <2>7, QueueStays DEF Advancing
  <2> QED BY <2>3, <2>4, <2>8 DEF Recovering
<1> QED BY <1>2, <1>3

(* A step of a forced import that goes on.                                  *)
LEMMA GoesOn ==
    ASSUME ImportBounds, Recovering, Working, Working', bodies' = bodies, again' = again,
           Forcing' => Forcing,
           Import!Applies /\ Forcing' => \A j \in 0..Len(Order) : Advancing(j) => Advancing(j)'
    PROVE  Recovering'
<1>1. ipc' \notin {"idle", "check", "unpend", "rollback", "report"}
  BY DEF Working
<1> QED BY <1>1, QueueStays DEF Recovering, Import!Importing

(* What a reset of the files that the patch at hand is the first to touch leaves alone. *)
LEMMA ResetSpares ==
    ASSUME ImportBounds, ImportTyped, i <= until, NEW j \in 0..Len(Order), Advancing(j),
           \A x \in EngineFiles : tree'[x] = tree[x] \/ (tree'[x] = {} /\ x \in Opened(i))
    PROVE  /\ \A m \in i + 1..j - 1 : Stuck(m, tree')
           /\ i < j => Whole(j, tree')
           /\ \A x \in EngineFiles : Reached(x, i - 1, j) => tree'[x] = Import!Laid(i - 1, x)
           /\ Refuses(i, tree) => Refuses(i, tree')
<1>1. i \in 1..Len(Order)
  BY AtHand
<1>2. \A m \in i + 1..j - 1 : Stuck(m, tree')
  BY RefusesReset DEF Advancing
<1>3. ASSUME i < j PROVE Whole(j, tree')
  <2>1. \A x \in Opened(j) : Section(i, x) = {} /\ x \in EngineFiles
    BY <1>1, <1>3 DEF Opened
  <2>2. \A x \in Opened(j) : x \notin Opened(i)
    BY <2>1 DEF Opened
  <2> QED BY <1>3, <2>1, <2>2 DEF Advancing, Whole
<1>4. ASSUME NEW x \in EngineFiles, Reached(x, i - 1, j) PROVE tree'[x] = Import!Laid(i - 1, x)
  <2>1. x \notin Opened(i)
    BY <1>4 DEF Reached, Opened
  <2> QED BY <1>4, <2>1 DEF Advancing
<1>5. Refuses(i, tree) => Refuses(i, tree')
  BY RefusesReset
<1> QED BY <1>2, <1>3, <1>4, <1>5

(* git apply --reverse: what reverses and is not behind it is none of the queue's yet. *)
LEMMA ReverseAdvances ==
    ASSUME ImportBounds, ImportTyped, Import!Applies, NEW j \in 0..Len(Order), Advancing(j),
           Import!Reverse
    PROVE  Advancing(j)'
<1>1. /\ ipc = "reverse" /\ i <= until /\ bodies' = bodies /\ i' = i /\ attempt' = attempt
      /\ saved' = saved /\ applied' = applied /\ firstFailed' = firstFailed
  BY DEF Import!Reverse, Import!progress
<1>2. /\ i \in 1..Len(Order)
      /\ Import!Touched(Import!Current) = {x \in EngineFiles : Section(i, x) # {}}
      /\ \A x \in EngineFiles : Import!Body[x] = Section(i, x)
  BY <1>1, AtHand
<1>3. Bare(i - 1)'
  BY <1>1 DEF Advancing, Bare, InOrder
<1>4. Refuses(i, tree) <=> ~ \A x \in Import!Touched(Import!Current) : Import!Unfits(x, Import!Body[x], tree[x])
  BY <1>2 DEF Refuses
<1>5. CASE Refuses(i, tree)
  <2>1. tree' = tree /\ ipc' = "checkout"
    BY <1>4, <1>5 DEF Import!Reverse
  <2> QED BY <1>1, <1>3, <1>5, <2>1, QueueStays DEF Advancing
<1>6. CASE ~Refuses(i, tree)
  <2>1. tree' = [x \in EngineFiles |-> tree[x] \ Import!Body[x]] /\ ipc' = "forward"
    BY <1>4, <1>6 DEF Import!Reverse
  <2>2. \A x \in EngineFiles : tree'[x] = tree[x] \ Section(i, x)
    BY <1>2, <2>1
  <2>3. attempt = "first"
    BY <1>1, <1>6 DEF Advancing
  <2>4. \A x \in EngineFiles : Section(i, x) # {} => Import!Unfits(x, Section(i, x), tree[x])
    BY <1>6 DEF Refuses
  <2>5. AllFit(i, tree')
    BY <2>2, <2>4 DEF AllFit, Import!Unfits
  <2>6. ASSUME NEW x \in EngineFiles, Reached(x, i - 1, j) PROVE tree'[x] = Import!Laid(i - 1, x)
    <3>1. tree[x] = Import!Laid(i - 1, x)
      BY <2>6 DEF Advancing
    <3>2. Section(i, x) = {}
      <4>1. i - 1 \in 0..i - 1
        BY <1>2
      <4> QED BY <1>2, <2>4, <3>1, <4>1, NotYet
    <3> QED BY <2>2, <3>1, <3>2
  <2>7. CASE i < j
    <3>1. tree' = tree
      <4>1. tree' = [x \in EngineFiles |-> tree[x] \ Section(i, x)]
        BY <1>2, <2>1
      <4>2. Stuck(i, tree)
        BY <1>1, <2>3, <2>7 DEF Advancing
      <4> QED BY <1>6, <4>1, <4>2, ReversesNothing DEF ImportTyped
    <3>2. Emptied(i, tree)
      <4>1. \A x \in EngineFiles : Section(i, x) = {}
        BY <1>1, <1>6, <2>3, <2>7 DEF Advancing, Stuck
      <4> QED BY <4>1 DEF Emptied, Opened
    <3> QED BY <1>1, <1>3, <2>1, <2>3, <2>5, <3>1, <3>2, QueueStays DEF Advancing
  <2>8. CASE i = j
    <3>1. Emptied(i, tree')
      BY <1>1, <2>2, <2>3, <2>8 DEF Advancing, Whole, Emptied, Opened
    <3>2. \A m : ~(m \in i + 1..j - 1)
      BY <1>2, <2>8
    <3> QED BY <1>1, <1>2, <1>3, <2>1, <2>3, <2>5, <2>6, <2>8, <3>1, <3>2, QueueStays DEF Advancing
  <2>9. CASE j < i
    <3>1. /\ \A m : ~(m \in i + 1..j - 1)
          /\ ~(i <= j) /\ ~(i < j)
      BY <1>2, <2>9
    <3> QED BY <1>1, <1>2, <1>3, <2>1, <2>3, <2>5, <2>6, <3>1, QueueStays DEF Advancing
  <2> QED BY <1>2, <2>7, <2>8, <2>9
<1> QED BY <1>5, <1>6

(* restoreFile and removeFile: the files the patch is the first to touch are as HEAD has them. *)
LEMMA CleanupAdvances ==
    ASSUME ImportBounds, ImportTyped, Import!Applies, NEW j \in 0..Len(Order), Advancing(j),
           Import!Checkout \/ Import!Delete
    PROVE  Advancing(j)'
<1>1. /\ i <= until /\ bodies' = bodies /\ i' = i /\ attempt' = attempt
      /\ saved' = saved /\ applied' = applied /\ firstFailed' = firstFailed
      /\ ipc \in {"checkout", "delete"} /\ ipc' \in {"delete", "forward"}
  BY DEF Import!Checkout, Import!Delete, Import!progress, ImportTyped, InRange
<1>2. InOrder(i - 1) /\ Refuses(i, tree)
  BY <1>1 DEF Advancing, Bare
<1>3. Import!Resettable = Opened(i)
  BY <1>1, <1>2, ResettableOpened
<1>4. \A x \in EngineFiles : tree'[x] = tree[x] \/ (tree'[x] = {} /\ x \in Opened(i))
  BY <1>3 DEF Import!Checkout, Import!Delete
<1>5. /\ \A m \in i + 1..j - 1 : Stuck(m, tree')
      /\ i < j => Whole(j, tree')
      /\ \A x \in EngineFiles : Reached(x, i - 1, j) => tree'[x] = Import!Laid(i - 1, x)
      /\ Refuses(i, tree')
  BY <1>1, <1>2, <1>4, ResetSpares
<1>6. Bare(i - 1)'
  BY <1>1 DEF Advancing, Bare, InOrder
<1>7. CASE Import!Checkout
  <2>1. \A x \in Opened(i) \ Added : tree'[x] = {}
    BY <1>3, <1>7 DEF Import!Checkout, Opened
  <2>2. ipc' = "delete"
    BY <1>7 DEF Import!Checkout
  <2>3. (Opened(i) \ Added)' = Opened(i) \ Added
    BY <1>1, BodiesStay
  <2> QED BY <1>1, <1>5, <1>6, <2>1, <2>2, <2>3, QueueStays DEF Advancing
<1>8. CASE Import!Delete
  <2>1. Emptied(i, tree')
    <3>1. \A x \in Opened(i) \ Added : tree[x] = {}
      BY <1>8 DEF Advancing, Import!Delete
    <3> QED BY <1>3, <1>8, <3>1 DEF Import!Delete, Opened, Emptied
  <2>2. ipc' = "forward"
    BY <1>8 DEF Import!Delete
  <2> QED BY <1>1, <1>5, <1>6, <2>1, <2>2, QueueStays DEF Advancing
<1> QED BY <1>7, <1>8

(* A patch that no longer fits shares a file with one after the j-th.       *)
LEMMA FailsBeyond ==
    ASSUME ImportBounds, ImportTyped, Import!Applies, i <= until, NEW j \in 0..Len(Order),
           Advancing(j), ipc = "forward", ~AllFit(i, tree)
    PROVE  Refuses(i, tree) /\ Emptied(i, tree) /\ j + 2 <= i
<1>1. i \in 1..Len(Order) /\ i - 1 \in Nat
  BY AtHand
<1>2. Refuses(i, tree) /\ Emptied(i, tree)
  BY DEF Advancing
<1>3. PICK x \in EngineFiles : Section(i, x) # {} /\ ~Import!Fits(x, Section(i, x), tree[x])
  BY DEF AllFit
<1>4. Import!Fits(x, Section(i, x), Import!Laid(i - 1, x))
  BY <1>1, <1>3, AppliesAt
<1>5. ~Reached(x, i - 1, j)
  BY <1>3, <1>4 DEF Advancing
<1>6. x \notin Opened(i)
  <2>1. SUFFICES ASSUME x \in Opened(i) PROVE FALSE
    OBVIOUS
  <2>2. tree[x] = {} /\ \A m \in 1..i - 1 : Section(m, x) = {}
    BY <1>2, <2>1 DEF Emptied, Opened
  <2>3. Import!Laid(i - 1, x) = {}
    BY <1>1, <2>2, LaidSteps
  <2> QED BY <1>3, <1>4, <2>2, <2>3
<1>7. PICK m \in 1..i - 1 : Section(m, x) # {}
  BY <1>3, <1>6 DEF Opened
<1>8. ~(m <= j)
  BY <1>5, <1>7 DEF Reached
<1> QED BY <1>1, <1>2, <1>7, <1>8

(* git apply: the patch is laid, and the ones to come are as far from reversing as before. *)
LEMMA ForwardAdvances ==
    ASSUME ImportBounds, ImportTyped, Import!Applies, NEW j \in 0..Len(Order), Advancing(j),
           Import!Forward
    PROVE  Advancing(j)'
<1>1. /\ i <= until /\ bodies' = bodies /\ ipc = "forward" /\ attempt = "first"
  BY DEF Import!Forward, ImportTyped, InRange, Advancing, Import!TypeOK
<1>2. /\ i \in 1..Len(Order) /\ i - 1 \in Nat /\ Import!Current = Order[i]
      /\ Import!Touched(Import!Current) = {x \in EngineFiles : Section(i, x) # {}}
      /\ \A x \in EngineFiles : Import!Body[x] = Section(i, x)
  BY <1>1, AtHand
<1>3. AllFit(i, tree)
        <=> \A x \in Import!Touched(Import!Current) : Import!Fits(x, Import!Body[x], tree[x])
  BY <1>2 DEF AllFit
<1>4. CASE ~AllFit(i, tree)
  <2>1. /\ tree' = tree /\ ipc' = "failed" /\ UNCHANGED Import!progress
    BY <1>3, <1>4 DEF Import!Forward
  <2>2. Refuses(i, tree) /\ Emptied(i, tree) /\ j + 2 <= i
    BY <1>1, <1>4, FailsBeyond
  <2>3. Bare(i - 1)'
    BY <2>1 DEF Advancing, Bare, InOrder, Import!progress
  <2> QED BY <1>1, <2>1, <2>2, <2>3, QueueStays DEF Advancing, Import!progress
<1>5. CASE AllFit(i, tree)
  <2>1. /\ tree' = [x \in EngineFiles |-> tree[x] \cup Import!Body[x]]
        /\ applied' = Append(applied, [patch |-> Import!Current, saved |-> saved])
        /\ ipc' = "reverse" /\ i' = i + 1 /\ saved' = {} /\ attempt' = "first"
        /\ firstFailed' = firstFailed
    BY <1>3, <1>5 DEF Import!Forward, Import!Advance
  <2>2. \A x \in EngineFiles : tree'[x] = tree[x] \cup Section(i, x)
    BY <1>2, <2>1
  <2>3. Bare(i - 1)'
    <3>1. applied \in Seq(Patched) /\ Len(applied) = i - 1 /\ saved = {}
      BY DEF ImportTyped, Import!TypeOK, Patched, Advancing, Bare, InOrder
    <3>2. Len(applied') = i /\ applied'[i].patch = Order[i] /\ applied'[i].saved = {}
      BY <2>1, <3>1, <1>2
    <3>3. \A k \in 1..i - 1 : applied'[k].patch = Order[k] /\ applied'[k].saved = {}
      BY <2>1, <3>1 DEF Advancing, Bare, InOrder
    <3>4. \A k \in 1..i' - 1 : k = i \/ k \in 1..i - 1
      BY <1>2, <2>1
    <3>5. /\ Len(applied') = i' - 1
          /\ \A k \in 1..i' - 1 : applied'[k].patch = Order[k] /\ applied'[k].saved = {}
      BY <3>2, <3>3, <3>4, <1>2, <2>1
    <3> QED BY <3>5 DEF Bare, InOrder
  <2>4. ASSUME NEW x \in EngineFiles, Reached(x, i, j) PROVE tree'[x] = Import!Laid(i, x)
    <3>1. Import!Laid(i, x) = Import!Laid(i - 1, x) \cup Section(i, x)
      <4>1. i - 1 + 1 = i
        BY <1>2
      <4> QED BY <1>2, <4>1, LaidSteps
    <3>2. CASE Reached(x, i - 1, j)
      BY <2>2, <3>1, <3>2 DEF Advancing
    <3>3. CASE ~Reached(x, i - 1, j)
      <4>1. PICK m \in 1..i : m <= j /\ Section(m, x) # {}
        BY <2>4 DEF Reached
      <4>2. m = i
        BY <1>2, <3>3, <4>1 DEF Reached
      <4>3. \A k \in 1..i - 1 : Section(k, x) = {}
        BY <1>2, <3>3, <4>1, <4>2 DEF Reached
      <4>4. x \in Opened(i)
        BY <4>1, <4>2, <4>3 DEF Opened
      <4>5. tree[x] = {}
        BY <1>1, <4>1, <4>2, <4>4 DEF Advancing, Emptied
      <4>6. Import!Laid(i - 1, x) = {}
        BY <1>2, <4>3, LaidSteps
      <4> QED BY <2>2, <3>1, <4>5, <4>6
    <3> QED BY <3>2, <3>3
  <2>5. ASSUME NEW m \in i + 1..j - 1 PROVE Stuck(m, tree')
    <3>1. Stuck(m, tree) /\ i <= j
      BY <1>2, <2>5 DEF Advancing
    <3>2. SUFFICES ASSUME Refuses(m, tree) PROVE Refuses(m, tree')
      BY <3>1 DEF Stuck
    <3>3. PICK x \in EngineFiles : Section(m, x) # {} /\ ~Import!Unfits(x, Section(m, x), tree[x])
      BY <3>2 DEF Refuses
    <3>4. CASE Section(i, x) = {}
      BY <2>2, <3>3, <3>4 DEF Refuses
    <3>5. CASE Section(i, x) # {}
      <4>1. i \in 1..i
        BY <1>2
      <4>2. tree'[x] = Import!Laid(i, x)
        BY <2>4, <3>1, <3>5, <4>1 DEF Reached
      <4>3. m \in 1..Len(Order) /\ i \in 0..m - 1
        BY <1>2, <2>5 DEF ImportBounds
      <4> QED BY <3>3, <4>2, <4>3, NotYet DEF Refuses
    <3> QED BY <3>4, <3>5
  <2>6. ASSUME i < j PROVE Whole(j, tree') /\ (i + 1 < j => Stuck(i + 1, tree'))
    <3>1. i + 1 < j => i + 1 \in i + 1..j - 1
      BY <1>2, <2>6
    <3>2. \A x \in Opened(j) : x \in EngineFiles /\ Section(i, x) = {}
      BY <1>2, <2>6 DEF Opened
    <3> QED BY <2>2, <2>5, <2>6, <3>1, <3>2 DEF Advancing, Whole
  <2>7. /\ \A m \in i + 1 + 1..j - 1 : m \in i + 1..j - 1
        /\ i + 1 < j => i < j
        /\ i + 1 = j => i < j
        /\ i + 1 - 1 = i
    BY <1>2
  <2>8. i' - 1 = i
    BY <1>2, <2>1
  <2>9. \A x \in EngineFiles : Reached(x, i - 1, j)' => tree'[x] = Import!Laid(i - 1, x)'
    BY <1>1, <2>4, <2>8, QueueStays
  <2>10. \A m \in i' + 1..j - 1 : Stuck(m, tree)'
    BY <1>1, <2>1, <2>5, <2>7, QueueStays
  <2>11. /\ i' < j => Whole(j, tree)' /\ Stuck(i, tree)'
         /\ i' = j => Whole(i, tree)'
    BY <1>1, <2>1, <2>6, <2>7, QueueStays
  <2>12. firstFailed' = NoPatch
    BY <2>1 DEF Advancing
  <2> QED BY <2>1, <2>3, <2>9, <2>10, <2>11, <2>12 DEF Advancing
<1> QED BY <1>4, <1>5

(* Nothing is in the way of a patch that creates a file: the reset removed it. *)
LEMMA NothingInTheWay ==
    ASSUME ImportBounds, ImportTyped, Import!Applies, i <= until, Emptied(i, tree)
    PROVE  Import!InTheWay = {}
<1>1. /\ i \in 1..Len(Order) /\ i - 1 \in Nat
      /\ Import!Touched(Import!Current) = {x \in EngineFiles : Section(i, x) # {}}
      /\ \A x \in EngineFiles : Import!Body[x] = Section(i, x)
  BY AtHand
<1>2. SUFFICES ASSUME NEW x \in EngineFiles, New \in Section(i, x), tree[x] # {} PROVE FALSE
  BY <1>1 DEF Import!InTheWay
<1>3. \A m \in 1..i - 1 : Section(m, x) = {}
  BY <1>1, <1>2, Disjoint
<1> QED BY <1>2, <1>3 DEF Emptied, Opened

(* The next attempt is with --reject, ...                                   *)
LEMMA RetryAdvances ==
    ASSUME ImportBounds, ImportTyped, Import!Applies, NEW j \in 0..Len(Order), Advancing(j),
           Import!Overwrite \/ Import!TryReject
    PROVE  Advancing(j)'
<1>1. /\ i <= until /\ ipc = "failed" /\ Refuses(i, tree) /\ Emptied(i, tree) /\ j + 2 <= i /\ saved = {}
  BY DEF Import!Overwrite, Import!TryReject, ImportTyped, InRange, Advancing
<1>2. Import!TryReject
  BY <1>1, NothingInTheWay DEF Import!Overwrite
<1>3. /\ bodies' = bodies /\ i' = i /\ applied' = applied /\ firstFailed' = firstFailed
      /\ saved' = {} /\ ipc' = "reverse" /\ attempt' = "reject"
  BY <1>2 DEF Import!TryReject
<1>4. tree' = tree
  <2>1. tree' = [x \in EngineFiles |-> tree[x]]
    BY <1>1, <1>2 DEF Import!TryReject, Import!PutBack
  <2> QED BY <2>1 DEF ImportTyped, Import!TypeOK
<1>5. Bare(i - 1)'
  BY <1>3 DEF Advancing, Bare, InOrder
<1> QED BY <1>1, <1>3, <1>4, <1>5, QueueStays DEF Advancing

(* ... which brings the files that the patch is the first to touch to what it wants: *)
(* a section that fits HEAD is applied whole.                               *)
LEMMA RejectMakesWhole ==
    ASSUME ImportBounds, ImportTyped, Import!Applies, i <= until, Emptied(i, tree), Import!Reject
    PROVE  Whole(i, tree')
<1>1. /\ i \in 1..Len(Order) /\ i - 1 \in Nat
      /\ \A x \in EngineFiles : Import!Body[x] = Section(i, x)
  BY AtHand
<1>2. SUFFICES ASSUME NEW x \in Opened(i) PROVE tree'[x] = Section(i, x)
  BY DEF Whole
<1> DEFINE S == Section(i, x)
<1>3. x \in EngineFiles /\ S # {} /\ tree[x] = {} /\ \A m \in 1..i - 1 : Section(m, x) = {}
  BY <1>2 DEF Opened, Emptied
<1>4. Import!Laid(i - 1, x) = {}
  BY <1>1, <1>3, LaidSteps
<1>5. Import!Fits(x, S, {})
  BY <1>1, <1>3, <1>4, AppliesAt
<1>6. tree'[x] = IF New \in S THEN (IF tree[x] = {} THEN S ELSE tree[x])
                 ELSE IF x \in Added /\ tree[x] = {} THEN {}
                 ELSE tree[x] \cup Import!Matching(x, S, tree[x])
  BY <1>1, <1>3 DEF Import!Reject
<1>7. CASE New \in S
  BY <1>3, <1>6, <1>7
<1>8. CASE New \notin S
  <2>1. x \notin Added /\ \A h \in S : Import!Matches(x, h, S, {})
    BY <1>3, <1>5, <1>8 DEF Import!Fits
  <2>2. S \in SUBSET S
    OBVIOUS
  <2>3. Import!Matching(x, S, {}) = S
    <3>1. S \subseteq Import!Matching(x, S, {})
      BY <2>1, <2>2 DEF Import!Matching
    <3> QED BY <3>1, MatchingPart
  <2>4. tree'[x] = {} \cup Import!Matching(x, S, {})
    BY <1>3, <1>6, <1>8, <2>1
  <2> QED BY <2>3, <2>4
<1> QED BY <1>7, <1>8

LEMMA RejectRecovers ==
    ASSUME ImportBounds, ImportTyped, Recovering, Import!Reject
    PROVE  Recovering'
<1>1. /\ i <= until /\ bodies' = bodies /\ again' = again /\ Import!GiveUp
      /\ UNCHANGED <<Import!command, Import!watch>> /\ Working
      /\ ipc = "forward" /\ attempt = "reject"
  BY DEF Import!Reject, ImportTyped, InRange, Import!watch, Working
<1>2. Import!Importing /\ Import!Importing'
  BY <1>1 DEF Import!GiveUp, Import!Advance, Import!Importing
<1>3. SUFFICES ASSUME Import!Applies, Forcing
               PROVE  BackedOut' /\ ipc' = "rollback" /\ 2 * again <= Len(Order)
  <2>1. ASSUME ~Forcing PROVE ~Forcing'
    BY <1>1, <2>1 DEF Forcing, Import!command, Import!watch
  <2>2. ASSUME ~Import!Applies PROVE Recovering'
    BY <1>1, <2>2, QueueStays DEF Recovering
  <2> QED BY <1>1, <1>2, <1>3, <2>1, <2>2, OtherRecovers, QueueStays DEF Recovering, Working
<1>4. PICK j \in 0..Len(Order) : 2 * again <= j /\ Advancing(j)
  BY <1>1, <1>3 DEF Recovering
<1>5. /\ ipc' = "rollback" /\ i' = i /\ applied' = applied
  BY <1>1, <1>3 DEF Import!GiveUp, Forcing
<1>6. i \in 1..Len(Order) /\ j + 2 <= i /\ Bare(i - 1) /\ Emptied(i, tree) /\ again \in Nat
  BY <1>1, <1>4, AtHand DEF Advancing, ImportTyped, Import!TypeOK, ImportBounds
<1>7. Whole(i, tree')
  BY <1>1, <1>3, <1>6, RejectMakesWhole
<1>8. Len(applied) = i - 1
  BY <1>6 DEF Bare, InOrder
<1>9. \A m : ~(m \in Len(applied) + 1..i - 1)
  BY <1>6, <1>8
<1>10. /\ Len(applied) < i /\ 2 * (again + 1) <= i /\ i <= Len(Order) /\ Len(Order) \in Nat
       /\ 2 * again <= Len(Order)
  BY <1>4, <1>6, <1>8 DEF ImportBounds
<1>11. Bare(Len(applied))'
  BY <1>5, <1>6, <1>8 DEF Bare, InOrder
<1>12. BackedOut'
  BY <1>1, <1>5, <1>7, <1>9, <1>10, <1>11, QueueStays DEF BackedOut
<1> QED BY <1>5, <1>10, <1>12

(* A patch rolled back no longer reverses, nor do the later ones.           *)
LEMMA RollbackBacksOut ==
    ASSUME ImportBounds, ImportTyped, Import!Applies, BackedOut, Import!Rollback
    PROVE  BackedOut'
<1> DEFINE l == Len(applied)
<1>1. /\ applied \in Seq(Patched) /\ applied # <<>> /\ i \in 1..Len(Order) /\ l < i /\ l \in Nat /\ 1 <= l
      /\ bodies' = bodies /\ i' = i /\ again' = again /\ ipc' = "rollback"
  BY DEF Import!Rollback, ImportTyped, Import!TypeOK, Patched, BackedOut, Import!watch
<1>2. applied[l].patch = Order[l] /\ applied[l].saved = {}
  BY <1>1 DEF BackedOut, Bare, InOrder
<1>3. l \in 1..Len(Order) /\ l \in 1..i - 1
  BY <1>1
<1>4. Import!Touched(Order[l]) = {x \in EngineFiles : Section(l, x) # {}}
  BY DEF Import!Touched, Section
<1>5. Refuses(l, tree) <=> ~ \A x \in Import!Touched(Order[l]) : Import!Unfits(x, bodies[Order[l]][x], tree[x])
  BY <1>4 DEF Refuses, Section
<1>6. tree' = [x \in EngineFiles |-> IF Refuses(l, tree) THEN tree[x] ELSE tree[x] \ Section(l, x)]
  <2> DEFINE off == IF \A x \in Import!Touched(Order[l]) : Import!Unfits(x, bodies[Order[l]][x], tree[x])
                    THEN [x \in EngineFiles |-> tree[x] \ bodies[Order[l]][x]]
                    ELSE tree
  <2>1. tree' = [x \in EngineFiles |-> off[x]]
    BY <1>2 DEF Import!Rollback
  <2>2. \A x \in EngineFiles : off[x] = IF Refuses(l, tree) THEN tree[x] ELSE tree[x] \ Section(l, x)
    BY <1>5 DEF Section
  <2> QED BY <2>1, <2>2
<1>7. \A m \in l..i - 1 : Stuck(m, tree')
  <2>1. CASE Refuses(l, tree)
    <3>1. \A m \in l..i - 1 : Stuck(m, tree)
      <4>1. \A m \in l..i - 1 : m = l \/ m \in l + 1..i - 1
        BY <1>1
      <4> QED BY <2>1, <4>1 DEF BackedOut, Stuck
    <3>2. \A x \in EngineFiles : tree'[x] = tree[x]
      BY <1>6, <2>1
    <3> QED BY <3>1, <3>2, RefusesReset
  <2>2. CASE ~Refuses(l, tree)
    <3>1. \A x \in EngineFiles : tree'[x] = tree[x] \ Section(l, x)
      BY <1>6, <2>2
    <3>2. SUFFICES ASSUME NEW m \in l..i - 1, NEW y \in EngineFiles, Section(m, y) # {}
                   PROVE  Refuses(m, tree')
      BY DEF Stuck
    <3>3. CASE m = l
      <4>1. ~(Section(l, y) \subseteq tree'[y])
        BY <3>1, <3>2, <3>3
      <4> QED BY <3>2, <3>3, <4>1, NotThere DEF Refuses
    <3>4. CASE m # l
      <4>1. m \in l + 1..i - 1 /\ m \in 1..Len(Order) /\ l \in 1..m - 1
        BY <1>1, <3>2, <3>4
      <4>2. Refuses(m, tree)
        BY <3>2, <4>1 DEF BackedOut, Stuck
      <4>3. PICK x \in EngineFiles : Section(m, x) # {} /\ ~Import!Unfits(x, Section(m, x), tree[x])
        BY <4>2 DEF Refuses
      <4>4. CASE Section(l, x) = {}
        BY <3>1, <4>3, <4>4 DEF Refuses
      <4>5. CASE Section(l, x) # {}
        <5>1. Import!Unfits(x, Section(l, x), tree[x])
          BY <2>2, <4>5 DEF Refuses
        <5>2. ~Import!Unfits(x, Section(m, x), tree[x] \ Section(l, x))
          BY <4>1, <4>3, <4>5, <5>1, RefusesStays DEF ImportTyped
        <5> QED BY <3>1, <4>3, <5>2 DEF Refuses
      <4> QED BY <4>4, <4>5
    <3> QED BY <3>3, <3>4
  <2> QED BY <2>1, <2>2
<1>8. Whole(i, tree')
  <2>1. \A x \in Opened(i) : x \in EngineFiles /\ Section(l, x) = {}
    BY <1>3 DEF Opened
  <2> QED BY <1>6, <2>1 DEF BackedOut, Whole
<1>9. /\ applied' = SubSeq(applied, 1, l - 1) /\ Len(applied') = l - 1
      /\ \A k \in 1..l - 1 : applied'[k] = applied[k]
  BY <1>1, Sequence DEF Import!Rollback
<1>10. Bare(Len(applied))'
  BY <1>1, <1>9 DEF BackedOut, Bare, InOrder
<1>11. \A m \in Len(applied') + 1..i - 1 : Stuck(m, tree')
  <2>1. Len(applied') + 1 = l
    BY <1>1, <1>9
  <2> QED BY <1>7, <2>1
<1>12. Len(applied') < i
  BY <1>1, <1>9
<1> QED BY <1>1, <1>8, <1>10, <1>11, <1>12, QueueStays DEF BackedOut

(* The steps of a forced import keep its invariant; ...                     *)
LEMMA WorkRecovers ==
    ASSUME ImportBounds, ImportTyped, Recovering,
           \/ Import!Reverse \/ Import!Checkout \/ Import!Delete \/ Import!Forward
           \/ Import!Overwrite \/ Import!TryReject
    PROVE  Recovering'
<1>1. /\ Working /\ Working' /\ bodies' = bodies /\ UNCHANGED <<Import!command, Import!watch>>
  BY DEF Import!Reverse, Import!Checkout, Import!Delete, Import!Forward, Import!Overwrite,
     Import!TryReject, Import!Advance, Working
<1>2. again' = again /\ (Forcing' => Forcing)
  BY <1>1 DEF Forcing, Import!command, Import!watch
<1>3. Import!Applies => \A j \in 0..Len(Order) : Advancing(j) => Advancing(j)'
  BY ReverseAdvances, CleanupAdvances, ForwardAdvances, RetryAdvances
<1> QED BY <1>1, <1>2, <1>3, GoesOn

(* ... one that git disturbs is no longer counted, as is one it gives up;   *)
LEMMA FaultRecovers ==
    ASSUME ImportBounds, ImportTyped, Recovering, Import!CheckoutFails \/ Import!OverwriteFails
    PROVE  Recovering'
<1>1. /\ bodies' = bodies /\ again' = again /\ disturbed' = TRUE /\ Import!Importing'
  BY DEF Import!CheckoutFails, Import!OverwriteFails, Import!GiveUp, Import!Advance,
     Import!Importing
<1> QED BY <1>1, OtherRecovers DEF Forcing

(* a second failure of a patch does not come: what --reject applies, it gives up after. *)
LEMMA RejectFailsRecovers ==
    ASSUME ImportBounds, ImportTyped, Recovering, Import!RejectFails
    PROVE  Recovering'
<1>1. /\ bodies' = bodies /\ UNCHANGED <<Import!command, Import!watch>> /\ Working
      /\ ipc = "failed" /\ attempt = "reject" /\ Import!Importing'
  BY DEF Import!RejectFails, Import!GiveUp, Import!Advance, Import!Importing, Working
<1>2. again' = again /\ (Forcing' => Forcing)
  BY <1>1 DEF Forcing, Import!command, Import!watch
<1>3. CASE Import!Applies /\ Forcing
  BY <1>1, <1>3 DEF Recovering, Advancing
<1>4. CASE ~Import!Applies
  BY <1>1, <1>4, QueueStays DEF Recovering
<1>5. CASE ~Forcing
  BY <1>1, <1>2, <1>5, OtherRecovers
<1> QED BY <1>3, <1>4, <1>5

(* The rollback, and what follows it, ...                                   *)
LEMMA RollbackRecovers ==
    ASSUME ImportBounds, ImportTyped, Recovering, Import!Rollback \/ Import!RolledBack
    PROVE  Recovering'
<1>1. /\ bodies' = bodies /\ UNCHANGED <<Import!command, Import!watch>> /\ Import!Importing'
      /\ ipc = "rollback" /\ ipc' \in {"rollback", "report"}
  BY DEF Import!Rollback, Import!RolledBack, Import!Importing
<1>2. again' = again /\ (Forcing' => Forcing)
  BY <1>1 DEF Forcing, Import!command, Import!watch
<1>3. CASE Import!Applies /\ Forcing
  <2>1. BackedOut /\ 2 * again <= Len(Order)
    BY <1>1, <1>3 DEF Recovering
  <2>2. BackedOut'
    <3>1. CASE Import!Rollback
      BY <1>3, <2>1, <3>1, RollbackBacksOut
    <3>2. CASE Import!RolledBack
      <4>1. /\ tree' = tree /\ i' = i /\ applied' = applied /\ applied = <<>>
        BY <3>2 DEF Import!RolledBack, Import!progress
      <4> QED BY <1>1, <1>2, <2>1, <4>1, QueueStays DEF BackedOut, Bare, InOrder
    <3> QED BY <3>1, <3>2
  <2>3. ~Working'
    BY <1>1 DEF Working
  <2> QED BY <1>1, <1>2, <2>1, <2>2, <2>3 DEF Recovering
<1>4. CASE ~Import!Applies
  BY <1>1, <1>4, QueueStays DEF Recovering
<1>5. CASE ~Forcing
  BY <1>1, <1>2, <1>5, OtherRecovers
<1> QED BY <1>3, <1>4, <1>5

(* ... leave the next import ready to go beyond the patch that failed.      *)
LEMMA ReportRecovers ==
    ASSUME ImportBounds, ImportTyped, Recovering, Import!Report
    PROVE  Recovering'
<1>1. /\ bodies' = bodies /\ tree' = tree /\ ipc = "report" /\ ipc' = "idle" /\ ~Import!Importing'
      /\ again' = IF Forcing THEN again + 1 ELSE 0
  BY DEF Import!Report, Import!Idle, Import!Importing, Forcing
<1>2. CASE ~Forcing
  BY <1>1, <1>2, AnewRecovers
<1>3. CASE Forcing
  <2>1. SUFFICES ASSUME Import!Applies
                 PROVE  /\ 2 * (again + 1) <= Len(Order)
                        /\ \E j \in 0..Len(Order) : 2 * (again + 1) <= j /\ Ready(j)'
    BY <1>1, <1>3, QueueStays DEF Recovering, Working
  <2>2. BackedOut /\ applied = <<>>
    BY <1>1, <1>3, <2>1 DEF Recovering, BackedOut
  <2>3. i \in 1..Len(Order) /\ 2 * (again + 1) <= i /\ again \in Nat /\ Len(Order) \in Nat
    BY <2>2 DEF BackedOut, ImportTyped, Import!TypeOK, ImportBounds
  <2>4. \A m \in 1..i - 1 : Stuck(m, tree)
    <3>1. Len(applied) = 0
      BY <2>2
    <3> QED BY <2>2, <3>1 DEF BackedOut
  <2>5. \A j : j = i => Ready(j)'
    BY <1>1, <2>2, <2>4, QueueStays DEF BackedOut, Ready
  <2>6. i \in 0..Len(Order)
    BY <2>3
  <2>7. 2 * (again + 1) <= Len(Order)
    BY <2>3
  <2> QED BY <2>3, <2>5, <2>6, <2>7
<1> QED BY <1>2, <1>3

(* An import without a failure ends in success; success, a kill and what the *)
(* operator does start the count anew, and the rest changes nothing.        *)
LEMMA EndRecovers ==
    ASSUME ImportBounds, ImportTyped, Recovering, Import!Finish \/ Import!Close \/ Import!Kill
    PROVE  Recovering'
<1>1. CASE Import!Finish
  <2>1. /\ bodies' = bodies /\ UNCHANGED <<Import!command, Import!watch>> /\ Import!Importing'
        /\ Working /\ ~Working' /\ ipc' \in {"done", "report"} /\ ipc' # "rollback"
        /\ ipc' = "report" => firstFailed # NoPatch
    BY <1>1 DEF Import!Finish, Import!Importing, Working
  <2>2. again' = again /\ (Forcing' => Forcing)
    BY <2>1 DEF Forcing, Import!command, Import!watch
  <2>3. CASE Import!Applies /\ Forcing
    <3>1. firstFailed = NoPatch /\ 2 * again <= Len(Order)
      BY <2>1, <2>3 DEF Recovering, Advancing
    <3> QED BY <2>1, <2>2, <3>1 DEF Recovering
  <2>4. CASE ~Import!Applies
    BY <2>1, <2>4, QueueStays DEF Recovering
  <2>5. CASE ~Forcing
    BY <2>1, <2>2, <2>5, OtherRecovers
  <2> QED BY <2>3, <2>4, <2>5
<1>2. CASE Import!Close \/ Import!Kill
  <2>1. again' = 0 /\ ~Import!Importing'
    BY <1>2 DEF Import!Close, Import!Kill, Import!Idle, Import!Importing
  <2> QED BY <2>1, AnewRecovers
<1> QED BY <1>1, <1>2

LEMMA OperatorRecovers ==
    ASSUME ImportBounds, ImportTyped, Recovering,
           \/ \E l \in 1..Len(Order), w \in BOOLEAN, c \in BOOLEAN : Import!Start(l, w, c)
           \/ Import!Resolve \/ Import!Unpend \/ Import!Reset
           \/ \E x \in EngineFiles : \E u \in BOOLEAN : Import!Discard(x, u)
           \/ \E x \in EngineFiles, h \in Edits : Import!Edit(x, h)
    PROVE  Recovering'
<1>1. CASE (\E l \in 1..Len(Order), w \in BOOLEAN, c \in BOOLEAN : Import!Start(l, w, c))
           \/ Import!Unpend
  <2>1. /\ ~Import!Importing /\ ~Import!Importing' /\ bodies' = bodies /\ tree' = tree
        /\ again' = again
    BY <1>1 DEF Import!Start, Import!Unpend, Import!Importing, Import!watch
  <2> QED BY <2>1, IdleRecovers
<1>2. CASE \/ Import!Resolve \/ Import!Reset
           \/ \E x \in EngineFiles : \E u \in BOOLEAN : Import!Discard(x, u)
  <2>1. again' = 0 /\ ~Import!Importing'
    BY <1>2 DEF Import!Resolve, Import!Reset, Import!Discard, Import!Importing
  <2> QED BY <2>1, AnewRecovers
<1>3. CASE \E x \in EngineFiles, h \in Edits : Import!Edit(x, h)
  <2>1. /\ ipc' = ipc /\ disturbed' = (disturbed \/ Import!Importing) /\ again' = 0
        /\ bodies' = bodies
    BY <1>3 DEF Import!Edit
  <2>2. Import!Importing' <=> Import!Importing
    BY <2>1 DEF Import!Importing
  <2> QED BY <2>1, <2>2, AnewRecovers, OtherRecovers DEF Forcing
<1> QED BY <1>1, <1>2, <1>3

(* Every step keeps the invariant, ...                                      *)
LEMMA NextRecovers ==
    ASSUME ImportBounds, ImportTyped, Progress, Recovering, Import!Next
    PROVE  Recovering'
BY CheckRecovers, WorkRecovers, FaultRecovers, RejectRecovers, RejectFailsRecovers,
   RollbackRecovers, ReportRecovers, EndRecovers, OperatorRecovers DEF Import!Next

(* ... no step does, ...                                                    *)
LEMMA StutterRecovers ==
    ASSUME Recovering, UNCHANGED Import!vars
    PROVE  Recovering'
<1>1. /\ bodies' = bodies /\ tree' = tree /\ again' = again /\ ipc' = ipc /\ force' = force
      /\ onward' = onward /\ until' = until /\ disturbed' = disturbed /\ i' = i
      /\ applied' = applied /\ saved' = saved /\ attempt' = attempt /\ firstFailed' = firstFailed
  BY DEF Import!vars, Import!command, Import!progress, Import!watch
<1>2. /\ \A j : Ready(j)' <=> Ready(j)
      /\ \A l : Bare(l)' <=> Bare(l)
      /\ Working' <=> Working
      /\ Forcing' <=> Forcing
      /\ Import!Importing' <=> Import!Importing
  BY <1>1, QueueStays DEF Ready, Bare, InOrder, Working, Forcing, Import!Importing
<1>3. Opened(i)' = Opened(i)
  BY <1>1, BodiesStay
<1>4. \A j : Advancing(j)' <=> Advancing(j)
  BY <1>1, <1>2, <1>3, QueueStays DEF Advancing
<1>5. BackedOut' <=> BackedOut
  BY <1>1, <1>2, QueueStays DEF BackedOut
<1> QED BY <1>1, <1>2, <1>4, <1>5, QueueStays DEF Recovering

(* ... and it holds at first; it says what ForceRecovers does.              *)
LEMMA InitRecovers ==
    ASSUME ImportBounds, Import!Init
    PROVE  Recovering
<1>1. ipc = "idle" /\ again = 0
  BY DEF Import!Init
<1>2. Len(Order) \in Nat /\ 0 \in 0..Len(Order)
  BY DEF ImportBounds
<1>3. Ready(0)
  <2>1. \A m : ~(m \in 1..-1)
    OBVIOUS
  <2> QED BY <2>1 DEF Ready
<1> QED BY <1>1, <1>2, <1>3 DEF Recovering, Working, Import!Importing

LEMMA RecoverySuffices ==
    ASSUME Recovering
    PROVE  Import!ForceRecovers
BY DEF Recovering, Import!ForceRecovers

-----------------------------------------------------------------------------
(* What an import that is not forced leaves. The gate let it in with each file *)
(* as HEAD has it or as the queue makes it; so it stays, but for the patch at  *)
(* hand, to which a file belongs that it has reversed.                         *)

(* A section that fits, or is not there, is added to the fold;              *)
LEMMA FoldAdds ==
    ASSUME NEW x, NEW k, NEW content, Import!Fits(x, bodies[Order[k]][x], content)
    PROVE  Folds(x, [ok |-> TRUE, content |-> content], k)
               = [ok |-> TRUE, content |-> content \cup bodies[Order[k]][x]]
<1> DEFINE S == bodies[Order[k]][x]
           r == [ok |-> TRUE, content |-> content]
<1>1. r.ok = TRUE /\ r.content = content
  OBVIOUS
<1>2. x \in Added /\ content = {} /\ New \notin S => S = {}
  BY DEF Import!Fits
<1>3. S = {} => r = [ok |-> TRUE, content |-> content \cup S]
  OBVIOUS
<1>4. Folds(x, r, k) = IF ~r.ok \/ (x \in Added /\ r.content = {} /\ New \notin S) THEN r
                       ELSE IF New \in S \/ Import!Fits(x, S, r.content)
                       THEN [ok |-> TRUE, content |-> r.content \cup S]
                       ELSE [r EXCEPT !.ok = FALSE]
  BY DEF Folds
<1> HIDE DEF r, S
<1>5. Folds(x, r, k) = [ok |-> TRUE, content |-> content \cup S]
  BY <1>1, <1>2, <1>3, <1>4 DEF S
<1> QED BY <1>5 DEF r, S

(* of a queue that applies to HEAD, every patch's is,                       *)
LEMMA FoldLays ==
    ASSUME ImportBounds, Import!Applies, NEW x \in EngineFiles, NEW k \in 1..Len(Order)
    PROVE  Folds(x, [ok |-> TRUE, content |-> Import!Laid(k - 1, x)], k)
               = [ok |-> TRUE, content |-> Import!Laid(k, x)]
<1>1. Import!Laid(k, x) = Import!Laid(k - 1, x) \cup Section(k, x)
  <2>1. k - 1 \in Nat /\ k - 1 + 1 = k
    BY DEF ImportBounds
  <2> QED BY <2>1, LaidSteps
<1>2. Import!Fits(x, Section(k, x), Import!Laid(k - 1, x))
  <2>1. CASE Section(k, x) = {}
    BY <2>1 DEF Import!Fits
  <2>2. CASE Section(k, x) # {}
    BY <2>2, AppliesAt
  <2> QED BY <2>1, <2>2
<1>3. Import!Fits(x, bodies[Order[k]][x], Import!Laid(k - 1, x))
  BY <1>2 DEF Section
<1> QED BY <1>1, <1>3, FoldAdds DEF Section

(* so createPatchedContentContext computes what git apply lays.             *)
LEMMA ExpectedLaid ==
    ASSUME ImportBounds, Import!Applies, NEW x \in EngineFiles
    PROVE  Import!Expected(x) = [ok |-> TRUE, content |-> Import!Laid(Len(Order), x)]
<1> DEFINE L == Len(Order)
<1>1. L \in Nat
  BY DEF ImportBounds
<1>2. PICK b : /\ b[0] = [ok |-> TRUE, content |-> {}]
               /\ \A k \in 1..L : b[k] = Folds(x, b[k - 1], k)
               /\ Import!Expected(x) = b[L]
  BY ExpectedFolds
<1> DEFINE U == {m \in Nat : m <= L => b[m] = [ok |-> TRUE, content |-> Import!Laid(m, x)]}
<1> HIDE DEF L
<1>3. U = Nat
  <2>1. 0 \in U
    BY <1>1, <1>2, LaidSteps
  <2>2. ASSUME NEW j \in U PROVE j + 1 \in U
    <3>1. SUFFICES ASSUME j + 1 <= L
                   PROVE  b[j + 1] = [ok |-> TRUE, content |-> Import!Laid(j + 1, x)]
      OBVIOUS
    <3>2. j + 1 \in 1..L /\ j + 1 - 1 = j
      BY <1>1, <3>1
    <3>3. b[j + 1] = Folds(x, [ok |-> TRUE, content |-> Import!Laid(j + 1 - 1, x)], j + 1)
      BY <1>1, <1>2, <3>1, <3>2
    <3> QED BY <3>2, <3>3, FoldLays DEF L
  <2> HIDE DEF U
  <2> QED BY <2>1, <2>2, Induct DEF U
<1> QED BY <1>1, <1>2, <1>3 DEF L

(* The files are as the whole queue makes them, or as its first patches do. *)
Made == \A x \in Import!Claimed :
            tree[x] = Import!Laid(Len(Order), x) \/ tree[x] = Import!Laid(i - 1, x)

(* The same when the patch at hand has been reversed from the former.       *)
Lifted == \A x \in Import!Claimed :
              \/ tree[x] = Import!Laid(Len(Order), x) \/ tree[x] = Import!Laid(i - 1, x)
              \/ tree[x] = Import!Laid(Len(Order), x) \ Section(i, x)

Remaining ==
    /\ saved = {}
    /\ ipc # "forward" => Made
    /\ ipc = "forward" => (AllFit(i, tree) /\ Lifted) \/ (Emptied(i, tree) /\ Made)
    /\ ipc = "delete" => \A x \in Opened(i) \ Added : tree[x] = {}
    /\ ipc = "failed" => Emptied(i, tree)

(* The invariant of what is left.                                           *)
Laying == Import!Applies /\ Undisturbed /\ ~force /\ until = Len(Order)
Exact  == Laying => Remaining

(* In a queue that applies, patches create only files that none before them touches. *)
LEMMA AppliesCreates ==
    ASSUME ImportBounds, Import!Applies
    PROVE  Import!CreatedFirst
<1>1. SUFFICES ASSUME NEW k \in DOMAIN Order, NEW m \in DOMAIN Order, NEW x \in EngineFiles,
                      k < m, Section(k, x) # {}, New \in Section(m, x)
               PROVE  FALSE
  BY DEF Import!CreatedFirst, Section
<1>2. m \in 1..Len(Order) /\ k \in 1..m - 1
  BY <1>1 DEF ImportBounds
<1> QED BY <1>1, <1>2, Disjoint

(* What the gate lets in,                                                   *)
LEMMA CheckExact ==
    ASSUME ImportBounds, ImportTyped, Progress, Import!Check
    PROVE  Exact'
<1>1. SUFFICES ASSUME Import!Applies', Undisturbed', ~force', until' = Len(Order)
               PROVE  Remaining'
  BY DEF Exact, Laying
<1>2. /\ ~Import!Idle /\ bodies' = bodies /\ tree' = tree
  BY <1>1 DEF Import!Check, Import!Idle, Undisturbed
<1>3. /\ ipc' = "reverse" /\ i = 1 /\ saved = {} /\ i' = i /\ saved' = saved
      /\ Import!UnmanagedFiles = {}
  <2>1. /\ Import!UnmanagedFiles = {} \/ force
        /\ ipc' = "reverse" /\ UNCHANGED <<Import!command, Import!progress>> /\ ipc = "check"
    BY <1>2 DEF Import!Check
  <2>2. force' = force /\ i' = i /\ saved' = saved
    BY <2>1 DEF Import!command, Import!progress
  <2> QED BY <1>1, <2>1, <2>2 DEF Progress, AtRest, Import!Importing
<1>4. Import!Applies
  BY <1>1, <1>2, QueueStays
<1>5. ASSUME NEW x \in Import!Claimed
      PROVE  tree[x] = Import!Laid(Len(Order), x) \/ tree[x] = Import!Laid(0, x)
  <2>1. x \in EngineFiles
    BY DEF Import!Claimed, Import!Touched
  <2>2. CASE tree[x] = {}
    BY <2>2, LaidSteps
  <2>3. CASE tree[x] # {}
    <3>1. tree[x] = Import!Expected(x).content
      BY <1>3, <1>5, <2>3 DEF Import!UnmanagedFiles, Import!DirtyFiles
    <3> QED BY <1>4, <2>1, <3>1, ExpectedLaid
  <2> QED BY <2>2, <2>3
<1>6. Import!Claimed' = Import!Claimed
  BY <1>2 DEF Import!Claimed, Import!Touched
<1>7. Made'
  BY <1>2, <1>3, <1>5, <1>6, QueueStays DEF Made
<1> QED BY <1>3, <1>7 DEF Remaining

(* While the bodies stay, so do the claimed files.                          *)
LEMMA ClaimsStay ==
    ASSUME bodies' = bodies
    PROVE  Import!Claimed' = Import!Claimed
BY DEF Import!Claimed, Import!Touched

(* git apply --reverse: where only the earlier patches are laid, this one has no hunk. *)
LEMMA ReverseExact ==
    ASSUME ImportBounds, ImportTyped, Laying, Remaining, Import!Reverse
    PROVE  Remaining'
<1>1. /\ ipc = "reverse" /\ i <= until /\ bodies' = bodies /\ i' = i /\ saved' = saved
  BY DEF Import!Reverse, Import!progress
<1>2. /\ i \in 1..Len(Order)
      /\ Import!Touched(Import!Current) = {x \in EngineFiles : Section(i, x) # {}}
      /\ \A x \in EngineFiles : Import!Body[x] = Section(i, x)
  BY <1>1, AtHand
<1>3. Made /\ saved' = {} /\ Import!Claimed' = Import!Claimed
  BY <1>1, ClaimsStay DEF Remaining
<1>4. CASE \A x \in Import!Touched(Import!Current) : Import!Unfits(x, Import!Body[x], tree[x])
  <2>1. tree' = [x \in EngineFiles |-> tree[x] \ Import!Body[x]] /\ ipc' = "forward"
    BY <1>4 DEF Import!Reverse
  <2>2. \A x \in EngineFiles : tree'[x] = tree[x] \ Section(i, x)
    BY <1>2, <2>1
  <2>3. AllFit(i, tree')
    BY <1>2, <1>4, <2>2 DEF AllFit, Import!Unfits
  <2>4. ASSUME NEW x \in Import!Claimed
        PROVE  \/ tree'[x] = Import!Laid(Len(Order), x) \/ tree'[x] = Import!Laid(i - 1, x)
               \/ tree'[x] = Import!Laid(Len(Order), x) \ Section(i, x)
    <3>1. x \in EngineFiles
      BY DEF Import!Claimed, Import!Touched
    <3>2. Section(i, x) \cap Import!Laid(i - 1, x) = {}
      BY <1>2, <3>1, AppliesAt DEF Laying
    <3> QED BY <1>3, <2>2, <3>1, <3>2 DEF Made
  <2>5. Lifted'
    BY <1>1, <1>3, <2>4, QueueStays, BodiesStay DEF Lifted
  <2> QED BY <1>1, <1>3, <2>1, <2>3, <2>5, QueueStays DEF Remaining
<1>5. CASE ~ \A x \in Import!Touched(Import!Current) : Import!Unfits(x, Import!Body[x], tree[x])
  <2>1. tree' = tree /\ ipc' = "checkout"
    BY <1>5 DEF Import!Reverse
  <2>2. Made'
    BY <1>1, <1>3, <2>1, QueueStays DEF Made
  <2> QED BY <1>3, <2>1, <2>2 DEF Remaining
<1> QED BY <1>4, <1>5

(* restoreFile and removeFile: of a file that the patch is the first to touch the earlier *)
(* ones bring nothing.                                                       *)
LEMMA CleanupExact ==
    ASSUME ImportBounds, ImportTyped, Progress, Laying, Remaining,
           Import!Checkout \/ Import!Delete
    PROVE  Remaining'
<1>1. /\ i <= until /\ bodies' = bodies /\ i' = i /\ saved' = saved
      /\ ipc \in {"checkout", "delete"} /\ ipc' \in {"delete", "forward"}
  BY DEF Import!Checkout, Import!Delete, Import!progress, ImportTyped, InRange
<1>2. InOrder(i - 1)
  BY AppliesCreates DEF Laying, Progress, Delivering
<1>3. Import!Resettable = Opened(i) /\ i \in 1..Len(Order)
  BY <1>1, <1>2, ResettableOpened, AtHand
<1>4. Made /\ saved' = {} /\ Import!Claimed' = Import!Claimed
  BY <1>1, ClaimsStay DEF Remaining
<1>5. \A x \in EngineFiles : tree'[x] = tree[x] \/ (tree'[x] = {} /\ x \in Opened(i))
  BY <1>3 DEF Import!Checkout, Import!Delete
<1>6. \A x \in Opened(i) : Import!Laid(i - 1, x) = {}
  <2>1. i - 1 \in Nat
    BY <1>3
  <2> QED BY <2>1, LaidSteps DEF Opened
<1>7. Made'
  <2>1. ASSUME NEW x \in Import!Claimed
        PROVE  tree'[x] = Import!Laid(Len(Order), x) \/ tree'[x] = Import!Laid(i - 1, x)
    <3>1. x \in EngineFiles
      BY DEF Import!Claimed, Import!Touched
    <3> QED BY <1>4, <1>5, <1>6, <3>1 DEF Made
  <2> QED BY <1>1, <1>4, <2>1, QueueStays DEF Made
<1>8. CASE Import!Checkout
  <2>1. /\ ipc' = "delete"
        /\ \A x \in Opened(i) \ Added : tree'[x] = {}
    BY <1>3, <1>8 DEF Import!Checkout, Opened
  <2>2. (Opened(i) \ Added)' = Opened(i) \ Added
    BY <1>1, BodiesStay
  <2> QED BY <1>4, <1>7, <2>1, <2>2 DEF Remaining
<1>9. CASE Import!Delete
  <2>1. Emptied(i, tree')
    <3>1. \A x \in Opened(i) \ Added : tree[x] = {}
      BY <1>9 DEF Remaining, Import!Delete
    <3> QED BY <1>3, <1>9, <3>1 DEF Import!Delete, Opened, Emptied
  <2>2. ipc' = "forward"
    BY <1>9 DEF Import!Delete
  <2> QED BY <1>1, <1>4, <1>7, <2>1, <2>2, QueueStays DEF Remaining
<1> QED BY <1>8, <1>9

(* git apply: the patch at hand is there again.                             *)
LEMMA ForwardExact ==
    ASSUME ImportBounds, ImportTyped, Laying, Remaining, Import!Forward
    PROVE  Remaining'
<1>1. /\ ipc = "forward" /\ i <= until /\ bodies' = bodies
  BY DEF Import!Forward, ImportTyped, InRange
<1>2. /\ i \in 1..Len(Order)
      /\ Import!Touched(Import!Current) = {x \in EngineFiles : Section(i, x) # {}}
      /\ \A x \in EngineFiles : Import!Body[x] = Section(i, x)
  BY <1>1, AtHand
<1>3. AllFit(i, tree)
        <=> \A x \in Import!Touched(Import!Current) : Import!Fits(x, Import!Body[x], tree[x])
  BY <1>2 DEF AllFit
<1>4. Import!Claimed' = Import!Claimed
  BY <1>1, ClaimsStay
<1>5. CASE AllFit(i, tree)
  <2>1. /\ tree' = [x \in EngineFiles |-> tree[x] \cup Import!Body[x]]
        /\ ipc' = "reverse" /\ i' = i + 1 /\ saved' = {}
    BY <1>3, <1>5 DEF Import!Forward, Import!Advance
  <2>2. \A x \in EngineFiles : tree'[x] = tree[x] \cup Section(i, x)
    BY <1>2, <2>1
  <2>3. ASSUME NEW x \in Import!Claimed
        PROVE  tree'[x] = Import!Laid(Len(Order), x) \/ tree'[x] = Import!Laid(i, x)
    <3>1. x \in EngineFiles
      BY DEF Import!Claimed, Import!Touched
    <3>2. \/ tree[x] = Import!Laid(Len(Order), x) \/ tree[x] = Import!Laid(i - 1, x)
          \/ tree[x] = Import!Laid(Len(Order), x) \ Section(i, x)
      BY <1>1 DEF Remaining, Lifted, Made
    <3>3. Import!Laid(i, x) = Import!Laid(i - 1, x) \cup Section(i, x)
      <4>1. i - 1 \in Nat /\ i - 1 + 1 = i
        BY <1>2
      <4> QED BY <4>1, LaidSteps
    <3>4. Section(i, x) \subseteq Import!Laid(Len(Order), x)
      <4>1. Len(Order) \in Nat
        BY DEF ImportBounds
      <4> QED BY <1>2, <4>1, LaidSteps
    <3>5. tree'[x] = tree[x] \cup Section(i, x)
      BY <2>2, <3>1
    <3> QED BY <3>2, <3>3, <3>4, <3>5
  <2>4. i' - 1 = i
    BY <1>2, <2>1
  <2>5. Made'
    BY <1>1, <1>4, <2>3, <2>4, QueueStays DEF Made
  <2> QED BY <2>1, <2>5 DEF Remaining
<1>6. CASE ~AllFit(i, tree)
  <2>1. tree' = tree /\ ipc' = "failed" /\ i' = i /\ saved' = saved
    BY <1>3, <1>6 DEF Import!Forward, Import!progress
  <2>2. Emptied(i, tree) /\ Made /\ saved = {}
    BY <1>1, <1>6 DEF Remaining
  <2>3. Made'
    BY <1>1, <1>4, <2>1, <2>2, QueueStays DEF Made
  <2> QED BY <1>1, <2>1, <2>2, <2>3, QueueStays DEF Remaining
<1> QED BY <1>5, <1>6

(* What failed was the first to touch whatever it creates: nothing is overwritten. *)
LEMMA RetryExact ==
    ASSUME ImportBounds, ImportTyped, Laying, Remaining, Import!Overwrite \/ Import!TryReject
    PROVE  Remaining'
<1>1. i <= until /\ ipc = "failed" /\ Emptied(i, tree) /\ Made /\ saved = {}
  BY DEF Import!Overwrite, Import!TryReject, ImportTyped, InRange, Remaining
<1>2. Import!TryReject
  BY <1>1, NothingInTheWay DEF Import!Overwrite, Laying
<1>3. bodies' = bodies /\ i' = i /\ saved' = {} /\ ipc' = "reverse"
  BY <1>2 DEF Import!TryReject
<1>4. tree' = tree
  <2>1. tree' = [x \in EngineFiles |-> tree[x]]
    BY <1>1, <1>2 DEF Import!TryReject, Import!PutBack
  <2> QED BY <2>1 DEF ImportTyped, Import!TypeOK
<1>5. Made'
  BY <1>1, <1>3, <1>4, ClaimsStay, QueueStays DEF Made
<1> QED BY <1>3, <1>5 DEF Remaining

(* The steps of such an import, ...                                         *)
LEMMA WorkExact ==
    ASSUME ImportBounds, ImportTyped, Progress, Exact,
           \/ Import!Reverse \/ Import!Checkout \/ Import!Delete \/ Import!Forward
           \/ Import!Overwrite \/ Import!TryReject
    PROVE  Exact'
<1>1. SUFFICES ASSUME Laying' PROVE Remaining'
  BY DEF Exact
<1>2. /\ bodies' = bodies /\ UNCHANGED <<Import!command, Import!watch>>
      /\ firstFailed' = firstFailed
      /\ ipc \in {"reverse", "checkout", "delete", "forward", "failed"}
  BY DEF Import!Reverse, Import!Checkout, Import!Delete, Import!Forward, Import!Overwrite,
     Import!TryReject, Import!Advance, Import!progress
<1>3. Laying
  BY <1>1, <1>2, QueueStays DEF Laying, Undisturbed, Import!command, Import!watch
<1>4. Remaining
  BY <1>3 DEF Exact
<1> QED BY <1>3, <1>4, ReverseExact, CleanupExact, ForwardExact, RetryExact

(* ... its end, ...                                                         *)
LEMMA FinishExact ==
    ASSUME Exact, Import!Finish
    PROVE  Exact'
<1>1. SUFFICES ASSUME Laying' PROVE Remaining'
  BY DEF Exact
<1>2. /\ bodies' = bodies /\ tree' = tree
      /\ UNCHANGED <<Import!command, Import!progress, Import!watch>>
      /\ ipc = "reverse" /\ ipc' \in {"done", "report"}
  BY DEF Import!Finish
<1>3. i' = i /\ saved' = saved /\ Laying /\ ipc' = "done"
  BY <1>1, <1>2, QueueStays
     DEF Laying, Undisturbed, Import!command, Import!watch, Import!progress
<1>4. Made /\ saved = {}
  BY <1>2, <1>3 DEF Exact, Remaining
<1>5. Made'
  BY <1>2, <1>3, <1>4, ClaimsStay, QueueStays DEF Made
<1> QED BY <1>3, <1>4, <1>5 DEF Remaining

(* ... and the rest: it fails, is disturbed or has ended.                   *)
LEMMA OtherExact ==
    ASSUME ImportBounds, ImportTyped,
           \/ Import!CheckoutFails \/ Import!Reject \/ Import!OverwriteFails
           \/ Import!RejectFails \/ Import!Rollback \/ Import!RolledBack \/ Import!Report
           \/ Import!Close \/ Import!Resolve \/ Import!Unpend \/ Import!Reset \/ Import!Kill
           \/ \E l \in 1..Len(Order), w \in BOOLEAN, c \in BOOLEAN : Import!Start(l, w, c)
           \/ \E x \in EngineFiles : \E u \in BOOLEAN : Import!Discard(x, u)
           \/ \E x \in EngineFiles, h \in Edits : Import!Edit(x, h)
    PROVE  Exact'
<1>1. SUFFICES ~Undisturbed'
  BY DEF Exact, Laying
<1>2. CASE Import!CheckoutFails \/ Import!OverwriteFails
  BY <1>2 DEF Import!CheckoutFails, Import!OverwriteFails, Undisturbed
<1>3. CASE Import!Reject \/ Import!RejectFails
  <2>1. i <= until /\ Import!GiveUp
    BY <1>3 DEF Import!Reject, Import!RejectFails, ImportTyped, InRange
  <2>2. Import!Current # NoPatch
    BY <2>1, AtHand
  <2> QED BY <2>1, <2>2 DEF Import!GiveUp, Import!FirstFailed, Undisturbed
<1>4. CASE \E x \in EngineFiles, h \in Edits : Import!Edit(x, h)
  <2>1. ipc' = ipc /\ disturbed' = (disturbed \/ Import!Importing)
    BY <1>4 DEF Import!Edit
  <2>2. CASE Import!Importing
    BY <2>1, <2>2 DEF Undisturbed
  <2>3. CASE ~Import!Importing
    BY <2>1, <2>3 DEF Undisturbed, Import!Importing
  <2> QED BY <2>2, <2>3
<1>5. CASE Import!Rollback \/ Import!RolledBack \/ Import!Unpend
  BY <1>5 DEF Import!Rollback, Import!RolledBack, Import!Unpend, Undisturbed
<1>6. CASE \/ Import!Report \/ Import!Close \/ Import!Resolve \/ Import!Reset \/ Import!Kill
           \/ \E l \in 1..Len(Order), w \in BOOLEAN, c \in BOOLEAN : Import!Start(l, w, c)
           \/ \E x \in EngineFiles : \E u \in BOOLEAN : Import!Discard(x, u)
  BY <1>6 DEF Import!Report, Import!Close, Import!Resolve, Import!Reset, Import!Kill,
     Import!Start, Import!Discard, Import!Idle, Undisturbed
<1> QED BY <1>2, <1>3, <1>4, <1>5, <1>6

(* Every step keeps the invariant, ...                                      *)
LEMMA NextExact ==
    ASSUME ImportBounds, ImportTyped, Progress, Exact, Import!Next
    PROVE  Exact'
BY CheckExact, WorkExact, FinishExact, OtherExact DEF Import!Next

(* ... no step does, ...                                                    *)
LEMMA StutterExact ==
    ASSUME Exact, UNCHANGED Import!vars
    PROVE  Exact'
<1>1. /\ bodies' = bodies /\ tree' = tree /\ ipc' = ipc /\ force' = force /\ until' = until
      /\ disturbed' = disturbed /\ i' = i /\ saved' = saved /\ firstFailed' = firstFailed
  BY DEF Import!vars, Import!command, Import!progress, Import!watch
<1>2. Laying' <=> Laying
  BY <1>1, QueueStays DEF Laying, Undisturbed
<1>3. /\ Import!Claimed' = Import!Claimed /\ Opened(i)' = Opened(i)
      /\ \A x : Section(i, x)' = Section(i, x)
  BY <1>1, ClaimsStay, BodiesStay
<1>4. (Made' <=> Made) /\ (Lifted' <=> Lifted)
  BY <1>1, <1>3, QueueStays DEF Made, Lifted
<1>5. Remaining' <=> Remaining
  BY <1>1, <1>3, <1>4, QueueStays DEF Remaining
<1> QED BY <1>2, <1>5 DEF Exact

(* ... and it holds at first.                                               *)
LEMMA InitExact ==
    ASSUME Import!Init
    PROVE  Exact
BY DEF Import!Init, Exact, Laying, Undisturbed

(* The two invariants say what Delivers does.                               *)
LEMMA DeliveredSuffices ==
    ASSUME ImportBounds, ImportTyped, Progress, Exact
    PROVE  Import!Delivers
<1>1. ASSUME ipc = "done", ~disturbed, Import!CreatedFirst,
             NEW k \in 1..until, NEW x \in EngineFiles
      PROVE  bodies[Order[k]][x] \subseteq tree[x]
  <2>1. Delivering
    BY <1>1 DEF Progress, Undisturbed
  <2>2. until \in Nat /\ i \in Nat /\ until < i
    BY <1>1, <2>1 DEF ImportTyped, Import!TypeOK, ImportBounds, Delivering
  <2>3. k \in 1..i - 1 /\ ~(i <= until)
    BY <1>1, <2>2
  <2>4. Section(k, x) \subseteq tree[x] \cup {}
    BY <1>1, <2>1, <2>3 DEF Delivering
  <2> QED BY <2>4 DEF Section
<1>2. ASSUME ipc = "done", ~disturbed, ~force, until = Len(Order), Import!Applies,
             NEW x \in Import!Claimed
      PROVE  tree[x] = Import!Expected(x).content
  <2>1. Laying /\ Undisturbed
    BY <1>2 DEF Laying, Undisturbed, Progress
  <2>2. Made
    BY <1>2, <2>1 DEF Exact, Remaining
  <2>3. until < i
    BY <1>2, <2>1, AppliesCreates DEF Progress, Delivering
  <2>4. i - 1 = Len(Order)
    BY <1>2, <2>3 DEF ImportTyped, Import!TypeOK, ImportBounds
  <2>5. x \in EngineFiles
    BY DEF Import!Claimed, Import!Touched
  <2>6. Import!Expected(x) = [ok |-> TRUE, content |-> Import!Laid(Len(Order), x)]
    BY <1>2, <2>5, ExpectedLaid
  <2>7. tree[x] = Import!Laid(Len(Order), x)
    BY <1>2, <2>2, <2>4 DEF Made
  <2> QED BY <2>6, <2>7
<1> QED BY <1>1, <1>2 DEF Import!Delivers

-----------------------------------------------------------------------------
(* The run's specification, in which `part` picks one of the stores, and all *)
(* others stand still: a step of it is, for each of them, a step or none.    *)
LEMMA WorkspaceStep ==
    ASSUME [WorkspaceNext]_workspaceVars
    PROVE  /\ [Next]_vars
           /\ [Park!Next]_(Park!vars)
           /\ [Source!Next]_(Source!vars)
           /\ [Trees!Next]_(Trees!vars)
           /\ [Import!Next]_(Import!vars)
           /\ [Queue!Next]_(Queue!vars)
<1> USE DEF WorkspaceNext, Others, workspaceVars
<1>1. [Next]_vars
  OBVIOUS
<1>2. [Park!Next]_(Park!vars)
  <2>1. UNCHANGED parkVars => UNCHANGED Park!vars
    BY DEF parkVars, Park!vars, Park!record, Park!plans, Park!past, Park!bounds
  <2> QED BY <2>1
<1>3. [Source!Next]_(Source!vars)
  <2>1. UNCHANGED sourceVars => UNCHANGED Source!vars
    BY DEF sourceVars, Source!vars, Source!cache, Source!trees, Source!states, Source!choice, Source!rest
  <2> QED BY <2>1
<1>4. [Trees!Next]_(Trees!vars)
  <2>1. UNCHANGED treeVars => UNCHANGED Trees!vars
    BY DEF treeVars, Trees!vars, Trees!primaries, Trees!creation, Trees!tree, Trees!past,
           Trees!bounds
  <2> QED BY <2>1
<1>5. [Import!Next]_(Import!vars)
  <2>1. UNCHANGED importVars => UNCHANGED Import!vars
    BY DEF importVars, Import!vars
  <2> QED BY <2>1
<1>6. [Queue!Next]_(Queue!vars)
  <2>1. UNCHANGED queueVars => UNCHANGED Queue!vars
    BY DEF queueVars, Queue!vars
  <2> QED BY <2>1
<1> QED BY <1>1, <1>2, <1>3, <1>4, <1>5, <1>6

(* A completed update stays in the state file, or in a quarantined copy once *)
(* the file was damaged: UpdateKept, in the run's specification.             *)
THEOREM WorkspaceUpdates == WorkspaceSpec => []UpdateKept
<1>1. WorkspaceInit => IInv
  BY InitIInv DEF WorkspaceInit
<1>2. IInv /\ [WorkspaceNext]_workspaceVars => IInv'
  BY WorkspaceStep, StepIInv
<1>3. IInv => UpdateKept
  BY DEF IInv
<1> QED BY <1>1, <1>2, <1>3, PTL DEF WorkspaceSpec

(* An edit is in the engine or in a park that can be restored: ParkedKept,   *)
(* whatever fails, is killed, dropped or restored in between.                *)
THEOREM WorkspaceParks == WorkspaceSpec => []ParkedKept
<1>1. WorkspaceInit => ParkInv
  BY WorkspaceAssumption, ParkInitInv DEF WorkspaceInit
<1>2. ParkInv /\ [WorkspaceNext]_workspaceVars => ParkInv'
  BY WorkspaceAssumption, WorkspaceStep, ParkStep
<1>3. ParkInv => ParkedKept
  BY ParkHolds DEF ParkedKept
<1> QED BY <1>1, <1>2, <1>3, PTL DEF WorkspaceSpec

(* Every step of the run keeps the invariant of the downloads.               *)
LEMMA WorkspaceSourced == WorkspaceSpec => []SourceInv
<1>1. WorkspaceInit => SourceInv
  BY WorkspaceAssumption, SourceInit DEF WorkspaceInit
<1>2. SourceInv /\ [WorkspaceNext]_workspaceVars => SourceInv'
  BY WorkspaceAssumption, WorkspaceStep, SourceStep
<1> QED BY <1>1, <1>2, PTL DEF WorkspaceSpec

(* Work in an engine is in engine/ or in a backup until its loss has been    *)
(* agreed to and its successor is recorded: WorkKept, whatever fails or is   *)
(* killed.                                                                   *)
THEOREM SourcesKeepWork == WorkspaceSpec => []WorkKept
<1>1. SourceInv => WorkKept
  BY DEF SourceInv, Lost, WorkKept
<1> QED BY <1>1, WorkspaceSourced, PTL

(* engine/ is only ever a whole tree of a verified archive: EngineWhole, but *)
(* for a failure after the stamp and a put-back that fails itself.           *)
THEOREM SourcesAreWhole == WorkspaceSpec => []EngineWhole
<1>1. SourceInv => EngineWhole
  BY DEF SourceInv, Sound, Source!EngineWhole, EngineWhole
<1> QED BY <1>1, WorkspaceSourced, PTL

(* A tree with a marker is the primary that the marker describes, and a test *)
(* runs on no other: SnapshotTrue of the verification trees.                 *)
THEOREM WorkspaceTrees == WorkspaceSpec => []SnapshotTrue
<1>1. WorkspaceInit => TreeInv
  BY WorkspaceAssumption, TreeInit DEF WorkspaceInit
<1>2. TreeInv /\ [WorkspaceNext]_workspaceVars => TreeInv'
  BY WorkspaceAssumption, WorkspaceStep, TreeStep
<1>3. TreeInv => SnapshotTrue
  BY DEF TreeInv, SnapshotTrue
<1> QED BY <1>1, <1>2, <1>3, PTL DEF WorkspaceSpec

(* An edit of a file that no patch claims survives every import that is not *)
(* forced: EditsKept.                                                       *)
THEOREM ImportsKeepEdits == WorkspaceSpec => []EditsKept
<1>1. WorkspaceInit => ImportTyped /\ ImportKept
  BY WorkspaceAssumption, InitTyped, InitKeeps DEF WorkspaceInit
<1>2. ImportTyped /\ ImportKept /\ [WorkspaceNext]_workspaceVars => (ImportTyped /\ ImportKept)'
  BY WorkspaceAssumption, WorkspaceStep, NextTyped, NextKeeps, StutterTyped, StutterKeeps
<1>3. ImportTyped /\ ImportKept => EditsKept
  BY KeptSuffices DEF EditsKept
<1> QED BY <1>1, <1>2, <1>3, PTL DEF WorkspaceSpec

(* Every step of the run keeps what an import has delivered.                *)
LEMMA WorkspaceImports == WorkspaceSpec => [](ImportTyped /\ Progress /\ Exact /\ Recovering)
<1>1. WorkspaceInit => ImportTyped /\ Progress /\ Exact /\ Recovering
  BY WorkspaceAssumption, InitTyped, InitDelivers, InitExact, InitRecovers DEF WorkspaceInit
<1>2. /\ ImportTyped /\ Progress /\ Exact /\ Recovering /\ [WorkspaceNext]_workspaceVars
      => (ImportTyped /\ Progress /\ Exact /\ Recovering)'
  BY WorkspaceAssumption, WorkspaceStep, NextTyped, NextDelivers, NextExact, NextRecovers,
     StutterTyped, StutterDelivers, StutterExact, StutterRecovers
<1> QED BY <1>1, <1>2, PTL DEF WorkspaceSpec

(* An import that nobody disturbs and that reports success has laid every    *)
(* patch in its range: no recovery of a later patch has undone an earlier     *)
(* one. One of the whole queue, with no --force and of a queue that applies to *)
(* HEAD, leaves each file as the gate's baseline has it: Delivers.            *)
THEOREM ImportsDeliver == WorkspaceSpec => []Delivers
<1>1. ImportTyped /\ Progress /\ Exact => Delivers
  BY WorkspaceAssumption, DeliveredSuffices DEF Delivers
<1> QED BY <1>1, WorkspaceImports, PTL

(* A queue of n patches that applies to HEAD costs at most n \div 2 forced    *)
(* imports that fail in a row, whatever the tree was like: ForceRecovers.    *)
THEOREM ForcedImportsRecover == WorkspaceSpec => []ForceRecovers
<1>1. Recovering => ForceRecovers
  BY RecoverySuffices DEF ForceRecovers
<1> QED BY <1>1, WorkspaceImports, PTL

(* Every variable of every store stays in its type: StoreTypes.              *)
THEOREM WorkspaceTypes == WorkspaceSpec => []StoreTypes
<1> DEFINE All == /\ IInv /\ ParkInv /\ SourceInv /\ TreeInv
                  /\ ImportTyped /\ QueueTypes
<1>1. WorkspaceInit => All
  BY WorkspaceAssumption, InitIInv, ParkInitInv, SourceInit, TreeInit, InitTyped, QueueInitTypes
     DEF WorkspaceInit
<1>2. All /\ [WorkspaceNext]_workspaceVars => All'
  BY WorkspaceAssumption, WorkspaceStep, StepIInv, ParkStep, SourceStep, TreeStep, NextTyped,
     StutterTyped, QueueTypeStep
<1>3. All => StoreTypes
  BY WorkspaceAssumption, TypesSuffice
     DEF StoreTypes, IInv, ParkInv, SourceInv, TreeInv, ImportTyped
<1> HIDE DEF All
<1> QED BY <1>1, <1>2, <1>3, PTL DEF WorkspaceSpec

(* When every patch has a name of its own, each step of the run keeps the    *)
(* invariant of the queue. With a shared name a failed swap overwrites one   *)
(* of the two files, which PatchQueue_swap.cfg shows.                        *)
LEMMA WorkspaceQueued == ASSUME OwnNames PROVE WorkspaceSpec => [](QueueTypes /\ QueueSound)
<1>1. WorkspaceInit => QueueTypes /\ QueueSound
  BY WorkspaceAssumption, QueueInitTypes, QueueInitSound DEF WorkspaceInit, QueueSound
<1>2. QueueTypes /\ QueueSound /\ [WorkspaceNext]_workspaceVars => (QueueTypes /\ QueueSound)'
  BY WorkspaceAssumption, WorkspaceStep, QueueTypeStep, QueueSoundStep
<1> QED BY <1>1, <1>2, PTL DEF WorkspaceSpec

(* No command loses the body of a patch it leaves in the manifest, whatever  *)
(* step fails and wherever the process dies: ListedIsKept.                   *)
THEOREM QueueKeepsListed == ASSUME OwnNames PROVE WorkspaceSpec => []ListedIsKept
<1>1. QueueSound => ListedIsKept
  BY SoundSuffices DEF ListedIsKept
<1> QED BY <1>1, WorkspaceQueued, PTL

(* A command that fails leaves the files and the manifest as it found them,  *)
(* unless a step of its compensation fails too: FailedRestores.              *)
THEOREM QueueRestores == ASSUME OwnNames PROVE WorkspaceSpec => []FailedRestores
<1>1. QueueSound => FailedRestores
  BY SoundSuffices DEF FailedRestores
<1> QED BY <1>1, WorkspaceQueued, PTL

(* Between commands each row describes the file beside it and each file has  *)
(* a row, unless a process died or a compensation failed: AgreeAtRest.       *)
THEOREM QueueAgrees == ASSUME OwnNames PROVE WorkspaceSpec => []AgreeAtRest
<1>1. QueueSound => AgreeAtRest
  BY SoundSuffices DEF AgreeAtRest
<1> QED BY <1>1, WorkspaceQueued, PTL
=============================================================================
