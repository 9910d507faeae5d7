-------------------------- MODULE SharedLock_proofs --------------------------
(***************************************************************************)
(* Proofs about SharedLock for any number of readers and writers.          *)
(* WriterAlone rests on three facts: whoever is between taking and leaving *)
(* the turnstile owns it (Turnstile), a reader at work is on record        *)
(* (HoldKept), and the round of a draining writer has not yet looked at    *)
(* the readers it would miss (Drained).                                    *)
(***************************************************************************)
EXTENDS SharedLock, TLAPS

Turnstile ==
  /\ \A r \in Readers \cap alive :
       pc[r] \in {"mkhold", "record", "pass", "giveup"} => turnstile = r
  /\ \A w \in (Writers \cap alive) \ swept :
       pc[w] \in {"drain", "scan", "write", "release"} => turnstile = w

(* The directory of a hold exists before its record. *)
HoldMade ==
  \A r \in (Readers \cap alive) \ swept : pc[r] = "record" => r \in holds

Drained ==
  \A w \in (Writers \cap alive) \ swept :
    /\ pc[w] = "scan" /\ w \notin busy => Reading \subseteq todo[w]
    /\ pc[w] = "write" => Reading = {}

(* Readers and writers run their own half of the code. *)
Roles == /\ \A r \in Readers : pc[r] \notin {"drain", "scan", "write", "release"}
         /\ \A w \in Writers : pc[w] \notin {"mkhold", "record", "pass", "giveup", "read"}

IInv == TypeOK /\ Roles /\ Turnstile /\ HoldMade /\ HoldKept /\ Drained

USE SharedLockAssumption DEF Procs

LEMMA InitIInv == Init => IInv
BY DEF Init, IInv, TypeOK, Roles, Turnstile, HoldMade, HoldKept, Drained, Reading

LEMMA TypeStep == TypeOK /\ Roles /\ [Next]_vars => TypeOK' /\ Roles'
<1> SUFFICES ASSUME TypeOK, Roles, [Next]_vars PROVE TypeOK' /\ Roles'
  OBVIOUS
<1> USE DEF TypeOK, Roles, Goto
<1>1. ASSUME NEW p \in Procs, Take(p) PROVE TypeOK' /\ Roles'
  BY <1>1 DEF Take
<1>2. ASSUME NEW p \in Procs, Sweep(p) \/ Exit(p) \/ Crash(p) PROVE TypeOK' /\ Roles'
  BY <1>2 DEF Sweep, Exit, Crash
<1>3. ASSUME NEW r \in Readers, ReaderStep(r) \/ RecordFails(r) PROVE TypeOK' /\ Roles'
  BY <1>3 DEF ReaderStep, MkHold, Record, RecordFails, Pass, DropHold
<1>4. ASSUME NEW w \in Writers, WriterStep(w) \/ DrainTimeout(w) PROVE TypeOK' /\ Roles'
  BY <1>4 DEF WriterStep, ListHolds, LookAt, EndRound, FinishWrite, Release, DrainTimeout
<1>5. CASE UNCHANGED vars
  BY <1>5 DEF vars
<1> QED BY <1>1, <1>2, <1>3, <1>4, <1>5 DEF Next

LEMMA TurnstileStep == TypeOK /\ Roles /\ Turnstile /\ [Next]_vars => Turnstile'
<1> SUFFICES ASSUME TypeOK, Roles, Turnstile, [Next]_vars PROVE Turnstile'
  OBVIOUS
<1> USE DEF TypeOK, Roles, Turnstile, Goto
<1>1. ASSUME NEW p \in Procs, Take(p) PROVE Turnstile'
  BY <1>1 DEF Take
<1>2. ASSUME NEW p \in Procs, Sweep(p) \/ Exit(p) \/ Crash(p) PROVE Turnstile'
  BY <1>2 DEF Sweep, Exit, Crash
<1>3. ASSUME NEW r \in Readers, ReaderStep(r) \/ RecordFails(r) PROVE Turnstile'
  BY <1>3 DEF ReaderStep, MkHold, Record, RecordFails, Pass, DropHold
<1>4. ASSUME NEW w \in Writers, WriterStep(w) \/ DrainTimeout(w) PROVE Turnstile'
  BY <1>4 DEF WriterStep, ListHolds, LookAt, EndRound, FinishWrite, Release, DrainTimeout
<1>5. CASE UNCHANGED vars
  BY <1>5 DEF vars
<1> QED BY <1>1, <1>2, <1>3, <1>4, <1>5 DEF Next

LEMMA HoldStep == TypeOK /\ HoldMade /\ HoldKept /\ [Next]_vars => HoldMade' /\ HoldKept'
<1> SUFFICES ASSUME TypeOK, HoldMade, HoldKept, [Next]_vars
             PROVE  HoldMade' /\ HoldKept'
  OBVIOUS
<1> USE DEF TypeOK, HoldMade, HoldKept, Goto
<1>1. ASSUME NEW p \in Procs, Take(p) \/ Exit(p) \/ Crash(p) PROVE HoldMade' /\ HoldKept'
  BY <1>1 DEF Take, Exit, Crash
<1>2. ASSUME NEW p \in Procs, Sweep(p) PROVE HoldMade' /\ HoldKept'
  BY <1>2 DEF Sweep
<1>3. ASSUME NEW r \in Readers, Record(r) PROVE HoldMade' /\ HoldKept'
  BY <1>3 DEF Record
<1>4. ASSUME NEW r \in Readers, MkHold(r) \/ Pass(r) \/ DropHold(r) \/ RecordFails(r) PROVE HoldMade' /\ HoldKept'
  BY <1>4 DEF MkHold, Pass, DropHold, RecordFails
<1>5. ASSUME NEW w \in Writers, WriterStep(w) \/ DrainTimeout(w) PROVE HoldMade' /\ HoldKept'
  BY <1>5 DEF WriterStep, ListHolds, LookAt, EndRound, FinishWrite, Release, DrainTimeout
<1>6. CASE UNCHANGED vars
  BY <1>6 DEF vars
<1> QED BY <1>1, <1>2, <1>3, <1>4, <1>5, <1>6 DEF Next, ReaderStep

(* No reader starts to work while a writer has the turnstile, and a round  *)
(* of the drain misses nobody who is working.                              *)
LEMMA DrainStep ==
  TypeOK /\ Roles /\ Turnstile /\ HoldKept /\ Drained /\ [Next]_vars => Drained'
<1> SUFFICES ASSUME TypeOK, Roles, Turnstile, HoldKept, Drained, [Next]_vars PROVE Drained'
  OBVIOUS
<1> USE DEF TypeOK, Roles, Drained, Reading, Goto
<1>1. ASSUME NEW p \in Procs, Take(p) \/ Exit(p) \/ Crash(p) \/ Sweep(p) PROVE Drained'
  BY <1>1 DEF Take, Exit, Crash, Sweep
<1>2. ASSUME NEW r \in Readers, Pass(r) PROVE Drained'
  BY <1>2 DEF Pass, Turnstile
<1>3. ASSUME NEW r \in Readers, MkHold(r) \/ Record(r) \/ DropHold(r) \/ RecordFails(r)
      PROVE Drained'
  BY <1>3 DEF MkHold, Record, DropHold, RecordFails
<1>4. ASSUME NEW w \in Writers, ListHolds(w) PROVE Drained'
  BY <1>4 DEF ListHolds, HoldKept
<1>5. ASSUME NEW w \in Writers, NEW r \in Readers, LookAt(w, r) PROVE Drained'
  BY <1>5 DEF LookAt, HoldKept
<1>6. ASSUME NEW w \in Writers, EndRound(w) \/ FinishWrite(w) \/ Release(w) \/ DrainTimeout(w)
      PROVE Drained'
  BY <1>6 DEF EndRound, FinishWrite, Release, DrainTimeout
<1>7. CASE UNCHANGED vars
  BY <1>7 DEF vars
<1> QED
  BY <1>1, <1>2, <1>3, <1>4, <1>5, <1>6, <1>7 DEF Next, ReaderStep, WriterStep

LEMMA IInvHolds == Spec => []IInv
<1>1. IInv /\ [Next]_vars => IInv'
  BY TypeStep, TurnstileStep, HoldStep, DrainStep DEF IInv
<1> QED BY InitIInv, <1>1, PTL DEF Spec

(* Whoever writes has the lock alone, for any number of readers, writers   *)
(* and crashes.                                                            *)
THEOREM Exclusion == Spec => []WriterAlone
<1>1. IInv => WriterAlone
  BY DEF IInv, TypeOK, Turnstile, Drained, WriterAlone, Writing
<1> QED BY <1>1, IInvHolds, PTL

(* Every variable of the shared lock keeps its type, whoever crashes, is   *)
(* swept or cannot record its hold (withSharedFileLock).                   *)
THEOREM TypeCorrect == Spec => []TypeOK
BY IInvHolds, PTL DEF IInv

(* A live reader's hold is never reaped. *)
THEOREM HoldsKept == Spec => []HoldKept
BY IInvHolds, PTL DEF IInv

(* No new shared holder joins while a writer holds the turnstile. *)
THEOREM NoNewHolds == Spec => NoNewcomers
<1>1. IInv /\ [Next]_vars =>
        [\A w \in Writers :
           w \in alive \ swept /\ pc[w] \in {"drain", "scan"} => holds' \subseteq holds]_vars
  <2> SUFFICES ASSUME IInv, [Next]_vars, NEW w \in Writers,
                      w \in alive \ swept, pc[w] \in {"drain", "scan"}
               PROVE  holds' \subseteq holds
    OBVIOUS
  <2>1. turnstile = w
    BY DEF IInv, Turnstile
  <2>2. ASSUME NEW r \in Readers, ReaderStep(r) \/ RecordFails(r) PROVE holds' \subseteq holds
    BY <2>1, <2>2 DEF IInv, TypeOK, Turnstile, ReaderStep, MkHold, Record, Pass, DropHold, RecordFails
  <2>3. ASSUME NEW v \in Writers, WriterStep(v) \/ DrainTimeout(v) PROVE holds' \subseteq holds
    BY <2>3 DEF WriterStep, ListHolds, LookAt, EndRound, FinishWrite, Release, DrainTimeout
  <2>4. ASSUME NEW p \in Procs, Take(p) \/ Sweep(p) \/ Exit(p) \/ Crash(p) PROVE holds' \subseteq holds
    BY <2>4 DEF Take, Sweep, Exit, Crash
  <2>5. CASE UNCHANGED vars
    BY <2>5 DEF vars
  <2> QED BY <2>2, <2>3, <2>4, <2>5 DEF Next
<1> QED BY <1>1, IInvHolds, PTL DEF Spec, NoNewcomers
=============================================================================
