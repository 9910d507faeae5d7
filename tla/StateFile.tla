----------------------------- MODULE StateFile -----------------------------
(***************************************************************************)
(* A state file of FireForge (.fireforge/state.json; furnace-state.json is  *)
(* kept the same way): loads read it without its lock, updates read and     *)
(* write it under the lock, and whoever finds it invalid moves it aside and *)
(* writes back what it could read.  Sources: core/config-state.ts,          *)
(* core/state-file.ts, core/furnace-config.ts.                              *)
(*                                                                         *)
(* Values are numbered by the update they come from.  Writes are by         *)
(* renaming.  A process may fail or be killed at any step, and somebody     *)
(* outside damages the file.                                                *)
(***************************************************************************)
EXTENDS Naturals

CONSTANTS
    Procs, NoProc,
    Fields, NoField,
    MaxUpdates, MaxFaults      \* bounds

ASSUME StateFileAssumption ==
    /\ NoProc \notin Procs /\ NoField \notin Fields
    /\ MaxUpdates \in Nat /\ MaxFaults \in Nat

VARIABLES
    file,       \* the file: missing, unparsable, or its values
    aside,      \* the contents of the quarantined copies
    lock,       \* its sidecar lock
    pc,
    field,      \* what p updates; NoField for a load
    value,      \* what p has read and found valid
    last,       \* history: the last completed update of each field
    damaged,    \* history: somebody has damaged the file
    updates, faults

local   == <<pc, field, value>>
history == <<last, damaged>>
vars    == <<file, aside, lock, local, history, updates, faults>>

Unset  == 0
Bad    == MaxUpdates + 1
Values == [Fields -> Unset..Bad]
Empty  == [f \in Fields |-> Unset]
Files  == [kind : {"missing", "garbage", "json"}, val : Values]
Gone   == [kind |-> "missing", val |-> Empty]

TypeOK ==
    /\ file \in Files /\ aside \subseteq Values /\ lock \in Procs \cup {NoProc}
    /\ pc \in [Procs -> {"idle", "exists", "lock", "read", "wait", "quarantine", "restore",
                         "write"}]
    /\ field \in [Procs -> Fields \cup {NoField}]
    /\ value \in [Procs -> Values]
    /\ last \in Values /\ damaged \in BOOLEAN
    /\ updates \in 0..MaxUpdates /\ faults \in 0..MaxFaults

Init ==
    /\ file = Gone /\ aside = {} /\ lock = NoProc
    /\ pc = [p \in Procs |-> "idle"] /\ field = [p \in Procs |-> NoField]
    /\ value = [p \in Procs |-> Empty]
    /\ last = Empty /\ damaged = FALSE
    /\ updates = 0 /\ faults = 0

-----------------------------------------------------------------------------
(* Helpers *)

Goto(p, from, to) == pc[p] = from /\ pc' = [pc EXCEPT ![p] = to]

Leave(p) ==
    /\ pc' = [pc EXCEPT ![p] = "idle"]
    /\ field' = [field EXCEPT ![p] = NoField]
    /\ value' = [value EXCEPT ![p] = Empty]
    /\ lock' = IF lock = p THEN NoProc ELSE lock

(* With the state in hand, a load returns it and an update goes on to write. *)
Have(p, v) ==
    IF field[p] = NoField THEN Leave(p)
    ELSE /\ pc' = [pc EXCEPT ![p] = "write"] /\ value' = [value EXCEPT ![p] = v]
         /\ UNCHANGED <<field, lock>>

(* sanitizeProjectState *)
Sanitized(v) == [f \in Fields |-> IF v[f] = Bad THEN Unset ELSE v[f]]
Valid(v)     == Sanitized(v) = v

(* recoverInvalidProjectState: under the lock, which a load has to get first. *)
Recover(p, v) ==
    /\ value' = [value EXCEPT ![p] = v]
    /\ pc' = [pc EXCEPT ![p] = IF lock = p THEN "quarantine" ELSE "wait"]
    /\ UNCHANGED <<field, lock>>

-----------------------------------------------------------------------------
(* loadState, updateState                                                   *)

Load(p) ==
    /\ Goto(p, "idle", "exists")
    /\ UNCHANGED <<file, aside, lock, field, value, history, updates, faults>>

Update(p, f) ==
    /\ Goto(p, "idle", "lock")
    /\ field' = [field EXCEPT ![p] = f]
    /\ UNCHANGED <<file, aside, lock, value, history, updates, faults>>

Lock(p) ==
    /\ lock = NoProc /\ lock' = p
    /\ Goto(p, "lock", "exists") \/ Goto(p, "wait", "quarantine")
    /\ UNCHANGED <<file, aside, field, value, history, updates, faults>>

Exists(p) ==
    /\ pc[p] = "exists"
    /\ IF file = Gone THEN Have(p, Empty)
       ELSE pc' = [pc EXCEPT ![p] = "read"] /\ UNCHANGED <<field, value, lock>>
    /\ UNCHANGED <<file, aside, history, updates, faults>>

(* A file that cannot be parsed, or is gone by now, has no valid field.      *)
Read(p) ==
    /\ pc[p] = "read"
    /\ \/ file.kind = "json" /\ Valid(file.val) /\ Have(p, file.val)
       \/ file.kind = "json" /\ ~Valid(file.val) /\ Recover(p, Sanitized(file.val))
       \/ file.kind # "json" /\ Recover(p, Empty)
    /\ UNCHANGED <<file, aside, history, updates, faults>>

(* Mutant: what was valid is written over the invalid file. *)
QuarantineNothing(p) ==
    /\ pc[p] = "quarantine"
    /\ IF value[p] = Empty THEN Have(p, Empty)
       ELSE pc' = [pc EXCEPT ![p] = "restore"] /\ UNCHANGED <<field, value, lock>>
    /\ UNCHANGED <<file, aside, history, updates, faults>>

(* quarantineStateFile; whatever the file is by then, it is moved.           *)
Quarantine(p) ==
    /\ pc[p] = "quarantine"
    /\ aside' = IF file.kind = "json" THEN aside \cup {file.val} ELSE aside
    /\ file' = Gone
    /\ IF value[p] = Empty THEN Have(p, Empty)
       ELSE pc' = [pc EXCEPT ![p] = "restore"] /\ UNCHANGED <<field, value, lock>>
    /\ UNCHANGED <<history, updates, faults>>

Restore(p) ==
    /\ pc[p] = "restore"
    /\ file' = [kind |-> "json", val |-> value[p]]
    /\ Have(p, value[p])
    /\ UNCHANGED <<aside, history, updates, faults>>

(* A failure of the recovery counts as an unreadable file, and is recovered  *)
(* from without a valid field, after waiting for the lock once more.         *)
RecoveryFails(p) ==
    /\ pc[p] \in {"quarantine", "restore"} /\ value[p] # Empty
    /\ faults < MaxFaults /\ faults' = faults + 1
    /\ value' = [value EXCEPT ![p] = Empty]
    /\ IF field[p] = NoField
       THEN pc' = [pc EXCEPT ![p] = "wait"] /\ lock' = NoProc
       ELSE pc' = [pc EXCEPT ![p] = "quarantine"] /\ UNCHANGED lock
    /\ UNCHANGED <<file, aside, field, history, updates>>

Write(p) ==
    /\ pc[p] = "write"
    /\ updates < MaxUpdates /\ updates' = updates + 1
    /\ file' = [kind |-> "json", val |-> [value[p] EXCEPT ![field[p]] = updates']]
    /\ last' = [last EXCEPT ![field[p]] = updates']
    /\ Leave(p)
    /\ UNCHANGED <<aside, damaged, faults>>

(* A failed step, or a kill; the lock of a dead process is reaped.          *)
Stop(p) ==
    /\ pc[p] # "idle"
    /\ faults < MaxFaults /\ faults' = faults + 1
    /\ Leave(p)
    /\ UNCHANGED <<file, aside, history, updates>>

(* An editor, or another program: a field, or the whole file, is not what it *)
(* was; what it held is nobody's loss here.                                 *)
Damage ==
    /\ file.kind = "json"
    /\ faults < MaxFaults /\ faults' = faults + 1
    /\ damaged' = TRUE
    /\ \/ \E f \in Fields : /\ file' = [file EXCEPT !.val[f] = Bad]
                            /\ last' = [last EXCEPT ![f] = Unset]
       \/ file' = [kind |-> "garbage", val |-> Empty] /\ last' = Empty
    /\ UNCHANGED <<aside, lock, local, updates>>

Next ==
    \/ \E p \in Procs :
         \/ Load(p) \/ Lock(p) \/ Exists(p) \/ Read(p)
         \/ Quarantine(p) \/ Restore(p) \/ RecoveryFails(p) \/ Write(p) \/ Stop(p)
         \/ \E f \in Fields : Update(p, f)
    \/ Damage

Spec == Init /\ [][Next]_vars

-----------------------------------------------------------------------------
(* Properties *)

(* A completed update is in the file until somebody damages it; and even     *)
(* then, when a load that has read the damaged file recovers it after others *)
(* did, it is in the file or in a copy set aside.                            *)
UpdateKept ==
    \A f \in Fields :
        \/ last[f] \in {Unset, file.val[f]}
        \/ damaged /\ \E v \in aside : v[f] = last[f]
=============================================================================
