---------------------------- MODULE WaiterQueue ----------------------------
(***************************************************************************)
(* The waiter tickets of withFileLock (src/core/file-lock-queue.ts and the *)
(* wait loop of src/core/file-lock.ts): who is queued for a contended lock *)
(* and whose turn it is.  A waiter that meets contention, or finds others  *)
(* queued when it arrives, writes a ticket named after its arrival time;   *)
(* only the waiter with the oldest live ticket attempts the lock.  A       *)
(* ticket of a dead process is removed by whoever reads the queue, one     *)
(* that was not refreshed for 30 s is skipped.                             *)
(*                                                                         *)
(* Every waiter is a process of its own.  The lock itself is what          *)
(* ExclusiveLock promises: one holder, reclaimed from a dead one in one    *)
(* step.  The clock is coarse, so arrivals may tie; the names of the       *)
(* tickets then decide (NameRank).  A running waiter refreshes in time     *)
(* (heartbeats are 5 s apart); only a stopped one goes stale.              *)
(***************************************************************************)
EXTENDS Naturals

CONSTANTS Waiters,
          None,
          NameRank,     \* the order of the ticket names of equal arrival times
          MaxClock,     \* bound on the clock
          FaultKinds

ASSUME WaiterQueueAssumption ==
  /\ None \notin Waiters
  /\ NameRank \in [Waiters -> Nat]
  /\ \A v, w \in Waiters : NameRank[v] = NameRank[w] => v = w
  /\ MaxClock \in Nat
  /\ FaultKinds \subseteq {"crash", "suspend", "registry"}

VARIABLES pc,
          now,        \* the wall clock
          startedAt,  \* when each waiter called withFileLock
          reg,        \* its registration: none yet, a ticket, or failed
          tickets,    \* waiters whose ticket file exists
          fresh,      \* tickets refreshed within WAITER_STALE_MS
          holder,     \* who holds the lock
          alive,
          suspended,  \* stopped processes (^Z)
          queued      \* history: the tickets that were live when one arrived

vars == <<pc, now, startedAt, reg, tickets, fresh, holder, alive, suspended, queued>>

-----------------------------------------------------------------------------
Queueing == {"look", "join", "turn", "try", "enlist", "poll"}

Running(w) == w \in alive \ suspended

(* compareTickets: arrival time, then name. *)
Before(v, w) == \/ startedAt[v] < startedAt[w]
                \/ startedAt[v] = startedAt[w] /\ NameRank[v] < NameRank[w]

(* isTicketLive *)
LiveTickets == tickets \cap alive \cap fresh

(* Mutant: a ticket that is merely stale is removed as well. *)
PruneStale == tickets' = LiveTickets

(* Reading the queue removes the tickets of dead processes. *)
Prune == tickets' = tickets \cap alive

(* readLockQueue(...).ahead for a waiter with a ticket. *)
Ahead(w) == {v \in LiveTickets \ {w} : Before(v, w)}

Goto(w, label) == pc' = [pc EXCEPT ![w] = label]

(* v no longer has a place that others must respect. *)
Forget(v) == queued' = [w \in Waiters |-> queued[w] \ {v}]

Init == /\ pc = [w \in Waiters |-> "idle"]
        /\ now = 0
        /\ startedAt = [w \in Waiters |-> 0]
        /\ reg = [w \in Waiters |-> "none"]
        /\ tickets = {} /\ fresh = {} /\ suspended = {}
        /\ holder = None
        /\ alive = Waiters
        /\ queued = [w \in Waiters |-> {}]

-----------------------------------------------------------------------------
(* The arrival time is read first, the queue afterwards. *)
Arrive(w) ==
  /\ Running(w) /\ pc[w] = "idle"
  /\ startedAt' = [startedAt EXCEPT ![w] = now]
  /\ queued' = [queued EXCEPT ![w] = LiveTickets]
  /\ Goto(w, "look")
  /\ UNCHANGED <<now, reg, tickets, fresh, holder, alive, suspended>>

(* Mutant: a newcomer contends at once. *)
LookAway(w) ==
  /\ Running(w) /\ pc[w] = "look"
  /\ Prune
  /\ Goto(w, "try")
  /\ UNCHANGED <<now, startedAt, reg, fresh, holder, alive, suspended, queued>>

(* A newcomer that finds others queued takes a ticket behind them. *)
Look(w) ==
  /\ Running(w) /\ pc[w] = "look"
  /\ Prune
  /\ Goto(w, IF LiveTickets # {} THEN "join" ELSE "try")
  /\ UNCHANGED <<now, startedAt, reg, fresh, holder, alive, suspended, queued>>

(* registerWaiter, before the loop ("join") or on first contention         *)
(* ("enlist").                                                             *)
Register(w) ==
  /\ Running(w) /\ pc[w] \in {"join", "enlist"}
  /\ reg' = [reg EXCEPT ![w] = "ticket"]
  /\ tickets' = tickets \cup {w}
  /\ fresh' = fresh \cup {w}
  /\ Goto(w, IF pc[w] = "join" THEN "turn" ELSE "poll")
  /\ UNCHANGED <<now, startedAt, holder, alive, suspended, queued>>

(* A registry that cannot be written: the waiter contends without a ticket *)
RegisterFails(w) ==
  /\ Running(w) /\ pc[w] \in {"join", "enlist"} /\ "registry" \in FaultKinds
  /\ reg' = [reg EXCEPT ![w] = "failed"]
  /\ Goto(w, IF pc[w] = "join" THEN "try" ELSE "poll")
  /\ UNCHANGED <<now, startedAt, tickets, fresh, holder, alive, suspended, queued>>

(* isWaiterTurn *)
Turn(w) ==
  /\ Running(w) /\ pc[w] = "turn"
  /\ Prune
  /\ Goto(w, IF Ahead(w) = {} THEN "try" ELSE "poll")
  /\ UNCHANGED <<now, startedAt, reg, fresh, holder, alive, suspended, queued>>

(* mkdir of the lock: EEXIST takes a ticket first if there is none yet. *)
Try(w) ==
  /\ Running(w) /\ pc[w] = "try"
  /\ IF holder = None
     THEN holder' = w /\ Goto(w, "leave")
     ELSE /\ Goto(w, IF reg[w] = "none" THEN "enlist" ELSE "poll")
          /\ UNCHANGED holder
  /\ UNCHANGED <<now, startedAt, reg, tickets, fresh, alive, suspended, queued>>

(* Mutant: the dead holder is never looked for. *)
PollNoProbe(w) ==
  /\ Running(w) /\ pc[w] = "poll"
  /\ IF reg[w] = "ticket"
     THEN tickets' = tickets \cup {w} /\ fresh' = fresh \cup {w}
     ELSE UNCHANGED <<tickets, fresh>>
  /\ UNCHANGED holder
  /\ Goto(w, IF reg[w] = "ticket" THEN "turn" ELSE "try")
  /\ UNCHANGED <<now, startedAt, reg, alive, suspended, queued>>

(* Heartbeat, stale probe, sleep, and the next round of the loop. *)
Poll(w) ==
  /\ Running(w) /\ pc[w] = "poll"
  /\ IF reg[w] = "ticket"
     THEN tickets' = tickets \cup {w} /\ fresh' = fresh \cup {w}
     ELSE UNCHANGED <<tickets, fresh>>
  /\ holder' = IF holder \in alive THEN holder ELSE None
  /\ Goto(w, IF reg[w] = "ticket" THEN "turn" ELSE "try")
  /\ UNCHANGED <<now, startedAt, reg, alive, suspended, queued>>

(* The budget is spent: the refusal is thrown. *)
Deadline(w) ==
  /\ Running(w) /\ pc[w] = "poll"
  /\ Goto(w, "quit")
  /\ UNCHANGED <<now, startedAt, reg, tickets, fresh, holder, alive, suspended, queued>>

(* The ticket is returned as soon as the waiting is over, either way. *)
Deregister(w) ==
  /\ Running(w) /\ pc[w] \in {"leave", "quit"}
  /\ tickets' = tickets \ {w} /\ fresh' = fresh \ {w}
  /\ Forget(w)
  /\ Goto(w, IF pc[w] = "leave" THEN "held" ELSE "gone")
  /\ UNCHANGED <<now, startedAt, reg, holder, alive, suspended>>

Release(w) ==
  /\ Running(w) /\ pc[w] = "held"
  /\ holder' = None
  /\ Goto(w, "gone")
  /\ UNCHANGED <<now, startedAt, reg, tickets, fresh, alive, suspended, queued>>

-----------------------------------------------------------------------------
Tick == /\ now < MaxClock
        /\ now' = now + 1
        /\ UNCHANGED <<pc, startedAt, reg, tickets, fresh, holder, alive, suspended, queued>>

(* A process that does not wait yet, or no longer, is as good as dead.     *)
Crash(w) == /\ w \in alive /\ pc[w] \notin {"idle", "gone"} /\ "crash" \in FaultKinds
            /\ alive' = alive \ {w}
            /\ Forget(w)
            /\ UNCHANGED <<pc, now, startedAt, reg, tickets, fresh, holder, suspended>>

Suspend(w) == /\ Running(w) /\ pc[w] \in Queueing /\ "suspend" \in FaultKinds
              /\ suspended' = suspended \cup {w}
              /\ UNCHANGED <<pc, now, startedAt, reg, tickets, fresh, holder, alive, queued>>

Resume(w) == /\ w \in suspended
             /\ suspended' = suspended \ {w}
             /\ UNCHANGED <<pc, now, startedAt, reg, tickets, fresh, holder, alive, queued>>

(* 30 s pass without a refresh. *)
GoStale(w) == /\ w \in suspended /\ w \in fresh
              /\ fresh' = fresh \ {w}
              /\ Forget(w)
              /\ UNCHANGED <<pc, now, startedAt, reg, tickets, holder, alive, suspended>>

Step(w) == \/ Look(w) \/ Register(w) \/ Turn(w) \/ Try(w) \/ Poll(w)
           \/ Deregister(w) \/ Release(w)

Next == \/ Tick
        \/ \E w \in Waiters :
             \/ Arrive(w) \/ Step(w) \/ RegisterFails(w) \/ Deadline(w)
             \/ Crash(w) \/ Suspend(w) \/ Resume(w) \/ GoStale(w)

(* Every waiter polls and every holder finishes, also one that is stopped  *)
(* and resumed again and again (strong fairness), and time passes for a    *)
(* ticket that is not refreshed.                                           *)
Fairness == \A w \in Waiters : SF_vars(Step(w)) /\ WF_vars(GoStale(w))

Spec == Init /\ [][Next]_vars /\ Fairness

-----------------------------------------------------------------------------
(* Every variable has its type. *)
TypeOK ==
  /\ pc \in [Waiters -> Queueing \cup {"idle", "leave", "quit", "held", "gone"}]
  /\ now \in 0 .. MaxClock
  /\ startedAt \in [Waiters -> 0 .. MaxClock]
  /\ reg \in [Waiters -> {"none", "ticket", "failed"}]
  /\ tickets \subseteq Waiters /\ fresh \subseteq Waiters
  /\ holder \in Waiters \cup {None}
  /\ alive \subseteq Waiters /\ suspended \subseteq Waiters
  /\ queued \in [Waiters -> SUBSET Waiters]

(* A waiter that arrived after another's ticket was in the queue does not  *)
(* get the lock before it, as long as the older ticket stays live and the  *)
(* younger waiter could register: "granted in arrival order".  Arrivals    *)
(* within one tick of the clock are not ordered.                           *)
Overtaken(w) == {v \in queued[w] : startedAt[v] < startedAt[w]}

NoOvertaking ==
  \A w \in Waiters :
    pc[w] \in {"leave", "held"} /\ reg[w] # "failed" => Overtaken(w) = {}

(* Reading the queue skips a stopped waiter but never costs it its place:  *)
(* the ticket of a process that is alive stays until it stops waiting.     *)
TicketKept == \A w \in alive : pc[w] \in Queueing /\ reg[w] = "ticket" => w \in tickets

(* A waiter is not stranded behind dead or stopped tickets or a dead       *)
(* holder: if it does not give up, it gets the lock.                       *)
NotStranded ==
  \A w \in Waiters :
    (pc[w] \in Queueing) ~> (pc[w] \notin Queueing \/ w \notin alive \/ w \in suspended)
=============================================================================
