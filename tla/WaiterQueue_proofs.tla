------------------------- MODULE WaiterQueue_proofs -------------------------
(***************************************************************************)
(* Proofs about WaiterQueue for any number of waiters.  NoOvertaking needs *)
(* two facts: a ticket another waiter must respect is live (Respected), so *)
(* every reading of the queue sees it, and whoever may attempt the lock    *)
(* has read the queue since it arrived and seen nobody to respect (Clear). *)
(***************************************************************************)
EXTENDS WaiterQueue, TLAPS

Respected == \A w \in Waiters : queued[w] \subseteq LiveTickets

Clear == \A w \in Waiters :
           pc[w] \in {"try", "leave", "held"} /\ reg[w] # "failed" => Overtaken(w) = {}

(* A waiter without a registration has no ticket and is between its       *)
(* arrival and its first contention; "turn" is reached with a ticket.     *)
Registered == \A w \in Waiters :
                /\ pc[w] = "turn" => reg[w] = "ticket"
                /\ pc[w] \in {"idle", "look"} => reg[w] = "none"
                /\ pc[w] = "poll" => reg[w] # "none"
                /\ reg[w] = "none" => w \notin tickets

IInv == TypeOK /\ TicketKept /\ Respected /\ Clear /\ Registered

USE WaiterQueueAssumption

LEMMA InitIInv == Init => IInv
BY DEF Init, IInv, TypeOK, Queueing, TicketKept, Respected, Clear, Registered

LEMMA TypeStep == TypeOK /\ [Next]_vars => TypeOK'
<1> SUFFICES ASSUME TypeOK, [Next]_vars PROVE TypeOK'
  OBVIOUS
<1> USE DEF TypeOK, Queueing, Goto, Prune, Forget
<1>1. ASSUME NEW w \in Waiters, Arrive(w) PROVE TypeOK'
  BY <1>1 DEF Arrive, LiveTickets
<1>2. ASSUME NEW w \in Waiters, Look(w) \/ Turn(w) PROVE TypeOK'
  BY <1>2 DEF Look, Turn
<1>3. ASSUME NEW w \in Waiters, Register(w) \/ RegisterFails(w) PROVE TypeOK'
  BY <1>3 DEF Register, RegisterFails
<1>4. ASSUME NEW w \in Waiters, Try(w) \/ Deadline(w) \/ Release(w) PROVE TypeOK'
  BY <1>4 DEF Try, Deadline, Release
<1>5. ASSUME NEW w \in Waiters, Poll(w) PROVE TypeOK'
  BY <1>5 DEF Poll
<1>6. ASSUME NEW w \in Waiters, Deregister(w) PROVE TypeOK'
  BY <1>6 DEF Deregister
<1>7. ASSUME NEW w \in Waiters, Crash(w) \/ Suspend(w) \/ Resume(w) \/ GoStale(w) PROVE TypeOK'
  BY <1>7 DEF Crash, Suspend, Resume, GoStale, Running
<1>8. CASE Tick
  BY <1>8 DEF Tick
<1>9. CASE UNCHANGED vars
  BY <1>9 DEF vars
<1> QED
  BY <1>1, <1>2, <1>3, <1>4, <1>5, <1>6, <1>7, <1>8, <1>9 DEF Next, Step

(* A ticket disappears only with its owner's wait or its owner. *)
LEMMA TicketStep == TypeOK /\ TicketKept /\ Registered /\ [Next]_vars => TicketKept' /\ Registered'
<1> SUFFICES ASSUME TypeOK, TicketKept, Registered, [Next]_vars
             PROVE  TicketKept' /\ Registered'
  OBVIOUS
<1> USE DEF TypeOK, TicketKept, Registered, Queueing, Goto, Prune, Running
<1>1. ASSUME NEW w \in Waiters, Arrive(w) \/ Look(w) \/ Turn(w) PROVE TicketKept' /\ Registered'
  BY <1>1 DEF Arrive, Look, Turn
<1>2. ASSUME NEW w \in Waiters, Register(w) \/ RegisterFails(w) PROVE TicketKept' /\ Registered'
  BY <1>2 DEF Register, RegisterFails
<1>3. ASSUME NEW w \in Waiters, Try(w) \/ Deadline(w) \/ Release(w) PROVE TicketKept' /\ Registered'
  BY <1>3 DEF Try, Deadline, Release
<1>4. ASSUME NEW w \in Waiters, Poll(w) \/ Deregister(w) PROVE TicketKept' /\ Registered'
  BY <1>4 DEF Poll, Deregister
<1>5. ASSUME NEW w \in Waiters, Crash(w) \/ Suspend(w) \/ Resume(w) \/ GoStale(w)
      PROVE TicketKept' /\ Registered'
  BY <1>5 DEF Crash, Suspend, Resume, GoStale
<1>6. CASE Tick \/ UNCHANGED vars
  BY <1>6 DEF Tick, vars
<1> QED
  BY <1>1, <1>2, <1>3, <1>4, <1>5, <1>6 DEF Next, Step

(* A live ticket that somebody respects stays live until it is forgotten.  *)
LEMMA RespectStep == TypeOK /\ Respected /\ [Next]_vars => Respected'
<1> SUFFICES ASSUME TypeOK, Respected, [Next]_vars PROVE Respected'
  OBVIOUS
<1> USE DEF TypeOK, Respected, LiveTickets, Prune
<1>1. ASSUME NEW w \in Waiters, Arrive(w) PROVE Respected'
  BY <1>1 DEF Arrive
<1>2. ASSUME NEW w \in Waiters, Look(w) \/ Turn(w) \/ Register(w) \/ RegisterFails(w)
      PROVE Respected'
  BY <1>2 DEF Look, Turn, Register, RegisterFails
<1>3. ASSUME NEW w \in Waiters,
             Try(w) \/ Deadline(w) \/ Release(w) \/ Poll(w) \/ Suspend(w) \/ Resume(w)
      PROVE Respected'
  BY <1>3 DEF Try, Deadline, Release, Poll, Suspend, Resume
<1>4. ASSUME NEW w \in Waiters, Deregister(w) \/ Crash(w) \/ GoStale(w) PROVE Respected'
  BY <1>4 DEF Deregister, Crash, GoStale, Forget
<1>5. CASE Tick \/ UNCHANGED vars
  BY <1>5 DEF Tick, vars
<1> QED
  BY <1>1, <1>2, <1>3, <1>4, <1>5 DEF Next, Step

(* Only Look and Turn let a registered waiter attempt the lock. *)
LEMMA ClearStep == TypeOK /\ Respected /\ Registered /\ Clear /\ [Next]_vars => Clear'
<1> SUFFICES ASSUME TypeOK, Respected, Registered, Clear, [Next]_vars PROVE Clear'
  OBVIOUS
<1> USE DEF TypeOK, Clear, Overtaken, Goto
<1>1. ASSUME NEW w \in Waiters, Arrive(w) PROVE Clear'
  BY <1>1 DEF Arrive, Respected, Registered, LiveTickets
<1>2. ASSUME NEW w \in Waiters, Look(w) PROVE Clear'
  BY <1>2 DEF Look, Respected
<1>3. ASSUME NEW w \in Waiters, Turn(w) PROVE Clear'
  <2>1. Ahead(w) = {} => Overtaken(w) = {}
    BY DEF Ahead, Before, Respected
  <2> QED BY <1>3, <2>1 DEF Turn
<1>4. ASSUME NEW w \in Waiters, Register(w) \/ RegisterFails(w) PROVE Clear'
  BY <1>4 DEF Register, RegisterFails
<1>5. ASSUME NEW w \in Waiters, Try(w) \/ Deadline(w) \/ Release(w) PROVE Clear'
  BY <1>5 DEF Try, Deadline, Release
<1>6. ASSUME NEW w \in Waiters, Poll(w) PROVE Clear'
  BY <1>6 DEF Poll, Registered
<1>7. ASSUME NEW w \in Waiters, Deregister(w) \/ Crash(w) \/ GoStale(w) PROVE Clear'
  BY <1>7 DEF Deregister, Crash, GoStale, Forget
<1>8. ASSUME NEW w \in Waiters, Suspend(w) \/ Resume(w) PROVE Clear'
  BY <1>8 DEF Suspend, Resume
<1>9. CASE Tick \/ UNCHANGED vars
  BY <1>9 DEF Tick, vars
<1> QED
  BY <1>1, <1>2, <1>3, <1>4, <1>5, <1>6, <1>7, <1>8, <1>9 DEF Next, Step

LEMMA IInvHolds == Spec => []IInv
<1>1. IInv /\ [Next]_vars => IInv'
  BY TypeStep, TicketStep, RespectStep, ClearStep DEF IInv
<1> QED BY InitIInv, <1>1, PTL DEF Spec

(* Every variable of the queue keeps its type, whoever crashes, stops or   *)
(* cannot register (withWaiterTicket).                                     *)
THEOREM TypeCorrect == Spec => []TypeOK
BY IInvHolds, PTL DEF IInv

(* A stopped waiter never loses its ticket, only its turn. *)
THEOREM TicketsKept == Spec => []TicketKept
BY IInvHolds, PTL DEF IInv

(* The lock is granted in arrival order among live tickets, for any number *)
(* of waiters.                                                             *)
THEOREM ArrivalOrder == Spec => []NoOvertaking
<1>1. IInv => NoOvertaking
  BY DEF IInv, Clear, NoOvertaking
<1> QED BY <1>1, IInvHolds, PTL
=============================================================================
