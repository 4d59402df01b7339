------------------------------ MODULE TicketLock ------------------------------
(***************************************************************************)
(* The kernel's ticket spin lock, kernel/sched/spinlock.c.                 *)
(*                                                                         *)
(* Every atomic access of the C code is one step.  Both counters are       *)
(* unsigned machine words and wrap at Modulus (2^32 in the build).  A CPU  *)
(* whose turn has not come sleeps with WFE: it needs its event register,   *)
(* which the SEV of a release sets on every CPU.  No barrier stands        *)
(* between the store of a release and its SEV, so the SEV may take effect  *)
(* while the store is not visible yet; an atomic access of the same CPU    *)
(* to the lock comes after both.                                           *)
(***************************************************************************)
EXTENDS Integers, FiniteSets

CONSTANTS Proc,     \* the CPUs (or contexts of a CPU) that use the lock
          Modulus   \* number of values of a ticket counter

ASSUME TicketAssumption ==
    /\ IsFiniteSet(Proc)
    /\ Modulus \in Nat
    /\ Cardinality(Proc) < Modulus

VARIABLES
    next_ticket,    \* TicketLock_t.next_ticket
    serving_ticket, \* TicketLock_t.serving_ticket
    pc,             \* where each CPU is in the lock code
    reg,            \* the CPU's local: my_ticket, expected or serving
    lapse,          \* tickets issued since a try_acquire read next_ticket
    event           \* WFE event register of each CPU (hardware)

vars == <<next_ticket, serving_ticket, pc, reg, lapse, event>>

Ticket == 0 .. Modulus - 1

Labels == {"idle", "spin", "wfe", "held", "release", "late", "sev",
           "try_serving", "try_cas"}

\* Bug: the counters are wider than the field they are stored in.
SuccUnwrapped(t) == t + 1

\* uint32_t increment.
Succ(t) == (t + 1) % Modulus

InTry(p) == pc[p] \in {"try_serving", "try_cas"}

Goto(p, l) == pc' = [pc EXCEPT ![p] = l]

(***************************************************************************)
(* Issuing a ticket.  A try_acquire holds a copy of next_ticket between    *)
(* its load and its compare-and-swap; the model bounds the tickets issued  *)
(* in that window below one full turn of the counter, 2^32 acquisitions.   *)
(***************************************************************************)
Issue(p) ==
    /\ \A q \in Proc \ {p} : InTry(q) => lapse[q] + 1 < Modulus
    /\ next_ticket' = Succ(next_ticket)
    /\ lapse' = [q \in Proc |-> IF q # p /\ InTry(q) THEN lapse[q] + 1 ELSE 0]

Init ==
    /\ next_ticket = 0
    /\ serving_ticket = 0
    /\ pc = [p \in Proc |-> "idle"]
    /\ reg = [p \in Proc |-> 0]
    /\ lapse = [p \in Proc |-> 0]
    /\ event = [p \in Proc |-> FALSE]

-------------------------------------------------------------------------------
\* ticket_lock_acquire: fetch_add on next_ticket.
FetchNext(p) ==
    /\ pc[p] = "idle"
    /\ Issue(p)
    /\ reg' = [reg EXCEPT ![p] = next_ticket]
    /\ Goto(p, "spin")
    /\ UNCHANGED <<serving_ticket, event>>

\* Bug: the loop waits, busily, for the ticket after its own.
SpinPastTurn(p) ==
    /\ pc[p] = "spin"
    /\ Goto(p, IF serving_ticket = Succ(reg[p]) THEN "held" ELSE "spin")
    /\ UNCHANGED <<next_ticket, serving_ticket, reg, lapse, event>>

\* ticket_lock_acquire: one turn of the loop, up to its WFE.
Spin(p) ==
    /\ pc[p] = "spin"
    /\ Goto(p, IF serving_ticket = reg[p] THEN "held" ELSE "wfe")
    /\ UNCHANGED <<next_ticket, serving_ticket, reg, lapse, event>>

\* hal_wfe: resume once the event register is set, and clear it.
Wfe(p) ==
    /\ pc[p] = "wfe"
    /\ event[p]
    /\ event' = [event EXCEPT ![p] = FALSE]
    /\ Goto(p, "spin")
    /\ UNCHANGED <<next_ticket, serving_ticket, reg, lapse>>

\* ticket_lock_release: read both counters; a free lock is left alone.  One
\* step for the two loads: only the owner writes serving_ticket, and another
\* ticket drawn in between leaves them different.
ReleaseLoad(p) ==
    /\ pc[p] = "held"
    /\ IF serving_ticket = next_ticket
       THEN Goto(p, "idle") /\ UNCHANGED reg
       ELSE Goto(p, "release") /\ reg' = [reg EXCEPT ![p] = serving_ticket]
    /\ UNCHANGED <<next_ticket, serving_ticket, lapse, event>>

\* ticket_lock_release: the store of serving + 1 becomes visible, before the SEV
\* or after it.
ReleaseStore(p) ==
    /\ pc[p] \in {"release", "late"}
    /\ serving_ticket' = Succ(reg[p])
    /\ Goto(p, IF pc[p] = "release" THEN "sev" ELSE "idle")
    /\ UNCHANGED <<next_ticket, reg, lapse, event>>

\* hal_sev: set the event register of every CPU, after the store is visible or
\* before it is.
Sev(p) ==
    /\ pc[p] \in {"sev", "release"}
    /\ event' = [q \in Proc |-> TRUE]
    /\ Goto(p, IF pc[p] = "sev" THEN "idle" ELSE "late")
    /\ UNCHANGED <<next_ticket, serving_ticket, reg, lapse>>

\* A CPU takes its timer interrupt.  timer_interrupt_handler acquires and
\* releases that CPU's timer and sleep locks, and the SEV of those releases
\* reaches the CPUs that wait for this lock.
Tick ==
    /\ event' = [q \in Proc |-> TRUE]
    /\ UNCHANGED <<next_ticket, serving_ticket, pc, reg, lapse>>

\* ticket_lock_try_acquire: load next_ticket.
TryLoad(p) ==
    /\ pc[p] = "idle"
    /\ reg' = [reg EXCEPT ![p] = next_ticket]
    /\ lapse' = [lapse EXCEPT ![p] = 0]
    /\ Goto(p, "try_serving")
    /\ UNCHANGED <<next_ticket, serving_ticket, event>>

\* Bug: the attempt does not look at serving_ticket before the exchange.
TryServingUnchecked(p) ==
    /\ pc[p] = "try_serving"
    /\ Goto(p, "try_cas")
    /\ UNCHANGED <<next_ticket, serving_ticket, reg, lapse, event>>

\* ticket_lock_try_acquire: load serving_ticket, give up if the lock is taken.
TryServing(p) ==
    /\ pc[p] = "try_serving"
    /\ Goto(p, IF serving_ticket = reg[p] THEN "try_cas" ELSE "idle")
    /\ UNCHANGED <<next_ticket, serving_ticket, reg, lapse, event>>

\* Bug: a plain store in place of the compare-and-swap.
TryStore(p) ==
    /\ pc[p] = "try_cas"
    /\ Issue(p)
    /\ Goto(p, "held")
    /\ UNCHANGED <<serving_ticket, reg, event>>

\* ticket_lock_try_acquire: compare-and-swap of next_ticket.
TryCas(p) ==
    /\ pc[p] = "try_cas"
    /\ \/ /\ next_ticket = reg[p]
          /\ Issue(p)
          /\ Goto(p, "held")
       \/ /\ next_ticket # reg[p]
          /\ Goto(p, "idle")
          /\ UNCHANGED <<next_ticket, lapse>>
    /\ UNCHANGED <<serving_ticket, reg, event>>

Step(p) ==
    \/ FetchNext(p) \/ Spin(p) \/ Wfe(p)
    \/ ReleaseLoad(p) \/ ReleaseStore(p) \/ Sev(p)
    \/ TryLoad(p) \/ TryServing(p) \/ TryCas(p)

Next == Tick \/ \E p \in Proc : Step(p)

Spec == Init /\ [][Next]_vars

(***************************************************************************)
(* Fairness: a CPU inside the lock code keeps executing instructions, and  *)
(* critical sections end.  Nothing makes a CPU start an acquisition or     *)
(* take a timer interrupt.                                                 *)
(***************************************************************************)
Fairness ==
    \A p \in Proc : /\ WF_vars(Spin(p)) /\ WF_vars(Wfe(p))
                    /\ WF_vars(ReleaseLoad(p)) /\ WF_vars(ReleaseStore(p))
                    /\ WF_vars(Sev(p))

FairSpec == Spec /\ Fairness
-------------------------------------------------------------------------------
\* The CPUs that hold a ticket not yet served, or the lock itself.
Active == {p \in Proc : pc[p] \in {"spin", "wfe", "held", "release", "late"}}

Owner(p) == pc[p] \in {"held", "release", "late"}

\* Distance of a ticket from the one being served, around the counter.
Dist(t) == IF t >= serving_ticket THEN t - serving_ticket
                                  ELSE t + Modulus - serving_ticket

\* Type invariant of the lock word and the CPUs' local state.
TypeOK ==
    /\ next_ticket \in Ticket
    /\ serving_ticket \in Ticket
    /\ pc \in [Proc -> Labels]
    /\ reg \in [Proc -> Ticket]
    /\ lapse \in [Proc -> Ticket]
    /\ event \in [Proc -> BOOLEAN]

\* At most one CPU is between a successful (try_)acquire and the store of its
\* release, however the counters wrap and however acquire and try_acquire mix,
\* also while that store is still on its way.
MutualExclusion == \A p, q \in Proc : Owner(p) /\ Owner(q) => p = q

(***************************************************************************)
(* The strengthening that makes mutual exclusion inductive: outstanding    *)
(* tickets are exactly those between serving_ticket and next_ticket, one   *)
(* per active CPU; a try_acquire about to exchange an unchanged            *)
(* next_ticket has seen a lock that is still free.                         *)
(***************************************************************************)
TicketsInRange == \A p \in Active : Dist(reg[p]) < Dist(next_ticket)

TicketsDistinct == \A p, q \in Active : reg[p] = reg[q] => p = q

TicketsCounted == Cardinality(Active) = Dist(next_ticket)

OwnerServed == \A p \in Proc : Owner(p) => reg[p] = serving_ticket

TryWindow ==
    \A p \in Proc :
        /\ InTry(p) => \/ next_ticket = reg[p] + lapse[p]
                       \/ next_ticket = reg[p] + lapse[p] - Modulus
        /\ pc[p] = "try_cas" /\ lapse[p] = 0 => serving_ticket = next_ticket

\* The ticket discipline of the lock: see the comment above.
TicketDiscipline ==
    /\ TicketsInRange
    /\ TicketsDistinct
    /\ TicketsCounted
    /\ OwnerServed
    /\ TryWindow

\* A CPU that drew a ticket eventually owns the lock, provided that timer
\* interrupts go on somewhere: a sleeper woken by a SEV that ran ahead of its
\* store sleeps again, and the next interrupt of any CPU makes up for it; nobody
\* overtakes it for ever.  ticket_lock_release has no barrier between the store
\* and the SEV, so without the proviso the statement is false.
EveryTicketServed ==
    WF_vars(Tick) => \A p \in Proc : pc[p] = "spin" ~> pc[p] = "held"

(***************************************************************************)
(* Refinement of FifoLock.                                                 *)
(***************************************************************************)
WaitLine ==
    [i \in 1 .. Dist(next_ticket) |->
        CHOOSE p \in Active : reg[p] = (serving_ticket + i - 1) % Modulus]

Place ==
    [p \in Proc |-> IF Owner(p) THEN "cs"
                    ELSE IF p \in Active THEN "in" ELSE "out"]

Fifo == INSTANCE FifoLock WITH line <- WaitLine, at <- Place

\* The ticket lock serves CPUs strictly first come, first served, and
\* try_acquire succeeds only on an empty line.
ImplementsFifoLock == Fifo!FifoSpec
===============================================================================
