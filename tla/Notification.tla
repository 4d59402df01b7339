---------------------------- MODULE Notification -----------------------------
(***************************************************************************)
(* kernel/ipc/notification.c: notification objects, words of signal bits    *)
(* that threads wait for and that threads and interrupt handlers set.       *)
(*                                                                          *)
(* Only the free stack and destroy take the subsystem lock; signal and wait *)
(* take none.  On one CPU calls run with interrupts masked, one after the   *)
(* other (Serial); on several their accesses interleave.  An identifier is  *)
(* a slot and a generation.  The system calls pass on any number, so signal *)
(* and wait are called with identifiers that no create has returned too;    *)
(* one that has the generation of a free slot is accepted.  create and      *)
(* destroy have no system call: destroy gets identifiers create returned.   *)
(***************************************************************************)
EXTENDS Integers, Sequences, SequencesExt

CONSTANTS
  NSlot,    \* CONFIG_IPC_MAX_NOTIFICATIONS
  NThread,  \* threads 1 .. NThread
  Bit,      \* the bits of a signal word
  Masks,    \* the masks waiters ask for; the system call asks for every bit
  GenMax,   \* the largest generation, 2^16 - 1 in the code (odd, which decides what a wrap does)
  Lives,    \* bound on the objects created
  Serial,   \* whether calls exclude each other
  Solo      \* whether one thread only, number s, consumes the signals of slot s

ASSUME NotificationAssumption ==
  /\ NSlot \in Nat /\ NThread \in Nat /\ NSlot <= NThread
  /\ Masks \subseteq SUBSET Bit /\ {} \notin Masks
  /\ GenMax \in Nat \ {0} /\ Lives \in Nat
  /\ Serial \in BOOLEAN /\ Solo \in BOOLEAN

Slot == 1 .. NSlot
Thread == 1 .. NThread
NoThread == 0   \* THREAD_ID_INVALID
Irq == 0        \* the caller when an interrupt handler signals
Caller == Thread \cup {Irq}
Id == Slot \X (0 .. GenMax)

VARIABLES
  ntf,     \* s_notifications
  free,    \* s_free_notify_stack, its top last
  run,     \* run[t]: KTHREAD_STATE of thread t
  pc,      \* pc[x]: where caller x is
  loc,     \* loc[x]: x's locals: the identifier used, the mask, the bits found
  issued,  \* identifiers that create has returned
  alive,   \* the identifiers among them not destroyed
  lives    \* objects created so far

vars == <<ntf, free, run, pc, loc, issued, alive, lives>>

\* Places where a caller is not between two accesses of one call
Rest == {"out", "asleep"}

Blank(g) == [gen |-> g, state |-> "IDLE", signals |-> {}, mask |-> {}, waiter |-> NoThread]

NoLocals == [id |-> <<1, 0>>, mask |-> {}, active |-> {}]

Init ==
  /\ ntf = [s \in Slot |-> Blank(0)]
  /\ free = [k \in 1 .. NSlot |-> NSlot + 1 - k]
  /\ run = [t \in Thread |-> "READY"]
  /\ pc = [x \in Caller |-> "out"]
  /\ loc = [x \in Caller |-> NoLocals]
  /\ issued = {} /\ alive = {} /\ lives = 0

\* Caller x starts a call.
Enter(x) ==
  /\ pc[x] = "out"
  /\ Serial => \A y \in Caller : pc[y] \in Rest

Goto(x, l) == pc' = [pc EXCEPT ![x] = l]

\* Caller x returns, and its locals with it.
Return(x) == Goto(x, "out") /\ loc' = [loc EXCEPT ![x] = NoLocals]

\* Bug: the generation is not compared.
ResolvesAny(id) == TRUE

\* get_notification: the slot has the identifier's generation.
Resolves(id) == ntf[id[1]].gen = id[2]

\* The next generation; 0 is skipped.
NextGen(g) == IF g = GenMax THEN 1 ELSE g + 1

\* May thread t wait for, or poll, the object in slot s?
Consumes(t, s) == Solo => t = s

\* create takes a slot from the free stack, under the lock ...
Create(t) ==
  /\ Enter(t)
  /\ free # <<>> /\ lives < Lives
  /\ loc' = [loc EXCEPT ![t].id = <<Last(free), NextGen(ntf[Last(free)].gen)>>]
  /\ free' = Front(free) /\ lives' = lives + 1
  /\ Goto(t, "init")
  /\ UNCHANGED <<ntf, run, issued, alive>>

\* ... and fills it in after the lock is released, waiter and bits included,
\* whatever was recorded in the slot while it was free.
Fill(t) ==
  LET id == loc[t].id IN
  /\ pc[t] = "init"
  /\ ntf' = [ntf EXCEPT ![id[1]] = Blank(id[2])]
  /\ issued' = issued \cup {id}
  /\ alive' = alive \cup {id}
  /\ Return(t)
  /\ UNCHANGED <<free, run, lives>>

\* Thread w runs again if it is blocked, on whatever it is blocked.
Wake(w) == [t \in Thread |-> IF t = w /\ run[t] = "BLOCKED" THEN "READY" ELSE run[t]]

\* Bug: the generation is left to the next create.
DestroyKeepsGen(t, id) ==
  /\ Enter(t) /\ Resolves(id)
  /\ run' = IF ntf[id[1]].state = "WAITING" THEN Wake(ntf[id[1]].waiter) ELSE run
  /\ ntf' = [ntf EXCEPT ![id[1]] = Blank(@.gen)]
  /\ alive' = alive \ {id}
  /\ loc' = [loc EXCEPT ![t].id = id]
  /\ Goto(t, "free")
  /\ UNCHANGED <<free, issued, lives>>

\* destroy, under the lock: the waiter is woken and the generation moves on ...
Destroy(t, id) ==
  /\ Enter(t) /\ Resolves(id)
  /\ run' = IF ntf[id[1]].state = "WAITING" THEN Wake(ntf[id[1]].waiter) ELSE run
  /\ ntf' = [ntf EXCEPT ![id[1]] = Blank(NextGen(@.gen))]
  /\ alive' = alive \ {id}
  /\ loc' = [loc EXCEPT ![t].id = id]
  /\ Goto(t, "free")
  /\ UNCHANGED <<free, issued, lives>>

\* ... and the slot goes back to the free stack under the lock taken anew.
FreeIndex(t) ==
  /\ pc[t] = "free"
  /\ free' = Append(free, loc[t].id[1])
  /\ Return(t)
  /\ UNCHANGED <<ntf, run, issued, alive, lives>>

\* signal sets its bits atomically ...
Signal(x, id, b) ==
  /\ Enter(x) /\ Resolves(id)
  /\ ntf' = [ntf EXCEPT ![id[1]].signals = @ \cup b]
  /\ loc' = [loc EXCEPT ![x].id = id]
  /\ Goto(x, "test")
  /\ UNCHANGED <<free, run, issued, alive, lives>>

\* Bug: the bits that wake a waiter are cleared on its behalf.
TestConsumes(x) ==
  LET s == loc[x].id[1]
      wakes == ntf[s].state = "WAITING" /\ ntf[s].signals \cap ntf[s].mask # {}
  IN /\ pc[x] = "test"
     /\ run' = IF wakes THEN Wake(ntf[s].waiter) ELSE run
     /\ ntf' = [ntf EXCEPT ![s].state = "PENDING",
                           ![s].signals = IF wakes THEN @ \ ntf[s].mask ELSE @]
     /\ Return(x)
     /\ UNCHANGED <<free, issued, alive, lives>>

\* ... and then wakes the recorded waiter if one of the bits is in its mask.
\* Either way the object ends up PENDING.
Test(x) ==
  LET s == loc[x].id[1] IN
  /\ pc[x] = "test"
  /\ run' = IF ntf[s].state = "WAITING" /\ ntf[s].signals \cap ntf[s].mask # {}
            THEN Wake(ntf[s].waiter) ELSE run
  /\ ntf' = [ntf EXCEPT ![s].state = "PENDING"]
  /\ Return(x)
  /\ UNCHANGED <<free, issued, alive, lives>>

\* wait up to its test for pending bits
Wait(t, id, m) ==
  LET active == ntf[id[1]].signals \cap m IN
  /\ Enter(t) /\ Resolves(id) /\ Consumes(t, id[1])
  /\ loc' = [loc EXCEPT ![t] = [id |-> id, mask |-> m, active |-> active]]
  /\ Goto(t, IF active # {} THEN "consume" ELSE "block")
  /\ UNCHANGED <<ntf, free, run, issued, alive, lives>>

\* Bits were pending: they are cleared atomically and returned.
Consume(t) ==
  /\ pc[t] = "consume"
  /\ ntf' = [ntf EXCEPT ![loc[t].id[1]].signals = @ \ loc[t].active,
                        ![loc[t].id[1]].state = "IDLE"]
  /\ Return(t)
  /\ UNCHANGED <<free, run, issued, alive, lives>>

\* Bug: the waiter is not recorded.
BlockNoWaiter(t) ==
  /\ pc[t] = "block"
  /\ ntf' = [ntf EXCEPT ![loc[t].id[1]].state = "WAITING", ![loc[t].id[1]].mask = loc[t].mask]
  /\ Goto(t, "sleep")
  /\ UNCHANGED <<free, run, loc, issued, alive, lives>>

\* No bit was pending: the caller becomes the recorded waiter ...
Block(t) ==
  LET s == loc[t].id[1] IN
  /\ pc[t] = "block"
  /\ ntf' = [ntf EXCEPT ![s].state = "WAITING", ![s].mask = loc[t].mask, ![s].waiter = t]
  /\ Goto(t, "sleep")
  /\ UNCHANGED <<free, run, loc, issued, alive, lives>>

\* ... and sleeps.
Sleep(t) ==
  /\ pc[t] = "sleep"
  /\ run' = [run EXCEPT ![t] = "BLOCKED"]
  /\ Goto(t, "asleep")
  /\ UNCHANGED <<ntf, free, loc, issued, alive, lives>>

\* schedule() returns in wait: the bits are taken from the slot, whatever
\* object is in it by now, and the waiter's fields are reset.
Woken(t) ==
  LET s == loc[t].id[1] IN
  /\ pc[t] = "asleep" /\ run[t] = "READY"
  /\ Serial => \A y \in Caller : pc[y] \in Rest
  /\ ntf' = [ntf EXCEPT ![s] = [@ EXCEPT !.signals = @ \ loc[t].mask, !.mask = {},
                                         !.waiter = NoThread, !.state = "IDLE"]]
  /\ Return(t)
  /\ UNCHANGED <<free, run, issued, alive, lives>>

\* try_wait, also wait_timeout with no time to wait, up to its test; without
\* pending bits it changes nothing.
TryWait(t, id, m) ==
  LET active == ntf[id[1]].signals \cap m IN
  /\ Enter(t) /\ Resolves(id) /\ Consumes(t, id[1])
  /\ active # {}
  /\ loc' = [loc EXCEPT ![t] = [id |-> id, mask |-> m, active |-> active]]
  /\ Goto(t, "take")
  /\ UNCHANGED <<ntf, free, run, issued, alive, lives>>

\* try_wait clears the bits, and the state if no other bit is left.
Take(t) ==
  LET s == loc[t].id[1]
      remaining == ntf[s].signals \ loc[t].active
  IN /\ pc[t] = "take"
     /\ ntf' = [ntf EXCEPT ![s].signals = remaining,
                           ![s].state = IF remaining = {} THEN "IDLE" ELSE @]
     /\ Return(t)
     /\ UNCHANGED <<free, run, issued, alive, lives>>

Next ==
  \/ \E x \in Caller : Test(x) \/ \E id \in Id, b \in SUBSET Bit \ {{}} : Signal(x, id, b)
  \/ \E t \in Thread :
       \/ Create(t) \/ Fill(t) \/ FreeIndex(t)
       \/ Consume(t) \/ Block(t) \/ Sleep(t) \/ Woken(t) \/ Take(t)
       \/ \E id \in issued : Destroy(t, id)
       \/ \E id \in Id, m \in Masks : Wait(t, id, m) \/ TryWait(t, id, m)

Spec == Init /\ [][Next]_vars

-----------------------------------------------------------------------------
\* Every field has a value of its type, and the free stack stays in its array.
TypeOK ==
  /\ ntf \in [Slot -> [gen : 0 .. GenMax, state : {"IDLE", "WAITING", "PENDING"},
                       signals : SUBSET Bit, mask : SUBSET Bit, waiter : Caller]]
  /\ free \in Seq(Slot) /\ Len(free) <= NSlot
  /\ run \in [Thread -> {"READY", "BLOCKED"}]
  /\ pc \in [Caller -> Rest \cup {"init", "free", "test", "consume", "block", "sleep", "take"}]
  /\ loc \in [Caller -> [id : Id, mask : SUBSET Bit, active : SUBSET Bit]]
  /\ issued \subseteq Id /\ alive \subseteq issued
  /\ lives \in 0 .. Lives

\* get_notification accepts an identifier exactly as long as the object made
\* with it exists: a destroyed object's identifier is dead for good, although
\* its slot is used again (notification.c:102).
StaleIdsDead == \A id \in issued : Resolves(id) <=> id \in alive

\* The free stack holds the slots without an object, each once, but for those
\* that a create has taken and not filled in or a destroy has emptied and not
\* given back: no sequence of the two hands out a slot in use or loses one.
FreeStackExact ==
  /\ \A s \in Slot :
       Contains(free, s) <=> /\ \A id \in alive : id[1] # s
                             /\ \A t \in Thread : pc[t] \in {"init", "free"} => loc[t].id[1] # s
  /\ \A i, j \in 1 .. Len(free) : free[i] = free[j] => i = j

\* No wake-up is lost: a thread asleep in wait on an object that existed is the
\* recorded waiter of that object, which still exists, is WAITING and has none
\* of the bits it waits for, unless a signal that will wake it is being sent
\* (signal, wait, destroy).  Of a thread that waited on a free slot's
\* generation nothing is said: create erases it from the slot.
SleeperRecorded ==
  \A t \in Thread : pc[t] = "asleep" /\ run[t] = "BLOCKED" /\ loc[t].id \in issued =>
    LET n == ntf[loc[t].id[1]] IN
    /\ loc[t].id \in alive
    /\ n.state = "WAITING" /\ n.waiter = t /\ n.mask = loc[t].mask
    /\ n.signals \cap n.mask # {} =>
         \E x \in Caller : pc[x] = "test" /\ loc[x].id = loc[t].id

\* A wait that blocked returns with at least one bit, unless its object was
\* destroyed meanwhile: nothing else wakes the thread, and nobody takes the
\* bits between the wake-up and the return.
WokenWithBits ==
  [][\A t \in Thread :
       Woken(t) /\ loc[t].id \in alive => ntf[loc[t].id[1]].signals \cap loc[t].mask # {}]_vars
=============================================================================
