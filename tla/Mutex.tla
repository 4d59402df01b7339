-------------------------------- MODULE Mutex --------------------------------
(***************************************************************************)
(* kernel/sched/mutex.c: the sleeping lock with direct hand-off.            *)
(*                                                                          *)
(* The mutex has no lock of its own.  On one CPU, called with interrupts    *)
(* masked, its calls run one after the other (Serial); on several CPUs the  *)
(* loads and stores of different callers interleave.  Blocking and waking   *)
(* are those of Scheduler: a blocked thread runs again once it is READY.    *)
(***************************************************************************)
EXTENDS Integers, Sequences

CONSTANTS
  NThread,    \* threads 1 .. NThread; 0 means no owner
  Serial      \* whether calls exclude each other

ASSUME MutexAssumption ==
  NThread \in Nat /\ Serial \in BOOLEAN

Thread == 1 .. NThread

VARIABLES
  owner, state, count, wq,  \* Mutex_t: owner_tid, state, lock_count, wait_queue
  run,                      \* run[t]: KTHREAD_STATE of thread t
  pc                        \* pc[t]: where thread t is

vars == <<owner, state, count, wq, run, pc>>

\* Places where a thread is not between two accesses of one call.  A thread that
\* spins is: cpu_relax yields to nobody.
Rest == {"out", "in", "asleep"}

Labels == Rest \cup {"take", "queue", "sleep", "spin", "relock", "give"}

\* mutex_init
Init ==
  /\ owner = 0 /\ state = "UNLOCKED" /\ count = 0 /\ wq = <<>>
  /\ run = [t \in Thread |-> "READY"]
  /\ pc = [t \in Thread |-> "out"]

Goto(t, l) == pc' = [pc EXCEPT ![t] = l]

\* Thread t starts a call.
Enter(t) == run[t] = "READY" /\ (Serial => \A u \in Thread : pc[u] \in Rest)

\* mutex_lock up to its test of the state; nothing stops the owner from
\* calling it again.
Lock(t) ==
  /\ \/ Enter(t) /\ pc[t] \in {"out", "in"}
     \/ pc[t] = "relock"
  /\ Goto(t, IF state = "UNLOCKED" THEN "take" ELSE "queue")
  /\ UNCHANGED <<owner, state, count, wq, run>>

\* Bug: try_lock takes a mutex that is merely not contended.
TryLockUnchecked(t) ==
  /\ Enter(t) /\ pc[t] = "out"
  /\ state # "CONTENDED"
  /\ Goto(t, "take")
  /\ UNCHANGED <<owner, state, count, wq, run>>

\* mutex_try_lock up to its test, and mutex_lock_timeout with no time to wait;
\* a call that finds the mutex taken changes nothing.
TryLock(t) ==
  /\ Enter(t) /\ pc[t] = "out"
  /\ state = "UNLOCKED"
  /\ Goto(t, "take")
  /\ UNCHANGED <<owner, state, count, wq, run>>

\* The free mutex is taken.
Take(t) ==
  /\ pc[t] = "take"
  /\ owner' = t /\ state' = "LOCKED" /\ count' = count + 1
  /\ Goto(t, "in")
  /\ UNCHANGED <<wq, run>>

\* Bug: the waiter does not mark the mutex contended ... and leaves it free.
EnqueueUnlocks(t) ==
  /\ pc[t] = "queue"
  /\ state' = "UNLOCKED" /\ wq' = <<t>> \o wq
  /\ Goto(t, "sleep")
  /\ UNCHANGED <<owner, count, run>>

\* The caller links itself in front of the other waiters.
Enqueue(t) ==
  /\ pc[t] = "queue"
  /\ state' = "CONTENDED" /\ wq' = <<t>> \o wq
  /\ Goto(t, "sleep")
  /\ UNCHANGED <<owner, count, run>>

Sleep(t) ==
  /\ pc[t] = "sleep"
  /\ run' = [run EXCEPT ![t] = "BLOCKED"]
  /\ Goto(t, "asleep")
  /\ UNCHANGED <<owner, state, count, wq>>

\* schedule() returns in mutex_lock, which reports success.
Awake(t) ==
  /\ pc[t] = "asleep" /\ run[t] = "READY"
  /\ Goto(t, "in")
  /\ UNCHANGED <<owner, state, count, wq, run>>

\* mutex_lock_timeout with time to wait: spin until the mutex looks free ...
TimedLock(t) ==
  /\ Enter(t) /\ pc[t] = "out"
  /\ Goto(t, "spin")
  /\ UNCHANGED <<owner, state, count, wq, run>>

\* ... and then call mutex_lock,
SpinEnds(t) ==
  /\ pc[t] = "spin" /\ state = "UNLOCKED"
  /\ Goto(t, "relock")
  /\ UNCHANGED <<owner, state, count, wq, run>>

\* ... or until the deadline has passed.  The ticks it is measured in come from
\* timer interrupts, which another CPU takes; on one CPU that spins with
\* interrupts masked there are none, and the call never ends.
Timeout(t) ==
  /\ ~Serial
  /\ pc[t] = "spin" /\ state # "UNLOCKED"
  /\ Goto(t, "out")
  /\ UNCHANGED <<owner, state, count, wq, run>>

\* mutex_unlock up to its test of the owner
Unlock(t) ==
  /\ Enter(t) /\ pc[t] = "in"
  /\ Goto(t, IF owner = t THEN "give" ELSE "out")
  /\ UNCHANGED <<owner, state, count, wq, run>>

\* Bug: the hand-off does not count the new owner.
GiveUncounted(t) ==
  /\ pc[t] = "give"
  /\ owner' = IF wq = <<>> THEN 0 ELSE Head(wq)
  /\ state' = IF wq = <<>> THEN "UNLOCKED" ELSE state
  /\ count' = count - 1
  /\ wq' = IF wq = <<>> THEN wq ELSE Tail(wq)
  /\ run' = [u \in Thread |-> IF wq # <<>> /\ u = Head(wq) THEN "READY" ELSE run[u]]
  /\ Goto(t, "out")

\* The rest of mutex_unlock, its stores in one step: the first thread of the
\* queue becomes the owner and the state stays CONTENDED, or the mutex becomes
\* free.
Give(t) ==
  /\ pc[t] = "give"
  /\ IF wq # <<>>
     THEN /\ owner' = Head(wq) /\ wq' = Tail(wq)
          /\ run' = [run EXCEPT ![Head(wq)] = "READY"]
          /\ UNCHANGED <<state, count>>
     ELSE /\ owner' = 0 /\ state' = "UNLOCKED" /\ count' = count - 1
          /\ UNCHANGED <<wq, run>>
  /\ Goto(t, "out")

Step(t) == Take(t) \/ Enqueue(t) \/ Sleep(t) \/ Awake(t) \/ SpinEnds(t) \/ Give(t)

Next == \E t \in Thread : Lock(t) \/ TryLock(t) \/ TimedLock(t) \/ Unlock(t) \/ Step(t)

Spec == Init /\ [][Next]_vars

\* Several CPUs, where a deadline passes.
SmpSpec == Init /\ [][Next \/ \E t \in Thread : Timeout(t)]_vars

-----------------------------------------------------------------------------
\* Every field has a value of its type.
TypeOK ==
  /\ owner \in 0 .. NThread
  /\ state \in {"UNLOCKED", "LOCKED", "CONTENDED"}
  /\ count \in Nat
  /\ wq \in Seq(Thread)
  /\ run \in [Thread -> {"READY", "BLOCKED"}]
  /\ pc \in [Thread -> Labels]

\* Threads whose call to lock, try_lock or lock_timeout has returned success
Holds(t) == pc[t] \in {"in", "give"}

\* At most one thread has the mutex, and owner_tid names it (mutex_lock and
\* mutex_unlock report success to one thread at a time).
MutualExclusion ==
  /\ \A t, u \in Thread : Holds(t) /\ Holds(u) => t = u
  /\ \A t \in Thread : Holds(t) => owner = t

\* A thread sleeps for the mutex only while somebody else has it or, once the
\* hand-off of mutex_unlock has made it the owner, not at all: a blocked thread
\* is on the queue exactly once, and the queue is empty when the mutex is free.
NoLostWaiter ==
  /\ \A t \in Thread : run[t] = "BLOCKED" =>
       \E i \in 1 .. Len(wq) : wq[i] = t /\ \A j \in 1 .. Len(wq) : wq[j] = t => i = j
  /\ state = "UNLOCKED" <=> owner = 0
  /\ owner = 0 => wq = <<>> /\ count = 0
=============================================================================
