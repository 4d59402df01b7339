------------------------------ MODULE Scheduler ------------------------------
(***************************************************************************)
(* The preemptive priority scheduler: kernel/sched/scheduler.c with the     *)
(* thread operations of thread.c, the round-robin tick of sched_rr.c, the   *)
(* sleep queue of timer.c and the load balancing of smp.c.                  *)
(*                                                                          *)
(* Every CPU is a sequential process.  System calls run with interrupts     *)
(* masked, so a CPU inside one is interleaved only with other CPUs; a step  *)
(* ends where the code releases the queue lock or stores to a field that    *)
(* another CPU reads.  Priorities are larger-is-more-urgent, idle is 0.     *)
(***************************************************************************)
EXTENDS Integers, Sequences, FiniteSets, SequencesExt

CONSTANTS
  NCpu,          \* CONFIG_MAX_CPUS; CPU c's idle thread is slot c
  NThread,       \* CONFIG_MAX_THREADS, the slots of thread_table
  MaxPrio,       \* CONFIG_PRIORITY_LEVELS - 1
  Slice,         \* time_slice_reload of a round-robin thread, in ticks
  PreemptMax,    \* bound on the nesting of preempt_disable
  Calls,         \* the system calls the workload makes
  Reserve,       \* STEAL_MIN_RESERVE
  NrMax,         \* bound on nr_running, which drifts when CPUs race
  StackMayFail,  \* whether stack_alloc_by_scheduler can return 0
  Overflowing,   \* threads that may overrun their stack
  NULL,          \* a null thread pointer
  BOGUS          \* container_of applied to an empty list head

CPU    == 0 .. NCpu - 1
Thread == 0 .. NThread - 1
Prio   == 0 .. MaxPrio

ASSUME SchedulerAssumption ==
  /\ NCpu \in Nat \ {0} /\ NThread \in Nat /\ NCpu < NThread
  /\ MaxPrio \in Nat /\ Slice \in Nat \ {0} /\ PreemptMax \in Nat
  /\ Reserve \in Nat /\ NrMax \in Nat
  /\ StackMayFail \in BOOLEAN /\ Overflowing \subseteq Thread
  /\ NULL \notin Thread /\ BOGUS \notin Thread /\ NULL # BOGUS
  /\ "setprio" \in Calls => NCpu = 1  \* see Enqueue

VARIABLES
  rq,      \* rq[c]: CPU c's PerCPUReadyQueue_t
  th,      \* th[t]: thread table slot t
  sleepq,  \* sleepq[c]: threads asleep on CPU c, in order of wakeup_tick
  preempt, \* preempt[c]: percpu preempt_count
  live,    \* live[c]: the thread whose stack and registers CPU c uses
  pc,      \* pc[c]: where CPU c is in the kernel
  reg,     \* reg[c]: CPU c's locals: a thread, a priority, a continuation
  fault,   \* set once the code has followed a corrupt list
  lost,    \* slots that a failed kthread_create left READY, on no queue
  ipi,     \* ipi[c]: a reschedule interrupt is pending at CPU c
  lb       \* lb[i]: where idle thread i is in the balancing of its loop

core == <<rq, th, sleepq, preempt, live, pc, reg, fault, lost>>
vars == <<rq, th, sleepq, preempt, live, pc, reg, fault, lost, ipi, lb>>

States == {"DEAD", "READY", "RUNNING", "BLOCKED", "SUSPENDED", "SLEEPING"}

Labels ==
  {"boot", "start", "run", "sched", "switch", "mark", "init", "enq",
   "rcheck", "check", "susp", "susp2", "res", "pdeq", "pset"}

IdleThread(c) == c
IsIdle(t) == t \in CPU

-----------------------------------------------------------------------------
(* Ready queues.  q stands for the array of all CPUs' queues: a thread's     *)
(* list node can be on any CPU's list, whichever CPU handles it.             *)

Linked(q, t) == \E c \in CPU, p \in Prio : t \in Range(q[c].queues[p])

\* list_del_init: out of the list the node is on, whichever that is.
Unlink(q, t) ==
  [c \in CPU |-> [q[c] EXCEPT !.queues =
     [p \in Prio |-> SelectSeq(@[p], LAMBDA u : u # t)]]]

\* Bug: the priority's bit is left set when its list becomes empty.
DequeueKeepBit(q, c, t, p) ==
  [Unlink(q, t) EXCEPT ![c].nr_running = IF @ > 0 THEN @ - 1 ELSE 0]

\* __sched_dequeue_locked, on the queue of CPU c
Dequeue(q, c, t, p) ==
  LET u == Unlink(q, t) IN
  [u EXCEPT ![c].bitmap = IF u[c].queues[p] = <<>> THEN @ \ {p} ELSE @,
            ![c].nr_running = IF @ > 0 THEN @ - 1 ELSE 0]

\* __sched_enqueue_locked, on the queue of CPU c.  p is thread->prio, which both
\* operations read at each use.  kthread_set_priority stores it without the
\* queue lock, so the reads agree only while no other CPU runs that call.
Enqueue(q, c, t, p) ==
  [q EXCEPT ![c].bitmap = @ \cup {p},
            ![c].queues[p] = Append(@, t),
            ![c].nr_running = @ + 1]

\* bitmap256_find_highest
Highest(b) == CHOOSE p \in b : \A r \in b : r <= p

\* scheduler_pick_next_locked: the head of the list the highest bit names,
\* with no test that the list has a head.
PickLocked(r) ==
  IF r.bitmap = {} THEN NULL
  ELSE IF r.queues[Highest(r.bitmap)] = <<>> THEN BOGUS
  ELSE Head(r.queues[Highest(r.bitmap)])

\* scheduler_pick_next: idle stands in for an empty queue.
PickNext(q, c) == IF PickLocked(q[c]) = NULL THEN IdleThread(c) ELSE PickLocked(q[c])

-----------------------------------------------------------------------------
(* Boot.  scheduler_init creates the idle threads on CPU 0; all but CPU 0's  *)
(* are taken off its queue again and stay READY on no list.                  *)

IdleSlot == [state |-> "READY", prio |-> 0, rr |-> FALSE, slice |-> 0,
             stack |-> TRUE, irqs |-> FALSE, mask |-> {}]
NoReg == [t |-> NULL, p |-> 0, k |-> "run"]
NoBalance == [op |-> "none", src |-> 0, dst |-> 0, left |-> 0, moved |-> FALSE]
DeadSlot == [IdleSlot EXCEPT !.state = "DEAD", !.stack = FALSE]

Init ==
  /\ rq = [c \in CPU |->
             [queues |-> [p \in Prio |-> IF c = 0 /\ p = 0 THEN <<0>> ELSE <<>>],
              bitmap |-> IF c = 0 THEN {0} ELSE {},
              nr_running |-> IF c = 0 THEN 1 ELSE 0,
              current |-> NULL, need_resched |-> FALSE]]
  /\ th = [t \in Thread |-> IF IsIdle(t) THEN IdleSlot ELSE DeadSlot]
  /\ sleepq = [c \in CPU |-> <<>>]
  /\ preempt = [c \in CPU |-> 0]
  /\ live = [c \in CPU |-> NULL]
  /\ pc = [c \in CPU |-> "boot"]
  /\ reg = [c \in CPU |-> NoReg]
  /\ fault = "none"
  /\ lost = {}
  /\ ipi = [c \in CPU |-> FALSE]
  /\ lb = [i \in CPU |-> NoBalance]

Goto(c, l) == pc' = [pc EXCEPT ![c] = l]
Load(c, t, p, k) == reg' = [reg EXCEPT ![c] = [t |-> t, p |-> p, k |-> k]]
\* The operation is over; its locals are gone.
Return(c, l) == Goto(c, l) /\ reg' = [reg EXCEPT ![c] = NoReg]
SetState(t, s) == th' = [th EXCEPT ![t].state = s]

\* Back to the caller: thread code, or the boot code on a CPU not started yet.
Home(c) == IF rq[c].current = NULL THEN "boot" ELSE "run"

\* scheduler_start, scheduler_start_secondary: pick under the lock ...
StartPick(c) ==
  /\ pc[c] = "boot"
  /\ LET n == PickNext(rq, c) IN
     IF n = BOGUS
     THEN fault' = "bogus_pick" /\ UNCHANGED <<pc, reg>>
     ELSE Load(c, n, 0, "run") /\ Goto(c, "start") /\ UNCHANGED fault
  /\ UNCHANGED <<rq, th, sleepq, preempt, live>>

\* ... then dequeue, load, and enter the thread with eret, which restores the
\* PSTATE that its context was created with: interrupts on.
StartRun(c) ==
  /\ pc[c] = "start"
  /\ LET n == reg[c].t
         q == IF th[n].state = "READY" THEN Dequeue(rq, c, n, th[n].prio) ELSE rq IN
     /\ rq' = [q EXCEPT ![c].current = n]
     /\ th' = [th EXCEPT ![n].state = "RUNNING", ![n].irqs = TRUE]
     /\ live' = [live EXCEPT ![c] = n]
  /\ Return(c, "run")
  /\ UNCHANGED <<sleepq, preempt, fault>>

-----------------------------------------------------------------------------
(* schedule() and the context switch.                                        *)

\* Bug: the running thread it replaces is not put back on the queue.
ScheduleDropPrev(c) ==
  /\ pc[c] = "sched"
  /\ LET prev == rq[c].current
         next == PickNext(rq, c) IN
     /\ next # BOGUS
     /\ rq' = [IF th[next].state = "READY" THEN Dequeue(rq, c, next, th[next].prio) ELSE rq
                 EXCEPT ![c].current = next]
     /\ th' = [th EXCEPT ![prev].state = IF @ = "RUNNING" THEN "READY" ELSE @,
                         ![next].state = "RUNNING"]
     /\ Load(c, prev, 0, "run")
     /\ Goto(c, IF prev = next THEN "run" ELSE "switch")
  /\ UNCHANGED <<sleepq, preempt, live, fault>>

\* schedule(), the part under the queue lock.  Only queued threads compete:
\* a prev that is still RUNNING is put back at the tail after the choice.
Schedule(c) ==
  /\ pc[c] = "sched"
  /\ LET prev == rq[c].current
         next == PickNext(rq, c)
         q1   == IF th[next].state = "READY" THEN Dequeue(rq, c, next, th[next].prio) ELSE rq
         back == th[prev].state = "RUNNING" IN
     IF next = BOGUS
     THEN fault' = "bogus_pick" /\ UNCHANGED <<rq, th, pc, reg>>
     ELSE IF prev = next
     THEN rq' = q1 /\ Return(c, "run") /\ UNCHANGED <<th, fault>>
     ELSE /\ rq' = [IF back THEN Enqueue(q1, c, prev, th[prev].prio) ELSE q1
                      EXCEPT ![c].current = next]
          /\ fault' = IF back /\ Linked(q1, prev) THEN "double_link" ELSE fault
          /\ th' = [th EXCEPT ![prev].state = IF back THEN "READY" ELSE @,
                              ![next].state = "RUNNING"]
          /\ Load(c, prev, 0, "run")
          /\ Goto(c, "switch")
  /\ UNCHANGED <<sleepq, preempt, live>>

\* context_switch, after the lock is released and with interrupts masked
Switch(c) ==
  /\ pc[c] = "switch"
  /\ live' = [live EXCEPT ![c] = rq[c].current]
  /\ Return(c, "run")
  /\ UNCHANGED <<rq, th, sleepq, preempt, fault>>

\* The canary of prev is overwritten: kthread_exit, which ends the CPU's
\* current_thread and schedules again, still on prev's stack.
GuardTrip(c) ==
  /\ pc[c] = "switch"
  /\ reg[c].t \in Overflowing
  /\ SetState(rq[c].current, "DEAD")
  /\ Goto(c, "sched")
  /\ UNCHANGED <<rq, sleepq, preempt, live, reg, fault>>

-----------------------------------------------------------------------------
(* System calls of the running thread, on CPU c.                             *)

Caller(c, call) ==
  /\ pc[c] = "run"
  /\ ~IsIdle(rq[c].current)
  /\ th[rq[c].current].state # "DEAD"
  /\ preempt[c] = 0
  /\ call \in Calls

\* The loop of idle_task_entry
InIdle(c) == pc[c] = "run" /\ IsIdle(rq[c].current) /\ preempt[c] = 0

Dead == {t \in Thread : th[t].state = "DEAD"}

\* alloc_thread_id scans for the first DEAD slot ...
CreateScan(c, p) ==
  /\ Caller(c, "create") \/ (pc[c] = "boot" /\ c = 0)
  /\ Dead # {}
  /\ Load(c, CHOOSE t \in Dead : \A u \in Dead : t <= u, p, Home(c))
  /\ Goto(c, "mark")
  /\ UNCHANGED <<rq, th, sleepq, preempt, live, fault>>

\* ... and marks it READY; preempt_disable holds no other CPU back.
CreateMark(c) ==
  /\ pc[c] = "mark"
  /\ SetState(reg[c].t, "READY")
  /\ Goto(c, "init")
  /\ UNCHANGED <<rq, sleepq, preempt, live, reg, fault>>

\* The rest of kthread_create.  Threads are created round-robin; a context
\* entered by context_switch never executes the eret that would unmask
\* interrupts.
CreateInit(c) ==
  /\ pc[c] = "init"
  /\ th' = [th EXCEPT ![reg[c].t] =
              [state |-> @.state, prio |-> reg[c].p, rr |-> TRUE,
               slice |-> Slice, stack |-> TRUE, irqs |-> FALSE, mask |-> {}]]
  /\ Goto(c, "enq")
  /\ UNCHANGED <<rq, sleepq, preempt, live, reg, fault>>

\* No stack: kthread_create returns and the slot stays READY.
CreateNoStack(c) ==
  /\ pc[c] = "init" /\ StackMayFail
  /\ lost' = lost \cup {reg[c].t}
  /\ Return(c, reg[c].k)
  /\ UNCHANGED <<rq, th, sleepq, preempt, live, fault>>

\* scheduler_enqueue, on the calling CPU's queue
EnqueueStep(c) ==
  /\ pc[c] = "enq"
  /\ rq' = Enqueue(rq, c, reg[c].t, th[reg[c].t].prio)
  /\ fault' = IF Linked(rq, reg[c].t) THEN "double_link" ELSE fault
  /\ IF reg[c].k \in {"rcheck", "check"}
     THEN Goto(c, reg[c].k) /\ UNCHANGED reg ELSE Return(c, reg[c].k)
  /\ UNCHANGED <<th, sleepq, preempt, live>>

\* kthread_exit, and every call that leaves the running thread waiting: the
\* state is stored first, schedule() is called next.
Leave(c, call, s) ==
  /\ Caller(c, call)
  /\ SetState(rq[c].current, s)
  /\ Goto(c, "sched")
  /\ UNCHANGED <<rq, preempt, live, reg, fault>>

\* Bug: kthread_exit gives its stack back itself.
ExitFreesStack(c) ==
  /\ Caller(c, "exit")
  /\ th' = [th EXCEPT ![rq[c].current].state = "DEAD", ![rq[c].current].stack = FALSE]
  /\ Goto(c, "sched")
  /\ UNCHANGED <<rq, sleepq, preempt, live, reg, fault>>

Exit(c)  == Leave(c, "exit", "DEAD") /\ UNCHANGED sleepq

\* SYS_THREAD_YIELD
Yield(c) ==
  /\ Caller(c, "yield")
  /\ Goto(c, "sched")
  /\ UNCHANGED <<rq, th, sleepq, preempt, live, reg, fault>>

\* The waits of endpoint.c, notification.c and mutex.c.
Block(c) == Leave(c, "block", "BLOCKED") /\ UNCHANGED sleepq

\* kthread_sleep_ticks: wakeup_tick decides the place in the sleep queue.
Sleep(c) ==
  /\ Leave(c, "sleep", "SLEEPING")
  /\ \E i \in 1 .. Len(sleepq[c]) + 1 :
       sleepq' = [sleepq EXCEPT ![c] = InsertAt(@, i, rq[c].current)]

\* The wake-ups of endpoint.c, notification.c and mutex.c.
Wake(c, t) ==
  /\ Caller(c, "block")
  /\ th[t].state = "BLOCKED"
  /\ SetState(t, "READY")
  /\ Load(c, t, 0, "run")
  /\ Goto(c, "enq")
  /\ UNCHANGED <<rq, sleepq, preempt, live, fault>>

\* Bug: a thread is suspended whatever its state.
SuspendUnchecked(c, t) ==
  /\ Caller(c, "suspend")
  /\ Load(c, t, 0, "run") /\ Goto(c, "susp")
  /\ UNCHANGED <<rq, th, sleepq, preempt, live, fault>>

\* kthread_suspend: the test, the dequeue, the store.
Suspend(c, t) ==
  /\ Caller(c, "suspend")
  /\ th[t].state = "READY"
  /\ Load(c, t, 0, "run") /\ Goto(c, "susp")
  /\ UNCHANGED <<rq, th, sleepq, preempt, live, fault>>

SuspendDequeue(c) ==
  /\ pc[c] = "susp"
  /\ rq' = Dequeue(rq, c, reg[c].t, th[reg[c].t].prio)
  /\ Goto(c, "susp2")
  /\ UNCHANGED <<th, sleepq, preempt, live, reg, fault>>

SuspendStore(c) ==
  /\ pc[c] = "susp2"
  /\ SetState(reg[c].t, "SUSPENDED")
  /\ Return(c, "run")
  /\ UNCHANGED <<rq, sleepq, preempt, live, fault>>

\* kthread_resume: the test, the store, scheduler_enqueue, the check.
Resume(c, t) ==
  /\ Caller(c, "suspend")
  /\ th[t].state = "SUSPENDED"
  /\ Load(c, t, 0, "rcheck") /\ Goto(c, "res")
  /\ UNCHANGED <<rq, th, sleepq, preempt, live, fault>>

ResumeStore(c) ==
  /\ pc[c] = "res"
  /\ SetState(reg[c].t, "READY")
  /\ Goto(c, "enq")
  /\ UNCHANGED <<rq, sleepq, preempt, live, reg, fault>>

\* kthread_set_priority: a READY thread is dequeued under its old priority
\* and enqueued under the new one.
SetPriority(c, t, p) ==
  /\ Caller(c, "setprio")
  /\ Load(c, t, p, "check")
  /\ IF th[t].state = "READY"
     THEN Goto(c, "pdeq") /\ UNCHANGED th
     ELSE Goto(c, "check") /\ th' = [th EXCEPT ![t].prio = p]
  /\ UNCHANGED <<rq, sleepq, preempt, live, fault>>

PrioDequeue(c) ==
  /\ pc[c] = "pdeq"
  /\ rq' = Dequeue(rq, c, reg[c].t, th[reg[c].t].prio)
  /\ Goto(c, "pset")
  /\ UNCHANGED <<th, sleepq, preempt, live, reg, fault>>

PrioStore(c) ==
  /\ pc[c] = "pset"
  /\ th' = [th EXCEPT ![reg[c].t].prio = reg[c].p]
  /\ Goto(c, "enq")
  /\ UNCHANGED <<rq, sleepq, preempt, live, reg, fault>>

\* The preemption check that ends kthread_resume and kthread_set_priority;
\* only the second looks at the thread's state.
Check(c) ==
  /\ pc[c] \in {"rcheck", "check"}
  /\ LET t == reg[c].t IN
     Return(c, IF /\ pc[c] = "rcheck" \/ th[t].state = "READY"
                  /\ th[t].prio > th[rq[c].current].prio
               THEN "sched" ELSE "run")
  /\ UNCHANGED <<rq, th, sleepq, preempt, live, fault>>

-----------------------------------------------------------------------------
(* Interrupts.                                                               *)

\* The wake-up loop of timer_interrupt_handler, over the threads that are due
WakeSleepers(q, c, due) ==
  FoldLeft(LAMBDA r, t : Enqueue(r, c, t, th[t].prio), q, due)

\* sched_rr_tick
SliceEnds(t) == th[t].rr /\ th[t].slice = 1

\* Bug: the slice is not reloaded, and decremented past zero.
TickSliceUnderflow(t) == IF th[t].rr THEN th[t].slice - 1 ELSE th[t].slice

TickSlice(t) == IF ~th[t].rr \/ th[t].slice = 0 THEN th[t].slice
                ELSE IF SliceEnds(t) THEN Slice ELSE th[t].slice - 1

\* Bug: the comparison of priorities is reversed.
OutranksReversed(n, cur) == th[n].prio < th[cur].prio

\* scheduler_tick: whether the best queued thread displaces the running one
Outranks(n, cur) == th[n].prio > th[cur].prio

\* Bug: scheduler_irq_exit_check without the preempt_is_disabled test
IrqExitUnguarded(c, resched) == resched

\* scheduler_irq_exit_check: whether the interrupt ends in schedule()
IrqExit(c, resched) == resched /\ preempt[c] = 0

\* timer_interrupt_handler (due: the sleepers whose time has come), with
\* scheduler_tick and the interrupt's exit.
TimerIrq(c) ==
  /\ pc[c] = "run"
  /\ LET cur == rq[c].current IN
     /\ th[cur].irqs /\ th[cur].state # "DEAD"
     /\ \E k \in 0 .. Len(sleepq[c]) :
          LET due  == SubSeq(sleepq[c], 1, k)
              q    == WakeSleepers(rq, c, due)
              n    == PickNext(q, c)
              ends == rq[c].need_resched \/ SliceEnds(cur)
              need == ends \/ Outranks(n, cur)
              go   == IrqExit(c, need) IN
          /\ sleepq' = [sleepq EXCEPT ![c] = SubSeq(@, k + 1, Len(@))]
          /\ th' = [t \in Thread |->
                      [th[t] EXCEPT !.state = IF t \in Range(due) THEN "READY" ELSE @,
                                    !.slice = IF t = cur THEN TickSlice(t) ELSE @]]
          /\ IF ~ends /\ n = BOGUS
             THEN rq' = q /\ fault' = "bogus_pick" /\ UNCHANGED pc
             ELSE /\ rq' = [q EXCEPT ![c].need_resched = need /\ ~go]
                  /\ Goto(c, IF go THEN "sched" ELSE "run")
                  /\ fault' = IF \E t \in Range(due) : Linked(rq, t)
                              THEN "double_link" ELSE fault
  /\ UNCHANGED <<preempt, live, reg>>

\* preempt_disable, around the per-CPU log buffer
PreemptDisable(c) ==
  /\ pc[c] = "run" /\ preempt[c] < PreemptMax
  /\ th[rq[c].current].state # "DEAD"
  /\ preempt' = [preempt EXCEPT ![c] = @ + 1]
  /\ UNCHANGED <<rq, th, sleepq, live, pc, reg, fault>>

\* Bug: preempt_enable without the check for a pending request
PreemptEnableForgets(c) ==
  /\ pc[c] = "run" /\ preempt[c] > 0
  /\ preempt' = [preempt EXCEPT ![c] = @ - 1]
  /\ UNCHANGED <<rq, th, sleepq, live, pc, reg, fault>>

\* preempt_enable: at zero a request that was held back is honoured.
PreemptEnable(c) ==
  /\ pc[c] = "run" /\ preempt[c] > 0
  /\ preempt' = [preempt EXCEPT ![c] = @ - 1]
  /\ LET go == preempt[c] = 1 /\ rq[c].need_resched IN
     /\ rq' = [rq EXCEPT ![c].need_resched = @ /\ ~go]
     /\ Goto(c, IF go THEN "sched" ELSE "run")
  /\ UNCHANGED <<th, sleepq, live, reg, fault>>

\* kthread_cleanup_dead_stacks, one slot of its loop, by the idle thread
Reap(c, t) ==
  /\ InIdle(c)
  /\ th[t].state = "DEAD" /\ th[t].stack
  /\ th' = [th EXCEPT ![t].stack = FALSE]
  /\ UNCHANGED <<rq, sleepq, preempt, live, pc, reg, fault>>

-----------------------------------------------------------------------------
(* smp.c: balancing by the idle threads, with interrupts on between steps.   *)

NrRunning(c) == rq[c].nr_running

MaxMigrate == 4   \* MAX_MIGRATE_PER_BALANCE

\* smp_affinity_allowed
Allowed(t, c) == th[t].mask = {} \/ c \in th[t].mask

\* remote_remove_thread and remote_add_thread, with both queues locked
MoveThread(t, s, d) == Enqueue(Dequeue(rq, s, t, th[t].prio), d, t, th[t].prio)

\* smp_load_balance up to its loop.  The loads that decide whether to balance,
\* from where to where and how much are read one after the other, some twice,
\* without a lock; what the other CPUs make of them meanwhile is left open.
BalanceChoose(c) ==
  /\ InIdle(c) /\ lb[rq[c].current].op = "none"
  /\ \E s, d \in CPU, n \in 1 .. MaxMigrate :
       /\ s # d
       /\ lb' = [lb EXCEPT ![rq[c].current] =
                  [op |-> "balance", src |-> s, dst |-> d, left |-> n, moved |-> FALSE]]
  /\ UNCHANGED <<core, ipi>>

\* One turn of the loop, under sched_lock_dual: remote_pick_highest looks
\* whether the list is empty, and any thread it finds is moved.
BalanceMove(c) ==
  /\ InIdle(c)
  /\ LET i == rq[c].current
         s == lb[i].src
         t == PickLocked(rq[s]) IN
     /\ lb[i].op = "balance"
     /\ IF lb[i].left = 0 \/ t \in {NULL, BOGUS} \/ ~Allowed(t, lb[i].dst)
        THEN /\ lb' = [lb EXCEPT ![i] = NoBalance]
             /\ ipi' = [ipi EXCEPT ![lb[i].dst] = @ \/ lb[i].moved]
             /\ UNCHANGED rq
        ELSE /\ rq' = MoveThread(t, s, lb[i].dst)
             /\ lb' = [lb EXCEPT ![i].left = @ - 1, ![i].moved = TRUE]
             /\ UNCHANGED ipi
  /\ UNCHANGED <<th, sleepq, preempt, live, pc, reg, fault, lost>>

\* smp_work_steal up to the lock: the own queue is empty; which other CPU has
\* the largest load is read as above.
StealChoose(c) ==
  /\ InIdle(c)
  /\ LET i == rq[c].current IN
     /\ lb[i].op = "none" /\ NrRunning(i) = 0
     /\ \E s \in CPU \ {i} :
          lb' = [lb EXCEPT ![i] = [NoBalance EXCEPT !.op = "steal", !.src = s]]
  /\ UNCHANGED <<core, ipi>>

\* smp_work_steal under both locks: the tail of the highest list.
Steal(c) ==
  /\ InIdle(c)
  /\ LET i == rq[c].current
         s == lb[i].src
         l == rq[s].queues[Highest(rq[s].bitmap)]
         go == /\ NrRunning(s) > Reserve /\ rq[s].bitmap # {} /\ l # <<>>
               /\ Allowed(Last(l), i) IN
     /\ lb[i].op = "steal"
     /\ lb' = [lb EXCEPT ![i] = NoBalance]
     /\ rq' = IF go THEN MoveThread(Last(l), s, i) ELSE rq
     /\ ipi' = [ipi EXCEPT ![s] = @ \/ go]
  /\ UNCHANGED <<th, sleepq, preempt, live, pc, reg, fault, lost>>

\* smp_migrate_thread: READY is tested, being queued on CPU s is not.
Migrate(c, t, s, d) ==
  /\ Caller(c, "migrate") /\ s # d
  /\ th[t].state = "READY" /\ Allowed(t, d)
  /\ rq' = MoveThread(t, s, d)
  /\ ipi' = [ipi EXCEPT ![d] = TRUE]
  /\ UNCHANGED <<th, sleepq, preempt, live, pc, reg, fault, lost, lb>>

\* smp_set_affinity
SetAffinity(c, t, m) ==
  /\ Caller(c, "affinity")
  /\ th' = [th EXCEPT ![t].mask = m]
  /\ UNCHANGED <<rq, sleepq, preempt, live, pc, reg, fault, lost, ipi, lb>>

\* ipi_handler(IPI_TYPE_RESCHEDULE) calls schedule() in the handler itself.
RescheduleIpi(c) ==
  /\ pc[c] = "run" /\ ipi[c]
  /\ th[rq[c].current].irqs /\ th[rq[c].current].state # "DEAD"
  /\ ipi' = [ipi EXCEPT ![c] = FALSE]
  /\ Goto(c, "sched")
  /\ UNCHANGED <<rq, th, sleepq, preempt, live, reg, fault, lost, lb>>

-----------------------------------------------------------------------------
\* The threads a call names: any, as thread_check_cap lets a kernel thread name
\* any, but for the slots of failed creates, whose identifier no create returned.
Named == Thread \ lost

CpuStep(c) ==
  \/ StartPick(c) \/ StartRun(c) \/ Schedule(c) \/ Switch(c)
  \/ CreateMark(c) \/ CreateInit(c) \/ EnqueueStep(c)
  \/ SuspendDequeue(c) \/ SuspendStore(c) \/ ResumeStore(c)
  \/ PrioDequeue(c) \/ PrioStore(c) \/ Check(c)

Call(c) ==
  \/ \E p \in Prio : CreateScan(c, p)
  \/ Exit(c) \/ Yield(c) \/ Block(c) \/ Sleep(c)
  \/ \E t \in Named : Wake(c, t) \/ Suspend(c, t) \/ Resume(c, t)
  \/ \E t \in Named, p \in Prio : SetPriority(c, t, p)

Background(c) ==
  \/ TimerIrq(c) \/ PreemptDisable(c) \/ PreemptEnable(c)
  \/ \E t \in Thread : Reap(c, t)

Smp(c) ==
  \/ BalanceChoose(c) \/ BalanceMove(c) \/ StealChoose(c) \/ Steal(c)
  \/ RescheduleIpi(c)
  \/ \E t \in Named, s, d \in CPU : Migrate(c, t, s, d)
  \/ \E t \in Named, m \in SUBSET CPU : SetAffinity(c, t, m)

Next ==
  \E c \in CPU :
    /\ \/ CreateNoStack(c)
       \/ (CpuStep(c) \/ Call(c) \/ Background(c)) /\ UNCHANGED lost
    /\ UNCHANGED <<ipi, lb>>

\* One CPU; several are SmpSpec.
Spec == Init /\ [][Next]_vars

\* Several CPUs that balance and interrupt each other, and overrun stacks.  A
\* behaviour ends where the code follows a corrupt list or nr_running passes
\* its bound.
SmpNext ==
  /\ fault = "none" /\ \A c \in CPU : NrRunning(c) <= NrMax
  /\ \/ Next
     \/ \E c \in CPU : Smp(c)
     \/ \E c \in CPU : GuardTrip(c) /\ UNCHANGED <<lost, ipi, lb>>

SmpSpec == Init /\ [][SmpNext]_vars

-----------------------------------------------------------------------------
(* What the runs check.                                                      *)

\* Every field holds a value of its C type.
TypeOK ==
  /\ rq \in [CPU -> [queues : [Prio -> Seq(Thread)], bitmap : SUBSET Prio,
                     nr_running : Nat, current : Thread \cup {NULL},
                     need_resched : BOOLEAN]]
  /\ th \in [Thread -> [state : States, prio : Prio, rr : BOOLEAN,
                        slice : 0 .. Slice, stack : BOOLEAN, irqs : BOOLEAN,
                        mask : SUBSET CPU]]
  /\ sleepq \in [CPU -> Seq(Thread)]
  /\ preempt \in [CPU -> 0 .. PreemptMax]
  /\ live \in [CPU -> Thread \cup {NULL}]
  /\ pc \in [CPU -> Labels]
  /\ reg \in [CPU -> [t : Thread \cup {NULL}, p : Prio, k : Labels]]
  /\ lost \subseteq Thread
  /\ fault \in {"none", "bogus_pick", "double_link"}
  /\ ipi \in [CPU -> BOOLEAN]
  /\ lb \in [CPU -> [op : {"none", "balance", "steal"}, src : CPU, dst : CPU,
                     left : 0 .. MaxMigrate, moved : BOOLEAN]]

\* A thread that an operation has taken off, or not yet put on, a queue
InFlight(t) ==
  \E c \in CPU : reg[c].t = t /\ pc[c] \in {"init", "enq", "susp2", "pset"}

\* An idle thread that waits for its CPU to start
Parked(t) == IsIdle(t) /\ t # 0 /\ pc[t] \in {"boot", "start"}

\* The ready queue and the thread states agree: the READY threads are exactly
\* the queued ones, each once and under its own priority, and no operation
\* (scheduler_enqueue/dequeue, schedule, suspend, resume, set_priority, the
\* timer's wake-up loop) loses a thread or queues one twice.  A create that
\* fails for want of a stack loses its slot and disturbs nothing else.
ReadyIffQueued ==
  /\ \A t \in Thread :
       th[t].state = "READY" /\ ~InFlight(t) /\ ~Parked(t) /\ t \notin lost => Linked(rq, t)
  /\ \A c \in CPU, p \in Prio :
       \A i, j \in 1 .. Len(rq[c].queues[p]) :
         LET t == rq[c].queues[p][i] IN
         /\ th[t].state = "READY" /\ th[t].prio = p
         /\ rq[c].queues[p][j] = t => i = j

\* The bitmap that pick_next searches and the count that the load balancer
\* reads describe the lists exactly, so pick_next never follows an empty list
\* head (scheduler.c:666).
IndexExact ==
  /\ fault = "none"
  /\ \A c \in CPU :
       /\ rq[c].bitmap = {p \in Prio : rq[c].queues[p] # <<>>}
       /\ rq[c].nr_running =
            Cardinality({t \in Thread : \E p \in Prio : t \in Range(rq[c].queues[p])})

\* Whoever runs is RUNNING and nobody else is: a CPU back in thread code runs
\* a RUNNING thread on that thread's own stack, and a RUNNING thread is the
\* current_thread of one CPU (schedule, scheduler_load_current).
OneRunner ==
  /\ \A t \in Thread : th[t].state = "RUNNING" => \E c \in CPU : rq[c].current = t
  /\ \A c \in CPU : pc[c] = "run" =>
       live[c] = rq[c].current /\ th[live[c]].state = "RUNNING"
  /\ \A c, d \in CPU : rq[c].current = rq[d].current /\ rq[c].current # NULL => c = d

\* The stack a CPU executes on is never reclaimed under it: kthread_exit leaves
\* its own stack to idle (thread.c:255).
LiveStackKept == \A c \in CPU : live[c] # NULL => th[live[c]].stack

\* A reschedule request outlives the interrupt that made it only while
\* preemption is off, and preempt_enable then honours it (scheduler.c:415).
NoStaleRequest ==
  \A c \in CPU : rq[c].need_resched => preempt[c] > 0 /\ pc[c] = "run"

\* With preempt_count above zero the CPU never changes threads (smp.h:147).
PreemptHeld ==
  [][\A c \in CPU : preempt[c] > 0 => rq'[c].current = rq[c].current]_vars

\* After a tick that preemption control does not hold back, the CPU is on its
\* way into schedule() or runs a thread that no queued thread outranks
\* (scheduler_tick, scheduler_irq_exit_check).
TickPreempts ==
  [][\A c \in CPU : TimerIrq(c) /\ preempt[c] = 0 =>
       \/ pc'[c] = "sched"
       \/ \A p \in Prio : rq'[c].queues[p] # <<>> => p <= th[rq[c].current].prio]_vars
=============================================================================
