----------------------------- MODULE MutexProofs -----------------------------
(***************************************************************************)
(* On one CPU the mutex excludes and loses no waiter, for any number of     *)
(* threads and with owners that lock twice.                                 *)
(***************************************************************************)
EXTENDS Mutex, SequenceTheorems, TLAPS

\* One call at a time is between two of its accesses.
OneCall == \A t, u \in Thread : pc[t] \notin Rest /\ pc[u] \notin Rest => t = u

\* What a call has tested is still so when it acts on it.
TestsFresh ==
  \A t \in Thread :
    /\ pc[t] \in {"take", "relock"} => owner = 0
    /\ pc[t] = "queue" => owner # 0
    /\ Holds(t) => owner = t

\* The lock word: free, or held once.
Word ==
  /\ state = "UNLOCKED" <=> owner = 0
  /\ owner = 0 => wq = <<>>
  /\ count = IF owner = 0 THEN 0 ELSE 1

\* Who is on the queue: each waiter once, and nobody but waiters.
Queue ==
  /\ \A i, j \in 1 .. Len(wq) : wq[i] = wq[j] => i = j
  /\ \A i \in 1 .. Len(wq) :
       \/ pc[wq[i]] = "sleep"
       \/ pc[wq[i]] = "asleep" /\ run[wq[i]] = "BLOCKED"
  /\ \A t \in Thread :
       pc[t] = "sleep" \/ run[t] = "BLOCKED" => \E i \in 1 .. Len(wq) : wq[i] = t

\* A thread that was woken has been handed the mutex; only sleepers are blocked.
Handed ==
  \A t \in Thread :
    /\ run[t] = "BLOCKED" => pc[t] = "asleep"
    /\ pc[t] = "asleep" /\ run[t] = "READY" => owner = t

IInv == TypeOK /\ OneCall /\ TestsFresh /\ Word /\ Queue /\ Handed

\* mutex_init establishes the invariant.
LEMMA Start == Init => IInv
<1> SUFFICES ASSUME Init PROVE IInv
  BY Zenon
<1>1. wq = <<>> /\ wq \in Seq(Thread) /\ Len(wq) = 0
  BY EmptySeq, Zenon DEF Init
<1>2. TypeOK
  BY <1>1, MutexAssumption DEF Init, TypeOK, Labels, Rest
<1> QED
  BY <1>1, <1>2 DEF Init, IInv, OneCall, TestsFresh, Word, Queue, Handed, Holds, Rest

\* A step that changes nothing but where thread t is.
LEMMA Moves ==
    ASSUME IInv, Serial, NEW t \in Thread, NEW l \in Labels, Goto(t, l),
           UNCHANGED <<owner, state, count, wq, run>>,
           \/ \A u \in Thread : pc[u] \in Rest
           \/ pc[t] \notin Rest
           \/ l \in Rest,
           l \in {"take", "relock"} => owner = 0,
           l = "queue" => owner # 0,
           l \in {"in", "give"} => owner = t,
           l \notin {"sleep", "asleep"},
           pc[t] = "sleep" => FALSE,
           run[t] = "READY"
    PROVE  IInv'
<1> USE DEF Goto, IInv
<1>1. TypeOK'
  BY Zenon DEF TypeOK
<1>2. \A u \in Thread : pc'[u] = IF u = t THEN l ELSE pc[u]
  BY Zenon DEF TypeOK
<1>3. OneCall'
  BY <1>2, Zenon DEF OneCall
<1>4. TestsFresh'
  BY <1>2, Zenon DEF TestsFresh, Holds
<1>5. Word'
  BY Zenon DEF Word
<1>6. ASSUME NEW i \in 1 .. Len(wq) PROVE wq[i] \in Thread /\ wq[i] # t
  <2>1. wq[i] \in Thread
    BY ElementOfSeq, Zenon DEF TypeOK
  <2> QED
    BY <2>1, Zenon DEF Queue
<1>7. Queue'
  BY <1>2, <1>6 DEF Queue
<1>8. Handed'
  BY <1>2, Zenon DEF Handed
<1> QED
  BY <1>1, <1>3, <1>4, <1>5, <1>7, <1>8, Zenon

\* Every step of every call keeps the invariant when calls exclude each other.
LEMMA Preserved == Serial /\ IInv /\ [Next]_vars => IInv'
<1> SUFFICES ASSUME Serial, IInv, [Next]_vars PROVE IInv'
  BY Zenon
<1> USE MutexAssumption
<1>0. /\ wq \in Seq(Thread) /\ Len(wq) \in Nat
      /\ \A i \in 1 .. Len(wq) : wq[i] \in Thread
      /\ TypeOK
  <2>1. wq \in Seq(Thread)
    BY Zenon DEF IInv, TypeOK
  <2> QED
    BY <2>1, LenProperties, ElementOfSeq, Zenon DEF IInv
<1>1. ASSUME NEW t \in Thread, Lock(t) PROVE IInv'
  <2>1. run[t] = "READY" /\ pc[t] # "sleep" /\ pc[t] # "asleep"
    BY <1>0, <1>1, Zenon DEF Lock, Enter, IInv, Handed, TypeOK
  <2>2. (\A u \in Thread : pc[u] \in Rest) \/ pc[t] \notin Rest
    BY <1>1, Zenon DEF Lock, Enter, Rest
  <2>3. CASE state = "UNLOCKED"
    BY <1>1, <2>1, <2>2, <2>3, Moves, Zenon DEF Lock, IInv, Word, Labels, Rest
  <2>4. CASE state # "UNLOCKED"
    BY <1>1, <2>1, <2>2, <2>4, Moves, Zenon DEF Lock, IInv, Word, Labels, Rest
  <2> QED
    BY <2>3, <2>4, Zenon
<1>2. ASSUME NEW t \in Thread, TryLock(t) PROVE IInv'
  BY <1>2, Moves, Zenon DEF TryLock, Enter, IInv, Word, Labels, Rest
<1>3. ASSUME NEW t \in Thread, TimedLock(t) PROVE IInv'
  BY <1>3, Moves, Zenon DEF TimedLock, Enter, IInv, Labels, Rest
<1>5. ASSUME NEW t \in Thread, Unlock(t) PROVE IInv'
  BY <1>5, Moves, Zenon DEF Unlock, Enter, IInv, Labels, Rest
<1>6. ASSUME NEW t \in Thread, SpinEnds(t) PROVE IInv'
  <2>1. run[t] = "READY" /\ owner = 0
    BY <1>0, <1>6, Zenon DEF SpinEnds, IInv, Handed, Word, TypeOK
  <2> QED
    BY <1>6, <2>1, Moves, Zenon DEF SpinEnds, Labels, Rest
<1>7. ASSUME NEW t \in Thread, Awake(t) PROVE IInv'
  BY <1>7, Moves, Zenon DEF Awake, IInv, Handed, Labels, Rest
<1>8. ASSUME NEW t \in Thread, Take(t) PROVE IInv'
  <2>1. owner = 0 /\ wq = <<>> /\ count = 0 /\ run[t] = "READY"
    BY <1>0, <1>8, Zenon DEF Take, IInv, TestsFresh, Word, Handed, TypeOK
  <2>2. \A u \in Thread : pc'[u] = IF u = t THEN "in" ELSE pc[u]
    BY <1>0, <1>8, Zenon DEF Take, Goto, TypeOK
  <2>3. TypeOK'
    BY <1>0, <1>8, <2>1 DEF Take, Goto, TypeOK, Labels, Rest, Thread
  <2>4. OneCall' /\ TestsFresh'
    BY <1>8, <2>1, <2>2 DEF Take, IInv, OneCall, TestsFresh, Holds, Rest, Thread
  <2>5. Word'
    BY <1>8, <2>1 DEF Take, Word, Thread
  <2>6. Queue'
    BY <1>0, <1>8, <2>1, <2>2 DEF Take, IInv, Queue
  <2>7. Handed'
    BY <1>8, <2>1, <2>2 DEF Take, IInv, Handed, Thread
  <2> QED
    BY <2>3, <2>4, <2>5, <2>6, <2>7, Zenon DEF IInv
<1>9. ASSUME NEW t \in Thread, Sleep(t) PROVE IInv'
  <2>1. \A u \in Thread : /\ pc'[u] = IF u = t THEN "asleep" ELSE pc[u]
                          /\ run'[u] = IF u = t THEN "BLOCKED" ELSE run[u]
    BY <1>0, <1>9, Zenon DEF Sleep, Goto, TypeOK
  <2>2. TypeOK' /\ Word'
    BY <1>0, <1>9, Zenon DEF Sleep, Goto, TypeOK, IInv, Word, Labels, Rest
  <2>3. OneCall' /\ TestsFresh' /\ Handed'
    BY <1>9, <2>1 DEF Sleep, IInv, OneCall, TestsFresh, Handed, Holds, Rest
  <2>4. Queue'
    BY <1>0, <1>9, <2>1 DEF Sleep, IInv, Queue
  <2> QED
    BY <2>2, <2>3, <2>4, Zenon DEF IInv
<1>10. ASSUME NEW t \in Thread, Enqueue(t) PROVE IInv'
  <2>1. /\ \A u \in Thread : pc'[u] = IF u = t THEN "sleep" ELSE pc[u]
        /\ run' = run /\ owner' = owner /\ count' = count /\ wq' = <<t>> \o wq
        /\ pc[t] = "queue" /\ owner # 0 /\ state' = "CONTENDED"
    BY <1>0, <1>10, Zenon DEF Enqueue, Goto, TypeOK, IInv, TestsFresh
  <2>2. /\ wq' \in Seq(Thread) /\ Len(wq') = Len(wq) + 1
        /\ \A i \in 1 .. Len(wq) + 1 : wq'[i] = IF i = 1 THEN t ELSE wq[i - 1]
    <3>1. <<t>> \in Seq(Thread) /\ Len(<<t>>) = 1 /\ <<t>>[1] = t
      OBVIOUS
    <3>2. /\ <<t>> \o wq \in Seq(Thread)
          /\ Len(<<t>> \o wq) = Len(<<t>>) + Len(wq)
          /\ \A i \in 1 .. Len(<<t>>) + Len(wq) : (<<t>> \o wq)[i] =
               IF i <= Len(<<t>>) THEN <<t>>[i] ELSE wq[i - Len(<<t>>)]
      BY <1>0, <3>1, ConcatProperties, Zenon
    <3> QED
      BY <1>0, <2>1, <3>1, <3>2
  <2>3. TypeOK' /\ Word'
    BY <1>0, <1>10, <2>1, <2>2, Zenon DEF Enqueue, Goto, TypeOK, IInv, Word, Labels, Rest
  <2>4. OneCall' /\ TestsFresh' /\ Handed'
    BY <1>10, <2>1, Zenon DEF IInv, OneCall, TestsFresh, Handed, Holds, Rest
  <2>5. \A i \in 1 .. Len(wq) : wq[i] # t
    BY <2>1, Zenon DEF IInv, Queue
  <2>6. \A i, j \in 1 .. Len(wq') : wq'[i] = wq'[j] => i = j
    <3> TAKE i, j \in 1 .. Len(wq')
    <3>1. i # 1 => i - 1 \in 1 .. Len(wq) /\ wq'[i] = wq[i - 1] /\ wq'[i] # t
      BY <1>0, <2>2, <2>5
    <3>2. j # 1 => j - 1 \in 1 .. Len(wq) /\ wq'[j] = wq[j - 1] /\ wq'[j] # t
      BY <1>0, <2>2, <2>5
    <3>3. wq'[1] = t
      BY <1>0, <2>2
    <3>4. i # 1 /\ j # 1 /\ wq'[i] = wq'[j] => i - 1 = j - 1
      BY <3>1, <3>2 DEF IInv, Queue
    <3> QED
      BY <1>0, <2>2, <3>1, <3>2, <3>3, <3>4
  <2>7. \A i \in 1 .. Len(wq') :
          \/ pc'[wq'[i]] = "sleep"
          \/ pc'[wq'[i]] = "asleep" /\ run'[wq'[i]] = "BLOCKED"
    <3> TAKE i \in 1 .. Len(wq')
    <3>1. CASE i = 1
      BY <1>0, <2>1, <2>2, <3>1, Zenon
    <3>2. CASE i # 1
      <4>1. i - 1 \in 1 .. Len(wq) /\ wq'[i] = wq[i - 1]
        BY <1>0, <2>2, <3>2
      <4>2. /\ wq[i - 1] \in Thread /\ wq[i - 1] # t
            /\ \/ pc[wq[i - 1]] = "sleep"
               \/ pc[wq[i - 1]] = "asleep" /\ run[wq[i - 1]] = "BLOCKED"
        BY <1>0, <2>5, <4>1, Zenon DEF IInv, Queue
      <4> QED
        BY <2>1, <4>1, <4>2, Zenon
    <3> QED
      BY <3>1, <3>2, Zenon
  <2>8. ASSUME NEW u \in Thread, pc'[u] = "sleep" \/ run'[u] = "BLOCKED"
        PROVE  \E i \in 1 .. Len(wq') : wq'[i] = u
    <3>1. CASE u = t
      BY <1>0, <2>2, <3>1
    <3>2. CASE u # t
      <4>1. PICK i \in 1 .. Len(wq) : wq[i] = u
        BY <2>1, <2>8, <3>2, Zenon DEF IInv, Queue
      <4>2. i + 1 \in 1 .. Len(wq') /\ wq'[i + 1] = u
        BY <1>0, <2>2, <4>1
      <4> QED
        BY <4>2, Zenon
    <3> QED
      BY <3>1, <3>2, Zenon
  <2> QED
    BY <2>3, <2>4, <2>6, <2>7, <2>8, Zenon DEF IInv, Queue
<1>11. ASSUME NEW t \in Thread, Give(t) PROVE IInv'
  <2>1. /\ \A u \in Thread : pc'[u] = IF u = t THEN "out" ELSE pc[u]
        /\ pc[t] = "give" /\ owner = t /\ owner # 0 /\ run[t] = "READY"
    BY <1>0, <1>11 DEF Give, Goto, TypeOK, IInv, TestsFresh, Holds, Handed, Thread
  <2>2. \A u \in Thread : u # t => pc[u] \in Rest \ {"in"}
    BY <2>1, Zenon DEF IInv, OneCall, TestsFresh, Holds, Rest
  <2>3. CASE wq = <<>>
    <3>1. /\ owner' = 0 /\ state' = "UNLOCKED" /\ count' = 0 /\ wq' = wq /\ run' = run
      BY <1>11, <2>1, <2>3 DEF Give, IInv, Word
    <3>2. TypeOK' /\ Word'
      BY <1>0, <1>11, <2>3, <3>1 DEF Give, Goto, TypeOK, Word, Labels, Rest
    <3>3. OneCall' /\ TestsFresh'
      BY <2>1, <2>2, Zenon DEF OneCall, TestsFresh, Holds, Rest
    <3>4. Queue'
      BY <1>0, <2>1, <3>1 DEF IInv, Queue
    <3>5. Handed'
      BY <1>0, <2>1, <2>2, <3>1, Zenon DEF IInv, Handed, TypeOK
    <3> QED
      BY <3>2, <3>3, <3>4, <3>5, Zenon DEF IInv
  <2>4. CASE wq # <<>>
    <3> DEFINE n == Head(wq)
    <3>1. /\ owner' = n /\ wq' = Tail(wq) /\ state' = state /\ count' = count
          /\ run' = [run EXCEPT ![n] = "READY"]
      BY <1>11, <2>4, Zenon DEF Give
    <3>2. /\ Len(wq) >= 1 /\ n = wq[1] /\ n \in Thread
          /\ wq' \in Seq(Thread) /\ Len(wq') = Len(wq) - 1
          /\ \A i \in 1 .. Len(wq) - 1 : wq'[i] = wq[i + 1]
      BY <1>0, <2>4, <3>1, HeadTailProperties
    <3> HIDE DEF n
    <3>3. n # t /\ pc[n] = "asleep"
      BY <1>0, <2>1, <2>2, <3>2 DEF IInv, Queue, Rest
    <3>4. \A u \in Thread : run'[u] = IF u = n THEN "READY" ELSE run[u]
      BY <1>0, <3>1, <3>2, Zenon DEF TypeOK
    <3>5. TypeOK' /\ Word'
      BY <1>0, <1>11, <2>1, <3>1, <3>2 DEF Give, Goto, TypeOK, IInv, Word, Labels, Rest, Thread
    <3>6. OneCall' /\ TestsFresh'
      BY <2>1, <2>2, Zenon DEF OneCall, TestsFresh, Holds, Rest
    <3>7. \A i \in 1 .. Len(wq') : i + 1 \in 1 .. Len(wq) /\ wq'[i] = wq[i + 1] /\ wq'[i] # n
      <4>1. \A i \in 1 .. Len(wq') : i + 1 \in 1 .. Len(wq) /\ wq'[i] = wq[i + 1] /\ i + 1 # 1
        BY <1>0, <3>2
      <4>2. \A i, j \in 1 .. Len(wq) : wq[i] = wq[j] => i = j
        BY Zenon DEF IInv, Queue
      <4>3. 1 \in 1 .. Len(wq) /\ n = wq[1]
        BY <1>0, <3>2
      <4> QED
        BY <4>1, <4>2, <4>3, Zenon
    <3>8. Queue'
      <4>1. \A i, j \in 1 .. Len(wq') : wq'[i] = wq'[j] => i = j
        <5> TAKE i, j \in 1 .. Len(wq')
        <5>1. wq'[i] = wq'[j] => i + 1 = j + 1
          <6>1. \A x, y \in 1 .. Len(wq) : wq[x] = wq[y] => x = y
            BY Zenon DEF IInv, Queue
          <6> QED
            BY <3>7, <6>1, Zenon
        <5>2. i \in Int /\ j \in Int
          BY <3>2
        <5> QED
          BY <5>1, <5>2
      <4>2. \A i \in 1 .. Len(wq') :
              \/ pc'[wq'[i]] = "sleep"
              \/ pc'[wq'[i]] = "asleep" /\ run'[wq'[i]] = "BLOCKED"
        BY <1>0, <2>1, <3>4, <3>7 DEF IInv, Queue
      <4>3. ASSUME NEW u \in Thread, pc'[u] = "sleep" \/ run'[u] = "BLOCKED"
            PROVE  \E i \in 1 .. Len(wq') : wq'[i] = u
        <5>1. u # n /\ (pc[u] = "sleep" \/ run[u] = "BLOCKED")
          BY <2>1, <3>3, <3>4, <4>3, Zenon
        <5>2. PICK i \in 1 .. Len(wq) : wq[i] = u
          BY <5>1, Zenon DEF IInv, Queue
        <5>3. i - 1 \in 1 .. Len(wq') /\ wq'[i - 1] = u
          BY <1>0, <3>2, <5>1, <5>2
        <5> QED
          BY <5>3, Zenon
      <4> QED
        BY <4>1, <4>2, <4>3, Zenon DEF Queue
    <3>9. Handed'
      BY <1>0, <2>1, <2>2, <3>1, <3>3, <3>4, Zenon DEF IInv, Handed
    <3> QED
      BY <3>5, <3>6, <3>8, <3>9, Zenon DEF IInv
  <2> QED
    BY <2>3, <2>4, Zenon
<1>12. CASE UNCHANGED vars
  BY <1>12 DEF vars, IInv, TypeOK, OneCall, TestsFresh, Word, Queue, Handed, Holds
<1> QED
  BY <1>1, <1>2, <1>3, <1>5, <1>6, <1>7, <1>8, <1>9, <1>10, <1>11, <1>12, Zenon DEF Next, Step

\* On one CPU the invariant holds throughout.
LEMMA Invariant == ASSUME Serial PROVE Spec => []IInv
<1>1. IInv /\ [Next]_vars => IInv'
  BY Preserved, Zenon
<1> QED
  BY <1>1, Start, PTL DEF Spec

\* On one CPU mutex_lock, mutex_try_lock and mutex_lock_timeout report success
\* to one thread at a time, and owner_tid names it.
THEOREM OneCpuExclusion == ASSUME Serial PROVE Spec => []MutualExclusion
<1>1. IInv => MutualExclusion
  BY Zenon DEF IInv, TestsFresh, MutualExclusion
<1> QED
  BY <1>1, Invariant, PTL

\* On one CPU a blocked thread is queued exactly once and never waits for a
\* free mutex, so that mutex_unlock will find it.
THEOREM OneCpuNoLostWaiter == ASSUME Serial PROVE Spec => []NoLostWaiter
<1>1. IInv => NoLostWaiter
  BY DEF IInv, Word, Queue, NoLostWaiter
<1> QED
  BY <1>1, Invariant, PTL
=============================================================================
