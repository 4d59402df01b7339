--------------------------- MODULE TicketLockProofs ---------------------------
(***************************************************************************)
(* The ticket lock, for any number of CPUs smaller than the number of      *)
(* ticket values: mutual exclusion, and that it implements FifoLock.       *)
(***************************************************************************)
EXTENDS TicketLock, Sequences, FiniteSetTheorems, TLAPS

\* The uint32_t increment of a ticket is a ticket, and wraps only at the top.
LEMMA SuccTicket ==
    ASSUME NEW t \in Ticket
    PROVE  /\ Succ(t) \in Ticket
           /\ Succ(t) = IF t + 1 = Modulus THEN 0 ELSE t + 1
  BY TicketAssumption DEF Ticket, Succ

\* Each step of the lock code keeps the lock word and the locals well typed.
LEMMA TypeStep == TypeOK /\ [Next]_vars => TypeOK'
<1> SUFFICES ASSUME TypeOK, [Next]_vars PROVE TypeOK'
  BY Zenon
<1> USE DEF TypeOK, Labels, Goto
<1>1. Succ(next_ticket) \in Ticket
  BY SuccTicket, Zenon
<1>2. ASSUME NEW p \in Proc, Issue(p)
      PROVE  next_ticket' \in Ticket /\ lapse' \in [Proc -> Ticket]
  <2>1. next_ticket' \in Ticket
    BY <1>1, <1>2, Zenon DEF Issue
  <2>2. 0 \in Ticket
    BY TicketAssumption DEF Ticket
  <2>3. ASSUME NEW q \in Proc \ {p}, InTry(q) PROVE lapse[q] + 1 \in Ticket
    BY <1>2, <2>3, TicketAssumption DEF Issue, Ticket
  <2> QED
    BY <1>2, <2>1, <2>2, <2>3, Zenon DEF Issue
<1>3. ASSUME NEW p \in Proc, FetchNext(p) PROVE TypeOK'
  BY <1>2, <1>3, Zenon DEF FetchNext
<1>4. ASSUME NEW p \in Proc, Spin(p) PROVE TypeOK'
  BY <1>4, Zenon DEF Spin
<1>5. ASSUME NEW p \in Proc, Wfe(p) PROVE TypeOK'
  BY <1>5, Zenon DEF Wfe
<1>6. ASSUME NEW p \in Proc, ReleaseLoad(p) PROVE TypeOK'
  BY <1>6, Zenon DEF ReleaseLoad
<1>7. ASSUME NEW p \in Proc, ReleaseStore(p) PROVE TypeOK'
  BY <1>7, SuccTicket, Zenon DEF ReleaseStore
<1>8. ASSUME NEW p \in Proc, Sev(p) PROVE TypeOK'
  BY <1>8, Zenon DEF Sev
<1>9. ASSUME NEW p \in Proc, TryLoad(p) PROVE TypeOK'
  BY <1>9, TicketAssumption DEF TryLoad, Ticket
<1>10. ASSUME NEW p \in Proc, TryServing(p) PROVE TypeOK'
  BY <1>10, Zenon DEF TryServing
<1>11. ASSUME NEW p \in Proc, TryCas(p) PROVE TypeOK'
  BY <1>2, <1>11, Zenon DEF TryCas
<1>12. CASE UNCHANGED vars
  BY <1>12, Zenon DEF vars
<1>13. CASE Tick
  BY <1>13, Zenon DEF Tick
<1> QED
  BY <1>3, <1>4, <1>5, <1>6, <1>7, <1>8, <1>9, <1>10, <1>11, <1>12, <1>13, Zenon DEF Next, Step

\* The active CPUs are a finite set; one that is not active leaves room.
LEMMA ActiveCount ==
    /\ IsFiniteSet(Active)
    /\ Cardinality(Active) \in Nat
    /\ \A p \in Proc \ Active :
          /\ Cardinality(Active \cup {p}) = Cardinality(Active) + 1
          /\ Cardinality(Active) + 1 < Modulus
    /\ \A p \in Active :
          /\ Cardinality(Active \ {p}) = Cardinality(Active) - 1
          /\ Cardinality(Active) > 0
    /\ Cardinality(Active) = 0 => Active = {}
<1>1. IsFiniteSet(Active) /\ Cardinality(Active) \in Nat
  BY TicketAssumption, FS_Subset, FS_CardinalityType, Zenon DEF Active
<1>2. ASSUME NEW p \in Proc \ Active
      PROVE  /\ Cardinality(Active \cup {p}) = Cardinality(Active) + 1
             /\ Cardinality(Active) + 1 < Modulus
  <2>1. Cardinality(Active \cup {p}) = Cardinality(Active) + 1
    BY <1>1, FS_AddElement, Zenon
  <2>2. Active \cup {p} \subseteq Proc
    BY Zenon DEF Active
  <2>3. Cardinality(Active \cup {p}) <= Cardinality(Proc)
    BY <2>2, TicketAssumption, FS_Subset, Zenon
  <2>4. Cardinality(Proc) \in Nat
    BY TicketAssumption, FS_CardinalityType, Zenon
  <2> QED
    BY <1>1, <2>1, <2>3, <2>4, TicketAssumption
<1>3. ASSUME NEW p \in Active
      PROVE  /\ Cardinality(Active \ {p}) = Cardinality(Active) - 1
             /\ Cardinality(Active) > 0
  BY <1>1, FS_RemoveElement, FS_EmptySet
<1>4. Cardinality(Active) = 0 => Active = {}
  BY <1>1, FS_EmptySet, Zenon
<1> QED
  BY <1>1, <1>2, <1>3, <1>4, Zenon

\* Issuing a ticket moves next_ticket one further from serving_ticket, as long
\* as the counter does not lap it.
LEMMA DistSucc ==
    ASSUME TypeOK, Dist(next_ticket) + 1 < Modulus
    PROVE  Dist(Succ(next_ticket)) = Dist(next_ticket) + 1
<1>1. /\ next_ticket \in Ticket /\ serving_ticket \in Ticket
      /\ Succ(next_ticket) = IF next_ticket + 1 = Modulus THEN 0 ELSE next_ticket + 1
  BY SuccTicket, Zenon DEF TypeOK
<1> QED
  BY <1>1, TicketAssumption DEF Dist, Ticket

\* A CPU that draws a ticket joins the line at its end.
LEMMA Enter ==
    ASSUME TypeOK, TicketDiscipline,
           NEW p \in Proc, p \notin Active,
           NEW l \in {"spin", "held"}, l = "held" => serving_ticket = next_ticket,
           Issue(p), reg' = [reg EXCEPT ![p] = next_ticket],
           pc' = [pc EXCEPT ![p] = l], serving_ticket' = serving_ticket
    PROVE  TicketDiscipline'
<1>1. Active' = Active \cup {p}
  BY Zenon DEF Active, TypeOK
<1>2. Cardinality(Active') = Cardinality(Active) + 1 /\ Cardinality(Active) + 1 < Modulus
  BY <1>1, ActiveCount, Zenon
<1>3. next_ticket' = Succ(next_ticket) /\ Dist(next_ticket)' = Dist(next_ticket) + 1
  <2>1. Dist(Succ(next_ticket)) = Dist(next_ticket) + 1
    BY <1>2, DistSucc, Zenon DEF TicketDiscipline, TicketsCounted
  <2> QED
    BY <2>1, Zenon DEF Issue, Dist
<1>5. TicketsInRange'
  <2> SUFFICES ASSUME NEW q \in Active' PROVE (Dist(reg[q]) < Dist(next_ticket))'
    BY Zenon DEF TicketsInRange
  <2>1. Dist(reg[q])' = Dist(reg'[q])
    BY DEF Dist
  <2>2. Dist(next_ticket) \in Nat
    BY TicketAssumption DEF TypeOK, Ticket, Dist
  <2>3. CASE q = p
    BY <1>3, <2>1, <2>2, <2>3 DEF TypeOK
  <2>4. CASE q # p
    <3>1. q \in Active /\ reg'[q] = reg[q] /\ q \in Proc
      BY <1>1, <2>4, Zenon DEF TypeOK, Active
    <3>2. Dist(reg[q]) < Dist(next_ticket)
      BY <3>1, Zenon DEF TicketDiscipline, TicketsInRange
    <3>3. Dist(reg[q]) \in Nat
      BY <3>1, TicketAssumption DEF TypeOK, Ticket, Dist
    <3> QED
      BY <1>3, <2>1, <2>2, <3>1, <3>2, <3>3
  <2> QED
    BY <2>3, <2>4, Zenon
<1>6. TicketsDistinct'
  <2>1. \A q \in Active : reg[q] # next_ticket
    <3> SUFFICES ASSUME NEW q \in Active, reg[q] = next_ticket PROVE FALSE
      BY Zenon
    <3>1. Dist(next_ticket) < Dist(next_ticket) /\ Dist(next_ticket) \in Int
      BY TicketAssumption DEF TicketDiscipline, TicketsInRange, TypeOK, Ticket, Dist
    <3> QED
      BY <3>1
  <2> QED
    BY <1>1, <2>1, Zenon DEF TicketDiscipline, TicketsDistinct, TypeOK, Active
<1>7. TicketsCounted'
  BY <1>2, <1>3, Zenon DEF TicketDiscipline, TicketsCounted
<1>8. OwnerServed'
  BY Zenon DEF TicketDiscipline, OwnerServed, Owner, TypeOK
<1>9. TryWindow'
  <2> SUFFICES ASSUME NEW q \in Proc, InTry(q)'
               PROVE  /\ \/ next_ticket' = reg'[q] + lapse'[q]
                         \/ next_ticket' = reg'[q] + lapse'[q] - Modulus
                      /\ lapse'[q] # 0
    BY Zenon DEF TryWindow, InTry
  <2>1. q # p
    BY Zenon DEF InTry, TypeOK
  <2>2. InTry(q) /\ lapse'[q] = lapse[q] + 1 /\ reg'[q] = reg[q]
    BY <2>1, Zenon DEF InTry, TypeOK, Issue
  <2>3. lapse[q] + 1 < Modulus
    BY <2>1, <2>2, Zenon DEF Issue
  <2>4. \/ next_ticket = reg[q] + lapse[q]
        \/ next_ticket = reg[q] + lapse[q] - Modulus
    BY <2>2, Zenon DEF TicketDiscipline, TryWindow
  <2>5. next_ticket' = IF next_ticket + 1 = Modulus THEN 0 ELSE next_ticket + 1
    BY <1>3, SuccTicket, Zenon DEF TypeOK
  <2>6. /\ next_ticket \in Ticket /\ reg[q] \in Ticket /\ lapse[q] \in Ticket
    BY Zenon DEF TypeOK
  <2> QED
    BY <2>2, <2>3, <2>4, <2>5, <2>6, TicketAssumption DEF Ticket
<1> QED
  BY <1>5, <1>6, <1>7, <1>8, <1>9, Zenon DEF TicketDiscipline

\* The owner's store lets the next ticket in: every other ticket comes one
\* closer to being served.
LEMMA Exit ==
    ASSUME TypeOK, TicketDiscipline, NEW p \in Proc, ReleaseStore(p)
    PROVE  TicketDiscipline'
<1> USE DEF Goto
<1>1. p \in Active /\ reg[p] = serving_ticket
  BY Zenon DEF ReleaseStore, Active, TicketDiscipline, OwnerServed, Owner
<1>2. Active' = Active \ {p}
  BY Zenon DEF ReleaseStore, Active, TypeOK
<1>3. Cardinality(Active') = Cardinality(Active) - 1
  BY <1>1, <1>2, ActiveCount, Zenon
<1>4. Dist(next_ticket) > 0 /\ next_ticket # serving_ticket
  BY <1>1, ActiveCount, TicketAssumption
     DEF TicketDiscipline, TicketsCounted, Dist, TypeOK, Ticket
<1>5. /\ serving_ticket' = IF serving_ticket + 1 = Modulus THEN 0 ELSE serving_ticket + 1
      /\ next_ticket' = next_ticket /\ reg' = reg /\ lapse' = lapse
  BY <1>1, SuccTicket, Zenon DEF ReleaseStore, TypeOK
<1>6. ASSUME NEW t \in Ticket, t # serving_ticket
      PROVE  (IF t >= serving_ticket' THEN t - serving_ticket'
                                      ELSE t + Modulus - serving_ticket') = Dist(t) - 1
  BY <1>5, <1>6, TicketAssumption DEF TypeOK, Ticket, Dist
<1>7. Dist(next_ticket)' = Dist(next_ticket) - 1
  BY <1>4, <1>5, <1>6, Zenon DEF TypeOK, Dist
<1>8. ASSUME NEW q \in Active'
      PROVE  /\ q \in Active /\ q \in Proc /\ q # p /\ reg[q] # serving_ticket
             /\ Dist(reg[q])' = Dist(reg[q]) - 1
  <2>1. q \in Active /\ q \in Proc /\ q # p
    BY <1>2, <1>8, Zenon DEF Active
  <2>2. reg[q] # serving_ticket
    BY <1>1, <2>1, Zenon DEF TicketDiscipline, TicketsDistinct
  <2> QED
    BY <1>5, <1>6, <2>1, <2>2, Zenon DEF TypeOK, Dist
<1>9. TicketsInRange'
  <2> SUFFICES ASSUME NEW q \in Active' PROVE (Dist(reg[q]) < Dist(next_ticket))'
    BY Zenon DEF TicketsInRange
  <2>1. Dist(reg[q]) < Dist(next_ticket)
    BY <1>8, Zenon DEF TicketDiscipline, TicketsInRange
  <2>2. Dist(reg[q]) \in Int /\ Dist(next_ticket) \in Int
    BY <1>8, TicketAssumption DEF TypeOK, Ticket, Dist
  <2> QED
    BY <1>7, <1>8, <2>1, <2>2
<1>10. TicketsDistinct'
  BY <1>5, <1>8, Zenon DEF TicketDiscipline, TicketsDistinct
<1>11. TicketsCounted'
  BY <1>3, <1>7, Zenon DEF TicketDiscipline, TicketsCounted
<1>12. OwnerServed'
  <2> SUFFICES ASSUME NEW q \in Proc, Owner(q)' PROVE FALSE
    BY Zenon DEF OwnerServed
  <2>1. q # p /\ Owner(q)
    BY Zenon DEF ReleaseStore, Owner, TypeOK
  <2> QED
    BY <1>1, <2>1, Zenon DEF TicketDiscipline, OwnerServed, TicketsDistinct, Owner, Active
<1>13. TryWindow'
  <2> SUFFICES ASSUME NEW q \in Proc, InTry(q)'
               PROVE  /\ \/ next_ticket' = reg'[q] + lapse'[q]
                         \/ next_ticket' = reg'[q] + lapse'[q] - Modulus
                      /\ ~(pc'[q] = "try_cas" /\ lapse'[q] = 0)
    BY Zenon DEF TryWindow, InTry
  <2>1. pc'[q] = pc[q] /\ InTry(q)
    BY Zenon DEF ReleaseStore, TypeOK, InTry
  <2> QED
    BY <1>4, <1>5, <2>1, Zenon DEF TicketDiscipline, TryWindow
<1> QED
  BY <1>9, <1>10, <1>11, <1>12, <1>13, Zenon DEF TicketDiscipline

\* Steps that leave the counters and the tickets of the active CPUs alone
\* disturb at most who owns the lock and the windows of try_acquire.
LEMMA SameLine ==
    ASSUME TypeOK, TicketDiscipline, next_ticket' = next_ticket,
           serving_ticket' = serving_ticket, Active' = Active,
           \A q \in Active : reg'[q] = reg[q]
    PROVE  TicketsInRange' /\ TicketsDistinct' /\ TicketsCounted'
<1>1. Dist(next_ticket)' = Dist(next_ticket)
  BY Zenon DEF Dist
<1>2. \A q \in Active : Dist(reg[q])' = Dist(reg[q])
  BY Zenon DEF Dist
<1> QED
  BY <1>1, <1>2 DEF TicketDiscipline, TicketsInRange, TicketsDistinct, TicketsCounted

\* The ticket discipline survives every step of the lock code.
LEMMA DisciplineStep == TypeOK /\ TicketDiscipline /\ [Next]_vars => TicketDiscipline'
<1> SUFFICES ASSUME TypeOK, TicketDiscipline, [Next]_vars PROVE TicketDiscipline'
  BY Zenon
<1> USE DEF Goto
<1>1. ASSUME NEW p \in Proc, FetchNext(p) PROVE TicketDiscipline'
  BY <1>1, Enter, Zenon DEF FetchNext, Active
<1>2. ASSUME NEW p \in Proc, Spin(p) PROVE TicketDiscipline'
  <2>1. Active' = Active
    BY <1>2, Zenon DEF Spin, Active, TypeOK
  <2>2. OwnerServed' /\ TryWindow'
    BY <1>2, Zenon DEF Spin, TicketDiscipline, OwnerServed, TryWindow, Owner, InTry, TypeOK
  <2> QED
    BY <1>2, <2>1, <2>2, SameLine, Zenon DEF Spin, TicketDiscipline
<1>3. ASSUME NEW p \in Proc, Wfe(p) PROVE TicketDiscipline'
  <2>1. Active' = Active
    BY <1>3, Zenon DEF Wfe, Active, TypeOK
  <2>2. OwnerServed' /\ TryWindow'
    BY <1>3, Zenon DEF Wfe, TicketDiscipline, OwnerServed, TryWindow, Owner, InTry, TypeOK
  <2> QED
    BY <1>3, <2>1, <2>2, SameLine, Zenon DEF Wfe, TicketDiscipline
<1>4. ASSUME NEW p \in Proc, ReleaseLoad(p) PROVE TicketDiscipline'
  <2>1. p \in Active /\ reg[p] = serving_ticket
    BY <1>4, Zenon DEF ReleaseLoad, Active, TicketDiscipline, OwnerServed, Owner
  <2>2. serving_ticket # next_ticket
    BY <2>1, ActiveCount, TicketAssumption
       DEF TicketDiscipline, TicketsCounted, Dist, TypeOK, Ticket
  <2>3. reg' = reg
    BY <1>4, <2>1, <2>2, Zenon DEF ReleaseLoad, TypeOK
  <2>4. Active' = Active
    BY <1>4, <2>2, Zenon DEF ReleaseLoad, Active, TypeOK
  <2>5. OwnerServed' /\ TryWindow'
    BY <1>4, <2>2, <2>3, Zenon DEF ReleaseLoad, TicketDiscipline, OwnerServed, TryWindow, Owner, InTry, TypeOK
  <2> QED
    BY <1>4, <2>3, <2>4, <2>5, SameLine, Zenon DEF ReleaseLoad, TicketDiscipline
<1>5. ASSUME NEW p \in Proc, ReleaseStore(p) PROVE TicketDiscipline'
  BY <1>5, Exit, Zenon
<1>6. ASSUME NEW p \in Proc, Sev(p) PROVE TicketDiscipline'
  <2>1. Active' = Active
    BY <1>6, Zenon DEF Sev, Active, TypeOK
  <2>2. OwnerServed' /\ TryWindow'
    BY <1>6, Zenon DEF Sev, TicketDiscipline, OwnerServed, TryWindow, Owner, InTry, TypeOK
  <2> QED
    BY <1>6, <2>1, <2>2, SameLine, Zenon DEF Sev, TicketDiscipline
<1>7. ASSUME NEW p \in Proc, TryLoad(p) PROVE TicketDiscipline'
  <2>1. Active' = Active /\ p \notin Active
    BY <1>7, Zenon DEF TryLoad, Active, TypeOK
  <2>2. OwnerServed'
    BY <1>7, Zenon DEF TryLoad, TicketDiscipline, OwnerServed, Owner, TypeOK
  <2>3. TryWindow'
    BY <1>7, TicketAssumption DEF TryLoad, TicketDiscipline, TryWindow, InTry, TypeOK, Ticket
  <2>4. \A q \in Active : reg'[q] = reg[q]
    BY <1>7, <2>1 DEF TryLoad, TypeOK
  <2> QED
    BY <1>7, <2>1, <2>2, <2>3, <2>4, SameLine, Zenon DEF TryLoad, TicketDiscipline
<1>8. ASSUME NEW p \in Proc, TryServing(p) PROVE TicketDiscipline'
  <2>1. Active' = Active
    BY <1>8, Zenon DEF TryServing, Active, TypeOK
  <2>2. OwnerServed'
    BY <1>8, Zenon DEF TryServing, TicketDiscipline, OwnerServed, Owner, TypeOK
  <2>3. TryWindow'
    <3>1. InTry(p) /\ reg[p] \in Ticket /\ next_ticket \in Ticket
      BY <1>8, Zenon DEF TryServing, InTry, TypeOK
    <3>2. lapse[p] = 0 => next_ticket = reg[p]
      BY <3>1, TicketAssumption DEF TicketDiscipline, TryWindow, Ticket
    <3> QED
      BY <1>8, <3>2, Zenon DEF TryServing, TicketDiscipline, TryWindow, InTry, TypeOK
  <2> QED
    BY <1>8, <2>1, <2>2, <2>3, SameLine, Zenon DEF TryServing, TicketDiscipline
<1>9. ASSUME NEW p \in Proc, TryCas(p) PROVE TicketDiscipline'
  <2>1. p \notin Active /\ InTry(p)
    BY <1>9, Zenon DEF TryCas, Active, InTry
  <2>2. CASE next_ticket = reg[p]
    <3>1. lapse[p] = 0
      BY <2>1, <2>2, TicketAssumption DEF TicketDiscipline, TryWindow, TypeOK, Ticket
    <3>2. serving_ticket = next_ticket
      BY <1>9, <3>1, Zenon DEF TryCas, TicketDiscipline, TryWindow
    <3>3. reg' = [reg EXCEPT ![p] = next_ticket]
      BY <1>9, <2>2, Zenon DEF TryCas, TypeOK
    <3> QED
      BY <1>9, <2>1, <2>2, <3>2, <3>3, Enter, Zenon DEF TryCas
  <2>3. CASE next_ticket # reg[p]
    <3>1. Active' = Active
      BY <1>9, <2>3, Zenon DEF TryCas, Active, TypeOK
    <3>2. OwnerServed' /\ TryWindow'
      BY <1>9, <2>3, Zenon DEF TryCas, TicketDiscipline, OwnerServed, TryWindow, Owner, InTry, TypeOK
    <3> QED
      BY <1>9, <2>3, <3>1, <3>2, SameLine, Zenon DEF TryCas, TicketDiscipline
  <2> QED
    BY <2>2, <2>3, Zenon
<1>10. CASE UNCHANGED vars
  <2>1. Active' = Active
    BY <1>10, Zenon DEF vars, Active
  <2>2. OwnerServed' /\ TryWindow'
    BY <1>10, Zenon DEF vars, TicketDiscipline, OwnerServed, TryWindow, Owner, InTry
  <2> QED
    BY <1>10, <2>1, <2>2, SameLine, Zenon DEF vars, TicketDiscipline
<1>11. CASE Tick
  <2>1. Active' = Active
    BY <1>11, Zenon DEF Tick, Active
  <2>2. OwnerServed' /\ TryWindow'
    BY <1>11, Zenon DEF Tick, TicketDiscipline, OwnerServed, TryWindow, Owner, InTry
  <2> QED
    BY <1>11, <2>1, <2>2, SameLine, Zenon DEF Tick, TicketDiscipline
<1> QED
  BY <1>1, <1>2, <1>3, <1>4, <1>5, <1>6, <1>7, <1>8, <1>9, <1>10, <1>11, Zenon DEF Next, Step

\* The lock starts free, with no ticket outstanding.
LEMMA InitDiscipline == Init => TypeOK /\ TicketDiscipline
<1> SUFFICES ASSUME Init PROVE TypeOK /\ TicketDiscipline
  BY Zenon
<1>1. 0 \in Ticket
  <2>1. Cardinality(Proc) \in Nat
    BY TicketAssumption, FS_CardinalityType, Zenon
  <2> QED
    BY <2>1, TicketAssumption DEF Ticket
<1>2. Active = {} /\ Cardinality(Active) = 0 /\ Dist(next_ticket) = 0
  BY FS_EmptySet DEF Init, Active, Dist
<1> QED
  BY <1>1, <1>2, Zenon DEF Init, TypeOK, Labels, TicketDiscipline, TicketsInRange, TicketsDistinct,
                    TicketsCounted, OwnerServed, TryWindow, Owner, InTry

\* The lock word and the CPUs' locals of spinlock.c stay well typed.
THEOREM TypeCorrect == Spec => []TypeOK
  BY InitDiscipline, TypeStep, PTL DEF Spec

\* Outstanding tickets are always distinct, contiguous and counted by the two
\* counters of the lock word.
THEOREM Discipline == Spec => []TicketDiscipline
  BY InitDiscipline, TypeStep, DisciplineStep, PTL DEF Spec

\* ticket_lock_acquire and ticket_lock_try_acquire never admit two CPUs.
THEOREM Exclusion == Spec => []MutualExclusion
<1>1. TicketDiscipline => MutualExclusion
  BY Zenon DEF TicketDiscipline, TicketsDistinct, OwnerServed, MutualExclusion, Owner, Active
<1> QED
  BY <1>1, Discipline, PTL

-------------------------------------------------------------------------------
(* The ticket lock implements FifoLock.                                        *)

\* How far ticket t is from s, the one being served; and the i-th ticket from s
Gap(t, s) == IF t >= s THEN t - s ELSE t + Modulus - s
Turn(s, i) == (s + i - 1) % Modulus

\* The CPUs in A hold the tickets in r from s up to n, each one, without a gap.
Lined(A, r, s, n) ==
    /\ s \in Ticket /\ n \in Ticket
    /\ \A p \in A : r[p] \in Ticket /\ Gap(r[p], s) < Gap(n, s)
    /\ \A p, q \in A : r[p] = r[q] => p = q
    /\ \A t \in Ticket : Gap(t, s) < Gap(n, s) => \E p \in A : r[p] = t

Line(A, r, s, n) == [i \in 1 .. Gap(n, s) |-> CHOOSE p \in A : r[p] = Turn(s, i)]

\* In the sequence l each CPU of A stands where its ticket says.
InOrder(A, r, s, n, l) ==
    /\ l \in Seq(A) /\ Len(l) = Gap(n, s)
    /\ \A i \in 1 .. Gap(n, s) : l[i] \in A /\ r[l[i]] = Turn(s, i)
    /\ \A i \in 1 .. Gap(n, s) : \A p \in A : r[p] = Turn(s, i) => l[i] = p

\* Positions in the line and distances from the ticket served are the same thing.
LEMMA Positions ==
    ASSUME NEW s \in Ticket
    PROVE  /\ \A t \in Ticket : Gap(t, s) \in 0 .. Modulus - 1 /\ Turn(s, Gap(t, s) + 1) = t
           /\ \A i \in 1 .. Modulus : Turn(s, i) \in Ticket /\ Gap(Turn(s, i), s) = i - 1
<1>1. s \in 0 .. Modulus - 1 /\ Modulus \in Nat /\ Modulus > 0
  BY TicketAssumption DEF Ticket
<1>2. \A x \in 0 .. 2 * Modulus - 1 : x % Modulus = IF x < Modulus THEN x ELSE x - Modulus
  BY <1>1
<1>3. ASSUME NEW t \in Ticket PROVE Gap(t, s) \in 0 .. Modulus - 1 /\ Turn(s, Gap(t, s) + 1) = t
  <2>1. t \in 0 .. Modulus - 1
    BY Zenon DEF Ticket
  <2>2. PICK d : d = Gap(t, s)
    BY Zenon
  <2>3. d \in 0 .. Modulus - 1 /\ (s + d = t \/ s + d = t + Modulus)
    BY <1>1, <2>1, <2>2 DEF Gap
  <2>4. s + (d + 1) - 1 = s + d
    BY <1>1, <2>3
  <2>5. s + d \in 0 .. 2 * Modulus - 1
    BY <1>1, <2>3
  <2>6. (s + d) % Modulus = t
    BY <1>1, <1>2, <2>1, <2>3, <2>5
  <2> QED
    BY <2>2, <2>3, <2>4, <2>6, Zenon DEF Turn
<1>4. ASSUME NEW i \in 1 .. Modulus PROVE Turn(s, i) \in Ticket /\ Gap(Turn(s, i), s) = i - 1
  <2>1. PICK t : t = Turn(s, i)
    BY Zenon
  <2>2. PICK x : x = s + i - 1
    BY Zenon
  <2>3. x \in 0 .. 2 * Modulus - 1
    BY <1>1, <2>2
  <2>4. t = x % Modulus
    BY <2>1, <2>2, Zenon DEF Turn
  <2>5. t = IF x < Modulus THEN x ELSE x - Modulus
    BY <1>2, <2>3, <2>4, Zenon
  <2>6. t \in Ticket
    BY <1>1, <2>3, <2>5 DEF Ticket
  <2>7. Gap(t, s) = i - 1
    BY <1>1, <2>2, <2>3, <2>5 DEF Gap
  <2> QED
    BY <2>1, <2>6, <2>7, Zenon
<1> QED
  BY <1>3, <1>4, Zenon

\* The line is a sequence, in which each CPU stands where its ticket is.
LEMMA InLine ==
    ASSUME NEW A, NEW r, NEW s, NEW n, Lined(A, r, s, n)
    PROVE  Gap(n, s) \in 0 .. Modulus - 1 /\ InOrder(A, r, s, n, Line(A, r, s, n))
<1>1. Gap(n, s) \in 0 .. Modulus - 1 /\ Modulus \in Nat
  BY Positions, TicketAssumption, Zenon DEF Lined
<1>2. PICK l : l = Line(A, r, s, n)
  BY Zenon
<1>3. ASSUME NEW i \in 1 .. Gap(n, s)
      PROVE  /\ l[i] \in A /\ r[l[i]] = Turn(s, i)
             /\ \A p \in A : r[p] = Turn(s, i) => l[i] = p
  <2>1. Turn(s, i) \in Ticket /\ Gap(Turn(s, i), s) = i - 1
    BY <1>1, Positions DEF Lined
  <2>2. \E p \in A : r[p] = Turn(s, i)
    BY <1>1, <2>1 DEF Lined
  <2>3. l[i] = CHOOSE p \in A : r[p] = Turn(s, i)
    BY <1>2, Zenon DEF Line
  <2>4. l[i] \in A /\ r[l[i]] = Turn(s, i)
    BY <2>2, <2>3, Zenon
  <2> QED
    BY <2>4, Zenon DEF Lined
<1>4. l \in [1 .. Gap(n, s) -> A]
  <2>1. \A i \in 1 .. Gap(n, s) : (CHOOSE p \in A : r[p] = Turn(s, i)) \in A
    BY <1>2, <1>3, Zenon DEF Line
  <2> QED
    BY <1>2, <2>1, Zenon DEF Line
<1>5. l \in Seq(A) /\ Len(l) = Gap(n, s)
  BY <1>1, <1>4
<1>6. InOrder(A, r, s, n, l)
  BY <1>3, <1>5, Zenon DEF InOrder
<1> QED
  BY <1>1, <1>2, <1>6, Zenon

\* What one more ticket, issued or served, does to the distances.
LEMMA GapSteps ==
    ASSUME NEW s \in Ticket
    PROVE  /\ Gap(s, s) = 0 /\ Succ(s) \in Ticket
           /\ \A t \in Ticket : Gap(t, s) \in 0 .. Modulus - 1
           /\ \A t, u \in Ticket : Gap(t, s) = Gap(u, s) => t = u
           /\ \A t \in Ticket : /\ Gap(t, s) + 1 < Modulus => Gap(Succ(t), s) = Gap(t, s) + 1
                                /\ t # s => Gap(t, Succ(s)) = Gap(t, s) - 1
           /\ Gap(s, Succ(s)) = Modulus - 1
<1>1. s \in 0 .. Modulus - 1 /\ Modulus \in Nat /\ Succ(s) \in Ticket
  BY TicketAssumption, SuccTicket, Zenon DEF Ticket
<1>2. ASSUME NEW t \in Ticket
      PROVE  /\ t \in 0 .. Modulus - 1 /\ Succ(t) \in 0 .. Modulus - 1
             /\ Succ(t) = IF t + 1 = Modulus THEN 0 ELSE t + 1
  BY SuccTicket, Zenon DEF Ticket
<1>3. ASSUME NEW t \in Ticket
      PROVE  /\ Gap(t, s) \in 0 .. Modulus - 1
             /\ Gap(t, s) + 1 < Modulus => Gap(Succ(t), s) = Gap(t, s) + 1
             /\ t # s => Gap(t, Succ(s)) = Gap(t, s) - 1
  BY <1>1, <1>2 DEF Gap
<1>4. ASSUME NEW t \in Ticket, NEW u \in Ticket, Gap(t, s) = Gap(u, s) PROVE t = u
  BY <1>1, <1>2, <1>4 DEF Gap
<1>5. Gap(s, s) = 0 /\ Gap(s, Succ(s)) = Modulus - 1
  BY <1>1, <1>2 DEF Gap
<1> QED
  BY <1>1, <1>3, <1>4, <1>5, Zenon

\* Two sequences of the same length with the same elements are the same.
LEMMA SameSequence ==
    ASSUME NEW A, NEW f \in Seq(A), NEW g \in Seq(A), Len(f) = Len(g),
           \A i \in 1 .. Len(f) : f[i] = g[i]
    PROVE  f = g
  OBVIOUS

\* Who is in line depends only on the tickets of those in line.
LEMMA LineSame ==
    ASSUME NEW A, NEW r, NEW s, NEW n, Lined(A, r, s, n), NEW r2,
           \A q \in A : r2[q] = r[q]
    PROVE  Lined(A, r2, s, n) /\ Line(A, r2, s, n) = Line(A, r, s, n)
<1>1. Lined(A, r2, s, n)
  BY Zenon DEF Lined
<1>2. PICK l : l = Line(A, r, s, n)
  BY Zenon
<1>3. PICK m : m = Line(A, r2, s, n)
  BY Zenon
<1>4. InOrder(A, r, s, n, l)
  BY <1>2, InLine, Zenon
<1>5. InOrder(A, r2, s, n, m)
  BY <1>1, <1>3, InLine, Zenon
<1>6. ASSUME NEW i \in 1 .. Gap(n, s) PROVE l[i] = m[i]
  <2>1. m[i] \in A /\ r2[m[i]] = Turn(s, i)
    BY <1>5, Zenon DEF InOrder
  <2>2. r[m[i]] = Turn(s, i)
    BY <2>1, Zenon
  <2> QED
    BY <1>4, <2>1, <2>2, Zenon DEF InOrder
<1>7. l = m
  BY <1>4, <1>5, <1>6, SameSequence DEF InOrder
<1> QED
  BY <1>1, <1>2, <1>3, <1>7, Zenon

\* CPU p, outside A, is given ticket n, and there is room for one more.
Latest(A, r, s, n, r2, p) ==
    p \notin A /\ r2[p] = n /\ Gap(n, s) + 1 < Modulus /\ \A q \in A : r2[q] = r[q]

Joined(A, r, s, n, r2, p) ==
    /\ Lined(A \cup {p}, r2, s, Succ(n))
    /\ Line(A \cup {p}, r2, s, Succ(n)) = Append(Line(A, r, s, n), p)

\* Drawing a ticket is joining the line at its end.
LEMMA LineJoin ==
    ASSUME NEW A, NEW r, NEW s, NEW n, Lined(A, r, s, n),
           NEW r2, NEW p, Latest(A, r, s, n, r2, p)
    PROVE  Joined(A, r, s, n, r2, p)
<1>0. p \notin A /\ r2[p] = n /\ Gap(n, s) + 1 < Modulus /\ \A q \in A : r2[q] = r[q]
  BY Zenon DEF Latest
<1> DEFINE B == A \cup {p}
<1>1. /\ s \in Ticket /\ n \in Ticket /\ Succ(n) \in Ticket
      /\ Gap(n, s) \in 0 .. Modulus - 1 /\ Gap(Succ(n), s) = Gap(n, s) + 1
  BY <1>0, GapSteps, SuccTicket, Zenon DEF Lined
<1>2. ASSUME NEW q \in A
      PROVE  r2[q] = r[q] /\ r[q] \in Ticket /\ Gap(r[q], s) < Gap(n, s) /\ Gap(r[q], s) \in Nat
  BY <1>0, <1>1, GapSteps DEF Lined
<1>3. ASSUME NEW q \in B PROVE r2[q] \in Ticket /\ Gap(r2[q], s) < Gap(Succ(n), s)
  BY <1>0, <1>1, <1>2
<1>4. ASSUME NEW q \in B, NEW o \in B, r2[q] = r2[o] PROVE q = o
  BY <1>0, <1>1, <1>2, <1>4 DEF Lined
<1>5. ASSUME NEW t \in Ticket, Gap(t, s) < Gap(Succ(n), s) PROVE \E q \in B : r2[q] = t
  <2>0. Gap(t, s) \in 0 .. Modulus - 1 /\ (Gap(t, s) = Gap(n, s) => t = n)
    <3>1. \A u, v \in Ticket : Gap(u, s) = Gap(v, s) => u = v
      BY <1>1, GapSteps, Zenon
    <3>2. Gap(t, s) \in 0 .. Modulus - 1
      BY <1>1, GapSteps, Zenon
    <3> QED
      BY <1>1, <3>1, <3>2, Zenon
  <2>1. CASE Gap(t, s) = Gap(n, s)
    BY <1>0, <2>0, <2>1, Zenon
  <2>2. CASE Gap(t, s) # Gap(n, s)
    <3>1. Gap(t, s) < Gap(n, s)
      BY <1>1, <1>5, <2>0, <2>2
    <3> QED
      BY <1>2, <3>1, Zenon DEF Lined
  <2> QED
    BY <2>1, <2>2, Zenon
<1>6. Lined(B, r2, s, Succ(n))
  BY <1>1, <1>3, <1>4, <1>5, Zenon DEF Lined
<1>7. PICK l : l = Line(A, r, s, n)
  BY Zenon
<1>8. PICK m : m = Line(B, r2, s, Succ(n))
  BY Zenon
<1>9. InOrder(A, r, s, n, l)
  BY <1>7, InLine, Zenon
<1>10. InOrder(B, r2, s, Succ(n), m)
  BY <1>6, <1>8, InLine, Zenon
<1>11. Append(l, p) \in Seq(B) /\ Len(l) = Gap(n, s) /\ Len(Append(l, p)) = Gap(n, s) + 1
  BY <1>1, <1>9 DEF InOrder
<1>12. ASSUME NEW i \in 1 .. Gap(n, s) + 1 PROVE Append(l, p)[i] = m[i]
  <2>1. ASSUME NEW q \in B, r2[q] = Turn(s, i) PROVE m[i] = q
    BY <1>1, <1>10, <1>12, <2>1, Zenon DEF InOrder
  <2>2. CASE i = Gap(n, s) + 1
    <3>1. Turn(s, i) = n
      BY <1>1, <2>2, Positions, Zenon
    <3> QED
      BY <1>0, <1>1, <1>9, <1>11, <2>1, <2>2, <3>1 DEF InOrder
  <2>3. CASE i # Gap(n, s) + 1
    <3>1. i \in 1 .. Gap(n, s)
      BY <1>1, <2>3
    <3>2. l[i] \in A /\ r[l[i]] = Turn(s, i)
      BY <1>9, <3>1, Zenon DEF InOrder
    <3>3. m[i] = l[i]
      BY <1>2, <2>1, <3>2, Zenon
    <3> QED
      BY <1>1, <1>9, <1>11, <3>1, <3>3 DEF InOrder
  <2> QED
    BY <2>2, <2>3, Zenon
<1>13. Append(l, p) = m
  BY <1>1, <1>10, <1>11, <1>12, SameSequence DEF InOrder
<1> QED
  BY <1>6, <1>7, <1>8, <1>13, Zenon DEF Joined

\* CPU p of A holds the ticket being served.
First(A, r, s, p) == p \in A /\ r[p] = s

Left(A, r, s, n, p) ==
    /\ Lined(A \ {p}, r, Succ(s), n)
    /\ Line(A, r, s, n) # <<>> /\ Head(Line(A, r, s, n)) = p
    /\ Line(A \ {p}, r, Succ(s), n) = Tail(Line(A, r, s, n))

\* Serving the next ticket is taking the head off the line.
LEMMA LineLeave ==
    ASSUME NEW A, NEW r, NEW s, NEW n, Lined(A, r, s, n), NEW p, First(A, r, s, p)
    PROVE  Left(A, r, s, n, p)
<1>0. p \in A /\ r[p] = s
  BY Zenon DEF First
<1> DEFINE B == A \ {p}
<1>1. /\ s \in Ticket /\ n \in Ticket /\ Succ(s) \in Ticket /\ Modulus \in Nat
      /\ Gap(s, s) = 0 /\ Gap(s, Succ(s)) = Modulus - 1
  BY GapSteps, TicketAssumption, Zenon DEF Lined
<1>2. Gap(n, s) \in 1 .. Modulus - 1 /\ n # s
  <2>1. Gap(s, s) < Gap(n, s)
    BY <1>0, Zenon DEF Lined
  <2>2. Gap(n, s) \in 0 .. Modulus - 1
    BY <1>1, GapSteps, Zenon
  <2> QED
    BY <1>1, <2>1, <2>2
<1>3. ASSUME NEW t \in Ticket
      PROVE  Gap(t, s) \in 0 .. Modulus - 1 /\ (t # s => Gap(t, Succ(s)) = Gap(t, s) - 1)
  BY <1>1, GapSteps, Zenon
<1>4. Gap(n, Succ(s)) = Gap(n, s) - 1
  BY <1>1, <1>2, <1>3, Zenon
<1>5. ASSUME NEW q \in B PROVE r[q] \in Ticket /\ Gap(r[q], Succ(s)) < Gap(n, Succ(s))
  <2>1. r[q] \in Ticket /\ r[q] # s /\ Gap(r[q], s) < Gap(n, s)
    BY <1>0, Zenon DEF Lined
  <2> QED
    BY <1>2, <1>3, <1>4, <2>1
<1>6. ASSUME NEW t \in Ticket, Gap(t, Succ(s)) < Gap(n, Succ(s)) PROVE \E q \in B : r[q] = t
  <2>1. t # s
    BY <1>1, <1>2, <1>4, <1>6
  <2>2. Gap(t, s) < Gap(n, s)
    BY <1>2, <1>3, <1>4, <1>6, <2>1
  <2> QED
    BY <1>0, <2>1, <2>2, Zenon DEF Lined
<1>7. Lined(B, r, Succ(s), n)
  <2>1. \A q, o \in B : r[q] = r[o] => q = o
    BY Zenon DEF Lined
  <2> QED
    BY <1>1, <1>5, <1>6, <2>1, Zenon DEF Lined
<1>8. PICK l : l = Line(A, r, s, n)
  BY Zenon
<1>9. PICK m : m = Line(B, r, Succ(s), n)
  BY Zenon
<1>10. InOrder(A, r, s, n, l)
  BY <1>8, InLine, Zenon
<1>11. InOrder(B, r, Succ(s), n, m)
  BY <1>7, <1>9, InLine, Zenon
<1>12. /\ l # <<>> /\ l \in Seq(A) /\ Len(l) = Gap(n, s)
       /\ Tail(l) \in Seq(A) /\ Len(Tail(l)) = Gap(n, s) - 1
       /\ \A i \in 1 .. Gap(n, s) - 1 : Tail(l)[i] = l[i + 1]
  BY <1>2, <1>10 DEF InOrder
<1>13. ASSUME NEW i \in 1 .. Gap(n, s), l[i] = p PROVE i = 1
  <2>1. Turn(s, i) = s
    BY <1>0, <1>10, <1>13, Zenon DEF InOrder
  <2>2. i \in 1 .. Modulus
    BY <1>1, <1>2
  <2>3. Gap(Turn(s, i), s) = i - 1
    BY <1>1, <2>2, Positions, Zenon
  <2> QED
    BY <1>1, <2>1, <2>2, <2>3
<1>14. Head(l) = p
  <2>1. Turn(s, Gap(s, s) + 1) = s
    BY <1>1, Positions, Zenon
  <2>2. Turn(s, 1) = s /\ 1 \in 1 .. Gap(n, s)
    BY <1>1, <1>2, <2>1
  <2>3. l[1] = p
    BY <1>0, <1>10, <2>2, Zenon DEF InOrder
  <2> QED
    BY <1>12, <2>3
<1>15. ASSUME NEW i \in 1 .. Gap(n, s) - 1 PROVE m[i] = Tail(l)[i]
  <2>1. i + 1 \in 1 .. Gap(n, s) /\ i + 1 \in 1 .. Modulus /\ i \in 1 .. Modulus /\ i + 1 # 1
    BY <1>1, <1>2
  <2>2. l[i + 1] \in A /\ r[l[i + 1]] = Turn(s, i + 1) /\ l[i + 1] # p
    BY <1>10, <1>13, <2>1, Zenon DEF InOrder
  <2>3. Turn(Succ(s), i) = Turn(s, i + 1)
    <3>1. PICK t : t = Turn(s, i + 1)
      BY Zenon
    <3>2. t \in Ticket /\ Gap(t, s) = i + 1 - 1
      BY <1>1, <2>1, <3>1, Positions
    <3>3. t # s /\ Gap(t, Succ(s)) = i - 1
      BY <1>1, <1>3, <2>1, <3>2
    <3>4. Turn(Succ(s), Gap(t, Succ(s)) + 1) = t
      BY <1>1, <3>2, Positions, Zenon
    <3>5. i - 1 + 1 = i
      BY <2>1
    <3> QED
      BY <3>1, <3>3, <3>4, <3>5, Zenon
  <2>4. m[i] = l[i + 1]
    BY <1>4, <1>11, <2>2, <2>3, Zenon DEF InOrder
  <2> QED
    BY <1>12, <2>4, Zenon
<1>16. m = Tail(l)
  <2>1. m \in Seq(A) /\ Len(m) = Gap(n, s) - 1
    <3>1. m \in Seq(B) /\ Len(m) = Gap(n, s) - 1
      BY <1>4, <1>11, Zenon DEF InOrder
    <3>2. \A i \in 1 .. Len(m) : m[i] \in A
      BY <3>1
    <3> QED
      BY <3>1, <3>2
  <2> QED
    BY <1>12, <1>15, <2>1, SameSequence, Zenon
<1> QED
  BY <1>7, <1>8, <1>9, <1>12, <1>14, <1>16, Zenon DEF Left

\* The strengthening the refinement needs: the tickets between the counters are
\* all held.  TicketsCounted says so by counting, Lined ticket by ticket.
LineInv == TypeOK /\ TicketDiscipline /\ Lined(Active, reg, serving_ticket, next_ticket)

\* WaitLine, before and after a step, is the line of the CPUs that hold tickets.
LEMMA WaitLines ==
    /\ WaitLine = Line(Active, reg, serving_ticket, next_ticket)
    /\ WaitLine' = Line(Active', reg', serving_ticket', next_ticket')
    /\ Dist(next_ticket) = Gap(next_ticket, serving_ticket)
  BY Zenon DEF WaitLine, Line, Dist, Gap, Turn

\* A CPU that draws a ticket joins the line of FifoLock, and nothing else moves.
LEMMA Draws ==
    ASSUME LineInv, NEW p \in Proc, p \notin Active, Issue(p),
           Active' = Active \cup {p}, reg' = [reg EXCEPT ![p] = next_ticket],
           serving_ticket' = serving_ticket
    PROVE  /\ Lined(Active, reg, serving_ticket, next_ticket)'
           /\ WaitLine' = Append(WaitLine, p)
           /\ serving_ticket = next_ticket => WaitLine = <<>>
<1>1. next_ticket' = Succ(next_ticket) /\ reg'[p] = next_ticket
  BY Zenon DEF Issue, LineInv, TypeOK
<1>2. \A q \in Active : reg'[q] = reg[q]
  BY Zenon DEF LineInv, TypeOK, Active
<1>3. Gap(next_ticket, serving_ticket) + 1 < Modulus
  <2>1. Cardinality(Active) + 1 < Modulus
    BY ActiveCount, Zenon
  <2> QED
    BY <2>1, WaitLines, Zenon DEF LineInv, TicketDiscipline, TicketsCounted
<1>4. Lined(Active, reg, serving_ticket, next_ticket)
  BY Zenon DEF LineInv
<1>5. /\ Lined(Active \cup {p}, reg', serving_ticket, Succ(next_ticket))
      /\ Line(Active \cup {p}, reg', serving_ticket, Succ(next_ticket))
            = Append(Line(Active, reg, serving_ticket, next_ticket), p)
  <2>1. Latest(Active, reg, serving_ticket, next_ticket, reg', p)
    BY <1>1, <1>2, <1>3, Zenon DEF Latest
  <2>2. Joined(Active, reg, serving_ticket, next_ticket, reg', p)
    BY ONLY <1>4, <2>1, LineJoin, Zenon
  <2> QED
    BY <2>2, Zenon DEF Joined
<1>6. ASSUME serving_ticket = next_ticket PROVE WaitLine = <<>>
  <2>1. Gap(next_ticket, serving_ticket) = 0
    BY <1>4, <1>6, GapSteps, Zenon DEF Lined
  <2>2. InOrder(Active, reg, serving_ticket, next_ticket, WaitLine)
    BY <1>4, InLine, WaitLines, Zenon
  <2> QED
    BY <2>1, <2>2 DEF InOrder
<1> QED
  BY <1>1, <1>5, <1>6, WaitLines, Zenon DEF Lined

\* The steps that neither draw nor serve a ticket leave the line alone.
LEMMA Keeps ==
    ASSUME LineInv, next_ticket' = next_ticket, serving_ticket' = serving_ticket,
           Active' = Active, \A q \in Active : reg'[q] = reg[q]
    PROVE  Lined(Active, reg, serving_ticket, next_ticket)' /\ WaitLine' = WaitLine
<1>1. /\ Lined(Active, reg', serving_ticket, next_ticket)
      /\ Line(Active, reg', serving_ticket, next_ticket)
            = Line(Active, reg, serving_ticket, next_ticket)
  BY LineSame, Zenon DEF LineInv
<1> QED
  BY <1>1, WaitLines, Zenon DEF Lined

\* Where FifoLock sees a CPU that is at label l
Where(l) == IF l \in {"held", "release", "late"} THEN "cs"
            ELSE IF l \in {"spin", "wfe"} THEN "in" ELSE "out"

Places(c) == [q \in Proc |-> Where(c[q])]

\* CPU p, alone, moves from label k to label l.
Moved(c, d, p, k, l) ==
    c \in [Proc -> Labels] /\ p \in Proc /\ c[p] = k /\ d = [c EXCEPT ![p] = l]

\* What FifoLock sees of that
Shown(c, d, p, k, l) ==
    /\ Places(c)[p] = Where(k)
    /\ Places(d) = [Places(c) EXCEPT ![p] = Where(l)]
    /\ Where(l) = Where(k) => Places(d) = Places(c)

\* Place, before and after a step, follows the labels.
LEMMA PlacesOf == Place = Places(pc) /\ Place' = Places(pc')
<1>1. \A q \in Proc : (q \in Active) <=> pc[q] \in {"spin", "wfe", "held", "release", "late"}
  BY Zenon DEF Active
<1>2. \A q \in Proc : (q \in Active') <=> pc'[q] \in {"spin", "wfe", "held", "release", "late"}
  BY Zenon DEF Active
<1> QED
  BY <1>1, <1>2, Zenon DEF Place, Owner, Where, Places

\* A step moves, for FifoLock too, only the CPU that takes it.
LEMMA Moves ==
    ASSUME NEW c, NEW d, NEW p, NEW k, NEW l, Moved(c, d, p, k, l)
    PROVE  Shown(c, d, p, k, l)
<1>1. p \in Proc /\ c[p] = k /\ d[p] = l /\ \A q \in Proc : q # p => d[q] = c[q]
  BY Zenon DEF Moved
<1> QED
  BY <1>1, Zenon DEF Places, Shown

\* Every step of the lock code is a step of FifoLock, or invisible to it.
LEMMA Simulates ==
    LineInv /\ [Next]_vars => /\ Lined(Active, reg, serving_ticket, next_ticket)'
                              /\ [Fifo!FNext]_(Fifo!fvars)
<1> SUFFICES ASSUME LineInv, [Next]_vars
             PROVE  /\ Lined(Active, reg, serving_ticket, next_ticket)'
                    /\ Fifo!FNext \/ (WaitLine' = WaitLine /\ Place' = Place)
  BY Zenon DEF Fifo!fvars
<1> DEFINE Ahead == Lined(Active, reg, serving_ticket, next_ticket)
           Stutter == WaitLine' = WaitLine /\ Place' = Place
<1>0. TypeOK /\ TicketDiscipline /\ Lined(Active, reg, serving_ticket, next_ticket)
  BY Zenon DEF LineInv
<1>v. pc \in [Proc -> Labels] /\ Place = Places(pc) /\ Place' = Places(pc')
  BY <1>0, PlacesOf, Zenon DEF TypeOK
<1>w. /\ Where("spin") = "in" /\ Where("wfe") = "in"
      /\ Where("held") = "cs" /\ Where("release") = "cs" /\ Where("late") = "cs"
      /\ Where("idle") = "out" /\ Where("sev") = "out"
      /\ Where("try_serving") = "out" /\ Where("try_cas") = "out"
  BY Zenon DEF Where
<1>1. ASSUME NEW p \in Proc, FetchNext(p) PROVE Ahead' /\ Fifo!Join(p)
  <2>1. p \notin Active /\ Active' = Active \cup {p}
    BY <1>0, <1>1, Zenon DEF FetchNext, Active, TypeOK, Goto
  <2>2. Ahead' /\ WaitLine' = Append(WaitLine, p)
    BY <1>1, <2>1, Draws, Zenon DEF FetchNext
  <2>3. Place[p] = "out" /\ Place' = [Place EXCEPT ![p] = "in"]
    <3>1. Moved(pc, pc', p, "idle", "spin")
      BY <1>v, <1>1, Zenon DEF Moved, FetchNext, Goto
    <3>2. Shown(pc, pc', p, "idle", "spin")
      BY ONLY <3>1, Moves, Zenon
    <3> QED
      BY <1>v, <1>w, <3>2, Zenon DEF Shown
  <2> QED
    BY <2>2, <2>3, Zenon DEF Fifo!Join
<1>2. ASSUME NEW p \in Proc, Spin(p) PROVE Ahead' /\ (Fifo!Grant(p) \/ Stutter)
  <2>1. Active' = Active /\ p \in Active /\ reg' = reg
    BY <1>0, <1>2, Zenon DEF Spin, Active, TypeOK, Goto
  <2>2. Ahead' /\ WaitLine' = WaitLine
    BY <1>2, <2>1, Keeps, Zenon DEF Spin
  <2>3. CASE serving_ticket = reg[p]
    <3>1. WaitLine # <<>> /\ Head(WaitLine) = p
      <4>1. /\ Line(Active, reg, serving_ticket, next_ticket) # <<>>
            /\ Head(Line(Active, reg, serving_ticket, next_ticket)) = p
        <5>1. First(Active, reg, serving_ticket, p)
          BY <2>1, <2>3, Zenon DEF First
        <5>2. Left(Active, reg, serving_ticket, next_ticket, p)
          BY ONLY <1>0, <5>1, LineLeave, Zenon
        <5> QED
          BY <5>2, Zenon DEF Left
      <4> QED
        BY <4>1, WaitLines, Zenon
    <3>2. Place[p] = "in" /\ Place' = [Place EXCEPT ![p] = "cs"]
      <4>1. Moved(pc, pc', p, "spin", "held")
        BY <1>v, <1>2, <2>3, Zenon DEF Moved, Spin, Goto
      <4>2. Shown(pc, pc', p, "spin", "held")
        BY ONLY <4>1, Moves, Zenon
      <4> QED
        BY <1>v, <1>w, <4>2, Zenon DEF Shown
    <3> QED
      BY <2>2, <3>1, <3>2, Zenon DEF Fifo!Grant
  <2>4. CASE serving_ticket # reg[p]
    <3>1. Place' = Place
      <4>1. Moved(pc, pc', p, "spin", "wfe")
        BY <1>v, <1>2, <2>4, Zenon DEF Moved, Spin, Goto
      <4>2. Shown(pc, pc', p, "spin", "wfe")
        BY ONLY <4>1, Moves, Zenon
      <4> QED
        BY <1>v, <1>w, <4>2, Zenon DEF Shown
    <3> QED
      BY <2>2, <3>1, Zenon
  <2> QED
    BY <2>3, <2>4, Zenon
<1>3. ASSUME NEW p \in Proc, Wfe(p) PROVE Ahead' /\ Stutter
  <2>1. Active' = Active
    BY <1>0, <1>3, Zenon DEF Wfe, Active, TypeOK, Goto
  <2>2. Place' = Place
    <3>1. Moved(pc, pc', p, "wfe", "spin")
      BY <1>v, <1>3, Zenon DEF Moved, Wfe, Goto
    <3>2. Shown(pc, pc', p, "wfe", "spin")
      BY ONLY <3>1, Moves, Zenon
    <3> QED
      BY <1>v, <1>w, <3>2, Zenon DEF Shown
  <2> QED
    BY <1>3, <2>1, <2>2, Keeps, Zenon DEF Wfe
<1>4. ASSUME NEW p \in Proc, ReleaseLoad(p) PROVE Ahead' /\ Stutter
  <2>1. p \in Active /\ reg[p] = serving_ticket
    BY <1>0, <1>4, Zenon DEF ReleaseLoad, Active, TicketDiscipline, OwnerServed, Owner
  <2>2. serving_ticket # next_ticket
    BY <1>0, <2>1, ActiveCount, TicketAssumption
       DEF TicketDiscipline, TicketsCounted, Dist, TypeOK, Ticket
  <2>3. reg' = reg
    BY <1>0, <1>4, <2>1, <2>2, Zenon DEF ReleaseLoad, TypeOK
  <2>4. Active' = Active
    BY <1>0, <1>4, <2>2, Zenon DEF ReleaseLoad, Active, TypeOK, Goto
  <2>5. Place' = Place
    <3>1. Moved(pc, pc', p, "held", "release")
      BY <1>v, <1>4, <2>2, Zenon DEF Moved, ReleaseLoad, Goto
    <3>2. Shown(pc, pc', p, "held", "release")
      BY ONLY <3>1, Moves, Zenon
    <3> QED
      BY <1>v, <1>w, <3>2, Zenon DEF Shown
  <2> QED
    BY <1>4, <2>3, <2>4, <2>5, Keeps, Zenon DEF ReleaseLoad
<1>5. ASSUME NEW p \in Proc, ReleaseStore(p) PROVE Ahead' /\ Fifo!Leave(p)
  <2>1. /\ p \in Active /\ reg[p] = serving_ticket /\ Active' = Active \ {p}
    BY <1>0, <1>5, Zenon DEF ReleaseStore, Active, TypeOK, Goto, TicketDiscipline, OwnerServed, Owner
  <2>2. serving_ticket' = Succ(serving_ticket) /\ next_ticket' = next_ticket /\ reg' = reg
    BY <1>5, <2>1, Zenon DEF ReleaseStore
  <2>3. /\ Lined(Active \ {p}, reg, Succ(serving_ticket), next_ticket)
        /\ WaitLine # <<>> /\ Head(WaitLine) = p
        /\ Line(Active \ {p}, reg, Succ(serving_ticket), next_ticket) = Tail(WaitLine)
    <3> DEFINE l == Line(Active, reg, serving_ticket, next_ticket)
    <3>1. /\ Lined(Active \ {p}, reg, Succ(serving_ticket), next_ticket)
          /\ l # <<>> /\ Head(l) = p
          /\ Line(Active \ {p}, reg, Succ(serving_ticket), next_ticket) = Tail(l)
      <4>1. First(Active, reg, serving_ticket, p)
        BY <2>1, Zenon DEF First
      <4>2. Left(Active, reg, serving_ticket, next_ticket, p)
        BY ONLY <1>0, <4>1, LineLeave, Zenon
      <4> QED
        BY <4>2, Zenon DEF Left
    <3> QED
      BY <3>1, WaitLines, Zenon
  <2>4. Ahead' /\ WaitLine' = Tail(WaitLine)
    BY <2>1, <2>2, <2>3, WaitLines, Zenon DEF Lined
  <2>5. Place[p] = "cs" /\ Place' = [Place EXCEPT ![p] = "out"]
    <3>1. PICK k \in {"release", "late"}, l \in {"sev", "idle"} : Moved(pc, pc', p, k, l)
      BY <1>v, <1>5, Zenon DEF Moved, ReleaseStore, Goto
    <3>2. Shown(pc, pc', p, k, l)
      BY ONLY <3>1, Moves, Zenon
    <3> QED
      BY <1>v, <1>w, <3>2, Zenon DEF Shown
  <2> QED
    BY <2>3, <2>4, <2>5, Zenon DEF Fifo!Leave
<1>6. ASSUME NEW p \in Proc, Sev(p) PROVE Ahead' /\ Stutter
  <2>1. Active' = Active
    BY <1>0, <1>6, Zenon DEF Sev, Active, TypeOK, Goto
  <2>2. Place' = Place
    <3>1. CASE pc[p] = "sev"
      <4>1. Moved(pc, pc', p, "sev", "idle")
        BY <1>v, <1>6, <3>1, Zenon DEF Moved, Sev, Goto
      <4>2. Shown(pc, pc', p, "sev", "idle")
        BY ONLY <4>1, Moves, Zenon
      <4> QED
        BY <1>v, <1>w, <4>2, Zenon DEF Shown
    <3>2. CASE pc[p] = "release"
      <4>1. Moved(pc, pc', p, "release", "late")
        BY <1>v, <1>6, <3>2, Zenon DEF Moved, Sev, Goto
      <4>2. Shown(pc, pc', p, "release", "late")
        BY ONLY <4>1, Moves, Zenon
      <4> QED
        BY <1>v, <1>w, <4>2, Zenon DEF Shown
    <3> QED
      BY <1>6, <3>1, <3>2, Zenon DEF Sev
  <2> QED
    BY <1>6, <2>1, <2>2, Keeps, Zenon DEF Sev
<1>7. ASSUME NEW p \in Proc, TryLoad(p) PROVE Ahead' /\ Stutter
  <2>1. Active' = Active /\ p \notin Active
    BY <1>0, <1>7, Zenon DEF TryLoad, Active, TypeOK, Goto
  <2>2. \A q \in Active : reg'[q] = reg[q]
    BY <1>0, <1>7, <2>1, Zenon DEF TryLoad, TypeOK, Active
  <2>3. Place' = Place
    <3>1. Moved(pc, pc', p, "idle", "try_serving")
      BY <1>v, <1>7, Zenon DEF Moved, TryLoad, Goto
    <3>2. Shown(pc, pc', p, "idle", "try_serving")
      BY ONLY <3>1, Moves, Zenon
    <3> QED
      BY <1>v, <1>w, <3>2, Zenon DEF Shown
  <2> QED
    BY <1>7, <2>1, <2>2, <2>3, Keeps, Zenon DEF TryLoad
<1>8. ASSUME NEW p \in Proc, TryServing(p) PROVE Ahead' /\ Stutter
  <2>1. Active' = Active
    BY <1>0, <1>8, Zenon DEF TryServing, Active, TypeOK, Goto
  <2>2. Place' = Place
    <3>1. PICK l \in {"try_cas", "idle"} : Moved(pc, pc', p, "try_serving", l)
      BY <1>v, <1>8, Zenon DEF Moved, TryServing, Goto
    <3>2. Shown(pc, pc', p, "try_serving", l)
      BY ONLY <3>1, Moves, Zenon
    <3> QED
      BY <1>v, <1>w, <3>2, Zenon DEF Shown
  <2> QED
    BY <1>8, <2>1, <2>2, Keeps, Zenon DEF TryServing
<1>9. ASSUME NEW p \in Proc, TryCas(p) PROVE Ahead' /\ (Fifo!Barge(p) \/ Stutter)
  <2>1. p \notin Active /\ InTry(p)
    BY <1>9, Zenon DEF TryCas, Active, InTry
  <2>2. CASE next_ticket = reg[p]
    <3>1. lapse[p] = 0
      BY <1>0, <2>1, <2>2, TicketAssumption DEF TicketDiscipline, TryWindow, TypeOK, Ticket
    <3>2. serving_ticket = next_ticket
      BY <1>0, <1>9, <3>1, Zenon DEF TryCas, TicketDiscipline, TryWindow
    <3>3. reg' = [reg EXCEPT ![p] = next_ticket] /\ Active' = Active \cup {p}
      BY <1>0, <1>9, <2>2, Zenon DEF TryCas, TypeOK, Active, Goto
    <3>4. Ahead' /\ WaitLine = <<>> /\ WaitLine' = Append(WaitLine, p)
      BY <1>9, <2>1, <2>2, <3>2, <3>3, Draws, Zenon DEF TryCas
    <3>5. Place[p] = "out" /\ Place' = [Place EXCEPT ![p] = "cs"]
      <4>1. Moved(pc, pc', p, "try_cas", "held")
        BY <1>v, <1>9, <2>2, Zenon DEF Moved, TryCas, Goto
      <4>2. Shown(pc, pc', p, "try_cas", "held")
        BY ONLY <4>1, Moves, Zenon
      <4> QED
        BY <1>v, <1>w, <4>2, Zenon DEF Shown
    <3>6. WaitLine' = <<p>>
      BY <3>4
    <3> QED
      BY <3>4, <3>5, <3>6, Zenon DEF Fifo!Barge
  <2>3. CASE next_ticket # reg[p]
    <3>1. Active' = Active
      BY <1>0, <1>9, <2>3, Zenon DEF TryCas, Active, TypeOK, Goto
    <3>2. Place' = Place
      <4>1. Moved(pc, pc', p, "try_cas", "idle")
        BY <1>v, <1>9, <2>3, Zenon DEF Moved, TryCas, Goto
      <4>2. Shown(pc, pc', p, "try_cas", "idle")
        BY ONLY <4>1, Moves, Zenon
      <4> QED
        BY <1>v, <1>w, <4>2, Zenon DEF Shown
    <3> QED
      BY <1>9, <2>3, <3>1, <3>2, Keeps, Zenon DEF TryCas
  <2> QED
    BY <2>2, <2>3, Zenon
<1>10. CASE UNCHANGED vars
  <2>1. Active' = Active /\ Place' = Place
    BY <1>10, Zenon DEF vars, Active, Place, Owner
  <2> QED
    BY <1>10, <2>1, Keeps, Zenon DEF vars
<1>11. CASE Tick
  <2>1. Active' = Active /\ Place' = Place
    BY <1>11, Zenon DEF Tick, Active, Place, Owner
  <2> QED
    BY <1>11, <2>1, Keeps, Zenon DEF Tick
<1> QED
  BY <1>1, <1>2, <1>3, <1>4, <1>5, <1>6, <1>7, <1>8, <1>9, <1>10, <1>11, Zenon DEF Next, Step, Fifo!FNext

\* The lock starts with an empty line and every CPU outside.
LEMMA InitLine == Init => LineInv /\ Fifo!FInit
<1> SUFFICES ASSUME Init PROVE LineInv /\ Fifo!FInit
  BY Zenon
<1>1. TypeOK /\ TicketDiscipline
  BY InitDiscipline, Zenon
<1>2. Active = {} /\ Place = [p \in Proc |-> "out"]
  BY Zenon DEF Init, Active, Place, Owner
<1>3. next_ticket = serving_ticket /\ serving_ticket \in Ticket
  BY <1>1, Zenon DEF Init, TypeOK
<1>4. Gap(next_ticket, serving_ticket) = 0 /\ \A t \in Ticket : Gap(t, serving_ticket) \in Nat
  BY <1>3, GapSteps
<1>5. Lined(Active, reg, serving_ticket, next_ticket)
  BY <1>2, <1>3, <1>4 DEF Lined
<1>6. InOrder(Active, reg, serving_ticket, next_ticket, WaitLine)
  BY <1>5, InLine, WaitLines, Zenon
<1>7. WaitLine = <<>>
  BY <1>4, <1>6 DEF InOrder
<1> QED
  BY <1>1, <1>2, <1>5, <1>7, Zenon DEF LineInv, Fifo!FInit

\* ticket_lock_acquire serves CPUs strictly in the order of their fetch_add, and
\* ticket_lock_try_acquire gets the lock only when nobody holds or waits for it.
THEOREM RefinesFifoLock == Spec => ImplementsFifoLock
<1>1. LineInv /\ [Next]_vars => LineInv' /\ [Fifo!FNext]_(Fifo!fvars)
  BY TypeStep, DisciplineStep, Simulates, Zenon DEF LineInv
<1> QED
  BY <1>1, InitLine, PTL DEF Spec, ImplementsFifoLock, Fifo!FifoSpec
===============================================================================
