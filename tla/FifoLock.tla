------------------------------- MODULE FifoLock -------------------------------
(***************************************************************************)
(* What a kernel spin lock promises: a line of CPUs, served strictly in    *)
(* the order in which they joined it.  A non-blocking attempt succeeds     *)
(* only when the line is empty.  TicketLock implements this.               *)
(***************************************************************************)
EXTENDS Sequences

CONSTANT Proc   \* the CPUs (or contexts) that use the lock

VARIABLES line, \* CPUs that joined and have not left, oldest first
          at    \* "out", "in" (waiting in line) or "cs" (owns the lock)

fvars == <<line, at>>

FInit ==
    /\ line = <<>>
    /\ at = [p \in Proc |-> "out"]

Join(p) ==
    /\ at[p] = "out"
    /\ line' = Append(line, p)
    /\ at' = [at EXCEPT ![p] = "in"]

Grant(p) ==
    /\ at[p] = "in"
    /\ line # <<>> /\ Head(line) = p
    /\ at' = [at EXCEPT ![p] = "cs"]
    /\ UNCHANGED line

Barge(p) ==
    /\ at[p] = "out"
    /\ line = <<>>
    /\ line' = <<p>>
    /\ at' = [at EXCEPT ![p] = "cs"]

Leave(p) ==
    /\ at[p] = "cs"
    /\ line # <<>> /\ Head(line) = p
    /\ line' = Tail(line)
    /\ at' = [at EXCEPT ![p] = "out"]

FNext == \E p \in Proc : Join(p) \/ Grant(p) \/ Barge(p) \/ Leave(p)

FifoSpec == FInit /\ [][FNext]_fvars
===============================================================================
