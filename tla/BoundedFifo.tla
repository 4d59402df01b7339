----------------------------- MODULE BoundedFifo -----------------------------
(***************************************************************************)
(* What kernel/ipc/ring_buffer.c promises its callers: a first-in first-out *)
(* queue of at most Size bytes.  A write is taken whole or refused; a read  *)
(* returns what there is, up to the length asked for.                       *)
(***************************************************************************)
EXTENDS Integers, Sequences

CONSTANTS Byte, Size, MaxLen

VARIABLES
  q,    \* the bytes written and not yet read, oldest first
  ret,  \* the status the last call returned
  out,  \* the bytes the last call delivered
  call  \* the last call: its name and arguments

Data == UNION {[1 .. n -> Byte] : n \in 0 .. MaxLen}

Init == q = <<>> /\ ret = "OK" /\ out = <<>> /\ call = [op |-> "init", data |-> <<>>, len |-> 0]

Refuse(s) == ret' = s /\ out' = <<>> /\ UNCHANGED q

Write(d) ==
  /\ call' = [op |-> "write", data |-> d, len |-> 0]
  /\ \/ Len(d) = 0 /\ Refuse("EINVAL")
     \/ Len(d) > 0 /\ Len(q) + Len(d) > Size /\ Refuse("ENOMEM")
     \/ /\ Len(d) > 0 /\ Len(q) + Len(d) <= Size
        /\ q' = q \o d /\ ret' = "OK" /\ out' = <<>>

Read(len) ==
  /\ call' = [op |-> "read", data |-> <<>>, len |-> len]
  /\ \/ len = 0 /\ Refuse("EINVAL")
     \/ len > 0 /\ Len(q) = 0 /\ Refuse("EAGAIN")
     \/ /\ len > 0 /\ Len(q) > 0
        /\ LET n == IF len > Len(q) THEN Len(q) ELSE len IN
           /\ out' = SubSeq(q, 1, n)
           /\ q' = SubSeq(q, n + 1, Len(q))
        /\ ret' = "OK"

Clear ==
  /\ call' = [op |-> "clear", data |-> <<>>, len |-> 0]
  /\ q' = <<>> /\ ret' = "OK" /\ out' = <<>>

Next == (\E d \in Data : Write(d)) \/ (\E n \in 0 .. MaxLen : Read(n)) \/ Clear

Spec == Init /\ [][Next]_<<q, ret, out, call>>
=============================================================================
