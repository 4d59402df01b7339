----------------------------- MODULE RingBuffer ------------------------------
(***************************************************************************)
(* kernel/ipc/ring_buffer.c: a byte queue in a circular array.  Each call   *)
(* runs under the buffer's ticket lock, so a call is one step.  head and    *)
(* tail may come to rest at Size; the next call then starts at the array's  *)
(* beginning through its wrap-around branch.                                *)
(***************************************************************************)
EXTENDS Integers, Sequences

CONSTANTS
  Byte,    \* the values of a byte
  Size,    \* rb->size
  MaxLen   \* bound on the length of one call

ASSUME RingBufferAssumption == Size \in Nat \ {0} /\ MaxLen \in Nat

VARIABLES
  buf, head, tail, count,  \* ring_buffer_t
  ret,   \* the status the last call returned
  out,   \* the bytes the last call delivered
  call   \* the last call: its name and arguments

vars == <<buf, head, tail, count, ret, out, call>>

Index == 0 .. Size - 1
Data  == UNION {[1 .. n -> Byte] : n \in 0 .. MaxLen}

\* ring_buffer_init, over a buffer that holds anything
Init ==
  /\ buf \in [Index -> Byte]
  /\ head = 0 /\ tail = 0 /\ count = 0
  /\ ret = "OK" /\ out = <<>> /\ call = [op |-> "init", data |-> <<>>, len |-> 0]

\* memcpy of d into the buffer from position at on
CopyIn(b, at, d) ==
  [j \in Index |-> IF at <= j /\ j < at + Len(d) THEN d[j - at + 1] ELSE b[j]]

\* memcpy of n bytes out of the buffer from position at on
CopyOut(at, n) == [i \in 1 .. n |-> buf[at + i - 1]]

Refuse(s) == ret' = s /\ out' = <<>> /\ UNCHANGED <<buf, head, tail, count>>

\* Bug: a write that fills the buffer to the last byte is let through twice over.
WriteNoSpaceCheck(d) ==
  /\ call' = [op |-> "write", data |-> d, len |-> 0]
  /\ \/ d = <<>> /\ Refuse("EINVAL")
     \/ /\ d # <<>>
        /\ head' = IF head + Len(d) <= Size THEN head + Len(d) ELSE Len(d) - (Size - head)
        /\ buf' = CopyIn(buf, IF head + Len(d) <= Size THEN head ELSE 0, d)
        /\ count' = count + Len(d)
        /\ ret' = "OK" /\ out' = <<>> /\ UNCHANGED tail

\* Bug: the second part of a wrapped write starts from the data's beginning.
WriteSecondPart(d) ==
  /\ call' = [op |-> "write", data |-> d, len |-> 0]
  /\ LET first == Size - head IN
     \/ d = <<>> /\ Refuse("EINVAL")
     \/ d # <<>> /\ Len(d) > Size - count /\ Refuse("ENOMEM")
     \/ /\ d # <<>> /\ Len(d) <= Size - count
        /\ IF head + Len(d) <= Size
           THEN buf' = CopyIn(buf, head, d) /\ head' = head + Len(d)
           ELSE /\ buf' = CopyIn(CopyIn(buf, head, SubSeq(d, 1, first)),
                                 0, SubSeq(d, 1, Len(d) - first))
                /\ head' = Len(d) - first
        /\ count' = count + Len(d)
        /\ ret' = "OK" /\ out' = <<>> /\ UNCHANGED tail

\* ring_buffer_write
Write(d) ==
  /\ call' = [op |-> "write", data |-> d, len |-> 0]
  /\ LET first == Size - head IN
     \/ Len(d) = 0 /\ Refuse("EINVAL")
     \/ Len(d) > 0 /\ Len(d) > Size - count /\ Refuse("ENOMEM")
     \/ /\ Len(d) > 0 /\ Len(d) <= Size - count
        /\ IF head + Len(d) <= Size
           THEN buf' = CopyIn(buf, head, d) /\ head' = head + Len(d)
           ELSE /\ buf' = CopyIn(CopyIn(buf, head, SubSeq(d, 1, first)),
                                 0, SubSeq(d, first + 1, Len(d)))
                /\ head' = Len(d) - first
        /\ count' = count + Len(d)
        /\ ret' = "OK" /\ out' = <<>> /\ UNCHANGED tail

\* Bug: the tail is advanced by the length asked for, not the length read.
ReadUnclamped(len) ==
  /\ call' = [op |-> "read", data |-> <<>>, len |-> len]
  /\ \/ len = 0 /\ Refuse("EINVAL")
     \/ len > 0 /\ count = 0 /\ Refuse("EAGAIN")
     \/ /\ len > 0 /\ count > 0
        /\ tail' = IF tail + len <= Size THEN tail + len ELSE len - (Size - tail)
        /\ count' = IF len > count THEN 0 ELSE count - len
        /\ ret' = "OK" /\ out' = <<>> /\ UNCHANGED <<buf, head>>

\* ring_buffer_read
Read(len) ==
  /\ call' = [op |-> "read", data |-> <<>>, len |-> len]
  /\ LET n     == IF len > count THEN count ELSE len
         first == Size - tail IN
     \/ len = 0 /\ Refuse("EINVAL")
     \/ len > 0 /\ count = 0 /\ Refuse("EAGAIN")
     \/ /\ len > 0 /\ count > 0
        /\ IF tail + n <= Size
           THEN out' = CopyOut(tail, n) /\ tail' = tail + n
           ELSE out' = CopyOut(tail, first) \o CopyOut(0, n - first) /\ tail' = n - first
        /\ count' = count - n
        /\ ret' = "OK" /\ UNCHANGED <<buf, head>>

\* ring_buffer_clear
Clear ==
  /\ call' = [op |-> "clear", data |-> <<>>, len |-> 0]
  /\ head' = 0 /\ tail' = 0 /\ count' = 0
  /\ ret' = "OK" /\ out' = <<>> /\ UNCHANGED buf

Next == (\E d \in Data : Write(d)) \/ (\E n \in 0 .. MaxLen : Read(n)) \/ Clear

Spec == Init /\ [][Next]_vars

-----------------------------------------------------------------------------
\* The fields stay in range; both positions may equal Size.
TypeOK ==
  /\ buf \in [Index -> Byte]
  /\ head \in 0 .. Size /\ tail \in 0 .. Size /\ count \in 0 .. Size
  /\ ret \in {"OK", "EINVAL", "ENOMEM", "EAGAIN"}
  /\ out \in Seq(Byte)
  /\ call \in [op : {"init", "write", "read", "clear"}, data : Seq(Byte), len : Nat]

\* The three fields agree: walking count bytes from tail leads to head, once
\* around the array at most (ring_buffer_write and ring_buffer_read take
\* different branches at the boundary and must still meet).
Consistent == tail + count = head \/ tail + count = head + Size

\* The i-th byte (from 0) after position t
At(t, i) == IF t + i < Size THEN t + i ELSE t + i - Size

\* The bytes that the buffer holds, oldest first
Contents == [i \in 1 .. count |-> buf[At(tail, i - 1)]]

Fifo == INSTANCE BoundedFifo WITH q <- Contents

\* Whatever the mix of writes, reads and clears and wherever they wrap, the
\* bytes come out in the order they went in, none lost, none twice, none
\* overwritten before it was read.
ImplementsFifo == Fifo!Spec
=============================================================================
