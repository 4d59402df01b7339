-------------------------- MODULE RingBufferProofs ---------------------------
(***************************************************************************)
(* The ring buffer is a bounded first-in first-out queue, whatever its size *)
(* and the length of the calls.                                             *)
(***************************************************************************)
EXTENDS RingBuffer, SequenceTheorems, TLAPS

\* The inductive invariant: without Consistent the positions that a wrapped
\* write overwrites could belong to bytes not read yet.
IInv == TypeOK /\ Consistent

\* The bytes handed to ring_buffer_write form a sequence.
LEMMA DataSeq ==
    ASSUME NEW d \in Data
    PROVE  d \in Seq(Byte) /\ Len(d) \in Nat /\ \A i \in 1 .. Len(d) : d[i] \in Byte
<1>1. PICK n \in 0 .. MaxLen : d \in [1 .. n -> Byte]
  BY DEF Data
<1>2. n \in Nat
  BY RingBufferAssumption
<1>3. d \in Seq(Byte)
  BY <1>1, <1>2, SeqDef
<1> QED
  BY <1>3, LenProperties, ElementOfSeq

\* What a sub-sequence taken from position a + 1 to b holds (the second copy
\* of a write and the first of a read start in the middle of the data).
LEMMA SliceProperties ==
    ASSUME NEW S, NEW s \in Seq(S), NEW a \in Nat, NEW b \in Nat, a <= b, b <= Len(s)
    PROVE  /\ SubSeq(s, a + 1, b) \in Seq(S)
           /\ Len(SubSeq(s, a + 1, b)) = b - a
           /\ \A i \in 1 .. b - a : SubSeq(s, a + 1, b)[i] = s[a + i]
<1> DEFINE m == a + 1
<1>1. m \in Int /\ b \in Int /\ b - m + 1 = b - a
  OBVIOUS
<1>2. \A i \in m .. b : s[i] \in S
  OBVIOUS
<1>3. \A i \in 1 .. b - a : m + i - 1 = a + i
  OBVIOUS
<1>4. Len(SubSeq(s, m, b)) = b - a
  <2>1. CASE m <= b
    BY <1>1, <1>2, <2>1, SubSeqProperties
  <2>2. CASE ~(m <= b)
    <3>1. Len(SubSeq(s, m, b)) = 0
      BY <1>1, <1>2, <2>2, SubSeqProperties
    <3> QED
      BY <2>2, <3>1
  <2> QED
    BY <2>1, <2>2
<1> HIDE DEF m
<1>5. /\ SubSeq(s, m, b) \in Seq(S)
      /\ \A i \in 1 .. b - m + 1 : SubSeq(s, m, b)[i] = s[m + i - 1]
  BY <1>1, <1>2, SubSeqProperties
<1>6. \A i \in 1 .. b - a : SubSeq(s, m, b)[i] = s[a + i]
  BY <1>1, <1>3, <1>5
<1> QED
  BY <1>4, <1>5, <1>6 DEF m

\* What memcpy into the buffer leaves at each position.
LEMMA CopyInEffect ==
    ASSUME NEW b \in [Index -> Byte], NEW at \in Nat, NEW d \in Seq(Byte)
    PROVE  /\ CopyIn(b, at, d) \in [Index -> Byte]
           /\ \A j \in Index : CopyIn(b, at, d)[j] =
                IF at <= j /\ j < at + Len(d) THEN d[j - at + 1] ELSE b[j]
<1>1. Len(d) \in Nat
  BY LenProperties
<1>2. ASSUME NEW j \in Index, at <= j, j < at + Len(d) PROVE d[j - at + 1] \in Byte
  <2>1. j - at + 1 \in 1 .. Len(d)
    BY <1>1, <1>2, RingBufferAssumption DEF Index
  <2> QED
    BY <2>1, ElementOfSeq
<1> QED
  BY <1>2 DEF CopyIn

\* A write that is taken, in either branch: the new bytes follow the old ones
\* around the array and the old ones stay.
LEMMA WriteEffect ==
    ASSUME IInv, NEW d \in Data, Write(d), Len(d) > 0, Len(d) <= Size - count
    PROVE  /\ buf' \in [Index -> Byte]
           /\ head' \in 0 .. Size
           /\ tail' = tail /\ count' = count + Len(d)
           /\ ret' = "OK" /\ out' = <<>>
           /\ Consistent'
           /\ \A i \in 0 .. count - 1 : buf'[At(tail, i)] = buf[At(tail, i)]
           /\ \A i \in 0 .. Len(d) - 1 : buf'[At(tail, count + i)] = d[i + 1]
<1> DEFINE first == Size - head
<1>1. /\ d \in Seq(Byte) /\ Len(d) \in Nat
      /\ head \in Nat /\ tail \in Nat /\ count \in Nat /\ Size \in Nat
      /\ head <= Size /\ tail <= Size
      /\ buf \in [Index -> Byte]
  BY DataSeq, RingBufferAssumption DEF IInv, TypeOK
<1>2. /\ tail' = tail /\ count' = count + Len(d) /\ ret' = "OK" /\ out' = <<>>
  BY <1>1 DEF Write
<1>3. CASE head + Len(d) <= Size
  <2>1. buf' = CopyIn(buf, head, d) /\ head' = head + Len(d)
    BY <1>1, <1>3 DEF Write
  <2>2. /\ buf' \in [Index -> Byte]
        /\ \A j \in Index : buf'[j] =
             IF head <= j /\ j < head + Len(d) THEN d[j - head + 1] ELSE buf[j]
    BY <1>1, <2>1, CopyInEffect
  <2>3. Consistent' /\ head' \in 0 .. Size
    BY <1>1, <1>2, <1>3, <2>1 DEF IInv, Consistent
  <2>4. ASSUME NEW i \in 0 .. count - 1 PROVE buf'[At(tail, i)] = buf[At(tail, i)]
    BY <1>1, <1>3, <2>2 DEF IInv, Consistent, At, Index
  <2>5. ASSUME NEW i \in 0 .. Len(d) - 1 PROVE buf'[At(tail, count + i)] = d[i + 1]
    <3>1. At(tail, count + i) = head + i /\ head + i \in Index
      BY <1>1, <1>3 DEF IInv, Consistent, At, Index
    <3> QED
      BY <1>1, <2>2, <3>1
  <2> QED
    BY <1>2, <2>2, <2>3, <2>4, <2>5
<1>4. CASE ~(head + Len(d) <= Size)
  <2> DEFINE d1 == SubSeq(d, 1, first)
             d2 == SubSeq(d, first + 1, Len(d))
             b1 == CopyIn(buf, head, d1)
  <2>1. buf' = CopyIn(b1, 0, d2) /\ head' = Len(d) - first
    BY <1>1, <1>4 DEF Write
  <2>2. first \in Nat /\ first < Len(d)
    BY <1>1, <1>4
  <2>3. /\ d1 \in Seq(Byte) /\ Len(d1) = first
        /\ \A i \in 1 .. first : d1[i] = d[i]
    <3>1. \A i \in 1 .. first : d[i] \in Byte
      BY <2>2, DataSeq
    <3>2. /\ SubSeq(d, 1, first) \in Seq(Byte)
          /\ Len(SubSeq(d, 1, first)) = IF 1 <= first THEN first - 1 + 1 ELSE 0
          /\ \A i \in 1 .. first - 1 + 1 : SubSeq(d, 1, first)[i] = d[1 + i - 1]
      BY <2>2, <3>1, SubSeqProperties
    <3> QED
      BY <2>2, <3>2
  <2>4. /\ d2 \in Seq(Byte) /\ Len(d2) = Len(d) - first
        /\ \A i \in 1 .. Len(d) - first : d2[i] = d[first + i]
    <3>1. d \in Seq(Byte) /\ Len(d) \in Nat
      BY DataSeq
    <3> QED
      BY <2>2, <3>1, SliceProperties
  <2>5. /\ b1 \in [Index -> Byte]
        /\ \A j \in Index : b1[j] =
             IF head <= j /\ j < head + Len(d1) THEN d1[j - head + 1] ELSE buf[j]
    BY <1>1, <2>3, CopyInEffect
  <2>6. /\ buf' \in [Index -> Byte]
        /\ \A j \in Index : buf'[j] =
             IF 0 <= j /\ j < 0 + Len(d2) THEN d2[j - 0 + 1] ELSE b1[j]
    BY <2>1, <2>4, <2>5, CopyInEffect
  <2> HIDE DEF d1, d2, b1
  <2>7. \A j \in Index :
          /\ j < Len(d) - first => buf'[j] = d[first + j + 1]
          /\ j >= Len(d) - first /\ j >= head => buf'[j] = d[j - head + 1]
          /\ j >= Len(d) - first /\ j < head => buf'[j] = buf[j]
    <3> TAKE j \in Index
    <3>1. j \in Nat /\ j < Size
      BY <1>1 DEF Index
    <3>2. ASSUME j < Len(d) - first PROVE buf'[j] = d[first + j + 1]
      <4>1. buf'[j] = d2[j + 1]
        BY <1>1, <2>2, <2>4, <2>6, <3>1, <3>2
      <4>2. j + 1 \in 1 .. Len(d) - first
        BY <1>1, <2>2, <3>1, <3>2
      <4> QED
        BY <1>1, <2>2, <2>4, <3>1, <4>1, <4>2
    <3>3. ASSUME j >= Len(d) - first PROVE buf'[j] = b1[j]
      BY <1>1, <2>2, <2>4, <2>6, <3>1, <3>3
    <3>4. ASSUME j >= head PROVE b1[j] = d[j - head + 1]
      <4>1. b1[j] = d1[j - head + 1] /\ j - head + 1 \in 1 .. first
        BY <1>1, <2>3, <2>5, <3>1, <3>4
      <4> QED
        BY <2>3, <4>1
    <3>5. ASSUME j < head PROVE b1[j] = buf[j]
      BY <1>1, <2>5, <3>1, <3>5
    <3> QED
      BY <3>2, <3>3, <3>4, <3>5
  <2>8. Consistent' /\ head' \in 0 .. Size
    BY <1>1, <1>2, <1>4, <2>1, <2>2 DEF IInv, Consistent
  <2>9. ASSUME NEW i \in 0 .. count - 1 PROVE buf'[At(tail, i)] = buf[At(tail, i)]
    <3>1. /\ At(tail, i) \in Index
          /\ At(tail, i) >= Len(d) - first /\ At(tail, i) < head
      BY <1>1, <1>4, <2>2 DEF IInv, Consistent, At, Index
    <3> QED
      BY <2>7, <3>1
  <2>10. ASSUME NEW i \in 0 .. Len(d) - 1 PROVE buf'[At(tail, count + i)] = d[i + 1]
    <3>1. CASE i < first
      <4>1. /\ At(tail, count + i) = head + i /\ head + i \in Index
            /\ head + i >= Len(d) - first
        BY <1>1, <1>4, <2>2, <3>1 DEF IInv, Consistent, At, Index
      <4> QED
        BY <1>1, <2>7, <4>1
    <3>2. CASE i >= first
      <4>1. /\ At(tail, count + i) = i - first /\ i - first \in Index
            /\ i - first < Len(d) - first
        BY <1>1, <1>4, <2>2, <3>2 DEF IInv, Consistent, At, Index
      <4> QED
        BY <1>1, <2>2, <2>7, <4>1
    <3> QED
      BY <1>1, <2>2, <3>1, <3>2
  <2> QED
    BY <1>2, <2>6, <2>8, <2>9, <2>10
<1> QED
  BY <1>3, <1>4

\* A function on 1 .. n is a sequence of length n.
LEMMA FunSeq ==
    ASSUME NEW S, NEW n \in Nat, NEW f \in [1 .. n -> S]
    PROVE  f \in Seq(S) /\ Len(f) = n
<1>1. f \in Seq(S)
  BY SeqDef
<1>2. DOMAIN f = 1 .. n /\ DOMAIN f = 1 .. Len(f) /\ Len(f) \in Nat
  BY <1>1, LenProperties
<1> QED
  BY <1>1, <1>2

\* The bytes held form a sequence of count bytes.
LEMMA ContentsSeq ==
    ASSUME IInv
    PROVE  /\ Contents \in Seq(Byte) /\ Len(Contents) = count
           /\ \A i \in 1 .. count : Contents[i] = buf[At(tail, i - 1)]
<1>1. \A i \in 1 .. count : At(tail, i - 1) \in Index
  BY RingBufferAssumption DEF IInv, TypeOK, At, Index
<1>2. Contents \in [1 .. count -> Byte] /\ count \in Nat
  BY <1>1, RingBufferAssumption DEF IInv, TypeOK, Contents
<1> QED
  BY <1>2, FunSeq DEF Contents

\* A read of n bytes that are there, in either branch, delivers the n oldest
\* and leaves tail at the next one.
LEMMA ReadEffect ==
    ASSUME IInv, NEW len \in Nat, Read(len), len > 0, count > 0,
           NEW n, n = IF len > count THEN count ELSE len
    PROVE  /\ n \in 1 .. count
           /\ buf' = buf /\ head' = head /\ ret' = "OK"
           /\ tail' \in 0 .. Size /\ count' = count - n
           /\ Consistent'
           /\ \A i \in 0 .. count - n - 1 : At(tail', i) = At(tail, n + i)
           /\ out' \in Seq(Byte) /\ Len(out') = n
           /\ \A i \in 1 .. n : out'[i] = buf[At(tail, i - 1)]
<1> DEFINE first == Size - tail
<1>1. /\ head \in Nat /\ tail \in Nat /\ count \in Nat /\ Size \in Nat /\ n \in Nat
      /\ head <= Size /\ tail <= Size /\ count <= Size /\ 1 <= n /\ n <= count
      /\ buf \in [Index -> Byte]
  BY RingBufferAssumption DEF IInv, TypeOK
<1>2. buf' = buf /\ head' = head /\ ret' = "OK" /\ count' = count - n
  BY <1>1 DEF Read
<1>3. CASE tail + n <= Size
  <2>1. out' = CopyOut(tail, n) /\ tail' = tail + n
    BY <1>1, <1>3 DEF Read
  <2>2. Consistent' /\ tail' \in 0 .. Size
    BY <1>1, <1>2, <1>3, <2>1 DEF IInv, Consistent
  <2>3. \A i \in 0 .. count - n - 1 : At(tail', i) = At(tail, n + i)
    BY <1>1, <1>3, <2>1 DEF At
  <2>4. \A i \in 1 .. n : tail + i - 1 \in Index /\ tail + i - 1 = At(tail, i - 1)
    BY <1>1, <1>3 DEF At, Index
  <2>5. CopyOut(tail, n) \in [1 .. n -> Byte]
    BY <1>1, <2>4 DEF CopyOut
  <2>6. /\ CopyOut(tail, n) \in Seq(Byte) /\ Len(CopyOut(tail, n)) = n
        /\ \A i \in 1 .. n : CopyOut(tail, n)[i] = buf[At(tail, i - 1)]
    <3>1. CopyOut(tail, n) \in Seq(Byte) /\ Len(CopyOut(tail, n)) = n
      BY <1>1, <2>5, FunSeq
    <3>2. \A i \in 1 .. n : CopyOut(tail, n)[i] = buf[At(tail, i - 1)]
      BY <2>4 DEF CopyOut
    <3> QED
      BY <3>1, <3>2
  <2> QED
    BY <1>1, <1>2, <2>1, <2>2, <2>3, <2>6
<1>4. CASE ~(tail + n <= Size)
  <2> DEFINE o1 == CopyOut(tail, first)
             o2 == CopyOut(0, n - first)
  <2>1. out' = o1 \o o2 /\ tail' = n - first
    BY <1>1, <1>4 DEF Read
  <2>2. first \in Nat /\ n - first \in Nat /\ n - first <= Size
    BY <1>1, <1>4
  <2>3. Consistent' /\ tail' \in 0 .. Size
    BY <1>1, <1>2, <1>4, <2>1 DEF IInv, Consistent
  <2>4. \A i \in 0 .. count - n - 1 : At(tail', i) = At(tail, n + i)
    BY <1>1, <1>4, <2>1 DEF IInv, Consistent, At
  <2>5. /\ \A i \in 1 .. first : tail + i - 1 \in Index /\ tail + i - 1 = At(tail, i - 1)
        /\ \A i \in 1 .. n - first :
             0 + i - 1 \in Index /\ 0 + i - 1 = At(tail, first + i - 1)
    BY <1>1, <1>4, <2>2 DEF At, Index
  <2>6. o1 \in [1 .. first -> Byte] /\ o2 \in [1 .. n - first -> Byte]
    BY <1>1, <2>5 DEF CopyOut
  <2>7. /\ o1 \in Seq(Byte) /\ Len(o1) = first
        /\ o2 \in Seq(Byte) /\ Len(o2) = n - first
    BY <2>2, <2>6, FunSeq
  <2>8. /\ \A i \in 1 .. first : o1[i] = buf[At(tail, i - 1)]
        /\ \A i \in 1 .. n - first : o2[i] = buf[At(tail, first + i - 1)]
    BY <2>5 DEF CopyOut
  <2> HIDE DEF o1, o2
  <2>9. /\ o1 \o o2 \in Seq(Byte) /\ Len(o1 \o o2) = first + (n - first)
        /\ \A i \in 1 .. first + (n - first) :
             (o1 \o o2)[i] = IF i <= first THEN o1[i] ELSE o2[i - first]
    <3>1. /\ o1 \o o2 \in Seq(Byte) /\ Len(o1 \o o2) = Len(o1) + Len(o2)
          /\ \A i \in 1 .. Len(o1) + Len(o2) :
               (o1 \o o2)[i] = IF i <= Len(o1) THEN o1[i] ELSE o2[i - Len(o1)]
      BY <2>7, ConcatProperties
    <3> QED
      BY <2>7, <3>1
  <2>10. ASSUME NEW i \in 1 .. n PROVE (o1 \o o2)[i] = buf[At(tail, i - 1)]
    <3>1. CASE i <= first
      BY <1>1, <2>2, <2>8, <2>9, <3>1
    <3>2. CASE ~(i <= first)
      <4>1. /\ i - first \in 1 .. n - first /\ first + (i - first) - 1 = i - 1
            /\ i \in 1 .. first + (n - first)
        BY <1>1, <2>2, <3>2
      <4>2. o2[i - first] = buf[At(tail, i - 1)]
        BY <2>8, <4>1
      <4> QED
        BY <2>9, <3>2, <4>1, <4>2
    <3> QED
      BY <3>1, <3>2
  <2> QED
    BY <1>1, <1>2, <2>1, <2>2, <2>3, <2>4, <2>9, <2>10
<1> QED
  BY <1>3, <1>4

\* Every call keeps the invariant.
LEMMA Step == IInv /\ [Next]_vars => IInv'
<1> SUFFICES ASSUME IInv, [Next]_vars PROVE IInv'
  OBVIOUS
<1> DEFINE Calls == [op : {"init", "write", "read", "clear"}, data : Seq(Byte), len : Nat]
<1>1. ASSUME NEW s \in {"EINVAL", "ENOMEM", "EAGAIN"}, Refuse(s), call' \in Calls
      PROVE  IInv'
  BY <1>1 DEF Refuse, IInv, TypeOK, Consistent
<1>2. ASSUME NEW d \in Data, Write(d) PROVE IInv'
  <2>0. call' \in Calls
    BY <1>2, DataSeq DEF Write
  <2>1. CASE Len(d) > 0 /\ Len(d) <= Size - count
    <3>1. /\ buf' \in [Index -> Byte] /\ head' \in 0 .. Size
          /\ tail' = tail /\ count' = count + Len(d)
          /\ ret' = "OK" /\ out' = <<>> /\ Consistent'
      BY <1>2, <2>1, WriteEffect
    <3>2. count' \in 0 .. Size
      BY <2>1, <3>1, DataSeq, RingBufferAssumption DEF IInv, TypeOK
    <3> QED
      BY <2>0, <3>1, <3>2 DEF IInv, TypeOK
  <2>2. CASE ~(Len(d) > 0 /\ Len(d) <= Size - count)
    BY <1>1, <1>2, <2>0, <2>2 DEF Write
  <2> QED
    BY <2>1, <2>2
<1>3. ASSUME NEW len \in 0 .. MaxLen, Read(len) PROVE IInv'
  <2>0. call' \in Calls
    BY <1>3, EmptySeq, RingBufferAssumption DEF Read
  <2>1. CASE len > 0 /\ count > 0
    <3> DEFINE n == IF len > count THEN count ELSE len
    <3>1. /\ n \in 1 .. count /\ buf' = buf /\ head' = head /\ ret' = "OK"
          /\ tail' \in 0 .. Size /\ count' = count - n /\ Consistent'
          /\ out' \in Seq(Byte)
      BY <1>3, <2>1, ReadEffect, RingBufferAssumption
    <3>2. count' \in 0 .. Size
      <4> HIDE DEF n
      <4> QED
        BY <3>1, RingBufferAssumption DEF IInv, TypeOK
    <3> QED
      BY <2>0, <3>1, <3>2 DEF IInv, TypeOK
  <2>2. CASE ~(len > 0 /\ count > 0)
    BY <1>1, <1>3, <2>0, <2>2 DEF Read
  <2> QED
    BY <2>1, <2>2
<1>4. CASE Clear
  BY <1>4, RingBufferAssumption DEF Clear, IInv, TypeOK, Consistent
<1>5. CASE UNCHANGED vars
  BY <1>5 DEF vars, IInv, TypeOK, Consistent
<1> QED
  BY <1>2, <1>3, <1>4, <1>5 DEF Next

\* ring_buffer_init establishes it.
LEMMA Start == Init => IInv
  BY RingBufferAssumption DEF Init, IInv, TypeOK, Consistent

\* The fields of the ring buffer stay in range and agree with each other after
\* any mix of ring_buffer_write, ring_buffer_read and ring_buffer_clear.
THEOREM InvariantHolds == Spec => []IInv
  BY Start, Step, PTL DEF Spec

\* For every buffer size, head, tail and count agree.
THEOREM FieldsAgree == Spec => []Consistent
<1>1. IInv => Consistent
  BY DEF IInv
<1> QED
  BY <1>1, InvariantHolds, PTL

\* A write maps to a write of the queue.
LEMMA WriteMaps ==
    ASSUME IInv, IInv', NEW d \in Data, Write(d)
    PROVE  Fifo!Write(d)
<1>1. /\ Contents \in Seq(Byte) /\ Len(Contents) = count
      /\ \A i \in 1 .. count : Contents[i] = buf[At(tail, i - 1)]
  BY ContentsSeq
<1>2. /\ count \in Nat /\ Size \in Nat /\ tail \in Nat
      /\ d \in Seq(Byte) /\ Len(d) \in Nat
  BY DataSeq, RingBufferAssumption DEF IInv, TypeOK
<1>3. CASE Len(d) > 0 /\ Len(d) <= Size - count
  <2>1. /\ tail' = tail /\ count' = count + Len(d) /\ ret' = "OK" /\ out' = <<>>
        /\ \A i \in 0 .. count - 1 : buf'[At(tail, i)] = buf[At(tail, i)]
        /\ \A i \in 0 .. Len(d) - 1 : buf'[At(tail, count + i)] = d[i + 1]
    BY <1>3, WriteEffect
  <2>2. /\ Contents' \in Seq(Byte) /\ Len(Contents') = count + Len(d)
        /\ \A i \in 1 .. count + Len(d) : Contents'[i] = buf'[At(tail, i - 1)]
    <3>1. (/\ Contents \in Seq(Byte) /\ Len(Contents) = count
           /\ \A i \in 1 .. count : Contents[i] = buf[At(tail, i - 1)])'
      BY ContentsSeq, PTL
    <3> QED
      BY <2>1, <3>1 DEF At
  <2>3. /\ Contents \o d \in Seq(Byte) /\ Len(Contents \o d) = count + Len(d)
        /\ \A i \in 1 .. count + Len(d) :
             (Contents \o d)[i] = IF i <= count THEN Contents[i] ELSE d[i - count]
    <3>1. /\ Contents \o d \in Seq(Byte)
          /\ Len(Contents \o d) = Len(Contents) + Len(d)
          /\ \A i \in 1 .. Len(Contents) + Len(d) : (Contents \o d)[i] =
               IF i <= Len(Contents) THEN Contents[i] ELSE d[i - Len(Contents)]
      BY <1>1, <1>2, ConcatProperties
    <3> QED
      BY <1>1, <3>1
  <2>4. ASSUME NEW i \in 1 .. count + Len(d) PROVE Contents'[i] = (Contents \o d)[i]
    <3>1. CASE i <= count
      <4>1. i - 1 \in 0 .. count - 1 /\ i \in 1 .. count
        BY <1>2, <3>1
      <4> QED
        BY <1>1, <2>1, <2>2, <2>3, <3>1, <4>1
    <3>2. CASE ~(i <= count)
      <4>1. /\ i - count - 1 \in 0 .. Len(d) - 1
            /\ count + (i - count - 1) = i - 1 /\ (i - count - 1) + 1 = i - count
        BY <1>2, <3>2
      <4>2. buf'[At(tail, i - 1)] = d[i - count]
        BY <2>1, <4>1
      <4> QED
        BY <2>2, <2>3, <3>2, <4>2
    <3> QED
      BY <3>1, <3>2
  <2>5. Contents' = Contents \o d
    BY <2>2, <2>3, <2>4, SeqEqual
  <2> QED
    BY <1>1, <1>2, <1>3, <2>1, <2>5 DEF Write, Fifo!Write
<1>4. CASE ~(Len(d) > 0 /\ Len(d) <= Size - count)
  <2>1. ASSUME NEW s, Refuse(s) PROVE Fifo!Refuse(s)
    BY <2>1 DEF Refuse, Fifo!Refuse, Contents
  <2> QED
    BY <1>1, <1>2, <1>4, <2>1 DEF Write, Fifo!Write
<1> QED
  BY <1>3, <1>4

\* A read maps to a read of the queue.
LEMMA ReadMaps ==
    ASSUME IInv, IInv', NEW len \in 0 .. MaxLen, Read(len)
    PROVE  Fifo!Read(len)
<1>1. /\ Contents \in Seq(Byte) /\ Len(Contents) = count
      /\ \A i \in 1 .. count : Contents[i] = buf[At(tail, i - 1)]
  BY ContentsSeq
<1>2. count \in Nat /\ Size \in Nat /\ tail \in Nat /\ len \in Nat
  BY RingBufferAssumption DEF IInv, TypeOK
<1>3. CASE len > 0 /\ count > 0
  <2> DEFINE n == IF len > count THEN count ELSE len
  <2>1. /\ n \in 1 .. count /\ buf' = buf /\ ret' = "OK" /\ count' = count - n
        /\ \A i \in 0 .. count - n - 1 : At(tail', i) = At(tail, n + i)
        /\ out' \in Seq(Byte) /\ Len(out') = n
        /\ \A i \in 1 .. n : out'[i] = buf[At(tail, i - 1)]
    BY <1>2, <1>3, ReadEffect
  <2>2. (/\ Contents \in Seq(Byte) /\ Len(Contents) = count
         /\ \A i \in 1 .. count : Contents[i] = buf[At(tail, i - 1)])'
    BY ContentsSeq, PTL
  <2>3. ASSUME out' = SubSeq(Contents, 1, n), Contents' = SubSeq(Contents, n + 1, count)
        PROVE  Fifo!Read(len)
    BY <1>1, <1>2, <1>3, <2>1, <2>3 DEF Read, Fifo!Read
  <2> HIDE DEF n
  <2>4. out' = SubSeq(Contents, 1, n)
    <3>1. \A i \in 1 .. n : Contents[i] \in Byte
      BY <1>1, <2>1, ElementOfSeq
    <3>2. /\ SubSeq(Contents, 1, n) \in Seq(Byte)
          /\ Len(SubSeq(Contents, 1, n)) = IF 1 <= n THEN n - 1 + 1 ELSE 0
          /\ \A i \in 1 .. n - 1 + 1 : SubSeq(Contents, 1, n)[i] = Contents[1 + i - 1]
      BY <2>1, <3>1, SubSeqProperties
    <3>3. n \in Nat /\ 1 <= n /\ n <= count /\ n - 1 + 1 = n
      BY ONLY <1>2, <2>1
    <3>4. Len(SubSeq(Contents, 1, n)) = n
      BY <3>2, <3>3, Zenon
    <3>5. ASSUME NEW i \in 1 .. n PROVE out'[i] = SubSeq(Contents, 1, n)[i]
      <4>1. i \in 1 .. count /\ 1 + i - 1 = i
        BY ONLY <1>2, <3>3, i \in 1 .. n
      <4>2. SubSeq(Contents, 1, n)[i] = Contents[i]
        BY <3>2, <3>3, <4>1, Zenon
      <4> QED
        BY <1>1, <2>1, <4>1, <4>2, Zenon
    <3> QED
      BY <2>1, <3>2, <3>4, <3>5, SeqEqual
  <2>5. Contents' = SubSeq(Contents, n + 1, count)
    <3>2. /\ n \in Nat /\ count \in Nat /\ n <= count
          /\ Contents \in Seq(Byte) /\ Len(Contents) = count
      BY <1>1, <1>2, <2>1
    <3>3. /\ SubSeq(Contents, n + 1, count) \in Seq(Byte)
          /\ Len(SubSeq(Contents, n + 1, count)) = count - n
          /\ \A i \in 1 .. count - n : SubSeq(Contents, n + 1, count)[i] = Contents[n + i]
      BY <3>2, SliceProperties
    <3>4. ASSUME NEW i \in 1 .. count - n PROVE Contents'[i] = Contents[n + i]
      <4>1. /\ i - 1 \in 0 .. count - n - 1 /\ n + i \in 1 .. count
            /\ n + (i - 1) = n + i - 1 /\ i \in 1 .. count'
        BY <1>2, <2>1
      <4>2. Contents'[i] = buf'[At(tail', i - 1)]
        BY <2>2, <4>1 DEF At
      <4> QED
        BY <1>1, <2>1, <4>1, <4>2
    <3>5. /\ Contents' \in Seq(Byte) /\ Len(Contents') = count - n
          /\ \A i \in 1 .. count - n : Contents'[i] = SubSeq(Contents, n + 1, count)[i]
      BY <2>1, <2>2, <3>3, <3>4
    <3> QED
      BY <3>2, <3>3, <3>5, SeqEqual
  <2> QED
    BY <2>3, <2>4, <2>5
<1>4. CASE ~(len > 0 /\ count > 0)
  <2>1. ASSUME NEW s, Refuse(s) PROVE Fifo!Refuse(s)
    BY <2>1 DEF Refuse, Fifo!Refuse, Contents
  <2> QED
    BY <1>1, <1>2, <1>4, <2>1 DEF Read, Fifo!Read
<1> QED
  BY <1>3, <1>4

\* For every buffer size and call length, the ring buffer of ring_buffer.c is
\* a bounded first-in first-out queue.
THEOREM RefinesFifo == Spec => ImplementsFifo
<1>1. Init => Fifo!Init
  <2> SUFFICES ASSUME Init PROVE Contents = <<>>
    BY DEF Init, Fifo!Init
  <2>1. Contents \in Seq(Byte) /\ Len(Contents) = 0
    BY Start, ContentsSeq DEF Init
  <2> QED
    BY <2>1, EmptySeq
<1>2. IInv /\ IInv' /\ [Next]_vars => [Fifo!Next]_<<Contents, ret, out, call>>
  <2> SUFFICES ASSUME IInv, IInv', [Next]_vars PROVE [Fifo!Next]_<<Contents, ret, out, call>>
    OBVIOUS
  <2>1. ASSUME NEW d \in Data, Write(d) PROVE Fifo!Next
    BY <2>1, WriteMaps DEF Fifo!Next, Fifo!Data, Data
  <2>2. ASSUME NEW len \in 0 .. MaxLen, Read(len) PROVE Fifo!Next
    BY <2>2, ReadMaps DEF Fifo!Next
  <2>3. CASE Clear
    <3>1. (Contents \in Seq(Byte) /\ Len(Contents) = count)'
      BY ContentsSeq, PTL
    <3>2. Contents' = <<>>
      BY <2>3, <3>1, EmptySeq DEF Clear
    <3> QED
      BY <2>3, <3>2 DEF Clear, Fifo!Next, Fifo!Clear
  <2>4. CASE UNCHANGED vars
    BY <2>4 DEF vars, Contents, At
  <2> QED
    BY <2>1, <2>2, <2>3, <2>4 DEF Next
<1> QED
  BY <1>1, <1>2, InvariantHolds, PTL DEF Spec, ImplementsFifo, Fifo!Spec
=============================================================================
