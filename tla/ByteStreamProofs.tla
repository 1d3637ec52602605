-------------------------- MODULE ByteStreamProofs --------------------------
(***************************************************************************)
(* The queue of strings keeps its counters and its bytes together and      *)
(* implements the bounded FIFO of Stream, for every capacity.              *)
(***************************************************************************)
EXTENDS MCByteStream, SequenceTheorems, WellFoundedInduction, TLAPS

IInv == TypeOK /\ BufferIsUnread /\ OutIsARun

LEMMA SeqOfFunction ==
    ASSUME NEW S, NEW n \in Nat, NEW f \in [1 .. n -> S]
    PROVE  f \in Seq(S) /\ Len(f) = n
  OBVIOUS

\* The chunks of the queue are non-empty ranges of naturals.
LEMMA QueueChunks ==
    ASSUME TypeOK, BufferIsUnread
    PROVE  \A i \in 1 .. Len(buffer_) : /\ buffer_[i].lo \in Nat
                                        /\ buffer_[i].hi \in Nat
                                        /\ buffer_[i].lo < buffer_[i].hi
<1>1. \A i \in 1 .. Len(buffer_) : buffer_[i] \in Chunk
  BY DEF TypeOK
<1>2. \A c \in Chunk : c.lo \in Nat /\ c.hi \in Nat
  BY DEF Chunk
<1>3. \A i \in 1 .. Len(buffer_) : buffer_[i].lo < buffer_[i].hi
  BY DEF BufferIsUnread, Covers
<1> QED BY <1>1, <1>2, <1>3

\* Where pop's loop stops short of the end, the string in front begins where
\* the strings popped whole end, and holds more than what is left to pop.
LEMMA QueueFront ==
    ASSUME TypeOK, BufferIsUnread, NEW len \in Nat,
           NEW k \in 0 .. Len(buffer_), PopsWhole(k, len), k < Len(buffer_)
    PROVE  /\ Prefix(k) \in Int
           /\ buffer_[k + 1].lo = bytes_popped_ + Prefix(k)
           /\ buffer_[k + 1].lo + (len - Prefix(k)) < buffer_[k + 1].hi
<1> DEFINE n == Len(buffer_)
<1>1. n \in Nat /\ k \in Nat /\ bytes_popped_ \in Nat
  BY DEF TypeOK
<1>2. \A i \in 1 .. n : buffer_[i].lo \in Nat /\ buffer_[i].hi \in Nat
  BY QueueChunks
<1>3. \A i \in 1 .. n - 1 : buffer_[i].hi = buffer_[i + 1].lo
  BY DEF BufferIsUnread, Covers
<1>4. buffer_[1].lo = bytes_popped_
  BY <1>1 DEF BufferIsUnread, Covers
<1>5. Prefix(k) \in Int
  BY <1>1, <1>2 DEF Prefix
<1>6. buffer_[k + 1].lo = bytes_popped_ + Prefix(k)
  BY <1>1, <1>2, <1>3, <1>4 DEF Prefix
<1>7. Prefix(k + 1) > len /\ Prefix(k + 1) = buffer_[k + 1].hi - bytes_popped_
  BY <1>1, <1>4 DEF PopsWhole, Prefix
<1> QED BY <1>1, <1>2, <1>5, <1>6, <1>7

\* All the strings together are the bytes buffered.
LEMMA QueueEnd ==
    ASSUME TypeOK, BufferIsUnread
    PROVE  Prefix(Len(buffer_)) = bytes_buffered_
<1>1. Len(buffer_) \in Nat /\ bytes_popped_ \in Nat /\ bytes_pushed_ \in Nat
  BY DEF TypeOK
<1>2. Len(buffer_) = 0 => bytes_popped_ = bytes_pushed_
  BY DEF BufferIsUnread, Covers
<1>3. Len(buffer_) > 0 => /\ buffer_[1].lo = bytes_popped_
                          /\ buffer_[Len(buffer_)].hi = bytes_pushed_
  BY <1>1 DEF BufferIsUnread, Covers
<1> QED BY <1>1, <1>2, <1>3 DEF Prefix, BufferIsUnread

\* What a pop leaves in the queue: the bytes from `from + len' on.
LEMMA AfterPopCovers ==
    ASSUME TypeOK, BufferIsUnread,
           NEW len \in Nat, len <= bytes_buffered_,
           NEW k \in 0 .. Len(buffer_), PopsWhole(k, len)
    PROVE  /\ AfterPop(k, len) \in Seq(Chunk)
           /\ Covers(AfterPop(k, len), bytes_popped_ + len, bytes_pushed_)
<1> DEFINE n == Len(buffer_)
           cut == len - Prefix(k)
           rest == Suffix(k, cut)
<1>1. n \in Nat /\ k \in Nat /\ k <= n /\ n - k \in Nat
  BY DEF TypeOK
<1>2. \A i \in 1 .. n : /\ buffer_[i].lo \in Nat
                        /\ buffer_[i].hi \in Nat
                        /\ buffer_[i].lo < buffer_[i].hi
  BY QueueChunks
<1>3. \A i \in 1 .. n - 1 : buffer_[i].hi = buffer_[i + 1].lo
  BY DEF BufferIsUnread, Covers
<1>4. n > 0 => buffer_[1].lo = bytes_popped_ /\ buffer_[n].hi = bytes_pushed_
  BY <1>1 DEF BufferIsUnread, Covers
<1>5. n = 0 => bytes_popped_ = bytes_pushed_
  BY DEF BufferIsUnread, Covers
<1>6. Prefix(k) \in Int /\ Prefix(k) <= len /\ cut \in Nat
  BY <1>1, <1>2 DEF Prefix, PopsWhole
<1>7. ASSUME k < n
      PROVE  /\ buffer_[k + 1].lo = bytes_popped_ + Prefix(k)
             /\ buffer_[k + 1].lo + cut < buffer_[k + 1].hi
  BY <1>7, QueueFront
<1>8. ASSUME k = n
      PROVE  bytes_popped_ + len = bytes_pushed_
  BY <1>6, <1>8, QueueEnd DEF BufferIsUnread, TypeOK
<1> DEFINE piece(i) == [lo |-> buffer_[k + i].lo + (IF i = 1 THEN cut ELSE 0),
                        hi |-> buffer_[k + i].hi]
<1>9. rest = [i \in 1 .. n - k |-> piece(i)]
  BY DEF Suffix
<1>10. \A i \in 1 .. n - k :
         /\ piece(i) \in Chunk
         /\ piece(i).lo = buffer_[k + i].lo + (IF i = 1 THEN cut ELSE 0)
         /\ piece(i).hi = buffer_[k + i].hi
  <2> TAKE i \in 1 .. n - k
  <2>1. k + i \in 1 .. n
    BY <1>1
  <2>2. buffer_[k + i].lo \in Nat /\ buffer_[k + i].hi \in Nat
    BY <1>2, <2>1
  <2>3. buffer_[k + i].lo + (IF i = 1 THEN cut ELSE 0) \in Nat
    <3>1. cut \in Nat
      BY <1>6
    <3> HIDE DEF cut
    <3> QED BY <2>2, <3>1
  <2> QED BY <2>2, <2>3 DEF Chunk
<1> HIDE DEF cut, rest, piece
<1>11. rest \in Seq(Chunk) /\ Len(rest) = n - k
  <2>1. rest \in [1 .. n - k -> Chunk]
    BY <1>9, <1>10
  <2> QED BY <1>1, <2>1, SeqOfFunction
<1>12. ASSUME NEW i \in 1 .. n - k
       PROVE  /\ rest[i].lo = buffer_[k + i].lo + (IF i = 1 THEN cut ELSE 0)
              /\ rest[i].hi = buffer_[k + i].hi
  BY <1>9, <1>10
<1>13. Covers(rest, bytes_popped_ + len, bytes_pushed_)
  <2>1. ASSUME NEW i \in 1 .. n - k PROVE rest[i].lo < rest[i].hi
    <3>1. k + i \in 1 .. n /\ k < n
      BY <1>1
    <3>2. /\ rest[i].lo = buffer_[k + i].lo + (IF i = 1 THEN cut ELSE 0)
          /\ rest[i].hi = buffer_[k + i].hi
      BY <1>12
    <3>3. CASE i = 1
      BY <1>7, <3>1, <3>2, <3>3
    <3>4. CASE i # 1
      <4>1. buffer_[k + i].lo \in Nat /\ buffer_[k + i].lo < buffer_[k + i].hi
        BY <1>2, <3>1
      <4> QED BY <3>2, <3>4, <4>1
    <3> QED BY <3>3, <3>4
  <2>2. ASSUME NEW i \in 1 .. n - k - 1 PROVE rest[i].hi = rest[i + 1].lo
    <3>1. /\ i \in 1 .. n - k /\ i + 1 \in 1 .. n - k /\ i + 1 # 1
          /\ k + i \in 1 .. n - 1 /\ k + (i + 1) = (k + i) + 1
      BY <1>1
    <3>2. /\ rest[i].hi = buffer_[k + i].hi
          /\ rest[i + 1].lo = buffer_[k + (i + 1)].lo + 0
      BY <3>1, <1>12
    <3>3. k + (i + 1) \in 1 .. n
      BY <1>1
    <3>4. buffer_[k + (i + 1)].lo \in Nat
      BY <1>2, <3>3
    <3>5. buffer_[k + i].hi = buffer_[(k + i) + 1].lo
      BY <1>3, <3>1
    <3>6. rest[i + 1].lo = buffer_[k + (i + 1)].lo
      BY <3>2, <3>4
    <3> QED BY <3>1, <3>2, <3>5, <3>6
  <2>3. CASE k = n
    BY <1>1, <1>8, <1>11, <2>3 DEF Covers
  <2>4. CASE k < n
    <3>1. rest[1].lo = bytes_popped_ + len
      <4>1. 1 \in 1 .. n - k /\ k + 1 \in 1 .. n
        BY <1>1, <2>4
      <4>2. rest[1].lo = buffer_[k + 1].lo + cut
        BY <1>12, <4>1
      <4>3. cut = len - Prefix(k) /\ bytes_popped_ \in Nat
        BY DEF cut, TypeOK
      <4> QED BY <1>6, <1>7, <2>4, <4>2, <4>3
    <3>2. rest[n - k].hi = bytes_pushed_
      BY <1>1, <1>4, <1>12, <2>4
    <3> QED BY <1>1, <1>11, <2>1, <2>2, <2>4, <3>1, <3>2 DEF Covers
  <2> QED BY <1>1, <2>3, <2>4
<1> QED BY <1>11, <1>13 DEF AfterPop, rest, cut

\* What a read copies: the bytes from bytes_popped_ up to len more, in order.
LEMMA CopiedCovers ==
    ASSUME TypeOK, BufferIsUnread,
           NEW len \in Nat, len <= bytes_buffered_,
           NEW k \in 0 .. Len(buffer_), PopsWhole(k, len)
    PROVE  /\ Copied(k, len) \in Seq(Chunk)
           /\ len = 0 => Len(Copied(k, len)) = 0
           /\ len > 0 => Len(Copied(k, len)) > 0
           /\ Covers(Copied(k, len), bytes_popped_, bytes_popped_ + len)
<1> DEFINE n == Len(buffer_)
           m == IF len > Prefix(k) THEN k + 1 ELSE k
           hi(i) == IF i <= k THEN buffer_[i].hi
                    ELSE buffer_[i].lo + (len - Prefix(k))
           piece(i) == [lo |-> buffer_[i].lo, hi |-> hi(i)]
           copy == Copied(k, len)
<1>1. n \in Nat /\ k \in Nat /\ k <= n /\ bytes_popped_ \in Nat
  BY DEF TypeOK
<1>2. \A i \in 1 .. n : /\ buffer_[i].lo \in Nat
                        /\ buffer_[i].hi \in Nat
                        /\ buffer_[i].lo < buffer_[i].hi
  BY QueueChunks
<1>3. \A i \in 1 .. n - 1 : buffer_[i].hi = buffer_[i + 1].lo
  BY DEF BufferIsUnread, Covers
<1>4. n > 0 => buffer_[1].lo = bytes_popped_
  BY <1>1 DEF BufferIsUnread, Covers
<1>5. Prefix(k) \in Int /\ Prefix(k) <= len
  BY <1>1, <1>2 DEF Prefix, PopsWhole
<1>6. k < n => /\ buffer_[k + 1].lo = bytes_popped_ + Prefix(k)
               /\ buffer_[k + 1].lo + (len - Prefix(k)) < buffer_[k + 1].hi
  BY QueueFront
<1>7. m \in Nat /\ m <= n
  <2>1. k = n => ~(len > Prefix(k))
    BY QueueEnd, <1>5 DEF TypeOK
  <2> QED BY <1>1, <2>1
<1>8. len = 0 => m = 0
  <2>1. ASSUME len = 0, k > 0 PROVE FALSE
    <3>1. Prefix(1) = buffer_[1].hi - buffer_[1].lo /\ Prefix(1) <= 0
      BY <1>1, <2>1 DEF Prefix, PopsWhole
    <3> QED BY <1>1, <1>2, <2>1, <3>1
  <2> QED BY <1>1, <1>5, <2>1 DEF Prefix
<1>9. len > 0 => m > 0
  BY <1>1 DEF Prefix
<1>10. copy = [i \in 1 .. m |-> piece(i)]
  BY DEF Copied
<1>11. ASSUME NEW i \in 1 .. m
       PROVE  /\ piece(i) \in Chunk
              /\ piece(i).lo = buffer_[i].lo
              /\ piece(i).hi = hi(i)
              /\ buffer_[i].lo < hi(i)
  <2>1. i \in 1 .. n /\ (~(i <= k) => i = k + 1 /\ len > Prefix(k) /\ k < n)
    BY <1>1, <1>7
  <2>2. hi(i) \in Nat /\ buffer_[i].lo < hi(i)
    BY <1>1, <1>2, <1>5, <2>1
  <2>3. buffer_[i].lo \in Nat
    BY <1>2, <2>1
  <2> HIDE DEF hi
  <2> QED BY <2>2, <2>3 DEF Chunk
<1> HIDE DEF m, piece, copy
<1>12. copy \in Seq(Chunk) /\ Len(copy) = m
  <2>1. copy \in [1 .. m -> Chunk]
    BY <1>10, <1>11
  <2> QED BY <1>7, <2>1, SeqOfFunction
<1>13. ASSUME NEW i \in 1 .. m
       PROVE  copy[i].lo = buffer_[i].lo /\ copy[i].hi = hi(i)
  BY <1>10, <1>11
<1>14. \A i \in 1 .. m : copy[i].lo < copy[i].hi
  BY <1>11, <1>13
<1>15. ASSUME NEW i \in 1 .. m - 1 PROVE copy[i].hi = copy[i + 1].lo
  <2>1. i \in 1 .. m /\ i + 1 \in 1 .. m /\ i <= k /\ i \in 1 .. n - 1
    BY <1>1, <1>7 DEF m
  <2> QED BY <1>3, <1>13, <2>1
<1>16. ASSUME m > 0
       PROVE  copy[1].lo = bytes_popped_ /\ copy[m].hi = bytes_popped_ + len
  <2>1. 1 \in 1 .. m /\ m \in 1 .. m /\ n > 0
    BY <1>7, <1>16
  <2>2. CASE len > Prefix(k)
    <3>1. m = k + 1 /\ k < n
      BY <1>1, <1>7, <2>2 DEF m
    <3>2. copy[m].hi = buffer_[k + 1].lo + (len - Prefix(k))
      BY <1>1, <1>13, <2>1, <3>1
    <3> QED BY <1>1, <1>4, <1>5, <1>6, <1>13, <2>1, <3>1, <3>2
  <2>3. CASE ~(len > Prefix(k))
    <3>1. m = k /\ k > 0 /\ Prefix(k) = len
      BY <1>1, <1>5, <1>16, <2>3 DEF m
    <3>2. Prefix(k) = buffer_[k].hi - bytes_popped_
      BY <1>4, <2>1, <3>1 DEF Prefix
    <3>3. copy[m].hi = buffer_[k].hi /\ buffer_[k].hi \in Nat
      BY <1>1, <1>2, <1>13, <2>1, <3>1
    <3> QED BY <1>1, <1>4, <1>13, <2>1, <3>1, <3>2, <3>3
  <2> QED BY <2>2, <2>3
<1>17. m = 0 => len = 0
  BY <1>7, <1>9
<1>18. Covers(copy, bytes_popped_, bytes_popped_ + len)
  BY <1>1, <1>7, <1>12, <1>14, <1>15, <1>16, <1>17 DEF Covers
<1> QED BY <1>7, <1>8, <1>9, <1>12, <1>18 DEF copy
-----------------------------------------------------------------------------
\* The inductive invariant, action by action.

\* A pushed string extends the queue at its end.
LEMMA PushPreserves ==
    ASSUME IInv, NEW n \in 1 .. MaxString, push(n)
    PROVE  IInv'
<1> DEFINE k == Kept(n)
           c == [lo |-> bytes_pushed_, hi |-> bytes_pushed_ + k]
<1> USE ByteStreamAssumption
<1>1. /\ TypeOK /\ BufferIsUnread /\ OutIsARun
      /\ bytes_pushed_ \in Nat /\ bytes_popped_ \in Nat /\ bytes_buffered_ \in Nat
      /\ buffer_ \in Seq(Chunk) /\ Len(buffer_) \in Nat
  BY DEF IInv, TypeOK
<1>2. k \in Nat /\ k > 0 /\ bytes_buffered_ + k <= Capacity
  BY <1>1 DEF push, Kept, available_capacity
<1>3. /\ bytes_pushed_' = bytes_pushed_ + k
      /\ bytes_buffered_' = bytes_buffered_ + k
      /\ buffer_' = Append(buffer_, c)
      /\ UNCHANGED <<bytes_popped_, is_closed_, has_error_, out>>
  BY DEF push
<1> HIDE DEF k
<1>4. c \in Chunk /\ c.lo = bytes_pushed_ /\ c.hi = bytes_pushed_ + k
  BY <1>1, <1>2 DEF Chunk
<1> HIDE DEF c
<1>5. /\ buffer_' \in Seq(Chunk)
      /\ Len(buffer_') = Len(buffer_) + 1
      /\ \A i \in 1 .. Len(buffer_) : buffer_'[i] = buffer_[i]
      /\ buffer_'[Len(buffer_) + 1] = c
  BY <1>1, <1>3, <1>4
<1>6. TypeOK'
  BY <1>1, <1>2, <1>3, <1>5 DEF TypeOK
<1>7. Covers(buffer_', bytes_popped_, bytes_pushed_ + k)
  <2>1. \A i \in 1 .. Len(buffer_') : buffer_'[i].lo < buffer_'[i].hi
    <3>1. \A i \in 1 .. Len(buffer_) : buffer_'[i].lo < buffer_'[i].hi
      BY <1>1, <1>5 DEF BufferIsUnread, Covers
    <3>2. buffer_'[Len(buffer_) + 1].lo < buffer_'[Len(buffer_) + 1].hi
      BY <1>1, <1>2, <1>4, <1>5
    <3> QED BY <1>1, <1>5, <3>1, <3>2
  <2>2. Len(buffer_) > 0 => /\ buffer_[1].lo = bytes_popped_
                            /\ buffer_[Len(buffer_)].hi = bytes_pushed_
    BY <1>1 DEF BufferIsUnread, Covers
  <2>3. \A i \in 1 .. Len(buffer_') - 1 : buffer_'[i].hi = buffer_'[i + 1].lo
    <3>1. \A i \in 1 .. Len(buffer_) - 1 : buffer_'[i].hi = buffer_'[i + 1].lo
      BY <1>1, <1>5 DEF BufferIsUnread, Covers
    <3>2. Len(buffer_) > 0 => buffer_'[Len(buffer_)].hi = buffer_'[Len(buffer_) + 1].lo
      BY <1>1, <1>4, <1>5, <2>2
    <3> QED BY <1>1, <1>5, <3>1, <3>2
  <2>4. Len(buffer_) = 0 => bytes_popped_ = bytes_pushed_
    BY <1>1 DEF BufferIsUnread, Covers
  <2> QED BY <1>1, <1>4, <1>5, <2>1, <2>2, <2>3, <2>4 DEF Covers
<1>8. BufferIsUnread'
  BY <1>1, <1>2, <1>3, <1>7 DEF BufferIsUnread
<1>9. OutIsARun'
  BY <1>1, <1>3 DEF OutIsARun
<1> QED BY <1>6, <1>8, <1>9 DEF IInv

\* Taking len bytes out leaves the queue and the counters together.
LEMMA DequeuePreserves ==
    ASSUME TypeOK, BufferIsUnread, NEW len \in Nat, len <= bytes_buffered_,
           NEW k \in 0 .. Len(buffer_), PopsWhole(k, len), Dequeue(k, len)
    PROVE  /\ buffer_' \in Seq(Chunk)
           /\ bytes_pushed_' \in Nat /\ bytes_popped_' \in Nat
           /\ bytes_buffered_' \in Nat
           /\ is_closed_' \in BOOLEAN /\ has_error_' \in BOOLEAN
           /\ BufferIsUnread'
<1> USE ByteStreamAssumption
<1>1. /\ AfterPop(k, len) \in Seq(Chunk)
      /\ Covers(AfterPop(k, len), bytes_popped_ + len, bytes_pushed_)
  BY AfterPopCovers
<1> QED BY <1>1 DEF Dequeue, TypeOK, BufferIsUnread

THEOREM StepPreserves == IInv /\ [Next]_vars => IInv'
<1> SUFFICES ASSUME IInv, [Next]_vars PROVE IInv'
  OBVIOUS
<1> USE ByteStreamAssumption
<1>0. TypeOK /\ BufferIsUnread /\ OutIsARun /\ bytes_buffered_ \in Nat
  BY DEF IInv, TypeOK
<1>1. ASSUME NEW n \in 1 .. MaxString, push(n) PROVE IInv'
  BY <1>1, PushPreserves
<1>2. CASE close
  BY <1>0, <1>2 DEF IInv, close, TypeOK, BufferIsUnread, OutIsARun
<1>3. CASE set_error
  BY <1>0, <1>3 DEF IInv, set_error, TypeOK, BufferIsUnread, OutIsARun
<1>4. ASSUME NEW len \in 1 .. MaxString, pop(len) PROVE IInv'
  <2>1. PICK k \in 0 .. Len(buffer_) : PopsWhole(k, len) /\ Dequeue(k, len)
    BY <1>4 DEF pop
  <2>2. len \in Nat /\ len <= bytes_buffered_ /\ UNCHANGED out
    BY <1>4 DEF pop
  <2>3. TypeOK' /\ BufferIsUnread'
    BY <1>0, <2>1, <2>2, DequeuePreserves DEF TypeOK
  <2>4. OutIsARun'
    <3>1. out \in Seq(Chunk) /\ bytes_popped_ \in Nat
      BY <1>0 DEF TypeOK
    <3>2. Len(out) > 0 => out[Len(out)] \in Chunk
      BY <3>1
    <3>3. Len(out) > 0 => out[Len(out)].hi \in Nat
      BY <3>2 DEF Chunk
    <3>4. bytes_popped_' = bytes_popped_ + len /\ out' = out
      BY <2>1, <2>2 DEF Dequeue
    <3> QED BY <1>0, <2>2, <3>1, <3>3, <3>4 DEF OutIsARun
  <2> QED BY <2>3, <2>4 DEF IInv
<1>5. ASSUME NEW len \in 0 .. MaxString, read(len) PROVE IInv'
  <2> DEFINE w == Wanted(len)
  <2>1. PICK k \in 0 .. Len(buffer_) :
           PopsWhole(k, w) /\ Dequeue(k, w) /\ out' = Copied(k, w)
    BY <1>5 DEF read
  <2>2. w \in Nat /\ w <= bytes_buffered_
    BY <1>0 DEF Wanted
  <2> HIDE DEF w
  <2>3. /\ out' \in Seq(Chunk)
        /\ Covers(out', bytes_popped_, bytes_popped_ + w)
    BY <1>0, <2>1, <2>2, CopiedCovers
  <2>4. TypeOK' /\ BufferIsUnread'
    BY <1>0, <2>1, <2>2, <2>3, DequeuePreserves DEF TypeOK
  <2>5. bytes_popped_' = bytes_popped_ + w
    BY <2>1 DEF Dequeue
  <2>6. Len(out') > 0 => /\ out'[1].lo = bytes_popped_
                         /\ out'[Len(out')].hi = bytes_popped_ + w
    BY <2>3 DEF Covers
  <2>7. OutIsARun'
    BY <1>0, <2>2, <2>3, <2>5, <2>6 DEF OutIsARun, TypeOK
  <2> QED BY <2>4, <2>7 DEF IInv
<1>6. CASE UNCHANGED vars
  BY <1>0, <1>6 DEF IInv, vars, TypeOK, BufferIsUnread, OutIsARun
<1> QED BY <1>1, <1>2, <1>3, <1>4, <1>5, <1>6 DEF Next

THEOREM InitIInv == Init => IInv
<1> SUFFICES ASSUME Init PROVE IInv
  OBVIOUS
<1>1. TypeOK
  <2>1. <<>> \in Seq(Chunk)
    OBVIOUS
  <2> QED BY <2>1 DEF Init, TypeOK
<1>2. BufferIsUnread
  BY ByteStreamAssumption DEF Init, BufferIsUnread, Covers
<1>3. OutIsARun
  BY DEF Init, OutIsARun
<1> QED BY <1>1, <1>2, <1>3 DEF IInv

\* Every reachable state satisfies the inductive invariant.
THEOREM Invariance == Spec => []IInv
  BY InitIInv, StepPreserves, PTL DEF Spec

\* The variables keep the types of the C++ fields.
THEOREM TypeCorrect == Spec => []TypeOK
<1>1. IInv => TypeOK
  BY DEF IInv
<1> QED BY <1>1, Invariance, PTL

\* byte_stream.cc: the counters and the queue always describe the same bytes,
\* the unread ones, whatever is pushed, popped or read.
THEOREM BufferAlwaysUnread == Spec => []BufferIsUnread
<1>1. IInv => BufferIsUnread
  BY DEF IInv
<1> QED BY <1>1, Invariance, PTL

\* What read() returned is a run of the stream that has left the buffer.
THEOREM OutAlwaysARun == Spec => []OutIsARun
<1>1. IInv => OutIsARun
  BY DEF IInv
<1> QED BY <1>1, Invariance, PTL
-----------------------------------------------------------------------------
\* Refinement: the queue of strings implements the bounded FIFO.

LEMMA InitRefines == Init => Abstract!Init
<1> SUFFICES ASSUME Init PROVE Abstract!Init
  OBVIOUS
<1> QED BY DEF Init, Abstract!Init, Abstract!EmptyStream, Abstract!Span

\* A step that takes len bytes out is a pop of the abstract stream.
LEMMA DequeueRefines ==
    ASSUME TypeOK, BufferIsUnread, NEW len \in Nat, len <= bytes_buffered_,
           NEW k \in 0 .. Len(buffer_), Dequeue(k, len)
    PROVE  /\ bytes_buffered_ = bytes_pushed_ - bytes_popped_
           /\ [capacity |-> Capacity, pushed |-> bytes_pushed_,
               popped |-> bytes_popped_, closed |-> is_closed_,
               error |-> has_error_]'
              = Abstract!PopFrom([capacity |-> Capacity, pushed |-> bytes_pushed_,
                   popped |-> bytes_popped_, closed |-> is_closed_,
                   error |-> has_error_], len)
  BY DEF BufferIsUnread, Dequeue, Abstract!PopFrom

\* The abstract stream as the concrete variables stand for it.
StreamView == [capacity |-> Capacity, pushed |-> bytes_pushed_,
               popped |-> bytes_popped_, closed |-> is_closed_,
               error |-> has_error_]

TakenView == IF Len(out) = 0 THEN [from |-> 0, to |-> 0]
             ELSE [from |-> out[1].lo, to |-> out[Len(out)].hi]

\* Raising a flag of the abstract stream.  The flag's value is hidden from the
\* solver, which does not mix Booleans with the other fields.
LEMMA ClosedFlag ==
    [StreamView EXCEPT !.closed = TRUE]
      = [capacity |-> Capacity, pushed |-> bytes_pushed_,
         popped |-> bytes_popped_, closed |-> TRUE, error |-> has_error_]
<1> DEFINE t == TRUE
<1>1. t = TRUE
  OBVIOUS
<1> HIDE DEF t
<1>2. [StreamView EXCEPT !.closed = t]
      = [capacity |-> Capacity, pushed |-> bytes_pushed_,
         popped |-> bytes_popped_, closed |-> t, error |-> has_error_]
  BY SMT DEF StreamView
<1> QED BY <1>1, <1>2, Zenon

LEMMA ErrorFlag ==
    [StreamView EXCEPT !.error = TRUE]
      = [capacity |-> Capacity, pushed |-> bytes_pushed_,
         popped |-> bytes_popped_, closed |-> is_closed_, error |-> TRUE]
<1> DEFINE t == TRUE
<1>1. t = TRUE
  OBVIOUS
<1> HIDE DEF t
<1>2. [StreamView EXCEPT !.error = t]
      = [capacity |-> Capacity, pushed |-> bytes_pushed_,
         popped |-> bytes_popped_, closed |-> is_closed_, error |-> t]
  BY SMT DEF StreamView
<1> QED BY <1>1, <1>2, Zenon

\* Every step of the queue of strings is a step of the bounded FIFO, or
\* leaves it as it is.
THEOREM StepRefines == IInv /\ [Next]_vars => [Abstract!Next]_(Abstract!streamVars)
<1> SUFFICES ASSUME IInv, [Next]_vars
             PROVE  Abstract!Next \/ UNCHANGED <<StreamView, TakenView>>
  BY DEF Abstract!streamVars, StreamView, TakenView
<1>0. /\ TypeOK /\ BufferIsUnread
      /\ bytes_buffered_ = bytes_pushed_ - bytes_popped_
      /\ bytes_pushed_ \in Nat /\ bytes_popped_ \in Nat /\ bytes_buffered_ \in Nat
      /\ Capacity \in Nat /\ bytes_buffered_ <= Capacity
  BY ByteStreamAssumption DEF IInv, TypeOK, BufferIsUnread
<1>1. ASSUME NEW n \in 1 .. MaxString, push(n) PROVE Abstract!Next
  <2> DEFINE k == Kept(n)
  <2>1. k \in 1 .. (Capacity - bytes_buffered_)
    BY <1>0, <1>1 DEF push, Kept, available_capacity
  <2>2. Abstract!Available(StreamView) = Capacity - bytes_buffered_
    BY <1>0 DEF Abstract!Available, Abstract!Buffered, StreamView
  <2>3. Abstract!Fitting(StreamView, k) = k
    BY <2>1, <2>2 DEF Abstract!Fitting, Abstract!AtMost
  <2>4. StreamView' = Abstract!PushTo(StreamView, k) /\ TakenView' = TakenView
    BY <1>1, <2>3 DEF push, Abstract!PushTo, StreamView, TakenView
  <2> HIDE DEF k
  <2>5. Abstract!Write
    BY <2>1, <2>2, <2>4 DEF Abstract!Write, StreamView, TakenView
  <2> QED BY <2>5 DEF Abstract!Next
<1>2. CASE close
  <2>1. StreamView' = [capacity |-> Capacity, pushed |-> bytes_pushed_,
                     popped |-> bytes_popped_, closed |-> TRUE,
                     error |-> has_error_]
    BY <1>2, Zenon DEF close, StreamView
  <2>2. StreamView' = Abstract!CloseStream(StreamView)
    BY <2>1, ClosedFlag, Zenon DEF Abstract!CloseStream
  <2>3. TakenView' = TakenView
    BY <1>2 DEF close, TakenView
  <2>4. Abstract!Close
    BY <2>2, <2>3, Zenon DEF Abstract!Close, StreamView, TakenView
  <2> QED BY <2>4 DEF Abstract!Next
<1>3. CASE set_error
  <2>1. StreamView' = [capacity |-> Capacity, pushed |-> bytes_pushed_,
                     popped |-> bytes_popped_, closed |-> is_closed_,
                     error |-> TRUE]
    BY <1>3, Zenon DEF set_error, StreamView
  <2>2. StreamView' = Abstract!FailStream(StreamView)
    BY <2>1, ErrorFlag, Zenon DEF Abstract!FailStream
  <2>3. TakenView' = TakenView
    BY <1>3 DEF set_error, TakenView
  <2>4. Abstract!Fail
    BY <2>2, <2>3, Zenon DEF Abstract!Fail, StreamView, TakenView
  <2> QED BY <2>4 DEF Abstract!Next
<1>4. ASSUME NEW len \in 1 .. MaxString, pop(len) PROVE Abstract!Next
  <2>1. PICK k \in 0 .. Len(buffer_) : PopsWhole(k, len) /\ Dequeue(k, len)
    BY <1>4 DEF pop
  <2>2. len \in Nat /\ len > 0 /\ len <= bytes_buffered_ /\ TakenView' = TakenView
    BY <1>4 DEF pop, TakenView
  <2>3. StreamView' = Abstract!PopFrom(StreamView, len)
    BY <1>0, <2>1, <2>2, DequeueRefines DEF StreamView
  <2>4. len \in 1 .. Abstract!Buffered(StreamView)
    BY <1>0, <2>2 DEF Abstract!Buffered, StreamView
  <2>5. Abstract!Discard
    BY <2>2, <2>3, <2>4 DEF Abstract!Discard, StreamView, TakenView
  <2> QED BY <2>5 DEF Abstract!Next
<1>5. ASSUME NEW len \in 0 .. MaxString, read(len) PROVE Abstract!Next
  <2> DEFINE w == Wanted(len)
  <2>1. PICK k \in 0 .. Len(buffer_) :
           PopsWhole(k, w) /\ Dequeue(k, w) /\ out' = Copied(k, w)
    BY <1>5 DEF read
  <2>2. w \in Nat /\ w <= bytes_buffered_
    BY <1>0 DEF Wanted
  <2> HIDE DEF w
  <2>3. StreamView' = Abstract!PopFrom(StreamView, w)
    BY <1>0, <2>1, <2>2, DequeueRefines DEF StreamView
  <2>4. w \in 0 .. Abstract!Buffered(StreamView)
    BY <1>0, <2>2 DEF Abstract!Buffered, StreamView
  <2>5. TakenView' = Abstract!Span(bytes_popped_, bytes_popped_ + w)
    <3>1. /\ w = 0 => Len(out') = 0
          /\ w > 0 => Len(out') > 0
          /\ Covers(out', bytes_popped_, bytes_popped_ + w)
          /\ out' \in Seq(Chunk)
      BY <1>0, <2>1, <2>2, CopiedCovers
    <3>2. CASE w = 0
      BY <1>0, <3>1, <3>2 DEF TakenView, Abstract!Span
    <3>3. CASE w > 0
      <4>1. /\ out'[1].lo = bytes_popped_
            /\ out'[Len(out')].hi = bytes_popped_ + w
            /\ bytes_popped_ # bytes_popped_ + w
            /\ Len(out') # 0
        BY <1>0, <3>1, <3>3, <2>2 DEF Covers
      <4> QED BY <4>1 DEF TakenView, Abstract!Span
    <3> QED BY <2>2, <3>2, <3>3
  <2>6. Abstract!Take
    BY <2>3, <2>4, <2>5 DEF Abstract!Take, StreamView, TakenView
  <2> QED BY <2>6 DEF Abstract!Next
<1>6. CASE UNCHANGED vars
  BY <1>6 DEF vars, StreamView, TakenView
<1> QED BY <1>1, <1>2, <1>3, <1>4, <1>5, <1>6 DEF Next

\* The ByteStream implements the bounded FIFO of bytes: a read returns exactly
\* the oldest unread bytes, in order, each once, for every capacity.
THEOREM Refinement == Spec => ImplementsStream
<1>1. Spec => Init /\ [][Next]_vars /\ []IInv
  BY Invariance DEF Spec
<1>2. Init /\ [][Next]_vars /\ []IInv => Abstract!Init /\ [][Abstract!Next]_(Abstract!streamVars)
  BY InitRefines, StepRefines, PTL
<1> QED BY <1>1, <1>2 DEF ImplementsStream, Abstract!Spec

-----------------------------------------------------------------------------
\* The loops of pop and read

\* What holds of zero and is handed on holds up to n.
LEMMA Climb ==
    ASSUME NEW n \in Nat, NEW S, 0 \in S, \A k \in 0 .. n - 1 : k \in S => k + 1 \in S
    PROVE  \A k \in 0 .. n : k \in S
  <1> DEFINE T == {k \in 0 .. n : k \notin S}
             R == {ss \in Nat \X Nat : ss[1] < ss[2]}
  <1> SUFFICES ASSUME T # {} PROVE FALSE
    OBVIOUS
  <1>1. R = OpToRel(<, Nat)
    BY DEF OpToRel
  <1>2. IsWellFoundedOn(R, Nat)
    BY <1>1, NatLessThanWellFounded
  <1>3. \A x, y \in Nat : <<x, y>> \in R <=> x < y
    OBVIOUS
  <1>4. T \in SUBSET Nat
    OBVIOUS
  <1> HIDE DEF R
  <1>5. PICK m \in T : \A y \in T : ~ (<<y, m>> \in R)
    <2> HIDE DEF T
    <2> QED
      BY <1>2, <1>4, WFMin
  <1>6. m \in Nat /\ m # 0 /\ m \in 0 .. n
    BY <1>4, <1>5
  <1>7. m - 1 \in Nat /\ m - 1 \in 0 .. n - 1 /\ m - 1 < m
    BY <1>6
  <1>8. m - 1 \notin T
    BY <1>3, <1>5, <1>6, <1>7
  <1>9. m - 1 \in S
    BY <1>7, <1>8
  <1> QED
    BY <1>5, <1>6, <1>7, <1>9

\* Strings that follow each other, as in the queue; the size of the first i of
\* them, and the others.
Run(q) ==
    /\ q \in Seq(Chunk)
    /\ \A i \in 1 .. Len(q) : q[i].lo < q[i].hi
    /\ \A i \in 1 .. Len(q) - 1 : q[i].hi = q[i + 1].lo

Before(q, i) == IF i = 0 THEN 0 ELSE q[i].hi - q[1].lo

From(q, j) == [i \in 1 .. Len(q) - j |-> q[j + i]]

\* What is left when cut bytes of the string in front are gone too.
Rest(q, j, cut) ==
    [i \in 1 .. Len(q) - j |->
        [lo |-> q[j + i].lo + (IF i = 1 THEN cut ELSE 0), hi |-> q[j + i].hi]]

LEMMA RunFacts ==
    ASSUME NEW q, Run(q)
    PROVE  /\ Len(q) \in Nat
           /\ \A i \in 1 .. Len(q) :
                /\ q[i] \in Chunk /\ q[i].lo \in Nat /\ q[i].hi \in Nat
                /\ q[i].lo < q[i].hi /\ Size(q[i]) \in Nat /\ Size(q[i]) > 0
                /\ q[i] = [lo |-> q[i].lo, hi |-> q[i].hi]
           /\ \A i \in 1 .. Len(q) - 1 : q[i].hi = q[i + 1].lo
           /\ \A i \in 0 .. Len(q) : Before(q, i) \in Int
           /\ \A i \in 0 .. Len(q) - 1 : Before(q, i + 1) = Before(q, i) + Size(q[i + 1])
<1>1. /\ Len(q) \in Nat
      /\ \A i \in 1 .. Len(q) : q[i] \in Chunk
      /\ \A i \in 1 .. Len(q) : q[i].lo < q[i].hi
      /\ \A i \in 1 .. Len(q) - 1 : q[i].hi = q[i + 1].lo
  BY DEF Run
<1>2. \A c \in Chunk : /\ c.lo \in Nat /\ c.hi \in Nat
                        /\ c = [lo |-> c.lo, hi |-> c.hi]
  BY DEF Chunk
<1>3. ASSUME NEW i \in 1 .. Len(q)
      PROVE  /\ q[i] \in Chunk /\ q[i].lo \in Nat /\ q[i].hi \in Nat
             /\ q[i] = [lo |-> q[i].lo, hi |-> q[i].hi]
             /\ q[i].lo < q[i].hi
             /\ Size(q[i]) \in Nat /\ Size(q[i]) > 0
             /\ Size(q[i]) = q[i].hi - q[i].lo
  <2>1. /\ q[i] \in Chunk /\ q[i].lo \in Nat /\ q[i].hi \in Nat
        /\ q[i] = [lo |-> q[i].lo, hi |-> q[i].hi]
        /\ q[i].lo < q[i].hi
    BY <1>1, <1>2
  <2>2. Size(q[i]) = q[i].hi - q[i].lo
    BY DEF Size
  <2> QED BY <2>1, <2>2
<1>4. ASSUME NEW i \in 0 .. Len(q)
      PROVE  Before(q, i) \in Int
  <2>1. CASE i = 0
    BY <2>1 DEF Before
  <2>2. CASE i # 0
    <3>1. /\ i \in 1 .. Len(q) /\ 1 \in 1 .. Len(q)
      BY <1>1, <2>2
    <3>2. q[i].hi \in Nat /\ q[1].lo \in Nat
      BY <1>3, <3>1
    <3> QED BY <2>2, <3>2 DEF Before
  <2> QED BY <2>1, <2>2
<1>5. ASSUME NEW i \in 0 .. Len(q) - 1
      PROVE  Before(q, i + 1) = Before(q, i) + Size(q[i + 1])
  <2>1. i + 1 \in 1 .. Len(q) /\ i + 1 # 0
    BY <1>1
  <2>2. 1 \in 1 .. Len(q) /\ i \in Int
    BY <1>1
  <2>3. /\ q[i + 1].lo \in Nat /\ q[i + 1].hi \in Nat /\ q[1].lo \in Nat
        /\ Size(q[i + 1]) = q[i + 1].hi - q[i + 1].lo
    BY <1>3, <2>1, <2>2
  <2>4. Before(q, i + 1) = q[i + 1].hi - q[1].lo
    BY <2>1 DEF Before
  <2>5. CASE i = 0
    <3>1. Before(q, i) = 0 /\ i + 1 = 1
      BY <2>5 DEF Before
    <3> QED BY <2>3, <2>4, <3>1
  <2>6. CASE i # 0
    <3>1. i \in 1 .. Len(q) - 1 /\ i \in 1 .. Len(q)
      BY <1>1, <2>6
    <3>2. q[i].hi = q[i + 1].lo
      BY <1>1, <3>1
    <3>3. Before(q, i) = q[i].hi - q[1].lo
      BY <2>6 DEF Before
    <3> QED BY <2>3, <2>4, <3>2, <3>3
  <2> QED BY <2>5, <2>6
<1> QED BY <1>1, <1>3, <1>4, <1>5

\* The strings behind the first j.
LEMMA FromFacts ==
    ASSUME NEW q, Run(q), NEW j \in 0 .. Len(q)
    PROVE  /\ Run(From(q, j))
           /\ Len(From(q, j)) = Len(q) - j
           /\ \A i \in 1 .. Len(q) - j : From(q, j)[i] = q[j + i]
           /\ j < Len(q) => /\ From(q, j) # <<>>
                            /\ Head(From(q, j)) = q[j + 1]
                            /\ Tail(From(q, j)) = From(q, j + 1)
           /\ j = Len(q) => From(q, j) = <<>>
<1>1. PICK n : n = Len(q)
  OBVIOUS
<1>2. PICK r : r = From(q, j)
  OBVIOUS
<1>3. /\ n \in Nat /\ j \in Nat /\ j <= n /\ n - j \in Nat
      /\ \A i \in 1 .. n : q[i] \in Chunk /\ q[i].lo < q[i].hi
      /\ \A i \in 1 .. n - 1 : q[i].hi = q[i + 1].lo
  <2>1. /\ Len(q) \in Nat
        /\ \A i \in 1 .. Len(q) : q[i] \in Chunk /\ q[i].lo < q[i].hi
        /\ \A i \in 1 .. Len(q) - 1 : q[i].hi = q[i + 1].lo
    BY RunFacts
  <2> QED BY <1>1, <2>1
<1>4. r = [i \in 1 .. n - j |-> q[j + i]]
  BY <1>1, <1>2 DEF From
<1>5. \A i \in 1 .. n - j : r[i] = q[j + i] /\ j + i \in 1 .. n
  BY <1>3, <1>4
<1>6. r \in Seq(Chunk) /\ Len(r) = n - j
  <2>1. r \in [1 .. n - j -> Chunk]
    BY <1>3, <1>4, <1>5
  <2> QED BY <1>3, <2>1, SeqOfFunction
<1>7. Run(r)
  <2>1. \A i \in 1 .. n - j : r[i].lo < r[i].hi
    <3> SUFFICES ASSUME NEW i \in 1 .. n - j PROVE r[i].lo < r[i].hi
      OBVIOUS
    <3>1. r[i] = q[j + i] /\ j + i \in 1 .. n
      BY <1>5
    <3>2. q[j + i].lo < q[j + i].hi
      BY <1>3, <3>1
    <3> QED BY <3>1, <3>2
  <2>2. ASSUME NEW i \in 1 .. n - j - 1
        PROVE  r[i].hi = r[i + 1].lo
    <3>1. /\ i \in 1 .. n - j /\ i + 1 \in 1 .. n - j /\ j + i \in 1 .. n - 1
          /\ j + (i + 1) = (j + i) + 1
      BY <1>3
    <3>2. r[i] = q[j + i] /\ r[i + 1] = q[(j + i) + 1]
      BY <1>5, <3>1
    <3>3. q[j + i].hi = q[(j + i) + 1].lo
      BY <1>3, <3>1
    <3> QED BY <3>2, <3>3
  <2> QED BY <1>6, <2>1, <2>2 DEF Run
<1>8. ASSUME j < n
      PROVE  r # <<>> /\ Head(r) = q[j + 1] /\ Tail(r) = From(q, j + 1)
  <2>1. 1 \in 1 .. n - j /\ Len(r) # 0
    BY <1>3, <1>6, <1>8
  <2>2. r # <<>> /\ Head(r) = r[1]
    BY <1>6, <2>1, EmptySeq, HeadTailProperties
  <2>3. PICK t : t = Tail(r)
    OBVIOUS
  <2>4. t \in Seq(Chunk) /\ Len(t) = n - (j + 1)
        /\ \A i \in 1 .. Len(t) : t[i] = r[i + 1]
    BY <1>3, <1>6, <2>2, <2>3, HeadTailProperties
  <2>5. t = [i \in 1 .. n - (j + 1) |-> t[i]]
    BY <2>4
  <2>6. \A i \in 1 .. n - (j + 1) : t[i] = q[(j + 1) + i]
    <3> SUFFICES ASSUME NEW i \in 1 .. n - (j + 1) PROVE t[i] = q[(j + 1) + i]
      OBVIOUS
    <3>1. n \in Nat /\ j \in Nat /\ i \in Nat
      BY <1>3
    <3>2. i + 1 \in 1 .. n - j /\ j + (i + 1) = (j + 1) + i
      BY <3>1
    <3> QED BY <1>5, <2>4, <3>2
  <2>7. From(q, j + 1) = [i \in 1 .. n - (j + 1) |-> q[(j + 1) + i]]
    BY <1>1 DEF From
  <2>8. t = From(q, j + 1)
    BY <2>5, <2>6, <2>7
  <2> QED BY <1>5, <2>1, <2>2, <2>3, <2>8
<1>9. ASSUME j = n
      PROVE  r = <<>>
  BY <1>3, <1>6, <1>9, EmptySeq
<1> QED BY <1>1, <1>2, <1>5, <1>6, <1>7, <1>8, <1>9

LEMMA FromStart ==
    ASSUME NEW q, Run(q)
    PROVE  From(q, 0) = q
<1>1. q \in Seq(Chunk) /\ Len(q) \in Nat
  BY RunFacts DEF Run
<1>2. q = [i \in 1 .. Len(q) |-> q[i]]
  BY <1>1
<1>3. From(q, 0) = [i \in 1 .. Len(q) |-> q[i]]
  BY <1>1 DEF From
<1> QED BY <1>2, <1>3

\* With nothing cut, Rest is From; otherwise it cuts the string in front.
LEMMA RestFacts ==
    ASSUME NEW q, Run(q), NEW j \in 0 .. Len(q), NEW cut \in Nat
    PROVE  /\ cut = 0 => Rest(q, j, cut) = From(q, j)
           /\ j < Len(q) =>
                Rest(q, j, cut) = <<[lo |-> q[j + 1].lo + cut, hi |-> q[j + 1].hi]>>
                                    \o From(q, j + 1)
<1>1. PICK n : n = Len(q)
  OBVIOUS
<1>2. /\ n \in Nat /\ j \in Nat /\ j <= n
      /\ \A i \in 1 .. n : /\ q[i] \in Chunk /\ q[i].lo \in Nat /\ q[i].hi \in Nat
                            /\ q[i] = [lo |-> q[i].lo, hi |-> q[i].hi]
  <2>1. /\ Len(q) \in Nat
        /\ \A i \in 1 .. Len(q) : q[i] \in Chunk /\ q[i].lo \in Nat /\ q[i].hi \in Nat
                                  /\ q[i] = [lo |-> q[i].lo, hi |-> q[i].hi]
    BY RunFacts
  <2> QED BY <1>1, <2>1
<1>3. Rest(q, j, cut) =
        [i \in 1 .. n - j |->
           [lo |-> q[j + i].lo + (IF i = 1 THEN cut ELSE 0), hi |-> q[j + i].hi]]
  BY <1>1 DEF Rest
<1>4. ASSUME cut = 0
      PROVE  Rest(q, j, cut) = From(q, j)
  <2>1. ASSUME NEW i \in 1 .. n - j
        PROVE  [lo |-> q[j + i].lo + (IF i = 1 THEN cut ELSE 0), hi |-> q[j + i].hi] = q[j + i]
    <3>1. j + i \in 1 .. n
      BY <1>2
    <3>2. /\ q[j + i].lo \in Nat
          /\ q[j + i] = [lo |-> q[j + i].lo, hi |-> q[j + i].hi]
      BY <1>2, <3>1
    <3>3. q[j + i].lo + (IF i = 1 THEN cut ELSE 0) = q[j + i].lo
      BY <1>4, <3>2
    <3> QED BY <3>2, <3>3
  <2>2. From(q, j) = [i \in 1 .. n - j |-> q[j + i]]
    BY <1>1 DEF From
  <2> QED BY <1>3, <2>1, <2>2
<1>5. ASSUME j < n
      PROVE  Rest(q, j, cut) = <<[lo |-> q[j + 1].lo + cut, hi |-> q[j + 1].hi]>>
                                 \o From(q, j + 1)
  <2>1. PICK c \in Chunk : c = [lo |-> q[j + 1].lo + cut, hi |-> q[j + 1].hi]
    <3>1. j + 1 \in 1 .. n
      BY <1>2, <1>5
    <3>2. q[j + 1].lo \in Nat /\ q[j + 1].hi \in Nat
      BY <1>2, <3>1
    <3>3. q[j + 1].lo + cut \in Nat
      BY <3>2
    <3> QED BY <3>2, <3>3 DEF Chunk
  <2>2. PICK r : r = From(q, j + 1)
    OBVIOUS
  <2>3. /\ r \in Seq(Chunk) /\ Len(r) = n - (j + 1)
        /\ \A i \in 1 .. n - (j + 1) : r[i] = q[(j + 1) + i]
    <3>1. j + 1 \in 0 .. Len(q)
      BY <1>1, <1>2, <1>5
    <3>2. /\ Run(From(q, j + 1)) /\ Len(From(q, j + 1)) = Len(q) - (j + 1)
          /\ \A i \in 1 .. Len(q) - (j + 1) : From(q, j + 1)[i] = q[(j + 1) + i]
      BY <3>1, FromFacts
    <3>3. From(q, j + 1) \in Seq(Chunk)
      BY <3>2 DEF Run
    <3> QED BY <1>1, <2>2, <3>2, <3>3
  <2>4. PICK z : z = <<c>> \o r
    OBVIOUS
  <2>5. <<c>> \in Seq(Chunk) /\ Len(<<c>>) = 1 /\ <<c>>[1] = c
    OBVIOUS
  <2>6. /\ z \in Seq(Chunk) /\ Len(z) = n - j
        /\ \A i \in 1 .. n - j : z[i] = IF i <= 1 THEN <<c>>[i] ELSE r[i - 1]
    <3>1. 1 + (n - (j + 1)) = n - j
      BY <1>2
    <3> QED BY <2>3, <2>4, <2>5, <3>1, ConcatProperties
  <2>7. ASSUME NEW i \in 1 .. n - j
        PROVE  z[i] = [lo |-> q[j + i].lo + (IF i = 1 THEN cut ELSE 0), hi |-> q[j + i].hi]
    <3>1. CASE i = 1
      BY <2>1, <2>5, <2>6, <3>1
    <3>2. CASE i # 1
      <4>1. i - 1 \in 1 .. n - (j + 1) /\ (j + 1) + (i - 1) = j + i /\ ~(i <= 1)
            /\ j + i \in 1 .. n
        BY <1>2, <3>2
      <4>2. z[i] = q[j + i]
        BY <2>3, <2>6, <4>1
      <4>3. /\ q[j + i].lo \in Nat
            /\ q[j + i] = [lo |-> q[j + i].lo, hi |-> q[j + i].hi]
        BY <1>2, <4>1
      <4>4. q[j + i].lo + (IF i = 1 THEN cut ELSE 0) = q[j + i].lo
        BY <3>2, <4>3
      <4> QED BY <4>2, <4>3, <4>4
    <3> QED BY <3>1, <3>2
  <2>8. z = [i \in 1 .. n - j |-> z[i]]
    BY <2>6
  <2>9. z = [i \in 1 .. n - j |->
               [lo |-> q[j + i].lo + (IF i = 1 THEN cut ELSE 0), hi |-> q[j + i].hi]]
    BY <2>7, <2>8
  <2> QED BY <1>3, <2>1, <2>2, <2>4, <2>9, Zenon
<1> QED BY <1>1, <1>4, <1>5
PopStart(q, len) == [queue |-> q, len |-> len]

\* The state of pop's loop after j strings are gone.
PopAt(q, len, j) == [queue |-> From(q, j), len |-> len - Before(q, j)]

\* The erase behind the loop.
PopEnd(end) ==
    IF end.len > 0
    THEN <<[lo |-> Head(end.queue).lo + end.len, hi |-> Head(end.queue).hi]>>
           \o Tail(end.queue)
    ELSE end.queue

IsPopLoop(n, q, len, f) ==
    f = [k \in 0 .. n |-> IF k = 0 THEN PopStart(q, len) ELSE PopRound(f[k - 1])]

LEMMA PopLoopExists ==
    ASSUME NEW q, NEW len, NEW n \in Nat PROVE \E f : IsPopLoop(n, q, len, f)
<1> DEFINE S == {k \in 0 .. n : \E f : IsPopLoop(k, q, len, f)}
<1>1. 0 \in S
  <2>1. IsPopLoop(0, q, len, [k \in 0 .. 0 |-> PopStart(q, len)])
    BY DEF IsPopLoop
  <2> QED BY <2>1
<1>2. \A k \in 0 .. n - 1 : k \in S => k + 1 \in S
  <2> SUFFICES ASSUME NEW k \in 0 .. n - 1, k \in S PROVE k + 1 \in S
    OBVIOUS
  <2>1. PICK f : IsPopLoop(k, q, len, f)
    OBVIOUS
  <2> DEFINE g == [m \in 0 .. k + 1 |-> IF m = k + 1 THEN PopRound(f[k]) ELSE f[m]]
  <2>2. IsPopLoop(k + 1, q, len, g)
    BY <2>1 DEF IsPopLoop
  <2> QED BY <2>2
<1> HIDE DEF S
<1>3. n \in S
  BY <1>1, <1>2, Climb
<1> QED BY <1>3 DEF S

\* The rounds of pop's loop, one by one.
LEMMA PopLoopRounds ==
    ASSUME NEW q, Len(q) \in Nat, NEW len
    PROVE  \E f : /\ PopLoop(q, len) = PopEnd(f[Len(q)])
                  /\ f[0] = PopStart(q, len)
                  /\ \A k \in 0 .. Len(q) - 1 : f[k + 1] = PopRound(f[k])
<1> DEFINE g == CHOOSE f : IsPopLoop(Len(q), q, len, f)
<1>1. IsPopLoop(Len(q), q, len, g)
  <2>1. \E f : IsPopLoop(Len(q), q, len, f)
    BY PopLoopExists
  <2> QED BY <2>1
<1>2. PopLoop(q, len) = PopEnd(g[Len(q)])
  BY DEF PopLoop, IsPopLoop, PopStart, PopEnd
<1> HIDE DEF g
<1>3. \A k \in 0 .. Len(q) :
        g[k] = IF k = 0 THEN PopStart(q, len) ELSE PopRound(g[k - 1])
  BY <1>1 DEF IsPopLoop
<1>4. ASSUME NEW k \in 0 .. Len(q) - 1
      PROVE  g[k + 1] = PopRound(g[k])
  <2>1. k + 1 \in 0 .. Len(q) /\ k + 1 # 0 /\ (k + 1) - 1 = k
    OBVIOUS
  <2> QED BY <1>3, <2>1
<1> QED BY <1>2, <1>3, <1>4

\* A round pops the string in front if len covers it.
LEMMA PopRoundPops ==
    ASSUME NEW q, Run(q), NEW len \in Nat, NEW j \in 0 .. Len(q)
    PROVE  PopRound(PopAt(q, len, j)) =
             IF j < Len(q) /\ Before(q, j + 1) <= len
             THEN PopAt(q, len, j + 1) ELSE PopAt(q, len, j)
<1>1. PICK at : at = PopAt(q, len, j)
  OBVIOUS
<1>2. at.queue = From(q, j) /\ at.len = len - Before(q, j)
  BY <1>1 DEF PopAt
<1>3. Len(q) \in Nat /\ Before(q, j) \in Int
  BY RunFacts
<1>4. CASE j = Len(q)
  <2>1. at.queue = <<>>
    BY <1>2, <1>4, FromFacts
  <2>2. PopRound(at) = at
    BY <2>1 DEF PopRound
  <2> QED BY <1>1, <1>3, <1>4, <2>2
<1>5. CASE j < Len(q)
  <2>1. /\ at.queue # <<>> /\ Head(at.queue) = q[j + 1]
        /\ Tail(at.queue) = From(q, j + 1)
    BY <1>2, <1>5, FromFacts
  <2>2. j \in 0 .. Len(q) - 1 /\ j + 1 \in 1 .. Len(q)
    BY <1>3, <1>5
  <2>3. /\ Before(q, j + 1) = Before(q, j) + Size(q[j + 1])
        /\ Size(q[j + 1]) \in Nat
    BY <2>2, RunFacts
  <2>4. CASE Before(q, j + 1) <= len
    <3>1. at.len >= Size(q[j + 1])
          /\ at.len - Size(q[j + 1]) = len - Before(q, j + 1)
      BY <1>2, <1>3, <2>3, <2>4
    <3>2. PopRound(at) = [queue |-> From(q, j + 1), len |-> at.len - Size(q[j + 1])]
      BY <2>1, <3>1 DEF PopRound
    <3>3. PopRound(at) = PopAt(q, len, j + 1)
      BY <3>1, <3>2 DEF PopAt
    <3> QED BY <1>1, <1>5, <2>4, <3>3
  <2>5. CASE ~(Before(q, j + 1) <= len)
    <3>1. ~(at.len >= Size(q[j + 1]))
      BY <1>2, <1>3, <2>3, <2>5
    <3>2. PopRound(at) = at
      BY <2>1, <3>1 DEF PopRound
    <3> QED BY <1>1, <2>5, <3>2
  <2> QED BY <2>4, <2>5
<1> QED BY <1>3, <1>4, <1>5

\* pop's loop and the erase leave the queue behind its first k strings and the
\* cut, where k strings fit in len and no more do.
LEMMA PopLoopPops ==
    ASSUME NEW q, Run(q), NEW len \in Nat, NEW k \in 0 .. Len(q),
           Before(q, k) <= len,
           \A i \in 1 .. k : Before(q, i) <= len,
           k < Len(q) => Before(q, k + 1) > len,
           k = Len(q) => Before(q, k) = len
    PROVE  PopLoop(q, len) = Rest(q, k, len - Before(q, k))
<1>1. PICK n : n = Len(q)
  OBVIOUS
<1>2. n \in Nat /\ k \in 0 .. n /\ k \in Nat /\ Before(q, k) \in Int
  BY <1>1, RunFacts
<1>3. PICK f : /\ PopLoop(q, len) = PopEnd(f[n])
               /\ f[0] = PopStart(q, len)
               /\ \A j \in 0 .. n - 1 : f[j + 1] = PopRound(f[j])
  <2>1. Len(q) \in Nat
    BY RunFacts
  <2>2. \E f : /\ PopLoop(q, len) = PopEnd(f[Len(q)])
               /\ f[0] = PopStart(q, len)
               /\ \A j \in 0 .. Len(q) - 1 : f[j + 1] = PopRound(f[j])
    BY <2>1, PopLoopRounds, Zenon
  <2> QED BY <1>1, <2>2, Zenon
<1> DEFINE S == {j \in 0 .. n : f[j] = IF j <= k THEN PopAt(q, len, j) ELSE PopAt(q, len, k)}
<1>4. 0 \in S
  <2>1. PopAt(q, len, 0) = PopStart(q, len)
    <3>1. From(q, 0) = q /\ Before(q, 0) = 0 /\ len - 0 = len
      BY FromStart DEF Before
    <3> QED BY <3>1 DEF PopAt, PopStart
  <2>2. 0 \in 0 .. n /\ 0 <= k
    BY <1>2
  <2> QED BY <1>3, <2>1, <2>2
<1>5. \A j \in 0 .. n - 1 : j \in S => j + 1 \in S
  <2> SUFFICES ASSUME NEW j \in 0 .. n - 1, j \in S PROVE j + 1 \in S
    OBVIOUS
  <2>1. /\ j \in 0 .. Len(q) /\ j + 1 \in 0 .. n /\ j \in Nat
        /\ f[j + 1] = PopRound(f[j])
    BY <1>1, <1>2, <1>3
  <2>2. f[j] = IF j <= k THEN PopAt(q, len, j) ELSE PopAt(q, len, k)
    OBVIOUS
  <2> HIDE DEF S
  <2>3. CASE j < k
    <3>1. j < Len(q) /\ j + 1 \in 1 .. k /\ j <= k /\ j + 1 <= k
      BY <1>1, <1>2, <2>1, <2>3
    <3>2. Before(q, j + 1) <= len
      BY <3>1
    <3>3. PopRound(PopAt(q, len, j)) = PopAt(q, len, j + 1)
      BY <2>1, <3>1, <3>2, PopRoundPops
    <3>4. f[j + 1] = PopAt(q, len, j + 1)
      BY <2>1, <2>2, <3>1, <3>3
    <3> QED BY <2>1, <3>1, <3>4 DEF S
  <2>4. CASE j >= k
    <3>1. f[j] = PopAt(q, len, k) /\ ~(j + 1 <= k)
      BY <1>2, <2>1, <2>2, <2>4
    <3>2. k < Len(q)
      BY <1>1, <1>2, <2>1, <2>4
    <3>3. Before(q, k + 1) \in Int
      BY <1>1, <1>2, <3>2, RunFacts
    <3>4. ~(Before(q, k + 1) <= len)
      BY <3>2, <3>3
    <3>5. PopRound(PopAt(q, len, k)) = PopAt(q, len, k)
      BY <3>4, PopRoundPops
    <3>6. f[j + 1] = PopAt(q, len, k)
      BY <2>1, <3>1, <3>5
    <3> QED BY <2>1, <3>1, <3>6 DEF S
  <2> QED BY <1>2, <2>1, <2>3, <2>4
<1> HIDE DEF S
<1>6. n \in S
  <2>1. n \in Nat /\ n \in 0 .. n
    BY <1>2
  <2>2. \A j \in 0 .. n : j \in S
    BY <1>4, <1>5, <2>1, Climb
  <2> QED BY <2>1, <2>2
<1>7. f[n] = PopAt(q, len, k)
  <2>1. n <= k => n = k
    BY <1>2
  <2> QED BY <1>6, <2>1 DEF S
<1>8. PICK cut \in Nat : cut = len - Before(q, k)
  BY <1>2
<1>9. PICK end : end = PopAt(q, len, k)
  OBVIOUS
<1>10. end.queue = From(q, k) /\ end.len = cut
  BY <1>8, <1>9 DEF PopAt
<1>11. CASE cut = 0
  <2>1. PopEnd(end) = From(q, k)
    BY <1>10, <1>11 DEF PopEnd
  <2>2. Rest(q, k, cut) = From(q, k)
    BY <1>11, RestFacts
  <2> QED BY <1>3, <1>7, <1>8, <1>9, <2>1, <2>2
<1>12. CASE cut # 0
  <2>1. k < Len(q)
    BY <1>1, <1>2, <1>8, <1>12
  <2>2. Head(From(q, k)) = q[k + 1] /\ Tail(From(q, k)) = From(q, k + 1)
    BY <2>1, FromFacts
  <2>3. Rest(q, k, cut) = <<[lo |-> q[k + 1].lo + cut, hi |-> q[k + 1].hi]>>
                            \o From(q, k + 1)
    BY <2>1, RestFacts
  <2>4. end.len > 0
    BY <1>10, <1>12
  <2>5. PopEnd(end) = <<[lo |-> q[k + 1].lo + cut, hi |-> q[k + 1].hi]>>
                        \o From(q, k + 1)
    BY <1>10, <2>2, <2>4 DEF PopEnd
  <2> QED BY <1>3, <1>7, <1>8, <1>9, <2>3, <2>5
<1> QED BY <1>11, <1>12
\* The first j strings.
First(q, j) == [i \in 1 .. j |-> q[i]]

\* The first j strings and the front of the next.
FirstPart(q, j, cut) ==
    [i \in 1 .. j + 1 |-> [lo |-> q[i].lo,
                           hi |-> IF i <= j THEN q[i].hi ELSE q[i].lo + cut]]

LEMMA FirstGrows ==
    ASSUME NEW q, Run(q), NEW j \in 0 .. Len(q) - 1, NEW cut \in Nat
    PROVE  /\ Append(First(q, j), [lo |-> q[j + 1].lo, hi |-> q[j + 1].lo + cut])
                = FirstPart(q, j, cut)
           /\ Append(First(q, j), q[j + 1]) = First(q, j + 1)
<1>1. PICK n : n = Len(q)
  OBVIOUS
<1>2. n \in Nat /\ j \in Nat /\ j + 1 \in 1 .. n
  <2>1. Len(q) \in Nat
    BY RunFacts
  <2> QED BY <1>1, <2>1
<1>3. \A i \in 1 .. n : /\ q[i] \in Chunk /\ q[i].lo \in Nat /\ q[i].hi \in Nat
                        /\ q[i] = [lo |-> q[i].lo, hi |-> q[i].hi]
  <2>1. \A i \in 1 .. Len(q) : /\ q[i] \in Chunk /\ q[i].lo \in Nat /\ q[i].hi \in Nat
                               /\ q[i] = [lo |-> q[i].lo, hi |-> q[i].hi]
    BY RunFacts
  <2> QED BY <1>1, <2>1
<1>4. PICK r : r = First(q, j)
  OBVIOUS
<1>5. /\ r \in Seq(Chunk) /\ Len(r) = j
      /\ \A i \in 1 .. j : r[i] = q[i]
  <2>1. r = [i \in 1 .. j |-> q[i]]
    BY <1>4 DEF First
  <2>2. \A i \in 1 .. j : q[i] \in Chunk
    <3>1. \A i \in 1 .. j : i \in 1 .. n
      BY <1>2
    <3> QED BY <1>3, <3>1
  <2>3. r \in [1 .. j -> Chunk]
    BY <2>1, <2>2
  <2> QED BY <1>2, <2>1, <2>3, SeqOfFunction
<1>6. ASSUME NEW c \in Chunk
      PROVE  /\ Append(r, c) = [i \in 1 .. j + 1 |-> Append(r, c)[i]]
             /\ \A i \in 1 .. j : Append(r, c)[i] = q[i]
             /\ Append(r, c)[j + 1] = c
  <2>1. /\ Append(r, c) \in Seq(Chunk) /\ Len(Append(r, c)) = j + 1
        /\ \A i \in 1 .. j : Append(r, c)[i] = r[i]
        /\ Append(r, c)[j + 1] = c
    BY <1>5, AppendProperties
  <2>2. Append(r, c) = [i \in 1 .. Len(Append(r, c)) |-> Append(r, c)[i]]
    <3>1. \A z \in Seq(Chunk) : z = [i \in 1 .. Len(z) |-> z[i]]
      OBVIOUS
    <3> QED BY <2>1, <3>1, Zenon
  <2>3. \A i \in 1 .. j : Append(r, c)[i] = q[i]
    BY <1>5, <2>1, Zenon
  <2> QED BY <2>1, <2>2, <2>3, Zenon
<1>7. Append(r, q[j + 1]) = First(q, j + 1)
  <2>1. PICK c \in Chunk : c = q[j + 1]
    BY <1>2, <1>3
  <2>2. \A i \in 1 .. j + 1 : Append(r, c)[i] = q[i]
    <3> SUFFICES ASSUME NEW i \in 1 .. j + 1 PROVE Append(r, c)[i] = q[i]
      OBVIOUS
    <3>1. i \in 1 .. j \/ i = j + 1
      BY <1>2
    <3> QED BY <1>6, <2>1, <3>1
  <2>3. Append(r, c) = [i \in 1 .. j + 1 |-> Append(r, c)[i]]
    BY <1>6
  <2>4. First(q, j + 1) = [i \in 1 .. j + 1 |-> q[i]]
    BY DEF First
  <2> QED BY <2>1, <2>2, <2>3, <2>4
<1>8. Append(r, [lo |-> q[j + 1].lo, hi |-> q[j + 1].lo + cut]) = FirstPart(q, j, cut)
  <2>1. PICK c \in Chunk : c = [lo |-> q[j + 1].lo, hi |-> q[j + 1].lo + cut]
    <3>1. q[j + 1].lo \in Nat
      BY <1>2, <1>3
    <3>2. q[j + 1].lo + cut \in Nat
      BY <3>1
    <3> QED BY <3>1, <3>2 DEF Chunk
  <2>2. ASSUME NEW i \in 1 .. j + 1
        PROVE  Append(r, c)[i] = [lo |-> q[i].lo,
                                  hi |-> IF i <= j THEN q[i].hi ELSE q[i].lo + cut]
    <3>1. CASE i \in 1 .. j
      <4>1. i <= j /\ i \in 1 .. n
        BY <1>2, <3>1
      <4>2. q[i] = [lo |-> q[i].lo, hi |-> q[i].hi]
        BY <1>3, <4>1
      <4>3. Append(r, c)[i] = q[i]
        BY <1>6, <3>1
      <4> QED BY <4>1, <4>2, <4>3
    <3>2. CASE i = j + 1
      <4>1. ~(i <= j)
        BY <1>2, <3>2
      <4>2. Append(r, c)[i] = c
        BY <1>6, <3>2
      <4> QED BY <2>1, <3>2, <4>1, <4>2
    <3>3. i \in 1 .. j \/ i = j + 1
      BY <1>2
    <3> QED BY <3>1, <3>2, <3>3
  <2>3. Append(r, c) = [i \in 1 .. j + 1 |-> Append(r, c)[i]]
    BY <1>6
  <2> QED BY <2>1, <2>2, <2>3 DEF FirstPart
<1> QED BY <1>4, <1>7, <1>8

ReadStart(len) ==
    [queue |-> buffer_, buffered |-> bytes_buffered_, copied |-> <<>>, left |-> len]

\* The state of read's loop after j whole strings are copied.
ReadAt(len, j) ==
    [queue    |-> From(buffer_, j),
     buffered |-> bytes_buffered_ - Before(buffer_, j),
     copied   |-> First(buffer_, j),
     left     |-> len - Before(buffer_, j)]

\* What read's closed form, with k whole strings, leaves and copies.
ReadEnd(len, k) ==
    [queue    |-> AfterPop(k, Wanted(len)),
     buffered |-> bytes_buffered_ - Wanted(len),
     copied   |-> Copied(k, Wanted(len)),
     left     |-> len - Wanted(len)]

IsReadLoop(n, len, f) ==
    f = [k \in 0 .. n |-> IF k = 0 THEN ReadStart(len) ELSE ReadRound(f[k - 1])]

LEMMA ReadLoopExists ==
    ASSUME NEW len, NEW n \in Nat PROVE \E f : IsReadLoop(n, len, f)
<1> DEFINE S == {k \in 0 .. n : \E f : IsReadLoop(k, len, f)}
<1>1. 0 \in S
  <2>1. IsReadLoop(0, len, [k \in 0 .. 0 |-> ReadStart(len)])
    BY DEF IsReadLoop
  <2> QED BY <2>1
<1>2. \A k \in 0 .. n - 1 : k \in S => k + 1 \in S
  <2> SUFFICES ASSUME NEW k \in 0 .. n - 1, k \in S PROVE k + 1 \in S
    OBVIOUS
  <2>1. PICK f : IsReadLoop(k, len, f)
    OBVIOUS
  <2> DEFINE g == [m \in 0 .. k + 1 |-> IF m = k + 1 THEN ReadRound(f[k]) ELSE f[m]]
  <2>2. IsReadLoop(k + 1, len, g)
    BY <2>1 DEF IsReadLoop
  <2> QED BY <2>2
<1> HIDE DEF S
<1>3. n \in S
  BY <1>1, <1>2, Climb
<1> QED BY <1>3 DEF S

\* The rounds of read's loop, one by one.
LEMMA ReadLoopRounds ==
    ASSUME Len(buffer_) \in Nat, NEW len
    PROVE  \E f : /\ ReadLoop(len) = f[Len(buffer_)]
                  /\ f[0] = ReadStart(len)
                  /\ \A k \in 0 .. Len(buffer_) - 1 : f[k + 1] = ReadRound(f[k])
<1> DEFINE g == CHOOSE f : IsReadLoop(Len(buffer_), len, f)
<1>1. IsReadLoop(Len(buffer_), len, g)
  <2>1. \E f : IsReadLoop(Len(buffer_), len, f)
    BY ReadLoopExists
  <2> QED BY <2>1
<1>2. ReadLoop(len) = g[Len(buffer_)]
  BY DEF ReadLoop, IsReadLoop, ReadStart
<1> HIDE DEF g
<1>3. \A k \in 0 .. Len(buffer_) :
        g[k] = IF k = 0 THEN ReadStart(len) ELSE ReadRound(g[k - 1])
  BY <1>1 DEF IsReadLoop
<1>4. ASSUME NEW k \in 0 .. Len(buffer_) - 1
      PROVE  g[k + 1] = ReadRound(g[k])
  <2>1. k + 1 \in 0 .. Len(buffer_) /\ k + 1 # 0 /\ (k + 1) - 1 = k
    OBVIOUS
  <2> QED BY <1>3, <2>1
<1> QED BY <1>2, <1>3, <1>4

\* The queue is a run, and its closed forms are those of a run.
LEMMA BufferIsARun ==
    ASSUME TypeOK, BufferIsUnread
    PROVE  /\ Run(buffer_)
           /\ \A i : Prefix(i) = Before(buffer_, i)
           /\ \A k, len : AfterPop(k, len) = Rest(buffer_, k, len - Before(buffer_, k))
           /\ Before(buffer_, Len(buffer_)) = bytes_buffered_
           /\ bytes_buffered_ \in Nat
<1>1. Run(buffer_)
  BY DEF Run, TypeOK, BufferIsUnread, Covers
<1>2. \A i : Prefix(i) = Before(buffer_, i)
  BY DEF Prefix, Before
<1>3. \A k, len : AfterPop(k, len) = Rest(buffer_, k, len - Before(buffer_, k))
  <2> TAKE k, len
  <2>1. Prefix(k) = Before(buffer_, k)
    BY <1>2
  <2> QED BY <2>1, Zenon DEF AfterPop, Suffix, Rest
<1>4. Before(buffer_, Len(buffer_)) = bytes_buffered_
  BY <1>2, QueueEnd
<1> QED BY <1>1, <1>2, <1>3, <1>4 DEF TypeOK

\* Some number of whole strings fits in len, and no more do.
LEMMA PopsSome ==
    ASSUME TypeOK, BufferIsUnread, NEW len \in Nat
    PROVE  \E k \in 0 .. Len(buffer_) : PopsWhole(k, len)
<1>1. PICK n : n = Len(buffer_)
  OBVIOUS
<1>2. n \in Nat
  BY <1>1 DEF TypeOK
<1>3. ASSUME NEW i \in 0 .. n PROVE Prefix(i) \in Int
  <2>1. Run(buffer_) /\ Prefix(i) = Before(buffer_, i)
    BY BufferIsARun
  <2>2. Before(buffer_, i) \in Int
    BY <1>1, <2>1, RunFacts
  <2> QED BY <2>1, <2>2
<1> DEFINE S == {k \in 0 .. n : \/ \E j \in 0 .. n : PopsWhole(j, len)
                               \/ \A i \in 1 .. k : Prefix(i) <= len}
<1>4. 0 \in S
  BY <1>2
<1>5. ASSUME NEW k \in 0 .. n - 1, k \in S
      PROVE  k + 1 \in S
  <2>1. k + 1 \in 1 .. n /\ k \in 0 .. n /\ k + 1 \in 0 .. n
    BY <1>2
  <2>2. CASE \E j \in 0 .. n : PopsWhole(j, len)
    BY <2>1, <2>2
  <2>3. CASE \A i \in 1 .. k : Prefix(i) <= len
    <3>1. CASE Prefix(k + 1) <= len
      <4>1. \A i \in 1 .. k + 1 : Prefix(i) <= len
        <5> SUFFICES ASSUME NEW i \in 1 .. k + 1 PROVE Prefix(i) <= len
          OBVIOUS
        <5>1. i \in 1 .. k \/ i = k + 1
          BY <2>1
        <5> QED BY <2>3, <3>1, <5>1
      <4> QED BY <2>1, <4>1
    <3>2. CASE Prefix(k + 1) > len
      <4>1. PopsWhole(k, len)
        BY <2>3, <3>2 DEF PopsWhole
      <4> QED BY <2>1, <4>1
    <3>3. Prefix(k + 1) \in Int
      BY <1>3, <2>1
    <3> QED BY <3>1, <3>2, <3>3
  <2> QED BY <1>5, <2>2, <2>3
<1> HIDE DEF S
<1>6. \A k \in 0 .. n - 1 : k \in S => k + 1 \in S
  BY <1>5
<1>7. n \in S
  <2>1. \A k \in 0 .. n : k \in S
    BY <1>2, <1>4, <1>6, Climb
  <2> QED BY <1>2, <2>1
<1>8. CASE \A i \in 1 .. n : Prefix(i) <= len
  <2>1. PopsWhole(n, len)
    BY <1>1, <1>2, <1>8 DEF PopsWhole
  <2> QED BY <1>1, <1>2, <2>1
<1> QED BY <1>1, <1>7, <1>8 DEF S
\* A part of a run is no longer than the whole.
LEMMA BeforeGrows ==
    ASSUME NEW q, Run(q), NEW k \in 0 .. Len(q)
    PROVE  Before(q, k) <= Before(q, Len(q))
<1>1. PICK n \in Nat : n = Len(q)
  BY RunFacts
<1> DEFINE S == {d \in 0 .. n : Before(q, n - d) <= Before(q, n)}
<1>2. ASSUME NEW i \in 0 .. n PROVE Before(q, i) \in Int
  BY <1>1, RunFacts
<1>3. 0 \in S
  <2>1. n - 0 = n /\ Before(q, n) \in Int
    BY <1>2
  <2> QED BY <2>1
<1>4. ASSUME NEW d \in 0 .. n - 1, d \in S
      PROVE  d + 1 \in S
  <2>1. /\ d + 1 \in 0 .. n /\ n - d \in 0 .. n /\ n - (d + 1) \in 0 .. n - 1
        /\ (n - (d + 1)) + 1 = n - d /\ n - d \in 1 .. n
        /\ n - (d + 1) \in 0 .. n
    OBVIOUS
  <2>2. Before(q, n - d) = Before(q, n - (d + 1)) + Size(q[n - d])
    BY <1>1, <2>1, RunFacts
  <2>3. Size(q[n - d]) \in Nat
    BY <1>1, <2>1, RunFacts
  <2>4. Before(q, n - d) <= Before(q, n)
    BY <1>4
  <2>5. Before(q, n - d) \in Int /\ Before(q, n - (d + 1)) \in Int /\ Before(q, n) \in Int
    BY <1>2, <2>1
  <2>6. Before(q, n - (d + 1)) <= Before(q, n)
    BY <2>2, <2>3, <2>4, <2>5
  <2> QED BY <2>1, <2>6
<1> HIDE DEF S
<1>5. \A d \in 0 .. n - 1 : d \in S => d + 1 \in S
  BY <1>4
<1>6. \A d \in 0 .. n : d \in S
  BY <1>3, <1>5, Climb
<1>7. n - k \in 0 .. n /\ n - (n - k) = k
  BY <1>1
<1>8. Before(q, n - (n - k)) <= Before(q, n)
  BY <1>6, <1>7 DEF S
<1> QED BY <1>1, <1>7, <1>8

\* A round before the last copies and pops the string in front whole.
LEMMA ReadRoundWhole ==
    ASSUME TypeOK, BufferIsUnread, NEW len \in Nat,
           NEW j \in 0 .. Len(buffer_) - 1, Before(buffer_, j + 1) <= Wanted(len)
    PROVE  ReadRound(ReadAt(len, j)) = ReadAt(len, j + 1)
<1>1. /\ Run(buffer_) /\ bytes_buffered_ \in Nat /\ Len(buffer_) \in Nat
      /\ j \in 0 .. Len(buffer_) /\ j + 1 \in 0 .. Len(buffer_)
      /\ j < Len(buffer_) /\ j + 1 \in 1 .. Len(buffer_)
  <2>1. Run(buffer_) /\ bytes_buffered_ \in Nat
    BY BufferIsARun
  <2>2. Len(buffer_) \in Nat
    BY <2>1, RunFacts
  <2> QED BY <2>1, <2>2
<1>2. PICK r : r = From(buffer_, j)
  OBVIOUS
<1>3. PICK c : c = buffer_[j + 1]
  OBVIOUS
<1>4. /\ c.lo \in Nat /\ c.hi \in Nat /\ Size(c) \in Nat /\ Size(c) > 0
      /\ c = [lo |-> c.lo, hi |-> c.hi]
  BY <1>1, <1>3, RunFacts
<1>5. c.lo + Size(c) = c.hi
  BY <1>4 DEF Size
<1>6. PICK b \in Int : b = Before(buffer_, j)
  BY <1>1, RunFacts
<1>7. Before(buffer_, j + 1) = b + Size(c)
  BY <1>1, <1>3, <1>6, RunFacts
<1>8. b + Size(c) <= bytes_buffered_ /\ b + Size(c) <= len
  BY <1>1, <1>4, <1>7 DEF Wanted
<1>9. /\ Run(r) /\ Len(r) = Len(buffer_) - j /\ Head(r) = c
      /\ Tail(r) = From(buffer_, j + 1)
  BY <1>1, <1>2, <1>3, FromFacts
<1>10. PopLoop(r, Size(c)) = From(buffer_, j + 1)
  <2>1. 0 \in 0 .. Len(r) /\ 1 \in 0 .. Len(r) /\ 0 < Len(r) /\ 0 \in 0 .. Len(r) - 1
    BY <1>1, <1>9
  <2>2. From(r, 0) = r
    BY <1>9, FromStart
  <2>3. From(r, 1) = From(buffer_, j + 1) /\ r[1] = c
    <3>1. 0 + 1 = 1
      OBVIOUS
    <3>2. Head(From(r, 0)) = r[0 + 1] /\ Tail(From(r, 0)) = From(r, 0 + 1)
      BY <1>9, <2>1, FromFacts
    <3> QED BY <1>9, <2>2, <3>1, <3>2
  <2>4. Before(r, 1) = Size(c)
    <3>1. Before(r, 0 + 1) = Before(r, 0) + Size(r[0 + 1])
      BY <1>9, <2>1, RunFacts
    <3>2. Before(r, 0) = 0 /\ 0 + 1 = 1
      BY DEF Before
    <3> QED BY <1>4, <2>3, <3>1, <3>2
  <2>5. ASSUME 1 < Len(r)
        PROVE  Before(r, 1 + 1) > Size(c)
    <3>1. 1 \in 0 .. Len(r) - 1 /\ 1 + 1 \in 1 .. Len(r)
      BY <1>1, <1>9, <2>5
    <3>2. /\ Before(r, 1 + 1) = Before(r, 1) + Size(r[1 + 1])
          /\ Size(r[1 + 1]) \in Nat /\ Size(r[1 + 1]) > 0
      BY <1>9, <3>1, RunFacts
    <3> QED BY <1>4, <2>4, <3>2
  <2>6. Before(r, 1) <= Size(c) /\ \A i \in 1 .. 1 : Before(r, i) <= Size(c)
    BY <1>4, <2>4
  <2>7. PopLoop(r, Size(c)) = Rest(r, 1, Size(c) - Before(r, 1))
    BY <1>4, <1>9, <2>1, <2>4, <2>5, <2>6, PopLoopPops
  <2>8. Size(c) - Before(r, 1) = 0
    BY <1>4, <2>4
  <2>9. Rest(r, 1, 0) = From(r, 1)
    BY <1>9, <2>1, RestFacts
  <2> QED BY <2>3, <2>7, <2>8, <2>9
<1>11. Append(First(buffer_, j), c) = First(buffer_, j + 1)
  BY <1>1, <1>3, FirstGrows
<1>12. PICK at : at = ReadAt(len, j)
  OBVIOUS
<1>13. /\ at.queue = r /\ at.buffered = bytes_buffered_ - b
       /\ at.copied = First(buffer_, j) /\ at.left = len - b
  BY <1>2, <1>6, <1>12 DEF ReadAt
<1>14. /\ ~(at.buffered = 0 \/ at.left = 0)
       /\ Size(c) <= at.left
       /\ at.buffered - Size(c) = bytes_buffered_ - Before(buffer_, j + 1)
       /\ at.left - Size(c) = len - Before(buffer_, j + 1)
  BY <1>1, <1>4, <1>7, <1>8, <1>13
<1>15. ReadRound(at) =
         [queue    |-> PopLoop(at.queue, Size(c)),
          buffered |-> at.buffered - Size(c),
          copied   |-> Append(at.copied, [lo |-> c.lo, hi |-> c.lo + Size(c)]),
          left     |-> at.left - Size(c)]
  <2>1. Head(at.queue) = c
    BY <1>9, <1>13
  <2> QED BY <1>14, <2>1 DEF ReadRound
<1>16. [lo |-> c.lo, hi |-> c.lo + Size(c)] = c
  BY <1>4, <1>5
<1>17. ReadRound(at) =
         [queue    |-> From(buffer_, j + 1),
          buffered |-> bytes_buffered_ - Before(buffer_, j + 1),
          copied   |-> First(buffer_, j + 1),
          left     |-> len - Before(buffer_, j + 1)]
  BY <1>10, <1>11, <1>13, <1>14, <1>15, <1>16, Zenon
<1> QED BY <1>12, <1>17 DEF ReadAt

\* Once k whole strings are copied, a round copies the part that is wanted of
\* the next string, or nothing; after that a round changes nothing.
LEMMA ReadRoundLast ==
    ASSUME TypeOK, BufferIsUnread, NEW len \in Nat,
           NEW k \in 0 .. Len(buffer_), PopsWhole(k, Wanted(len))
    PROVE  /\ ReadRound(ReadAt(len, k)) = ReadEnd(len, k)
           /\ ReadRound(ReadEnd(len, k)) = ReadEnd(len, k)
           /\ k = Len(buffer_) => ReadAt(len, k) = ReadEnd(len, k)
<1>1. PICK w \in Nat : w = Wanted(len)
  BY DEF Wanted, TypeOK
<1>2. PICK n \in Nat : n = Len(buffer_)
  BY DEF TypeOK
<1>3. PICK b \in Int : b = Before(buffer_, k)
  BY BufferIsARun, RunFacts
<1>4. PICK total \in Nat : total = bytes_buffered_
  BY DEF TypeOK
<1>5. /\ w = (IF len < total THEN len ELSE total)
      /\ w <= total /\ w <= len /\ (w = len \/ w = total)
  BY <1>1, <1>4 DEF Wanted
<1>6. /\ k \in 0 .. n /\ k \in Nat
      /\ Run(buffer_) /\ Prefix(k) = b /\ Before(buffer_, n) = total
      /\ AfterPop(k, w) = Rest(buffer_, k, w - b)
  BY <1>2, <1>3, <1>4, BufferIsARun
<1>7. b <= w
  <2>1. CASE k = 0
    <3>1. b = 0
      BY <1>3, <2>1 DEF Before
    <3> QED BY <3>1
  <2>2. CASE k # 0
    <3>1. k \in 1 .. k
      BY <1>6, <2>2
    <3> QED BY <1>1, <1>6, <3>1 DEF PopsWhole
  <2> QED BY <2>1, <2>2
<1>8. k = n => b = w /\ b = total
  BY <1>3, <1>5, <1>6, <1>7
<1>9. PICK cut \in Nat : cut = w - b
  BY <1>7
<1>10. Copied(k, w) = IF cut = 0 THEN First(buffer_, k) ELSE FirstPart(buffer_, k, cut)
  <2>1. Copied(k, w) = [i \in 1 .. (IF w > b THEN k + 1 ELSE k) |->
                          [lo |-> buffer_[i].lo,
                           hi |-> IF i <= k THEN buffer_[i].hi
                                  ELSE buffer_[i].lo + cut]]
    BY <1>6, <1>9 DEF Copied
  <2>2. CASE cut = 0
    <3>1. ~(w > b)
      BY <1>9, <2>2
    <3>2. ASSUME NEW i \in 1 .. k
          PROVE  [lo |-> buffer_[i].lo,
                  hi |-> IF i <= k THEN buffer_[i].hi
                         ELSE buffer_[i].lo + cut] = buffer_[i]
      <4>1. i \in 1 .. Len(buffer_) /\ i <= k
        BY <1>2, <1>6
      <4>2. buffer_[i] = [lo |-> buffer_[i].lo, hi |-> buffer_[i].hi]
        BY <1>6, <4>1, RunFacts
      <4> QED BY <4>1, <4>2
    <3> QED BY <2>1, <2>2, <3>1, <3>2 DEF First
  <2>3. CASE cut # 0
    <3>1. w > b
      BY <1>9, <2>3
    <3> QED BY <2>1, <2>3, <3>1, Zenon DEF FirstPart
  <2> QED BY <2>2, <2>3
<1>11. PICK end : end = ReadEnd(len, k)
  OBVIOUS
<1>12. end = [queue |-> Rest(buffer_, k, cut), buffered |-> total - w,
              copied |-> Copied(k, w), left |-> len - w]
  BY <1>1, <1>4, <1>6, <1>9, <1>11, Zenon DEF ReadEnd
<1>13. end.buffered = 0 \/ end.left = 0
  BY <1>5, <1>12
<1>14. ReadRound(end) = end
  BY <1>13 DEF ReadRound
<1>15. PICK at : at = ReadAt(len, k)
  OBVIOUS
<1>16. at = [queue |-> From(buffer_, k), buffered |-> total - b,
             copied |-> First(buffer_, k), left |-> len - b]
  BY <1>3, <1>4, <1>15, Zenon DEF ReadAt
<1>17. CASE cut = 0
  <2>1. b = w /\ total - b = total - w /\ len - b = len - w
    BY <1>9, <1>17
  <2>2. Rest(buffer_, k, cut) = From(buffer_, k)
    BY <1>6, <1>17, RestFacts
  <2>3. Copied(k, w) = First(buffer_, k)
    BY <1>10, <1>17
  <2>4. at = end
    BY <1>12, <1>16, <2>1, <2>2, <2>3, Zenon
  <2> QED BY <1>11, <1>14, <1>15, <2>4
<1>18. CASE cut # 0
  <2>1. k < n /\ k \in 0 .. Len(buffer_) - 1 /\ k < Len(buffer_)
    BY <1>2, <1>6, <1>8, <1>9, <1>18
  <2>2. PICK c : c = buffer_[k + 1]
    OBVIOUS
  <2>3. /\ Size(c) \in Nat /\ c.lo \in Nat /\ Before(buffer_, k + 1) = b + Size(c)
    <3>1. k + 1 \in 1 .. Len(buffer_)
      BY <1>2, <2>1
    <3> QED BY <1>3, <1>6, <2>1, <2>2, <3>1, RunFacts
  <2>4. cut < Size(c)
    <3>1. Prefix(k + 1) > w
      BY <1>1, <2>1 DEF PopsWhole
    <3>2. Prefix(k + 1) = b + Size(c)
      BY <2>3, BufferIsARun
    <3> QED BY <1>9, <2>3, <3>1, <3>2
  <2>5. w = len
    <3>1. k + 1 \in 0 .. Len(buffer_)
      BY <1>2, <2>1
    <3>2. Before(buffer_, k + 1) <= total
      BY <1>2, <1>6, <3>1, BeforeGrows
    <3>3. w # total
      BY <1>9, <2>3, <2>4, <3>2
    <3> QED BY <1>5, <3>3
  <2>6. /\ ~(at.buffered = 0 \/ at.left = 0) /\ at.left = cut
        /\ at.buffered - cut = total - w /\ at.left - cut = len - w
    BY <1>5, <1>9, <1>16, <1>18, <2>5
  <2>7. PICK r : r = From(buffer_, k)
    OBVIOUS
  <2>8. Run(r) /\ Head(r) = c /\ Len(r) = n - k
    BY <1>2, <1>6, <2>1, <2>2, <2>7, FromFacts
  <2>9. PopLoop(r, cut) = Rest(buffer_, k, cut)
    <3>1. 0 \in 0 .. Len(r) /\ 0 < Len(r) /\ 0 \in 0 .. Len(r) - 1
      BY <1>6, <2>1, <2>8
    <3>2. From(r, 0) = r
      BY <2>8, FromStart
    <3>3. r[1] = c
      <4>1. Head(From(r, 0)) = r[0 + 1] /\ 0 + 1 = 1
        BY <2>8, <3>1, FromFacts
      <4> QED BY <2>8, <3>2, <4>1
    <3>4. Before(r, 0) = 0
      BY DEF Before
    <3>5. Before(r, 0 + 1) > cut
      <4>1. Before(r, 0 + 1) = Before(r, 0) + Size(r[0 + 1]) /\ 0 + 1 = 1
        BY <2>8, <3>1, RunFacts
      <4> QED BY <2>3, <2>4, <3>3, <3>4, <4>1
    <3>6. \A i \in 1 .. 0 : Before(r, i) <= cut
      OBVIOUS
    <3>7. PopLoop(r, cut) = Rest(r, 0, cut - Before(r, 0))
      BY <2>8, <3>1, <3>4, <3>5, <3>6, PopLoopPops
    <3>8. cut - Before(r, 0) = cut
      BY <3>4
    <3>9. Rest(r, 0, cut) = <<[lo |-> r[0 + 1].lo + cut, hi |-> r[0 + 1].hi]>>
                             \o From(r, 0 + 1)
      BY <2>8, <3>1, RestFacts
    <3>10. From(r, 0 + 1) = From(buffer_, k + 1) /\ r[0 + 1] = c
      <4>1. Tail(From(r, 0)) = From(r, 0 + 1) /\ 0 + 1 = 1
        BY <2>8, <3>1, FromFacts
      <4>2. Tail(r) = From(buffer_, k + 1)
        BY <1>6, <2>1, <2>7, FromFacts
      <4> QED BY <3>2, <3>3, <4>1, <4>2
    <3>11. Rest(buffer_, k, cut) = <<[lo |-> c.lo + cut, hi |-> c.hi]>>
                                    \o From(buffer_, k + 1)
      BY <1>6, <2>1, <2>2, RestFacts
    <3> QED BY <3>7, <3>8, <3>9, <3>10, <3>11
  <2>10. Append(First(buffer_, k), [lo |-> c.lo, hi |-> c.lo + cut])
           = FirstPart(buffer_, k, cut)
    BY <1>6, <2>1, <2>2, FirstGrows
  <2>11. at.queue = r /\ at.copied = First(buffer_, k)
    BY <1>16, <2>7
  <2>12. (IF Size(c) <= at.left THEN Size(c) ELSE at.left) = cut
    BY <2>3, <2>4, <2>6
  <2>13. ReadRound(at) =
           [queue    |-> PopLoop(at.queue, cut),
            buffered |-> at.buffered - cut,
            copied   |-> Append(at.copied, [lo |-> c.lo, hi |-> c.lo + cut]),
            left     |-> at.left - cut]
    <3>1. Head(at.queue) = c
      BY <2>8, <2>11
    <3> QED BY <2>6, <2>12, <3>1 DEF ReadRound
  <2>14. Copied(k, w) = FirstPart(buffer_, k, cut)
    BY <1>10, <1>18
  <2>15. ReadRound(at) = end
    BY <1>12, <2>6, <2>9, <2>10, <2>11, <2>13, <2>14, Zenon
  <2>16. k # Len(buffer_)
    BY <1>2, <1>6, <2>1
  <2> QED BY <1>11, <1>14, <1>15, <2>15, <2>16
<1> QED BY <1>17, <1>18
\* read's loop is its closed form.
LEMMA ReadLoopReads ==
    ASSUME TypeOK, BufferIsUnread, NEW len \in Nat,
           NEW k \in 0 .. Len(buffer_), PopsWhole(k, Wanted(len))
    PROVE  ReadLoop(len) = ReadEnd(len, k)
<1>1. PICK n \in Nat : n = Len(buffer_)
  BY DEF TypeOK
<1>2. Run(buffer_) /\ \A i : Prefix(i) = Before(buffer_, i)
  BY BufferIsARun
<1>3. PICK f : /\ ReadLoop(len) = f[n]
               /\ f[0] = ReadStart(len)
               /\ \A j \in 0 .. n - 1 : f[j + 1] = ReadRound(f[j])
  <2>1. Len(buffer_) \in Nat
    BY <1>1
  <2>2. \E f : /\ ReadLoop(len) = f[Len(buffer_)]
               /\ f[0] = ReadStart(len)
               /\ \A j \in 0 .. Len(buffer_) - 1 : f[j + 1] = ReadRound(f[j])
    BY <2>1, ReadLoopRounds, Zenon
  <2> QED BY <1>1, <2>2, Zenon
<1> DEFINE S == {j \in 0 .. n : f[j] = IF j <= k THEN ReadAt(len, j) ELSE ReadEnd(len, k)}
<1>4. 0 \in S
  <2>1. ReadAt(len, 0) = ReadStart(len)
    <3>1. /\ From(buffer_, 0) = buffer_ /\ Before(buffer_, 0) = 0
          /\ len - 0 = len /\ bytes_buffered_ - 0 = bytes_buffered_
      BY <1>2, FromStart DEF Before, TypeOK
    <3>2. First(buffer_, 0) = <<>>
      BY DEF First
    <3> QED BY <3>1, <3>2, Zenon DEF ReadAt, ReadStart
  <2>2. 0 \in 0 .. n /\ 0 <= k
    BY <1>1
  <2> QED BY <1>3, <2>1, <2>2
<1>5. \A j \in 0 .. n - 1 : j \in S => j + 1 \in S
  <2> SUFFICES ASSUME NEW j \in 0 .. n - 1, j \in S PROVE j + 1 \in S
    OBVIOUS
  <2>1. /\ j \in 0 .. Len(buffer_) - 1 /\ j + 1 \in 0 .. n /\ j \in Nat /\ k \in Nat
        /\ f[j + 1] = ReadRound(f[j])
    BY <1>1, <1>3
  <2>2. f[j] = IF j <= k THEN ReadAt(len, j) ELSE ReadEnd(len, k)
    OBVIOUS
  <2> HIDE DEF S
  <2>3. CASE j < k
    <3>1. j + 1 \in 1 .. k /\ j <= k /\ j + 1 <= k
      BY <2>1, <2>3
    <3>2. Before(buffer_, j + 1) <= Wanted(len)
      <4>1. Prefix(j + 1) <= Wanted(len)
        BY <3>1 DEF PopsWhole
      <4> QED BY <1>2, <4>1
    <3>3. ReadRound(ReadAt(len, j)) = ReadAt(len, j + 1)
      BY <2>1, <3>2, ReadRoundWhole
    <3>4. f[j + 1] = ReadAt(len, j + 1)
      BY <2>1, <2>2, <3>1, <3>3
    <3> QED BY <2>1, <3>1, <3>4 DEF S
  <2>4. CASE j = k
    <3>1. f[j] = ReadAt(len, k) /\ ~(j + 1 <= k)
      BY <2>1, <2>2, <2>4
    <3>2. f[j + 1] = ReadEnd(len, k)
      BY <2>1, <3>1, ReadRoundLast
    <3> QED BY <2>1, <3>1, <3>2 DEF S
  <2>5. CASE j > k
    <3>1. f[j] = ReadEnd(len, k) /\ ~(j + 1 <= k)
      BY <2>1, <2>2, <2>5
    <3>2. f[j + 1] = ReadEnd(len, k)
      BY <2>1, <3>1, ReadRoundLast
    <3> QED BY <2>1, <3>1, <3>2 DEF S
  <2> QED BY <2>1, <2>3, <2>4, <2>5
<1> HIDE DEF S
<1>6. n \in S
  <2>1. \A j \in 0 .. n : j \in S
    BY <1>4, <1>5, Climb
  <2> QED BY <2>1
<1>7. CASE n <= k
  <2>1. n = k /\ k = Len(buffer_)
    BY <1>1, <1>7
  <2>2. f[n] = ReadAt(len, k)
    BY <1>6, <1>7, <2>1 DEF S
  <2>3. ReadAt(len, k) = ReadEnd(len, k)
    BY <2>1, ReadRoundLast
  <2> QED BY <1>3, <2>2, <2>3
<1>8. CASE ~(n <= k)
  <2>1. f[n] = ReadEnd(len, k)
    BY <1>6, <1>8 DEF S
  <2> QED BY <1>3, <2>1
<1> QED BY <1>7, <1>8

SumUpTo(n, f) == f = [i \in 0 .. n |-> IF i = 0 THEN 0 ELSE f[i - 1] + Size(buffer_[i])]

\* Adding up the sizes of the strings gives what is buffered.
LEMMA SumIsBuffered ==
    ASSUME TypeOK, BufferIsUnread
    PROVE  LET Sum[i \in 0 .. Len(buffer_)] ==
                   IF i = 0 THEN 0 ELSE Sum[i - 1] + Size(buffer_[i])
           IN  bytes_buffered_ = Sum[Len(buffer_)]
<1>1. PICK n \in Nat : n = Len(buffer_)
  BY DEF TypeOK
<1>2. Run(buffer_) /\ Before(buffer_, n) = bytes_buffered_
  BY <1>1, BufferIsARun
<1> DEFINE g == CHOOSE f : SumUpTo(Len(buffer_), f)
<1>3. SumUpTo(n, [i \in 0 .. n |-> Before(buffer_, i)])
  <2> DEFINE B == [i \in 0 .. n |-> Before(buffer_, i)]
  <2>1. ASSUME NEW i \in 0 .. n
        PROVE  Before(buffer_, i) = IF i = 0 THEN 0 ELSE B[i - 1] + Size(buffer_[i])
    <3>1. CASE i = 0
      BY <3>1 DEF Before
    <3>2. CASE i # 0
      <4>1. i - 1 \in 0 .. n - 1 /\ i - 1 \in 0 .. n /\ (i - 1) + 1 = i
        BY <3>2
      <4>2. Before(buffer_, i) = Before(buffer_, i - 1) + Size(buffer_[i])
        BY <1>1, <1>2, <4>1, RunFacts
      <4>3. B[i - 1] = Before(buffer_, i - 1)
        BY <4>1
      <4> QED BY <3>2, <4>2, <4>3
    <3> QED BY <3>1, <3>2
  <2>2. B = [i \in 0 .. n |-> IF i = 0 THEN 0 ELSE B[i - 1] + Size(buffer_[i])]
    BY <2>1
  <2> QED BY <2>2 DEF SumUpTo
<1>4. SumUpTo(n, g)
  BY <1>1, <1>3
<1>5. SUFFICES bytes_buffered_ = g[Len(buffer_)]
  BY DEF SumUpTo
<1> HIDE DEF g
<1>6. \A i \in 0 .. n : g[i] = IF i = 0 THEN 0 ELSE g[i - 1] + Size(buffer_[i])
  BY <1>4 DEF SumUpTo
<1> DEFINE S == {i \in 0 .. n : g[i] = Before(buffer_, i)}
<1>7. 0 \in S
  BY <1>6 DEF Before
<1>8. \A i \in 0 .. n - 1 : i \in S => i + 1 \in S
  <2> SUFFICES ASSUME NEW i \in 0 .. n - 1, g[i] = Before(buffer_, i)
               PROVE  i + 1 \in S
    OBVIOUS
  <2>1. i + 1 \in 0 .. n /\ i + 1 # 0 /\ (i + 1) - 1 = i
    OBVIOUS
  <2>2. Before(buffer_, i + 1) = Before(buffer_, i) + Size(buffer_[i + 1])
    BY <1>1, <1>2, RunFacts
  <2>3. g[i + 1] = Before(buffer_, i + 1)
    BY <1>6, <2>1, <2>2
  <2> QED BY <2>1, <2>3
<1> HIDE DEF S
<1>9. n \in S
  <2>1. \A i \in 0 .. n : i \in S
    BY <1>7, <1>8, Climb
  <2> QED BY <2>1
<1> QED BY <1>1, <1>2, <1>9 DEF S

LEMMA LoopsFollowed == ASSUME IInv PROVE PopAndReadFollowTheLoops
<1>1. TypeOK /\ BufferIsUnread /\ bytes_buffered_ \in Nat
  BY DEF IInv, TypeOK
<1>2. ASSUME NEW len \in 0 .. bytes_buffered_ + 1
      PROVE  \E k \in 0 .. Len(buffer_) :
                /\ PopsWhole(k, Wanted(len))
                /\ AfterPop(k, Wanted(len)) = PopLoop(buffer_, Wanted(len))
                /\ ReadLoop(len) = ReadEnd(len, k)
  <2>1. len \in Nat
    BY <1>1
  <2>2. PICK w \in Nat : w = Wanted(len) /\ w <= bytes_buffered_
    BY <1>1, <2>1 DEF Wanted
  <2>3. PICK k \in 0 .. Len(buffer_) : PopsWhole(k, w)
    BY <1>1, PopsSome
  <2>4. /\ Run(buffer_) /\ \A i : Prefix(i) = Before(buffer_, i)
        /\ AfterPop(k, w) = Rest(buffer_, k, w - Before(buffer_, k))
        /\ Before(buffer_, Len(buffer_)) = bytes_buffered_
    BY <1>1, BufferIsARun
  <2>5. Before(buffer_, k) \in Int /\ Len(buffer_) \in Nat
    BY <2>4, RunFacts
  <2>6. \A i \in 1 .. k : Before(buffer_, i) <= w
    BY <2>3, <2>4 DEF PopsWhole
  <2>7. Before(buffer_, k) <= w
    <3>1. CASE k = 0
      BY <3>1 DEF Before
    <3>2. CASE k # 0
      <4>1. k \in 1 .. k
        BY <2>5, <3>2
      <4> QED BY <2>6, <4>1
    <3> QED BY <3>1, <3>2
  <2>8. k < Len(buffer_) => Before(buffer_, k + 1) > w
    BY <2>3, <2>4 DEF PopsWhole
  <2>9. k = Len(buffer_) => Before(buffer_, k) = w
    BY <1>1, <2>2, <2>4, <2>7
  <2>10. PopLoop(buffer_, w) = Rest(buffer_, k, w - Before(buffer_, k))
    BY <2>4, <2>6, <2>7, <2>8, <2>9, PopLoopPops
  <2>11. ReadLoop(len) = ReadEnd(len, k)
    BY <1>1, <2>1, <2>2, <2>3, ReadLoopReads
  <2> QED BY <2>2, <2>3, <2>4, <2>10, <2>11
<1>3. \A len \in 0 .. bytes_buffered_ + 1 :
        \E k \in 0 .. Len(buffer_) :
           /\ PopsWhole(k, Wanted(len))
           /\ AfterPop(k, Wanted(len)) = PopLoop(buffer_, Wanted(len))
           /\ ReadLoop(len) = [queue    |-> AfterPop(k, Wanted(len)),
                               buffered |-> bytes_buffered_ - Wanted(len),
                               copied   |-> Copied(k, Wanted(len)),
                               left     |-> len - Wanted(len)]
  BY <1>2, Zenon DEF ReadEnd
<1> QED BY <1>1, <1>3, SumIsBuffered, Zenon DEF PopAndReadFollowTheLoops

\* The closed forms of pop and read that the actions use do to the queue, to
\* the counter and to what is returned exactly what the loops of the code do,
\* in every reachable state, for every capacity.
THEOREM LoopsAlwaysFollowed == Spec => []PopAndReadFollowTheLoops
<1>1. IInv => PopAndReadFollowTheLoops
  BY LoopsFollowed
<1> QED BY <1>1, Invariance, PTL
=============================================================================
