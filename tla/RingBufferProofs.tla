-------------------------- MODULE RingBufferProofs --------------------------
(***************************************************************************)
(* Proofs about the ring buffer and its two uses, for every size and set   *)
(* of bytes.  A call moves all it can, and the calls one after the other   *)
(* implement a bounded queue.  In the UART receive path the task copies    *)
(* only bytes that are out of the interrupt's reach, and, with at most one *)
(* byte per interrupt between the two stores of head, interrupt and task   *)
(* implement a bounded queue.                                              *)
(***************************************************************************)
EXTENDS RingBufferCalls, UartRx, SequenceTheorems, TLAPS

(* The size of the ring and its positions.                                 *)
LEMMA SizeFacts == size \in Nat /\ size >= 2 /\ Index = 0 .. size - 1
  BY SizeAssumption DEF Index

(* One reduction is the remainder, since no index passes the end twice. *)
LEMMA ModFacts ==
  ASSUME NEW x \in Int
  PROVE  /\ 0 <= x /\ x < size => x % size = x
         /\ size <= x /\ x < 2 * size => x % size = x - size
         /\ - size <= x /\ x < 0 => x % size = x + size
<1>1. ASSUME NEW n \in Nat, n >= 2, NEW y \in Int
      PROVE  0 <= y /\ y < n => y % n = y
  BY <1>1
<1>2. ASSUME NEW n \in Nat, n >= 2, NEW y \in Int, n <= y, y < 2 * n
      PROVE  y % n = y - n
  BY <1>2
<1>3. ASSUME NEW n \in Nat, n >= 2, NEW y \in Int, - n <= y, y < 0
      PROVE  y % n = y + n
  BY <1>3
<1>4. QED
  BY <1>1, <1>2, <1>3, SizeFacts

(* Reducing an index once brings it back into the ring.                    *)
LEMMA ReducedFacts ==
  ASSUME NEW i \in Int, 0 <= i, i < 2 * size
  PROVE  Reduced(i) \in Index /\ Reduced(i) = i % size
  BY ModFacts, SizeFacts DEF Reduced

(* Counts and spaces: what is free and what is used make up the ring but   *)
(* for one position, a chunk is empty only if there is nothing, and the    *)
(* ring is full exactly when no space is left.                             *)
LEMMA CountFacts ==
  ASSUME NEW h \in Index, NEW t \in Index
  PROVE  /\ ring_buf_cnt(h, t) \in 0 .. size - 1
         /\ ring_buf_cnt(h, t) = (t - h) % size
         /\ ring_buf_space(h, t) = size - 1 - ring_buf_cnt(h, t)
         /\ ring_buf_cnt_to_end(h, t) \in 0 .. ring_buf_cnt(h, t)
         /\ ring_buf_cnt_to_end(h, t) <= size - h
         /\ ring_buf_cnt_to_end(h, t) = 0 => ring_buf_cnt(h, t) = 0
         /\ ring_buf_space_to_end(h, t) \in 0 .. ring_buf_space(h, t)
         /\ ring_buf_space_to_end(h, t) <= size - t
         /\ ring_buf_space_to_end(h, t) = 0 => ring_buf_space(h, t) = 0
         /\ ring_buf_full(h, t) <=> ring_buf_space(h, t) = 0
<1>1. h \in Int /\ t \in Int /\ 0 <= h /\ h < size /\ 0 <= t /\ t < size /\ size \in Nat /\ size >= 2
  BY SizeFacts
<1>2. ring_buf_cnt(h, t) \in 0 .. size - 1
  BY <1>1 DEF ring_buf_cnt
<1>3. ring_buf_cnt(h, t) = (t - h) % size
  BY <1>1, ModFacts DEF ring_buf_cnt
<1>4. ring_buf_space(h, t) = size - 1 - ring_buf_cnt(h, t)
  BY <1>1 DEF ring_buf_cnt, ring_buf_space
<1>5. /\ ring_buf_cnt_to_end(h, t) \in 0 .. ring_buf_cnt(h, t)
      /\ ring_buf_cnt_to_end(h, t) <= size - h
      /\ ring_buf_cnt_to_end(h, t) = 0 => ring_buf_cnt(h, t) = 0
  BY <1>1 DEF ring_buf_cnt, ring_buf_cnt_to_end
<1>6. /\ ring_buf_space_to_end(h, t) \in 0 .. ring_buf_space(h, t)
      /\ ring_buf_space_to_end(h, t) <= size - t
      /\ ring_buf_space_to_end(h, t) = 0 => ring_buf_space(h, t) = 0
  BY <1>1 DEF ring_buf_space, ring_buf_space_to_end
<1>7. ring_buf_full(h, t) <=> ring_buf_space(h, t) = 0
  <2>1. (t + 1) % size = IF t + 1 < size THEN t + 1 ELSE 0
    BY <1>1, ModFacts
  <2>2. QED
    BY <1>1, <2>1 DEF ring_buf_full, ring_buf_space
<1>8. QED
  BY <1>2, <1>3, <1>4, <1>5, <1>6, <1>7

(* A function on 1 .. n is a sequence of length n. *)
LEMMA FunIsSeq ==
  ASSUME NEW S, NEW n \in Nat, NEW f \in [1 .. n -> S]
  PROVE  f \in Seq(S) /\ Len(f) = n
<1>1. f \in Seq(S)
  <2>1. Seq(S) = UNION {[1 .. m -> S] : m \in Nat}
    BY SeqDef, Zenon
  <2>2. QED
    BY <2>1, Zenon
<1>2. Len(f) \in Nat /\ DOMAIN f = 1 .. Len(f)
  BY <1>1, LenProperties, Zenon
<1>3. DOMAIN f = 1 .. n
  BY Zenon
<1>4. 1 .. Len(f) = 1 .. n
  BY <1>2, <1>3, Zenon
<1>5. \A x, y \in Nat : 1 .. x = 1 .. y => x = y
  <2> SUFFICES ASSUME NEW x \in Nat, NEW y \in Nat, 1 .. x = 1 .. y PROVE x = y
    OBVIOUS
  <2>1. x >= 1 => x \in 1 .. y
    OBVIOUS
  <2>2. y >= 1 => y \in 1 .. x
    OBVIOUS
  <2>3. QED
    BY <2>1, <2>2
<1>6. QED
  BY <1>1, <1>2, <1>4, <1>5, Zenon

(* The contents of a ring are as many bytes as it counts, from the head on. *)
LEMMA ContentsFacts ==
  ASSUME NEW b \in [Index -> Bytes], NEW h \in Index, NEW t \in Index
  PROVE  /\ Contents(b, h, t) \in Seq(Bytes)
         /\ Len(Contents(b, h, t)) = ring_buf_cnt(h, t)
         /\ \A i \in 1 .. ring_buf_cnt(h, t) :
              /\ Contents(b, h, t)[i] = b[Reduced(h + i - 1)]
              /\ Reduced(h + i - 1) \in Index
<1> DEFINE n == ring_buf_cnt(h, t)
<1>1. n \in Nat /\ n < size /\ n = (t - h) % size
  <2>1. n \in 0 .. size - 1 /\ n = (t - h) % size
    BY CountFacts, Zenon
  <2>2. \A m \in 0 .. size - 1 : m \in Nat /\ m < size
    BY SizeFacts
  <2>3. QED
    BY <2>1, <2>2, Zenon
<1>2. h \in Int /\ 0 <= h /\ h < size /\ size \in Nat
  BY SizeFacts
<1> HIDE DEF n
<1>3. ASSUME NEW i \in 1 .. n
      PROVE  (h + i - 1) % size = Reduced(h + i - 1) /\ Reduced(h + i - 1) \in Index
  <2>1. h + i - 1 \in Int /\ 0 <= h + i - 1 /\ h + i - 1 < 2 * size
    BY <1>1, <1>2
  <2>2. QED
    BY <2>1, ReducedFacts
<1>4. Contents(b, h, t) = [i \in 1 .. n |-> b[(h + i - 1) % size]]
  BY <1>1 DEF Contents
<1>5. \A i \in 1 .. n : Contents(b, h, t)[i] = b[Reduced(h + i - 1)]
  BY <1>3, <1>4
<1>6. Contents(b, h, t) \in [1 .. n -> Bytes]
  BY <1>3, <1>4
<1>7. QED
  BY <1>1, <1>3, <1>5, <1>6, FunIsSeq DEF n

(* A head at the end of the buffer stands for position 0. *)
LEMMA ContentsAtEnd ==
  ASSUME NEW b, NEW t \in Index
  PROVE  Contents(b, size, t) = Contents(b, 0, t)
<1>1. (t - size) % size = (t - 0) % size
  BY ModFacts, SizeFacts
<1>2. \A i \in 1 .. ((t - 0) % size) : (size + i - 1) % size = (0 + i - 1) % size
  <2>1. (t - 0) % size = t /\ t \in Int /\ t < size /\ size \in Nat
    BY ModFacts, SizeFacts
  <2>2. ASSUME NEW i \in Int, 1 <= i, i <= t
        PROVE  (size + i - 1) % size = (0 + i - 1) % size
    <3>1. size + i - 1 \in Int /\ size <= size + i - 1 /\ size + i - 1 < 2 * size
      BY <2>1, <2>2
    <3>2. 0 + i - 1 \in Int /\ 0 <= 0 + i - 1 /\ 0 + i - 1 < size
      BY <2>1, <2>2
    <3>3. (size + i - 1) % size = (size + i - 1) - size
      BY <3>1, ModFacts
    <3>4. (0 + i - 1) % size = 0 + i - 1
      BY <3>2, ModFacts
    <3>5. QED
      BY <2>1, <2>2, <3>3, <3>4
  <2>3. QED
    BY <2>1, <2>2
<1>3. QED
  BY <1>1, <1>2 DEF Contents
-----------------------------------------------------------------------------
(* Writing: the positions before the tail are those of the contents, so a  *)
(* chunk that fits before the end, put from the tail on, is added behind   *)
(* them, and the bytes already there stay in place.                        *)
LEMMA PutChunk ==
  ASSUME NEW b \in [Index -> Bytes], NEW d \in [Index -> Bytes],
         NEW h \in Index, NEW t \in Index,
         NEW c \in 1 .. ring_buf_space_to_end(h, t),
         \A p \in Index : p \notin t .. (t + c - 1) => d[p] = b[p]
  PROVE  /\ Reduced(t + c) \in Index
         /\ ring_buf_cnt(h, Reduced(t + c)) = ring_buf_cnt(h, t) + c
         /\ LET q == Contents(b, h, t)
                r == Contents(d, h, Reduced(t + c))
            IN /\ Len(r) \in Len(q) + 1 .. size - 1
               /\ SubSeq(r, 1, Len(q)) = q
               /\ \A i \in 1 .. Len(r) : r[i] \in Bytes
<1> DEFINE u == Reduced(t + c)
           n == ring_buf_cnt(h, t)
           q == Contents(b, h, t)
           r == Contents(d, h, u)
<1>1. /\ h \in Int /\ t \in Int /\ 0 <= h /\ h < size /\ 0 <= t /\ t < size
      /\ size \in Nat /\ size >= 2
  BY SizeFacts
<1>2. /\ c \in Int /\ c >= 1 /\ c <= size - t /\ c <= size - 1 - n /\ n \in Nat
      /\ c <= ring_buf_space_to_end(h, t)
  <2>1. /\ ring_buf_cnt(h, t) \in 0 .. size - 1
        /\ ring_buf_space(h, t) = size - 1 - ring_buf_cnt(h, t)
        /\ ring_buf_space_to_end(h, t) \in 0 .. ring_buf_space(h, t)
        /\ ring_buf_space_to_end(h, t) <= size - t
    BY CountFacts
  <2>2. QED
    BY <1>1, <2>1
<1>3. u \in Index /\ u = IF t + c = size THEN 0 ELSE t + c
  BY <1>1, <1>2, SizeFacts DEF Reduced
<1>4. ring_buf_cnt(h, u) = n + c
  BY <1>1, <1>2, <1>3 DEF ring_buf_cnt, ring_buf_space_to_end
<1>5. /\ q \in Seq(Bytes) /\ Len(q) = n
      /\ \A i \in 1 .. n : q[i] = b[Reduced(h + i - 1)] /\ Reduced(h + i - 1) \in Index
  BY ContentsFacts
<1>6. /\ r \in Seq(Bytes) /\ Len(r) = n + c
      /\ \A i \in 1 .. n + c : r[i] = d[Reduced(h + i - 1)]
  <2> HIDE DEF u, n
  <2>1. /\ r \in Seq(Bytes) /\ Len(r) = ring_buf_cnt(h, u)
        /\ \A i \in 1 .. ring_buf_cnt(h, u) : r[i] = d[Reduced(h + i - 1)]
    BY <1>3, ContentsFacts, ZenonT(40)
  <2>2. QED
    BY <1>4, <2>1, Zenon
<1>7. ASSUME NEW i \in 1 .. n PROVE r[i] = q[i]
  <2>1. i \in Int /\ 1 <= i /\ i <= n
    BY <1>2
  <2>2. Reduced(h + i - 1) \in Index /\ Reduced(h + i - 1) \notin t .. (t + c - 1)
    <3>1. n = IF t >= h THEN t - h ELSE size + t - h
      BY DEF ring_buf_cnt
    <3>2. h > t => c <= h - t - 1
      BY <1>2 DEF ring_buf_space_to_end
    <3> HIDE DEF n
    <3>3. CASE h > t
      BY <1>1, <1>2, <2>1, <3>1, <3>2, <3>3, SizeFacts DEF Reduced
    <3>4. CASE ~ (h > t)
      BY <1>1, <1>2, <2>1, <3>1, <3>4, SizeFacts DEF Reduced
    <3>5. QED
      BY <3>3, <3>4
  <2>3. i \in 1 .. n + c
    BY <1>2, <2>1
  <2>4. QED
    BY <1>5, <1>6, <2>2, <2>3
<1> HIDE DEF u, n, q, r
<1>8. \A i \in 1 .. Len(r) : r[i] \in Bytes
  BY <1>6, ElementOfSeq
<1>9. SubSeq(r, 1, Len(q)) = q
  <2>1. \A i \in 1 .. n : r[i] \in Bytes
    BY <1>2, <1>6, <1>8
  <2>2. /\ SubSeq(r, 1, n) \in Seq(Bytes) /\ Len(SubSeq(r, 1, n)) = n
        /\ \A i \in 1 .. n : SubSeq(r, 1, n)[i] = r[i]
    <3>1. 1 \in Int /\ n \in Int
      BY <1>2
    <3>2. /\ SubSeq(r, 1, n) \in Seq(Bytes)
          /\ Len(SubSeq(r, 1, n)) = IF 1 <= n THEN n - 1 + 1 ELSE 0
          /\ \A i \in 1 .. n - 1 + 1 : SubSeq(r, 1, n)[i] = r[1 + i - 1]
      BY <2>1, <3>1, SubSeqProperties
    <3>3. QED
      BY <1>2, <3>2
  <2>3. \A i \in 1 .. Len(q) : SubSeq(r, 1, n)[i] = q[i]
    BY <1>5, <1>7, <2>2
  <2>4. QED
    BY <1>5, <2>2, <2>3, SeqEqual
<1>10. Len(r) \in Len(q) + 1 .. size - 1
  BY <1>1, <1>2, <1>5, <1>6
<1>11. QED
  BY <1>3, <1>4, <1>8, <1>9, <1>10 DEF u, n, q, r

(* Reading: a chunk that ends before the end of the buffer is the oldest   *)
(* bytes of the contents, and moving the head over it leaves the rest.     *)
LEMMA TakeChunk ==
  ASSUME NEW b \in [Index -> Bytes], NEW h \in Index, NEW t \in Index,
         NEW c \in 1 .. ring_buf_cnt_to_end(h, t)
  PROVE  /\ Reduced(h + c) \in Index
         /\ ring_buf_cnt(Reduced(h + c), t) = ring_buf_cnt(h, t) - c
         /\ LET q == Contents(b, h, t)
            IN /\ c \in 1 .. Len(q)
               /\ CopyOut(b, h, c) = SubSeq(q, 1, c)
               /\ CopyOut(b, h, c) \in Seq(Bytes) /\ Len(CopyOut(b, h, c)) = c
               /\ Contents(b, Reduced(h + c), t) = SubSeq(q, c + 1, Len(q))
<1> DEFINE g == Reduced(h + c)
           n == ring_buf_cnt(h, t)
           q == Contents(b, h, t)
           r == Contents(b, g, t)
           o == CopyOut(b, h, c)
<1>1. /\ h \in Int /\ t \in Int /\ 0 <= h /\ h < size /\ 0 <= t /\ t < size
      /\ size \in Nat /\ size >= 2
  BY SizeFacts
<1>2. /\ c \in Int /\ c >= 1 /\ c <= size - h /\ c <= n /\ n \in Nat /\ n < size
      /\ c <= ring_buf_cnt_to_end(h, t)
  <2>1. /\ ring_buf_cnt(h, t) \in 0 .. size - 1
        /\ ring_buf_cnt_to_end(h, t) \in 0 .. ring_buf_cnt(h, t)
        /\ ring_buf_cnt_to_end(h, t) <= size - h
    BY CountFacts
  <2>2. QED
    BY <1>1, <2>1
<1>3. g \in Index /\ g = IF h + c = size THEN 0 ELSE h + c
  BY <1>1, <1>2, SizeFacts DEF Reduced
<1>4. ring_buf_cnt(g, t) = n - c
  BY <1>1, <1>2, <1>3 DEF ring_buf_cnt, ring_buf_cnt_to_end
<1>5. /\ q \in Seq(Bytes) /\ Len(q) = n
      /\ \A i \in 1 .. n : q[i] = b[Reduced(h + i - 1)] /\ Reduced(h + i - 1) \in Index
  BY ContentsFacts
<1>6. /\ r \in Seq(Bytes) /\ Len(r) = n - c
      /\ \A i \in 1 .. n - c : r[i] = b[Reduced(g + i - 1)]
  <2> HIDE DEF g, n
  <2>1. /\ r \in Seq(Bytes) /\ Len(r) = ring_buf_cnt(g, t)
        /\ \A i \in 1 .. ring_buf_cnt(g, t) : r[i] = b[Reduced(g + i - 1)]
    BY <1>3, ContentsFacts, ZenonT(40)
  <2>2. QED
    BY <1>4, <2>1, Zenon
<1>7. ASSUME NEW i \in 1 .. c PROVE h + i - 1 \in Index /\ q[i] = b[h + i - 1] /\ q[i] \in Bytes
  <2>1. i \in Int /\ 1 <= i /\ i <= c /\ i \in 1 .. n
    BY <1>2
  <2>2. Reduced(h + i - 1) = h + i - 1 /\ h + i - 1 \in Index
    BY <1>1, <1>2, <2>1, SizeFacts DEF Reduced
  <2>3. QED
    BY <1>5, <2>1, <2>2
<1>8. ASSUME NEW i \in 1 .. n - c PROVE r[i] = q[c + i]
  <2>1. i \in Int /\ 1 <= i /\ i <= n - c /\ c + i \in 1 .. n
    BY <1>2
  <2>2. Reduced(g + i - 1) = Reduced(h + (c + i) - 1)
    BY <1>1, <1>2, <1>3, <2>1 DEF Reduced
  <2>3. QED
    BY <1>5, <1>6, <2>1, <2>2
<1>9. o \in [1 .. c -> Bytes] /\ \A i \in 1 .. c : o[i] = q[i]
  BY <1>7 DEF CopyOut
<1> HIDE DEF g, n, q, r, o
<1>10. o \in Seq(Bytes) /\ Len(o) = c
  <2>1. c \in Nat
    BY <1>2
  <2>2. QED
    BY <1>9, <2>1, FunIsSeq
<1>11. \A i \in 1 .. n : q[i] \in Bytes
  BY <1>5, ElementOfSeq
<1>12. o = SubSeq(q, 1, c)
  <2>1. \A i \in 1 .. c : q[i] \in Bytes
    BY <1>7 DEF q
  <2>2. /\ SubSeq(q, 1, c) \in Seq(Bytes) /\ Len(SubSeq(q, 1, c)) = c
        /\ \A i \in 1 .. c : SubSeq(q, 1, c)[i] = q[i]
    <3>1. /\ SubSeq(q, 1, c) \in Seq(Bytes)
          /\ Len(SubSeq(q, 1, c)) = IF 1 <= c THEN c - 1 + 1 ELSE 0
          /\ \A i \in 1 .. c - 1 + 1 : SubSeq(q, 1, c)[i] = q[1 + i - 1]
      BY <1>2, <2>1, SubSeqProperties
    <3>2. QED
      BY <1>2, <3>1
  <2>3. QED
    BY <1>9, <1>10, <2>2, SeqEqual
<1>13. r = SubSeq(q, c + 1, Len(q))
  <2> DEFINE w == SubSeq(q, c + 1, n)
  <2>1. \A i \in c + 1 .. n : q[i] \in Bytes
    BY <1>2, <1>11
  <2>2. /\ w \in Seq(Bytes)
        /\ Len(w) = IF c + 1 <= n THEN n - (c + 1) + 1 ELSE 0
        /\ \A i \in 1 .. n - (c + 1) + 1 : w[i] = q[(c + 1) + i - 1]
    <3>1. c + 1 \in Int /\ n \in Int
      BY <1>2
    <3>2. QED
      BY <2>1, <3>1, SubSeqProperties
  <2> HIDE DEF w
  <2>3. Len(w) = n - c
    BY <1>2, <2>2
  <2>4. \A i \in 1 .. n - c : w[i] = q[c + i]
    BY <1>2, <2>2, SMTT(40)
  <2>5. \A i \in 1 .. Len(r) : r[i] = w[i]
    BY <1>6, <1>8, <2>4 DEF r, q
  <2>6. r = w
    BY <1>6, <2>2, <2>3, <2>5, SeqEqual
  <2>7. QED
    BY <1>5, <2>6 DEF w
<1>14. c \in 1 .. Len(q)
  BY <1>2, <1>5
<1>15. QED
  BY <1>3, <1>4, <1>10, <1>12, <1>13, <1>14 DEF g, n, q, r, o

-----------------------------------------------------------------------------
(* The variables' types, with chunks as sequences. *)
CallTypes ==
  /\ head \in Index /\ tail \in Index /\ buffer \in [Index -> Bytes]
  /\ op \in {"none", "write", "read"}
  /\ data \in Seq(Bytes) /\ Len(data) <= size
  /\ out \in Seq(Bytes) /\ Len(out) <= size
  /\ want \in 0 .. size /\ ret \in 0 .. size /\ goal \in 0 .. size

(* What a call has moved, and what it can still move, is what it should. *)
OnCourse ==
  /\ op = "none" => ret = goal
  /\ op = "write" => goal = ret + Smaller(Len(data), ring_buf_space(head, tail))
  /\ op = "read" => /\ goal = ret + Smaller(want, ring_buf_cnt(head, tail))
                    /\ Len(out) = ret

CallInv == CallTypes /\ OnCourse

-----------------------------------------------------------------------------
(* The chunks of a call are the sequences that fit into the ring.          *)
LEMMA ChunkIsSeq ==
  ASSUME NEW d
  PROVE  d \in Chunks <=> d \in Seq(Bytes) /\ Len(d) <= size
<1>1. ASSUME d \in Chunks PROVE d \in Seq(Bytes) /\ Len(d) <= size
  <2>1. PICK n \in 0 .. size : d \in [1 .. n -> Bytes]
    BY <1>1 DEF Chunks
  <2>2. n \in Nat /\ n <= size
    BY SizeFacts
  <2>3. QED
    BY <2>1, <2>2, FunIsSeq
<1>2. ASSUME d \in Seq(Bytes), Len(d) <= size PROVE d \in Chunks
  <2>1. Len(d) \in 0 .. size /\ d \in [1 .. Len(d) -> Bytes]
    BY <1>2, LenProperties, SizeFacts
  <2>2. QED
    BY <2>1, Zenon DEF Chunks
<1>3. QED
  BY <1>1, <1>2

(* Taking the same from both takes it from the smaller one.                *)
LEMMA SmallerLess ==
  ASSUME NEW m \in Nat, NEW n \in Nat, NEW c \in Nat, c <= m, c <= n
  PROVE  Smaller(m - c, n - c) = Smaller(m, n) - c /\ Smaller(m, n) \in Nat
  BY DEF Smaller

(* The ring begins empty with no call under way.                           *)
LEMMA CallInitInv == CallsInit => CallInv
<1> SUFFICES ASSUME CallsInit PROVE CallInv
  OBVIOUS
<1>1. CallTypes
  BY SizeFacts, EmptySeq DEF CallsInit, CallTypes
<1>2. OnCourse
  BY DEF CallsInit, OnCourse
<1>3. QED
  BY <1>1, <1>2 DEF CallInv

(* The numbers a call works with. *)
LEMMA CallNumbers ==
  ASSUME CallTypes
  PROVE  /\ ring_buf_cnt(head, tail) \in Nat /\ ring_buf_cnt(head, tail) < size
         /\ ring_buf_space(head, tail) = size - 1 - ring_buf_cnt(head, tail)
         /\ ring_buf_space(head, tail) \in Nat
         /\ ring_buf_cnt_to_end(head, tail) \in Nat
         /\ ring_buf_cnt_to_end(head, tail) <= ring_buf_cnt(head, tail)
         /\ ring_buf_cnt_to_end(head, tail) = 0 => ring_buf_cnt(head, tail) = 0
         /\ ring_buf_space_to_end(head, tail) \in Nat
         /\ ring_buf_space_to_end(head, tail) <= ring_buf_space(head, tail)
         /\ ring_buf_space_to_end(head, tail) = 0 => ring_buf_space(head, tail) = 0
         /\ ring_buf_full(head, tail) <=> ring_buf_space(head, tail) = 0
         /\ Len(data) \in Nat /\ Len(out) \in Nat /\ size \in Nat
         /\ want \in Nat /\ ret \in Nat /\ goal \in Nat /\ goal <= size
<1>1. head \in Index /\ tail \in Index /\ size \in Nat
  BY SizeFacts DEF CallTypes
<1>2. /\ ring_buf_cnt(head, tail) \in 0 .. size - 1
      /\ ring_buf_space(head, tail) = size - 1 - ring_buf_cnt(head, tail)
      /\ ring_buf_cnt_to_end(head, tail) \in 0 .. ring_buf_cnt(head, tail)
      /\ ring_buf_cnt_to_end(head, tail) = 0 => ring_buf_cnt(head, tail) = 0
      /\ ring_buf_space_to_end(head, tail) \in 0 .. ring_buf_space(head, tail)
      /\ ring_buf_space_to_end(head, tail) = 0 => ring_buf_space(head, tail) = 0
      /\ ring_buf_full(head, tail) <=> ring_buf_space(head, tail) = 0
  BY <1>1, CountFacts
<1>3. Len(data) \in Nat /\ Len(out) \in Nat
  BY LenProperties DEF CallTypes
<1>4. want \in Nat /\ ret \in Nat /\ goal \in Nat /\ goal <= size
  BY <1>1 DEF CallTypes
<1>5. QED
  BY <1>1, <1>2, <1>3, <1>4

(* A call of ring_buf_write begins with all its bytes to move.             *)
LEMMA WriteCallInv == ASSUME CallInv, NEW d \in Chunks, WriteCall(d) PROVE CallInv'
<1>1. d \in Seq(Bytes) /\ Len(d) <= size /\ Len(d) \in Nat
  BY ChunkIsSeq, LenProperties
<1>2. goal' \in 0 .. size /\ 0 \in 0 .. size
  BY <1>1, CallNumbers DEF CallInv, WriteCall, Smaller
<1>3. CallTypes'
  BY <1>1, <1>2 DEF CallInv, CallTypes, WriteCall, ring
<1>4. goal' = 0 + goal'
  <2>1. \A g \in 0 .. size : g = 0 + g
    BY SizeFacts
  <2>2. QED
    BY <1>2, <2>1, Zenon
<1>5. OnCourse'
  BY <1>2, <1>4 DEF CallInv, WriteCall, OnCourse, ring
<1>6. QED
  BY <1>3, <1>5 DEF CallInv

(* A call of ring_buf_read begins with all its bytes to fetch.             *)
LEMMA ReadCallInv == ASSUME CallInv, NEW n \in 0 .. size, ReadCall(n) PROVE CallInv'
<1>1. n \in Nat /\ n <= size
  BY SizeFacts
<1>2. goal' \in 0 .. size /\ 0 \in 0 .. size
  BY <1>1, CallNumbers DEF CallInv, ReadCall, Smaller
<1>3. out' \in Seq(Bytes) /\ Len(out') = 0 /\ 0 <= size
  BY EmptySeq, SizeFacts DEF ReadCall
<1>4. CallTypes'
  BY <1>1, <1>2, <1>3 DEF CallInv, CallTypes, ReadCall, ring
<1>5. goal' = 0 + goal'
  <2>1. \A g \in 0 .. size : g = 0 + g
    BY SizeFacts
  <2>2. QED
    BY <1>2, <2>1, Zenon
<1>6. OnCourse'
  BY <1>3, <1>5 DEF CallInv, ReadCall, OnCourse, ring
<1>7. QED
  BY <1>4, <1>6 DEF CallInv

-----------------------------------------------------------------------------
(* An iteration of ring_buf_write copies a chunk, which the queue gets, or *)
(* finds nothing to copy, when the call has done what it should.           *)
LEMMA WriteStepInv ==
  ASSUME CallInv, WriteStep
  PROVE  CallInv' /\ (Fifo!Put \/ UNCHANGED <<Contents(buffer, head, tail), out>>)
<1> DEFINE c == Smaller(Len(data), ring_buf_space_to_end(head, tail))
<1>1. CallTypes /\ op = "write" /\ goal = ret + Smaller(Len(data), ring_buf_space(head, tail))
  BY DEF CallInv, OnCourse, WriteStep
<1>2. CASE Breaks(c)
  <2>1. op' = "none" /\ data' = <<>> /\ UNCHANGED <<head, tail, buffer, ret, want, out, goal>>
    BY <1>2 DEF WriteStep
  <2>2. ret = goal
    BY <1>1, <1>2, CallNumbers DEF Breaks, Smaller
  <2>3. data' \in Seq(Bytes) /\ Len(data') <= size
    BY <2>1, EmptySeq, SizeFacts
  <2>4. CallInv'
    BY <1>1, <2>1, <2>2, <2>3 DEF CallInv, CallTypes, OnCourse
  <2>5. QED
    BY <2>1, <2>4
<1>3. CASE ~ Breaks(c)
  <2>1. /\ buffer' = CopyIn(buffer, tail, data, c) /\ tail' = Reduced(tail + c)
        /\ data' = SubSeq(data, c + 1, Len(data)) /\ ret' = ret + c
        /\ UNCHANGED <<op, head, want, out, goal>>
    BY <1>3 DEF WriteStep
  <2>2. /\ c \in Nat /\ c >= 1 /\ c <= Len(data) /\ c <= ring_buf_space_to_end(head, tail)
        /\ c \in 1 .. ring_buf_space_to_end(head, tail)
    BY <1>1, <1>3, CallNumbers DEF Breaks, Smaller
  <2> HIDE DEF c
  <2>3. head \in Index /\ tail \in Index /\ buffer \in [Index -> Bytes] /\ tail \in Int
    BY <1>1, SizeFacts DEF CallTypes
  <2>4. /\ buffer' \in [Index -> Bytes]
        /\ \A p \in Index : p \notin tail .. (tail + c - 1) => buffer'[p] = buffer[p]
    <3>1. ASSUME NEW p \in Index, p \in tail .. (tail + c - 1) PROVE data[p - tail + 1] \in Bytes
      <4>1. p - tail + 1 \in 1 .. Len(data)
        BY <1>1, <2>2, <2>3, <3>1, CallNumbers, SizeFacts
      <4>2. QED
        BY <1>1, <4>1, ElementOfSeq DEF CallTypes
    <3>2. QED
      BY <2>1, <2>3, <3>1 DEF CopyIn
  <2>5. /\ tail' \in Index
        /\ ring_buf_cnt(head, tail') = ring_buf_cnt(head, tail) + c
        /\ Len(Contents(buffer', head, tail')) \in Len(Contents(buffer, head, tail)) + 1 .. size - 1
        /\ SubSeq(Contents(buffer', head, tail'), 1, Len(Contents(buffer, head, tail)))
             = Contents(buffer, head, tail)
        /\ \A i \in 1 .. Len(Contents(buffer', head, tail')) :
             Contents(buffer', head, tail')[i] \in Bytes
    <3>1. \A p \in Index : p \notin tail .. (tail + c - 1) => buffer'[p] = buffer[p]
      BY <2>4
    <3>2. /\ Reduced(tail + c) \in Index
          /\ ring_buf_cnt(head, Reduced(tail + c)) = ring_buf_cnt(head, tail) + c
          /\ Len(Contents(buffer', head, Reduced(tail + c))) \in
               Len(Contents(buffer, head, tail)) + 1 .. size - 1
          /\ SubSeq(Contents(buffer', head, Reduced(tail + c)), 1, Len(Contents(buffer, head, tail)))
               = Contents(buffer, head, tail)
          /\ \A i \in 1 .. Len(Contents(buffer', head, Reduced(tail + c))) :
               Contents(buffer', head, Reduced(tail + c))[i] \in Bytes
      BY <2>2, <2>3, <2>4, <3>1, PutChunk, Zenon
    <3>3. QED
      BY <2>1, <3>2, Zenon
  <2>6. data' \in Seq(Bytes) /\ Len(data') = Len(data) - c
    <3>1. \A i \in c + 1 .. Len(data) : data[i] \in Bytes
      <4>1. \A i \in c + 1 .. Len(data) : i \in 1 .. Len(data)
        BY <1>1, <2>2, CallNumbers
      <4>2. QED
        BY <1>1, <4>1, ElementOfSeq DEF CallTypes
    <3>2. c + 1 \in Int /\ Len(data) \in Int
      BY <1>1, <2>2, CallNumbers
    <3>3. /\ data' \in Seq(Bytes)
          /\ Len(data') = IF c + 1 <= Len(data) THEN Len(data) - (c + 1) + 1 ELSE 0
      BY <2>1, <3>1, <3>2, SubSeqProperties
    <3>4. QED
      BY <1>1, <2>2, <3>3, CallNumbers
  <2>7. ret' \in 0 .. size /\ Len(data') <= size
    <3>1. ret + c <= goal
      BY <1>1, <2>2, CallNumbers, SMTT(40) DEF Smaller
    <3>2. QED
      BY <1>1, <2>1, <2>2, <2>6, <3>1, CallNumbers, SMTT(40) DEF CallTypes
  <2>8. CallTypes'
    BY <1>1, <2>1, <2>3, <2>4, <2>5, <2>6, <2>7 DEF CallTypes
  <2>9. ring_buf_space(head, tail') = ring_buf_space(head, tail) - c
    <3>1. ring_buf_space(head, tail') = size - 1 - ring_buf_cnt(head, tail')
      BY <2>3, <2>5, CountFacts
    <3>2. /\ ring_buf_cnt(head, tail) \in Nat /\ size \in Nat
          /\ ring_buf_space(head, tail) = size - 1 - ring_buf_cnt(head, tail)
      BY <1>1, CallNumbers
    <3>3. ring_buf_cnt(head, tail') = ring_buf_cnt(head, tail) + c
      BY <2>5
    <3>4. \A x, y, z \in Nat : z - 1 - (x + y) = (z - 1 - x) - y
      OBVIOUS
    <3>5. QED
      BY <2>2, <3>1, <3>2, <3>3, <3>4
  <2>10. goal = ret' + Smaller(Len(data'), ring_buf_space(head, tail'))
    <3>1. c <= ring_buf_space(head, tail)
      BY <1>1, <2>2, CallNumbers
    <3>2. Len(data) \in Nat /\ ring_buf_space(head, tail) \in Nat /\ ret \in Nat
      BY <1>1, CallNumbers
    <3>3. Smaller(Len(data) - c, ring_buf_space(head, tail) - c)
            = Smaller(Len(data), ring_buf_space(head, tail)) - c
          /\ Smaller(Len(data), ring_buf_space(head, tail)) \in Nat
      BY <2>2, <3>1, <3>2, SmallerLess
    <3>4. Smaller(Len(data'), ring_buf_space(head, tail'))
            = Smaller(Len(data), ring_buf_space(head, tail)) - c
      BY <2>6, <2>9, <3>3
    <3>5. goal = ret + Smaller(Len(data), ring_buf_space(head, tail)) /\ ret' = ret + c
      BY <1>1, <2>1
    <3>6. \A x, y, z \in Nat : x + y = (x + z) + (y - z)
      OBVIOUS
    <3>7. QED
      BY <2>2, <3>2, <3>3, <3>4, <3>5, <3>6
  <2>11. OnCourse'
    BY <1>1, <2>1, <2>10 DEF OnCourse
  <2>12. Fifo!Put
    BY <2>1, <2>5 DEF Fifo!Put
  <2>13. QED
    BY <2>8, <2>11, <2>12 DEF CallInv
<1>4. QED
  BY <1>2, <1>3

(* An iteration of ring_buf_read takes the oldest bytes. *)
LEMMA ReadStepInv ==
  ASSUME CallInv, ReadStep
  PROVE  /\ CallInv'
         /\ \/ \E n \in 1 .. Len(Contents(buffer, head, tail)) : Fifo!Take(n)
            \/ UNCHANGED <<Contents(buffer, head, tail), out>>
<1> DEFINE c == Smaller(want, ring_buf_cnt_to_end(head, tail))
<1>1. /\ CallTypes /\ op = "read" /\ goal = ret + Smaller(want, ring_buf_cnt(head, tail))
      /\ Len(out) = ret
  BY DEF CallInv, OnCourse, ReadStep
<1>2. CASE Breaks(c)
  <2>1. op' = "none" /\ want' = 0 /\ UNCHANGED <<head, tail, buffer, ret, data, out, goal>>
    BY <1>2 DEF ReadStep
  <2>2. ret = goal
    BY <1>1, <1>2, CallNumbers DEF Breaks, Smaller
  <2>3. want' \in 0 .. size
    BY <2>1, SizeFacts
  <2>4. CallInv'
    BY <1>1, <2>1, <2>2, <2>3 DEF CallInv, CallTypes, OnCourse
  <2>5. QED
    BY <2>1, <2>4
<1>3. CASE ~ Breaks(c)
  <2>1. /\ out' = out \o CopyOut(buffer, head, c) /\ head' = Reduced(head + c)
        /\ want' = want - c /\ ret' = ret + c
        /\ UNCHANGED <<op, tail, buffer, data, goal>>
    BY <1>3 DEF ReadStep
  <2>2. /\ c \in Nat /\ c >= 1 /\ c <= want /\ c <= ring_buf_cnt_to_end(head, tail)
        /\ c \in 1 .. ring_buf_cnt_to_end(head, tail)
    BY <1>1, <1>3, CallNumbers DEF Breaks, Smaller
  <2> HIDE DEF c
  <2>3. head \in Index /\ tail \in Index /\ buffer \in [Index -> Bytes]
    BY <1>1 DEF CallTypes
  <2> DEFINE q == Contents(buffer, head, tail)
  <2>4. /\ head' \in Index
        /\ ring_buf_cnt(head', tail) = ring_buf_cnt(head, tail) - c
        /\ c \in 1 .. Len(q)
        /\ CopyOut(buffer, head, c) = SubSeq(q, 1, c)
        /\ CopyOut(buffer, head, c) \in Seq(Bytes) /\ Len(CopyOut(buffer, head, c)) = c
        /\ Contents(buffer, head', tail) = SubSeq(q, c + 1, Len(q))
    BY <2>1, <2>2, <2>3, TakeChunk
  <2>5. out' \in Seq(Bytes) /\ Len(out') = ret'
    BY <1>1, <2>1, <2>4, ConcatProperties DEF CallTypes
  <2>6. ret' \in 0 .. size /\ want' \in 0 .. size
    <3>1. ret + c <= goal
      BY <1>1, <2>2, CallNumbers DEF Smaller
    <3>2. QED
      BY <1>1, <2>1, <2>2, <3>1, CallNumbers DEF CallTypes
  <2>7. Len(out') <= size
    BY <2>5, <2>6, SizeFacts
  <2>8. CallTypes'
    BY <1>1, <2>1, <2>3, <2>4, <2>5, <2>6, <2>7 DEF CallTypes
  <2>9. goal = ret' + Smaller(want', ring_buf_cnt(head', tail))
    <3>1. c <= ring_buf_cnt(head, tail)
      BY <1>1, <2>2, CallNumbers
    <3>2. want \in Nat /\ ring_buf_cnt(head, tail) \in Nat /\ ret \in Nat
      BY <1>1, CallNumbers
    <3>3. Smaller(want - c, ring_buf_cnt(head, tail) - c)
            = Smaller(want, ring_buf_cnt(head, tail)) - c
          /\ Smaller(want, ring_buf_cnt(head, tail)) \in Nat
      BY <2>2, <3>1, <3>2, SmallerLess
    <3>4. Smaller(want', ring_buf_cnt(head', tail)) = Smaller(want, ring_buf_cnt(head, tail)) - c
      BY <2>1, <2>4, <3>3
    <3>5. goal = ret + Smaller(want, ring_buf_cnt(head, tail)) /\ ret' = ret + c
      BY <1>1, <2>1
    <3>6. \A x, y, z \in Nat : x + y = (x + z) + (y - z)
      OBVIOUS
    <3>7. QED
      BY <2>2, <3>2, <3>3, <3>4, <3>5, <3>6
  <2>10. OnCourse'
    BY <1>1, <2>1, <2>5, <2>9 DEF OnCourse
  <2>11. Fifo!Take(c)
    BY <2>1, <2>4 DEF Fifo!Take
  <2>12. QED
    BY <2>4, <2>8, <2>10, <2>11 DEF CallInv
<1>4. QED
  BY <1>2, <1>3

(* A single byte is a chunk of one, or is refused by a full ring. *)
LEMMA WriteCharInv ==
  ASSUME CallInv, NEW b \in Bytes, WriteChar(b)
  PROVE  CallInv' /\ (Fifo!Put \/ UNCHANGED <<Contents(buffer, head, tail), out>>)
<1>1. /\ CallTypes /\ op = "none" /\ goal' = Smaller(1, ring_buf_space(head, tail))
      /\ UNCHANGED <<head, op, data, want, out>>
  BY DEF CallInv, WriteChar
<1>2. CASE ring_buf_full(head, tail)
  <2>1. ret' = 0 /\ UNCHANGED <<tail, buffer>>
    BY <1>2 DEF WriteChar
  <2>2. goal' = 0 /\ 0 \in 0 .. size
    BY <1>1, <1>2, CallNumbers DEF Smaller
  <2>3. CallInv'
    BY <1>1, <2>1, <2>2 DEF CallInv, CallTypes, OnCourse
  <2>4. QED
    BY <1>1, <2>1, <2>3
<1>3. CASE ~ ring_buf_full(head, tail)
  <2>1. buffer' = [buffer EXCEPT ![tail] = b] /\ tail' = Reduced(tail + 1) /\ ret' = 1
    BY <1>3 DEF WriteChar
  <2>2. goal' = 1 /\ 1 \in 0 .. size /\ 1 \in 1 .. ring_buf_space_to_end(head, tail)
    BY <1>1, <1>3, CallNumbers, SizeFacts DEF Smaller
  <2>3. head \in Index /\ tail \in Index /\ buffer \in [Index -> Bytes] /\ tail \in Int
    BY <1>1, SizeFacts DEF CallTypes
  <2>4. /\ buffer' \in [Index -> Bytes]
        /\ \A p \in Index : p \notin tail .. (tail + 1 - 1) => buffer'[p] = buffer[p]
    <3>1. tail \in tail .. (tail + 1 - 1)
      BY <2>3
    <3>2. QED
      BY <2>1, <2>3, <3>1
  <2>5. ASSUME NEW c \in 1 .. ring_buf_space_to_end(head, tail), c = 1
        PROVE  /\ tail' \in Index
               /\ Len(Contents(buffer', head, tail')) \in
                    Len(Contents(buffer, head, tail)) + 1 .. size - 1
               /\ SubSeq(Contents(buffer', head, tail'), 1, Len(Contents(buffer, head, tail)))
                    = Contents(buffer, head, tail)
               /\ \A i \in 1 .. Len(Contents(buffer', head, tail')) :
                    Contents(buffer', head, tail')[i] \in Bytes
    <3>1. /\ \A p \in Index : p \notin tail .. (tail + c - 1) => buffer'[p] = buffer[p]
          /\ tail' = Reduced(tail + c)
      BY <2>1, <2>4, <2>5
    <3>2. QED
      BY <2>3, <2>4, <3>1, PutChunk
  <2>6. Fifo!Put /\ tail' \in Index
    BY <1>1, <2>2, <2>5 DEF Fifo!Put
  <2>7. CallInv'
    BY <1>1, <2>1, <2>2, <2>4, <2>6 DEF CallInv, CallTypes, OnCourse
  <2>8. QED
    BY <2>6, <2>7
<1>4. QED
  BY <1>2, <1>3

(* With both indices at 0 the ring holds nothing.                          *)
LEMMA EmptyContents ==
  ASSUME NEW b \in [Index -> Bytes]
  PROVE  Contents(b, 0, 0) = <<>>
<1>1. 0 \in Index /\ ring_buf_cnt(0, 0) = 0
  BY SizeFacts DEF ring_buf_cnt
<1>2. Contents(b, 0, 0) \in Seq(Bytes) /\ Len(Contents(b, 0, 0)) = 0
  BY <1>1, ContentsFacts
<1>3. QED
  BY <1>2, EmptySeq

(* Clearing the ring empties the queue.                                    *)
LEMMA ClearRingInv ==
  ASSUME CallInv, ClearRing
  PROVE  CallInv' /\ Fifo!Clear
<1>1. /\ head' = 0 /\ tail' = 0 /\ op = "none"
      /\ UNCHANGED <<buffer, op, data, want, ret, out, goal>>
  BY DEF ClearRing
<1>2. 0 \in Index /\ buffer \in [Index -> Bytes]
  BY SizeFacts DEF CallInv, CallTypes
<1>3. CallInv'
  BY <1>1, <1>2 DEF CallInv, CallTypes, OnCourse
<1>4. QED
  BY <1>1, <1>2, <1>3, EmptyContents DEF Fifo!Clear

-----------------------------------------------------------------------------
(* Every step keeps the invariant and is a step of the queue. *)
LEMMA CallNextInv ==
  ASSUME CallInv, [CallsNext]_(callVars)
  PROVE  /\ CallInv'
         /\ [Fifo!FifoNext \/ (ClearRing /\ Fifo!Clear)]_<<Contents(buffer, head, tail), out>>
<1>1. CASE \E d \in Chunks : WriteCall(d)
  <2>1. UNCHANGED <<head, tail, buffer, out>>
    BY <1>1 DEF WriteCall, ring
  <2>2. QED
    BY <1>1, <2>1, WriteCallInv
<1>2. CASE \E n \in 0 .. size : ReadCall(n)
  <2>1. UNCHANGED <<head, tail, buffer>> /\ out' = <<>>
    BY <1>2 DEF ReadCall, ring
  <2>2. Fifo!FifoNext
    BY <2>1 DEF Fifo!FifoNext, Fifo!Fetch
  <2>3. QED
    BY <1>2, <2>2, ReadCallInv
<1>3. CASE WriteStep
  BY <1>3, WriteStepInv DEF Fifo!FifoNext
<1>4. CASE ReadStep
  BY <1>4, ReadStepInv DEF Fifo!FifoNext
<1>5. CASE \E b \in Bytes : WriteChar(b)
  BY <1>5, WriteCharInv DEF Fifo!FifoNext
<1>6. CASE ClearRing
  BY <1>6, ClearRingInv
<1>7. CASE UNCHANGED callVars
  <2>1. CallInv'
    BY <1>7 DEF callVars, CallInv, CallTypes, OnCourse
  <2>2. QED
    BY <1>7, <2>1 DEF callVars
<1>8. QED
  BY <1>1, <1>2, <1>3, <1>4, <1>5, <1>6, <1>7 DEF CallsNext

(* Both indices stay in the ring, and a call under way will have moved     *)
(* all that fits: what it moved so far and what the ring still allows add  *)
(* up.                                                                     *)
THEOREM CallsInv == CallsSpec => []CallInv
<1>1. CallInv /\ [CallsNext]_(callVars) => CallInv'
  BY CallNextInv
<1>2. QED
  BY <1>1, CallInitInv, PTL DEF CallsSpec

(* The variables of the ring and of a call keep their types. *)
THEOREM CallsTypeOK == CallsSpec => []CallsType
<1>1. CallInv => CallsType
  BY ChunkIsSeq DEF CallInv, CallTypes, CallsType
<1>2. QED
  BY <1>1, CallsInv, PTL

(* A call moves as many bytes as the ring has room or data for. *)
THEOREM CallsMoveAll == CallsSpec => []CallsAreMaximal
<1>1. CallInv => CallsAreMaximal
  BY DEF CallInv, OnCourse, CallsAreMaximal
<1>2. QED
  BY <1>1, CallsInv, PTL

(* The ring implements the bounded queue; only ring_buf_clear throws bytes *)
(* away.                                                                   *)
THEOREM CallsImplementFifo == CallsSpec => CallsAreFifo
<1>1. CallsInit => Fifo!FifoInit
  BY EmptyContents DEF CallsInit, Fifo!FifoInit
<1>2. CallInv /\ [CallsNext]_(callVars) =>
        [Fifo!FifoNext \/ (ClearRing /\ Fifo!Clear)]_<<Contents(buffer, head, tail), out>>
  BY CallNextInv
<1>3. QED
  BY <1>1, <1>2, CallsInv, PTL DEF CallsSpec, CallsAreFifo

-----------------------------------------------------------------------------
(* head is past the end between its two stores only. *)
HeadInv ==
  /\ pc # "reduce" => head \in Index /\ burst = 0
  /\ pc = "reduce" => head = size /\ (burst = 0 => tail <= size - 2)

(* The chunk copied is the part of the ring from head on, and the last     *)
(* part of what the task holds.                                            *)
CopyInv ==
  pc = "advance" =>
    /\ chunk \in 1 .. ring_buf_cnt_to_end(head, tail) /\ chunk <= left
    /\ chunk <= Len(recv_data)
    /\ \A i \in 1 .. chunk : recv_data[Len(recv_data) - chunk + i] = buffer[head + i - 1]

Inv == TypeOK /\ HeadInv /\ CopyInv

(* The bytes accepted and not read are those the ring counts, but for an   *)
(* overrun: then they fill the ring, which counts none.                    *)
CountInv ==
  \/ unread = ring_buf_cnt(Reduced(head), tail)
  \/ unread = size /\ ring_buf_cnt(Reduced(head), tail) = 0

-----------------------------------------------------------------------------
(* The ring begins empty, with no byte unread.                             *)
LEMMA InitInv == Init => Inv /\ CountInv
<1> SUFFICES ASSUME Init PROVE Inv /\ CountInv
  OBVIOUS
<1>1. TypeOK
  <2>1. 0 \in 0 .. size /\ 0 \in Index /\ 0 \in 0 .. SEM_MAX /\ 0 \in 0 .. BURST /\ 0 \in Int
    BY SizeFacts, UartAssumption
  <2>2. recv_data \in Seq(Bytes)
    BY EmptySeq DEF Init
  <2>3. QED
    BY <2>1, <2>2 DEF Init, TypeOK
<1>2. HeadInv /\ CopyInv
  <2>1. 0 \in Index
    BY SizeFacts
  <2>2. HeadInv
    BY <2>1 DEF Init, HeadInv
  <2>3. CopyInv
    BY DEF Init, CopyInv
  <2>4. QED
    BY <2>2, <2>3
<1>3. CountInv
  <2>1. head = 0 /\ tail = 0 /\ unread = 0
    BY DEF Init
  <2>2. Reduced(0) = 0
    BY SizeFacts DEF Reduced
  <2>3. ring_buf_cnt(0, 0) = 0
    BY DEF ring_buf_cnt
  <2>4. QED
    BY <2>1, <2>2, <2>3 DEF CountInv
<1>4. QED
  BY <1>1, <1>2, <1>3 DEF Inv

(* A post never takes the semaphore past its limit.                        *)
LEMMA PostedType == ASSUME NEW s \in 0 .. SEM_MAX PROVE Posted(s) \in 0 .. SEM_MAX
  BY UartAssumption DEF Posted

(* The numbers the steps work with. *)
LEMMA Numbers ==
  ASSUME TypeOK, head \in Index
  PROVE  /\ head \in Int /\ 0 <= head /\ head < size /\ tail \in Int /\ 0 <= tail /\ tail < size
         /\ size \in Nat /\ size >= 2
         /\ ring_buf_cnt(head, tail) \in 0 .. size - 1
         /\ ring_buf_cnt_to_end(head, tail) \in 0 .. ring_buf_cnt(head, tail)
         /\ ring_buf_cnt_to_end(head, tail) <= size - head
         /\ left \in Nat /\ left <= size /\ Len(recv_data) \in Nat
<1>1. tail \in Index
  BY DEF TypeOK
<1>2. left \in Nat /\ left <= size /\ Len(recv_data) \in Nat
  BY SizeFacts, LenProperties DEF TypeOK
<1>3. /\ ring_buf_cnt(head, tail) \in 0 .. size - 1
      /\ ring_buf_cnt_to_end(head, tail) \in 0 .. ring_buf_cnt(head, tail)
      /\ ring_buf_cnt_to_end(head, tail) <= size - head
  BY <1>1, CountFacts
<1>4. /\ head \in Int /\ 0 <= head /\ head < size /\ tail \in Int /\ 0 <= tail /\ tail < size
      /\ size \in Nat /\ size >= 2
  BY <1>1, SizeFacts
<1>5. QED
  BY <1>2, <1>3, <1>4

-----------------------------------------------------------------------------
(* The interrupt writes at the tail, which it moves by one, or refuses.    *)
LEMMA ReceiveFacts ==
  ASSUME Inv, NEW b \in Bytes, Receive(b)
  PROVE  /\ UNCHANGED <<head, timer, pc, recv_size, left, chunk, recv_data>>
         /\ pc = "reduce" => burst < BURST /\ burst' = burst + 1
         /\ pc # "reduce" => burst' = 0
         /\ sem' \in 0 .. SEM_MAX
         /\ tail' \in Index /\ buffer' \in [Index -> Bytes]
         /\ \/ UNCHANGED <<buffer, tail, unread>> /\ ring_buf_full(head, tail)
            \/ /\ ~ ring_buf_full(head, tail)
               /\ buffer' = [buffer EXCEPT ![tail] = b] /\ tail' = Reduced(tail + 1)
               /\ unread' = 1 + (IF unread = size THEN 0 ELSE unread)
<1>1. /\ UNCHANGED <<head, timer, pc, recv_size, left, chunk, recv_data>>
      /\ pc = "reduce" => burst < BURST /\ burst' = burst + 1
      /\ pc # "reduce" => burst' = 0
      /\ sem' \in {sem, Posted(sem)}
      /\ \/ UNCHANGED <<buffer, tail, unread>> /\ ring_buf_full(head, tail)
         \/ /\ ~ ring_buf_full(head, tail)
            /\ buffer' = [buffer EXCEPT ![tail] = b] /\ tail' = Reduced(tail + 1)
            /\ unread' = 1 + (IF unread = size THEN 0 ELSE unread)
  BY DEF Receive, task
<1>2. sem' \in 0 .. SEM_MAX
  BY <1>1, PostedType DEF Inv, TypeOK
<1>3. tail \in Index /\ buffer \in [Index -> Bytes]
  BY DEF Inv, TypeOK
<1>4. Reduced(tail + 1) \in Index
  BY <1>3, SizeFacts DEF Reduced
<1>5. QED
  BY <1>1, <1>2, <1>3, <1>4

(* The interrupt stores its byte at the tail, also between the two stores. *)
LEMMA ReceiveInv == ASSUME Inv, NEW b \in Bytes, Receive(b) PROVE Inv'
<1> USE ReceiveFacts
<1>1. TypeOK'
  <2>1. burst' \in 0 .. BURST
    BY UartAssumption DEF Inv, TypeOK
  <2>2. unread' \in Int
    BY DEF Inv, TypeOK
  <2>3. QED
    BY <2>1, <2>2 DEF Inv, TypeOK
<1>2. HeadInv'
  <2>1. CASE pc = "reduce"
    <3>1. burst' # 0
      BY <2>1, UartAssumption DEF Inv, TypeOK
    <3>2. QED
      BY <2>1, <3>1 DEF Inv, HeadInv
  <2>2. CASE pc # "reduce"
    BY <2>2 DEF Inv, HeadInv
  <2>3. QED
    BY <2>1, <2>2
<1>3. CopyInv'
  <2> SUFFICES ASSUME pc = "advance"
               PROVE  /\ chunk \in 1 .. ring_buf_cnt_to_end(head, tail')
                      /\ \A i \in 1 .. chunk : buffer'[head + i - 1] = buffer[head + i - 1]
    BY DEF CopyInv, Inv
  <2>1. /\ TypeOK /\ head \in Index /\ chunk \in 1 .. ring_buf_cnt_to_end(head, tail)
    BY DEF Inv, HeadInv, CopyInv
  <2>2. CASE UNCHANGED <<buffer, tail>>
    BY <2>1, <2>2
  <2>3. CASE /\ ~ ring_buf_full(head, tail)
             /\ buffer' = [buffer EXCEPT ![tail] = b] /\ tail' = Reduced(tail + 1)
    <3>1. /\ head \in Int /\ 0 <= head /\ head < size /\ tail \in Int /\ 0 <= tail /\ tail < size
          /\ size \in Nat /\ size >= 2
      BY <2>1, Numbers
    <3>2. chunk \in Int /\ chunk >= 1 /\ chunk <= ring_buf_cnt_to_end(head, tail)
      BY <2>1, Numbers
    <3>3. ring_buf_space(head, tail) # 0
      BY <2>1, <2>3, CountFacts DEF TypeOK
    <3>4. /\ ring_buf_cnt_to_end(head, tail') \in Int
          /\ ring_buf_cnt_to_end(head, tail) <= ring_buf_cnt_to_end(head, tail')
      <4>1. tail' = IF tail + 1 = size THEN 0 ELSE tail + 1
        BY <2>3, <3>1 DEF Reduced
      <4>2. tail + 1 = size => head > 0
        BY <3>1, <3>3 DEF ring_buf_space
      <4>3. head > tail => head > tail + 1
        BY <3>1, <3>3 DEF ring_buf_space
      <4>4. QED
        BY <3>1, <4>1, <4>2, <4>3 DEF ring_buf_cnt_to_end
    <3>5. chunk \in 1 .. ring_buf_cnt_to_end(head, tail')
      <4>1. \A x, y, z \in Int : x >= 1 /\ x <= y /\ y <= z => x \in 1 .. z
        OBVIOUS
      <4>2. ring_buf_cnt_to_end(head, tail) \in Int
        BY <3>1 DEF ring_buf_cnt_to_end
      <4>3. QED
        BY <3>2, <3>4, <4>1, <4>2
    <3>6. ASSUME NEW i \in 1 .. chunk PROVE buffer'[head + i - 1] = buffer[head + i - 1]
      <4>1. head + i - 1 # tail /\ head + i - 1 \in Index
        BY <3>1, <3>2, SizeFacts DEF ring_buf_cnt_to_end
      <4>2. QED
        BY <2>1, <2>3, <4>1 DEF TypeOK
    <3>7. QED
      BY <3>5, <3>6
  <2>4. QED
    BY <2>2, <2>3
<1>4. QED
  BY <1>1, <1>2, <1>3 DEF Inv

(* The timer and the task's steps that move nothing. *)
LEMMA QuietInv ==
  ASSUME Inv, TimerCheck \/ TimerPost \/ Pend \/ Done
  PROVE  /\ Inv' /\ UNCHANGED <<head, tail, buffer, recv_data, unread>>
         /\ pc = "advance" <=> pc' = "advance"
         /\ pc = "advance" => chunk' = chunk
<1>1. /\ UNCHANGED <<head, tail, buffer, recv_data, unread, recv_size, left, chunk, burst>>
      /\ timer' \in {"wait", "post"} /\ pc' \in {"pend", "count", "read", "advance", "reduce"}
      /\ pc = "advance" <=> pc' = "advance"
      /\ pc = "reduce" <=> pc' = "reduce"
  BY DEF TimerCheck, TimerPost, Pend, Done, task, Inv, TypeOK
<1>2. sem' \in 0 .. SEM_MAX
  <2>1. sem \in 0 .. SEM_MAX
    BY DEF Inv, TypeOK
  <2>2. CASE TimerCheck \/ Done
    BY <2>1, <2>2 DEF TimerCheck, Done
  <2>3. CASE TimerPost
    BY <2>1, <2>3, PostedType DEF TimerPost
  <2>4. CASE Pend
    BY <2>1, <2>4, UartAssumption DEF Pend
  <2>5. QED
    BY <2>2, <2>3, <2>4
<1>3. TypeOK'
  BY <1>1, <1>2 DEF Inv, TypeOK
<1>4. HeadInv'
  BY <1>1 DEF Inv, HeadInv
<1>5. CopyInv'
  BY <1>1 DEF Inv, CopyInv
<1>6. QED
  BY <1>1, <1>3, <1>4, <1>5 DEF Inv

(* The task's count is at most what the ring holds.                        *)
LEMMA CountStepInv == ASSUME Inv, Count PROVE Inv'
<1>1. /\ pc = "count" /\ pc' \in {"read", "pend"} /\ recv_data' \in {<<>>, recv_data}
      /\ recv_size' = ring_buf_cnt(head, tail) /\ left' = ring_buf_cnt(head, tail)
      /\ UNCHANGED <<head, tail, buffer, sem, timer, chunk, unread, burst>>
  BY DEF Count
<1>2. TypeOK /\ head \in Index
  BY <1>1 DEF Inv, HeadInv
<1>3. ring_buf_cnt(head, tail) \in 0 .. size
  BY <1>2, Numbers
<1>4. TypeOK'
  BY <1>1, <1>2, <1>3, EmptySeq DEF TypeOK
<1>5. HeadInv' /\ CopyInv'
  BY <1>1 DEF Inv, HeadInv, CopyInv
<1>6. QED
  BY <1>4, <1>5 DEF Inv

(* A copy takes a chunk that is in the ring, and holds it apart. *)
LEMMA CopyStepInv ==
  ASSUME Inv, Copy
  PROVE  Inv' /\ Taken' = Taken
<1> DEFINE c == Smaller(left, ring_buf_cnt_to_end(head, tail))
<1>1. /\ pc = "read" /\ ~ Breaks(c) /\ recv_data' = recv_data \o CopyOut(buffer, head, c)
      /\ chunk' = c /\ pc' = "advance"
      /\ UNCHANGED <<head, tail, buffer, sem, timer, recv_size, left, unread, burst>>
  BY DEF Copy
<1>2. TypeOK /\ head \in Index /\ tail \in Index /\ buffer \in [Index -> Bytes]
      /\ recv_data \in Seq(Bytes)
  BY <1>1 DEF Inv, HeadInv, TypeOK
<1>3. /\ c \in Nat /\ c >= 1 /\ c <= left /\ c \in 1 .. ring_buf_cnt_to_end(head, tail)
      /\ c \in 0 .. size
  BY <1>1, <1>2, Numbers DEF Breaks, Smaller
<1> HIDE DEF c
<1> DEFINE o == CopyOut(buffer, head, c)
<1>4. o \in Seq(Bytes) /\ Len(o) = c
  BY <1>2, <1>3, TakeChunk
<1>5. \A i \in 1 .. c : o[i] = buffer[head + i - 1]
  BY DEF CopyOut
<1> HIDE DEF o
<1> DEFINE m == Len(recv_data)
<1>6. m \in Nat
  BY <1>2, LenProperties
<1>7. /\ recv_data' \in Seq(Bytes) /\ Len(recv_data') = m + c
      /\ \A i \in 1 .. m + c : recv_data'[i] = IF i <= m THEN recv_data[i] ELSE o[i - m]
  <2>1. /\ recv_data \o o \in Seq(Bytes) /\ Len(recv_data \o o) = Len(recv_data) + Len(o)
        /\ \A i \in 1 .. Len(recv_data) + Len(o) :
             (recv_data \o o)[i] = IF i <= Len(recv_data) THEN recv_data[i]
                                   ELSE o[i - Len(recv_data)]
    BY <1>2, <1>4, ConcatProperties, Zenon
  <2>2. recv_data' = recv_data \o o
    BY <1>1 DEF o
  <2>3. QED
    BY <1>4, <2>1, <2>2, Zenon
<1> HIDE DEF m
<1>8. ASSUME NEW i \in 1 .. c
      PROVE  recv_data'[Len(recv_data') - c + i] = buffer[head + i - 1]
  <2>1. Len(recv_data') - c + i = m + i /\ m + i \in 1 .. m + c /\ ~ (m + i <= m) /\ (m + i) - m = i
    BY <1>3, <1>6, <1>7
  <2>2. recv_data'[m + i] = o[i]
    BY <1>7, <2>1
  <2>3. QED
    BY <1>5, <2>1, <2>2
<1>9. TypeOK'
  BY <1>1, <1>2, <1>3, <1>7 DEF TypeOK
<1>10. HeadInv'
  BY <1>1 DEF Inv, HeadInv
<1>11. CopyInv'
  <2>1. c <= Len(recv_data')
    BY <1>3, <1>6, <1>7
  <2>2. QED
    BY <1>1, <1>3, <1>8, <2>1 DEF CopyInv
<1>12. SubSeq(recv_data', 1, Len(recv_data') - c) = recv_data
  <2>1. Len(recv_data') - c = m
    BY <1>3, <1>6, <1>7
  <2>2. \A i \in 1 .. m : recv_data'[i] = recv_data[i] /\ recv_data[i] \in Bytes
    <3>1. \A i \in 1 .. m : i \in 1 .. m + c /\ i <= m
      BY <1>3, <1>6
    <3>2. \A i \in 1 .. m : recv_data[i] \in Bytes
      BY <1>2, ElementOfSeq DEF m
    <3>3. QED
      BY <1>7, <3>1, <3>2
  <2>3. /\ SubSeq(recv_data', 1, m) \in Seq(Bytes)
        /\ Len(SubSeq(recv_data', 1, m)) = IF 1 <= m THEN m - 1 + 1 ELSE 0
        /\ \A i \in 1 .. m - 1 + 1 : SubSeq(recv_data', 1, m)[i] = recv_data'[1 + i - 1]
    <3>1. \A i \in 1 .. m : recv_data'[i] \in Bytes
      BY <2>2
    <3>2. 1 \in Int /\ m \in Int
      BY <1>6
    <3>3. QED
      BY <3>1, <3>2, SubSeqProperties
  <2>4. /\ Len(SubSeq(recv_data', 1, m)) = Len(recv_data)
        /\ \A i \in 1 .. Len(recv_data) : SubSeq(recv_data', 1, m)[i] = recv_data[i]
    BY <1>6, <2>2, <2>3 DEF m
  <2>5. QED
    <3>1. SubSeq(recv_data', 1, m) = recv_data
      BY <1>2, <2>3, <2>4, SeqEqual
    <3>2. QED
      BY <2>1, <3>1
<1>13. Taken' = Taken
  BY <1>1, <1>12 DEF Taken
<1>14. QED
  BY <1>9, <1>10, <1>11, <1>13 DEF Inv

(* The task's store leaves head inside the ring or just behind its end.    *)
LEMMA AdvanceStepInv == ASSUME Inv, Advance PROVE Inv'
<1>1. /\ pc = "advance" /\ left' = left - chunk /\ unread' = unread - chunk
      /\ \/ head' = Reduced(head + chunk) /\ pc' = "read"
         \/ head' = head + chunk /\ head + chunk >= size /\ pc' = "reduce"
      /\ UNCHANGED <<tail, buffer, sem, timer, recv_size, chunk, recv_data, burst>>
  BY DEF Advance
<1>2. /\ TypeOK /\ head \in Index /\ burst = 0 /\ tail \in Index /\ buffer \in [Index -> Bytes]
      /\ chunk \in 1 .. ring_buf_cnt_to_end(head, tail) /\ chunk <= left
  BY <1>1 DEF Inv, HeadInv, CopyInv, TypeOK
<1>3. Reduced(head + chunk) \in Index
  BY <1>2, TakeChunk
<1>4. /\ chunk \in Int /\ chunk >= 1 /\ chunk <= size - head /\ head \in Int /\ left \in Nat
      /\ chunk <= ring_buf_cnt_to_end(head, tail) /\ tail \in Int /\ size \in Nat /\ tail < size
  BY <1>2, Numbers
<1>5. head + chunk >= size => head + chunk = size /\ tail <= size - 2
  BY <1>4 DEF ring_buf_cnt_to_end
<1>6. left' \in 0 .. size /\ unread' \in Int /\ head' \in 0 .. size
  <2>1. left' \in 0 .. size /\ unread' \in Int
    BY <1>1, <1>2, <1>4 DEF TypeOK
  <2>2. head' \in 0 .. size
    BY <1>1, <1>3, <1>5, SizeFacts
  <2>3. QED
    BY <2>1, <2>2
<1>7. TypeOK'
  BY <1>1, <1>2, <1>6 DEF TypeOK
<1>8. HeadInv'
  BY <1>1, <1>2, <1>3, <1>5 DEF HeadInv
<1>9. CopyInv'
  BY <1>1 DEF CopyInv
<1>10. QED
  BY <1>7, <1>8, <1>9 DEF Inv

(* The second store follows only at the end of the ring and goes to 0.     *)
LEMMA ReduceStepInv ==
  ASSUME Inv, Reduce
  PROVE  Inv' /\ head = size /\ head' = 0
<1>1. /\ pc = "reduce" /\ pc' = "read" /\ head' = Reduced(head) /\ burst' = 0
      /\ UNCHANGED <<tail, buffer, sem, timer, recv_size, left, chunk, recv_data, unread>>
  BY DEF Reduce
<1>2. head = size /\ head' = 0
  BY <1>1, SizeFacts DEF Inv, HeadInv, Reduced
<1>3. TypeOK'
  BY <1>1, <1>2, SizeFacts, UartAssumption DEF Inv, TypeOK
<1>4. HeadInv' /\ CopyInv'
  BY <1>1, <1>2, SizeFacts DEF HeadInv, CopyInv
<1>5. QED
  BY <1>2, <1>3, <1>4 DEF Inv

(* Every step keeps the invariant.                                         *)
LEMMA NextInv == Inv /\ [Next]_vars => Inv'
<1> SUFFICES ASSUME Inv, [Next]_vars PROVE Inv'
  OBVIOUS
<1>1. CASE UNCHANGED vars
  BY <1>1 DEF vars, task, Inv, TypeOK, HeadInv, CopyInv
<1>2. QED
  BY <1>1, ReceiveInv, QuietInv, CountStepInv, CopyStepInv, AdvanceStepInv, ReduceStepInv
     DEF Next, UartTaskThread

(* The indices stay where the code's two stores may put them, and what     *)
(* the task has copied is what the ring held, for bursts of any length.    *)
THEOREM UartInv == Spec => []Inv
<1>1. Init => Inv
  BY InitInv
<1>2. QED
  BY <1>1, NextInv, PTL DEF Spec

(* The variables keep their types, whatever the interrupt brings: no index *)
(* leaves the buffer but head between its two stores, by one.              *)
THEOREM UartTypeOK == Spec => []TypeOK
<1>1. Inv => TypeOK
  BY DEF Inv
<1>2. QED
  BY <1>1, UartInv, PTL

(* The bytes being copied are counted ones, and the interrupt does not     *)
(* reach them until head moves.                                            *)
THEOREM UartCopySafe == Spec => []CopySafe
<1>1. Inv => CopySafe
  <2> SUFFICES ASSUME Inv, pc = "advance"
               PROVE  chunk <= ring_buf_cnt(head, tail) /\ ~ (head <= tail /\ tail < head + chunk)
    BY DEF CopySafe
  <2>1. TypeOK /\ head \in Index /\ chunk \in 1 .. ring_buf_cnt_to_end(head, tail)
    BY DEF Inv, HeadInv, CopyInv
  <2>2. QED
    BY <2>1, Numbers DEF ring_buf_cnt_to_end
<1>2. QED
  BY <1>1, UartInv, PTL
-----------------------------------------------------------------------------
(* The refinement, and the count of bytes not read, for any number of      *)
(* bytes between the two stores of head.                                   *)

(* The queue does not depend on whether the head is reduced yet.           *)
LEMMA QueueFacts ==
  ASSUME Inv
  PROVE  /\ Reduced(head) \in Index /\ tail \in Index /\ buffer \in [Index -> Bytes]
         /\ Contents(buffer, head, tail) = Contents(buffer, Reduced(head), tail)
<1>1. tail \in Index /\ buffer \in [Index -> Bytes] /\ size \in Nat /\ size >= 2
  BY SizeFacts DEF Inv, TypeOK
<1>2. CASE pc # "reduce"
  <2>1. head \in Index /\ Reduced(head) = head
    BY <1>2, SizeFacts DEF Inv, HeadInv, Reduced
  <2>2. QED
    BY <1>1, <2>1
<1>3. CASE pc = "reduce"
  <2>1. head = size /\ Reduced(size) = 0 /\ 0 \in Index
    BY <1>3, SizeFacts DEF Inv, HeadInv, Reduced
  <2>2. QED
    BY <1>1, <2>1, ContentsAtEnd
<1>4. QED
  BY <1>2, <1>3

(* The step that empties the queue: a byte between the two stores of head, *)
(* not the first one there, into a ring full by the reduced head.          *)
Overrun == Crowded /\ ring_buf_full(Reduced(head), tail) /\ F!Clear

(* A byte that finds a position free by the reduced head is put.           *)
LEMMA ReceivePut ==
  ASSUME Inv, CountInv, NEW b \in Bytes, Receive(b), ring_buf_space(Reduced(head), tail) # 0
  PROVE  (/\ buffer' = [buffer EXCEPT ![tail] = b] /\ tail' = Reduced(tail + 1)
          /\ unread' = 1 + (IF unread = size THEN 0 ELSE unread))
         => CountInv' /\ F!Put /\ unread' # size
<1>0. SUFFICES ASSUME buffer' = [buffer EXCEPT ![tail] = b], tail' = Reduced(tail + 1),
                      unread' = 1 + (IF unread = size THEN 0 ELSE unread)
               PROVE  CountInv' /\ F!Put /\ unread' # size
  OBVIOUS
<1> DEFINE h == Reduced(head)
<1>1. h \in Index /\ tail \in Index /\ buffer \in [Index -> Bytes]
  BY QueueFacts
<1>2. UNCHANGED <<head, pc, chunk, recv_data>> /\ h' = h
  BY ReceiveFacts
<1>3. Taken' = Taken
  BY <1>2 DEF Taken
<1> HIDE DEF h
<1>4. /\ ring_buf_space_to_end(h, tail) \in 0 .. ring_buf_space(h, tail)
      /\ ring_buf_space_to_end(h, tail) = 0 => ring_buf_space(h, tail) = 0
      /\ ring_buf_space(h, tail) = size - 1 - ring_buf_cnt(h, tail)
      /\ ring_buf_cnt(h, tail) \in 0 .. size - 1
  BY <1>1, CountFacts
<1>5. ring_buf_space(h, tail) # 0
  BY DEF h
<1>6. ring_buf_space_to_end(h, tail) \in Int /\ ring_buf_space_to_end(h, tail) >= 1
  BY <1>4, <1>5, SizeFacts
<1>7. buffer' \in [Index -> Bytes]
  BY <1>0, <1>1
<1>8. ASSUME NEW c \in 1 .. ring_buf_space_to_end(h, tail), c = 1
      PROVE  /\ tail' \in Index
             /\ ring_buf_cnt(h, tail') = ring_buf_cnt(h, tail) + 1
             /\ Len(Contents(buffer', h, tail')) \in
                  Len(Contents(buffer, h, tail)) + 1 .. size - 1
             /\ SubSeq(Contents(buffer', h, tail'), 1, Len(Contents(buffer, h, tail)))
                  = Contents(buffer, h, tail)
             /\ \A i \in 1 .. Len(Contents(buffer', h, tail')) :
                  Contents(buffer', h, tail')[i] \in Bytes
  <2>1. \A p \in Index : p \notin tail .. (tail + c - 1) => buffer'[p] = buffer[p]
    <3>1. tail \in tail .. (tail + c - 1)
      BY <1>1, <1>8, SizeFacts
    <3>2. QED
      BY <1>0, <1>1, <3>1
  <2>2. tail' = Reduced(tail + c)
    BY <1>0, <1>8
  <2>3. /\ Reduced(tail + c) \in Index
        /\ ring_buf_cnt(h, Reduced(tail + c)) = ring_buf_cnt(h, tail) + c
        /\ Len(Contents(buffer', h, Reduced(tail + c))) \in
             Len(Contents(buffer, h, tail)) + 1 .. size - 1
        /\ SubSeq(Contents(buffer', h, Reduced(tail + c)), 1, Len(Contents(buffer, h, tail)))
             = Contents(buffer, h, tail)
        /\ \A i \in 1 .. Len(Contents(buffer', h, Reduced(tail + c))) :
             Contents(buffer', h, Reduced(tail + c))[i] \in Bytes
    BY <1>1, <1>7, <2>1, PutChunk, ZenonT(40)
  <2>4. QED
    BY <1>8, <2>2, <2>3, Zenon
<1>9. 1 \in 1 .. ring_buf_space_to_end(h, tail)
  BY <1>6
<1>10. Contents(buffer, head, tail) = Contents(buffer, h, tail)
  BY QueueFacts DEF h
<1>11. Contents(buffer', head', tail') = Contents(buffer', h, tail')
  <2>1. Inv'
    BY ReceiveInv
  <2>2. (Contents(buffer, head, tail) = Contents(buffer, Reduced(head), tail))'
    BY <2>1, QueueFacts, PTL
  <2>3. QED
    BY <1>2, <2>2 DEF h
<1>12. F!Put
  BY <1>3, <1>8, <1>9, <1>10, <1>11 DEF F!Put, Queue, Taken
<1>13. ring_buf_cnt(h, tail') = ring_buf_cnt(h, tail) + 1
  BY <1>8, <1>9
<1>14. unread' = ring_buf_cnt(h, tail')
  <2>1. unread = ring_buf_cnt(h, tail) \/ (unread = size /\ ring_buf_cnt(h, tail) = 0)
    BY DEF CountInv, h
  <2>2. QED
    BY <1>0, <1>4, <1>13, <2>1, SizeFacts
<1>15. unread' # size
  BY <1>4, <1>5, <1>13, <1>14, SizeFacts
<1>16. CountInv'
  BY <1>2, <1>14 DEF CountInv, h
<1>17. QED
  BY <1>12, <1>15, <1>16

(* A byte is refused at the input, put, or overruns the ring; the first    *)
(* one between the two stores of head still has a position free.           *)
LEMMA ReceiveRef ==
  ASSUME Inv, CountInv, NEW b \in Bytes, Receive(b)
  PROVE  /\ CountInv' /\ (F!Put \/ Overrun \/ UNCHANGED <<Queue, Taken>>)
         /\ unread' = size /\ unread # size => Crowded
<1> DEFINE h == Reduced(head)
<1>1. h \in Index /\ tail \in Index /\ buffer \in [Index -> Bytes] /\ size \in Nat /\ size >= 2
  BY QueueFacts, SizeFacts
<1>2. UNCHANGED <<head, pc, chunk, recv_data>> /\ h' = h
  BY ReceiveFacts
<1>3. Taken' = Taken
  BY <1>2 DEF Taken
<1>4. CASE UNCHANGED <<buffer, tail, unread>>
  BY <1>2, <1>3, <1>4 DEF CountInv, Queue
<1>5. CASE /\ ~ ring_buf_full(head, tail)
           /\ buffer' = [buffer EXCEPT ![tail] = b] /\ tail' = Reduced(tail + 1)
           /\ unread' = 1 + (IF unread = size THEN 0 ELSE unread)
  <2>1. CASE ring_buf_space(h, tail) # 0
    BY <1>5, <2>1, ReceivePut
  <2>2. CASE ring_buf_space(h, tail) = 0
    <3>1. pc = "reduce"
      <4> SUFFICES ASSUME pc # "reduce" PROVE FALSE
        OBVIOUS
      <4>1. head \in Index /\ h = head
        BY SizeFacts DEF Inv, HeadInv, Reduced
      <4>2. QED
        BY <1>1, <1>5, <2>2, <4>1, CountFacts
    <3>2. head = size /\ h = 0 /\ (burst = 0 => tail <= size - 2)
      BY <3>1, SizeFacts DEF Inv, HeadInv, Reduced
    <3>3. tail \in Int /\ 0 <= tail /\ tail < size
      BY <1>1, SizeFacts
    <3>4. tail = size - 1
      BY <1>1, <2>2, <3>2, <3>3 DEF ring_buf_space
    <3>5. burst \in Nat
      BY UartAssumption DEF Inv, TypeOK
    <3>6. Crowded
      BY <1>1, <3>1, <3>2, <3>4, <3>5 DEF Crowded
    <3>7. ring_buf_full(h, tail)
      BY <1>1, <3>2, <3>4, CountFacts, <2>2
    <3>8. tail' = 0
      BY <1>1, <1>5, <3>4 DEF Reduced
    <3>9. Contents(buffer', head', tail') = <<>>
      <4>1. Inv'
        BY ReceiveInv
      <4>2. /\ (Contents(buffer, head, tail) = Contents(buffer, Reduced(head), tail))'
            /\ (buffer \in [Index -> Bytes])'
        BY <4>1, QueueFacts, PTL
      <4>3. Reduced(head') = 0 /\ 0 \in Index
        BY <1>1, <1>2, <3>2
      <4>4. Contents(buffer', 0, 0) = <<>>
        BY <4>2, <4>3, EmptyContents
      <4>5. QED
        BY <3>8, <4>2, <4>3, <4>4
    <3>10. F!Clear
      BY <1>3, <3>9 DEF F!Clear, Queue, Taken
    <3>11. CountInv'
      <4>1. ring_buf_cnt(0, tail) = size - 1 /\ ring_buf_cnt(0, 0) = 0
        BY <1>1, <3>4 DEF ring_buf_cnt
      <4>2. unread = size - 1
        BY <1>1, <3>2, <4>1 DEF CountInv
      <4>3. unread' = size
        BY <1>1, <1>5, <4>2
      <4>4. QED
        BY <1>2, <3>2, <3>8, <4>1, <4>3 DEF CountInv
    <3>12. QED
      BY <3>6, <3>7, <3>10, <3>11 DEF Overrun
  <2>3. QED
    BY <2>1, <2>2
<1>6. QED
  BY <1>4, <1>5, ReceiveFacts

(* Moving head over the copied chunk takes the oldest bytes. *)
LEMMA AdvanceRef ==
  ASSUME Inv, CountInv, Advance
  PROVE  /\ CountInv' /\ \E n \in 1 .. Len(Queue) : F!Take(n)
         /\ unread' = size => unread = size
<1>1. /\ pc = "advance" /\ unread' = unread - chunk
      /\ \/ head' = Reduced(head + chunk) /\ pc' = "read"
         \/ head' = head + chunk /\ head + chunk >= size /\ pc' = "reduce"
      /\ UNCHANGED <<tail, buffer, chunk, recv_data>>
  BY DEF Advance
<1>2. /\ TypeOK /\ head \in Index /\ tail \in Index /\ buffer \in [Index -> Bytes]
      /\ chunk \in 1 .. ring_buf_cnt_to_end(head, tail) /\ recv_data \in Seq(Bytes)
      /\ chunk <= Len(recv_data)
      /\ \A i \in 1 .. chunk : recv_data[Len(recv_data) - chunk + i] = buffer[head + i - 1]
  BY <1>1 DEF Inv, HeadInv, CopyInv, TypeOK
<1> DEFINE q == Contents(buffer, head, tail)
           g == Reduced(head + chunk)
           o == CopyOut(buffer, head, chunk)
<1>3. /\ g \in Index /\ ring_buf_cnt(g, tail) = ring_buf_cnt(head, tail) - chunk
      /\ chunk \in 1 .. Len(q) /\ o = SubSeq(q, 1, chunk)
      /\ o \in Seq(Bytes) /\ Len(o) = chunk
      /\ Contents(buffer, g, tail) = SubSeq(q, chunk + 1, Len(q))
  BY <1>2, TakeChunk
<1>4. Reduced(head') = g
  <2>1. Inv'
    BY AdvanceStepInv
  <2>2. CASE head' = g /\ pc' = "read"
    BY <1>3, <2>2, SizeFacts DEF Reduced
  <2>3. CASE head' = head + chunk
    BY <2>3
  <2>4. QED
    BY <1>1, <2>2, <2>3
<1>5. Contents(buffer', head', tail') = Contents(buffer, g, tail)
  <2>1. Inv'
    BY AdvanceStepInv
  <2>2. (Contents(buffer, head, tail) = Contents(buffer, Reduced(head), tail))'
    BY <2>1, QueueFacts, PTL
  <2>3. QED
    BY <1>1, <1>4, <2>2
<1>6. head = Reduced(head)
  BY <1>2, SizeFacts DEF Reduced
<1>7. CountInv' /\ (unread' = size => unread = size)
  <2>1. /\ ring_buf_cnt(head, tail) \in 0 .. size - 1 /\ chunk \in Nat /\ size \in Nat
        /\ chunk >= 1 /\ chunk <= ring_buf_cnt(head, tail)
    BY <1>2, Numbers
  <2>2. unread = ring_buf_cnt(head, tail)
    BY <1>6, <2>1 DEF CountInv
  <2>3. unread' = ring_buf_cnt(g, tail)
    BY <1>1, <1>3, <2>2
  <2>4. QED
    BY <1>1, <1>4, <2>1, <2>2, <2>3 DEF CountInv
<1> DEFINE m == Len(recv_data) - chunk
           s == SubSeq(recv_data, 1, m)
<1>8. \A i \in 1 .. chunk : o[i] = buffer[head + i - 1]
  BY DEF CopyOut
<1> HIDE DEF q, g, o
<1>9. Len(recv_data) \in Nat /\ m \in Nat /\ Len(recv_data) = m + chunk /\ chunk \in Nat
  <2>1. Len(recv_data) \in Nat
    BY <1>2, LenProperties
  <2>2. chunk \in Nat
    BY <1>2 DEF TypeOK
  <2>3. QED
    BY <1>2, <2>1, <2>2
<1> HIDE DEF m
<1>10. s \in Seq(Bytes) /\ Len(s) = m /\ \A i \in 1 .. m : s[i] = recv_data[i]
  <2>1. \A i \in 1 .. Len(recv_data) : recv_data[i] \in Bytes
    BY <1>2, ElementOfSeq
  <2>2. \A i \in 1 .. m : recv_data[i] \in Bytes
    BY <1>9, <2>1
  <2>3. /\ s \in Seq(Bytes) /\ Len(s) = IF 1 <= m THEN m - 1 + 1 ELSE 0
        /\ \A i \in 1 .. m - 1 + 1 : s[i] = recv_data[1 + i - 1]
    <3>1. 1 \in Int /\ m \in Int
      BY <1>9
    <3>2. QED
      BY <2>2, <3>1, SubSeqProperties
  <2>4. QED
    BY <1>9, <2>3
<1> HIDE DEF s
<1>11. recv_data = s \o o
  <2>1. /\ s \o o \in Seq(Bytes) /\ Len(s \o o) = Len(s) + Len(o)
        /\ \A i \in 1 .. Len(s) + Len(o) :
             (s \o o)[i] = IF i <= Len(s) THEN s[i] ELSE o[i - Len(s)]
    BY <1>3, <1>10, ConcatProperties, Zenon
  <2>2. ASSUME NEW i \in 1 .. Len(recv_data) PROVE recv_data[i] = (s \o o)[i]
    <3>1. CASE i <= m
      BY <1>3, <1>9, <1>10, <2>1, <3>1
    <3>2. CASE ~ (i <= m)
      <4>1. i - m \in 1 .. chunk /\ m + (i - m) = i
        BY <1>9, <3>2
      <4>2. recv_data[i] = o[i - m]
        <5>1. recv_data[Len(recv_data) - chunk + (i - m)] = buffer[head + (i - m) - 1]
          BY <1>2, <4>1
        <5>2. o[i - m] = buffer[head + (i - m) - 1]
          BY <1>8, <4>1
        <5>3. Len(recv_data) - chunk + (i - m) = i
          BY <1>9, <4>1
        <5>4. QED
          BY <5>1, <5>2, <5>3
      <4>3. i \in 1 .. Len(s) + Len(o) /\ ~ (i <= Len(s))
        BY <1>3, <1>9, <1>10, <3>2
      <4>4. QED
        BY <1>10, <2>1, <4>2, <4>3
    <3>3. QED
      BY <3>1, <3>2
  <2>3. Len(recv_data) = Len(s \o o)
    BY <1>3, <1>9, <1>10, <2>1
  <2>4. QED
    BY <1>2, <2>1, <2>2, <2>3, SeqEqual
<1>12. Taken' = Taken \o SubSeq(q, 1, chunk)
  <2>1. Taken' = recv_data
    BY <1>1 DEF Taken
  <2>2. Taken = s
    BY <1>1 DEF Taken, s, m
  <2>3. QED
    BY <1>3, <1>11, <2>1, <2>2
<1>13. F!Take(chunk)
  BY <1>3, <1>5, <1>12 DEF F!Take, Queue, Taken, q
<1>14. QED
  BY <1>3, <1>7, <1>13 DEF Queue, q

(* Every step accounts for its bytes and is a step of the queue or an      *)
(* overrun.                                                                *)
LEMMA NextRef ==
  ASSUME Inv, CountInv, [Next]_vars
  PROVE  /\ CountInv' /\ [F!FifoNext \/ Overrun]_<<Queue, Taken>>
         /\ unread' = size /\ unread # size => Crowded
<1>1. CASE \E b \in Bytes : Receive(b)
  BY <1>1, ReceiveRef DEF F!FifoNext
<1>2. CASE TimerCheck \/ TimerPost \/ Pend \/ Done
  BY <1>2, QuietInv DEF CountInv, Queue, Taken
<1>3. CASE Count
  <2>1. /\ pc = "count" /\ pc' # "advance" /\ recv_data' \in {<<>>, recv_data}
        /\ UNCHANGED <<head, tail, buffer, unread>>
    BY <1>3 DEF Count
  <2>2. CountInv' /\ Queue' = Queue /\ Taken' \in {<<>>, Taken}
    BY <2>1 DEF CountInv, Queue, Taken
  <2>3. Taken' = <<>> => F!Fetch
    BY <2>2 DEF F!Fetch, Queue, Taken
  <2>4. QED
    BY <2>1, <2>2, <2>3 DEF F!FifoNext
<1>4. CASE Copy
  <2>1. UNCHANGED <<head, tail, buffer, unread>>
    BY <1>4 DEF Copy
  <2>2. QED
    BY <1>4, <2>1, CopyStepInv DEF CountInv, Queue
<1>5. CASE Advance
  BY <1>5, AdvanceRef DEF F!FifoNext, Queue
<1>6. CASE Reduce
  <2>1. /\ pc = "reduce" /\ pc' = "read" /\ head' = Reduced(head) /\ head = size /\ head' = 0
        /\ UNCHANGED <<tail, buffer, recv_data, unread>>
    BY <1>6, ReduceStepInv DEF Reduce
  <2>2. Reduced(head') = Reduced(head)
    BY <2>1, SizeFacts DEF Reduced
  <2>3. Queue' = Queue
    BY <2>1, QueueFacts DEF Queue
  <2>4. QED
    BY <2>1, <2>2, <2>3 DEF CountInv, Taken
<1>7. CASE UNCHANGED vars
  BY <1>7 DEF vars, task, CountInv, Queue, Taken
<1>8. QED
  BY <1>1, <1>2, <1>3, <1>4, <1>5, <1>6, <1>7 DEF Next, UartTaskThread

(* However many bytes come between the two stores of head, the indices     *)
(* account for every unread byte, but for an overrun, after which they     *)
(* account for none of a full ring.                                        *)
THEOREM UartCount == Spec => []CountInv
<1>1. Inv /\ CountInv /\ [Next]_vars => CountInv'
  BY NextRef
<1>2. Init => CountInv
  BY InitInv
<1>3. QED
  BY <1>1, <1>2, UartInv, PTL DEF Spec

(* The last position is only ever filled by a byte that comes between the  *)
(* two stores of head after another one that came there: the first always  *)
(* fits, and outside the window ring_buf_full keeps one position free.     *)
THEOREM UartOneFreeChar == Spec => [][OneFreeChar /\ ~ OneFreeChar' => Crowded]_vars
<1>1. Inv /\ CountInv => (OneFreeChar <=> unread # size)
  <2> SUFFICES ASSUME Inv, CountInv PROVE unread < size <=> unread # size
    BY DEF OneFreeChar
  <2>1. ring_buf_cnt(Reduced(head), tail) \in 0 .. size - 1
    BY QueueFacts, CountFacts
  <2>2. QED
    BY <2>1, SizeFacts DEF CountInv
<1>2. ASSUME Inv, CountInv, Inv', CountInv', [Next]_vars
      PROVE  [OneFreeChar /\ ~ OneFreeChar' => Crowded]_vars
  <2>1. (OneFreeChar <=> unread # size)'
    BY <1>1, <1>2, PTL
  <2>2. unread' = size /\ unread # size => Crowded
    BY <1>2, NextRef
  <2>3. QED
    BY <1>1, <1>2, <2>1, <2>2
<1>3. QED
  BY <1>2, UartInv, UartCount, PTL DEF Spec

(* However many bytes come between the two stores of head, the interrupt   *)
(* and the task implement the bounded queue: bytes come out in order, once *)
(* each, and are refused only at the input, except that an overrun empties *)
(* the queue.                                                              *)
THEOREM UartImplementsFifo == Spec => ImplementsFifo
<1>1. Init => F!FifoInit
  <2> SUFFICES ASSUME Init PROVE F!FifoInit
    OBVIOUS
  <2>1. 0 \in Index /\ ring_buf_cnt(0, 0) = 0
    BY SizeFacts DEF ring_buf_cnt
  <2>2. Contents(buffer, 0, 0) \in Seq(Bytes) /\ Len(Contents(buffer, 0, 0)) = 0
    BY <2>1, ContentsFacts DEF Init
  <2>3. Contents(buffer, 0, 0) = <<>>
    BY <2>2, EmptySeq
  <2>4. QED
    BY <2>3 DEF Init, F!FifoInit, Queue, Taken
<1>2. Inv /\ CountInv /\ [Next]_vars
        => [\/ F!FifoNext
            \/ Crowded /\ ring_buf_full(Reduced(head), tail) /\ F!Clear]_<<Queue, Taken>>
  BY NextRef DEF Overrun
<1>3. QED
  BY <1>1, <1>2, UartInv, UartCount, PTL DEF Spec, ImplementsFifo
=============================================================================
