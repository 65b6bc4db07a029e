----------------------------- MODULE RingBuffer -----------------------------
(***************************************************************************)
(* The index arithmetic of App/NuAgent/Lib/ring_buffer.c: `head' is the    *)
(* next position to read, `tail' the next to write, and one position stays *)
(* unused so that equal indices mean empty.                                *)
(***************************************************************************)
EXTENDS Integers, Sequences

CONSTANTS size,  \* ring->size
          Bytes  \* values of a byte

ASSUME SizeAssumption == size \in Nat \ {0, 1}

Index == 0 .. (size - 1)

ring_buf_empty(head, tail) == tail = head

ring_buf_full_unwrapped(head, tail) == tail + 1 = head   \* variant

ring_buf_full(head, tail) == (tail + 1) % size = head

ring_buf_cnt(head, tail) == IF tail >= head THEN tail - head ELSE size + tail - head

ring_buf_space(head, tail) ==
  IF head > tail THEN head - tail - 1 ELSE size - 1 + head - tail

(* Bytes that can be read without going around the end. *)
ring_buf_cnt_to_end(head, tail) == IF tail >= head THEN tail - head ELSE size - head

(* Variants: the last position is never, or always, written. *)
space_to_end_short(head, tail) ==
  IF head > tail THEN head - tail - 1 ELSE (size - 1) - tail
space_to_end_long(head, tail) ==
  IF head > tail THEN head - tail - 1 ELSE size - tail

(* Bytes that can be written without going around the end. *)
ring_buf_space_to_end(head, tail) ==
  IF head > tail THEN head - tail - 1
  ELSE (size - 1) - tail + (IF head > 0 THEN 1 ELSE 0)

ReducedLate(i) == IF i > size THEN i - size ELSE i   \* variant

(* The index after an addition that may have passed the end. *)
Reduced(i) == IF i >= size THEN i - size ELSE i

(* The copy loops break when there is nothing to copy. *)
Breaks(c) == c <= 0

Smaller(m, n) == IF m < n THEN m ELSE n

(* The n bytes from position h on (memcpy out of the buffer). *)
CopyOut(buffer, h, n) == [i \in 1 .. n |-> buffer[h + i - 1]]

(* The buffer after memcpy of the n first bytes of data to position t. *)
CopyIn(buffer, t, data, n) ==
  [p \in Index |-> IF p \in t .. (t + n - 1) THEN data[p - t + 1] ELSE buffer[p]]

(* What the ring holds, oldest byte first.  A head that a reader has not   *)
(* reduced yet stands for the position it will be reduced to.              *)
Contents(buffer, head, tail) ==
  [i \in 1 .. ((tail - head) % size) |-> buffer[(head + i - 1) % size]]
=============================================================================
