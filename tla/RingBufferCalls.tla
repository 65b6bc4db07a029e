-------------------------- MODULE RingBufferCalls --------------------------
(***************************************************************************)
(* The ring buffer's calls made one after the other.  ring_buf_write and   *)
(* ring_buf_read copy in a loop, one contiguous chunk per iteration, and   *)
(* each iteration is a step here; the other calls are one step each.       *)
(***************************************************************************)
EXTENDS Ring

VARIABLES op,    \* the call in progress, or "none"
          data,  \* bytes ring_buf_write has still to copy (buf, count)
          want,  \* bytes ring_buf_read has still to copy (count)
          ret,   \* bytes the call has copied so far, or has returned
          out,   \* what ring_buf_read has copied
          goal   \* what the call in progress should return

callVars == <<head, tail, buffer, op, data, want, ret, out, goal>>

CallsInit ==                                 \* ring_buf_alloc
  /\ head = 0 /\ tail = 0
  /\ buffer \in [Index -> Bytes]
  /\ op = "none" /\ data = <<>> /\ want = 0 /\ ret = 0 /\ out = <<>> /\ goal = 0

WriteCall(d) ==
  /\ op = "none" /\ op' = "write"
  /\ data' = d /\ ret' = 0
  /\ goal' = Smaller(Len(d), ring_buf_space(head, tail))
  /\ UNCHANGED <<ring, want, out>>

(* One iteration of ring_buf_write: copy a chunk, or break and return. *)
WriteStep ==
  LET c == Smaller(Len(data), ring_buf_space_to_end(head, tail))
  IN /\ op = "write"
     /\ IF Breaks(c)
        THEN op' = "none" /\ data' = <<>> /\ UNCHANGED <<tail, buffer, ret>>
        ELSE /\ buffer' = CopyIn(buffer, tail, data, c)
             /\ tail' = Reduced(tail + c)
             /\ data' = SubSeq(data, c + 1, Len(data))
             /\ ret' = ret + c
             /\ UNCHANGED op
     /\ UNCHANGED <<head, want, out, goal>>

ReadCall(n) ==
  /\ op = "none" /\ op' = "read"
  /\ want' = n /\ ret' = 0 /\ out' = <<>>
  /\ goal' = Smaller(n, ring_buf_cnt(head, tail))
  /\ UNCHANGED <<ring, data>>

(* One iteration of ring_buf_read. *)
ReadStep ==
  LET c == Smaller(want, ring_buf_cnt_to_end(head, tail))
  IN /\ op = "read"
     /\ IF Breaks(c)
        THEN op' = "none" /\ want' = 0 /\ UNCHANGED <<head, ret, out>>
        ELSE /\ out' = out \o CopyOut(buffer, head, c)
             /\ head' = Reduced(head + c)
             /\ want' = want - c
             /\ ret' = ret + c
             /\ UNCHANGED op
     /\ UNCHANGED <<tail, buffer, data, goal>>

(* ring_buf_write_char, 1 for a byte written and 0 for a byte refused. *)
WriteChar(b) ==
  /\ op = "none"
  /\ IF ring_buf_full(head, tail)
     THEN ret' = 0 /\ UNCHANGED <<tail, buffer>>
     ELSE /\ buffer' = [buffer EXCEPT ![tail] = b]
          /\ tail' = Reduced(tail + 1)
          /\ ret' = 1
  /\ goal' = Smaller(1, ring_buf_space(head, tail))
  /\ UNCHANGED <<head, op, data, want, out>>

(* ring_buf_clear *)
ClearRing ==
  /\ op = "none"
  /\ head' = 0 /\ tail' = 0
  /\ UNCHANGED <<buffer, op, data, want, ret, out, goal>>

Chunks == UNION {[1 .. n -> Bytes] : n \in 0 .. size}

CallsNext == \/ \E d \in Chunks : WriteCall(d)
             \/ \E n \in 0 .. size : ReadCall(n)
             \/ WriteStep
             \/ ReadStep
             \/ \E b \in Bytes : WriteChar(b)
             \/ ClearRing

CallsSpec == CallsInit /\ [][CallsNext]_callVars

-----------------------------------------------------------------------------
CallsType ==
  /\ head \in Index /\ tail \in Index /\ buffer \in [Index -> Bytes]
  /\ op \in {"none", "write", "read"}
  /\ data \in Chunks /\ want \in 0 .. size
  /\ ret \in 0 .. size /\ out \in Chunks /\ goal \in 0 .. size

(* A call moves as many bytes as the ring has room or data for, although   *)
(* each iteration sees only the part up to the end of the buffer           *)
(* (ring_buffer.c:82-88, 161-166, 196-202).                                *)
CallsAreMaximal == op = "none" => ret = goal

Fifo == INSTANCE BoundedFifo WITH Capacity <- size - 1, Data <- Bytes,
          queue <- Contents(buffer, head, tail), taken <- out

(* However the two indices wrap, the calls are those of a bounded queue,   *)
(* and only ring_buf_clear throws bytes away.                              *)
CallsAreFifo ==
  Fifo!FifoInit /\ [][Fifo!FifoNext \/ (ClearRing /\ Fifo!Clear)]_<<Contents(buffer, head, tail), out>>
=============================================================================
