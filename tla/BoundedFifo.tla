---------------------------- MODULE BoundedFifo ----------------------------
(***************************************************************************)
(* What a ring buffer promises, whatever its indices do: a queue of at     *)
(* most Capacity bytes.  Bytes go in at one end in chunks that fit, come   *)
(* out at the other in order, once each, and none is dropped from the      *)
(* middle.  RingBufferCalls and UartRx are shown to implement it.          *)
(***************************************************************************)
EXTENDS Sequences, Naturals

CONSTANTS Capacity,  \* bytes the queue can hold
          Data       \* values of a byte

VARIABLES queue,     \* bytes put and not yet taken, oldest first
          taken      \* bytes taken by the fetch in progress or the last one

FifoInit == queue = <<>> /\ taken = <<>>

(* The bytes a producer adds are any that fit. *)
Put == /\ Len(queue') \in Len(queue) + 1 .. Capacity
       /\ SubSeq(queue', 1, Len(queue)) = queue
       /\ \A i \in 1 .. Len(queue') : queue'[i] \in Data
       /\ UNCHANGED taken

(* The consumer takes the n oldest bytes. *)
Take(n) == /\ taken' = taken \o SubSeq(queue, 1, n)
           /\ queue' = SubSeq(queue, n + 1, Len(queue))

(* The consumer starts another fetch. *)
Fetch == taken' = <<>> /\ UNCHANGED queue

FifoNext == Put \/ (\E n \in 1 .. Len(queue) : Take(n)) \/ Fetch

FifoSpec == FifoInit /\ [][FifoNext]_<<queue, taken>>

(* Everything queued is thrown away at once.  No step of FifoNext does     *)
(* this: whoever may clear the queue says in which step.                   *)
Clear == queue' = <<>> /\ UNCHANGED taken
=============================================================================
