---------------------------- MODULE MCRingBuffer ----------------------------
(* The ring buffer's calls on a ring of a few positions. *)
EXTENDS RingBufferCalls
=============================================================================
