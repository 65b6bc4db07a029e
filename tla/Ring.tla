-------------------------------- MODULE Ring --------------------------------
(* One ring: the fields of ring_buffer_t that change (Lib/ring_buffer.h). *)
EXTENDS RingBuffer

VARIABLES head, tail, buffer

ring == <<head, tail, buffer>>
=============================================================================
