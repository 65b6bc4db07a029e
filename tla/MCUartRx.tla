------------------------------ MODULE MCUartRx ------------------------------
(* The UART receive path with a ring of a few positions. *)
EXTENDS UartRx
=============================================================================
