--------------------------- MODULE MCFlashConfig ---------------------------
(* Two networks, and a chip that drops a few program commands. *)
EXTENDS FlashConfig
=============================================================================
