------------------------------ MODULE MCDynMem ------------------------------
(* DynMem on a pool that holds up to four blocks. *)
EXTENDS DynMem
=============================================================================
