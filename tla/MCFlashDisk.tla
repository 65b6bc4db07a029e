---------------------------- MODULE MCFlashDisk ----------------------------
(* Three flash sectors of two disk sectors each.  The contents of a disk   *)
(* sector are interchangeable.                                             *)
EXTENDS FlashDisk, TLC

Symmetry == Permutations(Data)
=============================================================================
