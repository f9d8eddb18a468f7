---------------------------- MODULE MCFlashStore ----------------------------
(* Small instances of FlashStore for TLC.  Task ids are interchangeable.     *)
EXTENDS FlashStore, TLC

Symmetry == Permutations(Task)
=============================================================================
