------------------------------ MODULE MCCanRx -------------------------------
(* Small instances of CanRx for TLC.                                         *)
EXTENDS CanRx

Cells == [num : 1 .. MaxArrived, part : 1 .. FrameCells, ok : BOOLEAN]
=============================================================================
