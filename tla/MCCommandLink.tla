---------------------------- MODULE MCCommandLink ----------------------------
EXTENDS CommandLink

(* STOP_COLLECT, and two START_COLLECTs: one with a code that needs no CRC   *)
(* in its payload, one with the bytes of a debug command's beginning there.  *)
MCFrames ==
  {[cmd |-> 3, payload |-> <<1>>, lo |-> 7, hi |-> 8],
   [cmd |-> 2, payload |-> <<227>>, lo |-> 7, hi |-> 7],
   [cmd |-> 2, payload |-> <<165, 224>>, lo |-> 5, hi |-> 7]}

(* START_COLLECT with the code of a frame start as the last byte of its CRC: *)
(* with this frame alone GetsThrough is violated (README, section 4).        *)
MCFrameEndingInSOF == {[cmd |-> 2, payload |-> <<1, 3>>, lo |-> 7, hi |-> 165]}

(* What NoPhantom asks of the frames holds of these.                         *)
ASSUME MCFramesAssumption == OwnByte

MCByte == {0, 1, 2, 3, 5, 7, 8, 165, 224, 227}
=============================================================================
