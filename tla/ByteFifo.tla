------------------------------ MODULE ByteFifo ------------------------------
(***************************************************************************)
(* What a user of the ring of bsp_ringBuff.c relies on: a bounded queue    *)
(* that takes a piece of data whole or refuses it, and refuses it only for *)
(* want of room, and that gives the oldest cells back in order, each once. *)
(***************************************************************************)
EXTENDS Naturals, Sequences

CONSTANTS
  Data,     \* the pieces of data that are put
  Portion,  \* the number of cells of a get
  Capacity  \* the number of cells there is room for

VARIABLES
  queue,    \* the cells put and not yet got
  got,      \* what the last get gave
  refused   \* the number of pieces refused

Init == queue = <<>> /\ got = <<>> /\ refused = 0

Put(d) ==
  /\ Len(queue) + Len(d) <= Capacity
  /\ queue' = queue \o d
  /\ UNCHANGED <<got, refused>>

Refuse(d) ==
  /\ Len(queue) + Len(d) > Capacity
  /\ refused' = refused + 1
  /\ UNCHANGED <<queue, got>>

Get ==
  /\ Len(queue) >= Portion
  /\ got' = SubSeq(queue, 1, Portion)
  /\ queue' = SubSeq(queue, Portion + 1, Len(queue))
  /\ UNCHANGED refused

Next == Get \/ \E d \in Data : Put(d) \/ Refuse(d)

Spec == Init /\ [][Next]_<<queue, got, refused>>
=============================================================================
