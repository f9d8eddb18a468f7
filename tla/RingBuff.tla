------------------------------ MODULE RingBuff ------------------------------
(***************************************************************************)
(* The byte ring of bsp_ringBuff.c as operators on its state.  Its users   *)
(* call every operation inside a critical section, so an operation is one  *)
(* step of the module that uses it.  A cell stands for a byte.             *)
(*                                                                         *)
(* (The definitions that nothing uses are faulty variants of the one below *)
(* them, which the properties are checked to tell apart.)                  *)
(*                                                                         *)
(* Push returns the ring after the call; a call that returns false leaves  *)
(* the ring alone.  The checks of null pointers are left out, and lengths  *)
(* are those the callers use, never 0.                                     *)
(***************************************************************************)
EXTENDS Naturals, Sequences

CONSTANTS
  RingSize,  \* rb->size
  Cell       \* what a byte can hold

ASSUME RingAssumption == RingSize \in Nat \ {0, 1} /\ Cell # {}

RingIndex == 0 .. RingSize - 1
Ring == [buffer : [RingIndex -> Cell], head : RingIndex, tail : RingIndex]

(* The storage array before anything is written to it is of no consequence.  *)
EmptyRing == [buffer |-> [i \in RingIndex |-> CHOOSE c \in Cell : TRUE],
              head |-> 0, tail |-> 0]

Used(rb) == IF rb.head >= rb.tail THEN rb.head - rb.tail
            ELSE RingSize - (rb.tail - rb.head)

(* One cell is never used: a full ring must not look empty.                  *)
Unused(rb) == RingSize - 1 - Used(rb)

AdvanceOn(index, delta) == index + delta

(* With a size that is a power of two the code masks instead; the result is  *)
(* the same.                                                                 *)
Advance(index, delta) == (index + delta) % RingSize

Shorter(m, n) == IF m < n THEN m ELSE n

(* Two copies: up to the end of the storage, and the rest from its start.    *)
Push(rb, data) ==
  LET first == Shorter(Len(data), RingSize - rb.head)
      Copied(i) ==
        IF i \in rb.head .. rb.head + first - 1 THEN data[i - rb.head + 1]
        ELSE IF i < Len(data) - first THEN data[first + i + 1]
        ELSE rb.buffer[i]
  IN  IF Len(data) > Unused(rb) THEN rb
      ELSE [rb EXCEPT !.buffer = [i \in RingIndex |-> Copied(i)],
                      !.head = Advance(@, Len(data))]

PeekFromStart(rb, length) ==
  [k \in 1 .. Shorter(length, Used(rb)) |-> rb.buffer[k - 1]]

Peek(rb, length) ==
  LET toRead == Shorter(length, Used(rb))
      first == Shorter(toRead, RingSize - rb.tail)
  IN  [k \in 1 .. toRead |-> IF k <= first THEN rb.buffer[rb.tail + k - 1]
                             ELSE rb.buffer[k - first - 1]]

Discard(rb, length) ==
  IF length > Used(rb) THEN rb ELSE [rb EXCEPT !.tail = Advance(@, length)]

(* Pop returns Peek(rb, length) and leaves this ring.                        *)
AfterPop(rb, length) ==
  IF Used(rb) = 0 THEN rb ELSE Discard(rb, Len(Peek(rb, length)))
-----------------------------------------------------------------------------
(* What the ring stands for: the cells pushed and not yet discarded, oldest  *)
(* first.                                                                    *)
Wrapped(n) == IF n < RingSize THEN n ELSE n - RingSize
Content(rb) == [k \in 1 .. Used(rb) |-> rb.buffer[Wrapped(rb.tail + k - 1)]]
=============================================================================
