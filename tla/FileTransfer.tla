---------------------------- MODULE FileTransfer ----------------------------
(***************************************************************************)
(* What a host may expect of pulling a task's records: the file only grows *)
(* while it is pulled; what the host has is always the beginning of the    *)
(* file, without a gap, a repetition or a record out of order; and a pull  *)
(* that completes has at least what the file held when it was started.     *)
(* Losses, repetitions, windows and requests do not appear here.           *)
(***************************************************************************)
EXTENDS Naturals, Sequences

CONSTANT Rec      \* records

VARIABLES
  file,    \* the file on the device
  got,     \* what the host has of it
  owed,    \* how much the file held when the pull was started
  phase    \* "idle", "pulling", "done" or "broken" (off)

vars == <<file, got, owed, phase>>

Init ==
  /\ file = <<>> /\ got = <<>> /\ owed = 0 /\ phase = "idle"

Grow ==
  /\ \E r \in Rec : file' = Append(file, r)
  /\ UNCHANGED <<got, owed, phase>>

Start ==
  /\ phase = "idle"
  /\ phase' = "pulling" /\ owed' = Len(file)
  /\ UNCHANGED <<file, got>>

(* After a break the pull goes on from what the host has.                    *)
Resume ==
  /\ phase = "broken" /\ phase' = "pulling"
  /\ UNCHANGED <<file, got, owed>>

Break ==
  /\ phase = "pulling" /\ phase' = "broken"
  /\ UNCHANGED <<file, got, owed>>

(* More of the file arrives, perhaps the last of it.                         *)
Receive ==
  /\ phase = "pulling"
  /\ \E n \in Len(got) + 1 .. Len(file) :
       /\ got' = got \o SubSeq(file, Len(got) + 1, n)
       /\ phase' \in (IF n >= owed THEN {"pulling", "done"} ELSE {"pulling"})
  /\ UNCHANGED <<file, owed>>

Next == Grow \/ Start \/ Resume \/ Break \/ Receive

Spec == Init /\ [][Next]_vars
=============================================================================
