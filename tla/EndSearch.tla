------------------------------ MODULE EndSearch ------------------------------
(***************************************************************************)
(* The search of app_storage.c for the end of a record area: given the     *)
(* records that are there, which need not be the first ones, where is the  *)
(* next record to go?                                                      *)
(***************************************************************************)
EXTENDS Naturals

Middle(lo, hi) == lo + (hi - lo) \div 2

(* The loop of app_store_scan_committed_size_locked: there is the set of     *)
(* the records whose head is not erased, range what lies between lo and hi.  *)
Search(there, count) ==
  LET end[range \in (0 .. count) \X (0 .. count)] ==
        LET lo == range[1]
            hi == range[2]
            mid == Middle(lo, hi)
        IN  IF lo >= hi THEN lo
            ELSE IF mid \in there THEN end[<<mid + 1, hi>>]
            ELSE end[<<lo, mid>>]
  IN  end[<<0, count>>]

(* The first record is looked at first, then the last one.                   *)
End(there, count) ==
  IF 0 \notin there THEN 0
  ELSE IF count - 1 \in there THEN count
  ELSE Search(there, count)
=============================================================================
