----------------------------- MODULE CoreWindow -----------------------------
(***************************************************************************)
(* The sequence-number window that the core service keeps for every key    *)
(* exchange (struct GSC_KeyExchangeInfo, gnunet-service-core_kx.c): the    *)
(* highest sequence number accepted so far and a bit map of the sequence   *)
(* numbers before it.  A bit map is the set of its set bit positions.      *)
(***************************************************************************)
EXTENDS Naturals

CONSTANT Window   \* width of last_packets_bitmap; 32 in the code

ASSUME WindowAssumption == Window \in Nat \ {0}

Bitmaps == SUBSET (0 .. Window - 1)

(* The three early returns of the sequence number validation: a duplicate  *)
(* of the highest number, a number more than a window behind it, and a     *)
(* number whose bit is set.                                                *)
Acceptable(last, bitmap, snum) ==
  /\ snum # last
  /\ snum < last => /\ last - snum <= Window
                    /\ last - snum - 1 \notin bitmap

(* Mutant: the shifted bits are not truncated to the width.                *)
ShiftedBitmap_Wide(bitmap, shift) == {b + shift : b \in bitmap}

(* Left shift of the bit map; a shift by the whole width clears it.        *)
ShiftedBitmap(bitmap, shift) ==
  IF shift >= Window THEN {}
  ELSE {b \in 0 .. Window - 1 : b >= shift /\ b - shift \in bitmap}

(* Mutant: the bit of a late message is not recorded.                      *)
NextBitmap_NoRecord(last, bitmap, snum) ==
  IF snum < last THEN bitmap ELSE ShiftedBitmap(bitmap, snum - last)

(* Mutant: the bit map is not shifted when the window moves on.            *)
NextBitmap_NoShift(last, bitmap, snum) ==
  IF snum < last THEN bitmap \cup {last - snum - 1} ELSE bitmap

(* The bit map and the highest number after an acceptable number.          *)
NextBitmap(last, bitmap, snum) ==
  IF snum < last THEN bitmap \cup {last - snum - 1}
                 ELSE ShiftedBitmap(bitmap, snum - last)

NextLast(last, snum) == IF snum > last THEN snum ELSE last
=============================================================================
