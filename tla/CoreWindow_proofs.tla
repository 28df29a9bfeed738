------------------------- MODULE CoreWindow_proofs -------------------------
(***************************************************************************)
(* Lemmas about the sequence-number window, for every width.               *)
(***************************************************************************)
EXTENDS CoreWindow, TLAPS

(* A number above the highest one is always acceptable.                    *)
LEMMA HeadAcceptable ==
  ASSUME NEW last \in Nat, NEW bitmap, NEW snum \in Nat, last < snum
  PROVE  Acceptable(last, bitmap, snum)
  BY DEF Acceptable

(* The highest number only grows, and is a number received or the old one. *)
LEMMA NextLastFacts ==
  ASSUME NEW l \in Nat, NEW s \in Nat
  PROVE  /\ NextLast(l, s) \in Nat
         /\ l <= NextLast(l, s) /\ s <= NextLast(l, s)
         /\ NextLast(l, s) \in {l, s}
  BY DEF NextLast

(* The bit map keeps its width.                                            *)
LEMMA NextBitmapType ==
  ASSUME NEW l \in Nat, NEW bm \in Bitmaps, NEW s \in Nat, Acceptable(l, bm, s)
  PROVE  NextBitmap(l, bm, s) \in Bitmaps
<1>1. CASE s < l
  <2>1. l - s - 1 \in 0 .. Window - 1
    BY <1>1, WindowAssumption DEF Acceptable
  <2> QED
    BY <1>1, <2>1 DEF NextBitmap, Bitmaps
<1>2. CASE ~(s < l)
  BY <1>2, WindowAssumption DEF NextBitmap, ShiftedBitmap, Bitmaps
<1> QED
  BY <1>1, <1>2

(* A number the bit map covers stays covered when the window moves, as     *)
(* long as it is within the window.                                        *)
LEMMA BitKept ==
  ASSUME NEW l \in Nat, NEW bm \in Bitmaps, NEW s \in Nat, NEW w \in Nat,
         w < l, l - w <= Window => l - w - 1 \in bm,
         NextLast(l, s) - w <= Window
  PROVE  NextLast(l, s) - w - 1 \in NextBitmap(l, bm, s)
<1>1. CASE s < l
  BY <1>1 DEF NextLast, NextBitmap
<1>2. CASE ~(s < l)
  <2>1. NextLast(l, s) = s
    BY <1>2 DEF NextLast
  <2>2. s - l < Window /\ s - l \in Nat
    BY <1>2, <2>1, WindowAssumption
  <2>3. l - w - 1 \in bm
    BY <1>2, <2>1, WindowAssumption
  <2>4. s - w - 1 \in 0 .. Window - 1 /\ s - w - 1 >= s - l
        /\ (s - w - 1) - (s - l) = l - w - 1
    BY <1>2, <2>1, WindowAssumption
  <2> QED
    BY <1>2, <2>1, <2>2, <2>3, <2>4, WindowAssumption DEF NextBitmap, ShiftedBitmap
<1> QED
  BY <1>1, <1>2

(* An accepted number below the highest one gets its bit.                  *)
LEMMA BitSet ==
  ASSUME NEW l \in Nat, NEW bm \in Bitmaps, NEW s \in Nat, s < l
  PROVE  /\ NextLast(l, s) = l
         /\ l - s - 1 \in NextBitmap(l, bm, s)
  BY DEF NextLast, NextBitmap

(* Every bit after a step stands for the accepted number or for a number   *)
(* that had its bit before, or was the highest.                            *)
LEMMA BitOrigin ==
  ASSUME NEW l \in Nat, NEW bm \in Bitmaps, NEW s \in Nat, s # l,
         NEW b \in NextBitmap(l, bm, s)
  PROVE  \/ NextLast(l, s) - b - 1 = s
         \/ \E c \in bm : NextLast(l, s) - b - 1 = l - c - 1
<1>1. CASE s < l
  BY <1>1 DEF NextLast, NextBitmap, Bitmaps
<1>2. CASE l < s
  <2>1. NextLast(l, s) = s /\ NextBitmap(l, bm, s) = ShiftedBitmap(bm, s - l)
    BY <1>2 DEF NextLast, NextBitmap
  <2>2. b \in 0 .. Window - 1 /\ b - (s - l) \in bm
    BY <2>1 DEF ShiftedBitmap
  <2>3. NextLast(l, s) - b - 1 = l - (b - (s - l)) - 1
    BY <1>2, <2>1, <2>2, WindowAssumption
  <2> QED
    BY <2>2, <2>3
<1> QED
  BY <1>1, <1>2
=============================================================================
