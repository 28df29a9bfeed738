------------------------- MODULE CoreReplay_proofs -------------------------
(***************************************************************************)
(* Proofs of the properties of the sequence-number window for every        *)
(* window width, counter width and number of messages and keys.            *)
(***************************************************************************)
EXTENDS CoreReplay, CoreWindow_proofs

(* The number on the wire is the message's own until the counter wraps.    *)
LEMMA WireNoWrap ==
  ASSUME NEW n \in Nat, n < SeqMod
  PROVE  Wire(n) = n
  BY SeqModAssumption DEF Wire

(* Numbers on the wire are naturals.                                       *)
LEMMA WireNat ==
  ASSUME NEW n \in Nat
  PROVE  Wire(n) \in Nat
  BY SeqModAssumption DEF Wire

-----------------------------------------------------------------------------
(* The steps.                                                              *)

(* Sending a message adds one that was not received, under the current     *)
(* key of the sender.                                                      *)
LEMMA EncryptAndTransmitStep ==
  ASSUME IInv, EncryptAndTransmit
  PROVE  IInv'
<1> USE DEF IInv, TypeOK, Sent
<1> DEFINE k == Len(sentKey)
<1>1. /\ k \in Nat /\ DOMAIN sentKey = 1 .. k /\ DOMAIN sentKey' = 1 .. k + 1
      /\ Len(sentKey') = k + 1 /\ sentKey' \in Seq(Nat)
      /\ \A n \in 1 .. k : sentKey'[n] = sentKey[n]
      /\ sentKey'[k + 1] = encKey
  BY DEF EncryptAndTransmit
<1>2. fate \in Seq(Fates) /\ Len(fate) = k
  OBVIOUS
<1>3. /\ fate' \in Seq(Fates) /\ Len(fate') = k + 1
      /\ \A n \in 1 .. k : fate'[n] = fate[n]
      /\ fate'[k + 1] = "none"
  BY <1>1, <1>2 DEF EncryptAndTransmit, Fates
<1>4. UNCHANGED <<encKey, decKey, last, bitmap>>
  BY DEF EncryptAndTransmit
<1>5. TypeOK'
  BY <1>1, <1>3, <1>4
<1>6. RecordedOnce'
  BY <1>1, <1>3 DEF RecordedOnce
<1>7. \A n \in 1 .. k + 1 : /\ sentKey'[n] <= encKey
                            /\ sentKey'[n] > decKey => fate'[n] = "none"
                            /\ sentKey'[n] = decKey => Remembered(n)'
  <2> SUFFICES ASSUME NEW n \in 1 .. k + 1
               PROVE  /\ sentKey'[n] <= encKey
                      /\ sentKey'[n] > decKey => fate'[n] = "none"
                      /\ sentKey'[n] = decKey => Remembered(n)'
    OBVIOUS
  <2>1. CASE n = k + 1
    BY <1>1, <1>3, <1>4, <2>1 DEF Remembered
  <2>2. CASE n \in 1 .. k
    BY <1>1, <1>3, <1>4, <2>2 DEF Remembered, Wire
  <2> QED
    BY <1>1, <2>1, <2>2
<1>8. Len(sentKey') < SeqMod => /\ last # 0 => Received(last)'
                                /\ \A b \in bitmap : Received(last - b - 1)'
  <2>1. \A n : Received(n) => Received(n)'
    BY <1>1, <1>3, <1>4 DEF Received
  <2>2. Len(sentKey') < SeqMod => Len(sentKey) < SeqMod
    BY <1>1, SeqModAssumption
  <2> QED
    BY <1>4, <2>1, <2>2 DEF Received
<1> QED
  BY <1>1, <1>4, <1>5, <1>6, <1>7, <1>8

(* A fresh key of the sender.                                              *)
LEMMA SetupFreshSetKeyStep ==
  ASSUME IInv, SetupFreshSetKey
  PROVE  IInv'
<1>1. TypeOK' /\ RecordedOnce'
  BY DEF IInv, TypeOK, RecordedOnce, SetupFreshSetKey, Sent
<1>2. decKey' <= encKey'
  BY DEF IInv, TypeOK, SetupFreshSetKey
<1>3. \A n \in Sent : sentKey[n] \in Nat
  BY DEF IInv, TypeOK, Sent
<1>4. (\A n \in Sent : /\ sentKey[n] <= encKey
                       /\ sentKey[n] > decKey => fate[n] = "none"
                       /\ sentKey[n] = decKey => Remembered(n))'
  BY <1>3 DEF IInv, TypeOK, SetupFreshSetKey, Sent, Remembered, Wire
<1>5. (Len(sentKey) < SeqMod => /\ last # 0 => Received(last)
                                /\ \A b \in bitmap : Received(last - b - 1))'
  BY DEF IInv, SetupFreshSetKey, Received, Sent
<1> QED
  BY <1>1, <1>2, <1>4, <1>5 DEF IInv

(* Installing a newer key empties the window; nothing was received under   *)
(* that key yet.                                                           *)
LEMMA InstallKeyStep ==
  ASSUME IInv, NEW k \in 1 .. encKey, InstallKey(k)
  PROVE  IInv'
<1>0. encKey \in Nat /\ decKey \in Nat /\ k \in Nat
  BY DEF IInv, TypeOK
<1>1. TypeOK' /\ RecordedOnce'
  BY <1>0 DEF IInv, TypeOK, RecordedOnce, InstallKey, Sent, Bitmaps
<1>2. decKey' <= encKey'
  BY <1>0 DEF InstallKey
<1>3. \A n \in Sent : sentKey[n] \in Nat
  BY DEF IInv, TypeOK, Sent
<1>4. \A n \in Sent : sentKey[n] >= k => fate[n] = "none"
  BY <1>0, <1>3 DEF IInv, InstallKey
<1>5. (\A n \in Sent : /\ sentKey[n] <= encKey
                       /\ sentKey[n] > decKey => fate[n] = "none"
                       /\ sentKey[n] = decKey => Remembered(n))'
  BY <1>0, <1>3, <1>4 DEF IInv, InstallKey, Sent, Remembered
<1>6. (Len(sentKey) < SeqMod => /\ last # 0 => Received(last)
                                /\ \A b \in bitmap : Received(last - b - 1))'
  BY DEF InstallKey
<1> QED
  BY <1>1, <1>2, <1>5, <1>6 DEF IInv

(* Receiving a message.                                                    *)
LEMMA HandleEncryptedMessageStep ==
  ASSUME IInv, NEW n \in Sent, NEW old \in BOOLEAN, HandleEncryptedMessage(n, old)
  PROVE  IInv'
<1> DEFINE s == Wire(n)
           HasReceived(m) == m \in Sent /\ sentKey[m] = decKey /\ fate'[m] # "none"
<1>0. /\ last \in Nat /\ bitmap \in Bitmaps /\ encKey \in Nat /\ decKey \in Nat
      /\ fate \in [Sent -> Fates] /\ Sent \subseteq Nat /\ Len(sentKey) \in Nat
      /\ Sent = 1 .. Len(sentKey)
  BY DEF IInv, TypeOK, Sent
<1>1. s \in Nat /\ s # last /\ Acceptable(last, bitmap, s)
  BY <1>0, WireNat DEF HandleEncryptedMessage, Acceptable
<1>2. /\ last' = NextLast(last, s) /\ bitmap' = NextBitmap(last, bitmap, s)
      /\ fate' = [fate EXCEPT ![n] = NextFate(fate[n], n, old)]
      /\ UNCHANGED <<sentKey, encKey, decKey>> /\ Sent' = Sent
  BY DEF HandleEncryptedMessage, Sent
<1> HIDE DEF s
<1>3. last' \in Nat /\ last <= last' /\ s <= last' /\ last' \in {last, s}
  BY <1>0, <1>1, <1>2, NextLastFacts
<1>4. bitmap' \in Bitmaps
  BY <1>0, <1>1, <1>2, NextBitmapType
<1>5. NextFate(fate[n], n, old) \in Fates \ {"none"}
  BY <1>0 DEF NextFate, Fates
<1>6. TypeOK'
  <2>1. fate' \in Seq(Fates) /\ Len(fate') = Len(fate)
    BY <1>0, <1>2, <1>5 DEF IInv, TypeOK, Sent
  <2> QED
    BY <1>0, <1>2, <1>3, <1>4, <2>1 DEF TypeOK, IInv
<1>7. sentKey[n] = decKey /\ Remembered(n) /\ fate[n] # "extra"
  BY DEF HandleEncryptedMessage, IInv, RecordedOnce
<1>8. fate[n] \in {"late", "again"} => s < last /\ last - s <= Window /\ last - s - 1 \in bitmap
  BY <1>0, <1>1, <1>7, WindowAssumption DEF Remembered, Acceptable, s
<1>9. fate[n] \notin {"late", "again"}
  BY <1>1, <1>8 DEF Acceptable
<1>10. fate'[n] # "extra"
  <2>1. fate[n] \in {"none", "stale", "head"}
    BY <1>0, <1>7, <1>9 DEF Fates
  <2>2. fate[n] = "stale" => old
    BY DEF HandleEncryptedMessage
  <2> QED
    BY <1>0, <1>2, <2>1, <2>2 DEF NextFate
<1>11. RecordedOnce'
  BY <1>0, <1>2, <1>10 DEF RecordedOnce, IInv
<1>12. ASSUME NEW m \in Sent, sentKey[m] = decKey
       PROVE  Remembered(m)'
  <2>0. Wire(m) \in Nat /\ Remembered(m) /\ Wire(m)' = Wire(m)
    BY <1>0, <1>12, WireNat DEF IInv, Wire
  <2>1. CASE fate'[m] = fate[m]
    <3>1. fate[m] = "head" => Wire(m) <= last'
      BY <1>0, <1>3, <2>0 DEF Remembered
    <3>2. ASSUME fate[m] \in {"late", "again"}
          PROVE  /\ Wire(m) < last'
                 /\ last' - Wire(m) <= Window => last' - Wire(m) - 1 \in bitmap'
      <4>1. Wire(m) < last /\ (last - Wire(m) <= Window => last - Wire(m) - 1 \in bitmap)
        BY <2>0, <3>2 DEF Remembered
      <4>2. Wire(m) < last'
        BY <1>0, <1>3, <2>0, <4>1
      <4> QED
        BY <1>0, <1>1, <1>2, <2>0, <4>1, <4>2, BitKept
    <3> QED
      BY <2>0, <2>1, <3>1, <3>2 DEF Remembered
  <2>2. CASE fate'[m] # fate[m]
    <3>1. m = n /\ s = Wire(m)
      BY <1>0, <1>2, <2>2 DEF s
    <3>2. fate'[m] = "head" => s <= last'
      BY <1>3
    <3>3. fate'[m] \in {"late", "again"} => s < last
      <4>1. fate'[m] = NextFate(fate[m], m, old)
        BY <1>0, <1>2, <3>1
      <4>2. fate'[m] = "late" => ~(s > last)
        BY <2>2, <3>1, <4>1 DEF NextFate
      <4>3. fate'[m] = "again" => s <= last
        BY <1>7, <2>2, <3>1, <4>1 DEF NextFate, Remembered
      <4> QED
        BY <1>0, <1>1, <4>2, <4>3
    <3>4. s < last => last' = last /\ last - s - 1 \in bitmap'
      BY <1>0, <1>1, <1>2, BitSet
    <3> QED
      BY <2>0, <3>1, <3>2, <3>3, <3>4 DEF Remembered
  <2> QED
    BY <2>1, <2>2
<1>13. (\A m \in Sent : /\ sentKey[m] <= encKey
                        /\ sentKey[m] > decKey => fate[m] = "none"
                        /\ sentKey[m] = decKey => Remembered(m))'
  <2>1. \A m \in Sent : sentKey[m] > decKey => fate'[m] = "none"
    BY <1>0, <1>2, <1>7 DEF IInv
  <2> QED
    BY <1>2, <1>12, <2>1 DEF IInv
<1>14. ASSUME Len(sentKey) < SeqMod
       PROVE  /\ last' # 0 => HasReceived(last')
              /\ \A b \in bitmap' : HasReceived(last' - b - 1)
  <2>1. \A m : Received(m) => HasReceived(m)
    BY <1>0, <1>2, <1>5 DEF Received
  <2>2. s = n
    BY <1>0, <1>14, SeqModAssumption, WireNoWrap DEF s
  <2>3. HasReceived(n)
    BY <1>0, <1>2, <1>5, <1>7
  <2> HIDE DEF HasReceived
  <2>4. last' # 0 => HasReceived(last')
    BY <1>3, <1>14, <2>1, <2>2, <2>3 DEF IInv
  <2>5. ASSUME NEW b \in bitmap'
        PROVE  HasReceived(last' - b - 1)
    <3>1. last' - b - 1 = s \/ \E c \in bitmap : last' - b - 1 = last - c - 1
      BY <1>0, <1>1, <1>2, BitOrigin
    <3> QED
      BY <1>14, <2>1, <2>2, <2>3, <3>1 DEF IInv
  <2> QED
    BY <2>4, <2>5
<1>15. (Len(sentKey) < SeqMod => /\ last # 0 => Received(last)
                                /\ \A b \in bitmap : Received(last - b - 1))'
  BY <1>2, <1>14 DEF Received
<1>16. decKey' <= encKey'
  BY <1>2 DEF IInv
<1> QED
  BY <1>6, <1>11, <1>13, <1>15, <1>16 DEF IInv

-----------------------------------------------------------------------------
(* Theorems.                                                               *)

(* The inductive invariant of the window.                                  *)
THEOREM Invariant == Spec => []IInv
<1>1. Init => IInv
  BY SeqModAssumption
  DEF Init, IInv, TypeOK, RecordedOnce, Sent, Bitmaps, Remembered, Received
<1>2. IInv /\ [Next]_vars => IInv'
  <2> SUFFICES ASSUME IInv, [Next]_vars PROVE IInv'
    OBVIOUS
  <2>1. CASE UNCHANGED vars
    BY <2>1 DEF vars, IInv, TypeOK, RecordedOnce, Sent, Remembered, Received, Wire
  <2>2. CASE Next
    BY <2>2, EncryptAndTransmitStep, SetupFreshSetKeyStep, InstallKeyStep,
       HandleEncryptedMessageStep DEF Next
  <2> QED
    BY <2>1, <2>2
<1> QED
  BY <1>1, <1>2, PTL DEF Spec

(* A message whose arrival the bit map recorded is never delivered again,  *)
(* for any widths of the window and of the counter.                        *)
THEOREM RecordedOnceHolds == Spec => []RecordedOnce
<1>1. IInv => RecordedOnce
  BY DEF IInv
<1> QED
  BY <1>1, Invariant, PTL

(* Before the counter wraps, reordering within the window loses nothing.   *)
THEOREM NoFreshDroppedHolds == Spec => []NoFreshDropped
<1>1. IInv => NoFreshDropped
  <2> SUFFICES ASSUME IInv, Len(sentKey) < SeqMod, NEW n \in Sent,
                      sentKey[n] = decKey, fate[n] = "none",
                      Wire(n) + Window >= last
               PROVE  Acceptable(last, bitmap, Wire(n))
    BY DEF NoFreshDropped
  <2>1. n \in Nat /\ n # 0 /\ n < SeqMod /\ last \in Nat /\ bitmap \in Bitmaps
    BY SeqModAssumption DEF IInv, TypeOK, Sent
  <2>2. Wire(n) = n
    BY <2>1, WireNoWrap
  <2>3. ~Received(n)
    BY DEF Received
  <2>4. n # last
    BY <2>1, <2>3 DEF IInv
  <2>5. ASSUME n < last
        PROVE  last - n <= Window /\ last - n - 1 \notin bitmap
    <3>1. last - n <= Window
      BY <2>1, <2>2, WindowAssumption
    <3>2. last - (last - n - 1) - 1 = n
      BY <2>1
    <3> QED
      BY <2>3, <3>1, <3>2 DEF IInv
  <2> QED
    BY <2>2, <2>4, <2>5 DEF Acceptable
<1> QED
  BY <1>1, Invariant, PTL

(* The bit map never grows beyond the window, whatever the distance that   *)
(* GSC_KX_handle_encrypted_message shifts it by.                           *)
THEOREM TypeCorrect == Spec => []TypeOK
<1>1. IInv => TypeOK
  BY DEF IInv
<1> QED
  BY <1>1, Invariant, PTL
=============================================================================
