----------------------------- MODULE CoreReplay -----------------------------
(***************************************************************************)
(* One direction of encrypted traffic between two core services: the       *)
(* sender numbers every message, the network may lose, duplicate and       *)
(* reorder, and the receiver filters by session key and by the sequence-   *)
(* number window.  Message n is the n-th one ever sent; on the wire it     *)
(* carries the 32-bit counter, n modulo SeqMod.  Fresh keys are installed  *)
(* in between: they reset the receiver's window, never the sender's        *)
(* counter.                                                                *)
(***************************************************************************)
EXTENDS CoreWindow, Sequences

CONSTANTS SeqMod,     \* 2^32 in the code
          MaxSent,    \* bound: messages sent
          MaxKey      \* bound: session keys generated by the sender

ASSUME SeqModAssumption == SeqMod \in Nat \ {0}

VARIABLES sentKey,    \* sentKey[n]: the key message n was encrypted with
          encKey,     \* sender: encrypt_key
          decKey,     \* receiver: decrypt_key
          last,       \* receiver: last_sequence_number_received
          bitmap,     \* receiver: last_packets_bitmap
          fate        \* history: what the receiver did with message n

vars == <<sentKey, encKey, decKey, last, bitmap, fate>>

Sent == DOMAIN sentKey

Wire(n) == n % SeqMod

(* A message is delivered first at the head of the window ("head") or out  *)
(* of order below it ("late"); "again" is a second delivery of a head      *)
(* message, "extra" any further one or a second one of a late message.  A  *)
(* "stale" one was too old when it came first: the window counts it, its   *)
(* content is ignored.                                                     *)
Fates == {"none", "stale", "head", "late", "again", "extra"}

TypeOK ==
  /\ sentKey \in Seq(Nat)
  /\ encKey \in Nat
  /\ decKey \in Nat
  /\ last \in Nat
  /\ bitmap \in Bitmaps
  /\ fate \in Seq(Fates) /\ Len(fate) = Len(sentKey)

Init ==
  /\ sentKey = <<>> /\ fate = <<>>
  /\ encKey = 1 /\ decKey = 1
  /\ last = 0 /\ bitmap = {}

(* GSC_KX_encrypt_and_transmit.                                            *)
EncryptAndTransmit ==
  /\ Len(sentKey) < MaxSent
  /\ sentKey' = Append(sentKey, encKey)
  /\ fate' = Append(fate, "none")
  /\ UNCHANGED <<encKey, decKey, last, bitmap>>

(* setup_fresh_setkey: last_sequence_number_sent is not touched.           *)
SetupFreshSetKey ==
  /\ encKey < MaxKey
  /\ encKey' = encKey + 1
  /\ UNCHANGED <<sentKey, decKey, last, bitmap, fate>>

(* GSC_KX_handle_set_key in the states KEY_RECEIVED and UP, which ignore a *)
(* key older than the current one.                                         *)
InstallKey(k) ==
  /\ k > decKey
  /\ decKey' = k /\ last' = 0 /\ bitmap' = {}
  /\ UNCHANGED <<sentKey, encKey, fate>>

NextFate(f, n, old) ==
  CASE old /\ f = "none"  -> "stale"
    [] old /\ f # "none"  -> f
    [] ~old /\ f = "none" -> IF Wire(n) > last THEN "head" ELSE "late"
    [] ~old /\ f = "head" -> "again"
    [] OTHER              -> "extra"

(* GSC_KX_handle_encrypted_message in state UP: the HMAC fails under any   *)
(* other key, then the window decides; the age of the message (old: past   *)
(* MAX_MESSAGE_AGE) is looked at last.                                     *)
HandleEncryptedMessage(n, old) ==
  /\ sentKey[n] = decKey
  /\ fate[n] = "stale" => old
  /\ Acceptable(last, bitmap, Wire(n))
  /\ last' = NextLast(last, Wire(n))
  /\ bitmap' = NextBitmap(last, bitmap, Wire(n))
  /\ fate' = [fate EXCEPT ![n] = NextFate(@, n, old)]
  /\ UNCHANGED <<sentKey, encKey, decKey>>

Next ==
  \/ EncryptAndTransmit
  \/ SetupFreshSetKey
  \/ \E k \in 1 .. encKey : InstallKey(k)
  \/ \E n \in Sent, old \in BOOLEAN : HandleEncryptedMessage(n, old)

Spec == Init /\ [][Next]_vars

-----------------------------------------------------------------------------
(* Properties.                                                             *)

(* A message whose arrival is recorded in the bit map is never delivered   *)
(* again, over shifts of the window, wrap-around of the counter and key    *)
(* changes (the bit test of GSC_KX_handle_encrypted_message).              *)
RecordedOnce == \A n \in Sent : fate[n] # "extra"

(* The window never refuses a message it has not delivered, as long as it  *)
(* is not more than Window behind the highest number and the 32-bit        *)
(* counter has not wrapped: reordering inside the window costs nothing.    *)
NoFreshDropped ==
  Len(sentKey) < SeqMod =>
    \A n \in Sent :
      /\ sentKey[n] = decKey /\ fate[n] = "none" /\ Wire(n) + Window >= last
      => Acceptable(last, bitmap, Wire(n))

(* The inductive invariant: keys grow; a message of the current key that   *)
(* was delivered late or again has its bit set as long as the window       *)
(* covers it, one delivered at the head is not above the highest number;   *)
(* before the counter wraps, what the window remembers was received.       *)
Remembered(n) ==
  /\ fate[n] = "head" => Wire(n) <= last
  /\ fate[n] \in {"late", "again"} =>
       /\ Wire(n) < last
       /\ last - Wire(n) <= Window => last - Wire(n) - 1 \in bitmap

Received(n) == n \in Sent /\ sentKey[n] = decKey /\ fate[n] # "none"

IInv ==
  /\ TypeOK
  /\ RecordedOnce
  /\ decKey <= encKey
  /\ \A n \in Sent : /\ sentKey[n] <= encKey
                     /\ sentKey[n] > decKey => fate[n] = "none"
                     /\ sentKey[n] = decKey => Remembered(n)
  /\ Len(sentKey) < SeqMod => /\ last # 0 => Received(last)
                              /\ \A b \in bitmap : Received(last - b - 1)

=============================================================================
