--------------------------- MODULE CoreKX_proofs ---------------------------
(***************************************************************************)
(* Proofs of the safety properties of CoreKX for every window width and    *)
(* every bound.  Each handler of the key exchange is shown to preserve     *)
(* Good (what the inductive invariant says of one record) and to move the  *)
(* sender's side only forward (Grow); the invariant of the two peers       *)
(* follows from these two facts for every action.                          *)
(***************************************************************************)
EXTENDS CoreKX, CoreWindow_proofs

Good(h, q) == h \in KX /\ Local(h) /\ Agrees(h, q)

(* Keys are never reused and the counter of a key never goes back.         *)
Grow(h, r) ==
  /\ h.keys <= r.keys
  /\ h.held \subseteq r.held
  /\ \/ r.enc = h.enc /\ h.sent <= r.sent
     \/ r.enc = 0
     \/ r.enc > h.keys

(* What the receiver knows of a message that q sent.                       *)
Genuine(m, q) ==
  /\ m.key \in 1 .. q.keys
  /\ m.type = "PONG" => q.held # {}
  /\ m.type = "ENCRYPTED_MESSAGE" /\ m.key = q.enc => m.snum <= q.sent

-----------------------------------------------------------------------------
(* Type correctness of field selection and of a single assignment.         *)

(* The fields of a record of KX have the types KX declares.                *)
LEMMA FieldTypes ==
  ASSUME NEW h \in KX
  PROVE  /\ h.conn \in BOOLEAN /\ h.status \in States /\ h.pubkey \in BOOLEAN
         /\ h.pitr \in BOOLEAN /\ h.skm \in SetKeys \cup {None}
         /\ h.ping \in Pings \cup {None} /\ h.pong \in Pongs \cup {None}
         /\ h.emsg \in Encrypteds \cup {None} /\ h.enc \in Nat /\ h.dec \in Nat
         /\ h.last \in Nat /\ h.bitmap \in Bitmaps /\ h.sent \in Nat
         /\ h.retry \in {"none", "set_key", "rekey"} /\ h.keepalive \in BOOLEAN
         /\ h.session \in BOOLEAN /\ h.keys \in Nat /\ h.held \in SUBSET Nat
         /\ h.out \in SUBSET Messages
  BY DEF KX

(* Assigning a flag keeps the record in KX.                                *)
LEMMA SetFlag ==
  ASSUME NEW h \in KX, NEW v \in BOOLEAN
  PROVE  /\ [h EXCEPT !.conn = v] \in KX
         /\ [h EXCEPT !.pubkey = v] \in KX
         /\ [h EXCEPT !.pitr = v] \in KX
         /\ [h EXCEPT !.keepalive = v] \in KX
         /\ [h EXCEPT !.session = v] \in KX
  BY DEF KX

(* Assigning a key or a counter keeps the record in KX.                    *)
LEMMA SetNumber ==
  ASSUME NEW h \in KX, NEW v \in Nat
  PROVE  /\ [h EXCEPT !.enc = v] \in KX
         /\ [h EXCEPT !.dec = v] \in KX
         /\ [h EXCEPT !.last = v] \in KX
         /\ [h EXCEPT !.sent = v] \in KX
         /\ [h EXCEPT !.keys = v] \in KX
  BY DEF KX

(* Assigning a status or a task keeps the record in KX.                    *)
LEMMA SetStatus ==
  ASSUME NEW h \in KX, NEW v \in States
  PROVE  [h EXCEPT !.status = v] \in KX
  BY DEF KX

(* Scheduling or cancelling the task keeps the record in KX.               *)
LEMMA SetRetry ==
  ASSUME NEW h \in KX, NEW v \in {"none", "set_key", "rekey"}
  PROVE  [h EXCEPT !.retry = v] \in KX
  BY DEF KX

(* Assigning a set keeps the record in KX.                                 *)
LEMMA SetBitmap ==
  ASSUME NEW h \in KX, NEW v \in Bitmaps
  PROVE  [h EXCEPT !.bitmap = v] \in KX
  BY DEF KX

(* So does noting a key that the peer has held.                            *)
LEMMA SetHeld ==
  ASSUME NEW h \in KX, NEW v \in SUBSET Nat
  PROVE  [h EXCEPT !.held = v] \in KX
  BY DEF KX

(* So does putting messages on the channel.                                *)
LEMMA SetOut ==
  ASSUME NEW h \in KX, NEW v \in SUBSET Messages
  PROVE  [h EXCEPT !.out = v] \in KX
  BY DEF KX

(* Deferring a message keeps the record in KX.                             *)
LEMMA SetSlot ==
  ASSUME NEW h \in KX
  PROVE  /\ \A m \in SetKeys \cup {None} : [h EXCEPT !.skm = m] \in KX
         /\ \A m \in Pings \cup {None} : [h EXCEPT !.ping = m] \in KX
         /\ \A m \in Pongs \cup {None} : [h EXCEPT !.pong = m] \in KX
         /\ \A m \in Encrypteds \cup {None} : [h EXCEPT !.emsg = m] \in KX
  BY DEF KX

(* Sending well-formed messages keeps the record in KX.                    *)
LEMMA TransmitType ==
  ASSUME NEW h \in KX, NEW msgs \in SUBSET Messages
  PROVE  Transmit(h, msgs) \in KX
<1>1. h.out \cup msgs \in SUBSET Messages
  BY FieldTypes
<1> QED
  BY <1>1, SetOut DEF Transmit

(* The constructors build messages.                                        *)
LEMMA MessageTypes ==
  ASSUME NEW k \in Nat, NEW st \in States, NEW n \in Nat
  PROVE  /\ SetKey(k, st) \in Messages
         /\ Ping(k) \in Messages
         /\ Pong(k) \in Messages
         /\ Encrypted(k, n) \in Messages
  BY DEF SetKey, Ping, Pong, Encrypted, Messages, SetKeys, Pings, Pongs, Encrypteds

(* The fields of a message.                                                *)
LEMMA MessageFields ==
  ASSUME NEW k, NEW st, NEW n
  PROVE  /\ SetKey(k, st).type = "SET_KEY" /\ SetKey(k, st).key = k
         /\ Ping(k).type = "PING" /\ Ping(k).key = k
         /\ Pong(k).type = "PONG" /\ Pong(k).key = k
         /\ Encrypted(k, n).type = "ENCRYPTED_MESSAGE"
         /\ Encrypted(k, n).key = k /\ Encrypted(k, n).snum = n
  BY DEF SetKey, Ping, Pong, Encrypted

(* No message is the empty slot.                                           *)
LEMMA NoneIsNoMessage == None \notin Messages
  BY DEF None, Messages, SetKeys, Pings, Pongs, Encrypteds

(* The type field tells the kinds of messages apart.                       *)
LEMMA MessageKinds ==
  ASSUME NEW m \in Messages
  PROVE  /\ m.type = "SET_KEY" => m \in SetKeys
         /\ m.type = "PING" => m \in Pings
         /\ m.type = "PONG" => m \in Pongs
         /\ m.type = "ENCRYPTED_MESSAGE" => m \in Encrypteds
         /\ m.type \in {"SET_KEY", "PING", "PONG", "ENCRYPTED_MESSAGE"}
         /\ m.key \in Nat
  BY DEF Messages, SetKeys, Pings, Pongs, Encrypteds

-----------------------------------------------------------------------------
(* send_key.                                                               *)

(* Material as send_key finds it: process_hello and send_keep_alive call   *)
(* it in state DOWN with a public key at hand.                             *)
BeforeSend(h) ==
  /\ h.status # "DOWN" => h.pubkey /\ h.enc # 0
  /\ h.enc \in 0 .. h.keys
  /\ h.status \notin {"DOWN", "KEY_SENT"} => h.dec # 0
  /\ \A m \in h.out : m.key \in 1 .. h.keys

(* send_key keeps the record well formed.                                  *)
LEMMA SendKeyType ==
  ASSUME NEW h \in KX
  PROVE  SendKey(h) \in KX
<1> DEFINE c == [h EXCEPT !.retry = "none"]
           g == SetupFreshKey(c)
           f == CASE h.status = "DOWN"  -> [g EXCEPT !.status = "KEY_SENT"]
                  [] h.status = "REKEY" -> [g EXCEPT !.status = "REKEY_SENT"]
                  [] OTHER              -> c
           st == IF f.status = "REKEY_SENT" THEN "KEY_RECEIVED" ELSE f.status
<1>1. c \in KX
  BY SetRetry
<1>2. g \in KX
  <2>1. c.keys + 1 \in Nat
    BY <1>1, FieldTypes
  <2> HIDE DEF c
  <2> QED
    BY <1>1, <2>1, SetNumber DEF SetupFreshKey
<1>3. f \in KX
  <2> HIDE DEF c, g
  <2> QED
    BY <1>1, <1>2, SetStatus DEF States, SessionStates
<1>4. Transmit(f, {SetKey(f.enc, st), Ping(f.enc)}) \in KX
  <2> HIDE DEF f
  <2>1. f.enc \in Nat /\ st \in States
    BY <1>3, FieldTypes DEF States, SessionStates
  <2>2. {SetKey(f.enc, st), Ping(f.enc)} \in SUBSET Messages
    BY <2>1, MessageTypes
  <2> QED
    BY <1>3, <2>2, TransmitType
<1>5. [Transmit(f, {SetKey(f.enc, st), Ping(f.enc)}) EXCEPT !.retry = "set_key"] \in KX
  <2> HIDE DEF f, st
  <2> QED
    BY <1>4, SetRetry
<1>6. [c EXCEPT !.pitr = TRUE] \in KX
  <2> HIDE DEF c
  <2> QED
    BY <1>1, SetFlag
<1> QED
  BY <1>1, <1>5, <1>6 DEF SendKey

(* The fields after send_key did send.                                     *)
LEMMA SendKeyEffect ==
  ASSUME NEW h \in KX, h.pubkey, h.status # "UP"
  PROVE  LET r == SendKey(h)
             fresh == h.status \in {"DOWN", "REKEY"}
         IN  /\ r.conn = h.conn /\ r.pubkey = h.pubkey /\ r.pitr = h.pitr
             /\ r.skm = h.skm /\ r.ping = h.ping /\ r.pong = h.pong
             /\ r.emsg = h.emsg /\ r.dec = h.dec /\ r.last = h.last
             /\ r.bitmap = h.bitmap /\ r.sent = h.sent /\ r.held = h.held
             /\ r.keepalive = h.keepalive /\ r.session = h.session
             /\ r.status = CASE h.status = "DOWN"  -> "KEY_SENT"
                             [] h.status = "REKEY" -> "REKEY_SENT"
                             [] OTHER              -> h.status
             /\ r.enc = IF fresh THEN h.keys + 1 ELSE h.enc
             /\ r.keys = IF fresh THEN h.keys + 1 ELSE h.keys
             /\ r.retry = "set_key"
             /\ \E st \in States : r.out = h.out \cup {SetKey(r.enc, st), Ping(r.enc)}
<1>1. CASE h.status = "DOWN"
  BY <1>1 DEF SendKey, SetupFreshKey, Transmit, KX, States, SessionStates
<1>2. CASE h.status = "REKEY"
  BY <1>2 DEF SendKey, SetupFreshKey, Transmit, KX, States, SessionStates
<1>3. CASE h.status \notin {"DOWN", "REKEY"}
  BY <1>3 DEF SendKey, SetupFreshKey, Transmit, KX, States, SessionStates
<1> QED
  BY <1>1, <1>2, <1>3

(* The fields after send_key found nothing to do or no public key.         *)
LEMMA SendKeyIdle ==
  ASSUME NEW h \in KX, h.status = "UP" \/ ~h.pubkey
  PROVE  LET r == SendKey(h)
         IN  /\ r.conn = h.conn /\ r.pubkey = h.pubkey /\ r.status = h.status
             /\ r.skm = h.skm /\ r.ping = h.ping /\ r.pong = h.pong
             /\ r.emsg = h.emsg /\ r.dec = h.dec /\ r.last = h.last
             /\ r.bitmap = h.bitmap /\ r.sent = h.sent /\ r.held = h.held
             /\ r.keepalive = h.keepalive /\ r.session = h.session
             /\ r.enc = h.enc /\ r.keys = h.keys /\ r.out = h.out
             /\ r.retry = "none"
             /\ h.status # "UP" => r.pitr
  BY DEF SendKey, KX

(* send_key establishes the invariant, whatever task was pending.          *)
LEMMA SendKeyGood ==
  ASSUME NEW h \in KX, NEW q \in KX,
         Timers(h), BeforeSend(h), History(h), Agrees(h, q)
  PROVE  Good(SendKey(h), q) /\ Grow(h, SendKey(h))
<1> DEFINE r == SendKey(h)
<1>0. r \in KX
  BY SendKeyType
<1>n. h.keys \in Nat /\ h.enc \in Nat /\ h.sent \in Nat /\ h.status \in States
      /\ h.out \in SUBSET Messages
  BY FieldTypes
<1>1. CASE h.pubkey /\ h.status # "UP"
  <2> HIDE DEF r
  <2>1. /\ r.conn = h.conn /\ r.pubkey = h.pubkey /\ r.pitr = h.pitr
        /\ r.skm = h.skm /\ r.ping = h.ping /\ r.pong = h.pong
        /\ r.emsg = h.emsg /\ r.dec = h.dec /\ r.last = h.last
        /\ r.bitmap = h.bitmap /\ r.sent = h.sent /\ r.held = h.held
        /\ r.keepalive = h.keepalive /\ r.session = h.session
        /\ r.retry = "set_key"
        /\ r.status = CASE h.status = "DOWN"  -> "KEY_SENT"
                        [] h.status = "REKEY" -> "REKEY_SENT"
                        [] OTHER              -> h.status
    BY <1>1, SendKeyEffect DEF r
  <2>2. \/ r.enc = h.enc /\ r.keys = h.keys /\ h.status \notin {"DOWN", "REKEY"}
        \/ r.enc = h.keys + 1 /\ r.keys = h.keys + 1
    BY <1>1, SendKeyEffect DEF r
  <2>3. PICK st \in States : r.out = h.out \cup {SetKey(r.enc, st), Ping(r.enc)}
    BY <1>1, SendKeyEffect DEF r
  <2>4. Timers(r)
    BY <1>n, <2>1 DEF Timers, States, SessionStates
  <2>5. Tasks(r)
    BY <1>1, <2>1 DEF Tasks
  <2>6. r.enc \in 1 .. r.keys /\ h.keys <= r.keys
    BY <1>1, <1>n, <2>2 DEF BeforeSend
  <2>7. \A m \in r.out : m \in h.out \/ (m.type \in {"SET_KEY", "PING"} /\ m.key = r.enc)
    <3>1. \A m \in r.out : m \in h.out \/ m = SetKey(r.enc, st) \/ m = Ping(r.enc)
      BY <2>3
    <3>2. /\ SetKey(r.enc, st).type = "SET_KEY" /\ SetKey(r.enc, st).key = r.enc
          /\ Ping(r.enc).type = "PING" /\ Ping(r.enc).key = r.enc
      BY MessageFields
    <3> QED
      BY <3>1, <3>2
  <2>8. Material(r)
    <3>1. \A m \in r.out : m.key \in 1 .. r.keys
      BY <1>n, <2>2, <2>6, <2>7 DEF BeforeSend
    <3> QED
      BY <1>1, <1>n, <2>1, <2>6, <3>1 DEF Material, BeforeSend, States, SessionStates
  <2>9. History(r)
    <3>1. \A m \in r.out : m.type = "ENCRYPTED_MESSAGE" /\ m.key = r.enc => m.snum <= r.sent
      BY <1>n, <2>1, <2>2, <2>7 DEF History, BeforeSend
    <3> QED
      BY <2>1, <2>7, <3>1 DEF History
  <2>10. Agrees(r, q)
    BY <2>1 DEF Agrees
  <2>11. Grow(h, r)
    BY <1>n, <2>1, <2>2 DEF Grow
  <2> QED
    BY <1>0, <2>4, <2>5, <2>8, <2>9, <2>10, <2>11 DEF Good, Local, r
<1>2. CASE h.status = "UP" \/ ~h.pubkey
  <2> HIDE DEF r
  <2>1. /\ r.conn = h.conn /\ r.pubkey = h.pubkey /\ r.status = h.status
        /\ r.skm = h.skm /\ r.ping = h.ping /\ r.pong = h.pong
        /\ r.emsg = h.emsg /\ r.dec = h.dec /\ r.last = h.last
        /\ r.bitmap = h.bitmap /\ r.sent = h.sent /\ r.held = h.held
        /\ r.keepalive = h.keepalive /\ r.session = h.session
        /\ r.enc = h.enc /\ r.keys = h.keys /\ r.out = h.out
        /\ r.retry = "none"
        /\ h.status # "UP" => r.pitr
    BY <1>2, SendKeyIdle DEF r
  <2>2. Timers(r) /\ Tasks(r) /\ Material(r) /\ History(r) /\ Agrees(r, q)
    BY <1>2, <2>1 DEF Timers, Tasks, Material, BeforeSend, History, Agrees
  <2>3. Grow(h, r)
    BY <1>n, <2>1 DEF Grow
  <2> QED
    BY <1>0, <2>2, <2>3 DEF Good, Local, r
<1> QED
  BY <1>1, <1>2

-----------------------------------------------------------------------------
(* Composition of handlers.                                                *)

(* Doing nothing is a step forward, and steps forward compose.             *)
LEMMA GrowRefl ==
  ASSUME NEW h \in KX
  PROVE  Grow(h, h)
  BY FieldTypes DEF Grow

(* A handler that calls two functions grows the record if both do.         *)
LEMMA GrowTrans ==
  ASSUME NEW h \in KX, NEW r \in KX, NEW t \in KX, Grow(h, r), Grow(r, t)
  PROVE  Grow(h, t)
<1>1. /\ h.keys \in Nat /\ h.enc \in Nat /\ h.sent \in Nat
      /\ r.keys \in Nat /\ r.enc \in Nat /\ r.sent \in Nat
      /\ t.keys \in Nat /\ t.enc \in Nat /\ t.sent \in Nat
  BY FieldTypes
<1> QED
  BY <1>1 DEF Grow

(* The record r has the sender's side of h.                                *)
Same(h, r) ==
  /\ r.enc = h.enc /\ r.keys = h.keys /\ r.sent = h.sent
  /\ r.held = h.held /\ r.out = h.out

(* A function that leaves alone what the other peer depends on grows the   *)
(* record.                                                                 *)
LEMMA SameGrow ==
  ASSUME NEW h \in KX, NEW r, Same(h, r)
  PROVE  Grow(h, r)
<1>1. h.keys \in Nat /\ h.sent \in Nat
  BY FieldTypes
<1> QED
  BY <1>1 DEF Same, Grow

-----------------------------------------------------------------------------
(* GSC_KX_handle_encrypted_message and GSC_KX_handle_ping.                 *)

(* The fields after an accepted message: the window moved and the timeout  *)
(* may have been updated.                                                  *)
LEMMA WindowEffect ==
  ASSUME NEW h \in KX, NEW m \in Encrypteds, NEW old \in BOOLEAN,
         h.status \in {"UP", "REKEY_SENT"}
  PROVE  LET r == HandleEncryptedMessage(h, m, old)
         IN  /\ r \in KX
             /\ Same(h, r)
             /\ r.conn = h.conn /\ r.status = h.status /\ r.pubkey = h.pubkey
             /\ r.pitr = h.pitr /\ r.skm = h.skm /\ r.ping = h.ping
             /\ r.pong = h.pong /\ r.emsg = h.emsg /\ r.dec = h.dec
             /\ r.retry = h.retry /\ r.session = h.session
             /\ r.keepalive \in {h.keepalive, TRUE}
             /\ \/ r.last = h.last
                \/ m.key = h.dec /\ r.last \in {h.last, m.snum}
<1> DEFINE w == [h EXCEPT !.last = NextLast(h.last, m.snum),
                          !.bitmap = NextBitmap(h.last, h.bitmap, m.snum)]
<1>1. CASE m.key # h.dec \/ ~Acceptable(h.last, h.bitmap, m.snum)
  <2>1. HandleEncryptedMessage(h, m, old) = h
    BY <1>1 DEF HandleEncryptedMessage
  <2> QED
    BY <2>1 DEF Same
<1>2. CASE m.key = h.dec /\ Acceptable(h.last, h.bitmap, m.snum)
  <2>1. HandleEncryptedMessage(h, m, old) = IF old THEN w ELSE UpdateTimeout(w)
    BY <1>2 DEF HandleEncryptedMessage
  <2>2. h.last \in Nat /\ h.bitmap \in Bitmaps /\ m.snum \in Nat
    BY FieldTypes DEF Encrypteds
  <2>3. /\ NextLast(h.last, m.snum) \in {h.last, m.snum}
        /\ NextLast(h.last, m.snum) \in Nat
    BY <2>2 DEF NextLast
  <2>4. NextBitmap(h.last, h.bitmap, m.snum) \in Bitmaps
    BY <1>2, <2>2, NextBitmapType
  <2>5. w \in KX
    BY <2>3, <2>4, SetNumber, SetBitmap
  <2>6. UpdateTimeout(w) \in KX
    <3> HIDE DEF w
    <3> QED
      BY <2>5, SetFlag DEF UpdateTimeout
  <2>7. /\ Same(h, w)
        /\ w.conn = h.conn /\ w.status = h.status /\ w.pubkey = h.pubkey
        /\ w.pitr = h.pitr /\ w.skm = h.skm /\ w.ping = h.ping
        /\ w.pong = h.pong /\ w.emsg = h.emsg /\ w.dec = h.dec
        /\ w.retry = h.retry /\ w.session = h.session
        /\ w.keepalive = h.keepalive
        /\ w.last = NextLast(h.last, m.snum)
    BY DEF Same, KX
  <2>8. LET r == UpdateTimeout(w)
        IN  /\ Same(w, r)
            /\ r.conn = w.conn /\ r.status = w.status /\ r.pubkey = w.pubkey
            /\ r.pitr = w.pitr /\ r.skm = w.skm /\ r.ping = w.ping
            /\ r.pong = w.pong /\ r.emsg = w.emsg /\ r.dec = w.dec
            /\ r.retry = w.retry /\ r.session = w.session
            /\ r.keepalive = TRUE
            /\ r.last = w.last
    <3> HIDE DEF w
    <3> QED
      BY <2>5 DEF Same, KX, UpdateTimeout
  <2> HIDE DEF w
  <2>9. CASE old
    BY <1>2, <2>1, <2>3, <2>5, <2>7, <2>9
  <2>10. CASE ~old
    BY <1>2, <2>1, <2>3, <2>6, <2>7, <2>8, <2>10 DEF Same
  <2> QED
    BY <2>9, <2>10
<1> QED
  BY <1>1, <1>2

(* An encrypted message preserves the invariant.                           *)
LEMMA HandleEncryptedMessageGood ==
  ASSUME NEW h, NEW q \in KX, NEW m \in Encrypteds, NEW old \in BOOLEAN,
         Good(h, q), Genuine(m, q)
  PROVE  LET r == HandleEncryptedMessage(h, m, old) IN Good(r, q) /\ Grow(h, r)
<1>0. h \in KX /\ Local(h) /\ Agrees(h, q)
  BY DEF Good
<1>1. CASE h.status \notin {"KEY_RECEIVED", "UP", "REKEY_SENT"}
  BY <1>0, <1>1, GrowRefl DEF HandleEncryptedMessage
<1>2. CASE h.status = "KEY_RECEIVED"
  <2> DEFINE r == [h EXCEPT !.emsg = m]
  <2>1. HandleEncryptedMessage(h, m, old) = r
    BY <1>2 DEF HandleEncryptedMessage
  <2>2. r \in KX
    BY <1>0, SetSlot
  <2>3. /\ Same(h, r) /\ r.conn = h.conn /\ r.status = h.status
        /\ r.pubkey = h.pubkey /\ r.pitr = h.pitr /\ r.skm = h.skm
        /\ r.pong = h.pong /\ r.emsg = m /\ r.dec = h.dec /\ r.last = h.last
        /\ r.retry = h.retry /\ r.session = h.session
        /\ r.keepalive = h.keepalive
    BY <1>0 DEF Same, KX
  <2>4. m.type = "ENCRYPTED_MESSAGE"
    BY DEF Encrypteds
  <2> HIDE DEF r
  <2>5. Local(r)
    BY <1>0, <2>3 DEF Local, Timers, Tasks, Material, History, Same
  <2>6. Agrees(r, q)
    BY <1>0, <2>3, <2>4 DEF Agrees, Genuine, Same
  <2> QED
    BY <1>0, <2>1, <2>2, <2>3, <2>5, <2>6, SameGrow DEF Good
<1>3. CASE h.status \in {"UP", "REKEY_SENT"}
  <2> DEFINE r == HandleEncryptedMessage(h, m, old)
  <2>1. /\ r \in KX
        /\ Same(h, r)
        /\ r.conn = h.conn /\ r.status = h.status /\ r.pubkey = h.pubkey
        /\ r.pitr = h.pitr /\ r.skm = h.skm /\ r.ping = h.ping
        /\ r.pong = h.pong /\ r.emsg = h.emsg /\ r.dec = h.dec
        /\ r.retry = h.retry /\ r.session = h.session
        /\ r.keepalive \in {h.keepalive, TRUE}
        /\ \/ r.last = h.last
           \/ m.key = h.dec /\ r.last \in {h.last, m.snum}
    BY <1>0, <1>3, WindowEffect
  <2>4. m.type = "ENCRYPTED_MESSAGE"
    BY DEF Encrypteds
  <2> HIDE DEF r
  <2>5. Local(r)
    BY <1>0, <1>3, <2>1 DEF Local, Timers, Tasks, Material, History, Same, SessionStates
  <2>6. Agrees(r, q)
    BY <1>0, <2>1, <2>4 DEF Agrees, Genuine, Same
  <2>7. Good(r, q) /\ Grow(h, r)
    BY <1>0, <2>1, <2>5, <2>6, SameGrow DEF Good
  <2> QED
    BY <2>7 DEF r
<1> QED
  BY <1>1, <1>2, <1>3

(* Sending a message under our key, as an answer or of our own accord,     *)
(* preserves the invariant.                                                *)
LEMMA TransmitGood ==
  ASSUME NEW h, NEW q \in KX, NEW m \in Pings \cup Pongs,
         Good(h, q), h.pubkey, m.key = h.enc,
         m.type = "PONG" => h.held # {}
  PROVE  Good(Transmit(h, {m}), q) /\ Grow(h, Transmit(h, {m}))
<1> DEFINE r == Transmit(h, {m})
<1>0. h \in KX /\ Local(h) /\ Agrees(h, q)
  BY DEF Good
<1>1. m \in Messages /\ m.type \in {"PING", "PONG"}
  BY DEF Messages, Pings, Pongs
<1>2. r \in KX
  BY <1>0, <1>1, TransmitType
<1>3. /\ r.conn = h.conn /\ r.status = h.status /\ r.pubkey = h.pubkey
      /\ r.pitr = h.pitr /\ r.skm = h.skm /\ r.ping = h.ping
      /\ r.pong = h.pong /\ r.emsg = h.emsg /\ r.dec = h.dec
      /\ r.retry = h.retry /\ r.session = h.session /\ r.last = h.last
      /\ r.keepalive = h.keepalive
      /\ r.enc = h.enc /\ r.keys = h.keys /\ r.sent = h.sent
      /\ r.held = h.held /\ r.out = h.out \cup {m}
  BY <1>0 DEF Transmit, KX
<1>4. h.keys \in Nat /\ h.enc \in Nat /\ h.sent \in Nat
  BY <1>0, FieldTypes
<1> HIDE DEF r
<1>5. m.key \in 1 .. h.keys
  BY <1>0, <1>4 DEF Local, Material
<1>6. Timers(r) /\ Tasks(r)
  BY <1>0, <1>3 DEF Local, Timers, Tasks
<1>7. Material(r)
  BY <1>0, <1>3, <1>5 DEF Local, Material
<1>8. History(r)
  BY <1>0, <1>1, <1>3 DEF Local, History
<1>9. Agrees(r, q)
  BY <1>0, <1>3 DEF Agrees
<1>10. Grow(h, r)
  BY <1>3, <1>4 DEF Grow
<1> QED
  BY <1>2, <1>6, <1>7, <1>8, <1>9, <1>10 DEF Good, Local, r

(* A PING preserves the invariant.                                         *)
LEMMA HandlePingGood ==
  ASSUME NEW h, NEW q \in KX, NEW m \in Pings, Good(h, q)
  PROVE  Good(HandlePing(h, m), q) /\ Grow(h, HandlePing(h, m))
<1>0. h \in KX /\ Local(h) /\ Agrees(h, q)
  BY DEF Good
<1>1. CASE h.status \notin {"KEY_RECEIVED", "UP", "REKEY_SENT"}
  <2> DEFINE r == [h EXCEPT !.ping = m]
  <2>1. HandlePing(h, m) = r
    BY <1>1 DEF HandlePing
  <2>2. r \in KX
    BY <1>0, SetSlot
  <2>3. /\ Same(h, r) /\ r.conn = h.conn /\ r.status = h.status
        /\ r.pubkey = h.pubkey /\ r.pitr = h.pitr /\ r.skm = h.skm
        /\ r.pong = h.pong /\ r.emsg = h.emsg /\ r.dec = h.dec
        /\ r.last = h.last /\ r.retry = h.retry /\ r.session = h.session
        /\ r.keepalive = h.keepalive
    BY <1>0 DEF Same, KX
  <2> HIDE DEF r
  <2>4. Local(r) /\ Agrees(r, q)
    BY <1>0, <2>3 DEF Local, Timers, Tasks, Material, History, Agrees, Same
  <2> QED
    BY <1>0, <2>1, <2>2, <2>3, <2>4, SameGrow DEF Good
<1>2. CASE h.status \in {"KEY_RECEIVED", "UP", "REKEY_SENT"}
  <2>1. CASE m.key # h.dec
    BY <1>0, <1>2, <2>1, GrowRefl DEF HandlePing
  <2>2. CASE m.key = h.dec
    <3>1. HandlePing(h, m) = Transmit(h, {Pong(h.enc)})
      BY <1>2, <2>2 DEF HandlePing
    <3>2. Pong(h.enc) \in Pongs /\ Pong(h.enc).key = h.enc
      BY <1>0, FieldTypes DEF Pong, Pongs
    <3>3. h.pubkey /\ h.held # {}
      BY <1>0, <1>2 DEF Local, Material, History
    <3> QED
      BY <3>1, <3>2, <3>3, TransmitGood
  <2> QED
    BY <2>1, <2>2
<1> QED
  BY <1>1, <1>2

-----------------------------------------------------------------------------
(* GSC_KX_handle_pong.                                                     *)

(* The first PONG creates the session and preserves the invariant.         *)
LEMMA SessionUpGood ==
  ASSUME NEW h, NEW q \in KX, NEW old \in BOOLEAN,
         Good(h, q), h.status = "KEY_RECEIVED", q.held # {}
  PROVE  Good(SessionUp(h, old), q) /\ Grow(h, SessionUp(h, old))
<1> DEFINE u == [h EXCEPT !.status = "UP", !.session = TRUE, !.retry = "rekey",
                          !.emsg = None]
           v == IF h.emsg = None THEN u ELSE HandleEncryptedMessage(u, h.emsg, old)
           r == UpdateTimeout(v)
<1>0. h \in KX /\ Local(h) /\ Agrees(h, q)
  BY DEF Good
<1>1. u \in KX
  <2>1. "UP" \in States /\ "rekey" \in {"none", "set_key", "rekey"}
        /\ None \in Encrypteds \cup {None}
    BY DEF States, SessionStates
  <2> QED
    BY <1>0, <2>1, SetStatus, SetFlag, SetRetry, SetSlot
<1>2. /\ Same(h, u)
      /\ u.conn = h.conn /\ u.status = "UP" /\ u.pubkey = h.pubkey
      /\ u.pitr = h.pitr /\ u.skm = h.skm /\ u.ping = h.ping
      /\ u.pong = h.pong /\ u.emsg = None /\ u.dec = h.dec
      /\ u.retry = "rekey" /\ u.session = TRUE /\ u.last = h.last
  BY <1>0 DEF Same, KX
<1> HIDE DEF u
<1>3. /\ v \in KX
      /\ Same(h, v)
      /\ v.conn = h.conn /\ v.status = "UP" /\ v.pubkey = h.pubkey
      /\ v.pitr = h.pitr /\ v.skm = h.skm /\ v.ping = h.ping
      /\ v.pong = h.pong /\ v.emsg = None /\ v.dec = h.dec
      /\ v.retry = "rekey" /\ v.session = TRUE
      /\ \/ v.last = h.last
         \/ /\ h.emsg # None /\ h.emsg.key = h.dec
            /\ v.last \in {h.last, h.emsg.snum}
  <2>1. CASE h.emsg = None
    BY <1>1, <1>2, <2>1
  <2>2. CASE h.emsg # None
    <3>1. h.emsg \in Encrypteds
      BY <1>0, <2>2, FieldTypes
    <3>2. u.status \in {"UP", "REKEY_SENT"}
      BY <1>2
    <3> DEFINE e == HandleEncryptedMessage(u, h.emsg, old)
    <3>3. /\ e \in KX
          /\ Same(u, e)
          /\ e.conn = u.conn /\ e.status = u.status /\ e.pubkey = u.pubkey
          /\ e.pitr = u.pitr /\ e.skm = u.skm /\ e.ping = u.ping
          /\ e.pong = u.pong /\ e.emsg = u.emsg /\ e.dec = u.dec
          /\ e.retry = u.retry /\ e.session = u.session
          /\ \/ e.last = u.last
             \/ h.emsg.key = u.dec /\ e.last \in {u.last, h.emsg.snum}
      BY <1>1, <3>1, <3>2, WindowEffect
    <3>4. v = e
      BY <2>2
    <3> HIDE DEF e, v
    <3> QED
      BY <1>2, <2>2, <3>3, <3>4 DEF Same
  <2> QED
    BY <2>1, <2>2
<1> HIDE DEF v
<1>4. r \in KX
  BY <1>3, SetFlag DEF UpdateTimeout
<1>5. /\ Same(h, r)
      /\ r.conn = h.conn /\ r.status = "UP" /\ r.pubkey = h.pubkey
      /\ r.pitr = h.pitr /\ r.skm = h.skm /\ r.ping = h.ping
      /\ r.pong = h.pong /\ r.emsg = None /\ r.dec = h.dec
      /\ r.retry = "rekey" /\ r.session = TRUE /\ r.keepalive = TRUE
      /\ r.last = v.last
  BY <1>3 DEF UpdateTimeout, Same, KX
<1> HIDE DEF r
<1>6. Timers(r) /\ Tasks(r)
  BY <1>0, <1>5 DEF Local, Timers, Tasks, Material, SessionStates
<1>7. Material(r) /\ History(r)
  BY <1>0, <1>5 DEF Local, Material, History, Same
<1>8. Agrees(r, q)
  BY <1>0, <1>3, <1>5 DEF Agrees, Same
<1>9. Good(r, q) /\ Grow(h, r)
  BY <1>0, <1>4, <1>5, <1>6, <1>7, <1>8, SameGrow DEF Good, Local
<1> QED
  BY <1>9 DEF SessionUp, r, v, u

(* A PONG preserves the invariant.                                         *)
LEMMA HandlePongGood ==
  ASSUME NEW h, NEW q \in KX, NEW m \in Pongs, NEW old \in BOOLEAN,
         Good(h, q), q.held # {}
  PROVE  Good(HandlePong(h, m, old), q) /\ Grow(h, HandlePong(h, m, old))
<1>0. h \in KX /\ Local(h) /\ Agrees(h, q)
  BY DEF Good
<1>1. CASE h.status = "DOWN" \/ (h.status # "KEY_SENT" /\ m.key # h.dec)
  BY <1>0, <1>1, GrowRefl DEF HandlePong
<1>2. CASE h.status = "KEY_SENT"
  <2> DEFINE r == [h EXCEPT !.pong = m]
  <2>1. HandlePong(h, m, old) = r
    BY <1>2 DEF HandlePong
  <2>2. r \in KX
    BY <1>0, SetSlot
  <2>3. /\ Same(h, r) /\ r.conn = h.conn /\ r.status = h.status
        /\ r.pubkey = h.pubkey /\ r.pitr = h.pitr /\ r.skm = h.skm
        /\ r.emsg = h.emsg /\ r.dec = h.dec
        /\ r.last = h.last /\ r.retry = h.retry /\ r.session = h.session
        /\ r.keepalive = h.keepalive
    BY <1>0 DEF Same, KX
  <2> HIDE DEF r
  <2>4. Local(r) /\ Agrees(r, q)
    BY <1>0, <2>3 DEF Local, Timers, Tasks, Material, History, Agrees, Same
  <2> QED
    BY <1>0, <2>1, <2>2, <2>3, <2>4, SameGrow DEF Good
<1>3. CASE h.status = "KEY_RECEIVED" /\ m.key = h.dec
  <2>1. HandlePong(h, m, old) = SessionUp(h, old)
    BY <1>3 DEF HandlePong
  <2> QED
    BY <1>3, <2>1, SessionUpGood
<1>4. CASE h.status = "REKEY_SENT" /\ m.key = h.dec
  <2> DEFINE u == [h EXCEPT !.status = "UP", !.retry = "rekey"]
             r == UpdateTimeout(u)
  <2>1. HandlePong(h, m, old) = r
    BY <1>4 DEF HandlePong
  <2>2. u \in KX
    BY <1>0, SetStatus, SetRetry DEF States, SessionStates
  <2>3. r \in KX
    <3> HIDE DEF u
    <3> QED
      BY <2>2, SetFlag DEF UpdateTimeout
  <2>4. /\ Same(h, r) /\ r.conn = h.conn /\ r.status = "UP"
        /\ r.pubkey = h.pubkey /\ r.pitr = h.pitr /\ r.skm = h.skm
        /\ r.pong = h.pong /\ r.emsg = h.emsg /\ r.dec = h.dec
        /\ r.last = h.last /\ r.retry = "rekey" /\ r.session = h.session
        /\ r.keepalive = TRUE
    BY <1>0 DEF UpdateTimeout, Same, KX
  <2> HIDE DEF r
  <2>5. Local(r) /\ Agrees(r, q)
    BY <1>0, <1>4, <2>4
    DEF Local, Timers, Tasks, Material, History, Agrees, Same, SessionStates
  <2> QED
    BY <1>0, <2>1, <2>3, <2>4, <2>5, SameGrow DEF Good
<1>5. CASE h.status \in {"UP", "REKEY"} /\ m.key = h.dec
  <2> DEFINE r == UpdateTimeout(h)
  <2>1. HandlePong(h, m, old) = r
    BY <1>5 DEF HandlePong
  <2>2. r \in KX
    BY <1>0, SetFlag DEF UpdateTimeout
  <2>3. /\ Same(h, r) /\ r.conn = h.conn /\ r.status = h.status
        /\ r.pubkey = h.pubkey /\ r.pitr = h.pitr /\ r.skm = h.skm
        /\ r.pong = h.pong /\ r.emsg = h.emsg /\ r.dec = h.dec
        /\ r.last = h.last /\ r.retry = h.retry /\ r.session = h.session
        /\ r.keepalive = TRUE
    BY <1>0 DEF UpdateTimeout, Same, KX
  <2> HIDE DEF r
  <2>4. Local(r) /\ Agrees(r, q)
    BY <1>0, <1>5, <2>3
    DEF Local, Timers, Tasks, Material, History, Agrees, Same, SessionStates
  <2> QED
    BY <1>0, <2>1, <2>2, <2>3, <2>4, SameGrow DEF Good
<1> QED
  BY <1>0, <1>1, <1>2, <1>3, <1>4, <1>5, FieldTypes DEF States, SessionStates

-----------------------------------------------------------------------------
(* GSC_KX_handle_set_key.                                                  *)

(* Installing a key of the peer preserves the invariant.                   *)
LEMMA InstallKeyGood ==
  ASSUME NEW h, NEW q \in KX, NEW k \in 1 .. q.keys, Good(h, q)
  PROVE  LET r == InstallKey(h, k)
         IN  /\ Good(r, q) /\ Grow(h, r)
             /\ r.dec # 0 /\ r.pubkey = h.pubkey /\ r.status = h.status
<1> DEFINE r == InstallKey(h, k)
<1>0. h \in KX /\ Local(h) /\ Agrees(h, q)
  BY DEF Good
<1>1. /\ q.keys \in Nat /\ q.sent \in Nat /\ h.last \in Nat /\ h.dec \in Nat
      /\ h.bitmap \in Bitmaps /\ h.held \in SUBSET Nat /\ h.keys \in Nat
      /\ h.sent \in Nat
  BY <1>0, FieldTypes
<1>2. k \in Nat /\ k # 0 /\ {} \in Bitmaps
  BY <1>1 DEF Bitmaps
<1>3. r \in KX
  <2> DEFINE l == IF h.dec = k THEN h.last ELSE 0
             b == IF h.dec = k THEN h.bitmap ELSE {}
             d == h.held \cup {k}
  <2>1. l \in Nat /\ b \in Bitmaps /\ d \in SUBSET Nat
    BY <1>1, <1>2
  <2>2. r = [h EXCEPT !.dec = k, !.last = l, !.bitmap = b, !.held = d]
    BY DEF InstallKey
  <2> HIDE DEF l, b, d, r
  <2>3. [h EXCEPT !.dec = k, !.last = l, !.bitmap = b, !.held = d] \in KX
    BY <1>0, <1>2, <2>1, SetNumber, SetBitmap, SetHeld
  <2> QED
    BY <2>2, <2>3
<1>4. /\ r.conn = h.conn /\ r.status = h.status /\ r.pubkey = h.pubkey
      /\ r.pitr = h.pitr /\ r.skm = h.skm /\ r.ping = h.ping
      /\ r.pong = h.pong /\ r.emsg = h.emsg /\ r.enc = h.enc
      /\ r.retry = h.retry /\ r.session = h.session
      /\ r.keepalive = h.keepalive /\ r.keys = h.keys /\ r.sent = h.sent
      /\ r.out = h.out /\ r.dec = k /\ r.held = h.held \cup {k}
      /\ r.last = IF h.dec = k THEN h.last ELSE 0
  BY <1>0 DEF InstallKey, KX
<1> HIDE DEF r
<1>5. Timers(r) /\ Tasks(r) /\ Material(r)
  BY <1>0, <1>2, <1>4 DEF Local, Timers, Tasks, Material
<1>6. History(r)
  BY <1>0, <1>4 DEF Local, History
<1>7. Agrees(r, q)
  BY <1>0, <1>1, <1>4 DEF Agrees
<1>8. Grow(h, r)
  BY <1>1, <1>4 DEF Grow
<1> QED
  BY <1>2, <1>3, <1>4, <1>5, <1>6, <1>7, <1>8 DEF Good, Local, r

(* Good records satisfy what send_key needs.                               *)
LEMMA GoodSend ==
  ASSUME NEW h, NEW q \in KX, Good(h, q)
  PROVE  /\ h \in KX /\ Timers(h) /\ BeforeSend(h) /\ History(h) /\ Agrees(h, q)
         /\ Good(SendKey(h), q) /\ Grow(h, SendKey(h))
<1>1. h \in KX /\ Timers(h) /\ BeforeSend(h) /\ History(h) /\ Agrees(h, q)
  BY DEF Good, Local, Material, BeforeSend
<1> QED
  BY <1>1, SendKeyGood

(* Moving on after a key preserves the invariant.                          *)
LEMMA KeyReceivedGood ==
  ASSUME NEW h, NEW q \in KX, NEW st, Good(h, q), h.dec # 0, h.pubkey
  PROVE  Good(KeyReceived(h, st), q) /\ Grow(h, KeyReceived(h, st))
<1>0. h \in KX /\ Local(h) /\ Agrees(h, q)
  BY DEF Good
<1>1. CASE h.status \in SessionStates
  BY <1>0, <1>1, GoodSend, GrowRefl DEF KeyReceived
<1>2. CASE h.status \notin SessionStates
  <2> DEFINE r == [h EXCEPT !.status = "KEY_RECEIVED"]
  <2>1. KeyReceived(h, st) = r
    BY <1>2 DEF KeyReceived
  <2>2. r \in KX
    BY <1>0, SetStatus DEF States
  <2>3. /\ Same(h, r) /\ r.conn = h.conn /\ r.status = "KEY_RECEIVED"
        /\ r.pubkey = h.pubkey /\ r.pitr = h.pitr /\ r.skm = h.skm
        /\ r.pong = h.pong /\ r.emsg = h.emsg /\ r.dec = h.dec
        /\ r.last = h.last /\ r.retry = h.retry /\ r.session = h.session
        /\ r.keepalive = h.keepalive
    BY <1>0 DEF Same, KX
  <2> HIDE DEF r
  <2>4. Timers(r)
    BY <1>0, <1>2, <2>3 DEF Local, Timers, SessionStates
  <2>5. Tasks(r)
    BY <1>0, <1>2, <2>3 DEF Local, Tasks, SessionStates
  <2>6. Material(r) /\ History(r) /\ Agrees(r, q)
    BY <1>0, <2>3 DEF Local, Material, History, Agrees, Same
  <2> QED
    BY <1>0, <2>1, <2>2, <2>3, <2>4, <2>5, <2>6, SameGrow DEF Good, Local
<1> QED
  BY <1>1, <1>2

(* Processing the deferred PING and PONG preserves the invariant.          *)
LEMMA ProcessDeferredGood ==
  ASSUME NEW h, NEW q \in KX, NEW old \in BOOLEAN, Good(h, q)
  PROVE  Good(ProcessDeferred(h, old), q) /\ Grow(h, ProcessDeferred(h, old))
<1> DEFINE c == [h EXCEPT !.ping = None]
           p == IF h.ping = None THEN h ELSE HandlePing(c, h.ping)
           d == [p EXCEPT !.pong = None]
           r == IF p.pong = None THEN p ELSE HandlePong(d, p.pong, old)
<1>0. h \in KX /\ Local(h) /\ Agrees(h, q)
  BY DEF Good
<1>1. Good(c, q) /\ Grow(h, c)
  <2>1. c \in KX
    BY <1>0, SetSlot
  <2>2. /\ Same(h, c) /\ c.conn = h.conn /\ c.status = h.status
        /\ c.pubkey = h.pubkey /\ c.pitr = h.pitr /\ c.skm = h.skm
        /\ c.pong = h.pong /\ c.emsg = h.emsg /\ c.dec = h.dec
        /\ c.last = h.last /\ c.retry = h.retry /\ c.session = h.session
        /\ c.keepalive = h.keepalive
    BY <1>0 DEF Same, KX
  <2> HIDE DEF c
  <2>3. Local(c) /\ Agrees(c, q)
    BY <1>0, <2>2 DEF Local, Timers, Tasks, Material, History, Agrees, Same
  <2> QED
    BY <1>0, <2>1, <2>2, <2>3, SameGrow DEF Good
<1> HIDE DEF c
<1>2. Good(p, q) /\ Grow(h, p)
  <2>1. CASE h.ping = None
    BY <1>0, <2>1, GrowRefl
  <2>2. CASE h.ping # None
    <3>1. h.ping \in Pings
      BY <1>0, <2>2, FieldTypes
    <3>2. Good(HandlePing(c, h.ping), q) /\ Grow(c, HandlePing(c, h.ping))
      BY <1>1, <3>1, HandlePingGood
    <3>3. Grow(h, HandlePing(c, h.ping))
      BY <1>0, <1>1, <3>2, GrowTrans DEF Good
    <3> QED
      BY <2>2, <3>2, <3>3
  <2> QED
    BY <2>1, <2>2
<1> HIDE DEF p
<1>3. p \in KX /\ Local(p) /\ Agrees(p, q)
  BY <1>2 DEF Good
<1>4. Good(d, q) /\ Grow(p, d)
  <2>1. d \in KX
    BY <1>3, SetSlot
  <2>2. /\ Same(p, d) /\ d.conn = p.conn /\ d.status = p.status
        /\ d.pubkey = p.pubkey /\ d.pitr = p.pitr /\ d.skm = p.skm
        /\ d.pong = None /\ d.emsg = p.emsg /\ d.dec = p.dec
        /\ d.last = p.last /\ d.retry = p.retry /\ d.session = p.session
        /\ d.keepalive = p.keepalive
    BY <1>3 DEF Same, KX
  <2> HIDE DEF d
  <2>3. Local(d) /\ Agrees(d, q)
    BY <1>3, <2>2 DEF Local, Timers, Tasks, Material, History, Agrees, Same
  <2> QED
    BY <1>3, <2>1, <2>2, <2>3, SameGrow DEF Good
<1> HIDE DEF d
<1>5. Good(r, q) /\ Grow(h, r)
  <2>1. CASE p.pong = None
    BY <1>2, <2>1
  <2>2. CASE p.pong # None
    <3>1. p.pong \in Pongs /\ q.held # {}
      BY <1>3, <2>2, FieldTypes DEF Agrees
    <3>2. Good(HandlePong(d, p.pong, old), q) /\ Grow(d, HandlePong(d, p.pong, old))
      BY <1>4, <3>1, HandlePongGood
    <3>3. Grow(p, HandlePong(d, p.pong, old))
      BY <1>3, <1>4, <3>2, GrowTrans DEF Good
    <3>4. Grow(h, HandlePong(d, p.pong, old))
      BY <1>0, <1>2, <1>3, <3>2, <3>3, GrowTrans DEF Good
    <3> QED
      BY <2>2, <3>2, <3>4
  <2> QED
    BY <2>1, <2>2
<1> QED
  BY <1>5 DEF ProcessDeferred, r, d, p, c

(* A SET_KEY preserves the invariant.                                      *)
LEMMA HandleSetKeyGood ==
  ASSUME NEW h, NEW q \in KX, NEW m \in SetKeys, NEW old \in BOOLEAN,
         Good(h, q), m.key \in 1 .. q.keys
  PROVE  Good(HandleSetKey(h, m, old), q) /\ Grow(h, HandleSetKey(h, m, old))
<1>0. h \in KX /\ Local(h) /\ Agrees(h, q)
  BY DEF Good
<1>1. CASE ~h.pubkey
  <2> DEFINE r == [h EXCEPT !.skm = m]
  <2>1. HandleSetKey(h, m, old) = r
    BY <1>1 DEF HandleSetKey
  <2>2. r \in KX
    BY <1>0, SetSlot
  <2>3. /\ Same(h, r) /\ r.conn = h.conn /\ r.status = h.status
        /\ r.pubkey = h.pubkey /\ r.pitr = h.pitr /\ r.skm = m
        /\ r.pong = h.pong /\ r.emsg = h.emsg /\ r.dec = h.dec
        /\ r.last = h.last /\ r.retry = h.retry /\ r.session = h.session
        /\ r.keepalive = h.keepalive
    BY <1>0 DEF Same, KX
  <2> HIDE DEF r
  <2>4. Local(r) /\ Agrees(r, q)
    BY <1>0, <2>3 DEF Local, Timers, Tasks, Material, History, Agrees, Same
  <2> QED
    BY <1>0, <2>1, <2>2, <2>3, <2>4, SameGrow DEF Good
<1>2. CASE h.pubkey /\ h.status \in {"KEY_RECEIVED", "UP"} /\ m.key < h.dec
  BY <1>0, <1>2, GrowRefl DEF HandleSetKey
<1>3. CASE h.pubkey /\ ~(h.status \in {"KEY_RECEIVED", "UP"} /\ m.key < h.dec)
  <2> DEFINE i == InstallKey(h, m.key)
             k == KeyReceived(i, m.status)
             r == ProcessDeferred(k, old)
  <2>1. HandleSetKey(h, m, old) = r
    BY <1>3 DEF HandleSetKey
  <2>2. Good(i, q) /\ Grow(h, i) /\ i.dec # 0 /\ i.pubkey
    BY <1>3, InstallKeyGood
  <2> HIDE DEF i
  <2>3. Good(k, q) /\ Grow(i, k)
    BY <2>2, KeyReceivedGood
  <2> HIDE DEF k
  <2>4. Good(r, q) /\ Grow(k, r)
    BY <2>3, ProcessDeferredGood
  <2> HIDE DEF r
  <2>5. Grow(i, r)
    BY <2>2, <2>3, <2>4, GrowTrans DEF Good
  <2>6. Grow(h, r)
    BY <1>0, <2>2, <2>4, <2>5, GrowTrans DEF Good
  <2> QED
    BY <2>1, <2>4, <2>6
<1> QED
  BY <1>1, <1>2, <1>3

-----------------------------------------------------------------------------
(* process_hello.                                                          *)

(* A HELLO preserves the invariant.                                        *)
LEMMA ProcessHelloGood ==
  ASSUME NEW h, NEW q \in KX, NEW old \in BOOLEAN, Good(h, q), ~h.pubkey
  PROVE  Good(ProcessHello(h, old), q) /\ Grow(h, ProcessHello(h, old))
<1> DEFINE k == [h EXCEPT !.pubkey = TRUE]
           s == SendKey(k)
           c == [s EXCEPT !.skm = None]
           r == IF s.skm = None THEN s ELSE HandleSetKey(c, s.skm, old)
<1>0. h \in KX /\ Local(h) /\ Agrees(h, q)
  BY DEF Good
<1>1. k \in KX
  BY <1>0, SetFlag
<1>2. /\ Same(h, k) /\ k.conn = h.conn /\ k.status = h.status
      /\ k.pubkey = TRUE /\ k.pitr = h.pitr /\ k.skm = h.skm
      /\ k.pong = h.pong /\ k.emsg = h.emsg /\ k.dec = h.dec
      /\ k.last = h.last /\ k.retry = h.retry /\ k.session = h.session
      /\ k.keepalive = h.keepalive
  BY <1>0 DEF Same, KX
<1> HIDE DEF k
<1>3. Timers(k) /\ BeforeSend(k) /\ History(k) /\ Agrees(k, q)
  BY <1>0, <1>2 DEF Local, Timers, Material, BeforeSend, History, Agrees, Same
<1>4. Good(s, q) /\ Grow(k, s)
  BY <1>1, <1>3, SendKeyGood
<1>5. Grow(h, s)
  BY <1>0, <1>1, <1>2, <1>4, SameGrow, GrowTrans DEF Good
<1> HIDE DEF s
<1>6. s \in KX /\ Local(s) /\ Agrees(s, q)
  BY <1>4 DEF Good
<1>7. Good(c, q) /\ Grow(s, c)
  <2>1. c \in KX
    BY <1>6, SetSlot
  <2>2. /\ Same(s, c) /\ c.conn = s.conn /\ c.status = s.status
        /\ c.pubkey = s.pubkey /\ c.pitr = s.pitr /\ c.skm = None
        /\ c.pong = s.pong /\ c.emsg = s.emsg /\ c.dec = s.dec
        /\ c.last = s.last /\ c.retry = s.retry /\ c.session = s.session
        /\ c.keepalive = s.keepalive
    BY <1>6 DEF Same, KX
  <2> HIDE DEF c
  <2>3. Local(c) /\ Agrees(c, q)
    BY <1>6, <2>2 DEF Local, Timers, Tasks, Material, History, Agrees, Same
  <2> QED
    BY <1>6, <2>1, <2>2, <2>3, SameGrow DEF Good
<1> HIDE DEF c
<1>8. Good(r, q) /\ Grow(h, r)
  <2>1. CASE s.skm = None
    BY <1>4, <1>5, <2>1
  <2>2. CASE s.skm # None
    <3>1. s.skm \in SetKeys /\ s.skm.key \in 1 .. q.keys
      BY <1>6, <2>2, FieldTypes DEF Agrees
    <3>2. Good(HandleSetKey(c, s.skm, old), q) /\ Grow(c, HandleSetKey(c, s.skm, old))
      BY <1>7, <3>1, HandleSetKeyGood
    <3>3. Grow(s, HandleSetKey(c, s.skm, old))
      BY <1>6, <1>7, <3>2, GrowTrans DEF Good
    <3>4. Grow(h, HandleSetKey(c, s.skm, old))
      BY <1>0, <1>5, <1>6, <3>2, <3>3, GrowTrans DEF Good
    <3> QED
      BY <2>2, <3>2, <3>4
  <2> QED
    BY <2>1, <2>2
<1> QED
  BY <1>8 DEF ProcessHello, r, c, s, k

(* The end of the iteration and an error preserve the invariant.           *)
LEMMA LookupEndGood ==
  ASSUME NEW h, NEW q \in KX, Good(h, q), h.pitr,
         NEW r \in {ProcessHelloEnd(h), ProcessHelloError(h)}
  PROVE  Good(r, q) /\ Grow(h, r)
<1>0. h \in KX /\ Local(h) /\ Agrees(h, q)
  BY DEF Good
<1>1. PICK v \in {"none", "set_key", "rekey"} :
        /\ r = [h EXCEPT !.pitr = FALSE, !.retry = v]
        /\ v = "set_key" \/ (h.pubkey /\ v = h.retry)
  BY <1>0, FieldTypes DEF ProcessHelloEnd, ProcessHelloError
<1>2. r \in KX
  BY <1>0, <1>1, SetFlag, SetRetry
<1>3. /\ Same(h, r) /\ r.conn = h.conn /\ r.status = h.status
      /\ r.pubkey = h.pubkey /\ r.pitr = FALSE /\ r.skm = h.skm
      /\ r.pong = h.pong /\ r.emsg = h.emsg /\ r.dec = h.dec
      /\ r.last = h.last /\ r.retry = v /\ r.session = h.session
      /\ r.keepalive = h.keepalive
  BY <1>0, <1>1 DEF Same, KX
<1>4. Timers(r) /\ Material(r) /\ History(r) /\ Agrees(r, q)
  BY <1>0, <1>3 DEF Local, Timers, Material, History, Agrees, Same
<1>5. Tasks(r)
  BY <1>0, <1>1, <1>3 DEF Local, Tasks
<1> QED
  BY <1>0, <1>2, <1>3, <1>4, <1>5, SameGrow DEF Good, Local

-----------------------------------------------------------------------------
(* Connecting, disconnecting and the tasks.                                *)

(* A zeroed record, and one that has just started its lookup, is good.     *)
LEMMA StartStopGood ==
  ASSUME NEW h, NEW q \in KX, Good(h, q), NEW r \in {Start(h), Stop(h)}
  PROVE  Good(r, q) /\ Grow(h, r)
<1>0. h \in KX /\ Local(h) /\ Agrees(h, q)
  BY DEF Good
<1>1. h.keys \in Nat /\ h.held \in SUBSET Nat /\ h.out \in SUBSET Messages
  BY <1>0, FieldTypes
<1>2. NoKX(h) \in KX
  BY <1>1 DEF NoKX, KX, States, Bitmaps
<1>3. r \in KX
  BY <1>2, SetFlag DEF Start, Stop
<1>4. /\ r.status = "DOWN" /\ r.pubkey = FALSE /\ r.pitr = r.conn
      /\ r.skm = None /\ r.pong = None /\ r.emsg = None
      /\ r.enc = 0 /\ r.dec = 0 /\ r.last = 0 /\ r.sent = 0
      /\ r.retry = "none" /\ r.keepalive = FALSE /\ r.session = FALSE
      /\ r.keys = h.keys /\ r.held = h.held /\ r.out = h.out
  <2> DEFINE z == NoKX(h)
  <2>1. /\ z.conn = FALSE /\ z.status = "DOWN" /\ z.pubkey = FALSE
        /\ z.pitr = FALSE /\ z.skm = None /\ z.pong = None /\ z.emsg = None
        /\ z.enc = 0 /\ z.dec = 0 /\ z.last = 0 /\ z.sent = 0
        /\ z.retry = "none" /\ z.keepalive = FALSE /\ z.session = FALSE
        /\ z.keys = h.keys /\ z.held = h.held /\ z.out = h.out
    BY DEF NoKX
  <2> HIDE DEF z
  <2>2. CASE r = z
    BY <2>1, <2>2
  <2>3. CASE r = [z EXCEPT !.conn = TRUE, !.pitr = TRUE]
    BY <1>2, <2>1, <2>3 DEF KX, z
  <2> QED
    BY <2>2, <2>3 DEF Start, Stop, z
<1>5. Timers(r) /\ Tasks(r)
  BY <1>4 DEF Timers, Tasks, SessionStates
<1>6. Material(r)
  BY <1>0, <1>1, <1>4 DEF Local, Material
<1>7. History(r)
  <2>1. \A m \in h.out : m.key # 0
    BY <1>0, <1>1 DEF Local, Material
  <2> QED
    BY <1>0, <1>4, <2>1 DEF Local, History
<1>8. Agrees(r, q) /\ Grow(h, r)
  BY <1>0, <1>1, <1>4 DEF Agrees, Grow
<1> QED
  BY <1>3, <1>5, <1>6, <1>7, <1>8 DEF Good, Local

(* Ending a session and starting over preserves the invariant.             *)
LEMMA SessionExpiredGood ==
  ASSUME NEW h, NEW q \in KX, Good(h, q), h.keepalive
  PROVE  Good(SessionExpired(h), q) /\ Grow(h, SessionExpired(h))
<1> DEFINE d == [h EXCEPT !.keepalive = FALSE, !.session = FALSE, !.status = "DOWN"]
<1>0. h \in KX /\ Local(h) /\ Agrees(h, q)
  BY DEF Good
<1>1. d \in KX
  BY <1>0, SetFlag, SetStatus DEF States
<1>2. /\ Same(h, d) /\ d.conn = h.conn /\ d.status = "DOWN"
      /\ d.pubkey = h.pubkey /\ d.pitr = h.pitr /\ d.skm = h.skm
      /\ d.pong = h.pong /\ d.emsg = h.emsg /\ d.dec = h.dec
      /\ d.last = h.last /\ d.retry = h.retry /\ d.session = FALSE
      /\ d.keepalive = FALSE
  BY <1>0 DEF Same, KX
<1>3. SessionExpired(h) = SendKey(d)
  BY DEF SessionExpired
<1> HIDE DEF d
<1>4. Timers(d) /\ BeforeSend(d) /\ History(d) /\ Agrees(d, q)
  BY <1>0, <1>2
  DEF Local, Timers, Material, BeforeSend, History, Agrees, Same, SessionStates
<1>5. Good(SendKey(d), q) /\ Grow(d, SendKey(d))
  BY <1>1, <1>4, SendKeyGood
<1>6. Grow(h, SendKey(d))
  BY <1>0, <1>1, <1>2, <1>5, SameGrow, GrowTrans DEF Good
<1> QED
  BY <1>3, <1>5, <1>6

(* A keep-alive PING preserves the invariant.                              *)
LEMMA SendKeepAliveGood ==
  ASSUME NEW h, NEW q \in KX, Good(h, q), h.keepalive
  PROVE  Good(SendKeepAlive(h), q) /\ Grow(h, SendKeepAlive(h))
<1>1. h.pubkey /\ h.enc \in Nat
  BY FieldTypes DEF Good, Local, Timers, Material, SessionStates
<1>2. Ping(h.enc) \in Pings /\ Ping(h.enc).key = h.enc /\ Ping(h.enc).type = "PING"
  BY <1>1 DEF Ping, Pings
<1> QED
  BY <1>1, <1>2, TransmitGood DEF SendKeepAlive

(* Starting a rekey preserves the invariant.                               *)
LEMMA TriggerRekeyGood ==
  ASSUME NEW h, NEW q \in KX, Good(h, q), h.retry = "rekey"
  PROVE  Good(TriggerRekey(h), q) /\ Grow(h, TriggerRekey(h))
<1> DEFINE r == TriggerRekey(h)
<1>0. h \in KX /\ Local(h) /\ Agrees(h, q)
  BY DEF Good
<1>1. r \in KX
  BY <1>0, SetStatus, SetRetry DEF TriggerRekey, States, SessionStates
<1>2. /\ Same(h, r) /\ r.conn = h.conn /\ r.status = "REKEY"
      /\ r.pubkey = h.pubkey /\ r.pitr = h.pitr /\ r.skm = h.skm
      /\ r.pong = h.pong /\ r.emsg = h.emsg /\ r.dec = h.dec
      /\ r.last = h.last /\ r.retry = "set_key" /\ r.session = h.session
      /\ r.keepalive = h.keepalive
  BY <1>0 DEF TriggerRekey, Same, KX
<1>3. h.status = "UP"
  BY <1>0 DEF Local, Tasks
<1> HIDE DEF r
<1>4. Timers(r) /\ Tasks(r)
  BY <1>0, <1>2, <1>3 DEF Local, Timers, Tasks, Material, SessionStates
<1>5. Material(r) /\ History(r) /\ Agrees(r, q)
  BY <1>0, <1>2, <1>3 DEF Local, Material, History, Agrees, Same
<1> QED
  BY <1>0, <1>1, <1>2, <1>4, <1>5, SameGrow DEF Good, Local, r

(* Sending payload preserves the invariant.                                *)
LEMMA EncryptAndTransmitGood ==
  ASSUME NEW h, NEW q \in KX, Good(h, q), h.session
  PROVE  Good(EncryptAndTransmit(h), q) /\ Grow(h, EncryptAndTransmit(h))
<1> DEFINE s == [h EXCEPT !.sent = h.sent + 1]
           m == Encrypted(h.enc, h.sent + 1)
           r == Transmit(s, {m})
<1>0. h \in KX /\ Local(h) /\ Agrees(h, q)
  BY DEF Good
<1>1. h.sent \in Nat /\ h.sent + 1 \in Nat /\ h.keys \in Nat /\ h.enc \in Nat
  BY <1>0, FieldTypes
<1>2. s \in KX
  BY <1>0, <1>1, SetNumber
<1>3. m \in Messages
  BY <1>1, MessageTypes DEF States
<1>4. r \in KX
  <2> HIDE DEF s, m
  <2> QED
    BY <1>2, <1>3, TransmitType
<1>5. /\ r.conn = h.conn /\ r.status = h.status /\ r.pubkey = h.pubkey
      /\ r.pitr = h.pitr /\ r.skm = h.skm /\ r.ping = h.ping
      /\ r.pong = h.pong /\ r.emsg = h.emsg /\ r.dec = h.dec
      /\ r.retry = h.retry /\ r.session = h.session /\ r.last = h.last
      /\ r.keepalive = h.keepalive
      /\ r.enc = h.enc /\ r.keys = h.keys /\ r.sent = h.sent + 1
      /\ r.held = h.held /\ r.out = h.out \cup {m}
  BY <1>0 DEF Transmit, KX
<1>6. m.type = "ENCRYPTED_MESSAGE" /\ m.key = h.enc /\ m.snum = h.sent + 1
  BY MessageFields
<1>7. EncryptAndTransmit(h) = r
  BY DEF EncryptAndTransmit
<1> HIDE DEF m, r
<1>8. h.enc \in 1 .. h.keys
  BY <1>0, <1>1 DEF Local, Material, Timers, SessionStates
<1>9. Timers(r) /\ Tasks(r)
  BY <1>0, <1>5 DEF Local, Timers, Tasks
<1>10. Material(r)
  BY <1>0, <1>5, <1>6, <1>8 DEF Local, Material
<1>11. History(r)
  <2>1. \A x \in h.out : x.type = "ENCRYPTED_MESSAGE" => x.snum \in Nat
    BY <1>0, FieldTypes, MessageKinds DEF Encrypteds
  <2>2. \A x \in r.out : x.type = "ENCRYPTED_MESSAGE" /\ x.key = r.enc => x.snum <= r.sent
    BY <1>0, <1>1, <1>5, <1>6, <2>1 DEF Local, History
  <2> QED
    BY <1>0, <1>5, <1>6, <2>2 DEF Local, History
<1>12. Agrees(r, q) /\ Grow(h, r)
  BY <1>0, <1>1, <1>5 DEF Agrees, Grow
<1> QED
  BY <1>4, <1>7, <1>9, <1>10, <1>11, <1>12 DEF Good, Local

(* Losing a message preserves the invariant.                               *)
LEMMA LoseGood ==
  ASSUME NEW h, NEW q \in KX, Good(h, q), NEW m
  PROVE  LET r == [h EXCEPT !.out = h.out \ {m}] IN Good(r, q) /\ Grow(h, r)
<1> DEFINE r == [h EXCEPT !.out = h.out \ {m}]
<1>0. h \in KX /\ Local(h) /\ Agrees(h, q)
  BY DEF Good
<1>1. h.out \ {m} \in SUBSET Messages /\ h.keys \in Nat /\ h.sent \in Nat
  BY <1>0, FieldTypes
<1>2. r \in KX
  BY <1>0, <1>1, SetOut
<1>3. /\ r.conn = h.conn /\ r.status = h.status /\ r.pubkey = h.pubkey
      /\ r.pitr = h.pitr /\ r.skm = h.skm /\ r.ping = h.ping
      /\ r.pong = h.pong /\ r.emsg = h.emsg /\ r.dec = h.dec
      /\ r.retry = h.retry /\ r.session = h.session /\ r.last = h.last
      /\ r.keepalive = h.keepalive
      /\ r.enc = h.enc /\ r.keys = h.keys /\ r.sent = h.sent
      /\ r.held = h.held /\ r.out \subseteq h.out
  BY <1>0 DEF KX
<1> HIDE DEF r
<1>4. Local(r)
  BY <1>0, <1>3 DEF Local, Timers, Tasks, Material, History
<1>5. Agrees(r, q) /\ Grow(h, r)
  BY <1>0, <1>1, <1>3 DEF Agrees, Grow
<1> QED
  BY <1>2, <1>4, <1>5 DEF Good, r

-----------------------------------------------------------------------------
(* The two peers.                                                          *)

(* What is sent is genuine.                                                *)
LEMMA SentGenuine ==
  ASSUME NEW h, NEW q, Good(q, h), NEW m \in q.out
  PROVE  Genuine(m, q) /\ m \in Messages
<1>1. q \in KX
  BY DEF Good
<1>2. m \in Messages
  BY <1>1, FieldTypes
<1>3. Genuine(m, q)
  BY DEF Good, Local, Material, History, Genuine
<1> QED
  BY <1>2, <1>3

(* Any message the other peer sent preserves the invariant.                *)
LEMMA HandleGood ==
  ASSUME NEW h, NEW q, Good(h, q), Good(q, h), NEW m \in q.out, NEW old \in BOOLEAN
  PROVE  Good(Handle(h, m, old), q) /\ Grow(h, Handle(h, m, old))
<1>1. q \in KX /\ m \in Messages /\ Genuine(m, q)
  BY SentGenuine DEF Good
<1>2. CASE m.type = "SET_KEY"
  <2>1. m \in SetKeys /\ m.key \in 1 .. q.keys /\ Handle(h, m, old) = HandleSetKey(h, m, old)
    BY <1>1, <1>2, MessageKinds DEF Genuine, Handle
  <2> QED
    BY <1>1, <2>1, HandleSetKeyGood
<1>3. CASE m.type = "PING"
  <2>1. m \in Pings /\ Handle(h, m, old) = HandlePing(h, m)
    BY <1>1, <1>3, MessageKinds DEF Handle
  <2> QED
    BY <1>1, <2>1, HandlePingGood
<1>4. CASE m.type = "PONG"
  <2>1. m \in Pongs /\ q.held # {} /\ Handle(h, m, old) = HandlePong(h, m, old)
    BY <1>1, <1>4, MessageKinds DEF Handle, Genuine
  <2> QED
    BY <1>1, <2>1, HandlePongGood
<1>5. CASE m.type = "ENCRYPTED_MESSAGE"
  <2>1. m \in Encrypteds /\ Handle(h, m, old) = HandleEncryptedMessage(h, m, old)
    BY <1>1, <1>5, MessageKinds DEF Handle
  <2> QED
    BY <1>1, <2>1, HandleEncryptedMessageGood
<1> QED
  BY <1>1, <1>2, <1>3, <1>4, <1>5, MessageKinds

(* A step forward of one peer keeps what the other one knows of it true.   *)
LEMMA AgreesStable ==
  ASSUME NEW h \in KX, NEW r \in KX, NEW q, Good(q, h), Grow(h, r)
  PROVE  Good(q, r)
<1>0. q \in KX /\ Local(q) /\ Agrees(q, h)
  BY DEF Good
<1>1. /\ h.keys \in Nat /\ h.enc \in Nat /\ h.sent \in Nat
      /\ r.keys \in Nat /\ r.enc \in Nat /\ r.sent \in Nat
      /\ q.dec \in Nat /\ q.last \in Nat
  BY <1>0, FieldTypes
<1>2. q.emsg # None => q.emsg.key \in Nat /\ q.emsg.snum \in Nat
  BY <1>0, FieldTypes DEF Encrypteds
<1>3. q.dec # 0 => q.dec \in 1 .. h.keys
  BY <1>0 DEF Local, History, Agrees
<1>4. Agrees(q, r)
  <2>1. /\ q.held \subseteq 1 .. r.keys
        /\ q.skm # None => q.skm.key \in 1 .. r.keys
        /\ q.emsg # None => q.emsg.key \in 1 .. r.keys
    BY <1>0, <1>1 DEF Agrees, Grow
  <2>2. /\ q.pong # None => r.held # {}
        /\ q.session => r.held # {}
    BY <1>0 DEF Agrees, Grow
  <2>3. q.emsg # None /\ q.emsg.key = r.enc => q.emsg.snum <= r.sent
    BY <1>0, <1>1, <1>2 DEF Agrees, Grow
  <2>4. q.dec = r.enc /\ q.dec # 0 => q.last <= r.sent
    BY <1>0, <1>1, <1>3 DEF Agrees, Grow
  <2> QED
    BY <2>1, <2>2, <2>3, <2>4 DEF Agrees
<1> QED
  BY <1>0, <1>4 DEF Good

(* The invariant, peer by peer.                                            *)
LEMMA IInvGood ==
  ASSUME TypeOK
  PROVE  IInv <=> \A p \in Peers : Good(kx[p], kx[Other(p)])
  BY DEF TypeOK, IInv, Good

(* Replacing one record by a good step forward preserves the invariant.    *)
LEMMA DoGood ==
  ASSUME IInv, NEW p \in Peers, NEW r, Do(p, r),
         Good(r, kx[Other(p)]), Grow(kx[p], r)
  PROVE  IInv'
<1> DEFINE o == Other(p)
<1>1. o \in Peers /\ o # p /\ Other(o) = p /\ Peers = {p, o}
  BY PeersAssumption DEF Other, Peers
<1>2. TypeOK /\ kx[p] \in KX /\ r \in KX /\ Good(kx[o], kx[p])
  BY <1>1, IInvGood DEF IInv, TypeOK, Good
<1>3. kx' = [kx EXCEPT ![p] = r] /\ kx \in [Peers -> KX]
  BY <1>2 DEF Do, TypeOK
<1>4. kx'[p] = r /\ kx'[o] = kx[o] /\ TypeOK'
  BY <1>1, <1>2, <1>3 DEF TypeOK
<1>5. Good(kx[o], r)
  BY <1>2, AgreesStable
<1>6. Good(kx'[p], kx'[o]) /\ Good(kx'[o], kx'[p])
  BY <1>4, <1>5
<1> QED
  BY <1>1, <1>4, <1>6 DEF IInv, Good

-----------------------------------------------------------------------------
(* Theorems.                                                               *)

(* The inductive invariant holds initially and is preserved by every step  *)
(* of the two core services and of the channel between them.               *)
THEOREM Invariant == Spec => []IInv
<1>1. Init => IInv
  <2> SUFFICES ASSUME Init PROVE IInv
    OBVIOUS
  <2> DEFINE z == NoKX(Fresh)
  <2>1. z \in KX
    BY DEF NoKX, Fresh, KX, States, Bitmaps
  <2>2. /\ z.status = "DOWN" /\ z.pubkey = FALSE /\ z.pitr = FALSE
        /\ z.conn = FALSE /\ z.skm = None /\ z.pong = None /\ z.emsg = None
        /\ z.enc = 0 /\ z.dec = 0 /\ z.last = 0 /\ z.sent = 0
        /\ z.retry = "none" /\ z.keepalive = FALSE /\ z.session = FALSE
        /\ z.keys = 0 /\ z.held = {} /\ z.out = {}
    BY DEF NoKX, Fresh
  <2>3. kx = [p \in Peers |-> z]
    BY DEF Init
  <2> HIDE DEF z
  <2>4. Local(z) /\ Agrees(z, z)
    BY <2>2 DEF Local, Timers, Tasks, Material, History, Agrees, SessionStates
  <2> QED
    BY <2>1, <2>3, <2>4 DEF IInv, TypeOK, Other, Peers
<1>2. IInv /\ [Next]_vars => IInv'
  <2> SUFFICES ASSUME IInv, [Next]_vars PROVE IInv'
    OBVIOUS
  <2>1. CASE UNCHANGED vars
    BY <2>1 DEF vars, IInv, TypeOK, Local, Timers, Tasks, Material, History, Agrees
  <2>2. CASE Next
    <3>0. PICK p \in Peers :
            \/ Connect(p)
            \/ Disconnect(p)
            \/ \E old \in BOOLEAN : Hello(p, old)
            \/ HelloEnd(p)
            \/ HelloError(p)
            \/ RetrySetKey(p)
            \/ Rekey(p)
            \/ KeepAlive(p)
            \/ Expire(p)
            \/ Payload(p)
            \/ \E m \in kx[Other(p)].out, old \in BOOLEAN : Receive(p, m, old)
            \/ \E m \in kx[p].out : Lose(p, m)
      BY <2>2 DEF Next
    <3> DEFINE h == kx[p]
               q == kx[Other(p)]
    <3>g. Good(h, q) /\ Good(q, h) /\ h \in KX /\ q \in KX
      <4>1. Other(p) \in Peers /\ Other(Other(p)) = p
        BY PeersAssumption DEF Other, Peers
      <4> QED
        BY <4>1 DEF IInv, TypeOK, Good
    <3>1. CASE Connect(p)
      <4>1. Do(p, Start(h))
        BY <3>1 DEF Connect
      <4> QED
        BY <3>g, <4>1, StartStopGood, DoGood
    <3>2. CASE Disconnect(p)
      <4>1. Do(p, Stop(h))
        BY <3>2 DEF Disconnect
      <4> QED
        BY <3>g, <4>1, StartStopGood, DoGood
    <3>3. ASSUME NEW old \in BOOLEAN, Hello(p, old)
          PROVE  IInv'
      <4>1. Do(p, ProcessHello(h, old)) /\ ~h.pubkey
        BY <3>3 DEF Hello
      <4> QED
        BY <3>g, <4>1, ProcessHelloGood, DoGood
    <3>4. CASE HelloEnd(p)
      <4>1. Do(p, ProcessHelloEnd(h)) /\ h.pitr
        BY <3>4 DEF HelloEnd
      <4> QED
        BY <3>g, <4>1, LookupEndGood, DoGood
    <3>5. CASE HelloError(p)
      <4>1. Do(p, ProcessHelloError(h)) /\ h.pitr
        BY <3>5 DEF HelloError
      <4> QED
        BY <3>g, <4>1, LookupEndGood, DoGood
    <3>6. CASE RetrySetKey(p)
      <4>1. Do(p, SendKey(h))
        BY <3>6 DEF RetrySetKey
      <4> QED
        BY <3>g, <4>1, GoodSend, DoGood
    <3>7. CASE Rekey(p)
      <4>1. Do(p, TriggerRekey(h)) /\ h.retry = "rekey"
        BY <3>7 DEF Rekey
      <4> QED
        BY <3>g, <4>1, TriggerRekeyGood, DoGood
    <3>8. CASE KeepAlive(p)
      <4>1. Do(p, SendKeepAlive(h)) /\ h.keepalive
        BY <3>8 DEF KeepAlive
      <4> QED
        BY <3>g, <4>1, SendKeepAliveGood, DoGood
    <3>9. CASE Expire(p)
      <4>1. Do(p, SessionExpired(h)) /\ h.keepalive
        BY <3>9 DEF Expire
      <4> QED
        BY <3>g, <4>1, SessionExpiredGood, DoGood
    <3>10. CASE Payload(p)
      <4>1. Do(p, EncryptAndTransmit(h)) /\ h.session
        BY <3>10 DEF Payload
      <4> QED
        BY <3>g, <4>1, EncryptAndTransmitGood, DoGood
    <3>11. ASSUME NEW m \in q.out, NEW old \in BOOLEAN, Receive(p, m, old)
           PROVE  IInv'
      <4>1. Do(p, Handle(h, m, old))
        BY <3>11 DEF Receive
      <4> QED
        BY <3>g, <4>1, HandleGood, DoGood
    <3>12. ASSUME NEW m \in h.out, Lose(p, m)
           PROVE  IInv'
      <4>1. Do(p, [h EXCEPT !.out = h.out \ {m}])
        BY <3>12 DEF Lose
      <4> QED
        BY <3>g, <4>1, LoseGood, DoGood
    <3> QED
      BY <3>0, <3>1, <3>2, <3>3, <3>4, <3>5, <3>6, <3>7, <3>8, <3>9, <3>10, <3>11, <3>12
  <2> QED
    BY <2>1, <2>2
<1> QED
  BY <1>1, <1>2, PTL DEF Spec

(* The records of both peers stay well formed: every deferred message is   *)
(* kept in the slot of its kind.                                           *)
THEOREM TypeCorrect == Spec => []TypeOK
<1>1. IInv => TypeOK
  BY DEF IInv
<1> QED
  BY <1>1, Invariant, PTL

(* Sessions and keep-alive tasks exist exactly from the first PONG to the  *)
(* timeout or the disconnect.                                              *)
THEOREM SessionTimersHold == Spec => []SessionTimers
<1>1. IInv => SessionTimers
  BY DEF IInv, Local, SessionTimers
<1> QED
  BY <1>1, Invariant, PTL

(* No handshake is ever left without a task or a lookup to continue it.    *)
THEOREM NeverStuckHolds == Spec => []NeverStuck
<1>1. IInv => NeverStuck
  BY DEF IInv, Local, NeverStuck
<1> QED
  BY <1>1, Invariant, PTL

(* No message is made or read with a key that does not exist.              *)
THEOREM KeyMaterialHolds == Spec => []KeyMaterial
<1>1. IInv => KeyMaterial
  BY DEF IInv, Local, KeyMaterial
<1> QED
  BY <1>1, Invariant, PTL

(* No session without a key of ours having reached the peer.               *)
THEOREM SessionConfirmedHolds == Spec => []SessionConfirmed
<1>1. IInv => SessionConfirmed
  <2> SUFFICES ASSUME IInv, NEW p \in Peers, kx[p].session
               PROVE  /\ kx[Other(p)].held # {}
                      /\ kx[Other(p)].held \subseteq 1 .. kx[p].keys
    BY DEF SessionConfirmed
  <2>1. Other(p) \in Peers /\ Other(Other(p)) = p
    BY PeersAssumption DEF Other, Peers
  <2> QED
    BY <2>1 DEF IInv, Agrees
<1> QED
  BY <1>1, Invariant, PTL

(* Where the two ends agree on a key, the window accepts the next message. *)
THEOREM NextAcceptedHolds == Spec => []NextAccepted
<1>1. IInv => NextAccepted
  <2> SUFFICES ASSUME IInv, NEW p \in Peers,
                      kx[p].dec = kx[Other(p)].enc, kx[p].dec # 0
               PROVE  Acceptable(kx[p].last, kx[p].bitmap, kx[Other(p)].sent + 1)
    BY DEF NextAccepted
  <2>1. kx[p] \in KX /\ kx[Other(p)] \in KX
    BY DEF IInv, TypeOK, Other, Peers
  <2>2. kx[p].last \in Nat /\ kx[Other(p)].sent \in Nat
    BY <2>1, FieldTypes
  <2>3. kx[p].last <= kx[Other(p)].sent
    BY DEF IInv, Agrees
  <2>4. kx[p].last < kx[Other(p)].sent + 1 /\ kx[Other(p)].sent + 1 \in Nat
    BY <2>2, <2>3
  <2> QED
    BY <2>2, <2>4, HeadAcceptable
<1> QED
  BY <1>1, Invariant, PTL
=============================================================================
