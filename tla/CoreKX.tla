------------------------------- MODULE CoreKX -------------------------------
(***************************************************************************)
(* The key exchange between the core services of two peers                 *)
(* (gnunet-service-core_kx.c), with the part of NEIGHBOURS that starts and *)
(* stops it and the existence of the session it creates.  Every handler is *)
(* an operator from the record of one peer to its record afterwards,       *)
(* because handlers call each other; the actions apply them to kx[p].      *)
(*                                                                         *)
(* Abstractions.  A session key is its creation time: key n is the n-th    *)
(* key its owner generated, 0 the zeroed key of a fresh record.  A message *)
(* decrypts, and its HMAC verifies, exactly under the key it was made      *)
(* with.  kx->ping_challenge is never assigned in the code, so every PING  *)
(* and PONG carries the challenge 0, which is left out.  The channel from  *)
(* p to its peer (NEIGHBOURS queue and transport) is the set out: it       *)
(* reorders and duplicates, and a message never received is a lost one.    *)
(***************************************************************************)
EXTENDS CoreWindow, FiniteSets

CONSTANTS A, B,        \* the two peers
          MaxKeys,     \* bound: keys each peer generates
          MaxSeq,      \* bound: messages each peer encrypts in one exchange
          Lossy        \* may the channel forget a message (see Lose)?

Peers == {A, B}

ASSUME PeersAssumption  == A # B
ASSUME BoundsAssumption == /\ MaxKeys \in [Peers -> Nat]
                           /\ MaxSeq \in [Peers -> Nat]
                           /\ Lossy \in BOOLEAN

Other(p) == IF p = A THEN B ELSE A

VARIABLE kx   \* kx[p]: p's struct GSC_KeyExchangeInfo for the other peer

-----------------------------------------------------------------------------
(* enum KxStateMachine                                                     *)
SessionStates == {"UP", "REKEY", "REKEY_SENT"}
States == {"DOWN", "KEY_SENT", "KEY_RECEIVED"} \cup SessionStates

None == [type |-> "NONE"]
SetKey(k, s)       == [type |-> "SET_KEY", key |-> k, status |-> s]
Ping(k)            == [type |-> "PING", key |-> k]
Pong(k)            == [type |-> "PONG", key |-> k]
Encrypted(k, snum) == [type |-> "ENCRYPTED_MESSAGE", key |-> k, snum |-> snum]

SetKeys    == [type : {"SET_KEY"}, key : Nat, status : States]
Pings      == [type : {"PING"}, key : Nat]
Pongs      == [type : {"PONG"}, key : Nat]
Encrypteds == [type : {"ENCRYPTED_MESSAGE"}, key : Nat, snum : Nat]
(* The messages of a handshake that generates a single key.                *)
FirstMessages == {SetKey(1, s) : s \in {"KEY_SENT", "KEY_RECEIVED"}} \cup {Ping(1), Pong(1)}

Messages   == SetKeys \cup Pings \cup Pongs \cup Encrypteds

KX == [conn      : BOOLEAN,            \* is there a neighbour entry?
       status    : States,
       pubkey    : BOOLEAN,            \* public_key # NULL
       pitr      : BOOLEAN,            \* pitr # NULL: PEERINFO lookup running
       skm       : SetKeys \cup {None},     \* skm_received
       ping      : Pings \cup {None},       \* ping_received
       pong      : Pongs \cup {None},       \* pong_received
       emsg      : Encrypteds \cup {None},  \* emsg_received
       enc       : Nat,                \* encrypt_key(_created), skm, ping
       dec       : Nat,                \* decrypt_key(_created)
       last      : Nat,                \* last_sequence_number_received
       bitmap    : Bitmaps,            \* last_packets_bitmap
       sent      : Nat,                \* last_sequence_number_sent
       retry     : {"none", "set_key", "rekey"},  \* retry_set_key_task
       keepalive : BOOLEAN,            \* keep_alive_task # NO_TASK
       session   : BOOLEAN,            \* SESSIONS has a session for the peer
       keys      : Nat,                \* clock: keys generated so far
       held      : SUBSET Nat,         \* history: peer keys ever installed
       out       : SUBSET Messages]    \* channel to the other peer

(* GSC_NEIGHBOURS_transmit                                                 *)
Transmit(h, msgs) == [h EXCEPT !.out = @ \cup msgs]

(* setup_fresh_setkey, then setup_fresh_ping                               *)
SetupFreshKey(h) == [h EXCEPT !.enc = h.keys + 1, !.keys = h.keys + 1]

(* Mutant: no retry is scheduled after sending.                            *)
SendKey_NoRetry(h) ==
  LET f == IF h.status \in {"DOWN", "REKEY"} THEN SetupFreshKey(h) ELSE h
      s == IF h.status = "DOWN" THEN "KEY_SENT"
           ELSE IF h.status = "REKEY" THEN "REKEY_SENT" ELSE h.status
  IN  IF h.status = "UP" THEN [h EXCEPT !.retry = "none"]
      ELSE IF ~h.pubkey THEN [h EXCEPT !.retry = "none", !.pitr = TRUE]
      ELSE Transmit([f EXCEPT !.status = s, !.retry = "none"],
                    {SetKey(f.enc, s), Ping(f.enc)})

(* send_key: drop the pending task; nothing to do in state UP; without the *)
(* public key look it up; otherwise (re)send SET_KEY and PING and retry.   *)
SendKey(h) ==
  LET c == [h EXCEPT !.retry = "none"]
      f == CASE h.status = "DOWN"  -> [SetupFreshKey(c) EXCEPT !.status = "KEY_SENT"]
             [] h.status = "REKEY" -> [SetupFreshKey(c) EXCEPT !.status = "REKEY_SENT"]
             [] OTHER              -> c
      s == IF f.status = "REKEY_SENT" THEN "KEY_RECEIVED" ELSE f.status
  IN  IF h.status = "UP" THEN c
      ELSE IF ~h.pubkey THEN [c EXCEPT !.pitr = TRUE]
      ELSE [Transmit(f, {SetKey(f.enc, s), Ping(f.enc)}) EXCEPT !.retry = "set_key"]

(* update_timeout                                                          *)
UpdateTimeout(h) == [h EXCEPT !.keepalive = TRUE]

(* GSC_KX_handle_encrypted_message; old: the timestamp is past             *)
(* MAX_MESSAGE_AGE, which is only looked at after the window was updated.  *)
HandleEncryptedMessage(h, m, old) ==
  LET w == [h EXCEPT !.last = NextLast(h.last, m.snum),
                     !.bitmap = NextBitmap(h.last, h.bitmap, m.snum)]
  IN  IF h.status \notin {"KEY_RECEIVED", "UP", "REKEY_SENT"} THEN h
      ELSE IF h.status = "KEY_RECEIVED" THEN [h EXCEPT !.emsg = m]
      ELSE IF m.key # h.dec \/ ~Acceptable(h.last, h.bitmap, m.snum) THEN h
      ELSE IF old THEN w ELSE UpdateTimeout(w)

(* Mutant: a PING is answered before the peer's key is known.              *)
HandlePing_NoDefer(h, m) == Transmit(h, {Pong(h.enc)})

(* GSC_KX_handle_ping                                                      *)
HandlePing(h, m) ==
  IF h.status \notin {"KEY_RECEIVED", "UP", "REKEY_SENT"} THEN [h EXCEPT !.ping = m]
  ELSE IF m.key # h.dec THEN h
  ELSE Transmit(h, {Pong(h.enc)})

(* GSC_KX_handle_pong in state KEY_RECEIVED: create the session, schedule  *)
(* the rekey, process the message received in the meantime.                *)
SessionUp(h, old) ==
  LET u == [h EXCEPT !.status = "UP", !.session = TRUE, !.retry = "rekey",
                     !.emsg = None]
  IN  UpdateTimeout(IF h.emsg = None THEN u
                    ELSE HandleEncryptedMessage(u, h.emsg, old))

(* Mutant: an early PONG overwrites the deferred PING.                     *)
HandlePong_WrongSlot(h, m, old) ==
  IF h.status \in {"DOWN", "KEY_SENT"} THEN [h EXCEPT !.ping = m]
  ELSE IF m.key # h.dec THEN h
  ELSE SessionUp(h, old)

(* GSC_KX_handle_pong                                                      *)
HandlePong(h, m, old) ==
  IF h.status = "DOWN" THEN h
  ELSE IF h.status = "KEY_SENT" THEN [h EXCEPT !.pong = m]
  ELSE IF m.key # h.dec THEN h
  ELSE CASE h.status = "KEY_RECEIVED" -> SessionUp(h, old)
         [] h.status = "REKEY_SENT" ->
              UpdateTimeout([h EXCEPT !.status = "UP", !.retry = "rekey"])
         [] OTHER -> UpdateTimeout(h)

(* Mutant: the window of the previous key is kept.                         *)
InstallKey_NoReset(h, k) == [h EXCEPT !.dec = k, !.held = @ \cup {k}]

(* GSC_KX_handle_set_key, its three parts: install the key, move the       *)
(* status, process the deferred PING and PONG.                             *)
InstallKey(h, k) ==
  [h EXCEPT !.dec = k,
            !.last = IF h.dec = k THEN @ ELSE 0,
            !.bitmap = IF h.dec = k THEN @ ELSE {},
            !.held = @ \cup {k}]

KeyReceived(h, senderStatus) ==
  IF h.status \in SessionStates
  THEN IF senderStatus \in {"DOWN", "KEY_SENT"} THEN SendKey(h) ELSE h
  ELSE [h EXCEPT !.status = "KEY_RECEIVED"]

ProcessDeferred(h, old) ==
  LET p == IF h.ping = None THEN h
           ELSE HandlePing([h EXCEPT !.ping = None], h.ping)
  IN  IF p.pong = None THEN p
      ELSE HandlePong([p EXCEPT !.pong = None], p.pong, old)

HandleSetKey(h, m, old) ==
  IF ~h.pubkey THEN [h EXCEPT !.skm = m]
  ELSE IF h.status \in {"KEY_RECEIVED", "UP"} /\ m.key < h.dec THEN h
  ELSE ProcessDeferred(KeyReceived(InstallKey(h, m.key), m.status), old)

(* process_hello with a HELLO: take the public key, send ours, process a   *)
(* SET_KEY received in the meantime.                                       *)
ProcessHello(h, old) ==
  LET s == SendKey([h EXCEPT !.pubkey = TRUE])
  IN  IF s.skm = None THEN s
      ELSE HandleSetKey([s EXCEPT !.skm = None], s.skm, old)

(* process_hello at the end of the iteration, and on an error.             *)
ProcessHelloEnd(h) ==
  [h EXCEPT !.pitr = FALSE, !.retry = IF h.pubkey THEN @ ELSE "set_key"]

ProcessHelloError(h) == [h EXCEPT !.pitr = FALSE, !.retry = "set_key"]

(* The zeroed record; the clock, the channel and the history outlive it.   *)
NoKX(h) ==
  [conn |-> FALSE, status |-> "DOWN", pubkey |-> FALSE, pitr |-> FALSE,
   skm |-> None, ping |-> None, pong |-> None, emsg |-> None,
   enc |-> 0, dec |-> 0, last |-> 0, bitmap |-> {}, sent |-> 0,
   retry |-> "none", keepalive |-> FALSE, session |-> FALSE,
   keys |-> h.keys, held |-> h.held, out |-> h.out]

(* handle_transport_notify_connect and GSC_KX_start                        *)
Start(h) == [NoKX(h) EXCEPT !.conn = TRUE, !.pitr = TRUE]

(* handle_transport_notify_disconnect: free_neighbour with GSC_SESSIONS_end *)
(* and GSC_KX_stop                                                         *)
Stop(h) == NoKX(h)

(* Mutant: the timeout forgets GSC_SESSIONS_end.                           *)
SessionExpired_KeepSession(h) ==
  SendKey([h EXCEPT !.keepalive = FALSE, !.status = "DOWN"])

(* send_keep_alive: end the session when it timed out, else send a PING.   *)
SessionExpired(h) ==
  SendKey([h EXCEPT !.keepalive = FALSE, !.session = FALSE, !.status = "DOWN"])

SendKeepAlive(h) == Transmit(h, {Ping(h.enc)})

(* trigger_rekey                                                           *)
TriggerRekey(h) == [h EXCEPT !.status = "REKEY", !.retry = "set_key"]

(* GSC_KX_encrypt_and_transmit                                             *)
EncryptAndTransmit(h) ==
  Transmit([h EXCEPT !.sent = @ + 1], {Encrypted(h.enc, h.sent + 1)})

-----------------------------------------------------------------------------
(* The scheduler of each peer runs one callback at a time, so an action    *)
(* replaces p's record by the result of one handler.  Actions that lead to *)
(* a fresh key stop at MaxKeys.                                            *)
vars == <<kx>>

Fresh == [conn |-> FALSE, keys |-> 0, held |-> {}, out |-> {}]

Init == kx = [p \in Peers |-> NoKX(Fresh)]

Do(p, h) == kx' = [kx EXCEPT ![p] = h]

(* TRANSPORT reports the peer as connected, as disconnected.               *)
Connect(p) ==
  /\ ~kx[p].conn
  /\ kx[p].keys < MaxKeys[p]
  /\ Do(p, Start(kx[p]))

Disconnect(p) ==
  /\ kx[p].conn
  /\ kx[p].keys < MaxKeys[p]
  /\ Do(p, Stop(kx[p]))

(* The callbacks of the PEERINFO iteration.                                *)
Hello(p, old) ==
  /\ kx[p].pitr
  /\ ~kx[p].pubkey
  /\ Do(p, ProcessHello(kx[p], old))

HelloEnd(p) ==
  /\ kx[p].pitr
  /\ Do(p, ProcessHelloEnd(kx[p]))

HelloError(p) ==
  /\ kx[p].pitr
  /\ Do(p, ProcessHelloError(kx[p]))

(* set_key_retry_task                                                      *)
RetrySetKey(p) ==
  /\ kx[p].retry = "set_key"
  /\ Do(p, SendKey(kx[p]))

(* trigger_rekey                                                           *)
Rekey(p) ==
  /\ kx[p].retry = "rekey"
  /\ kx[p].keys < MaxKeys[p]
  /\ Do(p, TriggerRekey(kx[p]))

(* send_keep_alive, before and after the timeout.                          *)
KeepAlive(p) ==
  /\ kx[p].keepalive
  /\ Do(p, SendKeepAlive(kx[p]))

Expire(p) ==
  /\ kx[p].keepalive
  /\ kx[p].keys < MaxKeys[p]
  /\ Do(p, SessionExpired(kx[p]))

(* SESSIONS transmits a batch of payload.                                  *)
Payload(p) ==
  /\ kx[p].session
  /\ kx[p].sent < MaxSeq[p]
  /\ Do(p, EncryptAndTransmit(kx[p]))

(* handle_transport_receive.  The message stays in the channel: it may be  *)
(* delivered again.                                                        *)
Handle(h, m, old) ==
  CASE m.type = "SET_KEY"           -> HandleSetKey(h, m, old)
    [] m.type = "PING"              -> HandlePing(h, m)
    [] m.type = "PONG"              -> HandlePong(h, m, old)
    [] m.type = "ENCRYPTED_MESSAGE" -> HandleEncryptedMessage(h, m, old)

Receive(p, m, old) ==
  /\ kx[p].conn
  /\ m \in kx[Other(p)].out
  /\ Do(p, Handle(kx[p], m, old))

(* The channel loses a message for good.  For safety this adds nothing (a  *)
(* message need not be received); for liveness it does.                    *)
Lose(p, m) ==
  /\ Lossy
  /\ m \in kx[p].out
  /\ Do(p, [kx[p] EXCEPT !.out = @ \ {m}])

Next ==
  \E p \in Peers :
    \/ Connect(p)
    \/ Disconnect(p)
    \/ \E old \in BOOLEAN : Hello(p, old)
    \/ HelloEnd(p)
    \/ HelloError(p)
    \/ RetrySetKey(p)
    \/ Rekey(p)
    \/ KeepAlive(p)
    \/ Expire(p)
    \/ Payload(p)
    \/ \E m \in kx[Other(p)].out, old \in BOOLEAN : Receive(p, m, old)
    \/ \E m \in kx[p].out : Lose(p, m)

Spec == Init /\ [][Next]_vars

(* Fairness.  Transport connects eventually; PEERINFO answers an iteration *)
(* with a HELLO eventually; the scheduler runs a due task; a message that  *)
(* is sent again and again is received eventually.                         *)
Fairness ==
  \A p \in Peers :
    /\ WF_vars(Connect(p))
    /\ SF_vars(\E old \in BOOLEAN : Hello(p, old))
    /\ WF_vars(RetrySetKey(p))
    /\ \A m \in FirstMessages : SF_vars(\E old \in BOOLEAN : Receive(p, m, old))

FairSpec == Spec /\ Fairness

-----------------------------------------------------------------------------
(* Properties.                                                             *)

(* The records stay well formed; in particular a slot for a deferred       *)
(* message only ever holds a message of its kind.                          *)
TypeOK == kx \in [Peers -> KX]

(* SESSIONS has a session for the peer, and a keep-alive task runs, in the *)
(* states UP, REKEY and REKEY_SENT and in no other: the assertion in       *)
(* GSC_KX_handle_pong that no keep-alive task runs yet never fails, and    *)
(* GSC_SESSIONS_create is never called for an existing session.            *)
Timers(h) ==
  /\ h.session <=> h.status \in SessionStates
  /\ h.keepalive <=> h.session

SessionTimers == \A p \in Peers : Timers(kx[p])

(* A handshake that is not complete always has something that continues    *)
(* it (a PEERINFO lookup or a retry task), a rekey task only exists in     *)
(* state UP (the check in trigger_rekey), and process_hello's assertion    *)
(* that no task is pending while the public key is looked up holds.        *)
Tasks(h) ==
  /\ h.conn /\ ~h.pubkey => h.pitr \/ h.retry = "set_key"
  /\ h.pubkey /\ h.status # "UP" => h.retry = "set_key"
  /\ h.retry = "rekey" => h.status = "UP"
  /\ h.pitr /\ ~h.pubkey => h.retry = "none"

NeverStuck == \A p \in Peers : Tasks(kx[p])

(* Nothing is encrypted or decrypted with a key that does not exist: once  *)
(* past DOWN there is a public key and a key of our own, from KEY_RECEIVED *)
(* on a key of the peer, and every message was made with a key its sender  *)
(* generated.                                                              *)
Material(h) ==
  /\ h.pubkey <=> h.status # "DOWN"
  /\ h.enc \in 0 .. h.keys
  /\ h.pubkey => h.enc # 0
  /\ h.status \notin {"DOWN", "KEY_SENT"} => h.dec # 0
  /\ \A m \in h.out : m.key \in 1 .. h.keys

KeyMaterial == \A p \in Peers : Material(kx[p])

(* A session only exists if the peer has, or had, a key of ours; with only *)
(* one key generated so far, the very key we encrypt with.                 *)
SessionConfirmed ==
  \A p \in Peers : kx[p].session =>
    /\ kx[Other(p)].held # {}
    /\ kx[Other(p)].held \subseteq 1 .. kx[p].keys

(* When the two ends agree on a key, the window accepts the next message   *)
(* its owner will encrypt, whatever was reordered, duplicated, or reset by *)
(* a rekey, a timeout or a reconnect before.                               *)
NextAccepted ==
  \A p \in Peers : LET h == kx[p]  q == kx[Other(p)] IN
    h.dec = q.enc /\ h.dec # 0 => Acceptable(h.last, h.bitmap, q.sent + 1)

(* Both ends come up and stay up, although every message may be lost,      *)
(* duplicated and reordered (checked with one key for each peer: neither   *)
(* reconnects, rekeys or times out).                                       *)
Converges == <>[](\A p \in Peers : kx[p].status = "UP")

(* The inductive invariant: what one record says by itself, and what it    *)
(* says of the record q of the other peer.                                 *)
History(h) ==
  /\ h.dec # 0 => h.dec \in h.held
  /\ \A m \in h.out : m.type = "PONG" => h.held # {}
  /\ \A m \in h.out : m.type = "ENCRYPTED_MESSAGE" /\ m.key = h.enc => m.snum <= h.sent

Local(h) == Timers(h) /\ Tasks(h) /\ Material(h) /\ History(h)

Agrees(h, q) ==
  /\ h.held \subseteq 1 .. q.keys
  /\ h.skm # None => h.skm.key \in 1 .. q.keys
  /\ h.pong # None => q.held # {}
  /\ h.session => q.held # {}
  /\ h.emsg # None => /\ h.emsg.key \in 1 .. q.keys
                      /\ h.emsg.key = q.enc => h.emsg.snum <= q.sent
  /\ h.dec = q.enc /\ h.dec # 0 => h.last <= q.sent

IInv ==
  /\ TypeOK
  /\ \A p \in Peers : Local(kx[p]) /\ Agrees(kx[p], kx[Other(p)])

=============================================================================
