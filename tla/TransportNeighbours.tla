------------------------ MODULE TransportNeighbours ------------------------
(***************************************************************************)
(* The state machine that the transport service keeps for each neighbour   *)
(* (gnunet-service-transport_neighbours.c): how a connection is set up,    *)
(* moved to another session, repaired and torn down while the peer, ATS,   *)
(* the blacklist and the plugins act in any order.                         *)
(*                                                                         *)
(* Abstractions.  Entries of different peers share only counters, so there *)
(* is one peer; state "NONE" is a peer without an entry.  An address is    *)
(* the session that was obtained for it.  A timestamp is whether it        *)
(* matches (CONNECT_ACK) or is new enough (DISCONNECT), which the peer     *)
(* decides.  ATS assigns zero bandwidth in both directions or in none, so  *)
(* quotas never disconnect from inside another handler.  A blacklist check *)
(* that is answered at once is one that is answered in the next step: the  *)
(* call is the last one of every handler that makes it.  Messages have the *)
(* same size, one unit of bytes_in_send_queue.  The functions that only    *)
(* send or report (keepalive, latency, iterate) change no state.           *)
(***************************************************************************)
EXTENDS Integers, FiniteSets, FiniteSetsExt

CONSTANTS Sessions,
          Transport,    \* Transport[s]: the plugin that s belongs to
          NoSession,
          MaxChecks,    \* bound: pending blacklist checks of a session
          MaxBytes      \* bound: bytes_in_send_queue

ASSUME SessionAssumption == NoSession \notin Sessions /\ IsFiniteSet(Sessions)
ASSUME TransportAssumption == DOMAIN Transport = Sessions
ASSUME BoundAssumption == MaxChecks \in Nat \ {0} /\ MaxBytes \in Nat

VARIABLES state,
          primary,      \* the session of primary_address
          active,       \* ats_active of primary_address
          alternative,  \* the session of alternative_address, never ats_active
          ack,          \* send_connect_ack
          timeout,      \* the timeout that runs, or "passed"
          expect,       \* expect_latency_response
          queued,       \* messages in the queue
          is_active,    \* the session that holds the active message
          held,         \* held[s]: messages that the plugin holds for s
          bytes,        \* bytes_in_send_queue
          checks,       \* checks[s]: pending blacklist checks of s
          alive,        \* sessions that the plugins have
          approved,     \* sessions that the blacklist allowed at least once
          neighbours_connected,
          inUse         \* sessions that ATS was told are in use

entry == <<state, primary, active, alternative, ack, timeout, expect, queued, is_active>>
vars == <<entry, held, bytes, checks, alive, approved, neighbours_connected, inUse>>

Unanswered == {"INIT_ATS", "INIT_BLACKLIST", "CONNECT_RECV_BLACKLIST_INBOUND",
               "CONNECT_RECV_ATS", "CONNECT_RECV_BLACKLIST"}

Handshaking == {"CONNECT_SENT", "CONNECT_RECV_ACK"}

Switching == {"CONNECTED_SWITCHING_BLACKLIST", "CONNECTED_SWITCHING_CONNECT_SENT"}

Reconnecting == {"RECONNECT_ATS", "RECONNECT_BLACKLIST", "RECONNECT_SENT"}

Up == {"CONNECTED"} \cup Switching

Connected == Up \cup Reconnecting

States == {"NONE", "DISCONNECT"} \cup Unanswered \cup Handshaking \cup Connected

(* "wait" is the timeout for ATS, the blacklist or the handshake, "fast"   *)
(* the one of a reconnect, "idle" the one of a connection.                 *)
Timeouts == {"passed", "wait", "fast", "idle"}

TypeOK ==
  /\ state \in States
  /\ primary \in Sessions \cup {NoSession}
  /\ active \in BOOLEAN
  /\ alternative \in Sessions \cup {NoSession}
  /\ ack \in 0 .. 2
  /\ timeout \in Timeouts
  /\ expect \in BOOLEAN
  /\ queued \in 0 .. MaxBytes
  /\ is_active \in Sessions \cup {NoSession}
  /\ held \in [Sessions -> 0 .. MaxBytes]
  /\ bytes \in 0 .. MaxBytes
  /\ checks \in [Sessions -> 0 .. MaxChecks]
  /\ alive \subseteq Sessions
  /\ approved \subseteq alive
  /\ neighbours_connected \in 0 .. 1
  /\ inUse \subseteq Sessions

Init ==
  /\ state = "NONE"
  /\ primary = NoSession
  /\ active = FALSE
  /\ alternative = NoSession
  /\ ack = 0
  /\ timeout = "passed"
  /\ expect = FALSE
  /\ queued = 0
  /\ is_active = NoSession
  /\ held = [s \in Sessions |-> 0]
  /\ bytes = 0
  /\ checks = [s \in Sessions |-> 0]
  /\ alive = {}
  /\ approved = {}
  /\ neighbours_connected = 0
  /\ inUse = {}

-----------------------------------------------------------------------------
(* The functions of the service call each other, so each is an operator on *)
(* a record of the whole state; an action applies one of them to State.    *)

State ==
  [state |-> state, primary |-> primary, active |-> active, alternative |-> alternative,
   ack |-> ack, timeout |-> timeout, expect |-> expect, queued |-> queued,
   is_active |-> is_active, held |-> held, bytes |-> bytes, checks |-> checks,
   alive |-> alive, approved |-> approved,
   neighbours_connected |-> neighbours_connected, inUse |-> inUse]

Becomes(next) ==
  \E n \in {next} :
    /\ state' = n.state
    /\ primary' = n.primary
    /\ active' = n.active
    /\ alternative' = n.alternative
    /\ ack' = n.ack
    /\ timeout' = n.timeout
    /\ expect' = n.expect
    /\ queued' = n.queued
    /\ is_active' = n.is_active
    /\ held' = n.held
    /\ bytes' = n.bytes
    /\ checks' = n.checks
    /\ alive' = n.alive
    /\ approved' = n.approved
    /\ neighbours_connected' = n.neighbours_connected
    /\ inUse' = n.inUse

Enter(n, st, time) == [n EXCEPT !.state = st, !.timeout = time]

FreeAddress(n) ==
  [n EXCEPT !.primary = NoSession,
            !.active = FALSE,
            !.inUse = IF n.active THEN @ \ {n.primary} ELSE @]

SetAddress(n, s, act) ==
  LET f == IF s = n.primary THEN n ELSE FreeAddress(n)
  IN  [f EXCEPT !.primary = s,
                !.active = act,
                !.inUse = IF act THEN @ \cup {s} ELSE IF f.active THEN @ \ {s} ELSE @]

(* The bytes of the messages that the plugin holds for some sessions.      *)
HeldFor(n, ss) == MapThenSumSet(LAMBDA s : n.held[s], ss)

(* The plugin ends its sessions with the peer: it fails their messages and *)
(* session_terminated cancels their blacklist checks, while the entry has  *)
(* no address any more and is still in the map.                            *)
PluginDisconnect(n, ended) ==
  [n EXCEPT !.alive = @ \ ended,
            !.approved = @ \ ended,
            !.checks = [s \in Sessions |-> IF s \in ended THEN 0 ELSE @[s]],
            !.held = [s \in Sessions |-> IF s \in ended THEN 0 ELSE @[s]],
            !.bytes = @ - HeldFor(n, ended)]

(* Mutant: the bytes of failed messages are returned, of the active one too. *)
Forgotten_Return(n) ==
  [FreeAddress(n) EXCEPT !.state = "NONE",
                         !.alternative = NoSession,
                         !.ack = 0,
                         !.timeout = "passed",
                         !.expect = FALSE,
                         !.queued = 0,
                         !.is_active = NoSession,
                         !.bytes = @ - n.queued - (IF n.is_active = NoSession THEN 0 ELSE 1),
                         !.neighbours_connected = IF n.state \in Connected THEN @ - 1 ELSE @]

(* The peer without its entry.  Messages in the queue are failed, which    *)
(* does not return their bytes.                                            *)
Forgotten(n) ==
  [FreeAddress(n) EXCEPT !.state = "NONE",
                         !.alternative = NoSession,
                         !.ack = 0,
                         !.timeout = "passed",
                         !.expect = FALSE,
                         !.queued = 0,
                         !.is_active = NoSession,
                         !.neighbours_connected = IF n.state \in Connected THEN @ - 1 ELSE @]

FreeNeighbour(n, keep) ==
  PluginDisconnect(Forgotten(n),
                   {s \in n.alive : /\ n.primary # NoSession
                                    /\ ~keep
                                    /\ Transport[s] = Transport[n.primary]})

(* Mutant: clients are told only when a DISCONNECT is sent.                *)
DisconnectNeighbour_Sent(n) ==
  CASE n.state \in Unanswered -> FreeNeighbour(n, FALSE)
    [] n.state = "DISCONNECT" -> n
    [] OTHER -> [n EXCEPT !.state = "DISCONNECT",
                          !.neighbours_connected =
                             IF n.state \in Connected \ {"RECONNECT_ATS"} THEN @ - 1 ELSE @]

(* DISCONNECT is sent in every state that sent CONNECT or CONNECT_ACK and  *)
(* has a session.                                                          *)
DisconnectNeighbour(n) ==
  CASE n.state \in Unanswered -> FreeNeighbour(n, FALSE)
    [] n.state = "DISCONNECT" -> n
    [] OTHER -> [n EXCEPT !.state = "DISCONNECT",
                          !.neighbours_connected =
                             IF n.state \in Connected THEN @ - 1 ELSE @]

CheckBlacklist(n, s) == [n EXCEPT !.checks[s] = @ + 1, !.alive = @ \cup {s}]

(* A session that the plugin has, or a new one once the plugin is done     *)
(* with the one before it in the same place.                               *)
Obtainable(s) == s \in alive \/ held[s] = 0

-----------------------------------------------------------------------------
(* Requests of clients.                                                    *)

TryConnect ==
  /\ state \in {"NONE", "DISCONNECT"}
  /\ Becomes(Enter(FreeNeighbour(State, FALSE), "INIT_ATS", "wait"))

(* GST_neighbours_send runs the master task unless there is a transmission.*)
Send ==
  /\ state \in Connected
  /\ bytes < MaxBytes
  /\ queued' = queued + 1
  /\ bytes' = bytes + 1
  /\ UNCHANGED <<state, primary, active, alternative, ack, timeout, expect, is_active,
                 held, checks, alive, approved, neighbours_connected, inUse>>

(* A client, ATS with no bandwidth, or a valid DISCONNECT of the peer.     *)
Disconnect ==
  /\ state \notin {"NONE", "DISCONNECT"}
  /\ Becomes(DisconnectNeighbour(State))

-----------------------------------------------------------------------------
(* Messages of the peer.  The peer is told CONNECT_ACK at once in a state  *)
(* of Up.                                                                  *)

(* Mutant: a CONNECT grants a new timeout.                                 *)
HandleConnect_Restart(s) ==
  /\ checks[s] < MaxChecks
  /\ Obtainable(s)
  /\ state # "DISCONNECT"
  /\ LET n == [State EXCEPT !.ack = IF state \in Up THEN 0 ELSE 1,
                            !.timeout = "wait",
                            !.state = IF state \in {"NONE", "INIT_ATS"}
                                      THEN "CONNECT_RECV_BLACKLIST_INBOUND" ELSE @]
     IN  Becomes(CheckBlacklist(n, s))

HandleConnect(s) ==
  /\ checks[s] < MaxChecks
  /\ Obtainable(s)
  /\ state # "DISCONNECT"
  /\ LET n == [State EXCEPT !.ack = IF state \in Up THEN 0 ELSE 1,
                            !.state = IF state \in {"NONE", "INIT_ATS"}
                                      THEN "CONNECT_RECV_BLACKLIST_INBOUND" ELSE @]
     IN  Becomes(CheckBlacklist(n, s))

(* The new entry has send_connect_ack and timeout zero.                    *)
HandleConnectDisconnecting(s) ==
  /\ state = "DISCONNECT"
  /\ Obtainable(s)
  /\ Becomes([Enter(FreeNeighbour(State, TRUE), "CONNECT_RECV_ATS", "passed")
                EXCEPT !.alive = @ \cup {s}])

Establish(n) ==
  SetAddress([Enter(n, "CONNECTED", "idle") EXCEPT !.neighbours_connected = @ + 1],
             n.primary, TRUE)

(* The answer to the latest CONNECT, or a late one: only CONNECT_SENT      *)
(* compares the timestamp.                                                 *)
HandleConnectAck ==
  \/ state = "CONNECT_SENT" /\ Becomes(Establish(State))
  \/ state = "RECONNECT_SENT" /\ Becomes([State EXCEPT !.state = "CONNECTED"])
  \/ /\ state = "CONNECTED_SWITCHING_CONNECT_SENT"
     /\ Becomes([SetAddress(Enter(State, "CONNECTED", "idle"), alternative, TRUE)
                   EXCEPT !.alternative = NoSession])

(* Mutant: the state is not looked at.                                     *)
HandleSessionAck_Any ==
  /\ primary \in alive
  /\ ack = 2
  /\ Becomes(Establish(State))

HandleSessionAck ==
  /\ state \in Handshaking
  /\ ack = 2
  /\ Becomes(Establish(State))

KeepaliveResponse ==
  /\ state = "CONNECTED"
  /\ expect
  /\ Becomes([State EXCEPT !.expect = FALSE, !.timeout = "idle"])

-----------------------------------------------------------------------------
(* ATS.                                                                    *)

(* Where a suggestion of ATS for a session takes the entry.                *)
Suggested(n, s) ==
  CASE n.state \in {"INIT_ATS", "INIT_BLACKLIST", "CONNECT_SENT"} ->
         Enter(SetAddress(n, s, FALSE), "INIT_BLACKLIST", "wait")
    [] n.state \in {"CONNECT_RECV_ATS", "CONNECT_RECV_BLACKLIST"} ->
         Enter(SetAddress(n, s, FALSE), "CONNECT_RECV_BLACKLIST", "wait")
    [] n.state = "CONNECT_RECV_BLACKLIST_INBOUND" -> Enter(n, n.state, "wait")
    [] n.state = "CONNECT_RECV_ACK" -> Enter(SetAddress(n, s, FALSE), n.state, "wait")
    [] n.state \in Reconnecting ->
         Enter(SetAddress(n, s, FALSE), "RECONNECT_BLACKLIST", "wait")
    [] n.state \in Up ->
         [n EXCEPT !.alternative = s, !.state = "CONNECTED_SWITCHING_BLACKLIST"]

SwitchToAddress(s) ==
  /\ state \notin {"NONE", "DISCONNECT"}
  /\ Obtainable(s)
  /\ \/ /\ state = "CONNECTED" /\ s = primary
        /\ Becomes(SetAddress(State, s, TRUE))
     \/ /\ state \in Switching /\ s = primary
        /\ Becomes([State EXCEPT !.alternative = NoSession, !.state = "CONNECTED"])
     \/ /\ ~(state \in Up /\ s = primary)
        /\ checks[s] < MaxChecks
        /\ Becomes(CheckBlacklist(Suggested(State, s), s))

-----------------------------------------------------------------------------
(* The blacklist.                                                          *)

(* A CONNECT_ACK that waits goes out once any session was allowed, in the  *)
(* states that have a use for it.                                          *)
AckPending(n, ok) ==
  [n EXCEPT !.ack = IF ok /\ @ = 1 /\ n.state \in
                         Handshaking \cup {"INIT_BLACKLIST", "RECONNECT_BLACKLIST",
                         "RECONNECT_SENT", "CONNECTED_SWITCHING_CONNECT_SENT"}
                    THEN 2 ELSE @]

(* Mutant: a result counts for whatever session is current.                *)
AddressMatches_Any(s, session) == session # NoSession

AddressMatches(s, session) == s = session

Allowed(n, s) ==
  CASE n.state = "INIT_BLACKLIST" /\ AddressMatches(s, n.primary) ->
         Enter(n, "CONNECT_SENT", "wait")
    [] n.state = "CONNECT_RECV_BLACKLIST" /\ AddressMatches(s, n.primary) ->
         [Enter(n, "CONNECT_RECV_ACK", "wait") EXCEPT !.ack = IF @ = 1 THEN 2 ELSE @]
    [] n.state = "RECONNECT_BLACKLIST" /\ AddressMatches(s, n.primary) ->
         Enter(n, "RECONNECT_SENT", "fast")
    [] n.state = "CONNECTED_SWITCHING_BLACKLIST" /\ AddressMatches(s, n.alternative) ->
         [n EXCEPT !.state = "CONNECTED_SWITCHING_CONNECT_SENT"]
    [] OTHER -> n

Forbidden(n, s) ==
  CASE n.state \in {"INIT_BLACKLIST", "CONNECT_RECV_BLACKLIST"}
       /\ AddressMatches(s, n.primary) -> Enter(FreeAddress(n), "INIT_ATS", "wait")
    [] n.state = "RECONNECT_BLACKLIST" /\ AddressMatches(s, n.primary) ->
         Enter(n, "RECONNECT_ATS", "wait")
    [] n.state = "CONNECTED_SWITCHING_BLACKLIST" /\ AddressMatches(s, n.alternative) ->
         [n EXCEPT !.alternative = NoSession, !.state = "CONNECTED"]
    [] OTHER -> n

HandleTestBlacklistCont(s, ok) ==
  /\ checks[s] > 0
  /\ LET n == AckPending([State EXCEPT !.checks[s] = @ - 1,
                                       !.approved = IF ok THEN @ \cup {s} ELSE @], ok)
     IN  Becomes(CASE n.state = "CONNECT_RECV_BLACKLIST_INBOUND" ->
                        Enter(n, "CONNECT_RECV_ATS", "wait")
                   [] n.state # "CONNECT_RECV_BLACKLIST_INBOUND" /\ ok -> Allowed(n, s)
                   [] OTHER -> Forbidden(n, s))

-----------------------------------------------------------------------------
(* The plugins.                                                            *)

(* Mutant: the checks of a session survive it.                             *)
CancelChecks_None(n, s) == n

CancelChecks(n, s) == [n EXCEPT !.checks[s] = 0]

(* Mutant: the primary session is overwritten before it is freed.          *)
AdoptAlternative_Overwrite(n) ==
  [n EXCEPT !.primary = n.alternative, !.active = FALSE, !.alternative = NoSession]

AdoptAlternative(n) ==
  [FreeAddress(n) EXCEPT !.primary = n.alternative, !.alternative = NoSession]

(* Where the end of the primary session takes the entry.                   *)
PrimaryLost(n) ==
  CASE n.state \in {"INIT_BLACKLIST", "CONNECT_SENT"} ->
         Enter(FreeAddress(n), "INIT_ATS", "wait")
    [] n.state \in {"CONNECT_RECV_BLACKLIST", "CONNECT_RECV_ACK"} ->
         FreeNeighbour(FreeAddress(n), FALSE)
    [] n.state = "CONNECTED" -> Enter(FreeAddress(n), "RECONNECT_ATS", "wait")
    [] n.state \in {"RECONNECT_BLACKLIST", "RECONNECT_SENT"} ->
         Enter(n, "RECONNECT_ATS", "wait")
    [] n.state = "CONNECTED_SWITCHING_BLACKLIST" ->
         Enter(AdoptAlternative(n), "RECONNECT_BLACKLIST", "fast")
    [] n.state = "CONNECTED_SWITCHING_CONNECT_SENT" ->
         Enter(AdoptAlternative(n), "RECONNECT_SENT", "fast")
    [] n.state = "DISCONNECT" -> FreeAddress(n)
    [] OTHER -> n

(* session_terminated: the plugin ends a session and then, or before,      *)
(* answers the messages it holds for it.                                   *)
SessionTerminated(s) ==
  /\ s \in alive
  /\ LET n == CancelChecks([State EXCEPT !.alive = @ \ {s}, !.approved = @ \ {s}], s)
     IN  Becomes(CASE s = primary -> PrimaryLost([n EXCEPT !.expect = FALSE])
                   [] s # primary /\ s = alternative ->
                        [n EXCEPT !.alternative = NoSession,
                                  !.state = IF @ \in Switching THEN "CONNECTED" ELSE @]
                   [] OTHER -> n)

(* transmit_send_continuation: an entry that is gone takes the answer      *)
(* along; a new entry takes it for a message of the one before.            *)
TransmitSendContinuation(s) ==
  /\ held[s] > 0
  /\ held' = [held EXCEPT ![s] = @ - 1]
  /\ bytes' = IF state = "NONE" THEN bytes ELSE bytes - 1
  /\ \/ s = is_active /\ is_active' = NoSession
     \/ held[s] > (IF s = is_active THEN 1 ELSE 0) /\ UNCHANGED is_active
  /\ UNCHANGED <<state, primary, active, alternative, ack, timeout, expect, queued,
                 checks, alive, approved, neighbours_connected, inUse>>

-----------------------------------------------------------------------------
(* Time.                                                                   *)

TimeoutPasses ==
  /\ state # "NONE"
  /\ timeout # "passed"
  /\ Becomes([State EXCEPT !.timeout = "passed"])

(* master_task of an entry whose timeout passed.                           *)
MasterExpired ==
  /\ state \notin {"NONE", "DISCONNECT"}
  /\ timeout = "passed"
  /\ Becomes(DisconnectNeighbour(State))

MasterDisconnect ==
  /\ state = "DISCONNECT"
  /\ Becomes(FreeNeighbour(State, FALSE))

(* Messages at the head of the queue whose time is over are failed; the    *)
(* next one goes to the plugin.                                            *)
TryTransmission(n, late) ==
  LET left == n.queued - late
      kept == [n EXCEPT !.queued = left, !.bytes = @ - late]
  IN  IF n.is_active # NoSession THEN n
      ELSE IF left = 0 THEN kept
      ELSE [kept EXCEPT !.queued = left - 1,
                        !.is_active = n.primary,
                        !.held[n.primary] = @ + 1]

SendKeepalive(n, due) == [n EXCEPT !.expect = @ \/ due]

MasterConnected ==
  /\ state \in Up
  /\ timeout # "passed"
  /\ \E late \in 0 .. queued, due \in BOOLEAN :
       Becomes(SendKeepalive(TryTransmission(State, late), due))

Next ==
  \/ TryConnect
  \/ Send
  \/ Disconnect
  \/ \E s \in Sessions :
       \/ HandleConnect(s)
       \/ HandleConnectDisconnecting(s)
       \/ SwitchToAddress(s)
       \/ SessionTerminated(s)
       \/ TransmitSendContinuation(s)
       \/ \E ok \in BOOLEAN : HandleTestBlacklistCont(s, ok)
  \/ HandleConnectAck
  \/ HandleSessionAck
  \/ KeepaliveResponse
  \/ TimeoutPasses
  \/ MasterExpired
  \/ MasterDisconnect
  \/ MasterConnected

Spec == Init /\ [][Next]_vars

(* The scheduler runs the master task of every entry: at once after most   *)
(* events, else when the timeout that it saw last is over.  ATS stops      *)
(* suggesting sessions at some point: every suggestion grants a new        *)
(* timeout.                                                                *)
FairSpec ==
  /\ Spec
  /\ WF_vars(TimeoutPasses)
  /\ WF_vars(MasterExpired)
  /\ WF_vars(MasterDisconnect)
  /\ <>[][~\E s \in Sessions : SwitchToAddress(s)]_vars

-----------------------------------------------------------------------------
(* Properties.                                                             *)

(* Clients are told of a connection exactly while test_connected holds,    *)
(* once for each time it begins and ends, whatever path the entry takes    *)
(* through reconnects, switches and disconnects.                           *)
NotifiedOnce == neighbours_connected = (IF state \in Connected THEN 1 ELSE 0)

(* A message or a check never uses a session that its plugin has ended:    *)
(* the primary session of an entry that has or awaits a connection is      *)
(* alive, so is the session it switches to, and so is every session whose  *)
(* blacklist check is pending.  RECONNECT_ATS and DISCONNECT do not send.  *)
SessionsUsable ==
  /\ state \in Up \cup Handshaking \cup {"INIT_BLACKLIST", "CONNECT_RECV_BLACKLIST",
        "RECONNECT_BLACKLIST", "RECONNECT_SENT"} => primary \in alive
  /\ state \in Switching => alternative \in alive \ {primary}
  /\ state \in {"NONE", "INIT_ATS", "CONNECT_RECV_BLACKLIST_INBOUND", "CONNECT_RECV_ATS"}
       => primary = NoSession
  /\ alternative # NoSession => state \in Switching \cup {"DISCONNECT"}
  /\ \A s \in Sessions : checks[s] > 0 => s \in alive

(* ATS believes a session in use only while the entry says so, and the     *)
(* session exists: every end of a session or an entry tells ATS.           *)
AtsAgrees ==
  /\ inUse = (IF active THEN {primary} ELSE {})
  /\ inUse \subseteq alive
  /\ active => state \in Up \cup {"DISCONNECT"}

(* CONNECT goes out over a session only after the blacklist allowed that   *)
(* session, not one that ATS has suggested before it.                      *)
ApprovedFirst ==
  /\ state \in {"CONNECT_SENT", "RECONNECT_SENT"} => primary \in approved
  /\ state = "CONNECTED_SWITCHING_CONNECT_SENT" => alternative \in approved

(* bytes_in_send_queue covers every message that is in the queue or with   *)
(* the plugin, so transmit_send_continuation never takes off more than     *)
(* there is.                                                               *)
BytesCover == bytes >= queued + HeldFor(State, Sessions)

(* An attempt to connect, to repair a connection or to disconnect ends:    *)
(* the peer is connected or forgotten.                                     *)
Settles == state \notin Up \cup {"NONE"} ~> state \in Up \cup {"NONE"}

=============================================================================
