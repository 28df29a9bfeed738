--------------------- MODULE TransportNeighbours_proofs ---------------------
(***************************************************************************)
(* The entry of a neighbour, for any sets of sessions and plugins and any  *)
(* bounds: clients are told once, no ended session is used, ATS agrees     *)
(* with the entry, and CONNECT waits for the blacklist.  The four          *)
(* invariants need each other, so they are proved as one, IInv.            *)
(* bytes_in_send_queue covers the messages in flight and every variable    *)
(* keeps its type; these follow from IInv and a second invariant, BInv.    *)
(*                                                                         *)
(* The model's operators work on a record of the whole state.  The first   *)
(* lemmas say which fields each operator gives its result; the next ones   *)
(* say which operators keep a record Good, which is IInv of a record, and  *)
(* the last ones which keep it Sound, which is BInv of a record.           *)
(***************************************************************************)
EXTENDS TransportNeighbours, SeqFilter_proofs, FiniteSetTheorems, TLAPS

(* The inductive invariant: the four properties and the types they need.   *)
IInv ==
  /\ state \in States
  /\ primary \in Sessions \cup {NoSession}
  /\ alternative \in Sessions \cup {NoSession}
  /\ active \in BOOLEAN
  /\ checks \in [Sessions -> Int]
  /\ alive \subseteq Sessions
  /\ approved \subseteq alive
  /\ neighbours_connected \in Int
  /\ NotifiedOnce
  /\ SessionsUsable
  /\ AtsAgrees
  /\ ApprovedFirst

Fields == {"state", "primary", "active", "alternative", "ack", "timeout", "expect",
           "queued", "is_active", "held", "bytes", "checks", "alive", "approved",
           "neighbours_connected", "inUse"}

(* n is a record of the state with these values in the fields of IInv.     *)
View(n, st, pr, ac, al, ch, lv, ap, nc, iu) ==
  /\ DOMAIN n = Fields
  /\ n.state = st
  /\ n.primary = pr
  /\ n.active = ac
  /\ n.alternative = al
  /\ n.checks = ch
  /\ n.alive = lv
  /\ n.approved = ap
  /\ n.neighbours_connected = nc
  /\ n.inUse = iu

IsEntry(n) == DOMAIN n = Fields

(* What holds of a record in the middle of a handler too.                  *)
Core(n) ==
  /\ IsEntry(n)
  /\ n.state \in States
  /\ n.primary \in Sessions \cup {NoSession}
  /\ n.alternative \in Sessions \cup {NoSession}
  /\ n.active \in BOOLEAN
  /\ n.checks \in [Sessions -> Int]
  /\ n.alive \subseteq Sessions
  /\ n.approved \subseteq n.alive
  /\ n.neighbours_connected = (IF n.state \in Connected THEN 1 ELSE 0)
  /\ \A s \in Sessions : n.checks[s] > 0 => s \in n.alive
  /\ n.inUse = (IF n.active THEN {n.primary} ELSE {})

Good(n) ==
  /\ Core(n)
  /\ n.state \in Up \cup Handshaking \cup {"INIT_BLACKLIST", "CONNECT_RECV_BLACKLIST",
        "RECONNECT_BLACKLIST", "RECONNECT_SENT"} => n.primary \in n.alive
  /\ n.state \in Switching => n.alternative \in n.alive \ {n.primary}
  /\ n.state \in {"NONE", "INIT_ATS", "CONNECT_RECV_BLACKLIST_INBOUND", "CONNECT_RECV_ATS"}
       => n.primary = NoSession
  /\ n.alternative # NoSession => n.state \in Switching \cup {"DISCONNECT"}
  /\ n.inUse \subseteq n.alive
  /\ n.active => n.state \in Up \cup {"DISCONNECT"}
  /\ n.state \in {"CONNECT_SENT", "RECONNECT_SENT"} => n.primary \in n.approved
  /\ n.state = "CONNECTED_SWITCHING_CONNECT_SENT" => n.alternative \in n.approved

-----------------------------------------------------------------------------
(* Good is IInv of a record.                                               *)

(* The record of the current state has the variables in its fields.        *)
LEMMA StateView ==
  View(State, state, primary, active, alternative, checks, alive, approved,
       neighbours_connected, inUse)
BY DEF View, State, Fields

(* The invariant holds exactly if the record of the state is Good.         *)
LEMMA GoodState == IInv <=> Good(State)
BY StateView DEF View, IsEntry, IInv, Good, Core, NotifiedOnce, SessionsUsable, AtsAgrees,
                 ApprovedFirst, Connected, Up, Switching, Reconnecting

(* A step to a Good record keeps the invariant.                            *)
LEMMA BecomesGood ==
  ASSUME NEW n, Good(n), Becomes(n)
  PROVE  IInv'
<1>1. View(n, state', primary', active', alternative', checks', alive', approved',
           neighbours_connected', inUse')
  BY DEF Becomes, View, Good, Core, IsEntry
<1> QED BY <1>1 DEF View, IsEntry, IInv, Good, Core, NotifiedOnce, SessionsUsable, AtsAgrees,
                    ApprovedFirst, Connected, Up, Switching, Reconnecting

-----------------------------------------------------------------------------
(* The fields of a result.                                                 *)

(* free_address gives up the primary session and tells ATS.                *)
LEMMA FreeAddressView ==
  ASSUME NEW n, IsEntry(n)
  PROVE  View(FreeAddress(n), n.state, NoSession, FALSE, n.alternative, n.checks, n.alive,
              n.approved, n.neighbours_connected,
              IF n.active THEN n.inUse \ {n.primary} ELSE n.inUse)
BY DEF FreeAddress, Fields, IsEntry, View

(* Entering a state changes nothing else of interest.                      *)
LEMMA EnterView ==
  ASSUME NEW n, IsEntry(n), NEW st, NEW time
  PROVE  View(Enter(n, st, time), st, n.primary, n.active, n.alternative, n.checks, n.alive,
              n.approved, n.neighbours_connected, n.inUse)
BY DEF Enter, Fields, IsEntry, View

(* set_address tells ATS of both the old and the new session.              *)
LEMMA SetAddressView ==
  ASSUME NEW n, IsEntry(n), NEW s, NEW act \in BOOLEAN,
         n.inUse = (IF n.active THEN {n.primary} ELSE {}), n.active \in BOOLEAN
  PROVE  View(SetAddress(n, s, act), n.state, s, act, n.alternative, n.checks, n.alive,
              n.approved, n.neighbours_connected, IF act THEN {s} ELSE {})
<1>1. CASE s = n.primary
  <2> DEFINE f == SetAddress(n, s, act)
  <2>1. View(f, n.state, s, act, n.alternative, n.checks, n.alive, n.approved,
             n.neighbours_connected,
             IF act THEN n.inUse \cup {s} ELSE IF n.active THEN n.inUse \ {s} ELSE n.inUse)
    BY <1>1 DEF SetAddress, Fields, IsEntry, View
  <2> HIDE DEF f
  <2>2. f.inUse = IF act THEN {s} ELSE {}
    BY <1>1, <2>1 DEF View
  <2> QED BY <2>1, <2>2 DEF View, f
<1>2. CASE s # n.primary
  <2> DEFINE g == FreeAddress(n)
             f == [g EXCEPT !.primary = s, !.active = act,
                     !.inUse = IF act THEN @ \cup {s} ELSE IF g.active THEN @ \ {s} ELSE @]
  <2>1. SetAddress(n, s, act) = f
    BY <1>2 DEF SetAddress
  <2>2. View(g, n.state, NoSession, FALSE, n.alternative, n.checks, n.alive,
             n.approved, n.neighbours_connected,
             IF n.active THEN n.inUse \ {n.primary} ELSE n.inUse)
    BY FreeAddressView
  <2> HIDE DEF g
  <2>3. g.inUse = {}
    BY <2>2 DEF View
  <2>4. View(f, g.state, s, act, g.alternative, g.checks, g.alive, g.approved,
             g.neighbours_connected,
             IF act THEN g.inUse \cup {s} ELSE IF g.active THEN g.inUse \ {s} ELSE g.inUse)
    BY <2>2 DEF View, Fields
  <2> HIDE DEF f
  <2>5. f.inUse = IF act THEN {s} ELSE {}
    BY <2>2, <2>3, <2>4 DEF View
  <2> QED BY <2>1, <2>2, <2>4, <2>5 DEF View
<1> QED BY <1>1, <1>2

(* check_blacklist adds a check of a session that the plugin has.          *)
LEMMA CheckBlacklistView ==
  ASSUME NEW n, IsEntry(n), NEW s
  PROVE  View(CheckBlacklist(n, s), n.state, n.primary, n.active, n.alternative,
              [n.checks EXCEPT ![s] = @ + 1], n.alive \cup {s}, n.approved,
              n.neighbours_connected, n.inUse)
BY DEF CheckBlacklist, Fields, IsEntry, View

(* A forgotten peer has no address, and clients are told if it was         *)
(* connected.                                                              *)
LEMMA ForgottenView ==
  ASSUME NEW n, IsEntry(n)
  PROVE  View(Forgotten(n), "NONE", NoSession, FALSE, NoSession, n.checks, n.alive,
              n.approved,
              IF n.state \in Connected THEN n.neighbours_connected - 1
                                       ELSE n.neighbours_connected,
              IF n.active THEN n.inUse \ {n.primary} ELSE n.inUse)
<1> DEFINE g == FreeAddress(n)
<1>1. View(g, n.state, NoSession, FALSE, n.alternative, n.checks, n.alive, n.approved,
           n.neighbours_connected, IF n.active THEN n.inUse \ {n.primary} ELSE n.inUse)
  BY FreeAddressView
<1>2. Forgotten(n) =
        [g EXCEPT !.state = "NONE", !.alternative = NoSession, !.ack = 0,
                  !.timeout = "passed", !.expect = FALSE, !.queued = 0,
                  !.is_active = NoSession,
                  !.neighbours_connected = IF n.state \in Connected THEN @ - 1 ELSE @]
  BY DEF Forgotten
<1> HIDE DEF g
<1> QED BY <1>1, <1>2 DEF View, Fields

(* A plugin that ends sessions cancels their checks.                       *)
LEMMA PluginDisconnectView ==
  ASSUME NEW n, IsEntry(n), NEW ended
  PROVE  View(PluginDisconnect(n, ended), n.state, n.primary, n.active, n.alternative,
              [s \in Sessions |-> IF s \in ended THEN 0 ELSE n.checks[s]],
              n.alive \ ended, n.approved \ ended, n.neighbours_connected, n.inUse)
BY DEF PluginDisconnect, Fields, IsEntry, View

-----------------------------------------------------------------------------
(* Operators that several actions apply.                                   *)

(* free_neighbour leaves a Good record in any state, also in the middle of *)
(* a handler.                                                              *)
LEMMA FreeNeighbourGood ==
  ASSUME NEW n, Core(n), NEW keep
  PROVE  Good(FreeNeighbour(n, keep)) /\ FreeNeighbour(n, keep).state = "NONE"
<1> DEFINE ended == {s \in n.alive : /\ n.primary # NoSession
                                     /\ ~keep
                                     /\ Transport[s] = Transport[n.primary]}
           g == Forgotten(n)
           f == PluginDisconnect(g, ended)
<1>1. FreeNeighbour(n, keep) = f
  BY DEF FreeNeighbour
<1>2. View(g, "NONE", NoSession, FALSE, NoSession, n.checks, n.alive, n.approved,
           IF n.state \in Connected THEN n.neighbours_connected - 1
                                    ELSE n.neighbours_connected,
           IF n.active THEN n.inUse \ {n.primary} ELSE n.inUse)
  BY ForgottenView DEF Core
<1> HIDE DEF g, ended
<1>3. View(f, g.state, g.primary, g.active, g.alternative,
           [s \in Sessions |-> IF s \in ended THEN 0 ELSE g.checks[s]],
           g.alive \ ended, g.approved \ ended, g.neighbours_connected, g.inUse)
  BY <1>2, PluginDisconnectView DEF View, IsEntry
<1> HIDE DEF f
<1>4. View(f, "NONE", NoSession, FALSE, NoSession,
           [s \in Sessions |-> IF s \in ended THEN 0 ELSE n.checks[s]],
           n.alive \ ended, n.approved \ ended, 0, {})
  BY <1>2, <1>3 DEF View, Core
<1>5. Core(f)
  <2>1. f.checks \in [Sessions -> Int] /\ \A s \in Sessions : f.checks[s] > 0 => s \in f.alive
    BY <1>4 DEF View, Core
  <2>2. f.neighbours_connected = (IF f.state \in Connected THEN 1 ELSE 0) /\ f.state \in States
    BY <1>4 DEF View, Connected, Up, Switching, Reconnecting, States
  <2>3. f.alive \subseteq Sessions /\ f.approved \subseteq f.alive
    BY <1>4 DEF View, Core
  <2> QED BY <1>4, <2>1, <2>2, <2>3 DEF View, IsEntry, Core
<1> QED BY <1>1, <1>4, <1>5 DEF View, Good, Up, Switching, Handshaking

(* disconnect_neighbour ends the entry or moves it to DISCONNECT.          *)
LEMMA DisconnectNeighbourGood ==
  ASSUME NEW n, Good(n), n.state # "NONE"
  PROVE  Good(DisconnectNeighbour(n))
<1>1. CASE n.state \in Unanswered
  <2>1. DisconnectNeighbour(n) = FreeNeighbour(n, FALSE)
    BY <1>1 DEF DisconnectNeighbour, Unanswered
  <2>2. Core(n)
    BY DEF Good
  <2> QED BY <2>1, <2>2, FreeNeighbourGood
<1>2. CASE n.state = "DISCONNECT"
  <2>1. DisconnectNeighbour(n) = n
    BY <1>2 DEF DisconnectNeighbour, Unanswered
  <2> QED BY <2>1
<1>3. CASE n.state \notin Unanswered \cup {"DISCONNECT"}
  <2> DEFINE f == [n EXCEPT !.state = "DISCONNECT",
                            !.neighbours_connected =
                               IF n.state \in Connected THEN @ - 1 ELSE @]
  <2>1. DisconnectNeighbour(n) = f
    BY <1>3 DEF DisconnectNeighbour
  <2>2. View(f, "DISCONNECT", n.primary, n.active, n.alternative, n.checks, n.alive,
             n.approved,
             IF n.state \in Connected THEN n.neighbours_connected - 1
                                      ELSE n.neighbours_connected,
             n.inUse)
    BY DEF Good, Core, IsEntry, Fields, View
  <2> HIDE DEF f
  <2> QED BY <2>1, <2>2 DEF View, IsEntry, Core, Good, Connected, Up, Switching, Reconnecting,
                            Handshaking, Unanswered, States
<1> QED BY <1>1, <1>2, <1>3

(* A handshake that ends tells the clients and ATS.                        *)
LEMMA EstablishGood ==
  ASSUME NEW n, Good(n), n.state \in Handshaking
  PROVE  Good(Establish(n))
<1> DEFINE e == Enter(n, "CONNECTED", "idle")
           g == [e EXCEPT !.neighbours_connected = @ + 1]
           f == SetAddress(g, n.primary, TRUE)
<1>1. Establish(n) = f
  BY DEF Establish
<1>2. View(e, "CONNECTED", n.primary, n.active, n.alternative, n.checks, n.alive, n.approved,
           n.neighbours_connected, n.inUse)
  BY EnterView DEF Good, Core
<1> HIDE DEF e
<1>3. View(g, "CONNECTED", n.primary, n.active, n.alternative, n.checks, n.alive, n.approved,
           n.neighbours_connected + 1, n.inUse)
  BY <1>2 DEF View, Fields
<1> HIDE DEF g
<1>4. View(f, "CONNECTED", n.primary, TRUE, n.alternative, n.checks, n.alive, n.approved,
           n.neighbours_connected + 1, {n.primary})
  <2>1. /\ IsEntry(g) /\ g.active \in BOOLEAN
        /\ g.inUse = (IF g.active THEN {g.primary} ELSE {})
    BY <1>3 DEF View, IsEntry, Good, Core
  <2>2. View(f, g.state, n.primary, TRUE, g.alternative, g.checks, g.alive,
             g.approved, g.neighbours_connected, IF TRUE THEN {n.primary} ELSE {})
    BY <2>1, SetAddressView
  <2> QED BY <1>3, <2>2 DEF View
<1> HIDE DEF f
<1>5. Core(f)
  <2>1. f.neighbours_connected = (IF f.state \in Connected THEN 1 ELSE 0) /\ f.state \in States
    BY <1>4 DEF View, Good, Core, Connected, Up, Switching, Reconnecting, Handshaking, States
  <2> QED BY <1>4, <2>1 DEF View, IsEntry, Core, Good
<1> QED BY <1>1, <1>4, <1>5 DEF View, Good, Core, Up, Switching, Handshaking

-----------------------------------------------------------------------------
(* The requests of clients and the messages of the peer.                   *)

(* A new entry keeps a record Good.                                        *)
LEMMA NewEntryGood ==
  ASSUME NEW n, Good(n), n.state = "NONE", NEW st \in {"INIT_ATS", "CONNECT_RECV_ATS"},
         NEW time
  PROVE  Good(Enter(n, st, time))
<1> DEFINE f == Enter(n, st, time)
<1>1. View(f, st, n.primary, n.active, n.alternative, n.checks, n.alive, n.approved,
           n.neighbours_connected, n.inUse)
  BY EnterView DEF Good, Core
<1> HIDE DEF f
<1>2. Core(f)
  <2>1. f.neighbours_connected = (IF f.state \in Connected THEN 1 ELSE 0) /\ f.state \in States
    BY <1>1 DEF View, Good, Core, Connected, Up, Switching, Reconnecting, Unanswered, States
  <2> QED BY <1>1, <2>1 DEF View, IsEntry, Core, Good
<1>3. Good(f)
  BY <1>1, <1>2 DEF View, Good, Up, Switching, Handshaking
<1> QED BY <1>3 DEF f

(* GST_neighbours_try_connect.                                             *)
LEMMA TryConnectStep ==
  ASSUME IInv, TryConnect
  PROVE  IInv'
<1> DEFINE f == FreeNeighbour(State, FALSE)
<1>1. Good(f) /\ f.state = "NONE"
  BY GoodState, FreeNeighbourGood DEF Good
<1>2. Becomes(Enter(f, "INIT_ATS", "wait"))
  BY DEF TryConnect
<1> HIDE DEF f
<1>3. Good(Enter(f, "INIT_ATS", "wait"))
  BY <1>1, NewEntryGood
<1> QED BY <1>2, <1>3, BecomesGood

(* GST_neighbours_send touches the queue only.                             *)
LEMMA SendStep ==
  ASSUME IInv, Send
  PROVE  IInv'
BY DEF Send, IInv, NotifiedOnce, SessionsUsable, AtsAgrees, ApprovedFirst

(* A disconnect that a client, ATS or the peer asks for.                   *)
LEMMA DisconnectStep ==
  ASSUME IInv, Disconnect
  PROVE  IInv'
<1>1. Good(State) /\ State.state # "NONE"
  BY GoodState, StateView DEF Disconnect, View
<1>2. Good(DisconnectNeighbour(State))
  BY <1>1, DisconnectNeighbourGood
<1> QED BY <1>2, BecomesGood DEF Disconnect

(* A CONNECT starts a check; an entry that was new or waited for ATS waits *)
(* for its result.                                                         *)
LEMMA HandleConnectStep ==
  ASSUME IInv, NEW s \in Sessions, HandleConnect(s)
  PROVE  IInv'
<1> DEFINE n == [State EXCEPT !.ack = IF state \in Up THEN 0 ELSE 1,
                              !.state = IF state \in {"NONE", "INIT_ATS"}
                                        THEN "CONNECT_RECV_BLACKLIST_INBOUND" ELSE @]
           f == CheckBlacklist(n, s)
<1>1. Becomes(f)
  BY DEF HandleConnect
<1>2. View(n, IF state \in {"NONE", "INIT_ATS"} THEN "CONNECT_RECV_BLACKLIST_INBOUND"
                                                 ELSE state,
           primary, active, alternative, checks, alive, approved, neighbours_connected,
           inUse)
  BY StateView DEF View, Fields
<1> HIDE DEF n
<1>3. View(f, n.state, n.primary, n.active, n.alternative, [n.checks EXCEPT ![s] = @ + 1],
           n.alive \cup {s}, n.approved, n.neighbours_connected, n.inUse)
  BY <1>2, CheckBlacklistView DEF View, IsEntry
<1> HIDE DEF f
<1>4. View(f, n.state, primary, active, alternative, [checks EXCEPT ![s] = @ + 1],
           alive \cup {s}, approved, neighbours_connected, inUse)
  BY <1>2, <1>3 DEF View
<1>5. Core(f)
  <2>1. f.checks \in [Sessions -> Int] /\ \A t \in Sessions : f.checks[t] > 0 => t \in f.alive
    BY <1>4 DEF View, IInv, SessionsUsable
  <2>2. f.neighbours_connected = (IF f.state \in Connected THEN 1 ELSE 0) /\ f.state \in States
    BY <1>2, <1>4 DEF View, IInv, NotifiedOnce, Connected, Up, Switching, Reconnecting,
                      Unanswered, States
  <2> QED BY <1>4, <2>1, <2>2 DEF View, IsEntry, Core, IInv, AtsAgrees
<1>6. Good(f)
  BY <1>2, <1>4, <1>5 DEF View, Good, IInv, SessionsUsable, AtsAgrees, ApprovedFirst, Up,
                          Switching, Handshaking
<1> QED BY <1>1, <1>6, BecomesGood

(* A CONNECT of a peer that we are disconnecting from begins a new entry.  *)
LEMMA HandleConnectDisconnectingStep ==
  ASSUME IInv, NEW s \in Sessions, HandleConnectDisconnecting(s)
  PROVE  IInv'
<1> DEFINE g == FreeNeighbour(State, TRUE)
           e == Enter(g, "CONNECT_RECV_ATS", "passed")
           f == [e EXCEPT !.alive = @ \cup {s}]
<1>1. Becomes(f)
  BY DEF HandleConnectDisconnecting
<1>2. Good(g) /\ g.state = "NONE"
  BY GoodState, FreeNeighbourGood DEF Good
<1> HIDE DEF g
<1>3. Good(e) /\ e.state = "CONNECT_RECV_ATS"
  <2>1. e.state = "CONNECT_RECV_ATS"
    BY <1>2, EnterView DEF View, Good, Core
  <2> QED BY <1>2, <2>1, NewEntryGood
<1> HIDE DEF e
<1>4. View(f, e.state, e.primary, e.active, e.alternative, e.checks, e.alive \cup {s},
           e.approved, e.neighbours_connected, e.inUse)
  BY <1>3 DEF View, Good, Core, IsEntry, Fields
<1> HIDE DEF f
<1>5. Core(f)
  BY <1>3, <1>4 DEF View, IsEntry, Core, Good
<1>6. Good(f)
  BY <1>3, <1>4, <1>5 DEF View, Good, Up, Switching, Handshaking
<1> QED BY <1>1, <1>6, BecomesGood

(* CONNECT_ACK ends a handshake, a reconnect or a switch.                  *)
LEMMA HandleConnectAckStep ==
  ASSUME IInv, HandleConnectAck
  PROVE  IInv'
<1>0. Good(State) /\ IsEntry(State)
  BY GoodState DEF Good, Core
<1>1. CASE state = "CONNECT_SENT" /\ Becomes(Establish(State))
  <2>1. State.state \in Handshaking
    BY <1>1, StateView DEF View, Handshaking
  <2>2. Good(Establish(State))
    BY <1>0, <2>1, EstablishGood
  <2> QED BY <1>1, <2>2, BecomesGood
<1>2. CASE state = "RECONNECT_SENT" /\ Becomes([State EXCEPT !.state = "CONNECTED"])
  <2> DEFINE f == [State EXCEPT !.state = "CONNECTED"]
  <2>1. View(f, "CONNECTED", primary, active, alternative, checks, alive, approved,
             neighbours_connected, inUse)
    BY StateView DEF View, Fields
  <2> HIDE DEF f
  <2>2. f.neighbours_connected = (IF f.state \in Connected THEN 1 ELSE 0) /\ f.state \in States
    BY <1>2, <2>1 DEF View, IInv, NotifiedOnce, Connected, Up, Reconnecting, States
  <2>3. Core(f)
    BY <2>1, <2>2 DEF View, IsEntry, Core, IInv, AtsAgrees, SessionsUsable
  <2>4. Good(f)
    BY <1>2, <2>1, <2>3 DEF View, Good, IInv, SessionsUsable, AtsAgrees, Up, Switching,
                            Handshaking
  <2> QED BY <1>2, <2>4, BecomesGood DEF f
<1>3. CASE /\ state = "CONNECTED_SWITCHING_CONNECT_SENT"
           /\ Becomes([SetAddress(Enter(State, "CONNECTED", "idle"), alternative, TRUE)
                         EXCEPT !.alternative = NoSession])
  <2> DEFINE e == Enter(State, "CONNECTED", "idle")
             g == SetAddress(e, alternative, TRUE)
             f == [g EXCEPT !.alternative = NoSession]
  <2>1. View(e, "CONNECTED", primary, active, alternative, checks, alive, approved,
             neighbours_connected, inUse)
    BY <1>0, StateView, EnterView DEF View
  <2> HIDE DEF e
  <2>2. View(g, e.state, alternative, TRUE, e.alternative, e.checks, e.alive, e.approved,
             e.neighbours_connected, IF TRUE THEN {alternative} ELSE {})
    <3>1. /\ IsEntry(e) /\ e.active \in BOOLEAN
          /\ e.inUse = (IF e.active THEN {e.primary} ELSE {})
      BY <2>1 DEF View, IsEntry, IInv, AtsAgrees
    <3> QED BY <3>1, SetAddressView
  <2> HIDE DEF g
  <2>3. View(f, "CONNECTED", alternative, TRUE, NoSession, checks, alive, approved,
             neighbours_connected, {alternative})
    BY <2>1, <2>2 DEF View, Fields
  <2> HIDE DEF f
  <2>4. f.neighbours_connected = (IF f.state \in Connected THEN 1 ELSE 0) /\ f.state \in States
    BY <1>3, <2>3 DEF View, IInv, NotifiedOnce, Connected, Up, Switching, States
  <2>5. Core(f)
    BY <2>3, <2>4 DEF View, IsEntry, Core, IInv, SessionsUsable
  <2>6. Good(f)
    BY <1>3, <2>3, <2>5 DEF View, Good, IInv, SessionsUsable, Up, Switching, Handshaking
  <2> QED BY <1>3, <2>6, BecomesGood DEF f, g, e
<1> QED BY <1>1, <1>2, <1>3 DEF HandleConnectAck

(* SESSION_ACK ends a handshake.                                           *)
LEMMA HandleSessionAckStep ==
  ASSUME IInv, HandleSessionAck
  PROVE  IInv'
<1>1. Good(State) /\ State.state \in Handshaking
  BY GoodState, StateView DEF View, HandleSessionAck
<1>2. Good(Establish(State))
  BY <1>1, EstablishGood
<1> QED BY <1>2, BecomesGood DEF HandleSessionAck

(* A record that differs in other fields only is Good too.                 *)
LEMMA SameView ==
  ASSUME IInv, NEW f,
         View(f, state, primary, active, alternative, checks, alive, approved,
              neighbours_connected, inUse)
  PROVE  Good(f)
BY GoodState, StateView DEF View, Good, Core, IsEntry

(* KEEPALIVE_RESPONSE renews the timeout.                                  *)
LEMMA KeepaliveResponseStep ==
  ASSUME IInv, KeepaliveResponse
  PROVE  IInv'
<1> DEFINE f == [State EXCEPT !.expect = FALSE, !.timeout = "idle"]
<1>1. View(f, state, primary, active, alternative, checks, alive, approved,
           neighbours_connected, inUse)
  BY StateView DEF View, Fields
<1>2. Becomes(f)
  BY DEF KeepaliveResponse
<1> HIDE DEF f
<1> QED BY <1>1, <1>2, SameView, BecomesGood

-----------------------------------------------------------------------------
(* ATS.                                                                    *)

(* A suggestion that replaces the primary session of an entry that is not  *)
(* connected over it.                                                      *)
LEMMA SuggestionGood ==
  ASSUME NEW n, Good(n), NEW s \in Sessions,
         n.state \notin Up \cup {"NONE", "DISCONNECT"},
         NEW st \in {"INIT_BLACKLIST", "CONNECT_RECV_BLACKLIST", "CONNECT_RECV_ACK",
                     "RECONNECT_BLACKLIST"},
         n.state \in Reconnecting <=> st = "RECONNECT_BLACKLIST"
  PROVE  Good(CheckBlacklist(Enter(SetAddress(n, s, FALSE), st, "wait"), s))
<1> DEFINE g == SetAddress(n, s, FALSE)
           e == Enter(g, st, "wait")
           f == CheckBlacklist(e, s)
<1>1. View(g, n.state, s, FALSE, n.alternative, n.checks, n.alive, n.approved,
           n.neighbours_connected, IF FALSE THEN {s} ELSE {})
  <2>1. /\ IsEntry(n) /\ n.active \in BOOLEAN
        /\ n.inUse = (IF n.active THEN {n.primary} ELSE {})
    BY DEF Good, Core
  <2> QED BY <2>1, SetAddressView
<1> HIDE DEF g
<1>2. View(e, st, g.primary, g.active, g.alternative, g.checks, g.alive, g.approved,
           g.neighbours_connected, g.inUse)
  BY <1>1, EnterView DEF View, IsEntry
<1> HIDE DEF e
<1>3. View(f, e.state, e.primary, e.active, e.alternative, [e.checks EXCEPT ![s] = @ + 1],
           e.alive \cup {s}, e.approved, e.neighbours_connected, e.inUse)
  BY <1>2, CheckBlacklistView DEF View, IsEntry
<1> HIDE DEF f
<1>4. View(f, st, s, FALSE, n.alternative, [n.checks EXCEPT ![s] = @ + 1],
           n.alive \cup {s}, n.approved, n.neighbours_connected, {})
  BY <1>1, <1>2, <1>3 DEF View
<1>5. Core(f)
  <2>1. f.checks \in [Sessions -> Int] /\ \A t \in Sessions : f.checks[t] > 0 => t \in f.alive
    BY <1>4 DEF View, Good, Core
  <2>2. f.neighbours_connected = (IF f.state \in Connected THEN 1 ELSE 0) /\ f.state \in States
    BY <1>4 DEF View, Good, Core, Connected, Up, Switching, Reconnecting, Unanswered,
                Handshaking, States
  <2> QED BY <1>4, <2>1, <2>2 DEF View, IsEntry, Core, Good
<1>6. n.alternative = NoSession
  BY DEF Good, Up
<1>7. Good(f)
  BY <1>4, <1>5, <1>6 DEF View, Good, Up, Switching, Handshaking
<1> QED BY <1>7 DEF f, e, g

(* A suggestion for a connected entry becomes its alternative.             *)
LEMMA AlternativeGood ==
  ASSUME NEW n, Good(n), NEW s \in Sessions, n.state \in Up, s # n.primary
  PROVE  Good(CheckBlacklist([n EXCEPT !.alternative = s,
                                       !.state = "CONNECTED_SWITCHING_BLACKLIST"], s))
<1> DEFINE e == [n EXCEPT !.alternative = s, !.state = "CONNECTED_SWITCHING_BLACKLIST"]
           f == CheckBlacklist(e, s)
<1>1. View(e, "CONNECTED_SWITCHING_BLACKLIST", n.primary, n.active, s, n.checks, n.alive,
           n.approved, n.neighbours_connected, n.inUse)
  BY DEF Good, Core, IsEntry, View, Fields
<1> HIDE DEF e
<1>2. View(f, e.state, e.primary, e.active, e.alternative, [e.checks EXCEPT ![s] = @ + 1],
           e.alive \cup {s}, e.approved, e.neighbours_connected, e.inUse)
  BY <1>1, CheckBlacklistView DEF View, IsEntry
<1> HIDE DEF f
<1>3. View(f, "CONNECTED_SWITCHING_BLACKLIST", n.primary, n.active, s,
           [n.checks EXCEPT ![s] = @ + 1], n.alive \cup {s}, n.approved,
           n.neighbours_connected, n.inUse)
  BY <1>1, <1>2 DEF View
<1>4. Core(f)
  <2>1. f.checks \in [Sessions -> Int] /\ \A t \in Sessions : f.checks[t] > 0 => t \in f.alive
    BY <1>3 DEF View, Good, Core
  <2>2. f.neighbours_connected = (IF f.state \in Connected THEN 1 ELSE 0) /\ f.state \in States
    BY <1>3 DEF View, Good, Core, Connected, Up, Switching, States
  <2> QED BY <1>3, <2>1, <2>2 DEF View, IsEntry, Core, Good
<1>5. Good(f)
  BY <1>3, <1>4 DEF View, Good, Up, Switching, Handshaking
<1> QED BY <1>5 DEF f, e

(* A suggestion while the first CONNECT is checked changes the timeout.    *)
LEMMA InboundSuggestionGood ==
  ASSUME NEW n, Good(n), NEW s \in Sessions, n.state = "CONNECT_RECV_BLACKLIST_INBOUND"
  PROVE  Good(CheckBlacklist(Enter(n, n.state, "wait"), s))
<1> DEFINE e == Enter(n, n.state, "wait")
           f == CheckBlacklist(e, s)
<1>1. View(e, n.state, n.primary, n.active, n.alternative, n.checks, n.alive,
           n.approved, n.neighbours_connected, n.inUse)
  BY EnterView DEF Good, Core
<1> HIDE DEF e
<1>2. View(f, e.state, e.primary, e.active, e.alternative, [e.checks EXCEPT ![s] = @ + 1],
           e.alive \cup {s}, e.approved, e.neighbours_connected, e.inUse)
  BY <1>1, CheckBlacklistView DEF View, IsEntry
<1> HIDE DEF f
<1>3. View(f, n.state, n.primary, n.active, n.alternative,
           [n.checks EXCEPT ![s] = @ + 1], n.alive \cup {s}, n.approved,
           n.neighbours_connected, n.inUse)
  BY <1>1, <1>2 DEF View
<1>4. f.checks \in [Sessions -> Int] /\ \A t \in Sessions : f.checks[t] > 0 => t \in f.alive
  BY <1>3 DEF View, Good, Core
<1>5. Core(f)
  BY <1>3, <1>4 DEF View, IsEntry, Core, Good
<1>6. Good(f)
  BY <1>3, <1>5 DEF View, Good, Up, Switching, Handshaking
<1> QED BY <1>6 DEF f, e

(* A suggestion in every state of the entry.                               *)
LEMMA SuggestedGood ==
  ASSUME NEW n, Good(n), NEW s \in Sessions, n.state \notin {"NONE", "DISCONNECT"},
         n.state \in Up => s # n.primary
  PROVE  Good(CheckBlacklist(Suggested(n, s), s))
<1>1. CASE n.state \in {"INIT_ATS", "INIT_BLACKLIST", "CONNECT_SENT"}
  <2>1. Suggested(n, s) = Enter(SetAddress(n, s, FALSE), "INIT_BLACKLIST", "wait")
    BY <1>1 DEF Suggested, Up, Switching, Reconnecting
  <2>2. n.state \notin Up \cup {"NONE", "DISCONNECT"} /\ n.state \notin Reconnecting
    BY <1>1 DEF Up, Switching, Reconnecting
  <2> QED BY <2>1, <2>2, SuggestionGood
<1>2. CASE n.state \in {"CONNECT_RECV_ATS", "CONNECT_RECV_BLACKLIST"}
  <2>1. Suggested(n, s) = Enter(SetAddress(n, s, FALSE), "CONNECT_RECV_BLACKLIST", "wait")
    BY <1>2 DEF Suggested, Up, Switching, Reconnecting
  <2>2. n.state \notin Up \cup {"NONE", "DISCONNECT"} /\ n.state \notin Reconnecting
    BY <1>2 DEF Up, Switching, Reconnecting
  <2> QED BY <2>1, <2>2, SuggestionGood
<1>3. CASE n.state = "CONNECT_RECV_BLACKLIST_INBOUND"
  <2>1. Suggested(n, s) = Enter(n, n.state, "wait")
    BY <1>3 DEF Suggested, Up, Switching, Reconnecting
  <2> QED BY <1>3, <2>1, InboundSuggestionGood
<1>4. CASE n.state = "CONNECT_RECV_ACK"
  <2>1. Suggested(n, s) = Enter(SetAddress(n, s, FALSE), "CONNECT_RECV_ACK", "wait")
    BY <1>4 DEF Suggested, Up, Switching, Reconnecting
  <2>2. n.state \notin Up \cup {"NONE", "DISCONNECT"} /\ n.state \notin Reconnecting
    BY <1>4 DEF Up, Switching, Reconnecting
  <2> QED BY <2>1, <2>2, SuggestionGood
<1>5. CASE n.state \in Reconnecting
  <2>1. Suggested(n, s) = Enter(SetAddress(n, s, FALSE), "RECONNECT_BLACKLIST", "wait")
    BY <1>5 DEF Suggested, Up, Switching, Reconnecting
  <2>2. n.state \notin Up \cup {"NONE", "DISCONNECT"}
    BY <1>5 DEF Up, Switching, Reconnecting
  <2> QED BY <1>5, <2>1, <2>2, SuggestionGood
<1>6. CASE n.state \in Up
  <2>1. Suggested(n, s) = [n EXCEPT !.alternative = s,
                                    !.state = "CONNECTED_SWITCHING_BLACKLIST"]
    BY <1>6 DEF Suggested, Up, Switching, Reconnecting
  <2> QED BY <1>6, <2>1, AlternativeGood
<1> QED BY <1>1, <1>2, <1>3, <1>4, <1>5, <1>6
        DEF Good, Core, States, Unanswered, Handshaking, Connected

(* GST_neighbours_switch_to_address.                                       *)
LEMMA SwitchToAddressStep ==
  ASSUME IInv, NEW s \in Sessions, SwitchToAddress(s)
  PROVE  IInv'
<1>0. Good(State) /\ IsEntry(State)
  BY GoodState DEF Good, Core
<1>1. CASE state = "CONNECTED" /\ s = primary /\ Becomes(SetAddress(State, s, TRUE))
  <2> DEFINE f == SetAddress(State, s, TRUE)
  <2>1. View(f, state, s, TRUE, alternative, checks, alive, approved,
             neighbours_connected, {s})
    <3>1. /\ State.active \in BOOLEAN
          /\ State.inUse = (IF State.active THEN {State.primary} ELSE {})
      BY <1>0 DEF Good, Core
    <3>2. View(f, State.state, s, TRUE, State.alternative, State.checks, State.alive,
               State.approved, State.neighbours_connected, IF TRUE THEN {s} ELSE {})
      BY <1>0, <3>1, SetAddressView
    <3> QED BY <3>2, StateView DEF View
  <2> HIDE DEF f
  <2>2. Core(f)
    BY <1>0, <2>1, StateView DEF View, IsEntry, Core, Good
  <2>3. Good(f)
    BY <1>1, <2>1, <2>2 DEF View, Good, IInv, SessionsUsable, ApprovedFirst, Up, Switching,
                            Handshaking
  <2> QED BY <1>1, <2>3, BecomesGood DEF f
<1>2. CASE /\ state \in Switching /\ s = primary
           /\ Becomes([State EXCEPT !.alternative = NoSession, !.state = "CONNECTED"])
  <2> DEFINE f == [State EXCEPT !.alternative = NoSession, !.state = "CONNECTED"]
  <2>1. View(f, "CONNECTED", primary, active, NoSession, checks, alive, approved,
             neighbours_connected, inUse)
    BY StateView DEF View, Fields
  <2> HIDE DEF f
  <2>2. f.neighbours_connected = (IF f.state \in Connected THEN 1 ELSE 0) /\ f.state \in States
    BY <1>2, <2>1 DEF View, IInv, NotifiedOnce, Connected, Up, States
  <2>3. Core(f)
    BY <2>1, <2>2 DEF View, IsEntry, Core, IInv, AtsAgrees, SessionsUsable
  <2>4. Good(f)
    BY <1>2, <2>1, <2>3 DEF View, Good, IInv, SessionsUsable, AtsAgrees, Up, Switching,
                            Handshaking
  <2> QED BY <1>2, <2>4, BecomesGood DEF f
<1>3. CASE ~(state \in Up /\ s = primary) /\ Becomes(CheckBlacklist(Suggested(State, s), s))
  <2>1. State.state \notin {"NONE", "DISCONNECT"} /\ (State.state \in Up => s # State.primary)
    BY <1>3, StateView DEF View, SwitchToAddress
  <2>2. Good(CheckBlacklist(Suggested(State, s), s))
    BY <1>0, <2>1, SuggestedGood
  <2> QED BY <1>3, <2>2, BecomesGood
<1> QED BY <1>1, <1>2, <1>3 DEF SwitchToAddress

-----------------------------------------------------------------------------
(* The blacklist.                                                          *)

(* A session that was allowed takes the entry on if it is still the one    *)
(* that is wanted.                                                         *)
LEMMA AllowedGood ==
  ASSUME NEW n, Good(n), NEW s \in Sessions, s \in n.approved
  PROVE  Good(Allowed(n, s))
<1>0. IsEntry(n)
  BY DEF Good, Core
<1>1. CASE n.state = "INIT_BLACKLIST" /\ s = n.primary
  <2> DEFINE f == Enter(n, "CONNECT_SENT", "wait")
  <2>1. Allowed(n, s) = f
    BY <1>1 DEF Allowed, AddressMatches
  <2>2. View(f, "CONNECT_SENT", n.primary, n.active, n.alternative, n.checks, n.alive,
             n.approved, n.neighbours_connected, n.inUse)
    BY <1>0, EnterView
  <2> HIDE DEF f
  <2>3. f.neighbours_connected = (IF f.state \in Connected THEN 1 ELSE 0) /\ f.state \in States
    BY <1>1, <2>2 DEF View, Good, Core, Connected, Up, Switching, Reconnecting, Handshaking,
                      States
  <2>4. Core(f)
    BY <2>2, <2>3 DEF View, IsEntry, Core, Good
  <2> QED BY <1>1, <2>1, <2>2, <2>4 DEF View, Good, Up, Switching, Handshaking
<1>2. CASE n.state = "CONNECT_RECV_BLACKLIST" /\ s = n.primary
  <2> DEFINE e == Enter(n, "CONNECT_RECV_ACK", "wait")
             f == [e EXCEPT !.ack = IF @ = 1 THEN 2 ELSE @]
  <2>1. Allowed(n, s) = f
    BY <1>2 DEF Allowed, AddressMatches
  <2>2. View(e, "CONNECT_RECV_ACK", n.primary, n.active, n.alternative, n.checks, n.alive,
             n.approved, n.neighbours_connected, n.inUse)
    BY <1>0, EnterView
  <2> HIDE DEF e
  <2>3. View(f, "CONNECT_RECV_ACK", n.primary, n.active, n.alternative, n.checks, n.alive,
             n.approved, n.neighbours_connected, n.inUse)
    BY <2>2 DEF View, Fields
  <2> HIDE DEF f
  <2>4. f.neighbours_connected = (IF f.state \in Connected THEN 1 ELSE 0) /\ f.state \in States
    BY <1>2, <2>3 DEF View, Good, Core, Connected, Up, Switching, Reconnecting, Handshaking,
                      States
  <2>5. Core(f)
    BY <2>3, <2>4 DEF View, IsEntry, Core, Good
  <2> QED BY <1>2, <2>1, <2>3, <2>5 DEF View, Good, Up, Switching, Handshaking
<1>3. CASE n.state = "RECONNECT_BLACKLIST" /\ s = n.primary
  <2> DEFINE f == Enter(n, "RECONNECT_SENT", "fast")
  <2>1. Allowed(n, s) = f
    BY <1>3 DEF Allowed, AddressMatches
  <2>2. View(f, "RECONNECT_SENT", n.primary, n.active, n.alternative, n.checks, n.alive,
             n.approved, n.neighbours_connected, n.inUse)
    BY <1>0, EnterView
  <2> HIDE DEF f
  <2>3. f.neighbours_connected = (IF f.state \in Connected THEN 1 ELSE 0) /\ f.state \in States
    BY <1>3, <2>2 DEF View, Good, Core, Connected, Reconnecting, States
  <2>4. Core(f)
    BY <2>2, <2>3 DEF View, IsEntry, Core, Good
  <2> QED BY <1>3, <2>1, <2>2, <2>4 DEF View, Good, Up, Switching, Handshaking
<1>4. CASE n.state = "CONNECTED_SWITCHING_BLACKLIST" /\ s = n.alternative
  <2> DEFINE f == [n EXCEPT !.state = "CONNECTED_SWITCHING_CONNECT_SENT"]
  <2>1. Allowed(n, s) = f
    BY <1>4 DEF Allowed, AddressMatches
  <2>2. View(f, "CONNECTED_SWITCHING_CONNECT_SENT", n.primary, n.active, n.alternative,
             n.checks, n.alive, n.approved, n.neighbours_connected, n.inUse)
    BY <1>0 DEF View, Fields, IsEntry
  <2> HIDE DEF f
  <2>3. f.neighbours_connected = (IF f.state \in Connected THEN 1 ELSE 0) /\ f.state \in States
    BY <1>4, <2>2 DEF View, Good, Core, Connected, Up, Switching, States
  <2>4. Core(f)
    BY <2>2, <2>3 DEF View, IsEntry, Core, Good
  <2> QED BY <1>4, <2>1, <2>2, <2>4 DEF View, Good, Up, Switching, Handshaking
<1>5. CASE /\ ~(n.state \in {"INIT_BLACKLIST", "CONNECT_RECV_BLACKLIST", "RECONNECT_BLACKLIST"}
                /\ s = n.primary)
           /\ ~(n.state = "CONNECTED_SWITCHING_BLACKLIST" /\ s = n.alternative)
  <2>1. Allowed(n, s) = n
    BY <1>5 DEF Allowed, AddressMatches
  <2> QED BY <2>1
<1> QED BY <1>1, <1>2, <1>3, <1>4, <1>5

(* A session that was refused makes the entry ask ATS again, or stay with  *)
(* the session it has.                                                     *)
LEMMA ForbiddenGood ==
  ASSUME NEW n, Good(n), NEW s \in Sessions
  PROVE  Good(Forbidden(n, s))
<1>0. IsEntry(n)
  BY DEF Good, Core
<1>1. CASE n.state \in {"INIT_BLACKLIST", "CONNECT_RECV_BLACKLIST"} /\ s = n.primary
  <2> DEFINE e == FreeAddress(n)
             f == Enter(e, "INIT_ATS", "wait")
  <2>1. Forbidden(n, s) = f
    BY <1>1 DEF Forbidden, AddressMatches
  <2>2. View(e, n.state, NoSession, FALSE, n.alternative, n.checks, n.alive, n.approved,
             n.neighbours_connected, IF n.active THEN n.inUse \ {n.primary} ELSE n.inUse)
    BY <1>0, FreeAddressView
  <2> HIDE DEF e
  <2>3. View(f, "INIT_ATS", e.primary, e.active, e.alternative, e.checks, e.alive,
             e.approved, e.neighbours_connected, e.inUse)
    BY <2>2, EnterView DEF View, IsEntry
  <2> HIDE DEF f
  <2>4. View(f, "INIT_ATS", NoSession, FALSE, n.alternative, n.checks, n.alive, n.approved,
             n.neighbours_connected, {})
    BY <2>2, <2>3 DEF View, Good, Core
  <2>5. f.neighbours_connected = (IF f.state \in Connected THEN 1 ELSE 0) /\ f.state \in States
    BY <1>1, <2>4 DEF View, Good, Core, Connected, Up, Switching, Reconnecting, Unanswered,
                      States
  <2>6. Core(f)
    BY <2>4, <2>5 DEF View, IsEntry, Core, Good
  <2> QED BY <1>1, <2>1, <2>4, <2>6 DEF View, Good, Up, Switching, Handshaking
<1>2. CASE n.state = "RECONNECT_BLACKLIST" /\ s = n.primary
  <2> DEFINE f == Enter(n, "RECONNECT_ATS", "wait")
  <2>1. Forbidden(n, s) = f
    BY <1>2 DEF Forbidden, AddressMatches
  <2>2. View(f, "RECONNECT_ATS", n.primary, n.active, n.alternative, n.checks, n.alive,
             n.approved, n.neighbours_connected, n.inUse)
    BY <1>0, EnterView
  <2> HIDE DEF f
  <2>3. f.neighbours_connected = (IF f.state \in Connected THEN 1 ELSE 0) /\ f.state \in States
    BY <1>2, <2>2 DEF View, Good, Core, Connected, Reconnecting, States
  <2>4. Core(f)
    BY <2>2, <2>3 DEF View, IsEntry, Core, Good
  <2> QED BY <1>2, <2>1, <2>2, <2>4 DEF View, Good, Up, Switching, Handshaking
<1>3. CASE n.state = "CONNECTED_SWITCHING_BLACKLIST" /\ s = n.alternative
  <2> DEFINE f == [n EXCEPT !.alternative = NoSession, !.state = "CONNECTED"]
  <2>1. Forbidden(n, s) = f
    BY <1>3 DEF Forbidden, AddressMatches
  <2>2. View(f, "CONNECTED", n.primary, n.active, NoSession, n.checks, n.alive,
             n.approved, n.neighbours_connected, n.inUse)
    BY <1>0 DEF View, Fields, IsEntry
  <2> HIDE DEF f
  <2>3. f.neighbours_connected = (IF f.state \in Connected THEN 1 ELSE 0) /\ f.state \in States
    BY <1>3, <2>2 DEF View, Good, Core, Connected, Up, Switching, States
  <2>4. Core(f)
    BY <2>2, <2>3 DEF View, IsEntry, Core, Good
  <2> QED BY <1>3, <2>1, <2>2, <2>4 DEF View, Good, Up, Switching, Handshaking
<1>4. CASE /\ ~(n.state \in {"INIT_BLACKLIST", "CONNECT_RECV_BLACKLIST", "RECONNECT_BLACKLIST"}
                /\ s = n.primary)
           /\ ~(n.state = "CONNECTED_SWITCHING_BLACKLIST" /\ s = n.alternative)
  <2>1. Forbidden(n, s) = n
    BY <1>4 DEF Forbidden, AddressMatches
  <2> QED BY <2>1
<1> QED BY <1>1, <1>2, <1>3, <1>4

(* handle_test_blacklist_cont.                                             *)
LEMMA HandleTestBlacklistContStep ==
  ASSUME IInv, NEW s \in Sessions, NEW ok \in BOOLEAN, HandleTestBlacklistCont(s, ok)
  PROVE  IInv'
<1> DEFINE g == [State EXCEPT !.checks[s] = @ - 1,
                              !.approved = IF ok THEN @ \cup {s} ELSE @]
           n == AckPending(g, ok)
           e == Enter(n, "CONNECT_RECV_ATS", "wait")
<1>1. View(g, state, primary, active, alternative, [checks EXCEPT ![s] = @ - 1], alive,
           IF ok THEN approved \cup {s} ELSE approved, neighbours_connected, inUse)
  BY StateView DEF View, Fields
<1>2. \/ n.state = "CONNECT_RECV_BLACKLIST_INBOUND" /\ Becomes(e)
      \/ n.state # "CONNECT_RECV_BLACKLIST_INBOUND" /\ ok /\ Becomes(Allowed(n, s))
      \/ n.state # "CONNECT_RECV_BLACKLIST_INBOUND" /\ ~ok /\ Becomes(Forbidden(n, s))
  BY DEF HandleTestBlacklistCont
<1> HIDE DEF g
<1>3. View(n, g.state, g.primary, g.active, g.alternative, g.checks, g.alive, g.approved,
           g.neighbours_connected, g.inUse)
  BY <1>1 DEF View, AckPending, Fields
<1> HIDE DEF n
<1>4. View(n, state, primary, active, alternative, [checks EXCEPT ![s] = @ - 1], alive,
           IF ok THEN approved \cup {s} ELSE approved, neighbours_connected, inUse)
  BY <1>1, <1>3 DEF View
<1>5. checks[s] > 0 /\ s \in alive
  BY DEF HandleTestBlacklistCont, IInv, SessionsUsable
<1>6. Core(n)
  <2>1. n.checks \in [Sessions -> Int] /\ \A t \in Sessions : n.checks[t] > 0 => t \in n.alive
    BY <1>4, <1>5 DEF View, IInv, SessionsUsable
  <2>2. n.approved \subseteq n.alive
    BY <1>4, <1>5 DEF View, IInv
  <2> QED BY <1>4, <2>1, <2>2 DEF View, IsEntry, Core, IInv, NotifiedOnce, AtsAgrees
<1>7. Good(n)
  BY <1>4, <1>6 DEF View, Good, IInv, SessionsUsable, AtsAgrees, ApprovedFirst, Up,
                    Switching, Handshaking
<1>8. CASE n.state = "CONNECT_RECV_BLACKLIST_INBOUND" /\ Becomes(e)
  <2>1. View(e, "CONNECT_RECV_ATS", n.primary, n.active, n.alternative, n.checks, n.alive,
             n.approved, n.neighbours_connected, n.inUse)
    BY <1>6, EnterView DEF Core
  <2> HIDE DEF e
  <2>2. e.neighbours_connected = (IF e.state \in Connected THEN 1 ELSE 0) /\ e.state \in States
    BY <1>6, <1>8, <2>1 DEF View, Core, Connected, Up, Switching, Reconnecting, Unanswered,
                            States
  <2>3. Core(e)
    BY <1>6, <2>1, <2>2 DEF View, IsEntry, Core
  <2>4. Good(e)
    BY <1>7, <1>8, <2>1, <2>3 DEF View, Good, Up, Switching, Handshaking
  <2> QED BY <1>8, <2>4, BecomesGood
<1>9. CASE ok /\ Becomes(Allowed(n, s))
  <2>1. s \in n.approved
    BY <1>4, <1>9 DEF View
  <2>2. Good(Allowed(n, s))
    BY <1>7, <2>1, AllowedGood
  <2> QED BY <1>9, <2>2, BecomesGood
<1>10. CASE ~ok /\ Becomes(Forbidden(n, s))
  <2>1. Good(Forbidden(n, s))
    BY <1>7, ForbiddenGood
  <2> QED BY <1>10, <2>1, BecomesGood
<1> QED BY <1>2, <1>8, <1>9, <1>10

-----------------------------------------------------------------------------
(* The plugins.                                                            *)

(* What the entry knows of a record n whose primary session has just       *)
(* ended: it is Good but for the session.                                  *)
Bereft(n) ==
  /\ Core(n)
  /\ n.primary \in Sessions
  /\ n.state \in Switching => n.alternative \in n.alive
  /\ n.alternative # NoSession => n.state \in Switching \cup {"DISCONNECT"}
  /\ n.active => n.state \in Up \cup {"DISCONNECT"}
  /\ n.state = "CONNECTED_SWITCHING_CONNECT_SENT" => n.alternative \in n.approved
  /\ n.state \notin {"NONE", "INIT_ATS", "CONNECT_RECV_BLACKLIST_INBOUND", "CONNECT_RECV_ATS"}

(* The entry gives up its session and waits for ATS.                       *)
LEMMA ReleasedGood ==
  ASSUME NEW n, Bereft(n),
         NEW st, \/ n.state \in {"INIT_BLACKLIST", "CONNECT_SENT"} /\ st = "INIT_ATS"
                 \/ n.state = "CONNECTED" /\ st = "RECONNECT_ATS"
  PROVE  Good(Enter(FreeAddress(n), st, "wait"))
<1> DEFINE e == FreeAddress(n)
           f == Enter(e, st, "wait")
<1>1. View(e, n.state, NoSession, FALSE, n.alternative, n.checks, n.alive, n.approved,
           n.neighbours_connected, IF n.active THEN n.inUse \ {n.primary} ELSE n.inUse)
  BY FreeAddressView DEF Bereft, Core
<1> HIDE DEF e
<1>2. View(f, st, e.primary, e.active, e.alternative, e.checks, e.alive,
           e.approved, e.neighbours_connected, e.inUse)
  BY <1>1, EnterView DEF View, IsEntry
<1> HIDE DEF f
<1>3. View(f, st, NoSession, FALSE, n.alternative, n.checks, n.alive, n.approved,
           n.neighbours_connected, {})
  BY <1>1, <1>2 DEF View, Bereft, Core
<1>4. f.neighbours_connected = (IF f.state \in Connected THEN 1 ELSE 0) /\ f.state \in States
  BY <1>3 DEF View, Bereft, Core, Connected, Up, Switching, Reconnecting, Unanswered, States
<1>5. Core(f)
  BY <1>3, <1>4 DEF View, IsEntry, Core, Bereft
<1>6. n.alternative = NoSession
  BY DEF Bereft, Switching
<1>7. Good(f)
  BY <1>3, <1>5, <1>6 DEF View, Good, Up, Switching, Handshaking
<1> QED BY <1>7 DEF f, e

(* A connected entry goes on with the session it was about to switch to.   *)
LEMMA AdoptedGood ==
  ASSUME NEW n, Bereft(n),
         NEW st, \/ n.state = "CONNECTED_SWITCHING_BLACKLIST" /\ st = "RECONNECT_BLACKLIST"
                 \/ n.state = "CONNECTED_SWITCHING_CONNECT_SENT" /\ st = "RECONNECT_SENT"
  PROVE  Good(Enter(AdoptAlternative(n), st, "fast"))
<1> DEFINE g == FreeAddress(n)
           e == [g EXCEPT !.primary = n.alternative, !.alternative = NoSession]
           f == Enter(e, st, "fast")
<1>0. AdoptAlternative(n) = e
  BY DEF AdoptAlternative
<1>1. View(g, n.state, NoSession, FALSE, n.alternative, n.checks, n.alive, n.approved,
           n.neighbours_connected, IF n.active THEN n.inUse \ {n.primary} ELSE n.inUse)
  BY FreeAddressView DEF Bereft, Core
<1> HIDE DEF g
<1>2. View(e, g.state, n.alternative, g.active, NoSession, g.checks, g.alive, g.approved,
           g.neighbours_connected, g.inUse)
  BY <1>1 DEF View, Fields
<1> HIDE DEF e
<1>3. View(f, st, e.primary, e.active, e.alternative, e.checks, e.alive,
           e.approved, e.neighbours_connected, e.inUse)
  BY <1>2, EnterView DEF View, IsEntry
<1> HIDE DEF f
<1>4. View(f, st, n.alternative, FALSE, NoSession, n.checks, n.alive, n.approved,
           n.neighbours_connected, {})
  BY <1>1, <1>2, <1>3 DEF View, Bereft, Core
<1>5. f.neighbours_connected = (IF f.state \in Connected THEN 1 ELSE 0) /\ f.state \in States
  BY <1>4 DEF View, Bereft, Core, Connected, Up, Switching, Reconnecting, States
<1>6. Core(f)
  BY <1>4, <1>5 DEF View, IsEntry, Core, Bereft
<1>7. n.alternative \in n.alive
  BY DEF Bereft, Switching
<1>8. Good(f)
  BY <1>4, <1>6, <1>7 DEF View, Good, Bereft, Up, Switching, Handshaking
<1> QED BY <1>0, <1>8 DEF f

(* The end of the primary session in every state of the entry.             *)
LEMMA PrimaryLostGood ==
  ASSUME NEW n, Bereft(n)
  PROVE  Good(PrimaryLost(n))
<1>0. Core(n) /\ IsEntry(n)
  BY DEF Bereft, Core
<1>1. CASE n.state \in {"INIT_BLACKLIST", "CONNECT_SENT"}
  <2>1. PrimaryLost(n) = Enter(FreeAddress(n), "INIT_ATS", "wait")
    BY <1>1 DEF PrimaryLost
  <2> QED BY <1>1, <2>1, ReleasedGood
<1>2. CASE n.state \in {"CONNECT_RECV_BLACKLIST", "CONNECT_RECV_ACK"}
  <2> DEFINE f == FreeAddress(n)
  <2>1. PrimaryLost(n) = FreeNeighbour(f, FALSE)
    BY <1>2 DEF PrimaryLost
  <2>2. View(f, n.state, NoSession, FALSE, n.alternative, n.checks, n.alive, n.approved,
             n.neighbours_connected, IF n.active THEN n.inUse \ {n.primary} ELSE n.inUse)
    BY <1>0, FreeAddressView
  <2> HIDE DEF f
  <2>3. f.inUse = {}
    BY <1>0, <2>2 DEF View, Core
  <2>4. Core(f)
    BY <1>0, <2>2, <2>3 DEF View, IsEntry, Core
  <2> QED BY <2>1, <2>4, FreeNeighbourGood
<1>3. CASE n.state = "CONNECTED"
  <2>1. PrimaryLost(n) = Enter(FreeAddress(n), "RECONNECT_ATS", "wait")
    BY <1>3 DEF PrimaryLost
  <2> QED BY <1>3, <2>1, ReleasedGood
<1>4. CASE n.state \in {"RECONNECT_BLACKLIST", "RECONNECT_SENT"}
  <2> DEFINE f == Enter(n, "RECONNECT_ATS", "wait")
  <2>1. PrimaryLost(n) = f
    BY <1>4 DEF PrimaryLost
  <2>2. View(f, "RECONNECT_ATS", n.primary, n.active, n.alternative, n.checks, n.alive,
             n.approved, n.neighbours_connected, n.inUse)
    BY <1>0, EnterView
  <2> HIDE DEF f
  <2>3. f.neighbours_connected = (IF f.state \in Connected THEN 1 ELSE 0) /\ f.state \in States
    BY <1>4, <2>2 DEF View, Bereft, Core, Connected, Reconnecting, States
  <2>4. Core(f)
    BY <2>2, <2>3 DEF View, IsEntry, Core, Bereft
  <2>5. ~n.active /\ n.alternative = NoSession /\ n.inUse = {}
    BY <1>4 DEF Bereft, Core, Up, Switching
  <2> QED BY <2>1, <2>2, <2>4, <2>5 DEF View, Good, Up, Switching, Handshaking
<1>5. CASE n.state = "CONNECTED_SWITCHING_BLACKLIST"
  <2>1. PrimaryLost(n) = Enter(AdoptAlternative(n), "RECONNECT_BLACKLIST", "fast")
    BY <1>5 DEF PrimaryLost
  <2> QED BY <1>5, <2>1, AdoptedGood
<1>6. CASE n.state = "CONNECTED_SWITCHING_CONNECT_SENT"
  <2>1. PrimaryLost(n) = Enter(AdoptAlternative(n), "RECONNECT_SENT", "fast")
    BY <1>6 DEF PrimaryLost
  <2> QED BY <1>6, <2>1, AdoptedGood
<1>7. CASE n.state = "DISCONNECT"
  <2> DEFINE f == FreeAddress(n)
  <2>1. PrimaryLost(n) = f
    BY <1>7 DEF PrimaryLost
  <2>2. View(f, n.state, NoSession, FALSE, n.alternative, n.checks, n.alive, n.approved,
             n.neighbours_connected, IF n.active THEN n.inUse \ {n.primary} ELSE n.inUse)
    BY <1>0, FreeAddressView
  <2> HIDE DEF f
  <2>3. f.inUse = {}
    BY <1>0, <2>2 DEF View, Core
  <2>4. Core(f)
    BY <1>0, <2>2, <2>3 DEF View, IsEntry, Core
  <2> QED BY <1>7, <2>1, <2>2, <2>3, <2>4 DEF View, Good, Up, Switching, Handshaking
<1>8. CASE n.state = "RECONNECT_ATS"
  <2>1. PrimaryLost(n) = n
    BY <1>8 DEF PrimaryLost
  <2>2. ~n.active /\ n.alternative = NoSession /\ n.inUse = {}
    BY <1>8 DEF Bereft, Core, Up, Switching
  <2> QED BY <1>0, <1>8, <2>1, <2>2 DEF Good, Up, Switching, Handshaking
<1> QED BY <1>1, <1>2, <1>3, <1>4, <1>5, <1>6, <1>7, <1>8
        DEF Bereft, Core, States, Unanswered, Handshaking, Connected, Up, Switching,
            Reconnecting

(* GST_neighbours_session_terminated.                                      *)
LEMMA SessionTerminatedStep ==
  ASSUME IInv, NEW s \in Sessions, SessionTerminated(s)
  PROVE  IInv'
<1> DEFINE g == [State EXCEPT !.alive = @ \ {s}, !.approved = @ \ {s}]
           n == CancelChecks(g, s)
           m == [n EXCEPT !.expect = FALSE]
           a == [n EXCEPT !.alternative = NoSession,
                          !.state = IF @ \in Switching THEN "CONNECTED" ELSE @]
<1>1. View(g, state, primary, active, alternative, checks, alive \ {s}, approved \ {s},
           neighbours_connected, inUse)
  BY StateView DEF View, Fields
<1>2. \/ s = primary /\ Becomes(PrimaryLost(m))
      \/ s # primary /\ s = alternative /\ Becomes(a)
      \/ s # primary /\ s # alternative /\ Becomes(n)
  BY DEF SessionTerminated
<1> HIDE DEF g
<1>3. View(n, state, primary, active, alternative, [checks EXCEPT ![s] = 0], alive \ {s},
           approved \ {s}, neighbours_connected, inUse)
  BY <1>1 DEF View, CancelChecks, Fields
<1> HIDE DEF n
<1>4. Core(n)
  <2>1. n.checks \in [Sessions -> Int] /\ \A t \in Sessions : n.checks[t] > 0 => t \in n.alive
    BY <1>3 DEF View, IInv, SessionsUsable
  <2>2. n.approved \subseteq n.alive /\ n.alive \subseteq Sessions
    BY <1>3 DEF View, IInv
  <2> QED BY <1>3, <2>1, <2>2 DEF View, IsEntry, Core, IInv, NotifiedOnce, AtsAgrees
<1>5. CASE s = primary /\ Becomes(PrimaryLost(m))
  <2>1. View(m, state, primary, active, alternative, [checks EXCEPT ![s] = 0], alive \ {s},
             approved \ {s}, neighbours_connected, inUse)
    BY <1>3 DEF View, Fields
  <2> HIDE DEF m
  <2>2. Core(m)
    BY <1>3, <1>4, <2>1 DEF View, Core, IsEntry
  <2>3. Bereft(m)
    BY <1>5, <2>1, <2>2, SessionAssumption
       DEF View, Bereft, IInv, SessionsUsable, AtsAgrees, ApprovedFirst, Up, Switching
  <2>4. Good(PrimaryLost(m))
    BY <2>3, PrimaryLostGood
  <2> QED BY <1>5, <2>4, BecomesGood
<1>6. CASE s # primary /\ s = alternative /\ Becomes(a)
  <2>1. View(a, IF state \in Switching THEN "CONNECTED" ELSE state, primary, active, NoSession,
             [checks EXCEPT ![s] = 0], alive \ {s}, approved \ {s}, neighbours_connected,
             inUse)
    BY <1>3 DEF View, Fields
  <2> HIDE DEF a
  <2>2. state \in Switching \cup {"DISCONNECT"}
    BY <1>6, SessionAssumption DEF IInv, SessionsUsable
  <2>3. a.neighbours_connected = (IF a.state \in Connected THEN 1 ELSE 0) /\ a.state \in States
    BY <2>1, <2>2 DEF View, IInv, NotifiedOnce, Connected, Up, Switching, States
  <2>4. Core(a)
    BY <1>3, <1>4, <2>1, <2>3 DEF View, Core, IsEntry
  <2>5. Good(a)
    BY <1>6, <2>1, <2>2, <2>4
       DEF View, Good, IInv, SessionsUsable, AtsAgrees, Up, Switching, Handshaking
  <2> QED BY <1>6, <2>5, BecomesGood
<1>7. CASE s # primary /\ s # alternative /\ Becomes(n)
  <2>1. Good(n)
    BY <1>3, <1>4, <1>7
       DEF View, Good, IInv, SessionsUsable, AtsAgrees, ApprovedFirst, Up, Switching,
           Handshaking
  <2> QED BY <1>7, <2>1, BecomesGood
<1> QED BY <1>2, <1>5, <1>6, <1>7

(* transmit_send_continuation touches the queue only.                      *)
LEMMA TransmitSendContinuationStep ==
  ASSUME IInv, NEW s \in Sessions, TransmitSendContinuation(s)
  PROVE  IInv'
BY DEF TransmitSendContinuation, IInv, NotifiedOnce, SessionsUsable, AtsAgrees, ApprovedFirst

-----------------------------------------------------------------------------
(* Time.                                                                   *)

(* The passing of a timeout.                                               *)
LEMMA TimeoutPassesStep ==
  ASSUME IInv, TimeoutPasses
  PROVE  IInv'
<1> DEFINE f == [State EXCEPT !.timeout = "passed"]
<1>1. View(f, state, primary, active, alternative, checks, alive, approved,
           neighbours_connected, inUse)
  BY StateView DEF View, Fields
<1>2. Becomes(f)
  BY DEF TimeoutPasses
<1> HIDE DEF f
<1> QED BY <1>1, <1>2, SameView, BecomesGood

(* master_task after the timeout.                                          *)
LEMMA MasterExpiredStep ==
  ASSUME IInv, MasterExpired
  PROVE  IInv'
<1>1. Good(State) /\ State.state # "NONE"
  BY GoodState, StateView DEF MasterExpired, View
<1>2. Good(DisconnectNeighbour(State))
  BY <1>1, DisconnectNeighbourGood
<1> QED BY <1>2, BecomesGood DEF MasterExpired

(* master_task in state DISCONNECT.                                        *)
LEMMA MasterDisconnectStep ==
  ASSUME IInv, MasterDisconnect
  PROVE  IInv'
<1>1. Core(State)
  BY GoodState DEF Good
<1>2. Good(FreeNeighbour(State, FALSE))
  BY <1>1, FreeNeighbourGood
<1> QED BY <1>2, BecomesGood DEF MasterDisconnect

(* master_task of a connected entry touches the queue and the keepalive.   *)
LEMMA MasterConnectedStep ==
  ASSUME IInv, MasterConnected
  PROVE  IInv'
<1> PICK late \in 0 .. queued, due \in BOOLEAN :
         Becomes(SendKeepalive(TryTransmission(State, late), due))
  BY DEF MasterConnected
<1> DEFINE g == TryTransmission(State, late)
           f == SendKeepalive(g, due)
<1>1. View(g, state, primary, active, alternative, checks, alive, approved,
           neighbours_connected, inUse)
  BY StateView DEF View, TryTransmission, Fields
<1> HIDE DEF g
<1>2. View(f, state, primary, active, alternative, checks, alive, approved,
           neighbours_connected, inUse)
  BY <1>1 DEF View, SendKeepalive, Fields
<1>3. Becomes(f)
  BY DEF g
<1> HIDE DEF f
<1> QED BY <1>2, <1>3, SameView, BecomesGood

-----------------------------------------------------------------------------
(* The theorems.                                                           *)

(* Every reachable state satisfies the invariant.                          *)
THEOREM InvariantHolds == Spec => []IInv
<1>1. Init => IInv
  <2> SUFFICES ASSUME Init
               PROVE  IInv
    OBVIOUS
  <2>1. NotifiedOnce /\ state \in States
    BY DEF Init, NotifiedOnce, States, Connected, Up, Switching, Reconnecting
  <2>2. SessionsUsable
    BY DEF Init, SessionsUsable, Up, Switching, Handshaking
  <2>3. AtsAgrees /\ ApprovedFirst
    BY DEF Init, AtsAgrees, ApprovedFirst
  <2>4. checks \in [Sessions -> Int]
    BY DEF Init
  <2>5. active \in BOOLEAN
    BY Zenon DEF Init
  <2>6. /\ {primary, alternative} \subseteq {NoSession}
        /\ alive = {} /\ approved = {} /\ neighbours_connected \in Int
    BY DEF Init
  <2> QED BY <2>1, <2>2, <2>3, <2>4, <2>5, <2>6 DEF IInv
<1>2. IInv /\ [Next]_vars => IInv'
  <2> SUFFICES ASSUME IInv, [Next]_vars
               PROVE  IInv'
    OBVIOUS
  <2>1. CASE UNCHANGED vars
    BY <2>1 DEF vars, entry, IInv, NotifiedOnce, SessionsUsable, AtsAgrees, ApprovedFirst
  <2>2. CASE \E s \in Sessions :
               \/ HandleConnect(s)
               \/ HandleConnectDisconnecting(s)
               \/ SwitchToAddress(s)
               \/ SessionTerminated(s)
               \/ TransmitSendContinuation(s)
               \/ \E ok \in BOOLEAN : HandleTestBlacklistCont(s, ok)
    BY <2>2, HandleConnectStep, HandleConnectDisconnectingStep, SwitchToAddressStep,
       SessionTerminatedStep, TransmitSendContinuationStep, HandleTestBlacklistContStep
  <2> QED BY <2>1, <2>2, TryConnectStep, SendStep, DisconnectStep, HandleConnectAckStep,
             HandleSessionAckStep, KeepaliveResponseStep, TimeoutPassesStep,
             MasterExpiredStep, MasterDisconnectStep, MasterConnectedStep DEF Next
<1> QED BY <1>1, <1>2, PTL DEF Spec

(* Clients of the transport service are told of a connection exactly while *)
(* it lasts, whatever the entry goes through (neighbours_connected).       *)
THEOREM NotifiedOnceHolds == Spec => []NotifiedOnce
<1>1. IInv => NotifiedOnce
  BY DEF IInv
<1> QED BY <1>1, InvariantHolds, PTL

(* No message, no switch and no blacklist check uses a session that its    *)
(* plugin has ended (GST_neighbours_session_terminated).                   *)
THEOREM SessionsUsableHolds == Spec => []SessionsUsable
<1>1. IInv => SessionsUsable
  BY DEF IInv
<1> QED BY <1>1, InvariantHolds, PTL

(* ATS and the entry agree on the session that is in use (set_address,     *)
(* free_address).                                                          *)
THEOREM AtsAgreesHolds == Spec => []AtsAgrees
<1>1. IInv => AtsAgrees
  BY DEF IInv
<1> QED BY <1>1, InvariantHolds, PTL

(* CONNECT is sent over sessions only that the blacklist allowed           *)
(* (handle_test_blacklist_cont).                                           *)
THEOREM ApprovedFirstHolds == Spec => []ApprovedFirst
<1>1. IInv => ApprovedFirst
  BY DEF IInv
<1> QED BY <1>1, InvariantHolds, PTL

-----------------------------------------------------------------------------
(* Sums over finite sets.                                                  *)

(* Induction over the subsets of a finite set, for a set good of subsets.  *)
LEMMA SubsetInduction ==
  ASSUME NEW S, IsFiniteSet(S), NEW good,
         \A t \in SUBSET S : (\A x \in t : t \ {x} \in good) => t \in good
  PROVE  \A t \in SUBSET S : t \in good
<1> DEFINE size(t) == Cardinality(t)
           N == {n \in Nat : \E t \in SUBSET S : t \notin good /\ size(t) = n}
<1>1. \A t \in SUBSET S : IsFiniteSet(t) /\ size(t) \in Nat
  BY FS_Subset, FS_CardinalityType
<1>2. \A t \in SUBSET S : \A x \in t : t \ {x} \in SUBSET S /\ size(t \ {x}) = size(t) - 1
  BY <1>1, FS_RemoveElement
<1> HIDE DEF size
<1>3. SUFFICES ASSUME NEW u \in SUBSET S, u \notin good PROVE FALSE
  OBVIOUS
<1>4. N # {} /\ N \subseteq Nat
  <2>1. size(u) \in N
    BY <1>1, <1>3
  <2> QED BY <2>1
<1>5. PICK n \in N : \A m \in N : n <= m
  <2> HIDE DEF N
  <2> QED BY <1>4, LeastElement
<1>6. PICK t \in SUBSET S : t \notin good /\ size(t) = n
  OBVIOUS
<1>7. PICK x \in t : t \ {x} \notin good
  BY <1>6
<1>8. size(t \ {x}) = n - 1 /\ n - 1 \in Nat
  <2>1. t \ {x} \in SUBSET S /\ size(t \ {x}) = n - 1
    BY <1>2, <1>6
  <2> QED BY <1>1, <2>1
<1>9. n - 1 \in N
  BY <1>2, <1>7, <1>8
<1> QED BY <1>5, <1>8, <1>9

(* The element that the sum takes first.                                   *)
Pick(t) == CHOOSE x \in t : TRUE

(* f is the sum of h over the sets of D.                                   *)
Sums(f, h, D) == f = [t \in D |-> IF t = {} THEN 0 ELSE h[Pick(t)] + f[t \ {Pick(t)}]]

(* The sum over S, as the library defines it.                              *)
Total(h, S) == (CHOOSE f : Sums(f, h, SUBSET S))[S]

(* HeldFor is such a sum.                                                  *)
LEMMA HeldForTotal ==
  ASSUME NEW n, NEW S
  PROVE  HeldFor(n, S) = Total(n.held, S)
BY Zenon DEF HeldFor, MapThenSumSet, MapThenFoldSet, Total, Sums, Pick

(* It is an element.                                                       *)
LEMMA PickIn == \A t : t # {} => Pick(t) \in t
BY DEF Pick

(* There is such a function for the subsets of a finite set.               *)
LEMMA SumsExist ==
  ASSUME NEW h, NEW S, IsFiniteSet(S)
  PROVE  \E f : Sums(f, h, SUBSET S)
<1> DEFINE size(t) == Cardinality(t)
           Level(k) == {t \in SUBSET S : size(t) <= k}
           N == {k \in Nat : ~\E f : Sums(f, h, Level(k))}
<1>1. \A t \in SUBSET S :
        IsFiniteSet(t) /\ size(t) \in Nat /\ size(t) <= size(S) /\ (size(t) = 0 <=> t = {})
  BY FS_Subset, FS_CardinalityType, FS_EmptySet
<1>2. \A t \in SUBSET S : \A x \in t : t \ {x} \in SUBSET S /\ size(t \ {x}) = size(t) - 1
  BY <1>1, FS_RemoveElement
<1> HIDE DEF size
<1>3. SUBSET S = Level(size(S)) /\ size(S) \in Nat
  BY <1>1
<1>4. SUFFICES ASSUME N # {} PROVE FALSE
  BY <1>3, Zenon
<1>5. PICK k \in N : \A m \in N : k <= m
  <2>1. N \subseteq Nat
    OBVIOUS
  <2> HIDE DEF N
  <2> QED BY <1>4, <2>1, LeastElement
<1>6. CASE k = 0
  <2> DEFINE g == [t \in Level(0) |-> 0]
  <2>1. \A t \in Level(0) : t = {}
    BY <1>1
  <2>2. Sums(g, h, Level(0))
    BY <2>1 DEF Sums
  <2> QED BY <1>6, <2>2
<1>7. CASE k # 0
  <2>0. k \in Nat
    OBVIOUS
  <2>1. k - 1 \in Nat /\ k - 1 \notin N
    <3> HIDE DEF N
    <3> QED BY <1>5, <1>7, <2>0
  <2>2. PICK f : Sums(f, h, Level(k - 1))
    BY <2>1
  <2> DEFINE g == [t \in Level(k) |-> IF t = {} THEN 0 ELSE h[Pick(t)] + f[t \ {Pick(t)}]]
  <2>3. \A t \in Level(k) : t # {} => t \ {Pick(t)} \in Level(k - 1) /\ t \ {Pick(t)} \in Level(k)
    <3> SUFFICES ASSUME NEW t \in Level(k), t # {}
                 PROVE  t \ {Pick(t)} \in Level(k - 1) /\ t \ {Pick(t)} \in Level(k)
      OBVIOUS
    <3>1. t \ {Pick(t)} \in SUBSET S /\ size(t \ {Pick(t)}) = size(t) - 1 /\ size(t) \in Nat
      BY <1>1, <1>2, PickIn
    <3> QED BY <2>1, <3>1
  <2> HIDE DEF Level
  <2>4. \A t \in Level(k - 1) : f[t] = IF t = {} THEN 0 ELSE h[Pick(t)] + f[t \ {Pick(t)}]
    BY <2>2 DEF Sums
  <2>5. \A t \in Level(k) : t # {} => f[t \ {Pick(t)}] = g[t \ {Pick(t)}]
    BY <2>3, <2>4
  <2>6. \A t \in Level(k) : g[t] = IF t = {} THEN 0 ELSE h[Pick(t)] + g[t \ {Pick(t)}]
    BY <2>5
  <2>7. g = [t \in Level(k) |-> g[t]]
    OBVIOUS
  <2> HIDE DEF g
  <2>8. Sums(g, h, Level(k))
    BY <2>6, <2>7 DEF Sums
  <2> QED BY <2>8
<1> QED BY <1>6, <1>7


(* The sum over a subset does not depend on where the subset comes from,   *)
(* and on the elements of the subset only.                                 *)
LEMMA SumsAgree ==
  ASSUME NEW S, IsFiniteSet(S), NEW T \in SUBSET S, NEW f, NEW g, NEW h, NEW k,
         Sums(f, h, SUBSET S), Sums(g, k, SUBSET T), \A x \in T : h[x] = k[x]
  PROVE  f[T] = g[T]
<1> DEFINE good == {t \in SUBSET T : f[t] = g[t]}
<1>1. IsFiniteSet(T)
  BY FS_Subset
<1>2. ASSUME NEW t \in SUBSET T, \A x \in t : t \ {x} \in good PROVE f[t] = g[t]
  <2>1. /\ f[t] = IF t = {} THEN 0 ELSE h[Pick(t)] + f[t \ {Pick(t)}]
        /\ g[t] = IF t = {} THEN 0 ELSE k[Pick(t)] + g[t \ {Pick(t)}]
    BY DEF Sums
  <2>2. t # {} => Pick(t) \in t /\ h[Pick(t)] = k[Pick(t)]
    BY PickIn
  <2>3. t # {} => f[t \ {Pick(t)}] = g[t \ {Pick(t)}]
    BY <1>2, <2>2
  <2> QED BY <2>1, <2>2, <2>3
<1>3. \A t \in SUBSET T : (\A x \in t : t \ {x} \in good) => t \in good
  BY <1>2
<1>4. T \in good
  <2> HIDE DEF good
  <2>1. \A t \in SUBSET T : t \in good
    BY <1>1, <1>3, SubsetInduction
  <2> QED BY <2>1
<1> QED BY <1>4

(* Equal terms have equal sums.                                            *)
LEMMA TotalSame ==
  ASSUME NEW S, IsFiniteSet(S), NEW h, NEW k, \A x \in S : h[x] = k[x]
  PROVE  Total(h, S) = Total(k, S)
<1> DEFINE f == CHOOSE g : Sums(g, h, SUBSET S)
           e == CHOOSE g : Sums(g, k, SUBSET S)
<1>1. Sums(f, h, SUBSET S) /\ Sums(e, k, SUBSET S)
  BY SumsExist, Zenon
<1>2. Total(h, S) = f[S] /\ Total(k, S) = e[S]
  BY Zenon DEF Total
<1> HIDE DEF f, e
<1> QED BY <1>1, <1>2, SumsAgree

(* A sum is a number, and any of its terms can be taken out of it.         *)
LEMMA TotalTerm ==
  ASSUME NEW S, IsFiniteSet(S), NEW h, \A x \in S : h[x] \in Nat
  PROVE  \A t \in SUBSET S :
           /\ Total(h, t) \in Nat
           /\ t = {} => Total(h, t) = 0
           /\ \A x \in t : Total(h, t) = h[x] + Total(h, t \ {x})
<1> DEFINE f == CHOOSE g : Sums(g, h, SUBSET S)
<1>1. Sums(f, h, SUBSET S)
  BY SumsExist, Zenon
<1> HIDE DEF f
<1>2. ASSUME NEW t \in SUBSET S PROVE Total(h, t) = f[t]
  <2> DEFINE e == CHOOSE g : Sums(g, h, SUBSET t)
  <2>1. Sums(e, h, SUBSET t)
    BY SumsExist, FS_Subset, Zenon
  <2>2. Total(h, t) = e[t]
    BY Zenon DEF Total
  <2> HIDE DEF e
  <2>3. f[t] = e[t]
    <3>1. \A T \in SUBSET S : \A g :
            Sums(g, h, SUBSET T) /\ (\A x \in T : h[x] = h[x]) => f[T] = g[T]
      BY <1>1, SumsAgree
    <3> QED BY <2>1, <3>1
  <2> QED BY <2>2, <2>3
<1>3. \A t \in SUBSET S : f[t] = IF t = {} THEN 0 ELSE h[Pick(t)] + f[t \ {Pick(t)}]
  BY <1>1 DEF Sums
<1>4. \A t \in SUBSET S : f[t] \in Nat
  <2> DEFINE good == {t \in SUBSET S : f[t] \in Nat}
  <2>1. ASSUME NEW t \in SUBSET S, \A x \in t : t \ {x} \in good PROVE t \in good
    <3>1. t # {} => h[Pick(t)] \in Nat /\ f[t \ {Pick(t)}] \in Nat
      BY <2>1, PickIn
    <3> QED BY <1>3, <3>1
  <2>2. \A t \in SUBSET S : t \in good
    <3> HIDE DEF good
    <3> QED BY <2>1, SubsetInduction
  <2> QED BY <2>2
<1>5. \A t \in SUBSET S : \A x \in t : f[t] = h[x] + f[t \ {x}]
  <2> DEFINE good == {t \in SUBSET S : \A x \in t : f[t] = h[x] + f[t \ {x}]}
  <2>1. ASSUME NEW t \in SUBSET S, \A x \in t : t \ {x} \in good, NEW x \in t
        PROVE  f[t] = h[x] + f[t \ {x}]
    <3> DEFINE p == Pick(t)
    <3>1. p \in t /\ f[t] = h[p] + f[t \ {p}]
      BY <1>3, PickIn
    <3> HIDE DEF p
    <3>2. CASE x = p
      BY <3>1, <3>2
    <3>3. CASE x # p
      <4>1. f[t \ {p}] = h[x] + f[(t \ {p}) \ {x}]
        BY <2>1, <3>1, <3>3
      <4>2. f[t \ {x}] = h[p] + f[(t \ {x}) \ {p}]
        BY <2>1, <3>1, <3>3
      <4>3. (t \ {p}) \ {x} = (t \ {x}) \ {p} /\ (t \ {p}) \ {x} \in SUBSET S
        OBVIOUS
      <4>4. h[x] \in Nat /\ h[p] \in Nat /\ f[(t \ {p}) \ {x}] \in Nat
        BY <1>4, <3>1, <4>3
      <4> DEFINE w == f[(t \ {p}) \ {x}]
      <4>5. f[(t \ {x}) \ {p}] = w
        BY <4>3
      <4> HIDE DEF w
      <4>6. f[t] = h[p] + (h[x] + w) /\ f[t \ {x}] = h[p] + w /\ w \in Nat
        BY <3>1, <4>1, <4>2, <4>4, <4>5 DEF w
      <4> QED BY <4>4, <4>6
    <3> QED BY <3>2, <3>3
  <2>2. \A t \in SUBSET S : (\A x \in t : t \ {x} \in good) => t \in good
    BY <2>1
  <2>3. \A t \in SUBSET S : t \in good
    <3> HIDE DEF good
    <3> QED BY <2>2, SubsetInduction
  <2> QED BY <2>3
<1>6. ASSUME NEW t \in SUBSET S, NEW x \in t PROVE Total(h, t) = h[x] + Total(h, t \ {x})
  <2>1. t \ {x} \in SUBSET S
    OBVIOUS
  <2>2. Total(h, t) = f[t] /\ Total(h, t \ {x}) = f[t \ {x}]
    BY <1>2, <2>1
  <2> QED BY <1>5, <2>2
<1>7. ASSUME NEW t \in SUBSET S PROVE Total(h, t) \in Nat /\ (t = {} => Total(h, t) = 0)
  BY <1>2, <1>3, <1>4
<1> QED BY <1>6, <1>7

(* One term changes.                                                       *)
LEMMA TotalChange ==
  ASSUME NEW S, IsFiniteSet(S), NEW h \in [S -> Nat], NEW x \in S, NEW v \in Nat,
         NEW k \in [S -> Nat], k[x] = v, \A y \in S \ {x} : k[y] = h[y]
  PROVE  /\ Total(h, S) \in Nat /\ h[x] <= Total(h, S)
         /\ Total(k, S) = (Total(h, S) - h[x]) + v
<1> DEFINE T == S \ {x}
<1>1. k \in [S -> Nat] /\ k[x] = v /\ \A y \in T : h[y] = k[y]
  OBVIOUS
<1>2. /\ Total(h, S) \in Nat /\ Total(h, S) = h[x] + Total(h, T) /\ Total(h, T) \in Nat
      /\ Total(k, S) = k[x] + Total(k, T)
  <2>1. S \in SUBSET S /\ T \in SUBSET S /\ (\A y \in S : h[y] \in Nat) /\ \A y \in S : k[y] \in Nat
    BY <1>1
  <2> QED BY <2>1, TotalTerm
<1>3. Total(k, T) = Total(h, T)
  <2>1. IsFiniteSet(T)
    BY FS_Subset
  <2> HIDE DEF T
  <2> QED BY <1>1, <2>1, TotalSame
<1>4. h[x] \in Nat
  OBVIOUS
<1> QED BY <1>1, <1>2, <1>3, <1>4

(* Some terms become 0.                                                    *)
LEMMA TotalDrop ==
  ASSUME NEW S, IsFiniteSet(S), NEW h \in [S -> Nat], NEW D \in SUBSET S,
         NEW k, k = [x \in S |-> IF x \in D THEN 0 ELSE h[x]]
  PROVE  /\ k \in [S -> Nat] /\ Total(k, S) \in Nat /\ Total(h, D) \in Nat
         /\ Total(h, S) = Total(k, S) + Total(h, D)
<1>1. k \in [S -> Nat] /\ \A x \in S : k[x] = IF x \in D THEN 0 ELSE h[x]
  OBVIOUS
<1>2. (\A x \in S : h[x] \in Nat) /\ \A x \in S : k[x] \in Nat
  BY <1>1
<1>3. \A t \in SUBSET S :
        /\ Total(h, t) \in Nat
        /\ t = {} => Total(h, t) = 0
        /\ \A x \in t : Total(h, t) = h[x] + Total(h, t \ {x})
  BY <1>2, TotalTerm
<1>4. \A t \in SUBSET S :
        /\ Total(k, t) \in Nat
        /\ t = {} => Total(k, t) = 0
        /\ \A x \in t : Total(k, t) = k[x] + Total(k, t \ {x})
  BY <1>2, TotalTerm
<1> DEFINE good == {t \in SUBSET S : Total(h, t) = Total(k, t) + Total(h, t \cap D)}
<1>5. ASSUME NEW t \in SUBSET S, \A x \in t : t \ {x} \in good PROVE t \in good
  <2>1. CASE t = {}
    <3>1. t \cap D = {} /\ t \cap D \in SUBSET S
      BY <2>1
    <3> QED BY <1>3, <1>4, <2>1, <3>1
  <2>2. CASE t # {}
    <3>1. PICK x \in t : TRUE
      BY <2>2
    <3>2. Total(h, t \ {x}) = Total(k, t \ {x}) + Total(h, (t \ {x}) \cap D)
      BY <1>5
    <3>3. /\ Total(h, t) = h[x] + Total(h, t \ {x}) /\ Total(k, t) = k[x] + Total(k, t \ {x})
          /\ Total(h, t \ {x}) \in Nat /\ Total(k, t \ {x}) \in Nat
      <4>1. t \ {x} \in SUBSET S
        OBVIOUS
      <4> QED BY <1>3, <1>4, <4>1
    <3>4. CASE x \in D
      <4>1. t \cap D \in SUBSET S /\ x \in t \cap D /\ (t \cap D) \ {x} = (t \ {x}) \cap D
            /\ (t \ {x}) \cap D \in SUBSET S
        BY <3>4
      <4>2. Total(h, t \cap D) = h[x] + Total(h, (t \ {x}) \cap D)
        BY <1>3, <4>1
      <4>3. k[x] = 0 /\ h[x] \in Nat /\ Total(h, (t \ {x}) \cap D) \in Nat
        BY <1>1, <1>2, <1>3, <3>4, <4>1
      <4>4. Total(h, t) = Total(k, t) + Total(h, t \cap D)
        BY <3>2, <3>3, <4>2, <4>3
      <4> QED BY <4>4
    <3>5. CASE x \notin D
      <4>1. t \cap D = (t \ {x}) \cap D /\ t \cap D \in SUBSET S
        BY <3>5
      <4>2. k[x] = h[x] /\ h[x] \in Nat /\ Total(h, t \cap D) \in Nat
        BY <1>1, <1>2, <1>3, <3>5, <4>1
      <4>3. Total(h, t) = Total(k, t) + Total(h, t \cap D)
        BY <3>2, <3>3, <4>1, <4>2
      <4> QED BY <4>3
    <3> QED BY <3>4, <3>5
  <2> QED BY <2>1, <2>2
<1>6. S \in good
  <2> HIDE DEF good
  <2>1. \A t \in SUBSET S : t \in good
    BY <1>5, SubsetInduction
  <2> QED BY <2>1
<1>7. S \cap D = D /\ S \in SUBSET S
  OBVIOUS
<1>8. Total(h, S) = Total(k, S) + Total(h, D)
  BY <1>6, <1>7
<1> QED BY <1>1, <1>3, <1>4, <1>7, <1>8

-----------------------------------------------------------------------------
(* The messages and the rest of the types.  BytesCover is about HeldFor, a *)
(* sum over the sessions.                                                  *)

(* The messages in the queue and with the plugin are covered by bytes.     *)
Covered(q, h, b) ==
  /\ q \in Nat /\ h \in [Sessions -> Nat]
  /\ b \in Int /\ b <= MaxBytes
  /\ b >= q + Total(h, Sessions)

BInv ==
  /\ ack \in 0 .. 2 /\ timeout \in Timeouts /\ expect \in BOOLEAN
  /\ is_active \in Sessions \cup {NoSession}
  /\ checks \in [Sessions -> 0 .. MaxChecks]
  /\ Covered(queued, held, bytes)

(* BInv of a record.                                                       *)
Sound(n) ==
  /\ IsEntry(n)
  /\ n.ack \in 0 .. 2 /\ n.timeout \in Timeouts /\ n.expect \in BOOLEAN
  /\ n.is_active \in Sessions \cup {NoSession}
  /\ n.checks \in [Sessions -> 0 .. MaxChecks]
  /\ Covered(n.queued, n.held, n.bytes)

(* m differs from n in the fields of IInv and the timeout only.            *)
Alike(n, m) ==
  /\ IsEntry(m) /\ m.timeout \in Timeouts
  /\ m.ack = n.ack /\ m.expect = n.expect /\ m.is_active = n.is_active
  /\ m.checks = n.checks /\ m.queued = n.queued /\ m.held = n.held /\ m.bytes = n.bytes

(* The record of the current state.                                        *)
LEMMA SoundState ==
  /\ BInv <=> Sound(State)
  /\ IsEntry(State) /\ State.state = state /\ State.primary = primary
  /\ State.alternative = alternative /\ State.alive = alive /\ State.checks = checks
BY DEF BInv, Sound, State, IsEntry, Fields

(* A step to a Sound record.                                               *)
LEMMA BecomesSound ==
  ASSUME NEW n, Sound(n), Becomes(n)
  PROVE  BInv'
BY DEF Becomes, Sound, BInv, Covered

(* Nothing of interest changes.                                            *)
LEMMA AlikeSound ==
  ASSUME NEW n, NEW m, Sound(n), Alike(n, m)
  PROVE  Sound(m)
BY DEF Sound, Alike

(* Two such operators in a row.                                            *)
LEMMA AlikeTrans ==
  ASSUME NEW n, NEW m, NEW o, Alike(n, m), Alike(m, o)
  PROVE  Alike(n, o)
BY DEF Alike

(* free_address and entering a state leave the messages alone.             *)
LEMMA EnterAlike ==
  ASSUME NEW n, IsEntry(n), NEW st, NEW time \in Timeouts
  PROVE  Alike(n, Enter(n, st, time))
BY DEF Enter, IsEntry, Fields, Alike

(* So does free_address.                                                   *)
LEMMA FreeAddressAlike ==
  ASSUME NEW n, IsEntry(n), n.timeout \in Timeouts
  PROVE  Alike(n, FreeAddress(n))
BY DEF FreeAddress, IsEntry, Fields, Alike

(* So does set_address.                                                    *)
LEMMA SetAddressAlike ==
  ASSUME NEW n, IsEntry(n), n.timeout \in Timeouts
  PROVE  \A s : \A act \in BOOLEAN : Alike(n, SetAddress(n, s, act))
<1> TAKE s
<1> TAKE act \in BOOLEAN
<1>1. CASE s = n.primary
  BY <1>1 DEF SetAddress, IsEntry, Fields, Alike
<1>2. CASE s # n.primary
  <2> DEFINE g == FreeAddress(n)
             f == [g EXCEPT !.primary = s, !.active = act,
                     !.inUse = IF act THEN @ \cup {s} ELSE IF g.active THEN @ \ {s} ELSE @]
  <2>1. SetAddress(n, s, act) = f
    BY <1>2 DEF SetAddress
  <2>2. Alike(n, g)
    BY FreeAddressAlike
  <2> HIDE DEF g
  <2>3. Alike(n, f)
    BY <2>2 DEF IsEntry, Fields, Alike
  <2> QED BY <2>1, <2>3
<1> QED BY <1>1, <1>2

(* A plugin that ends sessions returns the bytes of their messages.        *)
LEMMA PluginDisconnectSound ==
  ASSUME NEW n, Sound(n), NEW ended \in SUBSET Sessions
  PROVE  Sound(PluginDisconnect(n, ended))
<1> DEFINE f == PluginDisconnect(n, ended)
<1>1. /\ IsEntry(f) /\ f.ack = n.ack /\ f.timeout = n.timeout /\ f.expect = n.expect
      /\ f.is_active = n.is_active /\ f.queued = n.queued
      /\ f.checks = [s \in Sessions |-> IF s \in ended THEN 0 ELSE n.checks[s]]
      /\ f.held = [s \in Sessions |-> IF s \in ended THEN 0 ELSE n.held[s]]
      /\ f.bytes = n.bytes - HeldFor(n, ended)
  BY DEF PluginDisconnect, Sound, IsEntry, Fields
<1> HIDE DEF f
<1>2. f.checks \in [Sessions -> 0 .. MaxChecks]
  <2>1. 0 \in 0 .. MaxChecks
    BY BoundAssumption
  <2> QED BY <1>1, <2>1 DEF Sound
<1>3. /\ f.held \in [Sessions -> Nat] /\ Total(f.held, Sessions) \in Nat
      /\ Total(n.held, ended) \in Nat
      /\ Total(n.held, Sessions) = Total(f.held, Sessions) + Total(n.held, ended)
  <2>1. n.held \in [Sessions -> Nat] /\ IsFiniteSet(Sessions)
    BY SessionAssumption DEF Sound, Covered
  <2>2. PICK h, k : h = n.held /\ k = f.held
    OBVIOUS
  <2>3. k = [s \in Sessions |-> IF s \in ended THEN 0 ELSE h[s]] /\ h \in [Sessions -> Nat]
    BY <1>1, <2>1, <2>2
  <2>4. /\ k \in [Sessions -> Nat] /\ Total(k, Sessions) \in Nat /\ Total(h, ended) \in Nat
        /\ Total(h, Sessions) = Total(k, Sessions) + Total(h, ended)
    BY <2>1, <2>3, TotalDrop
  <2> QED BY <2>2, <2>4
<1>4. f.bytes = n.bytes - Total(n.held, ended)
  BY <1>1, HeldForTotal
<1>5. Covered(f.queued, f.held, f.bytes)
  <2>1. n.bytes \in Int /\ n.bytes <= MaxBytes /\ n.queued \in Nat /\ MaxBytes \in Nat
        /\ n.bytes >= n.queued + Total(n.held, Sessions)
    BY BoundAssumption DEF Sound, Covered
  <2> QED BY <1>1, <1>3, <1>4, <2>1 DEF Covered
<1>6. Sound(f)
  BY <1>1, <1>2, <1>5 DEF Sound
<1> QED BY <1>6 DEF f

(* An entry that is freed fails its queue without returning the bytes.     *)
LEMMA ForgottenSound ==
  ASSUME NEW n, Sound(n)
  PROVE  Sound(Forgotten(n))
<1> DEFINE g == FreeAddress(n)
           f == [g EXCEPT !.state = "NONE", !.alternative = NoSession, !.ack = 0,
                          !.timeout = "passed", !.expect = FALSE, !.queued = 0,
                          !.is_active = NoSession,
                          !.neighbours_connected = IF n.state \in Connected THEN @ - 1 ELSE @]
<1>1. Forgotten(n) = f
  BY DEF Forgotten
<1>2. Alike(n, g)
  BY FreeAddressAlike DEF Sound
<1> HIDE DEF g
<1>3. /\ IsEntry(f) /\ f.ack = 0 /\ f.timeout = "passed" /\ f.expect = FALSE
      /\ f.is_active = NoSession /\ f.queued = 0
      /\ f.checks = n.checks /\ f.held = n.held /\ f.bytes = n.bytes
  BY <1>2 DEF Alike, IsEntry, Fields
<1> HIDE DEF f
<1>4. Covered(f.queued, f.held, f.bytes)
  <2>1. /\ n.bytes \in Int /\ n.bytes <= MaxBytes /\ n.queued \in Nat
        /\ n.held \in [Sessions -> Nat]
        /\ n.bytes >= n.queued + Total(n.held, Sessions)
    BY DEF Sound, Covered
  <2>2. Total(n.held, Sessions) \in Nat
    BY <2>1, SessionAssumption, TotalTerm
  <2> QED BY <1>3, <2>1, <2>2 DEF Covered
<1>5. Sound(f)
  <2>1. f.timeout \in Timeouts /\ f.ack \in 0 .. 2
    BY <1>3 DEF Timeouts
  <2>2. f.expect \in BOOLEAN
    BY <1>3, Zenon
  <2> QED BY <1>3, <1>4, <2>1, <2>2 DEF Sound
<1> QED BY <1>1, <1>5

(* free_neighbour                                                          *)
LEMMA FreeNeighbourSound ==
  ASSUME NEW n, Sound(n), n.alive \subseteq Sessions, NEW keep
  PROVE  Sound(FreeNeighbour(n, keep))
<1> DEFINE ended == {s \in n.alive : /\ n.primary # NoSession
                                     /\ ~keep
                                     /\ Transport[s] = Transport[n.primary]}
<1>1. FreeNeighbour(n, keep) = PluginDisconnect(Forgotten(n), ended)
  BY DEF FreeNeighbour
<1>2. ended \in SUBSET Sessions
  OBVIOUS
<1> HIDE DEF ended
<1> QED BY <1>1, <1>2, ForgottenSound, PluginDisconnectSound

(* disconnect_neighbour                                                    *)
LEMMA DisconnectNeighbourSound ==
  ASSUME NEW n, Sound(n), n.alive \subseteq Sessions
  PROVE  Sound(DisconnectNeighbour(n))
<1> DEFINE f == [n EXCEPT !.state = "DISCONNECT",
                          !.neighbours_connected = IF n.state \in Connected THEN @ - 1 ELSE @]
<1>1. Alike(n, f)
  BY DEF Sound, Alike, IsEntry, Fields
<1>2. DisconnectNeighbour(n) \in {FreeNeighbour(n, FALSE), n, f}
  BY DEF DisconnectNeighbour
<1> HIDE DEF f
<1> QED BY <1>1, <1>2, AlikeSound, FreeNeighbourSound

(* check_blacklist, for a session that may have one check more.            *)
LEMMA CheckBlacklistSound ==
  ASSUME NEW n, Sound(n), NEW s \in Sessions, n.checks[s] < MaxChecks
  PROVE  Sound(CheckBlacklist(n, s))
<1> DEFINE f == CheckBlacklist(n, s)
<1>1. /\ IsEntry(f) /\ f.ack = n.ack /\ f.timeout = n.timeout /\ f.expect = n.expect
      /\ f.is_active = n.is_active /\ f.queued = n.queued /\ f.held = n.held /\ f.bytes = n.bytes
      /\ f.checks = [n.checks EXCEPT ![s] = @ + 1]
  BY DEF CheckBlacklist, Sound, IsEntry, Fields
<1> HIDE DEF f
<1>2. f.checks \in [Sessions -> 0 .. MaxChecks]
  <2>1. n.checks[s] + 1 \in 0 .. MaxChecks
    BY BoundAssumption DEF Sound
  <2> QED BY <1>1, <2>1 DEF Sound
<1>3. Sound(f)
  BY <1>1, <1>2 DEF Sound
<1> QED BY <1>3 DEF f

-----------------------------------------------------------------------------
(* One lemma for each action.                                              *)

(* The end of a handshake.                                                 *)
LEMMA EstablishAlike ==
  ASSUME NEW n, IsEntry(n)
  PROVE  Alike(n, Establish(n))
<1> DEFINE e == Enter(n, "CONNECTED", "idle")
           g == [e EXCEPT !.neighbours_connected = @ + 1]
<1>1. Alike(n, e)
  BY EnterAlike DEF Timeouts
<1>2. Establish(n) = SetAddress(g, n.primary, TRUE)
  BY DEF Establish
<1> HIDE DEF e
<1>3. Alike(n, g)
  BY <1>1 DEF Alike, IsEntry, Fields
<1> HIDE DEF g
<1>4. Alike(g, SetAddress(g, n.primary, TRUE))
  <2>1. \A s : \A act \in BOOLEAN : Alike(g, SetAddress(g, s, act))
    BY <1>3, SetAddressAlike DEF Alike
  <2> QED BY <2>1, Zenon
<1> QED BY <1>2, <1>3, <1>4, AlikeTrans

(* GST_neighbours_try_connect and disconnects.                             *)
LEMMA EntryBounds ==
  ASSUME IInv, BInv, TryConnect \/ Disconnect \/ MasterExpired \/ MasterDisconnect
  PROVE  BInv'
<1>1. Sound(State) /\ State.alive \subseteq Sessions
  BY SoundState DEF IInv
<1>2. Sound(FreeNeighbour(State, FALSE)) /\ Sound(DisconnectNeighbour(State))
  BY <1>1, FreeNeighbourSound, DisconnectNeighbourSound
<1>3. Sound(Enter(FreeNeighbour(State, FALSE), "INIT_ATS", "wait"))
  BY <1>2, EnterAlike, AlikeSound DEF Sound, Timeouts
<1> QED BY <1>2, <1>3, BecomesSound DEF TryConnect, Disconnect, MasterExpired, MasterDisconnect

(* GST_neighbours_send: one more message, one more byte.                   *)
LEMMA SendBounds ==
  ASSUME BInv, Send
  PROVE  BInv'
<1>1. /\ bytes < MaxBytes /\ queued' = queued + 1 /\ bytes' = bytes + 1
      /\ UNCHANGED <<ack, timeout, expect, is_active, held, checks>>
  BY DEF Send
<1>2. /\ bytes \in Int /\ queued \in Nat /\ held \in [Sessions -> Nat]
      /\ bytes >= queued + Total(held, Sessions)
  BY DEF BInv, Covered
<1>3. Total(held, Sessions) \in Nat
  BY <1>2, SessionAssumption, TotalTerm
<1>4. Covered(queued', held', bytes')
  BY <1>1, <1>2, <1>3, BoundAssumption DEF Covered
<1> QED BY <1>1, <1>4 DEF BInv, Covered

(* handle_connect                                                          *)
LEMMA HandleConnectBounds ==
  ASSUME IInv, BInv, NEW s \in Sessions, HandleConnect(s) \/ HandleConnectDisconnecting(s)
  PROVE  BInv'
<1>0. Sound(State) /\ State.alive \subseteq Sessions
  BY SoundState DEF IInv
<1>1. CASE HandleConnect(s)
  <2> DEFINE n == [State EXCEPT !.ack = IF state \in Up THEN 0 ELSE 1,
                                !.state = IF state \in {"NONE", "INIT_ATS"}
                                          THEN "CONNECT_RECV_BLACKLIST_INBOUND" ELSE @]
  <2>1. Becomes(CheckBlacklist(n, s)) /\ checks[s] < MaxChecks
    BY <1>1 DEF HandleConnect
  <2>2. Sound(n) /\ n.checks = checks
    BY <1>0, SoundState DEF Sound, IsEntry, Fields
  <2> HIDE DEF n
  <2> QED BY <2>1, <2>2, CheckBlacklistSound, BecomesSound
<1>2. CASE HandleConnectDisconnecting(s)
  <2> DEFINE g == FreeNeighbour(State, TRUE)
             e == Enter(g, "CONNECT_RECV_ATS", "passed")
             f == [e EXCEPT !.alive = @ \cup {s}]
  <2>1. Becomes(f)
    BY <1>2 DEF HandleConnectDisconnecting
  <2>2. Sound(g)
    BY <1>0, FreeNeighbourSound
  <2> HIDE DEF g
  <2>3. Sound(e)
    BY <2>2, EnterAlike, AlikeSound DEF Sound, Timeouts
  <2> HIDE DEF e
  <2>4. Sound(f)
    BY <2>3 DEF Sound, IsEntry, Fields
  <2> HIDE DEF f
  <2> QED BY <2>1, <2>4, BecomesSound
<1> QED BY <1>1, <1>2

(* handle_connect_ack, handle_session_ack and keepalive responses.         *)
LEMMA HandleAckBounds ==
  ASSUME BInv, HandleConnectAck \/ HandleSessionAck \/ KeepaliveResponse
  PROVE  BInv'
<1>0. Sound(State)
  BY SoundState
<1>1. Sound(Establish(State))
  BY <1>0, EstablishAlike, AlikeSound DEF Sound
<1>2. Sound([State EXCEPT !.state = "CONNECTED"])
  BY <1>0 DEF Sound, IsEntry, Fields
<1>3. Sound([State EXCEPT !.expect = FALSE, !.timeout = "idle"])
  <2> DEFINE f == [State EXCEPT !.expect = FALSE, !.timeout = "idle"]
  <2>1. /\ IsEntry(f) /\ f.ack = State.ack /\ f.timeout = "idle" /\ f.expect = FALSE
        /\ f.is_active = State.is_active /\ f.queued = State.queued /\ f.held = State.held
        /\ f.bytes = State.bytes /\ f.checks = State.checks
    BY <1>0 DEF Sound, IsEntry, Fields
  <2> HIDE DEF f
  <2>2. f.expect \in BOOLEAN
    BY <2>1, Zenon
  <2>3. f.timeout \in Timeouts
    BY <2>1 DEF Timeouts
  <2>4. Sound(f)
    BY <1>0, <2>1, <2>2, <2>3 DEF Sound
  <2> QED BY <2>4 DEF f
<1>4. Sound([SetAddress(Enter(State, "CONNECTED", "idle"), alternative, TRUE)
               EXCEPT !.alternative = NoSession])
  <2> DEFINE e == Enter(State, "CONNECTED", "idle")
             g == SetAddress(e, alternative, TRUE)
  <2>1. Alike(State, e)
    BY <1>0, EnterAlike DEF Timeouts, Sound
  <2> HIDE DEF e
  <2>2. Alike(e, g)
    <3>1. \A s : \A act \in BOOLEAN : Alike(e, SetAddress(e, s, act))
      BY <2>1, SetAddressAlike DEF Alike
    <3> QED BY <3>1, Zenon
  <2> HIDE DEF g
  <2>3. Sound(g)
    BY <1>0, <2>1, <2>2, AlikeSound
  <2>4. Sound([g EXCEPT !.alternative = NoSession])
    BY <2>3 DEF Sound, IsEntry, Fields
  <2> QED BY <2>4 DEF g, e
<1> QED BY <1>1, <1>2, <1>3, <1>4, BecomesSound
        DEF HandleConnectAck, HandleSessionAck, KeepaliveResponse

(* switch_to_address: the state decides how a suggestion is entered.       *)
LEMMA SuggestedAlike ==
  ASSUME NEW n, Sound(n), n.state \in States \ {"NONE", "DISCONNECT"}, NEW s
  PROVE  Alike(n, Suggested(n, s))
<1> DEFINE g == SetAddress(n, s, FALSE)
           a == [n EXCEPT !.alternative = s, !.state = "CONNECTED_SWITCHING_BLACKLIST"]
<1>0. \A t : \A act \in BOOLEAN : Alike(n, SetAddress(n, t, act))
  BY SetAddressAlike DEF Sound
<1>1. Alike(n, g)
  BY <1>0, Zenon
<1>2. Alike(n, a)
  BY DEF Sound, Alike, IsEntry, Fields
<1>3. \E st : \/ Suggested(n, s) = Enter(g, st, "wait")
              \/ Suggested(n, s) = Enter(n, st, "wait")
              \/ Suggested(n, s) = a
  BY DEF Suggested, States, Unanswered, Handshaking, Connected, Up, Switching, Reconnecting
<1> HIDE DEF g, a
<1>4. \A st : Alike(n, Enter(g, st, "wait")) /\ Alike(n, Enter(n, st, "wait"))
  <2>1. IsEntry(g) /\ IsEntry(n) /\ "wait" \in Timeouts
    BY <1>1 DEF Alike, Sound, Timeouts
  <2>2. \A st : Alike(g, Enter(g, st, "wait")) /\ Alike(n, Enter(n, st, "wait"))
    BY <2>1, EnterAlike
  <2> QED BY <1>1, <2>2, AlikeTrans
<1> QED BY <1>2, <1>3, <1>4

(* GST_neighbours_switch_to_address                                        *)
LEMMA SwitchToAddressBounds ==
  ASSUME IInv, BInv, NEW s \in Sessions, SwitchToAddress(s)
  PROVE  BInv'
<1>0. Sound(State) /\ State.state = state /\ State.checks = checks
  BY SoundState
<1>1. state \in States \ {"NONE", "DISCONNECT"}
  BY DEF SwitchToAddress, IInv
<1>2. Sound(SetAddress(State, s, TRUE))
  <2>1. \A t : \A act \in BOOLEAN : Alike(State, SetAddress(State, t, act))
    BY <1>0, SetAddressAlike DEF Sound
  <2>2. Alike(State, SetAddress(State, s, TRUE))
    BY <2>1, Zenon
  <2> QED BY <1>0, <2>2, AlikeSound
<1>3. Sound([State EXCEPT !.alternative = NoSession, !.state = "CONNECTED"])
  BY <1>0 DEF Sound, IsEntry, Fields
<1>4. Alike(State, Suggested(State, s))
  BY <1>0, <1>1, SuggestedAlike
<1>5. checks[s] < MaxChecks => Sound(CheckBlacklist(Suggested(State, s), s))
  <2> DEFINE g == Suggested(State, s)
  <2>1. Sound(g) /\ g.checks = checks
    BY <1>0, <1>4, AlikeSound DEF Alike
  <2> HIDE DEF g
  <2>2. checks[s] < MaxChecks => Sound(CheckBlacklist(g, s))
    BY <2>1, CheckBlacklistSound
  <2> QED BY <2>2 DEF g
<1> QED BY <1>2, <1>3, <1>5, BecomesSound DEF SwitchToAddress


-----------------------------------------------------------------------------
(* The blacklist.                                                          *)

(* send_connect_ack goes from 1 to 2.                                      *)
LEMMA AckSound ==
  ASSUME NEW n, Sound(n), NEW a \in {n.ack, 2}
  PROVE  Sound([n EXCEPT !.ack = a])
<1> DEFINE f == [n EXCEPT !.ack = a]
<1>1. /\ IsEntry(f) /\ f.ack = a /\ f.timeout = n.timeout /\ f.expect = n.expect
      /\ f.is_active = n.is_active /\ f.queued = n.queued /\ f.held = n.held
      /\ f.bytes = n.bytes /\ f.checks = n.checks
  BY DEF Sound, IsEntry, Fields
<1>2. a \in 0 .. 2
  BY DEF Sound
<1> HIDE DEF f
<1>3. Sound(f)
  BY <1>1, <1>2 DEF Sound
<1> QED BY <1>3 DEF f

(* A session is allowed.                                                   *)
LEMMA AllowedSound ==
  ASSUME NEW n, Sound(n), NEW s
  PROVE  Sound(Allowed(n, s))
<1> DEFINE e == Enter(n, "CONNECT_RECV_ACK", "wait")
           a == [e EXCEPT !.ack = IF @ = 1 THEN 2 ELSE @]
           c == [n EXCEPT !.state = "CONNECTED_SWITCHING_CONNECT_SENT"]
<1>1. Allowed(n, s) \in {Enter(n, "CONNECT_SENT", "wait"), a,
                         Enter(n, "RECONNECT_SENT", "fast"), c, n}
  BY DEF Allowed
<1>2. \A st : Sound(Enter(n, st, "wait")) /\ Sound(Enter(n, st, "fast"))
  BY EnterAlike, AlikeSound DEF Sound, Timeouts
<1>3. Sound(c)
  BY DEF Sound, IsEntry, Fields
<1>4. Sound(a)
  <2>1. Sound(e)
    BY <1>2
  <2> HIDE DEF e
  <2>2. a = [e EXCEPT !.ack = IF e.ack = 1 THEN 2 ELSE e.ack]
    OBVIOUS
  <2> QED BY <2>1, <2>2, AckSound
<1> HIDE DEF a, c
<1> QED BY <1>1, <1>2, <1>3, <1>4

(* A session is forbidden.                                                 *)
LEMMA ForbiddenSound ==
  ASSUME NEW n, Sound(n), NEW s
  PROVE  Sound(Forbidden(n, s))
<1> DEFINE g == FreeAddress(n)
           c == [n EXCEPT !.alternative = NoSession, !.state = "CONNECTED"]
<1>1. Forbidden(n, s) \in {Enter(g, "INIT_ATS", "wait"), Enter(n, "RECONNECT_ATS", "wait"), c, n}
  BY DEF Forbidden
<1>2. Sound(g)
  BY FreeAddressAlike, AlikeSound DEF Sound
<1>3. Sound(c)
  BY DEF Sound, IsEntry, Fields
<1> HIDE DEF g, c
<1>4. \A st : Sound(Enter(n, st, "wait")) /\ Sound(Enter(g, st, "wait"))
  BY <1>2, EnterAlike, AlikeSound DEF Sound, Timeouts
<1> QED BY <1>1, <1>2, <1>3, <1>4

(* handle_test_blacklist_cont                                              *)
LEMMA HandleTestBlacklistContBounds ==
  ASSUME BInv, NEW s \in Sessions, NEW ok \in BOOLEAN, HandleTestBlacklistCont(s, ok)
  PROVE  BInv'
<1> DEFINE c == [State EXCEPT !.checks[s] = @ - 1,
                              !.approved = IF ok THEN @ \cup {s} ELSE @]
           n == AckPending(c, ok)
           r == CASE n.state = "CONNECT_RECV_BLACKLIST_INBOUND" ->
                       Enter(n, "CONNECT_RECV_ATS", "wait")
                  [] n.state # "CONNECT_RECV_BLACKLIST_INBOUND" /\ ok -> Allowed(n, s)
                  [] OTHER -> Forbidden(n, s)
<1>1. checks[s] > 0 /\ Becomes(r)
  BY DEF HandleTestBlacklistCont
<1>2. Sound(c)
  <2>1. Sound(State) /\ State.checks = checks
    BY SoundState
  <2>2. /\ IsEntry(c) /\ c.ack = State.ack /\ c.timeout = State.timeout
        /\ c.expect = State.expect /\ c.is_active = State.is_active
        /\ c.queued = State.queued /\ c.held = State.held /\ c.bytes = State.bytes
        /\ c.checks = [checks EXCEPT ![s] = @ - 1]
    BY <2>1 DEF Sound, IsEntry, Fields
  <2> HIDE DEF c
  <2>3. c.checks \in [Sessions -> 0 .. MaxChecks]
    <3>1. checks \in [Sessions -> 0 .. MaxChecks] /\ MaxChecks \in Nat
      BY BoundAssumption DEF BInv
    <3>2. checks[s] - 1 \in 0 .. MaxChecks
      BY <1>1, <3>1
    <3> QED BY <2>2, <3>1, <3>2
  <2> QED BY <2>1, <2>2, <2>3 DEF Sound
<1>3. Sound(n)
  <2> HIDE DEF c
  <2>1. \E a \in {c.ack, 2} : AckPending(c, ok) = [c EXCEPT !.ack = a]
    BY DEF AckPending
  <2> QED BY <1>2, <2>1, AckSound
<1> HIDE DEF n
<1>4. r \in {Enter(n, "CONNECT_RECV_ATS", "wait"), Allowed(n, s), Forbidden(n, s)}
  OBVIOUS
<1>5. Sound(Enter(n, "CONNECT_RECV_ATS", "wait"))
  BY <1>3, EnterAlike, AlikeSound DEF Sound, Timeouts
<1>6. Sound(Allowed(n, s)) /\ Sound(Forbidden(n, s))
  BY <1>3, AllowedSound, ForbiddenSound
<1> HIDE DEF r
<1>7. Sound(r)
  BY <1>4, <1>5, <1>6
<1> QED BY <1>1, <1>7, BecomesSound

-----------------------------------------------------------------------------
(* The plugins.                                                            *)

(* The primary session ends.                                               *)
LEMMA PrimaryLostSound ==
  ASSUME NEW n, Sound(n), n.alive \subseteq Sessions
  PROVE  Sound(PrimaryLost(n))
<1> DEFINE g == FreeAddress(n)
           a == AdoptAlternative(n)
<1>1. Sound(g) /\ g.alive = n.alive
  BY FreeAddressAlike, AlikeSound DEF Sound, FreeAddress, IsEntry, Fields
<1>2. Sound(a)
  <2>1. a = [g EXCEPT !.primary = n.alternative, !.alternative = NoSession]
    BY DEF AdoptAlternative
  <2> HIDE DEF g, a
  <2> QED BY <1>1, <2>1 DEF Sound, IsEntry, Fields
<1>3. PrimaryLost(n) \in {Enter(g, "INIT_ATS", "wait"), FreeNeighbour(g, FALSE),
        Enter(g, "RECONNECT_ATS", "wait"), Enter(n, "RECONNECT_ATS", "wait"),
        Enter(a, "RECONNECT_BLACKLIST", "fast"), Enter(a, "RECONNECT_SENT", "fast"), g, n}
  BY DEF PrimaryLost
<1> HIDE DEF g, a
<1>4. Sound(FreeNeighbour(g, FALSE))
  BY <1>1, FreeNeighbourSound
<1>5. \A st : Sound(Enter(n, st, "wait")) /\ Sound(Enter(g, st, "wait"))
  BY <1>1, EnterAlike, AlikeSound DEF Sound, Timeouts
<1>6. \A st : Sound(Enter(a, st, "fast"))
  BY <1>2, EnterAlike, AlikeSound DEF Sound, Timeouts
<1> QED BY <1>1, <1>3, <1>4, <1>5, <1>6

(* GST_neighbours_session_terminated                                       *)
LEMMA SessionTerminatedBounds ==
  ASSUME IInv, BInv, NEW s \in Sessions, SessionTerminated(s)
  PROVE  BInv'
<1> DEFINE b == [State EXCEPT !.alive = @ \ {s}, !.approved = @ \ {s}]
           n == CancelChecks(b, s)
           p == [n EXCEPT !.expect = FALSE]
           a == [n EXCEPT !.alternative = NoSession,
                          !.state = IF @ \in Switching THEN "CONNECTED" ELSE @]
           r == CASE s = primary -> PrimaryLost(p)
                  [] s # primary /\ s = alternative -> a
                  [] OTHER -> n
<1>1. Becomes(r)
  BY DEF SessionTerminated
<1>2. Sound(n) /\ n.alive \subseteq Sessions
  <2>1. Sound(State) /\ State.checks = checks /\ State.alive = alive /\ alive \subseteq Sessions
    BY SoundState DEF IInv
  <2>2. /\ IsEntry(n) /\ n.ack = State.ack /\ n.timeout = State.timeout
        /\ n.expect = State.expect /\ n.is_active = State.is_active
        /\ n.queued = State.queued /\ n.held = State.held /\ n.bytes = State.bytes
        /\ n.checks = [checks EXCEPT ![s] = 0] /\ n.alive = alive \ {s}
    BY <2>1 DEF CancelChecks, Sound, IsEntry, Fields
  <2> HIDE DEF n
  <2>3. n.checks \in [Sessions -> 0 .. MaxChecks]
    <3>1. checks \in [Sessions -> 0 .. MaxChecks] /\ 0 \in 0 .. MaxChecks
      BY BoundAssumption DEF BInv
    <3> QED BY <2>2, <3>1
  <2> QED BY <2>1, <2>2, <2>3 DEF Sound
<1> HIDE DEF n
<1>3. Sound(p) /\ p.alive \subseteq Sessions
  <2>1. /\ IsEntry(p) /\ p.ack = n.ack /\ p.timeout = n.timeout /\ p.expect = FALSE
        /\ p.is_active = n.is_active /\ p.queued = n.queued /\ p.held = n.held
        /\ p.bytes = n.bytes /\ p.checks = n.checks /\ p.alive = n.alive
    BY <1>2 DEF Sound, IsEntry, Fields
  <2> HIDE DEF p
  <2>2. p.expect \in BOOLEAN
    BY <2>1, Zenon
  <2> QED BY <1>2, <2>1, <2>2 DEF Sound
<1>4. Sound(a)
  BY <1>2 DEF Sound, IsEntry, Fields
<1> HIDE DEF p, a
<1>5. Sound(PrimaryLost(p))
  BY <1>3, PrimaryLostSound
<1>6. r \in {PrimaryLost(p), a, n}
  OBVIOUS
<1> HIDE DEF r
<1>7. Sound(r)
  BY <1>2, <1>4, <1>5, <1>6
<1> QED BY <1>1, <1>7, BecomesSound

(* transmit_send_continuation: a message less, a byte less at most.        *)
LEMMA TransmitSendContinuationBounds ==
  ASSUME BInv, NEW s \in Sessions, TransmitSendContinuation(s)
  PROVE  BInv'
<1>1. /\ held[s] > 0 /\ held' = [held EXCEPT ![s] = @ - 1]
      /\ (bytes' = bytes \/ bytes' = bytes - 1)
      /\ (is_active' = NoSession \/ is_active' = is_active)
      /\ UNCHANGED <<ack, timeout, expect, queued, checks>>
  BY DEF TransmitSendContinuation
<1>2. /\ bytes \in Int /\ queued \in Nat /\ held \in [Sessions -> Nat] /\ bytes <= MaxBytes
      /\ bytes >= queued + Total(held, Sessions)
  BY DEF BInv, Covered
<1>3. held[s] \in Nat /\ held[s] - 1 \in Nat
  BY <1>1, <1>2
<1>4. PICK v \in Nat : v = held[s] - 1
  BY <1>3
<1>5. PICK k : k = held'
  OBVIOUS
<1>6. k \in [Sessions -> Nat] /\ k[s] = v /\ \A y \in Sessions \ {s} : k[y] = held[y]
  BY <1>1, <1>2, <1>4, <1>5
<1>7. /\ Total(held, Sessions) \in Nat
      /\ Total(k, Sessions) = (Total(held, Sessions) - held[s]) + v
  BY <1>2, <1>6, SessionAssumption, TotalChange
<1>8. held' \in [Sessions -> Nat] /\ Total(held', Sessions) = Total(held, Sessions) - 1
  BY <1>3, <1>4, <1>5, <1>6, <1>7
<1>9. Covered(queued', held', bytes')
  BY <1>1, <1>2, <1>7, <1>8, BoundAssumption DEF Covered
<1> QED BY <1>1, <1>9 DEF BInv

-----------------------------------------------------------------------------
(* Time.                                                                   *)

(* A timeout passes.                                                       *)
LEMMA TimeoutPassesBounds ==
  ASSUME BInv, TimeoutPasses
  PROVE  BInv'
<1>1. Sound(State)
  BY SoundState
<1>2. Sound([State EXCEPT !.timeout = "passed"])
  BY <1>1 DEF Sound, IsEntry, Fields, Timeouts
<1> QED BY <1>2, BecomesSound DEF TimeoutPasses

(* try_transmission_to_peer: late messages return their bytes, the one for *)
(* the plugin keeps its own.                                               *)
LEMMA TryTransmissionSound ==
  ASSUME NEW n, Sound(n), n.primary \in Sessions, NEW late \in 0 .. n.queued
  PROVE  Sound(TryTransmission(n, late))
<1> DEFINE left == n.queued - late
           kept == [n EXCEPT !.queued = left, !.bytes = @ - late]
           sent == [kept EXCEPT !.queued = left - 1,
                                !.is_active = n.primary,
                                !.held[n.primary] = @ + 1]
<1>1. /\ n.bytes \in Int /\ n.queued \in Nat /\ n.held \in [Sessions -> Nat]
      /\ n.bytes <= MaxBytes /\ MaxBytes \in Nat
      /\ n.bytes >= n.queued + Total(n.held, Sessions)
  BY BoundAssumption DEF Sound, Covered
<1>2. left \in Nat /\ late \in Nat /\ n.queued = left + late
  BY <1>1
<1>3. /\ IsEntry(kept) /\ kept.ack = n.ack /\ kept.timeout = n.timeout
      /\ kept.expect = n.expect /\ kept.is_active = n.is_active /\ kept.held = n.held
      /\ kept.checks = n.checks /\ kept.queued = left /\ kept.bytes = n.bytes - late
  BY DEF Sound, IsEntry, Fields
<1>4. \/ TryTransmission(n, late) \in {n, kept}
      \/ left # 0 /\ TryTransmission(n, late) = sent
  BY DEF TryTransmission
<1> HIDE DEF kept, left
<1>5. Total(n.held, Sessions) \in Nat
  BY <1>1, SessionAssumption, TotalTerm
<1>6. Sound(kept)
  <2>1. Covered(kept.queued, kept.held, kept.bytes)
    BY <1>1, <1>2, <1>3, <1>5 DEF Covered
  <2> QED BY <1>3, <2>1 DEF Sound
<1>7. ASSUME left # 0 PROVE Sound(sent)
  <2>1. /\ IsEntry(sent) /\ sent.ack = n.ack /\ sent.timeout = n.timeout
        /\ sent.expect = n.expect /\ sent.is_active = n.primary
        /\ sent.checks = n.checks /\ sent.queued = left - 1 /\ sent.bytes = n.bytes - late
        /\ sent.held = [n.held EXCEPT ![n.primary] = @ + 1]
    BY <1>3 DEF IsEntry, Fields
  <2> HIDE DEF sent
  <2>2. PICK h, x, v : h = n.held /\ x = n.primary /\ v = h[x] + 1
    OBVIOUS
  <2>3. h \in [Sessions -> Nat] /\ x \in Sessions /\ v \in Nat /\ h[x] \in Nat
    BY <1>1, <2>2
  <2>4. PICK k : k = sent.held
    OBVIOUS
  <2>5. k \in [Sessions -> Nat] /\ k[x] = v /\ \A y \in Sessions \ {x} : k[y] = h[y]
    BY <2>1, <2>2, <2>3, <2>4
  <2>6. /\ Total(h, Sessions) \in Nat
        /\ Total(k, Sessions) = (Total(h, Sessions) - h[x]) + v
    BY <2>3, <2>5, SessionAssumption, TotalChange
  <2>7. sent.held \in [Sessions -> Nat]
        /\ Total(sent.held, Sessions) = Total(n.held, Sessions) + 1
    BY <2>2, <2>3, <2>4, <2>5, <2>6
  <2>8. Covered(sent.queued, sent.held, sent.bytes)
    BY <1>1, <1>2, <1>5, <1>7, <2>1, <2>7 DEF Covered
  <2> QED BY <2>1, <2>8 DEF Sound
<1> HIDE DEF sent
<1> QED BY <1>4, <1>6, <1>7

(* master_task of a connection: messages and keepalives.                   *)
LEMMA MasterConnectedBounds ==
  ASSUME IInv, BInv, MasterConnected
  PROVE  BInv'
<1>1. PICK late \in 0 .. queued, due \in BOOLEAN :
        Becomes(SendKeepalive(TryTransmission(State, late), due))
  BY DEF MasterConnected
<1>2. Sound(State) /\ State.primary = primary /\ State.queued = queued
  BY SoundState DEF State
<1>3. primary \in Sessions
  BY DEF MasterConnected, IInv, SessionsUsable
<1> DEFINE n == TryTransmission(State, late)
           f == SendKeepalive(n, due)
<1>4. Sound(n)
  BY <1>2, <1>3, TryTransmissionSound
<1> HIDE DEF n
<1>5. /\ IsEntry(f) /\ f.ack = n.ack /\ f.timeout = n.timeout /\ f.expect = (n.expect \/ due)
      /\ f.is_active = n.is_active /\ f.queued = n.queued /\ f.held = n.held
      /\ f.bytes = n.bytes /\ f.checks = n.checks
  BY <1>4 DEF SendKeepalive, Sound, IsEntry, Fields
<1>6. Becomes(f)
  BY <1>1 DEF n
<1> HIDE DEF f
<1>7. f.expect \in BOOLEAN
  BY <1>5, Zenon
<1>8. Sound(f)
  BY <1>4, <1>5, <1>7 DEF Sound
<1> QED BY <1>6, <1>8, BecomesSound

-----------------------------------------------------------------------------
(* The queue and the plugins hold nothing at the start.                    *)
LEMMA InitBounds ==
  ASSUME Init
  PROVE  BInv
<1>1. held = [s \in Sessions |-> 0] /\ held \in [Sessions -> Nat]
  BY DEF Init
<1>2. Total(held, Sessions) = 0
  <2>1. /\ Sessions \in SUBSET Sessions
        /\ held = [s \in Sessions |-> IF s \in Sessions THEN 0 ELSE held[s]]
    BY <1>1
  <2>2. /\ Total(held, Sessions) \in Nat
        /\ Total(held, Sessions) = Total(held, Sessions) + Total(held, Sessions)
    BY <1>1, <2>1, SessionAssumption, TotalDrop
  <2> QED BY <2>2
<1>3. Covered(queued, held, bytes)
  BY <1>1, <1>2, BoundAssumption DEF Init, Covered
<1>4. expect \in BOOLEAN
  BY Zenon DEF Init
<1>5. checks \in [Sessions -> 0 .. MaxChecks]
  BY BoundAssumption DEF Init
<1>6. ack \in 0 .. 2 /\ timeout \in Timeouts /\ is_active \in Sessions \cup {NoSession}
  BY DEF Init, Timeouts
<1> QED BY <1>3, <1>4, <1>5, <1>6 DEF BInv

(* The messages and the bounds are an invariant, next to IInv.             *)
THEOREM BoundsHold == Spec => [](IInv /\ BInv)
<1>1. Init => BInv
  BY InitBounds
<1>2. IInv /\ BInv /\ [Next]_vars => BInv'
  <2> SUFFICES ASSUME IInv, BInv, [Next]_vars
               PROVE  BInv'
    OBVIOUS
  <2>1. CASE UNCHANGED vars
    BY <2>1 DEF vars, entry, BInv, Covered
  <2>2. CASE \E s \in Sessions :
               \/ HandleConnect(s)
               \/ HandleConnectDisconnecting(s)
               \/ SwitchToAddress(s)
               \/ SessionTerminated(s)
               \/ TransmitSendContinuation(s)
               \/ \E ok \in BOOLEAN : HandleTestBlacklistCont(s, ok)
    BY <2>2, HandleConnectBounds, SwitchToAddressBounds, SessionTerminatedBounds,
       TransmitSendContinuationBounds, HandleTestBlacklistContBounds
  <2> QED BY <2>1, <2>2, EntryBounds, SendBounds, HandleAckBounds, TimeoutPassesBounds,
             MasterConnectedBounds DEF Next
<1> QED BY <1>1, <1>2, InvariantHolds, PTL DEF Spec

(* Every variable keeps its type and its bound; bytes_in_send_queue is     *)
(* never negative, which unsigned it would not show.                       *)
THEOREM TypeCorrect == Spec => []TypeOK
<1>1. ASSUME IInv, BInv PROVE TypeOK
  <2>1. /\ bytes \in Int /\ queued \in Nat /\ held \in [Sessions -> Nat] /\ bytes <= MaxBytes
        /\ bytes >= queued + Total(held, Sessions) /\ MaxBytes \in Nat
    BY <1>1, BoundAssumption DEF BInv, Covered
  <2>2. Total(held, Sessions) \in Nat
    BY <2>1, SessionAssumption, TotalTerm
  <2>3. queued \in 0 .. MaxBytes /\ bytes \in 0 .. MaxBytes
    BY <2>1, <2>2
  <2>4. \A s \in Sessions : held[s] \in 0 .. MaxBytes
    <3> TAKE s \in Sessions
    <3>1. held[s] \in Nat /\ \A y \in Sessions \ {s} : held[y] = held[y]
      BY <2>1
    <3>2. held[s] <= Total(held, Sessions) /\ held[s] \in Nat
      BY <2>1, <3>1, SessionAssumption, TotalChange
    <3> QED BY <2>1, <2>2, <3>2
  <2>5. held \in [Sessions -> 0 .. MaxBytes]
    BY <2>1, <2>4
  <2>6. neighbours_connected \in 0 .. 1
    BY <1>1 DEF IInv, NotifiedOnce
  <2>7. inUse \subseteq Sessions
    BY <1>1 DEF IInv, AtsAgrees
  <2> QED BY <1>1, <2>3, <2>5, <2>6, <2>7 DEF TypeOK, IInv, BInv
<1> QED BY <1>1, BoundsHold, PTL

(* bytes_in_send_queue covers the messages in the queue and with the       *)
(* plugins, so transmit_send_continuation never takes off more than there  *)
(* is.                                                                     *)
THEOREM BytesCoverHolds == Spec => []BytesCover
<1>1. ASSUME BInv PROVE BytesCover
  <2>1. State.held = held
    BY DEF State
  <2>2. HeldFor(State, Sessions) = Total(held, Sessions)
    BY <2>1, HeldForTotal
  <2> QED BY <1>1, <2>2 DEF BInv, Covered, BytesCover
<1> QED BY <1>1, BoundsHold, PTL

=============================================================================
