---------------------------- MODULE CoreSessions ----------------------------
(***************************************************************************)
(* The core service between its clients and one neighbour: the session     *)
(* (gnunet-service-core_sessions.c), the clients' requests and their view  *)
(* of the connection (_clients.c), the type maps (_typemap.c) and the      *)
(* queue to the transport service (_neighbours.c).                         *)
(*                                                                         *)
(* Abstractions.  Sessions do not depend on each other, so there is one    *)
(* other peer, and no loopback.  The key exchange is a session that comes  *)
(* up and control messages that pass through the queue.  A size is a       *)
(* number of units, of which MaxSize make the largest encrypted message.   *)
(* The transport handle of a neighbour is pending exactly while its queue  *)
(* is not empty.  A client sends what it asked for, in answer to           *)
(* SEND_READY and to its last request, as the client library does; or it   *)
(* never does.                                                             *)
(***************************************************************************)
EXTENDS SeqFilter, FiniteSets

CONSTANTS Clients,
          MessageTypes,
          Types,         \* Types[c]: message types that c handles; {} stands for all
          Monitors,      \* clients that want to see outbound messages
          Sizes,         \* sizes of messages
          MaxSize,       \* GNUNET_CONSTANTS_MAX_ENCRYPTED_MESSAGE_SIZE
          NoRequest,
          MaxMessages,   \* bound: messages of clients in one session
          MaxQueue,      \* bound: messages in the queue when the key exchange adds one
          MaxMaps,       \* bound: type maps that wait in smes
          MaxFaults      \* bound: disconnects, of the peer or a client, and failed transmissions

ASSUME SizesAssumption == MaxSize \in Nat \ {0} /\ Sizes \subseteq Nat \ {0}
ASSUME TypesAssumption ==
  Types \in [Clients -> SUBSET MessageTypes] /\ Monitors \subseteq Clients
ASSUME BoundsAssumption == {MaxMessages, MaxQueue, MaxMaps, MaxFaults} \subseteq Nat

VARIABLES up,         \* there is a session
          tmap,       \* the type map of the peer
          ready,      \* ready_to_transmit
          list,       \* clients with an active request, head first
          smes,       \* messages ready for encryption
          cork,       \* cork_task is scheduled
          queue,      \* the neighbour's message queue
          active,     \* clients that sent INIT
          connected,  \* clients whose connectmap has the peer
          car,        \* car[c]: the request of c for the peer, or NoRequest
          granted,    \* clients that hold a SEND_READY for their last request
          accepted,   \* messages that the session took from clients
          given,      \* messages of the session that left the queue
          told,       \* the type map that the peer last got from us
          faults

session == <<ready, list, smes, cork, queue, connected, car, granted>>
counts == <<accepted, given, told>>
vars == <<up, tmap, session, active, counts, faults>>

Requests == [size : Nat, solicited : BOOLEAN, late : BOOLEAN]

ASSUME NoRequestAssumption == NoRequest \notin Requests

(* A message of a client has a number from one on; a type map has zero.    *)
(* "corked": its deadline lies in the future.                              *)
Messages == [id : Nat, size : Nat, corked : BOOLEAN, map : SUBSET MessageTypes]

(* The queue holds encrypted batches of messages; <<>> is a message of the *)
(* key exchange.                                                           *)
Control == <<>>

TypeOK ==
  /\ up \in BOOLEAN
  /\ tmap \subseteq MessageTypes
  /\ ready \in BOOLEAN
  /\ list \in Seq(Clients)
  /\ smes \in Seq(Messages)
  /\ cork \in BOOLEAN
  /\ queue \in Seq(Seq(Messages))
  /\ active \subseteq Clients
  /\ connected \subseteq active
  /\ car \in [Clients -> Requests \cup {NoRequest}]
  /\ granted \subseteq active
  /\ accepted \in 0 .. MaxMessages
  /\ given \in 0 .. MaxMessages
  /\ told \subseteq MessageTypes
  /\ faults \in 0 .. MaxFaults

Init ==
  /\ up = FALSE
  /\ tmap = {} /\ told = {}
  /\ ready = FALSE /\ cork = FALSE
  /\ list = <<>> /\ smes = <<>> /\ queue = <<>>
  /\ active = {} /\ connected = {} /\ granted = {}
  /\ car = [c \in Clients |-> NoRequest]
  /\ accepted = 0 /\ given = 0 /\ faults = 0

-----------------------------------------------------------------------------
(* Operators on the state of the session, a record s with the variables of *)
(* "session" as fields.                                                    *)

State == [ready |-> ready, list |-> list, smes |-> smes, cork |-> cork, queue |-> queue,
          connected |-> connected, car |-> car, granted |-> granted]

Becomes(state) ==
  \E s \in {state} :
    /\ ready' = s.ready /\ list' = s.list /\ smes' = s.smes /\ cork' = s.cork
    /\ queue' = s.queue /\ connected' = s.connected /\ car' = s.car
    /\ granted' = s.granted

(* The sum of the sizes of the first n entries.                            *)
SumTo(sizes, n) ==
  LET sum[i \in 0 .. n] == IF i = 0 THEN 0 ELSE sum[i - 1] + sizes[i]
  IN  sum[n]

(* How many entries from the head on fit into one encrypted message.       *)
Fitting(sizes) ==
  CHOOSE n \in 0 .. Len(sizes) :
    /\ SumTo(sizes, n) <= MaxSize
    /\ n < Len(sizes) => SumTo(sizes, n + 1) > MaxSize

(* GSC_SESSIONS_dequeue_request and GSC_CLIENTS_reject_request.            *)
Drop(s, gone) ==
  [s EXCEPT !.list = Excluding(@, gone),
            !.car = [c \in Clients |-> IF c \in gone THEN NoRequest ELSE @[c]]]

(* Mutant: requests never expire.                                          *)
Expired_Never(s) == {}

(* discard_expired_requests keeps requests that were solicited.            *)
Expired(s) ==
  {c \in Clients : /\ s.car[c] # NoRequest
                   /\ s.car[c].late /\ ~ s.car[c].solicited}

(* solicit_messages, after discard_expired_requests.  The requests from    *)
(* the head of the list on are counted, the solicited ones too, until one  *)
(* does not fit.  A client that has been told of a disconnect meanwhile    *)
(* loses its request.                                                      *)
Solicit(s) ==
  LET waiting == Excluding(s.list, Expired(s))
      n == Fitting([i \in DOMAIN waiting |-> s.car[waiting[i]].size])
      new == {c \in {waiting[i] : i \in 1 .. n} : ~ s.car[c].solicited}
  IN  Drop([s EXCEPT
              !.car = [c \in Clients |->
                         IF c \in new THEN [@[c] EXCEPT !.solicited = TRUE] ELSE @[c]],
              !.granted = @ \cup (new \cap s.connected)],
           Expired(s) \cup (new \ s.connected))

(* GSC_KX_encrypt_and_transmit appends to the queue of the neighbour.      *)
Transmit(s, batch) == [s EXCEPT !.ready = FALSE, !.queue = Append(@, batch)]

(* A batch waits while it is empty, or while it is less than half full and *)
(* all its deadlines lie in the future.                                    *)
Waits(batch, size) ==
  \/ size = 0
  \/ size < MaxSize \div 2 /\ (\A i \in DOMAIN batch : batch[i].corked)

(* try_transmission.                                                       *)
TryTransmission(s) ==
  LET sizes == [i \in DOMAIN s.smes |-> s.smes[i].size]
      n == Fitting(sizes)
      batch == SubSeq(s.smes, 1, n)
  IN  IF ~ s.ready THEN s
      ELSE IF Waits(batch, SumTo(sizes, n)) THEN [Solicit(s) EXCEPT !.cork = @ \/ n > 0]
      ELSE [Transmit(s, batch) EXCEPT !.smes = SubSeq(s.smes, n + 1, Len(s.smes))]

MapMessage(map) == [id |-> 0, size |-> 1, corked |-> FALSE, map |-> map]

(* do_send_message of GSC_SESSIONS_broadcast puts our type map in front.   *)
Broadcast(s, map) ==
  IF up THEN TryTransmission([s EXCEPT !.smes = <<MapMessage(map)>> \o @]) ELSE s

(* GSC_TYPEMAP_test_match.                                                 *)
Match(map, c) == Types[c] = {} \/ Types[c] \cap map # {}

(* my_type_map: a bit is set while a client handles the type.              *)
MapOf(clients) == UNION {Types[c] : c \in clients}
MyMap == MapOf(active)

(* Mutant: a client that no longer matches is not told.                    *)
NotifyClients_Connects(s, map) ==
  [s EXCEPT !.connected = @ \cup {c \in active : Match(map, c)}]

(* GSC_CLIENTS_notify_clients_about_neighbour, for a new map of the peer.  *)
NotifyClients(s, map) ==
  [s EXCEPT !.connected =
     (@ \cup {c \in active : ~ Match(tmap, c) /\ Match(map, c)})
       \ {c \in active : Match(tmap, c) /\ ~ Match(map, c)}]

-----------------------------------------------------------------------------
(* Sessions and the neighbour's queue.                                     *)

(* GSC_SESSIONS_create; the key exchange may have left messages behind.    *)
SessionUp ==
  /\ ~ up
  /\ up' = TRUE
  /\ tmap' = {} /\ told' = {}
  /\ accepted' = 0 /\ given' = 0
  /\ connected' = {c \in active : Match({}, c)}
  /\ UNCHANGED <<ready, list, smes, cork, queue, car, granted, active, faults>>

(* Mutant: the requests of the session that ends are kept.                 *)
EndSession_KeepRequests ==
  [State EXCEPT !.ready = FALSE, !.smes = <<>>, !.cork = FALSE, !.queue = <<>>,
                !.connected = {}]

(* free_neighbour and GSC_SESSIONS_end.  A client that has been told       *)
(* SEND_READY may still send.                                              *)
EndSession ==
  [Drop(State, Clients) EXCEPT !.ready = FALSE, !.smes = <<>>, !.cork = FALSE,
                               !.queue = <<>>, !.connected = {}]

(* handle_transport_notify_disconnect.                                     *)
Disconnect ==
  /\ up /\ faults < MaxFaults
  /\ up' = FALSE /\ tmap' = {}
  /\ faults' = faults + 1
  /\ Becomes(EndSession)
  /\ UNCHANGED <<active, counts>>

(* The key exchange sends a message, in any state.                         *)
ControlMessage ==
  /\ Len(queue) < MaxQueue
  /\ queue' = Append(queue, Control)
  /\ UNCHANGED <<up, tmap, ready, list, smes, cork, connected, car, granted, active,
                 counts, faults>>

(* Mutant: the task is not scheduled again.                                *)
TypemapTask_Once ==
  /\ up /\ Len(queue) <= MaxQueue /\ told = {}
  /\ queue' = Append(queue, <<MapMessage(MyMap)>>)
  /\ UNCHANGED <<up, tmap, ready, list, smes, cork, connected, car, granted, active,
                 counts, faults>>

(* transmit_typemap_task, in every period; it bypasses smes.               *)
TypemapTask ==
  /\ up /\ Len(queue) <= MaxQueue
  /\ queue' = Append(queue, <<MapMessage(MyMap)>>)
  /\ UNCHANGED <<up, tmap, ready, list, smes, cork, connected, car, granted, active,
                 counts, faults>>

(* What the session and the peer learn from a batch that leaves the queue. *)
Highest(batch) ==
  LET ids == {batch[i].id : i \in DOMAIN batch}
  IN  IF ids \subseteq {0} THEN given ELSE CHOOSE n \in ids : \A m \in ids : m <= n

LastMap(batch) ==
  LET maps == {i \in DOMAIN batch : batch[i].id = 0}
  IN  IF maps = {} THEN told
      ELSE batch[CHOOSE i \in maps : \A j \in maps : j <= i].map

(* Mutant: the session learns that it may transmit, and does not try.      *)
Emptied_NoTry(s) == [s EXCEPT !.ready = @ \/ (up /\ s.queue = <<>>)]

(* process_queue: an empty queue is reported with GSC_SESSIONS_solicit.    *)
Emptied(s) ==
  IF up /\ s.queue = <<>> THEN TryTransmission([s EXCEPT !.ready = TRUE]) ELSE s

(* transmit_ready: transport takes the message, or gives up on it.         *)
TransportReady(ok) ==
  /\ queue # <<>>
  /\ ok \/ faults < MaxFaults
  /\ given' = Highest(Head(queue))
  /\ told' = IF ok THEN LastMap(Head(queue)) ELSE told
  /\ faults' = IF ok THEN faults ELSE faults + 1
  /\ Becomes(Emptied([State EXCEPT !.queue = Tail(@)]))
  /\ UNCHANGED <<up, tmap, active, accepted>>

(* The deadline of the first corked message passes.                        *)
DeadlinePasses ==
  \E i \in DOMAIN smes :
    /\ smes[i].corked /\ \A j \in 1 .. i - 1 : ~ smes[j].corked
    /\ smes' = [smes EXCEPT ![i].corked = FALSE]
    /\ UNCHANGED <<up, tmap, ready, list, cork, queue, connected, car, granted, active,
                   counts, faults>>

(* pop_cork_task.  It is not cancelled when its batch is transmitted, so   *)
(* it may be early for the messages it finds.                              *)
PopCork ==
  /\ cork
  /\ UNCHANGED <<up, tmap, active, counts, faults>>
  /\ Becomes(TryTransmission([State EXCEPT !.cork = FALSE]))

-----------------------------------------------------------------------------
(* The type map of the peer.                                               *)

ChangeMap(s, map) ==
  /\ tmap' = map
  /\ Becomes(NotifyClients(s, map))

(* GSC_SESSIONS_set_typemap.                                               *)
SetTypeMap(map) ==
  /\ up
  /\ ChangeMap(State, map)
  /\ UNCHANGED <<up, active, counts, faults>>

(* GSC_CLIENTS_deliver_message calls GSC_SESSIONS_add_to_typemap for what  *)
(* the peer sends.                                                         *)
InboundMessage(type) ==
  /\ up
  /\ ChangeMap(State, tmap \cup {type})
  /\ UNCHANGED <<up, active, counts, faults>>

-----------------------------------------------------------------------------
(* Clients.                                                                *)

MapsWaiting == Cardinality({i \in DOMAIN smes : smes[i].id = 0})

(* GSC_TYPEMAP_add and _remove broadcast when a counter leaves or reaches  *)
(* zero.                                                                   *)
SetClients(s, clients) ==
  /\ active' = clients
  /\ MapsWaiting < MaxMaps
  /\ Becomes(IF MapOf(clients) # MyMap THEN Broadcast(s, MapOf(clients)) ELSE s)

(* handle_client_init.                                                     *)
ClientInit(c) ==
  /\ c \notin active
  /\ SetClients([State EXCEPT !.connected = IF up /\ Match(tmap, c) THEN @ \cup {c} ELSE @],
                active \cup {c})
  /\ UNCHANGED <<up, tmap, counts, faults>>

(* Mutant: the connectmap of the client survives it.                       *)
ClientDisconnect_KeepMap(c) ==
  /\ c \in active /\ faults < MaxFaults
  /\ faults' = faults + 1
  /\ SetClients([Drop(State, {c}) EXCEPT !.granted = @ \ {c}], active \ {c})
  /\ UNCHANGED <<up, tmap, counts>>

(* handle_client_disconnect.                                               *)
ClientDisconnect(c) ==
  /\ c \in active /\ faults < MaxFaults
  /\ faults' = faults + 1
  /\ SetClients([Drop(State, {c}) EXCEPT !.connected = @ \ {c}, !.granted = @ \ {c}],
                active \ {c})
  /\ UNCHANGED <<up, tmap, counts>>

(* handle_client_send_request.  Without a connection it is ignored; a      *)
(* request of the client that is still there is reused.  The request goes  *)
(* to the head of the list, unless it is too large.                        *)
SendRequest(c, size, late) ==
  /\ c \in active
  /\ LET d == [Drop(State, {c}) EXCEPT !.granted = @ \ {c}]
         request == [size |-> size, solicited |-> FALSE, late |-> late]
     IN  Becomes(IF c \notin connected THEN [State EXCEPT !.granted = @ \ {c}]
                 ELSE IF size > MaxSize THEN d
                 ELSE TryTransmission([d EXCEPT !.list = <<c>> \o @, !.car[c] = request]))
  /\ UNCHANGED <<up, tmap, active, counts, faults>>

(* The deadline of a request passes.                                       *)
Expire(c) ==
  /\ car[c] # NoRequest /\ ~ car[c].late
  /\ car' = [car EXCEPT ![c].late = TRUE]
  /\ UNCHANGED <<up, tmap, ready, list, smes, cork, queue, connected, granted, active,
                 counts, faults>>

(* Mutant: the message goes to the head of the list.                       *)
AddMessage_Head(s, sme) == TryTransmission([s EXCEPT !.smes = <<sme>> \o @])

(* GSC_SESSIONS_transmit.                                                  *)
AddMessage(s, sme) == TryTransmission([s EXCEPT !.smes = Append(@, sme)])

(* handle_client_send.  The request may be gone.  When some client wants   *)
(* to see outbound messages, the type is added to the map of the peer.     *)
(* The request leaves the session's list after try_transmission.           *)
SendMessage(c, type, isCorked) ==
  /\ c \in granted
  /\ LET s == [State EXCEPT !.granted = @ \ {c}]
         map == IF Monitors \cap active # {} THEN tmap \cup {type} ELSE tmap
         sme == [id |-> accepted + 1, size |-> car[c].size, corked |-> isCorked, map |-> {}]
     IN  IF car[c] = NoRequest
         THEN Becomes(s) /\ UNCHANGED <<tmap, accepted>>
         ELSE /\ accepted < MaxMessages
              /\ accepted' = accepted + 1
              /\ tmap' = map
              /\ Becomes(Drop(AddMessage(NotifyClients(s, map), sme), {c}))
  /\ UNCHANGED <<up, active, given, told, faults>>

(* A client does not answer SEND_READY: it has cancelled the request, or   *)
(* it has learned of a disconnect.                                         *)
Abandon(c) ==
  /\ c \in granted
  /\ granted' = granted \ {c}
  /\ UNCHANGED <<up, tmap, ready, list, smes, cork, queue, connected, car, active,
                 counts, faults>>

-----------------------------------------------------------------------------
Next ==
  \/ SessionUp \/ Disconnect \/ ControlMessage \/ TypemapTask
  \/ \E ok \in BOOLEAN : TransportReady(ok)
  \/ DeadlinePasses \/ PopCork
  \/ \E map \in SUBSET MessageTypes : SetTypeMap(map)
  \/ \E type \in MessageTypes : InboundMessage(type)
  \/ \E c \in Clients :
       \/ ClientInit(c) \/ ClientDisconnect(c) \/ Expire(c) \/ Abandon(c)
       \/ \E size \in Sizes, late \in BOOLEAN : SendRequest(c, size, late)
       \/ \E type \in MessageTypes, isCorked \in BOOLEAN : SendMessage(c, type, isCorked)

Spec == Init /\ [][Next]_vars

(* The scheduler runs a task whose time has come.  Transport answers every *)
(* request to transmit, if only with a failure, faster than type maps and  *)
(* the key exchange add messages: the queue becomes empty again and again. *)
FairSpec ==
  /\ Spec
  /\ []<>(queue = <<>>)
  /\ WF_vars(TypemapTask) /\ WF_vars(DeadlinePasses) /\ WF_vars(PopCork)
  /\ \A c \in Clients : WF_vars(Expire(c))

-----------------------------------------------------------------------------
(* The list of the session and the tables of the clients hold the same     *)
(* requests, each once, and only while there is a session: the assertions  *)
(* of GSC_SESSIONS_dequeue_request and GSC_CLIENTS_reject_request.         *)
RequestTracked ==
  /\ {list[i] : i \in DOMAIN list} = {c \in Clients : car[c] # NoRequest}
  /\ \A i, j \in DOMAIN list : list[i] = list[j] => i = j
  /\ list # <<>> => up
  /\ \A i \in DOMAIN list : list[i] \in active

(* A client believes in the connection exactly while its types match the   *)
(* map of the peer, whatever the order of INIT, maps and messages: the     *)
(* assertions of GSC_CLIENTS_notify_client_about_neighbour and             *)
(* send_to_all_clients.                                                    *)
ConnectedIffMatch == connected = {c \in active : up /\ Match(tmap, c)}

IsPayload(batch) == \E i \in DOMAIN batch : batch[i].id > 0

(* What a session took from its clients leaves the queue in that order,    *)
(* and nothing is skipped or sent twice, whatever is put in front of it:   *)
(* the numbers of what is on the way are those from given to accepted, and *)
(* they increase.  The session is ready only when its last batch has left  *)
(* the queue, so control messages are held up by one batch of the clients  *)
(* at most.                                                                *)
InOrder ==
  LET batches == {i \in DOMAIN queue : IsPayload(queue[i])}
      sent == IF batches = {} THEN <<>> ELSE queue[CHOOSE i \in batches : TRUE]
      out == sent \o smes
  IN  /\ \A i, j \in batches : ~ ready /\ i = j
      /\ up => /\ {out[i].id : i \in DOMAIN out} \ {0} = given + 1 .. accepted
               /\ \A i, j \in DOMAIN out : i < j /\ out[i].id > 0 =>
                    out[j].id = 0 \/ out[i].id < out[j].id

(* A message that the session took is passed to transport, although the    *)
(* session waits for an empty queue, for half a batch or for a deadline.   *)
MessageSent ==
  \A n \in 1 .. MaxMessages :
    (up /\ given < n /\ n <= accepted) ~> (given >= n \/ ~ up)

(* A request does not wait forever behind solicited requests that nobody   *)
(* will use: it is solicited, or dropped after its deadline.               *)
RequestAnswered ==
  \A c \in Clients :
    (car[c] # NoRequest /\ ~ car[c].solicited)
      ~> (car[c] = NoRequest \/ car[c].solicited)

(* The peer ends up with our type map, in spite of lost and reordered      *)
(* updates, thanks to transmit_typemap_task.                               *)
MapLearned == <>[]up => <>[](told = MyMap)

=============================================================================
