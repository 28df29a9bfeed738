------------------------------ MODULE UdpPlugin ------------------------------
(***************************************************************************)
(* Messages from one peer to another over the UDP transport plugin: the    *)
(* sender's session with its fragmentation context and transmission queue, *)
(* a network that loses, duplicates and reorders datagrams, the receiver's *)
(* defragmentation context, and its acknowledgements on the way back.      *)
(*                                                                         *)
(* Abstractions.  One session, IPv4, valid datagrams.  The library API     *)
(* calls that a continuation makes are steps of their own.  The sender's   *)
(* session is created by the next send when it is gone, as the transport   *)
(* service does.  A message of one fragment is sent unfragmented.          *)
(***************************************************************************)
EXTENDS Fragmentation, SeqFilter, FiniteSets

CONSTANTS MaxFaults,     \* bound: datagrams lost or duplicated, contexts evicted
          Capacity,      \* bound: datagrams in one direction of the network
          MaxAcks        \* bound: acknowledgements in the receiver's queue

ASSUME BoundsAssumption == {MaxFaults, Capacity, MaxAcks} \subseteq Nat

VARIABLES result,     \* result[m]: of the transmission, see Results
          frag_ctx,   \* the session's fragmentation context, or NoContext
          queue,      \* the sender's transmission queue, head first
          delayed,    \* flow_delay_from_other_peer lies in the future
          wire,       \* datagrams on the way to the receiver
          mcs,        \* the receiver's contexts for this sender
          session,    \* the receiver has a session with the sender
          ackQueue,   \* the receiver's transmission queue, head first
          armed,      \* its select task waits for the socket to be writable
          ackWire,    \* acknowledgements on the way to the sender
          delivered,  \* delivered[m]: times m was delivered by its context
          everDelivered,
          faults

sender == <<result, frag_ctx, queue, delayed>>
receiver == <<mcs, session, ackQueue, armed, delivered, everDelivered>>
network == <<wire, ackWire, faults>>
vars == <<sender, receiver, network>>

(* "pending": accepted, and the continuation not called yet; "late": so,   *)
(* and the timeout has passed.                                             *)
Results == {"none", "pending", "late", "refused", "OK", "SYSERR"}

TypeOK ==
  /\ result \in [Messages -> Results]
  /\ frag_ctx \in FragmentContexts \cup {NoContext}
  /\ queue \in Seq(Datagrams)
  /\ delayed \in BOOLEAN
  /\ wire \subseteq Datagrams
  /\ mcs \in Seq(MessageContexts) /\ Len(mcs) <= NumMsgs
  /\ session \in BOOLEAN
  /\ ackQueue \in Seq(Acks)
  /\ armed \in BOOLEAN
  /\ ackWire \subseteq Acks
  /\ delivered \in [Messages -> 0 .. 2]
  /\ everDelivered \subseteq Messages
  /\ faults \in 0 .. MaxFaults

Init ==
  /\ result = [m \in Messages |-> "none"]
  /\ frag_ctx = NoContext
  /\ queue = <<>>
  /\ delayed = FALSE
  /\ wire = {} /\ ackWire = {}
  /\ mcs = <<>>
  /\ session = FALSE
  /\ ackQueue = <<>>
  /\ armed = FALSE
  /\ delivered = [m \in Messages |-> 0]
  /\ everDelivered = {}
  /\ faults = 0

(* A datagram on the network; beyond its capacity it is lost.              *)
Put(w, d) == IF Cardinality(w \cup {d}) <= Capacity THEN w \cup {d} ELSE w

Fragmented(m) == Fragments[m] > 1
Busy == frag_ctx # NoContext
Pending(m) == result[m] \in {"pending", "late"}
Held == {queue[i][1] : i \in DOMAIN queue}
          \cup (IF Busy THEN {frag_ctx.msg} ELSE {})

-----------------------------------------------------------------------------
(* The sender.                                                             *)

(* enqueue inserts at the head of the queue.                               *)
Enqueue(d, q) == <<d>> \o q

(* udp_plugin_send.  A session fragments one message at a time.            *)
Send(m) ==
  /\ result[m] = "none"
  /\ \/ /\ ~ Fragmented(m)
        /\ queue' = Enqueue(<<m, 0>>, queue)
        /\ result' = [result EXCEPT ![m] = "pending"]
        /\ UNCHANGED frag_ctx
     \/ /\ Fragmented(m) /\ ~ Busy
        /\ frag_ctx' = FragmentContextCreate(m)
        /\ result' = [result EXCEPT ![m] = "pending"]
        /\ UNCHANGED queue
     \/ /\ Fragmented(m) /\ Busy
        /\ result' = [result EXCEPT ![m] = "refused"]
        /\ UNCHANGED <<frag_ctx, queue>>
  /\ UNCHANGED <<delayed, receiver, network>>

(* transmit_next calls enqueue_fragment.                                   *)
TransmitFragment ==
  /\ Busy /\ frag_ctx.task
  /\ frag_ctx' = TransmitNext(frag_ctx)
  /\ queue' = Enqueue(<<frag_ctx.msg, CurrentBit(frag_ctx)>>, queue)
  /\ UNCHANGED <<result, delayed, receiver, network>>

(* remove_timeout_messages_and_select looks from the head on: it drops     *)
(* what has expired up to the first message that has not.  A session whose *)
(* flow delay is in the future has no select for writing.                  *)
LeadingExpired(q) ==
  CHOOSE n \in 0 .. Len(q) :
    /\ \A i \in 1 .. n : result[q[i][1]] = "late"
    /\ n < Len(q) => result[q[n + 1][1]] # "late"

(* Mutant: fragments of the message stay in the queue.                     *)
Leftover_Keep(q, m) == q

(* fragmented_message_done takes the fragments of its message out of the   *)
(* queue.                                                                  *)
Leftover(q, m) == Excluding(q, {m} \X Bits(m))

(* call_continuation for a datagram that sendto accepted or refused.  For  *)
(* a fragment the continuation is send_next_fragment, which is called only *)
(* when sendto succeeded.                                                  *)
Continuation(d, fc, ok) ==
  IF Fragmented(d[1]) /\ ok THEN TransmissionDone(fc) ELSE fc

Outcome(d, res, ok) ==
  IF Fragmented(d[1]) THEN res
  ELSE [res EXCEPT ![d[1]] = IF ok THEN "OK" ELSE "SYSERR"]

(* udp_select_send.                                                        *)
SelectSend ==
  /\ queue # <<>> /\ ~ delayed
  /\ LET n == LeadingExpired(queue)
         dropped == {queue[i][1] : i \in 1 .. n}
         res == [m \in Messages |-> IF m \in dropped THEN "SYSERR" ELSE result[m]]
         timedOut == Busy /\ frag_ctx.msg \in dropped
         fc == IF timedOut THEN NoContext ELSE frag_ctx
         rest == LET q == SubSeq(queue, n + 1, Len(queue))
                 IN  IF timedOut THEN Leftover(q, frag_ctx.msg) ELSE q
     IN  IF rest = <<>>
         THEN /\ result' = res /\ frag_ctx' = fc /\ queue' = rest
              /\ UNCHANGED wire
         ELSE \E ok \in BOOLEAN :
                /\ result' = Outcome(Head(rest), res, ok)
                /\ frag_ctx' = Continuation(Head(rest), fc, ok)
                /\ queue' = Tail(rest)
                /\ wire' = IF ok THEN Put(wire, Head(rest)) ELSE wire
  /\ UNCHANGED <<delayed, receiver, ackWire, faults>>

(* Time passes: the deadline of a message, or of the flow delay.           *)
Expire(m) ==
  /\ result[m] = "pending"
  /\ result' = [result EXCEPT ![m] = "late"]
  /\ UNCHANGED <<frag_ctx, queue, delayed, receiver, network>>

FlowDelayOver ==
  /\ delayed
  /\ delayed' = FALSE
  /\ UNCHANGED <<result, frag_ctx, queue, receiver, network>>

(* disconnect_session.                                                     *)
Disconnect ==
  /\ Held # {}
  /\ result' = [m \in Messages |-> IF m \in Held THEN "SYSERR" ELSE result[m]]
  /\ frag_ctx' = NoContext
  /\ queue' = <<>>
  /\ delayed' = FALSE
  /\ UNCHANGED <<receiver, network>>

-----------------------------------------------------------------------------
(* The network.                                                            *)

Fault == faults < MaxFaults /\ faults' = faults + 1

(* A datagram is taken from a direction of the network, or duplicated.     *)
Taken(w, d) ==
  \/ w' = w \ {d} /\ UNCHANGED faults
  \/ Fault /\ UNCHANGED w

Lose ==
  /\ Fault
  /\ \/ \E d \in wire : wire' = wire \ {d} /\ UNCHANGED ackWire
     \/ \E a \in ackWire : ackWire' = ackWire \ {a} /\ UNCHANGED wire
  /\ UNCHANGED <<sender, receiver>>

(* read_process_ack: an acknowledgement is looked at only while a message  *)
(* is being fragmented, and its flow delay is taken before its identifier  *)
(* is compared.                                                            *)
ReadAck(a) ==
  /\ a \in ackWire
  /\ Taken(ackWire, a)
  /\ IF ~ Busy THEN UNCHANGED <<result, frag_ctx, queue, delayed>>
     ELSE /\ delayed' \in BOOLEAN
          /\ \/ /\ a[1] # frag_ctx.msg
                /\ UNCHANGED <<result, frag_ctx, queue>>
             \/ /\ a[1] = frag_ctx.msg
                /\ ProcessAck(frag_ctx, a).acks # {}
                /\ frag_ctx' = ProcessAck(frag_ctx, a)
                /\ UNCHANGED <<result, queue>>
             \/ /\ a[1] = frag_ctx.msg
                /\ ProcessAck(frag_ctx, a).acks = {}
                /\ result' = [result EXCEPT ![a[1]] = "OK"]
                /\ queue' = Leftover(queue, a[1])
                /\ frag_ctx' = NoContext
  /\ UNCHANGED <<receiver, wire>>

-----------------------------------------------------------------------------
(* The receiver.                                                           *)

(* What the contexts that remain have delivered; two stands for more.      *)
DeliveredBy(contexts, complete) ==
  [m \in Messages |->
     IF ~ Known(contexts, m) THEN 0
     ELSE IF m \in complete /\ delivered[m] < 2 THEN delivered[m] + 1
     ELSE delivered[m]]

(* udp_select_read: process_udp_message creates the receiver's session.    *)
(* The handler ends with schedule_select.                                  *)
ReadDatagram(d) ==
  /\ d \in wire
  /\ Taken(wire, d)
  /\ LET complete == IF ~ Fragmented(d[1]) \/ CompletesMessage(mcs, d) THEN {d[1]} ELSE {}
     IN  /\ mcs' = IF Fragmented(d[1]) THEN ProcessFragment(mcs, d) ELSE mcs
         /\ delivered' = DeliveredBy(mcs', complete)
         /\ everDelivered' = everDelivered \cup complete
         /\ session' = (session \/ complete # {})
  /\ armed' = (ackQueue # <<>>)
  /\ UNCHANGED <<sender, ackQueue, ackWire>>

(* send_ack and ack_proc.  The acknowledgement needs a session, and the    *)
(* select task is not scheduled again.                                     *)
SendAck(m) ==
  /\ Known(mcs, m) /\ mcs[IndexOf(mcs, m)].ack
  /\ Len(ackQueue) < MaxAcks
  /\ mcs' = AckSent(mcs, IndexOf(mcs, m))
  /\ ackQueue' = IF session THEN Enqueue(AckOf(mcs[IndexOf(mcs, m)]), ackQueue) ELSE ackQueue
  /\ UNCHANGED <<sender, session, armed, delivered, everDelivered, network>>

(* udp_plugin_select of the receiver, for writing.                         *)
WriteAck ==
  /\ armed
  /\ IF ackQueue = <<>>
     THEN /\ armed' = FALSE
          /\ UNCHANGED <<ackQueue, ackWire, faults>>
     ELSE /\ \/ ackWire' = Put(ackWire, Head(ackQueue)) /\ UNCHANGED faults
             \/ Fault /\ UNCHANGED ackWire
          /\ ackQueue' = Tail(ackQueue)
          /\ armed' = (Tail(ackQueue) # <<>>)
  /\ UNCHANGED <<sender, mcs, session, delivered, everDelivered, wire>>

(* disconnect_session of the receiver drops its acknowledgements, and the  *)
(* defragmentation context lives on.                                       *)
EndSession ==
  /\ session
  /\ session' = FALSE
  /\ ackQueue' = <<>>
  /\ UNCHANGED <<sender, mcs, armed, delivered, everDelivered, network>>

(* Fragments from other addresses push this context out of the heap.       *)
EvictContext ==
  /\ mcs # <<>>
  /\ Fault
  /\ mcs' = <<>>
  /\ delivered' = DeliveredBy(<<>>, {})
  /\ UNCHANGED <<sender, session, ackQueue, armed, everDelivered, wire, ackWire>>

Next ==
  \/ \E m \in Messages : Send(m) \/ Expire(m) \/ SendAck(m)
  \/ TransmitFragment \/ SelectSend \/ FlowDelayOver \/ Disconnect
  \/ Lose \/ (\E a \in ackWire : ReadAck(a)) \/ (\E d \in wire : ReadDatagram(d))
  \/ WriteAck \/ EndSession \/ EvictContext

Spec == Init /\ [][Next]_vars

(* The scheduler runs every task that is ready, the sockets become         *)
(* writable, and the flow delay passes.  Nothing is assumed of the network *)
(* or of the deadline of messages.                                         *)
FairSpec ==
  /\ Spec
  /\ WF_vars(TransmitFragment) /\ WF_vars(SelectSend) /\ WF_vars(FlowDelayOver)
  /\ \A m \in Messages : WF_vars(SendAck(m))
  /\ WF_vars(WriteAck)

-----------------------------------------------------------------------------
(* Properties.                                                             *)

(* The assertions of transmit_next, transmission_done and process_ack: a   *)
(* context has a scheduled transmission or a fragment at proc, never both  *)
(* and never neither; and it has something to transmit, or it would stay   *)
(* without a task for ever.                                                *)
ContextState == Busy => frag_ctx.task # frag_ctx.busy /\ frag_ctx.acks # {}

(* A queued fragment points to the context it came from: when a message is *)
(* done none of its fragments is left in the queue, where the next select  *)
(* would use the freed context.  At most one fragment is queued, and a     *)
(* message whose continuation was not called is held by the queue or by    *)
(* the session, which owe it the call.                                     *)
QueueOwned ==
  /\ \A i \in DOMAIN queue : Fragmented(queue[i][1]) =>
       /\ Busy /\ frag_ctx.msg = queue[i][1] /\ frag_ctx.busy
       /\ \A j \in DOMAIN queue : Fragmented(queue[j][1]) => j = i
  /\ \A m \in Messages : Pending(m) <=> m \in Held

(* Success is reported for a fragmented message only after the receiver    *)
(* delivered it, whatever acknowledgements were lost, repeated, reordered  *)
(* or made by a context that was discarded and created again.              *)
SuccessMeansDelivered ==
  \A m \in Messages : Fragmented(m) /\ result[m] = "OK" => m \in everDelivered

(* A context delivers its message once, for duplicates and retransmissions *)
(* that arrive after it was complete are only acknowledged.                *)
DeliveredOnce == \A m \in Messages : delivered[m] <= 1

(* sendto failed for the fragment at proc: the fragmenter waits for a call *)
(* of transmission_done that nobody will make.                             *)
Stuck == Busy /\ frag_ctx.busy /\ \A i \in DOMAIN queue : queue[i][1] # frag_ctx.msg

(* Provided that deadlines pass, the continuation of every message the     *)
(* plugin accepted is called, without help of the network or the receiver; *)
(* the only exception is a fragment that sendto refused.                   *)
Answered ==
  (\A m \in Messages : WF_vars(Expire(m))) =>
    \A m \in Messages : Pending(m) ~> ~ Pending(m) \/ Stuck

(* The receiver has no session, hence drops every acknowledgement, and     *)
(* what the sender still transmits will not make it create one: it has the *)
(* whole message, or its context was discarded and created again and lacks *)
(* a fragment that an earlier acknowledgement covered.                     *)
Mute(m) ==
  /\ ~ session /\ Busy /\ frag_ctx.msg = m /\ Known(mcs, m)
  /\ LET missing == mcs[IndexOf(mcs, m)].bits
     IN  missing = {} \/ ~ missing \subseteq frag_ctx.acks

(* Provided that the network delivers what it does not lose, every         *)
(* fragmented message is completed by retransmission and acknowledgement   *)
(* even if its deadline never passes.  The exceptions: a refused fragment, *)
(* and a mute receiver.                                                    *)
Acknowledged ==
  (/\ \A d \in Datagrams : WF_vars(ReadDatagram(d))
   /\ \A a \in Acks : WF_vars(ReadAck(a))) =>
    \A m \in Messages :
      Fragmented(m) /\ Pending(m) ~> ~ Pending(m) \/ Stuck \/ Mute(m)

=============================================================================
