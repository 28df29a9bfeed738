----------------------------- MODULE LockSystem -----------------------------
(***************************************************************************)
(* The lock manager as an application sees it: the client library          *)
(* (lockmanager_api.c) over its connection to the service (util/client.c,  *)
(* util/connection.c), composed with the service of LockService.  A step   *)
(* of the service on a message is the LockService action of that message.  *)
(*                                                                         *)
(* Abstractions.  An application has at most one request per lock, with a  *)
(* status callback.  The two directions of a connection are queues of      *)
(* whole messages; establishing a connection is one step, for the service  *)
(* is restarted at once.                                                   *)
(***************************************************************************)
EXTENDS LockService

CONSTANTS Cancels,       \* requests that applications cancel, see Cancel
          MaxRestarts    \* bound: restarts of the service

ASSUME CancelsAssumption  == Cancels \subseteq {"queued", "sent", "told", "untold"}
ASSUME RestartsAssumption == MaxRestarts \in Nat
ASSUME LocksAssumption    == IsFiniteSet(Locks)

VARIABLES status,     \* status[c][l]: of the request for l, "none" without one
          sent,       \* sent[c][l]: acquire_sent
          mq,         \* mq[c]: the message queue of the handle
          th,         \* th[c]: transmit_handle, see NotifyTransmitReady
          replies,    \* replies[c]: in_replies
          cb,         \* cb[c]: locks with a scheduled call_status_cb_task
          conn,       \* conn[c]: state of the client's connection
          toService, toClient,   \* messages on the connection
          restarts

clientVars == <<status, sent, mq, th, replies, cb>>
netVars == <<conn, toService, toClient>>
sysVars == <<vars, clientVars, netVars, restarts>>

Acq(l) == [type |-> "ACQUIRE", lock |-> l]
Rel(l) == [type |-> "RELEASE", lock |-> l]
Requests == [type : {"ACQUIRE", "RELEASE"}, lock : Locks]

(* "open"; "closed": the service closed it, and the socket can still lose  *)
(* one message; "reset": the next write fails; "down": the client closed   *)
(* its socket after that error; "leaving": the client is gone, the service *)
(* has not noticed.                                                        *)
ConnStates == {"open", "closed", "reset", "down", "leaving"}

(* The types, with the assertion of transmit_notify that a transmission is *)
(* only requested for a message in the queue.  No message is queued twice: *)
(* a second ACQUIRE for a lock would make the service close the connection *)
(* with all the client's locks.                                            *)
SysTypeOK ==
  /\ TypeOK
  /\ status \in [Clients -> [Locks -> {"none", "RELEASE", "SUCCESS"}]]
  /\ sent \in [Clients -> [Locks -> BOOLEAN]]
  /\ mq \in [Clients -> Seq(Requests)]
  /\ \A c \in Clients : IsInjective(mq[c])
  /\ th \in [Clients -> {"none", "armed", "dead"}]
  /\ \A c \in Clients : th[c] = "armed" => mq[c] # <<>>
  /\ replies \in [Clients -> BOOLEAN]
  /\ cb \in [Clients -> SUBSET Locks]
  /\ conn \in [Clients -> ConnStates]
  /\ toService \in [Clients -> Seq(Requests)]
  /\ toClient \in [Clients -> Seq(Locks)]
  /\ restarts \in 0 .. MaxRestarts

SysInit ==
  /\ Init
  /\ status = [c \in Clients |-> [l \in Locks |-> "none"]]
  /\ sent = [c \in Clients |-> [l \in Locks |-> FALSE]]
  /\ mq = [c \in Clients |-> <<>>]
  /\ th = [c \in Clients |-> "none"]
  /\ replies = [c \in Clients |-> TRUE]
  /\ cb = [c \in Clients |-> {}]
  /\ conn = [c \in Clients |-> "open"]
  /\ toService = [c \in Clients |-> <<>>]
  /\ toClient = [c \in Clients |-> <<>>]
  /\ restarts = 0

-----------------------------------------------------------------------------
(* The client library.                                                     *)

(* queue_message: a transmission is requested unless one is.  "dead" is a  *)
(* request that the connection keeps after it closed its socket on a write *)
(* error: no task will answer it.                                          *)
NotifyTransmitReady(handle) == IF handle = "none" THEN "armed" ELSE handle

QueueMessages(c, s) ==
  /\ mq' = [mq EXCEPT ![c] = @ \o s]
  /\ th' = [th EXCEPT ![c] = IF s = <<>> THEN @ ELSE NotifyTransmitReady(@)]

(* GNUNET_LOCKMANAGER_acquire_lock                                         *)
AcquireLock(c, l) ==
  /\ conn[c] # "leaving"
  /\ status[c][l] = "none"
  /\ status' = [status EXCEPT ![c][l] = "RELEASE"]
  /\ sent' = [sent EXCEPT ![c][l] = FALSE]
  /\ QueueMessages(c, <<Acq(l)>>)
  /\ UNCHANGED <<vars, replies, cb, netVars, restarts>>

(* What an application may know of its request: its ACQUIRE is queued or   *)
(* on its way, the lock was granted, the callback told so.                 *)
Stage(c, l) ==
  CASE ~sent[c][l] -> "queued"
    [] sent[c][l] /\ status[c][l] = "RELEASE" -> "sent"
    [] OTHER -> IF l \in cb[c] THEN "untold" ELSE "told"

(* Mutant: the transmission requested for the message is not cancelled.    *)
CancelQueued_KeepHandle(c, l) ==
  /\ ~sent[c][l]
  /\ mq' = [mq EXCEPT ![c] = RemoveFirst(@, Acq(l))]
  /\ UNCHANGED th

(* Mutant: RELEASE is sent after the ACQUIRE that is still in the queue.   *)
CancelQueued_Release(c, l) ==
  /\ ~sent[c][l]
  /\ QueueMessages(c, <<Rel(l)>>)

(* Mutant: the grant is kept when the request is cancelled.                *)
CancelSent_Keep(c, l) ==
  /\ sent[c][l]
  /\ UNCHANGED <<mq, th>>

(* GNUNET_LOCKMANAGER_cancel_request: the ACQUIRE is taken out of the      *)
(* queue (with the transmission requested for it, if it is the first), or  *)
(* a lock that was granted is released.                                    *)
CancelQueued(c, l) ==
  /\ ~sent[c][l]
  /\ mq' = [mq EXCEPT ![c] = RemoveFirst(@, Acq(l))]
  /\ th' = [th EXCEPT ![c] = IF Head(mq[c]) = Acq(l) THEN "none" ELSE @]

CancelSent(c, l) ==
  /\ sent[c][l]
  /\ QueueMessages(c, IF status[c][l] = "SUCCESS" THEN <<Rel(l)>> ELSE <<>>)

Cancel(c, l) ==
  /\ conn[c] # "leaving"
  /\ status[c][l] # "none"
  /\ Stage(c, l) \in Cancels
  /\ CancelQueued(c, l) \/ CancelSent(c, l)
  /\ status' = [status EXCEPT ![c][l] = "none"]
  /\ sent' = [sent EXCEPT ![c][l] = FALSE]
  /\ UNCHANGED <<vars, replies, cb, netVars, restarts>>

(* handle_replies: SUCCESS for a request that does not have it yet.        *)
HandleSuccess(c) ==
  /\ replies[c] /\ toClient[c] # <<>>
  /\ LET l == Head(toClient[c]) IN
     /\ status' = [status EXCEPT ![c][l] = IF @ = "RELEASE" THEN "SUCCESS" ELSE @]
     /\ cb' = [cb EXCEPT ![c] = IF status[c][l] = "RELEASE" THEN @ \cup {l} ELSE @]
  /\ toClient' = [toClient EXCEPT ![c] = Tail(@)]
  /\ UNCHANGED <<vars, sent, mq, th, replies, conn, toService, restarts>>

(* call_status_cb_task                                                     *)
CallStatusCb(c) ==
  /\ \E l \in cb[c] : cb' = [cb EXCEPT ![c] = @ \ {l}]
  /\ UNCHANGED <<vars, status, sent, mq, th, replies, netVars, restarts>>

(* Mutant: the application is not told that it lost its locks.             *)
ReleaseAndRetry_Silent(c, isSent, queue, handle) ==
  LET lost == {l \in Locks : status[c][l] # "none" /\ isSent[l]} IN
  \E p \in SetToSeqs(lost) :
    /\ mq' = [mq EXCEPT ![c] = queue \o [i \in DOMAIN p |-> Acq(p[i])]]
    /\ th' = [th EXCEPT ![c] = IF p = <<>> THEN handle ELSE NotifyTransmitReady(handle)]
    /\ sent' = [sent EXCEPT ![c] = [l \in Locks |-> FALSE]]
    /\ UNCHANGED status

(* Mutant: nothing is queued.                                              *)
ReleaseAndRetry_Forget(c, isSent, queue, handle) ==
  /\ mq' = [mq EXCEPT ![c] = queue]
  /\ th' = [th EXCEPT ![c] = handle]
  /\ sent' = [sent EXCEPT ![c] = isSent]
  /\ status' = [status EXCEPT ![c] =
                  [l \in Locks |-> IF @[l] = "SUCCESS" THEN "RELEASE" ELSE @[l]]]

(* release_n_retry_iterator for the requests whose ACQUIRE was sent, in    *)
(* the order p of the hash map: back to RELEASE, and ACQUIRE is queued.    *)
ReleaseAndRetry(c, isSent, queue, handle) ==
  LET lost == {l \in Locks : status[c][l] # "none" /\ isSent[l]} IN
  \E p \in SetToSeqs(lost) :
    /\ mq' = [mq EXCEPT ![c] = queue \o [i \in DOMAIN p |-> Acq(p[i])]]
    /\ th' = [th EXCEPT ![c] = IF p = <<>> THEN handle ELSE NotifyTransmitReady(handle)]
    /\ sent' = [sent EXCEPT ![c] = [l \in Locks |-> FALSE]]
    /\ status' = [status EXCEPT ![c] =
                    [l \in Locks |-> IF l \in lost THEN "RELEASE" ELSE @[l]]]

(* handle_replies without a message: the service closed the connection.    *)
ServiceGone(c) ==
  /\ conn[c] \in {"closed", "reset"} /\ replies[c] /\ toClient[c] = <<>>
  /\ replies' = [replies EXCEPT ![c] = FALSE]
  /\ ReleaseAndRetry(c, sent[c], mq[c], th[c])
  /\ UNCHANGED <<vars, cb, netVars, restarts>>

(* transmit_notify takes the first message, notes that an ACQUIRE is sent, *)
(* requests the next transmission and receives again if it did not.        *)
SentAfter(c) ==
  [l \in Locks |-> sent[c][l] \/ (status[c][l] # "none" /\ Head(mq[c]) = Acq(l))]

TransmitNotify(c) ==
  /\ mq' = [mq EXCEPT ![c] = Tail(@)]
  /\ th' = [th EXCEPT ![c] = IF Len(mq[c]) > 1 THEN "armed" ELSE "none"]
  /\ sent' = [sent EXCEPT ![c] = SentAfter(c)]
  /\ replies' = [replies EXCEPT ![c] = TRUE]
  /\ UNCHANGED <<status, cb>>

TransmitReady(c) ==
  /\ th[c] = "armed" /\ conn[c] = "open"
  /\ toService' = [toService EXCEPT ![c] = Append(@, Head(mq[c]))]
  /\ TransmitNotify(c)
  /\ UNCHANGED <<vars, conn, toClient, restarts>>

(* The service closed the connection: the message is lost in the socket,   *)
(* with what was not read before the reset arrives.                        *)
TransmitLost(c) ==
  /\ th[c] = "armed" /\ conn[c] = "closed"
  /\ TransmitNotify(c)
  /\ conn' = [conn EXCEPT ![c] = "reset"]
  /\ toClient' = [toClient EXCEPT ![c] = <<>>]
  /\ UNCHANGED <<vars, toService, restarts>>

(* ... or the write fails: signal_transmit_error closes the socket and     *)
(* tells the receiver (transmit_notify made sure that there is one), and   *)
(* not the transmission that transmit_notify has requested meanwhile.      *)
TransmitError(c) ==
  /\ th[c] = "armed" /\ conn[c] \in {"closed", "reset"}
  /\ conn' = [conn EXCEPT ![c] = "down"]
  /\ toClient' = [toClient EXCEPT ![c] = <<>>]
  /\ replies' = [replies EXCEPT ![c] = FALSE]
  /\ ReleaseAndRetry(c, SentAfter(c), Tail(mq[c]),
                     IF Len(mq[c]) > 1 THEN "dead" ELSE "none")
  /\ UNCHANGED <<vars, cb, toService, restarts>>

(* connect_error, client_notify and client_delayed_retry: a transmission   *)
(* requested without a socket makes a new connection first.                *)
Reconnect(c) ==
  /\ th[c] = "armed" /\ conn[c] = "down"
  /\ conn' = [conn EXCEPT ![c] = "open"]
  /\ UNCHANGED <<vars, clientVars, toService, toClient, restarts>>

(* GNUNET_LOCKMANAGER_disconnect (of an application that waits for nothing *)
(* unless Faults has "waiter_leaves"), then a new handle.                  *)
DisconnectHandle(c) ==
  /\ conn[c] # "leaving"
  /\ "waiter_leaves" \in Faults \/ \A l \in Locks : status[c][l] = "RELEASE" => ~sent[c][l]
  /\ "untold" \in Cancels \/ cb[c] = {}
  /\ conn' = [conn EXCEPT ![c] = IF @ = "open" THEN "leaving" ELSE "open"]
  /\ status' = [status EXCEPT ![c] = [l \in Locks |-> "none"]]
  /\ sent' = [sent EXCEPT ![c] = [l \in Locks |-> FALSE]]
  /\ mq' = [mq EXCEPT ![c] = <<>>]
  /\ th' = [th EXCEPT ![c] = "none"]
  /\ replies' = [replies EXCEPT ![c] = TRUE]
  /\ cb' = [cb EXCEPT ![c] = {}]
  /\ toClient' = [toClient EXCEPT ![c] = <<>>]
  /\ UNCHANGED <<vars, toService, restarts>>

-----------------------------------------------------------------------------
(* The service on the connections.                                         *)

Pop(c) ==
  /\ toService' = [toService EXCEPT ![c] = Tail(@)]
  /\ UNCHANGED <<conn, toClient>>

(* The service closes the connection; what it wrote before can be read.    *)
Close(c) ==
  /\ conn' = [conn EXCEPT ![c] = IF @ = "leaving" THEN "open" ELSE "closed"]
  /\ toService' = [toService EXCEPT ![c] = <<>>]
  /\ UNCHANGED toClient

ServiceAcquire(c) ==
  /\ toService[c] # <<>> /\ Head(toService[c]).type = "ACQUIRE"
  /\ LET l == Head(toService[c]).lock IN
     (Acquire(c, l) /\ Pop(c)) \/ (AcquireTwice(c, l) /\ Close(c))
  /\ UNCHANGED <<clientVars, restarts>>

ServiceRelease(c) ==
  /\ toService[c] # <<>> /\ Head(toService[c]).type = "RELEASE"
  /\ LET l == Head(toService[c]).lock IN
     (Release(c, l) /\ Pop(c)) \/ (ReleaseUnknown(c, l) /\ Close(c))
  /\ UNCHANGED <<clientVars, restarts>>

ServiceDisconnect(c) ==
  /\ conn[c] = "leaving" /\ toService[c] = <<>>
  /\ IF c \in cl THEN Disconnect(c) ELSE UNCHANGED vars
  /\ Close(c)
  /\ UNCHANGED <<clientVars, restarts>>

ServiceReply(c) ==
  /\ Transmit(c)
  /\ toClient' = [toClient EXCEPT ![c] = IF conn[c] = "open" THEN Append(@, reply[c]) ELSE @]
  /\ UNCHANGED <<clientVars, conn, toService, restarts>>

ServiceRestart ==
  /\ restarts < MaxRestarts
  /\ restarts' = restarts + 1
  /\ Shutdown
  /\ conn' = [c \in Clients |-> IF conn[c] = "open" THEN "closed"
                                ELSE IF conn[c] = "leaving" THEN "open" ELSE conn[c]]
  /\ toService' = [c \in Clients |-> <<>>]
  /\ UNCHANGED <<clientVars, toClient>>

SysNext ==
  \/ \E c \in Clients, l \in Locks : AcquireLock(c, l) \/ Cancel(c, l)
  \/ \E c \in Clients :
       \/ HandleSuccess(c) \/ CallStatusCb(c) \/ ServiceGone(c)
       \/ TransmitReady(c) \/ TransmitLost(c) \/ TransmitError(c) \/ Reconnect(c)
       \/ DisconnectHandle(c)
       \/ ServiceAcquire(c) \/ ServiceRelease(c) \/ ServiceDisconnect(c) \/ ServiceReply(c)
  \/ ServiceRestart

SysSpec == SysInit /\ [][SysNext]_sysVars

(* Fairness: the schedulers of both programs run what is ready, and an     *)
(* application gives a lock back some time after it was told it has it.    *)
SysFairness ==
  \A c \in Clients :
    /\ WF_sysVars(HandleSuccess(c)) /\ WF_sysVars(CallStatusCb(c))
    /\ WF_sysVars(ServiceGone(c)) /\ WF_sysVars(Reconnect(c))
    /\ WF_sysVars(TransmitReady(c) \/ TransmitLost(c) \/ TransmitError(c))
    /\ WF_sysVars(ServiceAcquire(c) \/ ServiceRelease(c) \/ ServiceDisconnect(c))
    /\ WF_sysVars(ServiceReply(c))
    /\ \A l \in Locks : WF_sysVars(sent[c][l] /\ Cancel(c, l))

SysFairSpec == SysSpec /\ SysFairness

-----------------------------------------------------------------------------
(* Properties.                                                             *)

InFlight(c) == mq[c] \o toService[c]

(* What the library believes is what the service knows: an application     *)
(* whose request has SUCCESS on an open connection owns the lock, so no    *)
(* two of them do, whatever was cancelled, requested again, lost in a      *)
(* restart or still on its way.                                            *)
BeliefIsTrue ==
  \A c \in Clients, l \in Locks :
    conn[c] = "open" /\ status[c][l] = "SUCCESS" => owner[l] = c

(* "If the lock is acquired by us then the lock is released"               *)
(* (GNUNET_LOCKMANAGER_cancel_request): a lock does not stay with a client *)
(* that has no request for it, a RELEASE is on its way or the client's     *)
(* connection is ending.                                                   *)
NoOrphanedLock ==
  \A c \in Clients, l \in Locks :
    owner[l] = c => \/ status[c][l] # "none" /\ sent[c][l]
                    \/ \E i \in DOMAIN InFlight(c) : InFlight(c)[i] = Rel(l)
                    \/ conn[c] = "leaving"

(* The library keeps the assumption that LockService makes on its clients: *)
(* the service gets RELEASE from an owner only after it told the owner.    *)
ReleaseExpected ==
  \A c \in Clients, l \in Locks :
    toService[c] # <<>> /\ Head(toService[c]) = Rel(l) /\ owner[l] = c => c \in told[l]

(* The message queue of a handle is stalled: it has messages and nothing   *)
(* that transmits them.                                                    *)
Stalled(c) == mq[c] # <<>> /\ th[c] # "armed"

(* "Tries to acquire the given lock (even if the lock has been lost) until *)
(* the request is called": a request gets SUCCESS or is cancelled, across  *)
(* restarts of the service, as long as the message queue does not stall.   *)
RequestServed ==
  \A c \in Clients, l \in Locks :
    status[c][l] = "RELEASE" ~> status[c][l] # "RELEASE" \/ Stalled(c)

-----------------------------------------------------------------------------
(* The inductive invariant.                                                *)

Has(s, e) == \E i \in DOMAIN s : s[i] = e

(* A queue of messages holds each message once, and RELEASE of a lock      *)
(* before ACQUIRE of it.                                                   *)
Orderly(s) ==
  /\ s \in Seq(Requests)
  /\ IsInjective(s)
  /\ \A l \in Locks : \A i, j \in DOMAIN s : s[i] = Rel(l) /\ s[j] = Acq(l) => i < j

QueuesInv(c) ==
  /\ Orderly(mq[c]) /\ Orderly(toService[c]) /\ IsInjective(toClient[c])
  /\ th[c] = "armed" => mq[c] # <<>>

(* What the messages queued and sent for a lock say of the request.        *)
RequestInv(c, l) ==
  /\ Has(mq[c], Acq(l)) <=> status[c][l] # "none" /\ ~sent[c][l]
  /\ sent[c][l] => status[c][l] # "none"
  /\ status[c][l] = "SUCCESS" => sent[c][l]
  /\ Has(mq[c], Rel(l)) =>
       ~sent[c][l] /\ ~Has(toService[c], Rel(l)) /\ ~Has(toService[c], Acq(l))
  /\ Has(toService[c], Acq(l)) => status[c][l] = "RELEASE" /\ sent[c][l]
  /\ Has(toService[c], Rel(l)) => status[c][l] # "SUCCESS"
  /\ Has(toClient[c], l) =>
       /\ status[c][l] = "RELEASE" /\ sent[c][l]
       /\ ~Has(toService[c], Rel(l)) /\ ~Has(toService[c], Acq(l))

(* What a connection that is not open leaves behind.                       *)
ConnInv(c, l) ==
  /\ conn[c] \in {"closed", "reset", "down"} => toService[c] = <<>> /\ ll[c][l] = 0
  /\ conn[c] \in {"reset", "down", "leaving"} => toClient[c] = <<>>
  /\ conn[c] = "down" => ~sent[c][l]
  /\ conn[c] = "leaving" => mq[c] = <<>> /\ status[c][l] = "none"

Owns(c, l) == owner[l] = c /\ c \in told[l]
Releasing(c, l) == Has(mq[c], Rel(l)) \/ Has(toService[c], Rel(l))

(* What the service has of a lock, for a client that it still serves.      *)
ServiceInv(c, l) ==
  /\ ll[c][l] <= 1
  /\ conn[c] \in {"open", "leaving"} /\ Releasing(c, l) => Owns(c, l) \/ ll[c][l] = 0
  /\ conn[c] = "open" /\ ~Releasing(c, l) /\ ll[c][l] # 0 =>
       sent[c][l] /\ ~Has(toService[c], Acq(l))
  /\ conn[c] = "open" /\ (status[c][l] = "SUCCESS" \/ Has(toClient[c], l)) => Owns(c, l)

SysInv ==
  /\ SysTypeOK /\ IInv
  /\ \A c \in Clients :
       /\ QueuesInv(c)
       /\ \A l \in Locks : RequestInv(c, l) /\ ConnInv(c, l) /\ ServiceInv(c, l)
=============================================================================
