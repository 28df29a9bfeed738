---------------------------- MODULE LockService ----------------------------
(***************************************************************************)
(* The lock manager service (gnunet-service-lockmanager.c): for every lock *)
(* its owner and its wait list, for every client the list of the locks it  *)
(* owns or waits for, and the reply the server library is about to write   *)
(* to the client.                                                          *)
(*                                                                         *)
(* Abstractions.  A lock is a (domain, number) pair.  A client's lock list *)
(* is the number of its entries for each lock.  A client that left comes   *)
(* back as a new one of the same name.  The environment is the client      *)
(* library: it sends RELEASE for a lock it owns only after it was told so  *)
(* (GNUNET_LOCKMANAGER_cancel_request).                                    *)
(***************************************************************************)
EXTENDS Naturals, Sequences, FiniteSets, SequencesExt

CONSTANTS Clients, Locks,
          Nobody, NoLock,   \* NULL for an owner, and for a pending reply
          MaxRequests,      \* bound: entries of one client for one lock
          Faults            \* what may go wrong, see below

(* "waiter_leaves": a client disconnects while it waits for some lock;     *)
(* "timeout": a reply cannot be written within TIMEOUT.                    *)
ASSUME FaultsAssumption == Faults \subseteq {"waiter_leaves", "timeout"}
ASSUME NullAssumption   == Nobody \notin Clients /\ NoLock \notin Locks

VARIABLES cl,      \* clients with an entry in the client list
          ll,      \* ll[c][l]: entries for l in the lock list of c
          owner,   \* owner[l]: lock->cl_entry, Nobody if l is not in lock_map
          wl,      \* wl[l]: wait list of l
          reply,   \* reply[c]: the SUCCESS in the transmit handle of c
          told     \* told[l]: clients that got SUCCESS and did not give l back

vars == <<cl, ll, owner, wl, reply, told>>

TypeOK ==
  /\ cl \subseteq Clients
  /\ ll \in [Clients -> [Locks -> Nat]]
  /\ owner \in [Locks -> Clients \cup {Nobody}]
  /\ wl \in [Locks -> Seq(Clients)]
  /\ reply \in [Clients -> Locks \cup {NoLock}]
  /\ told \in [Locks -> SUBSET Clients]

Init ==
  /\ cl = {}
  /\ ll = [c \in Clients |-> [l \in Locks |-> 0]]
  /\ owner = [l \in Locks |-> Nobody]
  /\ wl = [l \in Locks |-> <<>>]
  /\ reply = [c \in Clients |-> NoLock]
  /\ told = [l \in Locks |-> {}]

(* process_lock_release, done n times for l: the clients it serves, the    *)
(* last of which remains the owner, and the wait list after it.  With      *)
(* nobody left to serve the lock is removed.  (Only a client that leaves   *)
(* while it waits makes the code go on with a removed lock: a use of freed *)
(* memory, whose outcomes beyond the removal are not modelled.)            *)
Served(l, n) == {wl[l][i] : i \in {j \in DOMAIN wl[l] : j <= n}}

OwnerAfter(l, n) ==
  IF n = 0 THEN owner[l] ELSE IF n <= Len(wl[l]) THEN wl[l][n] ELSE Nobody

WaitersAfter(l, n) == SubSeq(wl[l], n + 1, Len(wl[l]))

(* send_success_msg, called for the clients of grants: a set of locks for  *)
(* each client.  GNUNET_SERVER_notify_transmit_ready takes one reply at a  *)
(* time and refuses the others, which are lost.  (Which of several grants  *)
(* of one step comes first depends on the order of the lock list.)         *)
SendSuccess(grants) ==
  {r \in [Clients -> Locks \cup {NoLock}] :
     \A c \in Clients : IF reply[c] # NoLock \/ grants[c] = {}
                        THEN r[c] = reply[c] ELSE r[c] \in grants[c]}

Grant(c, l) == [d \in Clients |-> IF d = c THEN {l} ELSE {}]

-----------------------------------------------------------------------------
(* Mutant: the lock is given away although it has an owner.                *)
AcquireFree_Steal(c, l) ==
  /\ owner[l] # c
  /\ owner' = [owner EXCEPT ![l] = c]
  /\ reply' \in SendSuccess(Grant(c, l))
  /\ UNCHANGED wl

(* handle_acquire: the lock is free, or taken by another client.           *)
AcquireFree(c, l) ==
  /\ owner[l] = Nobody
  /\ owner' = [owner EXCEPT ![l] = c]
  /\ reply' \in SendSuccess(Grant(c, l))
  /\ UNCHANGED wl

(* Mutant: the client goes to the head of the wait list.                   *)
AcquireBusy_Front(c, l) ==
  /\ owner[l] \notin {Nobody, c}
  /\ wl' = [wl EXCEPT ![l] = <<c>> \o @]
  /\ UNCHANGED <<owner, reply>>

AcquireBusy(c, l) ==
  /\ owner[l] \notin {Nobody, c}
  /\ wl' = [wl EXCEPT ![l] = Append(@, c)]
  /\ UNCHANGED <<owner, reply>>

Acquire(c, l) ==
  /\ ll[c][l] < MaxRequests
  /\ AcquireFree(c, l) \/ AcquireBusy(c, l)
  /\ cl' = cl \cup {c}
  /\ ll' = [ll EXCEPT ![c][l] = @ + 1]
  /\ UNCHANGED told

(* Mutant: a RELEASE that cancels a wait leaves the wait list alone.       *)
ReleaseWaiting_Stay(c, l) == UNCHANGED <<owner, wl, reply, told>>

(* handle_release: from the owner, from a client that still waits.         *)
ReleaseOwned(c, l) ==
  /\ c \in told[l]
  /\ owner' = [owner EXCEPT ![l] = OwnerAfter(l, 1)]
  /\ wl' = [wl EXCEPT ![l] = WaitersAfter(l, 1)]
  /\ reply' \in SendSuccess([d \in Clients |-> IF d \in Served(l, 1) THEN {l} ELSE {}])
  /\ told' = [told EXCEPT ![l] = @ \ {c}]

ReleaseWaiting(c, l) ==
  /\ wl' = [wl EXCEPT ![l] = RemoveFirst(@, c)]
  /\ UNCHANGED <<owner, reply, told>>

(* Mutant: no check that the lock is in the client's list.                 *)
Release_NoCheck(c, l) ==
  /\ c \in cl /\ owner[l] # Nobody
  /\ IF owner[l] = c THEN ReleaseOwned(c, l) ELSE ReleaseWaiting(c, l)
  /\ ll' = [ll EXCEPT ![c][l] = @ - 1]
  /\ UNCHANGED cl

Release(c, l) ==
  /\ c \in cl /\ ll[c][l] > 0
  /\ IF owner[l] = c THEN ReleaseOwned(c, l) ELSE ReleaseWaiting(c, l)
  /\ ll' = [ll EXCEPT ![c][l] = @ - 1]
  /\ UNCHANGED cl

(* client_disconnect_cb: process_lock_release for every entry of the       *)
(* client's lock list, whether it owns that lock or waits for it.          *)
ClientDisconnect(c) ==
  /\ cl' = cl \ {c}
  /\ ll' = [ll EXCEPT ![c] = [l \in Locks |-> 0]]
  /\ owner' = [l \in Locks |-> OwnerAfter(l, ll[c][l])]
  /\ wl' = [l \in Locks |-> WaitersAfter(l, ll[c][l])]
  /\ told' = [l \in Locks |-> told[l] \ {c}]
  /\ \E r \in SendSuccess([d \in Clients |-> {l \in Locks : d \in Served(l, ll[c][l])}]) :
       reply' = [r EXCEPT ![c] = NoLock]

Waits(c, l) == \E i \in DOMAIN wl[l] : wl[l][i] = c

MayLeave(c) == "waiter_leaves" \in Faults \/ \A l \in Locks : ~Waits(c, l)

(* The client closes its connection or sends a malformed message.          *)
Disconnect(c) ==
  /\ c \in cl
  /\ MayLeave(c)
  /\ ClientDisconnect(c)

(* Requests that are answered with a disconnect (GNUNET_SYSERR): ACQUIRE   *)
(* of a lock the client owns, RELEASE of a lock that is not in its list.   *)
AcquireTwice(c, l) ==
  /\ owner[l] = c
  /\ MayLeave(c)
  /\ ClientDisconnect(c)

ReleaseUnknown(c, l) ==
  /\ c \notin cl \/ ll[c][l] = 0
  /\ MayLeave(c)
  /\ ClientDisconnect(c)

(* transmit_notify: the reply is written, or dropped after TIMEOUT.        *)
Transmit(c) ==
  /\ reply[c] # NoLock
  /\ told' = [told EXCEPT ![reply[c]] = @ \cup {c}]
  /\ reply' = [reply EXCEPT ![c] = NoLock]
  /\ UNCHANGED <<cl, ll, owner, wl>>

TransmitTimeout(c) ==
  /\ "timeout" \in Faults
  /\ reply[c] # NoLock
  /\ reply' = [reply EXCEPT ![c] = NoLock]
  /\ UNCHANGED <<cl, ll, owner, wl, told>>

(* shutdown_task; the service is started again with nothing.               *)
Shutdown ==
  /\ cl' = {}
  /\ ll' = [c \in Clients |-> [l \in Locks |-> 0]]
  /\ owner' = [l \in Locks |-> Nobody]
  /\ wl' = [l \in Locks |-> <<>>]
  /\ reply' = [c \in Clients |-> NoLock]
  /\ told' = [l \in Locks |-> {}]

Next ==
  \/ \E c \in Clients, l \in Locks :
       \/ Acquire(c, l)
       \/ Release(c, l)
       \/ AcquireTwice(c, l)
       \/ ReleaseUnknown(c, l)
  \/ \E c \in Clients : Disconnect(c) \/ Transmit(c) \/ TransmitTimeout(c)
  \/ Shutdown

Spec == Init /\ [][Next]_vars

-----------------------------------------------------------------------------
(* Properties.                                                             *)

Count(c, s) == Cardinality({i \in DOMAIN s : s[i] = c})

(* The three lists tell the same story: a client's lock list has exactly   *)
(* one entry for each lock it owns and for each place it has in a wait     *)
(* list.  Otherwise a disconnect would release too few or too many locks,  *)
(* and remove_lock would free a lock that others still point to.           *)
ListsAgree ==
  \A c \in Clients, l \in Locks :
    /\ ll[c][l] = (IF owner[l] = c THEN 1 ELSE 0) + Count(c, wl[l])
    /\ ll[c][l] > 0 => c \in cl

(* A lock without an owner has no waiters (the assertion of remove_lock).  *)
NoWaitersLeft == \A l \in Locks : owner[l] = Nobody => wl[l] = <<>>

(* Both: the lists of the service can be walked in any order of requests,  *)
(* releases and disconnects without touching a lock that was freed.        *)
ListsConsistent == ListsAgree /\ NoWaitersLeft

(* A client that was told it holds a lock, or is about to be, is the owner *)
(* of that lock: no two clients ever hold one lock.                        *)
MutualExclusion ==
  \A c \in Clients, l \in Locks : c \in told[l] \/ reply[c] = l => owner[l] = c

(* The inductive invariant: in addition, a client has no reply pending for *)
(* a lock it was told about, so a RELEASE leaves no stale reply behind.    *)
ToldOnce == \A c \in Clients, l \in Locks : reply[c] = l => c \notin told[l]

IInv == TypeOK /\ ListsAgree /\ NoWaitersLeft /\ MutualExclusion /\ ToldOnce

(* The service implements the abstract queue of every lock: first come,    *)
(* first served, and nobody loses its place by what another client does.   *)
QueueOf(l) == IF owner[l] = Nobody THEN <<>> ELSE <<owner[l]>> \o wl[l]

Abstract == INSTANCE LockQueue WITH queue <- [l \in Locks |-> QueueOf(l)]

FirstComeFirstServed == Abstract!Spec

=============================================================================
