----------------------------- MODULE LockQueue -----------------------------
(***************************************************************************)
(* What the lock manager promises: every lock is a first-come-first-served *)
(* queue of clients, whose head holds the lock.  Only a client's own step  *)
(* takes it out of a queue (a restart of the service empties them all).    *)
(***************************************************************************)
EXTENDS Sequences, SequencesExt, SeqFilter

CONSTANTS Clients, Locks

VARIABLE queue   \* queue[l]: the holder of l, then the clients waiting for it

NoQueues == [l \in Locks |-> <<>>]

Init == queue = NoQueues

Holds(c, l) == queue[l] # <<>> /\ Head(queue[l]) = c

Request(c, l) ==
  /\ ~Holds(c, l)
  /\ queue' = [queue EXCEPT ![l] = Append(@, c)]

Withdraw(c, l) ==
  /\ \E i \in DOMAIN queue[l] : queue[l][i] = c
  /\ queue' = [queue EXCEPT ![l] = RemoveFirst(@, c)]

Leave(c) ==
  queue' = [l \in Locks |-> Excluding(queue[l], {c})]

Restart == queue' = NoQueues

Next ==
  \/ \E c \in Clients, l \in Locks : Request(c, l) \/ Withdraw(c, l)
  \/ \E c \in Clients : Leave(c)
  \/ Restart

Spec == Init /\ [][Next]_queue
=============================================================================
