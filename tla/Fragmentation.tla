---------------------------- MODULE Fragmentation ----------------------------
(***************************************************************************)
(* The two halves of src/fragmentation as operators on their contexts.     *)
(* A bit field is the set of its one bits: "acks" of the fragmenter holds  *)
(* the fragments not acknowledged, "bits" of the defragmenter the ones not *)
(* received.  Delays are left out: a scheduled task may run at any time.   *)
(* Fragment identifiers, 32 random bits, are taken to be distinct: a       *)
(* message is its own identifier.                                          *)
(***************************************************************************)
EXTENDS Naturals, Sequences

CONSTANTS Messages,
          Fragments,     \* Fragments[m]: datagrams that m takes
          NumMsgs,       \* num_msgs: contexts of the defragmenter
          NoContext

ASSUME FragmentsAssumption == Fragments \in [Messages -> 1 .. 64]
ASSUME NumMsgsAssumption == NumMsgs \in Nat \ {0}

Bits(m) == 0 .. Fragments[m] - 1
Datagrams == UNION {{m} \X Bits(m) : m \in Messages}
Acks == UNION {{m} \X SUBSET Bits(m) : m \in Messages}

-----------------------------------------------------------------------------
(* fragmentation.c.  "task": transmit_next is scheduled.  "busy": proc has *)
(* the last fragment and has not called transmission_done.                 *)

FragmentContexts ==
  [msg : Messages, acks : SUBSET (0 .. 63), next : 0 .. 63,
   task : BOOLEAN, busy : BOOLEAN]

ASSUME NoContextAssumption == NoContext \notin FragmentContexts

FragmentContextCreate(m) ==
  [msg |-> m, acks |-> Bits(m), next |-> 0, task |-> TRUE, busy |-> FALSE]

(* The first bit of the field from the given one on, modulo 64.            *)
NextBit(acks, from) ==
  LET later == {b \in acks : b >= from}
      first(S) == CHOOSE b \in S : \A a \in S : b <= a
  IN  first(IF later # {} THEN later ELSE acks)

(* transmit_next hands the fragment of bit fc.next to proc, or the next    *)
(* one not acknowledged.  With acks empty it returns: see ContextState.    *)
CurrentBit(fc) == NextBit(fc.acks, fc.next)
TransmitNext(fc) ==
  [fc EXCEPT !.task = FALSE, !.busy = TRUE,
             !.next = NextBit(fc.acks, CurrentBit(fc) + 1)]

(* Mutant: the next transmission is not scheduled.                         *)
TransmissionDone_Forget(fc) == [fc EXCEPT !.busy = FALSE]

TransmissionDone(fc) == [fc EXCEPT !.task = TRUE, !.busy = FALSE]

(* Mutant: an ACK schedules a transmission although proc is busy.          *)
ProcessAck_Schedule(fc, ack) ==
  [fc EXCEPT !.acks = ack[2] \cap Bits(fc.msg), !.task = TRUE]

(* Mutant: an ACK only clears bits.                                        *)
ProcessAck_Accumulate(fc, ack) == [fc EXCEPT !.acks = @ \cap ack[2]]

(* process_ack assigns the field: an old ACK brings back bits that a newer *)
(* one cleared.  A scheduled transmission stays so (it moves to now), and  *)
(* none is scheduled while proc is busy.                                   *)
ProcessAck(fc, ack) == [fc EXCEPT !.acks = ack[2] \cap Bits(fc.msg)]

-----------------------------------------------------------------------------
(* defragmentation.c.  The contexts of one sender, the least recently      *)
(* updated one first; no two updates fall into the same millisecond.       *)

MessageContexts == [msg : Messages, bits : SUBSET (0 .. 63), ack : BOOLEAN]

Known(mcs, m) == \E i \in DOMAIN mcs : mcs[i].msg = m
IndexOf(mcs, m) == CHOOSE i \in DOMAIN mcs : mcs[i].msg = m
Without(mcs, i) == SubSeq(mcs, 1, i - 1) \o SubSeq(mcs, i + 1, Len(mcs))

(* Mutant: the limit is tested one too late.                               *)
DiscardOldest_Late(mcs) == IF Len(mcs) > NumMsgs THEN Tail(mcs) ELSE mcs

DiscardOldest(mcs) == IF Len(mcs) >= NumMsgs THEN Tail(mcs) ELSE mcs

(* process_fragment: the context of the message, created if need be.       *)
Lookup(mcs, m) ==
  IF Known(mcs, m) THEN mcs
  ELSE Append(DiscardOldest(mcs), [msg |-> m, bits |-> Bits(m), ack |-> FALSE])

IsDuplicate(mcs, d) ==
  Known(mcs, d[1]) /\ d[2] \notin mcs[IndexOf(mcs, d[1])].bits

(* Mutant: only a new fragment schedules an acknowledgement.               *)
ProcessFragment_NewOnly(mcs, d) ==
  LET found == Lookup(mcs, d[1])
      mc == found[IndexOf(found, d[1])]
  IN  IF IsDuplicate(mcs, d) THEN found
      ELSE Append(Without(found, IndexOf(found, d[1])),
                  [mc EXCEPT !.bits = @ \ {d[2]}, !.ack = TRUE])

(* The contexts after datagram d: a new fragment makes its context the     *)
(* most recent one.  Both cases schedule an acknowledgement.               *)
ProcessFragment(mcs, d) ==
  LET found == Lookup(mcs, d[1])
      mc == found[IndexOf(found, d[1])]
  IN  IF IsDuplicate(mcs, d)
      THEN [found EXCEPT ![IndexOf(found, d[1])].ack = TRUE]
      ELSE Append(Without(found, IndexOf(found, d[1])),
                  [mc EXCEPT !.bits = @ \ {d[2]}, !.ack = TRUE])

(* Mutant: a duplicate of a complete message completes it again.           *)
CompletesMessage_Again(mcs, d) ==
  LET found == Lookup(mcs, d[1])
  IN  found[IndexOf(found, d[1])].bits \subseteq {d[2]}

(* Datagram d completes its message, and proc gets it.                     *)
CompletesMessage(mcs, d) ==
  LET found == Lookup(mcs, d[1])
  IN  ~ IsDuplicate(mcs, d) /\ found[IndexOf(found, d[1])].bits = {d[2]}

(* send_ack.                                                               *)
AckOf(mc) == <<mc.msg, mc.bits>>
AckSent(mcs, i) == [mcs EXCEPT ![i].ack = FALSE]
=============================================================================
