-------------------------- MODULE UdpPlugin_proofs --------------------------
(***************************************************************************)
(* Proofs about UdpPlugin, for every number of messages, of fragments and  *)
(* of contexts, and every network capacity.                                *)
(***************************************************************************)
EXTENDS UdpPlugin, SeqFilter_proofs

-----------------------------------------------------------------------------
(* The operators of Fragmentation.                                         *)

(* A message has between 1 and 64 fragments.                               *)
LEMMA BitsFacts ==
  ASSUME NEW m \in Messages
  PROVE  /\ Bits(m) \subseteq 0 .. 63 /\ 0 \in Bits(m)
         /\ Fragments[m] \in 1 .. 64
BY FragmentsAssumption DEF Bits

(* transmit_next finds a fragment whenever one is not acknowledged.        *)
LEMMA NextBitFound ==
  ASSUME NEW acks, acks \subseteq Nat, acks # {}, NEW from
  PROVE  NextBit(acks, from) \in acks
<1> DEFINE later == {b \in acks : b >= from}
           S == IF later # {} THEN later ELSE acks
<1>1. S \subseteq acks /\ S \subseteq Nat /\ S # {}
  OBVIOUS
<1>2. NextBit(acks, from) = CHOOSE b \in S : \A a \in S : b <= a
  BY DEF NextBit
<1> HIDE DEF S
<1>3. \E b \in S : \A a \in S : b <= a
  BY <1>1, LeastElement
<1>4. NextBit(acks, from) \in S
  BY <1>2, <1>3
<1> QED BY <1>1, <1>4

(* The place of the context of a message that has one.                     *)
LEMMA IndexOfKnown ==
  ASSUME NEW c, NEW m, Known(c, m)
  PROVE  IndexOf(c, m) \in DOMAIN c /\ c[IndexOf(c, m)].msg = m
BY DEF Known, IndexOf

(* A list of contexts with one of them taken out.                          *)
LEMMA WithoutView ==
  ASSUME NEW S, NEW c \in Seq(S), NEW i \in DOMAIN c
  PROVE  /\ Without(c, i) \in Seq(S)
         /\ Len(Without(c, i)) = Len(c) - 1
         /\ \A k \in 1 .. Len(c) - 1 :
              Without(c, i)[k] = IF k < i THEN c[k] ELSE c[k + 1]
<1>1. i \in 1 .. Len(c) /\ Len(c) \in Nat
  OBVIOUS
<1> DEFINE p == SubSeq(c, 1, i - 1)
           q == SubSeq(c, i + 1, Len(c))
<1>2. p \in Seq(S) /\ Len(p) = i - 1 /\ \A k \in 1 .. i - 1 : p[k] = c[k]
  BY <1>1
<1>3. q \in Seq(S) /\ Len(q) = Len(c) - i /\ \A k \in 1 .. Len(c) - i : q[k] = c[k + i]
  BY <1>1
<1> HIDE DEF p, q
<1>4. p \o q \in Seq(S) /\ Len(p \o q) = Len(c) - 1
  BY <1>1, <1>2, <1>3
<1>5. ASSUME NEW k \in 1 .. Len(c) - 1
      PROVE  (p \o q)[k] = IF k < i THEN c[k] ELSE c[k + 1]
  <2>1. CASE k < i
    BY <1>1, <1>2, <1>3, <2>1
  <2>2. CASE ~ (k < i)
    <3>1. k - (i - 1) \in 1 .. Len(c) - i /\ (k - (i - 1)) + i = k + 1
      BY <1>1, <2>2
    <3>2. (p \o q)[k] = q[k - (i - 1)]
      BY <1>1, <1>2, <1>3, <2>2
    <3> QED BY <1>3, <2>2, <3>1, <3>2
  <2> QED BY <2>1, <2>2
<1>6. Without(c, i) = p \o q
  BY DEF Without, p, q
<1> QED BY <1>4, <1>5, <1>6

(* The contexts of a sender: at most num_msgs, of fragmented messages, and *)
(* one for each.                                                           *)
Distinct(c) == \A i, j \in DOMAIN c : c[i].msg = c[j].msg => i = j
Contexts(c) ==
  /\ c \in Seq(MessageContexts)
  /\ Len(c) <= NumMsgs
  /\ Distinct(c)
  /\ \A i \in DOMAIN c : Fragmented(c[i].msg) /\ c[i].bits \subseteq Bits(c[i].msg)

NewContext(m) == [msg |-> m, bits |-> Bits(m), ack |-> FALSE]

(* A new context misses all fragments.                                     *)
LEMMA NewContextFacts ==
  ASSUME NEW m \in Messages
  PROVE  /\ NewContext(m) \in MessageContexts
         /\ NewContext(m).msg = m /\ NewContext(m).bits = Bits(m)
BY BitsFacts DEF NewContext, MessageContexts

(* discard_oldest_mc makes room and adds no context.                       *)
LEMMA DiscardView ==
  ASSUME NEW c, Contexts(c)
  PROVE  /\ Contexts(DiscardOldest(c)) /\ Len(DiscardOldest(c)) < NumMsgs
         /\ \A k \in DOMAIN DiscardOldest(c) : \E j \in DOMAIN c : DiscardOldest(c)[k] = c[j]
<1>1. c \in Seq(MessageContexts) /\ Len(c) \in Nat /\ NumMsgs \in Nat \ {0}
  BY NumMsgsAssumption DEF Contexts
<1>2. CASE Len(c) >= NumMsgs
  <2>1. c # <<>>
    BY <1>1, <1>2
  <2>2. DiscardOldest(c) = Tail(c)
    BY <1>2 DEF DiscardOldest
  <2>3. /\ Tail(c) \in Seq(MessageContexts) /\ Len(Tail(c)) = Len(c) - 1
        /\ \A k \in 1 .. Len(c) - 1 : Tail(c)[k] = c[k + 1] /\ k + 1 \in 1 .. Len(c)
    BY <1>1, <2>1
  <2>4. DOMAIN Tail(c) = 1 .. Len(c) - 1 /\ DOMAIN c = 1 .. Len(c)
    BY <1>1, <2>3
  <2> DEFINE t == Tail(c)
  <2> HIDE DEF t
  <2>5. /\ t \in Seq(MessageContexts) /\ Len(t) = Len(c) - 1 /\ DOMAIN t = 1 .. Len(c) - 1
        /\ \A k \in 1 .. Len(c) - 1 : t[k] = c[k + 1] /\ k + 1 \in 1 .. Len(c)
    BY <2>3, <2>4 DEF t
  <2>6. Distinct(t)
    <3> SUFFICES ASSUME NEW i \in DOMAIN t, NEW j \in DOMAIN t, t[i].msg = t[j].msg
                 PROVE  i = j
      BY DEF Distinct
    <3>1. i + 1 = j + 1
      BY <2>4, <2>5 DEF Contexts, Distinct
    <3> QED BY <1>1, <2>5, <3>1
  <2>7. Contexts(t)
    BY <1>1, <2>4, <2>5, <2>6 DEF Contexts
  <2> QED BY <1>1, <2>2, <2>4, <2>5, <2>7 DEF t, Contexts
<1>3. CASE ~ (Len(c) >= NumMsgs)
  BY <1>1, <1>3 DEF DiscardOldest
<1> QED BY <1>2, <1>3

(* GNUNET_DEFRAGMENT_process_fragment finds a context of the message or    *)
(* makes one, in place of the oldest.                                      *)
LEMMA LookupView ==
  ASSUME NEW c, Contexts(c), NEW m \in Messages, Fragmented(m)
  PROVE  /\ Contexts(Lookup(c, m)) /\ Known(Lookup(c, m), m)
         /\ Known(c, m) => Lookup(c, m) = c
         /\ \A k \in DOMAIN Lookup(c, m) :
              \/ \E j \in DOMAIN c : Lookup(c, m)[k] = c[j]
              \/ ~ Known(c, m) /\ Lookup(c, m)[k] = NewContext(m)
<1>1. CASE Known(c, m)
  BY <1>1 DEF Lookup
<1>2. CASE ~ Known(c, m)
  <2> DEFINE t == DiscardOldest(c)
             f == Append(t, NewContext(m))
  <2>1. /\ Contexts(t) /\ Len(t) < NumMsgs
        /\ \A k \in DOMAIN t : \E j \in DOMAIN c : t[k] = c[j]
    BY DiscardView
  <2>2. Lookup(c, m) = f
    BY <1>2 DEF Lookup, NewContext
  <2> HIDE DEF t
  <2>3. t \in Seq(MessageContexts) /\ Len(t) \in Nat /\ DOMAIN t = 1 .. Len(t)
    BY <2>1 DEF Contexts
  <2>4. /\ f \in Seq(MessageContexts) /\ Len(f) = Len(t) + 1 /\ DOMAIN f = 1 .. Len(t) + 1
        /\ \A k \in 1 .. Len(t) : f[k] = t[k]
        /\ f[Len(t) + 1] = NewContext(m)
    BY <2>3, NewContextFacts
  <2> HIDE DEF f
  <2>5. \A k \in DOMAIN t : t[k].msg # m
    BY <1>2, <2>1 DEF Known
  <2>6. Distinct(f)
    <3> SUFFICES ASSUME NEW i \in DOMAIN f, NEW j \in DOMAIN f, f[i].msg = f[j].msg
                 PROVE  i = j
      BY DEF Distinct
    <3>1. \A k \in DOMAIN f : k = Len(t) + 1 \/ k \in DOMAIN t
      BY <2>3, <2>4
    <3>2. f[Len(t) + 1].msg = m
      BY <2>4, NewContextFacts
    <3>3. \A k \in DOMAIN t : f[k] = t[k] /\ f[k].msg # m
      BY <2>3, <2>4, <2>5
    <3>4. \A k, l \in DOMAIN t : f[k].msg = f[l].msg => k = l
      BY <2>1, <3>3 DEF Contexts, Distinct
    <3> QED BY <3>1, <3>2, <3>3, <3>4
  <2>7. Len(f) <= NumMsgs
    BY <2>1, <2>3, <2>4, NumMsgsAssumption
  <2>8. \A k \in DOMAIN f : Fragmented(f[k].msg) /\ f[k].bits \subseteq Bits(f[k].msg)
    <3> SUFFICES ASSUME NEW k \in DOMAIN f
                 PROVE  Fragmented(f[k].msg) /\ f[k].bits \subseteq Bits(f[k].msg)
      OBVIOUS
    <3>1. CASE k = Len(t) + 1
      BY <2>4, <3>1, NewContextFacts
    <3>2. CASE k \in DOMAIN t
      BY <2>1, <2>3, <2>4, <3>2 DEF Contexts
    <3> QED BY <2>3, <2>4, <3>1, <3>2
  <2>9. Contexts(f)
    BY <2>4, <2>6, <2>7, <2>8 DEF Contexts
  <2>10. Known(f, m)
    BY <2>3, <2>4, NewContextFacts DEF Known
  <2>11. \A k \in DOMAIN f : (\E j \in DOMAIN c : f[k] = c[j]) \/ f[k] = NewContext(m)
    BY <2>1, <2>3, <2>4
  <2> QED BY <1>2, <2>2, <2>9, <2>10, <2>11
<1> QED BY <1>1, <1>2

(* The context that datagram d finds, and the entry that process_fragment  *)
(* leaves for it.                                                          *)
Found(c, d) == Lookup(c, d[1])[IndexOf(Lookup(c, d[1]), d[1])]
Entry(c, d) == [Found(c, d) EXCEPT !.bits = @ \ {d[2]}, !.ack = TRUE]

(* The context before and after a fragment was noted in it.                *)
LEMMA FoundFacts ==
  ASSUME NEW c, Contexts(c), NEW d, d[1] \in Messages, Fragmented(d[1])
  PROVE  /\ Found(c, d) \in MessageContexts
         /\ Found(c, d).msg = d[1] /\ Found(c, d).bits \subseteq Bits(d[1])
         /\ Entry(c, d) \in MessageContexts
         /\ Entry(c, d).msg = d[1] /\ Entry(c, d).bits = Found(c, d).bits \ {d[2]}
         /\ \A j \in DOMAIN c : c[j].msg = d[1] => Found(c, d) = c[j]
<1> DEFINE f == Lookup(c, d[1])
           i == IndexOf(f, d[1])
<1>1. Contexts(f) /\ Known(f, d[1]) /\ (Known(c, d[1]) => f = c)
  BY LookupView
<1>2. i \in DOMAIN f /\ f[i].msg = d[1]
  BY <1>1, IndexOfKnown
<1>3. Found(c, d) = f[i]
  BY DEF Found
<1>4. \A j \in DOMAIN c : c[j].msg = d[1] => Known(c, d[1])
  BY DEF Known
<1> HIDE DEF f, i
<1>5. f[i] \in MessageContexts /\ f[i].bits \subseteq Bits(d[1])
  BY <1>1, <1>2 DEF Contexts
<1>6. \A j \in DOMAIN c : c[j].msg = d[1] => f[i] = c[j]
  BY <1>1, <1>2, <1>4 DEF Contexts, Distinct
<1> DEFINE mc == Found(c, d)
<1>7. mc \in MessageContexts /\ mc.msg = d[1] /\ mc.bits \subseteq Bits(d[1])
  BY <1>2, <1>3, <1>5
<1>8. Entry(c, d) = [mc EXCEPT !.bits = @ \ {d[2]}, !.ack = TRUE]
  BY DEF Entry
<1> HIDE DEF mc
<1>9. /\ Entry(c, d) \in MessageContexts
      /\ Entry(c, d).msg = d[1] /\ Entry(c, d).bits = mc.bits \ {d[2]}
  BY <1>7, <1>8 DEF MessageContexts
<1> QED BY <1>3, <1>6, <1>7, <1>9 DEF mc

(* A duplicate changes nothing but the flag of its context.                *)
LEMMA DuplicateView ==
  ASSUME NEW c, Contexts(c), NEW d, d[1] \in Messages, Fragmented(d[1]), IsDuplicate(c, d)
  PROVE  /\ Contexts(ProcessFragment(c, d))
         /\ DOMAIN ProcessFragment(c, d) = DOMAIN c
         /\ \A k \in DOMAIN c : /\ ProcessFragment(c, d)[k].msg = c[k].msg
                                /\ ProcessFragment(c, d)[k].bits = c[k].bits
<1> DEFINE i == IndexOf(c, d[1])
           r == [c EXCEPT ![i].ack = TRUE]
<1>1. Known(c, d[1]) /\ Lookup(c, d[1]) = c
  BY LookupView DEF IsDuplicate
<1>2. ProcessFragment(c, d) = r
  BY <1>1 DEF ProcessFragment
<1>3. i \in DOMAIN c
  BY <1>1, IndexOfKnown
<1>4. c \in Seq(MessageContexts) /\ Len(c) \in Nat /\ DOMAIN c = 1 .. Len(c)
  BY DEF Contexts
<1> HIDE DEF i
<1>5. ASSUME NEW k \in DOMAIN c
      PROVE  r[k] \in MessageContexts /\ r[k].msg = c[k].msg /\ r[k].bits = c[k].bits
  <2>1. c[k] \in MessageContexts
    BY <1>4
  <2>2. r[k] = c[k] \/ r[k] = [c[k] EXCEPT !.ack = TRUE]
    BY <1>3, <1>4
  <2> HIDE DEF r
  <2> DEFINE e == c[k]
  <2> HIDE DEF e
  <2>3. e \in MessageContexts /\ (r[k] = e \/ r[k] = [e EXCEPT !.ack = TRUE])
    BY <2>1, <2>2 DEF e
  <2>4. r[k] \in MessageContexts /\ r[k].msg = e.msg /\ r[k].bits = e.bits
    BY <2>3 DEF MessageContexts
  <2> QED BY <2>4 DEF e
<1>6. r \in Seq(MessageContexts) /\ Len(r) = Len(c) /\ DOMAIN r = DOMAIN c
  <2>1. DOMAIN r = 1 .. Len(c) /\ r = [k \in 1 .. Len(c) |-> r[k]]
    BY <1>4
  <2>2. \A k \in 1 .. Len(c) : r[k] \in MessageContexts
    BY <1>4, <1>5
  <2> HIDE DEF r
  <2>3. r \in [1 .. Len(c) -> MessageContexts]
    BY <2>1, <2>2
  <2> QED BY <1>4, <2>3
<1> HIDE DEF r
<1>7. Distinct(r)
  BY <1>5, <1>6 DEF Contexts, Distinct
<1>8. Contexts(r)
  BY <1>5, <1>6, <1>7 DEF Contexts
<1> QED BY <1>2, <1>5, <1>6, <1>8

(* A new fragment moves its context to the end, with one bit less.         *)
LEMMA NewFragmentView ==
  ASSUME NEW c, Contexts(c), NEW d, d[1] \in Messages, Fragmented(d[1]), ~ IsDuplicate(c, d)
  PROVE  /\ Contexts(ProcessFragment(c, d))
         /\ \A k \in DOMAIN ProcessFragment(c, d) :
              \/ ProcessFragment(c, d)[k] = Entry(c, d)
              \/ /\ ProcessFragment(c, d)[k].msg # d[1]
                 /\ \E j \in DOMAIN c : ProcessFragment(c, d)[k] = c[j]
         /\ \E k \in DOMAIN ProcessFragment(c, d) : ProcessFragment(c, d)[k] = Entry(c, d)
<1> DEFINE f == Lookup(c, d[1])
           i == IndexOf(f, d[1])
           w == Without(f, i)
           r == Append(w, Entry(c, d))
<1>1. /\ Contexts(f) /\ Known(f, d[1])
      /\ \A k \in DOMAIN f : (\E j \in DOMAIN c : f[k] = c[j]) \/ f[k] = NewContext(d[1])
  BY LookupView
<1>2. i \in DOMAIN f /\ f[i].msg = d[1]
  BY <1>1, IndexOfKnown
<1>3. ProcessFragment(c, d) = r
  BY DEF ProcessFragment, Entry, Found
<1> HIDE DEF f, i
<1>4. f \in Seq(MessageContexts) /\ Len(f) \in Nat /\ DOMAIN f = 1 .. Len(f)
  BY <1>1 DEF Contexts
<1>5. /\ w \in Seq(MessageContexts) /\ Len(w) = Len(f) - 1
      /\ \A k \in 1 .. Len(f) - 1 : w[k] = IF k < i THEN f[k] ELSE f[k + 1]
  BY <1>2, <1>4, WithoutView
<1> HIDE DEF w
<1>6. Entry(c, d) \in MessageContexts /\ Entry(c, d).msg = d[1]
        /\ Entry(c, d).bits \subseteq Bits(d[1])
  BY FoundFacts
<1>7. /\ r \in Seq(MessageContexts) /\ Len(r) = Len(f) /\ DOMAIN r = 1 .. Len(f)
      /\ \A k \in 1 .. Len(f) - 1 : r[k] = w[k]
      /\ r[Len(f)] = Entry(c, d)
  <2> DEFINE e == Entry(c, d)
  <2> HIDE DEF e
  <2>1. e \in MessageContexts
    BY <1>6 DEF e
  <2>2. r = Append(w, e)
    BY DEF e
  <2> HIDE DEF r
  <2>3. Len(w) \in Nat /\ Len(w) + 1 = Len(f) /\ Len(f) - 1 = Len(w)
    BY <1>2, <1>4, <1>5
  <2>4. /\ r \in Seq(MessageContexts) /\ Len(r) = Len(w) + 1
        /\ \A k \in 1 .. Len(w) : r[k] = w[k]
        /\ r[Len(w) + 1] = e
    BY <1>5, <2>1, <2>2
  <2>5. DOMAIN r = 1 .. Len(r)
    BY <2>4
  <2> QED BY <2>3, <2>4, <2>5 DEF e
<1> HIDE DEF r
<1> DEFINE src(k) == IF k < i THEN k ELSE k + 1
<1>8. ASSUME NEW k \in 1 .. Len(f) - 1
      PROVE  src(k) \in DOMAIN f /\ src(k) # i /\ r[k] = f[src(k)] /\ r[k].msg # d[1]
  <2>1. src(k) \in DOMAIN f /\ src(k) # i /\ r[k] = f[src(k)]
    BY <1>2, <1>4, <1>5, <1>7
  <2> HIDE DEF src
  <2> QED BY <1>1, <1>2, <2>1 DEF Contexts, Distinct
<1>9. \A k \in DOMAIN r : k = Len(f) \/ k \in 1 .. Len(f) - 1
  BY <1>4, <1>7
<1>10. \A k, l \in 1 .. Len(f) - 1 : src(k) = src(l) => k = l
  BY <1>2, <1>4
<1> HIDE DEF src
<1>11. \A k, l \in 1 .. Len(f) - 1 : r[k].msg = r[l].msg => k = l
  BY <1>1, <1>8, <1>10 DEF Contexts, Distinct
<1>12. Distinct(r)
  BY <1>6, <1>7, <1>8, <1>9, <1>11 DEF Distinct
<1>13. ASSUME NEW k \in DOMAIN r
       PROVE  Fragmented(r[k].msg) /\ r[k].bits \subseteq Bits(r[k].msg)
  <2>1. CASE k = Len(f)
    BY <1>6, <1>7, <2>1
  <2>2. CASE k \in 1 .. Len(f) - 1
    BY <1>1, <1>8, <2>2 DEF Contexts
  <2> QED BY <1>9, <2>1, <2>2
<1>14. Contexts(r)
  BY <1>1, <1>7, <1>12, <1>13 DEF Contexts
<1>15. ASSUME NEW k \in DOMAIN r
       PROVE  \/ r[k] = Entry(c, d)
              \/ r[k].msg # d[1] /\ \E j \in DOMAIN c : r[k] = c[j]
  <2>1. CASE k = Len(f)
    BY <1>7, <2>1
  <2>2. CASE k \in 1 .. Len(f) - 1
    <3>1. f[src(k)] # NewContext(d[1])
      BY <1>8, <2>2, NewContextFacts
    <3> QED BY <1>1, <1>8, <2>2, <3>1
  <2> QED BY <1>9, <2>1, <2>2
<1>16. Len(f) \in DOMAIN r
  BY <1>2, <1>4, <1>7
<1> QED BY <1>3, <1>7, <1>14, <1>15, <1>16

-----------------------------------------------------------------------------
(* The sender: its results, its fragmentation context and its queue.       *)

(* A datagram is a message and the number of one of its fragments.         *)
LEMMA DatagramFacts ==
  ASSUME NEW d \in Datagrams
  PROVE  d[1] \in Messages /\ d[2] \in Bits(d[1]) /\ d = <<d[1], d[2]>>
BY DEF Datagrams

(* A fragment of a message is a datagram.                                  *)
LEMMA DatagramIn ==
  ASSUME NEW m \in Messages, NEW b \in Bits(m)
  PROVE  <<m, b>> \in Datagrams
BY DEF Datagrams

(* A context has something to transmit, and a task or a fragment at proc.  *)
FragOK(fc) ==
  fc # NoContext =>
    /\ Fragmented(fc.msg)
    /\ fc.acks \subseteq Bits(fc.msg) /\ fc.acks # {}
    /\ fc.task # fc.busy

(* The messages of the queue are distinct, and a fragment in it is the one *)
(* that the context is busy with.                                          *)
QueueOK(fc, q) ==
  /\ \A i, j \in DOMAIN q : q[i][1] = q[j][1] => i = j
  /\ \A i \in DOMAIN q : Fragmented(q[i][1]) =>
       fc # NoContext /\ fc.msg = q[i][1] /\ fc.busy

HeldBy(fc, q, m) ==
  (\E i \in DOMAIN q : q[i][1] = m) \/ (fc # NoContext /\ fc.msg = m)

Awaited == {"pending", "late"}
Accounted(res, fc, q) == \A m \in Messages : res[m] \in Awaited <=> HeldBy(fc, q, m)

SenderTypes(res, fc, q) ==
  /\ res \in [Messages -> Results]
  /\ fc \in FragmentContexts \cup {NoContext}
  /\ q \in Seq(Datagrams)

SenderOK(res, fc, q) ==
  SenderTypes(res, fc, q) /\ FragOK(fc) /\ QueueOK(fc, q) /\ Accounted(res, fc, q)

(* The operators that change a context, by the fields of their results.    *)
LEMMA CreateView ==
  ASSUME NEW m \in Messages, Fragmented(m)
  PROVE  /\ FragmentContextCreate(m) \in FragmentContexts
         /\ FragmentContextCreate(m) # NoContext
         /\ FragmentContextCreate(m).msg = m
         /\ FragOK(FragmentContextCreate(m))
<1> DEFINE fc == FragmentContextCreate(m)
<1>1. /\ fc \in FragmentContexts
      /\ fc.msg = m /\ fc.acks = Bits(m) /\ fc.task = TRUE /\ fc.busy = FALSE
  BY BitsFacts DEF FragmentContextCreate, FragmentContexts
<1> HIDE DEF fc
<1>2. Bits(m) # {}
  BY BitsFacts
<1> QED BY <1>1, <1>2, NoContextAssumption DEF FragOK, fc

(* transmit_next picks a fragment that was not acknowledged and waits for  *)
(* it to be written.                                                       *)
LEMMA TransmitView ==
  ASSUME NEW fc \in FragmentContexts, FragOK(fc)
  PROVE  /\ CurrentBit(fc) \in Bits(fc.msg)
         /\ TransmitNext(fc) \in FragmentContexts
         /\ TransmitNext(fc).msg = fc.msg /\ TransmitNext(fc).acks = fc.acks
         /\ TransmitNext(fc).task = FALSE /\ TransmitNext(fc).busy = TRUE
<1>1. fc.msg \in Messages /\ fc.acks \subseteq Bits(fc.msg) /\ fc.acks # {}
  BY NoContextAssumption DEF FragOK, FragmentContexts
<1>2. fc.acks \subseteq 0 .. 63 /\ fc.acks \subseteq Nat
  BY <1>1, BitsFacts
<1>3. CurrentBit(fc) \in fc.acks
  BY <1>1, <1>2, NextBitFound DEF CurrentBit
<1> DEFINE n == NextBit(fc.acks, CurrentBit(fc) + 1)
<1>4. n \in fc.acks
  BY <1>1, <1>2, NextBitFound
<1>5. TransmitNext(fc) = [fc EXCEPT !.task = FALSE, !.busy = TRUE, !.next = n]
  BY DEF TransmitNext
<1> HIDE DEF n
<1>6. n \in 0 .. 63
  BY <1>2, <1>4
<1> QED BY <1>1, <1>3, <1>5, <1>6 DEF FragmentContexts

(* GNUNET_FRAGMENT_context_transmission_done schedules the next.           *)
LEMMA TransmissionDoneView ==
  ASSUME NEW fc \in FragmentContexts
  PROVE  /\ TransmissionDone(fc) \in FragmentContexts
         /\ TransmissionDone(fc).msg = fc.msg /\ TransmissionDone(fc).acks = fc.acks
         /\ TransmissionDone(fc).task = TRUE /\ TransmissionDone(fc).busy = FALSE
BY DEF TransmissionDone, FragmentContexts

(* GNUNET_FRAGMENT_process_ack keeps the fragments that the receiver       *)
(* misses.                                                                 *)
LEMMA ProcessAckView ==
  ASSUME NEW fc \in FragmentContexts, NEW a
  PROVE  /\ ProcessAck(fc, a) \in FragmentContexts
         /\ ProcessAck(fc, a).msg = fc.msg
         /\ ProcessAck(fc, a).acks = a[2] \cap Bits(fc.msg)
         /\ ProcessAck(fc, a).task = fc.task /\ ProcessAck(fc, a).busy = fc.busy
<1> DEFINE b == a[2] \cap Bits(fc.msg)
<1>1. fc.msg \in Messages
  BY DEF FragmentContexts
<1>2. b \in SUBSET (0 .. 63)
  BY <1>1, BitsFacts
<1>3. ProcessAck(fc, a) = [fc EXCEPT !.acks = b]
  BY DEF ProcessAck
<1> HIDE DEF b
<1>4. /\ ProcessAck(fc, a) \in FragmentContexts
      /\ ProcessAck(fc, a).msg = fc.msg
      /\ ProcessAck(fc, a).acks = b
      /\ ProcessAck(fc, a).task = fc.task /\ ProcessAck(fc, a).busy = fc.busy
  BY <1>2, <1>3 DEF FragmentContexts
<1> QED BY <1>4 DEF b


(* enqueue puts a message at the head of the queue.                        *)
LEMMA EnqueueView ==
  ASSUME NEW S, NEW q \in Seq(S), NEW d \in S
  PROVE  InFront(Enqueue(d, q), d, q, S)
BY FrontView DEF Enqueue

(* udp_plugin_send accepts an unfragmented message.                        *)
LEMMA SendSmallOK ==
  ASSUME NEW res, NEW fc, NEW q, SenderOK(res, fc, q),
         NEW m \in Messages, res[m] = "none", ~ Fragmented(m)
  PROVE  SenderOK([res EXCEPT ![m] = "pending"], fc, Enqueue(<<m, 0>>, q))
<1> DEFINE d == <<m, 0>>
           e == Enqueue(d, q)
           r == [res EXCEPT ![m] = "pending"]
<1>1. SenderTypes(res, fc, q) /\ FragOK(fc) /\ QueueOK(fc, q) /\ Accounted(res, fc, q)
  BY DEF SenderOK
<1>2. q \in Seq(Datagrams) /\ res \in [Messages -> Results]
  BY <1>1 DEF SenderTypes
<1>3. d \in Datagrams /\ d[1] = m
  BY BitsFacts, DatagramIn
<1> HIDE DEF d
<1>4. /\ e \in Seq(Datagrams) /\ DOMAIN e = 1 .. Len(q) + 1 /\ e[1] = d
      /\ \A i \in DOMAIN q : i + 1 \in DOMAIN e /\ e[i + 1] = q[i]
      /\ \A k \in DOMAIN e : k = 1 \/ (k - 1 \in DOMAIN q /\ e[k] = q[k - 1])
      /\ Len(q) \in Nat /\ 1 \in DOMAIN e
  <2>1. InFront(e, d, q, Datagrams)
    BY <1>2, <1>3, EnqueueView
  <2> QED BY <2>1 DEF InFront
<1>5. e[1][1] = m
  BY <1>3, <1>4
<1> HIDE DEF e
<1>6. /\ r \in [Messages -> Results] /\ r[m] = "pending"
      /\ \A n \in Messages : n # m => r[n] = res[n]
  BY <1>2 DEF Results
<1> HIDE DEF r
<1>7. ~ HeldBy(fc, q, m)
  BY <1>1 DEF Accounted, Awaited
<1>8. \A i \in DOMAIN q : q[i][1] # m
  BY <1>7 DEF HeldBy
<1>9. \A i, j \in DOMAIN e : e[i][1] = e[j][1] => i = j
  <2> SUFFICES ASSUME NEW i \in DOMAIN e, NEW j \in DOMAIN e, e[i][1] = e[j][1] PROVE i = j
    OBVIOUS
  <2>1. i = 1 <=> j = 1
    BY <1>4, <1>5, <1>8
  <2>2. i # 1 /\ j # 1 => i - 1 = j - 1
    BY <1>1, <1>4 DEF QueueOK
  <2> QED BY <1>4, <2>1, <2>2
<1>10. QueueOK(fc, e)
  BY <1>1, <1>4, <1>5, <1>9 DEF QueueOK
<1>11. ASSUME NEW n \in Messages PROVE HeldBy(fc, e, n) <=> n = m \/ HeldBy(fc, q, n)
  <2>1. ASSUME NEW k \in DOMAIN e, e[k][1] = n
        PROVE  n = m \/ \E i \in DOMAIN q : q[i][1] = n
    BY <1>4, <1>5, <2>1
  <2>2. ASSUME NEW i \in DOMAIN q, q[i][1] = n PROVE \E k \in DOMAIN e : e[k][1] = n
    BY <1>4, <1>5, <2>2
  <2>3. n = m => \E k \in DOMAIN e : e[k][1] = n
    BY <1>4, <1>5
  <2> QED BY <2>1, <2>2, <2>3 DEF HeldBy
<1>12. Accounted(r, fc, e)
  BY <1>1, <1>6, <1>11 DEF Accounted, Awaited
<1>13. SenderOK(r, fc, e)
  BY <1>1, <1>4, <1>6, <1>10, <1>12 DEF SenderOK, SenderTypes
<1> QED BY <1>13 DEF r, e, d

(* udp_plugin_send accepts a fragmented message.                           *)
LEMMA SendLargeOK ==
  ASSUME NEW res, NEW q, SenderOK(res, NoContext, q),
         NEW m \in Messages, res[m] = "none", Fragmented(m)
  PROVE  SenderOK([res EXCEPT ![m] = "pending"], FragmentContextCreate(m), q)
<1> DEFINE r == [res EXCEPT ![m] = "pending"]
           fc == FragmentContextCreate(m)
<1>1. SenderTypes(res, NoContext, q) /\ QueueOK(NoContext, q) /\ Accounted(res, NoContext, q)
  BY DEF SenderOK
<1>2. /\ r \in [Messages -> Results] /\ r[m] = "pending"
      /\ \A n \in Messages : n # m => r[n] = res[n]
  BY <1>1 DEF Results, SenderTypes
<1> HIDE DEF r
<1>3. fc \in FragmentContexts /\ fc # NoContext /\ fc.msg = m /\ FragOK(fc)
  BY CreateView
<1> HIDE DEF fc
<1>4. QueueOK(fc, q)
  BY <1>1 DEF QueueOK
<1>5. \A n \in Messages : HeldBy(fc, q, n) <=> n = m \/ HeldBy(NoContext, q, n)
  BY <1>3 DEF HeldBy
<1>6. Accounted(r, fc, q)
  BY <1>1, <1>2, <1>5 DEF Accounted, Awaited
<1>7. SenderOK(r, fc, q)
  BY <1>1, <1>2, <1>3, <1>4, <1>6 DEF SenderOK, SenderTypes
<1> QED BY <1>7 DEF r, fc

(* A result that moves within or outside the awaited ones.                 *)
LEMMA ResultOK ==
  ASSUME NEW res, NEW fc, NEW q, SenderOK(res, fc, q), NEW m \in Messages,
         NEW v \in Results, v \in Awaited <=> res[m] \in Awaited
  PROVE  SenderOK([res EXCEPT ![m] = v], fc, q)
<1> DEFINE r == [res EXCEPT ![m] = v]
<1>1. SenderTypes(res, fc, q) /\ FragOK(fc) /\ QueueOK(fc, q) /\ Accounted(res, fc, q)
  BY DEF SenderOK
<1>2. /\ r \in [Messages -> Results] /\ r[m] = v
      /\ \A n \in Messages : n # m => r[n] = res[n]
  BY <1>1 DEF SenderTypes
<1> HIDE DEF r
<1>3. Accounted(r, fc, q)
  BY <1>1, <1>2 DEF Accounted
<1>4. SenderOK(r, fc, q)
  BY <1>1, <1>2, <1>3 DEF SenderOK, SenderTypes
<1> QED BY <1>4 DEF r

(* transmit_next hands a fragment to enqueue_fragment.                     *)
LEMMA TransmitOK ==
  ASSUME NEW res, NEW fc, NEW q, SenderOK(res, fc, q), fc # NoContext, fc.task
  PROVE  SenderOK(res, TransmitNext(fc), Enqueue(<<fc.msg, CurrentBit(fc)>>, q))
<1> DEFINE d == <<fc.msg, CurrentBit(fc)>>
           e == Enqueue(d, q)
           t == TransmitNext(fc)
<1>1. SenderTypes(res, fc, q) /\ FragOK(fc) /\ QueueOK(fc, q) /\ Accounted(res, fc, q)
  BY DEF SenderOK
<1>2. q \in Seq(Datagrams) /\ fc \in FragmentContexts
  BY <1>1 DEF SenderTypes
<1>3. /\ fc.msg \in Messages /\ fc.task \in BOOLEAN /\ fc.busy \in BOOLEAN
      /\ Fragmented(fc.msg) /\ fc.acks \subseteq Bits(fc.msg) /\ fc.acks # {}
      /\ fc.task # fc.busy
  BY <1>1, <1>2 DEF FragOK, FragmentContexts
<1>4. ~ fc.busy
  BY <1>3
<1>5. /\ CurrentBit(fc) \in Bits(fc.msg) /\ t \in FragmentContexts
      /\ t.msg = fc.msg /\ t.acks = fc.acks /\ t.task = FALSE /\ t.busy = TRUE
  BY <1>1, <1>2, TransmitView
<1>6. d \in Datagrams /\ d[1] = fc.msg
  BY <1>3, <1>5, DatagramIn
<1> HIDE DEF d, t
<1>7. /\ e \in Seq(Datagrams) /\ DOMAIN e = 1 .. Len(q) + 1 /\ e[1] = d
      /\ \A i \in DOMAIN q : i + 1 \in DOMAIN e /\ e[i + 1] = q[i]
      /\ \A k \in DOMAIN e : k = 1 \/ (k - 1 \in DOMAIN q /\ e[k] = q[k - 1])
      /\ Len(q) \in Nat /\ 1 \in DOMAIN e
  <2>1. InFront(e, d, q, Datagrams)
    BY <1>2, <1>6, EnqueueView
  <2> QED BY <2>1 DEF InFront
<1> HIDE DEF e
<1>8. \A i \in DOMAIN q : ~ Fragmented(q[i][1])
  BY <1>1, <1>4 DEF QueueOK
<1>9. t # NoContext
  BY <1>5, NoContextAssumption
<1>10. FragOK(t)
  BY <1>3, <1>5 DEF FragOK
<1>11. \A i, j \in DOMAIN e : e[i][1] = e[j][1] => i = j
  <2> SUFFICES ASSUME NEW i \in DOMAIN e, NEW j \in DOMAIN e, e[i][1] = e[j][1] PROVE i = j
    OBVIOUS
  <2>1. i = 1 <=> j = 1
    BY <1>3, <1>6, <1>7, <1>8
  <2>2. i # 1 /\ j # 1 => i - 1 = j - 1
    BY <1>1, <1>7 DEF QueueOK
  <2> QED BY <1>7, <2>1, <2>2
<1>12. QueueOK(t, e)
  BY <1>5, <1>6, <1>7, <1>8, <1>9, <1>11 DEF QueueOK
<1>13. ASSUME NEW n \in Messages PROVE HeldBy(t, e, n) <=> HeldBy(fc, q, n)
  <2>1. ASSUME NEW k \in DOMAIN e, e[k][1] = n
        PROVE  n = fc.msg \/ \E i \in DOMAIN q : q[i][1] = n
    BY <1>6, <1>7, <2>1
  <2>2. ASSUME NEW i \in DOMAIN q, q[i][1] = n PROVE \E k \in DOMAIN e : e[k][1] = n
    BY <1>6, <1>7, <2>2
  <2>3. n = fc.msg => \E k \in DOMAIN e : e[k][1] = n
    BY <1>6, <1>7
  <2> QED BY <1>5, <1>9, <2>1, <2>2, <2>3 DEF HeldBy
<1>14. Accounted(res, t, e)
  BY <1>1, <1>13 DEF Accounted
<1>15. SenderOK(res, t, e)
  BY <1>1, <1>5, <1>7, <1>10, <1>12, <1>14 DEF SenderOK, SenderTypes
<1> QED BY <1>15 DEF t, e, d

(* process_ack leaves something to transmit.                               *)
LEMMA AckOK ==
  ASSUME NEW res, NEW fc, NEW q, SenderOK(res, fc, q), fc # NoContext,
         NEW a, ProcessAck(fc, a).acks # {}
  PROVE  SenderOK(res, ProcessAck(fc, a), q)
<1> DEFINE t == ProcessAck(fc, a)
<1>1. SenderTypes(res, fc, q) /\ FragOK(fc) /\ QueueOK(fc, q) /\ Accounted(res, fc, q)
  BY DEF SenderOK
<1>2. fc \in FragmentContexts
  BY <1>1 DEF SenderTypes
<1>3. /\ t \in FragmentContexts /\ t.msg = fc.msg /\ t.acks \subseteq Bits(fc.msg)
      /\ t.task = fc.task /\ t.busy = fc.busy /\ t.acks # {}
  BY <1>2, ProcessAckView
<1> HIDE DEF t
<1>4. t # NoContext
  BY <1>3, NoContextAssumption
<1>5. FragOK(t)
  BY <1>1, <1>3 DEF FragOK
<1>6. QueueOK(t, q)
  BY <1>1, <1>3, <1>4 DEF QueueOK
<1>7. Accounted(res, t, q)
  BY <1>1, <1>3, <1>4 DEF Accounted, HeldBy
<1>8. SenderOK(res, t, q)
  BY <1>1, <1>3, <1>5, <1>6, <1>7 DEF SenderOK, SenderTypes
<1> QED BY <1>8 DEF t

(* The continuations of some messages are called: they leave the queue     *)
(* and the context, and nothing else does.                                 *)
Settles(res, fc, q, gone, r, t, p) ==
  /\ r \in [Messages -> Results]
  /\ \A m \in Messages : IF m \in gone THEN r[m] \notin Awaited ELSE r[m] = res[m]
  /\ p \in Seq(Datagrams)
  /\ \A i, j \in DOMAIN p : p[i][1] = p[j][1] => i = j
  /\ \A k \in DOMAIN p : p[k][1] \notin gone /\ \E i \in DOMAIN q : p[k] = q[i]
  /\ \A i \in DOMAIN q : q[i][1] \notin gone => \E k \in DOMAIN p : p[k] = q[i]
  /\ \/ t = fc /\ (fc # NoContext => fc.msg \notin gone)
     \/ t = NoContext /\ (fc # NoContext => fc.msg \in gone)

(* Answering some messages and taking them out of the queue keeps the      *)
(* sender's state consistent.                                              *)
LEMMA SettleOK ==
  ASSUME NEW res, NEW fc, NEW q, SenderOK(res, fc, q),
         NEW gone, NEW r, NEW t, NEW p, Settles(res, fc, q, gone, r, t, p)
  PROVE  SenderOK(r, t, p)
<1> USE DEF Settles
<1>1. SenderTypes(res, fc, q) /\ FragOK(fc) /\ QueueOK(fc, q) /\ Accounted(res, fc, q)
  BY DEF SenderOK
<1>2. SenderTypes(r, t, p)
  BY <1>1 DEF SenderTypes
<1>3. FragOK(t)
  BY <1>1 DEF FragOK
<1>4. ASSUME NEW k \in DOMAIN p, Fragmented(p[k][1])
      PROVE  t # NoContext /\ t.msg = p[k][1] /\ t.busy
  <2>1. PICK i \in DOMAIN q : p[k] = q[i]
    OBVIOUS
  <2>2. fc # NoContext /\ fc.msg = p[k][1] /\ fc.busy
    BY <1>1, <1>4, <2>1 DEF QueueOK
  <2> QED BY <2>2
<1>5. QueueOK(t, p)
  BY <1>4 DEF QueueOK
<1>6. ASSUME NEW m \in Messages, m \notin gone
      PROVE  HeldBy(t, p, m) <=> HeldBy(fc, q, m)
  <2>1. (\E k \in DOMAIN p : p[k][1] = m) => \E i \in DOMAIN q : q[i][1] = m
    OBVIOUS
  <2>2. (\E i \in DOMAIN q : q[i][1] = m) => \E k \in DOMAIN p : p[k][1] = m
    BY <1>6
  <2>3. (t # NoContext /\ t.msg = m) <=> (fc # NoContext /\ fc.msg = m)
    BY <1>6
  <2> QED BY <2>1, <2>2, <2>3 DEF HeldBy
<1>7. ASSUME NEW m \in Messages, m \in gone
      PROVE  ~ HeldBy(t, p, m)
  BY <1>7 DEF HeldBy
<1>8. Accounted(r, t, p)
  BY <1>1, <1>6, <1>7 DEF Accounted
<1> QED BY <1>2, <1>3, <1>5, <1>8 DEF SenderOK

(* fragmented_message_done leaves no fragment of its message.              *)
LEMMA LeftoverView ==
  ASSUME NEW q \in Seq(Datagrams), \A i, j \in DOMAIN q : q[i][1] = q[j][1] => i = j,
         NEW m \in Messages
  PROVE  /\ Leftover(q, m) \in Seq(Datagrams)
         /\ \A i, j \in DOMAIN Leftover(q, m) :
              Leftover(q, m)[i][1] = Leftover(q, m)[j][1] => i = j
         /\ \A k \in DOMAIN Leftover(q, m) :
              Leftover(q, m)[k][1] # m /\ \E i \in DOMAIN q : Leftover(q, m)[k] = q[i]
         /\ \A i \in DOMAIN q : q[i][1] # m => \E k \in DOMAIN Leftover(q, m) : Leftover(q, m)[k] = q[i]
<1> DEFINE p == Leftover(q, m)
           gone == {m} \X Bits(m)
<1>1. p \in Seq(Datagrams) /\ \E h : Picks(h, p, Len(q), q, gone)
  BY ExcludingPicks DEF Leftover
<1>2. \A d \in Datagrams : d[1] = m <=> d \in gone
  <2> SUFFICES ASSUME NEW d \in Datagrams PROVE d[1] = m <=> d \in gone
    OBVIOUS
  <2>1. d[1] \in Messages /\ d[2] \in Bits(d[1]) /\ d = <<d[1], d[2]>>
    BY DatagramFacts
  <2>2. ASSUME d[1] = m PROVE d \in gone
    BY <2>1, <2>2
  <2>3. ASSUME d \in gone PROVE d[1] = m
    BY <2>3
  <2> QED BY <2>2, <2>3
<1> HIDE DEF p, gone
<1>3. PICK h : Picks(h, p, Len(q), q, gone)
  BY <1>1
<1>4. /\ h \in [1 .. Len(p) -> 1 .. Len(q)]
      /\ \A k \in 1 .. Len(p) : p[k] = q[h[k]] /\ q[h[k]] \notin gone
      /\ \A k, l \in 1 .. Len(p) : k < l => h[k] < h[l]
      /\ \A i \in 1 .. Len(q) : q[i] \notin gone => \E k \in 1 .. Len(p) : h[k] = i
  BY <1>3 DEF Picks
<1>5. DOMAIN p = 1 .. Len(p) /\ DOMAIN q = 1 .. Len(q) /\ Len(p) \in Nat /\ Len(q) \in Nat
  BY <1>1
<1>6. \A i \in DOMAIN q : q[i] \in Datagrams
  OBVIOUS
<1>7. \A k \in DOMAIN p : h[k] \in DOMAIN q /\ h[k] \in Nat
  BY <1>4, <1>5
<1>8. \A k \in DOMAIN p : p[k][1] # m /\ \E i \in DOMAIN q : p[k] = q[i]
  BY <1>2, <1>4, <1>5, <1>6, <1>7
<1>9. \A i \in DOMAIN q : q[i][1] # m => \E k \in DOMAIN p : p[k] = q[i]
  <2> SUFFICES ASSUME NEW i \in DOMAIN q, q[i][1] # m PROVE \E k \in DOMAIN p : p[k] = q[i]
    OBVIOUS
  <2>1. i \in 1 .. Len(q) /\ q[i] \notin gone
    BY <1>2, <1>5, <1>6
  <2>2. PICK k \in 1 .. Len(p) : h[k] = i
    BY <1>4, <2>1
  <2> QED BY <1>4, <1>5, <2>2
<1>10. \A i, j \in DOMAIN p : p[i][1] = p[j][1] => i = j
  <2> SUFFICES ASSUME NEW i \in DOMAIN p, NEW j \in DOMAIN p, p[i][1] = p[j][1] PROVE i = j
    OBVIOUS
  <2>1. h[i] = h[j]
    BY <1>4, <1>5, <1>7
  <2> QED BY <1>4, <1>5, <1>7, <2>1
<1> QED BY <1>1, <1>8, <1>9, <1>10 DEF p

(* fragmented_message_done: the last fragment was acknowledged.            *)
LEMMA AckDoneOK ==
  ASSUME NEW res, NEW fc, NEW q, SenderOK(res, fc, q), fc # NoContext
  PROVE  SenderOK([res EXCEPT ![fc.msg] = "OK"], NoContext, Leftover(q, fc.msg))
<1> DEFINE r == [res EXCEPT ![fc.msg] = "OK"]
           p == Leftover(q, fc.msg)
<1>1. SenderTypes(res, fc, q) /\ QueueOK(fc, q)
  BY DEF SenderOK
<1>2. fc.msg \in Messages /\ q \in Seq(Datagrams) /\ res \in [Messages -> Results]
  BY <1>1 DEF SenderTypes, FragmentContexts
<1>3. \A i, j \in DOMAIN q : q[i][1] = q[j][1] => i = j
  BY <1>1 DEF QueueOK
<1>4. /\ p \in Seq(Datagrams)
      /\ \A i, j \in DOMAIN p : p[i][1] = p[j][1] => i = j
      /\ \A k \in DOMAIN p : p[k][1] # fc.msg /\ \E i \in DOMAIN q : p[k] = q[i]
      /\ \A i \in DOMAIN q : q[i][1] # fc.msg => \E k \in DOMAIN p : p[k] = q[i]
  BY <1>2, <1>3, LeftoverView
<1>5. /\ r \in [Messages -> Results]
      /\ \A m \in Messages : IF m \in {fc.msg} THEN r[m] \notin Awaited ELSE r[m] = res[m]
  BY <1>2 DEF Results, Awaited
<1> HIDE DEF r, p
<1>6. Settles(res, fc, q, {fc.msg}, r, NoContext, p)
  BY <1>4, <1>5 DEF Settles
<1>7. SenderOK(r, NoContext, p)
  BY <1>6, SettleOK
<1> QED BY <1>7 DEF r, p

(* disconnect_session.                                                     *)
LEMMA DisconnectOK ==
  ASSUME NEW res, NEW fc, NEW q, SenderOK(res, fc, q), NEW held,
         \A m \in Messages : m \in held <=> HeldBy(fc, q, m)
  PROVE  SenderOK([m \in Messages |-> IF m \in held THEN "SYSERR" ELSE res[m]],
                  NoContext, <<>>)
<1> DEFINE r == [m \in Messages |-> IF m \in held THEN "SYSERR" ELSE res[m]]
           p == <<>>
<1>1. SenderTypes(res, fc, q)
  BY DEF SenderOK
<1>2. /\ r \in [Messages -> Results]
      /\ \A m \in Messages : IF m \in held THEN r[m] \notin Awaited ELSE r[m] = res[m]
  BY <1>1 DEF SenderTypes, Results, Awaited
<1>3. p \in Seq(Datagrams) /\ DOMAIN p = {}
  OBVIOUS
<1>4. \A i \in DOMAIN q : q[i][1] \in Messages
  BY <1>1, DatagramFacts DEF SenderTypes
<1>5. \A i \in DOMAIN q : q[i][1] \in held
  BY <1>4 DEF HeldBy
<1>6. fc # NoContext => fc.msg \in held
  BY <1>1 DEF SenderTypes, FragmentContexts, HeldBy
<1> HIDE DEF r, p
<1>7. Settles(res, fc, q, held, r, NoContext, p)
  BY <1>2, <1>3, <1>5, <1>6 DEF Settles
<1>8. SenderOK(r, NoContext, p)
  BY <1>7, SettleOK
<1> QED BY <1>8 DEF r, p

(* The expired messages that are first in the queue.                       *)
LEMMA LeadingView ==
  ASSUME NEW q \in Seq(Datagrams)
  PROVE  /\ LeadingExpired(q) \in 0 .. Len(q)
         /\ \A i \in 1 .. LeadingExpired(q) : result[q[i][1]] = "late"
<1> DEFINE P(n) == /\ \A i \in 1 .. n : result[q[i][1]] = "late"
                   /\ n < Len(q) => result[q[n + 1][1]] # "late"
           T == {n \in 0 .. Len(q) : n < Len(q) => result[q[n + 1][1]] # "late"}
<1>1. Len(q) \in Nat /\ Len(q) \in T /\ T \subseteq Nat
  OBVIOUS
<1>2. PICK n \in T : \A k \in T : n <= k
  <2> HIDE DEF T
  <2> QED BY <1>1, LeastElement
<1>3. ASSUME NEW i \in 1 .. n PROVE result[q[i][1]] = "late"
  <2>1. n \in 0 .. Len(q) /\ i - 1 \in 0 .. Len(q) /\ i - 1 < Len(q) /\ ~ (n <= i - 1)
    BY <1>1
  <2>2. i - 1 \notin T
    BY <1>2, <2>1
  <2>3. result[q[(i - 1) + 1][1]] = "late" /\ (i - 1) + 1 = i
    BY <2>1, <2>2
  <2> QED BY <2>3
<1>4. n \in 0 .. Len(q) /\ P(n)
  BY <1>3
<1>5. LeadingExpired(q) = CHOOSE k \in 0 .. Len(q) : P(k)
  BY DEF LeadingExpired
<1> HIDE DEF P
<1>6. LeadingExpired(q) \in 0 .. Len(q) /\ P(LeadingExpired(q))
  BY <1>4, <1>5
<1> QED BY <1>6 DEF P

(* What remove_timeout_messages_and_select does to the sender.             *)
Dropped(q) == {q[i][1] : i \in 1 .. LeadingExpired(q)}
TimedOut(fc, q) == fc # NoContext /\ fc.msg \in Dropped(q)
Unexpired(q) == SubSeq(q, LeadingExpired(q) + 1, Len(q))
ResultAfter(q) == [m \in Messages |-> IF m \in Dropped(q) THEN "SYSERR" ELSE result[m]]
ContextAfter(fc, q) == IF TimedOut(fc, q) THEN NoContext ELSE fc
RestOf(fc, q) == IF TimedOut(fc, q) THEN Leftover(Unexpired(q), fc.msg) ELSE Unexpired(q)

(* Dropping them, with their continuations called, keeps the sender's      *)
(* state consistent.                                                       *)
LEMMA DropOK ==
  ASSUME NEW fc, NEW q, SenderOK(result, fc, q)
  PROVE  SenderOK(ResultAfter(q), ContextAfter(fc, q), RestOf(fc, q))
<1> DEFINE n == LeadingExpired(q)
           p == Unexpired(q)
           gone == Dropped(q)
           r == ResultAfter(q)
<1>1. SenderTypes(result, fc, q) /\ QueueOK(fc, q) /\ Accounted(result, fc, q)
  BY DEF SenderOK
<1>2. q \in Seq(Datagrams) /\ result \in [Messages -> Results]
  BY <1>1 DEF SenderTypes
<1>3. n \in 0 .. Len(q) /\ Len(q) \in Nat /\ DOMAIN q = 1 .. Len(q)
  BY <1>2, LeadingView
<1>4. /\ p \in Seq(Datagrams) /\ DOMAIN p = 1 .. Len(q) - n
      /\ \A k \in 1 .. Len(q) - n : k + n \in DOMAIN q /\ p[k] = q[k + n]
      /\ \A i \in DOMAIN q : i \in 1 .. n \/ i - n \in 1 .. Len(q) - n
  BY <1>2, <1>3, SuffixView DEF Unexpired
<1>5. \A i, j \in DOMAIN q : q[i][1] = q[j][1] => i = j
  BY <1>1 DEF QueueOK
<1>6. gone = {q[i][1] : i \in 1 .. n}
  BY DEF Dropped
<1>7. /\ r \in [Messages -> Results]
      /\ \A m \in Messages : IF m \in gone THEN r[m] \notin Awaited ELSE r[m] = result[m]
  BY <1>2 DEF Results, Awaited, ResultAfter
<1> HIDE DEF n, p, gone, r
<1>8. \A i, j \in DOMAIN p : p[i][1] = p[j][1] => i = j
  <2> SUFFICES ASSUME NEW i \in DOMAIN p, NEW j \in DOMAIN p, p[i][1] = p[j][1] PROVE i = j
    OBVIOUS
  <2>1. i + n = j + n
    BY <1>4, <1>5
  <2> QED BY <1>3, <1>4, <2>1
<1>9. \A k \in DOMAIN p : p[k][1] \notin gone /\ \E i \in DOMAIN q : p[k] = q[i]
  <2> SUFFICES ASSUME NEW k \in DOMAIN p PROVE p[k][1] \notin gone /\ \E i \in DOMAIN q : p[k] = q[i]
    OBVIOUS
  <2>1. k + n \in DOMAIN q /\ p[k] = q[k + n] /\ k \in Nat /\ k # 0
    BY <1>3, <1>4
  <2>2. \A i \in 1 .. n : i \in DOMAIN q /\ i # k + n
    BY <1>3, <2>1
  <2>3. \A i \in 1 .. n : q[i][1] # p[k][1]
    BY <1>5, <2>1, <2>2
  <2> QED BY <1>6, <2>1, <2>3
<1>10. \A i \in DOMAIN q : q[i][1] \notin gone => \E k \in DOMAIN p : p[k] = q[i]
  <2> SUFFICES ASSUME NEW i \in DOMAIN q, q[i][1] \notin gone PROVE \E k \in DOMAIN p : p[k] = q[i]
    OBVIOUS
  <2>1. i - n \in DOMAIN p /\ (i - n) + n = i
    BY <1>3, <1>4, <1>6
  <2> QED BY <1>4, <2>1
<1>11. CASE ~ TimedOut(fc, q)
  <2>1. Settles(result, fc, q, gone, r, fc, p)
    BY <1>4, <1>7, <1>8, <1>9, <1>10, <1>11 DEF Settles, TimedOut, gone
  <2>2. SenderOK(r, fc, p)
    BY <2>1, SettleOK
  <2> QED BY <1>11, <2>2 DEF ContextAfter, RestOf, r, p
<1>12. CASE TimedOut(fc, q)
  <2>1. fc # NoContext /\ fc.msg \in gone /\ fc.msg \in Messages
    BY <1>1, <1>12 DEF TimedOut, gone, SenderTypes, FragmentContexts
  <2> DEFINE x == Leftover(p, fc.msg)
  <2>2. /\ x \in Seq(Datagrams)
        /\ \A i, j \in DOMAIN x : x[i][1] = x[j][1] => i = j
        /\ \A k \in DOMAIN x : x[k][1] # fc.msg /\ \E i \in DOMAIN p : x[k] = p[i]
        /\ \A i \in DOMAIN p : p[i][1] # fc.msg => \E k \in DOMAIN x : x[k] = p[i]
    BY <1>4, <1>8, <2>1, LeftoverView
  <2> HIDE DEF x
  <2>3. \A k \in DOMAIN x : x[k][1] \notin gone /\ \E i \in DOMAIN q : x[k] = q[i]
    BY <1>9, <2>2
  <2>4. \A i \in DOMAIN q : q[i][1] \notin gone => \E k \in DOMAIN x : x[k] = q[i]
    <3> SUFFICES ASSUME NEW i \in DOMAIN q, q[i][1] \notin gone PROVE \E k \in DOMAIN x : x[k] = q[i]
      OBVIOUS
    <3>1. PICK k \in DOMAIN p : p[k] = q[i]
      BY <1>10
    <3> QED BY <2>1, <2>2, <3>1
  <2>5. Settles(result, fc, q, gone, r, NoContext, x)
    BY <1>7, <2>1, <2>2, <2>3, <2>4 DEF Settles
  <2>6. SenderOK(r, NoContext, x)
    BY <2>5, SettleOK
  <2> QED BY <1>12, <2>6 DEF ContextAfter, RestOf, r, p, x
<1> QED BY <1>11, <1>12

(* sendto takes the head of the queue, or fails.                           *)
LEMMA DequeueOK ==
  ASSUME NEW res, NEW fc, NEW q, SenderOK(res, fc, q), q # <<>>, NEW ok \in BOOLEAN
  PROVE  SenderOK(Outcome(Head(q), res, ok), Continuation(Head(q), fc, ok), Tail(q))
<1> DEFINE d == Head(q)
           p == Tail(q)
<1>1. SenderTypes(res, fc, q) /\ FragOK(fc) /\ QueueOK(fc, q) /\ Accounted(res, fc, q)
  BY DEF SenderOK
<1>2. q \in Seq(Datagrams) /\ res \in [Messages -> Results]
  BY <1>1 DEF SenderTypes
<1>3. /\ p \in Seq(Datagrams) /\ DOMAIN p = 1 .. Len(q) - 1
      /\ d = q[1] /\ 1 \in DOMAIN q /\ d \in Datagrams
      /\ \A k \in DOMAIN p : k + 1 \in DOMAIN q /\ p[k] = q[k + 1]
      /\ \A i \in DOMAIN q : i = 1 \/ (i - 1 \in DOMAIN p /\ p[i - 1] = q[i])
  BY <1>2, TailView
<1>4. Len(q) \in Nat /\ d[1] \in Messages
  BY <1>2, <1>3, DatagramFacts
<1> HIDE DEF d, p
<1>5. \A i, j \in DOMAIN q : q[i][1] = q[j][1] => i = j
  BY <1>1 DEF QueueOK
<1>6. \A k \in DOMAIN p : p[k][1] # d[1] /\ \E i \in DOMAIN q : p[k] = q[i]
  <2> SUFFICES ASSUME NEW k \in DOMAIN p PROVE p[k][1] # d[1] /\ \E i \in DOMAIN q : p[k] = q[i]
    OBVIOUS
  <2>1. k + 1 \in DOMAIN q /\ p[k] = q[k + 1] /\ k + 1 # 1
    BY <1>3, <1>4
  <2> QED BY <1>3, <1>5, <2>1
<1>7. \A i \in DOMAIN q : q[i][1] # d[1] => \E k \in DOMAIN p : p[k] = q[i]
  BY <1>3
<1>8. \A i, j \in DOMAIN p : p[i][1] = p[j][1] => i = j
  <2> SUFFICES ASSUME NEW i \in DOMAIN p, NEW j \in DOMAIN p, p[i][1] = p[j][1] PROVE i = j
    OBVIOUS
  <2>1. i + 1 = j + 1
    BY <1>3, <1>5
  <2> QED BY <1>3, <1>4, <2>1
<1>9. CASE ~ Fragmented(d[1])
  <2> DEFINE r == Outcome(d, res, ok)
  <2>1. Continuation(d, fc, ok) = fc
    BY <1>9 DEF Continuation
  <2>2. r = [res EXCEPT ![d[1]] = IF ok THEN "OK" ELSE "SYSERR"]
    BY <1>9 DEF Outcome
  <2>3. /\ r \in [Messages -> Results]
        /\ \A m \in Messages : IF m \in {d[1]} THEN r[m] \notin Awaited ELSE r[m] = res[m]
    BY <1>2, <1>4, <2>2 DEF Results, Awaited
  <2> HIDE DEF r
  <2>4. fc # NoContext => fc.msg # d[1]
    BY <1>1, <1>9 DEF FragOK
  <2>5. Settles(res, fc, q, {d[1]}, r, fc, p)
    BY <1>3, <1>6, <1>7, <1>8, <2>3, <2>4 DEF Settles
  <2>6. SenderOK(r, fc, p)
    BY <2>5, SettleOK
  <2> QED BY <2>1, <2>6 DEF r, d, p
<1>10. CASE Fragmented(d[1])
  <2> DEFINE t == Continuation(d, fc, ok)
  <2>1. Outcome(d, res, ok) = res
    BY <1>10 DEF Outcome
  <2>2. fc # NoContext /\ fc.msg = d[1] /\ fc.busy /\ fc \in FragmentContexts
    BY <1>1, <1>3, <1>10 DEF QueueOK, SenderTypes
  <2>3. /\ t \in FragmentContexts /\ t.msg = fc.msg /\ t.acks = fc.acks /\ t.task # t.busy
    <3>1. t = fc \/ t = TransmissionDone(fc)
      BY DEF Continuation
    <3>2. fc.task # fc.busy
      BY <1>1, <2>2 DEF FragOK
    <3> QED BY <2>2, <3>1, <3>2, TransmissionDoneView
  <2> HIDE DEF t
  <2>4. t # NoContext
    BY <2>3, NoContextAssumption
  <2>5. FragOK(t)
    BY <1>1, <2>2, <2>3 DEF FragOK
  <2>6. \A k \in DOMAIN p : ~ Fragmented(p[k][1])
    BY <1>1, <1>6, <2>2 DEF QueueOK
  <2>7. QueueOK(t, p)
    BY <1>8, <2>6 DEF QueueOK
  <2>8. ASSUME NEW m \in Messages PROVE HeldBy(t, p, m) <=> HeldBy(fc, q, m)
    BY <1>6, <1>7, <2>2, <2>3, <2>4 DEF HeldBy
  <2>9. Accounted(res, t, p)
    BY <1>1, <2>8 DEF Accounted
  <2>10. SenderOK(res, t, p)
    BY <1>1, <1>3, <2>3, <2>5, <2>7, <2>9 DEF SenderOK, SenderTypes
  <2> QED BY <2>1, <2>10 DEF t, d, p
<1> QED BY <1>9, <1>10

-----------------------------------------------------------------------------
(* The inductive invariant.                                                *)

SenderInv == SenderOK(result, frag_ctx, queue) /\ delayed \in BOOLEAN

(* What a context has delivered: it is complete, and delivered once.       *)
DeliveredState ==
  /\ delivered \in [Messages -> 0 .. 2] /\ everDelivered \subseteq Messages
  /\ \A m \in Messages :
       \/ delivered[m] = 0
       \/ /\ delivered[m] = 1
          /\ \E i \in DOMAIN mcs : mcs[i].msg = m /\ mcs[i].bits = {}

(* An acknowledgement without bits, and a context without bits, exist only *)
(* for messages that were delivered.                                       *)
CompleteDelivered ==
  /\ \A i \in DOMAIN mcs : mcs[i].bits = {} => mcs[i].msg \in everDelivered
  /\ \A i \in DOMAIN ackQueue : ackQueue[i][2] = {} => ackQueue[i][1] \in everDelivered
  /\ \A a \in ackWire : a[2] = {} => a[1] \in everDelivered

ReceiverTypes ==
  /\ wire \subseteq Datagrams /\ ackWire \subseteq Acks /\ ackQueue \in Seq(Acks)
  /\ session \in BOOLEAN /\ armed \in BOOLEAN /\ faults \in 0 .. MaxFaults

ReceiverInv == ReceiverTypes /\ Contexts(mcs) /\ DeliveredState /\ CompleteDelivered

IInv == SenderInv /\ ReceiverInv /\ SuccessMeansDelivered

(* An acknowledgement names a message and the fragments that are missing.  *)
LEMMA AckFacts ==
  ASSUME NEW a \in Acks
  PROVE  a[1] \in Messages /\ a[2] \subseteq Bits(a[1])
BY DEF Acks

(* No message and no context: the invariant holds initially.               *)
LEMMA InitInv == Init => IInv
<1> SUFFICES ASSUME Init PROVE IInv
  OBVIOUS
<1> USE DEF Init
<1>1. SenderTypes(result, frag_ctx, queue)
  BY DEF SenderTypes, Results
<1>2. FragOK(frag_ctx) /\ QueueOK(frag_ctx, queue)
  BY DEF FragOK, QueueOK
<1>3. Accounted(result, frag_ctx, queue)
  <2>1. \A m \in Messages : result[m] \notin Awaited
    BY DEF Awaited
  <2>2. \A m \in Messages : ~ HeldBy(frag_ctx, queue, m)
    <3>1. DOMAIN queue = {} /\ frag_ctx = NoContext
      OBVIOUS
    <3> QED BY ONLY <3>1 DEF HeldBy
  <2> QED BY <2>1, <2>2 DEF Accounted
<1>4. SenderInv
  BY <1>1, <1>2, <1>3 DEF SenderInv, SenderOK
<1>5. ReceiverTypes
  <2>1. MaxFaults \in Nat
    BY BoundsAssumption
  <2>2. faults \in 0 .. MaxFaults
    BY <2>1
  <2>3. ackQueue \in Seq(Acks)
    OBVIOUS
  <2> QED BY <2>2, <2>3 DEF ReceiverTypes
<1>6. Contexts(mcs)
  BY NumMsgsAssumption DEF Contexts, Distinct
<1>7. DeliveredState
  BY DEF DeliveredState
<1>8. CompleteDelivered
  BY DEF CompleteDelivered
<1>9. SuccessMeansDelivered
  BY DEF SuccessMeansDelivered
<1> QED BY <1>4, <1>5, <1>6, <1>7, <1>8, <1>9 DEF IInv, ReceiverInv

-----------------------------------------------------------------------------
(* Steps of the sender.                                                    *)

(* udp_plugin_send                                                         *)
LEMMA SendStep ==
  ASSUME SenderInv, NEW m \in Messages, Send(m)
  PROVE  SenderInv'
<1>1. SenderOK(result, frag_ctx, queue) /\ result[m] = "none" /\ delayed' \in BOOLEAN
  BY DEF SenderInv, Send
<1>2. CASE ~ Fragmented(m)
  <2>1. /\ queue' = Enqueue(<<m, 0>>, queue) /\ frag_ctx' = frag_ctx
        /\ result' = [result EXCEPT ![m] = "pending"]
    BY <1>2 DEF Send
  <2> QED BY <1>1, <1>2, <2>1, SendSmallOK DEF SenderInv
<1>3. CASE Fragmented(m) /\ ~ Busy
  <2>1. /\ queue' = queue /\ frag_ctx' = FragmentContextCreate(m) /\ frag_ctx = NoContext
        /\ result' = [result EXCEPT ![m] = "pending"]
    BY <1>3 DEF Send, Busy
  <2> QED BY <1>1, <1>3, <2>1, SendLargeOK DEF SenderInv
<1>4. CASE Fragmented(m) /\ Busy
  <2>1. /\ queue' = queue /\ frag_ctx' = frag_ctx
        /\ result' = [result EXCEPT ![m] = "refused"]
    BY <1>4 DEF Send
  <2>2. "refused" \in Results /\ "refused" \notin Awaited /\ result[m] \notin Awaited
    BY <1>1 DEF Results, Awaited
  <2>3. SenderOK([result EXCEPT ![m] = "refused"], frag_ctx, queue)
    BY <1>1, <2>2, ResultOK
  <2> QED BY <1>1, <2>1, <2>3 DEF SenderInv
<1> QED BY <1>2, <1>3, <1>4

(* The deadline of a message passes.                                       *)
LEMMA ExpireStep ==
  ASSUME SenderInv, NEW m \in Messages, Expire(m)
  PROVE  SenderInv'
<1>1. /\ SenderOK(result, frag_ctx, queue) /\ result[m] = "pending" /\ delayed' \in BOOLEAN
      /\ queue' = queue /\ frag_ctx' = frag_ctx /\ result' = [result EXCEPT ![m] = "late"]
  BY DEF SenderInv, Expire
<1>2. "late" \in Results /\ "late" \in Awaited /\ result[m] \in Awaited
  BY <1>1 DEF Results, Awaited
<1>3. SenderOK([result EXCEPT ![m] = "late"], frag_ctx, queue)
  BY <1>1, <1>2, ResultOK
<1> QED BY <1>1, <1>3 DEF SenderInv

(* transmit_next of the fragmentation context, into enqueue_fragment.      *)
LEMMA TransmitStep ==
  ASSUME SenderInv, TransmitFragment
  PROVE  SenderInv'
BY TransmitOK DEF SenderInv, TransmitFragment, Busy

(* udp_select_send writes one datagram; only a small message is answered   *)
(* with success for it.                                                    *)
LEMMA SelectStep ==
  ASSUME SenderInv, SelectSend
  PROVE  /\ SenderInv'
         /\ (wire \subseteq Datagrams => wire' \subseteq Datagrams)
         /\ \A m \in Messages : Fragmented(m) /\ result'[m] = "OK" => result[m] = "OK"
<1> DEFINE res == ResultAfter(queue)
           fc == ContextAfter(frag_ctx, queue)
           rest == RestOf(frag_ctx, queue)
<1>1. SenderOK(res, fc, rest)
  BY DropOK DEF SenderInv
<1>2. \/ result' = res /\ frag_ctx' = fc /\ queue' = rest /\ rest = <<>> /\ wire' = wire
      \/ /\ rest # <<>>
         /\ \E ok \in BOOLEAN :
              /\ result' = Outcome(Head(rest), res, ok)
              /\ frag_ctx' = Continuation(Head(rest), fc, ok)
              /\ queue' = Tail(rest)
              /\ wire' = IF ok THEN Put(wire, Head(rest)) ELSE wire
  BY DEF SelectSend, ResultAfter, ContextAfter, RestOf, Dropped, TimedOut, Unexpired, Busy
<1>3. \A m \in Messages : res[m] = "OK" => result[m] = "OK"
  BY DEF ResultAfter
<1>4. delayed' \in BOOLEAN
  BY DEF SelectSend, SenderInv
<1> HIDE DEF res, fc, rest
<1>5. CASE result' = res /\ frag_ctx' = fc /\ queue' = rest /\ rest = <<>> /\ wire' = wire
  BY <1>1, <1>3, <1>4, <1>5 DEF SenderInv
<1>6. ASSUME rest # <<>>, NEW ok \in BOOLEAN,
             result' = Outcome(Head(rest), res, ok),
             frag_ctx' = Continuation(Head(rest), fc, ok),
             queue' = Tail(rest),
             wire' = IF ok THEN Put(wire, Head(rest)) ELSE wire
      PROVE  /\ SenderInv'
             /\ (wire \subseteq Datagrams => wire' \subseteq Datagrams)
             /\ \A m \in Messages : Fragmented(m) /\ result'[m] = "OK" => result[m] = "OK"
  <2>1. SenderInv'
    BY <1>1, <1>4, <1>6, DequeueOK DEF SenderInv
  <2>2. rest \in Seq(Datagrams) /\ res \in [Messages -> Results]
    BY <1>1 DEF SenderOK, SenderTypes
  <2>3. Head(rest) \in Datagrams
    BY <1>6, <2>2, TailView
  <2>4. wire \subseteq Datagrams => wire' \subseteq Datagrams
    BY <1>6, <2>3 DEF Put
  <2> DEFINE d == Head(rest)
  <2>5. d[1] \in Messages /\ result' = Outcome(d, res, ok)
    BY <1>6, <2>3, DatagramFacts
  <2> HIDE DEF d
  <2>6. \A m \in Messages : Fragmented(m) => result'[m] = res[m]
    BY <2>2, <2>5 DEF Outcome
  <2> QED BY <1>3, <2>1, <2>4, <2>6
<1> QED BY <1>2, <1>5, <1>6

(* A message that the session holds is in its queue or in its              *)
(* fragmentation context.                                                  *)
LEMMA HeldFacts ==
  \A m \in Messages : m \in Held <=> HeldBy(frag_ctx, queue, m)
BY DEF Held, HeldBy, Busy

(* disconnect_session                                                      *)
LEMMA DisconnectStep ==
  ASSUME SenderInv, Disconnect
  PROVE  SenderInv'
<1>1. /\ result' = [m \in Messages |-> IF m \in Held THEN "SYSERR" ELSE result[m]]
      /\ frag_ctx' = NoContext /\ queue' = <<>> /\ delayed' = FALSE
  BY DEF Disconnect
<1>2. SenderOK([m \in Messages |-> IF m \in Held THEN "SYSERR" ELSE result[m]], NoContext, <<>>)
  BY DisconnectOK, HeldFacts DEF SenderInv
<1> QED BY <1>1, <1>2 DEF SenderInv

(* read_process_ack answers a fragmented message with success only if no   *)
(* fragment is missing.                                                    *)
LEMMA ReadAckStep ==
  ASSUME SenderInv, NEW a \in Acks, ReadAck(a)
  PROVE  /\ SenderInv'
         /\ \A m \in Messages : Fragmented(m) /\ result'[m] = "OK" =>
              result[m] = "OK" \/ (m = a[1] /\ a[2] = {})
<1>1. SenderOK(result, frag_ctx, queue) /\ delayed' \in BOOLEAN
  BY DEF SenderInv, ReadAck
<1>2. result \in [Messages -> Results] /\ frag_ctx \in FragmentContexts \cup {NoContext}
  BY <1>1 DEF SenderOK, SenderTypes
<1>3. CASE UNCHANGED <<result, frag_ctx, queue>>
  BY <1>1, <1>3 DEF SenderInv
<1>4. CASE /\ Busy /\ a[1] = frag_ctx.msg
           /\ ProcessAck(frag_ctx, a).acks # {}
           /\ frag_ctx' = ProcessAck(frag_ctx, a)
           /\ UNCHANGED <<result, queue>>
  BY <1>1, <1>4, AckOK DEF SenderInv, Busy
<1>5. CASE /\ Busy /\ a[1] = frag_ctx.msg
           /\ ProcessAck(frag_ctx, a).acks = {}
           /\ result' = [result EXCEPT ![a[1]] = "OK"]
           /\ queue' = Leftover(queue, a[1])
           /\ frag_ctx' = NoContext
  <2>1. SenderInv'
    BY <1>1, <1>5, AckDoneOK DEF SenderInv, Busy
  <2>2. ProcessAck(frag_ctx, a).acks = a[2] \cap Bits(a[1])
    BY <1>2, <1>5, ProcessAckView DEF Busy
  <2>3. a[1] \in Messages /\ a[2] = {}
    BY <1>5, <2>2, AckFacts
  <2>4. \A m \in Messages : m # a[1] => result'[m] = result[m]
    BY <1>2, <1>5, <2>3
  <2> QED BY <2>1, <2>3, <2>4
<1> QED BY <1>3, <1>4, <1>5 DEF ReadAck

-----------------------------------------------------------------------------
(* Steps of the receiver.                                                  *)

(* A fault is counted.                                                     *)
LEMMA FaultBound ==
  ASSUME faults \in 0 .. MaxFaults, Fault
  PROVE  faults' \in 0 .. MaxFaults
BY BoundsAssumption DEF Fault

(* A datagram is read, once or, with a fault, again.                       *)
LEMMA TakenFacts ==
  ASSUME ReceiverTypes
  PROVE  /\ \A d : Taken(wire, d) => wire' \subseteq wire /\ faults' \in 0 .. MaxFaults
         /\ \A a : Taken(ackWire, a) => ackWire' \subseteq ackWire /\ faults' \in 0 .. MaxFaults
BY FaultBound DEF Taken, ReceiverTypes

(* Contexts that a step takes over keep what they delivered.               *)
LEMMA ReadFragmentStep ==
  ASSUME ReceiverInv, NEW d \in wire, ReadDatagram(d), Fragmented(d[1])
  PROVE  ReceiverInv'
<1> DEFINE r == ProcessFragment(mcs, d)
           complete == IF CompletesMessage(mcs, d) THEN {d[1]} ELSE {}
<1>1. ReceiverTypes /\ Contexts(mcs) /\ DeliveredState /\ CompleteDelivered
  BY DEF ReceiverInv
<1>2. d \in Datagrams /\ d[1] \in Messages /\ d[2] \in Bits(d[1])
  BY <1>1, DatagramFacts DEF ReceiverTypes
<1>3. /\ mcs' = r /\ delivered' = DeliveredBy(r, complete)
      /\ everDelivered' = everDelivered \cup complete
      /\ session' = (session \/ complete # {}) /\ armed' = (ackQueue # <<>>)
      /\ ackQueue' = ackQueue /\ ackWire' = ackWire
      /\ Taken(wire, d)
  BY DEF ReadDatagram
<1>4. ReceiverTypes'
  <2>1. wire' \subseteq wire /\ faults' \in 0 .. MaxFaults
    BY <1>1, <1>3, TakenFacts
  <2>2. session' \in BOOLEAN /\ armed' \in BOOLEAN
    BY <1>3, Zenon
  <2> QED BY <1>1, <1>3, <2>1, <2>2 DEF ReceiverTypes
<1> HIDE DEF r, complete
<1>5. complete \subseteq {d[1]} /\ complete \subseteq Messages
  BY <1>2 DEF complete
<1>6. /\ Contexts(r)
      /\ \A k \in DOMAIN r : r[k].bits = {} /\ r[k].msg \notin complete =>
           \E j \in DOMAIN mcs : mcs[j].msg = r[k].msg /\ mcs[j].bits = {}
      /\ \A j \in DOMAIN mcs, k \in DOMAIN r :
           mcs[j].msg = r[k].msg /\ mcs[j].bits = {} => r[k].bits = {} /\ r[k].msg \notin complete
      /\ \A k \in DOMAIN r : r[k].msg \in complete => r[k].bits = {}
      /\ \A m \in complete : Known(r, m)
  <2>1. CASE IsDuplicate(mcs, d)
    <3>1. complete = {}
      BY <2>1 DEF complete, CompletesMessage
    <3>2. /\ Contexts(r) /\ DOMAIN r = DOMAIN mcs
          /\ \A k \in DOMAIN mcs : r[k].msg = mcs[k].msg /\ r[k].bits = mcs[k].bits
      BY <1>1, <1>2, <2>1, DuplicateView DEF r
    <3>3. \A j \in DOMAIN mcs, k \in DOMAIN r :
            mcs[j].msg = r[k].msg /\ mcs[j].bits = {} => r[k].bits = {}
      BY <1>1, <3>2 DEF Contexts, Distinct
    <3> QED BY <3>1, <3>2, <3>3
  <2>2. CASE ~ IsDuplicate(mcs, d)
    <3> DEFINE e == Entry(mcs, d)
               f == Found(mcs, d)
    <3>1. /\ Contexts(r)
          /\ \A k \in DOMAIN r : \/ r[k] = e
                                 \/ r[k].msg # d[1] /\ \E j \in DOMAIN mcs : r[k] = mcs[j]
          /\ \E k \in DOMAIN r : r[k] = e
      BY <1>1, <1>2, <2>2, NewFragmentView DEF r
    <3>2. /\ f.bits \subseteq Bits(d[1]) /\ e.msg = d[1] /\ e.bits = f.bits \ {d[2]}
          /\ \A j \in DOMAIN mcs : mcs[j].msg = d[1] => f = mcs[j]
      BY <1>1, <1>2, FoundFacts
    <3>3. CompletesMessage(mcs, d) <=> f.bits = {d[2]}
      BY <2>2 DEF CompletesMessage, Found
    <3>4. \A j \in DOMAIN mcs : mcs[j].msg = d[1] => d[2] \in mcs[j].bits
      <4> SUFFICES ASSUME NEW j \in DOMAIN mcs, mcs[j].msg = d[1] PROVE d[2] \in mcs[j].bits
        OBVIOUS
      <4>1. Known(mcs, d[1])
        BY DEF Known
      <4>2. IndexOf(mcs, d[1]) \in DOMAIN mcs /\ mcs[IndexOf(mcs, d[1])].msg = d[1]
        BY <4>1, IndexOfKnown
      <4>3. IndexOf(mcs, d[1]) = j
        BY <1>1, <4>2 DEF Contexts, Distinct
      <4> QED BY <2>2, <4>1, <4>3 DEF IsDuplicate
    <3>5. Known(mcs, d[1]) => d[2] \in f.bits
      BY <3>2, <3>4 DEF Known
    <3>6. ~ Known(mcs, d[1]) => d[2] \in f.bits
      <4> SUFFICES ASSUME ~ Known(mcs, d[1]) PROVE d[2] \in f.bits
        OBVIOUS
      <4> DEFINE l == Lookup(mcs, d[1])
                 i == IndexOf(l, d[1])
      <4>1. /\ Known(l, d[1])
            /\ \A k \in DOMAIN l : (\E j \in DOMAIN mcs : l[k] = mcs[j]) \/ l[k] = NewContext(d[1])
        BY <1>1, <1>2, LookupView
      <4>2. i \in DOMAIN l /\ l[i].msg = d[1]
        BY <4>1, IndexOfKnown
      <4>3. f = l[i]
        BY DEF Found
      <4> HIDE DEF l, i, f
      <4>4. l[i] = NewContext(d[1])
        BY <4>1, <4>2 DEF Known
      <4> QED BY <1>2, <4>3, <4>4, NewContextFacts
    <3> HIDE DEF e, f
    <3>7. e.bits = {} <=> complete = {d[1]}
      BY <3>2, <3>3, <3>5, <3>6 DEF complete
    <3>8. \A k \in DOMAIN r : r[k].msg = d[1] => r[k] = e
      BY <3>1
    <3>9. \A k \in DOMAIN r : r[k].msg # d[1] => \E j \in DOMAIN mcs : r[k] = mcs[j]
      BY <3>1, <3>2
    <3>10. \A j \in DOMAIN mcs, k \in DOMAIN r :
             mcs[j].msg = r[k].msg /\ mcs[j].bits = {} => r[k].bits = {} /\ r[k].msg \notin complete
      <4> SUFFICES ASSUME NEW j \in DOMAIN mcs, NEW k \in DOMAIN r,
                          mcs[j].msg = r[k].msg, mcs[j].bits = {}
                   PROVE  r[k].bits = {} /\ r[k].msg \notin complete
        OBVIOUS
      <4>1. r[k].msg # d[1]
        BY <3>4
      <4>2. PICK i \in DOMAIN mcs : r[k] = mcs[i]
        BY <3>9, <4>1
      <4>3. i = j
        BY <1>1, <4>2 DEF Contexts, Distinct
      <4> QED BY <1>5, <4>1, <4>2, <4>3
    <3>11. \A k \in DOMAIN r : r[k].msg \in complete => r[k].bits = {}
      BY <1>5, <3>7, <3>8
    <3>12. \A k \in DOMAIN r : r[k].bits = {} /\ r[k].msg \notin complete =>
             \E j \in DOMAIN mcs : mcs[j].msg = r[k].msg /\ mcs[j].bits = {}
      BY <3>7, <3>8, <3>9
    <3>13. \A m \in complete : Known(r, m)
      BY <1>5, <3>1, <3>2 DEF Known
    <3> QED BY <3>1, <3>10, <3>11, <3>12, <3>13
  <2> QED BY <2>1, <2>2
<1>7. CompleteDelivered'
  BY <1>1, <1>3, <1>5, <1>6 DEF CompleteDelivered
<1>8. DeliveredState'
  <2>1. ASSUME NEW m \in Messages
        PROVE  /\ delivered'[m] \in 0 .. 2
               /\ \/ delivered'[m] = 0
                  \/ delivered'[m] = 1 /\ \E i \in DOMAIN r : r[i].msg = m /\ r[i].bits = {}
    <3>1. delivered'[m] = IF ~ Known(r, m) THEN 0
                          ELSE IF m \in complete /\ delivered[m] < 2 THEN delivered[m] + 1
                          ELSE delivered[m]
      BY <1>3 DEF DeliveredBy
    <3>2. CASE ~ Known(r, m)
      BY <3>1, <3>2
    <3>3. CASE Known(r, m)
      <4>1. PICK k \in DOMAIN r : r[k].msg = m
        BY <3>3 DEF Known
      <4>2. CASE delivered[m] = 0
        <5>1. CASE m \in complete
          BY <1>6, <3>1, <3>3, <4>1, <4>2, <5>1
        <5>2. CASE m \notin complete
          BY <3>1, <3>3, <4>2, <5>2
        <5> QED BY <5>1, <5>2
      <4>3. CASE delivered[m] # 0
        <5>1. PICK j \in DOMAIN mcs : delivered[m] = 1 /\ mcs[j].msg = m /\ mcs[j].bits = {}
          BY <1>1, <4>3 DEF DeliveredState
        <5>2. r[k].bits = {} /\ m \notin complete
          BY <1>6, <4>1, <5>1
        <5> QED BY <3>1, <3>3, <4>1, <5>1, <5>2
      <4> QED BY <4>2, <4>3
    <3> QED BY <3>2, <3>3
  <2>2. delivered' = [m \in Messages |-> delivered'[m]]
    BY <1>3 DEF DeliveredBy
  <2>3. delivered' \in [Messages -> 0 .. 2]
    BY <2>1, <2>2
  <2> QED BY <1>1, <1>3, <1>5, <2>1, <2>3 DEF DeliveredState
<1> QED BY <1>3, <1>4, <1>6, <1>7, <1>8 DEF ReceiverInv

(* read_process_msg                                                        *)
LEMMA ReadSmallStep ==
  ASSUME ReceiverInv, NEW d \in wire, ReadDatagram(d), ~ Fragmented(d[1])
  PROVE  ReceiverInv'
<1>1. ReceiverTypes /\ Contexts(mcs) /\ DeliveredState /\ CompleteDelivered
  BY DEF ReceiverInv
<1>2. d \in Datagrams /\ d[1] \in Messages
  BY <1>1, DatagramFacts DEF ReceiverTypes
<1>3. /\ mcs' = mcs /\ delivered' = DeliveredBy(mcs, {d[1]})
      /\ everDelivered' = everDelivered \cup {d[1]}
      /\ session' = (session \/ {d[1]} # {}) /\ armed' = (ackQueue # <<>>)
      /\ ackQueue' = ackQueue /\ ackWire' = ackWire
      /\ Taken(wire, d)
  BY DEF ReadDatagram
<1>4. ReceiverTypes'
  <2>1. wire' \subseteq wire /\ faults' \in 0 .. MaxFaults
    BY <1>1, <1>3, TakenFacts
  <2>2. session' \in BOOLEAN /\ armed' \in BOOLEAN
    BY <1>3, Zenon
  <2> QED BY <1>1, <1>3, <2>1, <2>2 DEF ReceiverTypes
<1>5. CompleteDelivered'
  BY <1>1, <1>3 DEF CompleteDelivered
<1>6. ~ Known(mcs, d[1])
  BY <1>1 DEF Contexts, Known
<1>7. \A m \in Messages : delivered'[m] = IF Known(mcs, m) THEN delivered[m] ELSE 0
  BY <1>3, <1>6 DEF DeliveredBy
<1>8. delivered' = [m \in Messages |-> delivered'[m]]
  BY <1>3 DEF DeliveredBy
<1>9. DeliveredState'
  <2>1. delivered \in [Messages -> 0 .. 2]
    BY <1>1 DEF DeliveredState
  <2>2. \A m \in Messages : delivered'[m] \in 0 .. 2 /\ (delivered'[m] = 0 \/ delivered'[m] = delivered[m])
    BY <1>7, <2>1
  <2>3. delivered' \in [Messages -> 0 .. 2]
    BY <1>8, <2>2
  <2> QED BY <1>1, <1>2, <1>3, <2>2, <2>3 DEF DeliveredState
<1> QED BY <1>1, <1>3, <1>4, <1>5, <1>9 DEF ReceiverInv

(* send_ack of the defragmentation context, into ack_proc.                 *)
LEMMA SendAckStep ==
  ASSUME ReceiverInv, NEW m \in Messages, SendAck(m)
  PROVE  ReceiverInv'
<1> DEFINE i == IndexOf(mcs, m)
           r == AckSent(mcs, i)
           a == AckOf(mcs[i])
<1>1. ReceiverTypes /\ Contexts(mcs) /\ DeliveredState /\ CompleteDelivered
  BY DEF ReceiverInv
<1>2. i \in DOMAIN mcs /\ mcs[i].msg = m
  BY IndexOfKnown DEF SendAck
<1>3. /\ mcs' = r /\ ackQueue' = IF session THEN Enqueue(a, ackQueue) ELSE ackQueue
      /\ UNCHANGED <<session, armed, delivered, everDelivered, wire, ackWire, faults>>
  BY DEF SendAck, network
<1>4. mcs \in Seq(MessageContexts) /\ Len(mcs) \in Nat /\ DOMAIN mcs = 1 .. Len(mcs)
  BY <1>1 DEF Contexts
<1>5. a[1] = m /\ a[2] = mcs[i].bits
  BY <1>2 DEF AckOf
<1>6. a \in Acks
  <2>1. mcs[i].bits \subseteq Bits(m)
    BY <1>1, <1>2 DEF Contexts
  <2> QED BY <1>2, <2>1 DEF AckOf, Acks
<1>7. r = [mcs EXCEPT ![i].ack = FALSE]
  BY DEF AckSent
<1> HIDE DEF i, a, r
<1>8. ASSUME NEW k \in DOMAIN mcs
      PROVE  r[k] \in MessageContexts /\ r[k].msg = mcs[k].msg /\ r[k].bits = mcs[k].bits
  <2> DEFINE e == mcs[k]
  <2>1. e \in MessageContexts
    BY <1>4
  <2>2. r[k] = e \/ r[k] = [e EXCEPT !.ack = FALSE]
    BY <1>2, <1>4, <1>7
  <2> HIDE DEF e
  <2>3. r[k] \in MessageContexts /\ r[k].msg = e.msg /\ r[k].bits = e.bits
    BY <2>1, <2>2 DEF MessageContexts
  <2> QED BY <2>3 DEF e
<1>9. r \in Seq(MessageContexts) /\ Len(r) = Len(mcs) /\ DOMAIN r = DOMAIN mcs
  <2>1. DOMAIN r = 1 .. Len(mcs) /\ r = [k \in 1 .. Len(mcs) |-> r[k]]
    BY <1>4, <1>7
  <2>2. \A k \in 1 .. Len(mcs) : r[k] \in MessageContexts
    BY <1>4, <1>8
  <2>3. r \in [1 .. Len(mcs) -> MessageContexts]
    BY <2>1, <2>2
  <2> QED BY <1>4, <2>3
<1>10. Contexts(r)
  BY <1>1, <1>8, <1>9 DEF Contexts, Distinct
<1>11. DeliveredState'
  BY <1>1, <1>3, <1>8, <1>9 DEF DeliveredState
<1>12. ackQueue' \in Seq(Acks) /\ \A k \in DOMAIN ackQueue' :
         ackQueue'[k] = a \/ \E l \in DOMAIN ackQueue : ackQueue'[k] = ackQueue[l]
  <2>1. CASE ~ session
    BY <1>1, <1>3, <2>1 DEF ReceiverTypes
  <2>2. CASE session
    <3> DEFINE e == Enqueue(a, ackQueue)
    <3>1. InFront(e, a, ackQueue, Acks)
      BY <1>1, <1>6, EnqueueView DEF ReceiverTypes
    <3>2. ackQueue' = e
      BY <1>3, <2>2
    <3> HIDE DEF e
    <3>3. e \in Seq(Acks) /\ \A k \in DOMAIN e : e[k] = a \/ \E l \in DOMAIN ackQueue : e[k] = ackQueue[l]
      BY <3>1 DEF InFront
    <3> QED BY <3>2, <3>3
  <2> QED BY <2>1, <2>2
<1>13. CompleteDelivered'
  <2>1. a[2] = {} => a[1] \in everDelivered
    BY <1>1, <1>2, <1>5 DEF CompleteDelivered
  <2>2. \A k \in DOMAIN mcs' : mcs'[k].bits = {} => mcs'[k].msg \in everDelivered
    BY <1>1, <1>3, <1>8, <1>9 DEF CompleteDelivered
  <2>3. \A k \in DOMAIN ackQueue' : ackQueue'[k][2] = {} => ackQueue'[k][1] \in everDelivered
    BY <1>1, <1>12, <2>1 DEF CompleteDelivered
  <2> QED BY <1>1, <1>3, <2>2, <2>3 DEF CompleteDelivered
<1>14. ReceiverTypes'
  BY <1>1, <1>3, <1>12 DEF ReceiverTypes
<1> QED BY <1>3, <1>10, <1>11, <1>13, <1>14 DEF ReceiverInv

(* udp_select_send at the receiver writes an acknowledgement.              *)
LEMMA WriteAckStep ==
  ASSUME ReceiverInv, WriteAck
  PROVE  ReceiverInv'
<1>1. ReceiverTypes /\ Contexts(mcs) /\ DeliveredState /\ CompleteDelivered
  BY DEF ReceiverInv
<1>2. UNCHANGED <<mcs, session, delivered, everDelivered, wire>>
  BY DEF WriteAck
<1>3. CASE ackQueue = <<>>
  <2>1. UNCHANGED <<ackQueue, ackWire, faults>> /\ armed' = FALSE
    BY <1>3 DEF WriteAck
  <2> QED BY <1>1, <1>2, <2>1
        DEF ReceiverInv, ReceiverTypes, DeliveredState, CompleteDelivered
<1>4. CASE ackQueue # <<>>
  <2> DEFINE a == Head(ackQueue)
             q == Tail(ackQueue)
  <2>1. /\ ackQueue' = q /\ armed' = (q # <<>>)
        /\ (ackWire' = Put(ackWire, a) /\ UNCHANGED faults) \/ (Fault /\ UNCHANGED ackWire)
    BY <1>4 DEF WriteAck
  <2>2. /\ q \in Seq(Acks) /\ a \in Acks
        /\ \E l \in DOMAIN ackQueue : a = ackQueue[l]
        /\ \A k \in DOMAIN q : \E l \in DOMAIN ackQueue : q[k] = ackQueue[l]
    BY <1>1, <1>4, TailView DEF ReceiverTypes
  <2> HIDE DEF a, q
  <2>3. \A b \in ackWire' : b = a \/ b \in ackWire
    BY <2>1 DEF Put
  <2>4. faults' \in 0 .. MaxFaults
    BY <1>1, <2>1, FaultBound DEF ReceiverTypes
  <2>5. armed' \in BOOLEAN
    BY <2>1, Zenon
  <2>6. ReceiverTypes'
    BY <1>1, <1>2, <2>1, <2>2, <2>3, <2>4, <2>5 DEF ReceiverTypes
  <2>7. a[2] = {} => a[1] \in everDelivered
    BY <1>1, <2>2 DEF CompleteDelivered
  <2>8. CompleteDelivered'
    BY <1>1, <1>2, <2>1, <2>2, <2>3, <2>7 DEF CompleteDelivered
  <2>9. DeliveredState'
    BY <1>1, <1>2 DEF DeliveredState
  <2> QED BY <1>1, <1>2, <2>6, <2>8, <2>9 DEF ReceiverInv
<1> QED BY <1>3, <1>4

(* The session of the receiver ends.                                       *)
LEMMA EndSessionStep ==
  ASSUME ReceiverInv, EndSession
  PROVE  ReceiverInv'
<1>1. ReceiverTypes /\ Contexts(mcs) /\ DeliveredState /\ CompleteDelivered
  BY DEF ReceiverInv
<1>2. /\ session' = FALSE /\ ackQueue' = <<>>
      /\ UNCHANGED <<mcs, armed, delivered, everDelivered, wire, ackWire, faults>>
  BY DEF EndSession, network
<1>3. ackQueue' \in Seq(Acks) /\ DOMAIN ackQueue' = {}
  BY <1>2
<1>4. ReceiverTypes'
  BY <1>1, <1>2, <1>3 DEF ReceiverTypes
<1>5. CompleteDelivered' /\ DeliveredState'
  BY <1>1, <1>2, <1>3 DEF CompleteDelivered, DeliveredState
<1> QED BY <1>1, <1>2, <1>4, <1>5 DEF ReceiverInv

(* The defragmentation context of the receiver is evicted.                 *)
LEMMA EvictStep ==
  ASSUME ReceiverInv, EvictContext
  PROVE  ReceiverInv'
<1>1. ReceiverTypes /\ Contexts(mcs) /\ DeliveredState /\ CompleteDelivered
  BY DEF ReceiverInv
<1>2. /\ Fault /\ mcs' = <<>> /\ delivered' = DeliveredBy(<<>>, {})
      /\ UNCHANGED <<session, ackQueue, armed, everDelivered, wire, ackWire>>
  BY DEF EvictContext
<1>3. faults' \in 0 .. MaxFaults
  BY <1>1, <1>2, FaultBound DEF ReceiverTypes
<1>4. mcs' \in Seq(MessageContexts) /\ DOMAIN mcs' = {} /\ Len(mcs') = 0
  BY <1>2
<1>5. Contexts(mcs)'
  BY <1>4, NumMsgsAssumption DEF Contexts, Distinct
<1>6. delivered' = [m \in Messages |-> 0]
  <2>1. \A m : ~ Known(<<>>, m)
    BY DEF Known
  <2> QED BY <1>2, <2>1 DEF DeliveredBy
<1>7. DeliveredState'
  BY <1>1, <1>2, <1>6 DEF DeliveredState
<1>8. CompleteDelivered'
  BY <1>1, <1>2, <1>4 DEF CompleteDelivered
<1>9. ReceiverTypes'
  BY <1>1, <1>2, <1>3 DEF ReceiverTypes
<1> QED BY <1>5, <1>7, <1>8, <1>9 DEF ReceiverInv

(* A step that only takes something from the network, or adds datagrams.   *)
LEMMA NetworkStep ==
  ASSUME ReceiverInv, UNCHANGED receiver,
         wire' \subseteq Datagrams, ackWire' \subseteq ackWire, faults' \in 0 .. MaxFaults
  PROVE  ReceiverInv'
BY DEF ReceiverInv, ReceiverTypes, Contexts, Distinct, DeliveredState, CompleteDelivered, receiver

(* A step of the sender that leaves the network alone.                     *)
LEMMA ReceiverIdle ==
  ASSUME ReceiverInv, UNCHANGED <<receiver, network>>
  PROVE  ReceiverInv'
BY NetworkStep DEF ReceiverInv, ReceiverTypes, network

(* Nothing is reported, and nothing is undelivered, by a step that leaves  *)
(* the result of fragmented messages alone.                                *)
LEMMA SuccessStep ==
  ASSUME SuccessMeansDelivered, everDelivered \subseteq everDelivered',
         \A m \in Messages : Fragmented(m) /\ result'[m] = "OK" =>
           result[m] = "OK" \/ m \in everDelivered
  PROVE  SuccessMeansDelivered'
BY DEF SuccessMeansDelivered

(* Every step keeps the invariant.                                         *)
LEMMA InvNext == IInv /\ [Next]_vars => IInv'
<1> SUFFICES ASSUME IInv, [Next]_vars PROVE IInv'
  OBVIOUS
<1>1. /\ SenderInv /\ ReceiverInv /\ SuccessMeansDelivered
      /\ result \in [Messages -> Results]
      /\ ReceiverTypes
  BY DEF IInv, SenderInv, SenderOK, SenderTypes, ReceiverInv
<1>2. ASSUME NEW m \in Messages, Send(m) PROVE IInv'
  <2>1. SenderInv' /\ ReceiverInv'
    BY <1>1, <1>2, SendStep, ReceiverIdle DEF Send
  <2>2. \A n \in Messages : result'[n] = "OK" => result[n] = "OK"
    BY <1>1, <1>2 DEF Send
  <2>3. everDelivered' = everDelivered
    BY <1>2 DEF Send, receiver
  <2> QED BY <1>1, <2>1, <2>2, <2>3, SuccessStep DEF IInv
<1>3. ASSUME NEW m \in Messages, Expire(m) PROVE IInv'
  <2>1. SenderInv' /\ ReceiverInv'
    BY <1>1, <1>3, ExpireStep, ReceiverIdle DEF Expire
  <2>2. \A n \in Messages : result'[n] = "OK" => result[n] = "OK"
    BY <1>1, <1>3 DEF Expire
  <2>3. everDelivered' = everDelivered
    BY <1>3 DEF Expire, receiver
  <2> QED BY <1>1, <2>1, <2>2, <2>3, SuccessStep DEF IInv
<1>4. ASSUME NEW m \in Messages, SendAck(m) PROVE IInv'
  <2>1. SenderInv'
    BY <1>1, <1>4 DEF SendAck, sender, SenderInv
  <2>2. ReceiverInv'
    BY <1>1, <1>4, SendAckStep
  <2>3. result' = result /\ everDelivered' = everDelivered
    BY <1>4 DEF SendAck, sender
  <2> QED BY <1>1, <2>1, <2>2, <2>3, SuccessStep DEF IInv
<1>5. CASE TransmitFragment
  <2>1. SenderInv' /\ ReceiverInv'
    BY <1>1, <1>5, TransmitStep, ReceiverIdle DEF TransmitFragment
  <2>2. result' = result /\ everDelivered' = everDelivered
    BY <1>5 DEF TransmitFragment, receiver
  <2> QED BY <1>1, <2>1, <2>2, SuccessStep DEF IInv
<1>6. CASE SelectSend
  <2>1. /\ SenderInv' /\ wire' \subseteq Datagrams
        /\ \A m \in Messages : Fragmented(m) /\ result'[m] = "OK" => result[m] = "OK"
    BY <1>1, <1>6, SelectStep DEF ReceiverTypes
  <2>2. UNCHANGED receiver /\ ackWire' = ackWire /\ faults' = faults
    BY <1>6 DEF SelectSend
  <2>3. ReceiverInv'
    BY <1>1, <2>1, <2>2, NetworkStep DEF ReceiverTypes
  <2>4. everDelivered' = everDelivered
    BY <2>2 DEF receiver
  <2> QED BY <1>1, <2>1, <2>3, <2>4, SuccessStep DEF IInv
<1>7. CASE FlowDelayOver
  <2>1. SenderInv' /\ ReceiverInv'
    BY <1>1, <1>7, ReceiverIdle DEF FlowDelayOver, SenderInv
  <2>2. result' = result /\ everDelivered' = everDelivered
    BY <1>7 DEF FlowDelayOver, receiver
  <2> QED BY <1>1, <2>1, <2>2, SuccessStep DEF IInv
<1>8. CASE Disconnect
  <2>1. SenderInv' /\ ReceiverInv'
    BY <1>1, <1>8, DisconnectStep, ReceiverIdle DEF Disconnect
  <2>2. \A n \in Messages : result'[n] = "OK" => result[n] = "OK"
    BY <1>1, <1>8 DEF Disconnect
  <2>3. everDelivered' = everDelivered
    BY <1>8 DEF Disconnect, receiver
  <2> QED BY <1>1, <2>1, <2>2, <2>3, SuccessStep DEF IInv
<1>9. CASE Lose
  <2>1. SenderInv' /\ result' = result
    BY <1>1, <1>9 DEF Lose, sender, SenderInv
  <2>2. /\ wire' \subseteq wire /\ ackWire' \subseteq ackWire
        /\ Fault /\ UNCHANGED receiver
    BY <1>9 DEF Lose
  <2>3. faults' \in 0 .. MaxFaults
    BY <1>1, <2>2, FaultBound DEF ReceiverTypes
  <2>4. ReceiverInv' /\ everDelivered' = everDelivered
    BY <1>1, <2>2, <2>3, NetworkStep DEF ReceiverTypes, receiver
  <2> QED BY <1>1, <2>1, <2>4, SuccessStep DEF IInv
<1>10. ASSUME NEW a \in ackWire, ReadAck(a) PROVE IInv'
  <2>1. a \in Acks
    BY <1>1 DEF ReceiverTypes
  <2>2. /\ SenderInv'
        /\ \A m \in Messages : Fragmented(m) /\ result'[m] = "OK" =>
             result[m] = "OK" \/ (m = a[1] /\ a[2] = {})
    BY <1>1, <1>10, <2>1, ReadAckStep
  <2>3. Taken(ackWire, a) /\ UNCHANGED receiver /\ wire' = wire
    BY <1>10 DEF ReadAck
  <2>4. ackWire' \subseteq ackWire /\ faults' \in 0 .. MaxFaults
    BY <1>1, <2>3, TakenFacts
  <2>5. ReceiverInv' /\ everDelivered' = everDelivered
    BY <1>1, <2>3, <2>4, NetworkStep DEF ReceiverTypes, receiver
  <2>6. a[2] = {} => a[1] \in everDelivered
    BY <1>1 DEF ReceiverInv, CompleteDelivered
  <2> QED BY <1>1, <2>2, <2>5, <2>6, SuccessStep DEF IInv
<1>11. ASSUME NEW d \in wire, ReadDatagram(d) PROVE IInv'
  <2>1. SenderInv' /\ result' = result
    BY <1>1, <1>11 DEF ReadDatagram, sender, SenderInv
  <2>2. ReceiverInv'
    BY <1>1, <1>11, ReadFragmentStep, ReadSmallStep
  <2>3. everDelivered \subseteq everDelivered'
    BY <1>11 DEF ReadDatagram
  <2> QED BY <1>1, <2>1, <2>2, <2>3, SuccessStep DEF IInv
<1>12. CASE WriteAck
  <2>1. SenderInv' /\ result' = result /\ everDelivered' = everDelivered
    BY <1>1, <1>12 DEF WriteAck, sender, SenderInv
  <2> QED BY <1>1, <1>12, <2>1, WriteAckStep, SuccessStep DEF IInv
<1>13. CASE EndSession
  <2>1. SenderInv' /\ result' = result /\ everDelivered' = everDelivered
    BY <1>1, <1>13 DEF EndSession, sender, SenderInv
  <2> QED BY <1>1, <1>13, <2>1, EndSessionStep, SuccessStep DEF IInv
<1>14. CASE EvictContext
  <2>1. SenderInv' /\ result' = result /\ everDelivered' = everDelivered
    BY <1>1, <1>14 DEF EvictContext, sender, SenderInv
  <2> QED BY <1>1, <1>14, <2>1, EvictStep, SuccessStep DEF IInv
<1>15. CASE UNCHANGED vars
  <2>1. SenderInv' /\ ReceiverInv' /\ result' = result /\ everDelivered' = everDelivered
    BY <1>1, <1>15, ReceiverIdle DEF vars, sender, receiver, SenderInv
  <2> QED BY <1>1, <2>1, SuccessStep DEF IInv
<1> QED BY <1>2, <1>3, <1>4, <1>5, <1>6, <1>7, <1>8, <1>9, <1>10, <1>11, <1>12, <1>13,
           <1>14, <1>15 DEF Next

(* The invariant holds throughout.                                         *)
LEMMA InvAlways == Spec => []IInv
BY InitInv, InvNext, PTL DEF Spec

-----------------------------------------------------------------------------
(* Every variable keeps its type: the queue holds datagrams of known       *)
(* messages, and process_fragment keeps at most num_msgs contexts.         *)
THEOREM TypeCorrect == Spec => []TypeOK
<1>1. IInv => TypeOK
  BY DEF IInv, SenderInv, SenderOK, SenderTypes, ReceiverInv, ReceiverTypes, Contexts,
         DeliveredState, TypeOK
<1> QED BY <1>1, InvAlways, PTL

(* The assertions of transmit_next, transmission_done and process_ack: a   *)
(* fragmentation context has a scheduled transmission or a fragment at     *)
(* proc, never both, never neither, and always something to transmit.      *)
THEOREM ContextStateHolds == Spec => []ContextState
<1>1. IInv => ContextState
  BY DEF IInv, SenderInv, SenderOK, FragOK, ContextState, Busy
<1> QED BY <1>1, InvAlways, PTL

(* No fragment outlives its context in the transmission queue, and every   *)
(* message whose continuation is owed is held by the queue or the session. *)
THEOREM QueueOwnedHolds == Spec => []QueueOwned
<1>1. ASSUME IInv PROVE QueueOwned
  <2>1. QueueOK(frag_ctx, queue) /\ Accounted(result, frag_ctx, queue)
    BY <1>1 DEF IInv, SenderInv, SenderOK
  <2>2. \A m \in Messages : Pending(m) <=> m \in Held
    BY <2>1, HeldFacts DEF Accounted, Pending, Awaited
  <2>3. ASSUME NEW i \in DOMAIN queue, Fragmented(queue[i][1])
        PROVE  /\ Busy /\ frag_ctx.msg = queue[i][1] /\ frag_ctx.busy
               /\ \A j \in DOMAIN queue : Fragmented(queue[j][1]) => j = i
    BY <2>1, <2>3 DEF QueueOK, Busy
  <2> QED BY <2>2, <2>3 DEF QueueOwned
<1> QED BY <1>1, InvAlways, PTL

(* Success is reported for a fragmented message only after the receiver    *)
(* delivered it.                                                           *)
THEOREM SuccessMeansDeliveredHolds == Spec => []SuccessMeansDelivered
<1>1. IInv => SuccessMeansDelivered
  BY DEF IInv
<1> QED BY <1>1, InvAlways, PTL

(* A context delivers its message at most once.                            *)
THEOREM DeliveredOnceHolds == Spec => []DeliveredOnce
<1>1. ASSUME IInv PROVE DeliveredOnce
  <2>1. \A m \in Messages : delivered[m] = 0 \/ delivered[m] = 1
    BY <1>1 DEF IInv, ReceiverInv, DeliveredState
  <2>2. ASSUME NEW m \in Messages PROVE delivered[m] <= 1
    <3>1. delivered[m] \in Nat
      BY <2>1
    <3> QED BY <2>1, <3>1
  <2> QED BY <2>2 DEF DeliveredOnce
<1> QED BY <1>1, InvAlways, PTL

-----------------------------------------------------------------------------
(* The continuation of a message is called once.                           *)

(* A result changes only when a message is sent, or is awaited.            *)
LEMMA ResultChanges ==
  ASSUME SenderInv, Next, NEW n \in Messages, result'[n] # result[n]
  PROVE  result[n] = "none" \/ result[n] \in Awaited
<1>1. /\ SenderOK(result, frag_ctx, queue) /\ Accounted(result, frag_ctx, queue)
      /\ result \in [Messages -> Results] /\ queue \in Seq(Datagrams)
  BY DEF SenderInv, SenderOK, SenderTypes
<1>2. ASSUME NEW m \in Messages, Send(m) PROVE result[n] = "none"
  BY <1>1, <1>2 DEF Send
<1>3. ASSUME NEW m \in Messages, Expire(m) PROVE result[n] \in Awaited
  BY <1>1, <1>3 DEF Expire, Awaited
<1>4. CASE SelectSend
  <2> DEFINE res == ResultAfter(queue)
             fc == ContextAfter(frag_ctx, queue)
             rest == RestOf(frag_ctx, queue)
  <2>1. SenderOK(res, fc, rest)
    BY <1>1, DropOK
  <2>2. \/ result' = res
        \/ rest # <<>> /\ \E ok \in BOOLEAN : result' = Outcome(Head(rest), res, ok)
    BY <1>4 DEF SelectSend, ResultAfter, ContextAfter, RestOf, Dropped, TimedOut, Unexpired, Busy
  <2>3. \A m \in Messages : res[m] = result[m] \/ (res[m] = "SYSERR" /\ m \in Dropped(queue))
    BY DEF ResultAfter
  <2>4. \A m \in Dropped(queue) : result[m] \in Awaited
    BY <1>1, LeadingView DEF Dropped, Awaited
  <2> HIDE DEF res, fc, rest
  <2>5. CASE result' = res
    BY <2>3, <2>4, <2>5
  <2>6. ASSUME rest # <<>>, NEW ok \in BOOLEAN, result' = Outcome(Head(rest), res, ok)
        PROVE  result[n] \in Awaited
    <3> DEFINE d == Head(rest)
    <3>1. rest \in Seq(Datagrams) /\ res \in [Messages -> Results] /\ Accounted(res, fc, rest)
      BY <2>1 DEF SenderOK, SenderTypes
    <3>2. d \in Datagrams /\ d = rest[1] /\ 1 \in DOMAIN rest
      BY <2>6, <3>1, TailView
    <3>3. d[1] \in Messages
      BY <3>2, DatagramFacts
    <3>4. result' = Outcome(d, res, ok)
      BY <2>6
    <3> HIDE DEF d
    <3>5. res[d[1]] \in Awaited
      BY <3>1, <3>2, <3>3 DEF Accounted, HeldBy
    <3>6. n = d[1] \/ result'[n] = res[n]
      BY <3>1, <3>3, <3>4 DEF Outcome
    <3>7. "SYSERR" \notin Awaited
      BY DEF Awaited
    <3> QED BY <2>3, <2>4, <3>3, <3>5, <3>6, <3>7
  <2> QED BY <2>2, <2>5, <2>6
<1>5. CASE Disconnect
  <2>1. n \in Held
    BY <1>5 DEF Disconnect
  <2> QED BY <1>1, <2>1, HeldFacts DEF Accounted
<1>6. ASSUME NEW a, ReadAck(a) PROVE result[n] \in Awaited
  <2>1. Busy /\ a[1] = frag_ctx.msg /\ result' = [result EXCEPT ![a[1]] = "OK"]
    BY <1>6 DEF ReadAck
  <2>2. n = frag_ctx.msg
    BY <1>1, <2>1
  <2> QED BY <1>1, <2>1, <2>2 DEF Accounted, HeldBy, Busy
<1>7. ASSUME NEW m \in Messages, SendAck(m) PROVE FALSE
  BY <1>7 DEF SendAck, sender
<1>8. CASE TransmitFragment \/ FlowDelayOver
  BY <1>8 DEF TransmitFragment, FlowDelayOver
<1>9. CASE Lose \/ WriteAck \/ EndSession \/ EvictContext
  BY <1>9 DEF Lose, WriteAck, EndSession, EvictContext, sender
<1>10. ASSUME NEW d \in wire, ReadDatagram(d) PROVE FALSE
  BY <1>10 DEF ReadDatagram, sender
<1> QED BY <1>2, <1>3, <1>4, <1>5, <1>6, <1>7, <1>8, <1>9, <1>10 DEF Next

(* What call_continuation reported is final: the continuation of a message *)
(* is never called again, by a late acknowledgement, a timeout or the end  *)
(* of the session.                                                         *)
AnsweredOnce ==
  [][\A m \in Messages :
       result[m] \in {"refused", "OK", "SYSERR"} => result'[m] = result[m]]_vars

(* The continuation of udp_plugin_send is called at most once.             *)
THEOREM AnsweredOnceHolds == Spec => AnsweredOnce
<1>1. IInv /\ [Next]_vars =>
        [\A m \in Messages :
           result[m] \in {"refused", "OK", "SYSERR"} => result'[m] = result[m]]_vars
  <2> SUFFICES ASSUME IInv, Next, NEW m \in Messages,
                      result[m] \in {"refused", "OK", "SYSERR"}, result'[m] # result[m]
               PROVE  FALSE
    OBVIOUS
  <2>1. result[m] = "none" \/ result[m] \in Awaited
    BY ResultChanges DEF IInv
  <2> QED BY <2>1 DEF Awaited
<1> QED BY <1>1, InvAlways, PTL DEF Spec, AnsweredOnce
=============================================================================
