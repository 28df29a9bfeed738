------------------------- MODULE LockSystem_proofs -------------------------
(***************************************************************************)
(* Proofs about the lock manager.  First LockService, for clients that do  *)
(* not disconnect while they wait for a lock: its invariant, and that it   *)
(* implements LockQueue.  Then LockSystem, whose invariant extends that of *)
(* LockService by what the library and the connections hold.               *)
(***************************************************************************)
EXTENDS LockSystem, SeqFilter_proofs, FiniteSetTheorems, SequenceTheorems,
        WellFoundedInduction, TLAPS

(* The first place of a client in a wait list exists.                      *)
LEMMA MinOfNat ==
  ASSUME NEW T \in SUBSET Nat, T # {}
  PROVE  Min(T) \in T /\ \A y \in T : Min(T) <= y
<1>1. \E x \in T : \A y \in T : ~(<<y, x>> \in OpToRel(<, Nat))
  BY NatLessThanWellFounded, WFMin, Zenon
<1>2. PICK x \in T : \A y \in T : ~(<<y, x>> \in OpToRel(<, Nat))
  BY <1>1
<1>3. \A y \in T : ~(y < x)
  BY <1>2 DEF OpToRel
<1>4. \A y \in T : x <= y
  BY <1>3
<1> QED
  BY <1>4 DEF Min

Places(c, s) == {i \in DOMAIN s : s[i] = c}

(* A client has finitely many places in a wait list, and none if Count is  *)
(* 0.                                                                      *)
LEMMA PlacesFinite ==
  ASSUME NEW S, NEW s \in Seq(S), NEW c
  PROVE  /\ IsFiniteSet(Places(c, s))
         /\ Count(c, s) = Cardinality(Places(c, s))
         /\ Count(c, s) \in Nat
         /\ Count(c, s) = 0 <=> \A i \in DOMAIN s : s[i] # c
<1>1. DOMAIN s = 1 .. Len(s) /\ Len(s) \in Nat
  OBVIOUS
<1>2. IsFiniteSet(1 .. Len(s))
  BY <1>1, FS_Interval
<1>3. Places(c, s) \subseteq 1 .. Len(s)
  BY <1>1 DEF Places
<1>4. IsFiniteSet(Places(c, s))
  BY <1>2, <1>3, FS_Subset
<1>5. Count(c, s) = Cardinality(Places(c, s))
  BY DEF Count, Places
<1>6. Places(c, s) = {} <=> \A i \in DOMAIN s : s[i] # c
  BY DEF Places
<1> QED
  BY <1>4, <1>5, <1>6, FS_CardinalityType, FS_EmptySet

(* handle_acquire's new entry at the tail adds one place of that client.   *)
LEMMA CountAppend ==
  ASSUME NEW S, NEW s \in Seq(S), NEW x \in S, NEW c
  PROVE  /\ Append(s, x) \in Seq(S)
         /\ Count(c, Append(s, x)) = Count(c, s) + (IF x = c THEN 1 ELSE 0)
<1> DEFINE t == Append(s, x)
<1>1. t \in Seq(S) /\ Len(t) = Len(s) + 1 /\ t[Len(s) + 1] = x
      /\ \A i \in 1 .. Len(s) : t[i] = s[i]
  OBVIOUS
<1> HIDE DEF t
<1>2. Places(c, t) = Places(c, s) \cup (IF x = c THEN {Len(s) + 1} ELSE {})
  BY <1>1 DEF Places
<1>3. Len(s) + 1 \notin Places(c, s)
  BY DEF Places
<1>4. /\ IsFiniteSet(Places(c, s)) /\ Count(c, s) = Cardinality(Places(c, s))
      /\ Count(c, t) = Cardinality(Places(c, t))
  BY <1>1, PlacesFinite
<1>5. CASE x = c
  <2>1. Cardinality(Places(c, s) \cup {Len(s) + 1}) = Cardinality(Places(c, s)) + 1
    BY <1>3, <1>4, FS_AddElement
  <2> QED
    BY <2>1, <1>1, <1>2, <1>4, <1>5 DEF t
<1>6. CASE x # c
  <2>1. Places(c, t) = Places(c, s)
    BY <1>2, <1>6
  <2>2. Count(c, s) \in Nat
    BY PlacesFinite
  <2> QED
    BY <2>1, <2>2, <1>1, <1>4, <1>6 DEF t
<1> QED
  BY <1>5, <1>6

(* What is left of s without place i.                                      *)
LEMMA RemoveAtFacts ==
  ASSUME NEW S, NEW s \in Seq(S), NEW i \in 1 .. Len(s)
  PROVE  /\ RemoveAt(s, i) \in Seq(S)
         /\ Len(RemoveAt(s, i)) = Len(s) - 1
         /\ \A j \in 1 .. Len(s) - 1 :
              RemoveAt(s, i)[j] = IF j < i THEN s[j] ELSE s[j + 1]
<1> DEFINE a == SubSeq(s, 1, i - 1)
           b == SubSeq(s, i + 1, Len(s))
<1>1. a \in Seq(S) /\ Len(a) = i - 1 /\ \A j \in 1 .. i - 1 : a[j] = s[j]
  OBVIOUS
<1>2. b \in Seq(S) /\ Len(b) = Len(s) - i /\ \A j \in 1 .. Len(s) - i : b[j] = s[i + j]
  <2>1. CASE i = Len(s)
    BY <2>1
  <2>2. CASE i < Len(s)
    BY <2>2
  <2> QED
    BY <2>1, <2>2
<1>3. RemoveAt(s, i) = a \o b
  BY DEF RemoveAt
<1> HIDE DEF a, b
<1>4. /\ a \o b \in Seq(S) /\ Len(a \o b) = Len(a) + Len(b)
      /\ \A j \in 1 .. Len(a) + Len(b) :
           (a \o b)[j] = IF j <= Len(a) THEN a[j] ELSE b[j - Len(a)]
  BY <1>1, <1>2, ConcatProperties
<1>5. ASSUME NEW j \in 1 .. Len(s) - 1
      PROVE  (a \o b)[j] = IF j < i THEN s[j] ELSE s[j + 1]
  <2>1. CASE j < i
    BY <1>1, <1>2, <1>4, <2>1
  <2>2. CASE ~(j < i)
    <3>1. j - (i - 1) \in 1 .. Len(s) - i /\ i + (j - (i - 1)) = j + 1
      BY <2>2
    <3>2. b[j - (i - 1)] = s[j + 1]
      BY <1>2, <3>1
    <3>3. (a \o b)[j] = b[j - (i - 1)]
      BY <1>1, <1>2, <1>4, <2>2
    <3> QED
      BY <2>2, <3>2, <3>3
  <2> QED
    BY <2>1, <2>2
<1> QED
  BY <1>1, <1>2, <1>3, <1>4, <1>5

(* A sequence t that is s without place i has one place of s[i] less.      *)
LEMMA CountRemoveAt ==
  ASSUME NEW S, NEW s \in Seq(S), NEW i \in 1 .. Len(s), NEW t \in Seq(S), NEW c,
         Len(t) = Len(s) - 1,
         \A j \in 1 .. Len(s) - 1 : t[j] = IF j < i THEN s[j] ELSE s[j + 1]
  PROVE  Count(c, t) = Count(c, s) - (IF s[i] = c THEN 1 ELSE 0)
<1> DEFINE P == Places(c, t)
           Q == Places(c, s) \ {i}
           f == [j \in P |-> IF j < i THEN j ELSE j + 1]
<1>1. DOMAIN s = 1 .. Len(s) /\ DOMAIN t = 1 .. Len(s) - 1 /\ Len(s) \in Nat
  OBVIOUS
<1>2. ASSUME NEW j \in P PROVE f[j] \in Q
  <2>1. j \in 1 .. Len(s) - 1 /\ t[j] = c
    BY <1>1 DEF Places
  <2>2. CASE j < i
    BY <2>1, <2>2, <1>1 DEF Places
  <2>3. CASE ~(j < i)
    BY <2>1, <2>3, <1>1 DEF Places
  <2> QED
    BY <2>2, <2>3
<1>3. \A j, k \in P : f[j] = f[k] => j = k
  BY <1>1 DEF Places
<1>4. ASSUME NEW k \in Q PROVE \E j \in P : f[j] = k
  <2>1. k \in 1 .. Len(s) /\ s[k] = c /\ k # i
    BY <1>1 DEF Places
  <2>2. CASE k < i
    <3>1. k \in P
      BY <2>1, <2>2, <1>1 DEF Places
    <3> QED
      BY <3>1, <2>2
  <2>3. CASE ~(k < i)
    <3>1. k - 1 \in P
      BY <2>1, <2>3, <1>1 DEF Places
    <3>2. f[k - 1] = k
      BY <3>1, <2>1, <2>3, <1>1
    <3> QED
      BY <3>1, <3>2
  <2> QED
    BY <2>2, <2>3
<1>5. f \in Bijection(P, Q)
  <2>1. f \in [P -> Q]
    BY <1>2
  <2> HIDE DEF f, P, Q
  <2> QED
    BY <2>1, <1>3, <1>4 DEF Bijection, Injection, Surjection, IsInjective
<1>6. Cardinality(Q) = Cardinality(P)
  BY <1>5, PlacesFinite, FS_Bijection DEF ExistsBijection
<1>7. Cardinality(Q) = IF i \in Places(c, s) THEN Count(c, s) - 1 ELSE Count(c, s)
  <2>1. IsFiniteSet(Places(c, s)) /\ Count(c, s) = Cardinality(Places(c, s))
    BY PlacesFinite
  <2> QED
    BY <2>1, FS_RemoveElement
<1>8. i \in Places(c, s) <=> s[i] = c
  BY <1>1 DEF Places
<1> QED
  <2>1. Count(c, t) = Cardinality(P) /\ Count(c, s) \in Nat
    BY PlacesFinite
  <2> HIDE DEF P, Q
  <2> QED
    BY <2>1, <1>6, <1>7, <1>8

(* process_lock_release takes the head off: one place of that client less. *)
LEMMA CountTail ==
  ASSUME NEW S, NEW s \in Seq(S), Len(s) >= 1, NEW c
  PROVE  /\ SubSeq(s, 2, Len(s)) \in Seq(S)
         /\ Count(c, SubSeq(s, 2, Len(s))) = Count(c, s) - (IF s[1] = c THEN 1 ELSE 0)
<1> DEFINE t == SubSeq(s, 2, Len(s))
<1>1. t \in Seq(S) /\ Len(t) = Len(s) - 1 /\ \A j \in 1 .. Len(s) - 1 : t[j] = s[j + 1]
  OBVIOUS
<1>2. 1 \in 1 .. Len(s)
  OBVIOUS
<1> HIDE DEF t
<1>3. \A j \in 1 .. Len(s) - 1 : t[j] = IF j < 1 THEN s[j] ELSE s[j + 1]
  BY <1>1
<1>4. Count(c, t) = Count(c, s) - (IF s[1] = c THEN 1 ELSE 0)
  BY <1>1, <1>2, <1>3, CountRemoveAt
<1> QED
  BY <1>1, <1>4 DEF t

(* Taking one place out of a wait list: one place of that client less.     *)
LEMMA CountRemovePlace ==
  ASSUME NEW S, NEW s \in Seq(S), NEW i \in 1 .. Len(s), NEW c
  PROVE  Count(c, RemoveAt(s, i)) = Count(c, s) - (IF s[i] = c THEN 1 ELSE 0)
<1> DEFINE t == RemoveAt(s, i)
<1>1. t \in Seq(S) /\ Len(t) = Len(s) - 1
  BY RemoveAtFacts
<1>2. \A j \in 1 .. Len(s) - 1 : t[j] = IF j < i THEN s[j] ELSE s[j + 1]
  BY RemoveAtFacts
<1> HIDE DEF t
<1>3. Count(c, t) = Count(c, s) - (IF s[i] = c THEN 1 ELSE 0)
  BY <1>1, <1>2, CountRemoveAt
<1> QED
  BY <1>3 DEF t

(* handle_release's wl_remove: one place of the client less, others keep   *)
(* theirs.                                                                 *)
LEMMA CountRemoveFirst ==
  ASSUME NEW S, NEW s \in Seq(S), NEW e, NEW k \in DOMAIN s, s[k] = e, NEW c
  PROVE  /\ RemoveFirst(s, e) \in Seq(S)
         /\ Count(c, RemoveFirst(s, e)) = Count(c, s) - (IF e = c THEN 1 ELSE 0)
<1> DEFINE I == {i \in 1 .. Len(s) : s[i] = e}
<1>1. I \in SUBSET Nat /\ I # {}
  OBVIOUS
<1>2. Min(I) \in I
  BY <1>1, MinOfNat
<1>3. RemoveFirst(s, e) = RemoveAt(s, Min(I))
  BY <1>1 DEF RemoveFirst, SelectInSeq
<1>4. Min(I) \in 1 .. Len(s) /\ s[Min(I)] = e
  BY <1>2
<1>5. \A i \in 1 .. Len(s) :
        /\ RemoveAt(s, i) \in Seq(S)
        /\ Count(c, RemoveAt(s, i)) = Count(c, s) - (IF s[i] = c THEN 1 ELSE 0)
  BY RemoveAtFacts, CountRemovePlace
<1> HIDE DEF I
<1> QED
  BY <1>3, <1>4, <1>5

-----------------------------------------------------------------------------
(* What process_lock_release does to one lock.                             *)
LEMMA NoPass ==
  ASSUME TypeOK, NEW l \in Locks
  PROVE  OwnerAfter(l, 0) = owner[l] /\ WaitersAfter(l, 0) = wl[l] /\ Served(l, 0) = {}
<1>1. wl[l] \in Seq(Clients)
  BY DEF TypeOK
<1>2. SubSeq(wl[l], 1, Len(wl[l])) = wl[l]
  BY <1>1
<1>3. \A i \in DOMAIN wl[l] : ~(i <= 0)
  BY <1>1
<1> QED
  BY <1>2, <1>3 DEF OwnerAfter, WaitersAfter, Served

(* One process_lock_release: the head of the wait list, if any, is the     *)
(* owner it serves.                                                        *)
LEMMA Pass ==
  ASSUME TypeOK, NEW l \in Locks
  PROVE  /\ OwnerAfter(l, 1) \in Clients \cup {Nobody}
         /\ WaitersAfter(l, 1) \in Seq(Clients)
         /\ OwnerAfter(l, 1) = Nobody => WaitersAfter(l, 1) = <<>>
         /\ \A d \in Clients : d \in Served(l, 1) <=> OwnerAfter(l, 1) = d
         /\ \A d \in Clients :
              Count(d, wl[l]) = (IF OwnerAfter(l, 1) = d THEN 1 ELSE 0)
                                + Count(d, WaitersAfter(l, 1))
<1>1. wl[l] \in Seq(Clients) /\ Len(wl[l]) \in Nat
  BY DEF TypeOK
<1>2. WaitersAfter(l, 1) = SubSeq(wl[l], 2, Len(wl[l]))
  BY DEF WaitersAfter
<1>3. CASE Len(wl[l]) = 0
  <2>1. wl[l] = <<>> /\ SubSeq(wl[l], 2, Len(wl[l])) = <<>>
    BY <1>1, <1>3
  <2>2. OwnerAfter(l, 1) = Nobody
    BY <1>3 DEF OwnerAfter
  <2>3. Served(l, 1) = {}
    BY <2>1 DEF Served
  <2>4. \A d \in Clients : Count(d, wl[l]) = 0
    <3>1. \A d : \A i \in DOMAIN wl[l] : wl[l][i] # d
      BY <2>1
    <3> QED
      BY <1>1, <3>1, PlacesFinite
  <2>5. \A d \in Clients : Count(d, <<>>) = 0
    BY <2>1, <2>4
  <2> QED
    BY <1>2, <2>1, <2>2, <2>3, <2>4, <2>5, NullAssumption
<1>4. CASE Len(wl[l]) >= 1
  <2>1. OwnerAfter(l, 1) = wl[l][1] /\ wl[l][1] \in Clients
    BY <1>1, <1>4 DEF OwnerAfter
  <2>2. Served(l, 1) = {wl[l][1]}
    BY <1>1, <1>4 DEF Served
  <2>3. \A d \in Clients :
          /\ SubSeq(wl[l], 2, Len(wl[l])) \in Seq(Clients)
          /\ Count(d, SubSeq(wl[l], 2, Len(wl[l]))) =
               Count(d, wl[l]) - (IF wl[l][1] = d THEN 1 ELSE 0)
    BY <1>1, <1>4, CountTail
  <2>4. \A d \in Clients : Count(d, wl[l]) \in Nat
    BY <1>1, PlacesFinite
  <2>5. ASSUME NEW d \in Clients
        PROVE  Count(d, wl[l]) = (IF wl[l][1] = d THEN 1 ELSE 0)
                                 + Count(d, WaitersAfter(l, 1))
    <3>1. Count(d, WaitersAfter(l, 1)) = Count(d, wl[l]) - (IF wl[l][1] = d THEN 1 ELSE 0)
      BY <1>2, <2>3
    <3>2. Count(d, wl[l]) \in Nat
      BY <2>4
    <3> QED
      BY <3>1, <3>2
  <2>6. WaitersAfter(l, 1) \in Seq(Clients)
    BY <1>2, <2>1, <2>3
  <2> QED
    BY <2>1, <2>2, <2>5, <2>6, NullAssumption
<1> QED
  BY <1>1, <1>3, <1>4

(* send_success_msg leaves a pending reply, or puts a granted lock there.  *)
LEMMA Replies ==
  ASSUME TypeOK, NEW grants, NEW r \in SendSuccess(grants)
  PROVE  /\ r \in [Clients -> Locks \cup {NoLock}]
         /\ \A d \in Clients : r[d] = reply[d] \/ r[d] \in grants[d]
BY DEF SendSuccess, TypeOK

-----------------------------------------------------------------------------
(* The service starts with nothing.  One lemma for each action follows.    *)
LEMMA InitInv == Init => IInv
<1> SUFFICES ASSUME Init PROVE IInv
  OBVIOUS
<1>1. TypeOK
  BY DEF Init, TypeOK
<1>2. \A c \in Clients, l \in Locks : Count(c, wl[l]) = 0
  <2>1. \A l \in Locks : wl[l] \in Seq(Clients) /\ wl[l] = <<>>
    BY DEF Init
  <2>2. \A c \in Clients, l \in Locks : \A i \in DOMAIN wl[l] : wl[l][i] # c
    BY <2>1
  <2> QED
    BY <2>1, <2>2, PlacesFinite
<1>3. ListsAgree
  BY <1>2, NullAssumption DEF Init, ListsAgree
<1>4. NoWaitersLeft /\ MutualExclusion /\ ToldOnce
  BY NullAssumption DEF Init, NoWaitersLeft, MutualExclusion, ToldOnce
<1> QED
  BY <1>1, <1>3, <1>4 DEF IInv

(* Entries in the lock lists and places in the wait lists are natural      *)
(* numbers.                                                                *)
LEMMA Counts ==
  ASSUME TypeOK
  PROVE  \A c \in Clients, l \in Locks : Count(c, wl[l]) \in Nat /\ ll[c][l] \in Nat
<1>1. \A l \in Locks : wl[l] \in Seq(Clients)
  BY DEF TypeOK
<1>2. \A c \in Clients, l \in Locks : Count(c, wl[l]) \in Nat
  BY <1>1, PlacesFinite
<1> QED
  BY <1>2 DEF TypeOK

(* handle_acquire of a free lock.                                          *)
LEMMA AcquireFreeInv ==
  ASSUME IInv, NEW c \in Clients, NEW l \in Locks, Acquire(c, l), AcquireFree(c, l)
  PROVE  IInv'
<1> USE DEF IInv
<1>1. /\ ll' = [ll EXCEPT ![c][l] = @ + 1] /\ cl' = cl \cup {c}
      /\ told' = told /\ wl' = wl
      /\ owner[l] = Nobody /\ owner' = [owner EXCEPT ![l] = c]
  BY DEF Acquire, AcquireFree
<1>2. /\ reply' \in [Clients -> Locks \cup {NoLock}]
      /\ \A d \in Clients : reply'[d] = reply[d] \/ (d = c /\ reply'[d] = l)
  <2>1. reply' \in SendSuccess(Grant(c, l))
    BY DEF AcquireFree
  <2>2. \A d \in Clients : reply'[d] = reply[d] \/ reply'[d] \in Grant(c, l)[d]
    BY <2>1, Replies
  <2> QED
    BY <2>1, <2>2, Replies DEF Grant
<1>3. TypeOK'
  <2>1. ll' \in [Clients -> [Locks -> Nat]]
    BY <1>1 DEF TypeOK
  <2>2. owner' \in [Locks -> Clients \cup {Nobody}]
    BY <1>1 DEF TypeOK
  <2> QED
    BY <1>1, <1>2, <2>1, <2>2 DEF TypeOK
<1>4. wl[l] = <<>> /\ \A d \in Clients : d \notin told[l] /\ reply[d] # l
  BY <1>1, NullAssumption DEF NoWaitersLeft, MutualExclusion
<1>5. ListsAgree'
  <2> SUFFICES ASSUME NEW d \in Clients, NEW m \in Locks
               PROVE  /\ ll'[d][m] = (IF owner'[m] = d THEN 1 ELSE 0) + Count(d, wl[m])
                      /\ ll'[d][m] > 0 => d \in cl'
    BY <1>1 DEF ListsAgree
  <2>1. /\ ll[d][m] = (IF owner[m] = d THEN 1 ELSE 0) + Count(d, wl[m])
        /\ ll[d][m] > 0 => d \in cl
        /\ ll[d][m] \in Nat /\ Count(d, wl[m]) \in Nat
    BY Counts DEF ListsAgree
  <2>2. /\ ll'[d][m] = IF d = c /\ m = l THEN ll[d][m] + 1 ELSE ll[d][m]
        /\ owner'[m] = IF m = l THEN c ELSE owner[m]
    BY <1>1 DEF TypeOK
  <2> QED
    BY <1>1, <2>1, <2>2, NullAssumption
<1>6. NoWaitersLeft'
  BY <1>1, NullAssumption DEF NoWaitersLeft, TypeOK
<1>7. MutualExclusion' /\ ToldOnce'
  <2> SUFFICES ASSUME NEW d \in Clients, NEW m \in Locks
               PROVE  /\ d \in told[m] \/ reply'[d] = m => owner'[m] = d
                      /\ reply'[d] = m => d \notin told[m]
    BY <1>1 DEF MutualExclusion, ToldOnce
  <2>1. owner'[m] = IF m = l THEN c ELSE owner[m]
    BY <1>1 DEF TypeOK
  <2> QED
    BY <1>2, <1>4, <2>1 DEF MutualExclusion, ToldOnce
<1> QED
  BY <1>3, <1>5, <1>6, <1>7

(* handle_acquire of a lock another client owns.                           *)
LEMMA AcquireBusyInv ==
  ASSUME IInv, NEW c \in Clients, NEW l \in Locks, Acquire(c, l), AcquireBusy(c, l)
  PROVE  IInv'
<1> USE DEF IInv
<1>1. /\ ll' = [ll EXCEPT ![c][l] = @ + 1] /\ cl' = cl \cup {c}
      /\ told' = told /\ owner' = owner /\ reply' = reply
      /\ owner[l] # Nobody /\ owner[l] # c
      /\ wl' = [wl EXCEPT ![l] = Append(@, c)]
  BY DEF Acquire, AcquireBusy
<1>2. wl[l] \in Seq(Clients)
  BY DEF TypeOK
<1>3. TypeOK'
  BY <1>1, <1>2 DEF TypeOK
<1>4. ListsAgree'
  <2> SUFFICES ASSUME NEW d \in Clients, NEW m \in Locks
               PROVE  /\ ll'[d][m] = (IF owner[m] = d THEN 1 ELSE 0) + Count(d, wl'[m])
                      /\ ll'[d][m] > 0 => d \in cl'
    BY <1>1 DEF ListsAgree
  <2>1. /\ ll[d][m] = (IF owner[m] = d THEN 1 ELSE 0) + Count(d, wl[m])
        /\ ll[d][m] > 0 => d \in cl
        /\ ll[d][m] \in Nat /\ Count(d, wl[m]) \in Nat
    BY Counts DEF ListsAgree
  <2>2. ll'[d][m] = IF d = c /\ m = l THEN ll[d][m] + 1 ELSE ll[d][m]
    BY <1>1 DEF TypeOK
  <2>3. Count(d, wl'[m]) = Count(d, wl[m]) + (IF d = c /\ m = l THEN 1 ELSE 0)
    <3>1. CASE m = l
      <4>1. wl'[m] = Append(wl[l], c)
        BY <1>1, <3>1 DEF TypeOK
      <4>2. Count(d, Append(wl[l], c)) = Count(d, wl[l]) + (IF c = d THEN 1 ELSE 0)
        BY <1>2, CountAppend
      <4> QED
        BY <4>1, <4>2, <3>1
    <3>2. CASE m # l
      <4>1. wl'[m] = wl[m]
        BY <1>1, <3>2 DEF TypeOK
      <4> QED
        BY <4>1, <3>2, <2>1
    <3> QED
      BY <3>1, <3>2
  <2> QED
    BY <1>1, <2>1, <2>2, <2>3
<1>5. NoWaitersLeft'
  BY <1>1 DEF NoWaitersLeft, TypeOK
<1>6. MutualExclusion' /\ ToldOnce'
  BY <1>1 DEF MutualExclusion, ToldOnce
<1> QED
  BY <1>3, <1>4, <1>5, <1>6

(* handle_release from the owner, which passes the lock on.                *)
LEMMA ReleaseOwnedInv ==
  ASSUME IInv, NEW c \in Clients, NEW l \in Locks, Release(c, l), owner[l] = c
  PROVE  IInv'
<1> USE DEF IInv
<1>1. /\ ll' = [ll EXCEPT ![c][l] = @ - 1] /\ cl' = cl /\ ll[c][l] > 0
      /\ c \in told[l]
      /\ owner' = [owner EXCEPT ![l] = OwnerAfter(l, 1)]
      /\ wl' = [wl EXCEPT ![l] = WaitersAfter(l, 1)]
      /\ told' = [told EXCEPT ![l] = @ \ {c}]
  BY DEF Release, ReleaseOwned
<1>2. /\ reply' \in [Clients -> Locks \cup {NoLock}]
      /\ \A d \in Clients : reply'[d] = reply[d] \/ (d \in Served(l, 1) /\ reply'[d] = l)
  <2> DEFINE g == [d \in Clients |-> IF d \in Served(l, 1) THEN {l} ELSE {}]
  <2>1. reply' \in SendSuccess(g)
    BY DEF Release, ReleaseOwned
  <2>2. \A d \in Clients : reply'[d] = reply[d] \/ reply'[d] \in g[d]
    BY <2>1, Replies
  <2> QED
    BY <2>1, <2>2, Replies
<1>3. /\ OwnerAfter(l, 1) \in Clients \cup {Nobody}
      /\ WaitersAfter(l, 1) \in Seq(Clients)
      /\ OwnerAfter(l, 1) = Nobody => WaitersAfter(l, 1) = <<>>
      /\ \A d \in Clients : d \in Served(l, 1) <=> OwnerAfter(l, 1) = d
      /\ \A d \in Clients :
           Count(d, wl[l]) = (IF OwnerAfter(l, 1) = d THEN 1 ELSE 0)
                             + Count(d, WaitersAfter(l, 1))
  BY Pass
<1>4. TypeOK'
  <2>1. ll' \in [Clients -> [Locks -> Nat]]
    BY <1>1 DEF TypeOK
  <2>2. owner' \in [Locks -> Clients \cup {Nobody}]
    BY <1>1, <1>3 DEF TypeOK
  <2>3. wl' \in [Locks -> Seq(Clients)]
    BY <1>1, <1>3 DEF TypeOK
  <2>4. told' \in [Locks -> SUBSET Clients]
    BY <1>1 DEF TypeOK
  <2> QED
    BY <1>1, <1>2, <2>1, <2>2, <2>3, <2>4 DEF TypeOK
<1>5. \A m \in Locks : /\ owner'[m] = IF m = l THEN OwnerAfter(l, 1) ELSE owner[m]
                       /\ wl'[m] = IF m = l THEN WaitersAfter(l, 1) ELSE wl[m]
                       /\ told'[m] = IF m = l THEN told[l] \ {c} ELSE told[m]
  BY <1>1 DEF TypeOK
<1>6. ListsAgree'
  <2> SUFFICES ASSUME NEW d \in Clients, NEW m \in Locks
               PROVE  /\ ll'[d][m] = (IF owner'[m] = d THEN 1 ELSE 0) + Count(d, wl'[m])
                      /\ ll'[d][m] > 0 => d \in cl
    BY <1>1 DEF ListsAgree
  <2>1. /\ ll[d][m] = (IF owner[m] = d THEN 1 ELSE 0) + Count(d, wl[m])
        /\ ll[d][m] > 0 => d \in cl
        /\ ll[d][m] \in Nat /\ Count(d, wl[m]) \in Nat
    BY Counts DEF ListsAgree
  <2>2. ll'[d][m] = IF d = c /\ m = l THEN ll[d][m] - 1 ELSE ll[d][m]
    BY <1>1 DEF TypeOK
  <2>3. CASE m = l
    BY <1>3, <1>5, <2>1, <2>2, <2>3
  <2>4. CASE m # l
    BY <1>5, <2>1, <2>2, <2>4
  <2> QED
    BY <2>3, <2>4
<1>7. NoWaitersLeft'
  BY <1>3, <1>5 DEF NoWaitersLeft
<1>8. MutualExclusion' /\ ToldOnce'
  <2> SUFFICES ASSUME NEW d \in Clients, NEW m \in Locks
               PROVE  /\ d \in told'[m] \/ reply'[d] = m => owner'[m] = d
                      /\ reply'[d] = m => d \notin told'[m]
    BY DEF MutualExclusion, ToldOnce
  <2>1. /\ d \in told[m] \/ reply[d] = m => owner[m] = d
        /\ reply[d] = m => d \notin told[m]
    BY DEF MutualExclusion, ToldOnce
  <2>2. CASE m = l
    <3>1. d \notin told'[m]
      BY <1>5, <2>1, <2>2
    <3>2. reply[d] # l
      BY <1>1, <2>1, <2>2
    <3> QED
      BY <1>2, <1>3, <1>5, <2>2, <3>1, <3>2
  <2>3. CASE m # l
    BY <1>2, <1>5, <2>1, <2>3
  <2> QED
    BY <2>2, <2>3
<1> QED
  BY <1>4, <1>6, <1>7, <1>8

(* handle_release from a client that gives up its place.                   *)
LEMMA ReleaseWaitingInv ==
  ASSUME IInv, NEW c \in Clients, NEW l \in Locks, Release(c, l), owner[l] # c
  PROVE  IInv'
<1> USE DEF IInv
<1>1. /\ ll' = [ll EXCEPT ![c][l] = @ - 1] /\ cl' = cl /\ ll[c][l] > 0
      /\ owner' = owner /\ reply' = reply /\ told' = told
      /\ wl' = [wl EXCEPT ![l] = RemoveFirst(@, c)]
  BY DEF Release, ReleaseWaiting
<1>2. wl[l] \in Seq(Clients)
  BY DEF TypeOK
<1>3. PICK k \in DOMAIN wl[l] : wl[l][k] = c
  <2>1. Count(c, wl[l]) # 0
    BY <1>1, Counts DEF ListsAgree
  <2> QED
    BY <1>2, <2>1, PlacesFinite
<1>4. /\ RemoveFirst(wl[l], c) \in Seq(Clients)
      /\ \A d \in Clients : Count(d, RemoveFirst(wl[l], c)) =
                             Count(d, wl[l]) - (IF c = d THEN 1 ELSE 0)
  BY <1>2, <1>3, CountRemoveFirst
<1>5. \A m \in Locks : wl'[m] = IF m = l THEN RemoveFirst(wl[l], c) ELSE wl[m]
  BY <1>1 DEF TypeOK
<1>6. TypeOK'
  <2>1. ll' \in [Clients -> [Locks -> Nat]]
    BY <1>1 DEF TypeOK
  <2>2. wl' \in [Locks -> Seq(Clients)]
    BY <1>1, <1>4 DEF TypeOK
  <2> QED
    BY <1>1, <2>1, <2>2 DEF TypeOK
<1>7. ListsAgree'
  <2> SUFFICES ASSUME NEW d \in Clients, NEW m \in Locks
               PROVE  /\ ll'[d][m] = (IF owner[m] = d THEN 1 ELSE 0) + Count(d, wl'[m])
                      /\ ll'[d][m] > 0 => d \in cl
    BY <1>1 DEF ListsAgree
  <2>1. /\ ll[d][m] = (IF owner[m] = d THEN 1 ELSE 0) + Count(d, wl[m])
        /\ ll[d][m] > 0 => d \in cl
        /\ ll[d][m] \in Nat /\ Count(d, wl[m]) \in Nat
    BY Counts DEF ListsAgree
  <2>2. ll'[d][m] = IF d = c /\ m = l THEN ll[d][m] - 1 ELSE ll[d][m]
    BY <1>1 DEF TypeOK
  <2>3. CASE m = l
    BY <1>4, <1>5, <2>1, <2>2, <2>3
  <2>4. CASE m # l
    BY <1>5, <2>1, <2>2, <2>4
  <2> QED
    BY <2>3, <2>4
<1>8. NoWaitersLeft'
  <2>1. owner[l] # Nobody
    BY <1>3 DEF NoWaitersLeft
  <2> QED
    BY <1>1, <1>5, <2>1 DEF NoWaitersLeft
<1>9. MutualExclusion' /\ ToldOnce'
  BY <1>1 DEF MutualExclusion, ToldOnce
<1> QED
  BY <1>6, <1>7, <1>8, <1>9

(* client_disconnect_cb for a client that waits for nothing: every lock in *)
(* its list is one it owns, and is passed on once.                         *)
LEMMA ClientDisconnectInv ==
  ASSUME IInv, NEW c \in Clients, \A l \in Locks : ~Waits(c, l), ClientDisconnect(c)
  PROVE  IInv'
<1> USE DEF IInv
<1>1. /\ cl' = cl \ {c}
      /\ ll' = [ll EXCEPT ![c] = [l \in Locks |-> 0]]
      /\ owner' = [l \in Locks |-> OwnerAfter(l, ll[c][l])]
      /\ wl' = [l \in Locks |-> WaitersAfter(l, ll[c][l])]
      /\ told' = [l \in Locks |-> told[l] \ {c}]
  BY DEF ClientDisconnect
<1>2. \A m \in Locks : Count(c, wl[m]) = 0
  <2>1. \A m \in Locks : wl[m] \in Seq(Clients)
    BY DEF TypeOK
  <2>2. \A m \in Locks : \A i \in DOMAIN wl[m] : wl[m][i] # c
    BY DEF Waits
  <2> QED
    BY <2>1, <2>2, PlacesFinite
<1>3. \A m \in Locks : ll[c][m] = IF owner[m] = c THEN 1 ELSE 0
  BY <1>2 DEF ListsAgree
<1>4. \A m \in Locks :
        owner[m] # c => owner'[m] = owner[m] /\ wl'[m] = wl[m] /\ Served(m, ll[c][m]) = {}
  BY <1>1, <1>3, NoPass
<1>5. ASSUME NEW m \in Locks, owner[m] = c
      PROVE  /\ owner'[m] \in Clients \cup {Nobody}
             /\ wl'[m] \in Seq(Clients)
             /\ owner'[m] = Nobody => wl'[m] = <<>>
             /\ \A d \in Clients : d \in Served(m, ll[c][m]) <=> owner'[m] = d
             /\ \A d \in Clients :
                  Count(d, wl[m]) = (IF owner'[m] = d THEN 1 ELSE 0) + Count(d, wl'[m])
  <2>1. owner'[m] = OwnerAfter(m, 1) /\ wl'[m] = WaitersAfter(m, 1) /\ ll[c][m] = 1
    BY <1>1, <1>3, <1>5
  <2>2. /\ OwnerAfter(m, 1) \in Clients \cup {Nobody}
        /\ WaitersAfter(m, 1) \in Seq(Clients)
        /\ OwnerAfter(m, 1) = Nobody => WaitersAfter(m, 1) = <<>>
        /\ \A d \in Clients : d \in Served(m, 1) <=> OwnerAfter(m, 1) = d
        /\ \A d \in Clients :
             Count(d, wl[m]) = (IF OwnerAfter(m, 1) = d THEN 1 ELSE 0)
                               + Count(d, WaitersAfter(m, 1))
    BY Pass
  <2> QED
    BY <2>1, <2>2
<1>6. /\ reply' \in [Clients -> Locks \cup {NoLock}]
      /\ reply'[c] = NoLock
      /\ \A d \in Clients \ {c} :
           reply'[d] = reply[d] \/ \E m \in Locks : d \in Served(m, ll[c][m]) /\ reply'[d] = m
  <2> DEFINE g == [d \in Clients |-> {l \in Locks : d \in Served(l, ll[c][l])}]
  <2>1. PICK r \in SendSuccess(g) : reply' = [r EXCEPT ![c] = NoLock]
    BY DEF ClientDisconnect
  <2>2. /\ r \in [Clients -> Locks \cup {NoLock}]
        /\ \A d \in Clients : r[d] = reply[d] \/ r[d] \in g[d]
    BY <2>1, Replies
  <2>3. \A d \in Clients : r[d] \in g[d] =>
          \E m \in Locks : d \in Served(m, ll[c][m]) /\ r[d] = m
    OBVIOUS
  <2> HIDE DEF g
  <2> QED
    BY <2>1, <2>2, <2>3
<1>7. TypeOK'
  <2>1. ll' \in [Clients -> [Locks -> Nat]]
    BY <1>1 DEF TypeOK
  <2>2. \A m \in Locks : owner'[m] \in Clients \cup {Nobody} /\ wl'[m] \in Seq(Clients)
    BY <1>4, <1>5 DEF TypeOK
  <2>3. owner' \in [Locks -> Clients \cup {Nobody}] /\ wl' \in [Locks -> Seq(Clients)]
    BY <1>1, <2>2
  <2>4. told' \in [Locks -> SUBSET Clients]
    BY <1>1 DEF TypeOK
  <2> QED
    BY <1>1, <1>6, <2>1, <2>3, <2>4 DEF TypeOK
<1>8. ListsAgree'
  <2> SUFFICES ASSUME NEW d \in Clients, NEW m \in Locks
               PROVE  /\ ll'[d][m] = (IF owner'[m] = d THEN 1 ELSE 0) + Count(d, wl'[m])
                      /\ ll'[d][m] > 0 => d \in cl'
    BY DEF ListsAgree
  <2>1. /\ ll[d][m] = (IF owner[m] = d THEN 1 ELSE 0) + Count(d, wl[m])
        /\ ll[d][m] > 0 => d \in cl
        /\ ll[d][m] \in Nat /\ Count(d, wl[m]) \in Nat
    BY Counts DEF ListsAgree
  <2>2. ll'[d][m] = IF d = c THEN 0 ELSE ll[d][m]
    BY <1>1 DEF TypeOK
  <2>3. Count(d, wl'[m]) \in Nat
    BY <1>7, PlacesFinite DEF TypeOK
  <2>4. CASE owner[m] = c
    BY <1>1, <1>2, <1>5, <2>1, <2>2, <2>3, <2>4
  <2>5. CASE owner[m] # c
    BY <1>1, <1>2, <1>4, <2>1, <2>2, <2>5
  <2> QED
    BY <2>4, <2>5
<1>9. NoWaitersLeft'
  BY <1>4, <1>5 DEF NoWaitersLeft
<1>10. MutualExclusion' /\ ToldOnce'
  <2> SUFFICES ASSUME NEW d \in Clients, NEW m \in Locks
               PROVE  /\ d \in told'[m] \/ reply'[d] = m => owner'[m] = d
                      /\ reply'[d] = m => d \notin told'[m]
    BY DEF MutualExclusion, ToldOnce
  <2>1. /\ d \in told[m] \/ reply[d] = m => owner[m] = d
        /\ reply[d] = m => d \notin told[m]
    BY DEF MutualExclusion, ToldOnce
  <2>2. told'[m] = told[m] \ {c}
    BY <1>1
  <2>3. CASE d = c
    BY <1>6, <2>2, <2>3, NullAssumption
  <2>4. CASE d # c /\ owner[m] = c
    BY <1>5, <1>6, <2>1, <2>2, <2>4
  <2>5. CASE d # c /\ owner[m] # c
    BY <1>4, <1>6, <2>1, <2>2, <2>5
  <2> QED
    BY <2>3, <2>4, <2>5
<1> QED
  BY <1>7, <1>8, <1>9, <1>10

(* transmit_notify: the written or the dropped reply.                      *)
LEMMA TransmitInv ==
  ASSUME IInv, NEW c \in Clients, Transmit(c) \/ TransmitTimeout(c)
  PROVE  IInv'
<1> USE DEF IInv
<1>1. /\ cl' = cl /\ ll' = ll /\ owner' = owner /\ wl' = wl
      /\ reply[c] # NoLock /\ reply' = [reply EXCEPT ![c] = NoLock]
      /\ told' = told \/ told' = [told EXCEPT ![reply[c]] = @ \cup {c}]
  BY DEF Transmit, TransmitTimeout
<1>2. reply[c] \in Locks /\ owner[reply[c]] = c
  BY <1>1 DEF TypeOK, MutualExclusion
<1>3. TypeOK'
  <2>1. told' \in [Locks -> SUBSET Clients]
    <3>1. told \in [Locks -> SUBSET Clients]
      BY DEF TypeOK
    <3>2. CASE told' = told
      BY <3>1, <3>2
    <3>3. CASE told' = [told EXCEPT ![reply[c]] = @ \cup {c}]
      <4>1. told[reply[c]] \cup {c} \in SUBSET Clients
        BY <1>2, <3>1
      <4> QED
        BY <3>1, <3>3, <4>1
    <3> QED
      BY <1>1, <3>2, <3>3
  <2>2. reply' \in [Clients -> Locks \cup {NoLock}]
    BY <1>1 DEF TypeOK
  <2> QED
    BY <1>1, <2>1, <2>2 DEF TypeOK
<1>4. ListsAgree' /\ NoWaitersLeft'
  BY <1>1 DEF ListsAgree, NoWaitersLeft
<1>5. MutualExclusion' /\ ToldOnce'
  <2> SUFFICES ASSUME NEW d \in Clients, NEW m \in Locks
               PROVE  /\ d \in told'[m] \/ reply'[d] = m => owner[m] = d
                      /\ reply'[d] = m => d \notin told'[m]
    BY <1>1 DEF MutualExclusion, ToldOnce
  <2>1. /\ d \in told[m] \/ reply[d] = m => owner[m] = d
        /\ reply[d] = m => d \notin told[m]
    BY DEF MutualExclusion, ToldOnce
  <2>2. reply'[d] = IF d = c THEN NoLock ELSE reply[d]
    BY <1>1 DEF TypeOK
  <2>3. d \in told'[m] => d \in told[m] \/ (d = c /\ m = reply[c])
    BY <1>1, <1>2 DEF TypeOK
  <2> QED
    BY <1>2, <2>1, <2>2, <2>3, NullAssumption
<1> QED
  BY <1>3, <1>4, <1>5

(* shutdown_task drops everything: the service is as it was started.       *)
LEMMA ShutdownInv == Shutdown => IInv'
<1> SUFFICES ASSUME Shutdown PROVE IInv'
  OBVIOUS
<1>1. TypeOK'
  BY DEF Shutdown, TypeOK
<1>2. \A c \in Clients, l \in Locks : Count(c, wl'[l]) = 0
  <2>1. \A l \in Locks : wl'[l] \in Seq(Clients) /\ wl'[l] = <<>>
    BY DEF Shutdown
  <2>2. \A c \in Clients, l \in Locks : \A i \in DOMAIN wl'[l] : wl'[l][i] # c
    BY <2>1
  <2> QED
    BY <2>1, <2>2, PlacesFinite
<1>3. ListsAgree'
  BY <1>2, NullAssumption DEF Shutdown, ListsAgree
<1>4. NoWaitersLeft' /\ MutualExclusion' /\ ToldOnce'
  BY NullAssumption DEF Shutdown, NoWaitersLeft, MutualExclusion, ToldOnce
<1> QED
  BY <1>1, <1>3, <1>4 DEF IInv

-----------------------------------------------------------------------------
(* IInv holds in every state the service reaches, as long as no client     *)
(* disconnects while it waits (client_disconnect_cb would then release     *)
(* locks that the client does not own).                                    *)
THEOREM Invariant ==
  ASSUME "waiter_leaves" \notin Faults
  PROVE  Spec => []IInv
<1>1. ASSUME IInv, Next PROVE IInv'
  <2>1. ASSUME NEW c \in Clients, NEW l \in Locks, Acquire(c, l) PROVE IInv'
    BY <1>1, <2>1, AcquireFreeInv, AcquireBusyInv DEF Acquire
  <2>2. ASSUME NEW c \in Clients, NEW l \in Locks, Release(c, l) PROVE IInv'
    BY <1>1, <2>2, ReleaseOwnedInv, ReleaseWaitingInv
  <2>3. ASSUME NEW c \in Clients, NEW l \in Locks, AcquireTwice(c, l) \/ ReleaseUnknown(c, l)
        PROVE  IInv'
    BY <1>1, <2>3, ClientDisconnectInv DEF AcquireTwice, ReleaseUnknown, MayLeave
  <2>4. ASSUME NEW c \in Clients, Disconnect(c) PROVE IInv'
    BY <1>1, <2>4, ClientDisconnectInv DEF Disconnect, MayLeave
  <2>5. ASSUME NEW c \in Clients, Transmit(c) \/ TransmitTimeout(c) PROVE IInv'
    BY <1>1, <2>5, TransmitInv
  <2>6. CASE Shutdown
    BY <2>6, ShutdownInv
  <2> QED
    BY <1>1, <2>1, <2>2, <2>3, <2>4, <2>5, <2>6 DEF Next
<1>2. ASSUME IInv, UNCHANGED vars PROVE IInv'
  BY <1>2 DEF IInv, TypeOK, ListsAgree, NoWaitersLeft, MutualExclusion, ToldOnce, vars
<1> QED
  BY InitInv, <1>1, <1>2, PTL DEF Spec

(* No two clients hold one lock: whoever was told SUCCESS, or is about to  *)
(* be, is the owner handle_acquire or process_lock_release recorded.       *)
THEOREM MutualExclusionHolds ==
  ASSUME "waiter_leaves" \notin Faults
  PROVE  Spec => []MutualExclusion
BY Invariant, PTL DEF IInv

(* The lock lists of the clients agree with the owners and the wait lists  *)
(* that handle_acquire, handle_release and client_disconnect_cb keep, and  *)
(* the assertion of remove_lock (no waiters) never fails.                  *)
THEOREM ListsConsistentHolds ==
  ASSUME "waiter_leaves" \notin Faults
  PROVE  Spec => []ListsConsistent
BY Invariant, PTL DEF IInv, ListsConsistent

(* The lists of the service and what clients were told stay well formed    *)
(* through handle_acquire, handle_release and client_disconnect_cb.        *)
THEOREM TypeCorrect ==
  ASSUME "waiter_leaves" \notin Faults
  PROVE  Spec => []TypeOK
BY Invariant, PTL DEF IInv
-----------------------------------------------------------------------------
(* The refinement.  The instance has its own copy of the operators of the  *)
(* library modules: they are the same operators.                           *)
LEMMA SameOperators ==
  ASSUME NEW s, NEW e, NEW gone
  PROVE  /\ Abstract!RemoveFirst(s, e) = RemoveFirst(s, e)
         /\ Abstract!Excluding(s, gone) = Excluding(s, gone)
<1>1. Abstract!RemoveFirst(s, e) = RemoveFirst(s, e)
  BY Zenon DEF Abstract!RemoveFirst, Abstract!RemoveAt, Abstract!SelectInSeq, Abstract!Min,
               RemoveFirst, RemoveAt, SelectInSeq, Min
<1>2. Abstract!Excluding(s, gone) = Excluding(s, gone)
  BY Zenon DEF Abstract!Excluding, Excluding
<1> QED BY <1>1, <1>2

(* Two sequences with the same length and entries are one sequence.        *)
LEMMA SameEntries ==
  ASSUME NEW S, NEW s \in Seq(S), NEW t \in Seq(S), Len(s) = Len(t),
         \A i \in 1 .. Len(s) : s[i] = t[i]
  PROVE  s = t
OBVIOUS

(* Removing an entry that is first in line.                                *)
LEMMA RemoveFirstHead ==
  ASSUME NEW S, NEW s \in Seq(S), NEW e \in S
  PROVE  RemoveFirst(<<e>> \o s, e) = s
<1> DEFINE q == <<e>> \o s
           I == {i \in 1 .. Len(q) : q[i] = e}
<1>1. InFront(q, e, s, S)
  BY FrontView
<1> HIDE DEF q
<1>2. q \in Seq(S) /\ Len(q) = Len(s) + 1 /\ Len(s) \in Nat /\ q[1] = e
      /\ \A k \in 1 .. Len(s) : q[k + 1] = s[k]
  BY <1>1 DEF InFront
<1>3. I \in SUBSET Nat /\ I # {} /\ 1 \in I
  BY <1>2
<1>4. Min(I) = 1
  <2>1. Min(I) \in I /\ \A y \in I : Min(I) <= y
    BY <1>3, MinOfNat
  <2> HIDE DEF I
  <2>2. Min(I) \in Nat /\ Min(I) <= 1
    BY <1>3, <2>1
  <2>3. Min(I) # 0
    BY <2>1 DEF I
  <2> QED BY <2>2, <2>3
<1>5. RemoveFirst(q, e) = RemoveAt(q, 1)
  BY <1>3, <1>4 DEF RemoveFirst, SelectInSeq
<1>6. 1 \in 1 .. Len(q)
  BY <1>2
<1>7. /\ RemoveAt(q, 1) \in Seq(S) /\ Len(RemoveAt(q, 1)) = Len(s)
      /\ \A j \in 1 .. Len(s) : RemoveAt(q, 1)[j] = q[j + 1]
  <2>1. /\ RemoveAt(q, 1) \in Seq(S) /\ Len(RemoveAt(q, 1)) = Len(q) - 1
        /\ \A j \in 1 .. Len(q) - 1 : RemoveAt(q, 1)[j] = IF j < 1 THEN q[j] ELSE q[j + 1]
    BY <1>2, <1>6, RemoveAtFacts
  <2> QED BY <1>2, <2>1
<1>8. RemoveAt(q, 1) = s
  BY <1>2, <1>7, SameEntries
<1> QED BY <1>5, <1>8 DEF q

(* Removing an entry that is not first in line leaves the first.           *)
LEMMA RemoveFirstBehind ==
  ASSUME NEW S, NEW s \in Seq(S), NEW d \in S, NEW e \in S, d # e,
         NEW k \in DOMAIN s, s[k] = e
  PROVE  RemoveFirst(<<d>> \o s, e) = <<d>> \o RemoveFirst(s, e)
<1> DEFINE q == <<d>> \o s
           I == {i \in 1 .. Len(q) : q[i] = e}
           J == {i \in 1 .. Len(s) : s[i] = e}
<1>1. InFront(q, d, s, S)
  BY FrontView
<1> HIDE DEF q
<1>2. q \in Seq(S) /\ Len(q) = Len(s) + 1 /\ Len(s) \in Nat /\ q[1] = d
      /\ \A i \in 1 .. Len(s) : q[i + 1] = s[i]
  BY <1>1 DEF InFront
<1>3. J \in SUBSET Nat /\ J # {}
  OBVIOUS
<1>4. Min(J) \in J /\ \A y \in J : Min(J) <= y
  BY <1>3, MinOfNat
<1> DEFINE j == Min(J)
<1>5. j \in 1 .. Len(s) /\ s[j] = e /\ \A y \in 1 .. Len(s) : s[y] = e => j <= y
  BY <1>4
<1>6. RemoveFirst(s, e) = RemoveAt(s, j)
  BY <1>3 DEF RemoveFirst, SelectInSeq
<1> HIDE DEF j, J
<1>7. j + 1 \in I
  BY <1>2, <1>5
<1>8. \A i \in I : j + 1 <= i
  <2> SUFFICES ASSUME NEW i \in I PROVE j + 1 <= i
    OBVIOUS
  <2>1. i \in 1 .. Len(s) + 1 /\ q[i] = e /\ i # 1
    BY <1>2
  <2>2. i - 1 \in 1 .. Len(s) /\ (i - 1) + 1 = i
    BY <1>2, <2>1
  <2>3. s[i - 1] = e
    BY <1>2, <2>1, <2>2
  <2>4. j <= i - 1
    BY <1>5, <2>2, <2>3
  <2> QED BY <1>5, <2>1, <2>4
<1>9. Min(I) = j + 1
  <2>1. I \in SUBSET Nat /\ I # {}
    BY <1>7
  <2>2. Min(I) \in I /\ \A y \in I : Min(I) <= y
    BY <2>1, MinOfNat
  <2>3. Min(I) <= j + 1 /\ j + 1 <= Min(I) /\ Min(I) \in Nat /\ j + 1 \in Nat
    BY <1>7, <1>8, <2>1, <2>2
  <2> HIDE DEF I
  <2> QED BY <2>3
<1>10. RemoveFirst(q, e) = RemoveAt(q, j + 1)
  BY <1>7, <1>9 DEF RemoveFirst, SelectInSeq
<1>11. j + 1 \in 1 .. Len(q)
  BY <1>2, <1>5
<1> DEFINE a == RemoveAt(s, j)
           b == RemoveAt(q, j + 1)
           t == <<d>> \o a
<1>12. /\ a \in Seq(S) /\ Len(a) = Len(s) - 1
       /\ \A i \in 1 .. Len(s) - 1 : a[i] = IF i < j THEN s[i] ELSE s[i + 1]
  BY <1>5, RemoveAtFacts
<1>13. /\ b \in Seq(S) /\ Len(b) = Len(q) - 1
       /\ \A i \in 1 .. Len(q) - 1 : b[i] = IF i < j + 1 THEN q[i] ELSE q[i + 1]
  BY <1>2, <1>11, RemoveAtFacts
<1>14. InFront(t, d, a, S)
  BY <1>12, FrontView
<1> HIDE DEF a, b, t
<1>15. t \in Seq(S) /\ Len(t) = Len(s) /\ t[1] = d
       /\ \A i \in 1 .. Len(s) - 1 : t[i + 1] = a[i]
  BY <1>2, <1>12, <1>14 DEF InFront
<1>16. ASSUME NEW i \in 1 .. Len(s) PROVE b[i] = t[i]
  <2>1. b[i] = IF i < j + 1 THEN q[i] ELSE q[i + 1]
    BY <1>2, <1>13
  <2>2. CASE i = 1
    BY <1>2, <1>5, <1>15, <2>1, <2>2
  <2>3. CASE i # 1
    <3>1. i - 1 \in 1 .. Len(s) - 1 /\ (i - 1) + 1 = i /\ i - 1 \in 1 .. Len(s)
      BY <1>2, <2>3
    <3>2. t[i] = IF i - 1 < j THEN s[i - 1] ELSE s[i]
      BY <1>12, <1>15, <3>1
    <3>3. q[i] = s[i - 1] /\ q[i + 1] = s[i]
      BY <1>2, <3>1
    <3> QED BY <1>5, <2>1, <3>1, <3>2, <3>3
  <2> QED BY <2>2, <2>3
<1>17. b = t
  BY <1>2, <1>13, <1>15, <1>16, SameEntries
<1> QED BY <1>6, <1>10, <1>17 DEF a, b, t, q

(* process_lock_release takes the owner out of the queue.                  *)
LEMMA PassQueue ==
  ASSUME TypeOK, NEW l \in Locks
  PROVE  (IF OwnerAfter(l, 1) = Nobody THEN <<>> ELSE <<OwnerAfter(l, 1)>> \o WaitersAfter(l, 1))
           = wl[l]
<1>1. wl[l] \in Seq(Clients) /\ Len(wl[l]) \in Nat
  BY DEF TypeOK
<1>2. CASE Len(wl[l]) = 0
  <2>1. wl[l] = <<>> /\ OwnerAfter(l, 1) = Nobody
    BY <1>1, <1>2 DEF OwnerAfter
  <2> QED BY <2>1
<1>3. CASE Len(wl[l]) >= 1
  <2>1. OwnerAfter(l, 1) = wl[l][1] /\ wl[l][1] \in Clients
    BY <1>1, <1>3 DEF OwnerAfter
  <2> DEFINE w == SubSeq(wl[l], 2, Len(wl[l]))
             q == <<wl[l][1]>> \o w
  <2>2. w \in Seq(Clients) /\ Len(w) = Len(wl[l]) - 1
        /\ \A j \in 1 .. Len(wl[l]) - 1 : w[j] = wl[l][j + 1]
    BY <1>1, <1>3
  <2>3. InFront(q, wl[l][1], w, Clients)
    BY <2>1, <2>2, FrontView
  <2> HIDE DEF q, w
  <2>4. q \in Seq(Clients) /\ Len(q) = Len(wl[l])
        /\ \A k \in 1 .. Len(wl[l]) : q[k] = wl[l][k]
    <3>1. q \in Seq(Clients) /\ Len(q) = Len(wl[l]) /\ q[1] = wl[l][1]
          /\ DOMAIN w = 1 .. Len(wl[l]) - 1 /\ DOMAIN q = 1 .. Len(wl[l])
      BY <1>1, <2>2, <2>3 DEF InFront
    <3>2. ASSUME NEW k \in 1 .. Len(wl[l]), k # 1 PROVE q[k] = wl[l][k]
      <4>1. k - 1 \in 1 .. Len(wl[l]) - 1 /\ (k - 1) + 1 = k
        BY <1>1, <3>2
      <4>2. q[k] = w[k - 1]
        BY <2>3, <3>1, <3>2 DEF InFront
      <4> QED BY <2>2, <4>1, <4>2
    <3> QED BY <3>1, <3>2
  <2>5. q = wl[l]
    BY <1>1, <2>4, SameEntries
  <2>6. WaitersAfter(l, 1) = w
    BY DEF WaitersAfter, w
  <2>7. OwnerAfter(l, 1) # Nobody /\ <<OwnerAfter(l, 1)>> \o WaitersAfter(l, 1) = q
    BY <2>1, <2>6, NullAssumption DEF q
  <2> QED BY <2>5, <2>7
<1> QED BY <1>1, <1>2, <1>3

(* The abstract queues of a state.                                         *)
Queues == [l \in Locks |-> QueueOf(l)]

(* The queue of a lock is its owner followed by its wait list.             *)
LEMMA QueuesType ==
  ASSUME TypeOK
  PROVE  /\ Queues \in [Locks -> Seq(Clients)]
         /\ \A l \in Locks : Queues[l] = QueueOf(l)
<1>1. ASSUME NEW l \in Locks PROVE QueueOf(l) \in Seq(Clients)
  <2>1. wl[l] \in Seq(Clients) /\ owner[l] \in Clients \cup {Nobody}
    BY DEF TypeOK
  <2>2. owner[l] \in Clients => <<owner[l]>> \o wl[l] \in Seq(Clients)
    BY <2>1
  <2> QED BY <2>1, <2>2 DEF QueueOf
<1> QED BY <1>1 DEF Queues

(* handle_acquire of a free lock: the client is alone in the queue.        *)
LEMMA AcquireFreeQueues ==
  ASSUME IInv, NEW c \in Clients, NEW l \in Locks, AcquireFree(c, l)
  PROVE  /\ QueueOf(l) = <<>>
         /\ Queues' = [Queues EXCEPT ![l] = Append(@, c)]
<1>1. TypeOK /\ NoWaitersLeft
  BY DEF IInv
<1>2. owner[l] = Nobody /\ owner' = [owner EXCEPT ![l] = c] /\ wl' = wl
  BY DEF AcquireFree
<1>3. wl[l] = <<>>
  BY <1>1, <1>2 DEF NoWaitersLeft
<1>4. QueueOf(l) = <<>>
  BY <1>2 DEF QueueOf
<1>5. QueueOf(l)' = <<c>>
  BY <1>1, <1>2, <1>3, NullAssumption DEF QueueOf, TypeOK
<1>6. \A m \in Locks : m # l => QueueOf(m)' = QueueOf(m)
  BY <1>1, <1>2 DEF QueueOf, TypeOK
<1>7. Append(<<>>, c) = <<c>>
  OBVIOUS
<1> QED BY <1>4, <1>5, <1>6, <1>7 DEF Queues

(* ... of a lock that is taken: the client is last in its queue.           *)
LEMMA AcquireBusyQueues ==
  ASSUME IInv, NEW c \in Clients, NEW l \in Locks, AcquireBusy(c, l)
  PROVE  /\ QueueOf(l) # <<>> /\ Head(QueueOf(l)) # c
         /\ Queues' = [Queues EXCEPT ![l] = Append(@, c)]
<1>1. TypeOK
  BY DEF IInv
<1>2. owner[l] # Nobody /\ owner[l] # c /\ owner' = owner /\ wl' = [wl EXCEPT ![l] = Append(@, c)]
  BY DEF AcquireBusy
<1>3. owner[l] \in Clients /\ wl[l] \in Seq(Clients)
  BY <1>1, <1>2 DEF TypeOK
<1>4. QueueOf(l) = <<owner[l]>> \o wl[l]
  BY <1>2 DEF QueueOf
<1>5. InFront(QueueOf(l), owner[l], wl[l], Clients)
  BY <1>3, <1>4, FrontView
<1>6. QueueOf(l) # <<>> /\ Head(QueueOf(l)) = owner[l]
  BY <1>5 DEF InFront
<1>7. QueueOf(l)' = <<owner[l]>> \o Append(wl[l], c)
  BY <1>1, <1>2 DEF QueueOf, TypeOK
<1>8. <<owner[l]>> \o Append(wl[l], c) = Append(<<owner[l]>> \o wl[l], c)
  BY <1>3
<1>9. \A m \in Locks : m # l => QueueOf(m)' = QueueOf(m)
  BY <1>1, <1>2 DEF QueueOf, TypeOK
<1> QED BY <1>2, <1>4, <1>6, <1>7, <1>8, <1>9 DEF Queues

(* handle_release: the client gives up the first place it has.             *)
LEMMA ReleaseQueues ==
  ASSUME IInv, NEW c \in Clients, NEW l \in Locks, Release(c, l)
  PROVE  /\ \E i \in DOMAIN QueueOf(l) : QueueOf(l)[i] = c
         /\ Queues' = [Queues EXCEPT ![l] = RemoveFirst(@, c)]
<1>1. TypeOK /\ ListsAgree /\ NoWaitersLeft
  BY DEF IInv
<1>2. wl[l] \in Seq(Clients)
  BY <1>1 DEF TypeOK
<1>3. CASE owner[l] = c
  <2>1. /\ owner' = [owner EXCEPT ![l] = OwnerAfter(l, 1)]
        /\ wl' = [wl EXCEPT ![l] = WaitersAfter(l, 1)]
    BY <1>3 DEF Release, ReleaseOwned
  <2>2. QueueOf(l) = <<c>> \o wl[l]
    BY <1>3, NullAssumption DEF QueueOf
  <2>3. QueueOf(l)' = wl[l]
    <3>1. owner'[l] = OwnerAfter(l, 1) /\ wl'[l] = WaitersAfter(l, 1)
      BY <1>1, <2>1 DEF TypeOK
    <3> QED BY <1>1, <3>1, PassQueue DEF QueueOf
  <2>4. RemoveFirst(<<c>> \o wl[l], c) = wl[l]
    BY <1>2, RemoveFirstHead
  <2>5. \A m \in Locks : m # l => QueueOf(m)' = QueueOf(m)
    BY <1>1, <2>1 DEF QueueOf, TypeOK
  <2>6. InFront(<<c>> \o wl[l], c, wl[l], Clients)
    BY <1>2, FrontView
  <2>7. \E i \in DOMAIN QueueOf(l) : QueueOf(l)[i] = c
    BY <2>2, <2>6 DEF InFront
  <2> QED BY <2>2, <2>3, <2>4, <2>5, <2>7 DEF Queues
<1>4. CASE owner[l] # c
  <2>1. owner' = owner /\ wl' = [wl EXCEPT ![l] = RemoveFirst(@, c)]
    BY <1>4 DEF Release, ReleaseWaiting
  <2>2. PICK k \in DOMAIN wl[l] : wl[l][k] = c
    <3>1. Count(c, wl[l]) # 0
      BY <1>1, <1>4, Counts DEF Release, ListsAgree
    <3> QED BY <1>2, <3>1, PlacesFinite
  <2>3. owner[l] # Nobody
    BY <1>1, <2>2 DEF NoWaitersLeft
  <2>4. owner[l] \in Clients
    BY <1>1, <2>3 DEF TypeOK
  <2>5. QueueOf(l) = <<owner[l]>> \o wl[l]
    BY <2>3 DEF QueueOf
  <2>6. QueueOf(l)' = <<owner[l]>> \o RemoveFirst(wl[l], c)
    BY <1>1, <2>1, <2>3 DEF QueueOf, TypeOK
  <2>7. RemoveFirst(<<owner[l]>> \o wl[l], c) = <<owner[l]>> \o RemoveFirst(wl[l], c)
    BY <1>2, <1>4, <2>2, <2>4, RemoveFirstBehind
  <2>8. \A m \in Locks : m # l => QueueOf(m)' = QueueOf(m)
    BY <1>1, <2>1 DEF QueueOf, TypeOK
  <2>9. InFront(QueueOf(l), owner[l], wl[l], Clients)
    BY <1>2, <2>4, <2>5, FrontView
  <2>10. \E i \in DOMAIN QueueOf(l) : QueueOf(l)[i] = c
    BY <2>2, <2>9 DEF InFront
  <2> QED BY <2>5, <2>6, <2>7, <2>8, <2>10 DEF Queues
<1> QED BY <1>3, <1>4

(* client_disconnect_cb for a client that waits for nothing: it is taken   *)
(* out of every queue, and nobody else is.                                 *)
LEMMA DisconnectQueues ==
  ASSUME IInv, NEW c \in Clients, \A l \in Locks : ~Waits(c, l), ClientDisconnect(c)
  PROVE  Queues' = [l \in Locks |-> Excluding(Queues[l], {c})]
<1>1. TypeOK /\ ListsAgree /\ NoWaitersLeft
  BY DEF IInv
<1> SUFFICES ASSUME NEW l \in Locks
             PROVE  QueueOf(l)' = Excluding(QueueOf(l), {c})
  BY DEF Queues
<1>2. /\ owner'[l] = OwnerAfter(l, ll[c][l])
      /\ wl'[l] = WaitersAfter(l, ll[c][l])
  BY DEF ClientDisconnect
<1>3. wl[l] \in Seq(Clients) /\ owner[l] \in Clients \cup {Nobody}
  BY <1>1 DEF TypeOK
<1>4. \A i \in DOMAIN wl[l] : wl[l][i] # c
  BY DEF Waits
<1>5. ll[c][l] = IF owner[l] = c THEN 1 ELSE 0
  <2>1. Count(c, wl[l]) = 0
    BY <1>3, <1>4, PlacesFinite
  <2> QED BY <1>1, <2>1 DEF ListsAgree
<1>6. CASE owner[l] = c
  <2>1. QueueOf(l)' = wl[l]
    BY <1>1, <1>2, <1>5, <1>6, PassQueue DEF QueueOf
  <2> DEFINE q == <<c>> \o wl[l]
  <2>2. QueueOf(l) = q
    BY <1>6, NullAssumption DEF QueueOf
  <2>3. InFront(q, c, wl[l], Clients)
    BY <1>3, FrontView
  <2>4. SubSeq(q, 2, Len(q)) = wl[l]
    BY <1>3
  <2> HIDE DEF q
  <2>5. /\ q \in Seq(Clients) /\ 1 \in 0 .. Len(q)
        /\ \A i \in 1 .. 1 : q[i] \in {c}
        /\ \A i \in 1 + 1 .. Len(q) : q[i] \notin {c}
    <3>1. q \in Seq(Clients) /\ Len(q) = Len(wl[l]) + 1 /\ Len(wl[l]) \in Nat /\ q[1] = c
      BY <2>3 DEF InFront
    <3>2. ASSUME NEW i \in 2 .. Len(q) PROVE q[i] # c
      <4>1. i \in DOMAIN q /\ i # 1
        BY <3>1
      <4>2. i - 1 \in DOMAIN wl[l] /\ q[i] = wl[l][i - 1]
        BY <2>3, <4>1 DEF InFront
      <4> QED BY <1>4, <4>2
    <3> QED BY <3>1, <3>2
  <2>6. Excluding(q, {c}) = SubSeq(q, 1 + 1, Len(q))
    BY <2>5, ExcludingPrefix
  <2>7. SubSeq(q, 1 + 1, Len(q)) = SubSeq(q, 2, Len(q))
    OBVIOUS
  <2> QED BY <2>1, <2>2, <2>4, <2>6, <2>7
<1>7. CASE owner[l] # c
  <2>1. QueueOf(l)' = QueueOf(l)
    BY <1>1, <1>2, <1>5, <1>7, NoPass DEF QueueOf
  <2> DEFINE q == QueueOf(l)
  <2>2. q \in Seq(Clients) /\ \A i \in 1 .. Len(q) : q[i] # c
    <3>1. CASE owner[l] = Nobody
      BY <3>1 DEF QueueOf
    <3>2. CASE owner[l] # Nobody
      <4>1. InFront(q, owner[l], wl[l], Clients)
        BY <1>3, <3>2, FrontView DEF QueueOf
      <4>2. q \in Seq(Clients) /\ q[1] = owner[l]
        BY <4>1 DEF InFront
      <4>3. ASSUME NEW i \in DOMAIN q, i # 1 PROVE q[i] # c
        <5>1. i - 1 \in DOMAIN wl[l] /\ q[i] = wl[l][i - 1]
          BY <4>1, <4>3 DEF InFront
        <5> QED BY <1>4, <5>1
      <4> HIDE DEF q
      <4> QED BY <1>7, <4>2, <4>3
    <3> QED BY <3>1, <3>2
  <2> HIDE DEF q
  <2>3. /\ 0 \in 0 .. Len(q)
        /\ \A i \in 1 .. 0 : q[i] \in {c}
        /\ \A i \in 0 + 1 .. Len(q) : q[i] \notin {c}
    BY <2>2
  <2>4. Excluding(q, {c}) = SubSeq(q, 0 + 1, Len(q))
    BY <2>2, <2>3, ExcludingPrefix
  <2>5. SubSeq(q, 0 + 1, Len(q)) = q
    BY <2>2
  <2> QED BY <2>1, <2>4, <2>5 DEF q
<1> QED BY <1>6, <1>7

(* Every step of the service is a step of the abstract queues, or leaves   *)
(* them alone.                                                             *)
LEMMA StepImplements ==
  ASSUME "waiter_leaves" \notin Faults, IInv, Next
  PROVE  Abstract!Next \/ Queues' = Queues
<1> USE DEF Queues
<1>0. TypeOK /\ \A l \in Locks : Queues[l] = QueueOf(l)
  BY QueuesType DEF IInv
<1>1. ASSUME NEW c \in Clients, NEW l \in Locks, Acquire(c, l) PROVE Abstract!Next
  <2>1. Abstract!Request(c, l)
    <3>1. CASE AcquireFree(c, l)
      BY <3>1, AcquireFreeQueues DEF Abstract!Request, Abstract!Holds
    <3>2. CASE AcquireBusy(c, l)
      BY <3>2, AcquireBusyQueues DEF Abstract!Request, Abstract!Holds
    <3> QED BY <1>1, <3>1, <3>2 DEF Acquire
  <2> QED BY <2>1 DEF Abstract!Next
<1>2. ASSUME NEW c \in Clients, NEW l \in Locks, Release(c, l) PROVE Abstract!Next
  <2>1. /\ \E i \in DOMAIN QueueOf(l) : QueueOf(l)[i] = c
        /\ Queues' = [Queues EXCEPT ![l] = RemoveFirst(@, c)]
    BY <1>2, ReleaseQueues
  <2>2. Abstract!Withdraw(c, l)
    BY <2>1, SameOperators DEF Abstract!Withdraw
  <2> QED BY <2>2 DEF Abstract!Next
<1>3. ASSUME NEW c \in Clients, \A l \in Locks : ~Waits(c, l), ClientDisconnect(c)
      PROVE  Abstract!Next
  <2>1. Queues' = [l \in Locks |-> Excluding(Queues[l], {c})]
    BY <1>3, DisconnectQueues
  <2>2. Abstract!Leave(c)
    BY <2>1, SameOperators DEF Abstract!Leave
  <2> QED BY <2>2 DEF Abstract!Next
<1>4. ASSUME NEW c \in Clients, NEW l \in Locks, AcquireTwice(c, l) \/ ReleaseUnknown(c, l)
      PROVE  Abstract!Next
  BY <1>3, <1>4 DEF AcquireTwice, ReleaseUnknown, MayLeave
<1>5. ASSUME NEW c \in Clients, Disconnect(c) PROVE Abstract!Next
  BY <1>3, <1>5 DEF Disconnect, MayLeave
<1>6. ASSUME NEW c \in Clients, Transmit(c) \/ TransmitTimeout(c) PROVE Queues' = Queues
  BY <1>6 DEF Transmit, TransmitTimeout, QueueOf
<1>7. CASE Shutdown
  <2>1. Abstract!Restart
    BY <1>7 DEF Shutdown, QueueOf, Abstract!Restart, Abstract!NoQueues
  <2> QED BY <2>1 DEF Abstract!Next
<1> QED BY <1>1, <1>2, <1>4, <1>5, <1>6, <1>7 DEF Next

(* The service implements the abstract queue of every lock: handle_acquire *)
(* puts a client at the end, process_lock_release serves the first, and    *)
(* nobody loses its place by what another client does.                     *)
THEOREM Implements ==
  ASSUME "waiter_leaves" \notin Faults
  PROVE  Spec => FirstComeFirstServed
<1>1. Init => Abstract!Init
  BY DEF Init, Abstract!Init, Abstract!NoQueues, QueueOf
<1>2. IInv /\ [Next]_vars => [Abstract!Next]_([l \in Locks |-> QueueOf(l)])
  <2> SUFFICES ASSUME IInv, [Next]_vars
               PROVE  [Abstract!Next]_([l \in Locks |-> QueueOf(l)])
    OBVIOUS
  <2>1. CASE Next
    BY <2>1, StepImplements DEF Queues
  <2>2. CASE UNCHANGED vars
    BY <2>2 DEF vars, QueueOf
  <2> QED BY <2>1, <2>2
<1>3. Spec => []IInv
  BY Invariant
<1> QED BY <1>1, <1>2, <1>3, PTL DEF Spec, FirstComeFirstServed, Abstract!Spec

-----------------------------------------------------------------------------
(* Messages and queues of messages.                                        *)
LEMMA Messages ==
  /\ \A l \in Locks : Acq(l) \in Requests /\ Rel(l) \in Requests
  /\ \A l, m : Acq(l) # Rel(m) /\ (Acq(l) = Acq(m) => l = m) /\ (Rel(l) = Rel(m) => l = m)
  /\ \A l : Acq(l).type = "ACQUIRE" /\ Acq(l).lock = l
  /\ \A l : Rel(l).type = "RELEASE" /\ Rel(l).lock = l
  /\ \A r \in Requests : /\ r.lock \in Locks
                         /\ r.type = "ACQUIRE" => r = Acq(r.lock)
                         /\ r.type = "RELEASE" => r = Rel(r.lock)
                         /\ r = Acq(r.lock) \/ r = Rel(r.lock)
BY DEF Acq, Rel, Requests

(* No queue is orderly in a simpler way than an empty one.                 *)
LEMMA EmptyQueue ==
  /\ Orderly(<<>>)
  /\ IsInjective(<<>>)
  /\ \A e : ~Has(<<>>, e)
BY DEF Orderly, Has, IsInjective

(* An entry is added at the end of a queue.                                *)
LEMMA HasAppend ==
  ASSUME NEW S, NEW s \in Seq(S), NEW e \in S
  PROVE  /\ Append(s, e) \in Seq(S) /\ Append(s, e) # <<>>
         /\ \A x : Has(Append(s, e), x) <=> Has(s, x) \/ x = e
         /\ IsInjective(s) /\ ~Has(s, e) => IsInjective(Append(s, e))
<1> DEFINE t == Append(s, e)
<1>1. AtEnd(t, e, s, S)
  BY AppendView
<1> HIDE DEF t
<1>2. t \in Seq(S) /\ t # <<>>
  BY <1>1 DEF AtEnd
<1>3. \A x : Has(t, x) <=> Has(s, x) \/ x = e
  BY <1>1 DEF AtEnd, Has
<1>4. ASSUME IsInjective(s), ~Has(s, e) PROVE IsInjective(t)
  BY <1>1, <1>4 DEF AtEnd, Has, IsInjective
<1> QED BY <1>2, <1>3, <1>4 DEF t

(* queue_message, and a message written to the connection.                 *)
LEMMA OrderlyAppend ==
  ASSUME NEW s, Orderly(s), NEW e \in Requests, ~Has(s, e),
         \A l \in Locks : e = Rel(l) => ~Has(s, Acq(l))
  PROVE  Orderly(Append(s, e))
<1> DEFINE t == Append(s, e)
<1>1. s \in Seq(Requests) /\ IsInjective(s)
  BY DEF Orderly
<1>2. AtEnd(t, e, s, Requests)
  BY <1>1, AppendView
<1>3. t \in Seq(Requests) /\ IsInjective(t)
  BY <1>1, HasAppend
<1> HIDE DEF t
<1>4. ASSUME NEW l \in Locks, NEW i \in DOMAIN t, NEW j \in DOMAIN t,
             t[i] = Rel(l), t[j] = Acq(l)
      PROVE  i < j
  <2>1. i # j
    BY <1>4, Messages
  <2>2. CASE i = Len(s) + 1
    <3>1. e = Rel(l) /\ j \in DOMAIN s /\ s[j] = Acq(l)
      BY <1>2, <1>4, <2>1, <2>2 DEF AtEnd
    <3> QED BY <3>1 DEF Has
  <2>3. CASE i # Len(s) + 1
    <3>1. i \in DOMAIN s /\ s[i] = Rel(l) /\ i < Len(s) + 1
      BY <1>2, <1>4, <2>3 DEF AtEnd
    <3>2. CASE j = Len(s) + 1
      BY <3>1, <3>2
    <3>3. CASE j # Len(s) + 1
      <4>1. j \in DOMAIN s /\ s[j] = Acq(l)
        BY <1>2, <1>4, <3>3 DEF AtEnd
      <4> QED BY <3>1, <4>1 DEF Orderly
    <3> QED BY <3>2, <3>3
  <2> QED BY <2>2, <2>3
<1>5. Orderly(t)
  BY <1>3, <1>4 DEF Orderly
<1> QED BY <1>5 DEF t

(* The first entry of a queue is taken out.                                *)
LEMMA HasTail ==
  ASSUME NEW S, NEW s \in Seq(S), s # <<>>, IsInjective(s)
  PROVE  /\ Head(s) \in S /\ Has(s, Head(s))
         /\ Tail(s) \in Seq(S) /\ IsInjective(Tail(s))
         /\ \A x : Has(Tail(s), x) <=> Has(s, x) /\ x # Head(s)
         /\ Len(s) > 1 <=> Tail(s) # <<>>
<1> DEFINE t == Tail(s)
           n == Len(s)
<1>1. /\ t \in Seq(S) /\ DOMAIN t = 1 .. n - 1
      /\ Head(s) = s[1] /\ 1 \in DOMAIN s /\ Head(s) \in S
      /\ \A k \in DOMAIN t : k + 1 \in DOMAIN s /\ t[k] = s[k + 1]
      /\ \A i \in DOMAIN s : i = 1 \/ (i - 1 \in DOMAIN t /\ t[i - 1] = s[i])
  BY TailView
<1>2. n > 1 <=> t # <<>>
  <2>1. n \in Nat /\ Len(t) = n - 1
    OBVIOUS
  <2> HIDE DEF t
  <2>2. t = <<>> <=> Len(t) = 0
    BY <1>1, EmptySeq
  <2> QED BY <2>1, <2>2
<1>3. DOMAIN t \subseteq Nat /\ DOMAIN s \subseteq Nat
  OBVIOUS
<1> HIDE DEF t, n
<1>4. IsInjective(t)
  <2>1. \A a, b \in DOMAIN t : t[a] = t[b] => a + 1 = b + 1
    BY <1>1 DEF IsInjective
  <2>2. \A a, b \in DOMAIN t : a + 1 = b + 1 => a = b
    BY <1>3
  <2> QED BY <2>1, <2>2 DEF IsInjective
<1>5. ASSUME NEW x PROVE Has(t, x) <=> Has(s, x) /\ x # Head(s)
  <2>1. ASSUME Has(t, x) PROVE Has(s, x) /\ x # Head(s)
    <3>1. PICK k \in DOMAIN t : t[k] = x
      BY <2>1 DEF Has
    <3>2. k + 1 \in DOMAIN s /\ s[k + 1] = x
      BY <1>1, <3>1
    <3>3. k \in 1 .. n - 1
      BY <1>1
    <3>4. k + 1 # 1
      BY <3>3
    <3> QED BY <1>1, <3>2, <3>4 DEF Has, IsInjective
  <2>2. ASSUME Has(s, x), x # Head(s) PROVE Has(t, x)
    BY <1>1, <2>2 DEF Has
  <2> QED BY <2>1, <2>2
<1>6. Has(s, Head(s))
  BY <1>1 DEF Has
<1> QED BY <1>1, <1>2, <1>4, <1>5, <1>6 DEF t, n

(* A queue without its first message is orderly, and no RELEASE of a lock  *)
(* is behind the ACQUIRE that was first.                                   *)
LEMMA OrderlyTail ==
  ASSUME NEW s, Orderly(s), s # <<>>
  PROVE  /\ Orderly(Tail(s)) /\ Head(s) \in Requests /\ Has(s, Head(s))
         /\ \A x : Has(Tail(s), x) <=> Has(s, x) /\ x # Head(s)
         /\ Len(s) > 1 <=> Tail(s) # <<>>
         /\ \A l \in Locks : Head(s) = Acq(l) => ~Has(s, Rel(l))
<1> DEFINE t == Tail(s)
           n == Len(s)
<1>1. s \in Seq(Requests) /\ IsInjective(s)
  BY DEF Orderly
<1>2. /\ Head(s) \in Requests /\ Has(s, Head(s))
      /\ t \in Seq(Requests) /\ IsInjective(t)
      /\ \A x : Has(t, x) <=> Has(s, x) /\ x # Head(s)
      /\ n > 1 <=> t # <<>>
  BY <1>1, HasTail
<1>3. /\ DOMAIN t = 1 .. n - 1 /\ Head(s) = s[1] /\ 1 \in DOMAIN s
      /\ \A k \in DOMAIN t : k + 1 \in DOMAIN s /\ t[k] = s[k + 1]
  BY <1>1, TailView
<1>4. DOMAIN s = 1 .. n /\ n \in Nat
  BY <1>1
<1> HIDE DEF t, n
<1>5. ASSUME NEW l \in Locks, NEW i \in DOMAIN t, NEW j \in DOMAIN t,
             t[i] = Rel(l), t[j] = Acq(l)
      PROVE  i < j
  <2>1. i + 1 < j + 1
    BY <1>3, <1>5 DEF Orderly
  <2> QED BY <1>3, <1>4, <2>1
<1>6. Orderly(t)
  BY <1>2, <1>5 DEF Orderly
<1>7. ASSUME NEW l \in Locks, Head(s) = Acq(l), Has(s, Rel(l)) PROVE FALSE
  <2>1. PICK i \in DOMAIN s : s[i] = Rel(l)
    BY <1>7 DEF Has
  <2>2. i < 1
    BY <1>3, <1>7, <2>1 DEF Orderly
  <2> QED BY <1>4, <2>2
<1> QED BY <1>2, <1>6, <1>7 DEF t, n

(* GNUNET_LOCKMANAGER_cancel_request takes an ACQUIRE out of the queue.    *)
LEMMA OrderlyRemove ==
  ASSUME NEW s, Orderly(s), NEW e, Has(s, e)
  PROVE  /\ Orderly(RemoveFirst(s, e))
         /\ \A x : Has(RemoveFirst(s, e), x) <=> Has(s, x) /\ x # e
         /\ Head(s) # e => RemoveFirst(s, e) # <<>>
<1> DEFINE I == {i \in 1 .. Len(s) : s[i] = e}
<1>1. s \in Seq(Requests) /\ IsInjective(s) /\ DOMAIN s = 1 .. Len(s) /\ Len(s) \in Nat
  BY DEF Orderly
<1>2. PICK k \in 1 .. Len(s) : s[k] = e
  BY <1>1 DEF Has
<1>3. I \in SUBSET Nat /\ I # {}
  BY <1>2
<1>4. Min(I) = k
  <2>1. Min(I) \in I
    BY <1>3, MinOfNat
  <2> QED BY <1>1, <1>2, <2>1 DEF IsInjective
<1>5. RemoveFirst(s, e) = RemoveAt(s, k)
  BY <1>3, <1>4 DEF RemoveFirst, SelectInSeq
<1> HIDE DEF I
<1> DEFINE t == RemoveAt(s, k)
           n == Len(s)
<1>6. t \in Seq(Requests) /\ Len(t) = n - 1
      /\ \A j \in 1 .. n - 1 : t[j] = IF j < k THEN s[j] ELSE s[j + 1]
  BY <1>1, RemoveAtFacts
<1>7. DOMAIN t = 1 .. n - 1
  BY <1>6
<1> HIDE DEF t
<1> DEFINE up(j) == IF j < k THEN j ELSE j + 1
<1>8. \A j \in DOMAIN t : up(j) \in DOMAIN s /\ up(j) # k /\ t[j] = s[up(j)]
  BY <1>1, <1>6, <1>7
<1>9. \A i, j \in DOMAIN t : (up(i) < up(j) => i < j) /\ (up(i) = up(j) => i = j)
  BY <1>1, <1>7
<1>10. \A i \in DOMAIN s : i # k => \E j \in DOMAIN t : up(j) = i
  <2> SUFFICES ASSUME NEW i \in DOMAIN s, i # k PROVE \E j \in DOMAIN t : up(j) = i
    OBVIOUS
  <2>1. CASE i < k
    BY <1>1, <1>7, <2>1
  <2>2. CASE ~(i < k)
    <3>1. i - 1 \in DOMAIN t /\ up(i - 1) = i
      BY <1>1, <1>7, <2>2
    <3> QED BY <3>1
  <2> QED BY <2>1, <2>2
<1> HIDE DEF up
<1>11. IsInjective(t)
  BY <1>1, <1>8, <1>9 DEF IsInjective
<1>12. Orderly(t)
  BY <1>6, <1>8, <1>9, <1>11 DEF Orderly
<1>13. \A x : Has(t, x) <=> Has(s, x) /\ x # e
  <2> SUFFICES ASSUME NEW x PROVE Has(t, x) <=> Has(s, x) /\ x # e
    OBVIOUS
  <2>1. ASSUME Has(t, x) PROVE Has(s, x) /\ x # e
    BY <1>1, <1>2, <1>8, <2>1 DEF Has, IsInjective
  <2>2. ASSUME Has(s, x), x # e PROVE Has(t, x)
    BY <1>2, <1>8, <1>10, <2>2 DEF Has
  <2> QED BY <2>1, <2>2
<1>14. Head(s) # e => t # <<>>
  <2> SUFFICES ASSUME Head(s) # e PROVE t # <<>>
    OBVIOUS
  <2>1. 1 \in DOMAIN s /\ 1 # k
    BY <1>1, <1>2
  <2>2. \E j \in DOMAIN t : TRUE
    BY <1>10, <2>1
  <2> QED BY <2>2
<1> QED BY <1>5, <1>12, <1>13, <1>14 DEF t
(* release_n_retry_iterator queues an ACQUIRE for every lock of lost.      *)
Retries(p) == [i \in DOMAIN p |-> Acq(p[i])]

Requeued(t, q, lost, p) ==
  /\ Orderly(t)
  /\ \A l \in Locks : /\ Has(t, Acq(l)) <=> Has(q, Acq(l)) \/ l \in lost
                      /\ Has(t, Rel(l)) <=> Has(q, Rel(l))
  /\ p = <<>> => t = q
  /\ p # <<>> => t # <<>>

(* The queue is orderly again if it had no ACQUIRE for a lost lock.        *)
LEMMA OrderlyRetry ==
  ASSUME NEW q, Orderly(q), NEW lost \in SUBSET Locks, \A l \in lost : ~Has(q, Acq(l)),
         NEW p \in SetToSeqs(lost), NEW t, t = q \o Retries(p)
  PROVE  Requeued(t, q, lost, p)
<1> DEFINE N == Cardinality(lost)
           r == Retries(p)
           n == Len(q)
<1>1. IsFiniteSet(lost) /\ N \in Nat
  BY LocksAssumption, FS_Subset, FS_CardinalityType
<1>2. p \in [1 .. N -> lost] /\ \A i, j \in 1 .. N : p[i] = p[j] => i = j
  BY DEF SetToSeqs
<1>3. \A l \in lost : \E i \in 1 .. N : p[i] = l
  <2>1. p \in Injection(1 .. N, lost)
    BY <1>2 DEF Injection, IsInjective
  <2>2. Cardinality(1 .. N) = N
    BY <1>1, FS_Interval
  <2>3. p \in Surjection(1 .. N, lost)
    BY <1>1, <2>1, <2>2, FS_Injection
  <2> QED BY <2>3 DEF Surjection
<1>4. q \in Seq(Requests) /\ IsInjective(q) /\ n \in Nat /\ DOMAIN q = 1 .. n
  BY DEF Orderly
<1>5. DOMAIN p = 1 .. N /\ \A i \in 1 .. N : p[i] \in lost /\ p[i] \in Locks
  BY <1>2
<1> HIDE DEF N, n
<1>6. r \in Seq(Requests) /\ Len(r) = N /\ \A i \in 1 .. N : r[i] = Acq(p[i])
  <2>1. \A i \in 1 .. N : Acq(p[i]) \in Requests
    BY <1>5, Messages
  <2>2. r = [i \in 1 .. N |-> Acq(p[i])]
    BY <1>5 DEF Retries
  <2> QED BY <1>1, <2>1, <2>2
<1> HIDE DEF r
<1>7. /\ t \in Seq(Requests) /\ Len(t) = n + N
      /\ \A i \in 1 .. n + N : t[i] = IF i <= n THEN q[i] ELSE r[i - n]
  <2>1. t = q \o r /\ n = Len(q)
    BY DEF r, n
  <2>2. /\ q \o r \in Seq(Requests) /\ Len(q \o r) = Len(q) + Len(r)
        /\ \A i \in 1 .. Len(q) + Len(r) :
             (q \o r)[i] = IF i <= Len(q) THEN q[i] ELSE r[i - Len(q)]
    BY <1>4, <1>6, ConcatProperties
  <2> QED BY <1>6, <2>1, <2>2
<1>8. DOMAIN t = 1 .. n + N
  BY <1>7
<1>9. \A i \in DOMAIN q : i \in DOMAIN t /\ t[i] = q[i]
  BY <1>1, <1>4, <1>7, <1>8
<1>10. \A i \in 1 .. N : n + i \in DOMAIN t /\ t[n + i] = Acq(p[i])
  <2> SUFFICES ASSUME NEW i \in 1 .. N PROVE n + i \in DOMAIN t /\ t[n + i] = Acq(p[i])
    OBVIOUS
  <2>1. n + i \in 1 .. n + N /\ ~(n + i <= n) /\ (n + i) - n = i
    BY <1>1, <1>4
  <2> QED BY <1>6, <1>7, <1>8, <2>1
<1>11. \A k \in DOMAIN t : k \in DOMAIN q \/ \E i \in 1 .. N : k = n + i
  <2> SUFFICES ASSUME NEW k \in DOMAIN t, k \notin DOMAIN q PROVE \E i \in 1 .. N : k = n + i
    OBVIOUS
  <2>1. k - n \in 1 .. N /\ k = n + (k - n)
    BY <1>1, <1>4, <1>8
  <2> QED BY <2>1
<1>12. ASSUME NEW i \in DOMAIN q, NEW j \in 1 .. N PROVE q[i] # Acq(p[j]) /\ i < n + j
  <2>1. ~Has(q, Acq(p[j]))
    BY <1>5
  <2> QED BY <1>1, <1>4, <2>1 DEF Has
<1>13. IsInjective(t)
  <2> SUFFICES ASSUME NEW a \in DOMAIN t, NEW b \in DOMAIN t, t[a] = t[b] PROVE a = b
    BY DEF IsInjective
  <2>1. CASE a \in DOMAIN q
    BY <1>4, <1>9, <1>10, <1>11, <1>12, <2>1 DEF IsInjective
  <2>2. CASE a \notin DOMAIN q
    <3>1. PICK i \in 1 .. N : a = n + i
      BY <1>11, <2>2
    <3>2. b \notin DOMAIN q
      BY <1>9, <1>10, <1>12, <3>1
    <3>3. PICK j \in 1 .. N : b = n + j
      BY <1>11, <3>2
    <3>4. Acq(p[i]) = Acq(p[j])
      BY <1>10, <3>1, <3>3
    <3>5. p[i] = p[j]
      BY <3>4 DEF Acq
    <3> QED BY <1>2, <3>1, <3>3, <3>5
  <2> QED BY <2>1, <2>2
<1>14. ASSUME NEW l \in Locks, NEW i \in DOMAIN t, NEW j \in DOMAIN t,
              t[i] = Rel(l), t[j] = Acq(l)
       PROVE  i < j
  <2>1. i \in DOMAIN q /\ q[i] = Rel(l)
    BY <1>9, <1>10, <1>11, <1>14, Messages
  <2>2. CASE j \in DOMAIN q
    BY <1>9, <1>14, <2>1, <2>2 DEF Orderly
  <2>3. CASE j \notin DOMAIN q
    BY <1>11, <1>12, <2>1, <2>3
  <2> QED BY <2>2, <2>3
<1>15. Orderly(t)
  BY <1>7, <1>13, <1>14 DEF Orderly
<1>16. ASSUME NEW x PROVE Has(t, x) <=> Has(q, x) \/ \E l \in lost : x = Acq(l)
  <2>1. ASSUME Has(t, x) PROVE Has(q, x) \/ \E l \in lost : x = Acq(l)
    BY <1>5, <1>9, <1>10, <1>11, <2>1 DEF Has
  <2>2. ASSUME Has(q, x) PROVE Has(t, x)
    BY <1>9, <2>2 DEF Has
  <2>3. ASSUME NEW l \in lost, x = Acq(l) PROVE Has(t, x)
    BY <1>3, <1>10, <2>3 DEF Has
  <2> QED BY <2>1, <2>2, <2>3
<1>17. p = <<>> => t = q
  <2> SUFFICES ASSUME p = <<>> PROVE t = q
    OBVIOUS
  <2>1. N = 0
    <3>1. 1 \notin 1 .. N
      BY <1>5
    <3> QED BY <1>1, <3>1
  <2>2. Len(t) = n /\ \A i \in 1 .. n : t[i] = q[i]
    BY <1>4, <1>7, <1>9, <2>1
  <2>3. Len(t) = Len(q) /\ \A i \in 1 .. Len(t) : t[i] = q[i]
    BY <2>2 DEF n
  <2> QED BY <1>4, <1>7, <2>3, SameEntries
<1>18. p # <<>> => t # <<>>
  <2> SUFFICES ASSUME t = <<>> PROVE p = <<>>
    OBVIOUS
  <2>1. N = 0
    <3>1. n + N = 0
      BY <1>7, EmptySeq
    <3> QED BY <1>1, <1>4, <3>1
  <2> QED BY <1>2, <2>1
<1>19. ASSUME NEW l \in Locks
       PROVE  /\ Has(t, Acq(l)) <=> Has(q, Acq(l)) \/ l \in lost
              /\ Has(t, Rel(l)) <=> Has(q, Rel(l))
  BY <1>16, Messages
<1> QED BY <1>15, <1>17, <1>18, <1>19 DEF Requeued

-----------------------------------------------------------------------------
(* The types of the variables of this module.                              *)
SysTypes ==
  /\ status \in [Clients -> [Locks -> {"none", "RELEASE", "SUCCESS"}]]
  /\ sent \in [Clients -> [Locks -> BOOLEAN]]
  /\ mq \in [Clients -> Seq(Requests)]
  /\ th \in [Clients -> {"none", "armed", "dead"}]
  /\ replies \in [Clients -> BOOLEAN]
  /\ cb \in [Clients -> SUBSET Locks]
  /\ conn \in [Clients -> ConnStates]
  /\ toService \in [Clients -> Seq(Requests)]
  /\ toClient \in [Clients -> Seq(Locks)]
  /\ restarts \in 0 .. MaxRestarts

ClientInv(c) ==
  /\ QueuesInv(c)
  /\ \A l \in Locks : RequestInv(c, l) /\ ConnInv(c, l) /\ ServiceInv(c, l)

(* The invariant as the types, the invariant of the service and one part   *)
(* for each client.                                                        *)
LEMMA SysInvParts == SysInv <=> SysTypes /\ IInv /\ \A c \in Clients : ClientInv(c)
BY DEF SysInv, SysTypeOK, SysTypes, ClientInv, QueuesInv, Orderly, IInv

(* The same in the next state.                                             *)
LEMMA NewSysInv ==
  ASSUME SysTypes', IInv', \A c \in Clients : ClientInv(c)'
  PROVE  SysInv'
BY DEF SysInv, SysTypeOK, SysTypes, ClientInv, QueuesInv, Orderly, IInv

(* A step leaves what concerns client d alone; at most, d owns more.       *)
Untouched(d) ==
  /\ status'[d] = status[d] /\ sent'[d] = sent[d] /\ mq'[d] = mq[d] /\ th'[d] = th[d]
  /\ conn'[d] = conn[d] /\ toService'[d] = toService[d] /\ toClient'[d] = toClient[d]
  /\ ll'[d] = ll[d]
  /\ \A l \in Locks : Owns(d, l) => Owns(d, l)'

(* What is left alone stays true.                                          *)
LEMMA UntouchedInv ==
  ASSUME NEW d \in Clients, ClientInv(d), Untouched(d)
  PROVE  ClientInv(d)'
<1>1. QueuesInv(d)'
  BY DEF ClientInv, QueuesInv, Untouched
<1>2. ASSUME NEW l \in Locks PROVE RequestInv(d, l)' /\ ConnInv(d, l)'
  BY DEF ClientInv, RequestInv, ConnInv, Untouched
<1>3. ASSUME NEW l \in Locks PROVE ServiceInv(d, l)'
  <2>1. ServiceInv(d, l) /\ (Releasing(d, l)' <=> Releasing(d, l)) /\ (Owns(d, l) => Owns(d, l)')
    BY DEF ClientInv, Untouched, Releasing
  <2> QED BY <2>1 DEF ServiceInv, Untouched
<1> QED BY <1>1, <1>2, <1>3 DEF ClientInv

(* A step that concerns one client preserves the invariant if it does so   *)
(* for that client.                                                        *)
LEMMA OneClient ==
  ASSUME SysInv, NEW c \in Clients, SysTypes', IInv', ClientInv(c)',
         \A d \in Clients \ {c} : Untouched(d)
  PROVE  SysInv'
<1>1. \A d \in Clients : ClientInv(d)'
  BY SysInvParts, UntouchedInv
<1> QED BY <1>1, NewSysInv

(* Nothing changes in the service: its invariant, and what it owes others. *)
LEMMA ServiceUntouched ==
  ASSUME IInv, UNCHANGED vars
  PROVE  IInv' /\ ll' = ll /\ owner' = owner /\ told' = told
BY DEF IInv, TypeOK, ListsAgree, NoWaitersLeft, MutualExclusion, ToldOnce, vars

-----------------------------------------------------------------------------
(* The library: one lemma for each action.                                 *)

(* GNUNET_LOCKMANAGER_acquire_lock                                         *)
LEMMA AcquireLockInv ==
  ASSUME SysInv, NEW c \in Clients, NEW l \in Locks, AcquireLock(c, l)
  PROVE  SysInv'
<1>0. SysTypes /\ IInv /\ ClientInv(c)
  BY SysInvParts
<1>1. /\ conn[c] # "leaving" /\ status[c][l] = "none"
      /\ status' = [status EXCEPT ![c][l] = "RELEASE"]
      /\ sent' = [sent EXCEPT ![c][l] = FALSE]
      /\ mq' = [mq EXCEPT ![c] = @ \o <<Acq(l)>>]
      /\ th' = [th EXCEPT ![c] = NotifyTransmitReady(@)]
      /\ UNCHANGED <<vars, replies, cb, conn, toService, toClient, restarts>>
  BY DEF AcquireLock, QueueMessages, netVars
<1>2. IInv' /\ ll' = ll /\ owner' = owner /\ told' = told
  BY <1>0, <1>1, ServiceUntouched
<1>3. mq[c] \in Seq(Requests) /\ Acq(l) \in Requests /\ mq[c] \o <<Acq(l)>> = Append(mq[c], Acq(l))
  BY <1>0, Messages DEF SysTypes
<1>4. /\ \A m \in Locks : /\ status'[c][m] = IF m = l THEN "RELEASE" ELSE status[c][m]
                          /\ sent'[c][m] = IF m = l THEN FALSE ELSE sent[c][m]
      /\ mq'[c] = Append(mq[c], Acq(l)) /\ conn'[c] = conn[c]
      /\ toService'[c] = toService[c] /\ toClient'[c] = toClient[c]
  BY <1>0, <1>1, <1>3 DEF SysTypes
<1>5. \A d \in Clients \ {c} : Untouched(d)
  BY <1>0, <1>1, <1>2 DEF Untouched, SysTypes, Owns
<1>6. ~Has(mq[c], Acq(l))
  BY <1>0, <1>1 DEF ClientInv, RequestInv
<1>7. /\ Orderly(mq'[c]) /\ mq'[c] # <<>> /\ mq'[c] \in Seq(Requests)
      /\ \A x : Has(mq'[c], x) <=> Has(mq[c], x) \/ x = Acq(l)
  <2>1. Orderly(mq[c])
    BY <1>0 DEF ClientInv, QueuesInv
  <2> QED BY <1>3, <1>4, <1>6, <2>1, OrderlyAppend, HasAppend, Messages
<1>8. SysTypes'
  <2>1. NotifyTransmitReady(th[c]) \in {"none", "armed", "dead"}
    BY <1>0 DEF NotifyTransmitReady, SysTypes
  <2>2. status' \in [Clients -> [Locks -> {"none", "RELEASE", "SUCCESS"}]]
    BY <1>0, <1>1 DEF SysTypes
  <2>3. sent' \in [Clients -> [Locks -> BOOLEAN]]
    BY <1>0, <1>1 DEF SysTypes
  <2>4. mq' \in [Clients -> Seq(Requests)] /\ th' \in [Clients -> {"none", "armed", "dead"}]
    BY <1>0, <1>1, <1>4, <1>7, <2>1 DEF SysTypes
  <2> QED BY <1>0, <1>1, <2>2, <2>3, <2>4 DEF SysTypes
<1>9. QueuesInv(c)'
  BY <1>0, <1>4, <1>7 DEF ClientInv, QueuesInv
<1>10. ASSUME NEW m \in Locks PROVE RequestInv(c, m)' /\ ConnInv(c, m)' /\ ServiceInv(c, m)'
  <2>1. RequestInv(c, m) /\ ConnInv(c, m) /\ ServiceInv(c, m)
    BY <1>0 DEF ClientInv
  <2>2. /\ Has(mq'[c], Acq(m)) <=> Has(mq[c], Acq(m)) \/ m = l
        /\ Has(mq'[c], Rel(m)) <=> Has(mq[c], Rel(m))
    BY <1>7, Messages
  <2>3. RequestInv(c, m)'
    <3>1. CASE m = l
      <4>1. status'[c][m] = "RELEASE" /\ ~sent'[c][m]
        BY <1>4, <3>1
      <4> QED BY <1>1, <1>4, <2>1, <2>2, <3>1, <4>1 DEF RequestInv
    <3>2. CASE m # l
      BY <1>1, <1>4, <2>1, <2>2, <3>2 DEF RequestInv
    <3> QED BY <3>1, <3>2
  <2>4. ConnInv(c, m)'
    BY <1>1, <1>2, <1>4, <2>1 DEF ConnInv
  <2>5. ServiceInv(c, m)'
    BY <1>1, <1>2, <1>4, <2>1, <2>2 DEF ServiceInv, Releasing, Owns, RequestInv
  <2> QED BY <2>3, <2>4, <2>5
<1> QED BY <1>2, <1>5, <1>8, <1>9, <1>10, OneClient DEF ClientInv

(* GNUNET_LOCKMANAGER_cancel_request of a request whose ACQUIRE is queued. *)
LEMMA CancelQueuedInv ==
  ASSUME SysInv, NEW c \in Clients, NEW l \in Locks, Cancel(c, l), CancelQueued(c, l)
  PROVE  SysInv'
<1>0. SysTypes /\ IInv /\ ClientInv(c)
  BY SysInvParts
<1>1. /\ conn[c] # "leaving" /\ status[c][l] # "none" /\ ~sent[c][l]
      /\ status' = [status EXCEPT ![c][l] = "none"]
      /\ sent' = [sent EXCEPT ![c][l] = FALSE]
      /\ mq' = [mq EXCEPT ![c] = RemoveFirst(@, Acq(l))]
      /\ th' = [th EXCEPT ![c] = IF Head(mq[c]) = Acq(l) THEN "none" ELSE @]
      /\ UNCHANGED <<vars, replies, cb, conn, toService, toClient, restarts>>
  BY DEF Cancel, CancelQueued, netVars
<1>2. IInv' /\ ll' = ll /\ owner' = owner /\ told' = told
  BY <1>0, <1>1, ServiceUntouched
<1>4. /\ \A m \in Locks : /\ status'[c][m] = IF m = l THEN "none" ELSE status[c][m]
                          /\ sent'[c][m] = IF m = l THEN FALSE ELSE sent[c][m]
      /\ mq'[c] = RemoveFirst(mq[c], Acq(l)) /\ conn'[c] = conn[c]
      /\ th'[c] = IF Head(mq[c]) = Acq(l) THEN "none" ELSE th[c]
      /\ toService'[c] = toService[c] /\ toClient'[c] = toClient[c]
  BY <1>0, <1>1 DEF SysTypes
<1>5. \A d \in Clients \ {c} : Untouched(d)
  BY <1>0, <1>1, <1>2 DEF Untouched, SysTypes, Owns
<1>6. Has(mq[c], Acq(l)) /\ Orderly(mq[c])
  BY <1>0, <1>1 DEF ClientInv, RequestInv, QueuesInv
<1>7. /\ Orderly(mq'[c]) /\ (Head(mq[c]) # Acq(l) => mq'[c] # <<>>)
      /\ \A x : Has(mq'[c], x) <=> Has(mq[c], x) /\ x # Acq(l)
  BY <1>4, <1>6, OrderlyRemove
<1>8. SysTypes'
  <2>1. mq'[c] \in Seq(Requests)
    BY <1>7 DEF Orderly
  <2>2. status' \in [Clients -> [Locks -> {"none", "RELEASE", "SUCCESS"}]]
    BY <1>0, <1>1 DEF SysTypes
  <2>3. sent' \in [Clients -> [Locks -> BOOLEAN]]
    BY <1>0, <1>1 DEF SysTypes
  <2>4. mq' \in [Clients -> Seq(Requests)] /\ th' \in [Clients -> {"none", "armed", "dead"}]
    BY <1>0, <1>1, <1>4, <2>1 DEF SysTypes
  <2> QED BY <1>0, <1>1, <2>2, <2>3, <2>4 DEF SysTypes
<1>9. QueuesInv(c)'
  BY <1>0, <1>4, <1>7 DEF ClientInv, QueuesInv
<1>10. ASSUME NEW m \in Locks PROVE RequestInv(c, m)' /\ ConnInv(c, m)' /\ ServiceInv(c, m)'
  <2>1. RequestInv(c, m) /\ ConnInv(c, m) /\ ServiceInv(c, m)
    BY <1>0 DEF ClientInv
  <2>2. /\ Has(mq'[c], Acq(m)) <=> Has(mq[c], Acq(m)) /\ m # l
        /\ Has(mq'[c], Rel(m)) <=> Has(mq[c], Rel(m))
    BY <1>7, Messages
  <2>3. RequestInv(c, m)'
    <3>1. CASE m = l
      <4>1. status'[c][m] = "none" /\ ~sent'[c][m]
        BY <1>4, <3>1
      <4> QED BY <1>1, <1>4, <2>1, <2>2, <3>1, <4>1 DEF RequestInv
    <3>2. CASE m # l
      BY <1>1, <1>4, <2>1, <2>2, <3>2 DEF RequestInv
    <3> QED BY <3>1, <3>2
  <2>4. ConnInv(c, m)'
    BY <1>1, <1>2, <1>4, <2>1 DEF ConnInv
  <2>5. ServiceInv(c, m)'
    BY <1>1, <1>2, <1>4, <2>1, <2>2 DEF ServiceInv, Releasing, Owns, RequestInv
  <2> QED BY <2>3, <2>4, <2>5
<1> QED BY <1>2, <1>5, <1>8, <1>9, <1>10, OneClient DEF ClientInv

(* ... of a lock that was granted.                                         *)
LEMMA CancelSentInv ==
  ASSUME SysInv, "sent" \notin Cancels,
         NEW c \in Clients, NEW l \in Locks, Cancel(c, l), CancelSent(c, l)
  PROVE  SysInv'
<1>0. SysTypes /\ IInv /\ ClientInv(c)
  BY SysInvParts
<1>1. /\ conn[c] # "leaving" /\ status[c][l] = "SUCCESS" /\ sent[c][l]
      /\ status' = [status EXCEPT ![c][l] = "none"]
      /\ sent' = [sent EXCEPT ![c][l] = FALSE]
      /\ mq' = [mq EXCEPT ![c] = @ \o <<Rel(l)>>]
      /\ th' = [th EXCEPT ![c] = NotifyTransmitReady(@)]
      /\ UNCHANGED <<vars, replies, cb, conn, toService, toClient, restarts>>
  <2>1. conn[c] # "leaving" /\ status[c][l] # "none" /\ sent[c][l] /\ Stage(c, l) \in Cancels
    BY DEF Cancel, CancelSent
  <2>2. status[c][l] # "RELEASE"
    BY <2>1 DEF Stage
  <2>3. status[c][l] = "SUCCESS"
    BY <1>0, <2>1, <2>2 DEF SysTypes
  <2> QED BY <2>1, <2>3 DEF Cancel, CancelSent, QueueMessages, netVars
<1>2. IInv' /\ ll' = ll /\ owner' = owner /\ told' = told
  BY <1>0, <1>1, ServiceUntouched
<1>3. mq[c] \in Seq(Requests) /\ Rel(l) \in Requests /\ mq[c] \o <<Rel(l)>> = Append(mq[c], Rel(l))
  BY <1>0, Messages DEF SysTypes
<1>4. /\ \A m \in Locks : /\ status'[c][m] = IF m = l THEN "none" ELSE status[c][m]
                          /\ sent'[c][m] = IF m = l THEN FALSE ELSE sent[c][m]
      /\ mq'[c] = Append(mq[c], Rel(l)) /\ conn'[c] = conn[c]
      /\ toService'[c] = toService[c] /\ toClient'[c] = toClient[c]
  BY <1>0, <1>1, <1>3 DEF SysTypes
<1>5. \A d \in Clients \ {c} : Untouched(d)
  BY <1>0, <1>1, <1>2 DEF Untouched, SysTypes, Owns
<1>6. ~Has(mq[c], Acq(l)) /\ ~Has(mq[c], Rel(l))
  BY <1>0, <1>1 DEF ClientInv, RequestInv
<1>7. /\ Orderly(mq'[c]) /\ mq'[c] # <<>> /\ mq'[c] \in Seq(Requests)
      /\ \A x : Has(mq'[c], x) <=> Has(mq[c], x) \/ x = Rel(l)
  <2>1. Orderly(mq[c])
    BY <1>0 DEF ClientInv, QueuesInv
  <2>2. \A m \in Locks : Rel(l) = Rel(m) => ~Has(mq[c], Acq(m))
    BY <1>6, Messages
  <2>3. Orderly(Append(mq[c], Rel(l)))
    BY <1>3, <1>6, <2>1, <2>2, OrderlyAppend
  <2> QED BY <1>3, <1>4, <2>3, HasAppend
<1>8. SysTypes'
  <2>1. NotifyTransmitReady(th[c]) \in {"none", "armed", "dead"}
    BY <1>0 DEF NotifyTransmitReady, SysTypes
  <2>2. status' \in [Clients -> [Locks -> {"none", "RELEASE", "SUCCESS"}]]
    BY <1>0, <1>1 DEF SysTypes
  <2>3. sent' \in [Clients -> [Locks -> BOOLEAN]]
    BY <1>0, <1>1 DEF SysTypes
  <2>4. mq' \in [Clients -> Seq(Requests)] /\ th' \in [Clients -> {"none", "armed", "dead"}]
    BY <1>0, <1>1, <1>4, <1>7, <2>1 DEF SysTypes
  <2> QED BY <1>0, <1>1, <2>2, <2>3, <2>4 DEF SysTypes
<1>9. QueuesInv(c)'
  BY <1>0, <1>4, <1>7 DEF ClientInv, QueuesInv
<1>10. ASSUME NEW m \in Locks PROVE RequestInv(c, m)' /\ ConnInv(c, m)' /\ ServiceInv(c, m)'
  <2>1. RequestInv(c, m) /\ ConnInv(c, m) /\ ServiceInv(c, m)
    BY <1>0 DEF ClientInv
  <2>2. /\ Has(mq'[c], Rel(m)) <=> Has(mq[c], Rel(m)) \/ m = l
        /\ Has(mq'[c], Acq(m)) <=> Has(mq[c], Acq(m))
    BY <1>7, Messages
  <2>3. RequestInv(c, m)'
    BY <1>1, <1>4, <2>1, <2>2 DEF RequestInv
  <2>4. ConnInv(c, m)'
    BY <1>1, <1>2, <1>4, <2>1 DEF ConnInv
  <2>5. ServiceInv(c, m)'
    <3>1. conn[c] \in ConnStates
      BY <1>0 DEF SysTypes
    <3> QED
      BY <1>1, <1>2, <1>4, <2>1, <2>2, <3>1
         DEF ServiceInv, Releasing, Owns, RequestInv, ConnInv, ConnStates
  <2> QED BY <2>3, <2>4, <2>5
<1> QED BY <1>2, <1>5, <1>8, <1>9, <1>10, OneClient DEF ClientInv

(* handle_replies with a SUCCESS.                                          *)
LEMMA HandleSuccessInv ==
  ASSUME SysInv, NEW c \in Clients, HandleSuccess(c)
  PROVE  SysInv'
<1> DEFINE l == Head(toClient[c])
<1>0. SysTypes /\ IInv /\ ClientInv(c)
  BY SysInvParts
<1>1. /\ toClient[c] # <<>>
      /\ status' = [status EXCEPT ![c][l] = IF @ = "RELEASE" THEN "SUCCESS" ELSE @]
      /\ cb' = [cb EXCEPT ![c] = IF status[c][l] = "RELEASE" THEN @ \cup {l} ELSE @]
      /\ toClient' = [toClient EXCEPT ![c] = Tail(@)]
      /\ UNCHANGED <<vars, sent, mq, th, replies, conn, toService, restarts>>
  BY DEF HandleSuccess
<1>2. IInv' /\ ll' = ll /\ owner' = owner /\ told' = told
  BY <1>0, <1>1, ServiceUntouched
<1>3. /\ l \in Locks /\ Has(toClient[c], l)
      /\ Tail(toClient[c]) \in Seq(Locks) /\ IsInjective(Tail(toClient[c]))
      /\ \A x : Has(Tail(toClient[c]), x) <=> Has(toClient[c], x) /\ x # l
  <2>1. toClient[c] \in Seq(Locks) /\ IsInjective(toClient[c])
    BY <1>0 DEF SysTypes, ClientInv, QueuesInv
  <2> QED BY <1>1, <2>1, HasTail
<1> HIDE DEF l
<1>4. status[c][l] = "RELEASE" /\ sent[c][l]
  BY <1>0, <1>3 DEF ClientInv, RequestInv
<1>5. /\ \A m \in Locks : status'[c][m] = IF m = l THEN "SUCCESS" ELSE status[c][m]
      /\ mq'[c] = mq[c] /\ conn'[c] = conn[c] /\ sent'[c] = sent[c] /\ th'[c] = th[c]
      /\ toService'[c] = toService[c] /\ toClient'[c] = Tail(toClient[c])
  BY <1>0, <1>1, <1>3, <1>4 DEF SysTypes
<1>6. \A d \in Clients \ {c} : Untouched(d)
  BY <1>0, <1>1, <1>2 DEF Untouched, SysTypes, Owns
<1>7. SysTypes'
  <2>1. status' \in [Clients -> [Locks -> {"none", "RELEASE", "SUCCESS"}]]
    BY <1>0, <1>1, <1>3, <1>4 DEF SysTypes
  <2>2. cb' \in [Clients -> SUBSET Locks]
    <3>1. cb[c] \cup {l} \in SUBSET Locks
      BY <1>0, <1>3 DEF SysTypes
    <3>2. cb' = [cb EXCEPT ![c] = cb[c] \cup {l}]
      BY <1>1, <1>4
    <3> QED BY <1>0, <3>1, <3>2 DEF SysTypes
  <2>3. toClient' \in [Clients -> Seq(Locks)]
    BY <1>0, <1>1, <1>3 DEF SysTypes
  <2> QED BY <1>0, <1>1, <2>1, <2>2, <2>3 DEF SysTypes
<1>8. QueuesInv(c)'
  BY <1>0, <1>3, <1>5 DEF ClientInv, QueuesInv
<1>9. ASSUME NEW m \in Locks PROVE RequestInv(c, m)' /\ ConnInv(c, m)' /\ ServiceInv(c, m)'
  <2>1. RequestInv(c, m) /\ ConnInv(c, m) /\ ServiceInv(c, m)
    BY <1>0 DEF ClientInv
  <2>2. conn[c] # "leaving" /\ ~(conn[c] \in {"reset", "down"})
    BY <1>1, <2>1 DEF ConnInv
  <2>3. RequestInv(c, m)'
    <3>1. CASE m = l
      BY <1>3, <1>4, <1>5, <2>1, <3>1 DEF RequestInv
    <3>2. CASE m # l
      BY <1>3, <1>5, <2>1, <3>2 DEF RequestInv
    <3> QED BY <3>1, <3>2
  <2>4. ConnInv(c, m)'
    BY <1>2, <1>5, <2>1, <2>2 DEF ConnInv
  <2>5. ServiceInv(c, m)'
    BY <1>2, <1>3, <1>5, <2>1 DEF ServiceInv, Releasing, Owns
  <2> QED BY <2>3, <2>4, <2>5
<1> QED BY <1>2, <1>6, <1>7, <1>8, <1>9, OneClient DEF ClientInv

(* call_status_cb_task                                                     *)
LEMMA CallStatusCbInv ==
  ASSUME SysInv, NEW c \in Clients, CallStatusCb(c)
  PROVE  SysInv'
<1>0. SysTypes /\ IInv /\ ClientInv(c)
  BY SysInvParts
<1>1. /\ \E l \in cb[c] : cb' = [cb EXCEPT ![c] = @ \ {l}]
      /\ UNCHANGED <<vars, status, sent, mq, th, replies, conn, toService, toClient, restarts>>
  BY DEF CallStatusCb, netVars
<1>2. IInv' /\ ll' = ll /\ owner' = owner /\ told' = told
  BY <1>0, <1>1, ServiceUntouched
<1>3. \A d \in Clients : Untouched(d)
  BY <1>1, <1>2 DEF Untouched, Owns
<1>4. ClientInv(c)'
  BY <1>0, <1>3, UntouchedInv
<1>5. SysTypes'
  <2>1. PICK l \in cb[c] : cb' = [cb EXCEPT ![c] = @ \ {l}]
    BY <1>1
  <2>2. cb' \in [Clients -> SUBSET Locks]
    BY <1>0, <2>1 DEF SysTypes
  <2> QED BY <1>0, <1>1, <2>2 DEF SysTypes
<1> QED BY <1>2, <1>3, <1>4, <1>5, OneClient

(* What release_n_retry_iterator does to the requests of a handle.         *)
LEMMA Retried ==
  ASSUME SysTypes, NEW c \in Clients, NEW isSent, NEW queue, NEW handle,
         Orderly(queue), handle \in {"none", "armed", "dead"},
         handle = "armed" => queue # <<>>,
         \A l \in Locks : Has(queue, Acq(l)) <=> status[c][l] # "none" /\ ~isSent[l],
         \A l \in Locks : status[c][l] = "SUCCESS" => isSent[l],
         ReleaseAndRetry(c, isSent, queue, handle)
  PROVE  /\ mq' \in [Clients -> Seq(Requests)] /\ th' \in [Clients -> {"none", "armed", "dead"}]
         /\ sent' \in [Clients -> [Locks -> BOOLEAN]]
         /\ status' \in [Clients -> [Locks -> {"none", "RELEASE", "SUCCESS"}]]
         /\ \A d \in Clients \ {c} : /\ mq'[d] = mq[d] /\ th'[d] = th[d]
                                     /\ sent'[d] = sent[d] /\ status'[d] = status[d]
         /\ Orderly(mq'[c])
         /\ th'[c] = "armed" => mq'[c] # <<>>
         /\ \A l \in Locks : /\ ~sent'[c][l]
                             /\ status'[c][l] = IF status[c][l] = "none" THEN "none" ELSE "RELEASE"
                             /\ Has(mq'[c], Acq(l)) <=> status[c][l] # "none"
                             /\ Has(mq'[c], Rel(l)) <=> Has(queue, Rel(l))
<1>0. PICK lost : lost = {l \in Locks : status[c][l] # "none" /\ isSent[l]}
  OBVIOUS
<1>1. PICK p \in SetToSeqs(lost) :
        /\ mq' = [mq EXCEPT ![c] = queue \o [i \in DOMAIN p |-> Acq(p[i])]]
        /\ th' = [th EXCEPT ![c] = IF p = <<>> THEN handle ELSE NotifyTransmitReady(handle)]
        /\ sent' = [sent EXCEPT ![c] = [l \in Locks |-> FALSE]]
        /\ status' = [status EXCEPT ![c] = [l \in Locks |-> IF l \in lost THEN "RELEASE" ELSE @[l]]]
  BY <1>0 DEF ReleaseAndRetry
<1>2. \A l \in Locks : l \in lost <=> status[c][l] # "none" /\ isSent[l]
  BY <1>0
<1>2a. lost \in SUBSET Locks /\ \A l \in lost : ~Has(queue, Acq(l))
  BY <1>0
<1>4. PICK t : t = queue \o Retries(p) /\ mq' = [mq EXCEPT ![c] = t]
  BY <1>1 DEF Retries
<1>3. /\ Orderly(t)
      /\ \A l \in Locks : /\ Has(t, Acq(l)) <=> Has(queue, Acq(l)) \/ l \in lost
                          /\ Has(t, Rel(l)) <=> Has(queue, Rel(l))
      /\ p = <<>> => t = queue
      /\ p # <<>> => t # <<>>
  <2>1. t = queue \o Retries(p)
    BY <1>4
  <2>2. lost \in SUBSET Locks
    BY <1>2a
  <2>3. \A l \in lost : ~Has(queue, Acq(l))
    BY <1>2a
  <2>4. Requeued(t, queue, lost, p)
    BY <2>1, <2>2, <2>3, OrderlyRetry
  <2> QED BY <2>4 DEF Requeued
<1>5. mq'[c] = t /\ mq' \in [Clients -> Seq(Requests)]
  BY <1>3, <1>4 DEF SysTypes, Orderly
<1>6. th' \in [Clients -> {"none", "armed", "dead"}] /\ (th'[c] = "armed" => mq'[c] # <<>>)
  BY <1>1, <1>3, <1>5 DEF SysTypes, NotifyTransmitReady
<1>7. sent' \in [Clients -> [Locks -> BOOLEAN]] /\ \A l \in Locks : ~sent'[c][l]
  BY <1>1 DEF SysTypes
<1>8. \A l \in Locks : status'[c][l] = IF l \in lost THEN "RELEASE" ELSE status[c][l]
  BY <1>1 DEF SysTypes
<1>9. status' \in [Clients -> [Locks -> {"none", "RELEASE", "SUCCESS"}]]
  <2>1. [l \in Locks |-> IF l \in lost THEN "RELEASE" ELSE status[c][l]]
          \in [Locks -> {"none", "RELEASE", "SUCCESS"}]
    BY DEF SysTypes
  <2>2. status' = [status EXCEPT ![c] = [l \in Locks |-> IF l \in lost THEN "RELEASE" ELSE status[c][l]]]
    BY <1>1
  <2> QED BY <2>1, <2>2 DEF SysTypes
<1>10. \A d \in Clients \ {c} : /\ mq'[d] = mq[d] /\ th'[d] = th[d]
                                /\ sent'[d] = sent[d] /\ status'[d] = status[d]
  BY <1>1, <1>4 DEF SysTypes
<1>11. ASSUME NEW l \in Locks
       PROVE  /\ status'[c][l] = IF status[c][l] = "none" THEN "none" ELSE "RELEASE"
              /\ Has(mq'[c], Acq(l)) <=> status[c][l] # "none"
              /\ Has(mq'[c], Rel(l)) <=> Has(queue, Rel(l))
  <2>1. status[c][l] \in {"none", "RELEASE", "SUCCESS"}
    BY DEF SysTypes
  <2>2. status'[c][l] = IF status[c][l] = "none" THEN "none" ELSE "RELEASE"
    BY <1>2, <1>8, <2>1
  <2>3. Has(t, Acq(l)) <=> Has(queue, Acq(l)) \/ l \in lost
    BY <1>3
  <2>4. Has(t, Rel(l)) <=> Has(queue, Rel(l))
    BY <1>3
  <2> QED BY <1>2, <1>5, <2>2, <2>3, <2>4
<1> QED BY <1>3, <1>5, <1>6, <1>7, <1>9, <1>10, <1>11

(* handle_replies without a message.                                       *)
LEMMA ServiceGoneInv ==
  ASSUME SysInv, NEW c \in Clients, ServiceGone(c)
  PROVE  SysInv'
<1>0. SysTypes /\ IInv /\ ClientInv(c)
  BY SysInvParts
<1>1. /\ conn[c] \in {"closed", "reset"} /\ toClient[c] = <<>>
      /\ replies' = [replies EXCEPT ![c] = FALSE]
      /\ ReleaseAndRetry(c, sent[c], mq[c], th[c])
      /\ UNCHANGED <<vars, cb, conn, toService, toClient, restarts>>
  BY DEF ServiceGone, netVars
<1>2. IInv' /\ ll' = ll /\ owner' = owner /\ told' = told
  BY <1>0, <1>1, ServiceUntouched
<1>3. /\ Orderly(mq[c]) /\ th[c] \in {"none", "armed", "dead"} /\ (th[c] = "armed" => mq[c] # <<>>)
      /\ \A l \in Locks : Has(mq[c], Acq(l)) <=> status[c][l] # "none" /\ ~sent[c][l]
      /\ \A l \in Locks : status[c][l] = "SUCCESS" => sent[c][l]
  BY <1>0 DEF SysTypes, ClientInv, QueuesInv, RequestInv
<1>4. /\ mq' \in [Clients -> Seq(Requests)] /\ th' \in [Clients -> {"none", "armed", "dead"}]
      /\ sent' \in [Clients -> [Locks -> BOOLEAN]]
      /\ status' \in [Clients -> [Locks -> {"none", "RELEASE", "SUCCESS"}]]
      /\ \A d \in Clients \ {c} : /\ mq'[d] = mq[d] /\ th'[d] = th[d]
                                  /\ sent'[d] = sent[d] /\ status'[d] = status[d]
      /\ Orderly(mq'[c])
      /\ th'[c] = "armed" => mq'[c] # <<>>
      /\ \A l \in Locks : /\ ~sent'[c][l]
                          /\ status'[c][l] = IF status[c][l] = "none" THEN "none" ELSE "RELEASE"
                          /\ Has(mq'[c], Acq(l)) <=> status[c][l] # "none"
                          /\ Has(mq'[c], Rel(l)) <=> Has(mq[c], Rel(l))
  BY <1>0, <1>1, <1>3, Retried
<1>5. \A d \in Clients \ {c} : Untouched(d)
  BY <1>1, <1>2, <1>4 DEF Untouched, Owns
<1>6. SysTypes'
  BY <1>0, <1>1, <1>4 DEF SysTypes
<1>7. conn'[c] = conn[c] /\ toService'[c] = toService[c] /\ toClient'[c] = toClient[c]
  BY <1>1
<1>8. QueuesInv(c)'
  BY <1>0, <1>4, <1>7 DEF ClientInv, QueuesInv
<1>9. ASSUME NEW m \in Locks PROVE RequestInv(c, m)' /\ ConnInv(c, m)' /\ ServiceInv(c, m)'
  <2>1. RequestInv(c, m) /\ ConnInv(c, m) /\ ServiceInv(c, m)
    BY <1>0 DEF ClientInv
  <2>2. toService[c] = <<>> /\ ll[c][m] = 0 /\ ~Has(toClient[c], m)
        /\ ~Has(toService[c], Rel(m)) /\ ~Has(toService[c], Acq(m))
    BY <1>1, <2>1, EmptyQueue DEF ConnInv
  <2>3. RequestInv(c, m)'
    BY <1>4, <1>7, <2>2 DEF RequestInv
  <2>4. ConnInv(c, m)'
    BY <1>1, <1>2, <1>4, <1>7, <2>2 DEF ConnInv
  <2>5. ServiceInv(c, m)'
    BY <1>1, <1>2, <1>7, <2>2 DEF ServiceInv
  <2> QED BY <2>3, <2>4, <2>5
<1> QED BY <1>2, <1>5, <1>6, <1>8, <1>9, OneClient DEF ClientInv

(* The message that transmit_notify takes, and what it makes of the rest.  *)
LEMMA Taken ==
  ASSUME SysTypes, NEW c \in Clients, ClientInv(c), th[c] = "armed"
  PROVE  /\ mq[c] # <<>> /\ Orderly(Tail(mq[c])) /\ Head(mq[c]) \in Requests
         /\ Has(mq[c], Head(mq[c]))
         /\ Len(mq[c]) > 1 <=> Tail(mq[c]) # <<>>
         /\ SentAfter(c) \in [Locks -> BOOLEAN]
         /\ \A m \in Locks :
              /\ SentAfter(c)[m] <=> sent[c][m] \/ Head(mq[c]) = Acq(m)
              /\ Has(Tail(mq[c]), Acq(m)) <=> status[c][m] # "none" /\ ~SentAfter(c)[m]
              /\ Has(Tail(mq[c]), Rel(m)) <=> Has(mq[c], Rel(m)) /\ Head(mq[c]) # Rel(m)
              /\ Head(mq[c]) = Acq(m) => /\ status[c][m] = "RELEASE" /\ ~sent[c][m]
                                         /\ ~Has(mq[c], Rel(m))
<1>1. mq[c] # <<>> /\ Orderly(mq[c])
  BY DEF ClientInv, QueuesInv
<1>2. /\ Orderly(Tail(mq[c])) /\ Head(mq[c]) \in Requests /\ Has(mq[c], Head(mq[c]))
      /\ \A x : Has(Tail(mq[c]), x) <=> Has(mq[c], x) /\ x # Head(mq[c])
      /\ Len(mq[c]) > 1 <=> Tail(mq[c]) # <<>>
      /\ \A m \in Locks : Head(mq[c]) = Acq(m) => ~Has(mq[c], Rel(m))
  BY <1>1, OrderlyTail
<1>3. SentAfter(c) \in [Locks -> BOOLEAN]
  BY DEF SentAfter
<1>4. ASSUME NEW m \in Locks
      PROVE  /\ SentAfter(c)[m] <=> sent[c][m] \/ Head(mq[c]) = Acq(m)
             /\ Has(Tail(mq[c]), Acq(m)) <=> status[c][m] # "none" /\ ~SentAfter(c)[m]
             /\ Has(Tail(mq[c]), Rel(m)) <=> Has(mq[c], Rel(m)) /\ Head(mq[c]) # Rel(m)
             /\ Head(mq[c]) = Acq(m) => /\ status[c][m] = "RELEASE" /\ ~sent[c][m]
                                        /\ ~Has(mq[c], Rel(m))
  <2>1. RequestInv(c, m) /\ status[c][m] \in {"none", "RELEASE", "SUCCESS"} /\ sent[c][m] \in BOOLEAN
    BY DEF ClientInv, SysTypes
  <2>2. Head(mq[c]) = Acq(m) => Has(mq[c], Acq(m))
    BY <1>2
  <2>3. Head(mq[c]) = Acq(m) => status[c][m] = "RELEASE" /\ ~sent[c][m]
    BY <2>1, <2>2 DEF RequestInv
  <2>4. SentAfter(c)[m] <=> sent[c][m] \/ (status[c][m] # "none" /\ Head(mq[c]) = Acq(m))
    BY DEF SentAfter
  <2>5. SentAfter(c)[m] <=> sent[c][m] \/ Head(mq[c]) = Acq(m)
    BY <2>3, <2>4
  <2>6. Has(Tail(mq[c]), Acq(m)) <=> Has(mq[c], Acq(m)) /\ Head(mq[c]) # Acq(m)
    BY <1>2
  <2>7. Has(Tail(mq[c]), Acq(m)) <=> status[c][m] # "none" /\ ~SentAfter(c)[m]
    BY <2>1, <2>5, <2>6 DEF RequestInv
  <2>8. Has(Tail(mq[c]), Rel(m)) <=> Has(mq[c], Rel(m)) /\ Head(mq[c]) # Rel(m)
    BY <1>2
  <2> QED BY <1>2, <2>3, <2>5, <2>7, <2>8
<1> QED BY <1>1, <1>2, <1>3, <1>4

(* transmit_notify on an open connection.                                  *)
LEMMA TransmitReadyInv ==
  ASSUME SysInv, NEW c \in Clients, TransmitReady(c)
  PROVE  SysInv'
<1> DEFINE e == Head(mq[c])
<1>0. SysTypes /\ IInv /\ ClientInv(c)
  BY SysInvParts
<1>1. /\ th[c] = "armed" /\ conn[c] = "open"
      /\ toService' = [toService EXCEPT ![c] = Append(@, e)]
      /\ mq' = [mq EXCEPT ![c] = Tail(@)]
      /\ th' = [th EXCEPT ![c] = IF Len(mq[c]) > 1 THEN "armed" ELSE "none"]
      /\ sent' = [sent EXCEPT ![c] = SentAfter(c)]
      /\ replies' = [replies EXCEPT ![c] = TRUE]
      /\ UNCHANGED <<vars, status, cb, conn, toClient, restarts>>
  BY DEF TransmitReady, TransmitNotify
<1>2. IInv' /\ ll' = ll /\ owner' = owner /\ told' = told
  BY <1>0, <1>1, ServiceUntouched
<1>3. /\ mq[c] # <<>> /\ Orderly(Tail(mq[c])) /\ e \in Requests
      /\ Len(mq[c]) > 1 <=> Tail(mq[c]) # <<>>
      /\ SentAfter(c) \in [Locks -> BOOLEAN]
  BY <1>0, <1>1, Taken
<1>3a. Has(mq[c], e)
  BY <1>0, <1>1, Taken
<1>4. \A m \in Locks :
        /\ SentAfter(c)[m] <=> sent[c][m] \/ e = Acq(m)
        /\ Has(Tail(mq[c]), Acq(m)) <=> status[c][m] # "none" /\ ~SentAfter(c)[m]
        /\ Has(Tail(mq[c]), Rel(m)) <=> Has(mq[c], Rel(m)) /\ e # Rel(m)
        /\ e = Acq(m) => status[c][m] = "RELEASE" /\ ~sent[c][m] /\ ~Has(mq[c], Rel(m))
  BY <1>0, <1>1, Taken
<1> HIDE DEF e
<1>5. /\ mq'[c] = Tail(mq[c]) /\ th'[c] = (IF Len(mq[c]) > 1 THEN "armed" ELSE "none")
      /\ sent'[c] = SentAfter(c) /\ toService'[c] = Append(toService[c], e)
      /\ status'[c] = status[c] /\ conn'[c] = "open" /\ toClient'[c] = toClient[c]
  BY <1>0, <1>1 DEF SysTypes
<1>6. ~Has(toService[c], e) /\ \A m \in Locks : e = Rel(m) => ~Has(toService[c], Acq(m))
  <2>1. \A m \in Locks : e = Rel(m) => ~Has(toService[c], Acq(m)) /\ ~Has(toService[c], e)
    BY <1>0, <1>3a DEF ClientInv, RequestInv
  <2>2. \A m \in Locks : e = Acq(m) => ~Has(toService[c], e)
    BY <1>0, <1>4 DEF ClientInv, RequestInv
  <2>3. \E m \in Locks : e = Acq(m) \/ e = Rel(m)
    BY <1>3, Messages
  <2> QED BY <2>1, <2>2, <2>3
<1>7. /\ Orderly(toService'[c])
      /\ \A x : Has(toService'[c], x) <=> Has(toService[c], x) \/ x = e
  <2>1. Orderly(toService[c]) /\ toService[c] \in Seq(Requests)
    BY <1>0 DEF ClientInv, QueuesInv, SysTypes
  <2>2. Orderly(Append(toService[c], e))
    BY <1>3, <1>6, <2>1, OrderlyAppend
  <2>3. \A x : Has(Append(toService[c], e), x) <=> Has(toService[c], x) \/ x = e
    BY <1>3, <2>1, HasAppend
  <2> QED BY <1>5, <2>2, <2>3
<1>8. SysTypes'
  <2>1. Tail(mq[c]) \in Seq(Requests) /\ toService'[c] \in Seq(Requests)
    BY <1>3, <1>7 DEF Orderly
  <2>2. mq' \in [Clients -> Seq(Requests)] /\ toService' \in [Clients -> Seq(Requests)]
    BY <1>0, <1>1, <1>5, <2>1 DEF SysTypes
  <2>3. sent' \in [Clients -> [Locks -> BOOLEAN]]
    BY <1>0, <1>1, <1>3 DEF SysTypes
  <2>4. th' \in [Clients -> {"none", "armed", "dead"}] /\ replies' \in [Clients -> BOOLEAN]
    BY <1>0, <1>1 DEF SysTypes
  <2> QED BY <1>0, <1>1, <2>2, <2>3, <2>4 DEF SysTypes
<1>9. \A d \in Clients \ {c} : Untouched(d)
  BY <1>0, <1>1, <1>2 DEF Untouched, SysTypes, Owns
<1>10. QueuesInv(c)'
  BY <1>0, <1>3, <1>5, <1>7 DEF ClientInv, QueuesInv
<1>11. ASSUME NEW m \in Locks PROVE RequestInv(c, m)' /\ ConnInv(c, m)' /\ ServiceInv(c, m)'
  <2>1. RequestInv(c, m) /\ ConnInv(c, m) /\ ServiceInv(c, m)
    BY <1>0 DEF ClientInv
  <2>2. /\ sent'[c][m] <=> sent[c][m] \/ e = Acq(m)
        /\ Has(mq'[c], Acq(m)) <=> status[c][m] # "none" /\ ~sent'[c][m]
        /\ Has(mq'[c], Rel(m)) <=> Has(mq[c], Rel(m)) /\ e # Rel(m)
        /\ e = Acq(m) => status[c][m] = "RELEASE" /\ ~sent[c][m] /\ ~Has(mq[c], Rel(m))
        /\ e = Rel(m) => Has(mq[c], Rel(m))
    BY <1>3a, <1>4, <1>5
  <2>3. /\ Has(toService'[c], Acq(m)) <=> Has(toService[c], Acq(m)) \/ e = Acq(m)
        /\ Has(toService'[c], Rel(m)) <=> Has(toService[c], Rel(m)) \/ e = Rel(m)
        /\ ~(e = Acq(m) /\ e = Rel(m))
    BY <1>7, Messages
  <2>4. RequestInv(c, m)'
    BY <1>5, <2>1, <2>2, <2>3 DEF RequestInv
  <2>5. ConnInv(c, m)'
    BY <1>5 DEF ConnInv
  <2>6. ServiceInv(c, m)'
    BY <1>1, <1>2, <1>5, <2>1, <2>2, <2>3 DEF ServiceInv, Releasing, Owns
  <2> QED BY <2>4, <2>5, <2>6
<1> QED BY <1>2, <1>8, <1>9, <1>10, <1>11, OneClient DEF ClientInv

(* ... on a connection that the service closed.                            *)
LEMMA TransmitLostInv ==
  ASSUME SysInv, NEW c \in Clients, TransmitLost(c)
  PROVE  SysInv'
<1> DEFINE e == Head(mq[c])
<1>0. SysTypes /\ IInv /\ ClientInv(c)
  BY SysInvParts
<1>1. /\ th[c] = "armed" /\ conn[c] = "closed"
      /\ mq' = [mq EXCEPT ![c] = Tail(@)]
      /\ th' = [th EXCEPT ![c] = IF Len(mq[c]) > 1 THEN "armed" ELSE "none"]
      /\ sent' = [sent EXCEPT ![c] = SentAfter(c)]
      /\ replies' = [replies EXCEPT ![c] = TRUE]
      /\ conn' = [conn EXCEPT ![c] = "reset"]
      /\ toClient' = [toClient EXCEPT ![c] = <<>>]
      /\ UNCHANGED <<vars, status, cb, toService, restarts>>
  BY DEF TransmitLost, TransmitNotify
<1>2. IInv' /\ ll' = ll /\ owner' = owner /\ told' = told
  BY <1>0, <1>1, ServiceUntouched
<1>3. /\ mq[c] # <<>> /\ Orderly(Tail(mq[c]))
      /\ Len(mq[c]) > 1 <=> Tail(mq[c]) # <<>>
      /\ SentAfter(c) \in [Locks -> BOOLEAN]
  BY <1>0, <1>1, Taken
<1>4. \A m \in Locks :
        /\ SentAfter(c)[m] <=> sent[c][m] \/ e = Acq(m)
        /\ Has(Tail(mq[c]), Acq(m)) <=> status[c][m] # "none" /\ ~SentAfter(c)[m]
        /\ Has(Tail(mq[c]), Rel(m)) <=> Has(mq[c], Rel(m)) /\ e # Rel(m)
        /\ e = Acq(m) => status[c][m] = "RELEASE" /\ ~sent[c][m] /\ ~Has(mq[c], Rel(m))
  BY <1>0, <1>1, Taken
<1> HIDE DEF e
<1>5. /\ mq'[c] = Tail(mq[c]) /\ th'[c] = (IF Len(mq[c]) > 1 THEN "armed" ELSE "none")
      /\ sent'[c] = SentAfter(c) /\ toService'[c] = toService[c]
      /\ status'[c] = status[c] /\ conn'[c] = "reset" /\ toClient'[c] = <<>>
  BY <1>0, <1>1 DEF SysTypes
<1>6. SysTypes'
  <2>1. Tail(mq[c]) \in Seq(Requests)
    BY <1>3 DEF Orderly
  <2>2. mq' \in [Clients -> Seq(Requests)] /\ toClient' \in [Clients -> Seq(Locks)]
    BY <1>0, <1>1, <2>1 DEF SysTypes
  <2>3. sent' \in [Clients -> [Locks -> BOOLEAN]]
    BY <1>0, <1>1, <1>3 DEF SysTypes
  <2>4. th' \in [Clients -> {"none", "armed", "dead"}] /\ replies' \in [Clients -> BOOLEAN]
        /\ conn' \in [Clients -> ConnStates]
    BY <1>0, <1>1 DEF SysTypes, ConnStates
  <2> QED BY <1>0, <1>1, <2>2, <2>3, <2>4 DEF SysTypes
<1>7. \A d \in Clients \ {c} : Untouched(d)
  BY <1>0, <1>1, <1>2 DEF Untouched, SysTypes, Owns
<1>8. QueuesInv(c)'
  BY <1>0, <1>3, <1>5, EmptyQueue DEF ClientInv, QueuesInv
<1>9. ASSUME NEW m \in Locks PROVE RequestInv(c, m)' /\ ConnInv(c, m)' /\ ServiceInv(c, m)'
  <2>1. RequestInv(c, m) /\ ConnInv(c, m) /\ ServiceInv(c, m)
    BY <1>0 DEF ClientInv
  <2>2. /\ sent'[c][m] <=> sent[c][m] \/ e = Acq(m)
        /\ Has(mq'[c], Acq(m)) <=> status[c][m] # "none" /\ ~sent'[c][m]
        /\ Has(mq'[c], Rel(m)) => Has(mq[c], Rel(m))
        /\ e = Acq(m) => status[c][m] = "RELEASE" /\ ~sent[c][m] /\ ~Has(mq[c], Rel(m))
    BY <1>4, <1>5
  <2>3. toService[c] = <<>> /\ ll[c][m] = 0 /\ ~Has(toClient'[c], m)
        /\ ~Has(toService[c], Rel(m)) /\ ~Has(toService[c], Acq(m))
    BY <1>1, <1>5, <2>1, EmptyQueue DEF ConnInv
  <2>4. RequestInv(c, m)'
    BY <1>5, <2>1, <2>2, <2>3 DEF RequestInv
  <2>5. ConnInv(c, m)'
    BY <1>2, <1>5, <2>3 DEF ConnInv
  <2>6. ServiceInv(c, m)'
    BY <1>2, <1>5, <2>3 DEF ServiceInv
  <2> QED BY <2>4, <2>5, <2>6
<1> QED BY <1>2, <1>6, <1>7, <1>8, <1>9, OneClient DEF ClientInv

(* signal_transmit_error                                                   *)
LEMMA TransmitErrorInv ==
  ASSUME SysInv, NEW c \in Clients, TransmitError(c)
  PROVE  SysInv'
<1> DEFINE e == Head(mq[c])
           handle == IF Len(mq[c]) > 1 THEN "dead" ELSE "none"
<1>0. SysTypes /\ IInv /\ ClientInv(c)
  BY SysInvParts
<1>1. /\ th[c] = "armed" /\ conn[c] \in {"closed", "reset"}
      /\ conn' = [conn EXCEPT ![c] = "down"]
      /\ toClient' = [toClient EXCEPT ![c] = <<>>]
      /\ replies' = [replies EXCEPT ![c] = FALSE]
      /\ ReleaseAndRetry(c, SentAfter(c), Tail(mq[c]), handle)
      /\ UNCHANGED <<vars, cb, toService, restarts>>
  BY DEF TransmitError
<1>2. IInv' /\ ll' = ll /\ owner' = owner /\ told' = told
  BY <1>0, <1>1, ServiceUntouched
<1>3. Orderly(Tail(mq[c])) /\ handle \in {"none", "armed", "dead"} /\ handle # "armed"
  BY <1>0, <1>1, Taken
<1>4. \A m \in Locks :
        /\ SentAfter(c)[m] <=> sent[c][m] \/ e = Acq(m)
        /\ Has(Tail(mq[c]), Acq(m)) <=> status[c][m] # "none" /\ ~SentAfter(c)[m]
        /\ Has(Tail(mq[c]), Rel(m)) <=> Has(mq[c], Rel(m)) /\ e # Rel(m)
  BY <1>0, <1>1, Taken
<1> HIDE DEF e, handle
<1>5. \A m \in Locks : status[c][m] = "SUCCESS" => SentAfter(c)[m]
  BY <1>0, <1>4 DEF ClientInv, RequestInv
<1>6. /\ mq' \in [Clients -> Seq(Requests)] /\ th' \in [Clients -> {"none", "armed", "dead"}]
      /\ sent' \in [Clients -> [Locks -> BOOLEAN]]
      /\ status' \in [Clients -> [Locks -> {"none", "RELEASE", "SUCCESS"}]]
      /\ \A d \in Clients \ {c} : /\ mq'[d] = mq[d] /\ th'[d] = th[d]
                                  /\ sent'[d] = sent[d] /\ status'[d] = status[d]
      /\ Orderly(mq'[c])
      /\ th'[c] = "armed" => mq'[c] # <<>>
      /\ \A l \in Locks : /\ ~sent'[c][l]
                          /\ status'[c][l] = IF status[c][l] = "none" THEN "none" ELSE "RELEASE"
                          /\ Has(mq'[c], Acq(l)) <=> status[c][l] # "none"
                          /\ Has(mq'[c], Rel(l)) <=> Has(Tail(mq[c]), Rel(l))
  <2>1. \A m \in Locks : Has(Tail(mq[c]), Acq(m)) <=> status[c][m] # "none" /\ ~SentAfter(c)[m]
    BY <1>4
  <2>2. ReleaseAndRetry(c, SentAfter(c), Tail(mq[c]), handle)
    BY <1>1
  <2> QED BY <1>0, <1>3, <1>5, <2>1, <2>2, Retried
<1>7. conn'[c] = "down" /\ toService'[c] = toService[c] /\ toClient'[c] = <<>>
  BY <1>0, <1>1 DEF SysTypes
<1>8. \A d \in Clients \ {c} : Untouched(d)
  BY <1>0, <1>1, <1>2, <1>6 DEF Untouched, Owns, SysTypes
<1>9. SysTypes'
  <2>1. conn' \in [Clients -> ConnStates] /\ replies' \in [Clients -> BOOLEAN]
    BY <1>0, <1>1 DEF SysTypes, ConnStates
  <2>2. toClient' \in [Clients -> Seq(Locks)]
    BY <1>0, <1>1 DEF SysTypes
  <2> QED BY <1>0, <1>1, <1>6, <2>1, <2>2 DEF SysTypes
<1>10. QueuesInv(c)'
  BY <1>0, <1>6, <1>7, EmptyQueue DEF ClientInv, QueuesInv
<1>11. ASSUME NEW m \in Locks PROVE RequestInv(c, m)' /\ ConnInv(c, m)' /\ ServiceInv(c, m)'
  <2>1. RequestInv(c, m) /\ ConnInv(c, m) /\ ServiceInv(c, m)
    BY <1>0 DEF ClientInv
  <2>2. toService[c] = <<>> /\ ll[c][m] = 0 /\ ~Has(toClient'[c], m)
        /\ ~Has(toService[c], Rel(m)) /\ ~Has(toService[c], Acq(m))
    BY <1>1, <1>7, <2>1, EmptyQueue DEF ConnInv
  <2>3. RequestInv(c, m)'
    BY <1>6, <1>7, <2>2 DEF RequestInv
  <2>4. ConnInv(c, m)'
    BY <1>2, <1>6, <1>7, <2>2 DEF ConnInv
  <2>5. ServiceInv(c, m)'
    BY <1>2, <1>7, <2>2 DEF ServiceInv
  <2> QED BY <2>3, <2>4, <2>5
<1> QED BY <1>2, <1>8, <1>9, <1>10, <1>11, OneClient DEF ClientInv

(* A new connection.                                                       *)
LEMMA ReconnectInv ==
  ASSUME SysInv, NEW c \in Clients, Reconnect(c)
  PROVE  SysInv'
<1>0. SysTypes /\ IInv /\ ClientInv(c)
  BY SysInvParts
<1>1. /\ conn[c] = "down" /\ conn' = [conn EXCEPT ![c] = "open"]
      /\ UNCHANGED <<vars, status, sent, mq, th, replies, cb, toService, toClient, restarts>>
  BY DEF Reconnect, clientVars
<1>2. IInv' /\ ll' = ll /\ owner' = owner /\ told' = told
  BY <1>0, <1>1, ServiceUntouched
<1>3. SysTypes' /\ conn'[c] = "open"
  BY <1>0, <1>1 DEF SysTypes, ConnStates
<1>4. \A d \in Clients \ {c} : Untouched(d)
  BY <1>0, <1>1, <1>2 DEF Untouched, SysTypes, Owns
<1>5. QueuesInv(c)'
  BY <1>0, <1>1 DEF ClientInv, QueuesInv
<1>6. ASSUME NEW m \in Locks PROVE RequestInv(c, m)' /\ ConnInv(c, m)' /\ ServiceInv(c, m)'
  <2>1. RequestInv(c, m) /\ ConnInv(c, m)
    BY <1>0 DEF ClientInv
  <2>2. ll[c][m] = 0 /\ ~Has(toClient[c], m) /\ ~sent[c][m]
    BY <1>1, <2>1, EmptyQueue DEF ConnInv
  <2>3. RequestInv(c, m)'
    BY <1>1, <2>1 DEF RequestInv
  <2>4. ConnInv(c, m)'
    BY <1>3 DEF ConnInv
  <2>5. ServiceInv(c, m)'
    BY <1>1, <1>2, <1>3, <2>1, <2>2 DEF ServiceInv, RequestInv
  <2> QED BY <2>3, <2>4, <2>5
<1> QED BY <1>2, <1>3, <1>4, <1>5, <1>6, OneClient DEF ClientInv

(* GNUNET_LOCKMANAGER_disconnect, of an application that waits for nothing *)
LEMMA DisconnectHandleInv ==
  ASSUME SysInv, "waiter_leaves" \notin Faults, NEW c \in Clients, DisconnectHandle(c)
  PROVE  SysInv'
<1>0. SysTypes /\ IInv /\ ClientInv(c)
  BY SysInvParts
<1>1. /\ conn[c] # "leaving"
      /\ \A l \in Locks : status[c][l] = "RELEASE" => ~sent[c][l]
      /\ conn' = [conn EXCEPT ![c] = IF @ = "open" THEN "leaving" ELSE "open"]
      /\ status' = [status EXCEPT ![c] = [l \in Locks |-> "none"]]
      /\ sent' = [sent EXCEPT ![c] = [l \in Locks |-> FALSE]]
      /\ mq' = [mq EXCEPT ![c] = <<>>]
      /\ th' = [th EXCEPT ![c] = "none"]
      /\ replies' = [replies EXCEPT ![c] = TRUE]
      /\ cb' = [cb EXCEPT ![c] = {}]
      /\ toClient' = [toClient EXCEPT ![c] = <<>>]
      /\ UNCHANGED <<vars, toService, restarts>>
  BY DEF DisconnectHandle
<1>2. IInv' /\ ll' = ll /\ owner' = owner /\ told' = told
  BY <1>0, <1>1, ServiceUntouched
<1>3. /\ \A m \in Locks : status'[c][m] = "none" /\ ~sent'[c][m]
      /\ mq'[c] = <<>> /\ th'[c] = "none" /\ toClient'[c] = <<>> /\ toService'[c] = toService[c]
      /\ conn'[c] = IF conn[c] = "open" THEN "leaving" ELSE "open"
  BY <1>0, <1>1 DEF SysTypes
<1>4. SysTypes'
  <2>1. status' \in [Clients -> [Locks -> {"none", "RELEASE", "SUCCESS"}]]
        /\ sent' \in [Clients -> [Locks -> BOOLEAN]]
    BY <1>0, <1>1 DEF SysTypes
  <2>2. mq' \in [Clients -> Seq(Requests)] /\ toClient' \in [Clients -> Seq(Locks)]
    BY <1>0, <1>1 DEF SysTypes
  <2>3. /\ th' \in [Clients -> {"none", "armed", "dead"}] /\ replies' \in [Clients -> BOOLEAN]
        /\ cb' \in [Clients -> SUBSET Locks] /\ conn' \in [Clients -> ConnStates]
    BY <1>0, <1>1 DEF SysTypes, ConnStates
  <2> QED BY <1>0, <1>1, <2>1, <2>2, <2>3 DEF SysTypes
<1>5. \A d \in Clients \ {c} : Untouched(d)
  BY <1>0, <1>1, <1>2 DEF Untouched, SysTypes, Owns
<1>6. QueuesInv(c)'
  BY <1>0, <1>3, EmptyQueue DEF ClientInv, QueuesInv
<1>7. ASSUME NEW m \in Locks PROVE RequestInv(c, m)' /\ ConnInv(c, m)' /\ ServiceInv(c, m)'
  <2>1. RequestInv(c, m) /\ ConnInv(c, m) /\ ServiceInv(c, m)
    BY <1>0 DEF ClientInv
  <2>2. ~Has(mq'[c], Acq(m)) /\ ~Has(mq'[c], Rel(m)) /\ ~Has(toClient'[c], m)
    BY <1>3, EmptyQueue
  <2>3. ~Has(toService[c], Acq(m))
    BY <1>1, <2>1 DEF RequestInv
  <2>4. RequestInv(c, m)'
    BY <1>3, <2>2, <2>3 DEF RequestInv
  <2>5. ConnInv(c, m)'
    BY <1>3 DEF ConnInv
  <2>6. CASE conn[c] = "open"
    <3>1. ServiceInv(c, m)'
      BY <1>2, <1>3, <2>1, <2>2, <2>6 DEF ServiceInv, Releasing, Owns
    <3> QED BY <2>4, <2>5, <3>1
  <2>7. CASE conn[c] # "open"
    <3>1. ll[c][m] = 0
      BY <1>0, <1>1, <2>1, <2>7 DEF ConnInv, SysTypes, ConnStates
    <3>2. ServiceInv(c, m)'
      BY <1>2, <1>3, <2>2, <3>1 DEF ServiceInv
    <3> QED BY <2>4, <2>5, <3>2
  <2> QED BY <2>6, <2>7
<1> QED BY <1>2, <1>4, <1>5, <1>6, <1>7, OneClient DEF ClientInv

-----------------------------------------------------------------------------
(* The service.  What its steps leave to the clients.                      *)
Kept(d) == ll'[d] = ll[d] /\ \A m \in Locks : Owns(d, m) => Owns(d, m)'

(* handle_acquire adds an entry to the lock list of one client and takes   *)
(* no lock from anybody.                                                   *)
LEMMA AcquireKeeps ==
  ASSUME IInv, NEW c \in Clients, NEW l \in Locks, Acquire(c, l)
  PROVE  /\ IInv' /\ \A d \in Clients \ {c} : Kept(d)
         /\ \A m \in Locks : /\ Owns(c, m) => Owns(c, m)'
                             /\ ll'[c][m] = IF m = l THEN ll[c][l] + 1 ELSE ll[c][m]
<1>1. TypeOK
  BY DEF IInv
<1>2. IInv'
  BY AcquireFreeInv, AcquireBusyInv DEF Acquire
<1>3. told' = told /\ ll' = [ll EXCEPT ![c][l] = @ + 1]
  BY DEF Acquire
<1>4. \A m \in Locks : owner[m] # Nobody => owner'[m] = owner[m]
  BY <1>1 DEF Acquire, AcquireFree, AcquireBusy, TypeOK
<1>5. ASSUME NEW d \in Clients, NEW m \in Locks, Owns(d, m) PROVE Owns(d, m)'
  BY <1>3, <1>4, <1>5, NullAssumption DEF Owns
<1>6. \A d \in Clients \ {c} : ll'[d] = ll[d]
  BY <1>1, <1>3 DEF TypeOK
<1>7. \A m \in Locks : ll'[c][m] = IF m = l THEN ll[c][l] + 1 ELSE ll[c][m]
  BY <1>1, <1>3 DEF TypeOK
<1> QED BY <1>2, <1>5, <1>6, <1>7 DEF Kept

(* handle_release removes one, and takes no lock from any other client.    *)
LEMMA ReleaseKeeps ==
  ASSUME IInv, NEW c \in Clients, NEW l \in Locks, Release(c, l)
  PROVE  /\ IInv' /\ \A d \in Clients \ {c} : Kept(d)
         /\ \A m \in Locks : /\ m # l /\ Owns(c, m) => Owns(c, m)'
                             /\ ll'[c][m] = IF m = l THEN ll[c][l] - 1 ELSE ll[c][m]
<1>1. TypeOK
  BY DEF IInv
<1>2. IInv'
  BY ReleaseOwnedInv, ReleaseWaitingInv
<1>3. ll' = [ll EXCEPT ![c][l] = @ - 1]
  BY DEF Release
<1>4. \A m \in Locks :
        /\ m # l \/ owner[l] # c => owner'[m] = owner[m]
        /\ told'[m] = told[m] \/ (m = l /\ told'[m] = told[m] \ {c})
  BY <1>1 DEF Release, ReleaseOwned, ReleaseWaiting, TypeOK
<1>5. ASSUME NEW d \in Clients, NEW m \in Locks, Owns(d, m), d # c \/ m # l PROVE Owns(d, m)'
  BY <1>4, <1>5 DEF Owns
<1>6. \A d \in Clients \ {c} : ll'[d] = ll[d]
  BY <1>1, <1>3 DEF TypeOK
<1>7. \A m \in Locks : ll'[c][m] = IF m = l THEN ll[c][l] - 1 ELSE ll[c][m]
  BY <1>1, <1>3 DEF TypeOK
<1> QED BY <1>2, <1>5, <1>6, <1>7 DEF Kept

(* client_disconnect_cb removes all entries of a client, and takes no lock *)
(* from any other.                                                         *)
LEMMA DisconnectKeeps ==
  ASSUME IInv, NEW c \in Clients, \A l \in Locks : ~Waits(c, l), ClientDisconnect(c)
  PROVE  /\ IInv' /\ \A d \in Clients \ {c} : Kept(d)
         /\ \A m \in Locks : ll'[c][m] = 0
<1>1. TypeOK /\ ListsAgree
  BY DEF IInv
<1>2. IInv'
  BY ClientDisconnectInv
<1>3. /\ ll' = [ll EXCEPT ![c] = [l \in Locks |-> 0]]
      /\ owner' = [l \in Locks |-> OwnerAfter(l, ll[c][l])]
      /\ told' = [l \in Locks |-> told[l] \ {c}]
  BY DEF ClientDisconnect
<1>4. \A d \in Clients \ {c} : ll'[d] = ll[d]
  BY <1>1, <1>3 DEF TypeOK
<1>5. \A m \in Locks : ll'[c][m] = 0
  BY <1>1, <1>3 DEF TypeOK
<1>6. ASSUME NEW d \in Clients \ {c}, NEW m \in Locks, Owns(d, m) PROVE Owns(d, m)'
  <2>1. Count(c, wl[m]) = 0
    <3>1. wl[m] \in Seq(Clients) /\ \A i \in DOMAIN wl[m] : wl[m][i] # c
      BY <1>1 DEF TypeOK, Waits
    <3> QED BY <3>1, PlacesFinite
  <2>2. owner[m] = d /\ d \in told[m]
    BY <1>6 DEF Owns
  <2>3. ll[c][m] = 0
    BY <1>1, <2>1, <2>2 DEF ListsAgree
  <2>4. owner'[m] = owner[m]
    BY <1>1, <1>3, <2>3, NoPass
  <2> QED BY <1>3, <2>2, <2>4 DEF Owns
<1> QED BY <1>2, <1>4, <1>5, <1>6 DEF Kept

(* The service closes the connection of a client it has nothing left of.   *)
LEMMA CloseInv ==
  ASSUME SysInv, NEW c \in Clients, IInv', Close(c), UNCHANGED <<clientVars, restarts>>,
         \A d \in Clients \ {c} : Kept(d), \A m \in Locks : ll'[c][m] = 0
  PROVE  SysInv'
<1>0. SysTypes /\ IInv /\ ClientInv(c)
  BY SysInvParts
<1>1. /\ conn' = [conn EXCEPT ![c] = IF @ = "leaving" THEN "open" ELSE "closed"]
      /\ toService' = [toService EXCEPT ![c] = <<>>]
      /\ UNCHANGED <<toClient, status, sent, mq, th, replies, cb, restarts>>
  BY DEF Close, clientVars
<1>2. /\ conn'[c] = IF conn[c] = "leaving" THEN "open" ELSE "closed"
      /\ toService'[c] = <<>>
  BY <1>0, <1>1 DEF SysTypes
<1>3. SysTypes'
  <2>1. conn' \in [Clients -> ConnStates]
    BY <1>0, <1>1 DEF SysTypes, ConnStates
  <2>2. toService' \in [Clients -> Seq(Requests)]
    BY <1>0, <1>1 DEF SysTypes
  <2> QED BY <1>0, <1>1, <2>1, <2>2 DEF SysTypes
<1>4. \A d \in Clients \ {c} : Untouched(d)
  BY <1>0, <1>1 DEF Untouched, Kept, SysTypes
<1>5. QueuesInv(c)'
  BY <1>0, <1>1, <1>2, EmptyQueue DEF ClientInv, QueuesInv
<1>6. ASSUME NEW m \in Locks PROVE RequestInv(c, m)' /\ ConnInv(c, m)' /\ ServiceInv(c, m)'
  <2>1. RequestInv(c, m) /\ ConnInv(c, m)
    BY <1>0 DEF ClientInv
  <2>2. ~Has(toService'[c], Acq(m)) /\ ~Has(toService'[c], Rel(m)) /\ ll'[c][m] = 0
    BY <1>2, EmptyQueue
  <2>3. RequestInv(c, m)'
    BY <1>1, <2>1, <2>2 DEF RequestInv
  <2>4. ConnInv(c, m)'
    BY <1>2, <2>2 DEF ConnInv
  <2>5. conn'[c] = "open" => status[c][m] = "none" /\ ~Has(toClient[c], m)
    BY <1>2, <2>1, EmptyQueue DEF ConnInv
  <2>6. ServiceInv(c, m)'
    BY <1>1, <2>2, <2>5 DEF ServiceInv
  <2> QED BY <2>3, <2>4, <2>6
<1> QED BY <1>3, <1>4, <1>5, <1>6, OneClient DEF ClientInv

(* The service has read the first message of a client: what is left.       *)
LEMMA Popped ==
  ASSUME SysTypes, NEW c \in Clients, ClientInv(c), toService[c] # <<>>, Pop(c),
         UNCHANGED <<clientVars, restarts>>
  PROVE  /\ SysTypes' /\ QueuesInv(c)' /\ conn[c] \in {"open", "leaving"}
         /\ Head(toService[c]) \in Requests /\ Has(toService[c], Head(toService[c]))
         /\ toService'[c] = Tail(toService[c])
         /\ \A x : Has(toService'[c], x) <=> Has(toService[c], x) /\ x # Head(toService[c])
         /\ \A l \in Locks : Head(toService[c]) = Acq(l) => ~Has(toService[c], Rel(l))
         /\ \A d \in Clients \ {c} : toService'[d] = toService[d]
         /\ UNCHANGED <<conn, toClient, status, sent, mq, th>>
<1>1. /\ toService' = [toService EXCEPT ![c] = Tail(@)]
      /\ UNCHANGED <<conn, toClient, status, sent, mq, th, replies, cb, restarts>>
  BY DEF Pop, clientVars
<1>2. Orderly(toService[c])
  BY DEF ClientInv, QueuesInv
<1>3. /\ Orderly(Tail(toService[c])) /\ Head(toService[c]) \in Requests
      /\ Has(toService[c], Head(toService[c]))
      /\ \A x : Has(Tail(toService[c]), x) <=> Has(toService[c], x) /\ x # Head(toService[c])
      /\ \A l \in Locks : Head(toService[c]) = Acq(l) => ~Has(toService[c], Rel(l))
  BY <1>2, OrderlyTail
<1>4. toService'[c] = Tail(toService[c]) /\ \A d \in Clients \ {c} : toService'[d] = toService[d]
  BY <1>1 DEF SysTypes
<1>5. SysTypes'
  <2>1. toService' \in [Clients -> Seq(Requests)]
    BY <1>1, <1>3 DEF SysTypes, Orderly
  <2> QED BY <1>1, <2>1 DEF SysTypes
<1>6. QueuesInv(c)'
  BY <1>1, <1>3, <1>4 DEF ClientInv, QueuesInv
<1>7. conn[c] \in {"open", "leaving"}
  <2>1. PICK l \in Locks : TRUE
    BY <1>3, Messages
  <2> QED BY <2>1 DEF ClientInv, ConnInv, SysTypes, ConnStates
<1> QED BY <1>1, <1>3, <1>4, <1>5, <1>6, <1>7

(* handle_acquire                                                          *)
LEMMA ServiceAcquireInv ==
  ASSUME SysInv, "waiter_leaves" \notin Faults, NEW c \in Clients, ServiceAcquire(c)
  PROVE  SysInv'
<1> DEFINE l == Head(toService[c]).lock
<1>0. SysTypes /\ IInv /\ ClientInv(c)
  BY SysInvParts
<1>1. /\ toService[c] # <<>> /\ Head(toService[c]).type = "ACQUIRE"
      /\ (Acquire(c, l) /\ Pop(c)) \/ (AcquireTwice(c, l) /\ Close(c))
      /\ UNCHANGED <<clientVars, restarts>>
  BY DEF ServiceAcquire
<1>2. CASE AcquireTwice(c, l) /\ Close(c)
  <2>1. ClientDisconnect(c) /\ \A m \in Locks : ~Waits(c, m)
    BY <1>2 DEF AcquireTwice, MayLeave
  <2>2. IInv' /\ (\A d \in Clients \ {c} : Kept(d)) /\ \A m \in Locks : ll'[c][m] = 0
    BY <1>0, <2>1, DisconnectKeeps
  <2> QED BY <1>1, <1>2, <2>2, CloseInv
<1>3. CASE Acquire(c, l) /\ Pop(c)
  <2>1. /\ SysTypes' /\ QueuesInv(c)' /\ conn[c] \in {"open", "leaving"}
        /\ Head(toService[c]) \in Requests /\ Has(toService[c], Head(toService[c]))
        /\ \A x : Has(toService'[c], x) <=> Has(toService[c], x) /\ x # Head(toService[c])
        /\ \A m \in Locks : Head(toService[c]) = Acq(m) => ~Has(toService[c], Rel(m))
        /\ \A d \in Clients \ {c} : toService'[d] = toService[d]
        /\ UNCHANGED <<conn, toClient, status, sent, mq, th>>
        /\ toService'[c] = Tail(toService[c])
    BY <1>0, <1>1, <1>3, Popped
  <2>2. l \in Locks /\ Head(toService[c]) = Acq(l)
    BY <1>1, <2>1, Messages
  <2> HIDE DEF l
  <2>3. /\ IInv' /\ \A d \in Clients \ {c} : Kept(d)
        /\ \A m \in Locks : /\ Owns(c, m) => Owns(c, m)'
                            /\ ll'[c][m] = IF m = l THEN ll[c][l] + 1 ELSE ll[c][m]
    BY <1>0, <1>3, <2>2, AcquireKeeps
  <2>4. \A d \in Clients \ {c} : Untouched(d)
    BY <2>1, <2>3 DEF Untouched, Kept
  <2>5. ASSUME NEW m \in Locks
        PROVE  /\ Has(toService'[c], Acq(m)) <=> Has(toService[c], Acq(m)) /\ m # l
               /\ Has(toService'[c], Rel(m)) <=> Has(toService[c], Rel(m))
    BY <2>1, <2>2, Messages
  <2>6. /\ Has(toService[c], Acq(l)) /\ ~Has(toService[c], Rel(l)) /\ ~Has(mq[c], Rel(l))
        /\ status[c][l] = "RELEASE" /\ sent[c][l]
    BY <1>0, <2>1, <2>2 DEF ClientInv, RequestInv
  <2>7. conn[c] = "open"
    BY <1>0, <2>1, <2>2, <2>6 DEF ClientInv, ConnInv
  <2>8. ll[c][l] = 0
    <3>1. ServiceInv(c, l)
      BY <1>0, <2>2 DEF ClientInv
    <3> QED BY <2>6, <2>7, <3>1 DEF ServiceInv, Releasing
  <2>9. ASSUME NEW m \in Locks PROVE RequestInv(c, m)' /\ ConnInv(c, m)' /\ ServiceInv(c, m)'
    <3>1. RequestInv(c, m) /\ ConnInv(c, m) /\ ServiceInv(c, m)
      BY <1>0 DEF ClientInv
    <3>2. RequestInv(c, m)'
      BY <2>1, <2>5, <3>1 DEF RequestInv
    <3>3. ConnInv(c, m)'
      BY <2>1, <2>7 DEF ConnInv
    <3>4. Releasing(c, m)' <=> Releasing(c, m)
      BY <2>1, <2>5 DEF Releasing
    <3>5. CASE m = l
      <4>1. ~Releasing(c, m) /\ ll'[c][m] = 1
        BY <2>3, <2>6, <2>8, <3>5 DEF Releasing
      <4>2. status[c][m] # "SUCCESS" /\ ~Has(toClient[c], m)
        BY <2>6, <3>1, <3>5 DEF RequestInv
      <4>3. sent[c][m] /\ ~Has(toService'[c], Acq(m))
        BY <2>5, <2>6, <3>5
      <4>4. ServiceInv(c, m)'
        BY <2>1, <3>4, <4>1, <4>2, <4>3 DEF ServiceInv
      <4> QED BY <3>2, <3>3, <4>4
    <3>6. CASE m # l
      <4>1. ServiceInv(c, m)'
        BY <2>1, <2>3, <2>5, <3>1, <3>4, <3>6 DEF ServiceInv
      <4> QED BY <3>2, <3>3, <4>1
    <3> QED BY <3>5, <3>6
  <2> QED BY <2>1, <2>3, <2>4, <2>9, OneClient DEF ClientInv
<1> QED BY <1>1, <1>2, <1>3

(* handle_release                                                          *)
LEMMA ServiceReleaseInv ==
  ASSUME SysInv, "waiter_leaves" \notin Faults, NEW c \in Clients, ServiceRelease(c)
  PROVE  SysInv'
<1> DEFINE l == Head(toService[c]).lock
<1>0. SysTypes /\ IInv /\ ClientInv(c)
  BY SysInvParts
<1>1. /\ toService[c] # <<>> /\ Head(toService[c]).type = "RELEASE"
      /\ (Release(c, l) /\ Pop(c)) \/ (ReleaseUnknown(c, l) /\ Close(c))
      /\ UNCHANGED <<clientVars, restarts>>
  BY DEF ServiceRelease
<1>2. CASE ReleaseUnknown(c, l) /\ Close(c)
  <2>1. ClientDisconnect(c) /\ \A m \in Locks : ~Waits(c, m)
    BY <1>2 DEF ReleaseUnknown, MayLeave
  <2>2. IInv' /\ (\A d \in Clients \ {c} : Kept(d)) /\ \A m \in Locks : ll'[c][m] = 0
    BY <1>0, <2>1, DisconnectKeeps
  <2> QED BY <1>1, <1>2, <2>2, CloseInv
<1>3. CASE Release(c, l) /\ Pop(c)
  <2>1. /\ SysTypes' /\ QueuesInv(c)' /\ conn[c] \in {"open", "leaving"}
        /\ Head(toService[c]) \in Requests /\ Has(toService[c], Head(toService[c]))
        /\ \A x : Has(toService'[c], x) <=> Has(toService[c], x) /\ x # Head(toService[c])
        /\ \A d \in Clients \ {c} : toService'[d] = toService[d]
        /\ UNCHANGED <<conn, toClient, status, sent, mq, th>>
        /\ toService'[c] = Tail(toService[c])
    BY <1>0, <1>1, <1>3, Popped
  <2>2. l \in Locks /\ Head(toService[c]) = Rel(l)
    BY <1>1, <2>1, Messages
  <2> HIDE DEF l
  <2>3. /\ IInv' /\ \A d \in Clients \ {c} : Kept(d)
        /\ \A m \in Locks : /\ m # l /\ Owns(c, m) => Owns(c, m)'
                            /\ ll'[c][m] = IF m = l THEN ll[c][l] - 1 ELSE ll[c][m]
    BY <1>0, <1>3, <2>2, ReleaseKeeps
  <2>4. \A d \in Clients \ {c} : Untouched(d)
    BY <2>1, <2>3 DEF Untouched, Kept
  <2>5. ASSUME NEW m \in Locks
        PROVE  /\ Has(toService'[c], Rel(m)) <=> Has(toService[c], Rel(m)) /\ m # l
               /\ Has(toService'[c], Acq(m)) <=> Has(toService[c], Acq(m))
    BY <2>1, <2>2, Messages
  <2>6. Has(toService[c], Rel(l)) /\ ~Has(mq[c], Rel(l)) /\ status[c][l] # "SUCCESS"
        /\ ~Has(toClient[c], l)
    BY <1>0, <2>1, <2>2 DEF ClientInv, RequestInv
  <2>7. ll[c][l] <= 1 /\ ll[c][l] > 0 /\ ll[c][l] \in Nat
    BY <1>0, <1>3, <2>2, Counts DEF ClientInv, ServiceInv, Release, IInv
  <2>8. ll'[c][l] = 0
    BY <2>2, <2>3, <2>7
  <2>9. ASSUME NEW m \in Locks PROVE RequestInv(c, m)' /\ ConnInv(c, m)' /\ ServiceInv(c, m)'
    <3>1. RequestInv(c, m) /\ ConnInv(c, m) /\ ServiceInv(c, m)
      BY <1>0 DEF ClientInv
    <3>2. RequestInv(c, m)'
      BY <2>1, <2>5, <3>1 DEF RequestInv
    <3>3. ConnInv(c, m)'
      BY <2>1, <3>1 DEF ConnInv
    <3>4. CASE m = l
      <4>1. status'[c][m] # "SUCCESS" /\ ~Has(toClient'[c], m) /\ ll'[c][m] = 0
        BY <2>1, <2>6, <2>8, <3>4
      <4>2. ServiceInv(c, m)'
        BY <4>1 DEF ServiceInv
      <4> QED BY <3>2, <3>3, <4>2
    <3>5. CASE m # l
      <4>1. Releasing(c, m)' <=> Releasing(c, m)
        BY <2>1, <2>5, <3>5 DEF Releasing
      <4>2. ServiceInv(c, m)'
        BY <2>1, <2>3, <2>5, <3>1, <3>5, <4>1 DEF ServiceInv
      <4> QED BY <3>2, <3>3, <4>2
    <3> QED BY <3>4, <3>5
  <2> QED BY <2>1, <2>3, <2>4, <2>9, OneClient DEF ClientInv
<1> QED BY <1>1, <1>2, <1>3

(* client_disconnect_cb                                                    *)
LEMMA ServiceDisconnectInv ==
  ASSUME SysInv, "waiter_leaves" \notin Faults, NEW c \in Clients, ServiceDisconnect(c)
  PROVE  SysInv'
<1>0. SysTypes /\ IInv
  BY SysInvParts
<1>1. Close(c) /\ UNCHANGED <<clientVars, restarts>>
  BY DEF ServiceDisconnect
<1>2. CASE c \in cl
  <2>1. ClientDisconnect(c) /\ \A m \in Locks : ~Waits(c, m)
    BY <1>2 DEF ServiceDisconnect, Disconnect, MayLeave
  <2>2. IInv' /\ (\A d \in Clients \ {c} : Kept(d)) /\ \A m \in Locks : ll'[c][m] = 0
    BY <1>0, <2>1, DisconnectKeeps
  <2> QED BY <1>1, <2>2, CloseInv
<1>3. CASE c \notin cl
  <2>1. UNCHANGED vars
    BY <1>3 DEF ServiceDisconnect
  <2>2. IInv' /\ ll' = ll /\ owner' = owner /\ told' = told
    BY <1>0, <2>1, ServiceUntouched
  <2>3. \A d \in Clients \ {c} : Kept(d)
    BY <2>2 DEF Kept, Owns
  <2>4. \A m \in Locks : ll'[c][m] = 0
    BY <1>0, <1>3, <2>2, Counts DEF IInv, ListsAgree
  <2> QED BY <1>1, <2>2, <2>3, <2>4, CloseInv
<1> QED BY <1>2, <1>3

(* An owner has the lock in its lock list.                                 *)
LEMMA OwnerListed ==
  ASSUME IInv, NEW c \in Clients, NEW l \in Locks, owner[l] = c
  PROVE  ll[c][l] # 0
BY Counts DEF IInv, ListsAgree

(* transmit_notify of the service                                          *)
LEMMA ServiceReplyInv ==
  ASSUME SysInv, NEW c \in Clients, ServiceReply(c)
  PROVE  SysInv'
<1>0. SysTypes /\ IInv /\ \A d \in Clients : ClientInv(d)
  BY SysInvParts
<1>l. PICK l \in Locks : l = reply[c]
  BY <1>0 DEF ServiceReply, Transmit, IInv, TypeOK
<1>1. /\ Transmit(c)
      /\ told' = [told EXCEPT ![l] = @ \cup {c}]
      /\ UNCHANGED <<cl, ll, owner, wl>>
      /\ toClient' = [toClient EXCEPT ![c] = IF conn[c] = "open" THEN Append(@, l) ELSE @]
      /\ UNCHANGED <<status, sent, mq, th, replies, cb, conn, toService, restarts>>
  BY <1>l DEF ServiceReply, Transmit, clientVars
<1>2. IInv'
  BY <1>0, <1>1, TransmitInv
<1>3. owner[l] = c /\ c \notin told[l]
  BY <1>0, <1>l DEF IInv, MutualExclusion, ToldOnce
<1>4. Owns(c, l)' /\ \A d \in Clients, m \in Locks : Owns(d, m) => Owns(d, m)'
  BY <1>0, <1>1, <1>3 DEF IInv, TypeOK, Owns
<1>5. /\ toClient[c] \in Seq(Locks)
      /\ toClient'[c] = IF conn[c] = "open" THEN Append(toClient[c], l) ELSE toClient[c]
      /\ \A d \in Clients \ {c} : toClient'[d] = toClient[d]
  BY <1>0, <1>1 DEF SysTypes
<1>6. \A d \in Clients \ {c} : Untouched(d)
  BY <1>1, <1>4, <1>5 DEF Untouched
<1>7. Append(toClient[c], l) \in Seq(Locks)
  BY <1>3, <1>5
<1>8. SysTypes'
  <2>1. toClient' \in [Clients -> Seq(Locks)]
    BY <1>0, <1>1, <1>7 DEF SysTypes
  <2> QED BY <1>0, <1>1, <2>1 DEF SysTypes
<1>9. CASE conn[c] # "open"
  <2>1. Untouched(c)
    BY <1>1, <1>4, <1>5, <1>9 DEF Untouched
  <2> QED BY <1>0, <1>2, <1>6, <1>8, <2>1, UntouchedInv, OneClient
<1>10. CASE conn[c] = "open"
  <2>1. ~Owns(c, l) /\ ll[c][l] # 0
    BY <1>0, <1>3, OwnerListed DEF Owns
  <2>2. RequestInv(c, l) /\ ServiceInv(c, l)
    BY <1>0, <1>3 DEF ClientInv
  <2>3. ~Releasing(c, l) /\ status[c][l] # "SUCCESS" /\ ~Has(toClient[c], l)
    BY <1>10, <2>1, <2>2 DEF ServiceInv
  <2>4. sent[c][l] /\ ~Has(toService[c], Acq(l))
    BY <1>10, <2>1, <2>2, <2>3 DEF ServiceInv
  <2>5. status[c][l] = "RELEASE"
    BY <1>0, <1>3, <2>2, <2>3, <2>4 DEF RequestInv, SysTypes
  <2>6. IsInjective(toClient[c]) /\ QueuesInv(c)
    BY <1>0 DEF ClientInv, QueuesInv
  <2>7. IsInjective(toClient'[c]) /\ \A m : Has(toClient'[c], m) <=> Has(toClient[c], m) \/ m = l
    BY <1>3, <1>5, <1>10, <2>3, <2>6, HasAppend
  <2>8. QueuesInv(c)'
    BY <1>1, <2>6, <2>7 DEF QueuesInv
  <2>9. ASSUME NEW m \in Locks PROVE RequestInv(c, m)' /\ ConnInv(c, m)' /\ ServiceInv(c, m)'
    <3>1. RequestInv(c, m) /\ ConnInv(c, m) /\ ServiceInv(c, m)
      BY <1>0 DEF ClientInv
    <3>2. ConnInv(c, m)'
      BY <1>1, <1>10 DEF ConnInv
    <3>3. CASE m = l
      <4>1. RequestInv(c, m)'
        BY <1>1, <2>3, <2>4, <2>5, <3>1, <3>3 DEF RequestInv, Releasing
      <4>2. ServiceInv(c, m)'
        BY <1>1, <1>4, <2>3, <2>4, <3>1, <3>3 DEF ServiceInv, Releasing
      <4> QED BY <3>2, <4>1, <4>2
    <3>4. CASE m # l
      <4>1. Has(toClient'[c], m) <=> Has(toClient[c], m)
        BY <2>7, <3>4
      <4>2. RequestInv(c, m)'
        BY <1>1, <3>1, <4>1 DEF RequestInv
      <4>3. Releasing(c, m)' <=> Releasing(c, m)
        BY <1>1 DEF Releasing
      <4>4. ServiceInv(c, m)'
        BY <1>1, <1>4, <3>1, <4>1, <4>3 DEF ServiceInv
      <4> QED BY <3>2, <4>2, <4>4
    <3> QED BY <3>3, <3>4
  <2> QED BY <1>2, <1>6, <1>8, <2>8, <2>9, OneClient DEF ClientInv
<1> QED BY <1>9, <1>10

(* shutdown_task, and the service is started again.                        *)
LEMMA ServiceRestartInv ==
  ASSUME SysInv, ServiceRestart
  PROVE  SysInv'
<1>0. SysTypes /\ IInv /\ \A d \in Clients : ClientInv(d)
  BY SysInvParts
<1>1. /\ restarts < MaxRestarts /\ restarts' = restarts + 1 /\ Shutdown
      /\ conn' = [c \in Clients |-> IF conn[c] = "open" THEN "closed"
                                    ELSE IF conn[c] = "leaving" THEN "open" ELSE conn[c]]
      /\ toService' = [c \in Clients |-> <<>>]
      /\ UNCHANGED <<status, sent, mq, th, replies, cb, toClient>>
  BY DEF ServiceRestart, clientVars
<1>2. IInv'
  BY <1>1, ShutdownInv
<1>3. SysTypes'
  <2>1. conn' \in [Clients -> ConnStates]
    BY <1>0, <1>1 DEF SysTypes, ConnStates
  <2>2. toService' \in [Clients -> Seq(Requests)]
    BY <1>1
  <2>3. restarts' \in 0 .. MaxRestarts
    BY <1>0, <1>1, RestartsAssumption DEF SysTypes
  <2> QED BY <1>0, <1>1, <2>1, <2>2, <2>3 DEF SysTypes
<1>4. ASSUME NEW c \in Clients PROVE ClientInv(c)'
  <2>1. /\ toService'[c] = <<>>
        /\ conn'[c] = IF conn[c] = "open" THEN "closed"
                      ELSE IF conn[c] = "leaving" THEN "open" ELSE conn[c]
    BY <1>1
  <2>2. QueuesInv(c)'
    BY <1>0, <1>1, <2>1, EmptyQueue DEF ClientInv, QueuesInv
  <2>3. ASSUME NEW m \in Locks PROVE RequestInv(c, m)' /\ ConnInv(c, m)' /\ ServiceInv(c, m)'
    <3>1. RequestInv(c, m) /\ ConnInv(c, m)
      BY <1>0 DEF ClientInv
    <3>2. ~Has(toService'[c], Acq(m)) /\ ~Has(toService'[c], Rel(m)) /\ ll'[c][m] = 0
      BY <1>1, <2>1, EmptyQueue DEF Shutdown
    <3>3. RequestInv(c, m)'
      BY <1>1, <3>1, <3>2 DEF RequestInv
    <3>4. ConnInv(c, m)'
      BY <1>1, <2>1, <3>1, <3>2 DEF ConnInv
    <3>5. conn'[c] = "open" => status[c][m] = "none" /\ ~Has(toClient[c], m)
      BY <2>1, <3>1, EmptyQueue DEF ConnInv
    <3>6. ServiceInv(c, m)'
      BY <1>1, <3>2, <3>5 DEF ServiceInv
    <3> QED BY <3>3, <3>4, <3>6
  <2> QED BY <2>2, <2>3 DEF ClientInv
<1> QED BY <1>2, <1>3, <1>4, NewSysInv

-----------------------------------------------------------------------------
(* No client has done anything, and the service has nothing.               *)
LEMMA SysInitInv == SysInit => SysInv
<1> SUFFICES ASSUME SysInit PROVE SysInv
  OBVIOUS
<1>1. IInv
  BY InitInv DEF SysInit
<1>2. SysTypes
  <2>1. 0 \in 0 .. MaxRestarts
    BY RestartsAssumption
  <2>2. mq \in [Clients -> Seq(Requests)] /\ toService \in [Clients -> Seq(Requests)]
        /\ toClient \in [Clients -> Seq(Locks)]
    BY DEF SysInit
  <2> QED BY <2>1, <2>2 DEF SysInit, SysTypes, ConnStates
<1>3. ASSUME NEW c \in Clients PROVE ClientInv(c)
  <2>1. mq[c] = <<>> /\ toService[c] = <<>> /\ toClient[c] = <<>> /\ th[c] = "none"
        /\ conn[c] = "open"
    BY DEF SysInit
  <2>2. QueuesInv(c)
    BY <2>1, EmptyQueue DEF QueuesInv
  <2>3. ASSUME NEW l \in Locks PROVE RequestInv(c, l) /\ ConnInv(c, l) /\ ServiceInv(c, l)
    <3>1. status[c][l] = "none" /\ ~sent[c][l] /\ ll[c][l] = 0
      BY DEF SysInit, Init
    <3>2. /\ ~Has(mq[c], Acq(l)) /\ ~Has(mq[c], Rel(l)) /\ ~Has(toService[c], Acq(l))
          /\ ~Has(toService[c], Rel(l)) /\ ~Has(toClient[c], l)
      BY <2>1, EmptyQueue
    <3> QED BY <2>1, <3>1, <3>2 DEF RequestInv, ConnInv, ServiceInv
  <2> QED BY <2>2, <2>3 DEF ClientInv
<1> QED BY <1>1, <1>2, <1>3, SysInvParts

(* No request of an application is cancelled between its ACQUIRE and the   *)
(* answer (see the README for what the code does then), and no waiting     *)
(* client leaves: the library and the service keep the invariant.          *)
THEOREM SysInvariant ==
  ASSUME "waiter_leaves" \notin Faults, "sent" \notin Cancels
  PROVE  SysSpec => []SysInv
<1>1. ASSUME SysInv, SysNext PROVE SysInv'
  <2>1. ASSUME NEW c \in Clients, NEW l \in Locks, AcquireLock(c, l) \/ Cancel(c, l)
        PROVE  SysInv'
    <3>1. Cancel(c, l) => CancelQueued(c, l) \/ CancelSent(c, l)
      BY DEF Cancel
    <3> QED BY <1>1, <2>1, <3>1, AcquireLockInv, CancelQueuedInv, CancelSentInv
  <2>2. ASSUME NEW c \in Clients,
               \/ HandleSuccess(c) \/ CallStatusCb(c) \/ ServiceGone(c)
               \/ TransmitReady(c) \/ TransmitLost(c) \/ TransmitError(c) \/ Reconnect(c)
               \/ DisconnectHandle(c)
        PROVE  SysInv'
    BY <1>1, <2>2, HandleSuccessInv, CallStatusCbInv, ServiceGoneInv, TransmitReadyInv,
       TransmitLostInv, TransmitErrorInv, ReconnectInv, DisconnectHandleInv
  <2>3. ASSUME NEW c \in Clients,
               ServiceAcquire(c) \/ ServiceRelease(c) \/ ServiceDisconnect(c) \/ ServiceReply(c)
        PROVE  SysInv'
    BY <1>1, <2>3, ServiceAcquireInv, ServiceReleaseInv, ServiceDisconnectInv, ServiceReplyInv
  <2>4. ServiceRestart => SysInv'
    BY <1>1, ServiceRestartInv
  <2> QED BY <1>1, <2>1, <2>2, <2>3, <2>4 DEF SysNext
<1>2. ASSUME SysInv, UNCHANGED sysVars PROVE SysInv'
  <2>1. SysTypes /\ IInv /\ \A c \in Clients : ClientInv(c)
    BY <1>2, SysInvParts
  <2>2. UNCHANGED <<vars, status, sent, mq, th, replies, cb, conn, toService, toClient, restarts>>
    BY <1>2 DEF sysVars, clientVars, netVars
  <2>3. IInv' /\ ll' = ll /\ owner' = owner /\ told' = told
    BY <2>1, <2>2, ServiceUntouched
  <2>4. \A d \in Clients : Untouched(d)
    BY <2>2, <2>3 DEF Untouched, Owns
  <2>5. SysTypes'
    BY <2>1, <2>2 DEF SysTypes
  <2> QED BY <2>1, <2>3, <2>4, <2>5, UntouchedInv, NewSysInv
<1> QED BY <1>1, <1>2, SysInitInv, PTL DEF SysSpec

(* The assertion of transmit_notify (mq_head is not NULL) never fails, and *)
(* queue_message never has one message in the queue twice.                 *)
THEOREM SysTypeCorrect ==
  ASSUME "waiter_leaves" \notin Faults, "sent" \notin Cancels
  PROVE  SysSpec => []SysTypeOK
BY SysInvariant, PTL DEF SysInv

(* A request that handle_replies has set to SUCCESS is for a lock that the *)
(* service has given to that client, on a connection that is open.         *)
THEOREM BeliefIsTrueHolds ==
  ASSUME "waiter_leaves" \notin Faults, "sent" \notin Cancels
  PROVE  SysSpec => []BeliefIsTrue
<1>1. SysInv => BeliefIsTrue
  BY DEF SysInv, ServiceInv, Owns, BeliefIsTrue
<1> QED BY <1>1, SysInvariant, PTL

(* What one of two queues holds, both hold together.                       *)
LEMMA HasConcat ==
  ASSUME NEW S, NEW q \in Seq(S), NEW r \in Seq(S), NEW e, Has(q, e) \/ Has(r, e)
  PROVE  Has(q \o r, e)
<1> DEFINE t == q \o r
<1>1. /\ DOMAIN t = 1 .. Len(q) + Len(r) /\ DOMAIN q = 1 .. Len(q) /\ DOMAIN r = 1 .. Len(r)
      /\ Len(q) \in Nat /\ Len(r) \in Nat
  BY ConcatProperties
<1>2. \A i \in 1 .. Len(q) + Len(r) : t[i] = IF i <= Len(q) THEN q[i] ELSE r[i - Len(q)]
  BY ConcatProperties
<1> HIDE DEF t
<1>3. \A i \in DOMAIN q : i \in DOMAIN t /\ t[i] = q[i]
  BY <1>1, <1>2
<1>4. ASSUME NEW i \in DOMAIN r PROVE Len(q) + i \in DOMAIN t /\ t[Len(q) + i] = r[i]
  <2>1. Len(q) + i \in 1 .. Len(q) + Len(r) /\ ~(Len(q) + i <= Len(q))
        /\ (Len(q) + i) - Len(q) = i
    BY <1>1
  <2> QED BY <1>1, <1>2, <2>1
<1>5. Has(t, e)
  BY <1>3, <1>4 DEF Has
<1> QED BY <1>5 DEF t

(* GNUNET_LOCKMANAGER_cancel_request and GNUNET_LOCKMANAGER_disconnect     *)
(* leave no lock with a client that does not want it.                      *)
THEOREM NoOrphanedLockHolds ==
  ASSUME "waiter_leaves" \notin Faults, "sent" \notin Cancels
  PROVE  SysSpec => []NoOrphanedLock
<1>1. ASSUME SysInv PROVE NoOrphanedLock
  <2> SUFFICES ASSUME NEW c \in Clients, NEW l \in Locks, owner[l] = c, conn[c] # "leaving"
               PROVE  \/ status[c][l] # "none" /\ sent[c][l]
                      \/ \E i \in DOMAIN InFlight(c) : InFlight(c)[i] = Rel(l)
    BY DEF NoOrphanedLock
  <2>0. SysTypes /\ IInv /\ ClientInv(c)
    BY <1>1, SysInvParts
  <2>1. ll[c][l] # 0
    BY <2>0, OwnerListed
  <2>2. RequestInv(c, l) /\ ConnInv(c, l) /\ ServiceInv(c, l)
    BY <2>0 DEF ClientInv
  <2>3. conn[c] = "open"
    BY <2>0, <2>1, <2>2 DEF ConnInv, SysTypes, ConnStates
  <2>4. CASE ~Releasing(c, l)
    BY <2>1, <2>2, <2>3, <2>4 DEF ServiceInv, RequestInv
  <2>5. CASE Releasing(c, l)
    <3>1. mq[c] \in Seq(Requests) /\ toService[c] \in Seq(Requests)
      BY <2>0 DEF SysTypes
    <3>2. Has(InFlight(c), Rel(l))
      BY <2>5, <3>1, HasConcat DEF Releasing, InFlight
    <3> QED BY <3>2 DEF Has
  <2> QED BY <2>4, <2>5
<1> QED BY <1>1, SysInvariant, PTL

(* The service gets RELEASE from the owner of a lock only after            *)
(* transmit_notify has written SUCCESS to it: what ReleaseOwned of         *)
(* LockService takes for granted, the library guarantees.                  *)
THEOREM ReleaseExpectedHolds ==
  ASSUME "waiter_leaves" \notin Faults, "sent" \notin Cancels
  PROVE  SysSpec => []ReleaseExpected
<1>1. ASSUME SysInv PROVE ReleaseExpected
  <2> SUFFICES ASSUME NEW c \in Clients, NEW l \in Locks,
                      toService[c] # <<>>, Head(toService[c]) = Rel(l), owner[l] = c
               PROVE  c \in told[l]
    BY DEF ReleaseExpected
  <2>0. SysTypes /\ IInv /\ ClientInv(c)
    BY <1>1, SysInvParts
  <2>1. ll[c][l] # 0
    BY <2>0, OwnerListed
  <2>2. Has(toService[c], Rel(l))
    BY <2>0, OrderlyTail DEF ClientInv, QueuesInv
  <2>3. ConnInv(c, l) /\ ServiceInv(c, l)
    BY <2>0 DEF ClientInv
  <2>4. conn[c] \in {"open", "leaving"}
    BY <2>0, <2>1, <2>3 DEF ConnInv, SysTypes, ConnStates
  <2> QED BY <2>1, <2>2, <2>3, <2>4 DEF ServiceInv, Releasing, Owns
<1> QED BY <1>1, SysInvariant, PTL

=============================================================================
