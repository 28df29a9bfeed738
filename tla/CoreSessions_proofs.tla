------------------------- MODULE CoreSessions_proofs -------------------------
(***************************************************************************)
(* Proofs about CoreSessions, for any number of clients, message types and *)
(* sizes, and any value of the bounds.                                     *)
(***************************************************************************)
EXTENDS CoreSessions, SeqFilter_proofs

-----------------------------------------------------------------------------
(* Sums and batches.                                                       *)

Sums(f, n, sizes) == f = [i \in 0 .. n |-> IF i = 0 THEN 0 ELSE f[i - 1] + sizes[i]]

(* The sizes of the first messages of a batch can be added up.             *)
LEMMA SumsExists ==
  ASSUME NEW sizes \in Seq(Nat), NEW b \in 0 .. Len(sizes)
  PROVE  \E f : Sums(f, b, sizes)
<1> DEFINE T == {n \in 0 .. b : ~ \E f : Sums(f, n, sizes)}
<1>0. b \in 0 .. b /\ b \in Nat
  OBVIOUS
<1>1. SUFFICES ASSUME T # {} PROVE FALSE
  BY <1>0, Zenon
<1>2. PICK n \in T : \A m \in T : n <= m
  <2>1. T \subseteq Nat
    BY <1>0
  <2> HIDE DEF T
  <2> QED BY <1>1, <2>1, LeastElement
<1>3. n \in 0 .. b /\ n \in Nat
  BY <1>0
<1>4. CASE n = 0
  <2>1. Sums([i \in 0 .. 0 |-> 0], 0, sizes)
    BY DEF Sums
  <2> QED BY <1>4, <2>1
<1>5. CASE n # 0
  <2>1. n - 1 \in 0 .. b /\ n - 1 \notin T
    BY <1>0, <1>2, <1>3, <1>5
  <2>2. PICK f : Sums(f, n - 1, sizes)
    BY <2>1
  <2> DEFINE g == [i \in 0 .. n |-> IF i = n THEN f[n - 1] + sizes[n] ELSE f[i]]
  <2>3. \A i \in 0 .. n : i # n => i \in 0 .. (n - 1) /\ g[i] = f[i]
    BY <1>3
  <2>4. g[n] = g[n - 1] + sizes[n]
    BY <1>3, <1>5
  <2>5. ASSUME NEW i \in 0 .. n, i # n
        PROVE  g[i] = IF i = 0 THEN 0 ELSE g[i - 1] + sizes[i]
    <3>1. f[i] = IF i = 0 THEN 0 ELSE f[i - 1] + sizes[i]
      BY <2>2, <2>3, <2>5 DEF Sums
    <3>2. g[i] = f[i] /\ (i # 0 => g[i - 1] = f[i - 1])
      BY <1>3, <2>3, <2>5
    <3> HIDE DEF g
    <3> QED BY <3>1, <3>2
  <2>6. g = [i \in 0 .. n |-> g[i]]
    OBVIOUS
  <2> HIDE DEF g
  <2>7. Sums(g, n, sizes)
    BY <1>5, <2>4, <2>5, <2>6 DEF Sums
  <2> QED BY <2>7
<1> QED BY <1>4, <1>5

(* Their sum is a number, 0 for no message.                                *)
LEMMA SumToNat ==
  ASSUME NEW sizes \in Seq(Nat), NEW b \in 0 .. Len(sizes)
  PROVE  SumTo(sizes, b) \in Nat /\ (b = 0 => SumTo(sizes, b) = 0)
<1> DEFINE f == CHOOSE g : Sums(g, b, sizes)
<1>1. SumTo(sizes, b) = f[b]
  BY Zenon DEF SumTo, Sums
<1>2. Sums(f, b, sizes)
  BY SumsExists, Zenon
<1> HIDE DEF f
<1> DEFINE T == {n \in 0 .. b : f[n] \notin Nat}
<1>3. b \in 0 .. b /\ b \in Nat /\ Len(sizes) \in Nat
  OBVIOUS
<1>4. f[0] = 0 /\ \A i \in 0 .. b : i # 0 => f[i] = f[i - 1] + sizes[i]
  BY <1>2, <1>3 DEF Sums
<1>5. T = {}
  <2> SUFFICES ASSUME T # {} PROVE FALSE
    OBVIOUS
  <2>1. PICK n \in T : \A m \in T : n <= m
    <3>1. T \subseteq Nat
      BY <1>3
    <3> HIDE DEF T
    <3> QED BY <3>1, LeastElement
  <2>2. n \in 0 .. b /\ n # 0
    BY <1>4
  <2>3. n - 1 \in 0 .. b /\ ~ (n <= n - 1) /\ n \in 1 .. Len(sizes)
    BY <1>3, <2>2
  <2>4. f[n - 1] \in Nat
    BY <2>1, <2>3
  <2>5. sizes[n] \in Nat
    BY <2>3
  <2> QED BY <1>4, <2>2, <2>4, <2>5
<1>6. f[b] \in Nat
  BY <1>3, <1>5
<1> QED BY <1>1, <1>4, <1>6

(* A batch of messages is a prefix of the list, empty in the worst case.   *)
LEMMA FittingPrefix ==
  ASSUME NEW sizes \in Seq(Nat)
  PROVE  Fitting(sizes) \in 0 .. Len(sizes)
<1> DEFINE P(n) == /\ SumTo(sizes, n) <= MaxSize
                   /\ n < Len(sizes) => SumTo(sizes, n + 1) > MaxSize
           T == {n \in 0 .. Len(sizes) : n < Len(sizes) => SumTo(sizes, n + 1) > MaxSize}
<1>1. Len(sizes) \in Nat /\ Len(sizes) \in T /\ T \subseteq Nat /\ MaxSize \in Nat
  BY SizesAssumption
<1>2. PICK n \in T : \A k \in T : n <= k
  <2> HIDE DEF T
  <2> QED BY <1>1, LeastElement
<1>3. n \in 0 .. Len(sizes) /\ n \in Nat
  BY <1>1
<1>4. SumTo(sizes, n) <= MaxSize
  <2>1. CASE n = 0
    <3>1. SumTo(sizes, 0) = 0
      BY <1>3, <2>1, SumToNat
    <3> QED BY <1>1, <2>1, <3>1
  <2>2. CASE n # 0
    <3>1. n - 1 \in 0 .. Len(sizes) /\ n - 1 < Len(sizes) /\ ~ (n <= n - 1) /\ (n - 1) + 1 = n
      BY <1>1, <1>3, <2>2
    <3>2. n - 1 \notin T
      BY <1>2, <3>1
    <3>3. ~ (SumTo(sizes, n) > MaxSize)
      BY <3>1, <3>2
    <3>4. SumTo(sizes, n) \in Nat
      BY <1>3, SumToNat
    <3> QED BY <1>1, <3>3, <3>4
  <2> QED BY <2>1, <2>2
<1>5. n \in 0 .. Len(sizes) /\ P(n)
  BY <1>3, <1>4
<1>6. Fitting(sizes) = CHOOSE k \in 0 .. Len(sizes) : P(k)
  BY DEF Fitting
<1> HIDE DEF P
<1> QED BY <1>5, <1>6

(* A bounded set of natural numbers has a largest element.                 *)
LEMMA LargestElement ==
  ASSUME NEW T, T \subseteq Nat, T # {}, NEW b \in Nat, \A x \in T : x <= b
  PROVE  \E x \in T : \A y \in T : y <= x
<1> DEFINE U == {u \in Nat : \A x \in T : x <= u}
<1>1. PICK u \in U : \A v \in U : u <= v
  <2>1. U \subseteq Nat /\ b \in U
    OBVIOUS
  <2> HIDE DEF U
  <2> QED BY <2>1, LeastElement
<1>2. u \in Nat /\ \A x \in T : x <= u
  OBVIOUS
<1>3. CASE u \in T
  BY <1>2, <1>3
<1>4. CASE u \notin T
  <2>1. \A x \in T : x \in Nat /\ x # u /\ x <= u
    BY <1>2, <1>4
  <2>2. \A x \in T : x <= u - 1
    BY <1>2, <2>1
  <2>3. u # 0
    <3>1. PICK x : x \in T
      OBVIOUS
    <3> QED BY <1>2, <2>1, <3>1
  <2>4. u - 1 \in U
    BY <1>2, <2>2, <2>3
  <2> QED BY <1>1, <1>2, <2>4
<1> QED BY <1>3, <1>4

-----------------------------------------------------------------------------
(* The session as a record.                                                *)

Sessions ==
  [ready : BOOLEAN, list : Seq(Clients), smes : Seq(Messages), cork : BOOLEAN,
   queue : Seq(Seq(Messages)), connected : SUBSET Clients,
   car : [Clients -> Requests \cup {NoRequest}], granted : SUBSET Clients]

(* The list holds the requests of the table, each once.                    *)
Tracked(s) ==
  /\ \A c \in Clients : s.car[c] # NoRequest <=> \E i \in DOMAIN s.list : s.list[i] = c
  /\ \A i, j \in DOMAIN s.list : s.list[i] = s.list[j] => i = j

(* A step from s to t leaves messages, queue and connections alone, and    *)
(* adds no request to the list.                                            *)
OnlyRequests(s, t) ==
  /\ t.ready = s.ready /\ t.smes = s.smes /\ t.queue = s.queue
  /\ t.connected = s.connected
  /\ \A i \in DOMAIN t.list : \E j \in DOMAIN s.list : t.list[i] = s.list[j]

(* The types of the fields of a session.                                   *)
LEMMA SessionFields ==
  ASSUME NEW s \in Sessions
  PROVE  /\ s.ready \in BOOLEAN /\ s.list \in Seq(Clients) /\ s.smes \in Seq(Messages)
         /\ s.cork \in BOOLEAN /\ s.queue \in Seq(Seq(Messages))
         /\ s.connected \subseteq Clients
         /\ s.car \in [Clients -> Requests \cup {NoRequest}] /\ s.granted \subseteq Clients
BY DEF Sessions

(* What destroying the requests of some clients leaves of a list: the      *)
(* others, each of them once if it was there once.                         *)
LEMMA ExcludingView ==
  ASSUME NEW A, NEW q \in Seq(A), NEW gone
  PROVE  /\ Excluding(q, gone) \in Seq(A)
         /\ \A k \in DOMAIN Excluding(q, gone) :
              Excluding(q, gone)[k] \notin gone
                /\ \E i \in DOMAIN q : Excluding(q, gone)[k] = q[i]
         /\ \A i \in DOMAIN q : q[i] \notin gone =>
              \E k \in DOMAIN Excluding(q, gone) : Excluding(q, gone)[k] = q[i]
         /\ (\A i, j \in DOMAIN q : q[i] = q[j] => i = j) =>
              \A k, l \in DOMAIN Excluding(q, gone) :
                Excluding(q, gone)[k] = Excluding(q, gone)[l] => k = l
<1> DEFINE p == Excluding(q, gone)
<1>1. p \in Seq(A) /\ \E h : Picks(h, p, Len(q), q, gone)
  BY ExcludingPicks
<1> HIDE DEF p
<1>2. PICK h : Picks(h, p, Len(q), q, gone)
  BY <1>1
<1>3. /\ h \in [1 .. Len(p) -> 1 .. Len(q)]
      /\ \A k \in 1 .. Len(p) : p[k] = q[h[k]] /\ q[h[k]] \notin gone
      /\ \A k, l \in 1 .. Len(p) : k < l => h[k] < h[l]
      /\ \A i \in 1 .. Len(q) : q[i] \notin gone => \E k \in 1 .. Len(p) : h[k] = i
  BY <1>2 DEF Picks
<1>4. DOMAIN p = 1 .. Len(p) /\ DOMAIN q = 1 .. Len(q) /\ Len(p) \in Nat /\ Len(q) \in Nat
  BY <1>1
<1>5. \A k \in DOMAIN p : h[k] \in DOMAIN q /\ h[k] \in Nat
  BY <1>3, <1>4
<1>6. \A k \in DOMAIN p : p[k] \notin gone /\ \E i \in DOMAIN q : p[k] = q[i]
  BY <1>3, <1>4, <1>5
<1>7. \A i \in DOMAIN q : q[i] \notin gone => \E k \in DOMAIN p : p[k] = q[i]
  <2> SUFFICES ASSUME NEW i \in DOMAIN q, q[i] \notin gone PROVE \E k \in DOMAIN p : p[k] = q[i]
    OBVIOUS
  <2>1. PICK k \in 1 .. Len(p) : h[k] = i
    BY <1>3, <1>4
  <2> QED BY <1>3, <1>4, <2>1
<1>8. ASSUME \A i, j \in DOMAIN q : q[i] = q[j] => i = j,
             NEW k \in DOMAIN p, NEW l \in DOMAIN p, p[k] = p[l]
      PROVE  k = l
  <2>1. h[k] = h[l]
    BY <1>3, <1>4, <1>5, <1>8
  <2> QED BY <1>3, <1>4, <1>5, <2>1
<1> QED BY <1>1, <1>6, <1>7, <1>8 DEF p

(* GSC_SESSIONS_dequeue_request takes the requests out of both tables.     *)
LEMMA DropView ==
  ASSUME NEW s \in Sessions, NEW gone
  PROVE  /\ Drop(s, gone) \in Sessions
         /\ Drop(s, gone).list = Excluding(s.list, gone)
         /\ \A c \in Clients :
              Drop(s, gone).car[c] = IF c \in gone THEN NoRequest ELSE s.car[c]
         /\ Drop(s, gone).granted = s.granted /\ Drop(s, gone).cork = s.cork
         /\ OnlyRequests(s, Drop(s, gone))
<1> DEFINE l == Excluding(s.list, gone)
           r == [c \in Clients |-> IF c \in gone THEN NoRequest ELSE s.car[c]]
           t == Drop(s, gone)
<1>1. /\ l \in Seq(Clients)
      /\ \A k \in DOMAIN l : \E i \in DOMAIN s.list : l[k] = s.list[i]
  BY SessionFields, ExcludingView
<1>2. /\ r \in [Clients -> Requests \cup {NoRequest}]
      /\ \A c \in Clients : r[c] = IF c \in gone THEN NoRequest ELSE s.car[c]
  BY SessionFields
<1>3. t = [s EXCEPT !.list = l, !.car = r]
  BY DEF Drop
<1> HIDE DEF l, r, t
<1>4. /\ t \in Sessions /\ t.list = l /\ t.car = r
      /\ t.granted = s.granted /\ t.cork = s.cork /\ t.ready = s.ready /\ t.smes = s.smes
      /\ t.queue = s.queue /\ t.connected = s.connected
  BY <1>1, <1>2, <1>3 DEF Sessions
<1> QED BY <1>1, <1>2, <1>4 DEF OnlyRequests, l, t

(* Destroying requests in the list and in the table keeps both in          *)
(* agreement.                                                              *)
LEMMA DropTracked ==
  ASSUME NEW s \in Sessions, Tracked(s), NEW gone
  PROVE  Tracked(Drop(s, gone))
<1> DEFINE t == Drop(s, gone)
<1>1. /\ t.list = Excluding(s.list, gone)
      /\ \A c \in Clients : t.car[c] = IF c \in gone THEN NoRequest ELSE s.car[c]
  BY DropView
<1> HIDE DEF t
<1>2. /\ \A k \in DOMAIN t.list :
           t.list[k] \notin gone /\ \E i \in DOMAIN s.list : t.list[k] = s.list[i]
      /\ \A i \in DOMAIN s.list :
           s.list[i] \notin gone => \E k \in DOMAIN t.list : t.list[k] = s.list[i]
      /\ \A k, l \in DOMAIN t.list : t.list[k] = t.list[l] => k = l
  BY <1>1, SessionFields, ExcludingView DEF Tracked
<1>3. ASSUME NEW c \in Clients
      PROVE  t.car[c] # NoRequest <=> \E i \in DOMAIN t.list : t.list[i] = c
  <2>1. ASSUME t.car[c] # NoRequest PROVE \E i \in DOMAIN t.list : t.list[i] = c
    <3>1. c \notin gone /\ s.car[c] # NoRequest
      BY <1>1, <2>1
    <3>2. PICK i \in DOMAIN s.list : s.list[i] = c
      BY <3>1 DEF Tracked
    <3> QED BY <1>2, <3>1, <3>2
  <2>2. ASSUME NEW k \in DOMAIN t.list, t.list[k] = c PROVE t.car[c] # NoRequest
    <3>1. c \notin gone /\ \E i \in DOMAIN s.list : s.list[i] = c
      BY <1>2, <2>2
    <3> QED BY <1>1, <3>1 DEF Tracked
  <2> QED BY <2>1, <2>2
<1>4. Tracked(t)
  BY <1>2, <1>3 DEF Tracked
<1> QED BY <1>4 DEF t

(* A step from s to t marks requests as solicited.                         *)
LEMMA SolicitView ==
  ASSUME NEW s \in Sessions, Tracked(s)
  PROVE  /\ Solicit(s) \in Sessions /\ Tracked(Solicit(s))
         /\ OnlyRequests(s, Solicit(s))
         /\ Solicit(s).granted \subseteq s.granted \cup s.connected
<1> DEFINE waiting == Excluding(s.list, Expired(s))
           sizes == [i \in DOMAIN waiting |-> s.car[waiting[i]].size]
           n == Fitting(sizes)
           new == {c \in {waiting[i] : i \in 1 .. n} : ~ s.car[c].solicited}
           car2 == [c \in Clients |->
                      IF c \in new THEN [s.car[c] EXCEPT !.solicited = TRUE] ELSE s.car[c]]
           g == s.granted \cup (new \cap s.connected)
           u == [s EXCEPT !.car = car2, !.granted = g]
           gone == Expired(s) \cup (new \ s.connected)
<1>1. Solicit(s) = Drop(u, gone)
  BY DEF Solicit
<1>2. /\ s.list \in Seq(Clients) /\ s.car \in [Clients -> Requests \cup {NoRequest}]
      /\ s.granted \subseteq Clients /\ s.connected \subseteq Clients
  BY SessionFields
<1>3. /\ waiting \in Seq(Clients)
      /\ \A k \in DOMAIN waiting : \E i \in DOMAIN s.list : waiting[k] = s.list[i]
  BY <1>2, ExcludingView
<1> HIDE DEF waiting
<1>4. \A k \in DOMAIN waiting : waiting[k] \in Clients /\ s.car[waiting[k]] # NoRequest
  BY <1>3 DEF Tracked
<1>5. \A k \in DOMAIN waiting : s.car[waiting[k]] \in Requests
  BY <1>2, <1>4
<1>6. sizes \in Seq(Nat) /\ Len(sizes) = Len(waiting)
  <2>1. \A k \in DOMAIN waiting : s.car[waiting[k]].size \in Nat
    BY <1>5 DEF Requests
  <2>2. DOMAIN waiting = 1 .. Len(waiting) /\ Len(waiting) \in Nat
    BY <1>3
  <2>3. sizes \in [1 .. Len(waiting) -> Nat]
    BY <2>1, <2>2
  <2> HIDE DEF sizes
  <2> QED BY <2>2, <2>3
<1> HIDE DEF sizes
<1>7. n \in 0 .. Len(waiting)
  BY <1>6, FittingPrefix
<1> HIDE DEF n
<1>8. new \subseteq Clients /\ \A c \in new : s.car[c] \in Requests
  <2>1. \A i \in 1 .. n : i \in DOMAIN waiting
    BY <1>3, <1>7
  <2> QED BY <1>4, <1>5, <2>1
<1> HIDE DEF new
<1>9. ASSUME NEW c \in Clients
      PROVE  /\ car2[c] \in Requests \cup {NoRequest}
             /\ car2[c] # NoRequest <=> s.car[c] # NoRequest
  <2>1. CASE c \in new
    <3> DEFINE r == s.car[c]
    <3>1. r \in Requests
      BY <1>8, <2>1
    <3>2. car2[c] = [r EXCEPT !.solicited = TRUE]
      BY <2>1
    <3> HIDE DEF r, car2
    <3>3. car2[c] \in Requests
      BY <3>1, <3>2 DEF Requests
    <3> QED BY <3>1, <3>3, NoRequestAssumption DEF r
  <2>2. CASE c \notin new
    BY <1>2, <2>2
  <2> QED BY <2>1, <2>2
<1>10. car2 \in [Clients -> Requests \cup {NoRequest}]
  <2>1. car2 = [c \in Clients |-> car2[c]]
    OBVIOUS
  <2> HIDE DEF car2
  <2> QED BY <1>9, <2>1
<1>11. g \subseteq Clients /\ g \subseteq s.granted \cup s.connected
  BY <1>2
<1> HIDE DEF car2, g
<1>12. /\ u \in Sessions /\ u.car = car2 /\ u.granted = g /\ u.list = s.list
       /\ u.ready = s.ready /\ u.smes = s.smes /\ u.queue = s.queue
       /\ u.connected = s.connected
  BY <1>10, <1>11 DEF Sessions
<1> HIDE DEF u, gone
<1>13. Tracked(u)
  BY <1>9, <1>12 DEF Tracked
<1>14. Drop(u, gone) \in Sessions /\ Tracked(Drop(u, gone)) /\ OnlyRequests(u, Drop(u, gone))
         /\ Drop(u, gone).granted = g
  BY <1>12, <1>13, DropView, DropTracked
<1>15. OnlyRequests(s, Drop(u, gone))
  BY <1>12, <1>14 DEF OnlyRequests
<1> QED BY <1>1, <1>11, <1>14, <1>15

-----------------------------------------------------------------------------
(* The messages on their way.                                              *)

Has(m, n) == \E i \in DOMAIN m : m[i].id = n

Increasing(m) ==
  \A i, j \in DOMAIN m : i < j /\ m[i].id > 0 /\ m[j].id > 0 => m[i].id < m[j].id

Before(m, p) ==
  \A i \in DOMAIN m, j \in DOMAIN p : m[i].id > 0 /\ p[j].id > 0 => m[i].id < p[j].id

(* One batch of the clients at most is in the queue, none while ready.     *)
OneBatch(s) ==
  /\ \A i, j \in DOMAIN s.queue : IsPayload(s.queue[i]) /\ IsPayload(s.queue[j]) => i = j
  /\ s.ready => \A i \in DOMAIN s.queue : ~ IsPayload(s.queue[i])

OnTheWay(s, n) == Has(s.smes, n) \/ \E k \in DOMAIN s.queue : Has(s.queue[k], n)

(* The messages after the first g, up to a, are on their way, in order.    *)
Order(s, g, a) ==
  /\ Increasing(s.smes)
  /\ \A k \in DOMAIN s.queue : Increasing(s.queue[k]) /\ Before(s.queue[k], s.smes)
  /\ \A n \in Nat \ {0} : OnTheWay(s, n) <=> g < n /\ n <= a

(* An entry of a list of messages is a message.                            *)
LEMMA MessageFields ==
  ASSUME NEW m \in Seq(Messages), NEW i \in DOMAIN m
  PROVE  m[i] \in Messages /\ m[i].id \in Nat
<1>1. m[i] \in Messages
  OBVIOUS
<1> QED BY <1>1 DEF Messages

(* A batch without messages of clients puts no order on anything.          *)
LEMMA NoPayload ==
  ASSUME NEW m \in Seq(Messages)
  PROVE  /\ IsPayload(m) <=> \E n \in Nat \ {0} : Has(m, n)
         /\ ~ IsPayload(m) => Increasing(m) /\ \A p : Before(m, p) /\ Before(p, m)
<1>1. \A i \in DOMAIN m : m[i].id \in Nat /\ (m[i].id > 0 <=> m[i].id \in Nat \ {0})
  BY MessageFields
<1>2. IsPayload(m) <=> \E i \in DOMAIN m : m[i].id \in Nat \ {0}
  BY <1>1 DEF IsPayload
<1>3. IsPayload(m) <=> \E n \in Nat \ {0} : Has(m, n)
  BY <1>2, Zenon DEF Has
<1>4. ASSUME ~ IsPayload(m) PROVE Increasing(m) /\ \A p : Before(m, p) /\ Before(p, m)
  BY <1>4, Zenon DEF IsPayload, Increasing, Before
<1> QED BY <1>3, <1>4

(* Nothing changes for the messages when only their deadlines change.      *)
LEMMA SameMessages ==
  ASSUME NEW m, NEW p, DOMAIN p = DOMAIN m, \A i \in DOMAIN m : p[i].id = m[i].id
  PROVE  /\ Increasing(m) => Increasing(p)
         /\ \A q : Before(q, m) => Before(q, p)
         /\ \A n : Has(p, n) <=> Has(m, n)
<1>1. Increasing(m) => Increasing(p)
  BY DEF Increasing
<1>2. \A q : Before(q, m) => Before(q, p)
  BY DEF Before
<1>3. \A n : Has(p, n) <=> Has(m, n)
  BY DEF Has
<1> QED BY <1>1, <1>2, <1>3

(* The batch and the rest of smes.                                         *)
Split(m, b, r) ==
  /\ b \in Seq(Messages) /\ r \in Seq(Messages)
  /\ \A k : Has(m, k) <=> Has(b, k) \/ Has(r, k)
  /\ Increasing(m) => Increasing(b) /\ Increasing(r) /\ Before(b, r)
  /\ \A q : Before(q, m) => Before(q, r)

(* Cutting the queue of a session into a batch and the rest keeps the      *)
(* order.                                                                  *)
LEMMA SplitMessages ==
  ASSUME NEW m \in Seq(Messages), NEW n \in 0 .. Len(m)
  PROVE  Split(m, SubSeq(m, 1, n), SubSeq(m, n + 1, Len(m)))
<1> DEFINE b == SubSeq(m, 1, n)
           r == SubSeq(m, n + 1, Len(m))
<1>1. /\ b \in Seq(Messages) /\ DOMAIN b = 1 .. n
      /\ \A k \in 1 .. n : k \in DOMAIN m /\ b[k] = m[k]
  BY PrefixView
<1>2. /\ r \in Seq(Messages) /\ DOMAIN r = 1 .. Len(m) - n
      /\ \A k \in 1 .. Len(m) - n : k + n \in DOMAIN m /\ r[k] = m[k + n]
      /\ \A i \in DOMAIN m : i \in 1 .. n \/ i - n \in 1 .. Len(m) - n
  BY SuffixView
<1> HIDE DEF b, r
<1>3. n \in Nat /\ Len(m) \in Nat /\ \A i \in DOMAIN m : i \in Nat /\ (i - n) + n = i
  OBVIOUS
<1>4. ASSUME NEW k PROVE Has(m, k) <=> Has(b, k) \/ Has(r, k)
  <2>1. ASSUME Has(b, k) PROVE Has(m, k)
    <3>1. PICK i \in 1 .. n : b[i].id = k
      BY <1>1, <2>1 DEF Has
    <3> QED BY <1>1, <3>1 DEF Has
  <2>2. ASSUME Has(r, k) PROVE Has(m, k)
    <3>1. PICK i \in 1 .. Len(m) - n : r[i].id = k
      BY <1>2, <2>2 DEF Has
    <3> QED BY <1>2, <3>1 DEF Has
  <2>3. ASSUME Has(m, k) PROVE Has(b, k) \/ Has(r, k)
    <3>1. PICK i \in DOMAIN m : m[i].id = k
      BY <2>3 DEF Has
    <3>2. CASE i \in 1 .. n
      BY <1>1, <3>1, <3>2 DEF Has
    <3>3. CASE i - n \in 1 .. Len(m) - n
      <4>1. r[i - n] = m[i]
        BY <1>2, <1>3, <3>3
      <4> QED BY <1>2, <3>1, <3>3, <4>1 DEF Has
    <3> QED BY <1>2, <3>2, <3>3
  <2> QED BY <2>1, <2>2, <2>3
<1>5. ASSUME Increasing(m) PROVE Increasing(b)
  BY <1>1, <1>5 DEF Increasing
<1>6. ASSUME Increasing(m) PROVE Increasing(r)
  <2> SUFFICES ASSUME NEW i \in DOMAIN r, NEW j \in DOMAIN r, i < j,
                      r[i].id > 0, r[j].id > 0
               PROVE  r[i].id < r[j].id
    BY Zenon DEF Increasing
  <2>1. i + n \in DOMAIN m /\ j + n \in DOMAIN m /\ r[i] = m[i + n] /\ r[j] = m[j + n]
    BY <1>2
  <2>2. i + n < j + n
    BY <1>2, <1>3
  <2> QED BY <1>6, <2>1, <2>2, Zenon DEF Increasing
<1>7. ASSUME Increasing(m) PROVE Before(b, r)
  <2> SUFFICES ASSUME NEW i \in DOMAIN b, NEW j \in DOMAIN r, b[i].id > 0, r[j].id > 0
               PROVE  b[i].id < r[j].id
    BY Zenon DEF Before
  <2>1. i \in DOMAIN m /\ j + n \in DOMAIN m /\ b[i] = m[i] /\ r[j] = m[j + n]
    BY <1>1, <1>2
  <2>2. i < j + n
    BY <1>1, <1>2, <1>3
  <2> QED BY <1>7, <2>1, <2>2, Zenon DEF Increasing
<1>8. ASSUME NEW q, Before(q, m) PROVE Before(q, r)
  BY <1>2, <1>8 DEF Before
<1>9. Split(m, b, r)
  BY <1>1, <1>2, <1>4, <1>5, <1>6, <1>7, <1>8 DEF Split
<1> QED BY <1>9 DEF b, r

(* OneBatch and Order are about ready, smes and queue.                     *)
LEMMA OrderDepends ==
  ASSUME NEW s, NEW t, t.smes = s.smes, t.queue = s.queue
  PROVE  /\ \A g, a : Order(s, g, a) => Order(t, g, a)
         /\ OneBatch(s) /\ (t.ready => s.ready) => OneBatch(t)
<1>1. \A n : OnTheWay(t, n) <=> OnTheWay(s, n)
  BY DEF OnTheWay
<1>2. \A g, a : Order(s, g, a) => Order(t, g, a)
  BY <1>1 DEF Order
<1>3. OneBatch(s) /\ (t.ready => s.ready) => OneBatch(t)
  BY DEF OneBatch
<1> QED BY <1>2, <1>3

-----------------------------------------------------------------------------
(* try_transmission.                                                       *)

Advances(s, t) ==
  /\ t \in Sessions /\ Tracked(t) /\ OneBatch(t)
  /\ t.connected = s.connected
  /\ t.granted \subseteq s.granted \cup s.connected
  /\ \A i \in DOMAIN t.list : \E j \in DOMAIN s.list : t.list[i] = s.list[j]
  /\ \A g, a : Order(s, g, a) => Order(t, g, a)
  /\ ~ s.ready => t = s

(* A batch goes to the end of a queue that holds none of the clients.      *)
LEMMA TransmitAdvances ==
  ASSUME NEW s \in Sessions, Tracked(s), OneBatch(s), s.ready,
         NEW n \in 0 .. Len(s.smes), NEW t,
         t = [Transmit(s, SubSeq(s.smes, 1, n)) EXCEPT
                !.smes = SubSeq(s.smes, n + 1, Len(s.smes))]
  PROVE  Advances(s, t)
<1> DEFINE b == SubSeq(s.smes, 1, n)
           r == SubSeq(s.smes, n + 1, Len(s.smes))
           q == Append(s.queue, b)
<1>1. s.smes \in Seq(Messages) /\ s.queue \in Seq(Seq(Messages))
  BY SessionFields
<1>2. /\ b \in Seq(Messages) /\ r \in Seq(Messages)
      /\ \A k : Has(s.smes, k) <=> Has(b, k) \/ Has(r, k)
      /\ Increasing(s.smes) => Increasing(b) /\ Increasing(r) /\ Before(b, r)
      /\ \A p : Before(p, s.smes) => Before(p, r)
  <2>1. Split(s.smes, b, r)
    BY <1>1, SplitMessages, Zenon
  <2> HIDE DEF b, r
  <2> QED BY <2>1 DEF Split
<1> HIDE DEF b, r
<1>3. AtEnd(q, b, s.queue, Seq(Messages))
  BY <1>1, <1>2, AppendView
<1>4. t = [s EXCEPT !.ready = FALSE, !.queue = q, !.smes = r]
  BY DEF Transmit, b, r, Sessions
<1> HIDE DEF q
<1>5. /\ q \in Seq(Seq(Messages)) /\ DOMAIN q = 1 .. Len(s.queue) + 1
      /\ DOMAIN s.queue = 1 .. Len(s.queue) /\ Len(s.queue) \in Nat
      /\ q[Len(s.queue) + 1] = b
      /\ \A i \in DOMAIN s.queue : q[i] = s.queue[i]
  BY <1>1, <1>3 DEF AtEnd
<1>6. /\ t \in Sessions /\ t.ready = FALSE /\ t.queue = q /\ t.smes = r
      /\ t.list = s.list /\ t.car = s.car /\ t.connected = s.connected
      /\ t.granted = s.granted
  BY <1>2, <1>4, <1>5 DEF Sessions
<1>7. Tracked(t)
  BY <1>6 DEF Tracked
<1>8. /\ Len(s.queue) + 1 \in DOMAIN q
      /\ \A i \in DOMAIN q : i = Len(s.queue) + 1 \/ i \in DOMAIN s.queue
      /\ \A i \in DOMAIN s.queue : i \in DOMAIN q
  BY <1>5
<1>9. \A i \in DOMAIN q : IsPayload(q[i]) => i = Len(s.queue) + 1
  BY <1>5, <1>8 DEF OneBatch
<1>10. OneBatch(t)
  BY <1>6, <1>9 DEF OneBatch
<1>11. ASSUME NEW k PROVE OnTheWay(t, k) <=> OnTheWay(s, k)
  <2>1. (\E i \in DOMAIN q : Has(q[i], k)) <=>
          Has(b, k) \/ \E i \in DOMAIN s.queue : Has(s.queue[i], k)
    BY <1>5, <1>8
  <2> QED BY <1>2, <1>6, <2>1 DEF OnTheWay
<1>12. ASSUME NEW g, NEW a, Order(s, g, a) PROVE Order(t, g, a)
  <2>1. Increasing(r)
    BY <1>2, <1>12 DEF Order
  <2>2. \A i \in DOMAIN q : Increasing(q[i]) /\ Before(q[i], r)
    BY <1>2, <1>5, <1>8, <1>12 DEF Order
  <2>3. \A m \in Nat \ {0} : OnTheWay(t, m) <=> g < m /\ m <= a
    BY <1>11, <1>12 DEF Order
  <2> QED BY <1>6, <2>1, <2>2, <2>3 DEF Order
<1> QED BY <1>6, <1>7, <1>10, <1>12 DEF Advances

(* try_transmission moves a prefix of the messages to the queue, solicits, *)
(* or does nothing.                                                        *)
LEMMA TryAdvances ==
  ASSUME NEW s \in Sessions, Tracked(s), OneBatch(s)
  PROVE  Advances(s, TryTransmission(s))
<1> DEFINE sizes == [i \in DOMAIN s.smes |-> s.smes[i].size]
           n == Fitting(sizes)
           t == TryTransmission(s)
<1>1. s.smes \in Seq(Messages)
  BY SessionFields
<1>2. sizes \in Seq(Nat) /\ Len(sizes) = Len(s.smes)
  <2>1. DOMAIN s.smes = 1 .. Len(s.smes) /\ Len(s.smes) \in Nat
    BY <1>1
  <2>2. \A i \in DOMAIN s.smes : s.smes[i].size \in Nat
    <3>1. \A i \in DOMAIN s.smes : s.smes[i] \in Messages
      BY <1>1
    <3> QED BY <3>1 DEF Messages
  <2>3. sizes \in [1 .. Len(s.smes) -> Nat]
    BY <2>1, <2>2
  <2> HIDE DEF sizes
  <2> QED BY <2>1, <2>3
<1>3. t = IF ~ s.ready THEN s
          ELSE IF Waits(SubSeq(s.smes, 1, n), SumTo(sizes, n))
          THEN [Solicit(s) EXCEPT !.cork = Solicit(s).cork \/ n > 0]
          ELSE [Transmit(s, SubSeq(s.smes, 1, n)) EXCEPT
                  !.smes = SubSeq(s.smes, n + 1, Len(s.smes))]
  BY DEF TryTransmission
<1> HIDE DEF sizes
<1>4. n \in 0 .. Len(s.smes)
  BY <1>2, FittingPrefix
<1> HIDE DEF n, t
<1>5. CASE ~ s.ready
  <2>1. t = s
    BY <1>3, <1>5
  <2>2. Advances(s, s)
    BY DEF Advances
  <2> QED BY <2>1, <2>2 DEF t
<1>6. CASE s.ready /\ Waits(SubSeq(s.smes, 1, n), SumTo(sizes, n))
  <2> DEFINE u == Solicit(s)
  <2>1. /\ u \in Sessions /\ Tracked(u) /\ OnlyRequests(s, u)
        /\ u.granted \subseteq s.granted \cup s.connected
    BY SolicitView
  <2>2. t = [u EXCEPT !.cork = u.cork \/ n > 0]
    BY <1>3, <1>6, Zenon
  <2> HIDE DEF u
  <2>3. /\ t \in Sessions /\ t.ready = u.ready /\ t.list = u.list /\ t.smes = u.smes
        /\ t.queue = u.queue /\ t.connected = u.connected /\ t.car = u.car
        /\ t.granted = u.granted
    BY <2>1, <2>2 DEF Sessions
  <2>4. Tracked(t)
    BY <2>1, <2>3 DEF Tracked
  <2>5. /\ t.ready = s.ready /\ t.smes = s.smes /\ t.queue = s.queue
        /\ t.connected = s.connected
        /\ \A i \in DOMAIN t.list : \E j \in DOMAIN s.list : t.list[i] = s.list[j]
    BY <2>1, <2>3 DEF OnlyRequests
  <2>6. OneBatch(t) /\ \A g, a : Order(s, g, a) => Order(t, g, a)
    BY <2>5, OrderDepends
  <2>7. Advances(s, t)
    BY <1>6, <2>1, <2>3, <2>4, <2>5, <2>6 DEF Advances
  <2> QED BY <2>7 DEF t
<1>7. CASE s.ready /\ ~ Waits(SubSeq(s.smes, 1, n), SumTo(sizes, n))
  <2>1. t = [Transmit(s, SubSeq(s.smes, 1, n)) EXCEPT
               !.smes = SubSeq(s.smes, n + 1, Len(s.smes))]
    BY <1>3, <1>7, Zenon
  <2>2. Advances(s, t)
    BY <1>4, <1>7, <2>1, TransmitAdvances, Zenon
  <2> QED BY <2>2 DEF t
<1> QED BY <1>5, <1>6, <1>7

-----------------------------------------------------------------------------
(* The invariant of the session, and the operations that preserve it.      *)

(* Without a session there is nothing to transmit but what the key         *)
(* exchange has left in the queue.                                         *)
Idle(s) ==
  /\ ~ s.ready /\ s.smes = <<>> /\ s.list = <<>>
  /\ \A i \in DOMAIN s.queue : ~ IsPayload(s.queue[i])

Good(s, isUp, clients, g, a) ==
  /\ s \in Sessions /\ Tracked(s) /\ OneBatch(s)
  /\ s.connected \subseteq clients /\ s.granted \subseteq clients
  /\ \A i \in DOMAIN s.list : s.list[i] \in clients
  /\ IF isUp THEN g <= a /\ Order(s, g, a) ELSE Idle(s)

(* try_transmission keeps a good record good.                              *)
LEMMA GoodTry ==
  ASSUME NEW s, NEW isUp, NEW clients, NEW g, NEW a, Good(s, isUp, clients, g, a)
  PROVE  Good(TryTransmission(s), isUp, clients, g, a)
         /\ TryTransmission(s).connected = s.connected
<1> DEFINE t == TryTransmission(s)
<1>1. Advances(s, t)
  BY TryAdvances DEF Good
<1> HIDE DEF t
<1>2. /\ t \in Sessions /\ Tracked(t) /\ OneBatch(t) /\ t.connected = s.connected
      /\ t.connected \subseteq clients /\ t.granted \subseteq clients
  BY <1>1 DEF Advances, Good
<1>3. \A i \in DOMAIN t.list : t.list[i] \in clients
  BY <1>1 DEF Advances, Good
<1>4. IF isUp THEN g <= a /\ Order(t, g, a) ELSE Idle(t)
  <2>1. CASE isUp
    BY <1>1, <2>1 DEF Advances, Good
  <2>2. CASE ~ isUp
    <3>1. t = s
      BY <1>1, <2>2 DEF Advances, Good, Idle
    <3> QED BY <2>2, <3>1 DEF Good
  <2> QED BY <2>1, <2>2
<1>5. Good(t, isUp, clients, g, a)
  BY <1>2, <1>3, <1>4 DEF Good
<1> QED BY <1>2, <1>5 DEF t

(* So does destroying the requests of some clients.                        *)
LEMMA GoodDrop ==
  ASSUME NEW s, NEW isUp, NEW clients, NEW g, NEW a, Good(s, isUp, clients, g, a), NEW gone
  PROVE  /\ Good(Drop(s, gone), isUp, clients, g, a)
         /\ Drop(s, gone).connected = s.connected
         /\ \A i \in DOMAIN Drop(s, gone).list : Drop(s, gone).list[i] \notin gone
<1> DEFINE t == Drop(s, gone)
<1>1. s \in Sessions /\ Tracked(s)
  BY DEF Good
<1>2. /\ t \in Sessions /\ Tracked(t) /\ OnlyRequests(s, t) /\ t.granted = s.granted
      /\ t.list = Excluding(s.list, gone)
  BY <1>1, DropView, DropTracked
<1> HIDE DEF t
<1>3. \A i \in DOMAIN t.list : t.list[i] \notin gone
  BY <1>1, <1>2, SessionFields, ExcludingView
<1>4. /\ t.connected = s.connected
      /\ t.ready = s.ready /\ t.smes = s.smes /\ t.queue = s.queue
      /\ \A i \in DOMAIN t.list : \E j \in DOMAIN s.list : t.list[i] = s.list[j]
  BY <1>2 DEF OnlyRequests
<1>5. t.connected \subseteq clients /\ t.granted \subseteq clients
      /\ \A i \in DOMAIN t.list : t.list[i] \in clients
  BY <1>2, <1>4 DEF Good
<1>6. OneBatch(t) /\ \A m, n : Order(s, m, n) => Order(t, m, n)
  BY <1>4, OrderDepends DEF Good
<1>7. IF isUp THEN g <= a /\ Order(t, g, a) ELSE Idle(t)
  <2>1. CASE isUp
    BY <1>6, <2>1 DEF Good
  <2>2. CASE ~ isUp
    <3>1. s.list = <<>> /\ ~ s.ready /\ s.smes = <<>>
            /\ \A i \in DOMAIN s.queue : ~ IsPayload(s.queue[i])
      BY <2>2 DEF Good, Idle
    <3>2. DOMAIN s.list = {}
      BY <3>1
    <3>3. t.list \in Seq(Clients) /\ DOMAIN t.list = {}
      BY <1>2, <1>4, <3>2, SessionFields
    <3>4. t.list = <<>>
      <4> DEFINE l == t.list
      <4>1. l \in Seq(Clients) /\ DOMAIN l = {}
        BY <3>3
      <4> HIDE DEF l
      <4>2. Len(l) = 0
        BY <4>1
      <4>3. l = <<>>
        BY <4>1, <4>2
      <4> QED BY <4>3 DEF l
    <3> QED BY <1>4, <2>2, <3>1, <3>4 DEF Idle
  <2> QED BY <2>1, <2>2
<1>8. Good(t, isUp, clients, g, a)
  BY <1>2, <1>5, <1>6, <1>7 DEF Good
<1> QED BY <1>3, <1>4, <1>8 DEF t

(* Connections, grants and the cork task do not matter for the rest.       *)
LEMMA GoodSame ==
  ASSUME NEW s, NEW isUp, NEW clients, NEW g, NEW a, Good(s, isUp, clients, g, a),
         NEW t, NEW present, t \in Sessions, t.ready = s.ready, t.list = s.list, t.smes = s.smes,
         t.queue = s.queue, t.car = s.car,
         t.connected \subseteq present, t.granted \subseteq present,
         \A i \in DOMAIN t.list : t.list[i] \in present
  PROVE  Good(t, isUp, present, g, a)
<1>1. Tracked(t)
  BY DEF Good, Tracked
<1>2. OneBatch(t) /\ \A m, n : Order(s, m, n) => Order(t, m, n)
  BY OrderDepends DEF Good
<1>3. IF isUp THEN g <= a /\ Order(t, g, a) ELSE Idle(t)
  <2>1. CASE isUp
    BY <1>2, <2>1 DEF Good
  <2>2. CASE ~ isUp
    BY <2>2 DEF Good, Idle
  <2> QED BY <2>1, <2>2
<1> QED BY <1>1, <1>2, <1>3 DEF Good

(* GSC_SESSIONS_queue_request puts a request in front of the list.         *)
WithRequest(s, c, request) == [s EXCEPT !.list = <<c>> \o s.list, !.car[c] = request]

(* So does queueing a request of a client that has none                    *)
(* (GSC_SESSIONS_queue_request).                                           *)
LEMMA GoodRequest ==
  ASSUME NEW s, NEW clients, NEW g, NEW a, Good(s, TRUE, clients, g, a),
         NEW c \in Clients, c \in clients, NEW request \in Requests,
         \A i \in DOMAIN s.list : s.list[i] # c
  PROVE  /\ Good(WithRequest(s, c, request), TRUE, clients, g, a)
         /\ WithRequest(s, c, request).connected = s.connected
<1> DEFINE l == <<c>> \o s.list
           r == [s.car EXCEPT ![c] = request]
           t == WithRequest(s, c, request)
<1>1. s \in Sessions /\ s.list \in Seq(Clients) /\ s.car \in [Clients -> Requests \cup {NoRequest}]
  BY SessionFields DEF Good
<1>2. InFront(l, c, s.list, Clients)
  BY <1>1, FrontView
<1>3. /\ r \in [Clients -> Requests \cup {NoRequest}]
      /\ \A d \in Clients : r[d] = IF d = c THEN request ELSE s.car[d]
  BY <1>1
<1>4. t = [s EXCEPT !.list = l, !.car = r]
  BY <1>1 DEF Sessions, WithRequest
<1> HIDE DEF l, r, t
<1>5. /\ l \in Seq(Clients) /\ 1 \in DOMAIN l /\ l[1] = c
      /\ \A i \in DOMAIN l : i # 1 => i - 1 \in DOMAIN s.list /\ l[i] = s.list[i - 1]
      /\ \A i \in DOMAIN s.list : i + 1 \in DOMAIN l /\ l[i + 1] = s.list[i]
      /\ \A i \in DOMAIN l : i \in Nat
  BY <1>1, <1>2 DEF InFront
<1>6. /\ t \in Sessions /\ t.list = l /\ t.car = r /\ t.ready = s.ready /\ t.smes = s.smes
      /\ t.queue = s.queue /\ t.connected = s.connected /\ t.granted = s.granted
  BY <1>1, <1>3, <1>4, <1>5 DEF Sessions
<1>7. ASSUME NEW d \in Clients PROVE r[d] # NoRequest <=> \E i \in DOMAIN l : l[i] = d
  <2>1. CASE d = c
    BY <1>3, <1>5, <2>1, NoRequestAssumption
  <2>2. CASE d # c
    <3>1. r[d] # NoRequest <=> \E i \in DOMAIN s.list : s.list[i] = d
      BY <1>3, <2>2 DEF Good, Tracked
    <3>2. (\E i \in DOMAIN s.list : s.list[i] = d) => \E i \in DOMAIN l : l[i] = d
      BY <1>5
    <3>3. (\E i \in DOMAIN l : l[i] = d) => \E i \in DOMAIN s.list : s.list[i] = d
      BY <1>5, <2>2
    <3> QED BY <3>1, <3>2, <3>3
  <2> QED BY <2>1, <2>2
<1>8. ASSUME NEW i \in DOMAIN l, NEW j \in DOMAIN l, l[i] = l[j] PROVE i = j
  <2>1. CASE i = 1 \/ j = 1
    BY <1>5, <1>8, <2>1
  <2>2. CASE i # 1 /\ j # 1
    <3>1. i - 1 = j - 1
      BY <1>5, <1>8, <2>2 DEF Good, Tracked
    <3> QED BY <1>5, <3>1
  <2> QED BY <2>1, <2>2
<1>9. Tracked(t)
  BY <1>6, <1>7, <1>8 DEF Tracked
<1>10. OneBatch(t) /\ \A m, n : Order(s, m, n) => Order(t, m, n)
  BY <1>6, OrderDepends DEF Good
<1>11. \A i \in DOMAIN t.list : t.list[i] \in clients
  BY <1>5, <1>6 DEF Good
<1>12. Good(t, TRUE, clients, g, a)
  BY <1>6, <1>9, <1>10, <1>11 DEF Good
<1> QED BY <1>6, <1>12 DEF t

(* Only smes and queue change from s to t.                                 *)
OnlyMessages(s, t, r, m, q) ==
  /\ t \in Sessions /\ t.ready = r /\ t.smes = m /\ t.queue = q
  /\ t.list = s.list /\ t.car = s.car
  /\ t.connected = s.connected /\ t.granted = s.granted

(* A step that only moves messages needs to keep only their order and the  *)
(* single batch.                                                           *)
LEMMA OnlyMessagesGood ==
  ASSUME NEW s, NEW t, NEW r, NEW m, NEW q, NEW isUp, NEW clients, NEW g, NEW a,
         Good(s, isUp, clients, g, a), OnlyMessages(s, t, r, m, q), OneBatch(t),
         NEW h, NEW b, IF isUp THEN h <= b /\ Order(t, h, b) ELSE Idle(t)
  PROVE  Good(t, isUp, clients, h, b)
<1>1. Tracked(t)
  BY DEF Good, OnlyMessages, Tracked
<1> QED BY <1>1 DEF Good, OnlyMessages

(* A type map in front of the messages.                                    *)
LEMMA GoodFront ==
  ASSUME NEW s, NEW clients, NEW g, NEW a, Good(s, TRUE, clients, g, a),
         NEW e \in Messages, e.id = 0
  PROVE  LET t == [s EXCEPT !.smes = <<e>> \o s.smes]
         IN  Good(t, TRUE, clients, g, a) /\ t.connected = s.connected
<1> DEFINE t == [s EXCEPT !.smes = <<e>> \o s.smes]
           m == <<e>> \o s.smes
<1>1. s \in Sessions /\ s.smes \in Seq(Messages) /\ Order(s, g, a) /\ OneBatch(s) /\ g <= a
  BY SessionFields DEF Good
<1>2. InFront(m, e, s.smes, Messages)
  BY <1>1, FrontView
<1>3. t = [s EXCEPT !.smes = m]
  OBVIOUS
<1> HIDE DEF m, t
<1>4. /\ m \in Seq(Messages) /\ 1 \in DOMAIN m /\ m[1].id = 0
      /\ \A i \in DOMAIN m : i # 1 => i - 1 \in DOMAIN s.smes /\ m[i] = s.smes[i - 1]
      /\ \A i \in DOMAIN s.smes : i + 1 \in DOMAIN m /\ m[i + 1] = s.smes[i]
      /\ \A i \in DOMAIN m : i \in Nat
  BY <1>1, <1>2 DEF InFront
<1>5. OnlyMessages(s, t, s.ready, m, s.queue)
  BY <1>1, <1>3, <1>4 DEF Sessions, OnlyMessages
<1>6. \A i \in DOMAIN m : m[i].id > 0 => i # 1
  BY <1>4
<1>7. Increasing(m)
  <2> SUFFICES ASSUME NEW i \in DOMAIN m, NEW j \in DOMAIN m, i < j, m[i].id > 0, m[j].id > 0
               PROVE  m[i].id < m[j].id
    BY Zenon DEF Increasing
  <2>1. /\ i - 1 \in DOMAIN s.smes /\ m[i] = s.smes[i - 1]
        /\ j - 1 \in DOMAIN s.smes /\ m[j] = s.smes[j - 1]
    BY <1>4, <1>6
  <2>2. i - 1 < j - 1
    BY <1>4
  <2> QED BY <1>1, <2>1, <2>2, Zenon DEF Order, Increasing
<1>8. ASSUME NEW p, Before(p, s.smes) PROVE Before(p, m)
  BY <1>4, <1>6, <1>8 DEF Before
<1>9. ASSUME NEW n, n # 0 PROVE Has(m, n) <=> Has(s.smes, n)
  <2>1. Has(s.smes, n) => Has(m, n)
    BY <1>4 DEF Has
  <2>2. ASSUME NEW i \in DOMAIN m, m[i].id = n PROVE Has(s.smes, n)
    BY <1>4, <1>9, <2>2 DEF Has
  <2> QED BY <2>1, <2>2 DEF Has
<1>10. OneBatch(t)
  BY <1>1, <1>5 DEF OneBatch, OnlyMessages
<1>11. Order(t, g, a)
  <2>1. \A n \in Nat \ {0} : OnTheWay(t, n) <=> OnTheWay(s, n)
    BY <1>5, <1>9 DEF OnTheWay, OnlyMessages
  <2> QED BY <1>1, <1>5, <1>7, <1>8, <2>1 DEF Order, OnlyMessages
<1>12. Good(t, TRUE, clients, g, a)
  BY <1>1, <1>5, <1>10, <1>11, OnlyMessagesGood
<1> QED BY <1>5, <1>12 DEF t, OnlyMessages

(* GSC_SESSIONS_transmit appends the next message.                         *)
WithMessage(s, e) == [s EXCEPT !.smes = Append(s.smes, e)]

(* Accepting a message of a client (GSC_SESSIONS_transmit) keeps a good    *)
(* record good.                                                            *)
LEMMA GoodAppend ==
  ASSUME NEW s, NEW clients, NEW g \in Nat, NEW a \in Nat, Good(s, TRUE, clients, g, a),
         NEW e \in Messages, e.id = a + 1
  PROVE  /\ Good(WithMessage(s, e), TRUE, clients, g, a + 1)
         /\ WithMessage(s, e).connected = s.connected
<1> DEFINE t == WithMessage(s, e)
           m == Append(s.smes, e)
           L == Len(s.smes) + 1
<1>1. /\ s \in Sessions /\ s.smes \in Seq(Messages) /\ s.queue \in Seq(Seq(Messages))
      /\ Order(s, g, a) /\ OneBatch(s) /\ g <= a
  BY SessionFields DEF Good
<1>2. AtEnd(m, e, s.smes, Messages)
  BY <1>1, AppendView
<1>3. t = [s EXCEPT !.smes = m]
  BY DEF WithMessage
<1> HIDE DEF m, t
<1>4. /\ m \in Seq(Messages) /\ L \in DOMAIN m /\ m[L] = e /\ L \in Nat
      /\ \A i \in DOMAIN m : i # L => i \in DOMAIN s.smes
      /\ \A i \in DOMAIN s.smes : i \in DOMAIN m /\ m[i] = s.smes[i] /\ i < L /\ i \in Nat
      /\ \A i \in DOMAIN m : i \in Nat
  BY <1>1, <1>2 DEF AtEnd
<1> HIDE DEF L
<1>5. OnlyMessages(s, t, s.ready, m, s.queue)
  BY <1>1, <1>3, <1>4 DEF Sessions, OnlyMessages
<1>6. /\ \A n \in Nat \ {0} : Has(s.smes, n) => n < a + 1
      /\ \A k \in DOMAIN s.queue : \A n \in Nat \ {0} : Has(s.queue[k], n) => n < a + 1
  <2>1. \A n \in Nat \ {0} : OnTheWay(s, n) => n < a + 1
    BY <1>1 DEF Order
  <2> QED BY <2>1 DEF OnTheWay
<1>7. \A i \in DOMAIN s.smes : s.smes[i].id > 0 => s.smes[i].id < a + 1
  <2>1. \A i \in DOMAIN s.smes : s.smes[i].id \in Nat
    BY <1>1, MessageFields
  <2> QED BY <1>6, <2>1 DEF Has
<1>8. \A k \in DOMAIN s.queue : \A i \in DOMAIN s.queue[k] :
        s.queue[k][i].id > 0 => s.queue[k][i].id < a + 1
  <2>1. \A k \in DOMAIN s.queue : s.queue[k] \in Seq(Messages)
    BY <1>1
  <2>2. \A k \in DOMAIN s.queue : \A i \in DOMAIN s.queue[k] : s.queue[k][i].id \in Nat
    BY <2>1, MessageFields
  <2> QED BY <1>6, <2>2 DEF Has
<1>9. Increasing(m)
  <2> SUFFICES ASSUME NEW i \in DOMAIN m, NEW j \in DOMAIN m, i < j, m[i].id > 0, m[j].id > 0
               PROVE  m[i].id < m[j].id
    BY Zenon DEF Increasing
  <2>1. i # L /\ i \in DOMAIN s.smes /\ m[i] = s.smes[i]
    BY <1>4
  <2>2. CASE j = L
    BY <1>4, <1>7, <2>1, <2>2
  <2>3. CASE j # L
    BY <1>1, <1>4, <2>1, <2>3 DEF Order, Increasing
  <2> QED BY <2>2, <2>3
<1>10. ASSUME NEW k \in DOMAIN s.queue PROVE Before(s.queue[k], m)
  <2> SUFFICES ASSUME NEW i \in DOMAIN s.queue[k], NEW j \in DOMAIN m,
                      s.queue[k][i].id > 0, m[j].id > 0
               PROVE  s.queue[k][i].id < m[j].id
    BY Zenon DEF Before
  <2>1. CASE j = L
    BY <1>4, <1>8, <2>1
  <2>2. CASE j # L
    BY <1>1, <1>4, <2>2 DEF Order, Before
  <2> QED BY <2>1, <2>2
<1>11. ASSUME NEW n PROVE Has(m, n) <=> Has(s.smes, n) \/ n = a + 1
  <2>1. Has(s.smes, n) \/ n = a + 1 => Has(m, n)
    BY <1>4 DEF Has
  <2>2. Has(m, n) => Has(s.smes, n) \/ n = a + 1
    BY <1>4 DEF Has
  <2> QED BY <2>1, <2>2
<1>12. OneBatch(t)
  BY <1>1, <1>5 DEF OneBatch, OnlyMessages
<1>13. Order(t, g, a + 1)
  <2>1. \A n \in Nat \ {0} : OnTheWay(t, n) <=> OnTheWay(s, n) \/ n = a + 1
    BY <1>5, <1>11 DEF OnTheWay, OnlyMessages
  <2>2. \A n \in Nat \ {0} : OnTheWay(s, n) <=> g < n /\ n <= a
    BY <1>1 DEF Order
  <2>3. \A n \in Nat : (g < n /\ n <= a) \/ n = a + 1 <=> g < n /\ n <= a + 1
    BY <1>1
  <2>4. \A n \in Nat \ {0} : OnTheWay(t, n) <=> g < n /\ n <= a + 1
    BY <2>1, <2>2, <2>3
  <2>5. \A k \in DOMAIN t.queue : Increasing(t.queue[k]) /\ Before(t.queue[k], t.smes)
    BY <1>1, <1>5, <1>10 DEF Order, OnlyMessages
  <2> QED BY <1>5, <1>9, <2>4, <2>5 DEF Order, OnlyMessages
<1>14. g <= a + 1
  BY <1>1
<1>15. Good(t, TRUE, clients, g, a + 1)
  BY <1>5, <1>12, <1>13, <1>14, OnlyMessagesGood
<1> QED BY <1>5, <1>15 DEF t, OnlyMessages

(* A message of the key exchange, or of transmit_typemap_task.             *)
LEMMA GoodQueue ==
  ASSUME NEW s, NEW isUp, NEW clients, NEW g, NEW a, Good(s, isUp, clients, g, a),
         NEW b \in Seq(Messages), ~ IsPayload(b)
  PROVE  Good([s EXCEPT !.queue = Append(s.queue, b)], isUp, clients, g, a)
<1> DEFINE t == [s EXCEPT !.queue = Append(s.queue, b)]
           q == Append(s.queue, b)
           L == Len(s.queue) + 1
<1>1. s \in Sessions /\ s.queue \in Seq(Seq(Messages)) /\ OneBatch(s)
  BY SessionFields DEF Good
<1>2. AtEnd(q, b, s.queue, Seq(Messages))
  BY <1>1, AppendView
<1>3. t = [s EXCEPT !.queue = q]
  OBVIOUS
<1> HIDE DEF q, t
<1>4. /\ q \in Seq(Seq(Messages)) /\ L \in DOMAIN q /\ q[L] = b
      /\ \A i \in DOMAIN q : i # L => i \in DOMAIN s.queue
      /\ \A i \in DOMAIN s.queue : i \in DOMAIN q /\ q[i] = s.queue[i]
  BY <1>1, <1>2 DEF AtEnd
<1> HIDE DEF L
<1>5. OnlyMessages(s, t, s.ready, s.smes, q)
  BY <1>1, <1>3, <1>4 DEF Sessions, OnlyMessages
<1>6. /\ Increasing(b) /\ \A p : Before(b, p)
      /\ \A n \in Nat \ {0} : ~ Has(b, n)
  BY NoPayload
<1>7. \A i \in DOMAIN q : IsPayload(q[i]) => i \in DOMAIN s.queue /\ IsPayload(s.queue[i])
  BY <1>4
<1>8. OneBatch(t)
  BY <1>1, <1>5, <1>7 DEF OneBatch, OnlyMessages
<1>9. ASSUME Order(s, g, a) PROVE Order(t, g, a)
  <2>1. \A k \in DOMAIN q : Increasing(q[k]) /\ Before(q[k], s.smes)
    BY <1>4, <1>6, <1>9 DEF Order
  <2>2. ASSUME NEW n \in Nat \ {0}
        PROVE  (\E k \in DOMAIN q : Has(q[k], n)) <=> \E k \in DOMAIN s.queue : Has(s.queue[k], n)
    BY <1>4, <1>6
  <2>3. \A n \in Nat \ {0} : OnTheWay(t, n) <=> OnTheWay(s, n)
    BY <1>5, <2>2 DEF OnTheWay, OnlyMessages
  <2> QED BY <1>5, <1>9, <2>1, <2>3 DEF Order, OnlyMessages
<1>10. ASSUME Idle(s) PROVE Idle(t)
  BY <1>5, <1>7, <1>10 DEF Idle, OnlyMessages
<1>11. IF isUp THEN g <= a /\ Order(t, g, a) ELSE Idle(t)
  BY <1>9, <1>10, Zenon DEF Good
<1>12. Good(t, isUp, clients, g, a)
  BY <1>5, <1>8, <1>11, OnlyMessagesGood
<1> QED BY <1>12 DEF t

(* The message at the head leaves the queue.                               *)
LEMMA GoodTail ==
  ASSUME NEW s, NEW isUp, NEW clients, NEW a \in Nat, given \in Nat,
         Good(s, isUp, clients, given, a), s.queue # <<>>,
         NEW h, h = Highest(Head(s.queue))
  PROVE  /\ Good([s EXCEPT !.queue = Tail(s.queue)], isUp, clients, h, a)
         /\ h = given \/ h \in 0 .. a
<1> DEFINE t == [s EXCEPT !.queue = Tail(s.queue)]
           q == Tail(s.queue)
           b == Head(s.queue)
<1>1. s \in Sessions /\ s.queue \in Seq(Seq(Messages)) /\ OneBatch(s)
  BY SessionFields DEF Good
<1>2. /\ q \in Seq(Seq(Messages)) /\ b = s.queue[1] /\ 1 \in DOMAIN s.queue
      /\ b \in Seq(Messages)
      /\ \A k \in DOMAIN q : k + 1 \in DOMAIN s.queue /\ q[k] = s.queue[k + 1]
      /\ \A i \in DOMAIN s.queue : i = 1 \/ (i - 1 \in DOMAIN q /\ q[i - 1] = s.queue[i])
      /\ \A k \in DOMAIN q : k \in Nat \ {0}
  BY <1>1, TailView
<1>3. t = [s EXCEPT !.queue = q]
  OBVIOUS
<1>4. h = Highest(b)
  OBVIOUS
<1> HIDE DEF q, t, b
<1>5. OnlyMessages(s, t, s.ready, s.smes, q)
  BY <1>1, <1>2, <1>3 DEF Sessions, OnlyMessages
<1>6. OneBatch(t)
  <2>1. \A i, j \in DOMAIN q : i + 1 = j + 1 => i = j
    BY <1>2
  <2>2. \A i, j \in DOMAIN q : IsPayload(q[i]) /\ IsPayload(q[j]) => i = j
    BY <1>1, <1>2, <2>1 DEF OneBatch
  <2>3. s.ready => \A i \in DOMAIN q : ~ IsPayload(q[i])
    BY <1>1, <1>2 DEF OneBatch
  <2> QED BY <1>5, <2>2, <2>3 DEF OneBatch, OnlyMessages
<1>7. ASSUME NEW n PROVE OnTheWay(s, n) <=> OnTheWay(t, n) \/ Has(b, n)
  <2>1. (\E k \in DOMAIN s.queue : Has(s.queue[k], n)) =>
          (\E k \in DOMAIN q : Has(q[k], n)) \/ Has(b, n)
    BY <1>2
  <2>2. (\E k \in DOMAIN q : Has(q[k], n)) \/ Has(b, n) =>
          \E k \in DOMAIN s.queue : Has(s.queue[k], n)
    BY <1>2
  <2> QED BY <1>5, <2>1, <2>2 DEF OnTheWay, OnlyMessages
<1>8. ASSUME Order(s, given, a)
      PROVE  /\ Increasing(t.smes)
             /\ \A k \in DOMAIN t.queue : Increasing(t.queue[k]) /\ Before(t.queue[k], t.smes)
  BY <1>2, <1>5, <1>8 DEF Order, OnlyMessages
<1>9. ASSUME Idle(s) PROVE Idle(t)
  BY <1>2, <1>5, <1>9 DEF Idle, OnlyMessages
<1> DEFINE ids == {b[i].id : i \in DOMAIN b}
<1>10. ids \subseteq Nat /\ \A n : n \in ids <=> Has(b, n)
  BY <1>2, MessageFields DEF Has
<1>11. h = IF ids \subseteq {0} THEN given ELSE CHOOSE n \in ids : \A m \in ids : m <= n
  BY <1>4 DEF Highest
<1> HIDE DEF ids
<1>12. CASE ~ IsPayload(b)
  <2>1. \A n \in Nat \ {0} : ~ Has(b, n)
    BY <1>2, <1>12, NoPayload
  <2>2. h = given
    BY <1>10, <1>11, <2>1
  <2>3. ASSUME isUp PROVE h <= a /\ Order(t, h, a)
    <3>1. Order(s, given, a) /\ given <= a
      BY <2>3 DEF Good
    <3>2. \A n \in Nat \ {0} : OnTheWay(t, n) <=> given < n /\ n <= a
      BY <1>7, <2>1, <3>1 DEF Order
    <3> QED BY <1>8, <2>2, <3>1, <3>2 DEF Order
  <2>4. IF isUp THEN h <= a /\ Order(t, h, a) ELSE Idle(t)
    BY <1>9, <2>3, Zenon DEF Good
  <2>5. Good(t, isUp, clients, h, a)
    BY <1>5, <1>6, <2>4, OnlyMessagesGood
  <2> QED BY <2>2, <2>5 DEF t
<1>13. CASE IsPayload(b)
  <2>1. isUp /\ Order(s, given, a) /\ given <= a
    BY <1>2, <1>13 DEF Good, Idle
  <2>2. PICK n0 \in Nat \ {0} : Has(b, n0)
    BY <1>2, <1>13, NoPayload
  <2>3. \A n \in Nat \ {0} : OnTheWay(s, n) <=> given < n /\ n <= a
    BY <2>1 DEF Order
  <2>4. ASSUME NEW n \in ids PROVE n \in Nat /\ n <= a
    <3>1. n \in Nat /\ OnTheWay(s, n)
      BY <1>7, <1>10, <2>4
    <3>2. CASE n = 0
      BY <3>2
    <3>3. CASE n # 0
      BY <2>3, <3>1, <3>3
    <3> QED BY <3>1, <3>2, <3>3
  <2>5. \E x \in ids : \A y \in ids : y <= x
    BY <1>10, <2>2, <2>4, LargestElement
  <2>6. h \in ids /\ \A m \in ids : m <= h
    BY <1>10, <1>11, <2>2, <2>5
  <2>7. h \in Nat \ {0} /\ Has(b, h) /\ h <= a
    BY <1>10, <2>2, <2>4, <2>6
  <2>8. given < h
    BY <1>7, <2>3, <2>7
  <2>9. \A k \in DOMAIN q : ~ IsPayload(q[k])
    <3>1. \A k \in DOMAIN q : k + 1 # 1
      BY <1>2
    <3> QED BY <1>1, <1>2, <1>13, <3>1 DEF OneBatch
  <2>10. \A k \in DOMAIN q : \A n \in Nat \ {0} : ~ Has(q[k], n)
    BY <1>2, <2>9, NoPayload
  <2>11. ASSUME NEW n \in Nat \ {0} PROVE OnTheWay(t, n) <=> h < n /\ n <= a
    <3>1. ASSUME OnTheWay(t, n) PROVE h < n /\ n <= a
      <4>1. Has(s.smes, n)
        BY <1>5, <2>10, <3>1 DEF OnTheWay, OnlyMessages
      <4>2. Before(b, s.smes)
        BY <1>2, <2>1 DEF Order
      <4>3. h < n
        BY <2>7, <4>1, <4>2 DEF Has, Before
      <4> QED BY <1>7, <2>3, <3>1, <4>3
    <3>2. ASSUME h < n, n <= a PROVE OnTheWay(t, n)
      <4>1. given < n
        BY <2>7, <2>8, <3>2
      <4>2. ~ Has(b, n)
        BY <1>10, <2>6, <2>7, <3>2
      <4> QED BY <1>7, <2>3, <3>2, <4>1, <4>2
    <3> QED BY <3>1, <3>2
  <2>12. Order(t, h, a)
    BY <1>8, <2>1, <2>11 DEF Order
  <2>13. Good(t, isUp, clients, h, a)
    BY <1>5, <1>6, <2>1, <2>7, <2>12, OnlyMessagesGood
  <2> QED BY <2>7, <2>13 DEF t
<1> QED BY <1>12, <1>13

(* An empty queue is reported to the session.                              *)
LEMMA GoodReady ==
  ASSUME NEW s, NEW clients, NEW g, NEW a, Good(s, TRUE, clients, g, a), s.queue = <<>>
  PROVE  LET t == [s EXCEPT !.ready = TRUE]
         IN  Good(t, TRUE, clients, g, a) /\ t.connected = s.connected
<1> DEFINE t == [s EXCEPT !.ready = TRUE]
<1>1. s \in Sessions /\ OneBatch(s) /\ Order(s, g, a) /\ g <= a
  BY DEF Good
<1>2. OnlyMessages(s, t, TRUE, s.smes, s.queue)
  BY <1>1 DEF OnlyMessages, Sessions
<1> HIDE DEF t
<1>3. DOMAIN t.queue = {}
  BY <1>2 DEF OnlyMessages
<1>4. OneBatch(t)
  BY <1>3 DEF OneBatch
<1>5. Order(t, g, a)
  BY <1>1, <1>2, OrderDepends DEF OnlyMessages
<1>6. Good(t, TRUE, clients, g, a)
  BY <1>1, <1>2, <1>4, <1>5, OnlyMessagesGood
<1> QED BY <1>2, <1>6 DEF t, OnlyMessages

(* A deadline of a message passes.                                         *)
LEMMA GoodDeadline ==
  ASSUME NEW s, NEW isUp, NEW clients, NEW g, NEW a, Good(s, isUp, clients, g, a),
         NEW m \in Seq(Messages), DOMAIN m = DOMAIN s.smes, m # <<>>,
         \A i \in DOMAIN m : m[i].id = s.smes[i].id
  PROVE  Good([s EXCEPT !.smes = m], isUp, clients, g, a)
<1> DEFINE t == [s EXCEPT !.smes = m]
<1>1. s \in Sessions /\ OneBatch(s)
  BY DEF Good
<1>2. OnlyMessages(s, t, s.ready, m, s.queue)
  BY <1>1 DEF OnlyMessages, Sessions
<1> HIDE DEF t
<1>3. isUp
  <2> SUFFICES ASSUME ~ isUp PROVE FALSE
    OBVIOUS
  <2>1. s.smes = <<>>
    BY DEF Good, Idle
  <2>2. DOMAIN m = {}
    BY <2>1
  <2>3. Len(m) = 0
    BY <2>2
  <2> QED BY <2>3
<1>4. Order(s, g, a) /\ g <= a
  BY <1>3 DEF Good
<1>5. /\ Increasing(m)
      /\ \A q : Before(q, s.smes) => Before(q, m)
      /\ \A n : Has(m, n) <=> Has(s.smes, n)
  BY <1>4, SameMessages DEF Order
<1>6. \A n : OnTheWay(t, n) <=> OnTheWay(s, n)
  BY <1>2, <1>5 DEF OnTheWay, OnlyMessages
<1>7. Order(t, g, a)
  BY <1>2, <1>4, <1>5, <1>6 DEF Order, OnlyMessages
<1>8. OneBatch(t)
  BY <1>1, <1>2 DEF OneBatch, OnlyMessages
<1>9. Good(t, isUp, clients, g, a)
  BY <1>2, <1>3, <1>4, <1>7, <1>8, OnlyMessagesGood
<1> QED BY <1>9 DEF t

(* GSC_SESSIONS_create finds no message.                                   *)
LEMMA GoodUp ==
  ASSUME NEW s, NEW clients, NEW g, NEW a, Good(s, FALSE, clients, g, a)
  PROVE  Good(s, TRUE, clients, 0, 0)
<1>1. /\ s \in Sessions /\ s.smes = <<>> /\ s.queue \in Seq(Seq(Messages))
      /\ \A i \in DOMAIN s.queue : ~ IsPayload(s.queue[i])
  BY SessionFields DEF Good, Idle
<1>2. \A i \in DOMAIN s.queue : s.queue[i] \in Seq(Messages)
  BY <1>1
<1>3. \A i \in DOMAIN s.queue :
        /\ Increasing(s.queue[i]) /\ Before(s.queue[i], s.smes)
        /\ \A n \in Nat \ {0} : ~ Has(s.queue[i], n)
  BY <1>1, <1>2, NoPayload
<1>4. DOMAIN s.smes = {}
  BY <1>1
<1>5. Increasing(s.smes) /\ \A n : ~ Has(s.smes, n)
  BY <1>4 DEF Increasing, Has
<1>6. \A n \in Nat \ {0} : ~ OnTheWay(s, n) /\ ~ (0 < n /\ n <= 0)
  BY <1>3, <1>5 DEF OnTheWay
<1>7. Order(s, 0, 0)
  BY <1>3, <1>5, <1>6 DEF Order
<1>8. 0 <= 0
  OBVIOUS
<1> QED BY <1>7, <1>8 DEF Good

-----------------------------------------------------------------------------
(* The invariant.                                                          *)

Scalars ==
  /\ up \in BOOLEAN /\ tmap \subseteq MessageTypes /\ told \subseteq MessageTypes
  /\ active \subseteq Clients
  /\ accepted \in 0 .. MaxMessages /\ given \in 0 .. MaxMessages /\ faults \in 0 .. MaxFaults

IInv ==
  /\ Scalars
  /\ Good(State, up, active, given, accepted)
  /\ ConnectedIffMatch

(* The bounds are natural numbers.                                         *)
LEMMA BoundsNat == MaxMessages \in Nat /\ MaxFaults \in Nat
BY BoundsAssumption

(* The record of the session is made of its variables.                     *)
LEMMA StateFields ==
  /\ State.ready = ready /\ State.list = list /\ State.smes = smes /\ State.cork = cork
  /\ State.queue = queue /\ State.connected = connected /\ State.car = car
  /\ State.granted = granted
BY DEF State

(* A step that makes the session s.                                        *)
LEMMA BecomesState ==
  ASSUME NEW s \in Sessions, Becomes(s)
  PROVE  State' = s /\ connected' = s.connected
<1>1. /\ ready' = s.ready /\ list' = s.list /\ smes' = s.smes /\ cork' = s.cork
      /\ queue' = s.queue /\ connected' = s.connected /\ car' = s.car
      /\ granted' = s.granted
  BY DEF Becomes
<1>2. s = [ready |-> s.ready, list |-> s.list, smes |-> s.smes, cork |-> s.cork,
           queue |-> s.queue, connected |-> s.connected, car |-> s.car,
           granted |-> s.granted]
  BY DEF Sessions
<1> QED BY <1>1, <1>2 DEF State

(* How an action that ends in Becomes establishes the invariant.           *)
LEMMA BecomesGood ==
  ASSUME NEW s, Becomes(s), Good(s, up', active', given', accepted')
  PROVE  Good(State, up, active, given, accepted)' /\ connected' = s.connected
<1>1. State' = s /\ connected' = s.connected
  BY BecomesState DEF Good
<1> QED BY <1>1

(* No session and no client: the invariant holds initially.                *)
LEMMA InitInv == Init => IInv
<1> SUFFICES ASSUME Init PROVE IInv
  OBVIOUS
<1>1. /\ State \in Sessions /\ ~ State.ready /\ State.smes = <<>> /\ State.list = <<>>
      /\ State.queue = <<>> /\ State.connected = {} /\ State.granted = {}
      /\ State.car = [c \in Clients |-> NoRequest]
  <2>1. /\ ready \in BOOLEAN /\ cork \in BOOLEAN
        /\ connected \subseteq Clients /\ granted \subseteq Clients
    BY Zenon DEF Init
  <2>2. list \in Seq(Clients) /\ smes \in Seq(Messages) /\ queue \in Seq(Seq(Messages))
    BY DEF Init
  <2>3. car \in [Clients -> Requests \cup {NoRequest}]
    BY DEF Init
  <2>4. State \in Sessions
    BY <2>1, <2>2, <2>3 DEF State, Sessions
  <2> QED BY <2>4, StateFields DEF Init
<1>2. DOMAIN State.list = {} /\ DOMAIN State.queue = {}
  BY <1>1
<1>3. Tracked(State) /\ OneBatch(State) /\ Idle(State)
  BY <1>1, <1>2 DEF Tracked, OneBatch, Idle
<1>4. Good(State, up, active, given, accepted)
  BY <1>1, <1>2, <1>3 DEF Good, Init
<1>5. ConnectedIffMatch
  BY DEF Init, ConnectedIffMatch
<1>6. accepted \in 0 .. MaxMessages /\ given \in 0 .. MaxMessages /\ faults \in 0 .. MaxFaults
  BY BoundsNat DEF Init
<1>7. /\ up \in BOOLEAN /\ tmap \subseteq MessageTypes
      /\ told \subseteq MessageTypes /\ active \subseteq Clients
  BY Zenon DEF Init
<1> QED BY <1>4, <1>5, <1>6, <1>7, Zenon DEF IInv, Scalars

(* GSC_SESSIONS_create                                                     *)
LEMMA StepSessionUp ==
  ASSUME IInv, SessionUp
  PROVE  IInv'
<1> DEFINE t == [State EXCEPT !.connected = connected']
<1>1. Good(State, FALSE, active, given, accepted)
  BY Zenon DEF IInv, Scalars, SessionUp
<1>2. connected' \subseteq active
  BY DEF SessionUp
<1>3. State \in Sessions /\ active \subseteq Clients /\ State.granted \subseteq active
        /\ \A i \in DOMAIN State.list : State.list[i] \in active
  BY <1>1 DEF Good, IInv, Scalars
<1>4. t \in Sessions /\ t.connected = connected' /\ t.granted = State.granted
        /\ t.ready = State.ready /\ t.list = State.list /\ t.smes = State.smes
        /\ t.cork = State.cork /\ t.queue = State.queue /\ t.car = State.car
  BY <1>2, <1>3 DEF Sessions
<1> HIDE DEF t
<1>5. Good(t, FALSE, active, given, accepted)
  BY <1>1, <1>2, <1>3, <1>4, GoodSame
<1>6. Good(t, TRUE, active, 0, 0)
  BY <1>5, GoodUp, Zenon
<1>7. Becomes(t)
  BY <1>4, StateFields, Zenon DEF Becomes, SessionUp
<1>8. up' = TRUE /\ active' = active /\ given' = 0 /\ accepted' = 0 /\ tmap' = {} /\ told' = {}
        /\ faults' = faults /\ connected' = {c \in active : Match({}, c)}
  BY DEF SessionUp
<1>9. ConnectedIffMatch'
  BY <1>8 DEF ConnectedIffMatch, Match
<1>10. Scalars'
  BY <1>8, BoundsNat DEF IInv, Scalars
<1>11. Good(State, up, active, given, accepted)'
  BY <1>6, <1>7, <1>8, BecomesGood, Zenon
<1> QED BY <1>9, <1>10, <1>11 DEF IInv

(* GSC_SESSIONS_end leaves nothing behind.                                 *)
LEMMA StepDisconnect ==
  ASSUME IInv, Disconnect
  PROVE  IInv'
<1> DEFINE d == Drop(State, Clients)
           t == EndSession
<1>1. /\ Good(d, up, active, given, accepted)
      /\ \A i \in DOMAIN d.list : d.list[i] \notin Clients
  BY GoodDrop DEF IInv
<1>2. t = [d EXCEPT !.ready = FALSE, !.smes = <<>>, !.cork = FALSE, !.queue = <<>>,
                    !.connected = {}]
  BY DEF EndSession
<1> HIDE DEF d
<1>3. d \in Sessions /\ Tracked(d) /\ d.granted \subseteq active
  BY <1>1 DEF Good
<1> HIDE DEF t
<1>4. /\ t \in Sessions /\ t.ready = FALSE /\ t.smes = <<>> /\ t.queue = <<>>
      /\ t.connected = {} /\ t.list = d.list /\ t.car = d.car /\ t.granted = d.granted
  <2>1. <<>> \in Seq(Messages) /\ <<>> \in Seq(Seq(Messages)) /\ {} \subseteq Clients
    OBVIOUS
  <2> QED BY <1>2, <1>3, <2>1 DEF Sessions
<1>5. DOMAIN d.list = {}
  <2>1. d.list \in Seq(Clients)
    BY <1>3, SessionFields
  <2>2. \A i \in DOMAIN d.list : d.list[i] \in Clients
    BY <2>1
  <2> QED BY <1>1, <2>2
<1>6. t.list = <<>>
  <2> DEFINE l == d.list
  <2>1. l \in Seq(Clients) /\ DOMAIN l = {}
    BY <1>3, <1>5, SessionFields
  <2> HIDE DEF l
  <2>2. Len(l) = 0
    BY <2>1
  <2>3. l = <<>>
    BY <2>1, <2>2
  <2> QED BY <1>4, <2>3 DEF l
<1>7. Tracked(t)
  BY <1>3, <1>4 DEF Tracked
<1>8. DOMAIN t.queue = {} /\ DOMAIN t.list = {}
  BY <1>4, <1>5
<1>9. OneBatch(t) /\ Idle(t)
  BY <1>4, <1>6, <1>8 DEF OneBatch, Idle
<1>10. /\ up' = FALSE /\ tmap' = {} /\ faults' = faults + 1 /\ active' = active
       /\ given' = given /\ accepted' = accepted /\ told' = told /\ faults < MaxFaults
       /\ Becomes(t)
  BY DEF Disconnect, counts, t
<1>11. Good(t, up', active', given', accepted')
  BY <1>3, <1>4, <1>7, <1>8, <1>9, <1>10 DEF Good
<1>12. Good(State, up, active, given, accepted)' /\ connected' = t.connected
  BY <1>10, <1>11, BecomesGood, Zenon
<1>13. ConnectedIffMatch'
  BY <1>4, <1>10, <1>12 DEF ConnectedIffMatch
<1>14. Scalars'
  <2>1. faults' \in 0 .. MaxFaults
    BY <1>10, BoundsNat DEF IInv, Scalars
  <2>2. tmap' \subseteq MessageTypes /\ up' \in BOOLEAN
    BY <1>10, Zenon
  <2> QED BY <1>10, <2>1, <2>2, Zenon DEF IInv, Scalars
<1> QED BY <1>12, <1>13, <1>14 DEF IInv

(* A message that is not of a client goes into the queue of the neighbour. *)
LEMMA StepQueue ==
  ASSUME IInv, NEW b \in Seq(Messages), ~ IsPayload(b), queue' = Append(queue, b),
         UNCHANGED <<up, tmap, ready, list, smes, cork, connected, car, granted, active,
                     counts, faults>>
  PROVE  IInv'
<1> DEFINE t == [State EXCEPT !.queue = Append(State.queue, b)]
<1>1. Good(t, up, active, given, accepted) /\ State \in Sessions
  BY GoodQueue DEF IInv, Good
<1>2. t.queue = Append(queue, b) /\ t.connected = State.connected /\ t.granted = State.granted
        /\ t.ready = State.ready /\ t.list = State.list /\ t.smes = State.smes
        /\ t.cork = State.cork /\ t.car = State.car
  BY <1>1, StateFields DEF Sessions
<1> HIDE DEF t
<1>3. /\ up' = up /\ active' = active /\ given' = given /\ accepted' = accepted
      /\ tmap' = tmap /\ told' = told /\ faults' = faults /\ connected' = connected
  BY DEF counts
<1>4. Becomes(t)
  BY <1>2, StateFields, Zenon DEF Becomes
<1>5. Good(State, up, active, given, accepted)'
  BY <1>1, <1>3, <1>4, BecomesGood, Zenon
<1>6. ConnectedIffMatch' /\ Scalars'
  BY <1>3 DEF ConnectedIffMatch, Scalars, IInv
<1> QED BY <1>5, <1>6 DEF IInv

(* GSC_NEIGHBOURS_transmit of a message of the key exchange.               *)
LEMMA StepControlMessage ==
  ASSUME IInv, ControlMessage
  PROVE  IInv'
<1>1. Control \in Seq(Messages) /\ ~ IsPayload(Control)
  <2>1. Control \in Seq(Messages) /\ DOMAIN Control = {}
    BY DEF Control
  <2> QED BY <2>1 DEF IsPayload
<1> QED BY <1>1, StepQueue, Zenon DEF ControlMessage

(* The type map of a set of clients is a message.                          *)
LEMMA MapIsMessage ==
  ASSUME NEW C \in SUBSET Clients
  PROVE  /\ MapOf(C) \subseteq MessageTypes
         /\ MapMessage(MapOf(C)) \in Messages /\ MapMessage(MapOf(C)).id = 0
<1>1. MapOf(C) \subseteq MessageTypes
  BY TypesAssumption DEF MapOf
<1> HIDE DEF MapOf
<1>2. MapMessage(MapOf(C)) \in Messages /\ MapMessage(MapOf(C)).id = 0
  BY <1>1 DEF MapMessage, Messages
<1> QED BY <1>1, <1>2

(* transmit_typemap_task                                                   *)
LEMMA StepTypemapTask ==
  ASSUME IInv, TypemapTask
  PROVE  IInv'
<1> DEFINE e == MapMessage(MyMap)
<1>1. e \in Messages /\ e.id = 0
  BY MapIsMessage DEF MyMap, IInv, Scalars
<1>2. queue' = Append(queue, <<e>>)
  BY DEF TypemapTask
<1> HIDE DEF e
<1>3. <<e>> \in Seq(Messages) /\ DOMAIN <<e>> = {1} /\ <<e>>[1] = e
  BY <1>1
<1>4. ~ IsPayload(<<e>>)
  BY <1>1, <1>3 DEF IsPayload
<1> QED BY <1>2, <1>3, <1>4, StepQueue, Zenon DEF TypemapTask

(* What a batch tells the peer is a type map.                              *)
LEMMA LastMapType ==
  ASSUME told \subseteq MessageTypes, NEW b \in Seq(Messages)
  PROVE  LastMap(b) \subseteq MessageTypes
<1> DEFINE maps == {i \in DOMAIN b : b[i].id = 0}
<1>1. CASE maps = {}
  BY <1>1 DEF LastMap
<1>2. CASE maps # {}
  <2> DEFINE k == CHOOSE i \in maps : \A j \in maps : j <= i
  <2>1. maps \subseteq Nat /\ Len(b) \in Nat /\ \A i \in maps : i <= Len(b)
    OBVIOUS
  <2>2. \E i \in maps : \A j \in maps : j <= i
    <3> HIDE DEF maps
    <3> QED BY <1>2, <2>1, LargestElement
  <2>3. k \in maps
    BY <2>2
  <2>4. LastMap(b) = b[k].map
    BY <1>2 DEF LastMap
  <2> HIDE DEF k
  <2>5. b[k] \in Messages
    BY <2>3
  <2> QED BY <2>4, <2>5 DEF Messages
<1> QED BY <1>1, <1>2

(* transmit_ready of the neighbour, with a buffer or with an error.        *)
LEMMA StepTransportReady ==
  ASSUME IInv, NEW ok \in BOOLEAN, TransportReady(ok)
  PROVE  IInv'
<1> DEFINE s == [State EXCEPT !.queue = Tail(State.queue)]
           t == Emptied(s)
<1>1. /\ given \in Nat /\ accepted \in Nat /\ State.queue # <<>> /\ State.queue = queue
      /\ Good(State, up, active, given, accepted)
  BY StateFields DEF IInv, Scalars, TransportReady
<1>2. given' = Highest(Head(State.queue))
  BY <1>1 DEF TransportReady
<1>3. Good(s, up, active, given', accepted) /\ (given' = given \/ given' \in 0 .. accepted)
  BY <1>1, <1>2, GoodTail, Zenon
<1>4. s.connected = State.connected
  BY <1>1 DEF Good, Sessions
<1>5. Becomes(t)
  BY <1>1 DEF TransportReady, State
<1>6. /\ up' = up /\ active' = active /\ accepted' = accepted /\ tmap' = tmap
      /\ told' = (IF ok THEN LastMap(Head(State.queue)) ELSE told)
      /\ faults' = (IF ok THEN faults ELSE faults + 1) /\ (ok \/ faults < MaxFaults)
  BY <1>1 DEF TransportReady
<1> HIDE DEF s
<1>7. Good(t, up, active, given', accepted) /\ t.connected = State.connected
  <2>1. CASE up /\ s.queue = <<>>
    <3> DEFINE r == [s EXCEPT !.ready = TRUE]
    <3>1. t = TryTransmission(r)
      BY <2>1 DEF Emptied
    <3>2. up = TRUE
      BY <2>1, Zenon DEF IInv, Scalars
    <3>3. Good(r, TRUE, active, given', accepted) /\ r.connected = s.connected
      BY <1>3, <2>1, <3>2, GoodReady, Zenon
    <3> HIDE DEF r, t
    <3>4. Good(TryTransmission(r), TRUE, active, given', accepted)
            /\ TryTransmission(r).connected = r.connected
      BY <3>3, GoodTry, Zenon
    <3> QED BY <1>4, <3>1, <3>2, <3>3, <3>4, Zenon
  <2>2. CASE ~ (up /\ s.queue = <<>>)
    <3>1. t = s
      BY <2>2 DEF Emptied
    <3> QED BY <1>3, <1>4, <3>1, Zenon
  <2> QED BY <2>1, <2>2
<1> HIDE DEF t
<1>8. Good(State, up, active, given, accepted)' /\ connected' = connected
  <2>1. Good(t, up', active', given', accepted')
    BY <1>6, <1>7, Zenon
  <2> QED BY <1>5, <1>7, <2>1, BecomesGood, StateFields, Zenon
<1>9. ConnectedIffMatch'
  BY <1>6, <1>8 DEF ConnectedIffMatch, IInv
<1>10. Scalars'
  <2>1. Head(State.queue) \in Seq(Messages)
    BY <1>1, SessionFields, TailView DEF Good
  <2>2. LastMap(Head(State.queue)) \subseteq MessageTypes
    BY <2>1, LastMapType DEF IInv, Scalars
  <2>3. told' \subseteq MessageTypes
    BY <1>6, <2>2 DEF IInv, Scalars
  <2>4. given' \in 0 .. MaxMessages
    BY <1>3, BoundsNat DEF IInv, Scalars
  <2>5. faults' \in 0 .. MaxFaults
    BY <1>6, BoundsNat DEF IInv, Scalars
  <2> QED BY <1>6, <2>3, <2>4, <2>5 DEF IInv, Scalars
<1> QED BY <1>8, <1>9, <1>10 DEF IInv

(* An action whose last state is Good, with the connections that it needs. *)
LEMMA StepBecomes ==
  ASSUME NEW t, Becomes(t), Good(t, up', active', given', accepted'), Scalars',
         t.connected = {c \in active' : up' /\ Match(tmap', c)}
  PROVE  IInv'
<1>1. Good(State, up, active, given, accepted)' /\ connected' = t.connected
  BY BecomesGood, Zenon
<1>2. ConnectedIffMatch'
  BY <1>1 DEF ConnectedIffMatch, Match
<1> QED BY <1>1, <1>2 DEF IInv

(* Time passes the deadline of a message that is held back.                *)
LEMMA StepDeadlinePasses ==
  ASSUME IInv, DeadlinePasses
  PROVE  IInv'
<1>1. PICK i \in DOMAIN smes :
        /\ smes' = [smes EXCEPT ![i].corked = FALSE]
        /\ UNCHANGED <<up, tmap, ready, list, cork, queue, connected, car, granted, active,
                       counts, faults>>
  BY DEF DeadlinePasses
<1> DEFINE m == smes'
           t == [State EXCEPT !.smes = m]
<1>2. State \in Sessions /\ smes \in Seq(Messages) /\ State.smes = smes
  BY SessionFields, StateFields DEF IInv, Good
<1>3. smes[i] \in Messages /\ [smes[i] EXCEPT !.corked = FALSE] \in Messages
        /\ [smes[i] EXCEPT !.corked = FALSE].id = smes[i].id
  <2>1. smes[i] \in Messages
    BY <1>2
  <2> QED BY <2>1 DEF Messages
<1>4. /\ m \in Seq(Messages) /\ DOMAIN m = DOMAIN smes /\ i \in DOMAIN m
      /\ \A j \in DOMAIN m : m[j].id = smes[j].id
  BY <1>1, <1>2, <1>3
<1>5. m # <<>>
  BY <1>4
<1>6. Good(t, up, active, given, accepted)
  BY <1>2, <1>4, <1>5, GoodDeadline DEF IInv
<1>7. t.smes = smes' /\ t.connected = State.connected /\ t.granted = State.granted
        /\ t.ready = State.ready /\ t.list = State.list /\ t.queue = State.queue
        /\ t.cork = State.cork /\ t.car = State.car
  BY <1>2 DEF Sessions
<1> HIDE DEF t
<1>8. Becomes(t)
  BY <1>1, <1>7, StateFields, Zenon DEF Becomes
<1>9. /\ up' = up /\ active' = active /\ given' = given /\ accepted' = accepted
      /\ tmap' = tmap /\ told' = told /\ faults' = faults
  BY <1>1 DEF counts
<1>10. t.connected = {c \in active' : up' /\ Match(tmap', c)} /\ Scalars'
  BY <1>7, <1>9, StateFields DEF IInv, ConnectedIffMatch, Scalars
<1>11. Good(t, up', active', given', accepted')
  BY <1>6, <1>9
<1> QED BY <1>8, <1>10, <1>11, StepBecomes

(* pop_cork_task                                                           *)
LEMMA StepPopCork ==
  ASSUME IInv, PopCork
  PROVE  IInv'
<1> DEFINE s == [State EXCEPT !.cork = FALSE]
           t == TryTransmission(s)
<1>1. State \in Sessions /\ Good(State, up, active, given, accepted)
  BY DEF IInv, Good
<1>2. s \in Sessions /\ s.connected = State.connected /\ s.granted = State.granted
        /\ s.ready = State.ready /\ s.list = State.list /\ s.queue = State.queue
        /\ s.smes = State.smes /\ s.car = State.car
  BY <1>1 DEF Sessions
<1>3. Becomes(t)
  BY DEF PopCork
<1> HIDE DEF s
<1>4. Good(s, up, active, given, accepted)
  <2>1. s.connected \subseteq active /\ s.granted \subseteq active
          /\ \A i \in DOMAIN s.list : s.list[i] \in active
    BY <1>1, <1>2 DEF Good
  <2> QED BY <1>1, <1>2, <2>1, GoodSame
<1>5. Good(t, up, active, given, accepted) /\ t.connected = connected
  BY <1>2, <1>4, GoodTry, StateFields
<1> HIDE DEF t
<1>6. /\ up' = up /\ active' = active /\ given' = given /\ accepted' = accepted
      /\ tmap' = tmap /\ told' = told /\ faults' = faults
  BY DEF PopCork, counts
<1>7. t.connected = {c \in active' : up' /\ Match(tmap', c)} /\ Scalars'
  BY <1>5, <1>6 DEF IInv, ConnectedIffMatch, Scalars
<1> QED BY <1>3, <1>5, <1>6, <1>7, StepBecomes

(* The clients are told exactly of the changes.                            *)
LEMMA NotifyGood ==
  ASSUME NEW s, NEW g, NEW a, Good(s, up, active, g, a), up, active \subseteq Clients,
         s.connected = {c \in active : up /\ Match(tmap, c)}, NEW map
  PROVE  /\ Good(NotifyClients(s, map), up, active, g, a)
         /\ NotifyClients(s, map).connected = {c \in active : up /\ Match(map, c)}
<1> DEFINE t == NotifyClients(s, map)
           C == (s.connected \cup {c \in active : ~ Match(tmap, c) /\ Match(map, c)})
                  \ {c \in active : Match(tmap, c) /\ ~ Match(map, c)}
<1>1. t = [s EXCEPT !.connected = C]
  BY DEF NotifyClients
<1>2. C = {c \in active : up /\ Match(map, c)}
  OBVIOUS
<1>3. C \subseteq active
  OBVIOUS
<1> HIDE DEF C, t
<1>4. s \in Sessions
  BY DEF Good
<1>5. t \in Sessions /\ t.connected = C /\ t.granted = s.granted
        /\ t.ready = s.ready /\ t.list = s.list /\ t.queue = s.queue
        /\ t.smes = s.smes /\ t.car = s.car
  BY <1>1, <1>3, <1>4 DEF Sessions
<1>6. t.connected \subseteq active /\ t.granted \subseteq active
        /\ \A i \in DOMAIN t.list : t.list[i] \in active
  BY <1>3, <1>5 DEF Good
<1>7. Good(t, up, active, g, a)
  BY <1>5, <1>6, GoodSame
<1> QED BY <1>2, <1>5, <1>7 DEF t

(* The peer's type map changes: clients are told, and requests for types   *)
(* that are gone are destroyed.                                            *)
LEMMA StepChangeMap ==
  ASSUME IInv, up, NEW map \in SUBSET MessageTypes, ChangeMap(State, map),
         UNCHANGED <<up, active, counts, faults>>
  PROVE  IInv'
<1> DEFINE t == NotifyClients(State, map)
<1>1. /\ Good(t, up, active, given, accepted)
      /\ t.connected = {c \in active : up /\ Match(map, c)}
  BY NotifyGood, StateFields DEF IInv, Scalars, ConnectedIffMatch
<1>2. Becomes(t) /\ tmap' = map
  BY DEF ChangeMap
<1> HIDE DEF t
<1>3. /\ up' = up /\ active' = active /\ given' = given /\ accepted' = accepted
      /\ told' = told /\ faults' = faults
  BY DEF counts
<1>4. Scalars'
  BY <1>2, <1>3 DEF IInv, Scalars
<1>5. t.connected = {c \in active' : up' /\ Match(tmap', c)}
  BY <1>1, <1>2, <1>3
<1> QED BY <1>1, <1>2, <1>3, <1>4, <1>5, StepBecomes

(* GSC_SESSIONS_set_typemap                                                *)
LEMMA StepSetTypeMap ==
  ASSUME IInv, NEW map \in SUBSET MessageTypes, SetTypeMap(map)
  PROVE  IInv'
BY StepChangeMap, Zenon DEF SetTypeMap

(* GSC_SESSIONS_add_to_typemap, for a message of the peer.                 *)
LEMMA StepInboundMessage ==
  ASSUME IInv, NEW type \in MessageTypes, InboundMessage(type)
  PROVE  IInv'
<1>1. tmap \cup {type} \in SUBSET MessageTypes
  BY DEF IInv, Scalars
<1> QED BY <1>1, StepChangeMap, Zenon DEF InboundMessage

(* A change of the set of clients broadcasts a map and keeps the session   *)
(* good.                                                                   *)
LEMMA SetClientsGood ==
  ASSUME IInv, NEW s, NEW C \in SUBSET Clients, Good(s, up, C, given, accepted), SetClients(s, C)
  PROVE  \E t : Becomes(t) /\ Good(t, up, C, given, accepted) /\ t.connected = s.connected
<1>1. CASE Becomes(s)
  BY <1>1
<1>2. CASE ~ Becomes(s)
  <2> DEFINE e == MapMessage(MapOf(C))
             m == [s EXCEPT !.smes = <<e>> \o s.smes]
             t == TryTransmission(m)
  <2>1. Becomes(Broadcast(s, MapOf(C))) /\ Broadcast(s, MapOf(C)) # s
    BY <1>2, Zenon DEF SetClients
  <2>2. up = TRUE
    BY <2>1, Zenon DEF Broadcast, IInv, Scalars
  <2>3. Becomes(t)
    BY <2>1, <2>2 DEF Broadcast
  <2>4. e \in Messages /\ e.id = 0
    BY MapIsMessage
  <2> HIDE DEF e
  <2>5. Good(m, TRUE, C, given, accepted) /\ m.connected = s.connected
    BY <2>2, <2>4, GoodFront
  <2> HIDE DEF m
  <2>6. Good(t, TRUE, C, given, accepted) /\ t.connected = s.connected
    BY <2>5, GoodTry
  <2> QED BY <2>2, <2>3, <2>6
<1> QED BY <1>1, <1>2

(* handle_client_init                                                      *)
LEMMA StepClientInit ==
  ASSUME IInv, NEW c \in Clients, ClientInit(c)
  PROVE  IInv'
<1> DEFINE C == active \cup {c}
           K == IF up /\ Match(tmap, c) THEN State.connected \cup {c} ELSE State.connected
           s == [State EXCEPT !.connected = K]
<1>1. State \in Sessions /\ Good(State, up, active, given, accepted) /\ active \subseteq Clients
  BY DEF IInv, Good, Scalars
<1>2. K \subseteq C /\ K = {d \in C : up /\ Match(tmap, d)}
  BY StateFields DEF IInv, ConnectedIffMatch
<1>3. SetClients(s, C) /\ active' = C
  BY DEF ClientInit, SetClients
<1>4. C \in SUBSET Clients
  BY <1>1
<1> HIDE DEF K
<1>5. s \in Sessions /\ s.connected = K /\ s.granted = State.granted
        /\ s.ready = State.ready /\ s.list = State.list /\ s.queue = State.queue
        /\ s.smes = State.smes /\ s.car = State.car
  BY <1>1, <1>2, <1>4 DEF Sessions
<1> HIDE DEF s
<1>6. s.granted \subseteq C /\ \A i \in DOMAIN s.list : s.list[i] \in C
  BY <1>1, <1>5 DEF Good
<1> HIDE DEF C
<1>7. Good(s, up, C, given, accepted)
  BY <1>1, <1>2, <1>5, <1>6, GoodSame
<1>8. PICK t : Becomes(t) /\ Good(t, up, C, given, accepted) /\ t.connected = s.connected
  BY <1>3, <1>4, <1>7, SetClientsGood
<1>9. /\ up' = up /\ given' = given /\ accepted' = accepted
      /\ tmap' = tmap /\ told' = told /\ faults' = faults
  BY DEF ClientInit, counts
<1>10. Scalars'
  BY <1>3, <1>4, <1>9 DEF IInv, Scalars
<1>11. t.connected = {d \in active' : up' /\ Match(tmap', d)}
  BY <1>2, <1>3, <1>5, <1>8, <1>9
<1> QED BY <1>3, <1>8, <1>9, <1>10, <1>11, StepBecomes

(* handle_client_disconnect                                                *)
LEMMA StepClientDisconnect ==
  ASSUME IInv, NEW c \in Clients, ClientDisconnect(c)
  PROVE  IInv'
<1> DEFINE C == active \ {c}
           d == Drop(State, {c})
           s == [d EXCEPT !.connected = d.connected \ {c}, !.granted = d.granted \ {c}]
<1>1. active \subseteq Clients
  BY DEF IInv, Scalars
<1>2. /\ Good(d, up, active, given, accepted) /\ d.connected = State.connected
      /\ \A i \in DOMAIN d.list : d.list[i] # c
  <2>1. /\ Good(d, up, active, given, accepted) /\ d.connected = State.connected
        /\ \A i \in DOMAIN d.list : d.list[i] \notin {c}
    BY GoodDrop DEF IInv
  <2> HIDE DEF d
  <2> QED BY <2>1
<1>3. SetClients(s, C) /\ active' = C
  BY DEF ClientDisconnect, SetClients
<1> HIDE DEF d
<1>4. d \in Sessions
  BY <1>2 DEF Good
<1>5. s \in Sessions /\ s.connected = d.connected \ {c} /\ s.granted = d.granted \ {c}
        /\ s.ready = d.ready /\ s.list = d.list /\ s.queue = d.queue
        /\ s.smes = d.smes /\ s.car = d.car
  BY <1>4 DEF Sessions
<1> HIDE DEF s
<1>6. /\ s.connected \subseteq C /\ s.granted \subseteq C
      /\ \A i \in DOMAIN s.list : s.list[i] \in C
  BY <1>2, <1>5 DEF Good
<1>7. C \in SUBSET Clients
  BY <1>1
<1>8. s.connected = {e \in C : up /\ Match(tmap, e)}
  BY <1>2, <1>5, StateFields DEF IInv, ConnectedIffMatch
<1> HIDE DEF C
<1>9. Good(s, up, C, given, accepted)
  BY <1>2, <1>5, <1>6, GoodSame
<1>10. PICK t : Becomes(t) /\ Good(t, up, C, given, accepted) /\ t.connected = s.connected
  BY <1>3, <1>7, <1>9, SetClientsGood
<1>11. /\ up' = up /\ given' = given /\ accepted' = accepted
       /\ tmap' = tmap /\ told' = told /\ faults' = faults + 1 /\ faults < MaxFaults
  BY DEF ClientDisconnect, counts
<1>12. Scalars'
  <2>1. faults' \in 0 .. MaxFaults
    BY <1>11, BoundsNat DEF IInv, Scalars
  <2> QED BY <1>3, <1>7, <1>11, <2>1 DEF IInv, Scalars
<1>13. t.connected = {e \in active' : up' /\ Match(tmap', e)}
  BY <1>3, <1>8, <1>10, <1>11
<1> QED BY <1>3, <1>10, <1>11, <1>12, <1>13, StepBecomes

(* A client gives up its grant.                                            *)
LEMMA GrantGood ==
  ASSUME NEW s, NEW isUp, NEW clients, NEW g, NEW a, Good(s, isUp, clients, g, a), NEW c
  PROVE  LET t == [s EXCEPT !.granted = s.granted \ {c}]
         IN  /\ Good(t, isUp, clients, g, a) /\ t.connected = s.connected
             /\ t.list = s.list /\ t.car = s.car
<1> DEFINE t == [s EXCEPT !.granted = s.granted \ {c}]
<1>1. s \in Sessions
  BY DEF Good
<1>2. t \in Sessions /\ t.connected = s.connected /\ t.granted = s.granted \ {c}
        /\ t.ready = s.ready /\ t.list = s.list /\ t.queue = s.queue
        /\ t.smes = s.smes /\ t.car = s.car
  BY <1>1 DEF Sessions
<1> HIDE DEF t
<1>3. t.connected \subseteq clients /\ t.granted \subseteq clients
        /\ \A i \in DOMAIN t.list : t.list[i] \in clients
  BY <1>2 DEF Good
<1>4. Good(t, isUp, clients, g, a)
  BY <1>2, <1>3, GoodSame
<1> QED BY <1>2, <1>4 DEF t

(* handle_client_send_request                                              *)
LEMMA StepSendRequest ==
  ASSUME IInv, NEW c \in Clients, NEW size \in Sizes, NEW late \in BOOLEAN,
         SendRequest(c, size, late)
  PROVE  IInv'
<1> DEFINE D == Drop(State, {c})
           d == [D EXCEPT !.granted = D.granted \ {c}]
           request == [size |-> size, solicited |-> FALSE, late |-> late]
           r == WithRequest(d, c, request)
           n == [State EXCEPT !.granted = State.granted \ {c}]
<1>1. /\ Good(State, up, active, given, accepted) /\ State.connected = connected
      /\ connected = {e \in active : up /\ Match(tmap, e)} /\ c \in active
  BY StateFields DEF IInv, ConnectedIffMatch, SendRequest
<1>2. Becomes(IF c \notin connected THEN n
              ELSE IF size > MaxSize THEN d
              ELSE TryTransmission(r))
  BY DEF SendRequest, WithRequest
<1>3. Good(n, up, active, given, accepted) /\ n.connected = connected
  BY <1>1, GrantGood
<1>4. /\ Good(D, up, active, given, accepted) /\ D.connected = connected
      /\ \A i \in DOMAIN D.list : D.list[i] # c
  <2>1. /\ Good(D, up, active, given, accepted) /\ D.connected = connected
        /\ \A i \in DOMAIN D.list : D.list[i] \notin {c}
    BY <1>1, GoodDrop
  <2> HIDE DEF D
  <2> QED BY <2>1
<1> HIDE DEF D, n
<1>5. /\ Good(d, up, active, given, accepted) /\ d.connected = connected
      /\ \A i \in DOMAIN d.list : d.list[i] # c
  BY <1>4, GrantGood
<1>6. request \in Requests
  BY SizesAssumption DEF Requests
<1> HIDE DEF d, request
<1>7. ASSUME c \in connected
      PROVE  Good(TryTransmission(r), up, active, given, accepted)
             /\ TryTransmission(r).connected = connected
  <2>1. up = TRUE
    BY <1>1, <1>7, Zenon DEF IInv, Scalars
  <2>2. Good(r, TRUE, active, given, accepted) /\ r.connected = connected
    <3>1. Good(d, TRUE, active, given, accepted)
      BY <1>5, <2>1, Zenon
    <3>2. Good(r, TRUE, active, given, accepted) /\ r.connected = d.connected
      <4>1. c \in active /\ \A i \in DOMAIN d.list : d.list[i] # c
        BY <1>1, <1>5
      <4>2. \A q \in Requests :
              /\ Good(WithRequest(d, c, q), TRUE, active, given, accepted)
              /\ WithRequest(d, c, q).connected = d.connected
        BY <3>1, <4>1, GoodRequest
      <4> QED BY <1>6, <4>2, Zenon
    <3> QED BY <1>5, <3>2, Zenon
  <2> HIDE DEF r
  <2> QED BY <2>1, <2>2, GoodTry
<1> HIDE DEF r
<1>8. PICK t : Becomes(t) /\ Good(t, up, active, given, accepted) /\ t.connected = connected
  <2>1. CASE c \notin connected
    BY <1>2, <1>3, <2>1
  <2>2. CASE c \in connected /\ size > MaxSize
    BY <1>2, <1>5, <2>2
  <2>3. CASE c \in connected /\ ~ (size > MaxSize)
    BY <1>2, <1>7, <2>3
  <2> QED BY <2>1, <2>2, <2>3
<1>9. /\ up' = up /\ active' = active /\ given' = given /\ accepted' = accepted
      /\ tmap' = tmap /\ told' = told /\ faults' = faults
  BY DEF SendRequest, counts
<1>10. Scalars'
  BY <1>9 DEF IInv, Scalars
<1>11. t.connected = {e \in active' : up' /\ Match(tmap', e)}
  BY <1>1, <1>8, <1>9
<1> QED BY <1>8, <1>9, <1>10, <1>11, StepBecomes

(* The deadline of a request passes.                                       *)
LEMMA StepExpire ==
  ASSUME IInv, NEW c \in Clients, Expire(c)
  PROVE  IInv'
<1> DEFINE r == [car[c] EXCEPT !.late = TRUE]
           t == [State EXCEPT !.car = car']
<1>1. State \in Sessions /\ Good(State, up, active, given, accepted) /\ State.car = car
        /\ car \in [Clients -> Requests \cup {NoRequest}]
  BY SessionFields, StateFields DEF IInv, Good
<1>2. car[c] \in Requests
  BY <1>1 DEF Expire
<1>3. r \in Requests
  BY <1>2 DEF Requests
<1>4. car' = [car EXCEPT ![c] = r]
  BY DEF Expire
<1> HIDE DEF r
<1>5. /\ car' \in [Clients -> Requests \cup {NoRequest}]
      /\ \A d \in Clients : car'[d] # NoRequest <=> car[d] # NoRequest
  BY <1>1, <1>2, <1>3, <1>4, NoRequestAssumption
<1>6. t \in Sessions /\ t.connected = State.connected /\ t.granted = State.granted
        /\ t.ready = State.ready /\ t.list = State.list /\ t.queue = State.queue
        /\ t.smes = State.smes /\ t.cork = State.cork /\ t.car = car'
  BY <1>1, <1>5 DEF Sessions
<1> HIDE DEF t
<1>7. Tracked(t)
  BY <1>1, <1>5, <1>6 DEF Good, Tracked
<1>8. OneBatch(t) /\ \A m, n : Order(State, m, n) => Order(t, m, n)
  BY <1>1, <1>6, OrderDepends DEF Good
<1>9. IF up THEN given <= accepted /\ Order(t, given, accepted) ELSE Idle(t)
  <2>1. CASE up
    BY <1>1, <1>8, <2>1 DEF Good
  <2>2. CASE ~ up
    BY <1>1, <1>6, <2>2 DEF Good, Idle
  <2> QED BY <2>1, <2>2
<1>10. Good(t, up, active, given, accepted)
  BY <1>1, <1>6, <1>7, <1>8, <1>9 DEF Good
<1>11. Becomes(t)
  BY <1>6, StateFields, Zenon DEF Becomes, Expire
<1>12. /\ up' = up /\ active' = active /\ given' = given /\ accepted' = accepted
       /\ tmap' = tmap /\ told' = told /\ faults' = faults
  BY DEF Expire, counts
<1>13. t.connected = {d \in active' : up' /\ Match(tmap', d)} /\ Scalars'
  BY <1>6, <1>12, StateFields DEF IInv, ConnectedIffMatch, Scalars
<1> QED BY <1>10, <1>11, <1>12, <1>13, StepBecomes

(* A client that was told SEND_READY does not send.                        *)
LEMMA StepAbandon ==
  ASSUME IInv, NEW c \in Clients, Abandon(c)
  PROVE  IInv'
<1> DEFINE t == [State EXCEPT !.granted = State.granted \ {c}]
<1>1. Good(t, up, active, given, accepted)
  BY GrantGood DEF IInv
<1>2. State \in Sessions
  BY DEF IInv, Good
<1>3. t.connected = State.connected /\ t.granted = granted'
        /\ t.ready = State.ready /\ t.list = State.list /\ t.queue = State.queue
        /\ t.smes = State.smes /\ t.cork = State.cork /\ t.car = State.car
  BY <1>2, StateFields DEF Sessions, Abandon
<1> HIDE DEF t
<1>4. Becomes(t)
  BY <1>3, StateFields, Zenon DEF Becomes, Abandon
<1>5. /\ up' = up /\ active' = active /\ given' = given /\ accepted' = accepted
      /\ tmap' = tmap /\ told' = told /\ faults' = faults
  BY DEF Abandon, counts
<1>6. t.connected = {d \in active' : up' /\ Match(tmap', d)} /\ Scalars'
  BY <1>3, <1>5, StateFields DEF IInv, ConnectedIffMatch, Scalars
<1> QED BY <1>1, <1>4, <1>5, <1>6, StepBecomes

(* handle_client_send                                                      *)
LEMMA StepSendMessage ==
  ASSUME IInv, NEW c \in Clients, NEW type \in MessageTypes, NEW isCorked \in BOOLEAN,
         SendMessage(c, type, isCorked)
  PROVE  IInv'
<1> DEFINE s == [State EXCEPT !.granted = State.granted \ {c}]
           map == IF Monitors \cap active # {} THEN tmap \cup {type} ELSE tmap
           sme == [id |-> accepted + 1, size |-> car[c].size, corked |-> isCorked, map |-> {}]
           n == NotifyClients(s, map)
           m == WithMessage(n, sme)
           x == TryTransmission(m)
           t == Drop(x, {c})
<1>1. /\ Good(State, up, active, given, accepted) /\ State.connected = connected
      /\ State.car = car /\ State \in Sessions
      /\ connected = {e \in active : up /\ Match(tmap, e)} /\ active \subseteq Clients
      /\ accepted \in Nat /\ given \in Nat
  BY StateFields DEF IInv, ConnectedIffMatch, Scalars, Good
<1>2. Good(s, up, active, given, accepted) /\ s.connected = connected
  BY <1>1, GrantGood
<1>3. up' = up /\ active' = active /\ given' = given /\ told' = told /\ faults' = faults
  BY DEF SendMessage
<1>4. CASE car[c] = NoRequest
  <2>1. Becomes(s) /\ tmap' = tmap /\ accepted' = accepted
    BY <1>4 DEF SendMessage
  <2> HIDE DEF s
  <2>2. s.connected = {d \in active' : up' /\ Match(tmap', d)} /\ Scalars'
    BY <1>1, <1>2, <1>3, <2>1 DEF IInv, Scalars
  <2> QED BY <1>2, <1>3, <2>1, <2>2, StepBecomes
<1>5. CASE car[c] # NoRequest
  <2>1. /\ accepted < MaxMessages /\ accepted' = accepted + 1 /\ tmap' = map
        /\ Becomes(t)
    BY <1>5 DEF SendMessage, AddMessage, WithMessage
  <2> HIDE DEF s
  <2>2. up = TRUE
    <3>1. PICK i \in DOMAIN State.list : State.list[i] = c
      BY <1>1, <1>5 DEF Good, Tracked
    <3>2. State.list # <<>>
      BY <3>1
    <3>3. up
      BY <1>1, <3>2 DEF Good, Idle
    <3> QED BY <3>3, Zenon DEF IInv, Scalars
  <2>3. map \subseteq MessageTypes
    BY DEF IInv, Scalars
  <2> HIDE DEF map
  <2>4. Good(n, up, active, given, accepted) /\ n.connected = {e \in active : up /\ Match(map, e)}
    <3>1. s.connected = {e \in active : up /\ Match(tmap, e)}
      BY <1>1, <1>2
    <3> QED BY <1>1, <1>2, <2>2, <3>1, NotifyGood, Zenon
  <2> HIDE DEF n
  <2>5. sme \in Messages /\ sme.id = accepted + 1
    <3>1. car[c] \in Requests
      BY <1>1, <1>5, SessionFields
    <3>2. car[c].size \in Nat /\ accepted + 1 \in Nat /\ {} \subseteq MessageTypes
      BY <1>1, <3>1 DEF Requests
    <3> QED BY <3>2 DEF Messages
  <2> HIDE DEF sme
  <2>6. Good(n, TRUE, active, given, accepted)
    BY <2>2, <2>4, Zenon
  <2>7. Good(m, TRUE, active, given, accepted + 1) /\ m.connected = n.connected
    <3>1. \A e \in Messages : e.id = accepted + 1 =>
            /\ Good(WithMessage(n, e), TRUE, active, given, accepted + 1)
            /\ WithMessage(n, e).connected = n.connected
      BY <1>1, <2>6, GoodAppend
    <3> QED BY <2>5, <3>1, Zenon
  <2> HIDE DEF m
  <2>8. Good(x, TRUE, active, given, accepted + 1) /\ x.connected = n.connected
    BY <2>7, GoodTry, Zenon
  <2> HIDE DEF x
  <2>9. Good(t, TRUE, active, given, accepted + 1) /\ t.connected = n.connected
    BY <2>8, GoodDrop, Zenon
  <2> HIDE DEF t
  <2>10. Scalars'
    <3>1. accepted' \in 0 .. MaxMessages
      BY <1>1, <2>1, BoundsNat DEF IInv, Scalars
    <3> QED BY <1>3, <2>1, <2>3, <3>1 DEF IInv, Scalars
  <2>11. t.connected = {d \in active' : up' /\ Match(tmap', d)}
    BY <1>3, <2>1, <2>4, <2>9
  <2>12. Good(t, up', active', given', accepted')
    BY <1>3, <2>1, <2>2, <2>9, Zenon
  <2> QED BY <2>1, <2>10, <2>11, <2>12, StepBecomes
<1> QED BY <1>4, <1>5

(* Nothing happens.                                                        *)
LEMMA StepStutter ==
  ASSUME IInv, UNCHANGED vars
  PROVE  IInv'
BY DEF IInv, Scalars, ConnectedIffMatch, State, vars, session, counts

(* Every callback keeps the invariant.                                     *)
LEMMA StepInv == IInv /\ [Next]_vars => IInv'
<1> SUFFICES ASSUME IInv, [Next]_vars PROVE IInv'
  OBVIOUS
<1>1. CASE SessionUp
  BY <1>1, StepSessionUp
<1>2. CASE Disconnect
  BY <1>2, StepDisconnect
<1>3. CASE ControlMessage
  BY <1>3, StepControlMessage
<1>4. CASE TypemapTask
  BY <1>4, StepTypemapTask
<1>5. CASE \E ok \in BOOLEAN : TransportReady(ok)
  BY <1>5, StepTransportReady
<1>6. CASE DeadlinePasses
  BY <1>6, StepDeadlinePasses
<1>7. CASE PopCork
  BY <1>7, StepPopCork
<1>8. CASE \E map \in SUBSET MessageTypes : SetTypeMap(map)
  BY <1>8, StepSetTypeMap
<1>9. CASE \E type \in MessageTypes : InboundMessage(type)
  BY <1>9, StepInboundMessage
<1>10. ASSUME NEW c \in Clients, ClientInit(c) PROVE IInv'
  BY <1>10, StepClientInit
<1>11. ASSUME NEW c \in Clients, ClientDisconnect(c) PROVE IInv'
  BY <1>11, StepClientDisconnect
<1>12. ASSUME NEW c \in Clients, Expire(c) \/ Abandon(c) PROVE IInv'
  BY <1>12, StepExpire, StepAbandon
<1>13. ASSUME NEW c \in Clients, NEW size \in Sizes, NEW late \in BOOLEAN,
              SendRequest(c, size, late)
       PROVE  IInv'
  BY <1>13, StepSendRequest
<1>14. ASSUME NEW c \in Clients, NEW type \in MessageTypes, NEW isCorked \in BOOLEAN,
              SendMessage(c, type, isCorked)
       PROVE  IInv'
  BY <1>14, StepSendMessage
<1>15. CASE UNCHANGED vars
  BY <1>15, StepStutter
<1> QED BY <1>1, <1>2, <1>3, <1>4, <1>5, <1>6, <1>7, <1>8, <1>9, <1>10, <1>11, <1>12, <1>13,
           <1>14, <1>15, Zenon DEF Next

(* The invariant holds throughout.                                         *)
LEMMA Invariance == Spec => []IInv
<1>1. Init => IInv
  BY InitInv
<1>2. IInv /\ [Next]_vars => IInv'
  BY StepInv
<1> QED BY <1>1, <1>2, PTL DEF Spec

-----------------------------------------------------------------------------
(* What the invariant implies.                                             *)

(* What the invariant says of types.                                       *)
LEMMA InvTypeOK == IInv => TypeOK
<1> SUFFICES ASSUME IInv PROVE TypeOK
  OBVIOUS
<1>1. State \in Sessions /\ State.connected \subseteq active /\ State.granted \subseteq active
  BY DEF IInv, Good
<1>2. /\ ready \in BOOLEAN /\ list \in Seq(Clients) /\ smes \in Seq(Messages)
      /\ cork \in BOOLEAN /\ queue \in Seq(Seq(Messages))
      /\ car \in [Clients -> Requests \cup {NoRequest}]
      /\ connected \subseteq active /\ granted \subseteq active
  BY <1>1, SessionFields, StateFields
<1> QED BY <1>2, Zenon DEF IInv, Scalars, TypeOK

(* A request is in the list of the session exactly if the table has it.    *)
LEMMA InvTracked == IInv => RequestTracked
<1> SUFFICES ASSUME IInv PROVE RequestTracked
  OBVIOUS
<1>1. Good(State, up, active, given, accepted) /\ State.list = list /\ State.car = car
  BY StateFields DEF IInv
<1>2. State \in Sessions /\ Tracked(State) /\ list \in Seq(Clients)
  BY <1>1, SessionFields DEF Good
<1>3. \A i \in DOMAIN list : list[i] \in Clients
  BY <1>2
<1>4. {list[i] : i \in DOMAIN list} = {c \in Clients : car[c] # NoRequest}
  BY <1>1, <1>2, <1>3 DEF Tracked
<1>5. \A i, j \in DOMAIN list : list[i] = list[j] => i = j
  BY <1>1, <1>2 DEF Tracked
<1>6. list # <<>> => up
  BY <1>1 DEF Good, Idle
<1>7. \A i \in DOMAIN list : list[i] \in active
  BY <1>1 DEF Good
<1> QED BY <1>4, <1>5, <1>6, <1>7 DEF RequestTracked

(* Two sequences of messages, one after the other.                         *)
LEMMA ConcatMessages ==
  ASSUME NEW b \in Seq(Messages), NEW m \in Seq(Messages),
         Increasing(b), Increasing(m), Before(b, m)
  PROVE  /\ b \o m \in Seq(Messages) /\ Increasing(b \o m)
         /\ \A n : Has(b \o m, n) <=> Has(b, n) \/ Has(m, n)
<1> DEFINE o == b \o m
           B == Len(b)
           M == Len(m)
<1>1. /\ o \in Seq(Messages) /\ DOMAIN o = 1 .. B + M /\ B \in Nat /\ M \in Nat
      /\ DOMAIN b = 1 .. B /\ DOMAIN m = 1 .. M
      /\ \A i \in 1 .. B + M : o[i] = IF i <= B THEN b[i] ELSE m[i - B]
  OBVIOUS
<1> HIDE DEF o, B, M
<1>2. \A i \in DOMAIN o : \/ i \in DOMAIN b /\ o[i] = b[i] /\ i <= B
                          \/ i - B \in DOMAIN m /\ o[i] = m[i - B] /\ i > B
  BY <1>1
<1>3. Increasing(o)
  <2> SUFFICES ASSUME NEW i \in DOMAIN o, NEW j \in DOMAIN o, i < j, o[i].id > 0, o[j].id > 0
               PROVE  o[i].id < o[j].id
    BY Zenon DEF Increasing
  <2>1. CASE i \in DOMAIN b /\ o[i] = b[i] /\ j \in DOMAIN b /\ o[j] = b[j]
    BY <2>1 DEF Increasing
  <2>2. CASE i \in DOMAIN b /\ o[i] = b[i] /\ j - B \in DOMAIN m /\ o[j] = m[j - B]
    BY <2>2 DEF Before
  <2>3. CASE i - B \in DOMAIN m /\ o[i] = m[i - B] /\ j - B \in DOMAIN m /\ o[j] = m[j - B]
    <3>1. i - B < j - B
      BY <1>1
    <3> QED BY <2>3, <3>1 DEF Increasing
  <2>4. ~ (i > B /\ j <= B)
    BY <1>1
  <2> QED BY <1>2, <2>1, <2>2, <2>3, <2>4
<1>4. ASSUME NEW n PROVE Has(o, n) <=> Has(b, n) \/ Has(m, n)
  <2>1. Has(o, n) => Has(b, n) \/ Has(m, n)
    BY <1>2 DEF Has
  <2>2. ASSUME NEW i \in DOMAIN b, b[i].id = n PROVE Has(o, n)
    <3>1. i \in DOMAIN o /\ o[i] = b[i]
      BY <1>1
    <3> QED BY <2>2, <3>1 DEF Has
  <2>3. ASSUME NEW i \in DOMAIN m, m[i].id = n PROVE Has(o, n)
    <3>1. i + B \in DOMAIN o /\ o[i + B] = m[i]
      BY <1>1
    <3> QED BY <2>3, <3>1 DEF Has
  <2> QED BY <2>1, <2>2, <2>3 DEF Has
<1> QED BY <1>1, <1>3, <1>4 DEF o

(* Messages leave in the order in which they were accepted.                *)
LEMMA InvInOrder == IInv => InOrder
<1> SUFFICES ASSUME IInv PROVE InOrder
  OBVIOUS
<1> DEFINE batches == {i \in DOMAIN queue : IsPayload(queue[i])}
           sent == IF batches = {} THEN <<>> ELSE queue[CHOOSE i \in batches : TRUE]
           out == sent \o smes
<1>1. /\ Good(State, up, active, given, accepted) /\ State.queue = queue
      /\ State.smes = smes /\ State.ready = ready
  BY StateFields DEF IInv
<1>2. OneBatch(State) /\ queue \in Seq(Seq(Messages)) /\ smes \in Seq(Messages)
  BY <1>1, SessionFields DEF Good
<1>3. \A i, j \in batches : ~ ready /\ i = j
  BY <1>1, <1>2 DEF OneBatch
<1>4. ASSUME up
      PROVE  /\ {out[i].id : i \in DOMAIN out} \ {0} = given + 1 .. accepted
             /\ \A i, j \in DOMAIN out : i < j /\ out[i].id > 0 =>
                  out[j].id = 0 \/ out[i].id < out[j].id
  <2>1. Order(State, given, accepted)
    BY <1>1, <1>4 DEF Good
  <2>2. /\ sent \in Seq(Messages) /\ Increasing(sent) /\ Before(sent, smes)
        /\ \A n \in Nat \ {0} : Has(sent, n) <=> \E k \in DOMAIN queue : Has(queue[k], n)
    <3>1. \A k \in DOMAIN queue : queue[k] \in Seq(Messages)
      BY <1>2
    <3>2. \A k \in DOMAIN queue : k \notin batches => \A n \in Nat \ {0} : ~ Has(queue[k], n)
      BY <3>1, NoPayload
    <3>3. CASE batches = {}
      <4>1. sent = <<>>
        BY <3>3
      <4> HIDE DEF sent
      <4>2. sent \in Seq(Messages) /\ DOMAIN sent = {}
        BY <4>1
      <4>3. Increasing(sent) /\ Before(sent, smes) /\ \A n : ~ Has(sent, n)
        BY <4>2 DEF Increasing, Before, Has
      <4> QED BY <3>2, <3>3, <4>2, <4>3
    <3>4. CASE batches # {}
      <4> DEFINE k == CHOOSE i \in batches : TRUE
      <4>1. k \in batches /\ sent = queue[k]
        BY <3>4
      <4> HIDE DEF k, sent
      <4>2. k \in DOMAIN queue /\ sent \in Seq(Messages)
        BY <3>1, <4>1
      <4>3. Increasing(sent) /\ Before(sent, smes)
        BY <1>1, <2>1, <4>1, <4>2 DEF Order
      <4>4. ASSUME NEW n \in Nat \ {0}, NEW j \in DOMAIN queue, Has(queue[j], n)
            PROVE  Has(sent, n)
        <5>1. j \in batches
          BY <3>2, <4>4
        <5>2. j = k
          BY <1>3, <4>1, <5>1
        <5> QED BY <4>1, <4>4, <5>2
      <4>5. \A n \in Nat \ {0} : Has(sent, n) => \E j \in DOMAIN queue : Has(queue[j], n)
        BY <4>1, <4>2
      <4> QED BY <4>2, <4>3, <4>4, <4>5
    <3> QED BY <3>3, <3>4
  <2> HIDE DEF sent
  <2>3. Increasing(smes)
    BY <1>1, <2>1 DEF Order
  <2>4. /\ out \in Seq(Messages) /\ Increasing(out)
        /\ \A n : Has(out, n) <=> Has(sent, n) \/ Has(smes, n)
    BY <1>2, <2>2, <2>3, ConcatMessages
  <2> HIDE DEF out, batches
  <2>5. \A i \in DOMAIN out : out[i].id \in Nat
    BY <2>4, MessageFields
  <2>6. \A n \in Nat \ {0} : Has(out, n) <=> given < n /\ n <= accepted
    BY <1>1, <2>1, <2>2, <2>4 DEF Order, OnTheWay
  <2>7. given \in Nat /\ accepted \in Nat
    BY DEF IInv, Scalars
  <2>8. \A n : n \in {out[i].id : i \in DOMAIN out} \ {0} <=> n \in Nat \ {0} /\ Has(out, n)
    BY <2>5 DEF Has
  <2>9. \A n : n \in given + 1 .. accepted <=> n \in Nat \ {0} /\ given < n /\ n <= accepted
    BY <2>7
  <2>10. {out[i].id : i \in DOMAIN out} \ {0} = given + 1 .. accepted
    <3> DEFINE A == {out[i].id : i \in DOMAIN out} \ {0}
               B == given + 1 .. accepted
    <3>1. \A n : n \in A <=> n \in B
      BY <2>6, <2>8, <2>9
    <3> HIDE DEF A, B
    <3>2. A = B
      BY <3>1
    <3> QED BY <3>2 DEF A, B
  <2>11. \A i, j \in DOMAIN out : i < j /\ out[i].id > 0 =>
           out[j].id = 0 \/ out[i].id < out[j].id
    BY <2>4, <2>5 DEF Increasing
  <2> QED BY <2>10, <2>11
<1> QED BY <1>3, <1>4 DEF InOrder

(* Type correctness of a session, its clients and its queue.               *)
THEOREM TypeCorrect == Spec => []TypeOK
<1>1. IInv => TypeOK
  BY InvTypeOK
<1> QED BY <1>1, Invariance, PTL

(* The session's list and the clients' tables hold the same requests, each *)
(* once and only while there is a session, for any number of clients: the  *)
(* assertions of GSC_SESSIONS_dequeue_request never fail.                  *)
THEOREM RequestTrackedHolds == Spec => []RequestTracked
<1>1. IInv => RequestTracked
  BY InvTracked
<1> QED BY <1>1, Invariance, PTL

(* A client believes in the connection exactly while its types match the   *)
(* map of the peer.                                                        *)
THEOREM ConnectedIffMatchHolds == Spec => []ConnectedIffMatch
<1>1. IInv => ConnectedIffMatch
  BY DEF IInv
<1> QED BY <1>1, Invariance, PTL

(* Messages of the clients leave the queue in the order in which the       *)
(* session took them, none skipped and none twice, with at most one batch  *)
(* in the queue: for any sizes, corking and any number of type maps.       *)
THEOREM InOrderHolds == Spec => []InOrder
<1>1. IInv => InOrder
  BY InvInOrder
<1> QED BY <1>1, Invariance, PTL

=============================================================================
