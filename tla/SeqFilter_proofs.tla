--------------------------- MODULE SeqFilter_proofs ---------------------------
(* Proofs about Excluding, and facts about sequences that several proofs   *)
(* use.  Induction over the natural numbers is done by looking at the      *)
(* least counterexample.                                                   *)
EXTENDS SeqFilter, WellFoundedInduction, NaturalsInduction, TLAPS

(* A set of natural numbers that is not empty has a least element.         *)
LEMMA LeastElement ==
  ASSUME NEW T, T \subseteq Nat, T # {}
  PROVE  \E x \in T : \A y \in T : x <= y
<1>1. \E R : IsWellFoundedOn(R, Nat) /\ \A x, y \in Nat : <<y, x>> \in R <=> y < x
  <2>1. IsWellFoundedOn(OpToRel(<, Nat), Nat)
    BY NatLessThanWellFounded
  <2>2. \A x, y \in Nat : <<y, x>> \in OpToRel(<, Nat) <=> y < x
    BY DEF OpToRel
  <2> QED BY <2>1, <2>2, Zenon
<1>2. PICK R : IsWellFoundedOn(R, Nat) /\ \A x, y \in Nat : <<y, x>> \in R <=> y < x
  BY <1>1, Zenon
<1>3. PICK x \in T : \A y \in T : ~ (<<y, x>> \in R)
  BY <1>2, WFMin, Zenon
<1>4. ASSUME NEW y \in T PROVE x <= y
  <2>1. x \in Nat /\ y \in Nat
    OBVIOUS
  <2>2. ~ (<<y, x>> \in R)
    BY <1>3
  <2>3. ~ (y < x)
    BY <1>2, <2>1, <2>2
  <2> QED BY <2>1, <2>3
<1> QED BY <1>4

(* Function f follows the recursion of Excluding up to n.                  *)
Follows(f, n, s, gone) ==
  f = [i \in 0 .. n |->
         IF i = 0 THEN <<>>
         ELSE IF s[i] \in gone THEN f[i - 1]
         ELSE Append(f[i - 1], s[i])]

(* The recursion of Excluding defines a function.                          *)
LEMMA FollowsExists ==
  ASSUME NEW A, NEW s \in Seq(A), NEW gone
  PROVE  \E f : Follows(f, Len(s), s, gone)
<1> DEFINE T == {n \in 0 .. Len(s) : ~ \E f : Follows(f, n, s, gone)}
<1>0. Len(s) \in 0 .. Len(s)
  OBVIOUS
<1>1. SUFFICES ASSUME T # {} PROVE FALSE
  BY <1>0, Zenon
<1>2. PICK n \in T : \A m \in T : n <= m
  <2>1. T \subseteq Nat
    OBVIOUS
  <2> HIDE DEF T
  <2> QED BY <1>1, <2>1, LeastElement
<1>3. n \in 0 .. Len(s) /\ n \in Nat /\ Len(s) \in Nat
  OBVIOUS
<1>4. CASE n = 0
  <2>1. Follows([i \in 0 .. 0 |-> <<>>], 0, s, gone)
    BY DEF Follows
  <2> QED BY <1>4, <2>1
<1>5. CASE n # 0
  <2>1. n - 1 \in 0 .. Len(s) /\ n - 1 \notin T
    BY <1>2, <1>3, <1>5
  <2>2. PICK f : Follows(f, n - 1, s, gone)
    BY <2>1
  <2> DEFINE g == [i \in 0 .. n |->
                     IF i = n THEN IF s[n] \in gone THEN f[n - 1] ELSE Append(f[n - 1], s[n])
                     ELSE f[i]]
  <2>3. \A i \in 0 .. n : i # n => i \in 0 .. (n - 1) /\ g[i] = f[i]
    BY <1>3
  <2>4. g[n] = IF s[n] \in gone THEN g[n - 1] ELSE Append(g[n - 1], s[n])
    BY <1>3, <1>5
  <2>5. ASSUME NEW i \in 0 .. n, i # n
        PROVE  g[i] = IF i = 0 THEN <<>>
                      ELSE IF s[i] \in gone THEN g[i - 1] ELSE Append(g[i - 1], s[i])
    <3>1. f[i] = IF i = 0 THEN <<>>
                 ELSE IF s[i] \in gone THEN f[i - 1] ELSE Append(f[i - 1], s[i])
      BY <2>2, <2>3, <2>5 DEF Follows
    <3>2. g[i] = f[i] /\ (i # 0 => g[i - 1] = f[i - 1])
      BY <1>3, <2>3, <2>5
    <3> HIDE DEF g
    <3> QED BY <3>1, <3>2
  <2>6. g = [i \in 0 .. n |-> g[i]]
    OBVIOUS
  <2> HIDE DEF g
  <2>7. Follows(g, n, s, gone)
    BY <1>5, <2>4, <2>5, <2>6 DEF Follows
  <2> QED BY <2>7
<1> QED BY <1>4, <1>5

(* r is what is left of the first n entries of s without those in gone,    *)
(* and h says where its entries come from.                                 *)
Picks(h, r, n, s, gone) ==
  /\ h \in [1 .. Len(r) -> 1 .. n]
  /\ \A k \in 1 .. Len(r) : r[k] = s[h[k]] /\ s[h[k]] \notin gone
  /\ \A k, l \in 1 .. Len(r) : k < l => h[k] < h[l]
  /\ \A i \in 1 .. n : s[i] \notin gone => \E k \in 1 .. Len(r) : h[k] = i

(* The loop has picked the entries that are not gone when it has reached   *)
(* the end.                                                                *)
LEMMA FollowsPicks ==
  ASSUME NEW A, NEW s \in Seq(A), NEW gone, NEW f, Follows(f, Len(s), s, gone)
  PROVE  f[Len(s)] \in Seq(A) /\ \E h : Picks(h, f[Len(s)], Len(s), s, gone)
<1> DEFINE Good(n) == f[n] \in Seq(A) /\ \E h : Picks(h, f[n], n, s, gone)
<1> DEFINE T == {n \in 0 .. Len(s) : ~ Good(n)}
<1>1. SUFFICES ASSUME T # {} PROVE FALSE
  OBVIOUS
<1>2. PICK n \in T : \A m \in T : n <= m
  <2>1. T \subseteq Nat
    OBVIOUS
  <2> HIDE DEF T
  <2> QED BY <1>1, <2>1, LeastElement
<1>3. n \in 0 .. Len(s) /\ n \in Nat /\ Len(s) \in Nat
  OBVIOUS
<1>4. CASE n = 0
  <2>1. f[0] = <<>>
    BY <1>3 DEF Follows
  <2>2. Picks(<<>>, <<>>, 0, s, gone)
    BY DEF Picks
  <2>3. <<>> \in Seq(A)
    OBVIOUS
  <2>4. Good(0)
    BY <2>1, <2>2, <2>3, Zenon
  <2> QED BY <1>4, <2>4
<1>5. CASE n # 0
  <2>1. n - 1 \in 0 .. Len(s) /\ n - 1 \notin T
    BY <1>2, <1>3, <1>5
  <2>2. Good(n - 1)
    BY <2>1
  <2>3. PICK h : Picks(h, f[n - 1], n - 1, s, gone)
    BY <2>2
  <2>4. f[n] = IF s[n] \in gone THEN f[n - 1] ELSE Append(f[n - 1], s[n])
    BY <1>3, <1>5 DEF Follows
  <2>5. s[n] \in A
    BY <1>3, <1>5
  <2>6. CASE s[n] \in gone
    <3>1. Picks(h, f[n - 1], n, s, gone)
      BY <1>3, <2>3, <2>6 DEF Picks
    <3> QED BY <2>2, <2>4, <2>6, <3>1
  <2>7. CASE s[n] \notin gone
    <3> DEFINE r == f[n - 1]
               t == Append(r, s[n])
               g == [k \in 1 .. Len(t) |-> IF k = Len(t) THEN n ELSE h[k]]
    <3>1. r \in Seq(A) /\ Len(r) \in Nat
      BY <2>2
    <3>2. /\ t \in Seq(A) /\ Len(t) = Len(r) + 1 /\ t[Len(t)] = s[n]
          /\ \A k \in 1 .. Len(r) : t[k] = r[k]
      BY <2>5, <3>1
    <3>3. /\ h \in [1 .. Len(r) -> 1 .. n - 1]
          /\ \A k \in 1 .. Len(r) : r[k] = s[h[k]] /\ s[h[k]] \notin gone
          /\ \A k, l \in 1 .. Len(r) : k < l => h[k] < h[l]
          /\ \A i \in 1 .. n - 1 : s[i] \notin gone => \E k \in 1 .. Len(r) : h[k] = i
      BY <2>3 DEF Picks
    <3> HIDE DEF r, t
    <3>4. /\ g[Len(t)] = n
          /\ \A k \in 1 .. Len(t) : k # Len(t) => k \in 1 .. Len(r) /\ g[k] = h[k]
          /\ \A k \in 1 .. Len(r) : k \in 1 .. Len(t) /\ k # Len(t)
          /\ DOMAIN g = 1 .. Len(t)
      BY <3>1, <3>2
    <3>5. g \in [1 .. Len(t) -> 1 .. n]
      BY <1>3, <1>5, <3>1, <3>2, <3>3
    <3> HIDE DEF g
    <3>6. \A k \in 1 .. Len(t) : t[k] = s[g[k]] /\ s[g[k]] \notin gone
      BY <2>7, <3>2, <3>3, <3>4
    <3>7. \A k, l \in 1 .. Len(t) : k < l => g[k] < g[l]
      BY <1>3, <3>1, <3>2, <3>3, <3>4
    <3>8. \A i \in 1 .. n : s[i] \notin gone => \E k \in 1 .. Len(t) : g[k] = i
      BY <1>3, <3>1, <3>2, <3>3, <3>4
    <3>9. Picks(g, t, n, s, gone)
      BY <3>5, <3>6, <3>7, <3>8 DEF Picks
    <3>10. f[n] = t
      BY <2>4, <2>7 DEF t, r
    <3> QED BY <3>2, <3>9, <3>10
  <2> QED BY <2>6, <2>7
<1> QED BY <1>4, <1>5

(* What Excluding returns: the entries outside gone, all of them, each     *)
(* once and in their order.                                                *)
LEMMA ExcludingPicks ==
  ASSUME NEW A, NEW s \in Seq(A), NEW gone
  PROVE  /\ Excluding(s, gone) \in Seq(A)
         /\ \E h : Picks(h, Excluding(s, gone), Len(s), s, gone)
<1> DEFINE kept == CHOOSE f : Follows(f, Len(s), s, gone)
<1>1. Excluding(s, gone) = kept[Len(s)]
  BY Zenon DEF Excluding, Follows
<1>2. Follows(kept, Len(s), s, gone)
  BY FollowsExists, Zenon
<1> HIDE DEF kept
<1> QED BY <1>1, <1>2, FollowsPicks

(* Removing exactly the first m entries leaves the rest.                   *)
LEMMA ExcludingPrefix ==
  ASSUME NEW A, NEW s \in Seq(A), NEW gone, NEW m \in 0 .. Len(s),
         \A i \in 1 .. m : s[i] \in gone,
         \A i \in m + 1 .. Len(s) : s[i] \notin gone
  PROVE  Excluding(s, gone) = SubSeq(s, m + 1, Len(s))
<1> DEFINE kept == CHOOSE f : Follows(f, Len(s), s, gone)
<1>1. Excluding(s, gone) = kept[Len(s)]
  BY Zenon DEF Excluding, Follows
<1>2. Follows(kept, Len(s), s, gone)
  BY FollowsExists, Zenon
<1> HIDE DEF kept
<1> DEFINE T == {n \in 0 .. Len(s) : kept[n] # SubSeq(s, m + 1, n)}
<1>3. SUFFICES ASSUME T # {} PROVE FALSE
  BY <1>1
<1>4. PICK n \in T : \A k \in T : n <= k
  <2>1. T \subseteq Nat
    OBVIOUS
  <2> HIDE DEF T
  <2> QED BY <1>3, <2>1, LeastElement
<1>5. n \in Nat /\ Len(s) \in Nat /\ m \in Nat /\ n <= Len(s) /\ m <= Len(s)
  OBVIOUS
<1>6. n <= m => SubSeq(s, m + 1, n) = <<>>
  BY <1>5
<1>7. CASE n = 0
  <2>1. kept[0] = <<>>
    BY <1>2, <1>5 DEF Follows
  <2>2. kept[n] = SubSeq(s, m + 1, n)
    BY <1>5, <1>6, <1>7, <2>1
  <2> QED BY <2>2
<1>8. CASE n # 0
  <2>1. n - 1 \in 0 .. Len(s) /\ n - 1 \notin T
    BY <1>4, <1>5, <1>8
  <2>2. kept[n - 1] = SubSeq(s, m + 1, n - 1)
    BY <2>1
  <2>3. kept[n] = IF s[n] \in gone THEN kept[n - 1] ELSE Append(kept[n - 1], s[n])
    BY <1>2, <1>5, <1>8 DEF Follows
  <2>4. CASE n <= m
    <3>1. SubSeq(s, m + 1, n - 1) = <<>>
      BY <1>5, <1>8, <2>4
    <3>2. s[n] \in gone
      BY <1>5, <1>8, <2>4
    <3> QED BY <1>6, <2>2, <2>3, <2>4, <3>1, <3>2
  <2>5. CASE ~(n <= m)
    <3>1. s[n] \notin gone
      BY <1>5, <1>8, <2>5
    <3>2. Append(SubSeq(s, m + 1, n - 1), s[n]) = SubSeq(s, m + 1, n)
      BY <1>5, <1>8, <2>5
    <3> QED BY <2>2, <2>3, <3>1, <3>2
  <2> QED BY <2>4, <2>5
<1> QED BY <1>7, <1>8

-----------------------------------------------------------------------------
(* Views of sequences: their length, domain and entries.                   *)

(* e is the sequence q with d in front.                                    *)
InFront(e, d, q, S) ==
  /\ e \in Seq(S) /\ Len(e) = Len(q) + 1 /\ DOMAIN e = 1 .. Len(q) + 1
  /\ Len(q) \in Nat /\ 1 \in DOMAIN e /\ e[1] = d
  /\ \A i \in DOMAIN q : i + 1 \in DOMAIN e /\ e[i + 1] = q[i]
  /\ \A k \in DOMAIN e : k = 1 \/ (k - 1 \in DOMAIN q /\ e[k] = q[k - 1])

(* A sequence with an entry in front of it.                                *)
LEMMA FrontView ==
  ASSUME NEW S, NEW q \in Seq(S), NEW d \in S
  PROVE  InFront(<<d>> \o q, d, q, S)
<1>1. <<d>> \in Seq(S) /\ Len(<<d>>) = 1 /\ <<d>>[1] = d
  OBVIOUS
<1>2. /\ <<d>> \o q \in Seq(S) /\ Len(<<d>> \o q) = Len(q) + 1
      /\ \A k \in 1 .. Len(q) + 1 : (<<d>> \o q)[k] = IF k = 1 THEN d ELSE q[k - 1]
  BY <1>1
<1> QED BY <1>2 DEF InFront

(* A sequence without its first entry.                                     *)
LEMMA TailView ==
  ASSUME NEW S, NEW q \in Seq(S), q # <<>>
  PROVE  /\ Tail(q) \in Seq(S) /\ DOMAIN Tail(q) = 1 .. Len(q) - 1
         /\ Head(q) = q[1] /\ 1 \in DOMAIN q /\ Head(q) \in S
         /\ \A k \in DOMAIN Tail(q) : k + 1 \in DOMAIN q /\ Tail(q)[k] = q[k + 1]
         /\ \A i \in DOMAIN q : i = 1 \/ (i - 1 \in DOMAIN Tail(q) /\ Tail(q)[i - 1] = q[i])
<1>1. Len(q) \in Nat /\ Len(q) # 0 /\ DOMAIN q = 1 .. Len(q)
  OBVIOUS
<1>2. /\ Tail(q) \in Seq(S) /\ Len(Tail(q)) = Len(q) - 1
      /\ \A k \in 1 .. Len(q) - 1 : Tail(q)[k] = q[k + 1]
  BY <1>1
<1>3. DOMAIN Tail(q) = 1 .. Len(q) - 1
  BY <1>2
<1>4. Head(q) = q[1] /\ 1 \in DOMAIN q
  BY <1>1
<1>5. \A k \in 1 .. Len(q) - 1 : k + 1 \in 1 .. Len(q)
  BY <1>1
<1>6. \A i \in 1 .. Len(q) : i = 1 \/ (i - 1 \in 1 .. Len(q) - 1 /\ (i - 1) + 1 = i)
  BY <1>1
<1> QED BY <1>1, <1>2, <1>3, <1>4, <1>5, <1>6

(* A sequence without its first n entries.                                 *)
LEMMA SuffixView ==
  ASSUME NEW S, NEW q \in Seq(S), NEW n \in 0 .. Len(q)
  PROVE  /\ SubSeq(q, n + 1, Len(q)) \in Seq(S)
         /\ DOMAIN SubSeq(q, n + 1, Len(q)) = 1 .. Len(q) - n
         /\ \A k \in 1 .. Len(q) - n :
              k + n \in DOMAIN q /\ SubSeq(q, n + 1, Len(q))[k] = q[k + n]
         /\ \A i \in DOMAIN q : i \in 1 .. n \/ i - n \in 1 .. Len(q) - n
<1>1. Len(q) \in Nat /\ n \in Nat /\ n <= Len(q) /\ DOMAIN q = 1 .. Len(q)
  OBVIOUS
<1> DEFINE p == SubSeq(q, n + 1, Len(q))
<1>2. p \in Seq(S) /\ Len(p) = Len(q) - n /\ \A k \in 1 .. Len(q) - n : p[k] = q[k + n]
  <2>1. p = [k \in 1 .. Len(q) - n |-> q[k + n]]
    BY <1>1
  <2>2. \A k \in 1 .. Len(q) - n : q[k + n] \in S
    BY <1>1
  <2> HIDE DEF p
  <2> DEFINE l == Len(q) - n
  <2>3. l \in Nat
    BY <1>1
  <2>4. p = [k \in 1 .. l |-> q[k + n]] /\ \A k \in 1 .. l : q[k + n] \in S
    BY <2>1, <2>2
  <2> HIDE DEF l
  <2>5. p \in Seq(S) /\ Len(p) = l /\ \A k \in 1 .. l : p[k] = q[k + n]
    BY <2>3, <2>4
  <2> QED BY <2>5 DEF l
<1> HIDE DEF p
<1>3. DOMAIN p = 1 .. Len(q) - n
  BY <1>2
<1>4. \A k \in 1 .. Len(q) - n : k + n \in 1 .. Len(q)
  BY <1>1
<1>5. \A i \in 1 .. Len(q) : i \in 1 .. n \/ i - n \in 1 .. Len(q) - n
  BY <1>1
<1> QED BY <1>1, <1>2, <1>3, <1>4, <1>5 DEF p

(* The first n entries of a sequence.                                      *)
LEMMA PrefixView ==
  ASSUME NEW S, NEW q \in Seq(S), NEW n \in 0 .. Len(q)
  PROVE  /\ SubSeq(q, 1, n) \in Seq(S) /\ DOMAIN SubSeq(q, 1, n) = 1 .. n
         /\ \A k \in 1 .. n : k \in DOMAIN q /\ SubSeq(q, 1, n)[k] = q[k]
<1>1. Len(q) \in Nat /\ n \in Nat /\ n <= Len(q) /\ DOMAIN q = 1 .. Len(q)
  OBVIOUS
<1> DEFINE p == SubSeq(q, 1, n)
<1>2. p \in Seq(S) /\ Len(p) = n /\ \A k \in 1 .. n : p[k] = q[k]
  BY <1>1
<1> HIDE DEF p
<1>3. DOMAIN p = 1 .. n
  BY <1>1, <1>2
<1>4. \A k \in 1 .. n : k \in 1 .. Len(q)
  BY <1>1
<1> QED BY <1>1, <1>2, <1>3, <1>4 DEF p

(* e is the sequence q with d at its end.                                  *)
AtEnd(e, d, q, S) ==
  /\ e \in Seq(S) /\ Len(e) = Len(q) + 1 /\ DOMAIN e = 1 .. Len(q) + 1
  /\ Len(q) \in Nat /\ Len(q) + 1 \in DOMAIN e /\ e[Len(q) + 1] = d
  /\ \A i \in DOMAIN q : i \in DOMAIN e /\ e[i] = q[i] /\ i < Len(q) + 1
  /\ \A k \in DOMAIN e : k = Len(q) + 1 \/ k \in DOMAIN q

(* A sequence with an entry at its end.                                    *)
LEMMA AppendView ==
  ASSUME NEW S, NEW q \in Seq(S), NEW d \in S
  PROVE  AtEnd(Append(q, d), d, q, S)
<1>1. Len(q) \in Nat /\ DOMAIN q = 1 .. Len(q)
  OBVIOUS
<1>2. /\ Append(q, d) \in Seq(S) /\ Len(Append(q, d)) = Len(q) + 1
      /\ Append(q, d)[Len(q) + 1] = d
      /\ \A i \in 1 .. Len(q) : Append(q, d)[i] = q[i]
  OBVIOUS
<1> QED BY <1>1, <1>2 DEF AtEnd
=============================================================================
