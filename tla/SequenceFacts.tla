--------------------------- MODULE SequenceFacts ----------------------------
(***************************************************************************)
(* Facts about naturals, finite sets of them, and sequences that the       *)
(* proofs about the tester and the driver share.  Induction is stated of   *)
(* sets rather than of predicates, so that a step can cite it.             *)
(***************************************************************************)
EXTENDS Ordering, Sequences, FiniteSetTheorems, TLAPS

(* Every non-empty set of naturals has a least member: the initial         *)
(* segments below its members are finite, and inclusion is well-founded.   *)
LEMMA LeastElement ==
    ASSUME NEW S \in SUBSET Nat, S # {}
    PROVE  \E m \in S : \A k \in S : m <= k
<1> DEFINE T == {0..n : n \in S}
<1>1. T \subseteq FiniteSubsetsOf(Nat)
  <2>1. \A n \in S : IsFiniteSet(0..n)
    BY FS_Interval
  <2>2. \A n \in S : 0..n \in SUBSET Nat
    OBVIOUS
  <2> QED
    BY <2>1, <2>2 DEF FiniteSubsetsOf
<1>2. \E x \in T : \A y \in T : ~(<<y, x>> \in StrictSubsetOrdering(Nat))
  <2>1. T # {}
    OBVIOUS
  <2> HIDE DEF T
  <2> QED
    BY <1>1, <2>1, WFMin, FS_StrictSubsetOrderingWellFounded
<1>3. PICK m \in S : \A k \in S : ~(<<0..k, 0..m>> \in StrictSubsetOrdering(Nat))
  BY <1>2
<1>4. ASSUME NEW k \in S, k < m PROVE FALSE
  <2> DEFINE A == 0..k
             B == 0..m
  <2>1. A \subseteq B /\ m \in B /\ m \notin A
    BY <1>4
  <2>2. A \in SUBSET Nat /\ B \in SUBSET Nat
    OBVIOUS
  <2>3. <<A, B>> \in StrictSubsetOrdering(Nat)
    <3> HIDE DEF A, B
    <3> QED
      BY <2>1, <2>2 DEF StrictSubsetOrdering
  <2> QED
    BY <2>3, <1>3
<1> QED
  BY <1>4

(* Induction over the naturals.                                            *)
LEMMA SetInduction ==
    ASSUME NEW S, 0 \in S, \A n \in Nat : n \in S => n + 1 \in S
    PROVE  Nat \subseteq S
<1> SUFFICES ASSUME Nat \ S # {} PROVE FALSE
  OBVIOUS
<1>1. PICK m \in Nat \ S : \A k \in Nat \ S : m <= k
  BY LeastElement
<1>2. m - 1 \in Nat /\ m - 1 \notin Nat \ S
  BY <1>1
<1> QED
  BY <1>2

(* A set of naturals with a member below a bound has a greatest one.       *)
LEMMA GreatestElement ==
    ASSUME NEW S \in SUBSET Nat, NEW b \in Nat, \A k \in S : k <= b, S # {}
    PROVE  \E m \in S : \A k \in S : k <= m
<1> DEFINE T == {b - k : k \in S}
<1>1. T \in SUBSET Nat /\ T # {}
  <2>1. \A k \in S : b - k \in Nat
    OBVIOUS
  <2> QED
    BY <2>1
<1>2. PICK d \in T : \A e \in T : d <= e
  <2> HIDE DEF T
  <2> QED
    BY <1>1, LeastElement
<1>3. PICK m \in S : d = b - m
  OBVIOUS
<1>4. ASSUME NEW k \in S PROVE k <= m
  <2>1. d <= b - k
    BY <1>2
  <2> QED
    BY <2>1, <1>3
<1> QED
  BY <1>4

(* How many members lie below one grows with it, and is a position.        *)
LEMMA BelowGrows ==
    ASSUME NEW S \in SUBSET Nat, IsFiniteSet(S)
    PROVE  /\ \A n \in S : /\ Cardinality(Before(S, n)) \in Nat
                           /\ Cardinality(Before(S, n)) < Cardinality(S)
           /\ \A m, n \in S : m < n => Cardinality(Before(S, m)) < Cardinality(Before(S, n))
<1>1. ASSUME NEW T \in SUBSET S, NEW U \in SUBSET S, T \subseteq U, T # U
      PROVE  Cardinality(T) \in Nat /\ Cardinality(U) \in Nat /\ Cardinality(T) < Cardinality(U)
  <2>1. IsFiniteSet(T) /\ IsFiniteSet(U)
    BY FS_Subset
  <2>2. Cardinality(T) \in Nat /\ Cardinality(U) \in Nat
    BY <2>1, FS_CardinalityType
  <2>3. Cardinality(T) <= Cardinality(U) /\ (Cardinality(U) = Cardinality(T) => U = T)
    BY <1>1, <2>1, FS_Subset
  <2> QED
    BY <1>1, <2>2, <2>3
<1>2. ASSUME NEW n \in S
      PROVE  Cardinality(Before(S, n)) \in Nat /\ Cardinality(Before(S, n)) < Cardinality(S)
  <2>1. Before(S, n) \in SUBSET S /\ Before(S, n) # S /\ S \in SUBSET S
    BY DEF Before
  <2> QED
    BY <1>1, <2>1
<1>3. ASSUME NEW m \in S, NEW n \in S, m < n
      PROVE  Cardinality(Before(S, m)) < Cardinality(Before(S, n))
  <2>1. m \in Nat /\ n \in Nat /\ \A l \in S : l \in Nat
    OBVIOUS
  <2>2. m \in Before(S, n) /\ m \notin Before(S, m)
    BY <1>3, <2>1 DEF Before
  <2>3. \A l \in S : l < m => l < n
    BY <1>3, <2>1
  <2>4. Before(S, m) \in SUBSET S /\ Before(S, n) \in SUBSET S
        /\ Before(S, m) \subseteq Before(S, n)
    BY <2>3 DEF Before
  <2> QED
    BY <1>1, <2>2, <2>4
<1> QED
  BY <1>2, <1>3

(* Ascending(S) lists S, each member once and in order.                    *)
LEMMA AscendingFacts ==
    ASSUME NEW S \in SUBSET Nat, IsFiniteSet(S)
    PROVE  /\ Cardinality(S) \in Nat
           /\ DOMAIN Ascending(S) = 1..Cardinality(S)
           /\ Ascending(S) \in Seq(S) /\ Len(Ascending(S)) = Cardinality(S)
           /\ \A k \in 1..Cardinality(S) : Ascending(S)[k] \in S
           /\ \A n \in S : \E k \in 1..Cardinality(S) : Ascending(S)[k] = n
           /\ \A j, k \in 1..Cardinality(S) : j < k => Ascending(S)[j] < Ascending(S)[k]
<1> DEFINE c == Cardinality(S)
           place == [n \in S |-> Cardinality(Before(S, n)) + 1]
<1>1. c \in Nat
  BY FS_CardinalityType
<1>2. place \in [S -> 1..c]
  BY <1>1, BelowGrows
<1>3. \A m, n \in S : m < n => place[m] < place[n]
  BY BelowGrows
<1>4. \A m, n \in S : place[m] = place[n] => m = n
  BY <1>2, <1>3
<1>5. \A k \in 1..c : \E n \in S : place[n] = k
  <2>1. place \in Injection(S, 1..c)
    BY <1>2, <1>4 DEF Injection, IsInjective
  <2>2. IsFiniteSet(1..c) /\ Cardinality(1..c) = c
    BY <1>1, FS_Interval
  <2>3. place \in Surjection(S, 1..c)
    <3> HIDE DEF place
    <3> QED
      BY <2>1, <2>2, FS_Injection
  <2> QED
    BY <2>3 DEF Surjection
<1>6. ASSUME NEW k \in 1..c
      PROVE  Ascending(S)[k] \in S /\ place[Ascending(S)[k]] = k
  <2>1. \E n \in S : Cardinality(Before(S, n)) = k - 1
    <3>1. PICK n \in S : place[n] = k
      BY <1>5
    <3>2. Cardinality(Before(S, n)) \in Nat
      BY BelowGrows
    <3> QED
      BY <3>1, <3>2
  <2>2. Ascending(S)[k] = CHOOSE n \in S : Cardinality(Before(S, n)) = k - 1
    BY DEF Ascending
  <2>3. Ascending(S)[k] \in S /\ Cardinality(Before(S, Ascending(S)[k])) = k - 1
    BY <2>1, <2>2
  <2> QED
    BY <2>3
<1>7. DOMAIN Ascending(S) = 1..c /\ Ascending(S) = [k \in 1..c |-> Ascending(S)[k]]
  BY DEF Ascending
<1> HIDE DEF place
<1>8. Ascending(S) \in Seq(S) /\ Len(Ascending(S)) = c
  <2>1. Ascending(S) \in [1..c -> S]
    BY <1>6, <1>7
  <2> HIDE DEF c
  <2>2. Ascending(S) \in Seq(S)
    BY <1>1, <2>1
  <2> QED
    BY <1>1, <1>7, <2>2
<1>9. \A n \in S : Ascending(S)[place[n]] = n
  BY <1>2, <1>4, <1>6
<1>10. ASSUME NEW j \in 1..c, NEW k \in 1..c, j < k
       PROVE  Ascending(S)[j] < Ascending(S)[k]
  <2>1. ASSUME NEW m \in S, NEW n \in S, place[m] = j, place[n] = k
        PROVE  m < n
    <3>1. m \in Nat /\ n \in Nat /\ m # n
      BY <1>10, <2>1
    <3>2. ~(n < m)
      BY <1>1, <1>3, <1>10, <2>1
    <3> QED
      BY <3>1, <3>2
  <2> QED
    BY <1>6, <2>1
<1> QED
  BY <1>1, <1>2, <1>6, <1>7, <1>8, <1>9, <1>10

-----------------------------------------------------------------------------
(* Sequences by their members.                                             *)

IsSeq(s) == s \in Seq(Range(s))

(* A sequence is a function on the places up to its length.                *)
LEMMA SeqPlaces ==
    ASSUME NEW s, IsSeq(s)
    PROVE  /\ Len(s) \in Nat /\ DOMAIN s = 1..Len(s) /\ IsFiniteSet(DOMAIN s)
           /\ \A i \in 1..Len(s) : s[i] \in Range(s)
           /\ \A x \in Range(s) : \E i \in 1..Len(s) : s[i] = x
<1>1. Len(s) \in Nat /\ DOMAIN s = 1..Len(s)
  BY DEF IsSeq
<1>2. IsFiniteSet(1..Len(s))
  BY <1>1, FS_Interval
<1> QED
  BY <1>1, <1>2 DEF Range

(* A function on the places up to n is a sequence of that length.          *)
LEMMA FunctionIsSeq ==
    ASSUME NEW n \in Nat, NEW s, DOMAIN s = 1..n, s = [i \in 1..n |-> s[i]]
    PROVE  IsSeq(s) /\ Len(s) = n
<1>1. s \in [1..n -> Range(s)]
  BY DEF Range
<1>2. s \in Seq(Range(s))
  BY <1>1
<1> QED
  BY <1>2 DEF IsSeq

(* Concatenation keeps the places of the first sequence and shifts those   *)
(* of the second.                                                          *)
LEMMA ConcatFacts ==
    ASSUME NEW s, NEW t, IsSeq(s), IsSeq(t)
    PROVE  /\ IsSeq(s \o t) /\ Len(s \o t) = Len(s) + Len(t)
           /\ \A i \in 1..Len(s) : (s \o t)[i] = s[i]
           /\ \A i \in 1..Len(t) : (s \o t)[Len(s) + i] = t[i]
           /\ Range(s \o t) = Range(s) \cup Range(t)
<1> DEFINE S == Range(s) \cup Range(t)
<1>1. s \in Seq(S) /\ t \in Seq(S)
  BY DEF IsSeq
<1>2. /\ s \o t \in Seq(S) /\ Len(s \o t) = Len(s) + Len(t)
      /\ Len(s) \in Nat /\ Len(t) \in Nat
      /\ DOMAIN s = 1..Len(s) /\ DOMAIN t = 1..Len(t)
      /\ DOMAIN (s \o t) = 1..(Len(s) + Len(t))
      /\ \A i \in 1..(Len(s) + Len(t)) :
            (s \o t)[i] = IF i <= Len(s) THEN s[i] ELSE t[i - Len(s)]
  <2> HIDE DEF S
  <2> QED
    BY <1>1
<1>3. \A i \in 1..Len(s) : (s \o t)[i] = s[i]
  BY <1>2
<1>4. \A i \in 1..Len(t) : (s \o t)[Len(s) + i] = t[i]
  BY <1>2
<1>5. Range(s \o t) \subseteq S
  <2> SUFFICES ASSUME NEW i \in 1..(Len(s) + Len(t)) PROVE (s \o t)[i] \in S
    BY <1>2 DEF Range
  <2>1. CASE i <= Len(s)
    <3>1. i \in DOMAIN s /\ (s \o t)[i] = s[i]
      BY <1>2, <2>1
    <3> QED
      BY <3>1 DEF Range
  <2>2. CASE ~(i <= Len(s))
    <3>1. i - Len(s) \in DOMAIN t /\ (s \o t)[i] = t[i - Len(s)]
      BY <1>2, <2>2
    <3> QED
      BY <3>1 DEF Range
  <2> QED
    BY <2>1, <2>2
<1>6. S \subseteq Range(s \o t)
  <2>1. ASSUME NEW x \in Range(s) PROVE x \in Range(s \o t)
    <3>1. PICK i \in 1..Len(s) : s[i] = x
      BY <1>2 DEF Range
    <3>2. i \in DOMAIN (s \o t) /\ (s \o t)[i] = x
      BY <1>2, <1>3, <3>1
    <3> QED
      BY <3>2 DEF Range
  <2>2. ASSUME NEW x \in Range(t) PROVE x \in Range(s \o t)
    <3>1. PICK i \in 1..Len(t) : t[i] = x
      BY <1>2 DEF Range
    <3>2. Len(s) + i \in DOMAIN (s \o t) /\ (s \o t)[Len(s) + i] = x
      BY <1>2, <1>4, <3>1
    <3> QED
      BY <3>2 DEF Range
  <2> QED
    BY <2>1, <2>2
<1>7. Range(s \o t) = S
  BY <1>5, <1>6
<1> HIDE DEF S
<1>8. s \o t \in Seq(Range(s \o t))
  BY <1>2, <1>7
<1> QED
  BY <1>2, <1>3, <1>4, <1>7, <1>8 DEF IsSeq, S

(* Append adds one place.                                                  *)
LEMMA AppendFacts ==
    ASSUME NEW s, NEW x, IsSeq(s)
    PROVE  /\ IsSeq(Append(s, x)) /\ Len(Append(s, x)) = Len(s) + 1
           /\ \A i \in 1..Len(s) : Append(s, x)[i] = s[i]
           /\ Append(s, x)[Len(s) + 1] = x
           /\ Range(Append(s, x)) = Range(s) \cup {x}
<1> DEFINE t == Append(s, x)
           S == Range(s) \cup {x}
<1>1. s \in Seq(S) /\ x \in S
  BY DEF IsSeq
<1>2. /\ t \in Seq(S) /\ Len(t) = Len(s) + 1 /\ Len(s) \in Nat
      /\ DOMAIN s = 1..Len(s) /\ DOMAIN t = 1..(Len(s) + 1)
      /\ \A i \in 1..Len(s) : t[i] = s[i]
      /\ t[Len(s) + 1] = x
  <2> HIDE DEF S
  <2> QED
    BY <1>1
<1> HIDE DEF t
<1>3. Range(t) = S
  BY <1>2 DEF Range
<1> HIDE DEF S
<1>4. t \in Seq(Range(t))
  BY <1>2, <1>3
<1> QED
  BY <1>2, <1>3, <1>4 DEF IsSeq, t, S

(* The empty sequence, and one of a single member.                         *)
LEMMA SmallSeqs ==
    /\ IsSeq(<<>>) /\ Len(<<>>) = 0 /\ Range(<<>>) = {}
    /\ \A x : IsSeq(<<x>>) /\ Len(<<x>>) = 1 /\ Range(<<x>>) = {x} /\ <<x>>[1] = x
<1>1. IsSeq(<<>>) /\ Len(<<>>) = 0 /\ Range(<<>>) = {}
  BY DEF IsSeq, Range
<1>2. ASSUME NEW x
      PROVE  IsSeq(<<x>>) /\ Len(<<x>>) = 1 /\ Range(<<x>>) = {x} /\ <<x>>[1] = x
  <2>1. Range(<<x>>) = {x} /\ Len(<<x>>) = 1 /\ <<x>>[1] = x
    BY DEF Range
  <2> QED
    BY <2>1 DEF IsSeq
<1> QED
  BY <1>1, <1>2

(* Two sequences with the same places and members are one.                 *)
LEMMA SeqEqual ==
    ASSUME NEW s, NEW t, IsSeq(s), IsSeq(t), Len(s) = Len(t),
           \A i \in 1..Len(s) : s[i] = t[i]
    PROVE  s = t
<1> DEFINE S == Range(s) \cup Range(t)
<1>1. s \in Seq(S) /\ t \in Seq(S)
  BY DEF IsSeq
<1> HIDE DEF S
<1>2. DOMAIN s = 1..Len(s) /\ DOMAIN t = 1..Len(t)
  BY <1>1
<1>3. s = [i \in DOMAIN s |-> s[i]] /\ t = [i \in DOMAIN t |-> t[i]]
  BY <1>1
<1> QED
  BY <1>2, <1>3

(* The head of a sequence, and what follows it.                            *)
LEMMA TailFacts ==
    ASSUME NEW s, IsSeq(s), s # <<>>
    PROVE  /\ IsSeq(Tail(s)) /\ Len(s) \in Nat \ {0} /\ Len(Tail(s)) = Len(s) - 1
           /\ Head(s) = s[1] /\ Head(s) \in Range(s)
           /\ \A i \in 1..Len(s) - 1 : Tail(s)[i] = s[i + 1]
           /\ Range(Tail(s)) \subseteq Range(s)
<1> DEFINE S == Range(s)
<1>1. s \in Seq(S)
  BY DEF IsSeq
<1>2. /\ Len(s) \in Nat /\ Len(s) # 0 /\ DOMAIN s = 1..Len(s)
      /\ Tail(s) \in Seq(S) /\ Len(Tail(s)) = Len(s) - 1 /\ DOMAIN Tail(s) = 1..Len(s) - 1
      /\ Head(s) = s[1]
      /\ \A i \in 1..Len(s) - 1 : Tail(s)[i] = s[i + 1]
  <2> HIDE DEF S
  <2> QED
    BY <1>1
<1>3. Head(s) \in Range(s)
  BY <1>2 DEF Range
<1>4. Range(Tail(s)) \subseteq Range(s)
  <2> SUFFICES ASSUME NEW i \in 1..Len(s) - 1 PROVE Tail(s)[i] \in Range(s)
    BY <1>2 DEF Range
  <2>1. i + 1 \in DOMAIN s
    BY <1>2
  <2> QED
    BY <1>2, <2>1 DEF Range
<1>5. Tail(s) \in Seq(Range(Tail(s)))
  <2> DEFINE t == Tail(s)
  <2>1. t \in Seq(S)
    BY <1>2
  <2> HIDE DEF t, S
  <2>3. t = [i \in 1..Len(t) |-> t[i]] /\ DOMAIN t = 1..Len(t) /\ Len(t) \in Nat
    BY <2>1
  <2>2. IsSeq(t)
    BY <2>3, FunctionIsSeq
  <2> QED
    BY <2>2 DEF IsSeq, t
<1> QED
  BY <1>2, <1>3, <1>4, <1>5 DEF IsSeq

(* Three sequences on end.                                                 *)
LEMMA ThreeParts ==
    ASSUME NEW s, NEW t, NEW u, IsSeq(s), IsSeq(t), IsSeq(u)
    PROVE  /\ IsSeq(s \o t \o u) /\ Len(s) \in Nat /\ Len(t) \in Nat /\ Len(u) \in Nat
           /\ Len(s \o t \o u) = Len(s) + Len(t) + Len(u)
           /\ \A i \in 1..Len(s) : (s \o t \o u)[i] = s[i]
           /\ \A i \in 1..Len(t) : (s \o t \o u)[Len(s) + i] = t[i]
           /\ \A i \in 1..Len(u) : (s \o t \o u)[Len(s) + Len(t) + i] = u[i]
           /\ Range(s \o t \o u) = Range(s) \cup Range(t) \cup Range(u)
<1> DEFINE v == s \o t
<1>1. Len(s) \in Nat /\ Len(t) \in Nat /\ Len(u) \in Nat
  BY SeqPlaces
<1>2. /\ IsSeq(v) /\ Len(v) = Len(s) + Len(t) /\ Range(v) = Range(s) \cup Range(t)
      /\ \A i \in 1..Len(s) : v[i] = s[i]
      /\ \A i \in 1..Len(t) : v[Len(s) + i] = t[i]
  BY ConcatFacts
<1>9. ASSUME NEW p, IsSeq(p)
      PROVE  /\ IsSeq(p \o u) /\ Len(p \o u) = Len(p) + Len(u) /\ Range(p \o u) = Range(p) \cup Range(u)
             /\ \A i \in 1..Len(p) : (p \o u)[i] = p[i]
             /\ \A i \in 1..Len(u) : (p \o u)[Len(p) + i] = u[i]
  BY <1>9, ConcatFacts
<1> HIDE DEF v
<1>3. /\ IsSeq(v \o u) /\ Len(v \o u) = Len(v) + Len(u) /\ Range(v \o u) = Range(v) \cup Range(u)
      /\ \A i \in 1..Len(v) : (v \o u)[i] = v[i]
      /\ \A i \in 1..Len(u) : (v \o u)[Len(v) + i] = u[i]
  BY <1>2, <1>9
<1>4. \A i \in 1..Len(s) : i \in 1..Len(v)
  BY <1>1, <1>2
<1>5. \A i \in 1..Len(t) : Len(s) + i \in 1..Len(v)
  BY <1>1, <1>2
<1>6. \A i \in 1..Len(u) : (v \o u)[Len(s) + Len(t) + i] = u[i]
  BY <1>2, <1>3
<1>7. \A i \in 1..Len(s) : (v \o u)[i] = s[i]
  BY <1>2, <1>3, <1>4
<1>8. \A i \in 1..Len(t) : (v \o u)[Len(s) + i] = t[i]
  BY <1>2, <1>3, <1>5
<1> QED
  BY <1>1, <1>2, <1>3, <1>6, <1>7, <1>8 DEF v

(* The head of one part moves to the end of the part before.               *)
LEMMA HeadMoves ==
    ASSUME NEW s, NEW t, IsSeq(s), IsSeq(t), t # <<>>
    PROVE  Append(s, Head(t)) \o Tail(t) = s \o t
<1> DEFINE x == Head(t)
           v == Append(s, x)
           w == Tail(t)
<1>1. /\ IsSeq(w) /\ Len(t) \in Nat \ {0} /\ Len(w) = Len(t) - 1 /\ x = t[1]
      /\ \A i \in 1..Len(t) - 1 : w[i] = t[i + 1]
  BY TailFacts
<1>2. /\ IsSeq(v) /\ Len(v) = Len(s) + 1 /\ Len(s) \in Nat
      /\ \A i \in 1..Len(s) : v[i] = s[i]
      /\ v[Len(s) + 1] = x
  <2> HIDE DEF x
  <2> QED
    BY AppendFacts, SeqPlaces
<1>8. ASSUME NEW p, NEW q, IsSeq(p), IsSeq(q)
      PROVE  /\ IsSeq(p \o q) /\ Len(p \o q) = Len(p) + Len(q)
             /\ \A i \in 1..Len(p) : (p \o q)[i] = p[i]
             /\ \A i \in 1..Len(q) : (p \o q)[Len(p) + i] = q[i]
  BY <1>8, ConcatFacts
<1> HIDE DEF x, v, w
<1>3. /\ IsSeq(v \o w) /\ Len(v \o w) = Len(v) + Len(w)
      /\ \A i \in 1..Len(v) : (v \o w)[i] = v[i]
      /\ \A i \in 1..Len(w) : (v \o w)[Len(v) + i] = w[i]
  <2>1. IsSeq(v) /\ IsSeq(w)
    BY <1>1, <1>2
  <2> QED
    BY <2>1, <1>8
<1>4. /\ IsSeq(s \o t) /\ Len(s \o t) = Len(s) + Len(t)
      /\ \A i \in 1..Len(s) : (s \o t)[i] = s[i]
      /\ \A i \in 1..Len(t) : (s \o t)[Len(s) + i] = t[i]
  BY ConcatFacts
<1>5. Len(v \o w) = Len(s \o t)
  BY <1>1, <1>2, <1>3, <1>4
<1>6. ASSUME NEW i \in 1..Len(v \o w) PROVE (v \o w)[i] = (s \o t)[i]
  <2>1. CASE i <= Len(s)
    BY <1>1, <1>2, <1>3, <1>4, <2>1
  <2>2. CASE i = Len(s) + 1
    BY <1>1, <1>2, <1>3, <1>4, <2>2
  <2>3. CASE i > Len(s) + 1
    <3> DEFINE j == i - Len(s) - 1
    <3>1. j \in 1..Len(w) /\ i = Len(v) + j /\ j + 1 \in 1..Len(t) /\ i = Len(s) + (j + 1)
      BY <1>1, <1>2, <1>3, <2>3
    <3> HIDE DEF j
    <3>2. (v \o w)[i] = w[j]
      BY <1>3, <3>1
    <3>3. (s \o t)[i] = t[j + 1]
      BY <1>4, <3>1
    <3>4. w[j] = t[j + 1]
      BY <1>1, <3>1
    <3> QED
      BY <3>2, <3>3, <3>4
  <2> QED
    BY <1>1, <1>2, <1>3, <2>1, <2>2, <2>3
<1>7. v \o w = s \o t
  <2> DEFINE p == v \o w
             q == s \o t
  <2>1. IsSeq(p) /\ IsSeq(q) /\ Len(p) = Len(q) /\ \A i \in 1..Len(p) : p[i] = q[i]
    BY <1>3, <1>4, <1>5, <1>6
  <2> HIDE DEF p, q
  <2>2. p = q
    BY <2>1, SeqEqual
  <2> QED
    BY <2>2 DEF p, q
<1> QED
  BY <1>7 DEF v, w, x

(* And so it does behind a further part, or before one.                    *)
LEMMA HeadMovesOn ==
    ASSUME NEW s, NEW t, NEW u, IsSeq(s), IsSeq(t), IsSeq(u)
    PROVE  /\ t # <<>> => Append(s, Head(t)) \o Tail(t) \o u = s \o t \o u
           /\ u # <<>> => s \o Append(t, Head(u)) \o Tail(u) = s \o t \o u
<1>1. t # <<>> => Append(s, Head(t)) \o Tail(t) \o u = s \o t \o u
  BY HeadMoves
<1>2. ASSUME u # <<>> PROVE s \o Append(t, Head(u)) \o Tail(u) = s \o t \o u
  <2> DEFINE v == s \o t
             x == Head(u)
             w == s \o Append(t, x)
  <2>1. /\ IsSeq(v) /\ Len(v) = Len(s) + Len(t) /\ Len(s) \in Nat /\ Len(t) \in Nat
        /\ \A i \in 1..Len(s) : v[i] = s[i]
        /\ \A i \in 1..Len(t) : v[Len(s) + i] = t[i]
    BY ConcatFacts, SeqPlaces
  <2>2. Append(v, Head(u)) \o Tail(u) = v \o u
    <3> HIDE DEF v
    <3> QED
      BY <1>2, <2>1, HeadMoves
  <2> HIDE DEF x
  <2>3. /\ IsSeq(Append(t, x)) /\ Len(Append(t, x)) = Len(t) + 1
        /\ \A i \in 1..Len(t) : Append(t, x)[i] = t[i]
        /\ Append(t, x)[Len(t) + 1] = x
    BY AppendFacts
  <2>4. /\ IsSeq(w) /\ Len(w) = Len(s) + Len(t) + 1
        /\ \A i \in 1..Len(s) : w[i] = s[i]
        /\ \A i \in 1..Len(t) + 1 : w[Len(s) + i] = Append(t, x)[i]
    <3> DEFINE z == Append(t, x)
    <3>1. IsSeq(z) /\ Len(z) = Len(t) + 1
      BY <2>3
    <3> HIDE DEF z
    <3>2. /\ IsSeq(s \o z) /\ Len(s \o z) = Len(s) + Len(z)
          /\ \A i \in 1..Len(s) : (s \o z)[i] = s[i]
          /\ \A i \in 1..Len(z) : (s \o z)[Len(s) + i] = z[i]
      BY <3>1, ConcatFacts
    <3> QED
      BY <2>1, <3>1, <3>2 DEF z
  <2> HIDE DEF v, w
  <2>5. /\ IsSeq(Append(v, x)) /\ Len(Append(v, x)) = Len(v) + 1
        /\ \A i \in 1..Len(v) : Append(v, x)[i] = v[i]
        /\ Append(v, x)[Len(v) + 1] = x
    BY <2>1, AppendFacts
  <2>6. ASSUME NEW i \in 1..Len(w) PROVE w[i] = Append(v, x)[i]
    <3>1. CASE i <= Len(s)
      <4>1. i \in 1..Len(s) /\ i \in 1..Len(v)
        BY <2>1, <2>4, <3>1
      <4> QED
        BY <2>1, <2>4, <2>5, <4>1
    <3>2. CASE i > Len(s) /\ i <= Len(s) + Len(t)
      <4> DEFINE j == i - Len(s)
      <4>1. j \in 1..Len(t) /\ j \in 1..Len(t) + 1 /\ i = Len(s) + j /\ i \in 1..Len(v)
        BY <2>1, <3>2
      <4> HIDE DEF j
      <4>2. w[i] = t[j]
        BY <2>3, <2>4, <4>1
      <4>3. Append(v, x)[i] = t[j]
        BY <2>1, <2>5, <4>1
      <4> QED
        BY <4>2, <4>3
    <3>3. CASE i = Len(s) + (Len(t) + 1)
      <4>1. Len(t) + 1 \in 1..Len(t) + 1
        BY <2>1
      <4>2. w[i] = x
        BY <2>3, <2>4, <3>3, <4>1
      <4>3. i = Len(v) + 1
        BY <2>1, <3>3
      <4> QED
        BY <2>5, <4>2, <4>3
    <3>4. i <= Len(s) \/ (i > Len(s) /\ i <= Len(s) + Len(t)) \/ i = Len(s) + (Len(t) + 1)
      <4>1. ASSUME NEW a \in Nat, NEW c \in Nat, NEW j \in 1..(a + c + 1)
            PROVE  j <= a \/ (j > a /\ j <= a + c) \/ j = a + (c + 1)
        OBVIOUS
      <4>2. i \in 1..(Len(s) + Len(t) + 1) /\ Len(s) \in Nat /\ Len(t) \in Nat
        BY <2>1, <2>4
      <4> QED
        BY <4>1, <4>2
    <3> QED
      BY <3>1, <3>2, <3>3, <3>4
  <2>7. w = Append(v, x)
    <3> DEFINE q == Append(v, x)
    <3>1. IsSeq(w) /\ IsSeq(q) /\ Len(w) = Len(q) /\ \A i \in 1..Len(w) : w[i] = q[i]
      BY <2>1, <2>4, <2>5, <2>6
    <3> HIDE DEF q
    <3>2. w = q
      BY <3>1, SeqEqual
    <3> QED
      BY <3>2 DEF q
  <2> QED
    BY <2>2, <2>7 DEF v, w, x
<1> QED
  BY <1>1, <1>2

-----------------------------------------------------------------------------
(* Loops, places and concatenation.                                        *)

(* A loop over n places has a trace: a function with the state after each. *)
StaysIn(X, step, N) == \A n \in 1..N : \A x \in X : step[n][x] \in X
IsTrace(f, b, step, N) == f[0] = b /\ \A n \in 1..N : f[n] = step[n][f[n-1]]

LEMMA LoopHasTrace ==
    ASSUME NEW X, NEW b \in X, NEW N \in Nat, NEW step, StaysIn(X, step, N)
    PROVE  \E f \in [0..N -> X] : IsTrace(f, b, step, N)
<1> DEFINE Trace(f, n) == IsTrace(f, b, step, n)
           S == {n \in Nat : n <= N => \E f \in [0..n -> X] : Trace(f, n)}
<1>1. 0 \in S
  <2>1. [m \in 0..0 |-> b] \in [0..0 -> X] /\ Trace([m \in 0..0 |-> b], 0)
    BY DEF IsTrace
  <2> HIDE DEF Trace
  <2> QED
    BY <2>1
<1>2. ASSUME NEW n \in Nat, n \in S PROVE n + 1 \in S
  <2> SUFFICES ASSUME n + 1 <= N PROVE \E f \in [0..n+1 -> X] : Trace(f, n + 1)
    OBVIOUS
  <2>1. n <= N
    OBVIOUS
  <2>2. PICK f \in [0..n -> X] : Trace(f, n)
    BY <1>2, <2>1
  <2> DEFINE x == step[n + 1][f[n]]
             g == [m \in 0..n+1 |-> IF m = n + 1 THEN x ELSE f[m]]
  <2>3. x \in X
    <3>1. n + 1 \in 1..N /\ f[n] \in X
      BY <2>2
    <3> QED
      BY <3>1 DEF StaysIn
  <2> HIDE DEF x
  <2>4. g \in [0..n+1 -> X]
    BY <2>3
  <2>5. g[0] = b
    BY <2>2 DEF IsTrace
  <2>6. ASSUME NEW m \in 1..n+1 PROVE g[m] = step[m][g[m-1]]
    <3>1. CASE m = n + 1
      <4>1. g[n + 1] = x /\ m - 1 = n /\ n \in 0..n+1 /\ n # n + 1 /\ n + 1 \in 0..n+1
        BY <3>1
      <4>2. g[n] = f[n]
        BY <4>1
      <4> QED
        BY <3>1, <4>1, <4>2 DEF x
    <3>2. CASE m # n + 1
      <4>1. m \in 1..n /\ m - 1 \in 0..n /\ m - 1 # n + 1
        BY <3>2
      <4>2. f[m] = step[m][f[m-1]]
        BY <2>2, <4>1 DEF IsTrace
      <4>3. g[m] = f[m] /\ g[m-1] = f[m-1]
        BY <3>2, <4>1
      <4> QED
        BY <4>2, <4>3
    <3> QED
      BY <3>1, <3>2
  <2>7. Trace(g, n + 1)
    BY <2>5, <2>6 DEF IsTrace
  <2> HIDE DEF Trace, g
  <2> QED
    BY <2>4, <2>7
<1>3. N \in S
  <2> HIDE DEF S
  <2> QED
    BY <1>1, <1>2, SetInduction
<1> QED
  BY <1>3

(* An increasing sequence lists its members as Ascending does.             *)
LEMMA AscendingUnique ==
    ASSUME NEW S \in SUBSET Nat, IsFiniteSet(S), NEW s, IsSeq(s),
           \A i \in 1..Len(s) : s[i] \in S,
           \A n \in S : \E i \in 1..Len(s) : s[i] = n,
           \A i, j \in 1..Len(s) : i < j => s[i] < s[j]
    PROVE  s = Ascending(S)
<1>1. PICK a, c, l : a = Ascending(S) /\ c = Cardinality(S) /\ l = Len(s)
  OBVIOUS
<1>2. /\ c \in Nat /\ IsSeq(a) /\ Len(a) = c /\ l \in Nat
      /\ \A k \in 1..c : a[k] \in S
      /\ \A n \in S : \E k \in 1..c : a[k] = n
      /\ \A j, k \in 1..c : j < k => a[j] < a[k]
  <2>1. /\ c \in Nat /\ DOMAIN a = 1..c
        /\ \A k \in 1..c : a[k] \in S
        /\ \A n \in S : \E k \in 1..c : a[k] = n
        /\ \A j, k \in 1..c : j < k => a[j] < a[k]
    BY <1>1, AscendingFacts
  <2>2. a = [k \in 1..c |-> a[k]]
    BY <1>1, <2>1 DEF Ascending
  <2>3. IsSeq(a)
    BY <2>1, <2>2, FunctionIsSeq
  <2> QED
    BY <1>1, <2>1, <2>3, SeqPlaces
<1>3. \A i \in 1..l : i <= c => s[i] = a[i]
  <2> DEFINE D == {i \in 1..l : i <= c /\ s[i] # a[i]}
  <2> SUFFICES ASSUME D # {} PROVE FALSE
    OBVIOUS
  <2>1. D \in SUBSET Nat
    BY <1>2
  <2>2. PICK k \in D : \A i \in D : k <= i
    <3> HIDE DEF D
    <3> QED
      BY <2>1, LeastElement
  <2>3. k \in 1..l /\ k \in 1..c /\ s[k] # a[k] /\ \A i \in 1..k-1 : s[i] = a[i]
    BY <1>2, <2>2
  <2>4. s[k] \in S /\ a[k] \in S /\ s[k] \in Nat /\ a[k] \in Nat
    BY <1>1, <1>2, <2>3
  <2>5. CASE s[k] < a[k]
    <3>1. PICK j \in 1..c : a[j] = s[k]
      BY <1>2, <2>4
    <3>2. j < k
      <4>1. j # k
        BY <2>3, <3>1
      <4>2. ~(k < j)
        BY <1>2, <2>3, <2>4, <2>5, <3>1, SMT
      <4> QED
        BY <1>2, <2>3, <4>1, <4>2
    <3>3. s[j] = s[k] /\ j \in 1..l
      BY <1>2, <2>3, <3>1, <3>2
    <3>4. s[j] < s[k]
      BY <1>1, <2>3, <3>2, <3>3
    <3> QED
      BY <2>4, <3>3, <3>4
  <2>6. CASE a[k] < s[k]
    <3>1. PICK j \in 1..l : s[j] = a[k]
      BY <1>1, <2>4
    <3>2. j < k
      <4>1. j # k
        BY <2>3, <3>1
      <4>2. ~(k < j)
        <5>1. k < j => s[k] < s[j]
          BY <1>1, <2>3, <3>1
        <5> QED
          BY <2>4, <2>6, <3>1, <5>1
      <4> QED
        BY <1>2, <2>3, <4>1, <4>2
    <3>3. a[j] = a[k] /\ j \in 1..c
      BY <1>2, <2>3, <3>1, <3>2
    <3>4. a[j] < a[k]
      BY <1>2, <2>3, <3>2, <3>3
    <3> QED
      BY <2>4, <3>3, <3>4
  <2> QED
    BY <2>3, <2>4, <2>5, <2>6
<1>4. l = c
  <2>1. CASE l < c
    <3>1. l + 1 \in 1..c /\ a[l + 1] \in Nat /\ a[l + 1] \in S
      <4>1. l + 1 \in 1..c
        BY <1>2, <2>1
      <4> QED
        BY <1>2, <4>1
    <3>2. PICK i \in 1..l : s[i] = a[l + 1]
      BY <1>1, <3>1
    <3>3. a[i] = a[l + 1] /\ i < l + 1 /\ i \in 1..c
      BY <1>2, <1>3, <2>1, <3>2
    <3>4. a[i] < a[l + 1]
      BY <1>2, <3>1, <3>3
    <3> QED
      BY <3>1, <3>3, <3>4
  <2>2. CASE c < l
    <3>1. c + 1 \in 1..l /\ s[c + 1] \in Nat /\ s[c + 1] \in S
      <4>1. c + 1 \in 1..l
        BY <1>2, <2>2
      <4> QED
        BY <1>1, <4>1
    <3>2. PICK i \in 1..c : a[i] = s[c + 1]
      BY <1>2, <3>1
    <3>3. s[i] = s[c + 1] /\ i < c + 1 /\ i \in 1..l
      BY <1>2, <1>3, <2>2, <3>2
    <3>4. s[i] < s[c + 1]
      BY <1>1, <3>1, <3>3
    <3> QED
      BY <3>1, <3>3, <3>4
  <2> QED
    BY <1>2, <2>1, <2>2
<1>5. \A i \in 1..Len(s) : s[i] = a[i]
  BY <1>1, <1>2, <1>3, <1>4
<1> QED
  BY <1>1, <1>2, <1>4, <1>5, SeqEqual

(* A member above all others comes last.                                   *)
LEMMA AscendingEnds ==
    ASSUME NEW S \in SUBSET Nat, IsFiniteSet(S), NEW n \in Nat, \A m \in S : m < n
    PROVE  /\ IsFiniteSet(S \cup {n}) /\ Cardinality(S \cup {n}) = Cardinality(S) + 1
           /\ Ascending(S \cup {n}) = Append(Ascending(S), n)
<1>1. PICK a, c : a = Ascending(S) /\ c = Cardinality(S)
  OBVIOUS
<1>2. /\ c \in Nat /\ IsSeq(a) /\ Len(a) = c
      /\ \A k \in 1..c : a[k] \in S
      /\ \A m \in S : \E k \in 1..c : a[k] = m
      /\ \A j, k \in 1..c : j < k => a[j] < a[k]
  <2>1. /\ c \in Nat /\ a \in Seq(S) /\ DOMAIN a = 1..c /\ Len(a) = c
        /\ \A k \in 1..c : a[k] \in S
        /\ \A m \in S : \E k \in 1..c : a[k] = m
        /\ \A j, k \in 1..c : j < k => a[j] < a[k]
    BY <1>1, AscendingFacts
  <2>2. a = [k \in 1..c |-> a[k]]
    BY <2>1
  <2> QED
    BY <2>1, <2>2, FunctionIsSeq
<1>3. PICK t : t = Append(a, n)
  OBVIOUS
<1>4. /\ IsSeq(t) /\ Len(t) = c + 1 /\ t[c + 1] = n
      /\ \A i \in 1..c : t[i] = a[i]
  BY <1>2, <1>3, AppendFacts
<1>5. n \notin S /\ IsFiniteSet(S \cup {n}) /\ Cardinality(S \cup {n}) = c + 1 /\ S \cup {n} \in SUBSET Nat
  <2>1. n \notin S
    OBVIOUS
  <2> QED
    BY <1>1, <2>1, FS_AddElement
<1>6. \A i \in 1..Len(t) : t[i] \in S \cup {n}
  BY <1>2, <1>4
<1>7. \A m \in S \cup {n} : \E i \in 1..Len(t) : t[i] = m
  <2>1. ASSUME NEW m \in S PROVE \E i \in 1..Len(t) : t[i] = m
    <3>1. PICK k \in 1..c : a[k] = m
      BY <1>2
    <3>2. k \in 1..Len(t) /\ t[k] = m
      BY <1>2, <1>4, <3>1
    <3> QED
      BY <3>2
  <2>2. c + 1 \in 1..Len(t) /\ t[c + 1] = n
    BY <1>2, <1>4
  <2> QED
    BY <2>1, <2>2
<1>8. \A i, j \in 1..Len(t) : i < j => t[i] < t[j]
  <2> SUFFICES ASSUME NEW i \in 1..Len(t), NEW j \in 1..Len(t), i < j PROVE t[i] < t[j]
    OBVIOUS
  <2>1. i \in 1..c /\ t[i] = a[i] /\ a[i] \in S
    BY <1>2, <1>4
  <2>2. CASE j = c + 1
    BY <1>4, <2>1, <2>2
  <2>3. CASE j # c + 1
    BY <1>2, <1>4, <2>1, <2>3
  <2> QED
    BY <2>2, <2>3
<1>9. t = Ascending(S \cup {n})
  BY <1>4, <1>5, <1>6, <1>7, <1>8, AscendingUnique
<1> QED
  BY <1>1, <1>3, <1>5, <1>9

-----------------------------------------------------------------------------
(* What a sequence has at some places is a sequence.                       *)
LEMMA PickedFacts ==
    ASSUME NEW s, NEW S \in SUBSET Nat, IsFiniteSet(S)
    PROVE  /\ IsSeq(Picked(s, S)) /\ Cardinality(S) \in Nat
           /\ Len(Picked(s, S)) = Cardinality(S) /\ DOMAIN Picked(s, S) = 1..Cardinality(S)
           /\ \A k \in 1..Cardinality(S) :
                Ascending(S)[k] \in S /\ Picked(s, S)[k] = s[Ascending(S)[k]]
<1>1. PICK a, c : a = Ascending(S) /\ c = Cardinality(S)
  OBVIOUS
<1>2. c \in Nat /\ DOMAIN a = 1..c /\ \A k \in 1..c : a[k] \in S
  BY <1>1, AscendingFacts
<1>3. Picked(s, S) = [k \in 1..c |-> s[a[k]]]
  BY <1>1, <1>2 DEF Picked
<1>4. PICK p : p = Picked(s, S)
  OBVIOUS
<1>5. p = [k \in 1..c |-> s[a[k]]] /\ DOMAIN p = 1..c /\ \A k \in 1..c : p[k] = s[a[k]]
  BY <1>3, <1>4
<1>6. p = [k \in 1..c |-> p[k]]
  BY <1>5
<1>7. IsSeq(p) /\ Len(p) = c
  BY <1>2, <1>5, <1>6, FunctionIsSeq
<1> QED
  BY <1>1, <1>2, <1>4, <1>5, <1>7

(* Nothing is picked from no place.                                        *)
LEMMA PickedNone == \A s : Picked(s, {}) = <<>>
<1> SUFFICES ASSUME NEW s PROVE Picked(s, {}) = <<>>
  OBVIOUS
<1>1. PICK S : S = {}
  OBVIOUS
<1>2. S \in SUBSET Nat /\ IsFiniteSet(S) /\ Cardinality(S) = 0
  BY <1>1, FS_EmptySet
<1>3. IsSeq(Picked(s, S)) /\ Len(Picked(s, S)) = 0
  BY <1>2, PickedFacts
<1>4. \A i \in 1..0 : Picked(s, S)[i] = <<>>[i]
  OBVIOUS
<1> QED
  BY <1>1, <1>3, <1>4, SeqEqual, SmallSeqs

(* A place beyond the others is picked last.                               *)
LEMMA PickedGrows ==
    ASSUME NEW s, NEW S \in SUBSET Nat, IsFiniteSet(S), NEW n \in Nat, \A m \in S : m < n
    PROVE  Picked(s, S \cup {n}) = Append(Picked(s, S), s[n])
<1>1. PICK a, b, c, p, q, U : /\ a = Ascending(S) /\ b = Ascending(U) /\ c = Cardinality(S)
                              /\ U = S \cup {n}
                              /\ p = Picked(s, S) /\ q = Picked(s, U)
  OBVIOUS
<1>2. U \in SUBSET Nat /\ IsFiniteSet(U) /\ Cardinality(U) = c + 1 /\ b = Append(a, n)
  BY <1>1, AscendingEnds
<1>3. /\ IsSeq(p) /\ c \in Nat /\ Len(p) = c /\ \A k \in 1..c : p[k] = s[a[k]]
  BY <1>1, PickedFacts
<1>4. /\ IsSeq(q) /\ Len(q) = c + 1 /\ \A k \in 1..c+1 : q[k] = s[b[k]]
  <2>1. /\ IsSeq(Picked(s, U)) /\ Len(Picked(s, U)) = Cardinality(U)
        /\ \A k \in 1..Cardinality(U) : Picked(s, U)[k] = s[Ascending(U)[k]]
    BY <1>2, PickedFacts
  <2> QED
    BY <1>1, <1>2, <2>1
<1>5. IsSeq(a) /\ Len(a) = c
  <2>1. c \in Nat /\ DOMAIN a = 1..c
    BY <1>1, AscendingFacts
  <2>2. a = [k \in 1..c |-> a[k]]
    BY <1>1, <2>1 DEF Ascending
  <2> QED
    BY <2>1, <2>2, FunctionIsSeq
<1>6. b[c + 1] = n /\ \A k \in 1..c : b[k] = a[k]
  BY <1>2, <1>5, AppendFacts
<1>7. PICK x, t : x = s[n] /\ t = Append(p, x)
  OBVIOUS
<1>8. IsSeq(t) /\ Len(t) = c + 1 /\ t[c + 1] = x /\ \A k \in 1..c : t[k] = p[k]
  BY <1>3, <1>7, AppendFacts
<1>9. \A k \in 1..c+1 : q[k] = t[k]
  <2> SUFFICES ASSUME NEW k \in 1..c+1 PROVE q[k] = t[k]
    OBVIOUS
  <2>1. CASE k = c + 1
    BY <1>4, <1>6, <1>7, <1>8, <2>1
  <2>2. CASE k # c + 1
    <3>1. k \in 1..c
      BY <1>3, <2>2
    <3> QED
      BY <1>3, <1>4, <1>6, <1>8, <3>1
  <2> QED
    BY <2>1, <2>2
<1>10. q = t
  BY <1>4, <1>8, <1>9, SeqEqual
<1> QED
  BY <1>1, <1>7, <1>10

(* Only what stands at the places matters.                                 *)
LEMMA PickedSame ==
    ASSUME NEW s, NEW t, NEW S \in SUBSET Nat, IsFiniteSet(S), \A m \in S : s[m] = t[m]
    PROVE  Picked(s, S) = Picked(t, S)
<1>1. PICK p, q, c : p = Picked(s, S) /\ q = Picked(t, S) /\ c = Cardinality(S)
  OBVIOUS
<1>2. /\ IsSeq(p) /\ Len(p) = c
      /\ \A k \in 1..c : Ascending(S)[k] \in S /\ p[k] = s[Ascending(S)[k]]
  BY <1>1, PickedFacts
<1>3. /\ IsSeq(q) /\ Len(q) = c
      /\ \A k \in 1..c : Ascending(S)[k] \in S /\ q[k] = t[Ascending(S)[k]]
  BY <1>1, PickedFacts
<1>4. \A k \in 1..c : p[k] = q[k]
  BY <1>2, <1>3
<1> QED
  BY <1>1, <1>2, <1>3, <1>4, SeqEqual

-----------------------------------------------------------------------------
(* Sequences of sequences run together, from the first.                    *)
RunsTogether(s, f) ==
    f[0] = <<>> /\ \A n \in 1..Len(s) : f[n] = f[n-1] \o s[n]

LEMMA FlattenTrace ==
    ASSUME NEW s, IsSeq(s), \A i \in 1..Len(s) : IsSeq(s[i])
    PROVE  \E f : /\ RunsTogether(s, f) /\ Seqs!FlattenSeq(s) = f[Len(s)]
                  /\ \A n \in 0..Len(s) : IsSeq(f[n])
<1>1. PICK N : N = Len(s)
  OBVIOUS
<1>2. N \in Nat /\ DOMAIN s = 1..N
  BY <1>1, SeqPlaces
<1> DEFINE T == UNION {Range(s[i]) : i \in 1..N}
           X == Seq(T)
           step == [n \in 1..N |-> [p \in X |-> p \o s[n]]]
<1>3. \A i \in 1..N : s[i] \in X
  <2> SUFFICES ASSUME NEW i \in 1..N PROVE s[i] \in X
    OBVIOUS
  <2>1. s[i] \in Seq(Range(s[i])) /\ Range(s[i]) \subseteq T
    BY <1>1 DEF IsSeq
  <2> HIDE DEF T
  <2> QED
    BY <2>1
<1>4. \A n \in 1..N : \A p \in X : step[n][p] = p \o s[n] /\ step[n][p] \in X
  <2> HIDE DEF T
  <2> QED
    BY <1>3
<1>5. <<>> \in X
  OBVIOUS
<1> HIDE DEF X
<1>6. PICK f \in [0..N -> X] : IsTrace(f, <<>>, step, N)
  <2>1. StaysIn(X, step, N)
    BY <1>4 DEF StaysIn
  <2> HIDE DEF step
  <2> QED
    BY <1>2, <2>1, <1>5, LoopHasTrace
<1>7. f[0] = <<>> /\ \A n \in 1..N : f[n-1] \in X /\ f[n] = f[n-1] \o s[n]
  <2>1. f[0] = <<>>
    BY <1>6 DEF IsTrace
  <2>2. ASSUME NEW n \in 1..N PROVE f[n-1] \in X /\ f[n] = f[n-1] \o s[n]
    <3>1. n \in 1..N /\ n - 1 \in 0..N
      BY <1>2
    <3>2. f[n] = step[n][f[n-1]] /\ f[n-1] \in X
      BY <1>6, <3>1 DEF IsTrace
    <3> QED
      BY <1>4, <3>1, <3>2
  <2> QED
    BY <2>1, <2>2
<1> HIDE DEF step
<1>8. \A n \in 0..N : IsSeq(f[n])
  <2> SUFFICES ASSUME NEW n \in 0..N PROVE IsSeq(f[n])
    OBVIOUS
  <2>1. PICK g : g = f[n]
    OBVIOUS
  <2>2. g \in Seq(T)
    BY <1>6, <2>1 DEF X
  <2> HIDE DEF T
  <2>3. DOMAIN g = 1..Len(g) /\ Len(g) \in Nat /\ g = [i \in 1..Len(g) |-> g[i]]
    BY <2>2
  <2>4. IsSeq(g)
    BY <2>3, FunctionIsSeq
  <2> QED
    BY <2>1, <2>4
<1>9. Seqs!FlattenSeq(s) = f[N]
  <2>1. CASE N = 0
    <3>1. s = <<>>
      BY <1>1, <2>1, SmallSeqs, SeqEqual
    <3> QED
      BY <1>1, <1>7, <2>1, <3>1 DEF Seqs!FlattenSeq
  <2>2. CASE N # 0
    <3> DEFINE Solves(g) == g = [i \in 1..N |-> IF i = 1 THEN s[i] ELSE g[i-1] \o s[i]]
               g0 == CHOOSE g : Solves(g)
               h == [i \in 1..N |-> f[i]]
    <3>1. \A i \in 1..N : f[i] = IF i = 1 THEN s[i] ELSE f[i-1] \o s[i]
      <4> SUFFICES ASSUME NEW i \in 1..N PROVE f[i] = IF i = 1 THEN s[i] ELSE f[i-1] \o s[i]
        OBVIOUS
      <4>1. CASE i = 1
        <5>1. f[1] = <<>> \o s[1]
          <6>1. 1 \in 1..N /\ 1 - 1 = 0
            BY <4>1
          <6>2. f[1] = f[1-1] \o s[1]
            BY <1>7, <6>1
          <6> QED
            BY <1>7, <6>1, <6>2
        <5>2. s[1] \in Seq(Range(s[1]))
          BY <1>1, <4>1 DEF IsSeq
        <5> QED
          BY <4>1, <5>1, <5>2
      <4>2. CASE i # 1
        BY <1>7, <4>2
      <4> QED
        BY <4>1, <4>2
    <3>2. Solves(h)
      <4>1. ASSUME NEW i \in 1..N PROVE h[i] = IF i = 1 THEN s[i] ELSE h[i-1] \o s[i]
        <5>1. i # 1 => i - 1 \in 1..N
          BY <1>2
        <5> QED
          BY <3>1, <5>1
      <4> QED
        BY <4>1
    <3>3. Solves(g0)
      <4> HIDE DEF Solves, h
      <4> QED
        BY <3>2
    <3>4. Seqs!FlattenSeq(s) = g0[N]
      BY <1>1, <2>2 DEF Seqs!FlattenSeq
    <3> HIDE DEF g0
    <3> DEFINE S == {n \in Nat : n \in 1..N => g0[n] = h[n]}
    <3>5. 0 \in S
      OBVIOUS
    <3>6. ASSUME NEW n \in Nat, n \in S PROVE n + 1 \in S
      <4> SUFFICES ASSUME n + 1 \in 1..N PROVE g0[n + 1] = h[n + 1]
        OBVIOUS
      <4>1. g0[n + 1] = IF n + 1 = 1 THEN s[n + 1] ELSE g0[(n + 1) - 1] \o s[n + 1]
        BY <3>3
      <4>2. h[n + 1] = IF n + 1 = 1 THEN s[n + 1] ELSE h[(n + 1) - 1] \o s[n + 1]
        <5> HIDE DEF h
        <5> QED
          BY <3>2
      <4>3. n + 1 # 1 => (n + 1) - 1 = n /\ n \in 1..N
        BY <1>2
      <4>4. n + 1 # 1 => g0[n] = h[n]
        BY <3>6, <4>3
      <4> QED
        BY <4>1, <4>2, <4>3, <4>4
    <3>7. N \in S
      <4> HIDE DEF S
      <4> QED
        BY <1>2, <3>5, <3>6, SetInduction
    <3> QED
      BY <1>2, <2>2, <3>4, <3>7
  <2> QED
    BY <2>1, <2>2
<1> QED
  BY <1>1, <1>7, <1>8, <1>9 DEF RunsTogether

(* They run together in one way.                                           *)
AgreeUpTo(s, t, n) ==
    /\ n \in Nat /\ n <= Len(s) /\ n <= Len(t) /\ Len(s) \in Nat /\ Len(t) \in Nat
    /\ \A i \in 1..n : s[i] = t[i]

LEMMA TogetherUnique ==
    ASSUME NEW s, NEW t, NEW f, NEW g, NEW n, AgreeUpTo(s, t, n),
           RunsTogether(s, f), RunsTogether(t, g)
    PROVE  f[n] = g[n]
<1> DEFINE S == {m \in Nat : m <= n => f[m] = g[m]}
<1>1. 0 \in S
  BY DEF RunsTogether
<1>2. ASSUME NEW m \in Nat, m \in S PROVE m + 1 \in S
  <2> SUFFICES ASSUME m + 1 <= n PROVE f[m + 1] = g[m + 1]
    OBVIOUS
  <2>1. /\ m + 1 \in 1..Len(s) /\ m + 1 \in 1..Len(t) /\ m + 1 \in 1..n
        /\ (m + 1) - 1 = m /\ m <= n
    BY DEF AgreeUpTo
  <2>2. f[m + 1] = f[m] \o s[m + 1] /\ g[m + 1] = g[m] \o t[m + 1]
    BY <2>1 DEF RunsTogether
  <2> QED
    BY <1>2, <2>1, <2>2 DEF AgreeUpTo
<1>3. n \in S
  <2> HIDE DEF S
  <2> QED
    BY <1>1, <1>2, SetInduction DEF AgreeUpTo
<1> QED
  BY <1>3 DEF AgreeUpTo

LEMMA FlattenFacts ==
    /\ Seqs!FlattenSeq(<<>>) = <<>>
    /\ \A s, x : IsSeq(s) /\ (\A i \in 1..Len(s) : IsSeq(s[i])) /\ IsSeq(x) =>
         /\ IsSeq(Seqs!FlattenSeq(s))
         /\ Seqs!FlattenSeq(Append(s, x)) = Seqs!FlattenSeq(s) \o x
<1>1. Seqs!FlattenSeq(<<>>) = <<>>
  BY SmallSeqs DEF Seqs!FlattenSeq
<1>2. ASSUME NEW s, NEW x, IsSeq(s), \A i \in 1..Len(s) : IsSeq(s[i]), IsSeq(x)
      PROVE  IsSeq(Seqs!FlattenSeq(s)) /\ Seqs!FlattenSeq(Append(s, x)) = Seqs!FlattenSeq(s) \o x
  <2>1. PICK t, N : t = Append(s, x) /\ N = Len(s)
    OBVIOUS
  <2>2. /\ IsSeq(t) /\ Len(t) = N + 1 /\ N \in Nat /\ t[N + 1] = x
        /\ \A i \in 1..N : t[i] = s[i]
    BY <1>2, <2>1, AppendFacts, SeqPlaces
  <2>3. \A i \in 1..Len(t) : IsSeq(t[i])
    <3> SUFFICES ASSUME NEW i \in 1..Len(t) PROVE IsSeq(t[i])
      OBVIOUS
    <3>1. CASE i = N + 1
      BY <1>2, <2>2, <3>1
    <3>2. CASE i # N + 1
      <4>1. i \in 1..N /\ t[i] = s[i]
        BY <2>2, <3>2
      <4> QED
        BY <1>2, <2>1, <4>1
    <3> QED
      BY <3>1, <3>2
  <2>4. PICK f : /\ RunsTogether(s, f) /\ Seqs!FlattenSeq(s) = f[N]
                 /\ \A n \in 0..N : IsSeq(f[n])
    BY <1>2, <2>1, FlattenTrace
  <2>5. PICK g : RunsTogether(t, g) /\ Seqs!FlattenSeq(t) = g[N + 1]
    BY <2>2, <2>3, FlattenTrace
  <2>6. f[N] = g[N]
    <3>1. AgreeUpTo(s, t, N)
      BY <2>1, <2>2 DEF AgreeUpTo
    <3>2. N \in Nat /\ RunsTogether(s, f) /\ RunsTogether(t, g)
      BY <2>2, <2>4, <2>5

    <3> QED
      BY <3>1, <3>2, TogetherUnique
  <2>7. g[N + 1] = g[(N + 1) - 1] \o t[N + 1]
    <3>1. N + 1 \in 1..Len(t)
      BY <2>2
    <3> QED
      BY <2>5, <3>1 DEF RunsTogether
  <2>8. (N + 1) - 1 = N /\ N \in 0..N
    BY <2>2
  <2>9. Seqs!FlattenSeq(t) = f[N] \o x
    BY <2>2, <2>5, <2>6, <2>7, <2>8
  <2> QED
    BY <2>1, <2>4, <2>8, <2>9
<1> QED
  BY <1>1, <1>2

(* What stands at some places, run together.                               *)
Gathered(t, S) == Seqs!FlattenSeq(Picked(t, S))

LEMMA EmptyBefore == \A x : IsSeq(x) => <<>> \o x = x /\ x \o <<>> = x
<1> SUFFICES ASSUME NEW x, IsSeq(x) PROVE <<>> \o x = x /\ x \o <<>> = x
  OBVIOUS
<1>1. x \in Seq(Range(x))
  BY DEF IsSeq
<1> QED
  BY <1>1

LEMMA GatheredFacts ==
    /\ \A t : Gathered(t, {}) = <<>>
    /\ \A t, n : n \in Nat /\ IsSeq(t[n]) => Gathered(t, {n}) = t[n]
    /\ \A t, S : S \in SUBSET Nat /\ IsFiniteSet(S) /\ (\A m \in S : IsSeq(t[m])) =>
         /\ IsSeq(Gathered(t, S))
         /\ \A n \in Nat : (\A m \in S : m < n) /\ IsSeq(t[n]) =>
              Gathered(t, S \cup {n}) = Gathered(t, S) \o t[n]
<1>1. ASSUME NEW t PROVE Gathered(t, {}) = <<>>
  BY PickedNone, FlattenFacts DEF Gathered
<1>2. ASSUME NEW t, NEW S \in SUBSET Nat, IsFiniteSet(S), \A m \in S : IsSeq(t[m])
      PROVE  /\ IsSeq(Gathered(t, S))
             /\ \A n \in Nat : (\A m \in S : m < n) /\ IsSeq(t[n]) =>
                  Gathered(t, S \cup {n}) = Gathered(t, S) \o t[n]
  <2>1. PICK p : p = Picked(t, S)
    OBVIOUS
  <2>2. IsSeq(p) /\ \A k \in 1..Len(p) : IsSeq(p[k])
    <3>1. /\ IsSeq(Picked(t, S)) /\ Len(Picked(t, S)) = Cardinality(S)
          /\ \A k \in 1..Cardinality(S) : Ascending(S)[k] \in S /\ Picked(t, S)[k] = t[Ascending(S)[k]]
      BY <1>2, PickedFacts
    <3> QED
      BY <1>2, <2>1, <3>1
  <2>3. IsSeq(Gathered(t, S))
    BY <2>1, <2>2, FlattenFacts DEF Gathered
  <2>4. ASSUME NEW n \in Nat, \A m \in S : m < n, IsSeq(t[n])
        PROVE  Gathered(t, S \cup {n}) = Gathered(t, S) \o t[n]
    <3>1. Picked(t, S \cup {n}) = Append(p, t[n])
      BY <1>2, <2>1, <2>4, PickedGrows
    <3>2. PICK x : x = t[n] /\ IsSeq(x)
      BY <2>4
    <3>3. Seqs!FlattenSeq(Append(p, x)) = Seqs!FlattenSeq(p) \o x
      BY <2>2, <3>2, FlattenFacts
    <3> QED
      BY <2>1, <3>1, <3>2, <3>3 DEF Gathered
  <2> QED
    BY <2>3, <2>4
<1>3. ASSUME NEW t, NEW n \in Nat, IsSeq(t[n]) PROVE Gathered(t, {n}) = t[n]
  <2>1. PICK S : S = {}
    OBVIOUS
  <2>2. S \in SUBSET Nat /\ IsFiniteSet(S) /\ \A m \in S : m < n /\ IsSeq(t[m])
    BY <2>1, FS_EmptySet
  <2>3. Gathered(t, S \cup {n}) = Gathered(t, S) \o t[n]
    BY <1>2, <1>3, <2>2
  <2>4. S \cup {n} = {n} /\ Gathered(t, S) = <<>>
    BY <1>1, <2>1
  <2> QED
    BY <1>3, <2>3, <2>4, EmptyBefore
<1> QED
  BY <1>1, <1>2, <1>3

-----------------------------------------------------------------------------
(* First and last members, and more on picking.                            *)

(* Places up to n are a finite set of naturals.                            *)
LEMMA SomePlaces ==
    ASSUME NEW n \in Nat, NEW S, S \subseteq 1..n
    PROVE  S \in SUBSET Nat /\ IsFiniteSet(S)
<1>1. IsFiniteSet(1..n)
  BY FS_Interval
<1>2. IsFiniteSet(S)
  BY <1>1, FS_Subset
<1> QED
  BY <1>2

(* What is added behind does not change the first member.                  *)
LEMMA HeadStays ==
    ASSUME NEW s, NEW t, IsSeq(s), IsSeq(t), s # <<>>
    PROVE  s \o t # <<>> /\ Head(s \o t) = Head(s)
<1>1. PICK u : u = s \o t
  OBVIOUS
<1>2. IsSeq(u) /\ Len(u) = Len(s) + Len(t) /\ Len(s) \in Nat /\ Len(t) \in Nat
      /\ \A i \in 1..Len(s) : u[i] = s[i]
  BY <1>1, ConcatFacts, SeqPlaces
<1>3. Len(s) # 0
  BY SmallSeqs, SeqEqual
<1>4. u # <<>>
  BY <1>2, <1>3, SmallSeqs
<1>5. Head(u) = u[1] /\ Head(s) = s[1] /\ 1 \in 1..Len(s)
  BY <1>2, <1>3, <1>4, TailFacts
<1> QED
  BY <1>1, <1>2, <1>4, <1>5

(* The last member of a sequence, and what precedes it.                    *)
LEMMA FrontFacts ==
    ASSUME NEW s, IsSeq(s), s # <<>>
    PROVE  /\ Len(s) \in Nat \ {0} /\ Seqs!Last(s) = s[Len(s)]
           /\ IsSeq(Seqs!Front(s)) /\ Len(Seqs!Front(s)) = Len(s) - 1
           /\ \A i \in 1..Len(s)-1 : Seqs!Front(s)[i] = s[i]
<1>1. PICK n : n = Len(s) /\ n \in Nat
  BY SeqPlaces
<1>2. n # 0
  BY <1>1, SmallSeqs, SeqEqual
<1>3. PICK f : f = SubSeq(s, 1, n - 1)
  OBVIOUS
<1>4. f = [i \in 1..n-1 |-> s[i]]
  <2>1. s \in Seq(Range(s))
    BY DEF IsSeq
  <2> QED
    BY <1>1, <1>2, <1>3, <2>1
<1>5. DOMAIN f = 1..n-1 /\ (\A i \in 1..n-1 : f[i] = s[i]) /\ n - 1 \in Nat
  BY <1>1, <1>2, <1>4
<1>6. f = [i \in 1..n-1 |-> f[i]]
  BY <1>4, <1>5
<1>7. IsSeq(f) /\ Len(f) = n - 1
  BY <1>5, <1>6, FunctionIsSeq
<1> QED
  BY <1>1, <1>2, <1>3, <1>5, <1>7 DEF Seqs!Last, Seqs!Front

(* What stands at every place is the sequence.                             *)
LEMMA PickedAll ==
    ASSUME NEW s, IsSeq(s)
    PROVE  Picked(s, DOMAIN s) = s
<1>1. PICK N, S : N = Len(s) /\ S = 1..N
  OBVIOUS
<1>2. N \in Nat /\ DOMAIN s = S /\ S \in SUBSET Nat /\ IsFiniteSet(S)
  BY <1>1, SeqPlaces
<1>3. PICK id : id = [i \in 1..N |-> i]
  OBVIOUS
<1>4. IsSeq(id) /\ Len(id) = N /\ \A i \in 1..N : id[i] = i
  BY <1>2, <1>3, FunctionIsSeq
<1>5. id = Ascending(S)
  <2>1. /\ \A i \in 1..Len(id) : id[i] \in S
        /\ \A n \in S : \E i \in 1..Len(id) : id[i] = n
        /\ \A i, j \in 1..Len(id) : i < j => id[i] < id[j]
    BY <1>1, <1>2, <1>4
  <2> QED
    BY <1>2, <1>4, <2>1, AscendingUnique
<1>6. PICK p, c : p = Picked(s, S) /\ c = Cardinality(S)
  OBVIOUS
<1>7. IsSeq(p) /\ Len(p) = c /\ DOMAIN p = 1..c /\ \A k \in 1..c : p[k] = s[id[k]]
  BY <1>2, <1>5, <1>6, PickedFacts
<1>8. c = N
  <2>1. DOMAIN Ascending(S) = 1..c /\ c \in Nat /\ Len(Ascending(S)) = c
    BY <1>2, <1>6, AscendingFacts
  <2> QED
    BY <1>4, <1>5, <2>1
<1>9. \A k \in 1..N : p[k] = s[k]
  BY <1>4, <1>7, <1>8
<1>10. p = s
  BY <1>1, <1>7, <1>8, <1>9, SeqEqual
<1> QED
  BY <1>2, <1>6, <1>10

(* Concatenation is associative.                                           *)
LEMMA ConcatAssoc ==
    ASSUME NEW s, NEW t, NEW u, IsSeq(s), IsSeq(t), IsSeq(u)
    PROVE  (s \o t) \o u = s \o (t \o u)
<1>1. PICK a, b, c, v, w, x, y :
         /\ a = Len(s) /\ b = Len(t) /\ c = Len(u)
         /\ v = s \o t /\ w = t \o u /\ x = v \o u /\ y = s \o w
  OBVIOUS
<1>2. /\ a \in Nat /\ b \in Nat /\ c \in Nat
      /\ IsSeq(v) /\ Len(v) = a + b
      /\ (\A i \in 1..a : v[i] = s[i]) /\ (\A i \in 1..b : v[a + i] = t[i])
      /\ IsSeq(w) /\ Len(w) = b + c
      /\ (\A i \in 1..b : w[i] = t[i]) /\ (\A i \in 1..c : w[b + i] = u[i])
  BY <1>1, ConcatFacts, SeqPlaces
<1>3. /\ IsSeq(x) /\ Len(x) = a + b + c
      /\ (\A i \in 1..a+b : x[i] = v[i]) /\ (\A i \in 1..c : x[a + b + i] = u[i])
  <2>1. /\ Len(x) = Len(v) + Len(u) /\ IsSeq(x)
        /\ (\A i \in 1..Len(v) : x[i] = v[i]) /\ (\A i \in 1..Len(u) : x[Len(v) + i] = u[i])
    BY <1>1, <1>2, ConcatFacts
  <2> QED
    BY <1>1, <1>2, <2>1
<1>4. /\ IsSeq(y) /\ Len(y) = a + b + c
      /\ (\A i \in 1..a : y[i] = s[i]) /\ (\A i \in 1..b+c : y[a + i] = w[i])
  <2>1. /\ Len(y) = Len(s) + Len(w) /\ IsSeq(y)
        /\ (\A i \in 1..Len(s) : y[i] = s[i]) /\ (\A i \in 1..Len(w) : y[Len(s) + i] = w[i])
    BY <1>1, <1>2, ConcatFacts
  <2> QED
    BY <1>1, <1>2, <2>1
<1>5. ASSUME NEW i \in 1..(a + b + c) PROVE x[i] = y[i]
  <2>1. CASE i \in 1..a
    BY <1>2, <1>3, <1>4, <2>1
  <2>2. CASE i > a /\ i <= a + b
    <3>1. PICK j : j \in 1..b /\ i = a + j /\ j \in 1..b+c /\ i \in 1..a+b
      <4>1. i - a \in 1..b /\ i = a + (i - a) /\ i - a \in 1..b+c /\ i \in 1..a+b
        BY <1>2, <2>2
      <4> QED
        BY <4>1
    <3> QED
      BY <1>2, <1>3, <1>4, <3>1
  <2>3. CASE i > a + b
    <3>1. PICK j : j \in 1..c /\ i = a + b + j /\ b + j \in 1..b+c /\ i = a + (b + j)
      <4>1. i - a - b \in 1..c /\ i = a + b + (i - a - b) /\ b + (i - a - b) \in 1..b+c /\ i = a + (b + (i - a - b))
        BY <1>2, <2>3
      <4> QED
        BY <4>1
    <3>2. x[i] = u[j]
      BY <1>3, <3>1
    <3>3. y[i] = w[b + j]
      BY <1>4, <3>1
    <3> QED
      BY <1>2, <3>1, <3>2, <3>3
  <2> QED
    BY <1>2, <2>1, <2>2, <2>3
<1>6. x = y
  BY <1>3, <1>4, <1>5, SeqEqual
<1> QED
  BY <1>1, <1>6

(* K are the places in S, in its order, of the members of R.               *)
PlacesOf(K, R, S) ==
    /\ K \subseteq 1..Cardinality(S) /\ R \subseteq S
    /\ \A k \in 1..Cardinality(S) : k \in K <=> Ascending(S)[k] \in R

(* To pick from what was picked is to pick once.                           *)
LEMMA PickedTwice ==
    ASSUME NEW s, NEW S \in SUBSET Nat, IsFiniteSet(S), NEW K, NEW R, PlacesOf(K, R, S)
    PROVE  Picked(Picked(s, S), K) = Picked(s, R)
<1>0. /\ K \subseteq 1..Cardinality(S) /\ R \subseteq S
      /\ \A k \in 1..Cardinality(S) : k \in K <=> Ascending(S)[k] \in R
  BY DEF PlacesOf
<1>1. PICK a, b, c, d, p, x : /\ a = Ascending(S) /\ c = Cardinality(S) /\ p = Picked(s, S)
                              /\ b = Ascending(K) /\ d = Cardinality(K) /\ x = Picked(p, K)
  OBVIOUS
<1>2. /\ c \in Nat /\ (\A k \in 1..c : a[k] \in S /\ p[k] = s[a[k]])
      /\ (\A n \in S : \E k \in 1..c : a[k] = n)
      /\ \A j, k \in 1..c : j < k => a[j] < a[k]
  BY <1>1, AscendingFacts, PickedFacts
<1>3. K \in SUBSET Nat /\ IsFiniteSet(K) /\ R \in SUBSET Nat /\ IsFiniteSet(R)
  <2>1. K \in SUBSET Nat /\ IsFiniteSet(K)
    BY <1>0, <1>1, <1>2, SomePlaces
  <2> QED
    BY <1>0, <2>1, FS_Subset
<1>4. /\ d \in Nat /\ IsSeq(x) /\ Len(x) = d /\ (\A k \in 1..d : b[k] \in K /\ x[k] = p[b[k]])
      /\ (\A n \in K : \E k \in 1..d : b[k] = n)
      /\ \A j, k \in 1..d : j < k => b[j] < b[k]
  <2>1. /\ (\A n \in K : \E k \in 1..d : b[k] = n)
        /\ \A j, k \in 1..d : j < k => b[j] < b[k]
    BY <1>1, <1>3, AscendingFacts
  <2>2. d \in Nat /\ IsSeq(x) /\ Len(x) = d /\ (\A k \in 1..d : b[k] \in K /\ x[k] = p[b[k]])
    BY <1>1, <1>3, PickedFacts
  <2> QED
    BY <2>1, <2>2
<1>5. PICK q : q = [k \in 1..d |-> a[b[k]]]
  OBVIOUS
<1>6. IsSeq(q) /\ Len(q) = d /\ \A k \in 1..d : q[k] = a[b[k]]
  <2>1. DOMAIN q = 1..d /\ q = [k \in 1..d |-> q[k]]
    BY <1>5
  <2> QED
    BY <1>4, <1>5, <2>1, FunctionIsSeq
<1>7. \A k \in 1..d : b[k] \in 1..c
  BY <1>0, <1>1, <1>4
<1>8. q = Ascending(R)
  <2>1. \A i \in 1..Len(q) : q[i] \in R
    BY <1>0, <1>1, <1>4, <1>6, <1>7
  <2>2. ASSUME NEW n \in R PROVE \E i \in 1..Len(q) : q[i] = n
    <3>1. PICK k \in 1..c : a[k] = n
      BY <1>0, <1>2, <2>2
    <3>2. k \in K
      BY <1>0, <1>1, <2>2, <3>1
    <3>3. PICK i \in 1..d : b[i] = k
      BY <1>4, <3>2
    <3> QED
      BY <1>6, <3>1, <3>3
  <2>3. ASSUME NEW i \in 1..Len(q), NEW j \in 1..Len(q), i < j PROVE q[i] < q[j]
    <3>1. i \in 1..d /\ j \in 1..d
      BY <1>6, <2>3
    <3>2. b[i] < b[j] /\ b[i] \in 1..c /\ b[j] \in 1..c
      BY <1>4, <1>7, <2>3, <3>1
    <3>3. a[b[i]] < a[b[j]]
      BY <1>2, <3>2
    <3> QED
      BY <1>6, <3>1, <3>3
  <2> QED
    BY <1>3, <1>6, <2>1, <2>2, <2>3, AscendingUnique
<1>9. PICK y, e : y = Picked(s, R) /\ e = Cardinality(R)
  OBVIOUS
<1>10. IsSeq(y) /\ Len(y) = e /\ e = d /\ \A k \in 1..e : y[k] = s[q[k]]
  <2>1. IsSeq(y) /\ Len(y) = e /\ \A k \in 1..e : y[k] = s[q[k]]
    BY <1>3, <1>8, <1>9, PickedFacts
  <2>2. Len(Ascending(R)) = e
    BY <1>3, <1>9, AscendingFacts
  <2> QED
    BY <1>6, <1>8, <2>1, <2>2
<1>11. \A k \in 1..d : x[k] = y[k]
  <2> SUFFICES ASSUME NEW k \in 1..d PROVE x[k] = y[k]
    OBVIOUS
  <2>1. x[k] = p[b[k]] /\ y[k] = s[a[b[k]]]
    BY <1>4, <1>6, <1>10
  <2>2. p[b[k]] = s[a[b[k]]]
    BY <1>2, <1>7
  <2> QED
    BY <2>1, <2>2
<1>12. x = y
  BY <1>4, <1>10, <1>11, SeqEqual
<1> QED
  BY <1>1, <1>9, <1>12
=============================================================================
