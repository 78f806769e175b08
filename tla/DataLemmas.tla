------------------------------ MODULE DataLemmas ------------------------------
(***************************************************************************)
(* Facts about the data of the modules: the last and the first element of  *)
(* a set of numbers, what sequences hold and in which order, and the folds *)
(* over finite sets with which sums are stated.  FoldSet is a recursive    *)
(* function: what it computes is shown here by looking at the smallest set *)
(* for which it would be something else.                                   *)
(***************************************************************************)
EXTENDS Integers, Sequences, SequencesExt, FiniteSetsExt, FiniteSetTheorems,
        WellFoundedInduction, TLAPS

LessThan == {p \in Nat \X Nat : p[1] < p[2]}

(* A set of natural numbers that is not empty has a first element. *)
LEMMA FirstNat ==
    ASSUME NEW S \in SUBSET Nat, S # {}
    PROVE  \E m \in S : \A n \in S : m <= n
  <1>1. IsWellFoundedOn(LessThan, Nat)
        BY NatLessThanWellFounded DEF OpToRel, LessThan
  <1>2. PICK m \in S : \A n \in S : <<n, m>> \notin LessThan
        BY <1>1, WFMin
  <1>3. \A n \in S : m <= n
    <2> SUFFICES ASSUME NEW n \in S PROVE m <= n
        OBVIOUS
    <2>1. ~(n < m)
          BY <1>2 DEF LessThan
    <2>. QED BY <2>1
  <1>. QED BY <1>3

(* A set of natural numbers below a bound has a last element, which is Max. *)
LEMMA LastNat ==
    ASSUME NEW b \in Nat, NEW S \in SUBSET (0 .. b), S # {}
    PROVE  Max(S) \in S /\ \A n \in S : Max(S) >= n
  <1> DEFINE T == {b - n : n \in S}
  <1>1. T \in SUBSET Nat /\ T # {}
    <2>1. \A n \in S : b - n \in Nat
          OBVIOUS
    <2>. QED BY <2>1
  <1>2. PICK d \in T : \A k \in T : d <= k
        BY <1>1, FirstNat
  <1>3. PICK m \in S : d = b - m
        OBVIOUS
  <1>4. \A n \in S : m >= n
    <2> SUFFICES ASSUME NEW n \in S PROVE m >= n
        OBVIOUS
    <2>1. b - m <= b - n
          BY <1>2, <1>3
    <2>. QED BY <2>1
  <1>. QED BY <1>4 DEF Max

(* A set with more than one element has two different ones. *)
LEMMA TwoElements ==
    ASSUME NEW S, IsFiniteSet(S), Cardinality(S) > 1, NEW x \in S
    PROVE  \E y \in S : y # x
  <1>1. Cardinality({x}) = 1
        BY FS_Singleton
  <1>2. S # {x}
        BY <1>1
  <1>. QED BY <1>2

-----------------------------------------------------------------------------
(* What the operators on sequences return. *)
LEMMA HeadTail ==
    ASSUME NEW S, NEW s \in Seq(S), s # <<>>
    PROVE  /\ Head(s) \in S /\ Head(s) = s[1] /\ Tail(s) \in Seq(S)
           /\ Len(s) >= 1 /\ Len(Tail(s)) = Len(s) - 1
           /\ \A j \in 1 .. Len(Tail(s)) : Tail(s)[j] = s[j + 1]
  OBVIOUS

(* The elements of a sequence. *)
LEMMA InSet == \A S : \A s \in Seq(S) : \A x :
                   x \in ToSet(s) <=> \E j \in 1 .. Len(s) : s[j] = x
  BY DEF ToSet

(* A sequence behind another. *)
LEMMA ConcatParts ==
    ASSUME NEW S, NEW s \in Seq(S), NEW t \in Seq(S)
    PROVE  /\ s \o t \in Seq(S) /\ Len(s \o t) = Len(s) + Len(t)
           /\ \A j \in 1 .. Len(s) : (s \o t)[j] = s[j]
           /\ \A j \in Len(s) + 1 .. Len(s) + Len(t) : (s \o t)[j] = t[j - Len(s)]
  OBVIOUS

(* What is left when one element is removed (d2sc_nf.c shifts the list). *)
LEMMA Removed ==
    ASSUME NEW S, NEW s \in Seq(S), NEW k \in 1 .. Len(s)
    PROVE  /\ RemoveAt(s, k) \in Seq(S)
           /\ ToSet(RemoveAt(s, k)) \subseteq ToSet(s)
  <1>1. /\ SubSeq(s, 1, k - 1) \in Seq(S) /\ Len(SubSeq(s, 1, k - 1)) = k - 1
        /\ \A j \in 1 .. k - 1 : SubSeq(s, 1, k - 1)[j] = s[j]
        BY Z3
  <1>2. /\ SubSeq(s, k + 1, Len(s)) \in Seq(S)
        /\ Len(SubSeq(s, k + 1, Len(s))) = Len(s) - k
        /\ \A j \in 1 .. Len(s) - k : SubSeq(s, k + 1, Len(s))[j] = s[j + k]
        BY Z3
  <1> DEFINE a == SubSeq(s, 1, k - 1)
             b == SubSeq(s, k + 1, Len(s))
  <1> HIDE DEF a, b
  <1>3. RemoveAt(s, k) = a \o b
        BY DEF RemoveAt, a, b
  <1>4. a \in Seq(S) /\ b \in Seq(S) /\ Len(a) \in Nat /\ Len(b) \in Nat
        BY <1>1, <1>2 DEF a, b
  <1>5. /\ a \o b \in Seq(S) /\ Len(a \o b) = Len(a) + Len(b)
        /\ \A j \in 1 .. Len(a) : (a \o b)[j] = a[j]
        /\ \A j \in Len(a) + 1 .. Len(a) + Len(b) : (a \o b)[j] = b[j - Len(a)]
        BY <1>4, ConcatParts
  <1>6. ASSUME NEW j \in 1 .. Len(a \o b)
        PROVE  \E l \in 1 .. Len(s) : (a \o b)[j] = s[l]
    <2>1. Len(a) = k - 1 /\ Len(b) = Len(s) - k /\ Len(s) \in Nat
          BY <1>1, <1>2 DEF a, b
    <2>2. CASE j <= Len(a)
      <3>1. j \in 1 .. Len(s) /\ (a \o b)[j] = a[j] /\ a[j] = s[j]
            BY <1>1, <1>4, <1>5, <2>1, <2>2 DEF a
      <3>. QED BY <3>1
    <2>3. CASE j > Len(a)
      <3>1. /\ j - Len(a) + k \in 1 .. Len(s) /\ (a \o b)[j] = b[j - Len(a)]
            /\ b[j - Len(a)] = s[j - Len(a) + k]
            BY <1>2, <1>4, <1>5, <2>1, <2>3 DEF b
      <3>. QED BY <3>1
    <2>. QED BY <1>4, <1>5, <2>2, <2>3
  <1>7. ASSUME NEW x \in ToSet(a \o b) PROVE x \in ToSet(s)
    <2>1. PICK j \in 1 .. Len(a \o b) : (a \o b)[j] = x
          BY <1>5, <1>7, InSet
    <2>. QED BY <1>6, <2>1, InSet
  <1>. QED BY <1>3, <1>5, <1>7

(* What a sequence of packets holds are packets. *)
LEMMA SetOf == \A S : \A s \in Seq(S) : ToSet(s) \subseteq S
  BY DEF ToSet

(* A sequence holds no value twice. *)
Once(s) == \A i, j \in 1 .. Len(s) : s[i] = s[j] => i = j

(* The sequences in terms of what they hold, and once. *)
LEMMA TailHolds ==
    ASSUME NEW S, NEW s \in Seq(S), s # <<>>, Once(s)
    PROVE  /\ Once(Tail(s)) /\ Head(s) \in ToSet(s)
           /\ \A x : x \in ToSet(Tail(s)) <=> x \in ToSet(s) /\ x # Head(s)
  <1>1. /\ Head(s) \in S /\ Head(s) = s[1] /\ Tail(s) \in Seq(S)
        /\ Len(s) \in Nat /\ Len(s) >= 1 /\ Len(Tail(s)) = Len(s) - 1
        /\ \A j \in 1 .. Len(Tail(s)) : Tail(s)[j] = s[j + 1]
        BY HeadTail
  <1>2. Once(Tail(s))
        BY <1>1 DEF Once
  <1>3. Head(s) \in ToSet(s)
        BY <1>1, InSet
  <1>4. ASSUME NEW x, x \in ToSet(Tail(s)) PROVE x \in ToSet(s) /\ x # Head(s)
    <2>1. PICK j \in 1 .. Len(Tail(s)) : Tail(s)[j] = x
      <3>. DEFINE t == Tail(s)
      <3>1. t \in Seq(S) /\ x \in ToSet(t)
            BY <1>1, <1>4
      <3>. HIDE DEF t
      <3>2. \E j \in 1 .. Len(t) : t[j] = x
            BY <3>1, InSet
      <3>. QED BY <3>2 DEF t
    <2>2. j + 1 \in 1 .. Len(s) /\ s[j + 1] = x /\ j + 1 # 1 /\ 1 \in 1 .. Len(s)
          BY <1>1, <2>1
    <2>. QED BY <1>1, <2>2, InSet DEF Once
  <1>5. ASSUME NEW x, x \in ToSet(s), x # Head(s) PROVE x \in ToSet(Tail(s))
    <2>1. PICK j \in 1 .. Len(s) : s[j] = x
          BY <1>5, InSet
    <2>2. j - 1 \in 1 .. Len(Tail(s)) /\ Tail(s)[j - 1] = x
          BY <1>1, <1>5, <2>1
    <2>. QED BY <1>1, <2>2, InSet
  <1>. QED BY <1>2, <1>3, <1>4, <1>5

(* A value behind a queue that did not hold it. *)
LEMMA AppendHolds ==
    ASSUME NEW S, NEW s \in Seq(S), NEW p \in S
    PROVE  /\ Append(s, p) \in Seq(S)
           /\ \A x : x \in ToSet(Append(s, p)) <=> x \in ToSet(s) \/ x = p
           /\ Once(s) /\ p \notin ToSet(s) => Once(Append(s, p))
  <1> DEFINE t == Append(s, p)
  <1>1. /\ t \in Seq(S) /\ Len(s) \in Nat /\ Len(t) = Len(s) + 1
        /\ t[Len(s) + 1] = p /\ \A j \in 1 .. Len(s) : t[j] = s[j]
        OBVIOUS
  <1> HIDE DEF t
  <1>2. \A x : x \in ToSet(t) <=> x \in ToSet(s) \/ x = p
    <2>1. \A x : x \in ToSet(t) <=> \E j \in 1 .. Len(t) : t[j] = x
          BY <1>1, InSet
    <2>2. \A x : x \in ToSet(s) <=> \E j \in 1 .. Len(s) : s[j] = x
          BY InSet
    <2>. QED BY <1>1, <2>1, <2>2
  <1>3. Once(s) /\ p \notin ToSet(s) => Once(t)
    <2>1. \A x : x \in ToSet(s) <=> \E j \in 1 .. Len(s) : s[j] = x
          BY InSet
    <2>. QED BY <1>1, <2>1 DEF Once
  <1>. QED BY <1>1, <1>2, <1>3 DEF t

(* A queue behind another that has none of its values. *)
LEMMA ConcatHolds ==
    ASSUME NEW S, NEW s \in Seq(S), NEW t \in Seq(S)
    PROVE  /\ s \o t \in Seq(S)
           /\ \A x : x \in ToSet(s \o t) <=> x \in ToSet(s) \/ x \in ToSet(t)
           /\ Once(s) /\ Once(t) /\ (\A x \in ToSet(s) : x \notin ToSet(t))
                 => Once(s \o t)
  <1> DEFINE u == s \o t
  <1>1. /\ u \in Seq(S) /\ Len(u) = Len(s) + Len(t)
        /\ Len(s) \in Nat /\ Len(t) \in Nat
        /\ \A j \in 1 .. Len(s) : u[j] = s[j]
        /\ \A j \in Len(s) + 1 .. Len(s) + Len(t) : u[j] = t[j - Len(s)]
        BY ConcatParts
  <1> HIDE DEF u
  <1>2. \A x : x \in ToSet(u) <=> \E j \in 1 .. Len(u) : u[j] = x
        BY <1>1, InSet
  <1>3. \A x : x \in ToSet(s) <=> \E j \in 1 .. Len(s) : s[j] = x
        BY InSet
  <1>4. \A x : x \in ToSet(t) <=> \E j \in 1 .. Len(t) : t[j] = x
        BY InSet
  <1>5. ASSUME NEW x, x \in ToSet(u) PROVE x \in ToSet(s) \/ x \in ToSet(t)
    <2>1. PICK j \in 1 .. Len(u) : u[j] = x
          BY <1>2, <1>5
    <2>2. CASE j <= Len(s)
          BY <1>1, <1>3, <2>1, <2>2
    <2>3. CASE j > Len(s)
      <3>1. j - Len(s) \in 1 .. Len(t) /\ t[j - Len(s)] = x
            BY <1>1, <2>1, <2>3
      <3>. QED BY <1>4, <3>1
    <2>. QED BY <1>1, <2>1, <2>2, <2>3
  <1>6. ASSUME NEW x, x \in ToSet(s) PROVE x \in ToSet(u)
    <2>1. PICK j \in 1 .. Len(s) : s[j] = x
          BY <1>3, <1>6
    <2>2. j \in 1 .. Len(u) /\ u[j] = x
          BY <1>1, <2>1
    <2>. QED BY <1>2, <2>2
  <1>7. ASSUME NEW x, x \in ToSet(t) PROVE x \in ToSet(u)
    <2>1. PICK j \in 1 .. Len(t) : t[j] = x
          BY <1>4, <1>7
    <2>2. j + Len(s) \in 1 .. Len(u) /\ u[j + Len(s)] = x
          BY <1>1, <2>1, SMTT(30)
    <2>. QED BY <1>2, <2>2
  <1>8. ASSUME Once(s), Once(t), \A x \in ToSet(s) : x \notin ToSet(t),
               NEW i \in 1 .. Len(u), NEW j \in 1 .. Len(u), u[i] = u[j]
        PROVE  i = j
    <2>1. CASE i <= Len(s) /\ j <= Len(s)
          BY <1>1, <1>8, <2>1 DEF Once
    <2>2. CASE i > Len(s) /\ j > Len(s)
      <3>1. /\ i - Len(s) \in 1 .. Len(t) /\ j - Len(s) \in 1 .. Len(t)
            /\ t[i - Len(s)] = t[j - Len(s)]
            BY <1>1, <1>8, <2>2
      <3>2. i - Len(s) = j - Len(s)
            BY <1>8, <3>1 DEF Once
      <3>. QED BY <1>1, <3>2
    <2>3. CASE i <= Len(s) /\ j > Len(s)
      <3>1. i \in 1 .. Len(s) /\ s[i] = u[i]
            BY <1>1, <2>3
      <3>2. j - Len(s) \in 1 .. Len(t) /\ t[j - Len(s)] = u[j]
            BY <1>1, <2>3
      <3>3. u[i] \in ToSet(s) /\ u[j] \in ToSet(t)
            BY <1>3, <1>4, <3>1, <3>2
      <3>. QED BY <1>8, <3>3
    <2>4. CASE i > Len(s) /\ j <= Len(s)
      <3>1. j \in 1 .. Len(s) /\ s[j] = u[j]
            BY <1>1, <2>4
      <3>2. i - Len(s) \in 1 .. Len(t) /\ t[i - Len(s)] = u[i]
            BY <1>1, <2>4
      <3>3. u[j] \in ToSet(s) /\ u[i] \in ToSet(t)
            BY <1>3, <1>4, <3>1, <3>2
      <3>. QED BY <1>8, <3>3
    <2>. QED BY <1>1, <2>1, <2>2, <2>3, <2>4
  <1>9. Once(s) /\ Once(t) /\ (\A x \in ToSet(s) : x \notin ToSet(t)) => Once(u)
        BY <1>8 DEF Once
  <1>. QED BY <1>1, <1>5, <1>6, <1>7, <1>9 DEF u

(* A sequence is split in two that have no value in common. *)
LEMMA SplitHolds ==
    ASSUME NEW S, NEW s \in Seq(S), NEW n \in 0 .. Len(s)
    PROVE  /\ SubSeq(s, 1, n) \in Seq(S) /\ SubSeq(s, n + 1, Len(s)) \in Seq(S)
           /\ \A x : x \in ToSet(s) <=> \/ x \in ToSet(SubSeq(s, 1, n))
                                      \/ x \in ToSet(SubSeq(s, n + 1, Len(s)))
           /\ Once(s) => /\ Once(SubSeq(s, 1, n)) /\ Once(SubSeq(s, n + 1, Len(s)))
                         /\ \A x \in ToSet(SubSeq(s, 1, n)) :
                               x \notin ToSet(SubSeq(s, n + 1, Len(s)))
  <1> DEFINE a == SubSeq(s, 1, n)
             b == SubSeq(s, n + 1, Len(s))
  <1>1. /\ a \in Seq(S) /\ Len(s) \in Nat /\ n \in Nat /\ n <= Len(s) /\ Len(a) = n
        /\ \A j \in 1 .. n : a[j] = s[j]
        OBVIOUS
  <1>2. /\ b \in Seq(S) /\ Len(b) = Len(s) - n
        /\ \A j \in 1 .. Len(s) - n : b[j] = s[j + n]
        BY Z3
  <1> HIDE DEF a, b
  <1>3. /\ \A x : x \in ToSet(s) <=> \E j \in 1 .. Len(s) : s[j] = x
        /\ \A x : x \in ToSet(a) <=> \E j \in 1 .. n : a[j] = x
        /\ \A x : x \in ToSet(b) <=> \E j \in 1 .. Len(s) - n : b[j] = x
    <2>1. \A x : x \in ToSet(s) <=> \E j \in 1 .. Len(s) : s[j] = x
          BY InSet
    <2>2. \A x : x \in ToSet(a) <=> \E j \in 1 .. Len(a) : a[j] = x
          BY <1>1, InSet
    <2>3. \A x : x \in ToSet(b) <=> \E j \in 1 .. Len(b) : b[j] = x
          BY <1>2, InSet
    <2>4. 1 .. Len(a) = 1 .. n /\ 1 .. Len(b) = 1 .. Len(s) - n
          BY <1>1, <1>2
    <2>. QED BY <2>1, <2>2, <2>3, <2>4
  <1>4. ASSUME NEW x, x \in ToSet(s) PROVE x \in ToSet(a) \/ x \in ToSet(b)
    <2>1. PICK j \in 1 .. Len(s) : s[j] = x
          BY <1>3, <1>4
    <2>2. CASE j <= n
          BY <1>1, <1>3, <2>1, <2>2
    <2>3. CASE j > n
      <3>1. j - n \in 1 .. Len(s) - n /\ (j - n) + n = j
            BY <1>1, <2>1, <2>3
      <3>2. b[j - n] = x
            BY <1>2, <2>1, <3>1
      <3>. QED BY <1>3, <3>1, <3>2
    <2>. QED BY <1>1, <2>1, <2>2, <2>3
  <1>5. \A x : x \in ToSet(a) => x \in ToSet(s)
        BY <1>1, <1>3
  <1>6. \A j \in 1 .. Len(s) - n : j + n \in 1 .. Len(s) /\ j + n > n
        BY <1>1
  <1>7. \A x : x \in ToSet(b) => x \in ToSet(s)
        BY <1>2, <1>3, <1>6
  <1>8. ASSUME Once(s)
        PROVE  Once(a) /\ Once(b) /\ \A x \in ToSet(a) : x \notin ToSet(b)
    <2>1. Once(a)
          BY <1>1, <1>8 DEF Once
    <2>2. ASSUME NEW i \in 1 .. Len(b), NEW j \in 1 .. Len(b), b[i] = b[j]
          PROVE  i = j
      <3>1. i + n = j + n
            BY <1>2, <1>6, <1>8, <2>2 DEF Once
      <3>. QED BY <1>1, <3>1
    <2>3. ASSUME NEW x \in ToSet(a), x \in ToSet(b) PROVE FALSE
      <3>1. PICK i \in 1 .. n : a[i] = x
            BY <1>3
      <3>2. PICK j \in 1 .. Len(s) - n : b[j] = x
            BY <1>3, <2>3
      <3>3. i \in 1 .. Len(s) /\ s[i] = s[j + n]
            BY <1>1, <1>2, <3>1, <3>2
      <3>4. i = j + n
            BY <1>6, <1>8, <3>3 DEF Once
      <3>. QED BY <1>6, <3>4
    <2>. QED BY <2>1, <2>2, <2>3 DEF Once
  <1>. QED BY <1>1, <1>2, <1>4, <1>5, <1>7, <1>8 DEF a, b

-----------------------------------------------------------------------------
(* The element of a set that FoldSet takes first. *)
Pick(s) == CHOOSE x \in s : TRUE

(* The recursion by which FoldSet computes with f, from base, over S. *)
IsFold(g, f, base, S) ==
    \A s \in SUBSET S :
        g[s] = IF s = {} THEN base ELSE f[<<Pick(s), g[s \ {Pick(s)}]>>]

(* g folds f, which takes its values in V. *)
Folding(g, f, base, S, V) ==
    /\ base \in V /\ f \in [S \X V -> V] /\ g \in [SUBSET S -> V]
    /\ IsFold(g, f, base, S)
Obeys(h, f, base, S, V) ==
    /\ h[{}] = base
    /\ \A s \in SUBSET S : s # {} /\ h[s \ {Pick(s)}] \in V =>
           h[s] = f[<<Pick(s), h[s \ {Pick(s)}]>>]
Commutes(f, S, V) ==
    \A x, y \in S, v \in V : f[<<x, f[<<y, v>>]>>] = f[<<y, f[<<x, v>>]>>]
Agree(f1, f2, T, V) == \A x \in T, v \in V : f1[<<x, v>>] = f2[<<x, v>>]

(* It is one of the set. *)
LEMMA PickIn == \A s : s # {} => Pick(s) \in s
  BY DEF Pick

(* A recursion over the sets of a finite set that takes element c[s] of s. *)
Chooses(c, S) == \A s \in SUBSET S : s # {} => c[s] \in s
IsFoldBy(g, c, f, base, S) ==
    \A s \in SUBSET S :
        g[s] = IF s = {} THEN base ELSE f[<<c[s], g[s \ {c[s]}]>>]
LEMMA FoldByExists ==
    ASSUME NEW S, IsFiniteSet(S), NEW c, Chooses(c, S),
           NEW V, NEW base \in V, NEW f \in [S \X V -> V]
    PROVE  \E g \in [SUBSET S -> V] : IsFoldBy(g, c, f, base, S)
  <1> DEFINE Small(n) == {s \in SUBSET S : Cardinality(s) <= n}
             Folds(g, n) == \A s \in Small(n) :
                 g[s] = IF s = {} THEN base ELSE f[<<c[s], g[s \ {c[s]}]>>]
             Can(n) == \E g \in [Small(n) -> V] : Folds(g, n)
             Bad == {n \in Nat : ~Can(n)}
  <1>1. \A s \in SUBSET S : /\ IsFiniteSet(s) /\ Cardinality(s) \in Nat
                            /\ Cardinality(s) <= Cardinality(S)
        BY FS_Subset, FS_CardinalityType
  <1>2. \A s \in SUBSET S : s # {} => /\ c[s] \in S /\ s \ {c[s]} \in SUBSET S
                                      /\ Cardinality(s \ {c[s]}) = Cardinality(s) - 1
        BY <1>1, FS_RemoveElement DEF Chooses
  <1>3. \E g \in [Small(0) -> V] : Folds(g, 0)
    <2>1. \A s \in Small(0) : s = {}
          BY <1>1, FS_EmptySet
    <2> DEFINE g == [s \in Small(0) |-> base]
    <2>2. g \in [Small(0) -> V] /\ Folds(g, 0)
          BY <2>1
    <2>. QED BY <2>2
  <1>4. ASSUME NEW n \in Nat, NEW g \in [Small(n) -> V], Folds(g, n)
        PROVE  \E h \in [Small(n + 1) -> V] : Folds(h, n + 1)
    <2> DEFINE h == [s \in Small(n + 1) |->
                        IF s = {} THEN base ELSE f[<<c[s], g[s \ {c[s]}]>>]]
    <2>1. \A s \in Small(n + 1) : s # {} => s \ {c[s]} \in Small(n)
          BY <1>1, <1>2
    <2>2. h \in [Small(n + 1) -> V]
      <3>1. \A s \in Small(n + 1) : s # {} => <<c[s], g[s \ {c[s]}]>> \in S \X V
            BY <1>2, <2>1
      <3>. QED BY <3>1
    <2>3. \A s \in Small(n) : s \in Small(n + 1) /\ h[s] = g[s]
          BY <1>1, <1>4
    <2>4. Folds(h, n + 1)
          BY <2>1, <2>3
    <2>. QED BY <2>2, <2>4
  <1>5. Can(0) /\ \A n \in Nat : Can(n) => Can(n + 1)
        BY <1>3, <1>4
  <1>6. \A n \in Nat : Can(n)
    <2> HIDE DEF Can
    <2> SUFFICES ASSUME Bad # {} PROVE FALSE
        OBVIOUS
    <2>1. Bad \in SUBSET Nat
          OBVIOUS
    <2>2. PICK m \in Bad : \A k \in Bad : m <= k
          BY <2>1, FirstNat
    <2>3. m \in Nat /\ ~Can(m)
          OBVIOUS
    <2>4. m # 0
          BY <1>5, <2>3
    <2>5. m - 1 \in Nat /\ (m - 1) + 1 = m
          BY <2>3, <2>4
    <2>6. m - 1 \notin Bad
          BY <2>2, <2>5
    <2>. QED BY <1>5, <2>3, <2>5, <2>6
  <1>7. Small(Cardinality(S)) = SUBSET S /\ Cardinality(S) \in Nat
        BY <1>1
  <1>8. Can(Cardinality(S))
        BY <1>6, <1>7
  <1>. QED BY <1>7, <1>8 DEF IsFoldBy

(* The fold of f over the sets of a finite set exists. *)
LEMMA FoldExists ==
    ASSUME NEW S, IsFiniteSet(S), NEW V, NEW base \in V, NEW f \in [S \X V -> V]
    PROVE  \E g \in [SUBSET S -> V] : IsFold(g, f, base, S)
  <1>1. PICK c : c = [s \in SUBSET S |-> Pick(s)]
        OBVIOUS
  <1>2. Chooses(c, S)
        BY <1>1, PickIn DEF Chooses
  <1>3. PICK g \in [SUBSET S -> V] : IsFoldBy(g, c, f, base, S)
        BY <1>2, FoldByExists
  <1>4. \A s \in SUBSET S : c[s] = Pick(s)
        BY <1>1
  <1>. QED BY <1>3, <1>4 DEF IsFoldBy, IsFold

(* The subsets of a finite set can be taken by size: a set of them that is not
   empty has a smallest one. *)
LEMMA SmallestSubset ==
    ASSUME NEW S, IsFiniteSet(S), NEW B \in SUBSET (SUBSET S), B # {}
    PROVE  \E s \in B : \A t \in B : ~(t \subseteq s /\ t # s)
  <1>1. IsWellFoundedOn(StrictSubsetOrdering(S), FiniteSubsetsOf(S))
        BY FS_StrictSubsetOrderingWellFounded
  <1>2. FiniteSubsetsOf(S) = SUBSET S
        BY FS_FiniteSubsetsOfFinite
  <1>3. PICK s \in B : \A t \in B : <<t, s>> \notin StrictSubsetOrdering(S)
        BY <1>1, <1>2, WFMin
  <1>. QED BY <1>3 DEF StrictSubsetOrdering

(* A finite set that is ordered and not empty has a last element. *)
LEMMA LastInOrder ==
    ASSUME NEW S, IsFiniteSet(S), S # {}, NEW R,
           \A a, b, c \in S : <<a, b>> \in R /\ <<b, c>> \in R => <<a, c>> \in R,
           \A a \in S : <<a, a>> \notin R
    PROVE  \E m \in S : \A n \in S : <<m, n>> \notin R
  <1> DEFINE Above(c) == {d \in S : <<c, d>> \in R}
             B == {Above(c) : c \in S}
  <1>1. \E s \in B : \A t \in B : ~(t \subseteq s /\ t # s)
    <2>1. \A c \in S : Above(c) \in B
          OBVIOUS
    <2>2. \A t \in B : t \in SUBSET S
          OBVIOUS
    <2> HIDE DEF B, Above
    <2>3. B \in SUBSET (SUBSET S) /\ B # {}
          BY <2>1, <2>2
    <2>. QED BY <2>3, SmallestSubset
  <1>2. PICK m \in S : \A t \in B : ~(t \subseteq Above(m) /\ t # Above(m))
        BY <1>1
  <1>3. ASSUME NEW n \in S, <<m, n>> \in R PROVE FALSE
    <2>1. Above(n) \subseteq Above(m) /\ n \in Above(m) /\ n \notin Above(n)
          BY <1>3
    <2>2. Above(n) \in B
          OBVIOUS
    <2> HIDE DEF B, Above
    <2>. QED BY <1>2, <2>1, <2>2
  <1>. QED BY <1>3

(* So has a finite set of natural numbers. *)
LEMMA LastFinite ==
    ASSUME NEW S \in SUBSET Nat, IsFiniteSet(S), S # {}
    PROVE  \E m \in S : \A n \in S : n <= m
  <1>1. PICK R : R = {p \in S \X S : p[1] < p[2]}
        OBVIOUS
  <1>2. \A a, b \in S : <<a, b>> \in R <=> a < b
        BY <1>1
  <1>3. \A n \in S : n \in Int
        OBVIOUS
  <1>4. /\ \A a, b, c \in S : <<a, b>> \in R /\ <<b, c>> \in R => <<a, c>> \in R
        /\ \A a \in S : <<a, a>> \notin R
        BY <1>2, <1>3
  <1>5. PICK m \in S : \A n \in S : <<m, n>> \notin R
        BY <1>4, LastInOrder
  <1>6. ASSUME NEW n \in S PROVE n <= m
    <2>1. ~(m < n) /\ m \in Int /\ n \in Int
          BY <1>2, <1>3, <1>5
    <2>. QED BY <2>1
  <1>. QED BY <1>6

(* A recursion that stays in V where it was in V has all its values there. *)
LEMMA FoldStays ==
    ASSUME NEW S, IsFiniteSet(S), NEW c, Chooses(c, S), NEW V, NEW h, h[{}] \in V,
           \A s \in SUBSET S : s # {} /\ h[s \ {c[s]}] \in V => h[s] \in V
    PROVE  \A s \in SUBSET S : h[s] \in V
  <1> DEFINE B == {s \in SUBSET S : h[s] \notin V}
  <1> SUFFICES ASSUME B # {} PROVE FALSE
      OBVIOUS
  <1>1. B \in SUBSET (SUBSET S)
        OBVIOUS
  <1>2. \E s \in B : \A t \in B : ~(t \subseteq s /\ t # s)
    <2> HIDE DEF B
    <2>. QED BY <1>1, SmallestSubset
  <1>3. PICK s \in B : \A t \in B : ~(t \subseteq s /\ t # s)
        BY <1>2
  <1>4. s # {} /\ s \in SUBSET S /\ h[s] \notin V
        OBVIOUS
  <1>5. c[s] \in s
        BY <1>4 DEF Chooses
  <1>6. /\ s \ {c[s]} \in SUBSET S /\ s \ {c[s]} \subseteq s
        /\ s \ {c[s]} # s
        BY <1>4, <1>5
  <1>7. h[s \ {c[s]}] \in V
        BY <1>3, <1>6
  <1>. QED BY <1>4, <1>7

(* FoldLeft takes the last element of a sequence first. *)
IsLastFold(g, f, base, n) ==
    \A s \in SUBSET (1 .. n) :
        g[s] = IF s = {} THEN base ELSE f[<<Max(s), g[s \ {Max(s)}]>>]
LEMMA FoldLastExists ==
    ASSUME NEW n \in Nat, NEW V, NEW base \in V, NEW f \in [(1 .. n) \X V -> V]
    PROVE  /\ \A s \in SUBSET (1 .. n) : s # {} => Max(s) \in s
           /\ \E g \in [SUBSET (1 .. n) -> V] : IsLastFold(g, f, base, n)
  <1>1. PICK c : c = [s \in SUBSET (1 .. n) |-> Max(s)]
        OBVIOUS
  <1>2. ASSUME NEW s \in SUBSET (1 .. n), s # {} PROVE Max(s) \in s
    <2>1. s \in SUBSET (0 .. n)
          OBVIOUS
    <2>. QED BY <1>2, <2>1, LastNat
  <1>3. Chooses(c, 1 .. n) /\ IsFiniteSet(1 .. n)
        BY <1>1, <1>2, FS_Interval DEF Chooses
  <1>4. PICK g \in [SUBSET (1 .. n) -> V] : IsFoldBy(g, c, f, base, 1 .. n)
        BY <1>3, FoldByExists
  <1>5. IsLastFold(g, f, base, n)
        BY <1>1, <1>4 DEF IsFoldBy, IsLastFold
  <1>. QED BY <1>2, <1>5

(* There is one fold only, among all that obey its recursion where it stays
   in V. *)
LEMMA FoldUnique ==
    ASSUME NEW S, IsFiniteSet(S), NEW V, NEW base, NEW f, NEW g, NEW h,
           Folding(g, f, base, S, V), Obeys(h, f, base, S, V)
    PROVE  \A s \in SUBSET S : h[s] = g[s]
  <1> USE DEF Folding, Obeys
  <1> DEFINE B == {s \in SUBSET S : h[s] # g[s]}
  <1> SUFFICES ASSUME B # {} PROVE FALSE
      OBVIOUS
  <1>1. B \in SUBSET (SUBSET S)
        OBVIOUS
  <1>2. \E s \in B : \A t \in B : ~(t \subseteq s /\ t # s)
    <2> HIDE DEF B
    <2>. QED BY <1>1, SmallestSubset
  <1>3. PICK s \in B : \A t \in B : ~(t \subseteq s /\ t # s)
        BY <1>2
  <1>4. s # {} /\ s \in SUBSET S /\ h[s] # g[s]
        BY DEF IsFold
  <1>5. /\ s \ {Pick(s)} \in SUBSET S /\ s \ {Pick(s)} \subseteq s
        /\ s \ {Pick(s)} # s
        BY <1>4, PickIn
  <1>6. h[s \ {Pick(s)}] = g[s \ {Pick(s)}]
        BY <1>3, <1>5
  <1>7. g[s \ {Pick(s)}] \in V
        BY <1>5
  <1>8. h[s] = f[<<Pick(s), h[s \ {Pick(s)}]>>]
        BY <1>4, <1>6, <1>7
  <1>9. g[s] = f[<<Pick(s), g[s \ {Pick(s)}]>>]
        BY <1>4 DEF IsFold
  <1>. QED BY <1>4, <1>6, <1>8, <1>9

(* Two folds over a set agree when their functions do on its elements. *)
LEMMA FoldSame ==
    ASSUME NEW S, IsFiniteSet(S), NEW V, NEW base, NEW f1, NEW f2, NEW g1, NEW g2,
           Folding(g1, f1, base, S, V), Folding(g2, f2, base, S, V),
           NEW T \in SUBSET S, Agree(f1, f2, T, V)
    PROVE  g1[T] = g2[T]
  <1> USE DEF Folding, Agree
  <1> DEFINE B == {s \in SUBSET T : g1[s] # g2[s]}
  <1> SUFFICES ASSUME B # {} PROVE FALSE
      OBVIOUS
  <1>1. B \in SUBSET (SUBSET S)
        OBVIOUS
  <1>2. \E s \in B : \A t \in B : ~(t \subseteq s /\ t # s)
    <2> HIDE DEF B
    <2>. QED BY <1>1, SmallestSubset
  <1>3. PICK s \in B : \A t \in B : ~(t \subseteq s /\ t # s)
        BY <1>2
  <1>4. s # {} /\ s \in SUBSET T /\ s \in SUBSET S /\ g1[s] # g2[s]
        BY DEF IsFold
  <1>5. /\ s \ {Pick(s)} \in SUBSET T /\ s \ {Pick(s)} \in SUBSET S
        /\ s \ {Pick(s)} # s /\ s \ {Pick(s)} \subseteq s /\ Pick(s) \in T
        BY <1>4, PickIn
  <1>6. g1[s \ {Pick(s)}] = g2[s \ {Pick(s)}]
        BY <1>3, <1>5
  <1>7. g1[s \ {Pick(s)}] \in V
        BY <1>5
  <1>8. g1[s] = f1[<<Pick(s), g1[s \ {Pick(s)}]>>]
        BY <1>4 DEF IsFold
  <1>9. g2[s] = f2[<<Pick(s), g2[s \ {Pick(s)}]>>]
        BY <1>4 DEF IsFold
  <1>. QED BY <1>4, <1>5, <1>6, <1>7, <1>8, <1>9

(* When the elements commute, any element may be taken first. *)
LEMMA FoldAny ==
    ASSUME NEW S, IsFiniteSet(S), NEW V, NEW base, NEW f, NEW g,
           Folding(g, f, base, S, V), Commutes(f, S, V)
    PROVE  \A s \in SUBSET S : \A x \in s : g[s] = f[<<x, g[s \ {x}]>>]
  <1> USE DEF Folding, Commutes
  <1> DEFINE Ok(s) == \A x \in s : g[s] = f[<<x, g[s \ {x}]>>]
             B == {s \in SUBSET S : ~Ok(s)}
  <1> SUFFICES ASSUME B # {} PROVE FALSE
      OBVIOUS
  <1>1. B \in SUBSET (SUBSET S)
        OBVIOUS
  <1>2. \E s \in B : \A t \in B : ~(t \subseteq s /\ t # s)
    <2> HIDE DEF B
    <2>. QED BY <1>1, SmallestSubset
  <1>3. PICK s \in B : \A t \in B : ~(t \subseteq s /\ t # s)
        BY <1>2
  <1>4. PICK x \in s : g[s] # f[<<x, g[s \ {x}]>>]
        OBVIOUS
  <1>5. s \in SUBSET S /\ s # {}
        BY <1>4
  <1>6. PICK p \in s : p = Pick(s)
        BY <1>5, PickIn
  <1>7. g[s] = f[<<p, g[s \ {p}]>>]
        BY <1>5, <1>6 DEF IsFold
  <1>8. x # p
        BY <1>4, <1>7
  <1>9. PICK r : r = (s \ {p}) \ {x}
        OBVIOUS
  <1>10. /\ s \ {p} \in SUBSET S /\ s \ {x} \in SUBSET S /\ r \in SUBSET S
         /\ p \in s \ {x} /\ x \in s \ {p} /\ r = (s \ {x}) \ {p}
        BY <1>5, <1>8, <1>9
  <1>11. \A t \in SUBSET S : t \subseteq s /\ t # s => Ok(t)
    <2> HIDE DEF Ok
    <2>. QED BY <1>3
  <1>12. Ok(s \ {p}) /\ Ok(s \ {x})
    <2>1. s \ {p} # s /\ s \ {x} # s
          OBVIOUS
    <2> HIDE DEF Ok
    <2>. QED BY <2>1, <1>10, <1>11
  <1>13. g[s \ {p}] = f[<<x, g[r]>>] /\ g[s \ {x}] = f[<<p, g[r]>>]
        BY <1>9, <1>10, <1>12
  <1>14. g[r] \in V /\ x \in S /\ p \in S
        BY <1>5, <1>10
  <1>. QED BY <1>4, <1>7, <1>13, <1>14

-----------------------------------------------------------------------------
(* Sums of natural numbers: Plus is the function that is folded. *)
Plus(f, S) == [p \in S \X Nat |-> p[2] + f[p[1]]]
IsSum(g, f, S) == g \in [SUBSET S -> Nat] /\ IsFold(g, Plus(f, S), 0, S)

(* A step of a summation adds to a number. *)
LEMMA PlusType ==
    ASSUME NEW S, NEW f, \A x \in S : f[x] \in Nat
    PROVE  /\ Plus(f, S) \in [S \X Nat -> Nat]
           /\ \A x \in S, v \in Nat : Plus(f, S)[<<x, v>>] = v + f[x]
  BY DEF Plus

(* Every finite set of numbers has a sum. *)
LEMMA SumExists ==
    ASSUME NEW S, IsFiniteSet(S), NEW f, \A x \in S : f[x] \in Nat
    PROVE  \E g : IsSum(g, f, S)
  BY FoldExists, PlusType DEF IsSum

(* Any summand can be taken out of a sum. *)
LEMMA SumAny ==
    ASSUME NEW S, IsFiniteSet(S), NEW f, \A x \in S : f[x] \in Nat,
           NEW g, IsSum(g, f, S)
    PROVE  \A s \in SUBSET S : \A x \in s : g[s] = g[s \ {x}] + f[x]
  <1>1. PICK P : P = Plus(f, S)
        OBVIOUS
  <1>2. P \in [S \X Nat -> Nat]
        BY <1>1, PlusType
  <1>3. \A x \in S, v \in Nat : P[<<x, v>>] = v + f[x]
        BY <1>1, PlusType
  <1>4. g \in [SUBSET S -> Nat] /\ IsFold(g, P, 0, S)
        BY <1>1 DEF IsSum
  <1>5. \A x, y \in S, v \in Nat : P[<<x, P[<<y, v>>]>>] = P[<<y, P[<<x, v>>]>>]
    <2> SUFFICES ASSUME NEW x \in S, NEW y \in S, NEW v \in Nat
                 PROVE  P[<<x, P[<<y, v>>]>>] = P[<<y, P[<<x, v>>]>>]
        OBVIOUS
    <2>1. v + f[x] \in Nat /\ v + f[y] \in Nat /\ f[x] \in Nat /\ f[y] \in Nat
          OBVIOUS
    <2>2. P[<<x, P[<<y, v>>]>>] = (v + f[y]) + f[x]
          BY <1>3, <2>1
    <2>3. P[<<y, P[<<x, v>>]>>] = (v + f[x]) + f[y]
          BY <1>3, <2>1
    <2>. QED BY <2>1, <2>2, <2>3
  <1>6. Folding(g, P, 0, S, Nat) /\ Commutes(P, S, Nat)
        BY <1>2, <1>4, <1>5 DEF Folding, Commutes
  <1>8. \A s \in SUBSET S : \A x \in s : g[s] = P[<<x, g[s \ {x}]>>]
        BY <1>6, FoldAny
  <1> SUFFICES ASSUME NEW s \in SUBSET S, NEW x \in s
               PROVE  g[s] = g[s \ {x}] + f[x]
      OBVIOUS
  <1>9. g[s \ {x}] \in Nat
        BY <1>4
  <1>. QED BY <1>3, <1>8, <1>9

(* Sums over the same summands are the same. *)
LEMMA SumSame ==
    ASSUME NEW S, IsFiniteSet(S),
           NEW f1, \A x \in S : f1[x] \in Nat, NEW g1, IsSum(g1, f1, S),
           NEW f2, \A x \in S : f2[x] \in Nat, NEW g2, IsSum(g2, f2, S),
           NEW T \in SUBSET S, \A x \in T : f1[x] = f2[x]
    PROVE  g1[T] = g2[T]
  <1>1. PICK P1 : P1 = Plus(f1, S)
        OBVIOUS
  <1>2. PICK P2 : P2 = Plus(f2, S)
        OBVIOUS
  <1>3. P1 \in [S \X Nat -> Nat] /\ P2 \in [S \X Nat -> Nat]
        BY <1>1, <1>2 DEF Plus
  <1>4. \A x \in S, v \in Nat : P1[<<x, v>>] = v + f1[x]
        BY <1>1 DEF Plus
  <1>5. \A x \in S, v \in Nat : P2[<<x, v>>] = v + f2[x]
        BY <1>2 DEF Plus
  <1>6. /\ g1 \in [SUBSET S -> Nat] /\ IsFold(g1, P1, 0, S)
        /\ g2 \in [SUBSET S -> Nat] /\ IsFold(g2, P2, 0, S)
        BY <1>1, <1>2 DEF IsSum
  <1>7. \A x \in T, v \in Nat : P1[<<x, v>>] = P2[<<x, v>>]
    <2> SUFFICES ASSUME NEW x \in T, NEW v \in Nat
                 PROVE  P1[<<x, v>>] = P2[<<x, v>>]
        OBVIOUS
    <2>1. P1[<<x, v>>] = v + f1[x] /\ P2[<<x, v>>] = v + f2[x]
          BY <1>4, <1>5
    <2>. QED BY <2>1
  <1>8. /\ Folding(g1, P1, 0, S, Nat) /\ Folding(g2, P2, 0, S, Nat)
        /\ Agree(P1, P2, T, Nat)
        BY <1>3, <1>6, <1>7 DEF Folding, Agree
  <1>. QED BY <1>8, FoldSame

(* A sum of zeros is zero. *)
LEMMA SumZero ==
    ASSUME NEW S, IsFiniteSet(S), NEW f, \A x \in S : f[x] \in Nat,
           NEW g, IsSum(g, f, S),
           NEW T \in SUBSET S, \A x \in T : f[x] = 0
    PROVE  g[T] = 0
  <1>1. PICK z : z = [x \in S |-> 0]
        OBVIOUS
  <1>2. PICK h : h = [s \in SUBSET S |-> 0]
        OBVIOUS
  <1>3. \A x \in S : z[x] \in Nat
        BY <1>1
  <1>4. IsSum(h, z, S)
    <2>1. h \in [SUBSET S -> Nat]
          BY <1>2
    <2>2. ASSUME NEW s \in SUBSET S, s # {}
          PROVE  h[s] = Plus(z, S)[<<Pick(s), h[s \ {Pick(s)}]>>]
      <3>1. Pick(s) \in S /\ s \ {Pick(s)} \in SUBSET S
            BY <2>2, PickIn
      <3>2. z[Pick(s)] = 0 /\ h[s \ {Pick(s)}] = 0 /\ h[s] = 0
            BY <1>1, <1>2, <3>1
      <3>3. Plus(z, S)[<<Pick(s), 0>>] = 0 + z[Pick(s)]
            BY <3>1 DEF Plus
      <3>. QED BY <3>2, <3>3
    <2>3. h[{}] = 0
          BY <1>2
    <2>. QED BY <2>1, <2>2, <2>3 DEF IsSum, IsFold
  <1>5. g[T] = h[T]
    <2>1. \A x \in T : f[x] = z[x]
          BY <1>1
    <2>. QED BY <1>3, <1>4, <2>1, SumSame
  <1>. QED BY <1>2, <1>5

(* No summand is more than the sum. *)
LEMMA SumBounds ==
    ASSUME NEW S, IsFiniteSet(S), NEW f, \A x \in S : f[x] \in Nat,
           NEW g, IsSum(g, f, S), NEW T \in SUBSET S, NEW x \in T
    PROVE  f[x] <= g[T]
  <1>1. g[T] = g[T \ {x}] + f[x]
        BY SumAny
  <1>2. g[T \ {x}] \in Nat /\ f[x] \in Nat
        BY DEF IsSum
  <1>. QED BY <1>1, <1>2

(* A change of one summand changes the sum as much. *)
LEMMA SumChange ==
    ASSUME NEW S, IsFiniteSet(S),
           NEW f1, \A x \in S : f1[x] \in Nat, NEW g1, IsSum(g1, f1, S),
           NEW f2, \A x \in S : f2[x] \in Nat, NEW g2, IsSum(g2, f2, S),
           NEW x \in S, \A y \in S \ {x} : f1[y] = f2[y]
    PROVE  g2[S] - f2[x] = g1[S] - f1[x]
  <1>1. g1[S \ {x}] = g2[S \ {x}]
        BY SumSame
  <1>2. g1[S] = g1[S \ {x}] + f1[x]
        BY SumAny
  <1>3. g2[S] = g2[S \ {x}] + f2[x]
        BY SumAny
  <1>4. g1[S \ {x}] \in Nat /\ g2[S \ {x}] \in Nat
        BY DEF IsSum
  <1>. QED BY <1>1, <1>2, <1>3, <1>4
===============================================================================
