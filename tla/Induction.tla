----------------------------- MODULE Induction ------------------------------
(***************************************************************************)
(* Induction, and what it gives about the operators that the modules of    *)
(* this project take from the community modules.  The principles are       *)
(* stated about sets: to prove P(n) for every natural number, show that    *)
(* {n \in Nat : P(n)} contains 0 and is closed under + 1.                  *)
(***************************************************************************)
EXTENDS Integers, SequencesExt, SequenceTheorems, WellFoundedInduction, TLAPS

Less == {p \in Nat \X Nat : p[1] < p[2]}

LEMMA LessIsTheOrder == Less = OpToRel(<, Nat)
BY DEF Less, OpToRel

LEMMA LessIsWellFounded == IsWellFoundedOn(Less, Nat)
BY NatLessThanWellFounded, LessIsTheOrder

LEMMA NotLess ==
  ASSUME NEW a \in Nat, NEW b \in Nat, <<a, b>> \notin Less
  PROVE  b <= a
<1>1. <<a, b>> \in Nat \X Nat
  OBVIOUS
<1>2. QED
  BY <1>1 DEF Less

\* A set of natural numbers has a least element.
LEMMA LeastNat ==
  ASSUME NEW I, I \subseteq Nat, I # {}
  PROVE  \E i \in I : \A j \in I : i <= j
<1>1. PICK i \in I : \A j \in I : <<j, i>> \notin Less
  BY LessIsWellFounded, WFMin
<1>2. \A j \in I : i <= j
  BY <1>1, NotLess
<1>3. QED
  BY <1>2

\* Induction over the natural numbers.
LEMMA NatClosure ==
  ASSUME NEW I, I \subseteq Nat, 0 \in I, \A n \in I : n + 1 \in I
  PROVE  I = Nat
<1>1. SUFFICES ASSUME Nat \ I # {} PROVE FALSE
  OBVIOUS
<1>2. PICK n \in Nat \ I : \A k \in Nat \ I : n <= k
  BY <1>1, LeastNat
<1>3. n # 0 /\ n - 1 \in Nat /\ n - 1 \notin I
  BY <1>2
<1>4. QED
  BY <1>2, <1>3

\* Induction over sequences, appending one element.
LEMMA SeqClosure ==
  ASSUME NEW S, NEW T, T \subseteq Seq(S), <<>> \in T,
         \A s \in T : \A e \in S : Append(s, e) \in T
  PROVE  T = Seq(S)
<1> DEFINE I == {n \in Nat : \A s \in Seq(S) : Len(s) = n => s \in T}
<1>1. 0 \in I
  <2>1. \A s \in Seq(S) : Len(s) = 0 => s = <<>>
    OBVIOUS
  <2>2. QED
    BY <2>1
<1>2. ASSUME NEW n \in I PROVE n + 1 \in I
  <2>1. ASSUME NEW s \in Seq(S), Len(s) = n + 1 PROVE s \in T
    <3>1. n \in Nat
      OBVIOUS
    <3> DEFINE front == [i \in 1 .. n |-> s[i]]
    <3>2. s[n + 1] \in S /\ front \in Seq(S) /\ Len(front) = n
      BY <2>1, <3>1
    <3>3. s = Append(front, s[n + 1])
      BY <2>1, <3>1, <3>2
    <3>4. front \in T
      BY <3>2
    <3> HIDE DEF front
    <3>5. QED
      BY <3>2, <3>3, <3>4
  <2>2. n + 1 \in Nat
    OBVIOUS
  <2>3. QED
    BY <2>1, <2>2
<1>3. I = Nat
  <2> HIDE DEF I
  <2>1. QED
    BY <1>1, <1>2, NatClosure DEF I
<1>4. ASSUME NEW s \in Seq(S) PROVE s \in T
  <2>1. Len(s) \in I
    BY <1>3
  <2>2. QED
    BY <2>1
<1>5. QED
  BY <1>4

-----------------------------------------------------------------------------
(* Least and greatest elements *)

LEMMA MinOfNats ==
  ASSUME NEW I, I \subseteq Nat, I # {}
  PROVE  Min(I) \in I /\ \A j \in I : Min(I) <= j
<1>1. \E i \in I : \A j \in I : i <= j
  BY LeastNat
<1>2. QED
  BY <1>1 DEF Min

LEMMA MaxUpTo ==
  ASSUME NEW n \in Nat, NEW I, I \subseteq 0 .. n, I # {}
  PROVE  Max(I) \in I /\ \A j \in I : j <= Max(I)
<1> DEFINE J == {n - i : i \in I}
<1>1. J \subseteq Nat /\ J # {}
  <2>1. ASSUME NEW i \in I PROVE n - i \in Nat
    OBVIOUS
  <2>2. QED
    BY <2>1
<1>2. PICK k \in J : \A j \in J : k <= j
  BY <1>1, LeastNat
<1>3. PICK i \in I : k = n - i
  BY <1>2
<1>4. \A j \in I : j <= i
  BY <1>2, <1>3
<1>5. QED
  BY <1>4 DEF Max

-----------------------------------------------------------------------------
(* Flattening a sequence of sequences *)

\* The recursive function in FlattenSeq satisfies its equation.
LEMMA FlattenEquation ==
  ASSUME NEW seqs, NEW n \in Nat
  PROVE  \E g : g = [i \in 1 .. n |-> IF i = 1 THEN seqs[i] ELSE g[i - 1] \o seqs[i]]
<1> DEFINE Good(g, m) == g = [i \in 1 .. m |-> IF i = 1 THEN seqs[i] ELSE g[i - 1] \o seqs[i]]
           I == {m \in Nat : \E g : Good(g, m)}
<1>1. 0 \in I
  <2>1. Good([i \in 1 .. 0 |-> seqs[i]], 0)
    OBVIOUS
  <2>2. QED
    BY <2>1
<1>2. ASSUME NEW m \in I PROVE m + 1 \in I
  <2>1. PICK g : Good(g, m)
    OBVIOUS
  <2>2. m \in Nat
    OBVIOUS
  <2> DEFINE Step(f, i) == IF i = 1 THEN seqs[i] ELSE f[i - 1] \o seqs[i]
             h == [i \in 1 .. m + 1 |-> IF i = m + 1 THEN Step(g, i) ELSE g[i]]
  <2>3. \A i \in 1 .. m : g[i] = Step(g, i)
    BY <2>1
  <2>4. ASSUME NEW i \in 1 .. m + 1 PROVE h[i] = Step(h, i)
    <3>1. CASE i = m + 1
      <4>1. h[i] = Step(g, i)
        BY <3>1
      <4>2. i # 1 => h[i - 1] = g[i - 1]
        BY <3>1, <2>2
      <4>3. QED
        BY <4>1, <4>2
    <3>2. CASE i # m + 1
      <4>1. i \in 1 .. m
        BY <3>2, <2>2
      <4>2. h[i] = Step(g, i)
        BY <2>3, <4>1, <3>2
      <4>3. i # 1 => h[i - 1] = g[i - 1]
        BY <4>1, <2>2
      <4>4. QED
        BY <4>2, <4>3
    <3>3. QED
      BY <3>1, <3>2
  <2>5. h = [i \in 1 .. m + 1 |-> h[i]]
    OBVIOUS
  <2>6. [i \in 1 .. m + 1 |-> h[i]] = [i \in 1 .. m + 1 |-> Step(h, i)]
    BY <2>4
  <2>7. Good(h, m + 1)
    BY <2>5, <2>6
  <2> HIDE DEF h, Good
  <2>8. QED
    BY <2>2, <2>7
<1>3. I = Nat
  <2> HIDE DEF I
  <2>1. QED
    BY <1>1, <1>2, NatClosure DEF I
<1>4. \E g : Good(g, n)
  BY <1>3
<1>5. QED
  BY <1>4

LEMMA FlattenUnfolds ==
  ASSUME NEW seqs, Len(seqs) \in Nat, Len(seqs) # 0
  PROVE  \E g : /\ FlattenSeq(seqs) = g[Len(seqs)]
                /\ \A i \in 1 .. Len(seqs) : g[i] = IF i = 1 THEN seqs[i] ELSE g[i - 1] \o seqs[i]
<1> DEFINE n == Len(seqs)
           Good(g) == g = [i \in 1 .. n |-> IF i = 1 THEN seqs[i] ELSE g[i - 1] \o seqs[i]]
           g == CHOOSE g : Good(g)
<1>1. \E f : Good(f)
  BY FlattenEquation
<1>2. Good(g)
  BY <1>1
<1>3. FlattenSeq(seqs) = g[n]
  BY DEF FlattenSeq
<1>4. QED
  BY <1>2, <1>3

LEMMA FlattenEmpty == FlattenSeq(<<>>) = <<>>
BY DEF FlattenSeq

LEMMA FlattenAppend ==
  ASSUME NEW S, NEW s \in Seq(Seq(S)), NEW t \in Seq(S)
  PROVE  FlattenSeq(Append(s, t)) = FlattenSeq(s) \o t
<1> DEFINE n == Len(s)
           u == Append(s, t)
<1>1. n \in Nat /\ Len(u) = n + 1 /\ u[n + 1] = t /\ \A i \in 1 .. n : u[i] = s[i]
  OBVIOUS
<1> HIDE DEF u
<1>2. PICK h : /\ FlattenSeq(u) = h[n + 1]
               /\ \A i \in 1 .. n + 1 : h[i] = IF i = 1 THEN u[i] ELSE h[i - 1] \o u[i]
  <2>1. Len(u) \in Nat /\ Len(u) # 0
    BY <1>1
  <2>2. \E h : /\ FlattenSeq(u) = h[Len(u)]
               /\ \A i \in 1 .. Len(u) : h[i] = IF i = 1 THEN u[i] ELSE h[i - 1] \o u[i]
    BY <2>1, FlattenUnfolds
  <2>3. QED
    BY <1>1, <2>2, Zenon
<1>3. CASE n = 0
  <2>1. s = <<>>
    BY <1>3
  <2>2. FlattenSeq(u) = t
    BY <1>1, <1>2, <1>3
  <2>3. <<>> \o t = t
    OBVIOUS
  <2>4. QED
    BY <2>1, <2>2, <2>3, FlattenEmpty DEF u
<1>4. CASE n # 0
  <2>1. PICK g : /\ FlattenSeq(s) = g[n]
                 /\ \A i \in 1 .. n : g[i] = IF i = 1 THEN s[i] ELSE g[i - 1] \o s[i]
    BY <1>1, <1>4, FlattenUnfolds
  <2> DEFINE I == {i \in Nat : i \in 1 .. n => g[i] = h[i]}
  <2> HIDE DEF n
  <2>2. 0 \in I
    BY <1>1
  <2>3. ASSUME NEW i \in I PROVE i + 1 \in I
    <3>1. i \in Nat /\ (i \in 1 .. n => g[i] = h[i])
      OBVIOUS
    <3>2. SUFFICES ASSUME i + 1 \in 1 .. n PROVE g[i + 1] = h[i + 1]
      BY <3>1
    <3>3. u[i + 1] = s[i + 1] /\ i + 1 \in 1 .. n + 1
      BY <1>1, <3>2
    <3>4. CASE i = 0
      BY <1>2, <2>1, <3>2, <3>3, <3>4
    <3>5. CASE i # 0
      <4>1. i \in 1 .. n /\ i + 1 # 1 /\ (i + 1) - 1 = i
        BY <1>1, <3>1, <3>2, <3>5
      <4>2. g[i + 1] = g[i] \o s[i + 1]
        BY <2>1, <3>2, <4>1
      <4>3. h[i + 1] = h[i] \o u[i + 1]
        BY <1>2, <3>3, <4>1
      <4>4. QED
        BY <3>1, <3>3, <4>1, <4>2, <4>3
    <3>6. QED
      BY <3>4, <3>5
  <2>4. I = Nat
    <3> HIDE DEF I
    <3>1. QED
      BY <2>2, <2>3, NatClosure DEF I
  <2>5. g[n] = h[n]
    <3>1. n \in I /\ n \in 1 .. n
      BY <1>1, <1>4, <2>4
    <3>2. QED
      BY <3>1
  <2>6. h[n + 1] = h[n] \o t
    <3>1. n + 1 \in 1 .. n + 1 /\ n + 1 # 1 /\ (n + 1) - 1 = n
      BY <1>1, <1>4
    <3>2. QED
      BY <1>1, <1>2, <3>1
  <2>7. QED
    BY <1>2, <2>1, <2>5, <2>6 DEF u
<1>5. QED
  BY <1>3, <1>4

LEMMA FlattenType ==
  ASSUME NEW S, NEW s \in Seq(Seq(S))
  PROVE  FlattenSeq(s) \in Seq(S)
<1> DEFINE T == {q \in Seq(Seq(S)) : FlattenSeq(q) \in Seq(S)}
<1>1. <<>> \in T
  <2>1. <<>> \in Seq(Seq(S)) /\ <<>> \in Seq(S)
    OBVIOUS
  <2>2. QED
    BY <2>1, FlattenEmpty
<1>2. ASSUME NEW q \in T, NEW t \in Seq(S) PROVE Append(q, t) \in T
  <2>1. q \in Seq(Seq(S)) /\ FlattenSeq(q) \in Seq(S)
    OBVIOUS
  <2>2. FlattenSeq(Append(q, t)) = FlattenSeq(q) \o t
    BY <2>1, FlattenAppend
  <2>3. Append(q, t) \in Seq(Seq(S)) /\ FlattenSeq(q) \o t \in Seq(S)
    BY <2>1
  <2>4. QED
    BY <2>2, <2>3
<1>3. T = Seq(Seq(S))
  <2> HIDE DEF T
  <2>1. QED
    BY <1>1, <1>2, SeqClosure DEF T
<1>4. QED
  BY <1>3

LEMMA FlattenConcat ==
  ASSUME NEW S, NEW r \in Seq(Seq(S)), NEW s \in Seq(Seq(S))
  PROVE  FlattenSeq(r \o s) = FlattenSeq(r) \o FlattenSeq(s)
<1> DEFINE T == {q \in Seq(Seq(S)) : FlattenSeq(r \o q) = FlattenSeq(r) \o FlattenSeq(q)}
<1>1. <<>> \in T
  <2>1. FlattenSeq(r) \in Seq(S)
    BY FlattenType
  <2>2. FlattenSeq(r) \o <<>> = FlattenSeq(r) /\ r \o <<>> = r /\ <<>> \in Seq(Seq(S))
    BY <2>1
  <2>3. QED
    BY <2>2, FlattenEmpty, Zenon
<1>2. ASSUME NEW q \in T, NEW t \in Seq(S) PROVE Append(q, t) \in T
  <2>1. q \in Seq(Seq(S)) /\ FlattenSeq(r \o q) = FlattenSeq(r) \o FlattenSeq(q)
    OBVIOUS
  <2>2. r \o Append(q, t) = Append(r \o q, t) /\ r \o q \in Seq(Seq(S))
        /\ Append(q, t) \in Seq(Seq(S))
    BY <2>1
  <2>3. FlattenSeq(r \o Append(q, t)) = (FlattenSeq(r) \o FlattenSeq(q)) \o t
    BY <2>1, <2>2, FlattenAppend
  <2>4. FlattenSeq(Append(q, t)) = FlattenSeq(q) \o t
    BY <2>1, FlattenAppend
  <2>5. FlattenSeq(r) \in Seq(S) /\ FlattenSeq(q) \in Seq(S)
    BY <2>1, FlattenType
  <2>6. (FlattenSeq(r) \o FlattenSeq(q)) \o t = FlattenSeq(r) \o (FlattenSeq(q) \o t)
    BY <2>5, ConcatAssociative
  <2>7. FlattenSeq(r \o Append(q, t)) = FlattenSeq(r) \o FlattenSeq(Append(q, t))
    BY <2>3, <2>4, <2>6
  <2>8. QED
    BY <2>2, <2>7
<1>3. T = Seq(Seq(S))
  <2> HIDE DEF T
  <2>1. QED
    BY <1>1, <1>2, SeqClosure DEF T
<1>4. QED
  BY <1>3

LEMMA FlattenOne ==
  ASSUME NEW S, NEW a \in Seq(S)
  PROVE  FlattenSeq(<<a>>) = a
<1>1. <<>> \in Seq(Seq(S)) /\ <<a>> = Append(<<>>, a)
  OBVIOUS
<1>2. FlattenSeq(<<a>>) = FlattenSeq(<<>>) \o a
  BY <1>1, FlattenAppend
<1>3. <<>> \o a = a
  OBVIOUS
<1>4. QED
  BY <1>2, <1>3, FlattenEmpty, Zenon

LEMMA FlattenTwo ==
  ASSUME NEW S, NEW a \in Seq(S), NEW b \in Seq(S)
  PROVE  FlattenSeq(<<a, b>>) = a \o b
<1>1. <<a>> \in Seq(Seq(S)) /\ <<a, b>> = Append(<<a>>, b)
  OBVIOUS
<1>2. QED
  BY <1>1, FlattenAppend, FlattenOne

LEMMA FlattenFour ==
  ASSUME NEW S, NEW p \in Seq(Seq(S)), Len(p) = 4
  PROVE  FlattenSeq(p) = p[1] \o p[2] \o p[3] \o p[4] /\ FlattenSeq(p) \in Seq(S)
<1>1. p[1] \in Seq(S) /\ p[2] \in Seq(S) /\ p[3] \in Seq(S) /\ p[4] \in Seq(S)
  <2>1. \A i \in 1 .. 4 : p[i] \in Seq(S)
    BY ElementOfSeq
  <2>2. QED
    BY <2>1
<1>2. PICK a \in Seq(S), b \in Seq(S), c \in Seq(S), d \in Seq(S) :
        a = p[1] /\ b = p[2] /\ c = p[3] /\ d = p[4]
  BY <1>1
<1>3. <<a, b>> \in Seq(Seq(S)) /\ <<c, d>> \in Seq(Seq(S)) /\ p = <<a, b>> \o <<c, d>>
  BY <1>2
<1>4. FlattenSeq(p) = (a \o b) \o (c \o d)
  <2>1. FlattenSeq(<<a, b>> \o <<c, d>>) = FlattenSeq(<<a, b>>) \o FlattenSeq(<<c, d>>)
    BY <1>3, FlattenConcat
  <2>2. FlattenSeq(<<a, b>>) = a \o b /\ FlattenSeq(<<c, d>>) = c \o d
    BY FlattenTwo
  <2>3. QED
    BY <1>3, <2>1, <2>2, Zenon
<1>5. a \o b \in Seq(S)
  OBVIOUS
<1>6. (a \o b) \o (c \o d) = ((a \o b) \o c) \o d
  BY <1>5, ConcatAssociative, SMTT(20)
<1>7. ((a \o b) \o c) \o d \in Seq(S)
  OBVIOUS
<1>8. QED
  BY <1>2, <1>4, <1>6, <1>7, Zenon

\* A sequence cut into pieces of one element.
LEMMA FlattenSingletons ==
  ASSUME NEW S, NEW s \in Seq(S)
  PROVE  FlattenSeq([i \in DOMAIN s |-> <<s[i]>>]) = s
<1> DEFINE Cut(q) == [i \in DOMAIN q |-> <<q[i]>>]
           T == {q \in Seq(S) : FlattenSeq(Cut(q)) = q}
<1>1. <<>> \in T
  <2>1. Cut(<<>>) = <<>> /\ <<>> \in Seq(S)
    OBVIOUS
  <2>2. QED
    BY <2>1, FlattenEmpty, Zenon
<1>2. ASSUME NEW q \in T, NEW e \in S PROVE Append(q, e) \in T
  <2>1. q \in Seq(S) /\ FlattenSeq(Cut(q)) = q
    OBVIOUS
  <2>2. Cut(q) \in Seq(Seq(S))
    <3>1. Cut(q) \in [1 .. Len(q) -> Seq(S)] /\ Len(q) \in Nat
      BY <2>1
    <3>2. QED
      BY <3>1
  <2>3. Cut(Append(q, e)) = Append(Cut(q), <<e>>)
    BY <2>1
  <2>4. <<e>> \in Seq(S)
    OBVIOUS
  <2> HIDE DEF Cut
  <2>5. FlattenSeq(Cut(Append(q, e))) = q \o <<e>>
    BY <2>1, <2>2, <2>3, <2>4, FlattenAppend
  <2>6. q \o <<e>> = Append(q, e) /\ Append(q, e) \in Seq(S)
    BY <2>1
  <2>7. QED
    BY <2>5, <2>6
<1>3. T = Seq(S)
  <2> HIDE DEF T
  <2>1. QED
    BY <1>1, <1>2, SeqClosure DEF T
<1>4. QED
  BY <1>3

\* Flattening twice, inside or outside first.
LEMMA FlattenFlatten ==
  ASSUME NEW S, NEW s \in Seq(Seq(Seq(S)))
  PROVE  FlattenSeq(FlattenSeq(s)) = FlattenSeq([i \in DOMAIN s |-> FlattenSeq(s[i])])
<1> DEFINE Each(q) == [i \in DOMAIN q |-> FlattenSeq(q[i])]
           T == {q \in Seq(Seq(Seq(S))) : FlattenSeq(FlattenSeq(q)) = FlattenSeq(Each(q))}
<1>1. <<>> \in T
  <2>1. Each(<<>>) = <<>> /\ <<>> \in Seq(Seq(Seq(S)))
    OBVIOUS
  <2>2. QED
    BY <2>1, FlattenEmpty, Zenon
<1>2. ASSUME NEW q \in T, NEW t \in Seq(Seq(S)) PROVE Append(q, t) \in T
  <2>1. /\ q \in Seq(Seq(Seq(S))) /\ FlattenSeq(FlattenSeq(q)) = FlattenSeq(Each(q))
        /\ Append(q, t) \in Seq(Seq(Seq(S)))
    OBVIOUS
  <2>2. Each(q) \in Seq(Seq(S))
    <3>1. \A i \in 1 .. Len(q) : FlattenSeq(q[i]) \in Seq(S)
      BY <2>1, FlattenType
    <3>2. Each(q) \in [1 .. Len(q) -> Seq(S)] /\ Len(q) \in Nat
      BY <2>1, <3>1
    <3>3. QED
      BY <3>2
  <2>3. Each(Append(q, t)) = Append(Each(q), FlattenSeq(t))
    BY <2>1
  <2>4. FlattenSeq(t) \in Seq(S) /\ FlattenSeq(q) \in Seq(Seq(S))
    BY <2>1, FlattenType
  <2> HIDE DEF Each
  <2>5. FlattenSeq(Each(Append(q, t))) = FlattenSeq(Each(q)) \o FlattenSeq(t)
    BY <2>2, <2>3, <2>4, FlattenAppend
  <2>6. FlattenSeq(Append(q, t)) = FlattenSeq(q) \o t
    BY <2>1, FlattenAppend
  <2>7. FlattenSeq(FlattenSeq(q) \o t) = FlattenSeq(FlattenSeq(q)) \o FlattenSeq(t)
    BY <2>4, FlattenConcat
  <2>8. QED
    BY <2>1, <2>5, <2>6, <2>7
<1>3. T = Seq(Seq(Seq(S)))
  <2> HIDE DEF T
  <2>1. QED
    BY <1>1, <1>2, SeqClosure DEF T
<1>4. QED
  BY <1>3

-----------------------------------------------------------------------------
(* One slot of many *)

LEMMA ConcatElements ==
  ASSUME NEW S, NEW a \in Seq(S), NEW b \in Seq(S)
  PROVE  /\ a \o b \in Seq(S) /\ Len(a \o b) = Len(a) + Len(b) /\ Len(a) \in Nat /\ Len(b) \in Nat
         /\ \A k \in 1 .. Len(a) : (a \o b)[k] = a[k]
         /\ \A k \in Len(a) + 1 .. Len(a) + Len(b) : (a \o b)[k] = b[k - Len(a)]
OBVIOUS

LEMMA SameElements ==
  ASSUME NEW S, NEW a \in Seq(S), NEW b \in Seq(S), Len(a) = Len(b),
         \A k \in 1 .. Len(a) : a[k] = b[k]
  PROVE  a = b
OBVIOUS

\* Slot i of w holds one element.
Holds(S, w, i, f) == w \in Seq(Seq(S)) /\ i \in 1 .. Len(w) /\ f \in S /\ w[i] = <<f>>

\* The place in s, after p, where f stands; with g in its stead s becomes t.
StandsAfter(S, s, p, f, g, t) ==
  /\ p \in Seq(S) /\ s \in Seq(S) /\ Len(p) + 1 <= Len(s)
  /\ s[Len(p) + 1] = f /\ \A k \in 1 .. Len(p) : s[k] = p[k]
  /\ t = [s EXCEPT ![Len(p) + 1] = g]

\* A slot that holds one element, in what the slots amount to: where the element
\* is, and what becomes of the whole when the slot holds another.
LEMMA FlattenSlot ==
  ASSUME NEW S, NEW w, NEW i, NEW f, Holds(S, w, i, f), NEW g \in S
  PROVE  StandsAfter(S, FlattenSeq(w), FlattenSeq(SubSeq(w, 1, i - 1)), f, g,
                     FlattenSeq([w EXCEPT ![i] = <<g>>]))
<1>0. w \in Seq(Seq(S)) /\ i \in 1 .. Len(w) /\ f \in S /\ w[i] = <<f>>
  BY DEF Holds
<1> DEFINE p == FlattenSeq(SubSeq(w, 1, i - 1))
<1> DEFINE front == SubSeq(w, 1, i - 1)
           back  == SubSeq(w, i + 1, Len(w))
           q     == FlattenSeq(back)
           v     == [w EXCEPT ![i] = <<g>>]
<1>1. /\ front \in Seq(Seq(S)) /\ back \in Seq(Seq(S)) /\ Len(w) \in Nat /\ i \in Nat
      /\ Len(front) = i - 1 /\ Len(back) = Len(w) - i
      /\ \A k \in 1 .. i - 1 : front[k] = w[k]
      /\ \A k \in 1 .. Len(w) - i : back[k] = w[i + k]
  BY <1>0
<1>2. <<f>> \in Seq(S) /\ <<g>> \in Seq(S)
  BY <1>0
<1>3. v \in Seq(Seq(S)) /\ Len(v) = Len(w) /\ \A k \in 1 .. Len(w) : v[k] = IF k = i THEN <<g>> ELSE w[k]
  BY <1>0, <1>2
<1>z. p = FlattenSeq(front)
  OBVIOUS
<1>4. p \in Seq(S) /\ q \in Seq(S)
  BY <1>z, <1>1, FlattenType
<1> HIDE DEF front, back, v
<1>5. ASSUME NEW u \in Seq(Seq(S)), Len(u) = Len(w), NEW e \in S, u[i] = <<e>>,
             \A k \in 1 .. Len(w) : k # i => u[k] = w[k]
      PROVE  FlattenSeq(u) = Append(p, e) \o q
  <2>1. <<e>> \in Seq(S)
    OBVIOUS
  <2> DEFINE fe == Append(front, <<e>>)
  <2>2. /\ fe \in Seq(Seq(S)) /\ Len(fe) = i /\ fe[i] = <<e>>
        /\ \A k \in 1 .. i - 1 : fe[k] = front[k]
    BY <1>1, <2>1
  <2> HIDE DEF fe
  <2>3. u = fe \o back
    <3>1. /\ fe \o back \in Seq(Seq(S)) /\ Len(fe \o back) = Len(fe) + Len(back)
          /\ \A k \in 1 .. Len(fe) : (fe \o back)[k] = fe[k]
          /\ \A k \in Len(fe) + 1 .. Len(fe) + Len(back) : (fe \o back)[k] = back[k - Len(fe)]
      <4>1. fe \in Seq(Seq(S)) /\ back \in Seq(Seq(S))
        BY <1>1, <2>2
      <4>2. QED
        BY <4>1, ConcatElements, Zenon
    <3>2. Len(fe \o back) = Len(w)
      BY <1>0, <1>1, <2>2, <3>1
    <3>3. ASSUME NEW k \in 1 .. Len(w) PROVE u[k] = (fe \o back)[k]
      <4>1. CASE k < i
        <5>1. k \in 1 .. i - 1 /\ k \in 1 .. Len(fe) /\ k # i
          <6>1. i \in Nat /\ Len(fe) = i
            BY <1>1, <2>2
          <6>2. QED
            BY <4>1, <6>1
        <5>2. QED
          BY <1>0, <1>1, <1>5, <2>2, <3>1, <5>1
      <4>2. CASE k = i
        <5>1. k \in 1 .. Len(fe)
          BY <1>1, <2>2, <4>2
        <5>2. QED
          BY <1>0, <1>5, <2>2, <3>1, <4>2, <5>1
      <4>3. CASE k > i
        <5>1. k - i \in 1 .. Len(w) - i /\ i + (k - i) = k /\ k # i
              /\ k \in Len(fe) + 1 .. Len(fe) + Len(back)
          BY <1>1, <2>2, <4>3
        <5>2. back[k - i] = w[k]
          BY <1>1, <5>1
        <5>3. (fe \o back)[k] = back[k - i]
          BY <2>2, <3>1, <5>1
        <5>4. QED
          BY <1>0, <1>5, <5>1, <5>2, <5>3
      <4>4. k < i \/ k = i \/ k > i
        BY <1>1
      <4>5. QED
        BY <4>1, <4>2, <4>3, <4>4, Zenon
    <3> HIDE DEF fe
    <3>4. QED
      BY <1>0, <1>5, <3>1, <3>2, <3>3, SameElements
  <2>4. FlattenSeq(fe) = p \o <<e>>
    BY <1>z, <1>1, <2>1, FlattenAppend DEF fe
  <2>5. p \o <<e>> = Append(p, e)
    BY <1>4
  <2>6. FlattenSeq(fe \o back) = FlattenSeq(fe) \o q
    BY <1>1, <2>2, FlattenConcat
  <2>7. QED
    BY <2>3, <2>4, <2>5, <2>6
<1>6. FlattenSeq(w) = Append(p, f) \o q
  BY <1>0, <1>5
<1>7. FlattenSeq(v) = Append(p, g) \o q
  BY <1>0, <1>3, <1>5
<1> DEFINE wf == FlattenSeq(w)
           vf == FlattenSeq(v)
<1> HIDE DEF p, q, wf, vf
<1>8. /\ wf \in Seq(S) /\ vf \in Seq(S) /\ Len(wf) = Len(p) + 1 + Len(q) /\ Len(vf) = Len(wf)
      /\ Len(p) \in Nat /\ Len(q) \in Nat
  BY <1>0, <1>4, <1>6, <1>7 DEF wf, vf
<1>9. /\ wf[Len(p) + 1] = f /\ vf[Len(p) + 1] = g
      /\ \A k \in 1 .. Len(p) : wf[k] = p[k] /\ vf[k] = p[k]
  BY <1>0, <1>4, <1>6, <1>7 DEF wf, vf
<1>10. \A k \in Len(p) + 2 .. Len(wf) : wf[k] = q[k - Len(p) - 1] /\ vf[k] = q[k - Len(p) - 1]
  BY <1>4, <1>6, <1>7, <1>8 DEF wf, vf
<1>11. \A k \in 1 .. Len(wf) : k \in 1 .. Len(p) \/ k = Len(p) + 1 \/ k \in Len(p) + 2 .. Len(wf)
  BY <1>8
<1>12. vf = [wf EXCEPT ![Len(p) + 1] = g]
  <2>1. /\ [wf EXCEPT ![Len(p) + 1] = g] \in Seq(S) /\ Len([wf EXCEPT ![Len(p) + 1] = g]) = Len(wf)
        /\ \A k \in 1 .. Len(wf) : [wf EXCEPT ![Len(p) + 1] = g][k] = IF k = Len(p) + 1 THEN g ELSE wf[k]
    BY <1>0, <1>8
  <2>2. \A k \in 1 .. Len(wf) : vf[k] = IF k = Len(p) + 1 THEN g ELSE wf[k]
    BY <1>0, <1>8, <1>9, <1>10, <1>11
  <2>3. QED
    BY <1>8, <2>1, <2>2, SameElements
<1>13. QED
  BY <1>4, <1>8, <1>9, <1>12 DEF StandsAfter, wf, vf, v, p

-----------------------------------------------------------------------------
(* Filtering and mapping: a sequence for each element, joined *)

Through(s, a) == FlattenSeq([i \in DOMAIN s |-> a[s[i]]])

LEMMA FunctionIsSeq ==
  ASSUME NEW S, NEW n \in Nat, NEW w \in [1 .. n -> S]
  PROVE  w \in Seq(S) /\ Len(w) = n
OBVIOUS

LEMMA ThroughParts ==
  ASSUME NEW S, NEW T, NEW a \in [S -> Seq(T)], NEW s \in Seq(S)
  PROVE  /\ [i \in DOMAIN s |-> a[s[i]]] \in Seq(Seq(T))
         /\ Len([i \in DOMAIN s |-> a[s[i]]]) = Len(s)
         /\ Through(s, a) \in Seq(T)
<1> DEFINE w == [i \in DOMAIN s |-> a[s[i]]]
<1>1. w \in [1 .. Len(s) -> Seq(T)] /\ Len(s) \in Nat
  OBVIOUS
<1> HIDE DEF w
<1>2. w \in Seq(Seq(T))
  BY <1>1, FunctionIsSeq
<1>3. Len(w) = Len(s)
  BY <1>1, FunctionIsSeq
<1>4. FlattenSeq(w) \in Seq(T)
  BY <1>2, FlattenType
<1>5. QED
  BY <1>2, <1>3, <1>4 DEF w, Through

LEMMA ThroughType ==
  ASSUME NEW S, NEW T, NEW a \in [S -> Seq(T)], NEW s \in Seq(S)
  PROVE  Through(s, a) \in Seq(T)
BY ThroughParts

LEMMA ThroughEmpty == ASSUME NEW a PROVE Through(<<>>, a) = <<>>
<1>1. [i \in DOMAIN <<>> |-> a[<<>>[i]]] = <<>>
  OBVIOUS
<1>2. QED
  BY <1>1, FlattenEmpty, Zenon DEF Through

LEMMA ThroughAppend ==
  ASSUME NEW S, NEW T, NEW a \in [S -> Seq(T)], NEW s \in Seq(S), NEW e \in S
  PROVE  Through(Append(s, e), a) = Through(s, a) \o a[e]
<1> DEFINE w == [i \in DOMAIN s |-> a[s[i]]]
           v == [i \in DOMAIN Append(s, e) |-> a[Append(s, e)[i]]]
<1>1. v = Append(w, a[e])
  OBVIOUS
<1>2. w \in Seq(Seq(T)) /\ a[e] \in Seq(T)
  BY ThroughParts
<1> HIDE DEF v, w
<1>3. FlattenSeq(v) = FlattenSeq(w) \o a[e]
  BY <1>1, <1>2, FlattenAppend
<1>4. QED
  BY <1>3 DEF Through, v, w

LEMMA ThroughOne ==
  ASSUME NEW S, NEW T, NEW a \in [S -> Seq(T)], NEW e \in S
  PROVE  Through(<<e>>, a) = a[e]
<1>1. <<>> \in Seq(S) /\ Append(<<>>, e) = <<e>> /\ a[e] \in Seq(T)
  OBVIOUS
<1>2. Through(Append(<<>>, e), a) = Through(<<>>, a) \o a[e]
  BY <1>1, ThroughAppend
<1>3. <<>> \o a[e] = a[e]
  BY <1>1
<1>4. QED
  BY <1>1, <1>2, <1>3, ThroughEmpty

LEMMA ThroughConcat ==
  ASSUME NEW S, NEW T, NEW a \in [S -> Seq(T)], NEW r \in Seq(S), NEW s \in Seq(S)
  PROVE  Through(r \o s, a) = Through(r, a) \o Through(s, a)
<1> DEFINE U == {q \in Seq(S) : Through(r \o q, a) = Through(r, a) \o Through(q, a)}
<1>0. Through(r, a) \in Seq(T)
  BY ThroughParts
<1>1. <<>> \in U
  <2>1. r \o <<>> = r /\ <<>> \in Seq(S) /\ Through(r, a) \o <<>> = Through(r, a)
    BY <1>0
  <2>2. QED
    BY <2>1, ThroughEmpty
<1>2. ASSUME NEW q \in U, NEW e \in S PROVE Append(q, e) \in U
  <2>1. q \in Seq(S) /\ Through(r \o q, a) = Through(r, a) \o Through(q, a)
    OBVIOUS
  <2>2. /\ r \o Append(q, e) = Append(r \o q, e) /\ r \o q \in Seq(S)
        /\ Append(q, e) \in Seq(S) /\ a[e] \in Seq(T)
    BY <2>1
  <2>3. /\ Through(Append(r \o q, e), a) = Through(r \o q, a) \o a[e]
        /\ Through(Append(q, e), a) = Through(q, a) \o a[e]
        /\ Through(q, a) \in Seq(T)
    BY <2>1, <2>2, ThroughAppend, ThroughParts
  <2>4. (Through(r, a) \o Through(q, a)) \o a[e] = Through(r, a) \o (Through(q, a) \o a[e])
    <3>1. \A x, y, z \in Seq(T) : (x \o y) \o z = x \o (y \o z)
      BY SMTT(20)
    <3>2. QED
      BY <1>0, <2>2, <2>3, <3>1
  <2>5. QED
    BY <2>1, <2>2, <2>3, <2>4
<1>3. U = Seq(S)
  <2> HIDE DEF U
  <2>1. QED
    BY <1>1, <1>2, SeqClosure DEF U
<1>4. QED
  BY <1>3

\* What becomes of a whole is what becomes of its parts.
LEMMA ThroughFlattened ==
  ASSUME NEW S, NEW T, NEW a \in [S -> Seq(T)], NEW w \in Seq(Seq(S))
  PROVE  Through(FlattenSeq(w), a) = FlattenSeq([i \in DOMAIN w |-> Through(w[i], a)])
<1> DEFINE Each(q) == [i \in DOMAIN q |-> Through(q[i], a)]
           U == {q \in Seq(Seq(S)) : Through(FlattenSeq(q), a) = FlattenSeq(Each(q))}
<1>1. <<>> \in U
  <2>1. Each(<<>>) = <<>> /\ <<>> \in Seq(Seq(S))
    OBVIOUS
  <2>2. QED
    BY <2>1, FlattenEmpty, ThroughEmpty, Zenon
<1>2. ASSUME NEW q \in U, NEW t \in Seq(S) PROVE Append(q, t) \in U
  <2>1. /\ q \in Seq(Seq(S)) /\ Through(FlattenSeq(q), a) = FlattenSeq(Each(q))
        /\ Append(q, t) \in Seq(Seq(S))
    OBVIOUS
  <2>2. Each(q) \in Seq(Seq(T))
    <3>1. \A i \in 1 .. Len(q) : Through(q[i], a) \in Seq(T)
      <4>1. \A i \in 1 .. Len(q) : q[i] \in Seq(S)
        BY <2>1
      <4>2. QED
        BY <4>1, ThroughType
    <3>2. Each(q) \in [1 .. Len(q) -> Seq(T)] /\ Len(q) \in Nat
      BY <2>1, <3>1
    <3>3. QED
      BY <3>2
  <2>3. Each(Append(q, t)) = Append(Each(q), Through(t, a))
    BY <2>1
  <2>4. Through(t, a) \in Seq(T) /\ FlattenSeq(q) \in Seq(S)
    BY <2>1, ThroughParts, FlattenType
  <2> HIDE DEF Each
  <2>5. FlattenSeq(Each(Append(q, t))) = FlattenSeq(Each(q)) \o Through(t, a)
    BY <2>2, <2>3, <2>4, FlattenAppend
  <2>6. FlattenSeq(Append(q, t)) = FlattenSeq(q) \o t
    BY <2>1, FlattenAppend
  <2>7. Through(FlattenSeq(q) \o t, a) = Through(FlattenSeq(q), a) \o Through(t, a)
    BY <2>4, ThroughConcat
  <2>8. QED
    BY <2>1, <2>5, <2>6, <2>7
<1>3. U = Seq(Seq(S))
  <2> HIDE DEF U
  <2>1. QED
    BY <1>1, <1>2, SeqClosure DEF U
<1>4. QED
  BY <1>3

\* Parts of one element at most make no longer a whole.
LEMMA FlattenShort ==
  ASSUME NEW S, NEW w \in Seq(Seq(S)), \A i \in 1 .. Len(w) : Len(w[i]) <= 1
  PROVE  Len(FlattenSeq(w)) <= Len(w)
<1> DEFINE Short(q) == \A i \in 1 .. Len(q) : Len(q[i]) <= 1
           U == {q \in Seq(Seq(S)) : Short(q) => Len(FlattenSeq(q)) <= Len(q)}
<1>1. <<>> \in U
  <2>1. <<>> \in Seq(Seq(S)) /\ Len(<<>>) = 0
    OBVIOUS
  <2>2. Len(FlattenSeq(<<>>)) = 0
    BY <2>1, FlattenEmpty
  <2>3. QED
    BY <2>1, <2>2
<1>2. ASSUME NEW q \in U, NEW t \in Seq(S) PROVE Append(q, t) \in U
  <2> DEFINE qt == Append(q, t)
  <2>1. /\ q \in Seq(Seq(S)) /\ (Short(q) => Len(FlattenSeq(q)) <= Len(q))
        /\ qt \in Seq(Seq(S)) /\ Len(qt) = Len(q) + 1 /\ Len(q) \in Nat
        /\ qt[Len(q) + 1] = t /\ \A i \in 1 .. Len(q) : qt[i] = q[i]
    OBVIOUS
  <2>2. FlattenSeq(qt) = FlattenSeq(q) \o t /\ FlattenSeq(q) \in Seq(S)
    BY <2>1, FlattenAppend, FlattenType
  <2> HIDE DEF qt
  <2>3. ASSUME Short(qt) PROVE Len(FlattenSeq(qt)) <= Len(qt)
    <3>1. Len(t) <= 1 /\ Short(q)
      BY <2>1, <2>3
    <3>2. Len(FlattenSeq(qt)) = Len(FlattenSeq(q)) + Len(t) /\ Len(t) \in Nat
          /\ Len(FlattenSeq(q)) \in Nat
      BY <2>2
    <3>3. QED
      BY <2>1, <3>1, <3>2
  <2>4. QED
    BY <2>1, <2>3 DEF qt
<1>3. U = Seq(Seq(S))
  <2> HIDE DEF U
  <2>1. QED
    BY <1>1, <1>2, SeqClosure DEF U
<1>4. QED
  BY <1>3

-----------------------------------------------------------------------------
(* The pieces of a concatenation *)

\* What stands before and after piece i of w; and how long the first is.
PiecesBefore(w, i) == FlattenSeq(SubSeq(w, 1, i - 1))
PiecesAfter(w, i)  == FlattenSeq(SubSeq(w, i + 1, Len(w)))
PieceStart(w, i)  == Len(PiecesBefore(w, i))

LEMMA BeforeNext ==
  ASSUME NEW S, NEW w \in Seq(Seq(S)), NEW i \in 1 .. Len(w)
  PROVE  /\ PiecesBefore(w, i) \in Seq(S) /\ PiecesAfter(w, i) \in Seq(S) /\ w[i] \in Seq(S)
         /\ PiecesBefore(w, i + 1) = PiecesBefore(w, i) \o w[i]
<1> DEFINE front == SubSeq(w, 1, i - 1)
           upto  == SubSeq(w, 1, i)
<1>1. /\ front \in Seq(Seq(S)) /\ upto \in Seq(Seq(S)) /\ SubSeq(w, i + 1, Len(w)) \in Seq(Seq(S))
      /\ w[i] \in Seq(S) /\ i \in Nat /\ Len(front) = i - 1 /\ Len(upto) = i
      /\ \A k \in 1 .. i - 1 : front[k] = w[k]
      /\ \A k \in 1 .. i : upto[k] = w[k]
  OBVIOUS
<1> HIDE DEF front, upto
<1>2. upto = Append(front, w[i])
  <2> DEFINE a == Append(front, w[i])
  <2>1. a \in Seq(Seq(S)) /\ Len(a) = i /\ a[i] = w[i] /\ \A k \in 1 .. i - 1 : a[k] = front[k]
    BY <1>1
  <2> HIDE DEF a
  <2>2. ASSUME NEW k \in 1 .. Len(upto) PROVE upto[k] = a[k]
    <3>1. k \in 1 .. i /\ (k = i \/ k \in 1 .. i - 1)
      BY <1>1
    <3>2. QED
      BY <1>1, <2>1, <3>1
  <2>3. upto \in Seq(Seq(S)) /\ a \in Seq(Seq(S)) /\ Len(upto) = Len(a)
    BY <1>1, <2>1
  <2>4. upto = a
    BY <2>2, <2>3, SameElements, Zenon
  <2>5. QED
    BY <2>4 DEF a
<1>3. FlattenSeq(upto) = FlattenSeq(front) \o w[i]
  BY <1>1, <1>2, FlattenAppend
<1>4. i + 1 - 1 = i
  BY <1>1
<1>5. FlattenSeq(front) \in Seq(S) /\ FlattenSeq(SubSeq(w, i + 1, Len(w))) \in Seq(S)
  BY <1>1, FlattenType
<1>6. /\ PiecesBefore(w, i) = FlattenSeq(front) /\ PiecesAfter(w, i) = FlattenSeq(SubSeq(w, i + 1, Len(w)))
      /\ PiecesBefore(w, i + 1) = FlattenSeq(upto)
  BY <1>4 DEF PiecesBefore, PiecesAfter, front, upto
<1>7. QED
  BY <1>1, <1>3, <1>5, <1>6

LEMMA FlattenCut ==
  ASSUME NEW S, NEW w \in Seq(Seq(S)), NEW i \in 1 .. Len(w)
  PROVE  FlattenSeq(w) = PiecesBefore(w, i) \o w[i] \o PiecesAfter(w, i)
<1> DEFINE upto == SubSeq(w, 1, i)
           back == SubSeq(w, i + 1, Len(w))
<1>1. /\ upto \in Seq(Seq(S)) /\ back \in Seq(Seq(S)) /\ Len(w) \in Nat /\ i \in Nat
      /\ Len(upto) = i /\ Len(back) = Len(w) - i
      /\ \A k \in 1 .. i : upto[k] = w[k]
      /\ \A k \in 1 .. Len(w) - i : back[k] = w[i + k]
  OBVIOUS
<1>2. PiecesBefore(w, i + 1) = FlattenSeq(upto)
  <2>1. i + 1 - 1 = i
    BY <1>1
  <2>2. QED
    BY <2>1 DEF PiecesBefore
<1>3. FlattenSeq(upto) = PiecesBefore(w, i) \o w[i]
  BY <1>2, BeforeNext
<1>4. PiecesAfter(w, i) = FlattenSeq(back)
  BY DEF PiecesAfter
<1> HIDE DEF upto, back
<1>5. w = upto \o back
  <2> DEFINE c == upto \o back
  <2>1. /\ c \in Seq(Seq(S)) /\ Len(c) = Len(upto) + Len(back)
        /\ \A k \in 1 .. Len(upto) : c[k] = upto[k]
        /\ \A k \in Len(upto) + 1 .. Len(upto) + Len(back) : c[k] = back[k - Len(upto)]
    BY <1>1, ConcatElements, ZenonT(30)
  <2> HIDE DEF c
  <2>2. ASSUME NEW k \in 1 .. Len(w) PROVE w[k] = c[k]
    <3>1. CASE k <= i
      BY <1>1, <2>1, <3>1
    <3>2. CASE ~(k <= i)
      <4>1. k - i \in 1 .. Len(w) - i /\ i + (k - i) = k /\ k \in i + 1 .. i + (Len(w) - i)
        BY <1>1, <3>2
      <4>2. back[k - i] = w[k]
        BY <1>1, <4>1
      <4>3. c[k] = back[k - i]
        BY <1>1, <2>1, <4>1
      <4>4. QED
        BY <4>2, <4>3
    <3>3. QED
      BY <3>1, <3>2
  <2>3. Len(c) = Len(w)
    BY <1>1, <2>1
  <2>4. w = c
    BY <2>1, <2>2, <2>3, SameElements
  <2>5. QED
    BY <2>4 DEF c
<1>6. FlattenSeq(upto \o back) = FlattenSeq(upto) \o FlattenSeq(back)
  BY <1>1, FlattenConcat
<1>7. QED
  BY <1>3, <1>4, <1>5, <1>6

\* Another piece in its place.
LEMMA FlattenReplaced ==
  ASSUME NEW S, NEW w \in Seq(Seq(S)), NEW i \in 1 .. Len(w), NEW t \in Seq(S)
  PROVE  /\ [w EXCEPT ![i] = t] \in Seq(Seq(S)) /\ Len([w EXCEPT ![i] = t]) = Len(w)
         /\ FlattenSeq([w EXCEPT ![i] = t]) = PiecesBefore(w, i) \o t \o PiecesAfter(w, i)
<1> DEFINE u == [w EXCEPT ![i] = t]
<1>1. u \in Seq(Seq(S)) /\ Len(u) = Len(w) /\ u[i] = t /\ \A k \in 1 .. Len(w) : k # i => u[k] = w[k]
  OBVIOUS
<1>2. Len(w) \in Nat /\ i \in Nat
  OBVIOUS
<1> HIDE DEF u
<1>3. SubSeq(u, 1, i - 1) = SubSeq(w, 1, i - 1)
  BY <1>1, <1>2
<1>4. SubSeq(u, i + 1, Len(u)) = SubSeq(w, i + 1, Len(w))
  <2>1. SubSeq(u, i + 1, Len(w)) = SubSeq(w, i + 1, Len(w))
    <3> DEFINE a == SubSeq(u, i + 1, Len(w))
               b == SubSeq(w, i + 1, Len(w))
    <3>1. /\ a \in Seq(Seq(S)) /\ b \in Seq(Seq(S)) /\ Len(a) = Len(w) - i /\ Len(b) = Len(w) - i
          /\ \A k \in 1 .. Len(w) - i : a[k] = u[i + k] /\ b[k] = w[i + k]
      BY <1>1, <1>2, SMTT(20)
    <3> HIDE DEF a, b
    <3>2. ASSUME NEW k \in 1 .. Len(w) - i PROVE a[k] = b[k]
      <4>1. i + k \in 1 .. Len(w) /\ i + k # i
        BY <1>2
      <4>2. QED
        BY <1>1, <3>1, <4>1
    <3>3. a = b
      BY <3>1, <3>2, SameElements, Zenon
    <3>4. QED
      BY <3>3 DEF a, b
  <2>2. QED
    BY <1>1, <2>1
<1>5. FlattenSeq(u) = PiecesBefore(u, i) \o u[i] \o PiecesAfter(u, i)
  BY <1>1, FlattenCut
<1>6. QED
  BY <1>1, <1>3, <1>4, <1>5 DEF PiecesBefore, PiecesAfter, u

\* Where piece i begins and what stands there.
LEMMA PieceAt ==
  ASSUME NEW S, NEW w \in Seq(Seq(S)), NEW i \in 1 .. Len(w)
  PROVE  /\ FlattenSeq(w) \in Seq(S)
         /\ PieceStart(w, i) \in Nat /\ Len(w[i]) \in Nat /\ Len(FlattenSeq(w)) \in Nat
         /\ PieceStart(w, i + 1) = PieceStart(w, i) + Len(w[i])
         /\ PieceStart(w, i) + Len(w[i]) <= Len(FlattenSeq(w))
         /\ \A k \in 1 .. Len(w[i]) : FlattenSeq(w)[PieceStart(w, i) + k] = w[i][k]
<1> DEFINE x == PiecesBefore(w, i)
           y == w[i]
           z == PiecesAfter(w, i)
<1>1. /\ x \in Seq(S) /\ y \in Seq(S) /\ z \in Seq(S)
      /\ PiecesBefore(w, i + 1) = x \o y
      /\ FlattenSeq(w) = x \o y \o z
  BY BeforeNext, FlattenCut
<1>2. PieceStart(w, i) = Len(x) /\ PieceStart(w, i + 1) = Len(PiecesBefore(w, i + 1))
  BY DEF PieceStart
<1> DEFINE xy == x \o y
<1> HIDE DEF x, y, z
<1>3. /\ xy \in Seq(S) /\ Len(xy) = Len(x) + Len(y) /\ Len(x) \in Nat /\ Len(y) \in Nat
      /\ \A k \in Len(x) + 1 .. Len(x) + Len(y) : xy[k] = y[k - Len(x)]
  BY <1>1, ConcatElements
<1> HIDE DEF xy
<1>4. /\ xy \o z \in Seq(S) /\ Len(xy \o z) = Len(xy) + Len(z) /\ Len(z) \in Nat
      /\ \A k \in 1 .. Len(xy) : (xy \o z)[k] = xy[k]
  <2>1. xy \in Seq(S) /\ z \in Seq(S)
    BY <1>1, <1>3
  <2>2. QED
    BY <2>1, ConcatElements, Zenon
<1>5. FlattenSeq(w) = xy \o z /\ PiecesBefore(w, i + 1) = xy
  BY <1>1 DEF xy
<1>6. ASSUME NEW k \in 1 .. Len(y) PROVE (xy \o z)[Len(x) + k] = y[k]
  <2>1. Len(x) + k \in Len(x) + 1 .. Len(x) + Len(y) /\ Len(x) + k \in 1 .. Len(xy)
    BY <1>3
  <2>2. (Len(x) + k) - Len(x) = k
    BY <1>3
  <2>3. QED
    BY <1>3, <1>4, <2>1, <2>2
<1>7. Len(xy \o z) >= Len(x) + Len(y)
  BY <1>3, <1>4
<1>8. QED
  BY <1>2, <1>3, <1>4, <1>5, <1>6, <1>7, SMTT(20) DEF y

LEMMA StartAndEnd ==
  ASSUME NEW S, NEW w \in Seq(Seq(S))
  PROVE  PieceStart(w, 1) = 0 /\ Len(FlattenSeq(w)) = PieceStart(w, Len(w) + 1)
<1>1. SubSeq(w, 1, 1 - 1) = <<>> /\ Len(w) \in Nat /\ Len(w) + 1 - 1 = Len(w)
  OBVIOUS
<1>2. SubSeq(w, 1, Len(w)) = w
  OBVIOUS
<1>3. Len(<<>>) = 0
  OBVIOUS
<1>4. PiecesBefore(w, 1) = <<>>
  BY <1>1, FlattenEmpty DEF PiecesBefore
<1>5. PiecesBefore(w, Len(w) + 1) = FlattenSeq(w)
  <2>1. SubSeq(w, 1, Len(w) + 1 - 1) = w
    BY <1>1, <1>2
  <2>2. PiecesBefore(w, Len(w) + 1) = FlattenSeq(SubSeq(w, 1, Len(w) + 1 - 1))
    BY DEF PiecesBefore
  <2>3. QED
    BY <2>1, <2>2
<1>6. QED
  BY <1>3, <1>4, <1>5 DEF PieceStart

LEMMA FrontAndBack ==
  ASSUME NEW S, NEW x \in Seq(S), NEW y \in Seq(S), NEW z \in Seq(S)
  PROVE  /\ SubSeq(x \o y \o z, 1, Len(x)) = x
         /\ SubSeq(x \o y \o z, Len(x) + Len(y) + 1, Len(x \o y \o z)) = z
         /\ Len(x) \in Nat
<1> DEFINE xy == x \o y
           v == xy \o z
           n == Len(x) + Len(y)
<1>1. /\ xy \in Seq(S) /\ Len(xy) = n /\ Len(x) \in Nat /\ Len(y) \in Nat /\ n \in Nat
      /\ \A k \in 1 .. Len(x) : xy[k] = x[k]
  BY ConcatElements
<1> HIDE DEF xy
<1>2. /\ v \in Seq(S) /\ Len(v) = Len(xy) + Len(z) /\ Len(z) \in Nat
      /\ \A k \in 1 .. Len(xy) : v[k] = xy[k]
      /\ \A k \in Len(xy) + 1 .. Len(xy) + Len(z) : v[k] = z[k - Len(xy)]
  <2>1. xy \in Seq(S) /\ z \in Seq(S)
    BY <1>1
  <2>2. QED
    BY <2>1, ConcatElements, Zenon
<1> HIDE DEF v
<1>3. SubSeq(v, 1, Len(x)) = x
  <2> DEFINE a == SubSeq(v, 1, Len(x))
  <2>1. a \in Seq(S) /\ Len(a) = Len(x) /\ \A k \in 1 .. Len(x) : a[k] = v[k]
    BY <1>1, <1>2
  <2> HIDE DEF a
  <2>2. ASSUME NEW k \in 1 .. Len(a) PROVE a[k] = x[k]
    <3>1. k \in 1 .. Len(x) /\ k \in 1 .. Len(xy)
      BY <1>1, <2>1
    <3>2. QED
      BY <1>1, <1>2, <2>1, <3>1
  <2>3. a = x
    BY <2>1, <2>2, SameElements
  <2>4. QED
    BY <2>3 DEF a
<1>4. SubSeq(v, n + 1, Len(v)) = z
  <2> DEFINE a == SubSeq(v, n + 1, Len(v))
  <2>1. a \in Seq(S) /\ Len(a) = Len(z) /\ \A k \in 1 .. Len(z) : a[k] = v[n + k]
    BY <1>1, <1>2
  <2> HIDE DEF a
  <2>2. ASSUME NEW k \in 1 .. Len(a) PROVE a[k] = z[k]
    <3>1. k \in 1 .. Len(z) /\ n + k \in Len(xy) + 1 .. Len(xy) + Len(z) /\ (n + k) - Len(xy) = k
      BY <1>1, <1>2, <2>1
    <3>2. QED
      BY <1>1, <1>2, <2>1, <3>1
  <2>3. a = z
    BY <2>1, <2>2, SameElements
  <2>4. QED
    BY <2>3 DEF a
<1>5. QED
  BY <1>1, <1>3, <1>4 DEF v, xy

LEMMA ConcatAssociates ==
  ASSUME NEW S, NEW x \in Seq(S), NEW y \in Seq(S), NEW z \in Seq(S)
  PROVE  (x \o y) \o z = x \o (y \o z)
OBVIOUS

\* Two pieces in a row told apart otherwise.
Merges(S, w, u, i) ==
  /\ w \in Seq(Seq(S)) /\ u \in Seq(Seq(S)) /\ Len(u) = Len(w)
  /\ i \in 1 .. Len(w) - 1 /\ u[i] \o u[i + 1] = w[i] \o w[i + 1]
  /\ \A k \in 1 .. Len(w) : k # i /\ k # i + 1 => u[k] = w[k]

LEMMA FlattenMerge ==
  ASSUME NEW S, NEW w, NEW u, NEW i, Merges(S, w, u, i)
  PROVE  FlattenSeq(u) = FlattenSeq(w)
<1>0. /\ w \in Seq(Seq(S)) /\ u \in Seq(Seq(S)) /\ Len(u) = Len(w)
      /\ i \in 1 .. Len(w) - 1 /\ u[i] \o u[i + 1] = w[i] \o w[i + 1]
      /\ \A k \in 1 .. Len(w) : k # i /\ k # i + 1 => u[k] = w[k]
  BY DEF Merges
<1>1. Len(w) \in Nat /\ i \in 1 .. Len(w) /\ i + 1 \in 1 .. Len(w) /\ i \in 1 .. Len(u) /\ i + 1 \in 1 .. Len(u)
  BY <1>0
<1>2. /\ PiecesBefore(w, i) \in Seq(S) /\ w[i] \in Seq(S) /\ PiecesBefore(w, i + 1) = PiecesBefore(w, i) \o w[i]
      /\ PiecesBefore(u, i) \in Seq(S) /\ u[i] \in Seq(S) /\ PiecesBefore(u, i + 1) = PiecesBefore(u, i) \o u[i]
  BY <1>0, <1>1, BeforeNext
<1>3. /\ w[i + 1] \in Seq(S) /\ u[i + 1] \in Seq(S)
      /\ PiecesAfter(w, i + 1) \in Seq(S) /\ PiecesAfter(u, i + 1) \in Seq(S)
  BY <1>0, <1>1, BeforeNext
<1>4. /\ FlattenSeq(w) = PiecesBefore(w, i + 1) \o w[i + 1] \o PiecesAfter(w, i + 1)
      /\ FlattenSeq(u) = PiecesBefore(u, i + 1) \o u[i + 1] \o PiecesAfter(u, i + 1)
  BY <1>0, <1>1, FlattenCut
<1>5. PiecesBefore(u, i) = PiecesBefore(w, i)
  <2> DEFINE a == SubSeq(u, 1, i - 1)
             b == SubSeq(w, 1, i - 1)
  <2>1. /\ a \in Seq(Seq(S)) /\ b \in Seq(Seq(S)) /\ Len(a) = i - 1 /\ Len(b) = i - 1
        /\ \A k \in 1 .. i - 1 : a[k] = u[k] /\ b[k] = w[k]
    BY <1>0, <1>1
  <2> HIDE DEF a, b
  <2>2. ASSUME NEW k \in 1 .. Len(a) PROVE a[k] = b[k]
    <3>1. Len(a) = i - 1 /\ i \in 1 .. Len(w) /\ Len(w) \in Nat
      BY <1>1, <2>1
    <3>2. k \in 1 .. i - 1 /\ k \in 1 .. Len(w) /\ k # i /\ k # i + 1
      BY <3>1
    <3>3. QED
      BY <1>0, <2>1, <3>2
  <2>3. a = b
    BY <2>1, <2>2, SameElements, Zenon
  <2>4. QED
    BY <2>3 DEF PiecesBefore, a, b
<1>6. PiecesAfter(u, i + 1) = PiecesAfter(w, i + 1)
  <2> DEFINE m == i + 1 + 1
             a == SubSeq(u, m, Len(u))
             b == SubSeq(w, m, Len(w))
  <2>0. m \in Nat /\ m = i + 2 /\ m <= Len(w) + 1
    BY <1>0, <1>1
  <2>c. /\ w \in Seq(Seq(S)) /\ u \in Seq(Seq(S)) /\ Len(u) = Len(w) /\ Len(w) \in Nat /\ i \in Nat
        /\ 1 <= i /\ i + 1 <= Len(w)
    BY <1>0, <1>1
  <2>1. /\ a \in Seq(Seq(S)) /\ b \in Seq(Seq(S)) /\ Len(a) = Len(w) - i - 1 /\ Len(b) = Len(w) - i - 1
        /\ \A k \in 1 .. Len(w) - i - 1 : a[k] = u[i + 1 + k] /\ b[k] = w[i + 1 + k]
    <3>1. /\ a \in Seq(Seq(S)) /\ Len(a) = Len(w) - i - 1
          /\ \A k \in 1 .. Len(w) - i - 1 : a[k] = u[i + 1 + k]
      BY <2>c
    <3>2. /\ b \in Seq(Seq(S)) /\ Len(b) = Len(w) - i - 1
          /\ \A k \in 1 .. Len(w) - i - 1 : b[k] = w[i + 1 + k]
      BY <2>c
    <3>3. QED
      BY <3>1, <3>2
  <2> HIDE DEF a, b
  <2>2. ASSUME NEW k \in 1 .. Len(a) PROVE a[k] = b[k]
    <3>1. i + 1 + k \in 1 .. Len(w) /\ i + 1 + k # i /\ i + 1 + k # i + 1
      BY <1>0, <1>1, <2>1
    <3>2. QED
      BY <1>0, <2>1, <3>1
  <2>3. a = b
    BY <2>1, <2>2, SameElements, Zenon
  <2>4. QED
    BY <2>3 DEF PiecesAfter, a, b
<1>8. FlattenSeq(w) = (PiecesBefore(w, i) \o (w[i] \o w[i + 1])) \o PiecesAfter(w, i + 1)
  <2> DEFINE x == PiecesBefore(w, i)
             y == w[i]
             z == w[i + 1]
  <2>1. x \in Seq(S) /\ y \in Seq(S) /\ z \in Seq(S) /\ PiecesBefore(w, i + 1) = x \o y
    BY <1>2, <1>3
  <2>2. FlattenSeq(w) = ((x \o y) \o z) \o PiecesAfter(w, i + 1)
    BY <1>4, <2>1
  <2> HIDE DEF x, y, z
  <2>3. (x \o y) \o z = x \o (y \o z)
    BY <2>1, ConcatAssociates
  <2>4. QED
    BY <2>2, <2>3 DEF x, y, z
<1>9. FlattenSeq(u) = (PiecesBefore(u, i) \o (u[i] \o u[i + 1])) \o PiecesAfter(u, i + 1)
  <2> DEFINE x == PiecesBefore(u, i)
             y == u[i]
             z == u[i + 1]
  <2>1. x \in Seq(S) /\ y \in Seq(S) /\ z \in Seq(S) /\ PiecesBefore(u, i + 1) = x \o y
    BY <1>2, <1>3
  <2>2. FlattenSeq(u) = ((x \o y) \o z) \o PiecesAfter(u, i + 1)
    BY <1>4, <2>1
  <2> HIDE DEF x, y, z
  <2>3. (x \o y) \o z = x \o (y \o z)
    BY <2>1, ConcatAssociates
  <2>4. QED
    BY <2>2, <2>3 DEF x, y, z
<1>10. QED
  BY <1>0, <1>5, <1>6, <1>8, <1>9

LEMMA FlattenNothing ==
  ASSUME NEW S, NEW w \in Seq(Seq(S)), \A i \in 1 .. Len(w) : w[i] = <<>>
  PROVE  FlattenSeq(w) = <<>>
<1> DEFINE Nothing(q) == \A i \in 1 .. Len(q) : q[i] = <<>>
           U == {q \in Seq(Seq(S)) : Nothing(q) => FlattenSeq(q) = <<>>}
<1>1. <<>> \in U
  BY FlattenEmpty
<1>2. ASSUME NEW q \in U, NEW t \in Seq(S) PROVE Append(q, t) \in U
  <2> DEFINE qt == Append(q, t)
  <2>1. /\ q \in Seq(Seq(S)) /\ qt \in Seq(Seq(S)) /\ Len(qt) = Len(q) + 1 /\ Len(q) \in Nat
        /\ qt[Len(q) + 1] = t /\ \A i \in 1 .. Len(q) : qt[i] = q[i]
    OBVIOUS
  <2>2. FlattenSeq(qt) = FlattenSeq(q) \o t
    BY <2>1, FlattenAppend
  <2> HIDE DEF qt
  <2>3. ASSUME Nothing(qt) PROVE FlattenSeq(qt) = <<>>
    <3>1. Nothing(q)
      <4>1. ASSUME NEW i \in 1 .. Len(q) PROVE q[i] = <<>>
        <5>1. i \in 1 .. Len(qt)
          BY <2>1
        <5>2. QED
          BY <2>1, <2>3, <5>1
      <4>2. QED
        BY <4>1
    <3>2. t = <<>>
      <4>1. Len(q) + 1 \in 1 .. Len(qt)
        BY <2>1
      <4>2. QED
        BY <2>1, <2>3, <4>1
    <3>3. FlattenSeq(q) = <<>>
      BY <3>1
    <3>4. <<>> \o <<>> = <<>>
      OBVIOUS
    <3>5. QED
      BY <2>2, <3>2, <3>3, <3>4
  <2>4. qt \in U
    BY <2>1, <2>3
  <2>5. QED
    BY <2>4 DEF qt
<1>3. U = Seq(Seq(S))
  <2> HIDE DEF U
  <2>1. QED
    BY <1>1, <1>2, SeqClosure DEF U
<1>4. QED
  BY <1>3
=============================================================================
