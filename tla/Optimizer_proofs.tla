-------------------------- MODULE Optimizer_proofs --------------------------
(***************************************************************************)
(* Proofs about the optimizer, for any rulesets: what each pass keeps of a *)
(* ruleset; that the loop of the decision plan groups the rules that are   *)
(* left; that a pass that runs on a ruleset fit for it keeps what the      *)
(* rules do, the two rulesets being walked in step through states that     *)
(* agree; last that the driver's rounds end at a fixpoint, as a pass that  *)
(* counts nothing changes nothing.                                         *)
(***************************************************************************)
EXTENDS Optimizer, Rules_proofs

Passes4 ==
  {"deduplication", "dead-code-elimination", "pattern-simplification", "rule-merging"}

LEMMA ChainIsPasses == ToSet(Chain) = Passes4 /\ Head(Chain) = "deduplication"
<1>1. DOMAIN Chain = {1, 2, 3, 4}
  BY DEF Chain
<1>2. ToSet(Chain) = {Chain[1], Chain[2], Chain[3], Chain[4]}
  BY <1>1 DEF ToSet
<1>3. QED
  BY <1>2 DEF Chain, Passes4

-----------------------------------------------------------------------------
(* What a pass keeps *)

\* The header an add rule adds.
AddOf(r) ==
  IF r.action = "add" /\ r.header # <<>> THEN <<<<r.header, r.new>>>> ELSE <<>>
AddsIn(S) == [r \in S |-> AddOf(r)]

\* A pass makes of a ruleset a ruleset, no longer one, that adds the same.
Keeps(q, rs) == IsRuleset(q) /\ Len(q) <= Len(rs) /\ Adds(q) = Adds(rs)

LEMMA AddsThrough ==
  ASSUME NEW S, NEW rs \in Seq(S)
  PROVE  /\ Adds(rs) = Through(rs, AddsIn(S))
         /\ AddsIn(S) \in [S -> Seq({<<r.header, r.new>> : r \in S})]
<1>1. \A i \in DOMAIN rs : rs[i] \in S
  OBVIOUS
<1>2. [i \in DOMAIN rs |-> AddsIn(S)[rs[i]]] =
      [i \in DOMAIN rs |-> IF rs[i].action = "add" /\ rs[i].header # <<>>
                           THEN <<<<rs[i].header, rs[i].new>>>> ELSE <<>>]
  BY <1>1 DEF AddsIn, AddOf
<1>3. \A r \in S : AddOf(r) \in Seq({<<q.header, q.new>> : q \in S})
  BY SMTT(20) DEF AddOf
<1>4. QED
  BY <1>2, <1>3 DEF Adds, Through, AddsIn

LEMMA RulesetIsSequence ==
  ASSUME NEW rs, IsRuleset(rs)
  PROVE  /\ rs \in Seq(ToSet(rs)) /\ Len(rs) \in Nat /\ DOMAIN rs = 1 .. Len(rs)
         /\ \A i \in 1 .. Len(rs) : rs[i] \in ToSet(rs) /\ DOMAIN rs[i] = RuleFields
BY DEF IsRuleset, ToSet

LEMMA SequenceOfRules ==
  ASSUME NEW S, NEW q \in Seq(S), \A x \in S : DOMAIN x = RuleFields
  PROVE  IsRuleset(q)
<1>1. ToSet(q) \subseteq S /\ q \in [1 .. Len(q) -> ToSet(q)] /\ Len(q) \in Nat
  BY DEF ToSet
<1>2. QED
  BY <1>1, FunctionIsSeq DEF IsRuleset

\* A pass that keeps, drops or replaces each rule by itself.
LEMMA PartsKeep ==
  ASSUME NEW rs, IsRuleset(rs), NEW S, \A x \in S : DOMAIN x = RuleFields,
         NEW w \in Seq(Seq(S)), Len(w) = Len(rs),
         \A i \in 1 .. Len(rs) : \/ w[i] = <<>> /\ AddOf(rs[i]) = <<>>
                                 \/ \E x \in S : w[i] = <<x>> /\ AddOf(x) = AddOf(rs[i])
  PROVE  Keeps(FlattenSeq(w), rs)
<1> DEFINE f == FlattenSeq(w)
           T == {<<r.header, r.new>> : r \in S}
           a == AddsIn(S)
<1>1. f \in Seq(S) /\ IsRuleset(f)
  BY FlattenType, SequenceOfRules
<1>2. Len(f) <= Len(rs)
  <2>1. \A i \in 1 .. Len(w) : Len(w[i]) <= 1
    <3>1. Len(<<>>) = 0 /\ \A x : Len(<<x>>) = 1
      OBVIOUS
    <3>2. ASSUME NEW i \in 1 .. Len(w) PROVE Len(w[i]) <= 1
      <4>1. w[i] = <<>> \/ \E x \in S : w[i] = <<x>>
        OBVIOUS
      <4>2. CASE w[i] = <<>>
        BY <3>1, <4>2
      <4>3. CASE \E x \in S : w[i] = <<x>>
        <5>1. PICK x \in S : w[i] = <<x>>
          BY <4>3
        <5>2. Len(w[i]) = 1
          BY <3>1, <5>1
        <5>3. QED
          BY <5>2
      <4>4. QED
        BY <4>1, <4>2, <4>3
    <3>3. QED
      BY <3>2
  <2>2. QED
    BY <2>1, FlattenShort
<1>3. Adds(f) = Through(f, a) /\ a \in [S -> Seq(T)]
  BY <1>1, AddsThrough
<1>4. \A i \in 1 .. Len(rs) : Through(w[i], a) = AddOf(rs[i])
  <2>1. \A x \in S : Through(<<x>>, a) = AddOf(x)
    <3>1. \A x \in S : a[x] = AddOf(x)
      BY DEF AddsIn
    <3> HIDE DEF a, T
    <3>2. ASSUME NEW x \in S PROVE Through(<<x>>, a) = a[x]
      BY <1>3, ThroughOne
    <3>3. QED
      BY <3>1, <3>2
  <2> HIDE DEF a
  <2>2. QED
    BY <2>1, ThroughEmpty
<1>5. DOMAIN w = 1 .. Len(rs) /\ DOMAIN rs = 1 .. Len(rs)
  BY RulesetIsSequence
<1> DEFINE wa == [i \in DOMAIN w |-> Through(w[i], a)]
           ra == [i \in DOMAIN rs |-> AddOf(rs[i])]
<1>6. Through(f, a) = FlattenSeq(wa)
  <2> HIDE DEF a, T
  <2>1. QED
    BY <1>3, ThroughFlattened
<1>7. wa = ra
  <2> HIDE DEF a
  <2>1. QED
    BY <1>4, <1>5
<1>8. FlattenSeq(ra) = Adds(rs)
  BY DEF Adds, AddOf
<1> HIDE DEF f, wa, ra, a
<1>9. QED
  BY <1>1, <1>2, <1>3, <1>6, <1>7, <1>8 DEF Keeps, f

LEMMA SplitRuleset ==
  ASSUME NEW rs, IsRuleset(rs), NEW w, NEW S, w \in [DOMAIN rs -> Seq(S)]
  PROVE  w \in Seq(Seq(S)) /\ Len(w) = Len(rs)
BY RulesetIsSequence, FunctionIsSeq

-----------------------------------------------------------------------------
(* The passes *)

LEMMA DeduplicationKeeps ==
  ASSUME NEW rs, IsRuleset(rs)
  PROVE  Keeps(Deduplicated(rs), rs)
<1> DEFINE S == ToSet(rs)
           D == Duplicates(rs, Sigs(rs))
           w == [j \in DOMAIN rs |-> IF j \in D THEN <<>> ELSE <<rs[j]>>]
<1>1. \A j \in D : AddOf(rs[j]) = <<>>
  BY DEF Duplicates, IsIdempotent, AddOf
<1>2. /\ \A i \in 1 .. Len(rs) : rs[i] \in S /\ DOMAIN rs = 1 .. Len(rs)
      /\ \A x \in S : DOMAIN x = RuleFields
  BY RulesetIsSequence DEF IsRuleset
<1> HIDE DEF S, D
<1>3. w \in [DOMAIN rs -> Seq(S)]
  BY <1>2
<1>4. w \in Seq(Seq(S)) /\ Len(w) = Len(rs)
  <2> HIDE DEF w
  <2>1. QED
    BY <1>3, SplitRuleset
<1>5. \A i \in 1 .. Len(rs) : \/ w[i] = <<>> /\ AddOf(rs[i]) = <<>>
                              \/ \E x \in S : w[i] = <<x>> /\ AddOf(x) = AddOf(rs[i])
  BY <1>1, <1>2
<1>6. Deduplicated(rs) = FlattenSeq(w)
  BY DEF Deduplicated, WithoutDuplicates, D
<1> HIDE DEF w
<1>7. QED
  BY <1>2, <1>4, <1>5, <1>6, PartsKeep

LEMMA EliminationKeeps ==
  ASSUME NEW rs, IsRuleset(rs)
  PROVE  Keeps(Alive(rs), rs)
<1> DEFINE Trimmed(i) == [rs[i] EXCEPT !.elements = Working(@)]
           S == {Trimmed(i) : i \in DOMAIN rs}
           w == [i \in DOMAIN rs |-> IF Dead(rs[i]) THEN <<>> ELSE <<Trimmed(i)>>]
<1>1. \A i \in 1 .. Len(rs) : DOMAIN rs[i] = RuleFields /\ DOMAIN rs = 1 .. Len(rs)
  BY RulesetIsSequence
<1>2. \A i \in DOMAIN rs : DOMAIN Trimmed(i) = RuleFields /\ AddOf(Trimmed(i)) = AddOf(rs[i])
  BY <1>1, RulesetIsSequence DEF RuleFields, AddOf
<1>3. \A i \in DOMAIN rs : Dead(rs[i]) => AddOf(rs[i]) = <<>>
  BY DEF Dead, NeedsHeader, AddOf
<1>4. \A x \in S : DOMAIN x = RuleFields
  BY <1>2
<1> HIDE DEF Trimmed
<1>5. w \in [DOMAIN rs -> Seq(S)]
  <2>1. \A i \in DOMAIN rs : Trimmed(i) \in S
    OBVIOUS
  <2> HIDE DEF S
  <2>2. \A i \in DOMAIN rs : (IF Dead(rs[i]) THEN <<>> ELSE <<Trimmed(i)>>) \in Seq(S)
    BY <2>1
  <2>3. QED
    BY <2>2
<1>6. \A i \in 1 .. Len(rs) : \/ w[i] = <<>> /\ AddOf(rs[i]) = <<>>
                              \/ \E x \in S : w[i] = <<x>> /\ AddOf(x) = AddOf(rs[i])
  BY <1>1, <1>2, <1>3
<1>7. Alive(rs) = FlattenSeq(w)
  BY DEF Alive, Trimmed
<1> HIDE DEF w, S
<1>8. w \in Seq(Seq(S)) /\ Len(w) = Len(rs)
  BY <1>5, SplitRuleset
<1>9. QED
  BY <1>4, <1>6, <1>7, <1>8, PartsKeep

\* A pass that changes each rule and drops none.
LEMMA EachKeeps ==
  ASSUME NEW rs, IsRuleset(rs), NEW q, q = [i \in DOMAIN rs |-> q[i]],
         \A i \in DOMAIN rs : DOMAIN q[i] = RuleFields /\ AddOf(q[i]) = AddOf(rs[i])
  PROVE  Keeps(q, rs) /\ Len(q) = Len(rs)
<1> DEFINE S == {q[i] : i \in DOMAIN rs}
<1>1. q \in Seq(S) /\ Len(q) = Len(rs)
  <2>1. q \in [1 .. Len(rs) -> S] /\ Len(rs) \in Nat
    BY RulesetIsSequence
  <2> HIDE DEF S
  <2>2. QED
    BY <2>1, FunctionIsSeq
<1>2. IsRuleset(q)
  BY <1>1, SequenceOfRules
<1>3. [i \in DOMAIN q |-> AddOf(q[i])] = [i \in DOMAIN rs |-> AddOf(rs[i])]
  OBVIOUS
<1>4. Adds(q) = FlattenSeq([i \in DOMAIN q |-> AddOf(q[i])])
      /\ Adds(rs) = FlattenSeq([i \in DOMAIN rs |-> AddOf(rs[i])])
  BY DEF Adds, AddOf
<1>5. Adds(q) = Adds(rs)
  BY <1>3, <1>4
<1>6. Len(q) <= Len(rs)
  BY <1>1, RulesetIsSequence
<1>7. QED
  BY <1>1, <1>2, <1>5, <1>6 DEF Keeps

LEMMA SimplificationKeeps ==
  ASSUME NEW rs, IsRuleset(rs)
  PROVE  Keeps(Simplified(rs), rs)
<1> DEFINE q == Simplified(rs)
<1>1. \A i \in DOMAIN rs : DOMAIN rs[i] = RuleFields
  BY RulesetIsSequence
<1>2. \A r : DOMAIN r = RuleFields =>
               DOMAIN Simplify(r) = RuleFields /\ AddOf(Simplify(r)) = AddOf(r)
  BY DEF Simplify, RuleFields, AddOf
<1>3. \A i \in DOMAIN rs :
         q[i] = [Simplify(rs[i]) EXCEPT !.elements = [j \in DOMAIN @ |-> Simplify(@[j])]]
  BY DEF Simplified
<1>4. \A r, es : DOMAIN r = RuleFields =>
         DOMAIN [r EXCEPT !.elements = es] = RuleFields /\ AddOf([r EXCEPT !.elements = es]) = AddOf(r)
  BY DEF RuleFields, AddOf
<1>5. \A i \in DOMAIN rs : DOMAIN q[i] = RuleFields /\ AddOf(q[i]) = AddOf(rs[i])
  <2> TAKE i \in DOMAIN rs
  <2>1. PICK es : q[i] = [Simplify(rs[i]) EXCEPT !.elements = es]
    BY <1>3
  <2> HIDE DEF q
  <2>2. DOMAIN Simplify(rs[i]) = RuleFields /\ AddOf(Simplify(rs[i])) = AddOf(rs[i])
    BY <1>1, <1>2
  <2>3. QED
    BY <1>4, <2>1, <2>2
<1>6. q = [i \in DOMAIN rs |-> q[i]]
  BY DEF Simplified
<1> HIDE DEF q
<1>7. QED
  BY <1>5, <1>6, EachKeeps DEF q

-----------------------------------------------------------------------------
(* Fusing *)

\* The recursive function in Fused satisfies its equation.
LEMMA FusedEquation ==
  ASSUME NEW rs, NEW n \in Nat
  PROVE  \E g : g = [i \in 0 .. n |-> IF i = 0 THEN <<>> ELSE Fuse(g[i - 1], rs[i])]
<1> DEFINE Good(g, m) == g = [i \in 0 .. m |-> IF i = 0 THEN <<>> ELSE Fuse(g[i - 1], rs[i])]
           I == {m \in Nat : \E g : Good(g, m)}
<1>1. 0 \in I
  <2> DEFINE g == [i \in 0 .. 0 |-> <<>>]
  <2>1. g = [i \in 0 .. 0 |-> IF i = 0 THEN <<>> ELSE Fuse(g[i - 1], rs[i])]
    OBVIOUS
  <2>2. QED
    BY <2>1
<1>2. ASSUME NEW m \in I PROVE m + 1 \in I
  <2>1. m \in Nat
    OBVIOUS
  <2>2. PICK g : Good(g, m)
    OBVIOUS
  <2> DEFINE h == [i \in 0 .. m + 1 |-> IF i = m + 1 THEN Fuse(g[m], rs[m + 1]) ELSE g[i]]
  <2>3. \A i \in 0 .. m : h[i] = g[i]
    BY <2>1
  <2>4. ASSUME NEW i \in 0 .. m + 1
        PROVE  h[i] = IF i = 0 THEN <<>> ELSE Fuse(h[i - 1], rs[i])
    <3>1. CASE i = m + 1
      <4>1. i # 0 /\ i - 1 = m /\ m \in 0 .. m
        BY <2>1, <3>1
      <4>2. QED
        BY <2>3, <3>1, <4>1
    <3>2. CASE i # m + 1
      <4>1. i \in 0 .. m /\ (i # 0 => i - 1 \in 0 .. m)
        BY <2>1, <3>2
      <4>2. g[i] = IF i = 0 THEN <<>> ELSE Fuse(g[i - 1], rs[i])
        BY <2>2, <4>1
      <4>3. QED
        BY <2>3, <4>1, <4>2
    <3>3. QED
      BY <3>1, <3>2
  <2>5. h = [i \in 0 .. m + 1 |-> h[i]]
    OBVIOUS
  <2> HIDE DEF h
  <2>6. Good(h, m + 1)
    BY <2>4, <2>5
  <2>7. QED
    BY <2>1, <2>6
<1>3. I = Nat
  <2> HIDE DEF I
  <2>1. QED
    BY <1>1, <1>2, NatClosure DEF I
<1>4. QED
  BY <1>3

LEMMA FusedUnfolds ==
  ASSUME NEW rs, Len(rs) \in Nat
  PROVE  \E g : /\ Fused(rs) = g[Len(rs)] /\ g[0] = <<>>
                /\ \A i \in 1 .. Len(rs) : g[i] = Fuse(g[i - 1], rs[i])
<1> DEFINE Good(g) == g = [i \in 0 .. Len(rs) |-> IF i = 0 THEN <<>> ELSE Fuse(g[i - 1], rs[i])]
           g == CHOOSE g : Good(g)
<1>1. Good(g)
  BY FusedEquation
<1>2. Fused(rs) = g[Len(rs)]
  BY DEF Fused
<1> HIDE DEF g
<1>3. g[0] = <<>> /\ \A i \in 1 .. Len(rs) : g[i] = Fuse(g[i - 1], rs[i])
  BY <1>1
<1>4. QED
  BY <1>2, <1>3

LEMMA AddsOfNone == IsRuleset(<<>>) /\ Adds(<<>>) = <<>>
<1>1. IsRuleset(<<>>)
  BY DEF IsRuleset, ToSet
<1>2. Adds(<<>>) = Through(<<>>, AddsIn({}))
  <2>1. <<>> \in Seq({})
    OBVIOUS
  <2>2. QED
    BY <2>1, AddsThrough
<1>3. QED
  BY <1>1, <1>2, ThroughEmpty

LEMMA AddsAppend ==
  ASSUME NEW q, IsRuleset(q), NEW r, DOMAIN r = RuleFields
  PROVE  /\ IsRuleset(Append(q, r)) /\ Len(Append(q, r)) = Len(q) + 1
         /\ Adds(Append(q, r)) = Adds(q) \o AddOf(r)
<1> DEFINE S == ToSet(q) \cup {r}
           qr == Append(q, r)
<1>1. q \in Seq(S) /\ r \in S /\ \A x \in S : DOMAIN x = RuleFields
  <2>1. q \in [1 .. Len(q) -> S] /\ Len(q) \in Nat
    BY RulesetIsSequence
  <2>2. q \in Seq(S)
    <3> HIDE DEF S
    <3>1. QED
      BY <2>1, FunctionIsSeq
  <2>3. QED
    BY <2>2 DEF IsRuleset
<1> HIDE DEF S
<1>2. qr \in Seq(S) /\ Len(qr) = Len(q) + 1
  BY <1>1
<1>3. IsRuleset(qr)
  BY <1>1, <1>2, SequenceOfRules
<1> DEFINE a == AddsIn(S)
           T == {<<x.header, x.new>> : x \in S}
<1>4. Adds(qr) = Through(qr, a) /\ Adds(q) = Through(q, a) /\ a \in [S -> Seq(T)]
  BY <1>1, <1>2, AddsThrough
<1>5. a[r] = AddOf(r)
  BY <1>1 DEF AddsIn
<1> HIDE DEF a, T
<1>6. Through(qr, a) = Through(q, a) \o a[r]
  BY <1>1, <1>4, ThroughAppend
<1>7. QED
  BY <1>2, <1>3, <1>4, <1>5, <1>6

LEMMA SplitLast ==
  ASSUME NEW q, IsRuleset(q), q # <<>>
  PROVE  /\ IsRuleset(Front(q)) /\ DOMAIN Last(q) = RuleFields
         /\ q = Append(Front(q), Last(q))
<1>1. /\ q \in Seq(ToSet(q)) /\ Len(q) \in Nat /\ Len(q) # 0
      /\ \A i \in 1 .. Len(q) : q[i] \in ToSet(q) /\ DOMAIN q[i] = RuleFields
  BY RulesetIsSequence
<1> DEFINE S == ToSet(q)
<1> HIDE DEF S
<1>2. /\ Front(q) \in Seq(S) /\ Last(q) = q[Len(q)] /\ q = Append(Front(q), Last(q))
  BY <1>1 DEF Front, Last, S
<1>3. \A x \in S : DOMAIN x = RuleFields
  BY DEF S, IsRuleset
<1>4. QED
  BY <1>1, <1>2, <1>3, SequenceOfRules

\* A rule that joins another adds nothing, nor does the one it joins.
LEMMA FuseKeeps ==
  ASSUME NEW q, IsRuleset(q), NEW r, DOMAIN r = RuleFields
  PROVE  /\ IsRuleset(Fuse(q, r)) /\ Len(Fuse(q, r)) <= Len(q) + 1
         /\ Adds(Fuse(q, r)) = Adds(q) \o AddOf(r)
<1>0. Len(q) \in Nat
  BY RulesetIsSequence
<1>1. CASE ~(q # <<>> /\ Fusable(Last(q), r))
  <2>1. Fuse(q, r) = Append(q, r)
    BY <1>1 DEF Fuse
  <2>2. QED
    BY <1>0, <2>1, AddsAppend
<1>2. CASE q # <<>> /\ Fusable(Last(q), r)
  <2> DEFINE x == [Last(q) EXCEPT !.elements = @ \o r.elements]
  <2>1. /\ IsRuleset(Front(q)) /\ DOMAIN Last(q) = RuleFields
        /\ q = Append(Front(q), Last(q))
    BY <1>2, SplitLast
  <2>2. /\ DOMAIN x = RuleFields /\ AddOf(x) = <<>> /\ AddOf(Last(q)) = <<>> /\ AddOf(r) = <<>>
    BY <1>2, <2>1 DEF Fusable, RuleFields, AddOf
  <2>3. Fuse(q, r) = Front(q) \o <<x>>
    BY <1>2 DEF Fuse
  <2> HIDE DEF x
  <2>4. Front(q) \o <<x>> = Append(Front(q), x)
    BY <2>1, RulesetIsSequence
  <2>5. /\ IsRuleset(Append(Front(q), x)) /\ Len(Append(Front(q), x)) = Len(Front(q)) + 1
        /\ Adds(Append(Front(q), x)) = Adds(Front(q)) \o <<>>
    BY <2>1, <2>2, AddsAppend
  <2>6. /\ Len(q) = Len(Front(q)) + 1 /\ Adds(q) = Adds(Front(q)) \o <<>>
    BY <2>1, <2>2, AddsAppend
  <2>7. Adds(q) \o <<>> = Adds(q)
    <3>1. q \in Seq(ToSet(q))
      BY RulesetIsSequence
    <3> DEFINE a == AddsIn(ToSet(q))
               T == {<<y.header, y.new>> : y \in ToSet(q)}
    <3>2. Adds(q) = Through(q, a) /\ a \in [ToSet(q) -> Seq(T)]
      BY <3>1, AddsThrough
    <3> HIDE DEF a, T
    <3>3. Adds(q) \in Seq(T)
      BY <3>1, <3>2, ThroughType
    <3>4. QED
      BY <3>3
  <2>8. /\ Fuse(q, r) = Append(Front(q), x) /\ Len(Fuse(q, r)) = Len(q)
        /\ Adds(Fuse(q, r)) = Adds(q)
    BY <2>3, <2>4, <2>5, <2>6
  <2>9. Len(Fuse(q, r)) <= Len(q) + 1
    BY <1>0, <2>8
  <2>10. QED
    BY <2>2, <2>5, <2>7, <2>8, <2>9
<1>3. QED
  BY <1>1, <1>2

LEMMA FusedKeeps ==
  ASSUME NEW rs, IsRuleset(rs)
  PROVE  Keeps(Fused(rs), rs)
<1> DEFINE n == Len(rs)
           Upto(i) == SubSeq(rs, 1, i)
<1>1. /\ rs \in Seq(ToSet(rs)) /\ n \in Nat
      /\ \A i \in 1 .. n : rs[i] \in ToSet(rs) /\ DOMAIN rs[i] = RuleFields
  BY RulesetIsSequence
<1>2. PICK g : /\ Fused(rs) = g[n] /\ g[0] = <<>>
               /\ \A i \in 1 .. n : g[i] = Fuse(g[i - 1], rs[i])
  BY <1>1, FusedUnfolds
<1>3. /\ Upto(0) = <<>> /\ Upto(n) = rs
      /\ \A i \in 0 .. n - 1 : Upto(i + 1) = Append(Upto(i), rs[i + 1])
  BY <1>1
<1> HIDE DEF n, Upto
<1> DEFINE Done(i) == /\ IsRuleset(Upto(i)) /\ IsRuleset(g[i])
                      /\ Len(g[i]) <= Len(Upto(i)) /\ Adds(g[i]) = Adds(Upto(i))
           I == {i \in Nat : i <= n => Done(i)}
<1>4. 0 \in I
  <2>1. Len(<<>>) <= Len(<<>>)
    OBVIOUS
  <2>2. QED
    BY <1>2, <1>3, <2>1, AddsOfNone
<1>5. ASSUME NEW i \in I PROVE i + 1 \in I
  <2>1. i \in Nat /\ (i <= n => Done(i))
    OBVIOUS
  <2>2. SUFFICES ASSUME i + 1 <= n PROVE Done(i + 1)
    BY <2>1
  <2>3. Done(i) /\ i + 1 \in 1 .. n /\ i \in 0 .. n - 1 /\ (i + 1) - 1 = i
    BY <1>1, <2>1, <2>2
  <2> HIDE DEF Done
  <2>4. /\ Upto(i + 1) = Append(Upto(i), rs[i + 1]) /\ g[i + 1] = Fuse(g[i], rs[i + 1])
        /\ DOMAIN rs[i + 1] = RuleFields
    BY <1>1, <1>2, <1>3, <2>3
  <2>5. IsRuleset(Upto(i)) /\ IsRuleset(g[i])
    BY <2>3 DEF Done
  <2>6. /\ IsRuleset(Upto(i + 1)) /\ Len(Upto(i + 1)) = Len(Upto(i)) + 1
        /\ Adds(Upto(i + 1)) = Adds(Upto(i)) \o AddOf(rs[i + 1])
    BY <2>4, <2>5, AddsAppend
  <2>7. /\ IsRuleset(g[i + 1]) /\ Len(g[i + 1]) <= Len(g[i]) + 1
        /\ Adds(g[i + 1]) = Adds(g[i]) \o AddOf(rs[i + 1])
    BY <2>4, <2>5, FuseKeeps
  <2>8. Len(g[i]) \in Nat /\ Len(g[i + 1]) \in Nat /\ Len(Upto(i)) \in Nat
    BY <2>5, <2>7, RulesetIsSequence
  <2>9. Len(g[i]) <= Len(Upto(i)) /\ Adds(g[i]) = Adds(Upto(i))
    BY <2>3 DEF Done
  <2>10. Len(g[i + 1]) <= Len(Upto(i + 1))
    BY <2>6, <2>7, <2>8, <2>9
  <2>11. QED
    BY <2>6, <2>7, <2>9, <2>10 DEF Done
<1>6. I = Nat
  <2> HIDE DEF I
  <2>1. QED
    BY <1>4, <1>5, NatClosure DEF I
<1>7. Done(n)
  <2>1. n \in I /\ n <= n
    BY <1>1, <1>6
  <2>2. QED
    BY <2>1
<1>8. QED
  BY <1>2, <1>3, <1>7 DEF Keeps, n

LEMMA MergingKeeps ==
  ASSUME NEW rs, IsRuleset(rs)
  PROVE  Keeps(Merged(rs), rs)
<1> DEFINE q == [i \in DOMAIN rs |->
                   [rs[i] EXCEPT !.elements = WithoutDuplicates(@, ElementSigs(@))]]
<1>1. \A i \in DOMAIN rs : DOMAIN q[i] = RuleFields /\ AddOf(q[i]) = AddOf(rs[i])
  <2> TAKE i \in DOMAIN rs
  <2>1. DOMAIN rs[i] = RuleFields
    BY RulesetIsSequence
  <2>2. PICK es : q[i] = [rs[i] EXCEPT !.elements = es]
    OBVIOUS
  <2> HIDE DEF q
  <2>3. QED
    BY <2>1, <2>2 DEF RuleFields, AddOf
<1>2. q = [i \in DOMAIN rs |-> q[i]] /\ Merged(rs) = Fused(q)
  BY DEF Merged
<1> HIDE DEF q
<1>3. Keeps(q, rs) /\ Len(q) = Len(rs)
  BY <1>1, <1>2, EachKeeps
<1>4. Keeps(Fused(q), q)
  BY <1>3, FusedKeeps DEF Keeps
<1>5. QED
  BY <1>2, <1>3, <1>4 DEF Keeps

LEMMA KeepsAgain ==
  ASSUME NEW q, NEW rs, NEW s, Keeps(q, rs), Keeps(rs, s), IsRuleset(s)
  PROVE  Keeps(q, s)
<1>1. Len(q) \in Nat /\ Len(rs) \in Nat /\ Len(s) \in Nat
  BY RulesetIsSequence DEF Keeps
<1>2. Len(q) <= Len(rs) /\ Len(rs) <= Len(s)
  BY DEF Keeps
<1>3. Len(q) <= Len(s)
  BY <1>1, <1>2
<1>4. QED
  BY <1>3 DEF Keeps

LEMMA PassesKeep ==
  ASSUME NEW rs, IsRuleset(rs), NEW p \in Passes4
  PROVE  Keeps(After(p, rs), rs)
<1>1. CASE p = "deduplication"
  BY <1>1, DeduplicationKeeps DEF After
<1>2. CASE p = "dead-code-elimination"
  BY <1>2, EliminationKeeps DEF After
<1>3. CASE p = "pattern-simplification"
  BY <1>3, SimplificationKeeps DEF After
<1>4. CASE p = "rule-merging"
  BY <1>4, MergingKeeps DEF After
<1>5. QED
  BY <1>1, <1>2, <1>3, <1>4 DEF Passes4

-----------------------------------------------------------------------------
(* The plan *)

\* The recursive function in Grouped satisfies its equation.
LEMMA GroupedEquation ==
  ASSUME NEW rs, NEW n \in Nat
  PROVE  \E g : g = [i \in 0 .. n |-> IF i = 0 THEN <<>> ELSE Join(g[i - 1], i, Fold(rs[i].header))]
<1> DEFINE Good(g, m) ==
             g = [i \in 0 .. m |-> IF i = 0 THEN <<>> ELSE Join(g[i - 1], i, Fold(rs[i].header))]
           I == {m \in Nat : \E g : Good(g, m)}
<1>1. 0 \in I
  <2> DEFINE g == [i \in 0 .. 0 |-> <<>>]
  <2>1. g = [i \in 0 .. 0 |-> IF i = 0 THEN <<>> ELSE Join(g[i - 1], i, Fold(rs[i].header))]
    OBVIOUS
  <2>2. QED
    BY <2>1
<1>2. ASSUME NEW m \in I PROVE m + 1 \in I
  <2>1. m \in Nat
    OBVIOUS
  <2>2. PICK g : Good(g, m)
    OBVIOUS
  <2> DEFINE h == [i \in 0 .. m + 1 |-> IF i = m + 1 THEN Join(g[m], m + 1, Fold(rs[m + 1].header)) ELSE g[i]]
  <2>3. \A i \in 0 .. m : h[i] = g[i]
    BY <2>1
  <2>4. ASSUME NEW i \in 0 .. m + 1
        PROVE  h[i] = IF i = 0 THEN <<>> ELSE Join(h[i - 1], i, Fold(rs[i].header))
    <3>1. CASE i = m + 1
      <4>1. i # 0 /\ i - 1 = m /\ m \in 0 .. m
        BY <2>1, <3>1
      <4>2. QED
        BY <2>3, <3>1, <4>1
    <3>2. CASE i # m + 1
      <4>1. i \in 0 .. m /\ (i # 0 => i - 1 \in 0 .. m)
        BY <2>1, <3>2
      <4>2. g[i] = IF i = 0 THEN <<>> ELSE Join(g[i - 1], i, Fold(rs[i].header))
        BY <2>2, <4>1
      <4>3. QED
        BY <2>3, <3>2, <4>1, <4>2
    <3>3. QED
      BY <3>1, <3>2
  <2>5. h = [i \in 0 .. m + 1 |-> h[i]]
    OBVIOUS
  <2> HIDE DEF h
  <2>6. Good(h, m + 1)
    BY <2>4, <2>5
  <2>7. QED
    BY <2>1, <2>6
<1>3. I = Nat
  <2> HIDE DEF I
  <2>1. QED
    BY <1>1, <1>2, NatClosure DEF I
<1>4. QED
  BY <1>3

LEMMA GroupedUnfolds ==
  ASSUME NEW rs, Len(rs) \in Nat
  PROVE  \E g : /\ Grouped(rs) = g[Len(rs)] /\ g[0] = <<>>
                /\ \A i \in 1 .. Len(rs) : g[i] = Join(g[i - 1], i, Fold(rs[i].header))
<1> DEFINE Good(g) == g = [i \in 0 .. Len(rs) |-> IF i = 0 THEN <<>> ELSE Join(g[i - 1], i, Fold(rs[i].header))]
           g == CHOOSE g : Good(g)
<1>1. Good(g)
  BY GroupedEquation
<1>2. Grouped(rs) = g[Len(rs)]
  BY DEF Grouped
<1> HIDE DEF g
<1>3. g[0] = <<>> /\ \A i \in 1 .. Len(rs) : g[i] = Join(g[i - 1], i, Fold(rs[i].header))
  BY <1>1
<1>4. QED
  BY <1>2, <1>3

\* Groups that take in rules 1 to n, whose headers, as compared, are key.
Group(key, n) == [header : {key[i] : i \in 1 .. n}, indices : Seq(1 .. n)]

IsGrouping(gs, key, n) ==
  /\ gs \in Seq(Group(key, n))
  /\ \A g, h \in 1 .. Len(gs) : gs[g].header = gs[h].header => g = h
  /\ \A i \in 1 .. n : \E g \in 1 .. Len(gs) : \E k \in 1 .. Len(gs[g].indices) : gs[g].indices[k] = i
  /\ \A g \in 1 .. Len(gs) :
       /\ \A k \in 1 .. Len(gs[g].indices) : key[gs[g].indices[k]] = gs[g].header
       /\ \A j, k \in 1 .. Len(gs[g].indices) : j < k => gs[g].indices[j] < gs[g].indices[k]

LEMMA GroupParts ==
  ASSUME NEW n, NEW key, NEW x \in Group(key, n)
  PROVE  /\ x = [header |-> x.header, indices |-> x.indices]
         /\ x.indices \in Seq(1 .. n) /\ Len(x.indices) \in Nat /\ DOMAIN x.indices = 1 .. Len(x.indices)
         /\ \A k \in 1 .. Len(x.indices) : x.indices[k] \in 1 .. n
<1>1. x = [header |-> x.header, indices |-> x.indices] /\ x.indices \in Seq(1 .. n)
  <2> DEFINE H == {key[i] : i \in 1 .. n}
             I == Seq(1 .. n)
  <2>1. x \in [header : H, indices : I]
    BY DEF Group
  <2> HIDE DEF H, I
  <2>2. x = [header |-> x.header, indices |-> x.indices] /\ x.indices \in I
    BY <2>1
  <2>3. QED
    BY <2>2 DEF I
<1> DEFINE s == x.indices
           I == 1 .. n
<1>2. s \in Seq(I)
  BY <1>1
<1> HIDE DEF s, I
<1>3. /\ Len(s) \in Nat /\ DOMAIN s = 1 .. Len(s)
      /\ \A k \in 1 .. Len(s) : s[k] \in I
  BY <1>2
<1>4. QED
  BY <1>1, <1>3 DEF s, I

LEMMA MoreGroups ==
  ASSUME NEW n \in Nat, NEW key
  PROVE  /\ Group(key, n) \subseteq Group(key, n + 1)
         /\ \A s \in Seq(1 .. n + 1), i \in 1 .. n + 1 : [header |-> key[i], indices |-> s] \in Group(key, n + 1)
<1>1. 1 .. n \subseteq 1 .. n + 1 /\ Seq(1 .. n) \subseteq Seq(1 .. n + 1)
  OBVIOUS
<1>2. {key[i] : i \in 1 .. n} \subseteq {key[i] : i \in 1 .. n + 1}
  BY <1>1
<1>3. QED
  BY <1>1, <1>2 DEF Group

\* A group that takes in one rule more.
LEMMA AppendIndex ==
  ASSUME NEW n \in Nat, NEW s \in Seq(1 .. n)
  PROVE  /\ Append(s, n + 1) \in Seq(1 .. n + 1) /\ Len(Append(s, n + 1)) = Len(s) + 1
         /\ \A k \in 1 .. Len(s) : Append(s, n + 1)[k] = s[k]
         /\ Append(s, n + 1)[Len(s) + 1] = n + 1
<1>1. s \in Seq(1 .. n + 1) /\ n + 1 \in 1 .. n + 1
  OBVIOUS
<1>2. QED
  BY <1>1

LEMMA JoinGroups ==
  ASSUME NEW n \in Nat, NEW key, NEW gs, IsGrouping(gs, key, n)
  PROVE  IsGrouping(Join(gs, n + 1, key[n + 1]), key, n + 1)
<1> DEFINE G == Group(key, n + 1)
           found == {g \in DOMAIN gs : gs[g].header = key[n + 1]}
           q == Join(gs, n + 1, key[n + 1])
           N == Len(gs)
<1>0. \A i \in 1 .. n : \E g \in 1 .. N : \E k \in 1 .. Len(gs[g].indices) : gs[g].indices[k] = i
  BY Zenon DEF IsGrouping
<1>1. N \in Nat /\ DOMAIN gs = 1 .. N
  BY DEF IsGrouping
<1>2. \A g \in 1 .. N : /\ gs[g] \in Group(key, n) /\ gs[g].indices \in Seq(1 .. n)
                        /\ Len(gs[g].indices) \in Nat
                        /\ \A k \in 1 .. Len(gs[g].indices) : gs[g].indices[k] \in 1 .. n
  <2>1. \A g \in 1 .. N : gs[g] \in Group(key, n)
    BY DEF IsGrouping
  <2>2. QED
    BY <2>1, GroupParts
<1>3. Group(key, n) \subseteq G /\ n + 1 \in 1 .. n + 1
  BY MoreGroups
<1>4. gs \in Seq(G)
  <2>1. gs \in Seq(Group(key, n))
    BY DEF IsGrouping
  <2> HIDE DEF G
  <2>2. QED
    BY <1>3, <2>1
<1>5. CASE found = {}
  <2> DEFINE x == [header |-> key[n + 1], indices |-> <<n + 1>>]
  <2>1. q = Append(gs, x)
    BY <1>5 DEF Join
  <2>2. x \in G /\ Len(x.indices) = 1 /\ x.indices[1] = n + 1 /\ x.header = key[n + 1]
    <3>1. <<n + 1>> \in Seq(1 .. n + 1)
      BY <1>3
    <3>2. x \in G
      BY <1>3, <3>1, MoreGroups
    <3>3. QED
      BY <3>2
  <2> HIDE DEF x, G, q
  <2>3. /\ q \in Seq(G) /\ Len(q) = N + 1 /\ q[N + 1] = x
        /\ \A g \in 1 .. N : q[g] = gs[g]
    BY <1>1, <1>4, <2>1, <2>2
  <2>4. \A g \in 1 .. N : gs[g].header # key[n + 1]
    BY <1>1, <1>5
  <2>5. \A g, h \in 1 .. Len(q) : q[g].header = q[h].header => g = h
    <3>1. \A g, h \in 1 .. N : gs[g].header = gs[h].header => g = h
      BY DEF IsGrouping
    <3>2. \A g \in 1 .. Len(q) : g \in 1 .. N \/ g = N + 1
      BY <1>1, <2>3
    <3>3. \A g \in 1 .. N : q[g].header = gs[g].header /\ q[N + 1].header = key[n + 1]
      BY <2>2, <2>3
    <3>4. QED
      BY <2>4, <3>1, <3>2, <3>3
  <2>6. ASSUME NEW i \in 1 .. n + 1
        PROVE  \E g \in 1 .. Len(q) : \E k \in 1 .. Len(q[g].indices) : q[g].indices[k] = i
    <3>1. CASE i = n + 1
      <4>1. N + 1 \in 1 .. Len(q) /\ 1 \in 1 .. Len(q[N + 1].indices) /\ q[N + 1].indices[1] = i
        BY <1>1, <2>2, <2>3, <3>1
      <4>2. QED
        BY <4>1
    <3>2. CASE i # n + 1
      <4>0. i \in 1 .. n
        BY <3>2
      <4>1. PICK g \in 1 .. N : \E k \in 1 .. Len(gs[g].indices) : gs[g].indices[k] = i
        BY <1>0, <4>0, Zenon
      <4>2. g \in 1 .. Len(q) /\ q[g] = gs[g]
        BY <1>1, <2>3
      <4>3. QED
        BY <4>1, <4>2
    <3>3. QED
      BY <3>1, <3>2
  <2>7. ASSUME NEW g \in 1 .. Len(q)
        PROVE  /\ \A k \in 1 .. Len(q[g].indices) : key[q[g].indices[k]] = q[g].header
               /\ \A j, k \in 1 .. Len(q[g].indices) : j < k => q[g].indices[j] < q[g].indices[k]
    <3>1. CASE g = N + 1
      BY <2>2, <2>3, <3>1
    <3>2. CASE g # N + 1
      <4>1. g \in 1 .. N /\ q[g] = gs[g]
        BY <1>1, <2>3, <3>2
      <4>2. QED
        BY <4>1 DEF IsGrouping
    <3>3. QED
      BY <3>1, <3>2
  <2>8. QED
    BY <2>3, <2>5, <2>6, <2>7 DEF IsGrouping, q, G
<1>6. CASE found # {}
  <2> DEFINE m == Min(found)
             x == [gs[m] EXCEPT !.indices = Append(@, n + 1)]
  <2>1. m \in 1 .. N /\ gs[m].header = key[n + 1]
    <3>1. found \subseteq Nat
      BY <1>1
    <3>2. m \in found
      <4> HIDE DEF found
      <4>1. QED
        BY <1>6, <3>1, MinOfNats
    <3>3. QED
      BY <1>1, <3>2
  <2>2. q = [gs EXCEPT ![m] = x]
    BY <1>6 DEF Join
  <2> HIDE DEF m, found
  <2>3. /\ x \in G /\ x.header = key[n + 1] /\ Len(x.indices) = Len(gs[m].indices) + 1
        /\ \A k \in 1 .. Len(gs[m].indices) : x.indices[k] = gs[m].indices[k]
        /\ x.indices[Len(gs[m].indices) + 1] = n + 1
    <3>1. /\ gs[m].indices \in Seq(1 .. n)
          /\ gs[m] = [header |-> gs[m].header, indices |-> gs[m].indices]
      BY <1>2, <2>1, GroupParts
    <3> DEFINE s == gs[m].indices
               t == Append(s, n + 1)
    <3> HIDE DEF s, t, G
    <3>2. /\ t \in Seq(1 .. n + 1) /\ Len(t) = Len(s) + 1 /\ t[Len(s) + 1] = n + 1
          /\ \A k \in 1 .. Len(s) : t[k] = s[k]
      BY <3>1, AppendIndex DEF s, t
    <3>3. x = [header |-> gs[m].header, indices |-> t]
      <4>1. \A y, z, h, u : y = [header |-> h, indices |-> u] =>
                              [y EXCEPT !.indices = z] = [header |-> h, indices |-> z]
        OBVIOUS
      <4>2. x = [gs[m] EXCEPT !.indices = t]
        BY DEF s, t
      <4> HIDE DEF x
      <4>3. QED
        BY <3>1, <4>1, <4>2
    <3>4. key[n + 1] = gs[m].header
      BY <2>1
    <3>5. x \in G
      <4>1. [header |-> key[n + 1], indices |-> t] \in G
        BY <1>3, <3>2, MoreGroups DEF G
      <4>2. QED
        BY <3>3, <3>4, <4>1
    <3> HIDE DEF x
    <3>6. x.header = key[n + 1] /\ x.indices = t
      BY <3>3, <3>4
    <3>7. QED
      BY <3>2, <3>5, <3>6 DEF s
  <2> HIDE DEF x, G, q
  <2>4. q \in Seq(G) /\ Len(q) = N /\ q[m] = x /\ \A g \in 1 .. N : g # m => q[g] = gs[g]
    BY <1>1, <1>4, <2>1, <2>2, <2>3
  <2>5. \A g \in 1 .. N : q[g].header = gs[g].header
    BY <2>1, <2>3, <2>4
  <2>6. \A g, h \in 1 .. Len(q) : q[g].header = q[h].header => g = h
    BY <2>4, <2>5 DEF IsGrouping
  <2>7. Len(gs[m].indices) \in Nat
    BY <1>2, <2>1
  <2>8. ASSUME NEW i \in 1 .. n + 1
        PROVE  \E g \in 1 .. Len(q) : \E k \in 1 .. Len(q[g].indices) : q[g].indices[k] = i
    <3>1. CASE i = n + 1
      <4>1. /\ m \in 1 .. Len(q) /\ Len(gs[m].indices) + 1 \in 1 .. Len(q[m].indices)
            /\ q[m].indices[Len(gs[m].indices) + 1] = i
        BY <2>1, <2>3, <2>4, <2>7, <3>1
      <4>2. QED
        BY <4>1
    <3>2. CASE i # n + 1
      <4>0. i \in 1 .. n
        BY <3>2
      <4>1. PICK g \in 1 .. N : \E k \in 1 .. Len(gs[g].indices) : gs[g].indices[k] = i
        BY <1>0, <4>0, Zenon
      <4>2. CASE g = m
        <5>1. PICK k \in 1 .. Len(gs[m].indices) : gs[m].indices[k] = i
          BY <4>1, <4>2
        <5>2. /\ m \in 1 .. Len(q) /\ k \in 1 .. Len(q[m].indices)
              /\ q[m].indices[k] = i
          BY <2>1, <2>3, <2>4, <2>7, <5>1
        <5>3. QED
          BY <5>2
      <4>3. CASE g # m
        <5>1. g \in 1 .. Len(q) /\ q[g] = gs[g]
          BY <2>4, <4>3
        <5>2. QED
          BY <4>1, <5>1
      <4>4. QED
        BY <4>2, <4>3
    <3>3. QED
      BY <3>1, <3>2
  <2>9. ASSUME NEW g \in 1 .. Len(q)
        PROVE  /\ \A k \in 1 .. Len(q[g].indices) : key[q[g].indices[k]] = q[g].header
               /\ \A j, k \in 1 .. Len(q[g].indices) : j < k => q[g].indices[j] < q[g].indices[k]
    <3>1. CASE g = m
      <4> DEFINE L == Len(gs[m].indices)
                 s == gs[m].indices
                 t == q[m].indices
      <4>1. /\ L \in Nat /\ Len(t) = L + 1 /\ t[L + 1] = n + 1
            /\ \A k \in 1 .. L : t[k] = s[k]
        BY <2>3, <2>4, <2>7
      <4>2. \A k \in 1 .. L : s[k] \in 1 .. n
        BY <1>2, <2>1
      <4>3. /\ \A k \in 1 .. L : key[s[k]] = gs[m].header
            /\ \A j, k \in 1 .. L : j < k => s[j] < s[k]
        BY <2>1 DEF IsGrouping
      <4>4. q[m].header = key[n + 1] /\ gs[m].header = key[n + 1]
        BY <2>1, <2>3, <2>4
      <4> HIDE DEF L, s, t
      <4>5. \A k \in 1 .. Len(t) : key[t[k]] = q[m].header
        BY <4>1, <4>3, <4>4
      <4>6. \A j, k \in 1 .. Len(t) : j < k => t[j] < t[k]
        BY <4>1, <4>2, <4>3
      <4>7. QED
        BY <3>1, <4>5, <4>6 DEF t
    <3>2. CASE g # m
      <4>1. g \in 1 .. N /\ q[g] = gs[g]
        BY <2>4, <3>2
      <4>2. QED
        BY <4>1 DEF IsGrouping
    <3>3. QED
      BY <3>1, <3>2
  <2>10. QED
    BY <2>4, <2>6, <2>8, <2>9 DEF IsGrouping, q, G
<1>7. QED
  BY <1>5, <1>6

LEMMA GroupedIsGrouping ==
  ASSUME NEW rs, Len(rs) \in Nat
  PROVE  IsGrouping(Grouped(rs), [i \in 1 .. Len(rs) |-> Fold(rs[i].header)], Len(rs))
<1> DEFINE key == [i \in 1 .. Len(rs) |-> Fold(rs[i].header)]
<1>1. PICK g : /\ Grouped(rs) = g[Len(rs)] /\ g[0] = <<>>
               /\ \A i \in 1 .. Len(rs) : g[i] = Join(g[i - 1], i, Fold(rs[i].header))
  BY GroupedUnfolds
<1> DEFINE I == {n \in Nat : n <= Len(rs) => IsGrouping(g[n], key, n)}
<1>2. 0 \in I
  <2>1. <<>> \in Seq(Group(key, 0)) /\ Len(<<>>) = 0 /\ 1 .. 0 = {}
    OBVIOUS
  <2> HIDE DEF key
  <2>2. IsGrouping(<<>>, key, 0)
    BY <2>1 DEF IsGrouping
  <2>3. QED
    BY <1>1, <2>2
<1>3. ASSUME NEW n \in I PROVE n + 1 \in I
  <2>1. n \in Nat /\ n + 1 \in Nat
    OBVIOUS
  <2>2. ASSUME n + 1 <= Len(rs) PROVE IsGrouping(g[n + 1], key, n + 1)
    <3>1. n <= Len(rs) /\ n + 1 \in 1 .. Len(rs) /\ n + 1 - 1 = n
      BY <2>1, <2>2
    <3>2. IsGrouping(g[n], key, n)
      BY <3>1
    <3>3. g[n + 1] = Join(g[n], n + 1, key[n + 1])
      BY <1>1, <3>1
    <3> HIDE DEF key, I
    <3>4. IsGrouping(Join(g[n], n + 1, key[n + 1]), key, n + 1)
      BY <2>1, <3>2, JoinGroups
    <3>5. QED
      BY <3>3, <3>4
  <2>3. QED
    BY <2>1, <2>2
<1>4. I = Nat
  <2> HIDE DEF I
  <2>1. QED
    BY <1>2, <1>3, NatClosure DEF I
<1>5. IsGrouping(g[Len(rs)], key, Len(rs))
  <2> HIDE DEF key
  <2>1. QED
    BY <1>4
<1>6. QED
  BY <1>1, <1>5

LEMMA PlanMade ==
  ASSUME IsRuleset(rules), GroupByHeader
  PROVE  PlanFitsRules'
<1> DEFINE key == [i \in 1 .. Len(rules) |-> Fold(rules[i].header)]
           p == Grouped(rules)
           n == Len(rules)
<1>1. n \in Nat /\ DOMAIN rules = 1 .. n
  BY RulesetIsSequence
<1>2. IsGrouping(p, key, n)
  BY <1>1, GroupedIsGrouping
<1>3. \A i \in 1 .. n : key[i] = Fold(rules[i].header)
  OBVIOUS
<1>4. rules' = rules /\ plan' = p
  BY DEF GroupByHeader
<1> HIDE DEF key, p
<1>5. DOMAIN p = 1 .. Len(p)
  BY <1>2 DEF IsGrouping
<1>6. \A g \in 1 .. Len(p) : /\ DOMAIN p[g].indices = 1 .. Len(p[g].indices)
                             /\ \A k \in 1 .. Len(p[g].indices) : p[g].indices[k] \in 1 .. n
  <2>1. \A g \in 1 .. Len(p) : p[g] \in Group(key, n)
    BY <1>2 DEF IsGrouping
  <2>2. QED
    BY <2>1, GroupParts
<1>7. \A g, h \in DOMAIN p : p[g].header = p[h].header => g = h
  BY <1>2, <1>5 DEF IsGrouping
<1>8. \A i \in DOMAIN rules : \E g \in DOMAIN p : i \in ToSet(p[g].indices)
  <2>1. \A i \in 1 .. n : \E g \in 1 .. Len(p) : \E k \in 1 .. Len(p[g].indices) : p[g].indices[k] = i
    BY <1>2 DEF IsGrouping
  <2>2. \A g \in 1 .. Len(p) : \A k \in 1 .. Len(p[g].indices) : p[g].indices[k] \in ToSet(p[g].indices)
    BY <1>6 DEF ToSet
  <2>3. QED
    BY <1>1, <1>5, <2>1, <2>2
<1>9. ASSUME NEW g \in DOMAIN p
      PROVE  /\ \A i \in ToSet(p[g].indices) : i \in DOMAIN rules /\ Fold(rules[i].header) = p[g].header
             /\ \A j, k \in DOMAIN p[g].indices : j < k => p[g].indices[j] < p[g].indices[k]
  <2>1. \A k \in 1 .. Len(p[g].indices) : key[p[g].indices[k]] = p[g].header
    BY <1>2, <1>5 DEF IsGrouping
  <2>2. \A i \in ToSet(p[g].indices) : i \in DOMAIN rules /\ Fold(rules[i].header) = p[g].header
    <3>1. ASSUME NEW i \in ToSet(p[g].indices)
          PROVE  i \in DOMAIN rules /\ Fold(rules[i].header) = p[g].header
      <4>1. PICK k \in 1 .. Len(p[g].indices) : i = p[g].indices[k]
        BY <1>5, <1>6 DEF ToSet
      <4>2. i \in 1 .. n /\ key[i] = p[g].header
        BY <1>5, <1>6, <2>1, <4>1
      <4>3. QED
        BY <1>1, <1>3, <4>2
    <3>2. QED
      BY <3>1
  <2>3. \A j, k \in DOMAIN p[g].indices : j < k => p[g].indices[j] < p[g].indices[k]
    <3>1. \A j, k \in 1 .. Len(p[g].indices) : j < k => p[g].indices[j] < p[g].indices[k]
      BY <1>2, <1>5 DEF IsGrouping
    <3>2. DOMAIN p[g].indices = 1 .. Len(p[g].indices)
      BY <1>5, <1>6
    <3> DEFINE t == p[g].indices
    <3> HIDE DEF t
    <3>3. \A j, k \in DOMAIN t : j < k => t[j] < t[k]
      BY <3>1, <3>2 DEF t
    <3>4. QED
      BY <3>3 DEF t
  <2>4. QED
    BY <2>2, <2>3
<1>10. QED
  BY <1>4, <1>7, <1>8, <1>9 DEF PlanFitsRules

-----------------------------------------------------------------------------
\* What the rounds keep of the ruleset, and the plan made of what is left.
RulesInv ==
  /\ source \in Sources /\ IsRuleset(source)
  /\ Keeps(rules, source)
  /\ PlanFitsRules

LEMMA InitRulesInv == Init => RulesInv
<1> SUFFICES ASSUME Init PROVE RulesInv
  OBVIOUS
<1>1. source \in Sources /\ IsRuleset(source) /\ rules = source
  BY OptimizerAssumption DEF Init
<1>2. Keeps(rules, source)
  BY <1>1, RulesetIsSequence DEF Keeps
<1>3. pass # "done"
  BY ChainIsPasses DEF Init
<1>4. QED
  BY <1>1, <1>2, <1>3 DEF RulesInv, PlanFitsRules

LEMMA RunKeepsRulesInv ==
  ASSUME RulesInv, NEW p \in Passes4, NEW next \in Passes4 \cup {"end of round"}, Run(p, next)
  PROVE  RulesInv'
<1>1. rules' = After(p, rules) /\ source' = source /\ pass' = next
  BY DEF Run
<1>2. Keeps(After(p, rules), rules) /\ Keeps(rules, source)
  BY PassesKeep DEF RulesInv, Keeps
<1>3. Keeps(rules', source)
  BY <1>1, <1>2, KeepsAgain DEF RulesInv
<1>4. pass' # "done"
  BY <1>1 DEF Passes4
<1>5. QED
  BY <1>1, <1>3, <1>4 DEF RulesInv, PlanFitsRules

LEMMA NextRulesInv ==
  ASSUME RulesInv, [Next]_vars
  PROVE  RulesInv'
<1>1. CASE Deduplicate \/ EliminateDeadCode \/ SimplifyPatterns \/ MergeRules
  BY <1>1, RunKeepsRulesInv
  DEF Deduplicate, EliminateDeadCode, SimplifyPatterns, MergeRules, Passes4
<1>2. CASE EndRound
  <2>1. UNCHANGED <<source, rules>> /\ pass' # "done"
    BY <1>2, ChainIsPasses DEF EndRound
  <2>2. QED
    BY <2>1 DEF RulesInv, PlanFitsRules
<1>3. CASE GroupByHeader
  <2>1. UNCHANGED <<source, rules>>
    BY <1>3 DEF GroupByHeader
  <2>2. PlanFitsRules'
    BY <1>3, PlanMade DEF RulesInv, Keeps
  <2>3. QED
    BY <2>1, <2>2 DEF RulesInv
<1>4. CASE UNCHANGED vars
  BY <1>4 DEF vars, RulesInv, PlanFitsRules
<1>5. QED
  BY <1>1, <1>2, <1>3, <1>4 DEF Next

LEMMA RulesInvHolds == Spec => []RulesInv
<1>1. RulesInv /\ [Next]_vars => RulesInv'
  BY NextRulesInv
<1>2. QED
  BY InitRulesInv, <1>1, PTL DEF Spec

\* "Two identical `add` rules legitimately insert two headers" (optimizer.cpp:
\* 22-23), for any ruleset and any number of rounds: no pass drops, doubles,
\* reorders or fuses a rule that adds a header.
THEOREM AddsSurvive == Spec => []AddsAreKept
<1>1. RulesInv => AddsAreKept
  BY DEF RulesInv, Keeps, AddsAreKept
<1>2. QED
  BY RulesInvHolds, <1>1, PTL

\* The plan the generators get (optimizer.hpp:6) is one of the rules that are
\* left: each is in a group, and in that of its header only.
THEOREM PlanIsOfWhatIsLeft == Spec => []PlanFitsRules
<1>1. RulesInv => PlanFitsRules
  BY DEF RulesInv
<1>2. QED
  BY RulesInvHolds, <1>1, PTL
-----------------------------------------------------------------------------
(* Header sections *)

\* Fields, none of which has a name of N.
IsFields(f, N) ==
  /\ f \in Seq(ToSet(f))
  /\ \A x \in ToSet(f) : DOMAIN x = {"name", "value"} /\ \A n \in N : ~SameName(x.name, n)

LEMMA FieldsAre ==
  ASSUME NEW f, NEW N, IsFields(f, N)
  PROVE  /\ Len(f) \in Nat /\ DOMAIN f = 1 .. Len(f)
         /\ \A i \in 1 .. Len(f) : /\ f[i] \in ToSet(f) /\ DOMAIN f[i] = {"name", "value"}
                                   /\ \A n \in N : ~SameName(f[i].name, n)
BY DEF IsFields, ToSet

LEMMA FieldsIn ==
  ASSUME NEW S, NEW f \in Seq(S), NEW N,
         \A x \in S : DOMAIN x = {"name", "value"} /\ \A n \in N : ~SameName(x.name, n)
  PROVE  IsFields(f, N)
<1>1. ToSet(f) \subseteq S /\ f \in [1 .. Len(f) -> ToSet(f)] /\ Len(f) \in Nat
  BY DEF ToSet
<1>2. QED
  BY <1>1, FunctionIsSeq DEF IsFields

LEMMA PositionIs ==
  ASSUME NEW f, NEW N, IsFields(f, N), NEW n
  PROVE  /\ Position(f, n) \in 0 .. Len(f)
         /\ Position(f, n) = 0 => \A i \in 1 .. Len(f) : ~SameName(f[i].name, n)
         /\ Position(f, n) # 0 => SameName(f[Position(f, n)].name, n)
<1> DEFINE I == {i \in 1 .. Len(f) : SameName(f[i].name, n)}
<1>1. Position(f, n) = IF I # {} THEN Min(I) ELSE 0
  BY DEF Position, SelectInSeq
<1>2. Len(f) \in Nat /\ I \subseteq Nat /\ I \subseteq 1 .. Len(f)
  BY FieldsAre
<1>3. I # {} => Min(I) \in I
  BY <1>2, MinOfNats
<1>4. \A i \in I : SameName(f[i].name, n)
  OBVIOUS
<1>5. I = {} => \A i \in 1 .. Len(f) : ~SameName(f[i].name, n)
  OBVIOUS
<1> HIDE DEF I
<1>6. CASE I = {}
  <2>1. Position(f, n) = 0 /\ 0 \in 0 .. Len(f)
    BY <1>1, <1>2, <1>6
  <2>2. QED
    BY <1>5, <1>6, <2>1
<1>7. CASE I # {}
  <2>1. Position(f, n) = Min(I)
    BY <1>1, <1>7
  <2>2. Min(I) \in I /\ Min(I) \in 1 .. Len(f)
    BY <1>2, <1>3, <1>7
  <2>3. Position(f, n) # 0 /\ Position(f, n) \in 0 .. Len(f)
    BY <1>2, <2>1, <2>2
  <2>4. QED
    BY <1>4, <2>1, <2>2, <2>3
<1>8. QED
  BY <1>6, <1>7

\* A position depends on the names only.
LEMMA PositionByNames ==
  ASSUME NEW f, NEW g, NEW n, Len(f) = Len(g), \A i \in 1 .. Len(f) : f[i].name = g[i].name
  PROVE  Position(f, n) = Position(g, n)
<1>1. {i \in 1 .. Len(f) : SameName(f[i].name, n)} = {i \in 1 .. Len(g) : SameName(g[i].name, n)}
  OBVIOUS
<1>2. QED
  BY <1>1 DEF Position, SelectInSeq

LEMMA AddedFields ==
  ASSUME NEW f, NEW N, IsFields(f, N), NEW n, \A m \in N : ~SameName(n, m), NEW t
  PROVE  IsFields(Added(f, n, t), N)
<1> DEFINE x == [name |-> n, value |-> t]
           S == ToSet(f) \cup {x}
<1>1. f \in Seq(ToSet(f)) /\ \A y \in ToSet(f) : DOMAIN y = {"name", "value"} /\ \A m \in N : ~SameName(y.name, m)
  BY DEF IsFields
<1>2. DOMAIN x = {"name", "value"} /\ \A m \in N : ~SameName(x.name, m)
  OBVIOUS
<1>3. f \in Seq(S)
  <2>1. f \in [1 .. Len(f) -> ToSet(f)] /\ Len(f) \in Nat
    BY <1>1
  <2>2. f \in [1 .. Len(f) -> S]
    BY <2>1
  <2> HIDE DEF S
  <2>3. QED
    BY <2>1, <2>2, FunctionIsSeq
<1>4. x \in S /\ \A y \in S : DOMAIN y = {"name", "value"} /\ \A m \in N : ~SameName(y.name, m)
  BY <1>1, <1>2
<1>5. Added(f, n, t) = Append(f, x)
  BY DEF Added
<1> HIDE DEF x, S
<1>6. Append(f, x) \in Seq(S)
  BY <1>3, <1>4
<1>7. QED
  BY <1>4, <1>5, <1>6, FieldsIn

\* Put, where there is a field of the name.
Rewritten(f, p, t) == [f EXCEPT ![p].value = t]

LEMMA ReplacedFields ==
  ASSUME NEW f, NEW N, IsFields(f, N), NEW p \in 1 .. Len(f), NEW t
  PROVE  /\ IsFields(Rewritten(f, p, t), N) /\ Len(Rewritten(f, p, t)) = Len(f)
         /\ Rewritten(Rewritten(f, p, t), p, t) = Rewritten(f, p, t)
         /\ \A i \in 1 .. Len(f) : Rewritten(f, p, t)[i].name = f[i].name
<1> DEFINE x == [f[p] EXCEPT !.value = t]
           g == [f EXCEPT ![p].value = t]
           S == ToSet(f) \cup {x}
<1>1. /\ Len(f) \in Nat /\ DOMAIN f = 1 .. Len(f) /\ f \in Seq(ToSet(f))
      /\ \A i \in 1 .. Len(f) : /\ f[i] \in ToSet(f) /\ DOMAIN f[i] = {"name", "value"}
                                /\ \A n \in N : ~SameName(f[i].name, n)
      /\ \A y \in ToSet(f) : DOMAIN y = {"name", "value"} /\ \A n \in N : ~SameName(y.name, n)
  BY FieldsAre DEF IsFields
<1>2. DOMAIN x = {"name", "value"} /\ x.name = f[p].name /\ x.value = t /\ [x EXCEPT !.value = t] = x
  BY <1>1
<1>3. g = [f EXCEPT ![p] = x] /\ DOMAIN g = 1 .. Len(f) /\ g[p] = x
      /\ \A i \in 1 .. Len(f) : i # p => g[i] = f[i]
  BY <1>1
<1> HIDE DEF x, g
<1>4. g \in [1 .. Len(f) -> S]
  BY <1>1, <1>3
<1>5. [g EXCEPT ![p].value = t] = g
  <2>1. [g EXCEPT ![p].value = t] = [g EXCEPT ![p] = [g[p] EXCEPT !.value = t]]
    OBVIOUS
  <2>2. [g[p] EXCEPT !.value = t] = g[p]
    BY <1>2, <1>3
  <2>3. g = [i \in DOMAIN g |-> g[i]]
    BY <1>3
  <2>4. [g EXCEPT ![p] = g[p]] = g
    BY <2>3
  <2>5. QED
    BY <2>1, <2>2, <2>4
<1>6. \A i \in 1 .. Len(f) : g[i].name = f[i].name
  BY <1>2, <1>3
<1>7. \A y \in S : DOMAIN y = {"name", "value"} /\ \A n \in N : ~SameName(y.name, n)
  <2>1. \A n \in N : ~SameName(x.name, n)
    BY <1>1, <1>2
  <2>2. QED
    BY <1>1, <1>2, <2>1
<1> HIDE DEF S
<1>8. g \in Seq(S) /\ Len(g) = Len(f)
  <2>1. Len(f) \in Nat
    BY <1>1
  <2>2. QED
    BY <1>4, <2>1, FunctionIsSeq
<1>9. IsFields(g, N)
  BY <1>7, <1>8, FieldsIn
<1>10. QED
  BY <1>5, <1>6, <1>8, <1>9 DEF g, Rewritten

LEMMA PutFields ==
  ASSUME NEW f, NEW N, IsFields(f, N), NEW n, \A m \in N : ~SameName(n, m), NEW t
  PROVE  IsFields(Put(f, n, t), N)
<1>1. CASE Position(f, n) = 0
  BY <1>1, AddedFields DEF Put
<1>2. CASE Position(f, n) # 0
  <2> DEFINE p == Position(f, n)
             g == Put(f, n, t)
  <2>1. p \in 1 .. Len(f)
    BY <1>2, PositionIs, FieldsAre
  <2>2. g = Rewritten(f, p, t)
    BY <1>2 DEF Put, Rewritten
  <2> HIDE DEF p, g
  <2>3. IsFields(g, N)
    BY <2>1, <2>2, ReplacedFields
  <2>4. QED
    BY <2>3 DEF g
<1>3. QED
  BY <1>1, <1>2

\* The same text again changes nothing.
LEMMA PutAgain ==
  ASSUME NEW f, NEW N, IsFields(f, N), NEW n, SameName(n, n), NEW t
  PROVE  Put(Put(f, n, t), n, t) = Put(f, n, t)
<1>0. IsFields(f, {})
  BY DEF IsFields
<1> DEFINE g == Put(f, n, t)
<1>1. CASE Position(f, n) = 0
  <2> DEFINE p == Len(f) + 1
             x == [name |-> n, value |-> t]
  <2>1. g = Append(f, x) /\ IsFields(g, {}) /\ Len(f) \in Nat
    BY <1>0, <1>1, AddedFields, FieldsAre DEF Put, Added
  <2>2. /\ Len(g) = p /\ g[p] = x /\ \A i \in 1 .. Len(f) : g[i] = f[i]
    BY <1>0, <2>1, FieldsAre DEF IsFields
  <2>3. \A i \in 1 .. Len(f) : ~SameName(f[i].name, n)
    BY <1>0, <1>1, PositionIs
  <2>4. /\ Position(g, n) \in 0 .. p
        /\ Position(g, n) # 0 => SameName(g[Position(g, n)].name, n)
        /\ Position(g, n) = 0 => \A i \in 1 .. p : ~SameName(g[i].name, n)
    BY <2>1, <2>2, PositionIs
  <2>5. Position(g, n) = p
    <3>1. SameName(g[p].name, n)
      BY <2>2
    <3>2. Position(g, n) # 0
      BY <2>1, <2>4, <3>1
    <3>3. Position(g, n) \notin 1 .. Len(f)
      BY <2>2, <2>3, <2>4, <3>2
    <3> HIDE DEF g
    <3>4. Position(g, n) \in 0 .. Len(f) + 1 /\ Len(f) \in Nat
      BY <2>1, <2>4
    <3>5. QED
      BY <3>2, <3>3, <3>4
  <2>6. Put(g, n, t) = [g EXCEPT ![p].value = t]
    BY <2>1, <2>5 DEF Put
  <2>7. [x EXCEPT !.value = t] = x
    OBVIOUS
  <2>8. [g EXCEPT ![p].value = t] = [g EXCEPT ![p] = [g[p] EXCEPT !.value = t]]
    OBVIOUS
  <2>9. g = [i \in DOMAIN g |-> g[i]]
    BY <2>1, FieldsAre DEF IsFields
  <2> HIDE DEF g, x
  <2>10. [g EXCEPT ![p] = g[p]] = g
    BY <2>9
  <2>11. [g[p] EXCEPT !.value = t] = g[p]
    BY <2>2, <2>7
  <2>12. Put(g, n, t) = g
    BY <2>6, <2>8, <2>10, <2>11
  <2>13. QED
    BY <2>12 DEF g
<1>2. CASE Position(f, n) # 0
  <2> DEFINE p == Position(f, n)
  <2>1. p \in 1 .. Len(f)
    BY <1>2, PositionIs, FieldsAre
  <2>2. g = Rewritten(f, p, t)
    BY <1>2 DEF Put, Rewritten
  <2> HIDE DEF g
  <2>3. /\ Rewritten(g, p, t) = g /\ Len(g) = Len(f)
        /\ \A i \in 1 .. Len(f) : g[i].name = f[i].name
    <3> HIDE DEF p
    <3>1. QED
      BY <2>1, <2>2, ReplacedFields
  <2>4. Position(g, n) = p
    BY <2>3, PositionByNames
  <2>5. Put(g, n, t) = Rewritten(g, p, t)
    BY <1>2, <2>4 DEF Put, Rewritten
  <2>6. Put(g, n, t) = g
    BY <2>3, <2>5
  <2>7. QED
    BY <2>6 DEF g
<1>3. QED
  BY <1>1, <1>2

\* Fields of other names are left alone.
LEMMA WithoutNothing ==
  ASSUME NEW f, NEW N, IsFields(f, N), NEW n, \A x \in ToSet(f) : ~SameName(x.name, n)
  PROVE  Without(f, n) = f
<1>1. \A i \in DOMAIN f : ~SameName(f[i].name, n)
  BY FieldsAre
<1>2. [i \in DOMAIN f |-> IF SameName(f[i].name, n) THEN <<>> ELSE <<f[i]>>] = [i \in DOMAIN f |-> <<f[i]>>]
  BY <1>1
<1>3. f \in Seq(ToSet(f))
  BY DEF IsFields
<1>4. QED
  BY <1>2, <1>3, FlattenSingletons DEF Without

LEMMA WithoutFields ==
  ASSUME NEW f, NEW N, IsFields(f, N), NEW n
  PROVE  IsFields(Without(f, n), N) /\ Without(Without(f, n), n) = Without(f, n)
<1> DEFINE S == {x \in ToSet(f) : ~SameName(x.name, n)}
           w == [i \in DOMAIN f |-> IF SameName(f[i].name, n) THEN <<>> ELSE <<f[i]>>]
<1>1. Len(f) \in Nat /\ DOMAIN f = 1 .. Len(f) /\ \A i \in 1 .. Len(f) : f[i] \in ToSet(f)
  BY FieldsAre
<1>2. w \in Seq(Seq(S))
  <2>1. ASSUME NEW i \in 1 .. Len(f) PROVE w[i] \in Seq(S)
    <3>1. CASE SameName(f[i].name, n)
      BY <1>1, <3>1
    <3>2. CASE ~SameName(f[i].name, n)
      <4>1. f[i] \in S /\ w[i] = <<f[i]>>
        BY <1>1, <3>2
      <4> HIDE DEF S, w
      <4>2. QED
        BY <4>1
    <3>3. QED
      BY <3>1, <3>2
  <2>2. w = [i \in 1 .. Len(f) |-> w[i]]
    BY <1>1
  <2> HIDE DEF w, S
  <2>3. w \in [1 .. Len(f) -> Seq(S)]
    BY <2>1, <2>2
  <2>4. QED
    BY <1>1, <2>3, FunctionIsSeq
<1>3. \A x \in S : DOMAIN x = {"name", "value"} /\ (\A m \in N : ~SameName(x.name, m)) /\ ~SameName(x.name, n)
  BY DEF IsFields
<1>4. Without(f, n) = FlattenSeq(w)
  BY DEF Without
<1> HIDE DEF w, S
<1>5. Without(f, n) \in Seq(S)
  BY <1>2, <1>4, FlattenType
<1>6. IsFields(Without(f, n), N) /\ ToSet(Without(f, n)) \subseteq S
  BY <1>3, <1>5, FieldsIn DEF ToSet
<1>7. QED
  BY <1>3, <1>6, WithoutNothing

-----------------------------------------------------------------------------
(* States that agree: alike, but for what was captured *)

\* A state of a comparison c: of a walk for c.message, in which no field has a
\* name of c.names and the tables find c.patterns.
IsState(s, c) ==
  /\ StateParts \subseteq DOMAIN s
  /\ s.request = c.message.request /\ s.method = c.message.method
  /\ IsFields(s.fields, c.names)
  /\ \A t \in c.patterns : s.patterns # <<>> /\ s.patterns[Number(s.patterns, t)] = t

\* They may differ in captures, if c ignores anything.
Agree(s, t, c) ==
  /\ IsState(s, c) /\ IsState(t, c)
  /\ s.fields = t.fields /\ s.keys = t.keys /\ s.patterns = t.patterns /\ s.slots = t.slots
  /\ s.logs = t.logs /\ s.verdict = t.verdict
  /\ c.ignored = {} => s.captures = t.captures

LEMMA AgreeSelf == ASSUME NEW c, NEW s, IsState(s, c) PROVE Agree(s, s, c)
BY DEF Agree

LEMMA AgreeBack == ASSUME NEW c, NEW s, NEW t, Agree(s, t, c) PROVE Agree(t, s, c)
BY DEF Agree

LEMMA AgreeOn ==
  ASSUME NEW c, NEW s, NEW t, NEW u, Agree(s, t, c), Agree(t, u, c)
  PROVE  Agree(s, u, c)
BY DEF Agree

\* What makes two agree again.
LEMMA AgreeIfSame ==
  ASSUME NEW c, NEW s, NEW t, Agree(s, t, c), NEW u, NEW v, DOMAIN u = DOMAIN s, DOMAIN v = DOMAIN t,
         u.request = s.request, v.request = t.request, u.method = s.method, v.method = t.method,
         u.keys = s.keys, v.keys = t.keys, u.patterns = s.patterns, v.patterns = t.patterns,
         u.fields = v.fields, IsFields(u.fields, c.names), u.slots = v.slots, u.logs = v.logs,
         u.verdict = v.verdict, c.ignored = {} => u.captures = v.captures
  PROVE  Agree(u, v, c)
<1>1. IsState(s, c) /\ IsState(t, c) /\ s.keys = t.keys /\ s.patterns = t.patterns
  BY DEF Agree
<1>2. IsState(u, c) /\ IsState(v, c)
  BY <1>1 DEF IsState
<1>3. QED
  BY <1>1, <1>2 DEF Agree

LEMMA EditsAgree ==
  ASSUME NEW c, NEW s, NEW t, Agree(s, t, c), NEW x
  PROVE  /\ IsFields(x, c.names) => Agree([s EXCEPT !.fields = x], [t EXCEPT !.fields = x], c)
         /\ Agree([s EXCEPT !.slots = x], [t EXCEPT !.slots = x], c)
         /\ Agree([s EXCEPT !.captures = x], [t EXCEPT !.captures = x], c)
         /\ Agree([s EXCEPT !.logs = x], [t EXCEPT !.logs = x], c)
         /\ Agree([s EXCEPT !.verdict = x], [t EXCEPT !.verdict = x], c)
<1>1. StateParts \subseteq DOMAIN s /\ StateParts \subseteq DOMAIN t /\ IsFields(s.fields, c.names)
  BY DEF Agree, IsState
<1>2. IsFields(x, c.names) => Agree([s EXCEPT !.fields = x], [t EXCEPT !.fields = x], c)
  <2> DEFINE u == [s EXCEPT !.fields = x]
             v == [t EXCEPT !.fields = x]
  <2>1. /\ DOMAIN u = DOMAIN s /\ DOMAIN v = DOMAIN t /\ u.request = s.request /\ v.request = t.request
        /\ u.method = s.method /\ v.method = t.method /\ u.keys = s.keys /\ v.keys = t.keys
        /\ u.patterns = s.patterns /\ v.patterns = t.patterns /\ u.fields = x /\ v.fields = x
        /\ u.slots = v.slots /\ u.logs = v.logs /\ u.verdict = v.verdict
        /\ (c.ignored = {} => u.captures = v.captures)
    BY <1>1 DEF Agree, StateParts
  <2> HIDE DEF u, v
  <2>2. IsFields(x, c.names) => Agree(u, v, c)
    BY <2>1, AgreeIfSame
  <2>3. QED
    BY <2>2 DEF u, v
<1>3. Agree([s EXCEPT !.slots = x], [t EXCEPT !.slots = x], c)
  <2> DEFINE u == [s EXCEPT !.slots = x]
             v == [t EXCEPT !.slots = x]
  <2>1. /\ DOMAIN u = DOMAIN s /\ DOMAIN v = DOMAIN t /\ u.request = s.request /\ v.request = t.request
        /\ u.method = s.method /\ v.method = t.method /\ u.keys = s.keys /\ v.keys = t.keys
        /\ u.patterns = s.patterns /\ v.patterns = t.patterns /\ u.fields = s.fields /\ v.fields = u.fields
        /\ u.slots = v.slots /\ u.logs = v.logs /\ u.verdict = v.verdict
        /\ (c.ignored = {} => u.captures = v.captures)
    BY <1>1 DEF Agree, StateParts
  <2> HIDE DEF u, v
  <2>2. Agree(u, v, c)
    BY <1>1, <2>1, AgreeIfSame
  <2>3. QED
    BY <2>2 DEF u, v
<1>4. Agree([s EXCEPT !.captures = x], [t EXCEPT !.captures = x], c)
  <2> DEFINE u == [s EXCEPT !.captures = x]
             v == [t EXCEPT !.captures = x]
  <2>1. /\ DOMAIN u = DOMAIN s /\ DOMAIN v = DOMAIN t /\ u.request = s.request /\ v.request = t.request
        /\ u.method = s.method /\ v.method = t.method /\ u.keys = s.keys /\ v.keys = t.keys
        /\ u.patterns = s.patterns /\ v.patterns = t.patterns /\ u.fields = s.fields /\ v.fields = u.fields
        /\ u.slots = v.slots /\ u.logs = v.logs /\ u.verdict = v.verdict
        /\ (c.ignored = {} => u.captures = v.captures)
    BY <1>1 DEF Agree, StateParts
  <2> HIDE DEF u, v
  <2>2. Agree(u, v, c)
    BY <1>1, <2>1, AgreeIfSame
  <2>3. QED
    BY <2>2 DEF u, v
<1>5. Agree([s EXCEPT !.logs = x], [t EXCEPT !.logs = x], c)
  <2> DEFINE u == [s EXCEPT !.logs = x]
             v == [t EXCEPT !.logs = x]
  <2>1. /\ DOMAIN u = DOMAIN s /\ DOMAIN v = DOMAIN t /\ u.request = s.request /\ v.request = t.request
        /\ u.method = s.method /\ v.method = t.method /\ u.keys = s.keys /\ v.keys = t.keys
        /\ u.patterns = s.patterns /\ v.patterns = t.patterns /\ u.fields = s.fields /\ v.fields = u.fields
        /\ u.slots = v.slots /\ u.logs = v.logs /\ u.verdict = v.verdict
        /\ (c.ignored = {} => u.captures = v.captures)
    BY <1>1 DEF Agree, StateParts
  <2> HIDE DEF u, v
  <2>2. Agree(u, v, c)
    BY <1>1, <2>1, AgreeIfSame
  <2>3. QED
    BY <2>2 DEF u, v
<1>6. Agree([s EXCEPT !.verdict = x], [t EXCEPT !.verdict = x], c)
  <2> DEFINE u == [s EXCEPT !.verdict = x]
             v == [t EXCEPT !.verdict = x]
  <2>1. /\ DOMAIN u = DOMAIN s /\ DOMAIN v = DOMAIN t /\ u.request = s.request /\ v.request = t.request
        /\ u.method = s.method /\ v.method = t.method /\ u.keys = s.keys /\ v.keys = t.keys
        /\ u.patterns = s.patterns /\ v.patterns = t.patterns /\ u.fields = s.fields /\ v.fields = u.fields
        /\ u.slots = v.slots /\ u.logs = v.logs /\ u.verdict = v.verdict
        /\ (c.ignored = {} => u.captures = v.captures)
    BY <1>1 DEF Agree, StateParts
  <2> HIDE DEF u, v
  <2>2. Agree(u, v, c)
    BY <1>1, <2>1, AgreeIfSame
  <2>3. QED
    BY <2>2 DEF u, v
<1>7. QED
  BY <1>2, <1>3, <1>4, <1>5, <1>6

\* An edit that leaves its part as it is, or changes captures that are ignored.
LEMMA EditOfNothing ==
  ASSUME NEW c, NEW s, IsState(s, c)
  PROVE  /\ \A x : x = s.fields => Agree([s EXCEPT !.fields = x], s, c)
         /\ \A x : x = s.slots => Agree([s EXCEPT !.slots = x], s, c)
         /\ \A x : c.ignored # {} => Agree([s EXCEPT !.captures = x], s, c)
<1>1. StateParts \subseteq DOMAIN s /\ IsFields(s.fields, c.names) /\ Agree(s, s, c)
  BY AgreeSelf DEF IsState
<1>2. ASSUME NEW u, DOMAIN u = DOMAIN s, \A k \in StateParts : k # "captures" => u[k] = s[k],
             u.captures = s.captures \/ c.ignored # {}
      PROVE  Agree(u, s, c)
  <2>1. /\ u.request = s.request /\ u.method = s.method /\ u.keys = s.keys /\ u.patterns = s.patterns
        /\ u.fields = s.fields /\ u.slots = s.slots /\ u.logs = s.logs /\ u.verdict = s.verdict
    BY <1>2 DEF StateParts
  <2>2. QED
    BY <1>1, <1>2, <2>1, AgreeIfSame
<1>3. ASSUME NEW x, x = s.fields PROVE Agree([s EXCEPT !.fields = x], s, c)
  <2> DEFINE u == [s EXCEPT !.fields = x]
  <2>1. /\ DOMAIN u = DOMAIN s /\ u.captures = s.captures
        /\ \A k \in StateParts : u[k] = s[k]
    BY <1>1, <1>3 DEF StateParts
  <2> HIDE DEF u
  <2>2. Agree(u, s, c)
    BY <1>2, <2>1
  <2>3. QED
    BY <2>2 DEF u
<1>4. ASSUME NEW x, x = s.slots PROVE Agree([s EXCEPT !.slots = x], s, c)
  <2> DEFINE u == [s EXCEPT !.slots = x]
  <2>1. /\ DOMAIN u = DOMAIN s /\ u.captures = s.captures
        /\ \A k \in StateParts : u[k] = s[k]
    BY <1>1, <1>4 DEF StateParts
  <2> HIDE DEF u
  <2>2. Agree(u, s, c)
    BY <1>2, <2>1
  <2>3. QED
    BY <2>2 DEF u
<1>5. ASSUME NEW x, c.ignored # {} PROVE Agree([s EXCEPT !.captures = x], s, c)
  <2> DEFINE u == [s EXCEPT !.captures = x]
  <2>1. /\ DOMAIN u = DOMAIN s
        /\ \A k \in StateParts : k # "captures" => u[k] = s[k]
    BY <1>1 DEF StateParts
  <2> HIDE DEF u
  <2>2. Agree(u, s, c)
    BY <1>2, <1>5, <2>1
  <2>3. QED
    BY <2>2 DEF u
<1>6. QED
  BY <1>3, <1>4, <1>5

LEMMA StoresAgree ==
  ASSUME NEW c, NEW s, NEW t, Agree(s, t, c), NEW k, NEW x
  PROVE  /\ Agree(StoreSlot(s, k, x), StoreSlot(t, k, x), c)
         /\ StoreSlot(s, k, x).captures = s.captures /\ StoreSlot(t, k, x).captures = t.captures
<1>1. s.slots = t.slots /\ s.keys = t.keys /\ StateParts \subseteq DOMAIN s /\ StateParts \subseteq DOMAIN t
  BY DEF Agree, IsState
<1>2. CASE s.slots = <<>>
  BY <1>1, <1>2 DEF StoreSlot
<1>3. CASE s.slots # <<>>
  <2> DEFINE f == [s.slots EXCEPT ![Number(s.keys, k)] = x]
  <2>1. StoreSlot(s, k, x) = [s EXCEPT !.slots = f] /\ StoreSlot(t, k, x) = [t EXCEPT !.slots = f]
    BY <1>1, <1>3 DEF StoreSlot
  <2> HIDE DEF f
  <2>2. Agree([s EXCEPT !.slots = f], [t EXCEPT !.slots = f], c)
    BY EditsAgree
  <2>3. [s EXCEPT !.slots = f].captures = s.captures /\ [t EXCEPT !.slots = f].captures = t.captures
    BY <1>1 DEF StateParts
  <2>4. QED
    BY <2>1, <2>2, <2>3
<1>4. QED
  BY <1>2, <1>3

\* A second store of the same text.
LEMMA StoredAgain ==
  ASSUME NEW c, NEW s, IsState(s, c), NEW k, NEW x
  PROVE  Agree(StoreSlot(StoreSlot(s, k, x), k, x), StoreSlot(s, k, x), c)
<1> DEFINE n == Number(s.keys, k)
           f == [s.slots EXCEPT ![n] = x]
           u == StoreSlot(s, k, x)
<1>1. StateParts \subseteq DOMAIN s /\ Agree(u, u, c)
  BY AgreeSelf, StoresAgree DEF IsState
<1>2. CASE s.slots = <<>>
  BY <1>1, <1>2 DEF StoreSlot
<1>3. CASE s.slots # <<>>
  <2>1. u = [s EXCEPT !.slots = f]
    BY <1>3 DEF StoreSlot
  <2>2. u.slots = f /\ u.keys = s.keys
    BY <1>1, <2>1 DEF StateParts
  <2>3. [f EXCEPT ![n] = x] = f
    OBVIOUS
  <2> HIDE DEF f
  <2>4. StoreSlot(u, k, x) = u \/ StoreSlot(u, k, x) = [u EXCEPT !.slots = f]
    <3> HIDE DEF u
    <3>1. QED
      BY <2>2, <2>3 DEF StoreSlot
  <2> HIDE DEF u
  <2>5. IsState(u, c)
    BY <1>1 DEF Agree
  <2>6. Agree(StoreSlot(u, k, x), u, c)
    BY <1>1, <2>2, <2>4, <2>5, EditOfNothing
  <2>7. QED
    BY <2>6 DEF u
<1>4. QED
  BY <1>2, <1>3

-----------------------------------------------------------------------------
(* Values, guards and stores in states that agree *)

LEMMA ValuesAgree ==
  ASSUME NEW c, NEW s, NEW t, Agree(s, t, c), NEW v, c.ignored = {} \/ ~ReadsCapture(v)
  PROVE  Eval(s, v) = Eval(t, v)
<1>0. s.slots = t.slots /\ s.keys = t.keys /\ (c.ignored = {} => s.captures = t.captures)
  BY DEF Agree
<1>1. ASSUME NEW i \in DOMAIN v PROVE SegmentText(s, v[i]) = SegmentText(t, v[i])
  <2>1. CASE v[i].kind = "capture"
    <3>1. s.captures = t.captures
      BY <1>0, <2>1 DEF ReadsCapture
    <3>2. Capture(s, v[i].index) = Capture(t, v[i].index)
      BY <3>1 DEF Capture
    <3>3. QED
      BY <2>1, <3>2 DEF SegmentText
  <2>2. CASE v[i].kind # "capture"
    <3>1. \A k : LoadSlot(s, k) = LoadSlot(t, k)
      BY <1>0 DEF LoadSlot
    <3>2. CASE v[i].kind = "slot"
      BY <3>1, <3>2 DEF SegmentText
    <3>3. CASE v[i].kind \in {"text", "variable"}
      BY <3>3 DEF SegmentText
    <3>4. CASE v[i].kind \notin {"text", "variable", "capture", "slot"}
      BY <3>4 DEF SegmentText
    <3>5. QED
      BY <2>2, <3>2, <3>3, <3>4
  <2>3. QED
    BY <2>1, <2>2
<1>2. [i \in DOMAIN v |-> SegmentText(s, v[i])] = [i \in DOMAIN v |-> SegmentText(t, v[i])]
  BY <1>1
<1>3. QED
  BY <1>2 DEF Eval

LEMMA ReasonsAgree ==
  ASSUME NEW c, NEW s, NEW t, Agree(s, t, c), NEW r, NEW q, r.new = q.new, r.name = q.name,
         c.ignored = {} \/ ~ReadsCapture(r.new)
  PROVE  Reason(s, r) = Reason(t, q)
<1>1. Eval(s, r.new) = Eval(t, r.new)
  BY ValuesAgree
<1>2. QED
  BY <1>1 DEF Reason

LEMMA GuardsAgree ==
  ASSUME NEW c, NEW s, NEW t, Agree(s, t, c), NEW cmp, NEW kind, NEW m, NEW x
  PROVE  /\ Passes(s, cmp, kind, m, x) <=> Passes(t, cmp, kind, m, x)
         /\ Agree(AfterGuard(s, cmp, m, x), AfterGuard(t, cmp, m, x), c)
         /\ AfterGuard(s, cmp, m, x).fields = s.fields /\ AfterGuard(s, cmp, m, x).verdict = s.verdict
         /\ cmp = "pattern" /\ ~Unconditional(m) =>
              AfterGuard(s, cmp, m, x).captures = AfterGuard(t, cmp, m, x).captures
<1>0. s.patterns = t.patterns /\ StateParts \subseteq DOMAIN s /\ StateParts \subseteq DOMAIN t
  BY DEF Agree, IsState
<1> DEFINE f == Searched(s, m, x)
<1>1. Searched(t, m, x) = f
  BY <1>0 DEF Searched
<1> HIDE DEF f
<1>2. Matched(s, cmp, kind, m, x) = Matched(t, cmp, kind, m, x)
  <2>1. CASE cmp = "pattern"
    BY <1>1, <2>1 DEF Matched, f
  <2>2. CASE cmp # "pattern" /\ kind # "any"
    BY <2>2 DEF Matched
  <2>3. CASE cmp = "insensitive" /\ kind = "any"
    BY <2>3 DEF Matched
  <2>4. CASE cmp \notin {"pattern", "insensitive"} /\ kind = "any"
    BY <2>4 DEF Matched
  <2>5. QED
    BY <2>1, <2>2, <2>3, <2>4
<1>3. Passes(s, cmp, kind, m, x) <=> Passes(t, cmp, kind, m, x)
  BY <1>2 DEF Passes
<1>4. CASE Unconditional(m) \/ cmp # "pattern"
  BY <1>3, <1>4 DEF AfterGuard
<1>5. CASE ~Unconditional(m) /\ cmp = "pattern"
  <2>1. AfterGuard(s, cmp, m, x) = [s EXCEPT !.captures = f] /\ AfterGuard(t, cmp, m, x) = [t EXCEPT !.captures = f]
    BY <1>1, <1>5 DEF AfterGuard, f
  <2>2. Agree([s EXCEPT !.captures = f], [t EXCEPT !.captures = f], c)
    BY EditsAgree
  <2>3. /\ [s EXCEPT !.captures = f].captures = [t EXCEPT !.captures = f].captures
        /\ [s EXCEPT !.captures = f].fields = s.fields /\ [s EXCEPT !.captures = f].verdict = s.verdict
    BY <1>0 DEF StateParts
  <2>4. QED
    BY <1>3, <2>1, <2>2, <2>3
<1>6. QED
  BY <1>4, <1>5

\* The groups go to the same slots, whatever is ignored.
LEMMA GroupsAgree ==
  ASSUME NEW c, NEW s, NEW t, Agree(s, t, c), s.captures = t.captures,
         NEW r, NEW i, NEW q, NEW j, Groups(r.match.text) \in Nat, r.match = q.match,
         RuleName(r, i) = RuleName(q, j)
  PROVE  Agree(StoreGroups(s, r, i), StoreGroups(t, q, j), c)
<1> DEFINE N == Groups(r.match.text) + 1
           u == AfterGroups(s, r, i)
           v == AfterGroups(t, q, j)
           Good(n) == Agree(u[n], v[n], c) /\ u[n].captures = s.captures /\ v[n].captures = s.captures
           I == {n \in Nat : n <= N => Good(n)}
<1>1. /\ u[0] = s /\ v[0] = t /\ N \in Nat
      /\ \A n \in 1 .. N : u[n] = StoreGroup(u[n - 1], r, i, n - 1) /\ v[n] = StoreGroup(v[n - 1], q, j, n - 1)
  BY AfterGroupsUnfolds
<1>2. StoreGroups(s, r, i) = u[N] /\ StoreGroups(t, q, j) = v[N]
  BY DEF StoreGroups
<1> HIDE DEF u, v, N
<1>3. 0 \in I
  BY <1>1
<1>4. ASSUME NEW n \in I PROVE n + 1 \in I
  <2>1. ASSUME n + 1 <= N PROVE Good(n + 1)
    <3>1. n + 1 \in 1 .. N /\ (n + 1) - 1 = n /\ n <= N
      BY <1>1, <2>1
    <3>2. Good(n)
      BY <3>1
    <3> DEFINE k == Key(RuleName(r, i), n)
               x == Capture(u[n], n)
    <3>3. u[n + 1] = StoreSlot(u[n], k, x) /\ v[n + 1] = StoreSlot(v[n], k, x)
      BY <1>1, <3>1, <3>2 DEF StoreGroup, Capture
    <3> HIDE DEF k, x
    <3>4. QED
      BY <3>2, <3>3, StoresAgree
  <2>2. QED
    BY <2>1
<1> HIDE DEF I
<1>5. I = Nat
  BY <1>3, <1>4, NatClosure DEF I
<1>6. Agree(u[N], v[N], c)
  <2>1. N \in I /\ N <= N
    BY <1>1, <1>5
  <2>2. QED
    BY <2>1 DEF I
<1>7. QED
  BY <1>2, <1>6

-----------------------------------------------------------------------------
(* Rules in states that agree *)

\* Two rules, at their places, whose own action is the same.
ActsAlike(r, i, q, j) ==
  /\ r.header = q.header /\ r.action = q.action /\ r.cmp = q.cmp /\ r.match = q.match
  /\ r.new = q.new /\ r.name = q.name /\ (SetsHeader(r) <=> SetsHeader(q))
  /\ r.action = "store" => RuleName(r, i) = RuleName(q, j)

\* A rule that writes no field of a name of c, and whose action reads no capture
\* of a rule before it if c ignores captures.
Heeds(r, c) ==
  /\ Groups(r.match.text) \in Nat
  /\ (\A n \in c.names : ~SameName(r.header, n)) \/ r.action \notin {"add", "replace", "manipulate"}
  /\ c.ignored # {} =>
       ~ReadsCapture(r.new) /\ (r.action = "store" /\ r.cmp = "pattern" => ~Unconditional(r.match))

\* The same of an element rule of r.
HeedsElement(r, e, c) ==
  (\A n \in c.names : ~SameName(r.header, n)) /\ (c.ignored # {} => ~ReadsCapture(e.new))

LEMMA FieldsAgree ==
  ASSUME NEW c, NEW s, NEW t, Agree(s, t, c), NEW n, NEW x
  PROVE  /\ s.fields = t.fields /\ IsFields(s.fields, c.names)
         /\ (\A m \in c.names : ~SameName(n, m)) =>
              IsFields(Added(s.fields, n, x), c.names) /\ IsFields(Put(s.fields, n, x), c.names)
         /\ IsFields(Without(s.fields, n), c.names)
<1>1. s.fields = t.fields /\ IsFields(s.fields, c.names)
  BY DEF Agree, IsState
<1>2. QED
  BY <1>1, AddedFields, PutFields, WithoutFields

LEMMA HeaderActAgrees ==
  ASSUME NEW c, NEW s, NEW t, Agree(s, t, c), NEW r, NEW i, NEW q, NEW j,
         ActsAlike(r, i, q, j), Heeds(r, c),
         r.action = "store" /\ r.cmp = "pattern" => s.captures = t.captures
  PROVE  Agree(HeaderAct(s, r, i), HeaderAct(t, q, j), c)
<1>1. /\ r.header = q.header /\ r.action = q.action /\ r.cmp = q.cmp /\ r.match = q.match
      /\ r.new = q.new /\ r.name = q.name /\ (SetsHeader(r) <=> SetsHeader(q))
      /\ (r.action = "store" => RuleName(r, i) = RuleName(q, j))
  BY DEF ActsAlike
<1>2. s.fields = t.fields /\ s.logs = t.logs
  BY DEF Agree
<1>3. Eval(s, r.new) = Eval(t, q.new) /\ Reason(s, r) = Reason(t, q)
  BY <1>1, ValuesAgree, ReasonsAgree DEF Heeds
<1> DEFINE n == r.header
           x == Eval(s, r.new)
<1>4. CASE r.action = "add"
  <2> DEFINE f == Added(s.fields, n, x)
  <2>1. /\ HeaderAct(s, r, i) = [s EXCEPT !.fields = Added(s.fields, r.header, Eval(s, r.new))]
        /\ HeaderAct(t, q, j) = [t EXCEPT !.fields = Added(t.fields, q.header, Eval(t, q.new))]
    BY <1>1, <1>4 DEF HeaderAct, SetsHeader
  <2>2. HeaderAct(s, r, i) = [s EXCEPT !.fields = f] /\ HeaderAct(t, q, j) = [t EXCEPT !.fields = f]
    BY <1>1, <1>2, <1>3, <2>1
  <2>3. IsFields(f, c.names)
    BY <1>4, FieldsAgree DEF Heeds
  <2> HIDE DEF f
  <2>4. Agree([s EXCEPT !.fields = f], [t EXCEPT !.fields = f], c)
    BY <2>3, EditsAgree
  <2>5. QED
    BY <2>2, <2>4
<1>5. CASE SetsHeader(r)
  <2> DEFINE f == Put(s.fields, n, x)
  <2>0. r.action # "add" /\ r.action # "store" /\ r.action \in {"replace", "manipulate"}
    BY <1>5 DEF SetsHeader
  <2>1. /\ HeaderAct(s, r, i) = [s EXCEPT !.fields = Put(s.fields, r.header, Eval(s, r.new))]
        /\ HeaderAct(t, q, j) = [t EXCEPT !.fields = Put(t.fields, q.header, Eval(t, q.new))]
    BY <1>1, <1>5, <2>0 DEF HeaderAct
  <2>2. HeaderAct(s, r, i) = [s EXCEPT !.fields = f] /\ HeaderAct(t, q, j) = [t EXCEPT !.fields = f]
    BY <1>1, <1>2, <1>3, <2>1
  <2>3. IsFields(f, c.names)
    BY <2>0, FieldsAgree DEF Heeds
  <2> HIDE DEF f
  <2>4. Agree([s EXCEPT !.fields = f], [t EXCEPT !.fields = f], c)
    BY <2>3, EditsAgree
  <2>5. QED
    BY <2>2, <2>4
<1>6. CASE r.action = "delete"
  <2> DEFINE f == Without(s.fields, n)
  <2>1. HeaderAct(s, r, i) = [s EXCEPT !.fields = f] /\ HeaderAct(t, q, j) = [t EXCEPT !.fields = f]
    BY <1>1, <1>2, <1>6 DEF HeaderAct, SetsHeader
  <2>2. IsFields(f, c.names)
    BY FieldsAgree
  <2> HIDE DEF f
  <2>3. Agree([s EXCEPT !.fields = f], [t EXCEPT !.fields = f], c)
    BY <2>2, EditsAgree
  <2>4. QED
    BY <2>1, <2>3
<1>7. CASE r.action = "store" /\ r.cmp = "pattern"
  <2>1. HeaderAct(s, r, i) = StoreGroups(s, r, i) /\ HeaderAct(t, q, j) = StoreGroups(t, q, j)
    BY <1>1, <1>7 DEF HeaderAct, SetsHeader
  <2>2. QED
    BY <1>1, <1>7, <2>1, GroupsAgree DEF Heeds
<1>8. CASE r.action = "store" /\ r.cmp # "pattern"
  <2> DEFINE k == Key(RuleName(r, i), 0)
             y == Value(s.fields, n)
  <2>1. HeaderAct(s, r, i) = StoreSlot(s, k, y) /\ HeaderAct(t, q, j) = StoreSlot(t, k, y)
    BY <1>1, <1>2, <1>8 DEF HeaderAct, SetsHeader
  <2> HIDE DEF k, y
  <2>2. QED
    BY <2>1, StoresAgree
<1>9. CASE r.action = "log"
  <2> DEFINE f == Append(s.logs, Reason(s, r))
  <2>1. HeaderAct(s, r, i) = [s EXCEPT !.logs = f] /\ HeaderAct(t, q, j) = [t EXCEPT !.logs = f]
    BY <1>1, <1>2, <1>3, <1>9 DEF HeaderAct, SetsHeader
  <2> HIDE DEF f
  <2>2. Agree([s EXCEPT !.logs = f], [t EXCEPT !.logs = f], c)
    BY EditsAgree
  <2>3. QED
    BY <2>1, <2>2
<1>10. CASE r.action = "reject"
  <2> DEFINE f == <<Reason(s, r)>>
  <2>1. HeaderAct(s, r, i) = [s EXCEPT !.verdict = f] /\ HeaderAct(t, q, j) = [t EXCEPT !.verdict = f]
    BY <1>1, <1>3, <1>10 DEF HeaderAct, SetsHeader
  <2> HIDE DEF f
  <2>2. Agree([s EXCEPT !.verdict = f], [t EXCEPT !.verdict = f], c)
    BY EditsAgree
  <2>3. QED
    BY <2>1, <2>2
<1>11. CASE r.action \notin {"add", "delete", "store", "log", "reject"} /\ ~SetsHeader(r)
  <2>1. HeaderAct(s, r, i) = s /\ HeaderAct(t, q, j) = t
    BY <1>1, <1>11 DEF HeaderAct
  <2>2. QED
    BY <2>1
<1>12. QED
  BY <1>4, <1>5, <1>6, <1>7, <1>8, <1>9, <1>10, <1>11

LEMMA ElementActAgrees ==
  ASSUME NEW c, NEW s, NEW t, Agree(s, t, c), NEW r, NEW q, NEW e, r.header = q.header,
         e.action = "store" => ElementName(r, e) = ElementName(q, e), HeedsElement(r, e, c)
  PROVE  Agree(ElementAct(s, r, e), ElementAct(t, q, e), c)
<1>1. s.fields = t.fields
  BY DEF Agree
<1>2. Eval(s, e.new) = Eval(t, e.new) /\ Reason(s, e) = Reason(t, e)
  BY ValuesAgree, ReasonsAgree DEF HeedsElement
<1>3. ASSUME NEW x
      PROVE  Agree(Rewrite(s, r, e, x), Rewrite(t, q, e, x), c)
  <2> DEFINE f == Put(s.fields, r.header, RebuildUri(Value(s.fields, r.header), e.type, x))
  <2>1. Rewrite(s, r, e, x) = [s EXCEPT !.fields = f] /\ Rewrite(t, q, e, x) = [t EXCEPT !.fields = f]
    BY <1>1 DEF Rewrite
  <2>2. IsFields(f, c.names)
    BY FieldsAgree DEF HeedsElement
  <2> HIDE DEF f
  <2>3. Agree([s EXCEPT !.fields = f], [t EXCEPT !.fields = f], c)
    BY <2>2, EditsAgree
  <2>4. QED
    BY <2>1, <2>3
<1>4. CASE e.action = "replace"
  <2>1. /\ ElementAct(s, r, e) = Rewrite(s, r, e, Eval(s, e.new))
        /\ ElementAct(t, q, e) = Rewrite(t, q, e, Eval(t, e.new))
    BY <1>4 DEF ElementAct
  <2>2. QED
    BY <1>2, <1>3, <2>1
<1>5. CASE e.action = "delete" /\ e.type = "whole"
  <2> DEFINE f == Without(s.fields, r.header)
  <2>1. ElementAct(s, r, e) = [s EXCEPT !.fields = f] /\ ElementAct(t, q, e) = [t EXCEPT !.fields = f]
    BY <1>1, <1>5 DEF ElementAct
  <2>2. IsFields(f, c.names)
    BY FieldsAgree
  <2> HIDE DEF f
  <2>3. Agree([s EXCEPT !.fields = f], [t EXCEPT !.fields = f], c)
    BY <2>2, EditsAgree
  <2>4. QED
    BY <2>1, <2>3
<1>6. CASE e.action = "delete" /\ e.type # "whole"
  <2>1. ElementAct(s, r, e) = Rewrite(s, r, e, <<>>) /\ ElementAct(t, q, e) = Rewrite(t, q, e, <<>>)
    BY <1>6 DEF ElementAct
  <2>2. QED
    BY <1>3, <2>1
<1>7. CASE e.action = "store"
  <2> DEFINE k == Key(ElementName(r, e), 0)
             x == ElementText(s, r, e)
  <2>1. ElementAct(s, r, e) = StoreSlot(s, k, x) /\ ElementAct(t, q, e) = StoreSlot(t, k, x)
    BY <1>1, <1>7 DEF ElementAct, ElementText
  <2> HIDE DEF k, x
  <2>2. QED
    BY <2>1, StoresAgree
<1>8. CASE e.action = "reject"
  <2> DEFINE f == <<Reason(s, e)>>
  <2>1. ElementAct(s, r, e) = [s EXCEPT !.verdict = f] /\ ElementAct(t, q, e) = [t EXCEPT !.verdict = f]
    BY <1>2, <1>8 DEF ElementAct
  <2> HIDE DEF f
  <2>2. Agree([s EXCEPT !.verdict = f], [t EXCEPT !.verdict = f], c)
    BY EditsAgree
  <2>3. QED
    BY <2>1, <2>2
<1>9. CASE e.action \notin {"replace", "delete", "store", "reject"}
  <2>1. ElementAct(s, r, e) = s /\ ElementAct(t, q, e) = t
    BY <1>9 DEF ElementAct
  <2>2. QED
    BY <2>1
<1>10. QED
  BY <1>4, <1>5, <1>6, <1>7, <1>8, <1>9

LEMMA ElementAgrees ==
  ASSUME NEW c, NEW s, NEW t, Agree(s, t, c), NEW r, NEW q, NEW e, r.header = q.header,
         e.action = "store" => ElementName(r, e) = ElementName(q, e), HeedsElement(r, e, c)
  PROVE  Agree(NextElement(s, r, e), NextElement(t, q, e), c)
<1> DEFINE x == ElementText(s, r, e)
           u == AfterGuard(s, e.cmp, e.match, x)
           v == AfterGuard(t, e.cmp, e.match, x)
<1>1. ElementText(t, q, e) = x
  BY DEF ElementText, Agree
<1>2. Agree(u, v, c) /\ (Passes(s, e.cmp, e.kind, e.match, x) <=> Passes(t, e.cmp, e.kind, e.match, x))
  <2> HIDE DEF x
  <2>1. QED
    BY GuardsAgree
<1>3. CASE Supported(e)
  <2>1. /\ RunElement(s, r, e) = IF Passes(s, e.cmp, e.kind, e.match, x) THEN ElementAct(u, r, e) ELSE u
        /\ RunElement(t, q, e) = IF Passes(t, e.cmp, e.kind, e.match, x) THEN ElementAct(v, q, e) ELSE v
    BY <1>1, <1>3 DEF RunElement
  <2> HIDE DEF u, v, x
  <2>2. Agree(ElementAct(u, r, e), ElementAct(v, q, e), c)
    BY <1>2, ElementActAgrees
  <2>3. Agree(RunElement(s, r, e), RunElement(t, q, e), c)
    BY <1>2, <2>1, <2>2
  <2>4. QED
    BY <2>3 DEF NextElement, Agree
<1>4. CASE ~Supported(e)
  <2>1. RunElement(s, r, e) = s /\ RunElement(t, q, e) = t
    BY <1>4 DEF RunElement
  <2>2. QED
    BY <2>1 DEF NextElement
<1>5. QED
  BY <1>3, <1>4

\* The element rules of two rules make of two such states two such states.
SameElementSteps(r, q, c) == \A s, t : Agree(s, t, c) => Agree(RunElements(s, r), RunElements(t, q), c)

\* What the action of a rule and its element rules make of two such states.
LEMMA BodiesAgree ==
  ASSUME NEW c, NEW u, NEW v, Agree(u, v, c), NEW r, NEW i, NEW q, NEW j, r.action = q.action,
         Agree(HeaderAct(u, r, i), HeaderAct(v, q, j), c),
         Len(r.elements) \in Nat, Len(q.elements) \in Nat,
         r.action # "reject" => SameElementSteps(r, q, c)
  PROVE  Agree(RunElements(HeaderAct(u, r, i), r), RunElements(HeaderAct(v, q, j), q), c)
<1> DEFINE a == HeaderAct(u, r, i)
           b == HeaderAct(v, q, j)
<1>1. CASE r.action # "reject"
  <2> HIDE DEF a, b
  <2>1. Agree(a, b, c)
    BY DEF a, b
  <2>2. QED
    BY <1>1, <2>1 DEF SameElementSteps, a, b
<1>2. CASE r.action = "reject"
  <2>1. "verdict" \in DOMAIN u /\ "verdict" \in DOMAIN v
    BY DEF Agree, IsState, StateParts
  <2>2. a = [u EXCEPT !.verdict = <<Reason(u, r)>>] /\ b = [v EXCEPT !.verdict = <<Reason(v, q)>>]
    BY <1>2 DEF HeaderAct, SetsHeader
  <2>3. a.verdict # Accepted /\ b.verdict # Accepted
    BY <2>1, <2>2 DEF Accepted
  <2> HIDE DEF a, b
  <2>4. RunElements(a, r) = a /\ RunElements(b, q) = b
    BY <2>3, RejectedElements
  <2>5. QED
    BY <2>4 DEF a, b
<1>3. QED
  BY <1>1, <1>2

\* Two rules with guards that pass together.
LEMMA RuleByParts ==
  ASSUME NEW c, NEW s, NEW t, Agree(s, t, c), NEW r, NEW i, NEW q, NEW j,
         r.header = q.header, r.msg = q.msg, r.methods = q.methods,
         NEW x, x = Value(s.fields, r.header),
         NEW u, u = AfterGuard(s, r.cmp, r.match, x), NEW v, v = AfterGuard(t, q.cmp, q.match, x),
         Agree(u, v, c), Passes(s, r.cmp, "any", r.match, x) <=> Passes(t, q.cmp, "any", q.match, x),
         Passes(s, r.cmp, "any", r.match, x) =>
           Agree(RunElements(HeaderAct(u, r, i), r), RunElements(HeaderAct(v, q, j), q), c)
  PROVE  Agree(NextRule(s, r, i), NextRule(t, q, j), c)
<1>1. s.request = t.request /\ s.method = t.method /\ s.fields = t.fields /\ s.verdict = t.verdict
  BY DEF Agree, IsState
<1>2. Concerns(s, r) <=> Concerns(t, q)
  BY <1>1 DEF Concerns
<1> DEFINE a == RunElements(HeaderAct(u, r, i), r)
           b == RunElements(HeaderAct(v, q, j), q)
<1>3. /\ RunRule(s, r, i) = IF ~Concerns(s, r) THEN s ELSE IF Passes(s, r.cmp, "any", r.match, x) THEN a ELSE u
      /\ RunRule(t, q, j) = IF ~Concerns(t, q) THEN t ELSE IF Passes(t, q.cmp, "any", q.match, x) THEN b ELSE v
  BY <1>1 DEF RunRule
<1>4. Passes(s, r.cmp, "any", r.match, x) => Agree(a, b, c)
  OBVIOUS
<1> HIDE DEF a, b
<1>5. Agree(RunRule(s, r, i), RunRule(t, q, j), c)
  BY <1>2, <1>3, <1>4
<1>6. QED
  BY <1>1, <1>5 DEF NextRule

\* Two rules, at their places, of which that can be said as a whole.
LEMMA RulesAgree ==
  ASSUME NEW c, NEW s, NEW t, Agree(s, t, c), NEW r, NEW i, NEW q, NEW j,
         ActsAlike(r, i, q, j), Heeds(r, c), r.msg = q.msg, r.methods = q.methods,
         Len(r.elements) \in Nat, Len(q.elements) \in Nat,
         r.action # "reject" => SameElementSteps(r, q, c)
  PROVE  Agree(NextRule(s, r, i), NextRule(t, q, j), c)
<1>1. r.header = q.header /\ r.action = q.action /\ r.cmp = q.cmp /\ r.match = q.match
  BY DEF ActsAlike
<1> DEFINE x == Value(s.fields, r.header)
           u == AfterGuard(s, r.cmp, r.match, x)
           v == AfterGuard(t, r.cmp, r.match, x)
<1>2. /\ Agree(u, v, c) /\ (Passes(s, r.cmp, "any", r.match, x) <=> Passes(t, r.cmp, "any", r.match, x))
      /\ (r.cmp = "pattern" /\ ~Unconditional(r.match) => u.captures = v.captures)
  <2> HIDE DEF x
  <2>1. QED
    BY GuardsAgree
<1>3. x = Value(s.fields, r.header) /\ u = AfterGuard(s, r.cmp, r.match, x) /\ v = AfterGuard(t, q.cmp, q.match, x)
  BY <1>1
<1> HIDE DEF u, v, x
<1>4. r.action = "store" /\ r.cmp = "pattern" => u.captures = v.captures
  BY <1>2 DEF Heeds, Agree
<1>5. Agree(HeaderAct(u, r, i), HeaderAct(v, q, j), c)
  BY <1>2, <1>4, HeaderActAgrees
<1>6. Agree(RunElements(HeaderAct(u, r, i), r), RunElements(HeaderAct(v, q, j), q), c)
  BY <1>1, <1>2, <1>5, BodiesAgree
<1>7. Passes(s, r.cmp, "any", r.match, x) <=> Passes(t, q.cmp, "any", q.match, x)
  BY <1>1, <1>2
<1>8. QED
  BY <1>1, <1>2, <1>3, <1>6, <1>7, RuleByParts

-----------------------------------------------------------------------------
(* Sequences that keep, replace or drop each element of another *)

\* The first j elements of the other have become the first k[j].
Places(w, f, k) ==
  /\ k[0] = 0 /\ k[Len(w)] = Len(f) /\ \A j \in 0 .. Len(w) : k[j] \in Nat
  /\ \A j \in 1 .. Len(w) :
       \/ w[j] = <<>> /\ k[j] = k[j - 1]
       \/ k[j] = k[j - 1] + 1 /\ k[j] \in 1 .. Len(f) /\ w[j] = <<f[k[j]]>>
  /\ \A m \in 1 .. Len(f) : \E j \in 1 .. Len(w) : k[j] = m /\ w[j] = <<f[m]>>

LEMMA FlattenPlaces ==
  ASSUME NEW S, NEW w \in Seq(Seq(S)), \A j \in 1 .. Len(w) : w[j] = <<>> \/ \E x \in S : w[j] = <<x>>
  PROVE  FlattenSeq(w) \in Seq(S) /\ \E k : Places(w, FlattenSeq(w), k)
<1> DEFINE n == Len(w)
           f == FlattenSeq(w)
           k == [j \in 0 .. n |-> PieceStart(w, j + 1)]
<1>1. n \in Nat /\ f \in Seq(S) /\ Len(f) \in Nat
  BY FlattenType
<1>2. k[0] = 0
  <2>1. SubSeq(w, 1, (0 + 1) - 1) = <<>>
    OBVIOUS
  <2>2. k[0] = PieceStart(w, 0 + 1)
    BY <1>1
  <2> HIDE DEF k, f, n
  <2>3. k[0] = Len(FlattenSeq(SubSeq(w, 1, (0 + 1) - 1)))
    BY <2>2 DEF PieceStart, PiecesBefore
  <2>4. Len(FlattenSeq(<<>>)) = 0
    BY FlattenEmpty
  <2>5. QED
    BY <2>1, <2>3, <2>4
<1>3. k[n] = Len(f)
  <2>1. SubSeq(w, 1, (n + 1) - 1) = w
    OBVIOUS
  <2>2. k[n] = PieceStart(w, n + 1)
    BY <1>1
  <2>3. PieceStart(w, n + 1) = Len(FlattenSeq(SubSeq(w, 1, (n + 1) - 1)))
    BY DEF PieceStart, PiecesBefore
  <2> HIDE DEF k, n
  <2>4. QED
    BY <2>1, <2>2, <2>3
<1>4. ASSUME NEW j \in 1 .. n
      PROVE  /\ k[j - 1] \in Nat /\ Len(w[j]) \in Nat /\ k[j] = k[j - 1] + Len(w[j]) /\ k[j] <= Len(f)
             /\ Len(w[j]) = 1 => f[k[j]] = w[j][1]
  <2>1. k[j - 1] = PieceStart(w, j) /\ k[j] = PieceStart(w, j + 1)
    BY <1>1
  <2>2. /\ PieceStart(w, j) \in Nat /\ Len(w[j]) \in Nat
        /\ PieceStart(w, j + 1) = PieceStart(w, j) + Len(w[j])
        /\ PieceStart(w, j) + Len(w[j]) <= Len(f)
        /\ \A m \in 1 .. Len(w[j]) : f[PieceStart(w, j) + m] = w[j][m]
    BY PieceAt
  <2>3. Len(w[j]) = 1 => f[PieceStart(w, j) + 1] = w[j][1]
    <3>1. Len(w[j]) = 1 => 1 \in 1 .. Len(w[j])
      OBVIOUS
    <3> HIDE DEF f
    <3>2. QED
      BY <2>2, <3>1
  <2> HIDE DEF k, f, n
  <2>4. QED
    BY <2>1, <2>2, <2>3
<1>5. ASSUME NEW j \in 1 .. n
      PROVE  /\ k[j - 1] \in Nat /\ k[j] \in Nat /\ k[j] <= Len(f)
             /\ \/ w[j] = <<>> /\ k[j] = k[j - 1]
                \/ k[j] = k[j - 1] + 1 /\ k[j] \in 1 .. Len(f) /\ w[j] = <<f[k[j]]>>
  <2>1. w[j] = <<>> \/ \E x \in S : w[j] = <<x>>
    BY <1>5
  <2>2. CASE w[j] = <<>>
    <3>1. Len(w[j]) = 0
      BY <2>2
    <3>2. /\ k[j - 1] \in Nat /\ Len(w[j]) \in Nat /\ k[j] = k[j - 1] + Len(w[j]) /\ k[j] <= Len(f)
      BY <1>4
    <3> HIDE DEF k, f, n
    <3>3. QED
      BY <2>2, <3>1, <3>2
  <2>3. CASE \E x \in S : w[j] = <<x>>
    <3>1. PICK x \in S : w[j] = <<x>>
      BY <2>3
    <3>2. Len(w[j]) = 1 /\ w[j][1] = x
      BY <3>1
    <3> HIDE DEF k, f, n
    <3>3. /\ k[j - 1] \in Nat /\ k[j] = k[j - 1] + 1 /\ k[j] <= Len(f) /\ f[k[j]] = x
      BY <1>4, <3>2
    <3>4. QED
      BY <1>1, <3>1, <3>3
  <2>4. QED
    BY <2>1, <2>2, <2>3
<1> HIDE DEF k, f, n
<1> DEFINE Met(i) == \A m \in 1 .. k[i] : \E j \in 1 .. n : k[j] = m /\ w[j] = <<f[m]>>
           I == {i \in Nat : i <= n => Met(i)}
<1>6. 0 \in I
  <2>1. 1 .. 0 = {}
    OBVIOUS
  <2>2. QED
    BY <1>2, <2>1
<1>7. ASSUME NEW i \in I PROVE i + 1 \in I
  <2> n \in Nat
    BY <1>1
  <2>0. i \in Nat /\ (i <= n => Met(i))
    OBVIOUS
  <2> HIDE DEF Met
  <2>1. ASSUME i + 1 <= n PROVE Met(i + 1)
    <3>1. i + 1 \in 1 .. n /\ (i + 1) - 1 = i /\ Met(i)
      BY <2>0, <2>1
    <3>0. \A m \in 1 .. k[i] : \E j \in 1 .. n : k[j] = m /\ w[j] = <<f[m]>>
      BY <3>1 DEF Met
    <3>2. /\ k[i] \in Nat /\ k[i + 1] \in Nat
          /\ \/ w[i + 1] = <<>> /\ k[i + 1] = k[i]
             \/ k[i + 1] = k[i] + 1 /\ w[i + 1] = <<f[k[i + 1]]>>
      BY <1>5, <3>1
    <3>3. CASE k[i + 1] = k[i]
      BY <3>0, <3>3 DEF Met
    <3>4. CASE k[i + 1] = k[i] + 1 /\ w[i + 1] = <<f[k[i + 1]]>>
      <4>1. \A m \in 1 .. k[i + 1] : m \in 1 .. k[i] \/ m = k[i + 1]
        BY <3>2, <3>4
      <4>2. \E j \in 1 .. n : k[j] = k[i + 1] /\ w[j] = <<f[k[i + 1]]>>
        BY <3>1, <3>4
      <4>3. QED
        BY <3>0, <4>1, <4>2 DEF Met
    <3>5. QED
      BY <3>2, <3>3, <3>4
  <2>2. QED
    BY <2>0, <2>1
<1>8. I = Nat
  <2> HIDE DEF I
  <2>1. QED
    BY <1>6, <1>7, NatClosure DEF I
<1>9. \A m \in 1 .. Len(f) : \E j \in 1 .. n : k[j] = m /\ w[j] = <<f[m]>>
  <2>1. Met(n)
    <3> HIDE DEF Met
    <3>1. n \in I /\ n <= n
      <4> HIDE DEF I
      <4>1. QED
        BY <1>1, <1>8
    <3>2. QED
      BY <3>1
  <2>2. QED
    BY <1>3, <2>1
<1>10. \A j \in 0 .. n : k[j] \in Nat
  <2> SUFFICES ASSUME NEW j \in 0 .. n PROVE k[j] \in Nat
    OBVIOUS
  <2>1. CASE j = 0
    BY <1>2, <2>1
  <2>2. CASE j # 0
    <3>1. j \in 1 .. n
      BY <1>1, <2>2
    <3>2. QED
      BY <1>5, <3>1
  <2>3. QED
    BY <2>1, <2>2
<1>11. Places(w, f, k)
  BY <1>2, <1>3, <1>5, <1>9, <1>10 DEF Places, n
<1>12. QED
  BY <1>1, <1>11 DEF f

\* What makes two states that agree two such states again.
Replaces(r, i, q, j, c) == \A s, t : Agree(s, t, c) => Agree(NextRule(s, r, i), NextRule(t, q, j), c)

ReplacesElement(r, e, q, d, c) == \A s, t : Agree(s, t, c) => Agree(NextElement(s, r, e), NextElement(t, q, d), c)

\* What changes no state the rules before it lead to.
Superfluous(rs, j, c) == \A s : IsState(s, c) => Agree(AfterRules(s, rs)[j - 1], AfterRules(s, rs)[j], c)

SuperfluousElement(r, j, c) ==
  \A s : IsState(s, c) => Agree(AfterElements(s, r)[j - 1], AfterElements(s, r)[j], c)

LEMMA ElementsThread ==
  ASSUME NEW c, NEW q, NEW r, Len(q.elements) \in Nat, Len(r.elements) \in Nat, NEW k,
         k[0] = 0, k[Len(r.elements)] = Len(q.elements), \A j \in 0 .. Len(r.elements) : k[j] \in Nat,
         \A j \in 1 .. Len(r.elements) :
           \/ k[j] = k[j - 1] /\ SuperfluousElement(r, j, c)
           \/ /\ k[j] = k[j - 1] + 1 /\ k[j] \in 1 .. Len(q.elements)
              /\ ReplacesElement(q, q.elements[k[j]], r, r.elements[j], c)
  PROVE  SameElementSteps(q, r, c)
<1> SUFFICES ASSUME NEW s, NEW t, Agree(s, t, c)
             PROVE  Agree(RunElements(s, q), RunElements(t, r), c)
  BY DEF SameElementSteps
<1> DEFINE n == Len(r.elements)
           u == AfterElements(s, q)
           v == AfterElements(t, r)
           I == {j \in Nat : j <= n => Agree(u[k[j]], v[j], c)}
<1>1. /\ u[0] = s /\ v[0] = t
      /\ \A j \in 1 .. Len(q.elements) : u[j] = NextElement(u[j - 1], q, q.elements[j])
      /\ \A j \in 1 .. n : v[j] = NextElement(v[j - 1], r, r.elements[j])
  BY AfterElementsUnfolds
<1>2. \A j \in 1 .. n : SuperfluousElement(r, j, c) => Agree(v[j - 1], v[j], c)
  BY DEF SuperfluousElement, Agree
<1>3. RunElements(s, q) = u[Len(q.elements)] /\ RunElements(t, r) = v[n]
  BY DEF RunElements
<1> HIDE DEF u, v
<1>4. 0 \in I
  BY <1>1
<1>5. ASSUME NEW j \in I PROVE j + 1 \in I
  <2>1. ASSUME j + 1 <= n PROVE Agree(u[k[j + 1]], v[j + 1], c)
    <3>1. j + 1 \in 1 .. n /\ (j + 1) - 1 = j /\ Agree(u[k[j]], v[j], c)
      BY <2>1
    <3>2. \/ k[j + 1] = k[j] /\ SuperfluousElement(r, j + 1, c)
          \/ /\ k[j + 1] = k[j] + 1 /\ k[j + 1] \in 1 .. Len(q.elements)
             /\ ReplacesElement(q, q.elements[k[j + 1]], r, r.elements[j + 1], c)
      BY <3>1
    <3>3. CASE k[j + 1] = k[j] /\ SuperfluousElement(r, j + 1, c)
      <4>1. Agree(v[j], v[j + 1], c)
        BY <1>2, <3>1, <3>3
      <4>2. QED
        BY <3>1, <3>3, <4>1, AgreeOn
    <3>4. CASE /\ k[j + 1] = k[j] + 1 /\ k[j + 1] \in 1 .. Len(q.elements)
               /\ ReplacesElement(q, q.elements[k[j + 1]], r, r.elements[j + 1], c)
      <4>1. k[j + 1] - 1 = k[j]
        <5>1. k[j] \in Nat
          BY <2>1
        <5>2. QED
          BY <3>4, <5>1
      <4>2. /\ u[k[j + 1]] = NextElement(u[k[j]], q, q.elements[k[j + 1]])
            /\ v[j + 1] = NextElement(v[j], r, r.elements[j + 1])
        BY <1>1, <3>1, <3>4, <4>1
      <4>3. QED
        BY <3>1, <3>4, <4>2 DEF ReplacesElement
    <3>5. QED
      BY <3>2, <3>3, <3>4
  <2>2. QED
    BY <2>1
<1> HIDE DEF I
<1>6. I = Nat
  BY <1>4, <1>5, NatClosure DEF I
<1>7. Agree(u[k[n]], v[n], c)
  BY <1>6 DEF I
<1>8. QED
  BY <1>3, <1>7

LEMMA RulesThread ==
  ASSUME NEW c, NEW q, NEW rs, Len(q) \in Nat, Len(rs) \in Nat, NEW k,
         k[0] = 0, k[Len(rs)] = Len(q), \A j \in 0 .. Len(rs) : k[j] \in Nat,
         \A j \in 1 .. Len(rs) :
           \/ k[j] = k[j - 1] /\ Superfluous(rs, j, c)
           \/ /\ k[j] = k[j - 1] + 1 /\ k[j] \in 1 .. Len(q)
              /\ Replaces(q[k[j]], k[j], rs[j], j, c),
         NEW s, IsState(s, c)
  PROVE  Agree(Walk(s, q), Walk(s, rs), c)
<1> DEFINE n == Len(rs)
           u == AfterRules(s, q)
           v == AfterRules(s, rs)
           I == {j \in Nat : j <= n => Agree(u[k[j]], v[j], c)}
<1>1. /\ u[0] = s /\ v[0] = s
      /\ \A j \in 1 .. Len(q) : u[j] = NextRule(u[j - 1], q[j], j)
      /\ \A j \in 1 .. n : v[j] = NextRule(v[j - 1], rs[j], j)
  BY AfterRulesUnfolds
<1>2. \A j \in 1 .. n : Superfluous(rs, j, c) => Agree(v[j - 1], v[j], c)
  BY DEF Superfluous
<1>3. Walk(s, q) = u[Len(q)] /\ Walk(s, rs) = v[n]
  BY DEF Walk
<1> HIDE DEF u, v
<1>4. 0 \in I
  BY <1>1, AgreeSelf
<1>5. ASSUME NEW j \in I PROVE j + 1 \in I
  <2>1. ASSUME j + 1 <= n PROVE Agree(u[k[j + 1]], v[j + 1], c)
    <3>1. j + 1 \in 1 .. n /\ (j + 1) - 1 = j /\ Agree(u[k[j]], v[j], c)
      BY <2>1
    <3>2. \/ k[j + 1] = k[j] /\ Superfluous(rs, j + 1, c)
          \/ /\ k[j + 1] = k[j] + 1 /\ k[j + 1] \in 1 .. Len(q)
             /\ Replaces(q[k[j + 1]], k[j + 1], rs[j + 1], j + 1, c)
      BY <3>1
    <3>3. CASE k[j + 1] = k[j] /\ Superfluous(rs, j + 1, c)
      <4>1. Agree(v[j], v[j + 1], c)
        BY <1>2, <3>1, <3>3
      <4>2. QED
        BY <3>1, <3>3, <4>1, AgreeOn
    <3>4. CASE /\ k[j + 1] = k[j] + 1 /\ k[j + 1] \in 1 .. Len(q)
               /\ Replaces(q[k[j + 1]], k[j + 1], rs[j + 1], j + 1, c)
      <4>1. k[j + 1] - 1 = k[j]
        <5>1. k[j] \in Nat
          BY <2>1
        <5>2. QED
          BY <3>4, <5>1
      <4>2. /\ u[k[j + 1]] = NextRule(u[k[j]], q[k[j + 1]], k[j + 1])
            /\ v[j + 1] = NextRule(v[j], rs[j + 1], j + 1)
        BY <1>1, <3>1, <3>4, <4>1
      <4>3. QED
        BY <3>1, <3>4, <4>2 DEF Replaces
    <3>5. QED
      BY <3>2, <3>3, <3>4
  <2>2. QED
    BY <2>1
<1> HIDE DEF I
<1>6. I = Nat
  BY <1>4, <1>5, NatClosure DEF I
<1>7. Agree(u[k[n]], v[n], c)
  BY <1>6 DEF I
<1>8. QED
  BY <1>3, <1>7

-----------------------------------------------------------------------------
(* Parsed rules *)

\* std::regex_search finds what SearchesAsWritten says, of any text.
Engine == \A t, x : SearchesAsWritten(t, x)

LEMMA ParsedRule ==
  ASSUME NEW r, IsParsed(r)
  PROVE  /\ Len(r.elements) \in Nat /\ DOMAIN r.elements = 1 .. Len(r.elements)
         /\ \A j \in 1 .. Len(r.elements) :
              /\ r.elements[j] \in ToSet(r.elements) /\ DOMAIN r.elements[j] = ElementFields
              /\ IsMatch(r.elements[j].match) /\ IsValue(r.elements[j].new)
         /\ Engine => IsFullRule(r)
<1>1. r.elements \in Seq(ToSet(r.elements))
  BY DEF IsParsed
<1>2. /\ Len(r.elements) \in Nat /\ DOMAIN r.elements = 1 .. Len(r.elements)
      /\ \A j \in 1 .. Len(r.elements) : r.elements[j] \in ToSet(r.elements)
  BY <1>1, ListElements DEF IsList
<1>3. Engine => Groups(r.match.text) \in Nat
  BY DEF Engine, SearchesAsWritten
<1>4. QED
  BY <1>1, <1>2, <1>3 DEF IsParsed, IsFullRule, IsRule

\* Rules, all of them as parsed.
AreParsed(rs) == rs \in Seq(ToSet(rs)) /\ \A r \in ToSet(rs) : IsParsed(r)

LEMMA ParsedRules ==
  ASSUME NEW rs, AreParsed(rs)
  PROVE  /\ Len(rs) \in Nat /\ DOMAIN rs = 1 .. Len(rs)
         /\ \A i \in 1 .. Len(rs) : rs[i] \in ToSet(rs) /\ IsParsed(rs[i])
         /\ Engine => IsFullRuleset(rs)
<1>1. /\ Len(rs) \in Nat /\ DOMAIN rs = 1 .. Len(rs)
      /\ \A i \in 1 .. Len(rs) : rs[i] \in ToSet(rs)
  BY ListElements DEF AreParsed, IsList
<1>2. Engine => \A r \in ToSet(rs) : IsFullRule(r)
  BY ParsedRule DEF AreParsed
<1>3. QED
  BY <1>1, <1>2 DEF AreParsed, IsFullRuleset

LEMMA ParsedRulesAre ==
  ASSUME NEW S, NEW rs \in Seq(S), \A r \in S : IsParsed(r)
  PROVE  AreParsed(rs)
BY SeqIsList DEF AreParsed, IsList, ToSet

-----------------------------------------------------------------------------
(* A plain pattern with both anchors *)

\* What a plain pattern becomes.
Plain(m) == [NoMatch EXCEPT !.text = Unanchored(Raw(m))]

LEMMA PlainPattern ==
  ASSUME Engine, NEW m, IsMatch(m), NEW cmp, IsPlain(cmp, m), Head(Raw(m)) = "^", Last(Raw(m)) = "$"
  PROVE  /\ cmp = "pattern" /\ m.negated = FALSE /\ ~Unconditional(m) /\ Groups(m.text) = 0
         /\ ~Unconditional(Plain(m)) /\ Plain(m).negated = FALSE /\ Plain(m).text = Unanchored(m.text)
         /\ \A x : Captures(m.text, x) = IF x = Unanchored(m.text) THEN <<x>> ELSE <<>>
<1>1. cmp = "pattern" /\ ~m.ref /\ Raw(m) # <<>> /\ Unanchored(Raw(m)) # <<>>
      /\ ToSet(Unanchored(Raw(m))) \cap Meta = {}
  BY DEF IsPlain
<1>2. m.text \in Seq(ToSet(m.text)) /\ m.negated \in BOOLEAN
  BY DEF IsMatch
<1>3. m.negated = FALSE
  <2>1. SUFFICES ASSUME m.negated = TRUE PROVE FALSE
    BY <1>2
  <2>2. Raw(m) = <<"!">> \o m.text
    BY <2>1 DEF Raw
  <2>3. Head(<<"!">> \o m.text) = "!"
    BY <1>2
  <2>4. QED
    BY <2>2, <2>3
<1>4. Raw(m) = m.text
  BY <1>3 DEF Raw
<1>5. ~Unconditional(m)
  <2>1. NoMatch.text = <<>>
    BY DEF NoMatch
  <2>2. QED
    BY <1>1, <1>4, <2>1 DEF Unconditional
<1>6. /\ Plain(m).text = Unanchored(m.text) /\ Plain(m).negated = FALSE /\ Plain(m).ref = FALSE
      /\ ~Unconditional(Plain(m))
  <2>1. Plain(m).text = Unanchored(m.text) /\ Plain(m).negated = FALSE /\ Plain(m).ref = FALSE
    <3> DEFINE y == Unanchored(m.text)
    <3>1. Plain(m) = [NoMatch EXCEPT !.text = y]
      BY <1>4 DEF Plain
    <3> HIDE DEF y
    <3>2. QED
      BY <3>1 DEF NoMatch, y
  <2>2. Unanchored(m.text) # <<>>
    BY <1>1, <1>4
  <2>3. Plain(m) # NoMatch
    <3>1. Plain(m).text # NoMatch.text
      BY <2>1, <2>2 DEF NoMatch
    <3>2. QED
      BY <3>1
  <2>4. QED
    BY <2>1, <2>3 DEF Unconditional
<1>7. Groups(m.text) = 0 /\ \A x : Captures(m.text, x) = IF x = Unanchored(m.text) THEN <<x>> ELSE <<>>
  <2> DEFINE p == [NoMatch EXCEPT !.text = m.text]
  <2>1. p.text = m.text /\ p.negated = FALSE /\ p.ref = FALSE
    BY DEF NoMatch
  <2>2. Raw(p) = m.text
    BY <2>1 DEF Raw
  <2> HIDE DEF p
  <2>3. IsPlain("pattern", p)
    BY <1>1, <1>4, <2>1, <2>2 DEF IsPlain
  <2>4. \A x : SearchesAsWritten(m.text, x)
    BY DEF Engine
  <2>5. Head(m.text) = "^" /\ Last(m.text) = "$"
    BY <1>4
  <2>6. QED
    BY <2>3, <2>4, <2>5 DEF SearchesAsWritten, p
<1>8. QED
  BY <1>1, <1>3, <1>5, <1>6, <1>7

\* The guard of such a pattern and the one it becomes: what the first captures
\* is what the rule reads.
LEMMA PlainGuard ==
  ASSUME Engine, NEW c, c.ignored # {}, NEW s, NEW t, Agree(s, t, c),
         NEW m, IsMatch(m), IsPlain("pattern", m), Head(Raw(m)) = "^", Last(Raw(m)) = "$",
         m.text \in c.patterns, NEW x
  PROVE  /\ Passes(s, "pattern", "any", m, x) <=> Passes(t, "sensitive", "any", Plain(m), x)
         /\ Agree(AfterGuard(s, "pattern", m, x), AfterGuard(t, "sensitive", Plain(m), x), c)
         /\ AfterGuard(s, "pattern", m, x).fields = s.fields
         /\ Passes(s, "pattern", "any", m, x) => AfterGuard(s, "pattern", m, x).captures = <<x>>
<1>1. /\ m.negated = FALSE /\ ~Unconditional(m) /\ ~Unconditional(Plain(m))
      /\ Plain(m).negated = FALSE /\ Plain(m).text = Unanchored(m.text)
      /\ Captures(m.text, x) = IF x = Unanchored(m.text) THEN <<x>> ELSE <<>>
  BY PlainPattern
<1>2. s.patterns # <<>> /\ s.patterns[Number(s.patterns, m.text)] = m.text
      /\ "captures" \in DOMAIN s /\ "fields" \in DOMAIN s
  BY DEF Agree, IsState, StateParts
<1>3. Searched(s, m, x) = IF x = Unanchored(m.text) THEN <<x>> ELSE <<>>
  BY <1>1, <1>2 DEF Searched
<1>4. Passes(s, "pattern", "any", m, x) <=> x = Unanchored(m.text)
  <2>1. Matched(s, "pattern", "any", m, x) <=> Searched(s, m, x) # <<>>
    BY DEF Matched
  <2>2. Searched(s, m, x) # <<>> <=> x = Unanchored(m.text)
    BY <1>3
  <2>3. Matched(s, "pattern", "any", m, x) \in BOOLEAN
    BY DEF Matched
  <2>4. QED
    BY <1>1, <2>1, <2>2, <2>3 DEF Passes
<1>5. Passes(t, "sensitive", "any", Plain(m), x) <=> x = Unanchored(m.text)
  <2>1. Matched(t, "sensitive", "any", Plain(m), x) = (x = Plain(m).text)
    BY DEF Matched
  <2>2. QED
    BY <1>1, <2>1 DEF Passes
<1> DEFINE f == Searched(s, m, x)
<1>6. AfterGuard(s, "pattern", m, x) = [s EXCEPT !.captures = f]
  BY <1>1 DEF AfterGuard
<1>7. AfterGuard(t, "sensitive", Plain(m), x) = t
  BY DEF AfterGuard
<1> HIDE DEF f
<1>8. [s EXCEPT !.captures = f].fields = s.fields /\ [s EXCEPT !.captures = f].captures = f
  BY <1>2
<1>9. Agree([s EXCEPT !.captures = f], s, c)
  <2>1. IsState(s, c)
    BY DEF Agree
  <2>2. QED
    BY <2>1, EditOfNothing
<1>10. Agree([s EXCEPT !.captures = f], t, c)
  BY <1>9, AgreeOn
<1>11. QED
  BY <1>3, <1>4, <1>5, <1>6, <1>7, <1>8, <1>10 DEF f

-----------------------------------------------------------------------------
(* Simplified rules *)

\* A rule, or an element rule, with a plain pattern becomes one without.
LEMMA SimplifiedParts ==
  ASSUME NEW r, {"cmp", "match"} \subseteq DOMAIN r
  PROVE  /\ DOMAIN Simplify(r) = DOMAIN r
         /\ \A k \in DOMAIN r \ {"cmp", "match"} : Simplify(r)[k] = r[k]
         /\ IsPlain(r.cmp, r.match) => Simplify(r).cmp = "sensitive" /\ Simplify(r).match = Plain(r.match)
         /\ ~IsPlain(r.cmp, r.match) => Simplify(r) = r
<1>1. CASE IsPlain(r.cmp, r.match)
  <2> DEFINE p == Plain(r.match)
  <2>1. Simplify(r) = [r EXCEPT !.cmp = "sensitive", !.match = p]
    BY <1>1 DEF Simplify, Plain
  <2> HIDE DEF p
  <2>2. QED
    BY <1>1, <2>1 DEF p
<1>2. CASE ~IsPlain(r.cmp, r.match)
  BY <1>2 DEF Simplify
<1>3. QED
  BY <1>1, <1>2

LEMMA SimplifiedElement ==
  ASSUME Engine, NEW c, c.ignored # {}, NEW r, NEW q, r.header = q.header, r.name = q.name,
         NEW e, DOMAIN e = ElementFields, IsMatch(e.match), HeedsElement(r, e, c),
         IsWhole(e), e.kind = "any",
         Supported(e) => ToSet(Pattern(e.cmp, e.match)) \subseteq c.patterns
  PROVE  ReplacesElement(r, e, q, Simplify(e), c)
<1> SUFFICES ASSUME NEW s, NEW t, Agree(s, t, c)
             PROVE  Agree(NextElement(s, r, e), NextElement(t, q, Simplify(e)), c)
  BY DEF ReplacesElement
<1> DEFINE d == Simplify(e)
<1>1. /\ d.name = e.name /\ d.type = e.type /\ d.action = e.action /\ d.new = e.new /\ d.kind = e.kind
      /\ IsPlain(e.cmp, e.match) => d.cmp = "sensitive" /\ d.match = Plain(e.match)
      /\ ~IsPlain(e.cmp, e.match) => d = e
  <2> HIDE DEF d
  <2>1. {"name", "type", "action", "new", "kind", "cmp", "match"} \subseteq DOMAIN e
    BY DEF ElementFields
  <2>2. QED
    BY <2>1, SimplifiedParts DEF d
<1> HIDE DEF d
<1>2. ElementName(r, e) = ElementName(q, d) /\ ElementName(r, e) = ElementName(q, e)
  BY <1>1 DEF ElementName
<1>3. CASE ~IsPlain(e.cmp, e.match)
  BY <1>1, <1>2, <1>3, ElementAgrees DEF d
<1>4. CASE ~Supported(e)
  <2>1. RunElement(s, r, e) = s /\ RunElement(t, q, d) = t
    BY <1>1, <1>4 DEF RunElement, Supported
  <2>2. QED
    BY <2>1 DEF NextElement, d
<1>5. CASE IsPlain(e.cmp, e.match) /\ Supported(e)
  <2> DEFINE x == ElementText(s, r, e)
             u == AfterGuard(s, "pattern", e.match, x)
             v == AfterGuard(t, "sensitive", Plain(e.match), x)
  <2>1. e.cmp = "pattern" /\ Head(Raw(e.match)) = "^" /\ Last(Raw(e.match)) = "$"
    BY <1>5 DEF IsPlain, IsWhole
  <2>2. e.match.text \in c.patterns
    <3>1. ~Unconditional(e.match)
      BY <1>5, <2>1, PlainPattern
    <3>2. QED
      BY <1>5, <2>1, <3>1, PatternFound
  <2>3. ElementText(t, q, d) = x
    BY <1>1 DEF ElementText, Agree
  <2>4. /\ Passes(s, "pattern", "any", e.match, x) <=> Passes(t, "sensitive", "any", Plain(e.match), x)
        /\ Agree(u, v, c)
    <3> HIDE DEF x
    <3>1. QED
      BY <1>5, <2>1, <2>2, PlainGuard
  <2>5. /\ RunElement(s, r, e) = IF Passes(s, "pattern", "any", e.match, x) THEN ElementAct(u, r, e) ELSE u
        /\ RunElement(t, q, d) = IF Passes(t, "sensitive", "any", Plain(e.match), x) THEN ElementAct(v, q, d) ELSE v
    BY <1>1, <1>5, <2>1, <2>3 DEF RunElement, Supported
  <2> HIDE DEF u, v, x
  <2>6. Agree(ElementAct(u, r, e), ElementAct(v, q, e), c)
    BY <1>2, <2>4, ElementActAgrees
  <2>7. ElementAct(v, q, e) = ElementAct(v, q, d)
    BY <1>1, <1>2 DEF ElementAct, Rewrite, ElementText, ElementName, Reason
  <2>8. Agree(RunElement(s, r, e), RunElement(t, q, d), c)
    BY <2>4, <2>5, <2>6, <2>7
  <2>9. QED
    BY <2>8 DEF NextElement, Agree, d
<1>6. QED
  BY <1>3, <1>4, <1>5

\* An action but that of a store does not look at the match.
LEMMA HeaderActSame ==
  ASSUME NEW s, NEW r, NEW i, NEW q, NEW j, r.action # "store", r.action = q.action,
         r.header = q.header, r.new = q.new, r.name = q.name, SetsHeader(r) <=> SetsHeader(q)
  PROVE  HeaderAct(s, r, i) = HeaderAct(s, q, j)
<1>1. Reason(s, r) = Reason(s, q)
  BY DEF Reason
<1>2. QED
  BY <1>1 DEF HeaderAct

\* A store of the whole match is one of the value it matches.
LEMMA PlainStore ==
  ASSUME NEW c, NEW u, NEW v, Agree(u, v, c), NEW r, NEW i, NEW q, NEW j,
         r.action = "store", r.cmp = "pattern", Groups(r.match.text) = 0, u.captures = <<Value(v.fields, q.header)>>,
         q.action = "store", q.cmp # "pattern", RuleName(r, i) = RuleName(q, j)
  PROVE  Agree(HeaderAct(u, r, i), HeaderAct(v, q, j), c)
<1> DEFINE k == Key(RuleName(q, j), 0)
           y == Value(v.fields, q.header)
<1>1. HeaderAct(u, r, i) = StoreGroups(u, r, i)
  BY DEF HeaderAct, SetsHeader
<1>2. HeaderAct(v, q, j) = StoreSlot(v, k, y)
  BY DEF HeaderAct, SetsHeader
<1>3. /\ AfterGroups(u, r, i)[0] = u
      /\ AfterGroups(u, r, i)[1] = StoreGroup(AfterGroups(u, r, i)[1 - 1], r, i, 1 - 1)
  <2>1. Groups(r.match.text) \in Nat /\ 1 \in 1 .. Groups(r.match.text) + 1
    OBVIOUS
  <2>2. QED
    BY <2>1, AfterGroupsUnfolds
<1>4. StoreGroups(u, r, i) = StoreGroup(u, r, i, 0)
  BY <1>3 DEF StoreGroups
<1>5. Capture(u, 0) = y
  BY DEF Capture
<1>6. StoreGroup(u, r, i, 0) = StoreSlot(u, k, y)
  BY <1>5 DEF StoreGroup
<1> HIDE DEF k, y
<1>7. QED
  BY <1>1, <1>2, <1>4, <1>6, StoresAgree

\* The simplified rule q of r, with element rules es.
BecomesPlain(r, q, es) ==
  /\ q.header = r.header /\ q.action = r.action /\ q.new = r.new /\ q.name = r.name /\ q.msg = r.msg
  /\ q.methods = r.methods /\ q.elements = es
  /\ IsPlain(r.cmp, r.match) => q.cmp = "sensitive" /\ q.match = Plain(r.match)
  /\ ~IsPlain(r.cmp, r.match) => q.cmp = r.cmp /\ q.match = r.match

LEMMA RuleBecomesPlain ==
  ASSUME NEW r, DOMAIN r = RuleFields, NEW es
  PROVE  BecomesPlain(r, [Simplify(r) EXCEPT !.elements = es], es)
<1> DEFINE p == Simplify(r)
           q == [p EXCEPT !.elements = es]
<1>1. /\ DOMAIN p = DOMAIN r
      /\ \A k \in DOMAIN r \ {"cmp", "match"} : p[k] = r[k]
      /\ IsPlain(r.cmp, r.match) => p.cmp = "sensitive" /\ p.match = Plain(r.match)
      /\ ~IsPlain(r.cmp, r.match) => p = r
  BY SimplifiedParts DEF RuleFields
<1> HIDE DEF p
<1>2. BecomesPlain(r, q, es)
  BY <1>1 DEF RuleFields, BecomesPlain
<1>3. QED
  BY <1>2 DEF p

LEMMA SimplifiedRule ==
  ASSUME Engine, NEW c, c.ignored # {}, NEW r, IsParsed(r), Heeds(r, c), IsWhole(r),
         ToSet(Pattern(r.cmp, r.match)) \subseteq c.patterns,
         NEW es, Len(es) \in Nat, es = <<>> <=> r.elements = <<>>,
         NEW q, BecomesPlain(r, q, es), r.action # "reject" => SameElementSteps(r, q, c),
         NEW i
  PROVE  Replaces(r, i, q, i, c)
<1> SUFFICES ASSUME NEW s, NEW t, Agree(s, t, c)
             PROVE  Agree(NextRule(s, r, i), NextRule(t, q, i), c)
  BY DEF Replaces
<1>1. /\ Len(r.elements) \in Nat /\ IsMatch(r.match) /\ DOMAIN r = RuleFields
  BY ParsedRule DEF IsParsed
<1>2. /\ q.header = r.header /\ q.action = r.action /\ q.new = r.new /\ q.name = r.name /\ q.msg = r.msg
      /\ q.methods = r.methods /\ q.elements = es
      /\ IsPlain(r.cmp, r.match) => q.cmp = "sensitive" /\ q.match = Plain(r.match)
      /\ ~IsPlain(r.cmp, r.match) => q.cmp = r.cmp /\ q.match = r.match
  BY DEF BecomesPlain
<1>3. /\ SetsHeader(r) <=> SetsHeader(q)
      /\ RuleName(r, i) = RuleName(q, i) /\ Len(q.elements) \in Nat
  BY <1>2 DEF SetsHeader, RuleName
<1>4. CASE ~IsPlain(r.cmp, r.match)
  <2>1. ActsAlike(r, i, q, i)
    BY <1>2, <1>3, <1>4 DEF ActsAlike
  <2>2. QED
    BY <1>1, <1>2, <1>3, <2>1, RulesAgree
<1>5. CASE IsPlain(r.cmp, r.match)
  <2>0. /\ r.cmp = "pattern" /\ Head(Raw(r.match)) = "^" /\ Last(Raw(r.match)) = "$"
        /\ q.cmp = "sensitive" /\ q.match = Plain(r.match)
    BY <1>2, <1>5 DEF IsPlain, IsWhole
  <2> DEFINE x == Value(s.fields, r.header)
             u == AfterGuard(s, r.cmp, r.match, x)
             v == AfterGuard(t, q.cmp, q.match, x)
  <2>1. Groups(r.match.text) = 0 /\ r.match.text \in c.patterns
    <3>1. ~Unconditional(r.match) /\ Groups(r.match.text) = 0
      BY <1>1, <1>5, <2>0, PlainPattern
    <3>2. QED
      BY <2>0, <3>1, PatternFound
  <2>2. /\ Passes(s, r.cmp, "any", r.match, x) <=> Passes(t, q.cmp, "any", q.match, x)
        /\ Agree(u, v, c) /\ u.fields = s.fields
        /\ Passes(s, r.cmp, "any", r.match, x) => u.captures = <<x>>
    <3> HIDE DEF x
    <3>1. QED
      BY <1>1, <1>5, <2>0, <2>1, PlainGuard
  <2>3. /\ x = Value(s.fields, r.header) /\ u = AfterGuard(s, r.cmp, r.match, x)
        /\ v = AfterGuard(t, q.cmp, q.match, x)
    OBVIOUS
  <2> HIDE DEF u, v
  <2>4. v.fields = s.fields
    BY <2>2 DEF Agree
  <2> HIDE DEF x
  <2>5. Passes(s, r.cmp, "any", r.match, x) => Agree(HeaderAct(u, r, i), HeaderAct(v, q, i), c)
    <3>1. CASE r.action = "store"
      <4>1. x = Value(v.fields, q.header)
        BY <1>2, <2>3, <2>4
      <4>2. q.cmp # "pattern"
        BY <2>0
      <4>3. QED
        BY <1>2, <1>3, <2>0, <2>1, <2>2, <3>1, <4>1, <4>2, PlainStore
    <3>2. CASE r.action # "store"
      <4>1. ActsAlike(r, i, r, i)
        BY DEF ActsAlike
      <4>2. Agree(HeaderAct(u, r, i), HeaderAct(v, r, i), c)
        BY <2>2, <3>2, <4>1, HeaderActAgrees
      <4>3. HeaderAct(v, r, i) = HeaderAct(v, q, i)
        BY <1>2, <1>3, <3>2, HeaderActSame
      <4>4. QED
        BY <4>2, <4>3
    <3>3. QED
      BY <3>1, <3>2
  <2>6. Passes(s, r.cmp, "any", r.match, x) =>
          Agree(RunElements(HeaderAct(u, r, i), r), RunElements(HeaderAct(v, q, i), q), c)
    BY <1>1, <1>2, <1>3, <2>2, <2>5, BodiesAgree
  <2>7. QED
    BY <1>2, <2>2, <2>3, <2>6, RuleByParts
<1>6. QED
  BY <1>4, <1>5

\* What a rule searches is found.
LEMMA SearchesFound ==
  ASSUME NEW rs, NEW i \in 1 .. Len(rs), NEW r, r = rs[i]
  PROVE  /\ ToSet(Pattern(r.cmp, r.match)) \subseteq Searches(rs)
         /\ \A j \in 1 .. Len(r.elements) :
              r.action # "reject" /\ Supported(r.elements[j]) =>
                ToSet(Pattern(r.elements[j].cmp, r.elements[j].match)) \subseteq Searches(rs)
<1>1. RuleSearches(r) \subseteq Searches(rs)
  BY DEF Searches
<1>2. ToSet(Pattern(r.cmp, r.match)) \subseteq RuleSearches(r)
  BY DEF RuleSearches
<1>3. ASSUME NEW j \in 1 .. Len(r.elements), r.action # "reject", Supported(r.elements[j])
      PROVE  ToSet(Pattern(r.elements[j].cmp, r.elements[j].match)) \subseteq RuleSearches(r)
  <2>1. j \in Visited(r)
    BY <1>3 DEF Visited
  <2> DEFINE P(m) == ToSet(Pattern(r.elements[m].cmp, r.elements[m].match))
  <2>2. P(j) \subseteq UNION {P(m) : m \in Visited(r)}
    BY <2>1
  <2>3. QED
    BY <2>2 DEF RuleSearches
<1>4. QED
  BY <1>1, <1>2, <1>3

\* A comparison that ignores captures: rules that do not read those of others.
LEMMA UnreadHeeds ==
  ASSUME Engine, NEW rs, AreParsed(rs), NEW c, c.names = {}, c.ignored = {} \/ CapturesUnread(rs),
         NEW i \in 1 .. Len(rs)
  PROVE  /\ Heeds(rs[i], c)
         /\ \A j \in 1 .. Len(rs[i].elements) : HeedsElement(rs[i], rs[i].elements[j], c)
<1>1. DOMAIN rs = 1 .. Len(rs) /\ IsParsed(rs[i])
  BY ParsedRules
<1>2. DOMAIN rs[i].elements = 1 .. Len(rs[i].elements)
  BY <1>1, ParsedRule
<1>3. Groups(rs[i].match.text) \in Nat
  BY DEF Engine, SearchesAsWritten
<1>4. c.ignored # {} =>
        /\ ~ReadsCapture(rs[i].new)
        /\ \A j \in 1 .. Len(rs[i].elements) : ~ReadsCapture(rs[i].elements[j].new)
        /\ rs[i].action = "store" /\ rs[i].cmp = "pattern" => ~Unconditional(rs[i].match)
  BY <1>1, <1>2 DEF CapturesUnread
<1>5. QED
  BY <1>3, <1>4 DEF Heeds, HeedsElement

LEMMA SimplificationAgrees ==
  ASSUME Engine, NEW rs, AreParsed(rs), SimplificationIsSafe(rs), CapturesUnread(rs),
         NEW c, c.ignored # {}, c.names = {}, c.patterns = Searches(rs), NEW s, IsState(s, c)
  PROVE  Agree(Walk(s, rs), Walk(s, Simplified(rs)), c)
<1> DEFINE n == Len(rs)
           qs == Simplified(rs)
           k == [j \in 0 .. n |-> j]
<1>1. n \in Nat /\ DOMAIN rs = 1 .. n /\ \A i \in 1 .. n : IsParsed(rs[i])
  BY ParsedRules
<1>2. Len(qs) = n /\ \A i \in 1 .. n : qs[i] = [Simplify(rs[i]) EXCEPT !.elements = [j \in DOMAIN @ |-> Simplify(@[j])]]
  BY <1>1 DEF Simplified
<1>3. ASSUME NEW i \in 1 .. n
      PROVE  Replaces(rs[i], i, qs[i], i, c)
  <2> DEFINE r == rs[i]
             es == [j \in DOMAIN r.elements |-> Simplify(r.elements[j])]
             q == [Simplify(r) EXCEPT !.elements = es]
             m == Len(r.elements)
             l == [j \in 0 .. m |-> j]
  <2>1. IsParsed(r) /\ IsWhole(r) /\ DOMAIN r = RuleFields
    BY <1>1 DEF SimplificationIsSafe, IsParsed
  <2>2. /\ m \in Nat /\ DOMAIN r.elements = 1 .. m
        /\ \A j \in 1 .. m : DOMAIN r.elements[j] = ElementFields /\ IsMatch(r.elements[j].match)
    <3> HIDE DEF r
    <3>1. QED
      BY <2>1, ParsedRule
  <2>3. \A j \in 1 .. m : IsWhole(r.elements[j]) /\ r.elements[j].kind = "any"
    BY <1>1, <2>2 DEF SimplificationIsSafe
  <2>4. /\ Heeds(r, c) /\ \A j \in 1 .. m : HeedsElement(r, r.elements[j], c)
    BY UnreadHeeds
  <2>5. /\ ToSet(Pattern(r.cmp, r.match)) \subseteq c.patterns
        /\ \A j \in 1 .. m : r.action # "reject" /\ Supported(r.elements[j]) =>
             ToSet(Pattern(r.elements[j].cmp, r.elements[j].match)) \subseteq c.patterns
    BY SearchesFound
  <2>6. qs[i] = q
    <3>1. Simplify(r).elements = r.elements
      BY <2>1, SimplifiedParts DEF RuleFields
    <3>2. QED
      BY <1>2, <3>1
  <2> HIDE DEF r
  <2>7. Len(es) = m /\ (es = <<>> <=> r.elements = <<>>) /\ \A j \in 1 .. m : es[j] = Simplify(r.elements[j])
    BY <2>2
  <2>8. q.header = r.header /\ q.name = r.name /\ q.elements = es
    <3> HIDE DEF es
    <3>1. DOMAIN Simplify(r) = DOMAIN r /\ Simplify(r).header = r.header /\ Simplify(r).name = r.name
      BY <2>1, SimplifiedParts DEF RuleFields
    <3>2. QED
      BY <2>1, <3>1 DEF RuleFields
  <2> HIDE DEF es
  <2>8a. BecomesPlain(r, q, es)
    BY <2>1, RuleBecomesPlain
  <2> HIDE DEF q
  <2>9. ASSUME r.action # "reject" PROVE SameElementSteps(r, q, c)
    <3>1. \A j \in 1 .. m : ReplacesElement(r, r.elements[j], q, q.elements[j], c)
      BY <2>2, <2>3, <2>4, <2>5, <2>7, <2>8, <2>9, SimplifiedElement
    <3>2. /\ l[0] = 0 /\ l[m] = m /\ \A j \in 0 .. m : l[j] \in Nat
          /\ \A j \in 1 .. m : l[j] = j /\ l[j] = l[j - 1] + 1 /\ l[j] \in 1 .. m
      BY <2>2
    <3>3. Len(q.elements) = m /\ m = Len(r.elements)
      BY <2>7, <2>8
    <3> HIDE DEF l, m
    <3>4. /\ l[0] = 0 /\ l[Len(q.elements)] = Len(r.elements) /\ \A j \in 0 .. Len(q.elements) : l[j] \in Nat
          /\ \A j \in 1 .. Len(q.elements) :
               /\ l[j] = l[j - 1] + 1 /\ l[j] \in 1 .. Len(r.elements)
               /\ ReplacesElement(r, r.elements[l[j]], q, q.elements[j], c)
      BY <3>1, <3>2, <3>3
    <3>5. QED
      BY <2>2, <3>3, <3>4, ElementsThread
  <2>10. Replaces(r, i, q, i, c)
    BY <2>1, <2>2, <2>4, <2>5, <2>7, <2>8a, <2>9, SimplifiedRule
  <2>11. QED
    BY <2>6, <2>10 DEF r, q
<1>4. /\ k[0] = 0 /\ k[n] = n /\ \A j \in 0 .. n : k[j] \in Nat
      /\ \A j \in 1 .. n : k[j] = j /\ k[j] = k[j - 1] + 1 /\ k[j] \in 1 .. n
  BY <1>1
<1> HIDE DEF qs, k, n
<1>5. /\ k[0] = 0 /\ k[Len(qs)] = Len(rs) /\ \A j \in 0 .. Len(qs) : k[j] \in Nat
      /\ \A j \in 1 .. Len(qs) :
           /\ k[j] = k[j - 1] + 1 /\ k[j] \in 1 .. Len(rs)
           /\ Replaces(rs[k[j]], k[j], qs[j], j, c)
  BY <1>2, <1>3, <1>4 DEF n
<1>6. Len(qs) \in Nat /\ Len(rs) \in Nat
  BY <1>1, <1>2 DEF n
<1>7. QED
  BY <1>5, <1>6, RulesThread DEF qs

-----------------------------------------------------------------------------
(* Rules and element rules that are dropped *)

\* What the rules of a walk write, no field of a name of c.
HeedAll(rs, c) ==
  \A i \in 1 .. Len(rs) :
    Heeds(rs[i], c) /\ \A j \in 1 .. Len(rs[i].elements) : HeedsElement(rs[i], rs[i].elements[j], c)

LEMMA ElementsHeed ==
  ASSUME NEW c, NEW r, Len(r.elements) \in Nat,
         \A j \in 1 .. Len(r.elements) : HeedsElement(r, r.elements[j], c), NEW s, IsState(s, c)
  PROVE  \A j \in 0 .. Len(r.elements) : IsState(AfterElements(s, r)[j], c)
<1> DEFINE n == Len(r.elements)
           u == AfterElements(s, r)
           I == {j \in Nat : j <= n => IsState(u[j], c)}
<1>1. u[0] = s /\ \A j \in 1 .. n : u[j] = NextElement(u[j - 1], r, r.elements[j])
  BY AfterElementsUnfolds
<1> HIDE DEF u
<1>2. 0 \in I
  BY <1>1
<1>3. ASSUME NEW j \in I PROVE j + 1 \in I
  <2>1. ASSUME j + 1 <= n PROVE IsState(u[j + 1], c)
    <3>1. j + 1 \in 1 .. n /\ (j + 1) - 1 = j /\ IsState(u[j], c)
      BY <2>1
    <3>2. u[j + 1] = NextElement(u[j], r, r.elements[j + 1])
      BY <1>1, <3>1
    <3>3. Agree(u[j], u[j], c)
      BY <3>1, AgreeSelf
    <3>4. Agree(NextElement(u[j], r, r.elements[j + 1]), NextElement(u[j], r, r.elements[j + 1]), c)
      BY <3>1, <3>3, ElementAgrees
    <3>5. QED
      BY <3>2, <3>4 DEF Agree
  <2>2. QED
    BY <2>1
<1>4. I = Nat
  <2> HIDE DEF I
  <2>1. QED
    BY <1>2, <1>3, NatClosure DEF I
<1>5. QED
  BY <1>4 DEF u

\* The same element rule of two rules of one header.
LEMMA ElementReplaced ==
  ASSUME NEW c, NEW r, NEW q, r.header = q.header, NEW e, HeedsElement(r, e, c),
         e.action = "store" => ElementName(r, e) = ElementName(q, e)
  PROVE  ReplacesElement(r, e, q, e, c)
BY ElementAgrees DEF ReplacesElement

LEMMA RulesHeed ==
  ASSUME NEW c, NEW rs, AreParsed(rs), HeedAll(rs, c), NEW s, IsState(s, c)
  PROVE  \A j \in 0 .. Len(rs) : IsState(AfterRules(s, rs)[j], c)
<1> DEFINE n == Len(rs)
           u == AfterRules(s, rs)
           I == {j \in Nat : j <= n => IsState(u[j], c)}
<1>1. n \in Nat /\ \A i \in 1 .. n : IsParsed(rs[i])
  BY ParsedRules
<1>2. u[0] = s /\ \A j \in 1 .. n : u[j] = NextRule(u[j - 1], rs[j], j)
  BY <1>1, AfterRulesUnfolds
<1> HIDE DEF u
<1>3. 0 \in I
  BY <1>2
<1>4. ASSUME NEW j \in I PROVE j + 1 \in I
  <2>1. ASSUME j + 1 <= n PROVE IsState(u[j + 1], c)
    <3>1. j + 1 \in 1 .. n /\ (j + 1) - 1 = j /\ IsState(u[j], c)
      BY <2>1
    <3> DEFINE r == rs[j + 1]
    <3>2. u[j + 1] = NextRule(u[j], r, j + 1)
      BY <1>2, <3>1
    <3>3. Agree(u[j], u[j], c)
      BY <3>1, AgreeSelf
    <3>4. IsParsed(r) /\ Heeds(r, c) /\ \A i \in 1 .. Len(r.elements) : HeedsElement(r, r.elements[i], c)
      BY <1>1, <3>1 DEF HeedAll
    <3> HIDE DEF r
    <3>5. Len(r.elements) \in Nat
      BY <3>4, ParsedRule
    <3>6. SameElementSteps(r, r, c)
      <4> DEFINE m == Len(r.elements)
                 l == [i \in 0 .. m |-> i]
      <4>1. \A i \in 1 .. m : ReplacesElement(r, r.elements[i], r, r.elements[i], c)
        BY <3>4, ElementReplaced
      <4>2. /\ l[0] = 0 /\ l[m] = m /\ \A i \in 0 .. m : l[i] \in Nat
            /\ \A i \in 1 .. m : l[i] = i /\ l[i] = l[i - 1] + 1 /\ l[i] \in 1 .. m
        BY <3>5
      <4> HIDE DEF l
      <4>3. QED
        BY <3>5, <4>1, <4>2, ElementsThread
    <3>7. ActsAlike(r, j + 1, r, j + 1)
      BY DEF ActsAlike
    <3>8. Agree(NextRule(u[j], r, j + 1), NextRule(u[j], r, j + 1), c)
      BY <3>3, <3>4, <3>5, <3>6, <3>7, RulesAgree
    <3>9. QED
      BY <3>2, <3>8 DEF Agree
  <2>2. QED
    BY <2>1
<1>5. I = Nat
  <2> HIDE DEF I
  <2>1. QED
    BY <1>3, <1>4, NatClosure DEF I
<1>6. QED
  BY <1>5 DEF u

\* What is left of a sequence.
Left(es, D) == FlattenSeq([j \in DOMAIN es |-> IF j \in D THEN <<>> ELSE <<es[j]>>])

\* Where in f, which is what is left, its elements are.
LeftAt(es, D, f, k) ==
  /\ k[0] = 0 /\ k[Len(es)] = Len(f) /\ \A j \in 0 .. Len(es) : k[j] \in Nat
  /\ \A j \in 1 .. Len(es) :
       IF j \in D THEN k[j] = k[j - 1]
       ELSE k[j] = k[j - 1] + 1 /\ k[j] \in 1 .. Len(f) /\ f[k[j]] = es[j]
  /\ \A m \in 1 .. Len(f) : \E j \in 1 .. Len(es) : j \notin D /\ k[j] = m /\ f[m] = es[j]

LEMMA LeftPlaces ==
  ASSUME NEW S, NEW es \in Seq(S), NEW D
  PROVE  /\ Left(es, D) \in Seq(S)
         /\ D \cap (1 .. Len(es)) = {} => Left(es, D) = es
         /\ \E k : LeftAt(es, D, Left(es, D), k)
<1> DEFINE w == [j \in DOMAIN es |-> IF j \in D THEN <<>> ELSE <<es[j]>>]
           f == FlattenSeq(w)
           n == Len(es)
<1>1. /\ w \in Seq(Seq(S)) /\ Len(w) = n /\ n \in Nat /\ DOMAIN es = 1 .. n
      /\ \A j \in 1 .. n : w[j] = (IF j \in D THEN <<>> ELSE <<es[j]>>) /\ es[j] \in S
  <2>1. n \in Nat /\ DOMAIN es = 1 .. n /\ \A j \in 1 .. n : es[j] \in S
    OBVIOUS
  <2>2. DOMAIN w = 1 .. n /\ \A j \in 1 .. n : w[j] = (IF j \in D THEN <<>> ELSE <<es[j]>>)
    BY <2>1
  <2>3. \A j \in 1 .. n : w[j] \in Seq(S)
    BY <2>1, <2>2
  <2>4. w = [j \in 1 .. n |-> w[j]]
    BY <2>1
  <2> HIDE DEF w, n
  <2>5. w \in [1 .. n -> Seq(S)]
    BY <2>3, <2>4
  <2>6. w \in Seq(Seq(S)) /\ Len(w) = n
    BY <2>1, <2>5, FunctionIsSeq
  <2>7. QED
    BY <2>1, <2>2, <2>6
<1>0. \A x, y : <<x>> # <<>> /\ (<<x>> = <<y>> => x = y)
  OBVIOUS
<1>2. Left(es, D) = f
  BY DEF Left
<1>3. D \cap (1 .. n) = {} => f = es
  <2> SUFFICES ASSUME D \cap (1 .. n) = {} PROVE f = es
    OBVIOUS
  <2>1. w = [j \in DOMAIN es |-> <<es[j]>>]
    BY <1>1
  <2> HIDE DEF w
  <2>2. QED
    BY <2>1, FlattenSingletons
<1> HIDE DEF w
<1>4. \A j \in 1 .. Len(w) : w[j] = <<>> \/ \E x \in S : w[j] = <<x>>
  BY <1>1
<1>5. f \in Seq(S) /\ \E k : Places(w, f, k)
  BY <1>1, <1>4, FlattenPlaces
<1> HIDE DEF f
<1>6. PICK k : Places(w, f, k)
  BY <1>5
<1>7. /\ k[0] = 0 /\ k[n] = Len(f) /\ \A j \in 0 .. n : k[j] \in Nat
      /\ \A j \in 1 .. n :
           \/ w[j] = <<>> /\ k[j] = k[j - 1]
           \/ k[j] = k[j - 1] + 1 /\ k[j] \in 1 .. Len(f) /\ w[j] = <<f[k[j]]>>
      /\ \A m \in 1 .. Len(f) : \E j \in 1 .. n : k[j] = m /\ w[j] = <<f[m]>>
  BY <1>1, <1>6 DEF Places
<1>8. ASSUME NEW j \in 1 .. n
      PROVE  IF j \in D THEN k[j] = k[j - 1]
             ELSE k[j] = k[j - 1] + 1 /\ k[j] \in 1 .. Len(f) /\ f[k[j]] = es[j]
  <2>1. CASE j \in D
    <3>1. w[j] = <<>>
      BY <1>1, <2>1
    <3>2. k[j] = k[j - 1]
      BY <1>0, <1>7, <3>1
    <3>3. QED
      BY <2>1, <3>2
  <2>2. CASE j \notin D
    <3>1. w[j] = <<es[j]>> /\ w[j] # <<>>
      BY <1>0, <1>1, <2>2
    <3>2. k[j] = k[j - 1] + 1 /\ k[j] \in 1 .. Len(f) /\ w[j] = <<f[k[j]]>>
      BY <1>7, <3>1
    <3>3. f[k[j]] = es[j]
      BY <1>0, <3>1, <3>2
    <3>4. QED
      BY <2>2, <3>2, <3>3
  <2>3. QED
    BY <2>1, <2>2
<1>9. ASSUME NEW m \in 1 .. Len(f)
      PROVE  \E j \in 1 .. n : j \notin D /\ k[j] = m /\ f[m] = es[j]
  <2>1. PICK j \in 1 .. n : k[j] = m /\ w[j] = <<f[m]>>
    BY <1>7
  <2>2. j \notin D /\ w[j] = <<es[j]>>
    BY <1>0, <1>1, <2>1
  <2>3. f[m] = es[j]
    BY <1>0, <2>1, <2>2
  <2>4. QED
    BY <2>1, <2>2, <2>3
<1>10. LeftAt(es, D, f, k)
  BY <1>7, <1>8, <1>9 DEF LeftAt
<1>11. QED
  BY <1>2, <1>3, <1>5, <1>10

LEMMA ElementsDropped ==
  ASSUME NEW c, NEW r, IsParsed(r), \A j \in 1 .. Len(r.elements) : HeedsElement(r, r.elements[j], c),
         NEW D, \A j \in 1 .. Len(r.elements) : j \in D => SuperfluousElement(r, j, c),
         NEW q, q.elements = Left(r.elements, D), q.header = r.header,
         \A j \in 1 .. Len(r.elements) :
           r.elements[j].action = "store" => ElementName(r, r.elements[j]) = ElementName(q, r.elements[j])
  PROVE  SameElementSteps(q, r, c)
<1> DEFINE f == q.elements
           n == Len(r.elements)
<1>1. n \in Nat /\ r.elements \in Seq(ToSet(r.elements))
  BY ParsedRule DEF IsParsed
<1>0. f = Left(r.elements, D)
  OBVIOUS
<1> HIDE DEF f
<1>2. f \in Seq(ToSet(r.elements)) /\ \E k : LeftAt(r.elements, D, f, k)
  BY <1>0, <1>1, LeftPlaces
<1>2a. PICK k : LeftAt(r.elements, D, f, k)
  BY <1>2
<1>3. /\ k[0] = 0 /\ k[n] = Len(f) /\ \A j \in 0 .. n : k[j] \in Nat
      /\ \A j \in 1 .. n :
           IF j \in D THEN k[j] = k[j - 1]
           ELSE k[j] = k[j - 1] + 1 /\ k[j] \in 1 .. Len(f) /\ f[k[j]] = r.elements[j]
  BY <1>2a DEF LeftAt
<1>4. Len(q.elements) \in Nat /\ f = q.elements
  BY <1>2 DEF f
<1>5. ASSUME NEW j \in 1 .. n
      PROVE  ReplacesElement(q, r.elements[j], r, r.elements[j], c)
  <2>1. HeedsElement(q, r.elements[j], c)
    BY DEF HeedsElement
  <2>2. QED
    BY <2>1, ElementReplaced
<1>6. \A j \in 1 .. n :
        \/ k[j] = k[j - 1] /\ SuperfluousElement(r, j, c)
        \/ /\ k[j] = k[j - 1] + 1 /\ k[j] \in 1 .. Len(q.elements)
           /\ ReplacesElement(q, q.elements[k[j]], r, r.elements[j], c)
  BY <1>3, <1>4, <1>5
<1>7. QED
  BY <1>1, <1>3, <1>4, <1>6, ElementsThread

LEMMA RulesDropped ==
  ASSUME NEW c, NEW rs, Len(rs) \in Nat, DOMAIN rs = 1 .. Len(rs), NEW D,
         \A j \in 1 .. Len(rs) : j \in D => Superfluous(rs, j, c),
         NEW S, NEW G \in Seq(S), Len(G) = Len(rs),
         \A j \in 1 .. Len(rs) : j \notin D =>
           \A m : m = j \/ D \cap (1 .. Len(rs)) # {} => Replaces(G[j], m, rs[j], j, c),
         NEW s, IsState(s, c)
  PROVE  Agree(Walk(s, Left(G, D)), Walk(s, rs), c)
<1> DEFINE n == Len(rs)
           f == Left(G, D)
<1>1. CASE D \cap (1 .. n) = {}
  <2> DEFINE k == [j \in 0 .. n |-> j]
  <2>1. f = G /\ Len(f) = n
    BY <1>1, LeftPlaces
  <2>2. /\ k[0] = 0 /\ k[n] = n /\ \A j \in 0 .. n : k[j] \in Nat
        /\ \A j \in 1 .. n : k[j] = j /\ k[j] = k[j - 1] + 1 /\ k[j] \in 1 .. n
    OBVIOUS
  <2> HIDE DEF k, f
  <2>3. \A j \in 1 .. n : Replaces(f[k[j]], k[j], rs[j], j, c)
    BY <1>1, <2>1, <2>2
  <2>4. \A j \in 1 .. Len(rs) :
           /\ k[j] = k[j - 1] + 1 /\ k[j] \in 1 .. Len(f)
           /\ Replaces(f[k[j]], k[j], rs[j], j, c)
    BY <2>1, <2>2, <2>3
  <2>5. QED
    BY <2>1, <2>2, <2>4, RulesThread DEF f
<1>2. CASE D \cap (1 .. n) # {}
  <2>1. f \in Seq(S) /\ \E k : LeftAt(G, D, f, k)
    BY LeftPlaces
  <2> HIDE DEF f
  <2>1a. PICK k : LeftAt(G, D, f, k)
    BY <2>1
  <2>2. /\ k[0] = 0 /\ k[n] = Len(f) /\ \A j \in 0 .. n : k[j] \in Nat
        /\ \A j \in 1 .. n :
             IF j \in D THEN k[j] = k[j - 1]
             ELSE k[j] = k[j - 1] + 1 /\ k[j] \in 1 .. Len(f) /\ f[k[j]] = G[j]
    BY <2>1a DEF LeftAt
  <2>3. \A j \in 1 .. n :
          \/ k[j] = k[j - 1] /\ Superfluous(rs, j, c)
          \/ /\ k[j] = k[j - 1] + 1 /\ k[j] \in 1 .. Len(f)
             /\ Replaces(f[k[j]], k[j], rs[j], j, c)
    BY <1>2, <2>2
  <2>4. Len(f) \in Nat
    BY <2>1
  <2>5. QED
    BY <2>2, <2>3, <2>4, RulesThread DEF f
<1>3. QED
  BY <1>1, <1>2

-----------------------------------------------------------------------------
(* Dead code *)

\* A guard leaves all but the captures.
LEMMA GuardOnly ==
  ASSUME NEW c, NEW s, IsState(s, c), NEW cmp, NEW m, NEW x, cmp # "pattern" \/ c.ignored # {}
  PROVE  Agree(AfterGuard(s, cmp, m, x), s, c)
<1>1. CASE Unconditional(m) \/ cmp # "pattern"
  BY <1>1, AgreeSelf DEF AfterGuard
<1>2. CASE ~(Unconditional(m) \/ cmp # "pattern")
  BY <1>2, EditOfNothing DEF AfterGuard
<1>3. QED
  BY <1>1, <1>2

LEMMA NoElements ==
  ASSUME NEW s, NEW r, r.elements = <<>>
  PROVE  RunElements(s, r) = s
<1>1. Len(r.elements) = 0
  OBVIOUS
<1>2. AfterElements(s, r)[0] = s
  BY <1>1, AfterElementsUnfolds
<1>3. QED
  BY <1>1, <1>2 DEF RunElements

LEMMA DeadRule ==
  ASSUME NEW c, NEW s, IsState(s, c), <<>> \in c.names, NEW r, NEW i, Dead(r),
         r.action \in {"none", "delete"}, r.elements = <<>>, r.cmp # "pattern" \/ c.ignored # {}
  PROVE  Agree(s, NextRule(s, r, i), c)
<1> DEFINE x == Value(s.fields, r.header)
           u == AfterGuard(s, r.cmp, r.match, x)
           a == HeaderAct(u, r, i)
<1>1. Agree(u, s, c)
  <2> HIDE DEF x
  <2>1. QED
    BY GuardOnly
<1>2. RunElements(a, r) = a
  BY NoElements
<1>3. RunRule(s, r, i) \in {s, u, a}
  BY <1>2 DEF RunRule
<1> HIDE DEF u, x
<1>4. IsState(u, c)
  BY <1>1 DEF Agree
<1>5. Agree(a, u, c)
  <2>1. CASE r.action = "none"
    <3>1. a = u
      BY <2>1 DEF HeaderAct, SetsHeader
    <3>2. QED
      BY <1>4, <3>1, AgreeSelf
  <2>2. CASE r.action = "delete"
    <3>1. r.header = <<>>
      BY <2>2 DEF Dead
    <3>2. a = [u EXCEPT !.fields = Without(u.fields, <<>>)]
      BY <2>2, <3>1 DEF HeaderAct, SetsHeader
    <3>3. IsFields(u.fields, c.names) /\ \A f \in ToSet(u.fields) : ~SameName(f.name, <<>>)
      BY <1>4 DEF IsState, IsFields
    <3>4. Without(u.fields, <<>>) = u.fields
      BY <3>3, WithoutNothing
    <3>5. QED
      BY <1>4, <3>2, <3>4, EditOfNothing
  <2>3. QED
    BY <2>1, <2>2
<1> HIDE DEF a
<1>6. Agree(RunRule(s, r, i), s, c)
  BY <1>1, <1>3, <1>5, AgreeOn, AgreeSelf
<1>7. QED
  BY <1>6, AgreeBack, AgreeSelf DEF NextRule

LEMMA WorkingIsLeft ==
  ASSUME NEW es
  PROVE  Working(es) = Left(es, Idle(es))
BY DEF Working, Left

LEMMA IdleElement ==
  ASSUME NEW c, NEW r, Len(r.elements) \in Nat, DOMAIN r.elements = 1 .. Len(r.elements),
         \A j \in 1 .. Len(r.elements) : HeedsElement(r, r.elements[j], c),
         NEW j \in 1 .. Len(r.elements), j \in Idle(r.elements)
  PROVE  SuperfluousElement(r, j, c)
<1> SUFFICES ASSUME NEW s, IsState(s, c)
             PROVE  Agree(AfterElements(s, r)[j - 1], AfterElements(s, r)[j], c)
  BY DEF SuperfluousElement
<1>1. AfterElements(s, r)[j] = NextElement(AfterElements(s, r)[j - 1], r, r.elements[j])
  BY AfterElementsUnfolds
<1>2. IsState(AfterElements(s, r)[j - 1], c)
  <2>1. j - 1 \in 0 .. Len(r.elements)
    OBVIOUS
  <2>2. QED
    BY <2>1, ElementsHeed
<1>3. ~Supported(r.elements[j])
  <2>1. r.elements[j].type = "none"
    BY DEF Idle
  <2>2. QED
    BY <2>1 DEF Supported, UriElements
<1>4. QED
  BY <1>1, <1>2, <1>3, AgreeSelf DEF NextElement, RunElement

LEMMA WorkingElements ==
  ASSUME NEW S, NEW es \in Seq(S)
  PROVE  /\ Working(es) = Left(es, Idle(es)) /\ Working(es) \in Seq(S) /\ Len(Working(es)) \in Nat
         /\ es = <<>> => Working(es) = <<>>
<1>1. Working(es) = Left(es, Idle(es))
  BY WorkingIsLeft
<1>2. Working(es) \in Seq(S)
  BY <1>1, LeftPlaces
<1>3. es = <<>> => Working(es) = <<>>
  <2>1. es = <<>> => Idle(es) \cap (1 .. Len(es)) = {}
    OBVIOUS
  <2>2. QED
    BY <1>1, <2>1, LeftPlaces
<1>4. QED
  BY <1>1, <1>2, <1>3

LEMMA TrimmedRule ==
  ASSUME NEW c, NEW r, IsParsed(r), Heeds(r, c), \A j \in 1 .. Len(r.elements) : HeedsElement(r, r.elements[j], c),
         r.new # <<>> /\ Working(r.elements) = <<>> => r.elements = <<>>,
         NEW q, q = [r EXCEPT !.elements = Working(@)], NEW i, NEW m, m = i \/ r.name # "" \/ r.action # "store"
  PROVE  Replaces(q, m, r, i, c)
<1> SUFFICES ASSUME NEW s, NEW t, Agree(s, t, c)
             PROVE  Agree(NextRule(s, q, m), NextRule(t, r, i), c)
  BY DEF Replaces
<1> DEFINE es == Working(r.elements)
<1>1. /\ DOMAIN r = RuleFields /\ Len(r.elements) \in Nat /\ DOMAIN r.elements = 1 .. Len(r.elements)
      /\ r.elements \in Seq(ToSet(r.elements))
  BY ParsedRule DEF IsParsed
<1>2. es = Left(r.elements, Idle(r.elements)) /\ Len(es) \in Nat /\ (r.elements = <<>> => es = <<>>)
  BY <1>1, WorkingElements
<1> HIDE DEF es
<1>4. q = [r EXCEPT !.elements = es]
  BY DEF es
<1>5. /\ q.header = r.header /\ q.action = r.action /\ q.new = r.new /\ q.name = r.name /\ q.msg = r.msg
      /\ q.methods = r.methods /\ q.elements = es /\ q.cmp = r.cmp /\ q.match = r.match
  BY <1>1, <1>4 DEF RuleFields
<1>7. SetsHeader(q) <=> SetsHeader(r)
  BY <1>2, <1>5 DEF SetsHeader, es
<1>8. r.action = "store" => RuleName(q, m) = RuleName(r, i)
  BY <1>5 DEF RuleName
<1>9. ActsAlike(q, m, r, i)
  BY <1>5, <1>7, <1>8 DEF ActsAlike
<1>10. Heeds(q, c)
  BY <1>5 DEF Heeds
<1>11. \A j \in 1 .. Len(r.elements) : j \in Idle(r.elements) => SuperfluousElement(r, j, c)
  BY <1>1, IdleElement
<1>12. \A j \in 1 .. Len(r.elements) : ElementName(r, r.elements[j]) = ElementName(q, r.elements[j])
  BY <1>5 DEF ElementName
<1>13. SameElementSteps(q, r, c)
  BY <1>2, <1>5, <1>11, <1>12, ElementsDropped
<1>14. Len(q.elements) \in Nat
  BY <1>2, <1>5
<1>15. QED
  BY <1>1, <1>5, <1>9, <1>10, <1>13, <1>14, RulesAgree

LEMMA EliminationHeeds ==
  ASSUME Engine, NEW rs, AreParsed(rs), EliminationIsSafe(rs), NEW c, c.ignored = {} \/ CapturesUnread(rs),
         c.names = IF \E i \in 1 .. Len(rs) : Dead(rs[i]) THEN {<<>>} ELSE {}
  PROVE  HeedAll(rs, c)
<1> SUFFICES ASSUME NEW i \in 1 .. Len(rs)
             PROVE  Heeds(rs[i], c) /\ \A j \in 1 .. Len(rs[i].elements) : HeedsElement(rs[i], rs[i].elements[j], c)
  BY DEF HeedAll
<1>1. DOMAIN rs = 1 .. Len(rs) /\ IsParsed(rs[i])
  BY ParsedRules
<1> DEFINE r == rs[i]
           d == [c EXCEPT !.names = {}]
<1>2. c.ignored # {} =>
        /\ ~ReadsCapture(r.new)
        /\ \A j \in 1 .. Len(r.elements) : ~ReadsCapture(r.elements[j].new)
        /\ r.action = "store" /\ r.cmp = "pattern" => ~Unconditional(r.match)
  <2>1. DOMAIN r.elements = 1 .. Len(r.elements)
    BY <1>1, ParsedRule
  <2>2. QED
    BY <1>1, <2>1 DEF CapturesUnread
<1>3. Groups(r.match.text) \in Nat
  BY DEF Engine, SearchesAsWritten
<1>4. CASE c.names = {}
  BY <1>2, <1>3, <1>4 DEF Heeds, HeedsElement
<1>5. CASE c.names = {<<>>} /\ \E k \in 1 .. Len(rs) : Dead(rs[k])
  <2>1. r.header = <<>> => r.elements = <<>>
    BY <1>1, <1>5 DEF EliminationIsSafe
  <2>2. Dead(r) => r.action \in {"none", "delete"}
    BY <1>1 DEF EliminationIsSafe
  <2>3. SameName(r.header, <<>>) => r.header = <<>>
    BY <1>1 DEF IsParsed
  <2>4. r.action \in {"add", "replace", "manipulate"} => r.header # <<>>
    BY <2>2 DEF Dead, NeedsHeader
  <2>5. \A j \in 1 .. Len(r.elements) : r.header # <<>>
    BY <2>1
  <2> HIDE DEF r
  <2>6. Heeds(r, c)
    BY <1>2, <1>3, <1>5, <2>3, <2>4 DEF Heeds
  <2>7. \A j \in 1 .. Len(r.elements) : HeedsElement(r, r.elements[j], c)
    BY <1>2, <1>5, <2>3, <2>5 DEF HeedsElement
  <2>8. QED
    BY <2>6, <2>7 DEF r
<1>6. QED
  BY <1>4, <1>5

LEMMA EliminationAgrees ==
  ASSUME Engine, NEW rs, AreParsed(rs), EliminationIsSafe(rs),
         NEW c, c.ignored = {} <=> ~CapturesUnread(rs),
         c.names = IF \E i \in 1 .. Len(rs) : Dead(rs[i]) THEN {<<>>} ELSE {},
         NEW s, IsState(s, c)
  PROVE  Agree(Walk(s, Alive(rs)), Walk(s, rs), c)
<1> DEFINE n == Len(rs)
           D == {i \in 1 .. n : Dead(rs[i])}
           G == [i \in DOMAIN rs |-> [rs[i] EXCEPT !.elements = Working(@)]]
           S == {G[i] : i \in 1 .. n}
<1>1. n \in Nat /\ DOMAIN rs = 1 .. n /\ \A i \in 1 .. n : IsParsed(rs[i])
  BY ParsedRules
<1>2. HeedAll(rs, c)
  BY EliminationHeeds
<1>3. G \in Seq(S) /\ Len(G) = n /\ DOMAIN G = 1 .. n
  <2>1. DOMAIN G = 1 .. n /\ \A i \in 1 .. n : G[i] \in S
    BY <1>1
  <2>2. G = [i \in 1 .. n |-> G[i]]
    BY <1>1
  <2> HIDE DEF G, n
  <2>3. G \in [1 .. n -> S]
    BY <2>1, <2>2
  <2>4. QED
    BY <1>1, <2>1, <2>3, FunctionIsSeq
<1>4. Alive(rs) = Left(G, D)
  <2> DEFINE w == [i \in DOMAIN rs |-> IF Dead(rs[i]) THEN <<>> ELSE <<[rs[i] EXCEPT !.elements = Working(@)]>>]
  <2>1. w = [i \in DOMAIN G |-> IF i \in D THEN <<>> ELSE <<G[i]>>]
    BY <1>1
  <2>2. QED
    BY <2>1 DEF Alive, Left
<1>5. ASSUME NEW j \in 1 .. n, j \in D
      PROVE  Superfluous(rs, j, c)
  <2> SUFFICES ASSUME NEW t, IsState(t, c)
               PROVE  Agree(AfterRules(t, rs)[j - 1], AfterRules(t, rs)[j], c)
    BY DEF Superfluous
  <2>1. AfterRules(t, rs)[j] = NextRule(AfterRules(t, rs)[j - 1], rs[j], j)
    BY <1>1, AfterRulesUnfolds
  <2>2. IsState(AfterRules(t, rs)[j - 1], c)
    <3>1. j - 1 \in 0 .. Len(rs)
      BY <1>1
    <3>2. QED
      BY <1>2, <3>1, RulesHeed
  <2>3. /\ Dead(rs[j]) /\ rs[j].action \in {"none", "delete"} /\ rs[j].elements = <<>>
        /\ rs[j].cmp # "pattern" \/ c.ignored # {}
    BY <1>1, <1>5 DEF EliminationIsSafe
  <2>4. <<>> \in c.names
    BY <1>5
  <2>5. QED
    BY <2>1, <2>2, <2>3, <2>4, DeadRule
<1>6. ASSUME NEW j \in 1 .. n, j \notin D, NEW m, m = j \/ D \cap (1 .. n) # {}
      PROVE  Replaces(G[j], m, rs[j], j, c)
  <2>1. m = j \/ rs[j].name # "" \/ rs[j].action # "store"
    <3>1. CASE D \cap (1 .. n) # {}
      <4>1. PICK i \in 1 .. n : Dead(rs[i])
        BY <3>1
      <4>2. StoresAreNamed(rs)
        BY <1>1, <4>1 DEF EliminationIsSafe
      <4>3. QED
        BY <1>1, <4>2 DEF StoresAreNamed
    <3>2. QED
      BY <1>6, <3>1
  <2>2. rs[j].new # <<>> /\ Working(rs[j].elements) = <<>> => rs[j].elements = <<>>
    BY <1>1 DEF EliminationIsSafe
  <2>3. G[j] = [rs[j] EXCEPT !.elements = Working(@)]
    BY <1>1
  <2>4. Heeds(rs[j], c) /\ \A i \in 1 .. Len(rs[j].elements) : HeedsElement(rs[j], rs[j].elements[i], c)
    BY <1>2 DEF HeedAll
  <2>5. IsParsed(rs[j])
    BY <1>1
  <2> HIDE DEF G
  <2>6. QED
    BY <2>1, <2>2, <2>3, <2>4, <2>5, TrimmedRule
<1> HIDE DEF D, G, S, n
<1>7. QED
  BY <1>1, <1>3, <1>4, <1>5, <1>6, RulesDropped DEF n

-----------------------------------------------------------------------------
(* Repetitions *)

\* A text is the same after the fields, or a slot it does not read, changed.
LEMMA EvalOfFields ==
  ASSUME NEW c, NEW s, IsState(s, c), NEW x, NEW v
  PROVE  Eval([s EXCEPT !.fields = x], v) = Eval(s, v)
<1> DEFINE u == [s EXCEPT !.fields = x]
<1>1. u.slots = s.slots /\ u.keys = s.keys /\ u.captures = s.captures
  BY DEF IsState, StateParts
<1> HIDE DEF u
<1>2. \A k : LoadSlot(u, k) = LoadSlot(s, k)
  BY <1>1 DEF LoadSlot
<1>3. \A g : Capture(u, g) = Capture(s, g)
  BY <1>1 DEF Capture
<1>4. \A seg : SegmentText(u, seg) = SegmentText(s, seg)
  BY <1>2, <1>3 DEF SegmentText
<1>5. [i \in DOMAIN v |-> SegmentText(u, v[i])] = [i \in DOMAIN v |-> SegmentText(s, v[i])]
  BY <1>4
<1>6. Eval(u, v) = Eval(s, v)
  BY <1>5 DEF Eval
<1>7. QED
  BY <1>6 DEF u

\* The second of two equal edits does nothing.
LEMMA EditedAgain ==
  ASSUME NEW c, NEW s, IsState(s, c), NEW x, IsFields(x, c.names), NEW y, y = x
  PROVE  /\ IsState([s EXCEPT !.fields = x], c) /\ [s EXCEPT !.fields = x].fields = x
         /\ Agree([[s EXCEPT !.fields = x] EXCEPT !.fields = y], [s EXCEPT !.fields = x], c)
<1> DEFINE u == [s EXCEPT !.fields = x]
<1>1. Agree(s, s, c)
  BY AgreeSelf
<1>2. Agree(u, u, c)
  BY <1>1, EditsAgree
<1>3. u.fields = x
  BY DEF IsState, StateParts
<1> HIDE DEF u
<1>4. IsState(u, c)
  BY <1>2 DEF Agree
<1>5. Agree([u EXCEPT !.fields = y], u, c)
  BY <1>3, <1>4, EditOfNothing
<1>6. QED
  BY <1>3, <1>4, <1>5 DEF u

\* An action of a rule on what the same action has made.
LEMMA ActedAgain ==
  ASSUME NEW c, NEW s, IsState(s, c), NEW r, NEW i, NEW j, Heeds(r, c), SameName(r.header, r.header),
         r.cmp # "pattern", r.action \notin {"add", "log", "reject"},
         r.action = "store" => RuleName(r, i) = RuleName(r, j)
  PROVE  Agree(HeaderAct(HeaderAct(s, r, i), r, j), HeaderAct(s, r, i), c)
<1> DEFINE n == r.header
           f == s.fields
<1>0. IsFields(f, c.names)
  BY DEF IsState
<1>1. CASE SetsHeader(r)
  <2> DEFINE x == Put(f, n, Eval(s, r.new))
             u == [s EXCEPT !.fields = x]
             y == Put(u.fields, n, Eval(u, r.new))
  <2>0. r.action \in {"replace", "manipulate"}
    BY <1>1 DEF SetsHeader
  <2>1. \A t, k : HeaderAct(t, r, k) = [t EXCEPT !.fields = Put(t.fields, r.header, Eval(t, r.new))]
    BY <1>1, <2>0 DEF HeaderAct
  <2>2. HeaderAct(s, r, i) = u /\ HeaderAct(u, r, j) = [u EXCEPT !.fields = y]
    BY <2>1
  <2>3. IsFields(x, c.names)
    BY <1>0, <2>0, PutFields DEF Heeds
  <2>4. u.fields = x
    BY DEF IsState, StateParts
  <2>5. Eval(u, r.new) = Eval(s, r.new)
    BY EvalOfFields
  <2>6. y = x
    <3>1. y = Put(Put(f, n, Eval(s, r.new)), n, Eval(s, r.new))
      BY <2>4, <2>5
    <3>2. QED
      BY <1>0, <3>1, PutAgain
  <2> HIDE DEF x, y
  <2>7. Agree([u EXCEPT !.fields = y], u, c)
    BY <2>3, <2>6, EditedAgain
  <2> HIDE DEF u
  <2>8. QED
    BY <2>2, <2>7
<1>2. CASE r.action = "delete"
  <2> DEFINE x == Without(f, n)
             u == [s EXCEPT !.fields = x]
             y == Without(u.fields, n)
  <2>1. \A t, k : HeaderAct(t, r, k) = [t EXCEPT !.fields = Without(t.fields, r.header)]
    BY <1>2 DEF HeaderAct, SetsHeader
  <2>2. HeaderAct(s, r, i) = u /\ HeaderAct(u, r, j) = [u EXCEPT !.fields = y]
    BY <2>1
  <2>3. u.fields = x
    BY DEF IsState, StateParts
  <2>4. y = x /\ IsFields(x, c.names)
    BY <1>0, <2>3, WithoutFields
  <2> HIDE DEF x, y
  <2>5. Agree([u EXCEPT !.fields = y], u, c)
    BY <2>4, EditedAgain
  <2> HIDE DEF u
  <2>6. QED
    BY <2>2, <2>5
<1>3. CASE r.action = "store"
  <2> DEFINE k == Key(RuleName(r, i), 0)
             x == Value(f, n)
             u == StoreSlot(s, k, x)
  <2>1. \A t, m : HeaderAct(t, r, m) = StoreSlot(t, Key(RuleName(r, m), 0), Value(t.fields, r.header))
    BY <1>3 DEF HeaderAct, SetsHeader
  <2>2. u.fields = f
    BY DEF StoreSlot, IsState, StateParts
  <2>3. HeaderAct(s, r, i) = u /\ HeaderAct(u, r, j) = StoreSlot(u, k, x)
    BY <1>3, <2>1, <2>2
  <2> HIDE DEF k, x
  <2>4. QED
    BY <2>3, StoredAgain
<1>4. CASE r.action \notin {"delete", "store"} /\ ~SetsHeader(r)
  <2>1. \A t, k : HeaderAct(t, r, k) = t
    BY <1>4 DEF HeaderAct
  <2>2. QED
    BY <2>1, AgreeSelf
<1>5. QED
  BY <1>1, <1>2, <1>3, <1>4

\* An action makes of a state a state.
LEMMA ActedIsState ==
  ASSUME NEW c, NEW s, IsState(s, c), NEW r, NEW i, Heeds(r, c)
  PROVE  IsState(HeaderAct(s, r, i), c)
<1>1. Agree(s, s, c) /\ ActsAlike(r, i, r, i)
  BY AgreeSelf DEF ActsAlike
<1>2. Agree(HeaderAct(s, r, i), HeaderAct(s, r, i), c)
  BY <1>1, HeaderActAgrees
<1>3. QED
  BY <1>2 DEF Agree

LEMMA RepeatedRule ==
  ASSUME NEW c, NEW s, IsState(s, c), NEW r, NEW i, NEW j, Heeds(r, c), SameName(r.header, r.header),
         r.cmp # "pattern", r.action \notin {"add", "log"}, r.elements = <<>>,
         r.action = "store" => RuleName(r, i) = RuleName(r, j)
  PROVE  Agree(NextRule(s, r, i), NextRule(NextRule(s, r, i), r, j), c)
<1> DEFINE Turn(t, k) ==
             IF t.verdict = Accepted /\ Concerns(t, r) /\ Passes(t, r.cmp, "any", r.match, Value(t.fields, r.header))
             THEN HeaderAct(t, r, k) ELSE t
<1>1. \A t, k : NextRule(t, r, k) = Turn(t, k)
  <2> TAKE t, k
  <2>1. AfterGuard(t, r.cmp, r.match, Value(t.fields, r.header)) = t
    BY DEF AfterGuard
  <2>2. RunElements(HeaderAct(t, r, k), r) = HeaderAct(t, r, k)
    BY NoElements
  <2>3. QED
    BY <2>1, <2>2 DEF NextRule, RunRule
<1> DEFINE u == NextRule(s, r, i)
<1>2. u = s \/ u = HeaderAct(s, r, i)
  BY <1>1
<1>3. NextRule(u, r, j) = u \/ NextRule(u, r, j) = HeaderAct(u, r, j)
  BY <1>1
<1>4. IsState(u, c)
  BY <1>2, ActedIsState
<1>5. CASE NextRule(u, r, j) = u
  BY <1>4, <1>5, AgreeSelf
<1>6. CASE NextRule(u, r, j) # u /\ u = s
  <2>1. Turn(s, i) = s /\ Turn(s, j) # s
    BY <1>1, <1>6
  <2>2. HeaderAct(s, r, j) # HeaderAct(s, r, i)
    BY <2>1
  <2>3. r.action = "store" /\ RuleName(r, i) # RuleName(r, j)
    BY <2>2 DEF HeaderAct, StoreGroups
  <2>4. QED
    BY <2>3
<1>7. CASE NextRule(u, r, j) # u /\ u # s
  <2>1. u = HeaderAct(s, r, i) /\ NextRule(u, r, j) = HeaderAct(u, r, j) /\ u.verdict = Accepted
    BY <1>1, <1>2, <1>7
  <2>2. r.action # "reject"
    <3>1. SUFFICES ASSUME r.action = "reject" PROVE FALSE
      OBVIOUS
    <3>2. u = [s EXCEPT !.verdict = <<Reason(s, r)>>]
      BY <2>1, <3>1 DEF HeaderAct, SetsHeader
    <3>3. u.verdict # Accepted
      BY <3>2 DEF IsState, StateParts, Accepted
    <3>4. QED
      BY <2>1, <3>3
  <2>3. Agree(HeaderAct(u, r, j), u, c)
    BY <2>1, <2>2, ActedAgain
  <2>4. QED
    BY <2>1, <2>3, AgreeBack
<1>8. QED
  BY <1>5, <1>6, <1>7

LEMMA DeduplicationAgrees ==
  ASSUME Engine, NEW rs, AreParsed(rs), DeduplicationIsSafe(rs),
         NEW c, c.ignored = {}, c.names = {}, NEW s, IsState(s, c)
  PROVE  Agree(Walk(s, Deduplicated(rs)), Walk(s, rs), c)
<1> DEFINE n == Len(rs)
           D == Duplicates(rs, Sigs(rs))
<1>1. n \in Nat /\ DOMAIN rs = 1 .. n /\ (\A i \in 1 .. n : IsParsed(rs[i])) /\ rs \in Seq(ToSet(rs))
  BY ParsedRules DEF AreParsed
<1>2. Deduplicated(rs) = Left(rs, D)
  BY DEF Deduplicated, WithoutDuplicates, Left
<1>3. HeedAll(rs, c)
  BY UnreadHeeds DEF HeedAll
<1>4. \A j \in D : /\ j \in 1 .. n /\ Repeats(rs, j) /\ rs[j].action \notin {"add", "log"}
                   /\ rs[j].elements = <<>> /\ StoresAreNamed(rs)
  BY <1>1 DEF DeduplicationIsSafe, Duplicates, IsIdempotent
<1> HIDE DEF D
<1>5. ASSUME NEW j \in 1 .. n, j \in D
      PROVE  Superfluous(rs, j, c)
  <2> SUFFICES ASSUME NEW t, IsState(t, c)
               PROVE  Agree(AfterRules(t, rs)[j - 1], AfterRules(t, rs)[j], c)
    BY DEF Superfluous
  <2> DEFINE u == AfterRules(t, rs)
             r == rs[j]
  <2>1. /\ j > 1 /\ rs[j - 1] = r /\ r.cmp # "pattern" /\ r.action \notin {"add", "log"}
        /\ r.elements = <<>> /\ StoresAreNamed(rs)
    BY <1>4, <1>5 DEF Repeats
  <2>2. j - 1 \in 1 .. n /\ j - 2 \in 0 .. n /\ (j - 1) - 1 = j - 2
    BY <1>1, <2>1
  <2>3. u[j] = NextRule(u[j - 1], rs[j], j) /\ u[j - 1] = NextRule(u[(j - 1) - 1], rs[j - 1], j - 1)
    BY <1>1, <2>2, AfterRulesUnfolds
  <2>4. IsState(u[j - 2], c)
    BY <1>3, <2>2, RulesHeed
  <2>5. Heeds(r, c) /\ SameName(r.header, r.header)
    BY <1>1, <1>3 DEF HeedAll, IsParsed
  <2>6. r.action = "store" => RuleName(r, j - 1) = RuleName(r, j)
    BY <1>1, <2>1 DEF StoresAreNamed, RuleName
  <2> HIDE DEF u, r
  <2>7. Agree(NextRule(u[j - 2], r, j - 1), NextRule(NextRule(u[j - 2], r, j - 1), r, j), c)
    BY <2>1, <2>4, <2>5, <2>6, RepeatedRule
  <2>8. QED
    BY <2>1, <2>2, <2>3, <2>7 DEF u, r
<1>6. ASSUME NEW j \in 1 .. n, j \notin D, NEW m, m = j \/ D \cap (1 .. n) # {}
      PROVE  Replaces(rs[j], m, rs[j], j, c)
  <2> SUFFICES ASSUME NEW t, NEW v, Agree(t, v, c)
               PROVE  Agree(NextRule(t, rs[j], m), NextRule(v, rs[j], j), c)
    BY DEF Replaces
  <2> DEFINE r == rs[j]
  <2>1. IsParsed(r) /\ Heeds(r, c) /\ \A i \in 1 .. Len(r.elements) : HeedsElement(r, r.elements[i], c)
    BY <1>1, <1>3 DEF HeedAll
  <2>2. r.action = "store" => RuleName(r, m) = RuleName(r, j)
    <3>1. CASE D \cap (1 .. n) # {}
      BY <1>1, <1>4, <3>1 DEF StoresAreNamed, RuleName
    <3>2. QED
      BY <1>6, <3>1
  <2> HIDE DEF r
  <2>3. ActsAlike(r, m, r, j)
    BY <2>2 DEF ActsAlike
  <2>4. Len(r.elements) \in Nat /\ r.elements \in Seq(ToSet(r.elements))
    BY <2>1, ParsedRule DEF IsParsed
  <2>5. SameElementSteps(r, r, c)
    <3>1. r.elements = Left(r.elements, {})
      BY <2>4, LeftPlaces
    <3>2. QED
      BY <2>1, <3>1, ElementsDropped
  <2>6. Agree(NextRule(t, r, m), NextRule(v, r, j), c)
    BY <2>1, <2>3, <2>4, <2>5, RulesAgree
  <2>7. QED
    BY <2>6 DEF r
<1> HIDE DEF n
<1>7. QED
  BY <1>1, <1>2, <1>5, <1>6, RulesDropped DEF n

-----------------------------------------------------------------------------
(* Repeated element rules *)

\* An action of an element rule on what the same action has made.
LEMMA ElementActedAgain ==
  ASSUME NEW c, NEW s, IsState(s, c), NEW r, NEW e, HeedsElement(r, e, c), SameName(r.header, r.header),
         e.action \in {"replace", "delete"} => e.type = "whole", e.action # "reject"
  PROVE  Agree(ElementAct(ElementAct(s, r, e), r, e), ElementAct(s, r, e), c)
<1> DEFINE n == r.header
           f == s.fields
<1>0. IsFields(f, c.names)
  BY DEF IsState
<1>1. CASE e.action = "replace"
  <2> DEFINE x == Put(f, n, Eval(s, e.new))
             u == [s EXCEPT !.fields = x]
             y == Put(u.fields, n, Eval(u, e.new))
  <2>1. \A t : ElementAct(t, r, e) = [t EXCEPT !.fields = Put(t.fields, n, Eval(t, e.new))]
    <3>1. \A v, z : RebuildUri(v, e.type, z) = z
      BY <1>1 DEF RebuildUri, Rebuilt
    <3>2. \A t, z : Rewrite(t, r, e, z) = [t EXCEPT !.fields = Put(t.fields, n, z)]
      BY <3>1 DEF Rewrite
    <3>3. \A t : ElementAct(t, r, e) = Rewrite(t, r, e, Eval(t, e.new))
      BY <1>1 DEF ElementAct
    <3>4. QED
      BY <3>2, <3>3
  <2>2. ElementAct(s, r, e) = u /\ ElementAct(u, r, e) = [u EXCEPT !.fields = y]
    BY <2>1
  <2>3. IsFields(x, c.names)
    BY <1>0, PutFields DEF HeedsElement
  <2>4. u.fields = x
    BY DEF IsState, StateParts
  <2>5. Eval(u, e.new) = Eval(s, e.new)
    BY EvalOfFields
  <2>6. y = x
    <3>1. y = Put(Put(f, n, Eval(s, e.new)), n, Eval(s, e.new))
      BY <2>4, <2>5
    <3>2. QED
      BY <1>0, <3>1, PutAgain
  <2> HIDE DEF x, y
  <2>7. Agree([u EXCEPT !.fields = y], u, c)
    BY <2>3, <2>6, EditedAgain
  <2> HIDE DEF u
  <2>8. QED
    BY <2>2, <2>7
<1>2. CASE e.action = "delete"
  <2> DEFINE x == Without(f, n)
             u == [s EXCEPT !.fields = x]
             y == Without(u.fields, n)
  <2>1. \A t : ElementAct(t, r, e) = [t EXCEPT !.fields = Without(t.fields, n)]
    BY <1>2 DEF ElementAct
  <2>2. ElementAct(s, r, e) = u /\ ElementAct(u, r, e) = [u EXCEPT !.fields = y]
    BY <2>1
  <2>3. u.fields = x
    BY DEF IsState, StateParts
  <2>4. y = x /\ IsFields(x, c.names)
    BY <1>0, <2>3, WithoutFields
  <2> HIDE DEF x, y
  <2>5. Agree([u EXCEPT !.fields = y], u, c)
    BY <2>4, EditedAgain
  <2> HIDE DEF u
  <2>6. QED
    BY <2>2, <2>5
<1>3. CASE e.action = "store"
  <2> DEFINE k == Key(ElementName(r, e), 0)
             x == ElementText(s, r, e)
             u == StoreSlot(s, k, x)
  <2>1. \A t : ElementAct(t, r, e) = StoreSlot(t, k, ElementText(t, r, e))
    BY <1>3 DEF ElementAct
  <2>2. u.fields = f
    BY DEF StoreSlot, IsState, StateParts
  <2>3. ElementText(u, r, e) = x
    BY <2>2 DEF ElementText
  <2>4. ElementAct(s, r, e) = u /\ ElementAct(u, r, e) = StoreSlot(u, k, x)
    BY <2>1, <2>3
  <2> HIDE DEF k, x
  <2>5. Agree(StoreSlot(u, k, x), u, c)
    BY StoredAgain
  <2> HIDE DEF u
  <2>6. QED
    BY <2>4, <2>5
<1>4. CASE e.action \notin {"replace", "delete", "store"}
  <2>1. \A t : ElementAct(t, r, e) = t
    BY <1>4 DEF ElementAct
  <2>2. QED
    BY <2>1, AgreeSelf
<1>5. QED
  BY <1>1, <1>2, <1>3, <1>4

LEMMA RepeatedElement ==
  ASSUME NEW c, NEW s, IsState(s, c), NEW r, NEW e, HeedsElement(r, e, c), SameName(r.header, r.header),
         e.cmp # "pattern", e.action \in {"replace", "delete"} => e.type = "whole"
  PROVE  Agree(NextElement(s, r, e), NextElement(NextElement(s, r, e), r, e), c)
<1> DEFINE Acts(t) == /\ t.verdict = Accepted /\ Supported(e)
                      /\ Passes(t, e.cmp, e.kind, e.match, ElementText(t, r, e))
           u == NextElement(s, r, e)
<1>1. \A t : NextElement(t, r, e) = IF Acts(t) THEN ElementAct(t, r, e) ELSE t
  <2> TAKE t
  <2>1. AfterGuard(t, e.cmp, e.match, ElementText(t, r, e)) = t
    BY DEF AfterGuard
  <2>2. QED
    BY <2>1 DEF NextElement, RunElement
<1>2. Agree(u, u, c)
  <2>1. Agree(s, s, c)
    BY AgreeSelf
  <2>2. QED
    BY <2>1, ElementAgrees
<1> HIDE DEF Acts, u
<1>3. CASE ~Acts(u) \/ ~Acts(s)
  <2>1. ~Acts(s) => u = s
    BY <1>1 DEF u
  <2>2. NextElement(u, r, e) = u
    BY <1>1, <1>3, <2>1
  <2>3. QED
    BY <1>2, <2>2 DEF u
<1>4. CASE Acts(u) /\ Acts(s)
  <2>1. u = ElementAct(s, r, e) /\ NextElement(u, r, e) = ElementAct(u, r, e) /\ u.verdict = Accepted
    BY <1>1, <1>4 DEF u, Acts
  <2>2. e.action # "reject"
    <3>1. SUFFICES ASSUME e.action = "reject" PROVE FALSE
      OBVIOUS
    <3>2. u = [s EXCEPT !.verdict = <<Reason(s, e)>>]
      BY <2>1, <3>1 DEF ElementAct
    <3>3. u.verdict # Accepted
      BY <3>2 DEF IsState, StateParts, Accepted
    <3>4. QED
      BY <2>1, <3>3
  <2>3. Agree(ElementAct(u, r, e), u, c)
    BY <2>1, <2>2, ElementActedAgain
  <2>4. QED
    BY <2>1, <2>3, AgreeBack DEF u
<1>5. QED
  BY <1>3, <1>4

\* A rule with the repetitions among its element rules dropped.
LEMMA DuplicatesAreLeft ==
  ASSUME NEW es
  PROVE  WithoutDuplicates(es, ElementSigs(es)) = Left(es, Duplicates(es, ElementSigs(es)))
BY DEF WithoutDuplicates, Left

LEMMA OnceElements ==
  ASSUME NEW S, NEW es \in Seq(S), NEW D, D = Duplicates(es, ElementSigs(es))
  PROVE  /\ Left(es, D) \in Seq(S) /\ Len(Left(es, D)) \in Nat
         /\ Left(es, D) = <<>> <=> es = <<>>
<1>1. Left(es, D) \in Seq(S) /\ \E k : LeftAt(es, D, Left(es, D), k)
  BY LeftPlaces
<1>2. PICK k : LeftAt(es, D, Left(es, D), k)
  BY <1>1
<1>3. es = <<>> => Left(es, D) = <<>>
  <2>1. es = <<>> => k[0] = 0 /\ Len(es) = 0 /\ Len(Left(es, D)) = k[Len(es)]
    BY <1>2 DEF LeftAt
  <2>2. QED
    BY <1>1, <2>1
<1>4. es # <<>> => Left(es, D) # <<>>
  <2>1. SUFFICES ASSUME es # <<>> PROVE Left(es, D) # <<>>
    OBVIOUS
  <2>2. 1 \in 1 .. Len(es) /\ 1 \notin D
    <3>1. 1 .. 1 - 1 = {}
      OBVIOUS
    <3>2. QED
      BY <2>1, <3>1 DEF Duplicates
  <2>3. k[1] \in 1 .. Len(Left(es, D))
    BY <1>2, <2>2 DEF LeftAt
  <2>4. QED
    BY <2>3
<1>5. QED
  BY <1>1, <1>3, <1>4

LEMMA ElementRepeated ==
  ASSUME NEW c, NEW r, IsParsed(r), \A j \in 1 .. Len(r.elements) : HeedsElement(r, r.elements[j], c),
         ElementsMayMerge(r.elements),
         NEW j \in 1 .. Len(r.elements), j \in Duplicates(r.elements, ElementSigs(r.elements))
  PROVE  SuperfluousElement(r, j, c)
<1> SUFFICES ASSUME NEW s, IsState(s, c)
             PROVE  Agree(AfterElements(s, r)[j - 1], AfterElements(s, r)[j], c)
  BY DEF SuperfluousElement
<1> DEFINE n == Len(r.elements)
           u == AfterElements(s, r)
           e == r.elements[j]
<1>1. n \in Nat /\ DOMAIN r.elements = 1 .. n /\ SameName(r.header, r.header)
  BY ParsedRule DEF IsParsed
<1>2. /\ j > 1 /\ r.elements[j - 1] = e /\ e.cmp # "pattern"
      /\ e.action \in {"replace", "delete"} => e.type = "whole"
  BY DEF ElementsMayMerge, Repeats
<1>3. j - 1 \in 1 .. n /\ j - 2 \in 0 .. n /\ (j - 1) - 1 = j - 2
  BY <1>1, <1>2
<1>4. u[j] = NextElement(u[j - 1], r, r.elements[j]) /\ u[j - 1] = NextElement(u[(j - 1) - 1], r, r.elements[j - 1])
  BY <1>1, <1>3, AfterElementsUnfolds
<1>5. IsState(u[j - 2], c) /\ HeedsElement(r, e, c)
  BY <1>1, <1>3, ElementsHeed
<1> HIDE DEF u, e
<1>6. Agree(NextElement(u[j - 2], r, e), NextElement(NextElement(u[j - 2], r, e), r, e), c)
  BY <1>1, <1>2, <1>5, RepeatedElement
<1>7. QED
  BY <1>2, <1>3, <1>4, <1>6 DEF u, e

\* The first step of the merging pass.
Once(rs) == [i \in DOMAIN rs |-> [rs[i] EXCEPT !.elements = WithoutDuplicates(@, ElementSigs(@))]]

\* Two rules that differ in element rules only.
SameBut(q, r) ==
  /\ q.header = r.header /\ q.action = r.action /\ q.new = r.new /\ q.name = r.name /\ q.msg = r.msg
  /\ q.methods = r.methods /\ q.cmp = r.cmp /\ q.match = r.match

LEMMA WithElements ==
  ASSUME NEW r, DOMAIN r = RuleFields, NEW es
  PROVE  /\ SameBut([r EXCEPT !.elements = es], r) /\ [r EXCEPT !.elements = es].elements = es
         /\ DOMAIN [r EXCEPT !.elements = es] = RuleFields
BY DEF SameBut, RuleFields

LEMMA OnceRule ==
  ASSUME NEW c, NEW r, IsParsed(r), Heeds(r, c), \A j \in 1 .. Len(r.elements) : HeedsElement(r, r.elements[j], c),
         ElementsMayMerge(r.elements), NEW D, D = Duplicates(r.elements, ElementSigs(r.elements)),
         NEW q, SameBut(q, r), q.elements = Left(r.elements, D), NEW i
  PROVE  Replaces(q, i, r, i, c)
<1> SUFFICES ASSUME NEW s, NEW t, Agree(s, t, c)
             PROVE  Agree(NextRule(s, q, i), NextRule(t, r, i), c)
  BY DEF Replaces
<1>1. /\ q.header = r.header /\ q.action = r.action /\ q.new = r.new /\ q.name = r.name /\ q.msg = r.msg
      /\ q.methods = r.methods /\ q.cmp = r.cmp /\ q.match = r.match
  BY DEF SameBut
<1>2. Len(r.elements) \in Nat /\ Len(q.elements) \in Nat /\ (q.elements = <<>> <=> r.elements = <<>>)
  BY ParsedRule, OnceElements DEF IsParsed
<1>3. SetsHeader(q) <=> SetsHeader(r)
  BY <1>1, <1>2 DEF SetsHeader
<1>4. RuleName(q, i) = RuleName(r, i)
  BY <1>1 DEF RuleName
<1>5. ActsAlike(q, i, r, i) /\ Heeds(q, c)
  BY <1>1, <1>3, <1>4 DEF ActsAlike, Heeds
<1>6. \A j \in 1 .. Len(r.elements) : j \in D => SuperfluousElement(r, j, c)
  BY ElementRepeated
<1>7. \A j \in 1 .. Len(r.elements) : ElementName(r, r.elements[j]) = ElementName(q, r.elements[j])
  BY <1>1 DEF ElementName
<1>8. SameElementSteps(q, r, c)
  BY <1>1, <1>6, <1>7, ElementsDropped
<1>9. QED
  BY <1>1, <1>2, <1>5, <1>8, RulesAgree

LEMMA OnceAgrees ==
  ASSUME Engine, NEW rs, AreParsed(rs), \A i \in 1 .. Len(rs) : ElementsMayMerge(rs[i].elements),
         NEW c, c.ignored = {}, c.names = {}, NEW s, IsState(s, c)
  PROVE  Agree(Walk(s, Once(rs)), Walk(s, rs), c)
<1> DEFINE n == Len(rs)
           G == Once(rs)
           S == {G[i] : i \in 1 .. n}
<1>1. n \in Nat /\ DOMAIN rs = 1 .. n /\ \A i \in 1 .. n : IsParsed(rs[i])
  BY ParsedRules
<1>2. HeedAll(rs, c)
  BY UnreadHeeds DEF HeedAll
<1>3. G \in Seq(S) /\ Len(G) = n
  <2>1. \A i \in 1 .. n : G[i] \in S
    OBVIOUS
  <2>2. G = [i \in 1 .. n |-> G[i]]
    BY <1>1 DEF Once
  <2> HIDE DEF G, n
  <2>3. G \in [1 .. n -> S]
    BY <2>1, <2>2
  <2>4. QED
    BY <1>1, <2>3, FunctionIsSeq
<1>4. Left(G, {}) = G
  BY <1>3, LeftPlaces
<1>5. ASSUME NEW j \in 1 .. n
      PROVE  Replaces(G[j], j, rs[j], j, c)
  <2> DEFINE r == rs[j]
             D == Duplicates(r.elements, ElementSigs(r.elements))
             es == Left(r.elements, D)
             q == [r EXCEPT !.elements = es]
  <2>1. /\ IsParsed(r) /\ Heeds(r, c) /\ (\A i \in 1 .. Len(r.elements) : HeedsElement(r, r.elements[i], c))
        /\ DOMAIN r = RuleFields /\ ElementsMayMerge(r.elements)
    BY <1>1, <1>2 DEF HeedAll, IsParsed
  <2>2. G[j] = q
    BY <1>1, DuplicatesAreLeft DEF Once
  <2> HIDE DEF r, es, G
  <2>3. SameBut(q, r) /\ q.elements = es
    BY <2>1, WithElements
  <2> HIDE DEF q
  <2>4. q.elements = Left(r.elements, D)
    BY <2>3 DEF es
  <2> HIDE DEF D
  <2>5. Replaces(q, j, r, j, c)
    BY <2>1, <2>3, <2>4, OnceRule DEF D
  <2>6. QED
    BY <2>2, <2>5 DEF r
<1> HIDE DEF G, S, n
<1>6. \A j \in 1 .. n : j \notin {} => \A m : m = j \/ {} \cap (1 .. n) # {} => Replaces(G[j], m, rs[j], j, c)
  BY <1>5
<1>7. Agree(Walk(s, Left(G, {})), Walk(s, rs), c)
  BY <1>1, <1>3, <1>6, RulesDropped DEF n
<1>8. QED
  BY <1>4, <1>7 DEF G

-----------------------------------------------------------------------------
(* Rules that join the one before them *)

\* A comparison with nothing to heed.
IsStrict(c) == c.names = {} /\ c.ignored = {}

LEMMA StrictHeeds ==
  ASSUME NEW c, IsStrict(c)
  PROVE  /\ \A r, e : HeedsElement(r, e, c)
         /\ Engine => \A r : Heeds(r, c)
BY DEF IsStrict, HeedsElement, Heeds, Engine, SearchesAsWritten

LEMMA WalkAppend ==
  ASSUME NEW S, NEW q \in Seq(S), NEW r \in S, NEW s
  PROVE  Walk(s, Append(q, r)) = NextRule(Walk(s, q), r, Len(q) + 1)
<1> DEFINE n == Len(q)
           p == Append(q, r)
           u == AfterRules(s, p)
           v == AfterRules(s, q)
           I == {i \in Nat : i <= n => u[i] = v[i]}
<1>1. /\ n \in Nat /\ Len(p) = n + 1 /\ p[n + 1] = r /\ \A i \in 1 .. n : p[i] = q[i]
  OBVIOUS
<1>2. /\ u[0] = s /\ \A i \in 1 .. n + 1 : u[i] = NextRule(u[i - 1], p[i], i)
  <2> HIDE DEF p
  <2>1. Len(p) \in Nat
    BY <1>1
  <2>2. QED
    BY <1>1, <2>1, AfterRulesUnfolds
<1>3. /\ v[0] = s /\ \A i \in 1 .. n : v[i] = NextRule(v[i - 1], q[i], i)
  BY <1>1, AfterRulesUnfolds
<1>4. Walk(s, p) = u[n + 1] /\ Walk(s, q) = v[n]
  <2> HIDE DEF p
  <2>1. QED
    BY <1>1 DEF Walk
<1> HIDE DEF u, v, p, n
<1>5. 0 \in I
  BY <1>2, <1>3
<1>6. ASSUME NEW i \in I PROVE i + 1 \in I
  <2>1. ASSUME i + 1 <= n PROVE u[i + 1] = v[i + 1]
    <3>1. i + 1 \in 1 .. n /\ i + 1 \in 1 .. n + 1 /\ (i + 1) - 1 = i /\ u[i] = v[i]
      BY <1>1, <2>1
    <3>2. u[i + 1] = NextRule(u[i], p[i + 1], i + 1) /\ v[i + 1] = NextRule(v[i], q[i + 1], i + 1)
      BY <1>2, <1>3, <3>1
    <3>3. QED
      BY <1>1, <3>1, <3>2
  <2>2. QED
    BY <2>1
<1>7. I = Nat
  <2> HIDE DEF I
  <2>1. QED
    BY <1>5, <1>6, NatClosure DEF I
<1>8. u[n] = v[n]
  BY <1>1, <1>7
<1>9. u[n + 1] = NextRule(u[n], r, n + 1)
  BY <1>1, <1>2
<1>10. QED
  BY <1>4, <1>8, <1>9 DEF n, p

\* z is x and then y.
IsJoin(z, x, y) ==
  /\ Len(x) \in Nat /\ Len(y) \in Nat /\ Len(z) = Len(x) + Len(y)
  /\ \A j \in 1 .. Len(x) : z[j] = x[j]
  /\ \A j \in 1 .. Len(y) : z[Len(x) + j] = y[j] /\ y[j] \in ToSet(y)
  /\ x # <<>> => z # <<>>

LEMMA JoinedSeq ==
  ASSUME NEW S, NEW x \in Seq(S), NEW y \in Seq(S), NEW z, z = x \o y
  PROVE  IsJoin(z, x, y) /\ z \in Seq(S)
BY DEF ToSet, IsJoin

\* r has the element rules of a and then those of b, whose stores have names.
Joins(r, a, b) ==
  /\ IsJoin(r.elements, a.elements, b.elements)
  /\ r.header = a.header /\ r.header = b.header /\ r.name = a.name
  /\ \A e \in ToSet(b.elements) : e.action = "store" => e.name # ""

LEMMA ElementsJoined ==
  ASSUME NEW c, IsStrict(c), NEW r, NEW a, NEW b, Joins(r, a, b),
         NEW s, IsState(s, c)
  PROVE  Agree(RunElements(s, r), RunElements(RunElements(s, a), b), c)
<1> DEFINE n == Len(a.elements)
           m == Len(b.elements)
           t == RunElements(s, a)
           u == AfterElements(s, r)
           v == AfterElements(s, a)
           w == AfterElements(t, b)
           I == {j \in Nat : j <= n => u[j] = v[j]}
           J == {j \in Nat : j <= m => Agree(u[n + j], w[j], c)}
<1>a. /\ n \in Nat /\ m \in Nat /\ Len(r.elements) = n + m
      /\ \A j \in 1 .. n : r.elements[j] = a.elements[j]
      /\ \A j \in 1 .. m : r.elements[n + j] = b.elements[j] /\ b.elements[j] \in ToSet(b.elements)
  BY Zenon DEF Joins, IsJoin
<1>b. n + m \in Nat
  <2> HIDE DEF n, m
  <2>1. QED
    BY <1>a
<1>1. /\ n \in Nat /\ m \in Nat /\ Len(r.elements) = n + m /\ n + m \in Nat
      /\ \A j \in 1 .. n : r.elements[j] = a.elements[j]
      /\ \A j \in 1 .. m : r.elements[n + j] = b.elements[j] /\ b.elements[j] \in ToSet(b.elements)
  BY <1>a, <1>b, Zenon
<1>2. u[0] = s /\ \A j \in 1 .. n + m : u[j] = NextElement(u[j - 1], r, r.elements[j])
  <2> HIDE DEF n, m
  <2>1. Len(r.elements) \in Nat
    BY <1>1
  <2>2. u[0] = s /\ \A j \in 1 .. Len(r.elements) : u[j] = NextElement(u[j - 1], r, r.elements[j])
    BY <2>1, AfterElementsUnfolds
  <2>3. QED
    BY <1>1, <2>2
<1>3. v[0] = s /\ \A j \in 1 .. n : v[j] = NextElement(v[j - 1], a, a.elements[j])
  BY <1>1, AfterElementsUnfolds
<1>4. w[0] = t /\ \A j \in 1 .. m : w[j] = NextElement(w[j - 1], b, b.elements[j])
  BY <1>1, AfterElementsUnfolds
<1>5. RunElements(s, r) = u[n + m] /\ t = v[n] /\ RunElements(t, b) = w[m]
  BY <1>1 DEF RunElements
<1>6. \A x, e : NextElement(x, r, e) = NextElement(x, a, e)
  <2> TAKE x, e
  <2>1. ElementText(x, r, e) = ElementText(x, a, e) /\ ElementName(r, e) = ElementName(a, e)
    BY DEF ElementText, ElementName, Joins
  <2>2. \A y, z : Rewrite(y, r, e, z) = Rewrite(y, a, e, z)
    BY DEF Rewrite, Joins
  <2>3. \A y : ElementAct(y, r, e) = ElementAct(y, a, e)
    BY <2>1, <2>2 DEF ElementAct, ElementText, Joins
  <2>4. QED
    BY <2>1, <2>3 DEF NextElement, RunElement, Joins
<1> HIDE DEF u, v, w, t, n, m
<1>7. 0 \in I
  BY <1>2, <1>3
<1>8. ASSUME NEW j \in I PROVE j + 1 \in I
  <2>1. ASSUME j + 1 <= n PROVE u[j + 1] = v[j + 1]
    <3>1. j + 1 \in 1 .. n /\ j + 1 \in 1 .. n + m /\ (j + 1) - 1 = j /\ u[j] = v[j]
      BY <1>1, <2>1
    <3>2. u[j + 1] = NextElement(u[j], r, r.elements[j + 1]) /\ v[j + 1] = NextElement(v[j], a, a.elements[j + 1])
      BY <1>2, <1>3, <3>1
    <3>3. QED
      BY <1>1, <1>6, <3>1, <3>2
  <2>2. QED
    BY <2>1
<1>9. I = Nat
  <2> HIDE DEF I
  <2>1. QED
    BY <1>7, <1>8, NatClosure DEF I
<1>10. u[n] = t
  BY <1>1, <1>5, <1>9
<1>11. IsState(t, c)
  <2>1. IsState(AfterElements(s, a)[n], c)
    <3>1. n \in 0 .. Len(a.elements) /\ Len(a.elements) \in Nat
      BY <1>1 DEF n
    <3>2. \A j \in 1 .. Len(a.elements) : HeedsElement(a, a.elements[j], c)
      BY StrictHeeds
    <3>3. QED
      BY <3>1, <3>2, ElementsHeed
  <2>2. QED
    BY <1>5, <2>1 DEF v
<1>12. 0 \in J
  BY <1>1, <1>4, <1>10, <1>11, AgreeSelf
<1>13. ASSUME NEW j \in J PROVE j + 1 \in J
  <2>1. ASSUME j + 1 <= m PROVE Agree(u[n + (j + 1)], w[j + 1], c)
    <3>1. /\ j + 1 \in 1 .. m /\ (j + 1) - 1 = j /\ Agree(u[n + j], w[j], c)
          /\ n + (j + 1) \in 1 .. n + m /\ (n + (j + 1)) - 1 = n + j
      BY <1>1, <2>1
    <3> DEFINE e == b.elements[j + 1]
    <3>2. u[n + (j + 1)] = NextElement(u[n + j], r, e) /\ w[j + 1] = NextElement(w[j], b, e)
      BY <1>1, <1>2, <1>4, <3>1
    <3>3. e.action = "store" => ElementName(r, e) = ElementName(b, e)
      BY <1>1, <3>1 DEF ElementName, Joins
    <3>4. HeedsElement(r, e, c)
      BY StrictHeeds
    <3> HIDE DEF e
    <3>a. r.header = b.header
      BY DEF Joins
    <3>5. Agree(NextElement(u[n + j], r, e), NextElement(w[j], b, e), c)
      BY <3>1, <3>3, <3>4, <3>a, ElementAgrees
    <3>6. QED
      BY <3>2, <3>5
  <2>2. QED
    BY <2>1
<1>14. J = Nat
  <2> HIDE DEF J
  <2>1. QED
    BY <1>12, <1>13, NatClosure DEF J
<1>15. Agree(u[n + m], w[m], c)
  BY <1>1, <1>14
<1>16. QED
  BY <1>5, <1>15 DEF t

\* A rule that does nothing but run its element rules.
IsPlainManipulate(r) ==
  /\ r.action = "manipulate" /\ Unconditional(r.match) /\ (r.new = <<>> \/ r.elements # <<>>)

LEMMA ManipulateRuns ==
  ASSUME NEW s, NEW r, IsPlainManipulate(r), NEW i
  PROVE  NextRule(s, r, i) = IF s.verdict = Accepted /\ Concerns(s, r) THEN RunElements(s, r) ELSE s
<1>1. HeaderAct(s, r, i) = s
  BY DEF IsPlainManipulate, HeaderAct, SetsHeader
<1>2. AfterGuard(s, r.cmp, r.match, Value(s.fields, r.header)) = s
  BY DEF IsPlainManipulate, AfterGuard
<1>3. Passes(s, r.cmp, "any", r.match, Value(s.fields, r.header))
  BY DEF IsPlainManipulate, Passes
<1>4. QED
  BY <1>1, <1>2, <1>3 DEF NextRule, RunRule

LEMMA JoinedRule ==
  ASSUME NEW S, NEW a, NEW b, a.elements \in Seq(S), b.elements \in Seq(S), a.header = b.header,
         \A e \in ToSet(b.elements) : e.action = "store" => e.name # "",
         NEW r, SameBut(r, a), r.elements = a.elements \o b.elements
  PROVE  Joins(r, a, b) /\ r.elements \in Seq(S)
<1>1. IsJoin(r.elements, a.elements, b.elements) /\ r.elements \in Seq(S)
  <2>1. \A x \in Seq(S), y \in Seq(S) : \A z : z = x \o y => IsJoin(z, x, y) /\ z \in Seq(S)
    BY JoinedSeq
  <2>2. QED
    BY <2>1, Zenon
<1>2. r.header = a.header /\ r.name = a.name /\ r.header = b.header
  BY DEF SameBut
<1>3. QED
  BY <1>1, <1>2, Zenon DEF Joins

LEMMA FusedRule ==
  ASSUME NEW c, IsStrict(c), NEW a, NEW b,
         IsPlainManipulate(a), IsPlainManipulate(b),
         a.msg = b.msg, a.methods = b.methods,
         NEW r, SameBut(r, a), Joins(r, a, b),
         NEW i, NEW j, NEW s, IsState(s, c)
  PROVE  Agree(NextRule(s, r, i), NextRule(NextRule(s, a, i), b, j), c)
<1>1. /\ r.header = a.header /\ r.action = a.action /\ r.new = a.new /\ r.name = a.name /\ r.msg = a.msg
      /\ r.methods = a.methods /\ r.match = a.match /\ a.header = b.header
  BY DEF SameBut, Joins
<1>2. IsPlainManipulate(r)
  BY <1>1 DEF IsPlainManipulate, Joins, IsJoin
<1> DEFINE u == RunElements(s, a)
<1>3. /\ Concerns(s, r) <=> Concerns(s, a)
      /\ \A t : IsState(t, c) => (Concerns(t, b) <=> Concerns(s, a))
  BY <1>1 DEF Concerns, IsState
<1>4. Agree(RunElements(s, r), RunElements(u, b), c)
  BY ElementsJoined
<1>5. Agree(u, u, c)
  <2>1. \A k \in 1 .. Len(a.elements) : HeedsElement(a, a.elements[k], c)
    BY StrictHeeds
  <2>2. Len(a.elements) \in Nat /\ Len(a.elements) \in 0 .. Len(a.elements)
    <3>1. Len(a.elements) \in Nat
      BY Zenon DEF Joins, IsJoin
    <3>2. \A k \in Nat : k \in 0 .. k
      OBVIOUS
    <3>3. QED
      BY <3>1, <3>2, Zenon
  <2>3. IsState(u, c)
    BY <2>1, <2>2, ElementsHeed DEF RunElements
  <2>4. QED
    BY <2>3, AgreeSelf
<1>6. u.verdict # Accepted => RunElements(u, b) = u
  <2>1. Len(b.elements) \in Nat
    BY Zenon DEF Joins, IsJoin
  <2>2. QED
    BY <2>1, RejectedElements
<1> HIDE DEF u
<1>7. CASE s.verdict = Accepted /\ Concerns(s, a)
  <2>1. NextRule(s, r, i) = RunElements(s, r) /\ NextRule(s, a, i) = u
    BY <1>2, <1>3, <1>7, ManipulateRuns DEF u
  <2>2. NextRule(u, b, j) = RunElements(u, b)
    <3>1. Concerns(u, b)
      BY <1>3, <1>5, <1>7 DEF Agree
    <3>2. NextRule(u, b, j) = IF u.verdict = Accepted /\ Concerns(u, b) THEN RunElements(u, b) ELSE u
      BY ManipulateRuns
    <3>3. QED
      BY <1>6, <3>1, <3>2
  <2>3. QED
    BY <1>4, <2>1, <2>2
<1>8. CASE ~(s.verdict = Accepted /\ Concerns(s, a))
  <2>1. NextRule(s, r, i) = s /\ NextRule(s, a, i) = s
    BY <1>2, <1>3, <1>8, ManipulateRuns
  <2>2. NextRule(s, b, j) = s
    <3>1. Concerns(s, b) <=> Concerns(s, a)
      BY <1>3
    <3>2. NextRule(s, b, j) = IF s.verdict = Accepted /\ Concerns(s, b) THEN RunElements(s, b) ELSE s
      BY ManipulateRuns
    <3>3. QED
      BY <1>8, <3>1, <3>2
  <2>3. QED
    BY <2>1, <2>2, AgreeSelf
<1>9. QED
  BY <1>7, <1>8

-----------------------------------------------------------------------------
(* Sequences of parsed rules *)

LEMMA ParsedSplit ==
  ASSUME NEW q, AreParsed(q), q # <<>>
  PROVE  /\ AreParsed(Front(q)) /\ IsParsed(Last(q)) /\ q = Append(Front(q), Last(q))
         /\ Len(Front(q)) \in Nat /\ Len(q) = Len(Front(q)) + 1
<1> DEFINE S == ToSet(q)
<1>1. q \in Seq(S) /\ (\A x \in S : IsParsed(x)) /\ Len(q) \in Nat /\ Len(q) # 0
  BY ParsedRules DEF AreParsed
<1> HIDE DEF S
<1>2. /\ Front(q) \in Seq(S) /\ Last(q) = q[Len(q)] /\ q = Append(Front(q), Last(q))
  BY <1>1 DEF Front, Last
<1>4. Last(q) \in S
  BY <1>1, <1>2
<1>5. Len(Front(q)) \in Nat /\ Len(q) = Len(Front(q)) + 1
  <2>1. \A x \in Seq(S) : \A y : Len(x) \in Nat /\ Len(Append(x, y)) = Len(x) + 1
    OBVIOUS
  <2>2. QED
    BY <1>2, <2>1, Zenon
<1>3. QED
  BY <1>1, <1>2, <1>4, <1>5, ParsedRulesAre

LEMMA ParsedAppend ==
  ASSUME NEW q, AreParsed(q), NEW r, IsParsed(r)
  PROVE  /\ AreParsed(Append(q, r)) /\ Last(Append(q, r)) = r /\ Append(q, r) # <<>>
         /\ Len(Append(q, r)) = Len(q) + 1
<1> DEFINE S == ToSet(q) \cup {r}
<1>1. q \in Seq(ToSet(q)) /\ Len(q) \in Nat
  BY ParsedRules DEF AreParsed
<1>2. q \in Seq(S)
  <2>1. q \in [1 .. Len(q) -> ToSet(q)]
    BY <1>1
  <2>2. q \in [1 .. Len(q) -> S]
    BY <2>1
  <2> HIDE DEF S
  <2>3. QED
    BY <1>1, <2>2, FunctionIsSeq
<1>3. r \in S /\ \A x \in S : IsParsed(x)
  BY DEF AreParsed
<1> HIDE DEF S
<1>4. /\ Append(q, r) \in Seq(S) /\ Append(q, r) # <<>> /\ Last(Append(q, r)) = r
      /\ Len(Append(q, r)) = Len(q) + 1
  BY <1>1, <1>2, <1>3 DEF Last
<1>5. QED
  BY <1>3, <1>4, ParsedRulesAre

LEMMA NoneAreParsed == AreParsed(<<>>) /\ Len(<<>>) = 0 /\ ToSet(<<>>) = {}
<1>1. <<>> \in Seq({}) /\ Len(<<>>) = 0
  OBVIOUS
<1>2. ToSet(<<>>) = {} /\ <<>> \in Seq(ToSet(<<>>))
  BY <1>1, EmptyIsList DEF ToSet, IsList
<1>3. QED
  BY <1>1, <1>2 DEF AreParsed

\* Other element rules that are as parsed.
LEMMA ParsedWith ==
  ASSUME NEW r, IsParsed(r), NEW S, NEW es \in Seq(S),
         \A e \in S : DOMAIN e = ElementFields /\ IsMatch(e.match) /\ IsValue(e.new)
  PROVE  /\ IsParsed([r EXCEPT !.elements = es]) /\ SameBut([r EXCEPT !.elements = es], r)
         /\ [r EXCEPT !.elements = es].elements = es
<1> DEFINE q == [r EXCEPT !.elements = es]
<1>1. DOMAIN r = RuleFields
  BY DEF IsParsed
<1>2. SameBut(q, r) /\ q.elements = es /\ DOMAIN q = RuleFields
  BY <1>1, WithElements
<1>a. IsRecord(q)
  BY DEF IsRecord
<1>3. IsList(es) /\ ToSet(es) \subseteq S
  BY SeqIsList DEF ToSet
<1>4. es \in Seq(ToSet(es)) /\ \A e \in ToSet(es) : DOMAIN e = ElementFields /\ IsMatch(e.match) /\ IsValue(e.new)
  BY <1>3 DEF IsList
<1> HIDE DEF q
<1>5. /\ q.header = r.header /\ q.match = r.match /\ q.new = r.new /\ q.msg = r.msg
  BY <1>2 DEF SameBut
<1>6. IsParsed(q)
  BY <1>2, <1>4, <1>5, <1>a DEF IsParsed
<1>7. QED
  BY <1>2, <1>6 DEF q

\* A rule and one that joins it.
Fusion(r, q) == [r EXCEPT !.elements = @ \o q.elements]

LEMMA ParsedFusion ==
  ASSUME NEW a, IsParsed(a), NEW b, IsParsed(b)
  PROVE  /\ IsParsed(Fusion(a, b)) /\ SameBut(Fusion(a, b), a)
         /\ \E S : /\ a.elements \in Seq(S) /\ b.elements \in Seq(S)
                   /\ Fusion(a, b).elements = a.elements \o b.elements
<1> DEFINE S == ToSet(a.elements) \cup ToSet(b.elements)
           es == a.elements \o b.elements
<1>1. /\ a.elements \in Seq(ToSet(a.elements)) /\ b.elements \in Seq(ToSet(b.elements))
      /\ \A e \in S : DOMAIN e = ElementFields /\ IsMatch(e.match) /\ IsValue(e.new)
  BY DEF IsParsed
<1>2. a.elements \in Seq(S) /\ b.elements \in Seq(S)
  BY <1>1, ListIn DEF IsList
<1>3. es \in Seq(S)
  <2>1. \A x \in Seq(S), y \in Seq(S) : x \o y \in Seq(S)
    OBVIOUS
  <2>2. QED
    BY <1>2, <2>1, Zenon
<1>4. Fusion(a, b) = [a EXCEPT !.elements = es]
  BY DEF Fusion
<1> HIDE DEF S, es
<1>5. /\ IsParsed([a EXCEPT !.elements = es]) /\ SameBut([a EXCEPT !.elements = es], a)
      /\ [a EXCEPT !.elements = es].elements = es
  BY <1>1, <1>3, ParsedWith
<1>6. QED
  BY <1>2, <1>4, <1>5 DEF es

-----------------------------------------------------------------------------
(* A fused rule, one step *)

\* A rule alike in another place, or a store that has a name.
LEMMA RuleMoved ==
  ASSUME NEW c, IsStrict(c), Engine, NEW r, IsParsed(r), NEW i, NEW j, i = j \/ (r.action = "store" => r.name # ""),
         NEW s, NEW t, Agree(s, t, c)
  PROVE  Agree(NextRule(s, r, i), NextRule(t, r, j), c)
<1>1. r.action = "store" => RuleName(r, i) = RuleName(r, j)
  BY DEF RuleName
<1>2. ActsAlike(r, i, r, j)
  BY <1>1 DEF ActsAlike
<1>3. Heeds(r, c) /\ \A e : HeedsElement(r, e, c)
  BY StrictHeeds
<1>4. Len(r.elements) \in Nat /\ r.elements \in Seq(ToSet(r.elements))
  BY ParsedRule DEF IsParsed
<1>5. Left(r.elements, {}) = r.elements
  BY <1>4, LeftPlaces
<1>6. SameElementSteps(r, r, c)
  BY <1>3, <1>5, ElementsDropped
<1>7. QED
  BY <1>2, <1>3, <1>4, <1>6, RulesAgree

\* What the last of the fused rules has of the last one taken.
IsLastOf(r, p) ==
  /\ r.header = p.header /\ r.action = p.action /\ r.cmp = p.cmp /\ r.msg = p.msg /\ r.methods = p.methods
  /\ Raw(r.match) = Raw(p.match)
  /\ r = p \/ IsPlainManipulate(r)

LEMMA FusableLast ==
  ASSUME NEW r, NEW p, IsLastOf(r, p), NEW q
  PROVE  Fusable(r, q) <=> Fusable(p, q)
BY DEF IsLastOf, Fusable

LEMMA FusionParts ==
  ASSUME NEW r, NEW p, IsLastOf(r, p), NEW q, Fusable(p, q), RulesMayFuse(p, q), IsParsed(r), IsParsed(q)
  PROVE  /\ IsPlainManipulate(Fusion(r, q)) /\ IsPlainManipulate(r) /\ IsPlainManipulate(q)
         /\ SameBut(Fusion(r, q), r) /\ Joins(Fusion(r, q), r, q) /\ IsParsed(Fusion(r, q))
         /\ r.header = q.header /\ r.action = q.action /\ r.cmp = q.cmp /\ r.msg = q.msg /\ r.methods = q.methods
         /\ Raw(r.match) = Raw(q.match)
<1> DEFINE f == Fusion(r, q)
<1>1. /\ p.action = "manipulate" /\ q.action = "manipulate" /\ p.cmp = q.cmp /\ p.msg = q.msg
      /\ p.methods = q.methods /\ Raw(p.match) = Raw(q.match) /\ p.header = q.header
  BY DEF Fusable, RulesMayFuse
<1>2. /\ r.header = q.header /\ r.action = "manipulate" /\ r.cmp = q.cmp /\ r.msg = q.msg /\ r.methods = q.methods
      /\ Raw(r.match) = Raw(q.match)
  BY <1>1 DEF IsLastOf
<1>3. IsPlainManipulate(p) /\ IsPlainManipulate(q)
  BY <1>1 DEF RulesMayFuse, IsPlainManipulate
<1>4. IsPlainManipulate(r)
  BY <1>3 DEF IsLastOf
<1>5. IsParsed(f) /\ SameBut(f, r)
  BY ParsedFusion
<1>6. PICK S : r.elements \in Seq(S) /\ q.elements \in Seq(S) /\ f.elements = r.elements \o q.elements
  BY ParsedFusion
<1>7. \A e \in ToSet(q.elements) : e.action = "store" => e.name # ""
  BY DEF RulesMayFuse
<1> HIDE DEF f
<1>8. Joins(f, r, q)
  BY <1>2, <1>5, <1>6, <1>7, JoinedRule
<1>9. IsPlainManipulate(f)
  <2>1. r.elements # <<>> => f.elements # <<>>
    BY <1>8 DEF Joins, IsJoin
  <2>2. QED
    BY <1>4, <1>5, <2>1 DEF IsPlainManipulate, SameBut
<1>10. QED
  BY <1>1, <1>2, <1>3, <1>4, <1>5, <1>8, <1>9 DEF f

LEMMA LastFused ==
  ASSUME NEW r, NEW p, IsLastOf(r, p), NEW q, Fusable(p, q), RulesMayFuse(p, q), IsParsed(r), IsParsed(q),
         NEW c, IsStrict(c), NEW i, NEW j, NEW s, IsState(s, c)
  PROVE  /\ IsParsed(Fusion(r, q)) /\ IsLastOf(Fusion(r, q), q)
         /\ Agree(NextRule(s, Fusion(r, q), i), NextRule(NextRule(s, r, i), q, j), c)
<1> DEFINE f == Fusion(r, q)
<1>1. /\ IsPlainManipulate(f) /\ IsPlainManipulate(r) /\ IsPlainManipulate(q)
      /\ SameBut(f, r) /\ Joins(f, r, q) /\ IsParsed(f)
      /\ r.header = q.header /\ r.action = q.action /\ r.cmp = q.cmp /\ r.msg = q.msg /\ r.methods = q.methods
      /\ Raw(r.match) = Raw(q.match)
  BY FusionParts
<1> HIDE DEF f
<1>2. Agree(NextRule(s, f, i), NextRule(NextRule(s, r, i), q, j), c)
  BY <1>1, FusedRule
<1>3. IsLastOf(f, q)
  BY <1>1 DEF IsLastOf, SameBut
<1>4. QED
  BY <1>1, <1>2, <1>3 DEF f

-----------------------------------------------------------------------------
(* What rules use of the tables *)

\* The tables of rs serve q too.
Within(q, rs) == Uses(q) \subseteq Uses(rs) /\ Searches(q) \subseteq Searches(rs)

LEMMA UnionsOf ==
  ASSUME NEW q
  PROVE  /\ \A x : x \in Uses(q) <=> \E i \in 1 .. Len(q) : x \in RuleUses(q[i], i)
         /\ \A x : x \in Searches(q) <=> \E i \in 1 .. Len(q) : x \in RuleSearches(q[i])
BY DEF Uses, Searches

LEMMA UsesAppend ==
  ASSUME NEW g, AreParsed(g), NEW r
  PROVE  /\ Uses(Append(g, r)) = Uses(g) \cup RuleUses(r, Len(g) + 1)
         /\ Searches(Append(g, r)) = Searches(g) \cup RuleSearches(r)
<1> DEFINE n == Len(g)
           f == Append(g, r)
<1>1. n \in Nat /\ Len(f) = n + 1 /\ f[n + 1] = r /\ \A i \in 1 .. n : f[i] = g[i]
  <2>1. g \in Seq(ToSet(g))
    BY DEF AreParsed
  <2>2. QED
    BY <2>1
<1> HIDE DEF f, n
<1>2. 1 .. n + 1 = 1 .. n \cup {n + 1}
  BY <1>1
<1>3. /\ \A x : x \in Uses(f) <=> \E i \in 1 .. n + 1 : x \in RuleUses(f[i], i)
      /\ \A x : x \in Searches(f) <=> \E i \in 1 .. n + 1 : x \in RuleSearches(f[i])
      /\ \A x : x \in Uses(g) <=> \E i \in 1 .. n : x \in RuleUses(g[i], i)
      /\ \A x : x \in Searches(g) <=> \E i \in 1 .. n : x \in RuleSearches(g[i])
  BY <1>1, UnionsOf DEF n
<1>4. \A x : x \in Uses(f) <=> x \in Uses(g) \/ x \in RuleUses(r, n + 1)
  BY <1>1, <1>2, <1>3
<1>5. \A x : x \in Searches(f) <=> x \in Searches(g) \/ x \in RuleSearches(r)
  BY <1>1, <1>2, <1>3
<1>6. QED
  BY <1>4, <1>5 DEF f, n

LEMMA WithinByRule ==
  ASSUME NEW q, NEW rs,
         \A i \in 1 .. Len(q) : \E j \in 1 .. Len(rs) :
           RuleUses(q[i], i) \subseteq RuleUses(rs[j], j) /\ RuleSearches(q[i]) \subseteq RuleSearches(rs[j])
  PROVE  Within(q, rs)
<1>1. ASSUME NEW i \in 1 .. Len(q) PROVE RuleUses(q[i], i) \subseteq Uses(rs) /\ RuleSearches(q[i]) \subseteq Searches(rs)
  <2>1. PICK j \in 1 .. Len(rs) :
          RuleUses(q[i], i) \subseteq RuleUses(rs[j], j) /\ RuleSearches(q[i]) \subseteq RuleSearches(rs[j])
    OBVIOUS
  <2>2. RuleUses(rs[j], j) \subseteq Uses(rs) /\ RuleSearches(rs[j]) \subseteq Searches(rs)
    BY DEF Uses, Searches
  <2>3. QED
    BY <2>1, <2>2
<1>2. QED
  BY <1>1, UnionsOf DEF Within

\* What a rule uses, by its parts.
LEMMA UsesOf ==
  ASSUME NEW q, NEW i, NEW A, NEW P, ToSet(HeaderKeys(q, i)) \subseteq A, ToSet(Pattern(q.cmp, q.match)) \subseteq P,
         \A k \in Visited(q) : /\ ToSet(ElementKeys(q, q.elements[k])) \subseteq A
                               /\ ToSet(Pattern(q.elements[k].cmp, q.elements[k].match)) \subseteq P
  PROVE  RuleUses(q, i) \subseteq A /\ RuleSearches(q) \subseteq P
BY DEF RuleUses, RuleSearches

LEMMA RuleUsesParts ==
  ASSUME NEW r, NEW j
  PROVE  /\ ToSet(HeaderKeys(r, j)) \subseteq RuleUses(r, j) /\ ToSet(Pattern(r.cmp, r.match)) \subseteq RuleSearches(r)
         /\ \A k \in Visited(r) :
              /\ ToSet(ElementKeys(r, r.elements[k])) \subseteq RuleUses(r, j)
              /\ ToSet(Pattern(r.elements[k].cmp, r.elements[k].match)) \subseteq RuleSearches(r)
BY DEF RuleUses, RuleSearches

\* A rule with element rules of another's only.
IsPartOf(q, r) ==
  /\ SameBut(q, r) /\ (r.new = <<>> \/ r.elements = <<>> \/ q.elements # <<>>)
  /\ \A k \in 1 .. Len(q.elements) : \E l \in 1 .. Len(r.elements) : q.elements[k] = r.elements[l]

LEMMA PartUses ==
  ASSUME NEW r, NEW q, IsPartOf(q, r), NEW i, NEW j, i = j \/ (r.action = "store" => r.name # "")
  PROVE  RuleUses(q, i) \subseteq RuleUses(r, j) /\ RuleSearches(q) \subseteq RuleSearches(r)
<1>1. /\ q.header = r.header /\ q.action = r.action /\ q.new = r.new /\ q.name = r.name /\ q.cmp = r.cmp
      /\ q.match = r.match
  BY DEF SameBut, IsPartOf
<1>2. r.action = "store" => RuleName(q, i) = RuleName(r, j)
  BY <1>1 DEF RuleName
<1>3. SetsHeader(q) => SetsHeader(r)
  BY <1>1 DEF SetsHeader, IsPartOf
<1>4. ToSet(<<>>) = {}
  BY NoneAreParsed
<1>5. ToSet(HeaderKeys(q, i)) \subseteq ToSet(HeaderKeys(r, j))
  <2>1. CASE q.action \in {"add", "log", "reject"} \/ SetsHeader(q)
    <3>1. r.action \in {"add", "log", "reject"} \/ SetsHeader(r)
      BY <1>1, <1>3, <2>1
    <3>0. r.action # "store" /\ q.action # "store"
      BY <1>1, <3>1 DEF SetsHeader
    <3>2. HeaderKeys(q, i) = SlotKeys(q.new)
      BY <2>1, <3>0 DEF HeaderKeys
    <3>3. HeaderKeys(r, j) = SlotKeys(r.new)
      BY <3>0, <3>1 DEF HeaderKeys
    <3>4. QED
      BY <1>1, <3>2, <3>3
  <2>2. CASE ~(q.action \in {"add", "log", "reject"} \/ SetsHeader(q)) /\ q.action = "store"
    <3>1. q.cmp = "pattern" => GroupKeys(q, i) = GroupKeys(r, j)
      BY <1>1, <1>2, <2>2 DEF GroupKeys
    <3>2. ~(r.action \in {"add", "log", "reject"} \/ SetsHeader(r))
      BY <1>1, <2>2 DEF SetsHeader
    <3>3. HeaderKeys(q, i) = HeaderKeys(r, j)
      BY <1>1, <1>2, <2>2, <3>1, <3>2 DEF HeaderKeys
    <3>4. QED
      BY <3>3
  <2>3. CASE ~(q.action \in {"add", "log", "reject"} \/ SetsHeader(q)) /\ q.action # "store"
    <3>1. HeaderKeys(q, i) = <<>>
      BY <2>3 DEF HeaderKeys
    <3>2. QED
      BY <1>4, <3>1
  <2>4. QED
    BY <2>1, <2>2, <2>3
<1>6. ASSUME NEW k \in Visited(q)
      PROVE  /\ ToSet(ElementKeys(q, q.elements[k])) \subseteq RuleUses(r, j)
             /\ ToSet(Pattern(q.elements[k].cmp, q.elements[k].match)) \subseteq RuleSearches(r)
  <2>1. k \in 1 .. Len(q.elements) /\ q.action # "reject" /\ Supported(q.elements[k])
    BY DEF Visited
  <2>2. PICK l \in 1 .. Len(r.elements) : q.elements[k] = r.elements[l]
    BY <2>1 DEF IsPartOf
  <2>3. l \in Visited(r)
    BY <1>1, <2>1, <2>2 DEF Visited
  <2>4. ElementKeys(q, r.elements[l]) = ElementKeys(r, r.elements[l])
    BY <1>1 DEF ElementKeys, ElementName
  <2>5. QED
    BY <2>2, <2>3, <2>4, RuleUsesParts
<1>7. ToSet(HeaderKeys(q, i)) \subseteq RuleUses(r, j) /\ ToSet(Pattern(q.cmp, q.match)) \subseteq RuleSearches(r)
  BY <1>1, <1>5, RuleUsesParts
<1>8. QED
  BY <1>6, <1>7, UsesOf

LEMMA FusionUses ==
  ASSUME NEW f, NEW r, NEW q, IsPlainManipulate(f), IsPlainManipulate(r), IsPlainManipulate(q), SameBut(f, r), Joins(f, r, q), NEW i, NEW j
  PROVE  /\ RuleUses(f, i) \subseteq RuleUses(r, i) \cup RuleUses(q, j)
         /\ RuleSearches(f) \subseteq RuleSearches(r) \cup RuleSearches(q)
<1>1. /\ f.header = r.header /\ f.action = "manipulate" /\ f.name = r.name /\ f.cmp = r.cmp /\ f.match = r.match
      /\ r.action = "manipulate" /\ q.action = "manipulate"
  BY DEF SameBut, IsPlainManipulate
<1>2. HeaderKeys(f, i) = <<>>
  BY <1>1 DEF HeaderKeys, SetsHeader, IsPlainManipulate
<1>3. ToSet(<<>>) = {}
  BY NoneAreParsed
<1>4. ToSet(HeaderKeys(f, i)) \subseteq RuleUses(r, i) \cup RuleUses(q, j)
  BY <1>2, <1>3
<1>5. ToSet(Pattern(f.cmp, f.match)) \subseteq RuleSearches(r) \cup RuleSearches(q)
  BY <1>1, RuleUsesParts
<1>6. ASSUME NEW k \in Visited(f)
      PROVE  /\ ToSet(ElementKeys(f, f.elements[k])) \subseteq RuleUses(r, i) \cup RuleUses(q, j)
             /\ ToSet(Pattern(f.elements[k].cmp, f.elements[k].match)) \subseteq RuleSearches(r) \cup RuleSearches(q)
  <2> DEFINE n == Len(r.elements)
             m == Len(q.elements)
             e == f.elements[k]
  <2>1. /\ n \in Nat /\ m \in Nat /\ Len(f.elements) = n + m
        /\ \A l \in 1 .. n : f.elements[l] = r.elements[l]
        /\ \A l \in 1 .. m : f.elements[n + l] = q.elements[l] /\ q.elements[l] \in ToSet(q.elements)
    BY Zenon DEF Joins, IsJoin
  <2>2. k \in 1 .. Len(f.elements) /\ Supported(e)
    BY DEF Visited
  <2> HIDE DEF n, m
  <2>3. k \in 1 .. n \/ (k - n \in 1 .. m /\ n + (k - n) = k)
    BY <2>1, <2>2
  <2>4. CASE k \in 1 .. n
    <3>1. e = r.elements[k] /\ k \in Visited(r)
      BY <1>1, <2>1, <2>2, <2>4 DEF Visited, n
    <3>2. ElementKeys(f, e) = ElementKeys(r, e)
      BY <1>1 DEF ElementKeys, ElementName
    <3> HIDE DEF e
    <3>3. QED
      BY <3>1, <3>2, RuleUsesParts DEF e
  <2>5. CASE k - n \in 1 .. m /\ n + (k - n) = k
    <3>1. e = q.elements[k - n] /\ q.elements[k - n] \in ToSet(q.elements)
      BY <2>1, <2>5
    <3>2. k - n \in Visited(q)
      BY <1>1, <2>2, <2>5, <3>1 DEF Visited, m
    <3>3. e.action = "store" => e.name # ""
      BY <3>1 DEF Joins
    <3> HIDE DEF e
    <3>4. ElementKeys(f, e) = ElementKeys(q, e)
      BY <1>1, <3>3 DEF ElementKeys, ElementName
    <3>5. /\ ToSet(ElementKeys(q, e)) \subseteq RuleUses(q, j)
          /\ ToSet(Pattern(e.cmp, e.match)) \subseteq RuleSearches(q)
      BY <3>1, <3>2, RuleUsesParts
    <3>6. QED
      BY <3>4, <3>5 DEF e
  <2>6. QED
    BY <2>3, <2>4, <2>5
<1> DEFINE A == RuleUses(r, i) \cup RuleUses(q, j)
           P == RuleSearches(r) \cup RuleSearches(q)
<1>7. /\ ToSet(HeaderKeys(f, i)) \subseteq A /\ ToSet(Pattern(f.cmp, f.match)) \subseteq P
      /\ \A k \in Visited(f) : /\ ToSet(ElementKeys(f, f.elements[k])) \subseteq A
                                /\ ToSet(Pattern(f.elements[k].cmp, f.elements[k].match)) \subseteq P
  BY <1>4, <1>5, <1>6
<1> HIDE DEF A, P
<1>8. RuleUses(f, i) \subseteq A /\ RuleSearches(f) \subseteq P
  BY <1>7, UsesOf
<1>9. QED
  BY <1>8 DEF A, P

LEMMA LastFusedUses ==
  ASSUME NEW r, NEW p, IsLastOf(r, p), NEW q, Fusable(p, q), RulesMayFuse(p, q), IsParsed(r), IsParsed(q),
         NEW i, NEW j
  PROVE  /\ RuleUses(Fusion(r, q), i) \subseteq RuleUses(r, i) \cup RuleUses(q, j)
         /\ RuleSearches(Fusion(r, q)) \subseteq RuleSearches(r) \cup RuleSearches(q)
<1> DEFINE f == Fusion(r, q)
<1>1. IsPlainManipulate(f) /\ IsPlainManipulate(r) /\ IsPlainManipulate(q) /\ SameBut(f, r) /\ Joins(f, r, q)
  BY FusionParts
<1> HIDE DEF f
<1>2. QED
  BY <1>1, FusionUses DEF f

\* Where the rules of ps, fused, are after i of them.
FusedUpto(f, ps, i, c, s) ==
  /\ AreParsed(f)
  /\ Agree(Walk(s, f), AfterRules(s, ps)[i], c)
  /\ Len(f) = i \/ StoresAreNamed(ps)
  /\ Within(f, ps)
  /\ i # 0 => f # <<>> /\ IsLastOf(Last(f), ps[i])

LEMMA FuseAgrees ==
  ASSUME Engine, NEW ps, AreParsed(ps), NEW c, IsStrict(c), NEW s, IsState(s, c),
         NEW i \in 0 .. Len(ps) - 1,
         i # 0 /\ Fusable(ps[i], ps[i + 1]) => RulesMayFuse(ps[i], ps[i + 1]) /\ StoresAreNamed(ps),
         NEW f, FusedUpto(f, ps, i, c, s), i = 0 => f = <<>>
  PROVE  FusedUpto(Fuse(f, ps[i + 1]), ps, i + 1, c, s)
<1> DEFINE q == ps[i + 1]
           u == AfterRules(s, ps)
<1>1. /\ IsParsed(q) /\ i + 1 \in 1 .. Len(ps) /\ i \in Nat /\ i + 1 # 0 /\ (i + 1) - 1 = i
      /\ DOMAIN ps = 1 .. Len(ps) /\ Len(ps) \in Nat /\ (i # 0 => IsParsed(ps[i]))
  BY ParsedRules
<1>2. u[i + 1] = NextRule(u[i], q, i + 1)
  BY <1>1, AfterRulesUnfolds
<1>3. AreParsed(f) /\ Agree(Walk(s, f), u[i], c) /\ (i # 0 => f # <<>> /\ IsLastOf(Last(f), ps[i]))
  BY DEF FusedUpto
<1>4. Len(f) \in Nat /\ f \in Seq(ToSet(f))
  BY <1>3, ParsedRules DEF AreParsed
<1> HIDE DEF q, u
<1>5. CASE ~(f # <<>> /\ Fusable(Last(f), q))
  <2>1. Fuse(f, q) = Append(f, q)
    BY <1>5 DEF Fuse
  <2>2. /\ AreParsed(Append(f, q)) /\ Last(Append(f, q)) = q /\ Append(f, q) # <<>>
        /\ Len(Append(f, q)) = Len(f) + 1
    BY <1>1, <1>3, ParsedAppend
  <2>3. Walk(s, Append(f, q)) = NextRule(Walk(s, f), q, Len(f) + 1)
    <3> DEFINE S == ToSet(f) \cup {q}
    <3>1. q \in S /\ f \in Seq(S)
      BY <1>4, ListIn DEF IsList
    <3> HIDE DEF S
    <3>2. QED
      BY <3>1, WalkAppend
  <2>4. Len(f) + 1 = i + 1 \/ (q.action = "store" => q.name # "")
    BY <1>1 DEF FusedUpto, StoresAreNamed, q
  <2>5. Agree(NextRule(Walk(s, f), q, Len(f) + 1), NextRule(u[i], q, i + 1), c)
    BY <1>1, <1>3, <2>4, RuleMoved
  <2>6. IsLastOf(q, q)
    BY DEF IsLastOf
  <2>7. Len(Append(f, q)) = i + 1 \/ StoresAreNamed(ps)
    BY <2>2 DEF FusedUpto
  <2>a. Within(Append(f, q), ps)
    <3>1. IsPartOf(q, q)
      BY DEF IsPartOf, SameBut
    <3>2. RuleUses(q, Len(f) + 1) \subseteq RuleUses(q, i + 1)
      BY <2>4, <3>1, PartUses
    <3>3. RuleUses(q, i + 1) \subseteq Uses(ps) /\ RuleSearches(q) \subseteq Searches(ps)
      BY <1>1, UnionsOf DEF q
    <3>4. QED
      BY <1>3, <3>2, <3>3, UsesAppend DEF FusedUpto, Within
  <2>8. FusedUpto(Append(f, q), ps, i + 1, c, s)
    BY <1>2, <2>2, <2>3, <2>5, <2>6, <2>7, <2>a DEF FusedUpto, q, u
  <2>9. QED
    BY <2>1, <2>8 DEF q
<1>6. CASE f # <<>> /\ Fusable(Last(f), q)
  <2> DEFINE r == Last(f)
             p == ps[i]
             g == Front(f)
             x == Fusion(r, q)
             S == ToSet(g) \cup {r, x}
  <2>1. i # 0
    BY <1>6
  <2>2. /\ AreParsed(g) /\ IsParsed(r) /\ f = Append(g, r) /\ Len(g) \in Nat /\ Len(f) = Len(g) + 1
    BY <1>3, <1>6, ParsedSplit
  <2>3. IsLastOf(r, p) /\ Fusable(p, q)
    BY <1>3, <1>6, <2>1, FusableLast
  <2>4. RulesMayFuse(p, q) /\ StoresAreNamed(ps)
    BY <2>1, <2>3 DEF q
  <2> HIDE DEF p, r
  <2>5. IsState(Walk(s, g), c)
    <3>1. HeedAll(g, c)
      BY StrictHeeds DEF HeedAll
    <3>2. IsState(AfterRules(s, g)[Len(g)], c)
      <4>1. Len(g) \in 0 .. Len(g)
        BY <2>2
      <4> HIDE DEF g
      <4>2. QED
        BY <2>2, <3>1, <4>1, RulesHeed
    <3>3. QED
      BY <3>2 DEF Walk
  <2> HIDE DEF g
  <2>6. /\ IsParsed(x) /\ IsLastOf(x, q)
        /\ Agree(NextRule(Walk(s, g), x, Len(g) + 1), NextRule(NextRule(Walk(s, g), r, Len(g) + 1), q, i + 1), c)
    BY <1>1, <2>2, <2>3, <2>4, <2>5, LastFused
  <2> HIDE DEF x
  <2>7. /\ AreParsed(Append(g, x)) /\ Last(Append(g, x)) = x /\ Append(g, x) # <<>>
    BY <2>2, <2>6, ParsedAppend
  <2>8. g \in Seq(S) /\ r \in S /\ x \in S
    <3>1. g \in Seq(ToSet(g))
      BY <2>2 DEF AreParsed
    <3>2. QED
      BY <3>1, ListIn DEF IsList
  <2> HIDE DEF S
  <2>9. /\ Walk(s, Append(g, x)) = NextRule(Walk(s, g), x, Len(g) + 1)
        /\ Walk(s, f) = NextRule(Walk(s, g), r, Len(g) + 1)
    BY <2>2, <2>8, WalkAppend
  <2>10. Agree(NextRule(Walk(s, f), q, i + 1), u[i + 1], c)
    BY <1>1, <1>2, <1>3, RuleMoved
  <2>11. Agree(Walk(s, Append(g, x)), u[i + 1], c)
    BY <2>6, <2>9, <2>10, AgreeOn
  <2>12. Fuse(f, q) = Append(g, x)
    <3>1. Fuse(f, q) = g \o <<x>>
      BY <1>6 DEF Fuse, Fusion, g, x, r
    <3>2. \A z \in Seq(S) : z \o <<x>> = Append(z, x)
      BY <2>8
    <3>3. QED
      BY <2>8, <3>1, <3>2
  <2>a. Within(Append(g, x), ps)
    <3>1. Within(f, ps) /\ Uses(f) = Uses(g) \cup RuleUses(r, Len(g) + 1) /\ Searches(f) = Searches(g) \cup RuleSearches(r)
      BY <2>2, UsesAppend DEF FusedUpto
    <3>2. RuleUses(q, i + 1) \subseteq Uses(ps) /\ RuleSearches(q) \subseteq Searches(ps)
      BY <1>1, UnionsOf DEF q
    <3>3. /\ RuleUses(x, Len(g) + 1) \subseteq RuleUses(r, Len(g) + 1) \cup RuleUses(q, i + 1)
          /\ RuleSearches(x) \subseteq RuleSearches(r) \cup RuleSearches(q)
      BY <1>1, <2>2, <2>3, <2>4, LastFusedUses DEF x
    <3>4. QED
      BY <2>2, <3>1, <3>2, <3>3, UsesAppend DEF Within
  <2>13. FusedUpto(Append(g, x), ps, i + 1, c, s)
    BY <2>4, <2>6, <2>7, <2>11, <2>a DEF FusedUpto, q, u
  <2>14. QED
    BY <2>12, <2>13 DEF q
<1>7. QED
  BY <1>5, <1>6

LEMMA FusedAgrees ==
  ASSUME Engine, NEW ps, AreParsed(ps), NEW c, IsStrict(c), NEW s, IsState(s, c),
         \A i \in 1 .. Len(ps) - 1 :
           Fusable(ps[i], ps[i + 1]) => RulesMayFuse(ps[i], ps[i + 1]) /\ StoresAreNamed(ps)
  PROVE  AreParsed(Fused(ps)) /\ Within(Fused(ps), ps) /\ Agree(Walk(s, Fused(ps)), Walk(s, ps), c)
<1> DEFINE n == Len(ps)
<1>1. n \in Nat
  BY ParsedRules
<1>2. PICK g : /\ Fused(ps) = g[n] /\ g[0] = <<>> /\ \A i \in 1 .. n : g[i] = Fuse(g[i - 1], ps[i])
  BY <1>1, FusedUnfolds
<1> DEFINE I == {i \in Nat : i <= n => FusedUpto(g[i], ps, i, c, s)}
<1>3. 0 \in I
  <2>1. AreParsed(<<>>) /\ Len(<<>>) = 0
    BY NoneAreParsed
  <2>2. Walk(s, <<>>) = s /\ AfterRules(s, ps)[0] = s
    <3>1. AfterRules(s, <<>>)[0] = s
      BY <2>1, AfterRulesUnfolds
    <3>2. QED
      BY <1>1, <2>1, <3>1, AfterRulesUnfolds DEF Walk
  <2>a. Within(<<>>, ps)
    BY <2>1, WithinByRule
  <2>3. FusedUpto(<<>>, ps, 0, c, s)
    BY <2>1, <2>2, <2>a, AgreeSelf DEF FusedUpto
  <2>4. QED
    BY <1>2, <2>3
<1>4. ASSUME NEW i \in I PROVE i + 1 \in I
  <2>1. ASSUME i + 1 <= n PROVE FusedUpto(g[i + 1], ps, i + 1, c, s)
    <3>1. /\ i \in 0 .. n - 1 /\ i + 1 \in 1 .. n /\ (i + 1) - 1 = i /\ FusedUpto(g[i], ps, i, c, s)
          /\ i # 0 => i \in 1 .. n - 1
      BY <1>1, <2>1
    <3>2. g[i + 1] = Fuse(g[i], ps[i + 1]) /\ (i = 0 => g[i] = <<>>)
      BY <1>2, <3>1
    <3>3. FusedUpto(Fuse(g[i], ps[i + 1]), ps, i + 1, c, s)
      BY <3>1, <3>2, FuseAgrees
    <3>4. QED
      BY <3>2, <3>3
  <2>2. QED
    BY <2>1
<1>5. I = Nat
  <2> HIDE DEF I
  <2>1. QED
    BY <1>3, <1>4, NatClosure DEF I
<1>6. FusedUpto(g[n], ps, n, c, s)
  BY <1>1, <1>5
<1>7. QED
  BY <1>2, <1>6 DEF FusedUpto, Walk

-----------------------------------------------------------------------------
(* Passes make parsed rules of parsed rules *)

\* Rules changed one by one.
LEMMA ParsedEach ==
  ASSUME NEW rs, AreParsed(rs), NEW q, q = [i \in DOMAIN rs |-> q[i]], \A i \in 1 .. Len(rs) : IsParsed(q[i])
  PROVE  /\ AreParsed(q) /\ Len(q) = Len(rs) /\ DOMAIN q = 1 .. Len(rs)
         /\ q \in Seq({q[i] : i \in 1 .. Len(rs)})
<1> DEFINE n == Len(rs)
           S == {q[i] : i \in 1 .. n}
<1>1. n \in Nat /\ DOMAIN rs = 1 .. n
  BY ParsedRules
<1>2. \A i \in 1 .. n : q[i] \in S /\ IsParsed(q[i])
  OBVIOUS
<1>3. \A x \in S : IsParsed(x)
  BY <1>2
<1>4. DOMAIN q = 1 .. n /\ q = [i \in 1 .. n |-> q[i]]
  BY <1>1
<1> HIDE DEF S, n
<1>5. q \in [1 .. n -> S]
  BY <1>2, <1>4
<1>6. q \in Seq(S) /\ Len(q) = n
  BY <1>1, <1>5, FunctionIsSeq
<1>7. QED
  BY <1>3, <1>4, <1>6, ParsedRulesAre DEF n, S

LEMMA LeftIn ==
  ASSUME NEW T, NEW es \in Seq(T), NEW D
  PROVE  \A m \in 1 .. Len(Left(es, D)) : \E j \in 1 .. Len(es) : Left(es, D)[m] = es[j]
<1> DEFINE n == Len(es)
           S == {es[j] : j \in 1 .. n}
           f == Left(es, D)
<1>1. es \in Seq(S)
  <2>1. n \in Nat /\ es = [j \in 1 .. n |-> es[j]] /\ \A j \in 1 .. n : es[j] \in S
    OBVIOUS
  <2> HIDE DEF S, n
  <2>2. es \in [1 .. n -> S]
    BY <2>1
  <2>3. QED
    BY <2>1, <2>2, FunctionIsSeq
<1> HIDE DEF S
<1>2. f \in Seq(S)
  BY <1>1, LeftPlaces
<1> HIDE DEF f
<1>3. \A m \in 1 .. Len(f) : f[m] \in S
  BY <1>2
<1>4. \A x \in S : \E j \in 1 .. n : x = es[j]
  BY DEF S
<1>5. QED
  BY <1>3, <1>4 DEF f

LEMMA ParsedLeft ==
  ASSUME NEW rs, AreParsed(rs), NEW D
  PROVE  AreParsed(Left(rs, D))
<1>1. rs \in Seq(ToSet(rs)) /\ \A r \in ToSet(rs) : IsParsed(r)
  BY DEF AreParsed
<1>2. Left(rs, D) \in Seq(ToSet(rs))
  BY <1>1, LeftPlaces
<1>3. QED
  BY <1>1, <1>2, ParsedRulesAre

\* A rule with some of its element rules.
LEMMA ParsedSome ==
  ASSUME NEW r, IsParsed(r), NEW D
  PROVE  /\ IsParsed([r EXCEPT !.elements = Left(@, D)]) /\ SameBut([r EXCEPT !.elements = Left(@, D)], r)
         /\ [r EXCEPT !.elements = Left(@, D)].elements = Left(r.elements, D)
         /\ \A k \in 1 .. Len(Left(r.elements, D)) : \E l \in 1 .. Len(r.elements) : Left(r.elements, D)[k] = r.elements[l]
<1> DEFINE es == Left(r.elements, D)
           S == ToSet(r.elements)
<1>1. /\ r.elements \in Seq(S) /\ \A e \in S : DOMAIN e = ElementFields /\ IsMatch(e.match) /\ IsValue(e.new)
  BY DEF IsParsed
<1> HIDE DEF S
<1>2. es \in Seq(S)
  BY <1>1, LeftPlaces
<1>3. \A k \in 1 .. Len(es) : \E l \in 1 .. Len(r.elements) : es[k] = r.elements[l]
  <2>1. \A x \in Seq(S) : \A m \in 1 .. Len(Left(x, D)) : \E j \in 1 .. Len(x) : Left(x, D)[m] = x[j]
    BY LeftIn
  <2>2. QED
    BY <1>1, <2>1, Zenon
<1>4. [r EXCEPT !.elements = Left(@, D)] = [r EXCEPT !.elements = es]
  OBVIOUS
<1> HIDE DEF es
<1>5. IsParsed([r EXCEPT !.elements = es]) /\ SameBut([r EXCEPT !.elements = es], r)
      /\ [r EXCEPT !.elements = es].elements = es
  BY <1>1, <1>2, ParsedWith
<1>6. QED
  BY <1>3, <1>4, <1>5 DEF es

\* Rules in part, and the rules they are parts of.
LEMMA LeftWithin ==
  ASSUME NEW rs, NEW G, AreParsed(G), Len(G) = Len(rs), \A j \in 1 .. Len(rs) : IsPartOf(G[j], rs[j]),
         NEW D, D \cap (1 .. Len(rs)) = {} \/ (StoresAreNamed(rs) /\ DOMAIN rs = 1 .. Len(rs))
  PROVE  Within(Left(G, D), rs)
<1> DEFINE n == Len(rs)
           f == Left(G, D)
<1>1. n \in Nat /\ DOMAIN G = 1 .. n /\ G \in Seq(ToSet(G))
  BY ParsedRules DEF AreParsed
<1>3. \A m \in 1 .. Len(f) : \E j \in 1 .. n : f[m] = G[j]
  BY <1>1, LeftIn
<1>4. D \cap (1 .. n) = {} => f = G
  BY <1>1, LeftPlaces
<1> HIDE DEF f, n
<1>5. ASSUME NEW m \in 1 .. Len(f)
      PROVE  \E j \in 1 .. Len(rs) :
               RuleUses(f[m], m) \subseteq RuleUses(rs[j], j) /\ RuleSearches(f[m]) \subseteq RuleSearches(rs[j])
  <2>1. CASE D \cap (1 .. n) = {}
    <3>1. m \in 1 .. Len(rs) /\ f[m] = G[m]
      BY <1>4, <2>1
    <3>2. IsPartOf(f[m], rs[m])
      BY <3>1
    <3>3. QED
      BY <3>1, <3>2, PartUses
  <2>2. CASE D \cap (1 .. n) # {}
    <3>1. PICK j \in 1 .. n : f[m] = G[j]
      BY <1>3
    <3>2. IsPartOf(f[m], rs[j]) /\ j \in 1 .. Len(rs)
      BY <3>1 DEF n
    <3>3. rs[j].action = "store" => rs[j].name # ""
      BY <2>2, <3>2 DEF n, StoresAreNamed
    <3>4. QED
      BY <3>2, <3>3, PartUses
  <2>3. QED
    BY <2>1, <2>2
<1>6. QED
  BY <1>5, WithinByRule DEF f

LEMMA DeduplicatedServed ==
  ASSUME NEW rs, AreParsed(rs)
  PROVE  AreParsed(Deduplicated(rs)) /\ (DeduplicationIsSafe(rs) => Within(Deduplicated(rs), rs))
<1> DEFINE D == Duplicates(rs, Sigs(rs))
<1>1. Deduplicated(rs) = Left(rs, D)
  BY DEF Deduplicated, WithoutDuplicates, Left
<1>2. DOMAIN rs = 1 .. Len(rs)
  BY ParsedRules
<1>3. DeduplicationIsSafe(rs) => D \cap (1 .. Len(rs)) = {} \/ StoresAreNamed(rs)
  BY DEF DeduplicationIsSafe
<1> HIDE DEF D
<1>4. \A j \in 1 .. Len(rs) : IsPartOf(rs[j], rs[j])
  BY DEF IsPartOf, SameBut
<1>5. QED
  BY <1>1, <1>2, <1>3, <1>4, ParsedLeft, LeftWithin

LEMMA AliveServed ==
  ASSUME NEW rs, AreParsed(rs)
  PROVE  AreParsed(Alive(rs)) /\ (EliminationIsSafe(rs) => Within(Alive(rs), rs))
<1> DEFINE n == Len(rs)
           D == {i \in 1 .. n : Dead(rs[i])}
           G == [i \in DOMAIN rs |-> [rs[i] EXCEPT !.elements = Working(@)]]
<1>1. n \in Nat /\ DOMAIN rs = 1 .. n /\ \A i \in 1 .. n : IsParsed(rs[i])
  BY ParsedRules
<1>2. Alive(rs) = Left(G, D)
  <2> DEFINE w == [i \in DOMAIN rs |-> IF Dead(rs[i]) THEN <<>> ELSE <<[rs[i] EXCEPT !.elements = Working(@)]>>]
  <2>1. w = [i \in DOMAIN G |-> IF i \in D THEN <<>> ELSE <<G[i]>>]
    BY <1>1
  <2>2. QED
    BY <2>1 DEF Alive, Left
<1>3. ASSUME NEW i \in 1 .. n
      PROVE  /\ IsParsed(G[i])
             /\ EliminationIsSafe(rs) => IsPartOf(G[i], rs[i])
  <2> DEFINE r == rs[i]
             I == Idle(r.elements)
             q == [r EXCEPT !.elements = Left(@, I)]
  <2>1. G[i] = q /\ Working(r.elements) = Left(r.elements, I)
    BY <1>1, WorkingIsLeft
  <2>2. IsParsed(r)
    BY <1>1
  <2>3. EliminationIsSafe(rs) => (r.new # <<>> /\ Working(r.elements) = <<>> => r.elements = <<>>)
    BY <1>1 DEF EliminationIsSafe
  <2> HIDE DEF r, I, G
  <2>4. /\ IsParsed(q) /\ SameBut(q, r) /\ q.elements = Left(r.elements, I)
        /\ \A k \in 1 .. Len(Left(r.elements, I)) : \E l \in 1 .. Len(r.elements) : Left(r.elements, I)[k] = r.elements[l]
    BY <2>2, ParsedSome
  <2> HIDE DEF q
  <2>5. EliminationIsSafe(rs) => IsPartOf(q, r)
    BY <2>1, <2>3, <2>4 DEF IsPartOf
  <2>6. QED
    BY <2>1, <2>4, <2>5 DEF r
<1>4. G = [i \in DOMAIN rs |-> G[i]]
  OBVIOUS
<1>5. EliminationIsSafe(rs) => D \cap (1 .. n) = {} \/ StoresAreNamed(rs)
  BY <1>1 DEF EliminationIsSafe
<1> HIDE DEF G, D
<1>6. AreParsed(G) /\ Len(G) = n
  BY <1>3, <1>4, ParsedEach
<1>7. AreParsed(Left(G, D))
  BY <1>6, ParsedLeft
<1>8. ASSUME EliminationIsSafe(rs) PROVE Within(Left(G, D), rs)
  BY <1>1, <1>3, <1>5, <1>6, <1>8, LeftWithin
<1>9. QED
  BY <1>2, <1>7, <1>8

-----------------------------------------------------------------------------
(* The simplified rules *)

LEMMA PlainIsMatch ==
  ASSUME NEW m, IsMatch(m)
  PROVE  IsMatch(Plain(m))
<1> DEFINE S == ToSet(m.text) \cup {"!"}
           t == Raw(m)
           u == AfterStart(t)
<1>1. IsList(m.text) /\ DOMAIN m = DOMAIN NoMatch
  BY DEF IsMatch, IsList
<1>2. m.text \in Seq(S)
  BY <1>1, ListIn
<1>3. t \in Seq(S)
  <2>1. \A x \in Seq(S) : <<"!">> \o x \in Seq(S)
    OBVIOUS
  <2>2. QED
    BY <1>2, <2>1 DEF Raw
<1> HIDE DEF S, t
<1>4. u \in Seq(S)
  BY <1>3 DEF AfterStart
<1> HIDE DEF u
<1>5. (IF u # <<>> /\ Last(u) = "$" THEN Front(u) ELSE u) \in Seq(S)
  <2>1. u # <<>> => Front(u) \in Seq(S)
    BY <1>4 DEF Front
  <2>2. QED
    BY <1>4, <2>1
<1>6. Unanchored(t) \in Seq(S)
  BY <1>5 DEF Unanchored, u
<1>7. IsList(Unanchored(t))
  BY <1>6, SeqIsList
<1>8. DOMAIN Plain(m) = DOMAIN NoMatch /\ Plain(m).text = Unanchored(t) /\ Plain(m).negated = FALSE /\ Plain(m).ref = FALSE
  BY DEF Plain, NoMatch, t
<1>9. QED
  BY <1>7, <1>8 DEF IsMatch, IsList

LEMMA PlainKeeps ==
  ASSUME NEW e, {"name", "type", "action", "new", "cmp", "match"} \subseteq DOMAIN e
  PROVE  /\ DOMAIN Simplify(e) = DOMAIN e
         /\ Simplify(e).name = e.name /\ Simplify(e).type = e.type /\ Simplify(e).action = e.action
         /\ Simplify(e).new = e.new
         /\ IsMatch(e.match) => IsMatch(Simplify(e).match)
         /\ Simplify(e).cmp = "sensitive" \/ (Simplify(e).cmp = e.cmp /\ Simplify(e).match = e.match)
<1>1. /\ DOMAIN Simplify(e) = DOMAIN e
      /\ \A k \in DOMAIN e \ {"cmp", "match"} : Simplify(e)[k] = e[k]
      /\ IsPlain(e.cmp, e.match) => Simplify(e).cmp = "sensitive" /\ Simplify(e).match = Plain(e.match)
      /\ ~IsPlain(e.cmp, e.match) => Simplify(e) = e
  BY SimplifiedParts
<1>2. IsMatch(e.match) => IsMatch(Plain(e.match))
  BY PlainIsMatch
<1>3. QED
  BY <1>1, <1>2

LEMMA PlainRule ==
  ASSUME NEW r, IsParsed(r), NEW es, es = [j \in DOMAIN r.elements |-> Simplify(r.elements[j])],
         NEW q, BecomesPlain(r, q, es), DOMAIN q = RuleFields, IsRecord(q)
  PROVE  /\ IsParsed(q)
         /\ \A i : Engine => RuleUses(q, i) \subseteq RuleUses(r, i) /\ RuleSearches(q) \subseteq RuleSearches(r)
<1> DEFINE m == Len(r.elements)
           S == {es[j] : j \in 1 .. m}
<1>1. /\ m \in Nat /\ DOMAIN r.elements = 1 .. m
      /\ \A j \in 1 .. m : DOMAIN r.elements[j] = ElementFields /\ IsMatch(r.elements[j].match) /\ IsValue(r.elements[j].new)
  BY ParsedRule
<1>2. es = [j \in 1 .. m |-> es[j]] /\ \A j \in 1 .. m : es[j] = Simplify(r.elements[j])
  BY <1>1
<1>3. \A j \in 1 .. m :
        LET e == r.elements[j] IN
          /\ DOMAIN es[j] = ElementFields /\ IsMatch(es[j].match) /\ IsValue(es[j].new)
          /\ es[j].name = e.name /\ es[j].type = e.type /\ es[j].action = e.action /\ es[j].new = e.new
          /\ es[j].cmp = "sensitive" \/ (es[j].cmp = e.cmp /\ es[j].match = e.match)
  BY <1>1, <1>2, PlainKeeps DEF ElementFields
<1>4. es \in Seq(S) /\ Len(es) = m
  <2>1. \A j \in 1 .. m : es[j] \in S
    OBVIOUS
  <2> HIDE DEF S, m
  <2>2. es \in [1 .. m -> S]
    BY <1>2, <2>1
  <2>3. QED
    BY <1>1, <2>2, FunctionIsSeq
<1>5. IsList(es) /\ ToSet(es) \subseteq S
  BY <1>4, SeqIsList DEF ToSet
<1>6. \A e \in ToSet(es) : DOMAIN e = ElementFields /\ IsMatch(e.match) /\ IsValue(e.new)
  <2>1. \A e \in S : DOMAIN e = ElementFields /\ IsMatch(e.match) /\ IsValue(e.new)
    BY <1>3
  <2>2. QED
    BY <1>5, <2>1
<1>7. /\ q.header = r.header /\ q.action = r.action /\ q.new = r.new /\ q.name = r.name /\ q.msg = r.msg
      /\ q.elements = es
      /\ \/ q.cmp = "sensitive" /\ IsPlain(r.cmp, r.match)
         \/ q.cmp = r.cmp /\ q.match = r.match
  BY DEF BecomesPlain
<1>8. IsMatch(r.match) /\ (IsPlain(r.cmp, r.match) => q.match = Plain(r.match))
  BY DEF IsParsed, BecomesPlain
<1>9. IsMatch(q.match)
  BY <1>7, <1>8, PlainIsMatch
<1>10. IsParsed(q)
  BY <1>5, <1>6, <1>7, <1>9 DEF IsParsed, IsList
<1>11. ToSet(<<>>) = {}
  BY NoneAreParsed
<1>12. ASSUME NEW i, Engine PROVE ToSet(HeaderKeys(q, i)) \subseteq RuleUses(r, i)
  <2>1. (es = <<>> <=> r.elements = <<>>)
    <3>1. Len(es) = Len(r.elements) /\ r.elements \in Seq(ToSet(r.elements))
      BY <1>4 DEF IsParsed
    <3>2. QED
      BY <1>4, <3>1
  <2>2. (SetsHeader(q) <=> SetsHeader(r)) /\ RuleName(q, i) = RuleName(r, i)
    BY <1>7, <2>1 DEF SetsHeader, RuleName
  <2>3. CASE r.action = "store" /\ q.cmp # "pattern" /\ r.cmp = "pattern"
    <3>1. HeaderKeys(q, i) = <<Key(RuleName(r, i), 0)>>
      BY <1>7, <2>2, <2>3 DEF HeaderKeys, SetsHeader
    <3>2. HeaderKeys(r, i) = GroupKeys(r, i)
      BY <2>3 DEF HeaderKeys, SetsHeader
    <3>3. Groups(r.match.text) \in Nat
      BY <1>12 DEF Engine, SearchesAsWritten
    <3>4. 1 \in 1 .. Groups(r.match.text) + 1
      BY <3>3
    <3>5. 1 \in DOMAIN GroupKeys(r, i) /\ GroupKeys(r, i)[1] = Key(RuleName(r, i), 1 - 1) /\ 1 - 1 = 0
      BY <3>4 DEF GroupKeys
    <3>6. Key(RuleName(r, i), 0) \in ToSet(GroupKeys(r, i))
      BY <3>5 DEF ToSet
    <3>7. ToSet(<<Key(RuleName(r, i), 0)>>) = {Key(RuleName(r, i), 0)}
      BY DEF ToSet
    <3>8. QED
      BY <3>1, <3>2, <3>6, <3>7, RuleUsesParts
  <2>4. CASE ~(r.action = "store" /\ q.cmp # "pattern" /\ r.cmp = "pattern")
    <3>a. IsPlain(r.cmp, r.match) => r.cmp = "pattern"
      BY DEF IsPlain
    <3>1. r.action = "store" => (q.cmp = r.cmp /\ q.match = r.match)
      BY <1>7, <2>4, <3>a
    <3>2. r.action = "store" /\ q.match = r.match => GroupKeys(q, i) = GroupKeys(r, i)
      BY <2>2 DEF GroupKeys
    <3>3. HeaderKeys(q, i) = HeaderKeys(r, i)
      BY <1>7, <2>2, <3>1, <3>2 DEF HeaderKeys
    <3>4. QED
      BY <3>3, RuleUsesParts
  <2>5. QED
    BY <2>3, <2>4
<1>13. ToSet(Pattern(q.cmp, q.match)) \subseteq RuleSearches(r)
  <2>1. q.cmp = "sensitive" => Pattern(q.cmp, q.match) = <<>>
    BY DEF Pattern
  <2>2. QED
    BY <1>7, <1>11, <2>1, RuleUsesParts
<1>14. ASSUME NEW i, NEW k \in Visited(q)
       PROVE  /\ ToSet(ElementKeys(q, q.elements[k])) \subseteq RuleUses(r, i)
              /\ ToSet(Pattern(q.elements[k].cmp, q.elements[k].match)) \subseteq RuleSearches(r)
  <2> DEFINE e == r.elements[k]
             d == q.elements[k]
  <2>1. k \in 1 .. m /\ q.action # "reject" /\ Supported(d) /\ d = es[k]
    BY <1>4, <1>7 DEF Visited
  <2>2. /\ d.name = e.name /\ d.type = e.type /\ d.action = e.action /\ d.new = e.new
        /\ d.cmp = "sensitive" \/ (d.cmp = e.cmp /\ d.match = e.match)
    BY <1>3, <2>1
  <2>3. k \in Visited(r)
    BY <1>7, <2>1, <2>2 DEF Visited, Supported
  <2> HIDE DEF d, e
  <2>4. ElementKeys(q, d) = ElementKeys(r, e)
    BY <1>7, <2>2 DEF ElementKeys, ElementName
  <2>5. d.cmp = "sensitive" => Pattern(d.cmp, d.match) = <<>>
    BY DEF Pattern
  <2>6. ToSet(ElementKeys(r, e)) \subseteq RuleUses(r, i) /\ ToSet(Pattern(e.cmp, e.match)) \subseteq RuleSearches(r)
    BY <2>3, RuleUsesParts DEF e
  <2>7. QED
    BY <1>11, <2>2, <2>4, <2>5, <2>6 DEF d
<1>15. ASSUME NEW i, Engine
       PROVE  RuleUses(q, i) \subseteq RuleUses(r, i) /\ RuleSearches(q) \subseteq RuleSearches(r)
  <2> DEFINE A == RuleUses(r, i)
             P == RuleSearches(r)
  <2>1. /\ ToSet(HeaderKeys(q, i)) \subseteq A /\ ToSet(Pattern(q.cmp, q.match)) \subseteq P
        /\ \A k \in Visited(q) : /\ ToSet(ElementKeys(q, q.elements[k])) \subseteq A
                                  /\ ToSet(Pattern(q.elements[k].cmp, q.elements[k].match)) \subseteq P
    BY <1>12, <1>13, <1>14, <1>15
  <2> HIDE DEF A, P
  <2>2. RuleUses(q, i) \subseteq A /\ RuleSearches(q) \subseteq P
    BY <2>1, UsesOf
  <2>3. QED
    BY <2>2 DEF A, P
<1>16. QED
  BY <1>10, <1>15

LEMMA SimplifiedServed ==
  ASSUME NEW rs, AreParsed(rs)
  PROVE  AreParsed(Simplified(rs)) /\ (Engine => Within(Simplified(rs), rs))
<1> DEFINE n == Len(rs)
           q == Simplified(rs)
<1>1. n \in Nat /\ DOMAIN rs = 1 .. n /\ \A i \in 1 .. n : IsParsed(rs[i])
  BY ParsedRules
<1>2. /\ q = [i \in DOMAIN rs |-> q[i]]
      /\ \A i \in 1 .. n : q[i] = [Simplify(rs[i]) EXCEPT !.elements = [j \in DOMAIN @ |-> Simplify(@[j])]]
  BY <1>1 DEF Simplified
<1>3. ASSUME NEW i \in 1 .. n
      PROVE  /\ IsParsed(q[i])
             /\ Engine => RuleUses(q[i], i) \subseteq RuleUses(rs[i], i) /\ RuleSearches(q[i]) \subseteq RuleSearches(rs[i])
  <2> DEFINE r == rs[i]
             es == [j \in DOMAIN r.elements |-> Simplify(r.elements[j])]
             p == [Simplify(r) EXCEPT !.elements = es]
  <2>1. IsParsed(r) /\ DOMAIN r = RuleFields
    BY <1>1 DEF IsParsed
  <2>2. Simplify(r).elements = r.elements /\ DOMAIN Simplify(r) = RuleFields
    BY <2>1, SimplifiedParts DEF RuleFields
  <2>3. q[i] = p
    BY <1>2, <2>2
  <2> HIDE DEF r, q
  <2>4. DOMAIN p = RuleFields /\ IsRecord(p)
    BY <2>2 DEF IsRecord
  <2> HIDE DEF p
  <2>5. BecomesPlain(r, p, es)
    BY <2>1, RuleBecomesPlain DEF p
  <2>6. IsParsed(p) /\ (Engine => RuleUses(p, i) \subseteq RuleUses(r, i) /\ RuleSearches(p) \subseteq RuleSearches(r))
    BY <2>1, <2>4, <2>5, PlainRule
  <2>7. QED
    BY <2>3, <2>6 DEF r
<1> HIDE DEF q
<1>4. AreParsed(q) /\ Len(q) = n
  BY <1>2, <1>3, ParsedEach
<1>5. ASSUME Engine PROVE Within(q, rs)
  BY <1>5, <1>3, <1>4, WithinByRule
<1>6. QED
  BY <1>4, <1>5 DEF q

-----------------------------------------------------------------------------
(* The merged rules *)

LEMMA FuseParsed ==
  ASSUME NEW f, AreParsed(f), NEW q, IsParsed(q)
  PROVE  AreParsed(Fuse(f, q))
<1>1. CASE ~(f # <<>> /\ Fusable(Last(f), q))
  BY <1>1, ParsedAppend DEF Fuse
<1>2. CASE f # <<>> /\ Fusable(Last(f), q)
  <2> DEFINE g == Front(f)
             x == Fusion(Last(f), q)
  <2>1. AreParsed(g) /\ IsParsed(x)
    BY <1>2, ParsedSplit, ParsedFusion
  <2>2. Fuse(f, q) = g \o <<x>>
    BY <1>2 DEF Fuse, Fusion
  <2> HIDE DEF g, x
  <2>3. g \o <<x>> = Append(g, x)
    <3>1. g \in Seq(ToSet(g))
      BY <2>1 DEF AreParsed
    <3>2. QED
      BY <3>1
  <2>4. QED
    BY <2>1, <2>2, <2>3, ParsedAppend
<1>3. QED
  BY <1>1, <1>2

LEMMA FusedParsed ==
  ASSUME NEW ps, AreParsed(ps)
  PROVE  AreParsed(Fused(ps))
<1> DEFINE n == Len(ps)
<1>1. n \in Nat /\ \A i \in 1 .. n : IsParsed(ps[i])
  BY ParsedRules
<1>2. PICK g : /\ Fused(ps) = g[n] /\ g[0] = <<>> /\ \A i \in 1 .. n : g[i] = Fuse(g[i - 1], ps[i])
  BY <1>1, FusedUnfolds
<1> DEFINE I == {i \in Nat : i <= n => AreParsed(g[i])}
<1>3. 0 \in I
  BY <1>2, NoneAreParsed
<1>4. ASSUME NEW i \in I PROVE i + 1 \in I
  <2>1. ASSUME i + 1 <= n PROVE AreParsed(g[i + 1])
    <3>1. i + 1 \in 1 .. n /\ (i + 1) - 1 = i /\ AreParsed(g[i])
      BY <1>1, <2>1
    <3>2. g[i + 1] = Fuse(g[i], ps[i + 1])
      BY <1>2, <3>1
    <3>3. QED
      BY <1>1, <3>1, <3>2, FuseParsed
  <2>2. QED
    BY <2>1
<1>5. I = Nat
  <2> HIDE DEF I
  <2>1. QED
    BY <1>3, <1>4, NatClosure DEF I
<1>6. QED
  BY <1>1, <1>2, <1>5

LEMMA OnceServed ==
  ASSUME NEW rs, AreParsed(rs)
  PROVE  /\ AreParsed(Once(rs)) /\ Len(Once(rs)) = Len(rs) /\ Within(Once(rs), rs)
         /\ \A i \in 1 .. Len(rs) :
              /\ SameBut(Once(rs)[i], rs[i]) /\ (Once(rs)[i].elements = <<>> <=> rs[i].elements = <<>>)
              /\ ToSet(Once(rs)[i].elements) \subseteq ToSet(rs[i].elements)
<1> DEFINE n == Len(rs)
           G == Once(rs)
<1>1. n \in Nat /\ DOMAIN rs = 1 .. n /\ \A i \in 1 .. n : IsParsed(rs[i])
  BY ParsedRules
<1>2. ASSUME NEW i \in 1 .. n
      PROVE  /\ IsParsed(G[i]) /\ IsPartOf(G[i], rs[i])
             /\ SameBut(G[i], rs[i]) /\ (G[i].elements = <<>> <=> rs[i].elements = <<>>)
             /\ ToSet(G[i].elements) \subseteq ToSet(rs[i].elements)
  <2> DEFINE r == rs[i]
             D == Duplicates(r.elements, ElementSigs(r.elements))
             q == [r EXCEPT !.elements = Left(@, D)]
  <2>1. G[i] = q
    BY <1>1, DuplicatesAreLeft DEF Once
  <2>2. IsParsed(r)
    BY <1>1
  <2> HIDE DEF r, G
  <2>3. r.elements \in Seq(ToSet(r.elements))
    BY <2>2 DEF IsParsed
  <2>4. Left(r.elements, D) \in Seq(ToSet(r.elements)) /\ (Left(r.elements, D) = <<>> <=> r.elements = <<>>)
    BY <2>3, OnceElements
  <2> HIDE DEF D
  <2>5. /\ IsParsed(q) /\ SameBut(q, r) /\ q.elements = Left(r.elements, D)
        /\ \A k \in 1 .. Len(Left(r.elements, D)) : \E l \in 1 .. Len(r.elements) : Left(r.elements, D)[k] = r.elements[l]
    BY <2>2, ParsedSome
  <2> HIDE DEF q
  <2>6. ToSet(q.elements) \subseteq ToSet(r.elements)
    <3>1. \A S : \A x \in Seq(S) : ToSet(x) \subseteq S
      BY DEF ToSet
    <3>2. QED
      BY <2>4, <2>5, <3>1
  <2>7. IsPartOf(q, r)
    BY <2>4, <2>5 DEF IsPartOf
  <2>8. QED
    BY <2>1, <2>4, <2>5, <2>6, <2>7 DEF r
<1>3. G = [i \in DOMAIN rs |-> G[i]]
  BY DEF Once
<1> HIDE DEF G
<1>4. AreParsed(G) /\ Len(G) = n
  BY <1>2, <1>3, ParsedEach
<1>5. Within(Left(G, {}), rs)
  BY <1>2, <1>4, LeftWithin
<1>6. Left(G, {}) = G
  <2>1. G \in Seq(ToSet(G))
    BY <1>4 DEF AreParsed
  <2>2. QED
    BY <2>1, LeftPlaces
<1>7. QED
  BY <1>2, <1>4, <1>5, <1>6 DEF G

LEMMA MergedIsFused == ASSUME NEW rs PROVE Merged(rs) = Fused(Once(rs))
BY DEF Merged, Once

LEMMA MergedParsed ==
  ASSUME NEW rs, AreParsed(rs)
  PROVE  AreParsed(Merged(rs))
BY OnceServed, FusedParsed, MergedIsFused

LEMMA MergingAgrees ==
  ASSUME Engine, NEW rs, AreParsed(rs), MergingIsSafe(rs),
         NEW c, IsStrict(c), NEW s, IsState(s, c)
  PROVE  Within(Merged(rs), rs) /\ Agree(Walk(s, Merged(rs)), Walk(s, rs), c)
<1> DEFINE ps == Once(rs)
           n == Len(rs)
<1>1. /\ AreParsed(ps) /\ Len(ps) = n /\ Within(ps, rs)
      /\ \A i \in 1 .. n : /\ SameBut(ps[i], rs[i]) /\ (ps[i].elements = <<>> <=> rs[i].elements = <<>>)
                           /\ ToSet(ps[i].elements) \subseteq ToSet(rs[i].elements)
  BY OnceServed
<1>2. n \in Nat /\ DOMAIN rs = 1 .. n /\ DOMAIN ps = 1 .. n
  BY <1>1, ParsedRules
<1>3. /\ \A i \in 1 .. n : ElementsMayMerge(rs[i].elements)
      /\ \A i \in 1 .. n - 1 : Fusable(rs[i], rs[i + 1]) => RulesMayFuse(rs[i], rs[i + 1]) /\ StoresAreNamed(rs)
  BY <1>2 DEF MergingIsSafe
<1>4. Agree(Walk(s, ps), Walk(s, rs), c)
  BY <1>3, OnceAgrees DEF IsStrict
<1> HIDE DEF ps
<1>5. StoresAreNamed(rs) => StoresAreNamed(ps)
  BY <1>1, <1>2 DEF StoresAreNamed, SameBut
<1>6. ASSUME NEW i \in 1 .. n - 1, Fusable(ps[i], ps[i + 1])
      PROVE  RulesMayFuse(ps[i], ps[i + 1]) /\ StoresAreNamed(ps)
  <2>1. i \in 1 .. n /\ i + 1 \in 1 .. n
    BY <1>2
  <2>2. SameBut(ps[i], rs[i]) /\ SameBut(ps[i + 1], rs[i + 1])
    BY <1>1, <2>1
  <2>3. Fusable(rs[i], rs[i + 1])
    BY <1>6, <2>2 DEF SameBut, Fusable
  <2>4. RulesMayFuse(rs[i], rs[i + 1]) /\ StoresAreNamed(rs)
    BY <1>3, <2>3
  <2>5. /\ rs[i].header = rs[i + 1].header
        /\ \A x \in {rs[i], rs[i + 1]} : Unconditional(x.match) /\ (x.new = <<>> \/ x.elements # <<>>)
        /\ \A e \in ToSet(ps[i + 1].elements) : e.action = "store" => e.name # ""
    BY <1>1, <2>1, <2>4 DEF RulesMayFuse
  <2>6. \A x \in {ps[i], ps[i + 1]} : Unconditional(x.match) /\ (x.new = <<>> \/ x.elements # <<>>)
    BY <1>1, <2>1, <2>2, <2>5 DEF SameBut
  <2>7. ps[i].header = ps[i + 1].header
    BY <2>2, <2>5 DEF SameBut
  <2>8. QED
    BY <1>5, <2>4, <2>5, <2>6, <2>7 DEF RulesMayFuse
<1> HIDE DEF n
<1>7. /\ Within(Fused(ps), ps) /\ Agree(Walk(s, Fused(ps)), Walk(s, ps), c)
  BY <1>1, <1>6, FusedAgrees
<1>8. Merged(rs) = Fused(ps)
  BY MergedIsFused DEF ps
<1>9. QED
  BY <1>1, <1>4, <1>7, <1>8, AgreeOn DEF Within

-----------------------------------------------------------------------------
(* The passes keep the meaning *)

\* What a message becomes under a ruleset scanned for its own tables.
Outcome(rs, p) == Walk(InContext(p, Prepared(Scan(rs))), rs)

LEMMA OutcomeKept ==
  ASSUME Engine, NEW rs, AreParsed(rs), NEW q, AreParsed(q), Within(q, rs), NEW p, IsMessage(p),
         NEW c, c.message = p, c.patterns = Searches(rs), c.names \subseteq {<<>>},
         \A s : IsState(s, c) => Agree(Walk(s, q), Walk(s, rs), c)
  PROVE  /\ Outcome(q, p).fields = Outcome(rs, p).fields /\ Outcome(q, p).logs = Outcome(rs, p).logs
         /\ Outcome(q, p).verdict = Outcome(rs, p).verdict
<1> DEFINE t == Scan(rs)
           s == InContext(p, Prepared(t))
<1>1. IsFullRuleset(rs) /\ IsFullRuleset(q) /\ IsPacket(p)
  BY ParsedRules DEF IsMessage, IsPacket
<1>2. Covers(t, rs) /\ Covers(Scan(q), q)
  BY <1>1, ScanCovers
<1> HIDE DEF t
<1>3. Covers(t, q)
  BY <1>2 DEF Covers, Within
<1>4. HasTables(s, t) /\ IsFresh(s, p)
  BY <1>1, PreparedIsFresh
<1>5. LooksLike(Outcome(q, p), Walk(s, q))
  BY <1>1, <1>2, <1>3, CoversAlike DEF Outcome
<1> HIDE DEF s
<1>6. Serves(s, Uses(rs), Searches(rs))
  BY <1>2, <1>4, CoveringServes
<1>7. IsFields(s.fields, c.names)
  BY <1>4 DEF IsFresh, IsMessage, IsFields
<1>8. IsState(s, c)
  BY <1>4, <1>6, <1>7 DEF IsState, HasTables, IsFresh, Serves
<1>9. Agree(Walk(s, q), Walk(s, rs), c)
  BY <1>8
<1>10. Outcome(rs, p) = Walk(s, rs)
  BY DEF Outcome, s, t
<1>11. QED
  BY <1>5, <1>9, <1>10 DEF Agree, LooksLike

\* q and rs agree in every comparison that sets N and I aside.
AgreeFor(q, rs, N, I) ==
  \A c, s : c.names = N /\ c.ignored = I /\ c.patterns = Searches(rs) /\ IsState(s, c)
              => Agree(Walk(s, q), Walk(s, rs), c)

\* Rulesets that agree in every comparison mean the same.
LEMMA MeaningKept ==
  ASSUME Engine, NEW rs, AreParsed(rs), NEW q, AreParsed(q), Within(q, rs),
         NEW N, N \subseteq {<<>>}, NEW I, AgreeFor(q, rs, N, I)
  PROVE  Meaning(q) = Meaning(rs)
<1>1. ASSUME NEW p \in Packets
      PROVE  /\ Outcome(q, p).fields = Outcome(rs, p).fields /\ Outcome(q, p).logs = Outcome(rs, p).logs
             /\ Outcome(q, p).verdict = Outcome(rs, p).verdict
  <2> DEFINE c == [message |-> p, names |-> N, ignored |-> I, patterns |-> Searches(rs)]
  <2>1. c.message = p /\ c.names = N /\ c.ignored = I /\ c.patterns = Searches(rs)
    OBVIOUS
  <2> HIDE DEF c
  <2>2. \A s : IsState(s, c) => Agree(Walk(s, q), Walk(s, rs), c)
    BY <2>1 DEF AgreeFor
  <2>3. IsMessage(p)
    BY OptimizerAssumption
  <2>4. QED
    BY <2>1, <2>2, <2>3, OutcomeKept
<1>2. \A x : Meaning(x) = [p \in Packets |-> <<Outcome(x, p).fields, Outcome(x, p).logs, Outcome(x, p).verdict>>]
  BY DEF Meaning, Outcome
<1>3. [p \in Packets |-> <<Outcome(q, p).fields, Outcome(q, p).logs, Outcome(q, p).verdict>>] =
      [p \in Packets |-> <<Outcome(rs, p).fields, Outcome(rs, p).logs, Outcome(rs, p).verdict>>]
  BY <1>1
<1>4. QED
  BY <1>2, <1>3

LEMMA SafeDeduplication ==
  ASSUME Engine, NEW rs, AreParsed(rs), DeduplicationIsSafe(rs)
  PROVE  Meaning(Deduplicated(rs)) = Meaning(rs)
<1> DEFINE q == Deduplicated(rs)
<1>1. AreParsed(q) /\ Within(q, rs)
  BY DeduplicatedServed
<1>2. AgreeFor(q, rs, {}, {}) /\ {} \subseteq {<<>>}
  BY DeduplicationAgrees DEF AgreeFor
<1> HIDE DEF q
<1>3. Meaning(q) = Meaning(rs)
  BY <1>1, <1>2, MeaningKept
<1>4. QED
  BY <1>3 DEF q

LEMMA SafeElimination ==
  ASSUME Engine, NEW rs, AreParsed(rs), EliminationIsSafe(rs)
  PROVE  Meaning(Alive(rs)) = Meaning(rs)
<1> DEFINE q == Alive(rs)
           N == IF \E i \in 1 .. Len(rs) : Dead(rs[i]) THEN {<<>>} ELSE {}
           I == IF CapturesUnread(rs) THEN {"captures"} ELSE {}
<1>1. AreParsed(q) /\ Within(q, rs)
  BY AliveServed
<1>2. N \subseteq {<<>>} /\ (I = {} <=> ~CapturesUnread(rs))
  OBVIOUS
<1>3. ASSUME NEW c, NEW s, c.names = N, c.ignored = I, c.patterns = Searches(rs), IsState(s, c)
      PROVE  Agree(Walk(s, q), Walk(s, rs), c)
  <2>1. c.ignored = {} <=> ~CapturesUnread(rs)
    BY <1>2, <1>3
  <2>2. c.names = IF \E i \in 1 .. Len(rs) : Dead(rs[i]) THEN {<<>>} ELSE {}
    BY <1>3
  <2>3. QED
    BY <1>3, <2>1, <2>2, EliminationAgrees
<1> HIDE DEF q, N, I
<1>4. AgreeFor(q, rs, N, I)
  BY <1>3 DEF AgreeFor
<1>5. Meaning(q) = Meaning(rs)
  BY <1>1, <1>2, <1>4, MeaningKept
<1>6. QED
  BY <1>5 DEF q

LEMMA SafeSimplification ==
  ASSUME Engine, NEW rs, AreParsed(rs), SimplificationIsSafe(rs)
  PROVE  Meaning(Simplified(rs)) = Meaning(rs)
<1> DEFINE q == Simplified(rs)
<1>1. AreParsed(q) /\ Within(q, rs)
  BY SimplifiedServed
<1>2. CASE CapturesUnread(rs)
  <2>1. ASSUME NEW c, NEW s, c.names = {}, c.ignored = {"captures"}, c.patterns = Searches(rs), IsState(s, c)
        PROVE  Agree(Walk(s, q), Walk(s, rs), c)
    <3>1. c.ignored # {}
      BY <2>1
    <3>2. Agree(Walk(s, rs), Walk(s, q), c)
      BY <1>2, <2>1, <3>1, SimplificationAgrees
    <3>3. QED
      BY <3>2, AgreeBack
  <2> HIDE DEF q
  <2>2. AgreeFor(q, rs, {}, {"captures"}) /\ {} \subseteq {<<>>}
    BY <2>1 DEF AgreeFor
  <2>3. Meaning(q) = Meaning(rs)
    BY <1>1, <2>2, MeaningKept
  <2>4. QED
    BY <2>3 DEF q
<1>3. CASE ~CapturesUnread(rs)
  <2>1. Simplified(rs) = rs
    BY <1>3 DEF SimplificationIsSafe
  <2>2. QED
    BY <2>1
<1>4. QED
  BY <1>2, <1>3

LEMMA BareState == \E c, s : IsStrict(c) /\ IsState(s, c)
<1> DEFINE c == [message |-> [request |-> TRUE, method |-> <<>>], names |-> {}, ignored |-> {}, patterns |-> {}]
           s == [k \in StateParts |-> IF k = "request" THEN TRUE ELSE <<>>]
<1>1. IsStrict(c) /\ c.message.request = TRUE /\ c.message.method = <<>> /\ c.patterns = {}
  BY DEF IsStrict
<1>2. s.request = TRUE /\ s.method = <<>> /\ s.fields = <<>> /\ DOMAIN s = StateParts
  BY DEF StateParts
<1>3. IsFields(<<>>, c.names)
  BY DEF IsFields, ToSet
<1> HIDE DEF c, s
<1>4. IsState(s, c)
  BY <1>1, <1>2, <1>3 DEF IsState
<1>5. QED
  BY <1>1, <1>4

LEMMA SafeMerging ==
  ASSUME Engine, NEW rs, AreParsed(rs), MergingIsSafe(rs)
  PROVE  Meaning(Merged(rs)) = Meaning(rs)
<1> DEFINE q == Merged(rs)
<1>1. AreParsed(q)
  BY MergedParsed
<1>2. ASSUME NEW c, IsStrict(c), NEW s, IsState(s, c)
      PROVE  Within(q, rs) /\ Agree(Walk(s, q), Walk(s, rs), c)
  BY <1>2, MergingAgrees
<1> HIDE DEF q
<1>3. PICK c, s : IsStrict(c) /\ IsState(s, c)
  BY BareState
<1>4. Within(q, rs)
  BY <1>2, <1>3
<1>5. AgreeFor(q, rs, {}, {}) /\ {} \subseteq {<<>>}
  BY <1>2 DEF AgreeFor, IsStrict
<1>6. Meaning(q) = Meaning(rs)
  BY <1>1, <1>4, <1>5, MeaningKept
<1>7. QED
  BY <1>6 DEF q

LEMMA PassesKeepParsed ==
  ASSUME NEW rs, AreParsed(rs), NEW p \in Passes4
  PROVE  AreParsed(After(p, rs))
<1>1. /\ AreParsed(Deduplicated(rs)) /\ AreParsed(Alive(rs))
      /\ AreParsed(Simplified(rs)) /\ AreParsed(Merged(rs))
  BY DeduplicatedServed, AliveServed, SimplifiedServed, MergedParsed
<1>2. QED
  BY <1>1 DEF After, Passes4

LEMMA PassesKeepMeaning ==
  ASSUME Engine, NEW rs, AreParsed(rs), NEW p \in Passes4, IsSafe(p, rs)
  PROVE  Meaning(After(p, rs)) = Meaning(rs)
<1>1. CASE p = "deduplication"
  <2>1. After(p, rs) = Deduplicated(rs) /\ DeduplicationIsSafe(rs)
    BY <1>1 DEF After, IsSafe
  <2>2. QED
    BY <2>1, SafeDeduplication
<1>2. CASE p = "dead-code-elimination"
  <2>1. After(p, rs) = Alive(rs) /\ EliminationIsSafe(rs)
    BY <1>2 DEF After, IsSafe
  <2>2. QED
    BY <2>1, SafeElimination
<1>3. CASE p = "pattern-simplification"
  <2>1. After(p, rs) = Simplified(rs) /\ SimplificationIsSafe(rs)
    BY <1>3 DEF After, IsSafe
  <2>2. QED
    BY <2>1, SafeSimplification
<1>4. CASE p = "rule-merging"
  <2>1. After(p, rs) = Merged(rs) /\ MergingIsSafe(rs)
    BY <1>4 DEF After, IsSafe
  <2>2. QED
    BY <2>1, SafeMerging
<1>5. QED
  BY <1>1, <1>2, <1>3, <1>4 DEF Passes4

LEMMA StepKeepsMeaning ==
  ASSUME Engine, AreParsed(rules), [Next]_vars
  PROVE  AreParsed(rules') /\ (IsSafe(pass, rules) => Meaning(rules') = Meaning(rules))
<1>1. ASSUME NEW p \in Passes4, NEW next, Run(p, next)
      PROVE  AreParsed(rules') /\ (IsSafe(pass, rules) => Meaning(rules') = Meaning(rules))
  <2>1. pass = p /\ rules' = After(p, rules)
    BY <1>1 DEF Run
  <2>2. QED
    BY <2>1, PassesKeepParsed, PassesKeepMeaning
<1>2. CASE Deduplicate \/ EliminateDeadCode \/ SimplifyPatterns \/ MergeRules
  BY <1>1, <1>2 DEF Deduplicate, EliminateDeadCode, SimplifyPatterns, MergeRules, Passes4
<1>3. CASE EndRound \/ GroupByHeader \/ UNCHANGED vars
  <2>1. rules' = rules
    BY <1>3 DEF EndRound, GroupByHeader, vars
  <2>2. QED
    BY <2>1
<1>4. QED
  BY <1>2, <1>3 DEF Next

LEMMA StartsParsed == Init => AreParsed(rules)
BY OptimizerAssumption DEF Init, AreParsed, IsRuleset

\* The passes "mutate the AST" (optimizer.hpp:14) of rules that are to do the
\* same compiled as interpreted (interpreter.hpp:15-16): where a ruleset meets
\* the condition IsSafe of a pass, the pass changes no header field, no log and
\* no verdict of any packet.  For any rulesets and packets as parsed, any number
\* of rounds, any matchers and variables, and any engine (external) that finds
\* of a pattern anchored at both ends, and otherwise literal, just that text.
THEOREM SafePassesAreSound ==
  ASSUME \A t, x : SearchesAsWritten(t, x)
  PROVE  Spec => SafePassesKeepMeaning
<1>1. Engine
  BY DEF Engine
<1>2. AreParsed(rules) /\ [Next]_vars => AreParsed(rules)'
  BY <1>1, StepKeepsMeaning
<1>3. AreParsed(rules) /\ [Next]_vars => [IsSafe(pass, rules) => Meaning(rules') = Meaning(rules)]_vars
  BY <1>1, StepKeepsMeaning
<1>4. QED
  BY StartsParsed, <1>2, <1>3, PTL DEF Spec, SafePassesKeepMeaning

-----------------------------------------------------------------------------
(* What the passes count *)

\* A rule that is given the element rules it has.
LEMMA OwnElements ==
  ASSUME NEW r, IsParsed(r)
  PROVE  [r EXCEPT !.elements = r.elements] = r
<1>1. r = [f \in DOMAIN r |-> r[f]]
  BY DEF IsParsed, IsRecord
<1>2. QED
  BY <1>1

LEMMA NoneDropped ==
  ASSUME NEW r, IsParsed(r)
  PROVE  /\ Idle(r.elements) = {} => [r EXCEPT !.elements = Working(@)] = r
         /\ Duplicates(r.elements, ElementSigs(r.elements)) = {} =>
              [r EXCEPT !.elements = WithoutDuplicates(@, ElementSigs(@))] = r
<1>1. r.elements \in Seq(ToSet(r.elements))
  BY DEF IsParsed
<1>2. Left(r.elements, {}) = r.elements
  BY <1>1, LeftPlaces
<1>3. Idle(r.elements) = {} => Working(r.elements) = r.elements
  BY <1>2, WorkingIsLeft
<1>4. Duplicates(r.elements, ElementSigs(r.elements)) = {} =>
        WithoutDuplicates(r.elements, ElementSigs(r.elements)) = r.elements
  BY <1>2, DuplicatesAreLeft
<1>5. QED
  BY <1>3, <1>4, OwnElements

\* A rule without a plain pattern.
LEMMA NoneSimplified ==
  ASSUME NEW r, IsParsed(r), \A x \in {r} \cup ToSet(r.elements) : ~IsPlain(x.cmp, x.match)
  PROVE  [Simplify(r) EXCEPT !.elements = [j \in DOMAIN @ |-> Simplify(@[j])]] = r
<1>1. Simplify(r) = r
  BY DEF Simplify
<1>2. \A j \in DOMAIN r.elements : Simplify(r.elements[j]) = r.elements[j]
  BY DEF Simplify, ToSet
<1>3. r.elements = [j \in DOMAIN r.elements |-> r.elements[j]]
  <2>1. r.elements \in Seq(ToSet(r.elements))
    BY DEF IsParsed
  <2>2. QED
    BY <2>1
<1>4. [j \in DOMAIN r.elements |-> Simplify(r.elements[j])] = r.elements
  BY <1>2, <1>3
<1>5. QED
  BY <1>1, <1>4, OwnElements

\* Fusing leaves no more rules than there were, and all of them if as many.
LEMMA FusedOrSame ==
  ASSUME NEW ps, AreParsed(ps)
  PROVE  Len(Fused(ps)) < Len(ps) \/ Fused(ps) = ps
<1> DEFINE n == Len(ps)
<1>1. n \in Nat /\ DOMAIN ps = 1 .. n /\ ps \in Seq(ToSet(ps)) /\ \A i \in 1 .. n : IsParsed(ps[i])
  BY ParsedRules DEF AreParsed
<1>2. PICK g : /\ Fused(ps) = g[n] /\ g[0] = <<>> /\ \A i \in 1 .. n : g[i] = Fuse(g[i - 1], ps[i])
  BY <1>1, FusedUnfolds
<1> DEFINE Same(i) == \A k \in 1 .. i : g[i][k] = ps[k]
           I == {i \in Nat : i <= n => /\ AreParsed(g[i]) /\ Len(g[i]) <= i
                                       /\ Len(g[i]) = i => Same(i)}
<1>3. 0 \in I
  BY <1>2, NoneAreParsed
<1>4. ASSUME NEW i \in Nat, i + 1 <= n, AreParsed(g[i]), Len(g[i]) <= i, Len(g[i]) = i => Same(i)
      PROVE  /\ AreParsed(g[i + 1]) /\ Len(g[i + 1]) <= i + 1
             /\ Len(g[i + 1]) = i + 1 => Same(i + 1)
  <2> DEFINE f == g[i]
             q == ps[i + 1]
             h == g[i + 1]
  <2>1. /\ i \in Nat /\ i + 1 \in 1 .. n /\ (i + 1) - 1 = i /\ IsParsed(q)
        /\ AreParsed(f) /\ Len(f) <= i /\ (Len(f) = i => Same(i))
    BY <1>1, <1>4
  <2>2. h = Fuse(f, q)
    BY <1>2, <2>1
  <2>3. AreParsed(h)
    BY <2>1, <2>2, FuseParsed
  <2> HIDE DEF f, h
  <2>4. f \in Seq(ToSet(f)) /\ Len(f) \in Nat
    BY <2>1, ParsedRules DEF AreParsed
  <2>5. CASE ~(f # <<>> /\ Fusable(Last(f), q))
    <3>1. h = Append(f, q)
      BY <2>2, <2>5 DEF Fuse
    <3>2. Len(h) = Len(f) + 1 /\ h[Len(f) + 1] = q /\ \A k \in 1 .. Len(f) : h[k] = f[k]
      <4> DEFINE S == ToSet(f) \cup {q}
      <4>1. f \in Seq(S) /\ q \in S
        BY <2>4, SeqIsList, ListIn
      <4> HIDE DEF S, q
      <4>2. QED
        BY <3>1, <4>1
    <3>3. ASSUME Len(h) = i + 1, NEW k \in 1 .. i + 1 PROVE h[k] = ps[k]
      <4>1. Len(f) = i /\ Same(i)
        BY <2>1, <2>4, <3>2, <3>3
      <4>2. k = i + 1 \/ k \in 1 .. i
        BY <2>1, <3>3
      <4>3. QED
        BY <3>2, <4>1, <4>2 DEF f
    <3>4. QED
      BY <2>1, <2>3, <2>4, <3>2, <3>3 DEF h
  <2>6. CASE f # <<>> /\ Fusable(Last(f), q)
    <3> DEFINE x == Fusion(Last(f), q)
    <3>1. AreParsed(Front(f)) /\ IsParsed(x) /\ f = Append(Front(f), Last(f))
      BY <2>1, <2>6, ParsedSplit, ParsedFusion
    <3>2. h = Front(f) \o <<x>>
      BY <2>2, <2>6 DEF Fuse, Fusion
    <3>3. Front(f) \in Seq(ToSet(Front(f))) /\ Len(Front(f)) \in Nat
      BY <3>1, ParsedRules DEF AreParsed
    <3> DEFINE e == Front(f)
               l == Last(f)
    <3> HIDE DEF x, e, l
    <3>4. Len(h) = Len(e) + 1 /\ Len(f) = Len(e) + 1
      <4>1. \A S : \A y \in Seq(S) : \A z : Len(y \o <<z>>) = Len(y) + 1 /\ Len(Append(y, z)) = Len(y) + 1
        OBVIOUS
      <4>2. QED
        BY <3>1, <3>2, <3>3, <4>1 DEF e, l
    <3>5. Len(h) <= i
      BY <2>1, <3>4
    <3>6. QED
      BY <2>1, <2>3, <2>4, <3>4, <3>5 DEF h
  <2>7. QED
    BY <2>5, <2>6
<1>5. ASSUME NEW i \in I PROVE i + 1 \in I
  <2> HIDE DEF Same
  <2>1. i \in Nat /\ i + 1 \in Nat /\ (i + 1 <= n => i <= n)
    BY <1>1
  <2>2. i <= n => AreParsed(g[i]) /\ Len(g[i]) <= i /\ (Len(g[i]) = i => Same(i))
    OBVIOUS
  <2>3. QED
    BY <1>4, <2>1, <2>2
<1>6. I = Nat
  <2> HIDE DEF I
  <2>1. QED
    BY <1>3, <1>5, NatClosure DEF I
<1>7. AreParsed(g[n]) /\ Len(g[n]) <= n /\ (Len(g[n]) = n => Same(n))
  <2> HIDE DEF Same
  <2>1. n \in I
    BY <1>1, <1>6
  <2> HIDE DEF n
  <2>2. n <= n
    BY <1>1
  <2>3. QED
    BY <2>1, <2>2
<1>8. ASSUME Len(g[n]) = n PROVE g[n] = ps
  <2> DEFINE f == g[n]
  <2>1. f \in Seq(ToSet(f)) /\ Len(f) = n
    BY <1>7, <1>8 DEF AreParsed
  <2>2. \A k \in 1 .. n : f[k] = ps[k]
    BY <1>7, <1>8
  <2> HIDE DEF f
  <2>3. QED
    BY <1>1, <2>1, <2>2 DEF f
<1>9. Len(g[n]) \in Nat
  BY <1>7, ParsedRules
<1>10. QED
  BY <1>1, <1>2, <1>7, <1>8, <1>9

\* A pass that counts nothing changes nothing.
LEMMA UnreportedIsUnchanged ==
  ASSUME NEW rs, AreParsed(rs), NEW p \in Passes4, ~Reports(p, rs)
  PROVE  After(p, rs) = rs
<1>1. /\ DOMAIN rs = 1 .. Len(rs) /\ rs \in Seq(ToSet(rs)) /\ rs = [i \in DOMAIN rs |-> rs[i]]
      /\ \A i \in DOMAIN rs : IsParsed(rs[i])
  <2>1. rs \in Seq(ToSet(rs)) /\ DOMAIN rs = 1 .. Len(rs) /\ \A i \in 1 .. Len(rs) : IsParsed(rs[i])
    BY ParsedRules DEF AreParsed
  <2>2. QED
    BY <2>1
<1>2. Left(rs, {}) = rs
  BY <1>1, LeftPlaces
<1>3. CASE p = "deduplication"
  <2>1. Duplicates(rs, Sigs(rs)) = {} /\ After(p, rs) = WithoutDuplicates(rs, Sigs(rs))
    BY <1>3 DEF Reports, After, Deduplicated
  <2>2. QED
    BY <1>2, <2>1 DEF WithoutDuplicates, Left
<1>4. CASE p = "dead-code-elimination"
  <2>1. \A i \in DOMAIN rs : ~Dead(rs[i]) /\ Idle(rs[i].elements) = {}
    BY <1>4 DEF Reports
  <2>2. \A i \in DOMAIN rs : [rs[i] EXCEPT !.elements = Working(@)] = rs[i]
    BY <1>1, <2>1, NoneDropped
  <2>3. [i \in DOMAIN rs |-> IF Dead(rs[i]) THEN <<>> ELSE <<[rs[i] EXCEPT !.elements = Working(@)]>>] =
        [i \in DOMAIN rs |-> IF i \in {} THEN <<>> ELSE <<rs[i]>>]
    BY <2>1, <2>2
  <2>4. Alive(rs) = Left(rs, {})
    BY <2>3 DEF Alive, Left
  <2>5. QED
    BY <1>2, <1>4, <2>4 DEF After
<1>5. CASE p = "pattern-simplification"
  <2>1. \A i \in DOMAIN rs : \A x \in {rs[i]} \cup ToSet(rs[i].elements) : ~IsPlain(x.cmp, x.match)
    BY <1>5 DEF Reports
  <2>2. \A i \in DOMAIN rs : [Simplify(rs[i]) EXCEPT !.elements = [j \in DOMAIN @ |-> Simplify(@[j])]] = rs[i]
    BY <1>1, <2>1, NoneSimplified
  <2>3. Simplified(rs) = rs
    BY <1>1, <2>2 DEF Simplified
  <2>4. QED
    BY <1>5, <2>3 DEF After
<1>6. CASE p = "rule-merging"
  <2>1. /\ \A i \in DOMAIN rs : Duplicates(rs[i].elements, ElementSigs(rs[i].elements)) = {}
        /\ ~(Len(Merged(rs)) < Len(rs))
    BY <1>6 DEF Reports
  <2>2. \A i \in DOMAIN rs : [rs[i] EXCEPT !.elements = WithoutDuplicates(@, ElementSigs(@))] = rs[i]
    BY <1>1, <2>1, NoneDropped
  <2>3. Once(rs) = rs
    BY <1>1, <2>2 DEF Once
  <2>4. Merged(rs) = Fused(rs)
    BY <2>3, MergedIsFused
  <2>5. QED
    BY <1>6, <2>1, <2>4, FusedOrSame DEF After
<1>7. QED
  BY <1>3, <1>4, <1>5, <1>6 DEF Passes4

-----------------------------------------------------------------------------
(* The driver *)

\* The passes of the round that are over.
Passed ==
  CASE pass = "deduplication"          -> {}
    [] pass = "dead-code-elimination"  -> {"deduplication"}
    [] pass = "pattern-simplification" -> {"deduplication", "dead-code-elimination"}
    [] pass = "rule-merging"           -> Passes4 \ {"rule-merging"}
    [] OTHER                           -> Passes4

\* While a round has changed nothing, the rules in place are fixed by the
\* passes it has run; only the last round may end changed.
DriverInv ==
  /\ pass \in Passes4 \cup {"end of round", "decision-tree", "done"}
  /\ AreParsed(rules) /\ round \in 1..MaxRounds /\ changed \in BOOLEAN
  /\ ~changed => \A p \in Passed : After(p, rules) = rules
  /\ pass \in {"decision-tree", "done"} => round = MaxRounds \/ ~changed

LEMMA RoundsAreCounted ==
  ASSUME NEW r \in 1..MaxRounds
  PROVE  /\ r < MaxRounds => r + 1 \in 1..MaxRounds
         /\ r < MaxRounds \/ r = MaxRounds
BY OptimizerAssumption

LEMMA InitDriverInv == Init => DriverInv
<1> SUFFICES ASSUME Init PROVE DriverInv
  OBVIOUS
<1>1. pass = "deduplication" /\ changed = FALSE /\ round = 1
  BY ChainIsPasses DEF Init
<1>2. Passed = {}
  BY <1>1 DEF Passed
<1>3. 1 \in 1..MaxRounds
  BY OptimizerAssumption
<1>4. QED
  BY <1>1, <1>2, <1>3, StartsParsed DEF DriverInv, Passes4

\* A pass that is over fixes the rules, or the round is one that changed them.
LEMMA RunKeepsDriverInv ==
  ASSUME DriverInv, NEW p \in Passes4, NEW next \in Passes4 \cup {"end of round"},
         Run(p, next), Passed' = Passed \cup {p}
  PROVE  DriverInv'
<1>1. pass = p /\ pass' = next /\ round' = round /\ rules' = After(p, rules)
  BY DEF Run
<1>2. changed' \in BOOLEAN
  BY DEF Run, DriverInv
<1>3. ASSUME ~changed' PROVE \A q \in Passed' : After(q, rules') = rules'
  <2>1. ~changed /\ ~Reports(p, rules)
    BY <1>3 DEF Run, DriverInv
  <2>2. After(p, rules) = rules
    BY <2>1, UnreportedIsUnchanged DEF DriverInv
  <2>3. QED
    BY <2>1, <2>2, <1>1 DEF DriverInv
<1>4. AreParsed(rules')
  BY <1>1, PassesKeepParsed DEF DriverInv
<1>5. QED
  BY <1>1, <1>2, <1>3, <1>4 DEF DriverInv, Passes4

LEMMA NextDriverInv ==
  ASSUME DriverInv, [Next]_vars
  PROVE  DriverInv'
<1>1. CASE Deduplicate
  <2>1. Passed' = Passed \cup {"deduplication"}
    BY <1>1 DEF Deduplicate, Run, Passed
  <2>2. QED
    BY <1>1, <2>1, RunKeepsDriverInv DEF Deduplicate, Passes4
<1>2. CASE EliminateDeadCode
  <2>1. Passed' = Passed \cup {"dead-code-elimination"}
    BY <1>2 DEF EliminateDeadCode, Run, Passed
  <2>2. QED
    BY <1>2, <2>1, RunKeepsDriverInv DEF EliminateDeadCode, Passes4
<1>3. CASE SimplifyPatterns
  <2>1. Passed' = Passed \cup {"pattern-simplification"}
    BY <1>3 DEF SimplifyPatterns, Run, Passed, Passes4
  <2>2. QED
    BY <1>3, <2>1, RunKeepsDriverInv DEF SimplifyPatterns, Passes4
<1>4. CASE MergeRules
  <2>1. Passed' = Passed \cup {"rule-merging"}
    BY <1>4 DEF MergeRules, Run, Passed, Passes4
  <2>2. QED
    BY <1>4, <2>1, RunKeepsDriverInv DEF MergeRules, Passes4
<1>5. CASE EndRound
  <2>1. CASE changed /\ round < MaxRounds
    <3>1. pass' = "deduplication" /\ changed' = FALSE /\ round' = round + 1 /\ rules' = rules
      BY <1>5, <2>1, ChainIsPasses DEF EndRound
    <3>2. Passed' = {}
      BY <3>1 DEF Passed
    <3>3. round' \in 1..MaxRounds
      BY <3>1, <2>1, RoundsAreCounted DEF DriverInv
    <3>4. QED
      BY <3>1, <3>2, <3>3 DEF DriverInv, Passes4
  <2>2. CASE ~(changed /\ round < MaxRounds)
    <3>1. /\ pass = "end of round" /\ pass' = "decision-tree"
          /\ changed' = changed /\ round' = round /\ rules' = rules
      BY <1>5, <2>2 DEF EndRound
    <3>2. Passed' = Passed
      BY <3>1 DEF Passed
    <3>3. ~changed \/ round = MaxRounds
      BY <2>2, RoundsAreCounted DEF DriverInv
    <3>4. QED
      BY <3>1, <3>2, <3>3 DEF DriverInv
  <2>3. QED
    BY <2>1, <2>2
<1>6. CASE GroupByHeader
  BY <1>6 DEF GroupByHeader, DriverInv, Passed, Passes4
<1>7. CASE UNCHANGED vars
  BY <1>7 DEF vars, DriverInv, Passed
<1>8. QED
  BY <1>1, <1>2, <1>3, <1>4, <1>5, <1>6, <1>7 DEF Next

\* What the driver's loop keeps (optimizer.cpp, Optimizer::optimize): the
\* rounds stay within max_iterations, and the passes of a round that has
\* changed nothing so far leave the rules as they are.
THEOREM DriverInvariantHolds == Spec => []DriverInv
<1>1. DriverInv /\ [Next]_vars => DriverInv'
  BY NextDriverInv
<1>2. QED
  BY InitDriverInv, <1>1, PTL DEF Spec

\* "Run the transform passes to a fixpoint (or max_iterations)" (optimizer.hpp:
\* 94), for any rulesets as parsed and any number of rounds: a pass that counts
\* nothing has left the rules alone, and the counts of a round miss no pass.
THEOREM RoundsEndAtFixpoint == Spec => []EndsAtFixpoint
<1>1. DriverInv => EndsAtFixpoint
  BY ChainIsPasses, OptimizerAssumption DEF DriverInv, EndsAtFixpoint, Passed
<1>2. QED
  BY DriverInvariantHolds, <1>1, PTL

\* Rounds are counted and rulesets never grow, for any rulesets.
THEOREM TypeCorrect == Spec => []TypeOK
<1>1. DriverInv /\ RulesInv => TypeOK
  BY ChainIsPasses DEF DriverInv, RulesInv, Keeps, TypeOK, Passes4
<1>2. QED
  BY DriverInvariantHolds, RulesInvHolds, <1>1, PTL
=============================================================================
