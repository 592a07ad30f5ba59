---------------------------- MODULE Rules_proofs ----------------------------
(***************************************************************************)
(* Lemmas about Rules, for any ruleset: the equations of the walk, what    *)
(* the scan registers, and that states whose tables register what the      *)
(* rules use are told apart by no rule, so that a walk is the same in any  *)
(* of them.                                                                *)
(***************************************************************************)
EXTENDS Rules, Induction


\* A rule as the assumption on rulesets has it.
IsRule(r) == Groups(r.match.text) \in Nat /\ r.elements \in Seq(ToSet(r.elements))

-----------------------------------------------------------------------------
(* The walk: the recursive functions of Rules satisfy their equations *)

LEMMA AfterGroupsUnfolds ==
  ASSUME NEW s, NEW r, NEW i, Groups(r.match.text) \in Nat
  PROVE  /\ AfterGroups(s, r, i)[0] = s
         /\ \A n \in 1 .. Groups(r.match.text) + 1 :
              AfterGroups(s, r, i)[n] = StoreGroup(AfterGroups(s, r, i)[n - 1], r, i, n - 1)
<1> DEFINE N == Groups(r.match.text) + 1
           Follows(g, m) == g[0] = s /\ \A n \in 1 .. m : g[n] = StoreGroup(g[n - 1], r, i, n - 1)
           Good(g) == g = [n \in 0 .. N |-> IF n = 0 THEN s ELSE StoreGroup(g[n - 1], r, i, n - 1)]
           I == {m \in Nat : \E g : Follows(g, m)}
<1>0. N \in Nat
  OBVIOUS
<1>1. 0 \in I
  <2>1. Follows([n \in {0} |-> s], 0)
    OBVIOUS
  <2>2. QED
    BY <2>1
<1>2. ASSUME NEW m \in I PROVE m + 1 \in I
  <2>1. PICK g : Follows(g, m)
    OBVIOUS
  <2> DEFINE h == [n \in 0 .. m + 1 |-> IF n = m + 1 THEN StoreGroup(g[m], r, i, m) ELSE g[n]]
  <2>2. m \in Nat
    OBVIOUS
  <2>3. h[m + 1] = StoreGroup(g[m], r, i, m) /\ \A n \in 0 .. m : h[n] = g[n]
    BY <2>2
  <2> HIDE DEF h
  <2>4. Follows(h, m + 1)
    <3>1. h[0] = s
      BY <2>1, <2>2, <2>3
    <3>2. ASSUME NEW n \in 1 .. m + 1 PROVE h[n] = StoreGroup(h[n - 1], r, i, n - 1)
      <4>1. CASE n = m + 1
        BY <2>2, <2>3, <4>1
      <4>2. CASE n # m + 1
        <5>1. n \in 1 .. m /\ n \in 0 .. m /\ n - 1 \in 0 .. m
          BY <2>2, <4>2
        <5>2. QED
          BY <2>1, <2>3, <5>1
      <4>3. QED
        BY <4>1, <4>2
    <3>3. QED
      BY <3>1, <3>2
  <2> HIDE DEF Follows
  <2>5. \E f : Follows(f, m + 1)
    BY <2>4
  <2>6. m + 1 \in Nat
    BY <2>2
  <2>7. QED
    BY <2>5, <2>6
<1>3. I = Nat
  <2> HIDE DEF I
  <2>1. QED
    BY <1>1, <1>2, NatClosure DEF I
<1>4. PICK f : Follows(f, N)
  BY <1>0, <1>3
<1> DEFINE e == [n \in 0 .. N |-> f[n]]
<1>5. Good(e)
  <2>1. ASSUME NEW n \in 0 .. N
        PROVE  e[n] = IF n = 0 THEN s ELSE StoreGroup(e[n - 1], r, i, n - 1)
    BY <1>0, <1>4
  <2>2. QED
    BY <2>1
<1> DEFINE after == CHOOSE g : Good(g)
<1>6. Good(after)
  <2> HIDE DEF e, Good
  <2>1. QED
    BY <1>5
<1>7. AfterGroups(s, r, i) = after
  BY DEF AfterGroups
<1> HIDE DEF after
<1>8. QED
  BY <1>0, <1>6, <1>7

LEMMA AfterElementsUnfolds ==
  ASSUME NEW s, NEW r, Len(r.elements) \in Nat
  PROVE  /\ AfterElements(s, r)[0] = s
         /\ \A j \in 1 .. Len(r.elements) :
              AfterElements(s, r)[j] = NextElement(AfterElements(s, r)[j - 1], r, r.elements[j])
<1> DEFINE N == Len(r.elements)
           Follows(g, m) == g[0] = s /\ \A j \in 1 .. m : g[j] = NextElement(g[j - 1], r, r.elements[j])
           Good(g) == g = [j \in 0 .. N |-> IF j = 0 THEN s ELSE NextElement(g[j - 1], r, r.elements[j])]
           I == {m \in Nat : \E g : Follows(g, m)}
<1>1. 0 \in I
  <2>1. Follows([j \in {0} |-> s], 0)
    OBVIOUS
  <2>2. QED
    BY <2>1
<1>2. ASSUME NEW m \in I PROVE m + 1 \in I
  <2>1. PICK g : Follows(g, m)
    OBVIOUS
  <2> DEFINE h == [j \in 0 .. m + 1 |-> IF j = m + 1 THEN NextElement(g[m], r, r.elements[m + 1]) ELSE g[j]]
  <2>2. m \in Nat
    OBVIOUS
  <2>3. h[m + 1] = NextElement(g[m], r, r.elements[m + 1]) /\ \A j \in 0 .. m : h[j] = g[j]
    BY <2>2
  <2> HIDE DEF h
  <2>4. Follows(h, m + 1)
    <3>1. h[0] = s
      BY <2>1, <2>2, <2>3
    <3>2. ASSUME NEW j \in 1 .. m + 1 PROVE h[j] = NextElement(h[j - 1], r, r.elements[j])
      <4>1. CASE j = m + 1
        BY <2>2, <2>3, <4>1
      <4>2. CASE j # m + 1
        <5>1. j \in 1 .. m /\ j \in 0 .. m /\ j - 1 \in 0 .. m
          BY <2>2, <4>2
        <5>2. QED
          BY <2>1, <2>3, <5>1
      <4>3. QED
        BY <4>1, <4>2
    <3>3. QED
      BY <3>1, <3>2
  <2> HIDE DEF Follows
  <2>5. \E f : Follows(f, m + 1)
    BY <2>4
  <2>6. m + 1 \in Nat
    BY <2>2
  <2>7. QED
    BY <2>5, <2>6
<1>3. I = Nat
  <2> HIDE DEF I
  <2>1. QED
    BY <1>1, <1>2, NatClosure DEF I
<1>4. PICK f : Follows(f, N)
  BY <1>3
<1> DEFINE e == [j \in 0 .. N |-> f[j]]
<1>5. Good(e)
  <2>1. ASSUME NEW j \in 0 .. N
        PROVE  e[j] = IF j = 0 THEN s ELSE NextElement(e[j - 1], r, r.elements[j])
    BY <1>4
  <2>2. QED
    BY <2>1
<1> DEFINE after == CHOOSE g : Good(g)
<1>6. Good(after)
  <2> HIDE DEF e, Good
  <2>1. QED
    BY <1>5
<1>7. AfterElements(s, r) = after
  BY DEF AfterElements
<1> HIDE DEF after
<1>8. QED
  BY <1>6, <1>7

LEMMA AfterRulesUnfolds ==
  ASSUME NEW s, NEW rs, Len(rs) \in Nat
  PROVE  /\ AfterRules(s, rs)[0] = s
         /\ \A i \in 1 .. Len(rs) :
              AfterRules(s, rs)[i] = NextRule(AfterRules(s, rs)[i - 1], rs[i], i)
<1> DEFINE N == Len(rs)
           Follows(g, m) == g[0] = s /\ \A i \in 1 .. m : g[i] = NextRule(g[i - 1], rs[i], i)
           Good(g) == g = [i \in 0 .. N |-> IF i = 0 THEN s ELSE NextRule(g[i - 1], rs[i], i)]
           I == {m \in Nat : \E g : Follows(g, m)}
<1>1. 0 \in I
  <2>1. Follows([i \in {0} |-> s], 0)
    OBVIOUS
  <2>2. QED
    BY <2>1
<1>2. ASSUME NEW m \in I PROVE m + 1 \in I
  <2>1. PICK g : Follows(g, m)
    OBVIOUS
  <2> DEFINE h == [i \in 0 .. m + 1 |-> IF i = m + 1 THEN NextRule(g[m], rs[m + 1], m + 1) ELSE g[i]]
  <2>2. m \in Nat
    OBVIOUS
  <2>3. h[m + 1] = NextRule(g[m], rs[m + 1], m + 1) /\ \A i \in 0 .. m : h[i] = g[i]
    BY <2>2
  <2> HIDE DEF h
  <2>4. Follows(h, m + 1)
    <3>1. h[0] = s
      BY <2>1, <2>2, <2>3
    <3>2. ASSUME NEW i \in 1 .. m + 1 PROVE h[i] = NextRule(h[i - 1], rs[i], i)
      <4>1. CASE i = m + 1
        BY <2>2, <2>3, <4>1
      <4>2. CASE i # m + 1
        <5>1. i \in 1 .. m /\ i \in 0 .. m /\ i - 1 \in 0 .. m
          BY <2>2, <4>2
        <5>2. QED
          BY <2>1, <2>3, <5>1
      <4>3. QED
        BY <4>1, <4>2
    <3>3. QED
      BY <3>1, <3>2
  <2> HIDE DEF Follows
  <2>5. \E f : Follows(f, m + 1)
    BY <2>4
  <2>6. m + 1 \in Nat
    BY <2>2
  <2>7. QED
    BY <2>5, <2>6
<1>3. I = Nat
  <2> HIDE DEF I
  <2>1. QED
    BY <1>1, <1>2, NatClosure DEF I
<1>4. PICK f : Follows(f, N)
  BY <1>3
<1> DEFINE e == [i \in 0 .. N |-> f[i]]
<1>5. Good(e)
  <2>1. ASSUME NEW i \in 0 .. N
        PROVE  e[i] = IF i = 0 THEN s ELSE NextRule(e[i - 1], rs[i], i)
    BY <1>4
  <2>2. QED
    BY <2>1
<1> DEFINE after == CHOOSE g : Good(g)
<1>6. Good(after)
  <2> HIDE DEF e, Good
  <2>1. QED
    BY <1>5
<1>7. AfterRules(s, rs) = after
  BY DEF AfterRules
<1> HIDE DEF after
<1>8. QED
  BY <1>6, <1>7

-----------------------------------------------------------------------------
(* Instructions *)

StateParts ==
  {"request", "method", "fields", "keys", "patterns", "slots", "captures", "logs", "verdict"}

LEMMA EvalNothing == ASSUME NEW s PROVE Eval(s, <<>>) = <<>> /\ IsValue(<<>>)
<1>1. [i \in DOMAIN <<>> |-> SegmentText(s, <<>>[i])] = <<>>
  OBVIOUS
<1>2. IsValue(<<>>)
  BY DEF IsValue, ToSet
<1>3. QED
  BY <1>1, <1>2, FlattenEmpty DEF Eval

-----------------------------------------------------------------------------
(* Element rules, one after the other *)

\* Once the packet is rejected the element rules that are left do nothing.
LEMMA RejectedElements ==
  ASSUME NEW s, NEW r, Len(r.elements) \in Nat, s.verdict # Accepted
  PROVE  RunElements(s, r) = s
<1> DEFINE after == AfterElements(s, r)
           I == {j \in Nat : j <= Len(r.elements) => after[j] = s}
<1>1. /\ after[0] = s
      /\ \A j \in 1 .. Len(r.elements) : after[j] = NextElement(after[j - 1], r, r.elements[j])
  BY AfterElementsUnfolds
<1> HIDE DEF after
<1>2. 0 \in I
  BY <1>1
<1>3. ASSUME NEW j \in I PROVE j + 1 \in I
  <2>1. ASSUME j + 1 <= Len(r.elements) PROVE after[j + 1] = s
    <3>1. j + 1 \in 1 .. Len(r.elements) /\ (j + 1) - 1 = j /\ after[j] = s
      BY <2>1
    <3>2. after[j + 1] = NextElement(s, r, r.elements[j + 1])
      BY <1>1, <3>1
    <3>3. QED
      BY <3>2 DEF NextElement
  <2>2. QED
    BY <2>1
<1> HIDE DEF I
<1>4. I = Nat
  BY <1>2, <1>3, NatClosure DEF I
<1>5. after[Len(r.elements)] = s
  BY <1>4 DEF I
<1>6. QED
  BY <1>5 DEF RunElements, after

-----------------------------------------------------------------------------
(* Header rules *)

\* A rule as the assumption on rulesets has it.
IsFullRule(r) ==
  /\ IsRule(r) /\ r.msg \in {"any", "request", "reply"} /\ IsValue(r.new)
  /\ \A e \in ToSet(r.elements) : IsValue(e.new)

-----------------------------------------------------------------------------
(* The tables of a block *)

IsList(t) == t \in Seq(ToSet(t))

LEMMA ListIn ==
  ASSUME NEW t, IsList(t), NEW S, ToSet(t) \subseteq S
  PROVE  t \in Seq(S)
<1>1. t \in [1 .. Len(t) -> ToSet(t)] /\ Len(t) \in Nat
  BY DEF IsList
<1>2. t \in [1 .. Len(t) -> S]
  BY <1>1
<1>3. QED
  BY <1>1, <1>2, FunctionIsSeq

LEMMA SeqIsList ==
  ASSUME NEW S, NEW t \in Seq(S)
  PROVE  IsList(t)
<1>1. t \in [1 .. Len(t) -> ToSet(t)] /\ Len(t) \in Nat
  BY DEF ToSet
<1>2. QED
  BY <1>1, FunctionIsSeq DEF IsList

LEMMA EmptyIsList == IsList(<<>>)
<1>1. <<>> \in Seq({})
  OBVIOUS
<1>2. QED
  BY <1>1, SeqIsList

LEMMA OneIsList == ASSUME NEW x PROVE IsList(<<x>>)
<1>1. <<x>> \in Seq({x})
  OBVIOUS
<1>2. QED
  BY <1>1, SeqIsList

LEMMA SlotKeysAreList == ASSUME NEW v, IsValue(v) PROVE IsList(SlotKeys(v))
<1> DEFINE S == {Key(v[j].path[1], v[j].index) : j \in DOMAIN v}
           w == [j \in DOMAIN v |-> IF v[j].kind = "slot" THEN <<Key(v[j].path[1], v[j].index)>> ELSE <<>>]
<1>1. DOMAIN v = 1 .. Len(v) /\ Len(v) \in Nat
  BY DEF IsValue
<1>2. ASSUME NEW j \in DOMAIN v PROVE w[j] \in Seq(S)
  <2>1. Key(v[j].path[1], v[j].index) \in S
    OBVIOUS
  <2> HIDE DEF S
  <2>2. <<Key(v[j].path[1], v[j].index)>> \in Seq(S) /\ <<>> \in Seq(S)
    BY <2>1
  <2>3. w[j] = <<Key(v[j].path[1], v[j].index)>> \/ w[j] = <<>>
    OBVIOUS
  <2>4. QED
    BY <2>2, <2>3
<1>3. w \in [1 .. Len(v) -> Seq(S)]
  <2>1. DOMAIN w = 1 .. Len(v) /\ w = [j \in DOMAIN w |-> w[j]]
    BY <1>1
  <2> HIDE DEF w, S
  <2>2. QED
    BY <1>1, <1>2, <2>1
<1> HIDE DEF w, S
<1>4. w \in Seq(Seq(S))
  BY <1>1, <1>3, FunctionIsSeq
<1>5. FlattenSeq(w) \in Seq(S)
  BY <1>4, FlattenType
<1>6. QED
  BY <1>5, SeqIsList DEF SlotKeys, w

LEMMA NoSlots == SlotKeys(<<>>) = <<>>
<1> DEFINE w == [j \in DOMAIN <<>> |-> IF <<>>[j].kind = "slot" THEN <<Key(<<>>[j].path[1], <<>>[j].index)>> ELSE <<>>]
<1>1. w = <<>>
  OBVIOUS
<1> HIDE DEF w
<1>2. QED
  BY <1>1, FlattenEmpty DEF SlotKeys, w

LEMMA PatternIsList == ASSUME NEW cmp, NEW m PROVE IsList(Pattern(cmp, m))
<1>1. Pattern(cmp, m) = <<m.text>> \/ Pattern(cmp, m) = <<>>
  BY DEF Pattern
<1>2. QED
  BY <1>1, OneIsList, EmptyIsList

LEMMA ElementKeysAreList ==
  ASSUME NEW r, NEW e, IsValue(e.new)
  PROVE  IsList(ElementKeys(r, e))
<1>1. \/ ElementKeys(r, e) = SlotKeys(e.new) \/ ElementKeys(r, e) = <<Key(ElementName(r, e), 0)>>
      \/ ElementKeys(r, e) = <<>>
  BY DEF ElementKeys
<1>2. QED
  BY <1>1, SlotKeysAreList, OneIsList, EmptyIsList

LEMMA HeaderKeysAreList ==
  ASSUME NEW r, IsFullRule(r), NEW i
  PROVE  IsList(HeaderKeys(r, i))
<1>1. IsValue(r.new) /\ Groups(r.match.text) \in Nat
  BY DEF IsFullRule, IsRule
<1>2. IsList(GroupKeys(r, i))
  <2> DEFINE N == Groups(r.match.text) + 1
             k == GroupKeys(r, i)
             S == {Key(RuleName(r, i), g - 1) : g \in 1 .. N}
  <2>1. k = [g \in 1 .. N |-> Key(RuleName(r, i), g - 1)] /\ N \in Nat
    BY <1>1 DEF GroupKeys
  <2>2. k \in [1 .. N -> S]
    BY <2>1
  <2> HIDE DEF k, S, N
  <2>3. k \in Seq(S)
    BY <2>1, <2>2, FunctionIsSeq
  <2>4. QED
    BY <2>3, SeqIsList DEF k
<1>3. \/ HeaderKeys(r, i) = SlotKeys(r.new) \/ HeaderKeys(r, i) = GroupKeys(r, i)
      \/ HeaderKeys(r, i) = <<Key(RuleName(r, i), 0)>> \/ HeaderKeys(r, i) = <<>>
  BY DEF HeaderKeys
<1>4. QED
  BY <1>1, <1>2, <1>3, SlotKeysAreList, OneIsList, EmptyIsList

LEMMA PartsAreLists ==
  ASSUME NEW r, IsFullRule(r), NEW i
  PROVE  IsList(HeaderKeys(r, i)) /\ \A e \in ToSet(r.elements) : IsList(ElementKeys(r, e))
BY HeaderKeysAreList, ElementKeysAreList DEF IsFullRule

\* What the element rules of a header rule add, and that the scan visits them.
ElementTable(r, table) ==
  [j \in 1 .. Len(r.elements) |->
     LET e == r.elements[j]
     IN  IF ~Supported(e) THEN <<>> ELSE IF table = "keys" THEN ElementKeys(r, e) ELSE Pattern(e.cmp, e.match)]

\* A table over the element rules that the scan visits.
ScannedTable(r, table) ==
  FlattenSeq([j \in DOMAIN ScannedElements(r) |->
    IF table = "keys" THEN ElementKeys(r, ScannedElements(r)[j])
    ELSE Pattern(ScannedElements(r)[j].cmp, ScannedElements(r)[j].match)])

LEMMA ScanVisits ==
  ASSUME NEW r, IsFullRule(r), r.action # "reject", NEW table
  PROVE  ScannedTable(r, table) = FlattenSeq(ElementTable(r, table))
<1> DEFINE E == ToSet(r.elements)
           N == Len(r.elements)
           Of(e) == IF table = "keys" THEN ElementKeys(r, e) ELSE Pattern(e.cmp, e.match)
           f == [e \in E |-> Of(e)]
           T == UNION {ToSet(Of(e)) : e \in E}
           w == [j \in DOMAIN r.elements |-> IF Supported(r.elements[j]) THEN <<r.elements[j]>> ELSE <<>>]
           sc == ScannedElements(r)
<1>1. /\ r.elements \in Seq(E) /\ N \in Nat /\ DOMAIN r.elements = 1 .. N
      /\ \A j \in 1 .. N : r.elements[j] \in E
  BY DEF IsFullRule, IsRule
<1>2. sc = FlattenSeq(w)
  BY DEF ScannedElements
<1>3. w \in Seq(Seq(E)) /\ DOMAIN w = 1 .. N
  <2>1. ASSUME NEW j \in 1 .. N PROVE w[j] \in Seq(E)
    <3>1. r.elements[j] \in E /\ j \in DOMAIN r.elements
      BY <1>1
    <3> HIDE DEF E
    <3>2. <<r.elements[j]>> \in Seq(E) /\ <<>> \in Seq(E)
      BY <3>1
    <3>3. w[j] = <<r.elements[j]>> \/ w[j] = <<>>
      BY <3>1
    <3>4. QED
      BY <3>2, <3>3
  <2>2. w = [j \in 1 .. N |-> w[j]]
    BY <1>1
  <2> HIDE DEF w, E, N
  <2>3. w \in [1 .. N -> Seq(E)]
    BY <2>1, <2>2
  <2>4. QED
    BY <1>1, <2>3, FunctionIsSeq
<1>4. ASSUME NEW e \in E PROVE IsList(Of(e))
  <2>1. IsValue(e.new)
    BY DEF IsFullRule
  <2>2. IsList(ElementKeys(r, e))
    BY <2>1, ElementKeysAreList
  <2>3. IsList(Pattern(e.cmp, e.match))
    BY EmptyIsList, OneIsList DEF Pattern
  <2>4. QED
    BY <2>2, <2>3
<1>5. f \in [E -> Seq(T)]
  <2>1. ASSUME NEW e \in E PROVE Of(e) \in Seq(T)
    <3>1. ToSet(Of(e)) \subseteq T
      OBVIOUS
    <3>2. IsList(Of(e))
      BY <1>4
    <3> HIDE DEF T, Of
    <3>3. QED
      BY <3>1, <3>2, ListIn
  <2> HIDE DEF T, Of
  <2>2. QED
    BY <2>1
<1>6. \A e \in E : f[e] = Of(e)
  OBVIOUS
<1> HIDE DEF f, T, E
<1>7. sc \in Seq(E)
  <2> HIDE DEF w, sc
  <2>1. QED
    BY <1>2, <1>3, FlattenType
<1>8. ScannedTable(r, table) = Through(sc, f)
  <2>1. \A j \in DOMAIN sc : sc[j] \in E
    BY <1>7
  <2>2. [j \in DOMAIN sc |-> Of(sc[j])] = [j \in DOMAIN sc |-> f[sc[j]]]
    BY <1>6, <2>1
  <2>3. QED
    BY <2>2 DEF ScannedTable, Through
<1>9. ASSUME NEW j \in 1 .. N PROVE Through(w[j], f) = ElementTable(r, table)[j]
  <2> DEFINE e == r.elements[j]
  <2>0. e \in E /\ j \in DOMAIN r.elements
    BY <1>1
  <2>1. CASE Supported(e)
    <3>1. w[j] = <<e>> /\ ElementTable(r, table)[j] = Of(e)
      BY <2>0, <2>1 DEF ElementTable
    <3> HIDE DEF w, e, Of
    <3>2. QED
      BY <1>5, <1>6, <2>0, <3>1, ThroughOne
  <2>2. CASE ~Supported(e)
    <3>1. w[j] = <<>> /\ ElementTable(r, table)[j] = <<>>
      BY <2>0, <2>2 DEF ElementTable
    <3> HIDE DEF w
    <3>2. QED
      BY <3>1, ThroughEmpty
  <2>3. QED
    BY <2>1, <2>2
<1> HIDE DEF w, sc, Of
<1>10. Through(FlattenSeq(w), f) = FlattenSeq([j \in DOMAIN w |-> Through(w[j], f)])
  BY <1>3, <1>5, ThroughFlattened
<1>11. [j \in DOMAIN w |-> Through(w[j], f)] = ElementTable(r, table)
  BY <1>3, <1>9 DEF ElementTable, N
<1>12. QED
  BY <1>2, <1>8, <1>10, <1>11

-----------------------------------------------------------------------------
(* The code of a ruleset *)

IsFullRuleset(rs) ==
  rs \in Seq(ToSet(rs)) /\ \A r \in ToSet(rs) : IsFullRule(r)

\* A ruleset of such rules.
LEMMA FullRules ==
  ASSUME NEW rs, IsFullRuleset(rs)
  PROVE  /\ Len(rs) \in Nat /\ DOMAIN rs = 1 .. Len(rs)
         /\ \A i \in 1 .. Len(rs) : rs[i] \in ToSet(rs) /\ IsFullRule(rs[i])
BY DEF IsFullRuleset, ToSet

-----------------------------------------------------------------------------
(* What occurs in a list of lists *)

AreLists(w, n) == n \in Nat /\ w = [i \in 1 .. n |-> w[i]] /\ \A i \in 1 .. n : IsList(w[i])

LEMMA ListElements ==
  ASSUME NEW t, IsList(t)
  PROVE  /\ Len(t) \in Nat /\ DOMAIN t = 1 .. Len(t)
         /\ \A x \in ToSet(t) : \E k \in 1 .. Len(t) : x = t[k]
         /\ \A k \in 1 .. Len(t) : t[k] \in ToSet(t)
BY DEF IsList, ToSet

LEMMA FlattenedIsList ==
  ASSUME NEW w, NEW n, AreLists(w, n)
  PROVE  /\ IsList(FlattenSeq(w))
         /\ \A i \in 1 .. n : ToSet(w[i]) \subseteq ToSet(FlattenSeq(w))
<1> DEFINE S == UNION {ToSet(w[i]) : i \in 1 .. n}
           f == FlattenSeq(w)
<1>1. n \in Nat /\ w = [i \in 1 .. n |-> w[i]] /\ \A i \in 1 .. n : IsList(w[i])
  BY DEF AreLists
<1>2. \A i \in 1 .. n : w[i] \in Seq(S)
  <2> TAKE i \in 1 .. n
  <2>1. ToSet(w[i]) \subseteq S
    OBVIOUS
  <2> HIDE DEF S
  <2>2. QED
    BY <1>1, <2>1, ListIn
<1> HIDE DEF S
<1>3. w \in [1 .. n -> Seq(S)]
  BY <1>1, <1>2
<1>4. w \in Seq(Seq(S)) /\ Len(w) = n
  BY <1>1, <1>3, FunctionIsSeq
<1>5. IsList(f)
  BY <1>4, FlattenType, SeqIsList
<1>6. ASSUME NEW i \in 1 .. n, NEW x \in ToSet(w[i]) PROVE x \in ToSet(f)
  <2>1. PICK k \in 1 .. Len(w[i]) : x = w[i][k]
    BY <1>1, ListElements
  <2>2. /\ PieceStart(w, i) \in Nat /\ Len(w[i]) \in Nat /\ Len(f) \in Nat
        /\ PieceStart(w, i) + Len(w[i]) <= Len(f)
        /\ \A j \in 1 .. Len(w[i]) : f[PieceStart(w, i) + j] = w[i][j]
    BY <1>4, PieceAt
  <2> HIDE DEF f
  <2>3. PieceStart(w, i) + k \in 1 .. Len(f) /\ f[PieceStart(w, i) + k] = x
    BY <2>1, <2>2
  <2>4. QED
    BY <1>5, <2>3, ListElements
<1>7. QED
  BY <1>5, <1>6

LEMMA DistinctHolds ==
  ASSUME NEW t, IsList(t)
  PROVE  IsList(Distinct(t)) /\ ToSet(t) \subseteq ToSet(Distinct(t))
<1> DEFINE w == [i \in DOMAIN t |-> IF \E j \in 1 .. i - 1 : t[j] = t[i] THEN <<>> ELSE <<t[i]>>]
           N == Len(t)
<1>1. N \in Nat /\ DOMAIN t = 1 .. N
  BY ListElements
<1>2. AreLists(w, N)
  <2>1. ASSUME NEW i \in 1 .. N PROVE IsList(w[i])
    <3>1. w[i] = <<>> \/ w[i] = <<t[i]>>
      BY <1>1
    <3>2. QED
      BY <3>1, EmptyIsList, OneIsList
  <2>2. w = [i \in 1 .. N |-> w[i]]
    BY <1>1
  <2> HIDE DEF w, N
  <2>3. QED
    BY <1>1, <2>1, <2>2 DEF AreLists
<1>3. Distinct(t) = FlattenSeq(w)
  BY DEF Distinct
<1>4. ASSUME NEW x \in ToSet(t) PROVE \E i \in 1 .. N : x \in ToSet(w[i])
  <2> DEFINE I == {i \in 1 .. N : t[i] = x}
  <2>1. I # {} /\ I \subseteq Nat
    BY <1>1, ListElements
  <2>2. PICK i \in I : \A j \in I : i <= j
    <3> HIDE DEF I
    <3>1. QED
      BY <2>1, LeastNat
  <2>3. i \in DOMAIN t /\ t[i] = x /\ \A j \in 1 .. i - 1 : t[j] # t[i]
    BY <1>1, <2>2
  <2>4. w[i] = <<x>>
    BY <2>3
  <2>5. x \in ToSet(<<x>>)
    BY DEF ToSet
  <2> HIDE DEF w
  <2>6. QED
    BY <1>1, <2>3, <2>4, <2>5
<1> HIDE DEF w, N
<1>5. QED
  BY <1>2, <1>3, <1>4, FlattenedIsList

LEMMA ReverseHolds ==
  ASSUME NEW t, IsList(t)
  PROVE  IsList(Reverse(t)) /\ ToSet(t) \subseteq ToSet(Reverse(t))
<1> DEFINE N == Len(t)
           u == Reverse(t)
<1>1. /\ N \in Nat /\ DOMAIN t = 1 .. N
      /\ \A x \in ToSet(t) : \E k \in 1 .. N : x = t[k]
      /\ \A k \in 1 .. N : t[k] \in ToSet(t)
  BY ListElements
<1>2. u = [i \in 1 .. N |-> t[N - i + 1]]
  BY DEF Reverse
<1>3. u \in [1 .. N -> ToSet(t)]
  <2> HIDE DEF N, u
  <2>1. \A i \in 1 .. N : N - i + 1 \in 1 .. N
    BY <1>1
  <2>2. QED
    BY <1>1, <1>2, <2>1
<1>4. u \in Seq(ToSet(t)) /\ Len(u) = N
  <2> HIDE DEF u, N
  <2>1. QED
    BY <1>1, <1>3, FunctionIsSeq
<1>5. IsList(u)
  BY <1>4, SeqIsList
<1>6. ASSUME NEW x \in ToSet(t) PROVE x \in ToSet(u)
  <2>1. PICK k \in 1 .. N : x = t[k]
    BY <1>1
  <2>2. N - k + 1 \in 1 .. N /\ N - (N - k + 1) + 1 = k
    BY <1>1
  <2>3. u[N - k + 1] = x
    BY <1>2, <2>1, <2>2
  <2> HIDE DEF u, N
  <2>4. QED
    BY <1>4, <1>5, <2>2, <2>3, ListElements
<1>7. QED
  BY <1>5, <1>6

LEMMA ConcatHolds ==
  ASSUME NEW a, NEW b, IsList(a), IsList(b)
  PROVE  IsList(a \o b) /\ ToSet(a) \subseteq ToSet(a \o b) /\ ToSet(b) \subseteq ToSet(a \o b)
<1> DEFINE S == ToSet(a) \cup ToSet(b)
           c == a \o b
<1>1. a \in Seq(S) /\ b \in Seq(S)
  <2>1. ToSet(a) \subseteq S /\ ToSet(b) \subseteq S
    OBVIOUS
  <2> HIDE DEF S
  <2>2. QED
    BY <2>1, ListIn
<1> HIDE DEF S
<1>2. /\ c \in Seq(S) /\ Len(c) = Len(a) + Len(b) /\ Len(a) \in Nat /\ Len(b) \in Nat
      /\ \A k \in 1 .. Len(a) : c[k] = a[k]
      /\ \A k \in Len(a) + 1 .. Len(a) + Len(b) : c[k] = b[k - Len(a)]
  BY <1>1, ConcatElements
<1> HIDE DEF c
<1>3. IsList(c)
  BY <1>2, SeqIsList
<1>4. ASSUME NEW x \in ToSet(a) PROVE x \in ToSet(c)
  <2>1. PICK k \in 1 .. Len(a) : x = a[k]
    BY ListElements
  <2>2. k \in 1 .. Len(c) /\ c[k] = x
    BY <1>2, <2>1
  <2>3. QED
    BY <1>3, <2>2, ListElements
<1>5. ASSUME NEW x \in ToSet(b) PROVE x \in ToSet(c)
  <2>1. PICK k \in 1 .. Len(b) : x = b[k]
    BY ListElements
  <2>2. Len(a) + k \in 1 .. Len(c) /\ Len(a) + k \in Len(a) + 1 .. Len(a) + Len(b)
        /\ Len(a) + k - Len(a) = k
    BY <1>2, <2>1
  <2>3. c[Len(a) + k] = x
    BY <1>2, <2>1, <2>2
  <2>4. QED
    BY <1>3, <2>2, <2>3, ListElements
<1>6. QED
  BY <1>3, <1>4, <1>5 DEF c

\* A registered entry is found under its number.
LEMMA NumberFinds ==
  ASSUME NEW t, IsList(t), NEW k \in ToSet(t)
  PROVE  Number(t, k) \in DOMAIN t /\ t[Number(t, k)] = k /\ t # <<>>
<1> DEFINE I == {i \in 1 .. Len(t) : t[i] = k}
<1>1. Len(t) \in Nat /\ DOMAIN t = 1 .. Len(t) /\ \E i \in 1 .. Len(t) : k = t[i]
  BY ListElements
<1>2. I \subseteq Nat /\ I # {}
  BY <1>1
<1>3. Number(t, k) = Min(I)
  BY <1>1, <1>2 DEF Number, Contains, SelectInSeq
<1>4. Min(I) \in I
  <2> HIDE DEF I
  <2>1. QED
    BY <1>2, MinOfNats
<1>5. t # <<>>
  BY <1>1
<1>6. QED
  BY <1>1, <1>3, <1>4, <1>5

-----------------------------------------------------------------------------
(* Two states that rules cannot tell apart *)

\* The tables of s number the keys A apart, each with a slot, and find the patterns P.
Serves(s, A, P) ==
  /\ StateParts \subseteq DOMAIN s
  /\ \A k \in A : Number(s.keys, k) \in DOMAIN s.slots
  /\ \A k \in A, l \in A : Number(s.keys, k) = Number(s.keys, l) => k = l
  /\ \A p \in P : s.patterns # <<>> /\ s.patterns[Number(s.patterns, p)] = p

\* The same message, captures, logs and verdict.
LooksLike(s, t) ==
  /\ s.request = t.request /\ s.method = t.method /\ s.fields = t.fields
  /\ s.captures = t.captures /\ s.logs = t.logs /\ s.verdict = t.verdict

\* And the same in the slots of the keys K.
Alike(s, t, A, P, K) ==
  /\ Serves(s, A, P) /\ Serves(t, A, P) /\ K \subseteq A
  /\ LooksLike(s, t) /\ \A k \in K : s.slots[Number(s.keys, k)] = t.slots[Number(t.keys, k)]

LEMMA LoadsAlike ==
  ASSUME NEW s, NEW t, NEW A, NEW P, NEW K, Alike(s, t, A, P, K), NEW k \in K
  PROVE  LoadSlot(s, k) = LoadSlot(t, k)
<1>1. Number(s.keys, k) \in DOMAIN s.slots /\ Number(t.keys, k) \in DOMAIN t.slots
  BY DEF Alike, Serves
<1>2. s.slots # <<>> /\ t.slots # <<>>
  BY <1>1
<1>3. QED
  BY <1>2 DEF Alike, LoadSlot

LEMMA AlikeInFewer ==
  ASSUME NEW s, NEW t, NEW A, NEW P, NEW K, Alike(s, t, A, P, K), NEW L, L \subseteq K
  PROVE  Alike(s, t, A, P, L)
BY DEF Alike

\* A store of a key that the tables number, of one of the texts.
LEMMA ServesAfterStore ==
  ASSUME NEW s, NEW A, NEW P, Serves(s, A, P), NEW k \in A, NEW x
  PROVE  /\ Serves(StoreSlot(s, k, x), A, P)
         /\ StoreSlot(s, k, x).slots[Number(s.keys, k)] = x
         /\ \A l \in A : l # k => StoreSlot(s, k, x).slots[Number(s.keys, l)] = s.slots[Number(s.keys, l)]
         /\ StoreSlot(s, k, x).keys = s.keys /\ LooksLike(StoreSlot(s, k, x), s)
<1> DEFINE n == Number(s.keys, k)
           f == [s.slots EXCEPT ![n] = x]
           u == [s EXCEPT !.slots = f]
<1>1. n \in DOMAIN s.slots /\ StateParts \subseteq DOMAIN s
  BY DEF Serves
<1>2. StoreSlot(s, k, x) = u
  <2>1. s.slots # <<>>
    BY <1>1
  <2>2. QED
    BY <2>1 DEF StoreSlot
<1>3. DOMAIN f = DOMAIN s.slots /\ f[n] = x /\ \A m \in DOMAIN s.slots : m # n => f[m] = s.slots[m]
  BY <1>1
<1> HIDE DEF f
<1>4. /\ u.slots = f /\ u.keys = s.keys /\ u.patterns = s.patterns /\ DOMAIN u = DOMAIN s
      /\ LooksLike(u, s)
  BY <1>1 DEF StateParts, LooksLike
<1> HIDE DEF u
<1>5. ASSUME NEW l \in A, l # k PROVE u.slots[Number(s.keys, l)] = s.slots[Number(s.keys, l)]
  <2>1. Number(s.keys, l) \in DOMAIN s.slots /\ Number(s.keys, l) # n
    BY <1>5 DEF Serves
  <2>2. QED
    BY <1>3, <1>4, <2>1
<1>6. Serves(u, A, P)
  BY <1>3, <1>4 DEF Serves
<1>7. QED
  BY <1>2, <1>3, <1>4, <1>5, <1>6

LEMMA StoresAlike ==
  ASSUME NEW s, NEW t, NEW A, NEW P, NEW K, Alike(s, t, A, P, K), NEW k \in A, NEW x
  PROVE  Alike(StoreSlot(s, k, x), StoreSlot(t, k, x), A, P, K \cup {k})
<1> DEFINE u == StoreSlot(s, k, x)
           v == StoreSlot(t, k, x)
<1>1. Serves(s, A, P) /\ Serves(t, A, P) /\ K \subseteq A /\ LooksLike(s, t)
  BY DEF Alike
<1>2. /\ Serves(u, A, P) /\ u.slots[Number(s.keys, k)] = x /\ u.keys = s.keys /\ LooksLike(u, s)
      /\ \A l \in A : l # k => u.slots[Number(s.keys, l)] = s.slots[Number(s.keys, l)]
  BY <1>1, ServesAfterStore
<1>3. /\ Serves(v, A, P) /\ v.slots[Number(t.keys, k)] = x /\ v.keys = t.keys /\ LooksLike(v, t)
      /\ \A l \in A : l # k => v.slots[Number(t.keys, l)] = t.slots[Number(t.keys, l)]
  BY <1>1, ServesAfterStore
<1> HIDE DEF u, v
<1>4. LooksLike(u, v)
  BY <1>1, <1>2, <1>3 DEF LooksLike
<1>5. ASSUME NEW l \in K \cup {k} PROVE u.slots[Number(u.keys, l)] = v.slots[Number(v.keys, l)]
  <2>1. CASE l = k
    BY <1>2, <1>3, <2>1
  <2>2. CASE l # k
    <3>1. l \in K /\ l \in A
      BY <1>1, <2>2
    <3>2. s.slots[Number(s.keys, l)] = t.slots[Number(t.keys, l)]
      BY <3>1 DEF Alike
    <3>3. QED
      BY <1>2, <1>3, <2>2, <3>1, <3>2
  <2>3. QED
    BY <2>1, <2>2
<1>6. QED
  BY <1>1, <1>2, <1>3, <1>4, <1>5 DEF Alike, u, v

\* What a rule does besides stores.
LEMMA EditsAlike ==
  ASSUME NEW s, NEW t, NEW A, NEW P, NEW K, Alike(s, t, A, P, K), NEW x
  PROVE  /\ Alike([s EXCEPT !.fields = x], [t EXCEPT !.fields = x], A, P, K)
         /\ Alike([s EXCEPT !.captures = x], [t EXCEPT !.captures = x], A, P, K)
         /\ Alike([s EXCEPT !.logs = x], [t EXCEPT !.logs = x], A, P, K)
         /\ Alike([s EXCEPT !.verdict = x], [t EXCEPT !.verdict = x], A, P, K)
<1>1. StateParts \subseteq DOMAIN s /\ StateParts \subseteq DOMAIN t
  BY DEF Alike, Serves
<1>2. ASSUME NEW u, NEW v, DOMAIN u = DOMAIN s, DOMAIN v = DOMAIN t, LooksLike(u, v),
             u.keys = s.keys, v.keys = t.keys, u.slots = s.slots, v.slots = t.slots,
             u.patterns = s.patterns, v.patterns = t.patterns
      PROVE  Alike(u, v, A, P, K)
  BY <1>2 DEF Alike, Serves
<1>3. Alike([s EXCEPT !.fields = x], [t EXCEPT !.fields = x], A, P, K)
  <2> DEFINE u == [s EXCEPT !.fields = x]
             v == [t EXCEPT !.fields = x]
  <2>1. /\ DOMAIN u = DOMAIN s /\ DOMAIN v = DOMAIN t /\ LooksLike(u, v)
        /\ u.keys = s.keys /\ v.keys = t.keys /\ u.slots = s.slots /\ v.slots = t.slots
        /\ u.patterns = s.patterns /\ v.patterns = t.patterns
    BY <1>1 DEF Alike, LooksLike, StateParts
  <2> HIDE DEF u, v
  <2>2. Alike(u, v, A, P, K)
    BY <1>2, <2>1
  <2>3. QED
    BY <2>2 DEF u, v
<1>4. Alike([s EXCEPT !.captures = x], [t EXCEPT !.captures = x], A, P, K)
  <2> DEFINE u == [s EXCEPT !.captures = x]
             v == [t EXCEPT !.captures = x]
  <2>1. /\ DOMAIN u = DOMAIN s /\ DOMAIN v = DOMAIN t /\ LooksLike(u, v)
        /\ u.keys = s.keys /\ v.keys = t.keys /\ u.slots = s.slots /\ v.slots = t.slots
        /\ u.patterns = s.patterns /\ v.patterns = t.patterns
    BY <1>1 DEF Alike, LooksLike, StateParts
  <2> HIDE DEF u, v
  <2>2. Alike(u, v, A, P, K)
    BY <1>2, <2>1
  <2>3. QED
    BY <2>2 DEF u, v
<1>5. Alike([s EXCEPT !.logs = x], [t EXCEPT !.logs = x], A, P, K)
  <2> DEFINE u == [s EXCEPT !.logs = x]
             v == [t EXCEPT !.logs = x]
  <2>1. /\ DOMAIN u = DOMAIN s /\ DOMAIN v = DOMAIN t /\ LooksLike(u, v)
        /\ u.keys = s.keys /\ v.keys = t.keys /\ u.slots = s.slots /\ v.slots = t.slots
        /\ u.patterns = s.patterns /\ v.patterns = t.patterns
    BY <1>1 DEF Alike, LooksLike, StateParts
  <2> HIDE DEF u, v
  <2>2. Alike(u, v, A, P, K)
    BY <1>2, <2>1
  <2>3. QED
    BY <2>2 DEF u, v
<1>6. Alike([s EXCEPT !.verdict = x], [t EXCEPT !.verdict = x], A, P, K)
  <2> DEFINE u == [s EXCEPT !.verdict = x]
             v == [t EXCEPT !.verdict = x]
  <2>1. /\ DOMAIN u = DOMAIN s /\ DOMAIN v = DOMAIN t /\ LooksLike(u, v)
        /\ u.keys = s.keys /\ v.keys = t.keys /\ u.slots = s.slots /\ v.slots = t.slots
        /\ u.patterns = s.patterns /\ v.patterns = t.patterns
    BY <1>1 DEF Alike, LooksLike, StateParts
  <2> HIDE DEF u, v
  <2>2. Alike(u, v, A, P, K)
    BY <1>2, <2>1
  <2>3. QED
    BY <2>2 DEF u, v
<1>7. QED
  BY <1>3, <1>4, <1>5, <1>6

-----------------------------------------------------------------------------
(* Values and guards in two such states *)

\* The slot of every reference is among the keys of the value.
LEMMA SlotKeyOf ==
  ASSUME NEW v, IsValue(v), NEW i \in DOMAIN v, v[i].kind = "slot"
  PROVE  Key(v[i].path[1], v[i].index) \in ToSet(SlotKeys(v))
<1> DEFINE w == [j \in DOMAIN v |-> IF v[j].kind = "slot" THEN <<Key(v[j].path[1], v[j].index)>> ELSE <<>>]
           n == Len(v)
<1>1. n \in Nat /\ DOMAIN v = 1 .. n
  BY DEF IsValue
<1>2. AreLists(w, n)
  <2>1. ASSUME NEW j \in 1 .. n PROVE IsList(w[j])
    <3>1. w[j] = <<>> \/ w[j] = <<Key(v[j].path[1], v[j].index)>>
      BY <1>1
    <3>2. QED
      BY <3>1, EmptyIsList, OneIsList
  <2>2. w = [j \in 1 .. n |-> w[j]]
    BY <1>1
  <2> HIDE DEF w, n
  <2>3. QED
    BY <1>1, <2>1, <2>2 DEF AreLists
<1>3. w[i] = <<Key(v[i].path[1], v[i].index)>>
  OBVIOUS
<1>4. Key(v[i].path[1], v[i].index) \in ToSet(w[i])
  <2> DEFINE k == Key(v[i].path[1], v[i].index)
  <2>1. w[i] = <<k>>
    BY <1>3
  <2> HIDE DEF w, k
  <2>2. k \in ToSet(w[i])
    BY <2>1 DEF ToSet
  <2>3. QED
    BY <2>2 DEF k
<1>5. SlotKeys(v) = FlattenSeq(w)
  BY DEF SlotKeys
<1> HIDE DEF w, n
<1>6. QED
  BY <1>1, <1>2, <1>4, <1>5, FlattenedIsList

LEMMA ValuesAlike ==
  ASSUME NEW s, NEW t, NEW A, NEW P, NEW K, Alike(s, t, A, P, K),
         NEW v, IsValue(v), ToSet(SlotKeys(v)) \subseteq K
  PROVE  Eval(s, v) = Eval(t, v)
<1>1. ASSUME NEW i \in DOMAIN v PROVE SegmentText(s, v[i]) = SegmentText(t, v[i])
  <2>1. v[i].kind \in {"text", "variable", "capture", "slot"}
    BY DEF IsValue, ToSet
  <2>2. CASE v[i].kind = "slot"
    <3>1. Key(v[i].path[1], v[i].index) \in K
      BY <2>2, SlotKeyOf
    <3>2. LoadSlot(s, Key(v[i].path[1], v[i].index)) = LoadSlot(t, Key(v[i].path[1], v[i].index))
      BY <3>1, LoadsAlike
    <3>3. QED
      BY <2>2, <3>2 DEF SegmentText
  <2>3. CASE v[i].kind = "capture"
    <3>1. Capture(s, v[i].index) = Capture(t, v[i].index)
      BY DEF Capture, Alike, LooksLike
    <3>2. QED
      BY <2>3, <3>1 DEF SegmentText
  <2>4. CASE v[i].kind \in {"text", "variable"}
    BY <2>4 DEF SegmentText
  <2>5. QED
    BY <2>1, <2>2, <2>3, <2>4
<1>2. [i \in DOMAIN v |-> SegmentText(s, v[i])] = [i \in DOMAIN v |-> SegmentText(t, v[i])]
  BY <1>1
<1>3. QED
  BY <1>2 DEF Eval

LEMMA ReasonsAlike ==
  ASSUME NEW s, NEW t, NEW A, NEW P, NEW K, Alike(s, t, A, P, K),
         NEW r, IsValue(r.new), ToSet(SlotKeys(r.new)) \subseteq K
  PROVE  Reason(s, r) = Reason(t, r)
<1>1. Eval(s, r.new) = Eval(t, r.new)
  BY ValuesAlike
<1>2. QED
  BY <1>1 DEF Reason

LEMMA GuardsAlike ==
  ASSUME NEW s, NEW t, NEW A, NEW P, NEW K, Alike(s, t, A, P, K), NEW cmp, NEW kind, NEW m, NEW x,
         cmp = "pattern" /\ ~Unconditional(m) => m.text \in P
  PROVE  /\ Passes(s, cmp, kind, m, x) <=> Passes(t, cmp, kind, m, x)
         /\ Alike(AfterGuard(s, cmp, m, x), AfterGuard(t, cmp, m, x), A, P, K)
         /\ AfterGuard(s, cmp, m, x).fields = s.fields /\ AfterGuard(s, cmp, m, x).verdict = s.verdict
<1>1. CASE Unconditional(m)
  BY <1>1 DEF Passes, AfterGuard
<1>2. CASE ~Unconditional(m) /\ cmp # "pattern"
  <2>1. Matched(s, cmp, kind, m, x) = Matched(t, cmp, kind, m, x)
    <3>1. CASE kind # "any"
      BY <1>2, <3>1 DEF Matched
    <3>2. CASE kind = "any" /\ cmp = "insensitive"
      BY <1>2, <3>2 DEF Matched
    <3>3. CASE kind = "any" /\ cmp = "sensitive"
      BY <1>2, <3>3 DEF Matched
    <3>4. CASE kind = "any" /\ cmp \notin {"sensitive", "insensitive"}
      BY <1>2, <3>4 DEF Matched
    <3>5. QED
      BY <3>1, <3>2, <3>3, <3>4
  <2>2. QED
    BY <1>2, <2>1 DEF Passes, AfterGuard
<1>3. CASE ~Unconditional(m) /\ cmp = "pattern"
  <2>1. Searched(s, m, x) = Searched(t, m, x)
    <3>1. /\ s.patterns # <<>> /\ s.patterns[Number(s.patterns, m.text)] = m.text
          /\ t.patterns # <<>> /\ t.patterns[Number(t.patterns, m.text)] = m.text
      BY <1>3 DEF Alike, Serves
    <3>2. QED
      BY <3>1 DEF Searched
  <2>2. Matched(s, cmp, kind, m, x) = Matched(t, cmp, kind, m, x)
    BY <1>3, <2>1 DEF Matched
  <2>3. Passes(s, cmp, kind, m, x) <=> Passes(t, cmp, kind, m, x)
    BY <2>2 DEF Passes
  <2> DEFINE f == Searched(s, m, x)
  <2>4. AfterGuard(s, cmp, m, x) = [s EXCEPT !.captures = f] /\ AfterGuard(t, cmp, m, x) = [t EXCEPT !.captures = f]
    BY <1>3, <2>1 DEF AfterGuard
  <2> HIDE DEF f
  <2>5. Alike([s EXCEPT !.captures = f], [t EXCEPT !.captures = f], A, P, K)
    BY EditsAlike
  <2>6. QED
    BY <2>3, <2>4, <2>5
<1>4. QED
  BY <1>1, <1>2, <1>3

-----------------------------------------------------------------------------
(* Rules in two such states *)

\* The keys that a rule stores.
Filled(action, keys) == IF action = "store" THEN ToSet(keys) ELSE {}

\* A rule finds its keys numbered, those it loads the same, and its pattern.
Finds(keys, action, cmp, m, A, P, K) ==
  /\ ToSet(keys) \subseteq A /\ ToSet(Pattern(cmp, m)) \subseteq P
  /\ action # "store" => ToSet(keys) \subseteq K

LEMMA PatternFound ==
  ASSUME NEW cmp, NEW m, NEW P, ToSet(Pattern(cmp, m)) \subseteq P
  PROVE  cmp = "pattern" /\ ~Unconditional(m) => m.text \in P
<1> SUFFICES ASSUME cmp = "pattern" /\ ~Unconditional(m) PROVE m.text \in P
  OBVIOUS
<1>1. Pattern(cmp, m) = <<m.text>>
  BY DEF Pattern
<1>2. m.text \in ToSet(<<m.text>>)
  BY DEF ToSet
<1>3. QED
  BY <1>1, <1>2

LEMMA GroupKeysAre ==
  ASSUME NEW r, NEW i, Groups(r.match.text) \in Nat
  PROVE  ToSet(GroupKeys(r, i)) = {Key(RuleName(r, i), g) : g \in 0 .. Groups(r.match.text)}
<1> DEFINE N == Groups(r.match.text)
           k == GroupKeys(r, i)
<1>1. k = [g \in 1 .. N + 1 |-> Key(RuleName(r, i), g - 1)]
  BY DEF GroupKeys
<1>2. ToSet(k) = {k[g] : g \in 1 .. N + 1}
  BY <1>1 DEF ToSet
<1>3. ASSUME NEW g \in 1 .. N + 1 PROVE g - 1 \in 0 .. N /\ k[g] = Key(RuleName(r, i), g - 1)
  BY <1>1
<1>4. ASSUME NEW g \in 0 .. N PROVE g + 1 \in 1 .. N + 1 /\ k[g + 1] = Key(RuleName(r, i), g)
  <2>1. g + 1 \in 1 .. N + 1 /\ (g + 1) - 1 = g
    OBVIOUS
  <2>2. QED
    BY <1>1, <2>1
<1> HIDE DEF k, N
<1>5. QED
  BY <1>2, <1>3, <1>4 DEF k, N

\* The captures go to the same slots, one group after the other.
LEMMA GroupsAlike ==
  ASSUME NEW s, NEW t, NEW A, NEW P, NEW K, Alike(s, t, A, P, K),
         NEW r, NEW i, Groups(r.match.text) \in Nat, ToSet(GroupKeys(r, i)) \subseteq A
  PROVE  Alike(StoreGroups(s, r, i), StoreGroups(t, r, i), A, P, K \cup ToSet(GroupKeys(r, i)))
<1> DEFINE N == Groups(r.match.text) + 1
           Of(g) == Key(RuleName(r, i), g)
           L(n) == K \cup {Of(g) : g \in 0 .. n - 1}
           u == AfterGroups(s, r, i)
           v == AfterGroups(t, r, i)
           I == {n \in Nat : n <= N => Alike(u[n], v[n], A, P, L(n))}
<1>1. /\ u[0] = s /\ v[0] = t /\ N \in Nat
      /\ \A n \in 1 .. N : u[n] = StoreGroup(u[n - 1], r, i, n - 1) /\ v[n] = StoreGroup(v[n - 1], r, i, n - 1)
  BY AfterGroupsUnfolds
<1>2. ToSet(GroupKeys(r, i)) = {Of(g) : g \in 0 .. N - 1}
  <2>1. Groups(r.match.text) = N - 1
    OBVIOUS
  <2>2. QED
    BY <2>1, GroupKeysAre
<1> HIDE DEF u, v, N
<1>3. 0 \in I
  <2>1. L(0) = K
    OBVIOUS
  <2>2. QED
    BY <1>1, <2>1
<1>4. ASSUME NEW n \in I PROVE n + 1 \in I
  <2>1. ASSUME n + 1 <= N PROVE Alike(u[n + 1], v[n + 1], A, P, L(n + 1))
    <3>1. n + 1 \in 1 .. N /\ (n + 1) - 1 = n /\ n <= N /\ n \in 0 .. N - 1 /\ n \in Nat
      BY <1>1, <2>1
    <3>2. Alike(u[n], v[n], A, P, L(n))
      BY <3>1
    <3>3. /\ u[n + 1] = StoreSlot(u[n], Of(n), Capture(u[n], n))
          /\ v[n + 1] = StoreSlot(v[n], Of(n), Capture(v[n], n))
      BY <1>1, <3>1 DEF StoreGroup
    <3>4. Capture(u[n], n) = Capture(v[n], n)
      BY <3>2 DEF Alike, LooksLike, Capture
    <3>5. Of(n) \in A
      BY <1>2, <3>1
    <3>6. L(n) \cup {Of(n)} = L(n + 1)
      <4>1. 0 .. (n + 1) - 1 = 0 .. n - 1 \cup {n}
        BY <3>1
      <4> HIDE DEF Of
      <4>2. QED
        BY <4>1
    <3> HIDE DEF L, Of
    <3>7. Alike(u[n + 1], v[n + 1], A, P, L(n) \cup {Of(n)})
      BY <3>2, <3>3, <3>4, <3>5, StoresAlike
    <3>8. QED
      BY <3>6, <3>7
  <2>2. QED
    BY <2>1
<1> HIDE DEF I
<1>5. I = Nat
  BY <1>3, <1>4, NatClosure DEF I
<1>6. Alike(u[N], v[N], A, P, L(N))
  <2>1. N \in I /\ N <= N
    BY <1>1, <1>5
  <2> HIDE DEF L
  <2>2. QED
    BY <2>1 DEF I
<1>7. StoreGroups(s, r, i) = u[N] /\ StoreGroups(t, r, i) = v[N]
  BY DEF StoreGroups, u, v, N
<1>8. QED
  BY <1>2, <1>6, <1>7

LEMMA HeaderKeysOfOthers ==
  ASSUME NEW r, NEW i, r.action \in {"add", "log", "reject"} \/ SetsHeader(r)
  PROVE  HeaderKeys(r, i) = SlotKeys(r.new) /\ r.action # "store"
BY DEF HeaderKeys, SetsHeader

LEMMA HeaderActAlike ==
  ASSUME NEW s, NEW t, NEW A, NEW P, NEW K, Alike(s, t, A, P, K),
         NEW r, NEW i, IsFullRule(r),
         Finds(HeaderKeys(r, i), r.action, r.cmp, r.match, A, P, K)
  PROVE  Alike(HeaderAct(s, r, i), HeaderAct(t, r, i), A, P, K \cup Filled(r.action, HeaderKeys(r, i)))
<1>1. IsValue(r.new) /\ Groups(r.match.text) \in Nat /\ ToSet(HeaderKeys(r, i)) \subseteq A
  BY DEF IsFullRule, IsRule, Finds
<1>2. s.fields = t.fields /\ s.logs = t.logs
  BY DEF Alike, LooksLike
<1>3. ASSUME r.action \in {"add", "log", "reject"} \/ SetsHeader(r)
      PROVE  Eval(s, r.new) = Eval(t, r.new) /\ Reason(s, r) = Reason(t, r)
  <2>1. ToSet(SlotKeys(r.new)) \subseteq K
    BY <1>3, HeaderKeysOfOthers DEF Finds
  <2>2. QED
    BY <1>1, <2>1, ValuesAlike, ReasonsAlike
<1>4. ASSUME r.action # "store" PROVE K \cup Filled(r.action, HeaderKeys(r, i)) = K
  BY <1>4 DEF Filled
<1>5. CASE r.action = "add"
  <2> DEFINE f == Added(s.fields, r.header, Eval(s, r.new))
  <2>1. HeaderAct(s, r, i) = [s EXCEPT !.fields = f] /\ HeaderAct(t, r, i) = [t EXCEPT !.fields = f]
    <3>1. /\ HeaderAct(s, r, i) = [s EXCEPT !.fields = Added(s.fields, r.header, Eval(s, r.new))]
          /\ HeaderAct(t, r, i) = [t EXCEPT !.fields = Added(t.fields, r.header, Eval(t, r.new))]
      BY <1>5 DEF HeaderAct, SetsHeader
    <3>2. Eval(s, r.new) = Eval(t, r.new)
      BY <1>3, <1>5
    <3>3. QED
      BY <1>2, <3>1, <3>2
  <2> HIDE DEF f
  <2>2. Alike([s EXCEPT !.fields = f], [t EXCEPT !.fields = f], A, P, K)
    BY EditsAlike
  <2>3. K \cup Filled(r.action, HeaderKeys(r, i)) = K
    BY <1>4, <1>5
  <2>4. QED
    BY <2>1, <2>2, <2>3
<1>6. CASE SetsHeader(r)
  <2> DEFINE f == Put(s.fields, r.header, Eval(s, r.new))
  <2>0. r.action # "add" /\ r.action # "store"
    BY <1>6 DEF SetsHeader
  <2>1. HeaderAct(s, r, i) = [s EXCEPT !.fields = f] /\ HeaderAct(t, r, i) = [t EXCEPT !.fields = f]
    <3>1. /\ HeaderAct(s, r, i) = [s EXCEPT !.fields = Put(s.fields, r.header, Eval(s, r.new))]
          /\ HeaderAct(t, r, i) = [t EXCEPT !.fields = Put(t.fields, r.header, Eval(t, r.new))]
      BY <1>6, <2>0 DEF HeaderAct, SetsHeader
    <3>2. Eval(s, r.new) = Eval(t, r.new)
      BY <1>3, <1>6
    <3>3. QED
      BY <1>2, <3>1, <3>2
  <2> HIDE DEF f
  <2>2. Alike([s EXCEPT !.fields = f], [t EXCEPT !.fields = f], A, P, K)
    BY EditsAlike
  <2>3. K \cup Filled(r.action, HeaderKeys(r, i)) = K
    BY <1>4, <2>0
  <2>4. QED
    BY <2>1, <2>2, <2>3
<1>7. CASE r.action = "delete"
  <2> DEFINE f == Without(s.fields, r.header)
  <2>1. HeaderAct(s, r, i) = [s EXCEPT !.fields = f] /\ HeaderAct(t, r, i) = [t EXCEPT !.fields = f]
    BY <1>2, <1>7 DEF HeaderAct, SetsHeader
  <2> HIDE DEF f
  <2>2. Alike([s EXCEPT !.fields = f], [t EXCEPT !.fields = f], A, P, K)
    BY EditsAlike
  <2>3. K \cup Filled(r.action, HeaderKeys(r, i)) = K
    BY <1>4, <1>7
  <2>4. QED
    BY <2>1, <2>2, <2>3
<1>8. CASE r.action = "store" /\ r.cmp = "pattern"
  <2>1. HeaderAct(s, r, i) = StoreGroups(s, r, i) /\ HeaderAct(t, r, i) = StoreGroups(t, r, i)
    BY <1>8 DEF HeaderAct, SetsHeader
  <2>2. HeaderKeys(r, i) = GroupKeys(r, i)
    BY <1>8 DEF HeaderKeys, SetsHeader
  <2>3. Filled(r.action, HeaderKeys(r, i)) = ToSet(GroupKeys(r, i))
    BY <1>8, <2>2 DEF Filled
  <2>4. QED
    BY <1>1, <2>1, <2>2, <2>3, GroupsAlike
<1>9. CASE r.action = "store" /\ r.cmp # "pattern"
  <2> DEFINE k == Key(RuleName(r, i), 0)
             x == Value(s.fields, r.header)
  <2>1. HeaderAct(s, r, i) = StoreSlot(s, k, x) /\ HeaderAct(t, r, i) = StoreSlot(t, k, x)
    BY <1>2, <1>9 DEF HeaderAct, SetsHeader
  <2>2. HeaderKeys(r, i) = <<k>>
    BY <1>9 DEF HeaderKeys, SetsHeader
  <2> HIDE DEF k, x
  <2>3. ToSet(<<k>>) = {k}
    BY DEF ToSet
  <2>4. Filled(r.action, HeaderKeys(r, i)) = {k} /\ k \in A
    BY <1>1, <1>9, <2>2, <2>3 DEF Filled
  <2>5. QED
    BY <2>1, <2>4, StoresAlike
<1>10. CASE r.action = "log"
  <2> DEFINE f == Append(s.logs, Reason(s, r))
  <2>1. HeaderAct(s, r, i) = [s EXCEPT !.logs = f] /\ HeaderAct(t, r, i) = [t EXCEPT !.logs = f]
    BY <1>2, <1>3, <1>10 DEF HeaderAct, SetsHeader
  <2> HIDE DEF f
  <2>2. Alike([s EXCEPT !.logs = f], [t EXCEPT !.logs = f], A, P, K)
    BY EditsAlike
  <2>3. K \cup Filled(r.action, HeaderKeys(r, i)) = K
    BY <1>4, <1>10
  <2>4. QED
    BY <2>1, <2>2, <2>3
<1>11. CASE r.action = "reject"
  <2> DEFINE f == <<Reason(s, r)>>
  <2>1. HeaderAct(s, r, i) = [s EXCEPT !.verdict = f] /\ HeaderAct(t, r, i) = [t EXCEPT !.verdict = f]
    BY <1>3, <1>11 DEF HeaderAct, SetsHeader
  <2> HIDE DEF f
  <2>2. Alike([s EXCEPT !.verdict = f], [t EXCEPT !.verdict = f], A, P, K)
    BY EditsAlike
  <2>3. K \cup Filled(r.action, HeaderKeys(r, i)) = K
    BY <1>4, <1>11
  <2>4. QED
    BY <2>1, <2>2, <2>3
<1>12. CASE r.action \notin {"add", "delete", "store", "log", "reject"} /\ ~SetsHeader(r)
  <2>1. HeaderAct(s, r, i) = s /\ HeaderAct(t, r, i) = t
    BY <1>12 DEF HeaderAct
  <2>2. QED
    BY <1>4, <1>12, <2>1
<1>13. QED
  BY <1>5, <1>6, <1>7, <1>8, <1>9, <1>10, <1>11, <1>12

-----------------------------------------------------------------------------

LEMMA ElementActAlike ==
  ASSUME NEW s, NEW t, NEW A, NEW P, NEW K, Alike(s, t, A, P, K), NEW r, NEW e, IsValue(e.new),
         Finds(ElementKeys(r, e), e.action, e.cmp, e.match, A, P, K)
  PROVE  Alike(ElementAct(s, r, e), ElementAct(t, r, e), A, P, K)
<1>1. s.fields = t.fields
  BY DEF Alike, LooksLike
<1>2. ASSUME e.action \in {"replace", "reject"}
      PROVE  Eval(s, e.new) = Eval(t, e.new) /\ Reason(s, e) = Reason(t, e)
  <2>1. ElementKeys(r, e) = SlotKeys(e.new) /\ e.action # "store"
    BY <1>2 DEF ElementKeys
  <2>2. ToSet(SlotKeys(e.new)) \subseteq K
    BY <2>1 DEF Finds
  <2>3. QED
    BY <2>2, ValuesAlike, ReasonsAlike
<1>3. ASSUME NEW x
      PROVE  Alike(Rewrite(s, r, e, x), Rewrite(t, r, e, x), A, P, K)
  <2> DEFINE f == Put(s.fields, r.header, RebuildUri(Value(s.fields, r.header), e.type, x))
  <2>1. Rewrite(s, r, e, x) = [s EXCEPT !.fields = f] /\ Rewrite(t, r, e, x) = [t EXCEPT !.fields = f]
    BY <1>1 DEF Rewrite
  <2> HIDE DEF f
  <2>2. Alike([s EXCEPT !.fields = f], [t EXCEPT !.fields = f], A, P, K)
    BY EditsAlike
  <2>3. QED
    BY <2>1, <2>2
<1>4. CASE e.action = "replace"
  <2>1. /\ ElementAct(s, r, e) = Rewrite(s, r, e, Eval(s, e.new))
        /\ ElementAct(t, r, e) = Rewrite(t, r, e, Eval(t, e.new))
    BY <1>4 DEF ElementAct
  <2>2. Eval(s, e.new) = Eval(t, e.new)
    BY <1>2, <1>4
  <2>3. QED
    BY <1>3, <2>1, <2>2
<1>5. CASE e.action = "delete" /\ e.type = "whole"
  <2> DEFINE f == Without(s.fields, r.header)
  <2>1. ElementAct(s, r, e) = [s EXCEPT !.fields = f] /\ ElementAct(t, r, e) = [t EXCEPT !.fields = f]
    BY <1>1, <1>5 DEF ElementAct
  <2> HIDE DEF f
  <2>2. Alike([s EXCEPT !.fields = f], [t EXCEPT !.fields = f], A, P, K)
    BY EditsAlike
  <2>3. QED
    BY <2>1, <2>2
<1>6. CASE e.action = "delete" /\ e.type # "whole"
  <2>1. ElementAct(s, r, e) = Rewrite(s, r, e, <<>>) /\ ElementAct(t, r, e) = Rewrite(t, r, e, <<>>)
    BY <1>6 DEF ElementAct
  <2>2. QED
    BY <1>3, <2>1
<1>7. CASE e.action = "store"
  <2> DEFINE k == Key(ElementName(r, e), 0)
             x == ElementText(s, r, e)
  <2>1. ElementAct(s, r, e) = StoreSlot(s, k, x) /\ ElementAct(t, r, e) = StoreSlot(t, k, x)
    BY <1>1, <1>7 DEF ElementAct, ElementText
  <2>2. ElementKeys(r, e) = <<k>>
    BY <1>7 DEF ElementKeys
  <2> HIDE DEF k, x
  <2>3. ToSet(<<k>>) = {k}
    BY DEF ToSet
  <2>4. k \in A
    BY <2>2, <2>3 DEF Finds
  <2>5. Alike(StoreSlot(s, k, x), StoreSlot(t, k, x), A, P, K \cup {k})
    BY <2>4, StoresAlike
  <2>6. QED
    BY <2>1, <2>5, AlikeInFewer
<1>8. CASE e.action = "reject"
  <2> DEFINE f == <<Reason(s, e)>>
  <2>1. ElementAct(s, r, e) = [s EXCEPT !.verdict = f] /\ ElementAct(t, r, e) = [t EXCEPT !.verdict = f]
    BY <1>2, <1>8 DEF ElementAct
  <2> HIDE DEF f
  <2>2. Alike([s EXCEPT !.verdict = f], [t EXCEPT !.verdict = f], A, P, K)
    BY EditsAlike
  <2>3. QED
    BY <2>1, <2>2
<1>9. CASE e.action \notin {"replace", "delete", "store", "reject"}
  <2>1. ElementAct(s, r, e) = s /\ ElementAct(t, r, e) = t
    BY <1>9 DEF ElementAct
  <2>2. QED
    BY <2>1
<1>10. QED
  BY <1>4, <1>5, <1>6, <1>7, <1>8, <1>9

LEMMA ElementAlike ==
  ASSUME NEW s, NEW t, NEW A, NEW P, NEW K, Alike(s, t, A, P, K), NEW r, NEW e, IsValue(e.new),
         Supported(e) => Finds(ElementKeys(r, e), e.action, e.cmp, e.match, A, P, K)
  PROVE  Alike(RunElement(s, r, e), RunElement(t, r, e), A, P, K)
<1>1. CASE ~Supported(e)
  BY <1>1 DEF RunElement
<1>2. CASE Supported(e)
  <2> DEFINE x == ElementText(s, r, e)
             u == AfterGuard(s, e.cmp, e.match, x)
             v == AfterGuard(t, e.cmp, e.match, x)
  <2>1. ElementText(t, r, e) = x
    BY DEF ElementText, Alike, LooksLike
  <2>2. e.cmp = "pattern" /\ ~Unconditional(e.match) => e.match.text \in P
    BY <1>2, PatternFound DEF Finds
  <2>3. Alike(u, v, A, P, K) /\ (Passes(s, e.cmp, e.kind, e.match, x) <=> Passes(t, e.cmp, e.kind, e.match, x))
    <3> HIDE DEF x
    <3>1. QED
      BY <2>2, GuardsAlike
  <2>4. /\ RunElement(s, r, e) = IF Passes(s, e.cmp, e.kind, e.match, x) THEN ElementAct(u, r, e) ELSE u
        /\ RunElement(t, r, e) = IF Passes(t, e.cmp, e.kind, e.match, x) THEN ElementAct(v, r, e) ELSE v
    BY <1>2, <2>1 DEF RunElement
  <2> HIDE DEF u, v, x
  <2>5. Alike(ElementAct(u, r, e), ElementAct(v, r, e), A, P, K)
    BY <1>2, <2>3, ElementActAlike
  <2>6. QED
    BY <2>3, <2>4, <2>5
<1>3. QED
  BY <1>1, <1>2

FindsElements(r, A, P, K) ==
  \A j \in 1 .. Len(r.elements) :
    LET e == r.elements[j]
    IN  Supported(e) => Finds(ElementKeys(r, e), e.action, e.cmp, e.match, A, P, K)

LEMMA ElementsAlike ==
  ASSUME NEW s, NEW t, NEW A, NEW P, NEW K, Alike(s, t, A, P, K), NEW r, IsFullRule(r),
         FindsElements(r, A, P, K)
  PROVE  Alike(RunElements(s, r), RunElements(t, r), A, P, K)
<1> DEFINE N == Len(r.elements)
           u == AfterElements(s, r)
           v == AfterElements(t, r)
           I == {j \in Nat : j <= N => Alike(u[j], v[j], A, P, K)}
<1>1. /\ N \in Nat /\ \A j \in 1 .. N : IsValue(r.elements[j].new)
  BY DEF IsFullRule, IsRule
<1>2. /\ u[0] = s /\ v[0] = t
      /\ \A j \in 1 .. N : /\ u[j] = NextElement(u[j - 1], r, r.elements[j])
                           /\ v[j] = NextElement(v[j - 1], r, r.elements[j])
  BY <1>1, AfterElementsUnfolds
<1> HIDE DEF u, v
<1>3. 0 \in I
  BY <1>2
<1>4. ASSUME NEW j \in I PROVE j + 1 \in I
  <2>1. ASSUME j + 1 <= N PROVE Alike(u[j + 1], v[j + 1], A, P, K)
    <3>1. j + 1 \in 1 .. N /\ (j + 1) - 1 = j /\ j <= N
      BY <1>1, <2>1
    <3> DEFINE e == r.elements[j + 1]
               a == u[j]
               b == v[j]
    <3>2. Alike(a, b, A, P, K)
      BY <3>1
    <3>3. u[j + 1] = NextElement(a, r, e) /\ v[j + 1] = NextElement(b, r, e)
      BY <1>2, <3>1
    <3>4. IsValue(e.new) /\ (Supported(e) => Finds(ElementKeys(r, e), e.action, e.cmp, e.match, A, P, K))
      BY <1>1, <3>1 DEF FindsElements
    <3> HIDE DEF e, a, b, N
    <3>5. Alike(RunElement(a, r, e), RunElement(b, r, e), A, P, K)
      BY <3>2, <3>4, ElementAlike
    <3>6. a.verdict = b.verdict
      BY <3>2 DEF Alike, LooksLike
    <3>7. QED
      BY <3>2, <3>3, <3>5, <3>6 DEF NextElement
  <2>2. QED
    BY <2>1
<1> HIDE DEF I
<1>5. I = Nat
  BY <1>3, <1>4, NatClosure DEF I
<1>6. Alike(u[N], v[N], A, P, K)
  <2>1. N \in I /\ N <= N
    BY <1>1, <1>5
  <2>2. QED
    BY <2>1 DEF I
<1>7. QED
  BY <1>6 DEF RunElements, u, v

-----------------------------------------------------------------------------

\* No guard skips the rule.
Unguarded(r) == r.msg = "any" /\ r.methods = <<>> /\ Unconditional(r.match)

\* The keys that the rule stores in any message.
Gained(r, i) == IF Unguarded(r) THEN Filled(r.action, HeaderKeys(r, i)) ELSE {}

FindsRule(r, i, A, P, K) ==
  /\ Finds(HeaderKeys(r, i), r.action, r.cmp, r.match, A, P, K)
  /\ r.action # "reject" => FindsElements(r, A, P, K)

LEMMA FilledIsNumbered ==
  ASSUME NEW r, NEW i, NEW A, NEW P, NEW K, FindsRule(r, i, A, P, K)
  PROVE  Filled(r.action, HeaderKeys(r, i)) \subseteq A
BY DEF FindsRule, Finds, Filled

\* The action of a rule and its element rules.
LEMMA BodyAlike ==
  ASSUME NEW s, NEW t, NEW A, NEW P, NEW K, Alike(s, t, A, P, K), NEW r, IsFullRule(r), NEW i,
         FindsRule(r, i, A, P, K)
  PROVE  Alike(RunElements(HeaderAct(s, r, i), r), RunElements(HeaderAct(t, r, i), r), A, P,
               K \cup Filled(r.action, HeaderKeys(r, i)))
<1> DEFINE F == Filled(r.action, HeaderKeys(r, i))
           a == HeaderAct(s, r, i)
           b == HeaderAct(t, r, i)
<1>1. Alike(a, b, A, P, K \cup F)
  BY HeaderActAlike DEF FindsRule
<1>2. CASE r.action = "reject"
  <2>1. a.verdict # Accepted /\ b.verdict # Accepted
    <3>1. a = [s EXCEPT !.verdict = <<Reason(s, r)>>] /\ b = [t EXCEPT !.verdict = <<Reason(t, r)>>]
      BY <1>2 DEF HeaderAct, SetsHeader
    <3>2. "verdict" \in DOMAIN s /\ "verdict" \in DOMAIN t
      BY DEF Alike, Serves, StateParts
    <3>3. a.verdict = <<Reason(s, r)>> /\ b.verdict = <<Reason(t, r)>>
      BY <3>1, <3>2
    <3>4. QED
      BY <3>3 DEF Accepted
  <2>2. Len(r.elements) \in Nat
    BY DEF IsFullRule, IsRule
  <2> HIDE DEF a, b
  <2>3. RunElements(a, r) = a /\ RunElements(b, r) = b
    BY <2>1, <2>2, RejectedElements
  <2>4. QED
    BY <1>1, <2>3 DEF a, b
<1>3. CASE r.action # "reject"
  <2>1. FindsElements(r, A, P, K \cup F)
    BY <1>3 DEF FindsRule, FindsElements, Finds
  <2> HIDE DEF a, b, F
  <2>2. Alike(RunElements(a, r), RunElements(b, r), A, P, K \cup F)
    BY <1>1, <2>1, ElementsAlike
  <2>3. QED
    BY <2>2 DEF a, b, F
<1>4. QED
  BY <1>2, <1>3

LEMMA RuleAlike ==
  ASSUME NEW s, NEW t, NEW A, NEW P, NEW K, Alike(s, t, A, P, K), NEW r, IsFullRule(r), NEW i,
         FindsRule(r, i, A, P, K)
  PROVE  Alike(RunRule(s, r, i), RunRule(t, r, i), A, P, K \cup Gained(r, i))
<1> DEFINE x == Value(s.fields, r.header)
           u == AfterGuard(s, r.cmp, r.match, x)
           v == AfterGuard(t, r.cmp, r.match, x)
           F == Filled(r.action, HeaderKeys(r, i))
           fires == Passes(s, r.cmp, "any", r.match, x)
           a == RunElements(HeaderAct(u, r, i), r)
           b == RunElements(HeaderAct(v, r, i), r)
<1>1. /\ s.fields = t.fields /\ s.request = t.request /\ s.method = t.method
      /\ Concerns(s, r) <=> Concerns(t, r)
  BY DEF Concerns, Alike, LooksLike
<1>2. r.cmp = "pattern" /\ ~Unconditional(r.match) => r.match.text \in P
  BY PatternFound DEF FindsRule, Finds
<1>3. Alike(u, v, A, P, K) /\ (fires <=> Passes(t, r.cmp, "any", r.match, x))
  <2> HIDE DEF x
  <2>1. QED
    BY <1>2, GuardsAlike
<1>4. ASSUME Concerns(s, r)
      PROVE  /\ RunRule(s, r, i) = IF fires THEN a ELSE u
             /\ RunRule(t, r, i) = IF Passes(t, r.cmp, "any", r.match, x) THEN b ELSE v
  BY <1>1, <1>4 DEF RunRule
<1>5. ASSUME ~Concerns(s, r) PROVE RunRule(s, r, i) = s /\ RunRule(t, r, i) = t
  BY <1>1, <1>5 DEF RunRule
<1>6. Alike(a, b, A, P, K \cup F)
  <2> HIDE DEF u, v
  <2>1. QED
    BY <1>3, BodyAlike
<1>7. Gained(r, i) \subseteq F
  BY DEF Gained
<1>8. Unguarded(r) => Concerns(s, r) /\ fires
  BY DEF Unguarded, Concerns, Passes
<1>9. ~Unguarded(r) => Gained(r, i) = {}
  BY DEF Gained
<1> HIDE DEF a, b, u, v, F, fires, x
<1>10. CASE Concerns(s, r) /\ fires
  <2>1. RunRule(s, r, i) = a /\ RunRule(t, r, i) = b
    BY <1>3, <1>4, <1>10
  <2>2. Alike(a, b, A, P, K \cup Gained(r, i))
    BY <1>6, <1>7, AlikeInFewer
  <2>3. QED
    BY <2>1, <2>2
<1>11. CASE Concerns(s, r) /\ ~fires
  <2>1. RunRule(s, r, i) = u /\ RunRule(t, r, i) = v
    BY <1>3, <1>4, <1>11
  <2>2. K \cup Gained(r, i) = K
    BY <1>8, <1>9, <1>11
  <2>3. QED
    BY <1>3, <2>1, <2>2
<1>12. CASE ~Concerns(s, r)
  <2>1. K \cup Gained(r, i) = K
    BY <1>8, <1>9, <1>12
  <2>2. QED
    BY <1>5, <1>12, <2>1
<1>13. QED
  BY <1>10, <1>11, <1>12

\* What is stored before rule n + 1, or was the same from the start.
Known(rs, K, n) == K \cup UNION {Gained(rs[j], j) : j \in 1 .. n}

\* A state once the packet is rejected tells no more of the slots.
Together(s, t, A, P, K) == Alike(s, t, A, P, K) \/ (LooksLike(s, t) /\ s.verdict # Accepted)

LEMMA WalksAlike ==
  ASSUME NEW s, NEW t, NEW A, NEW P, NEW K, Alike(s, t, A, P, K), NEW rs, IsFullRuleset(rs),
         \A i \in 1 .. Len(rs) : FindsRule(rs[i], i, A, P, Known(rs, K, i - 1))
  PROVE  LooksLike(Walk(s, rs), Walk(t, rs))
<1> DEFINE N == Len(rs)
           u == AfterRules(s, rs)
           v == AfterRules(t, rs)
           I == {i \in Nat : i <= N => Together(u[i], v[i], A, P, Known(rs, K, i))}
<1>1. /\ N \in Nat /\ \A i \in 1 .. N : IsFullRule(rs[i])
  BY FullRules
<1>2. /\ u[0] = s /\ v[0] = t
      /\ \A i \in 1 .. N : /\ u[i] = NextRule(u[i - 1], rs[i], i)
                           /\ v[i] = NextRule(v[i - 1], rs[i], i)
  BY <1>1, AfterRulesUnfolds
<1> HIDE DEF u, v
<1>3. 0 \in I
  <2>1. Known(rs, K, 0) = K
    BY DEF Known
  <2>2. QED
    BY <1>2, <2>1 DEF Together
<1>4. ASSUME NEW i \in I PROVE i + 1 \in I
  <2>1. ASSUME i + 1 <= N PROVE Together(u[i + 1], v[i + 1], A, P, Known(rs, K, i + 1))
    <3>1. i + 1 \in 1 .. N /\ (i + 1) - 1 = i /\ i <= N /\ i \in Nat
      BY <1>1, <2>1
    <3> DEFINE r == rs[i + 1]
               a == u[i]
               b == v[i]
               L == Known(rs, K, i)
    <3>2. Together(a, b, A, P, L)
      BY <3>1
    <3>3. u[i + 1] = NextRule(a, r, i + 1) /\ v[i + 1] = NextRule(b, r, i + 1)
      BY <1>2, <3>1
    <3>4. IsFullRule(r) /\ FindsRule(r, i + 1, A, P, L)
      BY <1>1, <3>1
    <3>5. Known(rs, K, i + 1) = L \cup Gained(r, i + 1)
      <4>1. 1 .. i + 1 = 1 .. i \cup {i + 1}
        BY <3>1
      <4>2. QED
        BY <4>1 DEF Known
    <3> HIDE DEF r, a, b, L, N
    <3>6. LooksLike(a, b) /\ a.verdict = b.verdict
      BY <3>2 DEF Together, Alike, LooksLike
    <3>7. CASE a.verdict # Accepted
      <4>1. u[i + 1] = a /\ v[i + 1] = b
        BY <3>3, <3>6, <3>7 DEF NextRule
      <4>2. QED
        BY <3>6, <3>7, <4>1 DEF Together
    <3>8. CASE a.verdict = Accepted
      <4>1. u[i + 1] = RunRule(a, r, i + 1) /\ v[i + 1] = RunRule(b, r, i + 1)
        BY <3>3, <3>6, <3>8 DEF NextRule
      <4>2. Alike(a, b, A, P, L)
        BY <3>2, <3>8 DEF Together
      <4> DEFINE n == i + 1
      <4> HIDE DEF n
      <4>3. FindsRule(r, n, A, P, L)
        BY <3>4 DEF n
      <4>4. Alike(RunRule(a, r, n), RunRule(b, r, n), A, P, L \cup Gained(r, n))
        BY <3>4, <4>2, <4>3, RuleAlike
      <4>5. QED
        BY <3>5, <4>1, <4>4 DEF Together, n
    <3>9. QED
      BY <3>7, <3>8
  <2>2. QED
    BY <2>1
<1> HIDE DEF I
<1>5. I = Nat
  BY <1>3, <1>4, NatClosure DEF I
<1>6. Together(u[N], v[N], A, P, Known(rs, K, N))
  <2>1. N \in I /\ N <= N
    BY <1>1, <1>5
  <2>2. QED
    BY <2>1 DEF I
<1>7. LooksLike(u[N], v[N])
  BY <1>6 DEF Together, Alike
<1>8. QED
  BY <1>7 DEF Walk, u, v

-----------------------------------------------------------------------------
(* Tables of what the rules use *)

Visited(r) == {j \in 1 .. Len(r.elements) : r.action # "reject" /\ Supported(r.elements[j])}

RuleUses(r, i) ==
  ToSet(HeaderKeys(r, i)) \cup UNION {ToSet(ElementKeys(r, r.elements[j])) : j \in Visited(r)}

RuleSearches(r) ==
  ToSet(Pattern(r.cmp, r.match))
    \cup UNION {ToSet(Pattern(r.elements[j].cmp, r.elements[j].match)) : j \in Visited(r)}

Uses(rs)     == UNION {RuleUses(rs[i], i) : i \in 1 .. Len(rs)}
Searches(rs) == UNION {RuleSearches(rs[i]) : i \in 1 .. Len(rs)}

\* Every key and pattern that an apply of the rules may ask for is registered.
Covers(tables, rs) ==
  /\ IsList(tables.keys) /\ Uses(rs) \subseteq ToSet(tables.keys)
  /\ IsList(tables.patterns) /\ Searches(rs) \subseteq ToSet(tables.patterns)

LEMMA ElementsOfRule ==
  ASSUME NEW r, IsFullRule(r)
  PROVE  /\ Len(r.elements) \in Nat /\ DOMAIN r.elements = 1 .. Len(r.elements)
         /\ \A j \in 1 .. Len(r.elements) : r.elements[j] \in ToSet(r.elements)
<1>1. r.elements \in Seq(ToSet(r.elements))
  BY DEF IsFullRule, IsRule
<1>2. QED
  BY <1>1, ListElements DEF IsList

\* What the scan of a rule registers.
LEMMA RuleScanHolds ==
  ASSUME NEW r, IsFullRule(r), NEW i
  PROVE  /\ IsList(RuleKeys(r, i)) /\ RuleUses(r, i) \subseteq ToSet(RuleKeys(r, i))
         /\ IsList(RulePatterns(r)) /\ RuleSearches(r) \subseteq ToSet(RulePatterns(r))
<1> DEFINE N == Len(r.elements)
           K == ElementTable(r, "keys")
           P == ElementTable(r, "patterns")
           a == HeaderKeys(r, i)
           c == Pattern(r.cmp, r.match)
           b == ScannedTable(r, "keys")
           d == ScannedTable(r, "patterns")
<1>1. /\ N \in Nat /\ DOMAIN r.elements = 1 .. N
      /\ \A j \in 1 .. N : r.elements[j] \in ToSet(r.elements)
  BY ElementsOfRule
<1>2. RuleKeys(r, i) = a \o b /\ RulePatterns(r) = c \o d
  BY DEF RuleKeys, RulePatterns, ScannedTable
<1>3. IsList(a) /\ IsList(c)
  BY PartsAreLists, PatternIsList
<1>4. AreLists(K, N) /\ AreLists(P, N)
  <2>1. ASSUME NEW j \in 1 .. N PROVE IsList(K[j]) /\ IsList(P[j])
    <3>1. IsList(ElementKeys(r, r.elements[j])) /\ IsList(Pattern(r.elements[j].cmp, r.elements[j].match))
      BY <1>1, PartsAreLists, PatternIsList
    <3>2. QED
      BY <3>1, EmptyIsList DEF ElementTable
  <2>2. K = [j \in 1 .. N |-> K[j]] /\ P = [j \in 1 .. N |-> P[j]]
    BY DEF ElementTable
  <2> HIDE DEF K, P, N
  <2>3. QED
    BY <1>1, <2>1, <2>2 DEF AreLists
<1>5. ASSUME NEW j \in Visited(r)
      PROVE  /\ j \in 1 .. N /\ K[j] = ElementKeys(r, r.elements[j])
             /\ P[j] = Pattern(r.elements[j].cmp, r.elements[j].match)
             /\ b = FlattenSeq(K) /\ d = FlattenSeq(P)
  <2>1. j \in 1 .. N /\ r.action # "reject" /\ Supported(r.elements[j])
    BY DEF Visited
  <2>2. b = FlattenSeq(K) /\ d = FlattenSeq(P)
    <3> HIDE DEF b, d, K, P
    <3>1. QED
      BY <2>1, ScanVisits DEF b, d, K, P
  <2>3. QED
    BY <2>1, <2>2 DEF ElementTable
<1>6. IsList(b) /\ IsList(d)
  <2>1. CASE r.action # "reject"
    <3>1. b = FlattenSeq(K) /\ d = FlattenSeq(P)
      <4> HIDE DEF b, d, K, P
      <4>1. QED
        BY <2>1, ScanVisits DEF b, d, K, P
    <3> HIDE DEF b, d, K, P, N
    <3>2. QED
      BY <1>4, <3>1, FlattenedIsList
  <2>2. CASE r.action = "reject"
    <3>1. ScannedElements(r) = <<>>
      BY <2>2 DEF ScannedElements
    <3>2. b = FlattenSeq(<<>>) /\ d = FlattenSeq(<<>>)
      BY <3>1 DEF ScannedTable
    <3>3. AreLists(<<>>, 0)
      BY DEF AreLists
    <3> HIDE DEF b, d
    <3>4. QED
      BY <3>2, <3>3, FlattenedIsList
  <2>3. QED
    BY <2>1, <2>2
<1> HIDE DEF a, b, c, d, K, P, N
<1>7. /\ IsList(a \o b) /\ IsList(c \o d)
      /\ ToSet(a) \subseteq ToSet(a \o b) /\ ToSet(b) \subseteq ToSet(a \o b)
      /\ ToSet(c) \subseteq ToSet(c \o d) /\ ToSet(d) \subseteq ToSet(c \o d)
  BY <1>3, <1>6, ConcatHolds
<1>8. ASSUME NEW j \in Visited(r)
      PROVE  /\ ToSet(ElementKeys(r, r.elements[j])) \subseteq ToSet(a \o b)
             /\ ToSet(Pattern(r.elements[j].cmp, r.elements[j].match)) \subseteq ToSet(c \o d)
  <2>1. ToSet(K[j]) \subseteq ToSet(b) /\ ToSet(P[j]) \subseteq ToSet(d)
    BY <1>4, <1>5, FlattenedIsList
  <2>2. QED
    BY <1>5, <1>7, <2>1
<1>9. RuleUses(r, i) = ToSet(a) \cup UNION {ToSet(ElementKeys(r, r.elements[j])) : j \in Visited(r)}
  BY DEF RuleUses, a
<1>10. RuleSearches(r) = ToSet(c) \cup UNION {ToSet(Pattern(r.elements[j].cmp, r.elements[j].match)) : j \in Visited(r)}
  BY DEF RuleSearches, c
<1>11. RuleUses(r, i) \subseteq ToSet(a \o b)
  BY <1>7, <1>8, <1>9
<1>12. RuleSearches(r) \subseteq ToSet(c \o d)
  BY <1>7, <1>8, <1>10
<1>13. QED
  BY <1>2, <1>7, <1>11, <1>12

\* A list of lists that hold what each rule uses.
LEMMA DistinctCovers ==
  ASSUME NEW w, NEW n, AreLists(w, n), NEW S, \A x \in S : \E i \in 1 .. n : x \in ToSet(w[i])
  PROVE  /\ IsList(Distinct(FlattenSeq(w))) /\ S \subseteq ToSet(Distinct(FlattenSeq(w)))
         /\ IsList(Reverse(Distinct(FlattenSeq(w)))) /\ S \subseteq ToSet(Reverse(Distinct(FlattenSeq(w))))
<1> DEFINE f == FlattenSeq(w)
           g == Distinct(f)
<1>1. IsList(f) /\ \A i \in 1 .. n : ToSet(w[i]) \subseteq ToSet(f)
  BY FlattenedIsList
<1>2. S \subseteq ToSet(f)
  BY <1>1
<1> HIDE DEF f
<1>3. IsList(g) /\ ToSet(f) \subseteq ToSet(g)
  BY <1>1, DistinctHolds
<1> HIDE DEF g
<1>4. IsList(Reverse(g)) /\ ToSet(g) \subseteq ToSet(Reverse(g))
  BY <1>3, ReverseHolds
<1>5. IsList(g) /\ S \subseteq ToSet(g) /\ IsList(Reverse(g)) /\ S \subseteq ToSet(Reverse(g))
  BY <1>2, <1>3, <1>4
<1>6. QED
  BY <1>5 DEF f, g

LEMMA ScanCovers ==
  ASSUME NEW rs, IsFullRuleset(rs)
  PROVE  Covers(Scan(rs), rs)
<1> DEFINE n == Len(rs)
           K == [i \in DOMAIN rs |-> RuleKeys(rs[i], i)]
           P == [i \in DOMAIN rs |-> RulePatterns(rs[i])]
<1>1. n \in Nat /\ DOMAIN rs = 1 .. n /\ \A i \in 1 .. n : IsFullRule(rs[i])
  BY FullRules
<1>2. AreLists(K, n) /\ AreLists(P, n)
  <2>1. \A i \in 1 .. n : IsList(K[i]) /\ IsList(P[i])
    BY <1>1, RuleScanHolds
  <2>2. K = [i \in 1 .. n |-> K[i]] /\ P = [i \in 1 .. n |-> P[i]]
    BY <1>1
  <2> HIDE DEF K, P, n
  <2>3. QED
    BY <1>1, <2>1, <2>2 DEF AreLists
<1>3. ASSUME NEW x \in Uses(rs) PROVE \E i \in 1 .. n : x \in ToSet(K[i])
  <2>1. PICK i \in 1 .. n : x \in RuleUses(rs[i], i)
    BY DEF Uses
  <2>2. x \in ToSet(RuleKeys(rs[i], i))
    BY <1>1, <2>1, RuleScanHolds
  <2>3. QED
    BY <1>1, <2>2
<1>4. ASSUME NEW x \in Searches(rs) PROVE \E i \in 1 .. n : x \in ToSet(P[i])
  <2>1. PICK i \in 1 .. n : x \in RuleSearches(rs[i])
    BY DEF Searches
  <2>2. x \in ToSet(RulePatterns(rs[i]))
    BY <1>1, <2>1, RuleScanHolds
  <2>3. QED
    BY <1>1, <2>2
<1>5. Scan(rs).keys = Distinct(FlattenSeq(K)) /\ Scan(rs).patterns = Distinct(FlattenSeq(P))
  BY DEF Scan
<1> HIDE DEF K, P, n
<1>6. QED
  BY <1>2, <1>3, <1>4, <1>5, DistinctCovers DEF Covers

LEMMA SeqIsFunction == ASSUME NEW S, NEW t \in Seq(S) PROVE t \in [1 .. Len(t) -> S]
OBVIOUS

\* The lists of b come after those of a.
Follow(a, n, b, m, c, o) ==
  /\ AreLists(c, o)
  /\ \A i \in 1 .. n : i \in 1 .. o /\ c[i] = a[i]
  /\ \A j \in 1 .. m : n + j \in 1 .. o /\ c[n + j] = b[j]

LEMMA ListsJoined ==
  ASSUME NEW a, NEW n, AreLists(a, n), NEW b, NEW m, AreLists(b, m),
         NEW c, c = a \o b, NEW o, o = n + m
  PROVE  Follow(a, n, b, m, c, o)
<1> DEFINE S == {a[i] : i \in 1 .. n} \cup {b[j] : j \in 1 .. m}
<1>1. /\ n \in Nat /\ a = [i \in 1 .. n |-> a[i]] /\ \A i \in 1 .. n : IsList(a[i])
      /\ m \in Nat /\ b = [j \in 1 .. m |-> b[j]] /\ \A j \in 1 .. m : IsList(b[j])
  BY DEF AreLists
<1>2. a \in [1 .. n -> S] /\ b \in [1 .. m -> S]
  BY <1>1
<1> HIDE DEF S
<1>3. a \in Seq(S) /\ b \in Seq(S) /\ Len(a) = n /\ Len(b) = m
  BY <1>1, <1>2, FunctionIsSeq
<1>4. /\ c \in Seq(S) /\ Len(c) = n + m
      /\ \A k \in 1 .. n : c[k] = a[k]
      /\ \A k \in n + 1 .. n + m : c[k] = b[k - n]
  BY <1>3, ConcatElements
<1>5. ASSUME NEW j \in 1 .. m PROVE n + j \in 1 .. n + m /\ c[n + j] = b[j]
  <2>1. n + j \in n + 1 .. n + m /\ (n + j) - n = j /\ n + j \in 1 .. n + m
    BY <1>1
  <2>2. QED
    BY <1>4, <2>1
<1>6. ASSUME NEW i \in 1 .. n PROVE i \in 1 .. n + m /\ c[i] = a[i]
  BY <1>1, <1>4
<1>7. ASSUME NEW k \in 1 .. n + m PROVE IsList(c[k])
  <2>1. k \in 1 .. n \/ (k \in n + 1 .. n + m /\ k - n \in 1 .. m)
    BY <1>1
  <2>2. QED
    BY <1>1, <1>4, <2>1
<1>8. c = [k \in 1 .. n + m |-> c[k]]
  <2>1. c \in [1 .. n + m -> S]
    <3>1. c \in Seq(S) /\ Len(c) = n + m
      BY <1>4
    <3>2. c \in [1 .. Len(c) -> S]
      BY <3>1, SeqIsFunction
    <3>3. QED
      BY <3>1, <3>2
  <2>2. QED
    BY <2>1
<1>9. n + m \in Nat
  BY <1>1
<1>10. QED
  BY <1>5, <1>6, <1>7, <1>8, <1>9 DEF AreLists, Follow

-----------------------------------------------------------------------------
(* A context prepared for such tables *)

\* The slots are those of the tables.
HasTables(s, tables) ==
  /\ StateParts \subseteq DOMAIN s /\ s.keys = tables.keys /\ s.patterns = tables.patterns
  /\ DOMAIN s.slots = DOMAIN tables.keys

\* A packet that an apply has not touched yet.
IsFresh(s, p) ==
  /\ s.request = p.request /\ s.method = p.method /\ s.fields = p.fields
  /\ s.captures = <<>> /\ s.logs = <<>> /\ s.verdict = Accepted

LEMMA CoveringServes ==
  ASSUME NEW rs, NEW tables, Covers(tables, rs), NEW s, HasTables(s, tables)
  PROVE  Serves(s, Uses(rs), Searches(rs))
<1> DEFINE A == Uses(rs)
           P == Searches(rs)
           t == tables.keys
           q == tables.patterns
<1>1. IsList(t) /\ A \subseteq ToSet(t) /\ IsList(q) /\ P \subseteq ToSet(q)
  BY DEF Covers
<1>2. /\ StateParts \subseteq DOMAIN s /\ s.keys = t /\ s.patterns = q /\ DOMAIN s.slots = DOMAIN t
  BY DEF HasTables
<1> HIDE DEF A, P, t, q
<1>3. ASSUME NEW k \in A PROVE Number(t, k) \in DOMAIN t /\ t[Number(t, k)] = k
  BY <1>1, NumberFinds
<1>4. ASSUME NEW p \in P PROVE q # <<>> /\ q[Number(q, p)] = p
  BY <1>1, NumberFinds
<1>5. ASSUME NEW k \in A, NEW l \in A, Number(t, k) = Number(t, l) PROVE k = l
  BY <1>3, <1>5
<1>6. Serves(s, A, P)
  BY <1>2, <1>3, <1>4, <1>5 DEF Serves
<1>7. QED
  BY <1>6 DEF A, P

\* A packet says nothing of the context.
IsPacket(p) == DOMAIN p = {"request", "method", "fields"}

LEMMA FreshInContext ==
  ASSUME NEW p, IsPacket(p), NEW c,
         {"keys", "patterns", "slots", "captures", "logs", "verdict"} \subseteq DOMAIN c,
         c.captures = <<>>, c.logs = <<>>, c.verdict = Accepted,
         NEW tables, c.keys = tables.keys, c.patterns = tables.patterns,
         DOMAIN c.slots = DOMAIN tables.keys
  PROVE  /\ HasTables(InContext(p, c), tables) /\ IsFresh(InContext(p, c), p)
         /\ InContext(p, c).slots = c.slots
<1> DEFINE s == InContext(p, c)
<1>1. DOMAIN p = {"request", "method", "fields"}
  BY DEF IsPacket
<1>2. DOMAIN s = DOMAIN p \cup DOMAIN c
  BY DEF InContext
<1>3. s.request = p.request /\ s.method = p.method /\ s.fields = p.fields
  BY <1>1 DEF InContext
<1>4. /\ s.keys = c.keys /\ s.patterns = c.patterns /\ s.slots = c.slots
      /\ s.captures = c.captures /\ s.logs = c.logs /\ s.verdict = c.verdict
  BY <1>1 DEF InContext
<1>5. StateParts \subseteq DOMAIN s
  BY <1>1, <1>2 DEF StateParts
<1> HIDE DEF s
<1>6. HasTables(s, tables) /\ IsFresh(s, p) /\ s.slots = c.slots
  BY <1>3, <1>4, <1>5 DEF HasTables, IsFresh
<1>7. QED
  BY <1>6 DEF s

LEMMA PreparedIsFresh ==
  ASSUME NEW p, IsPacket(p), NEW tables
  PROVE  /\ HasTables(InContext(p, Prepared(tables)), tables)
         /\ IsFresh(InContext(p, Prepared(tables)), p)
         /\ InContext(p, Prepared(tables)).slots = [n \in DOMAIN tables.keys |-> <<>>]
<1> DEFINE c == Prepared(tables)
<1>1. /\ {"keys", "patterns", "slots", "captures", "logs", "verdict"} \subseteq DOMAIN c
      /\ c.captures = <<>> /\ c.logs = <<>> /\ c.verdict = Accepted
      /\ c.keys = tables.keys /\ c.patterns = tables.patterns
      /\ c.slots = [n \in DOMAIN tables.keys |-> <<>>] /\ DOMAIN c.slots = DOMAIN tables.keys
  BY DEF Prepared
<1> HIDE DEF c
<1>2. /\ HasTables(InContext(p, c), tables) /\ IsFresh(InContext(p, c), p)
      /\ InContext(p, c).slots = c.slots
  BY <1>1, FreshInContext
<1>3. QED
  BY <1>1, <1>2 DEF c

LEMMA FreshLookAlike ==
  ASSUME NEW s, NEW t, NEW p, IsFresh(s, p), IsFresh(t, p)
  PROVE  LooksLike(s, t)
BY DEF IsFresh, LooksLike

\* A rule of the ruleset whose loads are among K.
LEMMA RuleFinds ==
  ASSUME NEW rs, IsFullRuleset(rs), NEW i \in 1 .. Len(rs), NEW K,
         rs[i].action # "store" => ToSet(HeaderKeys(rs[i], i)) \subseteq K,
         \A j \in Visited(rs[i]) : rs[i].elements[j].action # "store" =>
           ToSet(ElementKeys(rs[i], rs[i].elements[j])) \subseteq K
  PROVE  FindsRule(rs[i], i, Uses(rs), Searches(rs), K)
<1> DEFINE r == rs[i]
<1>1. RuleUses(r, i) \subseteq Uses(rs) /\ RuleSearches(r) \subseteq Searches(rs)
  BY DEF Uses, Searches
<1>2. /\ ToSet(HeaderKeys(r, i)) \subseteq RuleUses(r, i)
      /\ ToSet(Pattern(r.cmp, r.match)) \subseteq RuleSearches(r)
  BY DEF RuleUses, RuleSearches
<1>3. ASSUME NEW j \in Visited(r)
      PROVE  /\ ToSet(ElementKeys(r, r.elements[j])) \subseteq RuleUses(r, i)
             /\ ToSet(Pattern(r.elements[j].cmp, r.elements[j].match)) \subseteq RuleSearches(r)
  BY DEF RuleUses, RuleSearches
<1>4. \A j \in Visited(r) : r.elements[j].action # "store" =>
        ToSet(ElementKeys(r, r.elements[j])) \subseteq K
  OBVIOUS
<1>5. r.action # "store" => ToSet(HeaderKeys(r, i)) \subseteq K
  OBVIOUS
<1> HIDE DEF r
<1>6. Finds(HeaderKeys(r, i), r.action, r.cmp, r.match, Uses(rs), Searches(rs), K)
  BY <1>1, <1>2, <1>5 DEF Finds
<1>7. ASSUME r.action # "reject" PROVE FindsElements(r, Uses(rs), Searches(rs), K)
  <2>1. ASSUME NEW j \in 1 .. Len(r.elements), Supported(r.elements[j])
        PROVE  Finds(ElementKeys(r, r.elements[j]), r.elements[j].action, r.elements[j].cmp,
                     r.elements[j].match, Uses(rs), Searches(rs), K)
    <3>1. j \in Visited(r)
      BY <1>7, <2>1 DEF Visited
    <3>2. QED
      BY <1>1, <1>3, <1>4, <3>1 DEF Finds
  <2>2. QED
    BY <2>1 DEF FindsElements
<1>8. FindsRule(r, i, Uses(rs), Searches(rs), K)
  BY <1>6, <1>7 DEF FindsRule
<1>9. QED
  BY <1>8 DEF r

LEMMA KnownHas == ASSUME NEW rs, NEW K, NEW n PROVE K \subseteq Known(rs, K, n)
BY DEF Known

\* Two contexts prepared for tables that cover the rules: the same outcome.
LEMMA CoversAlike ==
  ASSUME NEW rs, IsFullRuleset(rs), NEW p, IsPacket(p),
         NEW a, Covers(a, rs), NEW b, Covers(b, rs)
  PROVE  LooksLike(Walk(InContext(p, Prepared(a)), rs), Walk(InContext(p, Prepared(b)), rs))
<1> DEFINE s == InContext(p, Prepared(a))
           t == InContext(p, Prepared(b))
           A == Uses(rs)
<1>1. /\ HasTables(s, a) /\ IsFresh(s, p) /\ s.slots = [n \in DOMAIN a.keys |-> <<>>]
      /\ HasTables(t, b) /\ IsFresh(t, p) /\ t.slots = [n \in DOMAIN b.keys |-> <<>>]
  BY PreparedIsFresh
<1> HIDE DEF s, t
<1>2. Serves(s, A, Searches(rs)) /\ Serves(t, A, Searches(rs)) /\ LooksLike(s, t)
  BY <1>1, CoveringServes, FreshLookAlike
<1>3. ASSUME NEW k \in A PROVE s.slots[Number(s.keys, k)] = t.slots[Number(t.keys, k)]
  <2>1. Number(s.keys, k) \in DOMAIN s.slots /\ Number(t.keys, k) \in DOMAIN t.slots
    BY <1>2 DEF Serves
  <2>2. QED
    BY <1>1, <2>1
<1>4. Alike(s, t, A, Searches(rs), A)
  BY <1>2, <1>3 DEF Alike
<1>5. ASSUME NEW i \in 1 .. Len(rs) PROVE FindsRule(rs[i], i, A, Searches(rs), Known(rs, A, i - 1))
  <2>1. RuleUses(rs[i], i) \subseteq A /\ A \subseteq Known(rs, A, i - 1)
    BY KnownHas DEF Uses
  <2>2. ToSet(HeaderKeys(rs[i], i)) \subseteq Known(rs, A, i - 1)
    BY <2>1 DEF RuleUses
  <2>3. ASSUME NEW j \in Visited(rs[i])
        PROVE  ToSet(ElementKeys(rs[i], rs[i].elements[j])) \subseteq Known(rs, A, i - 1)
    BY <2>1 DEF RuleUses
  <2>4. QED
    BY <2>2, <2>3, RuleFinds
<1>6. LooksLike(Walk(s, rs), Walk(t, rs))
  <2> HIDE DEF A
  <2>1. QED
    BY <1>4, <1>5, WalksAlike
<1>7. QED
  BY <1>6 DEF s, t

\* A context used before and one prepared: the same outcome, where every slot
\* is stored before it is loaded.
LEMMA UsedAlike ==
  ASSUME NEW rs, IsFullRuleset(rs), NEW p, IsPacket(p), NEW tables, Covers(tables, rs),
         NEW s, HasTables(s, tables), IsFresh(s, p),
         \A i \in 1 .. Len(rs) : /\ ToSet(SlotKeys(rs[i].new)) \subseteq Known(rs, {}, i - 1)
                                 /\ \A e \in ToSet(rs[i].elements) :
                                      ToSet(SlotKeys(e.new)) \subseteq Known(rs, {}, i - 1)
  PROVE  LooksLike(Walk(s, rs), Walk(InContext(p, Prepared(tables)), rs))
<1> DEFINE t == InContext(p, Prepared(tables))
           A == Uses(rs)
<1>1. HasTables(t, tables) /\ IsFresh(t, p)
  BY PreparedIsFresh
<1> HIDE DEF t
<1>2. Serves(s, A, Searches(rs)) /\ Serves(t, A, Searches(rs)) /\ LooksLike(s, t)
  BY <1>1, CoveringServes, FreshLookAlike
<1>3. Alike(s, t, A, Searches(rs), {})
  BY <1>2 DEF Alike
<1>4. ASSUME NEW i \in 1 .. Len(rs) PROVE FindsRule(rs[i], i, A, Searches(rs), Known(rs, {}, i - 1))
  <2> DEFINE L == Known(rs, {}, i - 1)
  <2>1. IsFullRule(rs[i])
    BY FullRules
  <2>2. ToSet(<<>>) \subseteq L
    BY DEF ToSet
  <2>3. ToSet(SlotKeys(rs[i].new)) \subseteq L
    OBVIOUS
  <2> HIDE DEF L
  <2>4. ASSUME rs[i].action # "store" PROVE ToSet(HeaderKeys(rs[i], i)) \subseteq L
    <3>1. HeaderKeys(rs[i], i) = SlotKeys(rs[i].new) \/ HeaderKeys(rs[i], i) = <<>>
      BY <2>4 DEF HeaderKeys
    <3>2. QED
      BY <2>2, <2>3, <3>1
  <2>5. ASSUME NEW j \in Visited(rs[i]), rs[i].elements[j].action # "store"
        PROVE  ToSet(ElementKeys(rs[i], rs[i].elements[j])) \subseteq L
    <3>1. rs[i].elements[j] \in ToSet(rs[i].elements)
      <4>1. j \in 1 .. Len(rs[i].elements)
        BY DEF Visited
      <4>2. QED
        BY <2>1, <4>1, ElementsOfRule
    <3>2. ToSet(SlotKeys(rs[i].elements[j].new)) \subseteq L
      BY <3>1 DEF L
    <3>3. \/ ElementKeys(rs[i], rs[i].elements[j]) = SlotKeys(rs[i].elements[j].new)
          \/ ElementKeys(rs[i], rs[i].elements[j]) = <<>>
      BY <2>5 DEF ElementKeys
    <3>4. QED
      BY <2>2, <3>2, <3>3
  <2>6. FindsRule(rs[i], i, Uses(rs), Searches(rs), L)
    BY <2>4, <2>5, RuleFinds
  <2>7. QED
    BY <2>6 DEF L
<1>5. LooksLike(Walk(s, rs), Walk(t, rs))
  <2> HIDE DEF A
  <2>1. QED
    BY <1>3, <1>4, WalksAlike
<1>6. QED
  BY <1>5 DEF t
=============================================================================
