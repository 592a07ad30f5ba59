------------------------ MODULE GeneratedCode_proofs ------------------------
(***************************************************************************)
(* Proofs about generated modules, for any rulesets and packets and any    *)
(* matchers, captures and variables: about the code that is emitted, block *)
(* by block; about its execution; and that a run of it is the walk of the  *)
(* interpreter.                                                            *)
(***************************************************************************)
EXTENDS GeneratedCode, Rules_proofs

-----------------------------------------------------------------------------
(* Code *)

InstructionFields == {"op", "arg", "skip", "by"}

\* A sequence of instructions whose branches lead forward and at most to its end.
IsCode(b) ==
  /\ b \in Seq(ToSet(b))
  /\ \A i \in 1 .. Len(b) : DOMAIN b[i] = InstructionFields /\ b[i].by \in 1 .. Len(b) - i + 1

\* The rewrite at n, whose result the next instruction stores, works on the
\* header read at g: nothing between changes it and no branch leads past the read.
FreshFrom(b, g, n) ==
  /\ g \in 1 .. n - 1 /\ n + 1 <= Len(b)
  /\ b[g].op = "get" /\ b[n + 1].op = "set" /\ b[g].arg = b[n + 1].arg
  /\ \A k \in g + 1 .. n - 1 : b[k].op \in {"uri_get", "match", "value"}
  /\ \A j \in 1 .. Len(b) : j + b[j].by \in g + 1 .. n => j \in g .. n - 1

Rereads(b) == \A n \in 1 .. Len(b) : b[n].op = "uri_set" => \E g \in 1 .. n - 1 : FreshFrom(b, g, n)

Sound(b) == IsCode(b) /\ Rereads(b)

LEMMA CodeIsSequence ==
  ASSUME NEW b, IsCode(b)
  PROVE  /\ b \in Seq(ToSet(b)) /\ Len(b) \in Nat /\ DOMAIN b = 1 .. Len(b)
         /\ \A i \in 1 .. Len(b) : /\ b[i] \in ToSet(b) /\ DOMAIN b[i] = InstructionFields
                                   /\ b[i].by \in Nat /\ b[i].by >= 1 /\ i + b[i].by <= Len(b) + 1
<1>1. b \in Seq(ToSet(b)) /\ Len(b) \in Nat /\ DOMAIN b = 1 .. Len(b)
  BY DEF IsCode
<1>2. ASSUME NEW i \in 1 .. Len(b)
      PROVE  /\ b[i] \in ToSet(b) /\ DOMAIN b[i] = InstructionFields
             /\ b[i].by \in Nat /\ b[i].by >= 1 /\ i + b[i].by <= Len(b) + 1
  <2>1. b[i].by \in 1 .. Len(b) - i + 1 /\ DOMAIN b[i] = InstructionFields
    BY DEF IsCode
  <2>2. b[i] \in ToSet(b)
    BY <1>1
  <2>3. QED
    BY <1>1, <2>1, <2>2
<1>3. QED
  BY <1>1, <1>2

LEMMA SequenceIsCode ==
  ASSUME NEW S, NEW b \in Seq(S), NEW n \in Nat, Len(b) = n,
         \A i \in 1 .. n : /\ DOMAIN b[i] = InstructionFields
                           /\ b[i].by \in Nat /\ b[i].by >= 1 /\ i + b[i].by <= n + 1
  PROVE  IsCode(b)
<1>1. b \in [1 .. n -> ToSet(b)]
  BY DEF ToSet
<1>2. b \in Seq(ToSet(b))
  BY <1>1, FunctionIsSeq
<1>3. ASSUME NEW i \in 1 .. n PROVE b[i].by \in 1 .. n - i + 1
  <2>1. b[i].by \in Nat /\ b[i].by >= 1 /\ i + b[i].by <= n + 1
    OBVIOUS
  <2>2. QED
    BY <2>1
<1>4. QED
  BY <1>2, <1>3 DEF IsCode

LEMMA SoundNone == Sound(<<>>)
<1>1. <<>> \in Seq(ToSet(<<>>)) /\ Len(<<>>) = 0 /\ 1 .. 0 = {}
  OBVIOUS
<1>2. QED
  BY <1>1 DEF Sound, IsCode, Rereads

\* One instruction as it is emitted, but for a rewrite.
Emitted(x) == DOMAIN x = InstructionFields /\ x.by = 1 /\ x.op # "uri_set"

LEMMA SoundOne ==
  ASSUME NEW x, Emitted(x)
  PROVE  Sound(<<x>>)
<1> DEFINE b == <<x>>
<1>1. b \in Seq({x}) /\ Len(b) = 1 /\ b[1] = x
  OBVIOUS
<1> HIDE DEF b
<1>2. IsCode(b)
  BY <1>1, SequenceIsCode DEF Emitted
<1>3. Rereads(b)
  BY <1>1 DEF Rereads, Emitted
<1>4. QED
  BY <1>2, <1>3 DEF Sound, b

LEMMA Joined ==
  ASSUME NEW a, NEW b, IsCode(a), IsCode(b)
  PROVE  /\ Len(a \o b) = Len(a) + Len(b) /\ Len(a) \in Nat /\ Len(b) \in Nat
         /\ \A k \in 1 .. Len(a) : (a \o b)[k] = a[k]
         /\ \A k \in 1 .. Len(b) : (a \o b)[Len(a) + k] = b[k]
         /\ IsCode(a \o b)
<1> DEFINE S == ToSet(a) \cup ToSet(b)
           c == a \o b
<1>1. a \in Seq(S) /\ b \in Seq(S)
  <2>1. /\ a \in [1 .. Len(a) -> S] /\ Len(a) \in Nat
        /\ b \in [1 .. Len(b) -> S] /\ Len(b) \in Nat
    BY CodeIsSequence
  <2> HIDE DEF S
  <2>2. QED
    BY <2>1, FunctionIsSeq
<1> HIDE DEF S
<1>2. /\ c \in Seq(S) /\ Len(c) = Len(a) + Len(b) /\ Len(a) \in Nat /\ Len(b) \in Nat
      /\ \A k \in 1 .. Len(a) : c[k] = a[k]
      /\ \A k \in Len(a) + 1 .. Len(a) + Len(b) : c[k] = b[k - Len(a)]
  BY <1>1, ConcatElements
<1> HIDE DEF c
<1>3. \A k \in 1 .. Len(b) : c[Len(a) + k] = b[k]
  BY <1>2
<1>4. ASSUME NEW i \in 1 .. Len(c)
      PROVE  /\ DOMAIN c[i] = InstructionFields
             /\ c[i].by \in Nat /\ c[i].by >= 1 /\ i + c[i].by <= Len(c) + 1
  <2>1. CASE i \in 1 .. Len(a)
    <3>1. c[i] = a[i]
      BY <1>2, <2>1
    <3>2. /\ DOMAIN a[i] = InstructionFields
          /\ a[i].by \in Nat /\ a[i].by >= 1 /\ i + a[i].by <= Len(a) + 1
      BY <2>1, CodeIsSequence
    <3>3. QED
      BY <1>2, <3>1, <3>2
  <2>2. CASE i \notin 1 .. Len(a)
    <3> DEFINE k == i - Len(a)
    <3>1. k \in 1 .. Len(b) /\ c[i] = b[k]
      BY <1>2, <2>2
    <3>2. /\ DOMAIN b[k] = InstructionFields
          /\ b[k].by \in Nat /\ b[k].by >= 1 /\ k + b[k].by <= Len(b) + 1
      BY <3>1, CodeIsSequence
    <3>3. QED
      BY <1>2, <3>1, <3>2
  <2>3. QED
    BY <2>1, <2>2
<1>5. Len(c) \in Nat
  BY <1>2
<1>6. IsCode(c)
  BY <1>2, <1>4, <1>5, SequenceIsCode
<1>7. QED
  BY <1>2, <1>3, <1>6 DEF c

\* Branches of the first part lead at most to the start of the second, which is
\* before its reads; those of the second never back.
LEMMA SoundBoth ==
  ASSUME NEW a, NEW b, Sound(a), Sound(b)
  PROVE  Sound(a \o b)
<1> DEFINE c == a \o b
<1>1. /\ Len(c) = Len(a) + Len(b) /\ Len(a) \in Nat /\ Len(b) \in Nat
      /\ \A k \in 1 .. Len(a) : c[k] = a[k]
      /\ \A k \in 1 .. Len(b) : c[Len(a) + k] = b[k]
      /\ IsCode(c) /\ IsCode(a) /\ IsCode(b)
  BY Joined DEF Sound
<1> HIDE DEF c
<1>2. /\ \A i \in 1 .. Len(a) : a[i].by \in Nat /\ a[i].by >= 1 /\ i + a[i].by <= Len(a) + 1
      /\ \A i \in 1 .. Len(b) : b[i].by \in Nat /\ b[i].by >= 1
      /\ \A i \in 1 .. Len(c) : c[i].by \in Nat /\ c[i].by >= 1
  BY <1>1, CodeIsSequence
<1>3. ASSUME NEW n \in 1 .. Len(c), c[n].op = "uri_set"
      PROVE  \E g \in 1 .. n - 1 : FreshFrom(c, g, n)
  <2>1. CASE n \in 1 .. Len(a)
    <3>1. a[n].op = "uri_set"
      BY <1>1, <1>3, <2>1
    <3>2. PICK g \in 1 .. n - 1 : FreshFrom(a, g, n)
      BY <2>1, <3>1 DEF Sound, Rereads
    <3>3. /\ n + 1 <= Len(a) /\ g \in Nat /\ n \in Nat
          /\ c[g] = a[g] /\ c[n + 1] = a[n + 1]
          /\ \A k \in g + 1 .. n - 1 : c[k] = a[k]
      BY <1>1, <2>1, <3>2 DEF FreshFrom
    <3>4. ASSUME NEW j \in 1 .. Len(c), j + c[j].by \in g + 1 .. n
          PROVE  j \in g .. n - 1
      <4>1. j <= Len(a)
        BY <1>1, <1>2, <3>3, <3>4
      <4>2. j \in 1 .. Len(a) /\ c[j] = a[j]
        BY <1>1, <4>1
      <4>3. QED
        BY <3>2, <3>4, <4>2 DEF FreshFrom
    <3>5. /\ n + 1 <= Len(c)
      BY <1>1, <3>3
    <3>6. FreshFrom(c, g, n)
      BY <3>2, <3>3, <3>4, <3>5 DEF FreshFrom
    <3>7. QED
      BY <3>6
  <2>2. CASE n \notin 1 .. Len(a)
    <3> DEFINE m == n - Len(a)
    <3>1. m \in 1 .. Len(b) /\ n = Len(a) + m /\ m \in Nat /\ n \in Nat
      BY <1>1, <2>2
    <3> HIDE DEF m
    <3>2. b[m].op = "uri_set"
      BY <1>1, <1>3, <3>1
    <3>3. PICK h \in 1 .. m - 1 : FreshFrom(b, h, m)
      BY <3>1, <3>2 DEF Sound, Rereads
    <3> DEFINE g == Len(a) + h
    <3>4. /\ h \in Nat /\ h >= 1 /\ g \in 1 .. n - 1 /\ m + 1 <= Len(b) /\ n + 1 = Len(a) + (m + 1)
          /\ h \in 1 .. Len(b) /\ m + 1 \in 1 .. Len(b)
      BY <1>1, <3>1, <3>3 DEF FreshFrom
    <3>5. /\ c[g] = b[h] /\ c[n + 1] = b[m + 1] /\ n + 1 <= Len(c)
      BY <1>1, <3>1, <3>4
    <3>6. ASSUME NEW k \in g + 1 .. n - 1 PROVE c[k].op \in {"uri_get", "match", "value"}
      <4> DEFINE l == k - Len(a)
      <4>1. l \in h + 1 .. m - 1 /\ l \in 1 .. Len(b) /\ k = Len(a) + l
        BY <1>1, <3>1, <3>4
      <4> HIDE DEF l
      <4>2. c[k] = b[l]
        BY <1>1, <4>1
      <4>3. QED
        BY <3>3, <4>1, <4>2 DEF FreshFrom
    <3>7. ASSUME NEW j \in 1 .. Len(c), j + c[j].by \in g + 1 .. n
          PROVE  j \in g .. n - 1
      <4>1. j > Len(a)
        <5>1. SUFFICES ASSUME j <= Len(a) PROVE FALSE
          BY <1>1
        <5>2. j \in 1 .. Len(a) /\ c[j] = a[j]
          BY <1>1, <5>1
        <5>3. j + c[j].by <= Len(a) + 1
          BY <1>2, <5>2
        <5>4. QED
          BY <1>1, <1>2, <3>4, <3>7, <5>3
      <4> DEFINE i == j - Len(a)
      <4>2. i \in 1 .. Len(b) /\ j = Len(a) + i
        BY <1>1, <4>1
      <4> HIDE DEF i
      <4>3. c[j] = b[i]
        BY <1>1, <4>2
      <4>4. b[i].by \in Nat
        BY <1>2, <4>2
      <4>5. i + b[i].by \in h + 1 .. m
        <5>1. ASSUME NEW d \in Nat, j + d \in g + 1 .. n PROVE i + d \in h + 1 .. m
          BY <1>1, <3>1, <3>4, <4>2, <5>1
        <5>2. j + b[i].by \in g + 1 .. n
          BY <3>7, <4>3
        <5>3. QED
          BY <4>4, <5>1, <5>2
      <4>6. i \in h .. m - 1
        BY <3>3, <4>2, <4>5 DEF FreshFrom
      <4>7. QED
        BY <1>1, <3>1, <3>4, <4>2, <4>6
    <3>8. c[g].op = "get" /\ c[n + 1].op = "set" /\ c[g].arg = c[n + 1].arg
      BY <3>3, <3>5 DEF FreshFrom
    <3>9. FreshFrom(c, g, n)
      <4> HIDE DEF g
      <4>1. QED
        BY <3>4, <3>5, <3>6, <3>7, <3>8 DEF FreshFrom
    <3>10. QED
      BY <3>4, <3>9
  <2>3. QED
    BY <2>1, <2>2
<1>4. QED
  BY <1>1, <1>3 DEF Sound, Rereads, c

\* A list of n blocks, each sound.
SoundBlocks(w, n) ==
  /\ n \in Nat /\ w = [i \in 1 .. n |-> w[i]]
  /\ \A i \in 1 .. n : Sound(w[i])

LEMMA SoundFlatten ==
  ASSUME NEW w, NEW n, SoundBlocks(w, n)
  PROVE  Sound(FlattenSeq(w))
<1> DEFINE S == UNION {ToSet(w[i]) : i \in 1 .. n}
           B == {b \in Seq(S) : Sound(b)}
           T == {q \in Seq(B) : Sound(FlattenSeq(q))}
<1>1. ASSUME NEW i \in 1 .. n PROVE w[i] \in B
  <2>1. IsCode(w[i]) /\ Sound(w[i])
    BY DEF SoundBlocks, Sound
  <2>2. w[i] \in [1 .. Len(w[i]) -> ToSet(w[i])] /\ Len(w[i]) \in Nat
    BY <2>1, CodeIsSequence
  <2>3. ToSet(w[i]) \subseteq S
    OBVIOUS
  <2>4. w[i] \in [1 .. Len(w[i]) -> S]
    <3> HIDE DEF S
    <3>1. QED
      BY <2>2, <2>3
  <2>5. w[i] \in Seq(S)
    <3> HIDE DEF S
    <3>1. QED
      BY <2>2, <2>4, FunctionIsSeq
  <2>6. QED
    BY <2>1, <2>5
<1> HIDE DEF S
<1>2. <<>> \in T
  <2>1. <<>> \in Seq(B)
    OBVIOUS
  <2>2. QED
    BY <2>1, FlattenEmpty, SoundNone
<1>3. ASSUME NEW q \in T, NEW b \in B PROVE Append(q, b) \in T
  <2>1. q \in Seq(Seq(S)) /\ b \in Seq(S) /\ Append(q, b) \in Seq(B)
    OBVIOUS
  <2>2. FlattenSeq(Append(q, b)) = FlattenSeq(q) \o b
    BY <2>1, FlattenAppend
  <2>3. Sound(FlattenSeq(q)) /\ Sound(b)
    OBVIOUS
  <2>4. Sound(FlattenSeq(q) \o b)
    BY <2>3, SoundBoth
  <2>5. QED
    BY <2>1, <2>2, <2>4
<1>4. T \subseteq Seq(B)
  OBVIOUS
<1> HIDE DEF T, B
<1>5. T = Seq(B)
  BY <1>2, <1>3, <1>4, SeqClosure
<1>6. w \in Seq(B)
  <2>1. w \in [1 .. n -> B] /\ n \in Nat
    BY <1>1 DEF SoundBlocks
  <2>2. QED
    BY <2>1, FunctionIsSeq
<1>7. QED
  BY <1>5, <1>6 DEF T

LEMMA SoundLink ==
  ASSUME NEW b, Sound(b), NEW skip
  PROVE  Sound(Link(b, skip))
<1> DEFINE c == Link(b, skip)
<1>1. /\ Len(b) \in Nat /\ DOMAIN b = 1 .. Len(b) /\ IsCode(b)
      /\ \A i \in 1 .. Len(b) : /\ DOMAIN b[i] = InstructionFields
                                /\ b[i].by \in Nat /\ b[i].by >= 1 /\ i + b[i].by <= Len(b) + 1
  BY CodeIsSequence DEF Sound
<1>2. \A i \in 1 .. Len(b) :
        c[i] = IF b[i].skip = skip THEN [b[i] EXCEPT !.by = Len(b) - i + 1] ELSE b[i]
  BY <1>1 DEF Link
<1>3. \A i \in 1 .. Len(b) : /\ DOMAIN c[i] = InstructionFields
                             /\ c[i].op = b[i].op /\ c[i].arg = b[i].arg
                             /\ c[i].by = b[i].by \/ c[i].by = Len(b) - i + 1
  BY <1>1, <1>2 DEF InstructionFields
<1>4. c \in [1 .. Len(b) -> {c[i] : i \in 1 .. Len(b)}]
  BY <1>1 DEF Link
<1>5. c \in Seq({c[i] : i \in 1 .. Len(b)}) /\ Len(c) = Len(b)
  BY <1>1, <1>4, FunctionIsSeq
<1> HIDE DEF c
<1>6. ASSUME NEW i \in 1 .. Len(b)
      PROVE  c[i].by \in Nat /\ c[i].by >= 1 /\ i + c[i].by <= Len(b) + 1
  <2>1. CASE c[i].by = b[i].by
    BY <1>1, <2>1
  <2>2. CASE c[i].by = Len(b) - i + 1
    BY <1>1, <2>2
  <2>3. QED
    BY <1>3, <2>1, <2>2
<1>7. IsCode(c)
  BY <1>1, <1>3, <1>5, <1>6, SequenceIsCode
<1>8. ASSUME NEW n \in 1 .. Len(c), c[n].op = "uri_set"
      PROVE  \E g \in 1 .. n - 1 : FreshFrom(c, g, n)
  <2>1. n \in 1 .. Len(b) /\ b[n].op = "uri_set"
    BY <1>3, <1>5, <1>8
  <2>2. PICK g \in 1 .. n - 1 : FreshFrom(b, g, n)
    BY <2>1 DEF Sound, Rereads
  <2>3. n + 1 <= Len(b) /\ g \in 1 .. Len(b) /\ n + 1 \in 1 .. Len(b) /\ g + 1 .. n - 1 \subseteq 1 .. Len(b)
    BY <1>1, <2>1, <2>2 DEF FreshFrom
  <2>4. ASSUME NEW j \in 1 .. Len(c), j + c[j].by \in g + 1 .. n PROVE j \in g .. n - 1
    <3>1. j \in 1 .. Len(b)
      BY <1>5
    <3>2. c[j].by # Len(b) - j + 1
      <4>1. SUFFICES ASSUME c[j].by = Len(b) - j + 1 PROVE FALSE
        OBVIOUS
      <4>2. j + c[j].by = Len(b) + 1
        BY <1>1, <3>1, <4>1
      <4>3. QED
        BY <1>1, <2>3, <2>4, <4>2
    <3>3. c[j].by = b[j].by
      BY <1>3, <3>1, <3>2
    <3>4. QED
      BY <2>2, <2>4, <3>1, <3>3 DEF FreshFrom
  <2>5. c[g].op = "get" /\ c[n + 1].op = "set" /\ c[g].arg = c[n + 1].arg
    BY <1>3, <2>2, <2>3 DEF FreshFrom
  <2>6. \A k \in g + 1 .. n - 1 : c[k].op \in {"uri_get", "match", "value"}
    BY <1>3, <2>2, <2>3 DEF FreshFrom
  <2>7. FreshFrom(c, g, n)
    BY <1>5, <2>2, <2>3, <2>4, <2>5, <2>6 DEF FreshFrom
  <2>8. QED
    BY <2>7
<1>9. QED
  BY <1>7, <1>8 DEF Sound, Rereads, c

-----------------------------------------------------------------------------
(* Emission *)

LEMMA CallsAreEmitted ==
  ASSUME NEW op, NEW arg, NEW skip, op # "uri_set"
  PROVE  Emitted(Call(op, arg)) /\ Emitted(Branch(op, arg, skip))
BY DEF Emitted, Call, Branch, InstructionFields

LEMMA SoundTwo ==
  ASSUME NEW x, NEW y, Emitted(x), Emitted(y)
  PROVE  Sound(<<x>>) /\ Sound(<<x, y>>)
<1>1. Sound(<<x>>) /\ Sound(<<y>>)
  BY SoundOne
<1>2. <<x>> \o <<y>> = <<x, y>>
  <2>1. /\ <<x>> \in Seq({x, y}) /\ <<y>> \in Seq({x, y}) /\ <<x, y>> \in Seq({x, y})
        /\ Len(<<x>>) = 1 /\ Len(<<y>>) = 1 /\ Len(<<x, y>>) = 2
        /\ <<x>>[1] = x /\ <<y>>[1] = y /\ <<x, y>>[1] = x /\ <<x, y>>[2] = y
    OBVIOUS
  <2> DEFINE c == <<x>> \o <<y>>
  <2>2. /\ c \in Seq({x, y}) /\ Len(c) = 2
        /\ \A k \in 1 .. 1 : c[k] = <<x>>[k]
        /\ \A k \in 1 + 1 .. 1 + 1 : c[k] = <<y>>[k - 1]
    BY <2>1, ConcatElements
  <2> HIDE DEF c
  <2>3. c[1] = x /\ c[2] = y
    BY <2>1, <2>2
  <2>4. \A k \in 1 .. 2 : k = 1 \/ k = 2
    OBVIOUS
  <2>5. c = <<x, y>>
    BY <2>1, <2>2, <2>3, <2>4, SameElements
  <2>6. QED
    BY <2>5 DEF c
<1>3. QED
  BY <1>1, <1>2, SoundBoth

LEMMA SoundIf ==
  ASSUME NEW condition, NEW b, Sound(b)
  PROVE  Sound(If(condition, b))
BY SoundNone DEF If

LEMMA SoundGuard ==
  ASSUME NEW cmp, NEW kind, NEW m, NEW reg, NEW skip
  PROVE  Sound(EmitMatchGuard(cmp, kind, m, reg, skip))
<1>1. Emitted(Branch("match", [cmp |-> cmp, kind |-> kind, match |-> m, reg |-> reg, regex |-> 0], skip))
  BY CallsAreEmitted
<1>2. QED
  BY <1>1, SoundOne, SoundIf DEF EmitMatchGuard

\* What precedes the rewrite of a header: its value is read, then examined.
Examines(a, h) ==
  /\ IsCode(a) /\ Len(a) >= 1
  /\ a[1].op = "get" /\ a[1].arg = h
  /\ \A k \in 2 .. Len(a) : a[k].op \in {"uri_get", "match"}

LEMMA SoundRewrite ==
  ASSUME NEW a, NEW h, Examines(a, h), NEW v, NEW t
  PROVE  Sound(a \o <<Call("value", v), Call("uri_set", t), Call("set", h)>>)
<1> DEFINE b == <<Call("value", v), Call("uri_set", t), Call("set", h)>>
           c == a \o b
           l == Len(a)
<1>1. b \in Seq({b[1], b[2], b[3]}) /\ Len(b) = 3
  OBVIOUS
<1>2. /\ b[1].op = "value" /\ b[2].op = "uri_set" /\ b[3].op = "set" /\ b[3].arg = h
      /\ \A i \in 1 .. 3 : DOMAIN b[i] = InstructionFields /\ b[i].by = 1
  <2>1. /\ DOMAIN Call("value", v) = InstructionFields /\ Call("value", v).by = 1
        /\ DOMAIN Call("uri_set", t) = InstructionFields /\ Call("uri_set", t).by = 1
        /\ DOMAIN Call("set", h) = InstructionFields /\ Call("set", h).by = 1
    BY DEF Call, InstructionFields
  <2>2. \A i \in 1 .. 3 : i = 1 \/ i = 2 \/ i = 3
    OBVIOUS
  <2>3. b[1] = Call("value", v) /\ b[2] = Call("uri_set", t) /\ b[3] = Call("set", h)
    OBVIOUS
  <2> HIDE DEF b
  <2>4. \A i \in 1 .. 3 : DOMAIN b[i] = InstructionFields /\ b[i].by = 1
    BY <2>1, <2>2, <2>3
  <2>5. QED
    BY <2>3, <2>4 DEF Call
<1> HIDE DEF b
<1>3. IsCode(b)
  <2>1. ASSUME NEW i \in 1 .. 3
        PROVE  /\ DOMAIN b[i] = InstructionFields
               /\ b[i].by \in Nat /\ b[i].by >= 1 /\ i + b[i].by <= 3 + 1
    <3>1. b[i].by = 1 /\ DOMAIN b[i] = InstructionFields
      BY <1>2
    <3>2. QED
      BY <3>1
  <2>2. QED
    BY <1>1, <2>1, SequenceIsCode
<1>4. /\ Len(c) = l + 3 /\ l \in Nat /\ l >= 1 /\ IsCode(c)
      /\ \A k \in 1 .. l : c[k] = a[k]
      /\ \A k \in 1 .. 3 : c[l + k] = b[k]
  <2>1. IsCode(a) /\ Len(a) >= 1
    BY DEF Examines
  <2>2. /\ Len(a \o b) = Len(a) + Len(b) /\ Len(a) \in Nat
        /\ \A k \in 1 .. Len(a) : (a \o b)[k] = a[k]
        /\ \A k \in 1 .. Len(b) : (a \o b)[Len(a) + k] = b[k]
        /\ IsCode(a \o b)
    BY <1>3, <2>1, Joined
  <2>3. QED
    BY <1>1, <2>1, <2>2
<1>5. c[l + 1] = b[1] /\ c[l + 2] = b[2] /\ c[l + 3] = b[3] /\ c[1] = a[1]
  BY <1>4
<1>6. \A j \in 1 .. Len(c) : c[j].by \in Nat /\ c[j].by >= 1
  BY <1>4, CodeIsSequence
<1> HIDE DEF c, l
<1>7. FreshFrom(c, 1, l + 2)
  <2>1. 1 \in 1 .. (l + 2) - 1 /\ (l + 2) + 1 = l + 3 /\ (l + 2) + 1 <= Len(c)
    BY <1>4
  <2>2. c[1].op = "get" /\ c[l + 3].op = "set" /\ c[1].arg = c[l + 3].arg
    BY <1>2, <1>5 DEF Examines
  <2>3. ASSUME NEW k \in 1 + 1 .. (l + 2) - 1 PROVE c[k].op \in {"uri_get", "match", "value"}
    <3>1. CASE k = l + 1
      BY <1>2, <1>5, <3>1
    <3>2. CASE k # l + 1
      <4>1. k \in 2 .. l /\ k \in 1 .. l
        BY <1>4, <3>2
      <4>2. QED
        BY <1>4, <4>1 DEF Examines, l
    <3>3. QED
      BY <3>1, <3>2
  <2>4. ASSUME NEW j \in 1 .. Len(c), j + c[j].by \in 1 + 1 .. l + 2 PROVE j \in 1 .. (l + 2) - 1
    BY <1>4, <1>6, <2>4
  <2>5. QED
    BY <2>1, <2>2, <2>3, <2>4 DEF FreshFrom
<1>8. ASSUME NEW n \in 1 .. Len(c), c[n].op = "uri_set" PROVE n = l + 2
  <2>1. CASE n \in 1 .. l
    <3>1. n = 1 \/ n \in 2 .. l
      BY <1>4, <2>1
    <3>2. c[n] = a[n]
      BY <1>4, <2>1
    <3>3. QED
      BY <1>8, <3>1, <3>2 DEF Examines, l
  <2>2. CASE n \notin 1 .. l
    <3>1. n = l + 1 \/ n = l + 2 \/ n = l + 3
      BY <1>4, <2>2
    <3>2. QED
      BY <1>2, <1>5, <1>8, <3>1
  <2>3. QED
    BY <2>1, <2>2
<1>9. Rereads(c)
  <2>1. 1 \in 1 .. (l + 2) - 1
    BY <1>4
  <2>2. QED
    BY <1>7, <1>8, <2>1 DEF Rereads
<1>10. QED
  BY <1>4, <1>9 DEF Sound, c, b

LEMMA SoundElementAction ==
  ASSUME NEW r, NEW e, ~(e.action = "replace" \/ (e.action = "delete" /\ e.type # "whole"))
  PROVE  Sound(EmitElementAction(r, e))
<1>1. CASE e.action = "delete"
  <2>1. Sound(<<Call("delete", r.header)>>)
    BY CallsAreEmitted, SoundTwo
  <2>2. QED
    BY <1>1, <2>1 DEF EmitElementAction
<1>2. CASE e.action = "store"
  <2>1. Sound(<<Call("store", [key |-> Key(ElementName(r, e), 0), reg |-> "element"])>>)
    BY CallsAreEmitted, SoundTwo
  <2>2. QED
    BY <1>2, <2>1 DEF EmitElementAction
<1>3. CASE e.action = "reject"
  <2>1. Sound(<<EmitReason(e), Call("reject", <<>>)>>)
    BY CallsAreEmitted, SoundTwo DEF EmitReason
  <2>2. QED
    BY <1>3, <2>1 DEF EmitElementAction
<1>4. CASE e.action \notin {"delete", "store", "reject"}
  <2>1. /\ e.action # "replace" /\ e.action # "delete" /\ e.action # "store"
        /\ e.action # "reject"
    BY <1>4
  <2>2. EmitElementAction(r, e) = <<>>
    BY <2>1 DEF EmitElementAction
  <2>3. QED
    BY <2>2, SoundNone
<1>5. QED
  BY <1>1, <1>2, <1>3, <1>4

LEMMA SoundElement == ASSUME NEW r, NEW e PROVE Sound(EmitElement(r, e))
<1> DEFINE reads == <<Call("get", r.header), Call("uri_get", e.type)>>
           guard == EmitMatchGuard(e.cmp, e.kind, e.match, "element", "element")
           a     == reads \o guard
<1>1. Sound(reads) /\ Sound(guard)
  BY CallsAreEmitted, SoundTwo, SoundGuard
<1>2. Examines(a, r.header)
  <2>1. /\ Len(reads) = 2 /\ reads[1].op = "get" /\ reads[1].arg = r.header /\ reads[2].op = "uri_get"
    BY DEF Call
  <2>2. Len(guard) \in Nat /\ \A k \in 1 .. Len(guard) : guard[k].op = "match"
    <3>1. CASE Unconditional(e.match)
      <4>1. guard = <<>>
        BY <3>1 DEF EmitMatchGuard, If
      <4>2. QED
        BY <4>1
    <3>2. CASE ~Unconditional(e.match)
      <4>1. PICK x : guard = <<x>> /\ x.op = "match"
        BY <3>2 DEF EmitMatchGuard, If, Branch
      <4>2. Len(guard) = 1 /\ guard[1] = x
        BY <4>1
      <4>3. QED
        BY <4>1, <4>2
    <3>3. QED
      BY <3>1, <3>2
  <2> HIDE DEF reads, guard
  <2>3. /\ IsCode(a) /\ Len(a) = 2 + Len(guard)
        /\ \A k \in 1 .. 2 : a[k] = reads[k]
        /\ \A k \in 1 .. Len(guard) : a[2 + k] = guard[k]
    <3>1. IsCode(reads) /\ IsCode(guard)
      BY <1>1 DEF Sound
    <3>2. /\ Len(reads \o guard) = Len(reads) + Len(guard)
          /\ \A k \in 1 .. Len(reads) : (reads \o guard)[k] = reads[k]
          /\ \A k \in 1 .. Len(guard) : (reads \o guard)[Len(reads) + k] = guard[k]
          /\ IsCode(reads \o guard)
      BY <3>1, Joined
    <3>3. QED
      BY <2>1, <3>2
  <2> HIDE DEF a
  <2>4. ASSUME NEW k \in 2 .. Len(a) PROVE a[k].op \in {"uri_get", "match"}
    <3>1. CASE k = 2
      BY <2>1, <2>3, <3>1
    <3>2. CASE k # 2
      <4> DEFINE i == k - 2
      <4>1. i \in 1 .. Len(guard) /\ k = 2 + i
        BY <2>2, <2>3, <3>2
      <4>2. a[k] = guard[i]
        BY <2>3, <4>1
      <4>3. QED
        BY <2>2, <4>1, <4>2
    <3>3. QED
      BY <3>1, <3>2
  <2>5. Len(a) >= 1 /\ a[1] = reads[1]
    BY <2>2, <2>3
  <2>6. QED
    BY <2>1, <2>3, <2>4, <2>5 DEF Examines
<1>3. Sound(a)
  BY <1>1, SoundBoth
<1>4. Sound(a \o EmitElementAction(r, e))
  <2> HIDE DEF a
  <2>1. CASE e.action = "replace"
    <3>1. EmitElementAction(r, e) = <<Call("value", e.new), Call("uri_set", e.type), Call("set", r.header)>>
      BY <2>1 DEF EmitElementAction
    <3>2. QED
      BY <1>2, <3>1, SoundRewrite
  <2>2. CASE e.action = "delete" /\ e.type # "whole"
    <3>1. EmitElementAction(r, e) = <<Call("value", <<>>), Call("uri_set", e.type), Call("set", r.header)>>
      BY <2>2 DEF EmitElementAction
    <3>2. QED
      BY <1>2, <3>1, SoundRewrite
  <2>3. CASE ~(e.action = "replace" \/ (e.action = "delete" /\ e.type # "whole"))
    BY <1>3, <2>3, SoundElementAction, SoundBoth
  <2>4. QED
    BY <2>1, <2>2, <2>3
<1>5. Sound(Link(a \o EmitElementAction(r, e), "element"))
  BY <1>4, SoundLink
<1>6. QED
  BY <1>5, SoundIf DEF EmitElement

LEMMA SoundStore ==
  ASSUME NEW r, NEW i, Groups(r.match.text) \in Nat
  PROVE  Sound(FlattenSeq([g \in 1..Groups(r.match.text) + 1 |->
                  <<Call("capture", g - 1),
                    Call("store", [key |-> Key(RuleName(r, i), g - 1), reg |-> "value"])>>]))
<1> DEFINE n == Groups(r.match.text) + 1
           w == [g \in 1 .. n |->
                   <<Call("capture", g - 1),
                     Call("store", [key |-> Key(RuleName(r, i), g - 1), reg |-> "value"])>>]
<1>1. n \in Nat
  OBVIOUS
<1>2. ASSUME NEW g \in 1 .. n PROVE Sound(w[g])
  <2>1. Sound(<<Call("capture", g - 1),
                Call("store", [key |-> Key(RuleName(r, i), g - 1), reg |-> "value"])>>)
    BY CallsAreEmitted, SoundTwo
  <2>2. QED
    BY <2>1
<1>3. w = [g \in 1 .. n |-> w[g]]
  OBVIOUS
<1> HIDE DEF w, n
<1>4. SoundBlocks(w, n)
  BY <1>1, <1>2, <1>3 DEF SoundBlocks
<1>5. Sound(FlattenSeq(w))
  BY <1>4, SoundFlatten
<1>6. QED
  BY <1>5 DEF w, n

LEMMA SoundHeaderAction ==
  ASSUME NEW r, NEW i, Groups(r.match.text) \in Nat
  PROVE  Sound(EmitHeaderAction(r, i))
<1>1. CASE r.action = "add"
  <2>1. Sound(<<Call("value", r.new), Call("add", r.header)>>)
    BY CallsAreEmitted, SoundTwo
  <2>2. QED
    BY <1>1, <2>1 DEF EmitHeaderAction, SetsHeader
<1>2. CASE SetsHeader(r)
  <2>1. Sound(<<Call("value", r.new), Call("set", r.header)>>)
    BY CallsAreEmitted, SoundTwo
  <2>2. r.action \notin {"add", "delete", "store", "log", "reject"}
    BY <1>2 DEF SetsHeader
  <2>3. EmitHeaderAction(r, i) = <<Call("value", r.new), Call("set", r.header)>>
    BY <1>2, <2>2 DEF EmitHeaderAction
  <2>4. QED
    BY <2>1, <2>3
<1>3. CASE r.action = "delete"
  <2>1. Sound(<<Call("delete", r.header)>>)
    BY CallsAreEmitted, SoundOne
  <2>2. QED
    BY <1>3, <2>1 DEF EmitHeaderAction, SetsHeader
<1>4. CASE r.action = "store"
  <2> DEFINE one == <<Call("store", [key |-> Key(RuleName(r, i), 0), reg |-> "header"])>>
             all == FlattenSeq([g \in 1..Groups(r.match.text) + 1 |->
                       <<Call("capture", g - 1),
                         Call("store", [key |-> Key(RuleName(r, i), g - 1), reg |-> "value"])>>])
  <2>1. Sound(one)
    BY CallsAreEmitted, SoundOne
  <2>2. Sound(all)
    BY SoundStore
  <2>3. EmitHeaderAction(r, i) = IF r.cmp = "pattern" THEN all ELSE one
    BY <1>4 DEF EmitHeaderAction, SetsHeader
  <2> HIDE DEF one, all
  <2>4. QED
    BY <2>1, <2>2, <2>3
<1>5. CASE r.action = "log"
  <2>1. Sound(<<EmitReason(r), Call("log", <<>>)>>)
    BY CallsAreEmitted, SoundTwo DEF EmitReason
  <2>2. QED
    BY <1>5, <2>1 DEF EmitHeaderAction, SetsHeader
<1>6. CASE r.action = "reject"
  <2>1. Sound(<<EmitReason(r), Call("reject", <<>>)>>)
    BY CallsAreEmitted, SoundTwo DEF EmitReason
  <2>2. QED
    BY <1>6, <2>1 DEF EmitHeaderAction, SetsHeader
<1>7. CASE r.action \notin {"add", "delete", "store", "log", "reject"} /\ ~SetsHeader(r)
  <2>1. EmitHeaderAction(r, i) = <<>>
    BY <1>7 DEF EmitHeaderAction
  <2>2. QED
    BY <2>1, SoundNone
<1>8. QED
  BY <1>1, <1>2, <1>3, <1>4, <1>5, <1>6, <1>7

LEMMA SoundElements ==
  ASSUME NEW r, IsRule(r)
  PROVE  Sound(FlattenSeq([j \in DOMAIN r.elements |-> EmitElement(r, r.elements[j])]))
<1> DEFINE n == Len(r.elements)
           w == [j \in DOMAIN r.elements |-> EmitElement(r, r.elements[j])]
<1>1. n \in Nat /\ DOMAIN r.elements = 1 .. n
  BY DEF IsRule
<1>2. ASSUME NEW j \in 1 .. n PROVE Sound(w[j])
  <2>1. Sound(EmitElement(r, r.elements[j]))
    BY SoundElement
  <2>2. QED
    BY <1>1, <2>1
<1>3. w = [j \in 1 .. n |-> w[j]]
  BY <1>1
<1> HIDE DEF w, n
<1>4. SoundBlocks(w, n)
  BY <1>1, <1>2, <1>3 DEF SoundBlocks
<1>5. Sound(FlattenSeq(w))
  BY <1>4, SoundFlatten
<1>6. QED
  BY <1>5 DEF w

LEMMA SoundHeaderRule ==
  ASSUME NEW r, NEW i, IsRule(r)
  PROVE  Sound(EmitHeaderRule(r, i))
<1> DEFINE a == If(r.msg # "any", <<Branch("is_request", r.msg = "request", "rule")>>)
           b == If(r.methods # <<>>, <<Branch("method", r.methods, "rule")>>)
           c == If(r.match # NoMatch \/ r.action = "store", <<Call("get", r.header)>>)
           d == EmitMatchGuard(r.cmp, "any", r.match, "header", "rule")
           e == EmitHeaderAction(r, i)
           f == If(r.action # "reject", FlattenSeq([j \in DOMAIN r.elements |->
                                                      EmitElement(r, r.elements[j])]))
<1>1. Sound(a) /\ Sound(b) /\ Sound(c)
  <2>1. /\ Sound(<<Branch("is_request", r.msg = "request", "rule")>>)
        /\ Sound(<<Branch("method", r.methods, "rule")>>)
        /\ Sound(<<Call("get", r.header)>>)
    BY CallsAreEmitted, SoundOne
  <2>2. QED
    BY <2>1, SoundIf
<1>2. Sound(d) /\ Sound(e)
  BY SoundGuard, SoundHeaderAction DEF IsRule
<1>3. Sound(f)
  BY SoundElements, SoundIf
<1>4. EmitHeaderRule(r, i) = Link(a \o b \o c \o d \o e \o f, "rule")
  BY DEF EmitHeaderRule
<1> HIDE DEF a, b, c, d, e, f
<1>5. Sound(a \o b)
  BY <1>1, SoundBoth
<1>6. Sound(a \o b \o c)
  BY <1>1, <1>5, SoundBoth
<1>7. Sound(a \o b \o c \o d)
  BY <1>2, <1>6, SoundBoth
<1>8. Sound(a \o b \o c \o d \o e)
  BY <1>2, <1>7, SoundBoth
<1>9. Sound(a \o b \o c \o d \o e \o f)
  BY <1>3, <1>8, SoundBoth
<1>10. QED
  BY <1>4, <1>9, SoundLink

-----------------------------------------------------------------------------
(* Numbering *)

LEMMA NumberedKeeps ==
  ASSUME NEW x, DOMAIN x = InstructionFields, NEW keys, NEW patterns
  PROVE  /\ DOMAIN Numbered(x, keys, patterns) = InstructionFields
         /\ Numbered(x, keys, patterns).op = x.op /\ Numbered(x, keys, patterns).by = x.by
         /\ x.op \in {"get", "set"} => Numbered(x, keys, patterns) = x
<1>1. CASE x.op = "store"
  BY <1>1 DEF Numbered, InstructionFields
<1>2. CASE x.op = "value"
  BY <1>2 DEF Numbered, InstructionFields
<1>3. CASE x.op = "match"
  <2>1. \E t : Numbered(x, keys, patterns) = [x EXCEPT !.arg = t]
    BY <1>3, Zenon DEF Numbered
  <2>2. QED
    BY <1>3, <2>1 DEF InstructionFields
<1>4. CASE x.op \notin {"store", "value", "match"}
  BY <1>4 DEF Numbered
<1>5. QED
  BY <1>1, <1>2, <1>3, <1>4

LEMMA SoundAssembled ==
  ASSUME NEW b, Sound(b), NEW keys, NEW patterns
  PROVE  Sound(Assemble(b, keys, patterns).code)
<1> DEFINE c == [i \in DOMAIN b |-> Numbered(b[i], keys, patterns)]
<1>1. /\ Len(b) \in Nat /\ DOMAIN b = 1 .. Len(b) /\ IsCode(b)
      /\ \A i \in 1 .. Len(b) : /\ DOMAIN b[i] = InstructionFields
                                /\ b[i].by \in Nat /\ b[i].by >= 1 /\ i + b[i].by <= Len(b) + 1
  BY CodeIsSequence DEF Sound
<1>2. ASSUME NEW i \in 1 .. Len(b)
      PROVE  /\ DOMAIN c[i] = InstructionFields /\ c[i].op = b[i].op /\ c[i].by = b[i].by
             /\ b[i].op \in {"get", "set"} => c[i] = b[i]
  <2>1. c[i] = Numbered(b[i], keys, patterns)
    BY <1>1
  <2>2. DOMAIN b[i] = InstructionFields
    BY <1>1
  <2> HIDE DEF c
  <2>3. QED
    BY <2>1, <2>2, NumberedKeeps
<1>3. c \in [1 .. Len(b) -> {c[i] : i \in 1 .. Len(b)}]
  BY <1>1
<1>4. c \in Seq({c[i] : i \in 1 .. Len(b)}) /\ Len(c) = Len(b)
  BY <1>1, <1>3, FunctionIsSeq
<1>5. Assemble(b, keys, patterns).code = c
  BY DEF Assemble
<1> HIDE DEF c
<1>6. IsCode(c)
  BY <1>1, <1>2, <1>4, SequenceIsCode
<1>7. ASSUME NEW n \in 1 .. Len(c), c[n].op = "uri_set"
      PROVE  \E g \in 1 .. n - 1 : FreshFrom(c, g, n)
  <2>1. n \in 1 .. Len(b) /\ b[n].op = "uri_set"
    BY <1>2, <1>4, <1>7
  <2>2. PICK g \in 1 .. n - 1 : FreshFrom(b, g, n)
    BY <2>1 DEF Sound, Rereads
  <2>3. n + 1 <= Len(b) /\ g \in 1 .. Len(b) /\ n + 1 \in 1 .. Len(b) /\ g + 1 .. n - 1 \subseteq 1 .. Len(b)
    BY <1>1, <2>1, <2>2 DEF FreshFrom
  <2>4. c[g] = b[g] /\ c[n + 1] = b[n + 1]
    BY <1>2, <2>2, <2>3 DEF FreshFrom
  <2>5. \A k \in g + 1 .. n - 1 : c[k].op \in {"uri_get", "match", "value"}
    BY <1>2, <2>2, <2>3 DEF FreshFrom
  <2>6. \A j \in 1 .. Len(c) : j + c[j].by \in g + 1 .. n => j \in g .. n - 1
    BY <1>2, <1>4, <2>2 DEF FreshFrom
  <2>7. FreshFrom(c, g, n)
    BY <1>4, <2>2, <2>4, <2>5, <2>6 DEF FreshFrom
  <2>8. QED
    BY <2>7
<1>8. QED
  BY <1>5, <1>6, <1>7 DEF Sound, Rereads

\* Every generated module is sound.
LEMMA SoundGenerated ==
  ASSUME NEW rs \in Rulesets
  PROVE  Sound(Generate(rs).code)
<1> DEFINE n == Len(rs)
           w == [i \in DOMAIN rs |-> EmitHeaderRule(rs[i], i)]
<1>1. /\ n \in Nat /\ DOMAIN rs = 1 .. n /\ \A i \in 1 .. n : rs[i] \in ToSet(rs)
      /\ \A r \in ToSet(rs) : IsRule(r)
  BY GeneratedCodeAssumption DEF IsRuleset, IsRule
<1>2. ASSUME NEW i \in 1 .. n PROVE Sound(w[i])
  <2>1. IsRule(rs[i])
    BY <1>1
  <2>2. Sound(EmitHeaderRule(rs[i], i))
    BY <2>1, SoundHeaderRule
  <2>3. QED
    BY <1>1, <2>2
<1>3. w = [i \in 1 .. n |-> w[i]]
  BY <1>1
<1>4. Generate(rs) = Linked(FlattenSeq(w))
  BY DEF Generate
<1> HIDE DEF w, n
<1>5. SoundBlocks(w, n)
  BY <1>1, <1>2, <1>3 DEF SoundBlocks
<1>6. Sound(FlattenSeq(w))
  BY <1>5, SoundFlatten
<1>7. \A b : \E keys, patterns : Linked(b) = Assemble(b, keys, patterns)
  BY DEF Linked
<1>8. QED
  BY <1>4, <1>6, <1>7, SoundAssembled

-----------------------------------------------------------------------------
(* Execution *)

Kept ==
  /\ Sound(module.code)
  /\ packet \in Packets /\ received \in 1 .. MaxPackets
  /\ pc \in 0 .. End
  /\ {"fields", "slots"} \subseteq DOMAIN state
  /\ DOMAIN state.slots = DOMAIN module.keys
  /\ DOMAIN regs = {"header", "element", "value"}

\* Between the reading of a header and its rewriting the value read is current.
ReadIsCurrent ==
  \A n \in 1 .. Len(module.code) : \A g \in 1 .. n - 1 :
    FreshFrom(module.code, g, n) /\ pc \in g + 1 .. n =>
      regs.header = Value(state.fields, module.code[n + 1].arg)

CodeInv == Kept /\ ReadIsCurrent

\* What an instruction other than the reject does.
Advances ==
  /\ pc \in 1 .. Len(module.code) /\ UNCHANGED <<rules, module, packet, received>>
  /\ pc' = pc + 1 \/ pc' = pc + module.code[pc].by
  /\ DOMAIN state' = DOMAIN state /\ DOMAIN state'.slots = DOMAIN state.slots
  /\ DOMAIN regs' = DOMAIN regs
  /\ module.code[pc].op = "get" =>
       regs'.header = Value(state.fields, module.code[pc].arg) /\ state'.fields = state.fields
  /\ module.code[pc].op \in {"uri_get", "match", "value"} =>
       regs'.header = regs.header /\ state'.fields = state.fields

LEMMA InstructionsAdvance ==
  ASSUME Kept,
         \/ IsRequest \/ Method \/ Match \/ RegexMatch
         \/ GetHeader \/ UriElement \/ BuildValue \/ GetCapture \/ UriSet
         \/ SetHeader \/ AddHeader \/ DeleteHeader \/ Store \/ Log
  PROVE  Advances
<1> USE DEF Fixed, At, Advances
<1>1. CASE IsRequest
  BY <1>1 DEF IsRequest, Branches
<1>2. CASE Method
  BY <1>2 DEF Method, Branches
<1>3. CASE Match
  BY <1>3 DEF Match, Branches
<1>4. CASE RegexMatch
  BY <1>4 DEF RegexMatch, Branches
<1>5. CASE GetHeader
  <2>1. /\ pc \in 1 .. Len(module.code) /\ module.code[pc].op = "get"
        /\ state' = state /\ pc' = pc + 1 /\ UNCHANGED <<rules, module, packet, received>>
        /\ regs' = [regs EXCEPT !.header = Value(state.fields, module.code[pc].arg)]
    BY <1>5 DEF GetHeader, Runs, Operand
  <2>2. "header" \in DOMAIN regs
    BY DEF Kept
  <2>3. DOMAIN regs' = DOMAIN regs /\ regs'.header = Value(state.fields, module.code[pc].arg)
    BY <2>1, <2>2
  <2>4. QED
    BY <2>1, <2>3
<1>6. CASE UriElement
  BY <1>6 DEF UriElement, Runs
<1>7. CASE BuildValue
  BY <1>7 DEF BuildValue, Runs
<1>8. CASE GetCapture
  BY <1>8 DEF GetCapture, Runs
<1>9. CASE UriSet
  BY <1>9 DEF UriSet, Runs
<1>10. CASE SetHeader
  BY <1>10 DEF SetHeader, Runs
<1>11. CASE AddHeader
  BY <1>11 DEF AddHeader, Runs
<1>12. CASE DeleteHeader
  BY <1>12 DEF DeleteHeader, Runs
<1>13. CASE Store
  BY <1>13 DEF Store, Runs, Kept
<1>14. CASE Log
  BY <1>14 DEF Log, Runs
<1>15. QED
  BY <1>1, <1>2, <1>3, <1>4, <1>5, <1>6, <1>7, <1>8, <1>9, <1>10, <1>11, <1>12, <1>13, <1>14

\* Every step goes on in the code, leaves it, or begins with a packet.
LEMMA StepsAdvance ==
  ASSUME Kept, Next
  PROVE  \/ Advances
         \/ UNCHANGED <<rules, module, packet, received>>
              /\ DOMAIN state' = DOMAIN state /\ DOMAIN state'.slots = DOMAIN state.slots
              /\ DOMAIN regs' = DOMAIN regs /\ pc' \in {0, End}
         \/ \E p \in Packets : Receive(p)
<1>1. CASE Reject
  BY <1>1 DEF Reject, Fixed
<1>2. CASE Return
  BY <1>2 DEF Return
<1>3. QED
  BY <1>1, <1>2, InstructionsAdvance DEF Next, Execute

\* Packet and context do not overlap.
LEMMA ContextDomain ==
  ASSUME NEW p \in Packets, NEW context, "slots" \in DOMAIN context
  PROVE  /\ {"fields", "slots"} \subseteq DOMAIN InContext(p, context)
         /\ InContext(p, context).slots = context.slots
<1>1. "slots" \notin DOMAIN p /\ "fields" \in DOMAIN p
  BY GeneratedCodeAssumption
<1>2. QED
  BY <1>1 DEF InContext

LEMMA InitCodeInv == Init => CodeInv
<1> SUFFICES ASSUME Init PROVE CodeInv
  OBVIOUS
<1>1. Sound(module.code)
  BY SoundGenerated DEF Init
<1>2. Len(module.code) \in Nat
  BY <1>1, CodeIsSequence DEF Sound
<1>3. 1 \in 1 .. MaxPackets /\ 1 \in 0 .. Len(module.code) + 1
  BY <1>2, GeneratedCodeAssumption
<1>4. "slots" \in DOMAIN Prepared(module) /\ DOMAIN Prepared(module).slots = DOMAIN module.keys
  BY DEF Prepared
<1>5. {"fields", "slots"} \subseteq DOMAIN state /\ DOMAIN state.slots = DOMAIN module.keys
  BY <1>4, ContextDomain DEF Init
<1>6. Kept
  BY <1>1, <1>3, <1>5 DEF Init, Kept, End, NoRegs
<1>7. pc = 1
  BY DEF Init
<1>8. ReadIsCurrent
  BY <1>2, <1>7 DEF ReadIsCurrent
<1>9. QED
  BY <1>6, <1>8 DEF CodeInv

LEMMA AdvanceKeepsCodeInv ==
  ASSUME CodeInv, Advances
  PROVE  CodeInv'
<1> DEFINE b == module.code
<1>1. /\ Sound(b) /\ IsCode(b) /\ Len(b) \in Nat /\ b' = b /\ pc \in 1 .. Len(b)
      /\ \A i \in 1 .. Len(b) : b[i].by \in Nat /\ b[i].by >= 1 /\ i + b[i].by <= Len(b) + 1
  BY CodeIsSequence DEF CodeInv, Kept, Sound, Advances
<1>2. pc' \in 0 .. Len(b) + 1
  <2>1. CASE pc' = pc + 1
    BY <1>1, <2>1
  <2>2. CASE pc' = pc + b[pc].by
    BY <1>1, <2>2
  <2>3. QED
    BY <2>1, <2>2 DEF Advances
<1>3. Kept'
  BY <1>1, <1>2 DEF CodeInv, Kept, Advances, End
<1>4. ASSUME NEW n \in 1 .. Len(b), NEW g \in 1 .. n - 1, FreshFrom(b, g, n), pc' \in g + 1 .. n
      PROVE  regs'.header = Value(state'.fields, b[n + 1].arg)
  <2>1. pc \in g .. n - 1
    <3>1. CASE pc' = pc + 1
      BY <1>1, <1>4, <3>1
    <3>2. CASE pc' = pc + b[pc].by
      BY <1>1, <1>4, <3>2 DEF FreshFrom
    <3>3. QED
      BY <3>1, <3>2 DEF Advances
  <2>2. CASE pc = g
    BY <1>4, <2>2 DEF FreshFrom, Advances
  <2>3. CASE pc # g
    <3>1. pc \in g + 1 .. n - 1 /\ pc \in g + 1 .. n
      BY <1>1, <2>1, <2>3
    <3>2. b[pc].op \in {"uri_get", "match", "value"}
      BY <1>4, <3>1 DEF FreshFrom
    <3>3. regs.header = Value(state.fields, b[n + 1].arg)
      BY <1>4, <3>1 DEF CodeInv, ReadIsCurrent
    <3>4. QED
      BY <3>2, <3>3 DEF Advances
  <2>4. QED
    BY <2>2, <2>3
<1>5. ReadIsCurrent'
  BY <1>1, <1>4 DEF ReadIsCurrent
<1>6. QED
  BY <1>3, <1>5 DEF CodeInv

LEMMA NextCodeInv ==
  ASSUME CodeInv, [Next]_vars
  PROVE  CodeInv'
<1>1. Kept /\ Len(module.code) \in Nat
  BY CodeIsSequence DEF CodeInv, Kept, Sound
<1>2. ASSUME Kept', module' = module, pc' \in {0, 1, End} PROVE CodeInv'
  <2>1. ASSUME NEW n \in 1 .. Len(module.code), NEW g \in 1 .. n - 1, FreshFrom(module.code, g, n)
        PROVE  pc' \notin g + 1 .. n
    <3>1. n + 1 <= Len(module.code)
      BY <2>1 DEF FreshFrom
    <3>2. QED
      BY <1>1, <1>2, <3>1 DEF End
  <2>2. ReadIsCurrent'
    BY <1>2, <2>1 DEF ReadIsCurrent
  <2>3. QED
    BY <1>2, <2>2 DEF CodeInv
<1>3. ASSUME NEW p \in Packets, Receive(p) PROVE CodeInv'
  <2>1. "slots" \in DOMAIN Reset(state) /\ Reset(state).slots = state.slots
    BY <1>1 DEF Reset, Kept
  <2>2. {"fields", "slots"} \subseteq DOMAIN state' /\ DOMAIN state'.slots = DOMAIN module.keys
    BY <1>1, <1>3, <2>1, ContextDomain DEF Receive, Kept
  <2>3. received' \in 1 .. MaxPackets /\ pc' = 1 /\ 1 \in 0 .. End
    BY <1>1, <1>3, GeneratedCodeAssumption DEF Receive, Kept, End
  <2>4. Kept'
    BY <1>1, <1>3, <2>2, <2>3 DEF Receive, Kept, NoRegs, End
  <2>5. QED
    BY <1>2, <1>3, <2>3, <2>4 DEF Receive
<1>4. ASSUME UNCHANGED <<rules, module, packet, received>>,
             DOMAIN state' = DOMAIN state, DOMAIN state'.slots = DOMAIN state.slots,
             DOMAIN regs' = DOMAIN regs, pc' \in {0, End}
      PROVE  CodeInv'
  <2>1. pc' \in 0 .. End
    BY <1>1, <1>4 DEF End
  <2>2. Kept'
    BY <1>1, <1>4, <2>1 DEF Kept, End
  <2>3. QED
    BY <1>2, <1>4, <2>2
<1>5. CASE UNCHANGED vars
  BY <1>5 DEF vars, CodeInv, Kept, ReadIsCurrent, End
<1>6. CASE Next
  BY <1>1, <1>3, <1>4, <1>6, StepsAdvance, AdvanceKeepsCodeInv
<1>7. QED
  BY <1>5, <1>6

LEMMA CodeInvHolds == Spec => []CodeInv
<1>1. CodeInv /\ [Next]_vars => CodeInv'
  BY NextCodeInv
<1>2. QED
  BY InitCodeInv, <1>1, PTL DEF Spec

-----------------------------------------------------------------------------
(* Rejecting *)

\* A worker that has rejected stands behind the last instruction.
RejectInv ==
  /\ Len(module.code) \in Nat
  /\ "verdict" \in DOMAIN state
  /\ pc # 0 /\ state.verdict # Accepted => pc = End

\* Packet and context do not overlap in the verdict.
LEMMA VerdictIsOfContext ==
  ASSUME NEW p \in Packets, NEW context, "verdict" \in DOMAIN context
  PROVE  /\ "verdict" \in DOMAIN InContext(p, context)
         /\ InContext(p, context).verdict = context.verdict
<1>1. "verdict" \notin DOMAIN p
  BY GeneratedCodeAssumption
<1>2. QED
  BY <1>1 DEF InContext

LEMMA InitRejectInv == Init => RejectInv
<1> SUFFICES ASSUME Init PROVE RejectInv
  OBVIOUS
<1>1. Len(module.code) \in Nat
  BY SoundGenerated, CodeIsSequence DEF Init, Sound
<1>2. "verdict" \in DOMAIN Prepared(module) /\ Prepared(module).verdict = Accepted
  BY DEF Prepared
<1>3. "verdict" \in DOMAIN state /\ state.verdict = Accepted
  BY <1>2, VerdictIsOfContext DEF Init
<1>4. QED
  BY <1>1, <1>3 DEF RejectInv

\* An instruction is met before the end, hence with the packet accepted so far.
LEMMA InstructionBeforeEnd ==
  ASSUME RejectInv, NEW op, At(op)
  PROVE  pc # End /\ pc # 0 /\ state.verdict = Accepted
BY DEF RejectInv, At, End

\* Every instruction but reject leaves the verdict alone.
LEMMA CallsKeepVerdict ==
  ASSUME RejectInv,
         \/ IsRequest \/ Method \/ Match \/ RegexMatch
         \/ GetHeader \/ UriElement \/ BuildValue \/ GetCapture \/ UriSet
         \/ SetHeader \/ AddHeader \/ DeleteHeader \/ Store \/ Log
  PROVE  /\ \E op : At(op)
         /\ state'.verdict = state.verdict /\ "verdict" \in DOMAIN state'
         /\ module' = module
<1> USE DEF RejectInv, Fixed
<1>1. CASE IsRequest \/ Method \/ Match \/ GetHeader \/ UriElement \/ BuildValue \/ GetCapture \/ UriSet
  BY <1>1 DEF IsRequest, Method, Match, GetHeader, UriElement, BuildValue, GetCapture, UriSet,
              Runs, Branches
<1>2. CASE RegexMatch
  BY <1>2 DEF RegexMatch, Branches
<1>3. CASE SetHeader
  BY <1>3 DEF SetHeader, Runs
<1>4. CASE AddHeader
  BY <1>4 DEF AddHeader, Runs
<1>5. CASE DeleteHeader
  BY <1>5 DEF DeleteHeader, Runs
<1>6. CASE Store
  BY <1>6 DEF Store, Runs
<1>7. CASE Log
  BY <1>7 DEF Log, Runs
<1>8. QED
  BY <1>1, <1>2, <1>3, <1>4, <1>5, <1>6, <1>7

LEMMA RejectKeepsRejectInv ==
  ASSUME RejectInv, Reject
  PROVE  RejectInv'
BY DEF Reject, RejectInv, Fixed, End

LEMMA NextRejectInv ==
  ASSUME RejectInv, [Next]_vars
  PROVE  RejectInv'
<1>1. CASE Reject
  BY <1>1, RejectKeepsRejectInv
<1>2. CASE Return
  BY <1>2 DEF Return, RejectInv
<1>3. CASE Execute /\ ~Reject /\ ~Return
  <2>1. state'.verdict = Accepted /\ "verdict" \in DOMAIN state' /\ module' = module
    BY <1>3, CallsKeepVerdict, InstructionBeforeEnd DEF Execute
  <2>2. QED
    BY <2>1 DEF RejectInv
<1>4. ASSUME NEW p \in Packets, Receive(p) PROVE RejectInv'
  <2>1. "verdict" \in DOMAIN Reset(state) /\ Reset(state).verdict = Accepted
    BY DEF Reset, RejectInv
  <2>2. "verdict" \in DOMAIN state' /\ state'.verdict = Accepted
    BY <1>4, <2>1, VerdictIsOfContext DEF Receive
  <2>3. QED
    BY <1>4, <2>2 DEF Receive, RejectInv
<1>5. CASE UNCHANGED vars
  BY <1>5 DEF vars, RejectInv, End
<1>6. QED
  BY <1>1, <1>2, <1>3, <1>4, <1>5 DEF Next

LEMMA RejectInvHolds == Spec => []RejectInv
<1>1. RejectInv /\ [Next]_vars => RejectInv'
  BY NextRejectInv
<1>2. QED
  BY InitRejectInv, <1>1, PTL DEF Spec

-----------------------------------------------------------------------------
(* The machine: a module takes one configuration to the next *)

Config(n, s, g) == [pc |-> n, state |-> s, regs |-> g]

Goes(x, s, g) == Config(x.pc + 1, s, g)
Jumps(m, x, holds, s) == Config(IF holds THEN x.pc + 1 ELSE x.pc + m.code[x.pc].by, s, x.regs)

\* What an instruction does of itself, and the whole step.
Does(m, x, op, arg, s, g) ==
  CASE op = "is_request" -> Jumps(m, x, s.request = arg, s)
    [] op = "method" -> Jumps(m, x, \E i \in DOMAIN arg : Fold(arg[i]) = Fold(s.method), s)
    [] op = "match" /\ arg.cmp # "pattern" ->
         Jumps(m, x, Matched(s, arg.cmp, arg.kind, arg.match, g[arg.reg]) # arg.match.negated, s)
    [] op = "match" /\ arg.cmp = "pattern" ->
         Jumps(m, x, (Captures(m.patterns[arg.regex], g[arg.reg]) # <<>>) # arg.match.negated,
               [s EXCEPT !.captures = Captures(m.patterns[arg.regex], g[arg.reg])])
    [] op = "get"     -> Goes(x, s, [g EXCEPT !.header = Value(s.fields, arg)])
    [] op = "uri_get" -> Goes(x, s, [g EXCEPT !.element = UriGet(g.header, arg)])
    [] op = "value"   -> Goes(x, s, [g EXCEPT !.value = ValueText(s, arg)])
    [] op = "capture" -> Goes(x, s, [g EXCEPT !.value = Capture(s, arg)])
    [] op = "uri_set" -> Goes(x, s, [g EXCEPT !.value = RebuildUri(g.header, arg, g.value)])
    [] op = "set"     -> Goes(x, [s EXCEPT !.fields = Put(@, arg, g.value)], g)
    [] op = "add"     -> Goes(x, [s EXCEPT !.fields = Added(@, arg, g.value)], g)
    [] op = "delete"  -> Goes(x, [s EXCEPT !.fields = Without(@, arg)], g)
    [] op = "store"   -> Goes(x, [s EXCEPT !.slots[arg.slot] = g[arg.reg]], g)
    [] op = "log"     -> Goes(x, [s EXCEPT !.logs = Append(@, g.value)], g)
    [] op = "reject"  -> Config(Len(m.code) + 1, [s EXCEPT !.verdict = <<g.value>>], g)

Step(m, x) ==
  IF x.pc \in 1 .. Len(m.code)
  THEN Does(m, x, m.code[x.pc].op, m.code[x.pc].arg, x.state, x.regs)
  ELSE x

\* The machine passes from x to y: y is in whatever holds x and is closed under steps.
Leads(m, x, y) == \A I : x \in I /\ (\A z \in I : Step(m, z) \in I) => y \in I

LEMMA LeadsNowhere == ASSUME NEW m, NEW x PROVE Leads(m, x, x)
BY DEF Leads

LEMMA LeadsOn ==
  ASSUME NEW m, NEW x, NEW y, NEW z, Leads(m, x, y), Leads(m, y, z)
  PROVE  Leads(m, x, z)
BY DEF Leads

LEMMA LeadsByStep ==
  ASSUME NEW m, NEW x PROVE Leads(m, x, Step(m, x))
BY DEF Leads

\* What is left of a run after a step, unless it has arrived.
LEMMA LeadsFromNext ==
  ASSUME NEW m, NEW x, NEW y, Leads(m, x, y), x # y
  PROVE  Leads(m, Step(m, x), y)
<1> SUFFICES ASSUME NEW I, Step(m, x) \in I, \A z \in I : Step(m, z) \in I PROVE y \in I
  BY DEF Leads
<1> DEFINE J == I \cup {x}
<1>1. x \in J /\ \A z \in J : Step(m, z) \in J
  OBVIOUS
<1> HIDE DEF J
<1>2. y \in J
  BY <1>1 DEF Leads
<1>3. QED
  BY <1>2 DEF J

\* A configuration without a step leads to itself only.
LEMMA LeadsWhereItIs ==
  ASSUME NEW m, NEW x, NEW y, Leads(m, x, y), Step(m, x) = x
  PROVE  y = x
<1>1. x \in {x} /\ \A z \in {x} : Step(m, z) \in {x}
  OBVIOUS
<1>2. y \in {x}
  BY <1>1 DEF Leads
<1>3. QED
  BY <1>2

-----------------------------------------------------------------------------
(* Where the blocks of the emitted code lie in the module *)

\* Instruction n of the module is x, its keys and its pattern numbered in tables
\* that are not empty.
Is(m, n, x) ==
  /\ n \in 1 .. Len(m.code) /\ Len(m.code) \in Nat /\ DOMAIN x = InstructionFields
  /\ m.code[n].op = x.op /\ m.code[n].arg = Numbered(x, m.keys, m.patterns).arg
  /\ KeysOf(x) # <<>> => DOMAIN m.keys # {}
  /\ PatternsOf(x) # <<>> => m.patterns # <<>>

\* Block b lies behind the first o instructions; its branches out of the part
\* that skip names lead to instruction "to".
Lies(m, o, b, skip, to) ==
  /\ o \in Nat /\ IsCode(b)
  /\ \A k \in 1 .. Len(b) :
       /\ Is(m, o + k, b[k])
       /\ b[k].skip = skip => o + k + m.code[o + k].by = to
       /\ skip = "rule" /\ b[k].skip = "element" => m.code[o + k].by = b[k].by

LEMMA LiesBoth ==
  ASSUME NEW m, NEW o, NEW a, NEW b, NEW skip, NEW to, IsCode(a), IsCode(b),
         Lies(m, o, a \o b, skip, to)
  PROVE  /\ Lies(m, o, a, skip, to) /\ Lies(m, o + Len(a), b, skip, to)
         /\ Len(a) \in Nat /\ Len(b) \in Nat /\ Len(a \o b) = Len(a) + Len(b)
<1> DEFINE c == a \o b
<1>1. /\ Len(c) = Len(a) + Len(b) /\ Len(a) \in Nat /\ Len(b) \in Nat
      /\ \A k \in 1 .. Len(a) : c[k] = a[k]
      /\ \A k \in 1 .. Len(b) : c[Len(a) + k] = b[k]
  BY Joined
<1>2. Lies(m, o, c, skip, to)
  OBVIOUS
<1> HIDE DEF c
<1>3. ASSUME NEW k \in 1 .. Len(a)
      PROVE  /\ Is(m, o + k, a[k])
             /\ a[k].skip = skip => o + k + m.code[o + k].by = to
             /\ skip = "rule" /\ a[k].skip = "element" => m.code[o + k].by = a[k].by
  <2>1. k \in 1 .. Len(c) /\ c[k] = a[k]
    BY <1>1
  <2>2. QED
    BY <1>2, <2>1 DEF Lies
<1>4. ASSUME NEW k \in 1 .. Len(b)
      PROVE  /\ Is(m, o + Len(a) + k, b[k])
             /\ b[k].skip = skip => o + Len(a) + k + m.code[o + Len(a) + k].by = to
             /\ skip = "rule" /\ b[k].skip = "element" => m.code[o + Len(a) + k].by = b[k].by
  <2>1. Len(a) + k \in 1 .. Len(c) /\ c[Len(a) + k] = b[k]
    BY <1>1
  <2>2. o \in Nat /\ o + (Len(a) + k) = o + Len(a) + k
    BY <1>1, <1>2 DEF Lies
  <2>3. QED
    BY <1>2, <2>1, <2>2 DEF Lies
<1>5. o \in Nat /\ o + Len(a) \in Nat
  BY <1>1, <1>2 DEF Lies
<1>6. QED
  BY <1>1, <1>3, <1>4, <1>5 DEF Lies, c

LEMMA NumberedByOperand ==
  ASSUME NEW x, NEW y, DOMAIN x = InstructionFields, DOMAIN y = InstructionFields,
         x.op = y.op, x.arg = y.arg, NEW keys, NEW patterns
  PROVE  Numbered(x, keys, patterns).arg = Numbered(y, keys, patterns).arg
<1>1. CASE x.op = "store"
  BY <1>1 DEF Numbered, InstructionFields
<1>2. CASE x.op = "value"
  BY <1>2 DEF Numbered, InstructionFields
<1>3. CASE x.op = "match"
  BY <1>3 DEF Numbered, InstructionFields
<1>4. CASE x.op \notin {"store", "value", "match"}
  BY <1>4 DEF Numbered
<1>5. QED
  BY <1>1, <1>2, <1>3, <1>4

\* An instruction whose branch has been linked.
LEMMA IsLinked ==
  ASSUME NEW m, NEW n, NEW x, NEW y, Is(m, n, x), DOMAIN y = InstructionFields,
         x.op = y.op, x.arg = y.arg
  PROVE  Is(m, n, y)
<1>1. KeysOf(x) = KeysOf(y) /\ PatternsOf(x) = PatternsOf(y)
  BY DEF KeysOf, PatternsOf
<1>2. DOMAIN x = InstructionFields
  BY DEF Is
<1>3. Numbered(x, m.keys, m.patterns).arg = Numbered(y, m.keys, m.patterns).arg
  BY <1>2, NumberedByOperand
<1>4. QED
  BY <1>1, <1>3 DEF Is

LEMMA LinkKeeps ==
  ASSUME NEW b, IsCode(b), NEW skip
  PROVE  /\ Len(Link(b, skip)) = Len(b) /\ Len(b) \in Nat
         /\ \A k \in 1 .. Len(b) :
              /\ Link(b, skip)[k].op = b[k].op /\ Link(b, skip)[k].arg = b[k].arg
              /\ Link(b, skip)[k].skip = b[k].skip
              /\ Link(b, skip)[k].by = IF b[k].skip = skip THEN Len(b) - k + 1 ELSE b[k].by
              /\ DOMAIN b[k] = InstructionFields
<1> DEFINE c == Link(b, skip)
<1>1. /\ Len(b) \in Nat /\ DOMAIN b = 1 .. Len(b)
      /\ \A i \in 1 .. Len(b) : DOMAIN b[i] = InstructionFields
  BY CodeIsSequence
<1>2. \A i \in 1 .. Len(b) :
        c[i] = IF b[i].skip = skip THEN [b[i] EXCEPT !.by = Len(b) - i + 1] ELSE b[i]
  BY <1>1 DEF Link
<1>3. c \in [1 .. Len(b) -> {c[i] : i \in 1 .. Len(b)}]
  BY <1>1 DEF Link
<1>4. Len(c) = Len(b)
  BY <1>1, <1>3, FunctionIsSeq
<1> HIDE DEF c
<1>5. ASSUME NEW k \in 1 .. Len(b)
      PROVE  /\ c[k].op = b[k].op /\ c[k].arg = b[k].arg /\ c[k].skip = b[k].skip
             /\ c[k].by = IF b[k].skip = skip THEN Len(b) - k + 1 ELSE b[k].by
  BY <1>1, <1>2 DEF InstructionFields
<1>6. QED
  BY <1>1, <1>4, <1>5 DEF c

\* The block of an element rule, as it was before its branches were linked.
LEMMA LiesElement ==
  ASSUME NEW m, NEW o, NEW b, NEW to, IsCode(b), Lies(m, o, Link(b, "element"), "rule", to)
  PROVE  Lies(m, o, b, "element", o + Len(b) + 1)
<1>1. o \in Nat /\ Len(b) \in Nat
  BY LinkKeeps DEF Lies
<1>2. ASSUME NEW k \in 1 .. Len(b)
      PROVE  /\ Is(m, o + k, b[k])
             /\ b[k].skip = "element" => o + k + m.code[o + k].by = o + Len(b) + 1
  <2> DEFINE x == Link(b, "element")[k]
  <2>1. /\ k \in 1 .. Len(Link(b, "element"))
        /\ x.op = b[k].op /\ x.arg = b[k].arg /\ x.skip = b[k].skip /\ DOMAIN b[k] = InstructionFields
        /\ b[k].skip = "element" => x.by = Len(b) - k + 1
    BY LinkKeeps
  <2>2. Is(m, o + k, x) /\ (x.skip = "element" => m.code[o + k].by = x.by)
    BY <2>1 DEF Lies
  <2> HIDE DEF x
  <2>3. Is(m, o + k, b[k])
    BY <2>1, <2>2, IsLinked
  <2>4. ASSUME b[k].skip = "element" PROVE o + k + m.code[o + k].by = o + Len(b) + 1
    <3>1. m.code[o + k].by = Len(b) - k + 1
      BY <2>1, <2>2, <2>4
    <3>2. QED
      BY <1>1, <3>1
  <2>5. QED
    BY <2>3, <2>4
<1>3. QED
  BY <1>1, <1>2 DEF Lies

\* Raw code from instruction o + 1 on is the block b.
Begins(m, o, b) ==
  /\ o \in Nat /\ IsCode(b)
  /\ \A k \in 1 .. Len(b) : Is(m, o + k, b[k]) /\ m.code[o + k].by = b[k].by

LEMMA LiesRule ==
  ASSUME NEW m, NEW o, NEW b, IsCode(b), Begins(m, o, Link(b, "rule"))
  PROVE  Lies(m, o, b, "rule", o + Len(b) + 1)
<1>1. o \in Nat /\ Len(b) \in Nat
  BY LinkKeeps DEF Begins
<1>2. ASSUME NEW k \in 1 .. Len(b)
      PROVE  /\ Is(m, o + k, b[k])
             /\ b[k].skip = "rule" => o + k + m.code[o + k].by = o + Len(b) + 1
             /\ b[k].skip = "element" => m.code[o + k].by = b[k].by
  <2> DEFINE x == Link(b, "rule")[k]
  <2>1. /\ k \in 1 .. Len(Link(b, "rule"))
        /\ x.op = b[k].op /\ x.arg = b[k].arg /\ DOMAIN b[k] = InstructionFields
        /\ x.by = IF b[k].skip = "rule" THEN Len(b) - k + 1 ELSE b[k].by
    BY LinkKeeps
  <2>2. Is(m, o + k, x) /\ m.code[o + k].by = x.by
    BY <2>1 DEF Begins
  <2> HIDE DEF x
  <2>3. Is(m, o + k, b[k])
    BY <2>1, <2>2, IsLinked
  <2>4. ASSUME b[k].skip = "rule" PROVE o + k + m.code[o + k].by = o + Len(b) + 1
    <3>1. m.code[o + k].by = Len(b) - k + 1
      BY <2>1, <2>2, <2>4
    <3>2. QED
      BY <1>1, <3>1
  <2>5. b[k].skip = "element" => m.code[o + k].by = b[k].by
    BY <2>1, <2>2
  <2>6. QED
    BY <2>3, <2>4, <2>5
<1>3. QED
  BY <1>1, <1>2 DEF Lies

LEMMA PiecesOfBlocks ==
  ASSUME NEW w, NEW n, SoundBlocks(w, n)
  PROVE  /\ Len(w) = n /\ n \in Nat /\ PieceStart(w, 1) = 0
         /\ PieceStart(w, n + 1) = Len(FlattenSeq(w)) /\ IsCode(FlattenSeq(w))
         /\ \A i \in 1 .. n :
              /\ IsCode(w[i]) /\ PieceStart(w, i) \in Nat /\ Len(w[i]) \in Nat
              /\ PieceStart(w, i + 1) = PieceStart(w, i) + Len(w[i])
              /\ PieceStart(w, i) + Len(w[i]) <= Len(FlattenSeq(w))
              /\ \A k \in 1 .. Len(w[i]) : FlattenSeq(w)[PieceStart(w, i) + k] = w[i][k]
<1> DEFINE S == UNION {ToSet(w[i]) : i \in 1 .. n}
<1>1. ASSUME NEW i \in 1 .. n PROVE w[i] \in Seq(S)
  <2>1. IsCode(w[i])
    BY DEF SoundBlocks, Sound
  <2>2. w[i] \in [1 .. Len(w[i]) -> ToSet(w[i])] /\ Len(w[i]) \in Nat
    BY <2>1, CodeIsSequence
  <2>3. ToSet(w[i]) \subseteq S
    OBVIOUS
  <2> HIDE DEF S
  <2>4. w[i] \in [1 .. Len(w[i]) -> S]
    BY <2>2, <2>3
  <2>5. QED
    BY <2>2, <2>4, FunctionIsSeq
<1> HIDE DEF S
<1>2. w \in Seq(Seq(S)) /\ Len(w) = n /\ n \in Nat
  <2>1. w \in [1 .. n -> Seq(S)] /\ n \in Nat
    BY <1>1 DEF SoundBlocks
  <2>2. QED
    BY <2>1, FunctionIsSeq
<1>3. PieceStart(w, 1) = 0 /\ PieceStart(w, n + 1) = Len(FlattenSeq(w))
  BY <1>2, StartAndEnd
<1>4. IsCode(FlattenSeq(w))
  BY SoundFlatten DEF Sound
<1>5. ASSUME NEW i \in 1 .. n
      PROVE  /\ IsCode(w[i]) /\ PieceStart(w, i) \in Nat /\ Len(w[i]) \in Nat
             /\ PieceStart(w, i + 1) = PieceStart(w, i) + Len(w[i])
             /\ PieceStart(w, i) + Len(w[i]) <= Len(FlattenSeq(w))
             /\ \A k \in 1 .. Len(w[i]) : FlattenSeq(w)[PieceStart(w, i) + k] = w[i][k]
  <2>1. IsCode(w[i])
    BY DEF SoundBlocks, Sound
  <2>2. i \in 1 .. Len(w)
    BY <1>2
  <2>3. QED
    BY <1>2, <2>1, <2>2, PieceAt
<1>6. QED
  BY <1>2, <1>3, <1>4, <1>5

LEMMA LiesPiece ==
  ASSUME NEW m, NEW o, NEW w, NEW n, SoundBlocks(w, n), NEW skip, NEW to,
         Lies(m, o, FlattenSeq(w), skip, to), NEW i \in 1 .. n
  PROVE  Lies(m, o + PieceStart(w, i), w[i], skip, to)
<1> DEFINE p == PieceStart(w, i)
           c == FlattenSeq(w)
<1>1. /\ IsCode(w[i]) /\ p \in Nat /\ Len(w[i]) \in Nat /\ p + Len(w[i]) <= Len(c) /\ Len(c) \in Nat
      /\ \A k \in 1 .. Len(w[i]) : c[p + k] = w[i][k]
  BY PiecesOfBlocks, CodeIsSequence
<1>2. Lies(m, o, c, skip, to)
  OBVIOUS
<1> HIDE DEF p, c
<1>3. ASSUME NEW k \in 1 .. Len(w[i])
      PROVE  /\ Is(m, o + p + k, w[i][k])
             /\ w[i][k].skip = skip => o + p + k + m.code[o + p + k].by = to
             /\ skip = "rule" /\ w[i][k].skip = "element" => m.code[o + p + k].by = w[i][k].by
  <2>1. p + k \in 1 .. Len(c) /\ c[p + k] = w[i][k]
    BY <1>1
  <2>2. o \in Nat /\ o + (p + k) = o + p + k
    BY <1>1, <1>2 DEF Lies
  <2>3. QED
    BY <1>2, <2>1, <2>2 DEF Lies
<1>4. o + p \in Nat
  BY <1>1, <1>2 DEF Lies
<1>5. QED
  BY <1>1, <1>3, <1>4 DEF Lies, p

\* A state that belongs to the module and has not been rejected.
Open(m, s) ==
  /\ StateParts \subseteq DOMAIN s /\ s.keys = m.keys /\ s.patterns = m.patterns
  /\ DOMAIN s.slots = DOMAIN m.keys /\ s.request \in BOOLEAN /\ s.verdict = Accepted

IsRegs(g) == DOMAIN g = {"header", "element", "value"}

LEMMA InstructionRuns ==
  ASSUME NEW m, NEW n, NEW x, Is(m, n, x), NEW s, NEW g
  PROVE  /\ Leads(m, Config(n, s, g),
                     Does(m, Config(n, s, g), x.op, Numbered(x, m.keys, m.patterns).arg, s, g))
         /\ x.op \notin {"store", "value", "match"} =>
              Leads(m, Config(n, s, g), Does(m, Config(n, s, g), x.op, x.arg, s, g))
<1>1. /\ Config(n, s, g).pc = n /\ Config(n, s, g).state = s /\ Config(n, s, g).regs = g
  BY DEF Config
<1>2. Step(m, Config(n, s, g))
        = Does(m, Config(n, s, g), x.op, Numbered(x, m.keys, m.patterns).arg, s, g)
  BY <1>1 DEF Step, Is
<1>3. x.op \notin {"store", "value", "match"} => Numbered(x, m.keys, m.patterns).arg = x.arg
  BY DEF Numbered
<1>4. QED
  BY <1>2, <1>3, LeadsByStep

LEMMA TestsRun ==
  ASSUME NEW m, NEW n, NEW x, Is(m, n, x), NEW s, NEW g
  PROVE  /\ x.op = "is_request" =>
              Leads(m, Config(n, s, g),
                    Config(IF s.request = x.arg THEN n + 1 ELSE n + m.code[n].by, s, g))
         /\ x.op = "method" =>
              Leads(m, Config(n, s, g),
                    Config(IF \E i \in DOMAIN x.arg : Fold(x.arg[i]) = Fold(s.method)
                           THEN n + 1 ELSE n + m.code[n].by, s, g))
<1>1. Config(n, s, g).pc = n /\ Config(n, s, g).regs = g
  BY DEF Config
<1>2. CASE x.op = "is_request"
  <2>1. Does(m, Config(n, s, g), x.op, x.arg, s, g)
          = Config(IF s.request = x.arg THEN n + 1 ELSE n + m.code[n].by, s, g)
    BY <1>1, <1>2 DEF Does, Jumps
  <2>2. QED
    BY <1>2, <2>1, InstructionRuns
<1>3. CASE x.op = "method"
  <2>1. Does(m, Config(n, s, g), x.op, x.arg, s, g)
          = Config(IF \E i \in DOMAIN x.arg : Fold(x.arg[i]) = Fold(s.method)
                   THEN n + 1 ELSE n + m.code[n].by, s, g)
    BY <1>1, <1>3 DEF Does, Jumps
  <2>2. QED
    BY <1>3, <2>1, InstructionRuns
<1>4. QED
  BY <1>2, <1>3

LEMMA ReadsRun ==
  ASSUME NEW m, NEW n, NEW x, Is(m, n, x), NEW s, NEW g
  PROVE  /\ x.op = "get" => Leads(m, Config(n, s, g),
                                  Config(n + 1, s, [g EXCEPT !.header = Value(s.fields, x.arg)]))
         /\ x.op = "uri_get" => Leads(m, Config(n, s, g),
                                      Config(n + 1, s, [g EXCEPT !.element = UriGet(g.header, x.arg)]))
         /\ x.op = "capture" => Leads(m, Config(n, s, g),
                                      Config(n + 1, s, [g EXCEPT !.value = Capture(s, x.arg)]))
         /\ x.op = "uri_set" => Leads(m, Config(n, s, g),
               Config(n + 1, s, [g EXCEPT !.value = RebuildUri(g.header, x.arg, g.value)]))
<1>1. Config(n, s, g).pc = n
  BY DEF Config
<1> DEFINE d == Does(m, Config(n, s, g), x.op, x.arg, s, g)
<1>2. /\ x.op = "get" => d = Config(n + 1, s, [g EXCEPT !.header = Value(s.fields, x.arg)])
      /\ x.op = "uri_get" => d = Config(n + 1, s, [g EXCEPT !.element = UriGet(g.header, x.arg)])
  BY <1>1 DEF Does, Goes
<1>3. /\ x.op = "capture" => d = Config(n + 1, s, [g EXCEPT !.value = Capture(s, x.arg)])
      /\ x.op = "uri_set" => d = Config(n + 1, s, [g EXCEPT !.value = RebuildUri(g.header, x.arg, g.value)])
  BY <1>1 DEF Does, Goes
<1>4. x.op \in {"get", "uri_get", "capture", "uri_set"} => Leads(m, Config(n, s, g), d)
  BY InstructionRuns
<1> HIDE DEF d
<1>5. QED
  BY <1>2, <1>3, <1>4

LEMMA EditsRun ==
  ASSUME NEW m, NEW n, NEW x, Is(m, n, x), NEW s, NEW g
  PROVE  /\ x.op = "set" => Leads(m, Config(n, s, g),
                   Config(n + 1, [s EXCEPT !.fields = Put(s.fields, x.arg, g.value)], g))
         /\ x.op = "add" => Leads(m, Config(n, s, g),
                   Config(n + 1, [s EXCEPT !.fields = Added(s.fields, x.arg, g.value)], g))
         /\ x.op = "delete" => Leads(m, Config(n, s, g),
                   Config(n + 1, [s EXCEPT !.fields = Without(s.fields, x.arg)], g))
         /\ x.op = "log" => Leads(m, Config(n, s, g),
                   Config(n + 1, [s EXCEPT !.logs = Append(s.logs, g.value)], g))
         /\ x.op = "reject" => Leads(m, Config(n, s, g),
                   Config(Len(m.code) + 1, [s EXCEPT !.verdict = <<g.value>>], g))
<1>1. Config(n, s, g).pc = n
  BY DEF Config
<1> DEFINE d == Does(m, Config(n, s, g), x.op, x.arg, s, g)
<1>2. x.op = "set" => d = Config(n + 1, [s EXCEPT !.fields = Put(s.fields, x.arg, g.value)], g)
  BY <1>1 DEF Does, Goes
<1>3. x.op = "add" => d = Config(n + 1, [s EXCEPT !.fields = Added(s.fields, x.arg, g.value)], g)
  BY <1>1 DEF Does, Goes
<1>4. x.op = "delete" => d = Config(n + 1, [s EXCEPT !.fields = Without(s.fields, x.arg)], g)
  BY <1>1 DEF Does, Goes
<1>5. x.op = "log" => d = Config(n + 1, [s EXCEPT !.logs = Append(s.logs, g.value)], g)
  BY <1>1 DEF Does, Goes
<1>6. x.op = "reject" => d = Config(Len(m.code) + 1, [s EXCEPT !.verdict = <<g.value>>], g)
  BY <1>1 DEF Does, Goes
<1>7. x.op \in {"set", "add", "delete", "log", "reject"} => Leads(m, Config(n, s, g), d)
  BY InstructionRuns
<1> HIDE DEF d
<1>8. QED
  BY <1>2, <1>3, <1>4, <1>5, <1>6, <1>7

LEMMA StoreRuns ==
  ASSUME NEW m, NEW n, NEW k, NEW reg, Is(m, n, Call("store", [key |-> k, reg |-> reg])),
         NEW s, Open(m, s), NEW g
  PROVE  Leads(m, Config(n, s, g), Config(n + 1, StoreSlot(s, k, g[reg]), g))
<1> DEFINE x == Call("store", [key |-> k, reg |-> reg])
           arg == Numbered(x, m.keys, m.patterns).arg
<1>1. Config(n, s, g).pc = n
  BY DEF Config
<1>2. x.op = "store" /\ x.arg.key = k /\ x.arg.reg = reg /\ "arg" \in DOMAIN x
  BY DEF Call
<1>3. arg.slot = Number(m.keys, k) /\ arg.reg = reg
  <2> HIDE DEF x
  <2>1. QED
    BY <1>2 DEF Numbered
<1>4. s.slots # <<>>
  <2>1. KeysOf(x) = <<k>> /\ <<k>> # <<>>
    BY <1>2 DEF KeysOf
  <2>2. DOMAIN m.keys # {}
    <3>1. Is(m, n, x)
      OBVIOUS
    <3> HIDE DEF x
    <3>2. QED
      BY <2>1, <3>1 DEF Is
  <2>3. DOMAIN <<>> = {}
    OBVIOUS
  <2>4. QED
    BY <2>2, <2>3 DEF Open
<1>5. Leads(m, Config(n, s, g), Does(m, Config(n, s, g), "store", arg, s, g))
  BY <1>2, InstructionRuns
<1> HIDE DEF arg, x
<1>6. Does(m, Config(n, s, g), "store", arg, s, g)
        = Config(n + 1, [s EXCEPT !.slots[arg.slot] = g[arg.reg]], g)
  BY <1>1 DEF Does, Goes
<1>7. StoreSlot(s, k, g[reg]) = [s EXCEPT !.slots[Number(m.keys, k)] = g[reg]]
  BY <1>4 DEF StoreSlot, Open
<1>8. QED
  BY <1>3, <1>5, <1>6, <1>7

\* A value whose slots are numbered says what it said by name.
LEMMA ValueIsEval ==
  ASSUME NEW m, NEW s, Open(m, s), NEW v, IsValue(v), SlotKeys(v) # <<>> => DOMAIN m.keys # {}
  PROVE  ValueText(s, NumberedValue(v, m.keys)) = Eval(s, v)
<1> DEFINE u == NumberedValue(v, m.keys)
<1>1. v \in Seq(ToSet(v)) /\ Len(v) \in Nat /\ DOMAIN v = 1 .. Len(v)
  BY DEF IsValue
<1>2. DOMAIN u = DOMAIN v
  BY DEF NumberedValue
<1>3. ASSUME NEW i \in DOMAIN v
      PROVE  (IF u[i].kind = "number" THEN s.slots[u[i].number] ELSE SegmentText(s, u[i]))
               = SegmentText(s, v[i])
  <2>1. v[i].kind \in {"text", "variable", "capture", "slot"}
    BY <1>1 DEF IsValue
  <2>2. CASE v[i].kind # "slot"
    BY <2>1, <2>2 DEF NumberedValue
  <2>3. CASE v[i].kind = "slot"
    <3> DEFINE k == Key(v[i].path[1], v[i].index)
    <3>1. u[i].kind = "number" /\ u[i].number = Number(m.keys, k)
      BY <2>3 DEF NumberedValue
    <3>2. SlotKeys(v) # <<>>
      <4> DEFINE w == [j \in DOMAIN v |-> IF v[j].kind = "slot" THEN <<Key(v[j].path[1], v[j].index)>> ELSE <<>>]
                 S == {Key(v[j].path[1], v[j].index) : j \in DOMAIN v}
      <4>1. w \in [1 .. Len(v) -> Seq(S)]
        <5>1. ASSUME NEW j \in 1 .. Len(v) PROVE w[j] \in Seq(S)
          <6>1. j \in DOMAIN v /\ Key(v[j].path[1], v[j].index) \in S
            BY <1>1
          <6> HIDE DEF S
          <6>2. <<Key(v[j].path[1], v[j].index)>> \in Seq(S) /\ <<>> \in Seq(S)
            BY <6>1
          <6>3. w[j] = <<Key(v[j].path[1], v[j].index)>> \/ w[j] = <<>>
            BY <6>1
          <6>4. QED
            BY <6>2, <6>3
        <5>2. DOMAIN w = 1 .. Len(v)
          BY <1>1
        <5>3. w = [j \in DOMAIN w |-> w[j]]
          OBVIOUS
        <5> HIDE DEF w, S
        <5>4. QED
          BY <5>1, <5>2, <5>3
      <4>2. w[i] = <<k>> /\ i \in 1 .. Len(v)
        BY <1>1, <2>3
      <4> HIDE DEF w, S, k
      <4>3. w \in Seq(Seq(S)) /\ Len(w) = Len(v)
        BY <1>1, <4>1, FunctionIsSeq
      <4>4. PieceStart(w, i) \in Nat /\ PieceStart(w, i) + Len(w[i]) <= Len(FlattenSeq(w))
        BY <4>2, <4>3, PieceAt
      <4>5. Len(w[i]) = 1 /\ Len(<<>>) = 0
        BY <4>2
      <4>6. FlattenSeq(w) # <<>>
        BY <4>4, <4>5
      <4>7. QED
        BY <4>6 DEF SlotKeys, w
    <3>3. s.slots # <<>>
      <4>1. DOMAIN <<>> = {}
        OBVIOUS
      <4>2. QED
        BY <3>2, <4>1 DEF Open
    <3>4. SegmentText(s, v[i]) = LoadSlot(s, k)
      BY <2>3 DEF SegmentText
    <3> HIDE DEF k
    <3>5. LoadSlot(s, k) = s.slots[Number(m.keys, k)]
      BY <3>3 DEF LoadSlot, Open
    <3>6. QED
      BY <3>1, <3>4, <3>5
  <2>4. QED
    BY <2>2, <2>3
<1> HIDE DEF u
<1>4. [i \in DOMAIN u |-> IF u[i].kind = "number" THEN s.slots[u[i].number] ELSE SegmentText(s, u[i])]
        = [i \in DOMAIN v |-> SegmentText(s, v[i])]
  BY <1>2, <1>3
<1>5. QED
  BY <1>4 DEF ValueText, Eval, u

LEMMA ValueRuns ==
  ASSUME NEW m, NEW n, NEW v, IsValue(v), Is(m, n, Call("value", v)), NEW s, Open(m, s), NEW g
  PROVE  Leads(m, Config(n, s, g), Config(n + 1, s, [g EXCEPT !.value = Eval(s, v)]))
<1> DEFINE x == Call("value", v)
           arg == Numbered(x, m.keys, m.patterns).arg
<1>1. Config(n, s, g).pc = n
  BY DEF Config
<1>2. x.op = "value" /\ x.arg = v /\ "arg" \in DOMAIN x
  BY DEF Call
<1>3. arg = NumberedValue(v, m.keys)
  <2> HIDE DEF x
  <2>1. QED
    BY <1>2 DEF Numbered
<1>4. SlotKeys(v) # <<>> => DOMAIN m.keys # {}
  BY <1>2 DEF Is, KeysOf
<1>5. ValueText(s, arg) = Eval(s, v)
  BY <1>3, <1>4, ValueIsEval
<1>6. Leads(m, Config(n, s, g), Does(m, Config(n, s, g), "value", arg, s, g))
  BY <1>2, InstructionRuns
<1> HIDE DEF arg, x
<1>7. Does(m, Config(n, s, g), "value", arg, s, g) = Config(n + 1, s, [g EXCEPT !.value = ValueText(s, arg)])
  BY <1>1 DEF Does, Goes
<1>8. QED
  BY <1>5, <1>6, <1>7

LEMMA ReasonRuns ==
  ASSUME NEW m, NEW n, NEW r, IsValue(r.new), Is(m, n, EmitReason(r)), NEW s, Open(m, s), NEW g
  PROVE  Leads(m, Config(n, s, g), Config(n + 1, s, [g EXCEPT !.value = Reason(s, r)]))
<1>1. CASE r.new # <<>>
  <2>1. EmitReason(r) = Call("value", r.new) /\ Reason(s, r) = Eval(s, r.new)
    BY <1>1 DEF EmitReason, Reason
  <2>2. QED
    BY <2>1, ValueRuns
<1>2. CASE r.new = <<>> /\ r.name = ""
  <2>1. EmitReason(r) = Call("value", <<>>) /\ Reason(s, r) = <<>>
    BY <1>2 DEF EmitReason, Reason
  <2>2. QED
    BY <2>1, ValueRuns, EvalNothing
<1>3. CASE r.new = <<>> /\ r.name # ""
  <2> DEFINE seg == [kind |-> "text", text |-> <<r.name>>]
             v == <<seg>>
  <2>1. EmitReason(r) = Call("value", v) /\ Reason(s, r) = <<r.name>>
    BY <1>3 DEF EmitReason, Reason
  <2>2. seg.kind = "text" /\ seg.text = <<r.name>>
    OBVIOUS
  <2> HIDE DEF seg
  <2>3. ToSet(v) = {seg} /\ v \in Seq({seg}) /\ v = [i \in {1} |-> seg] /\ DOMAIN v = {1} /\ v[1] = seg
    BY DEF ToSet
  <2>4. IsValue(v)
    BY <2>2, <2>3 DEF IsValue
  <2>5. Eval(s, v) = <<r.name>>
    <3>1. SegmentText(s, seg) = <<r.name>>
      BY <2>2 DEF SegmentText
    <3>2. [i \in DOMAIN v |-> SegmentText(s, v[i])] = <<SegmentText(s, seg)>>
      BY <2>3
    <3>3. <<r.name>> \in Seq({r.name})
      OBVIOUS
    <3>4. FlattenSeq(<< <<r.name>> >>) = <<r.name>>
      BY <3>3, FlattenOne
    <3>5. QED
      BY <3>1, <3>2, <3>4 DEF Eval
  <2> HIDE DEF v
  <2>6. QED
    BY <2>1, <2>4, <2>5, ValueRuns
<1>4. QED
  BY <1>1, <1>2, <1>3

-----------------------------------------------------------------------------
(* States that stay open *)

LEMMA OpenEdits ==
  ASSUME NEW m, NEW s, Open(m, s), NEW t
  PROVE  /\ Open(m, [s EXCEPT !.fields = t]) /\ Open(m, [s EXCEPT !.captures = t])
         /\ Open(m, [s EXCEPT !.logs = t])
         /\ [s EXCEPT !.captures = t].fields = s.fields
         /\ [s EXCEPT !.verdict = <<t>>].verdict # Accepted
BY DEF Open, StateParts, Accepted

LEMMA OpenGuard ==
  ASSUME NEW m, NEW s, Open(m, s), NEW cmp, NEW mt, NEW subject
  PROVE  Open(m, AfterGuard(s, cmp, mt, subject)) /\ AfterGuard(s, cmp, mt, subject).fields = s.fields
<1> DEFINE t == Searched(s, mt, subject)
<1>1. \/ AfterGuard(s, cmp, mt, subject) = s
      \/ AfterGuard(s, cmp, mt, subject) = [s EXCEPT !.captures = t]
  BY DEF AfterGuard
<1> HIDE DEF t
<1>2. Open(m, [s EXCEPT !.captures = t]) /\ [s EXCEPT !.captures = t].fields = s.fields
  BY OpenEdits
<1>3. QED
  BY <1>1, <1>2

LEMMA OpenStore ==
  ASSUME NEW m, NEW s, Open(m, s), NEW k, NEW t
  PROVE  Open(m, StoreSlot(s, k, t)) /\ StoreSlot(s, k, t).fields = s.fields
<1>1. CASE s.slots = <<>>
  BY <1>1 DEF StoreSlot
<1>2. CASE s.slots # <<>>
  <2> DEFINE u == [s.slots EXCEPT ![Number(s.keys, k)] = t]
  <2>1. DOMAIN u = DOMAIN s.slots
    OBVIOUS
  <2>2. StoreSlot(s, k, t) = [s EXCEPT !.slots = u]
    BY <1>2 DEF StoreSlot
  <2> HIDE DEF u
  <2>3. QED
    BY <2>1, <2>2 DEF Open, StateParts
<1>3. QED
  BY <1>1, <1>2

LEMMA RegsKept ==
  ASSUME NEW g, IsRegs(g), NEW t
  PROVE  /\ IsRegs([g EXCEPT !.header = t]) /\ [g EXCEPT !.header = t].header = t
         /\ IsRegs([g EXCEPT !.element = t]) /\ [g EXCEPT !.element = t].element = t
         /\ [g EXCEPT !.element = t].header = g.header
         /\ IsRegs([g EXCEPT !.value = t]) /\ [g EXCEPT !.value = t].value = t
         /\ [g EXCEPT !.value = t].header = g.header /\ [g EXCEPT !.value = t].element = g.element
BY DEF IsRegs

-----------------------------------------------------------------------------
(* Runs of blocks *)

\* From x the module comes to instruction n with state t, or to its end if t is rejected.
Reaches(m, x, n, t) ==
  \E h : /\ IsRegs(h)
         /\ \/ Open(m, t) /\ Leads(m, x, Config(n, t, h))
            \/ t.verdict # Accepted /\ Leads(m, x, Config(Len(m.code) + 1, t, h))

LEMMA ReachesHere ==
  ASSUME NEW m, NEW x, NEW n, NEW t, NEW h, IsRegs(h), Open(m, t), Leads(m, x, Config(n, t, h))
  PROVE  Reaches(m, x, n, t)
BY DEF Reaches

LEMMA ReachesReject ==
  ASSUME NEW m, NEW x, NEW n, NEW t, NEW h, IsRegs(h), t.verdict # Accepted,
         Leads(m, x, Config(Len(m.code) + 1, t, h))
  PROVE  Reaches(m, x, n, t)
BY DEF Reaches

LEMMA ReachesFrom ==
  ASSUME NEW m, NEW x, NEW y, NEW n, NEW t, Leads(m, x, y), Reaches(m, y, n, t)
  PROVE  Reaches(m, x, n, t)
BY LeadsOn DEF Reaches

\* The next block goes on where this one ends, and leaves a rejected state alone.
LEMMA ReachesNext ==
  ASSUME NEW m, NEW x, NEW n, NEW t, Reaches(m, x, n, t), NEW k, NEW u,
         Open(m, t) => \A h : IsRegs(h) => Reaches(m, Config(n, t, h), k, u),
         t.verdict # Accepted => u = t
  PROVE  Reaches(m, x, k, u)
<1>1. PICK h : /\ IsRegs(h)
               /\ \/ Open(m, t) /\ Leads(m, x, Config(n, t, h))
                  \/ t.verdict # Accepted /\ Leads(m, x, Config(Len(m.code) + 1, t, h))
  BY DEF Reaches
<1>2. CASE Open(m, t) /\ Leads(m, x, Config(n, t, h))
  BY <1>1, <1>2, ReachesFrom
<1>3. CASE t.verdict # Accepted /\ Leads(m, x, Config(Len(m.code) + 1, t, h))
  BY <1>1, <1>3, ReachesReject
<1>4. QED
  BY <1>1, <1>2, <1>3

LEMMA LiesAt ==
  ASSUME NEW m, NEW o, NEW b, NEW skip, NEW to, Lies(m, o, b, skip, to), NEW k \in 1 .. Len(b)
  PROVE  Is(m, o + k, b[k]) /\ o \in Nat
         /\ (b[k].skip = skip => o + k + m.code[o + k].by = to)
BY DEF Lies

LEMMA GuardRuns ==
  ASSUME NEW m, NEW o, NEW cmp, NEW kind, NEW mt, NEW reg, NEW skip, NEW to,
         Lies(m, o, EmitMatchGuard(cmp, kind, mt, reg, skip), skip, to),
         NEW s, Open(m, s), NEW g
  PROVE  Leads(m, Config(o + 1, s, g),
               Config(IF Passes(s, cmp, kind, mt, g[reg])
                      THEN o + Len(EmitMatchGuard(cmp, kind, mt, reg, skip)) + 1 ELSE to,
                      AfterGuard(s, cmp, mt, g[reg]), g))
<1> DEFINE x == Branch("match", [cmp |-> cmp, kind |-> kind, match |-> mt, reg |-> reg, regex |-> 0], skip)
           b == EmitMatchGuard(cmp, kind, mt, reg, skip)
           arg == Numbered(x, m.keys, m.patterns).arg
           c == Config(o + 1, s, g)
<1>0. o \in Nat
  BY DEF Lies
<1>1. CASE Unconditional(mt)
  <2>1. b = <<>> /\ Len(<<>>) = 0
    BY <1>1 DEF EmitMatchGuard, If
  <2>2. Passes(s, cmp, kind, mt, g[reg]) /\ AfterGuard(s, cmp, mt, g[reg]) = s
    BY <1>1 DEF Passes, AfterGuard
  <2>3. o + 0 + 1 = o + 1
    BY <1>0
  <2>4. QED
    BY <2>1, <2>2, <2>3, LeadsNowhere
<1>2. CASE ~Unconditional(mt)
  <2>1. b = <<x>> /\ Len(b) = 1 /\ b[1] = x
    BY <1>2 DEF EmitMatchGuard, If
  <2>2. /\ x.op = "match" /\ x.skip = skip /\ "arg" \in DOMAIN x /\ DOMAIN x = InstructionFields
        /\ x.arg = [cmp |-> cmp, kind |-> kind, match |-> mt, reg |-> reg, regex |-> 0]
    BY DEF Branch, InstructionFields
  <2>3. Is(m, o + 1, x) /\ o + 1 + m.code[o + 1].by = to
    BY <2>1, <2>2, LiesAt
  <2>4. /\ arg.cmp = cmp /\ arg.kind = kind /\ arg.match = mt /\ arg.reg = reg
        /\ arg.regex = Number(m.patterns, mt.text)
    <3> HIDE DEF x
    <3>1. QED
      BY <2>2 DEF Numbered
  <2>5. Leads(m, c, Does(m, c, "match", arg, s, g))
    BY <2>2, <2>3, InstructionRuns
  <2>6. o + Len(b) + 1 = o + 1 + 1
    BY <1>0, <2>1
  <2>7. c.pc = o + 1 /\ c.regs = g
    BY DEF Config
  <2>8. Passes(s, cmp, kind, mt, g[reg]) <=> (Matched(s, cmp, kind, mt, g[reg]) # mt.negated)
    BY <1>2 DEF Passes
  <2>9. PatternsOf(x) = Pattern(cmp, mt)
    BY <2>2 DEF PatternsOf
  <2> HIDE DEF x, b, arg, c
  <2>10. CASE cmp # "pattern"
    <3>1. Does(m, c, "match", arg, s, g) = Jumps(m, c, Matched(s, cmp, kind, mt, g[reg]) # mt.negated, s)
      BY <2>4, <2>10 DEF Does
    <3>2. AfterGuard(s, cmp, mt, g[reg]) = s
      BY <2>10 DEF AfterGuard
    <3>3. QED
      BY <2>3, <2>5, <2>6, <2>7, <2>8, <3>1, <3>2 DEF Jumps, c, b
  <2>11. CASE cmp = "pattern"
    <3>1. m.patterns # <<>>
      <4>1. Pattern(cmp, mt) = <<mt.text>> /\ <<mt.text>> # <<>>
        BY <1>2, <2>11 DEF Pattern
      <4>2. QED
        BY <2>3, <2>9, <4>1 DEF Is
    <3>2. Searched(s, mt, g[reg]) = Captures(m.patterns[arg.regex], g[arg.reg])
      BY <2>4, <3>1 DEF Searched, Open
    <3>3. Does(m, c, "match", arg, s, g)
            = Jumps(m, c, (Searched(s, mt, g[reg]) # <<>>) # mt.negated,
                    [s EXCEPT !.captures = Searched(s, mt, g[reg])])
      BY <2>4, <2>11, <3>2 DEF Does
    <3>4. AfterGuard(s, cmp, mt, g[reg]) = [s EXCEPT !.captures = Searched(s, mt, g[reg])]
      BY <1>2, <2>11 DEF AfterGuard
    <3>5. Matched(s, cmp, kind, mt, g[reg]) = (Searched(s, mt, g[reg]) # <<>>)
      BY <2>11 DEF Matched
    <3>6. QED
      BY <2>3, <2>5, <2>6, <2>7, <2>8, <3>3, <3>4, <3>5 DEF Jumps, c, b
  <2>12. QED
    BY <2>10, <2>11
<1>3. QED
  BY <1>1, <1>2

-----------------------------------------------------------------------------
(* Element rules *)

\* The run of a rewrite: the value, the new header, the header set.
LEMMA RewriteRuns ==
  ASSUME NEW m, NEW q, NEW skip, NEW to, NEW v, IsValue(v), NEW r, NEW e, NEW b,
         b = <<Call("value", v), Call("uri_set", e.type), Call("set", r.header)>>,
         Lies(m, q, b, skip, to), NEW u, Open(m, u), NEW g, IsRegs(g),
         g.header = Value(u.fields, r.header)
  PROVE  Reaches(m, Config(q + 1, u, g), q + Len(b) + 1, Rewrite(u, r, e, Eval(u, v)))
<1> DEFINE x == Call("value", v)
           y == Call("uri_set", e.type)
           z == Call("set", r.header)
           t == Eval(u, v)
           g1 == [g EXCEPT !.value = t]
           t2 == RebuildUri(g1.header, e.type, g1.value)
           g2 == [g1 EXCEPT !.value = t2]
<1>1. Len(b) = 3 /\ b[1] = x /\ b[2] = y /\ b[3] = z
  OBVIOUS
<1>2. /\ y.op = "uri_set" /\ y.arg = e.type /\ z.op = "set" /\ z.arg = r.header
  BY DEF Call
<1>3. q \in Nat /\ Is(m, q + 1, x) /\ Is(m, q + 2, y) /\ Is(m, q + 3, z)
  <2> HIDE DEF x, y, z
  <2>1. 1 \in 1 .. Len(b) /\ 2 \in 1 .. Len(b) /\ 3 \in 1 .. Len(b)
    BY <1>1
  <2>2. Lies(m, q, b, skip, to)
    OBVIOUS
  <2>3. Is(m, q + 1, b[1]) /\ Is(m, q + 2, b[2]) /\ Is(m, q + 3, b[3]) /\ q \in Nat
    BY <2>1, <2>2, LiesAt
  <2>4. QED
    BY <1>1, <2>3
<1> HIDE DEF y, z
<1>4. IsRegs(g1) /\ g1.header = g.header /\ g1.value = t
  <2> HIDE DEF t
  <2>1. IsRegs(g)
    OBVIOUS
  <2>2. QED
    BY <2>1 DEF IsRegs
<1>5. Leads(m, Config(q + 1, u, g), Config(q + 1 + 1, u, g1))
  BY <1>3, ValueRuns
<1> HIDE DEF g1, t
<1>6. IsRegs(g2) /\ g2.value = t2
  <2> HIDE DEF t2
  <2>1. QED
    BY <1>4 DEF IsRegs
<1>7. Leads(m, Config(q + 2, u, g1), Config(q + 2 + 1, u, g2))
  <2>1. Leads(m, Config(q + 2, u, g1),
              Config(q + 2 + 1, u, [g1 EXCEPT !.value = RebuildUri(g1.header, y.arg, g1.value)]))
    BY <1>2, <1>3, ReadsRun
  <2>2. QED
    BY <1>2, <2>1
<1> HIDE DEF g2
<1>8. Leads(m, Config(q + 3, u, g2), Config(q + 3 + 1, [u EXCEPT !.fields = Put(u.fields, r.header, g2.value)], g2))
  BY <1>2, <1>3, EditsRun
<1>9. Rewrite(u, r, e, t) = [u EXCEPT !.fields = Put(u.fields, r.header, g2.value)]
  BY <1>4, <1>6 DEF Rewrite
<1>10. q + 1 + 1 = q + 2 /\ q + 2 + 1 = q + 3 /\ q + 3 + 1 = q + Len(b) + 1
  BY <1>1, <1>3
<1>11. Leads(m, Config(q + 1, u, g), Config(q + Len(b) + 1, Rewrite(u, r, e, t), g2))
  BY <1>5, <1>7, <1>8, <1>9, <1>10, LeadsOn
<1>12. Open(m, Rewrite(u, r, e, t))
  <2> DEFINE f == Put(u.fields, r.header, g2.value)
  <2> HIDE DEF f
  <2>1. Open(m, [u EXCEPT !.fields = f])
    BY OpenEdits
  <2>2. QED
    BY <1>9, <2>1 DEF f
<1>13. QED
  BY <1>6, <1>11, <1>12, ReachesHere DEF t

LEMMA DeleteRuns ==
  ASSUME NEW m, NEW q, NEW skip, NEW to, NEW h, NEW b, b = <<Call("delete", h)>>,
         Lies(m, q, b, skip, to), NEW u, Open(m, u), NEW g, IsRegs(g)
  PROVE  Reaches(m, Config(q + 1, u, g), q + Len(b) + 1, [u EXCEPT !.fields = Without(u.fields, h)])
<1> DEFINE x == Call("delete", h)
           t == [u EXCEPT !.fields = Without(u.fields, h)]
<1>1. Len(b) = 1 /\ b[1] = x
  OBVIOUS
<1>2. x.op = "delete" /\ x.arg = h
  BY DEF Call
<1>3. q \in Nat /\ Is(m, q + 1, x)
  BY <1>1, LiesAt
<1> HIDE DEF x
<1>4. Leads(m, Config(q + 1, u, g), Config(q + 1 + 1, t, g))
  BY <1>2, <1>3, EditsRun
<1>5. Open(m, t)
  BY OpenEdits
<1> HIDE DEF t
<1>6. q + 1 + 1 = q + Len(b) + 1
  BY <1>1, <1>3
<1>7. Reaches(m, Config(q + 1, u, g), q + Len(b) + 1, t)
  BY <1>4, <1>5, <1>6, ReachesHere
<1>8. QED
  BY <1>7 DEF t

LEMMA RejectRuns ==
  ASSUME NEW m, NEW q, NEW skip, NEW to, NEW r, IsValue(r.new), NEW b,
         b = <<EmitReason(r), Call("reject", <<>>)>>,
         Lies(m, q, b, skip, to), NEW u, Open(m, u), NEW g, IsRegs(g), NEW n
  PROVE  Reaches(m, Config(q + 1, u, g), n, [u EXCEPT !.verdict = <<Reason(u, r)>>])
<1> DEFINE x == EmitReason(r)
           y == Call("reject", <<>>)
           t == Reason(u, r)
           g1 == [g EXCEPT !.value = t]
           v == [u EXCEPT !.verdict = <<t>>]
<1>1. Len(b) = 2 /\ b[1] = x /\ b[2] = y
  OBVIOUS
<1>2. y.op = "reject"
  BY DEF Call
<1>3. q \in Nat /\ Is(m, q + 1, x) /\ Is(m, q + 2, y)
  BY <1>1, LiesAt
<1> HIDE DEF y
<1>4. Leads(m, Config(q + 1, u, g), Config(q + 1 + 1, u, g1))
  BY <1>3, ReasonRuns
<1> HIDE DEF t
<1>5. IsRegs(g1) /\ g1.value = t
  BY RegsKept
<1> HIDE DEF g1
<1>6. Leads(m, Config(q + 2, u, g1), Config(Len(m.code) + 1, [u EXCEPT !.verdict = <<g1.value>>], g1))
  BY <1>2, <1>3, EditsRun
<1>7. q + 1 + 1 = q + 2 /\ [u EXCEPT !.verdict = <<g1.value>>] = v
  BY <1>3, <1>5
<1>8. v.verdict # Accepted
  BY OpenEdits
<1> HIDE DEF v
<1>9. Leads(m, Config(q + 1, u, g), Config(Len(m.code) + 1, v, g1))
  BY <1>4, <1>6, <1>7, LeadsOn
<1>10. Reaches(m, Config(q + 1, u, g), n, v)
  BY <1>5, <1>8, <1>9, ReachesReject
<1>11. QED
  BY <1>10 DEF v, t

LEMMA StoreOneRuns ==
  ASSUME NEW m, NEW q, NEW skip, NEW to, NEW k, NEW reg, NEW b,
         b = <<Call("store", [key |-> k, reg |-> reg])>>,
         Lies(m, q, b, skip, to), NEW u, Open(m, u), NEW g, IsRegs(g)
  PROVE  Reaches(m, Config(q + 1, u, g), q + Len(b) + 1, StoreSlot(u, k, g[reg]))
<1> DEFINE x == Call("store", [key |-> k, reg |-> reg])
<1>1. Len(b) = 1 /\ b[1] = x
  OBVIOUS
<1>2. q \in Nat /\ Is(m, q + 1, x)
  BY <1>1, LiesAt
<1>3. Leads(m, Config(q + 1, u, g), Config(q + 1 + 1, StoreSlot(u, k, g[reg]), g))
  BY <1>2, StoreRuns
<1>4. q + 1 + 1 = q + Len(b) + 1
  BY <1>1, <1>2
<1>5. QED
  BY <1>3, <1>4, OpenStore, ReachesHere

LEMMA ElementActRuns ==
  ASSUME NEW m, NEW q, NEW skip, NEW to, NEW r, NEW e, IsValue(e.new),
         Lies(m, q, EmitElementAction(r, e), skip, to), NEW u, Open(m, u), NEW g, IsRegs(g),
         g.header = Value(u.fields, r.header), g.element = ElementText(u, r, e)
  PROVE  Reaches(m, Config(q + 1, u, g), q + Len(EmitElementAction(r, e)) + 1, ElementAct(u, r, e))
<1> DEFINE b == EmitElementAction(r, e)
<1>0. q \in Nat /\ Lies(m, q, b, skip, to)
  BY DEF Lies
<1>1. CASE e.action = "replace"
  <2>1. b = <<Call("value", e.new), Call("uri_set", e.type), Call("set", r.header)>>
    BY <1>1 DEF EmitElementAction
  <2>2. ElementAct(u, r, e) = Rewrite(u, r, e, Eval(u, e.new))
    BY <1>1 DEF ElementAct
  <2> HIDE DEF b
  <2>3. Reaches(m, Config(q + 1, u, g), q + Len(b) + 1, Rewrite(u, r, e, Eval(u, e.new)))
    BY <1>0, <2>1, RewriteRuns
  <2>4. QED
    BY <2>2, <2>3 DEF b
<1>2. CASE e.action = "delete" /\ e.type = "whole"
  <2>1. b = <<Call("delete", r.header)>>
    BY <1>2 DEF EmitElementAction
  <2>2. ElementAct(u, r, e) = [u EXCEPT !.fields = Without(u.fields, r.header)]
    BY <1>2 DEF ElementAct
  <2> HIDE DEF b
  <2>3. Reaches(m, Config(q + 1, u, g), q + Len(b) + 1, [u EXCEPT !.fields = Without(u.fields, r.header)])
    BY <1>0, <2>1, DeleteRuns
  <2>4. QED
    BY <2>2, <2>3 DEF b
<1>3. CASE e.action = "delete" /\ e.type # "whole"
  <2> DEFINE v == <<>>
  <2>1. b = <<Call("value", v), Call("uri_set", e.type), Call("set", r.header)>>
    BY <1>3 DEF EmitElementAction
  <2>2. IsValue(v) /\ Eval(u, v) = <<>>
    BY EvalNothing
  <2>3. ElementAct(u, r, e) = Rewrite(u, r, e, <<>>)
    BY <1>3 DEF ElementAct
  <2> HIDE DEF b, v
  <2>4. Reaches(m, Config(q + 1, u, g), q + Len(b) + 1, Rewrite(u, r, e, Eval(u, v)))
    BY <1>0, <2>1, <2>2, RewriteRuns
  <2>5. QED
    BY <2>2, <2>3, <2>4 DEF b
<1>4. CASE e.action = "store"
  <2> DEFINE k == Key(ElementName(r, e), 0)
  <2>1. b = <<Call("store", [key |-> k, reg |-> "element"])>>
    BY <1>4 DEF EmitElementAction
  <2>2. ElementAct(u, r, e) = StoreSlot(u, k, g["element"])
    BY <1>4 DEF ElementAct
  <2> HIDE DEF b, k
  <2>3. Reaches(m, Config(q + 1, u, g), q + Len(b) + 1, StoreSlot(u, k, g["element"]))
    BY <1>0, <2>1, StoreOneRuns
  <2>4. QED
    BY <2>2, <2>3 DEF b
<1>5. CASE e.action = "reject"
  <2>1. b = <<EmitReason(e), Call("reject", <<>>)>>
    BY <1>5 DEF EmitElementAction
  <2>2. ElementAct(u, r, e) = [u EXCEPT !.verdict = <<Reason(u, e)>>]
    BY <1>5 DEF ElementAct
  <2> HIDE DEF b
  <2>3. Reaches(m, Config(q + 1, u, g), q + Len(b) + 1, [u EXCEPT !.verdict = <<Reason(u, e)>>])
    BY <1>0, <2>1, RejectRuns
  <2>4. QED
    BY <2>2, <2>3 DEF b
<1>6. CASE e.action \notin {"replace", "delete", "store", "reject"}
  <2>1. b = <<>> /\ Len(<<>>) = 0
    BY <1>6 DEF EmitElementAction
  <2>2. ElementAct(u, r, e) = u
    BY <1>6 DEF ElementAct
  <2>3. q + Len(b) + 1 = q + 1
    BY <1>0, <2>1
  <2>4. QED
    BY <2>2, <2>3, LeadsNowhere, ReachesHere
<1>7. QED
  BY <1>1, <1>2, <1>3, <1>4, <1>5, <1>6

\* The action of an element rule is code.
LEMMA ActionIsCode == ASSUME NEW r, NEW e PROVE IsCode(EmitElementAction(r, e))
<1> DEFINE rewrites == e.action = "replace" \/ (e.action = "delete" /\ e.type # "whole")
<1>1. CASE ~rewrites
  BY <1>1, SoundElementAction DEF Sound
<1>2. ASSUME NEW v, NEW t, NEW h
      PROVE  IsCode(<<Call("value", v), Call("uri_set", t), Call("set", h)>>)
  <2> DEFINE b == <<Call("value", v), Call("uri_set", t), Call("set", h)>>
  <2>1. b \in Seq({b[1], b[2], b[3]}) /\ Len(b) = 3
    OBVIOUS
  <2>2. \A i \in 1 .. 3 : DOMAIN b[i] = InstructionFields /\ b[i].by = 1
    <3>1. /\ DOMAIN Call("value", v) = InstructionFields /\ Call("value", v).by = 1
          /\ DOMAIN Call("uri_set", t) = InstructionFields /\ Call("uri_set", t).by = 1
          /\ DOMAIN Call("set", h) = InstructionFields /\ Call("set", h).by = 1
      BY DEF Call, InstructionFields
    <3>2. \A i \in 1 .. 3 : i = 1 \/ i = 2 \/ i = 3
      OBVIOUS
    <3>3. b[1] = Call("value", v) /\ b[2] = Call("uri_set", t) /\ b[3] = Call("set", h)
      OBVIOUS
    <3> HIDE DEF b
    <3>4. QED
      BY <3>1, <3>2, <3>3
  <2> HIDE DEF b
  <2>3. ASSUME NEW i \in 1 .. 3
        PROVE  /\ DOMAIN b[i] = InstructionFields
               /\ b[i].by \in Nat /\ b[i].by >= 1 /\ i + b[i].by <= 3 + 1
    <3>1. b[i].by = 1 /\ DOMAIN b[i] = InstructionFields
      BY <2>2
    <3>2. QED
      BY <3>1
  <2>4. IsCode(b)
    BY <2>1, <2>3, SequenceIsCode
  <2>5. QED
    BY <2>4 DEF b
<1>3. CASE e.action = "replace"
  <2>1. EmitElementAction(r, e) = <<Call("value", e.new), Call("uri_set", e.type), Call("set", r.header)>>
    BY <1>3 DEF EmitElementAction
  <2>2. QED
    BY <1>2, <2>1
<1>4. CASE e.action = "delete" /\ e.type # "whole"
  <2>1. EmitElementAction(r, e) = <<Call("value", <<>>), Call("uri_set", e.type), Call("set", r.header)>>
    BY <1>4 DEF EmitElementAction
  <2>2. QED
    BY <1>2, <2>1
<1>5. QED
  BY <1>1, <1>3, <1>4

LEMMA ElementRuns ==
  ASSUME NEW m, NEW o, NEW r, NEW e, NEW to, IsValue(e.new),
         Lies(m, o, EmitElement(r, e), "rule", to), NEW s, Open(m, s), NEW g, IsRegs(g)
  PROVE  Reaches(m, Config(o + 1, s, g), o + Len(EmitElement(r, e)) + 1, RunElement(s, r, e))
<1> DEFINE x == Call("get", r.header)
           y == Call("uri_get", e.type)
           reads == <<x, y>>
           guard == EmitMatchGuard(e.cmp, e.kind, e.match, "element", "element")
           act == EmitElementAction(r, e)
           a == reads \o guard
           b == a \o act
           end == o + Len(b) + 1
<1>0. o \in Nat
  BY DEF Lies
<1>1. CASE ~Supported(e)
  <2>1. EmitElement(r, e) = <<>> /\ Len(<<>>) = 0 /\ RunElement(s, r, e) = s
    BY <1>1 DEF EmitElement, If, RunElement
  <2>2. o + Len(EmitElement(r, e)) + 1 = o + 1
    BY <1>0, <2>1
  <2>3. QED
    BY <2>1, <2>2, LeadsNowhere, ReachesHere
<1>2. CASE Supported(e)
  <2>1. EmitElement(r, e) = Link(b, "element")
    BY <1>2 DEF EmitElement, If
  <2>2. IsCode(reads) /\ IsCode(guard)
    BY CallsAreEmitted, SoundTwo, SoundGuard DEF Sound
  <2>3. IsCode(act)
    BY ActionIsCode
  <2>4. Len(reads) = 2 /\ reads[1] = x /\ reads[2] = y
    OBVIOUS
  <2>5. x.op = "get" /\ x.arg = r.header /\ y.op = "uri_get" /\ y.arg = e.type
    BY DEF Call
  <2> HIDE DEF x, y, reads, guard, act
  <2>6. IsCode(a)
    BY <2>2, Joined
  <2> HIDE DEF a
  <2>7. IsCode(b)
    BY <2>3, <2>6, Joined
  <2> HIDE DEF b
  <2>8. Lies(m, o, b, "element", end) /\ Len(EmitElement(r, e)) = Len(b)
    BY <2>1, <2>7, LiesElement, LinkKeeps
  <2> HIDE DEF end
  <2>9. /\ Lies(m, o, a, "element", end) /\ Lies(m, o + Len(a), act, "element", end)
        /\ Len(a) \in Nat /\ Len(act) \in Nat /\ Len(b) = Len(a) + Len(act)
    BY <2>3, <2>6, <2>8, LiesBoth DEF b
  <2>10. /\ Lies(m, o, reads, "element", end) /\ Lies(m, o + 2, guard, "element", end)
         /\ Len(guard) \in Nat /\ Len(a) = 2 + Len(guard)
    <3>1. Lies(m, o, reads \o guard, "element", end)
      BY <2>9 DEF a
    <3>2. /\ Lies(m, o, reads, "element", end) /\ Lies(m, o + Len(reads), guard, "element", end)
          /\ Len(guard) \in Nat /\ Len(reads \o guard) = Len(reads) + Len(guard)
      BY <2>2, <3>1, LiesBoth
    <3>3. QED
      BY <2>4, <3>2 DEF a
  <2>11. Is(m, o + 1, x) /\ Is(m, o + 2, y)
    <3>1. 1 \in 1 .. Len(reads) /\ 2 \in 1 .. Len(reads)
      BY <2>4
    <3>2. Is(m, o + 1, reads[1]) /\ Is(m, o + 2, reads[2])
      BY <2>10, <3>1, LiesAt
    <3>3. QED
      BY <2>4, <3>2
  <2> DEFINE hd == Value(s.fields, r.header)
             g1 == [g EXCEPT !.header = hd]
             el == UriGet(g1.header, e.type)
             g2 == [g1 EXCEPT !.element = el]
             u == AfterGuard(s, e.cmp, e.match, g2["element"])
  <2>12. Leads(m, Config(o + 1, s, g), Config(o + 1 + 1, s, g1))
    BY <2>5, <2>11, ReadsRun
  <2>13. Leads(m, Config(o + 2, s, g1), Config(o + 2 + 1, s, g2))
    BY <2>5, <2>11, ReadsRun
  <2>14. IsRegs(g1) /\ g1.header = hd
    <3> HIDE DEF hd
    <3>1. QED
      BY RegsKept
  <2> HIDE DEF g1
  <2>15. IsRegs(g2) /\ g2.header = hd /\ g2["element"] = el
    <3> HIDE DEF el, hd
    <3>1. QED
      BY <2>14, RegsKept
  <2>16. el = ElementText(s, r, e)
    BY <2>14 DEF ElementText
  <2> HIDE DEF g2, el
  <2>17. Leads(m, Config(o + 2 + 1, s, g2),
               Config(IF Passes(s, e.cmp, e.kind, e.match, g2["element"])
                      THEN o + 2 + Len(guard) + 1 ELSE end, u, g2))
    BY <2>10, GuardRuns DEF guard
  <2>18. Open(m, u) /\ u.fields = s.fields
    BY OpenGuard
  <2> HIDE DEF u
  <2>19. o + 1 + 1 = o + 2 /\ o + 2 + Len(guard) + 1 = o + Len(a) + 1
    BY <1>0, <2>10
  <2>20. Leads(m, Config(o + 1, s, g), Config(o + 2 + 1, s, g2))
    BY <2>12, <2>13, <2>19, LeadsOn
  <2>21. CASE Passes(s, e.cmp, e.kind, e.match, ElementText(s, r, e))
    <3>1. Leads(m, Config(o + 1, s, g), Config(o + Len(a) + 1, u, g2))
      BY <2>15, <2>16, <2>17, <2>19, <2>20, <2>21, LeadsOn
    <3>2. ElementText(u, r, e) = ElementText(s, r, e) /\ Value(u.fields, r.header) = hd
      BY <2>18 DEF ElementText
    <3>3. Reaches(m, Config(o + Len(a) + 1, u, g2), o + Len(a) + Len(act) + 1, ElementAct(u, r, e))
      BY <2>9, <2>15, <2>16, <2>18, <3>2, ElementActRuns DEF act
    <3>4. o + Len(a) + Len(act) + 1 = end
      BY <1>0, <2>9 DEF end
    <3>5. RunElement(s, r, e) = ElementAct(u, r, e)
      BY <1>2, <2>15, <2>16, <2>21 DEF RunElement, u
    <3>6. QED
      BY <2>8, <3>1, <3>3, <3>4, <3>5, ReachesFrom DEF end
  <2>22. CASE ~Passes(s, e.cmp, e.kind, e.match, ElementText(s, r, e))
    <3>1. Leads(m, Config(o + 1, s, g), Config(end, u, g2))
      BY <2>15, <2>16, <2>17, <2>20, <2>22, LeadsOn
    <3>2. RunElement(s, r, e) = u
      BY <1>2, <2>15, <2>16, <2>22 DEF RunElement, u
    <3>3. QED
      BY <2>8, <2>15, <2>18, <3>1, <3>2, ReachesHere DEF end
  <2>23. QED
    BY <2>21, <2>22
<1>3. QED
  BY <1>1, <1>2

-----------------------------------------------------------------------------
(* Header actions *)

\* One group: the capture into the value, the value into the slot.
LEMMA GroupRuns ==
  ASSUME NEW m, NEW q, NEW skip, NEW to, NEW r, NEW i, NEW n, NEW b,
         b = <<Call("capture", n), Call("store", [key |-> Key(RuleName(r, i), n), reg |-> "value"])>>,
         Lies(m, q, b, skip, to), NEW u, Open(m, u), NEW g, IsRegs(g)
  PROVE  Reaches(m, Config(q + 1, u, g), q + Len(b) + 1, StoreGroup(u, r, i, n))
<1> DEFINE k == Key(RuleName(r, i), n)
           x == Call("capture", n)
           y == Call("store", [key |-> k, reg |-> "value"])
           t == Capture(u, n)
           g1 == [g EXCEPT !.value = t]
<1>1. Len(b) = 2 /\ b[1] = x /\ b[2] = y
  OBVIOUS
<1>2. x.op = "capture" /\ x.arg = n
  BY DEF Call
<1>3. q \in Nat /\ Is(m, q + 1, x) /\ Is(m, q + 2, y)
  BY <1>1, LiesAt
<1> HIDE DEF x
<1>4. Leads(m, Config(q + 1, u, g), Config(q + 1 + 1, u, g1))
  <2>1. Leads(m, Config(q + 1, u, g), Config(q + 1 + 1, u, [g EXCEPT !.value = Capture(u, x.arg)]))
    BY <1>2, <1>3, ReadsRun
  <2>2. QED
    BY <1>2, <2>1
<1>5. IsRegs(g1) /\ g1["value"] = t
  BY DEF IsRegs
<1> HIDE DEF g1, k
<1>6. Leads(m, Config(q + 2, u, g1), Config(q + 2 + 1, StoreSlot(u, k, g1["value"]), g1))
  BY <1>3, StoreRuns
<1>7. q + 1 + 1 = q + 2 /\ q + 2 + 1 = q + Len(b) + 1
  BY <1>1, <1>3
<1>8. StoreSlot(u, k, g1["value"]) = StoreGroup(u, r, i, n)
  BY <1>5 DEF StoreGroup, k
<1>9. Open(m, StoreSlot(u, k, g1["value"]))
  BY OpenStore
<1>10. Leads(m, Config(q + 1, u, g), Config(q + Len(b) + 1, StoreGroup(u, r, i, n), g1))
  BY <1>4, <1>6, <1>7, <1>8, LeadsOn
<1>11. QED
  BY <1>5, <1>8, <1>9, <1>10, ReachesHere

GroupBlocks(r, i) ==
  [n \in 1..Groups(r.match.text) + 1 |->
     <<Call("capture", n - 1), Call("store", [key |-> Key(RuleName(r, i), n - 1), reg |-> "value"])>>]

LEMMA SoundGroups ==
  ASSUME NEW r, NEW i, Groups(r.match.text) \in Nat
  PROVE  SoundBlocks(GroupBlocks(r, i), Groups(r.match.text) + 1)
<1> DEFINE n == Groups(r.match.text) + 1
           w == GroupBlocks(r, i)
<1>1. n \in Nat
  OBVIOUS
<1>2. ASSUME NEW g \in 1 .. n PROVE Sound(w[g])
  <2>1. Sound(<<Call("capture", g - 1),
                Call("store", [key |-> Key(RuleName(r, i), g - 1), reg |-> "value"])>>)
    BY CallsAreEmitted, SoundTwo
  <2>2. QED
    BY <2>1 DEF GroupBlocks
<1>3. w = [g \in 1 .. n |-> w[g]]
  BY DEF GroupBlocks
<1> HIDE DEF w, n
<1>4. SoundBlocks(w, n)
  BY <1>1, <1>2, <1>3 DEF SoundBlocks
<1>5. QED
  BY <1>4 DEF w, n

LEMMA GroupsRun ==
  ASSUME NEW m, NEW o, NEW skip, NEW to, NEW r, NEW i, Groups(r.match.text) \in Nat,
         Lies(m, o, FlattenSeq(GroupBlocks(r, i)), skip, to), NEW s, Open(m, s), NEW g, IsRegs(g)
  PROVE  Reaches(m, Config(o + 1, s, g), o + Len(FlattenSeq(GroupBlocks(r, i))) + 1, StoreGroups(s, r, i))
<1> DEFINE N == Groups(r.match.text) + 1
           w == GroupBlocks(r, i)
           after == AfterGroups(s, r, i)
           c == Config(o + 1, s, g)
           Done(n) == Reaches(m, c, o + PieceStart(w, n + 1) + 1, after[n])
           I == {n \in Nat : n <= N => Done(n)}
<1>1. N \in Nat /\ SoundBlocks(w, N) /\ o \in Nat
  BY SoundGroups DEF Lies
<1>2. after[0] = s /\ \A n \in 1 .. N : after[n] = StoreGroup(after[n - 1], r, i, n - 1)
  BY AfterGroupsUnfolds
<1>3. /\ PieceStart(w, 1) = 0 /\ PieceStart(w, N + 1) = Len(FlattenSeq(w))
      /\ \A n \in 1 .. N : /\ PieceStart(w, n) \in Nat /\ Len(w[n]) \in Nat
                           /\ PieceStart(w, n + 1) = PieceStart(w, n) + Len(w[n])
  BY <1>1, PiecesOfBlocks
<1>4. \A n \in 1 .. N : w[n] = <<Call("capture", n - 1), Call("store", [key |-> Key(RuleName(r, i), n - 1), reg |-> "value"])>>
  BY DEF GroupBlocks
<1>5. Lies(m, o, FlattenSeq(w), skip, to)
  OBVIOUS
<1>6. StoreGroups(s, r, i) = after[N]
  BY DEF StoreGroups
<1> HIDE DEF w, after, N
<1>7. 0 \in I
  <2>1. Leads(m, c, Config(o + 1, s, g))
    BY LeadsNowhere
  <2>2. o + PieceStart(w, 0 + 1) + 1 = o + 1
    BY <1>1, <1>3
  <2>3. Done(0)
    BY <1>2, <2>1, <2>2, ReachesHere
  <2>4. QED
    BY <2>3
<1>8. ASSUME NEW n \in I PROVE n + 1 \in I
  <2>0. n \in Nat /\ n + 1 \in Nat /\ (n + 1) - 1 = n
    OBVIOUS
  <2> SUFFICES ASSUME n + 1 <= N PROVE Done(n + 1)
    BY <2>0
  <2>1. n + 1 \in 1 .. N /\ Done(n)
    BY <1>1, <2>0
  <2> DEFINE q == o + PieceStart(w, n + 1)
             b == w[n + 1]
             t == after[n]
  <2>2. Lies(m, q, b, skip, to)
    BY <1>1, <1>5, <2>1, LiesPiece
  <2>3. b = <<Call("capture", n), Call("store", [key |-> Key(RuleName(r, i), n), reg |-> "value"])>>
    BY <1>4, <2>0, <2>1
  <2>4. q + Len(b) + 1 = o + PieceStart(w, (n + 1) + 1) + 1
    BY <1>1, <1>3, <2>1
  <2>5. after[n + 1] = StoreGroup(t, r, i, n)
    BY <1>2, <2>0, <2>1
  <2> HIDE DEF b, t
  <2>6. ASSUME Open(m, t), NEW h, IsRegs(h)
        PROVE  Reaches(m, Config(q + 1, t, h), q + Len(b) + 1, StoreGroup(t, r, i, n))
    <3> HIDE DEF q
    <3>1. QED
      BY <2>2, <2>3, <2>6, GroupRuns
  <2>7. Open(m, t)
    <3> DEFINE K == {k \in Nat : k <= N => Open(m, after[k])}
    <3>1. 0 \in K
      BY <1>2
    <3>2. ASSUME NEW k \in K PROVE k + 1 \in K
      <4>1. ASSUME k + 1 <= N PROVE Open(m, after[k + 1])
        <5>1. k \in Nat /\ k + 1 \in 1 .. N /\ (k + 1) - 1 = k /\ Open(m, after[k])
          BY <1>1, <4>1
        <5>2. after[k + 1] = StoreGroup(after[k], r, i, k)
          BY <1>2, <5>1
        <5>3. QED
          BY <5>1, <5>2, OpenStore DEF StoreGroup
      <4>2. QED
        BY <4>1
    <3> HIDE DEF K
    <3>3. K = Nat
      BY <3>1, <3>2, NatClosure DEF K
    <3>4. QED
      BY <1>1, <2>1, <3>3 DEF K, t
  <2>8. t.verdict # Accepted => StoreGroup(t, r, i, n) = t
    BY <2>7 DEF Open
  <2>9. Reaches(m, c, q + 1, t)
    BY <2>1 DEF t
  <2> HIDE DEF q, c
  <2>10. Reaches(m, c, q + Len(b) + 1, StoreGroup(t, r, i, n))
    BY <2>6, <2>8, <2>9, ReachesNext
  <2>11. QED
    BY <2>4, <2>5, <2>10 DEF b
<1>9. I = Nat
  <2> HIDE DEF I
  <2>1. QED
    BY <1>7, <1>8, NatClosure DEF I
<1>10. Done(N)
  BY <1>1, <1>9
<1>11. QED
  BY <1>3, <1>6, <1>10 DEF w

\* An operation on a value that has just been built, and the building of the value.
EditBy(u, op, h, v) ==
  CASE op = "add" -> [u EXCEPT !.fields = Added(u.fields, h, v)]
    [] op = "set" -> [u EXCEPT !.fields = Put(u.fields, h, v)]
    [] op = "log" -> [u EXCEPT !.logs = Append(u.logs, v)]

Builds(m, x, u, g, v) ==
  \A n : Is(m, n, x) => Leads(m, Config(n, u, g), Config(n + 1, u, [g EXCEPT !.value = v]))

LEMMA OpenEditBy ==
  ASSUME NEW m, NEW u, Open(m, u), NEW op \in {"add", "set", "log"}, NEW h, NEW v
  PROVE  Open(m, EditBy(u, op, h, v))
<1>1. CASE op = "add"
  <2> DEFINE f == Added(u.fields, h, v)
  <2>1. EditBy(u, op, h, v) = [u EXCEPT !.fields = f]
    BY <1>1 DEF EditBy
  <2> HIDE DEF f
  <2>2. Open(m, [u EXCEPT !.fields = f])
    BY OpenEdits
  <2>3. QED
    BY <2>1, <2>2
<1>2. CASE op = "set"
  <2> DEFINE f == Put(u.fields, h, v)
  <2>1. EditBy(u, op, h, v) = [u EXCEPT !.fields = f]
    BY <1>2 DEF EditBy
  <2> HIDE DEF f
  <2>2. Open(m, [u EXCEPT !.fields = f])
    BY OpenEdits
  <2>3. QED
    BY <2>1, <2>2
<1>3. CASE op = "log"
  <2> DEFINE f == Append(u.logs, v)
  <2>1. EditBy(u, op, h, v) = [u EXCEPT !.logs = f]
    BY <1>3 DEF EditBy
  <2> HIDE DEF f
  <2>2. Open(m, [u EXCEPT !.logs = f])
    BY OpenEdits
  <2>3. QED
    BY <2>1, <2>2
<1>4. QED
  BY <1>1, <1>2, <1>3

LEMMA ValueThenEdit ==
  ASSUME NEW m, NEW q, NEW skip, NEW to, NEW x, NEW y, NEW v, NEW b, b = <<x, y>>,
         Lies(m, q, b, skip, to), NEW u, Open(m, u), NEW g, IsRegs(g), Builds(m, x, u, g, v),
         y.op \in {"add", "set", "log"}
  PROVE  Reaches(m, Config(q + 1, u, g), q + Len(b) + 1, EditBy(u, y.op, y.arg, v))
<1> DEFINE g1 == [g EXCEPT !.value = v]
           t == EditBy(u, y.op, y.arg, v)
<1>1. q \in Nat /\ Is(m, q + 1, x) /\ Is(m, q + 2, y) /\ Len(b) = 2
  <2>1. Len(b) = 2 /\ b[1] = x /\ b[2] = y
    OBVIOUS
  <2>2. 1 \in 1 .. Len(b) /\ 2 \in 1 .. Len(b)
    BY <2>1
  <2>3. Lies(m, q, b, skip, to)
    OBVIOUS
  <2>4. q \in Nat /\ Is(m, q + 1, b[1]) /\ Is(m, q + 2, b[2])
    BY <2>2, <2>3, LiesAt
  <2>5. QED
    BY <2>1, <2>4
<1>2. q + 1 + 1 = q + 2 /\ q + 2 + 1 = q + Len(b) + 1
  BY <1>1
<1>3. Leads(m, Config(q + 1, u, g), Config(q + 2, u, g1))
  BY <1>1, <1>2 DEF Builds
<1>4. IsRegs(g1) /\ g1.value = v
  BY DEF IsRegs
<1> HIDE DEF g1
<1>5. Leads(m, Config(q + 2, u, g1), Config(q + 2 + 1, t, g1))
  <2>1. CASE y.op = "add"
    <3>1. Leads(m, Config(q + 2, u, g1), Config(q + 2 + 1, [u EXCEPT !.fields = Added(u.fields, y.arg, g1.value)], g1))
      BY <1>1, <2>1, EditsRun
    <3>2. QED
      BY <1>4, <2>1, <3>1 DEF EditBy
  <2>2. CASE y.op = "set"
    <3>1. Leads(m, Config(q + 2, u, g1), Config(q + 2 + 1, [u EXCEPT !.fields = Put(u.fields, y.arg, g1.value)], g1))
      BY <1>1, <2>2, EditsRun
    <3>2. QED
      BY <1>4, <2>2, <3>1 DEF EditBy
  <2>3. CASE y.op = "log"
    <3>1. Leads(m, Config(q + 2, u, g1), Config(q + 2 + 1, [u EXCEPT !.logs = Append(u.logs, g1.value)], g1))
      BY <1>1, <2>3, EditsRun
    <3>2. QED
      BY <1>4, <2>3, <3>1 DEF EditBy
  <2>4. QED
    BY <2>1, <2>2, <2>3
<1>6. Open(m, t)
  BY OpenEditBy
<1> HIDE DEF t
<1>7. Leads(m, Config(q + 1, u, g), Config(q + Len(b) + 1, t, g1))
  BY <1>2, <1>3, <1>5, LeadsOn
<1>8. Reaches(m, Config(q + 1, u, g), q + Len(b) + 1, t)
  BY <1>4, <1>6, <1>7, ReachesHere
<1>9. QED
  BY <1>8 DEF t

LEMMA HeaderActRuns ==
  ASSUME NEW m, NEW q, NEW skip, NEW to, NEW r, NEW i, IsValue(r.new), Groups(r.match.text) \in Nat,
         Lies(m, q, EmitHeaderAction(r, i), skip, to), NEW u, Open(m, u), NEW g, IsRegs(g),
         r.action = "store" => g.header = Value(u.fields, r.header)
  PROVE  Reaches(m, Config(q + 1, u, g), q + Len(EmitHeaderAction(r, i)) + 1, HeaderAct(u, r, i))
<1> DEFINE b == EmitHeaderAction(r, i)
           c == Config(q + 1, u, g)
           end == q + Len(b) + 1
           v == Eval(u, r.new)
           w == Reason(u, r)
<1>0. q \in Nat /\ Lies(m, q, b, skip, to)
  BY DEF Lies
<1>1. ASSUME NEW n, Is(m, n, Call("value", r.new))
      PROVE  Leads(m, Config(n, u, g), Config(n + 1, u, [g EXCEPT !.value = v]))
  BY <1>1, ValueRuns
<1>2. ASSUME NEW n, Is(m, n, EmitReason(r))
      PROVE  Leads(m, Config(n, u, g), Config(n + 1, u, [g EXCEPT !.value = w]))
  BY <1>2, ReasonRuns
<1> HIDE DEF v, w
<1>3. CASE r.action = "add"
  <2> DEFINE x == Call("value", r.new)
             y == Call("add", r.header)
  <2>1. b = <<x, y>> /\ HeaderAct(u, r, i) = EditBy(u, "add", r.header, v)
    BY <1>3 DEF EmitHeaderAction, HeaderAct, SetsHeader, EditBy, v
  <2>2. y.op = "add" /\ y.arg = r.header
    BY DEF Call
  <2>3. Builds(m, x, u, g, v)
    BY <1>1 DEF Builds
  <2> HIDE DEF x, y, b
  <2>4. Reaches(m, Config(q + 1, u, g), q + Len(b) + 1, EditBy(u, y.op, y.arg, v))
    BY <1>0, <2>1, <2>2, <2>3, ValueThenEdit
  <2>5. QED
    BY <2>1, <2>2, <2>4 DEF b
<1>4. CASE SetsHeader(r)
  <2> DEFINE x == Call("value", r.new)
             y == Call("set", r.header)
  <2>0. r.action \notin {"add", "delete", "store", "log", "reject"}
    BY <1>4 DEF SetsHeader
  <2>1. b = <<x, y>> /\ HeaderAct(u, r, i) = EditBy(u, "set", r.header, v)
    BY <1>4, <2>0 DEF EmitHeaderAction, HeaderAct, EditBy, v
  <2>2. y.op = "set" /\ y.arg = r.header
    BY DEF Call
  <2>3. Builds(m, x, u, g, v)
    BY <1>1 DEF Builds
  <2> HIDE DEF x, y, b
  <2>4. Reaches(m, Config(q + 1, u, g), q + Len(b) + 1, EditBy(u, y.op, y.arg, v))
    BY <1>0, <2>1, <2>2, <2>3, ValueThenEdit
  <2>5. QED
    BY <2>1, <2>2, <2>4 DEF b
<1>5. CASE r.action = "delete"
  <2>1. /\ b = <<Call("delete", r.header)>>
        /\ HeaderAct(u, r, i) = [u EXCEPT !.fields = Without(u.fields, r.header)]
    BY <1>5 DEF EmitHeaderAction, HeaderAct, SetsHeader
  <2> HIDE DEF b
  <2>2. Reaches(m, Config(q + 1, u, g), q + Len(b) + 1, [u EXCEPT !.fields = Without(u.fields, r.header)])
    BY <1>0, <2>1, DeleteRuns
  <2>3. QED
    BY <2>1, <2>2 DEF b
<1>6. CASE r.action = "store" /\ r.cmp = "pattern"
  <2>1. b = FlattenSeq(GroupBlocks(r, i)) /\ HeaderAct(u, r, i) = StoreGroups(u, r, i)
    BY <1>6 DEF EmitHeaderAction, HeaderAct, SetsHeader, GroupBlocks
  <2> HIDE DEF b
  <2>2. QED
    BY <1>0, <2>1, GroupsRun DEF b
<1>7. CASE r.action = "store" /\ r.cmp # "pattern"
  <2> DEFINE k == Key(RuleName(r, i), 0)
  <2>1. b = <<Call("store", [key |-> k, reg |-> "header"])>>
    BY <1>7 DEF EmitHeaderAction, SetsHeader
  <2>2. HeaderAct(u, r, i) = StoreSlot(u, k, g["header"])
    BY <1>7 DEF HeaderAct, SetsHeader
  <2> HIDE DEF b, k
  <2>3. Reaches(m, Config(q + 1, u, g), q + Len(b) + 1, StoreSlot(u, k, g["header"]))
    BY <1>0, <2>1, StoreOneRuns
  <2>4. QED
    BY <2>2, <2>3 DEF b
<1>8. CASE r.action = "log"
  <2> DEFINE x == EmitReason(r)
             y == Call("log", <<>>)
  <2>1. b = <<x, y>> /\ HeaderAct(u, r, i) = EditBy(u, "log", <<>>, w)
    BY <1>8 DEF EmitHeaderAction, HeaderAct, SetsHeader, EditBy, w
  <2>2. y.op = "log" /\ y.arg = <<>>
    BY DEF Call
  <2>3. Builds(m, x, u, g, w)
    BY <1>2 DEF Builds
  <2> HIDE DEF x, y, b
  <2>4. Reaches(m, Config(q + 1, u, g), q + Len(b) + 1, EditBy(u, y.op, y.arg, w))
    BY <1>0, <2>1, <2>2, <2>3, ValueThenEdit
  <2>5. QED
    BY <2>1, <2>2, <2>4 DEF b
<1>9. CASE r.action = "reject"
  <2>1. /\ b = <<EmitReason(r), Call("reject", <<>>)>>
        /\ HeaderAct(u, r, i) = [u EXCEPT !.verdict = <<Reason(u, r)>>]
    BY <1>9 DEF EmitHeaderAction, HeaderAct, SetsHeader
  <2> HIDE DEF b
  <2>2. Reaches(m, Config(q + 1, u, g), q + Len(b) + 1, [u EXCEPT !.verdict = <<Reason(u, r)>>])
    BY <1>0, <2>1, RejectRuns
  <2>3. QED
    BY <2>1, <2>2 DEF b
<1>10. CASE r.action \notin {"add", "delete", "store", "log", "reject"} /\ ~SetsHeader(r)
  <2>1. b = <<>> /\ Len(<<>>) = 0 /\ HeaderAct(u, r, i) = u
    BY <1>10 DEF EmitHeaderAction, HeaderAct
  <2>2. end = q + 1
    BY <1>0, <2>1
  <2>3. QED
    BY <2>1, <2>2, LeadsNowhere, ReachesHere
<1>11. QED
  BY <1>3, <1>4, <1>5, <1>6, <1>7, <1>8, <1>9, <1>10

ElementBlocks(r) == [j \in DOMAIN r.elements |-> EmitElement(r, r.elements[j])]

LEMMA SoundElementBlocks ==
  ASSUME NEW r, IsRule(r)
  PROVE  SoundBlocks(ElementBlocks(r), Len(r.elements)) /\ Len(r.elements) \in Nat
         /\ \A j \in 1 .. Len(r.elements) : ElementBlocks(r)[j] = EmitElement(r, r.elements[j])
<1> DEFINE n == Len(r.elements)
           w == ElementBlocks(r)
<1>1. n \in Nat /\ DOMAIN r.elements = 1 .. n
  BY DEF IsRule
<1>2. \A j \in 1 .. n : w[j] = EmitElement(r, r.elements[j])
  BY <1>1 DEF ElementBlocks
<1>3. ASSUME NEW j \in 1 .. n PROVE Sound(w[j])
  BY <1>2, SoundElement
<1>4. w = [j \in 1 .. n |-> w[j]]
  BY <1>1 DEF ElementBlocks
<1> HIDE DEF w, n
<1>5. SoundBlocks(w, n)
  BY <1>1, <1>3, <1>4 DEF SoundBlocks
<1>6. QED
  BY <1>1, <1>2, <1>5 DEF w, n

LEMMA ElementsRun ==
  ASSUME NEW m, NEW o, NEW to, NEW r, IsRule(r), \A e \in ToSet(r.elements) : IsValue(e.new),
         Lies(m, o, FlattenSeq(ElementBlocks(r)), "rule", to), NEW s, Open(m, s), NEW g, IsRegs(g)
  PROVE  Reaches(m, Config(o + 1, s, g), o + Len(FlattenSeq(ElementBlocks(r))) + 1, RunElements(s, r))
<1> DEFINE N == Len(r.elements)
           w == ElementBlocks(r)
           after == AfterElements(s, r)
           c == Config(o + 1, s, g)
           Done(n) == Reaches(m, c, o + PieceStart(w, n + 1) + 1, after[n])
           I == {n \in Nat : n <= N => Done(n)}
<1>1. /\ N \in Nat /\ SoundBlocks(w, N) /\ o \in Nat
      /\ \A n \in 1 .. N : w[n] = EmitElement(r, r.elements[n])
  BY SoundElementBlocks DEF Lies
<1>2. after[0] = s /\ \A n \in 1 .. N : after[n] = NextElement(after[n - 1], r, r.elements[n])
  <2>1. Len(r.elements) \in Nat
    BY <1>1
  <2>2. QED
    BY <2>1, AfterElementsUnfolds
<1>3. /\ PieceStart(w, 1) = 0 /\ PieceStart(w, N + 1) = Len(FlattenSeq(w))
      /\ \A n \in 1 .. N : /\ PieceStart(w, n) \in Nat /\ Len(w[n]) \in Nat
                           /\ PieceStart(w, n + 1) = PieceStart(w, n) + Len(w[n])
  BY <1>1, PiecesOfBlocks
<1>4. \A n \in 1 .. N : IsValue(r.elements[n].new)
  BY DEF IsRule
<1>5. Lies(m, o, FlattenSeq(w), "rule", to)
  OBVIOUS
<1>6. RunElements(s, r) = after[N]
  BY DEF RunElements
<1> HIDE DEF w, after, N
<1>7. 0 \in I
  <2>1. Leads(m, c, Config(o + 1, s, g))
    BY LeadsNowhere
  <2>2. o + PieceStart(w, 0 + 1) + 1 = o + 1
    BY <1>1, <1>3
  <2>3. Done(0)
    BY <1>2, <2>1, <2>2, ReachesHere
  <2>4. QED
    BY <2>3
<1>8. ASSUME NEW n \in I PROVE n + 1 \in I
  <2>0. n \in Nat /\ n + 1 \in Nat /\ (n + 1) - 1 = n
    OBVIOUS
  <2> SUFFICES ASSUME n + 1 <= N PROVE Done(n + 1)
    BY <2>0
  <2>1. n + 1 \in 1 .. N /\ Done(n)
    BY <1>1, <2>0
  <2> DEFINE q == o + PieceStart(w, n + 1)
             b == w[n + 1]
             t == after[n]
             e == r.elements[n + 1]
             u == NextElement(t, r, e)
  <2>2. Lies(m, q, b, "rule", to)
    BY <1>1, <1>5, <2>1, LiesPiece
  <2>3. b = EmitElement(r, e) /\ IsValue(e.new)
    BY <1>1, <1>4, <2>1
  <2>4. q + Len(b) + 1 = o + PieceStart(w, (n + 1) + 1) + 1
    BY <1>1, <1>3, <2>1
  <2>5. after[n + 1] = u
    BY <1>2, <2>0, <2>1
  <2>6. Reaches(m, c, q + 1, t)
    BY <2>1
  <2> HIDE DEF b, t, e, q, c
  <2>7. ASSUME Open(m, t), NEW h, IsRegs(h)
        PROVE  Reaches(m, Config(q + 1, t, h), q + Len(b) + 1, u)
    <3>1. u = RunElement(t, r, e)
      BY <2>7 DEF NextElement, Open
    <3>2. QED
      BY <2>2, <2>3, <2>7, <3>1, ElementRuns
  <2>8. t.verdict # Accepted => u = t
    BY DEF NextElement
  <2> HIDE DEF u
  <2>9. Reaches(m, c, q + Len(b) + 1, u)
    BY <2>6, <2>7, <2>8, ReachesNext
  <2>10. QED
    BY <2>4, <2>5, <2>9 DEF b
<1>9. I = Nat
  <2> HIDE DEF I
  <2>1. QED
    BY <1>7, <1>8, NatClosure DEF I
<1>10. Done(N)
  BY <1>1, <1>9
<1>11. QED
  BY <1>3, <1>6, <1>10 DEF w

RightType(s, r) == (r.msg = "request" => s.request) /\ (r.msg = "reply" => ~s.request)
RightMethod(s, r) == r.methods # <<>> => \E i \in DOMAIN r.methods : Fold(r.methods[i]) = Fold(s.method)

TypeTest(r)   == If(r.msg # "any", <<Branch("is_request", r.msg = "request", "rule")>>)
MethodTest(r) == If(r.methods # <<>>, <<Branch("method", r.methods, "rule")>>)
HeaderRead(r) == If(r.match # NoMatch \/ r.action = "store", <<Call("get", r.header)>>)
HeaderGuard(r) == EmitMatchGuard(r.cmp, "any", r.match, "header", "rule")
ElementPart(r) == If(r.action # "reject", FlattenSeq(ElementBlocks(r)))

LEMMA TypeTestRuns ==
  ASSUME NEW m, NEW o, NEW to, NEW r, r.msg \in {"any", "request", "reply"},
         Lies(m, o, TypeTest(r), "rule", to), NEW s, Open(m, s), NEW g
  PROVE  Leads(m, Config(o + 1, s, g),
               Config(IF RightType(s, r) THEN o + Len(TypeTest(r)) + 1 ELSE to, s, g))
<1> DEFINE b == TypeTest(r)
           x == Branch("is_request", r.msg = "request", "rule")
<1>0. o \in Nat /\ Lies(m, o, b, "rule", to)
  BY DEF Lies
<1>1. CASE r.msg = "any"
  <2>1. b = <<>> /\ Len(<<>>) = 0 /\ RightType(s, r)
    BY <1>1 DEF TypeTest, If, RightType
  <2>2. o + Len(b) + 1 = o + 1
    BY <1>0, <2>1
  <2>3. QED
    BY <2>1, <2>2, LeadsNowhere
<1>2. CASE r.msg # "any"
  <2>1. b = <<x>> /\ Len(b) = 1 /\ b[1] = x
    BY <1>2 DEF TypeTest, If
  <2>2. x.op = "is_request" /\ x.arg = (r.msg = "request") /\ x.skip = "rule"
    BY DEF Branch
  <2> HIDE DEF x, b
  <2>3. Is(m, o + 1, x) /\ o + 1 + m.code[o + 1].by = to
    <3>1. 1 \in 1 .. Len(b)
      BY <2>1
    <3>2. Is(m, o + 1, b[1]) /\ (b[1].skip = "rule" => o + 1 + m.code[o + 1].by = to)
      BY <1>0, <3>1, LiesAt
    <3>3. QED
      BY <2>1, <2>2, <3>2
  <2>4. (s.request = x.arg) <=> RightType(s, r)
    BY <1>2, <2>2 DEF Open, RightType
  <2>5. Leads(m, Config(o + 1, s, g),
              Config(IF s.request = x.arg THEN o + 1 + 1 ELSE o + 1 + m.code[o + 1].by, s, g))
    BY <2>2, <2>3, TestsRun
  <2>6. o + Len(b) + 1 = o + 1 + 1
    BY <1>0, <2>1
  <2>7. (IF s.request = x.arg THEN o + 1 + 1 ELSE o + 1 + m.code[o + 1].by)
          = IF RightType(s, r) THEN o + Len(b) + 1 ELSE to
    BY <2>3, <2>4, <2>6
  <2>8. QED
    BY <2>5, <2>7 DEF b
<1>3. QED
  BY <1>1, <1>2

LEMMA MethodTestRuns ==
  ASSUME NEW m, NEW o, NEW to, NEW r, Lies(m, o, MethodTest(r), "rule", to), NEW s, NEW g
  PROVE  Leads(m, Config(o + 1, s, g),
               Config(IF RightMethod(s, r) THEN o + Len(MethodTest(r)) + 1 ELSE to, s, g))
<1> DEFINE b == MethodTest(r)
           x == Branch("method", r.methods, "rule")
<1>0. o \in Nat /\ Lies(m, o, b, "rule", to)
  BY DEF Lies
<1>1. CASE r.methods = <<>>
  <2>1. b = <<>> /\ Len(<<>>) = 0 /\ RightMethod(s, r)
    BY <1>1 DEF MethodTest, If, RightMethod
  <2>2. o + Len(b) + 1 = o + 1
    BY <1>0, <2>1
  <2>3. QED
    BY <2>1, <2>2, LeadsNowhere
<1>2. CASE r.methods # <<>>
  <2>1. b = <<x>> /\ Len(b) = 1 /\ b[1] = x
    BY <1>2 DEF MethodTest, If
  <2>2. x.op = "method" /\ x.arg = r.methods /\ x.skip = "rule"
    BY DEF Branch
  <2> HIDE DEF x, b
  <2>3. Is(m, o + 1, x) /\ o + 1 + m.code[o + 1].by = to
    <3>1. 1 \in 1 .. Len(b)
      BY <2>1
    <3>2. Is(m, o + 1, b[1]) /\ (b[1].skip = "rule" => o + 1 + m.code[o + 1].by = to)
      BY <1>0, <3>1, LiesAt
    <3>3. QED
      BY <2>1, <2>2, <3>2
  <2> DEFINE found == \E i \in DOMAIN x.arg : Fold(x.arg[i]) = Fold(s.method)
  <2>4. found <=> RightMethod(s, r)
    BY <1>2, <2>2 DEF RightMethod
  <2>5. Leads(m, Config(o + 1, s, g),
              Config(IF found THEN o + 1 + 1 ELSE o + 1 + m.code[o + 1].by, s, g))
    BY <2>2, <2>3, TestsRun
  <2> HIDE DEF found
  <2>6. o + Len(b) + 1 = o + 1 + 1
    BY <1>0, <2>1
  <2>7. (IF found THEN o + 1 + 1 ELSE o + 1 + m.code[o + 1].by)
          = IF RightMethod(s, r) THEN o + Len(b) + 1 ELSE to
    BY <2>3, <2>4, <2>6
  <2>8. QED
    BY <2>5, <2>7 DEF b
<1>3. QED
  BY <1>1, <1>2

\* After the header has been read, where the rule needs it.
HasRead(g, r, v) == IsRegs(g) /\ (r.match # NoMatch \/ r.action = "store" => g.header = v)

LEMMA HeaderReadRuns ==
  ASSUME NEW m, NEW o, NEW to, NEW r, Lies(m, o, HeaderRead(r), "rule", to), NEW s, NEW g, IsRegs(g)
  PROVE  \E h : /\ HasRead(h, r, Value(s.fields, r.header))
                /\ Leads(m, Config(o + 1, s, g), Config(o + Len(HeaderRead(r)) + 1, s, h))
<1> DEFINE b == HeaderRead(r)
           x == Call("get", r.header)
           v == Value(s.fields, r.header)
           h == [g EXCEPT !.header = v]
<1>0. o \in Nat /\ Lies(m, o, b, "rule", to)
  BY DEF Lies
<1>1. CASE ~(r.match # NoMatch \/ r.action = "store")
  <2>1. b = <<>> /\ Len(<<>>) = 0
    BY <1>1 DEF HeaderRead, If
  <2>2. o + Len(b) + 1 = o + 1
    BY <1>0, <2>1
  <2>3. HasRead(g, r, v)
    BY <1>1 DEF HasRead
  <2>4. QED
    BY <2>1, <2>2, <2>3, LeadsNowhere
<1>2. CASE r.match # NoMatch \/ r.action = "store"
  <2>1. b = <<x>> /\ Len(b) = 1 /\ b[1] = x
    BY <1>2 DEF HeaderRead, If
  <2>2. x.op = "get" /\ x.arg = r.header
    BY DEF Call
  <2> HIDE DEF x, b
  <2>3. Is(m, o + 1, x)
    <3>1. 1 \in 1 .. Len(b)
      BY <2>1
    <3>2. Is(m, o + 1, b[1])
      BY <1>0, <3>1, LiesAt
    <3>3. QED
      BY <2>1, <3>2
  <2>4. Leads(m, Config(o + 1, s, g), Config(o + 1 + 1, s, h))
    BY <2>2, <2>3, ReadsRun
  <2>5. o + Len(b) + 1 = o + 1 + 1
    BY <1>0, <2>1
  <2>6. HasRead(h, r, v)
    <3> HIDE DEF v
    <3>1. QED
      BY RegsKept DEF HasRead
  <2> HIDE DEF h, v
  <2>7. QED
    BY <2>4, <2>5, <2>6 DEF b, v
<1>3. QED
  BY <1>1, <1>2

\* A guard that was emitted has its header, one that was not does not look at it.
LEMMA GuardHasRead ==
  ASSUME NEW g, NEW r, NEW v, HasRead(g, r, v), NEW s
  PROVE  /\ Passes(s, r.cmp, "any", r.match, g["header"]) <=> Passes(s, r.cmp, "any", r.match, v)
         /\ AfterGuard(s, r.cmp, r.match, g["header"]) = AfterGuard(s, r.cmp, r.match, v)
<1>1. CASE Unconditional(r.match)
  BY <1>1 DEF Passes, AfterGuard
<1>2. CASE ~Unconditional(r.match)
  <2>1. g.header = v
    BY <1>2 DEF HasRead, Unconditional
  <2>2. QED
    BY <2>1
<1>3. QED
  BY <1>1, <1>2

\* The rest of a rule whose guards let the packet pass.
LEMMA RuleActs ==
  ASSUME NEW m, NEW q, NEW to, NEW r, IsFullRule(r), NEW i,
         Lies(m, q, EmitHeaderAction(r, i), "rule", to),
         Lies(m, q + Len(EmitHeaderAction(r, i)), ElementPart(r), "rule", to),
         NEW u, Open(m, u), NEW g, HasRead(g, r, Value(u.fields, r.header))
  PROVE  Reaches(m, Config(q + 1, u, g),
                 q + Len(EmitHeaderAction(r, i)) + Len(ElementPart(r)) + 1,
                 RunElements(HeaderAct(u, r, i), r))
<1> DEFINE o == q + Len(EmitHeaderAction(r, i))
           f == ElementPart(r)
           t == HeaderAct(u, r, i)
           c == Config(q + 1, u, g)
<1>1. IsRegs(g) /\ (r.action = "store" => g.header = Value(u.fields, r.header))
  BY DEF HasRead
<1>2. IsValue(r.new) /\ Groups(r.match.text) \in Nat
  BY DEF IsFullRule, IsRule
<1>3. Reaches(m, c, o + 1, t)
  BY <1>1, <1>2, HeaderActRuns
<1>4. o \in Nat /\ Lies(m, o, f, "rule", to)
  BY DEF Lies
<1>5. t.verdict # Accepted => RunElements(t, r) = t
  <2>1. Len(r.elements) \in Nat
    BY SoundElementBlocks DEF IsFullRule
  <2> HIDE DEF t
  <2>2. QED
    BY <2>1, RejectedElements
<1>6. ASSUME Open(m, t), NEW h, IsRegs(h)
      PROVE  Reaches(m, Config(o + 1, t, h), o + Len(f) + 1, RunElements(t, r))
  <2>1. r.action # "reject"
    <3>1. SUFFICES ASSUME r.action = "reject" PROVE FALSE
      OBVIOUS
    <3>2. t = [u EXCEPT !.verdict = <<Reason(u, r)>>]
      BY <3>1 DEF HeaderAct, SetsHeader
    <3> DEFINE w == Reason(u, r)
    <3> HIDE DEF w
    <3>3. [u EXCEPT !.verdict = <<w>>].verdict # Accepted
      BY OpenEdits
    <3>4. QED
      BY <1>6, <3>2, <3>3 DEF Open, w
  <2>2. f = FlattenSeq(ElementBlocks(r))
    BY <2>1 DEF ElementPart, If
  <2>3. IsRule(r) /\ \A e \in ToSet(r.elements) : IsValue(e.new)
    BY DEF IsFullRule
  <2> HIDE DEF o, f, t
  <2>4. QED
    BY <1>4, <1>6, <2>2, <2>3, ElementsRun
<1> HIDE DEF o, f, t, c
<1>7. Reaches(m, c, o + Len(f) + 1, RunElements(t, r))
  BY <1>3, <1>5, <1>6, ReachesNext
<1>8. QED
  BY <1>7 DEF o, f, t, c

LEMMA RuleRuns ==
  ASSUME NEW m, NEW o, NEW r, IsFullRule(r), NEW i, Begins(m, o, EmitHeaderRule(r, i)),
         NEW s, Open(m, s), NEW g, IsRegs(g)
  PROVE  Reaches(m, Config(o + 1, s, g), o + Len(EmitHeaderRule(r, i)) + 1, RunRule(s, r, i))
<1> DEFINE a == TypeTest(r)
           b == MethodTest(r)
           c == HeaderRead(r)
           d == HeaderGuard(r)
           e == EmitHeaderAction(r, i)
           f == ElementPart(r)
           R == a \o b \o c \o d \o e \o f
           to == o + Len(R) + 1
           v == Value(s.fields, r.header)
           u == AfterGuard(s, r.cmp, r.match, v)
           x == Config(o + 1, s, g)
<1>1. EmitHeaderRule(r, i) = Link(R, "rule")
  BY DEF EmitHeaderRule, TypeTest, MethodTest, HeaderRead, HeaderGuard, ElementPart, ElementBlocks
<1>2. IsCode(a) /\ IsCode(b) /\ IsCode(c) /\ IsCode(d) /\ IsCode(e) /\ IsCode(f)
  <2>1. /\ Sound(<<Branch("is_request", r.msg = "request", "rule")>>)
        /\ Sound(<<Branch("method", r.methods, "rule")>>)
        /\ Sound(<<Call("get", r.header)>>)
    BY CallsAreEmitted, SoundOne
  <2>2. Sound(a) /\ Sound(b) /\ Sound(c)
    BY <2>1, SoundIf DEF TypeTest, MethodTest, HeaderRead
  <2>3. Sound(d) /\ Sound(e) /\ IsRule(r)
    BY SoundGuard, SoundHeaderAction DEF HeaderGuard, IsRule, IsFullRule
  <2>4. Sound(FlattenSeq(ElementBlocks(r)))
    BY <2>3, SoundElementBlocks, SoundFlatten
  <2>5. Sound(f)
    BY <2>4, SoundIf DEF ElementPart
  <2>6. QED
    BY <2>2, <2>3, <2>5 DEF Sound
<1> HIDE DEF a, b, c, d, e, f
<1>3. IsCode(a \o b)
  BY <1>2, Joined
<1>4. IsCode(a \o b \o c)
  BY <1>2, <1>3, Joined
<1>5. IsCode(a \o b \o c \o d)
  BY <1>2, <1>4, Joined
<1>6. IsCode(a \o b \o c \o d \o e)
  BY <1>2, <1>5, Joined
<1>7. IsCode(R)
  BY <1>2, <1>6, Joined
<1> DEFINE ab == a \o b
           abc == ab \o c
           abcd == abc \o d
           abcde == abcd \o e
<1>8. R = abcde \o f
  OBVIOUS
<1>9. IsCode(ab) /\ IsCode(abc) /\ IsCode(abcd) /\ IsCode(abcde)
  BY <1>3, <1>4, <1>5, <1>6
<1> HIDE DEF R
<1>10. Lies(m, o, R, "rule", to) /\ Len(EmitHeaderRule(r, i)) = Len(R)
  BY <1>1, <1>7, LiesRule, LinkKeeps
<1> HIDE DEF to, abcde
<1>11. /\ Lies(m, o, abcde, "rule", to) /\ Lies(m, o + Len(abcde), f, "rule", to)
       /\ Len(abcde) \in Nat /\ Len(f) \in Nat /\ Len(R) = Len(abcde) + Len(f)
  BY <1>2, <1>8, <1>9, <1>10, LiesBoth
<1> HIDE DEF abcd
<1>12. /\ Lies(m, o, abcd, "rule", to) /\ Lies(m, o + Len(abcd), e, "rule", to)
       /\ Len(abcd) \in Nat /\ Len(e) \in Nat /\ Len(abcde) = Len(abcd) + Len(e)
  BY <1>2, <1>9, <1>11, LiesBoth DEF abcde
<1> HIDE DEF abc
<1>13. /\ Lies(m, o, abc, "rule", to) /\ Lies(m, o + Len(abc), d, "rule", to)
       /\ Len(abc) \in Nat /\ Len(d) \in Nat /\ Len(abcd) = Len(abc) + Len(d)
  BY <1>2, <1>9, <1>12, LiesBoth DEF abcd
<1> HIDE DEF ab
<1>14. /\ Lies(m, o, ab, "rule", to) /\ Lies(m, o + Len(ab), c, "rule", to)
       /\ Len(ab) \in Nat /\ Len(c) \in Nat /\ Len(abc) = Len(ab) + Len(c)
  BY <1>2, <1>9, <1>13, LiesBoth DEF abc
<1>15. /\ Lies(m, o, a, "rule", to) /\ Lies(m, o + Len(a), b, "rule", to)
       /\ Len(a) \in Nat /\ Len(b) \in Nat /\ Len(ab) = Len(a) + Len(b)
  BY <1>2, <1>14, LiesBoth DEF ab
<1>16. o \in Nat
  BY <1>10 DEF Lies
<1>17. Concerns(s, r) <=> RightType(s, r) /\ RightMethod(s, r)
  BY DEF Concerns, RightType, RightMethod
<1>18. Leads(m, x, Config(IF RightType(s, r) THEN o + Len(a) + 1 ELSE to, s, g))
  BY <1>15, TypeTestRuns DEF a, IsFullRule
<1>19. Leads(m, Config(o + Len(a) + 1, s, g),
             Config(IF RightMethod(s, r) THEN o + Len(a) + Len(b) + 1 ELSE to, s, g))
  BY <1>15, MethodTestRuns DEF b
<1> HIDE DEF x
<1>20. CASE ~Concerns(s, r)
  <2>1. RunRule(s, r, i) = s
    BY <1>20 DEF RunRule
  <2>2. Leads(m, x, Config(to, s, g))
    <3>1. CASE ~RightType(s, r)
      BY <1>18, <3>1
    <3>2. CASE RightType(s, r) /\ ~RightMethod(s, r)
      BY <1>18, <1>19, <3>2, LeadsOn
    <3>3. QED
      BY <1>17, <1>20, <3>1, <3>2
  <2>3. QED
    BY <1>10, <2>1, <2>2, ReachesHere DEF to, x
<1>21. CASE Concerns(s, r)
  <2>1. o + Len(a) + Len(b) + 1 = o + Len(ab) + 1
    BY <1>15, <1>16
  <2>2. Leads(m, x, Config(o + Len(ab) + 1, s, g))
    BY <1>17, <1>18, <1>19, <1>21, <2>1, LeadsOn
  <2>3. PICK h : /\ HasRead(h, r, v)
                 /\ Leads(m, Config(o + Len(ab) + 1, s, g), Config(o + Len(ab) + Len(c) + 1, s, h))
    BY <1>14, HeaderReadRuns DEF c
  <2>4. o + Len(ab) + Len(c) + 1 = o + Len(abc) + 1
    BY <1>14, <1>16
  <2>5. Leads(m, x, Config(o + Len(abc) + 1, s, h))
    BY <2>2, <2>3, <2>4, LeadsOn
  <2> DEFINE ok == Passes(s, r.cmp, "any", r.match, v)
  <2>6. Leads(m, Config(o + Len(abc) + 1, s, h),
              Config(IF ok THEN o + Len(abc) + Len(d) + 1 ELSE to, u, h))
    <3>1. Leads(m, Config(o + Len(abc) + 1, s, h),
                Config(IF Passes(s, r.cmp, "any", r.match, h["header"])
                       THEN o + Len(abc) + Len(d) + 1 ELSE to,
                       AfterGuard(s, r.cmp, r.match, h["header"]), h))
      BY <1>13, GuardRuns DEF d, HeaderGuard
    <3>2. /\ Passes(s, r.cmp, "any", r.match, h["header"]) <=> ok
          /\ AfterGuard(s, r.cmp, r.match, h["header"]) = u
      BY <2>3, GuardHasRead
    <3> HIDE DEF ok, u
    <3>3. QED
      BY <3>1, <3>2
  <2>7. Open(m, u) /\ u.fields = s.fields
    BY OpenGuard
  <2>8. o + Len(abc) + Len(d) + 1 = o + Len(abcd) + 1
    BY <1>13, <1>16
  <2>9. RunRule(s, r, i) = IF ok THEN RunElements(HeaderAct(u, r, i), r) ELSE u
    BY <1>21 DEF RunRule
  <2>10. v = Value(u.fields, r.header)
    BY <2>7
  <2> HIDE DEF u, ok, v
  <2>11. CASE ~ok
    <3>1. Leads(m, x, Config(to, u, h))
      BY <2>5, <2>6, <2>11, LeadsOn
    <3>2. QED
      BY <1>10, <2>3, <2>7, <2>9, <2>11, <3>1, ReachesHere DEF to, x, HasRead
  <2>12. CASE ok
    <3>1. Leads(m, x, Config(o + Len(abcd) + 1, u, h))
      BY <2>5, <2>6, <2>8, <2>12, LeadsOn
    <3>2. Lies(m, o + Len(abcd) + Len(e), f, "rule", to)
      <4>1. o + Len(abcde) = o + Len(abcd) + Len(e)
        BY <1>12, <1>16
      <4>2. QED
        BY <1>11, <4>1
    <3>3. Reaches(m, Config(o + Len(abcd) + 1, u, h), o + Len(abcd) + Len(e) + Len(f) + 1,
                  RunElements(HeaderAct(u, r, i), r))
      BY <1>12, <2>3, <2>7, <2>10, <3>2, RuleActs DEF e, f
    <3>4. o + Len(abcd) + Len(e) + Len(f) + 1 = to
      BY <1>11, <1>12, <1>16 DEF to
    <3>5. Reaches(m, x, to, RunElements(HeaderAct(u, r, i), r))
      BY <3>1, <3>3, <3>4, ReachesFrom
    <3>6. QED
      BY <1>10, <2>9, <2>12, <3>5 DEF to, x
  <2>13. QED
    BY <2>11, <2>12
<1>22. QED
  BY <1>20, <1>21

\* What an instruction adds to a table, and what a block does.
Entries(x, table) == IF table = "keys" THEN KeysOf(x) ELSE PatternsOf(x)
TableOf(b, table) == FlattenSeq([k \in DOMAIN b |-> Entries(b[k], table)])

\* Code of which every instruction adds a list.
IsListed(b, table) == IsCode(b) /\ \A k \in 1 .. Len(b) : IsList(Entries(b[k], table))

\* The entries of a set of instructions, as a function.
ListsOf(S, table) == [x \in S |-> Entries(x, table)]

LEMMA TableIsThrough ==
  ASSUME NEW table, NEW S, \A x \in S : IsList(Entries(x, table)),
         NEW b, IsListed(b, table), ToSet(b) \subseteq S
  PROVE  /\ ListsOf(S, table) \in [S -> Seq(UNION {ToSet(Entries(x, table)) : x \in S})]
         /\ b \in Seq(S) /\ TableOf(b, table) = Through(b, ListsOf(S, table))
<1> DEFINE T == UNION {ToSet(Entries(x, table)) : x \in S}
           f == ListsOf(S, table)
<1>1. ASSUME NEW x \in S PROVE Entries(x, table) \in Seq(T)
  <2>1. ToSet(Entries(x, table)) \subseteq T
    OBVIOUS
  <2> HIDE DEF T
  <2>2. QED
    BY <2>1, ListIn
<1> HIDE DEF T
<1>2. f \in [S -> Seq(T)]
  BY <1>1 DEF ListsOf
<1>3. b \in Seq(S)
  BY ListIn DEF IsListed, IsCode, IsList
<1>4. [k \in DOMAIN b |-> Entries(b[k], table)] = [k \in DOMAIN b |-> f[b[k]]]
  <2>1. \A k \in DOMAIN b : b[k] \in S
    BY <1>3
  <2>2. QED
    BY <2>1 DEF ListsOf
<1>5. TableOf(b, table) = Through(b, f)
  BY <1>4 DEF TableOf, Through
<1>6. QED
  BY <1>2, <1>3, <1>5 DEF T

LEMMA ListedEntries ==
  ASSUME NEW table, NEW b, IsListed(b, table)
  PROVE  \A x \in ToSet(b) : IsList(Entries(x, table))
BY CodeIsSequence DEF IsListed, ToSet

LEMMA TableIsList ==
  ASSUME NEW table, NEW b, IsListed(b, table)
  PROVE  IsList(TableOf(b, table))
<1> DEFINE S == ToSet(b)
           T == UNION {ToSet(Entries(x, table)) : x \in S}
           f == ListsOf(S, table)
<1>1. \A x \in S : IsList(Entries(x, table))
  BY ListedEntries
<1>2. f \in [S -> Seq(T)] /\ b \in Seq(S) /\ TableOf(b, table) = Through(b, f)
  BY <1>1, TableIsThrough
<1> HIDE DEF T, S, f
<1>3. Through(b, f) \in Seq(T)
  BY <1>2, ThroughType
<1>4. QED
  BY <1>2, <1>3, SeqIsList

LEMMA TableBoth ==
  ASSUME NEW table, NEW a, NEW b, IsListed(a, table), IsListed(b, table)
  PROVE  /\ IsListed(a \o b, table)
         /\ TableOf(a \o b, table) = TableOf(a, table) \o TableOf(b, table)
<1> DEFINE S == ToSet(a) \cup ToSet(b)
           T == UNION {ToSet(Entries(x, table)) : x \in S}
           f == ListsOf(S, table)
           c == a \o b
<1>1. \A x \in S : IsList(Entries(x, table))
  BY ListedEntries
<1>2. ToSet(a) \subseteq S /\ ToSet(b) \subseteq S
  OBVIOUS
<1>3. /\ IsCode(c) /\ Len(c) = Len(a) + Len(b) /\ Len(a) \in Nat /\ Len(b) \in Nat
      /\ \A k \in 1 .. Len(a) : c[k] = a[k]
      /\ \A k \in 1 .. Len(b) : c[Len(a) + k] = b[k]
  BY Joined DEF IsListed
<1>4. /\ a \in Seq(S) /\ b \in Seq(S) /\ f \in [S -> Seq(T)]
      /\ TableOf(a, table) = Through(a, f) /\ TableOf(b, table) = Through(b, f)
  <2> HIDE DEF S, T, f
  <2>1. /\ ListsOf(S, table) \in [S -> Seq(UNION {ToSet(Entries(x, table)) : x \in S})]
        /\ a \in Seq(S) /\ TableOf(a, table) = Through(a, ListsOf(S, table))
    BY <1>1, <1>2, TableIsThrough
  <2>2. b \in Seq(S) /\ TableOf(b, table) = Through(b, ListsOf(S, table))
    BY <1>1, <1>2, TableIsThrough
  <2>3. QED
    BY <2>1, <2>2 DEF T, f
<1> HIDE DEF c
<1>5. ASSUME NEW k \in 1 .. Len(c) PROVE IsList(Entries(c[k], table)) /\ c[k] \in S
  <2>1. c[k] \in S
    <3>1. CASE k \in 1 .. Len(a)
      BY <1>3, <1>4, <3>1
    <3>2. CASE k \notin 1 .. Len(a)
      <4>1. k - Len(a) \in 1 .. Len(b) /\ k = Len(a) + (k - Len(a))
        BY <1>3, <3>2
      <4>2. c[k] = b[k - Len(a)]
        BY <1>3, <4>1
      <4> HIDE DEF S
      <4>3. QED
        BY <1>4, <4>1, <4>2
    <3>3. QED
      BY <3>1, <3>2
  <2>2. QED
    BY <1>1, <2>1
<1>6. IsListed(c, table)
  BY <1>3, <1>5 DEF IsListed
<1>7. ToSet(c) \subseteq S
  <2>1. DOMAIN c = 1 .. Len(c)
    BY <1>3, CodeIsSequence
  <2>2. QED
    BY <1>5, <2>1 DEF ToSet
<1> HIDE DEF S, T, f
<1>8. TableOf(c, table) = Through(c, f)
  BY <1>1, <1>6, <1>7, TableIsThrough DEF f
<1>9. Through(a \o b, f) = Through(a, f) \o Through(b, f)
  BY <1>4, ThroughConcat
<1>10. QED
  BY <1>4, <1>6, <1>8, <1>9 DEF c

LEMMA TableOne ==
  ASSUME NEW table, NEW x, DOMAIN x = InstructionFields, x.by = 1, IsList(Entries(x, table))
  PROVE  IsListed(<<x>>, table) /\ TableOf(<<x>>, table) = Entries(x, table)
<1> DEFINE b == <<x>>
           t == Entries(x, table)
<1>1. Len(b) = 1 /\ b[1] = x /\ DOMAIN b = {1} /\ b \in Seq({x})
  OBVIOUS
<1> HIDE DEF b
<1>2. IsCode(b)
  BY <1>1, SequenceIsCode
<1>3. IsListed(b, table)
  BY <1>1, <1>2 DEF IsListed
<1>4. [k \in DOMAIN b |-> Entries(b[k], table)] = <<t>>
  BY <1>1
<1>5. FlattenSeq(<<t>>) = t
  <2> HIDE DEF t
  <2>1. t \in Seq(ToSet(t))
    BY DEF IsList, t
  <2>2. QED
    BY <2>1, FlattenOne
<1>6. QED
  BY <1>3, <1>4, <1>5 DEF TableOf, b

LEMMA TableNone == ASSUME NEW table PROVE IsListed(<<>>, table) /\ TableOf(<<>>, table) = <<>>
<1>1. IsCode(<<>>) /\ Len(<<>>) = 0
  BY SoundNone DEF Sound
<1>2. [k \in DOMAIN <<>> |-> Entries(<<>>[k], table)] = <<>>
  OBVIOUS
<1>3. QED
  BY <1>1, <1>2, FlattenEmpty DEF IsListed, TableOf

LEMMA TableLink ==
  ASSUME NEW table, NEW b, IsListed(b, table), NEW skip, IsCode(Link(b, skip))
  PROVE  IsListed(Link(b, skip), table) /\ TableOf(Link(b, skip), table) = TableOf(b, table)
<1> DEFINE c == Link(b, skip)
<1>1. IsCode(b) /\ IsCode(c)
  BY DEF IsListed
<1>2. DOMAIN b = 1 .. Len(b) /\ DOMAIN c = 1 .. Len(b) /\ Len(c) = Len(b)
  BY <1>1, LinkKeeps, CodeIsSequence
<1>3. ASSUME NEW k \in 1 .. Len(b) PROVE Entries(c[k], table) = Entries(b[k], table)
  <2>1. c[k].op = b[k].op /\ c[k].arg = b[k].arg
    BY <1>1, LinkKeeps
  <2> HIDE DEF c
  <2>2. QED
    BY <2>1 DEF Entries, KeysOf, PatternsOf
<1> HIDE DEF c
<1>4. IsListed(c, table)
  BY <1>1, <1>2, <1>3 DEF IsListed
<1>5. [k \in DOMAIN c |-> Entries(c[k], table)] = [k \in DOMAIN b |-> Entries(b[k], table)]
  BY <1>2, <1>3
<1>6. QED
  BY <1>4, <1>5 DEF TableOf, c

LEMMA TableBlocks ==
  ASSUME NEW table, NEW w, NEW n, SoundBlocks(w, n), \A i \in 1 .. n : IsListed(w[i], table)
  PROVE  /\ IsListed(FlattenSeq(w), table)
         /\ TableOf(FlattenSeq(w), table) = FlattenSeq([i \in 1 .. n |-> TableOf(w[i], table)])
<1> DEFINE S == UNION {ToSet(w[i]) : i \in 1 .. n}
           T == UNION {ToSet(Entries(x, table)) : x \in S}
           f == ListsOf(S, table)
           c == FlattenSeq(w)
<1>0. Len(w) = n /\ n \in Nat /\ IsCode(c) /\ DOMAIN w = 1 .. n
  BY PiecesOfBlocks DEF SoundBlocks
<1>1. \A x \in S : IsList(Entries(x, table))
  BY ListedEntries
<1>2. ASSUME NEW i \in 1 .. n
      PROVE  w[i] \in Seq(S) /\ f \in [S -> Seq(T)] /\ TableOf(w[i], table) = Through(w[i], f)
  <2>1. ToSet(w[i]) \subseteq S
    OBVIOUS
  <2> HIDE DEF S, T, f
  <2>2. /\ ListsOf(S, table) \in [S -> Seq(UNION {ToSet(Entries(x, table)) : x \in S})]
        /\ w[i] \in Seq(S) /\ TableOf(w[i], table) = Through(w[i], ListsOf(S, table))
    BY <1>1, <2>1, TableIsThrough
  <2>3. QED
    BY <2>2 DEF T, f
<1>3. f \in [S -> Seq(T)]
  <2>1. ASSUME NEW x \in S PROVE Entries(x, table) \in Seq(T)
    <3>1. ToSet(Entries(x, table)) \subseteq T
      OBVIOUS
    <3> HIDE DEF T, S
    <3>2. QED
      BY <1>1, <3>1, ListIn
  <2> HIDE DEF T, S
  <2>2. QED
    BY <2>1 DEF ListsOf
<1> HIDE DEF S, T, f, c
<1>4. w \in Seq(Seq(S))
  <2>1. w \in [1 .. n -> Seq(S)]
    BY <1>2 DEF SoundBlocks
  <2>2. QED
    BY <1>0, <2>1, FunctionIsSeq
<1>5. c \in Seq(S)
  BY <1>4, FlattenType DEF c
<1>6. ToSet(c) \subseteq S
  BY <1>5 DEF ToSet
<1>7. IsListed(c, table)
  BY <1>0, <1>1, <1>5 DEF IsListed
<1>8. TableOf(c, table) = Through(c, f)
  BY <1>1, <1>6, <1>7, TableIsThrough DEF f
<1>9. Through(FlattenSeq(w), f) = FlattenSeq([i \in DOMAIN w |-> Through(w[i], f)])
  BY <1>3, <1>4, ThroughFlattened
<1>10. [i \in DOMAIN w |-> Through(w[i], f)] = [i \in 1 .. n |-> TableOf(w[i], table)]
  BY <1>0, <1>2
<1>11. QED
  BY <1>7, <1>8, <1>9, <1>10 DEF c

\* A block that adds these keys and these patterns.
Adds(b, keys, patterns) ==
  /\ IsListed(b, "keys") /\ TableOf(b, "keys") = keys
  /\ IsListed(b, "patterns") /\ TableOf(b, "patterns") = patterns

LEMMA AddedAreLists ==
  ASSUME NEW b, NEW keys, NEW patterns, Adds(b, keys, patterns)
  PROVE  IsList(keys) /\ IsList(patterns)
BY TableIsList DEF Adds

LEMMA NothingToAdd ==
  ASSUME NEW t, IsList(t)
  PROVE  <<>> \o t = t /\ t \o <<>> = t
<1>1. t \in Seq(ToSet(t))
  BY DEF IsList
<1>2. QED
  BY <1>1

LEMMA AddsBoth ==
  ASSUME NEW a, NEW b, NEW k, NEW p, NEW l, NEW q, Adds(a, k, p), Adds(b, l, q)
  PROVE  Adds(a \o b, k \o l, p \o q)
<1>1. IsListed(a \o b, "keys") /\ TableOf(a \o b, "keys") = k \o l
  BY TableBoth DEF Adds
<1>2. IsListed(a \o b, "patterns") /\ TableOf(a \o b, "patterns") = p \o q
  BY TableBoth DEF Adds
<1>3. QED
  BY <1>1, <1>2 DEF Adds

\* What adds nothing, before or after what adds something.
LEMMA AddsAlone ==
  ASSUME NEW a, NEW b, NEW k, NEW p
  PROVE  /\ Adds(a, <<>>, <<>>) /\ Adds(b, k, p) => Adds(a \o b, k, p)
         /\ Adds(a, k, p) /\ Adds(b, <<>>, <<>>) => Adds(a \o b, k, p)
<1>1. ASSUME Adds(a, <<>>, <<>>), Adds(b, k, p) PROVE Adds(a \o b, k, p)
  <2>1. <<>> \o k = k /\ <<>> \o p = p
    BY <1>1, AddedAreLists, NothingToAdd
  <2>2. Adds(a \o b, <<>> \o k, <<>> \o p)
    BY <1>1, AddsBoth
  <2>3. QED
    BY <2>1, <2>2
<1>2. ASSUME Adds(a, k, p), Adds(b, <<>>, <<>>) PROVE Adds(a \o b, k, p)
  <2>1. k \o <<>> = k /\ p \o <<>> = p
    BY <1>2, AddedAreLists, NothingToAdd
  <2>2. Adds(a \o b, k \o <<>>, p \o <<>>)
    BY <1>2, AddsBoth
  <2>3. QED
    BY <2>1, <2>2
<1>3. QED
  BY <1>1, <1>2

LEMMA AddsNone == Adds(<<>>, <<>>, <<>>)
BY TableNone DEF Adds

LEMMA AddsIf ==
  ASSUME NEW condition, NEW b, NEW k, NEW p
  PROVE  /\ condition /\ Adds(b, k, p) => Adds(If(condition, b), k, p)
         /\ ~condition \/ Adds(b, <<>>, <<>>) => Adds(If(condition, b), <<>>, <<>>)
<1>1. CASE condition
  <2>1. If(condition, b) = b
    BY <1>1 DEF If
  <2>2. QED
    BY <1>1, <2>1
<1>2. CASE ~condition
  <2>1. If(condition, b) = <<>>
    BY <1>2 DEF If
  <2>2. QED
    BY <1>2, <2>1, AddsNone
<1>3. QED
  BY <1>1, <1>2

LEMMA AddsLink ==
  ASSUME NEW b, NEW k, NEW p, Adds(b, k, p), NEW skip, IsCode(Link(b, skip))
  PROVE  Adds(Link(b, skip), k, p)
BY TableLink DEF Adds

LEMMA AddsBlocks ==
  ASSUME NEW w, NEW n, SoundBlocks(w, n), NEW K, NEW P,
         K = [i \in 1 .. n |-> K[i]], P = [i \in 1 .. n |-> P[i]],
         \A i \in 1 .. n : Adds(w[i], K[i], P[i])
  PROVE  Adds(FlattenSeq(w), FlattenSeq(K), FlattenSeq(P))
<1>1. \A i \in 1 .. n : /\ IsListed(w[i], "keys") /\ TableOf(w[i], "keys") = K[i]
                        /\ IsListed(w[i], "patterns") /\ TableOf(w[i], "patterns") = P[i]
  BY DEF Adds
<1>2. /\ IsListed(FlattenSeq(w), "keys")
      /\ TableOf(FlattenSeq(w), "keys") = FlattenSeq([i \in 1 .. n |-> TableOf(w[i], "keys")])
  BY <1>1, TableBlocks
<1>3. /\ IsListed(FlattenSeq(w), "patterns")
      /\ TableOf(FlattenSeq(w), "patterns") = FlattenSeq([i \in 1 .. n |-> TableOf(w[i], "patterns")])
  BY <1>1, TableBlocks
<1>4. [i \in 1 .. n |-> TableOf(w[i], "keys")] = K
  BY <1>1
<1>5. [i \in 1 .. n |-> TableOf(w[i], "patterns")] = P
  BY <1>1
<1>6. QED
  BY <1>2, <1>3, <1>4, <1>5 DEF Adds

-----------------------------------------------------------------------------
(* The tables of instructions *)

LEMMA AddsOne ==
  ASSUME NEW x, DOMAIN x = InstructionFields, x.by = 1, IsList(KeysOf(x)), IsList(PatternsOf(x))
  PROVE  Adds(<<x>>, KeysOf(x), PatternsOf(x))
<1>1. Entries(x, "keys") = KeysOf(x) /\ Entries(x, "patterns") = PatternsOf(x)
  BY DEF Entries
<1>2. QED
  BY <1>1, TableOne DEF Adds

\* A call that names neither slot nor pattern.
LEMMA AddsPlain ==
  ASSUME NEW op, op \notin {"store", "value", "match"}, NEW arg, NEW skip
  PROVE  Adds(<<Call(op, arg)>>, <<>>, <<>>) /\ Adds(<<Branch(op, arg, skip)>>, <<>>, <<>>)
<1>1. ASSUME NEW x, DOMAIN x = InstructionFields, x.by = 1, x.op = op PROVE Adds(<<x>>, <<>>, <<>>)
  <2>1. KeysOf(x) = <<>> /\ PatternsOf(x) = <<>>
    BY <1>1 DEF KeysOf, PatternsOf
  <2>2. QED
    BY <1>1, <2>1, AddsOne, EmptyIsList
<1>2. /\ DOMAIN Call(op, arg) = InstructionFields /\ Call(op, arg).by = 1 /\ Call(op, arg).op = op
      /\ DOMAIN Branch(op, arg, skip) = InstructionFields /\ Branch(op, arg, skip).by = 1
      /\ Branch(op, arg, skip).op = op
  BY DEF Call, Branch, InstructionFields
<1>3. QED
  BY <1>1, <1>2

LEMMA AddsStore ==
  ASSUME NEW k, NEW reg
  PROVE  Adds(<<Call("store", [key |-> k, reg |-> reg])>>, <<k>>, <<>>)
<1> DEFINE x == Call("store", [key |-> k, reg |-> reg])
<1>1. DOMAIN x = InstructionFields /\ x.by = 1 /\ x.op = "store" /\ x.arg.key = k
  BY DEF Call, InstructionFields
<1> HIDE DEF x
<1>2. KeysOf(x) = <<k>> /\ PatternsOf(x) = <<>>
  BY <1>1 DEF KeysOf, PatternsOf
<1>3. Adds(<<x>>, <<k>>, <<>>)
  BY <1>1, <1>2, AddsOne, EmptyIsList, OneIsList
<1>4. QED
  BY <1>3 DEF x

LEMMA AddsValue ==
  ASSUME NEW v, IsValue(v)
  PROVE  Adds(<<Call("value", v)>>, SlotKeys(v), <<>>)
<1> DEFINE x == Call("value", v)
<1>1. DOMAIN x = InstructionFields /\ x.by = 1 /\ x.op = "value" /\ x.arg = v
  BY DEF Call, InstructionFields
<1> HIDE DEF x
<1>2. KeysOf(x) = SlotKeys(v) /\ PatternsOf(x) = <<>>
  BY <1>1 DEF KeysOf, PatternsOf
<1>3. Adds(<<x>>, SlotKeys(v), <<>>)
  BY <1>1, <1>2, AddsOne, EmptyIsList, SlotKeysAreList
<1>4. QED
  BY <1>3 DEF x

LEMMA AddsReason ==
  ASSUME NEW r, IsValue(r.new)
  PROVE  Adds(<<EmitReason(r)>>, SlotKeys(r.new), <<>>)
<1>1. CASE r.new # <<>> \/ r.name = ""
  <2>1. EmitReason(r) = Call("value", r.new)
    BY <1>1 DEF EmitReason
  <2>2. QED
    BY <2>1, AddsValue
<1>2. CASE r.new = <<>> /\ r.name # ""
  <2> DEFINE seg == [kind |-> "text", text |-> <<r.name>>]
             v == <<seg>>
  <2>1. EmitReason(r) = Call("value", v)
    BY <1>2 DEF EmitReason
  <2>2. seg.kind = "text"
    OBVIOUS
  <2> HIDE DEF seg
  <2>3. ToSet(v) = {seg} /\ v \in Seq({seg}) /\ DOMAIN v = {1} /\ v[1] = seg
    BY DEF ToSet
  <2>4. IsValue(v)
    BY <2>2, <2>3 DEF IsValue
  <2> HIDE DEF v
  <2>5. [j \in DOMAIN v |-> IF v[j].kind = "slot" THEN <<Key(v[j].path[1], v[j].index)>> ELSE <<>>] = << <<>> >>
    BY <2>2, <2>3
  <2>6. FlattenSeq(<< <<>> >>) = <<>>
    <3>1. <<>> \in Seq({})
      OBVIOUS
    <3>2. QED
      BY <3>1, FlattenOne
  <2>7. SlotKeys(v) = <<>> /\ SlotKeys(r.new) = <<>>
    BY <1>2, <2>5, <2>6, NoSlots DEF SlotKeys
  <2>8. QED
    BY <2>1, <2>4, <2>7, AddsValue
<1>3. QED
  BY <1>1, <1>2

LEMMA AddsGuard ==
  ASSUME NEW cmp, NEW kind, NEW mt, NEW reg, NEW skip
  PROVE  Adds(EmitMatchGuard(cmp, kind, mt, reg, skip), <<>>, Pattern(cmp, mt))
<1> DEFINE arg == [cmp |-> cmp, kind |-> kind, match |-> mt, reg |-> reg, regex |-> 0]
           x == Branch("match", arg, skip)
           b == EmitMatchGuard(cmp, kind, mt, reg, skip)
<1>1. CASE Unconditional(mt)
  <2>1. b = <<>> /\ Pattern(cmp, mt) = <<>>
    BY <1>1 DEF EmitMatchGuard, If, Pattern
  <2>2. QED
    BY <2>1, AddsNone
<1>2. CASE ~Unconditional(mt)
  <2>1. b = <<x>>
    BY <1>2 DEF EmitMatchGuard, If
  <2>2. arg.cmp = cmp /\ arg.match = mt
    OBVIOUS
  <2> HIDE DEF arg, b
  <2>3. DOMAIN x = InstructionFields /\ x.by = 1 /\ x.op = "match" /\ x.arg = arg
    BY DEF Branch, InstructionFields
  <2> HIDE DEF x
  <2>4. KeysOf(x) = <<>> /\ PatternsOf(x) = Pattern(cmp, mt)
    BY <2>2, <2>3 DEF KeysOf, PatternsOf
  <2>5. IsList(Pattern(cmp, mt))
    BY EmptyIsList, OneIsList DEF Pattern
  <2>6. Adds(<<x>>, <<>>, Pattern(cmp, mt))
    BY <2>3, <2>4, <2>5, AddsOne, EmptyIsList
  <2>7. QED
    BY <2>1, <2>6 DEF b
<1>3. QED
  BY <1>1, <1>2

\* Two instructions, as one after the other.
LEMMA TwoAreJoined == ASSUME NEW x, NEW y PROVE <<x, y>> = <<x>> \o <<y>>
<1>1. <<x>> \o <<y>> = <<x, y>>
  <2>1. /\ <<x>> \in Seq({x, y}) /\ <<y>> \in Seq({x, y}) /\ <<x, y>> \in Seq({x, y})
        /\ Len(<<x>>) = 1 /\ Len(<<y>>) = 1 /\ Len(<<x, y>>) = 2
        /\ <<x>>[1] = x /\ <<y>>[1] = y /\ <<x, y>>[1] = x /\ <<x, y>>[2] = y
    OBVIOUS
  <2> DEFINE c == <<x>> \o <<y>>
  <2>2. /\ c \in Seq({x, y}) /\ Len(c) = 2
        /\ \A k \in 1 .. 1 : c[k] = <<x>>[k]
        /\ \A k \in 1 + 1 .. 1 + 1 : c[k] = <<y>>[k - 1]
    BY <2>1, ConcatElements
  <2> HIDE DEF c
  <2>3. c[1] = x /\ c[2] = y
    BY <2>1, <2>2
  <2>4. \A k \in 1 .. 2 : k = 1 \/ k = 2
    OBVIOUS
  <2>5. c = <<x, y>>
    BY <2>1, <2>2, <2>3, <2>4, SameElements
  <2>6. QED
    BY <2>5 DEF c
<1>2. QED
  BY <1>1

LEMMA ThreeAreJoined == ASSUME NEW x, NEW y, NEW z PROVE <<x, y, z>> = <<x, y>> \o <<z>>
<1> DEFINE S == {x, y, z}
           c == <<x, y>> \o <<z>>
<1>1. /\ <<x, y>> \in Seq(S) /\ <<z>> \in Seq(S) /\ <<x, y, z>> \in Seq(S)
      /\ Len(<<x, y>>) = 2 /\ Len(<<z>>) = 1 /\ Len(<<x, y, z>>) = 3
      /\ <<x, y>>[1] = x /\ <<x, y>>[2] = y /\ <<z>>[1] = z
      /\ <<x, y, z>>[1] = x /\ <<x, y, z>>[2] = y /\ <<x, y, z>>[3] = z
  OBVIOUS
<1>2. /\ c \in Seq(S) /\ Len(c) = 3
      /\ \A k \in 1 .. 2 : c[k] = <<x, y>>[k]
      /\ \A k \in 2 + 1 .. 2 + 1 : c[k] = <<z>>[k - 2]
  BY <1>1, ConcatElements
<1> HIDE DEF c
<1>3. c[1] = x /\ c[2] = y /\ c[3] = z
  BY <1>1, <1>2
<1>4. \A k \in 1 .. 3 : k = 1 \/ k = 2 \/ k = 3
  OBVIOUS
<1>5. <<x, y, z>> = c
  <2> DEFINE d == <<x, y, z>>
  <2>1. d \in Seq(S) /\ Len(d) = Len(c) /\ \A k \in 1 .. Len(d) : d[k] = c[k]
    BY <1>1, <1>2, <1>3, <1>4
  <2> HIDE DEF d, S
  <2>2. d = c
    BY <1>2, <2>1, SameElements
  <2>3. QED
    BY <2>2 DEF d
<1>6. QED
  BY <1>5 DEF c

-----------------------------------------------------------------------------
(* The tables of rules *)

LEMMA AddsGroups ==
  ASSUME NEW r, NEW i, Groups(r.match.text) \in Nat
  PROVE  Adds(FlattenSeq(GroupBlocks(r, i)), GroupKeys(r, i), <<>>)
<1> DEFINE N == Groups(r.match.text) + 1
           w == GroupBlocks(r, i)
           G == GroupKeys(r, i)
           K == [n \in 1 .. N |-> <<G[n]>>]
           P == [n \in 1 .. N |-> <<>>]
           S == {G[n] : n \in 1 .. N}
<1>1. SoundBlocks(w, N) /\ N \in Nat
  BY SoundGroups
<1>2. G = [n \in 1 .. N |-> Key(RuleName(r, i), n - 1)]
  BY DEF GroupKeys
<1>3. ASSUME NEW n \in 1 .. N PROVE Adds(w[n], K[n], P[n])
  <2> DEFINE x == Call("capture", n - 1)
             k == Key(RuleName(r, i), n - 1)
             y == Call("store", [key |-> k, reg |-> "value"])
  <2>1. w[n] = <<x, y>>
    BY DEF GroupBlocks
  <2>2. Adds(<<x>>, <<>>, <<>>)
    BY AddsPlain
  <2>3. Adds(<<y>>, <<k>>, <<>>)
    BY AddsStore
  <2>4. K[n] = <<k>> /\ P[n] = <<>>
    BY <1>2
  <2> HIDE DEF x, y, k, w, K, P
  <2>5. Adds(<<x>> \o <<y>>, <<k>>, <<>>)
    BY <2>2, <2>3, AddsAlone
  <2>6. QED
    BY <2>1, <2>4, <2>5, TwoAreJoined
<1>4. G \in [1 .. N -> S]
  BY <1>2
<1> HIDE DEF S
<1>5. G \in Seq(S) /\ DOMAIN G = 1 .. N
  BY <1>1, <1>4, FunctionIsSeq
<1>6. FlattenSeq(K) = G
  <2>1. K = [n \in DOMAIN G |-> <<G[n]>>]
    BY <1>5
  <2> HIDE DEF K, G
  <2>2. QED
    BY <1>5, <2>1, FlattenSingletons
<1>7. FlattenSeq(P) = <<>>
  <2>1. P \in [1 .. N -> Seq({})]
    OBVIOUS
  <2>2. \A n \in 1 .. N : P[n] = <<>>
    OBVIOUS
  <2> HIDE DEF P, N
  <2>3. P \in Seq(Seq({})) /\ Len(P) = N
    BY <1>1, <2>1, FunctionIsSeq
  <2>4. QED
    BY <2>2, <2>3, FlattenNothing
<1>8. K = [n \in 1 .. N |-> K[n]] /\ P = [n \in 1 .. N |-> P[n]]
  OBVIOUS
<1> HIDE DEF K, P, N, w, G
<1>9. Adds(FlattenSeq(w), FlattenSeq(K), FlattenSeq(P))
  BY <1>1, <1>3, <1>8, AddsBlocks
<1>10. QED
  BY <1>6, <1>7, <1>9 DEF w, G

LEMMA AddsHeaderAction ==
  ASSUME NEW r, NEW i, IsFullRule(r)
  PROVE  Adds(EmitHeaderAction(r, i), HeaderKeys(r, i), <<>>)
<1> DEFINE b == EmitHeaderAction(r, i)
           k == HeaderKeys(r, i)
<1>0. IsValue(r.new) /\ Groups(r.match.text) \in Nat
  BY DEF IsFullRule, IsRule
<1>1. ASSUME NEW x, Adds(<<x>>, SlotKeys(r.new), <<>>), NEW op, op \notin {"store", "value", "match"}, NEW arg
      PROVE  Adds(<<x, Call(op, arg)>>, SlotKeys(r.new), <<>>)
  <2>1. Adds(<<Call(op, arg)>>, <<>>, <<>>)
    BY <1>1, AddsPlain
  <2>2. Adds(<<x>> \o <<Call(op, arg)>>, SlotKeys(r.new), <<>>)
    BY <1>1, <2>1, AddsAlone
  <2>3. QED
    BY <2>2, TwoAreJoined
<1>2. Adds(<<Call("value", r.new)>>, SlotKeys(r.new), <<>>) /\ Adds(<<EmitReason(r)>>, SlotKeys(r.new), <<>>)
  BY <1>0, AddsValue, AddsReason
<1>3. CASE r.action = "add"
  <2>1. b = <<Call("value", r.new), Call("add", r.header)>> /\ k = SlotKeys(r.new)
    BY <1>3 DEF EmitHeaderAction, HeaderKeys, SetsHeader
  <2>2. QED
    BY <1>1, <1>2, <2>1
<1>4. CASE SetsHeader(r)
  <2>0. r.action \notin {"add", "delete", "store", "log", "reject"}
    BY <1>4 DEF SetsHeader
  <2>1. b = <<Call("value", r.new), Call("set", r.header)>> /\ k = SlotKeys(r.new)
    BY <1>4, <2>0 DEF EmitHeaderAction, HeaderKeys
  <2>2. QED
    BY <1>1, <1>2, <2>1
<1>5. CASE r.action = "delete"
  <2>1. b = <<Call("delete", r.header)>> /\ k = <<>>
    BY <1>5 DEF EmitHeaderAction, HeaderKeys, SetsHeader
  <2>2. QED
    BY <2>1, AddsPlain
<1>6. CASE r.action = "store" /\ r.cmp = "pattern"
  <2>1. b = FlattenSeq(GroupBlocks(r, i)) /\ k = GroupKeys(r, i)
    BY <1>6 DEF EmitHeaderAction, HeaderKeys, SetsHeader, GroupBlocks
  <2>2. QED
    BY <1>0, <2>1, AddsGroups
<1>7. CASE r.action = "store" /\ r.cmp # "pattern"
  <2>1. /\ b = <<Call("store", [key |-> Key(RuleName(r, i), 0), reg |-> "header"])>>
        /\ k = <<Key(RuleName(r, i), 0)>>
    BY <1>7 DEF EmitHeaderAction, HeaderKeys, SetsHeader
  <2>2. QED
    BY <2>1, AddsStore
<1>8. CASE r.action = "log"
  <2>1. b = <<EmitReason(r), Call("log", <<>>)>> /\ k = SlotKeys(r.new)
    BY <1>8 DEF EmitHeaderAction, HeaderKeys, SetsHeader
  <2>2. QED
    BY <1>1, <1>2, <2>1
<1>9. CASE r.action = "reject"
  <2>1. b = <<EmitReason(r), Call("reject", <<>>)>> /\ k = SlotKeys(r.new)
    BY <1>9 DEF EmitHeaderAction, HeaderKeys, SetsHeader
  <2>2. QED
    BY <1>1, <1>2, <2>1
<1>10. CASE r.action \notin {"add", "delete", "store", "log", "reject"} /\ ~SetsHeader(r)
  <2>1. b = <<>> /\ k = <<>>
    BY <1>10 DEF EmitHeaderAction, HeaderKeys
  <2>2. QED
    BY <2>1, AddsNone
<1>11. QED
  BY <1>3, <1>4, <1>5, <1>6, <1>7, <1>8, <1>9, <1>10

LEMMA AddsElementAction ==
  ASSUME NEW r, NEW e, IsValue(e.new)
  PROVE  Adds(EmitElementAction(r, e), ElementKeys(r, e), <<>>)
<1> DEFINE b == EmitElementAction(r, e)
           k == ElementKeys(r, e)
<1>1. ASSUME NEW v, IsValue(v), NEW t, NEW h
      PROVE  Adds(<<Call("value", v), Call("uri_set", t), Call("set", h)>>, SlotKeys(v), <<>>)
  <2> DEFINE x == Call("value", v)
             y == Call("uri_set", t)
             z == Call("set", h)
  <2>1. Adds(<<x>>, SlotKeys(v), <<>>)
    BY <1>1, AddsValue
  <2>2. Adds(<<y>>, <<>>, <<>>) /\ Adds(<<z>>, <<>>, <<>>)
    BY AddsPlain
  <2> HIDE DEF x, y, z
  <2>3. Adds(<<x>> \o <<y>>, SlotKeys(v), <<>>)
    BY <2>1, <2>2, AddsAlone
  <2>4. Adds(<<x, y>>, SlotKeys(v), <<>>)
    BY <2>3, TwoAreJoined
  <2>5. Adds(<<x, y>> \o <<z>>, SlotKeys(v), <<>>)
    BY <2>2, <2>4, AddsAlone
  <2>6. Adds(<<x, y, z>>, SlotKeys(v), <<>>)
    BY <2>5, ThreeAreJoined
  <2>7. QED
    BY <2>6 DEF x, y, z
<1>2. CASE e.action = "replace"
  <2>1. b = <<Call("value", e.new), Call("uri_set", e.type), Call("set", r.header)>> /\ k = SlotKeys(e.new)
    BY <1>2 DEF EmitElementAction, ElementKeys
  <2>2. QED
    BY <1>1, <2>1
<1>3. CASE e.action = "delete" /\ e.type = "whole"
  <2>1. b = <<Call("delete", r.header)>> /\ k = <<>>
    BY <1>3 DEF EmitElementAction, ElementKeys
  <2>2. QED
    BY <2>1, AddsPlain
<1>4. CASE e.action = "delete" /\ e.type # "whole"
  <2> DEFINE v == <<>>
  <2>1. b = <<Call("value", v), Call("uri_set", e.type), Call("set", r.header)>> /\ k = v
    BY <1>4 DEF EmitElementAction, ElementKeys
  <2>2. IsValue(v) /\ SlotKeys(v) = v
    BY EvalNothing, NoSlots
  <2> HIDE DEF b, v
  <2>3. Adds(b, v, <<>>)
    BY <1>1, <2>1, <2>2
  <2>4. QED
    BY <2>1, <2>3 DEF b
<1>5. CASE e.action = "store"
  <2>1. /\ b = <<Call("store", [key |-> Key(ElementName(r, e), 0), reg |-> "element"])>>
        /\ k = <<Key(ElementName(r, e), 0)>>
    BY <1>5 DEF EmitElementAction, ElementKeys
  <2>2. QED
    BY <2>1, AddsStore
<1>6. CASE e.action = "reject"
  <2> DEFINE x == EmitReason(e)
             y == Call("reject", <<>>)
  <2>1. b = <<x, y>> /\ k = SlotKeys(e.new)
    BY <1>6 DEF EmitElementAction, ElementKeys
  <2>2. Adds(<<x>>, SlotKeys(e.new), <<>>) /\ Adds(<<y>>, <<>>, <<>>)
    BY AddsReason, AddsPlain
  <2> HIDE DEF x, y, b
  <2>3. Adds(<<x>> \o <<y>>, SlotKeys(e.new), <<>>)
    BY <2>2, AddsAlone
  <2>4. Adds(b, SlotKeys(e.new), <<>>)
    BY <2>1, <2>3, TwoAreJoined
  <2>5. QED
    BY <2>1, <2>4 DEF b
<1>7. CASE e.action \notin {"replace", "delete", "store", "reject"}
  <2>1. b = <<>> /\ k = <<>>
    BY <1>7 DEF EmitElementAction, ElementKeys
  <2>2. QED
    BY <2>1, AddsNone
<1>8. QED
  BY <1>2, <1>3, <1>4, <1>5, <1>6, <1>7

LEMMA AddsElement ==
  ASSUME NEW r, NEW e, IsValue(e.new)
  PROVE  Adds(EmitElement(r, e), IF Supported(e) THEN ElementKeys(r, e) ELSE <<>>,
              IF Supported(e) THEN Pattern(e.cmp, e.match) ELSE <<>>)
<1> DEFINE x == Call("get", r.header)
           y == Call("uri_get", e.type)
           d == EmitMatchGuard(e.cmp, e.kind, e.match, "element", "element")
           a == EmitElementAction(r, e)
           R == <<x, y>> \o d \o a
           k == ElementKeys(r, e)
           p == Pattern(e.cmp, e.match)
<1>1. CASE ~Supported(e)
  <2>1. EmitElement(r, e) = <<>>
    BY <1>1 DEF EmitElement, If
  <2>2. QED
    BY <1>1, <2>1, AddsNone
<1>2. CASE Supported(e)
  <2>1. EmitElement(r, e) = Link(R, "element")
    BY <1>2 DEF EmitElement, If
  <2>2. Adds(<<x>>, <<>>, <<>>) /\ Adds(<<y>>, <<>>, <<>>)
    BY AddsPlain
  <2>3. Adds(d, <<>>, p) /\ Adds(a, k, <<>>)
    BY AddsGuard, AddsElementAction
  <2>4. IsCode(EmitElement(r, e))
    BY SoundElement DEF Sound
  <2> HIDE DEF x, y, d, a, k, p
  <2>5. Adds(<<x>> \o <<y>>, <<>>, <<>>)
    BY <2>2, AddsAlone
  <2>6. Adds(<<x, y>>, <<>>, <<>>)
    BY <2>5, TwoAreJoined
  <2> DEFINE xy == <<x, y>>
             xyd == xy \o d
  <2>7. Adds(xyd, <<>>, p)
    <3> HIDE DEF xy
    <3>1. Adds(xy, <<>>, <<>>)
      BY <2>6 DEF xy
    <3>2. QED
      BY <2>3, <3>1, AddsAlone
  <2>8. R = xyd \o a
    OBVIOUS
  <2> HIDE DEF xyd, R
  <2>9. Adds(R, k, p)
    <3>1. Adds(xyd \o a, <<>> \o k, p \o <<>>)
      BY <2>3, <2>7, AddsBoth
    <3>2. <<>> \o k = k /\ p \o <<>> = p
      BY <2>3, AddedAreLists, NothingToAdd
    <3>3. QED
      BY <2>8, <3>1, <3>2
  <2>10. Adds(Link(R, "element"), k, p)
    BY <2>1, <2>4, <2>9, AddsLink
  <2>11. QED
    BY <1>2, <2>1, <2>10 DEF k, p
<1>3. QED
  BY <1>1, <1>2

LEMMA AddsElements ==
  ASSUME NEW r, IsFullRule(r)
  PROVE  Adds(FlattenSeq(ElementBlocks(r)), FlattenSeq(ElementTable(r, "keys")),
              FlattenSeq(ElementTable(r, "patterns")))
<1> DEFINE N == Len(r.elements)
           w == ElementBlocks(r)
           K == ElementTable(r, "keys")
           P == ElementTable(r, "patterns")
<1>1. /\ SoundBlocks(w, N) /\ N \in Nat
      /\ \A j \in 1 .. N : w[j] = EmitElement(r, r.elements[j])
  BY SoundElementBlocks DEF IsFullRule
<1>2. ASSUME NEW j \in 1 .. N PROVE Adds(w[j], K[j], P[j])
  <2> DEFINE e == r.elements[j]
  <2>1. IsValue(e.new)
    BY DEF IsFullRule, IsRule
  <2>2. /\ K[j] = IF Supported(e) THEN ElementKeys(r, e) ELSE <<>>
        /\ P[j] = IF Supported(e) THEN Pattern(e.cmp, e.match) ELSE <<>>
    BY DEF ElementTable
  <2> HIDE DEF e, w, K, P
  <2>3. QED
    BY <1>1, <2>1, <2>2, AddsElement DEF e
<1>3. K = [j \in 1 .. N |-> K[j]] /\ P = [j \in 1 .. N |-> P[j]]
  BY DEF ElementTable
<1> HIDE DEF w, K, P, N
<1>4. Adds(FlattenSeq(w), FlattenSeq(K), FlattenSeq(P))
  BY <1>1, <1>2, <1>3, AddsBlocks
<1>5. QED
  BY <1>4 DEF w, K, P

LEMMA AddsElementPart ==
  ASSUME NEW r, IsFullRule(r)
  PROVE  Adds(ElementPart(r), ScannedTable(r, "keys"), ScannedTable(r, "patterns"))
<1>1. CASE r.action # "reject"
  <2>1. ElementPart(r) = FlattenSeq(ElementBlocks(r))
    BY <1>1 DEF ElementPart, If
  <2>2. QED
    BY <1>1, <2>1, AddsElements, ScanVisits
<1>2. CASE r.action = "reject"
  <2>1. ElementPart(r) = <<>>
    BY <1>2 DEF ElementPart, If
  <2>2. ScannedElements(r) = <<>>
    BY <1>2 DEF ScannedElements
  <2>3. \A table : ScannedTable(r, table) = <<>>
    <3>1. \A table : [j \in DOMAIN <<>> |->
                        IF table = "keys" THEN ElementKeys(r, <<>>[j]) ELSE Pattern(<<>>[j].cmp, <<>>[j].match)] = <<>>
      OBVIOUS
    <3>2. QED
      BY <2>2, <3>1, FlattenEmpty DEF ScannedTable
  <2>4. QED
    BY <2>1, <2>3, AddsNone
<1>3. QED
  BY <1>1, <1>2

LEMMA AddsRule ==
  ASSUME NEW r, NEW i, IsFullRule(r)
  PROVE  Adds(EmitHeaderRule(r, i), RuleKeys(r, i), RulePatterns(r))
<1> DEFINE a == TypeTest(r)
           b == MethodTest(r)
           c == HeaderRead(r)
           d == HeaderGuard(r)
           e == EmitHeaderAction(r, i)
           f == ElementPart(r)
           abc == a \o b \o c
           abcd == abc \o d
           abcde == abcd \o e
           R == abcde \o f
           p == Pattern(r.cmp, r.match)
           k == HeaderKeys(r, i)
           ks == ScannedTable(r, "keys")
           ps == ScannedTable(r, "patterns")
<1>1. EmitHeaderRule(r, i) = Link(R, "rule")
  BY DEF EmitHeaderRule, TypeTest, MethodTest, HeaderRead, HeaderGuard, ElementPart, ElementBlocks
<1>2. RuleKeys(r, i) = k \o ks /\ RulePatterns(r) = p \o ps
  BY DEF RuleKeys, RulePatterns, ScannedTable
<1>3. Adds(a, <<>>, <<>>) /\ Adds(b, <<>>, <<>>) /\ Adds(c, <<>>, <<>>)
  <2>1. /\ Adds(<<Branch("is_request", r.msg = "request", "rule")>>, <<>>, <<>>)
        /\ Adds(<<Branch("method", r.methods, "rule")>>, <<>>, <<>>)
        /\ Adds(<<Call("get", r.header)>>, <<>>, <<>>)
    BY AddsPlain
  <2>2. QED
    BY <2>1, AddsIf DEF TypeTest, MethodTest, HeaderRead
<1>4. Adds(d, <<>>, p)
  BY AddsGuard DEF HeaderGuard
<1>5. Adds(e, k, <<>>) /\ Adds(f, ks, ps)
  BY AddsHeaderAction, AddsElementPart
<1>6. IsCode(EmitHeaderRule(r, i))
  BY SoundHeaderRule DEF IsFullRule, Sound
<1> HIDE DEF a, b, c, d, e, f, p, k, ks, ps
<1>7. Adds(a \o b, <<>>, <<>>)
  BY <1>3, AddsAlone
<1>8. Adds(abc, <<>>, <<>>)
  BY <1>3, <1>7, AddsAlone
<1> HIDE DEF abc
<1>9. Adds(abcd, <<>>, p)
  BY <1>4, <1>8, AddsAlone
<1> HIDE DEF abcd
<1>10. Adds(abcde, k, p)
  <2>1. Adds(abcd \o e, <<>> \o k, p \o <<>>)
    BY <1>5, <1>9, AddsBoth
  <2>2. <<>> \o k = k /\ p \o <<>> = p
    BY <1>4, <1>5, AddedAreLists, NothingToAdd
  <2>3. QED
    BY <2>1, <2>2
<1> HIDE DEF abcde
<1>11. Adds(R, k \o ks, p \o ps)
  BY <1>5, <1>10, AddsBoth
<1> HIDE DEF R
<1>12. Adds(Link(R, "rule"), k \o ks, p \o ps)
  BY <1>1, <1>6, <1>11, AddsLink
<1>13. QED
  BY <1>1, <1>2, <1>12

RuleBlocks(rs) == [i \in DOMAIN rs |-> EmitHeaderRule(rs[i], i)]
RawCode(rs) == FlattenSeq(RuleBlocks(rs))

LEMMA RulesetsAreFull == ASSUME NEW rs \in Rulesets PROVE IsFullRuleset(rs)
BY GeneratedCodeAssumption DEF IsFullRuleset, IsRuleset, IsFullRule, IsRule

LEMMA SoundRuleBlocks ==
  ASSUME NEW rs, IsFullRuleset(rs)
  PROVE  /\ SoundBlocks(RuleBlocks(rs), Len(rs)) /\ Len(rs) \in Nat /\ DOMAIN rs = 1 .. Len(rs)
         /\ \A i \in 1 .. Len(rs) : RuleBlocks(rs)[i] = EmitHeaderRule(rs[i], i) /\ IsFullRule(rs[i])
<1> DEFINE n == Len(rs)
           w == RuleBlocks(rs)
<1>1. n \in Nat /\ DOMAIN rs = 1 .. n /\ \A i \in 1 .. n : IsFullRule(rs[i])
  BY DEF IsFullRuleset
<1>2. \A i \in 1 .. n : w[i] = EmitHeaderRule(rs[i], i)
  BY <1>1 DEF RuleBlocks
<1>3. ASSUME NEW i \in 1 .. n PROVE Sound(w[i])
  BY <1>1, <1>2, SoundHeaderRule DEF IsFullRule
<1>4. w = [i \in 1 .. n |-> w[i]]
  BY <1>1 DEF RuleBlocks
<1> HIDE DEF w, n
<1>5. SoundBlocks(w, n)
  BY <1>1, <1>3, <1>4 DEF SoundBlocks
<1>6. QED
  BY <1>1, <1>2, <1>5 DEF w, n

LEMMA AddsRuleset ==
  ASSUME NEW rs, IsFullRuleset(rs)
  PROVE  Adds(RawCode(rs), FlattenSeq([i \in DOMAIN rs |-> RuleKeys(rs[i], i)]),
              FlattenSeq([i \in DOMAIN rs |-> RulePatterns(rs[i])]))
<1> DEFINE n == Len(rs)
           w == RuleBlocks(rs)
           K == [i \in DOMAIN rs |-> RuleKeys(rs[i], i)]
           P == [i \in DOMAIN rs |-> RulePatterns(rs[i])]
<1>1. /\ SoundBlocks(w, n) /\ n \in Nat /\ DOMAIN rs = 1 .. n
      /\ \A i \in 1 .. n : w[i] = EmitHeaderRule(rs[i], i) /\ IsFullRule(rs[i])
  BY SoundRuleBlocks
<1>2. ASSUME NEW i \in 1 .. n PROVE Adds(w[i], K[i], P[i])
  <2>1. K[i] = RuleKeys(rs[i], i) /\ P[i] = RulePatterns(rs[i])
    BY <1>1
  <2> HIDE DEF K, P, w
  <2>2. QED
    BY <1>1, <2>1, AddsRule
<1>3. K = [i \in 1 .. n |-> K[i]] /\ P = [i \in 1 .. n |-> P[i]]
  BY <1>1
<1> HIDE DEF K, P, w, n
<1>4. Adds(FlattenSeq(w), FlattenSeq(K), FlattenSeq(P))
  BY <1>1, <1>2, <1>3, AddsBlocks
<1>5. QED
  BY <1>4 DEF K, P, w, RawCode

\* "the same slot and regex numbers" (test_interp.cpp:266-270): emission meets
\* keys and patterns in the order of the scan.
LEMMA GeneratesScan ==
  ASSUME NEW rs, IsFullRuleset(rs)
  PROVE  /\ Generate(rs) = Assemble(RawCode(rs), Scan(rs).keys, Scan(rs).patterns)
         /\ Generate(rs).keys = Scan(rs).keys /\ Generate(rs).patterns = Scan(rs).patterns
<1> DEFINE c == RawCode(rs)
<1>1. Generate(rs) = Linked(c)
  BY DEF Generate, RawCode, RuleBlocks
<1>2. /\ TableOf(c, "keys") = FlattenSeq([i \in DOMAIN rs |-> RuleKeys(rs[i], i)])
      /\ TableOf(c, "patterns") = FlattenSeq([i \in DOMAIN rs |-> RulePatterns(rs[i])])
  BY AddsRuleset DEF Adds
<1> HIDE DEF c
<1>3. /\ TableOf(c, "keys") = FlattenSeq([i \in DOMAIN c |-> KeysOf(c[i])])
      /\ TableOf(c, "patterns") = FlattenSeq([i \in DOMAIN c |-> PatternsOf(c[i])])
  BY DEF TableOf, Entries
<1>4. Linked(c) = Assemble(c, Distinct(TableOf(c, "keys")), Distinct(TableOf(c, "patterns")))
  BY <1>3 DEF Linked
<1>5. Scan(rs).keys = Distinct(TableOf(c, "keys")) /\ Scan(rs).patterns = Distinct(TableOf(c, "patterns"))
  BY <1>2 DEF Scan
<1>6. QED
  BY <1>1, <1>4, <1>5 DEF Assemble, c

LEMMA DistinctOfSome ==
  ASSUME NEW t, IsList(t), t # <<>>
  PROVE  Distinct(t) # <<>> /\ DOMAIN Distinct(t) # {}
<1> DEFINE S == ToSet(t)
           w == [i \in DOMAIN t |-> IF \E j \in 1 .. i - 1 : t[j] = t[i] THEN <<>> ELSE <<t[i]>>]
<1>1. t \in Seq(S) /\ Len(t) \in Nat /\ DOMAIN t = 1 .. Len(t) /\ \A i \in 1 .. Len(t) : t[i] \in S
  BY DEF IsList
<1>2. Len(t) >= 1
  BY <1>1
<1>3. ASSUME NEW i \in 1 .. Len(t) PROVE w[i] \in Seq(S)
  <2>1. t[i] \in S /\ i \in DOMAIN t
    BY <1>1
  <2> HIDE DEF S
  <2>2. <<t[i]>> \in Seq(S) /\ <<>> \in Seq(S)
    BY <2>1
  <2>3. w[i] = <<t[i]>> \/ w[i] = <<>>
    BY <2>1
  <2>4. QED
    BY <2>2, <2>3
<1>4. w \in [1 .. Len(t) -> Seq(S)]
  <2>1. w = [i \in 1 .. Len(t) |-> w[i]]
    BY <1>1
  <2> HIDE DEF w, S
  <2>2. QED
    BY <1>3, <2>1
<1>5. w[1] = <<t[1]>> /\ Len(w[1]) = 1
  <2>1. 1 \in DOMAIN t /\ 1 .. 1 - 1 = {}
    BY <1>1, <1>2
  <2>2. w[1] = <<t[1]>>
    BY <2>1
  <2>3. QED
    BY <2>2
<1> HIDE DEF w, S
<1>6. w \in Seq(Seq(S)) /\ Len(w) = Len(t)
  BY <1>1, <1>4, FunctionIsSeq
<1>7. 1 \in 1 .. Len(w)
  BY <1>1, <1>2, <1>6
<1>8. /\ FlattenSeq(w) \in Seq(S) /\ PieceStart(w, 1) \in Nat
      /\ PieceStart(w, 1) + Len(w[1]) <= Len(FlattenSeq(w))
  BY <1>6, <1>7, PieceAt
<1>9. Distinct(t) = FlattenSeq(w)
  BY DEF Distinct, w
<1> DEFINE u == FlattenSeq(w)
<1>10. u \in Seq(S) /\ Len(u) >= 1 /\ Len(u) \in Nat
  <2> HIDE DEF u
  <2>1. u \in Seq(S) /\ PieceStart(w, 1) + 1 <= Len(u)
    BY <1>5, <1>8 DEF u
  <2>2. QED
    BY <1>8, <2>1
<1> HIDE DEF u
<1>11. u # <<>> /\ 1 \in DOMAIN u
  BY <1>10
<1>12. QED
  BY <1>9, <1>11 DEF u

\* A block adds what any of its instructions adds.
LEMMA TableOfSome ==
  ASSUME NEW b, NEW table, IsListed(b, table), NEW n \in 1 .. Len(b), Entries(b[n], table) # <<>>
  PROVE  TableOf(b, table) # <<>>
<1> DEFINE w == [k \in DOMAIN b |-> Entries(b[k], table)]
           S == UNION {ToSet(Entries(b[k], table)) : k \in 1 .. Len(b)}
<1>1. DOMAIN b = 1 .. Len(b) /\ Len(b) \in Nat
  BY CodeIsSequence DEF IsListed
<1>2. ASSUME NEW k \in 1 .. Len(b) PROVE w[k] \in Seq(S)
  <2>1. IsList(Entries(b[k], table)) /\ w[k] = Entries(b[k], table)
    BY <1>1 DEF IsListed
  <2>2. ToSet(Entries(b[k], table)) \subseteq S
    OBVIOUS
  <2> HIDE DEF S, w
  <2>3. QED
    BY <2>1, <2>2, ListIn
<1>3. w = [k \in 1 .. Len(b) |-> w[k]] /\ w[n] # <<>>
  BY <1>1
<1> HIDE DEF w, S
<1>4. w \in [1 .. Len(b) -> Seq(S)]
  BY <1>2, <1>3
<1>5. w \in Seq(Seq(S)) /\ Len(w) = Len(b)
  BY <1>1, <1>4, FunctionIsSeq
<1>6. /\ PieceStart(w, n) \in Nat /\ Len(w[n]) \in Nat
      /\ PieceStart(w, n) + Len(w[n]) <= Len(FlattenSeq(w))
  BY <1>5, PieceAt
<1>7. Len(w[n]) # 0
  <2>1. w[n] \in Seq(S)
    BY <1>2
  <2>2. QED
    BY <1>3, <2>1
<1>8. FlattenSeq(w) # <<>>
  <2>1. Len(<<>>) = 0
    OBVIOUS
  <2>2. QED
    BY <1>6, <1>7, <2>1
<1>9. QED
  BY <1>8 DEF TableOf, w

LEMMA GeneratedIs ==
  ASSUME NEW rs, IsFullRuleset(rs), NEW n \in 1 .. Len(RawCode(rs))
  PROVE  /\ Is(Generate(rs), n, RawCode(rs)[n]) /\ Generate(rs).code[n].by = RawCode(rs)[n].by
         /\ Len(Generate(rs).code) = Len(RawCode(rs))
<1> DEFINE c == RawCode(rs)
           m == Generate(rs)
           x == c[n]
<1>1. /\ m = Assemble(c, m.keys, m.patterns)
      /\ m.keys = Distinct(TableOf(c, "keys")) /\ m.patterns = Distinct(TableOf(c, "patterns"))
      /\ IsListed(c, "keys") /\ IsListed(c, "patterns")
  <2>1. Adds(c, FlattenSeq([i \in DOMAIN rs |-> RuleKeys(rs[i], i)]),
              FlattenSeq([i \in DOMAIN rs |-> RulePatterns(rs[i])]))
    BY AddsRuleset
  <2>2. /\ m = Assemble(c, Scan(rs).keys, Scan(rs).patterns)
        /\ m.keys = Scan(rs).keys /\ m.patterns = Scan(rs).patterns
    BY GeneratesScan
  <2>3. QED
    BY <2>1, <2>2 DEF Adds, Scan
<1> HIDE DEF c, m
<1>2. /\ Len(c) \in Nat /\ DOMAIN c = 1 .. Len(c) /\ n \in 1 .. Len(c)
      /\ \A k \in 1 .. Len(c) : DOMAIN c[k] = InstructionFields
  BY <1>1, CodeIsSequence DEF IsListed, c
<1>3. m.code = [k \in DOMAIN c |-> Numbered(c[k], m.keys, m.patterns)]
  BY <1>1 DEF Assemble
<1>4. m.code[n] = Numbered(x, m.keys, m.patterns)
  BY <1>2, <1>3
<1>5. Len(m.code) = Len(c)
  <2> DEFINE d == m.code
             S == {d[k] : k \in 1 .. Len(c)}
  <2>1. d = [k \in 1 .. Len(c) |-> d[k]]
    BY <1>2, <1>3
  <2> HIDE DEF d
  <2>2. d \in [1 .. Len(c) -> S]
    BY <2>1
  <2> HIDE DEF S
  <2>3. Len(d) = Len(c)
    BY <1>2, <2>2, FunctionIsSeq
  <2>4. QED
    BY <2>3 DEF d
<1>6. DOMAIN x = InstructionFields
  BY <1>2
<1>7. KeysOf(x) # <<>> => DOMAIN m.keys # {}
  <2>1. ASSUME KeysOf(x) # <<>> PROVE DOMAIN m.keys # {}
    <3>1. Entries(c[n], "keys") # <<>>
      BY <2>1 DEF Entries
    <3>2. TableOf(c, "keys") # <<>> /\ IsList(TableOf(c, "keys"))
      BY <1>1, <1>2, <3>1, TableOfSome, TableIsList
    <3>3. QED
      BY <1>1, <3>2, DistinctOfSome
  <2>2. QED
    BY <2>1
<1>8. PatternsOf(x) # <<>> => m.patterns # <<>>
  <2>1. ASSUME PatternsOf(x) # <<>> PROVE m.patterns # <<>>
    <3>1. Entries(c[n], "patterns") # <<>>
      BY <2>1 DEF Entries
    <3>2. TableOf(c, "patterns") # <<>> /\ IsList(TableOf(c, "patterns"))
      BY <1>1, <1>2, <3>1, TableOfSome, TableIsList
    <3>3. QED
      BY <1>1, <3>2, DistinctOfSome
  <2>2. QED
    BY <2>1
<1> HIDE DEF x
<1>9. m.code[n].op = x.op /\ m.code[n].by = x.by
  BY <1>4, <1>6, NumberedKeeps
<1>10. Is(m, n, x)
  BY <1>2, <1>4, <1>5, <1>6, <1>7, <1>8, <1>9 DEF Is
<1>11. QED
  BY <1>5, <1>9, <1>10 DEF m, c, x

\* Each rule's block stands in the module as it was emitted.
LEMMA RuleBegins ==
  ASSUME NEW rs, IsFullRuleset(rs), NEW i \in 1 .. Len(rs)
  PROVE  Begins(Generate(rs), PieceStart(RuleBlocks(rs), i), EmitHeaderRule(rs[i], i))
<1> DEFINE w == RuleBlocks(rs)
           m == Generate(rs)
           o == PieceStart(w, i)
           b == EmitHeaderRule(rs[i], i)
           c == RawCode(rs)
<1>1. SoundBlocks(w, Len(rs)) /\ w[i] = b
  BY SoundRuleBlocks
<1>2. /\ IsCode(b) /\ o \in Nat /\ Len(b) \in Nat /\ o + Len(b) <= Len(c) /\ Len(c) \in Nat
      /\ \A k \in 1 .. Len(b) : c[o + k] = b[k]
  <2>1. FlattenSeq(w) = c
    BY DEF RawCode
  <2> HIDE DEF w, b, c
  <2>2. QED
    BY <1>1, <2>1, PiecesOfBlocks, CodeIsSequence
<1>3. \A n \in 1 .. Len(c) : Is(m, n, c[n]) /\ m.code[n].by = c[n].by
  BY GeneratedIs
<1> HIDE DEF w, m, o, b, c
<1>4. ASSUME NEW k \in 1 .. Len(b) PROVE Is(m, o + k, b[k]) /\ m.code[o + k].by = b[k].by
  <2>1. o + k \in 1 .. Len(c)
    BY <1>2
  <2>2. c[o + k] = b[k]
    BY <1>2
  <2>3. QED
    BY <1>3, <2>1, <2>2
<1>5. Begins(m, o, b)
  BY <1>2, <1>4 DEF Begins
<1>6. QED
  BY <1>5 DEF m, o, w, b

-----------------------------------------------------------------------------
(* The walk *)

\* The module does to a state what the walk over its rules does.
LEMMA WalkRuns ==
  ASSUME NEW rs, IsFullRuleset(rs), NEW s, Open(Generate(rs), s), NEW g, IsRegs(g)
  PROVE  Reaches(Generate(rs), Config(1, s, g), Len(Generate(rs).code) + 1, Walk(s, rs))
<1> DEFINE m == Generate(rs)
           N == Len(rs)
           w == RuleBlocks(rs)
           after == AfterRules(s, rs)
           c == Config(1, s, g)
           Done(n) == Reaches(m, c, PieceStart(w, n + 1) + 1, after[n])
           I == {n \in Nat : n <= N => Done(n)}
<1>1. /\ N \in Nat /\ SoundBlocks(w, N)
      /\ \A n \in 1 .. N : w[n] = EmitHeaderRule(rs[n], n) /\ IsFullRule(rs[n])
  BY SoundRuleBlocks
<1>2. after[0] = s /\ \A n \in 1 .. N : after[n] = NextRule(after[n - 1], rs[n], n)
  BY <1>1, AfterRulesUnfolds
<1>3. /\ PieceStart(w, 1) = 0 /\ PieceStart(w, N + 1) = Len(FlattenSeq(w))
      /\ \A n \in 1 .. N : /\ PieceStart(w, n) \in Nat /\ Len(w[n]) \in Nat
                           /\ PieceStart(w, n + 1) = PieceStart(w, n) + Len(w[n])
  BY <1>1, PiecesOfBlocks
<1>4. \A n \in 1 .. N : Begins(m, PieceStart(w, n), w[n])
  BY <1>1, RuleBegins
<1>5. Len(m.code) = Len(FlattenSeq(w))
  <2>1. RawCode(rs) = FlattenSeq(w)
    BY DEF RawCode
  <2>2. CASE Len(FlattenSeq(w)) >= 1
    <3>1. 1 \in 1 .. Len(RawCode(rs))
      <4>1. Len(FlattenSeq(w)) \in Nat
        BY <1>1, PiecesOfBlocks, CodeIsSequence
      <4>2. QED
        BY <2>1, <2>2, <4>1
    <3>2. QED
      BY <2>1, <3>1, GeneratedIs
  <2>3. QED
    <3>1. IsCode(RawCode(rs))
      BY <1>1, <2>1, PiecesOfBlocks
    <3>2. m.code = [k \in DOMAIN RawCode(rs) |-> Numbered(RawCode(rs)[k], Scan(rs).keys, Scan(rs).patterns)]
      BY GeneratesScan DEF Assemble
    <3> DEFINE d == m.code
               r == RawCode(rs)
               S == {d[k] : k \in 1 .. Len(r)}
    <3>3. Len(r) \in Nat /\ DOMAIN r = 1 .. Len(r)
      BY <3>1, CodeIsSequence
    <3>4. d = [k \in 1 .. Len(r) |-> d[k]]
      BY <3>2, <3>3
    <3> HIDE DEF d, r
    <3>5. d \in [1 .. Len(r) -> S]
      BY <3>4
    <3> HIDE DEF S
    <3>6. Len(d) = Len(r)
      BY <3>3, <3>5, FunctionIsSeq
    <3>7. QED
      BY <2>1, <3>6 DEF d, r
<1>6. Walk(s, rs) = after[N]
  BY DEF Walk
<1>7. Open(m, s)
  OBVIOUS
<1> HIDE DEF m, w, after, N
<1>8. 0 \in I
  <2>1. Leads(m, c, Config(1, s, g))
    BY LeadsNowhere
  <2>2. PieceStart(w, 0 + 1) + 1 = 1
    BY <1>3
  <2>3. Done(0)
    BY <1>2, <1>7, <2>1, <2>2, ReachesHere
  <2>4. QED
    BY <2>3
<1>9. ASSUME NEW n \in I PROVE n + 1 \in I
  <2>0. n \in Nat /\ n + 1 \in Nat /\ (n + 1) - 1 = n
    OBVIOUS
  <2> SUFFICES ASSUME n + 1 <= N PROVE Done(n + 1)
    BY <2>0
  <2>1. n + 1 \in 1 .. N /\ Done(n)
    BY <1>1, <2>0
  <2> DEFINE q == PieceStart(w, n + 1)
             b == w[n + 1]
             t == after[n]
             r == rs[n + 1]
             k == n + 1
             u == NextRule(t, r, k)
  <2>2. Begins(m, q, EmitHeaderRule(r, k)) /\ b = EmitHeaderRule(r, k) /\ IsFullRule(r)
    BY <1>1, <1>4, <2>1
  <2>3. q + Len(b) + 1 = PieceStart(w, (n + 1) + 1) + 1
    BY <1>1, <1>3, <2>1
  <2>4. after[n + 1] = u
    BY <1>2, <2>0, <2>1
  <2>5. Reaches(m, c, q + 1, t)
    BY <2>1
  <2> HIDE DEF b, t, r, q, c, k
  <2>6. ASSUME Open(m, t), NEW h, IsRegs(h)
        PROVE  Reaches(m, Config(q + 1, t, h), q + Len(b) + 1, u)
    <3>1. u = RunRule(t, r, k)
      BY <2>6 DEF NextRule, Open
    <3>2. QED
      BY <2>2, <2>6, <3>1, RuleRuns
  <2>7. t.verdict # Accepted => u = t
    BY DEF NextRule
  <2> HIDE DEF u
  <2>8. Reaches(m, c, q + Len(b) + 1, u)
    BY <2>5, <2>6, <2>7, ReachesNext
  <2>9. QED
    BY <2>3, <2>4, <2>8 DEF b
<1>10. I = Nat
  <2> HIDE DEF I
  <2>1. QED
    BY <1>8, <1>9, NatClosure DEF I
<1>11. Done(N)
  BY <1>1, <1>10
<1>12. QED
  BY <1>3, <1>5, <1>6, <1>11 DEF m

-----------------------------------------------------------------------------
(* The operators of Rules as Interpreter has them *)

LEMMA SameMin == \A S : Oracle!Min(S) = Min(S)
BY DEF Min, Oracle!Min

LEMMA SameMax == \A S : Oracle!Max(S) = Max(S)
BY DEF Max, Oracle!Max

LEMMA SameFirst == \A v, a, b, S : Oracle!First(v, a, b, S) = First(v, a, b, S)
BY SameMin DEF First, Oracle!First

LEMMA SameFinal == \A v, a, b, S : Oracle!Final(v, a, b, S) = Final(v, a, b, S)
BY SameMax DEF Final, Oracle!Final

LEMMA SameTrim == \A v, a, b : Oracle!Trim(v, a, b) = Trim(v, a, b)
BY SameMin, SameMax DEF Trim, Oracle!Trim, Blank, Oracle!Blank

LEMMA SameText == \A v, s : Oracle!Text(v, s) = Text(v, s)
BY DEF Text, Oracle!Text, Absent, Oracle!Absent

LEMMA SameUnquote == \A v, s : Oracle!Unquote(v, s) = Unquote(v, s)
BY DEF Unquote, Oracle!Unquote, Quote, Oracle!Quote

LEMMA SameAddrSpec == \A v : Oracle!AddrSpec(v) = AddrSpec(v)
BY SameFirst DEF AddrSpec, Oracle!AddrSpec

LEMMA SameDisplay == \A v : Oracle!DisplayOf(v) = DisplayOf(v)
BY SameFirst, SameTrim, SameUnquote DEF DisplayOf, Oracle!DisplayOf, Absent, Oracle!Absent

LEMMA SameAfterScheme == \A v, s : Oracle!AfterScheme(v, s) = AfterScheme(v, s)
BY SameFirst DEF AfterScheme, Oracle!AfterScheme, Scheme, Oracle!Scheme

LEMMA SameUser == \A v, s : Oracle!UserOf(v, s) = UserOf(v, s)
BY SameFirst DEF UserOf, Oracle!UserOf, Absent, Oracle!Absent

LEMMA SameHostPort == \A v, s : Oracle!HostPort(v, s) = HostPort(v, s)
BY SameFirst DEF HostPort, Oracle!HostPort

LEMMA SameHost == \A v, hp : Oracle!HostOf(v, hp) = HostOf(v, hp)
BY SameFinal DEF HostOf, Oracle!HostOf

LEMMA SamePort == \A v, hp : Oracle!PortOf(v, hp) = PortOf(v, hp)
BY SameFinal DEF PortOf, Oracle!PortOf, Absent, Oracle!Absent

LEMMA SameParse == \A v : Oracle!ParseUri(v) = ParseUri(v)
BY SameAddrSpec, SameDisplay, SameAfterScheme, SameUser, SameHostPort, SameHost, SamePort DEF
   ParseUri, Oracle!ParseUri

LEMMA SameGet == \A v, e : Oracle!UriGet(v, e) = UriGet(v, e)
BY SameParse, SameText DEF UriGet, Oracle!UriGet

LEMMA SameSplice == \A v, s, t : Oracle!Splice(v, s, t) = Splice(v, s, t)
BY DEF Splice, Oracle!Splice

LEMMA SameInsert == \A v, u, e, t : Oracle!Insert(v, u, e, t) = Insert(v, u, e, t)
BY SameSplice DEF Insert, Oracle!Insert, Blank, Oracle!Blank

LEMMA SameRebuild == \A v, e, t : Oracle!RebuildUri(v, e, t) = RebuildUri(v, e, t)
BY SameParse, SameSplice, SameInsert
DEF RebuildUri, Oracle!RebuildUri, Rebuilt, Oracle!Rebuilt, Absent, Oracle!Absent

LEMMA SameFlatten == \A w : Oracle!FlattenSeq(w) = FlattenSeq(w)
BY DEF FlattenSeq, Oracle!FlattenSeq

LEMMA SamePosition == \A f, n : Oracle!Position(f, n) = Position(f, n)
BY SameMin DEF Position, Oracle!Position, SelectInSeq, Oracle!SelectInSeq

LEMMA SameValue == \A f, n : Oracle!Value(f, n) = Value(f, n)
BY SamePosition DEF Value, Oracle!Value

LEMMA SamePut == \A f, n, t : Oracle!Put(f, n, t) = Put(f, n, t)
BY SamePosition DEF Put, Oracle!Put, Added, Oracle!Added

LEMMA SameAdded == \A f, n, t : Oracle!Added(f, n, t) = Added(f, n, t)
BY DEF Added, Oracle!Added

LEMMA SameWithout == \A f, n : Oracle!Without(f, n) = Without(f, n)
BY SameFlatten DEF Without, Oracle!Without

LEMMA SamePrepared == \A t : Oracle!Prepared(t) = Prepared(t)
BY DEF Prepared, Oracle!Prepared, Accepted, Oracle!Accepted

LEMMA SameInContext == \A p, c : Oracle!InContext(p, c) = InContext(p, c)
BY DEF InContext, Oracle!InContext

LEMMA SameReset == \A c : Oracle!Reset(c) = Reset(c)
BY DEF Reset, Oracle!Reset, Accepted, Oracle!Accepted

LEMMA SameNumber == \A t, k : Oracle!Number(t, k) = Number(t, k)
BY SamePosition, SameMin DEF Number, Oracle!Number, Contains, Oracle!Contains, SelectInSeq,
   Oracle!SelectInSeq

LEMMA SameKey == \A a, b : Oracle!Key(a, b) = Key(a, b)
BY DEF Key, Oracle!Key

LEMMA SameLoad == \A s, k : Oracle!LoadSlot(s, k) = LoadSlot(s, k)
BY SameNumber DEF LoadSlot, Oracle!LoadSlot

LEMMA SameStore == \A s, k, t : Oracle!StoreSlot(s, k, t) = StoreSlot(s, k, t)
BY SameNumber DEF StoreSlot, Oracle!StoreSlot

LEMMA SameCapture == \A s, g : Oracle!Capture(s, g) = Capture(s, g)
BY DEF Capture, Oracle!Capture

LEMMA SameSegment == \A s, seg : Oracle!SegmentText(s, seg) = SegmentText(s, seg)
BY SameCapture, SameLoad, SameKey DEF SegmentText, Oracle!SegmentText

LEMMA SameEval == \A s, v : Oracle!Eval(s, v) = Eval(s, v)
BY SameSegment, SameFlatten DEF Eval, Oracle!Eval

LEMMA SameReason == \A s, r : Oracle!Reason(s, r) = Reason(s, r)
BY SameEval DEF Reason, Oracle!Reason

LEMMA SameUnconditional == \A m : Oracle!Unconditional(m) = Unconditional(m)
BY DEF Unconditional, Oracle!Unconditional, NoMatch, Oracle!NoMatch

LEMMA SameSearched == \A s, m, t : Oracle!Searched(s, m, t) = Searched(s, m, t)
BY SameNumber DEF Searched, Oracle!Searched

LEMMA SameMatched == \A s, c, k, m, t : Oracle!Matched(s, c, k, m, t) = Matched(s, c, k, m, t)
<1> SUFFICES ASSUME NEW s, NEW c, NEW k, NEW m, NEW t
             PROVE  Oracle!Matched(s, c, k, m, t) = Matched(s, c, k, m, t)
  OBVIOUS
<1>1. Oracle!Searched(s, m, t) = Searched(s, m, t)
  BY SameSearched
<1>2. QED
  BY <1>1 DEF Matched, Oracle!Matched

LEMMA SamePasses == \A s, c, k, m, t : Oracle!Passes(s, c, k, m, t) = Passes(s, c, k, m, t)
BY SameMatched, SameUnconditional DEF Passes, Oracle!Passes

LEMMA SameAfterGuard == \A s, c, m, t : Oracle!AfterGuard(s, c, m, t) = AfterGuard(s, c, m, t)
BY SameSearched, SameUnconditional DEF AfterGuard, Oracle!AfterGuard

LEMMA SameConcerns == \A s, r : Oracle!Concerns(s, r) = Concerns(s, r)
BY DEF Concerns, Oracle!Concerns

LEMMA SameRuleName == \A r, i : Oracle!RuleName(r, i) = RuleName(r, i)
BY DEF RuleName, Oracle!RuleName

LEMMA SameGroup == \A s, r, i, g : Oracle!StoreGroup(s, r, i, g) = StoreGroup(s, r, i, g)
BY SameStore, SameKey, SameRuleName, SameCapture DEF StoreGroup, Oracle!StoreGroup

LEMMA SameAfterGroups == \A s, r, i : Oracle!AfterGroups(s, r, i) = AfterGroups(s, r, i)
BY SameGroup DEF AfterGroups, Oracle!AfterGroups

LEMMA SameGroups == \A s, r, i : Oracle!StoreGroups(s, r, i) = StoreGroups(s, r, i)
BY SameAfterGroups DEF StoreGroups, Oracle!StoreGroups

LEMMA SameSets == \A r : Oracle!SetsHeader(r) = SetsHeader(r)
BY DEF SetsHeader, Oracle!SetsHeader

LEMMA SameHeaderAct == \A s, r, i : Oracle!HeaderAct(s, r, i) = HeaderAct(s, r, i)
<1> SUFFICES ASSUME NEW s, NEW r, NEW i PROVE Oracle!HeaderAct(s, r, i) = HeaderAct(s, r, i)
  OBVIOUS
<1>1. /\ Oracle!SetsHeader(r) <=> SetsHeader(r)
      /\ Oracle!Eval(s, r.new) = Eval(s, r.new) /\ Oracle!Reason(s, r) = Reason(s, r)
      /\ Oracle!StoreGroups(s, r, i) = StoreGroups(s, r, i)
  BY SameSets, SameEval, SameReason, SameGroups
<1>2. /\ \A t : Oracle!Added(s.fields, r.header, t) = Added(s.fields, r.header, t)
      /\ \A t : Oracle!Put(s.fields, r.header, t) = Put(s.fields, r.header, t)
      /\ Oracle!Without(s.fields, r.header) = Without(s.fields, r.header)
  BY SameAdded, SamePut, SameWithout
<1>3. Oracle!StoreSlot(s, Oracle!Key(Oracle!RuleName(r, i), 0), Oracle!Value(s.fields, r.header))
        = StoreSlot(s, Key(RuleName(r, i), 0), Value(s.fields, r.header))
  BY SameStore, SameKey, SameRuleName, SameValue
<1>4. QED
  BY <1>1, <1>2, <1>3 DEF HeaderAct, Oracle!HeaderAct

LEMMA SameElementText == \A s, r, e : Oracle!ElementText(s, r, e) = ElementText(s, r, e)
BY SameGet, SameValue DEF ElementText, Oracle!ElementText

LEMMA SameRewrite == \A s, r, e, t : Oracle!Rewrite(s, r, e, t) = Rewrite(s, r, e, t)
BY SamePut, SameRebuild, SameValue DEF Rewrite, Oracle!Rewrite

LEMMA SameElementName == \A r, e : Oracle!ElementName(r, e) = ElementName(r, e)
BY DEF ElementName, Oracle!ElementName

LEMMA SameSupported == \A e : Oracle!Supported(e) = Supported(e)
BY DEF Supported, Oracle!Supported, UriElements, Oracle!UriElements

LEMMA SameElementAct == \A s, r, e : Oracle!ElementAct(s, r, e) = ElementAct(s, r, e)
BY SameRewrite, SameEval, SameWithout, SameStore, SameKey, SameElementName, SameElementText,
   SameReason DEF ElementAct, Oracle!ElementAct

LEMMA SameElement == \A s, r, e : Oracle!RunElement(s, r, e) = RunElement(s, r, e)
BY SameSupported, SamePasses, SameElementText, SameElementAct, SameAfterGuard DEF RunElement,
   Oracle!RunElement

LEMMA SameNextElement == \A s, r, e : Oracle!NextElement(s, r, e) = NextElement(s, r, e)
BY SameElement DEF NextElement, Oracle!NextElement, Accepted, Oracle!Accepted

LEMMA SameAfterElements == \A s, r : Oracle!AfterElements(s, r) = AfterElements(s, r)
BY SameNextElement DEF AfterElements, Oracle!AfterElements

LEMMA SameRunElements == \A s, r : Oracle!RunElements(s, r) = RunElements(s, r)
BY SameAfterElements DEF RunElements, Oracle!RunElements

LEMMA SameRule == \A s, r, i : Oracle!RunRule(s, r, i) = RunRule(s, r, i)
BY SameConcerns, SamePasses, SameValue, SameRunElements, SameHeaderAct, SameAfterGuard DEF
   RunRule, Oracle!RunRule

LEMMA SameNextRule == \A s, r, i : Oracle!NextRule(s, r, i) = NextRule(s, r, i)
BY SameRule DEF NextRule, Oracle!NextRule, Accepted, Oracle!Accepted

LEMMA SameAfterRules == \A s, rs : Oracle!AfterRules(s, rs) = AfterRules(s, rs)
BY SameNextRule DEF AfterRules, Oracle!AfterRules

LEMMA SameWalk == \A s, rs : Oracle!Walk(s, rs) = Walk(s, rs)
BY SameAfterRules DEF Walk, Oracle!Walk

LEMMA SameSlotKeys == \A v : Oracle!SlotKeys(v) = SlotKeys(v)
BY SameFlatten, SameKey DEF SlotKeys, Oracle!SlotKeys

LEMMA SameGroupKeys == \A r, i : Oracle!GroupKeys(r, i) = GroupKeys(r, i)
BY SameKey, SameRuleName DEF GroupKeys, Oracle!GroupKeys

LEMMA SameHeaderKeys == \A r, i : Oracle!HeaderKeys(r, i) = HeaderKeys(r, i)
BY SameSets, SameSlotKeys, SameGroupKeys, SameKey, SameRuleName DEF HeaderKeys, Oracle!HeaderKeys

LEMMA SameElementKeys == \A r, e : Oracle!ElementKeys(r, e) = ElementKeys(r, e)
BY SameSlotKeys, SameKey, SameElementName DEF ElementKeys, Oracle!ElementKeys

LEMMA SamePattern == \A c, m : Oracle!Pattern(c, m) = Pattern(c, m)
BY SameUnconditional DEF Pattern, Oracle!Pattern

LEMMA SameScanned == \A r : Oracle!ScannedElements(r) = ScannedElements(r)
BY SameFlatten, SameSupported DEF ScannedElements, Oracle!ScannedElements

LEMMA SameRuleKeys == \A r, i : Oracle!RuleKeys(r, i) = RuleKeys(r, i)
BY SameHeaderKeys, SameElementKeys, SameScanned, SameFlatten DEF RuleKeys, Oracle!RuleKeys

LEMMA SameRulePatterns == \A r : Oracle!RulePatterns(r) = RulePatterns(r)
BY SamePattern, SameScanned, SameFlatten DEF RulePatterns, Oracle!RulePatterns

LEMMA SameDistinct == \A t : Oracle!Distinct(t) = Distinct(t)
BY SameFlatten DEF Distinct, Oracle!Distinct

LEMMA SameScan == \A rs : Oracle!Scan(rs) = Scan(rs)
BY SameDistinct, SameFlatten, SameRuleKeys, SameRulePatterns DEF Scan, Oracle!Scan

-----------------------------------------------------------------------------
(* The module runs to where the interpreter's walk ends *)

\* A state of the module, rejected or not.
Fits(m, s) ==
  /\ StateParts \subseteq DOMAIN s /\ s.keys = m.keys /\ s.patterns = m.patterns
  /\ DOMAIN s.slots = DOMAIN m.keys /\ s.request \in BOOLEAN

Here == Config(pc, state, regs)

\* What is left of an apply ends in the state that the walk ends in.
WalkInv ==
  /\ rules \in Rulesets /\ module = Generate(rules) /\ Fits(module, state)
  /\ pc # 0 => \E g : Leads(module, Here, Config(End, Walk(entry, rules), g))

LEMMA PacketFits ==
  ASSUME NEW m, NEW p \in Packets, NEW c,
         {"keys", "patterns", "slots", "captures", "logs", "verdict"} \subseteq DOMAIN c,
         c.keys = m.keys, c.patterns = m.patterns, DOMAIN c.slots = DOMAIN m.keys,
         c.verdict = Accepted
  PROVE  Open(m, InContext(p, c))
<1> DEFINE s == InContext(p, c)
<1>1. DOMAIN p = {"request", "method", "fields"} /\ p.request \in BOOLEAN
  BY GeneratedCodeAssumption
<1>2. DOMAIN s = DOMAIN p \cup DOMAIN c
  BY DEF InContext
<1>3. s.request = p.request
  BY <1>1 DEF InContext
<1>4. s.keys = c.keys /\ s.patterns = c.patterns /\ s.slots = c.slots /\ s.verdict = c.verdict
  BY <1>1 DEF InContext
<1>5. StateParts \subseteq DOMAIN s
  BY <1>1, <1>2 DEF StateParts
<1> HIDE DEF s
<1>6. QED
  BY <1>1, <1>3, <1>4, <1>5 DEF Open, s

LEMMA OpenFits == ASSUME NEW m, NEW s, Open(m, s) PROVE Fits(m, s)
BY DEF Open, Fits

\* hmr_apply on an open state: the run ahead.
LEMMA WalkAhead ==
  ASSUME NEW rs \in Rulesets, NEW s, Open(Generate(rs), s)
  PROVE  \E g : Leads(Generate(rs), Config(1, s, NoRegs),
                      Config(Len(Generate(rs).code) + 1, Walk(s, rs), g))
<1>1. IsFullRuleset(rs)
  BY RulesetsAreFull
<1>2. IsRegs(NoRegs)
  BY DEF IsRegs, NoRegs
<1>3. Reaches(Generate(rs), Config(1, s, NoRegs), Len(Generate(rs).code) + 1, Walk(s, rs))
  BY <1>1, <1>2, WalkRuns
<1>4. QED
  BY <1>3 DEF Reaches

LEMMA InitWalkInv == Init => WalkInv
<1> SUFFICES ASSUME Init PROVE WalkInv
  OBVIOUS
<1>1. Open(module, state)
  <2> DEFINE c == Prepared(module)
  <2>1. /\ {"keys", "patterns", "slots", "captures", "logs", "verdict"} \subseteq DOMAIN c
        /\ c.keys = module.keys /\ c.patterns = module.patterns
        /\ DOMAIN c.slots = DOMAIN module.keys /\ c.verdict = Accepted
    BY DEF Prepared
  <2>2. packet \in Packets /\ state = InContext(packet, c)
    BY DEF Init
  <2> HIDE DEF c
  <2>3. QED
    BY <2>1, <2>2, PacketFits
<1>2. rules \in Rulesets /\ module = Generate(rules) /\ entry = state /\ regs = NoRegs /\ pc = 1
  BY DEF Init
<1>3. \E g : Leads(module, Config(1, state, NoRegs),
                   Config(Len(module.code) + 1, Walk(state, rules), g))
  BY <1>1, <1>2, WalkAhead
<1>4. QED
  BY <1>1, <1>2, <1>3, OpenFits DEF WalkInv, Here, End

LEMMA ReceiveWalkInv ==
  ASSUME WalkInv, NEW p \in Packets, Receive(p)
  PROVE  WalkInv'
<1>1. Open(module, state')
  <2> DEFINE c == Reset(state)
  <2>1. StateParts \subseteq DOMAIN state /\ state.keys = module.keys
        /\ state.patterns = module.patterns /\ DOMAIN state.slots = DOMAIN module.keys
    BY DEF WalkInv, Fits
  <2>2. /\ {"keys", "patterns", "slots", "captures", "logs", "verdict"} \subseteq DOMAIN c
        /\ c.keys = module.keys /\ c.patterns = module.patterns
        /\ DOMAIN c.slots = DOMAIN module.keys /\ c.verdict = Accepted
    BY <2>1 DEF Reset, StateParts
  <2>3. state' = InContext(p, c)
    BY DEF Receive
  <2> HIDE DEF c
  <2>4. QED
    BY <2>2, <2>3, PacketFits
<1>2. /\ rules' = rules /\ module' = module /\ entry' = state' /\ regs' = NoRegs /\ pc' = 1
      /\ rules \in Rulesets /\ module = Generate(rules)
  BY DEF Receive, WalkInv
<1>3. \E g : Leads(module, Config(1, state', NoRegs),
                   Config(Len(module.code) + 1, Walk(state', rules), g))
  BY <1>1, <1>2, WalkAhead
<1>4. Fits(module, state')
  BY <1>1, OpenFits
<1>5. QED
  BY <1>2, <1>3, <1>4 DEF WalkInv, Here, End

\* Every action but the return is a step of the machine.
Steps == Config(pc', state', regs') = Step(module, Here)

LEMMA Stepping ==
  ASSUME NEW op, At(op), Config(pc', state', regs') = Does(module, Here, op, Operand, state, regs)
  PROVE  Steps
<1>1. Here.pc = pc /\ Here.state = state /\ Here.regs = regs
  BY DEF Here, Config
<1>2. QED
  BY <1>1 DEF Steps, Step, At, Operand

LEMMA BranchesStep ==
  ASSUME IsRequest \/ Method \/ Match \/ RegexMatch
  PROVE  Steps /\ Fixed
<1>0. Here.pc = pc /\ Here.regs = regs
  BY DEF Here, Config
<1>1. CASE IsRequest
  <2>1. Config(pc', state', regs') = Does(module, Here, "is_request", Operand, state, regs)
    BY <1>0, <1>1 DEF IsRequest, Branches, Does, Jumps
  <2>2. QED
    BY <1>1, <2>1, Stepping DEF IsRequest, Branches
<1>2. CASE Method
  <2>1. Config(pc', state', regs') = Does(module, Here, "method", Operand, state, regs)
    BY <1>0, <1>2 DEF Method, Branches, Does, Jumps
  <2>2. QED
    BY <1>2, <2>1, Stepping DEF Method, Branches
<1>3. CASE Match
  <2>1. Config(pc', state', regs') = Does(module, Here, "match", Operand, state, regs)
    BY <1>0, <1>3 DEF Match, Branches, Does, Jumps
  <2>2. QED
    BY <1>3, <2>1, Stepping DEF Match, Branches
<1>4. CASE RegexMatch
  <2>1. Config(pc', state', regs') = Does(module, Here, "match", Operand, state, regs)
    BY <1>0, <1>4 DEF RegexMatch, Branches, Does, Jumps
  <2>2. QED
    BY <1>4, <2>1, Stepping DEF RegexMatch, Branches
<1>5. QED
  BY <1>1, <1>2, <1>3, <1>4

LEMMA ReadsStep ==
  ASSUME GetHeader \/ UriElement \/ BuildValue \/ GetCapture \/ UriSet
  PROVE  Steps /\ Fixed
<1>0. Here.pc = pc /\ Here.regs = regs
  BY DEF Here, Config
<1>1. CASE GetHeader
  <2>1. Config(pc', state', regs') = Does(module, Here, "get", Operand, state, regs)
    BY <1>0, <1>1 DEF GetHeader, Runs, Does, Goes
  <2>2. QED
    BY <1>1, <2>1, Stepping DEF GetHeader, Runs
<1>2. CASE UriElement
  <2>1. Config(pc', state', regs') = Does(module, Here, "uri_get", Operand, state, regs)
    BY <1>0, <1>2 DEF UriElement, Runs, Does, Goes
  <2>2. QED
    BY <1>2, <2>1, Stepping DEF UriElement, Runs
<1>3. CASE BuildValue
  <2>1. Config(pc', state', regs') = Does(module, Here, "value", Operand, state, regs)
    BY <1>0, <1>3 DEF BuildValue, Runs, Does, Goes
  <2>2. QED
    BY <1>3, <2>1, Stepping DEF BuildValue, Runs
<1>4. CASE GetCapture
  <2>1. Config(pc', state', regs') = Does(module, Here, "capture", Operand, state, regs)
    BY <1>0, <1>4 DEF GetCapture, Runs, Does, Goes
  <2>2. QED
    BY <1>4, <2>1, Stepping DEF GetCapture, Runs
<1>5. CASE UriSet
  <2>1. Config(pc', state', regs') = Does(module, Here, "uri_set", Operand, state, regs)
    BY <1>0, <1>5 DEF UriSet, Runs, Does, Goes
  <2>2. QED
    BY <1>5, <2>1, Stepping DEF UriSet, Runs
<1>6. QED
  BY <1>1, <1>2, <1>3, <1>4, <1>5

LEMMA EffectsStep ==
  ASSUME SetHeader \/ AddHeader \/ DeleteHeader \/ Store \/ Log \/ Reject
  PROVE  Steps /\ Fixed
<1>0. Here.pc = pc /\ Here.regs = regs
  BY DEF Here, Config
<1>1. CASE SetHeader
  <2>1. Config(pc', state', regs') = Does(module, Here, "set", Operand, state, regs)
    BY <1>0, <1>1 DEF SetHeader, Runs, Does, Goes
  <2>2. QED
    BY <1>1, <2>1, Stepping DEF SetHeader, Runs
<1>2. CASE AddHeader
  <2>1. Config(pc', state', regs') = Does(module, Here, "add", Operand, state, regs)
    BY <1>0, <1>2 DEF AddHeader, Runs, Does, Goes
  <2>2. QED
    BY <1>2, <2>1, Stepping DEF AddHeader, Runs
<1>3. CASE DeleteHeader
  <2>1. Config(pc', state', regs') = Does(module, Here, "delete", Operand, state, regs)
    BY <1>0, <1>3 DEF DeleteHeader, Runs, Does, Goes
  <2>2. QED
    BY <1>3, <2>1, Stepping DEF DeleteHeader, Runs
<1>4. CASE Store
  <2>1. Config(pc', state', regs') = Does(module, Here, "store", Operand, state, regs)
    BY <1>0, <1>4 DEF Store, Runs, Does, Goes
  <2>2. QED
    BY <1>4, <2>1, Stepping DEF Store, Runs
<1>5. CASE Log
  <2>1. Config(pc', state', regs') = Does(module, Here, "log", Operand, state, regs)
    BY <1>0, <1>5 DEF Log, Runs, Does, Goes
  <2>2. QED
    BY <1>5, <2>1, Stepping DEF Log, Runs
<1>6. CASE Reject
  <2>1. Config(pc', state', regs') = Does(module, Here, "reject", Operand, state, regs)
    BY <1>0, <1>6 DEF Reject, Does, End
  <2>2. QED
    BY <1>6, <2>1, Stepping DEF Reject
<1>7. QED
  BY <1>1, <1>2, <1>3, <1>4, <1>5, <1>6

\* No instruction changes the tables, the number of slots or the kind of message.
LEMMA StepsFit ==
  ASSUME Fits(module, state), Execute
  PROVE  Fits(module, state')
<1> USE DEF Fits, StateParts
<1>1. CASE UNCHANGED state
  BY <1>1
<1>2. CASE RegexMatch
  BY <1>2 DEF RegexMatch, Branches
<1>3. CASE SetHeader
  BY <1>3 DEF SetHeader, Runs
<1>4. CASE AddHeader
  BY <1>4 DEF AddHeader, Runs
<1>5. CASE DeleteHeader
  BY <1>5 DEF DeleteHeader, Runs
<1>6. CASE Store
  BY <1>6 DEF Store, Runs
<1>7. CASE Log
  BY <1>7 DEF Log, Runs
<1>8. CASE Reject
  BY <1>8 DEF Reject
<1>9. CASE IsRequest \/ Method \/ Match \/ Return
  <2>1. UNCHANGED state
    BY <1>9 DEF IsRequest, Method, Match, Return, Branches
  <2>2. QED
    BY <1>1, <2>1
<1>10. CASE GetHeader \/ UriElement \/ BuildValue \/ GetCapture \/ UriSet
  <2>1. UNCHANGED state
    BY <1>10 DEF GetHeader, UriElement, BuildValue, GetCapture, UriSet, Runs
  <2>2. QED
    BY <1>1, <2>1
<1>11. QED
  BY <1>2, <1>3, <1>4, <1>5, <1>6, <1>7, <1>8, <1>9, <1>10 DEF Execute

LEMMA ExecuteWalkInv ==
  ASSUME WalkInv, Execute
  PROVE  WalkInv'
<1>1. Fits(module, state')
  BY StepsFit DEF WalkInv
<1>2. CASE Return
  BY <1>1, <1>2 DEF Return, WalkInv
<1>3. CASE ~Return
  <2>1. Steps /\ Fixed
    BY <1>3, BranchesStep, ReadsStep, EffectsStep DEF Execute
  <2>2. pc \in 1 .. Len(module.code) /\ Len(module.code) \in Nat
    BY SoundGenerated, CodeIsSequence, <1>3
       DEF WalkInv, Sound, Execute, IsRequest, Method, Match, RegexMatch, GetHeader, UriElement,
           BuildValue, GetCapture, UriSet, SetHeader, AddHeader, DeleteHeader, Store, Log, Reject, At
  <2>3. pc # 0 /\ pc # End
    BY <2>2 DEF End
  <2>4. PICK g : Leads(module, Here, Config(End, Walk(entry, rules), g))
    BY <2>3 DEF WalkInv
  <2>5. Here # Config(End, Walk(entry, rules), g)
    <3>1. Here.pc = pc /\ Config(End, Walk(entry, rules), g).pc = End
      BY DEF Here, Config
    <3>2. QED
      BY <2>3, <3>1
  <2>6. Leads(module, Step(module, Here), Config(End, Walk(entry, rules), g))
    BY <2>4, <2>5, LeadsFromNext
  <2>7. Leads(module, Config(pc', state', regs'), Config(End, Walk(entry, rules), g))
    BY <2>1, <2>6 DEF Steps
  <2>8. UNCHANGED <<rules, module, entry>> /\ End' = End /\ Here' = Config(pc', state', regs')
    BY <2>1 DEF Fixed, End, Here
  <2>9. QED
    BY <1>1, <2>7, <2>8 DEF WalkInv
<1>4. QED
  BY <1>2, <1>3

LEMMA WalkInvHolds == Spec => []WalkInv
<1>1. WalkInv /\ [Next]_vars => WalkInv'
  <2>1. CASE UNCHANGED vars
    BY <2>1 DEF vars, WalkInv, Here, End
  <2>2. QED
    BY <2>1, ReceiveWalkInv, ExecuteWalkInv DEF Next
<1>2. QED
  BY InitWalkInv, <1>1, PTL DEF Spec

\* Before it returns an apply stays in the code or at its end.
LEMMA StaysInside ==
  ASSUME rules \in Rulesets, module = Generate(rules), Execute, ~Return
  PROVE  pc # 0 /\ pc' # 0
<1>1. /\ Len(module.code) \in Nat
      /\ \A i \in 1 .. Len(module.code) : module.code[i].by \in Nat
  BY SoundGenerated, CodeIsSequence DEF Sound
<1>2. /\ pc \in 1 .. Len(module.code)
      /\ pc' = pc + 1 \/ pc' = pc + module.code[pc].by \/ pc' = End
  BY DEF Execute, IsRequest, Method, Match, RegexMatch, GetHeader, UriElement, BuildValue,
         GetCapture, UriSet, SetHeader, AddHeader, DeleteHeader, Store, Log, Reject, At,
         Branches, Runs
<1>3. QED
  BY <1>1, <1>2 DEF End

\* At its end an apply has done what the walk does.
LEMMA WalkedAtEnd ==
  ASSUME WalkInv, pc = End
  PROVE  pc # 0 /\ state = Walk(entry, rules)
<1>1. Len(module.code) \in Nat
  BY SoundGenerated, CodeIsSequence DEF WalkInv, Sound
<1>2. pc # 0 /\ pc \notin 1 .. Len(module.code)
  BY <1>1 DEF End
<1>3. PICK g : Leads(module, Here, Config(End, Walk(entry, rules), g))
  BY <1>2 DEF WalkInv
<1>4. Here.pc = pc /\ Here.state = state /\ Config(End, Walk(entry, rules), g).state = Walk(entry, rules)
  BY DEF Here, Config
<1>5. Step(module, Here) = Here
  BY <1>2, <1>4 DEF Step
<1>6. Config(End, Walk(entry, rules), g) = Here
  BY <1>3, <1>5, LeadsWhereItIs
<1>7. QED
  BY <1>2, <1>4, <1>6

-----------------------------------------------------------------------------
(* The tables of all that occurs in the rules *)

ElementsIn(rs) == FlattenSeq([i \in DOMAIN rs |-> rs[i].elements])

KeysIn(r, i) ==
  HeaderKeys(r, i) \o FlattenSeq([j \in DOMAIN r.elements |-> ElementKeys(r, r.elements[j])])

PatternsIn(rs) ==
  [i \in DOMAIN rs |-> Pattern(rs[i].cmp, rs[i].match)]
    \o [j \in DOMAIN ElementsIn(rs) |-> Pattern(ElementsIn(rs)[j].cmp, ElementsIn(rs)[j].match)]

OccurringIn(rs) ==
  [keys     |-> Reverse(Distinct(FlattenSeq([i \in DOMAIN rs |-> KeysIn(rs[i], i)]))),
   patterns |-> Reverse(Distinct(FlattenSeq(PatternsIn(rs))))]

LEMMA SameReverse == \A t : Oracle!Reverse(t) = Reverse(t)
BY DEF Reverse, Oracle!Reverse

LEMMA SameElementsIn ==
  Oracle!FlattenSeq([i \in DOMAIN rules |-> rules[i].elements]) = ElementsIn(rules)
BY SameFlatten DEF ElementsIn

LEMMA SameKeysIn ==
  ASSUME NEW r, NEW i
  PROVE  Oracle!HeaderKeys(r, i)
           \o Oracle!FlattenSeq([j \in DOMAIN r.elements |-> Oracle!ElementKeys(r, r.elements[j])])
           = KeysIn(r, i)
<1>1. [j \in DOMAIN r.elements |-> Oracle!ElementKeys(r, r.elements[j])]
        = [j \in DOMAIN r.elements |-> ElementKeys(r, r.elements[j])]
  BY SameElementKeys
<1>2. QED
  BY <1>1, SameHeaderKeys, SameFlatten DEF KeysIn

LEMMA SameOccurring == Oracle!Occurring = OccurringIn(rules)
<1> DEFINE E == ElementsIn(rules)
           K == [i \in DOMAIN rules |->
                   Oracle!HeaderKeys(rules[i], i)
                   \o Oracle!FlattenSeq([j \in DOMAIN rules[i].elements |->
                                           Oracle!ElementKeys(rules[i], rules[i].elements[j])])]
           P == [i \in DOMAIN rules |-> Oracle!Pattern(rules[i].cmp, rules[i].match)]
                \o [j \in DOMAIN E |-> Oracle!Pattern(E[j].cmp, E[j].match)]
<1>1. Oracle!Occurring = [keys |-> Oracle!Reverse(Oracle!Distinct(Oracle!FlattenSeq(K))),
                          patterns |-> Oracle!Reverse(Oracle!Distinct(Oracle!FlattenSeq(P)))]
  BY SameElementsIn DEF Oracle!Occurring
<1>2. K = [i \in DOMAIN rules |-> KeysIn(rules[i], i)]
  BY SameKeysIn
<1>3. P = PatternsIn(rules)
  <2>1. /\ [i \in DOMAIN rules |-> Oracle!Pattern(rules[i].cmp, rules[i].match)]
             = [i \in DOMAIN rules |-> Pattern(rules[i].cmp, rules[i].match)]
        /\ [j \in DOMAIN E |-> Oracle!Pattern(E[j].cmp, E[j].match)]
             = [j \in DOMAIN E |-> Pattern(E[j].cmp, E[j].match)]
    <3> HIDE DEF E
    <3>1. QED
      BY SamePattern
  <2>2. QED
    BY <2>1 DEF PatternsIn
<1> HIDE DEF K, P
<1>4. QED
  BY <1>1, <1>2, <1>3, SameReverse, SameDistinct, SameFlatten DEF OccurringIn

LEMMA KeysInHold ==
  ASSUME NEW r, IsFullRule(r), NEW i
  PROVE  IsList(KeysIn(r, i)) /\ RuleUses(r, i) \subseteq ToSet(KeysIn(r, i))
<1> DEFINE N == Len(r.elements)
           w == [j \in DOMAIN r.elements |-> ElementKeys(r, r.elements[j])]
           a == HeaderKeys(r, i)
           b == FlattenSeq(w)
<1>1. /\ N \in Nat /\ DOMAIN r.elements = 1 .. N
      /\ \A j \in 1 .. N : r.elements[j] \in ToSet(r.elements)
  BY ElementsOfRule
<1>2. AreLists(w, N)
  <2>1. \A j \in 1 .. N : IsList(w[j])
    BY <1>1, PartsAreLists
  <2>2. w = [j \in 1 .. N |-> w[j]]
    BY <1>1
  <2> HIDE DEF w, N
  <2>3. QED
    BY <1>1, <2>1, <2>2 DEF AreLists
<1>3. ASSUME NEW j \in Visited(r) PROVE j \in 1 .. N /\ w[j] = ElementKeys(r, r.elements[j])
  BY <1>1 DEF Visited
<1>4. KeysIn(r, i) = a \o b
  BY DEF KeysIn
<1>5. IsList(a)
  BY PartsAreLists
<1>6. RuleUses(r, i) = ToSet(a) \cup UNION {ToSet(ElementKeys(r, r.elements[j])) : j \in Visited(r)}
  BY DEF RuleUses
<1> HIDE DEF a, w, N
<1>7. IsList(b) /\ \A j \in 1 .. N : ToSet(w[j]) \subseteq ToSet(b)
  BY <1>2, FlattenedIsList
<1> HIDE DEF b
<1>8. IsList(a \o b) /\ ToSet(a) \subseteq ToSet(a \o b) /\ ToSet(b) \subseteq ToSet(a \o b)
  BY <1>5, <1>7, ConcatHolds
<1>9. QED
  BY <1>3, <1>4, <1>6, <1>7, <1>8

LEMMA OccurringCovers ==
  ASSUME NEW rs, IsFullRuleset(rs)
  PROVE  Covers(OccurringIn(rs), rs)
<1> DEFINE n == Len(rs)
           K == [i \in DOMAIN rs |-> KeysIn(rs[i], i)]
           w == [i \in DOMAIN rs |-> rs[i].elements]
           E == ElementsIn(rs)
           m == Len(E)
           a == [i \in DOMAIN rs |-> Pattern(rs[i].cmp, rs[i].match)]
           b == [j \in DOMAIN E |-> Pattern(E[j].cmp, E[j].match)]
<1>1. n \in Nat /\ DOMAIN rs = 1 .. n /\ \A i \in 1 .. n : IsFullRule(rs[i])
  BY SoundRuleBlocks
<1>2. AreLists(K, n)
  <2>1. \A i \in 1 .. n : IsList(K[i])
    BY <1>1, KeysInHold
  <2>2. K = [i \in 1 .. n |-> K[i]]
    BY <1>1
  <2> HIDE DEF K, n
  <2>3. QED
    BY <1>1, <2>1, <2>2 DEF AreLists
<1>3. AreLists(w, n)
  <2>1. \A i \in 1 .. n : IsList(w[i])
    BY <1>1 DEF IsFullRule, IsRule, IsList
  <2>2. w = [i \in 1 .. n |-> w[i]]
    BY <1>1
  <2> HIDE DEF w, n
  <2>3. QED
    BY <1>1, <2>1, <2>2 DEF AreLists
<1>4. IsList(E) /\ \A i \in 1 .. n : ToSet(rs[i].elements) \subseteq ToSet(E)
  <2>1. E = FlattenSeq(w)
    BY DEF ElementsIn
  <2>2. \A i \in 1 .. n : w[i] = rs[i].elements
    BY <1>1
  <2> HIDE DEF w, E, n
  <2>3. QED
    BY <1>3, <2>1, <2>2, FlattenedIsList
<1>5. m \in Nat /\ DOMAIN E = 1 .. m /\ \A x \in ToSet(E) : \E k \in 1 .. m : x = E[k]
  <2> HIDE DEF E
  <2>1. QED
    BY <1>4, ListElements
<1> HIDE DEF E
<1>6. AreLists(a, n) /\ AreLists(b, m)
  <2>1. (\A i \in 1 .. n : IsList(a[i])) /\ (\A j \in 1 .. m : IsList(b[j]))
    BY <1>1, <1>5, PatternIsList
  <2>2. a = [i \in 1 .. n |-> a[i]] /\ b = [j \in 1 .. m |-> b[j]]
    BY <1>1, <1>5
  <2> HIDE DEF a, b, n, m
  <2>3. QED
    BY <1>1, <1>5, <2>1, <2>2 DEF AreLists
<1>7. PatternsIn(rs) = a \o b
  BY DEF PatternsIn, E
<1>8. ASSUME NEW x \in Uses(rs) PROVE \E i \in 1 .. n : x \in ToSet(K[i])
  <2>1. PICK i \in 1 .. n : x \in RuleUses(rs[i], i)
    BY DEF Uses
  <2>2. x \in ToSet(KeysIn(rs[i], i))
    BY <1>1, <2>1, KeysInHold
  <2>3. QED
    BY <1>1, <2>2
<1>9. ASSUME NEW x \in Searches(rs)
      PROVE  (\E i \in 1 .. n : x \in ToSet(a[i])) \/ (\E j \in 1 .. m : x \in ToSet(b[j]))
  <2>1. PICK i \in 1 .. n : x \in RuleSearches(rs[i])
    BY DEF Searches
  <2>2. CASE x \in ToSet(Pattern(rs[i].cmp, rs[i].match))
    BY <1>1, <2>2
  <2>3. CASE x \notin ToSet(Pattern(rs[i].cmp, rs[i].match))
    <3>1. PICK j \in Visited(rs[i]) : x \in ToSet(Pattern(rs[i].elements[j].cmp, rs[i].elements[j].match))
      BY <2>1, <2>3 DEF RuleSearches
    <3>2. rs[i].elements[j] \in ToSet(rs[i].elements)
      <4>1. j \in 1 .. Len(rs[i].elements)
        BY DEF Visited
      <4>2. QED
        BY <1>1, <4>1, ElementsOfRule
    <3>3. PICK k \in 1 .. m : rs[i].elements[j] = E[k]
      BY <1>4, <1>5, <3>2
    <3>4. x \in ToSet(b[k])
      BY <1>5, <3>1, <3>3
    <3>5. QED
      BY <3>4
  <2>4. QED
    BY <2>2, <2>3
<1> HIDE DEF a, b, n, m, K
<1> DEFINE c == a \o b
           o == n + m
<1>10. Follow(a, n, b, m, c, o)
  <2>1. c = a \o b /\ o = n + m
    OBVIOUS
  <2> HIDE DEF c, o
  <2>2. QED
    BY <1>6, <2>1, ListsJoined
<1> HIDE DEF c, o
<1>11. \A x \in Searches(rs) : \E k \in 1 .. o : x \in ToSet(c[k])
  BY <1>9, <1>10 DEF Follow
<1>12. AreLists(c, o)
  BY <1>10 DEF Follow
<1>13. /\ IsList(Reverse(Distinct(FlattenSeq(c))))
       /\ Searches(rs) \subseteq ToSet(Reverse(Distinct(FlattenSeq(c))))
  BY <1>11, <1>12, DistinctCovers
<1>14. IsList(Reverse(Distinct(FlattenSeq(K)))) /\ Uses(rs) \subseteq ToSet(Reverse(Distinct(FlattenSeq(K))))
  BY <1>2, <1>8, DistinctCovers
<1>15. /\ OccurringIn(rs).keys = Reverse(Distinct(FlattenSeq(K)))
       /\ OccurringIn(rs).patterns = Reverse(Distinct(FlattenSeq(c)))
  BY <1>7 DEF OccurringIn, K, c
<1>16. QED
  BY <1>13, <1>14, <1>15 DEF Covers

-----------------------------------------------------------------------------
(* The outcome of a packet *)

LEMMA SameOutcome ==
  ASSUME NEW s, NEW t, LooksLike(s, t)
  PROVE  Oracle!Outcome(s) = Oracle!Outcome(t)
BY DEF LooksLike, Oracle!Outcome

LEMMA AloneIs ==
  ASSUME NEW tables
  PROVE  Oracle!Alone(tables) = Oracle!Outcome(Walk(InContext(packet, Prepared(tables)), rules))
BY SamePrepared, SameInContext, SameWalk DEF Oracle!Alone

LEMMA SameStores == ASSUME NEW r, NEW i PROVE Oracle!Stores(r, i) = Gained(r, i)
<1>1. Oracle!HeaderKeys(r, i) = HeaderKeys(r, i) /\ (Oracle!Unconditional(r.match) <=> Unconditional(r.match))
  BY SameHeaderKeys, SameUnconditional
<1>2. Oracle!ToSet(HeaderKeys(r, i)) = ToSet(HeaderKeys(r, i))
  BY DEF ToSet, Oracle!ToSet
<1>3. QED
  BY <1>1, <1>2 DEF Oracle!Stores, Gained, Filled, Unguarded

LEMMA LoadsHave ==
  ASSUME NEW r
  PROVE  /\ ToSet(SlotKeys(r.new)) \subseteq Oracle!Loads(r)
         /\ \A e \in ToSet(r.elements) : ToSet(SlotKeys(e.new)) \subseteq Oracle!Loads(r)
<1>1. \A t : Oracle!ToSet(t) = ToSet(t)
  BY DEF ToSet, Oracle!ToSet
<1>2. Oracle!Loads(r) = ToSet(SlotKeys(r.new)) \cup UNION {ToSet(SlotKeys(e.new)) : e \in ToSet(r.elements)}
  BY <1>1, SameSlotKeys DEF Oracle!Loads
<1>3. QED
  BY <1>2

LEMMA StoredFirstIs ==
  ASSUME IsFullRuleset(rules), Oracle!StoredFirst
  PROVE  \A i \in 1 .. Len(rules) :
           /\ ToSet(SlotKeys(rules[i].new)) \subseteq Known(rules, {}, i - 1)
           /\ \A e \in ToSet(rules[i].elements) : ToSet(SlotKeys(e.new)) \subseteq Known(rules, {}, i - 1)
<1>1. DOMAIN rules = 1 .. Len(rules)
  BY SoundRuleBlocks
<1>2. ASSUME NEW i \in 1 .. Len(rules) PROVE Oracle!Loads(rules[i]) \subseteq Known(rules, {}, i - 1)
  <2>1. Oracle!Loads(rules[i]) \subseteq UNION {Oracle!Stores(rules[j], j) : j \in 1 .. i - 1}
    BY <1>1 DEF Oracle!StoredFirst
  <2>2. UNION {Oracle!Stores(rules[j], j) : j \in 1 .. i - 1} = Known(rules, {}, i - 1)
    BY SameStores DEF Known
  <2>3. QED
    BY <2>1, <2>2
<1>3. QED
  BY <1>2, LoadsHave

\* hmr_apply is entered with the packet in a reset context, and has walked the
\* rules from there when it has returned.
EntryInv ==
  /\ packet \in Packets /\ HasTables(entry, module) /\ IsFresh(entry, packet)
  /\ pc = 0 => state = Walk(entry, rules)

LEMMA PacketsArePackets == \A p \in Packets : IsPacket(p)
BY GeneratedCodeAssumption DEF IsPacket

LEMMA InitEntryInv == Init => EntryInv
<1> SUFFICES ASSUME Init PROVE EntryInv
  OBVIOUS
<1>1. packet \in Packets /\ entry = InContext(packet, Prepared(module)) /\ pc = 1
  BY DEF Init
<1>2. HasTables(entry, module) /\ IsFresh(entry, packet)
  BY <1>1, PreparedIsFresh, PacketsArePackets
<1>3. QED
  BY <1>1, <1>2 DEF EntryInv

LEMMA ReceiveEntryInv ==
  ASSUME WalkInv, NEW p \in Packets, Receive(p)
  PROVE  EntryInv'
<1> DEFINE c == Reset(state)
<1>1. StateParts \subseteq DOMAIN state /\ state.keys = module.keys
      /\ state.patterns = module.patterns /\ DOMAIN state.slots = DOMAIN module.keys
  BY DEF WalkInv, Fits
<1>2. /\ {"keys", "patterns", "slots", "captures", "logs", "verdict"} \subseteq DOMAIN c
      /\ c.captures = <<>> /\ c.logs = <<>> /\ c.verdict = Accepted
      /\ c.keys = module.keys /\ c.patterns = module.patterns /\ DOMAIN c.slots = DOMAIN module.keys
  BY <1>1 DEF Reset, StateParts
<1>3. packet' = p /\ module' = module /\ entry' = InContext(p, c) /\ pc' = 1
  BY DEF Receive
<1> HIDE DEF c
<1>4. HasTables(InContext(p, c), module) /\ IsFresh(InContext(p, c), p)
  BY <1>2, FreshInContext, PacketsArePackets
<1>5. QED
  BY <1>3, <1>4 DEF EntryInv

LEMMA NextEntryInv ==
  ASSUME WalkInv, EntryInv, [Next]_vars
  PROVE  EntryInv'
<1>1. ASSUME NEW p \in Packets, Receive(p) PROVE EntryInv'
  BY <1>1, ReceiveEntryInv
<1>2. CASE Return
  <2>1. state = Walk(entry, rules)
    BY <1>2, WalkedAtEnd DEF Return
  <2>2. QED
    BY <1>2, <2>1 DEF Return, EntryInv
<1>3. CASE Execute /\ ~Return
  <2>1. Fixed
    BY <1>3, BranchesStep, ReadsStep, EffectsStep DEF Execute
  <2>2. pc' # 0
    BY <1>3, StaysInside DEF WalkInv
  <2>3. QED
    BY <2>1, <2>2 DEF Fixed, EntryInv
<1>4. CASE UNCHANGED vars
  BY <1>4 DEF vars, EntryInv
<1>5. QED
  BY <1>1, <1>2, <1>3, <1>4 DEF Next

LEMMA EntryInvHolds == Spec => []EntryInv
<1>1. WalkInv /\ EntryInv /\ [Next]_vars => EntryInv'
  BY NextEntryInv
<1>2. QED
  BY InitEntryInv, <1>1, WalkInvHolds, PTL DEF Spec

-----------------------------------------------------------------------------
(* Theorems *)

\* "branch to the reject exit" (compatibility-matrix.md:42), for any ruleset
\* and whatever the matchers answer: between a reject and the next packet no
\* instruction changes the message, the slots, the logs or the verdict.
THEOREM RejectsAreFinal == Spec => RejectIsFinal
<1>1. RejectInv /\ [Next]_vars => [state.verdict # Accepted /\ pc # 0 => UNCHANGED state]_vars
  <2>1. SUFFICES ASSUME RejectInv, Next, state.verdict # Accepted, pc # 0
                 PROVE  UNCHANGED state
    OBVIOUS
  <2>2. pc = End
    BY <2>1 DEF RejectInv
  <2>3. \A op : ~At(op)
    BY <2>1, InstructionBeforeEnd
  <2>4. ~Reject
    BY <2>3 DEF Reject
  <2>5. CASE Return
    BY <2>5 DEF Return
  <2>6. CASE Execute /\ ~Return
    BY <2>1, <2>3, <2>4, <2>6, CallsKeepVerdict DEF Execute
  <2>7. CASE \E p \in Packets : Receive(p)
    BY <2>1, <2>7 DEF Receive
  <2>8. QED
    BY <2>1, <2>5, <2>6, <2>7 DEF Next
<1>2. QED
  BY RejectInvHolds, <1>1, PTL DEF Spec, RejectIsFinal

\* For every ruleset the program counter stays in the code, whose branches lead
\* forward and at most to its end, and the slots are those of the module.
THEOREM TypeCorrect == Spec => []TypeOK
<1>1. CodeInv => TypeOK
  BY DEF CodeInv, Kept, TypeOK
<1>2. QED
  BY CodeInvHolds, <1>1, PTL

\* "Re-read the header each time: a previous element rule may have mutated it"
\* (ir_generator.cpp:428-429), for any ruleset: whatever rules and branches
\* precede a rewrite, the value it starts from is the header's.
THEOREM RewritesAreFresh == Spec => []NeverRewritesStale
<1>1. CodeInv => NeverRewritesStale
  <2> SUFFICES ASSUME CodeInv, NEW n \in 1 .. Len(module.code) - 1, pc = n, module.code[n].op = "uri_set"
               PROVE  regs.header = Value(state.fields, module.code[n + 1].arg)
    BY DEF NeverRewritesStale
  <2>1. Len(module.code) \in Nat /\ Sound(module.code)
    BY CodeIsSequence DEF CodeInv, Kept, Sound
  <2>2. n \in 1 .. Len(module.code)
    BY <2>1
  <2>3. PICK g \in 1 .. n - 1 : FreshFrom(module.code, g, n)
    BY <2>1, <2>2 DEF Sound, Rereads
  <2>4. pc \in g + 1 .. n
    BY <2>2, <2>3
  <2>5. QED
    BY <2>2, <2>3, <2>4 DEF CodeInv, ReadIsCurrent
<1>2. QED
  BY CodeInvHolds, <1>1, PTL

\* "a random ruleset applied by the interpreter and by the compiled .so must
\* produce byte-identical output" (interpreter.hpp:15-16): for any ruleset and
\* any sequence of packets, and whatever the matchers, the captures and the
\* variables are, an apply of the generated code (its tests, branches, immediate
\* slot and regex numbers) leaves the message, the slots, the captures, the logs
\* and the verdict that the interpreter's walk leaves.
THEOREM ModulesImplementInterpreter == Spec => ImplementsInterpreter
<1>1. Init => Oracle!Init
  <2> SUFFICES ASSUME Init PROVE Oracle!Init
    OBVIOUS
  <2>1. IsFullRuleset(rules) /\ module = Generate(rules)
    BY RulesetsAreFull DEF Init
  <2>2. module.keys = Scan(rules).keys /\ module.patterns = Scan(rules).patterns
    BY <2>1, GeneratesScan
  <2>3. Prepared(module) = Prepared(Scan(rules))
    BY <2>2 DEF Prepared
  <2>4. QED
    BY <2>3, SameScan, SamePrepared, SameInContext DEF Init, Oracle!Init
<1>2. WalkInv /\ [Next]_vars => [Oracle!Next]_(Oracle!vars)
  <2> SUFFICES ASSUME WalkInv, [Next]_vars PROVE [Oracle!Next]_(Oracle!vars)
    OBVIOUS
  <2>1. ASSUME NEW p \in Packets, Receive(p) PROVE Oracle!Receive(p)
    BY <2>1, SameReset, SameInContext DEF Receive, Oracle!Receive
  <2>2. CASE Return
    <3>1. pc # 0 /\ state = Walk(entry, rules)
      BY <2>2, WalkedAtEnd DEF Return
    <3>2. Oracle!Apply
      BY <2>2, <3>1, SameWalk DEF Return, Oracle!Apply
    <3>3. QED
      BY <3>2 DEF Oracle!Next
  <2>3. CASE Execute /\ ~Return
    <3>1. Steps /\ Fixed
      BY <2>3, BranchesStep, ReadsStep, EffectsStep DEF Execute
    <3>2. pc # 0 /\ pc' # 0
      BY <2>3, StaysInside DEF WalkInv
    <3>3. QED
      BY <3>1, <3>2 DEF Fixed, Oracle!vars
  <2>4. CASE UNCHANGED vars
    BY <2>4 DEF vars, Oracle!vars
  <2>5. QED
    BY <2>1, <2>2, <2>3, <2>4 DEF Next, Oracle!Next
<1>3. QED
  BY <1>1, <1>2, WalkInvHolds, PTL DEF Spec, ImplementsInterpreter, Oracle!Spec

\* "unreachable: the scan registered every slot" (interpreter.cpp:84, 92): for
\* any ruleset and packet the scan's tables, which leave out what no apply can
\* reach, number every key and find every pattern that an apply asks for, so that
\* tables of all that occurs in the rules, in another order, change no outcome.
THEOREM TablesSuffice == Spec => []TablesAreComplete
<1>1. WalkInv /\ EntryInv => TablesAreComplete
  <2> SUFFICES ASSUME WalkInv, EntryInv PROVE TablesAreComplete
    OBVIOUS
  <2> DEFINE a == Scan(rules)
             b == OccurringIn(rules)
  <2>1. IsFullRuleset(rules) /\ packet \in Packets
    BY RulesetsAreFull DEF WalkInv, EntryInv
  <2>2. Covers(a, rules) /\ Covers(b, rules)
    BY <2>1, ScanCovers, OccurringCovers
  <2>3. Oracle!Scan(rules) = a /\ Oracle!Occurring = b
    BY SameScan, SameOccurring
  <2> HIDE DEF a, b
  <2>4. LooksLike(Walk(InContext(packet, Prepared(a)), rules), Walk(InContext(packet, Prepared(b)), rules))
    BY <2>1, <2>2, CoversAlike, PacketsArePackets
  <2>5. Oracle!Alone(a) = Oracle!Alone(b)
    BY <2>4, SameOutcome, AloneIs
  <2>6. QED
    BY <2>3, <2>5 DEF TablesAreComplete, Oracle!TablesAreComplete
<1>2. QED
  BY <1>1, WalkInvHolds, EntryInvHolds, PTL

\* "reset_for_apply() clears per-packet state" (runtime-api.md:163-164) but not the
\* slots: for any ruleset in which every slot is stored by an earlier rule that no
\* guard skips before it is loaded, a packet's headers, logs and verdict are those
\* of a context of its own, whatever packets the context has filtered before.
THEOREM IsolationHolds == Spec => []IsolatedIfStoredFirst
<1>1. WalkInv /\ EntryInv => IsolatedIfStoredFirst
  <2> SUFFICES ASSUME WalkInv, EntryInv, Oracle!StoredFirst, pc = 0
               PROVE  Oracle!Outcome(state) = Oracle!Alone(Oracle!Scan(rules))
    BY DEF IsolatedIfStoredFirst, Oracle!IsolatedIfStoredFirst, Oracle!PacketsAreIsolated
  <2> DEFINE a == Scan(rules)
  <2>1. IsFullRuleset(rules) /\ packet \in Packets /\ module = Generate(rules)
    BY RulesetsAreFull DEF WalkInv, EntryInv
  <2>2. Covers(a, rules)
    BY <2>1, ScanCovers
  <2>3. module.keys = a.keys /\ module.patterns = a.patterns
    BY <2>1, GeneratesScan
  <2>4. HasTables(entry, a) /\ IsFresh(entry, packet) /\ state = Walk(entry, rules)
    BY <2>3 DEF EntryInv, HasTables
  <2>5. Oracle!Scan(rules) = a
    BY SameScan
  <2> HIDE DEF a
  <2>6. LooksLike(Walk(entry, rules), Walk(InContext(packet, Prepared(a)), rules))
    BY <2>1, <2>2, <2>4, StoredFirstIs, UsedAlike, PacketsArePackets
  <2>7. QED
    BY <2>4, <2>5, <2>6, SameOutcome, AloneIs
<1>2. QED
  BY <1>1, WalkInvHolds, EntryInvHolds, PTL
=============================================================================
