-------------------------- MODULE UriEditing_proofs --------------------------
(***************************************************************************)
(* Proofs about UriEditing.  A value is the concatenation of twelve        *)
(* pieces, of which a component is one: parse_uri finds where each begins, *)
(* because no piece contains what delimits it; rebuild_uri puts another    *)
(* text in the place of one piece, or in the empty place of one that is    *)
(* absent, and leaves a value that is again such a concatenation.  The     *)
(* invariant keeps what may stand around the display name, which is not    *)
(* determined by the components: blanks stay where a name was.             *)
(***************************************************************************)
EXTENDS UriEditing, Induction

-----------------------------------------------------------------------------
(* The searches *)

LEMMA FirstIs ==
  ASSUME NEW v, NEW a \in Nat, NEW b \in Int, NEW S, NEW n \in a .. b, v[n] \in S,
         \A i \in a .. n - 1 : v[i] \notin S
  PROVE  First(v, a, b, S) = n
<1> DEFINE I == {i \in a .. b : v[i] \in S}
<1>1. n \in I /\ I \subseteq Nat
  OBVIOUS
<1>2. First(v, a, b, S) = Min(I)
  BY <1>1 DEF First
<1>3. Min(I) \in I /\ Min(I) <= n
  <2> HIDE DEF I
  <2>1. QED
    BY <1>1, MinOfNats
<1>4. Min(I) \in a .. b /\ v[Min(I)] \in S
  BY <1>3
<1>5. n \in Nat /\ Min(I) \in Nat
  BY <1>1, <1>3
<1>6. ~(Min(I) < n)
  BY <1>4, <1>5
<1>7. QED
  BY <1>2, <1>3, <1>5, <1>6

LEMMA FirstNone ==
  ASSUME NEW v, NEW a \in Nat, NEW b \in Int, NEW S, \A i \in a .. b : v[i] \notin S
  PROVE  First(v, a, b, S) = b + 1
BY DEF First

LEMMA FinalIs ==
  ASSUME NEW v, NEW a \in Nat, NEW b \in Nat, NEW S, NEW n \in a .. b, v[n] \in S,
         \A i \in n + 1 .. b : v[i] \notin S
  PROVE  Final(v, a, b, S) = n
<1> DEFINE I == {i \in a .. b : v[i] \in S}
<1>1. n \in I /\ I \subseteq 0 .. b
  OBVIOUS
<1>2. Final(v, a, b, S) = Max(I)
  BY <1>1 DEF Final
<1>3. Max(I) \in I /\ n <= Max(I)
  <2> HIDE DEF I
  <2>1. QED
    BY <1>1, MaxUpTo
<1>4. Max(I) \in a .. b /\ v[Max(I)] \in S
  BY <1>3
<1>5. ~(Max(I) > n)
  BY <1>4
<1>6. QED
  BY <1>2, <1>3, <1>4, <1>5

LEMMA FinalNone ==
  ASSUME NEW v, NEW a \in Nat, NEW b \in Int, NEW S, \A i \in a .. b : v[i] \notin S
  PROVE  Final(v, a, b, S) = a - 1
BY DEF Final

-----------------------------------------------------------------------------
(* What parse_uri finds *)

\* Tokens a .. b of v are none of S.
Clear(v, a, b, S) == \A i \in a .. b : v[i] \notin S

\* The address in angle brackets: the first pair, at lt and e + 1.
LEMMA AddrSpecAngled ==
  ASSUME NEW v, Len(v) \in Nat, NEW lt \in Nat, NEW e \in Nat, 1 <= lt, lt <= e, e + 1 <= Len(v),
         v[lt] = "<", Clear(v, 1, lt - 1, {"<"}),
         v[e + 1] = ">", Clear(v, lt + 1, e, {">"})
  PROVE  /\ First(v, 1, Len(v), {"<"}) = lt
         /\ AddrSpec(v) = <<lt + 1, e>>
<1>1. First(v, 1, Len(v), {"<"}) = lt
  <2>1. /\ 1 \in Nat /\ Len(v) \in Int /\ lt \in 1 .. Len(v) /\ v[lt] \in {"<"}
        /\ \A i \in 1 .. lt - 1 : v[i] \notin {"<"}
    BY DEF Clear
  <2>2. QED
    BY <2>1, FirstIs
<1>2. First(v, lt + 1, Len(v), {">"}) = e + 1
  <2>1. /\ lt + 1 \in Nat /\ Len(v) \in Int /\ e + 1 \in lt + 1 .. Len(v) /\ v[e + 1] \in {">"}
        /\ (e + 1) - 1 = e
        /\ \A i \in lt + 1 .. e : v[i] \notin {">"}
    BY DEF Clear
  <2>2. QED
    BY <2>1, FirstIs
<1>3. ~(lt > Len(v)) /\ (e + 1) - 1 = e
  OBVIOUS
<1>4. QED
  BY <1>1, <1>2, <1>3 DEF AddrSpec

LEMMA AddrSpecBare ==
  ASSUME NEW v, Len(v) \in Nat, Clear(v, 1, Len(v), {"<"})
  PROVE  AddrSpec(v) = <<1, Len(v)>> /\ DisplayOf(v) = Absent
<1>1. First(v, 1, Len(v), {"<"}) = Len(v) + 1
  BY FirstNone DEF Clear
<1>2. Len(v) + 1 > Len(v)
  OBVIOUS
<1>3. QED
  BY <1>1, <1>2 DEF AddrSpec, DisplayOf

LEMMA SchemeIsSkipped ==
  ASSUME NEW S, NEW v \in Seq(S), NEW s \in Nat, NEW e \in Nat, s + 2 <= e, e <= Len(v),
         v[s + 1] = Scheme, v[s + 2] = ":"
  PROVE  AfterScheme(v, <<s + 1, e>>) = <<s + 3, e>>
<1>1. First(v, s + 1, e, {":"}) = s + 2
  <2>1. /\ s + 1 \in Nat /\ e \in Int /\ s + 2 \in s + 1 .. e /\ v[s + 2] \in {":"}
        /\ \A i \in s + 1 .. (s + 2) - 1 : v[i] \notin {":"}
    BY DEF Scheme
  <2>2. QED
    BY <2>1, FirstIs
<1>2. SubSeq(v, s + 1, (s + 2) - 1) = <<Scheme>>
  <2> DEFINE a == SubSeq(v, s + 1, (s + 2) - 1)
  <2>1. a \in Seq(S) /\ Len(a) = 1 /\ a[1] = v[s + 1]
    OBVIOUS
  <2>2. v[s + 1] \in S
    OBVIOUS
  <2>3. <<Scheme>> \in Seq(S) /\ Len(<<Scheme>>) = 1 /\ <<Scheme>>[1] = Scheme
    BY <2>2
  <2> HIDE DEF a
  <2>4. \A k \in 1 .. 1 : a[k] = <<Scheme>>[k]
    BY <2>1, <2>3
  <2>5. a = <<Scheme>>
    BY <2>1, <2>3, <2>4, SameElements
  <2>6. QED
    BY <2>5 DEF a
<1>3. (s + 2) + 1 = s + 3
  OBVIOUS
<1>4. QED
  BY <1>1, <1>2, <1>3 DEF AfterScheme

\* s + 1 .. e follows the scheme; the host begins at h + 1 and ends, with the
\* port, at q.
HostAt(v, s, e, h, q) ==
  /\ s \in Nat /\ e \in Nat /\ h \in Nat /\ q \in Nat
  /\ s <= h /\ h <= q /\ q <= e
  /\ \/ h = s /\ Clear(v, s + 1, e, {"@"})
     \/ s < h /\ v[h] = "@" /\ Clear(v, s + 1, h - 1, {"@"})
  /\ Clear(v, h + 1, q, {";", "?", ">"})
  /\ (q = e \/ v[q + 1] \in {";", "?", ">"})

LEMMA UserIsFound ==
  ASSUME NEW v, NEW s, NEW e, NEW h, NEW q, HostAt(v, s, e, h, q)
  PROVE  /\ UserOf(v, <<s + 1, e>>) = IF h = s THEN Absent ELSE <<s + 1, h - 1>>
         /\ HostPort(v, <<s + 1, e>>) = <<h + 1, q>>
<1>0. s \in Nat /\ e \in Nat /\ h \in Nat /\ q \in Nat /\ s <= h /\ h <= q /\ q <= e
  BY DEF HostAt
<1> DEFINE at == First(v, s + 1, e, {"@"})
<1>1. at = IF h = s THEN e + 1 ELSE h
  <2>1. CASE h = s
    <3>a. ~(s < h)
      BY <1>0, <2>1
    <3>0. Clear(v, s + 1, e, {"@"})
      BY <3>a DEF HostAt
    <3>1. \A i \in s + 1 .. e : v[i] \notin {"@"}
      BY <3>0 DEF Clear
    <3>2. s + 1 \in Nat /\ e \in Int
      BY <1>0
    <3>3. QED
      BY <2>1, <3>1, <3>2, FirstNone
  <2>2. CASE h # s
    <3>0. s < h /\ v[h] = "@" /\ Clear(v, s + 1, h - 1, {"@"})
      BY <1>0, <2>2 DEF HostAt
    <3>1. /\ s + 1 \in Nat /\ e \in Int /\ h \in s + 1 .. e /\ v[h] \in {"@"}
          /\ \A i \in s + 1 .. h - 1 : v[i] \notin {"@"}
      BY <1>0, <3>0 DEF Clear
    <3>2. QED
      BY <2>2, <3>1, FirstIs
  <2>3. QED
    BY <2>1, <2>2
<1> DEFINE host == IF at > e THEN s + 1 ELSE at + 1
<1>2. host = h + 1
  BY <1>0, <1>1
<1>3. First(v, h + 1, e, {";", "?", ">"}) = q + 1
  <2>1. \A i \in h + 1 .. q : v[i] \notin {";", "?", ">"}
    BY DEF HostAt, Clear
  <2>2. CASE q = e
    <3>1. h + 1 \in Nat /\ e \in Int
      BY <1>0
    <3>2. QED
      BY <2>1, <2>2, <3>1, FirstNone
  <2>3. CASE q # e
    <3>0. v[q + 1] \in {";", "?", ">"}
      BY <2>3 DEF HostAt
    <3>1. h + 1 \in Nat /\ e \in Int /\ q + 1 \in h + 1 .. e /\ (q + 1) - 1 = q
      BY <1>0, <2>3
    <3>2. QED
      BY <2>1, <3>0, <3>1, FirstIs
  <2>4. QED
    BY <2>2, <2>3
<1>4. HostPort(v, <<s + 1, e>>) = <<host, First(v, host, e, {";", "?", ">"}) - 1>>
  BY DEF HostPort
<1>5. UserOf(v, <<s + 1, e>>) = IF at > e THEN Absent ELSE <<s + 1, at - 1>>
  BY DEF UserOf
<1> HIDE DEF at
<1>6. (at > e) <=> h = s
  BY <1>0, <1>1
<1> HIDE DEF host
<1>7. (q + 1) - 1 = q
  BY <1>0
<1>8. QED
  BY <1>1, <1>2, <1>3, <1>4, <1>5, <1>6, <1>7

\* The host ends at k, and the port is what follows the colon after it.
PortAt(v, h, k, q) ==
  /\ h \in Nat /\ k \in Nat /\ q \in Nat /\ h <= k /\ k <= q
  /\ \/ k = q /\ Clear(v, h + 1, q, {":"})
     \/ k < q /\ v[k + 1] = ":" /\ Clear(v, k + 2, q, {":"})

LEMMA PortIsFound ==
  ASSUME NEW v, NEW h, NEW k, NEW q, PortAt(v, h, k, q)
  PROVE  /\ HostOf(v, <<h + 1, q>>) = <<h + 1, k>>
         /\ PortOf(v, <<h + 1, q>>) = IF k = q THEN Absent ELSE <<k + 2, q>>
<1>0. /\ h \in Nat /\ k \in Nat /\ q \in Nat /\ h <= k /\ k <= q
      /\ \/ k = q /\ Clear(v, h + 1, q, {":"})
         \/ k < q /\ v[k + 1] = ":" /\ Clear(v, k + 2, q, {":"})
  BY DEF PortAt
<1> DEFINE port == Final(v, h + 1, q, {":"})
<1>1. port = IF k = q THEN h ELSE k + 1
  <2>1. CASE k = q
    <3>1. h + 1 \in Nat /\ q \in Int /\ (h + 1) - 1 = h /\ \A i \in h + 1 .. q : v[i] \notin {":"}
      BY <1>0, <2>1 DEF Clear
    <3>2. QED
      BY <2>1, <3>1, FinalNone
  <2>2. CASE k # q
    <3>1. /\ h + 1 \in Nat /\ q \in Nat /\ k + 1 \in h + 1 .. q /\ v[k + 1] \in {":"}
          /\ (k + 1) + 1 = k + 2
          /\ \A i \in k + 2 .. q : v[i] \notin {":"}
      BY <1>0, <2>2 DEF Clear
    <3>2. QED
      BY <2>2, <3>1, FinalIs
  <2>3. QED
    BY <2>1, <2>2
<1>2. /\ HostOf(v, <<h + 1, q>>) = IF port < h + 1 THEN <<h + 1, q>> ELSE <<h + 1, port - 1>>
      /\ PortOf(v, <<h + 1, q>>) = IF port < h + 1 THEN Absent ELSE <<port + 1, q>>
  BY DEF HostOf, PortOf
<1> HIDE DEF port
<1>3. QED
  BY <1>0, <1>1, <1>2

\* A display name before the bracket at lt: unquoted in m + 1 .. n between
\* blanks, or quoted, from the first token to the last that is not blank.
NameAt(v, lt, m, n) ==
  /\ lt \in Nat /\ m \in Nat /\ n \in Nat /\ m <= n /\ n < lt
  /\ \/ /\ \A i \in 1 .. m : v[i] = Blank
        /\ \A i \in n + 1 .. lt - 1 : v[i] = Blank
        /\ m = n => n = lt - 1
        /\ m < n => v[m + 1] # Blank /\ v[n] # Blank /\ v[m + 1] # Quote
     \/ /\ m = 1 /\ v[1] = Quote /\ n + 1 < lt /\ v[n + 1] = Quote
        /\ \A i \in n + 2 .. lt - 1 : v[i] = Blank

LEMMA NameIsFound ==
  ASSUME NEW v, Len(v) \in Nat, NEW lt, NEW m, NEW n, NameAt(v, lt, m, n),
         lt <= Len(v), First(v, 1, Len(v), {"<"}) = lt
  PROVE  DisplayOf(v) = <<m + 1, n>>
<1>0. lt \in Nat /\ m \in Nat /\ n \in Nat /\ m <= n /\ n < lt
  BY DEF NameAt
<1> DEFINE I == {i \in 1 .. lt - 1 : v[i] # Blank}
           s == Trim(v, 1, lt - 1)
<1>1. DisplayOf(v) = Unquote(v, s)
  BY <1>0 DEF DisplayOf
<1>2. s = IF I = {} THEN <<lt - 1 + 1, lt - 1>> ELSE <<Min(I), Max(I)>>
  BY DEF Trim
<1>3. ASSUME NEW a \in I, NEW b \in I, \A i \in I : a <= i /\ i <= b PROVE s = <<a, b>>
  <2>1. I \subseteq Nat /\ I \subseteq 0 .. lt - 1 /\ lt - 1 \in Nat
    BY <1>0
  <2> HIDE DEF I
  <2>2. Min(I) \in I /\ (\A j \in I : Min(I) <= j) /\ Max(I) \in I /\ (\A j \in I : j <= Max(I))
    BY <1>3, <2>1, MinOfNats, MaxUpTo
  <2>3. Min(I) = a /\ Max(I) = b
    <3>1. Min(I) \in Nat /\ Max(I) \in Nat /\ a \in Nat /\ b \in Nat
      BY <1>3, <2>1, <2>2
    <3>2. Min(I) <= a /\ a <= Min(I) /\ Max(I) <= b /\ b <= Max(I)
      BY <1>3, <2>2
    <3>3. QED
      BY <3>1, <3>2
  <2>4. QED
    BY <1>2, <1>3, <2>3
<1> HIDE DEF s
<1>4. CASE m = n /\ ~(v[1] = Quote /\ m = 1 /\ n + 1 < lt /\ v[n + 1] = Quote)
  <2>1. n = lt - 1 /\ \A i \in 1 .. lt - 1 : v[i] = Blank
    BY <1>0, <1>4 DEF NameAt
  <2>2. s = <<n + 1, n>>
    BY <1>0, <1>2, <2>1
  <2>3. ~(n > n + 1)
    BY <1>0
  <2>4. QED
    BY <1>1, <1>4, <2>2, <2>3 DEF Unquote
<1>5. CASE m < n /\ ~(v[1] = Quote /\ m = 1 /\ n + 1 < lt /\ v[n + 1] = Quote)
  <2>1. /\ \A i \in 1 .. m : v[i] = Blank
        /\ \A i \in n + 1 .. lt - 1 : v[i] = Blank
        /\ v[m + 1] # Blank /\ v[n] # Blank /\ v[m + 1] # Quote
    BY <1>5 DEF NameAt
  <2>2. m + 1 \in I /\ n \in I
    BY <1>0, <1>5, <2>1
  <2>3. \A i \in I : m + 1 <= i /\ i <= n
    BY <1>0, <2>1
  <2>4. s = <<m + 1, n>>
    BY <1>3, <2>2, <2>3
  <2>5. QED
    BY <1>1, <2>1, <2>4 DEF Unquote
<1>6. CASE v[1] = Quote /\ m = 1 /\ n + 1 < lt /\ v[n + 1] = Quote
  <2>1. \A i \in n + 2 .. lt - 1 : v[i] = Blank
    <3>1. \/ \A i \in n + 1 .. lt - 1 : v[i] = Blank
          \/ \A i \in n + 2 .. lt - 1 : v[i] = Blank
      BY DEF NameAt
    <3>2. n + 2 .. lt - 1 \subseteq n + 1 .. lt - 1
      BY <1>0
    <3>3. QED
      BY <3>1, <3>2
  <2>2. 1 \in I /\ n + 1 \in I
    <3>1. Quote # Blank
      BY DEF Quote, Blank
    <3>2. 1 \in 1 .. lt - 1 /\ n + 1 \in 1 .. lt - 1
      BY <1>0, <1>6
    <3>3. QED
      BY <1>6, <3>1, <3>2
  <2>3. \A i \in I : 1 <= i /\ i <= n + 1
    BY <1>0, <2>1
  <2>4. s = <<1, n + 1>>
    BY <1>3, <2>2, <2>3
  <2>5. Unquote(v, <<1, n + 1>>) = <<1 + 1, (n + 1) - 1>>
    BY <1>0, <1>6 DEF Unquote
  <2>6. QED
    BY <1>0, <1>1, <1>6, <2>4, <2>5
<1>7. QED
  BY <1>0, <1>4, <1>5, <1>6

-----------------------------------------------------------------------------
(* The pieces of a value *)

Own(c) ==
  UNION {ToSet(t) : t \in {Of(c.display), Of(c.user), Of(c.host), Of(c.port), c.params, c.trailer}}
Marks == {"<", ">", "@", ":", Scheme, Quote, Blank}
Written == UNION {ToSet(t) : t \in Texts}
Given == UNION {Own(c) : c \in Forms}
Tokens == Marks \cup Written \cup Given

\* A component record as rewrites leave it.
IsParts(c) ==
  /\ IsForm(c)
  /\ {Of(c.display), Of(c.user), Of(c.host), Of(c.port), c.params, c.trailer} \subseteq Seq(Tokens)

\* What may stand around its display name: quotes, or blanks.
Around(c, lead, trail) ==
  /\ lead \in Seq(Tokens) /\ trail \in Seq(Tokens)
  /\ ~c.angled => lead = <<>> /\ trail = <<>>
  /\ c.quoted => lead = <<Quote>> /\ trail = <<Quote, Blank>>
  /\ ~c.quoted => /\ \A i \in 1 .. Len(lead) : lead[i] = Blank
                  /\ \A i \in 1 .. Len(trail) : trail[i] = Blank

\* Where there is no name parse_uri finds an empty one, after the blanks.
Margins(c, lead, trail) ==
  /\ Around(c, lead, trail)
  /\ ~c.quoted /\ Of(c.display) = <<>> => trail = <<>>

Shaped(v, c, lead, trail) ==
  IsParts(c) /\ Margins(c, lead, trail) /\ v = FlattenSeq(Pieces(c, lead, trail))

ArePieces(w, c, lead, trail) ==
  /\ w \in Seq(Seq(Tokens)) /\ Len(w) = 12
  /\ w[1] = lead /\ w[2] = Of(c.display) /\ w[3] = trail
  /\ w[4] = (IF c.angled THEN <<"<">> ELSE <<>>) /\ w[5] = <<Scheme, ":">>
  /\ w[6] = Of(c.user) /\ w[7] = (IF c.user = Absent THEN <<>> ELSE <<"@">>)
  /\ w[8] = Of(c.host) /\ w[9] = (IF c.port = Absent THEN <<>> ELSE <<":">>)
  /\ w[10] = Of(c.port) /\ w[11] = c.params
  /\ w[12] = (IF c.angled THEN <<">">> \o c.trailer ELSE <<>>)

LEMMA PiecesType ==
  ASSUME NEW c, IsParts(c), NEW lead \in Seq(Tokens), NEW trail \in Seq(Tokens)
  PROVE  ArePieces(Pieces(c, lead, trail), c, lead, trail)
<1>1. {"<", ">", "@", ":", Scheme} \subseteq Tokens
  BY DEF Tokens, Marks
<1>2. {Of(c.display), Of(c.user), Of(c.host), Of(c.port), c.params, c.trailer} \subseteq Seq(Tokens)
  BY DEF IsParts
<1> DEFINE a == IF c.angled THEN <<"<">> ELSE <<>>
           b == <<Scheme, ":">>
           d == IF c.user = Absent THEN <<>> ELSE <<"@">>
           e == IF c.port = Absent THEN <<>> ELSE <<":">>
           f == IF c.angled THEN <<">">> \o c.trailer ELSE <<>>
           w == << lead, Of(c.display), trail, a, b, Of(c.user), d, Of(c.host), e, Of(c.port), c.params, f >>
<1>3. a \in Seq(Tokens) /\ b \in Seq(Tokens) /\ d \in Seq(Tokens) /\ e \in Seq(Tokens)
  BY <1>1
<1>4. f \in Seq(Tokens)
  <2>1. <<">">> \in Seq(Tokens) /\ c.trailer \in Seq(Tokens)
    BY <1>1, <1>2
  <2>2. QED
    BY <2>1
<1>5. Pieces(c, lead, trail) = w
  BY DEF Pieces
<1> HIDE DEF a, b, d, e, f
<1>6. w \in Seq(Seq(Tokens))
  BY <1>2, <1>3, <1>4
<1>7. Len(w) = 12
  OBVIOUS
<1>8. QED
  BY <1>5, <1>6, <1>7 DEF ArePieces, a, b, d, e, f

\* Where the pieces begin, and what stands there.
Laid(v, w, p) ==
  /\ p[1] = 0 /\ Len(v) = p[13]
  /\ \A i \in 1 .. 12 :
       /\ p[i] \in Nat /\ p[i + 1] \in Nat /\ Len(w[i]) \in Nat /\ p[i + 1] = p[i] + Len(w[i])
       /\ \A j \in p[i] + 1 .. p[i + 1] : j - p[i] \in 1 .. Len(w[i]) /\ v[j] = w[i][j - p[i]]
       /\ \A j \in p[i] + 1 .. p[i + 1] : v[j] \in ToSet(w[i])

LEMMA PiecesAreLaid ==
  ASSUME NEW S, NEW w \in Seq(Seq(S)), Len(w) = 12
  PROVE  FlattenSeq(w) \in Seq(S) /\ Laid(FlattenSeq(w), w, [i \in 1 .. 13 |-> PieceStart(w, i)])
<1> DEFINE p == [i \in 1 .. 13 |-> PieceStart(w, i)]
           v == FlattenSeq(w)
<1>1. p[1] = 0 /\ Len(v) = p[13]
  <2>1. PieceStart(w, 1) = 0 /\ Len(v) = PieceStart(w, Len(w) + 1)
    BY StartAndEnd
  <2>2. Len(w) + 1 = 13
    OBVIOUS
  <2>3. QED
    BY <2>1, <2>2
<1>2. ASSUME NEW i \in 1 .. 12
      PROVE  /\ p[i] \in Nat /\ p[i + 1] \in Nat /\ Len(w[i]) \in Nat /\ p[i + 1] = p[i] + Len(w[i])
             /\ \A j \in p[i] + 1 .. p[i + 1] : j - p[i] \in 1 .. Len(w[i]) /\ v[j] = w[i][j - p[i]]
             /\ \A j \in p[i] + 1 .. p[i + 1] : v[j] \in ToSet(w[i])
  <2>a. i \in 1 .. Len(w) /\ i \in 1 .. 13 /\ i + 1 \in 1 .. 13
    OBVIOUS
  <2>b. p[i] = PieceStart(w, i) /\ p[i + 1] = PieceStart(w, i + 1)
    BY <2>a
  <2>c. w[i] \in Seq(S)
    BY <2>a, ElementOfSeq
  <2>1. i \in 1 .. Len(w) /\ p[i] = PieceStart(w, i) /\ p[i + 1] = PieceStart(w, i + 1) /\ w[i] \in Seq(S)
    BY <2>a, <2>b, <2>c
  <2>2. /\ PieceStart(w, i) \in Nat /\ Len(w[i]) \in Nat
        /\ PieceStart(w, i + 1) = PieceStart(w, i) + Len(w[i])
        /\ \A k \in 1 .. Len(w[i]) : v[PieceStart(w, i) + k] = w[i][k]
    BY <2>1, PieceAt, ZenonT(30)
  <2> HIDE DEF p, v
  <2>3. ASSUME NEW j \in p[i] + 1 .. p[i + 1]
        PROVE  j - p[i] \in 1 .. Len(w[i]) /\ v[j] = w[i][j - p[i]] /\ v[j] \in ToSet(w[i])
    <3> DEFINE k == j - p[i]
    <3>1. k \in 1 .. Len(w[i]) /\ p[i] + k = j
      BY <2>1, <2>2
    <3>2. v[j] = w[i][k]
      BY <2>1, <2>2, <3>1
    <3>3. DOMAIN w[i] = 1 .. Len(w[i])
      BY <2>1
    <3> HIDE DEF k
    <3>4. w[i][k] \in ToSet(w[i])
      BY <3>1, <3>3 DEF ToSet
    <3>5. QED
      BY <3>1, <3>2, <3>4 DEF k
  <2>4. QED
    BY <2>1, <2>2, <2>3
<1>3. v \in Seq(S)
  BY FlattenType
<1>4. QED
  BY <1>1, <1>2, <1>3 DEF Laid

LEMMA ClearPiece ==
  ASSUME NEW v, NEW w, NEW p, Laid(v, w, p), NEW i \in 1 .. 12, NEW T, ToSet(w[i]) \cap T = {}
  PROVE  Clear(v, p[i] + 1, p[i + 1], T)
<1>1. \A j \in p[i] + 1 .. p[i + 1] : v[j] \in ToSet(w[i])
  BY DEF Laid
<1>2. QED
  BY <1>1 DEF Clear

LEMMA ClearJoin ==
  ASSUME NEW v, NEW a \in Nat, NEW b \in Nat, NEW c \in Nat, NEW T,
         Clear(v, a, b, T), Clear(v, b + 1, c, T)
  PROVE  Clear(v, a, c, T)
<1>1. \A i \in a .. c : i \in a .. b \/ i \in b + 1 .. c
  OBVIOUS
<1>2. QED
  BY <1>1 DEF Clear

\* The order the pieces come in.
Starts(c, p) ==
  /\ \A i \in 1 .. 13 : p[i] \in Nat
  /\ p[1] = 0 /\ p[1] <= p[2] /\ p[2] <= p[3] /\ p[3] <= p[4]
  /\ p[5] = (IF c.angled THEN p[4] + 1 ELSE p[4]) /\ p[6] = p[5] + 2
  /\ p[6] <= p[7] /\ p[8] = (IF c.user = Absent THEN p[7] ELSE p[7] + 1)
  /\ p[8] <= p[9] /\ p[10] = (IF c.port = Absent THEN p[9] ELSE p[9] + 1)
  /\ p[10] <= p[11] /\ p[11] <= p[12] /\ p[12] <= p[13]
  /\ c.user = Absent => p[7] = p[6]
  /\ c.port = Absent => p[11] = p[10]
  /\ c.angled => p[12] + 1 <= p[13]
  /\ ~c.angled => p[4] = 0 /\ p[13] = p[12]

\* The pieces in a row, with the tokens that none of them contains.
InARow(v, c, w, p) ==
  /\ Starts(c, p) /\ Len(v) = p[13]
  /\ ToSet(w[1]) \cap {"<"} = {} /\ ToSet(w[2]) \cap {"<"} = {} /\ ToSet(w[3]) \cap {"<"} = {}
  /\ ToSet(w[5]) \cap {"<", ">"} = {}
  /\ ToSet(w[6]) \cap {"<", ">", "@"} = {} /\ ToSet(w[7]) \cap {"<", ">"} = {}
  /\ ToSet(w[8]) \cap {"<", ">", "@", ":", ";", "?"} = {}
  /\ ToSet(w[9]) \cap {"<", ">", "@", ";", "?"} = {}
  /\ ToSet(w[10]) \cap {"<", ">", "@", ":", ";", "?"} = {}
  /\ ToSet(w[11]) \cap {"<", ">", "@"} = {}

LEMMA PieceFacts ==
  ASSUME NEW v, NEW c, NEW lead, NEW trail, Shaped(v, c, lead, trail),
         NEW w, ArePieces(w, c, lead, trail), NEW p, Laid(v, w, p)
  PROVE  InARow(v, c, w, p)
<1>0. IsParts(c) /\ IsForm(c) /\ Margins(c, lead, trail) /\ lead \in Seq(Tokens) /\ trail \in Seq(Tokens)
  BY DEF Shaped, IsParts, Margins, Around
<1>1. /\ Len(w) = 12 /\ w[1] = lead /\ w[2] = Of(c.display) /\ w[3] = trail
      /\ w[4] = (IF c.angled THEN <<"<">> ELSE <<>>) /\ w[5] = <<Scheme, ":">>
      /\ w[6] = Of(c.user) /\ w[7] = (IF c.user = Absent THEN <<>> ELSE <<"@">>)
      /\ w[8] = Of(c.host) /\ w[9] = (IF c.port = Absent THEN <<>> ELSE <<":">>)
      /\ w[10] = Of(c.port) /\ w[11] = c.params
      /\ w[12] = (IF c.angled THEN <<">">> \o c.trailer ELSE <<>>)
  BY DEF ArePieces
<1>2. /\ p[1] = 0 /\ Len(v) = p[13]
      /\ \A i \in 1 .. 12 : p[i] \in Nat /\ p[i + 1] \in Nat /\ Len(w[i]) \in Nat /\ p[i + 1] = p[i] + Len(w[i])
  BY DEF Laid
<1>3. \A i \in 1 .. 13 : p[i] \in Nat
  <2>1. ASSUME NEW i \in 1 .. 13 PROVE p[i] \in Nat
    <3>1. CASE i = 13
      <4>1. p[12 + 1] \in Nat
        BY <1>2
      <4>2. QED
        BY <3>1, <4>1
    <3>2. CASE i # 13
      <4>1. i \in 1 .. 12
        BY <3>2
      <4>2. QED
        BY <1>2, <4>1
    <3>3. QED
      BY <3>1, <3>2
  <2>2. QED
    BY <2>1
<1>4. \A i \in 1 .. 12 : /\ p[i] <= p[i + 1]
                         /\ Len(w[i]) = 0 => p[i + 1] = p[i]
                         /\ Len(w[i]) = 1 => p[i + 1] = p[i] + 1
                         /\ Len(w[i]) = 2 => p[i + 1] = p[i] + 2
                         /\ Len(w[i]) >= 1 => p[i] + 1 <= p[i + 1]
  <2>1. ASSUME NEW i \in 1 .. 12
        PROVE  /\ p[i] <= p[i + 1]
               /\ Len(w[i]) = 0 => p[i + 1] = p[i]
               /\ Len(w[i]) = 1 => p[i + 1] = p[i] + 1
               /\ Len(w[i]) = 2 => p[i + 1] = p[i] + 2
               /\ Len(w[i]) >= 1 => p[i] + 1 <= p[i + 1]
    <3>1. p[i] \in Nat /\ p[i + 1] \in Nat /\ Len(w[i]) \in Nat /\ p[i + 1] = p[i] + Len(w[i])
      BY <1>2
    <3> DEFINE a == p[i]
               b == p[i + 1]
               n == Len(w[i])
    <3>2. a \in Nat /\ b \in Nat /\ n \in Nat /\ b = a + n
      BY <3>1
    <3> HIDE DEF a, b, n
    <3>3. /\ a <= b
          /\ n = 0 => b = a
          /\ n = 1 => b = a + 1
          /\ n = 2 => b = a + 2
          /\ n >= 1 => a + 1 <= b
      BY <3>2
    <3>4. QED
      BY <3>3 DEF a, b, n
  <2>2. QED
    BY <2>1
<1>a. /\ 1 + 1 = 2 /\ 2 + 1 = 3 /\ 3 + 1 = 4 /\ 4 + 1 = 5 /\ 5 + 1 = 6 /\ 6 + 1 = 7
      /\ 7 + 1 = 8 /\ 8 + 1 = 9 /\ 9 + 1 = 10 /\ 10 + 1 = 11 /\ 11 + 1 = 12 /\ 12 + 1 = 13
  OBVIOUS
<1>5. /\ Len(w[4]) = (IF c.angled THEN 1 ELSE 0) /\ Len(w[5]) = 2
      /\ Len(w[7]) = (IF c.user = Absent THEN 0 ELSE 1)
      /\ Len(w[9]) = (IF c.port = Absent THEN 0 ELSE 1)
  BY <1>1
<1>6. c.user = Absent => Len(w[6]) = 0
  BY <1>1 DEF Of
<1>7. c.port = Absent => Len(w[10]) = 0
  BY <1>1 DEF Of
<1>8. c.angled => Len(w[12]) >= 1
  <2>1. c.trailer \in Seq(Tokens) /\ <<">">> \in Seq(Tokens)
    BY <1>0 DEF IsParts, Tokens, Marks
  <2>2. Len(<<">">> \o c.trailer) >= 1
    BY <2>1
  <2>3. QED
    BY <1>1, <2>2
<1>9. ~c.angled => Len(w[12]) = 0 /\ Len(w[1]) = 0 /\ Len(w[2]) = 0 /\ Len(w[3]) = 0
  <2>1. SUFFICES ASSUME ~c.angled PROVE Len(w[12]) = 0 /\ Len(w[1]) = 0 /\ Len(w[2]) = 0 /\ Len(w[3]) = 0
    OBVIOUS
  <2>2. lead = <<>> /\ trail = <<>>
    BY <1>0, <2>1 DEF Margins, Around
  <2>3. Of(c.display) = <<>>
    BY <1>0, <2>1 DEF IsForm, Of
  <2>4. QED
    BY <1>1, <2>1, <2>2, <2>3
<1>10. /\ ToSet(w[1]) \cap {"<"} = {} /\ ToSet(w[3]) \cap {"<"} = {}
  <2>1. \A i \in 1 .. Len(lead) : lead[i] \in {Quote, Blank}
    <3>1. CASE c.quoted
      <4>1. lead = <<Quote>>
        BY <1>0, <3>1 DEF Margins, Around
      <4>2. QED
        BY <4>1
    <3>2. CASE ~c.quoted
      BY <1>0, <3>2 DEF Margins, Around
    <3>3. QED
      BY <3>1, <3>2
  <2>2. \A i \in 1 .. Len(trail) : trail[i] \in {Quote, Blank}
    <3>1. CASE c.quoted
      <4>1. trail = <<Quote, Blank>>
        BY <1>0, <3>1 DEF Margins, Around
      <4>2. QED
        BY <4>1
    <3>2. CASE ~c.quoted
      BY <1>0, <3>2 DEF Margins, Around
    <3>3. QED
      BY <3>1, <3>2
  <2>3. "<" \notin {Quote, Blank}
    BY DEF Quote, Blank
  <2>4. DOMAIN lead = 1 .. Len(lead) /\ DOMAIN trail = 1 .. Len(trail)
    BY <1>0
  <2>5. QED
    BY <1>1, <2>1, <2>2, <2>3, <2>4 DEF ToSet
<1>11. ToSet(w[5]) \cap {"<", ">"} = {} /\ ToSet(w[7]) \cap {"<", ">"} = {}
  <2>1. ToSet(<<Scheme, ":">>) \subseteq {"sip", ":"} /\ ToSet(<<"@">>) \subseteq {"@"} /\ ToSet(<<>>) = {}
    BY DEF ToSet, Scheme
  <2>2. QED
    BY <1>1, <2>1
<1>12. ToSet(w[9]) \cap {"<", ">", "@", ";", "?"} = {}
  <2>1. ToSet(<<":">>) \subseteq {":"} /\ ToSet(<<>>) = {}
    BY DEF ToSet
  <2>2. QED
    BY <1>1, <2>1
<1>13. /\ ToSet(w[2]) \cap {"<"} = {} /\ ToSet(w[6]) \cap {"<", ">", "@"} = {}
       /\ ToSet(w[8]) \cap {"<", ">", "@", ":", ";", "?"} = {}
       /\ ToSet(w[10]) \cap {"<", ">", "@", ":", ";", "?"} = {}
       /\ ToSet(w[11]) \cap {"<", ">", "@"} = {}
  <2>1. ToSet(w[2]) \cap {"<", Quote} = {} /\ ToSet(w[6]) \cap {"<", ">", "@"} = {}
    BY <1>0, <1>1 DEF IsForm, IsName, Free
  <2>2. /\ ToSet(w[8]) \cap {"<", ">", "@", ":", ";", "?"} = {}
        /\ ToSet(w[10]) \cap {"<", ">", "@", ":", ";", "?"} = {}
    BY <1>0, <1>1 DEF IsForm, IsHost, Free
  <2>3. ToSet(w[11]) \cap {"<", ">", "@"} = {}
    BY <1>0, <1>1 DEF IsForm, Free
  <2>4. QED
    BY <2>1, <2>2, <2>3
<1>14. /\ p[1] <= p[2] /\ p[2] <= p[3] /\ p[3] <= p[4]
       /\ p[6] <= p[7] /\ p[8] <= p[9] /\ p[10] <= p[11] /\ p[11] <= p[12] /\ p[12] <= p[13]
  <2>1. p[1] <= p[1 + 1] /\ p[2] <= p[2 + 1] /\ p[3] <= p[3 + 1] /\ p[6] <= p[6 + 1]
    BY <1>4
  <2>2. p[8] <= p[8 + 1] /\ p[10] <= p[10 + 1] /\ p[11] <= p[11 + 1] /\ p[12] <= p[12 + 1]
    BY <1>4
  <2>3. QED
    BY <1>a, <2>1, <2>2
<1>15. p[5] = (IF c.angled THEN p[4] + 1 ELSE p[4]) /\ p[6] = p[5] + 2
  <2>a. /\ Len(w[4]) = 0 => p[4 + 1] = p[4]
        /\ Len(w[4]) = 1 => p[4 + 1] = p[4] + 1
        /\ Len(w[5]) = 2 => p[5 + 1] = p[5] + 2
    BY <1>4
  <2>1. p[4 + 1] = (IF c.angled THEN p[4] + 1 ELSE p[4]) /\ p[5 + 1] = p[5] + 2
    BY <1>5, <2>a
  <2>2. QED
    BY <1>a, <2>1
<1>16. /\ p[8] = (IF c.user = Absent THEN p[7] ELSE p[7] + 1)
       /\ p[10] = (IF c.port = Absent THEN p[9] ELSE p[9] + 1)
       /\ c.user = Absent => p[7] = p[6]
       /\ c.port = Absent => p[11] = p[10]
  <2>1. /\ p[7 + 1] = (IF c.user = Absent THEN p[7] ELSE p[7] + 1)
        /\ p[9 + 1] = (IF c.port = Absent THEN p[9] ELSE p[9] + 1)
    <3>1. /\ Len(w[7]) = 0 => p[7 + 1] = p[7]
          /\ Len(w[7]) = 1 => p[7 + 1] = p[7] + 1
          /\ Len(w[9]) = 0 => p[9 + 1] = p[9]
          /\ Len(w[9]) = 1 => p[9 + 1] = p[9] + 1
      BY <1>4
    <3>2. QED
      BY <1>5, <3>1
  <2>2. /\ c.user = Absent => p[6 + 1] = p[6]
        /\ c.port = Absent => p[10 + 1] = p[10]
    BY <1>4, <1>6, <1>7
  <2>3. QED
    BY <1>a, <2>1, <2>2
<1>17. /\ c.angled => p[12] + 1 <= p[13]
       /\ ~c.angled => p[4] = 0 /\ p[13] = p[12]
  <2>1. /\ c.angled => p[12] + 1 <= p[12 + 1]
        /\ ~c.angled => p[12 + 1] = p[12]
    BY <1>4, <1>8, <1>9
  <2>2. ~c.angled => p[1 + 1] = p[1] /\ p[2 + 1] = p[2] /\ p[3 + 1] = p[3]
    BY <1>4, <1>9
  <2>3. QED
    BY <1>2, <1>a, <2>1, <2>2
<1>18. QED
  BY <1>2, <1>3, <1>10, <1>11, <1>12, <1>13, <1>14, <1>15, <1>16, <1>17 DEF InARow, Starts

\* One token of a piece.
LEMMA TokenAt ==
  ASSUME NEW v, NEW w, NEW p, Laid(v, w, p), NEW i \in 1 .. 12, NEW k \in 1 .. Len(w[i])
  PROVE  v[p[i] + k] = w[i][k]
<1>1. /\ p[i] \in Nat /\ p[i + 1] \in Nat /\ Len(w[i]) \in Nat /\ p[i + 1] = p[i] + Len(w[i])
      /\ \A j \in p[i] + 1 .. p[i + 1] : j - p[i] \in 1 .. Len(w[i]) /\ v[j] = w[i][j - p[i]]
  BY DEF Laid
<1> DEFINE a == p[i]
           b == p[i + 1]
           n == Len(w[i])
<1>2. a \in Nat /\ b \in Nat /\ n \in Nat /\ b = a + n /\ k \in 1 .. n
  BY <1>1
<1> HIDE DEF a, b, n
<1>3. a + k \in a + 1 .. b /\ (a + k) - a = k
  BY <1>2
<1>4. QED
  BY <1>1, <1>3 DEF a, b

-----------------------------------------------------------------------------
(* parse_uri finds the pieces *)

LEMMA StartsOf ==
  ASSUME NEW v, NEW c, NEW w, NEW p, InARow(v, c, w, p)
  PROVE  Starts(c, p) /\ Len(v) = p[13] /\ Len(v) \in Nat
<1>1. Starts(c, p) /\ Len(v) = p[13]
  BY DEF InARow
<1>2. p[13] \in Nat
  BY <1>1 DEF Starts
<1>3. QED
  BY <1>1, <1>2

\* No piece from i to j contains T.
LEMMA ClearPieces ==
  ASSUME NEW v, NEW w, NEW p, Laid(v, w, p), NEW T, NEW i \in 1 .. 12, NEW n \in 0 .. 12 - i,
         \A k \in i .. i + n : ToSet(w[k]) \cap T = {}
  PROVE  Clear(v, p[i] + 1, p[i + n + 1], T)
<1>a. ASSUME NEW k \in 1 .. 13 PROVE p[k] \in Nat
  <2>1. CASE k = 13
    <3>1. 12 \in 1 .. 12 /\ 12 + 1 = 13
      OBVIOUS
    <3>2. p[12 + 1] \in Nat
      BY <3>1 DEF Laid
    <3>3. QED
      BY <2>1, <3>1, <3>2
  <2>2. CASE k # 13
    <3>1. k \in 1 .. 12
      BY <2>2
    <3>2. QED
      BY <3>1 DEF Laid
  <2>3. QED
    BY <2>1, <2>2
<1> DEFINE P == {k \in 0 .. 12 - i : k <= n => Clear(v, p[i] + 1, p[i + k + 1], T)}
<1>1. 0 \in P
  <2>1. 0 \in 0 .. 12 - i /\ i + 0 + 1 = i + 1 /\ i \in i .. i + n
    OBVIOUS
  <2>2. Clear(v, p[i] + 1, p[i + 1], T)
    BY <2>1, ClearPiece
  <2>3. QED
    BY <2>1, <2>2
<1>2. ASSUME NEW k \in P, k < n PROVE k + 1 \in P
  <2>1. k \in 0 .. 12 - i /\ k + 1 \in 0 .. 12 - i /\ k <= n /\ i + (k + 1) = i + k + 1
        /\ i + k + 1 \in i .. i + n /\ i + k + 1 \in 1 .. 12 /\ i + (k + 1) + 1 = i + k + 1 + 1
    BY <1>2
  <2>2. Clear(v, p[i] + 1, p[i + k + 1], T)
    BY <1>2, <2>1
  <2>3. Clear(v, p[i + k + 1] + 1, p[i + k + 1 + 1], T)
    BY <2>1, ClearPiece
  <2>4. p[i] + 1 \in Nat /\ p[i + k + 1] \in Nat /\ p[i + k + 1 + 1] \in Nat
    <3>1. i \in 1 .. 13 /\ i + k + 1 \in 1 .. 13 /\ i + k + 1 + 1 \in 1 .. 13
      BY <2>1
    <3>2. QED
      BY <1>a, <3>1
  <2>5. Clear(v, p[i] + 1, p[i + k + 1 + 1], T)
    BY <2>2, <2>3, <2>4, ClearJoin
  <2>6. QED
    BY <2>1, <2>5
<1>3. n \in P
  <2> DEFINE Q == {k \in Nat : k > n \/ k \in P}
  <2>1. 0 \in Q
    BY <1>1
  <2>2. \A k \in Q : k + 1 \in Q
    <3>1. ASSUME NEW k \in Q PROVE k + 1 \in Q
      <4>1. CASE k < n
        BY <1>2, <3>1, <4>1
      <4>2. CASE ~(k < n)
        BY <3>1, <4>2
      <4>3. QED
        BY <4>1, <4>2
    <3>2. QED
      BY <3>1
  <2>3. Q = Nat
    <3>1. Q \subseteq Nat
      OBVIOUS
    <3> HIDE DEF Q
    <3>2. QED
      BY <2>1, <2>2, <3>1, NatClosure
  <2>4. n \in Q /\ ~(n > n)
    BY <2>3
  <2>5. QED
    BY <2>4
<1>4. QED
  BY <1>3

\* Everything above of one value.
Cut(v, c, lead, trail, w, p) ==
  /\ IsForm(c) /\ Margins(c, lead, trail) /\ v \in Seq(Tokens)
  /\ ArePieces(w, c, lead, trail) /\ Laid(v, w, p) /\ InARow(v, c, w, p)
  /\ v = FlattenSeq(w) /\ \A i \in 1 .. 13 : p[i] = PieceStart(w, i)

LEMMA ShapedIsCut ==
  ASSUME NEW v, NEW c, NEW lead, NEW trail, Shaped(v, c, lead, trail)
  PROVE  \E p : Cut(v, c, lead, trail, Pieces(c, lead, trail), p)
<1> DEFINE w == Pieces(c, lead, trail)
           p == [i \in 1 .. 13 |-> PieceStart(w, i)]
<1>1. IsParts(c) /\ IsForm(c) /\ Margins(c, lead, trail) /\ lead \in Seq(Tokens) /\ trail \in Seq(Tokens)
      /\ v = FlattenSeq(w)
  BY DEF Shaped, IsParts, Margins, Around
<1>2. ArePieces(w, c, lead, trail)
  BY <1>1, PiecesType
<1>3. w \in Seq(Seq(Tokens)) /\ Len(w) = 12
  BY <1>2 DEF ArePieces
<1> HIDE DEF w
<1>4. v \in Seq(Tokens) /\ Laid(v, w, p)
  BY <1>1, <1>3, PiecesAreLaid
<1>a. \A i \in 1 .. 13 : p[i] = PieceStart(w, i)
  OBVIOUS
<1> HIDE DEF p
<1>5. InARow(v, c, w, p)
  BY <1>2, <1>4, PieceFacts
<1>6. Cut(v, c, lead, trail, w, p)
  BY <1>1, <1>2, <1>4, <1>a, <1>5 DEF Cut
<1>7. QED
  BY <1>6 DEF w

\* The starts are in order.
InOrder(p) ==
  /\ p[1] \in Nat /\ p[2] \in Nat /\ p[3] \in Nat /\ p[4] \in Nat /\ p[5] \in Nat /\ p[6] \in Nat
  /\ p[7] \in Nat /\ p[8] \in Nat /\ p[9] \in Nat /\ p[10] \in Nat /\ p[11] \in Nat
  /\ p[12] \in Nat /\ p[13] \in Nat
  /\ p[1] = 0 /\ p[1] <= p[2] /\ p[2] <= p[3] /\ p[3] <= p[4] /\ p[4] <= p[5]
  /\ p[6] = p[5] + 2 /\ p[6] <= p[7] /\ p[7] <= p[8] /\ p[8] <= p[9] /\ p[9] <= p[10]
  /\ p[10] <= p[11] /\ p[11] <= p[12] /\ p[12] <= p[13]

LEMMA StartsInOrder ==
  ASSUME NEW c, NEW p, Starts(c, p)
  PROVE  InOrder(p)
<1>1. \A i \in 1 .. 13 : p[i] \in Nat
  BY DEF Starts
<1>2. /\ p[1] \in Nat /\ p[2] \in Nat /\ p[3] \in Nat /\ p[4] \in Nat /\ p[5] \in Nat /\ p[6] \in Nat
      /\ p[7] \in Nat /\ p[8] \in Nat /\ p[9] \in Nat /\ p[10] \in Nat /\ p[11] \in Nat
      /\ p[12] \in Nat /\ p[13] \in Nat
  BY <1>1
<1>3. p[4] <= p[5]
  <2>1. p[5] = p[4] \/ p[5] = p[4] + 1
    BY DEF Starts
  <2>2. QED
    BY <1>2, <2>1
<1>4. p[7] <= p[8]
  <2>1. p[8] = p[7] \/ p[8] = p[7] + 1
    BY DEF Starts
  <2>2. QED
    BY <1>2, <2>1
<1>5. p[9] <= p[10]
  <2>1. p[10] = p[9] \/ p[10] = p[9] + 1
    BY DEF Starts
  <2>2. QED
    BY <1>2, <2>1
<1>6. QED
  BY <1>2, <1>3, <1>4, <1>5 DEF Starts, InOrder

LEMMA AddrSpecOfPieces ==
  ASSUME NEW v, NEW c, NEW lead, NEW trail, NEW w, NEW p, Cut(v, c, lead, trail, w, p)
  PROVE  /\ AddrSpec(v) = <<p[5] + 1, p[12]>>
         /\ c.angled => First(v, 1, Len(v), {"<"}) = p[5]
         /\ ~c.angled => DisplayOf(v) = Absent
<1>0. /\ Starts(c, p) /\ Len(v) = p[13] /\ Len(v) \in Nat /\ Laid(v, w, p)
      /\ ArePieces(w, c, lead, trail) /\ InARow(v, c, w, p)
  BY StartsOf DEF Cut
<1>1. InOrder(p)
  BY <1>0, StartsInOrder
<1>3. Clear(v, p[5] + 1, p[12], {"<", ">"} \ {"<"})
  <2>1. \A k \in 5 .. 5 + 6 : ToSet(w[k]) \cap ({"<", ">"} \ {"<"}) = {}
    <3>1. ASSUME NEW k \in 5 .. 5 + 6 PROVE ToSet(w[k]) \cap {"<", ">"} = {}
      <4>1. k \in {5, 6, 7, 8, 9, 10, 11}
        BY <3>1
      <4>2. QED
        BY <1>0, <4>1 DEF InARow
    <3>2. QED
      BY <3>1
  <2>2. 5 \in 1 .. 12 /\ 6 \in 0 .. 12 - 5 /\ 5 + 6 + 1 = 12
    OBVIOUS
  <2>3. Clear(v, p[5] + 1, p[5 + 6 + 1], {"<", ">"} \ {"<"})
    BY <1>0, <2>1, <2>2, ClearPieces
  <2>4. QED
    BY <2>2, <2>3
<1>4. Clear(v, p[5] + 1, p[12], {">"})
  <2>1. {"<", ">"} \ {"<"} = {">"}
    OBVIOUS
  <2>2. QED
    BY <1>3, <2>1
<1>5. CASE c.angled
  <2>1. p[5] = p[4] + 1 /\ p[12] + 1 <= p[13]
    BY <1>0, <1>5 DEF Starts
  <2>2. v[p[4] + 1] = "<" /\ v[p[12] + 1] = ">"
    <3>1. w[4] = <<"<">> /\ w[12] = <<">">> \o c.trailer
      BY <1>0, <1>5 DEF ArePieces
    <3>2. c.trailer \in Seq(ToSet(c.trailer))
      BY DEF Cut, IsForm, Free
    <3>3. /\ 4 \in 1 .. 12 /\ 1 \in 1 .. Len(w[4]) /\ w[4][1] = "<"
      BY <3>1
    <3>4. /\ 12 \in 1 .. 12 /\ 1 \in 1 .. Len(w[12]) /\ w[12][1] = ">"
      <4> DEFINE S == ToSet(c.trailer) \cup {">"}
      <4>1. <<">">> \in Seq(S) /\ Len(<<">">>) = 1 /\ <<">">>[1] = ">"
        OBVIOUS
      <4>2. c.trailer \in Seq(S)
        BY <3>2
      <4>3. 1 \in 1 .. Len(<<">">>) /\ Len(c.trailer) \in Nat
        BY <4>1, <4>2
      <4> HIDE DEF S
      <4>4. (<<">">> \o c.trailer)[1] = ">" /\ Len(<<">">> \o c.trailer) = 1 + Len(c.trailer)
        BY <4>1, <4>2, <4>3, ConcatElements
      <4>5. QED
        BY <3>1, <4>3, <4>4
    <3>5. QED
      BY <1>0, <3>3, <3>4, TokenAt
  <2>3. Clear(v, 1, p[4], {"<"})
    <3>1. \A k \in 1 .. 1 + 2 : ToSet(w[k]) \cap {"<"} = {}
      <4>1. ASSUME NEW k \in 1 .. 1 + 2 PROVE ToSet(w[k]) \cap {"<"} = {}
        <5>1. k \in {1, 2, 3}
          BY <4>1
        <5>2. QED
          BY <1>0, <5>1 DEF InARow
      <4>2. QED
        BY <4>1
    <3>2. 1 \in 1 .. 12 /\ 2 \in 0 .. 12 - 1 /\ 1 + 2 + 1 = 4 /\ p[1] + 1 = 1
      BY <1>1 DEF InOrder
    <3>3. Clear(v, p[1] + 1, p[1 + 2 + 1], {"<"})
      BY <1>0, <3>1, <3>2, ClearPieces
    <3>4. QED
      BY <3>2, <3>3
  <2>4. /\ p[5] \in Nat /\ p[12] \in Nat /\ 1 <= p[5] /\ p[5] <= p[12] /\ p[12] + 1 <= Len(v)
        /\ p[5] - 1 = p[4]
    <3>1. Len(v) = p[13]
      BY <1>0
    <3>2. /\ p[4] \in Nat /\ p[5] \in Nat /\ p[12] \in Nat /\ p[5] <= p[12]
      BY <1>1 DEF InOrder
    <3>3. 1 <= p[5] /\ p[5] - 1 = p[4]
      BY <2>1, <3>2
    <3>4. QED
      BY <2>1, <3>1, <3>2, <3>3
  <2>5. v[p[5]] = "<" /\ Clear(v, 1, p[5] - 1, {"<"})
    BY <2>1, <2>2, <2>3, <2>4
  <2>6. First(v, 1, Len(v), {"<"}) = p[5] /\ AddrSpec(v) = <<p[5] + 1, p[12]>>
    BY <1>0, <1>4, <2>2, <2>4, <2>5, AddrSpecAngled
  <2>7. QED
    BY <1>5, <2>6
<1>6. CASE ~c.angled
  <2>1. p[4] = 0 /\ p[13] = p[12] /\ p[5] = p[4]
    BY <1>0, <1>6 DEF Starts
  <2>2. \A k \in 5 .. 5 + 6 : ToSet(w[k]) \cap {"<"} = {}
    <3>1. ASSUME NEW k \in 5 .. 5 + 6 PROVE ToSet(w[k]) \cap {"<"} = {}
      <4>1. k \in {5, 6, 7, 8, 9, 10, 11}
        BY <3>1
      <4>2. QED
        BY <1>0, <4>1 DEF InARow
    <3>2. QED
      BY <3>1
  <2>3. 5 \in 1 .. 12 /\ 6 \in 0 .. 12 - 5 /\ 5 + 6 + 1 = 12 /\ p[5] + 1 = 1
    BY <2>1
  <2>4. Clear(v, p[5] + 1, p[5 + 6 + 1], {"<"})
    BY <1>0, <2>2, <2>3, ClearPieces
  <2>5. Clear(v, 1, Len(v), {"<"})
    BY <1>0, <2>1, <2>3, <2>4
  <2>6. AddrSpec(v) = <<1, Len(v)>> /\ DisplayOf(v) = Absent
    BY <1>0, <2>5, AddrSpecBare
  <2>7. QED
    BY <1>0, <1>6, <2>1, <2>3, <2>6
<1>7. QED
  BY <1>5, <1>6

LEMMA SchemeOfPieces ==
  ASSUME NEW v, NEW c, NEW lead, NEW trail, NEW w, NEW p, Cut(v, c, lead, trail, w, p)
  PROVE  AfterScheme(v, <<p[5] + 1, p[12]>>) = <<p[6] + 1, p[12]>>
<1>0. /\ Starts(c, p) /\ Len(v) = p[13] /\ Laid(v, w, p) /\ v \in Seq(Tokens)
      /\ ArePieces(w, c, lead, trail)
  BY StartsOf DEF Cut
<1>1. InOrder(p)
  BY <1>0, StartsInOrder
<1>2. v[p[5] + 1] = Scheme /\ v[p[5] + 2] = ":"
  <2>1. w[5] = <<Scheme, ":">>
    BY <1>0 DEF ArePieces
  <2>2. 5 \in 1 .. 12 /\ 1 \in 1 .. Len(w[5]) /\ 2 \in 1 .. Len(w[5])
        /\ w[5][1] = Scheme /\ w[5][2] = ":"
    BY <2>1
  <2>3. QED
    BY <1>0, <2>2, TokenAt
<1>3. /\ p[5] \in Nat /\ p[12] \in Nat /\ p[5] + 2 <= p[12] /\ p[12] <= p[13] /\ p[5] + 3 = p[6] + 1
  BY <1>1 DEF InOrder
<1>4. QED
  BY <1>0, <1>2, <1>3, SchemeIsSkipped

LEMMA HostOfPieces ==
  ASSUME NEW v, NEW c, NEW lead, NEW trail, NEW w, NEW p, Cut(v, c, lead, trail, w, p)
  PROVE  HostAt(v, p[6], p[12], p[8], p[11])
<1>0. /\ Starts(c, p) /\ Laid(v, w, p) /\ ArePieces(w, c, lead, trail) /\ InARow(v, c, w, p) /\ IsForm(c)
  BY StartsOf DEF Cut
<1>1. InOrder(p)
  BY <1>0, StartsInOrder
<1>4. \/ p[8] = p[6] /\ Clear(v, p[6] + 1, p[12], {"@"})
      \/ p[6] < p[8] /\ v[p[8]] = "@" /\ Clear(v, p[6] + 1, p[8] - 1, {"@"})
  <2>1. CASE c.user = Absent
    <3>1. p[8] = p[6] /\ Clear(v, p[6] + 1, p[12], {"@"})
      <4>1. p[8] = p[6]
        <5>1. p[8] = p[7] /\ p[7] = p[6]
          BY <1>0, <2>1 DEF Starts
        <5>2. QED
          BY <5>1
      <4>2. \A k \in 8 .. 8 + 3 : ToSet(w[k]) \cap {"@"} = {}
        <5>1. ASSUME NEW k \in 8 .. 8 + 3 PROVE ToSet(w[k]) \cap {"@"} = {}
          <6>1. k \in {8, 9, 10, 11}
            BY <5>1
          <6>2. QED
            BY <1>0, <6>1 DEF InARow
        <5>2. QED
          BY <5>1
      <4>3. 8 \in 1 .. 12 /\ 3 \in 0 .. 12 - 8 /\ 8 + 3 + 1 = 12
        OBVIOUS
      <4>4. Clear(v, p[8] + 1, p[8 + 3 + 1], {"@"})
        BY <1>0, <4>2, <4>3, ClearPieces
      <4>5. QED
        BY <4>1, <4>3, <4>4
    <3>2. QED
      BY <3>1
  <2>2. CASE c.user # Absent
    <3>1. p[8] = p[7] + 1
      BY <1>0, <2>2 DEF Starts
    <3>2. v[p[7] + 1] = "@"
      <4>1. w[7] = <<"@">>
        BY <1>0, <2>2 DEF ArePieces
      <4>2. 7 \in 1 .. 12 /\ 1 \in 1 .. Len(w[7]) /\ w[7][1] = "@"
        BY <4>1
      <4>3. QED
        BY <1>0, <4>2, TokenAt
    <3>3. Clear(v, p[6] + 1, p[7], {"@"})
      <4>1. 6 \in 1 .. 12 /\ 6 + 1 = 7 /\ ToSet(w[6]) \cap {"@"} = {}
        <5>1. ToSet(w[6]) \cap {"<", ">", "@"} = {}
          BY <1>0 DEF InARow
        <5>2. QED
          BY <5>1
      <4>2. Clear(v, p[6] + 1, p[6 + 1], {"@"})
        BY <1>0, <4>1, ClearPiece
      <4>3. QED
        BY <4>1, <4>2
    <3>4. p[6] < p[8] /\ p[8] - 1 = p[7]
      BY <1>1, <3>1 DEF InOrder
    <3>5. QED
      BY <3>1, <3>2, <3>3, <3>4
  <2>3. QED
    BY <2>1, <2>2
<1>5. Clear(v, p[8] + 1, p[11], {";", "?", ">"})
  <2>1. \A k \in 8 .. 8 + 2 : ToSet(w[k]) \cap {";", "?", ">"} = {}
    <3>1. ASSUME NEW k \in 8 .. 8 + 2 PROVE ToSet(w[k]) \cap {";", "?", ">"} = {}
      <4>1. k \in {8, 9, 10}
        BY <3>1
      <4>2. QED
        BY <1>0, <4>1 DEF InARow
    <3>2. QED
      BY <3>1
  <2>2. 8 \in 1 .. 12 /\ 2 \in 0 .. 12 - 8 /\ 8 + 2 + 1 = 11
    OBVIOUS
  <2>3. Clear(v, p[8] + 1, p[8 + 2 + 1], {";", "?", ">"})
    BY <1>0, <2>1, <2>2, ClearPieces
  <2>4. QED
    BY <2>2, <2>3
<1>6. p[11] = p[12] \/ v[p[11] + 1] \in {";", "?", ">"}
  <2>1. w[11] = c.params /\ c.params \in Seq(ToSet(c.params)) /\ (c.params # <<>> => c.params[1] \in {";", "?"})
    BY <1>0 DEF ArePieces, IsForm, Free
  <2>2. CASE c.params = <<>>
    <3>1. 11 \in 1 .. 12 /\ 11 + 1 = 12 /\ Len(w[11]) = 0
      BY <2>1, <2>2
    <3>2. p[11] \in Nat /\ p[11 + 1] = p[11] + Len(w[11])
      BY <1>0, <3>1 DEF Laid
    <3>3. p[11 + 1] = p[12]
      BY <3>1
    <3>4. p[11] + Len(w[11]) = p[11]
      BY <3>1, <3>2
    <3>5. QED
      BY <3>2, <3>3, <3>4
  <2>3. CASE c.params # <<>>
    <3> DEFINE t == c.params
    <3>a. t \in Seq(ToSet(t)) /\ t # <<>> /\ w[11] = t
      BY <2>1, <2>3
    <3>b. t[1] \in {";", "?"}
      BY <2>1, <2>3
    <3> HIDE DEF t
    <3>c. 1 \in 1 .. Len(t)
      BY <3>a
    <3>1. 11 \in 1 .. 12
      OBVIOUS
    <3>d. 1 \in 1 .. Len(w[11]) /\ w[11][1] \in {";", "?"}
      BY <3>a, <3>b, <3>c
    <3>e. Laid(v, w, p) /\ 1 \in 1 .. Len(w[11])
      BY <1>0, <3>d
    <3>2. v[p[11] + 1] = w[11][1]
      BY <3>1, <3>e, TokenAt
    <3>3. QED
      BY <3>d, <3>2
  <2>4. QED
    BY <2>2, <2>3
<1>7. /\ p[6] \in Nat /\ p[12] \in Nat /\ p[8] \in Nat /\ p[11] \in Nat
      /\ p[6] <= p[8] /\ p[8] <= p[11] /\ p[11] <= p[12]
  BY <1>1 DEF InOrder
<1>8. QED
  BY <1>4, <1>5, <1>6, <1>7 DEF HostAt

LEMMA PortOfPieces ==
  ASSUME NEW v, NEW c, NEW lead, NEW trail, NEW w, NEW p, Cut(v, c, lead, trail, w, p)
  PROVE  /\ HostOf(v, <<p[8] + 1, p[11]>>) = <<p[8] + 1, p[9]>>
         /\ PortOf(v, <<p[8] + 1, p[11]>>) = IF c.port = Absent THEN Absent ELSE <<p[10] + 1, p[11]>>
<1>0. /\ Starts(c, p) /\ Laid(v, w, p) /\ ArePieces(w, c, lead, trail) /\ InARow(v, c, w, p)
  BY StartsOf DEF Cut
<1>1. /\ p[8] \in Nat /\ p[9] \in Nat /\ p[10] \in Nat /\ p[11] \in Nat
      /\ p[8] <= p[9] /\ p[9] <= p[10] /\ p[10] <= p[11]
  BY <1>0, StartsInOrder DEF InOrder
<1>2. CASE c.port = Absent
  <2>1. p[11] = p[9]
    <3>1. p[10] = p[9] /\ p[11] = p[10]
      BY <1>0, <1>2 DEF Starts
    <3>2. QED
      BY <3>1
  <2>2. Clear(v, p[8] + 1, p[9], {":"})
    <3>1. 8 \in 1 .. 12 /\ 8 + 1 = 9
      OBVIOUS
    <3>2. ToSet(w[8]) \cap {"<", ">", "@", ":", ";", "?"} = {}
      BY <1>0 DEF InARow
    <3>3. ToSet(w[8]) \cap {":"} = {}
      BY <3>2
    <3>4. Clear(v, p[8] + 1, p[8 + 1], {":"})
      BY <1>0, <3>1, <3>3, ClearPiece
    <3>5. QED
      BY <3>1, <3>4
  <2>3. QED
    <3>1. PortAt(v, p[8], p[9], p[11])
      BY <1>1, <2>1, <2>2 DEF PortAt
    <3>2. /\ HostOf(v, <<p[8] + 1, p[11]>>) = <<p[8] + 1, p[9]>>
          /\ PortOf(v, <<p[8] + 1, p[11]>>) = IF p[9] = p[11] THEN Absent ELSE <<p[9] + 2, p[11]>>
      BY <3>1, PortIsFound
    <3>3. QED
      BY <1>2, <2>1, <3>2
<1>3. CASE c.port # Absent
  <2>1. p[10] = p[9] + 1
    BY <1>0, <1>3 DEF Starts
  <2>2. v[p[9] + 1] = ":"
    <3>1. w[9] = <<":">>
      BY <1>0, <1>3 DEF ArePieces
    <3>2. 9 \in 1 .. 12 /\ 1 \in 1 .. Len(w[9]) /\ w[9][1] = ":"
      BY <3>1
    <3>3. QED
      BY <1>0, <3>2, TokenAt
  <2>3. Clear(v, p[10] + 1, p[11], {":"})
    <3>1. 10 \in 1 .. 12 /\ 10 + 1 = 11
      OBVIOUS
    <3>2. ToSet(w[10]) \cap {"<", ">", "@", ":", ";", "?"} = {}
      BY <1>0 DEF InARow
    <3>3. ToSet(w[10]) \cap {":"} = {}
      BY <3>2
    <3>4. Clear(v, p[10] + 1, p[10 + 1], {":"})
      BY <1>0, <3>1, <3>3, ClearPiece
    <3>5. QED
      BY <3>1, <3>4
  <2>4. p[10] + 1 = p[9] + 2 /\ p[9] < p[11] /\ p[9] <= p[11] /\ p[9] # p[11]
    BY <1>1, <2>1
  <2>5. Clear(v, p[9] + 2, p[11], {":"})
    BY <2>3, <2>4
  <2>6. /\ HostOf(v, <<p[8] + 1, p[11]>>) = <<p[8] + 1, p[9]>>
        /\ PortOf(v, <<p[8] + 1, p[11]>>) = IF p[9] = p[11] THEN Absent ELSE <<p[9] + 2, p[11]>>
    <3>1. PortAt(v, p[8], p[9], p[11])
      BY <1>1, <2>2, <2>4, <2>5 DEF PortAt
    <3>2. QED
      BY <3>1, PortIsFound
  <2>7. QED
    BY <1>3, <2>4, <2>6
<1>4. QED
  BY <1>2, <1>3

LEMMA NameOfPieces ==
  ASSUME NEW v, NEW c, NEW lead, NEW trail, NEW w, NEW p, Cut(v, c, lead, trail, w, p), c.angled
  PROVE  DisplayOf(v) = <<p[2] + 1, p[3]>>
<1>0. /\ Starts(c, p) /\ Laid(v, w, p) /\ ArePieces(w, c, lead, trail) /\ Margins(c, lead, trail)
      /\ Len(v) = p[13] /\ Len(v) \in Nat /\ IsForm(c)
  BY StartsOf DEF Cut
<1>1. /\ p[1] = 0 /\ p[2] \in Nat /\ p[3] \in Nat /\ p[4] \in Nat /\ p[5] \in Nat /\ p[13] \in Nat
      /\ p[2] <= p[3] /\ p[3] <= p[4] /\ p[5] = p[4] + 1 /\ p[5] <= p[13]
  <2>1. /\ p[1] = 0 /\ p[2] \in Nat /\ p[3] \in Nat /\ p[4] \in Nat /\ p[5] \in Nat /\ p[13] \in Nat
        /\ p[2] <= p[3] /\ p[3] <= p[4] /\ p[5] <= p[13]
    <3>1. InOrder(p)
      BY <1>0, StartsInOrder
    <3>2. QED
      BY <3>1 DEF InOrder
  <2>2. p[5] = p[4] + 1
    BY <1>0 DEF Starts
  <2>3. QED
    BY <2>1, <2>2
<1>2. w[1] = lead /\ w[2] = Of(c.display) /\ w[3] = trail /\ lead \in Seq(Tokens) /\ trail \in Seq(Tokens)
  BY <1>0 DEF ArePieces, Margins, Around
<1>3. /\ p[2] = p[1] + Len(w[1]) /\ p[3] = p[2] + Len(w[2]) /\ p[4] = p[3] + Len(w[3])
      /\ Len(w[1]) \in Nat /\ Len(w[2]) \in Nat /\ Len(w[3]) \in Nat
      /\ \A j \in p[1] + 1 .. p[2] : j - p[1] \in 1 .. Len(w[1]) /\ v[j] = w[1][j - p[1]]
      /\ \A j \in p[3] + 1 .. p[4] : j - p[3] \in 1 .. Len(w[3]) /\ v[j] = w[3][j - p[3]]
  <2>1. 1 \in 1 .. 12 /\ 2 \in 1 .. 12 /\ 3 \in 1 .. 12 /\ 1 + 1 = 2 /\ 2 + 1 = 3 /\ 3 + 1 = 4
    OBVIOUS
  <2>2. /\ p[1 + 1] = p[1] + Len(w[1]) /\ p[2 + 1] = p[2] + Len(w[2]) /\ p[3 + 1] = p[3] + Len(w[3])
        /\ Len(w[1]) \in Nat /\ Len(w[2]) \in Nat /\ Len(w[3]) \in Nat
        /\ \A j \in p[1] + 1 .. p[1 + 1] : j - p[1] \in 1 .. Len(w[1]) /\ v[j] = w[1][j - p[1]]
        /\ \A j \in p[3] + 1 .. p[3 + 1] : j - p[3] \in 1 .. Len(w[3]) /\ v[j] = w[3][j - p[3]]
    BY <1>0, <2>1 DEF Laid
  <2>3. QED
    BY <2>1, <2>2
<1>4. NameAt(v, p[5], p[2], p[3])
  <2>1. CASE c.quoted
    <3>1. lead = <<Quote>> /\ trail = <<Quote, Blank>>
      BY <1>0, <2>1 DEF Margins, Around
    <3>2. Len(w[1]) = 1 /\ w[1][1] = Quote /\ Len(w[3]) = 2 /\ w[3][1] = Quote /\ w[3][2] = Blank
      BY <1>2, <3>1
    <3>3. /\ p[2] = 1 /\ p[4] = p[3] + 2 /\ p[3] + 1 < p[5] /\ p[3] < p[5] /\ p[1] + 1 = 1
          /\ \A i \in p[3] + 2 .. p[5] - 1 : i = p[3] + 2
      BY <1>1, <1>3, <3>2
    <3>4. v[1] = Quote /\ v[p[3] + 1] = Quote /\ v[p[3] + 2] = Blank
      <4>1. v[p[1] + 1] = w[1][1]
        BY <1>0, <3>2, TokenAt
      <4>2. v[p[3] + 1] = w[3][1] /\ v[p[3] + 2] = w[3][2]
        <5>1. 3 \in 1 .. 12 /\ 1 \in 1 .. Len(w[3]) /\ 2 \in 1 .. Len(w[3])
          BY <3>2
        <5>2. QED
          BY <1>0, <5>1, TokenAt
      <4>3. QED
        BY <3>2, <3>3, <4>1, <4>2
    <3>5. \A i \in p[3] + 2 .. p[5] - 1 : v[i] = Blank
      BY <3>3, <3>4
    <3>6. QED
      BY <1>1, <3>3, <3>4, <3>5 DEF NameAt
  <2>2. CASE ~c.quoted
    <3>1. /\ \A i \in 1 .. Len(lead) : lead[i] = Blank
          /\ \A i \in 1 .. Len(trail) : trail[i] = Blank
          /\ Of(c.display) = <<>> => trail = <<>>
      BY <1>0, <2>2 DEF Margins, Around
    <3>2. \A i \in 1 .. p[2] : v[i] = Blank
      <4>1. ASSUME NEW i \in 1 .. p[2] PROVE v[i] = Blank
        <5>1. i \in p[1] + 1 .. p[2]
          BY <1>1
        <5>2. i - p[1] \in 1 .. Len(w[1]) /\ v[i] = w[1][i - p[1]]
          BY <1>3, <5>1
        <5>3. QED
          BY <1>2, <3>1, <5>2
      <4>2. QED
        BY <4>1
    <3>3. p[5] - 1 = p[4] /\ p[3] < p[5]
      BY <1>1
    <3>4. \A i \in p[3] + 1 .. p[5] - 1 : v[i] = Blank
      <4>1. ASSUME NEW i \in p[3] + 1 .. p[4] PROVE v[i] = Blank
        <5>1. i - p[3] \in 1 .. Len(w[3]) /\ v[i] = w[3][i - p[3]]
          BY <1>3
        <5>2. QED
          BY <1>2, <3>1, <5>1
      <4>2. QED
        BY <3>3, <4>1
    <3> DEFINE t == Of(c.display)
    <3>5. t \in Seq(ToSet(t)) /\ w[2] = t /\ (t # <<>> => t[1] # Blank /\ t[Len(t)] # Blank)
          /\ ToSet(t) \cap {"<", Quote} = {}
      BY <1>0, <1>2 DEF IsForm, IsName, Free
    <3>6. t = <<>> => trail = <<>>
      BY <3>1
    <3> HIDE DEF t
    <3>7. p[2] = p[3] => p[3] = p[5] - 1
      <4>1. ASSUME p[2] = p[3] PROVE p[3] = p[5] - 1
        <5>1. Len(t) = 0
          BY <1>1, <1>3, <3>5, <4>1
        <5>2. t = <<>>
          BY <3>5, <5>1
        <5>3. Len(w[3]) = 0
          BY <1>2, <3>6, <5>2
        <5>4. QED
          BY <1>1, <1>3, <3>3, <5>3
      <4>2. QED
        BY <4>1
    <3>8. p[2] < p[3] => v[p[2] + 1] # Blank /\ v[p[3]] # Blank /\ v[p[2] + 1] # Quote
      <4>1. ASSUME p[2] < p[3] PROVE v[p[2] + 1] # Blank /\ v[p[3]] # Blank /\ v[p[2] + 1] # Quote
        <5>1. Len(t) >= 1 /\ p[2] + Len(t) = p[3] /\ Len(t) \in Nat
          <6>1. Len(w[2]) = Len(t)
            BY <3>5
          <6>2. QED
            BY <1>1, <1>3, <4>1, <6>1
        <5>2. t # <<>>
          BY <5>1
        <5>3. 1 \in 1 .. Len(w[2]) /\ Len(t) \in 1 .. Len(w[2])
          BY <3>5, <5>1
        <5>4. v[p[2] + 1] = w[2][1] /\ v[p[2] + Len(t)] = w[2][Len(t)]
          BY <1>0, <5>3, TokenAt
        <5>5. v[p[2] + 1] = t[1] /\ v[p[3]] = t[Len(t)]
          BY <3>5, <5>1, <5>4
        <5>6. t[1] \in ToSet(t)
          <6>1. 1 \in DOMAIN t
            BY <3>5, <5>1
          <6>2. QED
            BY <6>1 DEF ToSet
        <5>7. t[1] # Quote
          BY <3>5, <5>6
        <5>8. QED
          BY <3>5, <5>2, <5>5, <5>7
      <4>2. QED
        BY <4>1
    <3>9. QED
      BY <1>1, <3>2, <3>3, <3>4, <3>7, <3>8 DEF NameAt
  <2>3. QED
    BY <2>1, <2>2
<1>5. First(v, 1, Len(v), {"<"}) = p[5]
  BY AddrSpecOfPieces
<1>6. QED
  BY <1>0, <1>1, <1>4, <1>5, NameIsFound

\* The spans of the pieces.
SpansOf(c, p) ==
  [display |-> IF c.angled THEN <<p[2] + 1, p[3]>> ELSE Absent,
   user |-> IF c.user = Absent THEN Absent ELSE <<p[6] + 1, p[7]>>,
   host |-> <<p[8] + 1, p[9]>>,
   port |-> IF c.port = Absent THEN Absent ELSE <<p[10] + 1, p[11]>>]

LEMMA ParsesPieces ==
  ASSUME NEW v, NEW c, NEW lead, NEW trail, NEW w, NEW p, Cut(v, c, lead, trail, w, p)
  PROVE  ParseUri(v) = SpansOf(c, p)
<1> DEFINE s == AfterScheme(v, AddrSpec(v))
<1>0. Starts(c, p) /\ InOrder(p)
  BY StartsOf, StartsInOrder DEF Cut
<1>1. s = <<p[6] + 1, p[12]>>
  <2>1. AddrSpec(v) = <<p[5] + 1, p[12]>>
    BY AddrSpecOfPieces
  <2>2. QED
    BY <2>1, SchemeOfPieces
<1> HIDE DEF s
<1>2. /\ UserOf(v, s) = IF p[8] = p[6] THEN Absent ELSE <<p[6] + 1, p[8] - 1>>
      /\ HostPort(v, s) = <<p[8] + 1, p[11]>>
  BY <1>1, HostOfPieces, UserIsFound, SMTT(20)
<1>3. UserOf(v, s) = IF c.user = Absent THEN Absent ELSE <<p[6] + 1, p[7]>>
  <2>1. CASE c.user = Absent
    <3>1. p[8] = p[7] /\ p[7] = p[6]
      BY <1>0, <2>1 DEF Starts
    <3>2. QED
      BY <1>2, <2>1, <3>1
  <2>2. CASE c.user # Absent
    <3>1. p[8] = p[7] + 1
      BY <1>0, <2>2 DEF Starts
    <3>2. p[6] \in Nat /\ p[7] \in Nat /\ p[6] <= p[7]
      BY <1>0 DEF InOrder
    <3>3. p[8] # p[6] /\ p[8] - 1 = p[7]
      BY <3>1, <3>2
    <3>4. QED
      BY <1>2, <2>2, <3>3
  <2>3. QED
    BY <2>1, <2>2
<1>4. DisplayOf(v) = IF c.angled THEN <<p[2] + 1, p[3]>> ELSE Absent
  <2>1. CASE c.angled
    BY <2>1, NameOfPieces
  <2>2. CASE ~c.angled
    BY <2>2, AddrSpecOfPieces
  <2>3. QED
    BY <2>1, <2>2
<1>5. /\ HostOf(v, HostPort(v, s)) = <<p[8] + 1, p[9]>>
      /\ PortOf(v, HostPort(v, s)) = IF c.port = Absent THEN Absent ELSE <<p[10] + 1, p[11]>>
  BY <1>2, PortOfPieces
<1>6. QED
  BY <1>3, <1>4, <1>5 DEF ParseUri, SpansOf, s

-----------------------------------------------------------------------------
(* A component reads back *)

LEMMA TextOfPiece ==
  ASSUME NEW v, NEW c, NEW lead, NEW trail, NEW w, NEW p, Cut(v, c, lead, trail, w, p), NEW i \in 1 .. 12
  PROVE  SubSeq(v, p[i] + 1, p[i + 1]) = w[i]
<1>1. /\ p[i] \in Nat /\ p[i + 1] \in Nat /\ Len(w[i]) \in Nat /\ p[i + 1] = p[i] + Len(w[i])
      /\ \A j \in p[i] + 1 .. p[i + 1] : j - p[i] \in 1 .. Len(w[i]) /\ v[j] = w[i][j - p[i]]
  BY DEF Cut, Laid
<1>2. w \in Seq(Seq(Tokens)) /\ Len(w) = 12 /\ v \in Seq(Tokens) /\ v = FlattenSeq(w)
      /\ p[i] = PieceStart(w, i)
  <2>1. w \in Seq(Seq(Tokens)) /\ Len(w) = 12 /\ v \in Seq(Tokens) /\ v = FlattenSeq(w)
    BY DEF Cut, ArePieces
  <2>2. i \in 1 .. 13 /\ \A k \in 1 .. 13 : p[k] = PieceStart(w, k)
    BY DEF Cut
  <2>3. QED
    BY <2>1, <2>2
<1>3. w[i] \in Seq(Tokens) /\ i \in 1 .. Len(w)
  BY <1>2, ElementOfSeq
<1>4. p[i] + Len(w[i]) <= Len(v)
  <2>1. PieceStart(w, i) + Len(w[i]) <= Len(FlattenSeq(w))
    BY <1>2, <1>3, PieceAt
  <2>2. QED
    BY <1>2, <2>1
<1> DEFINE a == p[i]
           b == p[i + 1]
           t == w[i]
           x == SubSeq(v, a + 1, b)
<1>5. a \in Nat /\ b \in Nat /\ Len(t) \in Nat /\ b = a + Len(t) /\ b <= Len(v) /\ v \in Seq(Tokens)
      /\ t \in Seq(Tokens)
      /\ \A j \in a + 1 .. b : v[j] = t[j - a]
  BY <1>1, <1>2, <1>3, <1>4
<1> HIDE DEF a, b, t
<1>6. x \in Seq(Tokens) /\ Len(x) = Len(t) /\ \A k \in 1 .. Len(t) : x[k] = v[a + k]
  BY <1>5
<1>7. ASSUME NEW k \in 1 .. Len(x) PROVE x[k] = t[k]
  <2>1. a + k \in a + 1 .. b /\ (a + k) - a = k /\ k \in 1 .. Len(t)
    BY <1>5, <1>6
  <2>2. QED
    BY <1>5, <1>6, <2>1
<1> HIDE DEF x
<1>8. x = t
  BY <1>5, <1>6, <1>7, SameElements
<1>9. QED
  BY <1>8 DEF x, a, b, t

LEMMA CutReadsBack ==
  ASSUME NEW v, NEW c, NEW lead, NEW trail, NEW w, NEW p, Cut(v, c, lead, trail, w, p),
         NEW e \in UriElements
  PROVE  UriGet(v, e) = Of(c[e])
<1>1. ParseUri(v) = SpansOf(c, p)
  BY ParsesPieces
<1>2. e # "whole" /\ UriGet(v, e) = Text(v, SpansOf(c, p)[e])
  BY <1>1 DEF UriGet, UriElements
<1>3. /\ w[2] = Of(c.display) /\ w[6] = Of(c.user) /\ w[8] = Of(c.host) /\ w[10] = Of(c.port)
      /\ IsForm(c)
  BY DEF Cut, ArePieces
<1>4. \A i, j : Text(v, <<i, j>>) = SubSeq(v, i, j)
  BY DEF Text, Absent
<1>5. Text(v, Absent) = <<>> /\ Of(Absent) = <<>>
  BY DEF Text, Of
<1>6. CASE e = "display"
  <2>1. SpansOf(c, p)[e] = IF c.angled THEN <<p[2] + 1, p[3]>> ELSE Absent
    BY <1>6 DEF SpansOf
  <2>2. ~c.angled => c.display = Absent
    BY <1>3 DEF IsForm
  <2>3. SubSeq(v, p[2] + 1, p[2 + 1]) = w[2]
    BY TextOfPiece
  <2>4. 2 + 1 = 3
    OBVIOUS
  <2>5. Text(v, <<p[2] + 1, p[3]>>) = Of(c.display)
    BY <1>3, <1>4, <2>3, <2>4
  <2>6. QED
    BY <1>2, <1>5, <1>6, <2>1, <2>2, <2>5
<1>7. CASE e = "user"
  <2>1. SpansOf(c, p)[e] = IF c.user = Absent THEN Absent ELSE <<p[6] + 1, p[7]>>
    BY <1>7 DEF SpansOf
  <2>3. SubSeq(v, p[6] + 1, p[6 + 1]) = w[6]
    BY TextOfPiece
  <2>4. 6 + 1 = 7
    OBVIOUS
  <2>5. Text(v, <<p[6] + 1, p[7]>>) = Of(c.user)
    BY <1>3, <1>4, <2>3, <2>4
  <2>6. QED
    BY <1>2, <1>5, <1>7, <2>1, <2>5
<1>8. CASE e = "host"
  <2>1. SpansOf(c, p)[e] = <<p[8] + 1, p[9]>>
    BY <1>8 DEF SpansOf
  <2>3. SubSeq(v, p[8] + 1, p[8 + 1]) = w[8]
    BY TextOfPiece
  <2>4. 8 + 1 = 9
    OBVIOUS
  <2>5. Text(v, <<p[8] + 1, p[9]>>) = Of(c.host)
    BY <1>3, <1>4, <2>3, <2>4
  <2>6. QED
    BY <1>2, <1>8, <2>1, <2>5
<1>9. CASE e = "port"
  <2>1. SpansOf(c, p)[e] = IF c.port = Absent THEN Absent ELSE <<p[10] + 1, p[11]>>
    BY <1>9 DEF SpansOf
  <2>3. SubSeq(v, p[10] + 1, p[10 + 1]) = w[10]
    BY TextOfPiece
  <2>4. 10 + 1 = 11
    OBVIOUS
  <2>5. Text(v, <<p[10] + 1, p[11]>>) = Of(c.port)
    BY <1>3, <1>4, <2>3, <2>4
  <2>6. QED
    BY <1>2, <1>5, <1>9, <2>1, <2>5
<1>10. QED
  BY <1>6, <1>7, <1>8, <1>9 DEF UriElements

-----------------------------------------------------------------------------
(* A rewritten component *)

LEMMA SpliceOfThree ==
  ASSUME NEW S, NEW x \in Seq(S), NEW y \in Seq(S), NEW z \in Seq(S), NEW t,
         NEW s, s[1] = Len(x) + 1, s[2] = Len(x) + Len(y)
  PROVE  Splice(x \o y \o z, s, t) = x \o t \o z
<1> DEFINE v == x \o y \o z
<1>1. SubSeq(v, 1, Len(x)) = x /\ SubSeq(v, Len(x) + Len(y) + 1, Len(v)) = z /\ Len(x) \in Nat
  BY FrontAndBack
<1> HIDE DEF v
<1>2. Splice(v, s, t) = SubSeq(v, 1, s[1] - 1) \o t \o SubSeq(v, s[2] + 1, Len(v))
  BY DEF Splice
<1>3. s[1] - 1 = Len(x)
  BY <1>1
<1>4. s[2] + 1 = Len(x) + Len(y) + 1
  OBVIOUS
<1>5. Splice(v, s, t) = x \o t \o z
  BY <1>1, <1>2, <1>3, <1>4
<1>6. QED
  BY <1>5 DEF v

\* Where piece i is.
Span(p, i) == <<p[i] + 1, p[i + 1]>>

\* Another piece in its place.
Put(w, i, t) == [w EXCEPT ![i] = t]

LEMMA CutSplice ==
  ASSUME NEW v, NEW c, NEW lead, NEW trail, NEW w, NEW p, Cut(v, c, lead, trail, w, p),
         NEW i \in 1 .. 12, NEW t \in Seq(Tokens)
  PROVE  /\ Splice(v, Span(p, i), t) = FlattenSeq(Put(w, i, t))
         /\ Put(w, i, t) \in Seq(Seq(Tokens)) /\ Len(Put(w, i, t)) = 12
         /\ Put(w, i, t)[i] = t /\ \A k \in 1 .. 12 : k # i => Put(w, i, t)[k] = w[k]
<1>1. w \in Seq(Seq(Tokens)) /\ Len(w) = 12 /\ v = FlattenSeq(w)
  BY DEF Cut, ArePieces
<1>2. i \in 1 .. Len(w)
  BY <1>1
<1>3. p[i] = PieceStart(w, i)
  <2>1. i \in 1 .. 13 /\ \A k \in 1 .. 13 : p[k] = PieceStart(w, k)
    BY DEF Cut
  <2>2. QED
    BY <2>1
<1>4. p[i + 1] = p[i] + Len(w[i])
  BY DEF Cut, Laid
<1>5. /\ [w EXCEPT ![i] = t] \in Seq(Seq(Tokens)) /\ Len([w EXCEPT ![i] = t]) = Len(w)
      /\ FlattenSeq([w EXCEPT ![i] = t]) = PiecesBefore(w, i) \o t \o PiecesAfter(w, i)
  BY <1>1, <1>2, FlattenReplaced
<1>6. /\ PiecesBefore(w, i) \in Seq(Tokens) /\ PiecesAfter(w, i) \in Seq(Tokens) /\ w[i] \in Seq(Tokens)
      /\ v = PiecesBefore(w, i) \o w[i] \o PiecesAfter(w, i)
  BY <1>1, <1>2, BeforeNext, FlattenCut
<1>7. Len(PiecesBefore(w, i)) = p[i]
  BY <1>3 DEF PieceStart
<1>8. Splice(v, <<p[i] + 1, p[i + 1]>>, t) = PiecesBefore(w, i) \o t \o PiecesAfter(w, i)
  <2> DEFINE x == PiecesBefore(w, i)
             y == w[i]
             z == PiecesAfter(w, i)
             s == <<p[i] + 1, p[i + 1]>>
  <2>1. x \in Seq(Tokens) /\ y \in Seq(Tokens) /\ z \in Seq(Tokens) /\ v = x \o y \o z
    BY <1>6
  <2>2. s[1] = Len(x) + 1 /\ s[2] = Len(x) + Len(y)
    BY <1>4, <1>7
  <2> HIDE DEF x, y, z, s
  <2>3. Splice(x \o y \o z, s, t) = x \o t \o z
    BY <2>1, <2>2, SpliceOfThree
  <2>4. QED
    BY <2>1, <2>3 DEF x, y, z, s
<1>9. [w EXCEPT ![i] = t][i] = t /\ \A k \in 1 .. 12 : k # i => [w EXCEPT ![i] = t][k] = w[k]
  BY <1>1
<1>10. QED
  BY <1>1, <1>5, <1>8, <1>9 DEF Put, Span

LEMMA PiecePut ==
  ASSUME NEW w \in Seq(Seq(Tokens)), NEW i \in 1 .. Len(w), NEW t \in Seq(Tokens)
  PROVE  /\ Put(w, i, t) \in Seq(Seq(Tokens)) /\ Len(Put(w, i, t)) = Len(w) /\ Put(w, i, t)[i] = t
         /\ \A k \in 1 .. Len(w) : k # i => Put(w, i, t)[k] = w[k]
<1> DEFINE S == Seq(Tokens)
<1>1. w \in Seq(S) /\ t \in S
  OBVIOUS
<1> HIDE DEF S
<1>2. /\ Put(w, i, t) \in Seq(S) /\ Len(Put(w, i, t)) = Len(w) /\ Put(w, i, t)[i] = t
      /\ \A k \in 1 .. Len(w) : k # i => Put(w, i, t)[k] = w[k]
  BY <1>1 DEF Put
<1>3. QED
  BY <1>2 DEF S

LEMMA SamePieces ==
  ASSUME NEW w, NEW u, NEW c, NEW lead, NEW trail, ArePieces(w, c, lead, trail), ArePieces(u, c, lead, trail)
  PROVE  w = u
<1>1. w \in Seq(Seq(Tokens)) /\ u \in Seq(Seq(Tokens)) /\ Len(w) = 12 /\ Len(u) = 12
  BY DEF ArePieces
<1>2. ASSUME NEW k \in 1 .. 12 PROVE w[k] = u[k]
  <2>1. k \in {1, 2, 3, 4, 5, 6, 7, 8, 9, 10, 11, 12}
    OBVIOUS
  <2>2. QED
    BY <2>1 DEF ArePieces
<1>3. QED
  BY <1>1, <1>2, SameElements, Zenon

LEMMA PiecesAreShaped ==
  ASSUME NEW w, NEW c, NEW lead, NEW trail, IsParts(c), Margins(c, lead, trail), ArePieces(w, c, lead, trail)
  PROVE  Shaped(FlattenSeq(w), c, lead, trail)
<1>1. lead \in Seq(Tokens) /\ trail \in Seq(Tokens)
  BY DEF Margins, Around
<1>2. ArePieces(Pieces(c, lead, trail), c, lead, trail)
  BY <1>1, PiecesType
<1>3. w = Pieces(c, lead, trail)
  BY <1>2, SamePieces
<1>4. QED
  BY <1>3 DEF Shaped

\* Blanks around no name are blanks before it.
LEMMA Normalised ==
  ASSUME NEW w, NEW c, NEW lead, NEW trail, IsParts(c), Around(c, lead, trail),
         ArePieces(w, c, lead, trail)
  PROVE  \E l, t : Shaped(FlattenSeq(w), c, l, t)
<1>1. CASE c.quoted \/ Of(c.display) # <<>>
  <2>1. Margins(c, lead, trail)
    BY <1>1 DEF Margins
  <2>2. QED
    BY <2>1, PiecesAreShaped
<1>2. CASE ~c.quoted /\ Of(c.display) = <<>>
  <2> DEFINE l == lead \o trail
             u == Pieces(c, l, <<>>)
  <2>1. /\ lead \in Seq(Tokens) /\ trail \in Seq(Tokens)
        /\ ~c.angled => lead = <<>> /\ trail = <<>>
        /\ \A i \in 1 .. Len(lead) : lead[i] = Blank
        /\ \A i \in 1 .. Len(trail) : trail[i] = Blank
    BY <1>2 DEF Around
  <2>2. l \in Seq(Tokens) /\ Len(l) = Len(lead) + Len(trail) /\ Len(lead) \in Nat /\ Len(trail) \in Nat
        /\ \A k \in 1 .. Len(lead) : l[k] = lead[k]
    BY <2>1, ConcatElements
  <2>b. \A k \in Len(lead) + 1 .. Len(lead) + Len(trail) : l[k] = trail[k - Len(lead)]
    BY <2>1, ConcatElements
  <2>3. ~c.angled => l = <<>>
    BY <2>1
  <2> HIDE DEF l
  <2>4. \A i \in 1 .. Len(l) : l[i] = Blank
    <3>1. ASSUME NEW i \in 1 .. Len(l) PROVE l[i] = Blank
      <4>1. CASE i \in 1 .. Len(lead)
        BY <2>1, <2>2, <4>1
      <4>2. CASE i \notin 1 .. Len(lead)
        <5>1. i \in Len(lead) + 1 .. Len(lead) + Len(trail) /\ i - Len(lead) \in 1 .. Len(trail)
          BY <2>2, <4>2
        <5>2. l[i] = trail[i - Len(lead)]
          BY <2>b, <5>1
        <5>3. trail[i - Len(lead)] = Blank
          BY <2>1, <5>1
        <5>4. QED
          BY <5>2, <5>3
      <4>3. QED
        BY <4>1, <4>2
    <3>2. QED
      BY <3>1
  <2>5. <<>> \in Seq(Tokens) /\ Len(<<>>) = 0
    OBVIOUS
  <2>6. Margins(c, l, <<>>)
    <3>1. \A i \in 1 .. Len(<<>>) : <<>>[i] = Blank
      BY <2>5
    <3>2. QED
      BY <1>2, <2>2, <2>3, <2>4, <2>5, <3>1 DEF Margins, Around
  <2>7. ArePieces(u, c, l, <<>>)
    BY <2>2, <2>5, PiecesType
  <2>8. FlattenSeq(w) = FlattenSeq(u)
    <3> DEFINE m1 == Put(w, 2, trail)
               nil == <<>>
               m == Put(m1, 3, nil)
    <3>1. w \in Seq(Seq(Tokens)) /\ Len(w) = 12 /\ w[1] = lead /\ w[2] = <<>> /\ w[3] = trail
      BY <1>2 DEF ArePieces
    <3>2. /\ m \in Seq(Seq(Tokens)) /\ Len(m) = 12 /\ m[2] = trail /\ m[3] = <<>>
          /\ \A k \in 1 .. 12 : k # 2 /\ k # 3 => m[k] = w[k]
      <4>1. /\ m1 \in Seq(Seq(Tokens)) /\ Len(m1) = Len(w) /\ m1[2] = trail
            /\ \A k \in 1 .. Len(w) : k # 2 => m1[k] = w[k]
        <5>1. 2 \in 1 .. Len(w) /\ w \in Seq(Seq(Tokens)) /\ trail \in Seq(Tokens)
          BY <2>1, <3>1
        <5>2. QED
          BY <5>1, PiecePut
      <4> HIDE DEF m1
      <4>2. /\ m \in Seq(Seq(Tokens)) /\ Len(m) = Len(m1) /\ m[3] = <<>>
            /\ \A k \in 1 .. Len(m1) : k # 3 => m[k] = m1[k]
        <5>1. 3 \in 1 .. Len(m1) /\ m1 \in Seq(Seq(Tokens)) /\ <<>> \in Seq(Tokens)
          BY <2>5, <3>1, <4>1
        <5>2. nil \in Seq(Tokens)
          BY <2>5
        <5> HIDE DEF nil
        <5>3. /\ m \in Seq(Seq(Tokens)) /\ Len(m) = Len(m1) /\ m[3] = nil
              /\ \A k \in 1 .. Len(m1) : k # 3 => m[k] = m1[k]
          BY <5>1, <5>2, PiecePut
        <5>4. QED
          BY <5>3 DEF nil
      <4>3. Len(m1) = 12 /\ 2 \in 1 .. 12 /\ 2 # 3
        BY <3>1, <4>1
      <4>4. QED
        BY <3>1, <4>1, <4>2, <4>3
    <3> HIDE DEF m
    <3>3. m[2] \o m[2 + 1] = w[2] \o w[2 + 1]
      <4>1. trail \o <<>> = trail /\ <<>> \o trail = trail
        BY <2>1
      <4>2. 2 + 1 = 3
        OBVIOUS
      <4>3. QED
        BY <3>1, <3>2, <4>1, <4>2
    <3>4. Merges(Tokens, w, m, 2)
      <4>1. 2 \in 1 .. Len(w) - 1 /\ \A k \in 1 .. Len(w) : k # 2 /\ k # 2 + 1 => m[k] = w[k]
        BY <3>1, <3>2
      <4>2. QED
        BY <3>1, <3>2, <3>3, <4>1 DEF Merges
    <3>5. FlattenSeq(m) = FlattenSeq(w)
      BY <3>4, FlattenMerge
    <3>6. u \in Seq(Seq(Tokens)) /\ Len(u) = 12 /\ u[1] = l /\ u[2] = <<>> /\ u[3] = <<>>
      BY <1>2, <2>7 DEF ArePieces
    <3>7. \A k \in 4 .. 12 : u[k] = w[k]
      <4>1. ASSUME NEW k \in 4 .. 12 PROVE u[k] = w[k]
        <5>1. k \in {4, 5, 6, 7, 8, 9, 10, 11, 12}
          OBVIOUS
        <5>2. QED
          BY <2>7, <5>1 DEF ArePieces
      <4>2. QED
        BY <4>1
    <3> HIDE DEF u
    <3>8. u[1] \o u[1 + 1] = m[1] \o m[1 + 1]
      <4>1. l \o <<>> = l
        BY <2>2
      <4>2. 1 + 1 = 2 /\ m[1] = lead
        BY <3>1, <3>2
      <4>3. QED
        BY <3>2, <3>6, <4>1, <4>2 DEF l
    <3>9. Merges(Tokens, m, u, 1)
      <4>1. 1 \in 1 .. Len(m) - 1 /\ 1 + 1 = 2
        BY <3>2
      <4>2. ASSUME NEW k \in 1 .. Len(m), k # 1, k # 2 PROVE u[k] = m[k]
        <5>1. k = 3 \/ k \in 4 .. 12
          BY <3>2, <4>2
        <5>2. k \in 4 .. 12 => m[k] = w[k]
          <6>1. k \in 4 .. 12 => k \in 1 .. 12 /\ k # 2 /\ k # 3
            OBVIOUS
          <6>2. QED
            BY <3>2, <6>1
        <5>3. QED
          BY <3>2, <3>6, <3>7, <5>1, <5>2
      <4>3. QED
        BY <3>2, <3>6, <3>8, <4>1, <4>2 DEF Merges
    <3>10. FlattenSeq(u) = FlattenSeq(m)
      BY <3>9, FlattenMerge
    <3>11. QED
      BY <3>5, <3>10
  <2>9. Shaped(FlattenSeq(u), c, l, <<>>)
    BY <2>6, <2>7, PiecesAreShaped
  <2>10. QED
    BY <2>8, <2>9
<1>3. QED
  BY <1>1, <1>2

-----------------------------------------------------------------------------
(* Component records *)

LEMMA TextsFit ==
  ASSUME NEW t \in Texts
  PROVE  IsHost(t) /\ IsName(t) /\ t \in Seq(Tokens)
<1>1. IsHost(t) /\ IsName(t)
  BY UriEditingAssumption
<1>2. t \in Seq(ToSet(t))
  BY <1>1 DEF IsHost, Free
<1>3. ToSet(t) \subseteq Tokens
  BY DEF Tokens, Written
<1>4. QED
  BY <1>1, <1>2, <1>3

LEMMA FormsFit ==
  ASSUME NEW c \in Forms
  PROVE  IsParts(c)
<1>1. IsForm(c)
  BY UriEditingAssumption
<1>2. Own(c) \subseteq Tokens
  <2>1. Own(c) \in {Own(d) : d \in Forms}
    OBVIOUS
  <2>2. Own(c) \subseteq UNION {Own(d) : d \in Forms}
    BY <2>1, Zenon
  <2>3. Own(c) \subseteq Given
    BY <2>2 DEF Given
  <2>4. QED
    BY <2>3 DEF Tokens
<1>3. ASSUME NEW t \in {Of(c.display), Of(c.user), Of(c.host), Of(c.port), c.params, c.trailer}
      PROVE  t \in Seq(Tokens)
  <2>1. t \in Seq(ToSet(t))
    BY <1>1 DEF IsForm, IsHost, IsName, Free
  <2>2. ToSet(t) \subseteq Own(c)
    BY DEF Own
  <2>3. ToSet(t) \subseteq Tokens
    BY <1>2, <2>2
  <2>4. QED
    BY <2>1, <2>3
<1>4. {Of(c.display), Of(c.user), Of(c.host), Of(c.port), c.params, c.trailer} \subseteq Seq(Tokens)
  BY <1>3
<1>5. QED
  BY <1>1, <1>4 DEF IsParts

\* One component with another text.
Rewritten(c, e, t) == [c EXCEPT ![e] = Present(t)]

LEMMA RewrittenFields ==
  ASSUME NEW c, IsForm(c), NEW e \in UriElements, NEW t
  PROVE  /\ DOMAIN Rewritten(c, e, t) = DOMAIN c
         /\ Rewritten(c, e, t)[e] # Absent /\ Of(Rewritten(c, e, t)[e]) = t
         /\ \A f \in DOMAIN c : f # e => Rewritten(c, e, t)[f] = c[f]
<1>1. e \in DOMAIN c
  BY DEF IsForm
<1>2. Rewritten(c, e, t) = [f \in DOMAIN c |-> IF f = e THEN <<t>> ELSE c[f]]
  BY <1>1 DEF Rewritten, Present
<1>3. <<t>> # <<>> /\ <<t>>[1] = t
  OBVIOUS
<1>4. QED
  BY <1>1, <1>2, <1>3 DEF Absent, Of

LEMMA RewrittenIsParts ==
  ASSUME NEW c, IsParts(c), NEW e \in UriElements, NEW t \in Texts, e = "display" => c.angled
  PROVE  IsParts(Rewritten(c, e, t))
<1> DEFINE r == Rewritten(c, e, t)
<1>1. IsForm(c) /\ {Of(c.display), Of(c.user), Of(c.host), Of(c.port), c.params, c.trailer} \subseteq Seq(Tokens)
  BY DEF IsParts
<1>2. IsHost(t) /\ IsName(t) /\ t \in Seq(Tokens)
  BY TextsFit
<1>3. /\ DOMAIN r = DOMAIN c /\ r[e] # Absent /\ Of(r[e]) = t
      /\ \A f \in DOMAIN c : f # e => r[f] = c[f]
  BY <1>1, RewrittenFields
<1> HIDE DEF r
<1>4. DOMAIN c = {"display", "user", "host", "port", "quoted", "angled", "params", "trailer"}
  BY <1>1 DEF IsForm, UriElements
<1>5. /\ r.quoted = c.quoted /\ r.angled = c.angled /\ r.params = c.params /\ r.trailer = c.trailer
  BY <1>3, <1>4 DEF UriElements
<1>6. /\ r.display = c.display \/ (e = "display" /\ r.display # Absent /\ Of(r.display) = t)
      /\ r.user = c.user \/ Of(r.user) = t
      /\ r.host = c.host \/ Of(r.host) = t
      /\ r.port = c.port \/ Of(r.port) = t
  BY <1>3, <1>4 DEF UriElements
<1>7. IsName(Of(r.display)) /\ IsHost(Of(r.host)) /\ IsHost(Of(r.port))
  BY <1>1, <1>2, <1>6 DEF IsForm
<1>8. Free(Of(r.user), {"<", ">", "@"})
  <2>1. Free(t, {"<", ">", "@"})
    BY <1>2 DEF IsHost, Free
  <2>2. Free(Of(c.user), {"<", ">", "@"})
    BY <1>1 DEF IsForm
  <2>3. QED
    BY <1>6, <2>1, <2>2
<1>9. /\ r.quoted \in BOOLEAN /\ r.angled \in BOOLEAN
      /\ Free(r.params, {"<", ">", "@"}) /\ (r.params # <<>> => r.params[1] \in {";", "?"})
      /\ Free(r.trailer, {})
  BY <1>1, <1>5 DEF IsForm
<1>10. (r.quoted => r.display # Absent) /\ (r.display # Absent => r.angled)
  <2>1. (c.quoted => c.display # Absent) /\ (c.display # Absent => c.angled)
    BY <1>1 DEF IsForm
  <2>2. QED
    BY <1>5, <1>6, <2>1
<1>11. DOMAIN r = UriElements \cup {"quoted", "angled", "params", "trailer"}
  BY <1>1, <1>3 DEF IsForm
<1>12. IsForm(r)
  BY <1>7, <1>8, <1>9, <1>10, <1>11 DEF IsForm
<1>13. {Of(r.display), Of(r.user), Of(r.host), Of(r.port), r.params, r.trailer} \subseteq Seq(Tokens)
  BY <1>1, <1>2, <1>5, <1>6
<1>14. QED
  BY <1>12, <1>13 DEF IsParts, r

LEMMA RewrittenSame ==
  ASSUME NEW c, IsForm(c), NEW e \in UriElements, NEW t, NEW r, r = Rewritten(c, e, t)
  PROVE  /\ r.quoted = c.quoted /\ r.angled = c.angled /\ r.params = c.params /\ r.trailer = c.trailer
         /\ e # "display" => r.display = c.display
         /\ e # "user" => r.user = c.user
         /\ e # "host" => r.host = c.host
         /\ e # "port" => r.port = c.port
         /\ r[e] # Absent /\ Of(r[e]) = t
<1>1. /\ r[e] # Absent /\ Of(r[e]) = t
      /\ \A f \in DOMAIN c : f # e => r[f] = c[f]
  BY RewrittenFields
<1>2. DOMAIN c = {"display", "user", "host", "port", "quoted", "angled", "params", "trailer"}
  BY DEF IsForm, UriElements
<1>3. QED
  BY <1>1, <1>2 DEF UriElements

\* What the cases below start from.
Rewriting(v, c, lead, trail, w, p, e, t, r) ==
  /\ Cut(v, c, lead, trail, w, p) /\ IsParts(c) /\ e \in UriElements /\ t \in Texts
  /\ (e = "display" => c.angled) /\ r = Rewritten(c, e, t)

LEMMA RewritingFacts ==
  ASSUME NEW v, NEW c, NEW lead, NEW trail, NEW w, NEW p, NEW e, NEW t, NEW r,
         Rewriting(v, c, lead, trail, w, p, e, t, r)
  PROVE  /\ IsParts(r) /\ t \in Seq(Tokens) /\ Around(r, lead, trail)
         /\ e # "display" => Margins(r, lead, trail)
         /\ RebuildUri(v, e, t) = IF SpansOf(c, p)[e] # Absent THEN Splice(v, SpansOf(c, p)[e], t)
                                  ELSE Insert(v, SpansOf(c, p), e, t)
<1>1. /\ Cut(v, c, lead, trail, w, p) /\ IsParts(c) /\ e \in UriElements /\ t \in Texts
      /\ (e = "display" => c.angled) /\ r = Rewritten(c, e, t) /\ IsForm(c)
  BY DEF Rewriting, IsParts
<1>2. IsParts(r)
  BY <1>1, RewrittenIsParts
<1>3. t \in Seq(Tokens)
  BY <1>1, TextsFit
<1>4. r.quoted = c.quoted /\ r.angled = c.angled /\ (e # "display" => r.display = c.display)
  BY <1>1, RewrittenSame
<1>5. Around(r, lead, trail) /\ (e # "display" => Margins(r, lead, trail))
  <2>1. Margins(c, lead, trail)
    BY <1>1 DEF Cut
  <2>2. QED
    BY <1>4, <2>1 DEF Margins, Around
<1>6. RebuildUri(v, e, t) = IF SpansOf(c, p)[e] # Absent THEN Splice(v, SpansOf(c, p)[e], t)
                            ELSE Insert(v, SpansOf(c, p), e, t)
  <2>1. ParseUri(v) = SpansOf(c, p)
    BY <1>1, ParsesPieces
  <2>2. e # "whole"
    BY <1>1 DEF UriElements
  <2>3. QED
    BY <2>1, <2>2 DEF RebuildUri, Rebuilt
<1>7. QED
  BY <1>2, <1>3, <1>5, <1>6

LEMMA HostRewritten ==
  ASSUME NEW v, NEW c, NEW lead, NEW trail, NEW w, NEW p, NEW t, NEW r,
         Rewriting(v, c, lead, trail, w, p, "host", t, r)
  PROVE  Shaped(RebuildUri(v, "host", t), r, lead, trail)
<1>1. /\ Cut(v, c, lead, trail, w, p) /\ IsForm(c) /\ ArePieces(w, c, lead, trail)
  BY DEF Rewriting, IsParts, Cut
<1>2. IsParts(r) /\ t \in Seq(Tokens) /\ Margins(r, lead, trail)
  BY RewritingFacts
<1>3. RebuildUri(v, "host", t) = Splice(v, Span(p, 8), t)
  <2>1. SpansOf(c, p)["host"] = Span(p, 8)
    BY DEF SpansOf, Span
  <2>2. Span(p, 8) # Absent
    BY DEF Absent, Span
  <2>3. QED
    BY <2>1, <2>2, RewritingFacts
<1> DEFINE n == Put(w, 8, t)
<1>4. /\ Splice(v, Span(p, 8), t) = FlattenSeq(n)
      /\ n \in Seq(Seq(Tokens)) /\ Len(n) = 12 /\ n[8] = t
      /\ \A k \in 1 .. 12 : k # 8 => n[k] = w[k]
  <2>1. 8 \in 1 .. 12
    OBVIOUS
  <2>2. QED
    BY <1>1, <1>2, <2>1, CutSplice
<1> HIDE DEF n
<1>5. ArePieces(n, r, lead, trail)
  <2>1. /\ r.angled = c.angled /\ r.params = c.params /\ r.trailer = c.trailer
        /\ r.display = c.display /\ r.user = c.user /\ r.port = c.port /\ Of(r.host) = t
    BY <1>1, RewrittenSame DEF Rewriting
  <2>2. /\ n[1] = w[1] /\ n[2] = w[2] /\ n[3] = w[3] /\ n[4] = w[4] /\ n[5] = w[5] /\ n[6] = w[6]
        /\ n[7] = w[7] /\ n[9] = w[9] /\ n[10] = w[10] /\ n[11] = w[11] /\ n[12] = w[12]
    BY <1>4
  <2>3. QED
    BY <1>1, <1>4, <2>1, <2>2 DEF ArePieces
<1>6. QED
  BY <1>2, <1>3, <1>4, <1>5, PiecesAreShaped

LEMMA UserRewritten ==
  ASSUME NEW v, NEW c, NEW lead, NEW trail, NEW w, NEW p, NEW t, NEW r,
         Rewriting(v, c, lead, trail, w, p, "user", t, r), c.user # Absent
  PROVE  Shaped(RebuildUri(v, "user", t), r, lead, trail)
<1>1. /\ Cut(v, c, lead, trail, w, p) /\ IsForm(c) /\ ArePieces(w, c, lead, trail)
  BY DEF Rewriting, IsParts, Cut
<1>2. IsParts(r) /\ t \in Seq(Tokens) /\ Margins(r, lead, trail)
  BY RewritingFacts
<1>3. RebuildUri(v, "user", t) = Splice(v, Span(p, 6), t)
  <2>1. SpansOf(c, p)["user"] = Span(p, 6)
    BY DEF SpansOf, Span
  <2>2. Span(p, 6) # Absent
    BY DEF Absent, Span
  <2>3. QED
    BY <2>1, <2>2, RewritingFacts
<1> DEFINE n == Put(w, 6, t)
<1>4. /\ Splice(v, Span(p, 6), t) = FlattenSeq(n)
      /\ n \in Seq(Seq(Tokens)) /\ Len(n) = 12 /\ n[6] = t
      /\ \A k \in 1 .. 12 : k # 6 => n[k] = w[k]
  <2>1. 6 \in 1 .. 12
    OBVIOUS
  <2>2. QED
    BY <1>1, <1>2, <2>1, CutSplice
<1> HIDE DEF n
<1>5. ArePieces(n, r, lead, trail)
  <2>1. /\ r.angled = c.angled /\ r.params = c.params /\ r.trailer = c.trailer
        /\ r.display = c.display /\ r.host = c.host /\ r.port = c.port /\ r.user # Absent /\ Of(r.user) = t
    BY <1>1, RewrittenSame DEF Rewriting
  <2>2. /\ n[1] = w[1] /\ n[2] = w[2] /\ n[3] = w[3] /\ n[4] = w[4] /\ n[5] = w[5] /\ n[7] = w[7]
        /\ n[8] = w[8] /\ n[9] = w[9] /\ n[10] = w[10] /\ n[11] = w[11] /\ n[12] = w[12]
    BY <1>4
  <2>3. QED
    BY <1>1, <1>4, <2>1, <2>2 DEF ArePieces
<1>6. QED
  BY <1>2, <1>3, <1>4, <1>5, PiecesAreShaped

LEMMA PortRewritten ==
  ASSUME NEW v, NEW c, NEW lead, NEW trail, NEW w, NEW p, NEW t, NEW r,
         Rewriting(v, c, lead, trail, w, p, "port", t, r), c.port # Absent
  PROVE  Shaped(RebuildUri(v, "port", t), r, lead, trail)
<1>1. /\ Cut(v, c, lead, trail, w, p) /\ IsForm(c) /\ ArePieces(w, c, lead, trail)
  BY DEF Rewriting, IsParts, Cut
<1>2. IsParts(r) /\ t \in Seq(Tokens) /\ Margins(r, lead, trail)
  BY RewritingFacts
<1>3. RebuildUri(v, "port", t) = Splice(v, Span(p, 10), t)
  <2>1. SpansOf(c, p)["port"] = Span(p, 10)
    BY DEF SpansOf, Span
  <2>2. Span(p, 10) # Absent
    BY DEF Absent, Span
  <2>3. QED
    BY <2>1, <2>2, RewritingFacts
<1> DEFINE n == Put(w, 10, t)
<1>4. /\ Splice(v, Span(p, 10), t) = FlattenSeq(n)
      /\ n \in Seq(Seq(Tokens)) /\ Len(n) = 12 /\ n[10] = t
      /\ \A k \in 1 .. 12 : k # 10 => n[k] = w[k]
  <2>1. 10 \in 1 .. 12
    OBVIOUS
  <2>2. QED
    BY <1>1, <1>2, <2>1, CutSplice
<1> HIDE DEF n
<1>5. ArePieces(n, r, lead, trail)
  <2>1. /\ r.angled = c.angled /\ r.params = c.params /\ r.trailer = c.trailer
        /\ r.display = c.display /\ r.host = c.host /\ r.user = c.user /\ r.port # Absent /\ Of(r.port) = t
    BY <1>1, RewrittenSame DEF Rewriting
  <2>2. /\ n[1] = w[1] /\ n[2] = w[2] /\ n[3] = w[3] /\ n[4] = w[4] /\ n[5] = w[5] /\ n[6] = w[6]
        /\ n[7] = w[7] /\ n[8] = w[8] /\ n[9] = w[9] /\ n[11] = w[11] /\ n[12] = w[12]
    BY <1>4
  <2>3. QED
    BY <1>1, <1>4, <2>1, <2>2 DEF ArePieces
<1>6. QED
  BY <1>2, <1>3, <1>4, <1>5, PiecesAreShaped

LEMMA NameRewritten ==
  ASSUME NEW v, NEW c, NEW lead, NEW trail, NEW w, NEW p, NEW t, NEW r,
         Rewriting(v, c, lead, trail, w, p, "display", t, r)
  PROVE  \E l, m : Shaped(RebuildUri(v, "display", t), r, l, m)
<1>1. /\ Cut(v, c, lead, trail, w, p) /\ IsForm(c) /\ ArePieces(w, c, lead, trail) /\ c.angled
  BY DEF Rewriting, IsParts, Cut
<1>2. IsParts(r) /\ t \in Seq(Tokens) /\ Around(r, lead, trail)
  BY RewritingFacts
<1>3. RebuildUri(v, "display", t) = Splice(v, Span(p, 2), t)
  <2>1. SpansOf(c, p)["display"] = Span(p, 2)
    BY <1>1 DEF SpansOf, Span
  <2>2. Span(p, 2) # Absent
    BY DEF Absent, Span
  <2>3. QED
    BY <2>1, <2>2, RewritingFacts
<1> DEFINE n == Put(w, 2, t)
<1>4. /\ Splice(v, Span(p, 2), t) = FlattenSeq(n)
      /\ n \in Seq(Seq(Tokens)) /\ Len(n) = 12 /\ n[2] = t
      /\ \A k \in 1 .. 12 : k # 2 => n[k] = w[k]
  <2>1. 2 \in 1 .. 12
    OBVIOUS
  <2>2. QED
    BY <1>1, <1>2, <2>1, CutSplice
<1> HIDE DEF n
<1>5. ArePieces(n, r, lead, trail)
  <2>1. /\ r.angled = c.angled /\ r.params = c.params /\ r.trailer = c.trailer
        /\ r.user = c.user /\ r.host = c.host /\ r.port = c.port /\ Of(r.display) = t
    <3> DEFINE e == "display"
    <3>1. e \in UriElements /\ r = Rewritten(c, e, t) /\ e # "user" /\ e # "host" /\ e # "port"
      BY DEF Rewriting
    <3> HIDE DEF e
    <3>a. IsForm(c)
      BY <1>1
    <3>b. /\ r.quoted = c.quoted /\ r.angled = c.angled /\ r.params = c.params /\ r.trailer = c.trailer
          /\ e # "display" => r.display = c.display
          /\ e # "user" => r.user = c.user
          /\ e # "host" => r.host = c.host
          /\ e # "port" => r.port = c.port
          /\ r[e] # Absent /\ Of(r[e]) = t
      BY <3>1, <3>a, RewrittenSame
    <3>2. /\ r.angled = c.angled /\ r.params = c.params /\ r.trailer = c.trailer
          /\ r.user = c.user /\ r.host = c.host /\ r.port = c.port /\ Of(r[e]) = t
      BY <3>1, <3>b
    <3>3. QED
      BY <3>2 DEF e
  <2>2. /\ n[1] = w[1] /\ n[3] = w[3] /\ n[4] = w[4] /\ n[5] = w[5] /\ n[6] = w[6] /\ n[7] = w[7]
        /\ n[8] = w[8] /\ n[9] = w[9] /\ n[10] = w[10] /\ n[11] = w[11] /\ n[12] = w[12]
    BY <1>4
  <2>3. QED
    BY <1>1, <1>4, <2>1, <2>2 DEF ArePieces
<1>6. QED
  BY <1>2, <1>3, <1>4, <1>5, Normalised

LEMMA UserInserted ==
  ASSUME NEW v, NEW c, NEW lead, NEW trail, NEW w, NEW p, NEW t, NEW r,
         Rewriting(v, c, lead, trail, w, p, "user", t, r), c.user = Absent
  PROVE  Shaped(RebuildUri(v, "user", t), r, lead, trail)
<1>1. /\ Cut(v, c, lead, trail, w, p) /\ IsForm(c) /\ ArePieces(w, c, lead, trail)
  BY DEF Rewriting, IsParts, Cut
<1>2. IsParts(r) /\ t \in Seq(Tokens) /\ Margins(r, lead, trail)
  BY RewritingFacts
<1> DEFINE x == Append(t, "@")
           n == Put(w, 6, x)
           y == Put(w, 6, t)
           u == Put(y, 7, <<"@">>)
<1>3. x \in Seq(Tokens) /\ x = t \o <<"@">> /\ t \in Seq(Tokens) /\ <<"@">> \in Seq(Tokens)
  <2>1. "@" \in Tokens
    BY DEF Tokens, Marks
  <2>2. QED
    BY <1>2, <2>1
<1>4. RebuildUri(v, "user", t) = Splice(v, Span(p, 6), x)
  <2>1. Starts(c, p) /\ InOrder(p)
    BY <1>1, StartsOf, StartsInOrder DEF Cut
  <2>2. p[8] = p[7] /\ p[7] = p[6] /\ p[6] \in Nat
    <3>1. c.user = Absent /\ p[6] \in Nat
      BY <2>1 DEF InOrder
    <3>2. QED
      BY <2>1, <3>1 DEF Starts
  <2>3. SpansOf(c, p)["user"] = Absent /\ SpansOf(c, p).host = <<p[8] + 1, p[9]>>
    BY DEF SpansOf
  <2>4. RebuildUri(v, "user", t) = Insert(v, SpansOf(c, p), "user", t)
    BY <2>3, RewritingFacts
  <2>5. Insert(v, SpansOf(c, p), "user", t) = Splice(v, <<p[8] + 1, (p[8] + 1) - 1>>, x)
    BY <2>3 DEF Insert
  <2>6. (p[8] + 1) - 1 = p[7] /\ p[8] + 1 = p[6] + 1
    BY <2>2
  <2>7. Span(p, 6) = <<p[8] + 1, (p[8] + 1) - 1>>
    BY <2>6 DEF Span
  <2>8. QED
    BY <2>4, <2>5, <2>7
<1> HIDE DEF x
<1>5. /\ Splice(v, Span(p, 6), x) = FlattenSeq(n)
      /\ n \in Seq(Seq(Tokens)) /\ Len(n) = 12 /\ n[6] = x
      /\ \A k \in 1 .. 12 : k # 6 => n[k] = w[k]
  <2>1. 6 \in 1 .. 12
    OBVIOUS
  <2>2. Cut(v, c, lead, trail, w, p) /\ x \in Seq(Tokens)
    BY <1>1, <1>3
  <2>3. QED
    BY <2>1, <2>2, CutSplice
<1>6. w \in Seq(Seq(Tokens)) /\ Len(w) = 12 /\ w[6] = <<>> /\ w[7] = <<>>
  BY <1>1 DEF ArePieces, Of, Absent
<1> DEFINE a == t
           b == <<"@">>
<1>7. a \in Seq(Tokens) /\ b \in Seq(Tokens) /\ x = a \o b
  BY <1>3
<1>8. y = Put(w, 6, a) /\ u = Put(y, 7, b)
  OBVIOUS
<1> HIDE DEF n, y, u, a, b
<1>9. /\ y \in Seq(Seq(Tokens)) /\ Len(y) = 12 /\ y[6] = a
      /\ \A k \in 1 .. 12 : k # 6 => y[k] = w[k]
  <2>1. 6 \in 1 .. Len(w) /\ a \in Seq(Tokens) /\ w \in Seq(Seq(Tokens)) /\ Len(w) = 12
    BY <1>6, <1>7
  <2>2. /\ Put(w, 6, a) \in Seq(Seq(Tokens)) /\ Len(Put(w, 6, a)) = Len(w) /\ Put(w, 6, a)[6] = a
        /\ \A k \in 1 .. Len(w) : k # 6 => Put(w, 6, a)[k] = w[k]
    BY <2>1, PiecePut
  <2>3. QED
    BY <1>8, <2>1, <2>2
<1>10. /\ u \in Seq(Seq(Tokens)) /\ Len(u) = 12 /\ u[7] = b
       /\ \A k \in 1 .. 12 : k # 7 => u[k] = y[k]
  <2>1. 7 \in 1 .. Len(y) /\ b \in Seq(Tokens) /\ y \in Seq(Seq(Tokens)) /\ Len(y) = 12
    BY <1>7, <1>9
  <2>2. /\ Put(y, 7, b) \in Seq(Seq(Tokens)) /\ Len(Put(y, 7, b)) = Len(y) /\ Put(y, 7, b)[7] = b
        /\ \A k \in 1 .. Len(y) : k # 7 => Put(y, 7, b)[k] = y[k]
    BY <2>1, PiecePut
  <2>3. QED
    BY <1>8, <2>1, <2>2
<1>11. u[6] = a /\ \A k \in 1 .. 12 : k # 6 /\ k # 7 => u[k] = w[k]
  BY <1>9, <1>10
<1>12. FlattenSeq(u) = FlattenSeq(n)
  <2>1. x \o <<>> = x
    BY <1>3
  <2>2. 6 + 1 = 7 /\ 6 \in 1 .. 12 - 1 /\ 7 \in 1 .. 12 /\ 7 # 6
    OBVIOUS
  <2>3. n[7] = <<>>
    BY <1>5, <1>6, <2>2
  <2>4. u[6] \o u[6 + 1] = n[6] \o n[6 + 1]
    BY <1>5, <1>7, <1>10, <1>11, <2>1, <2>2, <2>3
  <2>5. \A k \in 1 .. 12 : k # 6 /\ k # 6 + 1 => u[k] = n[k]
    BY <1>5, <1>11, <2>2
  <2>6. 6 \in 1 .. Len(n) - 1 /\ Len(u) = Len(n)
    BY <1>5, <1>10, <2>2
  <2>7. Merges(Tokens, n, u, 6)
    <3>1. \A k \in 1 .. Len(n) : k # 6 /\ k # 6 + 1 => u[k] = n[k]
      BY <1>5, <2>5
    <3>2. n \in Seq(Seq(Tokens)) /\ u \in Seq(Seq(Tokens))
      BY <1>5, <1>10
    <3>3. QED
      BY <2>4, <2>6, <3>1, <3>2 DEF Merges
  <2>8. QED
    BY <2>7, FlattenMerge
<1>13. ArePieces(u, r, lead, trail)
  <2>1. /\ r.angled = c.angled /\ r.params = c.params /\ r.trailer = c.trailer
        /\ r.display = c.display /\ r.host = c.host /\ r.port = c.port /\ r.user # Absent /\ Of(r.user) = t
    BY <1>1, RewrittenSame DEF Rewriting
  <2>2. /\ u[1] = w[1] /\ u[2] = w[2] /\ u[3] = w[3] /\ u[4] = w[4] /\ u[5] = w[5]
        /\ u[8] = w[8] /\ u[9] = w[9] /\ u[10] = w[10] /\ u[11] = w[11] /\ u[12] = w[12]
    BY <1>11
  <2>3. QED
    BY <1>1, <1>10, <1>11, <2>1, <2>2 DEF ArePieces, a, b
<1>14. Shaped(FlattenSeq(u), r, lead, trail)
  BY <1>2, <1>13, PiecesAreShaped
<1>15. QED
  BY <1>4, <1>5, <1>12, <1>14

LEMMA PortInserted ==
  ASSUME NEW v, NEW c, NEW lead, NEW trail, NEW w, NEW p, NEW t, NEW r,
         Rewriting(v, c, lead, trail, w, p, "port", t, r), c.port = Absent
  PROVE  Shaped(RebuildUri(v, "port", t), r, lead, trail)
<1>1. /\ Cut(v, c, lead, trail, w, p) /\ IsForm(c) /\ ArePieces(w, c, lead, trail)
  BY DEF Rewriting, IsParts, Cut
<1>2. IsParts(r) /\ t \in Seq(Tokens) /\ Margins(r, lead, trail)
  BY RewritingFacts
<1> DEFINE x == <<":">> \o t
           n == Put(w, 9, x)
           y == Put(w, 9, <<":">>)
           u == Put(y, 10, t)
<1>3. x \in Seq(Tokens) /\ x = <<":">> \o t /\ <<":">> \in Seq(Tokens) /\ t \in Seq(Tokens)
  <2>1. ":" \in Tokens
    BY DEF Tokens, Marks
  <2>2. QED
    BY <1>2, <2>1
<1>4. RebuildUri(v, "port", t) = Splice(v, Span(p, 9), x)
  <2>1. Starts(c, p) /\ InOrder(p)
    BY <1>1, StartsOf, StartsInOrder DEF Cut
  <2>2. p[10] = p[9] /\ p[9] \in Nat
    <3>1. c.port = Absent /\ p[9] \in Nat
      BY <2>1 DEF InOrder
    <3>2. QED
      BY <2>1, <3>1 DEF Starts
  <2>3. SpansOf(c, p)["port"] = Absent /\ SpansOf(c, p).host = <<p[8] + 1, p[9]>>
    BY DEF SpansOf
  <2>4. RebuildUri(v, "port", t) = Insert(v, SpansOf(c, p), "port", t)
    BY <2>3, RewritingFacts
  <2>5. Insert(v, SpansOf(c, p), "port", t) = Splice(v, <<p[9] + 1, p[9]>>, x)
    BY <2>3 DEF Insert
  <2>7. Span(p, 9) = <<p[9] + 1, p[9]>>
    BY <2>2 DEF Span
  <2>8. QED
    BY <2>4, <2>5, <2>7
<1> HIDE DEF x
<1>5. /\ Splice(v, Span(p, 9), x) = FlattenSeq(n)
      /\ n \in Seq(Seq(Tokens)) /\ Len(n) = 12 /\ n[9] = x
      /\ \A k \in 1 .. 12 : k # 9 => n[k] = w[k]
  <2>1. 9 \in 1 .. 12
    OBVIOUS
  <2>2. Cut(v, c, lead, trail, w, p) /\ x \in Seq(Tokens)
    BY <1>1, <1>3
  <2>3. QED
    BY <2>1, <2>2, CutSplice
<1>6. w \in Seq(Seq(Tokens)) /\ Len(w) = 12 /\ w[9] = <<>> /\ w[10] = <<>>
  BY <1>1 DEF ArePieces, Of, Absent
<1> DEFINE a == <<":">>
           b == t
<1>7. a \in Seq(Tokens) /\ b \in Seq(Tokens) /\ x = a \o b
  BY <1>3
<1>8. y = Put(w, 9, a) /\ u = Put(y, 10, b)
  OBVIOUS
<1> HIDE DEF n, y, u, a, b
<1>9. /\ y \in Seq(Seq(Tokens)) /\ Len(y) = 12 /\ y[9] = a
      /\ \A k \in 1 .. 12 : k # 9 => y[k] = w[k]
  <2>1. 9 \in 1 .. Len(w) /\ a \in Seq(Tokens) /\ w \in Seq(Seq(Tokens)) /\ Len(w) = 12
    BY <1>6, <1>7
  <2>2. /\ Put(w, 9, a) \in Seq(Seq(Tokens)) /\ Len(Put(w, 9, a)) = Len(w) /\ Put(w, 9, a)[9] = a
        /\ \A k \in 1 .. Len(w) : k # 9 => Put(w, 9, a)[k] = w[k]
    BY <2>1, PiecePut
  <2>3. QED
    BY <1>8, <2>1, <2>2
<1>10. /\ u \in Seq(Seq(Tokens)) /\ Len(u) = 12 /\ u[10] = b
       /\ \A k \in 1 .. 12 : k # 10 => u[k] = y[k]
  <2>1. 10 \in 1 .. Len(y) /\ b \in Seq(Tokens) /\ y \in Seq(Seq(Tokens)) /\ Len(y) = 12
    BY <1>7, <1>9
  <2>2. /\ Put(y, 10, b) \in Seq(Seq(Tokens)) /\ Len(Put(y, 10, b)) = Len(y) /\ Put(y, 10, b)[10] = b
        /\ \A k \in 1 .. Len(y) : k # 10 => Put(y, 10, b)[k] = y[k]
    BY <2>1, PiecePut
  <2>3. QED
    BY <1>8, <2>1, <2>2
<1>11. u[9] = a /\ \A k \in 1 .. 12 : k # 9 /\ k # 10 => u[k] = w[k]
  BY <1>9, <1>10
<1>12. FlattenSeq(u) = FlattenSeq(n)
  <2>1. x \o <<>> = x
    BY <1>3
  <2>2. 9 + 1 = 10 /\ 9 \in 1 .. 12 - 1 /\ 10 \in 1 .. 12 /\ 10 # 9
    OBVIOUS
  <2>3. n[10] = <<>>
    BY <1>5, <1>6, <2>2
  <2>4. u[9] \o u[9 + 1] = n[9] \o n[9 + 1]
    BY <1>5, <1>7, <1>10, <1>11, <2>1, <2>2, <2>3
  <2>5. \A k \in 1 .. 12 : k # 9 /\ k # 9 + 1 => u[k] = n[k]
    BY <1>5, <1>11, <2>2
  <2>6. 9 \in 1 .. Len(n) - 1 /\ Len(u) = Len(n)
    BY <1>5, <1>10, <2>2
  <2>7. Merges(Tokens, n, u, 9)
    <3>1. \A k \in 1 .. Len(n) : k # 9 /\ k # 9 + 1 => u[k] = n[k]
      BY <1>5, <2>5
    <3>2. n \in Seq(Seq(Tokens)) /\ u \in Seq(Seq(Tokens))
      BY <1>5, <1>10
    <3>3. QED
      BY <2>4, <2>6, <3>1, <3>2 DEF Merges
  <2>8. QED
    BY <2>7, FlattenMerge
<1>13. ArePieces(u, r, lead, trail)
  <2>1. /\ r.angled = c.angled /\ r.params = c.params /\ r.trailer = c.trailer
        /\ r.display = c.display /\ r.host = c.host /\ r.user = c.user /\ r.port # Absent /\ Of(r.port) = t
    BY <1>1, RewrittenSame DEF Rewriting
  <2>2. /\ u[1] = w[1] /\ u[2] = w[2] /\ u[3] = w[3] /\ u[4] = w[4] /\ u[5] = w[5]
        /\ u[6] = w[6] /\ u[7] = w[7] /\ u[8] = w[8] /\ u[11] = w[11] /\ u[12] = w[12]
    BY <1>11
  <2>3. QED
    BY <1>1, <1>10, <1>11, <2>1, <2>2 DEF ArePieces, a, b
<1>14. Shaped(FlattenSeq(u), r, lead, trail)
  BY <1>2, <1>13, PiecesAreShaped
<1>15. QED
  BY <1>4, <1>5, <1>12, <1>14

\* Every rewrite leaves a value of the shape its components have.
LEMMA RewriteKeepsShape ==
  ASSUME NEW v, NEW c, NEW lead, NEW trail, Shaped(v, c, lead, trail),
         NEW e \in UriElements, NEW t \in Texts, e = "display" => c.angled
  PROVE  \E l, m : Shaped(RebuildUri(v, e, t), Rewritten(c, e, t), l, m)
<1> DEFINE w == Pieces(c, lead, trail)
           r == Rewritten(c, e, t)
<1>1. PICK p : Cut(v, c, lead, trail, w, p)
  BY ShapedIsCut
<1>2. IsParts(c)
  BY DEF Shaped
<1> HIDE DEF w
<1>3. Rewriting(v, c, lead, trail, w, p, e, t, r)
  BY <1>1, <1>2 DEF Rewriting
<1> HIDE DEF r
<1>4. CASE e = "display"
  BY <1>3, <1>4, NameRewritten DEF r
<1>5. CASE e = "host"
  BY <1>3, <1>5, HostRewritten DEF r
<1>6. CASE e = "user"
  BY <1>3, <1>6, UserRewritten, UserInserted DEF r
<1>7. CASE e = "port"
  BY <1>3, <1>7, PortRewritten, PortInserted DEF r
<1>8. QED
  BY <1>4, <1>5, <1>6, <1>7 DEF UriElements

-----------------------------------------------------------------------------
(* What holds of every value that is reached *)

\* The value is made of its components, in the shape of uri.hpp:6-8, with
\* something that parse_uri trims around the display name.
UriInv == \E lead, trail : Shaped(value, parts, lead, trail)

LEMMA ComposedIsAround ==
  ASSUME NEW c, IsForm(c)
  PROVE  Around(c, Lead(c), Trail(c))
<1>1. Quote \in Tokens /\ Blank \in Tokens
  BY DEF Tokens, Marks
<1>2. (c.quoted => c.display # Absent) /\ (c.display # Absent => c.angled) /\ c.quoted \in BOOLEAN
  BY DEF IsForm
<1>3. CASE c.quoted
  <2>1. Lead(c) = <<Quote>> /\ Trail(c) = <<Quote, Blank>>
    BY <1>3 DEF Lead, Trail
  <2>2. QED
    BY <1>1, <1>2, <1>3, <2>1 DEF Around
<1>4. CASE ~c.quoted /\ c.display # Absent
  <2>1. Lead(c) = <<>> /\ Trail(c) = <<Blank>>
    BY <1>4 DEF Lead, Trail
  <2>2. Lead(c) \in Seq(Tokens) /\ Trail(c) \in Seq(Tokens)
    BY <1>1, <2>1
  <2>3. /\ \A i \in 1 .. Len(Lead(c)) : Lead(c)[i] = Blank
        /\ \A i \in 1 .. Len(Trail(c)) : Trail(c)[i] = Blank
    BY <2>1
  <2>4. QED
    BY <1>2, <1>4, <2>2, <2>3 DEF Around
<1>5. CASE ~c.quoted /\ c.display = Absent
  <2>1. Lead(c) = <<>> /\ Trail(c) = <<>>
    BY <1>5 DEF Lead, Trail
  <2>2. Lead(c) \in Seq(Tokens) /\ Trail(c) \in Seq(Tokens)
    BY <2>1
  <2>3. /\ \A i \in 1 .. Len(Lead(c)) : Lead(c)[i] = Blank
        /\ \A i \in 1 .. Len(Trail(c)) : Trail(c)[i] = Blank
    BY <2>1
  <2>4. QED
    BY <1>5, <2>1, <2>2, <2>3 DEF Around
<1>6. QED
  BY <1>2, <1>3, <1>4, <1>5

\* Every value starts in this shape, and every rewrite keeps it.
LEMMA InvHolds == Spec => []UriInv
<1>1. Init => UriInv
  <2>1. SUFFICES ASSUME NEW c \in Forms, parts = c, value = Compose(c) PROVE UriInv
    BY DEF Init
  <2>2. IsParts(c) /\ IsForm(c)
    BY FormsFit DEF IsParts
  <2>3. Around(c, Lead(c), Trail(c)) /\ Lead(c) \in Seq(Tokens) /\ Trail(c) \in Seq(Tokens)
    BY <2>2, ComposedIsAround DEF Around
  <2>4. ArePieces(Pieces(c, Lead(c), Trail(c)), c, Lead(c), Trail(c))
    BY <2>2, <2>3, PiecesType
  <2>5. \E l, t : Shaped(FlattenSeq(Pieces(c, Lead(c), Trail(c))), c, l, t)
    BY <2>2, <2>3, <2>4, Normalised
  <2>6. QED
    BY <2>1, <2>5 DEF UriInv, Compose
<1>2. UriInv /\ [Next]_vars => UriInv'
  <2>1. SUFFICES ASSUME UriInv, [Next]_vars PROVE UriInv'
    OBVIOUS
  <2>2. CASE UNCHANGED vars
    BY <2>1, <2>2 DEF vars, UriInv
  <2>3. ASSUME NEW e \in UriElements, NEW t \in Texts, Rewrite(e, t) PROVE UriInv'
    <3>1. PICK lead, trail : Shaped(value, parts, lead, trail)
      BY <2>1 DEF UriInv
    <3>2. /\ e = "display" => parts.angled
          /\ value' = RebuildUri(value, e, t) /\ parts' = Rewritten(parts, e, t)
      BY <2>3 DEF Rewrite, Rewritten
    <3>3. \E l, m : Shaped(RebuildUri(value, e, t), Rewritten(parts, e, t), l, m)
      BY <3>1, <3>2, RewriteKeepsShape
    <3>4. QED
      BY <3>2, <3>3 DEF UriInv
  <2>4. QED
    BY <2>1, <2>2, <2>3 DEF Next
<1>3. QED
  BY <1>1, <1>2, PTL DEF Spec

\* After any number of rewrites of a value, parse_uri reads each of its
\* components as what it was before the first one, or as what rebuild_uri
\* wrote there last (uri.hpp:6-8).
THEOREM RewritesReadBack == Spec => []ReadsBack
<1>1. UriInv => ReadsBack
  <2>1. SUFFICES ASSUME UriInv, NEW e \in UriElements PROVE UriGet(value, e) = Of(parts[e])
    BY DEF ReadsBack
  <2>2. PICK lead, trail : Shaped(value, parts, lead, trail)
    BY <2>1 DEF UriInv
  <2> DEFINE w == Pieces(parts, lead, trail)
  <2>3. PICK p : Cut(value, parts, lead, trail, w, p)
    BY <2>2, ShapedIsCut
  <2> HIDE DEF w
  <2>4. QED
    BY <2>3, CutReadsBack
<1>2. Spec => []UriInv
  BY InvHolds
<1>3. QED
  BY <1>1, <1>2, PTL

-----------------------------------------------------------------------------
(* The value but for its quotes and blanks *)

\* What Visible leaves of a token.
Shown == [x \in Tokens |-> IF x \in {Quote, Blank} THEN <<>> ELSE <<x>>]

LEMMA VisibleIsThrough ==
  ASSUME NEW t \in Seq(Tokens)
  PROVE  Visible(t) = Through(t, Shown)
<1>1. DOMAIN t = 1 .. Len(t) /\ \A i \in 1 .. Len(t) : t[i] \in Tokens
  OBVIOUS
<1>2. [i \in DOMAIN t |-> IF t[i] \in {Quote, Blank} THEN <<>> ELSE <<t[i]>>] = [i \in DOMAIN t |-> Shown[t[i]]]
  BY <1>1 DEF Shown
<1>3. QED
  BY <1>2 DEF Visible, Through

LEMMA ShownType == Shown \in [Tokens -> Seq(Tokens)]
BY DEF Shown

LEMMA AroundIsUnseen ==
  ASSUME NEW c, NEW lead, NEW trail, Around(c, lead, trail), c.quoted \in BOOLEAN
  PROVE  Through(lead, Shown) = <<>> /\ Through(trail, Shown) = <<>>
<1>1. /\ lead \in Seq(Tokens) /\ trail \in Seq(Tokens)
      /\ \A i \in 1 .. Len(lead) : lead[i] \in {Quote, Blank}
      /\ \A i \in 1 .. Len(trail) : trail[i] \in {Quote, Blank}
  <2>1. lead \in Seq(Tokens) /\ trail \in Seq(Tokens)
    BY DEF Around
  <2>2. CASE c.quoted
    <3>1. lead = <<Quote>> /\ trail = <<Quote, Blank>>
      BY <2>2 DEF Around
    <3>2. QED
      BY <2>1, <3>1
  <2>3. CASE ~c.quoted
    BY <2>1, <2>3 DEF Around
  <2>4. QED
    BY <2>2, <2>3
<1>2. ASSUME NEW t \in Seq(Tokens), \A i \in 1 .. Len(t) : t[i] \in {Quote, Blank}
      PROVE  Through(t, Shown) = <<>>
  <2> DEFINE s == [i \in DOMAIN t |-> Shown[t[i]]]
  <2>1. s \in Seq(Seq(Tokens)) /\ Len(s) = Len(t)
    <3>1. s \in [1 .. Len(t) -> Seq(Tokens)] /\ Len(t) \in Nat
      BY ShownType
    <3> HIDE DEF s
    <3>2. QED
      BY <3>1, FunctionIsSeq
  <2>2. \A i \in 1 .. Len(s) : s[i] = <<>>
    BY <1>2, <2>1 DEF Shown
  <2> HIDE DEF s
  <2>3. FlattenSeq(s) = <<>>
    BY <2>1, <2>2, FlattenNothing
  <2>4. QED
    BY <2>3 DEF Through, s
<1>3. QED
  BY <1>1, <1>2

LEMMA SeenAlike ==
  ASSUME NEW v, NEW c, NEW lead, NEW trail, Shaped(v, c, lead, trail)
  PROVE  Visible(v) = Visible(Compose(c))
<1>1. /\ IsParts(c) /\ IsForm(c) /\ c.quoted \in BOOLEAN /\ Around(c, lead, trail)
      /\ v = FlattenSeq(Pieces(c, lead, trail)) /\ Compose(c) = FlattenSeq(Pieces(c, Lead(c), Trail(c)))
  BY DEF Shaped, IsParts, IsForm, Margins, Compose
<1>2. Around(c, Lead(c), Trail(c))
  BY <1>1, ComposedIsAround
<1>3. /\ Through(lead, Shown) = <<>> /\ Through(trail, Shown) = <<>>
      /\ Through(Lead(c), Shown) = <<>> /\ Through(Trail(c), Shown) = <<>>
  BY <1>1, <1>2, AroundIsUnseen
<1> DEFINE w == Pieces(c, lead, trail)
           u == Pieces(c, Lead(c), Trail(c))
           Each(q) == [i \in DOMAIN q |-> Through(q[i], Shown)]
<1>4. ArePieces(w, c, lead, trail) /\ ArePieces(u, c, Lead(c), Trail(c))
  BY <1>1, <1>2, PiecesType DEF Around
<1> HIDE DEF w, u
<1>5. w \in Seq(Seq(Tokens)) /\ u \in Seq(Seq(Tokens)) /\ Len(w) = 12 /\ Len(u) = 12
  BY <1>4 DEF ArePieces
<1>6. /\ Through(FlattenSeq(w), Shown) = FlattenSeq(Each(w))
      /\ Through(FlattenSeq(u), Shown) = FlattenSeq(Each(u))
  BY <1>5, ShownType, ThroughFlattened
<1>7. ASSUME NEW k \in 1 .. 12 PROVE Through(w[k], Shown) = Through(u[k], Shown)
  <2>1. k \in {1, 3} \/ k \in {2, 4, 5, 6, 7, 8, 9, 10, 11, 12}
    OBVIOUS
  <2>2. CASE k \in {1, 3}
    <3>1. w[1] = lead /\ w[3] = trail /\ u[1] = Lead(c) /\ u[3] = Trail(c)
      BY <1>4 DEF ArePieces
    <3>2. QED
      BY <1>3, <2>2, <3>1
  <2>3. CASE k \in {2, 4, 5, 6, 7, 8, 9, 10, 11, 12}
    <3>1. w[k] = u[k]
      BY <1>4, <2>3 DEF ArePieces
    <3>2. QED
      BY <3>1
  <2>4. QED
    BY <2>1, <2>2, <2>3
<1>8. Each(w) = Each(u)
  <2>1. DOMAIN w = 1 .. 12 /\ DOMAIN u = 1 .. 12
    BY <1>5
  <2>2. QED
    BY <1>7, <2>1
<1>9. FlattenSeq(w) \in Seq(Tokens) /\ FlattenSeq(u) \in Seq(Tokens)
  BY <1>5, FlattenType
<1> HIDE DEF Each
<1>10. Visible(FlattenSeq(w)) = Visible(FlattenSeq(u))
  BY <1>6, <1>8, <1>9, VisibleIsThrough
<1>11. v = FlattenSeq(w) /\ Compose(c) = FlattenSeq(u)
  BY <1>1 DEF w, u
<1>12. QED
  BY <1>10, <1>11

\* rebuild_uri preserves all that surrounds the component it writes, and
\* inserts an absent one in its place (uri.hpp:35-36): but for quotes and
\* blanks the value stays what its components compose to.
THEOREM RewritesAreLocal == Spec => []RestIsVerbatim
<1>1. UriInv => RestIsVerbatim
  BY SeenAlike DEF UriInv, RestIsVerbatim
<1>2. Spec => []UriInv
  BY InvHolds
<1>3. QED
  BY <1>1, <1>2, PTL
=============================================================================
