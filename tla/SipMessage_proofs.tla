-------------------------- MODULE SipMessage_proofs --------------------------
(***************************************************************************)
(* Proofs about the message model.  The argument: every operation leaves   *)
(* the arena "grown" - it writes only above the cells it found in use -    *)
(* and every slice it stores lies below the mark it leaves.  So a slice    *)
(* shows the same text for as long as the packet lasts.                    *)
(***************************************************************************)
EXTENDS SipMessage, Induction

-----------------------------------------------------------------------------
(* The spans parse_uri returns are views of the value it was given: none   *)
(* reaches outside it, however the value is malformed.                     *)

\* A span of v: possibly empty, nowhere outside 1 .. Len(v).
IsSpan(v, s) ==
  /\ s \in Int \X Int
  /\ 1 <= s[1] /\ s[1] <= s[2] + 1 /\ s[2] <= Len(v)

LEMMA MinOfRange ==
  ASSUME NEW a \in Nat, NEW b \in Int, NEW I, I \subseteq a .. b, I # {}
  PROVE  Min(I) \in I /\ \A j \in I : Min(I) <= j
<1>1. I \subseteq Nat
  OBVIOUS
<1>2. QED
  BY <1>1, MinOfNats

LEMMA MaxOfRange ==
  ASSUME NEW a \in Nat, NEW b \in Int, NEW I, I \subseteq a .. b, I # {}
  PROVE  Max(I) \in I /\ \A j \in I : j <= Max(I)
<1>1. b \in Nat /\ I \subseteq 0 .. b
  <2>1. PICK i \in I : i \in a .. b
    OBVIOUS
  <2>2. b \in Nat
    BY <2>1
  <2>3. a .. b \subseteq 0 .. b
    OBVIOUS
  <2>4. QED
    BY <2>2, <2>3
<1>2. QED
  BY <1>1, MaxUpTo

LEMMA FirstRange ==
  ASSUME NEW v, NEW a \in Nat, NEW b \in Int, a <= b + 1, NEW S
  PROVE  First(v, a, b, S) \in a .. b + 1
<1> DEFINE I == {i \in a .. b : v[i] \in S}
<1>1. CASE I = {}
  <2>1. First(v, a, b, S) = b + 1
    BY <1>1 DEF First
  <2>2. QED
    BY <2>1
<1>2. CASE I # {}
  <2>1. Min(I) \in I
    <3>1. I \subseteq a .. b
      OBVIOUS
    <3> HIDE DEF I
    <3>2. QED
      BY <1>2, <3>1, MinOfRange
  <2>2. First(v, a, b, S) = Min(I)
    BY <1>2 DEF First
  <2>3. QED
    BY <2>1, <2>2
<1>3. QED
  BY <1>1, <1>2

LEMMA FinalRange ==
  ASSUME NEW v, NEW a \in Nat, NEW b \in Int, a <= b + 1, NEW S
  PROVE  Final(v, a, b, S) \in a - 1 .. b
<1> DEFINE I == {i \in a .. b : v[i] \in S}
<1>1. CASE I = {}
  <2>1. Final(v, a, b, S) = a - 1
    BY <1>1 DEF Final
  <2>2. QED
    BY <2>1
<1>2. CASE I # {}
  <2>1. Max(I) \in I
    <3>1. I \subseteq a .. b
      OBVIOUS
    <3> HIDE DEF I
    <3>2. QED
      BY <1>2, <3>1, MaxOfRange
  <2>2. Final(v, a, b, S) = Max(I)
    BY <1>2 DEF Final
  <2>3. QED
    BY <2>1, <2>2
<1>3. QED
  BY <1>1, <1>2

LEMMA TrimIsSpan ==
  ASSUME NEW v, Len(v) \in Nat, NEW b \in 0 .. Len(v)
  PROVE  IsSpan(v, Trim(v, 1, b))
<1> DEFINE I == {i \in 1 .. b : v[i] # Blank}
<1>1. CASE I = {}
  <2>1. Trim(v, 1, b) = <<b + 1, b>>
    BY <1>1 DEF Trim
  <2>2. QED
    BY <2>1 DEF IsSpan
<1>2. CASE I # {}
  <2>1. Min(I) \in I /\ Max(I) \in I /\ Min(I) <= Max(I)
    <3>1. I \subseteq 1 .. b /\ 1 \in Nat /\ b \in Int
      OBVIOUS
    <3> HIDE DEF I
    <3>2. Min(I) \in I /\ \A j \in I : Min(I) <= j
      BY <1>2, <3>1, MinOfRange
    <3>3. Max(I) \in I
      BY <1>2, <3>1, MaxOfRange
    <3>4. QED
      BY <3>2, <3>3
  <2>2. Trim(v, 1, b) = <<Min(I), Max(I)>>
    BY <1>2 DEF Trim
  <2>3. QED
    BY <2>1, <2>2 DEF IsSpan
<1>3. QED
  BY <1>1, <1>2

-----------------------------------------------------------------------------
(* The components *)

LEMMA AddrSpecIsSpan ==
  ASSUME NEW v, Len(v) \in Nat
  PROVE  IsSpan(v, AddrSpec(v))
<1> DEFINE lt == First(v, 1, Len(v), {"<"})
<1>1. lt \in 1 .. Len(v) + 1
  BY FirstRange
<1>2. CASE lt > Len(v)
  BY <1>2 DEF AddrSpec, IsSpan
<1>3. CASE ~(lt > Len(v))
  <2>1. First(v, lt + 1, Len(v), {">"}) \in lt + 1 .. Len(v) + 1
    BY <1>1, <1>3, FirstRange
  <2>2. AddrSpec(v) = <<lt + 1, First(v, lt + 1, Len(v), {">"}) - 1>>
    BY <1>3 DEF AddrSpec
  <2> HIDE DEF lt
  <2>3. QED
    BY <1>1, <2>1, <2>2 DEF IsSpan
<1>4. QED
  BY <1>2, <1>3

LEMMA AfterSchemeIsSpan ==
  ASSUME NEW v, Len(v) \in Nat, NEW s, IsSpan(v, s)
  PROVE  IsSpan(v, AfterScheme(v, s))
<1> DEFINE colon == First(v, s[1], s[2], {":"})
<1>1. s[1] \in Nat /\ s[2] \in Int /\ s[1] <= s[2] + 1
  BY DEF IsSpan
<1>2. colon \in s[1] .. s[2] + 1
  BY <1>1, FirstRange
<1>3. AfterScheme(v, s) = IF colon <= s[2] /\ SubSeq(v, s[1], colon - 1) = <<Scheme>>
                          THEN <<colon + 1, s[2]>> ELSE s
  BY DEF AfterScheme
<1> HIDE DEF colon
<1>4. colon <= s[2] => IsSpan(v, <<colon + 1, s[2]>>)
  BY <1>1, <1>2 DEF IsSpan
<1>5. QED
  BY <1>3, <1>4

LEMMA DisplayIsSpan ==
  ASSUME NEW v, Len(v) \in Nat, DisplayOf(v) # Absent
  PROVE  IsSpan(v, DisplayOf(v))
<1> DEFINE lt == First(v, 1, Len(v), {"<"})
           s == Trim(v, 1, lt - 1)
<1>1. lt \in 1 .. Len(v) + 1
  BY FirstRange
<1>2. lt <= Len(v) /\ DisplayOf(v) = Unquote(v, s)
  BY <1>1 DEF DisplayOf
<1>3. IsSpan(v, s)
  BY <1>1, <1>2, TrimIsSpan
<1> HIDE DEF s, lt
<1>4. IsSpan(v, Unquote(v, s))
  BY <1>3 DEF IsSpan, Unquote
<1>5. QED
  BY <1>2, <1>4

LEMMA UserIsSpan ==
  ASSUME NEW v, Len(v) \in Nat, NEW s, IsSpan(v, s), UserOf(v, s) # Absent
  PROVE  IsSpan(v, UserOf(v, s))
<1> DEFINE at == First(v, s[1], s[2], {"@"})
<1>1. s[1] \in Nat /\ s[2] \in Int /\ s[1] <= s[2] + 1
  BY DEF IsSpan
<1>2. at \in s[1] .. s[2] + 1
  BY <1>1, FirstRange
<1>3. at <= s[2] /\ UserOf(v, s) = <<s[1], at - 1>>
  BY <1>1, <1>2 DEF UserOf
<1> HIDE DEF at
<1>4. QED
  BY <1>1, <1>2, <1>3 DEF IsSpan

LEMMA HostPortIsSpan ==
  ASSUME NEW v, Len(v) \in Nat, NEW s, IsSpan(v, s)
  PROVE  IsSpan(v, HostPort(v, s))
<1> DEFINE at == First(v, s[1], s[2], {"@"})
           host == IF at > s[2] THEN s[1] ELSE at + 1
           end == First(v, host, s[2], {";", "?", ">"})
<1>1. s[1] \in Nat /\ s[2] \in Int /\ s[1] <= s[2] + 1
  BY DEF IsSpan
<1>2. at \in s[1] .. s[2] + 1
  BY <1>1, FirstRange
<1>3. HostPort(v, s) = <<host, end - 1>>
  BY DEF HostPort
<1> HIDE DEF at
<1>4. host \in Nat /\ 1 <= host /\ host <= s[2] + 1
  BY <1>1, <1>2 DEF IsSpan
<1> HIDE DEF host
<1>5. end \in host .. s[2] + 1
  BY <1>1, <1>4, FirstRange
<1> HIDE DEF end
<1>6. QED
  BY <1>1, <1>3, <1>4, <1>5 DEF IsSpan

LEMMA HostAndPortAreSpans ==
  ASSUME NEW v, Len(v) \in Nat, NEW hp, IsSpan(v, hp)
  PROVE  /\ IsSpan(v, HostOf(v, hp))
         /\ PortOf(v, hp) # Absent => IsSpan(v, PortOf(v, hp))
<1> DEFINE port == Final(v, hp[1], hp[2], {":"})
<1>1. hp[1] \in Nat /\ hp[2] \in Int /\ hp[1] <= hp[2] + 1
  BY DEF IsSpan
<1>2. port \in hp[1] - 1 .. hp[2]
  BY <1>1, FinalRange
<1>3. /\ HostOf(v, hp) = IF port < hp[1] THEN hp ELSE <<hp[1], port - 1>>
      /\ PortOf(v, hp) = IF port < hp[1] THEN Absent ELSE <<port + 1, hp[2]>>
  BY DEF HostOf, PortOf
<1> HIDE DEF port
<1>4. ~(port < hp[1]) => IsSpan(v, <<hp[1], port - 1>>) /\ IsSpan(v, <<port + 1, hp[2]>>)
  BY <1>1, <1>2 DEF IsSpan
<1>5. QED
  BY <1>3, <1>4

\* The string_views of a UriParts stay inside the value that was parsed
\* (uri.cpp, parse_uri): a component is absent or a span of the value.
THEOREM ComponentsAreSpans ==
  ASSUME NEW v, Len(v) \in Nat, NEW e \in UriElements
  PROVE  ParseUri(v)[e] # Absent => IsSpan(v, ParseUri(v)[e])
<1> DEFINE s == AfterScheme(v, AddrSpec(v))
           hp == HostPort(v, s)
<1>1. IsSpan(v, s)
  BY AddrSpecIsSpan, AfterSchemeIsSpan
<1>2. IsSpan(v, hp)
  BY <1>1, HostPortIsSpan
<1>3. /\ ParseUri(v).display = DisplayOf(v) /\ ParseUri(v).user = UserOf(v, s)
      /\ ParseUri(v).host = HostOf(v, hp) /\ ParseUri(v).port = PortOf(v, hp)
  BY DEF ParseUri
<1> HIDE DEF s, hp
<1>4. CASE e = "display"
  BY <1>3, <1>4, DisplayIsSpan
<1>5. CASE e = "user"
  BY <1>1, <1>3, <1>5, UserIsSpan
<1>6. CASE e = "host"
  BY <1>2, <1>3, <1>6, HostAndPortAreSpans
<1>7. CASE e = "port"
  BY <1>2, <1>3, <1>7, HostAndPortAreSpans
<1>8. QED
  BY <1>4, <1>5, <1>6, <1>7 DEF UriElements

LEMMA SpliceType ==
  ASSUME NEW S, NEW v \in Seq(S), NEW nv \in Seq(S), NEW s, IsSpan(v, s)
  PROVE  Splice(v, s, nv) \in Seq(S)
<1>1. /\ s[1] \in Int /\ s[2] \in Int /\ Len(v) \in Nat
      /\ 1 <= s[1] /\ s[1] <= s[2] + 1 /\ s[2] <= Len(v)
  BY DEF IsSpan
<1>2. SubSeq(v, 1, s[1] - 1) \in Seq(S)
  BY <1>1
<1>3. SubSeq(v, s[2] + 1, Len(v)) \in Seq(S)
  BY <1>1
<1>4. QED
  BY <1>2, <1>3 DEF Splice

\* A rebuilt URI is a text, whatever the value it was built from.
LEMMA RebuildType ==
  ASSUME NEW S, "@" \in S, ":" \in S, Blank \in S,
         NEW v \in Seq(S), NEW e \in UriElements \cup {"whole"}, NEW nv \in Seq(S)
  PROVE  RebuildUri(v, e, nv) \in Seq(S)
<1> DEFINE u == ParseUri(v)
<1>1. Len(v) \in Nat
  OBVIOUS
<1>2. RebuildUri(v, e, nv) = Rebuilt(v, u, e, nv)
  BY DEF RebuildUri
<1>3. CASE e = "whole"
  BY <1>2, <1>3 DEF Rebuilt
<1>4. CASE e \in UriElements /\ u[e] # Absent
  <2>1. IsSpan(v, u[e])
    BY <1>1, <1>4, ComponentsAreSpans
  <2>2. Rebuilt(v, u, e, nv) = Splice(v, u[e], nv)
    BY <1>4 DEF Rebuilt, UriElements
  <2>3. QED
    BY <1>2, <2>1, <2>2, SpliceType
<1>5. CASE e \in UriElements /\ u[e] = Absent
  <2>1. e # "host" /\ IsSpan(v, u.host)
    <3> DEFINE hp == HostPort(v, AfterScheme(v, AddrSpec(v)))
    <3>1. IsSpan(v, hp)
      BY <1>1, AddrSpecIsSpan, AfterSchemeIsSpan, HostPortIsSpan
    <3>2. u.host = HostOf(v, hp)
      BY DEF ParseUri
    <3>3. IsSpan(v, u.host)
      BY <1>1, <3>1, <3>2, HostAndPortAreSpans
    <3>4. u.host # Absent
      BY <3>3 DEF IsSpan, Absent
    <3>5. QED
      BY <1>5, <3>3, <3>4
  <2> HIDE DEF u
  <2>2. Rebuilt(v, u, e, nv) = Insert(v, u, e, nv)
    BY <1>5 DEF Rebuilt, UriElements
  <2>3. CASE e = "user"
    <3>1. IsSpan(v, <<u.host[1], u.host[1] - 1>>)
      BY <2>1, <1>1 DEF IsSpan
    <3>2. Append(nv, "@") \in Seq(S)
      OBVIOUS
    <3>3. Insert(v, u, e, nv) = Splice(v, <<u.host[1], u.host[1] - 1>>, Append(nv, "@"))
      BY <2>3 DEF Insert
    <3>4. QED
      BY <1>2, <2>2, <3>1, <3>2, <3>3, SpliceType
  <2>4. CASE e = "port"
    <3>1. IsSpan(v, <<u.host[2] + 1, u.host[2]>>)
      BY <2>1, <1>1 DEF IsSpan
    <3>2. <<":">> \o nv \in Seq(S)
      OBVIOUS
    <3>3. Insert(v, u, e, nv) = Splice(v, <<u.host[2] + 1, u.host[2]>>, <<":">> \o nv)
      BY <2>4 DEF Insert
    <3>4. QED
      BY <1>2, <2>2, <3>1, <3>2, <3>3, SpliceType
  <2>5. CASE e = "display"
    <3>1. Append(nv, Blank) \o v \in Seq(S)
      OBVIOUS
    <3>2. Insert(v, u, e, nv) = Append(nv, Blank) \o v
      BY <2>5 DEF Insert
    <3>3. QED
      BY <1>2, <2>2, <3>1, <3>2
  <2>6. QED
    BY <1>5, <2>1, <2>3, <2>4, <2>5 DEF UriElements
<1>6. QED
  BY <1>3, <1>4, <1>5

-----------------------------------------------------------------------------
(* The inductive invariant *)

SliceType  == [in : {"raw", "arena", "null"}, text : Chars, at : Nat, len : Nat]
HeaderType == [name : SliceType, value : SliceType, removed : BOOLEAN]
ArenaType  == [cells : [1..Capacity -> Token], used : 0..Capacity]

\* A slice that shows nothing above the arena's mark.
Handed(a, s) == s \in SliceType /\ (s.in = "arena" => s.at + s.len <= a.used)

\* A header array that fits and whose slices are all below the mark.
Held(a, hs) ==
  /\ hs \in Seq(HeaderType) /\ Len(hs) <= MaxHeaders
  /\ \A i \in DOMAIN hs : Handed(a, hs[i].name) /\ Handed(a, hs[i].value)

\* What the header operations take and return.
Sound(m) ==
  /\ m \in [arena : ArenaType, headers : Seq(HeaderType), ok : BOOLEAN]
  /\ Held(m.arena, m.headers)

\* b is a with more handed out: the cells in use are as they were.
Grown(a, b) == a.used <= b.used /\ \A i \in 1 .. a.used : b.cells[i] = a.cells[i]

\* The inductive invariant.
MessageInvariant ==
  /\ arena \in ArenaType /\ packet \in Packets
  /\ Held(arena, headers) /\ Handed(arena, ruri) /\ Handed(arena, wire)
  /\ calls \in 0..MaxCalls /\ received \in 1..MaxPackets

-----------------------------------------------------------------------------
(* The arena *)

LEMMA TokenNames ==
  /\ "@" \in Token /\ ":" \in Token /\ ": " \in Token /\ Blank \in Token
  /\ "CRLF" \in Token /\ "junk" \in Token /\ "zero" \in Token
BY DEF Token

LEMMA GrownTransitive ==
  ASSUME NEW a \in ArenaType, NEW b \in ArenaType, NEW c \in ArenaType, Grown(a, b), Grown(b, c)
  PROVE  Grown(a, c)
BY SipMessageAssumption DEF Grown, ArenaType

LEMMA GrownReflexive ==
  ASSUME NEW a \in ArenaType
  PROVE  Grown(a, a)
BY SipMessageAssumption DEF Grown, ArenaType

LEMMA ShowType ==
  ASSUME NEW a \in ArenaType, NEW s, Handed(a, s)
  PROVE  Show(a.cells, s) \in Chars
<1>1. CASE s.in # "arena"
  BY <1>1 DEF Handed, SliceType, Show
<1>2. CASE s.in = "arena"
  <2>1. s.at \in Nat /\ s.len \in Nat /\ a.used \in 0 .. Capacity /\ s.at + s.len <= a.used
    BY <1>2 DEF Handed, SliceType, ArenaType
  <2>2. \A i \in 1 .. s.len : s.at + i \in 1 .. Capacity
    BY <2>1, SipMessageAssumption
  <2>3. \A i \in 1 .. s.len : a.cells[s.at + i] \in Token
    BY <2>2 DEF ArenaType
  <2>4. [i \in 1 .. s.len |-> a.cells[s.at + i]] \in Seq(Token)
    BY <2>1, <2>3, IsASeq
  <2>5. QED
    BY <1>2, <2>4 DEF Show, Chars
<1>3. QED
  BY <1>1, <1>2

\* A slice that was handed out shows the same text in the arena grown.
LEMMA ShowGrown ==
  ASSUME NEW a \in ArenaType, NEW b \in ArenaType, Grown(a, b), NEW s, Handed(a, s)
  PROVE  Handed(b, s) /\ Show(b.cells, s) = Show(a.cells, s)
<1>1. a.used \in Nat /\ b.used \in Nat /\ a.used <= b.used
  BY SipMessageAssumption DEF ArenaType, Grown
<1>2. s.at \in Nat /\ s.len \in Nat
  BY DEF Handed, SliceType
<1>3. Handed(b, s)
  BY <1>1, <1>2 DEF Handed
<1>4. s.in = "arena" => \A i \in 1 .. s.len : s.at + i \in 1 .. a.used
  BY <1>1, <1>2 DEF Handed
<1>5. s.in = "arena" => \A i \in 1 .. s.len : b.cells[s.at + i] = a.cells[s.at + i]
  BY <1>4 DEF Grown
<1>6. Show(b.cells, s) = Show(a.cells, s)
  BY <1>5 DEF Show
<1>7. QED
  BY <1>3, <1>6

LEMMA AllocGrows ==
  ASSUME NEW a \in ArenaType, NEW t \in Chars, Fits(a, t)
  PROVE  /\ Alloc(a, t) \in ArenaType
         /\ Grown(a, Alloc(a, t))
         /\ Alloc(a, t).used = a.used + Len(t)
<1>1. a.used \in Nat /\ Len(t) \in Nat /\ a.used + Len(t) <= Capacity /\ Capacity \in Nat
  BY SipMessageAssumption DEF ArenaType, Chars, Fits
<1>2. ASSUME NEW i \in 1 .. Capacity
      PROVE  (IF i \in a.used + 1 .. a.used + Len(t) THEN t[i - a.used] ELSE a.cells[i]) \in Token
  <2>1. i \in a.used + 1 .. a.used + Len(t) => i - a.used \in 1 .. Len(t)
    BY <1>1
  <2>2. \A j \in 1 .. Len(t) : t[j] \in Token
    BY DEF Chars
  <2>3. a.cells[i] \in Token
    BY DEF ArenaType
  <2>4. QED
    BY <2>1, <2>2, <2>3
<1>3. Alloc(a, t).cells \in [1 .. Capacity -> Token]
  BY <1>2 DEF Alloc
<1>4. Alloc(a, t).used = a.used + Len(t)
  BY DEF Alloc
<1>5. Alloc(a, t) \in ArenaType
  <2>1. Alloc(a, t) = [cells |-> Alloc(a, t).cells, used |-> Alloc(a, t).used]
    BY DEF Alloc
  <2>2. a.used + Len(t) \in 0 .. Capacity
    BY <1>1
  <2>3. QED
    BY <1>3, <1>4, <2>1, <2>2 DEF ArenaType
<1>6. \A i \in 1 .. a.used : Alloc(a, t).cells[i] = a.cells[i]
  BY <1>1 DEF Alloc
<1>7. QED
  BY <1>1, <1>4, <1>5, <1>6 DEF Grown

\* What was written is what the new slice shows.
LEMMA AllocShows ==
  ASSUME NEW a \in ArenaType, NEW t \in Chars, Fits(a, t)
  PROVE  /\ Handed(Alloc(a, t), InArena(a.used, Len(t)))
         /\ Show(Alloc(a, t).cells, InArena(a.used, Len(t))) = t
<1>1. a.used \in Nat /\ Len(t) \in Nat /\ a.used + Len(t) <= Capacity /\ Capacity \in Nat
  BY SipMessageAssumption DEF ArenaType, Chars, Fits
<1>2. <<>> \in Chars
  BY DEF Chars
<1>3. InArena(a.used, Len(t)) \in SliceType
  BY <1>1, <1>2 DEF InArena, SliceType
<1>4. Handed(Alloc(a, t), InArena(a.used, Len(t)))
  BY <1>1, <1>3, AllocGrows DEF Handed, InArena
<1>5. \A i \in 1 .. Len(t) : Alloc(a, t).cells[a.used + i] = t[i]
  <2>1. SUFFICES ASSUME NEW i \in 1 .. Len(t) PROVE Alloc(a, t).cells[a.used + i] = t[i]
    OBVIOUS
  <2>2. /\ a.used + i \in 1 .. Capacity
        /\ a.used + i \in a.used + 1 .. a.used + Len(t) /\ (a.used + i) - a.used = i
    BY <1>1
  <2>3. QED
    BY <2>2 DEF Alloc
<1>6. t = [i \in 1 .. Len(t) |-> t[i]]
  BY DEF Chars
<1>7. Show(Alloc(a, t).cells, InArena(a.used, Len(t)))
        = [i \in 1 .. Len(t) |-> Alloc(a, t).cells[a.used + i]]
  BY DEF Show, InArena
<1>8. QED
  BY <1>4, <1>5, <1>6, <1>7

LEMMA ViewShows ==
  ASSUME NEW a \in ArenaType, NEW t \in Chars, Fits(a, t)
  PROVE  /\ Handed(Alloc(a, t), View(a, t))
         /\ Show(Alloc(a, t).cells, View(a, t)) = t
<1>1. CASE t = <<>>
  <2>1. Raw(<<>>) \in SliceType
    BY <1>1 DEF Raw, SliceType, Chars
  <2>2. View(a, t) = Raw(<<>>)
    BY <1>1 DEF View
  <2>3. QED
    BY <1>1, <2>1, <2>2 DEF Handed, Raw, Show
<1>2. CASE t # <<>>
  BY <1>2, AllocShows DEF View
<1>3. QED
  BY <1>1, <1>2

-----------------------------------------------------------------------------
(* The header operations *)

\* What an operation leaves of m: a sound message in a grown arena.
Leaves(m, r) == Sound(r) /\ Grown(m.arena, r.arena)

LEMMA HeldGrown ==
  ASSUME NEW a \in ArenaType, NEW b \in ArenaType, Grown(a, b), NEW hs, Held(a, hs)
  PROVE  Held(b, hs)
BY ShowGrown DEF Held

LEMMA LeavesTransitive ==
  ASSUME NEW m, NEW r, NEW q, Sound(m), Leaves(m, r), Leaves(r, q)
  PROVE  Leaves(m, q)
<1>1. m.arena \in ArenaType /\ r.arena \in ArenaType /\ q.arena \in ArenaType
  BY DEF Leaves, Sound
<1>2. QED
  BY <1>1, GrownTransitive DEF Leaves

LEMMA RefusedLeaves ==
  ASSUME NEW m, Sound(m)
  PROVE  Leaves(m, Refused(m)) /\ Refused(m).arena = m.arena /\ Refused(m).headers = m.headers
<1>1. /\ Refused(m).arena = m.arena /\ Refused(m).headers = m.headers
      /\ Refused(m) \in [arena : ArenaType, headers : Seq(HeaderType), ok : BOOLEAN]
  BY DEF Refused, Sound
<1>2. m.arena \in ArenaType
  BY DEF Sound
<1>3. QED
  BY <1>1, <1>2, GrownReflexive DEF Leaves, Sound

\* Cells handed out for nothing a header shows.
LEMMA AllocLeaves ==
  ASSUME NEW m, Sound(m), NEW t \in Chars, Fits(m.arena, t)
  PROVE  Leaves(m, [m EXCEPT !.arena = Alloc(m.arena, t)])
<1> DEFINE r == [m EXCEPT !.arena = Alloc(m.arena, t)]
<1>1. m.arena \in ArenaType
  BY DEF Sound
<1>2. Alloc(m.arena, t) \in ArenaType /\ Grown(m.arena, Alloc(m.arena, t))
  BY <1>1, AllocGrows
<1>3. /\ r.arena = Alloc(m.arena, t) /\ r.headers = m.headers
      /\ r \in [arena : ArenaType, headers : Seq(HeaderType), ok : BOOLEAN]
  BY <1>2 DEF Sound
<1>4. Held(r.arena, r.headers)
  BY <1>1, <1>2, <1>3, HeldGrown DEF Sound
<1>5. QED
  BY <1>2, <1>3, <1>4 DEF Leaves, Sound

LEMMA FindRange ==
  ASSUME NEW m, Sound(m), NEW n
  PROVE  /\ Find(m, n) \in 0 .. Len(m.headers)
         /\ Find(m, n) = 0 => \A i \in 1 .. Len(m.headers) : ~Matches(m, m.headers[i], n)
         /\ Find(m, n) # 0 =>
              /\ Matches(m, m.headers[Find(m, n)], n)
              /\ \A i \in 1 .. Find(m, n) - 1 : ~Matches(m, m.headers[i], n)
<1> DEFINE I == {i \in 1 .. Len(m.headers) : Matches(m, m.headers[i], n)}
<1>1. Find(m, n) = IF I # {} THEN Min(I) ELSE 0
  BY DEF Find, SelectInSeq
<1>2. Len(m.headers) \in Nat
  BY DEF Sound
<1>3. I \subseteq 1 .. Len(m.headers) /\ \A i \in 1 .. Len(m.headers) : i \in I <=> Matches(m, m.headers[i], n)
  OBVIOUS
<1> HIDE DEF I
<1>4. CASE I = {}
  BY <1>1, <1>2, <1>3, <1>4
<1>5. CASE I # {}
  <2>1. Min(I) \in I /\ \A i \in I : Min(I) <= i
    <3>1. 1 \in Nat /\ Len(m.headers) \in Int /\ I \subseteq 1 .. Len(m.headers)
      BY <1>2, <1>3
    <3>2. QED
      BY <1>5, <3>1, MinOfRange
  <2>2. Find(m, n) = Min(I) /\ Min(I) \in 1 .. Len(m.headers)
    BY <1>1, <1>3, <1>5, <2>1
  <2>3. \A i \in 1 .. Find(m, n) - 1 : i \notin I
    BY <1>2, <2>1, <2>2
  <2>4. \A i \in 1 .. Find(m, n) - 1 : i \in 1 .. Len(m.headers)
    BY <1>2, <2>2
  <2>5. QED
    BY <1>2, <1>3, <2>1, <2>2, <2>3, <2>4
<1>6. QED
  BY <1>4, <1>5

\* Re-pointing a value at a slice that was handed out.
LEMMA RepointLeaves ==
  ASSUME NEW m, Sound(m), NEW a \in ArenaType, Grown(m.arena, a),
         NEW i \in 1 .. Len(m.headers), NEW s, Handed(a, s)
  PROVE  Leaves(m, [m EXCEPT !.arena = a, !.headers[i].value = s])
<1> DEFINE r == [m EXCEPT !.arena = a, !.headers[i].value = s]
<1>1. m \in [arena : ArenaType, headers : Seq(HeaderType), ok : BOOLEAN]
  BY DEF Sound
<1>2. Held(a, m.headers)
  BY <1>1, HeldGrown DEF Sound
<1>3. r.arena = a /\ r.ok = m.ok /\ r.headers = [m.headers EXCEPT ![i].value = s]
  BY <1>1
<1>4. s \in SliceType
  BY DEF Handed
<1>5. m.headers \in Seq(HeaderType)
  BY <1>1
<1>6. m.headers[i] \in HeaderType
  BY <1>5
<1>7. [m.headers[i] EXCEPT !.value = s] \in HeaderType
  BY <1>4, <1>6 DEF HeaderType
<1>8. r.headers \in Seq(HeaderType) /\ Len(r.headers) = Len(m.headers)
  BY <1>3, <1>5, <1>7
<1>9. \A j \in 1 .. Len(m.headers) :
         /\ r.headers[j].name = m.headers[j].name
         /\ r.headers[j].value = IF j = i THEN s ELSE m.headers[j].value
  BY <1>3, <1>5, <1>6 DEF HeaderType
<1> HIDE DEF r
<1>10. Held(a, r.headers)
  BY <1>2, <1>8, <1>9 DEF Held
<1>11. r \in [arena : ArenaType, headers : Seq(HeaderType), ok : BOOLEAN]
  BY <1>1, <1>8 DEF r
<1>12. QED
  BY <1>3, <1>10, <1>11 DEF Leaves, Sound

LEMMA AddHeaderLeaves ==
  ASSUME NEW m, Sound(m), NEW n \in Chars, NEW t \in Chars
  PROVE  Leaves(m, AddHeader(m, n, t))
<1> DEFINE named == Alloc(m.arena, n)
           full  == Len(m.headers) >= MaxHeaders \/ ~Fits(m.arena, n)
           half  == Len(m.headers) < MaxHeaders /\ Fits(m.arena, n) /\ ~Fits(named, t)
           h     == [name |-> View(m.arena, n), value |-> View(named, t), removed |-> FALSE]
           r     == [arena |-> Alloc(named, t), headers |-> Append(m.headers, h), ok |-> TRUE]
<1>1. /\ m.arena \in ArenaType /\ m.headers \in Seq(HeaderType) /\ Held(m.arena, m.headers)
      /\ Len(m.headers) \in Nat /\ MaxHeaders \in Nat
  BY SipMessageAssumption DEF Sound
<1>2. CASE full
  <2>1. AddHeader(m, n, t) = Refused(m)
    BY <1>1, <1>2 DEF AddHeader
  <2>2. QED
    BY <2>1, RefusedLeaves
<1>3. CASE half
  <2> DEFINE q == [m EXCEPT !.arena = named]
  <2>1. AddHeader(m, n, t) = Refused(q)
    BY <1>1, <1>3 DEF AddHeader
  <2>2. Leaves(m, q)
    BY <1>3, AllocLeaves
  <2> HIDE DEF q
  <2>3. Leaves(q, Refused(q))
    BY <2>2, RefusedLeaves DEF Leaves
  <2>4. QED
    BY <2>1, <2>2, <2>3, LeavesTransitive
<1>4. CASE ~full /\ ~half
  <2>1. Len(m.headers) < MaxHeaders /\ Fits(m.arena, n) /\ Fits(named, t)
    BY <1>1, <1>4
  <2>2. AddHeader(m, n, t) = r
    BY <1>4 DEF AddHeader
  <2>3. /\ named \in ArenaType /\ Grown(m.arena, named) /\ Handed(named, View(m.arena, n))
    BY <1>1, <2>1, AllocGrows, ViewShows
  <2> HIDE DEF named
  <2>4. /\ Alloc(named, t) \in ArenaType /\ Grown(named, Alloc(named, t))
        /\ Handed(Alloc(named, t), View(named, t))
    BY <2>1, <2>3, AllocGrows, ViewShows
  <2>5. Grown(m.arena, Alloc(named, t)) /\ Handed(Alloc(named, t), View(m.arena, n))
    BY <1>1, <2>3, <2>4, GrownTransitive, ShowGrown
  <2>6. h \in HeaderType
    BY <2>4, <2>5 DEF Handed, HeaderType
  <2>7. Held(Alloc(named, t), m.headers)
    BY <1>1, <2>4, <2>5, HeldGrown
  <2>8. h.name = View(m.arena, n) /\ h.value = View(named, t)
    OBVIOUS
  <2> HIDE DEF h
  <2>9. /\ Append(m.headers, h) \in Seq(HeaderType)
        /\ Len(Append(m.headers, h)) = Len(m.headers) + 1
        /\ Append(m.headers, h)[Len(m.headers) + 1] = h
        /\ \A i \in 1 .. Len(m.headers) : Append(m.headers, h)[i] = m.headers[i]
    BY <1>1, <2>6
  <2>10. \A i \in 1 .. Len(m.headers) + 1 : i \in 1 .. Len(m.headers) \/ i = Len(m.headers) + 1
    BY <1>1
  <2>11. Held(Alloc(named, t), Append(m.headers, h))
    <3>1. Len(Append(m.headers, h)) <= MaxHeaders
      BY <1>1, <2>1, <2>9
    <3>2. ASSUME NEW i \in 1 .. Len(m.headers) + 1
          PROVE  /\ Handed(Alloc(named, t), Append(m.headers, h)[i].name)
                 /\ Handed(Alloc(named, t), Append(m.headers, h)[i].value)
      BY <1>1, <2>4, <2>5, <2>7, <2>8, <2>9, <2>10 DEF Held
    <3>3. DOMAIN Append(m.headers, h) = 1 .. Len(m.headers) + 1
      BY <1>1, <2>9
    <3>4. QED
      BY <2>9, <3>1, <3>2, <3>3 DEF Held
  <2>12. Sound(r)
    BY <2>4, <2>9, <2>11 DEF Sound
  <2>13. QED
    BY <2>2, <2>5, <2>12 DEF Leaves
<1>5. QED
  BY <1>2, <1>3, <1>4

LEMMA SetHeaderLeaves ==
  ASSUME NEW m, Sound(m), NEW n \in Chars, NEW t \in Chars
  PROVE  Leaves(m, SetHeader(m, n, t))
<1> DEFINE held == [m EXCEPT !.arena = Alloc(m.arena, t)]
           i    == Find(m, n)
<1>1. m.arena \in ArenaType /\ i \in 0 .. Len(m.headers) /\ Len(m.headers) \in Nat
  BY FindRange DEF Sound
<1>2. CASE ~Fits(m.arena, t)
  <2>1. SetHeader(m, n, t) = Refused(m)
    BY <1>2 DEF SetHeader
  <2>2. QED
    BY <2>1, RefusedLeaves
<1>3. CASE Fits(m.arena, t) /\ i = 0
  <2>1. SetHeader(m, n, t) = AddHeader(held, n, t)
    BY <1>3 DEF SetHeader
  <2>2. Leaves(m, held)
    BY <1>3, AllocLeaves
  <2> HIDE DEF held
  <2>3. Leaves(held, AddHeader(held, n, t))
    BY <2>2, AddHeaderLeaves DEF Leaves
  <2>4. QED
    BY <2>1, <2>2, <2>3, LeavesTransitive
<1>4. CASE Fits(m.arena, t) /\ i # 0
  <2>1. SetHeader(m, n, t) = [held EXCEPT !.headers[i].value = View(m.arena, t)]
    BY <1>4 DEF SetHeader
  <2>2. [held EXCEPT !.headers[i].value = View(m.arena, t)]
          = [m EXCEPT !.arena = Alloc(m.arena, t), !.headers[i].value = View(m.arena, t)]
    BY DEF Sound
  <2>3. /\ Alloc(m.arena, t) \in ArenaType /\ Grown(m.arena, Alloc(m.arena, t))
        /\ Handed(Alloc(m.arena, t), View(m.arena, t))
    BY <1>1, <1>4, AllocGrows, ViewShows
  <2>4. i \in 1 .. Len(m.headers)
    BY <1>1, <1>4
  <2> HIDE DEF i
  <2>5. Leaves(m, [m EXCEPT !.arena = Alloc(m.arena, t), !.headers[i].value = View(m.arena, t)])
    BY <2>3, <2>4, RepointLeaves
  <2>6. QED
    BY <2>1, <2>2, <2>5
<1>5. QED
  BY <1>2, <1>3, <1>4

LEMMA DeleteHeaderLeaves ==
  ASSUME NEW m, Sound(m), NEW n
  PROVE  Leaves(m, DeleteHeader(m, n)) /\ DeleteHeader(m, n).arena = m.arena
<1> DEFINE r  == DeleteHeader(m, n)
           hs == [i \in DOMAIN m.headers |->
                    [m.headers[i] EXCEPT !.removed = @ \/ Matches(m, m.headers[i], n)]]
<1>1. /\ m \in [arena : ArenaType, headers : Seq(HeaderType), ok : BOOLEAN]
      /\ m.headers \in Seq(HeaderType) /\ m.arena \in ArenaType
  BY DEF Sound
<1>2. r = [m EXCEPT !.headers = hs, !.ok = Find(m, n) # 0]
  BY DEF DeleteHeader
<1>3. ASSUME NEW i \in 1 .. Len(m.headers)
      PROVE  /\ hs[i] \in HeaderType
             /\ hs[i].name = m.headers[i].name /\ hs[i].value = m.headers[i].value
  <2>1. m.headers[i] \in HeaderType
    BY <1>1
  <2>2. (m.headers[i].removed \/ Matches(m, m.headers[i], n)) \in BOOLEAN
    OBVIOUS
  <2>3. hs[i] = [m.headers[i] EXCEPT !.removed = @ \/ Matches(m, m.headers[i], n)]
    BY <1>1
  <2>4. QED
    BY <2>1, <2>2, <2>3 DEF HeaderType
<1>4. hs \in Seq(HeaderType) /\ Len(hs) = Len(m.headers) /\ DOMAIN hs = 1 .. Len(m.headers)
  <2>1. DOMAIN m.headers = 1 .. Len(m.headers) /\ Len(m.headers) \in Nat
    BY <1>1
  <2>2. hs \in [1 .. Len(m.headers) -> HeaderType]
    BY <1>3, <2>1
  <2> HIDE DEF hs
  <2>3. QED
    BY <2>1, <2>2
<1> HIDE DEF hs
<1>5. Held(m.arena, hs)
  BY <1>3, <1>4 DEF Sound, Held
<1>6. /\ r.arena = m.arena /\ r.headers = hs
      /\ r \in [arena : ArenaType, headers : Seq(HeaderType), ok : BOOLEAN]
  BY <1>1, <1>2, <1>4
<1>7. QED
  BY <1>1, <1>5, <1>6, GrownReflexive DEF Leaves, Sound

LEMMA RawHanded ==
  ASSUME NEW a, NEW t \in Chars
  PROVE  Handed(a, Raw(t))
BY DEF Handed, Raw, SliceType

LEMMA NullHanded ==
  ASSUME NEW a
  PROVE  Handed(a, Null)
BY DEF Handed, Null, SliceType, Chars

\* The value an element rule reads is a text, found or not.
LEMMA GetHeaderType ==
  ASSUME NEW m, Sound(m), NEW n
  PROVE  Handed(m.arena, GetHeader(m, n)) /\ Show(m.arena.cells, GetHeader(m, n)) \in Chars
<1>1. m.arena \in ArenaType /\ Find(m, n) \in 0 .. Len(m.headers) /\ Len(m.headers) \in Nat
  BY FindRange DEF Sound
<1>2. Handed(m.arena, GetHeader(m, n))
  <2>1. CASE Find(m, n) = 0
    <3>1. GetHeader(m, n) = Null
      BY <2>1 DEF GetHeader
    <3>2. QED
      BY <3>1, NullHanded
  <2>2. CASE Find(m, n) # 0
    <3>1. Find(m, n) \in DOMAIN m.headers
      BY <1>1, <2>2 DEF Sound
    <3>2. QED
      BY <2>2, <3>1 DEF GetHeader, Sound, Held
  <2>3. QED
    BY <2>1, <2>2
<1>3. QED
  BY <1>1, <1>2, ShowType

LEMMA RewriteElementLeaves ==
  ASSUME NEW m, Sound(m), NEW n \in Chars, NEW e \in UriElements \cup {"whole"}, NEW t \in Chars
  PROVE  Leaves(m, RewriteElement(m, n, e, t))
<1> DEFINE built == RebuildUri(Show(m.arena.cells, GetHeader(m, n)), e, t)
           q     == [m EXCEPT !.arena = Alloc(m.arena, built)]
<1>1. built \in Chars
  BY GetHeaderType, RebuildType, TokenNames DEF Chars
<1>2. CASE e = "whole"
  <2>1. RewriteElement(m, n, e, t) = SetHeader(m, n, t)
    BY <1>2 DEF RewriteElement
  <2>2. QED
    BY <2>1, SetHeaderLeaves
<1>3. CASE e # "whole" /\ Fits(m.arena, built)
  <2>1. RewriteElement(m, n, e, t) = SetHeader(q, n, built)
    BY <1>3 DEF RewriteElement
  <2> HIDE DEF built
  <2>2. Leaves(m, q)
    BY <1>1, <1>3, AllocLeaves
  <2> HIDE DEF q
  <2>3. Leaves(q, SetHeader(q, n, built))
    BY <1>1, <2>2, SetHeaderLeaves DEF Leaves
  <2>4. QED
    BY <2>1, <2>2, <2>3, LeavesTransitive
<1>4. CASE e # "whole" /\ ~Fits(m.arena, built)
  <2>1. RewriteElement(m, n, e, t) = Refused(SetHeader(m, n, <<>>))
    BY <1>4 DEF RewriteElement
  <2>2. Leaves(m, SetHeader(m, n, <<>>))
    <3>1. <<>> \in Chars
      BY DEF Chars
    <3>2. QED
      BY <3>1, SetHeaderLeaves
  <2>3. Leaves(SetHeader(m, n, <<>>), Refused(SetHeader(m, n, <<>>)))
    BY <2>2, RefusedLeaves DEF Leaves
  <2>4. QED
    BY <2>1, <2>2, <2>3, LeavesTransitive
<1>5. QED
  BY <1>2, <1>3, <1>4

-----------------------------------------------------------------------------
(* Parsing and serializing *)

LEMMA HeaderLinesType ==
  ASSUME NEW p \in Datagram
  PROVE  HeaderLines(p) \in Seq(Line)
<1> DEFINE kept == [i \in DOMAIN p.fields |-> IF p.fields[i] = Junk THEN <<>> ELSE <<p.fields[i]>>]
<1>1. p.fields \in Seq(Line)
  BY DEF Datagram
<1>2. \A i \in 1 .. Len(p.fields) : kept[i] \in Seq(Line)
  BY <1>1
<1>3. kept \in Seq(Seq(Line))
  <2>1. DOMAIN p.fields = 1 .. Len(p.fields) /\ Len(p.fields) \in Nat
    BY <1>1
  <2>2. kept \in [1 .. Len(p.fields) -> Seq(Line)]
    BY <1>2, <2>1
  <2> HIDE DEF kept
  <2>3. QED
    BY <2>1, <2>2
<1> HIDE DEF kept
<1>4. FlattenSeq(kept) \in Seq(Line)
  BY <1>3, FlattenType
<1>5. QED
  BY <1>4 DEF HeaderLines, kept

LEMMA ParseHeadersHeld ==
  ASSUME NEW p \in Datagram, NEW a \in ArenaType
  PROVE  Held(a, ParseHeaders(p))
<1> DEFINE lines == HeaderLines(p)
           count == Min({Len(lines), MaxHeaders})
           kept  == SubSeq(lines, 1, count)
           hs    == [i \in DOMAIN kept |->
                       [name |-> Raw(kept[i].name), value |-> Raw(kept[i].value), removed |-> FALSE]]
<1>1. lines \in Seq(Line)
  BY HeaderLinesType
<1> HIDE DEF lines
<1>2. count \in 0 .. Len(lines) /\ count <= MaxHeaders
  <2>1. {Len(lines), MaxHeaders} \subseteq Nat /\ {Len(lines), MaxHeaders} # {}
    BY <1>1, SipMessageAssumption
  <2>2. count \in {Len(lines), MaxHeaders} /\ \A k \in {Len(lines), MaxHeaders} : count <= k
    BY <2>1, MinOfNats
  <2> HIDE DEF count
  <2>3. QED
    BY <2>1, <2>2
<1> HIDE DEF count
<1>3. kept \in Seq(Line) /\ Len(kept) = count
  BY <1>1, <1>2
<1> HIDE DEF kept
<1>4. ASSUME NEW i \in 1 .. count
      PROVE  hs[i] \in HeaderType /\ Handed(a, hs[i].name) /\ Handed(a, hs[i].value)
  <2>1. kept[i] \in Line /\ i \in DOMAIN kept
    BY <1>3
  <2>2. kept[i].name \in Chars /\ kept[i].value \in Chars
    BY <2>1 DEF Line
  <2>3. Handed(a, Raw(kept[i].name)) /\ Handed(a, Raw(kept[i].value))
    BY <2>2, RawHanded
  <2>4. QED
    BY <2>1, <2>3 DEF HeaderType, Handed
<1>5. hs \in Seq(HeaderType) /\ Len(hs) = count /\ DOMAIN hs = 1 .. count
  <2>1. DOMAIN kept = 1 .. count /\ count \in Nat
    BY <1>2, <1>3
  <2>2. hs \in [1 .. count -> HeaderType]
    BY <1>4, <2>1
  <2> HIDE DEF hs
  <2>3. QED
    BY <2>1, <2>2
<1>6. ParseHeaders(p) = hs
  BY DEF ParseHeaders, lines, count, kept
<1> HIDE DEF hs
<1>7. \A i \in DOMAIN hs : Handed(a, hs[i].name) /\ Handed(a, hs[i].value)
  BY <1>4, <1>5
<1>8. QED
  BY <1>2, <1>5, <1>6, <1>7 DEF Held

LEMMA PutAllGrows ==
  ASSUME NEW a \in ArenaType, NEW pieces \in Seq(Chars)
  PROVE  LET put == PutAll(a, pieces)
         IN  /\ put.arena \in ArenaType /\ Grown(a, put.arena) /\ put.ok \in BOOLEAN
             /\ put.ok => /\ Fits(a, FlattenSeq(pieces))
                          /\ put.arena = Alloc(a, FlattenSeq(pieces))
<1> DEFINE Prefix(k) == FlattenSeq(SubSeq(pieces, 1, k))
           I     == {k \in 0 .. Len(pieces) : Fits(a, Prefix(k))}
           count == Max(I)
<1>1. Len(pieces) \in Nat
  OBVIOUS
<1>2. \A k \in 0 .. Len(pieces) : Prefix(k) \in Chars
  <2>1. \A k \in 0 .. Len(pieces) : SubSeq(pieces, 1, k) \in Seq(Chars)
    OBVIOUS
  <2>2. QED
    BY <2>1, FlattenType DEF Chars
<1>3. 0 \in I
  <2>1. SubSeq(pieces, 1, 0) = <<>>
    OBVIOUS
  <2>2. Prefix(0) = <<>>
    BY <2>1, FlattenEmpty, Zenon
  <2> HIDE DEF Prefix
  <2>3. Fits(a, Prefix(0))
    BY <2>2, SipMessageAssumption DEF Fits, ArenaType
  <2>4. QED
    BY <1>1, <2>3
<1>4. count \in I
  <2>1. I \subseteq 0 .. Len(pieces)
    OBVIOUS
  <2> HIDE DEF I
  <2>2. QED
    BY <1>1, <1>3, <2>1, MaxUpTo
<1>5. PutAll(a, pieces) = [arena |-> Alloc(a, Prefix(count)), ok |-> count = Len(pieces)]
  BY DEF PutAll
<1>6. count \in 0 .. Len(pieces) /\ Fits(a, Prefix(count))
  BY <1>4
<1> HIDE DEF count
<1>7. Prefix(Len(pieces)) = FlattenSeq(pieces)
  BY SubSeqFull
<1>8. Prefix(count) \in Chars
  BY <1>2, <1>6
<1>9. Alloc(a, Prefix(count)) \in ArenaType /\ Grown(a, Alloc(a, Prefix(count)))
  BY <1>6, <1>8, AllocGrows
<1> DEFINE put == PutAll(a, pieces)
<1>10. put.arena = Alloc(a, Prefix(count)) /\ put.ok = (count = Len(pieces))
  BY <1>5
<1> HIDE DEF put
<1>11. put.ok => Fits(a, FlattenSeq(pieces)) /\ put.arena = Alloc(a, FlattenSeq(pieces))
  <2>1. SUFFICES ASSUME count = Len(pieces)
                 PROVE  Fits(a, FlattenSeq(pieces)) /\ put.arena = Alloc(a, FlattenSeq(pieces))
    BY <1>10
  <2>2. Prefix(count) = FlattenSeq(pieces)
    BY <1>7, <2>1
  <2> HIDE DEF Prefix
  <2>3. QED
    BY <1>6, <1>10, <2>2
<1>12. put.arena \in ArenaType /\ Grown(a, put.arena) /\ put.ok \in BOOLEAN
  BY <1>9, <1>10
<1>13. QED
  BY <1>11, <1>12 DEF put

LEMMA DatagramTypes ==
  ASSUME packet \in Packets
  PROVE  /\ packet \in Datagram
         /\ packet.before \in Chars /\ packet.uri \in Chars /\ packet.after \in Chars
         /\ packet.body \in Chars
BY SipMessageAssumption DEF Datagram

LEMMA RequestUriType ==
  ASSUME MessageInvariant
  PROVE  RequestUri \in Chars /\ SentUri \in Chars
<1>1. packet.uri \in Chars
  BY DatagramTypes DEF MessageInvariant
<1>2. Read(ruri) \in Chars
  BY ShowType DEF MessageInvariant, Read
<1>3. QED
  BY <1>1, <1>2 DEF RequestUri, SentUri

LEMMA FieldOfType ==
  ASSUME MessageInvariant, NEW i \in DOMAIN headers
  PROVE  FieldOf(headers[i]) \in Line
<1>1. Handed(arena, headers[i].name) /\ Handed(arena, headers[i].value) /\ arena \in ArenaType
  BY DEF MessageInvariant, Held
<1>2. Read(headers[i].name) \in Chars /\ Read(headers[i].value) \in Chars
  BY <1>1, ShowType DEF Read
<1>3. QED
  BY <1>2 DEF FieldOf, Line

LEMMA LiveFieldsType ==
  ASSUME MessageInvariant
  PROVE  LiveFields \in Seq(Line)
<1> DEFINE live == [i \in DOMAIN headers |->
                      IF headers[i].removed THEN <<>> ELSE <<FieldOf(headers[i])>>]
<1>1. headers \in Seq(HeaderType)
  BY DEF MessageInvariant, Held
<1>2. DOMAIN headers = 1 .. Len(headers) /\ Len(headers) \in Nat
  BY <1>1
<1>3. \A i \in 1 .. Len(headers) : live[i] \in Seq(Line)
  BY <1>2, FieldOfType
<1>4. live \in Seq(Seq(Line))
  <2>1. live \in [1 .. Len(headers) -> Seq(Line)]
    BY <1>2, <1>3
  <2> HIDE DEF live
  <2>2. QED
    BY <1>2, <2>1
<1> HIDE DEF live
<1>5. FlattenSeq(live) \in Seq(Line)
  BY <1>4, FlattenType
<1>6. QED
  BY <1>5 DEF LiveFields, live

\* The texts put for one field.
FieldPieces(f) == <<f.name, <<": ">>, f.value, <<"CRLF">>>>

LEMMA TupleTypes ==
  ASSUME NEW S, NEW a \in S, NEW b \in S, NEW c \in S, NEW d \in S
  PROVE  <<a>> \in Seq(S) /\ <<a, b>> \in Seq(S) /\ <<a, b, c, d>> \in Seq(S)
OBVIOUS

LEMMA Separators ==
  <<": ">> \in Chars /\ <<"CRLF">> \in Chars /\ <<>> \in Chars
<1>1. <<": ">> \in Seq(Token) /\ <<"CRLF">> \in Seq(Token)
  BY TokenNames, TupleTypes
<1>2. <<>> \in Seq(Token)
  OBVIOUS
<1>3. QED
  BY <1>1, <1>2 DEF Chars

LEMMA FieldPiecesType ==
  ASSUME NEW f \in Line
  PROVE  FieldPieces(f) \in Seq(Chars)
<1>1. f.name \in Chars /\ f.value \in Chars
  BY DEF Line
<1>2. QED
  BY <1>1, Separators, TupleTypes DEF FieldPieces

LEMMA MapType ==
  ASSUME NEW S, NEW fields \in Seq(Line), NEW g, DOMAIN g = DOMAIN fields,
         \A i \in DOMAIN fields : g[i] \in S, g = [i \in DOMAIN g |-> g[i]]
  PROVE  g \in Seq(S) /\ Len(g) = Len(fields)
<1>1. DOMAIN fields = 1 .. Len(fields) /\ Len(fields) \in Nat
  OBVIOUS
<1>2. g \in [1 .. Len(fields) -> S]
  BY <1>1
<1>3. QED
  BY <1>1, <1>2

LEMMA PiecesType ==
  ASSUME MessageInvariant
  PROVE  Pieces \in Seq(Chars)
<1> DEFINE middle == [i \in DOMAIN LiveFields |-> FieldPieces(LiveFields[i])]
           head   == <<packet.before, SentUri, packet.after, <<"CRLF">>>>
           tail   == <<<<"CRLF">>, packet.body>>
<1>1. LiveFields \in Seq(Line)
  BY LiveFieldsType
<1>2. \A i \in DOMAIN LiveFields : middle[i] \in Seq(Chars)
  BY <1>1, FieldPiecesType
<1>3. middle = [i \in DOMAIN middle |-> middle[i]] /\ DOMAIN middle = DOMAIN LiveFields
  OBVIOUS
<1>4. Pieces = head \o FlattenSeq(middle) \o tail
  BY DEF Pieces, FieldPieces
<1> HIDE DEF middle
<1>5. middle \in Seq(Seq(Chars))
  BY <1>1, <1>2, <1>3, MapType
<1>6. FlattenSeq(middle) \in Seq(Chars)
  BY <1>5, FlattenType
<1>7. head \in Seq(Chars) /\ tail \in Seq(Chars)
  <2>1. /\ packet.before \in Chars /\ SentUri \in Chars /\ packet.after \in Chars
        /\ packet.body \in Chars
    BY RequestUriType, DatagramTypes DEF MessageInvariant
  <2>2. QED
    BY <2>1, Separators, TupleTypes
<1>8. QED
  BY <1>4, <1>6, <1>7

-----------------------------------------------------------------------------
(* The invariant *)

LEMMA HereIsSound ==
  ASSUME MessageInvariant
  PROVE  Sound(Here) /\ Here.arena = arena /\ Here.headers = headers
BY DEF MessageInvariant, Sound, Here, Held

\* One call that edits headers, given what its operation leaves.
LEMMA EditKeeps ==
  ASSUME MessageInvariant, NEW m, Leaves(Here, m), NEW op, NEW n, NEW e, NEW t,
         Edit(op, n, e, t, m)
  PROVE  MessageInvariant' /\ Grown(arena, arena')
<1>1. /\ arena' = m.arena /\ headers' = m.headers
      /\ UNCHANGED <<ruri, wire, packet, received>> /\ calls' = calls + 1 /\ calls < MaxCalls
  BY DEF Edit, Done
<1>2. arena' \in ArenaType /\ Held(arena', headers') /\ Grown(arena, arena')
  BY <1>1, HereIsSound DEF Leaves, Sound
<1>3. Handed(arena', ruri) /\ Handed(arena', wire)
  BY <1>2, ShowGrown DEF MessageInvariant
<1>4. calls' \in 0 .. MaxCalls
  BY <1>1, SipMessageAssumption DEF MessageInvariant
<1>5. Handed(arena', ruri') /\ Handed(arena', wire') /\ packet' \in Packets
      /\ received' \in 1 .. MaxPackets
  BY <1>1, <1>3 DEF MessageInvariant
<1>6. QED
  BY <1>2, <1>4, <1>5 DEF MessageInvariant

LEMMA SetFieldOfKeeps ==
  ASSUME MessageInvariant, NEW n \in Chars, NEW e \in UriElements \cup {"whole"}, NEW t \in Chars,
         SetFieldOf(n, e, t)
  PROVE  MessageInvariant' /\ Grown(arena, arena')
<1> DEFINE i     == Find(Here, n)
           built == RebuildUri(Read(GetHeader(Here, n)), e, t)
           view  == InArena(arena.used, Len(built))
           m     == IF i = 0 \/ ~Fits(arena, built) THEN Refused(Here)
                    ELSE [Here EXCEPT !.arena = Alloc(arena, built), !.headers[i].value = view]
<1>1. Edit("field", n, e, t, m)
  BY DEF SetFieldOf
<1>2. Sound(Here) /\ Here.arena = arena /\ Here.headers = headers
  BY HereIsSound
<1>3. built \in Chars
  <2>1. Read(GetHeader(Here, n)) \in Chars
    BY <1>2, GetHeaderType DEF Read
  <2>2. QED
    BY <2>1, RebuildType, TokenNames DEF Chars
<1> HIDE DEF built
<1>4. Leaves(Here, m)
  <2>1. CASE i = 0 \/ ~Fits(arena, built)
    BY <1>2, <2>1, RefusedLeaves
  <2>2. CASE i # 0 /\ Fits(arena, built)
    <3>1. i \in 0 .. Len(headers) /\ Len(headers) \in Nat /\ arena \in ArenaType
      BY <1>2, FindRange DEF Sound
    <3>2. i \in 1 .. Len(headers)
      BY <2>2, <3>1
    <3>3. /\ Alloc(arena, built) \in ArenaType /\ Grown(arena, Alloc(arena, built))
          /\ Handed(Alloc(arena, built), view)
      BY <1>3, <2>2, <3>1, AllocGrows, AllocShows
    <3>4. m = [Here EXCEPT !.arena = Alloc(arena, built), !.headers[i].value = view]
      BY <2>2
    <3> HIDE DEF i, view, m
    <3>5. Leaves(Here, [Here EXCEPT !.arena = Alloc(arena, built), !.headers[i].value = view])
      BY <1>2, <3>2, <3>3, RepointLeaves
    <3>6. QED
      BY <3>4, <3>5
  <2>3. QED
    BY <2>1, <2>2
<1> HIDE DEF m
<1>5. QED
  BY <1>1, <1>4, EditKeeps

LEMMA SetRequestUriKeeps ==
  ASSUME MessageInvariant, NEW e \in UriElements \cup {"whole"}, NEW t \in Chars,
         SetRequestUri(e, t)
  PROVE  MessageInvariant' /\ Grown(arena, arena')
<1> DEFINE built == RebuildUri(RequestUri, e, t)
<1>1. built \in Chars /\ arena \in ArenaType
  <2>1. RequestUri \in Chars /\ arena \in ArenaType
    BY RequestUriType DEF MessageInvariant
  <2>2. QED
    BY <2>1, RebuildType, TokenNames DEF Chars
<1>2. /\ UNCHANGED <<headers, wire, packet, received>> /\ calls < MaxCalls /\ calls' = calls + 1
      /\ IF Fits(arena, built)
         THEN ruri' = InArena(arena.used, Len(built)) /\ arena' = Alloc(arena, built)
         ELSE ruri' = ruri /\ arena' = arena
  <2>1. [Here EXCEPT !.arena = Alloc(arena, built)].arena = Alloc(arena, built)
        /\ Refused(Here).arena = arena
    BY DEF Here, Refused
  <2>2. CASE Fits(arena, built)
    BY <2>1, <2>2 DEF SetRequestUri, Done
  <2>3. CASE ~Fits(arena, built)
    BY <2>1, <2>3 DEF SetRequestUri, Done
  <2>4. QED
    BY <2>2, <2>3
<1> HIDE DEF built
<1>3. arena' \in ArenaType /\ Grown(arena, arena') /\ Handed(arena', ruri')
  <2>1. CASE Fits(arena, built)
    BY <1>1, <1>2, <2>1, AllocGrows, AllocShows
  <2>2. CASE ~Fits(arena, built)
    BY <1>1, <1>2, <2>2, GrownReflexive DEF MessageInvariant
  <2>3. QED
    BY <2>1, <2>2
<1>4. Held(arena', headers') /\ Handed(arena', wire')
  BY <1>1, <1>2, <1>3, HeldGrown, ShowGrown DEF MessageInvariant
<1>5. calls' \in 0 .. MaxCalls /\ packet' \in Packets /\ received' \in 1 .. MaxPackets
  BY <1>2, SipMessageAssumption DEF MessageInvariant
<1>6. QED
  BY <1>3, <1>4, <1>5 DEF MessageInvariant

LEMMA SerializeKeeps ==
  ASSUME MessageInvariant, Serialize
  PROVE  MessageInvariant' /\ Grown(arena, arena')
<1> DEFINE put == PutAll(arena, Pieces)
<1>1. arena \in ArenaType /\ Pieces \in Seq(Chars)
  BY PiecesType DEF MessageInvariant
<1>2. /\ put.arena \in ArenaType /\ Grown(arena, put.arena)
      /\ put.ok => Fits(arena, FlattenSeq(Pieces)) /\ put.arena = Alloc(arena, FlattenSeq(Pieces))
  BY <1>1, PutAllGrows
<1>3. /\ UNCHANGED <<headers, ruri, packet, received>> /\ calls < MaxCalls /\ calls' = calls + 1
      /\ arena' = put.arena
      /\ wire' = IF put.ok THEN InArena(arena.used, put.arena.used - arena.used) ELSE Null
  BY DEF Serialize, Done
<1> HIDE DEF put
<1>4. Handed(arena', wire')
  <2>1. CASE put.ok
    <3>1. FlattenSeq(Pieces) \in Chars
      BY <1>1, FlattenType DEF Chars
    <3>2. put.arena.used = arena.used + Len(FlattenSeq(Pieces))
      BY <1>1, <1>2, <2>1, <3>1, AllocGrows
    <3>3. put.arena.used - arena.used = Len(FlattenSeq(Pieces))
      BY <1>1, <3>1, <3>2 DEF ArenaType, Chars
    <3>4. QED
      BY <1>1, <1>2, <1>3, <2>1, <3>1, <3>3, AllocShows
  <2>2. CASE ~put.ok
    BY <1>3, <2>2, NullHanded
  <2>3. QED
    BY <2>1, <2>2
<1>5. Held(arena', headers') /\ Handed(arena', ruri') /\ arena' \in ArenaType /\ Grown(arena, arena')
  BY <1>1, <1>2, <1>3, HeldGrown, ShowGrown DEF MessageInvariant
<1>6. calls' \in 0 .. MaxCalls /\ packet' \in Packets /\ received' \in 1 .. MaxPackets
  BY <1>3, SipMessageAssumption DEF MessageInvariant
<1>7. QED
  BY <1>4, <1>5, <1>6 DEF MessageInvariant

LEMMA ReceiveKeeps ==
  ASSUME MessageInvariant, NEW p \in Packets, Receive(p)
  PROVE  MessageInvariant' /\ received' # received
<1>1. arena' \in ArenaType
  BY SipMessageAssumption DEF Receive, MessageInvariant, ArenaType
<1>2. Held(arena', headers')
  BY <1>1, ParseHeadersHeld, SipMessageAssumption DEF Receive
<1>3. Handed(arena', ruri') /\ Handed(arena', wire')
  BY NullHanded DEF Receive
<1>4. /\ packet' \in Packets /\ received' \in 1 .. MaxPackets /\ received' # received
      /\ calls' \in 0 .. MaxCalls
  BY SipMessageAssumption DEF Receive, MessageInvariant
<1>5. QED
  BY <1>1, <1>2, <1>3, <1>4 DEF MessageInvariant

LEMMA InitSound == Init => MessageInvariant
<1> SUFFICES ASSUME Init PROVE MessageInvariant
  OBVIOUS
<1>1. arena \in ArenaType
  <2>1. [i \in 1..Capacity |-> "zero"] \in [1..Capacity -> Token]
    BY TokenNames
  <2>2. 0 \in 0..Capacity
    BY SipMessageAssumption
  <2>3. QED
    BY <2>1, <2>2 DEF Init, ArenaType
<1>2. Held(arena, headers)
  BY <1>1, ParseHeadersHeld, SipMessageAssumption DEF Init
<1>3. Handed(arena, ruri) /\ Handed(arena, wire)
  BY NullHanded DEF Init
<1>4. packet \in Packets /\ received \in 1 .. MaxPackets /\ calls \in 0 .. MaxCalls
  BY SipMessageAssumption DEF Init
<1>5. QED
  BY <1>1, <1>2, <1>3, <1>4 DEF MessageInvariant

LEMMA StepKeeps ==
  ASSUME MessageInvariant, [Next]_vars
  PROVE  MessageInvariant' /\ (received' = received => Grown(arena, arena'))
<1> DEFINE Goal == MessageInvariant' /\ (received' = received => Grown(arena, arena'))
<1>1. Sound(Here)
  BY HereIsSound
<1>2. ASSUME NEW p \in Packets, Receive(p) PROVE Goal
  BY <1>2, ReceiveKeeps
<1>3. ASSUME NEW n \in Names, NEW t \in Texts, Set(n, t) PROVE Goal
  <2>1. Leaves(Here, SetHeader(Here, n, t))
    BY <1>1, SetHeaderLeaves, SipMessageAssumption
  <2>2. QED
    BY <1>3, <2>1, EditKeeps DEF Set
<1>4. ASSUME NEW n \in Names, NEW t \in Texts, Add(n, t) PROVE Goal
  <2>1. Leaves(Here, AddHeader(Here, n, t))
    BY <1>1, AddHeaderLeaves, SipMessageAssumption
  <2>2. QED
    BY <1>4, <2>1, EditKeeps DEF Add
<1>5. ASSUME NEW n \in Names, Delete(n) PROVE Goal
  <2>1. Leaves(Here, DeleteHeader(Here, n))
    BY <1>1, DeleteHeaderLeaves
  <2>2. QED
    BY <1>5, <2>1, EditKeeps DEF Delete
<1>6. ASSUME NEW n \in Names, NEW e \in Elements, NEW t \in Texts, Element(n, e, t) PROVE Goal
  <2>1. Leaves(Here, RewriteElement(Here, n, e, t))
    BY <1>1, RewriteElementLeaves, SipMessageAssumption
  <2>2. QED
    BY <1>6, <2>1, EditKeeps DEF Element
<1>7. ASSUME NEW f \in Fields, NEW t \in Texts, SetField(f[1], f[2], t) PROVE Goal
  <2>1. f[1] \in Chars /\ f[2] \in UriElements \cup {"whole"} /\ t \in Chars
    BY SipMessageAssumption
  <2>2. QED
    BY <1>7, <2>1, SetRequestUriKeeps, SetFieldOfKeeps DEF SetField
<1>8. ASSUME Serialize PROVE Goal
  BY <1>8, SerializeKeeps
<1>9. ASSUME UNCHANGED vars PROVE Goal
  BY <1>9, GrownReflexive DEF vars, MessageInvariant
<1> HIDE DEF Goal
<1>10. Goal
  BY <1>2, <1>3, <1>4, <1>5, <1>6, <1>7, <1>8, <1>9 DEF Next
<1>11. QED
  BY <1>10 DEF Goal

LEMMA MessageStaysSound == Spec => []MessageInvariant
<1>1. MessageInvariant /\ [Next]_vars => MessageInvariant'
  BY StepKeeps
<1>2. QED
  BY <1>1, InitSound, PTL DEF Spec

-----------------------------------------------------------------------------
(* The theorems *)

LEMMA SlicesAreHeld ==
  ASSUME MessageInvariant
  PROVE  \A s \in Slices : Handed(arena, s)
BY DEF MessageInvariant, Held, Slices

\* The arena's mark stays within it, and the header array within its slots,
\* whatever the worker's modules call (HmrArena::alloc, add_header).
THEOREM TypeCorrect == Spec => []TypeOK
<1>1. MessageInvariant => TypeOK
  <2>1. SUFFICES ASSUME MessageInvariant PROVE TypeOK
    OBVIOUS
  <2>2. arena.used \in 0..Capacity /\ DOMAIN arena.cells = 1..Capacity
    BY <2>1 DEF MessageInvariant, ArenaType
  <2>3. \A s \in Slices : s.in \in {"raw", "arena", "null"} /\ s.at \in Nat /\ s.len \in Nat
    BY <2>1, SlicesAreHeld DEF Handed, SliceType
  <2>4. QED
    BY <2>1, <2>2, <2>3 DEF MessageInvariant, Held, TypeOK
<1>2. QED
  BY <1>1, MessageStaysSound, PTL

\* Nothing the message shows lies above the arena's mark, where the next call
\* writes (Slice, HmrArena::alloc).
THEOREM SlicesStayAllocated == Spec => []SlicesAreAllocated
<1>1. MessageInvariant => SlicesAreAllocated
  BY SlicesAreHeld DEF SlicesAreAllocated, Handed
<1>2. QED
  BY <1>1, MessageStaysSound, PTL

\* "Reads can never go stale within a packet" (sip_message.hpp:31-32), for any
\* packets, rules, arena and header array.
THEOREM ReadsStayFresh == Spec => ReadsAreNeverStale
<1> DEFINE Fresh ==
      received' = received =>
        /\ \A i \in DOMAIN headers :
             /\ headers'[i].name = headers[i].name => Read(headers[i].name)' = Read(headers[i].name)
             /\ headers'[i].value = headers[i].value => Read(headers[i].value)' = Read(headers[i].value)
        /\ ruri' = ruri => Read(ruri)' = Read(ruri)
        /\ wire' = wire => Read(wire)' = Read(wire)
<1>1. MessageInvariant /\ [Next]_vars => Fresh
  <2>1. SUFFICES ASSUME MessageInvariant, [Next]_vars, received' = received PROVE Fresh
    OBVIOUS
  <2>2. arena \in ArenaType /\ arena' \in ArenaType /\ Grown(arena, arena')
    BY <2>1, StepKeeps DEF MessageInvariant
  <2>3. \A s : Handed(arena, s) => Show(arena.cells', s) = Show(arena.cells, s)
    BY <2>2, ShowGrown
  <2>4. \A i \in DOMAIN headers : Handed(arena, headers[i].name) /\ Handed(arena, headers[i].value)
    BY <2>1 DEF MessageInvariant, Held
  <2>5. Handed(arena, ruri) /\ Handed(arena, wire)
    BY <2>1 DEF MessageInvariant
  <2>6. QED
    BY <2>3, <2>4, <2>5 DEF Read
<1>2. MessageInvariant /\ [Next]_vars => [Fresh]_vars
  BY <1>1
<1> HIDE DEF Fresh
<1>3. Spec => [][Fresh]_vars
  BY <1>2, MessageStaysSound, PTL DEF Spec
<1>4. QED
  BY <1>3 DEF ReadsAreNeverStale, Fresh

-----------------------------------------------------------------------------
(* What is sent *)

LEMMA CharsConcat ==
  \A x, y, z \in Chars : (x \o y) \o z = x \o (y \o z)
BY ConcatAssociative DEF Chars

LEMMA LineOfPieces ==
  ASSUME NEW f \in Line
  PROVE  FlattenSeq(FieldPieces(f)) = LineOf(f) /\ LineOf(f) \in Chars
<1> DEFINE p == FieldPieces(f)
<1>1. p \in Seq(Chars) /\ Len(p) = 4
  BY FieldPiecesType DEF FieldPieces
<1>2. p[1] = f.name /\ p[2] = <<": ">> /\ p[3] = f.value /\ p[4] = <<"CRLF">>
  BY DEF FieldPieces
<1> HIDE DEF p
<1>3. FlattenSeq(p) = p[1] \o p[2] \o p[3] \o p[4] /\ FlattenSeq(p) \in Chars
  BY <1>1, FlattenFour DEF Chars
<1>4. FlattenSeq(p) = LineOf(f)
  BY <1>2, <1>3 DEF LineOf
<1>5. QED
  BY <1>3, <1>4 DEF p

\* The texts serialize puts make up the message as rendered.
LEMMA PiecesRender ==
  ASSUME MessageInvariant
  PROVE  FlattenSeq(Pieces)
           = Rendering(packet.before \o SentUri \o packet.after, LiveFields, packet.body)
<1> DEFINE middle == [i \in DOMAIN LiveFields |-> FieldPieces(LiveFields[i])]
           lines  == [i \in DOMAIN LiveFields |-> LineOf(LiveFields[i])]
           start  == packet.before \o SentUri \o packet.after
           head   == <<packet.before, SentUri, packet.after, <<"CRLF">>>>
           tail   == <<<<"CRLF">>, packet.body>>
<1>1. LiveFields \in Seq(Line)
  BY LiveFieldsType
<1>2. Pieces = head \o FlattenSeq(middle) \o tail
  BY DEF Pieces, FieldPieces
<1>3. /\ packet.before \in Chars /\ SentUri \in Chars /\ packet.after \in Chars
      /\ packet.body \in Chars /\ <<"CRLF">> \in Chars
  BY RequestUriType, DatagramTypes, Separators DEF MessageInvariant
<1>4. \A i \in DOMAIN LiveFields :
         /\ middle[i] \in Seq(Chars) /\ FlattenSeq(middle[i]) = LineOf(LiveFields[i])
         /\ lines[i] \in Chars
  BY <1>1, FieldPiecesType, LineOfPieces
<1>5. DOMAIN middle = DOMAIN LiveFields /\ DOMAIN lines = DOMAIN LiveFields
      /\ middle = [i \in DOMAIN middle |-> middle[i]] /\ lines = [i \in DOMAIN lines |-> lines[i]]
  OBVIOUS
<1>6. lines = [i \in DOMAIN middle |-> FlattenSeq(middle[i])]
  BY <1>4, <1>5
<1> HIDE DEF middle, lines
<1>7. middle \in Seq(Seq(Chars)) /\ lines \in Seq(Chars)
  BY <1>1, <1>4, <1>5, MapType
<1>8. FlattenSeq(FlattenSeq(middle)) = FlattenSeq(lines)
  BY <1>6, <1>7, FlattenFlatten DEF Chars
<1>9. FlattenSeq(middle) \in Seq(Chars) /\ FlattenSeq(lines) \in Chars
  BY <1>7, FlattenType DEF Chars
<1>10. head \in Seq(Chars) /\ tail \in Seq(Chars)
  BY <1>3, TupleTypes
<1>11. FlattenSeq(head) = start \o <<"CRLF">> /\ FlattenSeq(tail) = <<"CRLF">> \o packet.body
  <2>1. /\ Len(head) = 4 /\ head[1] = packet.before /\ head[2] = SentUri
        /\ head[3] = packet.after /\ head[4] = <<"CRLF">>
    OBVIOUS
  <2> HIDE DEF head
  <2>2. FlattenSeq(head) = head[1] \o head[2] \o head[3] \o head[4]
    BY <1>10, <2>1, FlattenFour DEF Chars
  <2>3. FlattenSeq(head) = start \o <<"CRLF">>
    BY <2>1, <2>2
  <2>4. FlattenSeq(<<<<"CRLF">>, packet.body>>) = <<"CRLF">> \o packet.body
    BY <1>3, FlattenTwo DEF Chars
  <2>5. QED
    BY <2>3, <2>4
<1> HIDE DEF head, tail
<1>12. FlattenSeq(Pieces) = FlattenSeq(head) \o FlattenSeq(lines) \o FlattenSeq(tail)
  <2>1. head \o FlattenSeq(middle) \in Seq(Chars)
    BY <1>9, <1>10
  <2>2. FlattenSeq(Pieces) = FlattenSeq(head \o FlattenSeq(middle)) \o FlattenSeq(tail)
    BY <1>2, <1>10, <2>1, FlattenConcat DEF Chars
  <2>3. FlattenSeq(head \o FlattenSeq(middle)) = FlattenSeq(head) \o FlattenSeq(FlattenSeq(middle))
    BY <1>9, <1>10, FlattenConcat DEF Chars
  <2>4. QED
    BY <1>8, <2>2, <2>3
<1>13. start \o <<"CRLF">> \o FlattenSeq(lines) \in Chars
  BY <1>3, <1>9 DEF Chars
<1>14. FlattenSeq(Pieces) = (start \o <<"CRLF">> \o FlattenSeq(lines)) \o (<<"CRLF">> \o packet.body)
  BY <1>11, <1>12
<1>15. FlattenSeq(Pieces) = ((start \o <<"CRLF">> \o FlattenSeq(lines)) \o <<"CRLF">>) \o packet.body
  <2> DEFINE body == start \o <<"CRLF">> \o FlattenSeq(lines)
  <2>1. body \in Chars /\ <<"CRLF">> \in Chars /\ packet.body \in Chars
    BY <1>3, <1>13
  <2>2. FlattenSeq(Pieces) = body \o (<<"CRLF">> \o packet.body)
    BY <1>14
  <2> HIDE DEF body
  <2>3. body \o (<<"CRLF">> \o packet.body) = (body \o <<"CRLF">>) \o packet.body
    BY <2>1, CharsConcat
  <2>4. QED
    BY <2>2, <2>3 DEF body
<1>16. QED
  BY <1>15 DEF Rendering, lines

Sent == Rendering(packet.before \o SentUri \o packet.after, LiveFields, packet.body)

\* What a call that leaves the slices alone shows is what it showed.
LEMMA ShownUnchanged ==
  ASSUME MessageInvariant, arena' \in ArenaType, Grown(arena, arena'),
         UNCHANGED <<headers, ruri, packet>>
  PROVE  LiveFields' = LiveFields /\ SentUri' = SentUri /\ RequestUri' = RequestUri
<1>1. \A i \in DOMAIN headers : FieldOf(headers[i])' = FieldOf(headers[i])
  <2>1. SUFFICES ASSUME NEW i \in DOMAIN headers
                 PROVE  FieldOf(headers[i])' = FieldOf(headers[i])
    OBVIOUS
  <2>2. Handed(arena, headers[i].name) /\ Handed(arena, headers[i].value) /\ arena \in ArenaType
    BY DEF MessageInvariant, Held
  <2>3. /\ Show(arena.cells', headers[i].name) = Show(arena.cells, headers[i].name)
        /\ Show(arena.cells', headers[i].value) = Show(arena.cells, headers[i].value)
    BY <2>2, ShowGrown
  <2>4. QED
    BY <2>3 DEF FieldOf, Read
<1>2. LiveFields' = LiveFields
  BY <1>1 DEF LiveFields
<1>3. Read(ruri)' = Read(ruri)
  BY ShowGrown DEF MessageInvariant, Read
<1>4. QED
  BY <1>2, <1>3 DEF RequestUri, SentUri

\* The wire a successful serialize leaves is the message rendered.
LEMMA SerializeSends ==
  ASSUME MessageInvariant, Serialize, call'.ok
  PROVE  Read(wire)' = Sent /\ UNCHANGED <<headers, ruri, packet>> /\ calls' = calls + 1
<1> DEFINE put  == PutAll(arena, Pieces)
           text == FlattenSeq(Pieces)
<1>1. arena \in ArenaType /\ Pieces \in Seq(Chars) /\ text \in Chars
  <2>1. Pieces \in Seq(Seq(Token))
    BY PiecesType DEF Chars
  <2>2. text \in Seq(Token)
    BY <2>1, FlattenType
  <2>3. QED
    BY <2>2, PiecesType DEF MessageInvariant, Chars
<1>2. /\ UNCHANGED <<headers, ruri, packet>> /\ calls' = calls + 1
      /\ arena' = put.arena /\ put.ok
      /\ wire' = InArena(arena.used, put.arena.used - arena.used)
  BY DEF Serialize, Done
<1>3. Fits(arena, text) /\ put.arena = Alloc(arena, text)
  BY <1>1, <1>2, PutAllGrows
<1> HIDE DEF put
<1>4. put.arena.used - arena.used = Len(text)
  <2>1. put.arena.used = arena.used + Len(text)
    BY <1>1, <1>3, AllocGrows
  <2>2. arena.used \in Nat /\ Len(text) \in Nat
    BY <1>1 DEF ArenaType, Chars
  <2> HIDE DEF text
  <2>3. QED
    BY <2>1, <2>2
<1>5. Show(arena'.cells, wire') = text
  BY <1>1, <1>2, <1>3, <1>4, AllocShows
<1>6. text = Sent
  BY PiecesRender DEF Sent
<1>7. QED
  BY <1>2, <1>5, <1>6 DEF Read

LEMMA OtherCalls ==
  ASSUME Next, ~Serialize
  PROVE  call'.op # "serialize"
<1>1. ASSUME NEW op \in {"set", "add", "delete", "element", "field"}, NEW n, NEW e, NEW t, NEW m,
             Done(op, n, e, t, m)
      PROVE  call'.op # "serialize"
  BY <1>1 DEF Done
<1>2. ASSUME NEW op \in {"set", "add", "delete", "element", "field"}, NEW n, NEW e, NEW t, NEW m,
             Edit(op, n, e, t, m)
      PROVE  call'.op # "serialize"
  BY <1>1, <1>2 DEF Edit
<1>3. ASSUME NEW p \in Packets, Receive(p) PROVE call'.op # "serialize"
  BY <1>3 DEF Receive
<1>4. ASSUME NEW n \in Names, NEW t \in Texts, Set(n, t) \/ Add(n, t)
      PROVE  call'.op # "serialize"
  BY <1>2, <1>4 DEF Set, Add
<1>5. ASSUME NEW n \in Names, Delete(n) PROVE call'.op # "serialize"
  BY <1>2, <1>5 DEF Delete
<1>6. ASSUME NEW n \in Names, NEW e \in Elements, NEW t \in Texts, Element(n, e, t)
      PROVE  call'.op # "serialize"
  BY <1>2, <1>6 DEF Element
<1>7. ASSUME NEW n, NEW e, NEW t, SetFieldOf(n, e, t) PROVE call'.op # "serialize"
  BY <1>2, <1>7 DEF SetFieldOf
<1>8. ASSUME NEW e, NEW t, SetRequestUri(e, t) PROVE call'.op # "serialize"
  BY <1>1, <1>8 DEF SetRequestUri
<1>9. ASSUME NEW f \in Fields, NEW t \in Texts, SetField(f[1], f[2], t)
      PROVE  call'.op # "serialize"
  BY <1>7, <1>8, <1>9 DEF SetField
<1>10. QED
  BY <1>3, <1>4, <1>5, <1>6, <1>9 DEF Next

\* "Serialize the (possibly mutated) message to wire form" (sip_message.hpp:
\* 113-114): whatever was edited, serialize sends the message the rules see.
THEOREM SentIsTheMessage == Spec => []SentAsEdited
<1>1. Init => SentAsEdited
  BY DEF Init, SentAsEdited
<1>2. ASSUME MessageInvariant, SentAsEdited, [Next]_vars PROVE SentAsEdited'
  <2>1. CASE UNCHANGED vars
    BY <1>2, <2>1
       DEF vars, SentAsEdited, Read, LiveFields, FieldOf, SentUri, RequestUri
  <2>2. CASE Next /\ ~Serialize
    BY <2>2, OtherCalls DEF SentAsEdited
  <2>3. CASE Serialize /\ ~call'.ok
    BY <2>3 DEF SentAsEdited
  <2>4. CASE Serialize /\ call'.ok
    <3>1. Read(wire)' = Sent /\ UNCHANGED <<headers, ruri, packet>>
      BY <1>2, <2>4, SerializeSends
    <3>2. arena' \in ArenaType /\ Grown(arena, arena')
      BY <1>2, <2>4, SerializeKeeps DEF MessageInvariant
    <3>3. LiveFields' = LiveFields /\ SentUri' = SentUri
      BY <1>2, <3>1, <3>2, ShownUnchanged
    <3>4. QED
      BY <3>1, <3>3 DEF Sent, SentAsEdited
  <2>5. QED
    BY <1>2, <2>1, <2>2, <2>3, <2>4
<1>3. QED
  BY <1>1, <1>2, MessageStaysSound, PTL DEF Spec

\* Before the first call the message is the packet as parsed.
Untouched == calls = 0 => headers = ParseHeaders(packet) /\ ruri = Null

LEMMA UntouchedHolds == Spec => []Untouched
<1>1. Init => Untouched
  BY DEF Init, Untouched
<1>2. ASSUME MessageInvariant, Untouched, [Next]_vars PROVE Untouched'
  <2>1. calls \in Nat
    BY <1>2, SipMessageAssumption DEF MessageInvariant
  <2>2. ASSUME NEW op, NEW n, NEW e, NEW t, NEW m, Done(op, n, e, t, m) PROVE calls' # 0
    BY <2>1, <2>2 DEF Done
  <2>3. ASSUME NEW op, NEW n, NEW e, NEW t, NEW m, Edit(op, n, e, t, m) PROVE calls' # 0
    BY <2>2, <2>3 DEF Edit
  <2>4. ASSUME NEW p \in Packets, Receive(p) PROVE Untouched'
    BY <2>4 DEF Receive, Untouched
  <2>5. ASSUME NEW n \in Names, NEW t \in Texts, Set(n, t) \/ Add(n, t) PROVE calls' # 0
    BY <2>3, <2>5 DEF Set, Add
  <2>6. ASSUME NEW n \in Names, Delete(n) PROVE calls' # 0
    BY <2>3, <2>6 DEF Delete
  <2>7. ASSUME NEW n \in Names, NEW e \in Elements, NEW t \in Texts, Element(n, e, t)
        PROVE  calls' # 0
    BY <2>3, <2>7 DEF Element
  <2>8. ASSUME NEW n, NEW e, NEW t, SetFieldOf(n, e, t) PROVE calls' # 0
    BY <2>3, <2>8 DEF SetFieldOf
  <2>9. ASSUME NEW e, NEW t, SetRequestUri(e, t) PROVE calls' # 0
    BY <2>2, <2>9 DEF SetRequestUri
  <2>10. ASSUME NEW f \in Fields, NEW t \in Texts, SetField(f[1], f[2], t) PROVE calls' # 0
    BY <2>8, <2>9, <2>10 DEF SetField
  <2>11. ASSUME Serialize PROVE calls' # 0
    BY <2>2, <2>11 DEF Serialize
  <2>12. CASE UNCHANGED vars
    BY <1>2, <2>12 DEF vars, Untouched
  <2>13. QED
    BY <1>2, <2>4, <2>5, <2>6, <2>7, <2>10, <2>11, <2>12 DEF Next, Untouched
<1>3. QED
  BY <1>1, <1>2, MessageStaysSound, PTL DEF Spec

\* A packet with room in the header array reads as its lines.
LEMMA ParsedReadsAsLines ==
  ASSUME packet \in Packets, Len(HeaderLines(packet)) <= MaxHeaders, headers = ParseHeaders(packet)
  PROVE  LiveFields = HeaderLines(packet)
<1> DEFINE lines == HeaderLines(packet)
           count == Min({Len(lines), MaxHeaders})
           live  == [i \in DOMAIN headers |->
                       IF headers[i].removed THEN <<>> ELSE <<FieldOf(headers[i])>>]
<1>1. lines \in Seq(Line) /\ Len(lines) \in Nat /\ MaxHeaders \in Nat
  BY HeaderLinesType, SipMessageAssumption
<1>2. count = Len(lines)
  <2> DEFINE I == {Len(lines), MaxHeaders}
  <2>1. I \subseteq Nat /\ I # {} /\ Len(lines) \in I
    BY <1>1
  <2>2. Min(I) \in I /\ \A k \in I : Min(I) <= k
    BY <2>1, MinOfNats
  <2>3. Min(I) = Len(lines) \/ Min(I) = MaxHeaders
    BY <2>2
  <2>4. Min(I) <= Len(lines) /\ Len(lines) <= MaxHeaders
    BY <2>1, <2>2
  <2> HIDE DEF I
  <2>5. Min(I) = Len(lines)
    <3> HIDE DEF lines
    <3>1. QED
      BY <1>1, <2>3, <2>4
  <2>6. QED
    BY <2>5 DEF I
<1>3. SubSeq(lines, 1, count) = lines
  BY <1>1, <1>2, SubSeqFull
<1>4. headers = [i \in DOMAIN lines |->
                   [name |-> Raw(lines[i].name), value |-> Raw(lines[i].value), removed |-> FALSE]]
  BY <1>3 DEF ParseHeaders
<1> HIDE DEF count, lines
<1>5. ASSUME NEW i \in DOMAIN lines PROVE live[i] = <<lines[i]>>
  <2>1. lines[i] \in Line
    BY <1>1
  <2>2. headers[i] = [name |-> Raw(lines[i].name), value |-> Raw(lines[i].value), removed |-> FALSE]
    BY <1>4
  <2>3. Read(Raw(lines[i].name)) = lines[i].name /\ Read(Raw(lines[i].value)) = lines[i].value
    BY DEF Read, Show, Raw
  <2>4. FieldOf(headers[i]) = lines[i]
    BY <2>1, <2>2, <2>3 DEF FieldOf, Line
  <2>5. QED
    BY <1>4, <2>2, <2>4
<1>6. live = [i \in DOMAIN lines |-> <<lines[i]>>]
  BY <1>4, <1>5
<1>7. FlattenSeq(live) = lines
  BY <1>1, <1>6, FlattenSingletons
<1>8. QED
  BY <1>7 DEF LiveFields, lines

\* "Serialize the (possibly mutated) message to wire form" (sip_message.hpp:
\* 113-114): as long as a packet's headers fit the array, one that nobody
\* edits goes out with every header it came with.
THEOREM UneditedIsUnchanged ==
  ASSUME \A p \in Packets : Len(HeaderLines(p)) <= MaxHeaders
  PROVE  Spec => []UneditedIsSentUnchanged
<1>1. Init => UneditedIsSentUnchanged
  BY DEF Init, UneditedIsSentUnchanged
<1>2. ASSUME MessageInvariant, Untouched, UneditedIsSentUnchanged, [Next]_vars
      PROVE  UneditedIsSentUnchanged'
  <2>1. CASE UNCHANGED vars
    BY <1>2, <2>1 DEF vars, UneditedIsSentUnchanged, Read
  <2>2. CASE Next /\ ~Serialize
    BY <2>2, OtherCalls DEF UneditedIsSentUnchanged
  <2>3. CASE Serialize /\ ~(call'.ok /\ calls' = 1)
    BY <2>3 DEF UneditedIsSentUnchanged
  <2>4. CASE Serialize /\ call'.ok /\ calls' = 1
    <3>1. Read(wire)' = Sent /\ UNCHANGED <<headers, ruri, packet>> /\ calls' = calls + 1
      BY <1>2, <2>4, SerializeSends
    <3>2. calls \in Nat
      BY <1>2, SipMessageAssumption DEF MessageInvariant
    <3>3. calls = 0
      BY <2>4, <3>1, <3>2
    <3>4. headers = ParseHeaders(packet) /\ ruri = Null
      BY <1>2, <3>3 DEF Untouched
    <3>5. LiveFields = HeaderLines(packet)
      BY <1>2, <3>4, ParsedReadsAsLines DEF MessageInvariant
    <3>6. SentUri = packet.uri
      BY <3>4 DEF SentUri, RequestUri
    <3>7. HeaderLines(packet)' = HeaderLines(packet)
      BY <3>1 DEF HeaderLines
    <3>8. QED
      BY <3>1, <3>5, <3>6, <3>7 DEF Sent, UneditedIsSentUnchanged
  <2>5. QED
    BY <1>2, <2>1, <2>2, <2>3, <2>4
<1>3. QED
  BY <1>1, <1>2, MessageStaysSound, UntouchedHolds, PTL DEF Spec

-----------------------------------------------------------------------------
(* The list of fields *)

\* What one place of the header array contributes to the list.
Slot(cells, h) ==
  IF h.removed THEN <<>> ELSE <<[name |-> Show(cells, h.name), value |-> Show(cells, h.value)]>>

Slots(m) == [i \in DOMAIN m.headers |-> Slot(m.arena.cells, m.headers[i])]

Live(m) == FlattenSeq(Slots(m))

LEMMA SlotType ==
  ASSUME NEW m, Sound(m), NEW i \in 1 .. Len(m.headers)
  PROVE  LET h == m.headers[i]
             f == [name |-> Show(m.arena.cells, h.name), value |-> Show(m.arena.cells, h.value)]
         IN  /\ h \in HeaderType /\ f \in Line
             /\ Slots(m)[i] = IF h.removed THEN <<>> ELSE <<f>>
             /\ Slots(m)[i] \in Seq(Line)
<1> DEFINE h == m.headers[i]
           f == [name |-> Show(m.arena.cells, h.name), value |-> Show(m.arena.cells, h.value)]
<1>1. i \in DOMAIN m.headers /\ h \in HeaderType
  BY DEF Sound
<1>2. m.arena \in ArenaType /\ Handed(m.arena, h.name) /\ Handed(m.arena, h.value)
  BY <1>1 DEF Sound, Held
<1>3. Show(m.arena.cells, h.name) \in Chars /\ Show(m.arena.cells, h.value) \in Chars
  BY <1>2, ShowType
<1>4. f \in Line
  BY <1>3 DEF Line
<1>5. Slots(m)[i] = IF h.removed THEN <<>> ELSE <<f>>
  BY <1>1 DEF Slots, Slot
<1> HIDE DEF f
<1>6. <<>> \in Seq(Line) /\ <<f>> \in Seq(Line)
  BY <1>4
<1>7. Slots(m)[i] \in Seq(Line)
  BY <1>5, <1>6
<1>8. QED
  BY <1>1, <1>4, <1>5, <1>7 DEF f

LEMMA LiveType ==
  ASSUME NEW m, Sound(m)
  PROVE  /\ Slots(m) \in Seq(Seq(Line)) /\ Len(Slots(m)) = Len(m.headers)
         /\ Len(m.headers) \in Nat /\ Live(m) \in Seq(Line)
<1>1. Len(m.headers) \in Nat /\ DOMAIN m.headers = 1 .. Len(m.headers)
  BY DEF Sound
<1>2. \A i \in 1 .. Len(m.headers) : Slots(m)[i] \in Seq(Line)
  BY SlotType
<1>3. Slots(m) \in [1 .. Len(m.headers) -> Seq(Line)]
  BY <1>1, <1>2 DEF Slots
<1>4. Slots(m) \in Seq(Seq(Line)) /\ Len(Slots(m)) = Len(m.headers)
  BY <1>1, <1>3
<1>5. QED
  BY <1>1, <1>4, FlattenType DEF Live

\* A place whose header an operation leaves alone.
LEMMA SlotGrown ==
  ASSUME NEW m, Sound(m), NEW r, Sound(r), Grown(m.arena, r.arena),
         NEW i \in 1 .. Len(m.headers), i \in 1 .. Len(r.headers), r.headers[i] = m.headers[i]
  PROVE  Slots(r)[i] = Slots(m)[i]
<1> DEFINE h == m.headers[i]
<1>1. i \in DOMAIN m.headers /\ i \in DOMAIN r.headers
  BY DEF Sound
<1>2. Handed(m.arena, h.name) /\ Handed(m.arena, h.value) /\ m.arena \in ArenaType /\ r.arena \in ArenaType
  BY <1>1 DEF Sound, Held
<1>3. /\ Show(r.arena.cells, h.name) = Show(m.arena.cells, h.name)
      /\ Show(r.arena.cells, h.value) = Show(m.arena.cells, h.value)
  BY <1>2, ShowGrown
<1>4. QED
  BY <1>1, <1>3 DEF Slots, Slot

LEMMA LiveGrown ==
  ASSUME NEW m, Sound(m), NEW r, Sound(r), Grown(m.arena, r.arena), r.headers = m.headers
  PROVE  Live(r) = Live(m)
<1>1. \A i \in 1 .. Len(m.headers) : Slots(r)[i] = Slots(m)[i]
  BY SlotGrown
<1>2. Slots(r) = Slots(m)
  BY <1>1, LiveType, SameElements
<1>3. QED
  BY <1>2 DEF Live

-----------------------------------------------------------------------------
(* Looking up *)

LEMMA PositionIs ==
  ASSUME NEW fields \in Seq(Line), NEW n, NEW k \in 1 .. Len(fields), SameName(fields[k].name, n),
         \A j \in 1 .. k - 1 : ~SameName(fields[j].name, n)
  PROVE  Contract!Position(fields, n) = k
<1> DEFINE I == {j \in 1 .. Len(fields) : SameName(fields[j].name, n)}
<1>1. Contract!Position(fields, n) = IF I # {} THEN Min(I) ELSE 0
  BY Zenon DEF Contract!Position, Contract!SelectInSeq, Contract!Min, Min
<1>2. k \in I /\ I \subseteq Nat /\ \A j \in I : k <= j
  OBVIOUS
<1> HIDE DEF I
<1>3. Min(I) \in I /\ \A j \in I : Min(I) <= j
  BY <1>2, MinOfNats
<1>4. Min(I) \in Nat /\ k \in Nat /\ Min(I) <= k /\ k <= Min(I) /\ I # {}
  BY <1>2, <1>3
<1>5. QED
  BY <1>1, <1>4

LEMMA PositionNone ==
  ASSUME NEW fields \in Seq(Line), NEW n, \A j \in 1 .. Len(fields) : ~SameName(fields[j].name, n)
  PROVE  Contract!Position(fields, n) = 0
<1> DEFINE I == {j \in 1 .. Len(fields) : SameName(fields[j].name, n)}
<1>1. Contract!Position(fields, n) = IF I # {} THEN Min(I) ELSE 0
  BY Zenon DEF Contract!Position, Contract!SelectInSeq, Contract!Min, Min
<1>2. I = {}
  OBVIOUS
<1>3. QED
  BY <1>1, <1>2

\* find on the array and Position on the list meet the same field.
LEMMA FoundLive ==
  ASSUME NEW m, Sound(m), NEW n
  PROVE  LET i == Find(m, n)
             k == Contract!Position(Live(m), n)
             h == m.headers[i]
         IN  /\ i = 0 => k = 0
             /\ i # 0 =>
                  /\ k \in 1 .. Len(Live(m))
                  /\ Live(m)[k] = [name |-> Show(m.arena.cells, h.name), value |-> Show(m.arena.cells, h.value)]
                  /\ \A g \in Line : FlattenSeq([Slots(m) EXCEPT ![i] = <<g>>]) = [Live(m) EXCEPT ![k] = g]
<1> DEFINE i == Find(m, n)
           k == Contract!Position(Live(m), n)
           h == m.headers[i]
           f == [name |-> Show(m.arena.cells, h.name), value |-> Show(m.arena.cells, h.value)]
           Others == {g \in Line : ~SameName(g.name, n)}
<1>1. /\ Slots(m) \in Seq(Seq(Line)) /\ Len(Slots(m)) = Len(m.headers)
      /\ Len(m.headers) \in Nat /\ Live(m) \in Seq(Line) /\ i \in 0 .. Len(m.headers)
  BY LiveType, FindRange
<1>2. ASSUME NEW j \in 1 .. Len(m.headers), ~Matches(m, m.headers[j], n)
      PROVE  Slots(m)[j] \in Seq(Others)
  <2> DEFINE e == [name |-> Show(m.arena.cells, m.headers[j].name), value |-> Show(m.arena.cells, m.headers[j].value)]
  <2>1. e \in Line /\ Slots(m)[j] = IF m.headers[j].removed THEN <<>> ELSE <<e>>
    BY SlotType
  <2>2. ~m.headers[j].removed => ~SameName(e.name, n)
    BY <1>2 DEF Matches, SameName
  <2> HIDE DEF e
  <2>3. ~m.headers[j].removed => <<e>> \in Seq(Others)
    BY <2>1, <2>2
  <2>4. <<>> \in Seq(Others)
    OBVIOUS
  <2>5. QED
    BY <2>1, <2>3, <2>4
<1>3. ASSUME i = 0 PROVE k = 0
  <2>1. \A j \in 1 .. Len(m.headers) : Slots(m)[j] \in Seq(Others)
    BY <1>2, <1>3, FindRange
  <2>2. Slots(m) \in Seq(Seq(Others))
    BY <1>1, <2>1, SMTT(20)
  <2>3. Live(m) \in Seq(Others)
    BY <2>2, FlattenType DEF Live
  <2>4. \A j \in 1 .. Len(Live(m)) : Live(m)[j] \in Others
    BY <2>3
  <2>5. \A j \in 1 .. Len(Live(m)) : ~SameName(Live(m)[j].name, n)
    BY <2>4
  <2>6. QED
    BY <1>1, <2>5, PositionNone
<1>4. ASSUME i # 0
      PROVE  /\ k \in 1 .. Len(Live(m)) /\ Live(m)[k] = f
             /\ \A g \in Line : FlattenSeq([Slots(m) EXCEPT ![i] = <<g>>]) = [Live(m) EXCEPT ![k] = g]
  <2> DEFINE front == SubSeq(Slots(m), 1, i - 1)
             p     == FlattenSeq(front)
  <2>1. i \in 1 .. Len(Slots(m)) /\ i \in 1 .. Len(m.headers)
    BY <1>1, <1>4
  <2>2. /\ Matches(m, h, n)
        /\ \A j \in 1 .. i - 1 : ~Matches(m, m.headers[j], n)
    BY <1>4, FindRange
  <2>3. f \in Line /\ Slots(m)[i] = <<f>> /\ SameName(f.name, n)
    <3>1. f \in Line /\ Slots(m)[i] = IF h.removed THEN <<>> ELSE <<f>>
      BY <2>1, SlotType
    <3>2. QED
      BY <2>2, <3>1 DEF Matches, SameName
  <2> HIDE DEF f, h
  <2>4. ASSUME NEW g \in Line
        PROVE  /\ p \in Seq(Line) /\ Len(p) + 1 <= Len(Live(m)) /\ Live(m)[Len(p) + 1] = f
               /\ \A j \in 1 .. Len(p) : Live(m)[j] = p[j]
               /\ FlattenSeq([Slots(m) EXCEPT ![i] = <<g>>]) = [Live(m) EXCEPT ![Len(p) + 1] = g]
    <3> DEFINE w == Slots(m)
    <3>1. Holds(Line, w, i, f)
      BY <1>1, <2>1, <2>3 DEF Holds
    <3> HIDE DEF w, i
    <3>2. StandsAfter(Line, FlattenSeq(w), FlattenSeq(SubSeq(w, 1, i - 1)), f, g,
                      FlattenSeq([w EXCEPT ![i] = <<g>>]))
      BY <3>1, FlattenSlot
    <3>3. QED
      BY <3>2 DEF StandsAfter, Live, w, i
  <2>5. front \in Seq(Seq(Others))
    <3>1. Len(front) = i - 1 /\ front \in Seq(Seq(Line)) /\ \A j \in 1 .. i - 1 : front[j] = Slots(m)[j]
      BY <1>1, <2>1
    <3>2. \A j \in 1 .. i - 1 : j \in 1 .. Len(m.headers)
      BY <1>1, <2>1
    <3>3. \A j \in 1 .. i - 1 : front[j] \in Seq(Others)
      BY <1>2, <2>2, <3>1, <3>2
    <3> HIDE DEF front, Others
    <3>4. QED
      BY <3>1, <3>3
  <2>6. p \in Seq(Others)
    BY <2>5, FlattenType
  <2> HIDE DEF p, front
  <2>7. /\ p \in Seq(Line) /\ Len(p) + 1 <= Len(Live(m)) /\ Live(m)[Len(p) + 1] = f
        /\ \A j \in 1 .. Len(p) : Live(m)[j] = p[j]
    BY <2>3, <2>4
  <2>8. Len(p) \in Nat /\ \A j \in 1 .. Len(p) : p[j] \in Others
    BY <2>6
  <2>9. Len(p) + 1 \in 1 .. Len(Live(m)) /\ Len(p) + 1 - 1 = Len(p)
    BY <1>1, <2>7, <2>8
  <2>10. \A j \in 1 .. Len(p) : ~SameName(Live(m)[j].name, n)
    BY <2>7, <2>8
  <2>11. k = Len(p) + 1
    <3> DEFINE fields == Live(m)
               q      == Len(p) + 1
    <3>1. /\ fields \in Seq(Line) /\ q \in 1 .. Len(fields) /\ SameName(fields[q].name, n)
          /\ \A j \in 1 .. q - 1 : ~SameName(fields[j].name, n)
      BY <1>1, <2>3, <2>7, <2>9, <2>10
    <3> HIDE DEF fields, q
    <3>2. Contract!Position(fields, n) = q
      BY <3>1, PositionIs
    <3>3. QED
      BY <3>2 DEF fields, q, k
  <2> HIDE DEF k
  <2>12. QED
    BY <2>4, <2>7, <2>9, <2>11
<1>5. QED
  BY <1>3, <1>4

LEMMA ValueLive ==
  ASSUME NEW m, Sound(m), NEW n
  PROVE  Contract!Value(Live(m), n) = Show(m.arena.cells, GetHeader(m, n))
<1>1. CASE Find(m, n) = 0
  <2>1. Contract!Position(Live(m), n) = 0
    BY <1>1, FoundLive
  <2>2. Show(m.arena.cells, GetHeader(m, n)) = <<>>
    BY <1>1 DEF GetHeader, Null, Show
  <2>3. QED
    BY <2>1, <2>2 DEF Contract!Value
<1>2. CASE Find(m, n) # 0
  <2> DEFINE k == Contract!Position(Live(m), n)
             h == m.headers[Find(m, n)]
  <2>1. k # 0 /\ Live(m)[k] = [name |-> Show(m.arena.cells, h.name), value |-> Show(m.arena.cells, h.value)]
    BY <1>2, FoundLive
  <2>2. GetHeader(m, n) = h.value
    BY <1>2 DEF GetHeader
  <2>3. QED
    BY <2>1, <2>2 DEF Contract!Value
<1>3. QED
  BY <1>1, <1>2

-----------------------------------------------------------------------------
(* What each operation does to the list *)

\* Re-pointing the value that was found is Put.
LEMMA RepointLive ==
  ASSUME NEW m, Sound(m), NEW a \in ArenaType, Grown(m.arena, a), NEW n, Find(m, n) # 0,
         NEW s, Handed(a, s)
  PROVE  Live([m EXCEPT !.arena = a, !.headers[Find(m, n)].value = s])
           = Contract!Put(Live(m), n, Show(a.cells, s))
<1> DEFINE i == Find(m, n)
           k == Contract!Position(Live(m), n)
           h == m.headers[i]
           t == Show(a.cells, s)
           r == [m EXCEPT !.arena = a, !.headers[i].value = s]
           f == [name |-> Show(m.arena.cells, h.name), value |-> Show(m.arena.cells, h.value)]
           g == [name |-> Show(m.arena.cells, h.name), value |-> t]
<1>1. i \in 1 .. Len(m.headers) /\ Len(m.headers) \in Nat /\ m.headers \in Seq(HeaderType)
  BY FindRange DEF Sound
<1>2. Leaves(m, r)
  BY <1>1, RepointLeaves
<1>3. r.arena = a /\ r.headers = [m.headers EXCEPT ![i].value = s]
  BY DEF Sound
<1>4. h \in HeaderType /\ ~h.removed
  BY <1>1, FindRange DEF Matches
<1>5. /\ Len(r.headers) = Len(m.headers)
      /\ r.headers[i].value = s /\ r.headers[i].name = h.name /\ ~r.headers[i].removed
      /\ \A j \in 1 .. Len(m.headers) : j # i => r.headers[j] = m.headers[j]
  BY <1>1, <1>3, <1>4 DEF HeaderType
<1>6. k \in 1 .. Len(Live(m)) /\ Live(m)[k] = f
      /\ \A e \in Line : FlattenSeq([Slots(m) EXCEPT ![i] = <<e>>]) = [Live(m) EXCEPT ![k] = e]
  BY FoundLive
<1> HIDE DEF r
<1>7. Sound(r) /\ Grown(m.arena, r.arena) /\ i \in 1 .. Len(r.headers)
  BY <1>1, <1>2, <1>5 DEF Leaves
<1>8. Slots(r)[i] = <<g>> /\ g \in Line
  <2>1. /\ [name |-> Show(a.cells, h.name), value |-> t] \in Line
        /\ Slots(r)[i] = <<[name |-> Show(a.cells, h.name), value |-> t]>>
    <3> DEFINE e == [name |-> Show(r.arena.cells, r.headers[i].name),
                     value |-> Show(r.arena.cells, r.headers[i].value)]
    <3>1. e \in Line /\ Slots(r)[i] = IF r.headers[i].removed THEN <<>> ELSE <<e>>
      BY <1>7, SlotType
    <3>2. e = [name |-> Show(a.cells, h.name), value |-> t]
      BY <1>3, <1>5
    <3> HIDE DEF e
    <3>3. QED
      BY <1>5, <3>1, <3>2
  <2>2. m.arena \in ArenaType /\ Handed(m.arena, h.name)
    BY <1>1 DEF Sound, Held
  <2>3. Show(a.cells, h.name) = Show(m.arena.cells, h.name)
    BY <2>2, ShowGrown
  <2>4. QED
    BY <2>1, <2>3
<1>9. \A j \in 1 .. Len(m.headers) : j # i => Slots(r)[j] = Slots(m)[j]
  BY <1>5, <1>7, SlotGrown
<1> HIDE DEF g, i, k
<1>10. Slots(r) = [Slots(m) EXCEPT ![i] = <<g>>]
  <2> DEFINE u == [Slots(m) EXCEPT ![i] = <<g>>]
  <2>1. /\ Slots(m) \in Seq(Seq(Line)) /\ Len(Slots(m)) = Len(m.headers)
        /\ Slots(r) \in Seq(Seq(Line)) /\ Len(Slots(r)) = Len(m.headers)
    BY <1>5, <1>7, LiveType
  <2>2. <<g>> \in Seq(Line)
    BY <1>8
  <2>3. u \in Seq(Seq(Line)) /\ Len(u) = Len(m.headers) /\ u[i] = <<g>>
        /\ \A j \in 1 .. Len(m.headers) : j # i => u[j] = Slots(m)[j]
    BY <1>1, <2>1, <2>2
  <2> HIDE DEF u
  <2>4. \A j \in 1 .. Len(m.headers) : Slots(r)[j] = u[j]
    BY <1>8, <1>9, <2>3
  <2>5. Slots(r) = u
    BY <2>1, <2>3, <2>4, SameElements
  <2>6. QED
    BY <2>5 DEF u
<1>11. Live(r) = [Live(m) EXCEPT ![k] = g]
  BY <1>6, <1>8, <1>10 DEF Live
<1>12. Contract!Put(Live(m), n, t) = [Live(m) EXCEPT ![k] = g]
  <2>1. k # 0 /\ [Live(m)[k] EXCEPT !.value = t] = g
    BY <1>6 DEF g
  <2>2. Contract!Put(Live(m), n, t) = [Live(m) EXCEPT ![k] = [Live(m)[k] EXCEPT !.value = t]]
    BY <2>1 DEF Contract!Put, k
  <2>3. QED
    BY <2>1, <2>2
<1>13. QED
  BY <1>11, <1>12 DEF r, i

LEMMA RefusedLive ==
  ASSUME NEW m, Sound(m)
  PROVE  Live(Refused(m)) = Live(m) /\ ~Refused(m).ok
<1>1. Leaves(m, Refused(m)) /\ Refused(m).headers = m.headers /\ ~Refused(m).ok
  BY RefusedLeaves DEF Refused, Sound
<1>2. QED
  BY <1>1, LiveGrown DEF Leaves

LEMMA AddLive ==
  ASSUME NEW m, Sound(m), NEW n \in Chars, NEW t \in Chars
  PROVE  LET r == AddHeader(m, n, t)
         IN  Live(r) = IF r.ok THEN Contract!Added(Live(m), n, t) ELSE Live(m)
<1> DEFINE named == Alloc(m.arena, n)
           full  == Len(m.headers) >= MaxHeaders \/ ~Fits(m.arena, n)
           half  == Len(m.headers) < MaxHeaders /\ Fits(m.arena, n) /\ ~Fits(named, t)
           h     == [name |-> View(m.arena, n), value |-> View(named, t), removed |-> FALSE]
           a     == Alloc(named, t)
           f     == [name |-> n, value |-> t]
           r     == AddHeader(m, n, t)
           Goal  == Live(r) = IF r.ok THEN Contract!Added(Live(m), n, t) ELSE Live(m)
<1>1. /\ m.arena \in ArenaType /\ m.headers \in Seq(HeaderType)
      /\ Len(m.headers) \in Nat /\ MaxHeaders \in Nat
  BY SipMessageAssumption DEF Sound
<1>2. CASE full
  <2>1. r = Refused(m)
    BY <1>1, <1>2 DEF AddHeader
  <2>2. QED
    BY <2>1, RefusedLive
<1>3. CASE half
  <2> DEFINE q == [m EXCEPT !.arena = named]
  <2>1. r = Refused(q)
    BY <1>1, <1>3 DEF AddHeader
  <2>2. Leaves(m, q) /\ q.headers = m.headers
    BY <1>3, AllocLeaves DEF Sound
  <2> HIDE DEF q
  <2>3. Live(q) = Live(m) /\ Sound(q)
    BY <2>2, LiveGrown DEF Leaves
  <2>4. QED
    BY <2>1, <2>3, RefusedLive
<1>4. CASE ~full /\ ~half
  <2>1. Len(m.headers) < MaxHeaders /\ Fits(m.arena, n) /\ Fits(named, t)
    BY <1>1, <1>4
  <2>2. r = [arena |-> a, headers |-> Append(m.headers, h), ok |-> TRUE]
    BY <1>4 DEF AddHeader
  <2>3. Sound(r) /\ Grown(m.arena, r.arena)
    BY AddHeaderLeaves DEF Leaves
  <2>4. r.ok /\ r.arena = a /\ r.headers = Append(m.headers, h)
    BY <2>2
  <2>5. /\ named \in ArenaType /\ Handed(named, View(m.arena, n))
        /\ Show(named.cells, View(m.arena, n)) = n
    BY <1>1, <2>1, AllocGrows, ViewShows
  <2> HIDE DEF named
  <2>6. a \in ArenaType /\ Grown(named, a) /\ Show(a.cells, View(named, t)) = t
    BY <2>1, <2>5, AllocGrows, ViewShows
  <2>7. Show(a.cells, View(m.arena, n)) = n
    BY <2>5, <2>6, ShowGrown
  <2>8. h.name = View(m.arena, n) /\ h.value = View(named, t) /\ ~h.removed
    OBVIOUS
  <2> HIDE DEF h, a, r
  <2>9. /\ Len(r.headers) = Len(m.headers) + 1 /\ r.headers[Len(m.headers) + 1] = h
        /\ \A i \in 1 .. Len(m.headers) : r.headers[i] = m.headers[i]
    BY <1>1, <2>4
  <2>10. Slots(r)[Len(m.headers) + 1] = <<f>> /\ f \in Line
    <3>1. Len(m.headers) + 1 \in 1 .. Len(r.headers)
      BY <1>1, <2>9
    <3>2. QED
      BY <2>3, <2>4, <2>6, <2>7, <2>8, <2>9, <3>1, SlotType
  <2>11. \A i \in 1 .. Len(m.headers) : Slots(r)[i] = Slots(m)[i]
    <3>1. \A i \in 1 .. Len(m.headers) : i \in 1 .. Len(r.headers)
      BY <1>1, <2>9
    <3>2. QED
      BY <2>3, <2>9, <3>1, SlotGrown
  <2> HIDE DEF f
  <2>12. Slots(r) = Append(Slots(m), <<f>>)
    <3>1. /\ Slots(m) \in Seq(Seq(Line)) /\ Len(Slots(m)) = Len(m.headers)
          /\ Slots(r) \in Seq(Seq(Line)) /\ Len(Slots(r)) = Len(m.headers) + 1
      BY <2>3, <2>9, LiveType
    <3>2. <<f>> \in Seq(Line)
      BY <2>10
    <3>3. QED
      BY <1>1, <2>10, <2>11, <3>1, <3>2
  <2>13. Live(r) = Live(m) \o <<f>>
    <3>1. Slots(m) \in Seq(Seq(Line)) /\ <<f>> \in Seq(Line)
      BY <2>10, LiveType
    <3>2. QED
      BY <2>12, <3>1, FlattenAppend DEF Live
  <2>14. Live(r) = Append(Live(m), f)
    BY <2>10, <2>13, LiveType
  <2>15. QED
    <3>1. Contract!Added(Live(m), n, t) = Append(Live(m), f)
      BY DEF Contract!Added, f
    <3>2. QED
      BY <2>4, <2>14, <3>1 DEF r
<1>5. QED
  BY <1>2, <1>3, <1>4

\* Cells handed out for a value that set_header then copies.
LEMMA AllocLive ==
  ASSUME NEW m, Sound(m), NEW t \in Chars, Fits(m.arena, t)
  PROVE  LET q == [m EXCEPT !.arena = Alloc(m.arena, t)]
         IN  /\ Sound(q) /\ Live(q) = Live(m) /\ q.ok = m.ok
             /\ q.arena = Alloc(m.arena, t) /\ q.headers = m.headers
<1> DEFINE q == [m EXCEPT !.arena = Alloc(m.arena, t)]
<1>1. Leaves(m, q)
  BY AllocLeaves
<1>2. q.arena = Alloc(m.arena, t) /\ q.headers = m.headers /\ q.ok = m.ok
  BY DEF Sound
<1> HIDE DEF q
<1>3. Sound(q) /\ Live(q) = Live(m)
  BY <1>1, <1>2, LiveGrown DEF Leaves
<1>4. QED
  BY <1>2, <1>3 DEF q

LEMMA SetLive ==
  ASSUME NEW m, Sound(m), m.ok, NEW n \in Chars, NEW t \in Chars
  PROVE  LET r == SetHeader(m, n, t)
         IN  Live(r) = IF r.ok THEN Contract!Put(Live(m), n, t) ELSE Live(m)
<1> DEFINE held == [m EXCEPT !.arena = Alloc(m.arena, t)]
           i    == Find(m, n)
           r    == SetHeader(m, n, t)
<1>1. CASE ~Fits(m.arena, t)
  <2>1. r = Refused(m)
    BY <1>1 DEF SetHeader
  <2>2. QED
    BY <2>1, RefusedLive
<1>2. CASE Fits(m.arena, t) /\ i = 0
  <2>1. r = AddHeader(held, n, t)
    BY <1>2 DEF SetHeader
  <2>2. Sound(held) /\ Live(held) = Live(m)
    BY <1>2, AllocLive
  <2> HIDE DEF held
  <2>3. Live(r) = IF r.ok THEN Contract!Added(Live(m), n, t) ELSE Live(m)
    BY <2>1, <2>2, AddLive
  <2>4. Contract!Position(Live(m), n) = 0
    BY <1>2, FoundLive
  <2>5. Contract!Put(Live(m), n, t) = Contract!Added(Live(m), n, t)
    BY <2>4 DEF Contract!Put
  <2>6. QED
    BY <2>3, <2>5
<1>3. CASE Fits(m.arena, t) /\ i # 0
  <2> DEFINE a == Alloc(m.arena, t)
             s == View(m.arena, t)
  <2>1. r = [held EXCEPT !.headers[i].value = s]
    BY <1>3 DEF SetHeader
  <2>2. r = [m EXCEPT !.arena = a, !.headers[i].value = s]
    BY <2>1 DEF Sound
  <2>3. r.ok
    BY <2>2 DEF Sound
  <2>4. m.arena \in ArenaType
    BY DEF Sound
  <2>5. a \in ArenaType /\ Grown(m.arena, a) /\ Handed(a, s) /\ Show(a.cells, s) = t
    BY <1>3, <2>4, AllocGrows, ViewShows
  <2> HIDE DEF a, s, r
  <2>6. Live([m EXCEPT !.arena = a, !.headers[i].value = s]) = Contract!Put(Live(m), n, Show(a.cells, s))
    BY <1>3, <2>5, RepointLive
  <2>7. QED
    BY <2>2, <2>3, <2>5, <2>6 DEF r
<1>4. QED
  BY <1>1, <1>2, <1>3

\* An element rule rewrites one element, does nothing, or blanks the value.
LEMMA ElementLive ==
  ASSUME NEW m, Sound(m), m.ok, NEW n \in Chars, NEW e \in UriElements \cup {"whole"}, NEW t \in Chars
  PROVE  LET r     == RewriteElement(m, n, e, t)
             built == RebuildUri(Contract!Value(Live(m), n), e, t)
         IN  /\ r.ok => Live(r) = Contract!Put(Live(m), n, built)
             /\ ~r.ok => Live(r) = Live(m) \/ Live(r) = Contract!Put(Live(m), n, <<>>)
<1> DEFINE built == RebuildUri(Contract!Value(Live(m), n), e, t)
           q     == [m EXCEPT !.arena = Alloc(m.arena, built)]
           r     == RewriteElement(m, n, e, t)
<1>1. built = RebuildUri(Show(m.arena.cells, GetHeader(m, n)), e, t)
  BY ValueLive
<1>2. built \in Chars
  <2>1. Show(m.arena.cells, GetHeader(m, n)) \in Chars
    BY GetHeaderType
  <2>2. QED
    BY <1>1, <2>1, RebuildType, TokenNames DEF Chars
<1>3. CASE e = "whole"
  <2>1. built = t
    BY <1>3 DEF RebuildUri, Rebuilt
  <2>2. r = SetHeader(m, n, t)
    BY <1>3 DEF RewriteElement
  <2>3. QED
    BY <2>1, <2>2, SetLive
<1>4. CASE e # "whole" /\ Fits(m.arena, built)
  <2>1. r = SetHeader(q, n, built)
    BY <1>1, <1>4 DEF RewriteElement
  <2> HIDE DEF built
  <2>2. Sound(q) /\ q.ok /\ Live(q) = Live(m)
    BY <1>2, <1>4, AllocLive
  <2> HIDE DEF q
  <2>3. Live(r) = IF r.ok THEN Contract!Put(Live(m), n, built) ELSE Live(m)
    BY <1>2, <2>1, <2>2, SetLive
  <2>4. QED
    BY <2>3 DEF built
<1>5. CASE e # "whole" /\ ~Fits(m.arena, built)
  <2> DEFINE blank == SetHeader(m, n, <<>>)
  <2>1. r = Refused(blank)
    BY <1>1, <1>5 DEF RewriteElement
  <2>2. <<>> \in Chars
    BY DEF Chars
  <2>3. Live(blank) = IF blank.ok THEN Contract!Put(Live(m), n, <<>>) ELSE Live(m)
    BY <2>2, SetLive
  <2>4. Sound(blank)
    BY <2>2, SetHeaderLeaves DEF Leaves
  <2>5. Live(r) = Live(blank) /\ ~r.ok
    BY <2>1, <2>4, RefusedLive
  <2>6. QED
    BY <2>3, <2>5
<1>6. QED
  BY <1>3, <1>4, <1>5

\* What Without keeps of each field.
Cut(fields, n) ==
  [i \in DOMAIN fields |-> IF SameName(fields[i].name, n) THEN <<>> ELSE <<fields[i]>>]
Kept(fields, n) == FlattenSeq(Cut(fields, n))

LEMMA WithoutIsKept ==
  ASSUME NEW fields, NEW n
  PROVE  Contract!Without(fields, n) = Kept(fields, n)
BY Zenon DEF Contract!Without, Contract!FlattenSeq, FlattenSeq, Kept, Cut

LEMMA CutType ==
  ASSUME NEW fields \in Seq(Line), NEW n
  PROVE  /\ Cut(fields, n) \in Seq(Seq(Line)) /\ Len(Cut(fields, n)) = Len(fields)
         /\ \A i \in 1 .. Len(fields) :
              Cut(fields, n)[i] = IF SameName(fields[i].name, n) THEN <<>> ELSE <<fields[i]>>
         /\ Kept(fields, n) \in Seq(Line)
<1>1. DOMAIN fields = 1 .. Len(fields) /\ Len(fields) \in Nat
  OBVIOUS
<1>2. \A i \in 1 .. Len(fields) :
         Cut(fields, n)[i] = IF SameName(fields[i].name, n) THEN <<>> ELSE <<fields[i]>>
  BY <1>1 DEF Cut
<1>3. \A i \in 1 .. Len(fields) : Cut(fields, n)[i] \in Seq(Line)
  <2>1. <<>> \in Seq(Line) /\ \A i \in 1 .. Len(fields) : <<fields[i]>> \in Seq(Line)
    OBVIOUS
  <2>2. QED
    BY <1>2, <2>1
<1>4. Cut(fields, n) \in [1 .. Len(fields) -> Seq(Line)]
  BY <1>1, <1>3 DEF Cut
<1>5. Cut(fields, n) \in Seq(Seq(Line)) /\ Len(Cut(fields, n)) = Len(fields)
  BY <1>1, <1>4
<1>6. QED
  BY <1>2, <1>5, FlattenType DEF Kept

LEMMA KeptOfNone ==
  ASSUME NEW n
  PROVE  Kept(<<>>, n) = <<>>
<1>1. Cut(<<>>, n) = <<>>
  BY DEF Cut
<1>2. QED
  BY <1>1, FlattenEmpty, Zenon DEF Kept

LEMMA KeptOfOne ==
  ASSUME NEW f \in Line, NEW n
  PROVE  Kept(<<f>>, n) = IF SameName(f.name, n) THEN <<>> ELSE <<f>>
<1> DEFINE s == <<f>>
           c == IF SameName(f.name, n) THEN <<>> ELSE <<f>>
<1>1. s \in Seq(Line) /\ Len(s) = 1 /\ s[1] = f
  OBVIOUS
<1>2. c \in Seq(Line)
  OBVIOUS
<1> HIDE DEF s
<1>3. Cut(s, n) \in Seq(Seq(Line)) /\ Len(Cut(s, n)) = 1 /\ Cut(s, n)[1] = c
  BY <1>1, CutType, SMTT(20)
<1> HIDE DEF c
<1>4. Cut(s, n) = <<c>>
  BY <1>3
<1>5. FlattenSeq(<<c>>) = c
  BY <1>2, FlattenOne
<1>6. Kept(s, n) = c
  BY <1>4, <1>5 DEF Kept
<1>7. QED
  BY <1>6 DEF s, c

LEMMA KeptOfBoth ==
  ASSUME NEW u \in Seq(Line), NEW v \in Seq(Line), NEW n
  PROVE  Kept(u \o v, n) = Kept(u, n) \o Kept(v, n)
<1> DEFINE w == u \o v
           cu == Cut(u, n)
           cv == Cut(v, n)
           cw == Cut(w, n)
<1>1. /\ w \in Seq(Line) /\ Len(w) = Len(u) + Len(v) /\ Len(u) \in Nat /\ Len(v) \in Nat
      /\ \A k \in 1 .. Len(u) : w[k] = u[k]
      /\ \A k \in Len(u) + 1 .. Len(u) + Len(v) : w[k] = v[k - Len(u)]
  BY ConcatElements
<1>2. /\ cu \in Seq(Seq(Line)) /\ Len(cu) = Len(u)
      /\ \A i \in 1 .. Len(u) : cu[i] = IF SameName(u[i].name, n) THEN <<>> ELSE <<u[i]>>
  BY CutType
<1>3. /\ cv \in Seq(Seq(Line)) /\ Len(cv) = Len(v)
      /\ \A i \in 1 .. Len(v) : cv[i] = IF SameName(v[i].name, n) THEN <<>> ELSE <<v[i]>>
  BY CutType
<1> HIDE DEF w
<1>4. /\ cw \in Seq(Seq(Line)) /\ Len(cw) = Len(w)
      /\ \A i \in 1 .. Len(w) : cw[i] = IF SameName(w[i].name, n) THEN <<>> ELSE <<w[i]>>
  BY <1>1, CutType
<1> DEFINE cat == cu \o cv
<1> HIDE DEF cu, cv, cw
<1>5. /\ cat \in Seq(Seq(Line)) /\ Len(cat) = Len(cu) + Len(cv)
      /\ \A k \in 1 .. Len(cu) : cat[k] = cu[k]
      /\ \A k \in Len(cu) + 1 .. Len(cu) + Len(cv) : cat[k] = cv[k - Len(cu)]
  <2>1. cu \in Seq(Seq(Line)) /\ cv \in Seq(Seq(Line))
    BY <1>2, <1>3
  <2>2. QED
    BY <2>1, ConcatElements, Zenon
<1> HIDE DEF cat
<1>6. ASSUME NEW k \in 1 .. Len(w) PROVE cw[k] = cat[k]
  <2>1. CASE k \in 1 .. Len(u)
    BY <1>1, <1>2, <1>4, <1>5, <2>1
  <2>2. CASE k \in Len(u) + 1 .. Len(u) + Len(v)
    <3>1. k - Len(u) \in 1 .. Len(v)
      BY <1>1, <2>2
    <3>2. w[k] = v[k - Len(u)] /\ cat[k] = cv[k - Len(u)]
      BY <1>1, <1>2, <1>3, <1>5, <2>2
    <3>3. QED
      BY <1>3, <1>4, <3>1, <3>2
  <2>3. k \in 1 .. Len(u) \/ k \in Len(u) + 1 .. Len(u) + Len(v)
    BY <1>1
  <2>4. QED
    BY <2>1, <2>2, <2>3
<1>7. Len(cw) = Len(w) /\ Len(cat) = Len(w)
  BY <1>1, <1>2, <1>3, <1>4, <1>5
<1>8. cw = cat
  BY <1>4, <1>5, <1>6, <1>7, SameElements, SMTT(20)
<1>9. FlattenSeq(cu \o cv) = FlattenSeq(cu) \o FlattenSeq(cv)
  BY <1>2, <1>3, FlattenConcat
<1>10. QED
  BY <1>8, <1>9 DEF Kept, cat, cu, cv, cw, w

\* Deleting in every slot deletes in what the slots amount to.
LEMMA KeptOfFlattened ==
  ASSUME NEW n, NEW w \in Seq(Seq(Line))
  PROVE  FlattenSeq([i \in DOMAIN w |-> Kept(w[i], n)]) = Kept(FlattenSeq(w), n)
<1> DEFINE Each(q) == [i \in DOMAIN q |-> Kept(q[i], n)]
           T == {q \in Seq(Seq(Line)) : FlattenSeq(Each(q)) = Kept(FlattenSeq(q), n)}
<1>1. <<>> \in T
  <2>1. Each(<<>>) = <<>>
    OBVIOUS
  <2>2. FlattenSeq(Each(<<>>)) = <<>> /\ Kept(FlattenSeq(<<>>), n) = <<>>
    BY <2>1, FlattenEmpty, KeptOfNone, Zenon
  <2> HIDE DEF Each
  <2>3. <<>> \in Seq(Seq(Line))
    OBVIOUS
  <2>4. QED
    BY <2>2, <2>3
<1>2. ASSUME NEW q \in T, NEW s \in Seq(Line) PROVE Append(q, s) \in T
  <2> DEFINE qs == Append(q, s)
  <2>1. q \in Seq(Seq(Line)) /\ FlattenSeq(Each(q)) = Kept(FlattenSeq(q), n)
    OBVIOUS
  <2>2. /\ qs \in Seq(Seq(Line)) /\ Len(qs) = Len(q) + 1 /\ Len(q) \in Nat
        /\ qs[Len(q) + 1] = s /\ \A i \in 1 .. Len(q) : qs[i] = q[i]
        /\ DOMAIN qs = 1 .. Len(q) + 1 /\ DOMAIN q = 1 .. Len(q)
    BY <2>1
  <2>3. Each(q) \in Seq(Seq(Line)) /\ Len(Each(q)) = Len(q)
    <3>1. \A i \in 1 .. Len(q) : q[i] \in Seq(Line)
      BY <2>1
    <3>2. \A i \in 1 .. Len(q) : Kept(q[i], n) \in Seq(Line)
      BY <3>1, CutType
    <3>3. Each(q) \in [1 .. Len(q) -> Seq(Line)]
      BY <2>2, <3>2
    <3> HIDE DEF Each
    <3>4. QED
      BY <2>2, <3>3
  <2>4. Each(qs) = Append(Each(q), Kept(s, n))
    <3> DEFINE ks == Kept(s, n)
    <3>1. ks \in Seq(Line)
      BY CutType
    <3> HIDE DEF qs
    <3>2. /\ DOMAIN Each(qs) = 1 .. Len(q) + 1 /\ Each(qs)[Len(q) + 1] = ks
          /\ \A i \in 1 .. Len(q) : Each(qs)[i] = Each(q)[i]
          /\ Each(qs) = [i \in 1 .. Len(q) + 1 |-> Each(qs)[i]]
      BY <2>2
    <3> DEFINE k == Each(q)
               a == Append(k, ks)
               b == Each(qs)
    <3>0. k \in Seq(Seq(Line)) /\ Len(k) = Len(q) /\ Len(q) \in Nat
      BY <2>2, <2>3
    <3> HIDE DEF Each, ks, k
    <3>3. /\ a \in Seq(Seq(Line)) /\ Len(a) = Len(q) + 1 /\ a[Len(q) + 1] = ks
          /\ \A i \in 1 .. Len(q) : a[i] = k[i]
      BY <3>1, <3>0
    <3> HIDE DEF a, b
    <3>4. b = [i \in 1 .. Len(q) + 1 |-> b[i]] /\ b[Len(q) + 1] = ks
          /\ \A i \in 1 .. Len(q) : b[i] = k[i]
      BY <3>2 DEF b, k
    <3>5. \A i \in 1 .. Len(q) + 1 : i \in 1 .. Len(q) \/ i = Len(q) + 1
      BY <2>2
    <3>6. \A i \in 1 .. Len(q) + 1 : b[i] = a[i]
      BY <3>3, <3>4, <3>5
    <3>7. a = [i \in 1 .. Len(q) + 1 |-> a[i]]
      BY <3>3
    <3>8. a = b
      BY <3>4, <3>6, <3>7
    <3>9. QED
      BY <3>8 DEF a, b, k, ks
  <2> HIDE DEF Each
  <2>5. FlattenSeq(Each(qs)) = FlattenSeq(Each(q)) \o Kept(s, n)
    BY <2>3, <2>4, CutType, FlattenAppend
  <2>6. FlattenSeq(qs) = FlattenSeq(q) \o s /\ FlattenSeq(q) \in Seq(Line)
    BY <2>1, FlattenAppend, FlattenType
  <2>7. Kept(FlattenSeq(q) \o s, n) = Kept(FlattenSeq(q), n) \o Kept(s, n)
    BY <2>6, KeptOfBoth
  <2>8. FlattenSeq(Each(qs)) = Kept(FlattenSeq(qs), n)
    BY <2>1, <2>5, <2>6, <2>7
  <2>9. QED
    BY <2>2, <2>8
<1>3. T \subseteq Seq(Seq(Line))
  OBVIOUS
<1> HIDE DEF T
<1>4. T = Seq(Seq(Line))
  BY <1>1, <1>2, <1>3, SeqClosure
<1>5. w \in T
  BY <1>4
<1>6. QED
  BY <1>5 DEF T

LEMMA DeleteLive ==
  ASSUME NEW m, Sound(m), NEW n
  PROVE  LET r == DeleteHeader(m, n)
         IN  /\ Live(r) = Contract!Without(Live(m), n)
             /\ ~r.ok => Live(r) = Live(m)
<1> DEFINE r == DeleteHeader(m, n)
<1>1. /\ m.headers \in Seq(HeaderType) /\ Len(m.headers) \in Nat
      /\ DOMAIN m.headers = 1 .. Len(m.headers)
  BY DEF Sound
<1>2. Sound(r) /\ r.arena = m.arena
  BY DeleteHeaderLeaves DEF Leaves
<1>3. /\ r.headers = [i \in DOMAIN m.headers |->
                        [m.headers[i] EXCEPT !.removed = @ \/ Matches(m, m.headers[i], n)]]
      /\ r.ok = (Find(m, n) # 0)
  BY DEF DeleteHeader, Sound
<1> HIDE DEF r
<1>4. Len(r.headers) = Len(m.headers)
  BY <1>1, <1>3
<1>5. ASSUME NEW i \in 1 .. Len(m.headers)
      PROVE  /\ Slots(r)[i] = Kept(Slots(m)[i], n)
             /\ ~Matches(m, m.headers[i], n) => Slots(r)[i] = Slots(m)[i]
  <2> DEFINE h == m.headers[i]
             f == [name |-> Show(m.arena.cells, h.name), value |-> Show(m.arena.cells, h.value)]
             g == r.headers[i]
             d == [name |-> Show(r.arena.cells, g.name), value |-> Show(r.arena.cells, g.value)]
  <2>1. h \in HeaderType /\ f \in Line /\ Slots(m)[i] = IF h.removed THEN <<>> ELSE <<f>>
    BY SlotType
  <2>2. Matches(m, h, n) = (~h.removed /\ SameName(f.name, n))
    BY DEF Matches, SameName
  <2>3. g = [h EXCEPT !.removed = h.removed \/ Matches(m, h, n)]
    BY <1>1, <1>3
  <2>4. g.name = h.name /\ g.value = h.value /\ g.removed = (h.removed \/ Matches(m, h, n))
    BY <2>1, <2>3 DEF HeaderType
  <2>5. Slots(r)[i] = IF g.removed THEN <<>> ELSE <<d>>
    BY <1>2, <1>4, SlotType
  <2>6. d = f
    BY <1>2, <2>4
  <2> HIDE DEF f, d, g, h
  <2>7. Kept(<<>>, n) = <<>> /\ Kept(<<f>>, n) = IF SameName(f.name, n) THEN <<>> ELSE <<f>>
    BY <2>1, KeptOfNone, KeptOfOne
  <2>8. CASE h.removed
    BY <2>1, <2>2, <2>4, <2>5, <2>6, <2>7, <2>8 DEF h
  <2>9. CASE ~h.removed
    BY <2>1, <2>2, <2>4, <2>5, <2>6, <2>7, <2>9 DEF h
  <2>10. QED
    BY <2>8, <2>9
<1>6. /\ Slots(m) \in Seq(Seq(Line)) /\ Len(Slots(m)) = Len(m.headers)
      /\ Slots(r) \in Seq(Seq(Line)) /\ Len(Slots(r)) = Len(m.headers)
  BY <1>2, <1>4, LiveType
<1>7. Slots(r) = [i \in DOMAIN Slots(m) |-> Kept(Slots(m)[i], n)]
  <2>1. DOMAIN Slots(m) = 1 .. Len(m.headers) /\ DOMAIN Slots(r) = 1 .. Len(m.headers)
        /\ Slots(r) = [i \in 1 .. Len(m.headers) |-> Slots(r)[i]]
    BY <1>6
  <2>2. QED
    BY <1>5, <2>1
<1>8. Live(r) = Kept(Live(m), n)
  BY <1>6, <1>7, KeptOfFlattened DEF Live
<1>9. ~r.ok => Live(r) = Live(m)
  <2>1. SUFFICES ASSUME ~r.ok PROVE Live(r) = Live(m)
    OBVIOUS
  <2>2. \A i \in 1 .. Len(m.headers) : ~Matches(m, m.headers[i], n)
    BY <1>3, <2>1, FindRange
  <2>3. \A i \in 1 .. Len(m.headers) : Slots(r)[i] = Slots(m)[i]
    BY <1>5, <2>2
  <2>4. Slots(r) = Slots(m)
    BY <1>6, <2>3, SameElements
  <2>5. QED
    BY <2>4 DEF Live
<1>10. QED
  BY <1>8, <1>9, WithoutIsKept DEF r

-----------------------------------------------------------------------------
(* The refinement *)

LEMMA LiveFieldsAreLive == LiveFields = Live(Here)
BY DEF LiveFields, Live, Slots, Slot, FieldOf, Read, Here

\* A message in another state: the list it shows.
LEMMA LiveFieldsNext ==
  ASSUME NEW m, arena' = m.arena, headers' = m.headers
  PROVE  LiveFields' = Live(m)
BY DEF LiveFields, Live, Slots, Slot, FieldOf, Read

\* The request-URI an untouched override shows.
LEMMA RequestUriStays ==
  ASSUME MessageInvariant, MessageInvariant', Grown(arena, arena'), UNCHANGED <<ruri, packet>>
  PROVE  RequestUri' = RequestUri
<1>1. arena \in ArenaType /\ arena' \in ArenaType /\ Handed(arena, ruri)
  BY DEF MessageInvariant
<1>2. Show(arena'.cells, ruri) = Show(arena.cells, ruri)
  BY <1>1, ShowGrown
<1>3. QED
  BY <1>2 DEF RequestUri, Read

\* A call that edits headers, in terms of the list.
LEMMA EditShows ==
  ASSUME MessageInvariant, NEW m, Leaves(Here, m), NEW op, NEW n, NEW e, NEW t,
         Edit(op, n, e, t, m)
  PROVE  /\ LiveFields = Live(Here) /\ LiveFields' = Live(m) /\ RequestUri' = RequestUri
         /\ call'.op = op /\ call'.name = n /\ call'.element = e /\ call'.text = t /\ call'.ok = m.ok
<1>1. /\ arena' = m.arena /\ headers' = m.headers /\ UNCHANGED <<ruri, packet>>
      /\ call' = [op |-> op, name |-> n, element |-> e, text |-> t, ok |-> m.ok]
  BY DEF Edit, Done
<1>2. MessageInvariant' /\ Grown(arena, arena')
  BY EditKeeps
<1>3. QED
  BY <1>1, <1>2, LiveFieldsAreLive, LiveFieldsNext, RequestUriStays

LEMMA SetImplements ==
  ASSUME MessageInvariant, NEW n \in Chars, NEW t \in Chars, Set(n, t)
  PROVE  Contract!Next
<1> DEFINE m == SetHeader(Here, n, t)
<1>1. Sound(Here) /\ Here.ok
  BY HereIsSound DEF Here
<1>2. Leaves(Here, m)
  BY <1>1, SetHeaderLeaves
<1>3. Live(m) = IF m.ok THEN Contract!Put(Live(Here), n, t) ELSE Live(Here)
  BY <1>1, SetLive
<1>4. Edit("set", n, "whole", t, m)
  BY DEF Set
<1> HIDE DEF m
<1>5. /\ LiveFields = Live(Here) /\ LiveFields' = Live(m) /\ RequestUri' = RequestUri
      /\ call'.op = "set" /\ call'.name = n /\ call'.text = t /\ call'.ok = m.ok
  BY <1>2, <1>4, EditShows
<1>6. CASE m.ok
  BY <1>3, <1>5, <1>6 DEF Contract!Next, Contract!Set
<1>7. CASE ~m.ok
  BY <1>3, <1>5, <1>7 DEF Contract!Next, Contract!Refused
<1>8. QED
  BY <1>6, <1>7

LEMMA AddImplements ==
  ASSUME MessageInvariant, NEW n \in Chars, NEW t \in Chars, Add(n, t)
  PROVE  Contract!Next
<1> DEFINE m == AddHeader(Here, n, t)
<1>1. Sound(Here)
  BY HereIsSound
<1>2. Leaves(Here, m)
  BY <1>1, AddHeaderLeaves
<1>3. Live(m) = IF m.ok THEN Contract!Added(Live(Here), n, t) ELSE Live(Here)
  BY <1>1, AddLive
<1>4. Edit("add", n, "whole", t, m)
  BY DEF Add
<1> HIDE DEF m
<1>5. /\ LiveFields = Live(Here) /\ LiveFields' = Live(m) /\ RequestUri' = RequestUri
      /\ call'.op = "add" /\ call'.name = n /\ call'.text = t /\ call'.ok = m.ok
  BY <1>2, <1>4, EditShows
<1>6. CASE m.ok
  BY <1>3, <1>5, <1>6 DEF Contract!Next, Contract!Add
<1>7. CASE ~m.ok
  BY <1>3, <1>5, <1>7 DEF Contract!Next, Contract!Refused
<1>8. QED
  BY <1>6, <1>7

LEMMA DeleteImplements ==
  ASSUME MessageInvariant, NEW n, Delete(n)
  PROVE  Contract!Next
<1> DEFINE m == DeleteHeader(Here, n)
<1>1. Sound(Here)
  BY HereIsSound
<1>2. Leaves(Here, m)
  BY <1>1, DeleteHeaderLeaves
<1>3. Live(m) = Contract!Without(Live(Here), n) /\ (~m.ok => Live(m) = Live(Here))
  BY <1>1, DeleteLive
<1>4. Edit("delete", n, "whole", <<>>, m)
  BY DEF Delete
<1> HIDE DEF m
<1>5. /\ LiveFields = Live(Here) /\ LiveFields' = Live(m) /\ RequestUri' = RequestUri
      /\ call'.op = "delete" /\ call'.name = n /\ call'.ok = m.ok
  BY <1>2, <1>4, EditShows
<1>6. CASE m.ok
  BY <1>3, <1>5, <1>6 DEF Contract!Next, Contract!Delete
<1>7. CASE ~m.ok
  BY <1>3, <1>5, <1>7 DEF Contract!Next, Contract!Refused
<1>8. QED
  BY <1>6, <1>7

LEMMA ElementImplements ==
  ASSUME MessageInvariant, NEW n \in Chars, NEW e \in UriElements \cup {"whole"}, NEW t \in Chars,
         Element(n, e, t)
  PROVE  Contract!Next
<1> DEFINE m     == RewriteElement(Here, n, e, t)
           built == RebuildUri(Contract!Value(Live(Here), n), e, t)
<1>1. Sound(Here) /\ Here.ok
  BY HereIsSound DEF Here
<1>2. Leaves(Here, m)
  BY <1>1, RewriteElementLeaves
<1>3. /\ m.ok => Live(m) = Contract!Put(Live(Here), n, built)
      /\ ~m.ok => Live(m) = Live(Here) \/ Live(m) = Contract!Put(Live(Here), n, <<>>)
  BY <1>1, ElementLive
<1>4. Edit("element", n, e, t, m)
  BY DEF Element
<1> HIDE DEF m
<1>5. /\ LiveFields = Live(Here) /\ LiveFields' = Live(m) /\ RequestUri' = RequestUri
      /\ call'.op = "element" /\ call'.name = n /\ call'.element = e /\ call'.text = t
      /\ call'.ok = m.ok
  BY <1>2, <1>4, EditShows
<1>6. CASE m.ok
  <2>1. Contract!Rewritten = built
    BY <1>5 DEF Contract!Rewritten
  <2>2. Contract!Element
    BY <1>3, <1>5, <1>6, <2>1 DEF Contract!Element
  <2>3. QED
    BY <1>5, <1>6, <2>2 DEF Contract!Next
<1>7. CASE ~m.ok
  BY <1>3, <1>5, <1>7 DEF Contract!Next, Contract!Refused, Contract!Blanked
<1>8. QED
  BY <1>6, <1>7

LEMMA SetFieldOfImplements ==
  ASSUME MessageInvariant, NEW n \in Chars, n # <<>>, NEW e \in UriElements \cup {"whole"},
         NEW t \in Chars, SetFieldOf(n, e, t)
  PROVE  Contract!Next
<1> DEFINE i     == Find(Here, n)
           built == RebuildUri(Read(GetHeader(Here, n)), e, t)
           view  == InArena(arena.used, Len(built))
           a     == Alloc(arena, built)
           m     == IF i = 0 \/ ~Fits(arena, built) THEN Refused(Here)
                    ELSE [Here EXCEPT !.arena = a, !.headers[i].value = view]
<1>1. Edit("field", n, e, t, m)
  BY DEF SetFieldOf
<1>2. Sound(Here) /\ Here.arena = arena /\ Here.headers = headers /\ Here.ok
  BY HereIsSound DEF Here
<1>3. Read(GetHeader(Here, n)) = Contract!Value(Live(Here), n)
  BY <1>2, ValueLive DEF Read
<1>4. built \in Chars
  <2>1. Read(GetHeader(Here, n)) \in Chars
    BY <1>2, GetHeaderType DEF Read
  <2>2. QED
    BY <2>1, RebuildType, TokenNames DEF Chars
<1>5. built = RebuildUri(Contract!Value(Live(Here), n), e, t)
  BY <1>3
<1> HIDE DEF built
<1>6. CASE i = 0 \/ ~Fits(arena, built)
  <2>1. m = Refused(Here)
    BY <1>6
  <2>2. Leaves(Here, m) /\ Live(m) = Live(Here) /\ ~m.ok
    BY <1>2, <2>1, RefusedLeaves, RefusedLive
  <2> HIDE DEF m
  <2>3. LiveFields' = LiveFields /\ RequestUri' = RequestUri /\ ~call'.ok
    BY <1>1, <2>2, EditShows
  <2>4. QED
    BY <2>3 DEF Contract!Next, Contract!Refused
<1>7. CASE i # 0 /\ Fits(arena, built)
  <2>1. m = [Here EXCEPT !.arena = a, !.headers[i].value = view]
    BY <1>7
  <2>2. arena \in ArenaType /\ i \in 1 .. Len(Here.headers)
    <3>1. i \in 0 .. Len(Here.headers) /\ Len(Here.headers) \in Nat /\ arena \in ArenaType
      BY <1>2, FindRange DEF Sound
    <3>2. QED
      BY <1>7, <3>1
  <2>3. a \in ArenaType /\ Grown(arena, a) /\ Handed(a, view) /\ Show(a.cells, view) = built
    BY <1>4, <1>7, <2>2, AllocGrows, AllocShows
  <2>4. m.ok
    BY <1>2, <2>1 DEF Sound
  <2>5. Contract!Position(Live(Here), n) # 0
    <3>1. /\ Contract!Position(Live(Here), n) \in 1 .. Len(Live(Here))
      BY <1>2, <1>7, FoundLive
    <3>2. QED
      BY <3>1
  <2> HIDE DEF a, view, m
  <2>6. Live([Here EXCEPT !.arena = a, !.headers[Find(Here, n)].value = view])
          = Contract!Put(Live(Here), n, built)
    <3>1. Sound(Here) /\ Grown(Here.arena, a) /\ Find(Here, n) # 0 /\ a \in ArenaType /\ Handed(a, view)
      BY <1>2, <1>7, <2>3
    <3>2. Live([Here EXCEPT !.arena = a, !.headers[Find(Here, n)].value = view])
            = Contract!Put(Live(Here), n, Show(a.cells, view))
      BY <3>1, RepointLive
    <3>3. QED
      BY <2>3, <3>2
  <2>7. Leaves(Here, [Here EXCEPT !.arena = a, !.headers[Find(Here, n)].value = view])
    BY <1>2, <2>2, <2>3, RepointLeaves
  <2>8. Live(m) = Contract!Put(Live(Here), n, built) /\ Leaves(Here, m)
    BY <2>1, <2>6, <2>7
  <2>9. /\ LiveFields = Live(Here) /\ LiveFields' = Live(m) /\ RequestUri' = RequestUri
        /\ call'.op = "field" /\ call'.name = n /\ call'.element = e /\ call'.text = t
        /\ call'.ok = m.ok
    BY <1>1, <2>8, EditShows
  <2>10. Contract!Rewritten = built
    BY <1>5, <2>9 DEF Contract!Rewritten
  <2>11. Contract!Field
    BY <2>5, <2>8, <2>9, <2>10 DEF Contract!Field
  <2>12. QED
    BY <2>4, <2>9, <2>11 DEF Contract!Next
<1>8. QED
  BY <1>6, <1>7

\* The list of a message whose headers a step does not touch.
LEMMA LiveFieldsStay ==
  ASSUME MessageInvariant, MessageInvariant', Grown(arena, arena'), UNCHANGED headers
  PROVE  LiveFields' = LiveFields
<1> DEFINE m == [arena |-> arena', headers |-> headers, ok |-> TRUE]
<1>1. Sound(Here) /\ Here.arena = arena /\ Here.headers = headers
  BY HereIsSound
<1>2. Sound(m) /\ m.arena = arena' /\ m.headers = headers'
  BY DEF MessageInvariant, Sound, Held
<1> HIDE DEF m
<1>3. Live(m) = Live(Here)
  BY <1>1, <1>2, LiveGrown
<1>4. QED
  BY <1>2, <1>3, LiveFieldsAreLive, LiveFieldsNext

LEMMA SetRequestUriImplements ==
  ASSUME MessageInvariant, NEW e \in UriElements \cup {"whole"}, NEW t \in Chars,
         SetRequestUri(e, t)
  PROVE  Contract!Next
<1> DEFINE built == RebuildUri(RequestUri, e, t)
           view  == InArena(arena.used, Len(built))
<1>1. MessageInvariant' /\ Grown(arena, arena') /\ UNCHANGED <<headers, packet>>
  BY SetRequestUriKeeps DEF SetRequestUri, Done
<1>2. LiveFields' = LiveFields
  BY <1>1, LiveFieldsStay
<1>3. built \in Chars /\ arena \in ArenaType
  <2>1. RequestUri \in Chars /\ arena \in ArenaType
    BY RequestUriType DEF MessageInvariant
  <2>2. QED
    BY <2>1, RebuildType, TokenNames DEF Chars
<1>4. CASE Fits(arena, built)
  <2>1. /\ ruri' = view
        /\ Done("field", <<>>, e, t, [Here EXCEPT !.arena = Alloc(arena, built)])
    BY <1>4 DEF SetRequestUri
  <2>2. /\ [Here EXCEPT !.arena = Alloc(arena, built)].arena = Alloc(arena, built)
        /\ [Here EXCEPT !.arena = Alloc(arena, built)].ok
    BY DEF Here
  <2>3. /\ arena' = Alloc(arena, built) /\ call'.op = "field" /\ call'.name = <<>>
        /\ call'.element = e /\ call'.text = t /\ call'.ok
    BY <2>1, <2>2 DEF Done
  <2> HIDE DEF built
  <2>4. Show(Alloc(arena, built).cells, view) = built
    BY <1>3, <1>4, AllocShows
  <2>5. view # Null
    BY DEF InArena, Null
  <2>6. RequestUri' = built
    BY <2>1, <2>3, <2>4, <2>5 DEF RequestUri, Read, Null
  <2>7. Contract!Field
    BY <1>2, <2>3, <2>6 DEF Contract!Field, built
  <2>8. QED
    BY <2>3, <2>7 DEF Contract!Next
<1>5. CASE ~Fits(arena, built)
  <2>1. ruri' = ruri /\ Done("field", <<>>, e, t, Refused(Here))
    BY <1>5 DEF SetRequestUri
  <2>2. ~call'.ok
    BY <2>1 DEF Done, Refused, Here
  <2>3. RequestUri' = RequestUri
    BY <1>1, <2>1, RequestUriStays
  <2>4. QED
    BY <1>2, <2>2, <2>3 DEF Contract!Next, Contract!Refused
<1>6. QED
  BY <1>4, <1>5

LEMMA SerializeImplements ==
  ASSUME MessageInvariant, Serialize
  PROVE  Contract!Next
<1>1. MessageInvariant' /\ Grown(arena, arena') /\ UNCHANGED <<headers, ruri, packet>>
  BY SerializeKeeps DEF Serialize, Done
<1>2. LiveFields' = LiveFields /\ RequestUri' = RequestUri
  BY <1>1, LiveFieldsStay, RequestUriStays
<1>3. call'.op = "serialize" /\ call'.ok = PutAll(arena, Pieces).ok
  BY DEF Serialize, Done
<1>4. QED
  BY <1>2, <1>3 DEF Contract!Next, Contract!Serialize, Contract!Refused

\* What the ABI promises of a message (sip_message.hpp:89-107): a list of
\* fields and a URI, whatever slices, tombstones and arena make of them.
THEOREM MessageRefinesHeaderList == Spec => ImplementsHeaderList
<1>1. ASSUME MessageInvariant, [Next]_vars PROVE [Contract!Next]_Contract!vars
  <2>1. ASSUME NEW p \in Packets, Receive(p) PROVE Contract!Next
    BY <2>1 DEF Receive, Contract!Next, Contract!Receive
  <2>2. ASSUME NEW n \in Names, NEW t \in Texts, Set(n, t) \/ Add(n, t) PROVE Contract!Next
    BY <1>1, <2>2, SetImplements, AddImplements, SipMessageAssumption
  <2>3. ASSUME NEW n \in Names, Delete(n) PROVE Contract!Next
    BY <1>1, <2>3, DeleteImplements
  <2>4. ASSUME NEW n \in Names, NEW e \in Elements, NEW t \in Texts, Element(n, e, t)
        PROVE  Contract!Next
    BY <1>1, <2>4, ElementImplements, SipMessageAssumption
  <2>5. ASSUME NEW f \in Fields, NEW t \in Texts, SetField(f[1], f[2], t) PROVE Contract!Next
    <3>1. f[1] \in Chars /\ f[2] \in UriElements \cup {"whole"} /\ t \in Chars
      BY SipMessageAssumption
    <3>2. QED
      BY <1>1, <2>5, <3>1, SetRequestUriImplements, SetFieldOfImplements DEF SetField
  <2>6. ASSUME Serialize PROVE Contract!Next
    BY <1>1, <2>6, SerializeImplements
  <2>7. ASSUME UNCHANGED vars PROVE UNCHANGED Contract!vars
    <3>1. LiveFields' = Live(Here)
      BY <2>7, LiveFieldsNext DEF vars, Here
    <3>2. RequestUri' = RequestUri /\ call' = call
      BY <2>7 DEF vars, RequestUri, Read, Null
    <3>3. QED
      BY <3>1, <3>2, LiveFieldsAreLive DEF Contract!vars
  <2>8. QED
    BY <1>1, <2>1, <2>2, <2>3, <2>4, <2>5, <2>6, <2>7 DEF Next
<1>2. MessageInvariant /\ [Next]_vars => [Contract!Next]_Contract!vars
  BY <1>1
<1>3. QED
  BY <1>2, MessageStaysSound, PTL DEF Spec, ImplementsHeaderList, Contract!Spec
=============================================================================
