-------------------------------- MODULE Uri --------------------------------
(***************************************************************************)
(* SIP URI splitting and rewriting (src/src/runtime/uri.cpp): parse_uri    *)
(* finds the components of                                                 *)
(*     [display] [<] sip:user@host[:port][;params] [>] [;hdr]              *)
(* as spans of the value, and rebuild_uri splices a new text over one of   *)
(* them.  A text is a sequence of tokens: the separators the code looks    *)
(* for, the scheme word, and any other word.                               *)
(***************************************************************************)
EXTENDS Naturals, Sequences, FiniteSetsExt

Scheme == "sip"     \* sip, sips and tel are told apart by nothing here
Quote  == "quote"
Blank  == " "

\* A span <<a, b>> is the tokens a..b of a value; empty when b = a - 1.  A
\* component whose string_view was never set (data() is null) is Absent.
Absent == <<>>

\* Positions of the first and last token of S in v[a..b]; just outside a..b,
\* at the far end, when there is none (npos).
First(v, a, b, S) == LET I == {i \in a..b : v[i] \in S} IN IF I = {} THEN b + 1 ELSE Min(I)
Final(v, a, b, S) == LET I == {i \in a..b : v[i] \in S} IN IF I = {} THEN a - 1 ELSE Max(I)

Text(v, span) == IF span = Absent THEN <<>> ELSE SubSeq(v, span[1], span[2])

\* trim: the span without the blanks at either end.
Trim(v, a, b) ==
  LET I == {i \in a..b : v[i] # Blank}
  IN  IF I = {} THEN <<b + 1, b>> ELSE <<Min(I), Max(I)>>

Unquote(v, s) ==
  IF s[2] > s[1] /\ v[s[1]] = Quote /\ v[s[2]] = Quote THEN <<s[1] + 1, s[2] - 1>> ELSE s

\* The inside of the first angle brackets, or the whole value.
AddrSpec(v) ==
  LET lt == First(v, 1, Len(v), {"<"})
  IN  IF lt > Len(v) THEN <<1, Len(v)>> ELSE <<lt + 1, First(v, lt + 1, Len(v), {">"}) - 1>>

DisplayOf(v) ==
  LET lt == First(v, 1, Len(v), {"<"})
  IN  IF lt > Len(v) THEN Absent ELSE Unquote(v, Trim(v, 1, lt - 1))

\* Mutant: the scheme is skipped in angle brackets only.
AfterScheme_AngledOnly(v, s) ==
  LET colon == First(v, s[1], s[2], {":"})
  IN  IF s[1] > 1 /\ colon <= s[2] /\ SubSeq(v, s[1], colon - 1) = <<Scheme>>
      THEN <<colon + 1, s[2]>> ELSE s

AfterScheme(v, s) ==
  LET colon == First(v, s[1], s[2], {":"})
  IN  IF colon <= s[2] /\ SubSeq(v, s[1], colon - 1) = <<Scheme>>
      THEN <<colon + 1, s[2]>> ELSE s

\* s is what follows the scheme: [user@]host[:port][;params].
UserOf(v, s) ==
  LET at == First(v, s[1], s[2], {"@"}) IN IF at > s[2] THEN Absent ELSE <<s[1], at - 1>>

HostPort(v, s) ==
  LET at   == First(v, s[1], s[2], {"@"})
      host == IF at > s[2] THEN s[1] ELSE at + 1
  IN  <<host, First(v, host, s[2], {";", "?", ">"}) - 1>>

\* hp is host[:port], split at its last colon.
HostOf(v, hp) ==
  LET port == Final(v, hp[1], hp[2], {":"}) IN IF port < hp[1] THEN hp ELSE <<hp[1], port - 1>>
PortOf(v, hp) ==
  LET port == Final(v, hp[1], hp[2], {":"}) IN IF port < hp[1] THEN Absent ELSE <<port + 1, hp[2]>>

ParseUri(v) ==
  LET s == AfterScheme(v, AddrSpec(v))
  IN  [display |-> DisplayOf(v), user |-> UserOf(v, s),
       host |-> HostOf(v, HostPort(v, s)), port |-> PortOf(v, HostPort(v, s))]

UriElements == {"display", "user", "host", "port"}

\* hmr_rt_uri_get
UriGet(v, e) == IF e = "whole" THEN v ELSE Text(v, ParseUri(v)[e])

Splice(v, span, nv) == SubSeq(v, 1, span[1] - 1) \o nv \o SubSeq(v, span[2] + 1, Len(v))

\* Mutant: an absent port is inserted at the end of the value.
Insert_PortLast(v, u, e, nv) ==
  CASE e = "user"    -> Splice(v, <<u.host[1], u.host[1] - 1>>, Append(nv, "@"))
    [] e = "port"    -> v \o <<":">> \o nv
    [] e = "display" -> Append(nv, Blank) \o v

\* Where a component that u, the parsed v, does not have belongs.
Insert(v, u, e, nv) ==
  CASE e = "user"    -> Splice(v, <<u.host[1], u.host[1] - 1>>, Append(nv, "@"))
    [] e = "port"    -> Splice(v, <<u.host[2] + 1, u.host[2]>>, <<":">> \o nv)
    [] e = "display" -> Append(nv, Blank) \o v

Rebuilt(v, u, e, nv) ==
  IF e = "whole" THEN nv ELSE IF u[e] # Absent THEN Splice(v, u[e], nv) ELSE Insert(v, u, e, nv)

\* rebuild_uri, but for the arena.
RebuildUri(v, e, nv) == Rebuilt(v, ParseUri(v), e, nv)
=============================================================================
