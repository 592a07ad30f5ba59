----------------------------- MODULE UriEditing -----------------------------
(***************************************************************************)
(* A header value rewritten element by element, beside the components it   *)
(* should be made of: every read of the value (parse_uri) must give the    *)
(* component, and every rewrite (rebuild_uri) must change that one only.   *)
(***************************************************************************)
EXTENDS Uri, SequencesExt

CONSTANTS Forms,     \* the component records values start from
          Texts      \* the texts rules write

VARIABLES value,     \* the header value
          parts      \* its components: Absent, or present with a text

vars == <<value, parts>>

Present(t) == <<t>>
Of(part) == IF part = Absent THEN <<>> ELSE part[1]

\* RFC 3261's reading of a component record, in the shape uri.hpp:6-8 gives,
\* piece by piece; lead and trail stand around the display name.
Pieces(c, lead, trail) ==
  << lead, Of(c.display), trail, IF c.angled THEN <<"<">> ELSE <<>>,
     <<Scheme, ":">>,
     Of(c.user), IF c.user = Absent THEN <<>> ELSE <<"@">>,
     Of(c.host), IF c.port = Absent THEN <<>> ELSE <<":">>, Of(c.port),
     c.params, IF c.angled THEN <<">">> \o c.trailer ELSE <<>> >>

Lead(c)  == IF c.quoted THEN <<Quote>> ELSE <<>>
Trail(c) == CASE c.quoted -> <<Quote, Blank>>
              [] ~c.quoted /\ c.display # Absent -> <<Blank>>
              [] ~c.quoted /\ c.display = Absent -> <<>>

Compose(c) == FlattenSeq(Pieces(c, Lead(c), Trail(c)))

\* What delimits a component does not occur in it.
Free(t, tokens) == t \in Seq(ToSet(t)) /\ ToSet(t) \cap tokens = {}
IsHost(t) == Free(t, {"<", ">", "@", ":", ";", "?"})
IsName(t) == Free(t, {"<", Quote}) /\ (t # <<>> => t[1] # Blank /\ t[Len(t)] # Blank)

IsForm(c) ==
  /\ DOMAIN c = UriElements \cup {"quoted", "angled", "params", "trailer"}
  /\ c.quoted \in BOOLEAN /\ c.angled \in BOOLEAN
  /\ c.quoted => c.display # Absent
  /\ c.display # Absent => c.angled
  /\ IsName(Of(c.display)) /\ Free(Of(c.user), {"<", ">", "@"})
  /\ IsHost(Of(c.host)) /\ IsHost(Of(c.port))
  /\ Free(c.params, {"<", ">", "@"}) /\ (c.params # <<>> => c.params[1] \in {";", "?"})
  /\ Free(c.trailer, {})

ASSUME UriEditingAssumption ==
  /\ \A t \in Texts : IsHost(t) /\ IsName(t)
  /\ \A c \in Forms : IsForm(c)

Init == \E c \in Forms : parts = c /\ value = Compose(c)

\* A display name needs angle brackets: before a bare addr-spec, where
\* rebuild_uri puts it, parse_uri does not look for one.
Rewrite(e, t) ==
  /\ e = "display" => parts.angled
  /\ value' = RebuildUri(value, e, t)
  /\ parts' = [parts EXCEPT ![e] = Present(t)]

Next == \E e \in UriElements, t \in Texts : Rewrite(e, t)

Spec == Init /\ [][Next]_vars

-----------------------------------------------------------------------------
\* "It parses values of the form [display-name] [<] sip:user@host[:port]
\* [;params] [>] [;hdr] into component views" (uri.hpp:6-8): after any
\* rewrites every component reads back as what was written last.
ReadsBack == \A e \in UriElements : UriGet(value, e) = Of(parts[e])

\* "Everything around the element is preserved verbatim; an absent
\* user/display/port is inserted where it belongs" (uri.hpp:35-36): but for
\* quotes and blanks the value is what its components compose to.
Visible(t) == FlattenSeq([i \in DOMAIN t |-> IF t[i] \in {Quote, Blank} THEN <<>> ELSE <<t[i]>>])
RestIsVerbatim == Visible(value) = Visible(Compose(parts))
=============================================================================
