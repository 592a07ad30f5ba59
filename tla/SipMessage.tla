----------------------------- MODULE SipMessage -----------------------------
(***************************************************************************)
(* The zero-copy message model (src/src/runtime/sip_message.cpp) and the   *)
(* worker's bump arena it edits into (src/include/hmr/runtime/arena.hpp).  *)
(*                                                                         *)
(* A header's name and value are slices: views of the raw packet, which    *)
(* nobody writes, or of the arena, which is rewound and overwritten for    *)
(* every packet.  One worker owns the message and the arena, so each call  *)
(* of the runtime's C ABI is one action; a text is a sequence of tokens    *)
(* and takes one arena cell for each.                                      *)
(***************************************************************************)
EXTENDS Uri, SequencesExt

CONSTANTS
  Capacity,    \* HmrArena::kCapacity, in tokens
  MaxHeaders,  \* HMR_MAX_HEADERS
  MaxPackets,  \* bound: packets a worker receives
  MaxCalls,    \* bound: calls the worker's modules and host make on messages
  Packets,     \* what the network delivers
  Names,       \* header names rules use
  Texts,       \* texts rules write
  Elements,    \* URI elements that element rules rewrite
  Fields,      \* <<header or <<>> for the request-URI, element>> of HmrField
  Lower        \* ascii_to_lower of every name, as a function

\* A text, a header line, and what parse makes of a packet before it looks
\* into the headers: the start line around the request-URI, the lines, the body.
\* A request line with a blank has a request-URI (hasUri), be it empty.
Token == STRING \cup {"@", ":", ": ", Blank, "CRLF", "junk", "zero"}  \* what the code writes named
Chars == Seq(Token)
Line  == [name : Chars, value : Chars]
Datagram ==
  {d \in [request : BOOLEAN, hasUri : BOOLEAN, before : Chars, uri : Chars, after : Chars,
          fields : Seq(Line), body : Chars] :
     (d.hasUri => d.request) /\ (~d.hasUri => d.uri = <<>>)}

ASSUME SipMessageAssumption ==
  /\ Capacity \in Nat /\ MaxHeaders \in Nat /\ MaxPackets \in Nat \ {0} /\ MaxCalls \in Nat
  /\ Packets \subseteq Datagram
  /\ Names \subseteq Chars /\ Texts \subseteq Chars
  /\ Elements \subseteq UriElements \cup {"whole"}
  /\ Fields \subseteq Chars \X (UriElements \cup {"whole"})

VARIABLES
  arena,     \* HmrArena: its cells and how many are used
  packet,    \* the raw packet the message was parsed from
  headers,   \* HmrSipMsg::headers[0 .. num_headers)
  ruri,      \* HmrSipMsg::mod_request_uri
  wire,      \* the view serialize returned last for this message
  call,      \* the last call and its verdict
  calls,     \* calls made so far
  received   \* packets received

vars == <<arena, packet, headers, ruri, wire, call, calls, received>>

-----------------------------------------------------------------------------
(* Slices and the arena *)

Raw(t)        == [in |-> "raw", text |-> t, at |-> 0, len |-> 0]
InArena(a, n) == [in |-> "arena", text |-> <<>>, at |-> a, len |-> n]
Null          == [in |-> "null", text |-> <<>>, at |-> 0, len |-> 0]

\* The tokens a slice shows, given the cells of the arena.
Show(cells, s) == IF s.in = "arena" THEN [i \in 1..s.len |-> cells[s.at + i]] ELSE s.text

Read(s) == Show(arena.cells, s)

Fits(a, t) == a.used + Len(t) <= Capacity

\* Mutant: the bump pointer stops one short, so the next text overlaps.
Alloc_Overlaps(a, t) ==
  [cells |-> [i \in 1..Capacity |-> IF i \in a.used + 1 .. a.used + Len(t)
                                    THEN t[i - a.used] ELSE a.cells[i]],
   used  |-> IF Len(t) > 1 THEN a.used + Len(t) - 1 ELSE a.used + Len(t)]

\* alloc, and the copy into the cells it handed out.
Alloc(a, t) ==
  [cells |-> [i \in 1..Capacity |-> IF i \in a.used + 1 .. a.used + Len(t)
                                    THEN t[i - a.used] ELSE a.cells[i]],
   used  |-> a.used + Len(t)]

\* dup: an empty text stays where it is.
View(a, t) == IF t = <<>> THEN Raw(<<>>) ELSE InArena(a.used, Len(t))

-----------------------------------------------------------------------------
(* Header operations: m is an arena, a header array and a verdict *)

Here == [arena |-> arena, headers |-> headers, ok |-> TRUE]

Refused(m) == [m EXCEPT !.ok = FALSE]

Matches(m, h, n) == ~h.removed /\ Lower[Show(m.arena.cells, h.name)] = Lower[n]

Find(m, n) == SelectInSeq(m.headers, LAMBDA h : Matches(m, h, n))

GetHeader(m, n) == IF Find(m, n) = 0 THEN Null ELSE m.headers[Find(m, n)].value

\* Mutant: the last slot of the array is checked one too late.
AddHeader_OffByOne(m, n, t) ==
  LET named == Alloc(m.arena, n)
      h     == [name |-> View(m.arena, n), value |-> View(named, t), removed |-> FALSE]
  IN  IF Len(m.headers) > MaxHeaders \/ ~Fits(m.arena, n) \/ ~Fits(named, t) THEN Refused(m)
      ELSE [arena |-> Alloc(named, t), headers |-> Append(m.headers, h), ok |-> TRUE]

\* add_header: the name may have taken arena space when the value does not fit.
AddHeader(m, n, t) ==
  LET named == Alloc(m.arena, n)
      h     == [name |-> View(m.arena, n), value |-> View(named, t), removed |-> FALSE]
  IN  CASE Len(m.headers) >= MaxHeaders \/ ~Fits(m.arena, n) -> Refused(m)
        [] Len(m.headers) < MaxHeaders /\ Fits(m.arena, n) /\ ~Fits(named, t) ->
             Refused([m EXCEPT !.arena = named])
        [] OTHER -> [arena |-> Alloc(named, t), headers |-> Append(m.headers, h), ok |-> TRUE]

\* Mutant: the value is looked up and re-pointed before it is known to fit.
SetHeader_NoCheck(m, n, t) ==
  LET i == Find(m, n)
  IN  IF i = 0 THEN AddHeader(m, n, t)
      ELSE IF Fits(m.arena, t)
           THEN [m EXCEPT !.arena = Alloc(m.arena, t), !.headers[i].value = View(m.arena, t)]
           ELSE Refused([m EXCEPT !.headers[i].value = Null])

\* set_header: the value is copied first; an absent name is then added, and
\* the value copied once more.
SetHeader(m, n, t) ==
  LET held == [m EXCEPT !.arena = Alloc(m.arena, t)]
      i    == Find(m, n)
  IN  CASE ~Fits(m.arena, t) -> Refused(m)
        [] Fits(m.arena, t) /\ i = 0 -> AddHeader(held, n, t)
        [] OTHER -> [held EXCEPT !.headers[i].value = View(m.arena, t)]

\* Mutant: only the first match is tombstoned.
DeleteHeader_First(m, n) ==
  IF Find(m, n) = 0 THEN Refused(m) ELSE [m EXCEPT !.headers[Find(m, n)].removed = TRUE]

\* delete_header: tombstones, which keep their place in the array.
DeleteHeader(m, n) ==
  [m EXCEPT !.headers = [i \in DOMAIN m.headers |->
                           [m.headers[i] EXCEPT !.removed = @ \/ Matches(m, m.headers[i], n)]],
            !.ok = Find(m, n) # 0]

\* Mutant: the element's new text replaces the whole value.
RewriteElement_Whole(m, n, e, t) == SetHeader(m, n, t)

\* What the code of an element rule calls (Interpreter::run_element_rules, the
\* generators alike): uri_set builds the new value in the arena, set_header
\* copies it; a value that did not fit comes back null and is set as it is.
RewriteElement(m, n, e, t) ==
  LET built == RebuildUri(Show(m.arena.cells, GetHeader(m, n)), e, t)
  IN  IF e = "whole" THEN SetHeader(m, n, t)
      ELSE IF Fits(m.arena, built)
           THEN SetHeader([m EXCEPT !.arena = Alloc(m.arena, built)], n, built)
           ELSE Refused(SetHeader(m, n, <<>>))

-----------------------------------------------------------------------------
(* Parsing and serializing *)

Junk == [name |-> <<>>, value |-> <<"junk">>]   \* a line without a colon

\* Mutant: a line without a colon ends the headers.
ParseHeaders_StopsAtJunk(p) ==
  LET kept == SubSeq(p.fields, 1, First(p.fields, 1, Len(p.fields), {Junk}) - 1)
  IN  [i \in DOMAIN kept |->
         [name |-> Raw(kept[i].name), value |-> Raw(kept[i].value), removed |-> FALSE]]

\* The lines with a colon, in order.
HeaderLines(p) ==
  FlattenSeq([i \in DOMAIN p.fields |-> IF p.fields[i] = Junk THEN <<>> ELSE <<p.fields[i]>>])

\* parse: every line with a colon, as far as the header array goes.
ParseHeaders(p) ==
  LET kept == SubSeq(HeaderLines(p), 1, Min({Len(HeaderLines(p)), MaxHeaders}))
  IN  [i \in DOMAIN kept |->
         [name |-> Raw(kept[i].name), value |-> Raw(kept[i].value), removed |-> FALSE]]

RequestUri == IF ruri # Null THEN Read(ruri) ELSE packet.uri

\* A header list as lines, a start line, and the body.
LineOf(f) == f.name \o <<": ">> \o f.value \o <<"CRLF">>
Rendering(line, fields, body) ==
  line \o <<"CRLF">> \o FlattenSeq([i \in DOMAIN fields |-> LineOf(fields[i])])
       \o <<"CRLF">> \o body

FieldOf(h) == [name |-> Read(h.name), value |-> Read(h.value)]

LiveFields ==
  FlattenSeq([i \in DOMAIN headers |->
                IF headers[i].removed THEN <<>> ELSE <<FieldOf(headers[i])>>])

\* serialize splices the override into a request line that has a URI, and
\* sends every other start line verbatim.
SentUri == IF packet.request /\ packet.hasUri THEN RequestUri ELSE packet.uri

\* The texts serialize puts, in order.
Pieces ==
  <<packet.before, SentUri, packet.after, <<"CRLF">>>>
  \o FlattenSeq([i \in DOMAIN LiveFields |->
                   <<LiveFields[i].name, <<": ">>, LiveFields[i].value, <<"CRLF">>>>])
  \o <<<<"CRLF">>, packet.body>>

\* Mutant: a text that does not fit is left out and the rest goes on.
PutAll_Skips(a, pieces) ==
  FoldLeft(LAMBDA m, t : IF Fits(m.arena, t) THEN [m EXCEPT !.arena = Alloc(m.arena, t)] ELSE m,
           [arena |-> a, ok |-> TRUE], pieces)

\* put after put; after the first that does not fit nothing is written, so
\* what is written is the longest prefix of the texts that fits.
PutAll(a, pieces) ==
  LET Prefix(k) == FlattenSeq(SubSeq(pieces, 1, k))
      count     == Max({k \in 0 .. Len(pieces) : Fits(a, Prefix(k))})
  IN  [arena |-> Alloc(a, Prefix(count)), ok |-> count = Len(pieces)]

-----------------------------------------------------------------------------
(* Actions *)

Init ==
  /\ arena = [cells |-> [i \in 1..Capacity |-> "zero"], used |-> 0]
  /\ packet \in Packets
  /\ headers = ParseHeaders(packet)
  /\ ruri = Null /\ wire = Null
  /\ call = [op |-> "receive", name |-> <<>>, element |-> "whole", text |-> <<>>, ok |-> TRUE]
  /\ calls = 0
  /\ received = 1

\* The host parses the next packet and resets the context for it.
Receive(p) ==
  /\ received < MaxPackets
  /\ packet' = p /\ headers' = ParseHeaders(p)
  /\ ruri' = Null /\ wire' = Null
  /\ arena' = [arena EXCEPT !.used = 0]
  /\ call' = [op |-> "receive", name |-> <<>>, element |-> "whole", text |-> <<>>, ok |-> TRUE]
  /\ received' = received + 1
  /\ UNCHANGED calls

\* A call on the message is over: m is what it left.
Done(op, n, e, t, m) ==
  /\ calls < MaxCalls /\ calls' = calls + 1
  /\ arena' = m.arena
  /\ call' = [op |-> op, name |-> n, element |-> e, text |-> t, ok |-> m.ok]
  /\ UNCHANGED <<packet, received>>

Edit(op, n, e, t, m) ==
  Done(op, n, e, t, m) /\ headers' = m.headers /\ UNCHANGED <<ruri, wire>>

Set(n, t)        == Edit("set", n, "whole", t, SetHeader(Here, n, t))
Add(n, t)        == Edit("add", n, "whole", t, AddHeader(Here, n, t))
Delete(n)        == Edit("delete", n, "whole", <<>>, DeleteHeader(Here, n))
Element(n, e, t) == Edit("element", n, e, t, RewriteElement(Here, n, e, t))

\* set_field of the request-URI: the rebuilt URI becomes the override.
SetRequestUri(e, t) ==
  LET built == RebuildUri(RequestUri, e, t)
  IN  /\ UNCHANGED <<headers, wire>>
      /\ IF Fits(arena, built)
         THEN /\ ruri' = InArena(arena.used, Len(built))
              /\ Done("field", <<>>, e, t, [Here EXCEPT !.arena = Alloc(arena, built)])
         ELSE UNCHANGED ruri /\ Done("field", <<>>, e, t, Refused(Here))

\* set_field of From and To: the header's value is rebuilt in place.
SetFieldOf(n, e, t) ==
  LET i     == Find(Here, n)
      built == RebuildUri(Read(GetHeader(Here, n)), e, t)
      view  == InArena(arena.used, Len(built))
  IN  Edit("field", n, e, t,
           IF i = 0 \/ ~Fits(arena, built) THEN Refused(Here)
           ELSE [Here EXCEPT !.arena = Alloc(arena, built), !.headers[i].value = view])

SetField(n, e, t) == IF n = <<>> THEN SetRequestUri(e, t) ELSE SetFieldOf(n, e, t)

\* serialize writes into the same arena, above everything the message shows.
Serialize ==
  LET put == PutAll(arena, Pieces)
  IN  /\ Done("serialize", <<>>, "whole", <<>>, put)
      /\ wire' = IF put.ok THEN InArena(arena.used, put.arena.used - arena.used) ELSE Null
      /\ UNCHANGED <<headers, ruri>>

Next ==
  \/ \E p \in Packets : Receive(p)
  \/ \E n \in Names, t \in Texts : Set(n, t) \/ Add(n, t)
  \/ \E n \in Names : Delete(n)
  \/ \E n \in Names, e \in Elements, t \in Texts : Element(n, e, t)
  \/ \E f \in Fields, t \in Texts : SetField(f[1], f[2], t)
  \/ Serialize

Spec == Init /\ [][Next]_vars

-----------------------------------------------------------------------------
(* Properties *)

Slices == {headers[i].name : i \in DOMAIN headers} \cup {headers[i].value : i \in DOMAIN headers}
            \cup {ruri, wire}

TypeOK ==
  /\ arena.used \in 0..Capacity /\ DOMAIN arena.cells = 1..Capacity
  /\ packet \in Packets
  /\ Len(headers) <= MaxHeaders
  /\ \A s \in Slices : s.in \in {"raw", "arena", "null"} /\ s.at \in Nat /\ s.len \in Nat
  /\ calls \in 0..MaxCalls /\ received \in 1..MaxPackets

\* No view of the message, nor the serialized packet, reaches past what the
\* arena has handed out since the packet came in: nothing a later call writes
\* can show through (sip_message.hpp:15-20).
SlicesAreAllocated ==
  \A s \in Slices : s.in = "arena" => s.at + s.len <= arena.used

\* "Reads can never go stale within a packet" (sip_message.hpp:31-32): a slice
\* that a step does not re-point shows the same text after the step, and so
\* does the serialized packet the host is sending.
ReadsAreNeverStale ==
  [][received' = received =>
       /\ \A i \in DOMAIN headers :
            /\ headers'[i].name = headers[i].name => Read(headers[i].name)' = Read(headers[i].name)
            /\ headers'[i].value = headers[i].value => Read(headers[i].value)' = Read(headers[i].value)
       /\ ruri' = ruri => Read(ruri)' = Read(ruri)
       /\ wire' = wire => Read(wire)' = Read(wire)]_vars

\* What goes on the wire is the message as edited: the start line with the
\* rewritten URI, the live headers in order, the body (serialize).
SentAsEdited ==
  call.op = "serialize" /\ call.ok =>
    Read(wire) = Rendering(packet.before \o SentUri \o packet.after, LiveFields, packet.body)

\* "The caller must check: exhaustion is a no-op at the ABI boundary"
\* (arena.hpp:41-42): when something did not fit, the message reads as before.
ExhaustionIsNoOp ==
  [][~call'.ok => LiveFields' = LiveFields /\ RequestUri' = RequestUri]_vars

\* "Serialize the (possibly mutated) message to wire form" (sip_message.hpp:
\* 113-114): a packet nobody edits goes out with every header it came with.
UneditedIsSentUnchanged ==
  calls = 1 /\ call.op = "serialize" /\ call.ok =>
    Read(wire) = Rendering(packet.before \o packet.uri \o packet.after,
                           HeaderLines(packet), packet.body)

\* The slices, tombstones and arena implement a list of header fields edited by
\* calls that do all they say or nothing.
SameName(a, b) == Lower[a] = Lower[b]
Contract == INSTANCE HeaderList
  WITH list <- LiveFields, uri <- RequestUri, Rewrite <- RebuildUri

ImplementsHeaderList == Contract!Spec
=============================================================================
