------------------------------ MODULE MCRules ------------------------------
(* Small rules, packets and matchers for the instances of the rule modules. *)
EXTENDS Rules

From == <<"From">>
X    == <<"X">>

MCFold(t) == [i \in DOMAIN t |-> CASE t[i] = "FROM" -> "From" [] t[i] = "VIA" -> "Via" [] t[i] = "Int" -> "int" [] OTHER -> t[i]]
MCSameName(a, b) == MCFold(a) = MCFold(b)
MCVariables == ("LOCAL_IP" :> <<"ip">>)
MCInNetwork(kind, subject, t) == kind = "fqdn" /\ MCFold(subject) = MCFold(t)

\* Patterns are words, with ^ or $ at their ends or not, and the one group (.*).
Body(p) == SelectSeq(p, LAMBDA x : x \notin {"^", "$"})
MCGroups(p) == IF Contains(p, "(.*)") THEN 1 ELSE 0
MCCaptures(p, t) ==
  LET b     == Body(p)
      found == {i \in 1..Len(t) - Len(b) + 1 :
                  /\ SubSeq(t, i, i + Len(b) - 1) = b
                  /\ p[1] = "^" => i = 1
                  /\ p[Len(p)] = "$" => i + Len(b) - 1 = Len(t)}
  IN  CASE b = <<"(.*)">> -> <<t, t>>
        [] b # <<"(.*)">> /\ found # {} -> <<b>>
        [] OTHER -> <<>>

-----------------------------------------------------------------------------
Word(w)    == [kind |-> "text", text |-> <<w>>]
Variable(n) == [kind |-> "variable", name |-> n]
Captured(g) == [kind |-> "capture", index |-> g]
Stored(r, g) == [kind |-> "slot", path |-> <<r>>, index |-> g]

\* A value as written in the source, up to quotes.
Spelled(v) ==
  FlattenSeq([k \in DOMAIN v |->
    (IF k = 1 THEN <<>> ELSE <<"+">>) \o
    CASE v[k].kind = "text"     -> v[k].text
      [] v[k].kind = "variable" -> <<"$" \o v[k].name>>
      [] v[k].kind = "capture"  -> <<"$" \o ToString(v[k].index)>>
      [] v[k].kind = "slot"     -> <<"$" \o v[k].path[1] \o ".$" \o ToString(v[k].index)>>])

Is(t)   == [NoMatch EXCEPT !.text = t]
Isnt(t) == [NoMatch EXCEPT !.text = t, !.negated = TRUE]

Rule(n, h, a, v) ==
  [name |-> n, header |-> h, action |-> a, cmp |-> "sensitive", msg |-> "any", methods |-> <<>>,
   match |-> NoMatch, new |-> v, raw |-> Spelled(v), elements |-> <<>>]
Element(n, t, a, v) ==
  [name |-> n, type |-> t, action |-> a, cmp |-> "sensitive", kind |-> "any", match |-> NoMatch,
   new |-> v, raw |-> Spelled(v), param |-> <<>>]

When(r, c, m)     == [r EXCEPT !.cmp = c, !.match = m]
Saying(r, v)      == [r EXCEPT !.new = v, !.raw = Spelled(v)]
Drill(h, es)      == [Rule("m", h, "manipulate", <<>>) EXCEPT !.elements = es]

Message(req, m, fs) == [request |-> req, method |-> m, fields |-> fs]
Line(n, v) == [name |-> n, value |-> v]
Inside  == <<"sip", ":", "al", "@", "int">>
Outside == <<"sip", ":", "bo", "@", "ext">>
=============================================================================
