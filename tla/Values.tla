------------------------------- MODULE Values -------------------------------
(***************************************************************************)
(* The value language of new-value and match-value (src/src/ast/value.cpp).*)
(*                                                                         *)
(* A text is a sequence of tokens: a maximal run of identifier characters  *)
(* or of digits is one token, every other character one of its own.        *)
(***************************************************************************)
EXTENDS Naturals, Sequences, FiniteSets, SequencesExt

CONSTANTS
  Variables,  \* identifiers with a letter and no lower-case one ("LOCAL_IP")
  Names,      \* the other identifiers ("user")
  Numerals    \* runs of digits, each with the number it spells

Identifiers == Variables \cup Names

\* -1 in the code.
NoIndex == "no index"

Literal(text) == [kind |-> "literal", text |-> text, index |-> NoIndex]
Ref(kind, name, index) == [kind |-> kind, text |-> name, index |-> index]

At(s, i) == IF i <= Len(s) THEN s[i] ELSE "end"

\* The least position from i on that satisfies the set of tokens, or the end.
FirstOf(s, i, tokens) ==
  LET hits == {j \in i..Len(s) : s[j] \in tokens}
  IN  IF hits = {} THEN Len(s) + 1 ELSE CHOOSE j \in hits : \A k \in hits : j <= k

StartsRef(s, i) ==
  s[i] = "$" /\ At(s, i + 1) \in Identifiers \cup DOMAIN Numerals \cup {"{"}

\* $name.$name...$N: the segments of a back-reference from position i on, with
\* what follows it.  A ".$" that neither a name nor a number follows is eaten.
Chain(s) ==
  LET from[i \in 1..Len(s) + 1] ==
        IF At(s, i) \notin Identifiers
        THEN [path |-> <<>>, index |-> NoIndex, next |-> i]
        ELSE IF At(s, i + 1) # "." \/ At(s, i + 2) # "$"
        THEN [path |-> <<s[i]>>, index |-> NoIndex, next |-> i + 1]
        ELSE IF At(s, i + 3) \in DOMAIN Numerals
        THEN [path |-> <<s[i], ".$", s[i + 3]>>, index |-> Numerals[s[i + 3]],
              next |-> i + 4]
        ELSE LET rest == from[i + 3]
             IN  [rest EXCEPT !.path = <<s[i]>> \o (IF @ = <<>> THEN <<>> ELSE <<".">> \o @)]
  IN  from

\* A single name without a lower-case letter is a variable.
NameRef(chain) ==
  [ref  |-> Ref(IF chain.path \in {<<v>> : v \in Variables} THEN "variable" ELSE "rule",
                chain.path, chain.index),
   next |-> chain.next]

\* parse_ref at a "$": the reference and the position after it.
ParseRef(s, i) ==
  CASE s[i + 1] = "{" ->
         LET close == FirstOf(s, i + 2, {"}"})
         IN  [ref  |-> Ref("variable", SubSeq(s, i + 2, close - 1), NoIndex),
              next |-> IF close > Len(s) THEN close ELSE close + 1]
    [] s[i + 1] \in DOMAIN Numerals ->
         [ref |-> Ref("capture", <<s[i + 1]>>, Numerals[s[i + 1]]), next |-> i + 2]
    [] OTHER -> NameRef(Chain(s)[i + 1])

\* interpolate: references, and the literals between them.
Interpolate(s) ==
  LET starts == {i \in 1..Len(s) : StartsRef(s, i)}
      from[i \in 1..Len(s) + 1] ==
        IF i = Len(s) + 1 THEN <<>>
        ELSE IF i \in starts
        THEN LET r == ParseRef(s, i) IN <<r.ref>> \o from[r.next]
        ELSE LET later == {j \in starts : j > i}
                 stop  == IF later = {} THEN Len(s) + 1
                          ELSE CHOOSE j \in later : \A k \in later : j <= k
             IN  <<Literal(SubSeq(s, i, stop - 1))>> \o from[stop]
  IN  from[1]

\* The pieces of a text between separators, empty ones included.
Pieces(s, separators) ==
  LET cuts == SetToSortSeq({0, Len(s) + 1} \cup {i \in 1..Len(s) : s[i] \in separators}, <)
  IN  [k \in 1..Len(cuts) - 1 |-> SubSeq(s, cuts[k] + 1, cuts[k + 1] - 1)]

\* Mutant: the whole expression is interpolated at once.
NewValueSegments_NoSplit(s) == Interpolate(s)

\* split_concat, and each operand interpolated.
NewValueSegments(s) ==
  LET operands == Pieces(s, {"+"})
  IN  FlattenSeq([k \in 1..Len(operands) |-> Interpolate(operands[k])])

\* Value::parse, for the modes "match" and "new" and for a quoted text.
ParseValue(raw, mode, quoted) ==
  LET negated == ~quoted /\ mode = "match" /\ At(raw, 1) = "!"
      body    == IF negated THEN Tail(raw) ELSE raw
      isRef   == ~quoted /\ mode = "match" /\ At(body, 1) = "$"
      verbatim == IF body = <<>> THEN <<>> ELSE <<Literal(body)>>
  IN  [raw      |-> raw,
       negated  |-> negated,
       refs     |-> isRef,
       segments |-> IF quoted \/ (mode = "match" /\ ~isRef) THEN verbatim
                    ELSE IF mode = "match" THEN Interpolate(body)
                    ELSE NewValueSegments(body)]

\* Value's default: an attribute never given.
NoValue == [raw |-> <<>>, negated |-> FALSE, refs |-> FALSE, segments |-> <<>>]
=============================================================================
