------------------------------- MODULE Parser -------------------------------
(***************************************************************************)
(* The ruleset parser: the grammar (src/grammar/Hmr.g4), the visitor that  *)
(* builds the tree (src/src/parser/parser.cpp) and the tables of keywords  *)
(* (src/src/ast/ast_factory.cpp).                                          *)
(*                                                                         *)
(* A source is a sequence of lines, a line a sequence of tokens: blanks,   *)
(* quotes, "#" and backslashes are tokens of their own, a keyword is one   *)
(* token, the rest as in Values.  A node of the tree is a function from    *)
(* attribute keys to values.                                               *)
(***************************************************************************)
EXTENDS Values, TLC

CONSTANTS
  Lowered,  \* tokens with capital letters, and their lower-case forms
  Uppered   \* tokens with small letters used as methods, in upper case

Lower(t) == IF t \in DOMAIN Lowered THEN Lowered[t] ELSE t
Upper(t) == IF t \in DOMAIN Uppered THEN Uppered[t] ELSE t

Newline == "\n"

-----------------------------------------------------------------------------
(* The lexer: words, strings, comments *)

\* Where the string that began before position i is closed.
Closing(s) ==
  LET from[i \in 1..Len(s) + 2] ==
        IF i > Len(s) THEN Len(s) + 1
        ELSE IF s[i] = "\\" THEN from[i + 2]
        ELSE IF s[i] = "\"" THEN i ELSE from[i + 1]
  IN  from

\* unescape_string, of the text between the quotes.
Unescape(s) ==
  LET from[i \in 1..Len(s) + 1] ==
        IF i > Len(s) THEN <<>>
        ELSE IF s[i] # "\\" \/ i = Len(s) THEN <<s[i]>> \o from[i + 1]
        ELSE <<IF s[i + 1] = "n" THEN Newline ELSE s[i + 1]>> \o from[i + 2]
  IN  from[1]

Atom(text, quoted) == [text |-> text, quoted |-> quoted]
Unlexable == Atom(<<"unterminated string">>, TRUE)

\* The atoms of a line.  A "#" or a quote is special only where an atom begins.
\* (A backslash that ends the line would carry its string into the next one;
\* sources have none.)
Atoms(s) ==
  LET from[i \in 1..Len(s) + 1] ==
        IF i > Len(s) \/ At(s, i) = "#" THEN <<>>
        ELSE IF s[i] = " " THEN from[i + 1]
        ELSE IF s[i] # "\""
        THEN LET end == FirstOf(s, i, {" "})
             IN  <<Atom(SubSeq(s, i, end - 1), FALSE)>> \o from[end]
        ELSE LET end == Closing(s)[i + 1]
             IN  IF end > Len(s) THEN <<Unlexable>>
                 ELSE <<Atom(Unescape(SubSeq(s, i + 1, end - 1)), TRUE)>> \o from[end + 1]
  IN  from[1]

\* read_value: the atoms joined by blanks.  The code adds the blank only once
\* something has been written, so a leading empty string leaves no trace.
ReadValue(atoms) ==
  LET raw[k \in 0..Len(atoms)] ==
        IF k = 0 THEN <<>>
        ELSE (IF raw[k - 1] = <<>> THEN <<>> ELSE raw[k - 1] \o <<" ">>) \o atoms[k].text
  IN  [raw    |-> raw[Len(atoms)],
       quoted |-> Len(atoms) = 1 /\ atoms[1].quoted,
       count  |-> Len(atoms)]

-----------------------------------------------------------------------------
(* AstFactory: keywords and enumerations *)

Manipulations == {"sip-manipulation"}
HeaderBlocks  == {"header-rule", "header-rules"}
ElementBlocks == {"element-rule", "element-rules"}
MimeBlocks    == {"mime-rule", "mime-rules", "mime-isup-rule", "mime-isup-rules",
                  "mime-sdp-rule", "mime-sdp-rules"}

ElementActions == {"none", "add", "store", "replace", "delete-element", "delete-header",
                   "find-replace-all", "sip-manip", "log", "reject"}
HeaderActions  == ElementActions \cup {"manipulate", "delete"}
ElementTypes   == {"header-value", "header-param-name", "header-param", "uri-display",
                   "uri-user", "uri-user-param", "uri-host", "uri-port",
                   "uri-param-name", "uri-param", "uri-header-name", "uri-header",
                   "status-code", "reason-phrase", "uri-user-only",
                   "uri-phone-number-only"}
Comparisons    == {"case-sensitive", "case-insensitive", "pattern-rule", "boolean",
                   "refer-case-sensitive", "refer-case-insensitive"}
MsgTypes       == {"any", "request", "reply", "out-of-dialog"}

Same(words) == [w \in words |-> w]

\* What each enumeration's words stand for ("an" is a truncation in the docs).
Table ==
     "header action"  :> Same(HeaderActions)
  @@ "element action" :> Same(ElementActions)
  @@ "element type"   :> Same(ElementTypes)
  @@ "comparison"     :> Same(Comparisons)
  @@ "match-val-type" :> (Same({"any", "ip", "fqdn"}) @@ "an" :> "any")
  @@ "msg-type"       :> Same(MsgTypes)

\* The attributes of each block, and how their values are read.
Schema ==
     "manipulation" :> (   "name"          :> "text"
                        @@ "description"   :> "text"
                        @@ "import"        :> "text"
                        @@ "export"        :> "text"
                        @@ "split-headers" :> "list"
                        @@ "join-headers"  :> "list")
  @@ "header"  :> (   "name"            :> "text"
                   @@ "header-name"     :> "text"
                   @@ "action"          :> "header action"
                   @@ "comparison-type" :> "comparison"
                   @@ "msg-type"        :> "msg-type"
                   @@ "methods"         :> "list"
                   @@ "match-value"     :> "match"
                   @@ "new-value"       :> "new")
  @@ "element" :> (   "name"            :> "text"
                   @@ "parameter-name"  :> "text"
                   @@ "type"            :> "element type"
                   @@ "action"          :> "element action"
                   @@ "match-val-type"  :> "match-val-type"
                   @@ "comparison-type" :> "comparison"
                   @@ "match-value"     :> "match"
                   @@ "new-value"       :> "new")

Legacy == {"split-headers", "join-headers"}

\* The members' initializers (ast.hpp).
Default(kind) ==
  CASE kind \in {"text", "list"}                      -> <<>>
    [] kind \in {"match", "new"}                      -> NoValue
    [] kind = "comparison"                            -> "case-sensitive"
    [] kind \in {"match-val-type", "msg-type"}        -> "any"
    [] OTHER                                          -> "none"

Blank(block) == [key \in DOMAIN Schema[block] |-> Default(Schema[block][key])]

\* parse_methods, which the legacy lists share.
ParseMethods(raw) ==
  LET words == SelectSeq(Pieces(raw, {",", " "}), LAMBDA w : w # <<>>)
  IN  [k \in 1..Len(words) |-> [i \in 1..Len(words[k]) |-> Upper(words[k][i])]]

-----------------------------------------------------------------------------
(* The visitor *)

\* An enumeration given a word it does not have.  A key without a value, or
\* with an empty string, is not the same: the first keeps the default.
Misspelled(kind, value) ==
  /\ kind \in DOMAIN Table /\ value.count > 0
  /\ ~(Len(value.raw) = 1 /\ Lower(value.raw[1]) \in DOMAIN Table[kind])

\* What an attribute's line makes of the value so far.
Taken(kind, value, old) ==
  CASE kind = "text"            -> value.raw
    [] kind = "list"            -> ParseMethods(value.raw)
    [] kind \in {"match", "new"} -> ParseValue(value.raw, kind, value.quoted)
    [] kind \in DOMAIN Table /\ (value.count = 0 \/ Misspelled(kind, value)) -> old
    [] OTHER                    -> Table[kind][Lower(value.raw[1])]

Start == [begun |-> 0, open |-> "nothing", tree |-> Blank("manipulation") @@ ("rules" :> <<>>),
          errors |-> {}, warnings |-> {}, broken |-> FALSE]

Break(st) == [st EXCEPT !.broken = TRUE]

\* Only the first sip-manipulation is built.
Building(st) == st.begun = 1

OpenManipulation(st, name, i) ==
  IF st.begun = 0
  THEN [st EXCEPT !.begun = 1, !.open = "manipulation", !.tree["name"] = name]
  ELSE [st EXCEPT !.begun = @ + 1, !.open = "manipulation", !.warnings = @ \cup {i}]

OpenHeader(st, name) ==
  LET rule == ("name" :> name) @@ Blank("header") @@ ("elements" :> <<>>)
  IN  IF st.open = "nothing" THEN Break(st)
      ELSE IF ~Building(st) THEN [st EXCEPT !.open = "header"]
      ELSE [st EXCEPT !.open = "header", !.tree["rules"] = Append(@, rule)]

OpenElement(st, name) ==
  LET rule == ("name" :> name) @@ Blank("element")
      h    == Len(st.tree["rules"])
  IN  IF st.open \in {"nothing", "manipulation"} THEN Break(st)
      ELSE IF st.open = "mime" THEN st
      ELSE IF ~Building(st) THEN [st EXCEPT !.open = "element"]
      ELSE [st EXCEPT !.open = "element",
                      !.tree["rules"][h]["elements"] = Append(@, rule)]

OpenMime(st, i) ==
  IF st.open = "nothing" THEN Break(st)
  ELSE [st EXCEPT !.open = "mime",
                  !.warnings = IF Building(st) THEN @ \cup {i} ELSE @]

\* The block that is open: the ruleset, its last header-rule, or the last
\* element-rule of that.
OpenBlock(st) ==
  LET h == Len(st.tree["rules"])
      e == Len(st.tree["rules"][h]["elements"])
  IN  CASE st.open = "manipulation" -> st.tree
        [] st.open = "header"       -> st.tree["rules"][h]
        [] st.open = "element"      -> st.tree["rules"][h]["elements"][e]

\* Mutant: an attribute after an element-rule goes to its header-rule.
Put_Header(st, key, new) ==
  LET h == Len(st.tree["rules"])
  IN  IF st.open = "manipulation" THEN [st EXCEPT !.tree[key] = new]
      ELSE IF key \in DOMAIN Schema["header"]
      THEN [st EXCEPT !.tree["rules"][h][key] = new]
      ELSE st

\* The value goes to the innermost block that is open.
Put(st, key, new) ==
  LET h == Len(st.tree["rules"])
      e == Len(st.tree["rules"][h]["elements"])
  IN  CASE st.open = "manipulation" -> [st EXCEPT !.tree[key] = new]
        [] st.open = "header"       -> [st EXCEPT !.tree["rules"][h][key] = new]
        [] st.open = "element"      ->
             [st EXCEPT !.tree["rules"][h]["elements"][e][key] = new]

Give(st, key, value) ==
  Put(st, key, Taken(Schema[st.open][key], value, OpenBlock(st)[key]))

\* apply_ruleset_attr, apply_header_attr, apply_element_attr.
Attribute(st, word, value, i) ==
  LET key == Lower(word) IN
  IF st.open = "nothing" THEN Break(st)
  ELSE IF st.open = "mime" \/ ~Building(st) THEN st
  ELSE IF key \notin DOMAIN Schema[st.open] THEN [st EXCEPT !.warnings = @ \cup {i}]
  ELSE [Give(st, key, value) EXCEPT
          !.errors   = IF Misspelled(Schema[st.open][key], value) THEN @ \cup {i} ELSE @,
          !.warnings = IF key \in Legacy THEN @ \cup {i} ELSE @]

\* The word a line begins with; a longer or quoted one is no keyword.
HeadWord(atom) ==
  IF Len(atom.text) = 1 THEN atom.text[1] ELSE "other word"

Item(st, word, value, i) ==
  CASE word \in Manipulations -> OpenManipulation(st, value.raw, i)
    [] word \in HeaderBlocks  -> OpenHeader(st, value.raw)
    [] word \in ElementBlocks -> OpenElement(st, value.raw)
    [] word \in MimeBlocks    -> OpenMime(st, i)
    [] OTHER                  -> Attribute(st, word, value, i)

ReadAtoms(st, atoms, i) ==
  IF atoms = <<>> THEN st
  ELSE IF Unlexable \in Range(atoms) \/ atoms[1].quoted THEN Break(st)
  ELSE Item(st, HeadWord(atoms[1]), ReadValue(Tail(atoms)), i)

\* Parser::parse.  After a syntax error the generated parser recovers in ways
\* of its own: that the source is refused is certain, what else is reported of
\* it is not modelled.
Outcome(st) ==
  [ok       |-> ~st.broken /\ st.errors = {} /\ st.begun > 0,
   broken   |-> st.broken \/ st.begun = 0,
   errors   |-> st.errors,
   warnings |-> st.warnings,
   tree     |-> st.tree]

Parse(source) ==
  LET read[i \in 0..Len(source)] ==
        IF i = 0 THEN Start ELSE ReadAtoms(read[i - 1], Atoms(source[i]), i)
  IN  Outcome(read[Len(source)])
=============================================================================
