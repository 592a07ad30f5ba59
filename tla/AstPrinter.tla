----------------------------- MODULE AstPrinter -----------------------------
(***************************************************************************)
(* The pretty-printer behind `hmrc dump-ast' (src/src/ast/ast_printer.cpp, *)
(* traversal in ast_visitor.hpp): a tree back into lines of tokens.        *)
(* Indentation means nothing to the grammar and is left out.               *)
(***************************************************************************)
EXTENDS Parser

\* attr: the key, and the value when there is one.
Attr(key, value) == <<key>> \o (IF value = <<>> THEN <<>> ELSE <<" ">> \o value)

\* Mutant: the methods are written one after another.
JoinMethods_NoComma(methods) == FlattenSeq(methods)

JoinMethods(methods) ==
  FlattenSeq([k \in 1..Len(methods) |->
                (IF k = 1 THEN <<>> ELSE <<",">>) \o methods[k]])

\* The value as it is written: texts and raw values unquoted, enumerations by
\* the word to_string has for them.
Shown(kind, value) ==
  CASE kind = "text"             -> value
    [] kind = "list"             -> JoinMethods(value)
    [] kind \in {"match", "new"} -> value.raw
    [] kind \in DOMAIN Table     -> <<value>>

Attrs(block, node, keys) ==
  [k \in 1..Len(keys) |-> Attr(keys[k], Shown(Schema[block][keys[k]], node[keys[k]]))]

PrintElement(e) ==
  <<<<"element-rule">>>> \o
  Attrs("element", e, <<"name", "parameter-name", "type", "action", "match-val-type",
                        "comparison-type", "match-value", "new-value">>)

PrintHeader(h) ==
  LET upTo[k \in 0..Len(h["elements"])] ==
        IF k > 0 THEN upTo[k - 1] \o PrintElement(h["elements"][k])
        ELSE <<<<"header-rule">>>> \o
             Attrs("header", h, <<"name", "header-name", "action", "comparison-type",
                                  "match-value", "msg-type", "new-value", "methods">>)
  IN  upTo[Len(h["elements"])]

\* Two of the six attributes of a ruleset are written.
PrintRuleset(tree) ==
  LET upTo[k \in 0..Len(tree["rules"])] ==
        IF k > 0 THEN upTo[k - 1] \o PrintHeader(tree["rules"][k])
        ELSE <<<<"sip-manipulation">>>> \o
             Attrs("manipulation", tree,
                   IF tree["description"] = <<>> THEN <<"name">> ELSE <<"name", "description">>)
  IN  upTo[Len(tree["rules"])]

\* A newline inside a value begins a line of its own.
SplitLines(lines) ==
  LET upTo[k \in 0..Len(lines)] ==
        IF k = 0 THEN <<>> ELSE upTo[k - 1] \o Pieces(lines[k], {Newline})
  IN  upTo[Len(lines)]

ToHmrText(tree) == SplitLines(PrintRuleset(tree))
=============================================================================
