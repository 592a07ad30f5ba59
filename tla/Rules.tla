------------------------------- MODULE Rules -------------------------------
(***************************************************************************)
(* What a ruleset does to a message: the tree walk of the interpreter      *)
(* (src/src/interp/interpreter.cpp) over the calls of the runtime's C ABI  *)
(* (src/src/runtime/runtime.cpp).                                          *)
(*                                                                         *)
(* A header rule is a record of                                            *)
(*   name, header, action, cmp, msg, methods, match, new, raw, elements    *)
(* and an element rule one of                                              *)
(*   name, type, action, cmp, kind, match, new, raw, param.                *)
(* A value (new) is a sequence of segments; <<>> is no value; raw is its   *)
(* source text without quotes.  Names of rules are strings, texts          *)
(* sequences of tokens.  Only the optimizer reads raw and param.           *)
(*                                                                         *)
(* A state s of an application is the message [request, method, fields],   *)
(* the context [slots, captures, logs, verdict] and the tables [keys,      *)
(* patterns] by which the module numbers slots and regexes.                *)
(***************************************************************************)
EXTENDS Uri, Fields, TLC

CONSTANTS
  Captures(_, _),       \* std::regex_search: <<>>, or <<match, group 1, ...>>
  Groups(_),            \* count_capturing_groups of a pattern
  Fold(_),              \* ascii_to_lower
  InNetwork(_, _, _),   \* the ip and fqdn matchers
  Variables             \* the host's variables, by name

\* A verdict is the reasons to reject: at most one.
Accepted == <<>>

RuleFields ==
  {"name", "header", "action", "cmp", "msg", "methods", "match", "new", "raw", "elements"}

\* A ruleset: a sequence of header rules.
IsRuleset(rs) == rs \in Seq(ToSet(rs)) /\ \A r \in ToSet(rs) : DOMAIN r = RuleFields

\* A value: a sequence of segments.
IsValue(v) == v \in Seq(ToSet(v)) /\ \A seg \in ToSet(v) : seg.kind \in {"text", "variable", "capture", "slot"}

NoMatch == [text |-> <<>>, negated |-> FALSE, ref |-> FALSE]

-----------------------------------------------------------------------------
(* Slots and captures *)

\* The number of a key; the code's answer for an unregistered key is the first.
Number(table, k) == IF Contains(table, k) THEN SelectInSeq(table, LAMBDA x : x = k) ELSE 1

Key(rule, group) == <<rule, group>>

LoadSlot(s, k)  == IF s.slots = <<>> THEN <<>> ELSE s.slots[Number(s.keys, k)]
StoreSlot(s, k, t) == IF s.slots = <<>> THEN s ELSE [s EXCEPT !.slots[Number(s.keys, k)] = t]

Capture(s, g) == IF g < Len(s.captures) THEN s.captures[g + 1] ELSE <<>>

-----------------------------------------------------------------------------
(* Values *)

SegmentText(s, seg) ==
  CASE seg.kind = "text"     -> seg.text
    [] seg.kind = "variable" -> IF seg.name \in DOMAIN Variables THEN Variables[seg.name] ELSE <<>>
    [] seg.kind = "capture"  -> Capture(s, seg.index)
    [] seg.kind = "slot"     -> LoadSlot(s, Key(seg.path[1], seg.index))

Eval(s, v) == FlattenSeq([i \in DOMAIN v |-> SegmentText(s, v[i])])

\* Log and reject say the rule's name when they have no value.
Reason(s, r) == IF r.new # <<>> THEN Eval(s, r.new) ELSE IF r.name = "" THEN <<>> ELSE <<r.name>>

-----------------------------------------------------------------------------
(* Guards *)

\* A $reference as match-value is a documented gap: the rule fires.
Unconditional(m) == m = NoMatch \/ m.ref

Searched(s, m, subject) ==
  IF s.patterns = <<>> THEN <<>> ELSE Captures(s.patterns[Number(s.patterns, m.text)], subject)

Matched(s, cmp, kind, m, subject) ==
  CASE cmp = "pattern"                        -> Searched(s, m, subject) # <<>>
    [] cmp # "pattern" /\ kind # "any"        -> InNetwork(kind, subject, m.text)
    [] cmp = "insensitive" /\ kind = "any"    -> Fold(subject) = Fold(m.text)
    [] OTHER                                  -> subject = m.text

Passes(s, cmp, kind, m, subject) ==
  Unconditional(m) \/ Matched(s, cmp, kind, m, subject) # m.negated

\* Every search replaces the captures, whether or not the rule then fires.
AfterGuard(s, cmp, m, subject) ==
  IF Unconditional(m) \/ cmp # "pattern" THEN s
  ELSE [s EXCEPT !.captures = Searched(s, m, subject)]

\* The message-type and method guards of a header rule.
Concerns(s, r) ==
  /\ r.msg = "request" => s.request
  /\ r.msg = "reply" => ~s.request
  /\ r.methods # <<>> => \E i \in DOMAIN r.methods : Fold(r.methods[i]) = Fold(s.method)

-----------------------------------------------------------------------------
(* Header rules *)

RuleName(r, i) == IF r.name = "" THEN "rule" \o ToString(i - 1) ELSE r.name

\* The whole match under the rule's name, and each group under its number.
StoreGroup(s, r, i, g) == StoreSlot(s, Key(RuleName(r, i), g), Capture(s, g))

AfterGroups(s, r, i) ==
  LET after[n \in 0 .. Groups(r.match.text) + 1] ==
        IF n = 0 THEN s ELSE StoreGroup(after[n - 1], r, i, n - 1)
  IN  after

StoreGroups(s, r, i) == AfterGroups(s, r, i)[Groups(r.match.text) + 1]

SetsHeader(r) == r.action \in {"replace", "manipulate"} /\ r.new # <<>> /\ r.elements = <<>>

HeaderAct(s, r, i) ==
  CASE r.action = "add"    -> [s EXCEPT !.fields = Added(s.fields, r.header, Eval(s, r.new))]
    [] SetsHeader(r)       -> [s EXCEPT !.fields = Put(s.fields, r.header, Eval(s, r.new))]
    [] r.action = "delete" -> [s EXCEPT !.fields = Without(s.fields, r.header)]
    [] r.action = "store" /\ r.cmp = "pattern" -> StoreGroups(s, r, i)
    [] r.action = "store" /\ r.cmp # "pattern" ->
         StoreSlot(s, Key(RuleName(r, i), 0), Value(s.fields, r.header))
    [] r.action = "log"    -> [s EXCEPT !.logs = Append(@, Reason(s, r))]
    [] r.action = "reject" -> [s EXCEPT !.verdict = <<Reason(s, r)>>]
    [] OTHER               -> s

-----------------------------------------------------------------------------
(* Element rules *)

Supported(e) == e.type \in UriElements \cup {"whole"}
ElementName(r, e) == IF e.name = "" THEN r.name \o ".el" ELSE e.name
ElementText(s, r, e) == UriGet(Value(s.fields, r.header), e.type)

Rewrite(s, r, e, t) ==
  [s EXCEPT !.fields = Put(s.fields, r.header, RebuildUri(Value(s.fields, r.header), e.type, t))]

ElementAct(s, r, e) ==
  CASE e.action = "replace" -> Rewrite(s, r, e, Eval(s, e.new))
    [] e.action = "delete" /\ e.type = "whole" -> [s EXCEPT !.fields = Without(s.fields, r.header)]
    [] e.action = "delete" /\ e.type # "whole" -> Rewrite(s, r, e, <<>>)
    [] e.action = "store"  -> StoreSlot(s, Key(ElementName(r, e), 0), ElementText(s, r, e))
    [] e.action = "reject" -> [s EXCEPT !.verdict = <<Reason(s, e)>>]
    [] OTHER               -> s

\* run_element_rules, one of them: the header is read anew, guarded, changed.
RunElement(s, r, e) ==
  IF ~Supported(e) THEN s
  ELSE IF Passes(s, e.cmp, e.kind, e.match, ElementText(s, r, e))
       THEN ElementAct(AfterGuard(s, e.cmp, e.match, ElementText(s, r, e)), r, e)
       ELSE AfterGuard(s, e.cmp, e.match, ElementText(s, r, e))

-----------------------------------------------------------------------------
(* The walk *)

\* The rest is left out once the packet is rejected.
NextElement(s, r, e) == IF s.verdict # Accepted THEN s ELSE RunElement(s, r, e)

AfterElements(s, r) ==
  LET after[j \in 0 .. Len(r.elements)] ==
        IF j = 0 THEN s ELSE NextElement(after[j - 1], r, r.elements[j])
  IN  after

RunElements(s, r) == AfterElements(s, r)[Len(r.elements)]

RunRule(s, r, i) ==
  IF ~Concerns(s, r) THEN s
  ELSE IF Passes(s, r.cmp, "any", r.match, Value(s.fields, r.header))
       THEN RunElements(HeaderAct(AfterGuard(s, r.cmp, r.match, Value(s.fields, r.header)), r, i), r)
       ELSE AfterGuard(s, r.cmp, r.match, Value(s.fields, r.header))

NextRule(s, r, i) == IF s.verdict # Accepted THEN s ELSE RunRule(s, r, i)

AfterRules(s, rules) ==
  LET after[i \in 0 .. Len(rules)] ==
        IF i = 0 THEN s ELSE NextRule(after[i - 1], rules[i], i)
  IN  after

Walk(s, rules) == AfterRules(s, rules)[Len(rules)]

-----------------------------------------------------------------------------
(* The scan: the same walk, without guards, that registers keys and patterns *)

SlotKeys(v) ==
  FlattenSeq([i \in DOMAIN v |-> IF v[i].kind = "slot" THEN <<Key(v[i].path[1], v[i].index)>> ELSE <<>>])

GroupKeys(r, i) == [g \in 1..Groups(r.match.text) + 1 |-> Key(RuleName(r, i), g - 1)]

HeaderKeys(r, i) ==
  CASE r.action \in {"add", "log", "reject"} \/ SetsHeader(r) -> SlotKeys(r.new)
    [] r.action = "store" -> IF r.cmp = "pattern" THEN GroupKeys(r, i) ELSE <<Key(RuleName(r, i), 0)>>
    [] OTHER -> <<>>

ElementKeys(r, e) ==
  CASE e.action \in {"replace", "reject"} -> SlotKeys(e.new)
    [] e.action = "store" -> <<Key(ElementName(r, e), 0)>>
    [] OTHER -> <<>>

Pattern(cmp, m) == IF cmp = "pattern" /\ ~Unconditional(m) THEN <<m.text>> ELSE <<>>

\* Mutant: the scan ends where the walk could.
ScannedElements_StopAtReject(r) ==
  LET scanned == SelectSeq(r.elements, Supported)
      reject  == SelectInSeq(scanned, LAMBDA e : e.action = "reject")
  IN  CASE r.action = "reject" -> <<>>
        [] r.action # "reject" /\ reject = 0 -> scanned
        [] OTHER -> SubSeq(scanned, 1, reject)

\* The element rules the scan visits: a rule that rejects never gets to its own.
ScannedElements(r) ==
  IF r.action = "reject" THEN <<>>
  ELSE FlattenSeq([j \in DOMAIN r.elements |->
                     IF Supported(r.elements[j]) THEN <<r.elements[j]>> ELSE <<>>])

RuleKeys(r, i) ==
  HeaderKeys(r, i) \o FlattenSeq([j \in DOMAIN ScannedElements(r) |->
                                    ElementKeys(r, ScannedElements(r)[j])])

RulePatterns(r) ==
  Pattern(r.cmp, r.match) \o FlattenSeq([j \in DOMAIN ScannedElements(r) |->
                               Pattern(ScannedElements(r)[j].cmp, ScannedElements(r)[j].match)])

\* add_regex, slot_for: each entry once, in the order it is first met.
Distinct(entries) ==
  FlattenSeq([i \in DOMAIN entries |-> IF \E j \in 1 .. i - 1 : entries[j] = entries[i]
                                       THEN <<>> ELSE <<entries[i]>>])

Scan(rules) ==
  [keys     |-> Distinct(FlattenSeq([i \in DOMAIN rules |-> RuleKeys(rules[i], i)])),
   patterns |-> Distinct(FlattenSeq([i \in DOMAIN rules |-> RulePatterns(rules[i])]))]

-----------------------------------------------------------------------------
(* The life of a context *)

\* Mutant: the two counts of the module descriptor are swapped.
Prepared_Swapped(tables) ==
  [keys |-> tables.keys, patterns |-> tables.patterns,
   slots |-> [n \in DOMAIN tables.patterns |-> <<>>], captures |-> <<>>, logs |-> <<>>,
   verdict |-> Accepted]

\* HmrContext::prepare, for the tables of a module.
Prepared(tables) ==
  [keys |-> tables.keys, patterns |-> tables.patterns,
   slots |-> [n \in DOMAIN tables.keys |-> <<>>], captures |-> <<>>, logs |-> <<>>,
   verdict |-> Accepted]

\* A message that is filtered in a context: the two arguments of hmr_apply.
InContext(message, context) ==
  [part \in DOMAIN message \cup DOMAIN context |->
     IF part \in DOMAIN message THEN message[part] ELSE context[part]]

\* Mutant: the captures of the last packet stay readable.
Reset_KeepsCaptures(context) == [context EXCEPT !.logs = <<>>, !.verdict = Accepted]

\* reset_for_apply: everything but the slots.
Reset(context) == [context EXCEPT !.captures = <<>>, !.logs = <<>>, !.verdict = Accepted]
=============================================================================
