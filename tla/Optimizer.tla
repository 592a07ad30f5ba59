----------------------------- MODULE Optimizer -----------------------------
(***************************************************************************)
(* The optimizer of rulesets (src/src/optimizer/optimizer.cpp): rounds of  *)
(* four passes until a round changes nothing or MaxRounds are over, then   *)
(* the grouping of rules by header.  Rules are as in Rules.tla; headers    *)
(* are compared by Fold, as SameName does.                                 *)
(***************************************************************************)
EXTENDS Rules

CONSTANTS
  Sources,      \* rulesets as parsed
  Packets,      \* messages to try a ruleset on
  Meta,         \* regex metacharacters
  MaxRounds     \* max_iterations_

ElementFields == {"name", "type", "action", "cmp", "kind", "match", "new", "raw", "param"}

IsMatch(m) ==
  /\ DOMAIN m = DOMAIN NoMatch
  /\ m.text \in Seq(ToSet(m.text)) /\ {m.negated, m.ref} \subseteq BOOLEAN

IsRecord(r) == r = [f \in DOMAIN r |-> r[f]]

\* A rule as parsed, whose header, if it has one, is a name.
IsParsed(r) ==
  /\ IsRecord(r) /\ DOMAIN r = RuleFields /\ r.msg \in {"any", "request", "reply"}
  /\ IsMatch(r.match) /\ IsValue(r.new)
  /\ r.elements \in Seq(ToSet(r.elements))
  /\ \A e \in ToSet(r.elements) : DOMAIN e = ElementFields /\ IsMatch(e.match) /\ IsValue(e.new)
  /\ SameName(r.header, r.header) /\ (SameName(r.header, <<>>) => r.header = <<>>)

IsMessage(p) ==
  /\ DOMAIN p = {"request", "method", "fields"} /\ p.fields \in Seq(ToSet(p.fields))
  /\ \A f \in ToSet(p.fields) : DOMAIN f = {"name", "value"} /\ ~SameName(f.name, <<>>)

ASSUME OptimizerAssumption ==
  /\ MaxRounds \in Nat \ {0} /\ {"^", "$"} \subseteq Meta
  /\ \A rs \in Sources : IsRuleset(rs) /\ \A r \in ToSet(rs) : IsParsed(r)
  /\ \A p \in Packets : IsMessage(p)

VARIABLES
  source,       \* history: the ruleset before optimization
  rules,        \* the ruleset, in place
  pass,         \* the pass that is next, or "done"
  round,        \* the round under way (iter, from 1)
  changed,      \* a pass of this round has counted a change
  plan          \* the decision plan: groups of rule indices by header

vars == <<source, rules, pass, round, changed, plan>>

Chain == <<"deduplication", "dead-code-elimination", "pattern-simplification", "rule-merging">>

-----------------------------------------------------------------------------
(* Signatures *)

\* raw(): a match-value keeps its negation sign.
Raw(m) == IF m.negated THEN <<"!">> \o m.text ELSE m.text

\* Texts joined by separators that a text may hold as well; names and
\* match-val-types are left out.
ElementSig(e) ==
  <<e.type, "|", e.action, "|", e.cmp, "|">> \o Raw(e.match) \o <<"|">> \o e.raw \o <<"|">> \o e.param

ElementSigs(es) == [j \in DOMAIN es |-> ElementSig(es[j])]

Sig(r) ==
  Fold(r.header) \o <<"#", r.action, "|", r.cmp, "|", r.msg, "|">>
  \o FlattenSeq([k \in DOMAIN r.methods |-> Append(r.methods[k], ",")]) \o <<"|">>
  \o Raw(r.match) \o <<"|">> \o r.raw \o <<"|">>
  \o FlattenSeq([j \in DOMAIN r.elements |-> Append(ElementSig(r.elements[j]), ";")])

Sigs(rs) == [i \in DOMAIN rs |-> Sig(rs[i])]

\* Mutant: every action is taken for idempotent.
IsIdempotent_Always(r) == TRUE

IsIdempotent(r) == r.action # "add"

\* What an earlier rule of the same signature makes superfluous.
Duplicates(s, sigs) ==
  {j \in DOMAIN s : IsIdempotent(s[j]) /\ \E i \in 1..j - 1 : IsIdempotent(s[i]) /\ sigs[i] = sigs[j]}

WithoutDuplicates(s, sigs) ==
  FlattenSeq([j \in DOMAIN s |-> IF j \in Duplicates(s, sigs) THEN <<>> ELSE <<s[j]>>])

-----------------------------------------------------------------------------
(* The passes *)

Deduplicated(rs) == WithoutDuplicates(rs, Sigs(rs))

NeedsHeader(r) == r.action \notin {"none", "sip-manip", "log", "reject"}

Dead(r) == r.action = "none" \/ (NeedsHeader(r) /\ r.header = <<>>)

\* Element rules that say nothing.
Idle(es) == {j \in DOMAIN es : es[j].action = "none" /\ es[j].type = "none"}

Working(es) == FlattenSeq([j \in DOMAIN es |-> IF j \in Idle(es) THEN <<>> ELSE <<es[j]>>])

Alive(rs) ==
  FlattenSeq([i \in DOMAIN rs |->
                IF Dead(rs[i]) THEN <<>> ELSE <<[rs[i] EXCEPT !.elements = Working(@)]>>])

\* A pattern without its anchors.
AfterStart(t) == IF t # <<>> /\ Head(t) = "^" THEN Tail(t) ELSE t
Unanchored(t) ==
  IF AfterStart(t) # <<>> /\ Last(AfterStart(t)) = "$" THEN Front(AfterStart(t)) ELSE AfterStart(t)

IsPlain(cmp, m) ==
  /\ cmp = "pattern" /\ ~m.ref /\ Raw(m) # <<>>
  /\ ToSet(Unanchored(Raw(m))) \cap Meta = {} /\ Unanchored(Raw(m)) # <<>>

\* A plain pattern becomes a comparison with its body.
Simplify(r) ==
  IF IsPlain(r.cmp, r.match)
  THEN [r EXCEPT !.cmp = "sensitive", !.match = [NoMatch EXCEPT !.text = Unanchored(Raw(r.match))]]
  ELSE r

Simplified(rs) ==
  [i \in DOMAIN rs |->
     [Simplify(rs[i]) EXCEPT !.elements = [j \in DOMAIN @ |-> Simplify(@[j])]]]

\* Mutant: the rules may be for different methods.
Fusable_AnyMethod(r, q) ==
  /\ r.action = "manipulate" /\ q.action = "manipulate"
  /\ Fold(r.header) = Fold(q.header)
  /\ r.cmp = q.cmp /\ r.msg = q.msg /\ Raw(r.match) = Raw(q.match)

Fusable(r, q) ==
  /\ r.action = "manipulate" /\ q.action = "manipulate"
  /\ Fold(r.header) = Fold(q.header)
  /\ r.cmp = q.cmp /\ r.msg = q.msg /\ r.methods = q.methods /\ Raw(r.match) = Raw(q.match)

\* A rule joins the last one, or follows it.
Fuse(fused, r) ==
  IF fused # <<>> /\ Fusable(Last(fused), r)
  THEN Front(fused) \o <<[Last(fused) EXCEPT !.elements = @ \o r.elements]>>
  ELSE Append(fused, r)

Fused(rs) ==
  LET fused[i \in 0 .. Len(rs)] == IF i = 0 THEN <<>> ELSE Fuse(fused[i - 1], rs[i])
  IN  fused[Len(rs)]

Merged(rs) ==
  Fused([i \in DOMAIN rs |-> [rs[i] EXCEPT !.elements = WithoutDuplicates(@, ElementSigs(@))]])

After(p, rs) ==
  CASE p = "deduplication"          -> Deduplicated(rs)
    [] p = "dead-code-elimination"  -> Alive(rs)
    [] p = "pattern-simplification" -> Simplified(rs)
    [] p = "rule-merging"           -> Merged(rs)

\* Mutant: element rules that are dropped do not count.
Reports_Rules(p, rs) ==
  CASE p = "deduplication"          -> Duplicates(rs, Sigs(rs)) # {}
    [] p = "dead-code-elimination"  -> \E i \in DOMAIN rs : Dead(rs[i])
    [] p = "pattern-simplification" ->
         \E i \in DOMAIN rs : \E x \in {rs[i]} \cup ToSet(rs[i].elements) : IsPlain(x.cmp, x.match)
    [] p = "rule-merging"           -> Len(Merged(rs)) < Len(rs)

\* A pass counts what it drops, simplifies and fuses; here, whether it counts any.
Reports(p, rs) ==
  CASE p = "deduplication"          -> Duplicates(rs, Sigs(rs)) # {}
    [] p = "dead-code-elimination"  -> \E i \in DOMAIN rs : Dead(rs[i]) \/ Idle(rs[i].elements) # {}
    [] p = "pattern-simplification" ->
         \E i \in DOMAIN rs : \E x \in {rs[i]} \cup ToSet(rs[i].elements) : IsPlain(x.cmp, x.match)
    [] p = "rule-merging"           ->
         \/ \E i \in DOMAIN rs : Duplicates(rs[i].elements, ElementSigs(rs[i].elements)) # {}
         \/ Len(Merged(rs)) < Len(rs)

-----------------------------------------------------------------------------
(* The driver *)

Init ==
  /\ source \in Sources
  /\ rules = source
  /\ pass = Head(Chain)
  /\ round = 1
  /\ changed = FALSE
  /\ plan = <<>>

\* Mutant: only the last pass of a round counts.
Run_ForgetsChanges(p, next) ==
  /\ pass = p /\ pass' = next
  /\ rules' = After(p, rules)
  /\ changed' = Reports(p, rules)
  /\ UNCHANGED <<source, round, plan>>

\* A pass and the one after it; what it counts, it counts for the round.
Run(p, next) ==
  /\ pass = p /\ pass' = next
  /\ rules' = After(p, rules)
  /\ changed' = (changed \/ Reports(p, rules))
  /\ UNCHANGED <<source, round, plan>>

Deduplicate       == Run("deduplication", "dead-code-elimination")
EliminateDeadCode == Run("dead-code-elimination", "pattern-simplification")
SimplifyPatterns  == Run("pattern-simplification", "rule-merging")
MergeRules        == Run("rule-merging", "end of round")

\* Mutant: the bound on the rounds is not enforced.
EndRound_Unbounded ==
  /\ pass = "end of round"
  /\ IF changed
     THEN pass' = Head(Chain) /\ round' = round + 1 /\ changed' = FALSE
     ELSE pass' = "decision-tree" /\ UNCHANGED <<round, changed>>
  /\ UNCHANGED <<source, rules, plan>>

\* Another round, unless this one changed nothing or was the last.
EndRound ==
  /\ pass = "end of round"
  /\ IF changed /\ round < MaxRounds
     THEN pass' = Head(Chain) /\ round' = round + 1 /\ changed' = FALSE
     ELSE pass' = "decision-tree" /\ UNCHANGED <<round, changed>>
  /\ UNCHANGED <<source, rules, plan>>

\* Mutant: only the last group is looked at.
Join_Last(groups, i, header) ==
  IF groups = <<>> \/ Last(groups).header # header
  THEN Append(groups, [header |-> header, indices |-> <<i>>])
  ELSE [groups EXCEPT ![Len(groups)].indices = Append(@, i)]

\* Rule i joins the first group of its header, or opens one.
Join(groups, i, header) ==
  LET found == {g \in DOMAIN groups : groups[g].header = header}
  IN  IF found = {}
      THEN Append(groups, [header |-> header, indices |-> <<i>>])
      ELSE [groups EXCEPT ![Min(found)].indices = Append(@, i)]

Grouped(rs) ==
  LET groups[i \in 0 .. Len(rs)] ==
        IF i = 0 THEN <<>> ELSE Join(groups[i - 1], i, Fold(rs[i].header))
  IN  groups[Len(rs)]

\* DecisionTreeAnalysisPass, on the rules the rounds have left.
GroupByHeader ==
  /\ pass = "decision-tree" /\ pass' = "done"
  /\ plan' = Grouped(rules)
  /\ UNCHANGED <<source, rules, round, changed>>

Next == Deduplicate \/ EliminateDeadCode \/ SimplifyPatterns \/ MergeRules \/ EndRound \/ GroupByHeader

Spec == Init /\ [][Next]_vars

-----------------------------------------------------------------------------
(* Properties *)

TypeOK ==
  /\ source \in Sources
  /\ pass \in ToSet(Chain) \cup {"end of round", "decision-tree", "done"}
  /\ round \in 1..MaxRounds /\ changed \in BOOLEAN
  /\ Len(rules) <= Len(source)

\* "Run the transform passes to a fixpoint (or max_iterations)" (optimizer.hpp:
\* 94): a ruleset on which the rounds ended early is one no pass changes.  No
\* pass counts less than it does, and no pass undoes what one before it left.
EndsAtFixpoint ==
  pass = "done" /\ (round < MaxRounds \/ ~changed) =>
    \A p \in ToSet(Chain) : After(p, rules) = rules

\* "Two identical `add` rules legitimately insert two headers" (optimizer.cpp:
\* 22-23): the headers added and their order survive all passes.
Adds(rs) ==
  FlattenSeq([i \in DOMAIN rs |-> IF rs[i].action = "add" /\ rs[i].header # <<>>
                                  THEN <<<<rs[i].header, rs[i].new>>>> ELSE <<>>])

AddsAreKept == Adds(rules) = Adds(source)

\* "One per distinct target header" (optimizer.hpp:61): however the headers
\* alternate and whatever their spellings, two groups have different headers,
\* each rule is in the group of its own, and the rules of a group are in order.
PlanFitsRules ==
  pass = "done" =>
    /\ \A g, h \in DOMAIN plan : plan[g].header = plan[h].header => g = h
    /\ \A i \in DOMAIN rules : \E g \in DOMAIN plan : i \in ToSet(plan[g].indices)
    /\ \A g \in DOMAIN plan :
         /\ \A i \in ToSet(plan[g].indices) :
              i \in DOMAIN rules /\ Fold(rules[i].header) = plan[g].header
         /\ \A j, k \in DOMAIN plan[g].indices :
              j < k => plan[g].indices[j] < plan[g].indices[k]

\* What a ruleset makes of the packets, each in a context of its own.
Meaning(rs) ==
  [p \in Packets |->
     LET s == Walk(InContext(p, Prepared(Scan(rs))), rs) IN <<s.fields, s.logs, s.verdict>>]

\* "A random ruleset applied by the interpreter and by the compiled .so must
\* produce byte-identical output" (interpreter.hpp:15-16), the latter being
\* compiled from the optimized rules (compiler.hpp:33).
OptimizedMeansTheSame == pass = "done" => Meaning(rules) = Meaning(source)

\* Conditions under which each pass does keep the meaning.  No value, and no
\* store, reads the captures of a rule before it.
ReadsCapture(v) == \E k \in DOMAIN v : v[k].kind = "capture"
CapturesUnread(rs) ==
  \A i \in DOMAIN rs :
    /\ ~ReadsCapture(rs[i].new)
    /\ \A j \in DOMAIN rs[i].elements : ~ReadsCapture(rs[i].elements[j].new)
    /\ rs[i].action = "store" /\ rs[i].cmp = "pattern" => ~Unconditional(rs[i].match)

\* A store without a name is known by the place of its rule, which may change.
StoresAreNamed(rs) == \A i \in DOMAIN rs : rs[i].action = "store" => rs[i].name # ""

\* A copy, in all that it says, of the one just before, that leaves the captures.
\* Rules whose signatures are equal by accident are no copies.
Repeats(s, j) == j > 1 /\ s[j] = s[j - 1] /\ s[j].cmp # "pattern"

\* Duplicates repeat the rule before them and are not logs.
DeduplicationIsSafe(rs) ==
  \A j \in Duplicates(rs, Sigs(rs)) :
    Repeats(rs, j) /\ rs[j].action # "log" /\ rs[j].elements = <<>> /\ StoresAreNamed(rs)

\* A dropped rule has no element rules, which would run, and searches nothing;
\* no header is written without a name, which a dropped delete would undo; and
\* dropped element rules do not leave a rule without any to act itself.
EliminationIsSafe(rs) ==
  \A i \in DOMAIN rs :
    /\ Dead(rs[i]) => /\ rs[i].action \in {"none", "delete"} /\ rs[i].elements = <<>>
                      /\ rs[i].cmp # "pattern" \/ CapturesUnread(rs)
                      /\ StoresAreNamed(rs)
                      /\ \A k \in DOMAIN rs : rs[k].header = <<>> => rs[k].elements = <<>>
    /\ rs[i].new # <<>> /\ Working(rs[i].elements) = <<>> => rs[i].elements = <<>>

\* A simplified pattern matches whole values: it has both anchors, so no
\* negation sign before them.
IsWhole(r) == IsPlain(r.cmp, r.match) => Head(Raw(r.match)) = "^" /\ Last(Raw(r.match)) = "$"

\* The engine's part in that (std::regex_search, external): such a pattern has
\* no group and finds the whole text or nothing.
SearchesAsWritten(t, x) ==
  /\ Groups(t) \in Nat
  /\ IsPlain("pattern", [NoMatch EXCEPT !.text = t]) /\ Head(t) = "^" /\ Last(t) = "$" =>
       Groups(t) = 0 /\ Captures(t, x) = IF x = Unanchored(t) THEN <<x>> ELSE <<>>

SimplificationIsSafe(rs) ==
  /\ CapturesUnread(rs) \/ Simplified(rs) = rs
  /\ \A i \in DOMAIN rs : IsWhole(rs[i]) /\ \A j \in DOMAIN rs[i].elements :
                            IsWhole(rs[i].elements[j]) /\ rs[i].elements[j].kind = "any"

\* The second of two copies of an element rule writes what is there: of a part
\* this is not so, since what is written may be parsed otherwise.
ElementsMayMerge(es) ==
  \A j \in Duplicates(es, ElementSigs(es)) :
    Repeats(es, j) /\ (es[j].action \in {"replace", "delete"} => es[j].type = "whole")

\* A fused rule's guard is not evaluated again after the first one's elements
\* have changed the header, its own new-value is not used, and what it stores
\* does not go by its name.
RulesMayFuse(r, q) ==
  /\ r.header = q.header
  /\ \A x \in {r, q} : Unconditional(x.match) /\ (x.new = <<>> \/ x.elements # <<>>)
  /\ \A e \in ToSet(q.elements) : e.action = "store" => e.name # ""

MergingIsSafe(rs) ==
  /\ \A i \in DOMAIN rs : ElementsMayMerge(rs[i].elements)
  /\ \A i \in 1..Len(rs) - 1 :
       Fusable(rs[i], rs[i + 1]) => RulesMayFuse(rs[i], rs[i + 1]) /\ StoresAreNamed(rs)

IsSafe(p, rs) ==
  CASE p = "deduplication"          -> DeduplicationIsSafe(rs)
    [] p = "dead-code-elimination"  -> EliminationIsSafe(rs)
    [] p = "pattern-simplification" -> SimplificationIsSafe(rs)
    [] p = "rule-merging"           -> MergingIsSafe(rs)
    [] OTHER                        -> TRUE

SafePassesKeepMeaning == [][IsSafe(pass, rules) => Meaning(rules') = Meaning(rules)]_vars
=============================================================================
