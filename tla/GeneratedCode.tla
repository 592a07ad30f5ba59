--------------------------- MODULE GeneratedCode ---------------------------
(***************************************************************************)
(* The module the generators make of a ruleset, and its execution.  The    *)
(* IR generator (src/src/codegen/ir_generator.cpp) and the C++ generator   *)
(* (cpp_generator.cpp) emit the same calls of the C ABI in the same order; *)
(* one call, or one conditional branch, is one instruction.  A branch past *)
(* an element rule or a header rule carries the distance to its end, as    *)
(* the basic blocks el.cont and rule.cont, or the lambdas of the C++       *)
(* text, delimit them.                                                     *)
(***************************************************************************)
EXTENDS Rules

CONSTANTS Rulesets, Packets, MaxPackets   \* as in Interpreter

VARIABLES
  rules,      \* the ruleset compiled
  module,     \* its code, its slot table and its regex table
  packet,     \* the packet last received
  state,      \* the message and the context
  entry,      \* history: the state when hmr_apply was entered
  regs,       \* the values calls returned: header, element, new value
  pc,         \* the next instruction, past the end to return; 0 outside hmr_apply
  received    \* packets received

vars == <<rules, module, packet, state, entry, regs, pc, received>>

-----------------------------------------------------------------------------
(* Emission *)

Call(op, arg)         == [op |-> op, arg |-> arg, skip |-> "none", by |-> 1]
Branch(op, arg, skip) == [op |-> op, arg |-> arg, skip |-> skip, by |-> 1]

\* Mutant: the distance is one short, so that the branch ends in the block.
Link_Short(block, skip) ==
  [i \in DOMAIN block |->
     IF block[i].skip = skip THEN [block[i] EXCEPT !.by = Len(block) - i] ELSE block[i]]

\* Mutant: the distance is one too long, and may leave the code.
Link_Long(block, skip) ==
  [i \in DOMAIN block |->
     IF block[i].skip = skip THEN [block[i] EXCEPT !.by = Len(block) - i + 2] ELSE block[i]]

\* The branches of a block that skip the rest of it learn how far it is.
Link(block, skip) ==
  [i \in DOMAIN block |->
     IF block[i].skip = skip THEN [block[i] EXCEPT !.by = Len(block) - i + 1] ELSE block[i]]

If(condition, block) == IF condition THEN block ELSE <<>>

EmitMatchGuard(cmp, kind, m, reg, skip) ==
  If(~Unconditional(m),
     <<Branch("match", [cmp |-> cmp, kind |-> kind, match |-> m, reg |-> reg, regex |-> 0], skip)>>)

EmitReason(r) ==
  Call("value", IF r.new # <<>> \/ r.name = "" THEN r.new ELSE <<[kind |-> "text", text |-> <<r.name>>]>>)

EmitHeaderAction(r, i) ==
  CASE r.action = "add"    -> <<Call("value", r.new), Call("add", r.header)>>
    [] SetsHeader(r)       -> <<Call("value", r.new), Call("set", r.header)>>
    [] r.action = "delete" -> <<Call("delete", r.header)>>
    [] r.action = "store"  ->
         IF r.cmp = "pattern"
         THEN FlattenSeq([g \in 1..Groups(r.match.text) + 1 |->
                            <<Call("capture", g - 1),
                              Call("store", [key |-> Key(RuleName(r, i), g - 1), reg |-> "value"])>>])
         ELSE <<Call("store", [key |-> Key(RuleName(r, i), 0), reg |-> "header"])>>
    [] r.action = "log"    -> <<EmitReason(r), Call("log", <<>>)>>
    [] r.action = "reject" -> <<EmitReason(r), Call("reject", <<>>)>>
    [] OTHER               -> <<>>

EmitElementAction(r, e) ==
  CASE e.action = "replace" ->
         <<Call("value", e.new), Call("uri_set", e.type), Call("set", r.header)>>
    [] e.action = "delete" /\ e.type = "whole" -> <<Call("delete", r.header)>>
    [] e.action = "delete" /\ e.type # "whole" ->
         <<Call("value", <<>>), Call("uri_set", e.type), Call("set", r.header)>>
    [] e.action = "store"  ->
         <<Call("store", [key |-> Key(ElementName(r, e), 0), reg |-> "element"])>>
    [] e.action = "reject" -> <<EmitReason(e), Call("reject", <<>>)>>
    [] OTHER               -> <<>>

\* Mutant: a failed element guard skips the rest of the header rule.
EmitElement_SkipsRule(r, e) ==
  If(Supported(e),
     <<Call("get", r.header), Call("uri_get", e.type)>>
     \o EmitMatchGuard(e.cmp, e.kind, e.match, "element", "rule") \o EmitElementAction(r, e))

\* Mutant: the header is not read anew.
EmitElement_NoReread(r, e) ==
  If(Supported(e),
     Link(If(e = r.elements[1], <<Call("get", r.header)>>) \o <<Call("uri_get", e.type)>>
          \o EmitMatchGuard(e.cmp, e.kind, e.match, "element", "element")
          \o EmitElementAction(r, e), "element"))

\* For a whole value the element is the header, which uri_get then returns.
EmitElement(r, e) ==
  If(Supported(e),
     Link(<<Call("get", r.header), Call("uri_get", e.type)>>
          \o EmitMatchGuard(e.cmp, e.kind, e.match, "element", "element")
          \o EmitElementAction(r, e), "element"))

\* Nothing is emitted after the branch to the reject block.
EmitHeaderRule(r, i) ==
  Link(If(r.msg # "any", <<Branch("is_request", r.msg = "request", "rule")>>)
       \o If(r.methods # <<>>, <<Branch("method", r.methods, "rule")>>)
       \o If(r.match # NoMatch \/ r.action = "store", <<Call("get", r.header)>>)
       \o EmitMatchGuard(r.cmp, "any", r.match, "header", "rule")
       \o EmitHeaderAction(r, i)
       \o If(r.action # "reject", FlattenSeq([j \in DOMAIN r.elements |->
                                                EmitElement(r, r.elements[j])])), "rule")

-----------------------------------------------------------------------------
(* The tables: keys and patterns are numbered as emission meets them *)

KeysOf(instr) ==
  CASE instr.op = "store" -> <<instr.arg.key>>
    [] instr.op = "value" -> SlotKeys(instr.arg)
    [] OTHER -> <<>>

PatternsOf(instr) == IF instr.op = "match" THEN Pattern(instr.arg.cmp, instr.arg.match) ELSE <<>>

\* Immediate operands in place of keys and patterns.
NumberedValue(v, keys) ==
  [i \in DOMAIN v |-> IF v[i].kind = "slot"
                      THEN [kind |-> "number", number |-> Number(keys, Key(v[i].path[1], v[i].index))]
                      ELSE v[i]]

Numbered(instr, keys, patterns) ==
  CASE instr.op = "store" ->
         [instr EXCEPT !.arg = [slot |-> Number(keys, @.key), reg |-> @.reg]]
    [] instr.op = "value" -> [instr EXCEPT !.arg = NumberedValue(@, keys)]
    [] instr.op = "match" -> [instr EXCEPT !.arg.regex = Number(patterns, instr.arg.match.text)]
    [] OTHER -> instr

Assemble(code, keys, patterns) ==
  [code |-> [i \in DOMAIN code |-> Numbered(code[i], keys, patterns)],
   keys |-> keys, patterns |-> patterns]

\* emit and build_module_info.
Linked(code) ==
  Assemble(code, Distinct(FlattenSeq([i \in DOMAIN code |-> KeysOf(code[i])])),
           Distinct(FlattenSeq([i \in DOMAIN code |-> PatternsOf(code[i])])))

Generate(rs) == Linked(FlattenSeq([i \in DOMAIN rs |-> EmitHeaderRule(rs[i], i)]))

\* Rulesets are as the AST has them, a pattern has a number of groups, and a
\* packet says nothing of the context.
ASSUME GeneratedCodeAssumption ==
  /\ MaxPackets \in Nat \ {0}
  /\ \A rs \in Rulesets :
       /\ IsRuleset(rs)
       /\ \A r \in ToSet(rs) :
            /\ r.msg \in {"any", "request", "reply"} /\ Groups(r.match.text) \in Nat /\ IsValue(r.new)
            /\ r.elements \in Seq(ToSet(r.elements)) /\ \A e \in ToSet(r.elements) : IsValue(e.new)
  /\ \A p \in Packets : DOMAIN p = {"request", "method", "fields"} /\ p.request \in BOOLEAN

-----------------------------------------------------------------------------
(* Execution *)

NoRegs == [header |-> <<>>, element |-> <<>>, value |-> <<>>]

Init ==
  /\ rules \in Rulesets /\ packet \in Packets
  /\ module = Generate(rules)
  /\ state = InContext(packet, Prepared(module))
  /\ entry = state
  /\ regs = NoRegs
  /\ pc = 1
  /\ received = 1

\* The host parses the next packet, resets the context and calls hmr_apply.
Receive(p) ==
  /\ pc = 0 /\ received < MaxPackets
  /\ packet' = p
  /\ state' = InContext(p, Reset(state))
  /\ entry' = state'
  /\ regs' = NoRegs
  /\ pc' = 1
  /\ received' = received + 1
  /\ UNCHANGED <<rules, module>>

End == Len(module.code) + 1

Return ==
  /\ pc = End /\ pc' = 0
  /\ UNCHANGED <<rules, module, packet, state, entry, regs, received>>

\* The instruction at pc is an op; its operand; what no instruction changes.
At(op)  == pc \in 1..Len(module.code) /\ module.code[pc].op = op
Operand == module.code[pc].arg
Fixed   == UNCHANGED <<rules, module, packet, entry, received>>

\* A call into the runtime, and the next instruction.
Runs(op, newState, newRegs) ==
  At(op) /\ state' = newState /\ regs' = newRegs /\ pc' = pc + 1 /\ Fixed

\* A conditional branch, on what a call answers.
Branches(op, holds, newState) ==
  /\ At(op) /\ state' = newState /\ UNCHANGED regs
  /\ pc' = IF holds THEN pc + 1 ELSE pc + module.code[pc].by
  /\ Fixed

ValueText(s, v) ==
  FlattenSeq([i \in DOMAIN v |-> IF v[i].kind = "number" THEN s.slots[v[i].number]
                                 ELSE SegmentText(s, v[i])])

IsRequest == At("is_request") /\ Branches("is_request", state.request = Operand, state)

Method ==
  At("method")
  /\ Branches("method", \E i \in DOMAIN Operand : Fold(Operand[i]) = Fold(state.method), state)

Match ==
  /\ At("match") /\ Operand.cmp # "pattern"
  /\ Branches("match", Matched(state, Operand.cmp, Operand.kind, Operand.match, regs[Operand.reg])
                       # Operand.match.negated, state)

RegexMatch ==
  /\ At("match") /\ Operand.cmp = "pattern"
  /\ LET found == Captures(module.patterns[Operand.regex], regs[Operand.reg])
     IN  Branches("match", (found # <<>>) # Operand.match.negated, [state EXCEPT !.captures = found])

GetHeader ==
  At("get") /\ Runs("get", state, [regs EXCEPT !.header = Value(state.fields, Operand)])
UriElement ==
  At("uri_get") /\ Runs("uri_get", state, [regs EXCEPT !.element = UriGet(regs.header, Operand)])
BuildValue ==
  At("value") /\ Runs("value", state, [regs EXCEPT !.value = ValueText(state, Operand)])
GetCapture ==
  At("capture") /\ Runs("capture", state, [regs EXCEPT !.value = Capture(state, Operand)])
UriSet ==
  At("uri_set")
  /\ Runs("uri_set", state, [regs EXCEPT !.value = RebuildUri(regs.header, Operand, regs.value)])

SetHeader ==
  At("set") /\ Runs("set", [state EXCEPT !.fields = Put(@, Operand, regs.value)], regs)
AddHeader ==
  At("add") /\ Runs("add", [state EXCEPT !.fields = Added(@, Operand, regs.value)], regs)
DeleteHeader ==
  At("delete") /\ Runs("delete", [state EXCEPT !.fields = Without(@, Operand)], regs)
Store ==
  At("store") /\ Runs("store", [state EXCEPT !.slots[Operand.slot] = regs[Operand.reg]], regs)
Log ==
  At("log") /\ Runs("log", [state EXCEPT !.logs = Append(@, regs.value)], regs)

\* Mutant: the reject falls through to the next rule.
Reject_FallsThrough ==
  At("reject") /\ Runs("reject", [state EXCEPT !.verdict = <<regs.value>>], regs)

\* The branch to the reject block, which returns.
Reject ==
  /\ At("reject")
  /\ state' = [state EXCEPT !.verdict = <<regs.value>>]
  /\ pc' = End
  /\ UNCHANGED regs /\ Fixed

Execute ==
  \/ IsRequest \/ Method \/ Match \/ RegexMatch
  \/ GetHeader \/ UriElement \/ BuildValue \/ GetCapture \/ UriSet
  \/ SetHeader \/ AddHeader \/ DeleteHeader \/ Store \/ Log \/ Reject
  \/ Return

Next == Execute \/ \E p \in Packets : Receive(p)

\* A thread inside hmr_apply runs on.
Spec == Init /\ [][Next]_vars /\ WF_vars(Execute)

-----------------------------------------------------------------------------
(* Properties *)

TypeOK ==
  /\ packet \in Packets /\ received \in 1..MaxPackets
  /\ pc \in 0..End
  /\ DOMAIN state.slots = DOMAIN module.keys

\* "a random ruleset applied by the interpreter and by the compiled .so must
\* produce byte-identical output" (interpreter.hpp:15-16), and the same slot and
\* regex numbers (test_interp.cpp:266-270): apply is the interpreter's walk.
Oracle == INSTANCE Interpreter
  WITH pending <- pc # 0, state <- IF pc = 0 THEN state ELSE entry

ImplementsInterpreter == Oracle!Spec

\* "reset_for_apply() clears per-packet state" (runtime-api.md:163-164): where
\* every slot is stored before it is loaded, what becomes of a packet does not
\* depend on the packets before it, although the slots are never cleared.
IsolatedIfStoredFirst == Oracle!IsolatedIfStoredFirst

\* "unreachable: the scan registered every slot" (interpreter.cpp:84, 92): with
\* a slot and an expression for everything that occurs in the rules, in another
\* order, a packet's outcome is the same.
TablesAreComplete == Oracle!TablesAreComplete

\* "Re-read the header each time: a previous element rule may have mutated it,
\* so its old view would be stale" (ir_generator.cpp:428-429): the header value
\* that a rewrite starts from is the header's.
NeverRewritesStale ==
  \A n \in 1..Len(module.code) - 1 :
    pc = n /\ module.code[n].op = "uri_set" =>
      regs.header = Value(state.fields, module.code[n + 1].arg)

\* "branch to the reject exit" (compatibility-matrix.md:42): once a packet is
\* rejected nothing of it or of the context changes until the next one.
RejectIsFinal == [][state.verdict # Accepted /\ pc # 0 => UNCHANGED state]_vars

\* hmr_apply returns: every branch goes forward.
EveryApplyReturns == [](pc # 0 => <>(pc = 0))
=============================================================================
