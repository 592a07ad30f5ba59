---------------------------- MODULE Interpreter ----------------------------
(***************************************************************************)
(* A worker that applies one ruleset to the packets it receives, one after *)
(* the other, in one context (Interpreter::apply, and the host's loop of   *)
(* runtime-api.md:156-159): hmr_apply as a single step.  GeneratedCode is  *)
(* shown to implement it.                                                  *)
(***************************************************************************)
EXTENDS Rules

CONSTANTS
  Rulesets,    \* the rulesets a worker may be given
  Packets,     \* messages as parsed: request, method, fields
  MaxPackets   \* bound: packets a worker receives

VARIABLES
  rules,       \* the ruleset of the module
  packet,      \* the packet last received
  state,       \* the message and the context
  pending,     \* the packet is yet to be filtered
  received     \* packets received

vars == <<rules, packet, state, pending, received>>

Init ==
  /\ rules \in Rulesets
  /\ packet \in Packets
  /\ state = InContext(packet, Prepared(Scan(rules)))
  /\ pending = TRUE
  /\ received = 1

\* The host parses the next packet and resets the context.
Receive(p) ==
  /\ ~pending /\ received < MaxPackets
  /\ pending' = TRUE
  /\ packet' = p
  /\ state' = InContext(p, Reset(state))
  /\ received' = received + 1
  /\ UNCHANGED rules

Apply ==
  /\ pending /\ pending' = FALSE
  /\ state' = Walk(state, rules)
  /\ UNCHANGED <<rules, packet, received>>

Next == Apply \/ \E p \in Packets : Receive(p)

Spec == Init /\ [][Next]_vars

-----------------------------------------------------------------------------
(* Properties *)

Outcome(s) == <<s.fields, s.logs, s.verdict>>

\* The outcome in a context of its own, under the given tables.
Alone(tables) == Outcome(Walk(InContext(packet, Prepared(tables)), rules))

\* "reset_for_apply() clears per-packet state" (runtime-api.md:163-164): what
\* becomes of a packet does not depend on the packets before it.
PacketsAreIsolated == ~pending => Outcome(state) = Alone(Scan(rules))

\* Every slot that a rule loads is stored by an earlier rule that no guard skips.
Loads(r)  == ToSet(SlotKeys(r.new)) \cup UNION {ToSet(SlotKeys(e.new)) : e \in ToSet(r.elements)}
Stores(r, i) == IF r.action = "store" /\ r.msg = "any" /\ r.methods = <<>> /\ Unconditional(r.match)
                THEN ToSet(HeaderKeys(r, i)) ELSE {}
StoredFirst ==
  \A i \in DOMAIN rules : Loads(rules[i]) \subseteq UNION {Stores(rules[j], j) : j \in 1..i - 1}

\* For such rulesets packets are isolated although the slots are never cleared.
IsolatedIfStoredFirst == StoredFirst => PacketsAreIsolated

\* "unreachable: the scan registered every slot" (interpreter.cpp:84, 92): with
\* tables of every key and pattern that occurs in the rules, in another order,
\* the outcome is the same.
Occurring ==
  LET elements == FlattenSeq([i \in DOMAIN rules |-> rules[i].elements])
      keys     == [i \in DOMAIN rules |->
                     HeaderKeys(rules[i], i) \o FlattenSeq([j \in DOMAIN rules[i].elements |->
                                                ElementKeys(rules[i], rules[i].elements[j])])]
      patterns == [i \in DOMAIN rules |-> Pattern(rules[i].cmp, rules[i].match)]
                  \o [j \in DOMAIN elements |-> Pattern(elements[j].cmp, elements[j].match)]
  IN  [keys |-> Reverse(Distinct(FlattenSeq(keys))), patterns |-> Reverse(Distinct(FlattenSeq(patterns)))]

TablesAreComplete == Alone(Scan(rules)) = Alone(Occurring)
=============================================================================
