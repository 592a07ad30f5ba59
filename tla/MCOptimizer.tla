---------------------------- MODULE MCOptimizer ----------------------------
(* Model-checking instances of Optimizer. *)
EXTENDS Optimizer, MCRules

MCMeta == {"^", "$", "(.*)"}

\* Pairs that differ in what a signature or a guard should tell apart.
Bo   == Element("", "user", "replace", <<Word("bo")>>)
Host == When(Element("h", "host", "replace", <<Variable("LOCAL_IP")>>), "sensitive", Is(<<"ext">>))

MCPool ==
  { Rule("", X, "add", <<Word("y")>>),
    Rule("", X, "delete", <<>>),
    Rule("", <<>>, "delete", <<>>),
    When(Rule("", X, "replace", <<Word("z")>>), "pattern", Is(<<"^", "x", "$">>)),
    When(Rule("", X, "replace", <<Word("z")>>), "sensitive", Is(<<"x">>)),
    Rule("a", From, "store", <<>>),
    Rule("b", From, "store", <<>>),
    Rule("", X, "replace", <<Stored("b", 0)>>),
    Rule("", X, "log", <<Word("l")>>),
    Rule("", X, "replace", <<Captured(0)>>),
    When(Rule("", From, "reject", <<>>), "pattern", Isnt(<<"^", "int", "$">>)),
    When(Rule("", From, "reject", <<>>), "pattern", Is(<<"bo">>)),
    Drill(From, <<Bo>>),
    [Drill(<<"FROM">>, <<Bo, Host>>) EXCEPT !.methods = <<<<"INVITE">>>>],
    Drill(<<"FROM">>, <<Host, Element("", "none", "none", <<>>)>>),
    [Drill(From, <<Host>>) EXCEPT !.action = "none"] }

\* Rules that a pass may spoil, alone or beside one other.
Odd ==
  { When(Rule("", X, "replace", <<Word("z")>>), "pattern", Is(<<"^", "x">>)),
    When(Rule("", X, "replace", <<Word("z")>>), "pattern", Is(<<"y", "$">>)),
    When(Rule("", From, "none", <<>>), "pattern", Is(<<"int">>)),
    Rule("", From, "manipulate", <<Word("z")>>),
    When(Drill(From, <<Bo>>), "sensitive", Is(Inside)),
    When(Drill(From, <<Host, [Host EXCEPT !.match.text = <<"int">>]>>), "sensitive", Is(Inside)),
    Drill(From, <<When(Bo, "sensitive", Is(<<"ip">>)), When(Element("", "user", "replace", <<Word("ip")>>), "sensitive", Is(<<"al">>))>>),
    Drill(From, <<When(Host, "sensitive", Is(<<"Int">>)), [When(Host, "sensitive", Is(<<"Int">>)) EXCEPT !.kind = "fqdn"]>>),
    Drill(From, <<When(Host, "pattern", Is(<<"^", "int", "$">>))>>),
    Drill(From, <<[When(Host, "pattern", Is(<<"^", "Int", "$">>)) EXCEPT !.kind = "fqdn"]>>) }

\* Rules whose copy, or whose place, is told apart by what is stored or written.
Unnamed == Rule("", From, "store", <<>>)
Nothing == Element("", "none", "none", <<>>)
Whole   == Element("", "whole", "replace", <<Word("z")>>)
Keep    == Element("k", "whole", "store", <<>>)
Search  == When(Rule("", X, "log", <<Word("l")>>), "pattern", Is(<<"^", "x", "$">>))
Place   == Rule("", X, "replace", <<Stored("rule1", 0)>>)

\* A reference beside the same text in quotes, and two rules of which one's
\* match-value and the other's new-value hold a separator.
Quoted    == <<Rule("", X, "replace", <<Variable("LOCAL_IP")>>), Rule("", X, "replace", <<Word("$LOCAL_IP")>>)>>
Separated ==
  <<When(Rule("", X, "replace", <<Word("z")>>), "sensitive", Is(<<"x", "|", "y">>)),
    When(Rule("", X, "replace", <<[kind |-> "text", text |-> <<"y", "|", "z">>]>>), "sensitive", Is(<<"x">>))>>

MCSequels ==
  { <<Rule("", From, "none", <<>>), Unnamed, Place>>,
    <<Unnamed, Unnamed, Place>>,
    <<Drill(From, <<Nothing>>), Drill(From, <<Nothing, Host>>), Unnamed, Rule("", X, "replace", <<Stored("rule2", 0)>>)>>,
    <<Drill(<<"Via">>, <<Nothing>>), Drill(<<"VIA">>, <<Whole>>)>>,
    <<Drill(From, <<Bo>>), [Drill(From, <<Element("", "user", "store", <<>>)>>) EXCEPT !.name = "n"],
      Rule("", X, "replace", <<Stored("n.el", 0)>>)>>,
    <<Drill(From, <<Element("", "display", "replace", <<Word("z")>>), Element("", "display", "replace", <<Word("z")>>)>>)>>,
    <<[Rule("", <<>>, "log", <<>>) EXCEPT !.elements = <<Whole>>], Rule("", <<>>, "delete", <<>>)>>,
    <<Saying(Drill(From, <<Nothing>>), <<Word("z")>>)>>,
    <<Rule("", <<>>, "add", <<Word("y")>>)>>,
    <<Drill(From, <<When(Whole, "pattern", Is(<<"bo">>))>>)>>,
    <<Drill(From, <<Keep, Whole, Keep>>), Rule("", X, "replace", <<Stored("k", 0)>>)>>,
    <<Search, Drill(From, <<Saying(Whole, <<Captured(0)>>)>>)>>,
    <<Search, When(Rule("p", From, "store", <<>>), "pattern", NoMatch), Rule("", X, "replace", <<Stored("p", 0)>>)>>,
    <<Drill(From, <<Whole, Whole>>)>>,
    <<Drill(From, <<Whole, [Whole EXCEPT !.param = <<"tag">>]>>)>>,
    <<Drill(From, <<Host>>), Rule("", X, "log", <<Word("l")>>), Drill(<<"FROM">>, <<Host, Nothing>>)>>,
    Quoted, Separated }

MCSources == [1..3 -> MCPool] \cup [1..2 -> MCPool \cup Odd] \cup [1..1 -> Odd] \cup MCSequels

\* A pattern that is found inside a value.
MCUnanchored == {<<When(Rule("", From, "reject", <<>>), "pattern", Is(<<"bo">>))>>}

MCPackets ==
  { Message(TRUE, <<"INVITE">>, <<Line(From, Inside), Line(X, <<"x">>)>>),
    Message(TRUE, <<"BYE">>, <<Line(X, <<"x", "y">>), Line(<<"FROM">>, Outside), Line(X, <<"x">>)>>) }

\* The engine of the instance is one that SafePassesAreSound is about.
ASSUME MCEngineAssumption ==
  LET Texts == UNION {[1..n -> {"^", "x", "(.*)", "$"}] : n \in 1..4}
  IN  \A t \in Texts, x \in Texts : SearchesAsWritten(t, x)
=============================================================================
