--------------------------- MODULE MCInterpreter ---------------------------
(* Model-checking instances of Interpreter. *)
EXTENDS Interpreter, MCRules

MCPool ==
  { Rule("a", From, "store", <<>>),
    [Rule("a", From, "store", <<>>) EXCEPT !.msg = "request"],
    When(Rule("p", From, "store", <<>>), "pattern", Is(<<"(.*)">>)),
    Rule("", X, "add", <<Stored("a", 0), Captured(1)>>),
    [Rule("", X, "replace", <<Stored("p", 1), Variable("LOCAL_IP")>>) EXCEPT !.methods = <<<<"INVITE">>>>],
    When(Rule("", X, "delete", <<>>), "pattern", Isnt(<<"ext">>)),
    When(Rule("", From, "reject", <<Stored("", 0)>>), "insensitive", Is(Outside)),
    When(Rule("", From, "log", <<Captured(0)>>), "pattern", Is(<<"int">>)),
    Drill(From, <<When(Element("no", "host", "reject", <<Stored("a", 0)>>), "pattern", Is(<<"ext">>)),
                  Element("u", "user", "store", <<>>),
                  Element("", "host", "replace", <<Stored("u", 0)>>),
                  Element("", "param", "replace", <<Stored("q", 0)>>)>>),
    Drill(<<"FROM">>, <<[Element("", "host", "delete", <<>>) EXCEPT !.kind = "fqdn", !.match = Is(<<"Int">>)],
                        Element("", "whole", "store", <<>>)>>) }

MCRulesets == UNION {[1..n -> MCPool] : n \in 1..3}

MCPackets ==
  { Message(TRUE, <<"INVITE">>, <<Line(From, Inside), Line(X, <<"x">>)>>),
    Message(TRUE, <<"BYE">>, <<Line(<<"FROM">>, Outside)>>),
    Message(FALSE, <<>>, <<Line(X, <<"ext">>), Line(From, Inside), Line(X, <<"int">>)>>) }
=============================================================================
