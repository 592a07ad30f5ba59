-------------------------- MODULE MCGeneratedCode --------------------------
(* Model-checking instances of GeneratedCode. *)
EXTENDS GeneratedCode, MCRules

Stores ==
  { Rule("a", From, "store", <<>>),
    When(Rule("p", From, "store", <<>>), "pattern", Is(<<"(.*)">>)) }

Loads ==
  { Rule("", X, "add", <<Stored("a", 0), Captured(1)>>),
    [Rule("", X, "replace", <<Stored("p", 1), Variable("LOCAL_IP")>>) EXCEPT !.methods = <<<<"INVITE">>>>] }

HeaderPool == Stores \cup Loads \cup
  { [Rule("a", From, "store", <<>>) EXCEPT !.msg = "request"],
    When(Rule("", X, "delete", <<>>), "pattern", Isnt(<<"ext">>)),
    When(Rule("", From, "reject", <<Stored("", 0)>>), "insensitive", Is(Outside)),
    [When(Rule("", From, "log", <<Captured(0)>>), "pattern", Is(<<"int">>)) EXCEPT !.msg = "reply"],
    When(Rule("", X, "find-replace-all", <<>>), "sensitive", Is(<<"x">>)) }

ElementPool ==
  { Drill(From, <<When(Element("no", "host", "reject", <<Stored("a", 0)>>), "pattern", Is(<<"ext">>)),
                  Element("u", "user", "store", <<>>),
                  Element("", "host", "replace", <<Stored("u", 0)>>),
                  Element("", "param", "replace", <<Stored("q", 0)>>)>>),
    Drill(<<"FROM">>, <<[Element("", "host", "delete", <<>>) EXCEPT !.kind = "fqdn", !.match = Is(<<"Int">>)],
                        Element("", "whole", "store", <<>>)>>),
    Drill(From, <<When(Element("", "user", "replace", <<Word("bo")>>), "sensitive", Is(<<"al">>)),
                  When(Element("", "host", "replace", <<Captured(0)>>), "pattern", Isnt(<<"ext">>)),
                  Element("", "user", "reject", <<>>)>>) }

\* Up to two rules, or one that stores, one that loads, and any third between
\* or after them.
MCRulesets ==
  UNION {[1..n -> HeaderPool \cup ElementPool] : n \in 0..2}
    \cup UNION {{<<s, r, l>>, <<s, l, r>>} :
                  s \in Stores, r \in HeaderPool \cup ElementPool, l \in Loads}

MCPackets ==
  { Message(TRUE, <<"INVITE">>, <<Line(From, Inside), Line(X, <<"x">>)>>),
    Message(TRUE, <<"BYE">>, <<Line(<<"FROM">>, Outside)>>),
    Message(FALSE, <<>>, <<Line(X, <<"ext">>), Line(From, Inside), Line(X, <<"int">>)>>) }
=============================================================================
