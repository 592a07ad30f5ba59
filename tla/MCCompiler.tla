----------------------------- MODULE MCCompiler -----------------------------
(* Model-checking instances of Compiler: sources put together from lines,   *)
(* values and operands.                                                    *)
EXTENDS Compiler

MCVariables == {"LOCAL_IP", "REALM"}
MCNames     == {"user", "rule", "elem", "x"}
MCNumerals  == "1" :> 1 @@ "12" :> 12
MCLowered   == "Action" :> "action" @@ "ADD" :> "add" @@ "Header-Rule" :> "header-rule"
MCUppered   == "invite" :> "INVITE"

Line(key, value) == <<key, " ">> \o value
Quoted(text) == <<"\"">> \o text \o <<"\"">>

\* Every kind of line, for every order of up to four of them in a block.
Kinds == {
  <<"sip-manipulation", " ", "second">>,
  <<" ", "header-rules", " ", "h1">>, <<"element-rule">>,
  <<"mime-sdp-rule">>, <<"Header-Rule">>,
  <<"name", " ", "x", " ", "#", "user">>,
  <<"Action", " ", "ADD">>, <<"action", " ", "store", " ", "add">>,
  <<"future", " ", "x">>, <<" ", "#", "action">>, <<"\"", "name", "\"", " ", "x">> }

Edge == <<"sip-manipulation", " ", "edge">>
UpTo(n, lines) == UNION {[1..k -> lines] : k \in 0..n}
Ordered == {<<Edge>> \o s : s \in UpTo(4, Kinds)}
             \cup UpTo(2, Kinds \ {<<"sip-manipulation", " ", "second">>})

\* Every attribute, with every form of value, once and twice.
Values == {
  <<>>, Quoted(<<>>), <<"x">>, <<"ADD">>, <<"an">>, <<"request">>, <<"uri-user">>, <<"boolean">>,
  <<"x", " ", " ", "user">>, <<"x", "#", "user", " ", "#", "rule">>, Quoted(<<"x">>),
  Quoted(<<" ", "x">>), Quoted(<<"#", "x">>), Quoted(<<"x", "\\", "n", "user">>),
  Quoted(<<"x", "\\", "\"", "user">>), <<"\"", "x">>, <<"x", "\"", "user">>,
  Quoted(<<"$", "user">>), <<"!", "$", "user", ".", "$", "1">>, <<"$", "REALM", "+", "x">>,
  <<"invite", ",", "ACK", " ", "BYE">>, Quoted(<<>>) \o <<" ", "x">> }
Again == {<<>>, <<"x">>, <<"add">>, <<"bogus">>, <<"$", "user">>}

Under == "manipulation" :> <<Edge>>
      @@ "header"       :> <<Edge, <<"header-rule">>>>
      @@ "element"      :> <<Edge, <<"header-rule">>, <<"element-rule">>, <<"type", " ", "uri-host">>>>

Attributes ==
  UNION {
    LET lines == {Line(key, v) : key \in DOMAIN Schema[b], v \in Values} IN
    {Under[b] \o <<l>> : l \in lines}
      \cup {Under[b] \o <<l, Line(l[1], v)>> : l \in lines, v \in Again}
    : b \in DOMAIN Under}

\* Expressions of up to three operands, joined in each way that keeps them
\* apart: a literal that begins with "." after a name, before a reference, is
\* not one of them.
Operands == {
  Literal(<<"x">>), Literal(<<"@", "x", ".">>), Literal(<<".", "x">>),
  Ref("variable", <<"LOCAL_IP">>, NoIndex), Ref("variable", <<"x", "-">>, NoIndex),
  Ref("capture", <<"12">>, 12), Ref("rule", <<"rule">>, NoIndex),
  Ref("rule", <<"rule", ".", "elem">>, NoIndex), Ref("rule", <<"rule", ".", "elem", ".$", "1">>, 1) }

Spelled(o) ==
  CASE o.kind = "literal" -> o.text
    [] o.kind = "variable" /\ Len(o.text) > 1 -> <<"$", "{">> \o o.text \o <<"}">>
    [] OTHER -> <<"$">> \o FlattenSeq([k \in 1..Len(o.text) |->
                             IF o.text[k] = "." THEN <<".", "$">>
                             ELSE IF o.text[k] = ".$" THEN <<".", "$">> ELSE <<o.text[k]>>])

SideBySide(a, b) == a.kind = "literal" \/ b.kind = "literal" => a.kind # b.kind /\ b.text[1] # "x"
Written(list) ==
  {FlattenSeq([k \in 1..Len(list) |->
     (IF k = 1 \/ (k \in near /\ SideBySide(list[k - 1], list[k])) THEN <<>> ELSE <<"+">>)
       \o Spelled(list[k])]) : near \in SUBSET (2..Len(list))}

Expressions ==
  UNION {{[command |-> "parse", operands |-> list,
           source |-> <<Edge, <<"header-rule">>, Line("new-value", text)>>]
          : text \in Written(list)} : list \in UpTo(3, Operands) \ {<<>>}}

Compiled == {<<Edge>>, <<Edge, <<"action", " ", "bogus">>, <<"header-rule">>, <<"action", " ", "bogus">>>>}

\* A type nobody gave is printed by a word the parser does not have.
MCDumped == {[command |-> "dump-ast",
              source  |-> <<Edge, <<"header-rule">>, <<"element-rule">>>>]}

MCJobs ==
       {[command |-> "parse", source |-> s] : s \in Ordered}
  \cup {[command |-> "dump-ast", source |-> s] : s \in Attributes}
  \cup Expressions
  \cup {[command |-> c, source |-> s] : c \in {"compile", "dump-ir", "dump-ir --opt"}, s \in Compiled}
=============================================================================
