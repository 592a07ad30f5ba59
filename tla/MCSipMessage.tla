---------------------------- MODULE MCSipMessage ----------------------------
(* Model-checking instances of SipMessage. *)
EXTENDS SipMessage

\* Two spellings of one header name, and another name.
From == <<"From">>
FROM == <<"FROM">>
To   == <<"To">>
MCNames == {From, To}
MCLower == (From :> "from") @@ (FROM :> "from") @@ (To :> "to")

Field(n, v) == [name |-> n, value |-> v]
Packet(u, fs) ==
  [request |-> TRUE, hasUri |-> TRUE, before |-> <<"INVITE">>, uri |-> u, after |-> <<"v2">>,
   fields |-> fs, body |-> <<>>]
Reply(fs) ==
  [request |-> FALSE, hasUri |-> FALSE, before |-> <<"200">>, uri |-> <<>>, after |-> <<>>,
   fields |-> fs, body |-> <<"b">>]

\* A repeated header in two spellings, with a line that is no header.
Repeated == Packet(<<"h">>, <<Field(FROM, <<"u", "@", "h">>), Junk, Field(From, <<"w">>)>>)
Plain    == Packet(<<"u", "@", "h">>, <<Field(From, <<"u", "@", "h">>)>>)
Status   == Reply(<<Field(To, <<"h">>)>>)

\* Two blanks before the version: a request-URI that is there, and empty.
Empty    == Packet(<<>>, <<>>)

MCPackets == {Repeated, Status, Empty}
UriPackets == {Plain}
MCTexts   == {<<>>, <<"y", "z">>}
MCFields  == {<<<<>>, "user">>, <<From, "host">>}
=============================================================================
