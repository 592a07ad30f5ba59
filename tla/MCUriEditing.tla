---------------------------- MODULE MCUriEditing ----------------------------
(* The instance of UriEditing that TLC checks. *)
EXTENDS UriEditing

MCTexts == {<<>>, <<"n">>, <<"n", "m">>}
Hosts == {<<"h">>, <<"h", "k">>}

MCForms ==
  {c \in [display : {Absent, Present(<<"d">>), Present(<<"d", " ", "f">>)},
          quoted  : BOOLEAN,
          angled  : BOOLEAN,
          user    : {Absent, Present(<<"u">>), Present(<<"u", ";", "p">>)},
          host    : {Present(h) : h \in Hosts},
          port    : {Absent, Present(<<"5060">>)},
          params  : {<<>>, <<";", "p">>},
          trailer : {<<>>, <<";", "t">>}] :
     /\ ~c.angled => c.display = Absent /\ c.trailer = <<>>
     /\ c.display = Absent => ~c.quoted}
=============================================================================
