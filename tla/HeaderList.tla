----------------------------- MODULE HeaderList -----------------------------
(***************************************************************************)
(* What the message model promises the modules that edit a message         *)
(* (sip_message.hpp:89-107, runtime-api.md): an ordered list of header     *)
(* fields and a request-URI, edited by calls that either do all of what    *)
(* they say or nothing.  An element rule is two calls: when the first is   *)
(* refused, the second writes its empty result.  No arena, no slices, no   *)
(* tombstones, no limits.                                                  *)
(***************************************************************************)
EXTENDS Fields

CONSTANT Rewrite(_, _, _)   \* a URI with one element replaced

VARIABLES list,   \* the fields, in order: records of a name and a value
          uri,    \* the request-URI
          call    \* the last call, with its verdict

vars == <<list, uri, call>>

Set    == call'.op = "set" /\ list' = Put(list, call'.name, call'.text) /\ UNCHANGED uri
Add    == call'.op = "add" /\ list' = Added(list, call'.name, call'.text) /\ UNCHANGED uri
Delete == call'.op = "delete" /\ list' = Without(list, call'.name) /\ UNCHANGED uri

Rewritten == Rewrite(Value(list, call'.name), call'.element, call'.text)

\* An element rule: one element of the field's value is replaced.
Element == call'.op = "element" /\ list' = Put(list, call'.name, Rewritten) /\ UNCHANGED uri

\* uri_set is refused, and set_header writes the null string it returned.
Blanked ==
  call'.op = "element" /\ list' = Put(list, call'.name, <<>>) /\ UNCHANGED uri

\* The request-URI, and the From and To fields, by component.
Field ==
  /\ call'.op = "field"
  /\ IF call'.name = <<>>
     THEN uri' = Rewrite(uri, call'.element, call'.text) /\ UNCHANGED list
     ELSE /\ Position(list, call'.name) # 0
          /\ list' = Put(list, call'.name, Rewritten)
          /\ UNCHANGED uri

Serialize == call'.op = "serialize" /\ UNCHANGED <<list, uri>>
Refused   == UNCHANGED <<list, uri>>
Receive   == call'.op = "receive"

Next ==
  \/ call'.ok /\ (Set \/ Add \/ Delete \/ Element \/ Field \/ Serialize)
  \/ ~call'.ok /\ (Refused \/ Blanked)
  \/ Receive

Spec == [][Next]_vars
=============================================================================
