------------------------------- MODULE Fields -------------------------------
(***************************************************************************)
(* A SIP message's header section as rules see it: a list of fields, each  *)
(* a name and a value, with the three edits of the runtime's C ABI         *)
(* (src/src/runtime/sip_message.cpp).  SipMessage.tla shows that the       *)
(* slices and tombstones of the message model amount to this.              *)
(***************************************************************************)
EXTENDS Naturals, Sequences, SequencesExt

CONSTANT SameName(_, _)    \* header names compare without case

Position(fields, n) == SelectInSeq(fields, LAMBDA f : SameName(f.name, n))

\* get_header: an absent header reads as the empty text.
Value(fields, n) == IF Position(fields, n) = 0 THEN <<>> ELSE fields[Position(fields, n)].value

Added(fields, n, t) == Append(fields, [name |-> n, value |-> t])

\* The first field of the name gets the text, or a new last field does.
Put(fields, n, t) ==
  IF Position(fields, n) = 0 THEN Added(fields, n, t)
  ELSE [fields EXCEPT ![Position(fields, n)].value = t]

\* Every field of the name is gone, the others keep their order.
Without(fields, n) ==
  FlattenSeq([i \in DOMAIN fields |-> IF SameName(fields[i].name, n) THEN <<>> ELSE <<fields[i]>>])
=============================================================================
