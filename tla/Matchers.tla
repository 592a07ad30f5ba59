------------------------------ MODULE Matchers ------------------------------
(***************************************************************************)
(* The address matchers (src/src/runtime/matchers.cpp): equality, subnets  *)
(* and ranges of IPv4 and IPv6 addresses in any spelling.                  *)
(*                                                                         *)
(* A text is a sequence of tokens: a number [kind |-> "number", value],    *)
(* read in hexadecimal as a group of an IPv6 address and in decimal as a   *)
(* prefix length; a dotted quad [kind |-> "quad", bytes]; a word that is   *)
(* neither, or one of the signs : [ ] % / -, as [kind |-> c].  Two numbers *)
(* or quads are never adjacent: they would be one.  Blanks are left out.   *)
(***************************************************************************)
EXTENDS Integers, Sequences, SequencesExt, Bitwise

CONSTANTS
  ByteBits,           \* 8
  V4Bytes, V6Bytes,   \* 4 and 16
  Subjects,           \* texts that are matched
  Patterns            \* texts they are matched against

ASSUME MatchersAssumption ==
  ByteBits \in Nat \ {0} /\ V4Bytes \in Nat \ {0} /\ V6Bytes % 2 = 0 /\ V4Bytes < V6Bytes

VARIABLES subject, pattern, answer   \* a call of hmr_rt_match, and its result

vars == <<subject, pattern, answer>>

Number(v) == [kind |-> "number", value |-> v]
Quad(b)   == [kind |-> "quad", bytes |-> b]
Sign(c)   == [kind |-> c]
Colon     == Sign(":")

Byte == 2 ^ ByteBits
Bytes(token) ==
  IF token.kind = "quad" THEN token.bytes ELSE <<token.value \div Byte, token.value % Byte>>

Find(t, c)   == Min({i \in DOMAIN t : t[i] = Sign(c)} \cup {Len(t) + 1})
Until(t, c)  == SubSeq(t, 1, Find(t, c) - 1)
Beyond(t, c) == SubSeq(t, Find(t, c) + 1, Len(t))

-----------------------------------------------------------------------------
(* parse_ip *)

Invalid == [family |-> "none", bytes |-> <<>>]

\* parse_v6_part: numbers between colons, the last of which may be a quad.
IsPart(t) ==
  /\ t # <<>> => Len(t) % 2 = 1
  /\ \A i \in DOMAIN t : IF i % 2 = 0 THEN t[i] = Colon
                         ELSE (t[i].kind = "number" /\ t[i].value < Byte * Byte)
                              \/ (t[i].kind = "quad" /\ i = Len(t))

PartBytes(t) ==
  LET tokens == SelectSeq(t, LAMBDA x : x # Colon)
  IN  FlattenSeq([i \in DOMAIN tokens |-> Bytes(tokens[i])])

Unbracketed(t) ==
  IF Len(t) >= 2 /\ Head(t) = Sign("[") /\ Last(t) = Sign("]") THEN Front(Tail(t)) ELSE t
WithoutZone(t) == Until(t, "%")

Elisions(t) == {i \in 1..Len(t) - 1 : t[i] = Colon /\ t[i + 1] = Colon}
Zeros(n)    == [i \in 1..n |-> 0]

\* Mutant: the elision may stand for no group at all.
MostAround_All == V6Bytes

\* "::" must elide at least one group.
MostAround == V6Bytes - 2

\* The address with "::" at a position, or nothing.
Elided(t, at) ==
  LET head == SubSeq(t, 1, at - 1)
      tail == SubSeq(t, at + 2, Len(t))
      size == Len(PartBytes(head)) + Len(PartBytes(tail))
  IN  IF IsPart(head) /\ IsPart(tail) /\ size <= MostAround
      THEN PartBytes(head) \o Zeros(V6Bytes - size) \o PartBytes(tail) ELSE <<>>

ParseIpv6(text) ==
  LET t == WithoutZone(Unbracketed(text))
  IN  CASE Elisions(t) = {}          -> IF IsPart(t) THEN PartBytes(t) ELSE <<>>
        [] Cardinality(Elisions(t)) = 1 -> Elided(t, CHOOSE i \in Elisions(t) : TRUE)
        [] OTHER                     -> <<>>

ParseIp(t) ==
  CASE Len(t) = 1 /\ t[1].kind = "quad" -> [family |-> "v4", bytes |-> t[1].bytes]
    [] OTHER -> IF Len(ParseIpv6(t)) = V6Bytes THEN [family |-> "v6", bytes |-> ParseIpv6(t)]
                ELSE Invalid

-----------------------------------------------------------------------------
(* The matchers *)

Width(family) == ByteBits * (IF family = "v4" THEN V4Bytes ELSE V6Bytes)

Bits(bytes) ==
  FlattenSeq([i \in DOMAIN bytes |->
                [k \in 1..ByteBits |-> (bytes[i] \div 2 ^ (ByteBits - k)) % 2]])

\* Mutant: a partial last byte is compared as far as the byte goes.
SamePrefix_WholeBytes(a, b, n) ==
  SubSeq(a, 1, (n + ByteBits - 1) \div ByteBits) = SubSeq(b, 1, (n + ByteBits - 1) \div ByteBits)

\* The first n bits agree: whole bytes by memcmp, the rest under a mask.
SamePrefix(a, b, n) ==
  LET full == n \div ByteBits
      rem  == n % ByteBits
      mask == ((Byte - 1) * 2 ^ (ByteBits - rem)) % Byte
  IN  /\ SubSeq(a, 1, full) = SubSeq(b, 1, full)
      /\ rem # 0 => (a[full + 1] & mask) = (b[full + 1] & mask)

\* The ones of a netmask, if they are contiguous, else none.
MaskLength(bytes) ==
  LET walk == FoldLeft(LAMBDA w, bit :
                         [ones   |-> w.ones + bit, zero |-> w.zero \/ bit = 0,
                          broken |-> w.broken \/ (bit = 1 /\ w.zero)],
                       [ones |-> 0, zero |-> FALSE, broken |-> FALSE], Bits(bytes))
  IN  IF walk.broken THEN -1 ELSE walk.ones

\* A suffix is a netmask of the network's family or a decimal prefix length.
Prefix(suffix, family) ==
  CASE ParseIp(suffix).family = family -> MaskLength(ParseIp(suffix).bytes)
    [] OTHER ->
         IF Len(suffix) = 1 /\ suffix[1].kind = "number" /\ suffix[1].value <= Width(family)
         THEN suffix[1].value ELSE -1

MatchIp(s, p) == ParseIp(s) = ParseIp(p) /\ ParseIp(s) # Invalid

MatchIpMask(s, p) ==
  LET net  == ParseIp(Until(p, "/"))
      subj == ParseIp(s)
      n    == Prefix(Beyond(p, "/"), net.family)
  IN  /\ net # Invalid /\ subj.family = net.family /\ n >= 0
      /\ SamePrefix(subj.bytes, net.bytes, n)

\* Mutant: only the first bytes are compared.
NotAbove_FirstByte(a, b) == a[1] <= b[1]

\* memcmp: the first byte that differs decides.
NotAbove(a, b) ==
  a = b \/ \E i \in DOMAIN a : a[i] < b[i] /\ SubSeq(a, 1, i - 1) = SubSeq(b, 1, i - 1)

MatchIpRange(s, p) ==
  LET lo   == ParseIp(Until(p, "-"))
      hi   == ParseIp(Beyond(p, "-"))
      subj == ParseIp(s)
  IN  /\ subj # Invalid /\ lo.family = subj.family /\ hi.family = subj.family
      /\ NotAbove(lo.bytes, subj.bytes) /\ NotAbove(subj.bytes, hi.bytes)

IsMask(p)  == Contains(p, Sign("/"))
IsRange(p) == Contains(p, Sign("-")) /\ ~IsMask(p)

\* ip_match_type: the shape of the pattern chooses the matcher.
Matches(s, p) ==
  CASE IsMask(p)  -> MatchIpMask(s, p)
    [] IsRange(p) -> MatchIpRange(s, p)
    [] OTHER      -> MatchIp(s, p)

-----------------------------------------------------------------------------
Init == subject \in Subjects /\ pattern \in Patterns /\ answer = "none"

Match ==
  /\ answer = "none"
  /\ answer' = IF Matches(subject, pattern) THEN "yes" ELSE "no"
  /\ UNCHANGED <<subject, pattern>>

Spec == Init /\ [][Match]_vars

-----------------------------------------------------------------------------
(* Properties *)

\* Every way to write an address: its groups, the last ones as a quad or not,
\* with or without a run of zero groups elided, in brackets, with a zone.
Joined(tokens) ==
  FlattenSeq([i \in DOMAIN tokens |-> IF i = 1 THEN <<tokens[i]>> ELSE <<Colon, tokens[i]>>])

Group(bytes, g) == Number(bytes[2 * g - 1] * Byte + bytes[2 * g])
Groups(bytes)   == [g \in 1..V6Bytes \div 2 |-> Group(bytes, g)]
WithQuad(bytes) ==
  [g \in 1..(V6Bytes - V4Bytes) \div 2 |-> Group(bytes, g)]
    \o <<Quad(SubSeq(bytes, V6Bytes - V4Bytes + 1, V6Bytes))>>

Elidings(tokens) ==
  {Joined(SubSeq(tokens, 1, i - 1)) \o <<Colon, Colon>> \o Joined(SubSeq(tokens, j + 1, Len(tokens))) :
     <<i, j>> \in {r \in (1..Len(tokens)) \X (1..Len(tokens)) :
                     r[1] <= r[2] /\ \A k \in r[1]..r[2] : tokens[k] = Number(0)}}

Plain(address) ==
  IF address.family = "v4" THEN {<<Quad(address.bytes)>>}
  ELSE UNION {{Joined(t)} \cup Elidings(t) : t \in {Groups(address.bytes), WithQuad(address.bytes)}}

Spells(t, address) ==
  \/ t \in Plain(address)
  \/ address.family = "v6" /\ WithoutZone(Unbracketed(t)) \in Plain(address)

Addresses ==
  {[family |-> "v4", bytes |-> b] : b \in [1..V4Bytes -> 0..Byte - 1]}
    \cup {[family |-> "v6", bytes |-> b] : b \in [1..V6Bytes -> 0..Byte - 1]}

Texts ==
  Subjects \cup Patterns
    \cup {Until(p, "/") : p \in Patterns} \cup {Beyond(p, "/") : p \in Patterns}
    \cup {Until(p, "-") : p \in Patterns} \cup {Beyond(p, "-") : p \in Patterns}

\* What a text denotes, found among the spellings of all addresses.
Denoted == [t \in Texts |-> {a \in Addresses : Spells(t, a)}]

\* parse_v6_part takes a quad at the end of what stands before "::" too,
\* although matchers.cpp:79 allows it "only ... as the final token": such
\* texts are no spelling and are left out of what is claimed.
QuadInFront(t) ==
  \E i \in Elisions(t) : i > 1 /\ t[i - 1].kind = "quad"

\* "Any canonical spelling, same family" (matchers.hpp:55-56) and "malformed
\* input ... simply does not match" (19): a text matches a single address if
\* and only if both spell it, however its zeros are elided, its last groups
\* written, whatever brackets and zone it has.
EqualityIsCanonical ==
  ~IsMask(pattern) /\ ~IsRange(pattern) /\ ~QuadInFront(subject) /\ ~QuadInFront(pattern) =>
    /\ answer = "yes" => Denoted[subject] \cap Denoted[pattern] # {}
    /\ answer = "no"  => Denoted[subject] \cap Denoted[pattern] = {}

\* The prefix lengths a suffix stands for: a number not above the width, or
\* the netmask with so many leading ones and no other.
Lengths(suffix, family) ==
  {n \in 0..Width(family) :
     \/ suffix = <<Number(n)>>
     \/ \E m \in Denoted[suffix] :
          /\ m.family = family
          /\ Bits(m.bytes) = [k \in 1..Width(family) |-> IF k <= n THEN 1 ELSE 0]}

InSubnet(address, p) ==
  \E net \in Denoted[Until(p, "/")] :
    /\ net.family = address.family
    /\ \E n \in Lengths(Beyond(p, "/"), net.family) :
         \A k \in 1..n : Bits(address.bytes)[k] = Bits(net.bytes)[k]

\* match_ip_mask: a subject matches if and only if its address has the bits of
\* the network's as far as the prefix goes, from no bit to all of them; a mask
\* that is not contiguous, too long or of the other family matches nothing.
MembershipIsByPrefix ==
  IsMask(pattern) /\ ~QuadInFront(subject) /\ ~QuadInFront(pattern) =>
    /\ answer = "yes" => \E a \in Denoted[subject] : InSubnet(a, pattern)
    /\ answer = "no"  => ~\E a \in Denoted[subject] : InSubnet(a, pattern)

Numeric(a) == FoldLeft(LAMBDA n, byte : n * Byte + byte, 0, a.bytes)

InRange(address, p) ==
  \E lo \in Denoted[Until(p, "-")], hi \in Denoted[Beyond(p, "-")] :
    /\ lo.family = address.family /\ hi.family = address.family
    /\ Numeric(address) \in Numeric(lo)..Numeric(hi)

\* match_ip_range: both ends belong to a range, which is one of numbers, and an
\* empty one or one of two families matches nothing.
RangeIsNumeric ==
  IsRange(pattern) /\ ~QuadInFront(subject) /\ ~QuadInFront(pattern) =>
    /\ answer = "yes" => \E a \in Denoted[subject] : InRange(a, pattern)
    /\ answer = "no"  => ~\E a \in Denoted[subject] : InRange(a, pattern)
=============================================================================
