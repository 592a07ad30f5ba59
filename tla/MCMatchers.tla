---------------------------- MODULE MCMatchers ----------------------------
(***************************************************************************)
(* Instances of Matchers for TLC: bytes of two bits, quads of two bytes    *)
(* and IPv6 addresses of three groups, the last of which a quad can write, *)
(* so that an elision stands for one group or two and a prefix ends in     *)
(* every place of a byte.                                                  *)
(***************************************************************************)
EXTENDS Matchers

N(v) == <<Number(v)>>
Q(a, b) == <<Quad(<<a, b>>)>>
C  == <<Colon>>
CC == C \o C
Word == <<Sign("word")>>

Braced(t) == <<Sign("[")>> \o t \o <<Sign("]")>>
Zoned(t)  == t \o <<Sign("%")>> \o Word
Under(net, suffix) == net \o <<Sign("/")>> \o suffix
To(lo, hi) == lo \o <<Sign("-")>> \o hi

\* 0:0:6 in several spellings, then other addresses, then texts that are none.
Six == {CC \o N(6), CC \o N(0) \o C \o N(6), N(0) \o C \o N(0) \o C \o N(6), CC \o Q(1, 2),
        N(0) \o CC \o N(6), Zoned(Braced(CC \o N(6))), Braced(Zoned(CC \o N(6)))}
Others == {CC, CC \o N(5), N(6) \o CC, N(1) \o C \o N(0) \o C \o N(6), N(1) \o CC \o Q(1, 3)}
None == {<<>>, Word, N(6), C \o N(6), CC \o C \o N(6), CC \o N(6) \o CC, N(6) \o C \o N(6),
         N(0) \o CC \o N(0) \o C \o N(6), CC \o N(16), Braced(Q(1, 2)), Zoned(Q(1, 2)),
         Q(1, 2) \o C \o N(0) \o C \o N(6), Q(1, 2) \o CC}
Fours == {Q(1, 2), Q(1, 3), Q(2, 0), Q(0, 3)}

MCSubjects == Six \cup Others \cup None \cup Fours

MCPatterns ==
  MCSubjects
    \cup {Under(net, suffix) :
            net \in {Q(1, 2), Braced(N(1) \o CC \o Q(1, 2)), CC, Word},
            suffix \in {N(n) : n \in 0..5} \cup {N(11), N(12), N(13), <<>>, Word}
                         \cup {Q(3, 2), Q(3, 3), Q(0, 0), Q(1, 0), Q(2, 3)}
                         \cup {N(15) \o CC, N(15) \o C \o N(15) \o C \o N(14), CC \o N(8)}}
    \cup {To(lo, hi) : lo, hi \in {CC, CC \o N(5), CC \o N(7), N(1) \o CC, Q(0, 3), Q(1, 2), Q(2, 0), Word}}
=============================================================================
