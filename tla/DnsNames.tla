------------------------------ MODULE DnsNames ------------------------------
(***************************************************************************)
(* Domain names of dns.c, as text and in a packet: trimming, anchoring,    *)
(* cleaving, compression against the packet's dictionary, expansion.       *)
(* Octets are numbers; P->data[i] is data[i + 1] up to P->end, the length  *)
(* of data, and past holds the rest of the buffer, with whatever failed    *)
(* calls left there.                                                       *)
(***************************************************************************)
EXTENDS Integers, Sequences, SequencesExt, FiniteSets

CONSTANTS DictSize,     \* DNS_P_DICTSIZE
          MaxPtrs       \* DNS_D_MAXPTRS

Dot == 46
Octet(d, i) == d[i + 1]
End(P) == Len(P.data)
Lower(text) == [i \in DOMAIN text |-> IF text[i] \in 65 .. 90 THEN text[i] + 32 ELSE text[i]]
SameText(s, t) == Lower(s) = Lower(t)     \* strcasecmp() == 0

\* The two high bits of an octet: a label follows, a pointer, or neither.
Follows(o) == o \div 64 = 0
Pointer(o) == o \div 64 = 3
Target(d, i) == (Octet(d, i) % 64) * 256 + Octet(d, i + 1)

\* dns_d_anchor(): a final dot, if there is none.
Anchor(text) == IF text = <<>> \/ Last(text) = Dot THEN text ELSE Append(text, Dot)

\* dns_d_trim(): no leading dots, no dot after a dot.
TrimName(text) ==
    LET keep == {i \in DOMAIN text : text[i] # Dot \/ (i > 1 /\ text[i - 1] # Dot)}
    IN  [n \in 1 .. Cardinality(keep) |->
            text[CHOOSE i \in keep : Cardinality({j \in keep : j <= i}) = n]]

\* dns_d_cleave(): the name without its first label; the root of a last label.
Cleave(text) ==
    LET dots == {i \in 2 .. Len(text) : text[i] = Dot}
        dot == CHOOSE i \in dots : \A j \in dots : i <= j
    IN  IF dots = {} THEN <<>>
        ELSE IF dot < Len(text) THEN SubSeq(text, dot + 1, Len(text)) ELSE <<Dot>>

\* dns_l_expand(): the label at src, through pointers.
NoLabel(d) == [len |-> 0, label |-> <<>>, nxt |-> Len(d)]
LabelAt(d, src, len) ==
    IF Len(d) - (src + 1) < len THEN NoLabel(d)
    ELSE [len |-> len, label |-> SubSeq(d, src + 2, src + 1 + len), nxt |-> src + 1 + len]
RECURSIVE LExpand(_, _, _)
LExpand(d, src, nptrs) ==
    IF src >= Len(d) THEN NoLabel(d)
    ELSE IF Follows(Octet(d, src)) THEN LabelAt(d, src, Octet(d, src))
    ELSE IF Pointer(Octet(d, src)) /\ nptrs < MaxPtrs /\ Len(d) - src >= 2
    THEN LExpand(d, Target(d, src), nptrs + 1)
    ELSE NoLabel(d)

\* dns_l_skip(): past a label; the end after a pointer or the last one.
LSkip(d, src) ==
    IF src < Len(d) /\ Follows(Octet(d, src)) /\ Octet(d, src) > 0
       /\ Len(d) - (src + 1) >= Octet(d, src)
    THEN src + 1 + Octet(d, src) ELSE Len(d)

\* The first half of dns_d_comp(): the text as labels with their lengths.
RECURSIVE Labels(_, _)
Labels(text, seg) ==
    IF text = <<>> THEN IF seg = <<>> THEN <<>> ELSE <<Len(seg) % 64>> \o seg
    ELSE IF Head(text) = Dot THEN <<Len(seg) % 64>> \o seg \o Labels(Tail(text), <<>>)
    ELSE Labels(Tail(text), Append(seg, Head(text)))
Ended(e) == IF Len(e) > 1 THEN Append(e, 0) ELSE e
Encode(text) == Ended(Labels(text, <<>>))

\* The second half: the label at ap of the new name against every label of every
\* name in the dictionary.  a holds the label that is compared, which the walk
\* along a match overwrites and the next comparison finds so.
RECURSIVE Walk(_, _, _, _)
Walk(e, d, a, b) ==
    IF a.len > 0 /\ b.len > 0 /\ SameText(a.label, b.label)
    THEN Walk(e, d, LExpand(e, a.nxt, 0), LExpand(d, b.nxt, 0))
    ELSE <<a, b>>
RECURSIVE Along(_, _, _, _, _)
Turn(e, d, ax, bp, b, w) ==
    IF w[1].len = 0 /\ w[2].len = 0 /\ bp <= 16383 THEN <<"hit", bp>>
    ELSE Along(e, d, [w[1] EXCEPT !.nxt = ax], ax, b.nxt)
From(e, d, a, ax, bp, b) ==
    IF b.len = 0 THEN <<"miss", a>> ELSE Turn(e, d, ax, bp, b, Walk(e, d, a, b))
Along(e, d, a, ax, bp) == From(e, d, a, ax, bp, LExpand(d, bp, 0))
InDict(e, P, a) ==
    FoldLeft(LAMBDA r, bp : IF r[1] = "hit" THEN r ELSE Along(e, P.data, r[2], a.nxt, bp),
             <<"miss", a>>, P.dict)
RECURSIVE Shorten(_, _, _)
Cut(e, P, ap, a, r) ==
    IF r[1] = "hit" THEN SubSeq(e, 1, ap) \o <<192 + r[2] \div 256, r[2] % 256>>
    ELSE Shorten(e, P, a.nxt)
CutAt(e, P, ap, a) == IF a.len = 0 THEN e ELSE Cut(e, P, ap, a, InDict(e, P, a))
Shorten(e, P, ap) == CutAt(e, P, ap, LExpand(e, ap, 0))

\* dns_d_comp(): compressed only when the whole would fit.
Compressed(e, P) == IF Len(e) < P.size - End(P) THEN Shorten(e, P, 0) ELSE e
Comp(text, P) == Compressed(Encode(text), P)

\* dns_p_dictadd(): a name that ends in a pointer to a dictionary entry takes its
\* place, any other a free place.
RECURSIVE PointsTo(_, _)
PointsTo(P, lp) ==
    IF lp >= End(P) THEN -1
    ELSE IF Pointer(Octet(P.data, lp)) THEN Target(P.data, lp)
    ELSE PointsTo(P, LSkip(P.data, lp))
Into(P, dn, at) ==
    IF at > 0 THEN [P EXCEPT !.dict[at] = dn]
    ELSE IF Len(P.dict) < DictSize THEN [P EXCEPT !.dict = Append(@, dn)]
    ELSE P
DictAdd(P, dn) ==
    Into(P, dn, IF Pointer(Octet(P.data, dn)) THEN 0
                ELSE SelectInSeq(P.dict, LAMBDA x : x = PointsTo(P, LSkip(P.data, dn))))

\* The buffer from P->end on: octets are written there, as many as there is room
\* for, and P->end moves over n of them.
Write(P, octets) ==
    [P EXCEPT !.past = [i \in DOMAIN @ |-> IF i \in DOMAIN octets THEN octets[i] ELSE @[i]]]
Advance(P, n) ==
    [P EXCEPT !.data = @ \o SubSeq(P.past, 1, n), !.past = SubSeq(@, n + 1, Len(@))]

\* dns_d_comp() at P->end: the labels are all written before they are compressed.
WriteName(P, text) == Write(Write(P, Encode(text)), Comp(text, P))

\* dns_d_push()
Pushing(P, len) ==
    IF len > P.size - End(P) THEN [error |-> "ENOBUFS", P |-> P]
    ELSE [error |-> "0", P |-> DictAdd(Advance(P, len), End(P))]
DPush(P, text) ==
    IF text = <<>> THEN [error |-> "EILLEGAL", P |-> P]
    ELSE Pushing(WriteName(P, text), Len(Comp(text, P)))

\* dns_d_skip(): past the name at src.
RECURSIVE DSkip(_, _)
DSkip(P, src) ==
    IF src >= End(P) THEN End(P)
    ELSE LET o == Octet(P.data, src) IN
    IF Follows(o)
    THEN IF o = 0 THEN src + 1
         ELSE IF End(P) - (src + 1) > o THEN DSkip(P, src + 1 + o) ELSE End(P)
    ELSE IF Pointer(o) /\ End(P) - src >= 2 THEN src + 2 ELSE End(P)

\* dns_d_expand(): the text of the name at src, or nothing.
RECURSIVE DExpandFrom(_, _, _, _)
DExpandFrom(P, src, text, nptrs) ==
    IF src >= End(P) THEN <<>>
    ELSE LET o == Octet(P.data, src) IN
    IF o = 0 THEN IF text = <<>> THEN <<Dot>> ELSE text
    ELSE IF Follows(o)
    THEN IF End(P) - (src + 1) < o THEN <<>>
         ELSE DExpandFrom(P, src + 1 + o,
                          text \o SubSeq(P.data, src + 2, src + 1 + o) \o <<Dot>>, 0)
    ELSE IF Pointer(o) /\ nptrs < MaxPtrs /\ End(P) - src >= 2
    THEN DExpandFrom(P, Target(P.data, src), text, nptrs + 1)
    ELSE <<>>
DExpand(P, src) == DExpandFrom(P, src, <<>>, 0)
=============================================================================
