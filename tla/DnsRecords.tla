----------------------------- MODULE DnsRecords -----------------------------
(***************************************************************************)
(* What a resource record carries (dns_*_push, _parse, _cmp of dns.c), by  *)
(* type.  A value is a record of numbers (16 bits each, or quadruples of   *)
(* octets for 32 bits), names and octets; a push returns the packet and    *)
(* an error, "0" for none.                                                 *)
(***************************************************************************)
EXTENDS DnsNames

CONSTANT MaxChunk       \* octets in one string of a TXT record

Val(nums, names, octets) == [nums |-> nums, names |-> names, octets |-> octets]
NoVal == Val(<<>>, <<>>, <<>>)
Names == {"NS", "CNAME", "PTR"}          \* types that are one name
Octets16(k) == <<k \div 256, k % 256>>
Number16(d, i) == Octet(d, i) * 256 + Octet(d, i + 1)
Slice(d, i, n) == SubSeq(d, i + 1, i + n)

HasRoom(P, n) == P.size - End(P) >= n
Put(P, octets) == Advance(Write(P, octets), Len(octets))
Skip(P, n) == Advance(P, n)              \* P->end += n: the octets stay
Good(P) == [error |-> "0", P |-> P]
\* An error gives back the end of the packet; what was written behind it stays
\* there, and so does the dictionary.
Bad(e, P0, P) ==
    [error |-> e, P |-> [P EXCEPT !.data = P0.data,
                                  !.past = SubSeq(P.data, End(P0) + 1, End(P)) \o @]]
\* What follows a push, if that worked.
Then(res, P0, next(_)) == IF res.error # "0" THEN Bad(res.error, P0, res.P) ELSE next(res.P)
\* RDLENGTH, which is written last: the length of what follows it.
WithLength(P0, P) ==
    LET len == Octets16(End(P) - End(P0) - 2)
    IN  [P EXCEPT !.data[End(P0) + 1] = len[1], !.data[End(P0) + 2] = len[2]]

\* dns_a_push(), dns_aaaa_push()
PushAddress(P, v) ==
    IF ~HasRoom(P, 2 + Len(v.octets)) THEN Bad("ENOBUFS", P, P)
    ELSE Good(Put(P, Octets16(Len(v.octets)) \o v.octets))

\* dns_mx_push(), dns_ns_push(): what comes before a name, then the name.  The two
\* octets of RDLENGTH keep, until the name is there, what they had.
PushNamed(P, head, name) ==
    IF ~HasRoom(P, 3 + Len(head)) THEN Bad("ENOBUFS", P, P)
    ELSE Then(DPush(Put(Skip(P, 2), head), name), P, LAMBDA q : Good(WithLength(P, q)))
PushMx(P, v) == PushNamed(P, Octets16(v.nums[1]), v.names[1])
PushNs(P, v) == PushNamed(P, <<>>, v.names[1])

\* dns_soa_push(): two names, five times; the middle three have 31 bits.
SoaTimes(v) == [i \in 1 .. 5 |-> IF i \in 2 .. 4 THEN [v.nums[i] EXCEPT ![1] = @ % 128] ELSE v.nums[i]]
PutTime(m, P, time) ==
    IF m.error # "0" \/ End(m.P) + 4 >= m.P.size THEN Bad("ENOBUFS", P, m.P)
    ELSE Good(Put(m.P, time))
PushTimes(P, r, times) ==
    Then(FoldLeft(LAMBDA m, t : PutTime(m, P, t), Good(r), times), P,
         LAMBDA q : Good(WithLength(P, q)))
PushSoa(P, v) ==
    IF End(P) + 2 >= P.size THEN Bad("ENOBUFS", P, P)
    ELSE Then(DPush(Skip(P, 2), v.names[1]), P,
              LAMBDA m : Then(DPush(m, v.names[2]), P, LAMBDA r : PushTimes(P, r, SoaTimes(v))))

\* dns_srv_push(): three numbers, a name that does not enter the dictionary.
PushTarget(P, q, text) ==
    IF text = <<>> THEN Bad("EILLEGAL", P, q)
    ELSE IF ~HasRoom(q, Len(Comp(text, q))) THEN Bad("ENOBUFS", P, WriteName(q, text))
    ELSE Good(WithLength(P, Advance(WriteName(q, text), Len(Comp(text, q)))))
PushSrv(P, v) ==
    IF ~HasRoom(P, 8) THEN Bad("ENOBUFS", P, P)
    ELSE PushTarget(P, Put(Skip(P, 2), FlattenSeq([i \in 1 .. 3 |-> Octets16(v.nums[i])])),
                    v.names[1])

\* dns_sshfp_push(): algorithm and type, then a digest of a type that is known.
PushDigest(P, q, v) ==
    IF v.nums[2] # 1 THEN Bad("EILLEGAL", P, q)
    ELSE IF ~HasRoom(q, Len(v.octets)) THEN Bad("ENOBUFS", P, q)
    ELSE Good(WithLength(P, Put(q, v.octets)))
PushSshfp(P, v) ==
    IF ~HasRoom(P, 4) THEN Bad("ENOBUFS", P, P) ELSE PushDigest(P, Put(Skip(P, 2), v.nums), v)

\* dns_txt_push(): RDLENGTH, then strings of at most MaxChunk octets, each after
\* its length, for as long as there is room.
RECURSIVE PutChunks(_, _, _)
PutChunk(P, q, o, n) ==
    IF ~HasRoom(q, 1) THEN Bad("ENOBUFS", P, q)
    ELSE IF ~HasRoom(q, 1 + n) THEN Bad("ENOBUFS", P, Put(q, <<n>>))
    ELSE PutChunks(P, Put(q, <<n>> \o SubSeq(o, 1, n)), SubSeq(o, n + 1, Len(o)))
PutChunks(P, q, o) ==
    IF o = <<>> THEN Good(q) ELSE PutChunk(P, q, o, IF Len(o) < MaxChunk THEN Len(o) ELSE MaxChunk)
PushTxt(P, v) ==
    LET n == Len(v.octets) + (Len(v.octets) + MaxChunk - 1) \div MaxChunk
    IN  IF ~HasRoom(P, 2) THEN Bad("ENOBUFS", P, P)
        ELSE PutChunks(P, Put(P, Octets16(n)), v.octets)

\* dns_any_push(): by type; dns_opt_push() writes nothing, not even RDLENGTH.
AnyPush(P, type, v) ==
    CASE type \in {"A", "AAAA"} -> PushAddress(P, v)
      [] type \in Names -> PushNs(P, v)
      [] type = "MX" -> PushMx(P, v)
      [] type = "SOA" -> PushSoa(P, v)
      [] type = "SRV" -> PushSrv(P, v)
      [] type = "SSHFP" -> PushSshfp(P, v)
      [] type \in {"TXT", "SPF"} -> PushTxt(P, v)
      [] type = "OPT" -> Good(P)
      [] OTHER -> PushAddress(P, v)

\* dns_any_parse(): rd is where RDATA begins, len its length; illegal ones have
\* no value.
Illegal == Val(<<>>, <<>>, <<-1>>)
Named(names, nums) == IF <<>> \in Range(names) THEN Illegal ELSE Val(nums, names, <<>>)
OneName(P, rd, nums) == Named(<<DExpand(P, rd)>>, nums)
ParseAddress(P, rd, len, n) ==
    IF len # n THEN Illegal ELSE Val(<<>>, <<>>, Slice(P.data, rd, n))
ParseNs(P, rd) == OneName(P, rd, <<>>)
ParseMx(P, rd, len) ==
    IF len < 3 THEN Illegal ELSE OneName(P, rd + 2, <<Number16(P.data, rd)>>)
SoaAt(P, rd, second, times) ==
    IF rd >= End(P) \/ second >= End(P) \/ times >= End(P) \/ times + 20 > End(P) THEN Illegal
    ELSE Named(<<DExpand(P, rd), DExpand(P, second)>>,
               [i \in 1 .. 5 |-> Slice(P.data, times + 4 * (i - 1), 4)])
ParseSoa(P, rd, len) == SoaAt(P, rd, DSkip(P, rd), DSkip(P, DSkip(P, rd)))
ParseSrv(P, rd, len) ==
    IF len < 7 THEN Illegal
    ELSE OneName(P, rd + 6, [i \in 1 .. 3 |-> Number16(P.data, rd + 2 * (i - 1))])
ParseSshfp(P, rd, len, digest) ==
    IF len < 2 \/ (Octet(P.data, rd + 1) = 1 /\ len < 2 + digest) THEN Illegal
    ELSE Val(Slice(P.data, rd, 2), <<>>,
             IF Octet(P.data, rd + 1) = 1 THEN Slice(P.data, rd + 2, digest) ELSE <<>>)
RECURSIVE Unchunk(_)
Unchunk(o) ==
    IF o = <<>> THEN <<>>
    ELSE IF Len(Tail(o)) < Head(o) THEN <<-1>>
    ELSE SubSeq(o, 2, 1 + Head(o)) \o Unchunk(SubSeq(o, 2 + Head(o), Len(o)))
ParseTxt(P, rd, len) ==
    LET o == Unchunk(Slice(P.data, rd, len))
    IN  IF -1 \in Range(o) THEN Illegal ELSE Val(<<>>, <<>>, o)

AnyParse(P, type, rd, len) ==
    CASE type = "A" -> ParseAddress(P, rd, len, 4)
      [] type = "AAAA" -> ParseAddress(P, rd, len, 16)
      [] type \in Names -> ParseNs(P, rd)
      [] type = "MX" -> ParseMx(P, rd, len)
      [] type = "SOA" -> ParseSoa(P, rd, len)
      [] type = "SRV" -> ParseSrv(P, rd, len)
      [] type = "SSHFP" -> ParseSshfp(P, rd, len, 20)
      [] type \in {"TXT", "SPF"} -> ParseTxt(P, rd, len)
      [] type = "OPT" -> NoVal
      [] OTHER -> Val(<<>>, <<>>, Slice(P.data, rd, len))

\* dns_any_cmp(), as a sign: the first field that differs decides.
FirstDiffers(a, b) ==
    LET at == {i \in DOMAIN a \cap DOMAIN b : a[i] # b[i]}
    IN  IF at = {} THEN 0 ELSE CHOOSE i \in at : \A j \in at : i <= j
CmpSeq(a, b) ==
    LET i == FirstDiffers(a, b) IN IF i = 0 THEN Len(a) - Len(b) ELSE a[i] - b[i]
CmpAll(a, b) == LET i == FirstDiffers(a, b) IN IF i = 0 THEN 0 ELSE CmpSeq(a[i], b[i])
CmpNames(a, b) == CmpAll([i \in DOMAIN a |-> Lower(a[i])], [i \in DOMAIN b |-> Lower(b[i])])
Else(c, d) == IF c # 0 THEN c ELSE d
CmpAddress(a, b) == CmpSeq(a.octets, b.octets)
CmpMx(a, b) == Else(CmpSeq(a.nums, b.nums), CmpNames(a.names, b.names))
CmpNs(a, b) == CmpNames(a.names, b.names)
CmpSoa(a, b) == Else(CmpNames(a.names, b.names), CmpAll(b.nums, a.nums))  \* later first
CmpSrv(a, b) == Else(CmpSeq(a.nums, b.nums), CmpNames(a.names, b.names))
CmpSshfp(a, b) == Else(CmpSeq(a.nums, b.nums), CmpSeq(a.octets, b.octets))
CmpTxt(a, b) == -1                                                        \* always
AnyCmp(type, a, b) ==
    CASE type \in {"A", "AAAA"} -> CmpAddress(a, b)
      [] type \in Names -> CmpNs(a, b)
      [] type = "MX" -> CmpMx(a, b)
      [] type = "SOA" -> CmpSoa(a, b)
      [] type = "SRV" -> CmpSrv(a, b)
      [] type = "SSHFP" -> CmpSshfp(a, b)
      [] type = "OPT" -> 0
      [] OTHER -> CmpTxt(a, b)

\* dns_any_cname(): the name in the record, of the types that have one.
AnyCname(type, v) == IF type \in Names \cup {"MX", "SRV"} THEN v.names[1] ELSE <<>>
=============================================================================
