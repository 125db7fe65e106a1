------------------------------ MODULE DnsPacket ------------------------------
(***************************************************************************)
(* A DNS packet (dns_p_*, dns_rr_* and dns_d_cname() of dns.c): records    *)
(* are pushed section by section, read back by an iterator that filters    *)
(* and sorts, copied and merged.  A packet has its octets (the header is   *)
(* 12 of them, its counts are kept apart in cnt), the rest of its buffer,  *)
(* its size, the dictionary of names, and the memo of where each section   *)
(* lies (<<0, 0>> when it is not known).  The machine pushes records into  *)
(* a packet, some of which fail, and lets it grow.                         *)
(***************************************************************************)
EXTENDS DnsRecords

CONSTANTS PacketSize,    \* what dns_p_make() is asked for
          DataOffset,    \* offsetof(struct dns_packet, data)
          FreshOctets,   \* what malloc() and realloc() may have left in a buffer
          Pushes,        \* sets of records to push: [sec, name, type, class, ttl, val]
          MaxRecords     \* bound: pushes

VARIABLES pkt,           \* the packet
          offered,       \* the set of records of this behaviour
          kept,          \* history: the records whose push returned 0, and where
          torn,          \* history: those pushed over a name that a failed push left
          tries          \* pushes so far

packetVars == <<pkt, offered, kept, torn, tries>>

Sections == <<"QD", "AN", "NS", "AR">>
Index(sec) == CHOOSE i \in 1 .. 4 : Sections[i] = sec
After(sec) == {Sections[i] : i \in Index(sec) + 1 .. 4}
NotQD == {"AN", "NS", "AR"}
HeaderSize == 12

Code == [A |-> 1, NS |-> 2, CNAME |-> 5, SOA |-> 6, PTR |-> 12, MX |-> 15, TXT |-> 16,
         AAAA |-> 28, SRV |-> 33, OPT |-> 41, SSHFP |-> 44, SPF |-> 99, other |-> 200]
TypeOf(code) == CHOOSE t \in DOMAIN Code : Code[t] = code

\* dns_p_make() and dns_p_init(), over octets that are fresh.
NoMemo == [s \in {"QD", "AN", "NS", "AR"} |-> <<0, 0>>]
Make(size, fresh) ==
    [data |-> [i \in 1 .. HeaderSize |-> 0], past |-> [i \in 1 .. size - HeaderSize |-> fresh],
     size |-> size, dict |-> <<>>,
     cnt |-> [s \in {"QD", "AN", "NS", "AR"} |-> 0], memo |-> NoMemo]
\* dns_p_grow(): the next power of 2 above what the octets, not the buffer, take;
\* it may be less than there was.
RECURSIVE PowerAbove(_, _)
PowerAbove(p, n) == IF p > n THEN p ELSE PowerAbove(2 * p, n)
Resized(P, size, fresh) ==
    [P EXCEPT !.size = size,
              !.past = [i \in 1 .. size - End(P) |-> IF i \in DOMAIN @ THEN @[i] ELSE fresh]]
Grow(P, fresh) == Resized(P, PowerAbove(1, DataOffset + End(P)), fresh)

\* dns_p_count()
RECURSIVE Count(_, _)
Count(P, secs) ==
    IF secs = {} THEN 0
    ELSE LET s == CHOOSE x \in secs : TRUE IN P.cnt[s] + Count(P, secs \ {s})

\* dns_p_qend(): the end of the questions.
RECURSIVE QEndFrom(_, _, _)
QEndFrom(P, at, n) ==
    LET name == DSkip(P, at)
    IN  IF n = 0 \/ at >= End(P) THEN at
        ELSE IF End(P) - name < 4 THEN End(P)
        ELSE QEndFrom(P, name + 4, n - 1)
QEnd(P) == QEndFrom(P, HeaderSize, P.cnt["QD"])

\* dns_rr_len(), dns_rr_skip()
AtMost(P, end) == IF end > End(P) THEN End(P) ELSE end
RRSkipName(P, name) ==
    IF name <= QEnd(P) \/ name > End(P) THEN AtMost(P, name)
    ELSE IF name + 6 > End(P) THEN End(P)
    ELSE AtMost(P, name + 6 + Number16(P.data, name + 4))
RRSkip(P, src) == RRSkipName(P, DSkip(P, src) + 4)

\* dns_p_study(): the sections one after the other, by their counts.
RECURSIVE SkipRecords(_, _, _)
SkipRecords(P, at, n) == IF n = 0 \/ at >= End(P) THEN at ELSE SkipRecords(P, RRSkip(P, at), n - 1)
Between(ends) == [s \in {"QD", "AN", "NS", "AR"} |-> <<ends[Index(s)], ends[Index(s) + 1]>>]
Memo(P) == Between(FoldLeft(LAMBDA ends, s : Append(ends, SkipRecords(P, Last(ends), P.cnt[s])),
                            <<HeaderSize>>, Sections))
Study(P) == [P EXCEPT !.memo = Memo(P)]

\* dns_p_push(): sections are filled in their order; the memo follows.
Follow_stale(P, sec, m) ==
    [P EXCEPT !.cnt[sec] = @ + 1, !.memo = [m EXCEPT ![sec] = <<m[sec][1], End(P)>>]]
Follow(P, sec, m) ==
    [P EXCEPT !.cnt[sec] = @ + 1,
       !.memo = [s \in DOMAIN m |->
                    IF s = sec THEN <<m[s][1], End(P)>>
                    ELSE IF s \in After(sec) THEN <<End(P), End(P)>> ELSE m[s]]]
Pushed(P, sec) == Follow(P, sec, IF P.memo[sec][1] = 0 THEN Memo(P) ELSE P.memo)
PushBody(P, r) ==
    IF r.sec = "QD" THEN Good(P)
    ELSE IF ~HasRoom(P, 6) THEN Bad("ENOBUFS", P, P)
    ELSE AnyPush(Put(P, [r.ttl EXCEPT ![1] = @ % 128]), r.type, r.val)
PushType(P, r) ==
    IF ~HasRoom(P, 4) THEN Bad("ENOBUFS", P, P)
    ELSE PushBody(Put(P, Octets16(Code[r.type]) \o Octets16(r.class)), r)
PushEnd(P0, P, sec) ==
    IF Count(P0, After(sec)) > 0 THEN Bad("EORDER", P0, P) ELSE Good(Pushed(P, sec))
PPush(P, r) ==
    Then(DPush(P, r.name), P,
         LAMBDA d : Then(PushType(d, r), P, LAMBDA b : PushEnd(P, b, r.sec)))

\* dns_rr_section(): by the memo, or else by counting.
RECURSIVE Before(_, _, _)
Before(P, at, src) == IF at >= src THEN 0 ELSE 1 + Before(P, RRSkip(P, at), src)
InMemo(P, s, src) == P.memo[s][1] <= src /\ src < P.memo[s][2]
UptoSection(P, s) == Count(P, Range(Sections) \ After(s))
FirstWith(test(_)) == Sections[CHOOSE i \in 1 .. 4 :
                         test(Sections[i]) /\ \A j \in 1 .. i - 1 : ~test(Sections[j])]
RRSection(P, src) ==
    IF \E s \in Range(Sections) : InMemo(P, s, src) THEN FirstWith(LAMBDA s : InMemo(P, s, src))
    ELSE FirstWith(LAMBDA s : Before(P, HeaderSize, src) < UptoSection(P, s))

\* dns_rr_parse(), with the section; what is illegal is skipped by all callers.
RRAt(P, src, p) ==
    [at |-> src, sec |-> RRSection(P, src), type |-> TypeOf(Number16(P.data, p)),
     class |-> Number16(P.data, p + 2),
     ttl |-> IF src < QEnd(P) THEN <<0, 0, 0, 0>>
             ELSE [Slice(P.data, p + 4, 4) EXCEPT ![1] = @ % 128],
     rd |-> p + 10, len |-> IF src < QEnd(P) THEN 0 ELSE Number16(P.data, p + 8)]
RRParse(P, src) == RRAt(P, src, DSkip(P, src))
LegalAt(P, src, p) ==
    /\ src < End(P) /\ End(P) - p >= 4
    /\ src < QEnd(P) \/ (End(P) - p >= 10 /\ End(P) - (p + 10) >= Number16(P.data, p + 8))
Legal(P, src) == LegalAt(P, src, DSkip(P, src))
ValueOf(P, rr) == AnyParse(P, rr.type, rr.rd, rr.len)

\* dns_rr_cmp()
CmpValues(type, v0, v1) ==
    IF v0 = Illegal THEN -1 ELSE IF v1 = Illegal THEN 1 ELSE AnyCmp(type, v0, v1)
CmpOwners(n0, n1) ==
    IF n0 = <<>> THEN -1 ELSE IF n1 = <<>> THEN 1
    ELSE IF SameText(n0, n1) THEN 0 ELSE CmpSeq(Lower(n0), Lower(n1))
CmpQuestions(s0, s1) == IF s0 = s1 THEN 0 ELSE IF s0 = "QD" THEN -1 ELSE 1
RRCmp(P0, r0, P1, r1) ==
    Else(Code[r0.type] - Code[r1.type], Else(r0.class - r1.class,
        Else(CmpOwners(DExpand(P0, r0.at), DExpand(P1, r1.at)),
             IF "QD" \in {r0.sec, r1.sec} THEN CmpQuestions(r0.sec, r1.sec)
             ELSE CmpValues(r0.type, ValueOf(P0, r0), ValueOf(P1, r1)))))

\* The records of a packet as the iterators walk over them, and dns_rr_i_match().
RECURSIVE WalkFrom(_, _)
WalkFrom(P, at) ==
    IF at >= End(P) THEN <<>>
    ELSE (IF Legal(P, at) THEN <<RRParse(P, at)>> ELSE <<>>) \o WalkFrom(P, RRSkip(P, at))
Each == [secs |-> {"QD", "AN", "NS", "AR"}, type |-> "all", name |-> <<>>, sort |-> "packet"]
Matches(P, i, rr) ==
    /\ rr.sec \in i.secs
    /\ i.type \in {"all", rr.type}
    /\ i.name = <<>> \/ SameText(DExpand(P, rr.at), i.name)

\* dns_rr_i_packet(), dns_rr_i_order(): how the iterator sorts.
ICmp(P, i, a, b) ==
    CASE i.sort = "packet" -> a.at - b.at
      [] a.sec # b.sec -> Index(a.sec) - Index(b.sec)
      [] a.type # b.type -> a.at - b.at
      [] OTHER -> RRCmp(P, a, P, b)

\* dns_rr_i_start(): in the packet's order the first, else a least one; it starts
\* at the first section that is asked for and known.
IStartAt(P, i) ==
    LET secs == {n \in 1 .. 4 : Sections[n] \in i.secs /\ P.memo[Sections[n]][1] # 0}
    IN  IF secs = {} THEN HeaderSize
        ELSE P.memo[Sections[CHOOSE n \in secs : \A m \in secs : n <= m]][1]
Least(P, i, rrs) ==
    IF rrs = <<>> THEN <<>>
    ELSE IF i.sort = "packet" THEN <<Head(rrs)>>
    ELSE <<FoldLeft(LAMBDA r0, rr : IF ICmp(P, i, rr, r0) < 0 THEN rr ELSE r0, Head(rrs), Tail(rrs))>>
IStart(P, i) ==
    Least(P, i, SelectSeq(WalkFrom(P, IStartAt(P, i)), LAMBDA rr : Matches(P, i, rr)))

\* dns_rr_i_skip(): the least of those that are greater than r0.
ISkip(P, i, r0) ==
    Least(P, i, SelectSeq(WalkFrom(P, IF i.sort = "packet" THEN RRSkip(P, r0.at) ELSE HeaderSize),
                          LAMBDA rr : Matches(P, i, rr) /\ ICmp(P, i, rr, r0) > 0))

\* dns_rr_grep(), called to the end: at most lim records.
RECURSIVE GrepFrom(_, _, _, _)
GrepFrom(P, i, rr, lim) ==
    IF rr = <<>> \/ lim = 0 THEN <<>> ELSE rr \o GrepFrom(P, i, ISkip(P, i, rr[1]), lim - 1)
Grep(P, i, lim) == GrepFrom(P, i, IStart(P, i), lim)
All(P) == Grep(P, Each, 2 * Count(P, Range(Sections)))

\* dns_rr_copy(): the record as it reads, pushed to another packet.
Reads(P, rr) ==
    [sec |-> rr.sec, name |-> DExpand(P, rr.at), type |-> rr.type, class |-> rr.class,
     ttl |-> rr.ttl, val |-> IF rr.sec = "QD" THEN NoVal ELSE ValueOf(P, rr)]

\* dns_p_merge(): section by section A's records, then those of B that are not
\* in M yet; a packet that is too small is made anew, twice as large.
CopyInto(m, r) == IF m.error # "0" THEN m ELSE PPush(m.P, r)
CopyNew(B, m, rr) ==
    IF m.error # "0" THEN m
    ELSE IF \E r1 \in Range(All(m.P)) : RRCmp(B, rr, m.P, r1) = 0 THEN m
    ELSE PPush(m.P, Reads(B, rr))
SectionOf(P, s) == Grep(P, [Each EXCEPT !.secs = {s}], P.cnt[s])
MergeSection(A, B, m, s) ==
    FoldLeft(LAMBDA x, rr : CopyNew(B, x, rr),
             FoldLeft(LAMBDA x, rr : CopyInto(x, Reads(A, rr)), m, SectionOf(A, s)), SectionOf(B, s))
RECURSIVE MergeInto(_, _, _)
Again(A, B, size, m) == IF m.error = "ENOBUFS" THEN MergeInto(A, B, 2 * size) ELSE m
MergeInto(A, B, size) ==
    Again(A, B, size, FoldLeft(LAMBDA m, s : MergeSection(A, B, m, s), Good(Make(size, 0)), Sections))
Merged(A, B) == MergeInto(A, B, End(A) + End(B))

\* dns_d_cname(): the end of the chain of aliases, at most 7 of them.
RECURSIVE CnameFrom(_, _, _)
CnameFrom(P, host, depth) ==
    LET rr == Grep(P, [Each EXCEPT !.secs = NotQD, !.name = host, !.type = "CNAME"], 1)
    IN  IF depth = 7 \/ rr = <<>> THEN host
        ELSE CnameFrom(P, ValueOf(P, rr[1]).names[1], depth + 1)
Cname(P, host) == CnameFrom(P, Anchor(host), 0)

PacketInit ==
    /\ \E o \in FreshOctets : pkt = Make(PacketSize, o)
    /\ offered \in Pushes /\ kept = <<>> /\ torn = {} /\ tries = 0

\* A dictionary entry that lies behind the end is one that a failed push left.
Stale(P, end) == \E x \in Range(P.dict) : End(P) <= x /\ x < end
Kept(P, r) ==
    /\ pkt' = P
    /\ kept' = Append(kept, r)
    /\ torn' = IF Stale(pkt, End(P)) THEN torn \cup {Len(kept) + 1} ELSE torn
PushRecord(r) ==
    /\ tries < MaxRecords
    /\ tries' = tries + 1 /\ UNCHANGED offered
    /\ LET res == PPush(pkt, r)
       IN  IF res.error = "0" THEN Kept(res.P, r) ELSE pkt' = res.P /\ UNCHANGED <<kept, torn>>
GrowPacket ==
    /\ pkt.size = PacketSize
    /\ \E o \in FreshOctets : pkt' = Grow(pkt, o)
    /\ UNCHANGED <<offered, kept, torn, tries>>

PacketNext == GrowPacket \/ \E r \in offered : PushRecord(r)
-----------------------------------------------------------------------------
\* Two records say the same: names up to case, a TTL of 31 bits.
SameNames(a, b) == Len(a) = Len(b) /\ \A i \in DOMAIN a : SameText(a[i], b[i])
SameValue(type, v, w) ==
    /\ SameNames(v.names, w.names) /\ v.octets = w.octets
    /\ v.nums = IF type = "SOA" THEN SoaTimes(w) ELSE w.nums
SameHead(got, put) ==
    /\ got.sec = put.sec /\ SameText(got.name, put.name)
    /\ got.type = put.type /\ got.class = put.class
    /\ put.sec # "QD" => got.ttl = [put.ttl EXCEPT ![1] = @ % 128]
SameRecord(got, put) ==
    SameHead(got, put) /\ (put.sec # "QD" => SameValue(put.type, got.val, put.val))

\* dns_p_merge() of a packet of the first half of the records with one of all reads
\* as all of them, those of the first half once (but for TXT, never equal to
\* themselves).
Saying(put, got) == SelectSeq(got, LAMBDA g : SameRecord(g, put))
IsUnion(half, M, got) ==
    /\ M.error = "0"
    /\ \A r \in Range(kept) : Saying(r, got) # <<>>
    /\ \A k \in DOMAIN got : \E r \in Range(kept) : SameRecord(got[k], r)
    /\ \A r \in Range(half) : r.type \notin {"TXT", "SPF", "other"} =>
          Len(Saying(r, got)) = Len(SelectSeq(half, LAMBDA h : h = r))
MergeOf(half, M) ==
    IsUnion(half, M, LET rrs == All(M.P) IN [k \in DOMAIN rrs |-> Reads(M.P, rrs[k])])
MergeIsUnion ==
    LET half == SubSeq(kept, 1, Len(kept) \div 2)
    IN  MergeOf(half, Merged(FoldLeft(CopyInto, Good(Make(2 * pkt.size, 0)), half).P, pkt))

\* What is sure of a torn record: all but the names in its value.
SameButNames(got, put) ==
    /\ SameHead(got, put)
    /\ put.type \in Names \cup {"MX", "SOA", "SRV"}
    /\ got.val # Illegal => SameValue(put.type, [got.val EXCEPT !.names = put.val.names], put.val)
ReadsAs(P, rrs) ==
    /\ Len(rrs) = Len(kept)
    /\ \A i \in DOMAIN rrs : \/ SameRecord(Reads(P, rrs[i]), kept[i])
                             \/ i \in torn /\ SameButNames(Reads(P, rrs[i]), kept[i])

SameRR(P, a, b) == a.sec = b.sec /\ RRCmp(P, a, P, b) = 0
VisitsOnce(P, rrs, it) ==
    /\ \A a \in Range(rrs) : \E b \in Range(it) : SameRR(P, a, b)
    /\ \A i, j \in DOMAIN it : i < j => ~SameRR(P, it[i], it[j])
    /\ Range(it) \subseteq Range(rrs)
Records(P, t, sort) ==
    Grep(P, [Each EXCEPT !.secs = NotQD, !.type = t, !.sort = sort], Count(P, NotQD) + 1)
\* A sorted iteration over the records of one type (other than TXT, which compare
\* as less than themselves) visits each once, except that of equal records only
\* the first is seen.
SortedVisits ==
    \A t \in {r.type : r \in Range(kept)} \ {"TXT", "SPF", "other"} :
        VisitsOnce(pkt, Records(pkt, t, "packet"), Records(pkt, t, "order"))

\* The packet reads as what was pushed: each record in its place, whatever names
\* were compressed into pointers to what, and whatever pushes failed half-way in
\* between; the memo is what a study of the octets finds; a merge with a packet of
\* some of the records has all of them; and sorted iterations visit them once.  The
\* one exception is what the code does: a name in the value of a record that was
\* written over a name of a failed push, which the dictionary still has (the
\* dns_*_push() of a name leave RDLENGTH as it was until the name is compressed),
\* may read as another; and no name after it.
PacketKeepsRecords ==
    /\ ReadsAs(pkt, All(pkt))
    /\ kept # <<>> => Memo(pkt) = pkt.memo
    /\ kept # <<>> /\ torn = {} => MergeIsUnion
    /\ SortedVisits
=============================================================================
