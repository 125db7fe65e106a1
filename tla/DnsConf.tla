------------------------------- MODULE DnsConf -------------------------------
(***************************************************************************)
(* The configuration of the resolver (dns.c): dns_resconf_loadfile() reads *)
(* /etc/resolv.conf, dns_nssconf_loadfile() the hosts entry of             *)
(* /etc/nsswitch.conf, dns_nssconf_next() and dns_resconf_search() use it. *)
(* A line of resolv.conf is a sequence of words, an argument with a colon  *)
(* a pair; nsswitch.conf is a sequence of words and of the characters      *)
(* between them.                                                           *)
(***************************************************************************)
EXTENDS Integers, Sequences, SequencesExt

CONSTANTS ResLines, MaxResLines,   \* lines of resolv.conf; bound: how many
          Clauses, MaxClauses,     \* sources with criteria of nsswitch.conf; bound
          LegalAddrs,              \* words that dns_pton() takes
          HostDomain,              \* gethostname() without its first label
          MaxWords,                \* lengthof(words), 6
          MaxServers, MaxSearch,   \* lengthof(nameserver), 3, and (search), 4
          LookupSize,              \* sizeof resconf->lookup, 36
          MaxTokens                \* lengthof(cf->token), 16

VARIABLES conf,       \* the struct dns_resolv_conf, with sa_count of the load
          resFile,    \* the lines of resolv.conf read so far
          nssFile     \* the sources of nsswitch.conf

confVars == <<conf, resFile, nssFile>>

Upto(s, n) == IF Len(s) <= n THEN s ELSE SubSeq(s, 1, n)
Unspec == <<"none", 0>>
AnyAddr == <<"0.0.0.0", 53>>

\* dns_resconf_open()
Defaults ==
    [nameserver |-> [i \in 1 .. MaxServers |-> IF i = 1 THEN AnyAddr ELSE Unspec], count |-> 0,
     search |-> HostDomain, lookup |-> <<"b", "f">>, iface |-> <<"0.0.0.0", 0>>,
     ndots |-> 1, timeout |-> 5, attempts |-> 2, tcp |-> "enable",
     edns0 |-> FALSE, rotate |-> FALSE, recurse |-> FALSE, smart |-> FALSE]

\* dns_resconf_pton(): "addr" or "[addr]:port", port 53 unless given.
Pton(w) == <<w[1], IF w[2] = 0 THEN 53 ELSE w[2]>>

\* The letters of the words of a lookup line, over the front of what is there:
\* the loop ends without a NUL.
Letter == [file |-> "f", bind |-> "b", cache |-> "c"]
Over(new, old) == new \o SubSeq(old, Len(new) + 1, Len(old))
LookupLine(c, args) ==
    LET known == SelectSeq(args, LAMBDA w : w \in DOMAIN Letter)
        taken == Upto(known, LookupSize)
    IN  [c EXCEPT !.lookup = Over([i \in DOMAIN taken |-> Letter[taken[i]]], @)]

\* One word of an options line; "tcp" alone means only.
TcpWord(v) == CASE v \in {"1", "only"} -> "only" [] v \in {"0", "disable"} -> "disable"
                [] v = "enable" -> "enable" [] OTHER -> "same"
Option(c, w) ==
    CASE w[1] \in {"edns0", "rotate", "recurse", "smart"} -> [c EXCEPT ![w[1]] = TRUE]
      [] w[1] \in {"ndots", "timeout", "attempts"} -> [c EXCEPT ![w[1]] = w[2]]
      [] w[1] = "tcp" -> [c EXCEPT !.tcp = IF Len(w) = 1 THEN "only"
                                           ELSE IF TcpWord(w[2]) = "same" THEN @ ELSE TcpWord(w[2])]
      [] OTHER -> c

\* dns_resconf_loadfile(), one line: at most MaxWords words, at least two.
\* dns_resconf_setiface() takes an interface line.
ResLine(c, line) ==
    LET words == Upto(line, MaxWords)
        args == Tail(words)
    IN  CASE Len(words) < 2 -> c
          [] words[1] = "nameserver" /\ c.count < MaxServers /\ args[1][1] \in LegalAddrs ->
               [c EXCEPT !.nameserver[c.count + 1] = Pton(args[1]), !.count = @ + 1]
          [] words[1] \in {"domain", "search"} -> [c EXCEPT !.search = Upto(args, MaxSearch)]
          [] words[1] = "lookup" -> LookupLine(c, args)
          [] words[1] = "options" -> FoldLeft(Option, c, args)
          [] words[1] = "interface" /\ args[1][1] \in LegalAddrs -> [c EXCEPT !.iface = args[1]]
          [] OTHER -> c

\* dns_nssconf_k2c() and dns_nssconf_c2k().
Source2c == [files |-> "f", dns |-> "b", mdns |-> "m"]
Status2c == [success |-> "S", notfound |-> "N", unavail |-> "U", tryagain |-> "T"]
Action2c == [continue |-> "C", return |-> "R"]
Key(map, c) == CHOOSE k \in DOMAIN map \cup {"invalid"} :
                  IF \E j \in DOMAIN map : map[j] = c THEN k # "invalid" /\ map[k] = c ELSE k = "invalid"

\* dns_anyconf_skip(): over the characters of a set; dns_anyconf_scan() takes a word.
Punct == {":", " ", "[", "]", "=", "#", "\n"}
IsWord(t, i) == i <= Len(t) /\ t[i] \notin Punct
RECURSIVE SkipIn(_, _, _)
SkipIn(t, i, set) == IF i <= Len(t) /\ t[i] \in set THEN SkipIn(t, i + 1, set) ELSE i
RECURSIVE SkipTo(_, _, _)
SkipTo(t, i, set) == IF i <= Len(t) /\ t[i] \notin set THEN SkipTo(t, i + 1, set) ELSE i

\* The criteria in brackets: pairs of words, until there is no word; a status
\* without an action, or one more word than there are tokens, is dropped.
RECURSIVE Criteria(_, _, _)
Criteria(t, i, toks) ==
    IF ~IsWord(t, i) THEN <<i, toks>>
    ELSE IF Len(toks) = MaxTokens THEN <<i + 1, toks>>
    ELSE LET j == SkipIn(t, i + 1, {"=", " "})
         IN  IF ~IsWord(t, j) THEN <<SkipTo(t, j, {"#", "]", "\n"}), toks>>
             ELSE IF Len(toks) + 1 = MaxTokens THEN <<SkipTo(t, j + 1, {"#", "]", "\n"}), toks>>
             ELSE Criteria(t, SkipIn(t, j + 1, {" "}), toks \o <<t[i], t[j]>>)

\* What a source and its criteria add to lookup[]: an unknown action is the default.
EncodeEntry_swapped(toks) ==
    LET crit(k) == IF toks[2 * k] \notin DOMAIN Status2c THEN <<>>
                   ELSE <<Status2c[toks[2 * k]],
                          IF toks[2 * k + 1] \in DOMAIN Action2c THEN Action2c[toks[2 * k + 1]]
                          ELSE IF toks[2 * k] = "success" THEN "C" ELSE "R">>
    IN  IF toks[1] \notin DOMAIN Source2c THEN <<>>
        ELSE <<Source2c[toks[1]]>> \o FlattenSeq([k \in 1 .. (Len(toks) - 1) \div 2 |-> crit(k)])
EncodeEntry(toks) ==
    LET crit(k) == IF toks[2 * k] \notin DOMAIN Status2c THEN <<>>
                   ELSE <<Status2c[toks[2 * k]],
                          IF toks[2 * k + 1] \in DOMAIN Action2c THEN Action2c[toks[2 * k + 1]]
                          ELSE IF toks[2 * k] = "success" THEN "R" ELSE "C">>
    IN  IF toks[1] \notin DOMAIN Source2c THEN <<>>
        ELSE <<Source2c[toks[1]]>> \o FlattenSeq([k \in 1 .. (Len(toks) - 1) \div 2 |-> crit(k)])

\* dns_nssconf_loadfile(): the sources of an entry; one that has no room is left out.
RECURSIVE Sources(_, _, _)
Sources(t, i, lookup) ==
    IF ~IsWord(t, i) THEN lookup
    ELSE LET j == SkipIn(t, i + 1, {" "})
             c == IF j <= Len(t) /\ t[j] = "["
                  THEN LET r == Criteria(t, SkipIn(t, j, {"[", " "}), <<t[i]>>)
                       IN  <<SkipIn(t, r[1], {"]", " "}), r[2]>>
                  ELSE <<j, <<t[i]>>>>
         IN  Sources(t, c[1], IF LookupSize - Len(lookup) < Len(c[2]) + 1 THEN lookup
                              ELSE lookup \o EncodeEntry(c[2]))

\* The entries of the file; the last one for hosts counts.
RECURSIVE Entries(_, _, _)
Entries(t, at, lookup) ==
    IF at > Len(t) THEN lookup
    ELSE LET i == SkipIn(t, at, {" ", "\n"})
             j == SkipIn(t, i + 1, {":", " "})
             mine == IsWord(t, i) /\ t[i] = "hosts" /\ j > i + 1
         IN  Entries(t, SkipTo(t, i, {"\n"}) + 1, IF mine THEN Sources(t, j, <<>>) ELSE lookup)
NssLoad(c, t) == LET l == Entries(t, 1, <<>>) IN IF l = <<>> THEN c ELSE [c EXCEPT !.lookup = l]

\* dns_nssconf_next(): one source and what each status of it leads to.
Fresh(s) == [source |-> s, success |-> "return", notfound |-> "continue",
             unavail |-> "continue", tryagain |-> "continue"]
RECURSIVE Rules(_, _, _)
Rules(l, i, src) ==
    IF i + 1 > Len(l) THEN <<i, src>>
    ELSE LET st == Key(Status2c, l[i])  ac == Key(Action2c, l[i + 1])
         IN  IF st = "invalid" \/ ac = "invalid" THEN <<i, src>>
             ELSE Rules(l, i + 2, [src EXCEPT ![st] = ac])
RECURSIVE NssNext(_, _)
NssNext(l, i) ==
    IF i > Len(l) THEN <<>>
    ELSE IF Key(Source2c, l[i]) = "invalid" THEN NssNext(l, i + 1)
    ELSE LET r == Rules(l, i + 1, Fresh(Key(Source2c, l[i]))) IN <<r[2]>> \o NssNext(l, r[1])

\* dns_resconf_search(): the candidate for a state (phase, index, dots), and the next
\* state; "" when there is none.
Candidate(c, q, s) ==
    LET dots == IF s.phase = 0 THEN Len(q) - 1 ELSE s.dots
        own == [phase |-> s.phase + 1, at |-> s.at, dots |-> dots]
    IN  IF s.phase = 0 /\ dots >= c.ndots THEN <<q, own>>
        ELSE IF s.phase <= 1 /\ s.at <= MaxSearch /\ s.at <= Len(c.search)
        THEN <<q \o <<c.search[s.at]>>, [phase |-> 1, at |-> s.at + 1, dots |-> dots]>>
        ELSE IF s.phase <= 2 /\ dots < c.ndots THEN <<q, [own EXCEPT !.phase = 3]>>
        ELSE <<<<>>, [own EXCEPT !.phase = 3]>>
RECURSIVE SearchList(_, _, _)
SearchList(c, q, s) ==
    LET r == Candidate(c, q, s)
    IN  IF r[1] = <<>> THEN <<>> ELSE <<r[1]>> \o SearchList(c, q, r[2])
Candidates(c, q) == SearchList(c, q, [phase |-> 0, at |-> 1, dots |-> 0])

\* The text of nsswitch.conf for a sequence of clauses.
NssText(clauses) ==
    LET crit(p) == <<" ", p[1], "=", p[2]>>
        clause(k) == <<" ", k[1]>> \o (IF Len(k) = 1 THEN <<>> ELSE <<" ", "[">>
                     \o FlattenSeq([i \in 1 .. Len(k) - 1 |-> crit(k[i + 1])]) \o <<"]">>)
    IN  <<"passwd", ":", " ", "files", "\n", "hosts", ":">>
        \o FlattenSeq([i \in DOMAIN clauses |-> clause(clauses[i])]) \o <<"\n">>

\* dns_resconf_local(): resolv.conf, then nsswitch.conf.
ConfInit == conf = Defaults /\ resFile = <<>> /\ nssFile = <<>>
LoadRes(line) ==
    /\ Len(resFile) < MaxResLines /\ nssFile = <<>>
    /\ conf' = ResLine(conf, line) /\ resFile' = Append(resFile, line) /\ UNCHANGED nssFile
LoadNss(clauses) ==
    /\ nssFile = <<>> /\ clauses # <<>>
    /\ conf' = NssLoad(conf, NssText(clauses)) /\ nssFile' = clauses /\ UNCHANGED resFile
ConfNext ==
    \/ \E line \in ResLines : LoadRes(line)
    \/ \E clauses \in SeqOf(Clauses, MaxClauses) :
          Len(clauses) + Len(resFile) <= MaxClauses /\ LoadNss(clauses)
-----------------------------------------------------------------------------
\* What a clause says: of several criteria for a status the last one.
Effect(k) ==
    LET for(st) == {i \in 2 .. Len(k) : k[i][1] = st}
        last(st) == k[CHOOSE i \in for(st) : \A j \in for(st) : j <= i][2]
        rule(st) == IF for(st) = {} \/ last(st) \notin DOMAIN Action2c THEN Fresh(k[1])[st]
                    ELSE last(st)
    IN  [Fresh(k[1]) EXCEPT !.success = rule("success"), !.notfound = rule("notfound"),
                            !.unavail = rule("unavail"), !.tryagain = rule("tryagain")]

\* What comes back from lookup[] is what nsswitch.conf says of each known source,
\* whatever mix of known and unknown words it is written with, as long as it fits.
SourcesAsWritten ==
    LET known == SelectSeq(nssFile, LAMBDA k : k[1] \in DOMAIN Source2c)
        size(k) == 2 * Len(k) - 1
        room == /\ \A i \in DOMAIN nssFile : size(nssFile[i]) <= MaxTokens
                /\ FoldLeft(LAMBDA n, k : n + size(k), 0, nssFile) < LookupSize
    IN  known # <<>> /\ room => NssNext(conf.lookup, 1) = [i \in DOMAIN known |-> Effect(known[i])]

\* A name is tried once as it is and once under each domain of the search list, in
\* the order of the list; as it is first when it has as many dots as ndots says.
SearchesEachOnce ==
    \A n \in 1 .. 4 :
        LET q == [i \in 1 .. n |-> "l"]
            subs == [i \in DOMAIN conf.search |-> q \o <<conf.search[i]>>]
        IN  Candidates(conf, q) = IF n - 1 >= conf.ndots THEN <<q>> \o subs ELSE subs \o <<q>>

\* Both: a lookup asks the sources and tries the names that the files ask for.
ConfAsWritten == SourcesAsWritten /\ SearchesEachOnce
=============================================================================
