------------------------------ MODULE DnsHosts ------------------------------
(***************************************************************************)
(* dns_hosts_*() of dns.c: /etc/hosts is read once into a list, which      *)
(* answers A, AAAA and PTR questions.  A line is a sequence of words; a    *)
(* comment character ends a word and is a word of its own, "#", whatever   *)
(* it is followed by.  Names are compared without case, so a name stands   *)
(* for all its spellings; one may be written without its final dot.        *)
(***************************************************************************)
EXTENDS Integers, Sequences, FiniteSets

CONSTANTS HostLines,     \* lines a file may have
          MaxHostLines,  \* bound: lines of a file
          MaxAnswers     \* records that fit into the 512 bytes of an answer

HostWords == [af : {"v4", "v6", "none"}, text : STRING, dot : BOOLEAN]
ASSUME HostsAssumption == HostLines \subseteq Seq(HostWords)

VARIABLES hostsFile,     \* the lines read so far
          hostsList      \* hosts->head .. hosts->tail

hostsVars == <<hostsFile, hostsList>>

Address(af, a) == [af |-> af, text |-> a, dot |-> FALSE]
Name(n, dot) == [af |-> "none", text |-> n, dot |-> dot]
Comment == Name("#", FALSE)

\* dns_d_anchor() of a word.
Anchored(w) == [w EXCEPT !.dot = TRUE]

\* dns_hosts_insert(): at the tail, with the name of the address under in-addr.arpa
\* or ip6.arpa, which tells addresses apart (dns_a_arpa(), dns_aaaa_arpa()).
Entry(addr, host, alias) ==
    [host |-> Anchored(host), arpa |-> addr, af |-> addr.af, addr |-> addr, alias |-> alias]

\* dns_hosts_loadfile(), one line: a comment ends it, an illegal address skips it,
\* each word after the address is a name, the first the canonical one.
WordCount(line) == CHOOSE n \in 0 .. Len(line) : /\ \A i \in 1 .. n : line[i] # Comment
                                                /\ (n = Len(line) \/ line[n + 1] = Comment)
NamesOf(line) == IF WordCount(line) = 0 \/ line[1].af = "none" THEN 0 ELSE WordCount(line) - 1
LoadLine_allalias(list, line) ==
    list \o [i \in 1 .. NamesOf(line) |-> Entry(line[1], line[i + 1], FALSE)]
LoadLine(list, line) ==
    list \o [i \in 1 .. NamesOf(line) |-> Entry(line[1], line[i + 1], i > 1)]

\* dns_hosts_query(): the entries whose data is pushed into the answer, in the order
\* of the list; too many are an error.
Answering(e, name, type) ==
    CASE type = "PTR" -> ~e.alias /\ e.arpa = name
      [] type = "AAAA" -> e.af = "v6" /\ e.host = name
      [] type = "A" -> e.af = "v4" /\ e.host = name
      [] OTHER -> FALSE
HostsQuery(name, type) ==
    LET hits == {i \in DOMAIN hostsList : Answering(hostsList[i], name, type)}
    IN  IF Cardinality(hits) > MaxAnswers THEN [error |-> TRUE, entries |-> {}]
        ELSE [error |-> FALSE, entries |-> hits]

\* dns_hosts_open() and dns_hosts_local().
HostsInit == hostsFile = <<>> /\ hostsList = <<>>
LoadHosts(line) ==
    /\ Len(hostsFile) < MaxHostLines
    /\ hostsFile' = Append(hostsFile, line)
    /\ hostsList' = LoadLine(hostsList, line)
HostsNext == \E line \in HostLines : LoadHosts(line)
HostsSpec == HostsInit /\ [][HostsNext]_hostsVars
-----------------------------------------------------------------------------
Mentions(line, addr, name) ==
    \E i \in 2 .. Len(line) : /\ line[1] = addr /\ addr.af # "none" /\ Anchored(line[i]) = name
                              /\ \A j \in 1 .. i : line[j] # Comment
Said(line) == {line[i] : i \in DOMAIN line}
Known == UNION {Said(line) : line \in HostLines}
AddrsIn(r) == {hostsList[i].addr : i \in r.entries}

\* A name has the addresses of the lines that mention it before a comment, however
\* it is spelled there; an address has one name for each line that gives it any, and
\* that name has the address: reverse and forward lookups agree.
HostsAgree ==
    /\ \A name \in {Anchored(w) : w \in Known}, t \in {"A", "AAAA"} :
          LET r == HostsQuery(name, t)
              af == IF t = "A" THEN "v4" ELSE "v6"
          IN  ~r.error => AddrsIn(r) = {a \in Known : a.af = af /\ \E k \in DOMAIN hostsFile :
                                                        Mentions(hostsFile[k], a, name)}
    /\ \A a \in {w \in Known : w.af # "none"} :
          LET r == HostsQuery(a, "PTR")
              lines == {k \in DOMAIN hostsFile :
                           \E n \in Known : Mentions(hostsFile[k], a, Anchored(n))}
          IN  ~r.error =>
              /\ Cardinality(r.entries) = Cardinality(lines)
              /\ \A i \in r.entries :
                    LET f == HostsQuery(hostsList[i].host, IF a.af = "v4" THEN "A" ELSE "AAAA")
                    IN  ~f.error => a \in AddrsIn(f)
=============================================================================
