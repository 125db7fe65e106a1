------------------------------ MODULE Resolver ------------------------------
(***************************************************************************)
(* dns_res_*() of dns.c: the machine that answers one question, as a stub  *)
(* (it asks a recursive server) or by iterating from hints.  It keeps a    *)
(* stack of frames: a frame that needs the address of a name server, the   *)
(* target of an alias, or the host of a mail exchanger pushes a frame for  *)
(* it.  A step is one case of the switch in dns_res_exec() on the top      *)
(* frame.  A packet is its question and the set of its records; what a     *)
(* server answers is a choice; dns_so_*() is the module DnsSocket.         *)
(***************************************************************************)
EXTENDS Integers, Sequences, FiniteSets

CONSTANTS MaxDepth,        \* DNS_R_MAXDEPTH
          Attempts,        \* resconf->options.attempts
          Search,          \* names dns_resconf_search() makes of R->qname
          Lookups,         \* the values of resconf->lookup to consider
          MaxReferrals     \* bound: referrals that servers give

ASSUME ResAssumption ==
    /\ MaxDepth \in Nat \ {0} /\ Attempts \in Nat /\ MaxReferrals \in Nat
    /\ Search \in Seq(STRING) /\ Search # <<>>
    /\ Lookups \subseteq Seq(STRING)

VARIABLES stack, sp,       \* the frames
          search,          \* R->search: candidates taken
          nodata,          \* R->nodata
          smarts,          \* R->smart: exchangers looked at
          setup,            \* recurse, smart, lookup; qtype of the question
          err,             \* an error dns_res_exec() returned for good
          referrals        \* given so far

resVars == <<stack, sp, search, nodata, smarts, setup, err, referrals>>

Null == [q |-> <<"null", "null">>, rrs |-> {}, ns |-> {}, aa |-> FALSE, rc |-> "null"]
NoQuery == <<"null", "null">>
Packet(q, rrs) == [q |-> q, rrs |-> rrs, ns |-> {}, aa |-> FALSE, rc |-> "ok"]
RR(n, t, to, sec) == [name |-> n, type |-> t, to |-> to, sec |-> sec]
Of(p, n, t) == {r \in p.rrs : r.name = n /\ r.type = t}
InAnswer(rrs) == {r \in rrs : r.sec = "AN"}

\* dns_res_merge(): the records of both, those that are the same once.
Merge(p0, p1) == [p0 EXCEPT !.rrs = @ \cup p1.rrs]

\* dns_res_reset_frame(), and the query of a frame that is pushed.
Frame(q) ==
    [st |-> "GLUE", tier |-> 0, attempts |-> 0, query |-> q, asked |-> q,
     answer |-> Null, ns |-> {}, glued |-> {}, todo |-> {}, cur |-> "none",
     tried |-> FALSE, saved |-> {}]

\* dns_res_submit2(): everything is reset; frame 0 has no query yet.
ResInit ==
    /\ stack = [i \in 0 .. MaxDepth - 1 |-> Frame(NoQuery)]
    /\ sp = 0 /\ search = 0 /\ nodata = Null /\ smarts = {}
    /\ setup \in [recurse : BOOLEAN, smart : BOOLEAN, lookup : Lookups, qtype : {"A", "MX"}]
    /\ setup.smart <=> setup.qtype = "MX"
    /\ err = "none" /\ referrals = 0

F == stack[sp]
qname == Search[1]
Become(s) == stack' = [stack EXCEPT ![sp].st = s]
Keep(s, f) == stack' = [stack EXCEPT ![sp] = [f EXCEPT !.st = s]]
In(s) == F.st = s /\ err = "none"
Push(s, q) ==
    /\ stack' = [stack EXCEPT ![sp].st = s, ![sp + 1] = Frame(q)]
    /\ sp' = sp + 1
Fail(e) == err' = e /\ UNCHANGED <<stack, sp, search, nodata, smarts, setup, referrals>>
Rest == UNCHANGED <<setup, err, referrals>>
Room == sp + 1 < MaxDepth

\* dns_res_glue(): the records for the question, or else its alias, from the
\* answers of all frames.
Glue(q) ==
    LET all == UNION {stack[i].answer.rrs : i \in 0 .. sp}
        hit(t) == {r \in all : r.name = q[1] /\ r.type = t}
        rrs == IF hit(q[2]) # {} THEN hit(q[2]) ELSE hit("CNAME")
    IN  IF rrs = {} THEN Null ELSE Packet(q, {[r EXCEPT !.sec = "AN"] : r \in rrs})

\* Where an answer for the frame's question leads: to the end, or to an alias.
Found(p, q) == InAnswer(Of(p, q[1], q[2])) # {}
Aliased(p, q) == InAnswer(Of(p, q[1], "CNAME")) # {}

GlueStep ==
    /\ In("GLUE")
    /\ IF sp = 0 THEN Become("SWITCH") /\ UNCHANGED <<sp, search, nodata, smarts>> /\ Rest
       ELSE IF F.query = NoQuery THEN Fail("noquery")
       ELSE /\ LET g == Glue(F.query)
               IN  Keep(CASE g = Null -> "SWITCH"
                          [] Found(g, F.query) -> "FINISH"
                          [] OTHER -> "CNAME0_A",
                        [F EXCEPT !.answer = g])
            /\ UNCHANGED <<sp, search, nodata, smarts>> /\ Rest

\* SWITCH: the next of (B)IND, (F)ILE, (C)ACHE, for a resolver that has a cache;
\* any other letter is passed over, so that of the criteria nssconf puts there
\* only 'C' (CONTINUE) counts, as a cache.  When there is none, the first
\* unsatisfactory answer, or SERVFAIL.
Methods == [b |-> "BIND", f |-> "FILE", c |-> "CACHE", C |-> "CACHE"]
Ahead == {i \in F.tier + 1 .. Len(setup.lookup) : setup.lookup[i] \in DOMAIN Methods}
Switch ==
    /\ In("SWITCH")
    /\ IF Ahead # {}
       THEN LET i == CHOOSE i \in Ahead : \A j \in Ahead : i <= j
            IN  Keep(Methods[setup.lookup[i]], [F EXCEPT !.tier = i]) /\ UNCHANGED nodata
       ELSE IF sp = 0 /\ nodata # Null
       THEN Keep("FINISH", [F EXCEPT !.answer = nodata]) /\ nodata' = Null
       ELSE Become("SERVFAIL") /\ UNCHANGED nodata
    /\ UNCHANGED <<sp, search, smarts>> /\ Rest

\* FILE: the hosts database, for the frame's question or for every candidate of
\* the search list in turn.
File(hit) ==
    /\ In("FILE")
    /\ IF sp > 0
       THEN /\ UNCHANGED search
            /\ IF hit > 0 THEN Keep("FINISH", [F EXCEPT !.answer =
                                  Packet(F.query, {RR(F.query[1], F.query[2], "addr", "AN")})])
               ELSE Keep("SWITCH", [F EXCEPT !.answer = Null])
       ELSE IF hit \in 1 .. Len(Search)
       THEN /\ search' = hit
            /\ Keep("FINISH", [F EXCEPT !.answer =
                  Packet(<<Search[hit], setup.qtype>>, {RR(Search[hit], setup.qtype, "addr", "AN")})])
       ELSE search' = Len(Search) /\ Keep("SWITCH", [F EXCEPT !.answer = Null])
    /\ UNCHANGED <<sp, nodata, smarts>> /\ Rest

\* CACHE, SUBMIT, CHECK, FETCH: the application's cache has it, or has not.
Cache(hit) ==
    /\ In("CACHE")
    /\ LET q == IF F.query = NoQuery THEN <<qname, setup.qtype>> ELSE F.query
       IN  IF hit > 0 THEN Keep("FINISH", [F EXCEPT !.query = q,
                               !.answer = Packet(q, {RR(q[1], q[2], "addr", "AN")})])
           ELSE Keep("SWITCH", [F EXCEPT !.query = q, !.answer = Null])
    /\ UNCHANGED <<sp, search, nodata, smarts>> /\ Rest

\* BIND: the question of a pushed frame goes out as it is ...
BindSearches ==   \* mutant: the search list in every frame
    /\ In("BIND")
    /\ search' = IF sp = 0 THEN 0 ELSE search
    /\ Become("SEARCH")
    /\ UNCHANGED <<sp, nodata, smarts>> /\ Rest
Bind ==
    /\ In("BIND")
    /\ IF sp = 0 THEN /\ search' = 0 /\ Become("SEARCH")
                      /\ UNCHANGED <<sp, nodata, smarts>> /\ Rest
       ELSE IF F.query = NoQuery THEN Fail("noquery")
       ELSE Become("HINTS") /\ UNCHANGED <<sp, search, nodata, smarts>> /\ Rest

\* ... that of frame 0 with the next suffix.  A stub comes here from QUERY_A in
\* a pushed frame too, which then asks the first question again.
SearchStep ==
    /\ In("SEARCH")
    /\ IF search < Len(Search)
       THEN /\ search' = search + 1
            /\ Keep("HINTS", [F EXCEPT !.query = <<Search[search + 1], setup.qtype>>])
       ELSE Become("SWITCH") /\ UNCHANGED search
    /\ UNCHANGED <<sp, nodata, smarts>> /\ Rest

\* HINTS, ITERATE: the name servers of the hints, which have their addresses;
\* those with glue come first.
Hints ==
    /\ In("HINTS")
    /\ Keep("FOREACH_NS", [F EXCEPT !.ns = {"root"}, !.glued = {"root"}, !.todo = {"root"}])
    /\ UNCHANGED <<sp, search, nodata, smarts>> /\ Rest

\* dns_res_nameserv_cmp(): those with glue before those without.
First(todo, glued) == IF todo \cap glued # {} THEN todo \cap glued ELSE todo

\* FOREACH_NS: the next name server; when there is none, the next attempt.
ForeachNSAgain ==   \* mutant: attempts are not counted
    /\ In("FOREACH_NS") /\ F.todo = {}
    /\ Keep("FOREACH_NS", [F EXCEPT !.todo = F.ns])
    /\ UNCHANGED <<sp, search, nodata, smarts>> /\ Rest
ForeachNS ==
    /\ In("FOREACH_NS")
    /\ IF F.todo = {}
       THEN IF F.attempts + 1 < Attempts
            THEN Keep("FOREACH_NS", [F EXCEPT !.attempts = @ + 1, !.todo = F.ns])
            ELSE Keep("SWITCH", [F EXCEPT !.attempts = @ + 1])
       ELSE \E n \in First(F.todo, F.glued) :
               Keep("FOREACH_A", [F EXCEPT !.saved = F.todo, !.todo = @ \ {n},
                                           !.cur = n, !.tried = FALSE])
    /\ UNCHANGED <<sp, search, nodata, smarts>> /\ Rest

\* FOREACH_A: the next address of that server; without any, it is looked up.
ForeachA ==
    /\ In("FOREACH_A")
    /\ IF F.cur \in F.glued /\ ~F.tried THEN Keep("QUERY_A", [F EXCEPT !.tried = TRUE])
       ELSE IF F.tried THEN Become("FOREACH_NS") ELSE Become("RESOLV0_NS")
    /\ UNCHANGED <<sp, search, nodata, smarts>> /\ Rest

Resolv0NS ==
    /\ In("RESOLV0_NS")
    /\ IF Room THEN Push("RESOLV1_NS", <<F.cur, "A">>)
               ELSE Become("FOREACH_NS") /\ UNCHANGED sp
    /\ UNCHANGED <<search, nodata, smarts>> /\ Rest

\* RESOLV1_NS: addresses of the name the pushed frame asked for become glue, and
\* the iteration goes back to this server.
Resolv1NS ==
    /\ In("RESOLV1_NS")
    /\ LET c == stack[sp + 1] IN
       IF c.answer = Null \/ c.query = NoQuery THEN Fail("nullref")
       ELSE /\ Keep("FOREACH_NS",
                    IF Of(c.answer, c.query[1], "A") = {} THEN F
                    ELSE [F EXCEPT !.glued = IF c.query[1] = F.cur THEN @ \cup {F.cur} ELSE @,
                                   !.todo = F.saved])
            /\ UNCHANGED <<sp, search, nodata, smarts>> /\ Rest

\* QUERY_A: no answer in time, or an answer.
QueryTimesOut ==
    /\ In("QUERY_A")
    /\ Become("FOREACH_A")
    /\ UNCHANGED <<sp, search, nodata, smarts>> /\ Rest
QueryA(p) ==
    /\ In("QUERY_A")
    /\ p.q = F.query                      \* what dns_so_verify() sees to
    /\ p.ns # {} => referrals < MaxReferrals
    /\ referrals' = IF p.ns # {} THEN referrals + 1 ELSE referrals
    /\ IF Found(p, F.query)
       THEN Keep("FINISH", [F EXCEPT !.answer = p]) /\ UNCHANGED nodata
       ELSE IF Aliased(p, F.query)
       THEN Keep("CNAME0_A", [F EXCEPT !.answer = p]) /\ UNCHANGED nodata
       ELSE IF ~setup.recurse
       THEN IF nodata = Null
            THEN nodata' = p /\ Keep("SEARCH", [F EXCEPT !.answer = Null])
            ELSE UNCHANGED nodata /\ Keep("SEARCH", [F EXCEPT !.answer = p])
       ELSE /\ UNCHANGED nodata
            /\ IF p.ns # {}
               THEN Keep("FOREACH_NS", [F EXCEPT !.answer = Null, !.ns = p.ns, !.todo = p.ns,
                            !.glued = {n \in p.ns : Of(p, n, "A") # {}}])
               ELSE Keep(IF p.aa THEN "FINISH" ELSE "FOREACH_A", [F EXCEPT !.answer = p])
    /\ UNCHANGED <<sp, search, smarts, setup, err>>

\* CNAME0_A, CNAME1_A: the target of the alias is looked up, and the answers are
\* merged; a chain that is too long ends here.
Cname0A ==
    /\ In("CNAME0_A")
    /\ IF Room
       THEN \E r \in InAnswer(Of(F.answer, F.query[1], "CNAME")) : Push("CNAME1_A", <<r.to, F.query[2]>>)
       ELSE Become("FINISH") /\ UNCHANGED sp
    /\ UNCHANGED <<search, nodata, smarts>> /\ Rest
Cname1A ==
    /\ In("CNAME1_A")
    /\ LET c == stack[sp + 1] IN
       IF c.answer = Null \/ F.answer = Null THEN Fail("nullref")
       ELSE /\ Keep("FINISH", [F EXCEPT !.answer = Merge(@, c.answer)])
            /\ UNCHANGED <<sp, search, nodata, smarts>> /\ Rest

\* FINISH, SMART0_A, SMART1_A: with the smart option, the address of each mail
\* exchanger in the answer, or of the name itself when there is none.
Finish ==
    /\ In("FINISH")
    /\ IF F.answer = Null THEN Fail("noanswer")
       ELSE /\ Become(IF setup.smart /\ sp = 0 THEN "SMART0_A" ELSE "DONE")
            /\ smarts' = IF setup.smart /\ sp = 0 THEN {} ELSE smarts
            /\ UNCHANGED <<sp, search, nodata>> /\ Rest
Exchangers == {r.to : r \in {r \in InAnswer(F.answer.rrs) : r.type = "MX"}}
Smart0A ==
    /\ In("SMART0_A")
    /\ IF Room /\ Exchangers \ smarts # {}
       THEN \E m \in Exchangers \ smarts :
               Push("SMART1_A", <<m, "A">>) /\ smarts' = smarts \cup {m}
       ELSE IF Room /\ setup.qtype = "MX" /\ smarts = {}
       THEN Push("SMART1_A", <<qname, "A">>) /\ smarts' = {qname}
       ELSE Become("DONE") /\ UNCHANGED <<sp, smarts>>
    /\ UNCHANGED <<search, nodata>> /\ Rest
Smart1A ==
    /\ In("SMART1_A")
    /\ LET c == stack[sp + 1] IN
       IF c.answer = Null THEN Fail("noanswer")
       ELSE /\ Keep("SMART0_A", [F EXCEPT !.answer.rrs = @ \cup
                    {[r EXCEPT !.sec = "AR"] : r \in {r \in InAnswer(c.answer.rrs) : r.type = "A"}}])
            /\ UNCHANGED <<sp, search, nodata, smarts>> /\ Rest

\* DONE: back to the frame below, which reads this one's question and answer and
\* no more of it; SERVFAIL: an answer that says so, for the question of frame 0.
Done ==
    /\ In("DONE") /\ sp > 0
    /\ IF F.answer = Null THEN Fail("noanswer")
       ELSE /\ sp' = sp - 1
            /\ stack' = [stack EXCEPT ![sp] = [Frame(F.query) EXCEPT !.answer = F.answer]]
            /\ UNCHANGED <<search, nodata, smarts>> /\ Rest
ServFail ==
    /\ In("SERVFAIL")
    /\ Keep("DONE", [F EXCEPT !.answer =
          [Packet(<<qname, setup.qtype>>, {}) EXCEPT !.rc = "servfail"]])
    /\ UNCHANGED <<sp, search, nodata, smarts>> /\ Rest

\* What a server may answer: the records, an alias, with its target's records
\* or without, a referral, with glue or without, or nothing.
Alias(n) == IF n = "c1" THEN "c2" ELSE "c1"
Value(t) == IF t = "MX" THEN "mx" ELSE "addr"
Replies(q) ==
    LET n == q[1] t == q[2]
        alias == RR(n, "CNAME", Alias(n), "AN")
        refer(hosts, glue) ==
            [Packet(q, {RR(h, "A", "addr", "AR") : h \in glue}) EXCEPT !.ns = hosts]
    IN  {Packet(q, {RR(n, t, Value(t), "AN")}), Packet(q, {alias}),
         Packet(q, {alias, RR(Alias(n), t, Value(t), "AN")}),
         Packet(q, {}), [Packet(q, {}) EXCEPT !.aa = TRUE],
         refer({"n1"}, {}), refer({"n1", "n2"}, {"n2"})}

Ask == \E p \in Replies(F.query) : QueryA(p)

Exec ==
    \/ GlueStep \/ Switch \/ Bind \/ SearchStep \/ Hints \/ ForeachNS \/ ForeachA
    \/ Resolv0NS \/ Resolv1NS \/ QueryTimesOut \/ Cname0A \/ Cname1A
    \/ Finish \/ Smart0A \/ Smart1A \/ Done \/ ServFail
    \/ \E hit \in 0 .. Len(Search) : File(hit) \/ Cache(hit)
ResNext == Exec \/ (In("QUERY_A") /\ Ask)

ResSpec == ResInit /\ [][ResNext]_resVars
-----------------------------------------------------------------------------
\* Every frame that asks has a question, and one that is done an answer, through
\* pushes, pops, moves of answers to nodata and to hints, and the depth limit:
\* dns_res_exec() never fails with DNS_ENOQUERY or DNS_ENOANSWER, nor follows a
\* null pointer.  And an answer is for what was asked: that of frame 0 for a
\* candidate of the search list, that of a pushed frame for the question it was
\* pushed with, except when a stub searches in it (the XXX at dns.c:6783), or it
\* is SERVFAIL.
AnswersItsQuestion ==
    /\ err = "none"
    /\ F.st = "DONE" =>
        IF sp = 0 \/ F.answer.rc = "servfail" \/ (~setup.recurse /\ F.answer.q # F.asked)
        THEN \E i \in DOMAIN Search : F.answer.q = <<Search[i], setup.qtype>>
        ELSE F.answer.q = F.asked
=============================================================================
