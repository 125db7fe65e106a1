------------------------------ MODULE DnsHints ------------------------------
(***************************************************************************)
(* dns_hints_*() of dns.c: the name servers known for each zone, which     *)
(* answer the resolver's first question, "who could know?".  A name is a   *)
(* sequence of labels, the root the empty one.  dns_k_shuffle16() under    *)
(* the seed of an iteration is any order of the slots without ties (the    *)
(* module Permutor shows it has none).                                     *)
(***************************************************************************)
EXTENDS Integers, Sequences, FiniteSets

CONSTANTS HintZones,      \* zones that hints are inserted for
          HintAddrs,      \* addresses with their ports
          HintPris,       \* priorities
          ServerLists,    \* nameserver[] of a resolv.conf, with its rotate option
          HintSlots,      \* lengthof(soa->addrs), 16
          MaxInserts      \* bound: addresses inserted

ASSUME HintsAssumption ==
    /\ HintSlots \in Nat \ {0} /\ HintPris \subseteq Nat
    /\ \A name \in HintZones : name \in Seq({name[i] : i \in DOMAIN name})
    /\ \A list \in ServerLists :
          /\ list.servers \in Seq({list.servers[i] : i \in DOMAIN list.servers})
          /\ list.rotate \in BOOLEAN

VARIABLES soas,           \* H->head, newest zone first
          given,          \* the addresses inserted, in order
          resconf,        \* nameservers still to insert, rotate, and the priority p
          hintsAt,        \* what is under way: "open" for none, "local", "query", "answered"
          query,          \* the name asked about
          level,          \* i.zone is the name without its first level - 1 labels
          shuffled,       \* the order of the slots under i.state.seed
          p0, pZ, slot,   \* of the scan for the next slot: after p0, the least so far, at slot
          offered         \* the answer: levels and slots

iterVars == <<query, level, shuffled, p0, pZ, slot, offered>>
hintsVars == <<soas, given, resconf, hintsAt, iterVars>>

Orders == {f \in [1 .. HintSlots -> 1 .. HintSlots] :
              \A i, j \in 1 .. HintSlots : f[i] = f[j] => i = j}
NoServers == [servers |-> <<>>, rotate |-> FALSE, p |-> 1]
NoSeed == [i \in 1 .. HintSlots |-> i]

HintsInit ==
    /\ soas = <<>> /\ given = <<>> /\ resconf = NoServers /\ hintsAt = "open"
    /\ query = <<>> /\ level = 1 /\ shuffled = NoSeed
    /\ p0 = 0 /\ pZ = 0 /\ slot = 1 /\ offered = <<>>

\* dns_hints_fetch(): 0 when the zone has none.
FirstOf(is) == IF is = {} THEN 0 ELSE CHOOSE i \in is : \A j \in is : i <= j
Fetch(zone) == FirstOf({k \in DOMAIN soas : soas[k].zone = zone})

\* dns_hints_insert(): into the next slot, or once all are taken the first one: the
\* count, whose remainder is the slot, stays at the limit.
InsertHint(zone, addr, pri) ==
    LET k == Fetch(zone)
        h == [addr |-> addr, pri |-> IF pri < 1 THEN 1 ELSE pri]
    IN  /\ soas' = IF k = 0 THEN <<[zone |-> zone, addrs |-> <<h>>]>> \o soas
                   ELSE IF Len(soas[k].addrs) < HintSlots
                   THEN [soas EXCEPT ![k].addrs = Append(@, h)]
                   ELSE [soas EXCEPT ![k].addrs[1] = h]
        /\ given' = Append(given, [zone |-> zone, addr |-> addr, pri |-> pri])
AddHint(zone, addr, pri) ==
    /\ hintsAt = "open" /\ Len(given) < MaxInserts
    /\ InsertHint(zone, addr, pri)
    /\ UNCHANGED <<resconf, hintsAt, iterVars>>

\* dns_hints_insert_resconf(), as dns_hints_local() calls it: the servers of resolv.conf,
\* for the root, with falling priority unless they rotate.
HintsLocal(list) ==
    /\ hintsAt = "open" /\ Len(given) + Len(list.servers) <= MaxInserts
    /\ resconf' = [servers |-> list.servers, rotate |-> list.rotate, p |-> 1]
    /\ hintsAt' = "local"
    /\ UNCHANGED <<soas, given, iterVars>>
InsertServer ==
    /\ hintsAt = "local" /\ resconf.servers # <<>>
    /\ InsertHint(<<>>, Head(resconf.servers), resconf.p)
    /\ resconf' = [resconf EXCEPT !.servers = Tail(@), !.p = IF resconf.rotate THEN @ ELSE @ + 1]
    /\ UNCHANGED <<hintsAt, iterVars>>
LocalDone ==
    /\ hintsAt = "local" /\ resconf.servers = <<>>
    /\ resconf' = NoServers /\ hintsAt' = "open"
    /\ UNCHANGED <<soas, given, iterVars>>

\* The servers of a zone, and of the zone that is so many levels up.
AddrsOf(zone) == IF Fetch(zone) = 0 THEN <<>> ELSE soas[Fetch(zone)].addrs
AddrsAt(n) == AddrsOf(SubSeq(query, n, Len(query)))

\* dns_hints_i_cmp(): better priority, then the order of this iteration.
HintBefore(a, b) ==
    LET pri(i) == AddrsAt(level)[i].pri
    IN  pri(a) < pri(b) \/ (pri(a) = pri(b) /\ shuffled[a] < shuffled[b])

\* dns_hints_query() for the zone of a name, and dns_hints_i_init() for each zone.
HintsIInit == shuffled' \in Orders /\ p0' = 0 /\ pZ' = 0 /\ slot' = 1
HintsQuery(name) ==
    /\ hintsAt = "open" /\ hintsAt' = "query"
    /\ query' = name /\ level' = 1 /\ HintsIInit
    /\ UNCHANGED <<soas, given, resconf, offered>>

\* A turn of the loops of dns_hints_i_start() and dns_hints_i_skip(): the least slot,
\* and the least after p0.
HintsScan_ties ==
    /\ hintsAt = "query" /\ slot <= Len(AddrsAt(level))
    /\ pZ' = IF /\ p0 = 0 \/ AddrsAt(level)[p0].pri < AddrsAt(level)[slot].pri
                /\ pZ = 0 \/ HintBefore(slot, pZ)
             THEN slot ELSE pZ
    /\ slot' = slot + 1
    /\ UNCHANGED <<soas, given, resconf, hintsAt, query, level, shuffled, p0, offered>>
HintsScan ==
    /\ hintsAt = "query" /\ slot <= Len(AddrsAt(level))
    /\ pZ' = IF (p0 = 0 \/ HintBefore(p0, slot)) /\ (pZ = 0 \/ HintBefore(slot, pZ))
             THEN slot ELSE pZ
    /\ slot' = slot + 1
    /\ UNCHANGED <<soas, given, resconf, hintsAt, query, level, shuffled, p0, offered>>

\* dns_hints_grep(): the slot found is offered, and the scan goes on after it.
HintsGrep ==
    /\ hintsAt = "query" /\ slot > Len(AddrsAt(level)) /\ pZ # 0
    /\ offered' = Append(offered, <<level, pZ>>)
    /\ p0' = pZ /\ pZ' = 0 /\ slot' = 1
    /\ UNCHANGED <<soas, given, resconf, hintsAt, query, level, shuffled>>

\* The zone above, up to the root.
HintsCleave ==
    /\ hintsAt = "query" /\ slot > Len(AddrsAt(level)) /\ pZ = 0
    /\ IF level <= Len(query) THEN level' = level + 1 /\ HintsIInit /\ UNCHANGED hintsAt
       ELSE hintsAt' = "answered" /\ UNCHANGED <<level, shuffled, p0, pZ, slot>>
    /\ UNCHANGED <<soas, given, resconf, query, offered>>
HintsReturn ==
    /\ hintsAt = "answered" /\ hintsAt' = "open"
    /\ query' = <<>> /\ level' = 1 /\ shuffled' = NoSeed
    /\ p0' = 0 /\ pZ' = 0 /\ slot' = 1 /\ offered' = <<>>
    /\ UNCHANGED <<soas, given, resconf>>

\* dns_hints_port(): the port of the first hint for an address, whatever its zone.
HintsPort(addr) ==
    LET s == FirstOf({k \in DOMAIN soas :
                         \E p \in DOMAIN soas[k].addrs : soas[k].addrs[p].addr[1] = addr})
        h == soas[s].addrs[FirstOf({p \in DOMAIN soas[s].addrs : soas[s].addrs[p].addr[1] = addr})]
    IN  IF s = 0 \/ h.addr[2] = 0 THEN 53 ELSE h.addr[2]

HintsNext ==
    \/ \E zone \in HintZones, addr \in HintAddrs, pri \in HintPris : AddHint(zone, addr, pri)
    \/ \E list \in ServerLists : HintsLocal(list)
    \/ InsertServer \/ LocalDone
    \/ \E name \in HintZones : HintsQuery(name)
    \/ HintsScan \/ HintsGrep \/ HintsCleave \/ HintsReturn
HintsSpec == HintsInit /\ [][HintsNext]_hintsVars
-----------------------------------------------------------------------------
\* The insertions for a zone, and the slot that each went to: the next one while
\* there are any, then the first.
InsertedFor(zone) == {i \in DOMAIN given : given[i].zone = zone}
SlotOf(i) == LET n == Cardinality({j \in InsertedFor(given[i].zone) : j <= i})
             IN  IF n <= HintSlots THEN n ELSE 1
Stays(i) == \A j \in InsertedFor(given[i].zone) : SlotOf(j) = SlotOf(i) => j <= i
HintOf(g) == [addr |-> g.addr, pri |-> IF g.pri < 1 THEN 1 ELSE g.pri]

\* What is known for a zone is what was inserted for it and not replaced.
KeepsGiven ==
    /\ \A i \in DOMAIN given :
          Stays(i) => /\ SlotOf(i) \in DOMAIN AddrsOf(given[i].zone)
                      /\ AddrsOf(given[i].zone)[SlotOf(i)] = HintOf(given[i])
    /\ \A k \in DOMAIN soas : \A p \in DOMAIN soas[k].addrs :
          \E i \in InsertedFor(soas[k].zone) : SlotOf(i) = p /\ Stays(i)

\* The answer to a query has every server of every zone the name is in, each once;
\* nearer zones first, in a zone better priorities first.
OffersAll ==
    LET places == UNION {{n} \X DOMAIN AddrsAt(n) : n \in 1 .. Len(query) + 1}
        pri(o) == AddrsAt(o[1])[o[2]].pri
    IN  /\ {offered[i] : i \in DOMAIN offered} = places
        /\ \A i, j \in DOMAIN offered : i < j =>
              /\ offered[i] # offered[j]
              /\ \/ offered[i][1] < offered[j][1]
                 \/ offered[i][1] = offered[j][1] /\ pri(offered[i]) <= pri(offered[j])

\* Every server that was given for a zone, and not replaced since, is offered once by
\* a query for a name in it, nearer zones and better priorities first, whatever the
\* seeds; and a server is asked at a port it was given with.
ServersByPriority ==
    /\ KeepsGiven
    /\ hintsAt = "answered" => OffersAll
    /\ \A k \in DOMAIN soas : \A p \in DOMAIN soas[k].addrs :
          LET addr == soas[k].addrs[p].addr[1]
          IN  \E i \in DOMAIN given :
                 /\ given[i].addr[1] = addr
                 /\ HintsPort(addr) = IF given[i].addr[2] = 0 THEN 53 ELSE given[i].addr[2]
=============================================================================
