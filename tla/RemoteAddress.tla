---------------------------- MODULE RemoteAddress ----------------------------
(***************************************************************************)
(* SocketAddress::remote() (addr.cpp) over dns_ai_nextent() and the shared *)
(* configuration objects of dns.c, called by coroutines on several         *)
(* threads.  The first caller loads the three objects into globals, one    *)
(* after the other; every resolver holds a reference to each.  What the    *)
(* resolver does in between is the module Resolver: here a check says      *)
(* EAGAIN, fails, or leaves an answer with some addresses.                 *)
(***************************************************************************)
EXTENDS Integers, FiniteSets

CONSTANTS Lookers,      \* coroutines, each making one call
          MaxAddrs      \* bound: addresses in an answer

ASSUME LookersAssumption == IsFiniteSet(Lookers)

VARIABLES conf, hosts, hints,   \* the globals: which load made them, 0 for null
          refs,         \* reference counts of what has been loaded
          loads,        \* loads of the configuration so far
          rpc,          \* where the call is
          uses,         \* the objects its resolver has references to
          addrs,        \* addresses the answer has left, -1 before it is there
          ents,         \* addrinfo entries it has allocated and not freed
          ipv4,         \* one of them is kept
          found,        \* ai->found
          ret           \* what it returned

remoteVars == <<conf, hosts, hints, refs, loads, rpc, uses, addrs, ents,
                ipv4, found, ret>>
globals == <<conf, hosts, hints, loads>>

Kinds == {"conf", "hosts", "hints"}
Objects == Kinds \X (1 .. Cardinality(Lookers))
Modes == {"IPV4", "IPV6", "IP_PV4", "IP_PV6"}

RemoteInit ==
    /\ conf = 0 /\ hosts = 0 /\ hints = 0 /\ loads = 0
    /\ refs = [o \in Objects |-> 0]
    /\ rpc = [c \in Lookers |-> "start"]
    /\ uses = [c \in Lookers |-> {}]
    /\ addrs = [c \in Lookers |-> -1]
    /\ ents = [c \in Lookers |-> 0]
    /\ ipv4 = [c \in Lookers |-> FALSE]
    /\ found = [c \in Lookers |-> 0]
    /\ ret = [c \in Lookers |-> "none"]

At(c, p) == rpc[c] = p
Goto(c, p) == rpc' = [rpc EXCEPT ![c] = p]
Returns(c, r) == Goto(c, "returned") /\ ret' = [ret EXCEPT ![c] = r]
aiVars == <<addrs, ents, ipv4, found>>

\* ipFromLiteral(): the name is an address, or it must be looked up; then the
\* globals are loaded unless the first of them is there already.
Literal(c) ==
    /\ At(c, "start")
    /\ Returns(c, "address")
    /\ UNCHANGED <<globals, refs, uses, aiVars>>
CheckLoaded(c) ==
    /\ At(c, "start")
    /\ Goto(c, IF conf = 0 THEN "conf" ELSE "open")
    /\ UNCHANGED <<globals, refs, uses, aiVars, ret>>

\* dns_resconf_local(), dns_hosts_local(), dns_hints_local(): new objects with
\* one reference; the last takes and drops one to the first.
LoadConf(c) ==
    /\ At(c, "conf")
    /\ loads' = loads + 1 /\ conf' = loads + 1
    /\ refs' = [refs EXCEPT ![<<"conf", loads + 1>>] = 1]
    /\ Goto(c, "hosts")
    /\ UNCHANGED <<hosts, hints, uses, aiVars, ret>>
LoadHosts(c) ==
    /\ At(c, "hosts")
    /\ \E g \in 1 .. loads : /\ refs[<<"hosts", g>>] = 0 /\ hosts' = g
                             /\ refs' = [refs EXCEPT ![<<"hosts", g>>] = 1]
    /\ Goto(c, "hints")
    /\ UNCHANGED <<conf, hints, loads, uses, aiVars, ret>>
LoadHints(c) ==
    /\ At(c, "hints")
    /\ \E g \in 1 .. loads : /\ refs[<<"hints", g>>] = 0 /\ hints' = g
                             /\ refs' = [refs EXCEPT ![<<"hints", g>>] = 1]
    /\ Goto(c, "open")
    /\ UNCHANGED <<conf, hosts, loads, uses, aiVars, ret>>

\* dns_res_open(): references are taken early, and all three must be there;
\* otherwise they are dropped again and SUIL_ASSERT(resolver) ends the program.
\* dns_ai_open() takes a second reference to the resolver and remote() drops the
\* first, so that dns_ai_close() drops the last.
Loaded == {o \in {<<"conf", conf>>, <<"hosts", hosts>>, <<"hints", hints>>} : o[2] # 0}
TakingNot(o) == IF o[1] = "hosts" THEN refs[o] ELSE refs[o] + 1   \* mutant
Taking(o) == refs[o] + 1
ResOpen(c) ==
    /\ At(c, "open")
    /\ IF Cardinality(Loaded) = Cardinality(Kinds)
       THEN /\ refs' = [o \in Objects |-> IF o \in Loaded THEN Taking(o) ELSE refs[o]]
            /\ uses' = [uses EXCEPT ![c] = Loaded]
            /\ Goto(c, "loop")
            /\ UNCHANGED <<addrs, ents, ipv4, found>>
       ELSE Goto(c, "aborted") /\ UNCHANGED <<refs, uses, aiVars>>
    /\ UNCHANGED <<globals, ret>>

\* dns_ai_nextent(): the check says EAGAIN, which leads to fdwait; fails, and the
\* loop calls it again; or there is an answer.
NextAgain(c) ==
    /\ At(c, "loop") /\ addrs[c] = -1
    /\ Goto(c, "wait")
    /\ UNCHANGED <<globals, refs, uses, aiVars, ret>>
NextFails(c) ==
    /\ At(c, "loop") /\ addrs[c] = -1
    /\ UNCHANGED remoteVars
NextAnswered(c, n) ==
    /\ At(c, "loop") /\ addrs[c] = -1
    /\ addrs' = [addrs EXCEPT ![c] = n]
    /\ UNCHANGED <<globals, refs, uses, rpc, ents, ipv4, found, ret>>
WaitOver(c) ==
    /\ At(c, "wait")
    /\ \/ Goto(c, "loop") /\ UNCHANGED ret
       \/ Returns(c, "timeout")            \* and ai is never closed
    /\ UNCHANGED <<globals, refs, uses, aiVars>>

\* FOREACH_I: an entry for the next address (dns_ai_setent()); the first is kept,
\* the others are freed.  The question is for A records: ipv6 stays null.
SetEnt(c) == found' = [found EXCEPT ![c] = @ + 1]
NextEntry(c) ==
    /\ At(c, "loop") /\ addrs[c] > 0
    /\ addrs' = [addrs EXCEPT ![c] = @ - 1]
    /\ SetEnt(c)
    /\ ipv4' = [ipv4 EXCEPT ![c] = TRUE]
    /\ ents' = [ents EXCEPT ![c] = IF ipv4[c] THEN @ ELSE @ + 1]
    /\ UNCHANGED <<globals, refs, uses, rpc, ret>>

\* DONE: ENOENT ends the loop when there were any; else it is DNS_ENONAME or
\* DNS_EFAIL, now and at every later call, and the loop never ends.
NextDone(c) ==
    /\ At(c, "loop") /\ addrs[c] = 0
    /\ IF found[c] > 0 THEN Goto(c, "choose") ELSE UNCHANGED rpc
    /\ UNCHANGED <<globals, refs, uses, aiVars, ret>>

\* dns_ai_close() drops the resolver, dns_res_close() what the resolver refers to.
ResClose(c) ==
    /\ refs' = [o \in Objects |-> IF o \in uses[c] THEN refs[o] - 1 ELSE refs[o]]
    /\ uses' = [uses EXCEPT ![c] = {}]
AiClose(c) == ResClose(c)

\* The entry is dropped when the mode asks for IPv6 only; all is closed, and the
\* entry freed.
Choose(c, mode) ==
    /\ At(c, "choose")
    /\ ents' = [ents EXCEPT ![c] = 0]
    /\ ipv4' = [ipv4 EXCEPT ![c] = FALSE]
    /\ AiClose(c)
    /\ Returns(c, IF mode = "IPV6" THEN "EADDRNOTAVAIL" ELSE "address")
    /\ UNCHANGED <<globals, addrs, found>>

RemoteStep(c) ==
    \/ CheckLoaded(c) \/ LoadConf(c) \/ LoadHosts(c) \/ LoadHints(c) \/ ResOpen(c)
    \/ NextEntry(c) \/ NextDone(c) \/ \E m \in Modes : Choose(c, m)
\* Only an answer, a datagram or a deadline makes these happen.
RemoteInput(c) ==
    \/ Literal(c) \/ NextAgain(c) \/ NextFails(c) \/ WaitOver(c)
    \/ \E n \in 0 .. MaxAddrs : NextAnswered(c, n)
RemoteNext == \E c \in Lookers : RemoteStep(c) \/ RemoteInput(c)
RemoteSpec == RemoteInit /\ [][RemoteNext]_remoteVars
-----------------------------------------------------------------------------
\* Every object has one reference for the load that made it and one for each
\* resolver in use, through concurrent loads and lookups that end in any order:
\* what a global points to is never freed under a later lookup.
RefsAccounted ==
    /\ \A o \in Objects :
          refs[o] = (IF refs[o] > 0 THEN 1 ELSE 0) + Cardinality({c \in Lookers : o \in uses[c]})
    /\ Loaded \subseteq {o \in Objects : refs[o] > 0}
=============================================================================
