---------------------------- MODULE LocalAddress ----------------------------
(***************************************************************************)
(* SocketAddress::local(), any() and the literals (addr.cpp): the address  *)
(* a name stands for on this machine.  A name is an IPv4 literal, an IPv6  *)
(* literal, the name of an interface, or empty for any address.  errno is  *)
(* how the steps talk to each other: 0 says that the address is good.  The *)
(* walk over the interfaces takes one of them per step.                    *)
(***************************************************************************)
EXTENDS Integers, Sequences

CONSTANTS LocalNames,     \* names that are asked for
          Literals,       \* the names that inet_pton() accepts, by family
          IfaceLists,     \* what getifaddrs() may return: [name, family, addr]
          PortLimit,      \* 2^16
          LocalPorts      \* ports that are asked for, as int

ASSUME LocalAssumption ==
    /\ PortLimit \in Nat \ {0} /\ LocalPorts \subseteq Int
    /\ IfaceLists \subseteq Seq([name : STRING, family : STRING, addr : STRING])

VARIABLES called,         \* the call: name, port, mode, interfaces
          lpc,            \* "asked", "walk" or "returned"
          it, seen,       \* the walk: the interface it is at; ipv4 and ipv6, 0 for null
          local           \* what it returned, with errno

localVars == <<called, lpc, it, seen, local>>

IPFamilies == {"AF_INET", "AF_INET6"}
Unset == [family |-> "AF_UNSPEC", port |-> 0, addr |-> "none"]
Answer(a, errno) == [a |-> a, errno |-> errno, gaveUp |-> FALSE]
htons(port) == port % PortLimit

family(a) == a.family
port(a) == a.port
str(a) == IF a.family = "AF_UNSPEC" THEN "<invalid>" ELSE a.addr

\* ipv4FromLiteral(), ipv6FromLiteral()
FromLiteral(f, name, p) ==
    IF name \in Literals[f]
    THEN Answer([family |-> f, port |-> htons(p), addr |-> name], "0")
    ELSE Answer(Unset, "EINVAL")

\* The family a mode prefers, and the other one if the mode allows it.
LocalModes == {"IP_ANY", "IPV4", "IPV6", "IP_PV4", "IP_PV6"}
Preferred(mode) == IF mode \in {"IPV6", "IP_PV6"} THEN "AF_INET6" ELSE "AF_INET"
Otherwise(mode) == IF mode \in {"IPV4", "IP_PV6"} THEN "AF_INET" ELSE "AF_INET6"
Allowed(mode) == {Preferred(mode), Otherwise(mode)}

BadPort(p) == p < 0 \/ p >= PortLimit

ipFromLiteral(name, p, mode) ==
    LET first == FromLiteral(Preferred(mode), name, p)
    IN  IF BadPort(p) THEN Answer(Unset, "EINVAL")
        ELSE IF first.errno = "0" THEN first
        ELSE FromLiteral(Otherwise(mode), name, p)

\* IP_PV6 is IPv6 here, and so is no other mode but IPV6
AnyAddress(p, mode) ==
    IF BadPort(p) THEN Answer(Unset, "EINVAL")
    ELSE Answer([family |-> Preferred(mode), port |-> htons(p), addr |-> "any"], "0")

LocalInit ==
    /\ called = [name |-> "", port |-> 0, mode |-> "IP_ANY", ifaces |-> <<>>]
    /\ lpc = "asked" /\ it = 1 /\ seen = [f \in IPFamilies |-> 0]
    /\ local = Answer(Unset, "EINVAL")

AnswerWith(a) == lpc' = "returned" /\ local' = a

\* The call, up to getifaddrs(): no name and a literal are answered at once, and no
\* interfaces at all are an exception.
AskLocal(name, p, mode, ifaces) ==
    /\ lpc = "asked"
    /\ called' = [name |-> name, port |-> p, mode |-> mode, ifaces |-> ifaces]
    /\ IF name = "" THEN AnswerWith(AnyAddress(p, mode))
       ELSE IF ipFromLiteral(name, p, mode).errno = "0"
       THEN AnswerWith(ipFromLiteral(name, p, mode))
       ELSE IF ifaces = <<>> THEN AnswerWith([Answer(Unset, "0") EXCEPT !.gaveUp = TRUE])
       ELSE lpc' = "walk" /\ local' = ipFromLiteral(name, p, mode)
    /\ UNCHANGED <<it, seen>>

\* The walk over the interfaces, until both families are found.
Walking ==
    /\ lpc = "walk" /\ it <= Len(called.ifaces)
    /\ \E f \in IPFamilies : seen[f] = 0
Fits == called.ifaces[it].name = called.name /\ called.ifaces[it].family \in IPFamilies

SkipInterface ==
    /\ Walking /\ ~Fits
    /\ it' = it + 1
    /\ UNCHANGED <<called, lpc, seen, local>>

\* an interface is asserted to have but one address of a family
SeeInterface ==
    /\ Walking /\ Fits
    /\ LET f == called.ifaces[it].family
       IN IF seen[f] = 0
          THEN seen' = [seen EXCEPT ![f] = it] /\ it' = it + 1 /\ UNCHANGED <<lpc, local>>
          ELSE AnswerWith([local EXCEPT !.gaveUp = TRUE]) /\ UNCHANGED <<it, seen>>
    /\ UNCHANGED called

\* The families of the mode that were found; the port is not looked at again.
ChooseFamily ==
    /\ lpc = "walk" /\ ~Walking
    /\ LET f == IF seen[Preferred(called.mode)] # 0 THEN Preferred(called.mode)
                ELSE Otherwise(called.mode)
       IN AnswerWith(IF seen[f] = 0 THEN Answer(Unset, "ENODEV")
                 ELSE Answer([family |-> f, port |-> htons(called.port),
                              addr |-> called.ifaces[seen[f]].addr], "0"))
    /\ UNCHANGED <<called, it, seen>>

LocalNext ==
    \/ \E name \in LocalNames, p \in LocalPorts, mode \in LocalModes, ifaces \in IfaceLists :
          AskLocal(name, p, mode, ifaces)
    \/ SkipInterface \/ SeeInterface \/ ChooseFamily

LocalSpec == LocalInit /\ [][LocalNext]_localVars
-----------------------------------------------------------------------------
\* What the call's name stands for in a family: a literal only itself, unless the
\* port is none; any other name the addresses of the interfaces of that name.
Denotes(f) ==
    IF called.name = "" THEN (IF BadPort(called.port) THEN {} ELSE {"any"})
    ELSE IF ~BadPort(called.port) /\ \E g \in Allowed(called.mode) : called.name \in Literals[g]
    THEN {called.name} \cap Literals[f]
    ELSE {called.ifaces[i].addr : i \in {i \in DOMAIN called.ifaces :
             called.ifaces[i].name = called.name /\ called.ifaces[i].family = f}}

\* SocketAddress::local() says by errno what the address says by itself; the
\* address is one the name has, in the family the mode prefers among those it has
\* any in, with the port that was asked for; and it gives up (an exception, or a
\* failed assertion) only without interfaces, or on one with several addresses of
\* one family.
LocalAsAsked ==
    lpc = "returned" =>
        LET fams == {f \in Allowed(called.mode) : Denotes(f) # {}}
            best == IF Preferred(called.mode) \in fams THEN Preferred(called.mode)
                    ELSE Otherwise(called.mode)
        IN  IF local.gaveUp
            THEN \/ called.ifaces = <<>>
                 \/ \E i, j \in DOMAIN called.ifaces : i # j /\ \E f \in IPFamilies :
                       \A k \in {i, j} : /\ called.ifaces[k].name = called.name
                                         /\ called.ifaces[k].family = f
            ELSE /\ local.errno = "0" <=> family(local.a) # "AF_UNSPEC"
                 /\ local.errno = "0" <=> fams # {}
                 /\ local.errno = "0" =>
                       /\ family(local.a) = best /\ str(local.a) \in Denotes(best)
                       /\ port(local.a) = htons(called.port)
                       /\ ~BadPort(called.port) => port(local.a) = called.port
=============================================================================
