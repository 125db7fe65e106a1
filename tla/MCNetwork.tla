------------------------------ MODULE MCNetwork ------------------------------
(***************************************************************************)
(* The network side: transfer loops, descriptors, the DNS socket, the      *)
(* resolver, addresses and packets, each with what is below it as a        *)
(* choice.  A behaviour is one of a single part, chosen at the start.      *)
(***************************************************************************)
EXTENDS SocketIO, Sockets, DnsSocket, Resolver, Addresses, DnsPacket

VARIABLE which    \* the part of this behaviour

MCSearch == <<"q", "q.s">>
MCLookups == {<<"f", "N", "C", "b">>, <<"b">>}

MCLiterals == [f \in {"AF_INET", "AF_INET6"} |-> IF f = "AF_INET" THEN {"v4"} ELSE {"v6"}]
MCPorts == {-1, 0, 7, 8, 12}
Iface(name, fam, addr) == [name |-> name, family |-> fam, addr |-> addr]
MCIfaces == { <<>>,
    <<Iface("lo", "AF_INET", "l4"), Iface("eth", "AF_PACKET", "mac"), Iface("eth", "AF_INET", "e4"),
      Iface("lo", "AF_INET6", "l6"), Iface("eth", "AF_INET6", "e6")>>,
    <<Iface("eth", "AF_INET6", "e6"), Iface("lo", "AF_INET", "l4"), Iface("eth", "AF_INET6", "f6"),
      Iface("eth", "AF_INET", "e4")>>,
    <<Iface("eth", "AF_INET", "e4"), Iface("eth", "AF_INET6", "e6"), Iface("eth", "AF_INET", "g4")>> }

\* Records whose names share labels, or differ in case, or are the root.
LX == 120
LY == 121
XY == <<LX, Dot, LY, Dot>>
YX == <<LY, Dot, LX, Dot>>
Y == <<LY, Dot>>
UpperX == <<88, Dot>>
Rec(sect, owner, t, v) ==
    [sec |-> sect, name |-> owner, type |-> t, class |-> 1, ttl |-> <<200, 0, 0, 5>>, val |-> v]
Question == Rec("QD", XY, "A", NoVal)
FirstA == Rec("AN", XY, "A", Val(<<>>, <<>>, <<1, 2, 3, 4>>))
OneNS == Rec("NS", UpperX, "NS", Val(<<>>, <<Y>>, <<>>))
Times == <<<<255, 0, 0, 1>>, <<255, 0, 0, 1>>, <<0, 0, 0, 1>>, <<0, 0, 0, 1>>, <<0, 0, 0, 1>>>>
MCPushes ==
    { {Question, FirstA, OneNS,
       Rec("AN", Y, "MX", Val(<<7>>, <<XY>>, <<>>)),
       Rec("AN", Y, "MX", Val(<<5>>, <<YX>>, <<>>)),
       Rec("AN", <<Dot>>, "SOA", Val(Times, <<Y, YX>>, <<>>)),
       Rec("AR", XY, "SRV", Val(<<1, 2, 300>>, <<XY>>, <<>>))},
      {Question, FirstA, OneNS,
       Rec("AN", UpperX, "A", Val(<<>>, <<>>, <<1, 2, 3, 3>>)),
       Rec("AR", XY, "TXT", Val(<<>>, <<>>, <<1, 2, 3, 4, 5>>)),
       Rec("AR", XY, "other", Val(<<>>, <<>>, <<1, 2, 3, 4, 5>>)),
       Rec("AR", XY, "AAAA", Val(<<>>, <<>>, [i \in 1 .. 16 |-> i])),
       Rec("AR", XY, "SSHFP", Val(<<1, 1>>, <<>>, [i \in 1 .. 20 |-> i]))} }

netAll == <<which, ioVars, sockVars, soVars, resVars, remoteVars, localVars, packetVars>>

NetInit ==
    /\ which \in {"io", "socks", "so", "res", "remote", "local", "packet"}
    /\ IOInit /\ SockInit /\ SoInit /\ ResInit /\ RemoteInit /\ LocalInit /\ PacketInit
    /\ which # "packet" => offered = CHOOSE rs \in Pushes : TRUE
    /\ which # "so" => type = "any" /\ remote = 1
    /\ which # "res" => setup = CHOOSE c \in [recurse : {FALSE}, smart : {FALSE},
                                             lookup : Lookups, qtype : {"A"}] : TRUE

IOPart(A) == which = "io" /\ A /\ UNCHANGED <<which, sockVars, soVars, resVars, remoteVars, localVars, packetVars>>
SocksPart(A) == which = "socks" /\ A /\ UNCHANGED <<which, ioVars, soVars, resVars, remoteVars, localVars, packetVars>>
SoPart(A) == which = "so" /\ A /\ UNCHANGED <<which, ioVars, sockVars, resVars, remoteVars, localVars, packetVars>>
ResPart(A) == which = "res" /\ A /\ UNCHANGED <<which, ioVars, sockVars, soVars, remoteVars, localVars, packetVars>>
RemotePart(A) == which = "remote" /\ A /\ UNCHANGED <<which, ioVars, sockVars, soVars, resVars, localVars, packetVars>>
LocalPart(A) == which = "local" /\ A /\ UNCHANGED <<which, ioVars, sockVars, soVars, resVars, remoteVars, packetVars>>
PacketPart(A) == which = "packet" /\ A /\ UNCHANGED <<which, ioVars, sockVars, soVars, resVars, remoteVars, localVars>>

NetNext ==
    \/ IOPart(IONext) \/ SocksPart(SockNext) \/ SoPart(SoNext)
    \/ ResPart(ResNext) \/ RemotePart(RemoteNext) \/ LocalPart(LocalNext)
    \/ PacketPart(PacketNext)

\* The caller goes on calling dns_res_check(), and a coroutine that is not
\* waiting gets on; no server, datagram or deadline is made to come.
NetFairness ==
    /\ WF_netAll(ResPart(Exec))
    /\ \A c \in Lookers : WF_netAll(RemotePart(RemoteStep(c)))

NetSpec == NetInit /\ [][NetNext]_netAll /\ NetFairness

\* A resolution that is submitted ends: alias loops, name servers without addresses,
\* silent servers and empty answers all come to an end, through the attempts, the
\* depth limit and the search list, as long as servers do not refer for ever.
ResolverEnds == (which = "res") ~> (stack[0].st = "DONE")
=============================================================================
