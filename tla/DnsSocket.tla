------------------------------ MODULE DnsSocket ------------------------------
(***************************************************************************)
(* dns_so_*() of dns.c: one question at a time over a UDP socket that      *)
(* stays, and over a TCP connection when the answer is truncated or TCP is *)
(* all there is.  The caller submits, checks, fetches, may submit anew     *)
(* before an answer came (a timeout), and clears.  A step is one case of   *)
(* the switch in dns_so_check(), or one system call of its loops.          *)
(* Datagrams are lost, late and duplicated: a reply may be received any    *)
(* number of times, or never.                                              *)
(***************************************************************************)
EXTENDS Integers, Sequences, SequencesExt, FiniteSetsExt

CONSTANTS NumHosts,     \* name servers
          MaxQids,      \* bound: query packets made
          MaxSubmits,   \* bound: dns_so_submit() calls
          NumNumbers    \* size of the descriptor table

VARIABLES type,         \* "any", "DGRAM" (no TCP), "STREAM" (TCP only)
          state,        \* so->state
          udp, tcp,     \* descriptors
          old,          \* descriptors to be closed by dns_so_clear()
          qid, remote,  \* the query packet and the host it goes to
          qout, qbase,  \* units of it sent, and how many when the loop began
          alen, buf,    \* length of the answer read over TCP, its units
          answer,       \* so->answer
          ok,           \* dns_so_check() has returned 0
          fetched,      \* history: what the last query got
          submits, qids,
          asked, replies,          \* the UDP network: queries out, replies made
          peer, inbox, outbox,     \* the connection: its host, its two streams
          sockets, open, named     \* sockets made; descriptors open; history: the
                                   \* sockets each number was, since the last clear
soVars == <<type, state, udp, tcp, old, qid, remote, qout, qbase, alen, buf,
            answer, ok, fetched, submits, qids, asked, replies, peer, inbox,
            outbox, sockets, open, named>>
netVars == <<asked, replies>>
connVars == <<peer, inbox, outbox>>
fdVars == <<udp, tcp, old, sockets, open, named>>
callVars == <<type, qid, remote, submits, qids>>
streamVars == <<qout, qbase, alen, buf>>

NoAnswer == [qid |-> 0, tc |-> FALSE]
NoFd == 0
Hosts == 1 .. NumHosts
NoHost == 0
MsgEnd == 3       \* units of a TCP message: two of its length, one of content
Unit(q, i) == [qid |-> q, i |-> i]
Message(q) == [i \in 1 .. MsgEnd |-> Unit(q, i)]

\* dns_so_init(): the UDP socket is opened, everything else is empty.
SoInit ==
    /\ type \in {"any", "DGRAM", "STREAM"}
    /\ udp = 1 /\ open = {1} /\ tcp = NoFd /\ old = <<>>
    /\ state = "none" /\ qid = 0 /\ remote \in Hosts
    /\ qout = 0 /\ qbase = 0 /\ alen = 0 /\ buf = <<>>
    /\ answer = NoAnswer /\ ok = FALSE /\ fetched = <<0, NoAnswer>>
    /\ submits = 0 /\ qids = 0
    /\ asked = {} /\ replies = {}
    /\ peer = NoHost /\ inbox = <<>> /\ outbox = <<>>
    /\ sockets = 0 /\ named = [k \in 1 .. NumNumbers |-> {}]

\* dns_so_reset(): all that is of one question.
SoReset == /\ qout' = 0 /\ qbase' = 0 /\ alen' = 0 /\ buf' = <<>>
           /\ answer' = NoAnswer /\ ok' = FALSE

\* dns_so_submit(): a packet that has no id yet gets the next of the permutor;
\* one that is sent again keeps it.
SoSubmit(h, fresh) ==
    /\ submits < MaxSubmits
    /\ submits' = submits + 1
    /\ SoReset
    /\ IF fresh THEN qids < MaxQids /\ qids' = qids + 1 /\ qid' = qids + 1
                ELSE qid # 0 /\ UNCHANGED <<qids, qid>>
    /\ remote' = h
    /\ state' = IF type = "STREAM" THEN "TCP_INIT" ELSE "UDP_CONN"
    /\ fetched' = <<0, NoAnswer>>
    /\ UNCHANGED <<type, netVars, connVars, fdVars>>

\* dns_so_verify(): the id and the question are the query's.
SoVerifyNot(a) == a.qid # 0     \* mutant: any answer will do
SoVerify(a) == a.qid = qid

\* UDP_CONN, UDP_SEND: a call that fails leaves the state for the next check.
UdpConn ==
    /\ state = "UDP_CONN" /\ state' = "UDP_SEND"
    /\ UNCHANGED <<callVars, streamVars, answer, ok, fetched, netVars, connVars, fdVars>>
UdpSend ==
    /\ state = "UDP_SEND" /\ state' = "UDP_RECV"
    /\ asked' = asked \cup {qid}
    /\ UNCHANGED <<callVars, streamVars, answer, ok, fetched, replies, connVars, fdVars>>

\* UDP_RECV: what does not verify is thrown away and the next one is read;
\* UDP_DONE: a truncated answer leads to TCP, if TCP may be used.
UdpRecv(r) ==
    /\ state = "UDP_RECV"
    /\ answer' = r
    /\ IF SoVerify(r)
       THEN IF r.tc /\ type # "DGRAM"
            THEN state' = "TCP_INIT" /\ UNCHANGED ok
            ELSE state' = "UDP_DONE" /\ ok' = TRUE
       ELSE UNCHANGED <<state, ok>>
    /\ UNCHANGED <<callVars, streamVars, fetched, netVars, connVars, fdVars>>

\* dns_so_closefd(): the descriptor is put aside, so that the number that
\* dns_so_pollfd() returned does not come back with another meaning before the
\* caller has called dns_so_clear().
SoCloseFdNow == [old |-> old, open |-> open \ {tcp}]   \* mutant: closed at once
SoCloseFd == [old |-> IF tcp = NoFd THEN old ELSE Append(old, tcp), open |-> open]

\* TCP_INIT: a connection to the same host is kept (dns_so_tcp_keep()), any
\* other is given up for a new socket, which may fail.
TcpKeep ==
    /\ state = "TCP_INIT"
    /\ tcp # NoFd /\ peer = remote
    /\ state' = "TCP_SEND"
    /\ UNCHANGED <<callVars, streamVars, answer, ok, fetched, netVars, connVars, fdVars>>
TcpInit ==
    /\ state = "TCP_INIT"
    /\ ~(tcp # NoFd /\ peer = remote)
    /\ old' = SoCloseFd.old
    /\ peer' = NoHost /\ inbox' = <<>> /\ outbox' = <<>>
    /\ LET free == (1 .. NumNumbers) \ SoCloseFd.open
       IN  IF free = {}
           THEN tcp' = NoFd /\ open' = SoCloseFd.open /\ UNCHANGED <<state, named, sockets>>
           ELSE /\ tcp' = Min(free) /\ open' = SoCloseFd.open \cup {Min(free)}
                /\ sockets' = sockets + 1
                /\ named' = [named EXCEPT ![Min(free)] = @ \cup {sockets + 1}]
                /\ state' = "TCP_CONN"
    /\ UNCHANGED <<callVars, streamVars, answer, ok, fetched, netVars, udp>>

\* TCP_CONN: connected (or EISCONN); in progress or refused leaves the state.
TcpConn ==
    /\ state = "TCP_CONN" /\ state' = "TCP_SEND"
    /\ peer' = remote
    /\ UNCHANGED <<callVars, streamVars, answer, ok, fetched, netVars, inbox, outbox, fdVars>>

\* TCP_SEND: one send() of the loop takes k units.  When it would block the loop
\* is entered again later, and reads from qout units past where it should.
TcpSend(k) ==
    /\ state = "TCP_SEND" /\ k \in 1 .. MsgEnd - qout
    /\ outbox' = outbox \o [i \in 1 .. k |-> Unit(qid, qbase + qout + i)]
    /\ qout' = qout + k
    /\ state' = IF qout + k = MsgEnd THEN "TCP_RECV" ELSE state
    /\ UNCHANGED <<callVars, qbase, alen, buf, answer, ok, fetched, netVars, peer, inbox, fdVars>>
TcpSendBlocks ==
    /\ state = "TCP_SEND" /\ qbase # qout
    /\ qbase' = qout
    /\ UNCHANGED <<callVars, state, qout, alen, buf, answer, ok, fetched, netVars, connVars, fdVars>>

\* TCP_RECV: k units, first up to the length, then up to the length it tells
\* (nobody knows what it is when the stream is not at the start of a message).
Length(b) == IF IsPrefix(SubSeq(b, 1, 2), Message(b[1].qid)) THEN {MsgEnd - 2} ELSE {0, MsgEnd - 2}
TcpRecv(k) ==
    /\ state = "TCP_RECV"
    /\ k <= Len(inbox) /\ k <= alen + 2 - Len(buf)
    /\ LET b == buf \o SubSeq(inbox, 1, k) IN
       /\ buf' = b
       /\ IF alen = 0 /\ Len(b) = 2
          THEN \E n \in Length(b) :
                  alen' = n /\ state' = IF n = 0 THEN "TCP_DONE" ELSE state
          ELSE UNCHANGED alen /\ state' = IF Len(b) = alen + 2 THEN "TCP_DONE" ELSE state
    /\ inbox' = SubSeq(inbox, k + 1, Len(inbox))
    /\ UNCHANGED <<callVars, qout, qbase, answer, ok, fetched, netVars, peer, outbox, fdVars>>

\* TCP_DONE: the connection is given up unless it is all there is; the answer
\* must verify, or every check from here on fails.
TcpDone ==
    /\ state = "TCP_DONE" /\ ~ok
    /\ IF type = "STREAM" \/ tcp = NoFd THEN UNCHANGED <<tcp, old, open, peer, inbox, outbox>>
       ELSE /\ old' = SoCloseFd.old /\ open' = SoCloseFd.open /\ tcp' = NoFd
            /\ peer' = NoHost /\ inbox' = <<>> /\ outbox' = <<>>
    /\ answer' = IF buf = Message(buf[1].qid) THEN [qid |-> buf[1].qid, tc |-> FALSE] ELSE NoAnswer
    /\ ok' = SoVerify(answer')
    /\ UNCHANGED <<callVars, state, streamVars, fetched, netVars, udp, named, sockets>>

\* dns_so_fetch() after a check that returned 0, then the caller's reset.
SoFetch ==
    /\ ok /\ state \in {"UDP_DONE", "TCP_DONE"}
    /\ fetched' = <<qid, answer>>
    /\ SoReset /\ state' = "none"
    /\ UNCHANGED <<callVars, netVars, connVars, fdVars>>

\* dns_so_clear(): the caller has seen the change of descriptors.
SoClear ==
    /\ old # <<>>
    /\ open' = open \ Range(old) /\ old' = <<>>
    /\ named' = [k \in DOMAIN named |-> IF k = tcp THEN {sockets} ELSE {}]
    /\ UNCHANGED <<callVars, state, streamVars, answer, ok, fetched, netVars, connVars, udp, tcp, sockets>>

\* The name servers: a query that arrives is answered, whole or truncated; over
\* TCP only one that comes at the start of a message and in order.
UdpReply(q, tc) ==
    /\ q \in asked
    /\ replies' = replies \cup {[qid |-> q, tc |-> tc]}
    /\ UNCHANGED <<callVars, state, streamVars, answer, ok, fetched, asked, connVars, fdVars>>
TcpReply ==
    /\ Len(outbox) >= MsgEnd
    /\ LET q == Head(outbox).qid IN
       /\ IsPrefix(Message(q), outbox)
       /\ inbox' = inbox \o Message(q)
    /\ outbox' = SubSeq(outbox, MsgEnd + 1, Len(outbox))
    /\ UNCHANGED <<callVars, state, streamVars, answer, ok, fetched, netVars, peer, fdVars>>

SoNext ==
    \/ \E h \in Hosts, fresh \in BOOLEAN : SoSubmit(h, fresh)
    \/ UdpConn \/ UdpSend
    \/ \E r \in replies : UdpRecv(r)
    \/ TcpKeep \/ TcpInit \/ TcpConn \/ TcpSendBlocks \/ TcpDone
    \/ \E k \in 1 .. MsgEnd : TcpSend(k) \/ TcpRecv(k)
    \/ SoFetch \/ SoClear
    \/ \E q \in 1 .. MaxQids, tc \in BOOLEAN : UdpReply(q, tc)
    \/ TcpReply

SoSpec == SoInit /\ [][SoNext]_soVars
-----------------------------------------------------------------------------
\* An answer that is fetched answers the query that was submitted last, whatever
\* datagrams of earlier queries arrive late or twice, and whatever a kept
\* connection still carries of a query that was given up; and it is truncated
\* only when TCP is not to be used.
AnswerIsForQuery ==
    /\ fetched # <<0, NoAnswer>> => fetched[2].qid = fetched[1]
    /\ fetched[2].tc => type = "DGRAM"

\* The number that dns_so_pollfd() returns has had one meaning since the caller
\* last called dns_so_clear() (NOTE at dns.c:5641), and what is kept or put aside
\* is open, and distinct.
PollfdUnambiguous ==
    /\ \A k \in DOMAIN named : Cardinality(named[k]) <= 1
    /\ ({udp, tcp} \ {NoFd}) \cup Range(old) \subseteq open
    /\ Cardinality({udp} \cup Range(old)) = 1 + Len(old)
    /\ tcp \notin {udp} \cup Range(old)
=============================================================================
