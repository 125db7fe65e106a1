------------------------------- MODULE Sockets -------------------------------
(***************************************************************************)
(* Who owns a descriptor (tcp.cpp, socket.cpp): TcpSocket::connect and     *)
(* TcpListener::acceptOn as coroutines, listen(), close(), detach(), moves *)
(* and destructors, while the rest of the program opens and closes         *)
(* descriptors of its own.  The kernel hands out the lowest free number,   *)
(* so a number comes back with another meaning: ticket tells them apart.   *)
(***************************************************************************)
EXTENDS Integers, FiniteSetsExt

CONSTANTS Socks,        \* TcpSocket objects
          NumFds,       \* size of the descriptor table
          MaxTickets    \* bound: descriptors opened

VARIABLES table,     \* what is open at a number: a ticket, or 0
          ticket,    \* the last ticket given out
          sfd,       \* _fd of each socket
          own,       \* history: the ticket a socket was made with
          cpc,       \* the connect() or acceptOn() that will make it
          s,         \* the descriptor in that coroutine's frame
          lfd,       \* _fd of the listener
          lown,      \* history: the listener's ticket
          stale,     \* history: sockets whose descriptor connect() closed
          wronged    \* history: tickets closed through such a socket

sockVars == <<table, ticket, sfd, own, cpc, s, lfd, lown, stale, wronged>>

Fds == 0 .. NumFds - 1
INVALID_FD == -1

SockInit ==
    /\ table = [f \in Fds |-> 0] /\ ticket = 0
    /\ sfd = [o \in Socks |-> INVALID_FD] /\ own = [o \in Socks |-> 0]
    /\ cpc = [o \in Socks |-> "none"] /\ s = [o \in Socks |-> INVALID_FD]
    /\ lfd = INVALID_FD /\ lown = 0
    /\ stale = {} /\ wronged = {}

\* socket() and accept(): the lowest free number.
Free == {f \in Fds : table[f] = 0}
Opens(f) ==
    /\ ticket < MaxTickets /\ Free # {} /\ f = Min(Free)
    /\ ticket' = ticket + 1
    /\ table' = [table EXCEPT ![f] = ticket + 1]

\* ::close(f) by socket o.  One that has a number which was closed for it
\* passes the wrong on to whoever has the number now.
Closes(f, o) ==
    /\ table' = [table EXCEPT ![f] = 0]
    /\ wronged' = IF o \in stale \/ own[o] \in wronged
                  THEN wronged \cup {table[f]} ELSE wronged

\* connect(): socket() ...
ConnectSocket(o) ==
    /\ cpc[o] = "none" /\ sfd[o] = INVALID_FD
    /\ \E f \in Fds : Opens(f) /\ s' = [s EXCEPT ![o] = f]
                              /\ own' = [own EXCEPT ![o] = ticket + 1]
    /\ cpc' = [cpc EXCEPT ![o] = "connect"]
    /\ UNCHANGED <<sfd, lfd, lown, stale, wronged>>

\* ... ::connect() is done, fails, or is in progress; the wait that follows is
\* over, or has failed: either way the socket that is returned owns s ...
Returned(o) ==
    /\ sfd' = [sfd EXCEPT ![o] = s[o]]
    /\ cpc' = [cpc EXCEPT ![o] = "none"]
ConnectReturns(o) ==
    /\ cpc[o] \in {"connect", "wait"}
    /\ Returned(o)
    /\ UNCHANGED <<table, ticket, own, s, lfd, lown, stale, wronged>>
ConnectWaits(o) ==
    /\ cpc[o] \in {"connect", "wait"}
    /\ cpc' = [cpc EXCEPT ![o] = IF @ = "connect" THEN "wait" ELSE "result"]
    /\ UNCHANGED <<table, ticket, sfd, own, s, lfd, lown, stale, wronged>>

\* ... and the result of the connection is good, or s is closed and returned.
ConnectResult(o) ==
    /\ cpc[o] = "result"
    /\ Returned(o)
    /\ \/ UNCHANGED <<table, stale, wronged>>
       \/ Closes(s[o], o) /\ stale' = stale \cup {o}
    /\ UNCHANGED <<ticket, own, s, lfd, lown>>

\* acceptOn(): a connection comes, perhaps after waits; the descriptor goes
\* into the socket that is returned.
Accept(o) ==
    /\ lfd # INVALID_FD /\ cpc[o] = "none" /\ sfd[o] = INVALID_FD
    /\ \E f \in Fds : Opens(f) /\ sfd' = [sfd EXCEPT ![o] = f]
                              /\ own' = [own EXCEPT ![o] = ticket + 1]
    /\ UNCHANGED <<cpc, s, lfd, lown, stale, wronged>>

\* listen(): on success the listener owns s; when bind() or ::listen() fails
\* s is left open (::close(rc) closes nothing), when getsockname() fails it
\* is closed.
Listen ==
    /\ lfd = INVALID_FD
    /\ \E f \in Fds :
          /\ Opens(f)
          /\ \/ lfd' = f /\ lown' = ticket + 1
             \/ UNCHANGED <<lfd, lown>>
    /\ UNCHANGED <<sfd, own, cpc, s, stale, wronged>>

\* TcpListener::close(): shutdown() only, the descriptor stays open.
ListenerClose ==
    /\ lfd # INVALID_FD
    /\ lfd' = INVALID_FD
    /\ UNCHANGED <<table, ticket, sfd, own, cpc, s, lown, stale, wronged>>

\* close(), and the destructor.
SocketCloseKeeps(o) ==   \* mutant: _fd is not reset, and closed again later
    /\ sfd[o] # INVALID_FD
    /\ table' = [table EXCEPT ![sfd[o]] = 0]
    /\ UNCHANGED <<sfd, ticket, own, cpc, s, lfd, lown, stale, wronged>>
SocketClose(o) ==
    /\ sfd[o] # INVALID_FD
    /\ Closes(sfd[o], o)
    /\ sfd' = [sfd EXCEPT ![o] = INVALID_FD]
    /\ stale' = stale \ {o}
    /\ UNCHANGED <<ticket, own, cpc, s, lfd, lown>>

\* detach(): the rest of the program has the descriptor from here on.
Detach(o) ==
    /\ sfd[o] # INVALID_FD
    /\ sfd' = [sfd EXCEPT ![o] = INVALID_FD]
    /\ stale' = stale \ {o}
    /\ UNCHANGED <<table, ticket, own, cpc, s, lfd, lown, wronged>>

\* Move assignment: what the target had is neither closed nor kept.
Move(o, p) ==
    /\ o # p /\ sfd[o] # INVALID_FD /\ cpc[p] = "none"
    /\ sfd' = [sfd EXCEPT ![p] = sfd[o], ![o] = INVALID_FD]
    /\ own' = [own EXCEPT ![p] = own[o]]
    /\ stale' = IF o \in stale THEN (stale \ {o}) \cup {p} ELSE stale \ {p}
    /\ UNCHANGED <<table, ticket, cpc, s, lfd, lown, wronged>>

\* The rest of the program opens descriptors, and closes its own: none that a
\* socket, the listener or a connect() under way was made with.
Taken == {own[o] : o \in {o \in Socks : sfd[o] # INVALID_FD \/ cpc[o] # "none"}}
         \cup (IF lfd # INVALID_FD THEN {lown} ELSE {})
OthersOpen ==
    /\ \E f \in Fds : Opens(f)
    /\ UNCHANGED <<sfd, own, cpc, s, lfd, lown, stale, wronged>>
OthersClose ==
    /\ \E f \in Fds : table[f] \notin Taken \cup {0} /\ table' = [table EXCEPT ![f] = 0]
    /\ UNCHANGED <<ticket, sfd, own, cpc, s, lfd, lown, stale, wronged>>

SockNext ==
    \/ \E o \in Socks :
          \/ ConnectSocket(o) \/ ConnectReturns(o) \/ ConnectWaits(o)
          \/ ConnectResult(o) \/ Accept(o) \/ SocketClose(o) \/ Detach(o)
          \/ \E p \in Socks : Move(o, p)
    \/ Listen \/ ListenerClose \/ OthersOpen \/ OthersClose

SockSpec == SockInit /\ [][SockNext]_sockVars
-----------------------------------------------------------------------------
\* A socket, a listener and a connect() under way have the descriptor they
\* were made with, open and theirs alone, through moves, closes and reuse of
\* its number; unless a socket that connect() returned after closing it
\* (tcp.cpp:96, :102) has closed it for them.
OwnsWhatItHas ==
    /\ \A o \in Socks : sfd[o] # INVALID_FD /\ o \notin stale =>
          table[sfd[o]] = own[o] \/ own[o] \in wronged
    /\ \A o \in Socks : cpc[o] # "none" =>
          table[s[o]] = own[o] \/ own[o] \in wronged
    /\ lfd # INVALID_FD => table[lfd] = lown \/ lown \in wronged
=============================================================================
