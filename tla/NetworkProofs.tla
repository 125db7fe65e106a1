---------------------------- MODULE NetworkProofs ---------------------------
(***************************************************************************)
(* The network side, one part after the other: transfers of any size, any  *)
(* number of sockets, descriptors, queries and lookups.                    *)
(***************************************************************************)
EXTENDS SocketIO, Sockets, DnsSocket, Addresses, SequenceLemmas,
        FiniteSetTheorems, TLAPS

(***************************************************************************)
(* The transfer loops.  BytesAccounted lacks that a call without a loop    *)
(* has moved nothing before it returns.                                    *)
(***************************************************************************)
IOTypeOK ==
    /\ op \in Ops /\ size \in 0 .. MaxSize /\ place \in {"idle", "call", "wait"}
    /\ n \in Int /\ moved \in Nat /\ result \in Int /\ told \in BOOLEAN /\ ops \in Int
IOInv ==
    /\ IOTypeOK /\ BytesAccounted
    /\ place # "idle" /\ op \notin Loops => moved = 0

\* A call begins, or is refused for its arguments.
LEMMA BeginKeeps == ASSUME IOInv, NEW o \in Ops, NEW k \in 0 .. MaxSize, Begin(o, k) PROVE IOInv'
<1>1. IOTypeOK'
  <2>1. ops' \in Int /\ n' \in Int /\ moved' \in Nat /\ result' \in Int
      BY DEF IOInv, IOTypeOK, Begin
  <2>2. op' \in Ops /\ size' \in 0 .. MaxSize /\ place' \in {"idle", "call", "wait"} /\ told' = FALSE
      BY DEF IOInv, IOTypeOK, Begin
  <2> QED
      BY <2>1, <2>2, Zenon DEF IOTypeOK
<1>2. CASE o = "read" /\ k = 0
    BY <1>1, <1>2 DEF IOInv, BytesAccounted, Begin, Loops, Ops
<1>3. CASE ~(o = "read" /\ k = 0)
  <2>1. place' = "call" /\ n' = 0 /\ moved' = 0 /\ size' = k
      BY <1>3 DEF Begin
  <2>2. n' < size' + 1
      BY <2>1, IOAssumption
  <2> QED
      BY <1>1, <2>1, <2>2 DEF IOInv, BytesAccounted
<1> QED
    BY <1>2, <1>3

\* What a call that ends must leave behind.
EndsWell(res) ==
    /\ res \in Int /\ (res # -1 => res = moved')
    /\ op \in Ops \ {"read", "write"} /\ ~told' =>
          /\ res # -1 /\ (op \in Loops => res = size) /\ (op = "receive" => res > 0)
\* A call that returns such a result.
LEMMA ReturnKeeps ==
    ASSUME IOInv, NEW res, Return(res), EndsWell(res), n' \in Int, moved' \in Nat, told' \in BOOLEAN
    PROVE  IOInv'
<1>1. IOTypeOK'
    BY DEF IOInv, IOTypeOK, Return, EndsWell
<1>2. BytesAccounted'
    BY DEF IOInv, IOTypeOK, Return, EndsWell, BytesAccounted, Loops
<1> QED
    BY <1>1, <1>2 DEF IOInv, Return

\* A wait begins: nothing is counted.
LEMMA BlockKeeps == IOInv /\ place = "call" /\ WouldBlock => IOInv'
<1> SUFFICES ASSUME IOInv, place = "call", WouldBlock PROVE IOInv'
    OBVIOUS
<1>1. IOTypeOK'
    BY DEF IOInv, IOTypeOK, WouldBlock
<1>2. BytesAccounted'
    BY DEF IOInv, WouldBlock, BytesAccounted
<1> QED
    BY <1>1, <1>2 DEF IOInv, WouldBlock

\* One pass of a loop: what the kernel moved is added to what was moved before.
LEMMA AllKeeps ==
    ASSUME IOInv, place = "call", op \in Loops, NEW r \in Int, NEW e,
           r \in Answers(size - n), AllPass(r, e)
    PROVE  IOInv'
<1>1. n = moved /\ n < size + 1 /\ n \in Nat /\ size \in Nat /\ moved \in Nat
    BY IOAssumption DEF IOInv, IOTypeOK, BytesAccounted
<1>2. op \in Ops \ {"read", "write"} /\ op # "receive"
    BY DEF Loops, Ops
<1>3. CASE r > 0
  <2>1. r <= size - n
      BY <1>1, <1>3 DEF Answers
  <2>2. moved' = moved + r /\ n' = n + r /\ told' = told
      BY <1>3 DEF AllPass, NoError
  <2>3. CASE n + r < size
    <3>1. UNCHANGED <<place, result, op, size, ops>>
        BY <1>3, <2>3 DEF AllPass
    <3>2. n' \in Int /\ moved' \in Nat
        BY <1>1, <1>3, <2>2
    <3>4. IOTypeOK'
        BY <2>2, <3>1, <3>2, Zenon DEF IOInv, IOTypeOK
    <3>3. n' = moved' /\ n' < size' + 1
        BY <1>1, <2>2, <2>3, <3>1
    <3> QED
        BY <3>1, <3>3, <3>4 DEF IOInv, BytesAccounted
  <2>4. CASE ~(n + r < size)
    <3>1. Return(n + r)
        BY <1>3, <2>4 DEF AllPass
    <3>2. n + r = size /\ n + r \in Nat /\ n + r = moved'
        BY <1>1, <1>3, <2>1, <2>2, <2>4
    <3>3. EndsWell(n + r)
        BY <1>2, <3>2 DEF EndsWell
    <3>4. told' \in BOOLEAN /\ n' \in Int /\ moved' \in Nat
        BY <2>2, <3>2 DEF IOInv, IOTypeOK
    <3> QED
        BY <3>1, <3>3, <3>4, ReturnKeeps
  <2> QED
      BY <2>3, <2>4
<1>4. CASE ~(r > 0) /\ ~(r = -1 /\ e = "EAGAIN")
  <2>1. told' = TRUE /\ moved' = moved
      BY <1>4 DEF AllPass, Error
  <2>2. \/ Return(n) /\ n' = n
        \/ Return(-1) /\ n' = -1
      BY <1>4 DEF AllPass
  <2>3. EndsWell(n) /\ EndsWell(-1)
      BY <1>1, <2>1 DEF EndsWell
  <2> QED
      BY <1>1, <2>1, <2>2, <2>3, ReturnKeeps
<1>5. CASE r = -1 /\ e = "EAGAIN"
    BY <1>5, BlockKeeps DEF AllPass
<1> QED
    BY <1>3, <1>4, <1>5

\* A call without a loop returns what it moved at once.
LEMMA OnceKeeps ==
    ASSUME IOInv, place = "call", op \notin Loops, NEW r \in Int, NEW e,
           send(r, e) \/ receive(r, e) \/ read(r, e) \/ write(r, e)
    PROVE  IOInv'
<1>1. n \in Int /\ moved = 0 /\ told \in BOOLEAN
    BY DEF IOInv, IOTypeOK
<1>2. CASE r = -1 /\ e = "EAGAIN"
    BY <1>2, BlockKeeps DEF send, receive, read, write, OncePass, FdPass
<1>3. CASE r = -1 /\ e # "EAGAIN"
  <2>1. Return(-1) /\ n' = n /\ moved' = moved
      BY <1>3 DEF send, receive, read, write, OncePass, FdPass
  <2>2. told' \in BOOLEAN /\ (op \notin {"read", "write"} => told' = TRUE)
    <3>1. send(r, e) \/ receive(r, e) => told' = TRUE
        BY <1>3 DEF send, receive, OncePass, Error
    <3>2. read(r, e) \/ write(r, e) => op \in {"read", "write"} /\ told' = told
        BY <1>3 DEF read, write, FdPass, NoError
    <3> QED
        BY <1>1, <3>1, <3>2
  <2>3. EndsWell(-1)
      BY <2>2 DEF EndsWell
  <2> QED
      BY <1>1, <2>1, <2>2, <2>3, ReturnKeeps
<1>4. CASE r # -1
  <2>1. r \in Nat
      BY <1>4 DEF send, receive, read, write, OncePass, FdPass, Answers
  <2>2. Return(r) /\ n' = n
      BY <1>4 DEF send, receive, read, write, OncePass, FdPass
  <2>3. moved' = r
      BY <1>1, <1>4 DEF send, receive, read, write, OncePass, FdPass
  <2>4. told' \in BOOLEAN
      BY <1>1, <1>4 DEF send, receive, read, write, OncePass, FdPass, Error, NoError
  <2>5. op = "receive" /\ ~told' => r > 0
      BY <1>4, <2>1 DEF send, receive, read, write, OncePass, FdPass, Error, NoError
  <2>6. EndsWell(r)
      BY <1>4, <2>1, <2>3, <2>5 DEF EndsWell
  <2> QED
      BY <1>1, <2>1, <2>2, <2>3, <2>4, <2>6, ReturnKeeps
<1> QED
    BY <1>2, <1>3, <1>4

\* A wait that fails is an error of every call that has _error.
LEMMA WaitKeeps ==
    ASSUME IOInv, NEW ev, NEW e, WaitFired(e) \/ WaitFails(ev, e)
    PROVE  IOInv'
<1>1. CASE WaitFired(e)
  <2>1. IOTypeOK'
      BY <1>1 DEF IOInv, IOTypeOK, WaitFired
  <2>2. BytesAccounted'
      BY <1>1 DEF IOInv, WaitFired, BytesAccounted
  <2> QED
      BY <1>1, <2>1, <2>2 DEF IOInv, WaitFired
<1>2. CASE WaitFails(ev, e)
  <2>1. Return(-1) /\ moved' = moved
      BY <1>2 DEF WaitFails
  <2>2. told' \in BOOLEAN /\ (op \notin {"read", "write"} => told' = TRUE)
      BY <1>2 DEF WaitFails, Error, NoError, IOInv, IOTypeOK
  <2>3. n' \in Int /\ moved' \in Nat
      BY <1>2, <2>1 DEF WaitFails, IOInv, IOTypeOK
  <2>4. EndsWell(-1)
      BY <2>2 DEF EndsWell
  <2> QED
      BY <2>1, <2>2, <2>3, <2>4, ReturnKeeps
<1> QED
    BY <1>1, <1>2

\* For buffers of any size and any number of passes and waits (socket.cpp,
\* fdops.cpp), bytes are counted once, and a call comes short only with a new
\* value of _error.
THEOREM CountsBytes == IOSpec => []BytesAccounted
<1>1. IOInit => IOInv
  <2>1. 0 \in 0 .. MaxSize /\ MaxOps \in Int /\ ~(MaxOps < MaxOps)
      BY IOAssumption
  <2>2. IOInit => IOTypeOK
      BY <2>1, 0 \in Nat, 0 \in Int, Zenon DEF IOInit, IOTypeOK, Ops
  <2>3. IOInit => BytesAccounted
      BY <2>1 DEF IOInit, BytesAccounted
  <2> QED
      BY <2>2, <2>3 DEF IOInv, IOInit
<1>2. IOInv /\ [IONext]_ioVars => IOInv'
  <2> SUFFICES ASSUME IOInv, [IONext]_ioVars PROVE IOInv'
      OBVIOUS
  <2>1. ASSUME NEW o \in Ops, NEW k \in 0 .. MaxSize, Begin(o, k) PROVE IOInv'
      BY <2>1, BeginKeeps
  <2>2. ASSUME NEW r \in Answers(MaxSize), NEW e, Pass(r, e) PROVE IOInv'
    <3>1. r \in Int /\ place = "call"
        BY <2>2, IOAssumption DEF Pass, Answers
    <3>2. CASE sendAll(r, e) \/ receiveAll(r, e)
        BY <3>1, <3>2, AllKeeps DEF sendAll, receiveAll, Loops
    <3>3. CASE send(r, e) \/ receive(r, e) \/ read(r, e) \/ write(r, e)
        BY <3>1, <3>3, OnceKeeps DEF send, receive, read, write, Loops
    <3> QED
        BY <2>2, <3>2, <3>3 DEF Pass
  <2>3. ASSUME NEW ev, NEW e, WaitFired(e) \/ WaitFails(ev, e) PROVE IOInv'
      BY <2>3, WaitKeeps
  <2>4. CASE UNCHANGED ioVars
      BY <2>4 DEF ioVars, IOInv, IOTypeOK, BytesAccounted
  <2> QED
      BY <2>1, <2>2, <2>3, <2>4 DEF IONext
<1>3. IOInv => BytesAccounted
    BY DEF IOInv
<1> QED
    BY <1>1, <1>2, <1>3, PTL DEF IOSpec
-----------------------------------------------------------------------------
\* A set of natural numbers that is not empty has a least one.
LEMMA LeastIn == ASSUME NEW S \in SUBSET Nat, S # {} PROVE Min(S) \in S
    BY LeastExists DEF Min

(***************************************************************************)
(* The descriptors.  OwnsWhatItHas lacks that what is held was made with   *)
(* different tickets, none of them 0 or still to come, so that closing one *)
(* number takes away no other ticket; and that a socket has no descriptor  *)
(* while a connect() for it is under way.                                  *)
(***************************************************************************)
SockTypeOK ==
    /\ table \in [Fds -> Nat] /\ ticket \in Nat
    /\ sfd \in [Socks -> Fds \cup {INVALID_FD}] /\ s \in [Socks -> Fds \cup {INVALID_FD}]
    /\ own \in [Socks -> Nat]
    /\ cpc \in [Socks -> {"none", "connect", "wait", "result"}]
    /\ lfd \in Fds \cup {INVALID_FD} /\ lown \in Nat
    /\ stale \subseteq Socks
Holds(o) == sfd[o] # INVALID_FD \/ cpc[o] # "none"
Has(t, f) == table[f] = t \/ t \in wronged
SocketHas(o) ==
    /\ sfd[o] # INVALID_FD /\ o \notin stale => Has(own[o], sfd[o])
    /\ cpc[o] # "none" => Has(own[o], s[o])
Stages == \A o \in Socks :
    /\ cpc[o] # "none" => sfd[o] = INVALID_FD /\ s[o] \in Fds
    /\ o \in stale => sfd[o] # INVALID_FD
Tickets ==
    /\ \A o \in Socks : Holds(o) => own[o] \in 1 .. ticket
    /\ lfd # INVALID_FD => lown \in 1 .. ticket
Apart ==
    /\ \A o, p \in Socks : Holds(o) /\ Holds(p) /\ own[o] = own[p] => o = p
    /\ lfd # INVALID_FD => \A o \in Socks : Holds(o) => own[o] # lown
SockInv ==
    /\ SockTypeOK /\ Stages /\ Tickets /\ Apart
    /\ \A o \in Socks : SocketHas(o)
    /\ lfd # INVALID_FD => Has(lown, lfd)

\* No descriptor is -1.
LEMMA FdsValid == Fds \subseteq Nat /\ INVALID_FD \notin Fds
    BY DEF Fds, INVALID_FD

\* A number that is handed out was free, and nobody has the new ticket.
LEMMA OpensFree ==
    ASSUME SockInv, NEW f \in Fds, Opens(f)
    PROVE  /\ table' \in [Fds -> Nat] /\ ticket' = ticket + 1 /\ ticket' \in Nat
           /\ table'[f] = ticket'
           /\ \A g \in Fds, t \in 1 .. ticket : table[g] = t => table'[g] = t
<1>1. Free \subseteq Nat /\ Free # {} /\ f = Min(Free)
    BY FdsValid DEF Opens, Free
<1>2. f \in Free
    BY <1>1, LeastIn
<1>3. table[f] = 0 /\ ticket \in Nat
    BY <1>2 DEF Free, SockInv, SockTypeOK
<1> QED
    BY <1>3 DEF Opens, SockInv, SockTypeOK

\* Who closes a descriptor takes away its own ticket, or the wrong is noted.
LEMMA ClosesOwn ==
    ASSUME SockInv, NEW o \in Socks, NEW f \in Fds, Closes(f, o),
           o \in stale \/ Has(own[o], f)
    PROVE  /\ table' \in [Fds -> Nat]
           /\ \A g \in Fds, t \in 1 .. ticket : t # own[o] /\ Has(t, g) => Has(t, g)'
<1>1. table' \in [Fds -> Nat]
    BY DEF Closes, SockInv, SockTypeOK
<1>2. ASSUME NEW g \in Fds, NEW t \in 1 .. ticket, t # own[o], Has(t, g) PROVE Has(t, g)'
  <2>1. CASE t \in wronged
      BY <2>1 DEF Closes, Has
  <2>2. CASE table[g] = t /\ g # f
      BY <2>2 DEF Closes, Has, SockInv, SockTypeOK
  <2>3. CASE table[g] = t /\ g = f
    <3>1. o \in stale \/ own[o] \in wronged
        BY <1>2, <2>3 DEF Has
    <3> QED
        BY <2>3, <3>1 DEF Closes, Has
  <2> QED
      BY <1>2, <2>1, <2>2, <2>3 DEF Has
<1> QED
    BY <1>1, <1>2

\* At first nothing is held.
LEMMA SockInitInv == SockInit => SockInv
    BY DEF SockInit, SockInv, SockTypeOK, Stages, Tickets, Apart, SocketHas, Holds

\* connect() and accept() make a socket with a new ticket.
LEMMA MadeKeeps ==
    ASSUME SockInv, NEW o \in Socks, ConnectSocket(o) \/ Accept(o)
    PROVE  SockInv'
<1> USE DEF SockInv
<1>1. PICK f \in Fds : /\ Opens(f) /\ own' = [own EXCEPT ![o] = ticket + 1]
                       /\ \/ /\ s' = [s EXCEPT ![o] = f] /\ cpc' = [cpc EXCEPT ![o] = "connect"]
                             /\ sfd' = sfd
                          \/ sfd' = [sfd EXCEPT ![o] = f] /\ cpc' = cpc /\ s' = s
    BY DEF ConnectSocket, Accept
<1>2. /\ table' \in [Fds -> Nat] /\ ticket' = ticket + 1 /\ ticket' \in Nat /\ ticket \in Nat
      /\ table'[f] = ticket'
      /\ \A g \in Fds, t \in 1 .. ticket : table[g] = t => table'[g] = t
    BY <1>1, OpensFree DEF SockTypeOK
<1>3. /\ UNCHANGED <<lfd, lown, stale, wronged>>
      /\ cpc[o] = "none" /\ sfd[o] = INVALID_FD
    BY DEF ConnectSocket, Accept
<1>4. /\ own'[o] = ticket'
      /\ \A p \in Socks : p # o => /\ own'[p] = own[p] /\ sfd'[p] = sfd[p] /\ cpc'[p] = cpc[p]
                                   /\ s'[p] = s[p]
    BY <1>1, <1>2 DEF SockTypeOK
<1>5. \/ s'[o] = f /\ cpc'[o] = "connect" /\ sfd'[o] = INVALID_FD
      \/ sfd'[o] = f /\ cpc'[o] = "none"
    BY <1>1, <1>3 DEF SockTypeOK
<1>6. SockTypeOK'
  <2>1. sfd' \in [Socks -> Fds \cup {INVALID_FD}] /\ s' \in [Socks -> Fds \cup {INVALID_FD}]
      BY <1>1 DEF SockTypeOK
  <2>2. own' \in [Socks -> Nat]
      BY <1>1, <1>2 DEF SockTypeOK
  <2>3. cpc' \in [Socks -> {"none", "connect", "wait", "result"}]
      BY <1>1 DEF SockTypeOK
  <2> QED
      BY <1>2, <1>3, <2>1, <2>2, <2>3 DEF SockTypeOK
<1>7. o \notin stale
    BY <1>3 DEF Stages
<1>8. Stages'
    BY <1>3, <1>4, <1>5, <1>7, FdsValid DEF Stages
<1>9. \A p \in Socks : p # o => (Holds(p)' <=> Holds(p))
    BY <1>4 DEF Holds
<1>10. /\ ticket' \in 1 .. ticket'
       /\ \A t \in 1 .. ticket : t \in 1 .. ticket' /\ t # ticket'
    BY <1>2
<1>11. Tickets'
    BY <1>3, <1>4, <1>9, <1>10 DEF Tickets
<1>12. Apart'
    BY <1>3, <1>4, <1>9, <1>10 DEF Apart, Tickets
<1>13. \A g \in Fds, t \in 1 .. ticket : Has(t, g) => Has(t, g)'
    BY <1>2, <1>3 DEF Has
<1>14. ASSUME NEW p \in Socks, p # o PROVE SocketHas(p)'
  <2>1. SocketHas(p) /\ (Holds(p) => own[p] \in 1 .. ticket)
      BY DEF Tickets
  <2>2. /\ sfd[p] # INVALID_FD => sfd[p] \in Fds
        /\ cpc[p] # "none" => s[p] \in Fds
      BY DEF SockTypeOK, Stages
  <2>3. sfd[p] # INVALID_FD /\ p \notin stale => Has(own[p], sfd[p])'
      BY <1>4, <1>13, <1>14, <2>1, <2>2 DEF SocketHas, Holds, Has
  <2>4. cpc[p] # "none" => Has(own[p], s[p])'
      BY <1>4, <1>13, <1>14, <2>1, <2>2 DEF SocketHas, Holds, Has
  <2> QED
      BY <1>3, <1>4, <1>14, <2>3, <2>4 DEF SocketHas
<1>15. SocketHas(o)'
    BY <1>2, <1>4, <1>5 DEF SocketHas, Has
<1>16. lfd' # INVALID_FD => Has(lown, lfd)'
  <2>1. lfd # INVALID_FD => lfd \in Fds /\ lown \in 1 .. ticket
      BY DEF Tickets, SockTypeOK
  <2> QED
      BY <1>3, <1>13, <2>1 DEF Has
<1> QED
    BY <1>6, <1>8, <1>11, <1>12, <1>14, <1>15, <1>16

\* A connect() goes on, or returns a socket with the descriptor it made.
LEMMA ConnectKeeps ==
    ASSUME SockInv, NEW o \in Socks, ConnectReturns(o) \/ ConnectWaits(o)
    PROVE  SockInv'
<1> USE DEF SockInv
<1>1. /\ UNCHANGED <<table, ticket, own, s, lfd, lown, stale, wronged>>
      /\ cpc[o] # "none"
      /\ \A p \in Socks : p # o => sfd'[p] = sfd[p] /\ cpc'[p] = cpc[p]
    BY DEF ConnectReturns, ConnectWaits, Returned, SockTypeOK
<1>2. sfd[o] = INVALID_FD /\ s[o] \in Fds /\ o \notin stale
    BY <1>1 DEF Stages
<1>3. \/ sfd'[o] = s[o] /\ cpc'[o] = "none"
      \/ sfd'[o] = sfd[o] /\ cpc'[o] \in {"wait", "result"}
    BY DEF ConnectReturns, ConnectWaits, Returned, SockTypeOK
<1>4. SockTypeOK'
    BY <1>1, <1>2 DEF ConnectReturns, ConnectWaits, Returned, SockTypeOK
<1>5. Stages'
    BY <1>1, <1>2, <1>3, FdsValid DEF Stages
<1>6. \A p \in Socks : Holds(p)' <=> Holds(p)
    BY <1>1, <1>2, <1>3, FdsValid DEF Holds
<1>7. Tickets' /\ Apart'
    BY <1>1, <1>6 DEF Tickets, Apart
<1>8. \A g, t : Has(t, g)' <=> Has(t, g)
    BY <1>1 DEF Has
<1>9. Has(own[o], s[o])
    BY <1>1 DEF SocketHas
<1>10. \A p \in Socks : SocketHas(p)'
    BY <1>1, <1>2, <1>3, <1>9 DEF SocketHas, Has
<1>11. lfd' # INVALID_FD => Has(lown, lfd)'
    BY <1>1 DEF Has
<1> QED
    BY <1>4, <1>5, <1>7, <1>10, <1>11

\* Once o's ticket is out of the way, what the others have stays theirs.
OthersHave(o) ==
    /\ \A p \in Socks : p # o => SocketHas(p)'
    /\ lfd' # INVALID_FD => Has(lown, lfd)'
\* They do when only o changes what it has.
LEMMA OthersUntouched ==
    ASSUME SockInv, NEW o \in Socks, Holds(o),
           \A g \in Fds, t \in 1 .. ticket : t # own[o] /\ Has(t, g) => Has(t, g)',
           UNCHANGED <<own, s, lfd, lown>>, stale \subseteq stale' \cup {o},
           \A p \in Socks : p # o => sfd'[p] = sfd[p] /\ cpc'[p] = cpc[p]
    PROVE  OthersHave(o)
<1> USE DEF SockInv
<1>1. ASSUME NEW p \in Socks, p # o PROVE SocketHas(p)'
  <2>1. SocketHas(p) /\ (Holds(p) => own[p] \in 1 .. ticket /\ own[p] # own[o])
      BY <1>1 DEF Tickets, Apart
  <2>2. /\ sfd[p] # INVALID_FD => sfd[p] \in Fds
        /\ cpc[p] # "none" => s[p] \in Fds
      BY DEF SockTypeOK, Stages
  <2>3. sfd[p] # INVALID_FD /\ p \notin stale' => Has(own[p], sfd[p])'
      BY <1>1, <2>1, <2>2 DEF SocketHas, Holds, Has
  <2>4. cpc[p] # "none" => Has(own[p], s[p])'
      BY <1>1, <2>1, <2>2 DEF SocketHas, Holds, Has
  <2> QED
      BY <1>1, <2>3, <2>4 DEF SocketHas
<1>2. lfd' # INVALID_FD => Has(lown, lfd)'
  <2>1. lfd # INVALID_FD => lfd \in Fds /\ lown \in 1 .. ticket /\ lown # own[o]
      BY DEF Tickets, SockTypeOK, Apart
  <2> QED
      BY <2>1 DEF Has
<1> QED
    BY <1>1, <1>2 DEF OthersHave

\* The connection was refused: the socket that is returned is stale.
LEMMA ResultKeeps == ASSUME SockInv, NEW o \in Socks, ConnectResult(o) PROVE SockInv'
<1> USE DEF SockInv
<1>1. /\ UNCHANGED <<ticket, own, s, lfd, lown>>
      /\ cpc[o] = "result" /\ sfd'[o] = s[o] /\ cpc'[o] = "none"
      /\ \A p \in Socks : p # o => sfd'[p] = sfd[p] /\ cpc'[p] = cpc[p]
    BY DEF ConnectResult, Returned, SockTypeOK
<1>2. sfd[o] = INVALID_FD /\ s[o] \in Fds /\ o \notin stale /\ Holds(o) /\ Has(own[o], s[o])
    BY <1>1 DEF Stages, Holds, SocketHas
<1>3. sfd' \in [Socks -> Fds \cup {INVALID_FD}]
      /\ cpc' \in [Socks -> {"none", "connect", "wait", "result"}]
    BY <1>2 DEF ConnectResult, Returned, SockTypeOK
<1>4. \A p \in Socks : Holds(p)' <=> Holds(p)
    BY <1>1, <1>2, FdsValid DEF Holds
<1>5. Tickets' /\ Apart'
    BY <1>1, <1>4 DEF Tickets, Apart
<1>6. CASE UNCHANGED <<table, stale, wronged>>
  <2>1. SockTypeOK'
      BY <1>1, <1>3, <1>6 DEF SockTypeOK
  <2>2. Stages'
      BY <1>1, <1>2, <1>6, FdsValid DEF Stages
  <2>3. OthersHave(o)
      BY <1>1, <1>2, <1>6, OthersUntouched DEF Has
  <2>4. SocketHas(o)'
      BY <1>1, <1>2, <1>6 DEF SocketHas, Has
  <2> QED
      BY <1>5, <2>1, <2>2, <2>3, <2>4 DEF OthersHave
<1>7. CASE Closes(s[o], o) /\ stale' = stale \cup {o}
  <2>1. /\ table' \in [Fds -> Nat]
        /\ \A g \in Fds, t \in 1 .. ticket : t # own[o] /\ Has(t, g) => Has(t, g)'
      BY <1>2, <1>7, ClosesOwn
  <2>2. SockTypeOK'
      BY <1>1, <1>3, <1>7, <2>1 DEF SockTypeOK
  <2>3. Stages'
      BY <1>1, <1>2, <1>7, FdsValid DEF Stages
  <2>4. OthersHave(o)
      BY <1>1, <1>2, <1>7, <2>1, OthersUntouched
  <2>5. SocketHas(o)'
      BY <1>1, <1>7 DEF SocketHas
  <2> QED
      BY <1>5, <2>2, <2>3, <2>4, <2>5 DEF OthersHave
<1> QED
    BY <1>6, <1>7 DEF ConnectResult

\* close() and detach(): the socket has no descriptor any more.
LEMMA DropKeeps ==
    ASSUME SockInv, NEW o \in Socks, SocketClose(o) \/ Detach(o)
    PROVE  SockInv'
<1> USE DEF SockInv
<1>1. /\ UNCHANGED <<ticket, own, cpc, s, lfd, lown>> /\ stale' = stale \ {o}
      /\ sfd[o] # INVALID_FD /\ sfd'[o] = INVALID_FD
      /\ \A p \in Socks : p # o => sfd'[p] = sfd[p]
    BY DEF SocketClose, Detach, SockTypeOK
<1>2. /\ cpc[o] = "none" /\ Holds(o) /\ sfd[o] \in Fds
      /\ o \in stale \/ Has(own[o], sfd[o])
    BY <1>1 DEF Stages, Holds, SocketHas, SockTypeOK
<1>3. sfd' \in [Socks -> Fds \cup {INVALID_FD}]
    BY DEF SocketClose, Detach, SockTypeOK
<1>4. \A p \in Socks : Holds(p)' => Holds(p)
    BY <1>1, <1>2 DEF Holds
<1>5. Tickets' /\ Apart' /\ Stages'
    BY <1>1, <1>2, <1>4 DEF Tickets, Apart, Stages
<1>6. /\ table' \in [Fds -> Nat]
      /\ \A g \in Fds, t \in 1 .. ticket : t # own[o] /\ Has(t, g) => Has(t, g)'
  <2>1. CASE SocketClose(o)
      BY <1>2, <2>1, ClosesOwn DEF SocketClose
  <2>2. CASE Detach(o)
      BY <2>2 DEF Detach, Has, SockTypeOK
  <2> QED
      BY <2>1, <2>2
<1>7. SockTypeOK'
    BY <1>1, <1>3, <1>6 DEF SockTypeOK
<1>8. OthersHave(o)
    BY <1>1, <1>2, <1>6, OthersUntouched
<1>9. SocketHas(o)'
    BY <1>1, <1>2 DEF SocketHas
<1> QED
    BY <1>5, <1>7, <1>8, <1>9 DEF OthersHave

\* A move gives the target the source's descriptor, its ticket, and its past.
LEMMA MoveKeeps ==
    ASSUME SockInv, NEW o \in Socks, NEW p \in Socks, Move(o, p)
    PROVE  SockInv'
<1> USE DEF SockInv
<1>1. /\ UNCHANGED <<table, ticket, cpc, s, lfd, lown, wronged>>
      /\ o # p /\ sfd[o] # INVALID_FD /\ cpc[p] = "none"
      /\ sfd'[p] = sfd[o] /\ sfd'[o] = INVALID_FD
      /\ own'[p] = own[o]
      /\ \A q \in Socks : q # p => own'[q] = own[q]
      /\ \A q \in Socks : q # p /\ q # o => sfd'[q] = sfd[q]
    BY DEF Move, SockTypeOK
<1>2. /\ o \notin stale' /\ (p \in stale' <=> o \in stale)
      /\ \A q \in Socks : q # p /\ q # o => (q \in stale' <=> q \in stale)
    BY <1>1 DEF Move
<1>3. cpc[o] = "none" /\ Holds(o)
    BY <1>1 DEF Stages, Holds
<1>4. SockTypeOK'
  <2>1. sfd' \in [Socks -> Fds \cup {INVALID_FD}] /\ own' \in [Socks -> Nat]
      BY DEF Move, SockTypeOK
  <2>2. stale' \subseteq Socks
      BY DEF Move, SockTypeOK
  <2> QED
      BY <1>1, <2>1, <2>2 DEF SockTypeOK
<1>5. Stages'
    BY <1>1, <1>2, <1>3 DEF Stages
<1>6. ~Holds(o)' /\ \A q \in Socks : q # p /\ q # o => (Holds(q)' <=> Holds(q))
    BY <1>1, <1>3 DEF Holds
<1>7. Tickets'
    BY <1>1, <1>3, <1>6 DEF Tickets
<1>8. Apart'
    BY <1>1, <1>3, <1>6 DEF Apart
<1>9. \A q \in Socks : SocketHas(q)'
    BY <1>1, <1>2, <1>3 DEF SocketHas, Has
<1>10. lfd' # INVALID_FD => Has(lown, lfd)'
    BY <1>1 DEF Has
<1> QED
    BY <1>4, <1>5, <1>7, <1>8, <1>9, <1>10

\* What touches no ticket that is held leaves the sockets as they are.
LEMMA SocketsUntouched ==
    ASSUME SockInv, ticket' \in Nat, ticket <= ticket', table' \in [Fds -> Nat],
           UNCHANGED <<sfd, own, cpc, s, stale, wronged>>,
           \A o \in Socks, g \in Fds : Holds(o) /\ table[g] = own[o] => table'[g] = own[o]
    PROVE  /\ Stages' /\ \A o \in Socks : SocketHas(o)' /\ (Holds(o)' <=> Holds(o))
           /\ \A o \in Socks : Holds(o)' => own'[o] \in 1 .. ticket /\ own'[o] \in 1 .. ticket'
           /\ \A o, p \in Socks : Holds(o)' /\ Holds(p)' /\ own'[o] = own'[p] => o = p
<1> USE DEF SockInv
<1>1. Stages' /\ \A o \in Socks : Holds(o)' <=> Holds(o)
    BY DEF Stages, Holds
<1>2. ASSUME NEW o \in Socks PROVE SocketHas(o)'
  <2>1. SocketHas(o)
      OBVIOUS
  <2>2. /\ sfd[o] # INVALID_FD => sfd[o] \in Fds /\ Holds(o)
        /\ cpc[o] # "none" => s[o] \in Fds /\ Holds(o)
      BY DEF SockTypeOK, Stages, Holds
  <2> QED
      BY <2>1, <2>2 DEF SocketHas, Has
<1>3. ASSUME NEW o \in Socks, Holds(o) PROVE own[o] \in 1 .. ticket /\ own[o] \in 1 .. ticket'
  <2>1. own[o] \in 1 .. ticket /\ ticket \in Nat
      BY <1>3 DEF Tickets, SockTypeOK
  <2> QED
      BY <2>1
<1>4. \A o, p \in Socks : Holds(o) /\ Holds(p) /\ own[o] = own[p] => o = p
    BY DEF Apart
<1> QED
    BY <1>1, <1>2, <1>3, <1>4

\* listen() makes a listener with a new ticket, or leaves a descriptor behind;
\* the rest of the program opens one.
LEMMA OpenKeeps == ASSUME SockInv, Listen \/ OthersOpen PROVE SockInv'
<1> USE DEF SockInv
<1>1. PICK f \in Fds : /\ Opens(f)
                       /\ \/ lfd' = f /\ lown' = ticket + 1
                          \/ UNCHANGED <<lfd, lown>>
    BY DEF Listen, OthersOpen
<1>2. /\ table' \in [Fds -> Nat] /\ ticket' = ticket + 1 /\ ticket' \in Nat /\ ticket \in Nat
      /\ table'[f] = ticket'
      /\ \A g \in Fds, t \in 1 .. ticket : table[g] = t => table'[g] = t
    BY <1>1, OpensFree DEF SockTypeOK
<1>3. UNCHANGED <<sfd, own, cpc, s, stale, wronged>>
    BY DEF Listen, OthersOpen
<1>4. \A o \in Socks, g \in Fds : Holds(o) /\ table[g] = own[o] => table'[g] = own[o]
    BY <1>2 DEF Tickets
<1>5. /\ Stages' /\ \A o \in Socks : SocketHas(o)' /\ (Holds(o)' <=> Holds(o))
      /\ \A o \in Socks : Holds(o)' => own'[o] \in 1 .. ticket /\ own'[o] \in 1 .. ticket'
      /\ \A o, p \in Socks : Holds(o)' /\ Holds(p)' /\ own'[o] = own'[p] => o = p
  <2>1. ticket <= ticket'
      BY <1>2
  <2> QED
      BY <1>2, <1>3, <1>4, <2>1, SocketsUntouched
<1>6. ticket' \notin 1 .. ticket /\ ticket' \in 1 .. ticket' /\ 1 .. ticket \subseteq 1 .. ticket'
    BY <1>2
<1>7. CASE lfd' = f /\ lown' = ticket + 1
  <2>1. SockTypeOK'
      BY <1>2, <1>3, <1>7 DEF SockTypeOK
  <2>2. Tickets'
      BY <1>2, <1>5, <1>6, <1>7 DEF Tickets
  <2>3. Apart'
      BY <1>2, <1>5, <1>6, <1>7 DEF Apart
  <2>4. Has(lown, lfd)'
      BY <1>2, <1>7 DEF Has
  <2> QED
      BY <1>5, <2>1, <2>2, <2>3, <2>4
<1>8. CASE UNCHANGED <<lfd, lown>>
  <2>1. SockTypeOK'
      BY <1>2, <1>3, <1>8 DEF SockTypeOK
  <2>2. Tickets'
      BY <1>5, <1>6, <1>8 DEF Tickets
  <2>3. Apart'
      BY <1>3, <1>5, <1>8 DEF Apart
  <2>4. lfd # INVALID_FD => lfd \in Fds /\ lown \in 1 .. ticket /\ Has(lown, lfd)
      BY DEF Tickets, SockTypeOK
  <2>5. lfd' # INVALID_FD => Has(lown, lfd)'
      BY <1>2, <1>3, <1>8, <2>4 DEF Has
  <2> QED
      BY <1>5, <2>1, <2>2, <2>3, <2>5
<1> QED
    BY <1>1, <1>7, <1>8

\* The listener closes, or the rest of the program closes what is its own.
LEMMA OtherCloseKeeps == ASSUME SockInv, ListenerClose \/ OthersClose PROVE SockInv'
<1> USE DEF SockInv
<1>1. UNCHANGED <<sfd, own, cpc, s, stale, wronged, ticket, lown>>
    BY DEF ListenerClose, OthersClose
<1>2. \/ UNCHANGED table /\ lfd' = INVALID_FD
      \/ /\ UNCHANGED lfd
         /\ \E f \in Fds : table[f] \notin Taken /\ table' = [table EXCEPT ![f] = 0]
    BY DEF ListenerClose, OthersClose
<1>3. table' \in [Fds -> Nat] /\ ticket' \in Nat /\ ticket <= ticket'
    BY <1>1, <1>2 DEF SockTypeOK
<1>4. /\ \A o \in Socks : Holds(o) => own[o] \in Taken
      /\ lfd # INVALID_FD => lown \in Taken
    BY DEF Taken, Holds
<1>5. \A t \in Taken, g \in Fds : table[g] = t => table'[g] = t
    BY <1>2 DEF SockTypeOK
<1>6. /\ Stages' /\ \A o \in Socks : SocketHas(o)' /\ (Holds(o)' <=> Holds(o))
      /\ \A o \in Socks : Holds(o)' => own'[o] \in 1 .. ticket /\ own'[o] \in 1 .. ticket'
      /\ \A o, p \in Socks : Holds(o)' /\ Holds(p)' /\ own'[o] = own'[p] => o = p
    BY <1>1, <1>3, <1>4, <1>5, SocketsUntouched
<1>7. lfd' # INVALID_FD => lfd' = lfd /\ lfd # INVALID_FD
    BY <1>2
<1>8. SockTypeOK'
    BY <1>1, <1>2, <1>3 DEF SockTypeOK
<1>9. Tickets'
    BY <1>1, <1>6, <1>7 DEF Tickets
<1>10. Apart'
    BY <1>1, <1>6, <1>7 DEF Apart
<1>11. lfd' # INVALID_FD => Has(lown, lfd)'
  <2>1. lfd # INVALID_FD => lfd \in Fds
      BY DEF SockTypeOK
  <2> QED
      BY <1>1, <1>4, <1>5, <1>7, <2>1 DEF Has
<1> QED
    BY <1>6, <1>8, <1>9, <1>10, <1>11

\* For any number of sockets and descriptors (tcp.cpp, socket.cpp): a socket, a
\* listener and a connect() have the descriptor they were made with, through
\* moves, closes and the reuse of numbers, unless a socket that connect()
\* returned after closing it has closed it for them.
THEOREM OwnsDescriptors == SockSpec => []OwnsWhatItHas
<1>1. SockInv /\ [SockNext]_sockVars => SockInv'
  <2> SUFFICES ASSUME SockInv, [SockNext]_sockVars PROVE SockInv'
      OBVIOUS
  <2>1. ASSUME NEW o \in Socks,
               \/ ConnectSocket(o) \/ ConnectReturns(o) \/ ConnectWaits(o)
               \/ ConnectResult(o) \/ Accept(o) \/ SocketClose(o) \/ Detach(o)
               \/ \E p \in Socks : Move(o, p)
        PROVE  SockInv'
      BY <2>1, MadeKeeps, ConnectKeeps, ResultKeeps, DropKeeps, MoveKeeps
  <2>2. CASE Listen \/ ListenerClose \/ OthersOpen \/ OthersClose
      BY <2>2, OpenKeeps, OtherCloseKeeps
  <2>3. CASE UNCHANGED sockVars
    <3>1. SockTypeOK' /\ Stages'
        BY <2>3 DEF sockVars, SockInv, SockTypeOK, Stages
    <3>2. Tickets' /\ Apart'
        BY <2>3 DEF sockVars, SockInv, Tickets, Apart, Holds
    <3>3. (\A o \in Socks : SocketHas(o)') /\ (lfd' # INVALID_FD => Has(lown, lfd)')
        BY <2>3 DEF sockVars, SockInv, SocketHas, Has
    <3> QED
        BY <3>1, <3>2, <3>3 DEF SockInv
  <2> QED
      BY <2>1, <2>2, <2>3 DEF SockNext
<1>2. SockInv => OwnsWhatItHas
    BY DEF SockInv, SocketHas, Has, OwnsWhatItHas
<1> QED
    BY <1>1, <1>2, SockInitInv, PTL DEF SockSpec
-----------------------------------------------------------------------------
(***************************************************************************)
(* The DNS socket.  AnswerIsForQuery lacks what a check that returned 0    *)
(* says of the answer, until it is fetched or another query is submitted.  *)
(***************************************************************************)
SoAnswerInv ==
    /\ AnswerIsForQuery
    /\ ok => /\ answer.qid = qid /\ (answer.tc => type = "DGRAM")
             /\ state \in {"UDP_DONE", "TCP_DONE"}

\* A query is submitted, or its answer fetched.
LEMMA SubmitKeeps ==
    ASSUME SoAnswerInv, (\E h \in Hosts, fresh \in BOOLEAN : SoSubmit(h, fresh)) \/ SoFetch
    PROVE  SoAnswerInv'
<1>1. CASE \E h \in Hosts, fresh \in BOOLEAN : SoSubmit(h, fresh)
  <2>1. ok' = FALSE /\ fetched' = <<0, NoAnswer>> /\ NoAnswer.tc = FALSE
      BY <1>1 DEF SoSubmit, SoReset, NoAnswer
  <2> QED
      BY <2>1 DEF SoAnswerInv, AnswerIsForQuery
<1>2. CASE SoFetch
  <2>1. /\ ok' = FALSE /\ fetched' = <<qid, answer>> /\ type' = type
        /\ answer.qid = qid /\ (answer.tc => type = "DGRAM")
      BY <1>2 DEF SoFetch, SoReset, callVars, SoAnswerInv
  <2> QED
      BY <2>1 DEF SoAnswerInv, AnswerIsForQuery
<1> QED
    BY <1>1, <1>2

\* A datagram is an answer only if it verifies, and the last one only if it is
\* whole or TCP may not be used.
LEMMA UdpRecvKeeps == ASSUME SoAnswerInv, NEW r, UdpRecv(r) PROVE SoAnswerInv'
<1>1. ~ok /\ UNCHANGED <<type, qid, fetched>> /\ answer' = r
    BY DEF UdpRecv, callVars, SoAnswerInv
<1>2. ok' => r.qid = qid /\ ~(r.tc /\ type # "DGRAM") /\ state' = "UDP_DONE"
    BY <1>1 DEF UdpRecv, SoVerify
<1> QED
    BY <1>1, <1>2 DEF SoAnswerInv, AnswerIsForQuery

\* What was read over TCP is an answer only if it verifies; it is whole.
LEMMA TcpDoneKeeps == ASSUME SoAnswerInv, TcpDone PROVE SoAnswerInv'
<1>1. UNCHANGED <<type, qid, fetched, state>> /\ state = "TCP_DONE"
    BY DEF TcpDone, callVars
<1>2. (ok' <=> answer'.qid = qid) /\ answer'.tc = FALSE
    BY DEF TcpDone, SoVerify, NoAnswer
<1> QED
    BY <1>1, <1>2 DEF SoAnswerInv, AnswerIsForQuery

\* The other steps change the state of a query that is not answered only.
LEMMA OtherSoKeeps ==
    ASSUME SoAnswerInv, UNCHANGED <<type, qid, fetched, answer, ok>>,
           state' = state \/ state \notin {"UDP_DONE", "TCP_DONE"}
    PROVE  SoAnswerInv'
    BY DEF SoAnswerInv, AnswerIsForQuery

\* Whatever is lost, late, duplicated or left over on a kept connection (the
\* dns_so_*() of dns.c), an answer that is fetched is the one to the query that
\* was submitted last, and truncated only without TCP.
THEOREM AnswersLastQuery == SoSpec => []AnswerIsForQuery
<1>1. SoInit => SoAnswerInv
    BY DEF SoInit, SoAnswerInv, AnswerIsForQuery, NoAnswer
<1>2. SoAnswerInv /\ [SoNext]_soVars => SoAnswerInv'
  <2> SUFFICES ASSUME SoAnswerInv, [SoNext]_soVars PROVE SoAnswerInv'
      OBVIOUS
  <2>1. CASE (\E h \in Hosts, fresh \in BOOLEAN : SoSubmit(h, fresh)) \/ SoFetch
      BY <2>1, SubmitKeeps
  <2>2. CASE \E r \in replies : UdpRecv(r)
      BY <2>2, UdpRecvKeeps
  <2>3. CASE TcpDone
      BY <2>3, TcpDoneKeeps
  <2>4. CASE UdpConn \/ UdpSend \/ TcpKeep \/ TcpInit \/ TcpConn \/ TcpSendBlocks
      BY <2>4, OtherSoKeeps DEF UdpConn, UdpSend, TcpKeep, TcpInit, TcpConn, TcpSendBlocks, callVars
  <2>5. ASSUME NEW k \in 1 .. MsgEnd, TcpSend(k) \/ TcpRecv(k) PROVE SoAnswerInv'
      BY <2>5, OtherSoKeeps DEF TcpSend, TcpRecv, callVars
  <2>6. CASE SoClear \/ TcpReply \/ \E q \in 1 .. MaxQids, tc \in BOOLEAN : UdpReply(q, tc)
      BY <2>6, OtherSoKeeps DEF SoClear, TcpReply, UdpReply, callVars
  <2>7. CASE UNCHANGED soVars
      BY <2>7, OtherSoKeeps DEF soVars
  <2> QED
      BY <2>1, <2>2, <2>3, <2>4, <2>5, <2>6, <2>7 DEF SoNext
<1>3. SoAnswerInv => AnswerIsForQuery
    BY DEF SoAnswerInv
<1> QED
    BY <1>1, <1>2, <1>3, PTL DEF SoSpec

(***************************************************************************)
(* Its descriptors.  What PollfdUnambiguous lacks is that a number with a  *)
(* meaning is still open, so that it is not handed out again.              *)
(***************************************************************************)
Aside == {udp} \cup Range(old)
PollInv ==
    /\ udp \in Nat \ {0} /\ tcp \in Nat /\ old \in Seq(Nat \ {0})
    /\ named \in [1 .. NumNumbers -> SUBSET Nat] /\ sockets \in Nat
    /\ \A k \in 1 .. NumNumbers : named[k] # {} => k \in open /\ \E x \in Nat : named[k] = {x}
    /\ Aside \subseteq open /\ (tcp # NoFd => tcp \in open)
    /\ IsFiniteSet(Aside) /\ Cardinality(Aside) = 1 + Len(old)
    /\ tcp \notin Aside /\ udp \notin Range(old)

\* A descriptor put aside is one more of them.
LEMMA OneMoreAside ==
    ASSUME PollInv, tcp # NoFd
    PROVE  LET o == Append(old, tcp) IN
           /\ o \in Seq(Nat \ {0}) /\ Range(o) = Range(old) \cup {tcp}
           /\ IsFiniteSet({udp} \cup Range(o)) /\ Cardinality({udp} \cup Range(o)) = 1 + Len(o)
<1> DEFINE o == Append(old, tcp)
<1> USE DEF PollInv
<1>1. o \in Seq(Nat \ {0}) /\ Len(o) = Len(old) + 1 /\ Len(old) \in Nat
    BY DEF NoFd
<1>2. /\ DOMAIN o = 1 .. Len(old) + 1 /\ DOMAIN old = 1 .. Len(old)
      /\ o[Len(old) + 1] = tcp /\ \A i \in 1 .. Len(old) : o[i] = old[i]
    OBVIOUS
<1> HIDE DEF o
<1>3. Range(o) = Range(old) \cup {tcp}
  <2>1. \A i \in 1 .. Len(old) + 1 : i = Len(old) + 1 \/ i \in 1 .. Len(old)
      BY <1>1
  <2>2. 1 .. Len(old) \subseteq 1 .. Len(old) + 1 /\ Len(old) + 1 \in 1 .. Len(old) + 1
      BY <1>1
  <2> QED
      BY <1>2, <2>1, <2>2 DEF Range
<1>4. {udp} \cup Range(o) = Aside \cup {tcp}
    BY <1>3 DEF Aside
<1>5. IsFiniteSet(Aside \cup {tcp}) /\ Cardinality(Aside \cup {tcp}) = Cardinality(Aside) + 1
    BY FS_AddElement
<1>6. Cardinality({udp} \cup Range(o)) = 1 + Len(o)
  <2>1. Cardinality(Aside) = 1 + Len(old)
      OBVIOUS
  <2>2. Cardinality({udp} \cup Range(o)) = Cardinality(Aside) + 1
      BY <1>4, <1>5, Zenon
  <2> HIDE DEF PollInv
  <2> QED
      BY <1>1, <2>1, <2>2
<1> QED
    BY <1>1, <1>3, <1>4, <1>5, <1>6 DEF o

\* The connection is given up for a new socket: its number was not open.
LEMMA TcpInitKeeps == ASSUME PollInv, TcpInit PROVE PollInv'
<1> DEFINE free == (1 .. NumNumbers) \ open
<1>1. /\ udp' = udp
      /\ old' = IF tcp = NoFd THEN old ELSE Append(old, tcp)
      /\ IF free = {} THEN tcp' = NoFd /\ open' = open /\ UNCHANGED <<named, sockets>>
         ELSE /\ tcp' = Min(free) /\ open' = open \cup {Min(free)} /\ sockets' = sockets + 1
              /\ named' = [named EXCEPT ![Min(free)] = @ \cup {sockets + 1}]
    BY DEF TcpInit, SoCloseFd
<1>2. /\ old' \in Seq(Nat \ {0}) /\ Aside' \subseteq open /\ udp \notin Range(old')
      /\ IsFiniteSet(Aside') /\ Cardinality(Aside') = 1 + Len(old') /\ 0 \notin Aside'
  <2>1. CASE tcp = NoFd
    <3>1. old' = old
        BY <1>1, <2>1
    <3> QED
        BY <1>1, <2>1, <3>1 DEF PollInv, Aside, NoFd
  <2>2. CASE tcp # NoFd
    <3>1. old' = Append(old, tcp)
        BY <1>1, <2>2
    <3>2. /\ old' \in Seq(Nat \ {0}) /\ Range(old') = Range(old) \cup {tcp}
          /\ IsFiniteSet({udp} \cup Range(old')) /\ Cardinality({udp} \cup Range(old')) = 1 + Len(old')
        BY <2>2, <3>1, OneMoreAside
    <3>3. 0 \notin {udp} \cup Range(old')
        BY <2>2, <3>2 DEF PollInv, Range, NoFd
    <3> QED
        BY <1>1, <2>2, <3>2, <3>3 DEF PollInv, Aside
  <2> QED
      BY <2>1, <2>2
<1>3. CASE free = {}
  <2>1. tcp' = NoFd /\ open' = open /\ UNCHANGED <<named, sockets, udp>>
      BY <1>1, <1>3
  <2> QED
      BY <1>2, <2>1 DEF PollInv, NoFd
<1>4. CASE free # {}
  <2> DEFINE m == Min(free)
  <2>1. m \in free
      BY <1>4, LeastIn
  <2>2. /\ tcp' = m /\ open' = open \cup {m} /\ sockets' = sockets + 1 /\ udp' = udp
        /\ named' = [named EXCEPT ![m] = @ \cup {sockets + 1}]
      BY <1>1, <1>4
  <2> HIDE DEF m
  <2>3. m \in 1 .. NumNumbers /\ m \notin open /\ m \in Nat /\ m # 0
      BY <2>1
  <2>4. named[m] = {}
      BY <2>3 DEF PollInv
  <2>5. named' \in [1 .. NumNumbers -> SUBSET Nat] /\ sockets' \in Nat
      BY <2>2, <2>3 DEF PollInv
  <2>6. /\ named'[m] = {sockets + 1}
        /\ \A k \in 1 .. NumNumbers : k # m => named'[k] = named[k]
      BY <2>2, <2>3, <2>4 DEF PollInv
  <2>7. \A k \in 1 .. NumNumbers : named'[k] # {} => k \in open' /\ \E x \in Nat : named'[k] = {x}
      BY <2>2, <2>3, <2>5, <2>6 DEF PollInv
  <2> QED
      BY <1>2, <2>2, <2>3, <2>5, <2>7 DEF PollInv
<1> QED
    BY <1>3, <1>4

\* TCP is done: the connection is put aside, and its number stays open.
LEMMA PutAside ==
    ASSUME PollInv, tcp # NoFd, old' = Append(old, tcp), tcp' = NoFd, UNCHANGED <<open, udp, named, sockets>>
    PROVE  PollInv'
<1>1. /\ old' \in Seq(Nat \ {0}) /\ Range(old') = Range(old) \cup {tcp}
      /\ IsFiniteSet({udp} \cup Range(old')) /\ Cardinality({udp} \cup Range(old')) = 1 + Len(old')
    BY OneMoreAside
<1>2. 0 \notin {udp} \cup Range(old')
    BY <1>1 DEF PollInv, Range, NoFd
<1>3. Aside' = {udp} \cup Range(old') /\ Aside' = Aside \cup {tcp}
    BY <1>1 DEF Aside
<1>4. Aside' \subseteq open' /\ udp \notin Range(old')
    BY <1>1, <1>3 DEF PollInv, Aside
<1> QED
    BY <1>1, <1>2, <1>3, <1>4 DEF PollInv, NoFd

\* dns_so_clear(): what was put aside is closed, and nobody knows its numbers.
LEMMA ClearKeeps == ASSUME PollInv, SoClear PROVE PollInv'
<1>1. /\ open' = open \ Range(old) /\ old' = <<>> /\ UNCHANGED <<udp, tcp, sockets>>
      /\ named' = [k \in DOMAIN named |-> IF k = tcp THEN {sockets} ELSE {}]
    BY DEF SoClear
<1>2. Range(<<>>) = {} /\ Len(<<>>) = 0
    BY DEF Range
<1>3. Aside' = {udp}
    BY <1>1, <1>2 DEF Aside
<1>4. IsFiniteSet({udp}) /\ Cardinality({udp}) = 1
    BY FS_Singleton
<1>5. /\ named' \in [1 .. NumNumbers -> SUBSET Nat]
      /\ \A k \in 1 .. NumNumbers : named'[k] = IF k = tcp THEN {sockets} ELSE {}
    BY <1>1 DEF PollInv
<1>6. tcp \notin Range(old) /\ udp \in open' /\ (tcp # NoFd => tcp \in open')
    BY <1>1 DEF PollInv, Aside
<1>7. \A k \in 1 .. NumNumbers : named'[k] # {} => k \in open' /\ \E x \in Nat : named'[k] = {x}
    BY <1>5, <1>6 DEF PollInv, NoFd
<1>8. old' \in Seq(Nat \ {0}) /\ udp \notin Range(old') /\ Cardinality(Aside') = 1 + Len(old')
    BY <1>1, <1>2, <1>3, <1>4
<1> QED
    BY <1>1, <1>3, <1>4, <1>5, <1>6, <1>7, <1>8 DEF PollInv, Aside

\* However often the connection changes between two calls of dns_so_clear()
\* (dns_so_closefd() of dns.c), a number that dns_so_pollfd() returned keeps its
\* meaning, and what is kept or put aside is open, and distinct.
THEOREM OneMeaningEach == SoSpec => []PollfdUnambiguous
<1>1. SoInit => PollInv
  <2> SUFFICES ASSUME SoInit PROVE PollInv
      OBVIOUS
  <2>1. Range(<<>>) = {} /\ Len(<<>>) = 0 /\ IsFiniteSet({1}) /\ Cardinality({1}) = 1
      BY FS_Singleton DEF Range
  <2>2. Aside = {1} /\ old = <<>> /\ udp = 1 /\ open = {1} /\ tcp = 0 /\ sockets = 0
      BY <2>1 DEF SoInit, Aside, NoFd
  <2>3. named = [k \in 1 .. NumNumbers |-> {}]
      BY DEF SoInit
  <2> QED
      BY <2>1, <2>2, <2>3 DEF PollInv, NoFd
<1>2. PollInv /\ [SoNext]_soVars => PollInv'
  <2> SUFFICES ASSUME PollInv, [SoNext]_soVars PROVE PollInv'
      OBVIOUS
  <2>1. ASSUME UNCHANGED fdVars PROVE PollInv'
      BY <2>1 DEF fdVars, PollInv, Aside
  <2>2. CASE TcpInit
      BY <2>2, TcpInitKeeps
  <2>3. CASE TcpDone
    <3>1. CASE UNCHANGED <<tcp, old, open>>
        BY <2>1, <2>3, <3>1 DEF TcpDone, fdVars
    <3>2. CASE ~UNCHANGED <<tcp, old, open>>
        BY <2>3, <3>2, PutAside DEF TcpDone, SoCloseFd
    <3> QED
        BY <3>1, <3>2
  <2>4. CASE SoClear
      BY <2>4, ClearKeeps
  <2>5. CASE \/ \E h \in Hosts, fresh \in BOOLEAN : SoSubmit(h, fresh)
             \/ UdpConn \/ UdpSend \/ TcpKeep \/ TcpConn \/ TcpSendBlocks \/ SoFetch \/ TcpReply
             \/ \E r \in replies : UdpRecv(r)
             \/ \E k \in 1 .. MsgEnd : TcpSend(k) \/ TcpRecv(k)
             \/ \E q \in 1 .. MaxQids, tc \in BOOLEAN : UdpReply(q, tc)
      BY <2>1, <2>5 DEF SoSubmit, UdpConn, UdpSend, TcpKeep, TcpConn, TcpSendBlocks, SoFetch,
                        TcpReply, UdpRecv, TcpSend, TcpRecv, UdpReply
  <2>6. CASE UNCHANGED soVars
      BY <2>1, <2>6 DEF soVars, fdVars
  <2> QED
      BY <2>2, <2>3, <2>4, <2>5, <2>6 DEF SoNext
<1>3. PollInv => PollfdUnambiguous
  <2> SUFFICES ASSUME PollInv PROVE PollfdUnambiguous
      OBVIOUS
  <2>1. ASSUME NEW k \in DOMAIN named PROVE Cardinality(named[k]) <= 1
    <3>1. CASE named[k] = {}
      <4>1. Cardinality(named[k]) = 0
          BY <3>1, FS_EmptySet
      <4> QED
          BY <4>1
    <3>2. CASE named[k] # {}
      <4>1. PICK x \in Nat : named[k] = {x}
          BY <2>1, <3>2 DEF PollInv
      <4>2. Cardinality(named[k]) = 1
          BY <4>1, FS_Singleton
      <4> QED
          BY <4>2
    <3> QED
        BY <3>1, <3>2
  <2> QED
      BY <2>1 DEF PollInv, PollfdUnambiguous, Aside
<1> QED
    BY <1>1, <1>2, <1>3, PTL DEF SoSpec
-----------------------------------------------------------------------------
(***************************************************************************)
(* The shared configuration.  Every caller of remote() loads at most once, *)
(* so that there is an object for each load; what a load is about to make  *)
(* nobody uses yet.                                                        *)
(***************************************************************************)
Loaders == {c \in Lookers : rpc[c] \in {"start", "conf"}}
Holders(o) == {c \in Lookers : o \in uses[c]}
RefTypeOK ==
    /\ conf \in Nat /\ hosts \in Nat /\ hints \in Nat /\ loads \in Nat
    /\ refs \in [Objects -> Nat]
    /\ uses \in [Lookers -> SUBSET Objects]
    /\ DOMAIN rpc = Lookers
RefInv ==
    /\ RefTypeOK /\ RefsAccounted
    /\ loads + Cardinality(Loaders) <= Cardinality(Lookers)
    /\ \A c \in Lookers : rpc[c] \in {"start", "conf", "hosts", "hints", "open"} => uses[c] = {}
    /\ \A o \in Objects : o[1] = "conf" /\ o[2] > loads => refs[o] = 0

\* What counts in a count: the holders of an object are finitely many, and none
\* of them is there without a reference.
LEMMA HoldersCount ==
    ASSUME RefTypeOK, RefsAccounted, NEW o \in Objects
    PROVE  /\ IsFiniteSet(Holders(o)) /\ Cardinality(Holders(o)) \in Nat
           /\ refs[o] = (IF refs[o] > 0 THEN 1 ELSE 0) + Cardinality(Holders(o))
           /\ refs[o] = 0 => Cardinality(Holders(o)) = 0
<1>1. IsFiniteSet(Holders(o)) /\ Cardinality(Holders(o)) \in Nat
    BY LookersAssumption, FS_Subset, FS_CardinalityType DEF Holders
<1>2. refs[o] = (IF refs[o] > 0 THEN 1 ELSE 0) + Cardinality(Holders(o)) /\ refs[o] \in Nat
    BY DEF RefsAccounted, RefTypeOK, Holders
<1> QED
    BY <1>1, <1>2

\* A load: one reference, for the object that the global now points to.
LEMMA NewObject ==
    ASSUME RefTypeOK, RefsAccounted, RefTypeOK', NEW o \in Objects, refs[o] = 0,
           refs' = [refs EXCEPT ![o] = 1], uses' = uses,
           Loaded' \subseteq Loaded \cup {o}
    PROVE  RefsAccounted'
<1>1. refs'[o] = 1 /\ \A x \in Objects : x # o => refs'[x] = refs[x]
    BY DEF RefTypeOK
<1>2. \A x \in Objects : Holders(x)' = Holders(x)
    BY DEF Holders
<1>3. Objects' = Objects
    BY DEF Objects, Kinds
<1>4. ASSUME NEW x \in Objects
      PROVE  refs'[x] = (IF refs'[x] > 0 THEN 1 ELSE 0) + Cardinality(Holders(x))
  <2>1. CASE x = o
    <3>1. Cardinality(Holders(o)) = 0
        BY HoldersCount
    <3> QED
        BY <2>1, <3>1, <1>1
  <2>2. CASE x # o
    <3>1. refs'[x] = refs[x] /\ refs[x] = (IF refs[x] > 0 THEN 1 ELSE 0) + Cardinality(Holders(x))
        BY <2>2, <1>1, HoldersCount
    <3> QED
        BY <3>1
  <2> QED
      BY <2>1, <2>2
<1>5. \A x \in Loaded : x \in Objects /\ refs[x] > 0
    BY DEF RefsAccounted
<1>6. \A x \in Loaded' : x \in Objects /\ refs'[x] > 0
  <2> SUFFICES ASSUME NEW x \in Loaded' PROVE x \in Objects /\ refs'[x] > 0
      OBVIOUS
  <2>1. CASE x = o
      BY <2>1, <1>1
  <2>2. CASE x # o
      BY <2>2, <1>1, <1>5
  <2> QED
      BY <2>1, <2>2
<1>7. \A x \in Objects : {c \in Lookers : x \in uses'[c]} = Holders(x)
    BY DEF Holders
<1>8. (\A x \in Objects : refs'[x] = (IF refs'[x] > 0 THEN 1 ELSE 0) +
            Cardinality({c \in Lookers : x \in uses'[c]}))
    BY <1>4, <1>7
<1> QED
    BY <1>3, <1>6, <1>8 DEF RefsAccounted

\* dns_res_open(): one more for each of the objects.
LEMMA OpenCounts ==
    ASSUME RefTypeOK, RefsAccounted, RefTypeOK', NEW c \in Lookers, uses[c] = {},
           refs' = [o \in Objects |-> IF o \in Loaded THEN refs[o] + 1 ELSE refs[o]],
           uses' = [uses EXCEPT ![c] = Loaded], UNCHANGED globals
    PROVE  RefsAccounted'
<1>1. uses'[c] = Loaded /\ \A d \in Lookers : d # c => uses'[d] = uses[d]
    BY DEF RefTypeOK
<1>2. Loaded' = Loaded
    BY DEF Loaded, globals
<1>3. ASSUME NEW x \in Objects
      PROVE  /\ refs'[x] = (IF refs'[x] > 0 THEN 1 ELSE 0) + Cardinality({d \in Lookers : x \in uses'[d]})
             /\ refs[x] > 0 => refs'[x] > 0
  <2> DEFINE H == {d \in Lookers : x \in uses'[d]}
  <2>1. /\ IsFiniteSet(Holders(x)) /\ Cardinality(Holders(x)) \in Nat /\ refs[x] \in Nat
        /\ refs[x] = (IF refs[x] > 0 THEN 1 ELSE 0) + Cardinality(Holders(x))
      BY HoldersCount DEF RefTypeOK
  <2>2. CASE x \in Loaded
    <3>1. H = Holders(x) \cup {c} /\ c \notin Holders(x)
        BY <2>2, <1>1 DEF Holders
    <3>2. Cardinality(H) = Cardinality(Holders(x)) + 1
        BY <3>1, <2>1, FS_AddElement
    <3>3. refs[x] > 0 /\ refs'[x] = refs[x] + 1
        BY <2>2 DEF RefsAccounted
    <3> QED
        BY <2>1, <3>2, <3>3
  <2>3. CASE x \notin Loaded
    <3>1. H = Holders(x)
        BY <2>3, <1>1 DEF Holders
    <3>2. refs'[x] = refs[x]
        BY <2>3
    <3> QED
        BY <2>1, <3>1, <3>2
  <2> QED
      BY <2>2, <2>3
<1>4. Loaded' \subseteq {o \in Objects : refs'[o] > 0}
    BY <1>2, <1>3 DEF RefsAccounted
<1> QED
    BY <1>3, <1>4 DEF RefsAccounted, Objects, Kinds

\* dns_res_close(): one less; that of the load stays.
LEMMA CloseCounts ==
    ASSUME RefTypeOK, RefsAccounted, NEW c \in Lookers, ResClose(c), UNCHANGED globals
    PROVE  RefsAccounted' /\ \A x \in Objects : refs'[x] \in Nat /\ refs'[x] <= refs[x]
<1>1. uses'[c] = {} /\ \A d \in Lookers : d # c => uses'[d] = uses[d]
    BY DEF RefTypeOK, ResClose
<1>2. Loaded' = Loaded
    BY DEF Loaded, globals
<1>3. ASSUME NEW x \in Objects
      PROVE  /\ refs'[x] = (IF refs'[x] > 0 THEN 1 ELSE 0) + Cardinality({d \in Lookers : x \in uses'[d]})
             /\ refs[x] > 0 => refs'[x] > 0
             /\ refs'[x] \in Nat /\ refs'[x] <= refs[x]
  <2> DEFINE H == {d \in Lookers : x \in uses'[d]}
  <2>1. /\ IsFiniteSet(Holders(x)) /\ Cardinality(Holders(x)) \in Nat /\ refs[x] \in Nat
        /\ refs[x] = (IF refs[x] > 0 THEN 1 ELSE 0) + Cardinality(Holders(x))
      BY HoldersCount DEF RefTypeOK
  <2>2. CASE x \in uses[c]
    <3>1. H = Holders(x) \ {c} /\ c \in Holders(x)
        BY <2>2, <1>1 DEF Holders
    <3>2. Cardinality(H) = Cardinality(Holders(x)) - 1 /\ IsFiniteSet(H)
        BY <3>1, <2>1, FS_RemoveElement
    <3>3. Cardinality(H) \in Nat
        BY <3>2, FS_CardinalityType
    <3>4. refs'[x] = refs[x] - 1
        BY <2>2 DEF ResClose
    <3>5. Cardinality(Holders(x)) >= 1
        BY <2>1, <3>2, <3>3
    <3>6. refs[x] = 1 + Cardinality(Holders(x))
        BY <2>1, <3>5
    <3>7. refs'[x] = 1 + Cardinality(H) /\ refs'[x] > 0 /\ refs'[x] \in Nat /\ refs'[x] <= refs[x]
      <4> HIDE DEF H
      <4> QED
          BY <2>1, <3>2, <3>3, <3>4, <3>6
    <3> QED
        BY <3>7
  <2>3. CASE x \notin uses[c]
    <3>1. H = Holders(x)
        BY <2>3, <1>1 DEF Holders
    <3>2. refs'[x] = refs[x]
        BY <2>3 DEF ResClose
    <3>3. refs'[x] = (IF refs'[x] > 0 THEN 1 ELSE 0) + Cardinality(H)
        BY <2>1, <3>1, <3>2, Zenon
    <3> QED
        BY <2>1, <3>2, <3>3
  <2> QED
      BY <2>2, <2>3
<1>4. Loaded' \subseteq {o \in Objects : refs'[o] > 0}
    BY <1>2, <1>3 DEF RefsAccounted
<1> QED
    BY <1>3, <1>4 DEF RefsAccounted, Objects, Kinds

\* Nobody is on the way to a load of the configuration who was not before.
LEMMA LoadersKept ==
    ASSUME RefInv, DOMAIN rpc' = Lookers, loads' = loads,
           \A d \in Lookers : rpc'[d] \in {"start", "conf"} => rpc[d] \in {"start", "conf"}
    PROVE  (loads + Cardinality(Loaders) <= Cardinality(Lookers))'
<1>1. Loaders \subseteq Lookers /\ Loaders' \subseteq Loaders
    BY DEF Loaders
<1>2. IsFiniteSet(Loaders) /\ Cardinality(Loaders) \in Nat
    BY <1>1, LookersAssumption, FS_Subset, FS_CardinalityType
<1>3. Cardinality(Loaders') <= Cardinality(Loaders) /\ IsFiniteSet(Loaders')
    BY <1>1, <1>2, FS_Subset
<1>4. Cardinality(Loaders') \in Nat /\ Cardinality(Lookers) \in Nat
    BY <1>3, LookersAssumption, FS_CardinalityType
<1>5. loads + Cardinality(Loaders) <= Cardinality(Lookers) /\ loads \in Nat
    BY DEF RefInv, RefTypeOK
<1>6. loads + Cardinality(Loaders') <= Cardinality(Lookers)
    BY <1>2, <1>3, <1>4, <1>5
<1> QED
    BY <1>6

\* The load of the configuration: there is an object left for it.
LEMMA LoadConfKeeps == ASSUME RefInv, NEW c \in Lookers, LoadConf(c) PROVE RefInv'
<1> DEFINE g == loads + 1
           o == <<"conf", g>>
<1>1. /\ c \in Loaders /\ Loaders' = Loaders \ {c} /\ rpc[c] = "conf" /\ rpc'[c] = "hosts"
      /\ \A d \in Lookers : d # c => rpc'[d] = rpc[d]
      /\ DOMAIN rpc' = Lookers
    BY DEF RefInv, RefTypeOK, LoadConf, At, Goto, Loaders
<1>2. IsFiniteSet(Loaders) /\ Cardinality(Loaders) \in Nat /\ Cardinality(Lookers) \in Nat
    BY LookersAssumption, FS_Subset, FS_CardinalityType DEF Loaders
<1>3. Cardinality(Loaders') = Cardinality(Loaders) - 1 /\ Cardinality(Loaders') \in Nat
    BY <1>1, <1>2, FS_RemoveElement, FS_CardinalityType
<1>4. loads + Cardinality(Loaders) <= Cardinality(Lookers) /\ loads \in Nat
    BY DEF RefInv, RefTypeOK
<1>5. g \in 1 .. Cardinality(Lookers) /\ g + Cardinality(Loaders') <= Cardinality(Lookers)
    BY <1>2, <1>3, <1>4
<1>6. o \in Objects /\ o[1] = "conf" /\ o[2] = g /\ g > loads
    BY <1>4, <1>5 DEF Objects, Kinds
<1>7. refs[o] = 0
    BY <1>6 DEF RefInv
<1>8. /\ loads' = g /\ conf' = g /\ refs' = [refs EXCEPT ![o] = 1]
      /\ UNCHANGED <<hosts, hints, uses>>
    BY DEF LoadConf
<1>9. RefTypeOK'
  <2>1. Objects' = Objects
      BY DEF Objects, Kinds
  <2>2. refs' \in [Objects -> Nat]
      BY <1>8 DEF RefInv, RefTypeOK
  <2>4. loads' \in Nat /\ conf' \in Nat
      BY <1>4, <1>8
  <2>3. uses' \in [Lookers -> SUBSET Objects] /\ hosts' \in Nat /\ hints' \in Nat
      BY <1>8 DEF RefInv, RefTypeOK
  <2> QED
      BY <1>1, <2>1, <2>2, <2>3, <2>4 DEF RefTypeOK
<1>10. Loaded' \subseteq Loaded \cup {o}
    BY <1>8 DEF Loaded
<1>11. RefsAccounted'
    BY <1>6, <1>7, <1>8, <1>9, <1>10, NewObject DEF RefInv
<1>12. \A d \in Lookers : rpc'[d] \in {"start", "conf", "hosts", "hints", "open"} => uses'[d] = {}
    BY <1>1, <1>8 DEF RefInv
<1>13. ASSUME NEW x \in Objects, x[1] = "conf", x[2] > g PROVE refs'[x] = 0
  <2>1. x[2] > loads /\ x # o
      BY <1>13, <1>4, <1>6 DEF Objects
  <2>2. refs[x] = 0
      BY <1>13, <2>1 DEF RefInv
  <2> QED
      BY <1>8, <2>1, <2>2 DEF RefInv, RefTypeOK
<1>14. Objects' = Objects
    BY DEF Objects, Kinds
<1> QED
    BY <1>5, <1>8, <1>9, <1>11, <1>12, <1>13, <1>14 DEF RefInv

\* The loads of the other two objects.
LEMMA LoadOtherKeeps ==
    ASSUME RefInv, NEW c \in Lookers, LoadHosts(c) \/ LoadHints(c) PROVE RefInv'
<1>1. /\ rpc[c] \in {"hosts", "hints"} /\ rpc'[c] \in {"hints", "open"}
      /\ \A d \in Lookers : d # c => rpc'[d] = rpc[d]
      /\ DOMAIN rpc' = Lookers /\ UNCHANGED <<conf, loads, uses>>
    BY DEF RefInv, RefTypeOK, LoadHosts, LoadHints, At, Goto
<1>2. PICK k \in {"hosts", "hints"}, g \in 1 .. loads :
        /\ refs[<<k, g>>] = 0 /\ refs' = [refs EXCEPT ![<<k, g>>] = 1]
        /\ Loaded' \subseteq Loaded \cup {<<k, g>>}
        /\ hosts' \in {hosts, g} /\ hints' \in {hints, g}
  <2>1. CASE LoadHosts(c)
    <3>1. PICK g \in 1 .. loads : /\ refs[<<"hosts", g>>] = 0 /\ hosts' = g
                                  /\ refs' = [refs EXCEPT ![<<"hosts", g>>] = 1]
        BY <2>1 DEF LoadHosts
    <3>2. conf' = conf /\ hints' = hints
        BY <2>1 DEF LoadHosts
    <3> QED
        BY <3>1, <3>2 DEF Loaded
  <2>2. CASE LoadHints(c)
    <3>1. PICK g \in 1 .. loads : /\ refs[<<"hints", g>>] = 0 /\ hints' = g
                                  /\ refs' = [refs EXCEPT ![<<"hints", g>>] = 1]
        BY <2>2 DEF LoadHints
    <3>2. conf' = conf /\ hosts' = hosts
        BY <2>2 DEF LoadHints
    <3> QED
        BY <3>1, <3>2 DEF Loaded
  <2> QED
      BY <2>1, <2>2
<1> DEFINE o == <<k, g>>
<1>3. loads \in Nat /\ loads + Cardinality(Loaders) <= Cardinality(Lookers)
    BY DEF RefInv, RefTypeOK
<1>4. Cardinality(Loaders) \in Nat /\ Cardinality(Lookers) \in Nat
    BY LookersAssumption, FS_Subset, FS_CardinalityType DEF Loaders
<1>5. g \in 1 .. Cardinality(Lookers)
    BY <1>3, <1>4
<1>6. o \in Objects /\ o[1] # "conf" /\ Objects' = Objects
    BY <1>5 DEF Objects, Kinds
<1>7. RefTypeOK'
    BY <1>1, <1>2, <1>3, <1>6 DEF RefInv, RefTypeOK
<1>8. RefsAccounted'
    BY <1>1, <1>2, <1>6, <1>7, NewObject DEF RefInv
<1>9. (loads + Cardinality(Loaders) <= Cardinality(Lookers))'
    BY <1>1, LoadersKept
<1>10. \A d \in Lookers : rpc'[d] \in {"start", "conf", "hosts", "hints", "open"} => uses'[d] = {}
    BY <1>1 DEF RefInv
<1>11. \A x \in Objects : x[1] = "conf" /\ x[2] > loads => refs'[x] = 0
    BY <1>2, <1>6 DEF RefInv, RefTypeOK
<1> QED
    BY <1>1, <1>6, <1>7, <1>8, <1>9, <1>10, <1>11 DEF RefInv

\* dns_res_open(), with the three objects or without.
LEMMA ResOpenKeeps == ASSUME RefInv, NEW c \in Lookers, ResOpen(c) PROVE RefInv'
<1>1. /\ rpc[c] = "open" /\ rpc'[c] \in {"loop", "aborted"} /\ DOMAIN rpc' = Lookers
      /\ \A d \in Lookers : d # c => rpc'[d] = rpc[d]
      /\ UNCHANGED globals /\ uses[c] = {}
    BY DEF RefInv, RefTypeOK, ResOpen, At, Goto
<1>2. (loads + Cardinality(Loaders) <= Cardinality(Lookers))'
    BY <1>1, LoadersKept DEF globals
<1>3. Objects' = Objects
    BY DEF Objects, Kinds
<1>4. CASE UNCHANGED <<refs, uses>>
  <2>1. RefTypeOK' /\ RefsAccounted'
      BY <1>1, <1>3, <1>4 DEF RefInv, RefTypeOK, RefsAccounted, Loaded, globals
  <2> QED
      BY <1>1, <1>2, <1>3, <1>4, <2>1 DEF RefInv, globals
<1>5. CASE ~UNCHANGED <<refs, uses>>
  <2>1. /\ refs' = [o \in Objects |-> IF o \in Loaded THEN refs[o] + 1 ELSE refs[o]]
        /\ uses' = [uses EXCEPT ![c] = Loaded] /\ rpc'[c] = "loop"
      BY <1>5 DEF ResOpen, Taking, aiVars, Goto, RefInv, RefTypeOK
  <2>2. Loaded \subseteq Objects
      BY DEF RefInv, RefsAccounted
  <2>3. RefTypeOK'
    <3>1. refs' \in [Objects -> Nat]
        BY <2>1 DEF RefInv, RefTypeOK
    <3>2. uses' \in [Lookers -> SUBSET Objects]
        BY <2>1, <2>2 DEF RefInv, RefTypeOK
    <3> QED
        BY <1>1, <1>3, <3>1, <3>2 DEF RefInv, RefTypeOK, globals
  <2>4. RefsAccounted'
      BY <1>1, <2>1, <2>3, OpenCounts DEF RefInv
  <2>5. \A d \in Lookers : rpc'[d] \in {"start", "conf", "hosts", "hints", "open"} => uses'[d] = {}
      BY <1>1, <2>1 DEF RefInv, RefTypeOK
  <2>6. \A x \in Objects : x[1] = "conf" /\ x[2] > loads => refs'[x] = 0
    <3> SUFFICES ASSUME NEW x \in Objects, x[1] = "conf", x[2] > loads PROVE refs'[x] = 0
        OBVIOUS
    <3>1. refs[x] = 0
        BY DEF RefInv
    <3>2. x \notin Loaded
        BY <3>1 DEF RefInv, RefsAccounted
    <3> QED
        BY <2>1, <3>1, <3>2
  <2> QED
      BY <1>1, <1>2, <1>3, <2>3, <2>4, <2>5, <2>6 DEF RefInv, globals
<1> QED
    BY <1>4, <1>5

\* dns_ai_close().
LEMMA ChooseKeeps == ASSUME RefInv, NEW c \in Lookers, NEW m, Choose(c, m) PROVE RefInv'
<1>1. /\ rpc[c] = "choose" /\ rpc'[c] = "returned" /\ DOMAIN rpc' = Lookers
      /\ \A d \in Lookers : d # c => rpc'[d] = rpc[d]
      /\ UNCHANGED globals /\ ResClose(c)
    BY DEF RefInv, RefTypeOK, Choose, At, Goto, Returns, AiClose
<1>2. (loads + Cardinality(Loaders) <= Cardinality(Lookers))'
    BY <1>1, LoadersKept DEF globals
<1>3. Objects' = Objects
    BY DEF Objects, Kinds
<1>4. RefsAccounted' /\ \A x \in Objects : refs'[x] \in Nat /\ refs'[x] <= refs[x]
    BY <1>1, CloseCounts DEF RefInv
<1>5. RefTypeOK'
  <2>1. refs' \in [Objects -> Nat]
      BY <1>1, <1>4 DEF ResClose
  <2>2. uses' \in [Lookers -> SUBSET Objects]
      BY <1>1 DEF RefInv, RefTypeOK, ResClose
  <2> QED
      BY <1>1, <1>3, <2>1, <2>2 DEF RefInv, RefTypeOK, globals
<1>6. \A d \in Lookers : rpc'[d] \in {"start", "conf", "hosts", "hints", "open"} => uses'[d] = {}
    BY <1>1 DEF RefInv, RefTypeOK, ResClose
<1>7. \A x \in Objects : x[1] = "conf" /\ x[2] > loads => refs'[x] = 0
    BY <1>4 DEF RefInv, RefTypeOK
<1> QED
    BY <1>1, <1>2, <1>3, <1>4, <1>5, <1>6, <1>7 DEF RefInv, globals

\* The steps that take no reference and drop none.
LEMMA OtherCallsKeep ==
    ASSUME RefInv, NEW c \in Lookers, UNCHANGED <<globals, refs, uses>>, DOMAIN rpc' = Lookers,
           \A d \in Lookers : d # c => rpc'[d] = rpc[d],
           rpc'[c] # rpc[c] => /\ rpc'[c] = "conf" => rpc[c] = "start"
                               /\ rpc'[c] = "open" => rpc[c] = "start"
                               /\ rpc'[c] \notin {"start", "hosts", "hints"}
    PROVE  RefInv'
<1>1. (loads + Cardinality(Loaders) <= Cardinality(Lookers))'
    BY LoadersKept DEF globals
<1>2. Objects' = Objects
    BY DEF Objects, Kinds
<1>3. RefTypeOK' /\ RefsAccounted'
    BY <1>2 DEF RefInv, RefTypeOK, RefsAccounted, Loaded, globals
<1>4. \A d \in Lookers : rpc'[d] \in {"start", "conf", "hosts", "hints", "open"} => uses'[d] = {}
    BY DEF RefInv
<1> QED
    BY <1>1, <1>2, <1>3, <1>4 DEF RefInv, globals

\* For any number of callers of remote(), in any order (dns_res_open() and
\* dns_res_close() of dns.c): the references to the shared objects are those of
\* the globals and of the resolvers in use, and no global points to what was
\* freed.
THEOREM SharedObjectsStay == RemoteSpec => []RefsAccounted
<1>1. RemoteInit => RefInv
  <2> SUFFICES ASSUME RemoteInit PROVE RefInv
      OBVIOUS
  <2>1. Loaded = {} /\ Loaders = Lookers
      BY DEF RemoteInit, Loaded, Loaders
  <2>2. \A o \in Objects : {c \in Lookers : o \in uses[c]} = {} /\ refs[o] = 0
      BY DEF RemoteInit
  <2>3. Cardinality({}) = 0 /\ Cardinality(Lookers) \in Nat
      BY FS_EmptySet, LookersAssumption, FS_CardinalityType
  <2>4. RefsAccounted
    <3>1. \A o \in Objects : Cardinality({c \in Lookers : o \in uses[c]}) = 0
        BY <2>2, <2>3
    <3>2. \A o \in Objects :
            refs[o] = (IF refs[o] > 0 THEN 1 ELSE 0) + Cardinality({c \in Lookers : o \in uses[c]})
      <4> SUFFICES ASSUME NEW o \in Objects
                   PROVE  refs[o] = (IF refs[o] > 0 THEN 1 ELSE 0)
                                    + Cardinality({c \in Lookers : o \in uses[c]})
          OBVIOUS
      <4> DEFINE k == Cardinality({c \in Lookers : o \in uses[c]})
      <4>1. k = 0 /\ refs[o] = 0
          BY <2>2, <3>1
      <4> HIDE DEF k
      <4>2. refs[o] = (IF refs[o] > 0 THEN 1 ELSE 0) + k
          BY <4>1
      <4> QED
          BY <4>2 DEF k
    <3> QED
        BY <2>1, <3>2 DEF RefsAccounted
  <2>5. RefTypeOK
      BY DEF RemoteInit, RefTypeOK
  <2> QED
      BY <2>1, <2>2, <2>3, <2>4, <2>5 DEF RefInv, RemoteInit
<1>2. RefInv /\ [RemoteNext]_remoteVars => RefInv'
  <2> SUFFICES ASSUME RefInv, [RemoteNext]_remoteVars PROVE RefInv'
      OBVIOUS
  <2>1. ASSUME NEW c \in Lookers, RemoteStep(c) \/ RemoteInput(c) PROVE RefInv'
    <3>1. CASE LoadConf(c)
        BY <3>1, LoadConfKeeps
    <3>2. CASE LoadHosts(c) \/ LoadHints(c)
        BY <3>2, LoadOtherKeeps
    <3>3. CASE ResOpen(c)
        BY <3>3, ResOpenKeeps
    <3>4. CASE \E m \in Modes : Choose(c, m)
        BY <3>4, ChooseKeeps
    <3>5. CASE \/ CheckLoaded(c) \/ Literal(c) \/ NextDone(c) \/ NextAgain(c) \/ WaitOver(c)
      <4>1. /\ UNCHANGED <<globals, refs, uses>> /\ DOMAIN rpc' = Lookers
            /\ \A d \in Lookers : d # c => rpc'[d] = rpc[d]
          BY <3>5 DEF RefInv, RefTypeOK, CheckLoaded, Literal, NextDone, NextAgain, WaitOver,
                      Goto, Returns
      <4>2. rpc'[c] # rpc[c] => /\ rpc'[c] = "conf" => rpc[c] = "start"
                                /\ rpc'[c] = "open" => rpc[c] = "start"
                                /\ rpc'[c] \notin {"start", "hosts", "hints"}
          BY <3>5 DEF RefInv, RefTypeOK, CheckLoaded, Literal, NextDone, NextAgain, WaitOver,
                      Goto, Returns, At
      <4> QED
          BY <4>1, <4>2, OtherCallsKeep
    <3>6. CASE NextEntry(c) \/ NextFails(c) \/ \E n1 \in 0 .. MaxAddrs : NextAnswered(c, n1)
      <4>1. UNCHANGED <<globals, refs, uses, rpc>>
          BY <3>6 DEF NextEntry, NextFails, NextAnswered, remoteVars, globals
      <4> QED
          BY <4>1, OtherCallsKeep DEF RefInv, RefTypeOK
    <3> QED
        BY <2>1, <3>1, <3>2, <3>3, <3>4, <3>5, <3>6 DEF RemoteStep, RemoteInput
  <2>2. CASE UNCHANGED remoteVars
    <3>1. RefTypeOK' /\ RefsAccounted' /\ Loaders' = Loaders
        BY <2>2 DEF RefInv, RefTypeOK, RefsAccounted, Loaded, remoteVars, Loaders, Objects, Kinds
    <3> QED
        BY <2>2, <3>1 DEF RefInv, remoteVars, Objects, Kinds
  <2> QED
      BY <2>1, <2>2 DEF RemoteNext
<1>3. RefInv => RefsAccounted
    BY DEF RefInv
<1> QED
    BY <1>1, <1>2, <1>3, PTL DEF RemoteSpec
-----------------------------------------------------------------------------
(***************************************************************************)
(* A local address. While the interfaces are walked over, the name is no   *)
(* literal, and what was seen of a family is an interface of that name, or *)
(* there was none so far.                                                  *)
(***************************************************************************)
Interfaces == [name : STRING, family : STRING, addr : STRING]
LocalTypeOK ==
    /\ called.port \in Int /\ called.mode \in LocalModes /\ called.ifaces \in Seq(Interfaces)
    /\ it \in Nat \ {0} /\ seen \in [IPFamilies -> Nat]
Named(i, f) == called.ifaces[i].name = called.name /\ called.ifaces[i].family = f
SeenInv(f) ==
    /\ seen[f] # 0 => seen[f] \in DOMAIN called.ifaces /\ seen[f] < it /\ Named(seen[f], f)
    /\ seen[f] = 0 => \A i \in DOMAIN called.ifaces : i < it => ~Named(i, f)
NotLiteral == called.name # "" /\ (BadPort(called.port) \/
                 \A g \in Allowed(called.mode) : called.name \notin Literals[g])
LocalInv ==
    /\ LocalTypeOK
    /\ lpc = "asked" => it = 1 /\ \A f \in IPFamilies : seen[f] = 0
    /\ lpc = "walk" => NotLiteral /\ ~local.gaveUp /\ \A f \in IPFamilies : SeenInv(f)
    /\ LocalAsAsked

\* A mode prefers one of the families, and allows one or both.
LEMMA ModeFamilies ==
    ASSUME NEW mode \in LocalModes
    PROVE  /\ Preferred(mode) \in IPFamilies /\ Otherwise(mode) \in IPFamilies
           /\ Allowed(mode) = {Preferred(mode), Otherwise(mode)}
           /\ \A f \in IPFamilies : f # "AF_UNSPEC"
  BY DEF Preferred, Otherwise, Allowed, IPFamilies, LocalModes

\* A port that is one goes into the address as it is.
LEMMA PortKept ==
    ASSUME NEW p \in Int, ~BadPort(p)
    PROVE  htons(p) = p
  BY LocalAssumption DEF BadPort, htons

\* The answer of a literal is good, or says that it is none.
LEMMA LiteralSays ==
    ASSUME NEW f, NEW name, NEW p
    PROVE  /\ FromLiteral(f, name, p).errno = "0" <=> name \in Literals[f]
           /\ name \in Literals[f] => FromLiteral(f, name, p) =
                 Answer([family |-> f, port |-> htons(p), addr |-> name], "0")
           /\ name \notin Literals[f] => FromLiteral(f, name, p) = Answer(Unset, "EINVAL")
  BY DEF FromLiteral, Answer

\* So is that of a name taken as a literal of either family.
LEMMA LiteralOf ==
    ASSUME NEW name, NEW p, NEW mode \in LocalModes
    PROVE  LET r == ipFromLiteral(name, p, mode)
               f == IF name \in Literals[Preferred(mode)] THEN Preferred(mode) ELSE Otherwise(mode)
           IN /\ r.errno = "0" <=> /\ ~BadPort(p)
                                   /\ \E g \in Allowed(mode) : name \in Literals[g]
              /\ r.errno = "0" => /\ name \in Literals[f]
                                  /\ r = Answer([family |-> f, port |-> htons(p), addr |-> name], "0")
              /\ r.errno # "0" => r = Answer(Unset, "EINVAL")
<1>1. CASE BadPort(p)
  BY <1>1 DEF ipFromLiteral, Answer
<1>2. CASE ~BadPort(p) /\ name \in Literals[Preferred(mode)]
  <2>1. FromLiteral(Preferred(mode), name, p).errno = "0"
    BY <1>2, LiteralSays
  <2>2. ipFromLiteral(name, p, mode) = FromLiteral(Preferred(mode), name, p)
    BY <1>2, <2>1 DEF ipFromLiteral
  <2> QED
    BY <1>2, <2>1, <2>2, LiteralSays DEF Allowed
<1>3. CASE ~BadPort(p) /\ name \notin Literals[Preferred(mode)]
  <2>1. FromLiteral(Preferred(mode), name, p).errno # "0"
    BY <1>3, LiteralSays
  <2>2. ipFromLiteral(name, p, mode) = FromLiteral(Otherwise(mode), name, p)
    BY <1>3, <2>1 DEF ipFromLiteral
  <2> QED
    BY <1>3, <2>1, <2>2, LiteralSays DEF Allowed
<1> QED
  BY <1>1, <1>2, <1>3

\* A call is answered at once, or the walk begins at the first interface.
LEMMA AskKeeps ==
    ASSUME LocalInv, NEW name, NEW p \in LocalPorts, NEW mode \in LocalModes,
           NEW ifaces \in IfaceLists, AskLocal(name, p, mode, ifaces)
    PROVE  LocalInv'
<1>1. /\ called'.name = name /\ called'.port = p /\ called'.mode = mode
      /\ called'.ifaces = ifaces
  BY DEF AskLocal
<1>2. p \in Int /\ ifaces \in Seq(Interfaces)
  BY LocalAssumption DEF Interfaces
<1>3. LocalTypeOK'
  BY <1>1, <1>2 DEF LocalInv, LocalTypeOK, AskLocal
<1>4. CASE name = ""
  <2>1. lpc' = "returned" /\ local' = AnyAddress(p, mode)
    BY <1>4 DEF AskLocal, AnswerWith
  <2>2. \A f : Denotes(f)' = IF BadPort(p) THEN {} ELSE {"any"}
    BY <1>1, <1>4 DEF Denotes, BadPort
  <2>3. LocalAsAsked'
    <3>1. CASE BadPort(p)
      <4>1. local' = Answer(Unset, "EINVAL")
        BY <2>1, <3>1 DEF AnyAddress
      <4> QED
        BY <4>1, <2>2, <3>1 DEF LocalAsAsked, Answer, Unset, family
    <3>2. CASE ~BadPort(p)
      <4>1. local' = Answer([family |-> Preferred(mode), port |-> htons(p), addr |-> "any"], "0")
        BY <2>1, <3>2 DEF AnyAddress
      <4>2. htons(p) = p
        BY <1>2, <3>2, PortKept
      <4> QED
        BY <4>1, <4>2, <2>2, <1>1, <3>2, ModeFamilies
        DEF LocalAsAsked, Answer, Allowed, family, str, port, htons
    <3> QED
      BY <3>1, <3>2
  <2> QED
    BY <2>1, <2>3, <1>3 DEF LocalInv
<1>5. CASE name # "" /\ ipFromLiteral(name, p, mode).errno = "0"
  <2> DEFINE best == IF name \in Literals[Preferred(mode)] THEN Preferred(mode) ELSE Otherwise(mode)
  <2>1. lpc' = "returned" /\ local' = ipFromLiteral(name, p, mode)
    BY <1>5 DEF AskLocal, AnswerWith
  <2>2. /\ ~BadPort(p) /\ name \in Literals[best]
        /\ \E g \in Allowed(mode) : name \in Literals[g]
        /\ local' = Answer([family |-> best, port |-> htons(p), addr |-> name], "0")
    BY <1>5, <2>1, LiteralOf
  <2>3. \A f : Denotes(f)' = {name} \cap Literals[f]
    BY <1>1, <1>5, <2>2 DEF Denotes, BadPort
  <2>4. htons(p) = p
    BY <1>2, <2>2, PortKept
  <2>5. LocalAsAsked'
    <3>1. best \in Allowed(mode) /\ best # "AF_UNSPEC"
      BY ModeFamilies DEF Allowed
    <3>2. best = IF Preferred(mode) \in {f \in Allowed(mode) : Denotes(f)' # {}}
                 THEN Preferred(mode) ELSE Otherwise(mode)
      BY <2>3 DEF Allowed
    <3>3. {f \in Allowed(mode) : Denotes(f)' # {}} # {} /\ name \in Denotes(best)'
      BY <2>2, <2>3, <3>1
    <3>4. /\ ~local'.gaveUp /\ local'.errno = "0" /\ family(local'.a) = best
          /\ str(local'.a) = name /\ port(local'.a) = p
      BY <2>2, <2>4, <3>1 DEF Answer, family, str, port
    <3> HIDE DEF best
    <3> QED
      BY <1>1, <2>4, <3>1, <3>2, <3>3, <3>4 DEF LocalAsAsked, family, str, port, htons
  <2> QED
    BY <2>1, <2>5, <1>3 DEF LocalInv
<1>6. CASE name # "" /\ ipFromLiteral(name, p, mode).errno # "0" /\ ifaces = <<>>
  <2>1. lpc' = "returned" /\ local'.gaveUp
    BY <1>6 DEF AskLocal, AnswerWith, Answer
  <2>2. LocalAsAsked'
    BY <2>1, <1>1, <1>6 DEF LocalAsAsked
  <2> QED
    BY <2>1, <2>2, <1>3 DEF LocalInv
<1>7. CASE name # "" /\ ipFromLiteral(name, p, mode).errno # "0" /\ ifaces # <<>>
  <2>1. lpc' = "walk" /\ local' = Answer(Unset, "EINVAL") /\ it' = 1
          /\ \A f \in IPFamilies : seen'[f] = 0
    BY <1>7, LiteralOf DEF AskLocal, LocalInv
  <2>2. NotLiteral'
    <3>1. BadPort(p) \/ \A g \in Allowed(mode) : name \notin Literals[g]
      BY <1>7, LiteralOf
    <3> QED
      BY <3>1, <1>1, <1>7 DEF NotLiteral, BadPort
  <2>3. \A f \in IPFamilies : SeenInv(f)'
    BY <2>1, <1>1, <1>2 DEF SeenInv
  <2>4. LocalAsAsked' /\ ~local'.gaveUp
    BY <2>1 DEF LocalAsAsked, Answer
  <2> QED
    BY <2>1, <2>2, <2>3, <2>4, <1>3 DEF LocalInv
<1> QED
  BY <1>4, <1>5, <1>6, <1>7

\* An interface of another name or family is passed.
LEMMA SkipKeeps == ASSUME LocalInv, SkipInterface PROVE LocalInv'
<1>1. LocalTypeOK'
  BY DEF LocalInv, LocalTypeOK, SkipInterface
<1>2. \A f \in IPFamilies : SeenInv(f)'
  <2> SUFFICES ASSUME NEW f \in IPFamilies PROVE SeenInv(f)'
    OBVIOUS
  <2>1. ~Named(it, f)
    BY DEF SkipInterface, Fits, Named
  <2> QED
    BY <2>1 DEF LocalInv, LocalTypeOK, SkipInterface, Walking, SeenInv, Named
<1>3. NotLiteral'
  BY DEF LocalInv, SkipInterface, Walking, NotLiteral
<1> QED
  BY <1>1, <1>2, <1>3 DEF LocalInv, SkipInterface, Walking, LocalAsAsked

\* An interface is the first of its family with this name, or the second one seen.
LEMMA SeeKeeps == ASSUME LocalInv, SeeInterface PROVE LocalInv'
<1> DEFINE f == called.ifaces[it].family
<1>1. /\ f \in IPFamilies /\ Named(it, f) /\ it \in DOMAIN called.ifaces
      /\ lpc = "walk" /\ called' = called
  BY DEF LocalInv, LocalTypeOK, SeeInterface, Walking, Fits, Named
<1>2. NotLiteral'
  BY <1>1 DEF LocalInv, NotLiteral
<1>3. CASE seen[f] = 0
  <2>1. seen' = [seen EXCEPT ![f] = it] /\ it' = it + 1 /\ UNCHANGED <<lpc, local>>
    BY <1>3 DEF SeeInterface
  <2>2. LocalTypeOK'
    BY <2>1, <1>1 DEF LocalInv, LocalTypeOK
  <2>3. \A g \in IPFamilies : SeenInv(g)'
    <3> SUFFICES ASSUME NEW g \in IPFamilies PROVE SeenInv(g)'
      OBVIOUS
    <3>1. SeenInv(g) /\ it \in Nat \ {0}
      BY <1>1 DEF LocalInv, LocalTypeOK
    <3>2. CASE g = f
      <4>1. seen'[g] = it
        BY <2>1, <3>2 DEF LocalInv, LocalTypeOK
      <4> QED
        BY <4>1, <3>1, <3>2, <1>1, <2>1 DEF SeenInv, Named
    <3>3. CASE g # f
      <4>1. seen'[g] = seen[g] /\ ~Named(it, g) /\ seen[g] \in Nat
        BY <2>1, <3>3, <1>1 DEF LocalInv, LocalTypeOK, Named
      <4> QED
        BY <4>1, <3>1, <1>1, <2>1 DEF LocalInv, LocalTypeOK, SeenInv, Named
    <3> QED
      BY <3>2, <3>3
  <2> QED
    BY <1>1, <1>2, <2>1, <2>2, <2>3 DEF LocalInv, LocalAsAsked
<1>4. CASE seen[f] # 0
  <2>1. lpc' = "returned" /\ local' = [local EXCEPT !.gaveUp = TRUE] /\ UNCHANGED <<it, seen>>
    BY <1>4 DEF SeeInterface, AnswerWith
  <2>2. LocalTypeOK'
    BY <2>1, <1>1 DEF LocalInv, LocalTypeOK
  <2>3. seen[f] \in DOMAIN called.ifaces /\ seen[f] # it /\ Named(seen[f], f)
    BY <1>1, <1>4 DEF LocalInv, LocalTypeOK, SeenInv
  <2>4. LocalAsAsked'
    BY <1>1, <2>1, <2>3 DEF LocalAsAsked, Named
  <2> QED
    BY <2>1, <2>2, <2>4 DEF LocalInv
<1> QED
  BY <1>3, <1>4

\* What the walk has seen is what there is, in each family that counts.
LEMMA ChooseFamilyKeeps == ASSUME LocalInv, ChooseFamily PROVE LocalInv'
<1>0. PICK mode \in LocalModes : mode = called.mode
  BY DEF LocalInv, LocalTypeOK
<1>best. PICK best : best = IF seen[Preferred(mode)] # 0 THEN Preferred(mode) ELSE Otherwise(mode)
  OBVIOUS
<1>1. /\ lpc = "walk" /\ ~Walking /\ lpc' = "returned" /\ UNCHANGED <<called, it, seen>>
      /\ local' = IF seen[best] = 0 THEN Answer(Unset, "ENODEV")
                  ELSE Answer([family |-> best, port |-> htons(called.port),
                               addr |-> called.ifaces[seen[best]].addr], "0")
  BY <1>0, <1>best DEF ChooseFamily, AnswerWith
<1>2. LocalTypeOK'
  BY <1>1 DEF LocalInv, LocalTypeOK
<1>3. /\ Preferred(mode) \in IPFamilies /\ Otherwise(mode) \in IPFamilies
      /\ best \in Allowed(mode) /\ best \in IPFamilies /\ best # "AF_UNSPEC"
  BY <1>best, ModeFamilies DEF Allowed
<1>4. ASSUME NEW f \in IPFamilies
      PROVE  /\ Denotes(f)' = {called.ifaces[i].addr : i \in {i \in DOMAIN called.ifaces : Named(i, f)}}
             /\ seen[f] = 0 => Denotes(f)' = {}
             /\ seen[f] # 0 => called.ifaces[seen[f]].addr \in Denotes(f)'
  <2>1. Denotes(f)' = {called.ifaces[i].addr : i \in {i \in DOMAIN called.ifaces : Named(i, f)}}
    <3>1. NotLiteral /\ called' = called
      BY <1>1 DEF LocalInv
    <3> QED
      BY <3>1 DEF Denotes, NotLiteral, Named, BadPort
  <2>2. SeenInv(f)
    BY <1>1 DEF LocalInv
  <2>3. ASSUME seen[f] = 0 PROVE Denotes(f)' = {}
    <3>1. it > Len(called.ifaces)
      BY <1>1, <2>3 DEF LocalInv, LocalTypeOK, Walking
    <3>2. \A i \in DOMAIN called.ifaces : ~Named(i, f)
      BY <3>1, <2>2, <2>3 DEF SeenInv, LocalInv, LocalTypeOK
    <3> QED
      BY <3>2, <2>1
  <2>4. ASSUME seen[f] # 0 PROVE called.ifaces[seen[f]].addr \in Denotes(f)'
    BY <2>1, <2>2, <2>4 DEF SeenInv
  <2> QED
    BY <2>1, <2>3, <2>4
<1>5. /\ seen[best] = 0 <=> {f \in Allowed(mode) : Denotes(f)' # {}} = {}
      /\ best = IF Preferred(mode) \in {f \in Allowed(mode) : Denotes(f)' # {}}
                THEN Preferred(mode) ELSE Otherwise(mode)
  BY <1>3, <1>4, <1>best DEF Allowed
<1>6. LocalAsAsked'
  <2>1. CASE seen[best] = 0
    <3>1. ~local'.gaveUp /\ local'.errno = "ENODEV" /\ family(local'.a) = "AF_UNSPEC"
      BY <1>1, <2>1 DEF Answer, Unset, family
    <3>2. {f \in Allowed(called'.mode) : Denotes(f)' # {}} = {}
      BY <1>0, <1>1, <1>5, <2>1
    <3> QED
      BY <3>1, <3>2 DEF LocalAsAsked, family
  <2>2. CASE seen[best] # 0
    <3>1. /\ ~local'.gaveUp /\ local'.errno = "0" /\ family(local'.a) = best
          /\ str(local'.a) = called.ifaces[seen[best]].addr
          /\ port(local'.a) = htons(called.port)
      BY <1>1, <1>3, <2>2 DEF Answer, family, str, port
    <3>2. str(local'.a) \in Denotes(best)'
      BY <3>1, <1>3, <1>4, <2>2
    <3>3. ~BadPort(called.port) => htons(called.port) = called.port
      BY PortKept DEF LocalInv, LocalTypeOK
    <3>4. called'.mode = mode /\ called'.port = called.port
      BY <1>0, <1>1
    <3> QED
      BY <1>3, <1>5, <2>2, <3>1, <3>2, <3>3, <3>4 DEF LocalAsAsked, family, str, port, htons, BadPort
  <2> QED
    BY <2>1, <2>2
<1> QED
  BY <1>1, <1>2, <1>6 DEF LocalInv

\* SocketAddress::local() answers what was asked, for any names, interfaces, ports
\* and literals.
THEOREM LocalAnswers == LocalSpec => []LocalAsAsked
<1>1. LocalInit => LocalInv
  <2> SUFFICES ASSUME LocalInit PROVE LocalInv
    OBVIOUS
  <2>1. seen = [f \in IPFamilies |-> 0] /\ it = 1
    BY DEF LocalInit
  <2>2. called.port \in Int /\ called.mode \in LocalModes /\ called.ifaces = <<>>
    <3>1. called.port = 0 /\ called.mode = "IP_ANY" /\ called.ifaces = <<>>
      BY Zenon DEF LocalInit
    <3> QED
      BY <3>1 DEF LocalModes
  <2>3. <<>> \in Seq(Interfaces)
    OBVIOUS
  <2>4. LocalTypeOK
    BY <2>1, <2>2, <2>3 DEF LocalTypeOK
  <2> QED
    BY <2>4 DEF LocalInit, LocalInv, LocalAsAsked
<1>2. LocalInv /\ [LocalNext]_localVars => LocalInv'
  <2> SUFFICES ASSUME LocalInv, [LocalNext]_localVars PROVE LocalInv'
    OBVIOUS
  <2>1. CASE UNCHANGED localVars
    <3>1. /\ called' = called /\ lpc' = lpc /\ it' = it /\ seen' = seen /\ local' = local
      BY <2>1 DEF localVars
    <3>2. \A f : (SeenInv(f)' <=> SeenInv(f)) /\ Denotes(f)' = Denotes(f)
      BY <3>1 DEF SeenInv, Named, Denotes, BadPort
    <3>3. (LocalTypeOK' <=> LocalTypeOK) /\ (NotLiteral' <=> NotLiteral)
      BY <3>1 DEF LocalTypeOK, NotLiteral, BadPort
    <3>4. LocalAsAsked'
      BY <3>1, <3>2 DEF LocalInv, LocalAsAsked
    <3> QED
      BY <3>1, <3>2, <3>3, <3>4 DEF LocalInv
  <2> QED
    BY <2>1, AskKeeps, SkipKeeps, SeeKeeps, ChooseFamilyKeeps DEF LocalNext
<1>3. LocalInv => LocalAsAsked
  BY DEF LocalInv
<1> QED
  BY <1>1, <1>2, <1>3, PTL DEF LocalSpec

\* SocketAddress as a whole: local addresses are those that were asked for, and
\* lookups never free the shared configuration under another one.
THEOREM AddressesStay == LocalSpec /\ RemoteSpec => []AddressesHold
  BY LocalAnswers, SharedObjectsStay, PTL DEF AddressesHold
=============================================================================
