------------------------------ MODULE SocketIO ------------------------------
(***************************************************************************)
(* The transfer loops of Socket (socket.cpp) and fdops (fdops.cpp): one    *)
(* coroutine calls them one after the other on a descriptor.  A step is    *)
(* one pass of a loop, with what the kernel answers, or the end of a wait. *)
(* errno belongs to a thread and the coroutine may come back on another    *)
(* one: after a wait it is any of Errnos.                                  *)
(***************************************************************************)
EXTENDS Integers

CONSTANTS MaxSize,    \* bound: the size of a buffer
          MaxOps      \* bound: the calls

ASSUME IOAssumption == MaxSize \in Nat /\ MaxOps \in Nat

VARIABLES op, size,   \* the call and the size of its buffer
          place,      \* "idle", "call", "wait"
          n,          \* nSent, nReceived of the ...All loops
          moved,      \* history: bytes the kernel has taken or given
          result,     \* what the call returned
          lasterror,  \* _error
          errno,      \* of the thread the coroutine is on
          told,       \* history: _error was assigned in this call
          ops         \* calls left

ioVars == <<op, size, place, n, moved, result, lasterror, errno, told, ops>>

Errnos == {"0", "EAGAIN", "ECONNRESET", "EOTHER", "EINVAL"}
Ops == {"send", "sendAll", "receive", "receiveAll", "read", "write"}

\* What a system call answers for at most k bytes: 0 is the end of the stream,
\* or that nothing was asked for.
Answers(k) == 0 .. k \cup {-1}

IOInit ==
    /\ op = "send" /\ size = 0 /\ place = "idle"
    /\ n = 0 /\ moved = 0 /\ result = 0
    /\ lasterror = "0" /\ errno = "0" /\ told = FALSE /\ ops = MaxOps

\* A call begins; fdops checks its arguments first.
Begin(o, k) ==
    /\ place = "idle" /\ ops > 0
    /\ op' = o /\ size' = k /\ ops' = ops - 1
    /\ n' = 0 /\ moved' = 0 /\ told' = FALSE
    /\ IF o = "read" /\ k = 0
       THEN place' = "idle" /\ errno' = "EINVAL" /\ result' = -1
       ELSE place' = "call" /\ UNCHANGED <<errno, result>>
    /\ UNCHANGED lasterror

Return(res) == place' = "idle" /\ result' = res /\ UNCHANGED <<op, size, ops>>
Error(e) == lasterror' = e /\ told' = TRUE
NoError == UNCHANGED <<lasterror, told>>

\* The call fails with e; EAGAIN leads to fdwait in every loop.
WouldBlock ==
    /\ errno' = "EAGAIN"
    /\ place' = "wait"
    /\ UNCHANGED <<op, size, n, moved, result, lasterror, told, ops>>

\* One pass of sendAll and of receiveAll, which are alike: a broken pipe and
\* an end of stream return what was moved, other errors -1.
AllPassAnew(r, e) ==   \* mutant: the count of an earlier pass is forgotten
    /\ r > 0
    /\ moved' = moved + r /\ n' = r
    /\ IF r < size THEN UNCHANGED <<place, result, op, size, ops>>
                   ELSE Return(r)
    /\ NoError /\ UNCHANGED errno
AllPass(r, e) ==
    \/ /\ r > 0
       /\ moved' = moved + r /\ n' = n + r
       /\ IF n + r < size THEN UNCHANGED <<place, result, op, size, ops>>
                          ELSE Return(n + r)
       /\ NoError /\ UNCHANGED errno
    \/ /\ r = 0 \/ (r = -1 /\ e = "EPIPE")
       /\ errno' = "ECONNRESET" /\ Error("ECONNRESET")
       /\ Return(n) /\ UNCHANGED <<n, moved>>
    \/ /\ r = -1 /\ e = "EOTHER"
       /\ errno' = e /\ Error(e)
       /\ Return(-1) /\ n' = -1 /\ UNCHANGED moved
    \/ r = -1 /\ e = "EAGAIN" /\ WouldBlock

sendAll(r, e) == op = "sendAll" /\ r \in Answers(size - n) /\ AllPass(r, e)
receiveAll(r, e) == op = "receiveAll" /\ r \in Answers(size - n) /\ AllPass(r, e)

\* One pass of send and receive: what is moved at once is returned.
OncePass(r, e) ==
    /\ r \in Answers(size)
    /\ \/ r = -1 /\ e = "EAGAIN" /\ WouldBlock
       \/ /\ r = -1 /\ e # "EAGAIN"
          /\ LET x == IF e = "EPIPE" THEN "ECONNRESET" ELSE e
             IN  errno' = x /\ Error(x)
          /\ Return(-1) /\ UNCHANGED <<n, moved>>
       \/ /\ r > 0 \/ (r = 0 /\ op = "send")
          /\ moved' = r
          /\ Return(r) /\ NoError /\ UNCHANGED <<n, errno>>

send(r, e) == op = "send" /\ OncePass(r, e)

receive(r, e) ==
    /\ op = "receive"
    /\ \/ OncePass(r, e)
       \/ /\ r = 0
          /\ errno' = "ECONNRESET" /\ Error("ECONNRESET")
          /\ Return(0) /\ UNCHANGED <<n, moved>>

\* fdops::read and fdops::write, which know no _error.
FdPass(r, e) ==
    /\ r \in Answers(size)
    /\ \/ r = -1 /\ e = "EAGAIN" /\ WouldBlock
       \/ /\ r = -1 /\ e # "EAGAIN"
          /\ errno' = e
          /\ Return(-1) /\ NoError /\ UNCHANGED <<n, moved>>
       \/ /\ r >= 0
          /\ moved' = r
          /\ Return(r) /\ NoError /\ UNCHANGED <<n, errno>>

read(r, e) == op = "read" /\ FdPass(r, e)
write(r, e) == op = "write" /\ FdPass(r, e)

Pass(r, e) ==
    /\ place = "call"
    /\ r = -1 \/ e = "EAGAIN"     \* errno counts for r = -1 only
    /\ \/ send(r, e) \/ sendAll(r, e) \/ receive(r, e) \/ receiveAll(r, e)
       \/ read(r, e) \/ write(r, e)

\* co_await fdwait(...) ends: the loop goes on, or the call fails.
WaitFired(e) ==
    /\ place = "wait"
    /\ errno' = e
    /\ place' = "call"
    /\ UNCHANGED <<op, size, n, moved, result, lasterror, told, ops>>
WaitFails(ev, e) ==
    /\ place = "wait"
    /\ errno' = e
    /\ Return(-1)
    /\ IF op \in {"read", "write"} THEN NoError
       ELSE Error(IF ev = "esTIMEOUT" THEN "ETIMEDOUT" ELSE e)
    /\ n' = IF op \in {"sendAll", "receiveAll"} THEN -1 ELSE n
    /\ UNCHANGED moved

IONext ==
    \/ \E o \in Ops, k \in 0 .. MaxSize : Begin(o, k)
    \/ \E r \in Answers(MaxSize), e \in {"EAGAIN", "EPIPE", "EOTHER"} : Pass(r, e)
    \/ \E e \in Errnos : WaitFired(e)
    \/ \E ev \in {"esTIMEOUT", "esERROR"}, e \in Errnos : WaitFails(ev, e)

IOSpec == IOInit /\ [][IONext]_ioVars
-----------------------------------------------------------------------------
Loops == {"sendAll", "receiveAll"}

\* The bytes are counted once over all passes and waits: the next pass goes on
\* at buf[n] where the kernel stopped, and a result that is not -1 is what was
\* moved.  (After -1 some bytes may have been moved all the same.)  sendAll and
\* receiveAll come short only with a new value of _error; so does a receive that
\* ends the stream, and every Socket call that returns -1.
BytesAccounted ==
    /\ place # "idle" /\ op \in Loops => n = moved /\ n < size + 1
    /\ place = "idle" /\ result # -1 => result = moved
    /\ place = "idle" /\ ops < MaxOps /\ op \in Ops \ {"read", "write"} /\ ~told =>
          /\ result # -1
          /\ op \in Loops => result = size
          /\ op = "receive" => result > 0
=============================================================================
