----------------------------- MODULE AsyncMutex -----------------------------
(***************************************************************************)
(* suil::AsyncMutex (mutex.hpp, mutex.cpp), locked and unlocked by         *)
(* coroutines on any number of threads.  A step is one access to the       *)
(* atomic _state, or to _waiters, which only the owner of the lock reads   *)
(* and writes.                                                             *)
(*                                                                         *)
(* _state is NOT_LOCKED, or the address of the newest lock_operation of a  *)
(* chain linked by _next, or LOCKED_NO_WAITERS for an empty one.  The      *)
(* chain is a sequence here, newest first; a compare-exchange sees its     *)
(* head only, as the address is all that the code compares.                *)
(***************************************************************************)
EXTENDS Naturals, SequencesExt

CONSTANTS Coros,      \* the coroutines, each with its lock_operation
          None,       \* NULL, which is LOCKED_NO_WAITERS
          MaxLocks    \* bound: how often a coroutine locks

ASSUME MutexAssumption == None \notin Coros /\ MaxLocks \in Nat

VARIABLES
    locked,    \* _state is not NOT_LOCKED
    stack,     \* the chain of lock_operations that _state points to
    waiters,   \* the list _waiters, the next one to get the lock in front
    pc,        \* what each coroutine does next
    old,       \* oldState in await_suspend
    header,    \* waitersHeader in unlock
    callee,    \* the coroutine that unlock has resumed, until it suspends
    left       \* how often a coroutine may still lock

vars == <<locked, stack, waiters, pc, old, header, callee, left>>

NOT_LOCKED == "NOT_LOCKED"

\* The value of _state.
State == IF ~locked THEN NOT_LOCKED
         ELSE IF stack = <<>> THEN None ELSE Head(stack)

\* Every variable has a value of its type.
TypeOK ==
    /\ locked \in BOOLEAN
    /\ stack \in Seq(Coros)
    /\ waiters \in Seq(Coros)
    /\ pc \in [Coros -> {"out", "cas", "waiting", "in", "release", "take",
                         "grant", "resume"}]
    /\ old \in [Coros -> Coros \cup {None, NOT_LOCKED}]
    /\ header \in [Coros -> Seq(Coros)]
    /\ callee \in [Coros -> Coros \cup {None}]
    /\ left \in [Coros -> 0 .. MaxLocks]

Init ==
    /\ locked = FALSE
    /\ stack = <<>>
    /\ waiters = <<>>
    /\ pc = [c \in Coros |-> "out"]
    /\ old = [c \in Coros |-> None]
    /\ header = [c \in Coros |-> <<>>]
    /\ callee = [c \in Coros |-> None]
    /\ left = [c \in Coros |-> MaxLocks]

Goto(c, label) == pc' = [pc EXCEPT ![c] = label]

\* Coroutine c suspends: a resume() of it that was under way returns.
Suspend(c) ==
    callee' = [o \in Coros |-> IF callee[o] = c THEN None ELSE callee[o]]
-----------------------------------------------------------------------------
\* A coroutine wants the lock.
Wants(c) ==
    /\ pc[c] = "out"
    /\ left[c] > 0
    /\ left' = [left EXCEPT ![c] = @ - 1]

\* tryLock; when the mutex is locked it changes nothing.
TryLock(c) ==
    /\ Wants(c)
    /\ ~locked
    /\ locked' = TRUE
    /\ Goto(c, "in")
    /\ UNCHANGED <<stack, waiters, old, header, callee>>

\* co_await lockAsync() or scopedLockAsync(): await_suspend reads the state,
LockLoad(c) ==
    /\ Wants(c)
    /\ old' = [old EXCEPT ![c] = State]
    /\ Goto(c, "cas")
    /\ UNCHANGED <<locked, stack, waiters, header, callee>>

\* takes the lock if it was free and still is,
LockAcquireStore(c) ==   \* mutant: a store instead of the compare-exchange
    /\ pc[c] = "cas"
    /\ old[c] = NOT_LOCKED
    /\ locked' = TRUE
    /\ Goto(c, "in")
    /\ UNCHANGED <<stack, waiters, old, header, callee, left>>
LockAcquire(c) ==
    /\ pc[c] = "cas"
    /\ old[c] = State
    /\ ~locked
    /\ locked' = TRUE
    /\ Goto(c, "in")
    /\ UNCHANGED <<stack, waiters, old, header, callee, left>>

\* or pushes its operation on the chain, and suspends,
LockWait(c) ==
    /\ pc[c] = "cas"
    /\ old[c] = State
    /\ locked
    /\ stack' = <<c>> \o stack
    /\ Goto(c, "waiting")
    /\ Suspend(c)
    /\ UNCHANGED <<locked, waiters, old, header, left>>

\* and tries again with the state it finds when the compare-exchange fails.
LockRetry(c) ==
    /\ pc[c] = "cas"
    /\ old[c] # State
    /\ old' = [old EXCEPT ![c] = State]
    /\ UNCHANGED <<locked, stack, waiters, pc, header, callee, left>>

\* unlock() hands the lock to the first of _waiters;
UnlockAny(c) ==   \* mutant: does not look at _waiters
    /\ pc[c] = "in"
    /\ Goto(c, "release")
    /\ UNCHANGED <<locked, stack, waiters, old, header, callee, left>>
Unlock(c) ==
    /\ pc[c] = "in"
    /\ header' = [header EXCEPT ![c] = waiters]
    /\ Goto(c, IF waiters = <<>> THEN "release" ELSE "grant")
    /\ UNCHANGED <<locked, stack, waiters, old, callee, left>>

\* with none there, it releases the lock if nobody has come to wait,
Release(c) ==
    /\ pc[c] = "release"
    /\ \/ stack = <<>> /\ locked' = FALSE /\ Goto(c, "out")
       \/ stack # <<>> /\ Goto(c, "take") /\ UNCHANGED locked
    /\ UNCHANGED <<stack, waiters, old, header, callee, left>>

\* and else takes the whole chain and reverses it.
TakeAsIs(c) ==   \* mutant: the chain is not reversed
    /\ pc[c] = "take"
    /\ header' = [header EXCEPT ![c] = stack]
    /\ stack' = <<>>
    /\ Goto(c, "grant")
    /\ UNCHANGED <<locked, waiters, old, callee, left>>
Take(c) ==
    /\ pc[c] = "take"
    /\ header' = [header EXCEPT ![c] = Reverse(stack)]
    /\ stack' = <<>>
    /\ Goto(c, "grant")
    /\ UNCHANGED <<locked, waiters, old, callee, left>>

\* The first waiter is resumed inside of unlock(), and owns the lock.
GrantLost(c) ==   \* mutant: only the first of the chain is kept
    LET w == Head(header[c]) IN
    /\ pc[c] = "grant"
    /\ waiters' = <<>>
    /\ callee' = [callee EXCEPT ![c] = w]
    /\ pc' = [pc EXCEPT ![c] = "resume", ![w] = "in"]
    /\ UNCHANGED <<locked, stack, old, header, left>>
Grant(c) ==
    LET w == Head(header[c]) IN
    /\ pc[c] = "grant"
    /\ waiters' = Tail(header[c])
    /\ callee' = [callee EXCEPT ![c] = w]
    /\ pc' = [pc EXCEPT ![c] = "resume", ![w] = "in"]
    /\ UNCHANGED <<locked, stack, old, header, left>>

\* unlock() returns when the coroutine it resumed has suspended or ended.
UnlockReturns(c) ==
    /\ pc[c] = "resume"
    /\ callee[c] = None
    /\ Goto(c, "out")
    /\ UNCHANGED <<locked, stack, waiters, old, header, callee, left>>

\* A coroutine that was resumed by unlock() ends, or suspends in a wait for
\* something else, with or without the lock.
Yield(c) ==
    /\ pc[c] \in {"out", "in"}
    /\ \E o \in Coros : callee[o] = c
    /\ Suspend(c)
    /\ UNCHANGED <<locked, stack, waiters, pc, old, header, left>>
-----------------------------------------------------------------------------
\* What a coroutine does without being asked.
Step(c) ==
    \/ LockAcquire(c) \/ LockWait(c) \/ LockRetry(c)
    \/ Unlock(c) \/ Release(c) \/ Take(c) \/ Grant(c) \/ UnlockReturns(c)

Next == \E c \in Coros : Step(c) \/ TryLock(c) \/ LockLoad(c) \/ Yield(c)

Spec == Init /\ [][Next]_vars

\* A coroutine that runs gets on, and a critical section ends with unlock().
FairSpec == Spec /\ \A c \in Coros : WF_vars(Step(c))
-----------------------------------------------------------------------------
\* The coroutine that has the lock: from its acquisition to where it lets go.
Owns(c) == pc[c] \in {"in", "release", "take", "grant"}

\* Between lockAsync() and the end of unlock() a coroutine is alone, and only
\* then is _waiters, which is no atomic, read or written.
MutualExclusion ==
    /\ \A c, d \in Coros : Owns(c) /\ Owns(d) => c = d
    /\ locked <=> \E c \in Coros : Owns(c)

Owner ==
    IF \E c \in Coros : Owns(c) THEN CHOOSE c \in Coros : Owns(c) ELSE None

\* The lock_operations that wait, in the order in which they will be resumed.
Line ==
    (IF \E c \in Coros : pc[c] = "grant"
     THEN header[CHOOSE c \in Coros : pc[c] = "grant"] ELSE waiters)
    \o Reverse(stack)

\* A suspended coroutine is on the list or the chain, and there once: unlock()
\* resumes it once, and its frame is in the list as long as it is suspended.
NoWaiterLost ==
    /\ {c \in Coros : pc[c] = "waiting"} = ToSet(Line)
    /\ IsInjective(Line)

Fifo == INSTANCE FifoLock WITH owner <- Owner, line <- Line

\* The mutex is a first-in first-out lock: it goes to the coroutines in the
\* order in which they suspended, and tryLock and lockAsync pass none of them.
IsFifo == Fifo!Spec

\* Every coroutine that waits gets the lock.
WaitersServed == \A c \in Coros : pc[c] = "waiting" ~> pc[c] = "in"
=============================================================================
