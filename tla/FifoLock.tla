------------------------------ MODULE FifoLock ------------------------------
(* What an AsyncMutex promises: one owner, and a line of waiters that get  *)
(* the lock in the order in which they began to wait.  Nobody passes them. *)
EXTENDS Sequences

CONSTANTS Coros, None

VARIABLES owner,   \* the coroutine that has the lock, or None
          line     \* those that wait for it, the first in front

Init == owner = None /\ line = <<>>

Acquire(c) == owner = None /\ owner' = c /\ UNCHANGED line

Wait(c) == owner # None /\ line' = Append(line, c) /\ UNCHANGED owner

Release ==
    /\ owner # None
    /\ \/ line = <<>> /\ owner' = None /\ UNCHANGED line
       \/ line # <<>> /\ owner' = Head(line) /\ line' = Tail(line)

Next == Release \/ \E c \in Coros : Acquire(c) \/ Wait(c)

Spec == Init /\ [][Next]_<<owner, line>>
=============================================================================
