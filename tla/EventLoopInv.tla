---------------------------- MODULE EventLoopInv ----------------------------
(***************************************************************************)
(* The inductive invariant of EventLoop, from which EventLoopProofs proves *)
(* ExclusiveResume, NoDanglingEvent and NoDanglingTimer.                   *)
(***************************************************************************)
EXTENDS EventLoop

SigPCs == {"sigCas", "sigWrite", "sigReset"}
AddPCs == {"epMod", "addTimer", "setScheduled"}

\* Where a thread holds a coroutine: while it runs it, and in add(Event *) up
\* to the store that schedules the Event.
Holds(t) == \/ pc[t] \in {"run"} \cup AddPCs
            \/ op[t] = "fd" /\ pc[t] \in SigPCs

\* A thread inside a call knows the loop it calls, and holds a coroutine
\* exactly where it has one.
CallInv ==
    \A t \in Threads :
        /\ pc[t] \in CallPCs \cup {"join"} => tgt[t] \in Loops
        /\ pc[t] \in CallPCs => op[t] # "none"
        /\ pc[t] \in AddPCs => op[t] = "fd"
        /\ run[t] # None <=> Holds(t)
        /\ pc[t] = "fire" => t \in Loops /\ expired[t] # None

\* A coroutine is in a wait exactly while its awaiter says where.
OwnerInv ==
    /\ ExclusiveResume
    /\ \A c \in Coros :
          armed[c] \/ fd[c] # None \/ st[c] = "scheduled" => at[c] # None
    /\ \A c \in Coros : st[c] \in {"new", "done"} => at[c] = None
    /\ \A l \in Loops : \A c \in queue[l] : at[c] = None
    /\ \A t \in Threads : pc[t] = "run" => at[run[t]] = None
    /\ \A t \in Threads : Holds(t) /\ pc[t] # "run" =>
          /\ at[run[t]] = tgt[t]
          /\ fd[run[t]] # None
          /\ armed[run[t]] => pc[t] \in SigPCs \cup {"setScheduled"}

\* An Event with a deadline is added by the loop that serves it, so a timer on
\* a list is of a wait that is scheduled, or that this loop is just adding.
GuardInv ==
    /\ \A t \in Threads :
          Holds(t) /\ pc[t] # "run" => tgt[t] = t \/ dd[run[t]] = Never
    /\ \A t \in Threads : pc[t] = "addTimer" => dd[run[t]] > 0
    /\ \A c \in Coros : armed[c] => st[c] = "scheduled" \/ run[at[c]] = c

\* The links of the timers: inverse to each other, among waits that one loop
\* serves, and a timer without a neighbour is an end of the list, unless it has
\* been taken off.  Nothing is said of which timers a walk reaches.
Linked(m) == \A c, e \in Coros : m.next[c] = e <=> m.prev[e] = c

LinkInv ==
    /\ Linked(links)
    /\ \A c, e \in Coros :
          links.next[c] = e => armed[c] /\ armed[e] /\ at[c] = at[e]
    /\ \A l \in Loops : timers[l].first = None <=> timers[l].last = None
    /\ \A l \in Loops : \A c \in Coros :
          /\ timers[l].first = c =>
                links.prev[c] = None /\ armed[c] /\ at[c] = l
          /\ timers[l].last = c =>
                links.next[c] = None /\ armed[c] /\ at[c] = l
          /\ armed[c] /\ at[c] = l /\ expired[l] # c =>
                /\ links.prev[c] = None => timers[l].first = c
                /\ links.next[c] = None => timers[l].last = c

\* What the loop is doing, whether it does it itself or a coroutine it resumed.
Phase(l) == IF pc[l] \in LoopPCs THEN pc[l] ELSE ret[l]

\* A timer taken off a list is off it, and its wait is not over.
OffList ==
    \A l \in Loops : expired[l] # None =>
        /\ armed[expired[l]] /\ at[expired[l]] = l
        /\ links.next[expired[l]] = None /\ links.prev[expired[l]] = None
        /\ expired[l] \notin {timers[l].first, timers[l].last}

\* It is due, and the loop is about to fire it.  Events come before timers.
ExpiredInv ==
    \A l \in Loops :
        /\ tp[l] <= now
        /\ expired[l] # None => pc[l] = "fire" /\ dd[expired[l]] <= now
        /\ Phase(l) \notin {"drain", "events"} => batch[l] = {}

OwnershipInv == TypeOK /\ CallInv /\ OwnerInv

IndInv == OwnershipInv /\ GuardInv /\ LinkInv /\ OffList /\ ExpiredInv
          /\ NoDanglingEvent
=============================================================================
