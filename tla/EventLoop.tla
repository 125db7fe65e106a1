------------------------------ MODULE EventLoop ------------------------------
(***************************************************************************)
(* The event loops of libs/async: suil::Thread (thread.cpp), the calls     *)
(* of suil::Scheduler on it (scheduler.cpp), and the awaiters that wait    *)
(* through it, Event (fdwait.cpp) and Delay (delay.cpp).                   *)
(*                                                                         *)
(* A thread is a loop or Main, the thread that starts the coroutines and   *)
(* destroys the scheduler.  Any thread may call any loop: the call's steps *)
(* are steps of the calling thread, interleaved with those of the loop.    *)
(* A step of the model is one access to state that two threads share: an   *)
(* atomic, the epoll set, the eventfd, the queue, or one critical section  *)
(* of _timersLock.  The awaiter and the timer in it belong to the frame of *)
(* the awaiting coroutine, so they are indexed by the coroutine.           *)
(***************************************************************************)
EXTENDS Integers, FiniteSets

CONSTANTS Loops,          \* the loop threads of the scheduler
          Main,           \* the thread that called Scheduler::init
          Coros,          \* the coroutines
          Fds,            \* file descriptors that are waited for
          None,           \* no coroutine, no descriptor, a NULL pointer
          Hops,           \* do coroutines move between loops, by the queue?
          FdTimeouts,     \* timeouts of fd waits, 0 for none
          DelayTimeouts,  \* durations of delays
          SharedFds,      \* may two coroutines wait for one descriptor?
          Pinned,         \* are waits served by the loop they are made on?
          Shutdown,       \* may Main destroy the scheduler?
          MaxAwaits,      \* bound: suspensions of one coroutine
          MaxTime,        \* bound: the clock
          Modulus         \* 2^64, the range of the load counters

ASSUME LoopAssumption ==
    /\ Main \notin Loops
    /\ None \notin Loops \cup {Main} \cup Coros \cup Fds
    /\ FdTimeouts \subseteq Nat
    /\ DelayTimeouts \subseteq Nat
    /\ {Hops, SharedFds, Pinned, Shutdown} \subseteq BOOLEAN
    /\ MaxAwaits \in Nat
    /\ MaxTime \in Nat
    /\ Modulus \in Nat \ {0}
ASSUME FiniteAssumption == IsFiniteSet(Loops) /\ IsFiniteSet(Coros)

VARIABLES
    \* the threads
    pc,         \* what each thread does next
    run,        \* the coroutine it runs, up to where its wait is published
    op,         \* the call it is in: "hop", "delay", "fd" or "abort"
    tgt,        \* the loop it calls
    ret,        \* where a loop goes on when the coroutine it resumed suspends
    \* the loops
    active,     \* _active
    signaling,  \* _signaling
    evfd,       \* the eventfd: "clear", "set" or "closed"
    queue,      \* _scheduleQ
    reg,        \* the epoll set: per fd, the coroutine of the Event
    batch,      \* events[] to be handled; None is the eventfd
    wake,       \* the deadline computeWaitTimeout found, or Never
    tp,         \* the clock as fireExpiredTimers read it
    expired,    \* the timer it took off the list
    timers,     \* _timers
    inflight,   \* _stats.inflight
    \* the coroutines
    st,         \* "new", "done", or the state of the coroutine's awaiter
    at,         \* the loop that serves its wait
    fd,         \* Event::Handle::fd; None when it is not an Event
    dd,         \* Timer::dd
    armed,      \* Timer::target is set
    links,      \* Timer::item
    left,       \* suspensions left
    \* the environment
    ready,      \* descriptors that are ready (level triggered)
    now         \* fastnow()

threadVars == <<pc, run, op, tgt, ret>>
pollVars   == <<batch, wake, tp, expired>>
loopVars   == <<active, signaling, evfd, queue, reg, pollVars>>
timerVars  == <<timers, links, armed>>
coroVars   == <<st, at, fd, dd, left>>
envVars    == <<ready, now>>
vars == <<threadVars, loopVars, timerVars, coroVars, inflight, envVars>>

INSTANCE MillList WITH Items <- Coros

Threads == Loops \cup {Main}
Never   == -1
CallPCs == {"record", "sigCas", "sigWrite", "sigReset", "epMod", "addTimer",
            "setScheduled"}
LoopPCs == {"top", "wait", "drain", "events", "timers", "fire", "stopped"}
MainPCs == {"main", "join"}

ThreadTypeOK ==
    /\ pc \in [Threads -> CallPCs \cup LoopPCs \cup MainPCs \cup {"run"}]
    /\ run \in [Threads -> Coros \cup {None}]
    /\ op \in [Threads -> {"none", "hop", "delay", "fd", "abort"}]
    /\ tgt \in [Threads -> Loops \cup {None}]
    /\ ret \in [Threads -> {"drain", "events", "timers", "main"}]

LoopTypeOK ==
    /\ active \in [Loops -> BOOLEAN]
    /\ signaling \in [Loops -> BOOLEAN]
    /\ evfd \in [Loops -> {"clear", "set", "closed"}]
    /\ queue \in [Loops -> SUBSET Coros]
    /\ reg \in [Loops -> [Fds -> Coros \cup {None}]]
    /\ inflight \in [Loops -> 0 .. Modulus - 1]

PollTypeOK ==
    /\ batch \in [Loops -> SUBSET (Coros \cup {None})]
    /\ wake \in [Loops -> Int]
    /\ tp \in [Loops -> Int]
    /\ expired \in [Loops -> Coros \cup {None}]

TimerTypeOK ==
    /\ timers \in [Loops -> Lists]
    /\ links \in Links
    /\ armed \in [Coros -> BOOLEAN]

CoroTypeOK ==
    /\ st \in [Coros -> {"new", "done", "created", "scheduled"}]
    /\ at \in [Coros -> Loops \cup {None}]
    /\ fd \in [Coros -> Fds \cup {None}]
    /\ dd \in [Coros -> Int]
    /\ left \in [Coros -> 0 .. MaxAwaits]

\* Every variable has a value of its type: pointers are NULL or point to a
\* timer, the load counters wrap at their width.
TypeOK ==
    /\ ThreadTypeOK
    /\ LoopTypeOK
    /\ PollTypeOK
    /\ TimerTypeOK
    /\ CoroTypeOK
    /\ ready \in SUBSET Fds
    /\ now \in 0 .. MaxTime

Init ==
    /\ pc = [t \in Threads |-> IF t = Main THEN "main" ELSE "top"]
    /\ run = [t \in Threads |-> None]
    /\ op = [t \in Threads |-> "none"]
    /\ tgt = [t \in Threads |-> None]
    /\ ret = [t \in Threads |-> IF t = Main THEN "main" ELSE "drain"]
    /\ active = [l \in Loops |-> TRUE]
    /\ signaling = [l \in Loops |-> FALSE]
    /\ evfd = [l \in Loops |-> "clear"]
    /\ queue = [l \in Loops |-> {}]
    /\ reg = [l \in Loops |-> [f \in Fds |-> None]]
    /\ batch = [l \in Loops |-> {}]
    /\ wake = [l \in Loops |-> Never]
    /\ tp = [l \in Loops |-> 0]
    /\ expired = [l \in Loops |-> None]
    /\ timers = [l \in Loops |-> EmptyList]
    /\ inflight = [l \in Loops |-> 0]
    /\ st = [c \in Coros |-> "new"]
    /\ at = [c \in Coros |-> None]
    /\ fd = [c \in Coros |-> None]
    /\ dd = [c \in Coros |-> Never]
    /\ armed = [c \in Coros |-> FALSE]
    /\ links = Unlinked
    /\ left = [c \in Coros |-> MaxAwaits]
    /\ ready = {}
    /\ now = 0

-----------------------------------------------------------------------------
(* What the steps of several operations have in common.                      *)

\* _stats.inflight++ and _stats.inflight--, on an unsigned counter.
Up(n) == (n + 1) % Modulus
DownSigned(n)   == n - 1                        \* mutant: a signed counter
DownSaturate(n) == IF n = 0 THEN 0 ELSE n - 1   \* mutant: stops at zero
Down(n) == (n + Modulus - 1) % Modulus

Goto(t, label) == pc' = [pc EXCEPT ![t] = label]

\* Thread t calls an operation k of loop l, from label on.
Call(t, k, l, label) ==
    /\ op' = [op EXCEPT ![t] = k]
    /\ tgt' = [tgt EXCEPT ![t] = l]
    /\ Goto(t, label)

\* The call of thread t is over: the coroutine is suspended (or was resumed by
\* another thread meanwhile), and t goes on where it had resumed it.
Return(t) == Call(t, "none", None, ret[t])

\* The call goes on after its signal().
AfterSignal(t) ==
    \/ op[t] = "hop" /\ Return(t)
    \/ op[t] = "delay" /\ Goto(t, "record") /\ UNCHANGED <<op, tgt>>
    \/ op[t] = "fd" /\ Goto(t, "setScheduled") /\ UNCHANGED <<op, tgt>>
    \/ op[t] = "abort" /\ Goto(t, "join") /\ UNCHANGED <<op, tgt>>

\* The compare-exchange on the state of an awaiter: of the event and the timer
\* that may both end a wait, the one that finds it scheduled does.
ClaimsAny(c) == TRUE   \* mutant: the state is set without comparing it
Claims(c) == st[c] = "scheduled"

\* Loop l resumes coroutine c, which leaves its wait (await_resume) and runs;
\* when it suspends or ends, the loop goes on at label.
Resume(l, c, label) ==
    /\ Goto(l, "run")
    /\ run' = [run EXCEPT ![l] = c]
    /\ ret' = [ret EXCEPT ![l] = label]
    /\ inflight' = [inflight EXCEPT ![l] = Down(@)]
    /\ st' = [st EXCEPT ![c] = "created"]
    /\ at' = [at EXCEPT ![c] = None]
    /\ fd' = [fd EXCEPT ![c] = None]
    /\ dd' = [dd EXCEPT ![c] = Never]
    /\ UNCHANGED <<op, tgt, left>>

\* addTimer: the walk passes the timers that are not due later than the new
\* one, which goes in where the walk stops.
AddTimer(l, c, due) ==
    /\ \E it \in Stops(timers[l], links, {i \in Coros : dd[i] <= due}) :
          /\ timers' = [timers EXCEPT ![l] = InsertList(@, c, it)]
          /\ links' = InsertLinks(timers[l], Fresh(links, c), c, it)
    /\ armed' = [armed EXCEPT ![c] = TRUE]

\* cancelTimer, and the erase of fireExpiredTimers.
EraseTimerNot(l, c) == UNCHANGED <<timers, links>>   \* mutant: no erase
EraseTimer(l, c) ==
    /\ timers' = [timers EXCEPT ![l] = EraseList(@, links, c)]
    /\ links' = EraseLinks(links, c)

\* The loops that may serve a wait of the coroutine that thread t runs.
Servers(t) == IF Pinned THEN {t} \cap Loops ELSE Loops
-----------------------------------------------------------------------------
(* A coroutine suspends: co_await in its body, and the calls this makes.     *)

Suspends(t, c) ==
    /\ pc[t] = "run"
    /\ c = run[t]
    /\ left[c] > 0
    /\ left' = [left EXCEPT ![c] = @ - 1]

\* Scheduler::schedule(coro, tid): the handle goes into the queue of loop l.
AwaitHop(t, c, l) ==
    /\ Hops
    /\ Suspends(t, c)
    /\ queue' = [queue EXCEPT ![l] = @ \cup {c}]
    /\ run' = [run EXCEPT ![t] = None]
    /\ Call(t, "hop", l, "record")
    /\ UNCHANGED <<ret, active, signaling, evfd, reg, pollVars,
                   timerVars, st, at, fd, dd, inflight, envVars>>

\* co_await Delay: add(Delay *) up to the insertion of the timer.
AwaitDelay(t, c, l, d) ==
    /\ now + d <= MaxTime
    /\ l \in Servers(t)
    /\ Suspends(t, c)
    /\ st' = [st EXCEPT ![c] = "scheduled"]
    /\ at' = [at EXCEPT ![c] = l]
    /\ dd' = [dd EXCEPT ![c] = now + d]
    /\ AddTimer(l, c, now + d)
    /\ run' = [run EXCEPT ![t] = None]
    /\ Call(t, "delay", l, "sigCas")
    /\ UNCHANGED <<ret, loopVars, fd, inflight, envVars>>

\* After a successful epoll_ctl, add(Event *) goes on with the timer, if any.
Registered(timed) == IF timed THEN "addTimer" ELSE "setScheduled"

\* co_await Event: add(Event *) up to EPOLL_CTL_ADD, which fails with EEXIST
\* when the descriptor is in the epoll set already.
AwaitFd(t, c, l, f, d) ==
    /\ now + d <= MaxTime
    /\ l \in Servers(t)
    /\ SharedFds \/ \A o \in Coros : fd[o] # f
    /\ Suspends(t, c)
    /\ at' = [at EXCEPT ![c] = l]
    /\ fd' = [fd EXCEPT ![c] = f]
    /\ dd' = [dd EXCEPT ![c] = IF d > 0 THEN now + d ELSE Never]
    /\ armed' = [armed EXCEPT ![c] = FALSE]
    /\ \/ /\ reg[l][f] = None
          /\ reg' = [reg EXCEPT ![l][f] = c]
          /\ Call(t, "fd", l, Registered(d > 0))
       \/ /\ reg[l][f] # None
          /\ Call(t, "fd", l, "epMod")
          /\ UNCHANGED reg
    /\ UNCHANGED <<run, ret, active, signaling, evfd, queue, pollVars,
                   timers, links, st, inflight, envVars>>

\* EPOLL_CTL_MOD replaces the registration.  It fails with ENOENT when the
\* other wait ended in between: add() returns false, which the scheduler
\* ignores, and the coroutine is left suspended.
EpollMod(t) ==
    /\ pc[t] = "epMod"
    /\ LET c == run[t]
           l == tgt[t] IN
       \/ /\ reg[l][fd[c]] # None
          /\ reg' = [reg EXCEPT ![l][fd[c]] = c]
          /\ Goto(t, Registered(dd[c] > 0))
          /\ UNCHANGED <<run, op, tgt>>
       \/ /\ reg[l][fd[c]] = None
          /\ run' = [run EXCEPT ![t] = None]
          /\ Return(t)
          /\ UNCHANGED reg
    /\ UNCHANGED <<ret, active, signaling, evfd, queue, pollVars, timerVars,
                   coroVars, inflight, envVars>>

\* The timer of an Event goes on the list, before the Event is scheduled.
AddEventTimer(t) ==
    /\ pc[t] = "addTimer"
    /\ AddTimer(tgt[t], run[t], dd[run[t]])
    /\ Goto(t, "sigCas")
    /\ UNCHANGED <<run, op, tgt, ret, loopVars, coroVars, inflight, envVars>>

SetScheduled(t) ==
    /\ pc[t] = "setScheduled"
    /\ st' = [st EXCEPT ![run[t]] = "scheduled"]
    /\ run' = [run EXCEPT ![t] = None]
    /\ Goto(t, "record")
    /\ UNCHANGED <<op, tgt, ret, loopVars, timerVars, at, fd, dd, left,
                   inflight, envVars>>

Record(t) ==
    /\ pc[t] = "record"
    /\ inflight' = [inflight EXCEPT ![tgt[t]] = Up(@)]
    /\ \/ op[t] = "hop" /\ Goto(t, "sigCas") /\ UNCHANGED <<op, tgt>>
       \/ op[t] # "hop" /\ Return(t)
    /\ UNCHANGED <<run, ret, loopVars, timerVars, coroVars, envVars>>

\* signal(): only one thread at a time writes the eventfd; one that finds
\* another at it goes away.
SignalCas(t) ==
    /\ pc[t] = "sigCas"
    /\ \/ /\ ~signaling[tgt[t]]
          /\ signaling' = [signaling EXCEPT ![tgt[t]] = TRUE]
          /\ Goto(t, "sigWrite")
          /\ UNCHANGED <<op, tgt>>
       \/ /\ signaling[tgt[t]]
          /\ AfterSignal(t)
          /\ UNCHANGED signaling
    /\ UNCHANGED <<run, ret, active, evfd, queue, reg, pollVars,
                   timerVars, coroVars, inflight, envVars>>

\* The write fails when the loop has closed its eventfd; the assertion on the
\* result then ends the process, so nothing follows.
SignalWrite(t) ==
    /\ pc[t] = "sigWrite"
    /\ evfd[tgt[t]] # "closed"
    /\ evfd' = [evfd EXCEPT ![tgt[t]] = "set"]
    /\ Goto(t, "sigReset")
    /\ UNCHANGED <<run, op, tgt, ret, active, signaling, queue, reg,
                   pollVars, timerVars, coroVars, inflight, envVars>>

SignalReset(t) ==
    /\ pc[t] = "sigReset"
    /\ signaling' = [signaling EXCEPT ![tgt[t]] = FALSE]
    /\ AfterSignal(t)
    /\ UNCHANGED <<run, ret, active, evfd, queue, reg, pollVars,
                   timerVars, coroVars, inflight, envVars>>

\* The body of the coroutine ends.
Finish(t) ==
    /\ pc[t] = "run"
    /\ st' = [st EXCEPT ![run[t]] = "done"]
    /\ run' = [run EXCEPT ![t] = None]
    /\ Goto(t, ret[t])
    /\ UNCHANGED <<op, tgt, ret, loopVars, timerVars, at, fd, dd, left,
                   inflight, envVars>>
-----------------------------------------------------------------------------
(* The loop of a thread.                                                     *)

\* while (_active), and computeWaitTimeout: the loop will sleep until the first
\* timer of the list is due.  It closes its descriptors when it leaves.
LoopTop(l) ==
    /\ pc[l] = "top"
    /\ \/ /\ active[l]
          /\ LET first == timers[l].first IN
             wake' = [wake EXCEPT ![l] =
                         IF first = None THEN Never ELSE dd[first]]
          /\ Goto(l, "wait")
          /\ UNCHANGED evfd
       \/ /\ ~active[l]
          /\ evfd' = [evfd EXCEPT ![l] = "closed"]
          /\ Goto(l, "stopped")
          /\ UNCHANGED wake
    /\ UNCHANGED <<run, op, tgt, ret, active, signaling, queue, reg, batch, tp,
                   expired, timerVars, coroVars, inflight, envVars>>

\* epoll_wait returns what is ready, or nothing when the timeout has passed.
EpollReturns(l, found) ==
    /\ pc[l] = "wait"
    /\ batch' = [batch EXCEPT ![l] = found]
    /\ wake' = [wake EXCEPT ![l] = Never]
    /\ Goto(l, IF active[l] THEN "drain" ELSE "top")
    /\ UNCHANGED <<run, op, tgt, ret, active, signaling, evfd, queue, reg, tp,
                   expired, timerVars, coroVars, inflight, envVars>>

Polled(l) ==
    ({reg[l][f] : f \in ready} \ {None})
        \cup (IF evfd[l] = "set" THEN {None} ELSE {})

WakesPolled(l) == Polled(l) # {}   \* mutant: sleeps past the deadline
Wakes(l) == Polled(l) # {} \/ (wake[l] # Never /\ now >= wake[l])

EpollWait(l) ==
    /\ Wakes(l)
    /\ EpollReturns(l, IF active[l] THEN Polled(l) ELSE {})

\* A signal interrupts the sleep (EINTR).
Interrupted(l) ==
    /\ ~Wakes(l)
    /\ EpollReturns(l, {})

\* The loop takes a coroutine from its queue and resumes it.
ResumeScheduled(l, c) ==
    /\ pc[l] = "drain"
    /\ active[l]
    /\ c \in queue[l]
    /\ queue' = [queue EXCEPT ![l] = @ \ {c}]
    /\ Resume(l, c, "drain")
    /\ UNCHANGED <<active, signaling, evfd, reg, pollVars, timerVars, envVars>>

DrainEnd(l) ==
    /\ pc[l] = "drain"
    /\ ~active[l] \/ queue[l] = {}
    /\ Goto(l, "events")
    /\ UNCHANGED <<run, op, tgt, ret, loopVars, timerVars, coroVars, inflight,
                   envVars>>

NextEvent(l, e) ==
    /\ pc[l] = "events"
    /\ active[l]
    /\ e \in batch[l]
    /\ batch' = [batch EXCEPT ![l] = @ \ {e}]

\* The eventfd is read, which clears it.
HandleThreadEvent(l) ==
    /\ NextEvent(l, None)
    /\ evfd' = [evfd EXCEPT ![l] = "clear"]
    /\ UNCHANGED <<threadVars, active, signaling, queue, reg, wake, tp,
                   expired,
                   timerVars, coroVars, inflight, envVars>>

\* EPOLL_CTL_DEL of the descriptor that coroutine c waits for.
UnregisterNot(l, c) == UNCHANGED reg   \* mutant: the descriptor stays
Unregister(l, c) == reg' = [reg EXCEPT ![l][fd[c]] = None]

\* A scheduled Event fires: its timer is cancelled, its descriptor taken out of
\* the epoll set and its coroutine resumed.
HandleEvent(l, c) ==
    /\ NextEvent(l, c)
    /\ Claims(c)
    /\ \/ armed[c] /\ EraseTimer(l, c)
       \/ ~armed[c] /\ UNCHANGED <<timers, links>>
    /\ armed' = [armed EXCEPT ![c] = FALSE]
    /\ Unregister(l, c)
    /\ Resume(l, c, "events")
    /\ UNCHANGED <<active, signaling, evfd, queue, wake, tp, expired, envVars>>

\* An Event that is not scheduled yet, or no longer, is passed over.
SkipEventClean(l, c) ==   \* mutant: its descriptor is taken out
    /\ NextEvent(l, c)
    /\ ~Claims(c)
    /\ Unregister(l, c)
    /\ UNCHANGED <<threadVars, active, signaling, evfd, queue, wake, tp,
                   expired, timerVars, coroVars, inflight, envVars>>
SkipEvent(l, c) ==
    /\ NextEvent(l, c)
    /\ ~Claims(c)
    /\ UNCHANGED <<threadVars, active, signaling, evfd, queue, reg, wake, tp,
                   expired, timerVars, coroVars, inflight, envVars>>

\* fireExpiredTimers starts by reading the clock.
EventsEnd(l) ==
    /\ pc[l] = "events"
    /\ ~active[l] \/ batch[l] = {}
    /\ batch' = [batch EXCEPT ![l] = {}]
    /\ \/ active[l] /\ Goto(l, "timers") /\ tp' = [tp EXCEPT ![l] = now]
       \/ ~active[l] /\ Goto(l, "top") /\ UNCHANGED tp
    /\ UNCHANGED <<run, op, tgt, ret, active, signaling, evfd, queue, reg,
                   wake,
                   expired, timerVars, coroVars, inflight, envVars>>

Expired(l) == /\ timers[l].first # None
              /\ dd[timers[l].first] <= tp[l]

\* The first timer of the list is due and comes off it, with the lock held;
\* it is looked at when the lock has been released.
TakeExpiredTimer(l) ==
    /\ pc[l] = "timers"
    /\ Expired(l)
    /\ expired' = [expired EXCEPT ![l] = timers[l].first]
    /\ EraseTimer(l, timers[l].first)
    /\ Goto(l, "fire")
    /\ UNCHANGED <<run, op, tgt, ret, active, signaling, evfd, queue, reg,
                   batch,
                   wake, tp, armed, coroVars, inflight, envVars>>

\* The wait of the timer's target ends with it.
FireTimer(l, c) ==
    /\ pc[l] = "fire"
    /\ c = expired[l]
    /\ Claims(c)
    /\ expired' = [expired EXCEPT ![l] = None]
    /\ \/ fd[c] # None /\ Unregister(l, c)
       \/ fd[c] = None /\ UNCHANGED reg
    /\ armed' = [armed EXCEPT ![c] = FALSE]
    /\ Resume(l, c, "timers")
    /\ UNCHANGED <<active, signaling, evfd, queue, batch, wake, tp, timers,
                   links, envVars>>

\* The timer is dropped when its target is not scheduled.
DropTimer(l) ==
    /\ pc[l] = "fire"
    /\ ~Claims(expired[l])
    /\ expired' = [expired EXCEPT ![l] = None]
    /\ Goto(l, "timers")
    /\ UNCHANGED <<run, op, tgt, ret, active, signaling, evfd, queue, reg,
                   batch,
                   wake, tp, timerVars, coroVars, inflight, envVars>>

TimersEnd(l) ==
    /\ pc[l] = "timers"
    /\ ~Expired(l)
    /\ tp' = [tp EXCEPT ![l] = 0]
    /\ Goto(l, "top")
    /\ UNCHANGED <<run, op, tgt, ret, active, signaling, evfd, queue, reg,
                   batch,
                   wake, expired, timerVars, coroVars, inflight, envVars>>
-----------------------------------------------------------------------------
(* The main thread, and the environment.                                     *)

\* Main calls a coroutine, which runs on Main until it first suspends.
Start(c) ==
    /\ pc[Main] = "main"
    /\ \A l \in Loops : active[l]
    /\ st[c] = "new"
    /\ st' = [st EXCEPT ![c] = "created"]
    /\ run' = [run EXCEPT ![Main] = c]
    /\ Goto(Main, "run")
    /\ UNCHANGED <<op, tgt, ret, loopVars, timerVars, at, fd, dd, left,
                   inflight, envVars>>

\* ~Scheduler destroys its threads one after the other: abort() and join.
Abort(l) ==
    /\ Shutdown
    /\ pc[Main] = "main"
    /\ active[l]
    /\ active' = [active EXCEPT ![l] = FALSE]
    /\ Call(Main, "abort", l, "sigCas")
    /\ UNCHANGED <<run, ret, signaling, evfd, queue, reg, pollVars, timerVars,
                   coroVars, inflight, envVars>>

Join ==
    /\ pc[Main] = "join"
    /\ pc[tgt[Main]] = "stopped"
    /\ Return(Main)
    /\ UNCHANGED <<run, ret, loopVars, timerVars, coroVars, inflight, envVars>>

Tick ==
    /\ now < MaxTime
    /\ now' = now + 1
    /\ UNCHANGED <<threadVars, loopVars, timerVars, coroVars, inflight, ready>>

\* A descriptor becomes ready, or its readiness is used up.
FdReady(f) ==
    /\ ready' = IF f \in ready THEN ready \ {f} ELSE ready \cup {f}
    /\ UNCHANGED <<threadVars, loopVars, timerVars, coroVars, inflight, now>>
-----------------------------------------------------------------------------
CallStep(t) ==
    \/ \E c \in Coros, l \in Loops :
          \/ AwaitHop(t, c, l)
          \/ \E d \in DelayTimeouts : AwaitDelay(t, c, l, d)
          \/ \E f \in Fds, d \in FdTimeouts : AwaitFd(t, c, l, f, d)
    \/ EpollMod(t) \/ AddEventTimer(t) \/ SetScheduled(t) \/ Record(t)
    \/ SignalCas(t) \/ SignalWrite(t) \/ SignalReset(t) \/ Finish(t)

LoopStep(l) ==
    \/ LoopTop(l) \/ EpollWait(l) \/ DrainEnd(l) \/ HandleThreadEvent(l)
    \/ EventsEnd(l) \/ TakeExpiredTimer(l) \/ DropTimer(l) \/ TimersEnd(l)
    \/ \E c \in Coros : \/ ResumeScheduled(l, c) \/ HandleEvent(l, c)
                        \/ SkipEvent(l, c) \/ FireTimer(l, c)

Next ==
    \/ \E t \in Threads : CallStep(t)
    \/ \E l \in Loops : LoopStep(l) \/ Interrupted(l) \/ Abort(l)
    \/ \E c \in Coros : Start(c)
    \/ \E f \in Fds : FdReady(f)
    \/ Join \/ Tick

Spec == Init /\ [][Next]_vars

\* Threads are scheduled and time passes; nothing else is certain to happen.
FairSpec ==
    /\ Spec
    /\ \A t \in Threads : WF_vars(CallStep(t))
    /\ \A l \in Loops : WF_vars(LoopStep(l))
    /\ WF_vars(Join)
    /\ WF_vars(Tick)
-----------------------------------------------------------------------------
\* A suspended coroutine is resumed once: it is run by one thread at most, and
\* one that is running is neither in a queue nor scheduled, wherever its last
\* wait was served and however late the thread that suspended it returns.
ExclusiveResume ==
    /\ \A t, u \in Threads : run[t] = run[u] /\ run[t] # None => t = u
    /\ \A t \in Threads : run[t] # None => st[run[t]] = "created"
    /\ \A l, m \in Loops : queue[l] \cap queue[m] # {} => l = m
    /\ \A l \in Loops : \A c \in queue[l] :
          st[c] = "created" /\ \A t \in Threads : run[t] # c

\* The condition under which timers are kept safely: an Event with a deadline
\* is only ever added by the loop that serves it.  Otherwise that loop may take
\* the timer off its list before the Event is scheduled (see EraseOnlyMembers).
TimersGuarded == Pinned \/ FdTimeouts \subseteq {0}

\* What the kernel holds and what epoll_wait has returned are the addresses of
\* Events in coroutine frames: each of them is of a wait that is not over, at
\* that loop and for that descriptor.
NoDanglingEvent ==
    \A l \in Loops :
        /\ \A f \in Fds : reg[l][f] # None =>
              at[reg[l][f]] = l /\ fd[reg[l][f]] = f
        /\ \A c \in batch[l] \ {None} : at[c] = l /\ fd[c] # None

\* The timers on a loop's list, and the one it is about to fire, are in waits
\* that are not over and that this loop serves; one taken off the list is due.
NoDanglingTimer ==
    \A l \in Loops :
        /\ \A c \in OnList(timers[l], links) : armed[c] /\ at[c] = l
        /\ expired[l] # None =>
              armed[expired[l]] /\ at[expired[l]] = l /\ dd[expired[l]] <= now

\* The load of a loop, by which the scheduler chooses one, is the number of
\* coroutines in its queue and in waits it serves, but for the calls that have
\* yet to count: the counter is behind them, below zero when it has to be.
Uncounted(l) ==
    {t \in Threads : tgt[t] = l /\ (pc[t] = "record" \/ op[t] = "delay")}

LoadAccounting ==
    \A l \in Loops :
        (inflight[l] + Cardinality(Uncounted(l))) % Modulus =
        (Cardinality(queue[l]) +
            Cardinality({c \in Coros : st[c] = "scheduled" /\ at[c] = l}))
        % Modulus

\* With one waiter per descriptor, an Event that is scheduled is in the epoll
\* set of its loop: nothing else takes it out.
ScheduledIsRegistered ==
    \A c \in Coros :
        st[c] = "scheduled" /\ fd[c] # None => reg[at[c]][fd[c]] = c

\* With waits served where they are made, the list of a loop is intact, holds
\* the timer of every timed wait in the order of the deadlines.
TimerListIntact ==
    \A l \in Loops :
        LET on == OnList(timers[l], links) IN
        /\ Intact(timers[l], links)
        /\ on = {c \in Coros : armed[c] /\ at[c] = l} \ {expired[l]}
        /\ \A c \in on : links.next[c] # None => dd[c] <= dd[links.next[c]]

\* What list.hpp asks of the caller of mill_list_erase: the timer of an Event
\* that is about to be handled is on the list of the loop that handles it.
EraseOnlyMembers ==
    \A l \in Loops : \A c \in batch[l] \ {None} :
        pc[l] = "events" /\ active[l] /\ st[c] = "scheduled" /\ armed[c]
            => c \in OnList(timers[l], links)

\* What signal() asserts: the eventfd takes the write.
SignalReachesLoop ==
    \A t \in Threads : pc[t] = "sigWrite" => evfd[tgt[t]] # "closed"

\* Every coroutine that is put into a queue is taken out and resumed.
QueueDrains ==
    \A c \in Coros, l \in Loops : c \in queue[l] ~> c \notin queue[l]

\* Every wait with a deadline ends.
TimedWaitsEnd ==
    \A c \in Coros : (st[c] = "scheduled" /\ armed[c]) ~> (st[c] # "scheduled")

\* A wait for a descriptor that stays ready ends.
ReadyWaitsEnd ==
    \A c \in Coros : []<>~(st[c] = "scheduled" /\ fd[c] \in ready)
=============================================================================
