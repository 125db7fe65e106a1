--------------------------- MODULE EventLoopProofs ---------------------------
(***************************************************************************)
(* Which thread, queue or wait has a coroutine: proofs about EventLoop for *)
(* every set of loops, coroutines and descriptors, for all timeouts and    *)
(* whether or not waits are served by the loop that makes them.            *)
(***************************************************************************)
EXTENDS EventLoopInv, FiniteSetTheorems, TLAPS

\* Where the walk of addTimer stops is a timer or NULL.
LEMMA StopsArePointers ==
    ASSUME NEW s \in Lists, NEW m \in Links, NEW T \in SUBSET Coros,
           NEW it \in Stops(s, m, T)
    PROVE  it \in Pointers
  BY DEF Stops, Walked, Lists, Links, Pointers

\* mill_list_insert keeps pointers pointers.
LEMMA InsertType ==
    ASSUME NEW s \in Lists, NEW m \in Links, NEW c \in Coros,
           NEW it \in Pointers
    PROVE  /\ InsertList(s, c, it) \in Lists
           /\ InsertLinks(s, Fresh(m, c), c, it) \in Links
  BY LoopAssumption
     DEF InsertList, InsertLinks, InsertPrev, Fresh, Point, Lists, Links,
         Pointers

\* mill_list_erase keeps pointers pointers, also for an item that is not on
\* the list.
LEMMA EraseType ==
    ASSUME NEW s \in Lists, NEW m \in Links, NEW c \in Coros
    PROVE  /\ EraseList(s, m, c) \in Lists
           /\ EraseLinks(m, c) \in Links
  BY LoopAssumption DEF EraseList, EraseLinks, Point, Lists, Links, Pointers

\* addTimer keeps the types of the timer lists.
LEMMA AddTimerType ==
    ASSUME TimerTypeOK, NEW l \in Loops, NEW c \in Coros, NEW due \in Int,
           AddTimer(l, c, due)
    PROVE  TimerTypeOK'
<1>1. PICK it \in Stops(timers[l], links, {i \in Coros : dd[i] <= due}) :
          /\ timers' = [timers EXCEPT ![l] = InsertList(@, c, it)]
          /\ links' = InsertLinks(timers[l], Fresh(links, c), c, it)
  BY DEF AddTimer
<1>2. timers[l] \in Lists /\ links \in Links
  BY DEF TimerTypeOK
<1>3. it \in Pointers
  BY <1>1, <1>2, StopsArePointers
<1>4. InsertList(timers[l], c, it) \in Lists /\ links' \in Links
  BY <1>1, <1>2, <1>3, InsertType
<1> QED
  BY <1>1, <1>4 DEF TimerTypeOK, AddTimer

\* cancelTimer, and the erase of fireExpiredTimers, keep the types of the timer
\* lists.
LEMMA EraseTimerType ==
    ASSUME TimerTypeOK, NEW l \in Loops, NEW c \in Coros, EraseTimer(l, c)
    PROVE  timers' \in [Loops -> Lists] /\ links' \in Links
  BY EraseType DEF EraseTimer, TimerTypeOK

\* epoll_ctl keeps the type of the epoll sets.
LEMMA RegisterType ==
    ASSUME LoopTypeOK, NEW l, NEW f, NEW c \in Coros \cup {None}
    PROVE  [reg EXCEPT ![l][f] = c] \in [Loops -> [Fds -> Coros \cup {None}]]
  BY DEF LoopTypeOK

\* The unsigned load counters stay in their range, below zero too.
LEMMA CounterType ==
    ASSUME NEW n \in 0 .. Modulus - 1
    PROVE  Up(n) \in 0 .. Modulus - 1 /\ Down(n) \in 0 .. Modulus - 1
  BY LoopAssumption DEF Up, Down

-----------------------------------------------------------------------------
\* What the steps of the type invariant need of each other.
TypeInv == TypeOK /\ CallInv

\* Every step of a thread keeps every variable in its type, given that calls
\* know their loop (CallInv).
LEMMA TypeStep == TypeInv /\ [Next]_vars => TypeOK'
<1> SUFFICES ASSUME TypeInv, [Next]_vars PROVE TypeOK'
  OBVIOUS
<1> USE DEF TypeInv, TypeOK
<1>t. Loops \subseteq Threads /\ Main \in Threads
  BY DEF Threads
<1>1. ASSUME NEW t \in Threads, NEW c \in Coros, NEW l \in Loops,
             AwaitHop(t, c, l)
      PROVE TypeOK'
  <2>1. ThreadTypeOK'
    BY <1>1, <1>t
       DEF AwaitHop, Call, Goto, ThreadTypeOK, CallPCs, LoopPCs, MainPCs
  <2>2. LoopTypeOK'
    BY <1>1 DEF AwaitHop, LoopTypeOK, pollVars, timerVars
  <2>3. CoroTypeOK'
    BY <1>1, LoopAssumption
       DEF AwaitHop, Suspends, CoroTypeOK, pollVars, timerVars
  <2>4. PollTypeOK' /\ TimerTypeOK' /\ (ready \in SUBSET Fds
            /\ now \in 0 .. MaxTime)'
    BY <1>1 DEF AwaitHop, pollVars, timerVars, envVars, PollTypeOK, TimerTypeOK
  <2> QED
    BY <2>1, <2>2, <2>3, <2>4
<1>2. ASSUME NEW t \in Threads, NEW c \in Coros, NEW l \in Loops,
             NEW d \in DelayTimeouts, AwaitDelay(t, c, l, d)
      PROVE TypeOK'
  <2>d. now + d \in Int
    BY LoopAssumption
  <2>1. ThreadTypeOK'
    BY <1>2, <1>t
       DEF AwaitDelay, Call, Goto, ThreadTypeOK, CallPCs, LoopPCs, MainPCs
  <2>2. TimerTypeOK'
    BY <1>2, <2>d, AddTimerType DEF AwaitDelay, TimerTypeOK, loopVars, pollVars
  <2>3. CoroTypeOK'
    BY <1>2, <2>d, LoopAssumption
       DEF AwaitDelay, Suspends, CoroTypeOK, loopVars, pollVars
  <2>4. LoopTypeOK' /\ PollTypeOK' /\ (ready \in SUBSET Fds
            /\ now \in 0 .. MaxTime)'
    BY <1>2 DEF AwaitDelay, loopVars, pollVars, envVars, LoopTypeOK, PollTypeOK
  <2> QED
    BY <2>1, <2>2, <2>3, <2>4
<1>3. ASSUME NEW t \in Threads, NEW c \in Coros, NEW l \in Loops,
             NEW f \in Fds, NEW d \in FdTimeouts, AwaitFd(t, c, l, f, d)
      PROVE TypeOK'
  <2>d. now + d \in Int
    BY LoopAssumption
  <2>r. reg' \in [Loops -> [Fds -> Coros \cup {None}]]
    <3>1. CASE reg' = reg
      BY <3>1 DEF LoopTypeOK
    <3>2. CASE reg' = [reg EXCEPT ![l][f] = c]
      BY <3>2, RegisterType
    <3> QED
      BY <1>3, <3>1, <3>2 DEF AwaitFd
  <2>1. ThreadTypeOK'
    BY <1>3, <1>t
       DEF AwaitFd, Call, Goto, Registered, ThreadTypeOK, CallPCs, LoopPCs,
           MainPCs
  <2>2. LoopTypeOK'
    BY <1>3, <2>r DEF AwaitFd, LoopTypeOK, pollVars
  <2>3. TimerTypeOK'
    BY <1>3 DEF AwaitFd, TimerTypeOK, pollVars
  <2>4. CoroTypeOK'
    BY <1>3, <2>d, LoopAssumption
       DEF AwaitFd, Suspends, Never, CoroTypeOK, pollVars
  <2>5. PollTypeOK' /\ (ready \in SUBSET Fds /\ now \in 0 .. MaxTime)'
    BY <1>3 DEF AwaitFd, pollVars, envVars, PollTypeOK
  <2> QED
    BY <2>1, <2>2, <2>3, <2>4, <2>5
<1>4. ASSUME NEW t \in Threads, EpollMod(t)
      PROVE TypeOK'
  <2>c. run[t] \in Coros
    BY <1>4 DEF EpollMod, CallInv, Holds, AddPCs, ThreadTypeOK
  <2>r. reg' \in [Loops -> [Fds -> Coros \cup {None}]]
    <3>1. CASE reg' = reg
      BY <3>1 DEF LoopTypeOK
    <3>2. CASE reg' = [reg EXCEPT ![tgt[t]][fd[run[t]]] = run[t]]
      BY <3>2, <2>c, RegisterType
    <3> QED
      BY <1>4, <3>1, <3>2 DEF EpollMod
  <2>1. ThreadTypeOK'
    BY <1>4, <1>t
       DEF EpollMod, Return, Call, Goto, Registered, ThreadTypeOK, CallPCs,
           LoopPCs, MainPCs
  <2>2. LoopTypeOK'
    BY <1>4, <2>r DEF EpollMod, LoopTypeOK, pollVars, timerVars, coroVars
  <2>3. PollTypeOK' /\ TimerTypeOK' /\ CoroTypeOK' /\ (ready \in SUBSET Fds
            /\ now \in 0 .. MaxTime)'
    BY <1>4
       DEF EpollMod, pollVars, timerVars, coroVars, envVars, PollTypeOK,
           TimerTypeOK, CoroTypeOK
  <2> QED
    BY <2>1, <2>2, <2>3
<1>5. ASSUME NEW t \in Threads, AddEventTimer(t)
      PROVE TypeOK'
  <2>c. run[t] \in Coros /\ tgt[t] \in Loops
    BY <1>5 DEF AddEventTimer, CallInv, Holds, AddPCs, CallPCs, ThreadTypeOK
  <2>1. ThreadTypeOK'
    BY <1>5, <1>t
       DEF AddEventTimer, Goto, ThreadTypeOK, CallPCs, LoopPCs, MainPCs
  <2>2. TimerTypeOK'
    BY <1>5, <2>c, AddTimerType
       DEF AddEventTimer, CoroTypeOK, TimerTypeOK, loopVars, pollVars, coroVars
  <2>3. LoopTypeOK' /\ PollTypeOK' /\ CoroTypeOK' /\ (ready \in SUBSET Fds
            /\ now \in 0 .. MaxTime)'
    BY <1>5
       DEF AddEventTimer, loopVars, pollVars, coroVars, envVars, LoopTypeOK,
           PollTypeOK, CoroTypeOK
  <2> QED
    BY <2>1, <2>2, <2>3
<1>6. ASSUME NEW t \in Threads, SetScheduled(t)
      PROVE TypeOK'
  <2>1. ThreadTypeOK'
    BY <1>6, <1>t
       DEF SetScheduled, Goto, ThreadTypeOK, CallPCs, LoopPCs, MainPCs
  <2>2. CoroTypeOK'
    BY <1>6 DEF SetScheduled, CoroTypeOK, loopVars, pollVars, timerVars
  <2>3. LoopTypeOK' /\ PollTypeOK' /\ TimerTypeOK' /\ (ready \in SUBSET Fds
            /\ now \in 0 .. MaxTime)'
    BY <1>6
       DEF SetScheduled, loopVars, pollVars, timerVars, envVars, LoopTypeOK,
           PollTypeOK, TimerTypeOK
  <2> QED
    BY <2>1, <2>2, <2>3
<1>7. ASSUME NEW t \in Threads, Record(t)
      PROVE TypeOK'
  <2>c. tgt[t] \in Loops
    BY <1>7 DEF Record, CallInv, CallPCs
  <2>1. ThreadTypeOK'
    BY <1>7, <1>t
       DEF Record, Return, Call, Goto, ThreadTypeOK, CallPCs, LoopPCs, MainPCs
  <2>2. LoopTypeOK'
    BY <1>7, <2>c, CounterType
       DEF Record, LoopTypeOK, loopVars, pollVars, timerVars, coroVars
  <2>3. PollTypeOK' /\ TimerTypeOK' /\ CoroTypeOK' /\ (ready \in SUBSET Fds
            /\ now \in 0 .. MaxTime)'
    BY <1>7
       DEF Record, loopVars, pollVars, timerVars, coroVars, envVars,
           PollTypeOK, TimerTypeOK, CoroTypeOK
  <2> QED
    BY <2>1, <2>2, <2>3
<1>8. ASSUME NEW t \in Threads, SignalCas(t)
      PROVE TypeOK'
  <2>1. ThreadTypeOK'
    BY <1>8, <1>t
       DEF SignalCas, AfterSignal, Return, Call, Goto, ThreadTypeOK, CallPCs,
           LoopPCs, MainPCs
  <2>2. LoopTypeOK'
    BY <1>8 DEF SignalCas, LoopTypeOK, pollVars, timerVars, coroVars
  <2>3. PollTypeOK' /\ TimerTypeOK' /\ CoroTypeOK' /\ (ready \in SUBSET Fds
            /\ now \in 0 .. MaxTime)'
    BY <1>8
       DEF SignalCas, pollVars, timerVars, coroVars, envVars, PollTypeOK,
           TimerTypeOK, CoroTypeOK
  <2> QED
    BY <2>1, <2>2, <2>3
<1>9. ASSUME NEW t \in Threads, SignalWrite(t)
      PROVE TypeOK'
  <2>1. ThreadTypeOK'
    BY <1>9, <1>t
       DEF SignalWrite, Goto, ThreadTypeOK, CallPCs, LoopPCs, MainPCs
  <2>2. LoopTypeOK'
    BY <1>9 DEF SignalWrite, LoopTypeOK, pollVars, timerVars, coroVars
  <2>3. PollTypeOK' /\ TimerTypeOK' /\ CoroTypeOK' /\ (ready \in SUBSET Fds
            /\ now \in 0 .. MaxTime)'
    BY <1>9
       DEF SignalWrite, pollVars, timerVars, coroVars, envVars, PollTypeOK,
           TimerTypeOK, CoroTypeOK
  <2> QED
    BY <2>1, <2>2, <2>3
<1>10. ASSUME NEW t \in Threads, SignalReset(t)
      PROVE TypeOK'
  <2>1. ThreadTypeOK'
    BY <1>10, <1>t
       DEF SignalReset, AfterSignal, Return, Call, Goto, ThreadTypeOK, CallPCs,
           LoopPCs, MainPCs
  <2>2. LoopTypeOK'
    BY <1>10 DEF SignalReset, LoopTypeOK, pollVars, timerVars, coroVars
  <2>3. PollTypeOK' /\ TimerTypeOK' /\ CoroTypeOK' /\ (ready \in SUBSET Fds
            /\ now \in 0 .. MaxTime)'
    BY <1>10
       DEF SignalReset, pollVars, timerVars, coroVars, envVars, PollTypeOK,
           TimerTypeOK, CoroTypeOK
  <2> QED
    BY <2>1, <2>2, <2>3
<1>11. ASSUME NEW t \in Threads, Finish(t)
      PROVE TypeOK'
  <2>1. ThreadTypeOK'
    BY <1>11, <1>t DEF Finish, Goto, ThreadTypeOK, CallPCs, LoopPCs, MainPCs
  <2>2. CoroTypeOK'
    BY <1>11 DEF Finish, CoroTypeOK, loopVars, pollVars, timerVars
  <2>3. LoopTypeOK' /\ PollTypeOK' /\ TimerTypeOK' /\ (ready \in SUBSET Fds
            /\ now \in 0 .. MaxTime)'
    BY <1>11
       DEF Finish, loopVars, pollVars, timerVars, envVars, LoopTypeOK,
           PollTypeOK, TimerTypeOK
  <2> QED
    BY <2>1, <2>2, <2>3
<1>12. ASSUME NEW l \in Loops, LoopTop(l)
      PROVE TypeOK'
  <2>1. ThreadTypeOK'
    BY <1>12, <1>t DEF LoopTop, Goto, ThreadTypeOK, CallPCs, LoopPCs, MainPCs
  <2>2. LoopTypeOK'
    BY <1>12 DEF LoopTop, LoopTypeOK, timerVars, coroVars
  <2>3. PollTypeOK'
    BY <1>12
       DEF LoopTop, TimerTypeOK, CoroTypeOK, Lists, Pointers, Never,
           PollTypeOK, timerVars, coroVars
  <2>4. TimerTypeOK' /\ CoroTypeOK' /\ (ready \in SUBSET Fds
            /\ now \in 0 .. MaxTime)'
    BY <1>12 DEF LoopTop, timerVars, coroVars, envVars, TimerTypeOK, CoroTypeOK
  <2> QED
    BY <2>1, <2>2, <2>3, <2>4
<1>13. ASSUME NEW l \in Loops, EpollWait(l)
      PROVE TypeOK'
  <2>p. Polled(l) \subseteq Coros \cup {None}
    BY DEF Polled, LoopTypeOK
  <2>1. ThreadTypeOK'
    BY <1>13, <1>t
       DEF EpollWait, EpollReturns, Goto, ThreadTypeOK, CallPCs, LoopPCs,
           MainPCs
  <2>2. PollTypeOK'
    BY <1>13, <2>p
       DEF EpollWait, EpollReturns, Never, PollTypeOK, timerVars, coroVars
  <2>3. LoopTypeOK' /\ TimerTypeOK' /\ CoroTypeOK' /\ (ready \in SUBSET Fds
            /\ now \in 0 .. MaxTime)'
    BY <1>13
       DEF EpollWait, timerVars, coroVars, envVars, LoopTypeOK, TimerTypeOK,
           CoroTypeOK, EpollReturns
  <2> QED
    BY <2>1, <2>2, <2>3
<1>14. ASSUME NEW l \in Loops, Interrupted(l)
      PROVE TypeOK'
  <2>1. ThreadTypeOK'
    BY <1>14, <1>t
       DEF Interrupted, EpollReturns, Goto, ThreadTypeOK, CallPCs, LoopPCs,
           MainPCs
  <2>2. PollTypeOK'
    BY <1>14
       DEF Interrupted, EpollReturns, Never, PollTypeOK, timerVars, coroVars
  <2>3. LoopTypeOK' /\ TimerTypeOK' /\ CoroTypeOK' /\ (ready \in SUBSET Fds
            /\ now \in 0 .. MaxTime)'
    BY <1>14
       DEF Interrupted, timerVars, coroVars, envVars, LoopTypeOK, TimerTypeOK,
           CoroTypeOK, EpollReturns
  <2> QED
    BY <2>1, <2>2, <2>3
<1>15. ASSUME NEW l \in Loops, NEW c \in Coros, ResumeScheduled(l, c)
      PROVE TypeOK'
  <2>1. ThreadTypeOK'
    BY <1>15, <1>t
       DEF ResumeScheduled, Resume, Goto, ThreadTypeOK, CallPCs, LoopPCs,
           MainPCs
  <2>2. LoopTypeOK'
    BY <1>15, CounterType
       DEF ResumeScheduled, Resume, LoopTypeOK, pollVars, timerVars
  <2>3. CoroTypeOK'
    BY <1>15
       DEF ResumeScheduled, Resume, Never, CoroTypeOK, pollVars, timerVars
  <2>4. PollTypeOK' /\ TimerTypeOK' /\ (ready \in SUBSET Fds
            /\ now \in 0 .. MaxTime)'
    BY <1>15
       DEF ResumeScheduled, pollVars, timerVars, envVars, PollTypeOK,
           TimerTypeOK, Resume
  <2> QED
    BY <2>1, <2>2, <2>3, <2>4
<1>16. ASSUME NEW l \in Loops, DrainEnd(l)
      PROVE TypeOK'
  <2>1. ThreadTypeOK'
    BY <1>16, <1>t DEF DrainEnd, Goto, ThreadTypeOK, CallPCs, LoopPCs, MainPCs
  <2>2. LoopTypeOK' /\ PollTypeOK' /\ TimerTypeOK' /\ CoroTypeOK'
            /\ (ready \in SUBSET Fds /\ now \in 0 .. MaxTime)'
    BY <1>16
       DEF DrainEnd, loopVars, pollVars, timerVars, coroVars, envVars,
           LoopTypeOK, PollTypeOK, TimerTypeOK, CoroTypeOK
  <2> QED
    BY <2>1, <2>2
<1>17. ASSUME NEW l \in Loops, HandleThreadEvent(l)
      PROVE TypeOK'
  <2>1. LoopTypeOK'
    BY <1>17 DEF HandleThreadEvent, LoopTypeOK, timerVars, coroVars
  <2>2. PollTypeOK'
    BY <1>17 DEF HandleThreadEvent, NextEvent, PollTypeOK, timerVars, coroVars
  <2>3. ThreadTypeOK' /\ TimerTypeOK' /\ CoroTypeOK'
            /\ (ready \in SUBSET Fds /\ now \in 0 .. MaxTime)'
    BY <1>17
       DEF HandleThreadEvent, threadVars, timerVars, coroVars, envVars,
           ThreadTypeOK, TimerTypeOK, CoroTypeOK
  <2> QED
    BY <2>1, <2>2, <2>3
<1>18. ASSUME NEW l \in Loops, NEW c \in Coros, HandleEvent(l, c)
      PROVE TypeOK'
  <2>r. reg' \in [Loops -> [Fds -> Coros \cup {None}]]
    BY <1>18, RegisterType DEF HandleEvent, Unregister, LoopTypeOK
  <2>1. ThreadTypeOK'
    BY <1>18, <1>t
       DEF HandleEvent, Resume, Goto, ThreadTypeOK, CallPCs, LoopPCs, MainPCs
  <2>2. LoopTypeOK'
    BY <1>18, <2>r, CounterType DEF HandleEvent, Resume, LoopTypeOK
  <2>3. PollTypeOK'
    BY <1>18 DEF HandleEvent, NextEvent, PollTypeOK
  <2>4. TimerTypeOK'
    BY <1>18, EraseTimerType DEF HandleEvent, TimerTypeOK
  <2>5. CoroTypeOK'
    BY <1>18 DEF HandleEvent, Resume, Never, CoroTypeOK
  <2>6. (ready \in SUBSET Fds /\ now \in 0 .. MaxTime)'
    BY <1>18 DEF HandleEvent, envVars, Resume
  <2> QED
    BY <2>1, <2>2, <2>3, <2>4, <2>5, <2>6
<1>19. ASSUME NEW l \in Loops, NEW c \in Coros, SkipEvent(l, c)
      PROVE TypeOK'
  <2>1. PollTypeOK'
    BY <1>19 DEF SkipEvent, NextEvent, PollTypeOK, timerVars, coroVars
  <2>2. ThreadTypeOK' /\ LoopTypeOK' /\ TimerTypeOK' /\ CoroTypeOK'
            /\ (ready \in SUBSET Fds /\ now \in 0 .. MaxTime)'
    BY <1>19
       DEF SkipEvent, threadVars, timerVars, coroVars, envVars, ThreadTypeOK,
           LoopTypeOK, TimerTypeOK, CoroTypeOK
  <2> QED
    BY <2>1, <2>2
<1>20. ASSUME NEW l \in Loops, EventsEnd(l)
      PROVE TypeOK'
  <2>1. ThreadTypeOK'
    BY <1>20, <1>t DEF EventsEnd, Goto, ThreadTypeOK, CallPCs, LoopPCs, MainPCs
  <2>2. PollTypeOK'
    BY <1>20 DEF EventsEnd, PollTypeOK, timerVars, coroVars
  <2>3. LoopTypeOK' /\ TimerTypeOK' /\ CoroTypeOK' /\ (ready \in SUBSET Fds
            /\ now \in 0 .. MaxTime)'
    BY <1>20
       DEF EventsEnd, timerVars, coroVars, envVars, LoopTypeOK, TimerTypeOK,
           CoroTypeOK
  <2> QED
    BY <2>1, <2>2, <2>3
<1>21. ASSUME NEW l \in Loops, TakeExpiredTimer(l)
      PROVE TypeOK'
  <2>f. timers[l].first \in Coros
    BY <1>21 DEF TakeExpiredTimer, Expired, TimerTypeOK, Lists, Pointers
  <2>1. ThreadTypeOK'
    BY <1>21, <1>t
       DEF TakeExpiredTimer, Goto, ThreadTypeOK, CallPCs, LoopPCs, MainPCs
  <2>2. PollTypeOK'
    BY <1>21, <2>f DEF TakeExpiredTimer, PollTypeOK, coroVars
  <2>3. TimerTypeOK'
    BY <1>21, <2>f, EraseTimerType DEF TakeExpiredTimer, TimerTypeOK, coroVars
  <2>4. LoopTypeOK' /\ CoroTypeOK' /\ (ready \in SUBSET Fds
            /\ now \in 0 .. MaxTime)'
    BY <1>21 DEF TakeExpiredTimer, coroVars, envVars, LoopTypeOK, CoroTypeOK
  <2> QED
    BY <2>1, <2>2, <2>3, <2>4
<1>22. ASSUME NEW l \in Loops, NEW c \in Coros, FireTimer(l, c)
      PROVE TypeOK'
  <2>r. reg' \in [Loops -> [Fds -> Coros \cup {None}]]
    <3>1. CASE reg' = reg
      BY <3>1 DEF LoopTypeOK
    <3>2. CASE reg' = [reg EXCEPT ![l][fd[c]] = None]
      BY <3>2, RegisterType
    <3> QED
      BY <1>22, <3>1, <3>2 DEF FireTimer, Unregister
  <2>1. ThreadTypeOK'
    BY <1>22, <1>t
       DEF FireTimer, Resume, Goto, ThreadTypeOK, CallPCs, LoopPCs, MainPCs
  <2>2. LoopTypeOK'
    BY <1>22, <2>r, CounterType DEF FireTimer, Resume, LoopTypeOK
  <2>3. PollTypeOK'
    BY <1>22 DEF FireTimer, PollTypeOK
  <2>4. TimerTypeOK'
    BY <1>22 DEF FireTimer, TimerTypeOK
  <2>5. CoroTypeOK'
    BY <1>22 DEF FireTimer, Resume, Never, CoroTypeOK
  <2>6. (ready \in SUBSET Fds /\ now \in 0 .. MaxTime)'
    BY <1>22 DEF FireTimer, envVars, Resume
  <2> QED
    BY <2>1, <2>2, <2>3, <2>4, <2>5, <2>6
<1>23. ASSUME NEW l \in Loops, DropTimer(l)
      PROVE TypeOK'
  <2>1. ThreadTypeOK'
    BY <1>23, <1>t DEF DropTimer, Goto, ThreadTypeOK, CallPCs, LoopPCs, MainPCs
  <2>2. PollTypeOK'
    BY <1>23 DEF DropTimer, PollTypeOK, timerVars, coroVars
  <2>3. LoopTypeOK' /\ TimerTypeOK' /\ CoroTypeOK' /\ (ready \in SUBSET Fds
            /\ now \in 0 .. MaxTime)'
    BY <1>23
       DEF DropTimer, timerVars, coroVars, envVars, LoopTypeOK, TimerTypeOK,
           CoroTypeOK
  <2> QED
    BY <2>1, <2>2, <2>3
<1>24. ASSUME NEW l \in Loops, TimersEnd(l)
      PROVE TypeOK'
  <2>1. ThreadTypeOK'
    BY <1>24, <1>t DEF TimersEnd, Goto, ThreadTypeOK, CallPCs, LoopPCs, MainPCs
  <2>2. PollTypeOK'
    BY <1>24 DEF TimersEnd, PollTypeOK, timerVars, coroVars
  <2>3. LoopTypeOK' /\ TimerTypeOK' /\ CoroTypeOK' /\ (ready \in SUBSET Fds
            /\ now \in 0 .. MaxTime)'
    BY <1>24
       DEF TimersEnd, timerVars, coroVars, envVars, LoopTypeOK, TimerTypeOK,
           CoroTypeOK
  <2> QED
    BY <2>1, <2>2, <2>3
<1>25. ASSUME NEW c \in Coros, Start(c)
      PROVE TypeOK'
  <2>1. ThreadTypeOK'
    BY <1>25, <1>t DEF Start, Goto, ThreadTypeOK, CallPCs, LoopPCs, MainPCs
  <2>2. CoroTypeOK'
    BY <1>25 DEF Start, CoroTypeOK, loopVars, pollVars, timerVars
  <2>3. LoopTypeOK' /\ PollTypeOK' /\ TimerTypeOK' /\ (ready \in SUBSET Fds
            /\ now \in 0 .. MaxTime)'
    BY <1>25
       DEF Start, loopVars, pollVars, timerVars, envVars, LoopTypeOK,
           PollTypeOK, TimerTypeOK
  <2> QED
    BY <2>1, <2>2, <2>3
<1>26. ASSUME NEW l \in Loops, Abort(l)
      PROVE TypeOK'
  <2>1. ThreadTypeOK'
    BY <1>26, <1>t
       DEF Abort, Call, Goto, ThreadTypeOK, CallPCs, LoopPCs, MainPCs
  <2>2. LoopTypeOK'
    BY <1>26 DEF Abort, LoopTypeOK, pollVars, timerVars, coroVars
  <2>3. PollTypeOK' /\ TimerTypeOK' /\ CoroTypeOK' /\ (ready \in SUBSET Fds
            /\ now \in 0 .. MaxTime)'
    BY <1>26
       DEF Abort, pollVars, timerVars, coroVars, envVars, PollTypeOK,
           TimerTypeOK, CoroTypeOK
  <2> QED
    BY <2>1, <2>2, <2>3
<1>27. ASSUME Join
      PROVE TypeOK'
  <2>1. ThreadTypeOK'
    BY <1>27, <1>t
       DEF Join, Return, Call, Goto, ThreadTypeOK, CallPCs, LoopPCs, MainPCs
  <2>2. LoopTypeOK' /\ PollTypeOK' /\ TimerTypeOK' /\ CoroTypeOK'
            /\ (ready \in SUBSET Fds /\ now \in 0 .. MaxTime)'
    BY <1>27
       DEF Join, loopVars, pollVars, timerVars, coroVars, envVars, LoopTypeOK,
           PollTypeOK, TimerTypeOK, CoroTypeOK
  <2> QED
    BY <2>1, <2>2
<1>28. ASSUME Tick
      PROVE TypeOK'
  <2>1. (ready \in SUBSET Fds /\ now \in 0 .. MaxTime)'
    BY <1>28, LoopAssumption DEF Tick
  <2>2. ThreadTypeOK' /\ LoopTypeOK' /\ PollTypeOK' /\ TimerTypeOK'
            /\ CoroTypeOK'
    BY <1>28
       DEF Tick, threadVars, loopVars, pollVars, timerVars, coroVars,
           ThreadTypeOK, LoopTypeOK, PollTypeOK, TimerTypeOK, CoroTypeOK
  <2> QED
    BY <2>1, <2>2
<1>29. ASSUME NEW f \in Fds, FdReady(f)
      PROVE TypeOK'
  <2>1. (ready \in SUBSET Fds /\ now \in 0 .. MaxTime)'
    BY <1>29 DEF FdReady
  <2>2. ThreadTypeOK' /\ LoopTypeOK' /\ PollTypeOK' /\ TimerTypeOK'
            /\ CoroTypeOK'
    BY <1>29
       DEF FdReady, threadVars, loopVars, pollVars, timerVars, coroVars,
           ThreadTypeOK, LoopTypeOK, PollTypeOK, TimerTypeOK, CoroTypeOK
  <2> QED
    BY <2>1, <2>2
<1>s. CASE UNCHANGED vars
  BY <1>s
     DEF vars, threadVars, loopVars, pollVars, timerVars, coroVars, envVars,
         ThreadTypeOK, LoopTypeOK, PollTypeOK, TimerTypeOK, CoroTypeOK
<1> QED
  BY <1>1, <1>2, <1>3, <1>4, <1>5, <1>6, <1>7, <1>8, <1>9, <1>10, <1>11, <1>12,
     <1>13, <1>14, <1>15, <1>16, <1>17, <1>18, <1>19, <1>20, <1>21, <1>22,
     <1>23, <1>24, <1>25, <1>26, <1>27, <1>28, <1>29, <1>s
     DEF Next, CallStep, LoopStep

\* Every step keeps what a thread inside a call of a loop knows.
LEMMA CallInvStep == TypeInv /\ [Next]_vars => CallInv'
<1> SUFFICES ASSUME TypeInv, [Next]_vars PROVE CallInv'
  OBVIOUS
<1>t. Loops \subseteq Threads /\ Main \in Threads /\ Main \notin Loops
  BY LoopAssumption DEF Threads
<1>u. /\ ThreadTypeOK
      /\ None \notin Coros /\ None \notin Loops
      /\ expired \in [Loops -> Coros \cup {None}]
      /\ \A t \in Threads : ret[t] \in {"drain", "events", "timers", "main"}
  BY LoopAssumption DEF TypeInv, TypeOK, ThreadTypeOK, PollTypeOK
<1>i. CallInv
  BY DEF TypeInv
<1>1. ASSUME NEW t \in Threads, NEW c \in Coros, NEW l \in Loops,
             AwaitHop(t, c, l)
      PROVE CallInv'
  BY <1>1, <1>t, <1>u, <1>i
     DEF AwaitHop, Suspends, Call, Goto, ThreadTypeOK, CallInv, Holds, CallPCs,
         SigPCs, AddPCs, pollVars, timerVars
<1>2. ASSUME NEW t \in Threads, NEW c \in Coros, NEW l \in Loops,
             NEW d \in DelayTimeouts, AwaitDelay(t, c, l, d)
      PROVE CallInv'
  BY <1>2, <1>t, <1>u, <1>i
     DEF AwaitDelay, Suspends, Call, Goto, ThreadTypeOK, CallInv, Holds,
         CallPCs, SigPCs, AddPCs, loopVars, pollVars
<1>3. ASSUME NEW t \in Threads, NEW c \in Coros, NEW l \in Loops,
             NEW f \in Fds, NEW d \in FdTimeouts, AwaitFd(t, c, l, f, d)
      PROVE CallInv'
  BY <1>3, <1>t, <1>u, <1>i
     DEF AwaitFd, Suspends, Call, Goto, Registered, ThreadTypeOK, CallInv,
         Holds, CallPCs, SigPCs, AddPCs, pollVars
<1>4. ASSUME NEW t \in Threads, EpollMod(t)
      PROVE CallInv'
  <2>1. CASE reg[tgt[t]][fd[run[t]]] # None
    BY <1>4, <2>1, <1>t, <1>u, <1>i
       DEF EpollMod, Return, Call, Goto, Registered, ThreadTypeOK, CallInv,
           Holds, CallPCs, SigPCs, AddPCs, pollVars, timerVars, coroVars
  <2>2. CASE reg[tgt[t]][fd[run[t]]] = None
    BY <1>4, <2>2, <1>t, <1>u, <1>i
       DEF EpollMod, Return, Call, Goto, Registered, ThreadTypeOK, CallInv,
           Holds, CallPCs, SigPCs, AddPCs, pollVars, timerVars, coroVars
  <2> QED
    BY <1>4, <2>1, <2>2 DEF EpollMod
<1>5. ASSUME NEW t \in Threads, AddEventTimer(t)
      PROVE CallInv'
  BY <1>5, <1>t, <1>u, <1>i
     DEF AddEventTimer, Goto, ThreadTypeOK, CallInv, Holds, CallPCs, SigPCs,
         AddPCs, loopVars, pollVars, coroVars
<1>6. ASSUME NEW t \in Threads, SetScheduled(t)
      PROVE CallInv'
  BY <1>6, <1>t, <1>u, <1>i
     DEF SetScheduled, Goto, ThreadTypeOK, CallInv, Holds, CallPCs, SigPCs,
         AddPCs, loopVars, pollVars, timerVars
<1>7. ASSUME NEW t \in Threads, Record(t)
      PROVE CallInv'
  <2>1. CASE op[t] = "hop"
    BY <1>7, <2>1, <1>t, <1>u, <1>i
       DEF Record, Return, Call, Goto, ThreadTypeOK, CallInv, Holds, CallPCs,
           SigPCs, AddPCs, loopVars, pollVars, timerVars, coroVars
  <2>2. CASE op[t] # "hop"
    BY <1>7, <2>2, <1>t, <1>u, <1>i
       DEF Record, Return, Call, Goto, ThreadTypeOK, CallInv, Holds, CallPCs,
           SigPCs, AddPCs, loopVars, pollVars, timerVars, coroVars
  <2> QED
    BY <1>7, <2>1, <2>2 DEF Record
<1>8. ASSUME NEW t \in Threads, SignalCas(t)
      PROVE CallInv'
  <2>1. CASE ~signaling[tgt[t]]
    BY <1>8, <2>1, <1>t, <1>u, <1>i
       DEF SignalCas, AfterSignal, Return, Call, Goto, ThreadTypeOK, CallInv,
           Holds, CallPCs, SigPCs, AddPCs, pollVars, timerVars, coroVars
  <2>2. CASE signaling[tgt[t]] /\ op[t] = "hop"
    BY <1>8, <2>2, <1>t, <1>u, <1>i
       DEF SignalCas, AfterSignal, Return, Call, Goto, ThreadTypeOK, CallInv,
           Holds, CallPCs, SigPCs, AddPCs, pollVars, timerVars, coroVars
  <2>3. CASE signaling[tgt[t]] /\ op[t] = "delay"
    BY <1>8, <2>3, <1>t, <1>u, <1>i
       DEF SignalCas, AfterSignal, Return, Call, Goto, ThreadTypeOK, CallInv,
           Holds, CallPCs, SigPCs, AddPCs, pollVars, timerVars, coroVars
  <2>4. CASE signaling[tgt[t]] /\ op[t] = "fd"
    BY <1>8, <2>4, <1>t, <1>u, <1>i
       DEF SignalCas, AfterSignal, Return, Call, Goto, ThreadTypeOK, CallInv,
           Holds, CallPCs, SigPCs, AddPCs, pollVars, timerVars, coroVars
  <2>5. CASE signaling[tgt[t]] /\ op[t] = "abort"
    BY <1>8, <2>5, <1>t, <1>u, <1>i
       DEF SignalCas, AfterSignal, Return, Call, Goto, ThreadTypeOK, CallInv,
           Holds, CallPCs, SigPCs, AddPCs, pollVars, timerVars, coroVars
  <2> QED
    BY <1>8, <2>1, <2>2, <2>3, <2>4, <2>5 DEF SignalCas, AfterSignal
<1>9. ASSUME NEW t \in Threads, SignalWrite(t)
      PROVE CallInv'
  BY <1>9, <1>t, <1>u, <1>i
     DEF SignalWrite, Goto, ThreadTypeOK, CallInv, Holds, CallPCs, SigPCs,
         AddPCs, pollVars, timerVars, coroVars
<1>10. ASSUME NEW t \in Threads, SignalReset(t)
      PROVE CallInv'
  <2>1. CASE op[t] = "hop"
    BY <1>10, <2>1, <1>t, <1>u, <1>i
       DEF SignalReset, AfterSignal, Return, Call, Goto, ThreadTypeOK, CallInv,
           Holds, CallPCs, SigPCs, AddPCs, pollVars, timerVars, coroVars
  <2>2. CASE op[t] = "delay"
    BY <1>10, <2>2, <1>t, <1>u, <1>i
       DEF SignalReset, AfterSignal, Return, Call, Goto, ThreadTypeOK, CallInv,
           Holds, CallPCs, SigPCs, AddPCs, pollVars, timerVars, coroVars
  <2>3. CASE op[t] = "fd"
    BY <1>10, <2>3, <1>t, <1>u, <1>i
       DEF SignalReset, AfterSignal, Return, Call, Goto, ThreadTypeOK, CallInv,
           Holds, CallPCs, SigPCs, AddPCs, pollVars, timerVars, coroVars
  <2>4. CASE op[t] = "abort"
    BY <1>10, <2>4, <1>t, <1>u, <1>i
       DEF SignalReset, AfterSignal, Return, Call, Goto, ThreadTypeOK, CallInv,
           Holds, CallPCs, SigPCs, AddPCs, pollVars, timerVars, coroVars
  <2> QED
    BY <1>10, <2>1, <2>2, <2>3, <2>4 DEF SignalReset, AfterSignal
<1>11. ASSUME NEW t \in Threads, Finish(t)
      PROVE CallInv'
  BY <1>11, <1>t, <1>u, <1>i
     DEF Finish, Goto, ThreadTypeOK, CallInv, Holds, CallPCs, SigPCs, AddPCs,
         loopVars, pollVars, timerVars
<1>12. ASSUME NEW l \in Loops, LoopTop(l)
      PROVE CallInv'
  BY <1>12, <1>t, <1>u, <1>i
     DEF LoopTop, Goto, ThreadTypeOK, CallInv, Holds, CallPCs, SigPCs, AddPCs,
         timerVars, coroVars
<1>13. ASSUME NEW l \in Loops, EpollWait(l)
      PROVE CallInv'
  BY <1>13, <1>t, <1>u, <1>i
     DEF EpollWait, EpollReturns, Polled, Goto, ThreadTypeOK, CallInv, Holds,
         CallPCs, SigPCs, AddPCs, timerVars, coroVars
<1>14. ASSUME NEW l \in Loops, Interrupted(l)
      PROVE CallInv'
  BY <1>14, <1>t, <1>u, <1>i
     DEF Interrupted, EpollReturns, Goto, ThreadTypeOK, CallInv, Holds,
         CallPCs, SigPCs, AddPCs, timerVars, coroVars
<1>15. ASSUME NEW l \in Loops, NEW c \in Coros, ResumeScheduled(l, c)
      PROVE CallInv'
  BY <1>15, <1>t, <1>u, <1>i
     DEF ResumeScheduled, Resume, Goto, ThreadTypeOK, CallInv, Holds, CallPCs,
         SigPCs, AddPCs, pollVars, timerVars
<1>16. ASSUME NEW l \in Loops, DrainEnd(l)
      PROVE CallInv'
  BY <1>16, <1>t, <1>u, <1>i
     DEF DrainEnd, Goto, ThreadTypeOK, CallInv, Holds, CallPCs, SigPCs, AddPCs,
         loopVars, pollVars, timerVars, coroVars
<1>17. ASSUME NEW l \in Loops, HandleThreadEvent(l)
      PROVE CallInv'
  BY <1>17, <1>t, <1>u, <1>i
     DEF HandleThreadEvent, NextEvent, ThreadTypeOK, CallInv, Holds, CallPCs,
         SigPCs, AddPCs, timerVars, coroVars, threadVars
<1>18. ASSUME NEW l \in Loops, NEW c \in Coros, HandleEvent(l, c)
      PROVE CallInv'
  BY <1>18, <1>t, <1>u, <1>i
     DEF HandleEvent, NextEvent, Claims, Unregister, Resume, Goto,
         ThreadTypeOK, CallInv, Holds, CallPCs, SigPCs, AddPCs
<1>19. ASSUME NEW l \in Loops, NEW c \in Coros, SkipEvent(l, c)
      PROVE CallInv'
  BY <1>19, <1>t, <1>u, <1>i
     DEF SkipEvent, NextEvent, Claims, ThreadTypeOK, CallInv, Holds, CallPCs,
         SigPCs, AddPCs, timerVars, coroVars, threadVars
<1>20. ASSUME NEW l \in Loops, EventsEnd(l)
      PROVE CallInv'
  BY <1>20, <1>t, <1>u, <1>i
     DEF EventsEnd, Goto, ThreadTypeOK, CallInv, Holds, CallPCs, SigPCs,
         AddPCs, timerVars, coroVars
<1>21. ASSUME NEW l \in Loops, TakeExpiredTimer(l)
      PROVE CallInv'
  BY <1>21, <1>t, <1>u, <1>i
     DEF TakeExpiredTimer, Expired, Goto, ThreadTypeOK, CallInv, Holds,
         CallPCs, SigPCs, AddPCs, coroVars
<1>22. ASSUME NEW l \in Loops, NEW c \in Coros, FireTimer(l, c)
      PROVE CallInv'
  BY <1>22, <1>t, <1>u, <1>i
     DEF FireTimer, Claims, Unregister, Resume, Goto, ThreadTypeOK, CallInv,
         Holds, CallPCs, SigPCs, AddPCs
<1>23. ASSUME NEW l \in Loops, DropTimer(l)
      PROVE CallInv'
  BY <1>23, <1>t, <1>u, <1>i
     DEF DropTimer, Claims, Goto, ThreadTypeOK, CallInv, Holds, CallPCs,
         SigPCs, AddPCs, timerVars, coroVars
<1>24. ASSUME NEW l \in Loops, TimersEnd(l)
      PROVE CallInv'
  BY <1>24, <1>t, <1>u, <1>i
     DEF TimersEnd, Goto, ThreadTypeOK, CallInv, Holds, CallPCs, SigPCs,
         AddPCs, timerVars, coroVars
<1>25. ASSUME NEW c \in Coros, Start(c)
      PROVE CallInv'
  BY <1>25, <1>t, <1>u, <1>i
     DEF Start, Goto, ThreadTypeOK, CallInv, Holds, CallPCs, SigPCs, AddPCs,
         loopVars, pollVars, timerVars
<1>26. ASSUME NEW l \in Loops, Abort(l)
      PROVE CallInv'
  BY <1>26, <1>t, <1>u, <1>i
     DEF Abort, Call, Goto, ThreadTypeOK, CallInv, Holds, CallPCs, SigPCs,
         AddPCs, pollVars, timerVars, coroVars
<1>27. ASSUME Join
      PROVE CallInv'
  BY <1>27, <1>t, <1>u, <1>i
     DEF Join, Return, Call, Goto, ThreadTypeOK, CallInv, Holds, CallPCs,
         SigPCs, AddPCs, loopVars, pollVars, timerVars, coroVars
<1>28. ASSUME Tick
      PROVE CallInv'
  BY <1>28, <1>t, <1>u, <1>i
     DEF Tick, ThreadTypeOK, CallInv, Holds, CallPCs, SigPCs, AddPCs, loopVars,
         pollVars, timerVars, coroVars, threadVars
<1>29. ASSUME NEW f \in Fds, FdReady(f)
      PROVE CallInv'
  BY <1>29, <1>t, <1>u, <1>i
     DEF FdReady, ThreadTypeOK, CallInv, Holds, CallPCs, SigPCs, AddPCs,
         loopVars, pollVars, timerVars, coroVars, threadVars
<1>s. CASE UNCHANGED vars
  BY <1>s, <1>t, <1>u, <1>i
     DEF vars, ThreadTypeOK, CallInv, Holds, CallPCs, SigPCs, AddPCs, loopVars,
         pollVars, timerVars, coroVars, threadVars
<1> QED
  BY <1>1, <1>2, <1>3, <1>4, <1>5, <1>6, <1>7, <1>8, <1>9, <1>10, <1>11, <1>12,
     <1>13, <1>14, <1>15, <1>16, <1>17, <1>18, <1>19, <1>20, <1>21, <1>22,
     <1>23, <1>24, <1>25, <1>26, <1>27, <1>28, <1>29, <1>s
     DEF Next, CallStep, LoopStep

\* Every step keeps the ownership of coroutines: a thread, a queue or a wait
\* has each of them, and one only.
LEMMA OwnerStep == TypeInv /\ OwnerInv /\ [Next]_vars => OwnerInv'
<1> SUFFICES ASSUME TypeInv, OwnerInv, [Next]_vars PROVE OwnerInv'
  OBVIOUS
<1>t. Loops \subseteq Threads /\ Main \in Threads /\ Main \notin Loops
  BY LoopAssumption DEF Threads
<1>u. /\ ThreadTypeOK
      /\ None \notin Coros /\ None \notin Loops /\ None \notin Fds
      /\ queue \in [Loops -> SUBSET Coros]
      /\ armed \in [Coros -> BOOLEAN]
      /\ CoroTypeOK
      /\ \A t \in Threads : ret[t] \in {"drain", "events", "timers", "main"}
  BY LoopAssumption DEF TypeInv, TypeOK, ThreadTypeOK, LoopTypeOK, TimerTypeOK
<1>i. CallInv /\ OwnerInv
  BY DEF TypeInv
<1>1. ASSUME NEW t \in Threads, NEW c \in Coros, NEW l \in Loops,
             AwaitHop(t, c, l)
      PROVE OwnerInv'
  BY <1>1, <1>t, <1>u, <1>i
     DEF AwaitHop, Suspends, Call, Goto, ThreadTypeOK, CoroTypeOK, CallInv,
         OwnerInv, ExclusiveResume, Holds, CallPCs, SigPCs, AddPCs, pollVars,
         timerVars
<1>2. ASSUME NEW t \in Threads, NEW c \in Coros, NEW l \in Loops,
             NEW d \in DelayTimeouts, AwaitDelay(t, c, l, d)
      PROVE OwnerInv'
  <2>1. armed' = [armed EXCEPT ![c] = TRUE]
    BY <1>2 DEF AwaitDelay, AddTimer
  <2> QED
    BY <1>2, <2>1, <1>t, <1>u, <1>i
       DEF AwaitDelay, Suspends, Call, Goto, ThreadTypeOK, CoroTypeOK, CallInv,
           OwnerInv, ExclusiveResume, Holds, CallPCs, SigPCs, AddPCs, loopVars,
           pollVars
<1>3. ASSUME NEW t \in Threads, NEW c \in Coros, NEW l \in Loops,
             NEW f \in Fds, NEW d \in FdTimeouts, AwaitFd(t, c, l, f, d)
      PROVE OwnerInv'
  BY <1>3, <1>t, <1>u, <1>i
     DEF AwaitFd, Suspends, Call, Goto, Registered, ThreadTypeOK, CoroTypeOK,
         CallInv, OwnerInv, ExclusiveResume, Holds, CallPCs, SigPCs, AddPCs,
         pollVars
<1>4. ASSUME NEW t \in Threads, EpollMod(t)
      PROVE OwnerInv'
  <2>1. CASE reg[tgt[t]][fd[run[t]]] # None
    BY <1>4, <2>1, <1>t, <1>u, <1>i
       DEF EpollMod, Return, Call, Goto, Registered, ThreadTypeOK, CoroTypeOK,
           CallInv, OwnerInv, ExclusiveResume, Holds, CallPCs, SigPCs, AddPCs,
           pollVars, timerVars, coroVars
  <2>2. CASE reg[tgt[t]][fd[run[t]]] = None
    <3>1. /\ run'[t] = None /\ pc'[t] = ret[t] /\ op'[t] = "none"
          /\ \A u \in Threads : u # t => /\ run'[u] = run[u] /\ pc'[u] = pc[u]
                                        /\ op'[u] = op[u] /\ tgt'[u] = tgt[u]
          /\ UNCHANGED <<queue, armed, fd, st, at>>
      BY <1>4, <2>2, <1>u
         DEF EpollMod, Return, Call, Goto, ThreadTypeOK, timerVars, coroVars
    <3>2. ~Holds(t)' /\ \A u \in Threads : u # t => Holds(u)' = Holds(u)
      BY <3>1, <1>u DEF Holds, AddPCs, SigPCs
    <3>3. ExclusiveResume'
      BY <3>1, <1>u, <1>i DEF OwnerInv, ExclusiveResume, ThreadTypeOK
    <3> QED
      BY <3>1, <3>2, <3>3, <1>u, <1>i DEF OwnerInv, Holds
  <2> QED
    BY <1>4, <2>1, <2>2 DEF EpollMod
<1>5. ASSUME NEW t \in Threads, AddEventTimer(t)
      PROVE OwnerInv'
  <2>1. armed' = [armed EXCEPT ![run[t]] = TRUE]
    BY <1>5 DEF AddEventTimer, AddTimer
  <2> QED
    BY <1>5, <2>1, <1>t, <1>u, <1>i
       DEF AddEventTimer, Goto, ThreadTypeOK, CoroTypeOK, CallInv, OwnerInv,
           ExclusiveResume, Holds, CallPCs, SigPCs, AddPCs, loopVars, pollVars,
           coroVars
<1>6. ASSUME NEW t \in Threads, SetScheduled(t)
      PROVE OwnerInv'
  BY <1>6, <1>t, <1>u, <1>i
     DEF SetScheduled, Goto, ThreadTypeOK, CoroTypeOK, CallInv, OwnerInv,
         ExclusiveResume, Holds, CallPCs, SigPCs, AddPCs, loopVars, pollVars,
         timerVars
<1>7. ASSUME NEW t \in Threads, Record(t)
      PROVE OwnerInv'
  <2>1. CASE op[t] = "hop"
    BY <1>7, <2>1, <1>t, <1>u, <1>i
       DEF Record, Return, Call, Goto, ThreadTypeOK, CoroTypeOK, CallInv,
           OwnerInv, ExclusiveResume, Holds, CallPCs, SigPCs, AddPCs, loopVars,
           pollVars, timerVars, coroVars
  <2>2. CASE op[t] # "hop"
    BY <1>7, <2>2, <1>t, <1>u, <1>i
       DEF Record, Return, Call, Goto, ThreadTypeOK, CoroTypeOK, CallInv,
           OwnerInv, ExclusiveResume, Holds, CallPCs, SigPCs, AddPCs, loopVars,
           pollVars, timerVars, coroVars
  <2> QED
    BY <1>7, <2>1, <2>2 DEF Record
<1>8. ASSUME NEW t \in Threads, SignalCas(t)
      PROVE OwnerInv'
  <2>1. CASE ~signaling[tgt[t]]
    BY <1>8, <2>1, <1>t, <1>u, <1>i
       DEF SignalCas, AfterSignal, Return, Call, Goto, ThreadTypeOK,
           CoroTypeOK, CallInv, OwnerInv, ExclusiveResume, Holds, CallPCs,
           SigPCs, AddPCs, pollVars, timerVars, coroVars
  <2>2. CASE signaling[tgt[t]] /\ op[t] = "hop"
    BY <1>8, <2>2, <1>t, <1>u, <1>i
       DEF SignalCas, AfterSignal, Return, Call, Goto, ThreadTypeOK,
           CoroTypeOK, CallInv, OwnerInv, ExclusiveResume, Holds, CallPCs,
           SigPCs, AddPCs, pollVars, timerVars, coroVars
  <2>3. CASE signaling[tgt[t]] /\ op[t] = "delay"
    BY <1>8, <2>3, <1>t, <1>u, <1>i
       DEF SignalCas, AfterSignal, Return, Call, Goto, ThreadTypeOK,
           CoroTypeOK, CallInv, OwnerInv, ExclusiveResume, Holds, CallPCs,
           SigPCs, AddPCs, pollVars, timerVars, coroVars
  <2>4. CASE signaling[tgt[t]] /\ op[t] = "fd"
    BY <1>8, <2>4, <1>t, <1>u, <1>i
       DEF SignalCas, AfterSignal, Return, Call, Goto, ThreadTypeOK,
           CoroTypeOK, CallInv, OwnerInv, ExclusiveResume, Holds, CallPCs,
           SigPCs, AddPCs, pollVars, timerVars, coroVars
  <2>5. CASE signaling[tgt[t]] /\ op[t] = "abort"
    BY <1>8, <2>5, <1>t, <1>u, <1>i
       DEF SignalCas, AfterSignal, Return, Call, Goto, ThreadTypeOK,
           CoroTypeOK, CallInv, OwnerInv, ExclusiveResume, Holds, CallPCs,
           SigPCs, AddPCs, pollVars, timerVars, coroVars
  <2> QED
    BY <1>8, <2>1, <2>2, <2>3, <2>4, <2>5 DEF SignalCas, AfterSignal
<1>9. ASSUME NEW t \in Threads, SignalWrite(t)
      PROVE OwnerInv'
  BY <1>9, <1>t, <1>u, <1>i
     DEF SignalWrite, Goto, ThreadTypeOK, CoroTypeOK, CallInv, OwnerInv,
         ExclusiveResume, Holds, CallPCs, SigPCs, AddPCs, pollVars, timerVars,
         coroVars
<1>10. ASSUME NEW t \in Threads, SignalReset(t)
      PROVE OwnerInv'
  <2>1. CASE op[t] = "hop"
    BY <1>10, <2>1, <1>t, <1>u, <1>i
       DEF SignalReset, AfterSignal, Return, Call, Goto, ThreadTypeOK,
           CoroTypeOK, CallInv, OwnerInv, ExclusiveResume, Holds, CallPCs,
           SigPCs, AddPCs, pollVars, timerVars, coroVars
  <2>2. CASE op[t] = "delay"
    BY <1>10, <2>2, <1>t, <1>u, <1>i
       DEF SignalReset, AfterSignal, Return, Call, Goto, ThreadTypeOK,
           CoroTypeOK, CallInv, OwnerInv, ExclusiveResume, Holds, CallPCs,
           SigPCs, AddPCs, pollVars, timerVars, coroVars
  <2>3. CASE op[t] = "fd"
    BY <1>10, <2>3, <1>t, <1>u, <1>i
       DEF SignalReset, AfterSignal, Return, Call, Goto, ThreadTypeOK,
           CoroTypeOK, CallInv, OwnerInv, ExclusiveResume, Holds, CallPCs,
           SigPCs, AddPCs, pollVars, timerVars, coroVars
  <2>4. CASE op[t] = "abort"
    BY <1>10, <2>4, <1>t, <1>u, <1>i
       DEF SignalReset, AfterSignal, Return, Call, Goto, ThreadTypeOK,
           CoroTypeOK, CallInv, OwnerInv, ExclusiveResume, Holds, CallPCs,
           SigPCs, AddPCs, pollVars, timerVars, coroVars
  <2> QED
    BY <1>10, <2>1, <2>2, <2>3, <2>4 DEF SignalReset, AfterSignal
<1>11. ASSUME NEW t \in Threads, Finish(t)
      PROVE OwnerInv'
  BY <1>11, <1>t, <1>u, <1>i
     DEF Finish, Goto, ThreadTypeOK, CoroTypeOK, CallInv, OwnerInv,
         ExclusiveResume, Holds, CallPCs, SigPCs, AddPCs, loopVars, pollVars,
         timerVars
<1>12. ASSUME NEW l \in Loops, LoopTop(l)
      PROVE OwnerInv'
  BY <1>12, <1>t, <1>u, <1>i
     DEF LoopTop, Goto, ThreadTypeOK, CoroTypeOK, CallInv, OwnerInv,
         ExclusiveResume, Holds, CallPCs, SigPCs, AddPCs, timerVars, coroVars
<1>13. ASSUME NEW l \in Loops, EpollWait(l)
      PROVE OwnerInv'
  BY <1>13, <1>t, <1>u, <1>i
     DEF EpollWait, EpollReturns, Polled, Goto, ThreadTypeOK, CoroTypeOK,
         CallInv, OwnerInv, ExclusiveResume, Holds, CallPCs, SigPCs, AddPCs,
         timerVars, coroVars
<1>14. ASSUME NEW l \in Loops, Interrupted(l)
      PROVE OwnerInv'
  BY <1>14, <1>t, <1>u, <1>i
     DEF Interrupted, EpollReturns, Goto, ThreadTypeOK, CoroTypeOK, CallInv,
         OwnerInv, ExclusiveResume, Holds, CallPCs, SigPCs, AddPCs, timerVars,
         coroVars
<1>15. ASSUME NEW l \in Loops, NEW c \in Coros, ResumeScheduled(l, c)
      PROVE OwnerInv'
  BY <1>15, <1>t, <1>u, <1>i
     DEF ResumeScheduled, Resume, Goto, ThreadTypeOK, CoroTypeOK, CallInv,
         OwnerInv, ExclusiveResume, Holds, CallPCs, SigPCs, AddPCs, pollVars,
         timerVars
<1>16. ASSUME NEW l \in Loops, DrainEnd(l)
      PROVE OwnerInv'
  BY <1>16, <1>t, <1>u, <1>i
     DEF DrainEnd, Goto, ThreadTypeOK, CoroTypeOK, CallInv, OwnerInv,
         ExclusiveResume, Holds, CallPCs, SigPCs, AddPCs, loopVars, pollVars,
         timerVars, coroVars
<1>17. ASSUME NEW l \in Loops, HandleThreadEvent(l)
      PROVE OwnerInv'
  BY <1>17, <1>t, <1>u, <1>i
     DEF HandleThreadEvent, NextEvent, ThreadTypeOK, CoroTypeOK, CallInv,
         OwnerInv, ExclusiveResume, Holds, CallPCs, SigPCs, AddPCs, timerVars,
         coroVars, threadVars
<1>18. ASSUME NEW l \in Loops, NEW c \in Coros, HandleEvent(l, c)
      PROVE OwnerInv'
  BY <1>18, <1>t, <1>u, <1>i
     DEF HandleEvent, NextEvent, Claims, Unregister, Resume, Goto,
         ThreadTypeOK, CoroTypeOK, CallInv, OwnerInv, ExclusiveResume, Holds,
         CallPCs, SigPCs, AddPCs
<1>19. ASSUME NEW l \in Loops, NEW c \in Coros, SkipEvent(l, c)
      PROVE OwnerInv'
  BY <1>19, <1>t, <1>u, <1>i
     DEF SkipEvent, NextEvent, Claims, ThreadTypeOK, CoroTypeOK, CallInv,
         OwnerInv, ExclusiveResume, Holds, CallPCs, SigPCs, AddPCs, timerVars,
         coroVars, threadVars
<1>20. ASSUME NEW l \in Loops, EventsEnd(l)
      PROVE OwnerInv'
  BY <1>20, <1>t, <1>u, <1>i
     DEF EventsEnd, Goto, ThreadTypeOK, CoroTypeOK, CallInv, OwnerInv,
         ExclusiveResume, Holds, CallPCs, SigPCs, AddPCs, timerVars, coroVars
<1>21. ASSUME NEW l \in Loops, TakeExpiredTimer(l)
      PROVE OwnerInv'
  BY <1>21, <1>t, <1>u, <1>i
     DEF TakeExpiredTimer, Expired, Goto, ThreadTypeOK, CoroTypeOK, CallInv,
         OwnerInv, ExclusiveResume, Holds, CallPCs, SigPCs, AddPCs, coroVars
<1>22. ASSUME NEW l \in Loops, NEW c \in Coros, FireTimer(l, c)
      PROVE OwnerInv'
  BY <1>22, <1>t, <1>u, <1>i
     DEF FireTimer, Claims, Unregister, Resume, Goto, ThreadTypeOK, CoroTypeOK,
         CallInv, OwnerInv, ExclusiveResume, Holds, CallPCs, SigPCs, AddPCs
<1>23. ASSUME NEW l \in Loops, DropTimer(l)
      PROVE OwnerInv'
  BY <1>23, <1>t, <1>u, <1>i
     DEF DropTimer, Claims, Goto, ThreadTypeOK, CoroTypeOK, CallInv, OwnerInv,
         ExclusiveResume, Holds, CallPCs, SigPCs, AddPCs, timerVars, coroVars
<1>24. ASSUME NEW l \in Loops, TimersEnd(l)
      PROVE OwnerInv'
  BY <1>24, <1>t, <1>u, <1>i
     DEF TimersEnd, Goto, ThreadTypeOK, CoroTypeOK, CallInv, OwnerInv,
         ExclusiveResume, Holds, CallPCs, SigPCs, AddPCs, timerVars, coroVars
<1>25. ASSUME NEW c \in Coros, Start(c)
      PROVE OwnerInv'
  BY <1>25, <1>t, <1>u, <1>i
     DEF Start, Goto, ThreadTypeOK, CoroTypeOK, CallInv, OwnerInv,
         ExclusiveResume, Holds, CallPCs, SigPCs, AddPCs, loopVars, pollVars,
         timerVars
<1>26. ASSUME NEW l \in Loops, Abort(l)
      PROVE OwnerInv'
  BY <1>26, <1>t, <1>u, <1>i
     DEF Abort, Call, Goto, ThreadTypeOK, CoroTypeOK, CallInv, OwnerInv,
         ExclusiveResume, Holds, CallPCs, SigPCs, AddPCs, pollVars, timerVars,
         coroVars
<1>27. ASSUME Join
      PROVE OwnerInv'
  BY <1>27, <1>t, <1>u, <1>i
     DEF Join, Return, Call, Goto, ThreadTypeOK, CoroTypeOK, CallInv, OwnerInv,
         ExclusiveResume, Holds, CallPCs, SigPCs, AddPCs, loopVars, pollVars,
         timerVars, coroVars
<1>28. ASSUME Tick
      PROVE OwnerInv'
  BY <1>28, <1>t, <1>u, <1>i
     DEF Tick, ThreadTypeOK, CoroTypeOK, CallInv, OwnerInv, ExclusiveResume,
         Holds, CallPCs, SigPCs, AddPCs, loopVars, pollVars, timerVars,
         coroVars, threadVars
<1>29. ASSUME NEW f \in Fds, FdReady(f)
      PROVE OwnerInv'
  BY <1>29, <1>t, <1>u, <1>i
     DEF FdReady, ThreadTypeOK, CoroTypeOK, CallInv, OwnerInv, ExclusiveResume,
         Holds, CallPCs, SigPCs, AddPCs, loopVars, pollVars, timerVars,
         coroVars, threadVars
<1>s. CASE UNCHANGED vars
  BY <1>s, <1>t, <1>u, <1>i
     DEF vars, ThreadTypeOK, CoroTypeOK, CallInv, OwnerInv, ExclusiveResume,
         Holds, CallPCs, SigPCs, AddPCs, loopVars, pollVars, timerVars,
         coroVars, threadVars
<1> QED
  BY <1>1, <1>2, <1>3, <1>4, <1>5, <1>6, <1>7, <1>8, <1>9, <1>10, <1>11, <1>12,
     <1>13, <1>14, <1>15, <1>16, <1>17, <1>18, <1>19, <1>20, <1>21, <1>22,
     <1>23, <1>24, <1>25, <1>26, <1>27, <1>28, <1>29, <1>s
     DEF Next, CallStep, LoopStep

\* The scheduler starts with every coroutine unowned.
LEMMA OwnershipInit == Init => OwnershipInv
<1> SUFFICES ASSUME Init PROVE OwnershipInv
  OBVIOUS
<1> USE LoopAssumption DEF Init, Threads, Never
<1>1. ThreadTypeOK
  BY DEF ThreadTypeOK, CallPCs, LoopPCs, MainPCs
<1>2. LoopTypeOK /\ PollTypeOK
  BY DEF LoopTypeOK, PollTypeOK
<1>3. TimerTypeOK
  BY DEF TimerTypeOK, EmptyList, Unlinked, Lists, Links, Pointers
<1>4. CoroTypeOK /\ ready \in SUBSET Fds /\ now \in 0 .. MaxTime
  BY DEF CoroTypeOK
<1>5. CallInv
  BY DEF CallInv, Holds, CallPCs, SigPCs, AddPCs
<1>6. OwnerInv
  BY DEF OwnerInv, ExclusiveResume, Holds, SigPCs, AddPCs
<1> QED
  BY <1>1, <1>2, <1>3, <1>4, <1>5, <1>6 DEF OwnershipInv, TypeOK

\* OwnershipInv is inductive.
LEMMA OwnershipStep == OwnershipInv /\ [Next]_vars => OwnershipInv'
  BY TypeStep, CallInvStep, OwnerStep DEF OwnershipInv, TypeInv

\* In every behaviour of the event loops, whatever loop serves a wait, a
\* coroutine is owned by one thread, one queue or one wait.
THEOREM Ownership == Spec => []OwnershipInv
<1>1. Init => OwnershipInv
  BY OwnershipInit
<1>2. OwnershipInv /\ [Next]_vars => OwnershipInv'
  BY OwnershipStep
<1> QED
  BY <1>1, <1>2, PTL DEF Spec

\* Every variable keeps its type: the load counters their 64 bits, the timer
\* lists their pointers, although inflight-- may come before inflight++.
THEOREM TypeCorrect == Spec => []TypeOK
<1>1. OwnershipInv => TypeOK
  BY DEF OwnershipInv
<1> QED
  BY <1>1, Ownership, PTL

\* No coroutine is resumed twice: of an event, a timer and a queue, one resumes
\* it, and never while a thread that suspended it still uses its awaiter.
THEOREM OneResumption == Spec => []ExclusiveResume
<1>1. OwnershipInv => ExclusiveResume
  BY DEF OwnershipInv, OwnerInv
<1> QED
  BY <1>1, Ownership, PTL

-----------------------------------------------------------------------------
(***************************************************************************)
(* The epoll sets, with one waiter per descriptor.                         *)
(***************************************************************************)
\* Past epoll_ctl, add(Event *) has registered what it goes on to schedule.
Adding(t) == \/ pc[t] \in {"addTimer", "setScheduled"}
             \/ op[t] = "fd" /\ pc[t] \in SigPCs
RegInv ==
    /\ \A c, e \in Coros : fd[c] = fd[e] /\ fd[c] # None => c = e
    /\ ScheduledIsRegistered
    /\ \A t \in Threads : Adding(t) => reg[tgt[t]][fd[run[t]]] = run[t]

\* What a step that leaves the registrations alone must leave alone.
LEMMA RegFrame ==
    ASSUME OwnershipInv, RegInv, UNCHANGED <<reg, fd, at>>,
           \A c \in Coros : st'[c] = "scheduled" => st[c] = "scheduled",
           \A t \in Threads : Adding(t)' =>
               Adding(t) /\ tgt'[t] = tgt[t] /\ run'[t] = run[t]
    PROVE  RegInv'
<1>1. ScheduledIsRegistered'
  BY DEF RegInv, ScheduledIsRegistered
<1>2. \A t \in Threads : Adding(t)' => (reg[tgt[t]][fd[run[t]]] = run[t])'
  BY DEF RegInv
<1> QED
  BY <1>1, <1>2 DEF RegInv

\* A wait ends: its descriptor is taken out, and nobody else waits for it.
LEMMA RegEnds ==
    ASSUME OwnershipInv, RegInv, NEW l \in Loops, NEW c \in Coros,
           st[c] = "scheduled",
           \/ reg' = [reg EXCEPT ![l][fd[c]] = None]
           \/ reg' = reg,
           st' = [st EXCEPT ![c] = "created"], fd' = [fd EXCEPT ![c] = None],
           at' = [at EXCEPT ![c] = None],
           \A t \in Threads : Adding(t)' =>
               Adding(t) /\ tgt'[t] = tgt[t] /\ run'[t] = run[t]
    PROVE  RegInv'
<1>u. ThreadTypeOK /\ LoopTypeOK /\ CoroTypeOK /\ OwnerInv /\ CallInv /\ None \notin Coros \cup Fds
  BY LoopAssumption DEF OwnershipInv, TypeOK
<1>1. /\ fd'[c] = None /\ st'[c] = "created"
      /\ \A e \in Coros : e # c => fd'[e] = fd[e] /\ st'[e] = st[e] /\ at'[e] = at[e]
  BY <1>u DEF CoroTypeOK
<1>2. \A m \in Loops, e \in Coros : e # c /\ fd[e] # None => reg'[m][fd[e]] = reg[m][fd[e]]
  BY <1>u DEF RegInv, LoopTypeOK, CoroTypeOK
<1>3. ScheduledIsRegistered'
  <2> SUFFICES ASSUME NEW e \in Coros, st'[e] = "scheduled", fd'[e] # None
               PROVE  reg'[at'[e]][fd'[e]] = e
    BY DEF ScheduledIsRegistered
  <2>1. e # c /\ st[e] = "scheduled" /\ fd[e] # None /\ fd'[e] = fd[e] /\ at'[e] = at[e]
    BY <1>1
  <2>2. at[e] \in Loops
    BY <1>u, <2>1 DEF OwnerInv, CoroTypeOK
  <2>3. reg[at[e]][fd[e]] = e
    BY <2>1 DEF RegInv, ScheduledIsRegistered
  <2> QED
    BY <1>2, <2>1, <2>2, <2>3
<1>4. \A t \in Threads : Adding(t)' => (reg[tgt[t]][fd[run[t]]] = run[t])'
  <2> SUFFICES ASSUME NEW t \in Threads, Adding(t)' PROVE (reg[tgt[t]][fd[run[t]]] = run[t])'
    OBVIOUS
  <2>1. Adding(t) /\ tgt'[t] = tgt[t] /\ run'[t] = run[t]
    OBVIOUS
  <2>2. /\ Holds(t) /\ pc[t] # "run" /\ pc[t] \in CallPCs
    BY <2>1 DEF Adding, Holds, AddPCs, SigPCs, CallPCs
  <2>3. run[t] \in Coros /\ tgt[t] \in Loops /\ fd[run[t]] # None /\ st[run[t]] = "created"
    BY <1>u, <2>2 DEF CallInv, OwnerInv, ExclusiveResume, ThreadTypeOK
  <2>4. run[t] # c
    BY <2>3
  <2>5. reg[tgt[t]][fd[run[t]]] = run[t]
    BY <2>1 DEF RegInv
  <2> QED
    BY <1>1, <1>2, <2>1, <2>3, <2>4, <2>5
<1>5. \A x, e \in Coros : fd'[x] = fd'[e] /\ fd'[x] # None => x = e
  BY <1>1 DEF RegInv
<1> QED
  BY <1>3, <1>4, <1>5 DEF RegInv

\* Every step keeps the registrations when no descriptor has two waiters.
LEMMA RegStep == ~SharedFds /\ OwnershipInv /\ RegInv /\ [Next]_vars => RegInv'
<1> SUFFICES ASSUME ~SharedFds, OwnershipInv, RegInv, [Next]_vars PROVE RegInv'
  OBVIOUS
<1>t. Loops \subseteq Threads /\ Main \in Threads /\ Main \notin Loops /\ None \notin Loops
      /\ None \notin Coros /\ None \notin Fds
  BY LoopAssumption DEF Threads
<1>u. ThreadTypeOK /\ LoopTypeOK /\ CoroTypeOK /\ PollTypeOK /\ CallInv /\ OwnerInv
  BY DEF OwnershipInv, TypeOK
<1>1. ASSUME NEW t \in Threads, NEW c \in Coros, NEW l \in Loops, AwaitHop(t,
             c, l)
      PROVE  RegInv'
  <2>1. UNCHANGED <<reg, fd, at>>
    BY <1>1 DEF AwaitHop, loopVars, coroVars
  <2>2. \A e \in Coros : st'[e] = "scheduled" => st[e] = "scheduled"
    BY <1>1, <1>u DEF AwaitHop, coroVars, CoroTypeOK
  <2>3. \A u \in Threads : Adding(u)' => Adding(u) /\ tgt'[u] = tgt[u] /\ run'[u] = run[u]
    BY <1>1, <1>t, <1>u DEF AwaitHop, Goto, Call, Return, AfterSignal, Suspends,
         ThreadTypeOK, CallInv, CallPCs, LoopPCs, AddPCs, SigPCs, threadVars, Adding
  <2> QED
    BY <2>1, <2>2, <2>3, RegFrame
<1>2. ASSUME NEW t \in Threads, NEW c \in Coros, NEW l \in Loops,
             NEW d \in DelayTimeouts, AwaitDelay(t, c, l, d)
      PROVE  RegInv'
  <2>1. /\ c = run[t] /\ pc[t] = "run" /\ at[c] = None /\ fd[c] = None /\ UNCHANGED <<reg, fd>>
        /\ \A e \in Coros : e # c => st'[e] = st[e] /\ at'[e] = at[e]
    BY <1>2, <1>t, <1>u DEF AwaitDelay, Suspends, OwnerInv, CoroTypeOK, loopVars
  <2>2. \A u \in Threads : Adding(u)' => Adding(u) /\ tgt'[u] = tgt[u] /\ run'[u] = run[u]
    BY <1>2, <1>t, <1>u
       DEF AwaitDelay, Goto, Call, Return, AfterSignal, Suspends,
         ThreadTypeOK, CallInv, CallPCs, LoopPCs, AddPCs, SigPCs, threadVars, Adding
  <2>3. ScheduledIsRegistered'
    BY <2>1 DEF ScheduledIsRegistered, RegInv
  <2>4. \A u \in Threads : Adding(u)' => (reg[tgt[u]][fd[run[u]]] = run[u])'
    BY <2>1, <2>2 DEF RegInv
  <2> QED
    BY <2>1, <2>3, <2>4 DEF RegInv
<1>3. ASSUME NEW t \in Threads, NEW c \in Coros, NEW l \in Loops,
             NEW f \in Fds, NEW d \in FdTimeouts, AwaitFd(t, c, l, f, d)
      PROVE  RegInv'
  <2>1. /\ c = run[t] /\ pc[t] = "run" /\ st[c] = "created" /\ \A o \in Coros : fd[o] # f
        /\ fd'[c] = f /\ at'[c] = l /\ UNCHANGED <<st, run>>
        /\ \A e \in Coros : e # c => fd'[e] = fd[e] /\ at'[e] = at[e]
    BY <1>3, <1>t, <1>u
       DEF AwaitFd, Suspends, OwnerInv, ExclusiveResume, CoroTypeOK
  <2>2. /\ \A u \in Threads : u # t => (Adding(u)' <=> Adding(u)) /\ tgt'[u] = tgt[u]
        /\ Adding(t)' => tgt'[t] = l /\ reg'[l][f] = c
    BY <1>3, <1>t, <1>u
       DEF AwaitFd, LoopTypeOK, Registered, Goto, Call, Return, AfterSignal,
           Suspends,
         ThreadTypeOK, CallInv, CallPCs, LoopPCs, AddPCs, SigPCs, threadVars, Adding
  <2>3. \A m \in Loops, g \in Fds : g # f => reg'[m][g] = reg[m][g]
    BY <1>3, <1>t, <1>u DEF AwaitFd, LoopTypeOK
  <2>4. \A x, e \in Coros : fd'[x] = fd'[e] /\ fd'[x] # None => x = e
    BY <2>1 DEF RegInv
  <2>5. ScheduledIsRegistered'
    <3> SUFFICES ASSUME NEW e \in Coros, st'[e] = "scheduled", fd'[e] # None
                 PROVE  reg'[at'[e]][fd'[e]] = e
      BY DEF ScheduledIsRegistered
    <3>1. e # c /\ st[e] = "scheduled" /\ fd'[e] = fd[e] /\ at'[e] = at[e]
      BY <2>1
    <3>2. at[e] \in Loops /\ fd[e] \in Fds /\ fd[e] # f
      BY <1>u, <2>1, <3>1 DEF OwnerInv, CoroTypeOK
    <3>3. reg[at[e]][fd[e]] = e
      BY <3>1 DEF RegInv, ScheduledIsRegistered
    <3> QED
      BY <2>3, <3>1, <3>2, <3>3
  <2>6. \A u \in Threads : Adding(u)' => (reg[tgt[u]][fd[run[u]]] = run[u])'
    <3> SUFFICES ASSUME NEW u \in Threads, Adding(u)' PROVE (reg[tgt[u]][fd[run[u]]] = run[u])'
      OBVIOUS
    <3>1. CASE u = t
      BY <2>1, <2>2, <3>1
    <3>2. CASE u # t
      <4>1. Adding(u) /\ tgt'[u] = tgt[u] /\ run'[u] = run[u]
        BY <2>1, <2>2, <3>2
      <4>2. Holds(u) /\ pc[u] # "run" /\ pc[u] \in CallPCs
        BY <4>1 DEF Adding, Holds, AddPCs, SigPCs, CallPCs
      <4>3. run[u] \in Coros /\ tgt[u] \in Loops /\ fd[run[u]] \in Fds /\ at[run[u]] = tgt[u]
        BY <1>u, <4>2 DEF CallInv, OwnerInv, ThreadTypeOK, CoroTypeOK
      <4>4. run[u] # c /\ fd[run[u]] # f
        BY <1>t, <1>u, <2>1, <3>2, <4>3 DEF OwnerInv, ExclusiveResume
      <4>5. reg[tgt[u]][fd[run[u]]] = run[u]
        BY <4>1 DEF RegInv
      <4> QED
        BY <2>1, <2>3, <4>1, <4>3, <4>4, <4>5
    <3> QED
      BY <3>1, <3>2
  <2> QED
    BY <2>4, <2>5, <2>6 DEF RegInv
<1>4. ASSUME NEW t \in Threads, EpollMod(t) PROVE RegInv'
  <2> DEFINE c == run[t]
             l == tgt[t]
  <2>1. /\ Holds(t) /\ pc[t] = "epMod" /\ c \in Coros /\ l \in Loops /\ fd[c] \in Fds
        /\ at[c] = l /\ st[c] = "created"
    BY <1>4, <1>t, <1>u
       DEF EpollMod, CallInv, OwnerInv, ExclusiveResume, ThreadTypeOK,
                              CoroTypeOK, Holds, AddPCs, CallPCs
  <2>2. UNCHANGED <<fd, at, st>>
    BY <1>4 DEF EpollMod, coroVars
  <2>3. CASE reg[l][fd[c]] = None
    <3>1. reg' = reg
      BY <1>4, <2>3 DEF EpollMod
    <3>2. \A u \in Threads : Adding(u)' => Adding(u) /\ tgt'[u] = tgt[u] /\ run'[u] = run[u]
      BY <1>4, <1>t, <1>u, <2>3
         DEF EpollMod, Goto, Call, Return, AfterSignal, Suspends,
         ThreadTypeOK, CallInv, CallPCs, LoopPCs, AddPCs, SigPCs, threadVars, Adding
    <3> QED
      BY <2>2, <3>1, <3>2, RegFrame
  <2>4. CASE reg[l][fd[c]] # None
    <3>1. /\ reg'[l][fd[c]] = c /\ UNCHANGED <<run, tgt>>
          /\ \A m \in Loops, g \in Fds : g # fd[c] => reg'[m][g] = reg[m][g]
      BY <1>4, <1>u, <2>1, <2>4 DEF EpollMod, LoopTypeOK
    <3>2. \A u \in Threads : u # t => (Adding(u)' <=> Adding(u))
      BY <1>4, <1>t, <1>u, <2>4
         DEF EpollMod, Registered, Goto, Call, Return, AfterSignal, Suspends,
         ThreadTypeOK, CallInv, CallPCs, LoopPCs, AddPCs, SigPCs, threadVars, Adding
    <3>3. ScheduledIsRegistered'
      <4> SUFFICES ASSUME NEW e \in Coros, st'[e] = "scheduled", fd'[e] # None
                   PROVE  reg'[at'[e]][fd'[e]] = e
        BY DEF ScheduledIsRegistered
      <4>1. e # c /\ st[e] = "scheduled" /\ fd[e] # None
        BY <2>1, <2>2
      <4>2. at[e] \in Loops /\ fd[e] \in Fds /\ fd[e] # fd[c]
        BY <1>t, <1>u, <2>1, <4>1 DEF OwnerInv, CoroTypeOK, RegInv
      <4>3. reg[at[e]][fd[e]] = e
        BY <4>1 DEF RegInv, ScheduledIsRegistered
      <4> QED
        BY <2>2, <3>1, <4>1, <4>2, <4>3
    <3>4. \A u \in Threads : Adding(u)' => (reg[tgt[u]][fd[run[u]]] = run[u])'
      <4> SUFFICES ASSUME NEW u \in Threads, Adding(u)' PROVE (reg[tgt[u]][fd[run[u]]] = run[u])'
        OBVIOUS
      <4>1. CASE u = t
        BY <2>2, <3>1, <4>1
      <4>2. CASE u # t
        <5>1. Adding(u)
          BY <3>2, <4>2
        <5>2. Holds(u) /\ pc[u] # "run" /\ pc[u] \in CallPCs
          BY <5>1 DEF Adding, Holds, AddPCs, SigPCs, CallPCs
        <5>3. run[u] \in Coros /\ tgt[u] \in Loops /\ fd[run[u]] \in Fds
          BY <1>u, <5>2 DEF CallInv, OwnerInv, ThreadTypeOK, CoroTypeOK
        <5>4. run[u] # c /\ fd[run[u]] # fd[c]
          BY <1>t, <1>u, <2>1, <4>2, <5>3 DEF OwnerInv, ExclusiveResume, RegInv
        <5>5. reg[tgt[u]][fd[run[u]]] = run[u]
          BY <5>1 DEF RegInv
        <5> QED
          BY <2>2, <3>1, <5>3, <5>4, <5>5
      <4> QED
        BY <4>1, <4>2
    <3> QED
      BY <2>2, <3>3, <3>4 DEF RegInv
  <2> QED
    BY <2>3, <2>4
<1>5. ASSUME NEW t \in Threads, AddEventTimer(t) PROVE RegInv'
  <2>1. UNCHANGED <<reg, fd, at>>
    BY <1>5 DEF AddEventTimer, loopVars, coroVars
  <2>2. \A e \in Coros : st'[e] = "scheduled" => st[e] = "scheduled"
    BY <1>5, <1>u DEF AddEventTimer, coroVars, CoroTypeOK
  <2>3. \A u \in Threads : Adding(u)' => Adding(u) /\ tgt'[u] = tgt[u] /\ run'[u] = run[u]
    BY <1>5, <1>t, <1>u
       DEF AddEventTimer, Goto, Call, Return, AfterSignal, Suspends,
         ThreadTypeOK, CallInv, CallPCs, LoopPCs, AddPCs, SigPCs, threadVars, Adding
  <2> QED
    BY <2>1, <2>2, <2>3, RegFrame
<1>6. ASSUME NEW t \in Threads, SetScheduled(t) PROVE RegInv'
  <2>1. /\ Holds(t) /\ Adding(t) /\ pc[t] = "setScheduled" /\ run[t] \in Coros
        /\ at[run[t]] = tgt[t] /\ reg[tgt[t]][fd[run[t]]] = run[t]
    BY <1>6, <1>t, <1>u
       DEF SetScheduled, CallInv, OwnerInv, ThreadTypeOK, Holds, AddPCs,
                              CallPCs, Adding, RegInv
  <2>2. /\ UNCHANGED <<reg, fd, at>>
        /\ \A e \in Coros : e # run[t] => st'[e] = st[e]
    BY <1>6, <1>u DEF SetScheduled, CoroTypeOK, loopVars
  <2>3. \A u \in Threads : Adding(u)' => Adding(u) /\ tgt'[u] = tgt[u] /\ run'[u] = run[u]
    BY <1>6, <1>t, <1>u
       DEF SetScheduled, Goto, Call, Return, AfterSignal, Suspends,
         ThreadTypeOK, CallInv, CallPCs, LoopPCs, AddPCs, SigPCs, threadVars, Adding
  <2>4. ScheduledIsRegistered'
    BY <2>1, <2>2 DEF ScheduledIsRegistered, RegInv
  <2>5. \A u \in Threads : Adding(u)' => (reg[tgt[u]][fd[run[u]]] = run[u])'
    BY <2>2, <2>3 DEF RegInv
  <2> QED
    BY <2>2, <2>4, <2>5 DEF RegInv
<1>7. ASSUME NEW t \in Threads, Record(t) PROVE RegInv'
  <2>1. UNCHANGED <<reg, fd, at>>
    BY <1>7 DEF Record, loopVars, coroVars
  <2>2. \A e \in Coros : st'[e] = "scheduled" => st[e] = "scheduled"
    BY <1>7, <1>u DEF Record, coroVars, CoroTypeOK
  <2>3. \A u \in Threads : Adding(u)' => Adding(u) /\ tgt'[u] = tgt[u] /\ run'[u] = run[u]
    BY <1>7, <1>t, <1>u DEF Record, Goto, Call, Return, AfterSignal, Suspends,
         ThreadTypeOK, CallInv, CallPCs, LoopPCs, AddPCs, SigPCs, threadVars, Adding
  <2> QED
    BY <2>1, <2>2, <2>3, RegFrame
<1>8. ASSUME NEW t \in Threads, SignalCas(t) PROVE RegInv'
  <2>1. UNCHANGED <<reg, fd, at>>
    BY <1>8 DEF SignalCas, loopVars, coroVars
  <2>2. \A e \in Coros : st'[e] = "scheduled" => st[e] = "scheduled"
    BY <1>8, <1>u DEF SignalCas, coroVars, CoroTypeOK
  <2>3. \A u \in Threads : Adding(u)' => Adding(u) /\ tgt'[u] = tgt[u] /\ run'[u] = run[u]
    BY <1>8, <1>t, <1>u
       DEF SignalCas, Goto, Call, Return, AfterSignal, Suspends,
         ThreadTypeOK, CallInv, CallPCs, LoopPCs, AddPCs, SigPCs, threadVars, Adding
  <2> QED
    BY <2>1, <2>2, <2>3, RegFrame
<1>9. ASSUME NEW t \in Threads, SignalWrite(t) PROVE RegInv'
  <2>1. UNCHANGED <<reg, fd, at>>
    BY <1>9 DEF SignalWrite, loopVars, coroVars
  <2>2. \A e \in Coros : st'[e] = "scheduled" => st[e] = "scheduled"
    BY <1>9, <1>u DEF SignalWrite, coroVars, CoroTypeOK
  <2>3. \A u \in Threads : Adding(u)' => Adding(u) /\ tgt'[u] = tgt[u] /\ run'[u] = run[u]
    BY <1>9, <1>t, <1>u
       DEF SignalWrite, Goto, Call, Return, AfterSignal, Suspends,
         ThreadTypeOK, CallInv, CallPCs, LoopPCs, AddPCs, SigPCs, threadVars, Adding
  <2> QED
    BY <2>1, <2>2, <2>3, RegFrame
<1>10. ASSUME NEW t \in Threads, SignalReset(t) PROVE RegInv'
  <2>1. UNCHANGED <<reg, fd, at>>
    BY <1>10 DEF SignalReset, loopVars, coroVars
  <2>2. \A e \in Coros : st'[e] = "scheduled" => st[e] = "scheduled"
    BY <1>10, <1>u DEF SignalReset, coroVars, CoroTypeOK
  <2>3. \A u \in Threads : Adding(u)' => Adding(u) /\ tgt'[u] = tgt[u] /\ run'[u] = run[u]
    BY <1>10, <1>t, <1>u
       DEF SignalReset, Goto, Call, Return, AfterSignal, Suspends,
         ThreadTypeOK, CallInv, CallPCs, LoopPCs, AddPCs, SigPCs, threadVars, Adding
  <2> QED
    BY <2>1, <2>2, <2>3, RegFrame
<1>11. ASSUME NEW t \in Threads, Finish(t) PROVE RegInv'
  <2>1. UNCHANGED <<reg, fd, at>>
    BY <1>11 DEF Finish, loopVars, coroVars
  <2>2. \A e \in Coros : st'[e] = "scheduled" => st[e] = "scheduled"
    BY <1>11, <1>u DEF Finish, coroVars, CoroTypeOK
  <2>3. \A u \in Threads : Adding(u)' => Adding(u) /\ tgt'[u] = tgt[u] /\ run'[u] = run[u]
    BY <1>11, <1>t, <1>u DEF Finish, Goto, Call, Return, AfterSignal, Suspends,
         ThreadTypeOK, CallInv, CallPCs, LoopPCs, AddPCs, SigPCs, threadVars, Adding
  <2> QED
    BY <2>1, <2>2, <2>3, RegFrame
<1>12. ASSUME NEW l \in Loops, LoopTop(l) PROVE RegInv'
  <2>1. UNCHANGED <<reg, fd, at>>
    BY <1>12 DEF LoopTop, loopVars, coroVars
  <2>2. \A e \in Coros : st'[e] = "scheduled" => st[e] = "scheduled"
    BY <1>12, <1>u DEF LoopTop, coroVars, CoroTypeOK
  <2>3. \A u \in Threads : Adding(u)' => Adding(u) /\ tgt'[u] = tgt[u] /\ run'[u] = run[u]
    BY <1>12, <1>t, <1>u DEF LoopTop, Goto, Call, Return, AfterSignal, Suspends,
         ThreadTypeOK, CallInv, CallPCs, LoopPCs, AddPCs, SigPCs, threadVars, Adding
  <2> QED
    BY <2>1, <2>2, <2>3, RegFrame
<1>13. ASSUME NEW l \in Loops, EpollWait(l) \/ Interrupted(l) PROVE RegInv'
  <2>1. UNCHANGED <<reg, fd, at>>
    BY <1>13 DEF EpollWait, Interrupted, EpollReturns, loopVars, coroVars
  <2>2. \A e \in Coros : st'[e] = "scheduled" => st[e] = "scheduled"
    BY <1>13, <1>u
       DEF EpollWait, Interrupted, EpollReturns, coroVars, CoroTypeOK
  <2>3. \A u \in Threads : Adding(u)' => Adding(u) /\ tgt'[u] = tgt[u] /\ run'[u] = run[u]
    BY <1>13, <1>t, <1>u
       DEF EpollWait, Interrupted, EpollReturns, Goto, Call, Return,
           AfterSignal, Suspends,
         ThreadTypeOK, CallInv, CallPCs, LoopPCs, AddPCs, SigPCs, threadVars, Adding
  <2> QED
    BY <2>1, <2>2, <2>3, RegFrame
<1>14. ASSUME NEW l \in Loops, DrainEnd(l) PROVE RegInv'
  <2>1. UNCHANGED <<reg, fd, at>>
    BY <1>14 DEF DrainEnd, loopVars, coroVars
  <2>2. \A e \in Coros : st'[e] = "scheduled" => st[e] = "scheduled"
    BY <1>14, <1>u DEF DrainEnd, coroVars, CoroTypeOK
  <2>3. \A u \in Threads : Adding(u)' => Adding(u) /\ tgt'[u] = tgt[u] /\ run'[u] = run[u]
    BY <1>14, <1>t, <1>u
       DEF DrainEnd, Goto, Call, Return, AfterSignal, Suspends,
         ThreadTypeOK, CallInv, CallPCs, LoopPCs, AddPCs, SigPCs, threadVars, Adding
  <2> QED
    BY <2>1, <2>2, <2>3, RegFrame
<1>15. ASSUME NEW l \in Loops, HandleThreadEvent(l) PROVE RegInv'
  <2>1. UNCHANGED <<reg, fd, at>>
    BY <1>15 DEF HandleThreadEvent, loopVars, coroVars
  <2>2. \A e \in Coros : st'[e] = "scheduled" => st[e] = "scheduled"
    BY <1>15, <1>u DEF HandleThreadEvent, coroVars, CoroTypeOK
  <2>3. \A u \in Threads : Adding(u)' => Adding(u) /\ tgt'[u] = tgt[u] /\ run'[u] = run[u]
    BY <1>15, <1>t, <1>u
       DEF HandleThreadEvent, Goto, Call, Return, AfterSignal, Suspends,
         ThreadTypeOK, CallInv, CallPCs, LoopPCs, AddPCs, SigPCs, threadVars, Adding
  <2> QED
    BY <2>1, <2>2, <2>3, RegFrame
<1>16. ASSUME NEW l \in Loops, EventsEnd(l) PROVE RegInv'
  <2>1. UNCHANGED <<reg, fd, at>>
    BY <1>16 DEF EventsEnd, loopVars, coroVars
  <2>2. \A e \in Coros : st'[e] = "scheduled" => st[e] = "scheduled"
    BY <1>16, <1>u DEF EventsEnd, coroVars, CoroTypeOK
  <2>3. \A u \in Threads : Adding(u)' => Adding(u) /\ tgt'[u] = tgt[u] /\ run'[u] = run[u]
    BY <1>16, <1>t, <1>u
       DEF EventsEnd, Goto, Call, Return, AfterSignal, Suspends,
         ThreadTypeOK, CallInv, CallPCs, LoopPCs, AddPCs, SigPCs, threadVars, Adding
  <2> QED
    BY <2>1, <2>2, <2>3, RegFrame
<1>17. ASSUME NEW l \in Loops, TakeExpiredTimer(l) PROVE RegInv'
  <2>1. UNCHANGED <<reg, fd, at>>
    BY <1>17 DEF TakeExpiredTimer, loopVars, coroVars
  <2>2. \A e \in Coros : st'[e] = "scheduled" => st[e] = "scheduled"
    BY <1>17, <1>u DEF TakeExpiredTimer, coroVars, CoroTypeOK
  <2>3. \A u \in Threads : Adding(u)' => Adding(u) /\ tgt'[u] = tgt[u] /\ run'[u] = run[u]
    BY <1>17, <1>t, <1>u
       DEF TakeExpiredTimer, Goto, Call, Return, AfterSignal, Suspends,
         ThreadTypeOK, CallInv, CallPCs, LoopPCs, AddPCs, SigPCs, threadVars, Adding
  <2> QED
    BY <2>1, <2>2, <2>3, RegFrame
<1>18. ASSUME NEW l \in Loops, DropTimer(l) PROVE RegInv'
  <2>1. UNCHANGED <<reg, fd, at>>
    BY <1>18 DEF DropTimer, loopVars, coroVars
  <2>2. \A e \in Coros : st'[e] = "scheduled" => st[e] = "scheduled"
    BY <1>18, <1>u DEF DropTimer, coroVars, CoroTypeOK
  <2>3. \A u \in Threads : Adding(u)' => Adding(u) /\ tgt'[u] = tgt[u] /\ run'[u] = run[u]
    BY <1>18, <1>t, <1>u
       DEF DropTimer, Goto, Call, Return, AfterSignal, Suspends,
         ThreadTypeOK, CallInv, CallPCs, LoopPCs, AddPCs, SigPCs, threadVars, Adding
  <2> QED
    BY <2>1, <2>2, <2>3, RegFrame
<1>19. ASSUME NEW l \in Loops, TimersEnd(l) PROVE RegInv'
  <2>1. UNCHANGED <<reg, fd, at>>
    BY <1>19 DEF TimersEnd, loopVars, coroVars
  <2>2. \A e \in Coros : st'[e] = "scheduled" => st[e] = "scheduled"
    BY <1>19, <1>u DEF TimersEnd, coroVars, CoroTypeOK
  <2>3. \A u \in Threads : Adding(u)' => Adding(u) /\ tgt'[u] = tgt[u] /\ run'[u] = run[u]
    BY <1>19, <1>t, <1>u
       DEF TimersEnd, Goto, Call, Return, AfterSignal, Suspends,
         ThreadTypeOK, CallInv, CallPCs, LoopPCs, AddPCs, SigPCs, threadVars, Adding
  <2> QED
    BY <2>1, <2>2, <2>3, RegFrame
<1>20. ASSUME NEW l \in Loops, NEW c \in Coros, ResumeScheduled(l, c)
       PROVE  RegInv'
  <2>1. at[c] = None /\ fd[c] = None /\ st[c] = "created"
    BY <1>20, <1>t, <1>u DEF ResumeScheduled, Resume, OwnerInv, ExclusiveResume
  <2>2. UNCHANGED <<reg, fd, at, st>>
    BY <1>20, <1>u, <2>1 DEF ResumeScheduled, Resume, CoroTypeOK
  <2>3. \A t \in Threads : Adding(t)' => Adding(t) /\ tgt'[t] = tgt[t] /\ run'[t] = run[t]
    BY <1>20, <1>t, <1>u
       DEF ResumeScheduled, Resume, Goto, Call, Return, AfterSignal, Suspends,
         ThreadTypeOK, CallInv, CallPCs, LoopPCs, AddPCs, SigPCs, threadVars, Adding
  <2> QED
    BY <2>2, <2>3, RegFrame
<1>21. ASSUME NEW l \in Loops, NEW c \in Coros, HandleEvent(l, c) PROVE RegInv'
  <2>1. /\ st[c] = "scheduled" /\ st' = [st EXCEPT ![c] = "created"]
        /\ fd' = [fd EXCEPT ![c] = None] /\ at' = [at EXCEPT ![c] = None]
        /\ reg' = [reg EXCEPT ![l][fd[c]] = None] \/ reg' = reg
    BY <1>21 DEF HandleEvent, NextEvent, Resume, Claims, Unregister
  <2>2. \A t \in Threads : Adding(t)' => Adding(t) /\ tgt'[t] = tgt[t] /\ run'[t] = run[t]
    BY <1>21, <1>t, <1>u
       DEF HandleEvent, NextEvent, Resume, Goto, Call, Return, AfterSignal,
           Suspends,
         ThreadTypeOK, CallInv, CallPCs, LoopPCs, AddPCs, SigPCs, threadVars, Adding
  <2> QED
    BY <2>1, <2>2, RegEnds
<1>22. ASSUME NEW l \in Loops, NEW c \in Coros, SkipEvent(l, c) PROVE RegInv'
  <2>1. UNCHANGED <<reg, fd, at>>
    BY <1>22 DEF SkipEvent, loopVars, coroVars
  <2>2. \A e \in Coros : st'[e] = "scheduled" => st[e] = "scheduled"
    BY <1>22, <1>u DEF SkipEvent, coroVars, CoroTypeOK
  <2>3. \A u \in Threads : Adding(u)' => Adding(u) /\ tgt'[u] = tgt[u] /\ run'[u] = run[u]
    BY <1>22, <1>t, <1>u
       DEF SkipEvent, Goto, Call, Return, AfterSignal, Suspends,
         ThreadTypeOK, CallInv, CallPCs, LoopPCs, AddPCs, SigPCs, threadVars, Adding
  <2> QED
    BY <2>1, <2>2, <2>3, RegFrame
<1>23. ASSUME NEW l \in Loops, NEW c \in Coros, FireTimer(l, c) PROVE RegInv'
  <2>1. /\ st[c] = "scheduled" /\ st' = [st EXCEPT ![c] = "created"]
        /\ fd' = [fd EXCEPT ![c] = None] /\ at' = [at EXCEPT ![c] = None]
        /\ reg' = [reg EXCEPT ![l][fd[c]] = None] \/ reg' = reg
    BY <1>23 DEF FireTimer, Resume, Claims, Unregister
  <2>2. \A t \in Threads : Adding(t)' => Adding(t) /\ tgt'[t] = tgt[t] /\ run'[t] = run[t]
    BY <1>23, <1>t, <1>u
       DEF FireTimer, Resume, Goto, Call, Return, AfterSignal, Suspends,
         ThreadTypeOK, CallInv, CallPCs, LoopPCs, AddPCs, SigPCs, threadVars, Adding
  <2> QED
    BY <2>1, <2>2, RegEnds
<1>24. ASSUME NEW c \in Coros, Start(c) PROVE RegInv'
  <2>1. UNCHANGED <<reg, fd, at>>
    BY <1>24 DEF Start, loopVars, coroVars
  <2>2. \A e \in Coros : st'[e] = "scheduled" => st[e] = "scheduled"
    BY <1>24, <1>u DEF Start, coroVars, CoroTypeOK
  <2>3. \A u \in Threads : Adding(u)' => Adding(u) /\ tgt'[u] = tgt[u] /\ run'[u] = run[u]
    BY <1>24, <1>t, <1>u DEF Start, Goto, Call, Return, AfterSignal, Suspends,
         ThreadTypeOK, CallInv, CallPCs, LoopPCs, AddPCs, SigPCs, threadVars, Adding
  <2> QED
    BY <2>1, <2>2, <2>3, RegFrame
<1>25. ASSUME NEW l \in Loops, Abort(l) PROVE RegInv'
  <2>1. UNCHANGED <<reg, fd, at>>
    BY <1>25 DEF Abort, loopVars, coroVars
  <2>2. \A e \in Coros : st'[e] = "scheduled" => st[e] = "scheduled"
    BY <1>25, <1>u DEF Abort, coroVars, CoroTypeOK
  <2>3. \A u \in Threads : Adding(u)' => Adding(u) /\ tgt'[u] = tgt[u] /\ run'[u] = run[u]
    BY <1>25, <1>t, <1>u DEF Abort, Goto, Call, Return, AfterSignal, Suspends,
         ThreadTypeOK, CallInv, CallPCs, LoopPCs, AddPCs, SigPCs, threadVars, Adding
  <2> QED
    BY <2>1, <2>2, <2>3, RegFrame
<1>26. ASSUME Join PROVE RegInv'
  <2>1. UNCHANGED <<reg, fd, at>>
    BY <1>26 DEF Join, loopVars, coroVars
  <2>2. \A e \in Coros : st'[e] = "scheduled" => st[e] = "scheduled"
    BY <1>26, <1>u DEF Join, coroVars, CoroTypeOK
  <2>3. \A u \in Threads : Adding(u)' => Adding(u) /\ tgt'[u] = tgt[u] /\ run'[u] = run[u]
    BY <1>26, <1>t, <1>u DEF Join, Goto, Call, Return, AfterSignal, Suspends,
         ThreadTypeOK, CallInv, CallPCs, LoopPCs, AddPCs, SigPCs, threadVars, Adding
  <2> QED
    BY <2>1, <2>2, <2>3, RegFrame
<1>27. ASSUME Tick PROVE RegInv'
  <2>1. UNCHANGED <<reg, fd, at>>
    BY <1>27 DEF Tick, loopVars, coroVars
  <2>2. \A e \in Coros : st'[e] = "scheduled" => st[e] = "scheduled"
    BY <1>27, <1>u DEF Tick, coroVars, CoroTypeOK
  <2>3. \A u \in Threads : Adding(u)' => Adding(u) /\ tgt'[u] = tgt[u] /\ run'[u] = run[u]
    BY <1>27, <1>t, <1>u DEF Tick, Goto, Call, Return, AfterSignal, Suspends,
         ThreadTypeOK, CallInv, CallPCs, LoopPCs, AddPCs, SigPCs, threadVars, Adding
  <2> QED
    BY <2>1, <2>2, <2>3, RegFrame
<1>28. ASSUME NEW f \in Fds, FdReady(f) PROVE RegInv'
  <2>1. UNCHANGED <<reg, fd, at>>
    BY <1>28 DEF FdReady, loopVars, coroVars
  <2>2. \A e \in Coros : st'[e] = "scheduled" => st[e] = "scheduled"
    BY <1>28, <1>u DEF FdReady, coroVars, CoroTypeOK
  <2>3. \A u \in Threads : Adding(u)' => Adding(u) /\ tgt'[u] = tgt[u] /\ run'[u] = run[u]
    BY <1>28, <1>t, <1>u DEF FdReady, Goto, Call, Return, AfterSignal, Suspends,
         ThreadTypeOK, CallInv, CallPCs, LoopPCs, AddPCs, SigPCs, threadVars, Adding
  <2> QED
    BY <2>1, <2>2, <2>3, RegFrame
<1>29. ASSUME UNCHANGED vars PROVE RegInv'
  <2>1. UNCHANGED <<reg, fd, at>>
    BY <1>29 DEF vars, loopVars, coroVars, loopVars, coroVars
  <2>2. \A e \in Coros : st'[e] = "scheduled" => st[e] = "scheduled"
    BY <1>29, <1>u DEF vars, loopVars, coroVars, coroVars, CoroTypeOK
  <2>3. \A u \in Threads : Adding(u)' => Adding(u) /\ tgt'[u] = tgt[u] /\ run'[u] = run[u]
    BY <1>29, <1>t, <1>u
       DEF vars, loopVars, coroVars, Goto, Call, Return, AfterSignal, Suspends,
         ThreadTypeOK, CallInv, CallPCs, LoopPCs, AddPCs, SigPCs, threadVars, Adding
  <2> QED
    BY <2>1, <2>2, <2>3, RegFrame
<1> QED
  BY <1>1, <1>2, <1>3, <1>4, <1>5, <1>6, <1>7, <1>8, <1>9, <1>10, <1>11, <1>12,
     <1>13, <1>14, <1>15, <1>16, <1>17, <1>18, <1>19, <1>20, <1>21, <1>22,
     <1>23, <1>24, <1>25, <1>26, <1>27, <1>28, <1>29
     DEF Next, CallStep, LoopStep

\* With one waiter per descriptor, for any number of loops and coroutines: what
\* add(Event *) of thread.cpp has scheduled is in the epoll set of its loop
\* until handleEvent() or fireExpiredTimers() takes it out for that wait.
THEOREM StaysRegistered ==
    ASSUME ~SharedFds
    PROVE  Spec => []ScheduledIsRegistered
<1>1. Init => OwnershipInv /\ RegInv
  <2> SUFFICES ASSUME Init PROVE RegInv
    BY OwnershipInit
  <2> QED
    BY LoopAssumption
       DEF Init, RegInv, ScheduledIsRegistered, Adding, SigPCs, Threads
<1>2. OwnershipInv /\ RegInv /\ [Next]_vars => OwnershipInv' /\ RegInv'
  BY OwnershipStep, RegStep
<1>3. RegInv => ScheduledIsRegistered
  BY DEF RegInv
<1> QED
  BY <1>1, <1>2, <1>3, PTL DEF Spec

-----------------------------------------------------------------------------
(***************************************************************************)
(* What holds of the loops' timers where an Event with a deadline is only  *)
(* added by the loop that serves it (TimersGuarded): no loop follows the   *)
(* address of an awaiter whose wait is over, the load counters count the   *)
(* waits, and the timer lists are complete and in order.  Without the      *)
(* condition EraseOnlyMembers fails, and LinkInv with it: the theorems say *)
(* what the missing lock order costs.                                      *)
(***************************************************************************)

\* mill_list_erase takes one item out of the links, and joins its neighbours.
LEMMA EraseLinked ==
    ASSUME NEW m \in Links, NEW c \in Coros, Linked(m)
    PROVE  LET n == EraseLinks(m, c) IN
           /\ Linked(n)
           /\ n.next[c] = None /\ n.prev[c] = None
           /\ \A x \in Coros : x # c /\ m.next[x] # c => n.next[x] = m.next[x]
           /\ \A x \in Coros : x # c /\ m.prev[x] # c => n.prev[x] = m.prev[x]
           /\ \A x \in Coros : x # c /\ m.next[x] = c => n.next[x] = m.next[c]
           /\ \A x \in Coros : x # c /\ m.prev[x] = c => n.prev[x] = m.prev[c]
<1> DEFINE n == EraseLinks(m, c)
<1>1. m.next \in [Coros -> Coros \cup {None}]
          /\ m.prev \in [Coros -> Coros \cup {None}]
  BY DEF Links, Pointers
<1>2. \A x \in Coros : n.next[x] = IF x = c THEN None
                                  ELSE IF x = m.prev[c] THEN m.next[c]
                                      ELSE m.next[x]
  BY <1>1 DEF EraseLinks, Point
<1>3. \A x \in Coros : n.prev[x] = IF x = c THEN None
                                  ELSE IF x = m.next[c] THEN m.prev[c]
                                      ELSE m.prev[x]
  BY <1>1 DEF EraseLinks, Point
<1> HIDE DEF n
<1>4. Linked(n)
  BY <1>1, <1>2, <1>3, LoopAssumption DEF Linked
<1> QED
  BY <1>1, <1>2, <1>3, <1>4, LoopAssumption DEF n, Linked

\* mill_list_insert puts one item into the links, before it.
LEMMA InsertLinked ==
    ASSUME NEW s \in Lists, NEW m \in Links, NEW c \in Coros,
           NEW it \in Pointers,
           Linked(m), it # c, s.last # c, m.next[c] = None, m.prev[c] = None,
           it = None /\ s.last # None => m.next[s.last] = None
    PROVE  LET n == InsertLinks(s, Fresh(m, c), c, it)
               b == InsertPrev(s, m, it) IN
           /\ Linked(n)
           /\ b \in Pointers \ {c}
           /\ n.next[c] = it /\ n.prev[c] = b
           /\ \A x \in Coros :
                  n.next[x] = IF x = c THEN it ELSE IF x = b THEN c
                      ELSE m.next[x]
           /\ \A x \in Coros :
                  n.prev[x] = IF x = c THEN b ELSE IF x = it THEN c
                      ELSE m.prev[x]
<1> DEFINE n == InsertLinks(s, Fresh(m, c), c, it)
           b == InsertPrev(s, m, it)
<1>1. m.next \in [Coros -> Coros \cup {None}]
          /\ m.prev \in [Coros -> Coros \cup {None}]
  BY DEF Links, Pointers
<1>2. b \in Pointers \ {c} /\ b = InsertPrev(s, Fresh(m, c), it)
  BY <1>1, LoopAssumption DEF InsertPrev, Fresh, Linked, Lists, Pointers
<1>3. n = [next |-> Point([Fresh(m, c).next EXCEPT ![c] = it], b, c),
           prev |-> Point([Fresh(m, c).prev EXCEPT ![c] = b], it, c)]
  BY <1>2 DEF InsertLinks
<1> HIDE DEF b
<1>4. \A x \in Coros :
          n.next[x] = IF x = c THEN it ELSE IF x = b THEN c ELSE m.next[x]
  BY <1>1, <1>2, <1>3 DEF Fresh, Point
<1>5. \A x \in Coros :
          n.prev[x] = IF x = c THEN b ELSE IF x = it THEN c ELSE m.prev[x]
  BY <1>1, <1>2, <1>3 DEF Fresh, Point
<1>6. it \in Coros => b = m.prev[it]
  BY DEF b, InsertPrev
<1>7. it = None => b = None \/ m.next[b] = None
  BY LoopAssumption DEF b, InsertPrev, Lists, Pointers
<1> HIDE DEF n
<1>8. Linked(n)
  BY <1>1, <1>2, <1>4, <1>5, <1>6, <1>7, LoopAssumption DEF Linked, Pointers
<1> QED
  BY <1>2, <1>4, <1>5, <1>8 DEF n, b

\* A walk along a loop's list meets timers of waits that the loop serves.
LEMMA WalkedServed ==
    ASSUME TimerTypeOK, CoroTypeOK, LinkInv, NEW l \in Loops,
           NEW T \in SUBSET Coros
    PROVE  \A i \in Walked(timers[l], links, T) : armed[i] /\ at[i] = l
<1> DEFINE S == {i \in T : armed[i] /\ at[i] = l}
<1>1. timers[l].first \in T => timers[l].first \in S
  BY DEF LinkInv
<1>2. \A j \in S : links.next[j] \in T => links.next[j] \in S
  BY DEF LinkInv
<1>3. S \in SUBSET T
  OBVIOUS
<1> QED
  BY <1>1, <1>2, <1>3 DEF Walked

\* So does the place where addTimer stops its walk.
LEMMA StopsServed ==
    ASSUME TimerTypeOK, CoroTypeOK, LinkInv, NEW l \in Loops,
           NEW T \in SUBSET Coros,
           NEW it \in Stops(timers[l], links, T), it # None
    PROVE  /\ it \in Coros /\ armed[it] /\ at[it] = l
           /\ it = timers[l].first \/ links.prev[it] # None
<1>1. it \in Coros
  <2>1. timers[l] \in Lists /\ links \in Links
    BY DEF TimerTypeOK
  <2> QED
    BY <2>1, StopsArePointers DEF Pointers
<1>2. CASE it = timers[l].first
  BY <1>1, <1>2 DEF LinkInv
<1>3. CASE it # timers[l].first
  <2>1. PICK i \in Walked(timers[l], links, T) : it = links.next[i]
    BY <1>3 DEF Stops
  <2>2. i \in Coros
    BY DEF Walked
  <2>3. armed[i] /\ at[i] = l
    BY WalkedServed
  <2> QED
    BY <1>1, <2>1, <2>2, <2>3, LoopAssumption DEF LinkInv, Linked
<1> QED
  BY <1>2, <1>3

\* Erasing a timer that its loop serves, when no timer is off the list yet,
\* keeps the list, whether its wait ends with it or it is about to fire.
LEMMA EraseTimerKeeps ==
    ASSUME TimerTypeOK, CoroTypeOK, PollTypeOK, LinkInv, OffList,
           NEW l \in Loops, NEW c \in Coros, EraseTimer(l, c),
           armed[c], at[c] = l, expired[l] = None,
           \A x \in Coros : x # c => armed'[x] = armed[x] /\ at'[x] = at[x],
           \/ expired' = expired /\ ~armed'[c]
           \/ expired' = [expired EXCEPT ![l] = c] /\ armed'[c] /\ at'[c] = l
    PROVE  LinkInv' /\ OffList'
<1> DEFINE N(x) == links.next[x]
           P(x) == links.prev[x]
<1>1. timers \in [Loops -> Lists] /\ links \in Links /\ Linked(links)
  BY DEF TimerTypeOK, LinkInv
<1>2. /\ Linked(links')
      /\ links'.next[c] = None /\ links'.prev[c] = None
      /\ \A x \in Coros : x # c /\ N(x) # c => links'.next[x] = N(x)
      /\ \A x \in Coros : x # c /\ P(x) # c => links'.prev[x] = P(x)
      /\ \A x \in Coros : x # c /\ N(x) = c => links'.next[x] = N(c)
      /\ \A x \in Coros : x # c /\ P(x) = c => links'.prev[x] = P(c)
  BY <1>1, EraseLinked DEF EraseTimer
<1>3. /\ timers'[l].first = IF P(c) = None THEN N(c) ELSE timers[l].first
      /\ timers'[l].last = IF N(c) = None THEN P(c) ELSE timers[l].last
      /\ \A m \in Loops \ {l} : timers'[m] = timers[m]
  BY <1>1 DEF EraseTimer, EraseList
<1>4. \A x \in Coros : N(x) \in Coros \cup {None} /\ P(x) \in Coros \cup {None}
  BY <1>1 DEF Links, Pointers
<1>5. \A m \in Loops : timers[m].first \in Coros \cup {None}
          /\ timers[m].last \in Coros \cup {None}
  BY <1>1 DEF Lists, Pointers
<1>6. P(c) = None <=> timers[l].first = c
  BY LoopAssumption DEF LinkInv
<1>7. N(c) = None <=> timers[l].last = c
  BY LoopAssumption DEF LinkInv
<1>8. (P(c) = None => N(c) # c) /\ (N(c) = None => P(c) # c)
  BY <1>1, LoopAssumption DEF Linked
<1>a. at'[c] = l \/ ~armed'[c]
  OBVIOUS
<1> HIDE DEF N, P
<1>9. \A x, y \in Coros : links'.next[x] = y =>
          armed'[x] /\ armed'[y] /\ at'[x] = at'[y]
  <2> SUFFICES ASSUME NEW x \in Coros, NEW y \in Coros, links'.next[x] = y
               PROVE  armed'[x] /\ armed'[y] /\ at'[x] = at'[y]
    OBVIOUS
  <2>1. x # c /\ y # c
    BY <1>2, LoopAssumption DEF Linked
  <2>2. CASE N(x) # c
    BY <1>2, <2>1, <2>2 DEF LinkInv, N
  <2>3. CASE N(x) = c
    BY <1>2, <2>1, <2>3 DEF LinkInv, N
  <2> QED
    BY <2>2, <2>3
<1>10. \A m \in Loops : timers'[m].first = None <=> timers'[m].last = None
  BY <1>3, <1>4, <1>5, <1>6, <1>7, LoopAssumption DEF LinkInv
<1>11. \A m \in Loops : \A x \in Coros :
          timers'[m].first = x =>
              links'.prev[x] = None /\ armed'[x] /\ at'[x] = m
  <2> SUFFICES ASSUME NEW m \in Loops, NEW x \in Coros, timers'[m].first = x
               PROVE  links'.prev[x] = None /\ armed'[x] /\ at'[x] = m
    OBVIOUS
  <2>1. x # c
    BY <1>3, <1>6, <1>8 DEF LinkInv
  <2>2. CASE timers[m].first = x
    BY <1>2, <2>1, <2>2, LoopAssumption DEF LinkInv, P
  <2>3. CASE timers[m].first # x
    <3>1. m = l /\ P(c) = None /\ N(c) = x
      BY <1>3, <2>3
    <3> QED
      BY <1>1, <1>2, <2>1, <3>1 DEF LinkInv, Linked, N, P
  <2> QED
    BY <2>2, <2>3
<1>12. \A m \in Loops : \A x \in Coros :
          timers'[m].last = x =>
              links'.next[x] = None /\ armed'[x] /\ at'[x] = m
  <2> SUFFICES ASSUME NEW m \in Loops, NEW x \in Coros, timers'[m].last = x
               PROVE  links'.next[x] = None /\ armed'[x] /\ at'[x] = m
    OBVIOUS
  <2>1. x # c
    BY <1>3, <1>7, <1>8 DEF LinkInv
  <2>2. CASE timers[m].last = x
    BY <1>2, <2>1, <2>2, LoopAssumption DEF LinkInv, N
  <2>3. CASE timers[m].last # x
    <3>1. m = l /\ N(c) = None /\ P(c) = x
      BY <1>3, <2>3
    <3> QED
      BY <1>1, <1>2, <2>1, <3>1 DEF LinkInv, Linked, N, P
  <2> QED
    BY <2>2, <2>3
<1>13. \A m \in Loops : \A x \in Coros :
          armed'[x] /\ at'[x] = m /\ expired'[m] # x =>
             /\ links'.prev[x] = None => timers'[m].first = x
             /\ links'.next[x] = None => timers'[m].last = x
  <2> SUFFICES ASSUME NEW m \in Loops, NEW x \in Coros,
                      armed'[x], at'[x] = m, expired'[m] # x
               PROVE  /\ links'.prev[x] = None => timers'[m].first = x
                      /\ links'.next[x] = None => timers'[m].last = x
    OBVIOUS
  <2>1. x # c /\ expired[m] # x
    BY LoopAssumption DEF PollTypeOK
  <2>2. armed[x] /\ at[x] = m
    BY <2>1
  <2>3. ASSUME links'.prev[x] = None PROVE timers'[m].first = x
    <3>1. CASE P(x) = c
      BY <1>1, <1>2, <1>3, <1>4, <2>1, <2>2, <2>3, <3>1
         DEF LinkInv, Linked, N, P
    <3>2. CASE P(x) # c
      BY <1>2, <1>3, <1>6, <2>1, <2>2, <2>3, <3>2 DEF LinkInv, P
    <3> QED
      BY <3>1, <3>2
  <2>4. ASSUME links'.next[x] = None PROVE timers'[m].last = x
    <3>1. CASE N(x) = c
      BY <1>1, <1>2, <1>3, <1>4, <2>1, <2>2, <2>4, <3>1
         DEF LinkInv, Linked, N, P
    <3>2. CASE N(x) # c
      BY <1>2, <1>3, <1>7, <2>1, <2>2, <2>4, <3>2 DEF LinkInv, N
    <3> QED
      BY <3>1, <3>2
  <2> QED
    BY <2>3, <2>4
<1>14. LinkInv'
  BY <1>2, <1>9, <1>10, <1>11, <1>12, <1>13 DEF LinkInv
<1>15. OffList'
  <2> SUFFICES ASSUME NEW m \in Loops, expired'[m] # None
               PROVE  /\ armed'[expired'[m]] /\ at'[expired'[m]] = m
                      /\ links'.next[expired'[m]] = None
                             /\ links'.prev[expired'[m]] = None
                      /\ expired'[m] \notin {timers'[m].first, timers'[m].last}
    BY DEF OffList
  <2>1. CASE expired'[m] = c
    BY <1>2, <1>3, <1>5, <1>6, <1>7, <1>8, <1>11, <1>12, <2>1, LoopAssumption
       DEF OffList, LinkInv, PollTypeOK
  <2>2. CASE expired'[m] # c
    <3>1. expired[m] = expired'[m] /\ expired[m] \in Coros \ {c}
      BY <2>2 DEF PollTypeOK
    <3>2. N(expired[m]) = None /\ P(expired[m]) = None
      BY <3>1 DEF OffList, N, P
    <3>3. links'.next[expired[m]] = None /\ links'.prev[expired[m]] = None
      BY <1>2, <3>1, <3>2, LoopAssumption
    <3>4. m # l
      BY <3>1
    <3> QED
      BY <1>3, <3>1, <3>3, <3>4 DEF OffList
  <2> QED
    BY <2>1, <2>2
<1> QED
  BY <1>14, <1>15

\* Adding the timer of a wait that has just been given to the loop keeps the
\* list.
LEMMA AddTimerKeeps ==
    ASSUME TimerTypeOK, CoroTypeOK, PollTypeOK, LinkInv, OffList,
           NEW l \in Loops, NEW c \in Coros, NEW due \in Int, AddTimer(l, c,
           due),
           ~armed[c], at'[c] = l, UNCHANGED expired,
           \A x \in Coros : x # c => at'[x] = at[x]
    PROVE  LinkInv' /\ OffList'
<1> DEFINE T == {i \in Coros : dd[i] <= due}
<1>1. PICK it \in Stops(timers[l], links, T) :
          /\ timers' = [timers EXCEPT ![l] = InsertList(@, c, it)]
          /\ links' = InsertLinks(timers[l], Fresh(links, c), c, it)
  BY DEF AddTimer
<1>2. timers \in [Loops -> Lists] /\ links \in Links /\ Linked(links)
          /\ timers[l] \in Lists
  BY DEF TimerTypeOK, LinkInv
<1>3. it \in Pointers
  BY <1>1, <1>2, StopsArePointers
<1>4. it # None => /\ it \in Coros /\ armed[it] /\ at[it] = l
                   /\ it = timers[l].first \/ links.prev[it] # None
  <2>1. T \in SUBSET Coros
    OBVIOUS
  <2> HIDE DEF T
  <2> QED
    BY <2>1, StopsServed
<1>e. timers[l].first = None => it = None
  <2> SUFFICES ASSUME timers[l].first = None PROVE it = None
    OBVIOUS
  <2>1. None \notin T
    BY LoopAssumption
  <2>2. Walked(timers[l], links, T) = {}
    <3>1. {} \in SUBSET T
      OBVIOUS
    <3> QED
      BY <2>1, <3>1 DEF Walked
  <2> QED
    BY <1>1, <2>2 DEF Stops
<1> HIDE DEF T
<1>5. \A x \in Coros : links.next[x] \in Coros \cup {None}
          /\ links.prev[x] \in Coros \cup {None}
  BY <1>2 DEF Links, Pointers
<1>6. \A m \in Loops : timers[m].first \in Coros \cup {None}
          /\ timers[m].last \in Coros \cup {None}
  BY <1>2 DEF Lists, Pointers
<1>7. links.next[c] = None /\ links.prev[c] = None
  BY <1>5 DEF LinkInv, Linked
<1>8. it # c /\ timers[l].last # c /\ timers[l].first # c
  BY <1>4, LoopAssumption DEF LinkInv
<1>9. timers[l].last # None => links.next[timers[l].last] = None
  BY <1>6 DEF LinkInv
<1> DEFINE b == InsertPrev(timers[l], links, it)
<1>10. /\ Linked(links')
       /\ b \in Pointers \ {c}
       /\ links'.next[c] = it /\ links'.prev[c] = b
       /\ \A x \in Coros :
              links'.next[x] = IF x = c THEN it ELSE IF x = b THEN c
                  ELSE links.next[x]
       /\ \A x \in Coros :
              links'.prev[x] = IF x = c THEN b ELSE IF x = it THEN c
                  ELSE links.prev[x]
  BY <1>1, <1>2, <1>3, <1>7, <1>8, <1>9, InsertLinked
<1>11. /\ timers'[l].first = IF timers[l].first \in {None, it} THEN c
              ELSE timers[l].first
       /\ timers'[l].last = IF it = None THEN c ELSE timers[l].last
       /\ \A m \in Loops \ {l} : timers'[m] = timers[m]
  BY <1>1, <1>2 DEF InsertList
<1>12. armed'[c] /\ \A x \in Coros : x # c => armed'[x] = armed[x]
  BY DEF AddTimer, TimerTypeOK
<1>13. (it # None => b = links.prev[it]) /\ (it = None => b = timers[l].last)
  BY <1>4, LoopAssumption DEF InsertPrev
<1> HIDE DEF b
<1>14. b # None => b \in Coros /\ armed[b] /\ at[b] = l
  BY <1>2, <1>4, <1>5, <1>6, <1>10, <1>13 DEF LinkInv, Linked, Pointers
<1>15. it # None => expired[l] # it
  BY <1>4 DEF OffList
<1>16. b # None => expired[l] # b
  BY <1>2, <1>4, <1>13, <1>14, LoopAssumption DEF OffList, Linked
<1>17. b = None => timers[l].first \in {None, it}
  BY <1>4, <1>13, <1>15 DEF LinkInv
<1>18. timers[l].first \in {None, it} => b = None
  BY <1>e, <1>4, <1>6, <1>13, LoopAssumption DEF LinkInv
<1>20. \A x, y \in Coros : links'.next[x] = y =>
           armed'[x] /\ armed'[y] /\ at'[x] = at'[y]
  <2> SUFFICES ASSUME NEW x \in Coros, NEW y \in Coros, links'.next[x] = y
               PROVE  armed'[x] /\ armed'[y] /\ at'[x] = at'[y]
    OBVIOUS
  <2>1. CASE x = c
    BY <1>4, <1>8, <1>10, <1>12, <2>1, LoopAssumption
  <2>2. CASE x # c /\ x = b
    BY <1>10, <1>12, <1>14, <2>2, LoopAssumption
  <2>3. CASE x # c /\ x # b
    <3>1. links.next[x] = y /\ y # c
      BY <1>2, <1>7, <1>10, <2>3, LoopAssumption DEF Linked
    <3> QED
      BY <1>12, <2>3, <3>1 DEF LinkInv
  <2> QED
    BY <2>1, <2>2, <2>3
<1>21. \A m \in Loops : timers'[m].first = None <=> timers'[m].last = None
  BY <1>e, <1>4, <1>6, <1>11, LoopAssumption DEF LinkInv
<1>22. \A m \in Loops : \A x \in Coros :
          timers'[m].first = x =>
              links'.prev[x] = None /\ armed'[x] /\ at'[x] = m
  <2> SUFFICES ASSUME NEW m \in Loops, NEW x \in Coros, timers'[m].first = x
               PROVE  links'.prev[x] = None /\ armed'[x] /\ at'[x] = m
    OBVIOUS
  <2>1. CASE x = c
    BY <1>10, <1>11, <1>12, <1>18, <2>1 DEF LinkInv
  <2>2. CASE x # c
    <3>1. timers[m].first = x
      BY <1>11, <2>2
    <3>2. x # it
      BY <1>4, <1>11, <2>2, <3>1, LoopAssumption DEF LinkInv
    <3> QED
      BY <1>10, <1>12, <2>2, <3>1, <3>2 DEF LinkInv
  <2> QED
    BY <2>1, <2>2
<1>23. \A m \in Loops : \A x \in Coros :
          timers'[m].last = x =>
              links'.next[x] = None /\ armed'[x] /\ at'[x] = m
  <2> SUFFICES ASSUME NEW m \in Loops, NEW x \in Coros, timers'[m].last = x
               PROVE  links'.next[x] = None /\ armed'[x] /\ at'[x] = m
    OBVIOUS
  <2>1. CASE x = c
    BY <1>10, <1>11, <1>12, <2>1 DEF LinkInv
  <2>2. CASE x # c
    <3>1. timers[m].last = x /\ (m = l => it # None)
      BY <1>11, <2>2
    <3>2. x # b
      BY <1>2, <1>4, <1>13, <1>14, <3>1, LoopAssumption DEF LinkInv, Linked
    <3> QED
      BY <1>10, <1>12, <2>2, <3>1, <3>2 DEF LinkInv
  <2> QED
    BY <2>1, <2>2
<1>24. \A m \in Loops : \A x \in Coros :
          armed'[x] /\ at'[x] = m /\ expired'[m] # x =>
             /\ links'.prev[x] = None => timers'[m].first = x
             /\ links'.next[x] = None => timers'[m].last = x
  <2> SUFFICES ASSUME NEW m \in Loops, NEW x \in Coros,
                      armed'[x], at'[x] = m, expired'[m] # x
               PROVE  /\ links'.prev[x] = None => timers'[m].first = x
                      /\ links'.next[x] = None => timers'[m].last = x
    OBVIOUS
  <2>1. CASE x = c
    BY <1>10, <1>11, <1>17, <2>1
  <2>2. CASE x # c
    <3>1. armed[x] /\ at[x] = m /\ expired[m] # x
      BY <1>12, <2>2
    <3>2. links'.prev[x] = None => timers'[m].first = x
      BY <1>10, <1>11, <2>2, <3>1, LoopAssumption DEF LinkInv
    <3>3. links'.next[x] = None => timers'[m].last = x
      BY <1>10, <1>11, <1>13, <2>2, <3>1, LoopAssumption DEF LinkInv
    <3> QED
      BY <3>2, <3>3
  <2> QED
    BY <2>1, <2>2
<1>25. LinkInv'
  BY <1>10, <1>20, <1>21, <1>22, <1>23, <1>24 DEF LinkInv
<1>26. OffList'
  <2> SUFFICES ASSUME NEW m \in Loops, expired[m] # None
               PROVE  /\ armed'[expired[m]] /\ at'[expired[m]] = m
                      /\ links'.next[expired[m]] = None
                             /\ links'.prev[expired[m]] = None
                      /\ expired[m] \notin {timers'[m].first, timers'[m].last}
    BY DEF OffList
  <2>1. expired[m] \in Coros \ {c}
    BY DEF OffList, PollTypeOK
  <2>2. expired[m] # it /\ expired[m] # b
    BY <1>4, <1>14, <1>15, <1>16, <2>1, LoopAssumption DEF OffList
  <2> QED
    BY <1>10, <1>11, <1>12, <2>1, <2>2 DEF OffList
<1> QED
  BY <1>25, <1>26

\* So does every step that leaves the timers alone.
LEMMA LinkFrame ==
    ASSUME LinkInv, OffList, PollTypeOK, UNCHANGED <<timers, links, expired>>,
           \A x \in Coros : armed'[x] = armed[x] /\ (armed[x] =>
               at'[x] = at[x])
    PROVE  LinkInv' /\ OffList'
<1>1. LinkInv'
  BY DEF LinkInv, Linked
<1>2. OffList'
  BY LoopAssumption DEF OffList, PollTypeOK
<1> QED
  BY <1>1, <1>2

\* Every step keeps GuardInv when timed waits are added where they are served
\* (TimersGuarded): in AwaitFd the caller is the loop itself.
LEMMA GuardStep == TimersGuarded /\ IndInv /\ [Next]_vars => GuardInv'
<1> SUFFICES ASSUME TimersGuarded, IndInv, [Next]_vars PROVE GuardInv'
  OBVIOUS
<1>t. Loops \subseteq Threads /\ Main \in Threads /\ Main \notin Loops
  BY LoopAssumption DEF Threads
<1>u. /\ ThreadTypeOK
      /\ None \notin Coros /\ None \notin Loops /\ None \notin Fds
      /\ armed \in [Coros -> BOOLEAN]
      /\ CoroTypeOK
      /\ \A t \in Threads : ret[t] \in {"drain", "events", "timers", "main"}
  BY LoopAssumption DEF IndInv, OwnershipInv, TypeOK, ThreadTypeOK, TimerTypeOK
<1>i. CallInv /\ OwnerInv /\ GuardInv
  BY DEF IndInv, OwnershipInv
<1>1. ASSUME NEW t \in Threads, NEW c \in Coros, NEW l \in Loops,
             AwaitHop(t, c, l)
      PROVE GuardInv'
  BY <1>1, <1>t, <1>u, <1>i
     DEF AwaitHop, Suspends, Call, Goto, ThreadTypeOK, CoroTypeOK, CallInv,
         OwnerInv, ExclusiveResume, GuardInv, Holds, CallPCs, SigPCs, AddPCs,
         Never, pollVars, timerVars
<1>2. ASSUME NEW t \in Threads, NEW c \in Coros, NEW l \in Loops,
             NEW d \in DelayTimeouts, AwaitDelay(t, c, l, d)
      PROVE GuardInv'
  <2>1. armed' = [armed EXCEPT ![c] = TRUE]
    BY <1>2 DEF AwaitDelay, AddTimer
  <2> QED
    BY <1>2, <2>1, <1>t, <1>u, <1>i
       DEF AwaitDelay, Suspends, Call, Goto, ThreadTypeOK, CoroTypeOK, CallInv,
           OwnerInv, ExclusiveResume, GuardInv, Holds, CallPCs, SigPCs, AddPCs,
           Never, loopVars, pollVars
<1>3. ASSUME NEW t \in Threads, NEW c \in Coros, NEW l \in Loops,
             NEW f \in Fds, NEW d \in FdTimeouts, AwaitFd(t, c, l, f, d)
      PROVE GuardInv'
  <2>1. l = t \/ d = 0
    BY <1>3 DEF AwaitFd, Servers, TimersGuarded
  <2>2. d \in Nat /\ now \in Nat
    BY LoopAssumption DEF IndInv, OwnershipInv, TypeOK
  <2> QED
    BY <1>3, <2>1, <2>2, <1>t, <1>u, <1>i
       DEF AwaitFd, Suspends, Call, Goto, Registered, ThreadTypeOK, CoroTypeOK,
           CallInv, OwnerInv, ExclusiveResume, GuardInv, Holds, CallPCs,
           SigPCs, AddPCs, Never, pollVars
<1>4. ASSUME NEW t \in Threads, EpollMod(t)
      PROVE GuardInv'
  <2>1. CASE reg[tgt[t]][fd[run[t]]] # None
    BY <1>4, <2>1, <1>t, <1>u, <1>i
       DEF EpollMod, Return, Call, Goto, Registered, ThreadTypeOK, CoroTypeOK,
           CallInv, OwnerInv, ExclusiveResume, GuardInv, Holds, CallPCs,
           SigPCs, AddPCs, Never, pollVars, timerVars, coroVars
  <2>2. CASE reg[tgt[t]][fd[run[t]]] = None
    BY <1>4, <2>2, <1>t, <1>u, <1>i
       DEF EpollMod, Return, Call, Goto, Registered, ThreadTypeOK, CoroTypeOK,
           CallInv, OwnerInv, ExclusiveResume, GuardInv, Holds, CallPCs,
           SigPCs, AddPCs, Never, pollVars, timerVars, coroVars
  <2> QED
    BY <1>4, <2>1, <2>2 DEF EpollMod
<1>5. ASSUME NEW t \in Threads, AddEventTimer(t)
      PROVE GuardInv'
  <2>1. armed' = [armed EXCEPT ![run[t]] = TRUE]
    BY <1>5 DEF AddEventTimer, AddTimer
  <2> QED
    BY <1>5, <2>1, <1>t, <1>u, <1>i
       DEF AddEventTimer, Goto, ThreadTypeOK, CoroTypeOK, CallInv, OwnerInv,
           ExclusiveResume, GuardInv, Holds, CallPCs, SigPCs, AddPCs, Never,
           loopVars, pollVars, coroVars
<1>6. ASSUME NEW t \in Threads, SetScheduled(t)
      PROVE GuardInv'
  BY <1>6, <1>t, <1>u, <1>i
     DEF SetScheduled, Goto, ThreadTypeOK, CoroTypeOK, CallInv, OwnerInv,
         ExclusiveResume, GuardInv, Holds, CallPCs, SigPCs, AddPCs, Never,
         loopVars, pollVars, timerVars
<1>7. ASSUME NEW t \in Threads, Record(t)
      PROVE GuardInv'
  <2>1. CASE op[t] = "hop"
    BY <1>7, <2>1, <1>t, <1>u, <1>i
       DEF Record, Return, Call, Goto, ThreadTypeOK, CoroTypeOK, CallInv,
           OwnerInv, ExclusiveResume, GuardInv, Holds, CallPCs, SigPCs, AddPCs,
           Never, loopVars, pollVars, timerVars, coroVars
  <2>2. CASE op[t] # "hop"
    BY <1>7, <2>2, <1>t, <1>u, <1>i
       DEF Record, Return, Call, Goto, ThreadTypeOK, CoroTypeOK, CallInv,
           OwnerInv, ExclusiveResume, GuardInv, Holds, CallPCs, SigPCs, AddPCs,
           Never, loopVars, pollVars, timerVars, coroVars
  <2> QED
    BY <1>7, <2>1, <2>2 DEF Record
<1>8. ASSUME NEW t \in Threads, SignalCas(t)
      PROVE GuardInv'
  <2>1. CASE ~signaling[tgt[t]]
    BY <1>8, <2>1, <1>t, <1>u, <1>i
       DEF SignalCas, AfterSignal, Return, Call, Goto, ThreadTypeOK,
           CoroTypeOK, CallInv, OwnerInv, ExclusiveResume, GuardInv, Holds,
           CallPCs, SigPCs, AddPCs, Never, pollVars, timerVars, coroVars
  <2>2. CASE signaling[tgt[t]] /\ op[t] = "hop"
    BY <1>8, <2>2, <1>t, <1>u, <1>i
       DEF SignalCas, AfterSignal, Return, Call, Goto, ThreadTypeOK,
           CoroTypeOK, CallInv, OwnerInv, ExclusiveResume, GuardInv, Holds,
           CallPCs, SigPCs, AddPCs, Never, pollVars, timerVars, coroVars
  <2>3. CASE signaling[tgt[t]] /\ op[t] = "delay"
    BY <1>8, <2>3, <1>t, <1>u, <1>i
       DEF SignalCas, AfterSignal, Return, Call, Goto, ThreadTypeOK,
           CoroTypeOK, CallInv, OwnerInv, ExclusiveResume, GuardInv, Holds,
           CallPCs, SigPCs, AddPCs, Never, pollVars, timerVars, coroVars
  <2>4. CASE signaling[tgt[t]] /\ op[t] = "fd"
    BY <1>8, <2>4, <1>t, <1>u, <1>i
       DEF SignalCas, AfterSignal, Return, Call, Goto, ThreadTypeOK,
           CoroTypeOK, CallInv, OwnerInv, ExclusiveResume, GuardInv, Holds,
           CallPCs, SigPCs, AddPCs, Never, pollVars, timerVars, coroVars
  <2>5. CASE signaling[tgt[t]] /\ op[t] = "abort"
    BY <1>8, <2>5, <1>t, <1>u, <1>i
       DEF SignalCas, AfterSignal, Return, Call, Goto, ThreadTypeOK,
           CoroTypeOK, CallInv, OwnerInv, ExclusiveResume, GuardInv, Holds,
           CallPCs, SigPCs, AddPCs, Never, pollVars, timerVars, coroVars
  <2> QED
    BY <1>8, <2>1, <2>2, <2>3, <2>4, <2>5 DEF SignalCas, AfterSignal
<1>9. ASSUME NEW t \in Threads, SignalWrite(t)
      PROVE GuardInv'
  BY <1>9, <1>t, <1>u, <1>i
     DEF SignalWrite, Goto, ThreadTypeOK, CoroTypeOK, CallInv, OwnerInv,
         ExclusiveResume, GuardInv, Holds, CallPCs, SigPCs, AddPCs, Never,
         pollVars, timerVars, coroVars
<1>10. ASSUME NEW t \in Threads, SignalReset(t)
      PROVE GuardInv'
  <2>1. CASE op[t] = "hop"
    BY <1>10, <2>1, <1>t, <1>u, <1>i
       DEF SignalReset, AfterSignal, Return, Call, Goto, ThreadTypeOK,
           CoroTypeOK, CallInv, OwnerInv, ExclusiveResume, GuardInv, Holds,
           CallPCs, SigPCs, AddPCs, Never, pollVars, timerVars, coroVars
  <2>2. CASE op[t] = "delay"
    BY <1>10, <2>2, <1>t, <1>u, <1>i
       DEF SignalReset, AfterSignal, Return, Call, Goto, ThreadTypeOK,
           CoroTypeOK, CallInv, OwnerInv, ExclusiveResume, GuardInv, Holds,
           CallPCs, SigPCs, AddPCs, Never, pollVars, timerVars, coroVars
  <2>3. CASE op[t] = "fd"
    BY <1>10, <2>3, <1>t, <1>u, <1>i
       DEF SignalReset, AfterSignal, Return, Call, Goto, ThreadTypeOK,
           CoroTypeOK, CallInv, OwnerInv, ExclusiveResume, GuardInv, Holds,
           CallPCs, SigPCs, AddPCs, Never, pollVars, timerVars, coroVars
  <2>4. CASE op[t] = "abort"
    BY <1>10, <2>4, <1>t, <1>u, <1>i
       DEF SignalReset, AfterSignal, Return, Call, Goto, ThreadTypeOK,
           CoroTypeOK, CallInv, OwnerInv, ExclusiveResume, GuardInv, Holds,
           CallPCs, SigPCs, AddPCs, Never, pollVars, timerVars, coroVars
  <2> QED
    BY <1>10, <2>1, <2>2, <2>3, <2>4 DEF SignalReset, AfterSignal
<1>11. ASSUME NEW t \in Threads, Finish(t)
      PROVE GuardInv'
  BY <1>11, <1>t, <1>u, <1>i
     DEF Finish, Goto, ThreadTypeOK, CoroTypeOK, CallInv, OwnerInv,
         ExclusiveResume, GuardInv, Holds, CallPCs, SigPCs, AddPCs, Never,
         loopVars, pollVars, timerVars
<1>12. ASSUME NEW l \in Loops, LoopTop(l)
      PROVE GuardInv'
  BY <1>12, <1>t, <1>u, <1>i
     DEF LoopTop, Goto, ThreadTypeOK, CoroTypeOK, CallInv, OwnerInv,
         ExclusiveResume, GuardInv, Holds, CallPCs, SigPCs, AddPCs, Never,
         timerVars, coroVars
<1>13. ASSUME NEW l \in Loops, EpollWait(l)
      PROVE GuardInv'
  BY <1>13, <1>t, <1>u, <1>i
     DEF EpollWait, EpollReturns, Polled, Goto, ThreadTypeOK, CoroTypeOK,
         CallInv, OwnerInv, ExclusiveResume, GuardInv, Holds, CallPCs, SigPCs,
         AddPCs, Never, timerVars, coroVars
<1>14. ASSUME NEW l \in Loops, Interrupted(l)
      PROVE GuardInv'
  BY <1>14, <1>t, <1>u, <1>i
     DEF Interrupted, EpollReturns, Goto, ThreadTypeOK, CoroTypeOK, CallInv,
         OwnerInv, ExclusiveResume, GuardInv, Holds, CallPCs, SigPCs, AddPCs,
         Never, timerVars, coroVars
<1>15. ASSUME NEW l \in Loops, NEW c \in Coros, ResumeScheduled(l, c)
      PROVE GuardInv'
  BY <1>15, <1>t, <1>u, <1>i
     DEF ResumeScheduled, Resume, Goto, ThreadTypeOK, CoroTypeOK, CallInv,
         OwnerInv, ExclusiveResume, GuardInv, Holds, CallPCs, SigPCs, AddPCs,
         Never, pollVars, timerVars
<1>16. ASSUME NEW l \in Loops, DrainEnd(l)
      PROVE GuardInv'
  BY <1>16, <1>t, <1>u, <1>i
     DEF DrainEnd, Goto, ThreadTypeOK, CoroTypeOK, CallInv, OwnerInv,
         ExclusiveResume, GuardInv, Holds, CallPCs, SigPCs, AddPCs, Never,
         loopVars, pollVars, timerVars, coroVars
<1>17. ASSUME NEW l \in Loops, HandleThreadEvent(l)
      PROVE GuardInv'
  BY <1>17, <1>t, <1>u, <1>i
     DEF HandleThreadEvent, NextEvent, ThreadTypeOK, CoroTypeOK, CallInv,
         OwnerInv, ExclusiveResume, GuardInv, Holds, CallPCs, SigPCs, AddPCs,
         Never, timerVars, coroVars, threadVars
<1>18. ASSUME NEW l \in Loops, NEW c \in Coros, HandleEvent(l, c)
      PROVE GuardInv'
  BY <1>18, <1>t, <1>u, <1>i
     DEF HandleEvent, NextEvent, Claims, Unregister, Resume, Goto,
         ThreadTypeOK, CoroTypeOK, CallInv, OwnerInv, ExclusiveResume,
         GuardInv, Holds, CallPCs, SigPCs, AddPCs, Never
<1>19. ASSUME NEW l \in Loops, NEW c \in Coros, SkipEvent(l, c)
      PROVE GuardInv'
  BY <1>19, <1>t, <1>u, <1>i
     DEF SkipEvent, NextEvent, Claims, ThreadTypeOK, CoroTypeOK, CallInv,
         OwnerInv, ExclusiveResume, GuardInv, Holds, CallPCs, SigPCs, AddPCs,
         Never, timerVars, coroVars, threadVars
<1>20. ASSUME NEW l \in Loops, EventsEnd(l)
      PROVE GuardInv'
  BY <1>20, <1>t, <1>u, <1>i
     DEF EventsEnd, Goto, ThreadTypeOK, CoroTypeOK, CallInv, OwnerInv,
         ExclusiveResume, GuardInv, Holds, CallPCs, SigPCs, AddPCs, Never,
         timerVars, coroVars
<1>21. ASSUME NEW l \in Loops, TakeExpiredTimer(l)
      PROVE GuardInv'
  BY <1>21, <1>t, <1>u, <1>i
     DEF TakeExpiredTimer, Expired, Goto, ThreadTypeOK, CoroTypeOK, CallInv,
         OwnerInv, ExclusiveResume, GuardInv, Holds, CallPCs, SigPCs, AddPCs,
         Never, coroVars
<1>22. ASSUME NEW l \in Loops, NEW c \in Coros, FireTimer(l, c)
      PROVE GuardInv'
  BY <1>22, <1>t, <1>u, <1>i
     DEF FireTimer, Claims, Unregister, Resume, Goto, ThreadTypeOK, CoroTypeOK,
         CallInv, OwnerInv, ExclusiveResume, GuardInv, Holds, CallPCs, SigPCs,
         AddPCs, Never
<1>23. ASSUME NEW l \in Loops, DropTimer(l)
      PROVE GuardInv'
  BY <1>23, <1>t, <1>u, <1>i
     DEF DropTimer, Claims, Goto, ThreadTypeOK, CoroTypeOK, CallInv, OwnerInv,
         ExclusiveResume, GuardInv, Holds, CallPCs, SigPCs, AddPCs, Never,
         timerVars, coroVars
<1>24. ASSUME NEW l \in Loops, TimersEnd(l)
      PROVE GuardInv'
  BY <1>24, <1>t, <1>u, <1>i
     DEF TimersEnd, Goto, ThreadTypeOK, CoroTypeOK, CallInv, OwnerInv,
         ExclusiveResume, GuardInv, Holds, CallPCs, SigPCs, AddPCs, Never,
         timerVars, coroVars
<1>25. ASSUME NEW c \in Coros, Start(c)
      PROVE GuardInv'
  BY <1>25, <1>t, <1>u, <1>i
     DEF Start, Goto, ThreadTypeOK, CoroTypeOK, CallInv, OwnerInv,
         ExclusiveResume, GuardInv, Holds, CallPCs, SigPCs, AddPCs, Never,
         loopVars, pollVars, timerVars
<1>26. ASSUME NEW l \in Loops, Abort(l)
      PROVE GuardInv'
  BY <1>26, <1>t, <1>u, <1>i
     DEF Abort, Call, Goto, ThreadTypeOK, CoroTypeOK, CallInv, OwnerInv,
         ExclusiveResume, GuardInv, Holds, CallPCs, SigPCs, AddPCs, Never,
         pollVars, timerVars, coroVars
<1>27. ASSUME Join
      PROVE GuardInv'
  BY <1>27, <1>t, <1>u, <1>i
     DEF Join, Return, Call, Goto, ThreadTypeOK, CoroTypeOK, CallInv, OwnerInv,
         ExclusiveResume, GuardInv, Holds, CallPCs, SigPCs, AddPCs, Never,
         loopVars, pollVars, timerVars, coroVars
<1>28. ASSUME Tick
      PROVE GuardInv'
  BY <1>28, <1>t, <1>u, <1>i
     DEF Tick, ThreadTypeOK, CoroTypeOK, CallInv, OwnerInv, ExclusiveResume,
         GuardInv, Holds, CallPCs, SigPCs, AddPCs, Never, loopVars, pollVars,
         timerVars, coroVars, threadVars
<1>29. ASSUME NEW f \in Fds, FdReady(f)
      PROVE GuardInv'
  BY <1>29, <1>t, <1>u, <1>i
     DEF FdReady, ThreadTypeOK, CoroTypeOK, CallInv, OwnerInv, ExclusiveResume,
         GuardInv, Holds, CallPCs, SigPCs, AddPCs, Never, loopVars, pollVars,
         timerVars, coroVars, threadVars
<1>s. CASE UNCHANGED vars
  BY <1>s, <1>t, <1>u, <1>i
     DEF vars, ThreadTypeOK, CoroTypeOK, CallInv, OwnerInv, ExclusiveResume,
         GuardInv, Holds, CallPCs, SigPCs, AddPCs, Never, loopVars, pollVars,
         timerVars, coroVars, threadVars
<1> QED
  BY <1>1, <1>2, <1>3, <1>4, <1>5, <1>6, <1>7, <1>8, <1>9, <1>10, <1>11, <1>12,
     <1>13, <1>14, <1>15, <1>16, <1>17, <1>18, <1>19, <1>20, <1>21, <1>22,
     <1>23, <1>24, <1>25, <1>26, <1>27, <1>28, <1>29, <1>s
     DEF Next, CallStep, LoopStep

\* Every step keeps the timer lists linked, and the timer that is about to fire
\* off them.  DropTimer cannot happen: a timer on a list is of a scheduled wait
\* by the time its loop fires timers.
LEMMA LinkStep ==
    TimersGuarded /\ IndInv /\ [Next]_vars => (LinkInv /\ OffList)'
<1> SUFFICES ASSUME TimersGuarded, IndInv, [Next]_vars PROVE (LinkInv
    /\ OffList)'
  OBVIOUS
<1>u. /\ TimerTypeOK /\ CoroTypeOK /\ PollTypeOK /\ ThreadTypeOK
      /\ LinkInv /\ OffList
      /\ None \notin Coros /\ None \notin Loops
  BY LoopAssumption DEF IndInv, OwnershipInv, TypeOK
<1>i. CallInv /\ OwnerInv /\ GuardInv /\ ExpiredInv
  BY DEF IndInv, OwnershipInv
<1>1. ASSUME NEW t \in Threads, NEW c \in Coros, NEW l \in Loops,
             AwaitHop(t, c, l)
      PROVE (LinkInv /\ OffList)'
  BY <1>1, <1>u, LinkFrame
     DEF AwaitHop, Suspends, Call, Goto, pollVars, timerVars
<1>2. ASSUME NEW t \in Threads, NEW c \in Coros, NEW l \in Loops,
             NEW d \in DelayTimeouts, AwaitDelay(t, c, l, d)
      PROVE (LinkInv /\ OffList)'
  <2>1. ~armed[c] /\ now + d \in Int
    BY <1>2, <1>i, <1>u, LoopAssumption
       DEF AwaitDelay, Suspends, OwnerInv, Threads, ThreadTypeOK, IndInv,
           OwnershipInv, TypeOK
  <2>2. at' = [at EXCEPT ![c] = l] /\ UNCHANGED expired
            /\ AddTimer(l, c, now + d)
    BY <1>2 DEF AwaitDelay, loopVars, pollVars
  <2>3. at'[c] = l /\ \A x \in Coros : x # c => at'[x] = at[x]
    BY <1>u, <2>2 DEF CoroTypeOK
  <2> QED
    BY <1>u, <2>1, <2>2, <2>3, AddTimerKeeps
<1>3. ASSUME NEW t \in Threads, NEW c \in Coros, NEW l \in Loops,
             NEW f \in Fds, NEW d \in FdTimeouts, AwaitFd(t, c, l, f, d)
      PROVE (LinkInv /\ OffList)'
  <2>1. ~armed[c]
    BY <1>3, <1>i, <1>u DEF AwaitFd, Suspends, OwnerInv
  <2>2. \A x \in Coros : armed'[x] = armed[x] /\ (armed[x] => at'[x] = at[x])
    BY <1>3, <1>u, <2>1 DEF AwaitFd, TimerTypeOK, CoroTypeOK
  <2> QED
    BY <1>3, <1>u, <2>2, LinkFrame DEF AwaitFd, pollVars
<1>4. ASSUME NEW t \in Threads, EpollMod(t)
      PROVE (LinkInv /\ OffList)'
  BY <1>4, <1>u, LinkFrame
     DEF EpollMod, Return, Call, Goto, Registered, pollVars, timerVars,
         coroVars
<1>5. ASSUME NEW t \in Threads, AddEventTimer(t)
      PROVE (LinkInv /\ OffList)'
  <2> DEFINE c == run[t]
             l == tgt[t]
  <2>1. c \in Coros /\ l \in Loops /\ at[c] = l /\ ~armed[c] /\ dd[c] \in Int
    BY <1>5, <1>i, <1>u
       DEF AddEventTimer, CallInv, OwnerInv, Holds, AddPCs, SigPCs, CallPCs,
           ThreadTypeOK, CoroTypeOK
  <2>2. UNCHANGED <<at, expired>> /\ AddTimer(l, c, dd[c])
    BY <1>5 DEF AddEventTimer, loopVars, pollVars, coroVars
  <2> HIDE DEF c, l
  <2>3. at'[c] = l /\ \A x \in Coros : x # c => at'[x] = at[x]
    BY <2>1, <2>2
  <2> QED
    BY <1>u, <2>1, <2>2, <2>3, AddTimerKeeps
<1>6. ASSUME NEW t \in Threads, SetScheduled(t)
      PROVE (LinkInv /\ OffList)'
  BY <1>6, <1>u, LinkFrame
     DEF SetScheduled, Goto, loopVars, pollVars, timerVars
<1>7. ASSUME NEW t \in Threads, Record(t)
      PROVE (LinkInv /\ OffList)'
  BY <1>7, <1>u, LinkFrame
     DEF Record, Return, Call, Goto, loopVars, pollVars, timerVars, coroVars
<1>8. ASSUME NEW t \in Threads, SignalCas(t)
      PROVE (LinkInv /\ OffList)'
  BY <1>8, <1>u, LinkFrame
     DEF SignalCas, AfterSignal, Return, Call, Goto, pollVars, timerVars,
         coroVars
<1>9. ASSUME NEW t \in Threads, SignalWrite(t)
      PROVE (LinkInv /\ OffList)'
  BY <1>9, <1>u, LinkFrame DEF SignalWrite, Goto, pollVars, timerVars, coroVars
<1>10. ASSUME NEW t \in Threads, SignalReset(t)
      PROVE (LinkInv /\ OffList)'
  BY <1>10, <1>u, LinkFrame
     DEF SignalReset, AfterSignal, Return, Call, Goto, pollVars, timerVars,
         coroVars
<1>11. ASSUME NEW t \in Threads, Finish(t)
      PROVE (LinkInv /\ OffList)'
  BY <1>11, <1>u, LinkFrame DEF Finish, Goto, loopVars, pollVars, timerVars
<1>12. ASSUME NEW l \in Loops, LoopTop(l)
      PROVE (LinkInv /\ OffList)'
  BY <1>12, <1>u, LinkFrame DEF LoopTop, Goto, timerVars, coroVars
<1>13. ASSUME NEW l \in Loops, EpollWait(l)
      PROVE (LinkInv /\ OffList)'
  BY <1>13, <1>u, LinkFrame
     DEF EpollWait, EpollReturns, Polled, Goto, timerVars, coroVars
<1>14. ASSUME NEW l \in Loops, Interrupted(l)
      PROVE (LinkInv /\ OffList)'
  BY <1>14, <1>u, LinkFrame
     DEF Interrupted, EpollReturns, Goto, timerVars, coroVars
<1>15. ASSUME NEW l \in Loops, NEW c \in Coros, ResumeScheduled(l, c)
      PROVE (LinkInv /\ OffList)'
  <2>1. ~armed[c]
    BY <1>15, <1>i DEF ResumeScheduled, OwnerInv
  <2> QED
    BY <1>15, <1>u, <2>1, LinkFrame
       DEF ResumeScheduled, Resume, timerVars, pollVars, CoroTypeOK
<1>16. ASSUME NEW l \in Loops, DrainEnd(l)
      PROVE (LinkInv /\ OffList)'
  BY <1>16, <1>u, LinkFrame
     DEF DrainEnd, Goto, loopVars, pollVars, timerVars, coroVars
<1>17. ASSUME NEW l \in Loops, HandleThreadEvent(l)
      PROVE (LinkInv /\ OffList)'
  BY <1>17, <1>u, LinkFrame
     DEF HandleThreadEvent, NextEvent, threadVars, timerVars, coroVars
<1>18. ASSUME NEW l \in Loops, NEW c \in Coros, HandleEvent(l, c)
      PROVE (LinkInv /\ OffList)'
  <2>1. expired[l] = None /\ at[c] = l
    BY <1>18, <1>i, <1>u
       DEF HandleEvent, NextEvent, ExpiredInv, IndInv, NoDanglingEvent
  <2>2. /\ at' = [at EXCEPT ![c] = None]
               /\ armed' = [armed EXCEPT ![c] = FALSE]
        /\ expired' = expired
    BY <1>18 DEF HandleEvent, Resume
  <2>3. ~armed'[c] /\ \A x \in Coros : x # c =>
            armed'[x] = armed[x] /\ at'[x] = at[x]
    BY <1>u, <2>2 DEF CoroTypeOK, TimerTypeOK
  <2>4. CASE armed[c]
    <3>1. EraseTimer(l, c)
      BY <1>18, <2>4 DEF HandleEvent
    <3> QED
      BY <1>u, <2>1, <2>2, <2>3, <2>4, <3>1, EraseTimerKeeps
  <2>5. CASE ~armed[c]
    <3>1. UNCHANGED <<timers, links>>
      BY <1>18, <2>5 DEF HandleEvent
    <3>2. \A x \in Coros : armed'[x] = armed[x]
      BY <1>u, <2>2, <2>5 DEF TimerTypeOK
    <3> QED
      BY <1>u, <2>2, <2>3, <2>5, <3>1, <3>2, LinkFrame
  <2> QED
    BY <2>4, <2>5
<1>19. ASSUME NEW l \in Loops, NEW c \in Coros, SkipEvent(l, c)
      PROVE (LinkInv /\ OffList)'
  BY <1>19, <1>u, LinkFrame
     DEF SkipEvent, NextEvent, Claims, threadVars, timerVars, coroVars
<1>20. ASSUME NEW l \in Loops, EventsEnd(l)
      PROVE (LinkInv /\ OffList)'
  BY <1>20, <1>u, LinkFrame DEF EventsEnd, Goto, timerVars, coroVars
<1>21. ASSUME NEW l \in Loops, TakeExpiredTimer(l)
      PROVE (LinkInv /\ OffList)'
  <2> DEFINE c == timers[l].first
  <2>1. c \in Coros
    BY <1>21, <1>u DEF TakeExpiredTimer, Expired, TimerTypeOK, Lists, Pointers
  <2>2. expired[l] = None /\ armed[c] /\ at[c] = l
    BY <1>21, <1>i, <1>u, <2>1 DEF TakeExpiredTimer, ExpiredInv, LinkInv
  <2>3. EraseTimer(l, c) /\ UNCHANGED <<armed, at>>
            /\ expired' = [expired EXCEPT ![l] = c]
    BY <1>21 DEF TakeExpiredTimer, coroVars
  <2> HIDE DEF c
  <2>4. armed'[c] /\ at'[c] = l /\ \A x \in Coros : x # c =>
            armed'[x] = armed[x] /\ at'[x] = at[x]
    BY <2>2, <2>3
  <2> QED
    BY <1>u, <2>1, <2>2, <2>3, <2>4, EraseTimerKeeps
<1>22. ASSUME NEW l \in Loops, NEW c \in Coros, FireTimer(l, c)
      PROVE (LinkInv /\ OffList)'
  <2>1. c # None /\ UNCHANGED <<timers, links>>
    BY <1>22, <1>u DEF FireTimer
  <2>2. at' = [at EXCEPT ![c] = None] /\ armed' = [armed EXCEPT ![c] = FALSE]
    BY <1>22 DEF FireTimer, Resume
  <2>3. expired' = [expired EXCEPT ![l] = None] /\ expired[l] = c
    BY <1>22 DEF FireTimer
  <2>4. ~armed'[c] /\ \A x \in Coros : x # c =>
            armed'[x] = armed[x] /\ at'[x] = at[x]
    BY <1>u, <2>2 DEF CoroTypeOK, TimerTypeOK
  <2>5. /\ at[c] = l /\ links.next[c] = None /\ links.prev[c] = None
        /\ timers[l].first # c /\ timers[l].last # c
    BY <1>u, <2>1, <2>3 DEF OffList
  <2>6. /\ \A m \in Loops : timers[m].first # c /\ timers[m].last # c
        /\ \A x \in Coros : links.next[x] # c /\ links.prev[x] # c
    BY <1>u, <2>5 DEF LinkInv, Linked
  <2>7. \A m \in Loops : expired'[m] = IF m = l THEN None ELSE expired[m]
    BY <1>u, <2>3 DEF PollTypeOK
  <2>8. \A m \in Loops : m # l => expired[m] # c
    BY <1>u, <2>1, <2>5 DEF OffList
  <2>9. LinkInv'
    <3>1. Linked(links')
      BY <1>u, <2>1 DEF LinkInv, Linked
    <3>2. \A x, y \in Coros : links'.next[x] = y =>
              armed'[x] /\ armed'[y] /\ at'[x] = at'[y]
      BY <1>u, <2>1, <2>4, <2>5, <2>6 DEF LinkInv
    <3>3. \A m \in Loops : timers'[m].first = None <=> timers'[m].last = None
      BY <1>u, <2>1 DEF LinkInv
    <3>4. \A m \in Loops : \A x \in Coros :
             /\ timers'[m].first = x =>
                    links'.prev[x] = None /\ armed'[x] /\ at'[x] = m
             /\ timers'[m].last = x =>
                    links'.next[x] = None /\ armed'[x] /\ at'[x] = m
      BY <1>u, <2>1, <2>4, <2>6 DEF LinkInv
    <3>5. \A m \in Loops : \A x \in Coros : armed'[x] /\ at'[x] = m
              /\ expired'[m] # x =>
             /\ links'.prev[x] = None => timers'[m].first = x
             /\ links'.next[x] = None => timers'[m].last = x
      BY <1>u, <2>1, <2>3, <2>4, <2>7 DEF LinkInv
    <3> QED
      BY <3>1, <3>2, <3>3, <3>4, <3>5 DEF LinkInv
  <2>10. OffList'
    BY <1>u, <2>1, <2>4, <2>7, <2>8 DEF OffList, PollTypeOK
  <2> QED
    BY <2>9, <2>10
<1>23. ASSUME NEW l \in Loops, DropTimer(l)
      PROVE (LinkInv /\ OffList)'
  <2>1. expired[l] \in Coros /\ pc[l] = "fire"
    BY <1>23, <1>i, <1>u DEF DropTimer, CallInv, PollTypeOK, Threads
  <2>2. armed[expired[l]] /\ at[expired[l]] = l
    BY <1>u, <2>1 DEF OffList
  <2>3. run[l] = None
    BY <1>i, <2>1 DEF CallInv, Holds, SigPCs, AddPCs, Threads
  <2>4. st[expired[l]] = "scheduled"
    BY <1>i, <1>u, <2>1, <2>2, <2>3 DEF GuardInv
  <2> QED
    BY <1>23, <2>4 DEF DropTimer, Claims
<1>24. ASSUME NEW l \in Loops, TimersEnd(l)
      PROVE (LinkInv /\ OffList)'
  BY <1>24, <1>u, LinkFrame DEF TimersEnd, Goto, timerVars, coroVars
<1>25. ASSUME NEW c \in Coros, Start(c)
      PROVE (LinkInv /\ OffList)'
  BY <1>25, <1>u, LinkFrame DEF Start, Goto, loopVars, pollVars, timerVars
<1>26. ASSUME NEW l \in Loops, Abort(l)
      PROVE (LinkInv /\ OffList)'
  BY <1>26, <1>u, LinkFrame
     DEF Abort, Call, Goto, pollVars, timerVars, coroVars
<1>27. ASSUME Join
      PROVE (LinkInv /\ OffList)'
  BY <1>27, <1>u, LinkFrame
     DEF Join, Return, Call, Goto, loopVars, pollVars, timerVars, coroVars
<1>28. ASSUME Tick
      PROVE (LinkInv /\ OffList)'
  BY <1>28, <1>u, LinkFrame
     DEF Tick, threadVars, loopVars, pollVars, timerVars, coroVars
<1>29. ASSUME NEW f \in Fds, FdReady(f)
      PROVE (LinkInv /\ OffList)'
  BY <1>29, <1>u, LinkFrame
     DEF FdReady, threadVars, loopVars, pollVars, timerVars, coroVars
<1>s. CASE UNCHANGED vars
  BY <1>s, <1>u, LinkFrame
     DEF vars, threadVars, loopVars, pollVars, timerVars, coroVars
<1> QED
  BY <1>1, <1>2, <1>3, <1>4, <1>5, <1>6, <1>7, <1>8, <1>9, <1>10, <1>11, <1>12,
     <1>13, <1>14, <1>15, <1>16, <1>17, <1>18, <1>19, <1>20, <1>21, <1>22,
     <1>23, <1>24, <1>25, <1>26, <1>27, <1>28, <1>29, <1>s
     DEF Next, CallStep, LoopStep

\* Every step keeps the phases of a loop apart: a timer is off its list only
\* between being taken and being fired, when no event is left in the batch.
LEMMA ExpiredStep == TimersGuarded /\ IndInv /\ [Next]_vars => ExpiredInv'
<1> SUFFICES ASSUME TimersGuarded, IndInv, [Next]_vars PROVE ExpiredInv'
  OBVIOUS
<1>t. Loops \subseteq Threads /\ Main \in Threads /\ Main \notin Loops
  BY LoopAssumption DEF Threads
<1>u. /\ ThreadTypeOK /\ PollTypeOK /\ CoroTypeOK /\ now \in Nat
      /\ None \notin Coros /\ None \notin Loops
      /\ \A t \in Threads : ret[t] \in {"drain", "events", "timers", "main"}
  BY LoopAssumption DEF IndInv, OwnershipInv, TypeOK, ThreadTypeOK
<1>i. CallInv /\ OwnerInv /\ ExpiredInv
  BY DEF IndInv, OwnershipInv
<1>1. ASSUME NEW t \in Threads, NEW c \in Coros, NEW l \in Loops,
             AwaitHop(t, c, l)
      PROVE ExpiredInv'
  BY <1>1, <1>t, <1>u, <1>i
     DEF AwaitHop, Suspends, Call, Goto, ThreadTypeOK, PollTypeOK, CallInv,
         ExpiredInv, Phase, CallPCs, LoopPCs, AddPCs, envVars, pollVars,
         timerVars
<1>2. ASSUME NEW t \in Threads, NEW c \in Coros, NEW l \in Loops,
             NEW d \in DelayTimeouts, AwaitDelay(t, c, l, d)
      PROVE ExpiredInv'
  <2>1. \A m \in Loops : expired[m] # None => expired[m] # c
    BY <1>2, <1>t, <1>u, <1>i, LoopAssumption
       DEF AwaitDelay, Suspends, NextEvent, IndInv, OffList, NoDanglingEvent,
           OwnerInv, ExpiredInv
  <2> QED
    BY <1>2, <2>1, <1>t, <1>u, <1>i
       DEF AwaitDelay, Suspends, Call, Goto, CoroTypeOK, Never, ThreadTypeOK,
           PollTypeOK, CallInv, ExpiredInv, Phase, CallPCs, LoopPCs, AddPCs,
           envVars, loopVars, pollVars
<1>3. ASSUME NEW t \in Threads, NEW c \in Coros, NEW l \in Loops,
             NEW f \in Fds, NEW d \in FdTimeouts, AwaitFd(t, c, l, f, d)
      PROVE ExpiredInv'
  <2>1. \A m \in Loops : expired[m] # None => expired[m] # c
    BY <1>3, <1>t, <1>u, <1>i, LoopAssumption
       DEF AwaitFd, Suspends, NextEvent, IndInv, OffList, NoDanglingEvent,
           OwnerInv, ExpiredInv
  <2> QED
    BY <1>3, <2>1, <1>t, <1>u, <1>i
       DEF AwaitFd, Suspends, Call, Goto, Registered, CoroTypeOK, Never,
           ThreadTypeOK, PollTypeOK, CallInv, ExpiredInv, Phase, CallPCs,
           LoopPCs, AddPCs, envVars, pollVars
<1>4. ASSUME NEW t \in Threads, EpollMod(t)
      PROVE ExpiredInv'
  <2>1. CASE reg[tgt[t]][fd[run[t]]] # None
    BY <1>4, <2>1, <1>t, <1>u, <1>i
       DEF EpollMod, Return, Call, Goto, Registered, ThreadTypeOK, PollTypeOK,
           CallInv, ExpiredInv, Phase, CallPCs, LoopPCs, AddPCs, envVars,
           pollVars, timerVars, coroVars
  <2>2. CASE reg[tgt[t]][fd[run[t]]] = None
    BY <1>4, <2>2, <1>t, <1>u, <1>i
       DEF EpollMod, Return, Call, Goto, Registered, ThreadTypeOK, PollTypeOK,
           CallInv, ExpiredInv, Phase, CallPCs, LoopPCs, AddPCs, envVars,
           pollVars, timerVars, coroVars
  <2> QED
    BY <1>4, <2>1, <2>2 DEF EpollMod
<1>5. ASSUME NEW t \in Threads, AddEventTimer(t)
      PROVE ExpiredInv'
  BY <1>5, <1>t, <1>u, <1>i
     DEF AddEventTimer, Goto, ThreadTypeOK, PollTypeOK, CallInv, ExpiredInv,
         Phase, CallPCs, LoopPCs, AddPCs, envVars, loopVars, pollVars, coroVars
<1>6. ASSUME NEW t \in Threads, SetScheduled(t)
      PROVE ExpiredInv'
  BY <1>6, <1>t, <1>u, <1>i
     DEF SetScheduled, Goto, ThreadTypeOK, PollTypeOK, CallInv, ExpiredInv,
         Phase, CallPCs, LoopPCs, AddPCs, envVars, loopVars, pollVars,
         timerVars
<1>7. ASSUME NEW t \in Threads, Record(t)
      PROVE ExpiredInv'
  <2>1. CASE op[t] = "hop"
    BY <1>7, <2>1, <1>t, <1>u, <1>i
       DEF Record, Return, Call, Goto, ThreadTypeOK, PollTypeOK, CallInv,
           ExpiredInv, Phase, CallPCs, LoopPCs, AddPCs, envVars, loopVars,
           pollVars, timerVars, coroVars
  <2>2. CASE op[t] # "hop"
    BY <1>7, <2>2, <1>t, <1>u, <1>i
       DEF Record, Return, Call, Goto, ThreadTypeOK, PollTypeOK, CallInv,
           ExpiredInv, Phase, CallPCs, LoopPCs, AddPCs, envVars, loopVars,
           pollVars, timerVars, coroVars
  <2> QED
    BY <1>7, <2>1, <2>2 DEF Record
<1>8. ASSUME NEW t \in Threads, SignalCas(t)
      PROVE ExpiredInv'
  <2>1. CASE ~signaling[tgt[t]]
    BY <1>8, <2>1, <1>t, <1>u, <1>i
       DEF SignalCas, AfterSignal, Return, Call, Goto, ThreadTypeOK,
           PollTypeOK, CallInv, ExpiredInv, Phase, CallPCs, LoopPCs, AddPCs,
           envVars, pollVars, timerVars, coroVars
  <2>2. CASE signaling[tgt[t]] /\ op[t] = "hop"
    BY <1>8, <2>2, <1>t, <1>u, <1>i
       DEF SignalCas, AfterSignal, Return, Call, Goto, ThreadTypeOK,
           PollTypeOK, CallInv, ExpiredInv, Phase, CallPCs, LoopPCs, AddPCs,
           envVars, pollVars, timerVars, coroVars
  <2>3. CASE signaling[tgt[t]] /\ op[t] = "delay"
    BY <1>8, <2>3, <1>t, <1>u, <1>i
       DEF SignalCas, AfterSignal, Return, Call, Goto, ThreadTypeOK,
           PollTypeOK, CallInv, ExpiredInv, Phase, CallPCs, LoopPCs, AddPCs,
           envVars, pollVars, timerVars, coroVars
  <2>4. CASE signaling[tgt[t]] /\ op[t] = "fd"
    BY <1>8, <2>4, <1>t, <1>u, <1>i
       DEF SignalCas, AfterSignal, Return, Call, Goto, ThreadTypeOK,
           PollTypeOK, CallInv, ExpiredInv, Phase, CallPCs, LoopPCs, AddPCs,
           envVars, pollVars, timerVars, coroVars
  <2>5. CASE signaling[tgt[t]] /\ op[t] = "abort"
    BY <1>8, <2>5, <1>t, <1>u, <1>i
       DEF SignalCas, AfterSignal, Return, Call, Goto, ThreadTypeOK,
           PollTypeOK, CallInv, ExpiredInv, Phase, CallPCs, LoopPCs, AddPCs,
           envVars, pollVars, timerVars, coroVars
  <2> QED
    BY <1>8, <2>1, <2>2, <2>3, <2>4, <2>5 DEF SignalCas, AfterSignal
<1>9. ASSUME NEW t \in Threads, SignalWrite(t)
      PROVE ExpiredInv'
  BY <1>9, <1>t, <1>u, <1>i
     DEF SignalWrite, Goto, ThreadTypeOK, PollTypeOK, CallInv, ExpiredInv,
         Phase, CallPCs, LoopPCs, AddPCs, envVars, pollVars, timerVars,
         coroVars
<1>10. ASSUME NEW t \in Threads, SignalReset(t)
      PROVE ExpiredInv'
  <2>1. CASE op[t] = "hop"
    BY <1>10, <2>1, <1>t, <1>u, <1>i
       DEF SignalReset, AfterSignal, Return, Call, Goto, ThreadTypeOK,
           PollTypeOK, CallInv, ExpiredInv, Phase, CallPCs, LoopPCs, AddPCs,
           envVars, pollVars, timerVars, coroVars
  <2>2. CASE op[t] = "delay"
    BY <1>10, <2>2, <1>t, <1>u, <1>i
       DEF SignalReset, AfterSignal, Return, Call, Goto, ThreadTypeOK,
           PollTypeOK, CallInv, ExpiredInv, Phase, CallPCs, LoopPCs, AddPCs,
           envVars, pollVars, timerVars, coroVars
  <2>3. CASE op[t] = "fd"
    BY <1>10, <2>3, <1>t, <1>u, <1>i
       DEF SignalReset, AfterSignal, Return, Call, Goto, ThreadTypeOK,
           PollTypeOK, CallInv, ExpiredInv, Phase, CallPCs, LoopPCs, AddPCs,
           envVars, pollVars, timerVars, coroVars
  <2>4. CASE op[t] = "abort"
    BY <1>10, <2>4, <1>t, <1>u, <1>i
       DEF SignalReset, AfterSignal, Return, Call, Goto, ThreadTypeOK,
           PollTypeOK, CallInv, ExpiredInv, Phase, CallPCs, LoopPCs, AddPCs,
           envVars, pollVars, timerVars, coroVars
  <2> QED
    BY <1>10, <2>1, <2>2, <2>3, <2>4 DEF SignalReset, AfterSignal
<1>11. ASSUME NEW t \in Threads, Finish(t)
      PROVE ExpiredInv'
  BY <1>11, <1>t, <1>u, <1>i
     DEF Finish, Goto, ThreadTypeOK, PollTypeOK, CallInv, ExpiredInv, Phase,
         CallPCs, LoopPCs, AddPCs, envVars, loopVars, pollVars, timerVars
<1>12. ASSUME NEW l \in Loops, LoopTop(l)
      PROVE ExpiredInv'
  BY <1>12, <1>t, <1>u, <1>i
     DEF LoopTop, Goto, ThreadTypeOK, PollTypeOK, CallInv, ExpiredInv, Phase,
         CallPCs, LoopPCs, AddPCs, envVars, timerVars, coroVars
<1>13. ASSUME NEW l \in Loops, EpollWait(l)
      PROVE ExpiredInv'
  BY <1>13, <1>t, <1>u, <1>i
     DEF EpollWait, EpollReturns, Polled, Goto, ThreadTypeOK, PollTypeOK,
         CallInv, ExpiredInv, Phase, CallPCs, LoopPCs, AddPCs, envVars,
         timerVars, coroVars
<1>14. ASSUME NEW l \in Loops, Interrupted(l)
      PROVE ExpiredInv'
  BY <1>14, <1>t, <1>u, <1>i
     DEF Interrupted, EpollReturns, Goto, ThreadTypeOK, PollTypeOK, CallInv,
         ExpiredInv, Phase, CallPCs, LoopPCs, AddPCs, envVars, timerVars,
         coroVars
<1>15. ASSUME NEW l \in Loops, NEW c \in Coros, ResumeScheduled(l, c)
      PROVE ExpiredInv'
  <2>1. \A m \in Loops : expired[m] # None => expired[m] # c
    BY <1>15, <1>t, <1>u, <1>i, LoopAssumption
       DEF ResumeScheduled, Suspends, NextEvent, IndInv, OffList,
           NoDanglingEvent, OwnerInv, ExpiredInv
  <2> QED
    BY <1>15, <2>1, <1>t, <1>u, <1>i
       DEF ResumeScheduled, Resume, Goto, CoroTypeOK, Never, ThreadTypeOK,
           PollTypeOK, CallInv, ExpiredInv, Phase, CallPCs, LoopPCs, AddPCs,
           envVars, pollVars, timerVars
<1>16. ASSUME NEW l \in Loops, DrainEnd(l)
      PROVE ExpiredInv'
  BY <1>16, <1>t, <1>u, <1>i
     DEF DrainEnd, Goto, ThreadTypeOK, PollTypeOK, CallInv, ExpiredInv, Phase,
         CallPCs, LoopPCs, AddPCs, envVars, loopVars, pollVars, timerVars,
         coroVars
<1>17. ASSUME NEW l \in Loops, HandleThreadEvent(l)
      PROVE ExpiredInv'
  BY <1>17, <1>t, <1>u, <1>i
     DEF HandleThreadEvent, NextEvent, ThreadTypeOK, PollTypeOK, CallInv,
         ExpiredInv, Phase, CallPCs, LoopPCs, AddPCs, envVars, timerVars,
         coroVars, threadVars
<1>18. ASSUME NEW l \in Loops, NEW c \in Coros, HandleEvent(l, c)
      PROVE ExpiredInv'
  <2>1. \A m \in Loops : expired[m] # None => expired[m] # c
    <3>1. at[c] = l /\ expired[l] = None
      BY <1>18, <1>t, <1>u, <1>i
         DEF HandleEvent, NextEvent, IndInv, NoDanglingEvent, ExpiredInv
    <3> QED
      BY <3>1 DEF IndInv, OffList
  <2> QED
    BY <1>18, <2>1, <1>t, <1>u, <1>i
       DEF HandleEvent, NextEvent, Claims, Unregister, Resume, Goto,
           CoroTypeOK, Never, ThreadTypeOK, PollTypeOK, CallInv, ExpiredInv,
           Phase, CallPCs, LoopPCs, AddPCs, envVars
<1>19. ASSUME NEW l \in Loops, NEW c \in Coros, SkipEvent(l, c)
      PROVE ExpiredInv'
  BY <1>19, <1>t, <1>u, <1>i
     DEF SkipEvent, NextEvent, Claims, ThreadTypeOK, PollTypeOK, CallInv,
         ExpiredInv, Phase, CallPCs, LoopPCs, AddPCs, envVars, timerVars,
         coroVars, threadVars
<1>20. ASSUME NEW l \in Loops, EventsEnd(l)
      PROVE ExpiredInv'
  BY <1>20, <1>t, <1>u, <1>i
     DEF EventsEnd, Goto, ThreadTypeOK, PollTypeOK, CallInv, ExpiredInv, Phase,
         CallPCs, LoopPCs, AddPCs, envVars, timerVars, coroVars
<1>21. ASSUME NEW l \in Loops, TakeExpiredTimer(l)
      PROVE ExpiredInv'
  <2>1. timers[l].first \in Coros
    BY <1>21, <1>u
       DEF TakeExpiredTimer, Expired, IndInv, OwnershipInv, TypeOK,
           TimerTypeOK, Lists, Pointers
  <2> QED
    BY <1>21, <2>1, <1>t, <1>u, <1>i
       DEF TakeExpiredTimer, Expired, Goto, CoroTypeOK, ThreadTypeOK,
           PollTypeOK, CallInv, ExpiredInv, Phase, CallPCs, LoopPCs, AddPCs,
           envVars, coroVars
<1>22. ASSUME NEW l \in Loops, NEW c \in Coros, FireTimer(l, c)
      PROVE ExpiredInv'
  <2>1. \A m \in Loops : m # l /\ expired[m] # None => expired[m] # c
    BY <1>22, <1>u DEF FireTimer, IndInv, OffList
  <2> QED
    BY <1>22, <2>1, <1>t, <1>u, <1>i
       DEF FireTimer, Claims, Unregister, Resume, Goto, CoroTypeOK, Never,
           ThreadTypeOK, PollTypeOK, CallInv, ExpiredInv, Phase, CallPCs,
           LoopPCs, AddPCs, envVars
<1>23. ASSUME NEW l \in Loops, DropTimer(l)
      PROVE ExpiredInv'
  BY <1>23, <1>t, <1>u, <1>i
     DEF DropTimer, Claims, Goto, ThreadTypeOK, PollTypeOK, CallInv,
         ExpiredInv, Phase, CallPCs, LoopPCs, AddPCs, envVars, timerVars,
         coroVars
<1>24. ASSUME NEW l \in Loops, TimersEnd(l)
      PROVE ExpiredInv'
  BY <1>24, <1>t, <1>u, <1>i
     DEF TimersEnd, Goto, ThreadTypeOK, PollTypeOK, CallInv, ExpiredInv, Phase,
         CallPCs, LoopPCs, AddPCs, envVars, timerVars, coroVars
<1>25. ASSUME NEW c \in Coros, Start(c)
      PROVE ExpiredInv'
  BY <1>25, <1>t, <1>u, <1>i
     DEF Start, Goto, ThreadTypeOK, PollTypeOK, CallInv, ExpiredInv, Phase,
         CallPCs, LoopPCs, AddPCs, envVars, loopVars, pollVars, timerVars
<1>26. ASSUME NEW l \in Loops, Abort(l)
      PROVE ExpiredInv'
  BY <1>26, <1>t, <1>u, <1>i
     DEF Abort, Call, Goto, ThreadTypeOK, PollTypeOK, CallInv, ExpiredInv,
         Phase, CallPCs, LoopPCs, AddPCs, envVars, pollVars, timerVars,
         coroVars
<1>27. ASSUME Join
      PROVE ExpiredInv'
  BY <1>27, <1>t, <1>u, <1>i
     DEF Join, Return, Call, Goto, ThreadTypeOK, PollTypeOK, CallInv,
         ExpiredInv, Phase, CallPCs, LoopPCs, AddPCs, envVars, loopVars,
         pollVars, timerVars, coroVars
<1>28. ASSUME Tick
      PROVE ExpiredInv'
  BY <1>28, <1>t, <1>u, <1>i
     DEF Tick, CoroTypeOK, ThreadTypeOK, PollTypeOK, CallInv, ExpiredInv,
         Phase, CallPCs, LoopPCs, AddPCs, loopVars, pollVars, timerVars,
         coroVars, threadVars
<1>29. ASSUME NEW f \in Fds, FdReady(f)
      PROVE ExpiredInv'
  BY <1>29, <1>t, <1>u, <1>i
     DEF FdReady, ThreadTypeOK, PollTypeOK, CallInv, ExpiredInv, Phase,
         CallPCs, LoopPCs, AddPCs, loopVars, pollVars, timerVars, coroVars,
         threadVars
<1>s. CASE UNCHANGED vars
  BY <1>s, <1>t, <1>u, <1>i
     DEF vars, ThreadTypeOK, PollTypeOK, CallInv, ExpiredInv, Phase, CallPCs,
         LoopPCs, AddPCs, envVars, loopVars, pollVars, timerVars, coroVars,
         threadVars
<1> QED
  BY <1>1, <1>2, <1>3, <1>4, <1>5, <1>6, <1>7, <1>8, <1>9, <1>10, <1>11, <1>12,
     <1>13, <1>14, <1>15, <1>16, <1>17, <1>18, <1>19, <1>20, <1>21, <1>22,
     <1>23, <1>24, <1>25, <1>26, <1>27, <1>28, <1>29, <1>s
     DEF Next, CallStep, LoopStep

\* Every step keeps the addresses in the epoll sets and in the batches those of
\* Events that are waited for.
LEMMA DanglingStep ==
    TimersGuarded /\ IndInv /\ [Next]_vars => NoDanglingEvent'
<1> SUFFICES ASSUME TimersGuarded, IndInv, [Next]_vars PROVE NoDanglingEvent'
  OBVIOUS
<1>t. Loops \subseteq Threads /\ Main \in Threads /\ Main \notin Loops
  BY LoopAssumption DEF Threads
<1>u. /\ ThreadTypeOK /\ PollTypeOK /\ CoroTypeOK
      /\ reg \in [Loops -> [Fds -> Coros \cup {None}]] /\ ready \in SUBSET Fds
      /\ None \notin Coros /\ None \notin Loops /\ None \notin Fds
  BY LoopAssumption DEF IndInv, OwnershipInv, TypeOK, LoopTypeOK
<1>i. CallInv /\ OwnerInv /\ ExpiredInv /\ NoDanglingEvent
  BY DEF IndInv, OwnershipInv
<1>1. ASSUME NEW t \in Threads, NEW c \in Coros, NEW l \in Loops,
             AwaitHop(t, c, l)
      PROVE NoDanglingEvent'
  BY <1>1, <1>i
     DEF AwaitHop, Suspends, Call, Goto, NoDanglingEvent, pollVars, timerVars
<1>2. ASSUME NEW t \in Threads, NEW c \in Coros, NEW l \in Loops,
             NEW d \in DelayTimeouts, AwaitDelay(t, c, l, d)
      PROVE NoDanglingEvent'
  <2>1. at[c] = None
    BY <1>2, <1>i DEF AwaitDelay, Suspends, OwnerInv
  <2> QED
    BY <1>2, <2>1, <1>u, <1>i
       DEF AwaitDelay, Suspends, Call, Goto, CoroTypeOK, NoDanglingEvent,
           loopVars, pollVars
<1>3. ASSUME NEW t \in Threads, NEW c \in Coros, NEW l \in Loops,
             NEW f \in Fds, NEW d \in FdTimeouts, AwaitFd(t, c, l, f, d)
      PROVE NoDanglingEvent'
  <2>1. at[c] = None /\ UNCHANGED batch
    BY <1>3, <1>i DEF AwaitFd, Suspends, OwnerInv, pollVars
  <2>2. \A m \in Loops : \A g \in Fds : reg'[m][g] # reg[m][g] =>
            m = l /\ g = f /\ reg'[m][g] = c
    <3>1. CASE reg' = reg
      BY <3>1
    <3>2. CASE reg' = [reg EXCEPT ![l][f] = c]
      BY <3>2, <1>u
    <3> QED
      BY <1>3, <3>1, <3>2 DEF AwaitFd
  <2>3. /\ at'[c] = l /\ fd'[c] = f
        /\ \A x \in Coros : x # c => at'[x] = at[x] /\ fd'[x] = fd[x]
    BY <1>3, <1>u DEF AwaitFd, CoroTypeOK
  <2>4. \A m \in Loops : \A g \in Fds : reg[m][g] # c
    BY <1>i, <1>u, <2>1 DEF NoDanglingEvent
  <2>5. \A m \in Loops : \A g \in Fds : reg'[m][g] # None =>
            at'[reg'[m][g]] = m /\ fd'[reg'[m][g]] = g
    BY <1>i, <1>u, <2>2, <2>3, <2>4 DEF NoDanglingEvent
  <2>6. \A m \in Loops : \A x \in batch'[m] \ {None} : at'[x] = m
            /\ fd'[x] # None
    BY <1>i, <1>u, <2>1, <2>3 DEF NoDanglingEvent, PollTypeOK
  <2> QED
    BY <2>5, <2>6 DEF NoDanglingEvent
<1>4. ASSUME NEW t \in Threads, EpollMod(t)
      PROVE NoDanglingEvent'
  <2> DEFINE c == run[t]
             l == tgt[t]
  <2>1. c \in Coros /\ at[c] = l /\ UNCHANGED <<at, fd, batch>>
    BY <1>4, <1>i, <1>u
       DEF EpollMod, CallInv, OwnerInv, Holds, AddPCs, ThreadTypeOK, pollVars,
           coroVars
  <2>2. \A m \in Loops : \A g \in Fds : reg'[m][g] # reg[m][g] =>
            m = l /\ g = fd[c] /\ reg'[m][g] = c
    <3>1. CASE reg' = reg
      BY <3>1
    <3>2. CASE reg' = [reg EXCEPT ![l][fd[c]] = c]
      BY <3>2, <1>u
    <3> QED
      BY <1>4, <3>1, <3>2 DEF EpollMod
  <2> HIDE DEF c, l
  <2> QED
    BY <1>i, <1>u, <2>1, <2>2 DEF NoDanglingEvent
<1>5. ASSUME NEW t \in Threads, AddEventTimer(t)
      PROVE NoDanglingEvent'
  BY <1>5, <1>i
     DEF AddEventTimer, Goto, NoDanglingEvent, loopVars, pollVars, coroVars
<1>6. ASSUME NEW t \in Threads, SetScheduled(t)
      PROVE NoDanglingEvent'
  BY <1>6, <1>i
     DEF SetScheduled, Goto, NoDanglingEvent, loopVars, pollVars, timerVars
<1>7. ASSUME NEW t \in Threads, Record(t)
      PROVE NoDanglingEvent'
  BY <1>7, <1>i
     DEF Record, Return, Call, Goto, NoDanglingEvent, loopVars, pollVars,
         timerVars, coroVars
<1>8. ASSUME NEW t \in Threads, SignalCas(t)
      PROVE NoDanglingEvent'
  BY <1>8, <1>i
     DEF SignalCas, AfterSignal, Return, Call, Goto, NoDanglingEvent, pollVars,
         timerVars, coroVars
<1>9. ASSUME NEW t \in Threads, SignalWrite(t)
      PROVE NoDanglingEvent'
  BY <1>9, <1>i
     DEF SignalWrite, Goto, NoDanglingEvent, pollVars, timerVars, coroVars
<1>10. ASSUME NEW t \in Threads, SignalReset(t)
      PROVE NoDanglingEvent'
  BY <1>10, <1>i
     DEF SignalReset, AfterSignal, Return, Call, Goto, NoDanglingEvent,
         pollVars, timerVars, coroVars
<1>11. ASSUME NEW t \in Threads, Finish(t)
      PROVE NoDanglingEvent'
  BY <1>11, <1>i
     DEF Finish, Goto, NoDanglingEvent, loopVars, pollVars, timerVars
<1>12. ASSUME NEW l \in Loops, LoopTop(l)
      PROVE NoDanglingEvent'
  BY <1>12, <1>i DEF LoopTop, Goto, NoDanglingEvent, timerVars, coroVars
<1>13. ASSUME NEW l \in Loops, EpollWait(l)
      PROVE NoDanglingEvent'
  <2>1. \A m \in Loops : batch'[m] # batch[m] =>
            m = l /\ batch'[l] \subseteq {reg[l][f] : f \in ready} \cup {None}
    BY <1>13, <1>u DEF EpollWait, EpollReturns, Polled, PollTypeOK
  <2>2. UNCHANGED <<reg, at, fd>>
    BY <1>13 DEF EpollWait, EpollReturns, coroVars
  <2> QED
    BY <1>i, <1>u, <2>1, <2>2 DEF NoDanglingEvent
<1>14. ASSUME NEW l \in Loops, Interrupted(l)
      PROVE NoDanglingEvent'
  BY <1>14, <1>u, <1>i
     DEF Interrupted, EpollReturns, Goto, PollTypeOK, NoDanglingEvent,
         timerVars, coroVars
<1>15. ASSUME NEW l \in Loops, NEW c \in Coros, ResumeScheduled(l, c)
      PROVE NoDanglingEvent'
  <2>1. at[c] = None
    BY <1>15, <1>i DEF ResumeScheduled, Suspends, OwnerInv
  <2> QED
    BY <1>15, <2>1, <1>u, <1>i
       DEF ResumeScheduled, Resume, Goto, CoroTypeOK, NoDanglingEvent,
           pollVars, timerVars
<1>16. ASSUME NEW l \in Loops, DrainEnd(l)
      PROVE NoDanglingEvent'
  BY <1>16, <1>i
     DEF DrainEnd, Goto, NoDanglingEvent, loopVars, pollVars, timerVars,
         coroVars
<1>17. ASSUME NEW l \in Loops, HandleThreadEvent(l)
      PROVE NoDanglingEvent'
  BY <1>17, <1>u, <1>i
     DEF HandleThreadEvent, NextEvent, PollTypeOK, NoDanglingEvent, threadVars,
         timerVars, coroVars
<1>18. ASSUME NEW l \in Loops, NEW c \in Coros, HandleEvent(l, c)
      PROVE NoDanglingEvent'
  <2>1. at[c] = l /\ fd[c] \in Fds
    BY <1>18, <1>i, <1>u
       DEF HandleEvent, NextEvent, NoDanglingEvent, CoroTypeOK
  <2>2. reg'[l][fd[c]] = None
            /\ \A m \in Loops : \A g \in Fds : reg'[m][g] \in {reg[m][g], None}
    BY <1>18, <1>u, <2>1 DEF HandleEvent, Unregister
  <2>3. c \notin batch'[l] /\ \A m \in Loops : batch'[m] \subseteq batch[m]
    BY <1>18, <1>u DEF HandleEvent, NextEvent, PollTypeOK
  <2>4. \A x \in Coros : x # c => at'[x] = at[x] /\ fd'[x] = fd[x]
    BY <1>18, <1>u DEF HandleEvent, Resume, CoroTypeOK
  <2>5. \A m \in Loops : \A g \in Fds : reg'[m][g] # c
    BY <1>i, <1>u, <2>1, <2>2 DEF NoDanglingEvent
  <2>6. \A m \in Loops : c \notin batch'[m]
    BY <1>i, <1>u, <2>1, <2>3 DEF NoDanglingEvent
  <2>7. \A m \in Loops : \A g \in Fds : reg'[m][g] # None =>
            at'[reg'[m][g]] = m /\ fd'[reg'[m][g]] = g
    BY <1>i, <1>u, <2>2, <2>4, <2>5 DEF NoDanglingEvent
  <2>8. \A m \in Loops : \A x \in batch'[m] \ {None} : at'[x] = m
            /\ fd'[x] # None
    BY <1>i, <1>u, <2>3, <2>4, <2>6 DEF NoDanglingEvent, PollTypeOK
  <2> QED
    BY <2>7, <2>8 DEF NoDanglingEvent
<1>19. ASSUME NEW l \in Loops, NEW c \in Coros, SkipEvent(l, c)
      PROVE NoDanglingEvent'
  BY <1>19, <1>u, <1>i
     DEF SkipEvent, NextEvent, Claims, PollTypeOK, NoDanglingEvent, threadVars,
         timerVars, coroVars
<1>20. ASSUME NEW l \in Loops, EventsEnd(l)
      PROVE NoDanglingEvent'
  BY <1>20, <1>u, <1>i
     DEF EventsEnd, Goto, PollTypeOK, NoDanglingEvent, timerVars, coroVars
<1>21. ASSUME NEW l \in Loops, TakeExpiredTimer(l)
      PROVE NoDanglingEvent'
  BY <1>21, <1>i DEF TakeExpiredTimer, Expired, Goto, NoDanglingEvent, coroVars
<1>22. ASSUME NEW l \in Loops, NEW c \in Coros, FireTimer(l, c)
      PROVE NoDanglingEvent'
  <2>1. at[c] = l /\ batch[l] = {} /\ UNCHANGED batch
    BY <1>22, <1>i, <1>u
       DEF FireTimer, IndInv, OffList, ExpiredInv, Phase, LoopPCs
  <2>2. (fd[c] \in Fds =>
            reg'[l][fd[c]] = None)
                /\ \A m \in Loops : \A g \in Fds :
                       reg'[m][g] \in {reg[m][g], None}
    BY <1>22, <1>u DEF FireTimer, Unregister
  <2>4. \A x \in Coros : x # c => at'[x] = at[x] /\ fd'[x] = fd[x]
    BY <1>22, <1>u DEF FireTimer, Resume, CoroTypeOK
  <2>5. \A m \in Loops : \A g \in Fds : reg'[m][g] # c
    BY <1>i, <1>u, <2>1, <2>2 DEF NoDanglingEvent
  <2>6. \A m \in Loops : c \notin batch'[m]
    BY <1>i, <1>u, <2>1 DEF NoDanglingEvent
  <2>7. \A m \in Loops : \A g \in Fds : reg'[m][g] # None =>
            at'[reg'[m][g]] = m /\ fd'[reg'[m][g]] = g
    BY <1>i, <1>u, <2>2, <2>4, <2>5 DEF NoDanglingEvent
  <2>8. \A m \in Loops : \A x \in batch'[m] \ {None} : at'[x] = m
            /\ fd'[x] # None
    BY <1>i, <1>u, <2>1, <2>4, <2>6 DEF NoDanglingEvent, PollTypeOK
  <2> QED
    BY <2>7, <2>8 DEF NoDanglingEvent
<1>23. ASSUME NEW l \in Loops, DropTimer(l)
      PROVE NoDanglingEvent'
  BY <1>23, <1>i
     DEF DropTimer, Claims, Goto, NoDanglingEvent, timerVars, coroVars
<1>24. ASSUME NEW l \in Loops, TimersEnd(l)
      PROVE NoDanglingEvent'
  BY <1>24, <1>i DEF TimersEnd, Goto, NoDanglingEvent, timerVars, coroVars
<1>25. ASSUME NEW c \in Coros, Start(c)
      PROVE NoDanglingEvent'
  BY <1>25, <1>i
     DEF Start, Goto, NoDanglingEvent, loopVars, pollVars, timerVars
<1>26. ASSUME NEW l \in Loops, Abort(l)
      PROVE NoDanglingEvent'
  BY <1>26, <1>i
     DEF Abort, Call, Goto, NoDanglingEvent, pollVars, timerVars, coroVars
<1>27. ASSUME Join
      PROVE NoDanglingEvent'
  BY <1>27, <1>i
     DEF Join, Return, Call, Goto, NoDanglingEvent, loopVars, pollVars,
         timerVars, coroVars
<1>28. ASSUME Tick
      PROVE NoDanglingEvent'
  BY <1>28, <1>i
     DEF Tick, NoDanglingEvent, threadVars, loopVars, pollVars, timerVars,
         coroVars
<1>29. ASSUME NEW f \in Fds, FdReady(f)
      PROVE NoDanglingEvent'
  BY <1>29, <1>i
     DEF FdReady, NoDanglingEvent, threadVars, loopVars, pollVars, timerVars,
         coroVars
<1>s. CASE UNCHANGED vars
  BY <1>s, <1>i
     DEF vars, NoDanglingEvent, threadVars, loopVars, pollVars, timerVars,
         coroVars
<1> QED
  BY <1>1, <1>2, <1>3, <1>4, <1>5, <1>6, <1>7, <1>8, <1>9, <1>10, <1>11, <1>12,
     <1>13, <1>14, <1>15, <1>16, <1>17, <1>18, <1>19, <1>20, <1>21, <1>22,
     <1>23, <1>24, <1>25, <1>26, <1>27, <1>28, <1>29, <1>s
     DEF Next, CallStep, LoopStep

\* The scheduler starts in the invariant.
LEMMA IndInit == Init => IndInv
<1> SUFFICES ASSUME Init PROVE IndInv
  OBVIOUS
<1>1. OwnershipInv
  BY OwnershipInit
<1>2. GuardInv
  BY LoopAssumption DEF Init, GuardInv, Holds, AddPCs, SigPCs, Threads
<1>3. LinkInv
  BY LoopAssumption DEF Init, LinkInv, Linked, EmptyList, Unlinked
<1>4. OffList /\ ExpiredInv
  BY LoopAssumption DEF Init, OffList, ExpiredInv, Phase, LoopPCs, Threads
<1>5. NoDanglingEvent
  BY LoopAssumption DEF Init, NoDanglingEvent
<1> QED
  BY <1>1, <1>2, <1>3, <1>4, <1>5 DEF IndInv

\* IndInv is inductive.
LEMMA IndStep == TimersGuarded /\ IndInv /\ [Next]_vars => IndInv'
<1> SUFFICES ASSUME TimersGuarded, IndInv, [Next]_vars PROVE IndInv'
  OBVIOUS
<1>1. OwnershipInv'
  BY OwnershipStep DEF IndInv
<1>2. GuardInv'
  BY GuardStep
<1>3. LinkInv' /\ OffList'
  BY LinkStep
<1>4. ExpiredInv'
  BY ExpiredStep
<1>5. NoDanglingEvent'
  BY DanglingStep
<1> QED
  BY <1>1, <1>2, <1>3, <1>4, <1>5 DEF IndInv

\* It says that no address dangles.
LEMMA IndSafe == IndInv => NoDanglingEvent /\ NoDanglingTimer
<1> SUFFICES ASSUME IndInv PROVE NoDanglingTimer
  BY DEF IndInv
<1>1. TimerTypeOK /\ CoroTypeOK /\ LinkInv /\ OffList /\ ExpiredInv
  BY DEF IndInv, OwnershipInv, TypeOK
<1>2. \A l \in Loops : \A c \in OnList(timers[l], links) : armed[c]
          /\ at[c] = l
  BY <1>1, WalkedServed DEF OnList
<1>3. \A l \in Loops : expired[l] # None =>
          armed[expired[l]] /\ at[expired[l]] = l /\ dd[expired[l]] <= now
  BY <1>1 DEF OffList, ExpiredInv
<1> QED
  BY <1>2, <1>3 DEF NoDanglingTimer

\* The whole inductive invariant: among others, only the members of a list are
\* erased from it, and only its loop touches a wait with a deadline.
THEOREM Guarded == ASSUME TimersGuarded PROVE Spec => []IndInv
<1>1. Init => IndInv
  BY IndInit
<1>2. IndInv /\ [Next]_vars => IndInv'
  BY IndStep
<1> QED
  BY <1>1, <1>2, PTL DEF Spec

\* When an Event with a deadline is only added by the loop that serves it,
\* neither the kernel nor the batch of epoll_wait ever holds the address of a
\* wait that is over: handleEvent does not touch a coroutine frame that was
\* resumed or destroyed.
THEOREM NoDangling == ASSUME TimersGuarded PROVE Spec => []NoDanglingEvent
<1>1. IndInv => NoDanglingEvent
  BY IndSafe
<1> QED
  BY <1>1, Guarded, PTL

\* Neither do the timer lists: fireExpiredTimers only touches the timers of
\* coroutines that still wait.
THEOREM TimersLive == ASSUME TimersGuarded PROVE Spec => []NoDanglingTimer
<1>1. IndInv => NoDanglingTimer
  BY IndSafe
<1> QED
  BY <1>1, Guarded, PTL

-----------------------------------------------------------------------------
(***************************************************************************)
(* The load counters.  They count modulo 2^64, so that the equation is one *)
(* of remainders.                                                          *)
(***************************************************************************)
\* Division leaves one remainder.
LEMMA OneRemainder ==
    ASSUME NEW M \in Nat \ {0}, NEW q \in Int, NEW p \in Int,
           NEW r \in 0 .. M - 1, NEW s \in 0 .. M - 1, M * q + r = M * p + s
    PROVE  r = s
<1> DEFINE d == q - p
<1>1. M * d = s - r /\ d \in Int
  OBVIOUS
<1> HIDE DEF d
<1>2. CASE d >= 1
  <2>1. M * d >= M
    BY <1>1, <1>2
  <2> QED
    BY <2>1, <1>1
<1>3. CASE d <= -1
  <2>1. M * d <= 0 - M
    BY <1>1, <1>3
  <2> QED
    BY <2>1, <1>1
<1>4. CASE d = 0
  BY <1>4, <1>1
<1> QED
  BY <1>1, <1>2, <1>3, <1>4

\* What a remainder is.
LEMMA Remainder ==
    ASSUME NEW M \in Nat \ {0}, NEW a \in Int
    PROVE  a % M \in 0 .. M - 1 /\ a \div M \in Int /\ a = M * (a \div M) + (a % M)
  OBVIOUS

\* The remainder of the next number.
LEMMA RemainderNext ==
    ASSUME NEW M \in Nat \ {0}, NEW a \in Int
    PROVE  (a + 1) % M = IF a % M = M - 1 THEN 0 ELSE (a % M) + 1
<1> DEFINE q == a \div M
           r == a % M
           p == (a + 1) \div M
           s == (a + 1) % M
<1>1. r \in 0 .. M - 1 /\ q \in Int /\ a = M * q + r
  BY Remainder
<1>0. a + 1 \in Int
  OBVIOUS
<1>2. s \in 0 .. M - 1 /\ p \in Int /\ a + 1 = M * p + s
  BY <1>0, Remainder
<1> HIDE DEF p, q, r, s
<1>3. CASE r = M - 1
  <2>1. M * (q + 1) + 0 = M * p + s
    BY <1>1, <1>2, <1>3
  <2>2. q + 1 \in Int /\ 0 \in 0 .. M - 1
    BY <1>1
  <2>3. s = 0
    BY <2>1, <2>2, <1>2, OneRemainder
  <2> QED
    BY <1>3, <2>3 DEF r, s
<1>4. CASE r # M - 1
  <2>1. M * q + (r + 1) = M * p + s /\ r + 1 \in 0 .. M - 1
    BY <1>1, <1>2, <1>4
  <2>2. s = r + 1
    BY <2>1, <1>1, <1>2, OneRemainder
  <2> QED
    BY <1>4, <2>2 DEF r, s
<1> QED
  BY <1>3, <1>4

\* The remainder of the number before.
LEMMA RemainderBefore ==
    ASSUME NEW M \in Nat \ {0}, NEW a \in Int
    PROVE  (a - 1) % M = IF a % M = 0 THEN M - 1 ELSE (a % M) - 1
<1>1. (a - 1) + 1 = a /\ a - 1 \in Int
  OBVIOUS
<1>2. a % M = IF (a - 1) % M = M - 1 THEN 0 ELSE ((a - 1) % M) + 1
  BY <1>1, RemainderNext
<1>3. (a - 1) % M \in 0 .. M - 1
  BY <1>1, Remainder
<1> QED
  BY <1>2, <1>3

\* The remainder one turn later.
LEMMA RemainderTurn ==
    ASSUME NEW M \in Nat \ {0}, NEW a \in Int
    PROVE  (a + M) % M = a % M
<1> DEFINE q == a \div M
           r == a % M
           p == (a + M) \div M
           s == (a + M) % M
<1>1. r \in 0 .. M - 1 /\ q \in Int /\ a = M * q + r
  BY Remainder
<1>0. a + M \in Int
  OBVIOUS
<1>2. s \in 0 .. M - 1 /\ p \in Int /\ a + M = M * p + s
  BY <1>0, Remainder
<1> HIDE DEF p, q, r, s
<1>3. M * (q + 1) + r = M * p + s /\ q + 1 \in Int
  BY <1>1, <1>2
<1>4. r = s
  BY <1>1, <1>2, <1>3, OneRemainder
<1> QED
  BY <1>4 DEF r, s

\* A counter goes up for a call that has been counted ...
LEMMA CountedUp ==
    ASSUME NEW n \in 0 .. Modulus - 1, NEW u \in Nat \ {0}
    PROVE  (Up(n) + (u - 1)) % Modulus = (n + u) % Modulus
<1>1. Modulus \in Nat \ {0}
  BY LoopAssumption
<1>2. Up(n) = IF n = Modulus - 1 THEN 0 ELSE n + 1
  <2>1. n % Modulus = n /\ n \in Int
    BY <1>1
  <2>2. (n + 1) % Modulus = IF n % Modulus = Modulus - 1 THEN 0 ELSE (n % Modulus) + 1
    BY <1>1, <2>1, RemainderNext
  <2> QED
    BY <2>1, <2>2 DEF Up
<1>3. CASE n = Modulus - 1
  <2>0. u - 1 \in Int
    OBVIOUS
  <2>1. (u - 1 + Modulus) % Modulus = (u - 1) % Modulus
    BY <1>1, <2>0, RemainderTurn
  <2>2. u - 1 + Modulus = n + u /\ Up(n) + (u - 1) = u - 1
    BY <1>1, <1>2, <1>3
  <2> QED
    BY <2>1, <2>2
<1>4. CASE n # Modulus - 1
  <2>1. Up(n) + (u - 1) = n + u
    BY <1>2, <1>4
  <2> QED
    BY <2>1
<1> QED
  BY <1>3, <1>4

\* ... and down, below zero too, for one that is gone.
LEMMA CountedDown ==
    ASSUME NEW n \in 0 .. Modulus - 1, NEW u \in Nat, NEW s \in Nat \ {0},
           (n + u) % Modulus = s % Modulus
    PROVE  (Down(n) + u) % Modulus = (s - 1) % Modulus
<1>1. Modulus \in Nat \ {0}
  BY LoopAssumption
<1>2. (n + u - 1) % Modulus = (s - 1) % Modulus
  <2> DEFINE a == n + u
  <2>1. a \in Int /\ s \in Int /\ a % Modulus = s % Modulus
    OBVIOUS
  <2> HIDE DEF a
  <2>2. (a - 1) % Modulus = IF a % Modulus = 0 THEN Modulus - 1 ELSE (a % Modulus) - 1
    BY <1>1, <2>1, RemainderBefore
  <2>3. (s - 1) % Modulus = IF s % Modulus = 0 THEN Modulus - 1 ELSE (s % Modulus) - 1
    BY <1>1, <2>1, RemainderBefore
  <2>4. (a - 1) % Modulus = (s - 1) % Modulus
    BY <2>1, <2>2, <2>3
  <2> QED
    BY <2>4 DEF a
<1>3. Down(n) = IF n = 0 THEN Modulus - 1 ELSE n - 1
  <2>1. n + Modulus - 1 = (n - 1) + Modulus /\ n - 1 \in Int
    BY <1>1
  <2>2. (n - 1 + Modulus) % Modulus = (n - 1) % Modulus
    BY <1>1, <2>1, RemainderTurn
  <2>3. Down(n) = (n - 1) % Modulus
    BY <2>1, <2>2 DEF Down
  <2>4. n % Modulus = n /\ n \in Int
    BY <1>1
  <2>5. (n - 1) % Modulus = IF n % Modulus = 0 THEN Modulus - 1 ELSE (n % Modulus) - 1
    BY <1>1, <2>4, RemainderBefore
  <2> QED
    BY <2>3, <2>4, <2>5
<1>4. CASE n = 0
  <2>0. u - 1 \in Int
    OBVIOUS
  <2>1. (u - 1 + Modulus) % Modulus = (u - 1) % Modulus
    BY <1>1, <2>0, RemainderTurn
  <2>2. Down(n) + u = u - 1 + Modulus /\ n + u - 1 = u - 1
    BY <1>1, <1>3, <1>4
  <2> QED
    BY <1>2, <2>1, <2>2
<1>5. CASE n # 0
  <2>1. Down(n) + u = n + u - 1
    BY <1>3, <1>5
  <2> QED
    BY <1>2, <2>1
<1> QED
  BY <1>4, <1>5

\* The coroutines in waits that a loop serves; the equation for one loop.
Waits(l) == {c \in Coros : st[c] = "scheduled" /\ at[c] = l}
Load(l) == Cardinality(queue[l]) + Cardinality(Waits(l))
LoadOf(l) == (inflight[l] + Cardinality(Uncounted(l))) % Modulus = Load(l) % Modulus

\* Outside a call a thread is in none: what Uncounted leaves open.
OpInv == \A t \in Threads :
    /\ pc[t] \notin CallPCs \cup {"join"} => op[t] = "none"
    /\ pc[t] = "join" => op[t] = "abort"

\* The counted sets are finite.
LEMMA LoadFinite ==
    ASSUME TypeOK, NEW l \in Loops
    PROVE  /\ IsFiniteSet(queue[l]) /\ IsFiniteSet(Waits(l)) /\ IsFiniteSet(Uncounted(l))
           /\ Cardinality(queue[l]) \in Nat /\ Cardinality(Waits(l)) \in Nat
           /\ Cardinality(Uncounted(l)) \in Nat /\ inflight[l] \in 0 .. Modulus - 1
<1>1. queue[l] \in SUBSET Coros /\ Waits(l) \in SUBSET Coros /\ Uncounted(l) \in SUBSET Threads
  BY DEF TypeOK, LoopTypeOK, Waits, Uncounted
<1>2. IsFiniteSet(Threads)
  BY FiniteAssumption, FS_AddElement DEF Threads
<1>3. IsFiniteSet(queue[l]) /\ IsFiniteSet(Waits(l)) /\ IsFiniteSet(Uncounted(l))
  BY <1>1, <1>2, FiniteAssumption, FS_Subset
<1>4. inflight[l] \in 0 .. Modulus - 1
  BY DEF TypeOK, LoopTypeOK
<1> QED
  BY <1>3, <1>4, FS_CardinalityType

\* A step that touches none of it.
LEMMA LoadSame ==
    ASSUME NEW l \in Loops, LoadOf(l), inflight'[l] = inflight[l],
           queue'[l] = queue[l], Waits(l)' = Waits(l), Uncounted(l)' = Uncounted(l)
    PROVE  LoadOf(l)'
  BY DEF LoadOf, Load

\* A call that is yet to count puts a coroutine into the queue or into a wait.
LEMMA LoadGrows ==
    ASSUME TypeOK, NEW l \in Loops, LoadOf(l), inflight'[l] = inflight[l],
           NEW t, t \notin Uncounted(l), Uncounted(l)' = Uncounted(l) \cup {t},
           NEW c,
           \/ c \notin queue[l] /\ queue'[l] = queue[l] \cup {c} /\ Waits(l)' = Waits(l)
           \/ c \notin Waits(l) /\ Waits(l)' = Waits(l) \cup {c} /\ queue'[l] = queue[l]
    PROVE  LoadOf(l)'
<1> DEFINE a == inflight[l] + Cardinality(Uncounted(l))
           b == Load(l)
<1>1. /\ IsFiniteSet(queue[l]) /\ IsFiniteSet(Waits(l)) /\ IsFiniteSet(Uncounted(l))
      /\ Cardinality(queue[l]) \in Nat /\ Cardinality(Waits(l)) \in Nat
      /\ Cardinality(Uncounted(l)) \in Nat /\ inflight[l] \in 0 .. Modulus - 1
  BY LoadFinite
<1>2. Cardinality(Uncounted(l)') = Cardinality(Uncounted(l)) + 1
  BY <1>1, FS_AddElement
<1>3. Load(l)' = b + 1
  <2>1. CASE c \notin queue[l] /\ queue'[l] = queue[l] \cup {c} /\ Waits(l)' = Waits(l)
    <3>1. Cardinality(queue'[l]) = Cardinality(queue[l]) + 1
      BY <1>1, <2>1, FS_AddElement
    <3> QED
      BY <1>1, <2>1, <3>1 DEF Load
  <2>2. CASE c \notin Waits(l) /\ Waits(l)' = Waits(l) \cup {c} /\ queue'[l] = queue[l]
    <3>1. Cardinality(Waits(l)') = Cardinality(Waits(l)) + 1
      BY <1>1, <2>2, FS_AddElement
    <3> QED
      BY <1>1, <2>2, <3>1 DEF Load
  <2> QED
    BY <2>1, <2>2
<1>4. a \in Int /\ b \in Int /\ Modulus \in Nat \ {0} /\ a % Modulus = b % Modulus
  BY <1>1, LoopAssumption DEF Load, LoadOf
<1>5. inflight'[l] + Cardinality(Uncounted(l)') = a + 1
  BY <1>1, <1>2
<1> HIDE DEF a, b
<1>6. (a + 1) % Modulus = (b + 1) % Modulus
  BY <1>4, RemainderNext
<1> QED
  BY <1>3, <1>5, <1>6 DEF LoadOf

\* The call counts: the counter goes up.
LEMMA LoadCounted ==
    ASSUME TypeOK, NEW l \in Loops, LoadOf(l), inflight'[l] = Up(inflight[l]),
           NEW t, t \in Uncounted(l), Uncounted(l)' = Uncounted(l) \ {t},
           queue'[l] = queue[l], Waits(l)' = Waits(l)
    PROVE  LoadOf(l)'
<1> DEFINE u == Cardinality(Uncounted(l))
<1>1. IsFiniteSet(Uncounted(l)) /\ u \in Nat /\ inflight[l] \in 0 .. Modulus - 1
  BY LoadFinite
<1>2. Cardinality(Uncounted(l)') = u - 1 /\ IsFiniteSet(Uncounted(l)')
  BY <1>1, FS_RemoveElement
<1>3. Cardinality(Uncounted(l)') \in Nat
  BY <1>2, FS_CardinalityType
<1>4. u \in Nat \ {0}
  BY <1>1, <1>2, <1>3
<1> HIDE DEF u
<1>5. (Up(inflight[l]) + (u - 1)) % Modulus = (inflight[l] + u) % Modulus
  BY <1>1, <1>4, CountedUp
<1> QED
  BY <1>2, <1>5 DEF LoadOf, Load, u

\* A coroutine is resumed: the counter goes down.
LEMMA LoadShrinks ==
    ASSUME TypeOK, NEW l \in Loops, LoadOf(l), inflight'[l] = Down(inflight[l]),
           Uncounted(l)' = Uncounted(l), NEW c,
           \/ c \in queue[l] /\ queue'[l] = queue[l] \ {c} /\ Waits(l)' = Waits(l)
           \/ c \in Waits(l) /\ Waits(l)' = Waits(l) \ {c} /\ queue'[l] = queue[l]
    PROVE  LoadOf(l)'
<1> DEFINE u == Cardinality(Uncounted(l))
           q == Cardinality(queue[l])
           w == Cardinality(Waits(l))
<1>1. /\ IsFiniteSet(queue[l]) /\ IsFiniteSet(Waits(l))
      /\ q \in Nat /\ w \in Nat /\ u \in Nat /\ inflight[l] \in 0 .. Modulus - 1
  BY LoadFinite
<1>2. Load(l) = q + w /\ (inflight[l] + u) % Modulus = Load(l) % Modulus
  BY DEF LoadOf, Load
<1>3. Load(l)' = q + w - 1 /\ q + w > 0
  <2>1. CASE c \in queue[l] /\ queue'[l] = queue[l] \ {c} /\ Waits(l)' = Waits(l)
    <3>0. IsFiniteSet(queue[l] \ {c}) /\ Cardinality(queue[l] \ {c}) = q - 1
      BY <1>1, <2>1, FS_RemoveElement
    <3>1. Cardinality(queue'[l]) = q - 1 /\ IsFiniteSet(queue'[l])
      BY <2>1, <3>0
    <3>2. Cardinality(queue'[l]) \in Nat
      BY <3>1, FS_CardinalityType
    <3>3. Cardinality(Waits(l)') = w
      BY <2>1
    <3> HIDE DEF q, w
    <3> QED
      BY <1>1, <3>1, <3>2, <3>3 DEF Load
  <2>2. CASE c \in Waits(l) /\ Waits(l)' = Waits(l) \ {c} /\ queue'[l] = queue[l]
    <3>1. Cardinality(Waits(l)') = w - 1 /\ IsFiniteSet(Waits(l)')
      BY <1>1, <2>2, FS_RemoveElement
    <3>2. Cardinality(Waits(l)') \in Nat
      BY <3>1, FS_CardinalityType
    <3>3. Cardinality(queue'[l]) = q
      BY <2>2
    <3> HIDE DEF q, w
    <3> QED
      BY <1>1, <3>1, <3>2, <3>3 DEF Load
  <2> QED
    BY <2>1, <2>2
<1>4. Cardinality(Uncounted(l)') = u
  OBVIOUS
<1> DEFINE s == q + w
<1>5. s \in Nat \ {0} /\ (inflight[l] + u) % Modulus = s % Modulus
  BY <1>1, <1>2, <1>3
<1>7. Load(l)' = s - 1
  BY <1>1, <1>3
<1> HIDE DEF q, w, u, s
<1>6. (Down(inflight[l]) + u) % Modulus = (s - 1) % Modulus
  BY <1>1, <1>5, CountedDown
<1>8. inflight'[l] + Cardinality(Uncounted(l)') = Down(inflight[l]) + u
  BY <1>4
<1> QED
  BY <1>6, <1>7, <1>8 DEF LoadOf

\* A thread that is in no call is in none: every step of a call says which it
\* is, and Return forgets it.
LEMMA OpStep == TypeInv /\ OpInv /\ [Next]_vars => OpInv'
<1> SUFFICES ASSUME TypeInv, OpInv, [Next]_vars PROVE OpInv'
  OBVIOUS
<1>t. Loops \subseteq Threads /\ Main \in Threads /\ Main \notin Loops
  BY LoopAssumption DEF Threads
<1>u. ThreadTypeOK /\ CallInv /\ OpInv
  BY DEF TypeInv, TypeOK
<1>1. ASSUME NEW t \in Threads, NEW c \in Coros, NEW l \in Loops, AwaitHop(t,
             c, l)
      PROVE  OpInv'
  BY <1>1, <1>t, <1>u
     DEF AwaitHop, Goto, Call, Return, AfterSignal, Suspends, ThreadTypeOK,
         CallInv, OpInv, CallPCs,
         LoopPCs, threadVars, coroVars, loopVars
<1>2. ASSUME NEW t \in Threads, NEW c \in Coros, NEW l \in Loops,
             NEW d \in DelayTimeouts, AwaitDelay(t, c, l, d)
      PROVE  OpInv'
  BY <1>2, <1>t, <1>u
     DEF AwaitDelay, Goto, Call, Return, AfterSignal, Suspends, ThreadTypeOK,
         CallInv, OpInv, CallPCs,
         LoopPCs, threadVars, coroVars, loopVars
<1>3. ASSUME NEW t \in Threads, NEW c \in Coros, NEW l \in Loops,
             NEW f \in Fds, NEW d \in FdTimeouts, AwaitFd(t, c, l, f, d)
      PROVE  OpInv'
  BY <1>3, <1>t, <1>u
     DEF AwaitFd, Registered, Goto, Call, Return, AfterSignal, Suspends,
         ThreadTypeOK, CallInv, OpInv, CallPCs,
         LoopPCs, threadVars, coroVars, loopVars
<1>4. ASSUME NEW t \in Threads, EpollMod(t) PROVE OpInv'
  BY <1>4, <1>t, <1>u
     DEF EpollMod, Registered, Goto, Call, Return, AfterSignal, Suspends,
         ThreadTypeOK, CallInv, OpInv, CallPCs,
         LoopPCs, threadVars, coroVars, loopVars
<1>5. ASSUME NEW t \in Threads, AddEventTimer(t) PROVE OpInv'
  BY <1>5, <1>t, <1>u
     DEF AddEventTimer, Goto, Call, Return, AfterSignal, Suspends,
         ThreadTypeOK, CallInv, OpInv, CallPCs,
         LoopPCs, threadVars, coroVars, loopVars
<1>6. ASSUME NEW t \in Threads, SetScheduled(t) PROVE OpInv'
  BY <1>6, <1>t, <1>u
     DEF SetScheduled, Goto, Call, Return, AfterSignal, Suspends, ThreadTypeOK,
         CallInv, OpInv, CallPCs,
         LoopPCs, threadVars, coroVars, loopVars
<1>7. ASSUME NEW t \in Threads, Record(t) PROVE OpInv'
  BY <1>7, <1>t, <1>u
     DEF Record, Goto, Call, Return, AfterSignal, Suspends, ThreadTypeOK,
         CallInv, OpInv, CallPCs,
         LoopPCs, threadVars, coroVars, loopVars
<1>8. ASSUME NEW t \in Threads, SignalCas(t) PROVE OpInv'
  BY <1>8, <1>t, <1>u
     DEF SignalCas, Goto, Call, Return, AfterSignal, Suspends, ThreadTypeOK,
         CallInv, OpInv, CallPCs,
         LoopPCs, threadVars, coroVars, loopVars
<1>9. ASSUME NEW t \in Threads, SignalWrite(t) PROVE OpInv'
  BY <1>9, <1>t, <1>u
     DEF SignalWrite, Goto, Call, Return, AfterSignal, Suspends, ThreadTypeOK,
         CallInv, OpInv, CallPCs,
         LoopPCs, threadVars, coroVars, loopVars
<1>10. ASSUME NEW t \in Threads, SignalReset(t) PROVE OpInv'
  BY <1>10, <1>t, <1>u
     DEF SignalReset, Goto, Call, Return, AfterSignal, Suspends, ThreadTypeOK,
         CallInv, OpInv, CallPCs,
         LoopPCs, threadVars, coroVars, loopVars
<1>11. ASSUME NEW t \in Threads, Finish(t) PROVE OpInv'
  BY <1>11, <1>t, <1>u
     DEF Finish, Goto, Call, Return, AfterSignal, Suspends, ThreadTypeOK,
         CallInv, OpInv, CallPCs,
         LoopPCs, threadVars, coroVars, loopVars
<1>12. ASSUME NEW l \in Loops, LoopTop(l) PROVE OpInv'
  BY <1>12, <1>t, <1>u
     DEF LoopTop, Goto, Call, Return, AfterSignal, Suspends, ThreadTypeOK,
         CallInv, OpInv, CallPCs,
         LoopPCs, threadVars, coroVars, loopVars
<1>13. ASSUME NEW l \in Loops, EpollWait(l) \/ Interrupted(l) PROVE OpInv'
  BY <1>13, <1>t, <1>u
     DEF EpollWait, Interrupted, EpollReturns, Goto, Call, Return, AfterSignal,
         Suspends, ThreadTypeOK, CallInv, OpInv, CallPCs,
         LoopPCs, threadVars, coroVars, loopVars
<1>14. ASSUME NEW l \in Loops, DrainEnd(l) PROVE OpInv'
  BY <1>14, <1>t, <1>u
     DEF DrainEnd, Goto, Call, Return, AfterSignal, Suspends, ThreadTypeOK,
         CallInv, OpInv, CallPCs,
         LoopPCs, threadVars, coroVars, loopVars
<1>15. ASSUME NEW l \in Loops, HandleThreadEvent(l) PROVE OpInv'
  BY <1>15, <1>t, <1>u
     DEF HandleThreadEvent, Goto, Call, Return, AfterSignal, Suspends,
         ThreadTypeOK, CallInv, OpInv, CallPCs,
         LoopPCs, threadVars, coroVars, loopVars
<1>16. ASSUME NEW l \in Loops, EventsEnd(l) PROVE OpInv'
  BY <1>16, <1>t, <1>u
     DEF EventsEnd, Goto, Call, Return, AfterSignal, Suspends, ThreadTypeOK,
         CallInv, OpInv, CallPCs,
         LoopPCs, threadVars, coroVars, loopVars
<1>17. ASSUME NEW l \in Loops, TakeExpiredTimer(l) PROVE OpInv'
  BY <1>17, <1>t, <1>u
     DEF TakeExpiredTimer, Goto, Call, Return, AfterSignal, Suspends,
         ThreadTypeOK, CallInv, OpInv, CallPCs,
         LoopPCs, threadVars, coroVars, loopVars
<1>18. ASSUME NEW l \in Loops, DropTimer(l) PROVE OpInv'
  BY <1>18, <1>t, <1>u
     DEF DropTimer, Goto, Call, Return, AfterSignal, Suspends, ThreadTypeOK,
         CallInv, OpInv, CallPCs,
         LoopPCs, threadVars, coroVars, loopVars
<1>19. ASSUME NEW l \in Loops, TimersEnd(l) PROVE OpInv'
  BY <1>19, <1>t, <1>u
     DEF TimersEnd, Goto, Call, Return, AfterSignal, Suspends, ThreadTypeOK,
         CallInv, OpInv, CallPCs,
         LoopPCs, threadVars, coroVars, loopVars
<1>20. ASSUME NEW l \in Loops, NEW c \in Coros, ResumeScheduled(l, c)
       PROVE  OpInv'
  BY <1>20, <1>t, <1>u
     DEF ResumeScheduled, Resume, Goto, Call, Return, AfterSignal, Suspends,
         ThreadTypeOK, CallInv, OpInv, CallPCs,
         LoopPCs, threadVars, coroVars, loopVars
<1>21. ASSUME NEW l \in Loops, NEW c \in Coros, HandleEvent(l, c) PROVE OpInv'
  BY <1>21, <1>t, <1>u
     DEF HandleEvent, NextEvent, Resume, Goto, Call, Return, AfterSignal,
         Suspends, ThreadTypeOK, CallInv, OpInv, CallPCs,
         LoopPCs, threadVars, coroVars, loopVars
<1>22. ASSUME NEW l \in Loops, NEW c \in Coros, SkipEvent(l, c) PROVE OpInv'
  BY <1>22, <1>t, <1>u
     DEF SkipEvent, Goto, Call, Return, AfterSignal, Suspends, ThreadTypeOK,
         CallInv, OpInv, CallPCs,
         LoopPCs, threadVars, coroVars, loopVars
<1>23. ASSUME NEW l \in Loops, NEW c \in Coros, FireTimer(l, c) PROVE OpInv'
  BY <1>23, <1>t, <1>u
     DEF FireTimer, Resume, Goto, Call, Return, AfterSignal, Suspends,
         ThreadTypeOK, CallInv, OpInv, CallPCs,
         LoopPCs, threadVars, coroVars, loopVars
<1>24. ASSUME NEW c \in Coros, Start(c) PROVE OpInv'
  BY <1>24, <1>t, <1>u
     DEF Start, Goto, Call, Return, AfterSignal, Suspends, ThreadTypeOK,
         CallInv, OpInv, CallPCs,
         LoopPCs, threadVars, coroVars, loopVars
<1>25. ASSUME NEW l \in Loops, Abort(l) PROVE OpInv'
  BY <1>25, <1>t, <1>u
     DEF Abort, Goto, Call, Return, AfterSignal, Suspends, ThreadTypeOK,
         CallInv, OpInv, CallPCs,
         LoopPCs, threadVars, coroVars, loopVars
<1>26. ASSUME Join PROVE OpInv'
  BY <1>26, <1>t, <1>u
     DEF Join, Goto, Call, Return, AfterSignal, Suspends, ThreadTypeOK,
         CallInv, OpInv, CallPCs,
         LoopPCs, threadVars, coroVars, loopVars
<1>27. ASSUME Tick PROVE OpInv'
  BY <1>27, <1>t, <1>u
     DEF Tick, Goto, Call, Return, AfterSignal, Suspends, ThreadTypeOK,
         CallInv, OpInv, CallPCs,
         LoopPCs, threadVars, coroVars, loopVars
<1>28. ASSUME NEW f \in Fds, FdReady(f) PROVE OpInv'
  BY <1>28, <1>t, <1>u
     DEF FdReady, Goto, Call, Return, AfterSignal, Suspends, ThreadTypeOK,
         CallInv, OpInv, CallPCs,
         LoopPCs, threadVars, coroVars, loopVars
<1>29. ASSUME UNCHANGED vars PROVE OpInv'
  BY <1>29, <1>t, <1>u
     DEF vars, Goto, Call, Return, AfterSignal, Suspends, ThreadTypeOK,
         CallInv, OpInv, CallPCs,
         LoopPCs, threadVars, coroVars, loopVars
<1> QED
  BY <1>1, <1>2, <1>3, <1>4, <1>5, <1>6, <1>7, <1>8, <1>9, <1>10, <1>11, <1>12,
     <1>13, <1>14, <1>15, <1>16, <1>17, <1>18, <1>19, <1>20, <1>21, <1>22,
     <1>23, <1>24, <1>25, <1>26, <1>27, <1>28, <1>29
     DEF Next, CallStep, LoopStep

\* Every step keeps the equation: a call that has yet to count adds to both
\* sides, counting moves it to the counter, and a loop resumes only what is in
\* its own queue or waits (NoDanglingEvent, OffList).
LEMMA LoadStep == IndInv /\ OpInv /\ LoadAccounting /\ [Next]_vars => LoadAccounting'
<1> SUFFICES ASSUME IndInv, OpInv, LoadAccounting, [Next]_vars,
                    NEW k \in Loops
             PROVE  LoadOf(k)'
  BY DEF LoadAccounting, LoadOf, Load, Waits
<1>a. LoadOf(k)
  BY DEF LoadAccounting, LoadOf, Load, Waits
<1>t. Loops \subseteq Threads /\ Main \in Threads /\ Main \notin Loops /\ None \notin Loops
      /\ None \notin Coros
  BY LoopAssumption DEF Threads
<1>u. TypeOK /\ ThreadTypeOK /\ LoopTypeOK /\ CoroTypeOK /\ PollTypeOK
  BY DEF IndInv, OwnershipInv, TypeOK
<1>i. CallInv /\ OwnerInv /\ OpInv
  BY DEF IndInv, OwnershipInv
<1>1. ASSUME NEW t \in Threads, NEW c \in Coros, NEW l \in Loops, AwaitHop(t,
             c, l)
      PROVE  LoadOf(k)'
  <2>1. inflight'[k] = inflight[k]
    BY <1>1 DEF AwaitHop
  <2>2. /\ t \notin Uncounted(k)
        /\ Uncounted(k)' = IF k = l THEN Uncounted(k) \cup {t} ELSE Uncounted(k)
    BY <1>1, <1>t, <1>u, <1>i
       DEF AwaitHop, AddPCs, Suspends, Goto, Call, Return, AfterSignal,
           ThreadTypeOK,
           CallInv, OpInv, CallPCs, LoopPCs, threadVars, Uncounted
  <2>3. Waits(k)' = Waits(k)
    BY <1>1 DEF AwaitHop, Waits
  <2>a. run[t] = c
    BY <1>1 DEF AwaitHop, Suspends
  <2>b. c \notin queue[k]
    BY <1>i, <2>a DEF OwnerInv, ExclusiveResume
  <2>4. c \notin queue[k] /\ queue'[k] = IF k = l THEN queue[k] \cup {c} ELSE queue[k]
    BY <1>1, <1>u, <2>b DEF AwaitHop, LoopTypeOK
  <2>5. CASE k = l
    BY <1>a, <1>u, <2>1, <2>2, <2>3, <2>4, <2>5, LoadGrows
  <2>6. CASE k # l
    BY <1>a, <2>1, <2>2, <2>3, <2>4, <2>6, LoadSame
  <2> QED
    BY <2>5, <2>6
<1>2. ASSUME NEW t \in Threads, NEW c \in Coros, NEW l \in Loops,
             NEW d \in DelayTimeouts, AwaitDelay(t, c, l, d)
      PROVE  LoadOf(k)'
  <2>1. inflight'[k] = inflight[k]
    BY <1>2 DEF AwaitDelay
  <2>2. /\ t \notin Uncounted(k)
        /\ Uncounted(k)' = IF k = l THEN Uncounted(k) \cup {t} ELSE Uncounted(k)
    BY <1>2, <1>t, <1>u, <1>i
       DEF AwaitDelay, AddPCs, Suspends, Goto, Call, Return, AfterSignal,
           ThreadTypeOK,
           CallInv, OpInv, CallPCs, LoopPCs, threadVars, Uncounted
  <2>3. c \notin Waits(k) /\ Waits(k)' = IF k = l THEN Waits(k) \cup {c} ELSE Waits(k)
    BY <1>2, <1>t, <1>u, <1>i
       DEF AwaitDelay, Waits, Suspends, OwnerInv, ExclusiveResume, CoroTypeOK,
           ThreadTypeOK, CallInv, Holds, AddPCs, CallPCs
  <2>4. queue'[k] = queue[k]
    BY <1>2 DEF AwaitDelay, loopVars
  <2>5. CASE k = l
    BY <1>a, <1>u, <2>1, <2>2, <2>3, <2>4, <2>5, LoadGrows
  <2>6. CASE k # l
    BY <1>a, <2>1, <2>2, <2>3, <2>4, <2>6, LoadSame
  <2> QED
    BY <2>5, <2>6
<1>3. ASSUME NEW t \in Threads, NEW c \in Coros, NEW l \in Loops,
             NEW f \in Fds, NEW d \in FdTimeouts, AwaitFd(t, c, l, f, d)
      PROVE  LoadOf(k)'
  <2>1. UNCHANGED <<queue, inflight>>
    BY <1>3 DEF AwaitFd, Registered, loopVars
  <2>2. Waits(k)' = Waits(k)
    BY <1>3, <1>t, <1>u, <1>i
       DEF AwaitFd, Registered, Waits, coroVars, Suspends, OwnerInv,
           ExclusiveResume, CoroTypeOK, ThreadTypeOK
  <2>3. Uncounted(k)' = Uncounted(k)
    BY <1>3, <1>t, <1>u, <1>i
       DEF AwaitFd, Registered, AddPCs, Suspends, Goto, Call, Return,
           AfterSignal, ThreadTypeOK,
           CallInv, OpInv, CallPCs, LoopPCs, threadVars, Uncounted
  <2> QED
    BY <1>a, <2>1, <2>2, <2>3, LoadSame
<1>4. ASSUME NEW t \in Threads, EpollMod(t) PROVE LoadOf(k)'
  <2>1. UNCHANGED <<queue, inflight>>
    BY <1>4 DEF EpollMod, Registered, loopVars
  <2>2. Waits(k)' = Waits(k)
    BY <1>4, <1>t, <1>u, <1>i DEF EpollMod, Registered, Waits, coroVars
  <2>3. Uncounted(k)' = Uncounted(k)
    BY <1>4, <1>t, <1>u, <1>i
       DEF EpollMod, Registered, AddPCs, Suspends, Goto, Call, Return,
           AfterSignal, ThreadTypeOK,
           CallInv, OpInv, CallPCs, LoopPCs, threadVars, Uncounted
  <2> QED
    BY <1>a, <2>1, <2>2, <2>3, LoadSame
<1>5. ASSUME NEW t \in Threads, AddEventTimer(t) PROVE LoadOf(k)'
  <2>1. UNCHANGED <<queue, inflight>>
    BY <1>5 DEF AddEventTimer, loopVars
  <2>2. Waits(k)' = Waits(k)
    BY <1>5, <1>t, <1>u, <1>i DEF AddEventTimer, Waits, coroVars
  <2>3. Uncounted(k)' = Uncounted(k)
    BY <1>5, <1>t, <1>u, <1>i
       DEF AddEventTimer, AddPCs, Suspends, Goto, Call, Return, AfterSignal,
           ThreadTypeOK,
           CallInv, OpInv, CallPCs, LoopPCs, threadVars, Uncounted
  <2> QED
    BY <1>a, <2>1, <2>2, <2>3, LoadSame
<1>6. ASSUME NEW t \in Threads, SetScheduled(t) PROVE LoadOf(k)'
  <2>1. inflight'[k] = inflight[k]
    BY <1>6 DEF SetScheduled
  <2>2. /\ t \notin Uncounted(k)
        /\ Uncounted(k)' = IF k = tgt[t] THEN Uncounted(k) \cup {t} ELSE Uncounted(k)
    BY <1>6, <1>t, <1>u, <1>i
       DEF SetScheduled, AddPCs, Suspends, Goto, Call, Return, AfterSignal,
           ThreadTypeOK,
           CallInv, OpInv, CallPCs, LoopPCs, threadVars, Uncounted
  <2>3. /\ run[t] \notin Waits(k)
        /\ Waits(k)' = IF k = tgt[t] THEN Waits(k) \cup {run[t]} ELSE Waits(k)
    BY <1>6, <1>t, <1>u, <1>i
       DEF SetScheduled, Waits, Suspends, OwnerInv, ExclusiveResume,
           CoroTypeOK, ThreadTypeOK, CallInv, Holds, AddPCs, CallPCs
  <2>4. queue'[k] = queue[k]
    BY <1>6 DEF SetScheduled, loopVars
  <2>5. CASE k = tgt[t]
    BY <1>a, <1>u, <2>1, <2>2, <2>3, <2>4, <2>5, LoadGrows
  <2>6. CASE k # tgt[t]
    BY <1>a, <2>1, <2>2, <2>3, <2>4, <2>6, LoadSame
  <2> QED
    BY <2>5, <2>6
<1>7. ASSUME NEW t \in Threads, Record(t) PROVE LoadOf(k)'
  <2>1. inflight'[k] = IF k = tgt[t] THEN Up(inflight[k]) ELSE inflight[k]
    BY <1>7, <1>u DEF Record, LoopTypeOK
  <2>2. /\ t \in Uncounted(k) <=> k = tgt[t]
        /\ Uncounted(k)' = Uncounted(k) \ {t}
    BY <1>7, <1>t, <1>u, <1>i
       DEF Record, AddPCs, Suspends, Goto, Call, Return, AfterSignal,
           ThreadTypeOK,
           CallInv, OpInv, CallPCs, LoopPCs, threadVars, Uncounted
  <2>3. Waits(k)' = Waits(k) /\ queue'[k] = queue[k]
    BY <1>7 DEF Record, Waits, coroVars, loopVars
  <2>4. CASE k = tgt[t]
    BY <1>a, <1>u, <2>1, <2>2, <2>3, <2>4, LoadCounted
  <2>5. CASE k # tgt[t]
    BY <1>a, <2>1, <2>2, <2>3, <2>5, LoadSame
  <2> QED
    BY <2>4, <2>5
<1>8. ASSUME NEW t \in Threads, SignalCas(t) PROVE LoadOf(k)'
  <2>1. UNCHANGED <<queue, inflight>>
    BY <1>8 DEF SignalCas, loopVars
  <2>2. Waits(k)' = Waits(k)
    BY <1>8, <1>t, <1>u, <1>i DEF SignalCas, Waits, coroVars
  <2>3. Uncounted(k)' = Uncounted(k)
    BY <1>8, <1>t, <1>u, <1>i
       DEF SignalCas, AddPCs, Suspends, Goto, Call, Return, AfterSignal,
           ThreadTypeOK,
           CallInv, OpInv, CallPCs, LoopPCs, threadVars, Uncounted
  <2> QED
    BY <1>a, <2>1, <2>2, <2>3, LoadSame
<1>9. ASSUME NEW t \in Threads, SignalWrite(t) PROVE LoadOf(k)'
  <2>1. UNCHANGED <<queue, inflight>>
    BY <1>9 DEF SignalWrite, loopVars
  <2>2. Waits(k)' = Waits(k)
    BY <1>9, <1>t, <1>u, <1>i DEF SignalWrite, Waits, coroVars
  <2>3. Uncounted(k)' = Uncounted(k)
    BY <1>9, <1>t, <1>u, <1>i
       DEF SignalWrite, AddPCs, Suspends, Goto, Call, Return, AfterSignal,
           ThreadTypeOK,
           CallInv, OpInv, CallPCs, LoopPCs, threadVars, Uncounted
  <2> QED
    BY <1>a, <2>1, <2>2, <2>3, LoadSame
<1>10. ASSUME NEW t \in Threads, SignalReset(t) PROVE LoadOf(k)'
  <2>1. UNCHANGED <<queue, inflight>>
    BY <1>10 DEF SignalReset, loopVars
  <2>2. Waits(k)' = Waits(k)
    BY <1>10, <1>t, <1>u, <1>i DEF SignalReset, Waits, coroVars
  <2>3. Uncounted(k)' = Uncounted(k)
    BY <1>10, <1>t, <1>u, <1>i
       DEF SignalReset, AddPCs, Suspends, Goto, Call, Return, AfterSignal,
           ThreadTypeOK,
           CallInv, OpInv, CallPCs, LoopPCs, threadVars, Uncounted
  <2> QED
    BY <1>a, <2>1, <2>2, <2>3, LoadSame
<1>11. ASSUME NEW t \in Threads, Finish(t) PROVE LoadOf(k)'
  <2>1. UNCHANGED <<queue, inflight>>
    BY <1>11 DEF Finish, loopVars
  <2>2. Waits(k)' = Waits(k)
    BY <1>11, <1>t, <1>u, <1>i
       DEF Finish, Waits, coroVars, Suspends, OwnerInv, ExclusiveResume,
           CoroTypeOK, ThreadTypeOK
  <2>3. Uncounted(k)' = Uncounted(k)
    BY <1>11, <1>t, <1>u, <1>i
       DEF Finish, AddPCs, Suspends, Goto, Call, Return, AfterSignal,
           ThreadTypeOK,
           CallInv, OpInv, CallPCs, LoopPCs, threadVars, Uncounted
  <2> QED
    BY <1>a, <2>1, <2>2, <2>3, LoadSame
<1>12. ASSUME NEW l \in Loops, LoopTop(l) PROVE LoadOf(k)'
  <2>1. UNCHANGED <<queue, inflight>>
    BY <1>12 DEF LoopTop, loopVars
  <2>2. Waits(k)' = Waits(k)
    BY <1>12, <1>t, <1>u, <1>i DEF LoopTop, Waits, coroVars
  <2>3. Uncounted(k)' = Uncounted(k)
    BY <1>12, <1>t, <1>u, <1>i
       DEF LoopTop, AddPCs, Suspends, Goto, Call, Return, AfterSignal,
           ThreadTypeOK,
           CallInv, OpInv, CallPCs, LoopPCs, threadVars, Uncounted
  <2> QED
    BY <1>a, <2>1, <2>2, <2>3, LoadSame
<1>13. ASSUME NEW l \in Loops, EpollWait(l) \/ Interrupted(l) PROVE LoadOf(k)'
  <2>1. UNCHANGED <<queue, inflight>>
    BY <1>13 DEF EpollWait, Interrupted, EpollReturns, loopVars
  <2>2. Waits(k)' = Waits(k)
    BY <1>13, <1>t, <1>u, <1>i
       DEF EpollWait, Interrupted, EpollReturns, Waits, coroVars
  <2>3. Uncounted(k)' = Uncounted(k)
    BY <1>13, <1>t, <1>u, <1>i
       DEF EpollWait, Interrupted, EpollReturns, AddPCs, Suspends, Goto, Call,
           Return, AfterSignal, ThreadTypeOK,
           CallInv, OpInv, CallPCs, LoopPCs, threadVars, Uncounted
  <2> QED
    BY <1>a, <2>1, <2>2, <2>3, LoadSame
<1>14. ASSUME NEW l \in Loops, DrainEnd(l) PROVE LoadOf(k)'
  <2>1. UNCHANGED <<queue, inflight>>
    BY <1>14 DEF DrainEnd, loopVars
  <2>2. Waits(k)' = Waits(k)
    BY <1>14, <1>t, <1>u, <1>i DEF DrainEnd, Waits, coroVars
  <2>3. Uncounted(k)' = Uncounted(k)
    BY <1>14, <1>t, <1>u, <1>i
       DEF DrainEnd, AddPCs, Suspends, Goto, Call, Return, AfterSignal,
           ThreadTypeOK,
           CallInv, OpInv, CallPCs, LoopPCs, threadVars, Uncounted
  <2> QED
    BY <1>a, <2>1, <2>2, <2>3, LoadSame
<1>15. ASSUME NEW l \in Loops, HandleThreadEvent(l) PROVE LoadOf(k)'
  <2>1. UNCHANGED <<queue, inflight>>
    BY <1>15 DEF HandleThreadEvent, loopVars
  <2>2. Waits(k)' = Waits(k)
    BY <1>15, <1>t, <1>u, <1>i DEF HandleThreadEvent, Waits, coroVars
  <2>3. Uncounted(k)' = Uncounted(k)
    BY <1>15, <1>t, <1>u, <1>i
       DEF HandleThreadEvent, AddPCs, Suspends, Goto, Call, Return,
           AfterSignal, ThreadTypeOK,
           CallInv, OpInv, CallPCs, LoopPCs, threadVars, Uncounted
  <2> QED
    BY <1>a, <2>1, <2>2, <2>3, LoadSame
<1>16. ASSUME NEW l \in Loops, EventsEnd(l) PROVE LoadOf(k)'
  <2>1. UNCHANGED <<queue, inflight>>
    BY <1>16 DEF EventsEnd, loopVars
  <2>2. Waits(k)' = Waits(k)
    BY <1>16, <1>t, <1>u, <1>i DEF EventsEnd, Waits, coroVars
  <2>3. Uncounted(k)' = Uncounted(k)
    BY <1>16, <1>t, <1>u, <1>i
       DEF EventsEnd, AddPCs, Suspends, Goto, Call, Return, AfterSignal,
           ThreadTypeOK,
           CallInv, OpInv, CallPCs, LoopPCs, threadVars, Uncounted
  <2> QED
    BY <1>a, <2>1, <2>2, <2>3, LoadSame
<1>17. ASSUME NEW l \in Loops, TakeExpiredTimer(l) PROVE LoadOf(k)'
  <2>1. UNCHANGED <<queue, inflight>>
    BY <1>17 DEF TakeExpiredTimer, loopVars
  <2>2. Waits(k)' = Waits(k)
    BY <1>17, <1>t, <1>u, <1>i DEF TakeExpiredTimer, Waits, coroVars
  <2>3. Uncounted(k)' = Uncounted(k)
    BY <1>17, <1>t, <1>u, <1>i
       DEF TakeExpiredTimer, AddPCs, Suspends, Goto, Call, Return, AfterSignal,
           ThreadTypeOK,
           CallInv, OpInv, CallPCs, LoopPCs, threadVars, Uncounted
  <2> QED
    BY <1>a, <2>1, <2>2, <2>3, LoadSame
<1>18. ASSUME NEW l \in Loops, DropTimer(l) PROVE LoadOf(k)'
  <2>1. UNCHANGED <<queue, inflight>>
    BY <1>18 DEF DropTimer, loopVars
  <2>2. Waits(k)' = Waits(k)
    BY <1>18, <1>t, <1>u, <1>i DEF DropTimer, Waits, coroVars
  <2>3. Uncounted(k)' = Uncounted(k)
    BY <1>18, <1>t, <1>u, <1>i
       DEF DropTimer, AddPCs, Suspends, Goto, Call, Return, AfterSignal,
           ThreadTypeOK,
           CallInv, OpInv, CallPCs, LoopPCs, threadVars, Uncounted
  <2> QED
    BY <1>a, <2>1, <2>2, <2>3, LoadSame
<1>19. ASSUME NEW l \in Loops, TimersEnd(l) PROVE LoadOf(k)'
  <2>1. UNCHANGED <<queue, inflight>>
    BY <1>19 DEF TimersEnd, loopVars
  <2>2. Waits(k)' = Waits(k)
    BY <1>19, <1>t, <1>u, <1>i DEF TimersEnd, Waits, coroVars
  <2>3. Uncounted(k)' = Uncounted(k)
    BY <1>19, <1>t, <1>u, <1>i
       DEF TimersEnd, AddPCs, Suspends, Goto, Call, Return, AfterSignal,
           ThreadTypeOK,
           CallInv, OpInv, CallPCs, LoopPCs, threadVars, Uncounted
  <2> QED
    BY <1>a, <2>1, <2>2, <2>3, LoadSame
<1>20. ASSUME NEW l \in Loops, NEW c \in Coros, ResumeScheduled(l, c)
       PROVE  LoadOf(k)'
  <2>1. inflight'[k] = IF k = l THEN Down(inflight[k]) ELSE inflight[k]
    BY <1>20, <1>u DEF ResumeScheduled, Resume, LoopTypeOK
  <2>2. Uncounted(k)' = Uncounted(k)
    BY <1>20, <1>t, <1>u, <1>i
       DEF ResumeScheduled, Resume, AddPCs, Suspends, Goto, Call, Return,
           AfterSignal, ThreadTypeOK,
           CallInv, OpInv, CallPCs, LoopPCs, threadVars, Uncounted
  <2>3. Waits(k)' = Waits(k)
    BY <1>20, <1>t, <1>u, <1>i
       DEF ResumeScheduled, Resume, Waits, Suspends, OwnerInv, ExclusiveResume,
           CoroTypeOK, ThreadTypeOK
  <2>4. (c \in queue[k] <=> k = l) /\ queue'[k] = queue[k] \ {c}
    BY <1>20, <1>t, <1>u, <1>i
       DEF ResumeScheduled, Resume, Suspends, OwnerInv, ExclusiveResume,
           CoroTypeOK, ThreadTypeOK, LoopTypeOK
  <2>5. CASE k = l
    BY <1>a, <1>u, <2>1, <2>2, <2>3, <2>4, <2>5, LoadShrinks
  <2>6. CASE k # l
    BY <1>a, <2>1, <2>2, <2>3, <2>4, <2>6, LoadSame
  <2> QED
    BY <2>5, <2>6
<1>21. ASSUME NEW l \in Loops, NEW c \in Coros, HandleEvent(l, c)
       PROVE  LoadOf(k)'
  <2>1. inflight'[k] = IF k = l THEN Down(inflight[k]) ELSE inflight[k]
    BY <1>21, <1>u DEF HandleEvent, NextEvent, Resume, LoopTypeOK
  <2>2. Uncounted(k)' = Uncounted(k)
    BY <1>21, <1>t, <1>u, <1>i
       DEF HandleEvent, NextEvent, Resume, AddPCs, Suspends, Goto, Call,
           Return, AfterSignal, ThreadTypeOK,
           CallInv, OpInv, CallPCs, LoopPCs, threadVars, Uncounted
  <2>a. st[c] = "scheduled" /\ at[c] = l
    BY <1>21, <1>t, <1>u
       DEF HandleEvent, NextEvent, Resume, Claims, IndInv, NoDanglingEvent,
           OffList
  <2>3. (c \in Waits(k) <=> k = l) /\ Waits(k)' = Waits(k) \ {c}
    BY <1>21, <1>t, <1>u, <2>a
       DEF HandleEvent, NextEvent, Resume, Waits, CoroTypeOK
  <2>4. queue'[k] = queue[k]
    BY <1>21 DEF HandleEvent, NextEvent, Resume
  <2>5. CASE k = l
    BY <1>a, <1>u, <2>1, <2>2, <2>3, <2>4, <2>5, LoadShrinks
  <2>6. CASE k # l
    BY <1>a, <2>1, <2>2, <2>3, <2>4, <2>6, LoadSame
  <2> QED
    BY <2>5, <2>6
<1>22. ASSUME NEW l \in Loops, NEW c \in Coros, SkipEvent(l, c) PROVE LoadOf(k)'
  <2>1. UNCHANGED <<queue, inflight>>
    BY <1>22 DEF SkipEvent, loopVars
  <2>2. Waits(k)' = Waits(k)
    BY <1>22, <1>t, <1>u, <1>i DEF SkipEvent, Waits, coroVars
  <2>3. Uncounted(k)' = Uncounted(k)
    BY <1>22, <1>t, <1>u, <1>i
       DEF SkipEvent, AddPCs, Suspends, Goto, Call, Return, AfterSignal,
           ThreadTypeOK,
           CallInv, OpInv, CallPCs, LoopPCs, threadVars, Uncounted
  <2> QED
    BY <1>a, <2>1, <2>2, <2>3, LoadSame
<1>23. ASSUME NEW l \in Loops, NEW c \in Coros, FireTimer(l, c) PROVE LoadOf(k)'
  <2>1. inflight'[k] = IF k = l THEN Down(inflight[k]) ELSE inflight[k]
    BY <1>23, <1>u DEF FireTimer, Resume, LoopTypeOK
  <2>2. Uncounted(k)' = Uncounted(k)
    BY <1>23, <1>t, <1>u, <1>i
       DEF FireTimer, Resume, AddPCs, Suspends, Goto, Call, Return,
           AfterSignal, ThreadTypeOK,
           CallInv, OpInv, CallPCs, LoopPCs, threadVars, Uncounted
  <2>a. st[c] = "scheduled" /\ at[c] = l
    BY <1>23, <1>t, <1>u
       DEF FireTimer, Resume, Claims, IndInv, NoDanglingEvent, OffList
  <2>3. (c \in Waits(k) <=> k = l) /\ Waits(k)' = Waits(k) \ {c}
    BY <1>23, <1>t, <1>u, <2>a DEF FireTimer, Resume, Waits, CoroTypeOK
  <2>4. queue'[k] = queue[k]
    BY <1>23 DEF FireTimer, Resume
  <2>5. CASE k = l
    BY <1>a, <1>u, <2>1, <2>2, <2>3, <2>4, <2>5, LoadShrinks
  <2>6. CASE k # l
    BY <1>a, <2>1, <2>2, <2>3, <2>4, <2>6, LoadSame
  <2> QED
    BY <2>5, <2>6
<1>24. ASSUME NEW c \in Coros, Start(c) PROVE LoadOf(k)'
  <2>1. UNCHANGED <<queue, inflight>>
    BY <1>24 DEF Start, loopVars
  <2>2. Waits(k)' = Waits(k)
    BY <1>24, <1>t, <1>u, <1>i
       DEF Start, Waits, coroVars, Suspends, OwnerInv, ExclusiveResume,
           CoroTypeOK, ThreadTypeOK
  <2>3. Uncounted(k)' = Uncounted(k)
    BY <1>24, <1>t, <1>u, <1>i
       DEF Start, AddPCs, Suspends, Goto, Call, Return, AfterSignal,
           ThreadTypeOK,
           CallInv, OpInv, CallPCs, LoopPCs, threadVars, Uncounted
  <2> QED
    BY <1>a, <2>1, <2>2, <2>3, LoadSame
<1>25. ASSUME NEW l \in Loops, Abort(l) PROVE LoadOf(k)'
  <2>1. UNCHANGED <<queue, inflight>>
    BY <1>25 DEF Abort, loopVars
  <2>2. Waits(k)' = Waits(k)
    BY <1>25, <1>t, <1>u, <1>i DEF Abort, Waits, coroVars
  <2>3. Uncounted(k)' = Uncounted(k)
    BY <1>25, <1>t, <1>u, <1>i
       DEF Abort, AddPCs, Suspends, Goto, Call, Return, AfterSignal,
           ThreadTypeOK,
           CallInv, OpInv, CallPCs, LoopPCs, threadVars, Uncounted
  <2> QED
    BY <1>a, <2>1, <2>2, <2>3, LoadSame
<1>26. ASSUME Join PROVE LoadOf(k)'
  <2>1. UNCHANGED <<queue, inflight>>
    BY <1>26 DEF Join, loopVars
  <2>2. Waits(k)' = Waits(k)
    BY <1>26, <1>t, <1>u, <1>i DEF Join, Waits, coroVars
  <2>3. Uncounted(k)' = Uncounted(k)
    BY <1>26, <1>t, <1>u, <1>i
       DEF Join, AddPCs, Suspends, Goto, Call, Return, AfterSignal,
           ThreadTypeOK,
           CallInv, OpInv, CallPCs, LoopPCs, threadVars, Uncounted
  <2> QED
    BY <1>a, <2>1, <2>2, <2>3, LoadSame
<1>27. ASSUME Tick PROVE LoadOf(k)'
  <2>1. UNCHANGED <<queue, inflight>>
    BY <1>27 DEF Tick, loopVars
  <2>2. Waits(k)' = Waits(k)
    BY <1>27, <1>t, <1>u, <1>i DEF Tick, Waits, coroVars
  <2>3. Uncounted(k)' = Uncounted(k)
    BY <1>27, <1>t, <1>u, <1>i
       DEF Tick, AddPCs, Suspends, Goto, Call, Return, AfterSignal,
           ThreadTypeOK,
           CallInv, OpInv, CallPCs, LoopPCs, threadVars, Uncounted
  <2> QED
    BY <1>a, <2>1, <2>2, <2>3, LoadSame
<1>28. ASSUME NEW f \in Fds, FdReady(f) PROVE LoadOf(k)'
  <2>1. UNCHANGED <<queue, inflight>>
    BY <1>28 DEF FdReady, loopVars
  <2>2. Waits(k)' = Waits(k)
    BY <1>28, <1>t, <1>u, <1>i DEF FdReady, Waits, coroVars
  <2>3. Uncounted(k)' = Uncounted(k)
    BY <1>28, <1>t, <1>u, <1>i
       DEF FdReady, AddPCs, Suspends, Goto, Call, Return, AfterSignal,
           ThreadTypeOK,
           CallInv, OpInv, CallPCs, LoopPCs, threadVars, Uncounted
  <2> QED
    BY <1>a, <2>1, <2>2, <2>3, LoadSame
<1>29. ASSUME UNCHANGED vars PROVE LoadOf(k)'
  <2>1. UNCHANGED <<queue, inflight>>
    BY <1>29 DEF vars, loopVars, coroVars, loopVars
  <2>2. Waits(k)' = Waits(k)
    BY <1>29, <1>t, <1>u, <1>i DEF vars, loopVars, coroVars, Waits, coroVars
  <2>3. Uncounted(k)' = Uncounted(k)
    BY <1>29, <1>t, <1>u, <1>i
       DEF vars, loopVars, coroVars, AddPCs, Suspends, Goto, Call, Return,
           AfterSignal, ThreadTypeOK,
           CallInv, OpInv, CallPCs, LoopPCs, threadVars, Uncounted
  <2> QED
    BY <1>a, <2>1, <2>2, <2>3, LoadSame
<1> QED
  BY <1>1, <1>2, <1>3, <1>4, <1>5, <1>6, <1>7, <1>8, <1>9, <1>10, <1>11, <1>12,
     <1>13, <1>14, <1>15, <1>16, <1>17, <1>18, <1>19, <1>20, <1>21, <1>22,
     <1>23, <1>24, <1>25, <1>26, <1>27, <1>28, <1>29
     DEF Next, CallStep, LoopStep

\* The counters by which the scheduler chooses a loop are right at all times
\* (add(), handleEvent(), fireExpiredTimers() and the schedule queue of
\* thread.cpp), when Events with a deadline are added by the loop that serves
\* them: of any number of threads that count before or after the wait they
\* count has ended, none is lost, also where a counter passes zero.
THEOREM LoadCounts ==
    ASSUME TimersGuarded
    PROVE  Spec => []LoadAccounting
<1> DEFINE LInv == IndInv /\ OpInv /\ LoadAccounting
<1>1. Init => LInv
  <2> SUFFICES ASSUME Init PROVE OpInv /\ LoadAccounting
    BY IndInit
  <2>1. OpInv
    BY DEF Init, OpInv
  <2>2. ASSUME NEW l \in Loops PROVE LoadOf(l)
    <3>1. queue[l] = {} /\ Waits(l) = {} /\ Uncounted(l) = {} /\ inflight[l] = 0
      BY <2>2, LoopAssumption DEF Init, Waits, Uncounted, Threads
    <3>2. Cardinality({}) = 0
      BY FS_EmptySet
    <3> QED
      BY <3>1, <3>2 DEF LoadOf, Load
  <2> QED
    BY <2>1, <2>2 DEF LoadAccounting, LoadOf, Load, Waits
<1>2. LInv /\ [Next]_vars => LInv'
  BY IndStep, OpStep, LoadStep DEF IndInv, OwnershipInv, TypeInv
<1>3. LInv => LoadAccounting
  OBVIOUS
<1> QED
  BY <1>1, <1>2, <1>3, PTL DEF Spec

-----------------------------------------------------------------------------
(***************************************************************************)
(* The timer lists are complete and in order.  What a walk reaches is the  *)
(* least set closed under the links, so that each lemma about it turns a   *)
(* closed set of the list after a step into one of the list before.        *)
(***************************************************************************)
Closed(s, m, S) ==
    /\ s.first \in Coros => s.first \in S
    /\ \A j \in S : m.next[j] \in Coros => m.next[j] \in S

\* The members of a list are those of all closed sets.
LEMMA OnListClosed ==
    ASSUME NEW s, NEW m, NEW x
    PROVE  x \in OnList(s, m) <=>
              x \in Coros /\ \A S \in SUBSET Coros : Closed(s, m, S) => x \in S
  BY DEF OnList, Walked, Closed

\* mill_list_insert makes s2 and n of the list s and its links m: c comes
\* between b and it.
InsertedAt(s, m, s2, n, c, it, b) ==
    /\ it # c /\ b # c /\ m.next[c] = None /\ None \notin Coros
    /\ \A x \in Coros :
           n.next[x] = IF x = c THEN it ELSE IF x = b THEN c ELSE m.next[x]
    /\ s2.first = IF s.first \in {None, it} THEN c ELSE s.first
    /\ b \in Coros => m.next[b] = it /\ b \in OnList(s, m)
    /\ b \notin Coros => s.first \in {None, it}

\* Whoever was on the list still is, and so is the new item.
LEMMA InsertReaches ==
    ASSUME NEW s, NEW m, NEW s2, NEW n, NEW c \in Coros, NEW it, NEW b,
           InsertedAt(s, m, s2, n, c, it, b)
    PROVE  OnList(s, m) \cup {c} \subseteq OnList(s2, n)
<1> USE DEF InsertedAt
<1>1. ASSUME NEW S \in SUBSET Coros, Closed(s2, n, S)
      PROVE  Closed(s, m, S) /\ c \in S
  <2>1. s.first \in Coros => s.first \in S
    BY <1>1 DEF Closed
  <2>2. ASSUME NEW j \in S, m.next[j] \in Coros PROVE m.next[j] \in S
    <3>1. j # c
      BY <2>2
    <3>2. CASE j = b
      BY <1>1, <2>2, <3>1, <3>2 DEF Closed
    <3>3. CASE j # b
      BY <1>1, <2>2, <3>1, <3>3 DEF Closed
    <3> QED
      BY <3>2, <3>3
  <2>3. Closed(s, m, S)
    BY <2>1, <2>2 DEF Closed
  <2>4. c \in S
    <3>1. CASE b \notin Coros
      BY <1>1, <3>1 DEF Closed
    <3>2. CASE b \in Coros
      <4>1. b \in S
        BY <2>3, <3>2, OnListClosed
      <4> QED
        BY <1>1, <3>2, <4>1 DEF Closed
    <3> QED
      BY <3>1, <3>2
  <2> QED
    BY <2>3, <2>4
<1>2. ASSUME NEW x \in OnList(s, m) \cup {c} PROVE x \in OnList(s2, n)
  <2>1. x \in Coros
    BY <1>2, OnListClosed
  <2>2. ASSUME NEW S \in SUBSET Coros, Closed(s2, n, S) PROVE x \in S
    BY <1>1, <1>2, <2>2, OnListClosed
  <2> QED
    BY <2>1, <2>2, OnListClosed
<1> QED
  BY <1>2

\* mill_list_erase makes s2 and n of the list s and its links m: c is taken out.
Erased(s, m, s2, n, c) ==
    /\ None \notin Coros
    /\ \A x \in Coros : m.next[x] \in Coros \cup {None}
    /\ \A x \in Coros : x # c /\ m.next[x] # c => n.next[x] = m.next[x]
    /\ \A x \in Coros : x # c /\ m.next[x] = c => n.next[x] = m.next[c]
    /\ s2.first = IF s.first = c THEN m.next[c] ELSE s.first

\* Whoever else was on the list still is.
LEMMA EraseReaches ==
    ASSUME NEW s, NEW m, NEW s2, NEW n, NEW c \in Coros, Erased(s, m, s2, n, c)
    PROVE  OnList(s, m) \ {c} \subseteq OnList(s2, n)
<1> USE DEF Erased
<1> SUFFICES ASSUME NEW x \in OnList(s, m) \ {c}, NEW S \in SUBSET Coros, Closed(s2, n, S)
             PROVE  x \in Coros /\ x \in S
  BY OnListClosed
<1>1. x \in Coros /\ x # c
  BY OnListClosed
<1>2. CASE m.next[c] \in S \cup {None}
  <2> DEFINE R == S \cup {c}
  <2>1. Closed(s, m, R)
    <3>1. s.first \in Coros => s.first \in R
      BY DEF Closed
    <3>2. ASSUME NEW j \in R, m.next[j] \in Coros PROVE m.next[j] \in R
      <4>1. CASE j = c
        BY <1>2, <3>2, <4>1
      <4>2. CASE j # c /\ m.next[j] # c
        BY <3>2, <4>2 DEF Closed
      <4>3. CASE j # c /\ m.next[j] = c
        BY <4>3
      <4> QED
        BY <4>1, <4>2, <4>3
    <3> QED
      BY <3>1, <3>2 DEF Closed
  <2>2. R \in SUBSET Coros
    OBVIOUS
  <2>3. x \in R
    BY <2>1, <2>2, OnListClosed
  <2> QED
    BY <1>1, <2>3
<1>3. CASE m.next[c] \notin S \cup {None}
  <2> DEFINE R == S \ {c}
  <2>0. m.next[c] \in Coros
    BY <1>3
  <2>1. Closed(s, m, R)
    <3>1. s.first \in Coros => s.first \in R
      BY <1>3, <2>0 DEF Closed
    <3>2. ASSUME NEW j \in R, m.next[j] \in Coros PROVE m.next[j] \in R
      <4>1. CASE m.next[j] # c
        BY <3>2, <4>1 DEF Closed
      <4>2. CASE m.next[j] = c
        <5>1. n.next[j] = m.next[c]
          BY <3>2, <4>2
        <5> QED
          BY <1>3, <2>0, <5>1 DEF Closed
      <4> QED
        BY <4>1, <4>2
    <3> QED
      BY <3>1, <3>2 DEF Closed
  <2>2. R \in SUBSET Coros
    OBVIOUS
  <2>3. x \in R
    BY <2>1, <2>2, OnListClosed
  <2> QED
    BY <1>1, <2>3
<1> QED
  BY <1>2, <1>3

\* The list of a loop does not change when the links of the timers it serves do
\* not.
LEMMA OtherListsReach ==
    ASSUME TimerTypeOK, CoroTypeOK, LinkInv, NEW l \in Loops, timers'[l] = timers[l],
           \A j \in Coros : armed[j] /\ at[j] = l => links'.next[j] = links.next[j]
    PROVE  OnList(timers[l], links) \subseteq OnList(timers'[l], links')
<1> SUFFICES ASSUME NEW x \in OnList(timers[l], links), NEW S \in SUBSET Coros,
                    Closed(timers[l], links', S)
             PROVE  x \in Coros /\ x \in S
  BY OnListClosed
<1> DEFINE R == {j \in S : armed[j] /\ at[j] = l}
<1>1. timers[l].first \in Coros => timers[l].first \in R
  BY DEF Closed, LinkInv
<1>2. ASSUME NEW j \in R, links.next[j] \in Coros PROVE links.next[j] \in R
  <2>1. links'.next[j] = links.next[j] /\ j \in S
    BY <1>2
  <2>2. links.next[j] \in S
    BY <1>2, <2>1 DEF Closed
  <2> QED
    BY <1>2, <2>2 DEF LinkInv
<1>3. Closed(timers[l], links, R) /\ R \in SUBSET Coros
  BY <1>1, <1>2 DEF Closed
<1> QED
  BY <1>3, OnListClosed

\* A timer taken off the list is not met.
LEMMA ExpiredNotMet ==
    ASSUME TimerTypeOK, LinkInv, OffList, NEW l \in Loops, expired[l] # None,
           NEW T \in SUBSET Coros
    PROVE  expired[l] \notin Walked(timers[l], links, T)
<1> DEFINE R == T \ {expired[l]}
<1>1. links.prev[expired[l]] = None /\ expired[l] # timers[l].first
  BY DEF OffList
<1>2. timers[l].first \in T => timers[l].first \in R
  BY <1>1
<1>3. \A j \in R : links.next[j] \in T => links.next[j] \in R
  BY <1>1, LoopAssumption DEF LinkInv, Linked
<1>4. R \in SUBSET T
  OBVIOUS
<1> QED
  BY <1>2, <1>3, <1>4 DEF Walked

\* Where addTimer inserts: behind a timer that is due no later, and before one
\* that is due later, next to each other on the list, or at its ends.
LEMMA AddPlace ==
    ASSUME TimerTypeOK, CoroTypeOK, PollTypeOK, LinkInv, OffList, NEW l \in Loops,
           NEW T \in SUBSET Coros, NEW it \in Stops(timers[l], links, T)
    PROVE  LET b == InsertPrev(timers[l], links, it) IN
           /\ it \in Pointers /\ it \notin T /\ b \in Pointers
           /\ b # None => /\ b \in T /\ links.next[b] = it
                          /\ armed[b] /\ at[b] = l /\ expired[l] # b
           /\ b = None => timers[l].first \in {None, it}
<1> DEFINE b == InsertPrev(timers[l], links, it)
           W == Walked(timers[l], links, T)
<1>1. timers[l] \in Lists /\ links \in Links /\ Linked(links) /\ None \notin Coros
  BY LoopAssumption DEF TimerTypeOK, LinkInv
<1>2. it \in Pointers /\ it \notin T
  BY <1>1, StopsArePointers DEF Stops
<1>3. /\ timers[l].first \in Pointers /\ timers[l].last \in Pointers
      /\ \A x \in Coros : links.next[x] \in Pointers /\ links.prev[x] \in Pointers
  BY <1>1 DEF Lists, Links, Pointers
<1>4. \A i \in W : i \in T /\ armed[i] /\ at[i] = l /\ expired[l] # i
  <2>1. \A i \in W : i \in T /\ armed[i] /\ at[i] = l
    BY WalkedServed DEF Walked
  <2>2. expired[l] # None => expired[l] \notin W
    BY ExpiredNotMet
  <2> QED
    BY <1>1, <2>1, <2>2
<1>5. it = timers[l].first \/ \E i \in W : it = links.next[i]
  BY DEF Stops
<1> HIDE DEF W
<1>6. CASE it \in Coros
  <2>1. b = links.prev[it]
    BY <1>6 DEF InsertPrev
  <2>2. CASE it = timers[l].first
    <3>1. links.prev[it] = None
      BY <1>6, <2>2 DEF LinkInv
    <3> QED
      BY <1>2, <2>1, <2>2, <3>1 DEF Pointers
  <2>3. CASE it # timers[l].first
    <3>1. PICK i \in W : it = links.next[i]
      BY <1>5, <2>3
    <3>2. i \in Coros
      BY <1>4
    <3>3. b = i
      BY <1>1, <1>6, <2>1, <3>1, <3>2 DEF Linked
    <3> QED
      BY <1>1, <1>2, <1>4, <3>1, <3>2, <3>3 DEF Pointers
  <2> QED
    BY <2>2, <2>3
<1>7. CASE it = None
  <2>1. b = timers[l].last
    BY <1>1, <1>7 DEF InsertPrev
  <2>2. CASE timers[l].first = None
    <3>1. timers[l].last = None
      BY <2>2 DEF LinkInv
    <3> QED
      BY <1>2, <2>1, <2>2, <3>1 DEF Pointers
  <2>3. CASE timers[l].first # None
    <3>1. PICK i \in W : it = links.next[i]
      BY <1>5, <1>7, <2>3
    <3>2. i \in Coros /\ armed[i] /\ at[i] = l /\ expired[l] # i
      BY <1>4
    <3>3. timers[l].last = i
      BY <1>7, <3>1, <3>2 DEF LinkInv
    <3> QED
      BY <1>1, <1>2, <1>4, <2>1, <3>1, <3>2, <3>3 DEF Pointers
  <2> QED
    BY <2>2, <2>3
<1> QED
  BY <1>2, <1>6, <1>7 DEF Pointers

\* Every timer of a loop's waits is on its list, but for one that is about to
\* fire, and the list is in the order of the deadlines.
ListInv ==
    /\ \A l \in Loops : \A c \in Coros :
          armed[c] /\ at[c] = l /\ expired[l] # c => c \in OnList(timers[l], links)
    /\ \A c, e \in Coros : links.next[c] = e => dd[c] <= dd[e]

\* Adding a timer keeps that.
LEMMA AddTimerInOrder ==
    ASSUME TimerTypeOK, CoroTypeOK, PollTypeOK, LinkInv, OffList, ListInv,
           NEW l \in Loops, NEW c \in Coros, NEW due \in Int, AddTimer(l, c, due),
           ~armed[c], at'[c] = l, dd'[c] = due, UNCHANGED expired,
           \A x \in Coros : x # c => at'[x] = at[x] /\ dd'[x] = dd[x]
    PROVE  ListInv'
<1> DEFINE T == {i \in Coros : dd[i] <= due}
<1>0. T \in SUBSET Coros
  OBVIOUS
<1>1. PICK it \in Stops(timers[l], links, T) :
          /\ timers' = [timers EXCEPT ![l] = InsertList(@, c, it)]
          /\ links' = InsertLinks(timers[l], Fresh(links, c), c, it)
  BY DEF AddTimer
<1> DEFINE b == InsertPrev(timers[l], links, it)
<1>2. timers \in [Loops -> Lists] /\ links \in Links /\ Linked(links) /\ timers[l] \in Lists
      /\ None \notin Coros
  BY LoopAssumption DEF TimerTypeOK, LinkInv
<1> HIDE DEF T
<1>3. /\ it \in Pointers /\ it \notin T /\ b \in Pointers
      /\ b # None => /\ b \in T /\ links.next[b] = it
                     /\ armed[b] /\ at[b] = l /\ expired[l] # b
      /\ b = None => timers[l].first \in {None, it}
  BY <1>0, <1>1, AddPlace
<1>4. /\ links.next[c] = None /\ links.prev[c] = None
      /\ timers[l].last # c /\ timers[l].first # c
      /\ \A x \in Coros : links.next[x] # c
  <2>1. links.next[c] \in Pointers /\ links.prev[c] \in Pointers
    BY <1>2 DEF Links, Pointers
  <2>2. links.next[c] = None /\ links.prev[c] = None
    BY <1>2, <2>1 DEF LinkInv, Linked, Pointers
  <2> QED
    BY <1>2, <2>2 DEF LinkInv, Linked
<1>5. it # c
  <2>1. CASE b # None
    BY <1>2, <1>3, <1>4, <2>1 DEF Pointers
  <2>2. CASE b = None
    <3>1. it # timers[l].first => \E i \in Walked(timers[l], links, T) : it = links.next[i]
      BY <1>1 DEF Stops
    <3>2. \A i \in Walked(timers[l], links, T) : i \in Coros
      BY <1>0 DEF Walked
    <3> QED
      BY <1>4, <3>1, <3>2
  <2> QED
    BY <2>1, <2>2
<1>6. it = None /\ timers[l].last # None => links.next[timers[l].last] = None
  BY <1>2 DEF LinkInv, Lists, Pointers
<1>7. \A x \in Coros :
          links'.next[x] = IF x = c THEN it ELSE IF x = b THEN c ELSE links.next[x]
  BY <1>1, <1>2, <1>3, <1>4, <1>5, <1>6, InsertLinked
<1>8. timers'[l].first = IF timers[l].first \in {None, it} THEN c ELSE timers[l].first
  BY <1>1, <1>2 DEF InsertList
<1>9. \A k \in Loops : k # l => timers'[k] = timers[k]
  BY <1>1, <1>2
<1>10. /\ armed'[c] /\ \A x \in Coros : x # c => armed'[x] = armed[x]
  BY DEF AddTimer, TimerTypeOK
<1> HIDE DEF b
<1>11. OnList(timers[l], links) \cup {c} \subseteq OnList(timers'[l], links')
  <2>1. b \in Coros => links.next[b] = it /\ b \in OnList(timers[l], links)
    BY <1>2, <1>3 DEF ListInv
  <2>2. b \notin Coros => timers[l].first \in {None, it}
    BY <1>3 DEF Pointers
  <2>3. b # c
    BY <1>2, <1>3
  <2>4. InsertedAt(timers[l], links, timers'[l], links', c, it, b)
    BY <1>2, <1>4, <1>5, <1>7, <1>8, <2>1, <2>2, <2>3 DEF InsertedAt
  <2> QED
    BY <2>4, InsertReaches
<1>12. ASSUME NEW k \in Loops, NEW x \in Coros, armed'[x], at'[x] = k, expired'[k] # x
       PROVE  x \in OnList(timers'[k], links')
  <2>1. CASE x = c
    BY <1>11, <1>12, <2>1
  <2>2. CASE x # c
    <3>1. x \in OnList(timers[k], links)
      BY <1>10, <1>12, <2>2 DEF ListInv
    <3>2. CASE k = l
      BY <1>11, <3>1, <3>2
    <3>3. CASE k # l
      <4>1. \A j \in Coros : armed[j] /\ at[j] = k => links'.next[j] = links.next[j]
        BY <1>2, <1>3, <1>7, <3>3
      <4>2. OnList(timers[k], links) \subseteq OnList(timers'[k], links')
        BY <1>9, <3>3, <4>1, OtherListsReach
      <4> QED
        BY <3>1, <4>2
    <3> QED
      BY <3>2, <3>3
  <2> QED
    BY <2>1, <2>2
<1>13. ASSUME NEW x \in Coros, NEW e \in Coros, links'.next[x] = e
       PROVE  dd'[x] <= dd'[e]
  <2>1. CASE x = c
    <3>1. e = it /\ e # c /\ ~(dd[e] <= due)
      BY <1>3, <1>5, <1>7, <1>13, <2>1 DEF T
    <3>2. dd[e] \in Int /\ dd'[e] = dd[e]
      BY <3>1 DEF CoroTypeOK
    <3> QED
      BY <2>1, <3>1, <3>2
  <2>2. CASE x # c /\ x = b
    <3>1. e = c /\ dd[x] <= due
      BY <1>2, <1>3, <1>7, <1>13, <2>2 DEF T
    <3> QED
      BY <2>2, <3>1
  <2>3. CASE x # c /\ x # b
    <3>1. links.next[x] = e /\ e # c
      BY <1>4, <1>7, <1>13, <2>3
    <3> QED
      BY <2>3, <3>1 DEF ListInv
  <2> QED
    BY <2>1, <2>2, <2>3
<1> QED
  BY <1>12, <1>13 DEF ListInv

\* Taking one out keeps it.
LEMMA EraseTimerInOrder ==
    ASSUME TimerTypeOK, CoroTypeOK, PollTypeOK, LinkInv, OffList, ListInv,
           NEW l \in Loops, NEW c \in Coros, EraseTimer(l, c),
           armed[c], at[c] = l, expired[l] = None,
           \A x \in Coros : x # c => armed'[x] = armed[x] /\ at'[x] = at[x] /\ dd'[x] = dd[x],
           \/ expired' = expired /\ ~armed'[c]
           \/ expired' = [expired EXCEPT ![l] = c] /\ at'[c] = l
    PROVE  ListInv'
<1>1. timers \in [Loops -> Lists] /\ links \in Links /\ Linked(links) /\ None \notin Coros
  BY LoopAssumption DEF TimerTypeOK, LinkInv
<1>2. /\ links'.next[c] = None
      /\ \A x \in Coros : x # c /\ links.next[x] # c => links'.next[x] = links.next[x]
      /\ \A x \in Coros : x # c /\ links.next[x] = c => links'.next[x] = links.next[c]
      /\ Linked(links') /\ links'.prev[c] = None
  BY <1>1, EraseLinked DEF EraseTimer
<1>3. /\ timers'[l].first = IF links.prev[c] = None THEN links.next[c] ELSE timers[l].first
      /\ \A k \in Loops : k # l => timers'[k] = timers[k]
  BY <1>1 DEF EraseTimer, EraseList
<1>4. links.prev[c] = None <=> timers[l].first = c
  BY <1>1 DEF LinkInv
<1>5. \A x \in Coros : links.next[x] \in Coros \cup {None}
  BY <1>1 DEF Links, Pointers
<1>6. OnList(timers[l], links) \ {c} \subseteq OnList(timers'[l], links')
  <2>1. timers'[l].first = IF timers[l].first = c THEN links.next[c] ELSE timers[l].first
    BY <1>3, <1>4
  <2>2. Erased(timers[l], links, timers'[l], links', c)
    BY <1>1, <1>2, <1>5, <2>1 DEF Erased
  <2> QED
    BY <2>2, EraseReaches
<1>7. ASSUME NEW k \in Loops, NEW x \in Coros, armed'[x], at'[x] = k, expired'[k] # x
      PROVE  x \in OnList(timers'[k], links')
  <2>1. x # c
    <3>1. CASE expired' = expired /\ ~armed'[c]
      BY <1>7, <3>1
    <3>2. CASE expired' = [expired EXCEPT ![l] = c] /\ at'[c] = l
      BY <1>7, <3>2 DEF PollTypeOK
    <3> QED
      BY <3>1, <3>2
  <2>2. expired[k] # x
    BY <1>1, <1>7 DEF PollTypeOK
  <2>3. x \in OnList(timers[k], links)
    BY <1>7, <2>1, <2>2 DEF ListInv
  <2>4. CASE k = l
    BY <1>6, <2>1, <2>3, <2>4
  <2>5. CASE k # l
    <3>1. \A j \in Coros : armed[j] /\ at[j] = k => links'.next[j] = links.next[j]
      BY <1>1, <1>2, <2>5 DEF LinkInv
    <3>2. OnList(timers[k], links) \subseteq OnList(timers'[k], links')
      BY <1>3, <2>5, <3>1, OtherListsReach
    <3> QED
      BY <2>3, <3>2
  <2> QED
    BY <2>4, <2>5
<1>8. ASSUME NEW x \in Coros, NEW e \in Coros, links'.next[x] = e
      PROVE  dd'[x] <= dd'[e]
  <2>1. x # c /\ e # c
    BY <1>1, <1>2, <1>8 DEF Linked
  <2>2. CASE links.next[x] = c
    <3>1. links.next[c] = e
      BY <1>2, <1>8, <2>1, <2>2
    <3>2. dd[x] <= dd[c] /\ dd[c] <= dd[e]
      BY <2>2, <3>1 DEF ListInv
    <3>3. dd[x] \in Int /\ dd[c] \in Int /\ dd[e] \in Int
      BY DEF CoroTypeOK
    <3> QED
      BY <2>1, <3>2, <3>3
  <2>3. CASE links.next[x] # c
    BY <1>2, <1>8, <2>1, <2>3 DEF ListInv
  <2> QED
    BY <2>2, <2>3
<1> QED
  BY <1>7, <1>8 DEF ListInv

\* So do the steps that leave the lists alone.
LEMMA ListFrame ==
    ASSUME ListInv, UNCHANGED <<timers, links>>,
           \A l \in Loops, x \in Coros : armed'[x] /\ at'[x] = l /\ expired'[l] # x =>
               armed[x] /\ at[x] = l /\ expired[l] # x,
           \A x \in Coros :
               \/ dd'[x] = dd[x]
               \/ \A e \in Coros : links.next[x] # e /\ links.next[e] # x
    PROVE  ListInv'
<1>1. \A l \in Loops : \A c \in Coros :
          armed'[c] /\ at'[c] = l /\ expired'[l] # c => c \in OnList(timers'[l], links')
  BY DEF ListInv
<1>2. \A c, e \in Coros : links'.next[c] = e => dd'[c] <= dd'[e]
  BY DEF ListInv
<1> QED
  BY <1>1, <1>2 DEF ListInv

\* Every step keeps the lists complete and in order, where timed waits are
\* added by the loop that serves them.
LEMMA ListStep == IndInv /\ ListInv /\ [Next]_vars => ListInv'
<1> SUFFICES ASSUME IndInv, ListInv, [Next]_vars PROVE ListInv'
  OBVIOUS
<1>t. Loops \subseteq Threads /\ Main \in Threads /\ Main \notin Loops /\ None \notin Loops
      /\ None \notin Coros
  BY LoopAssumption DEF Threads
<1>u. /\ TimerTypeOK /\ CoroTypeOK /\ PollTypeOK /\ ThreadTypeOK /\ now \in Int
      /\ LinkInv /\ OffList
  BY DEF IndInv, OwnershipInv, TypeOK
<1>i. CallInv /\ OwnerInv /\ GuardInv /\ ExpiredInv
  BY DEF IndInv, OwnershipInv
\* an unarmed timer is not linked
<1>n. \A x \in Coros : ~armed[x] => \A e \in Coros : links.next[x] # e /\ links.next[e] # x
  BY <1>u DEF LinkInv
<1>1. ASSUME NEW t \in Threads, NEW c \in Coros, NEW l \in Loops, AwaitHop(t,
             c, l)
      PROVE  ListInv'
  <2>1. UNCHANGED <<timers, links, armed, expired, at, dd>>
    BY <1>1 DEF AwaitHop, vars, loopVars, pollVars, timerVars, coroVars
  <2> QED
    BY <2>1, ListFrame
<1>2. ASSUME NEW t \in Threads, NEW c \in Coros, NEW l \in Loops,
             NEW d \in DelayTimeouts, AwaitDelay(t, c, l, d)
      PROVE  ListInv'
  <2>1. ~armed[c] /\ now + d \in Int
    BY <1>2, <1>i, <1>u, LoopAssumption DEF AwaitDelay, Suspends, OwnerInv
  <2>2. at' = [at EXCEPT ![c] = l] /\ UNCHANGED expired
        /\ dd' = [dd EXCEPT ![c] = now + d] /\ AddTimer(l, c, now + d)
    BY <1>2 DEF AwaitDelay, loopVars, pollVars
  <2>3. /\ at'[c] = l /\ dd'[c] = now + d
        /\ \A x \in Coros : x # c => at'[x] = at[x] /\ dd'[x] = dd[x]
    BY <1>u, <2>2 DEF CoroTypeOK
  <2> QED
    BY <1>u, <2>1, <2>2, <2>3, AddTimerInOrder
<1>3. ASSUME NEW t \in Threads, NEW c \in Coros, NEW l \in Loops,
             NEW f \in Fds, NEW d \in FdTimeouts, AwaitFd(t, c, l, f, d)
      PROVE  ListInv'
  <2>1. ~armed[c] /\ ~armed'[c] /\ UNCHANGED <<timers, links, expired>>
    BY <1>3, <1>t, <1>i, <1>u
       DEF AwaitFd, Suspends, OwnerInv, pollVars, TimerTypeOK
  <2>2. \A x \in Coros : x # c => armed'[x] = armed[x] /\ at'[x] = at[x] /\ dd'[x] = dd[x]
    BY <1>3, <1>u DEF AwaitFd, CoroTypeOK, TimerTypeOK
  <2> QED
    BY <1>n, <2>1, <2>2, ListFrame
<1>4. ASSUME NEW t \in Threads, EpollMod(t) PROVE ListInv'
  <2>1. UNCHANGED <<timers, links, armed, expired, at, dd>>
    BY <1>4
       DEF EpollMod, Registered, vars, loopVars, pollVars, timerVars, coroVars
  <2> QED
    BY <2>1, ListFrame
<1>5. ASSUME NEW t \in Threads, AddEventTimer(t) PROVE ListInv'
  <2> DEFINE c == run[t]
             l == tgt[t]
  <2>1. c \in Coros /\ l \in Loops /\ at[c] = l /\ ~armed[c] /\ dd[c] \in Int
    BY <1>5, <1>i, <1>u
       DEF AddEventTimer, CallInv, OwnerInv, Holds, AddPCs, SigPCs, CallPCs,
           ThreadTypeOK, CoroTypeOK
  <2>2. UNCHANGED <<at, dd, expired>> /\ AddTimer(l, c, dd[c])
    BY <1>5 DEF AddEventTimer, loopVars, pollVars, coroVars
  <2> HIDE DEF c, l
  <2> QED
    BY <1>u, <2>1, <2>2, AddTimerInOrder
<1>6. ASSUME NEW t \in Threads, SetScheduled(t) PROVE ListInv'
  <2>1. UNCHANGED <<timers, links, armed, expired, at, dd>>
    BY <1>6 DEF SetScheduled, vars, loopVars, pollVars, timerVars, coroVars
  <2> QED
    BY <2>1, ListFrame
<1>7. ASSUME NEW t \in Threads, Record(t) PROVE ListInv'
  <2>1. UNCHANGED <<timers, links, armed, expired, at, dd>>
    BY <1>7 DEF Record, vars, loopVars, pollVars, timerVars, coroVars
  <2> QED
    BY <2>1, ListFrame
<1>8. ASSUME NEW t \in Threads, SignalCas(t) PROVE ListInv'
  <2>1. UNCHANGED <<timers, links, armed, expired, at, dd>>
    BY <1>8 DEF SignalCas, vars, loopVars, pollVars, timerVars, coroVars
  <2> QED
    BY <2>1, ListFrame
<1>9. ASSUME NEW t \in Threads, SignalWrite(t) PROVE ListInv'
  <2>1. UNCHANGED <<timers, links, armed, expired, at, dd>>
    BY <1>9 DEF SignalWrite, vars, loopVars, pollVars, timerVars, coroVars
  <2> QED
    BY <2>1, ListFrame
<1>10. ASSUME NEW t \in Threads, SignalReset(t) PROVE ListInv'
  <2>1. UNCHANGED <<timers, links, armed, expired, at, dd>>
    BY <1>10 DEF SignalReset, vars, loopVars, pollVars, timerVars, coroVars
  <2> QED
    BY <2>1, ListFrame
<1>11. ASSUME NEW t \in Threads, Finish(t) PROVE ListInv'
  <2>1. UNCHANGED <<timers, links, armed, expired, at, dd>>
    BY <1>11 DEF Finish, vars, loopVars, pollVars, timerVars, coroVars
  <2> QED
    BY <2>1, ListFrame
<1>12. ASSUME NEW l \in Loops, LoopTop(l) PROVE ListInv'
  <2>1. UNCHANGED <<timers, links, armed, expired, at, dd>>
    BY <1>12 DEF LoopTop, vars, loopVars, pollVars, timerVars, coroVars
  <2> QED
    BY <2>1, ListFrame
<1>13. ASSUME NEW l \in Loops, EpollWait(l) \/ Interrupted(l) PROVE ListInv'
  <2>1. UNCHANGED <<timers, links, armed, expired, at, dd>>
    BY <1>13
       DEF EpollWait, Interrupted, EpollReturns, vars, loopVars, pollVars,
           timerVars, coroVars
  <2> QED
    BY <2>1, ListFrame
<1>14. ASSUME NEW l \in Loops, DrainEnd(l) PROVE ListInv'
  <2>1. UNCHANGED <<timers, links, armed, expired, at, dd>>
    BY <1>14 DEF DrainEnd, vars, loopVars, pollVars, timerVars, coroVars
  <2> QED
    BY <2>1, ListFrame
<1>15. ASSUME NEW l \in Loops, HandleThreadEvent(l) PROVE ListInv'
  <2>1. UNCHANGED <<timers, links, armed, expired, at, dd>>
    BY <1>15
       DEF HandleThreadEvent, vars, loopVars, pollVars, timerVars, coroVars
  <2> QED
    BY <2>1, ListFrame
<1>16. ASSUME NEW l \in Loops, EventsEnd(l) PROVE ListInv'
  <2>1. UNCHANGED <<timers, links, armed, expired, at, dd>>
    BY <1>16 DEF EventsEnd, vars, loopVars, pollVars, timerVars, coroVars
  <2> QED
    BY <2>1, ListFrame
<1>17. ASSUME NEW l \in Loops, TakeExpiredTimer(l) PROVE ListInv'
  <2> DEFINE c == timers[l].first
  <2>1. c \in Coros /\ armed[c] /\ at[c] = l /\ expired[l] = None
    BY <1>17, <1>t, <1>u, <1>i
       DEF TakeExpiredTimer, Expired, LinkInv, TimerTypeOK, Lists, Pointers,
           ExpiredInv
  <2>2. /\ expired' = [expired EXCEPT ![l] = c] /\ EraseTimer(l, c)
        /\ UNCHANGED <<armed, at, dd>>
    BY <1>17 DEF TakeExpiredTimer, coroVars
  <2> HIDE DEF c
  <2> QED
    BY <1>u, <2>1, <2>2, EraseTimerInOrder
<1>18. ASSUME NEW l \in Loops, DropTimer(l) PROVE ListInv'
  <2>1. /\ pc[l] = "fire" /\ expired[l] # None /\ st[expired[l]] # "scheduled"
    BY <1>18, <1>t, <1>i DEF DropTimer, Claims, CallInv
  <2>2. armed[expired[l]] /\ at[expired[l]] = l /\ expired[l] \in Coros
    BY <1>u, <2>1 DEF OffList, PollTypeOK
  <2>3. run[l] = expired[l]
    BY <1>i, <2>1, <2>2 DEF GuardInv
  <2>4. Holds(l)
    BY <1>t, <1>i, <2>1, <2>3 DEF CallInv
  <2> QED
    BY <2>1, <2>4 DEF Holds, AddPCs, SigPCs
<1>19. ASSUME NEW l \in Loops, TimersEnd(l) PROVE ListInv'
  <2>1. UNCHANGED <<timers, links, armed, expired, at, dd>>
    BY <1>19 DEF TimersEnd, vars, loopVars, pollVars, timerVars, coroVars
  <2> QED
    BY <2>1, ListFrame
<1>20. ASSUME NEW l \in Loops, NEW c \in Coros, ResumeScheduled(l, c)
       PROVE  ListInv'
  <2>1. at[c] = None /\ ~armed[c] /\ UNCHANGED <<timers, links, armed, expired>>
    BY <1>20, <1>t, <1>i DEF ResumeScheduled, OwnerInv, timerVars, pollVars
  <2>2. \A x \in Coros : x # c => at'[x] = at[x] /\ dd'[x] = dd[x]
    BY <1>20, <1>u DEF ResumeScheduled, Resume, CoroTypeOK
  <2> QED
    BY <1>n, <2>1, <2>2, ListFrame
<1>21. ASSUME NEW l \in Loops, NEW c \in Coros, HandleEvent(l, c) PROVE ListInv'
  <2>1. at[c] = l /\ pc[l] = "events" /\ expired[l] = None
    BY <1>21, <1>t, <1>i
       DEF HandleEvent, NextEvent, IndInv, NoDanglingEvent, ExpiredInv
  <2>2. /\ ~armed'[c] /\ expired' = expired
        /\ \A x \in Coros : x # c => armed'[x] = armed[x] /\ at'[x] = at[x] /\ dd'[x] = dd[x]
    BY <1>21, <1>u DEF HandleEvent, Resume, TimerTypeOK, CoroTypeOK
  <2>3. CASE armed[c]
    BY <1>21, <1>u, <2>1, <2>2, <2>3, EraseTimerInOrder DEF HandleEvent
  <2>4. CASE ~armed[c]
    <3>1. UNCHANGED <<timers, links>>
      BY <1>21, <2>4 DEF HandleEvent
    <3> QED
      BY <1>n, <2>2, <2>4, <3>1, ListFrame
  <2> QED
    BY <2>3, <2>4
<1>22. ASSUME NEW l \in Loops, NEW c \in Coros, SkipEvent(l, c) PROVE ListInv'
  <2>1. UNCHANGED <<timers, links, armed, expired, at, dd>>
    BY <1>22 DEF SkipEvent, vars, loopVars, pollVars, timerVars, coroVars
  <2> QED
    BY <2>1, ListFrame
<1>23. ASSUME NEW l \in Loops, NEW c \in Coros, FireTimer(l, c) PROVE ListInv'
  <2>1. /\ c = expired[l] /\ at[c] = l /\ UNCHANGED <<timers, links>>
        /\ \A e \in Coros : links.next[c] # e /\ links.next[e] # c
    BY <1>23, <1>t, <1>u DEF FireTimer, OffList, LinkInv, Linked
  <2>2. /\ ~armed'[c]
        /\ \A k \in Loops : k # l => expired'[k] = expired[k]
        /\ \A x \in Coros : x # c => armed'[x] = armed[x] /\ at'[x] = at[x] /\ dd'[x] = dd[x]
    BY <1>23, <1>u DEF FireTimer, Resume, TimerTypeOK, CoroTypeOK, PollTypeOK
  <2>3. \A k \in Loops, x \in Coros : armed'[x] /\ at'[x] = k /\ expired'[k] # x =>
            armed[x] /\ at[x] = k /\ expired[k] # x
    BY <2>1, <2>2
  <2> QED
    BY <2>1, <2>2, <2>3, ListFrame
<1>24. ASSUME NEW c \in Coros, Start(c) PROVE ListInv'
  <2>1. UNCHANGED <<timers, links, armed, expired, at, dd>>
    BY <1>24 DEF Start, vars, loopVars, pollVars, timerVars, coroVars
  <2> QED
    BY <2>1, ListFrame
<1>25. ASSUME NEW l \in Loops, Abort(l) PROVE ListInv'
  <2>1. UNCHANGED <<timers, links, armed, expired, at, dd>>
    BY <1>25 DEF Abort, vars, loopVars, pollVars, timerVars, coroVars
  <2> QED
    BY <2>1, ListFrame
<1>26. ASSUME Join PROVE ListInv'
  <2>1. UNCHANGED <<timers, links, armed, expired, at, dd>>
    BY <1>26 DEF Join, vars, loopVars, pollVars, timerVars, coroVars
  <2> QED
    BY <2>1, ListFrame
<1>27. ASSUME Tick PROVE ListInv'
  <2>1. UNCHANGED <<timers, links, armed, expired, at, dd>>
    BY <1>27 DEF Tick, vars, loopVars, pollVars, timerVars, coroVars
  <2> QED
    BY <2>1, ListFrame
<1>28. ASSUME NEW f \in Fds, FdReady(f) PROVE ListInv'
  <2>1. UNCHANGED <<timers, links, armed, expired, at, dd>>
    BY <1>28 DEF FdReady, vars, loopVars, pollVars, timerVars, coroVars
  <2> QED
    BY <2>1, ListFrame
<1>29. ASSUME UNCHANGED vars PROVE ListInv'
  <2>1. UNCHANGED <<timers, links, armed, expired, at, dd>>
    BY <1>29 DEF vars, vars, loopVars, pollVars, timerVars, coroVars
  <2> QED
    BY <2>1, ListFrame
<1> QED
  BY <1>1, <1>2, <1>3, <1>4, <1>5, <1>6, <1>7, <1>8, <1>9, <1>10, <1>11, <1>12,
     <1>13, <1>14, <1>15, <1>16, <1>17, <1>18, <1>19, <1>20, <1>21, <1>22,
     <1>23, <1>24, <1>25, <1>26, <1>27, <1>28, <1>29
     DEF Next, CallStep, LoopStep

\* Complete, linked both ways and in order is what TimerListIntact says.
LEMMA ListSafe == IndInv /\ ListInv => TimerListIntact
<1> SUFFICES ASSUME IndInv, ListInv, NEW l \in Loops
             PROVE  LET on == OnList(timers[l], links) IN
                    /\ Intact(timers[l], links)
                    /\ on = {c \in Coros : armed[c] /\ at[c] = l} \ {expired[l]}
                    /\ \A c \in on : links.next[c] # None => dd[c] <= dd[links.next[c]]
  BY DEF TimerListIntact
<1> DEFINE on == OnList(timers[l], links)
<1>1. /\ TimerTypeOK /\ CoroTypeOK /\ PollTypeOK /\ LinkInv /\ OffList /\ None \notin Coros
  BY LoopAssumption DEF IndInv, OwnershipInv, TypeOK
<1>2. timers[l] \in Lists /\ links \in Links
  BY <1>1 DEF TimerTypeOK
<1>3. on = {c \in Coros : armed[c] /\ at[c] = l} \ {expired[l]}
  <2>1. \A c \in on : c \in Coros /\ armed[c] /\ at[c] = l
    BY <1>1, WalkedServed DEF OnList, Walked
  <2>2. expired[l] # None => expired[l] \notin on
    BY <1>1, ExpiredNotMet DEF OnList
  <2>3. \A c \in on : c # expired[l]
    BY <1>1, <2>1, <2>2
  <2>4. \A c \in Coros : armed[c] /\ at[c] = l /\ expired[l] # c => c \in on
    BY DEF ListInv
  <2> HIDE DEF on
  <2> QED
    BY <2>1, <2>3, <2>4
<1>4. /\ timers[l].first \in Pointers /\ timers[l].last \in Pointers
      /\ \A c \in Coros : links.next[c] \in Pointers
  BY <1>2 DEF Lists, Links, Pointers
<1>5. on \subseteq Coros
  BY <1>3
<1>6. timers[l].last \in {i \in on : links.next[i] = None} \cup {i \in {None} : on = {}}
  <2>1. CASE timers[l].last \in Coros
    <3>1. armed[timers[l].last] /\ at[timers[l].last] = l /\ links.next[timers[l].last] = None
      BY <1>1, <2>1 DEF LinkInv
    <3>2. timers[l].last # expired[l]
      BY <1>1, <2>1 DEF OffList
    <3> QED
      BY <1>3, <2>1, <3>1, <3>2
  <2>2. CASE timers[l].last = None
    <3>1. timers[l].first = None
      BY <1>1, <2>2 DEF LinkInv
    <3>2. {} \in SUBSET Coros /\ Closed(timers[l], links, {})
      BY <1>1, <3>1 DEF Closed
    <3>3. on = {}
      BY <3>2, OnListClosed
    <3> QED
      BY <2>2, <3>3
  <2> QED
    BY <1>4, <2>1, <2>2 DEF Pointers
<1>7. Intact(timers[l], links)
  <2>1. timers[l].first \in Coros => links.prev[timers[l].first] = None
    BY <1>1 DEF LinkInv
  <2>2. \A i \in on : links.next[i] \in Coros => links.prev[links.next[i]] = i
    BY <1>1, <1>5 DEF LinkInv, Linked
  <2> QED
    BY <1>6, <2>1, <2>2 DEF Intact
<1>8. \A c \in on : links.next[c] # None => dd[c] <= dd[links.next[c]]
  BY <1>4, <1>5 DEF ListInv, Pointers
<1> QED
  BY <1>3, <1>7, <1>8

\* The timer list of every loop (addTimer() of thread.cpp on list.cpp) is well
\* linked, has the timer of every timed wait the loop serves, and none else, in
\* the order of the deadlines, for any number of loops, timers and deadlines,
\* when Events with a deadline are added by the loop that serves them: looking
\* at its first item, computeWaitTimeout() and fireExpiredTimers() miss none.
THEOREM ListsIntact ==
    ASSUME TimersGuarded
    PROVE  Spec => []TimerListIntact
<1>1. Init => IndInv /\ ListInv
  <2> SUFFICES ASSUME Init PROVE ListInv
    BY IndInit
  <2> QED
    BY LoopAssumption DEF Init, ListInv, Unlinked
<1>2. IndInv /\ ListInv /\ [Next]_vars => IndInv' /\ ListInv'
  BY IndStep, ListStep
<1>3. IndInv /\ ListInv => TimerListIntact
  BY ListSafe
<1> QED
  BY <1>1, <1>2, <1>3, PTL DEF Spec
=============================================================================
