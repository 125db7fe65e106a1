---------------------------- MODULE MCPrimitives ----------------------------
(***************************************************************************)
(* The synchronisation primitives, each by itself: they share no state, so *)
(* a behaviour is one of a single primitive, chosen at the start.          *)
(***************************************************************************)
EXTENDS AsyncMutex, ManualResetEvent, AutoResetEvent, SyncWait, TaskHandoff,
        SchedulerStart

VARIABLE which    \* the primitive of this behaviour

MCAsked == [c \in Callers |-> 0]

primVars == <<which, vars, eventVars, autoVars, syncVars, taskVars, startVars>>

PrimInit ==
    /\ which \in {"mutex", "event", "auto", "sync", "task", "start"}
    /\ Init /\ EventInit /\ AutoInit /\ SyncInit /\ TaskInit /\ StartInit
    /\ which # "event" => isSet
    /\ which # "auto" => word = 0

MutexPart(A) == which = "mutex" /\ A /\ UNCHANGED
    <<which, eventVars, autoVars, syncVars, taskVars, startVars>>
EventPart(A) == which = "event" /\ A /\ UNCHANGED
    <<which, vars, autoVars, syncVars, taskVars, startVars>>
AutoPart(A) == which = "auto" /\ A /\ UNCHANGED
    <<which, vars, eventVars, syncVars, taskVars, startVars>>
SyncPart(A) == which = "sync" /\ A /\ UNCHANGED
    <<which, vars, eventVars, autoVars, taskVars, startVars>>
TaskPart(A) == which = "task" /\ A /\ UNCHANGED
    <<which, vars, eventVars, autoVars, syncVars, startVars>>
StartPart(A) == which = "start" /\ A /\ UNCHANGED
    <<which, vars, eventVars, autoVars, syncVars, taskVars>>

PrimNext ==
    \/ MutexPart(Next) \/ EventPart(EventNext) \/ AutoPart(AutoNext)
    \/ SyncPart(SyncNext) \/ TaskPart(TaskNext) \/ StartPart(StartNext)

\* A coroutine or thread that runs gets on; nobody is made to lock, to wait, to
\* set, to reset or to spawn.
PrimFairness ==
    /\ \A c \in Coros : WF_primVars(MutexPart(Step(c)))
    /\ \A w \in Waiters : WF_primVars(EventPart(WaiterStep(w)))
    /\ \A s \in Setters : WF_primVars(EventPart(ResumeCurrent(s)))
    /\ WF_primVars(SyncPart(SetStore)) /\ WF_primVars(SyncPart(SetWake))
    /\ WF_primVars(SyncPart(MainStep))
    /\ \A w \in Works : WF_primVars(SyncPart(
          (WorkFinished(w) \/ ResumeOwner(w)) /\ UNCHANGED <<value, spc, mpc>>))
    /\ \A t \in Tasks : WF_primVars(TaskPart(TaskStep(t)))

PrimSpec == PrimInit /\ [][PrimNext]_primVars /\ PrimFairness
=============================================================================
