----------------------------- MODULE QueueFront -----------------------------
(***************************************************************************)
(* Taking from the schedule queue (try_dequeue() of concurrentqueue.h): a  *)
(* look at the list of sub-queues for the fullest of the first three that  *)
(* have items, an attempt at that one, and when it fails at all the        *)
(* others.  Sub-queues appear and are filled meanwhile.                    *)
(*                                                                         *)
(* An attempt is optimistic (ImplicitProducer::dequeue): a receiver counts *)
(* itself, and repays when that was too much.  Until then the sub-queue    *)
(* looks emptier than it is, and another attempt may fail although there   *)
(* are items.  Of a sub-queue only the counts are kept here: that item n   *)
(* goes to the one who raises head from n is SubQueue's matter, and so is  *)
(* the width of the counts.                                                *)
(***************************************************************************)
EXTENDS Naturals, FiniteSets

CONSTANTS
    Receivers,       \* threads that dequeue
    NonEmptyLimit,   \* so many sub-queues with items are enough to choose from: 3
    MaxProducers,    \* bound: sub-queues
    MaxPosted,       \* bound: items
    MaxTries         \* bound: calls of try_dequeue()

ASSUME FrontAssumption ==
    /\ MaxProducers \in Nat /\ MaxPosted \in Nat /\ IsFiniteSet(Receivers)
    /\ NonEmptyLimit \in Nat \ {0}

VARIABLES
    listed,          \* producerListTail: sub-queues are numbered as they are added,
                     \* and the one behind p in the list is p - 1
    tail, head,      \* tailIndex and headIndex of each sub-queue
    counted,         \* dequeueOptimisticCount
    repaid,          \* dequeueOvercommit
    recv,            \* each receiver: where it is, and its locals
    posted, attempts

tallyVars == <<tail, head, counted, repaid>>
frontVars == <<listed, tail, head, counted, repaid, recv, posted, attempts>>

NoQueue == 0
Queues == 1..MaxProducers
Receiver(p) ==
    [pc |-> p,
     look |-> NoQueue,                   \* the next of the list
     best |-> NoQueue, size |-> 0, full |-> 0,     \* best, bestSize, nonEmptyCount
     beaten |-> FALSE,                   \* best has been tried
     at |-> NoQueue,                     \* the sub-queue of this attempt
     tail |-> 0, over |-> 0, mine |-> 0,
     there |-> [q \in Queues |-> 0],     \* history: the tails when the call began
     excused |-> {}]                     \* history: see Overdrawn
FrontInit ==
    /\ listed = NoQueue
    /\ tail = [p \in Queues |-> 0] /\ head = [p \in Queues |-> 0]
    /\ counted = [p \in Queues |-> 0] /\ repaid = [p \in Queues |-> 0]
    /\ recv = [r \in Receivers |-> Receiver("idle")]
    /\ posted = 0 /\ attempts = 0

\* a receiver that has counted itself, and one of these that will find an item
Inflight(p) == {r \in Receivers :
    recv[r].at = p /\ recv[r].pc \in {"check", "take", "repay"}}
Reserved(p) == {r \in Inflight(p) :
    \/ recv[r].pc = "take"
    \/ recv[r].pc = "check" /\ recv[r].mine < tail[p] + recv[r].over}

\* others have counted themselves, beyond what is there
InCall(r) == recv[r].pc \notin {"idle", "nothing"}
Overdrawn(r, p) == ~(Inflight(p) \ {r} \subseteq Reserved(p))

\* add_producer(): in front of the list
ListProducer ==
    /\ listed < MaxProducers /\ listed' = listed + 1
    /\ UNCHANGED <<tallyVars, recv, posted, attempts>>

\* ImplicitProducer::enqueue()
Post == \E p \in 1..listed :
    /\ posted < MaxPosted /\ posted' = posted + 1
    /\ tail' = [tail EXCEPT ![p] = @ + 1]
    /\ UNCHANGED <<listed, head, counted, repaid, recv, attempts>>

RecvAt(r, p) == recv[r].pc = p
Set(r, v) == recv' = [recv EXCEPT ![r] = v]

\* try_dequeue(): the list as it is now
BeginScan(r) ==
    /\ recv[r].pc \in {"idle", "nothing"}
    /\ attempts < MaxTries /\ attempts' = attempts + 1
    /\ Set(r, [Receiver("scan") EXCEPT
               !.look = listed, !.there = tail,
               !.excused = {p \in Queues : Overdrawn(r, p)}])
    /\ UNCHANGED <<listed, tallyVars, posted>>

\* size_approx() of the next in the list loads the tail ...
ScanTail(r) ==
    /\ RecvAt(r, "scan") /\ recv[r].look # NoQueue /\ recv[r].full < NonEmptyLimit
    /\ Set(r, [recv[r] EXCEPT !.pc = "size", !.tail = tail[recv[r].look]])
    /\ UNCHANGED <<listed, tallyVars, posted, attempts>>

\* ... and the head, which may be past that by now
Seen(r) == LET h == head[recv[r].look]
           IN IF h < recv[r].tail THEN recv[r].tail - h ELSE 0
ScanHead(r) ==
    /\ RecvAt(r, "size")
    /\ Set(r, [recv[r] EXCEPT
               !.pc = "scan", !.tail = 0,
               !.look = @ - 1,
               !.full = IF Seen(r) > 0 THEN @ + 1 ELSE @,
               !.best = IF Seen(r) > recv[r].size THEN recv[r].look ELSE @,
               !.size = IF Seen(r) > @ THEN Seen(r) ELSE @])
    /\ UNCHANGED <<listed, tallyVars, posted, attempts>>

Nothing(r) ==
    Set(r, [Receiver("nothing") EXCEPT
            !.there = recv[r].there, !.excused = recv[r].excused])

\* the scan is over: the fullest of the ones seen
TryBest(r) ==
    /\ RecvAt(r, "scan") /\ (recv[r].look = NoQueue \/ recv[r].full = NonEmptyLimit)
    /\ \/ recv[r].full = 0 /\ Nothing(r)
       \/ /\ recv[r].full > 0
          /\ Set(r, [recv[r] EXCEPT !.pc = "tail", !.at = recv[r].best,
                                    !.look = NoQueue, !.size = 0, !.full = 0])
    /\ UNCHANGED <<listed, tallyVars, posted, attempts>>

\* that has failed: the others, from the latest in the list on
LookAgain(r) ==
    /\ RecvAt(r, "others") /\ ~recv[r].beaten
    /\ Set(r, [recv[r] EXCEPT !.beaten = TRUE, !.look = listed])
    /\ UNCHANGED <<listed, tallyVars, posted, attempts>>

TryOther(r) ==
    /\ RecvAt(r, "others") /\ recv[r].beaten
    /\ \/ recv[r].look = NoQueue /\ Nothing(r)
       \/ /\ recv[r].look # NoQueue
          /\ Set(r, [recv[r] EXCEPT
                     !.pc = IF recv[r].look = recv[r].best THEN "others" ELSE "tail",
                     !.at = IF recv[r].look = recv[r].best THEN NoQueue ELSE recv[r].look,
                     !.look = @ - 1])
    /\ UNCHANGED <<listed, tallyVars, posted, attempts>>
-----------------------------------------------------------------------------
\* ImplicitProducer::dequeue(), of the sub-queue recv[r].at

Fail(r) == Set(r, [recv[r] EXCEPT !.pc = "others", !.at = NoQueue,
                                  !.tail = 0, !.over = 0, !.mine = 0])

LoadTailIndex(r) ==
    /\ RecvAt(r, "tail")
    /\ Set(r, [recv[r] EXCEPT !.pc = "over", !.tail = tail[recv[r].at]])
    /\ UNCHANGED <<listed, tallyVars, posted, attempts>>

LoadOvercommits(r) ==
    /\ RecvAt(r, "over")
    /\ Set(r, [recv[r] EXCEPT !.pc = "peek", !.over = repaid[recv[r].at]])
    /\ UNCHANGED <<listed, tallyVars, posted, attempts>>

PeekCount(r) ==
    /\ RecvAt(r, "peek")
    /\ \/ /\ counted[recv[r].at] < recv[r].tail + recv[r].over
          /\ Set(r, [recv[r] EXCEPT !.pc = "count", !.tail = 0])
       \/ counted[recv[r].at] >= recv[r].tail + recv[r].over /\ Fail(r)
    /\ UNCHANGED <<listed, tallyVars, posted, attempts>>

\* whoever counts itself beyond what is there excuses the calls under way
TooMany(r) == counted[recv[r].at] >= tail[recv[r].at] + recv[r].over
CountOne(r) ==
    /\ RecvAt(r, "count")
    /\ counted' = [counted EXCEPT ![recv[r].at] = @ + 1]
    /\ recv' = [q \in Receivers |->
          IF q = r THEN [recv[r] EXCEPT !.pc = "check", !.mine = counted[recv[r].at]]
          ELSE IF TooMany(r) /\ InCall(q) THEN [recv[q] EXCEPT !.excused = @ \cup {recv[r].at}]
          ELSE recv[q]]
    /\ UNCHANGED <<listed, tail, head, repaid, posted, attempts>>

CheckCount(r) ==
    /\ RecvAt(r, "check")
    /\ Set(r, [recv[r] EXCEPT !.mine = 0, !.over = 0, !.pc =
          IF recv[r].mine < tail[recv[r].at] + recv[r].over THEN "take" ELSE "repay"])
    /\ UNCHANGED <<listed, tallyVars, posted, attempts>>

\* from then on the item is this receiver's: true
RaiseHead(r) ==
    /\ RecvAt(r, "take")
    /\ head' = [head EXCEPT ![recv[r].at] = @ + 1]
    /\ Set(r, Receiver("idle"))
    /\ UNCHANGED <<listed, tail, counted, repaid, posted, attempts>>

RepayCount_not(r) ==
    /\ RecvAt(r, "repay") /\ Fail(r)
    /\ UNCHANGED <<listed, tallyVars, posted, attempts>>

RepayCount(r) ==
    /\ RecvAt(r, "repay")
    /\ repaid' = [repaid EXCEPT ![recv[r].at] = @ + 1]
    /\ Fail(r)
    /\ UNCHANGED <<listed, tail, head, counted, posted, attempts>>

ReceiverStep(r) ==
    \/ BeginScan(r) \/ ScanTail(r) \/ ScanHead(r) \/ TryBest(r) \/ LookAgain(r) \/ TryOther(r)
    \/ LoadTailIndex(r) \/ LoadOvercommits(r) \/ PeekCount(r) \/ CountOne(r) \/ CheckCount(r)
    \/ RaiseHead(r) \/ RepayCount(r)
FrontNext == ListProducer \/ Post \/ \E r \in Receivers : ReceiverStep(r)
FrontSpec == FrontInit /\ [][FrontNext]_frontVars
-----------------------------------------------------------------------------
(***************************************************************************)
(* try_dequeue() says that there is nothing only when every item that was  *)
(* there when it began has gone to another receiver, or is about to: that  *)
(* other has counted itself and will find an item.  The exception is a     *)
(* sub-queue of which, at some moment of the call, another receiver had    *)
(* counted itself beyond what was there, and not repaid: items of that one *)
(* may be missed.  Where nobody else dequeues, as in an event loop, which  *)
(* goes to sleep on that answer, there is no exception and nobody to have  *)
(* taken anything: all that was there has been taken before.               *)
(***************************************************************************)
NothingMissed == \A r \in Receivers : recv[r].pc = "nothing" =>
    \A p \in Queues \ recv[r].excused :
        recv[r].there[p] <= head[p] + Cardinality(Reserved(p))
=============================================================================
