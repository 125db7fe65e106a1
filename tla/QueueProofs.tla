----------------------------- MODULE QueueProofs -----------------------------
(***************************************************************************)
(* The schedule queue for any number of threads: a try_dequeue() that      *)
(* finds nothing misses only what another is about to take, or has hidden  *)
(* by counting itself for what is not there, and so nothing where one      *)
(* thread dequeues; every thread that schedules has one sub-queue, its     *)
(* own, however the hash table grows; and no block has two owners, however *)
(* the lock-free list of blocks is used.                                   *)
(***************************************************************************)
EXTENDS QueueFront, ProducerHash, FreeList, SequenceLemmas, FiniteSetTheorems, TLAPS

\* A sequence is its head and what follows it.
LEMMA TailSet ==
    ASSUME NEW S, NEW s \in Seq(S), s # <<>>
    PROVE  /\ Tail(s) \in Seq(S) /\ Head(s) \in S /\ Head(s) \in ToSet(s)
           /\ ToSet(s) = ToSet(Tail(s)) \cup {Head(s)}
<1> DEFINE t == Tail(s)
<1>1. /\ DOMAIN s = 1 .. Len(s) /\ DOMAIN t = 1 .. Len(s) - 1
      /\ Len(s) \in Nat /\ Len(s) > 0 /\ Head(s) = s[1] /\ Tail(s) \in Seq(S)
  OBVIOUS
<1>2. \A i \in 1 .. Len(s) - 1 : t[i] = s[i + 1]
  OBVIOUS
<1> HIDE DEF t
<1>3. ASSUME NEW i \in DOMAIN t PROVE t[i] \in ToSet(s)
  <2>1. i + 1 \in DOMAIN s /\ t[i] = s[i + 1]
    BY <1>1, <1>2
  <2> QED
    BY <2>1 DEF ToSet
<1>4. ASSUME NEW x \in ToSet(s), x # Head(s) PROVE x \in ToSet(t)
  <2>1. PICK i \in 1 .. Len(s) : x = s[i] /\ i # 1
    BY <1>1, <1>4 DEF ToSet
  <2>2. i - 1 \in DOMAIN t /\ t[i - 1] = x
    BY <1>1, <1>2, <2>1
  <2> QED
    BY <2>2 DEF ToSet
<1>5. Head(s) \in ToSet(s) /\ Head(s) \in S
  BY <1>1 DEF ToSet
<1> QED
  BY <1>1, <1>3, <1>4, <1>5 DEF ToSet, t

\* The same at the front.
LEMMA PushSet ==
    ASSUME NEW S, NEW s \in Seq(S), NEW c \in S
    PROVE  <<c>> \o s \in Seq(S) /\ ToSet(<<c>> \o s) = ToSet(s) \cup {c}
<1> DEFINE a == <<c>> \o s
<1>1. a \in Seq(S) /\ a # <<>> /\ Head(a) = c /\ Tail(a) = s
  OBVIOUS
<1> QED
  BY <1>1, TailSet

\* What is in a sequence is of its type; nothing is in the empty one.
LEMMA SetType ==
    ASSUME NEW S, NEW s \in Seq(S)
    PROVE  ToSet(s) \subseteq S /\ (s = <<>> <=> ToSet(s) = {})
<1>1. DOMAIN s = 1 .. Len(s) /\ Len(s) \in Nat /\ (s = <<>> <=> Len(s) = 0)
  OBVIOUS
<1>2. ToSet(s) \subseteq S
  BY <1>1 DEF ToSet
<1>3. s # <<>> => ToSet(s) # {}
  BY TailSet
<1> QED
  BY <1>2, <1>3, EmptyOnce
-----------------------------------------------------------------------------
(***************************************************************************)
(* Taking.  A receiver that has seen nothing so far has gone past no       *)
(* sub-queue with items of when its call began that nobody else has spoken *)
(* for: what is taken, together with what others are about to take, covers *)
(* them, and that sum never shrinks.  Where nobody has overdrawn, what has *)
(* been repaid stays the same for the length of an attempt, and the count  *)
(* less that is this sum.                                                  *)
(***************************************************************************)
FrontPCs == {"idle", "scan", "size", "others", "nothing", "tail", "over", "peek", "count",
             "check", "take", "repay"}
Rcv == [pc : FrontPCs, look : 0 .. MaxProducers, best : 0 .. MaxProducers, size : Nat, full : Nat,
        beaten : BOOLEAN, at : 0 .. MaxProducers, tail : Nat, over : Nat, mine : Nat,
        there : [Queues -> Nat], excused : SUBSET Queues]
FrontType ==
    /\ listed \in 0 .. MaxProducers /\ recv \in [Receivers -> Rcv]
    /\ tail \in [Queues -> Nat] /\ head \in [Queues -> Nat]
    /\ counted \in [Queues -> Nat] /\ repaid \in [Queues -> Nat]

\* Who has counted itself has since raised head or repaid, or is in flight;
\* what is not listed has no items.
CountsInv == \A p \in Queues :
    /\ counted[p] = head[p] + repaid[p] + Cardinality(Inflight(p))
    /\ p > listed => tail[p] = 0

Rivals(r, p) == Reserved(p) \ {r}
Covered(r, p) == recv[r].there[p] <= head[p] + Cardinality(Rivals(r, p))
Done(r, p) == p \in recv[r].excused \/ Covered(r, p)
Passed(r) == \A p \in Queues : p > recv[r].look => p = recv[r].at \/ Done(r, p)

ScanInv(r) ==
    /\ ~recv[r].beaten /\ recv[r].at = NoQueue
    /\ recv[r].full = 0 => recv[r].size = 0 /\ Passed(r)
    /\ recv[r].full > 0 => recv[r].best \in Queues
SizeInv(r) == LET p == recv[r].look
              IN p \in Queues /\ recv[r].there[p] <= recv[r].tail
TryInv(r) ==
    /\ recv[r].best \in Queues /\ recv[r].at \in Queues
    /\ ~recv[r].beaten => recv[r].at = recv[r].best
    /\ recv[r].beaten => Done(r, recv[r].best) /\ Passed(r)
OthersInv(r) ==
    /\ recv[r].best \in Queues /\ recv[r].at = NoQueue /\ Done(r, recv[r].best)
    /\ recv[r].beaten => Passed(r)
TailInv(r) == \A p \in Queues : p = recv[r].at => recv[r].there[p] <= recv[r].tail
OverInv(r) == \A p \in Queues \ recv[r].excused :
    p = recv[r].at => recv[r].over = repaid[p]
MineInv(r) == \A p \in Queues \ recv[r].excused : p = recv[r].at =>
    recv[r].mine <= recv[r].over + head[p] + Cardinality(Rivals(r, p))
RecvInv(r) ==
    /\ \A p \in Queues : recv[r].there[p] <= tail[p]
    /\ InCall(r) => \A p \in Queues : Overdrawn(r, p) => p \in recv[r].excused
    /\ recv[r].pc \in {"scan", "size"} => ScanInv(r)
    /\ recv[r].pc = "size" => SizeInv(r)
    /\ recv[r].pc \in {"tail", "over", "peek", "count", "check", "take", "repay"} => TryInv(r)
    /\ recv[r].pc \in {"over", "peek"} => TailInv(r)
    /\ recv[r].pc \in {"peek", "count", "check"} => OverInv(r)
    /\ recv[r].pc = "check" => MineInv(r)
    /\ recv[r].pc = "repay" => Done(r, recv[r].at)
    /\ recv[r].pc = "others" => OthersInv(r)
    /\ recv[r].pc = "nothing" => \A p \in Queues : Done(r, p)
FrontInv == FrontType /\ CountsInv /\ \A r \in Receivers : RecvInv(r)

\* The name of no sub-queue is in the range of those that there may be.
LEMMA ZeroQueue == 0 \in 0 .. MaxProducers
  BY FrontAssumption

\* What is known of the receivers that have counted themselves: finitely many.
LEMMA FlightsFinite ==
    ASSUME NEW p
    PROVE  /\ IsFiniteSet(Inflight(p)) /\ Cardinality(Inflight(p)) \in Nat
           /\ IsFiniteSet(Reserved(p)) /\ Cardinality(Reserved(p)) \in Nat
           /\ Reserved(p) \subseteq Inflight(p) /\ Inflight(p) \subseteq Receivers
<1>1. Reserved(p) \subseteq Inflight(p) /\ Inflight(p) \subseteq Receivers
  BY DEF Reserved, Inflight
<1>2. IsFiniteSet(Inflight(p)) /\ IsFiniteSet(Reserved(p))
  BY <1>1, FrontAssumption, FS_Subset
<1> QED
  BY <1>1, <1>2, FS_CardinalityType

\* The number of those with and without one of them.
LEMMA WithoutOne ==
    ASSUME NEW S, IsFiniteSet(S), NEW x
    PROVE  /\ IsFiniteSet(S \ {x}) /\ Cardinality(S \ {x}) \in Nat /\ Cardinality(S) \in Nat
           /\ x \in S => Cardinality(S) = Cardinality(S \ {x}) + 1
           /\ x \notin S => Cardinality(S) = Cardinality(S \ {x})
<1>1. IsFiniteSet(S \ {x}) /\ Cardinality(S \ {x}) \in Nat /\ Cardinality(S) \in Nat
  BY FS_RemoveElement, FS_CardinalityType
<1>2. x \in S => Cardinality(S \ {x}) = Cardinality(S) - 1
  BY FS_RemoveElement
<1>3. x \notin S => S \ {x} = S
  OBVIOUS
<1>4. x \notin S => Cardinality(S) = Cardinality(S \ {x})
  BY <1>3, Zenon
<1>5. x \in S => Cardinality(S) = Cardinality(S \ {x}) + 1
  BY <1>1, <1>2, SMT
<1> QED
  BY <1>1, <1>4, <1>5, Zenon

\* A larger set has more members.
LEMMA MoreOf ==
    ASSUME NEW S, NEW T, IsFiniteSet(T), S \subseteq T
    PROVE  IsFiniteSet(S) /\ Cardinality(S) \in Nat /\ Cardinality(T) \in Nat
           /\ Cardinality(S) <= Cardinality(T)
  BY FS_Subset, FS_CardinalityType

\* At the start nobody has counted itself and nothing is there.
LEMMA FrontStarts == FrontInit => FrontInv
<1> SUFFICES ASSUME FrontInit PROVE FrontInv
  OBVIOUS
<1>1. \A r \in Receivers :
          /\ recv[r] = Receiver("idle") /\ recv[r].pc = "idle" /\ recv[r] \in Rcv
          /\ \A p \in Queues : recv[r].there[p] = 0
  BY FrontAssumption DEF FrontInit, Receiver, Rcv, NoQueue, FrontPCs, Queues
<1>2. FrontType
  BY <1>1, FrontAssumption DEF FrontInit, FrontType, NoQueue, Queues
<1>3. ASSUME NEW p \in Queues PROVE Inflight(p) = {} /\ Cardinality(Inflight(p)) = 0
  <2>1. Inflight(p) = {}
    BY <1>1 DEF Inflight
  <2> QED
    BY <2>1, FS_EmptySet
<1>4. CountsInv
  BY <1>3 DEF CountsInv, FrontInit
<1>5. ASSUME NEW r \in Receivers PROVE RecvInv(r)
  BY <1>1 DEF RecvInv, FrontInit, InCall
<1> QED
  BY <1>2, <1>4, <1>5 DEF FrontInv

\* What the others do leaves a receiver's part as it is: tails only grow, what
\* is taken or about to be taken does not shrink, and nobody repays in a
\* sub-queue that is not excused.
LEMMA OthersDisturbNot ==
    ASSUME FrontInv, FrontType', NEW r \in Receivers, RecvInv(r),
           NEW X \in SUBSET Queues, recv[r].excused \subseteq X,
           recv'[r] = [recv[r] EXCEPT !.excused = X],
           \A p \in Queues : tail[p] <= tail'[p],
           \A p \in Queues : head[p] + Cardinality(Rivals(r, p))
                             <= head'[p] + Cardinality(Rivals(r, p)'),
           InCall(r) => \A p \in Queues : Overdrawn(r, p)' => p \in X,
           InCall(r) => \A p \in Queues \ X : repaid'[p] = repaid[p]
    PROVE  RecvInv(r)'
<1> DEFINE v == recv[r]
           w == recv'[r]
<1>1. /\ w.pc = v.pc /\ w.look = v.look /\ w.best = v.best /\ w.size = v.size /\ w.full = v.full
      /\ w.beaten = v.beaten /\ w.at = v.at /\ w.tail = v.tail /\ w.over = v.over
      /\ w.mine = v.mine /\ w.there = v.there /\ w.excused = X
      /\ v \in Rcv
  BY DEF FrontInv, FrontType, Rcv
<1>2. \A p \in Queues : /\ tail[p] \in Nat /\ tail'[p] \in Nat /\ v.there[p] \in Nat
                        /\ head[p] \in Nat /\ head'[p] \in Nat
  BY <1>1 DEF FrontInv, FrontType, Rcv
<1>3. \A p \in Queues : Cardinality(Rivals(r, p)) \in Nat /\ Cardinality(Rivals(r, p)') \in Nat
  <2> TAKE p \in Queues
  <2>1. IsFiniteSet(Reserved(p)) /\ IsFiniteSet(Reserved(p)')
    BY FlightsFinite, FrontAssumption, FS_Subset DEF Reserved, Inflight
  <2> QED
    BY <2>1, WithoutOne DEF Rivals
<1>4. ASSUME NEW p \in Queues PROVE Covered(r, p) => Covered(r, p)'
  BY <1>1, <1>2, <1>3 DEF Covered
<1>5. ASSUME NEW p \in Queues PROVE Done(r, p) => Done(r, p)'
  BY <1>1, <1>4 DEF Done
<1>6. Passed(r) => Passed(r)'
  BY <1>1, <1>5 DEF Passed
<1>7. \A p \in Queues : w.there[p] <= tail'[p]
  BY <1>1, <1>2 DEF RecvInv
<1>8. InCall(r)' => \A p \in Queues : Overdrawn(r, p)' => p \in w.excused
  BY <1>1 DEF InCall
<1>9. w.pc \in {"scan", "size"} => ScanInv(r)'
  BY <1>1, <1>6 DEF RecvInv, ScanInv
<1>10. w.pc = "size" => SizeInv(r)'
  BY <1>1 DEF RecvInv, SizeInv
<1>11. w.pc \in {"tail", "over", "peek", "count", "check", "take", "repay"} => TryInv(r)'
  BY <1>1, <1>5, <1>6 DEF RecvInv, TryInv
<1>12. w.pc \in {"over", "peek"} => TailInv(r)'
  BY <1>1 DEF RecvInv, TailInv
<1>13. w.pc \in {"peek", "count", "check"} => OverInv(r)'
  BY <1>1 DEF RecvInv, OverInv, InCall
<1>14. w.pc = "check" => MineInv(r)'
  <2> SUFFICES ASSUME w.pc = "check", NEW p \in Queues \ X, p = w.at
               PROVE  w.mine <= w.over + head'[p] + Cardinality(Rivals(r, p)')
    BY <1>1 DEF MineInv
  <2>1. v.mine <= v.over + head[p] + Cardinality(Rivals(r, p))
    BY <1>1 DEF RecvInv, MineInv
  <2>2. v.mine \in Nat /\ v.over \in Nat
    BY <1>1 DEF Rcv
  <2> QED
    BY <1>1, <1>2, <1>3, <2>1, <2>2
<1>15. w.pc = "repay" => Done(r, recv[r].at)'
  <2> SUFFICES ASSUME w.pc = "repay" PROVE Done(r, recv[r].at)'
    OBVIOUS
  <2>1. PICK a \in Queues : a = v.at
    BY <1>1 DEF RecvInv, TryInv
  <2>2. Done(r, a)
    BY <1>1, <2>1 DEF RecvInv
  <2>3. Done(r, a)'
    BY <1>5, <2>2
  <2> QED
    BY <1>1, <2>1, <2>3 DEF Done, Covered, Rivals
<1>16. w.pc = "others" => OthersInv(r)'
  BY <1>1, <1>5, <1>6 DEF RecvInv, OthersInv
<1>17. w.pc = "nothing" => \A p \in Queues : Done(r, p)'
  BY <1>1, <1>5 DEF RecvInv
<1> QED
  BY <1>7, <1>8, <1>9, <1>10, <1>11, <1>12, <1>13, <1>14, <1>15, <1>16, <1>17 DEF RecvInv

\* A receiver that is neither before nor after its step one of those that have
\* counted themselves changes nothing for the others.
LEMMA QuietFlights ==
    ASSUME FrontInv, NEW r \in Receivers, NEW w \in Rcv, recv' = [recv EXCEPT ![r] = w],
           UNCHANGED <<tail, head, counted, repaid>>,
           recv[r].pc \notin {"check", "take", "repay"},
           w.pc \notin {"check", "take", "repay"}
    PROVE  /\ recv'[r] = w /\ recv' \in [Receivers -> Rcv]
           /\ \A q \in Receivers : q # r => recv'[q] = recv[q]
           /\ \A p \in Queues : Inflight(p)' = Inflight(p) /\ Reserved(p)' = Reserved(p)
           /\ \A p \in Queues : r \notin Inflight(p)
<1>1. /\ recv'[r] = w /\ recv' \in [Receivers -> Rcv]
      /\ \A q \in Receivers : q # r => recv'[q] = recv[q]
  BY DEF FrontInv, FrontType
<1>2. ASSUME NEW p \in Queues
      PROVE  Inflight(p)' = Inflight(p) /\ r \notin Inflight(p)
  BY <1>1 DEF Inflight
<1>3. ASSUME NEW p \in Queues PROVE Reserved(p)' = Reserved(p)
  <2>1. \A q \in Inflight(p) : q \in Receivers /\ recv'[q] = recv[q]
    BY <1>1, <1>2 DEF Inflight
  <2> QED
    BY <1>2, <2>1 DEF Reserved
<1> QED
  BY <1>1, <1>2, <1>3

\* Such a step, when it is right for the one who takes it.
LEMMA QuietKeeps ==
    ASSUME FrontInv, NEW r \in Receivers, NEW w \in Rcv, recv' = [recv EXCEPT ![r] = w],
           UNCHANGED <<listed, tail, head, counted, repaid>>,
           recv[r].pc \notin {"check", "take", "repay"},
           w.pc \notin {"check", "take", "repay"}, RecvInv(r)'
    PROVE  FrontInv'
<1>1. /\ recv'[r] = w /\ recv' \in [Receivers -> Rcv]
      /\ \A q \in Receivers : q # r => recv'[q] = recv[q]
      /\ \A p \in Queues : Inflight(p)' = Inflight(p) /\ Reserved(p)' = Reserved(p)
  BY QuietFlights
<1>2. FrontType'
  BY <1>1 DEF FrontInv, FrontType
<1>3. CountsInv'
  BY <1>1 DEF FrontInv, CountsInv
<1>4. ASSUME NEW q \in Receivers, q # r PROVE RecvInv(q)'
  <2>1. recv'[q] = [recv[q] EXCEPT !.excused = recv[q].excused]
    BY <1>1, <1>4 DEF FrontInv, FrontType, Rcv
  <2>2. recv[q].excused \in SUBSET Queues
    BY DEF FrontInv, FrontType, Rcv
  <2>3. \A p \in Queues : tail[p] <= tail'[p]
    BY DEF FrontInv, FrontType
  <2>4. \A p \in Queues : Rivals(q, p)' = Rivals(q, p)
    BY <1>1 DEF Rivals
  <2>5. \A p \in Queues : head[p] + Cardinality(Rivals(q, p))
                          <= head'[p] + Cardinality(Rivals(q, p)')
    <3> TAKE p \in Queues
    <3>1. Cardinality(Rivals(q, p)) \in Nat /\ head[p] \in Nat
      BY FlightsFinite, WithoutOne DEF Rivals, FrontInv, FrontType
    <3> QED
      BY <2>4, <3>1
  <2>6. InCall(q) => \A p \in Queues : Overdrawn(q, p)' => p \in recv[q].excused
    BY <1>1 DEF FrontInv, RecvInv, Overdrawn
  <2> QED
    BY <1>2, <2>1, <2>2, <2>3, <2>5, <2>6, OthersDisturbNot DEF FrontInv
<1> QED
  BY <1>2, <1>3, <1>4 DEF FrontInv

\* In the middle of a call what was there, and what is excused, stays the same.
LEMMA QuietOwn ==
    ASSUME FrontInv, NEW r \in Receivers, NEW w \in Rcv, recv' = [recv EXCEPT ![r] = w],
           UNCHANGED <<tail, head, counted, repaid>>,
           recv[r].pc \notin {"check", "take", "repay"},
           w.pc \notin {"check", "take", "repay"},
           InCall(r), w.there = recv[r].there, w.excused = recv[r].excused
    PROVE  /\ recv'[r] = w
           /\ \A p \in Queues : w.there[p] <= tail'[p]
           /\ \A p \in Queues : Overdrawn(r, p)' => p \in w.excused
           /\ \A p \in Queues : Done(r, p) <=> Done(r, p)'
<1>1. /\ recv'[r] = w
      /\ \A p \in Queues : Inflight(p)' = Inflight(p) /\ Reserved(p)' = Reserved(p)
  BY QuietFlights
<1>2. \A p \in Queues : Overdrawn(r, p)' <=> Overdrawn(r, p)
  BY <1>1 DEF Overdrawn
<1>3. \A p \in Queues : Rivals(r, p)' = Rivals(r, p)
  BY <1>1 DEF Rivals
<1>4. \A p \in Queues : Done(r, p) <=> Done(r, p)'
  BY <1>1, <1>3 DEF Done, Covered
<1> QED
  BY <1>1, <1>2, <1>4 DEF FrontInv, RecvInv

\* The scan loads a tail: not below what it was when the call began.
LEMMA ScanTailKeeps == ASSUME FrontInv, NEW r \in Receivers, ScanTail(r) PROVE FrontInv'
<1> DEFINE v == recv[r]
           w == [v EXCEPT !.pc = "size", !.tail = tail[v.look]]
<1>1. /\ v \in Rcv /\ v.pc = "scan" /\ ScanInv(r) /\ v.look \in Queues
      /\ UNCHANGED <<listed, tail, head, counted, repaid>> /\ recv' = [recv EXCEPT ![r] = w]
  <2>1. /\ v.pc = "scan" /\ v.look # 0
        /\ UNCHANGED <<listed, tail, head, counted, repaid>> /\ recv' = [recv EXCEPT ![r] = w]
    BY DEF ScanTail, RecvAt, Set, tallyVars, NoQueue
  <2>2. v \in Rcv /\ ScanInv(r)
    BY <2>1 DEF FrontInv, FrontType, RecvInv
  <2>3. v.look \in Queues
    BY <2>1, <2>2, FrontAssumption DEF Rcv, Queues
  <2> QED
    BY <2>1, <2>2, <2>3
<1>2. /\ w \in Rcv /\ w.pc = "size" /\ w.there = v.there /\ w.excused = v.excused
      /\ w.look = v.look /\ w.best = v.best /\ w.size = v.size /\ w.full = v.full
      /\ w.beaten = v.beaten /\ w.at = v.at /\ w.tail = tail[v.look]
  BY <1>1 DEF FrontInv, FrontType, Rcv, FrontPCs
<1>3. InCall(r)
  BY <1>1 DEF InCall
<1>4. /\ recv'[r] = w
      /\ \A p \in Queues : w.there[p] <= tail'[p]
      /\ \A p \in Queues : Overdrawn(r, p)' => p \in w.excused
      /\ \A p \in Queues : Done(r, p) <=> Done(r, p)'
  <2> HIDE DEF v, w
  <2> QED
    BY <1>1, <1>2, <1>3, QuietOwn DEF v
<1> HIDE DEF w
<1>5. ScanInv(r)'
  BY <1>1, <1>2, <1>4 DEF ScanInv, Passed
<1>6. SizeInv(r)'
  BY <1>1, <1>2, <1>4 DEF SizeInv
<1>7. RecvInv(r)'
  BY <1>2, <1>4, <1>5, <1>6 DEF RecvInv
<1> QED
  BY <1>1, <1>2, <1>7, QuietKeeps

\* With nothing seen so far, a sub-queue that looks empty has given away all
\* that was there.
LEMMA ScanHeadKeeps == ASSUME FrontInv, NEW r \in Receivers, ScanHead(r) PROVE FrontInv'
<1> DEFINE v == recv[r]
           s == Seen(r)
           w == [v EXCEPT !.pc = "scan", !.tail = 0, !.look = @ - 1,
                          !.full = IF s > 0 THEN @ + 1 ELSE @,
                          !.best = IF s > v.size THEN v.look ELSE @,
                          !.size = IF s > @ THEN s ELSE @]
<1>1. /\ v \in Rcv /\ v.pc = "size" /\ ScanInv(r) /\ SizeInv(r) /\ v.look \in Queues
      /\ UNCHANGED <<listed, tail, head, counted, repaid>> /\ recv' = [recv EXCEPT ![r] = w]
  BY DEF ScanHead, RecvAt, Set, FrontInv, FrontType, RecvInv, tallyVars, SizeInv
<1>2. /\ v.look \in Nat /\ v.look - 1 \in 0 .. MaxProducers /\ v.full \in Nat /\ v.size \in Nat
      /\ v.best \in 0 .. MaxProducers /\ v.look \in 0 .. MaxProducers
  <2>1. /\ v.full \in Nat /\ v.size \in Nat /\ v.best \in 0 .. MaxProducers
        /\ v.look \in 1 .. MaxProducers
    BY <1>1 DEF Rcv, Queues
  <2> QED
    BY <2>1, FrontAssumption
<1>3. s \in Nat /\ (s = 0 => v.tail <= head[v.look])
  BY <1>1 DEF Seen, FrontInv, FrontType, Rcv
<1> HIDE DEF s
<1>4. /\ w.pc = "scan" /\ w.there = v.there /\ w.excused = v.excused
      /\ w.look = v.look - 1 /\ w.full = (IF s > 0 THEN v.full + 1 ELSE v.full)
      /\ w.best = (IF s > v.size THEN v.look ELSE v.best)
      /\ w.size = (IF s > v.size THEN s ELSE v.size)
      /\ w.beaten = v.beaten /\ w.at = v.at /\ w.tail = 0
  BY <1>1 DEF Rcv
<1>5. w \in Rcv
  <2>1. /\ (IF s > 0 THEN v.full + 1 ELSE v.full) \in Nat
        /\ (IF s > v.size THEN v.look ELSE v.best) \in 0 .. MaxProducers
        /\ (IF s > v.size THEN s ELSE v.size) \in Nat
    BY <1>2, <1>3
  <2> QED
    BY <1>1, <1>2, <2>1 DEF Rcv, FrontPCs
<1>6. InCall(r)
  BY <1>1 DEF InCall
<1>7. /\ recv'[r] = w
      /\ \A p \in Queues : w.there[p] <= tail'[p]
      /\ \A p \in Queues : Overdrawn(r, p)' => p \in w.excused
      /\ \A p \in Queues : Done(r, p) <=> Done(r, p)'
  <2> HIDE DEF v, w
  <2> QED
    BY <1>1, <1>4, <1>5, <1>6, QuietOwn DEF v
<1> HIDE DEF w
<1>8. s = 0 => Done(r, v.look)
  <2> SUFFICES ASSUME s = 0 PROVE Done(r, v.look)
    OBVIOUS
  <2>1. PICK p \in Queues : p = v.look
    BY <1>1
  <2>2. Cardinality(Rivals(r, p)) \in Nat
    BY FlightsFinite, WithoutOne DEF Rivals
  <2>3. v.there[p] <= v.tail /\ v.tail <= head[p]
    BY <1>1, <1>3, <2>1 DEF SizeInv
  <2>4. v.there[p] \in Nat /\ v.tail \in Nat /\ head[p] \in Nat
    BY <1>1 DEF FrontInv, FrontType, Rcv
  <2> QED
    BY <2>1, <2>2, <2>3, <2>4 DEF Done, Covered
<1>9. w.full = 0 => w.size = 0 /\ Passed(r)'
  <2> SUFFICES ASSUME w.full = 0 PROVE w.size = 0 /\ Passed(r)'
    OBVIOUS
  <2>1. s = 0 /\ v.full = 0 /\ v.size = 0 /\ Passed(r)
    BY <1>1, <1>2, <1>3, <1>4 DEF ScanInv
  <2>2. ASSUME NEW p \in Queues, p > v.look - 1 PROVE p = v.at \/ Done(r, p)
    <3>1. p = v.look \/ p > v.look
      BY <1>2, <2>2 DEF Queues
    <3> QED
      BY <1>8, <2>1, <3>1 DEF Passed
  <2> QED
    BY <1>2, <1>3, <1>4, <1>7, <2>1, <2>2 DEF Passed
<1>10. w.full > 0 => w.best \in Queues
  BY <1>1, <1>2, <1>3, <1>4 DEF ScanInv
<1>11. ScanInv(r)'
  BY <1>1, <1>4, <1>7, <1>9, <1>10 DEF ScanInv
<1>12. RecvInv(r)'
  BY <1>4, <1>7, <1>11 DEF RecvInv
<1> QED
  BY <1>1, <1>4, <1>5, <1>12, QuietKeeps

\* The answer is that there is nothing.
LEMMA NothingKeeps ==
    ASSUME FrontInv, NEW r \in Receivers, Nothing(r), InCall(r),
           recv[r].pc \notin {"check", "take", "repay"},
           UNCHANGED <<listed, tail, head, counted, repaid>>, \A p \in Queues : Done(r, p)
    PROVE  FrontInv'
<1> DEFINE v == recv[r]
           w == [Receiver("nothing") EXCEPT !.there = v.there, !.excused = v.excused]
<1>1. v \in Rcv /\ recv' = [recv EXCEPT ![r] = w]
  BY DEF Nothing, Set, FrontInv, FrontType
<1>2. w \in Rcv /\ w.pc = "nothing" /\ w.there = v.there /\ w.excused = v.excused
  <2>1. v.there \in [Queues -> Nat] /\ v.excused \in SUBSET Queues
    BY <1>1 DEF Rcv
  <2> QED
    BY <2>1, ZeroQueue DEF Rcv, Receiver, NoQueue, FrontPCs
<1>3. /\ recv'[r] = w
      /\ \A p \in Queues : w.there[p] <= tail'[p]
      /\ \A p \in Queues : Overdrawn(r, p)' => p \in w.excused
      /\ \A p \in Queues : Done(r, p) <=> Done(r, p)'
  <2> HIDE DEF v, w
  <2> QED
    BY <1>1, <1>2, QuietOwn DEF v
<1> HIDE DEF w
<1>4. RecvInv(r)'
  BY <1>2, <1>3 DEF RecvInv
<1> QED
  BY <1>1, <1>2, <1>4, QuietKeeps

\* A call begins: what is there is what has been posted.
LEMMA BeginKeeps == ASSUME FrontInv, NEW r \in Receivers, BeginScan(r) PROVE FrontInv'
<1> DEFINE v == recv[r]
           X == {p \in Queues : Overdrawn(r, p)}
           w == [Receiver("scan") EXCEPT !.look = listed, !.there = tail, !.excused = X]
<1>1. /\ v \in Rcv /\ v.pc \in {"idle", "nothing"} /\ recv' = [recv EXCEPT ![r] = w]
      /\ UNCHANGED <<listed, tail, head, counted, repaid>>
  BY DEF BeginScan, Set, FrontInv, FrontType, tallyVars
<1>2. X \in SUBSET Queues
  OBVIOUS
<1> HIDE DEF X
<1>3. /\ w \in Rcv /\ w.pc = "scan" /\ w.there = tail /\ w.excused = X /\ w.look = listed
      /\ w.full = 0 /\ w.size = 0 /\ w.at = NoQueue /\ ~w.beaten
  <2>1. tail \in [Queues -> Nat] /\ listed \in 0 .. MaxProducers
    BY DEF FrontInv, FrontType
  <2> QED
    BY <1>2, <2>1, ZeroQueue DEF Rcv, Receiver, NoQueue, FrontPCs
<1> HIDE DEF w
<1>4. /\ recv'[r] = w
      /\ \A p \in Queues : Inflight(p)' = Inflight(p) /\ Reserved(p)' = Reserved(p)
  BY <1>1, <1>3, QuietFlights
<1>5. \A p \in Queues : Overdrawn(r, p)' <=> p \in X
  BY <1>4 DEF Overdrawn, X
<1>6. ASSUME NEW p \in Queues, p > listed PROVE Done(r, p)'
  <2>1. tail[p] = 0 /\ head[p] \in Nat
    BY <1>6 DEF FrontInv, CountsInv, FrontType
  <2>2. Rivals(r, p)' = Rivals(r, p) /\ Cardinality(Rivals(r, p)) \in Nat
    BY <1>4, FlightsFinite, WithoutOne DEF Rivals
  <2>3. Covered(r, p)' <=> tail[p] <= head[p] + Cardinality(Rivals(r, p))
    BY <1>1, <1>3, <1>4, <2>2 DEF Covered
  <2> QED
    BY <2>1, <2>2, <2>3 DEF Done
<1>7. ScanInv(r)'
  BY <1>3, <1>4, <1>6 DEF ScanInv, Passed
<1>8. \A p \in Queues : w.there[p] <= tail'[p]
  BY <1>1, <1>3 DEF FrontInv, FrontType
<1>9. RecvInv(r)'
  BY <1>3, <1>4, <1>5, <1>7, <1>8 DEF RecvInv
<1> QED
  BY <1>1, <1>3, <1>9, QuietKeeps

\* The scan is over.
LEMMA BestKeeps == ASSUME FrontInv, NEW r \in Receivers, TryBest(r) PROVE FrontInv'
<1> DEFINE v == recv[r]
<1>1. /\ v \in Rcv /\ v.pc = "scan" /\ ScanInv(r) /\ InCall(r)
      /\ v.look = NoQueue \/ v.full = NonEmptyLimit
      /\ UNCHANGED <<listed, tail, head, counted, repaid>>
  BY DEF TryBest, RecvAt, FrontInv, FrontType, RecvInv, tallyVars, InCall
<1>2. CASE v.full = 0 /\ Nothing(r)
  <2>1. v.look = 0 /\ Passed(r) /\ v.at = 0
    BY <1>1, <1>2, FrontAssumption DEF ScanInv, NoQueue
  <2>2. \A p \in Queues : Done(r, p)
    BY <2>1, FrontAssumption DEF Passed, Queues
  <2> QED
    BY <1>1, <1>2, <2>2, NothingKeeps
<1>3. CASE /\ v.full > 0
           /\ Set(r, [v EXCEPT !.pc = "tail", !.at = v.best, !.look = NoQueue, !.size = 0,
                               !.full = 0])
  <2> DEFINE w == [v EXCEPT !.pc = "tail", !.at = v.best, !.look = NoQueue, !.size = 0,
                            !.full = 0]
  <2>1. recv' = [recv EXCEPT ![r] = w]
    BY <1>3 DEF Set
  <2>2. /\ w \in Rcv /\ w.pc = "tail" /\ w.there = v.there /\ w.excused = v.excused
        /\ w.at = v.best /\ w.best = v.best /\ w.beaten = v.beaten
    BY <1>1, ZeroQueue DEF Rcv, NoQueue, FrontPCs
  <2>3. v.best \in Queues /\ ~v.beaten
    BY <1>1, <1>3 DEF ScanInv
  <2>4. /\ recv'[r] = w
        /\ \A p \in Queues : w.there[p] <= tail'[p]
        /\ \A p \in Queues : Overdrawn(r, p)' => p \in w.excused
    <3> HIDE DEF v, w
    <3> QED
      BY <1>1, <2>1, <2>2, QuietOwn DEF v
  <2> HIDE DEF w
  <2>5. TryInv(r)'
    BY <2>2, <2>3, <2>4 DEF TryInv
  <2>6. RecvInv(r)'
    BY <2>2, <2>4, <2>5 DEF RecvInv
  <2> QED
    BY <1>1, <2>1, <2>2, <2>6, QuietKeeps
<1> QED
  BY <1>2, <1>3 DEF TryBest

\* The list is looked through again: nothing is there of what is not in it.
LEMMA LookKeeps == ASSUME FrontInv, NEW r \in Receivers, LookAgain(r) PROVE FrontInv'
<1> DEFINE v == recv[r]
           w == [v EXCEPT !.beaten = TRUE, !.look = listed]
<1>1. /\ v \in Rcv /\ v.pc = "others" /\ OthersInv(r) /\ InCall(r)
      /\ UNCHANGED <<listed, tail, head, counted, repaid>> /\ recv' = [recv EXCEPT ![r] = w]
  BY DEF LookAgain, RecvAt, Set, FrontInv, FrontType, RecvInv, tallyVars, InCall
<1>2. /\ w \in Rcv /\ w.pc = "others" /\ w.there = v.there /\ w.excused = v.excused
      /\ w.at = v.at /\ w.best = v.best /\ w.beaten /\ w.look = listed
  BY <1>1 DEF Rcv, FrontPCs, FrontInv, FrontType
<1>3. /\ recv'[r] = w
      /\ \A p \in Queues : w.there[p] <= tail'[p]
      /\ \A p \in Queues : Overdrawn(r, p)' => p \in w.excused
      /\ \A p \in Queues : Done(r, p) <=> Done(r, p)'
  <2> HIDE DEF v, w
  <2> QED
    BY <1>1, <1>2, QuietOwn DEF v
<1> HIDE DEF w
<1>4. ASSUME NEW p \in Queues, p > listed PROVE Done(r, p)
  <2>1. tail[p] = 0 /\ head[p] \in Nat /\ v.there[p] <= tail[p] /\ v.there[p] \in Nat
    BY <1>1, <1>4 DEF FrontInv, CountsInv, FrontType, RecvInv, Rcv
  <2>2. Cardinality(Rivals(r, p)) \in Nat
    BY FlightsFinite, WithoutOne DEF Rivals
  <2> QED
    BY <2>1, <2>2 DEF Done, Covered
<1>5. Passed(r)'
  BY <1>1, <1>2, <1>3, <1>4 DEF Passed
<1>6. Done(r, recv[r].best)'
  <2>1. PICK b \in Queues : b = v.best /\ Done(r, b)
    BY <1>1 DEF OthersInv
  <2>2. Done(r, b)' /\ w.best = b
    BY <1>2, <1>3, <2>1
  <2> QED
    BY <1>3, <2>2 DEF Done, Covered, Rivals
<1>7. OthersInv(r)'
  BY <1>1, <1>2, <1>3, <1>5, <1>6 DEF OthersInv
<1>8. RecvInv(r)'
  BY <1>2, <1>3, <1>7 DEF RecvInv
<1> QED
  BY <1>1, <1>2, <1>8, QuietKeeps

\* The next of the others, or none is left.
LEMMA OtherKeeps == ASSUME FrontInv, NEW r \in Receivers, TryOther(r) PROVE FrontInv'
<1> DEFINE v == recv[r]
<1>1. /\ v \in Rcv /\ v.pc = "others" /\ OthersInv(r) /\ InCall(r) /\ v.beaten
      /\ Passed(r) /\ v.at = 0 /\ v.best \in Queues /\ Done(r, v.best)
      /\ UNCHANGED <<listed, tail, head, counted, repaid>>
  BY DEF TryOther, RecvAt, FrontInv, FrontType, RecvInv, tallyVars, InCall, OthersInv, NoQueue
<1>2. CASE v.look = NoQueue /\ Nothing(r)
  <2>1. \A p \in Queues : Done(r, p)
    BY <1>1, <1>2, FrontAssumption DEF Passed, Queues, NoQueue
  <2> QED
    BY <1>1, <2>1, <1>2, NothingKeeps
<1>3. CASE /\ v.look # NoQueue
           /\ Set(r, [v EXCEPT !.pc = IF v.look = v.best THEN "others" ELSE "tail",
                               !.at = IF v.look = v.best THEN NoQueue ELSE v.look,
                               !.look = @ - 1])
  <2> DEFINE c == IF v.look = v.best THEN "others" ELSE "tail"
             a == IF v.look = v.best THEN NoQueue ELSE v.look
             w == [v EXCEPT !.pc = c, !.at = a, !.look = @ - 1]
  <2>1. recv' = [recv EXCEPT ![r] = w]
    BY <1>3 DEF Set
  <2>2. v.look \in Queues /\ v.look - 1 \in 0 .. MaxProducers /\ v.look \in Nat
    <3>1. v.look \in 0 .. MaxProducers /\ v.look # 0
      BY <1>1, <1>3 DEF Rcv, NoQueue
    <3> QED
      BY <3>1, FrontAssumption DEF Queues
  <2>3. a \in 0 .. MaxProducers /\ c \in {"others", "tail"}
    BY <2>2, FrontAssumption DEF Queues, NoQueue
  <2>4. v.look = v.best => c = "others" /\ a = 0
    BY DEF NoQueue
  <2>5. v.look # v.best => c = "tail" /\ a = v.look
    OBVIOUS
  <2> HIDE DEF a, c
  <2>6. /\ w \in Rcv /\ w.pc = c /\ w.there = v.there /\ w.excused = v.excused
        /\ w.at = a /\ w.best = v.best /\ w.beaten /\ w.look = v.look - 1
    BY <1>1, <2>2, <2>3 DEF Rcv, FrontPCs
  <2>7. /\ recv'[r] = w
        /\ \A p \in Queues : w.there[p] <= tail'[p]
        /\ \A p \in Queues : Overdrawn(r, p)' => p \in w.excused
        /\ \A p \in Queues : Done(r, p) <=> Done(r, p)'
    <3> HIDE DEF v, w
    <3> QED
      BY <1>1, <2>1, <2>3, <2>6, QuietOwn DEF v
  <2> HIDE DEF w
  <2>8. Passed(r)'
    <3> SUFFICES ASSUME NEW p \in Queues, p > v.look - 1 PROVE p = a \/ Done(r, p)'
      BY <2>6, <2>7 DEF Passed
    <3>1. p = v.look \/ p > v.look
      BY <2>2 DEF Queues
    <3>2. p > v.look => Done(r, p)
      BY <1>1 DEF Passed, Queues
    <3>3. p = v.look => p = a \/ Done(r, p)
      BY <1>1, <2>5
    <3> QED
      BY <2>7, <3>1, <3>2, <3>3
  <2>9. Done(r, recv[r].best)'
    <3>1. PICK b \in Queues : b = v.best /\ Done(r, b)
      BY <1>1
    <3>2. Done(r, b)' /\ w.best = b
      BY <2>6, <2>7, <3>1
    <3> QED
      BY <2>7, <3>2 DEF Done, Covered, Rivals
  <2>10. c = "others" => OthersInv(r)'
    BY <1>1, <2>2, <2>4, <2>5, <2>6, <2>7, <2>8, <2>9 DEF OthersInv, NoQueue
  <2>11. c = "tail" => TryInv(r)'
    BY <1>1, <2>2, <2>4, <2>5, <2>6, <2>7, <2>8, <2>9 DEF TryInv
  <2>12. RecvInv(r)'
    BY <2>3, <2>6, <2>7, <2>10, <2>11 DEF RecvInv
  <2> QED
    BY <1>1, <2>1, <2>3, <2>6, <2>12, QuietKeeps
<1> QED
  BY <1>2, <1>3 DEF TryOther

\* An attempt goes on: the others of the list are as before.
LEMMA TrySame ==
    ASSUME NEW r, NEW w, TryInv(r), recv'[r] = w, w.best = recv[r].best, w.at = recv[r].at,
           w.beaten = recv[r].beaten, w.look = recv[r].look,
           \A p \in Queues : Done(r, p) => Done(r, p)'
    PROVE  TryInv(r)'
<1>1. PICK b \in Queues : b = recv[r].best
  BY DEF TryInv
<1>2. recv[r].beaten => Done(r, recv[r].best)'
  <2> SUFFICES ASSUME recv[r].beaten PROVE Done(r, recv[r].best)'
    OBVIOUS
  <2>1. Done(r, b)'
    BY <1>1 DEF TryInv
  <2> QED
    BY <1>1, <2>1 DEF Done, Covered, Rivals
<1>3. recv[r].beaten => Passed(r)'
  BY DEF TryInv, Passed
<1> QED
  BY <1>2, <1>3 DEF TryInv

\* An attempt has failed, at a sub-queue where nothing is missed.
LEMMA FailOthers ==
    ASSUME NEW r \in Receivers, NEW w, TryInv(r), recv[r] \in Rcv,
           w = [recv[r] EXCEPT !.pc = "others", !.at = NoQueue,
                               !.tail = 0, !.over = 0, !.mine = 0],
           recv'[r] = w, Done(r, recv[r].at),
           \A p \in Queues : Done(r, p) => Done(r, p)'
    PROVE  w \in Rcv /\ OthersInv(r)'
<1> DEFINE v == recv[r]
<1>1. /\ w.pc = "others" /\ w.there = v.there /\ w.excused = v.excused /\ w.at = NoQueue
      /\ w.best = v.best /\ w.beaten = v.beaten /\ w.look = v.look
  BY DEF Rcv
<1>2. w \in Rcv
  <2>1. [v EXCEPT !.pc = "others", !.at = NoQueue, !.tail = 0, !.over = 0, !.mine = 0] \in Rcv
    BY ZeroQueue DEF Rcv, NoQueue, FrontPCs
  <2> QED
    BY <2>1
<1>3. PICK b \in Queues : b = v.best
  BY DEF TryInv
<1>4. PICK a \in Queues : a = v.at
  BY DEF TryInv
<1>5. Done(r, b)
  BY <1>3, <1>4 DEF TryInv
<1>6. Done(r, recv[r].best)'
  <2>1. Done(r, b)'
    BY <1>5
  <2> QED
    BY <1>1, <1>3, <2>1 DEF Done, Covered, Rivals
<1>7. v.beaten => Passed(r)'
  <2> SUFFICES ASSUME v.beaten, NEW p \in Queues, p > v.look PROVE Done(r, p)'
    BY <1>1 DEF Passed
  <2>1. p = v.at \/ Done(r, p)
    BY DEF TryInv, Passed
  <2>2. Done(r, p)
    BY <2>1
  <2> QED
    BY <2>2
<1> QED
  BY <1>1, <1>2, <1>3, <1>6, <1>7 DEF OthersInv

\* An attempt loads the tail: not below what it was when the call began.
LEMMA LoadTailIndexKeeps == ASSUME FrontInv, NEW r \in Receivers, LoadTailIndex(r) PROVE FrontInv'
<1> DEFINE v == recv[r]
           w == [v EXCEPT !.pc = "over", !.tail = tail[v.at]]
<1>1. /\ v \in Rcv /\ v.pc = "tail" /\ TryInv(r) /\ InCall(r) /\ v.at \in Queues
      /\ UNCHANGED <<listed, tail, head, counted, repaid>> /\ recv' = [recv EXCEPT ![r] = w]
  BY DEF LoadTailIndex, RecvAt, Set, FrontInv, FrontType, RecvInv, tallyVars, InCall, TryInv
<1>2. /\ w \in Rcv /\ w.pc = "over" /\ w.there = v.there /\ w.excused = v.excused
      /\ w.at = v.at /\ w.best = v.best /\ w.beaten = v.beaten /\ w.look = v.look
      /\ w.tail = tail[v.at]
  BY <1>1 DEF FrontInv, FrontType, Rcv, FrontPCs
<1>3. /\ recv'[r] = w
      /\ \A p \in Queues : w.there[p] <= tail'[p]
      /\ \A p \in Queues : Overdrawn(r, p)' => p \in w.excused
      /\ \A p \in Queues : Done(r, p) <=> Done(r, p)'
  <2> HIDE DEF v, w
  <2> QED
    BY <1>1, <1>2, QuietOwn DEF v
<1> HIDE DEF w
<1>4. TryInv(r)'
  BY <1>1, <1>2, <1>3, TrySame
<1>5. TailInv(r)'
  BY <1>1, <1>2, <1>3 DEF TailInv
<1>6. RecvInv(r)'
  BY <1>2, <1>3, <1>4, <1>5 DEF RecvInv
<1> QED
  BY <1>1, <1>2, <1>6, QuietKeeps

\* It loads what has been repaid.
LEMMA LoadOverKeeps == ASSUME FrontInv, NEW r \in Receivers, LoadOvercommits(r) PROVE FrontInv'
<1> DEFINE v == recv[r]
           w == [v EXCEPT !.pc = "peek", !.over = repaid[v.at]]
<1>1. /\ v \in Rcv /\ v.pc = "over" /\ TryInv(r) /\ TailInv(r) /\ InCall(r) /\ v.at \in Queues
      /\ UNCHANGED <<listed, tail, head, counted, repaid>> /\ recv' = [recv EXCEPT ![r] = w]
  BY DEF LoadOvercommits, RecvAt, Set, FrontInv, FrontType, RecvInv, tallyVars, InCall, TryInv
<1>2. /\ w \in Rcv /\ w.pc = "peek" /\ w.there = v.there /\ w.excused = v.excused
      /\ w.at = v.at /\ w.best = v.best /\ w.beaten = v.beaten /\ w.look = v.look
      /\ w.tail = v.tail /\ w.over = repaid[v.at]
  BY <1>1 DEF FrontInv, FrontType, Rcv, FrontPCs
<1>3. /\ recv'[r] = w
      /\ \A p \in Queues : w.there[p] <= tail'[p]
      /\ \A p \in Queues : Overdrawn(r, p)' => p \in w.excused
      /\ \A p \in Queues : Done(r, p) <=> Done(r, p)'
  <2> HIDE DEF v, w
  <2> QED
    BY <1>1, <1>2, QuietOwn DEF v
<1> HIDE DEF w
<1>4. TryInv(r)'
  BY <1>1, <1>2, <1>3, TrySame
<1>5. TailInv(r)' /\ OverInv(r)'
  BY <1>1, <1>2, <1>3 DEF TailInv, OverInv
<1>6. RecvInv(r)'
  BY <1>2, <1>3, <1>4, <1>5 DEF RecvInv
<1> QED
  BY <1>1, <1>2, <1>6, QuietKeeps

\* Where nobody has counted itself beyond what is there, the count is that of
\* what is taken or about to be.
LEMMA CountIsReserved ==
    ASSUME FrontInv, NEW r \in Receivers, NEW a \in Queues, ~Overdrawn(r, a), r \notin Inflight(a)
    PROVE  /\ counted[a] = head[a] + repaid[a] + Cardinality(Rivals(r, a))
           /\ Cardinality(Rivals(r, a)) \in Nat
<1>1. Reserved(a) \subseteq Inflight(a)
  BY FlightsFinite
<1>2. Inflight(a) = Rivals(r, a)
  BY <1>1 DEF Overdrawn, Rivals
<1>3. Cardinality(Rivals(r, a)) \in Nat
  BY FlightsFinite, WithoutOne DEF Rivals
<1> QED
  BY <1>2, <1>3 DEF FrontInv, CountsInv

\* The cheap test fails only where everything that was there is spoken for.
LEMMA PeekKeeps == ASSUME FrontInv, NEW r \in Receivers, PeekCount(r) PROVE FrontInv'
<1> DEFINE v == recv[r]
<1>1. /\ v \in Rcv /\ v.pc = "peek" /\ TryInv(r) /\ TailInv(r) /\ OverInv(r) /\ InCall(r)
      /\ UNCHANGED <<listed, tail, head, counted, repaid>>
  BY DEF PeekCount, RecvAt, FrontInv, FrontType, RecvInv, tallyVars, InCall
<1>2. PICK a \in Queues : a = v.at
  BY <1>1 DEF TryInv
<1>3. CASE Set(r, [v EXCEPT !.pc = "count", !.tail = 0])
  <2> DEFINE w == [v EXCEPT !.pc = "count", !.tail = 0]
  <2>1. recv' = [recv EXCEPT ![r] = w]
    BY <1>3 DEF Set
  <2>2. /\ w \in Rcv /\ w.pc = "count" /\ w.there = v.there /\ w.excused = v.excused
        /\ w.at = v.at /\ w.best = v.best /\ w.beaten = v.beaten /\ w.look = v.look
        /\ w.over = v.over
    BY <1>1 DEF Rcv, FrontPCs
  <2>3. /\ recv'[r] = w
        /\ \A p \in Queues : w.there[p] <= tail'[p]
        /\ \A p \in Queues : Overdrawn(r, p)' => p \in w.excused
        /\ \A p \in Queues : Done(r, p) <=> Done(r, p)'
    <3> HIDE DEF v, w
    <3> QED
      BY <1>1, <2>1, <2>2, QuietOwn DEF v
  <2> HIDE DEF w
  <2>4. TryInv(r)'
    BY <1>1, <2>2, <2>3, TrySame
  <2>5. OverInv(r)'
    BY <1>1, <2>2, <2>3 DEF OverInv
  <2>6. RecvInv(r)'
    BY <2>2, <2>3, <2>4, <2>5 DEF RecvInv
  <2> QED
    BY <1>1, <2>1, <2>2, <2>6, QuietKeeps
<1>4. CASE counted[v.at] >= v.tail + v.over /\ Fail(r)
  <2> DEFINE w == [v EXCEPT !.pc = "others", !.at = NoQueue, !.tail = 0, !.over = 0, !.mine = 0]
  <2>1. recv' = [recv EXCEPT ![r] = w]
    BY <1>4 DEF Fail, Set
  <2>2. w.pc = "others" /\ w.there = v.there /\ w.excused = v.excused
    BY <1>1 DEF Rcv
  <2>3. w \in Rcv
    BY <1>1, ZeroQueue DEF Rcv, NoQueue, FrontPCs
  <2>4. /\ recv'[r] = w
        /\ \A p \in Queues : w.there[p] <= tail'[p]
        /\ \A p \in Queues : Overdrawn(r, p)' => p \in w.excused
        /\ \A p \in Queues : Done(r, p) <=> Done(r, p)'
    <3> HIDE DEF v, w
    <3> QED
      BY <1>1, <2>1, <2>2, <2>3, QuietOwn DEF v
  <2>5. Done(r, a)
    <3> SUFFICES ASSUME a \notin v.excused PROVE Covered(r, a)
      BY DEF Done
    <3>1. ~Overdrawn(r, a) /\ v.over = repaid[a] /\ v.there[a] <= v.tail
      BY <1>1, <1>2 DEF FrontInv, RecvInv, OverInv, TailInv
    <3>2. r \notin Inflight(a)
      BY <1>1 DEF Inflight
    <3>3. counted[a] = head[a] + repaid[a] + Cardinality(Rivals(r, a))
          /\ Cardinality(Rivals(r, a)) \in Nat
      BY <3>1, <3>2, CountIsReserved
    <3>4. /\ v.there[a] \in Nat /\ v.tail \in Nat /\ v.over \in Nat
          /\ head[a] \in Nat /\ repaid[a] \in Nat
      BY <1>1 DEF Rcv, FrontInv, FrontType
    <3>5. counted[a] >= v.tail + v.over
      BY <1>2, <1>4
    <3>6. v.there[a] <= head[a] + Cardinality(Rivals(r, a))
      BY <3>1, <3>3, <3>4, <3>5
    <3> QED
      BY <3>6 DEF Covered
  <2>6. w = [recv[r] EXCEPT !.pc = "others", !.at = NoQueue,
                            !.tail = 0, !.over = 0, !.mine = 0]
    OBVIOUS
  <2> HIDE DEF w
  <2>7. OthersInv(r)'
    BY <1>1, <1>2, <2>4, <2>5, <2>6, FailOthers
  <2>8. RecvInv(r)'
    BY <2>2, <2>4, <2>7 DEF RecvInv
  <2> QED
    BY <1>1, <2>1, <2>2, <2>3, <2>8, QuietKeeps
<1> QED
  BY <1>3, <1>4 DEF PeekCount

\* A receiver counts itself.  Beyond what is there, it excuses the calls of the
\* others; otherwise it finds what nobody else has spoken for.
LEMMA CountOneKeeps == ASSUME FrontInv, NEW r \in Receivers, CountOne(r) PROVE FrontInv'
<1> DEFINE v == recv[r]
           w == [v EXCEPT !.pc = "check", !.mine = counted[v.at]]
<1>1. /\ v \in Rcv /\ v.pc = "count" /\ TryInv(r) /\ OverInv(r) /\ InCall(r)
      /\ UNCHANGED <<listed, tail, head, repaid>>
  BY DEF CountOne, RecvAt, FrontInv, FrontType, RecvInv, InCall
<1>2. PICK a \in Queues : a = v.at
  BY <1>1 DEF TryInv
<1>3. /\ counted' = [counted EXCEPT ![a] = @ + 1] /\ counted[a] \in Nat
      /\ tail[a] \in Nat /\ v.over \in Nat
  BY <1>1, <1>2 DEF CountOne, FrontInv, FrontType, Rcv
<1>4. /\ w.pc = "check" /\ w.there = v.there /\ w.excused = v.excused /\ w.over = v.over
      /\ w.at = a /\ w.best = v.best /\ w.beaten = v.beaten /\ w.look = v.look
      /\ w.mine = counted[a] /\ w \in Rcv
  BY <1>1, <1>2, <1>3 DEF Rcv, FrontPCs
<1>5. recv'[r] = w /\ (TooMany(r) <=> counted[a] >= tail[a] + v.over)
  BY <1>2 DEF CountOne, TooMany
<1>6. ASSUME NEW q \in Receivers, q # r
      PROVE  \E X \in SUBSET Queues :
                /\ recv'[q] = [recv[q] EXCEPT !.excused = X] /\ recv[q].excused \subseteq X
                /\ recv'[q] \in Rcv /\ (TooMany(r) /\ InCall(q) => a \in X)
  <2>1. recv[q] \in Rcv
    BY DEF FrontInv, FrontType
  <2>2. CASE TooMany(r) /\ InCall(q)
    <3> DEFINE X == recv[q].excused \cup {a}
    <3>1. recv'[q] = [recv[q] EXCEPT !.excused = X]
      BY <1>2, <1>6, <2>2 DEF CountOne
    <3>2. X \in SUBSET Queues
      BY <2>1 DEF Rcv
    <3>3. [recv[q] EXCEPT !.excused = X] \in Rcv
      BY <2>1, <3>2 DEF Rcv
    <3>4. a \in X /\ recv[q].excused \subseteq X
      OBVIOUS
    <3> QED
      BY <3>1, <3>2, <3>3, <3>4
  <2>3. CASE ~(TooMany(r) /\ InCall(q))
    <3> DEFINE X == recv[q].excused
    <3>1. recv'[q] = recv[q]
      BY <1>6, <2>3 DEF CountOne
    <3>2. [recv[q] EXCEPT !.excused = X] = recv[q] /\ X \in SUBSET Queues
      BY <2>1 DEF Rcv
    <3> QED
      BY <2>1, <2>3, <3>1, <3>2
  <2> QED
    BY <2>2, <2>3
<1> HIDE DEF w
<1>7. recv' \in [Receivers -> Rcv]
  <2>1. \A q \in Receivers : recv'[q] \in Rcv
    BY <1>4, <1>5, <1>6
  <2>2. DOMAIN recv' = Receivers /\ recv' = [q \in Receivers |-> recv'[q]]
    BY DEF CountOne
  <2> QED
    BY <2>1, <2>2
<1>8. ASSUME NEW q \in Receivers, q # r
      PROVE  recv'[q].at = recv[q].at /\ recv'[q].pc = recv[q].pc
             /\ recv'[q].mine = recv[q].mine /\ recv'[q].over = recv[q].over
  <2>1. PICK X \in SUBSET Queues : recv'[q] = [recv[q] EXCEPT !.excused = X]
    BY <1>6, <1>8
  <2>2. recv[q] \in Rcv
    BY DEF FrontInv, FrontType
  <2> QED
    BY <2>1, <2>2 DEF Rcv
<1>9. \A p \in Queues : r \notin Inflight(p) /\ r \notin Reserved(p)
  BY <1>1 DEF Inflight, Reserved
<1>10. ASSUME NEW p \in Queues
       PROVE  Inflight(p)' = (IF p = a THEN Inflight(p) \cup {r} ELSE Inflight(p))
  BY <1>2, <1>4, <1>5, <1>8, <1>9 DEF Inflight
<1>11. ASSUME NEW p \in Queues, NEW q \in Receivers, q # r
       PROVE  q \in Reserved(p)' <=> q \in Reserved(p)
  BY <1>1, <1>8, <1>10, <1>11 DEF Reserved
<1>12. ASSUME NEW p \in Queues
       PROVE  r \in Reserved(p)' <=> p = a /\ ~TooMany(r)
  <2>1. w.mine < tail[a] + w.over <=> ~TooMany(r)
    BY <1>3, <1>4, <1>5
  <2> QED
    BY <1>1, <1>4, <1>5, <1>9, <1>10, <2>1 DEF Reserved
<1>13. FrontType'
  BY <1>1, <1>3, <1>7 DEF FrontInv, FrontType
<1>14. CountsInv'
  <2>1. ASSUME NEW p \in Queues
        PROVE  counted'[p] = head[p] + repaid[p] + Cardinality(Inflight(p)')
    <3>1. /\ counted[p] = head[p] + repaid[p] + Cardinality(Inflight(p))
          /\ head[p] \in Nat /\ repaid[p] \in Nat /\ Cardinality(Inflight(p)) \in Nat
          /\ counted[p] \in Nat /\ IsFiniteSet(Inflight(p))
      BY FlightsFinite DEF FrontInv, FrontType, CountsInv
    <3>2. CASE p = a
      <4>1. Cardinality(Inflight(p)') = Cardinality(Inflight(p)) + 1
        BY <1>9, <1>10, <3>1, <3>2, FS_AddElement
      <4>2. counted'[p] = counted[p] + 1
        BY <1>3, <3>2 DEF FrontInv, FrontType
      <4> QED
        BY <3>1, <4>1, <4>2
    <3>3. CASE p # a
      <4>1. counted'[p] = counted[p]
        BY <1>3, <3>3 DEF FrontInv, FrontType
      <4> QED
        BY <1>10, <3>1, <3>3, <4>1
    <3> QED
      BY <3>2, <3>3
  <2> QED
    BY <1>1, <2>1 DEF FrontInv, CountsInv
<1>15. \A p \in Queues : Rivals(r, p)' = Rivals(r, p)
  BY <1>9, <1>11, FlightsFinite, <1>12 DEF Rivals, Reserved, Inflight
<1>16. RecvInv(r)'
  <2>1. \A p \in Queues : Done(r, p) => Done(r, p)'
    BY <1>1, <1>4, <1>5, <1>15 DEF Done, Covered
  <2>2. TryInv(r)'
    BY <1>1, <1>2, <1>4, <1>5, <2>1, TrySame
  <2>3. OverInv(r)'
    BY <1>1, <1>2, <1>4, <1>5 DEF OverInv
  <2>4. MineInv(r)'
    <3> SUFFICES ASSUME a \notin w.excused
                 PROVE  w.mine <= w.over + head[a] + Cardinality(Rivals(r, a)')
      BY <1>1, <1>4, <1>5 DEF MineInv
    <3>1. ~Overdrawn(r, a) /\ v.over = repaid[a]
      BY <1>1, <1>2, <1>4 DEF FrontInv, RecvInv, OverInv
    <3>2. /\ counted[a] = head[a] + repaid[a] + Cardinality(Rivals(r, a))
          /\ Cardinality(Rivals(r, a)) \in Nat
      BY <1>9, <3>1, CountIsReserved
    <3>3. head[a] \in Nat /\ repaid[a] \in Nat
      BY DEF FrontInv, FrontType
    <3>4. Cardinality(Rivals(r, a)') = Cardinality(Rivals(r, a))
      BY <1>15
    <3> QED
      BY <1>4, <3>1, <3>2, <3>3, <3>4
  <2>5. ASSUME NEW p \in Queues, Overdrawn(r, p)' PROVE p \in w.excused
    <3>1. PICK q \in Receivers : q # r /\ q \in Inflight(p)' /\ q \notin Reserved(p)'
      BY <2>5, FlightsFinite DEF Overdrawn, Inflight
    <3>2. q \in Inflight(p) /\ q \notin Reserved(p)
      BY <1>10, <1>11, <3>1
    <3> QED
      BY <1>1, <1>4, <3>1, <3>2 DEF FrontInv, RecvInv, Overdrawn
  <2>6. \A p \in Queues : w.there[p] <= tail'[p]
    BY <1>1, <1>4 DEF FrontInv, RecvInv
  <2> QED
    BY <1>4, <1>5, <2>2, <2>3, <2>4, <2>5, <2>6 DEF RecvInv
<1>17. ASSUME NEW q \in Receivers, q # r PROVE RecvInv(q)'
  <2>1. PICK X \in SUBSET Queues :
            /\ recv'[q] = [recv[q] EXCEPT !.excused = X] /\ recv[q].excused \subseteq X
            /\ (TooMany(r) /\ InCall(q) => a \in X)
    BY <1>6, <1>17
  <2>2. \A p \in Queues : tail[p] <= tail'[p]
    BY <1>1 DEF FrontInv, FrontType
  <2>3. \A p \in Queues : head[p] + Cardinality(Rivals(q, p))
                          <= head'[p] + Cardinality(Rivals(q, p)')
    <3> TAKE p \in Queues
    <3>1. Rivals(q, p) \subseteq Rivals(q, p)'
      BY <1>9, <1>11 DEF Rivals, Reserved, Inflight
    <3>2. IsFiniteSet(Rivals(q, p)')
      BY FrontAssumption, FS_Subset DEF Rivals, Reserved, Inflight
    <3>3. /\ Cardinality(Rivals(q, p)) \in Nat /\ Cardinality(Rivals(q, p)') \in Nat
          /\ Cardinality(Rivals(q, p)) <= Cardinality(Rivals(q, p)')
      BY <3>1, <3>2, MoreOf
    <3>4. head[p] \in Nat /\ head'[p] = head[p]
      BY <1>1 DEF FrontInv, FrontType
    <3> QED
      BY <3>3, <3>4
  <2>4. InCall(q) => \A p \in Queues : Overdrawn(q, p)' => p \in X
    <3> SUFFICES ASSUME InCall(q), NEW p \in Queues, Overdrawn(q, p)' PROVE p \in X
      OBVIOUS
    <3>1. PICK x \in Receivers : x # q /\ x \in Inflight(p)' /\ x \notin Reserved(p)'
      BY FlightsFinite DEF Overdrawn, Inflight
    <3>2. CASE x = r
      BY <1>9, <1>10, <1>12, <2>1, <3>1, <3>2
    <3>3. CASE x # r
      <4>1. x \in Inflight(p) /\ x \notin Reserved(p)
        BY <1>10, <1>11, <3>1, <3>3
      <4> QED
        BY <2>1, <3>1, <4>1 DEF FrontInv, RecvInv, Overdrawn
    <3> QED
      BY <3>2, <3>3
  <2>5. \A p \in Queues \ X : repaid'[p] = repaid[p]
    BY <1>1
  <2>6. RecvInv(q)
    BY DEF FrontInv
  <2> QED
    BY <1>13, <2>1, <2>2, <2>3, <2>4, <2>5, <2>6, OthersDisturbNot
<1> QED
  BY <1>13, <1>14, <1>16, <1>17 DEF FrontInv

\* The count is compared with the tail: whoever finds nothing there leaves
\* nothing behind either that is not spoken for.
LEMMA CheckKeeps == ASSUME FrontInv, NEW r \in Receivers, CheckCount(r) PROVE FrontInv'
<1> DEFINE v == recv[r]
           c == IF v.mine < tail[v.at] + v.over THEN "take" ELSE "repay"
           w == [v EXCEPT !.mine = 0, !.over = 0, !.pc = c]
<1>1. /\ v \in Rcv /\ v.pc = "check" /\ TryInv(r) /\ OverInv(r) /\ MineInv(r) /\ InCall(r)
      /\ UNCHANGED <<listed, tail, head, counted, repaid>> /\ recv' = [recv EXCEPT ![r] = w]
  BY DEF CheckCount, RecvAt, Set, FrontInv, FrontType, RecvInv, tallyVars, InCall
<1>2. PICK a \in Queues : a = v.at
  BY <1>1 DEF TryInv
<1>3. c \in {"take", "repay"} /\ (c = "take" <=> v.mine < tail[a] + v.over)
  BY <1>2
<1> HIDE DEF c
<1>4. /\ w.pc = c /\ w.there = v.there /\ w.excused = v.excused /\ w \in Rcv
      /\ w.at = a /\ w.best = v.best /\ w.beaten = v.beaten /\ w.look = v.look
  BY <1>1, <1>2, <1>3 DEF Rcv, FrontPCs
<1> HIDE DEF w
<1>5. /\ recv'[r] = w /\ recv' \in [Receivers -> Rcv]
      /\ \A q \in Receivers : q # r => recv'[q] = recv[q]
  BY <1>1, <1>4 DEF FrontInv, FrontType
<1>6. \A p \in Queues : Inflight(p)' = Inflight(p)
  BY <1>1, <1>2, <1>3, <1>4, <1>5 DEF Inflight
<1>7. ASSUME NEW p \in Queues PROVE Reserved(p)' = Reserved(p)
  <2>1. \A q \in Receivers : q # r => (q \in Reserved(p)' <=> q \in Reserved(p))
    BY <1>1, <1>5, <1>6, <1>7 DEF Reserved
  <2>2. r \in Reserved(p) <=> p = a /\ v.mine < tail[a] + v.over
    BY <1>1, <1>2 DEF Reserved, Inflight
  <2>3. r \in Reserved(p)' <=> p = a /\ c = "take"
    BY <1>3, <1>4, <1>5 DEF Reserved, Inflight
  <2>4. Reserved(p) \subseteq Receivers /\ Reserved(p)' \subseteq Receivers
    BY DEF Reserved, Inflight
  <2> QED
    BY <1>3, <2>1, <2>2, <2>3, <2>4
<1>8. FrontType' /\ CountsInv'
  BY <1>1, <1>5, <1>6 DEF FrontInv, FrontType, CountsInv
<1>9. \A p \in Queues, q \in Receivers : /\ Rivals(q, p)' = Rivals(q, p)
                                         /\ (Overdrawn(q, p)' <=> Overdrawn(q, p))
  BY <1>6, <1>7 DEF Rivals, Overdrawn
<1>10. \A p \in Queues : Done(r, p) <=> Done(r, p)'
  BY <1>1, <1>4, <1>5, <1>9 DEF Done, Covered
<1>11. TryInv(r)'
  BY <1>1, <1>2, <1>4, <1>5, <1>10, TrySame
<1>12. c = "repay" => Done(r, recv[r].at)'
  <2> SUFFICES ASSUME c = "repay" PROVE Done(r, recv[r].at)'
    OBVIOUS
  <2>1. Done(r, a)
    <3> SUFFICES ASSUME a \notin v.excused PROVE Covered(r, a)
      BY DEF Done
    <3>1. /\ v.mine <= v.over + head[a] + Cardinality(Rivals(r, a))
          /\ ~(v.mine < tail[a] + v.over) /\ v.there[a] <= tail[a]
      BY <1>1, <1>2, <1>3 DEF MineInv, FrontInv, RecvInv
    <3>2. /\ v.mine \in Nat /\ v.over \in Nat /\ v.there[a] \in Nat
          /\ tail[a] \in Nat /\ head[a] \in Nat /\ Cardinality(Rivals(r, a)) \in Nat
      BY <1>1, FlightsFinite, WithoutOne DEF Rcv, FrontInv, FrontType, Rivals
    <3>3. v.there[a] <= head[a] + Cardinality(Rivals(r, a))
      BY <3>1, <3>2
    <3> QED
      BY <3>3 DEF Covered
  <2>2. Done(r, a)' /\ recv'[r].at = a
    BY <1>4, <1>5, <1>10, <2>1
  <2> QED
    BY <2>2 DEF Done, Covered, Rivals
<1>13. RecvInv(r)'
  <2>1. \A p \in Queues : w.there[p] <= tail'[p]
    BY <1>1, <1>4 DEF FrontInv, RecvInv
  <2>2. \A p \in Queues : Overdrawn(r, p)' => p \in w.excused
    BY <1>1, <1>4, <1>9 DEF FrontInv, RecvInv
  <2> QED
    BY <1>3, <1>4, <1>5, <1>11, <1>12, <2>1, <2>2 DEF RecvInv
<1>14. ASSUME NEW q \in Receivers, q # r PROVE RecvInv(q)'
  <2>1. recv'[q] = [recv[q] EXCEPT !.excused = recv[q].excused]
        /\ recv[q].excused \in SUBSET Queues
    BY <1>5, <1>14 DEF FrontInv, FrontType, Rcv
  <2>2. \A p \in Queues : tail[p] <= tail'[p]
    BY <1>1 DEF FrontInv, FrontType
  <2>3. \A p \in Queues : head[p] + Cardinality(Rivals(q, p))
                          <= head'[p] + Cardinality(Rivals(q, p)')
    <3> TAKE p \in Queues
    <3>1. Cardinality(Rivals(q, p)) \in Nat /\ head[p] \in Nat
      BY FlightsFinite, WithoutOne DEF Rivals, FrontInv, FrontType
    <3>2. Rivals(q, p)' = Rivals(q, p) /\ head'[p] = head[p]
      BY <1>1, <1>9
    <3> QED
      BY <3>1, <3>2
  <2>4. InCall(q) => \A p \in Queues : Overdrawn(q, p)' => p \in recv[q].excused
    BY <1>9 DEF FrontInv, RecvInv
  <2>5. \A p \in Queues \ recv[q].excused : repaid'[p] = repaid[p]
    BY <1>1
  <2>6. RecvInv(q)
    BY DEF FrontInv
  <2> QED
    BY <1>8, <2>1, <2>2, <2>3, <2>4, <2>5, <2>6, OthersDisturbNot
<1> QED
  BY <1>8, <1>13, <1>14 DEF FrontInv

\* One that has counted itself leaves: the item is taken, or the count repaid.
LEMMA FlightEnds ==
    ASSUME FrontInv, NEW r \in Receivers, NEW a \in Queues, r \in Inflight(a),
           NEW w \in Rcv, recv' = [recv EXCEPT ![r] = w], UNCHANGED tail,
           w.pc \notin {"check", "take", "repay"}
    PROVE  /\ recv'[r] = w /\ recv' \in [Receivers -> Rcv]
           /\ \A q \in Receivers : q # r => recv'[q] = recv[q]
           /\ \A p \in Queues : /\ Inflight(p)' = Inflight(p) \ {r}
                                /\ Reserved(p)' = Reserved(p) \ {r}
                                /\ p # a => r \notin Inflight(p)
           /\ Cardinality(Inflight(a)) = Cardinality(Inflight(a)') + 1
           /\ Cardinality(Inflight(a)') \in Nat
<1>1. /\ recv'[r] = w /\ recv' \in [Receivers -> Rcv]
      /\ \A q \in Receivers : q # r => recv'[q] = recv[q]
  BY DEF FrontInv, FrontType
<1>2. ASSUME NEW p \in Queues PROVE Inflight(p)' = Inflight(p) \ {r}
  BY <1>1 DEF Inflight
<1>3. ASSUME NEW p \in Queues PROVE Reserved(p)' = Reserved(p) \ {r}
  <2>1. \A q \in Inflight(p) \ {r} : recv'[q] = recv[q]
    BY <1>1 DEF Inflight
  <2> QED
    BY <1>2, <2>1 DEF Reserved
<1>4. \A p \in Queues : p # a => r \notin Inflight(p)
  BY DEF Inflight
<1>5. /\ Cardinality(Inflight(a)) = Cardinality(Inflight(a) \ {r}) + 1
      /\ Cardinality(Inflight(a) \ {r}) \in Nat
  BY FlightsFinite, WithoutOne
<1> QED
  BY <1>1, <1>2, <1>3, <1>4, <1>5

\* An item is taken by one who had spoken for it.
LEMMA TakeKeeps == ASSUME FrontInv, NEW r \in Receivers, RaiseHead(r) PROVE FrontInv'
<1> DEFINE v == recv[r]
           w == Receiver("idle")
<1>1. /\ v \in Rcv /\ v.pc = "take" /\ TryInv(r)
      /\ UNCHANGED <<listed, tail, counted, repaid>> /\ recv' = [recv EXCEPT ![r] = w]
  BY DEF RaiseHead, RecvAt, Set, FrontInv, FrontType, RecvInv
<1>2. PICK a \in Queues : a = v.at
  BY <1>1 DEF TryInv
<1>3. head' = [head EXCEPT ![a] = @ + 1] /\ head' \in [Queues -> Nat]
      /\ (\A p \in Queues : head'[p] = IF p = a THEN head[p] + 1 ELSE head[p])
  BY <1>2 DEF RaiseHead, FrontInv, FrontType
<1>4. w \in Rcv /\ w.pc = "idle" /\ \A p \in Queues : w.there[p] = 0
  BY ZeroQueue DEF Rcv, Receiver, NoQueue, FrontPCs
<1> HIDE DEF w
<1>5. r \in Inflight(a) /\ r \in Reserved(a)
  BY <1>1, <1>2 DEF Inflight, Reserved
<1>6. /\ recv'[r] = w /\ recv' \in [Receivers -> Rcv]
      /\ \A q \in Receivers : q # r => recv'[q] = recv[q]
      /\ \A p \in Queues : /\ Inflight(p)' = Inflight(p) \ {r}
                           /\ Reserved(p)' = Reserved(p) \ {r}
                           /\ p # a => r \notin Inflight(p)
      /\ Cardinality(Inflight(a)) = Cardinality(Inflight(a)') + 1
      /\ Cardinality(Inflight(a)') \in Nat
  BY <1>1, <1>4, <1>5, FlightEnds
<1>7. FrontType'
  BY <1>1, <1>3, <1>6 DEF FrontInv, FrontType
<1>8. CountsInv'
  <2>1. ASSUME NEW p \in Queues
        PROVE  counted[p] = head'[p] + repaid[p] + Cardinality(Inflight(p)')
    <3>1. counted[p] = head[p] + repaid[p] + Cardinality(Inflight(p))
          /\ head[p] \in Nat /\ repaid[p] \in Nat
      BY DEF FrontInv, FrontType, CountsInv
    <3>2. CASE p = a
      BY <1>3, <1>6, <3>1, <3>2
    <3>3. CASE p # a
      <4>1. Inflight(p)' = Inflight(p)
        BY <1>6, <3>3
      <4> QED
        BY <1>3, <3>1, <3>3, <4>1
    <3> QED
      BY <3>2, <3>3
  <2> QED
    BY <1>1, <2>1 DEF FrontInv, CountsInv
<1>9. RecvInv(r)'
  BY <1>1, <1>4, <1>6 DEF RecvInv, InCall, FrontInv, FrontType
<1>10. ASSUME NEW q \in Receivers, q # r PROVE RecvInv(q)'
  <2>1. recv'[q] = [recv[q] EXCEPT !.excused = recv[q].excused]
        /\ recv[q].excused \in SUBSET Queues
    BY <1>6, <1>10 DEF FrontInv, FrontType, Rcv
  <2>2. \A p \in Queues : tail[p] <= tail'[p]
    BY <1>1 DEF FrontInv, FrontType
  <2>3. \A p \in Queues : head[p] + Cardinality(Rivals(q, p))
                          <= head'[p] + Cardinality(Rivals(q, p)')
    <3> TAKE p \in Queues
    <3>1. IsFiniteSet(Rivals(q, p)) /\ Cardinality(Rivals(q, p)) \in Nat /\ head[p] \in Nat
      BY FlightsFinite, WithoutOne DEF Rivals, FrontInv, FrontType
    <3>2. Rivals(q, p)' = Rivals(q, p) \ {r}
      BY <1>6 DEF Rivals
    <3>3. CASE p = a
      <4>1. r \in Rivals(q, p)
        BY <1>5, <1>10, <3>3 DEF Rivals
      <4>2. /\ Cardinality(Rivals(q, p)) = Cardinality(Rivals(q, p)') + 1
            /\ Cardinality(Rivals(q, p)') \in Nat
        BY <3>1, <3>2, <4>1, WithoutOne
      <4> QED
        BY <1>3, <3>1, <3>3, <4>2
    <3>4. CASE p # a
      <4>1. Rivals(q, p)' = Rivals(q, p)
        BY <1>6, <3>2, <3>4, FlightsFinite DEF Rivals
      <4> QED
        BY <1>3, <3>1, <3>4, <4>1
    <3> QED
      BY <3>3, <3>4
  <2>4. InCall(q) => \A p \in Queues : Overdrawn(q, p)' => p \in recv[q].excused
    BY <1>6 DEF FrontInv, RecvInv, Overdrawn
  <2>5. \A p \in Queues \ recv[q].excused : repaid'[p] = repaid[p]
    BY <1>1
  <2>6. RecvInv(q)
    BY DEF FrontInv
  <2> QED
    BY <1>7, <2>1, <2>2, <2>3, <2>4, <2>5, <2>6, OthersDisturbNot
<1> QED
  BY <1>7, <1>8, <1>9, <1>10 DEF FrontInv

\* A count is repaid: the calls of the others have been excused before.
LEMMA RepayKeeps == ASSUME FrontInv, NEW r \in Receivers, RepayCount(r) PROVE FrontInv'
<1> DEFINE v == recv[r]
           w == [v EXCEPT !.pc = "others", !.at = NoQueue, !.tail = 0, !.over = 0, !.mine = 0]
<1>1. /\ v \in Rcv /\ v.pc = "repay" /\ TryInv(r) /\ InCall(r) /\ Done(r, v.at)
      /\ UNCHANGED <<listed, tail, head, counted>> /\ recv' = [recv EXCEPT ![r] = w]
  BY DEF RepayCount, Fail, RecvAt, Set, FrontInv, FrontType, RecvInv, InCall
<1>2. PICK a \in Queues : a = v.at
  BY <1>1 DEF TryInv
<1>3. repaid' = [repaid EXCEPT ![a] = @ + 1] /\ repaid' \in [Queues -> Nat]
      /\ (\A p \in Queues : repaid'[p] = IF p = a THEN repaid[p] + 1 ELSE repaid[p])
  BY <1>2 DEF RepayCount, FrontInv, FrontType
<1>4. w \in Rcv /\ w.pc = "others" /\ w.there = v.there /\ w.excused = v.excused
  BY <1>1, ZeroQueue DEF Rcv, NoQueue, FrontPCs
<1>5. w = [recv[r] EXCEPT !.pc = "others", !.at = NoQueue, !.tail = 0, !.over = 0, !.mine = 0]
  OBVIOUS
<1> HIDE DEF w
<1>6. r \in Inflight(a)
  BY <1>1, <1>2 DEF Inflight
<1>7. /\ recv'[r] = w /\ recv' \in [Receivers -> Rcv]
      /\ \A q \in Receivers : q # r => recv'[q] = recv[q]
      /\ \A p \in Queues : /\ Inflight(p)' = Inflight(p) \ {r}
                           /\ Reserved(p)' = Reserved(p) \ {r}
                           /\ p # a => r \notin Inflight(p)
      /\ Cardinality(Inflight(a)) = Cardinality(Inflight(a)') + 1
      /\ Cardinality(Inflight(a)') \in Nat
  BY <1>1, <1>4, <1>6, FlightEnds
<1>8. \A p \in Queues : r \notin Reserved(p) /\ Reserved(p)' = Reserved(p)
  BY <1>1, <1>7 DEF Reserved
<1>9. FrontType'
  BY <1>1, <1>3, <1>7 DEF FrontInv, FrontType
<1>10. CountsInv'
  <2>1. ASSUME NEW p \in Queues
        PROVE  counted[p] = head[p] + repaid'[p] + Cardinality(Inflight(p)')
    <3>1. counted[p] = head[p] + repaid[p] + Cardinality(Inflight(p))
          /\ head[p] \in Nat /\ repaid[p] \in Nat
      BY DEF FrontInv, FrontType, CountsInv
    <3>2. CASE p = a
      BY <1>3, <1>7, <3>1, <3>2
    <3>3. CASE p # a
      <4>1. Inflight(p)' = Inflight(p)
        BY <1>7, <3>3
      <4> QED
        BY <1>3, <3>1, <3>3, <4>1
    <3> QED
      BY <3>2, <3>3
  <2> QED
    BY <1>1, <2>1 DEF FrontInv, CountsInv
<1>11. RecvInv(r)'
  <2>1. \A p \in Queues : Done(r, p) => Done(r, p)'
    BY <1>1, <1>4, <1>7, <1>8 DEF Done, Covered, Rivals
  <2>2. OthersInv(r)'
    BY <1>1, <1>5, <1>7, <2>1, FailOthers
  <2>3. \A p \in Queues : Overdrawn(r, p)' => p \in w.excused
    BY <1>1, <1>4, <1>7, <1>8 DEF FrontInv, RecvInv, Overdrawn
  <2>4. \A p \in Queues : w.there[p] <= tail'[p]
    BY <1>1, <1>4 DEF FrontInv, RecvInv
  <2> QED
    BY <1>4, <1>7, <2>2, <2>3, <2>4 DEF RecvInv
<1>12. ASSUME NEW q \in Receivers, q # r PROVE RecvInv(q)'
  <2>1. recv'[q] = [recv[q] EXCEPT !.excused = recv[q].excused]
        /\ recv[q].excused \in SUBSET Queues
    BY <1>7, <1>12 DEF FrontInv, FrontType, Rcv
  <2>2. \A p \in Queues : tail[p] <= tail'[p]
    BY <1>1 DEF FrontInv, FrontType
  <2>3. \A p \in Queues : head[p] + Cardinality(Rivals(q, p))
                          <= head'[p] + Cardinality(Rivals(q, p)')
    <3> TAKE p \in Queues
    <3>1. Cardinality(Rivals(q, p)) \in Nat /\ head[p] \in Nat
      BY FlightsFinite, WithoutOne DEF Rivals, FrontInv, FrontType
    <3>2. Rivals(q, p)' = Rivals(q, p) /\ head'[p] = head[p]
      BY <1>1, <1>8 DEF Rivals
    <3> QED
      BY <3>1, <3>2
  <2>4. InCall(q) => \A p \in Queues : Overdrawn(q, p)' => p \in recv[q].excused
    BY <1>7, <1>8 DEF FrontInv, RecvInv, Overdrawn
  <2>5. InCall(q) => a \in recv[q].excused
    BY <1>6, <1>8, <1>12 DEF FrontInv, RecvInv, Overdrawn
  <2>6. InCall(q) => \A p \in Queues \ recv[q].excused : repaid'[p] = repaid[p]
    BY <1>3, <2>5
  <2>7. RecvInv(q)
    BY DEF FrontInv
  <2> QED
    BY <1>9, <2>1, <2>2, <2>3, <2>4, <2>6, <2>7, OthersDisturbNot
<1> QED
  BY <1>9, <1>10, <1>11, <1>12 DEF FrontInv

\* What the enqueueing side does: receivers stay, and tails only grow.
LEMMA PostsKeep ==
    ASSUME FrontInv, tail' \in [Queues -> Nat], listed' \in 0 .. MaxProducers,
           UNCHANGED <<head, counted, repaid, recv>>,
           \A p \in Queues : tail[p] <= tail'[p],
           \A p \in Queues : p > listed' => tail'[p] = 0
    PROVE  FrontInv'
<1>1. \A p \in Queues : Inflight(p)' = Inflight(p)
  BY DEF Inflight
<1>2. ASSUME NEW p \in Queues PROVE Reserved(p) \subseteq Reserved(p)'
  <2>1. \A q \in Inflight(p) : recv[q].mine \in Nat /\ recv[q].over \in Nat
    BY DEF Inflight, FrontInv, FrontType, Rcv
  <2>2. tail[p] \in Nat /\ tail'[p] \in Nat /\ tail[p] <= tail'[p]
    BY DEF FrontInv, FrontType
  <2>3. \A q \in Inflight(p) : recv[q].mine < tail[p] + recv[q].over
                               => recv[q].mine < tail'[p] + recv[q].over
    BY <2>1, <2>2
  <2> QED
    BY <1>1, <2>3 DEF Reserved
<1>3. FrontType' /\ CountsInv'
  BY <1>1 DEF FrontInv, FrontType, CountsInv
<1>4. ASSUME NEW q \in Receivers PROVE RecvInv(q)'
  <2>1. recv'[q] = [recv[q] EXCEPT !.excused = recv[q].excused]
        /\ recv[q].excused \in SUBSET Queues
    BY DEF FrontInv, FrontType, Rcv
  <2>2. \A p \in Queues : head[p] + Cardinality(Rivals(q, p))
                          <= head'[p] + Cardinality(Rivals(q, p)')
    <3> TAKE p \in Queues
    <3>1. Rivals(q, p) \subseteq Rivals(q, p)'
      BY <1>2 DEF Rivals
    <3>2. IsFiniteSet(Rivals(q, p)')
      BY FrontAssumption, FS_Subset DEF Rivals, Reserved, Inflight
    <3>3. /\ Cardinality(Rivals(q, p)) \in Nat /\ Cardinality(Rivals(q, p)') \in Nat
          /\ Cardinality(Rivals(q, p)) <= Cardinality(Rivals(q, p)')
      BY <3>1, <3>2, MoreOf
    <3>4. head[p] \in Nat /\ head'[p] = head[p]
      BY DEF FrontInv, FrontType
    <3> QED
      BY <3>3, <3>4
  <2>3. InCall(q) => \A p \in Queues : Overdrawn(q, p)' => p \in recv[q].excused
    BY <1>1, <1>2 DEF FrontInv, RecvInv, Overdrawn
  <2>4. RecvInv(q)
    BY DEF FrontInv
  <2> QED
    BY <1>3, <2>1, <2>2, <2>3, <2>4, OthersDisturbNot
<1> QED
  BY <1>3, <1>4 DEF FrontInv

\* A sub-queue is added.
LEMMA ListKeeps == ASSUME FrontInv, ListProducer PROVE FrontInv'
<1>1. /\ listed' = listed + 1 /\ listed < MaxProducers /\ listed \in 0 .. MaxProducers
      /\ UNCHANGED <<tail, head, counted, repaid, recv>>
  BY DEF ListProducer, tallyVars, FrontInv, FrontType
<1>2. listed' \in 0 .. MaxProducers /\ \A p \in Queues : p > listed' => p > listed
  BY <1>1, FrontAssumption DEF Queues
<1>3. \A p \in Queues : p > listed' => tail'[p] = 0
  BY <1>1, <1>2 DEF FrontInv, CountsInv
<1> QED
  BY <1>1, <1>2, <1>3, PostsKeep DEF FrontInv, FrontType

\* An item is added to one that is listed.
LEMMA PostKeeps == ASSUME FrontInv, Post PROVE FrontInv'
<1>1. PICK p \in 1 .. listed : /\ tail' = [tail EXCEPT ![p] = @ + 1]
                               /\ UNCHANGED <<listed, head, counted, repaid, recv>>
  BY DEF Post
<1>2. p \in Queues /\ ~(p > listed)
  BY <1>1, FrontAssumption DEF Queues, FrontInv, FrontType
<1>3. /\ tail' \in [Queues -> Nat] /\ listed' \in 0 .. MaxProducers
      /\ \A q \in Queues : tail[q] <= tail'[q] /\ (q # p => tail'[q] = tail[q])
  <2>1. tail \in [Queues -> Nat] /\ listed' \in 0 .. MaxProducers
    BY <1>1 DEF FrontInv, FrontType
  <2>2. \A q \in Queues : tail'[q] = IF q = p THEN tail[q] + 1 ELSE tail[q]
    BY <1>1, <2>1
  <2>3. \A q \in Queues : tail[q] <= tail'[q] /\ (q # p => tail'[q] = tail[q])
    BY <2>1, <2>2
  <2>4. tail' \in [Queues -> Nat]
    <3>1. tail' = [q \in Queues |-> IF q = p THEN tail[q] + 1 ELSE tail[q]]
      BY <1>1, <2>1
    <3> QED
      BY <2>1, <3>1
  <2> QED
    BY <2>1, <2>3, <2>4
<1>4. \A q \in Queues : q > listed' => tail'[q] = 0
  BY <1>1, <1>2, <1>3 DEF FrontInv, CountsInv
<1> QED
  BY <1>1, <1>3, <1>4, PostsKeep

\* A step of a receiver, whichever it is.
LEMMA ReceiverKeeps == ASSUME FrontInv, NEW r \in Receivers, ReceiverStep(r) PROVE FrontInv'
  BY BeginKeeps, ScanTailKeeps, ScanHeadKeeps, BestKeeps, LookKeeps, OtherKeeps, LoadTailIndexKeeps,
     LoadOverKeeps, PeekKeeps, CountOneKeeps, CheckKeeps, TakeKeeps, RepayKeeps DEF ReceiverStep

\* A step of another part of the queue.
LEMMA FrontStutters == ASSUME FrontInv, UNCHANGED frontVars PROVE FrontInv'
<1>1. UNCHANGED <<listed, tail, head, counted, repaid, recv>>
  BY DEF frontVars
<1> QED
  BY <1>1, PostsKeep DEF FrontInv, FrontType, CountsInv

\* The invariant, for any number of receivers.
LEMMA FrontHolds == FrontSpec => []FrontInv
<1>1. FrontInit => FrontInv
  BY FrontStarts
<1>2. FrontInv /\ [FrontNext]_frontVars => FrontInv'
  BY ListKeeps, PostKeeps, ReceiverKeeps, FrontStutters DEF FrontNext
<1> QED
  BY <1>1, <1>2, PTL DEF FrontSpec

\* A try_dequeue() that finds nothing has missed nothing that was there when
\* it began and that nobody else takes, except in sub-queues that another
\* receiver had overdrawn, for any number of receivers and sub-queues.
THEOREM MissesNothing == FrontSpec => []NothingMissed
<1>1. FrontInv => NothingMissed
  <2> SUFFICES ASSUME FrontInv, NEW r \in Receivers, recv[r].pc = "nothing",
                      NEW p \in Queues, p \notin recv[r].excused
               PROVE  recv[r].there[p] <= head[p] + Cardinality(Reserved(p))
    BY DEF NothingMissed
  <2>1. recv[r].there[p] <= head[p] + Cardinality(Rivals(r, p))
    BY DEF FrontInv, RecvInv, Done, Covered
  <2>2. Rivals(r, p) = Reserved(p)
    BY DEF Rivals, Reserved, Inflight
  <2> QED
    BY <2>1, <2>2
<1> QED
  BY <1>1, FrontHolds, PTL

\* A receiver that nobody else gets in the way of.
Unrivalled(r) == recv[r].excused = {}
NothingLeft(r) == recv[r].pc = "nothing" => \A p \in Queues : recv[r].there[p] <= head[p]

\* Where one thread dequeues there is nobody to excuse it.
LEMMA StaysUnrivalled ==
    ASSUME NEW r \in Receivers, Receivers = {r}, FrontInv, Unrivalled(r), [FrontNext]_frontVars
    PROVE  Unrivalled(r)'
<1> DEFINE v == recv[r]
<1>1. recv[r] \in Rcv /\ recv \in [Receivers -> Rcv] /\ v.excused = {}
  BY DEF FrontInv, FrontType, Unrivalled
<1>2. \A p \in Queues : ~Overdrawn(r, p)
  BY DEF Overdrawn, Inflight
<1>3. ASSUME NEW w, w.excused = {}, recv' = [recv EXCEPT ![r] = w] PROVE Unrivalled(r)'
  BY <1>1, <1>3 DEF Unrivalled
<1>4. CASE ListProducer \/ Post \/ UNCHANGED frontVars
  BY <1>1, <1>4 DEF ListProducer, Post, frontVars, Unrivalled
<1>5. CASE BeginScan(r)
  <2>1. {p \in Queues : Overdrawn(r, p)} = {}
    BY <1>2
  <2> QED
    BY <1>1, <1>5, <2>1 DEF BeginScan, Set, Receiver, Unrivalled
<1>6. CASE Nothing(r)
  BY <1>1, <1>6 DEF Nothing, Set, Receiver, Unrivalled
<1>7. CASE Fail(r)
  BY <1>1, <1>7 DEF Fail, Set, Rcv, Unrivalled
<1>8. CASE ScanTail(r)
  BY <1>1, <1>8 DEF ScanTail, Set, Rcv, Unrivalled
<1>9. CASE ScanHead(r)
  <2> DEFINE s == Seen(r)
             w == [v EXCEPT !.pc = "scan", !.tail = 0, !.look = @ - 1,
                            !.full = IF s > 0 THEN @ + 1 ELSE @,
                            !.best = IF s > v.size THEN v.look ELSE @,
                            !.size = IF s > @ THEN s ELSE @]
  <2>1. recv' = [recv EXCEPT ![r] = w]
    BY <1>9 DEF ScanHead, Set
  <2> HIDE DEF s
  <2>2. w.excused = {}
    BY <1>1 DEF Rcv
  <2> HIDE DEF w
  <2> QED
    BY <1>3, <2>1, <2>2
<1>10. CASE TryBest(r)
  <2>1. CASE Nothing(r)
    BY <1>6, <2>1
  <2>2. CASE Set(r, [v EXCEPT !.pc = "tail", !.at = v.best, !.look = NoQueue, !.size = 0,
                             !.full = 0])
    BY <1>1, <2>2 DEF Set, Rcv, Unrivalled
  <2> QED
    BY <1>10, <2>1, <2>2 DEF TryBest
<1>11. CASE LookAgain(r)
  BY <1>1, <1>11 DEF LookAgain, Set, Rcv, Unrivalled
<1>12. CASE TryOther(r)
  <2>1. CASE Nothing(r)
    BY <1>6, <2>1
  <2>2. CASE Set(r, [v EXCEPT !.pc = IF v.look = v.best THEN "others" ELSE "tail",
                              !.at = IF v.look = v.best THEN NoQueue ELSE v.look,
                              !.look = @ - 1])
    BY <1>1, <2>2 DEF Set, Rcv, Unrivalled
  <2> QED
    BY <1>12, <2>1, <2>2 DEF TryOther
<1>13. CASE LoadTailIndex(r)
  BY <1>1, <1>13 DEF LoadTailIndex, Set, Rcv, Unrivalled
<1>14. CASE LoadOvercommits(r)
  BY <1>1, <1>14 DEF LoadOvercommits, Set, Rcv, Unrivalled
<1>15. CASE PeekCount(r)
  <2>1. CASE Set(r, [v EXCEPT !.pc = "count", !.tail = 0])
    BY <1>1, <2>1 DEF Set, Rcv, Unrivalled
  <2> QED
    BY <1>7, <1>15, <2>1 DEF PeekCount
<1>16. CASE CountOne(r)
  BY <1>1, <1>16 DEF CountOne, Rcv, Unrivalled
<1>17. CASE CheckCount(r)
  BY <1>1, <1>17 DEF CheckCount, Set, Rcv, Unrivalled
<1>18. CASE RaiseHead(r)
  BY <1>1, <1>18 DEF RaiseHead, Set, Receiver, Unrivalled
<1>19. CASE RepayCount(r)
  BY <1>7, <1>19 DEF RepayCount
<1> QED
  BY <1>4, <1>5, <1>8, <1>9, <1>10, <1>11, <1>12, <1>13, <1>14, <1>15, <1>16, <1>17, <1>18,
     <1>19 DEF FrontNext, ReceiverStep

\* Where one thread dequeues, as in an event loop, everything that was there
\* when its call began has been taken when the answer is that there is nothing.
THEOREM LoneMissesNothing ==
    ASSUME NEW r \in Receivers, Receivers = {r}
    PROVE  FrontSpec => []NothingLeft(r)
<1>1. FrontInit => Unrivalled(r)
  BY DEF FrontInit, Receiver, Unrivalled
<1>2. FrontInv /\ Unrivalled(r) /\ [FrontNext]_frontVars => Unrivalled(r)'
  BY StaysUnrivalled
<1>3. FrontInv /\ Unrivalled(r) => NothingLeft(r)
  <2> SUFFICES ASSUME FrontInv, Unrivalled(r), recv[r].pc = "nothing", NEW p \in Queues
               PROVE  recv[r].there[p] <= head[p]
    BY DEF NothingLeft
  <2>1. recv[r].there[p] <= head[p] + Cardinality(Rivals(r, p))
    BY DEF FrontInv, RecvInv, Done, Covered, Unrivalled
  <2>2. Rivals(r, p) = {} /\ Cardinality(Rivals(r, p)) = 0
    BY FS_EmptySet DEF Rivals, Reserved, Inflight
  <2>3. head[p] \in Nat
    BY DEF FrontInv, FrontType
  <2>4. recv[r].there[p] \in Nat
    BY DEF FrontInv, FrontType, Rcv
  <2> QED
    BY <2>1, <2>2, <2>3, <2>4
<1> QED
  BY <1>1, <1>2, <1>3, FrontHolds, PTL DEF FrontSpec
-----------------------------------------------------------------------------
(***************************************************************************)
(* Finding one's own sub-queue.  The count that a thread draws before it   *)
(* makes a sub-queue is the number of threads that have one or have drawn  *)
(* a count, itself included, so that of those that drew at most k, and of  *)
(* those that took a slot on the strength of that, there are at most k.  A *)
(* table is entered only by a thread whose count is below three quarters   *)
(* of its slots, or that has a slot in a smaller one: it is never full.    *)
(***************************************************************************)
Named(t) == <<t, 1>>
EntryOf(t) == [key |-> t, value |-> Named(t)]
Names == {Named(t) : t \in Senders}
Entries == {Free} \cup {EntryOf(t) : t \in Senders}
HashTables == UNION {[0 .. (c - 1) -> Entries] : c \in Nat \ {0, 1}}
Counting == {"grow", "resize", "double", "clear", "place"}
Resizing == {"resize", "double", "clear", "abandon"}
SendRec == [pc : {"idle", "enter", "enqueue", "add", "abandon"} \cup Counting,
            main : Nat, count : Nat, cap : Nat, own : {NoName} \cup Names]
HashType ==
    /\ tables \in Seq(HashTables) /\ Len(tables) > 0
    /\ producers \in Seq(Names) /\ IsInjective(producers)
    /\ send \in [Senders -> SendRec] /\ resizing \in BOOLEAN
    /\ used \in [Senders -> SUBSET Names]

Made == {t \in Senders : Named(t) \in ToSet(producers)}
Counted == {t \in Senders : send[t].pc \in Counting}
Limit(c) == (c \div 2) + (c \div 4) - 1

\* No table is smaller than one before it, and a thread has one slot in each.
TablesInv ==
    /\ \A m, n \in 1 .. Len(tables) : m <= n => Size(tables[m]) <= Size(tables[n])
    /\ \A n \in 1 .. Len(tables) : \A i, j \in DOMAIN tables[n] :
          tables[n][i].key = tables[n][j].key /\ tables[n][i] # Free => i = j

\* The flag is set by one thread at a time, which makes a larger table.
ResizeInv ==
    /\ \A t, u \in Senders : send[t].pc \in Resizing /\ send[u].pc \in Resizing => t = u
    /\ \A t \in Senders : send[t].pc \in Resizing => resizing
    /\ \A t \in Senders : send[t].pc = "double" => send[t].cap >= Size(tables[Len(tables)])

SenderInv(t) ==
    /\ used[t] \subseteq {Named(t)}
    /\ send[t].pc \in Counting \cup {"add", "enter"} => send[t].main \in 1 .. Len(tables)
    /\ send[t].pc \in Counting \cup {"add", "abandon"} => t \notin Made
    /\ send[t].pc \in {"enter", "enqueue"} => t \in Made /\ send[t].own = Named(t)
    /\ send[t].pc = "enter" => send[t].main \notin Own(t)
    /\ IF t \in Made THEN Own(t) # {} \/ send[t].pc = "enter" ELSE Own(t) = {}

\* Those that have a slot in the n-th table or before, or are about to, and
\* those that are not there yet and drew at most k.
Settled(n) == {t \in Made : \/ \E m \in Own(t) : m <= n
                            \/ send[t].pc = "enter" /\ send[t].main <= n}
Early(k) == {t \in Counted : send[t].count <= k}
Uncrowded(n, k) == Cardinality(Settled(n) \cup Early(k)) <= k
CountInv ==
    /\ hashCount = Cardinality(Made \cup Counted)
    /\ \A n \in 1 .. Len(tables) : \A k \in Nat :
          k >= Limit(Size(tables[n])) => Uncrowded(n, k)
HashInv == HashType /\ TablesInv /\ ResizeInv /\ CountInv /\ \A t \in Senders : SenderInv(t)

\* An entry is free, or one thread's.
LEMMA EntryKinds ==
    /\ \A e \in Entries : e = Free \/ (e.key \in Senders /\ e = EntryOf(e.key))
    /\ Free \in Entries /\ Free.key \notin Senders
    /\ \A t \in Senders : EntryOf(t) \in Entries /\ EntryOf(t).key = t
                         /\ EntryOf(t).value = Named(t) /\ EntryOf(t) # Free
  BY HashAssumption DEF Entries, EntryOf, Free

\* A table has the slots from 0 to below its size.
LEMMA TableShape ==
    ASSUME NEW h \in HashTables
    PROVE  /\ Size(h) \in Nat /\ Size(h) > 1 /\ DOMAIN h = 0 .. (Size(h) - 1)
           /\ h \in [DOMAIN h -> Entries]
<1>1. PICK c \in Nat \ {0, 1} : h \in [0 .. (c - 1) -> Entries]
  BY DEF HashTables
<1>2. DOMAIN h = 0 .. (c - 1) /\ 0 \in Int /\ c - 1 \in Int /\ ~(0 > c - 1)
      /\ c - 1 - 0 + 1 = c /\ c \in Nat /\ c > 1
  BY <1>1
<1>3. Cardinality(0 .. (c - 1)) = c
  BY <1>2, FS_Interval
<1> QED
  BY <1>1, <1>2, <1>3 DEF Size

\* A new table, of any size above one.
LEMMA NewShape ==
    ASSUME NEW c \in Nat, c > 1
    PROVE  /\ EmptyTable(c) \in HashTables /\ Size(EmptyTable(c)) = c
           /\ \A i \in DOMAIN EmptyTable(c) : EmptyTable(c)[i] = Free
<1> DEFINE h == EmptyTable(c)
<1>1. h \in [0 .. (c - 1) -> Entries] /\ DOMAIN h = 0 .. (c - 1)
      /\ \A i \in DOMAIN h : h[i] = Free
  BY EntryKinds DEF EmptyTable
<1>2. c \in Nat \ {0, 1}
  OBVIOUS
<1>3. h \in HashTables
  BY <1>1, <1>2 DEF HashTables
<1>4. c - 1 \in Int /\ 0 \in Int /\ ~(0 > c - 1) /\ c - 1 - 0 + 1 = c
  OBVIOUS
<1>5. Size(h) = c
  BY <1>1, <1>4, FS_Interval DEF Size
<1> QED
  BY <1>1, <1>3, <1>5

\* The slot that probing ends at is free, if there is a free one.
LEMMA VacantFree ==
    ASSUME NEW t \in Senders, NEW h \in HashTables, \E i \in DOMAIN h : h[i] = Free
    PROVE  Vacant(t, h) \in DOMAIN h /\ h[Vacant(t, h)] = Free
<1> DEFINE c == Size(h)
           F == {i \in DOMAIN h : h[i] = Free}
           D == {Distance(t, h, i) : i \in F}
<1>1. c \in Nat /\ c > 1 /\ DOMAIN h = 0 .. (c - 1)
  BY TableShape
<1>2. Hash[t] % c \in 0 .. (c - 1)
  BY <1>1, HashAssumption
<1>3. ASSUME NEW i \in F PROVE Distance(t, h, i) \in Nat
  <2> DEFINE x == Hash[t] % c
  <2> HIDE DEF c, x
  <2>1. i + c - x \in Nat
    BY <1>1, <1>2 DEF x
  <2>2. (i + c - x) % c \in Nat
    BY <1>1, <2>1
  <2> QED
    BY <2>2 DEF Distance, c, x
<1>4. D \in SUBSET Nat /\ D # {}
  BY <1>3
<1>5. PICK d \in D : \A e \in D : d <= e
  BY <1>4, LeastExists
<1>6. PICK i \in F : d = Distance(t, h, i)
  OBVIOUS
<1>7. /\ i \in DOMAIN h /\ h[i] = Free
      /\ \A j \in DOMAIN h : h[j] = Free => Distance(t, h, i) <= Distance(t, h, j)
  BY <1>5, <1>6
<1> QED
  BY <1>7 DEF Vacant

\* The limit of a table, below its size and not below that of a smaller one.
LEMMA LimitMonotone ==
    ASSUME NEW a \in Nat, NEW b \in Nat, 1 < a, a <= b
    PROVE  Limit(a) \in Nat /\ Limit(a) < a /\ Limit(a) <= Limit(b)
  BY DEF Limit

\* The sets of threads are finite.
LEMMA ThreadsFinite ==
    ASSUME NEW T \in SUBSET Senders, NEW U \in SUBSET T
    PROVE  /\ IsFiniteSet(T) /\ Cardinality(T) \in Nat /\ IsFiniteSet(U)
           /\ Cardinality(U) \in Nat /\ Cardinality(U) <= Cardinality(T)
<1>1. IsFiniteSet(T)
  BY HashAssumption, FS_Subset
<1>2. IsFiniteSet(U) /\ Cardinality(U) <= Cardinality(T)
  BY <1>1, FS_Subset
<1> QED
  BY <1>1, <1>2, FS_CardinalityType

\* What is known of the n-th table.
LEMMA TableN ==
    ASSUME HashType, NEW n \in 1 .. Len(tables)
    PROVE  /\ tables[n] \in HashTables /\ Size(tables[n]) \in Nat /\ Size(tables[n]) > 1
           /\ DOMAIN tables[n] = 0 .. (Size(tables[n]) - 1)
           /\ \A i \in DOMAIN tables[n] : tables[n][i] \in Entries
<1>1. tables[n] \in HashTables
  BY DEF HashType
<1> QED
  BY <1>1, TableShape

\* Every table has a free slot.
LEMMA FreeSlot ==
    ASSUME HashInv, NEW n \in 1 .. Len(tables)
    PROVE  \E i \in DOMAIN tables[n] : tables[n][i] = Free
<1> DEFINE h == tables[n]
           c == Size(h)
           S == Settled(n) \cup Early(Limit(c))
           f == [i \in DOMAIN h |-> h[i].key]
<1> SUFFICES ASSUME \A i \in DOMAIN h : h[i] # Free PROVE FALSE
  OBVIOUS
<1>1. /\ h \in HashTables /\ c \in Nat /\ c > 1 /\ DOMAIN h = 0 .. (c - 1)
      /\ \A i \in DOMAIN h : h[i] \in Entries
  BY TableN DEF HashInv
<1>2. Limit(c) \in Nat /\ Limit(c) < c
  BY <1>1, LimitMonotone
<1>3. Cardinality(S) <= Limit(c)
  BY <1>2 DEF HashInv, CountInv, Uncrowded
<1>4. ASSUME NEW i \in DOMAIN h PROVE h[i].key \in Settled(n)
  <2>1. h[i].key \in Senders
    BY <1>1, EntryKinds
  <2>2. n \in Own(h[i].key)
    BY DEF Own, Slots
  <2>3. h[i].key \in Made
    BY <2>1, <2>2 DEF HashInv, SenderInv
  <2>4. n <= n
    BY DEF HashInv, HashType
  <2> QED
    BY <2>2, <2>3, <2>4 DEF Settled
<1>5. S \in SUBSET Senders
  BY DEF Settled, Early, Made, Counted
<1>6. IsFiniteSet(S) /\ Cardinality(S) \in Nat
  BY <1>5, ThreadsFinite
<1>7. IsFiniteSet(DOMAIN h) /\ Cardinality(DOMAIN h) = c
  <2>0. c \in Nat /\ c > 1
    BY <1>1
  <2> HIDE DEF c
  <2>1. 0 \in Int /\ c - 1 \in Int /\ ~(0 > c - 1) /\ c - 1 - 0 + 1 = c
    BY <2>0
  <2>2. IsFiniteSet(0 .. (c - 1)) /\ Cardinality(0 .. (c - 1)) = c
    BY <2>1, FS_Interval
  <2> QED
    BY <1>1, <2>2
<1>8. Cardinality(S) < Cardinality(DOMAIN h)
  BY <1>1, <1>2, <1>3, <1>6, <1>7
<1>9. f \in [DOMAIN h -> S]
  BY <1>4
<1> HIDE DEF f, S, c
<1>10. PICK i, j \in DOMAIN h : i # j /\ f[i] = f[j]
  BY <1>6, <1>7, <1>8, <1>9, FS_PigeonHole
<1> QED
  BY <1>10 DEF f, HashInv, TablesInv

\* A thread that is in a table finds its own sub-queue there.
LEMMA KnowsOwn ==
    ASSUME HashInv, NEW t \in Senders, Own(t) # {}
    PROVE  KnownAs(t) = Named(t)
<1> DEFINE L == Len(tables)
           B == {L - n : n \in Own(t)}
<1>1. L \in Nat /\ Own(t) \subseteq 1 .. L
  BY DEF HashInv, HashType, Own
<1>2. B \in SUBSET Nat /\ B # {}
  <2>1. \A n \in 1 .. L : L - n \in Nat
    BY <1>1
  <2> QED
    BY <1>1, <2>1, Zenon
<1>3. PICK b \in B : \A x \in B : b <= x
  BY <1>2, LeastExists
<1>4. PICK n \in Own(t) : b = L - n
  OBVIOUS
<1>5. ASSUME NEW m \in Own(t) PROVE m <= n
  <2>1. L - n <= L - m
    BY <1>3, <1>4
  <2> QED
    BY <1>1, <2>1
<1> DEFINE top == CHOOSE x \in Own(t) : \A m \in Own(t) : m <= x
<1>6. top \in Own(t)
  BY <1>5
<1> HIDE DEF top
<1> DEFINE i == CHOOSE x \in Slots(t, tables[top]) : TRUE
<1>7. i \in Slots(t, tables[top])
  BY <1>6 DEF Own
<1> HIDE DEF i
<1>8. i \in DOMAIN tables[top] /\ tables[top][i].key = t /\ top \in 1 .. L
  BY <1>1, <1>6, <1>7 DEF Slots
<1>9. tables[top][i] \in Entries
  BY <1>8, TableN DEF HashInv
<1>10. tables[top][i].value = Named(t)
  BY <1>8, <1>9, EntryKinds
<1> QED
  BY <1>10 DEF KnownAs, top, i

\* One empty table and no producer.
LEMMA HashStarts == HashInit => HashInv
<1> SUFFICES ASSUME HashInit PROVE HashInv
  OBVIOUS
<1>1. /\ tables = <<EmptyTable(HashSize)>> /\ hashCount = 0 /\ resizing = FALSE
      /\ producers = <<>> /\ send = [t \in Senders |-> NotSending]
      /\ used = [t \in Senders |-> {}]
  BY DEF HashInit
<1> DEFINE h == EmptyTable(HashSize)
<1>2. h \in HashTables /\ \A i \in DOMAIN h : h[i] = Free
  BY NewShape, HashAssumption
<1> HIDE DEF h
<1>3. tables = <<h>> /\ Len(tables) = 1 /\ tables[1] = h /\ tables \in Seq(HashTables)
  BY <1>1, <1>2 DEF h
<1>4. NotSending \in SendRec /\ NotSending.pc = "idle"
  BY DEF NotSending, SendRec
<1>5. \A t \in Senders : send[t].pc = "idle" /\ used[t] = {}
  BY <1>1, <1>4
<1>6. Made = {} /\ Counted = {}
  BY <1>1, <1>5, EmptyOnce DEF Made, Counted, Counting
<1>7. HashType
  <2>1. producers \in Seq(Names) /\ IsInjective(producers)
    BY <1>1, EmptyOnce
  <2>2. send \in [Senders -> SendRec] /\ used \in [Senders -> SUBSET Names] /\ resizing \in BOOLEAN
    BY <1>1, <1>4
  <2> QED
    BY <1>3, <2>1, <2>2 DEF HashType
<1>8. TablesInv
  <2>1. Size(h) \in Nat
    BY <1>2, TableShape
  <2> QED
    BY <1>2, <1>3, <2>1 DEF TablesInv
<1>9. ResizeInv
  BY <1>5 DEF ResizeInv, Resizing
<1>10. \A t \in Senders : Own(t) = {}
  BY <1>2, <1>3, EntryKinds DEF Own, Slots
<1>11. CountInv
  <2>1. Cardinality({}) = 0
    BY FS_EmptySet
  <2>2. Made \cup Counted = {} /\ \A n, k : Settled(n) \cup Early(k) = {}
    BY <1>6 DEF Settled, Early
  <2>3. \A n : \A k \in Nat : Uncrowded(n, k)
    <3> SUFFICES ASSUME NEW n, NEW k \in Nat PROVE Cardinality(Settled(n) \cup Early(k)) <= k
      BY Zenon DEF Uncrowded
    <3> QED
      BY <2>1, <2>2
  <2>4. hashCount = Cardinality(Made \cup Counted)
    BY <1>1, <2>1, <2>2
  <2> QED
    BY <2>3, <2>4 DEF CountInv
<1>12. \A t \in Senders : SenderInv(t)
  BY <1>5, <1>6, <1>10 DEF SenderInv, Counting
<1> QED
  BY <1>7, <1>8, <1>9, <1>11, <1>12 DEF HashInv

\* What a step of one thread does to the others: nothing.
LEMMA OthersKeep ==
    ASSUME NEW u \in Senders, HashType, SenderInv(u), send'[u] = send[u], used'[u] = used[u],
           Own(u)' = Own(u), u \in Made' <=> u \in Made, Len(tables) <= Len(tables'),
           Len(tables') \in Nat
    PROVE  SenderInv(u)'
<1>1. send[u].main \in 1 .. Len(tables) => send'[u].main \in 1 .. Len(tables')
  BY DEF HashType
<1> QED
  BY <1>1, Zenon DEF SenderInv

\* The flag of the thread that resizes.
FlagKept(t, w) ==
    /\ send' = [send EXCEPT ![t] = w] /\ resizing' \in BOOLEAN
    /\ w.pc \in Resizing => (send[t].pc \in Resizing \/ ~resizing) /\ resizing'
    /\ ~resizing' => ~resizing \/ send[t].pc \in Resizing
    /\ w.pc = "double" => w.cap >= Size(tables'[Len(tables')])
    /\ tables' = tables \/ send[t].pc \in Resizing
\* A step that leaves the flag for resizing as it is.
LEMMA FlagKeeps ==
    ASSUME HashInv, NEW t \in Senders, NEW w, FlagKept(t, w)
    PROVE  ResizeInv'
<1>1. send'[t] = w /\ \A u \in Senders : u # t => send'[u] = send[u]
  BY DEF HashInv, HashType, FlagKept
<1>2. ASSUME NEW u \in Senders, u # t, send[u].pc \in Resizing
      PROVE  resizing /\ send[t].pc \notin Resizing
  BY <1>2 DEF HashInv, ResizeInv
<1>3. ASSUME NEW u \in Senders, u # t, send[u].pc \in Resizing
      PROVE  resizing' /\ w.pc \notin Resizing /\ tables' = tables
  BY <1>2, <1>3, Zenon DEF FlagKept
<1>4. \A u, v \in Senders : send'[u].pc \in Resizing /\ send'[v].pc \in Resizing => u = v
  <2> SUFFICES ASSUME NEW u \in Senders, NEW v \in Senders, u # v,
                      send'[u].pc \in Resizing, send'[v].pc \in Resizing
               PROVE  FALSE
    OBVIOUS
  <2>1. CASE u = t
    BY <1>1, <1>3, <2>1
  <2>2. CASE v = t
    BY <1>1, <1>3, <2>2
  <2>3. CASE u # t /\ v # t
    BY <1>1, <2>3 DEF HashInv, ResizeInv
  <2> QED
    BY <2>1, <2>2, <2>3
<1>5. \A u \in Senders : send'[u].pc \in Resizing => resizing'
  BY <1>1, <1>3, Zenon DEF FlagKept
<1>6. \A u \in Senders : send'[u].pc = "double" => send'[u].cap >= Size(tables'[Len(tables')])
  <2> SUFFICES ASSUME NEW u \in Senders, send'[u].pc = "double"
               PROVE  send'[u].cap >= Size(tables'[Len(tables')])
    OBVIOUS
  <2>1. CASE u = t
    BY <1>1, <2>1 DEF FlagKept
  <2>2. CASE u # t
    <3>1. send[u].pc \in Resizing /\ send'[u] = send[u]
      BY <1>1, <2>2 DEF Resizing
    <3>2. tables' = tables
      BY <1>3, <2>2, <3>1
    <3> QED
      BY <3>1, <3>2 DEF HashInv, ResizeInv
  <2> QED
    BY <2>1, <2>2
<1> QED
  BY <1>4, <1>5, <1>6 DEF ResizeInv

\* A step after which there is nobody more in any of the crowds.
LEMMA CrowdKeeps ==
    ASSUME HashInv, Len(tables') = Len(tables),
           \A n \in 1 .. Len(tables) : Size(tables'[n]) = Size(tables[n]),
           hashCount' = Cardinality(Made' \cup Counted'),
           \A n \in 1 .. Len(tables), k \in Nat : k >= Limit(Size(tables[n])) =>
              (Settled(n) \cup Early(k))' \subseteq Settled(n) \cup Early(k)
    PROVE  CountInv'
<1> SUFFICES ASSUME NEW n \in 1 .. Len(tables), NEW k \in Nat, k >= Limit(Size(tables[n]))
             PROVE  Uncrowded(n, k)'
  BY DEF CountInv
<1> DEFINE S == Settled(n) \cup Early(k)
           T == (Settled(n) \cup Early(k))'
<1>1. S \in SUBSET Senders /\ T \in SUBSET S
  BY DEF Settled, Early, Made, Counted
<1>2. Cardinality(S) \in Nat /\ Cardinality(T) \in Nat /\ Cardinality(T) <= Cardinality(S)
  BY <1>1, ThreadsFinite
<1>3. Cardinality(S) <= k
  BY DEF HashInv, CountInv, Uncrowded
<1>4. Cardinality(T) <= k
  BY <1>2, <1>3
<1> QED
  BY <1>4 DEF Uncrowded

\* A step of one thread that leaves the tables, the list and the counts alone.
CalmStep(t, w) ==
    /\ send' = [send EXCEPT ![t] = w] /\ UNCHANGED <<tables, producers, hashCount>>
    /\ used' \in [Senders -> SUBSET Names] /\ \A u \in Senders : u # t => used'[u] = used[u]
    /\ w.pc \in Counting <=> send[t].pc \in Counting
    /\ w.pc \in Counting => w.count = send[t].count
    /\ \A n \in 1 .. Len(tables) : w.pc = "enter" /\ w.main <= n => t \in Settled(n)
\* A step that changes neither a table nor who has counted.
LEMMA CalmKeeps ==
    ASSUME HashInv, NEW t \in Senders, NEW w \in SendRec, CalmStep(t, w),
           FlagKept(t, w), SenderInv(t)'
    PROVE  HashInv'
<1>1. /\ send'[t] = w /\ \A u \in Senders : u # t => send'[u] = send[u]
      /\ send' \in [Senders -> SendRec]
  BY DEF HashInv, HashType, CalmStep
<1>2. UNCHANGED <<tables, producers, hashCount>>
  BY DEF CalmStep
<1>3. Made' = Made /\ \A u \in Senders : Own(u)' = Own(u)
  BY <1>2 DEF Made, Own, Slots
<1>4. Counted' = Counted
  BY <1>1 DEF Counted, CalmStep
<1>5. HashType'
  BY <1>1, <1>2 DEF HashInv, HashType, CalmStep, FlagKept
<1>6. TablesInv'
  BY <1>2 DEF HashInv, TablesInv
<1>7. ResizeInv'
  BY FlagKeeps
<1>8. CountInv'
  <2>1. ASSUME NEW n \in 1 .. Len(tables), NEW u \in Settled(n)' PROVE u \in Settled(n)
    <3>1. u \in Made /\ u \in Senders
      BY <1>3, <2>1 DEF Settled, Made
    <3>2. \/ \E m \in Own(u) : m <= n
          \/ send'[u].pc = "enter" /\ send'[u].main <= n
      BY <1>3, <2>1, <3>1 DEF Settled
    <3> QED
      BY <1>1, <3>1, <3>2 DEF Settled, CalmStep
  <2>2. \A k : Early(k)' = Early(k)
    BY <1>1, <1>4 DEF Early, CalmStep, Counted
  <2>3. hashCount' = Cardinality(Made' \cup Counted')
    BY <1>2, <1>3, <1>4 DEF HashInv, CountInv
  <2> QED
    BY <1>2, <2>1, <2>2, <2>3, CrowdKeeps
<1>9. Len(tables) \in Nat
  BY DEF HashInv, HashType
<1>10. ASSUME NEW u \in Senders, u # t PROVE SenderInv(u)'
  <2>1. /\ send'[u] = send[u] /\ used'[u] = used[u] /\ Own(u)' = Own(u)
        /\ u \in Made' <=> u \in Made
        /\ Len(tables) <= Len(tables') /\ Len(tables') \in Nat
    BY <1>1, <1>2, <1>3, <1>9, <1>10 DEF CalmStep
  <2> QED
    BY <2>1, OthersKeep DEF HashInv
<1> QED
  BY <1>5, <1>6, <1>7, <1>8, <1>10 DEF HashInv

\* For such a step: what its own part comes to.
LEMMA OwnPart ==
    ASSUME HashInv, NEW t \in Senders, NEW w, CalmStep(t, w),
           used'[t] \subseteq {Named(t)},
           w.pc \in Counting \cup {"add", "enter"} => w.main \in 1 .. Len(tables),
           w.pc \in Counting \cup {"add", "abandon"} => t \notin Made,
           w.pc \in {"enter", "enqueue"} => t \in Made /\ w.own = Named(t),
           w.pc = "enter" => w.main \notin Own(t),
           t \in Made => Own(t) # {} \/ w.pc = "enter"
    PROVE  SenderInv(t)'
<1>1. send'[t] = w /\ UNCHANGED <<tables, producers>>
  BY DEF HashInv, HashType, CalmStep
<1>2. Made' = Made /\ Own(t)' = Own(t)
  BY <1>1 DEF Made, Own, Slots
<1>3. t \notin Made => Own(t) = {}
  BY DEF HashInv, SenderInv
<1> QED
  BY <1>1, <1>2, <1>3 DEF SenderInv

\* get_or_add_implicit_producer() begins, with what it found.
LEMMA BeginsKeep ==
    ASSUME HashInv, NEW t \in Senders, NEW p \in {"enqueue", "enter", "add"}, NEW own,
           Begin(t, p, own),
           p = "add" => Own(t) = {} /\ own = NoName,
           p # "add" => Own(t) # {} /\ own = Named(t),
           p = "enter" => Len(tables) \notin Own(t)
    PROVE  HashInv'
<1> DEFINE w == [pc |-> p, main |-> Len(tables), count |-> 0, cap |-> 0, own |-> own]
           L == Len(tables)
<1>1. /\ send[t].pc = "idle" /\ send' = [send EXCEPT ![t] = w]
      /\ UNCHANGED <<tables, hashCount, resizing, producers, used>>
  BY DEF Begin, Is
<1>2. /\ w \in SendRec /\ w.pc = p /\ w.main = L /\ w.own = own
      /\ L \in Nat /\ L \in 1 .. L
  <2>1. own \in {NoName} \cup Names
    BY DEF Names
  <2>2. L \in Nat /\ L > 0
    BY DEF HashInv, HashType
  <2> QED
    BY <2>1, <2>2 DEF SendRec
<1> HIDE DEF w
<1>3. Own(t) \subseteq 1 .. L
  BY DEF Own
<1>4. t \in Made <=> Own(t) # {}
  BY <1>1 DEF HashInv, SenderInv
<1>5. used \in [Senders -> SUBSET Names] /\ used[t] \subseteq {Named(t)} /\ resizing \in BOOLEAN
  BY DEF HashInv, HashType, SenderInv
<1>6. ASSUME NEW n \in 1 .. L, w.pc = "enter", w.main <= n PROVE t \in Settled(n)
  <2>1. n = L
    BY <1>2, <1>6
  <2>2. PICK m \in Own(t) : m <= n
    BY <1>2, <1>3, <1>6, <2>1
  <2> QED
    BY <1>4, <2>2 DEF Settled
<1>7. CalmStep(t, w)
  <2>1. w.pc \notin Counting /\ send[t].pc \notin Counting
    BY <1>1, <1>2 DEF Counting
  <2> QED
    BY <1>1, <1>5, <1>6, <2>1 DEF CalmStep
<1>8. FlagKept(t, w)
  <2>1. w.pc \notin Resizing /\ w.pc # "double"
    BY <1>2 DEF Resizing
  <2> QED
    BY <1>1, <1>5, <2>1 DEF FlagKept
<1>9. SenderInv(t)'
  <2>1. w.pc \notin Counting /\ w.pc # "abandon"
    BY <1>2 DEF Counting
  <2> QED
    BY <1>1, <1>2, <1>4, <1>5, <1>7, <2>1, OwnPart
<1> QED
  BY <1>2, <1>7, <1>8, <1>9, CalmKeeps

\* A thread that has an entry finds it, in whichever table it is.
LEMMA FindKeeps == ASSUME HashInv, NEW t \in Senders, FindProducer(t) PROVE HashInv'
<1>1. CASE Len(tables) \in Own(t) /\ Begin(t, "enqueue", KnownAs(t))
  <2>1. KnownAs(t) = Named(t)
    BY <1>1, KnowsOwn
  <2> QED
    BY <1>1, <2>1, BeginsKeep
<1>2. CASE Len(tables) \notin Own(t) /\ Own(t) # {} /\ Begin(t, "enter", KnownAs(t))
  <2>1. KnownAs(t) = Named(t)
    BY <1>2, KnowsOwn
  <2> QED
    BY <1>2, <2>1, BeginsKeep
<1>3. CASE Own(t) = {} /\ Begin(t, "add", NoName)
  BY <1>3, BeginsKeep
<1> QED
  BY <1>1, <1>2, <1>3 DEF FindProducer

\* A thread between its count and its sub-queue that keeps its count, and may
\* take a table as its main one.
LEMMA CountingKeeps ==
    ASSUME HashInv, NEW t \in Senders, send[t].pc \in Counting, NEW w \in SendRec,
           send' = [send EXCEPT ![t] = w], UNCHANGED <<tables, hashCount, producers, used>>,
           w.pc \in Counting, w.count = send[t].count,
           w.main = send[t].main \/ w.main = Len(tables), FlagKept(t, w)
    PROVE  HashInv'
<1>1. /\ used \in [Senders -> SUBSET Names] /\ used[t] \subseteq {Named(t)}
      /\ t \notin Made /\ send[t].main \in 1 .. Len(tables)
  BY DEF HashInv, HashType, SenderInv
<1>2. w.main \in 1 .. Len(tables)
  BY <1>1 DEF HashInv, HashType
<1>3. w.pc # "enter" /\ w.pc # "enqueue"
  BY DEF Counting
<1>4. CalmStep(t, w)
  BY <1>1, <1>3 DEF CalmStep
<1>5. SenderInv(t)'
  BY <1>1, <1>2, <1>3, <1>4, OwnPart
<1> QED
  BY <1>4, <1>5, CalmKeeps

\* The flag is taken, or another thread has it.
LEMMA TryResizeKeeps == ASSUME HashInv, NEW t \in Senders, TryResize(t) PROVE HashInv'
<1>1. /\ send[t].pc = "grow" /\ send[t] \in SendRec /\ resizing \in BOOLEAN
      /\ UNCHANGED <<tables, hashCount, producers, used>>
  BY DEF TryResize, Is, HashInv, HashType
<1>2. ASSUME NEW p \in {"resize", "place"}, To(t, p)
      PROVE  LET w == [send[t] EXCEPT !.pc = p]
             IN  /\ send' = [send EXCEPT ![t] = w] /\ w \in SendRec /\ w.pc = p
                 /\ w.count = send[t].count /\ w.main = send[t].main
  BY <1>1, <1>2 DEF To, SendRec, Counting, HashInv, HashType
<1>3. CASE ~resizing /\ resizing' = TRUE /\ To(t, "resize")
  <2> DEFINE w == [send[t] EXCEPT !.pc = "resize"]
  <2>1. /\ send' = [send EXCEPT ![t] = w] /\ w \in SendRec /\ w.pc = "resize"
        /\ w.count = send[t].count /\ w.main = send[t].main
    BY <1>2, <1>3
  <2> HIDE DEF w
  <2>2. FlagKept(t, w)
    BY <1>1, <1>3, <2>1 DEF FlagKept
  <2>3. w.pc \in Counting /\ send[t].pc \in Counting
    BY <1>1, <2>1 DEF Counting
  <2> QED
    BY <1>1, <2>1, <2>2, <2>3, CountingKeeps
<1>4. CASE To(t, "place") /\ UNCHANGED resizing
  <2> DEFINE w == [send[t] EXCEPT !.pc = "place"]
  <2>1. /\ send' = [send EXCEPT ![t] = w] /\ w \in SendRec /\ w.pc = "place"
        /\ w.count = send[t].count /\ w.main = send[t].main
    BY <1>2, <1>4
  <2> HIDE DEF w
  <2>2. FlagKept(t, w)
    BY <1>1, <1>4, <2>1 DEF FlagKept, Resizing
  <2>3. w.pc \in Counting /\ send[t].pc \in Counting
    BY <1>1, <2>1 DEF Counting
  <2> QED
    BY <1>1, <2>1, <2>2, <2>3, CountingKeeps
<1> QED
  BY <1>3, <1>4 DEF TryResize

\* With the flag, the current table is read again.
LEMMA ResizeKeeps == ASSUME HashInv, NEW t \in Senders, Resize(t) PROVE HashInv'
<1> DEFINE L == Len(tables)
           c == Size(Last(tables))
           k == IF HalfFull(t, L) THEN c * 2 ELSE send[t].cap
           q == IF HalfFull(t, L) THEN "double" ELSE "clear"
           w == [send[t] EXCEPT !.main = L, !.cap = k, !.pc = q]
<1>1. /\ send[t].pc = "resize" /\ send[t] \in SendRec /\ resizing \in BOOLEAN /\ resizing
      /\ UNCHANGED <<tables, hashCount, resizing, producers, used>>
  <2>1. /\ send[t].pc = "resize" /\ send[t] \in SendRec /\ resizing \in BOOLEAN
        /\ UNCHANGED <<tables, hashCount, resizing, producers, used>>
    BY DEF Resize, Is, HashInv, HashType
  <2>2. resizing
    BY <2>1, Zenon DEF HashInv, ResizeInv, Resizing
  <2> QED
    BY <2>1, <2>2
<1>2. L \in Nat /\ L > 0 /\ c = Size(tables[L]) /\ c \in Nat /\ c > 1
  <2>1. L \in Nat /\ L > 0 /\ L \in 1 .. L
    BY DEF HashInv, HashType
  <2>2. Last(tables) = tables[L]
    BY DEF Last
  <2>3. Size(tables[L]) \in Nat /\ Size(tables[L]) > 1
    BY <2>1, TableN DEF HashInv
  <2> QED
    BY <2>1, <2>2, <2>3
<1>3. k \in Nat /\ q \in {"double", "clear"} /\ (q = "double" => k >= Size(tables[L]))
  <2> HIDE DEF c
  <2>1. send[t].cap \in Nat
    BY <1>1 DEF SendRec
  <2> QED
    BY <1>2, <2>1
<1>4. send' = [send EXCEPT ![t] = w]
  BY DEF Resize, HashInv, HashType
<1> HIDE DEF k, q
<1>5. /\ w \in SendRec /\ w.pc = q /\ w.cap = k /\ w.main = L /\ w.count = send[t].count
  BY <1>1, <1>2, <1>3 DEF SendRec, Counting
<1> HIDE DEF w
<1>6. w.pc \in Counting /\ send[t].pc \in Counting /\ send[t].pc \in Resizing
  BY <1>1, <1>3, <1>5 DEF Counting, Resizing
<1>7. FlagKept(t, w)
  BY <1>1, <1>3, <1>4, <1>5, <1>6 DEF FlagKept
<1> QED
  BY <1>1, <1>4, <1>5, <1>6, <1>7, CountingKeeps

\* The capacity is doubled.
LEMMA DoubleKeeps == ASSUME HashInv, NEW t \in Senders, DoubleCapacity(t) PROVE HashInv'
<1> DEFINE w == [send[t] EXCEPT !.cap = @ * 2]
<1>1. /\ send[t].pc = "double" /\ send[t] \in SendRec /\ resizing \in BOOLEAN
      /\ UNCHANGED <<tables, hashCount, resizing, producers, used>>
  BY DEF DoubleCapacity, Is, HashInv, HashType
<1>2. resizing
  BY <1>1, Zenon DEF HashInv, ResizeInv, Resizing
<1>3. send' = [send EXCEPT ![t] = w]
  BY DEF DoubleCapacity, HashInv, HashType
<1>4. /\ w \in SendRec /\ w.pc = "double" /\ w.cap = send[t].cap * 2 /\ w.main = send[t].main
      /\ w.count = send[t].count /\ send[t].cap \in Nat
  BY <1>1 DEF SendRec, Counting
<1> HIDE DEF w
<1>5. w.cap >= Size(tables[Len(tables)])
  <2>1. Len(tables) \in 1 .. Len(tables)
    BY DEF HashInv, HashType
  <2>2. Size(tables[Len(tables)]) \in Nat
    BY <2>1, TableN DEF HashInv
  <2>3. send[t].cap >= Size(tables[Len(tables)])
    BY <1>1 DEF HashInv, ResizeInv
  <2> QED
    BY <1>4, <2>2, <2>3
<1>6. w.pc \in Counting /\ send[t].pc \in Counting /\ send[t].pc \in Resizing
  BY <1>1, <1>4 DEF Counting, Resizing
<1>7. FlagKept(t, w)
  BY <1>1, <1>2, <1>3, <1>4, <1>5, <1>6 DEF FlagKept
<1> QED
  BY <1>1, <1>3, <1>4, <1>6, <1>7, CountingKeeps

\* The flag is given back.
LEMMA DoneKeeps == ASSUME HashInv, NEW t \in Senders, ResizeDone(t) PROVE HashInv'
<1> DEFINE w == [send[t] EXCEPT !.pc = "place"]
<1>1. /\ send[t].pc = "clear" /\ send[t] \in SendRec /\ resizing' = FALSE
      /\ UNCHANGED <<tables, hashCount, producers, used>>
  BY DEF ResizeDone, Is, HashInv, HashType
<1>2. send' = [send EXCEPT ![t] = w]
  BY DEF ResizeDone, To, HashInv, HashType
<1>3. /\ w \in SendRec /\ w.pc = "place" /\ w.main = send[t].main /\ w.count = send[t].count
  BY <1>1 DEF SendRec, Counting
<1> HIDE DEF w
<1>4. w.pc \in Counting /\ send[t].pc \in Counting /\ send[t].pc \in Resizing /\ w.pc \notin Resizing
  BY <1>1, <1>3 DEF Counting, Resizing
<1>5. FlagKept(t, w)
  BY <1>1, <1>2, <1>3, <1>4 DEF FlagKept
<1> QED
  BY <1>1, <1>2, <1>3, <1>4, <1>5, CountingKeeps

\* No room in the table it knows: the thread looks at the current one.
LEMMA WaitKeeps == ASSUME HashInv, NEW t \in Senders, WaitForTable(t) PROVE HashInv'
<1> DEFINE w == [send[t] EXCEPT !.main = Len(tables), !.pc = "grow"]
<1>1. /\ send[t].pc = "place" /\ send[t] \in SendRec /\ Len(tables) \in Nat
      /\ UNCHANGED <<tables, hashCount, resizing, producers, used>> /\ resizing \in BOOLEAN
  BY DEF WaitForTable, Is, HashInv, HashType
<1>2. send' = [send EXCEPT ![t] = w]
  BY DEF WaitForTable, HashInv, HashType
<1>3. /\ w \in SendRec /\ w.pc = "grow" /\ w.main = Len(tables) /\ w.count = send[t].count
  BY <1>1 DEF SendRec, Counting
<1> HIDE DEF w
<1>4. w.pc \in Counting /\ send[t].pc \in Counting /\ w.pc \notin Resizing
  BY <1>1, <1>3 DEF Counting, Resizing
<1>5. FlagKept(t, w)
  BY <1>1, <1>2, <1>3, <1>4 DEF FlagKept
<1> QED
  BY <1>1, <1>2, <1>3, <1>4, <1>5, CountingKeeps

\* Without memory for a table, the flag is given back.
LEMMA AbandonKeeps == ASSUME HashInv, NEW t \in Senders, Abandon(t) PROVE HashInv'
<1> DEFINE w == [send[t] EXCEPT !.pc = "idle"]
<1>1. /\ send[t].pc = "abandon" /\ send[t] \in SendRec /\ resizing' = FALSE
      /\ UNCHANGED <<tables, hashCount, producers, used>>
  BY DEF Abandon, Is, HashInv, HashType
<1>2. send' = [send EXCEPT ![t] = w]
  BY DEF Abandon, To, HashInv, HashType
<1>3. w \in SendRec /\ w.pc = "idle"
  BY <1>1 DEF SendRec, Counting
<1> HIDE DEF w
<1>4. /\ w.pc \notin Counting /\ send[t].pc \notin Counting
      /\ send[t].pc \in Resizing /\ w.pc \notin Resizing
  BY <1>1, <1>3 DEF Counting, Resizing
<1>5. FlagKept(t, w)
  BY <1>1, <1>2, <1>3, <1>4 DEF FlagKept
<1>6. /\ used \in [Senders -> SUBSET Names] /\ used[t] \subseteq {Named(t)} /\ t \notin Made
  BY <1>1 DEF HashInv, HashType, SenderInv
<1>7. CalmStep(t, w)
  BY <1>1, <1>2, <1>3, <1>4, <1>6 DEF CalmStep
<1>8. SenderInv(t)'
  BY <1>1, <1>3, <1>4, <1>6, <1>7, OwnPart
<1> QED
  BY <1>3, <1>5, <1>7, <1>8, CalmKeeps

\* The item goes into the thread's own sub-queue.
LEMMA PutKeeps == ASSUME HashInv, NEW t \in Senders, PutItem(t) PROVE HashInv'
<1> DEFINE w == NotSending
<1>1. /\ send[t].pc = "enqueue" /\ send[t] \in SendRec /\ send' = [send EXCEPT ![t] = w]
      /\ used' = [used EXCEPT ![t] = @ \cup {send[t].own}]
      /\ UNCHANGED <<tables, hashCount, resizing, producers>> /\ resizing \in BOOLEAN
  BY DEF PutItem, Is, HashInv, HashType
<1>2. w \in SendRec /\ w.pc = "idle"
  BY DEF SendRec, Counting, NotSending
<1> HIDE DEF w
<1>3. /\ w.pc \notin Counting /\ send[t].pc \notin Counting /\ w.pc \notin Resizing
  BY <1>1, <1>2 DEF Counting, Resizing
<1>4. FlagKept(t, w)
  BY <1>1, <1>2, <1>3 DEF FlagKept
<1>5. /\ used \in [Senders -> SUBSET Names] /\ used[t] \subseteq {Named(t)} /\ t \in Made
      /\ send[t].own = Named(t) /\ Own(t) # {} /\ Named(t) \in Names
  BY <1>1 DEF HashInv, HashType, SenderInv, Names
<1>6. /\ used' \in [Senders -> SUBSET Names] /\ used'[t] \subseteq {Named(t)}
      /\ \A u \in Senders : u # t => used'[u] = used[u]
  BY <1>1, <1>5
<1>7. CalmStep(t, w)
  BY <1>1, <1>2, <1>3, <1>6 DEF CalmStep
<1>8. SenderInv(t)'
  BY <1>2, <1>3, <1>5, <1>6, <1>7, OwnPart
<1> QED
  BY <1>2, <1>4, <1>7, <1>8, CalmKeeps

\* How many have a sub-queue or a count.
LEMMA CountIsNat ==
    ASSUME HashInv
    PROVE  /\ hashCount \in Nat /\ hashCount = Cardinality(Made \cup Counted)
           /\ IsFiniteSet(Made \cup Counted)
<1>1. Made \cup Counted \in SUBSET Senders
  BY DEF Made, Counted
<1> QED
  BY <1>1, ThreadsFinite DEF HashInv, CountInv

\* A thread counts itself.
LEMMA CountKeeps == ASSUME HashInv, NEW t \in Senders, CountProducer(t) PROVE HashInv'
<1> DEFINE c == hashCount + 1
           w == [send[t] EXCEPT !.count = c, !.pc = "grow"]
<1>1. /\ send[t].pc = "add" /\ send[t] \in SendRec /\ hashCount' = c
      /\ UNCHANGED <<tables, resizing, producers, used>> /\ resizing \in BOOLEAN
  BY DEF CountProducer, Is, HashInv, HashType
<1>2. send' = [send EXCEPT ![t] = w]
  BY DEF CountProducer, HashInv, HashType
<1>3. c \in Nat
  BY CountIsNat
<1> HIDE DEF c
<1>4. w \in SendRec /\ w.pc = "grow" /\ w.main = send[t].main /\ w.count = c
  BY <1>1, <1>3 DEF SendRec, Counting
<1> HIDE DEF w
<1>5. /\ send'[t] = w /\ \A u \in Senders : u # t => send'[u] = send[u]
      /\ send' \in [Senders -> SendRec]
  BY <1>2, <1>4 DEF HashInv, HashType
<1>6. w.pc \in Counting /\ send[t].pc \notin Counting /\ w.pc \notin Resizing
  BY <1>1, <1>4 DEF Counting, Resizing
<1>7. Made' = Made /\ \A u \in Senders : Own(u)' = Own(u)
  BY <1>1 DEF Made, Own, Slots
<1>8. /\ used[t] \subseteq {Named(t)} /\ t \notin Made /\ Own(t) = {}
      /\ send[t].main \in 1 .. Len(tables)
  BY <1>1 DEF HashInv, SenderInv
<1>9. Counted' = Counted \cup {t} /\ t \notin Counted
  BY <1>5, <1>6 DEF Counted
<1>10. Cardinality(Made' \cup Counted') = c
  <2>1. Made' \cup Counted' = (Made \cup Counted) \cup {t} /\ t \notin Made \cup Counted
    BY <1>7, <1>8, <1>9
  <2> QED
    BY <2>1, CountIsNat, FS_AddElement DEF c
<1>11. HashType'
  BY <1>1, <1>5 DEF HashInv, HashType
<1>12. TablesInv'
  BY <1>1 DEF HashInv, TablesInv
<1>13. ResizeInv'
  <2>1. FlagKept(t, w)
    BY <1>1, <1>2, <1>4, <1>6 DEF FlagKept
  <2> QED
    BY <2>1, FlagKeeps
<1>14. CountInv'
  <2>1. ASSUME NEW n \in 1 .. Len(tables), NEW k \in Nat, k >= Limit(Size(tables[n]))
        PROVE  Uncrowded(n, k)'
    <3> DEFINE S == Settled(n) \cup Early(k)
               T == (Settled(n) \cup Early(k))'
    <3>1. S \in SUBSET Senders /\ T \in SUBSET Senders
      BY DEF Settled, Early, Made, Counted
    <3>2. Settled(n)' = Settled(n)
      <4>1. \A u \in Made : u # t /\ u \in Senders
        BY <1>8 DEF Made
      <4> QED
        BY <1>5, <1>7, <4>1 DEF Settled
    <3>3. Cardinality(T) \in Nat /\ Cardinality(S) \in Nat
      BY <3>1, ThreadsFinite
    <3>4. CASE c <= k
      <4>1. T \in SUBSET (Made' \cup Counted') /\ Made' \cup Counted' \in SUBSET Senders
        BY DEF Settled, Early, Made, Counted
      <4>2. Cardinality(T) <= c
        BY <1>10, <4>1, ThreadsFinite
      <4> QED
        BY <1>3, <3>3, <3>4, <4>2 DEF Uncrowded
    <3>5. CASE ~(c <= k)
      <4>1. Early(k)' = Early(k)
        BY <1>4, <1>5, <1>9, <3>5 DEF Early, Counted
      <4>2. T = S
        BY <3>2, <4>1
      <4>3. Cardinality(S) <= k
        BY <2>1 DEF HashInv, CountInv, Uncrowded
      <4> QED
        BY <4>2, <4>3 DEF Uncrowded
    <3> QED
      BY <3>4, <3>5
  <2>2. hashCount' = Cardinality(Made' \cup Counted')
    BY <1>1, <1>10
  <2> QED
    BY <1>1, <2>1, <2>2 DEF CountInv
<1>15. SenderInv(t)'
  BY <1>1, <1>4, <1>5, <1>6, <1>7, <1>8 DEF SenderInv
<1>16. ASSUME NEW u \in Senders, u # t PROVE SenderInv(u)'
  <2>1. Len(tables) \in Nat
    BY DEF HashInv, HashType
  <2> QED
    BY <1>1, <1>5, <1>7, <1>16, <2>1, OthersKeep DEF HashInv
<1> QED
  BY <1>11, <1>12, <1>13, <1>14, <1>15, <1>16 DEF HashInv

\* The count is taken back when memory runs out.
LEMMA FailsKeep ==
    ASSUME HashInv, NEW t \in Senders, NEW p \in {"abandon", "idle"}, Fails(t, p),
           send[t].pc \in Counting, send[t].pc \in Resizing <=> p = "abandon"
    PROVE  HashInv'
<1> DEFINE w == [NotSending EXCEPT !.pc = p]
<1>1. /\ send' = [send EXCEPT ![t] = w] /\ hashCount' = hashCount - 1
      /\ UNCHANGED <<tables, resizing, producers, used>> /\ resizing \in BOOLEAN
  BY DEF Fails, HashInv, HashType
<1>2. w \in SendRec /\ w.pc = p
  BY DEF NotSending, SendRec, Counting
<1> HIDE DEF w
<1>3. /\ send'[t] = w /\ \A u \in Senders : u # t => send'[u] = send[u]
      /\ send' \in [Senders -> SendRec]
  BY <1>1, <1>2 DEF HashInv, HashType
<1>4. w.pc \notin Counting \cup {"add", "enter", "enqueue"} /\ w.pc # "double"
      /\ (w.pc \in Resizing => send[t].pc \in Resizing)
  BY <1>2 DEF Counting, Resizing
<1>5. Made' = Made /\ \A u \in Senders : Own(u)' = Own(u)
  BY <1>1 DEF Made, Own, Slots
<1>6. used[t] \subseteq {Named(t)} /\ t \notin Made /\ Own(t) = {}
  BY DEF HashInv, SenderInv
<1>7. Counted' = Counted \ {t} /\ t \in Counted
  BY <1>3, <1>4 DEF Counted
<1>8. Cardinality(Made' \cup Counted') = hashCount'
  <2>1. Made' \cup Counted' = (Made \cup Counted) \ {t} /\ t \in Made \cup Counted
    BY <1>5, <1>6, <1>7
  <2> QED
    BY <1>1, <2>1, CountIsNat, FS_RemoveElement
<1>9. HashType'
  BY <1>1, <1>3 DEF HashInv, HashType
<1>10. TablesInv'
  BY <1>1 DEF HashInv, TablesInv
<1>11. ResizeInv'
  <2>1. send[t].pc \in Resizing => resizing
    BY Zenon DEF HashInv, ResizeInv
  <2>2. FlagKept(t, w)
    BY <1>1, <1>4, <2>1 DEF FlagKept
  <2> QED
    BY <2>2, FlagKeeps
<1>12. CountInv'
  <2>1. ASSUME NEW n PROVE Settled(n)' \subseteq Settled(n)
    <3>1. \A u \in Made : u # t /\ u \in Senders
      BY <1>6 DEF Made
    <3> QED
      BY <1>3, <1>5, <3>1 DEF Settled
  <2>2. \A k : Early(k)' \subseteq Early(k)
    BY <1>3, <1>7 DEF Early, Counted
  <2> QED
    BY <1>1, <1>8, <2>1, <2>2, CrowdKeeps
<1>13. SenderInv(t)'
  BY <1>1, <1>3, <1>4, <1>5, <1>6 DEF SenderInv
<1>14. ASSUME NEW u \in Senders, u # t PROVE SenderInv(u)'
  <2>1. Len(tables) \in Nat
    BY DEF HashInv, HashType
  <2> QED
    BY <1>1, <1>3, <1>5, <1>14, <2>1, OthersKeep DEF HashInv
<1> QED
  BY <1>9, <1>10, <1>11, <1>12, <1>13, <1>14 DEF HashInv

\* The n-th table is large enough for one with this count.
LEMMA RoomyCount ==
    ASSUME HashInv, NEW t \in Senders, NEW n \in 1 .. Len(tables), send[t].main = n, Roomy(t)
    PROVE  send[t].count \in Nat /\ send[t].count <= Limit(Size(tables[n]))
<1>1. send[t] \in SendRec
  BY DEF HashInv, HashType
<1>2. send[t].count \in Nat
  BY <1>1 DEF SendRec
<1>3. Size(tables[n]) \in Nat
  BY TableN DEF HashInv
<1> QED
  BY <1>2, <1>3 DEF Roomy, Limit

\* A thread that counted itself gets its sub-queue.
LEMMA AddKeeps == ASSUME HashInv, NEW t \in Senders, AddProducer(t) PROVE HashInv'
<1> DEFINE w == [send[t] EXCEPT !.own = Named(t), !.pc = "enter"]
           n == send[t].main
<1>1. /\ send[t].pc = "place" /\ send[t] \in SendRec /\ Roomy(t)
      /\ UNCHANGED <<tables, hashCount, resizing, used>> /\ resizing \in BOOLEAN
  BY DEF AddProducer, Is, HashInv, HashType
<1>2. /\ used[t] \subseteq {Named(t)} /\ t \notin Made /\ Own(t) = {} /\ n \in 1 .. Len(tables)
      /\ Named(t) \in Names
  BY <1>1 DEF HashInv, SenderInv, Counting, Names
<1>3. MadeBy(t) + 1 = 1
  <2>1. ToSet(producers) \subseteq Names
    BY SetType DEF HashInv, HashType
  <2>2. {p \in ToSet(producers) : p[1] = t} = {}
    BY <1>2, <2>1 DEF Names, Named, Made
  <2> QED
    BY <2>2, FS_EmptySet DEF MadeBy
<1>4. send' = [send EXCEPT ![t] = w] /\ producers' = <<Named(t)>> \o producers
  BY <1>3 DEF AddProducer, Named, HashInv, HashType
<1>5. w \in SendRec /\ w.pc = "enter" /\ w.main = n /\ w.own = Named(t)
  BY <1>1, <1>2 DEF SendRec, Counting
<1> HIDE DEF w
<1>6. /\ send'[t] = w /\ \A u \in Senders : u # t => send'[u] = send[u]
      /\ send' \in [Senders -> SendRec]
  BY <1>4, <1>5 DEF HashInv, HashType
<1>7. w.pc \notin Counting \cup Resizing /\ send[t].pc \in Counting
  BY <1>1, <1>5 DEF Counting, Resizing
<1>8. \A u \in Senders : Own(u)' = Own(u)
  BY <1>1 DEF Own, Slots
<1>9. /\ producers' \in Seq(Names) /\ ToSet(producers') = ToSet(producers) \cup {Named(t)}
      /\ IsInjective(producers')
  <2>1. producers \in Seq(Names) /\ IsInjective(producers) /\ Named(t) \notin ToSet(producers)
    BY <1>2 DEF HashInv, HashType, Made
  <2> QED
    BY <1>2, <1>4, <2>1, PushOnce, PushSet
<1>10. Made' = Made \cup {t}
  <2>1. \A u \in Senders : Named(u) = Named(t) => u = t
    BY DEF Named
  <2> QED
    BY <1>9, <2>1 DEF Made
<1>11. Counted' = Counted \ {t} /\ t \in Counted
  BY <1>6, <1>7 DEF Counted
<1>12. HashType'
  BY <1>1, <1>6, <1>9 DEF HashInv, HashType
<1>13. TablesInv'
  BY <1>1 DEF HashInv, TablesInv
<1>14. ResizeInv'
  <2>1. FlagKept(t, w)
    BY <1>1, <1>4, <1>5, <1>7 DEF FlagKept
  <2> QED
    BY <2>1, FlagKeeps
<1>15. CountInv'
  <2>1. ASSUME NEW m \in 1 .. Len(tables), NEW k \in Nat, k >= Limit(Size(tables[m])),
               NEW u \in (Settled(m) \cup Early(k))'
        PROVE  u \in Settled(m) \cup Early(k)
    <3>1. CASE u # t
      BY <1>6, <1>8, <1>10, <1>11, <2>1, <3>1 DEF Settled, Early, Made, Counted
    <3>2. CASE u = t
      <4>1. u \in Settled(m)' /\ n <= m
        BY <1>2, <1>5, <1>6, <1>8, <1>11, <2>1, <3>2 DEF Settled, Early
      <4>2. Size(tables[n]) <= Size(tables[m])
        BY <1>2, <2>1, <4>1 DEF HashInv, TablesInv
      <4>3. /\ Size(tables[n]) \in Nat /\ Size(tables[n]) > 1 /\ Size(tables[m]) \in Nat
        BY <1>2, <2>1, TableN DEF HashInv
      <4>4. Limit(Size(tables[n])) \in Nat /\ Limit(Size(tables[n])) <= Limit(Size(tables[m]))
        BY <4>2, <4>3, LimitMonotone
      <4>5. send[t].count \in Nat /\ send[t].count <= Limit(Size(tables[n]))
        BY <1>1, <1>2, RoomyCount
      <4>6. Limit(Size(tables[m])) \in Nat
        BY <4>2, <4>3, LimitMonotone
      <4>7. send[t].count <= k
        BY <2>1, <4>4, <4>5, <4>6
      <4> QED
        BY <1>11, <3>2, <4>7 DEF Early
    <3> QED
      BY <3>1, <3>2
  <2>2. Made' \cup Counted' = Made \cup Counted
    BY <1>10, <1>11
  <2>3. hashCount' = Cardinality(Made' \cup Counted')
    BY <1>1, <2>2 DEF HashInv, CountInv
  <2> QED
    BY <1>1, <2>1, <2>3, CrowdKeeps
<1>16. SenderInv(t)'
  BY <1>1, <1>2, <1>5, <1>6, <1>7, <1>8, <1>10 DEF SenderInv
<1>17. ASSUME NEW u \in Senders, u # t PROVE SenderInv(u)'
  <2>1. Len(tables) \in Nat
    BY DEF HashInv, HashType
  <2> QED
    BY <1>1, <1>6, <1>8, <1>10, <1>17, <2>1, OthersKeep DEF HashInv
<1> QED
  BY <1>12, <1>13, <1>14, <1>15, <1>16, <1>17 DEF HashInv

\* A table with one more entry.
LEMMA EntryAdded ==
    ASSUME NEW h \in HashTables, NEW i \in DOMAIN h, NEW e \in Entries
    PROVE  LET g == [h EXCEPT ![i] = e]
           IN  /\ g \in HashTables /\ DOMAIN g = DOMAIN h /\ Size(g) = Size(h)
               /\ g[i] = e /\ \A j \in DOMAIN h : j # i => g[j] = h[j]
<1> DEFINE g == [h EXCEPT ![i] = e]
           c == Size(h)
<1>1. c \in Nat /\ c > 1 /\ DOMAIN h = 0 .. (c - 1) /\ h \in [DOMAIN h -> Entries]
  BY TableShape
<1>2. /\ DOMAIN g = DOMAIN h /\ g \in [DOMAIN h -> Entries]
      /\ g[i] = e /\ \A j \in DOMAIN h : j # i => g[j] = h[j]
  BY <1>1
<1>3. c \in Nat \ {0, 1}
  BY <1>1
<1>4. g \in [0 .. (c - 1) -> Entries]
  BY <1>1, <1>2
<1> HIDE DEF g, c
<1>5. g \in HashTables
  BY <1>3, <1>4 DEF HashTables
<1>6. Size(g) = Size(h)
  BY <1>2 DEF Size
<1> QED
  BY <1>2, <1>5, <1>6 DEF g

\* A thread takes a free slot.
LEMMA EnterKeeps == ASSUME HashInv, NEW t \in Senders, EnterKey(t) PROVE HashInv'
<1> DEFINE w == [send[t] EXCEPT !.pc = "enqueue"]
           n == send[t].main
           h == tables[n]
           i == Vacant(t, h)
           g == [h EXCEPT ![i] = EntryOf(t)]
<1>1. /\ send[t].pc = "enter" /\ send[t] \in SendRec /\ resizing \in BOOLEAN
      /\ UNCHANGED <<hashCount, resizing, producers, used>>
  BY DEF EnterKey, Is, HashInv, HashType
<1>2. /\ used[t] \subseteq {Named(t)} /\ t \in Made /\ n \in 1 .. Len(tables) /\ n \notin Own(t)
      /\ send[t].own = Named(t)
  BY <1>1 DEF HashInv, SenderInv
<1>3. /\ h \in HashTables /\ \A j \in DOMAIN h : h[j] \in Entries
  BY <1>2, TableN DEF HashInv
<1>4. i \in DOMAIN h /\ h[i] = Free
  BY <1>2, <1>3, FreeSlot, VacantFree
<1>5. send' = [send EXCEPT ![t] = w]
  BY DEF EnterKey, To, HashInv, HashType
<1>6. tables' = [tables EXCEPT ![n] = g]
  BY <1>2 DEF EnterKey, Enter, EntryOf
<1>7. w \in SendRec /\ w.pc = "enqueue" /\ w.own = Named(t)
  BY <1>1, <1>2 DEF SendRec, Counting
<1> HIDE DEF w
<1>8. /\ send'[t] = w /\ \A u \in Senders : u # t => send'[u] = send[u]
      /\ send' \in [Senders -> SendRec]
  BY <1>5, <1>7 DEF HashInv, HashType
<1>9. w.pc \notin Counting \cup Resizing /\ send[t].pc \notin Counting
  BY <1>1, <1>7 DEF Counting, Resizing
<1>10. /\ g \in HashTables /\ DOMAIN g = DOMAIN h /\ Size(g) = Size(h)
       /\ g[i] = EntryOf(t) /\ \A j \in DOMAIN h : j # i => g[j] = h[j]
  BY <1>3, <1>4, EntryKinds, EntryAdded
<1> HIDE DEF g, i
<1>11. /\ tables' \in Seq(HashTables) /\ Len(tables') = Len(tables) /\ tables'[n] = g
       /\ \A m \in 1 .. Len(tables) : m # n => tables'[m] = tables[m]
       /\ Len(tables) \in Nat
  BY <1>2, <1>6, <1>10 DEF HashInv, HashType
<1>12. \A m \in 1 .. Len(tables) : Size(tables'[m]) = Size(tables[m])
  BY <1>10, <1>11
<1>13. ASSUME NEW u \in Senders, u # t PROVE Own(u)' = Own(u)
  <2>1. Slots(u, g) = Slots(u, h)
    BY <1>4, <1>10, <1>13, EntryKinds DEF Slots
  <2>2. \A m \in 1 .. Len(tables) : Slots(u, tables'[m]) = Slots(u, tables[m])
    BY <1>11, <2>1
  <2> QED
    BY <1>11, <2>2 DEF Own
<1>14. Own(t)' = Own(t) \cup {n}
  <2>1. Slots(t, g) # {}
    BY <1>4, <1>10, EntryKinds DEF Slots
  <2>2. \A m \in 1 .. Len(tables) : m # n => tables'[m] = tables[m]
    BY <1>11
  <2> QED
    BY <1>2, <1>11, <2>1, <2>2 DEF Own
<1>15. Made' = Made
  BY <1>1 DEF Made
<1>16. Counted' = Counted
  BY <1>8, <1>9 DEF Counted
<1>17. HashType'
  BY <1>1, <1>8, <1>11 DEF HashInv, HashType
<1>18. TablesInv'
  <2>1. \A a, b \in 1 .. Len(tables) : a <= b => Size(tables'[a]) <= Size(tables'[b])
    BY <1>12 DEF HashInv, TablesInv
  <2>2. ASSUME NEW a \in DOMAIN g, NEW b \in DOMAIN g, g[a].key = g[b].key, g[a] # Free
        PROVE  a = b
    <3>1. \A j \in DOMAIN h : h[j].key # t
      BY <1>2 DEF Own, Slots
    <3>2. CASE a = i \/ b = i
      BY <1>10, <2>2, <3>1, <3>2, EntryKinds
    <3>3. CASE a # i /\ b # i
      BY <1>2, <1>10, <2>2, <3>3 DEF HashInv, TablesInv
    <3> QED
      BY <3>2, <3>3
  <2>3. ASSUME NEW m \in 1 .. Len(tables), NEW a \in DOMAIN tables'[m], NEW b \in DOMAIN tables'[m],
               tables'[m][a].key = tables'[m][b].key, tables'[m][a] # Free
        PROVE  a = b
    <3>1. CASE m = n
      BY <1>11, <2>2, <2>3, <3>1
    <3>2. CASE m # n
      BY <1>11, <2>3, <3>2 DEF HashInv, TablesInv
    <3> QED
      BY <3>1, <3>2
  <2> QED
    BY <1>11, <2>1, <2>3 DEF TablesInv
<1>19. ResizeInv'
  <2>1. \A u \in Senders : send'[u].pc \in Resizing => send'[u] = send[u]
    BY <1>8, <1>9
  <2>2. \A u \in Senders : send'[u].pc = "double" => send'[u] = send[u]
    BY <1>7, <1>8
  <2>3. Size(tables'[Len(tables')]) = Size(tables[Len(tables)])
    BY <1>11, <1>12 DEF HashInv, HashType
  <2>4. resizing' = resizing
    BY <1>1
  <2> QED
    BY <2>1, <2>2, <2>3, <2>4, Zenon DEF HashInv, ResizeInv
<1>20. CountInv'
  <2>1. ASSUME NEW m \in 1 .. Len(tables), NEW u \in Settled(m)' PROVE u \in Settled(m)
    <3>1. u \in Made /\ u \in Senders
      BY <1>15, <2>1 DEF Settled, Made
    <3>2. \/ \E a \in Own(u)' : a <= m
          \/ send'[u].pc = "enter" /\ send'[u].main <= m
      BY <2>1 DEF Settled
    <3>3. CASE u # t
      BY <1>8, <1>13, <3>1, <3>2, <3>3 DEF Settled
    <3>4. CASE u = t
      BY <1>1, <1>7, <1>8, <1>14, <3>1, <3>2, <3>4 DEF Settled
    <3> QED
      BY <3>3, <3>4
  <2>2. \A k : Early(k)' = Early(k)
    BY <1>8, <1>9, <1>16 DEF Early, Counted
  <2>3. hashCount' = Cardinality(Made' \cup Counted')
    BY <1>1, <1>15, <1>16 DEF HashInv, CountInv
  <2> QED
    BY <1>11, <1>12, <2>1, <2>2, <2>3, CrowdKeeps
<1>21. SenderInv(t)'
  BY <1>1, <1>2, <1>7, <1>8, <1>9, <1>14, <1>15 DEF SenderInv
<1>22. ASSUME NEW u \in Senders, u # t PROVE SenderInv(u)'
  BY <1>1, <1>8, <1>11, <1>13, <1>15, <1>22, OthersKeep DEF HashInv
<1> QED
  BY <1>17, <1>18, <1>19, <1>20, <1>21, <1>22 DEF HashInv

\* A larger table becomes the current one.
LEMMA NewTableKeeps == ASSUME HashInv, NEW t \in Senders, NewTable(t) PROVE HashInv'
<1> DEFINE L == Len(tables)
           c == send[t].cap
           g == EmptyTable(c)
           w == [send[t] EXCEPT !.main = L + 1, !.pc = "clear"]
<1>1. /\ send[t].pc = "double" /\ send[t] \in SendRec /\ resizing \in BOOLEAN
      /\ L \in Nat /\ L > 0 /\ L \in 1 .. L /\ tables' = Append(tables, g)
      /\ UNCHANGED <<hashCount, resizing, producers, used>>
  BY DEF NewTable, Is, HashInv, HashType
<1>2. /\ used[t] \subseteq {Named(t)} /\ t \notin Made /\ Own(t) = {}
  BY <1>1 DEF HashInv, SenderInv, Counting
<1>3. Size(tables[L]) \in Nat /\ Size(tables[L]) > 1
  BY <1>1, TableN DEF HashInv
<1>4. c \in Nat /\ c > 1 /\ Size(tables[L]) <= c
  <2>1. c \in Nat
    BY <1>1 DEF SendRec
  <2>2. c >= Size(tables[L])
    BY <1>1 DEF HashInv, ResizeInv
  <2> QED
    BY <1>3, <2>1, <2>2
<1>5. g \in HashTables /\ Size(g) = c /\ \A i \in DOMAIN g : g[i] = Free
  BY <1>4, NewShape
<1>6. send' = [send EXCEPT ![t] = w]
  BY DEF NewTable, HashInv, HashType
<1>7. w \in SendRec /\ w.pc = "clear" /\ w.main = L + 1 /\ w.count = send[t].count
  <2>1. send[t] \in SendRec /\ L + 1 \in Nat
    BY <1>1
  <2> QED
    BY <2>1 DEF SendRec, Counting
<1> HIDE DEF w, g, c
<1>8. /\ send'[t] = w /\ \A u \in Senders : u # t => send'[u] = send[u]
      /\ send' \in [Senders -> SendRec]
  BY <1>6, <1>7 DEF HashInv, HashType
<1>9. /\ w.pc \in Counting /\ send[t].pc \in Counting /\ send[t].pc \in Resizing
  BY <1>1, <1>7 DEF Counting, Resizing
<1>10. /\ tables' \in Seq(HashTables) /\ Len(tables') = L + 1 /\ tables'[L + 1] = g
       /\ \A m \in 1 .. L : tables'[m] = tables[m]
       /\ L + 1 \in Nat /\ \A m \in 1 .. (L + 1) : m = L + 1 \/ m \in 1 .. L
       /\ \A m \in 1 .. L : m \in 1 .. (L + 1)
  BY <1>1, <1>5 DEF HashInv, HashType
<1>11. ASSUME NEW u \in Senders PROVE Own(u)' = Own(u)
  <2>1. Slots(u, g) = {}
    BY <1>5, EntryKinds DEF Slots
  <2>2. \A m \in 1 .. (L + 1) : Slots(u, tables'[m]) # {} <=> m \in 1 .. L /\ Slots(u, tables[m]) # {}
    BY <1>10, <2>1
  <2> QED
    BY <1>10, <2>2 DEF Own
<1>12. Made' = Made
  BY <1>1 DEF Made
<1>13. Counted' = Counted
  BY <1>8, <1>9 DEF Counted
<1>14. HashType'
  BY <1>1, <1>8, <1>10 DEF HashInv, HashType
<1>15. ASSUME NEW m \in 1 .. L PROVE Size(tables[m]) <= Size(tables[L]) /\ Size(tables[m]) \in Nat
  <2>1. m <= L
    BY <1>1
  <2> QED
    BY <1>1, <2>1, TableN DEF HashInv, TablesInv
<1>16. TablesInv'
  <2>1. ASSUME NEW a \in 1 .. (L + 1), NEW b \in 1 .. (L + 1), a <= b
        PROVE  Size(tables'[a]) <= Size(tables'[b])
    <3>1. CASE b \in 1 .. L
      <4>1. a \in 1 .. L
        BY <1>1, <2>1, <3>1
      <4> QED
        BY <1>10, <2>1, <3>1, <4>1 DEF HashInv, TablesInv
    <3>2. CASE b = L + 1 /\ a = L + 1
      BY <1>4, <1>5, <1>10, <3>2
    <3>3. CASE b = L + 1 /\ a \in 1 .. L
      BY <1>3, <1>4, <1>5, <1>10, <1>15, <3>3
    <3> QED
      BY <1>10, <3>1, <3>2, <3>3
  <2>2. \A m \in 1 .. (L + 1) : \A i, j \in DOMAIN tables'[m] :
           tables'[m][i].key = tables'[m][j].key /\ tables'[m][i] # Free => i = j
    BY <1>5, <1>10 DEF HashInv, TablesInv
  <2> QED
    BY <1>10, <2>1, <2>2 DEF TablesInv
<1>17. ResizeInv'
  <2>1. resizing /\ w.pc # "double"
    BY <1>1, <1>7, <1>9, Zenon DEF HashInv, ResizeInv
  <2>2. FlagKept(t, w)
    BY <1>1, <1>6, <1>9, <2>1 DEF FlagKept
  <2> QED
    BY <2>2, FlagKeeps
<1>18. CountInv'
  <2>1. ASSUME NEW n \in 1 .. (L + 1), NEW m \in 1 .. L, m = n \/ (m = L /\ n = L + 1)
        PROVE  Settled(n)' \subseteq Settled(m)
    <3> SUFFICES ASSUME NEW u \in Settled(n)' PROVE u \in Settled(m)
      OBVIOUS
    <3>1. u \in Made /\ u \in Senders /\ u # t
      BY <1>2, <1>12 DEF Settled, Made
    <3>2. \/ \E a \in Own(u) : a <= n
          \/ send[u].pc = "enter" /\ send[u].main <= n
      BY <1>8, <1>11, <3>1 DEF Settled
    <3>3. Own(u) \subseteq 1 .. L /\ (send[u].pc = "enter" => send[u].main \in 1 .. L)
      BY <3>1 DEF Own, HashInv, SenderInv
    <3>4. \A a \in 1 .. L : a <= n => a <= m
      BY <1>1, <2>1
    <3> QED
      BY <3>1, <3>2, <3>3, <3>4 DEF Settled
  <2>2. \A k : Early(k)' = Early(k)
    BY <1>7, <1>8, <1>13 DEF Early, Counted
  <2>3. ASSUME NEW n \in 1 .. (L + 1), NEW k \in Nat, k >= Limit(Size(tables'[n]))
        PROVE  Uncrowded(n, k)'
    <3>1. PICK m \in 1 .. L : /\ m = n \/ (m = L /\ n = L + 1)
                             /\ Size(tables[m]) <= Size(tables'[n])
                             /\ Size(tables'[n]) \in Nat
      <4>1. CASE n \in 1 .. L
        BY <1>10, <1>15, <4>1
      <4>2. CASE n = L + 1
        BY <1>1, <1>4, <1>5, <1>10, <4>2
      <4> QED
        BY <1>10, <4>1, <4>2
    <3>2. Size(tables[m]) \in Nat /\ Size(tables[m]) > 1
      BY TableN DEF HashInv
    <3>3. /\ Limit(Size(tables[m])) <= Limit(Size(tables'[n]))
          /\ Limit(Size(tables[m])) \in Nat /\ Limit(Size(tables'[n])) \in Nat
      <4>1. Size(tables'[n]) > 1
        BY <3>1, <3>2
      <4> QED
        BY <3>1, <3>2, <4>1, LimitMonotone
    <3>4. k >= Limit(Size(tables[m]))
      BY <2>3, <3>3
    <3> DEFINE S == Settled(m) \cup Early(k)
               T == (Settled(n) \cup Early(k))'
    <3>5. Cardinality(S) <= k
      BY <3>4 DEF HashInv, CountInv, Uncrowded
    <3>6. S \in SUBSET Senders
      BY DEF Settled, Early, Made, Counted
    <3>7. T \in SUBSET S
      BY <2>1, <2>2, <3>1
    <3>8. Cardinality(S) \in Nat /\ Cardinality(T) \in Nat /\ Cardinality(T) <= Cardinality(S)
      BY <3>6, <3>7, ThreadsFinite
    <3>9. Cardinality(T) <= k
      BY <3>5, <3>8
    <3> QED
      BY <3>9 DEF Uncrowded
  <2>4. hashCount' = Cardinality(Made' \cup Counted')
    BY <1>1, <1>12, <1>13 DEF HashInv, CountInv
  <2> QED
    BY <1>10, <2>3, <2>4 DEF CountInv
<1>19. SenderInv(t)'
  <2>1. L + 1 \in 1 .. Len(tables')
    BY <1>1, <1>10
  <2>2. w.pc \notin {"add", "enter", "enqueue", "abandon"}
    BY <1>7
  <2> QED
    BY <1>1, <1>2, <1>7, <1>8, <1>11, <1>12, <2>1, <2>2 DEF SenderInv
<1>20. ASSUME NEW u \in Senders, u # t PROVE SenderInv(u)'
  <2>1. L <= Len(tables') /\ Len(tables') \in Nat
    BY <1>1, <1>10
  <2> QED
    BY <1>1, <1>8, <1>11, <1>12, <1>20, <2>1, OthersKeep DEF HashInv
<1> QED
  BY <1>14, <1>16, <1>17, <1>18, <1>19, <1>20 DEF HashInv

\* Every step of every thread.
LEMMA SenderKeeps == ASSUME HashInv, NEW t \in Senders, SenderStep(t) PROVE HashInv'
<1>1. CASE NoTable(t)
  <2>1. send[t].pc = "double" /\ Fails(t, "abandon")
    BY <1>1 DEF NoTable, Is
  <2> QED
    BY <2>1, FailsKeep DEF Counting, Resizing
<1>2. CASE NoProducer(t)
  <2>1. send[t].pc = "place" /\ Fails(t, "idle")
    BY <1>2 DEF NoProducer, Is
  <2> QED
    BY <2>1, FailsKeep DEF Counting, Resizing
<1> QED
  BY <1>1, <1>2, FindKeeps, EnterKeeps, CountKeeps, TryResizeKeeps, ResizeKeeps, DoubleKeeps,
     NewTableKeeps, DoneKeeps, AbandonKeeps, AddKeeps, WaitKeeps, PutKeeps DEF SenderStep

\* A step that changes nothing.
LEMMA HashStutters == ASSUME HashInv, UNCHANGED hashVars PROVE HashInv'
<1>1. UNCHANGED <<tables, hashCount, resizing, producers, send, used>>
  BY DEF hashVars
<1>2. Made' = Made /\ Counted' = Counted /\ \A u : Own(u)' = Own(u)
  BY <1>1 DEF Made, Counted, Own, Slots
<1>3. \A n, k : Uncrowded(n, k)' = Uncrowded(n, k)
  BY <1>1, <1>2 DEF Uncrowded, Settled, Early
<1>4. HashType' /\ TablesInv' /\ ResizeInv'
  BY <1>1 DEF HashInv, HashType, TablesInv, ResizeInv
<1>5. CountInv'
  BY <1>1, <1>2, <1>3 DEF HashInv, CountInv
<1>6. \A t \in Senders : SenderInv(t)'
  BY <1>1, <1>2 DEF HashInv, SenderInv
<1> QED
  BY <1>4, <1>5, <1>6 DEF HashInv

\* As many sub-queues as there are names, and no more than there are threads.
LEMMA ListOnce ==
    ASSUME HashInv
    PROVE  /\ Cardinality(ToSet(producers)) = Len(producers)
           /\ Len(producers) <= Cardinality(Senders)
<1> DEFINE L == Len(producers)
           D == 1 .. L
           f == [i \in D |-> producers[i]]
           m == [i \in D |-> producers[i][1]]
<1>1. /\ producers \in Seq(Names) /\ IsInjective(producers) /\ L \in Nat
      /\ DOMAIN producers = D
  BY DEF HashInv, HashType
<1>2. IsFiniteSet(D) /\ Cardinality(D) = L
  <2>1. 1 \in Int /\ L \in Int /\ (1 > L <=> L = 0) /\ L - 1 + 1 = L
    BY <1>1
  <2> QED
    BY <2>1, FS_Interval
<1>3. \A i \in D : producers[i] \in ToSet(producers) /\ producers[i] \in Names
  BY <1>1 DEF ToSet
<1>4. \A i, j \in D : producers[i] = producers[j] => i = j
  BY <1>1 DEF IsInjective
<1>5. Cardinality(ToSet(producers)) = L
  <2>1. f \in Injection(D, ToSet(producers))
    BY <1>3, <1>4 DEF Injection, IsInjective
  <2>2. f \in Surjection(D, ToSet(producers))
    BY <1>1, <1>3 DEF Surjection, ToSet
  <2>3. ExistsBijection(D, ToSet(producers))
    BY <2>1, <2>2 DEF ExistsBijection, Bijection
  <2> QED
    BY <1>2, <2>3, FS_Bijection
<1>6. L <= Cardinality(Senders)
  <2>1. \A i \in D : producers[i][1] \in Senders /\ producers[i] = Named(producers[i][1])
    BY <1>3 DEF Names, Named
  <2>2. m \in Injection(D, Senders)
    <3>1. m \in [D -> Senders]
      BY <2>1
    <3>2. \A i, j \in D : m[i] = m[j] => i = j
      BY <1>4, <2>1
    <3> QED
      BY <3>1, <3>2 DEF Injection, IsInjective
  <2> HIDE DEF m
  <2>3. Cardinality(D) <= Cardinality(Senders)
    BY <2>2, HashAssumption, FS_Injection
  <2> QED
    BY <1>2, <2>3
<1> QED
  BY <1>5, <1>6

\* Every thread has one sub-queue, its own, and every table a free slot at
\* which probing ends, for any number of threads that collide in any way and
\* any initial size, while the table grows and whatever allocation fails.
THEOREM OneEach == HashSpec => []OneProducerEach
<1>1. HashInit => HashInv
  BY HashStarts
<1>2. HashInv /\ [HashNext]_hashVars => HashInv'
  BY SenderKeeps, HashStutters DEF HashNext
<1>3. HashInv => OneProducerEach
  <2> SUFFICES ASSUME HashInv PROVE OneProducerEach
    OBVIOUS
  <2>1. \A t \in Senders : used[t] \subseteq {Named(t)}
    BY DEF HashInv, SenderInv
  <2>2. ASSUME NEW t \in Senders PROVE Cardinality(used[t]) <= 1
    <3>1. IsFiniteSet({Named(t)}) /\ Cardinality({Named(t)}) = 1
      BY FS_Singleton
    <3> QED
      BY <2>1, <3>1, FS_Subset
  <2>3. ASSUME NEW t \in Senders, NEW u \in Senders, t # u PROVE used[t] \cap used[u] = {}
    BY <2>1, <2>3 DEF Named
  <2> QED
    BY <2>2, <2>3, ListOnce, FreeSlot DEF OneProducerEach
<1> QED
  BY <1>1, <1>2, <1>3, PTL DEF HashSpec
-----------------------------------------------------------------------------
(***************************************************************************)
(* The blocks. Every block has a place, which the code does not write      *)
(* down: still in the pool ("pool"), in use ("use"), on the list ("list"), *)
(* to be put there by whoever lets go of it last ("wait"), or in the hands *)
(* of one thread, which adds it with nobody else near ("clear"), adds it   *)
(* with its count at one ("mark"), or has taken it ("taken"). Its count is *)
(* that of the threads which hold it and the unit of its place. Whoever    *)
(* holds a block keeps it from being added, so that its next pointer stays *)
(* as it was read.                                                         *)
(***************************************************************************)
Places == {"pool", "use", "wait", "list", "clear", "mark", "taken"}
AddPCs == {"add", "link", "count", "push", "back"}
FreePCs == {"idle", "pool", "load", "refs", "hold", "next", "take", "taken", "release",
            "create"} \cup AddPCs
FreeTypeOK ==
    /\ freeListHead \in 0 .. BlockCount
    /\ refs \in [Blocks -> Int] /\ users \in [Blocks -> Int]
    /\ nextFree \in [Blocks -> 0 .. BlockCount]
    /\ poolIndex \in Nat /\ created \in PoolSize .. BlockCount
    /\ fpc \in [Takers -> FreePCs]
    /\ cur \in [Takers -> 0 .. Outside] /\ node \in [Takers -> 0 .. BlockCount]
    /\ sawRefs \in [Takers -> Int] /\ link \in [Takers -> 0 .. BlockCount]

\* The threads that hold a reference to a block; the block a thread has for
\* itself, and the place that makes.
Holding(t, b) == \/ fpc[t] \in {"next", "take", "taken"} /\ cur[t] = b
                 \/ fpc[t] = "release" /\ node[t] = b
Holders(b) == {t \in Takers : Holding(t, b)}
Has(t, b) == \/ fpc[t] \in AddPCs /\ node[t] = b
             \/ fpc[t] = "taken" /\ cur[t] = b
PlaceBy(t) == IF fpc[t] \in {"add", "link", "count"} THEN "clear"
              ELSE IF fpc[t] = "taken" THEN "taken" ELSE "mark"
Out(b) == b <= created /\ (b > PoolSize \/ b <= poolIndex)
Unit(p) == CASE p \in {"pool", "use"} -> 0 [] p \in {"wait", "clear"} -> SHOULD [] OTHER -> 1

BlockIn(b, p) ==
    /\ p = "pool" <=> ~Out(b)
    /\ users[b] = IF p = "use" THEN 1 ELSE 0
    /\ refs[b] = Cardinality(Holders(b)) + Unit(p)
    /\ p \in {"pool", "clear"} => Holders(b) = {}
    /\ p = "wait" => Holders(b) # {}
    /\ p \in {"clear", "mark", "taken"} => \E t \in Takers : Has(t, b)
TakerIn(t, pl) ==
    /\ fpc[t] \in {"refs", "hold", "next", "take", "taken"} => cur[t] \in Blocks
    /\ fpc[t] \in AddPCs \cup {"release"} => node[t] \in Blocks
    /\ fpc[t] = "hold" => sawRefs[t] \notin {0, SHOULD}
    /\ fpc[t] = "take" => link[t] = nextFree[cur[t]]
    /\ fpc[t] \in {"count", "push"} => link[t] = nextFree[node[t]]
    /\ \A b \in Blocks : Has(t, b) => pl[b] = PlaceBy(t)
Alone == \A t, u \in Takers : \A b \in Blocks : Has(t, b) /\ Has(u, b) => t = u
Line(L) ==
    /\ freeListHead \in L \cup {0}
    /\ \A b \in L : nextFree[b] \in L \cup {0}
    /\ \A b \in L : nextFree[b] = freeListHead => freeListHead = 0
    /\ \A b, c \in L : nextFree[b] = nextFree[c] /\ nextFree[b] # 0 => b = c
    /\ \A S \in SUBSET Blocks : NextClosed(S) => L \subseteq S
InPlace(pl) ==
    /\ \A b \in Blocks : BlockIn(b, pl[b])
    /\ \A t \in Takers : TakerIn(t, pl)
    /\ Line({b \in Blocks : pl[b] = "list"})
FreeInv == FreeTypeOK /\ Alone /\ \E pl \in [Blocks -> Places] : InPlace(pl)

\* How many hold a block.
LEMMA HoldersFew ==
    ASSUME NEW b
    PROVE  /\ IsFiniteSet(Holders(b)) /\ Cardinality(Holders(b)) \in Nat
           /\ Cardinality(Holders(b)) + 2 < SHOULD
           /\ Holders(b) = {} <=> Cardinality(Holders(b)) = 0
<1>1. Holders(b) \in SUBSET Takers /\ IsFiniteSet(Takers)
  BY FreeListAssumption DEF Holders
<1>2. IsFiniteSet(Holders(b)) /\ Cardinality(Holders(b)) <= Cardinality(Takers)
  BY <1>1, FS_Subset
<1>3. Cardinality(Holders(b)) \in Nat /\ Cardinality(Takers) \in Nat
  BY <1>1, <1>2, FS_CardinalityType
<1>4. Holders(b) = {} <=> Cardinality(Holders(b)) = 0
  BY <1>2, FS_EmptySet
<1> QED
  BY <1>2, <1>3, <1>4, FreeListAssumption

\* A step of thread t leaves what the others have in hand.
Others(t) == \A u \in Takers : u # t =>
    /\ fpc'[u] = fpc[u] /\ cur'[u] = cur[u] /\ node'[u] = node[u]
    /\ sawRefs'[u] = sawRefs[u] /\ link'[u] = link[u]
Calm(t, b) ==
    /\ refs'[b] = refs[b] /\ users'[b] = users[b] /\ (Out(b)' <=> Out(b))
    /\ (Holding(t, b)' <=> Holding(t, b)) /\ (Has(t, b)' <=> Has(t, b))

\* What another thread holds and has is what it held and had.
LEMMA OthersSame ==
    ASSUME NEW t \in Takers, NEW u \in Takers, u # t, Others(t), NEW b
    PROVE  /\ Holding(u, b)' <=> Holding(u, b)
           /\ Has(u, b)' <=> Has(u, b)
           /\ PlaceBy(u)' = PlaceBy(u)
<1>1. fpc'[u] = fpc[u] /\ cur'[u] = cur[u] /\ node'[u] = node[u]
  BY DEF Others
<1>2. Holding(u, b)' <=> Holding(u, b)
  BY <1>1 DEF Holding
<1>3. Has(u, b)' <=> Has(u, b)
  BY <1>1 DEF Has
<1>4. PlaceBy(u)' = PlaceBy(u)
  BY <1>1 DEF PlaceBy
<1> QED
  BY <1>2, <1>3, <1>4

\* The holders of a block when one thread steps.
LEMMA HoldersStep ==
    ASSUME NEW t \in Takers, NEW b, Others(t)
    PROVE  LET n == Cardinality(Holders(b))
               m == Cardinality(Holders(b)')
           IN  /\ n \in Nat /\ m \in Nat
               /\ Holding(t, b) => n > 0
               /\ Holding(t, b)' => m > 0
               /\ Holding(t, b) /\ ~Holding(t, b)' => m = n - 1
               /\ ~Holding(t, b) /\ Holding(t, b)' => m = n + 1
               /\ (Holding(t, b) <=> Holding(t, b)') => Holders(b)' = Holders(b)
<1> DEFINE H == Holders(b)
           G == Holders(b)'
<1>1. \A u \in Takers : u # t => (u \in G <=> u \in H)
  BY OthersSame DEF Holders
<1>2. G \subseteq Takers /\ H \subseteq Takers /\ (t \in H <=> Holding(t, b)) /\ (t \in G <=> Holding(t, b)')
  BY DEF Holders
<1>3. IsFiniteSet(H) /\ IsFiniteSet(G)
  BY <1>2, FreeListAssumption, FS_Subset
<1>4. Cardinality(H) \in Nat /\ Cardinality(G) \in Nat
  BY <1>3, FS_CardinalityType
<1>5. (t \in H => Cardinality(H) # 0) /\ (t \in G => Cardinality(G) # 0)
  BY <1>3, FS_EmptySet
<1>6. ASSUME t \in H, t \notin G PROVE Cardinality(G) = Cardinality(H) - 1
  <2>1. G = H \ {t}
    BY <1>1, <1>2, <1>6
  <2> QED
    BY <2>1, <1>3, <1>6, FS_RemoveElement
<1>7. ASSUME t \notin H, t \in G PROVE Cardinality(G) = Cardinality(H) + 1
  <2>1. G = H \cup {t}
    BY <1>1, <1>2, <1>7
  <2> QED
    BY <2>1, <1>3, <1>7, FS_AddElement
<1>8. (t \in H <=> t \in G) => G = H
  BY <1>1, <1>2
<1> HIDE DEF H, G
<1> QED
  BY <1>2, <1>4, <1>5, <1>6, <1>7, <1>8 DEF H, G

\* A block that a step leaves alone is where it was.
LEMMA CalmBlock ==
    ASSUME NEW t \in Takers, NEW b \in Blocks, NEW p, Others(t), Calm(t, b), BlockIn(b, p)
    PROVE  BlockIn(b, p)'
<1>1. Holders(b)' = Holders(b)
  BY HoldersStep DEF Calm
<1>2. (\E u \in Takers : Has(u, b)) => \E u \in Takers : Has(u, b)'
  BY OthersSame DEF Calm
<1>3. Unit(p)' = Unit(p)
  BY DEF Unit
<1> QED
  BY <1>1, <1>2, <1>3 DEF BlockIn, Calm

(***************************************************************************)
(* What a step may do: leave a block alone, or move it, if no other thread *)
(* has it; set a next pointer nobody else relies on; keep the line.        *)
(***************************************************************************)
NotOthers(t, b) == \A u \in Takers : u # t => ~Has(u, b)
Moves(t, b, pl, pl2) ==
    /\ BlockIn(b, pl2[b])'
    /\ \/ pl2[b] = pl[b] /\ (Has(t, b)' <=> Has(t, b))
       \/ NotOthers(t, b)

\* Another thread finds what it knew, if no block it has is moved and no next
\* pointer it has read is changed.
LEMMA TakerKept ==
    ASSUME NEW t \in Takers, NEW u \in Takers, u # t, Others(t),
           NEW pl, NEW pl2, TakerIn(u, pl), FreeTypeOK,
           \A b \in Blocks : Has(u, b) => pl2[b] = pl[b],
           \A b \in Blocks : Has(u, b) \/ Holding(u, b) => nextFree'[b] = nextFree[b]
    PROVE  TakerIn(u, pl2)'
<1>1. /\ fpc'[u] = fpc[u] /\ cur'[u] = cur[u] /\ node'[u] = node[u]
      /\ sawRefs'[u] = sawRefs[u] /\ link'[u] = link[u]
  BY DEF Others
<1>2. ASSUME NEW b \in Blocks, Has(u, b)' PROVE pl2[b] = PlaceBy(u)'
  BY <1>2, OthersSame DEF TakerIn
<1>3. fpc[u] = "take" => cur[u] \in Blocks /\ Holding(u, cur[u])
  BY DEF TakerIn, Holding
<1>4. fpc[u] \in {"count", "push"} => node[u] \in Blocks /\ Has(u, node[u])
  BY DEF TakerIn, Has, AddPCs
<1>5. (fpc[u] = "take" => link[u] = nextFree'[cur[u]])
      /\ (fpc[u] \in {"count", "push"} => link[u] = nextFree'[node[u]])
  BY <1>3, <1>4 DEF TakerIn
<1> QED
  BY <1>1, <1>2, <1>5 DEF TakerIn, AddPCs

\* Such a step keeps the invariant.
LEMMA StepKeeps ==
    ASSUME FreeTypeOK, Alone, NEW pl \in [Blocks -> Places], InPlace(pl), FreeTypeOK',
           NEW t \in Takers, Others(t), NEW pl2 \in [Blocks -> Places],
           \A b \in Blocks : \/ Calm(t, b) /\ pl2[b] = pl[b]
                             \/ Moves(t, b, pl, pl2),
           \A b \in Blocks : \/ nextFree'[b] = nextFree[b]
                             \/ Holders(b) = {} /\ NotOthers(t, b),
           TakerIn(t, pl2)',
           Line({b \in Blocks : pl2[b] = "list"})'
    PROVE  FreeInv'
<1>1. ASSUME NEW b \in Blocks PROVE BlockIn(b, pl2[b])'
  <2>1. CASE Calm(t, b) /\ pl2[b] = pl[b]
    <3>1. BlockIn(b, pl[b])
      BY DEF InPlace
    <3> QED
      BY <2>1, <3>1, CalmBlock
  <2>2. CASE Moves(t, b, pl, pl2)
    BY <2>2 DEF Moves
  <2> QED
    BY <2>1, <2>2
<1>2. ASSUME NEW u \in Takers PROVE TakerIn(u, pl2)'
  <2>1. CASE u # t
    <3>1. TakerIn(u, pl)
      BY DEF InPlace
    <3>2. ASSUME NEW b \in Blocks, Has(u, b) PROVE pl2[b] = pl[b]
      BY <2>1, <3>2 DEF Moves, NotOthers
    <3>3. ASSUME NEW b \in Blocks, Has(u, b) \/ Holding(u, b) PROVE nextFree'[b] = nextFree[b]
      BY <2>1, <3>3 DEF NotOthers, Holders
    <3> QED
      BY <2>1, <3>1, <3>2, <3>3, TakerKept
  <2> QED
    BY <2>1
<1>3. Alone'
  <2> SUFFICES ASSUME NEW u \in Takers, NEW v \in Takers, NEW b \in Blocks,
                      Has(u, b)', Has(v, b)', u # v
               PROVE  FALSE
    BY DEF Alone
  <2>1. CASE u # t /\ v # t
    BY <2>1, OthersSame DEF Alone
  <2>2. ASSUME NEW w \in Takers, w # t, Has(w, b)', Has(t, b)' PROVE FALSE
    <3>1. Has(w, b)
      BY <2>2, OthersSame
    <3>2. Has(t, b)
      BY <2>2, <3>1 DEF Calm, Moves, NotOthers
    <3> QED
      BY <2>2, <3>1, <3>2 DEF Alone
  <2> QED
    BY <2>1, <2>2
<1>4. InPlace(pl2)'
  BY <1>1, <1>2 DEF InPlace
<1> QED
  BY <1>3, <1>4 DEF FreeInv

\* The line of free blocks when pointers outside of it change.
LEMMA LineSame ==
    ASSUME NEW L \in SUBSET Blocks, Line(L), freeListHead' = freeListHead,
           \A b \in L : nextFree'[b] = nextFree[b]
    PROVE  Line(L)'
<1>1. ASSUME NEW S \in SUBSET Blocks, NextClosed(S)' PROVE L \subseteq S
  <2>1. S \cap L \in SUBSET Blocks
    OBVIOUS
  <2>2. NextClosed(S \cap L)
    <3>1. freeListHead # 0 => freeListHead \in S \cap L
      BY <1>1 DEF NextClosed, Line
    <3>2. ASSUME NEW b \in S \cap L, nextFree[b] # 0 PROVE nextFree[b] \in S \cap L
      BY <1>1, <3>2 DEF NextClosed, Line
    <3> QED
      BY <3>1, <3>2 DEF NextClosed
  <2> QED
    BY <2>1, <2>2 DEF Line
<1> QED
  BY <1>1 DEF Line

\* The line without its first block.
LEMMA LinePop ==
    ASSUME FreeTypeOK, NEW L \in SUBSET Blocks, Line(L), NEW h \in Blocks,
           freeListHead = h, freeListHead' = nextFree[h], nextFree' = nextFree
    PROVE  h \in L /\ Line(L \ {h})'
<1> DEFINE M == L \ {h}
<1>0. 0 \notin Blocks
  BY DEF Blocks
<1>1. h \in L /\ \A b \in L : nextFree[b] # h
  BY <1>0 DEF Line
<1>3. freeListHead' \in M \cup {0} /\ \A b \in M : nextFree[b] \in M \cup {0}
  BY <1>1 DEF Line
<1>4. \A b \in M : nextFree[b] = freeListHead' => freeListHead' = 0
  BY <1>1 DEF Line
<1>5. \A b, c \in M : nextFree[b] = nextFree[c] /\ nextFree[b] # 0 => b = c
  BY DEF Line
<1>6. ASSUME NEW S \in SUBSET Blocks, NextClosed(S)' PROVE M \subseteq S
  <2>1. S \cup {h} \in SUBSET Blocks
    BY <1>1
  <2>2. NextClosed(S \cup {h})
    BY <1>6 DEF NextClosed
  <2>3. L \subseteq S \cup {h}
    BY <2>1, <2>2 DEF Line
  <2> QED
    BY <2>3
<1> QED
  BY <1>1, <1>3, <1>4, <1>5, <1>6 DEF Line

\* The line with one more block in front.
LEMMA LinePush ==
    ASSUME FreeTypeOK, NEW L \in SUBSET Blocks, Line(L), NEW n \in Blocks, n \notin L,
           nextFree[n] = freeListHead, freeListHead' = n, nextFree' = nextFree
    PROVE  Line(L \cup {n})'
<1> DEFINE M == L \cup {n}
<1>1. n # 0 /\ n # freeListHead
  BY DEF Blocks, Line
<1>2. freeListHead' \in M \cup {0} /\ \A b \in M : nextFree[b] \in M \cup {0}
  BY DEF Line
<1>3. \A b \in M : nextFree[b] # n
  BY <1>1 DEF Line
<1>4. \A b, c \in M : nextFree[b] = nextFree[c] /\ nextFree[b] # 0 => b = c
  BY DEF Line
<1>5. ASSUME NEW S \in SUBSET Blocks, NextClosed(S)' PROVE M \subseteq S
  <2>1. n \in S
    BY <1>1, <1>5 DEF NextClosed
  <2>2. NextClosed(S)
    BY <1>5, <2>1 DEF NextClosed
  <2> QED
    BY <2>1, <2>2 DEF Line
<1> QED
  BY <1>2, <1>3, <1>4, <1>5 DEF Line

\* What the line says of the list: it is the list.
LEMMA LineIsList ==
    ASSUME NEW L \in SUBSET Blocks, Line(L)
    PROVE  Listed = L
<1>1. NextClosed(L)
  BY DEF NextClosed, Line
<1>2. Listed \subseteq L
  BY <1>1 DEF Listed
<1>3. L \subseteq Listed
  BY DEF Listed, Line
<1> QED
  BY <1>2, <1>3

\* Numbers that are blocks, and one that is not.
LEMMA BlockNumbers ==
    /\ BlockCount \in Nat /\ PoolSize \in Nat /\ SHOULD \in Nat
    /\ 0 \notin Blocks /\ Outside \notin Blocks /\ Outside \in 0 .. Outside
    /\ \A n \in 0 .. BlockCount : n \in 0 .. Outside /\ (n # 0 => n \in Blocks)
    /\ \A n \in 0 .. Outside : n # 0 /\ n # Outside => n \in Blocks
    /\ Blocks \subseteq 0 .. BlockCount
  BY FreeListAssumption DEF Blocks, Outside

\* Where a thread has nothing in hand.
AwayPCs == {"idle", "pool", "load", "refs", "hold", "create"}
\* There it neither has nor holds a block.
LEMMA AwayHas ==
    ASSUME NEW t, NEW b
    PROVE  /\ fpc[t] \in AwayPCs => ~Has(t, b) /\ ~Holding(t, b)
           /\ fpc'[t] \in AwayPCs => ~Has(t, b)' /\ ~Holding(t, b)'
  BY DEF AwayPCs, Has, Holding, AddPCs

\* A thread has nothing in hand before and after its step.
LEMMA AwayKeeps ==
    ASSUME FreeTypeOK, Alone, NEW pl \in [Blocks -> Places], InPlace(pl), FreeTypeOK',
           NEW t \in Takers, Others(t), fpc[t] \in AwayPCs, fpc'[t] \in AwayPCs,
           UNCHANGED <<freeListHead, refs, nextFree, users>>,
           \A b \in Blocks : Out(b)' <=> Out(b),
           fpc'[t] \in {"refs", "hold"} => cur'[t] \in Blocks,
           fpc'[t] = "hold" => sawRefs'[t] \notin {0, SHOULD}
    PROVE  FreeInv'
<1>1. \A b \in Blocks : Calm(t, b)
  BY AwayHas DEF Calm
<1>2. TakerIn(t, pl)'
  <2>1. \A b \in Blocks : ~Has(t, b)'
    BY AwayHas
  <2> QED
    BY <2>1 DEF TakerIn, AwayPCs, AddPCs
<1>3. Line({b \in Blocks : pl[b] = "list"})'
  <2> DEFINE L == {b \in Blocks : pl[b] = "list"}
  <2>1. L \in SUBSET Blocks /\ Line(L)
    BY DEF InPlace
  <2> HIDE DEF L
  <2>2. Line(L)'
    BY <2>1, LineSame
  <2> QED
    BY <2>2 DEF L
<1> QED
  BY <1>1, <1>2, <1>3, StepKeeps

\* A look at the pool's index.
LEMMA TryPoolKeeps == ASSUME FreeInv, NEW t \in Takers, TryPool(t) PROVE FreeInv'
<1>1. PICK pl \in [Blocks -> Places] : InPlace(pl)
  BY DEF FreeInv
<1>2. fpc' = [fpc EXCEPT ![t] = IF poolIndex >= PoolSize THEN "load" ELSE "pool"]
      /\ UNCHANGED <<shared, cur, node, sawRefs, link>> /\ fpc[t] = "idle"
  BY DEF TryPool, Go, PcIs
<1>3. FreeTypeOK /\ FreeTypeOK' /\ Alone
  BY <1>2 DEF FreeInv, FreeTypeOK, shared, FreePCs
<1>4. Others(t)
  BY <1>2, <1>3 DEF Others, FreeTypeOK
<1>5. fpc'[t] \in {"load", "pool"}
  BY <1>2, <1>3 DEF FreeTypeOK
<1>6. \A b \in Blocks : Out(b)' <=> Out(b)
  BY <1>2 DEF Out, shared
<1> QED
  BY <1>1, <1>2, <1>3, <1>4, <1>5, <1>6, AwayKeeps DEF AwayPCs, shared

\* The head is a block, or 0.
LEMMA LoadHeadKeeps == ASSUME FreeInv, NEW t \in Takers, LoadHead(t) PROVE FreeInv'
<1>1. PICK pl \in [Blocks -> Places] : InPlace(pl)
  BY DEF FreeInv
<1>2. fpc' = [fpc EXCEPT ![t] = IF freeListHead = 0 THEN "create" ELSE "refs"]
      /\ cur' = [cur EXCEPT ![t] = freeListHead]
      /\ UNCHANGED <<shared, node, sawRefs, link>> /\ fpc[t] = "load"
  BY DEF LoadHead, Go, PcIs
<1>3. FreeTypeOK /\ FreeTypeOK' /\ Alone
  BY <1>2, BlockNumbers DEF FreeInv, FreeTypeOK, shared, FreePCs
<1>4. Others(t)
  BY <1>2, <1>3 DEF Others, FreeTypeOK
<1>5. fpc'[t] \in {"create", "refs"} /\ (fpc'[t] = "refs" => cur'[t] \in Blocks)
  BY <1>2, <1>3, BlockNumbers DEF FreeTypeOK
<1>6. \A b \in Blocks : Out(b)' <=> Out(b)
  BY <1>2 DEF Out, shared
<1> QED
  BY <1>1, <1>2, <1>3, <1>4, <1>5, <1>6, AwayKeeps DEF AwayPCs, shared

\* A count that is not all SHOULD_BE_ON_FREELIST is neither 0 nor that.
LEMMA LoadRefsKeeps == ASSUME FreeInv, NEW t \in Takers, LoadRefs(t) PROVE FreeInv'
<1>1. PICK pl \in [Blocks -> Places] : InPlace(pl)
  BY DEF FreeInv
<1>2. /\ fpc[t] = "refs" /\ UNCHANGED <<shared, cur, node, link>>
      /\ \/ fpc' = [fpc EXCEPT ![t] = "load"] /\ sawRefs' = sawRefs
         \/ /\ refs[cur[t]] % SHOULD # 0 /\ fpc' = [fpc EXCEPT ![t] = "hold"]
            /\ sawRefs' = [sawRefs EXCEPT ![t] = refs[cur[t]]]
  BY DEF LoadRefs, Go, PcIs
<1>3. FreeTypeOK /\ Alone /\ cur[t] \in Blocks
  BY <1>1, <1>2 DEF FreeInv, InPlace, TakerIn
<1>4. FreeTypeOK'
  BY <1>2, <1>3 DEF FreeTypeOK, shared, FreePCs
<1>5. Others(t)
  BY <1>2, <1>3 DEF Others, FreeTypeOK
<1>6. refs[cur[t]] % SHOULD # 0 => refs[cur[t]] \notin {0, SHOULD}
  <2>1. SHOULD \in Nat /\ SHOULD > 0
    BY HoldersFew, BlockNumbers
  <2>2. 0 % SHOULD = 0 /\ SHOULD % SHOULD = 0
    BY <2>1
  <2> QED
    BY <2>2
<1>7. /\ fpc'[t] \in {"load", "hold"} /\ cur'[t] \in Blocks
      /\ fpc'[t] = "hold" => sawRefs'[t] \notin {0, SHOULD}
  BY <1>2, <1>3, <1>6 DEF FreeTypeOK
<1>8. \A b \in Blocks : Out(b)' <=> Out(b)
  BY <1>2 DEF Out, shared
<1> QED
  BY <1>1, <1>2, <1>3, <1>4, <1>5, <1>7, <1>8, AwayKeeps DEF AwayPCs, shared

\* A block comes into use that nobody had before.
LEMMA NewBlockKeeps ==
    ASSUME FreeTypeOK, Alone, NEW pl \in [Blocks -> Places], InPlace(pl), FreeTypeOK',
           NEW t \in Takers, Others(t), fpc[t] \in AwayPCs, fpc'[t] = "idle",
           NEW n \in Blocks, ~Out(n), Out(n)',
           \A b \in Blocks : b # n => (Out(b)' <=> Out(b)),
           users' = [users EXCEPT ![n] = @ + 1],
           UNCHANGED <<freeListHead, refs, nextFree>>
    PROVE  FreeInv'
<1> DEFINE pl2 == [pl EXCEPT ![n] = "use"]
           L == {b \in Blocks : pl[b] = "list"}
<1>1. pl2 \in [Blocks -> Places] /\ pl[n] = "pool" /\ pl2[n] = "use"
      /\ \A b \in Blocks : b # n => pl2[b] = pl[b]
  BY DEF Places, InPlace, BlockIn
<1>2. \A b \in Blocks : ~Has(t, b) /\ ~Has(t, b)' /\ ~Holding(t, b) /\ ~Holding(t, b)'
  BY AwayHas DEF AwayPCs
<1> HIDE DEF pl2
<1>3. ASSUME NEW b \in Blocks, b # n PROVE Calm(t, b)
  BY <1>2, <1>3 DEF Calm, FreeTypeOK
<1>4. Moves(t, n, pl, pl2)
  <2>1. BlockIn(n, "pool")
    BY <1>1 DEF InPlace
  <2>2. Holders(n)' = Holders(n) /\ users'[n] = 1 /\ refs'[n] = refs[n]
    BY <1>2, <2>1, HoldersStep DEF BlockIn, FreeTypeOK
  <2>3. BlockIn(n, "use")'
    BY <2>1, <2>2 DEF BlockIn, Unit
  <2>4. NotOthers(t, n)
    BY <1>1 DEF NotOthers, InPlace, TakerIn, PlaceBy
  <2> QED
    BY <1>1, <2>3, <2>4 DEF Moves
<1>5. TakerIn(t, pl2)'
  BY <1>2 DEF TakerIn, AddPCs
<1>6. L \in SUBSET Blocks /\ Line(L) /\ L = {b \in Blocks : pl2[b] = "list"}
  BY <1>1 DEF InPlace
<1> HIDE DEF L
<1>7. Line(L)'
  BY <1>6, LineSame
<1>8. Line({b \in Blocks : pl2[b] = "list"})'
  BY <1>6, <1>7
<1> QED
  BY <1>1, <1>3, <1>4, <1>5, <1>8, StepKeeps

\* The pool's next block, or none.
LEMMA TakeFromPoolKeeps == ASSUME FreeInv, NEW t \in Takers, TakeFromPool(t) PROVE FreeInv'
<1>1. PICK pl \in [Blocks -> Places] : InPlace(pl)
  BY DEF FreeInv
<1>2. /\ fpc[t] = "pool" /\ poolIndex' = poolIndex + 1
      /\ UNCHANGED <<freeListHead, refs, nextFree, created, cur, node, sawRefs, link>>
  BY DEF TakeFromPool, PcIs
<1>3. FreeTypeOK /\ Alone /\ poolIndex \in Nat /\ created \in Nat /\ PoolSize <= created
      /\ created <= BlockCount
  BY BlockNumbers DEF FreeInv, FreeTypeOK
<1>4. CASE poolIndex < PoolSize /\ Use(poolIndex + 1) /\ Go(t, "idle")
  <2> DEFINE n == poolIndex + 1
  <2>1. n \in Blocks /\ ~Out(n) /\ \A b \in Blocks : b # n => (Out(b)' <=> Out(b))
    BY <1>2, <1>3, <1>4, BlockNumbers DEF Out, Blocks
  <2>2. n <= PoolSize /\ n <= poolIndex' /\ n <= created'
    BY <1>2, <1>3, <1>4, BlockNumbers
  <2>3. users' = [users EXCEPT ![n] = @ + 1] /\ fpc' = [fpc EXCEPT ![t] = "idle"]
    BY <1>4 DEF Use, Go
  <2>4. PICK m \in Blocks : m = n
    BY <2>1
  <2> HIDE DEF n
  <2>5. ~Out(m) /\ Out(m)' /\ \A b \in Blocks : b # m => (Out(b)' <=> Out(b))
    BY <2>1, <2>2, <2>4 DEF Out
  <2>6. users' = [users EXCEPT ![m] = @ + 1]
    BY <2>3, <2>4
  <2>7. FreeTypeOK' /\ Others(t) /\ fpc'[t] = "idle"
    BY <1>2, <1>3, <2>3, <2>6 DEF FreeTypeOK, FreePCs, Others
  <2> QED
    BY <1>1, <1>2, <1>3, <2>4, <2>5, <2>6, <2>7, NewBlockKeeps DEF AwayPCs
<1>5. CASE poolIndex >= PoolSize /\ Go(t, "load") /\ UNCHANGED users
  <2>1. \A b \in Blocks : Out(b)' <=> Out(b)
    BY <1>2, <1>3, <1>5, BlockNumbers DEF Out, Blocks
  <2>2. FreeTypeOK' /\ Others(t) /\ fpc'[t] = "load"
    BY <1>2, <1>3, <1>5 DEF FreeTypeOK, FreePCs, Others, Go
  <2> QED
    BY <1>1, <1>2, <1>3, <1>5, <2>1, <2>2, AwayKeeps DEF AwayPCs
<1> QED
  BY <1>4, <1>5 DEF TakeFromPool

\* A block from the allocator, or none.
LEMMA CreateKeeps == ASSUME FreeInv, NEW t \in Takers, CreateBlock(t) PROVE FreeInv'
<1>1. PICK pl \in [Blocks -> Places] : InPlace(pl)
  BY DEF FreeInv
<1>2. /\ fpc[t] = "create" /\ fpc' = [fpc EXCEPT ![t] = "idle"]
      /\ cur' = [cur EXCEPT ![t] = Outside]
      /\ UNCHANGED <<freeListHead, refs, nextFree, poolIndex, node, sawRefs, link>>
  BY DEF CreateBlock, PcIs, Go
<1>3. FreeTypeOK /\ Alone /\ poolIndex \in Nat /\ created \in Nat /\ PoolSize <= created
      /\ created <= BlockCount
  BY BlockNumbers DEF FreeInv, FreeTypeOK
<1>4. Others(t) /\ fpc'[t] = "idle"
  BY <1>2, <1>3 DEF Others, FreeTypeOK
<1>5. CASE created < BlockCount /\ created' = created + 1 /\ Use(created + 1)
  <2>1. created + 1 \in Blocks
    BY <1>3, <1>5, BlockNumbers DEF Blocks
  <2>2. PICK m \in Blocks : m = created + 1
    BY <2>1
  <2>3. ~Out(m) /\ Out(m)' /\ \A b \in Blocks : b # m => (Out(b)' <=> Out(b))
    BY <1>2, <1>3, <1>5, <2>2, BlockNumbers DEF Out, Blocks
  <2>4. users' = [users EXCEPT ![m] = @ + 1]
    BY <1>5, <2>2 DEF Use
  <2>5. created' \in PoolSize .. BlockCount
    BY <1>3, <1>5, BlockNumbers
  <2>6. FreeTypeOK'
    BY <1>2, <1>3, <2>4, <2>5, BlockNumbers DEF FreeTypeOK, FreePCs
  <2> QED
    BY <1>1, <1>2, <1>3, <1>4, <2>3, <2>4, <2>6, NewBlockKeeps DEF AwayPCs
<1>6. CASE UNCHANGED <<created, users>>
  <2>1. \A b \in Blocks : Out(b)' <=> Out(b)
    BY <1>2, <1>6 DEF Out
  <2>2. FreeTypeOK'
    BY <1>2, <1>3, <1>6, BlockNumbers DEF FreeTypeOK, FreePCs
  <2> QED
    BY <1>1, <1>2, <1>3, <1>4, <1>6, <2>1, <2>2, AwayKeeps DEF AwayPCs
<1> QED
  BY <1>5, <1>6 DEF CreateBlock

\* Who has a block has it alone.
LEMMA HadAlone ==
    ASSUME Alone, NEW t \in Takers, NEW b \in Blocks, Has(t, b)
    PROVE  NotOthers(t, b)
  BY DEF Alone, NotOthers

\* Nobody has a block whose place is in no thread's hands.
LEMMA NotHad ==
    ASSUME NEW pl \in [Blocks -> Places], InPlace(pl), NEW b \in Blocks,
           pl[b] \notin {"clear", "mark", "taken"}
    PROVE  \A u \in Takers : ~Has(u, b)
  BY DEF InPlace, TakerIn, PlaceBy

\* The thread goes on with what it has in hand; it may set the next pointer of
\* a block that only it can see.
LEMMA InHandKeeps ==
    ASSUME FreeTypeOK, Alone, NEW pl \in [Blocks -> Places], InPlace(pl), FreeTypeOK',
           NEW t \in Takers, Others(t),
           UNCHANGED <<freeListHead, refs, users, poolIndex, created>>,
           \A b \in Blocks : (Holding(t, b)' <=> Holding(t, b)) /\ (Has(t, b)' <=> Has(t, b)),
           \A b \in Blocks : nextFree'[b] = nextFree[b] \/ (Has(t, b) /\ pl[b] = "clear"),
           TakerIn(t, pl)'
    PROVE  FreeInv'
<1> DEFINE L == {b \in Blocks : pl[b] = "list"}
<1>1. \A b \in Blocks : Calm(t, b)
  BY DEF Calm, Out
<1>2. \A b \in Blocks : pl[b] = "clear" => Holders(b) = {}
  BY DEF InPlace, BlockIn
<1>3. \A b \in Blocks : nextFree'[b] = nextFree[b] \/ (Holders(b) = {} /\ NotOthers(t, b))
  BY <1>2, HadAlone
<1>4. L \in SUBSET Blocks /\ Line(L) /\ \A b \in L : nextFree'[b] = nextFree[b]
  BY DEF InPlace
<1> HIDE DEF L
<1>5. Line(L)'
  BY <1>4, LineSame
<1>6. Line({b \in Blocks : pl[b] = "list"})'
  BY <1>5 DEF L
<1> QED
  BY <1>1, <1>3, <1>6, StepKeeps

\* A block changes its place, not from and not to the list.
LEMMA PlaceKeeps ==
    ASSUME FreeTypeOK, Alone, NEW pl \in [Blocks -> Places], InPlace(pl), FreeTypeOK',
           NEW t \in Takers, Others(t), UNCHANGED <<freeListHead, nextFree>>,
           NEW n \in Blocks, NEW q \in Places, pl[n] # "list", q # "list",
           \A b \in Blocks : b # n => Calm(t, b),
           BlockIn(n, q)', NotOthers(t, n), TakerIn(t, [pl EXCEPT ![n] = q])'
    PROVE  FreeInv'
<1> DEFINE pl2 == [pl EXCEPT ![n] = q]
           L == {b \in Blocks : pl[b] = "list"}
<1>1. pl2 \in [Blocks -> Places] /\ pl2[n] = q /\ \A b \in Blocks : b # n => pl2[b] = pl[b]
  OBVIOUS
<1>2. TakerIn(t, pl2)'
  OBVIOUS
<1> HIDE DEF pl2
<1>3. Moves(t, n, pl, pl2)
  BY <1>1 DEF Moves
<1>4. L \in SUBSET Blocks /\ Line(L) /\ L = {b \in Blocks : pl2[b] = "list"}
  BY <1>1 DEF InPlace
<1> HIDE DEF L
<1>5. Line(L)'
  BY <1>4, LineSame
<1>6. Line({b \in Blocks : pl2[b] = "list"})'
  BY <1>4, <1>5
<1> QED
  BY <1>1, <1>2, <1>3, <1>6, StepKeeps

\* A reference to a block is taken or let go, and the block stays where it is.
LEMMA RefKeeps ==
    ASSUME FreeTypeOK, Alone, NEW pl \in [Blocks -> Places], InPlace(pl), FreeTypeOK',
           NEW t \in Takers, Others(t), NEW n \in Blocks,
           \A b \in Blocks : b # n => Calm(t, b),
           UNCHANGED <<freeListHead, nextFree, users, poolIndex, created>>,
           refs'[n] - refs[n] = Cardinality(Holders(n)') - Cardinality(Holders(n)),
           pl[n] \notin {"pool", "clear"},
           pl[n] = "wait" => Holders(n)' # {},
           Has(t, n)' <=> Has(t, n), TakerIn(t, pl)'
    PROVE  FreeInv'
<1> DEFINE p == pl[n]
           L == {b \in Blocks : pl[b] = "list"}
<1>1. BlockIn(n, p)
  BY DEF InPlace
<1>2. refs'[n] = Cardinality(Holders(n)') + Unit(p)
  <2>1. /\ Unit(p) \in Int /\ refs[n] \in Int /\ refs'[n] \in Int
        /\ refs[n] = Cardinality(Holders(n)) + Unit(p)
    BY <1>1, BlockNumbers DEF BlockIn, Unit, FreeTypeOK
  <2> DEFINE k == Cardinality(Holders(n))
             m == Cardinality(Holders(n)')
             a == refs[n]
             z == refs'[n]
             u == Unit(p)
  <2>2. k \in Nat /\ m \in Nat
    BY HoldersStep
  <2>3. a \in Int /\ z \in Int /\ u \in Int /\ a = k + u /\ z - a = m - k
    BY <2>1
  <2> HIDE DEF k, m, a, z, u
  <2>4. z = m + u
    BY <2>2, <2>3
  <2> QED
    BY <2>4 DEF m, u, z
<1>3. (\E u \in Takers : Has(u, n)) => \E u \in Takers : Has(u, n)'
  BY OthersSame
<1>4. Unit(p)' = Unit(p) /\ (Out(n)' <=> Out(n))
  BY DEF Unit, Out
<1>5. BlockIn(n, p)'
  BY <1>1, <1>2, <1>3, <1>4 DEF BlockIn
<1>6. Moves(t, n, pl, pl)
  BY <1>5 DEF Moves
<1>7. L \in SUBSET Blocks /\ Line(L)
  BY DEF InPlace
<1> HIDE DEF L
<1>8. Line(L)'
  BY <1>7, LineSame
<1>9. Line({b \in Blocks : pl[b] = "list"})' /\ \A b \in Blocks : nextFree'[b] = nextFree[b]
  BY <1>8 DEF L
<1> QED
  BY <1>6, <1>9, StepKeeps

\* A reference is only taken to a block that has one.
LEMMA HoldHeadKeeps == ASSUME FreeInv, NEW t \in Takers, HoldHead(t) PROVE FreeInv'
<1>1. PICK pl \in [Blocks -> Places] : InPlace(pl)
  BY DEF FreeInv
<1>2. /\ fpc[t] = "hold" /\ sawRefs' = [sawRefs EXCEPT ![t] = 0]
      /\ UNCHANGED <<freeListHead, nextFree, poolIndex, created, users, cur, node, link>>
  BY DEF HoldHead, PcIs
<1>3. /\ FreeTypeOK /\ Alone /\ cur[t] \in Blocks /\ sawRefs[t] \notin {0, SHOULD}
      /\ fpc \in [Takers -> FreePCs]
  BY <1>1, <1>2 DEF FreeInv, InPlace, TakerIn, FreeTypeOK
<1>4. PICK c \in Blocks : c = cur[t]
  BY <1>3
<1>5. \A b \in Blocks : Out(b)' <=> Out(b)
  BY <1>2 DEF Out
<1>6. CASE refs[cur[t]] = sawRefs[t] /\ refs' = [refs EXCEPT ![cur[t]] = @ + 1] /\ Go(t, "next")
  <2>1. /\ refs' = [refs EXCEPT ![c] = @ + 1] /\ refs[c] \notin {0, SHOULD}
        /\ fpc' = [fpc EXCEPT ![t] = "next"] /\ cur'[t] = c
    BY <1>2, <1>3, <1>4, <1>6 DEF Go
  <2>2. FreeTypeOK' /\ Others(t) /\ fpc'[t] = "next"
    BY <1>2, <1>3, <2>1 DEF FreeTypeOK, FreePCs, Others
  <2>3. /\ \A b \in Blocks : ~Has(t, b) /\ ~Has(t, b)' /\ ~Holding(t, b)
        /\ \A b \in Blocks : Holding(t, b)' <=> b = c
    BY <1>2, <2>1, <2>2 DEF Has, Holding, AddPCs
  <2>4. ASSUME NEW b \in Blocks, b # c PROVE Calm(t, b)
    BY <1>2, <1>3, <1>5, <2>1, <2>3, <2>4 DEF Calm, FreeTypeOK
  <2>5. /\ Cardinality(Holders(c)') = Cardinality(Holders(c)) + 1
        /\ Cardinality(Holders(c)) \in Nat /\ Cardinality({}) = 0
    BY <2>2, <2>3, HoldersStep, FS_EmptySet
  <2>6. pl[c] \notin {"pool", "clear"}
    <3>1. BlockIn(c, pl[c])
      BY <1>1 DEF InPlace
    <3> QED
      BY <2>1, <2>5, <3>1, BlockNumbers DEF BlockIn, Unit
  <2>7. refs'[c] - refs[c] = Cardinality(Holders(c)') - Cardinality(Holders(c)) /\ Holders(c)' # {}
    <3> DEFINE k == Cardinality(Holders(c))
               m == Cardinality(Holders(c)')
               a == refs[c]
               z == refs'[c]
    <3>1. z = a + 1 /\ a \in Int
      BY <1>3, <2>1 DEF FreeTypeOK
    <3>2. m = k + 1 /\ k \in Nat
      BY <2>5
    <3>3. Holders(c)' = {} => m = 0
      BY <2>5
    <3> HIDE DEF k, m, a, z
    <3>4. z - a = m - k /\ m # 0
      BY <3>1, <3>2
    <3> QED
      BY <3>3, <3>4 DEF k, m, a, z
  <2>8. TakerIn(t, pl)'
    BY <2>1, <2>2, <2>3 DEF TakerIn, AddPCs
  <2> QED
    BY <1>1, <1>2, <1>3, <2>2, <2>3, <2>4, <2>6, <2>7, <2>8, RefKeeps
<1>7. CASE Go(t, "load") /\ UNCHANGED refs
  <2>1. FreeTypeOK' /\ Others(t) /\ fpc'[t] = "load"
    BY <1>2, <1>3, <1>7 DEF FreeTypeOK, FreePCs, Others, Go
  <2> QED
    BY <1>1, <1>2, <1>3, <1>5, <1>7, <2>1, AwayKeeps DEF AwayPCs
<1> QED
  BY <1>6, <1>7 DEF HoldHead

\* A next pointer is read while the block is held.
LEMMA LoadNextKeeps == ASSUME FreeInv, NEW t \in Takers, LoadNext(t) PROVE FreeInv'
<1>1. PICK pl \in [Blocks -> Places] : InPlace(pl)
  BY DEF FreeInv
<1>2. /\ fpc[t] = "next" /\ fpc' = [fpc EXCEPT ![t] = "take"]
      /\ link' = [link EXCEPT ![t] = nextFree[cur[t]]]
      /\ UNCHANGED <<shared, cur, node, sawRefs>>
  BY DEF LoadNext, PcIs, Go
<1>3. FreeTypeOK /\ Alone /\ cur[t] \in Blocks
  BY <1>1, <1>2 DEF FreeInv, InPlace, TakerIn
<1>4. FreeTypeOK' /\ Others(t) /\ fpc'[t] = "take" /\ link'[t] = nextFree[cur[t]]
  BY <1>2, <1>3 DEF FreeTypeOK, FreePCs, Others, shared
<1>5. \A b \in Blocks : (Holding(t, b)' <=> Holding(t, b)) /\ ~Has(t, b)' /\ ~Has(t, b)
  BY <1>2, <1>4 DEF Holding, Has, AddPCs
<1>6. TakerIn(t, pl)'
  BY <1>2, <1>3, <1>4, <1>5 DEF TakerIn, AddPCs, shared
<1> QED
  BY <1>1, <1>2, <1>3, <1>4, <1>5, <1>6, InHandKeeps DEF shared

\* The exchange succeeds: what the thread read is what follows the head still.
LEMMA TakeHeadKeeps == ASSUME FreeInv, NEW t \in Takers, TakeHead(t) PROVE FreeInv'
<1>1. PICK pl \in [Blocks -> Places] : InPlace(pl)
  BY DEF FreeInv
<1>2. /\ fpc[t] = "take" /\ link' = [link EXCEPT ![t] = 0]
      /\ UNCHANGED <<refs, nextFree, poolIndex, created, users, sawRefs>>
  BY DEF TakeHead, PcIs
<1>3. FreeTypeOK /\ Alone /\ cur[t] \in Blocks /\ link[t] = nextFree[cur[t]]
  BY <1>1, <1>2 DEF FreeInv, InPlace, TakerIn
<1>4. PICK c \in Blocks : c = cur[t]
  BY <1>3
<1>5. CASE freeListHead = cur[t] /\ freeListHead' = link[t] /\ Go(t, "taken")
           /\ UNCHANGED <<cur, node>>
  <2>1. FreeTypeOK' /\ Others(t) /\ fpc'[t] = "taken" /\ cur'[t] = c
    BY <1>2, <1>3, <1>4, <1>5, BlockNumbers DEF FreeTypeOK, FreePCs, Others, Go
  <2>2. /\ \A b \in Blocks : ~Has(t, b) /\ (Has(t, b)' <=> b = c)
        /\ \A b \in Blocks : Holding(t, b)' <=> Holding(t, b)
    BY <1>2, <1>4, <2>1 DEF Has, Holding, AddPCs
  <2> DEFINE L == {b \in Blocks : pl[b] = "list"}
             pl2 == [pl EXCEPT ![c] = "taken"]
  <2>3. L \in SUBSET Blocks /\ Line(L)
    BY <1>1 DEF InPlace
  <2> HIDE DEF L
  <2>4. c \in L /\ Line(L \ {c})'
    BY <1>2, <1>3, <1>4, <1>5, <2>3, LinePop
  <2>5. pl[c] = "list"
    BY <2>4 DEF L
  <2>6. pl2 \in [Blocks -> Places] /\ pl2[c] = "taken"
        /\ \A b \in Blocks : b # c => pl2[b] = pl[b]
    BY DEF Places
  <2>7. L \ {c} = {b \in Blocks : pl2[b] = "list"}
    BY <2>6 DEF L
  <2> HIDE DEF pl2
  <2>8. Line({b \in Blocks : pl2[b] = "list"})'
    BY <2>4, <2>7
  <2>9. ASSUME NEW b \in Blocks, b # c PROVE Calm(t, b)
    BY <1>2, <2>2, <2>9 DEF Calm, Out
  <2>10. Moves(t, c, pl, pl2)
    <3>1. BlockIn(c, "list")
      BY <1>1, <2>5 DEF InPlace
    <3>2. Holders(c)' = Holders(c)
      BY <2>1, <2>2, HoldersStep
    <3>3. BlockIn(c, "taken")'
      BY <1>2, <2>2, <3>1, <3>2 DEF BlockIn, Unit, Out
    <3>4. NotOthers(t, c)
      BY <1>1, <2>5, NotHad DEF NotOthers
    <3> QED
      BY <2>6, <3>3, <3>4 DEF Moves
  <2>11. TakerIn(t, pl2)'
    BY <2>1, <2>2, <2>6 DEF TakerIn, AddPCs, PlaceBy
  <2>12. \A b \in Blocks : nextFree'[b] = nextFree[b]
    BY <1>2
  <2> QED
    BY <1>1, <1>3, <2>1, <2>6, <2>8, <2>9, <2>10, <2>11, <2>12, StepKeeps
<1>6. CASE /\ node' = [node EXCEPT ![t] = cur[t]] /\ cur' = [cur EXCEPT ![t] = freeListHead]
           /\ Go(t, "release") /\ UNCHANGED freeListHead
  <2>1. FreeTypeOK' /\ Others(t) /\ fpc'[t] = "release" /\ node'[t] = cur[t]
    BY <1>2, <1>3, <1>6, BlockNumbers DEF FreeTypeOK, FreePCs, Others, Go
  <2>2. \A b \in Blocks : (Holding(t, b)' <=> Holding(t, b)) /\ ~Has(t, b)' /\ ~Has(t, b)
    BY <1>2, <2>1 DEF Holding, Has, AddPCs
  <2>3. TakerIn(t, pl)'
    BY <1>3, <2>1, <2>2 DEF TakerIn, AddPCs
  <2> QED
    BY <1>1, <1>2, <1>3, <1>6, <2>1, <2>2, <2>3, InHandKeeps
<1> QED
  BY <1>5, <1>6 DEF TakeHead

\* One reference was ours, one the list's.
LEMMA KeepTakenKeeps == ASSUME FreeInv, NEW t \in Takers, KeepTaken(t) PROVE FreeInv'
<1>1. PICK pl \in [Blocks -> Places] : InPlace(pl)
  BY DEF FreeInv
<1>2. /\ fpc[t] = "taken" /\ fpc' = [fpc EXCEPT ![t] = "idle"]
      /\ refs' = [refs EXCEPT ![cur[t]] = @ - 2]
      /\ users' = [users EXCEPT ![cur[t]] = @ + 1]
      /\ cur' = [cur EXCEPT ![t] = Outside]
      /\ UNCHANGED <<freeListHead, nextFree, poolIndex, created, node, sawRefs, link>>
  BY DEF KeepTaken, PcIs, Go, Use
<1>3. FreeTypeOK /\ Alone /\ cur[t] \in Blocks
  BY <1>1, <1>2 DEF FreeInv, InPlace, TakerIn
<1>4. PICK c \in Blocks : c = cur[t]
  BY <1>3
<1>5. FreeTypeOK' /\ Others(t) /\ fpc'[t] = "idle"
  BY <1>2, <1>3, BlockNumbers DEF FreeTypeOK, FreePCs, Others
<1>6. /\ \A b \in Blocks : ~Has(t, b)' /\ ~Holding(t, b)'
      /\ \A b \in Blocks : (Has(t, b) <=> b = c) /\ (Holding(t, b) <=> b = c)
  BY <1>2, <1>4, <1>5 DEF Has, Holding, AddPCs
<1>7. refs'[c] = refs[c] - 2 /\ users'[c] = users[c] + 1
      /\ \A b \in Blocks : b # c => refs'[b] = refs[b] /\ users'[b] = users[b]
  BY <1>2, <1>3, <1>4 DEF FreeTypeOK
<1>8. \A b \in Blocks : Out(b)' <=> Out(b)
  BY <1>2 DEF Out
<1>9. \A b \in Blocks : b # c => Calm(t, b)
  BY <1>6, <1>7, <1>8 DEF Calm
<1>10. pl[c] = "taken"
  BY <1>1, <1>2, <1>6 DEF InPlace, TakerIn, PlaceBy
<1>11. BlockIn(c, "use")'
  <2>1. BlockIn(c, "taken")
    BY <1>1, <1>10 DEF InPlace
  <2>2. Cardinality(Holders(c)') = Cardinality(Holders(c)) - 1 /\ Cardinality(Holders(c)) \in Nat
    BY <1>5, <1>6, HoldersStep
  <2> QED
    BY <1>7, <1>8, <2>1, <2>2 DEF BlockIn, Unit
<1>12. NotOthers(t, c)
  BY <1>3, <1>6, HadAlone
<1>13. TakerIn(t, [pl EXCEPT ![c] = "use"])'
  BY <1>5, <1>6 DEF TakerIn, AddPCs
<1> QED
  BY <1>1, <1>2, <1>3, <1>5, <1>9, <1>10, <1>11, <1>12, <1>13, PlaceKeeps DEF Places

\* Where a thread goes on that is done with adding or releasing.
LEMMA ContinueAway ==
    ASSUME FreeTypeOK, NEW t \in Takers, Continue(t), UNCHANGED <<cur, sawRefs>>
    PROVE  /\ Others(t)
           /\ fpc' \in [Takers -> FreePCs] /\ node' \in [Takers -> 0 .. BlockCount]
           /\ link' \in [Takers -> 0 .. BlockCount]
           /\ \A b \in Blocks : ~Has(t, b)' /\ ~Holding(t, b)'
           /\ \A pl \in [Blocks -> Places] : TakerIn(t, pl)'
<1> DEFINE p == CASE cur[t] = Outside -> "idle" [] cur[t] = 0 -> "create" [] OTHER -> "refs"
<1>1. /\ fpc' = [fpc EXCEPT ![t] = p] /\ node' = [node EXCEPT ![t] = 0]
      /\ link' = [link EXCEPT ![t] = 0]
  BY DEF Continue, Go
<1>2. p \in {"idle", "create", "refs"} /\ (p = "refs" => cur[t] \in Blocks)
  BY BlockNumbers DEF FreeTypeOK
<1> HIDE DEF p
<1>3. Others(t) /\ fpc'[t] = p
  BY <1>1 DEF Others, FreeTypeOK
<1>4. /\ fpc' \in [Takers -> FreePCs] /\ node' \in [Takers -> 0 .. BlockCount]
      /\ link' \in [Takers -> 0 .. BlockCount]
  BY <1>1, <1>2, BlockNumbers DEF FreeTypeOK, FreePCs
<1>5. \A b \in Blocks : ~Has(t, b)' /\ ~Holding(t, b)'
  BY <1>2, <1>3, AwayHas DEF AwayPCs
<1>6. ASSUME NEW pl \in [Blocks -> Places] PROVE TakerIn(t, pl)'
  BY <1>2, <1>3, <1>5 DEF TakerIn, AddPCs
<1> QED
  BY <1>3, <1>4, <1>5, <1>6

\* Who lets go of a block that waits for it, as the last, adds it.
LEMMA ReleaseKeeps == ASSUME FreeInv, NEW t \in Takers, ReleaseHead(t) PROVE FreeInv'
<1>1. PICK pl \in [Blocks -> Places] : InPlace(pl)
  BY DEF FreeInv
<1>2. /\ fpc[t] = "release" /\ refs' = [refs EXCEPT ![node[t]] = @ - 1]
      /\ UNCHANGED <<freeListHead, nextFree, poolIndex, created, users, cur, sawRefs>>
  BY DEF ReleaseHead, PcIs
<1>3. FreeTypeOK /\ Alone /\ node[t] \in Blocks
  BY <1>1, <1>2 DEF FreeInv, InPlace, TakerIn
<1>4. PICK n \in Blocks : n = node[t]
  BY <1>3
<1>5. \A b \in Blocks : ~Has(t, b) /\ (Holding(t, b) <=> b = n)
  BY <1>2, <1>4 DEF Has, Holding, AddPCs
<1>6. /\ refs' \in [Blocks -> Int] /\ refs'[n] = refs[n] - 1 /\ refs[n] \in Int
      /\ \A b \in Blocks : b # n => refs'[b] = refs[b]
  BY <1>2, <1>3, <1>4 DEF FreeTypeOK
<1>7. \A b \in Blocks : Out(b)' <=> Out(b)
  BY <1>2 DEF Out
<1> DEFINE k == Cardinality(Holders(n))
<1>8. BlockIn(n, pl[n]) /\ k \in Nat /\ k + 2 < SHOULD
  BY <1>1, HoldersFew DEF InPlace
<1>9. k > 0 /\ pl[n] \notin {"pool", "clear"}
  <2>1. n \in Blocks /\ t \in Holders(n)
    BY <1>5 DEF Holders
  <2>2. Holders(n) # {}
    BY <2>1
  <2> QED
    BY <1>8, <2>2, HoldersFew DEF BlockIn
<1>10. refs[n] = k + Unit(pl[n])
  BY <1>8 DEF BlockIn
<1> HIDE DEF k
<1>11. CASE refs[node[t]] = SHOULD + 1 /\ Go(t, "add") /\ UNCHANGED <<node, link>>
  <2>0. fpc' = [fpc EXCEPT ![t] = "add"] /\ UNCHANGED <<node, link>>
    BY <1>11 DEF Go
  <2>1. FreeTypeOK' /\ Others(t) /\ fpc'[t] = "add" /\ node'[t] = n
    <3>1. fpc' \in [Takers -> FreePCs] /\ fpc'[t] = "add"
      BY <1>3, <2>0 DEF FreeTypeOK, FreePCs, AddPCs
    <3>2. FreeTypeOK'
      BY <1>2, <1>3, <1>6, <2>0, <3>1 DEF FreeTypeOK
    <3>3. Others(t)
      BY <1>2, <1>3, <2>0 DEF Others, FreeTypeOK
    <3> QED
      BY <1>4, <2>0, <3>1, <3>2, <3>3
  <2>2. \A b \in Blocks : (Has(t, b)' <=> b = n) /\ ~Holding(t, b)'
    BY <2>1 DEF Has, Holding, AddPCs
  <2>3. \A b \in Blocks : b # n => Calm(t, b)
    BY <1>2, <1>5, <1>6, <1>7, <2>2 DEF Calm
  <2>4. pl[n] = "wait" /\ k = 1
    BY <1>4, <1>8, <1>9, <1>10, <1>11, BlockNumbers DEF Unit, Places
  <2>5. Cardinality(Holders(n)') = 0
    BY <1>5, <2>1, <2>2, <2>4, HoldersStep DEF k
  <2>6. Holders(n)' = {}
    <3>1. IsFiniteSet(Holders(n)')
      BY FreeListAssumption, FS_Subset DEF Holders
    <3> QED
      BY <2>5, <3>1, FS_EmptySet
  <2>7. BlockIn(n, "clear")'
    <3>1. refs'[n] = SHOULD
      BY <1>4, <1>6, <1>11, BlockNumbers
    <3> QED
      BY <1>2, <1>7, <1>8, <2>2, <2>4, <2>5, <2>6, <3>1, BlockNumbers DEF BlockIn, Unit
  <2>8. NotOthers(t, n)
    BY <1>1, <2>4, NotHad DEF NotOthers
  <2>9. TakerIn(t, [pl EXCEPT ![n] = "clear"])'
    BY <2>1, <2>2 DEF TakerIn, PlaceBy
  <2> QED
    BY <1>1, <1>2, <1>3, <2>1, <2>3, <2>4, <2>7, <2>8, <2>9, PlaceKeeps DEF Places
<1>12. CASE refs[node[t]] # SHOULD + 1 /\ Continue(t)
  <2>1. FreeTypeOK' /\ Others(t) /\ TakerIn(t, pl)'
    BY <1>2, <1>3, <1>6, <1>12, ContinueAway DEF FreeTypeOK
  <2>2. \A b \in Blocks : ~Has(t, b)' /\ ~Holding(t, b)'
    BY <1>2, <1>3, <1>12, ContinueAway
  <2>3. \A b \in Blocks : b # n => Calm(t, b)
    BY <1>2, <1>5, <1>6, <1>7, <2>2 DEF Calm
  <2>4. Cardinality(Holders(n)') = k - 1
    BY <1>5, <2>1, <2>2, HoldersStep DEF k
  <2>5. refs'[n] - refs[n] = Cardinality(Holders(n)') - Cardinality(Holders(n))
    BY <1>6, <1>8, <2>4 DEF k
  <2>6. pl[n] = "wait" => Holders(n)' # {}
    <3>1. pl[n] = "wait" => k # 1
      BY <1>4, <1>8, <1>10, <1>12, BlockNumbers DEF Unit
    <3>2. pl[n] = "wait" => Cardinality(Holders(n)') # 0
      BY <1>8, <2>4, <3>1
    <3> QED
      BY <3>2, FS_EmptySet
  <2> QED
    BY <1>1, <1>2, <1>3, <1>5, <1>9, <2>1, <2>2, <2>3, <2>5, <2>6, RefKeeps
<1> QED
  BY <1>11, <1>12 DEF ReleaseHead

\* A block is given back: by the way of a thread that adds it, if nobody holds
\* it, or left to whoever lets go of it last.
LEMMA AddKeepsBlocks == ASSUME FreeInv, NEW t \in Takers, Add(t) PROVE FreeInv'
<1>1. PICK pl \in [Blocks -> Places] : InPlace(pl)
  BY DEF FreeInv
<1>2. PICK n \in Blocks :
      /\ fpc[t] = "idle" /\ users[n] > 0
      /\ users' = [users EXCEPT ![n] = @ - 1] /\ refs' = [refs EXCEPT ![n] = @ + SHOULD]
      /\ \/ refs[n] = 0 /\ Go(t, "add") /\ node' = [node EXCEPT ![t] = n]
         \/ refs[n] # 0 /\ UNCHANGED <<fpc, node>>
      /\ UNCHANGED <<freeListHead, nextFree, poolIndex, created, cur, sawRefs, link>>
  BY DEF Add, PcIs
<1>3. FreeTypeOK /\ Alone
  BY DEF FreeInv
<1>4. /\ refs' \in [Blocks -> Int] /\ users' \in [Blocks -> Int]
      /\ refs[n] \in Int /\ users[n] \in Int
      /\ refs'[n] = refs[n] + SHOULD /\ users'[n] = users[n] - 1
      /\ \A b \in Blocks : b # n => refs'[b] = refs[b] /\ users'[b] = users[b]
  BY <1>2, <1>3, BlockNumbers DEF FreeTypeOK
<1>5. \A b \in Blocks : Out(b)' <=> Out(b)
  BY <1>2 DEF Out
<1>6. \A b \in Blocks : ~Has(t, b) /\ ~Holding(t, b)
  BY <1>2, AwayHas DEF AwayPCs
<1>7. BlockIn(n, pl[n]) /\ pl[n] = "use"
  <2>1. BlockIn(n, pl[n])
    BY <1>1 DEF InPlace
  <2> QED
    BY <1>2, <2>1 DEF BlockIn
<1>8. /\ refs[n] = Cardinality(Holders(n)) /\ users'[n] = 0 /\ Out(n)
      /\ Cardinality(Holders(n)) \in Nat /\ (Holders(n) = {} <=> refs[n] = 0)
  BY <1>4, <1>7, HoldersFew DEF BlockIn, Unit
<1>9. NotOthers(t, n)
  BY <1>1, <1>7, NotHad DEF NotOthers
<1>10. CASE refs[n] = 0 /\ Go(t, "add") /\ node' = [node EXCEPT ![t] = n]
  <2>1. fpc' = [fpc EXCEPT ![t] = "add"]
    BY <1>10 DEF Go
  <2>2. /\ fpc' \in [Takers -> FreePCs] /\ node' \in [Takers -> 0 .. BlockCount]
        /\ fpc'[t] = "add" /\ node'[t] = n
    BY <1>3, <1>10, <2>1, BlockNumbers DEF FreeTypeOK, FreePCs, AddPCs
  <2>3. FreeTypeOK'
    BY <1>2, <1>3, <1>4, <2>2 DEF FreeTypeOK
  <2>4. Others(t)
    BY <1>2, <1>3, <1>10, <2>1 DEF Others, FreeTypeOK
  <2>5. \A b \in Blocks : (Has(t, b)' <=> b = n) /\ ~Holding(t, b)'
    BY <2>2 DEF Has, Holding, AddPCs
  <2>6. \A b \in Blocks : b # n => Calm(t, b)
    BY <1>4, <1>5, <1>6, <2>5 DEF Calm
  <2>7. Holders(n)' = {}
    BY <1>6, <1>8, <1>10, <2>4, <2>5, HoldersStep
  <2>8. BlockIn(n, "clear")'
    <3>1. refs'[n] = SHOULD /\ Cardinality({}) = 0
      BY <1>4, <1>10, BlockNumbers, FS_EmptySet
    <3> QED
      BY <1>5, <1>8, <2>5, <2>7, <3>1, BlockNumbers DEF BlockIn, Unit
  <2>9. TakerIn(t, [pl EXCEPT ![n] = "clear"])'
    BY <2>2, <2>5 DEF TakerIn, PlaceBy
  <2> QED
    BY <1>1, <1>2, <1>3, <1>7, <1>9, <2>3, <2>4, <2>6, <2>8, <2>9, PlaceKeeps DEF Places
<1>11. CASE refs[n] # 0 /\ UNCHANGED <<fpc, node>>
  <2>1. FreeTypeOK' /\ Others(t) /\ fpc'[t] = "idle"
    BY <1>2, <1>3, <1>4, <1>11 DEF FreeTypeOK, Others
  <2>2. \A b \in Blocks : ~Has(t, b)' /\ ~Holding(t, b)'
    BY <2>1, AwayHas DEF AwayPCs
  <2>3. \A b \in Blocks : b # n => Calm(t, b)
    BY <1>4, <1>5, <1>6, <2>2 DEF Calm
  <2>4. Holders(n)' = Holders(n)
    BY <1>6, <2>1, <2>2, HoldersStep
  <2>5. BlockIn(n, "wait")'
    BY <1>4, <1>5, <1>8, <1>11, <2>4, BlockNumbers DEF BlockIn, Unit
  <2>6. TakerIn(t, [pl EXCEPT ![n] = "wait"])'
    BY <2>1, <2>2 DEF TakerIn, AddPCs
  <2> QED
    BY <1>1, <1>2, <1>3, <1>7, <1>9, <2>1, <2>3, <2>5, <2>6, PlaceKeeps DEF Places
<1> QED
  BY <1>2, <1>10, <1>11

\* The adding begins: the head is read.
LEMMA AddLoadKeeps == ASSUME FreeInv, NEW t \in Takers, AddLoadHead(t) PROVE FreeInv'
<1>1. PICK pl \in [Blocks -> Places] : InPlace(pl)
  BY DEF FreeInv
<1>2. /\ fpc[t] = "add" /\ fpc' = [fpc EXCEPT ![t] = "link"]
      /\ link' = [link EXCEPT ![t] = freeListHead]
      /\ UNCHANGED <<shared, cur, node, sawRefs>>
  BY DEF AddLoadHead, PcIs, Go
<1>3. FreeTypeOK /\ Alone /\ TakerIn(t, pl)
  BY <1>1 DEF FreeInv, InPlace
<1>4. FreeTypeOK' /\ Others(t) /\ fpc'[t] = "link"
  BY <1>2, <1>3 DEF FreeTypeOK, FreePCs, AddPCs, Others, shared
<1>5. \A b \in Blocks : (Holding(t, b)' <=> Holding(t, b)) /\ (Has(t, b)' <=> Has(t, b))
  BY <1>2, <1>4 DEF Holding, Has, AddPCs
<1>6. TakerIn(t, pl)'
  BY <1>2, <1>3, <1>4, <1>5 DEF TakerIn, AddPCs, PlaceBy
<1> QED
  BY <1>1, <1>2, <1>3, <1>4, <1>5, <1>6, InHandKeeps DEF shared

\* The next pointer of a block that nobody holds.
LEMMA AddLinkKeeps == ASSUME FreeInv, NEW t \in Takers, AddLink(t) PROVE FreeInv'
<1>1. PICK pl \in [Blocks -> Places] : InPlace(pl)
  BY DEF FreeInv
<1>2. /\ fpc[t] = "link" /\ fpc' = [fpc EXCEPT ![t] = "count"]
      /\ nextFree' = [nextFree EXCEPT ![node[t]] = link[t]]
      /\ UNCHANGED <<freeListHead, refs, poolIndex, created, users, cur, node, sawRefs, link>>
  BY DEF AddLink, PcIs, Go
<1>3. FreeTypeOK /\ Alone /\ TakerIn(t, pl) /\ node[t] \in Blocks
  BY <1>1, <1>2 DEF FreeInv, InPlace, TakerIn, AddPCs
<1>4. FreeTypeOK' /\ Others(t) /\ fpc'[t] = "count"
  BY <1>2, <1>3 DEF FreeTypeOK, FreePCs, AddPCs, Others
<1>5. \A b \in Blocks : (Holding(t, b)' <=> Holding(t, b)) /\ (Has(t, b)' <=> Has(t, b))
  BY <1>2, <1>4 DEF Holding, Has, AddPCs
<1>6. Has(t, node[t]) /\ pl[node[t]] = "clear"
  BY <1>2, <1>3 DEF Has, TakerIn, AddPCs, PlaceBy
<1>7. \A b \in Blocks : nextFree'[b] = nextFree[b] \/ (Has(t, b) /\ pl[b] = "clear")
  BY <1>2, <1>3, <1>6 DEF FreeTypeOK
<1>8. nextFree'[node[t]] = link[t]
  BY <1>2, <1>3 DEF FreeTypeOK
<1>9. TakerIn(t, pl)'
  BY <1>2, <1>3, <1>4, <1>5, <1>8 DEF TakerIn, AddPCs, PlaceBy
<1> QED
  BY <1>1, <1>2, <1>3, <1>4, <1>5, <1>7, <1>9, InHandKeeps

\* The block becomes one that others may hold.
LEMMA AddCountKeeps == ASSUME FreeInv, NEW t \in Takers, AddCount(t) PROVE FreeInv'
<1>1. PICK pl \in [Blocks -> Places] : InPlace(pl)
  BY DEF FreeInv
<1>2. /\ fpc[t] = "count" /\ fpc' = [fpc EXCEPT ![t] = "push"]
      /\ refs' = [refs EXCEPT ![node[t]] = 1]
      /\ UNCHANGED <<freeListHead, nextFree, poolIndex, created, users, cur, node, sawRefs, link>>
  BY DEF AddCount, PcIs, Go
<1>3. /\ FreeTypeOK /\ Alone /\ TakerIn(t, pl) /\ node[t] \in Blocks
      /\ link[t] = nextFree[node[t]]
  BY <1>1, <1>2 DEF FreeInv, InPlace, TakerIn, AddPCs
<1>4. PICK n \in Blocks : n = node[t]
  BY <1>3
<1>5. FreeTypeOK' /\ Others(t) /\ fpc'[t] = "push" /\ node'[t] = n
  BY <1>2, <1>3, <1>4 DEF FreeTypeOK, FreePCs, AddPCs, Others
<1>6. \A b \in Blocks : /\ ~Holding(t, b)' /\ ~Holding(t, b)
                        /\ (Has(t, b)' <=> b = n) /\ (Has(t, b) <=> b = n)
  BY <1>2, <1>4, <1>5 DEF Holding, Has, AddPCs
<1>7. pl[n] = "clear"
  BY <1>2, <1>3, <1>6 DEF TakerIn, PlaceBy
<1>8. refs'[n] = 1 /\ \A b \in Blocks : b # n => refs'[b] = refs[b]
  BY <1>2, <1>3, <1>4 DEF FreeTypeOK
<1>9. \A b \in Blocks : Out(b)' <=> Out(b)
  BY <1>2 DEF Out
<1>10. \A b \in Blocks : b # n => Calm(t, b)
  BY <1>2, <1>6, <1>8, <1>9 DEF Calm
<1>11. BlockIn(n, "mark")'
  <2>1. BlockIn(n, "clear")
    BY <1>1, <1>7 DEF InPlace
  <2>2. Holders(n)' = {} /\ Cardinality({}) = 0
    BY <1>5, <1>6, <2>1, HoldersStep, FS_EmptySet DEF BlockIn
  <2> QED
    BY <1>2, <1>6, <1>8, <1>9, <2>1, <2>2 DEF BlockIn, Unit
<1>12. NotOthers(t, n)
  BY <1>3, <1>6, HadAlone
<1>13. TakerIn(t, [pl EXCEPT ![n] = "mark"])'
  BY <1>2, <1>3, <1>4, <1>5, <1>6 DEF TakerIn, PlaceBy
<1> QED
  BY <1>1, <1>2, <1>3, <1>5, <1>7, <1>10, <1>11, <1>12, <1>13, PlaceKeeps DEF Places

\* The block becomes the head, in front of what its next pointer says.
LEMMA AddPushKeeps == ASSUME FreeInv, NEW t \in Takers, AddPush(t) PROVE FreeInv'
<1>1. PICK pl \in [Blocks -> Places] : InPlace(pl)
  BY DEF FreeInv
<1>2. /\ fpc[t] = "push"
      /\ UNCHANGED <<refs, nextFree, poolIndex, created, users, cur, sawRefs>>
  BY DEF AddPush, PcIs
<1>3. /\ FreeTypeOK /\ Alone /\ TakerIn(t, pl) /\ node[t] \in Blocks
      /\ link[t] = nextFree[node[t]]
  BY <1>1, <1>2 DEF FreeInv, InPlace, TakerIn, AddPCs
<1>4. PICK n \in Blocks : n = node[t]
  BY <1>3
<1>5. \A b \in Blocks : ~Holding(t, b) /\ (Has(t, b) <=> b = n)
  BY <1>2, <1>4 DEF Holding, Has, AddPCs
<1>6. pl[n] = "mark"
  BY <1>2, <1>3, <1>5 DEF TakerIn, PlaceBy
<1>7. \A b \in Blocks : Out(b)' <=> Out(b)
  BY <1>2 DEF Out
<1>8. CASE freeListHead = link[t] /\ freeListHead' = node[t] /\ Continue(t)
  <2>1. /\ Others(t) /\ \A b \in Blocks : ~Has(t, b)' /\ ~Holding(t, b)'
        /\ \A q \in [Blocks -> Places] : TakerIn(t, q)'
    BY <1>2, <1>3, <1>8, ContinueAway
  <2>2. FreeTypeOK'
    <3>1. /\ fpc' \in [Takers -> FreePCs] /\ node' \in [Takers -> 0 .. BlockCount]
          /\ link' \in [Takers -> 0 .. BlockCount] /\ freeListHead' \in 0 .. BlockCount
      BY <1>2, <1>3, <1>8, ContinueAway, BlockNumbers
    <3> QED
      BY <1>2, <1>3, <3>1 DEF FreeTypeOK
  <2> DEFINE L == {b \in Blocks : pl[b] = "list"}
             pl2 == [pl EXCEPT ![n] = "list"]
  <2>3. L \in SUBSET Blocks /\ Line(L) /\ n \notin L
    BY <1>1, <1>6 DEF InPlace
  <2>4. pl2 \in [Blocks -> Places] /\ pl2[n] = "list"
        /\ \A b \in Blocks : b # n => pl2[b] = pl[b]
    BY DEF Places
  <2>5. L \cup {n} = {b \in Blocks : pl2[b] = "list"}
    BY <2>4
  <2> HIDE DEF L, pl2
  <2>6. Line(L \cup {n})'
    BY <1>2, <1>3, <1>4, <1>8, <2>3, LinePush
  <2>7. Line({b \in Blocks : pl2[b] = "list"})'
    BY <2>5, <2>6
  <2>8. ASSUME NEW b \in Blocks, b # n PROVE Calm(t, b)
    BY <1>2, <1>5, <1>7, <2>1, <2>8 DEF Calm
  <2>9. Moves(t, n, pl, pl2)
    <3>1. BlockIn(n, "mark")
      BY <1>1, <1>6 DEF InPlace
    <3>2. Holders(n)' = Holders(n)
      BY <1>5, <2>1, HoldersStep
    <3>3. BlockIn(n, "list")'
      BY <1>2, <1>7, <3>1, <3>2 DEF BlockIn, Unit
    <3> QED
      BY <1>3, <1>5, <2>4, <3>3, HadAlone DEF Moves
  <2>10. TakerIn(t, pl2)' /\ \A b \in Blocks : nextFree'[b] = nextFree[b]
    BY <1>2, <2>1, <2>4
  <2> QED
    BY <1>1, <1>3, <2>1, <2>2, <2>4, <2>7, <2>8, <2>9, <2>10, StepKeeps
<1>9. CASE /\ link' = [link EXCEPT ![t] = freeListHead] /\ Go(t, "back")
           /\ UNCHANGED <<freeListHead, node>>
  <2>1. fpc' = [fpc EXCEPT ![t] = "back"]
    BY <1>9 DEF Go
  <2>2. FreeTypeOK' /\ Others(t) /\ fpc'[t] = "back"
    BY <1>2, <1>3, <1>9, <2>1 DEF FreeTypeOK, FreePCs, AddPCs, Others
  <2>3. \A b \in Blocks : (Holding(t, b)' <=> Holding(t, b)) /\ (Has(t, b)' <=> Has(t, b))
    BY <1>2, <1>9, <2>2 DEF Holding, Has, AddPCs
  <2>4. TakerIn(t, pl)'
    BY <1>2, <1>3, <1>9, <2>2, <2>3 DEF TakerIn, AddPCs, PlaceBy
  <2> QED
    BY <1>1, <1>2, <1>3, <1>9, <2>2, <2>3, <2>4, InHandKeeps
<1> QED
  BY <1>8, <1>9 DEF AddPush

\* The exchange of the head failed: the block is still nobody else's, or left
\* to those who hold it now.
LEMMA AddBackKeeps == ASSUME FreeInv, NEW t \in Takers, AddBack(t) PROVE FreeInv'
<1>1. PICK pl \in [Blocks -> Places] : InPlace(pl)
  BY DEF FreeInv
<1>2. /\ fpc[t] = "back" /\ refs' = [refs EXCEPT ![node[t]] = @ + (SHOULD - 1)]
      /\ UNCHANGED <<freeListHead, nextFree, poolIndex, created, users, cur, sawRefs>>
  BY DEF AddBack, PcIs
<1>3. FreeTypeOK /\ Alone /\ TakerIn(t, pl) /\ node[t] \in Blocks
  BY <1>1, <1>2 DEF FreeInv, InPlace, TakerIn, AddPCs
<1>4. PICK n \in Blocks : n = node[t]
  BY <1>3
<1>5. \A b \in Blocks : ~Holding(t, b) /\ (Has(t, b) <=> b = n)
  BY <1>2, <1>4 DEF Holding, Has, AddPCs
<1>6. pl[n] = "mark" /\ NotOthers(t, n)
  BY <1>2, <1>3, <1>5, HadAlone DEF TakerIn, PlaceBy
<1>7. \A b \in Blocks : Out(b)' <=> Out(b)
  BY <1>2 DEF Out
<1>8. /\ refs' \in [Blocks -> Int] /\ refs'[n] = refs[n] + (SHOULD - 1) /\ refs[n] \in Int
      /\ \A b \in Blocks : b # n => refs'[b] = refs[b]
  BY <1>2, <1>3, <1>4, BlockNumbers DEF FreeTypeOK
<1>9. BlockIn(n, "mark")
  BY <1>1, <1>6 DEF InPlace
<1>10. /\ refs[n] = Cardinality(Holders(n)) + 1 /\ Cardinality(Holders(n)) \in Nat
       /\ (Holders(n) = {} <=> refs[n] = 1) /\ users[n] = 0 /\ Out(n)
       /\ refs'[n] = Cardinality(Holders(n)) + SHOULD
  BY <1>8, <1>9, HoldersFew, BlockNumbers DEF BlockIn, Unit
<1>11. CASE refs[node[t]] = 1 /\ Go(t, "link") /\ UNCHANGED <<node, link>>
  <2>1. fpc' = [fpc EXCEPT ![t] = "link"]
    BY <1>11 DEF Go
  <2>2. fpc' \in [Takers -> FreePCs] /\ fpc'[t] = "link" /\ node'[t] = n
    BY <1>3, <1>4, <1>11, <2>1 DEF FreeTypeOK, FreePCs, AddPCs
  <2>3. FreeTypeOK'
    BY <1>2, <1>3, <1>8, <1>11, <2>2 DEF FreeTypeOK
  <2>4. Others(t)
    BY <1>2, <1>3, <1>11, <2>1 DEF Others, FreeTypeOK
  <2>5. \A b \in Blocks : (Has(t, b)' <=> b = n) /\ ~Holding(t, b)'
    BY <2>2 DEF Has, Holding, AddPCs
  <2>6. \A b \in Blocks : b # n => Calm(t, b)
    BY <1>2, <1>5, <1>7, <1>8, <2>5 DEF Calm
  <2>7. Holders(n)' = Holders(n)
    BY <1>5, <2>4, <2>5, HoldersStep
  <2>8. BlockIn(n, "clear")'
    BY <1>2, <1>4, <1>7, <1>10, <1>11, <2>5, <2>7 DEF BlockIn, Unit
  <2>9. TakerIn(t, [pl EXCEPT ![n] = "clear"])'
    BY <2>2, <2>5 DEF TakerIn, PlaceBy
  <2> QED
    BY <1>1, <1>2, <1>3, <1>6, <2>3, <2>4, <2>6, <2>8, <2>9, PlaceKeeps DEF Places
<1>12. CASE refs[node[t]] # 1 /\ Continue(t)
  <2>1. /\ Others(t) /\ \A b \in Blocks : ~Has(t, b)' /\ ~Holding(t, b)'
        /\ \A q \in [Blocks -> Places] : TakerIn(t, q)'
    BY <1>2, <1>3, <1>12, ContinueAway
  <2>2. FreeTypeOK'
    <3>1. /\ fpc' \in [Takers -> FreePCs] /\ node' \in [Takers -> 0 .. BlockCount]
          /\ link' \in [Takers -> 0 .. BlockCount]
      BY <1>2, <1>3, <1>12, ContinueAway
    <3> QED
      BY <1>2, <1>3, <1>8, <3>1 DEF FreeTypeOK
  <2>3. \A b \in Blocks : b # n => Calm(t, b)
    BY <1>2, <1>5, <1>7, <1>8, <2>1 DEF Calm
  <2>4. Holders(n)' = Holders(n)
    BY <1>5, <2>1, HoldersStep
  <2>5. BlockIn(n, "wait")'
    BY <1>2, <1>4, <1>7, <1>10, <1>12, <2>4 DEF BlockIn, Unit
  <2>6. [pl EXCEPT ![n] = "wait"] \in [Blocks -> Places]
    BY DEF Places
  <2>7. TakerIn(t, [pl EXCEPT ![n] = "wait"])'
    BY <2>1, <2>6
  <2> QED
    BY <1>1, <1>2, <1>3, <1>6, <2>1, <2>2, <2>3, <2>5, <2>7, PlaceKeeps DEF Places
<1> QED
  BY <1>11, <1>12 DEF AddBack

\* All blocks are in the pool, or not made.
LEMMA FreeStarts == FreeListInit => FreeInv
<1> SUFFICES ASSUME FreeListInit PROVE FreeInv
  OBVIOUS
<1> DEFINE pl == [b \in Blocks |-> "pool"]
<1>1. FreeTypeOK
  BY FreeListAssumption, BlockNumbers DEF FreeListInit, FreeTypeOK, FreePCs
<1>2. \A t \in Takers : \A b \in Blocks : ~Has(t, b) /\ ~Holding(t, b)
  BY AwayHas DEF FreeListInit, AwayPCs
<1>3. \A b \in Blocks : Holders(b) = {} /\ ~Out(b)
  BY <1>2, BlockNumbers DEF Holders, Out, Blocks, FreeListInit
<1>4. pl \in [Blocks -> Places] /\ \A b \in Blocks : pl[b] = "pool"
  BY DEF Places
<1>5. \A b \in Blocks : BlockIn(b, "pool")
  BY <1>3, FS_EmptySet DEF BlockIn, Unit, FreeListInit
<1>6. \A t \in Takers : TakerIn(t, pl)
  BY <1>2 DEF TakerIn, FreeListInit, AddPCs
<1>7. {b \in Blocks : pl[b] = "list"} = {}
  BY <1>4
<1>8. Line({})
  BY DEF Line, FreeListInit
<1> HIDE DEF pl
<1>9. InPlace(pl)
  BY <1>4, <1>5, <1>6, <1>7, <1>8 DEF InPlace
<1> QED
  BY <1>1, <1>2, <1>4, <1>9 DEF FreeInv, Alone

\* A step of something else.
LEMMA FreeStutters == ASSUME FreeInv, UNCHANGED freeVars PROVE FreeInv'
<1>1. PICK pl \in [Blocks -> Places] : InPlace(pl)
  BY DEF FreeInv
<1>2. FreeTypeOK' /\ Alone'
  BY DEF FreeInv, FreeTypeOK, Alone, Has, freeVars
<1>3. \A b \in Blocks : BlockIn(b, pl[b])'
  BY <1>1 DEF InPlace, BlockIn, Holders, Holding, Has, Unit, Out, freeVars
<1>4. \A t \in Takers : TakerIn(t, pl)'
  BY <1>1 DEF InPlace, TakerIn, Has, PlaceBy, freeVars
<1>5. Line({b \in Blocks : pl[b] = "list"})'
  BY <1>1 DEF InPlace, Line, NextClosed, freeVars
<1> QED
  BY <1>2, <1>3, <1>4, <1>5 DEF FreeInv, InPlace

\* Where the blocks are says who owns them.
LEMMA PlacesOwned == ASSUME FreeInv PROVE BlocksHaveOneOwner
<1>1. PICK pl \in [Blocks -> Places] : InPlace(pl)
  BY DEF FreeInv
<1> DEFINE L == {b \in Blocks : pl[b] = "list"}
<1>2. L \in SUBSET Blocks /\ Line(L)
  BY <1>1 DEF InPlace
<1>3. \A b \in Blocks : b \in L <=> pl[b] = "list"
  OBVIOUS
<1> HIDE DEF L
<1>4. Listed = L
  BY <1>2, LineIsList
<1>5. \A b \in Blocks : BlockIn(b, pl[b]) /\ pl[b] \in Places
  BY <1>1 DEF InPlace
<1>6. \A b \in Blocks : users[b] <= 1 /\ (b \in Listed => users[b] = 0)
  BY <1>3, <1>4, <1>5 DEF BlockIn
<1>7. ASSUME NEW t \in Takers, fpc[t] = "taken" PROVE refs[cur[t]] < SHOULD
  <2>1. cur[t] \in Blocks /\ pl[cur[t]] = "taken"
    BY <1>1, <1>7 DEF InPlace, TakerIn, Has, PlaceBy
  <2>2. refs[cur[t]] = Cardinality(Holders(cur[t])) + 1
    BY <1>5, <2>1 DEF BlockIn, Unit
  <2> QED
    BY <2>2, HoldersFew, BlockNumbers
<1>8. ASSUME Quiet, NEW b \in 1 .. created, b > PoolSize \/ b <= poolIndex
      PROVE  refs[b] = 1 - users[b] /\ (b \in Listed <=> users[b] = 0)
  <2>1. b \in Blocks /\ Out(b)
    BY <1>8, BlockNumbers DEF FreeInv, FreeTypeOK, Blocks, Out
  <2>2. \A t \in Takers : ~Has(t, b) /\ ~Holding(t, b)
    BY <1>8 DEF Quiet, Has, Holding, AddPCs
  <2>3. Holders(b) = {} /\ Cardinality({}) = 0
    BY <2>2, FS_EmptySet DEF Holders
  <2>4. pl[b] \in {"use", "list"}
    BY <1>5, <2>1, <2>2, <2>3 DEF BlockIn, Places
  <2>5. BlockIn(b, pl[b])
    BY <1>5, <2>1
  <2>6. CASE pl[b] = "use"
    <3>1. users[b] = 1 /\ refs[b] = 0
      BY <2>3, <2>5, <2>6 DEF BlockIn, Unit
    <3> QED
      BY <1>3, <1>4, <2>1, <2>6, <3>1
  <2>7. CASE pl[b] = "list"
    <3>1. users[b] = 0 /\ refs[b] = 1
      BY <2>3, <2>5, <2>7 DEF BlockIn, Unit
    <3> QED
      BY <1>3, <1>4, <2>1, <2>7, <3>1
  <2> QED
    BY <2>4, <2>6, <2>7
<1> QED
  BY <1>6, <1>7, <1>8 DEF BlocksHaveOneOwner, PcIs

\* All steps together.
LEMMA TakerKeeps == ASSUME FreeInv, NEW t \in Takers, TakerStep(t) PROVE FreeInv'
  BY TryPoolKeeps, TakeFromPoolKeeps, LoadHeadKeeps, LoadRefsKeeps, HoldHeadKeeps,
     LoadNextKeeps, TakeHeadKeeps, KeepTakenKeeps, ReleaseKeeps, CreateKeeps,
     AddKeepsBlocks, AddLoadKeeps, AddLinkKeeps, AddCountKeeps, AddPushKeeps, AddBackKeeps
     DEF TakerStep

(***************************************************************************)
(* No block of the schedule queue has two owners and none gets lost, for   *)
(* any number of threads, blocks and calls (FreeList::try_get, add,        *)
(* requisition_block): the references of the threads that read a next      *)
(* pointer keep the block from being put back under them, so that an       *)
(* exchange of the head that succeeds though the block was taken and put   *)
(* back in between is right all the same.                                  *)
(***************************************************************************)
THEOREM OneOwner == FreeListSpec => []BlocksHaveOneOwner
<1>1. FreeInv /\ [FreeListNext]_freeVars => FreeInv'
  BY TakerKeeps, FreeStutters DEF FreeListNext
<1>2. FreeInv => BlocksHaveOneOwner
  BY PlacesOwned
<1> QED
  BY <1>1, <1>2, FreeStarts, PTL DEF FreeListSpec
=============================================================================
