--------------------------- MODULE ResolverProofs ---------------------------
(***************************************************************************)
(* The resolver never fails for want of a question or an answer, and       *)
(* answers what was asked: for every depth of the stack, search list and   *)
(* lookup order, whatever the servers answer.  The hosts file, its other   *)
(* source, agrees with itself both ways, and the hints, from which it      *)
(* takes its first servers, leave none of them out.                        *)
(***************************************************************************)
EXTENDS Resolver, DnsHosts, DnsHints, SequenceLemmas, FiniteSetTheorems, TLAPS

\* The names that turn up: in questions, aliases, referrals and answers.
Names == {"null", "none", "root", "n1", "n2", "c1", "c2", "mx", "addr"}
             \cup {Search[i] : i \in DOMAIN Search}
Questions == Names \X {"null", "A", "MX"}
RRs == [name : Names, type : {"A", "MX", "CNAME"}, to : Names, sec : {"AN", "AR"}]
Packets == [q : Questions, rrs : SUBSET RRs, ns : SUBSET Names, aa : BOOLEAN,
            rc : {"null", "ok", "servfail"}]

\* States of a frame that has an answer, and never takes another way again;
\* those in which it waits for the frame above it; those in which it asks.
Answered == {"CNAME0_A", "CNAME1_A", "FINISH", "SMART0_A", "SMART1_A", "DONE"}
Waiting == {"RESOLV1_NS", "CNAME1_A", "SMART1_A"}
Asking == {"HINTS", "FOREACH_NS", "FOREACH_A", "QUERY_A", "RESOLV0_NS", "RESOLV1_NS",
           "CNAME0_A"}
States == {"GLUE", "SWITCH", "FILE", "CACHE", "BIND", "SEARCH", "SERVFAIL"}
              \cup Answered \cup Waiting \cup Asking

Frames == [st : States, tier : Nat, attempts : Nat, query : Questions,
           asked : Questions, answer : Packets, ns : SUBSET Names,
           glued : SUBSET Names, todo : SUBSET Names, cur : Names,
           tried : BOOLEAN, saved : SUBSET Names]
Setups == [recurse : BOOLEAN, smart : BOOLEAN, lookup : Lookups, qtype : {"A", "MX"}]

ResTypeOK ==
    /\ stack \in [0 .. MaxDepth - 1 -> Frames]
    /\ sp \in 0 .. MaxDepth - 1 /\ search \in 0 .. Len(Search)
    /\ nodata \in Packets /\ smarts \subseteq Names /\ setup \in Setups
    /\ referrals \in Nat

\* The questions the search list makes.
Candidates == {<<Search[i], setup.qtype>> : i \in DOMAIN Search}

\* What frame i may ask: a stub may come to search in a pushed frame too.
Asks(i, f) ==
    \/ i > 0 /\ f.query = f.asked
    \/ (i = 0 \/ ~setup.recurse) /\ f.query \in Candidates

\* What its answer may be for.
Answers(i, f) ==
    /\ f.answer.rc # "null"
    /\ \/ i > 0 /\ f.answer.rc = "ok" /\ f.answer.q = f.asked
       \/ (i = 0 \/ f.answer.rc = "servfail" \/ ~setup.recurse)
              /\ f.answer.q \in Candidates

\* A stub only asks servers whose addresses it has, so that it pushes no frame
\* for a name server: a frame that it suspends has its answer.
Knows(f) ==
    /\ f.st \notin {"RESOLV0_NS", "RESOLV1_NS"}
    /\ f.ns \subseteq f.glued /\ f.todo \subseteq f.glued
    /\ f.st \in {"FOREACH_A", "QUERY_A"} => f.cur \in f.glued

FrameInv(i, f) ==
    /\ i > 0 \/ f.st \in Asking => f.query # NoQuery
    /\ f.query # NoQuery => f.query[2] # "null" /\ Asks(i, f)
    /\ f.st \in Answered => Answers(i, f)
    /\ f.st \in {"SMART0_A", "SMART1_A"} => i = 0
    /\ f.st = "SEARCH" => i = 0 \/ ~setup.recurse
    /\ ~setup.recurse => Knows(f)

\* A suspended frame waits for the one above it; the top one may be about to
\* look at the frame that was popped.
StackInv ==
    /\ \A i \in 0 .. sp : FrameInv(i, stack[i])
    /\ \A i \in 0 .. sp - 1 : stack[i].st \in Waiting
    /\ stack[sp].st \in Waiting =>
          /\ sp + 1 < MaxDepth
          /\ stack[sp + 1].answer.rc # "null" /\ stack[sp + 1].query # NoQuery

\* An unsatisfactory answer that was kept is one for a candidate, unless it was
\* kept in a pushed frame: then frame 0 never comes to use it.
NodataInv ==
    nodata # Null => /\ nodata.rc = "ok"
                     /\ nodata.q \in Candidates \/ stack[0].st \in Answered

ResInv == ResTypeOK /\ StackInv /\ NodataInv /\ err = "none"

\* A packet, and no packet.
LEMMA PacketType ==
    ASSUME NEW q \in Questions, NEW rrs \in SUBSET RRs
    PROVE  /\ Packet(q, rrs) \in Packets /\ Packet(q, rrs).q = q
           /\ Packet(q, rrs).rc = "ok" /\ Packet(q, rrs).rrs = rrs
  BY DEF Packet, Packets

\* Null is the absence of a packet.
LEMMA NullType == Null \in Packets /\ Null.rc = "null"
  BY DEF Null, Packets, Questions, Names

\* A frame that is pushed.
LEMMA FrameType ==
    ASSUME NEW q \in Questions
    PROVE  /\ Frame(q) \in Frames /\ Frame(q).query = q /\ Frame(q).asked = q
           /\ Frame(q).st = "GLUE" /\ Frame(q).ns = {} /\ Frame(q).todo = {}
           /\ Frame(q).answer = Null
  BY NullType DEF Frame, Frames, States, Names

\* A frame with another state.
LEMMA StateType ==
    ASSUME NEW g \in Frames, NEW s \in States
    PROVE  LET f == [g EXCEPT !.st = s] IN
           /\ f \in Frames /\ f.st = s /\ f.query = g.query /\ f.asked = g.asked
           /\ f.answer = g.answer /\ f.ns = g.ns /\ f.glued = g.glued
           /\ f.todo = g.todo /\ f.cur = g.cur
  BY DEF Frames

\* The questions of the search list are questions.
LEMMA CandidateType ==
    ASSUME ResTypeOK
    PROVE  /\ Candidates \subseteq Questions
           /\ \A q \in Candidates : q[2] # "null" /\ q # NoQuery
           /\ <<qname, setup.qtype>> \in Candidates
           /\ \A i \in 1 .. Len(Search) : <<Search[i], setup.qtype>> \in Candidates
<1>1. DOMAIN Search = 1 .. Len(Search) /\ \A i \in 1 .. Len(Search) : Search[i] \in Names
  BY ResAssumption DEF Names
<1>2. 1 \in 1 .. Len(Search)
  BY ResAssumption
<1>3. setup.qtype \in {"A", "MX"}
  BY DEF ResTypeOK, Setups
<1> QED
  BY <1>1, <1>2, <1>3 DEF Candidates, Questions, NoQuery, qname

\* A step that only changes the frame on top, and leaves it in a state of its
\* own, keeps the invariant when it keeps the frame's part of it: nodata is
\* kept, used up, or an answer to a stub's question.
LEMMA TopKeeps ==
    ASSUME ResInv, NEW s \in States \ Waiting, NEW g \in Frames, Keep(s, g),
           UNCHANGED <<sp, setup, err>>, search' \in 0 .. Len(Search),
           smarts' \subseteq Names, referrals' \in Nat, nodata' \in Packets,
           FrameInv(sp, [g EXCEPT !.st = s]), F.st \in Answered => s \in Answered,
           \/ nodata' \in {nodata, Null}
           \/ /\ ~setup.recurse /\ nodata'.rc = "ok"
              /\ sp = 0 => nodata'.q \in Candidates
    PROVE  ResInv'
<1> DEFINE f == [g EXCEPT !.st = s]
<1>1. f \in Frames /\ f.st = s
  BY StateType
<1>2. stack' = [stack EXCEPT ![sp] = f]
  BY DEF Keep
<1>3. stack \in [0 .. MaxDepth - 1 -> Frames] /\ sp \in 0 .. MaxDepth - 1 /\ MaxDepth \in Nat
  BY ResAssumption DEF ResInv, ResTypeOK
<1>h. FrameInv(sp, f)
  OBVIOUS
<1> HIDE DEF f
<1>4. /\ stack' \in [0 .. MaxDepth - 1 -> Frames] /\ stack'[sp] = f
      /\ \A i \in 0 .. MaxDepth - 1 : i # sp => stack'[i] = stack[i]
  BY <1>1, <1>2, <1>3
<1>5. ResTypeOK'
  BY <1>4 DEF ResInv, ResTypeOK
<1>6. \A i, h : FrameInv(i, h)' <=> FrameInv(i, h)
  BY DEF FrameInv, Asks, Answers, Candidates
<1>7. StackInv'
  <2>1. ASSUME NEW i \in 0 .. sp PROVE FrameInv(i, stack[i])'
    <3>1. CASE i = sp
      BY <1>h, <1>4, <1>6, <3>1 DEF FrameInv, Asks, Answers, Candidates
    <3>2. CASE i # sp
      <4>1. stack'[i] = stack[i] /\ FrameInv(i, stack[i])
        BY <1>3, <1>4, <3>2 DEF ResInv, StackInv
      <4> QED
        BY <4>1 DEF FrameInv, Asks, Answers, Candidates
    <3> QED
      BY <3>1, <3>2
  <2>2. \A i \in 0 .. sp - 1 : stack'[i].st \in Waiting
    BY <1>3, <1>4 DEF ResInv, StackInv
  <2>3. stack'[sp].st \notin Waiting
    BY <1>1, <1>4
  <2> QED
    BY <2>1, <2>2, <2>3 DEF StackInv
<1>8. NodataInv'
  <2>1. stack[0].st \in Answered => stack'[0].st \in Answered
    BY <1>1, <1>3, <1>4 DEF F
  <2>2. Candidates' = Candidates
    BY DEF Candidates
  <2>3. CASE nodata' = nodata
    BY <2>1, <2>2, <2>3 DEF ResInv, NodataInv
  <2>4. CASE nodata' = Null
    BY <2>4 DEF NodataInv
  <2>5. CASE /\ ~setup.recurse /\ nodata'.rc = "ok"
             /\ sp = 0 => nodata'.q \in Candidates
    <3>1. CASE sp = 0
      BY <2>2, <2>5, <3>1 DEF NodataInv
    <3>2. CASE sp # 0
      <4>1. stack[0].st \in Waiting /\ FrameInv(0, stack[0])
        BY <1>3, <3>2 DEF ResInv, StackInv
      <4>2. stack[0].st \in Answered
        BY <2>5, <4>1 DEF FrameInv, Knows, Waiting, Answered
      <4> QED
        BY <2>1, <2>5, <4>2 DEF NodataInv
    <3> QED
      BY <3>1, <3>2
  <2> QED
    BY <2>3, <2>4, <2>5
<1> QED
  BY <1>5, <1>7, <1>8 DEF ResInv

\* A step that pushes a frame with a question of its own.
LEMMA PushKeeps ==
    ASSUME ResInv, NEW s \in Waiting, NEW q \in Questions, q[2] # "null", Room,
           Push(s, q), UNCHANGED <<search, nodata, setup, err, referrals>>,
           smarts' \subseteq Names,
           FrameInv(sp, [F EXCEPT !.st = s]), F.st \in Answered => s \in Answered
    PROVE  ResInv'
<1> DEFINE f == [F EXCEPT !.st = s]
<1>3. stack \in [0 .. MaxDepth - 1 -> Frames] /\ sp \in 0 .. MaxDepth - 1 /\ MaxDepth \in Nat
  BY ResAssumption DEF ResInv, ResTypeOK
<1>1. f \in Frames /\ f.st = s
  <2>1. F \in Frames /\ s \in States
    BY <1>3 DEF F, States
  <2> QED
    BY <2>1, StateType
<1>g. Frame(q) \in Frames /\ sp' = sp + 1 /\ sp + 1 \in 0 .. MaxDepth - 1
  BY <1>3, FrameType DEF Push, Room
<1>2. stack' = [[stack EXCEPT ![sp] = f] EXCEPT ![sp + 1] = Frame(q)]
  BY <1>3, <1>g DEF Push, F
<1>h. FrameInv(sp, f)
  OBVIOUS
<1> HIDE DEF f
<1>4. /\ stack' \in [0 .. MaxDepth - 1 -> Frames] /\ stack'[sp] = f
      /\ stack'[sp + 1] = Frame(q)
      /\ \A i \in 0 .. MaxDepth - 1 : i # sp /\ i # sp + 1 => stack'[i] = stack[i]
  BY <1>1, <1>2, <1>3, <1>g
<1>5. ResTypeOK'
  BY <1>4, <1>g DEF ResInv, ResTypeOK
<1>7. StackInv'
  <2>1. ASSUME NEW i \in 0 .. sp + 1 PROVE FrameInv(i, stack[i])'
    <3>1. CASE i = sp
      BY <1>h, <1>4, <3>1 DEF FrameInv, Asks, Answers, Candidates
    <3>2. CASE i = sp + 1
      <4>1. /\ stack'[i].query = q /\ stack'[i].asked = q /\ stack'[i].st = "GLUE"
            /\ stack'[i].ns = {} /\ stack'[i].todo = {} /\ i > 0
        BY <1>3, <1>4, <3>2, FrameType
      <4>2. q # NoQuery
        BY DEF NoQuery
      <4> QED
        BY <4>1, <4>2 DEF FrameInv, Asks, Answers, Answered, Asking, Knows
    <3>3. CASE i # sp /\ i # sp + 1
      <4>1. stack'[i] = stack[i] /\ FrameInv(i, stack[i])
        BY <1>3, <1>4, <1>g, <3>3 DEF ResInv, StackInv
      <4> QED
        BY <4>1 DEF FrameInv, Asks, Answers, Candidates
    <3> QED
      BY <3>1, <3>2, <3>3
  <2>2. \A i \in 0 .. sp : stack'[i].st \in Waiting
    BY <1>1, <1>3, <1>4 DEF ResInv, StackInv
  <2>3. stack'[sp + 1].st = "GLUE" /\ "GLUE" \notin Waiting
    BY <1>4, FrameType DEF Waiting
  <2>4. sp' - 1 = sp
    BY <1>3, <1>g
  <2>5. \A i \in 0 .. sp' : FrameInv(i, stack[i])'
    BY <1>g, <2>1
  <2>6. \A i \in 0 .. sp' - 1 : stack'[i].st \in Waiting
    BY <2>2, <2>4
  <2>7. stack'[sp'].st \notin Waiting
    BY <1>g, <2>3
  <2> QED
    BY <2>5, <2>6, <2>7 DEF StackInv
<1>8. NodataInv'
  <2>1. stack[0].st \in Answered => stack'[0].st \in Answered
    BY <1>1, <1>3, <1>4, <1>g DEF F
  <2>2. Candidates' = Candidates
    BY DEF Candidates
  <2> QED
    BY <2>1, <2>2 DEF ResInv, NodataInv
<1> QED
  BY <1>5, <1>7, <1>8 DEF ResInv

\* DONE: the frame below takes over, and looks at the question and the answer.
LEMMA DoneKeeps == ResInv /\ Done => ResInv'
<1> SUFFICES ASSUME ResInv, Done PROVE ResInv'
  OBVIOUS
<1>1. stack \in [0 .. MaxDepth - 1 -> Frames] /\ sp \in 0 .. MaxDepth - 1 /\ sp > 0
      /\ MaxDepth \in Nat /\ F \in Frames /\ F = stack[sp]
  BY ResAssumption DEF ResInv, ResTypeOK, Done, F
<1>2. FrameInv(sp, F) /\ F.st = "DONE"
  BY <1>1 DEF ResInv, StackInv, Done, In
<1>3. F.answer.rc # "null" /\ F.query # NoQuery /\ F.answer \in Packets /\ F.query \in Questions
  BY <1>1, <1>2 DEF FrameInv, Answers, Answered, Frames
<1>4. F.answer # Null
  BY <1>3, NullType
<1> DEFINE g == [Frame(F.query) EXCEPT !.answer = F.answer]
<1>5. g \in Frames /\ g.query = F.query /\ g.answer = F.answer
  BY <1>3, FrameType DEF Frames
<1>6. /\ sp' = sp - 1 /\ stack' = [stack EXCEPT ![sp] = g]
      /\ UNCHANGED <<search, nodata, smarts, setup, err, referrals>>
  BY <1>4 DEF Done, Rest
<1> HIDE DEF g
<1>7. /\ stack' \in [0 .. MaxDepth - 1 -> Frames] /\ stack'[sp] = g
      /\ \A i \in 0 .. MaxDepth - 1 : i # sp => stack'[i] = stack[i]
      /\ sp' \in 0 .. MaxDepth - 1 /\ sp' + 1 = sp /\ sp' # sp /\ sp' + 1 < MaxDepth
  BY <1>1, <1>5, <1>6
<1>8. ResTypeOK'
  BY <1>6, <1>7 DEF ResInv, ResTypeOK
<1>9. StackInv'
  <2>1. ASSUME NEW i \in 0 .. sp - 1 PROVE FrameInv(i, stack[i])'
    <3>1. stack'[i] = stack[i] /\ FrameInv(i, stack[i])
      BY <1>1, <1>7 DEF ResInv, StackInv
    <3> QED
      BY <1>6, <3>1 DEF FrameInv, Asks, Answers, Candidates
  <2>2. \A i \in 0 .. sp - 1 : stack'[i].st \in Waiting
    BY <1>1, <1>7 DEF ResInv, StackInv
  <2>3. stack'[sp' + 1].answer.rc # "null" /\ stack'[sp' + 1].query # NoQuery
    BY <1>3, <1>5, <1>7
  <2>4. \A i \in 0 .. sp' : FrameInv(i, stack[i])'
    BY <1>6, <2>1
  <2>5. \A i \in 0 .. sp' - 1 : stack'[i].st \in Waiting
    BY <1>1, <1>6, <2>2
  <2> QED
    BY <1>7, <2>3, <2>4, <2>5 DEF StackInv
<1>10. NodataInv'
  <2>1. stack'[0] = stack[0] /\ Candidates' = Candidates
    BY <1>1, <1>6, <1>7 DEF Candidates
  <2> QED
    BY <1>6, <2>1 DEF ResInv, NodataInv
<1> QED
  BY <1>6, <1>8, <1>9, <1>10 DEF ResInv

\* What the frame on top is.
LEMMA TopFrame ==
    ASSUME ResInv
    PROVE  /\ F \in Frames /\ FrameInv(sp, F) /\ sp \in 0 .. MaxDepth - 1
           /\ setup \in Setups /\ nodata \in Packets /\ search \in 0 .. Len(Search)
           /\ smarts \subseteq Names /\ referrals \in Nat
           /\ F.query \in Questions /\ F.asked \in Questions /\ F.answer \in Packets
           /\ F.st \in Waiting => /\ stack[sp + 1] \in Frames
                                  /\ stack[sp + 1].answer # Null
                                  /\ stack[sp + 1].query # NoQuery
<1>1. F \in Frames /\ FrameInv(sp, F) /\ sp \in 0 .. MaxDepth - 1 /\ MaxDepth \in Nat
  BY ResAssumption DEF ResInv, ResTypeOK, StackInv, F
<1>2. ASSUME F.st \in Waiting
      PROVE  stack[sp + 1] \in Frames /\ stack[sp + 1].answer # Null /\ stack[sp + 1].query # NoQuery
  <2>1. sp + 1 \in 0 .. MaxDepth - 1
    BY <1>1, <1>2 DEF ResInv, StackInv, F
  <2>2. stack[sp + 1].answer.rc # "null" /\ stack[sp + 1].query # NoQuery
    BY <1>2 DEF ResInv, StackInv, F
  <2> QED
    BY <2>1, <2>2, NullType DEF ResInv, ResTypeOK
<1> QED
  BY <1>1, <1>2 DEF ResInv, ResTypeOK, Frames

\* A frame g that takes the place of the one on top and goes on without an
\* answer, in state s; what else may change in such a step.
QuietFrame(s, g) ==
    /\ F.st \notin Answered /\ g.asked = F.asked
    /\ \/ g.query = F.query
       \/ (sp = 0 \/ ~setup.recurse) /\ g.query \in Candidates
    /\ s \in Asking => g.query # NoQuery
    /\ s = "SEARCH" => sp = 0 \/ ~setup.recurse
    /\ ~setup.recurse => /\ s # "RESOLV0_NS"
                         /\ g.ns \subseteq g.glued /\ g.todo \subseteq g.glued
                         /\ s \in {"FOREACH_A", "QUERY_A"} => g.cur \in g.glued
QuietRest ==
    /\ UNCHANGED <<sp, setup, err>> /\ search' \in 0 .. Len(Search)
    /\ smarts' \subseteq Names /\ referrals' \in Nat /\ nodata' \in Packets
    /\ \/ nodata' \in {nodata, Null}
       \/ /\ ~setup.recurse /\ nodata'.rc = "ok"
          /\ sp = 0 => nodata'.q \in Candidates

\* Such a step keeps the invariant.
LEMMA QuietKeeps ==
    ASSUME ResInv, NEW s \in States \ (Waiting \cup Answered), NEW g \in Frames, Keep(s, g),
           QuietFrame(s, g), QuietRest
    PROVE  ResInv'
<1> USE DEF QuietFrame, QuietRest
<1>1. F \in Frames /\ FrameInv(sp, F)
  BY TopFrame
<1> DEFINE f == [g EXCEPT !.st = s]
<1>2. /\ f.st = s /\ f.query = g.query /\ f.asked = F.asked /\ f.ns = g.ns
      /\ f.glued = g.glued /\ f.todo = g.todo /\ f.cur = g.cur
  BY StateType
<1> HIDE DEF f
<1>3. /\ (sp > 0 \/ f.st \in Asking) => f.query # NoQuery
      /\ f.query # NoQuery => f.query[2] # "null" /\ Asks(sp, f)
  BY <1>1, <1>2, CandidateType DEF ResInv, FrameInv, Asks
<1>4. f.st \notin Answered /\ f.st \notin {"SMART0_A", "SMART1_A"}
  BY <1>2 DEF Answered
<1>5. ~setup.recurse => Knows(f)
  BY <1>2 DEF Knows, Waiting
<1>6. FrameInv(sp, f)
  BY <1>2, <1>3, <1>4, <1>5 DEF FrameInv
<1> QED
  BY <1>6, TopKeeps DEF f

\* A frame that only moves to another state.
LEMMA BecomeKeeps ==
    ASSUME ResInv, NEW s \in States \ (Waiting \cup Answered), Become(s),
           F.st \notin Answered, s \in Asking => F.query # NoQuery,
           s = "SEARCH" => sp = 0 \/ ~setup.recurse,
           ~setup.recurse => /\ s # "RESOLV0_NS"
                             /\ s \in {"FOREACH_A", "QUERY_A"} => F.cur \in F.glued,
           UNCHANGED <<sp, nodata, setup, err, referrals>>, search' \in 0 .. Len(Search),
           smarts' \subseteq Names
    PROVE  ResInv'
<1>1. F \in Frames /\ FrameInv(sp, F)
  BY TopFrame
<1>2. Keep(s, F)
  BY <1>1 DEF Become, Keep, F
<1>3. ~setup.recurse => F.ns \subseteq F.glued /\ F.todo \subseteq F.glued
  BY <1>1 DEF FrameInv, Knows
<1>4. QuietRest
  BY TopFrame DEF QuietRest
<1>5. QuietFrame(s, F)
  BY <1>3 DEF QuietFrame
<1> QED
  BY <1>1, <1>2, <1>4, <1>5, QuietKeeps

\* A frame that is given an answer for what it asks, or SERVFAIL.
LEMMA AnswerKeeps ==
    ASSUME ResInv, NEW s \in Answered \ Waiting, NEW p \in Packets, NEW g \in Frames, Keep(s, g),
           g.answer = p, g.query = F.query, g.asked = F.asked, g.ns = F.ns, g.glued = F.glued,
           g.todo = F.todo, F.query = NoQuery => s # "CNAME0_A",
           s = "SMART0_A" => sp = 0,
           \/ p.rc = "ok" /\ F.query # NoQuery /\ p.q = F.query
           \/ p.rc = "ok" /\ sp = 0 /\ p.q \in Candidates
           \/ p.rc = "servfail" /\ p.q \in Candidates
           \/ Answers(sp, g),
           UNCHANGED <<sp, setup, err>>, nodata' \in {nodata, Null}, search' \in 0 .. Len(Search),
           smarts' \subseteq Names, referrals' \in Nat
    PROVE  ResInv'
<1>1. F \in Frames /\ FrameInv(sp, F) /\ nodata' \in Packets
  BY TopFrame, NullType
<1> DEFINE f == [g EXCEPT !.st = s]
<1>2. /\ f.st = s /\ f.query = F.query /\ f.asked = F.asked /\ f.answer = p
      /\ f.ns = F.ns /\ f.glued = F.glued /\ f.todo = F.todo
  BY StateType DEF States
<1> HIDE DEF f
<1>3. Answers(sp, f)
  BY <1>1, <1>2 DEF FrameInv, Asks, Answers
<1>4. FrameInv(sp, f)
  <2>1. (sp > 0 \/ f.st \in Asking) => f.query # NoQuery
    BY <1>1, <1>2 DEF FrameInv, Asking, Answered, Waiting
  <2>2. f.query # NoQuery => f.query[2] # "null" /\ Asks(sp, f)
    BY <1>1, <1>2 DEF FrameInv, Asks
  <2>3. f.st \in {"SMART0_A", "SMART1_A"} => sp = 0
    BY <1>2 DEF Waiting
  <2>4. ~setup.recurse => Knows(f)
    BY <1>1, <1>2 DEF FrameInv, Knows, Answered
  <2>5. f.st # "SEARCH"
    BY <1>2 DEF Answered
  <2> QED
    BY <1>3, <2>1, <2>2, <2>3, <2>4, <2>5 DEF FrameInv
<1> QED
  BY <1>1, <1>4, TopKeeps DEF States, f

\* GLUE: the answers of all frames are packets, and so is what is found there.
LEMMA GlueKeeps == ResInv /\ GlueStep => ResInv'
<1> SUFFICES ASSUME ResInv, GlueStep PROVE ResInv'
  OBVIOUS
<1>1. F \in Frames /\ FrameInv(sp, F) /\ F.st = "GLUE" /\ sp \in Nat /\ F.query \in Questions
      /\ F.st \notin Answered /\ "SWITCH" \in States \ (Waiting \cup Answered \cup Asking)
  BY TopFrame DEF GlueStep, In, Answered, Waiting, Asking, States
<1>2. CASE sp = 0
  BY <1>1, <1>2, BecomeKeeps, TopFrame DEF GlueStep, Rest
<1>3. CASE sp # 0
  <2> DEFINE p == Glue(F.query)
             g == [F EXCEPT !.answer = p]
             all == UNION {stack[i].answer.rrs : i \in 0 .. sp}
             hit(t) == {r \in all : r.name = F.query[1] /\ r.type = t}
             rrs == IF hit(F.query[2]) # {} THEN hit(F.query[2]) ELSE hit("CNAME")
             ans == {[r EXCEPT !.sec = "AN"] : r \in rrs}
  <2>1. F.query # NoQuery
    BY <1>1, <1>3 DEF FrameInv
  <2>2. all \subseteq RRs
    <3>1. ASSUME NEW i \in 0 .. sp PROVE stack[i].answer.rrs \subseteq RRs
      <4>1. stack[i] \in Frames
        BY ResAssumption DEF ResInv, ResTypeOK
      <4> QED
        BY <4>1 DEF Frames, Packets
    <3> QED
      BY <3>1
  <2>3. ans \subseteq RRs
    BY <2>2 DEF RRs
  <2>4. p = Null \/ p = Packet(F.query, ans)
    BY DEF Glue
  <2> HIDE DEF all, hit, rrs, ans
  <2>5. p \in Packets /\ (p # Null => p.rc = "ok" /\ p.q = F.query)
    BY <1>1, <2>3, <2>4, PacketType, NullType
  <2> HIDE DEF p
  <2>6. /\ g \in Frames /\ g.answer = p /\ g.query = F.query /\ g.asked = F.asked
        /\ g.ns = F.ns /\ g.glued = F.glued /\ g.todo = F.todo
    BY <1>1, <2>5 DEF Frames
  <2>7. /\ Keep(CASE p = Null -> "SWITCH" [] Found(p, F.query) -> "FINISH"
                  [] OTHER -> "CNAME0_A", g)
        /\ UNCHANGED <<sp, search, nodata, smarts, setup, err, referrals>>
    BY <1>3, <2>1 DEF GlueStep, Rest, p
  <2>t. /\ search' \in 0 .. Len(Search) /\ smarts' \subseteq Names /\ referrals' \in Nat
        /\ nodata' \in Packets /\ nodata' \in {nodata, Null}
        /\ ~setup.recurse => F.ns \subseteq F.glued /\ F.todo \subseteq F.glued
    BY <1>1, <2>7, TopFrame DEF FrameInv, Knows
  <2> HIDE DEF g
  <2>8. CASE p = Null
    <3>1. Keep("SWITCH", g)
      <4> DEFINE s == CASE p = Null -> "SWITCH" [] Found(p, F.query) -> "FINISH"
                        [] OTHER -> "CNAME0_A"
      <4>1. p = Null /\ ~Found(p, F.query)
        BY <2>8 DEF Found, InAnswer, Of, Null
      <4>2. s = "SWITCH"
        BY <4>1
      <4> QED
        BY <2>7, <4>2
    <3>2. QuietFrame("SWITCH", g)
      BY <1>1, <2>6, <2>t DEF QuietFrame
    <3>3. QuietRest
      BY <2>7, <2>t DEF QuietRest
    <3> QED
      BY <1>1, <2>6, <3>1, <3>2, <3>3, QuietKeeps
  <2>9. CASE p # Null
    <3>1. PICK s \in {"FINISH", "CNAME0_A"} : Keep(s, g)
      BY <2>7, <2>9
    <3>2. s \in Answered \ Waiting /\ s # "SMART0_A"
      BY DEF Answered, Waiting
    <3> QED
      BY <2>1, <2>5, <2>6, <2>7, <2>9, <2>t, <3>1, <3>2, AnswerKeeps
  <2> QED
    BY <2>8, <2>9
<1> QED
  BY <1>2, <1>3

\* SWITCH: the next method, or the answer that was kept: frame 0 has not had one
\* yet, so that this is an answer to one of its own questions.
LEMMA SwitchKeeps == ResInv /\ Switch => ResInv'
<1> SUFFICES ASSUME ResInv, Switch PROVE ResInv'
  OBVIOUS
<1>1. /\ F \in Frames /\ FrameInv(sp, F) /\ F.st = "SWITCH" /\ sp \in Nat
      /\ F.st \notin Answered
      /\ UNCHANGED <<sp, search, smarts, setup, err, referrals>>
  BY TopFrame DEF Switch, In, Answered, Rest
<1>t. /\ search' \in 0 .. Len(Search) /\ smarts' \subseteq Names /\ referrals' \in Nat
      /\ ~setup.recurse => F.ns \subseteq F.glued /\ F.todo \subseteq F.glued
  BY <1>1, TopFrame DEF FrameInv, Knows
<1>2. CASE Ahead # {}
  <2> DEFINE i == CHOOSE i \in Ahead : \A j \in Ahead : i <= j
             g == [F EXCEPT !.tier = i]
             s == Methods[setup.lookup[i]]
  <2>1. Ahead \in SUBSET Nat
    BY <1>1 DEF Ahead, Frames
  <2>2. i \in Ahead
    BY <1>2, <2>1, LeastExists
  <2>3. i \in Nat /\ setup.lookup[i] \in DOMAIN Methods
    BY <2>1, <2>2 DEF Ahead
  <2>4. s \in {"BIND", "FILE", "CACHE"}
    BY <2>3 DEF Methods
  <2>5. Keep(s, g) /\ nodata' = nodata
    BY <1>2 DEF Switch
  <2> HIDE DEF i, s
  <2>6. /\ g \in Frames /\ g.query = F.query /\ g.asked = F.asked
        /\ g.ns = F.ns /\ g.glued = F.glued /\ g.todo = F.todo
    BY <1>1, <2>3 DEF Frames
  <2>7. s \in States \ (Waiting \cup Answered \cup Asking) /\ s # "SEARCH"
    BY <2>4 DEF States, Waiting, Answered, Asking
  <2>8. s \notin {"RESOLV0_NS", "FOREACH_A", "QUERY_A"} /\ nodata' \in Packets
    BY <2>4, <2>5, TopFrame
  <2> HIDE DEF g
  <2>9. QuietFrame(s, g)
    BY <1>1, <1>t, <2>6, <2>7, <2>8 DEF QuietFrame
  <2>10. QuietRest
    BY <1>1, <1>t, <2>5, <2>8 DEF QuietRest
  <2> QED
    BY <2>5, <2>6, <2>7, <2>9, <2>10, QuietKeeps
<1>3. CASE Ahead = {} /\ sp = 0 /\ nodata # Null
  <2> DEFINE g == [F EXCEPT !.answer = nodata]
  <2>1. Keep("FINISH", g) /\ nodata' = Null
    BY <1>3 DEF Switch
  <2>2. nodata \in Packets /\ nodata.rc = "ok" /\ nodata.q \in Candidates
    BY <1>1, <1>3, TopFrame DEF ResInv, NodataInv, F
  <2>3. /\ g \in Frames /\ g.query = F.query /\ g.asked = F.asked /\ g.answer = nodata
        /\ g.ns = F.ns /\ g.glued = F.glued /\ g.todo = F.todo
    BY <1>1, <2>2 DEF Frames
  <2>4. "FINISH" \in Answered \ Waiting
    BY DEF Answered, Waiting
  <2> HIDE DEF g
  <2> QED
    BY <1>1, <1>3, <1>t, <2>1, <2>2, <2>3, <2>4, AnswerKeeps
<1>4. CASE Ahead = {} /\ ~(sp = 0 /\ nodata # Null)
  <2>1. Become("SERVFAIL") /\ nodata' = nodata
    BY <1>4 DEF Switch
  <2>2. "SERVFAIL" \in States \ (Waiting \cup Answered \cup Asking)
    BY DEF States, Waiting, Answered, Asking
  <2> QED
    BY <1>1, <1>t, <2>1, <2>2, BecomeKeeps
<1> QED
  BY <1>2, <1>3, <1>4

\* FILE and CACHE: an answer for the question, or none.
LEMMA FileKeeps == ASSUME ResInv, NEW hit \in 0 .. Len(Search), File(hit) PROVE ResInv'
<1>1. /\ F \in Frames /\ FrameInv(sp, F) /\ F.st = "FILE" /\ sp \in Nat
      /\ F.st \notin Answered /\ F.query \in Questions
      /\ UNCHANGED <<sp, nodata, smarts, setup, err, referrals>>
  BY TopFrame DEF File, In, Answered, Rest
<1>t. /\ search' \in 0 .. Len(Search) /\ smarts' \subseteq Names /\ referrals' \in Nat
      /\ nodata' \in Packets /\ nodata' \in {nodata, Null}
      /\ ~setup.recurse => F.ns \subseteq F.glued /\ F.todo \subseteq F.glued
  BY <1>1, TopFrame, ResAssumption DEF FrameInv, Knows, File
<1>s. /\ "SWITCH" \in States \ (Waiting \cup Answered \cup Asking)
      /\ "FINISH" \in Answered \ Waiting
  BY DEF States, Waiting, Answered, Asking
<1> DEFINE g(p) == [F EXCEPT !.answer = p]
<1>g. ASSUME NEW p \in Packets
      PROVE  /\ g(p) \in Frames /\ g(p).query = F.query /\ g(p).asked = F.asked
             /\ g(p).answer = p /\ g(p).ns = F.ns /\ g(p).glued = F.glued
             /\ g(p).todo = F.todo
  BY <1>1 DEF Frames
<1>2. CASE Keep("SWITCH", g(Null))
  <2>1. Keep("SWITCH", g(Null))
    BY <1>2
  <2>2. g(Null) \in Frames /\ QuietFrame("SWITCH", g(Null))
    BY <1>1, <1>g, <1>s, <1>t, NullType DEF QuietFrame
  <2>3. QuietRest
    BY <1>1, <1>t DEF QuietRest
  <2> QED
    BY <1>s, <2>1, <2>2, <2>3, QuietKeeps
<1>3. CASE sp > 0 /\ hit > 0
  <2> DEFINE p == Packet(F.query, {RR(F.query[1], F.query[2], "addr", "AN")})
  <2>0. F.query # NoQuery
    BY <1>1, <1>3 DEF FrameInv
  <2>1. {RR(F.query[1], F.query[2], "addr", "AN")} \subseteq RRs
    <3>1. F.query[1] \in Names /\ F.query[2] \in {"A", "MX"} /\ "addr" \in Names
      BY <1>1, <2>0 DEF FrameInv, Questions, Names
    <3> QED
      BY <3>1 DEF RR, RRs
  <2>2. p \in Packets /\ p.rc = "ok" /\ p.q = F.query
    BY <1>1, <2>1, PacketType
  <2>3. Keep("FINISH", g(p))
    BY <1>3 DEF File
  <2> HIDE DEF p
  <2> QED
    BY <1>1, <1>g, <1>s, <1>t, <2>0, <2>2, <2>3, AnswerKeeps
<1>4. CASE sp = 0 /\ hit \in 1 .. Len(Search)
  <2> DEFINE q == <<Search[hit], setup.qtype>>
             p == Packet(q, {RR(Search[hit], setup.qtype, "addr", "AN")})
  <2>1. q \in Candidates /\ q \in Questions
    BY <1>4, CandidateType DEF ResInv
  <2>2. {RR(Search[hit], setup.qtype, "addr", "AN")} \subseteq RRs
    <3>1. Search[hit] \in Names /\ setup.qtype \in {"A", "MX"} /\ "addr" \in Names
      BY <1>4, TopFrame, ResAssumption DEF Names, Setups
    <3> QED
      BY <3>1 DEF RR, RRs
  <2>3. p \in Packets /\ p.rc = "ok" /\ p.q = q
    BY <2>1, <2>2, PacketType
  <2>4. Keep("FINISH", g(p))
    BY <1>4 DEF File
  <2> HIDE DEF p
  <2> QED
    BY <1>1, <1>4, <1>g, <1>s, <1>t, <2>1, <2>3, <2>4, AnswerKeeps
<1> QED
  BY <1>1, <1>2, <1>3, <1>4 DEF File

\* CACHE: the same, for a question that frame 0 may get here.
LEMMA CacheKeeps == ASSUME ResInv, NEW hit \in 0 .. Len(Search), Cache(hit) PROVE ResInv'
<1>1. /\ F \in Frames /\ FrameInv(sp, F) /\ F.st = "CACHE" /\ sp \in Nat
      /\ F.st \notin Answered /\ F.query \in Questions
      /\ UNCHANGED <<sp, search, nodata, smarts, setup, err, referrals>>
  BY TopFrame DEF Cache, In, Answered, Rest
<1>t. /\ search' \in 0 .. Len(Search) /\ smarts' \subseteq Names /\ referrals' \in Nat
      /\ nodata' \in Packets /\ nodata' \in {nodata, Null}
      /\ ~setup.recurse => F.ns \subseteq F.glued /\ F.todo \subseteq F.glued
  BY <1>1, TopFrame DEF FrameInv, Knows
<1>s. "SWITCH" \in States \ (Waiting \cup Answered \cup Asking)
  BY DEF States, Waiting, Answered, Asking
<1> DEFINE q == IF F.query = NoQuery THEN <<qname, setup.qtype>> ELSE F.query
           a == Packet(q, {RR(q[1], q[2], "addr", "AN")})
           g(p) == [F EXCEPT !.query = q, !.answer = p]
<1>q. /\ q \in Questions /\ q[2] # "null" /\ q # NoQuery
      /\ q = F.query \/ (sp = 0 /\ q \in Candidates)
  <2>1. CASE F.query = NoQuery
    <3>1. sp = 0 /\ q = <<qname, setup.qtype>>
      BY <1>1, <2>1 DEF FrameInv
    <3> QED
      BY <3>1, CandidateType DEF ResInv
  <2>2. CASE F.query # NoQuery
    BY <1>1, <2>2 DEF FrameInv
  <2> QED
    BY <2>1, <2>2
<1>k. Keep("FINISH", g(a)) \/ Keep("SWITCH", g(Null))
  BY DEF Cache
<1>a. {RR(q[1], q[2], "addr", "AN")} \subseteq RRs
  <2>1. q[1] \in Names /\ q[2] \in {"A", "MX"} /\ "addr" \in Names
    BY <1>q DEF Questions, Names
  <2> QED
    BY <2>1 DEF RR, RRs
<1> HIDE DEF q
<1>p. a \in Packets /\ a.rc = "ok" /\ a.q = q
  BY <1>a, <1>q, PacketType
<1> HIDE DEF a
<1>g. ASSUME NEW p \in Packets
      PROVE  /\ g(p) \in Frames /\ g(p).query = q /\ g(p).asked = F.asked
             /\ g(p).answer = p /\ g(p).ns = F.ns /\ g(p).glued = F.glued
             /\ g(p).todo = F.todo
  BY <1>1, <1>q DEF Frames
<1> HIDE DEF g
<1>2. CASE Keep("SWITCH", g(Null))
  <2>1. Keep("SWITCH", g(Null))
    BY <1>2
  <2>2. g(Null) \in Frames /\ QuietFrame("SWITCH", g(Null))
    BY <1>1, <1>g, <1>q, <1>s, <1>t, NullType DEF QuietFrame
  <2>3. QuietRest
    BY <1>1, <1>t DEF QuietRest
  <2> QED
    BY <1>s, <2>1, <2>2, <2>3, QuietKeeps
<1>3. CASE Keep("FINISH", g(a))
  <2> DEFINE f == [g(a) EXCEPT !.st = "FINISH"]
  <2>0. "FINISH" \in States \ Waiting /\ "FINISH" \in Answered
    BY DEF States, Answered, Waiting
  <2>1. /\ f.st = "FINISH" /\ f.query = q /\ f.asked = F.asked /\ f.answer = a
        /\ f.ns = F.ns /\ f.glued = F.glued /\ f.todo = F.todo
    BY <1>g, <1>p, <2>0, StateType
  <2> HIDE DEF f
  <2>2. Asks(sp, f)
    BY <1>1, <1>q, <2>1 DEF FrameInv, Asks
  <2>3. Answers(sp, f)
    BY <1>p, <2>1, <2>2 DEF Asks, Answers
  <2>4. ~setup.recurse => Knows(f)
    BY <1>t, <2>1 DEF Knows
  <2>5. FrameInv(sp, f)
    BY <1>q, <2>1, <2>2, <2>3, <2>4 DEF FrameInv
  <2> QED
    BY <1>1, <1>3, <1>g, <1>p, <1>t, <2>0, <2>5, TopKeeps DEF f
<1> QED
  BY <1>2, <1>3, <1>k

\* BIND, SEARCH and HINTS: a question for the frame, and the servers to ask.
LEMMA BindKeeps == ResInv /\ (Bind \/ SearchStep \/ Hints) => ResInv'
<1> SUFFICES ASSUME ResInv, Bind \/ SearchStep \/ Hints PROVE ResInv'
  OBVIOUS
<1>1. /\ F \in Frames /\ FrameInv(sp, F) /\ sp \in Nat
      /\ F.query \in Questions
      /\ ~setup.recurse => F.ns \subseteq F.glued /\ F.todo \subseteq F.glued
  BY TopFrame DEF FrameInv, Knows
<1>s. /\ "SWITCH" \in States \ (Waiting \cup Answered \cup Asking)
      /\ "SEARCH" \in States \ (Waiting \cup Answered \cup Asking)
      /\ "HINTS" \in States \ (Waiting \cup Answered)
      /\ "FOREACH_NS" \in States \ (Waiting \cup Answered)
  BY DEF States, Waiting, Answered, Asking
<1>l. Len(Search) \in Nat
  BY ResAssumption
<1>2. CASE Bind
  <2>1. F.st = "BIND" /\ F.st \notin Answered
    BY <1>2 DEF Bind, In, Answered
  <2>2. CASE sp = 0
    BY <1>1, <1>2, <1>l, <1>s, <2>1, <2>2, BecomeKeeps, TopFrame DEF Bind, Rest
  <2>3. CASE sp # 0
    <3>1. F.query # NoQuery
      BY <1>1, <2>3 DEF FrameInv
    <3> QED
      BY <1>2, <1>s, <2>1, <2>3, <3>1, BecomeKeeps, TopFrame DEF Bind, Rest
  <2> QED
    BY <2>2, <2>3
<1>3. CASE SearchStep
  <2>1. /\ F.st = "SEARCH" /\ F.st \notin Answered /\ search \in 0 .. Len(Search)
        /\ UNCHANGED <<sp, nodata, smarts, setup, err, referrals>>
        /\ sp = 0 \/ ~setup.recurse
    BY <1>1, <1>3, TopFrame DEF SearchStep, In, Answered, Rest, FrameInv
  <2>2. CASE search < Len(Search)
    <3> DEFINE q == <<Search[search + 1], setup.qtype>>
               g == [F EXCEPT !.query = q]
    <3>1. q \in Candidates /\ q \in Questions /\ q # NoQuery
      <4>1. search + 1 \in 1 .. Len(Search)
        BY <1>l, <2>1, <2>2
      <4> QED
        BY <4>1, CandidateType DEF ResInv
    <3>2. search' \in 0 .. Len(Search) /\ Keep("HINTS", g)
      BY <1>3, <1>l, <2>1, <2>2 DEF SearchStep
    <3> HIDE DEF q
    <3>3. /\ g \in Frames /\ g.query = q /\ g.asked = F.asked
          /\ g.ns = F.ns /\ g.glued = F.glued /\ g.todo = F.todo
      BY <1>1, <3>1 DEF Frames
    <3> HIDE DEF g
    <3>4. QuietFrame("HINTS", g)
      BY <1>1, <2>1, <3>1, <3>3 DEF QuietFrame
    <3>5. QuietRest
      BY <2>1, <3>2, TopFrame DEF QuietRest
    <3> QED
      BY <1>s, <3>2, <3>3, <3>4, <3>5, QuietKeeps
  <2>3. CASE ~(search < Len(Search))
    BY <1>3, <1>s, <2>1, <2>3, BecomeKeeps, TopFrame DEF SearchStep
  <2> QED
    BY <2>2, <2>3
<1>4. CASE Hints
  <2> DEFINE g == [F EXCEPT !.ns = {"root"}, !.glued = {"root"}, !.todo = {"root"}]
  <2>1. /\ F.st = "HINTS" /\ F.st \notin Answered /\ Keep("FOREACH_NS", g)
        /\ UNCHANGED <<sp, search, nodata, smarts, setup, err, referrals>>
    BY <1>4 DEF Hints, In, Answered, Rest
  <2>2. F.query # NoQuery
    BY <1>1, <2>1 DEF FrameInv, Asking
  <2>3. /\ g \in Frames /\ g.query = F.query /\ g.asked = F.asked
        /\ g.ns = {"root"} /\ g.glued = {"root"} /\ g.todo = {"root"}
    <3>1. {"root"} \subseteq Names
      BY DEF Names
    <3> QED
      BY <1>1, <3>1 DEF Frames
  <2> HIDE DEF g
  <2>4. QuietFrame("FOREACH_NS", g)
    BY <2>1, <2>2, <2>3 DEF QuietFrame
  <2>5. QuietRest
    BY <2>1, TopFrame DEF QuietRest
  <2> QED
    BY <1>s, <2>1, <2>3, <2>4, <2>5, QuietKeeps
<1> QED
  BY <1>2, <1>3, <1>4

\* FOREACH_NS and FOREACH_A: the next server, the next address.
LEMMA ForeachKeeps == ResInv /\ (ForeachNS \/ ForeachA \/ QueryTimesOut) => ResInv'
<1> SUFFICES ASSUME ResInv, ForeachNS \/ ForeachA \/ QueryTimesOut PROVE ResInv'
  OBVIOUS
<1>1. /\ F \in Frames /\ FrameInv(sp, F) /\ sp \in Nat
      /\ ~setup.recurse => F.ns \subseteq F.glued /\ F.todo \subseteq F.glued
      /\ F.st \notin Answered /\ F.query # NoQuery
      /\ UNCHANGED <<sp, search, nodata, smarts, setup, err, referrals>>
  <2>1. F.st \in {"FOREACH_NS", "FOREACH_A", "QUERY_A"}
    BY DEF ForeachNS, ForeachA, QueryTimesOut, In
  <2>2. UNCHANGED <<sp, search, nodata, smarts, setup, err, referrals>>
    BY DEF ForeachNS, ForeachA, QueryTimesOut, Rest
  <2>3. F.st \in Asking /\ F.st \notin Answered
    BY <2>1 DEF Asking, Answered
  <2> QED
    BY <2>2, <2>3, TopFrame DEF FrameInv, Knows
<1>r. QuietRest
  BY <1>1, TopFrame DEF QuietRest
<1>s. /\ "SWITCH" \in States \ (Waiting \cup Answered \cup Asking)
      /\ {"FOREACH_NS", "FOREACH_A", "QUERY_A", "RESOLV0_NS"}
             \subseteq States \ (Waiting \cup Answered)
  BY DEF States, Waiting, Answered, Asking
<1>2. CASE ForeachNS /\ F.todo = {}
  <2>1. PICK s \in {"FOREACH_NS", "SWITCH"}, T \in {F.ns, F.todo} :
            Keep(s, [F EXCEPT !.attempts = @ + 1, !.todo = T])
    <3>2. [F EXCEPT !.attempts = @ + 1] = [F EXCEPT !.attempts = @ + 1, !.todo = F.todo]
      BY <1>1 DEF Frames
    <3> QED
      BY <1>2, <3>2 DEF ForeachNS
  <2> DEFINE g == [F EXCEPT !.attempts = @ + 1, !.todo = T]
  <2>2. /\ g \in Frames /\ g.query = F.query /\ g.asked = F.asked
        /\ g.ns = F.ns /\ g.glued = F.glued /\ g.todo = T
    <3>1. F.attempts + 1 \in Nat /\ T \subseteq Names
      BY <1>1 DEF Frames
    <3> QED
      BY <1>1, <3>1 DEF Frames
  <2>3. Keep(s, g)
    BY <2>1
  <2> HIDE DEF g
  <2>4. QuietFrame(s, g)
    BY <1>1, <2>2 DEF QuietFrame
  <2> QED
    BY <1>r, <1>s, <2>2, <2>3, <2>4, QuietKeeps
<1>3. CASE ForeachNS /\ F.todo # {}
  <2>1. PICK n \in F.todo :
            Keep("FOREACH_A", [F EXCEPT !.saved = F.todo, !.todo = @ \ {n}, !.cur = n,
                                        !.tried = FALSE])
    BY <1>3 DEF ForeachNS, First
  <2> DEFINE g == [F EXCEPT !.saved = F.todo, !.todo = @ \ {n}, !.cur = n, !.tried = FALSE]
  <2>2. /\ g \in Frames /\ g.query = F.query /\ g.asked = F.asked
        /\ g.ns = F.ns /\ g.glued = F.glued /\ g.todo = F.todo \ {n} /\ g.cur = n
    BY <1>1 DEF Frames
  <2>3. Keep("FOREACH_A", g)
    BY <2>1
  <2> HIDE DEF g
  <2>4. QuietFrame("FOREACH_A", g)
    BY <1>1, <2>2 DEF QuietFrame
  <2> QED
    BY <1>r, <1>s, <2>2, <2>3, <2>4, QuietKeeps
<1>4. CASE ForeachA
  <2>1. ~setup.recurse => F.cur \in F.glued
    BY <1>1, <1>4 DEF FrameInv, Knows, ForeachA, In
  <2>2. CASE F.cur \in F.glued /\ ~F.tried
    <3> DEFINE g == [F EXCEPT !.tried = TRUE]
    <3>2. /\ g \in Frames /\ g.query = F.query /\ g.asked = F.asked
          /\ g.ns = F.ns /\ g.glued = F.glued /\ g.todo = F.todo /\ g.cur = F.cur
      BY <1>1 DEF Frames
    <3>3. Keep("QUERY_A", g)
      BY <1>4, <2>2 DEF ForeachA
    <3> HIDE DEF g
    <3>4. QuietFrame("QUERY_A", g)
      BY <1>1, <2>1, <3>2 DEF QuietFrame
    <3> QED
      BY <1>r, <1>s, <3>2, <3>3, <3>4, QuietKeeps
  <2>3. CASE ~(F.cur \in F.glued /\ ~F.tried)
    <3>1. \/ Become("FOREACH_NS")
          \/ Become("RESOLV0_NS") /\ setup.recurse
      BY <1>4, <2>1, <2>3 DEF ForeachA
    <3>2. CASE Become("FOREACH_NS")
      BY <1>1, <1>r, <1>s, <3>2, BecomeKeeps DEF QuietRest
    <3>3. CASE Become("RESOLV0_NS") /\ setup.recurse
      BY <1>1, <1>r, <1>s, <3>3, BecomeKeeps DEF QuietRest
    <3> QED
      BY <3>1, <3>2, <3>3
  <2> QED
    BY <2>2, <2>3
<1>5. CASE QueryTimesOut
  <2>1. Become("FOREACH_A") /\ (~setup.recurse => F.cur \in F.glued)
    BY <1>1, <1>5 DEF FrameInv, Knows, QueryTimesOut, In
  <2> QED
    BY <1>1, <1>r, <1>s, <2>1, BecomeKeeps DEF QuietRest
<1> QED
  BY <1>2, <1>3, <1>4, <1>5

\* RESOLV0_NS, RESOLV1_NS: the address of a name server, in a frame of its own.
LEMMA ResolvKeeps == ResInv /\ (Resolv0NS \/ Resolv1NS) => ResInv'
<1> SUFFICES ASSUME ResInv, Resolv0NS \/ Resolv1NS PROVE ResInv'
  OBVIOUS
<1>0. F.st \in {"RESOLV0_NS", "RESOLV1_NS"}
  BY DEF Resolv0NS, Resolv1NS, In
<1>1. /\ F \in Frames /\ FrameInv(sp, F) /\ sp \in Nat /\ F.cur \in Names
      /\ F.st \notin Answered /\ F.query # NoQuery /\ setup.recurse
      /\ F.query \in Questions
  BY <1>0, TopFrame DEF FrameInv, Knows, Asking, Answered, Frames, Setups
<1>s. "FOREACH_NS" \in States \ (Waiting \cup Answered)
  BY DEF States, Waiting, Answered, Asking
<1>2. CASE Resolv0NS /\ Room
  <2> DEFINE q == <<F.cur, "A">>
             f == [F EXCEPT !.st = "RESOLV1_NS"]
  <2>1. /\ Push("RESOLV1_NS", q)
        /\ UNCHANGED <<search, nodata, smarts, setup, err, referrals>>
    BY <1>2 DEF Resolv0NS, Rest
  <2>2. q \in Questions /\ q[2] # "null"
    BY <1>1 DEF Questions
  <2>3. "RESOLV1_NS" \in Waiting /\ "RESOLV1_NS" \in States
    BY DEF Waiting, States
  <2>4. f.st = "RESOLV1_NS" /\ f.query = F.query /\ f.asked = F.asked
    BY <1>1, <2>3, StateType
  <2> HIDE DEF f
  <2>5. FrameInv(sp, f)
    BY <1>1, <2>4 DEF FrameInv, Asks, Answered
  <2>6. smarts' \subseteq Names
    BY <2>1, TopFrame
  <2> HIDE DEF q
  <2> QED
    BY <1>1, <1>2, <2>1, <2>2, <2>3, <2>5, <2>6, PushKeeps DEF f
<1>3. CASE Resolv0NS /\ ~Room
  BY <1>1, <1>3, <1>s, BecomeKeeps, TopFrame DEF Resolv0NS, Rest
<1>4. CASE Resolv1NS
  <2> DEFINE c == stack[sp + 1]
  <2>1. c.answer # Null /\ c.query # NoQuery
    BY <1>4, TopFrame DEF Resolv1NS, In, Waiting
  <2> DEFINE G == IF c.query[1] = F.cur THEN F.glued \cup {F.cur} ELSE F.glued
             g == IF Of(c.answer, c.query[1], "A") = {} THEN F
                  ELSE [F EXCEPT !.glued = IF c.query[1] = F.cur THEN @ \cup {F.cur} ELSE @,
                                 !.todo = F.saved]
  <2>2. /\ Keep("FOREACH_NS", g)
        /\ UNCHANGED <<sp, search, nodata, smarts, setup, err, referrals>>
    BY <1>4, <2>1 DEF Resolv1NS, Rest
  <2>3. g \in Frames /\ g.query = F.query /\ g.asked = F.asked
    <3>1. F.glued \subseteq Names /\ F.saved \subseteq Names
      BY <1>1 DEF Frames
    <3>2. G \subseteq Names
      BY <1>1, <3>1
    <3>3. g = F \/ g = [F EXCEPT !.glued = G, !.todo = F.saved]
      BY <1>1 DEF Frames
    <3> HIDE DEF G, g
    <3> QED
      BY <1>1, <3>1, <3>2, <3>3 DEF Frames
  <2> HIDE DEF g, c
  <2>4. QuietFrame("FOREACH_NS", g)
    BY <1>1, <2>3 DEF QuietFrame
  <2>5. QuietRest
    BY <2>2, TopFrame DEF QuietRest
  <2> QED
    BY <1>s, <2>2, <2>3, <2>4, <2>5, QuietKeeps
<1> QED
  BY <1>2, <1>3, <1>4

\* What servers answer is a packet, for the question that was asked.
LEMMA ReplyType ==
    ASSUME NEW q \in Questions, q[2] # "null", NEW p \in Replies(q)
    PROVE  p \in Packets /\ p.rc = "ok"
<1> DEFINE n == q[1]
           t == q[2]
           alias == RR(n, "CNAME", Alias(n), "AN")
           hit(m) == RR(m, t, Value(t), "AN")
           refer(hosts, glue) ==
               [Packet(q, {RR(h, "A", "addr", "AR") : h \in glue}) EXCEPT !.ns = hosts]
<1>1. /\ n \in Names /\ t \in {"A", "MX"} /\ Alias(n) \in Names /\ Value(t) \in Names
      /\ {"n1", "n2", "addr"} \subseteq Names
  BY DEF Questions, Alias, Value, Names
<1>2. alias \in RRs /\ hit(n) \in RRs /\ hit(Alias(n)) \in RRs
  BY <1>1 DEF RR, RRs
<1>3. ASSUME NEW h \in Names PROVE RR(h, "A", "addr", "AR") \in RRs
  BY <1>1, <1>3 DEF RR, RRs
<1>4. ASSUME NEW H \in SUBSET Names, NEW G \in SUBSET Names
      PROVE  refer(H, G) \in Packets /\ refer(H, G).rc = "ok"
  <2> DEFINE rrs == {RR(h, "A", "addr", "AR") : h \in G}
  <2>1. rrs \subseteq RRs
    BY <1>3
  <2> HIDE DEF rrs
  <2>2. Packet(q, rrs) \in Packets /\ Packet(q, rrs).rc = "ok"
    BY <2>1, PacketType
  <2>3. [Packet(q, rrs) EXCEPT !.ns = H] \in Packets /\ [Packet(q, rrs) EXCEPT !.ns = H].rc = "ok"
    BY <2>2 DEF Packets
  <2> QED
    BY <2>3 DEF rrs
<1>5. p \in {Packet(q, {hit(n)}), Packet(q, {alias}), Packet(q, {alias, hit(Alias(n))}),
             Packet(q, {}), [Packet(q, {}) EXCEPT !.aa = TRUE],
             refer({"n1"}, {}), refer({"n1", "n2"}, {"n2"})}
  BY DEF Replies
<1> HIDE DEF alias, hit, refer
<1>6. CASE p \in {Packet(q, {hit(n)}), Packet(q, {alias}), Packet(q, {alias, hit(Alias(n))}),
                  Packet(q, {})}
  BY <1>2, <1>6, PacketType
<1>7. CASE p = [Packet(q, {}) EXCEPT !.aa = TRUE]
  <2>1. Packet(q, {}) \in Packets /\ Packet(q, {}).rc = "ok"
    BY PacketType
  <2> QED
    BY <1>7, <2>1 DEF Packets
<1>8. CASE p \in {refer({"n1"}, {}), refer({"n1", "n2"}, {"n2"})}
  <2>1. {"n1"} \in SUBSET Names /\ {"n1", "n2"} \in SUBSET Names /\ {"n2"} \in SUBSET Names
        /\ {} \in SUBSET Names
    BY <1>1
  <2> QED
    BY <1>4, <1>8, <2>1
<1> QED
  BY <1>5, <1>6, <1>7, <1>8

\* QUERY_A: an answer, an alias, something to keep for the end, or a referral.
LEMMA QueryKeeps == ASSUME ResInv, NEW p \in Replies(F.query), QueryA(p) PROVE ResInv'
<1>1. /\ F \in Frames /\ FrameInv(sp, F) /\ sp \in Nat /\ F.query \in Questions
      /\ F.st = "QUERY_A" /\ F.st \notin Answered
      /\ ~setup.recurse => /\ F.ns \subseteq F.glued /\ F.todo \subseteq F.glued
                           /\ F.cur \in F.glued
  BY TopFrame DEF QueryA, In, FrameInv, Knows, Answered
<1>2. F.query # NoQuery /\ F.query[2] # "null"
  BY <1>1 DEF FrameInv, Asking
<1>3. p \in Packets /\ p.rc = "ok" /\ p.q = F.query
  BY <1>1, <1>2, ReplyType DEF QueryA
<1>t. /\ search' \in 0 .. Len(Search) /\ smarts' \subseteq Names /\ referrals' \in Nat
      /\ UNCHANGED <<sp, setup, err, search, smarts>> /\ nodata \in Packets
  BY TopFrame DEF QueryA
<1>s. /\ {"FINISH", "CNAME0_A"} \subseteq Answered \ Waiting
      /\ {"SEARCH", "FOREACH_NS", "FOREACH_A"} \subseteq States \ (Waiting \cup Answered)
  BY DEF States, Waiting, Answered, Asking
<1> DEFINE g(a) == [F EXCEPT !.answer = a]
<1>g. ASSUME NEW a \in Packets
      PROVE  /\ g(a) \in Frames /\ g(a).query = F.query /\ g(a).asked = F.asked
             /\ g(a).answer = a /\ g(a).ns = F.ns /\ g(a).glued = F.glued
             /\ g(a).todo = F.todo /\ g(a).cur = F.cur
  BY <1>1 DEF Frames
<1> DEFINE Gets(s) == Keep(s, g(p)) /\ UNCHANGED nodata
           Kept == nodata' = p /\ Keep("SEARCH", g(Null)) /\ ~setup.recurse
           glued == {n \in p.ns : Of(p, n, "A") # {}}
           r == [F EXCEPT !.answer = Null, !.ns = p.ns, !.todo = p.ns, !.glued = glued]
           Refers == Keep("FOREACH_NS", r) /\ UNCHANGED nodata /\ setup.recurse
<1>4. \/ Gets("FINISH") \/ Gets("CNAME0_A") \/ Kept \/ (Gets("SEARCH") /\ ~setup.recurse)
      \/ Refers \/ (Gets("FOREACH_A") /\ setup.recurse)
  BY DEF QueryA
<1>5. ASSUME NEW s \in {"FINISH", "CNAME0_A"}, Gets(s) PROVE ResInv'
  <2>1. s \in Answered \ Waiting /\ s # "SMART0_A"
    BY <1>s, <1>5
  <2>2. g(p) \in Frames /\ Keep(s, g(p)) /\ nodata' \in {nodata, Null}
    BY <1>3, <1>5, <1>g
  <2> QED
    BY <1>2, <1>3, <1>g, <1>t, <2>1, <2>2, AnswerKeeps
<1>6. ASSUME NEW s \in {"SEARCH", "FOREACH_A"}, NEW a \in Packets, Keep(s, g(a)),
             s = "SEARCH" => ~setup.recurse, nodata' = nodata \/ Kept
      PROVE  ResInv'
  <2>1. QuietFrame(s, g(a))
    BY <1>1, <1>2, <1>6, <1>g DEF QuietFrame
  <2>2. sp = 0 => p.q \in Candidates
    BY <1>1, <1>2, <1>3 DEF FrameInv, Asks
  <2>3. nodata' \in Packets /\ (nodata' \in {nodata, Null} \/ (nodata' = p /\ ~setup.recurse))
    BY <1>3, <1>6, <1>t
  <2>4. QuietRest
    BY <1>3, <1>t, <2>2, <2>3 DEF QuietRest
  <2>5. s \in States \ (Waiting \cup Answered) /\ g(a) \in Frames
    BY <1>6, <1>g, <1>s
  <2> QED
    BY <1>6, <2>1, <2>4, <2>5, QuietKeeps
<1>7. CASE Refers
  <2>1. p.ns \subseteq Names /\ glued \subseteq Names /\ Null \in Packets
    BY <1>3, NullType DEF Packets
  <2> HIDE DEF glued
  <2>2. r \in Frames /\ r.query = F.query /\ r.asked = F.asked
    BY <1>1, <2>1 DEF Frames
  <2> HIDE DEF r
  <2>3. QuietFrame("FOREACH_NS", r)
    BY <1>1, <1>2, <1>7, <2>2 DEF QuietFrame
  <2>4. QuietRest
    BY <1>7, <1>t DEF QuietRest
  <2>5. "FOREACH_NS" \in States \ (Waiting \cup Answered)
    BY <1>s
  <2> QED
    BY <1>7, <2>2, <2>3, <2>4, <2>5, QuietKeeps
<1>8. CASE Kept
  <2>1. Keep("SEARCH", g(Null)) /\ ~setup.recurse /\ "SEARCH" \in {"SEARCH", "FOREACH_A"}
    BY <1>8
  <2> QED
    BY <1>6, <1>8, <2>1, NullType
<1>9. ASSUME NEW s \in {"SEARCH", "FOREACH_A"}, Gets(s), s = "SEARCH" => ~setup.recurse
      PROVE  ResInv'
  BY <1>3, <1>6, <1>9
<1> QED
  BY <1>4, <1>5, <1>7, <1>8, <1>9

\* CNAME0_A, CNAME1_A: the frame of the alias asks for the same type, and its
\* records join the answer, which stays one for the frame's own question.
LEMMA CnameKeeps == ResInv /\ (Cname0A \/ Cname1A) => ResInv'
<1> SUFFICES ASSUME ResInv, Cname0A \/ Cname1A PROVE ResInv'
  OBVIOUS
<1>1. /\ F \in Frames /\ FrameInv(sp, F) /\ sp \in Nat /\ F.query \in Questions
      /\ F.answer \in Packets /\ F.st \in {"CNAME0_A", "CNAME1_A"}
  BY TopFrame DEF Cname0A, Cname1A, In
<1>2. Answers(sp, F)
  BY <1>1 DEF FrameInv, Answered
<1>t. /\ search' \in 0 .. Len(Search) /\ smarts' \subseteq Names /\ referrals' \in Nat
      /\ UNCHANGED <<setup, err, search, smarts, nodata, referrals>>
  <2>1. F.answer # Null /\ (F.st = "CNAME1_A" => stack[sp + 1].answer # Null)
    BY <1>2, NullType, TopFrame DEF Answers, Waiting
  <2>2. UNCHANGED <<setup, err, search, smarts, nodata, referrals>>
    BY <2>1 DEF Cname0A, Cname1A, Rest, In
  <2> QED
    BY <2>2, TopFrame
<1>s. /\ "FINISH" \in Answered \ Waiting /\ "CNAME1_A" \in Waiting /\ "CNAME1_A" \in Answered
      /\ "CNAME1_A" \in States
  BY DEF States, Waiting, Answered
<1>3. CASE Cname0A /\ Room
  <2>1. PICK x \in InAnswer(Of(F.answer, F.query[1], "CNAME")) :
            Push("CNAME1_A", <<x.to, F.query[2]>>)
    BY <1>3 DEF Cname0A
  <2> DEFINE q == <<x.to, F.query[2]>>
             f == [F EXCEPT !.st = "CNAME1_A"]
  <2>2. F.query[2] # "null" /\ F.query # NoQuery
    BY <1>1, <1>3 DEF FrameInv, Asking, Cname0A, In
  <2>3. q \in Questions /\ q[2] # "null"
    <3>1. x \in RRs
      BY <1>1 DEF InAnswer, Of, Packets
    <3> QED
      BY <1>1, <2>2, <3>1 DEF RRs, Questions
  <2>4. Push("CNAME1_A", q)
    BY <2>1
  <2> HIDE DEF q
  <2>5. /\ f.st = "CNAME1_A" /\ f.query = F.query /\ f.asked = F.asked /\ f.answer = F.answer
        /\ f.ns = F.ns /\ f.glued = F.glued /\ f.todo = F.todo
    BY <1>1, <1>s, StateType
  <2> HIDE DEF f
  <2>6. Answers(sp, f) /\ (f.query # NoQuery => f.query[2] # "null" /\ Asks(sp, f))
    BY <1>1, <1>2, <2>5 DEF FrameInv, Asks, Answers
  <2>7. ~setup.recurse => Knows(f)
    BY <1>1, <2>5 DEF FrameInv, Knows
  <2>8. FrameInv(sp, f)
    BY <2>2, <2>5, <2>6, <2>7 DEF FrameInv
  <2> QED
    BY <1>3, <1>s, <1>t, <2>3, <2>4, <2>8, PushKeeps DEF f
<1>4. CASE Cname0A /\ ~Room
  <2>1. Keep("FINISH", F) /\ sp' = sp /\ nodata' \in {nodata, Null}
    BY <1>1, <1>4, <1>t DEF Cname0A, Become, Keep, F
  <2>2. "FINISH" # "CNAME0_A" /\ "FINISH" # "SMART0_A"
    OBVIOUS
  <2> QED
    BY <1>1, <1>2, <1>s, <1>t, <2>1, <2>2, AnswerKeeps
<1>5. CASE Cname1A
  <2> DEFINE c == stack[sp + 1]
             m == Merge(F.answer, c.answer)
             g == [F EXCEPT !.answer = m]
  <2>1. c \in Frames /\ c.answer # Null /\ F.answer # Null
    BY <1>2, <1>5, TopFrame, NullType DEF Cname1A, In, Waiting, Answers
  <2>2. [F EXCEPT !.answer = Merge(@, c.answer)] = g
    BY <1>1 DEF Frames
  <2>3. Keep("FINISH", g) /\ sp' = sp /\ nodata' \in {nodata, Null}
    BY <1>5, <1>t, <2>1, <2>2 DEF Cname1A
  <2>4. m \in Packets /\ m.q = F.answer.q /\ m.rc = F.answer.rc
    <3>1. c.answer \in Packets
      BY <2>1 DEF Frames
    <3> QED
      BY <1>1, <3>1 DEF Merge, Packets
  <2> HIDE DEF m, c
  <2>5. /\ g \in Frames /\ g.query = F.query /\ g.asked = F.asked /\ g.answer = m
        /\ g.ns = F.ns /\ g.glued = F.glued /\ g.todo = F.todo
    BY <1>1, <2>4 DEF Frames
  <2> HIDE DEF g
  <2>6. Answers(sp, g)
    BY <1>2, <2>4, <2>5 DEF Answers
  <2>7. "FINISH" # "CNAME0_A" /\ "FINISH" # "SMART0_A"
    OBVIOUS
  <2> QED
    BY <1>s, <1>t, <2>3, <2>4, <2>5, <2>6, <2>7, AnswerKeeps
<1> QED
  BY <1>3, <1>4, <1>5

\* FINISH, SMART0_A, SMART1_A, SERVFAIL: the answer stays, or is the failure.
LEMMA SmartKeeps == ResInv /\ (Finish \/ Smart0A \/ Smart1A \/ ServFail) => ResInv'
<1> SUFFICES ASSUME ResInv, Finish \/ Smart0A \/ Smart1A \/ ServFail PROVE ResInv'
  OBVIOUS
<1>1. /\ F \in Frames /\ FrameInv(sp, F) /\ sp \in Nat /\ F.query \in Questions
      /\ F.answer \in Packets
  BY TopFrame
<1>s. {"DONE", "SMART0_A"} \subseteq Answered \ Waiting
  BY DEF Waiting, Answered
<1>t. search \in 0 .. Len(Search) /\ smarts \subseteq Names /\ referrals \in Nat
  BY TopFrame
<1>2. CASE Finish
  <2>1. Answers(sp, F) /\ F.st = "FINISH"
    BY <1>1, <1>2 DEF Finish, In, FrameInv, Answered
  <2>2. F.answer # Null
    BY <2>1, NullType DEF Answers
  <2>3. PICK s \in {"DONE", "SMART0_A"} : Become(s) /\ (s = "SMART0_A" => sp = 0)
    BY <1>2, <2>2 DEF Finish
  <2>4. Keep(s, F) /\ s # "CNAME0_A" /\ s \in Answered \ Waiting
    BY <1>1, <1>s, <2>3 DEF Become, Keep, F
  <2>5. /\ UNCHANGED <<sp, setup, err>> /\ nodata' \in {nodata, Null}
        /\ search' \in 0 .. Len(Search) /\ smarts' \subseteq Names /\ referrals' \in Nat
    BY <1>2, <1>t, <2>2 DEF Finish, Rest
  <2> QED
    BY <1>1, <2>1, <2>3, <2>4, <2>5, AnswerKeeps
<1>3. CASE Smart0A
  <2>1. Answers(sp, F) /\ F.st = "SMART0_A" /\ sp = 0
    BY <1>1, <1>3 DEF Smart0A, In, FrameInv, Answered
  <2>2. CASE \E m \in Names : Room /\ Push("SMART1_A", <<m, "A">>) /\ smarts' \subseteq Names
    <3>1. PICK m \in Names : Room /\ Push("SMART1_A", <<m, "A">>) /\ smarts' \subseteq Names
      BY <2>2
    <3> DEFINE q == <<m, "A">>
               f == [F EXCEPT !.st = "SMART1_A"]
    <3>2. q \in Questions /\ q[2] # "null" /\ Push("SMART1_A", q)
      BY <3>1 DEF Questions
    <3> HIDE DEF q
    <3>3. "SMART1_A" \in Waiting /\ "SMART1_A" \in Answered /\ "SMART1_A" \in States
      BY DEF Waiting, Answered, States
    <3>4. /\ f.st = "SMART1_A" /\ f.query = F.query /\ f.asked = F.asked /\ f.answer = F.answer
          /\ f.ns = F.ns /\ f.glued = F.glued /\ f.todo = F.todo
      BY <1>1, <3>3, StateType
    <3> HIDE DEF f
    <3>5. Answers(sp, f) /\ (f.query # NoQuery => f.query[2] # "null" /\ Asks(sp, f))
      BY <1>1, <2>1, <3>4 DEF FrameInv, Asks, Answers
    <3>6. ~setup.recurse => Knows(f)
      BY <1>1, <3>4 DEF FrameInv, Knows
    <3>7. FrameInv(sp, f)
      BY <2>1, <3>4, <3>5, <3>6 DEF FrameInv, Asking
    <3>8. UNCHANGED <<search, nodata, setup, err, referrals>>
      BY <1>3 DEF Smart0A, Rest
    <3> QED
      BY <3>1, <3>2, <3>3, <3>7, <3>8, PushKeeps DEF f
  <2>3. CASE Become("DONE") /\ UNCHANGED <<sp, smarts>>
    <3>1. Keep("DONE", F) /\ "DONE" # "CNAME0_A" /\ "DONE" # "SMART0_A"
      BY <1>1, <2>3 DEF Become, Keep, F
    <3>2. /\ UNCHANGED <<sp, setup, err>> /\ nodata' \in {nodata, Null}
          /\ search' \in 0 .. Len(Search) /\ smarts' \subseteq Names /\ referrals' \in Nat
      BY <1>3, <1>t, <2>3 DEF Smart0A, Rest
    <3> QED
      BY <1>1, <1>s, <2>1, <3>1, <3>2, AnswerKeeps
  <2>4. ASSUME NEW m \in Exchangers PROVE m \in Names
    BY <1>1, <2>4 DEF Exchangers, InAnswer, Packets, RRs
  <2>5. qname \in Names
    BY ResAssumption DEF qname, Names
  <2> QED
    BY <1>3, <1>t, <2>2, <2>3, <2>4, <2>5 DEF Smart0A
<1>4. CASE Smart1A
  <2> DEFINE c == stack[sp + 1]
             new == {[r EXCEPT !.sec = "AR"] :
                        r \in {r \in InAnswer(c.answer.rrs) : r.type = "A"}}
             a == [F.answer EXCEPT !.rrs = @ \cup new]
             g == [F EXCEPT !.answer = a]
  <2>1. /\ Answers(sp, F) /\ F.st = "SMART1_A" /\ sp = 0
        /\ c \in Frames /\ c.answer # Null
    BY <1>1, <1>4, TopFrame DEF Smart1A, In, FrameInv, Answered, Waiting
  <2>2. [F EXCEPT !.answer.rrs = @ \cup new] = g
    BY <1>1 DEF Frames, Packets
  <2>3. Keep("SMART0_A", g)
    BY <1>4, <2>1, <2>2 DEF Smart1A
  <2>4. new \subseteq RRs
    BY <2>1 DEF Frames, Packets, InAnswer, RRs
  <2> HIDE DEF new
  <2>5. a \in Packets /\ a.q = F.answer.q /\ a.rc = F.answer.rc
    BY <1>1, <2>4 DEF Packets
  <2> HIDE DEF a
  <2>6. /\ g \in Frames /\ g.query = F.query /\ g.asked = F.asked /\ g.answer = a
        /\ g.ns = F.ns /\ g.glued = F.glued /\ g.todo = F.todo
    BY <1>1, <2>5 DEF Frames
  <2> HIDE DEF g
  <2>7. Answers(sp, g)
    BY <2>1, <2>5, <2>6 DEF Answers
  <2>8. /\ UNCHANGED <<sp, setup, err>> /\ nodata' \in {nodata, Null}
        /\ search' \in 0 .. Len(Search) /\ smarts' \subseteq Names /\ referrals' \in Nat
    BY <1>4, <1>t, <2>1 DEF Smart1A, Rest
  <2>9. "SMART0_A" # "CNAME0_A"
    OBVIOUS
  <2> QED
    BY <1>s, <2>1, <2>3, <2>5, <2>6, <2>7, <2>8, <2>9, AnswerKeeps
<1>5. CASE ServFail
  <2> DEFINE q == <<qname, setup.qtype>>
             a == [Packet(q, {}) EXCEPT !.rc = "servfail"]
             g == [F EXCEPT !.answer = a]
  <2>1. Keep("DONE", g)
    BY <1>5 DEF ServFail
  <2>2. q \in Candidates /\ q \in Questions
    BY CandidateType DEF ResInv
  <2>3. a \in Packets /\ a.q = q /\ a.rc = "servfail"
    BY <2>2, PacketType DEF Packets
  <2> HIDE DEF a, q
  <2>4. /\ g \in Frames /\ g.query = F.query /\ g.asked = F.asked /\ g.answer = a
        /\ g.ns = F.ns /\ g.glued = F.glued /\ g.todo = F.todo
    BY <1>1, <2>3 DEF Frames
  <2> HIDE DEF g
  <2>5. /\ UNCHANGED <<sp, setup, err>> /\ nodata' \in {nodata, Null}
        /\ search' \in 0 .. Len(Search) /\ smarts' \subseteq Names /\ referrals' \in Nat
    BY <1>5, <1>t DEF ServFail, Rest
  <2>6. "DONE" # "CNAME0_A" /\ "DONE" # "SMART0_A"
    OBVIOUS
  <2> QED
    BY <1>s, <2>1, <2>2, <2>3, <2>4, <2>5, <2>6, AnswerKeeps
<1> QED
  BY <1>2, <1>3, <1>4, <1>5

\* dns_res_exec() never fails for want of a question or an answer, and when a
\* frame is done its answer is for what the frame asked, or it is SERVFAIL:
\* whatever the servers answer, in every order of lookups.
THEOREM AnswersWhatWasAsked == ResSpec => []AnswersItsQuestion
<1>1. ResInit => ResInv
  <2> SUFFICES ASSUME ResInit PROVE ResInv
    OBVIOUS
  <2>1. /\ MaxDepth \in Nat \ {0} /\ Len(Search) \in Nat /\ Null \in Packets
        /\ NoQuery \in Questions
    BY ResAssumption, NullType DEF NoQuery, Questions, Names
  <2>2. /\ stack \in [0 .. MaxDepth - 1 -> Frames] /\ sp = 0 /\ stack[0] = Frame(NoQuery)
    BY <2>1, FrameType DEF ResInit
  <2>3. ResTypeOK
    BY <2>1, <2>2 DEF ResInit, ResTypeOK, Setups
  <2>4. /\ stack[0].st = "GLUE" /\ stack[0].query = NoQuery
        /\ stack[0].ns = {} /\ stack[0].todo = {}
    BY <2>1, <2>2, FrameType
  <2>5. FrameInv(0, stack[0]) /\ "GLUE" \notin Waiting
    BY <2>4 DEF FrameInv, Asking, Answered, Knows, Waiting
  <2>6. StackInv
    BY <2>2, <2>4, <2>5 DEF StackInv
  <2> QED
    BY <2>3, <2>6 DEF ResInit, ResInv, NodataInv
<1>2. ResInv /\ [ResNext]_resVars => ResInv'
  <2> SUFFICES ASSUME ResInv, [ResNext]_resVars PROVE ResInv'
    OBVIOUS
  <2>1. CASE UNCHANGED resVars
    BY <2>1
       DEF resVars, ResInv, ResTypeOK, StackInv, NodataInv, FrameInv, Asks, Answers, Candidates
  <2>2. CASE Exec
    BY <2>2, GlueKeeps, SwitchKeeps, BindKeeps, ForeachKeeps, ResolvKeeps, CnameKeeps,
       SmartKeeps, DoneKeeps, FileKeeps, CacheKeeps DEF Exec
  <2>3. CASE Ask
    BY <2>3, QueryKeeps DEF Ask
  <2> QED
    BY <2>1, <2>2, <2>3 DEF ResNext
<1>3. ResInv => AnswersItsQuestion
  <2> SUFFICES ASSUME ResInv, F.st = "DONE"
               PROVE  IF sp = 0 \/ F.answer.rc = "servfail"
                          \/ (~setup.recurse /\ F.answer.q # F.asked)
                      THEN \E i \in DOMAIN Search : F.answer.q = <<Search[i], setup.qtype>>
                      ELSE F.answer.q = F.asked
    BY DEF AnswersItsQuestion, ResInv
  <2>1. Answers(sp, F) /\ sp \in Nat /\ F.answer \in Packets
    BY TopFrame DEF FrameInv, Answered
  <2> QED
    BY <2>1 DEF Answers, Candidates, Packets
<1> QED
  BY <1>1, <1>2, <1>3, PTL DEF ResSpec
-----------------------------------------------------------------------------
(***************************************************************************)
(* The hosts file. Every entry is of a line that mentions its name, with   *)
(* its address; every mention has an entry; and the entries that are no    *)
(* aliases are as many as the lines that give their address a name.        *)
(***************************************************************************)
HostEntries == [host : HostWords, arpa : HostWords, af : {"v4", "v6", "none"},
                addr : HostWords, alias : BOOLEAN]
Gives(line, a) == line[1] = a /\ a.af # "none" /\ WordCount(line) > 1
Canonical(a) == {i \in DOMAIN hostsList : ~hostsList[i].alias /\ hostsList[i].arpa = a}
Givers(a) == {k \in DOMAIN hostsFile : Gives(hostsFile[k], a)}
HostsTypeOK == hostsFile \in Seq(HostLines) /\ hostsList \in Seq(HostEntries)
EntryInv(e) ==
    /\ e.arpa = e.addr /\ e.af = e.addr.af
    /\ \E k \in DOMAIN hostsFile : Mentions(hostsFile[k], e.addr, e.host)
HostsInv ==
    /\ HostsTypeOK
    /\ \A i \in DOMAIN hostsList : EntryInv(hostsList[i])
    /\ \A k \in DOMAIN hostsFile : \A a, n : Mentions(hostsFile[k], a, n) =>
          \E i \in DOMAIN hostsList : hostsList[i].addr = a /\ hostsList[i].host = n
    /\ \A a : Cardinality(Canonical(a)) = Cardinality(Givers(a))

\* The words of a line that count end at its first comment.
LEMMA WordCountIs ==
    ASSUME NEW line \in Seq(HostWords)
    PROVE  /\ WordCount(line) \in 0 .. Len(line)
           /\ \A i \in 1 .. WordCount(line) : line[i] # Comment
           /\ WordCount(line) = Len(line) \/ line[WordCount(line) + 1] = Comment
<1> DEFINE Ends(n) == n = Len(line) \/ line[n + 1] = Comment
           S == {n \in 0 .. Len(line) : Ends(n)}
<1>1. Len(line) \in S /\ S \in SUBSET Nat
  OBVIOUS
<1>2. PICK m \in S : \A y \in S : m <= y
  BY <1>1, LeastExists
<1>3. ASSUME NEW i \in 1 .. m PROVE line[i] # Comment
  <2>1. m \in 0 .. Len(line) /\ Len(line) \in Nat
    BY <1>2
  <2>2. i - 1 \in 0 .. Len(line) /\ ~(m <= i - 1) /\ (i - 1) + 1 = i
    BY <2>1
  <2>3. i - 1 \notin S
    BY <2>2, <1>2
  <2> QED
    BY <2>2, <2>3
<1>4. m \in 0 .. Len(line) /\ (\A i \in 1 .. m : line[i] # Comment) /\ Ends(m)
  BY <1>2, <1>3
<1> QED
  BY <1>4 DEF WordCount

\* What a line mentions is among those words.
LEMMA MentionsIs ==
    ASSUME NEW line \in Seq(HostWords), NEW a, NEW n
    PROVE  Mentions(line, a, n) <=>
              /\ Gives(line, a)
              /\ \E i \in 2 .. WordCount(line) : Anchored(line[i]) = n
<1>1. WordCount(line) \in 0 .. Len(line) /\ Len(line) \in Nat
  BY WordCountIs
<1>2. ASSUME Mentions(line, a, n)
      PROVE  Gives(line, a) /\ \E i \in 2 .. WordCount(line) : Anchored(line[i]) = n
  <2>1. PICK i \in 2 .. Len(line) : /\ line[1] = a /\ a.af # "none" /\ Anchored(line[i]) = n
                                    /\ \A j \in 1 .. i : line[j] # Comment
    BY <1>2 DEF Mentions
  <2>2. i <= WordCount(line)
    <3> SUFFICES ASSUME WordCount(line) < i PROVE FALSE
      BY <1>1
    <3>1. WordCount(line) + 1 \in 1 .. i /\ WordCount(line) # Len(line)
      BY <1>1
    <3> QED
      BY <3>1, <2>1, WordCountIs
  <2> QED
    BY <2>1, <2>2, <1>1 DEF Gives
<1>3. ASSUME Gives(line, a), NEW i \in 2 .. WordCount(line), Anchored(line[i]) = n
      PROVE  Mentions(line, a, n)
  <2>1. i \in 2 .. Len(line) /\ \A j \in 1 .. i : line[j] # Comment
    BY <1>1, WordCountIs
  <2> QED
    BY <2>1, <1>3 DEF Gives, Mentions
<1> QED
  BY <1>2, <1>3

\* A line with names gives the address it begins with, and its entries are one for
\* each name.
LEMMA LineAdds ==
    ASSUME NEW line \in HostLines, NEW list \in Seq(HostEntries)
    PROVE  /\ line \in Seq(HostWords) /\ NamesOf(line) \in Nat
           /\ LoadLine(list, line) \in Seq(HostEntries)
           /\ Len(LoadLine(list, line)) = Len(list) + NamesOf(line)
           /\ \A i \in 1 .. Len(list) : LoadLine(list, line)[i] = list[i]
           /\ \A i \in 1 .. NamesOf(line) :
                 LoadLine(list, line)[Len(list) + i] = Entry(line[1], line[i + 1], i > 1)
           /\ NamesOf(line) > 0 => NamesOf(line) = WordCount(line) - 1 /\ Gives(line, line[1])
           /\ \A a : Gives(line, a) => a = line[1] /\ NamesOf(line) > 0
<1>1. line \in Seq(HostWords)
  BY HostsAssumption
<1>2. WordCount(line) \in 0 .. Len(line) /\ Len(line) \in Nat
  BY <1>1, WordCountIs
<1>3. NamesOf(line) \in Nat
  BY <1>2 DEF NamesOf
<1>4. NamesOf(line) > 0 => NamesOf(line) = WordCount(line) - 1 /\ Gives(line, line[1])
  BY <1>2 DEF NamesOf, Gives
<1>5. \A a : Gives(line, a) => a = line[1] /\ NamesOf(line) > 0
  BY <1>2 DEF NamesOf, Gives
<1> DEFINE new == [i \in 1 .. NamesOf(line) |-> Entry(line[1], line[i + 1], i > 1)]
<1>6. ASSUME NEW i \in 1 .. NamesOf(line) PROVE Entry(line[1], line[i + 1], i > 1) \in HostEntries
  <2>1. NamesOf(line) = WordCount(line) - 1
    BY <1>3, <1>4
  <2>2. i + 1 \in 1 .. Len(line) /\ 1 \in 1 .. Len(line)
    BY <1>2, <2>1
  <2>3. line[1] \in HostWords /\ line[i + 1] \in HostWords
    BY <1>1, <2>2
  <2>4. Anchored(line[i + 1]) \in HostWords
    BY <2>3 DEF Anchored, HostWords
  <2>5. line[1].af \in {"v4", "v6", "none"}
    BY <2>3 DEF HostWords
  <2> QED
    BY <2>3, <2>4, <2>5 DEF Entry, HostEntries
<1>7. new \in Seq(HostEntries) /\ Len(new) = NamesOf(line)
        /\ \A i \in 1 .. NamesOf(line) : new[i] = Entry(line[1], line[i + 1], i > 1)
  BY <1>3, <1>6
<1>8. LoadLine(list, line) = list \o new
  BY DEF LoadLine
<1> HIDE DEF new
<1>9. /\ list \o new \in Seq(HostEntries) /\ Len(list \o new) = Len(list) + Len(new)
      /\ \A i \in 1 .. Len(list) : (list \o new)[i] = list[i]
      /\ \A i \in 1 .. Len(new) : (list \o new)[Len(list) + i] = new[i]
  <2>1. /\ list \o new \in Seq(HostEntries) /\ Len(list \o new) = Len(list) + Len(new)
        /\ \A i \in 1 .. Len(list) + Len(new) : (list \o new)[i] =
               IF i <= Len(list) THEN list[i] ELSE new[i - Len(list)]
    BY <1>7, ConcatProperties
  <2>2. Len(list) \in Nat /\ Len(new) \in Nat
    BY <1>7
  <2>3. ASSUME NEW i \in 1 .. Len(new) PROVE (list \o new)[Len(list) + i] = new[i]
    <3>1. /\ Len(list) + i \in 1 .. Len(list) + Len(new) /\ ~(Len(list) + i <= Len(list))
          /\ (Len(list) + i) - Len(list) = i
      BY <2>2
    <3> QED
      BY <2>1, <3>1
  <2> QED
    BY <2>1, <2>2, <2>3
<1> QED
  BY <1>1, <1>3, <1>4, <1>5, <1>7, <1>8, <1>9

\* One more line, in the file and in the list.
LEMMA LoadKeeps == ASSUME HostsInv, NEW line \in HostLines, LoadHosts(line) PROVE HostsInv'
<1> DEFINE n == Len(hostsList)
           m == NamesOf(line)
           here == Len(hostsFile) + 1
<1>1. /\ hostsFile \in Seq(HostLines) /\ hostsList \in Seq(HostEntries)
      /\ Len(hostsFile) \in Nat /\ n \in Nat
      /\ DOMAIN hostsFile = 1 .. Len(hostsFile) /\ DOMAIN hostsList = 1 .. n
  BY DEF HostsInv, HostsTypeOK
<1>2. /\ hostsFile' \in Seq(HostLines) /\ DOMAIN hostsFile' = 1 .. here
      /\ \A k \in DOMAIN hostsFile : k \in DOMAIN hostsFile' /\ hostsFile'[k] = hostsFile[k]
      /\ hostsFile'[here] = line /\ here \in DOMAIN hostsFile' /\ here \notin DOMAIN hostsFile
  BY <1>1 DEF LoadHosts
<1>3. /\ hostsList' \in Seq(HostEntries) /\ m \in Nat /\ DOMAIN hostsList' = 1 .. n + m
      /\ \A i \in 1 .. n : hostsList'[i] = hostsList[i]
      /\ \A i \in 1 .. m : hostsList'[n + i] = Entry(line[1], line[i + 1], i > 1)
  <2>1. hostsList' = LoadLine(hostsList, line)
    BY DEF LoadHosts
  <2> QED
    <3>1. /\ LoadLine(hostsList, line) \in Seq(HostEntries) /\ m \in Nat
          /\ Len(LoadLine(hostsList, line)) = n + m
          /\ \A i \in 1 .. n : LoadLine(hostsList, line)[i] = hostsList[i]
          /\ \A i \in 1 .. m :
                LoadLine(hostsList, line)[n + i] = Entry(line[1], line[i + 1], i > 1)
      BY <1>1, LineAdds
    <3> HIDE DEF n, m
    <3> QED
      BY <2>1, <3>1
<1>4. /\ line \in Seq(HostWords)
      /\ m > 0 => m = WordCount(line) - 1 /\ Gives(line, line[1])
      /\ \A a : Gives(line, a) => a = line[1] /\ m > 0
  BY <1>1, LineAdds
<1>5. ASSUME NEW i \in 1 .. m
      PROVE  /\ hostsList'[n + i].arpa = line[1] /\ hostsList'[n + i].addr = line[1]
             /\ hostsList'[n + i].af = line[1].af /\ (hostsList'[n + i].alias <=> i > 1)
             /\ hostsList'[n + i].host = Anchored(line[i + 1])
  <2>1. hostsList'[n + i] = Entry(line[1], line[i + 1], i > 1)
    BY <1>3
  <2>2. ASSUME NEW b \in BOOLEAN, hostsList'[n + i] = Entry(line[1], line[i + 1], b)
        PROVE  /\ hostsList'[n + i].arpa = line[1] /\ hostsList'[n + i].addr = line[1]
               /\ hostsList'[n + i].af = line[1].af /\ hostsList'[n + i].alias = b
               /\ hostsList'[n + i].host = Anchored(line[i + 1])
    BY <2>2 DEF Entry
  <2>3. CASE i > 1
    <3>1. (i > 1) = TRUE
      BY <2>3
    <3>2. hostsList'[n + i] = Entry(line[1], line[i + 1], TRUE)
      BY <2>1, <3>1, Zenon
    <3> QED
      BY <2>2, <2>3, <3>2
  <2>4. CASE ~(i > 1)
    <3>1. (i > 1) = FALSE
      BY <2>4
    <3>2. hostsList'[n + i] = Entry(line[1], line[i + 1], FALSE)
      BY <2>1, <3>1, Zenon
    <3> QED
      BY <2>2, <2>4, <3>2
  <2> QED
    BY <2>3, <2>4
<1>6. HostsTypeOK'
  BY <1>2, <1>3 DEF HostsTypeOK
<1>7. ASSUME NEW j \in DOMAIN hostsList' PROVE EntryInv(hostsList[j])'
  <2>1. CASE j \in 1 .. n
    <3>1. EntryInv(hostsList[j]) /\ hostsList'[j] = hostsList[j]
      BY <2>1, <1>1, <1>3 DEF HostsInv
    <3> QED
      BY <3>1, <1>2 DEF EntryInv
  <2>2. CASE j \notin 1 .. n
    <3>1. PICK i \in 1 .. m : j = n + i
      <4>1. j - n \in 1 .. m /\ j = n + (j - n)
        BY <2>2, <1>1, <1>3
      <4> QED
        BY <4>1
    <3>2. m > 0 /\ i + 1 \in 2 .. WordCount(line)
      BY <1>3, <1>4, WordCountIs
    <3>3. Mentions(line, line[1], Anchored(line[i + 1]))
      BY <3>2, <1>4, MentionsIs
    <3> QED
      BY <3>1, <3>3, <1>2, <1>5 DEF EntryInv
  <2> QED
    BY <2>1, <2>2
<1>8. ASSUME NEW k \in DOMAIN hostsFile', NEW a, NEW h, Mentions(hostsFile'[k], a, h)
      PROVE  \E i \in DOMAIN hostsList' : hostsList'[i].addr = a /\ hostsList'[i].host = h
  <2>1. CASE k \in DOMAIN hostsFile
    <3>1. PICK i \in DOMAIN hostsList : hostsList[i].addr = a /\ hostsList[i].host = h
      BY <2>1, <1>2, <1>8 DEF HostsInv
    <3>2. i \in DOMAIN hostsList' /\ hostsList'[i] = hostsList[i]
      BY <1>1, <1>3
    <3> QED
      BY <3>1, <3>2
  <2>2. CASE k = here
    <3>1. Gives(line, a) /\ \E j \in 2 .. WordCount(line) : Anchored(line[j]) = h
      BY <2>2, <1>2, <1>4, <1>8, MentionsIs
    <3>2. PICK j \in 2 .. WordCount(line) : Anchored(line[j]) = h
      BY <3>1
    <3>3. a = line[1] /\ m = WordCount(line) - 1 /\ WordCount(line) \in Nat
      BY <3>1, <1>4, WordCountIs
    <3>4. PICK i \in 1 .. m : i + 1 = j
      <4>1. j - 1 \in 1 .. m /\ (j - 1) + 1 = j
        BY <3>3
      <4> QED
        BY <4>1
    <3>5. n + i \in DOMAIN hostsList'
      BY <1>1, <1>3
    <3> QED
      BY <3>2, <3>3, <3>4, <3>5, <1>5
  <2> QED
    BY <2>1, <2>2, <1>1, <1>2
<1>9. ASSUME NEW a PROVE Cardinality(Canonical(a)') = Cardinality(Givers(a)')
  <2>1. /\ IsFiniteSet(Canonical(a)) /\ IsFiniteSet(Givers(a))
        /\ Cardinality(Canonical(a)) = Cardinality(Givers(a))
    <3>1. IsFiniteSet(1 .. n) /\ IsFiniteSet(1 .. Len(hostsFile))
      BY <1>1, FS_Interval
    <3>2. Canonical(a) \subseteq 1 .. n /\ Givers(a) \subseteq 1 .. Len(hostsFile)
      BY <1>1 DEF Canonical, Givers
    <3> QED
      BY <3>1, <3>2, FS_Subset DEF HostsInv
  <2>2. CASE Gives(line, a)
    <3>1. a = line[1] /\ m > 0
      BY <2>2, <1>4
    <3>2. Givers(a)' = Givers(a) \cup {here} /\ here \notin Givers(a)
      BY <2>2, <1>1, <1>2 DEF Givers
    <3>3. Canonical(a)' = Canonical(a) \cup {n + 1} /\ n + 1 \notin Canonical(a)
      <4>1. 1 \in 1 .. m /\ hostsList'[n + 1].arpa = a /\ ~hostsList'[n + 1].alias
        BY <3>1, <1>3, <1>5
      <4>2. ASSUME NEW j \in DOMAIN hostsList', j \notin 1 .. n, j # n + 1
            PROVE  hostsList'[j].alias
        <5>1. j \in 1 .. n + m /\ n \in Nat /\ m \in Nat
          BY <1>1, <1>3
        <5>2. j - n \in 1 .. m /\ j = n + (j - n) /\ j - n > 1
          BY <5>1, <4>2
        <5> QED
          BY <5>2, <1>5
      <4>3. \A j \in 1 .. n : j \in DOMAIN hostsList' /\ hostsList'[j] = hostsList[j] /\ j # n + 1
        BY <1>1, <1>3
      <4>4. n + 1 \in DOMAIN hostsList' /\ n + 1 \notin DOMAIN hostsList
        BY <4>1, <1>1, <1>3
      <4> QED
        BY <4>1, <4>2, <4>3, <4>4, <1>1 DEF Canonical
    <3> QED
      BY <2>1, <3>2, <3>3, FS_AddElement
  <2>3. CASE ~Gives(line, a)
    <3>1. Givers(a)' = Givers(a)
      BY <2>3, <1>1, <1>2 DEF Givers
    <3>2. Canonical(a)' = Canonical(a)
      <4>1. ASSUME NEW j \in DOMAIN hostsList', j \notin 1 .. n PROVE hostsList'[j].arpa # a
        <5>1. j - n \in 1 .. m /\ j = n + (j - n) /\ m > 0
          BY <4>1, <1>1, <1>3
        <5>2. hostsList'[j].arpa = line[1] /\ Gives(line, line[1])
          BY <5>1, <1>4, <1>5
        <5> QED
          BY <5>2, <2>3
      <4>2. \A j \in 1 .. n : j \in DOMAIN hostsList' /\ hostsList'[j] = hostsList[j]
        BY <1>1, <1>3
      <4> QED
        BY <4>1, <4>2, <1>1 DEF Canonical
    <3> QED
      BY <2>1, <3>1, <3>2
  <2> QED
    BY <2>2, <2>3
<1> QED
  BY <1>6, <1>7, <1>8, <1>9 DEF HostsInv

\* A line gives an address a name exactly if it mentions one that is known.
LEMMA GivesKnown ==
    ASSUME HostsInv, NEW k \in DOMAIN hostsFile, NEW a
    PROVE  /\ Gives(hostsFile[k], a) <=> \E w \in Known : Mentions(hostsFile[k], a, Anchored(w))
           /\ \A n : Mentions(hostsFile[k], a, n) => a \in Known
<1>1. hostsFile[k] \in HostLines
  BY DEF HostsInv, HostsTypeOK
<1>2. hostsFile[k] \in Seq(HostWords)
  BY <1>1, HostsAssumption
<1>3. WordCount(hostsFile[k]) \in 0 .. Len(hostsFile[k]) /\ Len(hostsFile[k]) \in Nat
  BY <1>2, WordCountIs
<1>4. ASSUME NEW i \in 1 .. Len(hostsFile[k]) PROVE hostsFile[k][i] \in Known
  BY <1>1, <1>2 DEF Known, Said
<1>5. ASSUME Gives(hostsFile[k], a) PROVE \E w \in Known : Mentions(hostsFile[k], a, Anchored(w))
  <2>1. 2 \in 2 .. WordCount(hostsFile[k]) /\ 2 \in 1 .. Len(hostsFile[k])
    BY <1>3, <1>5 DEF Gives
  <2> QED
    BY <2>1, <1>2, <1>4, <1>5, MentionsIs
<1>6. ASSUME NEW n, Mentions(hostsFile[k], a, n) PROVE a \in Known /\ Gives(hostsFile[k], a)
  <2>1. Gives(hostsFile[k], a)
    BY <1>2, <1>6, MentionsIs
  <2>2. a = hostsFile[k][1] /\ 1 \in 1 .. Len(hostsFile[k])
    BY <2>1, <1>3 DEF Gives
  <2> QED
    BY <2>1, <2>2, <1>4
<1> QED
  BY <1>5, <1>6

\* The entries an answer has, when they are not too many.
LEMMA QueryIs ==
    ASSUME NEW name, NEW type, ~HostsQuery(name, type).error
    PROVE  HostsQuery(name, type).entries = {i \in DOMAIN hostsList : Answering(hostsList[i], name, type)}
  BY DEF HostsQuery

\* So forward lookups say what the lines say, and agree with reverse ones.
LEMMA HostsInvAgrees == ASSUME HostsInv PROVE HostsAgree
<1>1. ASSUME NEW name, NEW t \in {"A", "AAAA"}, ~HostsQuery(name, t).error
      PROVE  AddrsIn(HostsQuery(name, t)) =
                {a \in Known : a.af = (IF t = "A" THEN "v4" ELSE "v6") /\ \E k \in DOMAIN hostsFile :
                                                        Mentions(hostsFile[k], a, name)}
  <2> DEFINE af == IF t = "A" THEN "v4" ELSE "v6"
             R == {i \in DOMAIN hostsList : hostsList[i].af = af /\ hostsList[i].host = name}
  <2>1. AddrsIn(HostsQuery(name, t)) = {hostsList[i].addr : i \in R}
    BY <1>1, QueryIs DEF AddrsIn, Answering
  <2>2. ASSUME NEW i \in R
        PROVE  /\ hostsList[i].addr \in Known /\ hostsList[i].addr.af = af
               /\ \E k \in DOMAIN hostsFile : Mentions(hostsFile[k], hostsList[i].addr, name)
    <3>1. EntryInv(hostsList[i])
      BY DEF HostsInv
    <3> QED
      BY <3>1, GivesKnown DEF EntryInv
  <2>3. ASSUME NEW a, a.af = af, NEW k \in DOMAIN hostsFile, Mentions(hostsFile[k], a, name)
        PROVE  \E i \in R : hostsList[i].addr = a
    <3>1. PICK i \in DOMAIN hostsList : hostsList[i].addr = a /\ hostsList[i].host = name
      BY <2>3 DEF HostsInv
    <3>2. hostsList[i].af = hostsList[i].addr.af
      BY DEF HostsInv, EntryInv
    <3> QED
      BY <3>1, <3>2, <2>3
  <2> QED
    BY <2>1, <2>2, <2>3
<1>2. ASSUME NEW a \in Known, a.af # "none", ~HostsQuery(a, "PTR").error
      PROVE  /\ HostsQuery(a, "PTR").entries = Canonical(a)
             /\ Cardinality(Canonical(a)) = Cardinality({k \in DOMAIN hostsFile :
                   \E n \in Known : Mentions(hostsFile[k], a, Anchored(n))})
  <2>1. HostsQuery(a, "PTR").entries = Canonical(a)
    BY <1>2, QueryIs DEF Canonical, Answering
  <2>2. Givers(a) = {k \in DOMAIN hostsFile : \E n \in Known : Mentions(hostsFile[k], a, Anchored(n))}
    BY GivesKnown DEF Givers
  <2> QED
    BY <2>1, <2>2 DEF HostsInv
<1>3. ASSUME NEW a \in Known, a.af # "none", NEW i \in Canonical(a),
             NEW t, t = (IF a.af = "v4" THEN "A" ELSE "AAAA"),
             ~HostsQuery(hostsList[i].host, t).error
      PROVE  a \in AddrsIn(HostsQuery(hostsList[i].host, t))
  <2>1. i \in DOMAIN hostsList /\ hostsList[i].addr = a /\ hostsList[i].af = a.af
    BY DEF HostsInv, EntryInv, Canonical
  <2>2. a.af \in {"v4", "v6"}
    <3>1. hostsList[i] \in HostEntries
      BY <2>1 DEF HostsInv, HostsTypeOK
    <3>2. hostsList[i].af \in {"v4", "v6", "none"}
      BY <3>1 DEF HostEntries
    <3> QED
      BY <3>2, <2>1, <1>3
  <2>3. Answering(hostsList[i], hostsList[i].host, t)
    BY <2>1, <2>2, <1>3 DEF Answering
  <2> QED
    BY <2>1, <2>3, <1>3, QueryIs DEF AddrsIn
<1> QED
  BY <1>1, <1>2, <1>3 DEF HostsAgree

\* What a hosts file says is what is found, forward and reverse, for any file of
\* any lines.
THEOREM HostsFound == HostsSpec => []HostsAgree
<1>1. HostsInit => HostsInv
  <2> SUFFICES ASSUME HostsInit PROVE HostsInv
    OBVIOUS
  <2>1. HostsTypeOK /\ DOMAIN hostsFile = {} /\ DOMAIN hostsList = {}
    BY DEF HostsInit, HostsTypeOK
  <2>2. \A a : Canonical(a) = {} /\ Givers(a) = {}
    BY <2>1 DEF Canonical, Givers
  <2> QED
    BY <2>1, <2>2 DEF HostsInv
<1>2. HostsInv /\ [HostsNext]_hostsVars => HostsInv'
  <2> SUFFICES ASSUME HostsInv, [HostsNext]_hostsVars PROVE HostsInv'
    OBVIOUS
  <2>1. CASE UNCHANGED hostsVars
    <3>1. hostsFile' = hostsFile /\ hostsList' = hostsList
      BY <2>1 DEF hostsVars
    <3>2. \A a : Canonical(a)' = Canonical(a) /\ Givers(a)' = Givers(a)
      BY <3>1 DEF Canonical, Givers
    <3>3. HostsTypeOK' /\ \A e : EntryInv(e)' <=> EntryInv(e)
      BY <3>1 DEF EntryInv, HostsInv, HostsTypeOK
    <3> QED
      BY <3>1, <3>2, <3>3 DEF HostsInv
  <2> QED
    BY <2>1, LoadKeeps DEF HostsNext
<1>3. HostsInv => HostsAgree
  BY HostsInvAgrees
<1> QED
  BY <1>1, <1>2, <1>3, PTL DEF HostsSpec
-----------------------------------------------------------------------------
(***************************************************************************)
(* The hints.  A scan finds the least slot after the one before it, so the *)
(* slots that were offered are all up to that one; and what is in a slot   *)
(* was inserted last for it.                                               *)
(***************************************************************************)
Zones == HintZones \cup {<<>>}
Addresses == HintAddrs \cup
                 UNION {{list.servers[i] : i \in DOMAIN list.servers} : list \in ServerLists}
HintRecords == [addr : Addresses, pri : Nat]
HintsTypeOK ==
    /\ soas \in Seq([zone : Zones, addrs : Seq(HintRecords)])
    /\ given \in Seq([zone : Zones, addr : Addresses, pri : Nat])
    /\ resconf \in [servers : Seq(Addresses), rotate : BOOLEAN, p : Nat]
    /\ hintsAt \in {"open", "local", "query", "answered"}
    /\ Len(query) \in Nat /\ level \in 1 .. Len(query) + 1 /\ shuffled \in Orders
    /\ offered \in Seq(Nat \X Nat)

\* Each zone is there once, and its slots hold what was inserted last for them.
StoreInv ==
    /\ \A j, k \in DOMAIN soas : soas[j].zone = soas[k].zone => j = k
    /\ \A i \in DOMAIN given : \E k \in DOMAIN soas : soas[k].zone = given[i].zone
    /\ \A k \in DOMAIN soas :
          LET n == Cardinality(InsertedFor(soas[k].zone))
          IN  Len(soas[k].addrs) = IF n <= HintSlots THEN n ELSE HintSlots
    /\ \A k \in DOMAIN soas : \A p \in DOMAIN soas[k].addrs :
          \E i \in InsertedFor(soas[k].zone) :
             SlotOf(i) = p /\ Stays(i) /\ soas[k].addrs[p] = HintOf(given[i])

\* The scan has found the least slot after p0 of those before slot; what is offered of
\* the zone is p0 and the slots before it, of nearer zones everything.
ScanInv ==
    LET n == Len(AddrsAt(level))
        After(q) == p0 = 0 \/ HintBefore(p0, q)
    IN  /\ p0 \in 0 .. n /\ slot \in 1 .. n + 1 /\ pZ \in 0 .. (slot - 1)
        /\ pZ # 0 => After(pZ)
        /\ \A q \in 1 .. (slot - 1) : After(q) => pZ # 0 /\ (q = pZ \/ HintBefore(pZ, q))
OfferedSet == {offered[i] : i \in DOMAIN offered}
OfferedInv ==
    /\ \A o \in OfferedSet : o[1] \in 1 .. level /\ o[2] \in DOMAIN AddrsAt(o[1])
    /\ \A n \in 1 .. (level - 1) : \A q \in DOMAIN AddrsAt(n) : <<n, q>> \in OfferedSet
    /\ \A q \in DOMAIN AddrsAt(level) :
          <<level, q>> \in OfferedSet <=> p0 # 0 /\ (q = p0 \/ HintBefore(q, p0))
InOrderOffered ==
    \A i, j \in DOMAIN offered : i < j =>
        /\ offered[i] # offered[j]
        /\ \/ offered[i][1] < offered[j][1]
           \/ /\ offered[i][1] = offered[j][1]
              /\ AddrsAt(offered[i][1])[offered[i][2]].pri <= AddrsAt(offered[j][1])[offered[j][2]].pri
HintsInv ==
    /\ HintsTypeOK /\ StoreInv
    /\ hintsAt \in {"open", "local"} => offered = <<>>
    /\ hintsAt = "query" => ScanInv /\ OfferedInv /\ InOrderOffered
    /\ hintsAt = "answered" => OffersAll

\* The first of some indexes is one of them, if there are any.
LEMMA FirstOfIs ==
    ASSUME NEW is \in SUBSET Nat, 0 \notin is
    PROVE  /\ FirstOf(is) = 0 <=> is = {}
           /\ FirstOf(is) # 0 => FirstOf(is) \in is
<1>1. CASE is = {}
  BY <1>1 DEF FirstOf
<1>2. CASE is # {}
  <2>1. \E i \in is : \A j \in is : i <= j
    BY <1>2, LeastExists
  <2>2. FirstOf(is) = CHOOSE i \in is : \A j \in is : i <= j
    BY <1>2 DEF FirstOf
  <2> QED
    BY <2>1, <2>2, <1>2
<1> QED
  BY <1>1, <1>2

\* dns_hints_fetch() finds the zone if it is there.
LEMMA FetchIs ==
    ASSUME HintsTypeOK, NEW z
    PROVE  /\ Fetch(z) = 0 => \A k \in DOMAIN soas : soas[k].zone # z
           /\ Fetch(z) # 0 => Fetch(z) \in DOMAIN soas /\ soas[Fetch(z)].zone = z
<1> DEFINE is == {k \in DOMAIN soas : soas[k].zone = z}
<1>1. is \in SUBSET Nat /\ 0 \notin is
  BY DEF HintsTypeOK
<1>2. Fetch(z) = FirstOf(is)
  BY DEF Fetch
<1>3. /\ FirstOf(is) = 0 <=> is = {}
      /\ FirstOf(is) # 0 => FirstOf(is) \in is
  <2> HIDE DEF is
  <2> QED
    BY <1>1, FirstOfIs
<1> QED
  BY <1>2, <1>3

\* An insertion changes what was inserted, and the slots, of its zone only.
LEMMA GivenGrows ==
    ASSUME HintsTypeOK, NEW g \in [zone : Zones, addr : Addresses, pri : Nat],
           given' = Append(given, g),
           NEW n, n = Len(given) + 1, NEW c, c = Cardinality(InsertedFor(g.zone))
    PROVE  /\ n \in Nat /\ n \in DOMAIN given' /\ given'[n] = g /\ n \notin DOMAIN given
           /\ DOMAIN given' = DOMAIN given \cup {n}
           /\ \A i \in DOMAIN given : given'[i] = given[i] /\ SlotOf(i)' = SlotOf(i)
           /\ InsertedFor(g.zone)' = InsertedFor(g.zone) \cup {n}
           /\ \A z : z # g.zone => InsertedFor(z)' = InsertedFor(z)
           /\ c \in Nat /\ Cardinality(InsertedFor(g.zone)') = c + 1
           /\ SlotOf(n)' = IF c + 1 <= HintSlots THEN c + 1 ELSE 1
           /\ \A i \in DOMAIN given :
                 Stays(i) /\ (given[i].zone = g.zone => SlotOf(i) # SlotOf(n)') => Stays(i)'
           /\ Stays(n)'
<1>1. /\ n \in Nat /\ DOMAIN given' = 1 .. n /\ DOMAIN given = 1 .. (n - 1)
      /\ given'[n] = g /\ \A i \in DOMAIN given : given'[i] = given[i]
  BY DEF HintsTypeOK
<1>2. /\ n \in DOMAIN given' /\ n \notin DOMAIN given /\ DOMAIN given' = DOMAIN given \cup {n}
      /\ \A i \in DOMAIN given : i < n /\ i \in Nat /\ ~(n <= i) /\ i <= n
      /\ n <= n
  BY <1>1
<1>3. InsertedFor(g.zone)' = InsertedFor(g.zone) \cup {n}
  BY <1>1, <1>2 DEF InsertedFor
<1>4. \A z : InsertedFor(z) \subseteq DOMAIN given /\ \A i \in InsertedFor(z) : given[i].zone = z
  BY DEF InsertedFor
<1>5. ASSUME NEW z, z # g.zone PROVE InsertedFor(z)' = InsertedFor(z)
  BY <1>1, <1>2, <1>5 DEF InsertedFor
<1>6. c \in Nat /\ Cardinality(InsertedFor(g.zone)') = c + 1
  <2>1. IsFiniteSet(1 .. (n - 1))
    <3>1. n - 1 \in Int /\ 1 \in Int
      BY <1>1
    <3> QED
      BY <3>1, FS_Interval
  <2>2. InsertedFor(g.zone) \subseteq 1 .. (n - 1)
    BY <1>1, <1>4
  <2>3. IsFiniteSet(InsertedFor(g.zone)) /\ c \in Nat
    BY <2>1, <2>2, FS_Subset, FS_CardinalityType
  <2>4. n \notin InsertedFor(g.zone)
    BY <1>2, <1>4
  <2>5. Cardinality(InsertedFor(g.zone) \cup {n}) = c + 1
    BY <2>3, <2>4, FS_AddElement
  <2> QED
    BY <1>3, <2>3, <2>5
<1>7. ASSUME NEW i \in DOMAIN given PROVE SlotOf(i)' = SlotOf(i)
  <2>1. given'[i].zone = given[i].zone
    BY <1>1
  <2>2. {j \in InsertedFor(given[i].zone)' : j <= i} = {j \in InsertedFor(given[i].zone) : j <= i}
    <3>1. CASE given[i].zone = g.zone
      BY <2>1, <3>1, <1>2, <1>3, <1>4
    <3>2. CASE given[i].zone # g.zone
      BY <2>1, <3>2, <1>5
    <3> QED
      BY <3>1, <3>2
  <2> QED
    BY <2>2 DEF SlotOf
<1>8. SlotOf(n)' = IF c + 1 <= HintSlots THEN c + 1 ELSE 1
  <2>1. {j \in InsertedFor(g.zone)' : j <= n} = InsertedFor(g.zone)'
    BY <1>2, <1>3, <1>4
  <2>2. {j \in InsertedFor(given[n].zone)' : j <= n} = InsertedFor(g.zone)'
    BY <2>1, <1>1
  <2> QED
    BY <2>2, <1>6 DEF SlotOf
<1>9. ASSUME NEW i \in DOMAIN given, Stays(i), given[i].zone = g.zone => SlotOf(i) # SlotOf(n)'
      PROVE  Stays(i)'
  <2>1. ASSUME NEW j \in InsertedFor(given[i].zone)', SlotOf(j)' = SlotOf(i)' PROVE j <= i
    <3>1. j \in InsertedFor(given[i].zone) \/ (j = n /\ given[i].zone = g.zone)
      BY <2>1, <1>1, <1>3, <1>5
    <3>2. j # n
      BY <3>1, <2>1, <1>2, <1>4, <1>7, <1>9
    <3>3. j \in InsertedFor(given[i].zone) /\ SlotOf(j) = SlotOf(i)
      BY <3>1, <3>2, <2>1, <1>4, <1>7
    <3> QED
      BY <3>3, <1>9 DEF Stays
  <2> QED
    BY <2>1 DEF Stays
<1>10. Stays(n)'
  <2>1. ASSUME NEW j \in InsertedFor(given[n].zone)' PROVE j <= n
    BY <1>1, <1>2, <1>3, <1>4
  <2> QED
    BY <2>1 DEF Stays
<1> QED
  BY <1>1, <1>2, <1>3, <1>5, <1>6, <1>7, <1>8, <1>9, <1>10

SoaType == [zone : Zones, addrs : Seq(HintRecords)]

\* What is in the slots of the zone after an insertion: the new one in its slot, the
\* others where they were.
NewSlots(z, h, A) ==
    LET c == Cardinality(InsertedFor(z))
        s == IF c + 1 <= HintSlots THEN c + 1 ELSE 1
    IN  /\ A \in Seq(HintRecords)
        /\ Len(A) = IF c + 1 <= HintSlots THEN c + 1 ELSE HintSlots
        /\ \A p \in DOMAIN A :
              IF p = s THEN A[p] = h
              ELSE \E i \in InsertedFor(z) : SlotOf(i) = p /\ Stays(i) /\ A[p] = HintOf(given[i])

\* The list of zones after an insertion: one has new slots, the others stay.
NewList(z, h, l, A) ==
    /\ l \in Seq(SoaType) /\ NewSlots(z, h, A)
    /\ \A j, k \in DOMAIN l : l[j].zone = l[k].zone => j = k
    /\ \A k \in DOMAIN l : \/ l[k].zone = z /\ l[k].addrs = A
                           \/ l[k].zone # z /\ \E j \in DOMAIN soas : l[k] = soas[j]
    /\ \E k \in DOMAIN l : l[k].zone = z
    /\ \A j \in DOMAIN soas : \E k \in DOMAIN l : l[k].zone = soas[j].zone

\* dns_hints_insert() makes such a list.
LEMMA InsertMakes ==
    ASSUME HintsTypeOK, StoreInv, NEW z \in Zones, NEW addr \in Addresses, NEW pri \in Nat,
           InsertHint(z, addr, pri)
    PROVE  \E A : NewList(z, [addr |-> addr, pri |-> IF pri < 1 THEN 1 ELSE pri], soas', A)
<1> DEFINE h == [addr |-> addr, pri |-> IF pri < 1 THEN 1 ELSE pri]
<1>1. h \in HintRecords
  BY DEF HintRecords
<1>2. /\ soas \in Seq(SoaType) /\ DOMAIN soas = 1 .. Len(soas) /\ Len(soas) \in Nat
      /\ \A k \in DOMAIN soas : soas[k].addrs \in Seq(HintRecords) /\ soas[k] \in SoaType
  <2>1. soas \in Seq(SoaType)
    BY DEF HintsTypeOK, SoaType
  <2>2. \A k \in DOMAIN soas : soas[k] \in SoaType
    BY <2>1
  <2> QED
    BY <2>1, <2>2 DEF SoaType
<1>3. PICK k0 : k0 = Fetch(z)
  OBVIOUS
<1>4. /\ soas' = IF k0 = 0 THEN <<[zone |-> z, addrs |-> <<h>>]>> \o soas
                 ELSE IF Len(soas[k0].addrs) < HintSlots
                 THEN [soas EXCEPT ![k0].addrs = Append(soas[k0].addrs, h)]
                 ELSE [soas EXCEPT ![k0].addrs[1] = h]
  BY <1>3 DEF InsertHint
<1> HIDE DEF h
<1>5. PICK c : c = Cardinality(InsertedFor(z))
  OBVIOUS
<1>6. PICK s : s = IF c + 1 <= HintSlots THEN c + 1 ELSE 1
  OBVIOUS
<1>7. HintSlots \in Nat /\ HintSlots >= 1
  BY HintsAssumption
<1>8. CASE k0 = 0
  <2>1. \A k \in DOMAIN soas : soas[k].zone # z
    BY <1>3, <1>8, FetchIs
  <2>2. c = 0
    <3>1. \A i \in DOMAIN given : given[i].zone # z
      BY <2>1 DEF StoreInv
    <3>2. InsertedFor(z) = {}
      BY <3>1 DEF InsertedFor
    <3> QED
      BY <3>2, <1>5, FS_EmptySet
  <2> DEFINE A == <<h>>
             new == [zone |-> z, addrs |-> A]
             l == <<new>> \o soas
  <2>3. NewSlots(z, h, A)
    <3>1. A \in Seq(HintRecords) /\ Len(A) = 1 /\ DOMAIN A = {1} /\ A[1] = h
      BY <1>1
    <3> HIDE DEF A
    <3> QED
      BY <3>1, <1>5, <2>2, <1>7 DEF NewSlots
  <2>4. new \in SoaType /\ new.zone = z /\ new.addrs = A
    BY <1>1 DEF SoaType
  <2> HIDE DEF new, A
  <2>5. /\ l \in Seq(SoaType) /\ DOMAIN l = 1 .. Len(soas) + 1
        /\ l[1] = new /\ \A k \in 1 .. Len(soas) : l[k + 1] = soas[k]
    BY <2>4, <1>2
  <2> HIDE DEF l
  <2>6. ASSUME NEW k \in DOMAIN l
        PROVE  k = 1 \/ (k - 1 \in DOMAIN soas /\ l[k] = soas[k - 1] /\ k \in Nat)
    <3>1. k = 1 \/ (k - 1 \in 1 .. Len(soas) /\ (k - 1) + 1 = k /\ k \in Nat)
      BY <2>5, <1>2
    <3> QED
      BY <3>1, <2>5, <1>2
  <2>7. ASSUME NEW j \in DOMAIN l, NEW k \in DOMAIN l, l[j].zone = l[k].zone PROVE j = k
    <3>1. CASE j = 1 \/ k = 1
      BY <3>1, <2>1, <2>4, <2>5, <2>6, <2>7
    <3>2. CASE j # 1 /\ k # 1
      <4>1. j - 1 \in DOMAIN soas /\ k - 1 \in DOMAIN soas /\ j \in Nat /\ k \in Nat
            /\ soas[j - 1].zone = soas[k - 1].zone
        BY <3>2, <2>6, <2>7
      <4>2. j - 1 = k - 1
        BY <4>1 DEF StoreInv
      <4> QED
        BY <4>1, <4>2
    <3> QED
      BY <3>1, <3>2
  <2>8. \A k \in DOMAIN l : \/ l[k].zone = z /\ l[k].addrs = A
                            \/ l[k].zone # z /\ \E j \in DOMAIN soas : l[k] = soas[j]
    BY <2>1, <2>4, <2>5, <2>6
  <2>9. 1 \in DOMAIN l /\ l[1].zone = z
    BY <1>2, <2>4, <2>5
  <2>10. ASSUME NEW j \in DOMAIN soas PROVE \E k \in DOMAIN l : l[k].zone = soas[j].zone
    <3>1. j + 1 \in DOMAIN l /\ l[j + 1] = soas[j]
      BY <1>2, <2>5
    <3> QED
      BY <3>1
  <2>11. NewList(z, h, l, A)
    BY <2>3, <2>5, <2>7, <2>8, <2>9, <2>10 DEF NewList
  <2>12. soas' = l
    BY <1>4, <1>8 DEF l, new, A
  <2> QED
    BY <2>11, <2>12 DEF h
<1>9. CASE k0 # 0
  <2>1. k0 \in DOMAIN soas /\ soas[k0].zone = z
    BY <1>3, <1>9, FetchIs
  <2> DEFINE B == soas[k0].addrs
             A == IF Len(B) < HintSlots THEN Append(B, h) ELSE [B EXCEPT ![1] = h]
             l == [soas EXCEPT ![k0].addrs = A]
  <2>2. /\ B \in Seq(HintRecords) /\ Len(B) = IF c <= HintSlots THEN c ELSE HintSlots
        /\ \A p \in DOMAIN B : \E i \in InsertedFor(z) :
              SlotOf(i) = p /\ Stays(i) /\ B[p] = HintOf(given[i])
    BY <1>2, <1>5, <2>1 DEF StoreInv
  <2>3. c \in Nat
    <3>1. given \in Seq([zone : Zones, addr : Addresses, pri : Nat])
      BY DEF HintsTypeOK
    <3>2. Len(given) \in Nat /\ DOMAIN given = 1 .. Len(given)
      BY <3>1
    <3>3. IsFiniteSet(1 .. Len(given))
      BY <3>2, FS_Interval
    <3>4. InsertedFor(z) \subseteq 1 .. Len(given)
      BY <3>2 DEF InsertedFor
    <3> QED
      BY <3>3, <3>4, <1>5, FS_Subset, FS_CardinalityType
  <2> HIDE DEF B
  <2>4. NewSlots(z, h, A)
    <3>1. CASE c < HintSlots
      <4>1. /\ A \in Seq(HintRecords) /\ Len(A) = c + 1 /\ A[c + 1] = h /\ s = c + 1 /\ DOMAIN A = 1 .. c + 1
            /\ DOMAIN B = 1 .. c /\ \A p \in 1 .. c : A[p] = B[p]
        BY <3>1, <2>2, <2>3, <1>1, <1>6, <1>7
      <4> HIDE DEF A
      <4>2. \A p \in DOMAIN A : p # s => p \in DOMAIN B /\ A[p] = B[p]
        BY <4>1, <2>3
      <4> QED
        BY <4>1, <4>2, <2>2, <2>3, <3>1, <1>5, <1>7 DEF NewSlots
    <3>2. CASE ~(c < HintSlots)
      <4>1. /\ A \in Seq(HintRecords) /\ Len(A) = HintSlots /\ A[1] = h /\ s = 1 /\ DOMAIN A = DOMAIN B
            /\ \A p \in DOMAIN A : p # 1 => A[p] = B[p]
        BY <3>2, <2>2, <2>3, <1>1, <1>6, <1>7
      <4> HIDE DEF A
      <4> QED
        BY <4>1, <2>2, <2>3, <3>2, <1>5, <1>7 DEF NewSlots
    <3> QED
      BY <3>1, <3>2
  <2>5. A \in Seq(HintRecords)
    BY <2>4 DEF NewSlots
  <2>6. soas' = l
    <3>1. CASE Len(B) < HintSlots
      BY <3>1, <1>4, <1>9 DEF B
    <3>2. CASE ~(Len(B) < HintSlots)
      BY <3>2, <1>4, <1>9, <1>2, <2>1 DEF B
    <3> QED
      BY <3>1, <3>2
  <2> HIDE DEF A
  <2>7. /\ l \in Seq(SoaType) /\ DOMAIN l = DOMAIN soas
        /\ l[k0].zone = z /\ l[k0].addrs = A
        /\ \A k \in DOMAIN soas : k # k0 => l[k] = soas[k]
    <3>1. l \in [1 .. Len(soas) -> SoaType]
      BY <1>2, <2>1, <2>5 DEF SoaType
    <3>2. l \in Seq(SoaType)
      BY <3>1, <1>2
    <3> QED
      BY <3>2, <1>2, <2>1
  <2> HIDE DEF l
  <2>8. \A k \in DOMAIN soas : l[k].zone = soas[k].zone
    BY <2>1, <2>7
  <2>9. \A j, k \in DOMAIN l : l[j].zone = l[k].zone => j = k
    BY <2>7, <2>8 DEF StoreInv
  <2>10. \A k \in DOMAIN soas : soas[k].zone = z => k = k0
    BY <2>1 DEF StoreInv
  <2>11. \A k \in DOMAIN l : \/ l[k].zone = z /\ l[k].addrs = A
                             \/ l[k].zone # z /\ \E j \in DOMAIN soas : l[k] = soas[j]
    BY <2>7, <2>8, <2>10
  <2>12. NewList(z, h, l, A)
    BY <2>1, <2>4, <2>7, <2>8, <2>9, <2>11 DEF NewList
  <2> QED
    BY <2>6, <2>12 DEF h
<1> QED
  BY <1>8, <1>9

\* An insertion keeps what is said of the slots.
LEMMA InsertKeeps ==
    ASSUME HintsTypeOK, StoreInv, NEW z \in Zones, NEW addr \in Addresses, NEW pri \in Nat,
           InsertHint(z, addr, pri)
    PROVE  /\ soas' \in Seq(SoaType) /\ given' \in Seq([zone : Zones, addr : Addresses, pri : Nat])
           /\ StoreInv'
<1>1. PICK g : g = [zone |-> z, addr |-> addr, pri |-> pri]
  OBVIOUS
<1>2. PICK h : h = [addr |-> addr, pri |-> IF pri < 1 THEN 1 ELSE pri]
  OBVIOUS
<1>3. PICK A : NewList(z, h, soas', A)
  BY <1>2, InsertMakes
<1>4. /\ g \in [zone : Zones, addr : Addresses, pri : Nat] /\ g.zone = z /\ h = HintOf(g)
      /\ given' = Append(given, g)
  BY <1>1, <1>2 DEF HintOf, InsertHint
<1>5. PICK n : n = Len(given) + 1
  OBVIOUS
<1>6. PICK c : c = Cardinality(InsertedFor(z))
  OBVIOUS
<1>7. /\ n \in Nat /\ n \in DOMAIN given' /\ given'[n] = g /\ n \notin DOMAIN given
      /\ DOMAIN given' = DOMAIN given \cup {n}
      /\ \A i \in DOMAIN given : given'[i] = given[i] /\ SlotOf(i)' = SlotOf(i)
      /\ InsertedFor(z)' = InsertedFor(z) \cup {n}
      /\ \A y : y # z => InsertedFor(y)' = InsertedFor(y)
      /\ c \in Nat /\ Cardinality(InsertedFor(z)') = c + 1
      /\ SlotOf(n)' = IF c + 1 <= HintSlots THEN c + 1 ELSE 1
      /\ \A i \in DOMAIN given :
            Stays(i) /\ (given[i].zone = z => SlotOf(i) # SlotOf(n)') => Stays(i)'
      /\ Stays(n)'
  BY <1>4, <1>5, <1>6, GivenGrows
<1>8. given' \in Seq([zone : Zones, addr : Addresses, pri : Nat])
  BY <1>4 DEF HintsTypeOK
<1>9. \A y : \A i \in InsertedFor(y) : i \in DOMAIN given /\ given[i].zone = y
  BY DEF InsertedFor
<1>10. ASSUME NEW i \in DOMAIN given' PROVE \E k \in DOMAIN soas' : soas'[k].zone = given'[i].zone
  <2>1. CASE i = n
    BY <2>1, <1>3, <1>4, <1>7 DEF NewList
  <2>2. CASE i \in DOMAIN given
    BY <2>2, <1>3, <1>7 DEF NewList, StoreInv
  <2> QED
    BY <2>1, <2>2, <1>7
<1>11. ASSUME NEW k \in DOMAIN soas'
       PROVE  /\ LET m == Cardinality(InsertedFor(soas[k].zone)')
                 IN  Len(soas'[k].addrs) = IF m <= HintSlots THEN m ELSE HintSlots
              /\ \A p \in DOMAIN soas'[k].addrs : \E i \in InsertedFor(soas[k].zone)' :
                    SlotOf(i)' = p /\ Stays(i)' /\ soas'[k].addrs[p] = HintOf(given'[i])
  <2>1. CASE soas'[k].zone = z /\ soas'[k].addrs = A
    <3>1. NewSlots(z, h, A)
      BY <1>3 DEF NewList
    <3>2. Len(A) = IF c + 1 <= HintSlots THEN c + 1 ELSE HintSlots
      BY <3>1, <1>6 DEF NewSlots
    <3>3. ASSUME NEW p \in DOMAIN A
          PROVE  \E i \in InsertedFor(z)' : SlotOf(i)' = p /\ Stays(i)' /\ A[p] = HintOf(given'[i])
      <4>1. CASE p = SlotOf(n)'
        <5>1. A[p] = h
          BY <4>1, <3>1, <1>6, <1>7 DEF NewSlots
        <5>2. n \in InsertedFor(z)'
          BY <1>7
        <5> QED
          BY <4>1, <5>1, <5>2, <1>4, <1>7
      <4>2. CASE p # SlotOf(n)'
        <5>1. PICK i \in InsertedFor(z) : SlotOf(i) = p /\ Stays(i) /\ A[p] = HintOf(given[i])
          BY <4>2, <3>1, <1>6, <1>7 DEF NewSlots
        <5>2. i \in DOMAIN given /\ i \in InsertedFor(z)'
          BY <1>7, <1>9
        <5> QED
          BY <4>2, <5>1, <5>2, <1>7
      <4> QED
        BY <4>1, <4>2
    <3> QED
      BY <2>1, <3>2, <3>3, <1>7
  <2>2. CASE soas'[k].zone # z /\ \E j \in DOMAIN soas : soas'[k] = soas[j]
    <3>1. PICK j \in DOMAIN soas : soas'[k] = soas[j]
      BY <2>2
    <3>2. PICK y : y = soas[j].zone
      OBVIOUS
    <3>3. y # z /\ InsertedFor(y)' = InsertedFor(y)
      BY <2>2, <3>1, <3>2, <1>7
    <3>4. /\ Len(soas[j].addrs) = IF Cardinality(InsertedFor(y)) <= HintSlots
                                  THEN Cardinality(InsertedFor(y)) ELSE HintSlots
          /\ \A p \in DOMAIN soas[j].addrs : \E i \in InsertedFor(y) :
                SlotOf(i) = p /\ Stays(i) /\ soas[j].addrs[p] = HintOf(given[i])
      BY <3>2 DEF StoreInv
    <3>5. \A i \in InsertedFor(y) :
             SlotOf(i)' = SlotOf(i) /\ (Stays(i) => Stays(i)') /\ given'[i] = given[i]
      BY <3>3, <1>7, <1>9
    <3> QED
      BY <3>1, <3>2, <3>3, <3>4, <3>5
  <2> QED
    BY <2>1, <2>2, <1>3 DEF NewList
<1>12. \A j, k \in DOMAIN soas' : soas'[j].zone = soas'[k].zone => j = k
  BY <1>3 DEF NewList
<1>13. soas' \in Seq(SoaType)
  BY <1>3 DEF NewList
<1>14. StoreInv'
  BY <1>10, <1>11, <1>12 DEF StoreInv
<1> QED
  BY <1>8, <1>13, <1>14

\* What is known of a zone: hints, not more than there are slots.
LEMMA AddrsIs ==
    ASSUME HintsTypeOK, StoreInv, NEW z
    PROVE  /\ AddrsOf(z) \in Seq(HintRecords) /\ DOMAIN AddrsOf(z) = 1 .. Len(AddrsOf(z))
           /\ Len(AddrsOf(z)) \in Nat /\ Len(AddrsOf(z)) <= HintSlots
<1>1. PICK k : k = Fetch(z)
  OBVIOUS
<1>2. AddrsOf(z) = IF k = 0 THEN <<>> ELSE soas[k].addrs
  BY <1>1 DEF AddrsOf
<1>3. HintSlots \in Nat
  BY HintsAssumption
<1>4. CASE k = 0
  BY <1>2, <1>3, <1>4
<1>5. CASE k # 0
  <2>1. k \in DOMAIN soas
    BY <1>1, <1>5, FetchIs
  <2>2. soas[k].addrs \in Seq(HintRecords)
    <3>1. soas \in Seq(SoaType)
      BY DEF HintsTypeOK, SoaType
    <3>2. soas[k] \in SoaType
      BY <2>1, <3>1
    <3> QED
      BY <3>2 DEF SoaType
  <2>3. PICK c : Len(soas[k].addrs) = IF c <= HintSlots THEN c ELSE HintSlots
    BY <2>1 DEF StoreInv
  <2> QED
    BY <1>2, <1>3, <1>5, <2>2, <2>3
<1> QED
  BY <1>4, <1>5

\* The same of the zones a query is about.
LEMMA AddrsAtIs ==
    ASSUME HintsTypeOK, StoreInv, NEW n
    PROVE  /\ AddrsAt(n) \in Seq(HintRecords) /\ DOMAIN AddrsAt(n) = 1 .. Len(AddrsAt(n))
           /\ Len(AddrsAt(n)) \in Nat /\ Len(AddrsAt(n)) <= HintSlots
  BY AddrsIs DEF AddrsAt

\* dns_hints_i_cmp() orders the slots, and never by a worse priority.
LEMMA OrderIs ==
    ASSUME HintsTypeOK, StoreInv,
           NEW a \in DOMAIN AddrsAt(level), NEW b \in DOMAIN AddrsAt(level)
    PROVE  /\ ~HintBefore(a, a)
           /\ a = b \/ HintBefore(a, b) \/ HintBefore(b, a)
           /\ HintBefore(a, b) => /\ ~HintBefore(b, a)
                                  /\ AddrsAt(level)[a].pri <= AddrsAt(level)[b].pri
           /\ \A c \in DOMAIN AddrsAt(level) : HintBefore(a, b) /\ HintBefore(b, c) => HintBefore(a, c)
<1>1. PICK A : A = AddrsAt(level)
  OBVIOUS
<1>2. /\ DOMAIN A \subseteq 1 .. HintSlots
      /\ \A q \in DOMAIN A : A[q].pri \in Nat
  <2>1. A \in Seq(HintRecords) /\ Len(A) \in Nat /\ Len(A) <= HintSlots
    BY <1>1, AddrsAtIs
  <2>2. \A q \in DOMAIN A : A[q] \in HintRecords
    BY <2>1
  <2>3. HintSlots \in Nat
    BY HintsAssumption
  <2> QED
    BY <2>1, <2>2, <2>3 DEF HintRecords
<1>3. /\ \A q \in 1 .. HintSlots : shuffled[q] \in Nat
      /\ \A q, r \in 1 .. HintSlots : shuffled[q] = shuffled[r] => q = r
  <2>1. shuffled \in Orders
    BY DEF HintsTypeOK
  <2>2. /\ shuffled \in [1 .. HintSlots -> 1 .. HintSlots]
        /\ \A q, r \in 1 .. HintSlots : shuffled[q] = shuffled[r] => q = r
    BY <2>1 DEF Orders
  <2>3. 1 .. HintSlots \subseteq Nat
    BY HintsAssumption
  <2> QED
    BY <2>2, <2>3
<1>4. \A q, r : HintBefore(q, r) <=>
                   A[q].pri < A[r].pri \/ (A[q].pri = A[r].pri /\ shuffled[q] < shuffled[r])
  BY <1>1 DEF HintBefore
<1>5. a \in DOMAIN A /\ b \in DOMAIN A
  BY <1>1
<1>6. ASSUME NEW c \in DOMAIN A, HintBefore(a, b), HintBefore(b, c) PROVE HintBefore(a, c)
  BY <1>2, <1>3, <1>4, <1>5, <1>6
<1>7. ~HintBefore(a, a)
  BY <1>2, <1>3, <1>4, <1>5
<1>8. a = b \/ HintBefore(a, b) \/ HintBefore(b, a)
  BY <1>2, <1>3, <1>4, <1>5
<1>9. HintBefore(a, b) => ~HintBefore(b, a) /\ A[a].pri <= A[b].pri
  BY <1>2, <1>3, <1>4, <1>5
<1> QED
  BY <1>1, <1>6, <1>7, <1>8, <1>9

\* The slots stay while nothing is inserted, and so do those of the zones of a query.
LEMMA StoreStays ==
    ASSUME StoreInv, UNCHANGED <<soas, given>>
    PROVE  StoreInv'
<1>1. \A z : InsertedFor(z)' = InsertedFor(z)
  BY DEF InsertedFor
<1>2. \A i : SlotOf(i)' = SlotOf(i)
  BY <1>1 DEF SlotOf, InsertedFor
<1>3. \A i : Stays(i)' = Stays(i)
  BY <1>1, <1>2 DEF Stays, InsertedFor
<1> QED
  BY <1>1, <1>2, <1>3 DEF StoreInv, InsertedFor

\* The same of the zones of a query.
LEMMA AddrsStay ==
    ASSUME UNCHANGED <<soas, query>>
    PROVE  \A n : AddrsAt(n)' = AddrsAt(n)
  BY DEF AddrsAt, AddrsOf, Fetch

\* An insertion, and what surrounds the insertions of resolv.conf.
LEMMA StoreKeeps ==
    ASSUME HintsInv,
           \/ \E zone \in HintZones, addr \in HintAddrs, pri \in HintPris : AddHint(zone, addr, pri)
           \/ \E list \in ServerLists : HintsLocal(list)
           \/ InsertServer \/ LocalDone
    PROVE  HintsInv'
<1>1. /\ HintsTypeOK /\ StoreInv /\ offered = <<>>
      /\ hintsAt' \in {"open", "local"} /\ UNCHANGED iterVars
  BY DEF HintsInv, AddHint, HintsLocal, InsertServer, LocalDone, iterVars
<1>2. SUFFICES /\ soas' \in Seq(SoaType) /\ given' \in Seq([zone : Zones, addr : Addresses, pri : Nat])
               /\ resconf' \in [servers : Seq(Addresses), rotate : BOOLEAN, p : Nat]
               /\ StoreInv'
  BY <1>1 DEF HintsInv, HintsTypeOK, SoaType, iterVars
<1>3. /\ soas \in Seq(SoaType) /\ given \in Seq([zone : Zones, addr : Addresses, pri : Nat])
      /\ resconf \in [servers : Seq(Addresses), rotate : BOOLEAN, p : Nat]
  BY <1>1 DEF HintsTypeOK, SoaType
<1>4. CASE \E zone \in HintZones, addr \in HintAddrs, pri \in HintPris : AddHint(zone, addr, pri)
  <2>1. PICK zone \in HintZones, addr \in HintAddrs, pri \in HintPris : AddHint(zone, addr, pri)
    BY <1>4
  <2>2. zone \in Zones /\ addr \in Addresses /\ pri \in Nat
    BY HintsAssumption DEF Zones, Addresses
  <2>3. InsertHint(zone, addr, pri) /\ UNCHANGED resconf
    BY <2>1 DEF AddHint
  <2> QED
    BY <1>1, <1>3, <2>2, <2>3, InsertKeeps
<1>5. CASE \E list \in ServerLists : HintsLocal(list)
  <2>1. PICK list \in ServerLists : HintsLocal(list)
    BY <1>5
  <2>2. list.servers \in Seq(Addresses) /\ list.rotate \in BOOLEAN
    <3>1. list.servers \in Seq({list.servers[i] : i \in DOMAIN list.servers})
      BY HintsAssumption
    <3>2. {list.servers[i] : i \in DOMAIN list.servers} \subseteq Addresses
      BY DEF Addresses
    <3>3. \A S : S \subseteq Addresses /\ list.servers \in Seq(S) => list.servers \in Seq(Addresses)
      OBVIOUS
    <3> QED
      BY <3>1, <3>2, <3>3, HintsAssumption
  <2>3. resconf' = [servers |-> list.servers, rotate |-> list.rotate, p |-> 1]
        /\ UNCHANGED <<soas, given>>
    BY <2>1 DEF HintsLocal
  <2> QED
    BY <1>1, <1>3, <2>2, <2>3, StoreStays
<1>6. CASE InsertServer
  <2>1. /\ resconf.servers \in Seq(Addresses) /\ resconf.servers # <<>> /\ resconf.p \in Nat
        /\ resconf.rotate \in BOOLEAN
    BY <1>3, <1>6 DEF InsertServer
  <2>2. Head(resconf.servers) \in Addresses /\ Tail(resconf.servers) \in Seq(Addresses) /\ <<>> \in Zones
    BY <2>1 DEF Zones
  <2>3. /\ InsertHint(<<>>, Head(resconf.servers), resconf.p)
        /\ resconf' = [resconf EXCEPT !.servers = Tail(resconf.servers),
                                      !.p = IF resconf.rotate THEN resconf.p ELSE resconf.p + 1]
    BY <1>6 DEF InsertServer
  <2>4. resconf' \in [servers : Seq(Addresses), rotate : BOOLEAN, p : Nat]
    <3>1. PICK t : t = Tail(resconf.servers)
      OBVIOUS
    <3>2. PICK p : p = IF resconf.rotate THEN resconf.p ELSE resconf.p + 1
      OBVIOUS
    <3>3. p \in Nat /\ t \in Seq(Addresses)
      BY <3>1, <3>2, <2>1, <2>2
    <3>4. resconf' = [resconf EXCEPT !.servers = t, !.p = p]
      BY <3>1, <3>2, <2>3
    <3> QED
      BY <3>3, <3>4, <1>3
  <2> QED
    BY <1>1, <2>1, <2>2, <2>3, <2>4, InsertKeeps
<1>7. CASE LocalDone
  <2>1. resconf' = NoServers /\ UNCHANGED <<soas, given>>
    BY <1>7 DEF LocalDone
  <2>2. NoServers \in [servers : Seq(Addresses), rotate : BOOLEAN, p : Nat]
    BY DEF NoServers
  <2> QED
    BY <1>1, <1>3, <2>1, <2>2, StoreStays
<1> QED
  BY <1>4, <1>5, <1>6, <1>7

\* Every iteration starts before the first slot.
LEMMA HintsQueryKeeps ==
    ASSUME HintsInv, NEW name \in HintZones, HintsQuery(name)
    PROVE  HintsInv'
<1>1. /\ HintsTypeOK /\ StoreInv /\ offered = <<>> /\ hintsAt' = "query"
      /\ query' = name /\ level' = 1 /\ shuffled' \in Orders /\ p0' = 0 /\ pZ' = 0 /\ slot' = 1
      /\ UNCHANGED <<soas, given, resconf, offered>>
  BY DEF HintsInv, HintsQuery, HintsIInit
<1>2. Len(query') \in Nat
  <2>1. name \in Seq({name[i] : i \in DOMAIN name})
    BY HintsAssumption
  <2>2. Len(name) \in Nat
    BY <2>1
  <2> QED
    BY <1>1, <2>2
<1>3. HintsTypeOK' /\ StoreInv'
  BY <1>1, <1>2, StoreStays DEF HintsTypeOK
<1>4. Len(AddrsAt(level))' \in Nat
  <2>1. PICK z : z = SubSeq(name, 1, Len(name))
    OBVIOUS
  <2>2. AddrsAt(level)' = AddrsOf(z)
    BY <1>1, <2>1 DEF AddrsAt, AddrsOf, Fetch
  <2> QED
    BY <1>1, <2>2, AddrsIs
<1>5. ScanInv'
  BY <1>1, <1>4 DEF ScanInv
<1>6. OfferedInv' /\ InOrderOffered'
  BY <1>1 DEF OfferedInv, InOrderOffered, OfferedSet
<1> QED
  BY <1>1, <1>3, <1>5, <1>6 DEF HintsInv

\* A turn of the scan.
LEMMA ScanKeeps ==
    ASSUME HintsInv, HintsScan
    PROVE  HintsInv'
<1>1. /\ HintsTypeOK /\ StoreInv /\ ScanInv /\ OfferedInv /\ InOrderOffered
      /\ hintsAt = "query" /\ hintsAt' = "query"
      /\ UNCHANGED <<soas, given, resconf, query, level, shuffled, p0, offered>>
  BY DEF HintsInv, HintsScan
<1>2. PICK n : n = Len(AddrsAt(level))
  OBVIOUS
<1>3. /\ slot <= n /\ slot' = slot + 1
      /\ pZ' = IF (p0 = 0 \/ HintBefore(p0, slot)) /\ (pZ = 0 \/ HintBefore(slot, pZ))
               THEN slot ELSE pZ
  BY <1>2 DEF HintsScan
<1>4. /\ n \in Nat /\ DOMAIN AddrsAt(level) = 1 .. n
      /\ p0 \in 0 .. n /\ slot \in 1 .. n + 1 /\ pZ \in 0 .. (slot - 1)
      /\ pZ # 0 => p0 = 0 \/ HintBefore(p0, pZ)
      /\ \A q \in 1 .. (slot - 1) :
            p0 = 0 \/ HintBefore(p0, q) => pZ # 0 /\ (q = pZ \/ HintBefore(pZ, q))
  BY <1>1, <1>2, AddrsAtIs DEF ScanInv
<1>5. HintsTypeOK' /\ StoreInv'
  BY <1>1, StoreStays DEF HintsTypeOK
<1>6. \A m : AddrsAt(m)' = AddrsAt(m)
  BY <1>1, AddrsStay
<1>7. /\ \A q, r : HintBefore(q, r)' = HintBefore(q, r)
      /\ AddrsAt(level)' = AddrsAt(level) /\ Len(AddrsAt(level))' = n
  BY <1>1, <1>2 DEF HintBefore, AddrsAt, AddrsOf, Fetch
<1>8. slot' \in 1 .. n + 1 /\ pZ' \in 0 .. (slot' - 1) /\ slot \in 1 .. n
  BY <1>3, <1>4
<1>9. pZ' # 0 => p0 = 0 \/ HintBefore(p0, pZ')
  BY <1>3, <1>4
<1>10. ASSUME NEW q \in 1 .. (slot' - 1), p0 = 0 \/ HintBefore(p0, q)
       PROVE  pZ' # 0 /\ (q = pZ' \/ HintBefore(pZ', q))
  <2>1. q = slot \/ q \in 1 .. (slot - 1)
    BY <1>3, <1>4
  <2>2. q \in 1 .. n
    BY <2>1, <1>4, <1>8
  <2>3. CASE q = slot
    <3>1. CASE pZ = 0 \/ HintBefore(slot, pZ)
      BY <2>3, <3>1, <1>3, <1>4, <1>10
    <3>2. CASE pZ # 0 /\ ~HintBefore(slot, pZ)
      <4>1. pZ \in 1 .. n /\ pZ # slot
        BY <3>2, <1>4, <1>8
      <4>2. HintBefore(pZ, slot)
        BY <3>2, <4>1, <1>1, <1>4, <1>8, OrderIs
      <4> QED
        BY <2>3, <3>2, <4>2, <1>3
    <3> QED
      BY <3>1, <3>2
  <2>4. CASE q \in 1 .. (slot - 1)
    <3>1. pZ # 0 /\ (q = pZ \/ HintBefore(pZ, q)) /\ pZ \in 1 .. n
      BY <2>4, <1>4, <1>10
    <3>2. CASE pZ' = pZ
      BY <3>1, <3>2
    <3>3. CASE pZ' # pZ
      <4>1. pZ' = slot /\ HintBefore(slot, pZ)
        BY <3>1, <3>3, <1>3
      <4>2. HintBefore(slot, q)
        BY <3>1, <4>1, <2>2, <1>1, <1>4, <1>8, OrderIs
      <4> QED
        BY <4>1, <4>2, <1>8
    <3> QED
      BY <3>2, <3>3
  <2> QED
    BY <2>1, <2>3, <2>4
<1>11. ScanInv'
  BY <1>1, <1>4, <1>7, <1>8, <1>9, <1>10 DEF ScanInv
<1>12. OfferedInv' /\ InOrderOffered'
  <2>1. OfferedSet' = OfferedSet
    BY <1>1 DEF OfferedSet
  <2> QED
    BY <1>1, <1>6, <1>7, <2>1 DEF OfferedInv, InOrderOffered
<1> QED
  BY <1>1, <1>5, <1>11, <1>12 DEF HintsInv

\* Offering the slot that a scan found.
LEMMA GrepKeeps ==
    ASSUME HintsInv, HintsGrep
    PROVE  HintsInv'
<1>1. /\ HintsTypeOK /\ StoreInv /\ ScanInv /\ OfferedInv /\ InOrderOffered
      /\ hintsAt = "query" /\ hintsAt' = "query"
      /\ UNCHANGED <<soas, given, resconf, hintsAt, query, level, shuffled>>
  BY DEF HintsInv, HintsGrep
<1>2. PICK n : n = Len(AddrsAt(level))
  OBVIOUS
<1>3. PICK o : o = <<level, pZ>>
  OBVIOUS
<1>4. /\ slot > n /\ pZ # 0 /\ p0' = pZ /\ pZ' = 0 /\ slot' = 1
      /\ offered' = Append(offered, o)
  BY <1>2, <1>3 DEF HintsGrep
<1>5. /\ n \in Nat /\ DOMAIN AddrsAt(level) = 1 .. n
      /\ p0 \in 0 .. n /\ slot \in 1 .. n + 1 /\ pZ \in 0 .. (slot - 1)
      /\ p0 = 0 \/ HintBefore(p0, pZ)
      /\ \A q \in 1 .. (slot - 1) : p0 = 0 \/ HintBefore(p0, q) => q = pZ \/ HintBefore(pZ, q)
  BY <1>1, <1>2, <1>4, AddrsAtIs DEF ScanInv
<1>6. slot - 1 = n /\ pZ \in 1 .. n /\ (p0 # 0 => p0 \in 1 .. n)
  BY <1>4, <1>5
<1>7. /\ offered \in Seq(Nat \X Nat) /\ Len(offered) \in Nat
      /\ level \in Nat /\ o \in Nat \X Nat /\ o[1] = level /\ o[2] = pZ
  <2>1. Len(query) \in Nat /\ level \in 1 .. Len(query) + 1 /\ offered \in Seq(Nat \X Nat)
    BY <1>1 DEF HintsTypeOK
  <2> QED
    BY <2>1, <1>3, <1>5, <1>6
<1>8. PICK m : m = Len(offered) + 1
  OBVIOUS
<1>9. /\ offered' \in Seq(Nat \X Nat) /\ DOMAIN offered' = 1 .. m /\ m \in Nat
      /\ DOMAIN offered = 1 .. (m - 1) /\ offered'[m] = o
      /\ \A i \in 1 .. (m - 1) : offered'[i] = offered[i]
  BY <1>4, <1>7, <1>8
<1>10. HintsTypeOK' /\ StoreInv'
  BY <1>1, <1>9, StoreStays DEF HintsTypeOK
<1>11. \A k : AddrsAt(k)' = AddrsAt(k)
  BY <1>1, AddrsStay
<1>12. /\ \A q, r : HintBefore(q, r)' = HintBefore(q, r)
       /\ AddrsAt(level)' = AddrsAt(level) /\ Len(AddrsAt(level))' = n
  BY <1>1, <1>2 DEF HintBefore, AddrsAt, AddrsOf, Fetch
<1>13. ScanInv'
  BY <1>4, <1>5, <1>6, <1>12 DEF ScanInv
<1>14. OfferedSet' = OfferedSet \cup {o}
  <2>1. OfferedSet' = {offered'[i] : i \in 1 .. m} /\ OfferedSet = {offered[i] : i \in 1 .. (m - 1)}
    BY <1>9 DEF OfferedSet
  <2>2. 1 .. m = (1 .. (m - 1)) \cup {m}
    BY <1>8, <1>7
  <2>3. {offered'[i] : i \in 1 .. m} = {offered'[i] : i \in 1 .. (m - 1)} \cup {offered'[m]}
    BY <2>2
  <2>4. {offered'[i] : i \in 1 .. (m - 1)} = {offered[i] : i \in 1 .. (m - 1)}
    BY <1>9
  <2> QED
    BY <2>1, <2>3, <2>4, <1>9
<1>15. \A q \in 1 .. n : <<level, q>> \in OfferedSet <=> p0 # 0 /\ (q = p0 \/ HintBefore(q, p0))
  BY <1>1, <1>5 DEF OfferedInv
<1>16. \A q \in 1 .. n : p0 # 0 /\ (q = p0 \/ HintBefore(q, p0)) => HintBefore(q, pZ)
  BY <1>1, <1>5, <1>6, OrderIs
<1>17. \A q \in 1 .. n : HintBefore(q, pZ) => p0 # 0 /\ (q = p0 \/ HintBefore(q, p0))
  BY <1>1, <1>5, <1>6, OrderIs
<1>18. \A q \in 1 .. n : <<level, q>> \in OfferedSet' <=> q = pZ \/ HintBefore(q, pZ)
  <2>1. \A q \in 1 .. n : <<level, q>> = o <=> q = pZ
    BY <1>3
  <2> QED
    BY <2>1, <1>14, <1>15, <1>16, <1>17
<1>19. OfferedInv'
  <2>1. \A x \in OfferedSet' : x[1] \in 1 .. level /\ x[2] \in DOMAIN AddrsAt(x[1])
    <3>1. o[1] \in 1 .. level /\ o[2] \in DOMAIN AddrsAt(level)
      BY <1>1, <1>5, <1>6, <1>7 DEF HintsTypeOK
    <3> QED
      BY <3>1, <1>1, <1>7, <1>14 DEF OfferedInv
  <2>2. \A k \in 1 .. (level - 1) : \A q \in DOMAIN AddrsAt(k) : <<k, q>> \in OfferedSet'
    BY <1>1, <1>14 DEF OfferedInv
  <2>3. \A q \in DOMAIN AddrsAt(level) : <<level, q>> \in OfferedSet' <=> q = pZ \/ HintBefore(q, pZ)
    BY <1>5, <1>18
  <2> QED
    BY <2>1, <2>2, <2>3, <1>1, <1>4, <1>11, <1>12 DEF OfferedInv
<1>20. ASSUME NEW i \in 1 .. (m - 1)
       PROVE  /\ offered[i] # o
              /\ \/ offered[i][1] < level
                 \/ /\ offered[i][1] = level
                    /\ AddrsAt(offered[i][1])[offered[i][2]].pri <= AddrsAt(level)[pZ].pri
  <2>1. PICK x : x = offered[i]
    OBVIOUS
  <2>2. x \in OfferedSet /\ x \in Nat \X Nat
    <3>1. i \in DOMAIN offered
      BY <1>9
    <3>2. offered[i] \in Nat \X Nat
      BY <3>1, <1>7
    <3> QED
      BY <2>1, <3>1, <3>2 DEF OfferedSet
  <2>3. /\ x = <<x[1], x[2]>> /\ x[1] \in Nat /\ x[2] \in Nat /\ x[1] <= level
        /\ x[2] \in DOMAIN AddrsAt(x[1])
    BY <2>2, <1>1, <1>7 DEF OfferedInv
  <2>4. CASE x[1] = level
    <3>1. PICK q : q = x[2]
      OBVIOUS
    <3>2. q \in 1 .. n /\ <<level, q>> \in OfferedSet
      BY <3>1, <2>2, <2>3, <2>4, <1>5
    <3>3. HintBefore(q, pZ)
      BY <3>2, <1>15, <1>16
    <3>4. q # pZ /\ AddrsAt(level)[q].pri <= AddrsAt(level)[pZ].pri
      BY <3>2, <3>3, <1>1, <1>5, <1>6, OrderIs
    <3> QED
      BY <3>1, <3>4, <2>1, <2>4, <1>7
  <2>5. CASE x[1] # level
    BY <2>1, <2>3, <2>5, <1>7
  <2> QED
    BY <2>4, <2>5
<1>21. InOrderOffered'
  <2>1. ASSUME NEW i \in 1 .. m, NEW j \in 1 .. m, i < j
        PROVE  /\ offered'[i] # offered'[j]
               /\ \/ offered'[i][1] < offered'[j][1]
                  \/ /\ offered'[i][1] = offered'[j][1]
                     /\ AddrsAt(offered'[i][1])[offered'[i][2]].pri
                           <= AddrsAt(offered'[j][1])[offered'[j][2]].pri
    <3>1. i \in 1 .. (m - 1) /\ (j = m \/ j \in 1 .. (m - 1))
      BY <2>1, <1>9
    <3>2. CASE j = m
      BY <3>1, <3>2, <1>7, <1>9, <1>20
    <3>3. CASE j \in 1 .. (m - 1)
      <4>1. /\ offered[i] # offered[j]
            /\ \/ offered[i][1] < offered[j][1]
               \/ /\ offered[i][1] = offered[j][1]
                  /\ AddrsAt(offered[i][1])[offered[i][2]].pri
                        <= AddrsAt(offered[j][1])[offered[j][2]].pri
        BY <3>1, <3>3, <2>1, <1>1, <1>9 DEF InOrderOffered
      <4> QED
        BY <4>1, <3>1, <3>3, <1>9
    <3> QED
      BY <3>1, <3>2, <3>3
  <2> QED
    BY <2>1, <1>9, <1>11 DEF InOrderOffered
<1> QED
  BY <1>1, <1>10, <1>13, <1>19, <1>21 DEF HintsInv

\* The zone is through, and the one above it is next.
LEMMA CleaveKeeps ==
    ASSUME HintsInv, HintsCleave
    PROVE  HintsInv'
<1>1. /\ HintsTypeOK /\ StoreInv /\ ScanInv /\ OfferedInv /\ InOrderOffered
      /\ hintsAt = "query" /\ slot > Len(AddrsAt(level)) /\ pZ = 0
      /\ UNCHANGED <<soas, given, resconf, query, offered>>
  BY DEF HintsInv, HintsCleave
<1>2. PICK n : n = Len(AddrsAt(level))
  OBVIOUS
<1>3. PICK l : l = level
  OBVIOUS
<1>4. /\ n \in Nat /\ DOMAIN AddrsAt(l) = 1 .. n /\ p0 \in 0 .. n /\ slot \in 1 .. n + 1
      /\ \A q \in 1 .. (slot - 1) : p0 # 0 /\ ~HintBefore(p0, q)
  BY <1>1, <1>2, <1>3, AddrsAtIs DEF ScanInv
<1>5. /\ Len(query) \in Nat /\ l \in Nat /\ l >= 1 /\ l <= Len(query) + 1
      /\ offered \in Seq(Nat \X Nat)
  BY <1>1, <1>3 DEF HintsTypeOK
<1>6. \A q \in DOMAIN AddrsAt(l) : <<l, q>> \in OfferedSet
  <2>1. slot - 1 = n
    BY <1>1, <1>2, <1>4
  <2>2. \A q \in 1 .. n : q = p0 \/ HintBefore(q, p0)
    BY <2>1, <1>1, <1>3, <1>4, OrderIs
  <2> QED
    BY <2>1, <2>2, <1>1, <1>3, <1>4 DEF OfferedInv
<1>7. \A k \in 1 .. l : \A q \in DOMAIN AddrsAt(k) : <<k, q>> \in OfferedSet
  <2>1. \A k \in 1 .. (l - 1) : \A q \in DOMAIN AddrsAt(k) : <<k, q>> \in OfferedSet
    BY <1>1, <1>3 DEF OfferedInv
  <2>2. \A k \in 1 .. l : k = l \/ k \in 1 .. (l - 1)
    BY <1>5
  <2> QED
    BY <2>1, <2>2, <1>6
<1>8. \A o \in OfferedSet : o[1] \in 1 .. l /\ o[2] \in DOMAIN AddrsAt(o[1])
  BY <1>1, <1>3 DEF OfferedInv
<1>9. OfferedSet' = OfferedSet /\ \A k : AddrsAt(k)' = AddrsAt(k)
  BY <1>1, AddrsStay DEF OfferedSet
<1>10. StoreInv'
  BY <1>1, StoreStays
<1>11. CASE level <= Len(query)
  <2>1. /\ level' = l + 1 /\ shuffled' \in Orders /\ p0' = 0 /\ pZ' = 0 /\ slot' = 1
        /\ hintsAt' = "query"
    BY <1>1, <1>3, <1>11 DEF HintsCleave, HintsIInit
  <2>2. level' \in 1 .. Len(query) + 1
    BY <2>1, <1>3, <1>5, <1>11
  <2>3. HintsTypeOK'
    BY <1>1, <2>1, <2>2 DEF HintsTypeOK
  <2>4. PICK k : k = l + 1
    OBVIOUS
  <2>5. AddrsAt(level)' = AddrsAt(k)
    BY <1>1, <2>1, <2>4 DEF AddrsAt, AddrsOf, Fetch
  <2>6. ScanInv'
    <3>1. Len(AddrsAt(level))' \in Nat
      BY <2>5, <1>1, AddrsAtIs
    <3> QED
      BY <2>1, <3>1 DEF ScanInv
  <2>7. OfferedInv'
    <3>1. \A o \in OfferedSet : o[1] \in 1 .. k /\ o[2] \in DOMAIN AddrsAt(o[1])
      BY <1>5, <1>8, <2>4
    <3>2. k - 1 = l
      BY <1>5, <2>4
    <3>3. \A q : <<k, q>> \notin OfferedSet
      <4>1. ASSUME NEW q, <<k, q>> \in OfferedSet PROVE FALSE
        <5>1. <<k, q>>[1] \in 1 .. l
          BY <4>1, <1>8
        <5> QED
          BY <5>1, <1>5, <2>4
      <4> QED
        BY <4>1
    <3> QED
      BY <3>1, <3>2, <3>3, <1>7, <1>9, <2>1, <2>4, <2>5 DEF OfferedInv
  <2>8. InOrderOffered'
    BY <1>1, <1>9 DEF InOrderOffered
  <2> QED
    BY <2>1, <2>3, <2>6, <2>7, <2>8, <1>10 DEF HintsInv
<1>12. CASE ~(level <= Len(query))
  <2>1. hintsAt' = "answered" /\ UNCHANGED <<level, shuffled>>
    BY <1>12 DEF HintsCleave
  <2>2. l = Len(query) + 1
    BY <1>3, <1>5, <1>12
  <2>3. HintsTypeOK'
    BY <1>1, <2>1 DEF HintsTypeOK
  <2> DEFINE places == UNION {{k} \X DOMAIN AddrsAt(k) : k \in 1 .. l}
  <2>4. OfferedSet \subseteq places
    <3>1. ASSUME NEW o \in OfferedSet PROVE o \in places
      <4>1. o[1] \in 1 .. l /\ o[2] \in DOMAIN AddrsAt(o[1])
        BY <1>8
      <4>2. o \in Nat \X Nat
        BY <1>5 DEF OfferedSet
      <4>3. o = <<o[1], o[2]>>
        BY <4>2
      <4>4. o \in {o[1]} \X DOMAIN AddrsAt(o[1])
        BY <4>1, <4>3
      <4> QED
        BY <4>1, <4>4
    <3> QED
      BY <3>1
  <2>5. places \subseteq OfferedSet
    BY <1>7
  <2>6. places' = places
    BY <1>3, <1>9, <2>1
  <2>7. OffersAll
    <3>1. {offered[i] : i \in DOMAIN offered} = places
      BY <2>4, <2>5 DEF OfferedSet
    <3> HIDE DEF places
    <3>2. places = UNION {{k} \X DOMAIN AddrsAt(k) : k \in 1 .. Len(query) + 1}
      BY <2>2 DEF places
    <3> QED
      BY <3>1, <3>2, <1>1 DEF OffersAll, InOrderOffered
  <2>8. OffersAll'
    BY <2>7, <1>1, <1>9 DEF OffersAll
  <2> QED
    BY <2>1, <2>3, <2>8, <1>10 DEF HintsInv
<1> QED
  BY <1>11, <1>12

\* The order before any is chosen has no ties either.
LEMMA NoSeedIs == NoSeed \in Orders
  BY HintsAssumption DEF NoSeed, Orders

\* The answer is taken.
LEMMA ReturnKeeps ==
    ASSUME HintsInv, HintsReturn
    PROVE  HintsInv'
<1>1. /\ HintsTypeOK /\ StoreInv /\ hintsAt' = "open" /\ query' = <<>> /\ level' = 1
      /\ shuffled' = NoSeed /\ offered' = <<>> /\ UNCHANGED <<soas, given, resconf>>
  BY DEF HintsInv, HintsReturn
<1>2. HintsTypeOK' /\ StoreInv'
  BY <1>1, NoSeedIs, StoreStays DEF HintsTypeOK
<1> QED
  BY <1>1, <1>2 DEF HintsInv

\* Nothing is known at first.
LEMMA HintsInitInv ==
    ASSUME HintsInit
    PROVE  HintsInv
<1>1. /\ soas = <<>> /\ given = <<>> /\ resconf = NoServers /\ hintsAt = "open"
      /\ query = <<>> /\ level = 1 /\ shuffled = NoSeed /\ offered = <<>>
  BY DEF HintsInit
<1>2. NoServers \in [servers : Seq(Addresses), rotate : BOOLEAN, p : Nat]
  BY DEF NoServers
<1>3. HintsTypeOK
  BY <1>1, <1>2, NoSeedIs DEF HintsTypeOK
<1>4. StoreInv
  BY <1>1 DEF StoreInv
<1> QED
  BY <1>1, <1>3, <1>4 DEF HintsInv

\* Every step keeps what is said of the hints and of an iteration.
LEMMA HintsNextInv ==
    ASSUME HintsInv, [HintsNext]_hintsVars
    PROVE  HintsInv'
<1>1. CASE HintsNext
  <2>1. CASE \/ \E zone \in HintZones, addr \in HintAddrs, pri \in HintPris : AddHint(zone, addr, pri)
             \/ \E list \in ServerLists : HintsLocal(list)
             \/ InsertServer \/ LocalDone
    BY <2>1, StoreKeeps
  <2>2. CASE \E name \in HintZones : HintsQuery(name)
    BY <2>2, HintsQueryKeeps
  <2>3. CASE HintsScan
    BY <2>3, ScanKeeps
  <2>4. CASE HintsGrep
    BY <2>4, GrepKeeps
  <2>5. CASE HintsCleave
    BY <2>5, CleaveKeeps
  <2>6. CASE HintsReturn
    BY <2>6, ReturnKeeps
  <2> QED
    BY <1>1, <2>1, <2>2, <2>3, <2>4, <2>5, <2>6 DEF HintsNext
<1>2. CASE UNCHANGED hintsVars
  <2>1. /\ UNCHANGED <<soas, given, resconf, hintsAt>>
        /\ UNCHANGED <<query, level, shuffled, p0, pZ, slot, offered>>
    BY <1>2 DEF hintsVars, iterVars
  <2>2. \A k : AddrsAt(k)' = AddrsAt(k)
    BY <2>1, AddrsStay
  <2>3. /\ \A q, r : HintBefore(q, r)' = HintBefore(q, r)
        /\ AddrsAt(level)' = AddrsAt(level) /\ OfferedSet' = OfferedSet
    BY <2>1 DEF HintBefore, AddrsAt, AddrsOf, Fetch, OfferedSet
  <2>4. HintsTypeOK' /\ StoreInv'
    BY <2>1, StoreStays DEF HintsInv, HintsTypeOK
  <2>5. ScanInv => ScanInv'
    BY <2>1, <2>3 DEF ScanInv
  <2>6. OfferedInv => OfferedInv'
    BY <2>1, <2>2, <2>3 DEF OfferedInv
  <2>7. InOrderOffered => InOrderOffered'
    BY <2>1, <2>2 DEF InOrderOffered
  <2>8. OffersAll => OffersAll'
    BY <2>1, <2>2 DEF OffersAll
  <2> QED
    BY <2>1, <2>4, <2>5, <2>6, <2>7, <2>8 DEF HintsInv
<1> QED
  BY <1>1, <1>2

\* What was inserted and not replaced is in its slot.
LEMMA GivenIsKept ==
    ASSUME HintsTypeOK, StoreInv
    PROVE  KeepsGiven
<1>1. ASSUME NEW i \in DOMAIN given, Stays(i)
      PROVE  /\ SlotOf(i) \in DOMAIN AddrsOf(given[i].zone)
             /\ AddrsOf(given[i].zone)[SlotOf(i)] = HintOf(given[i])
  <2>1. PICK z : z = given[i].zone
    OBVIOUS
  <2>2. PICK k \in DOMAIN soas : soas[k].zone = z /\ AddrsOf(z) = soas[k].addrs
    <3>1. PICK k \in DOMAIN soas : soas[k].zone = z
      BY <2>1 DEF StoreInv
    <3>2. PICK f : f = Fetch(z)
      OBVIOUS
    <3>3. f # 0 /\ f \in DOMAIN soas /\ soas[f].zone = z
      BY <3>1, <3>2, FetchIs
    <3> QED
      BY <3>2, <3>3 DEF AddrsOf
  <2>3. PICK n : n = Cardinality(InsertedFor(z))
    OBVIOUS
  <2>4. PICK J : J = {j \in InsertedFor(z) : j <= i}
    OBVIOUS
  <2>5. PICK m : m = Cardinality(J)
    OBVIOUS
  <2>6. given \in Seq([zone : Zones, addr : Addresses, pri : Nat])
    BY DEF HintsTypeOK
  <2>7. Len(given) \in Nat /\ DOMAIN given = 1 .. Len(given) /\ i \in Nat
    BY <2>6
  <2>8. IsFiniteSet(InsertedFor(z)) /\ n \in Nat
    <3>1. IsFiniteSet(1 .. Len(given))
      BY <2>7, FS_Interval
    <3>2. InsertedFor(z) \subseteq 1 .. Len(given)
      BY <2>7 DEF InsertedFor
    <3> QED
      BY <3>1, <3>2, <2>3, FS_Subset, FS_CardinalityType
  <2>9. i \in InsertedFor(z) /\ i \in J
    BY <2>1, <2>4, <2>7 DEF InsertedFor
  <2>10. m \in Nat /\ m >= 1 /\ m <= n
    <3>1. J \subseteq InsertedFor(z)
      BY <2>4
    <3>2. IsFiniteSet(J) /\ m \in Nat /\ m <= n
      BY <3>1, <2>3, <2>5, <2>8, FS_Subset, FS_CardinalityType
    <3>3. m # 0
      BY <3>2, <2>5, <2>9, FS_EmptySet
    <3> QED
      BY <3>2, <3>3
  <2>11. SlotOf(i) = IF m <= HintSlots THEN m ELSE 1
    BY <2>1, <2>4, <2>5 DEF SlotOf
  <2>12. PICK A : A = soas[k].addrs
    OBVIOUS
  <2>13. Len(A) = (IF n <= HintSlots THEN n ELSE HintSlots) /\ DOMAIN A = 1 .. Len(A)
    <3>1. soas \in Seq(SoaType)
      BY DEF HintsTypeOK, SoaType
    <3>2. soas[k] \in SoaType
      BY <2>2, <3>1
    <3>3. A \in Seq(HintRecords)
      BY <2>12, <3>2 DEF SoaType
    <3> QED
      BY <2>2, <2>3, <2>12, <3>3 DEF StoreInv
  <2>14. SlotOf(i) \in DOMAIN A
    BY <2>8, <2>10, <2>11, <2>13, HintsAssumption
  <2>15. PICK h \in InsertedFor(z) : SlotOf(h) = SlotOf(i) /\ Stays(h) /\ A[SlotOf(i)] = HintOf(given[h])
    BY <2>2, <2>12, <2>14 DEF StoreInv
  <2>16. h = i
    <3>1. given[h].zone = z /\ h \in Nat
      BY <2>7, <2>15 DEF InsertedFor
    <3>2. h <= i
      BY <1>1, <2>1, <2>15 DEF Stays
    <3>3. i <= h
      BY <2>9, <2>15, <3>1 DEF Stays
    <3> QED
      BY <2>7, <3>1, <3>2, <3>3
  <2> QED
    BY <2>1, <2>2, <2>12, <2>14, <2>15, <2>16
<1>2. \A k \in DOMAIN soas : \A p \in DOMAIN soas[k].addrs :
         \E i \in InsertedFor(soas[k].zone) : SlotOf(i) = p /\ Stays(i)
  BY DEF StoreInv
<1> QED
  BY <1>1, <1>2 DEF KeepsGiven

\* dns_hints_port() answers with a port that the address was inserted with.
LEMMA PortWasGiven ==
    ASSUME HintsTypeOK, StoreInv, NEW k \in DOMAIN soas, NEW p \in DOMAIN soas[k].addrs,
           NEW addr, addr = soas[k].addrs[p].addr[1]
    PROVE  \E i \in DOMAIN given :
              /\ given[i].addr[1] = addr
              /\ HintsPort(addr) = IF given[i].addr[2] = 0 THEN 53 ELSE given[i].addr[2]
<1>1. /\ DOMAIN soas \in SUBSET Nat /\ 0 \notin DOMAIN soas
      /\ \A j \in DOMAIN soas : DOMAIN soas[j].addrs \in SUBSET Nat /\ 0 \notin DOMAIN soas[j].addrs
  <2>1. soas \in Seq(SoaType)
    BY DEF HintsTypeOK, SoaType
  <2>2. \A j \in DOMAIN soas : soas[j] \in SoaType
    BY <2>1
  <2>3. \A j \in DOMAIN soas : soas[j].addrs \in Seq(HintRecords)
    BY <2>2 DEF SoaType
  <2> QED
    BY <2>1, <2>3
<1>2. PICK S : S = {j \in DOMAIN soas : \E r \in DOMAIN soas[j].addrs : soas[j].addrs[r].addr[1] = addr}
  OBVIOUS
<1>3. PICK s : s = FirstOf(S)
  OBVIOUS
<1>4. s \in S /\ s # 0
  <2>1. k \in S /\ S \in SUBSET Nat /\ 0 \notin S
    BY <1>1, <1>2
  <2> QED
    BY <2>1, <1>3, FirstOfIs
<1>5. PICK R : R = {r \in DOMAIN soas[s].addrs : soas[s].addrs[r].addr[1] = addr}
  OBVIOUS
<1>6. PICK f : f = FirstOf(R)
  OBVIOUS
<1>7. f \in R
  <2>1. R # {} /\ R \in SUBSET Nat /\ 0 \notin R
    BY <1>1, <1>2, <1>4, <1>5
  <2> QED
    BY <2>1, <1>6, FirstOfIs
<1>8. PICK h : h = soas[s].addrs[f]
  OBVIOUS
<1>9. HintsPort(addr) = IF s = 0 \/ h.addr[2] = 0 THEN 53 ELSE h.addr[2]
  BY <1>2, <1>3, <1>5, <1>6, <1>8 DEF HintsPort
<1>10. s \in DOMAIN soas /\ f \in DOMAIN soas[s].addrs /\ h.addr[1] = addr
  BY <1>2, <1>4, <1>5, <1>7, <1>8
<1>11. PICK i \in InsertedFor(soas[s].zone) : h = HintOf(given[i])
  BY <1>8, <1>10 DEF StoreInv
<1>12. i \in DOMAIN given /\ h.addr = given[i].addr
  BY <1>11 DEF InsertedFor, HintOf
<1> QED
  BY <1>4, <1>9, <1>10, <1>12

\* dns_hints_query(): every server that was given for a zone and not replaced since is
\* offered once by a query for a name in it, nearer zones and better priorities first,
\* and dns_hints_port() knows a port it was given with.
THEOREM ServersOffered == HintsSpec => []ServersByPriority
<1>1. HintsInit => HintsInv
  BY HintsInitInv
<1>2. HintsInv /\ [HintsNext]_hintsVars => HintsInv'
  BY HintsNextInv
<1>3. HintsInv => ServersByPriority
  <2> SUFFICES ASSUME HintsInv PROVE ServersByPriority
    OBVIOUS
  <2>1. HintsTypeOK /\ StoreInv /\ (hintsAt = "answered" => OffersAll)
    BY DEF HintsInv
  <2> QED
    BY <2>1, GivenIsKept, PortWasGiven DEF ServersByPriority
<1> QED
  BY <1>1, <1>2, <1>3, PTL DEF HintsSpec
=============================================================================
