--------------------------- MODULE SequenceLemmas ---------------------------
(***************************************************************************)
(* Facts about the sequences that stand for linked chains: their reversal, *)
(* and what is in them, once, when an element is added or taken.  And the  *)
(* least of a set of numbers.                                              *)
(***************************************************************************)
EXTENDS Naturals, SequencesExt, SequenceTheorems, WellFoundedInduction, TLAPS

\* The reversal of a sequence, element by element.
LEMMA ReverseType ==
    ASSUME NEW S, NEW s \in Seq(S)
    PROVE  /\ Reverse(s) \in Seq(S)
           /\ Len(Reverse(s)) = Len(s)
           /\ \A i \in 1 .. Len(s) : Reverse(s)[i] = s[Len(s) - i + 1]
           /\ s # <<>> => Reverse(s) # <<>>
           /\ s = <<>> => Reverse(s) = <<>>
  BY DEF Reverse

\* What is put in front of a sequence is at the end of its reversal.
LEMMA ReversePush ==
    ASSUME NEW S, NEW s \in Seq(S), NEW c \in S
    PROVE  Reverse(<<c>> \o s) = Append(Reverse(s), c)
<1> DEFINE r == Reverse(<<c>> \o s)
           a == Append(Reverse(s), c)
<1>1. <<c>> \o s \in Seq(S) /\ Len(<<c>> \o s) = Len(s) + 1
  OBVIOUS
<1>2. r \in Seq(S) /\ Len(r) = Len(s) + 1
  BY <1>1, ReverseType
<1>3. a \in Seq(S) /\ Len(a) = Len(s) + 1
  BY ReverseType
<1>4. \A i \in 1 .. Len(s) + 1 : r[i] = a[i]
  <2> SUFFICES ASSUME NEW i \in 1 .. Len(s) + 1 PROVE r[i] = a[i]
    OBVIOUS
  <2>1. r[i] = (<<c>> \o s)[Len(s) + 1 - i + 1]
    BY <1>1 DEF Reverse
  <2>2. CASE i = Len(s) + 1
    BY <2>1, <2>2, ReverseType
  <2>3. CASE i # Len(s) + 1
    <3>1. a[i] = s[Len(s) - i + 1]
      BY <2>3, ReverseType
    <3>2. (<<c>> \o s)[Len(s) + 1 - i + 1] = s[Len(s) - i + 1]
      BY <2>3
    <3> QED
      BY <2>1, <3>1, <3>2
  <2> QED
    BY <2>2, <2>3
<1> QED
  BY <1>2, <1>3, <1>4, SeqEqual

\* One more at the end of a line without repetitions, if it is not there yet.
LEMMA AppendOnce ==
    ASSUME NEW S, NEW s \in Seq(S), IsInjective(s), NEW c \in S, c \notin ToSet(s)
    PROVE  ToSet(Append(s, c)) = ToSet(s) \cup {c} /\ IsInjective(Append(s, c))
<1> DEFINE a == Append(s, c)
<1>1. DOMAIN s = 1 .. Len(s) /\ DOMAIN a = 1 .. Len(s) + 1
  OBVIOUS
<1>2. a[Len(s) + 1] = c /\ \A i \in 1 .. Len(s) : a[i] = s[i]
  OBVIOUS
<1>3. \A i \in 1 .. Len(s) : s[i] # c
  BY <1>1 DEF ToSet
<1>4. Len(s) \in Nat
  OBVIOUS
<1> HIDE DEF a
<1>5. ToSet(a) = ToSet(s) \cup {c}
  <2>1. ASSUME NEW i \in DOMAIN a PROVE a[i] \in ToSet(s) \cup {c}
    BY <1>1, <1>2, <1>4 DEF ToSet
  <2>2. ASSUME NEW x \in ToSet(s) PROVE x \in ToSet(a)
    <3>1. PICK i \in 1 .. Len(s) : x = s[i]
      BY <1>1, <2>2 DEF ToSet
    <3>2. i \in DOMAIN a /\ a[i] = x
      BY <1>1, <1>2, <1>4, <3>1
    <3> QED
      BY <3>2 DEF ToSet
  <2>3. c \in ToSet(a)
    BY <1>1, <1>2, <1>4 DEF ToSet
  <2> QED
    BY <2>1, <2>2, <2>3 DEF ToSet
<1>6. IsInjective(a)
  <2> SUFFICES ASSUME NEW i \in DOMAIN a, NEW j \in DOMAIN a, a[i] = a[j]
               PROVE  i = j
    BY DEF IsInjective
  <2> QED
    BY <1>1, <1>2, <1>3, <1>4 DEF IsInjective
<1> QED
  BY <1>5, <1>6 DEF a

\* The first of such a line leaves it, and the others stay.
LEMMA TailOnce ==
    ASSUME NEW S, NEW s \in Seq(S), IsInjective(s), s # <<>>
    PROVE  ToSet(Tail(s)) = ToSet(s) \ {Head(s)} /\ IsInjective(Tail(s))
<1> DEFINE t == Tail(s)
<1>1. /\ DOMAIN s = 1 .. Len(s) /\ DOMAIN t = 1 .. Len(s) - 1
      /\ Len(s) \in Nat /\ Len(s) > 0 /\ Head(s) = s[1]
  OBVIOUS
<1>2. \A i \in 1 .. Len(s) - 1 : t[i] = s[i + 1]
  OBVIOUS
<1> HIDE DEF t
<1>3. ToSet(t) = ToSet(s) \ {Head(s)}
  <2>1. ASSUME NEW i \in DOMAIN t PROVE t[i] \in ToSet(s) \ {Head(s)}
    <3>1. i + 1 \in DOMAIN s /\ 1 \in DOMAIN s /\ i + 1 # 1 /\ t[i] = s[i + 1]
      BY <1>1, <1>2
    <3> QED
      BY <1>1, <3>1 DEF ToSet, IsInjective
  <2>2. ASSUME NEW x \in ToSet(s) \ {Head(s)} PROVE x \in ToSet(t)
    <3>1. PICK i \in 1 .. Len(s) : x = s[i] /\ i # 1
      BY <1>1, <2>2 DEF ToSet
    <3>2. i - 1 \in DOMAIN t /\ t[i - 1] = x
      BY <1>1, <1>2, <3>1
    <3> QED
      BY <3>2 DEF ToSet
  <2> QED
    BY <2>1, <2>2 DEF ToSet
<1>4. IsInjective(t)
  <2> SUFFICES ASSUME NEW i \in DOMAIN t, NEW j \in DOMAIN t, t[i] = t[j]
               PROVE  i = j
    BY DEF IsInjective
  <2>1. i + 1 \in DOMAIN s /\ j + 1 \in DOMAIN s /\ s[i + 1] = s[j + 1]
    BY <1>1, <1>2
  <2>2. i + 1 = j + 1
    BY <2>1 DEF IsInjective
  <2> QED
    BY <1>1, <2>2
<1> QED
  BY <1>3, <1>4 DEF t

\* The same at the front: a chain to which a new head is pushed.
LEMMA PushOnce ==
    ASSUME NEW S, NEW s \in Seq(S), IsInjective(s), NEW c \in S, c \notin ToSet(s)
    PROVE  ToSet(<<c>> \o s) = ToSet(s) \cup {c} /\ IsInjective(<<c>> \o s)
<1> DEFINE a == <<c>> \o s
<1>1. DOMAIN s = 1 .. Len(s) /\ DOMAIN a = 1 .. Len(s) + 1 /\ Len(s) \in Nat
  OBVIOUS
<1>2. a[1] = c /\ \A i \in 1 .. Len(s) : a[i + 1] = s[i]
  OBVIOUS
<1>3. \A i \in 1 .. Len(s) : s[i] # c
  BY <1>1 DEF ToSet
<1> HIDE DEF a
<1>4. \A i \in DOMAIN a : i = 1 \/ (i - 1 \in 1 .. Len(s) /\ a[i] = s[i - 1])
  <2> SUFFICES ASSUME NEW i \in DOMAIN a, i # 1
               PROVE  i - 1 \in 1 .. Len(s) /\ a[i] = s[i - 1]
    OBVIOUS
  <2>1. i - 1 \in 1 .. Len(s) /\ (i - 1) + 1 = i
    BY <1>1
  <2> QED
    BY <1>2, <2>1
<1>5. ToSet(a) = ToSet(s) \cup {c}
  <2>1. ASSUME NEW i \in DOMAIN a PROVE a[i] \in ToSet(s) \cup {c}
    BY <1>1, <1>2, <1>4 DEF ToSet
  <2>2. ASSUME NEW x \in ToSet(s) PROVE x \in ToSet(a)
    <3>1. PICK i \in 1 .. Len(s) : x = s[i]
      BY <1>1, <2>2 DEF ToSet
    <3>2. i + 1 \in DOMAIN a /\ a[i + 1] = x
      BY <1>1, <1>2, <3>1
    <3> QED
      BY <3>2 DEF ToSet
  <2>3. c \in ToSet(a)
    BY <1>1, <1>2 DEF ToSet
  <2> QED
    BY <2>1, <2>2, <2>3 DEF ToSet
<1>6. IsInjective(a)
  <2> SUFFICES ASSUME NEW i \in DOMAIN a, NEW j \in DOMAIN a, a[i] = a[j]
               PROVE  i = j
    BY DEF IsInjective
  <2>1. CASE i = 1 \/ j = 1
    BY <1>1, <1>2, <1>3, <1>4, <2>1
  <2>2. CASE i # 1 /\ j # 1
    <3>1. i - 1 = j - 1
      BY <1>1, <1>4, <2>2 DEF IsInjective
    <3> QED
      BY <1>1, <3>1
  <2> QED
    BY <2>1, <2>2
<1> QED
  BY <1>5, <1>6 DEF a

\* Nothing is in the empty sequence, and it has no repetition.
LEMMA EmptyOnce == ToSet(<<>>) = {} /\ IsInjective(<<>>)
  BY DEF ToSet, IsInjective


\* A set of natural numbers that is not empty has a least one.
LEMMA LeastExists ==
    ASSUME NEW S \in SUBSET Nat, S # {}
    PROVE  \E x \in S : \A y \in S : x <= y
<1>1. PICK x \in S : \A y \in S : ~(<<y, x>> \in OpToRel(<, Nat))
  BY NatLessThanWellFounded, WFMin
<1>2. ASSUME NEW y \in S PROVE x <= y
  <2>1. x \in Nat /\ y \in Nat
    OBVIOUS
  <2>2. y < x => <<y, x>> \in OpToRel(<, Nat)
    BY <2>1 DEF OpToRel
  <2>3. ~(y < x)
    BY <1>1, <2>2, Zenon
  <2> QED
    BY <2>1, <2>3
<1> QED
  BY <1>2
=============================================================================
