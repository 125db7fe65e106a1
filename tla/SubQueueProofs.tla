-------------------------- MODULE SubQueueProofs --------------------------
(***************************************************************************)
(* A sub-queue for any number of dequeuers, items and blocks: what is      *)
(* enqueued comes out once and in order, and every block is given back.    *)
(* The invariant has five parts, one after the other: what the counters    *)
(* count; which number each place of the ring of blocks belongs to; what   *)
(* is in a block, and how much of it is taken; where each dequeuer is, and *)
(* that what it has read leads it to the block of its index; and what the  *)
(* destructor leaves.                                                      *)
(***************************************************************************)
EXTENDS SubQueue, SequenceLemmas, FiniteSetTheorems, TLAPS

-----------------------------------------------------------------------------
\* Division by the size of a block, or of a block index.

\* A number is so many times b, and a rest.
LEMMA DivMod ==
    ASSUME NEW b \in Nat, b > 1, NEW x \in Nat
    PROVE  x \div b \in Nat /\ x % b \in 0..(b - 1) /\ x = b * (x \div b) + (x % b)
<1>1. x \div b \in Nat
  OBVIOUS
<1>2. x % b \in 0..(b - 1)
  OBVIOUS
<1>3. x = b * (x \div b) + (x % b)
  OBVIOUS
<1> QED
  BY <1>1, <1>2, <1>3

\* There is one way to say it.
LEMMA DivIs ==
    ASSUME NEW b \in Nat, b > 1, NEW x \in Nat,
           NEW q \in Nat, NEW r \in 0..(b - 1), x = b * q + r
    PROVE  x \div b = q /\ x % b = r
  OBVIOUS

\* The next number, in the same block or the next.
LEMMA DivNext ==
    ASSUME NEW b \in Nat, b > 1, NEW x \in Nat, NEW y \in Nat, y = x + 1
    PROVE  IF x % b = b - 1 THEN y % b = 0 /\ y \div b = (x \div b) + 1
           ELSE y % b = (x % b) + 1 /\ y \div b = x \div b
<1>1. x \div b \in Nat /\ x % b \in 0..(b - 1) /\ x = b * (x \div b) + (x % b)
  BY DivMod
<1>2. PICK q \in Nat, r \in 0..(b - 1) : q = x \div b /\ r = x % b
  BY <1>1
<1>3. CASE r = b - 1
  <2>1. PICK s \in Nat : s = q + 1
    OBVIOUS
  <2>2. y = b * s + 0
    BY <1>1, <1>2, <1>3, <2>1
  <2>3. y \div b = s /\ y % b = 0
    BY <2>2, DivIs
  <2> QED
    BY <2>3, <2>1, <1>2, <1>3
<1>4. CASE r # b - 1
  <2>1. PICK s \in 0..(b - 1) : s = r + 1
    BY <1>4
  <2>2. y = b * q + s
    BY <1>1, <1>2, <2>1
  <2>3. y \div b = q /\ y % b = s
    BY <2>2, DivIs
  <2> QED
    BY <2>3, <2>1, <1>2, <1>4
<1> QED
  BY <1>3, <1>4

\* A multiple of the size is its quotient times the size.
LEMMA WholeIs ==
    ASSUME NEW b \in Nat, b > 1, NEW x \in Nat, x % b = 0
    PROVE  x = b * (x \div b) /\ x \div b \in Nat
<1>1. x = b * (x \div b) + (x % b) /\ x \div b \in Nat
  BY DivMod
<1> QED
  BY <1>1

\* Multiples of the size are told apart, and ordered, by their quotients.
LEMMA WholeOrder ==
    ASSUME NEW b \in Nat, b > 1, NEW x \in Nat, NEW y \in Nat, x % b = 0, y % b = 0
    PROVE  /\ x \div b = y \div b => x = y
           /\ x <= y => x \div b <= y \div b /\ (y - x) \div b = (y \div b) - (x \div b)
           /\ x \div b <= y \div b => x <= y
<1>1. x \div b = y \div b => x = y
  OBVIOUS
<1>2. x <= y => x \div b <= y \div b /\ (y - x) \div b = (y \div b) - (x \div b)
  OBVIOUS
<1>3. x \div b <= y \div b => x <= y
  OBVIOUS
<1> QED
  BY <1>1, <1>2, <1>3

\* Division keeps the order.
LEMMA DivOrder ==
    ASSUME NEW b \in Nat, b > 1, NEW x \in Nat, NEW y \in Nat, x <= y
    PROVE  x \div b <= y \div b
<1>1. PICK q \in Nat, r \in 0..(b - 1) : q = x \div b /\ x = b * q + r
  BY DivMod
<1>2. PICK u \in Nat, v \in 0..(b - 1) : u = y \div b /\ y = b * u + v
  BY DivMod
<1>3. SUFFICES ASSUME u < q PROVE FALSE
  BY <1>1, <1>2
<1>4. b * u + b <= b * q
  BY <1>3
<1> QED
  BY <1>1, <1>2, <1>4

\* The remainder of a number below twice the divisor.
LEMMA ModSmall ==
    ASSUME NEW c \in Nat, c > 0, NEW x \in Nat
    PROVE  (x < c => x % c = x) /\ (c <= x /\ x < 2 * c => x % c = x - c)
  OBVIOUS

\* The first index of the block an index is in.
LEMMA BaseIs ==
    ASSUME NEW b \in Nat, b > 1, NEW i \in Nat, NEW k \in Nat, k % b = 0
    PROVE  /\ i - (i % b) \in Nat /\ (i - (i % b)) % b = 0
           /\ (i - (i % b)) \div b = i \div b /\ i - (i % b) <= i /\ i < i - (i % b) + b
           /\ k <= i /\ i < k + b => k = i - (i % b)
<1>1. /\ i - (i % b) \in Nat /\ (i - (i % b)) % b = 0
      /\ (i - (i % b)) \div b = i \div b
  OBVIOUS
<1>2. i - (i % b) <= i /\ i < i - (i % b) + b
  OBVIOUS
<1>3. ASSUME k <= i, i < k + b PROVE k = i - (i % b)
  <2>1. k = b * (k \div b) + 0 /\ k \div b \in Nat
    BY WholeIs
  <2>2. PICK q \in Nat, r \in 0..(b - 1) : q = k \div b /\ r = i - k
    BY <2>1, <1>3
  <2>3. i = b * q + r
    BY <2>1, <2>2
  <2>4. i % b = r
    BY <2>3, DivIs
  <2> QED
    BY <2>4, <2>2
<1> QED
  BY <1>1, <1>2, <1>3

\* Turns of the ring make no difference to a place in it.
LEMMA ModTurns ==
    ASSUME NEW c \in Nat, c > 1, NEW x \in Nat, NEW v \in Nat, NEW y \in Nat, y = x + c * v
    PROVE  y % c = x % c
<1>1. PICK q \in Nat, r \in 0..(c - 1) : q = x \div c /\ r = x % c
  BY DivMod
<1>2. x = c * q + r
  BY DivMod, <1>1
<1>3. PICK s \in Nat : s = q + v
  OBVIOUS
<1>4. y = c * s + r
  BY <1>2, <1>3
<1> QED
  BY <1>4, <1>1, DivIs

\* A power of two that a product divides is divided by twice the product.
LEMMA Doubles ==
    ASSUME NEW b \in Nat, b > 1, NEW c \in Nat, c > 1, NEW m \in Nat, m % b = 0,
           (m \div b) % c = 0, NEW x \in Nat, x < m, c <= x \div b,
           \A n \in 1..(m - 1) : m % n = 0 => m % (2 * n) = 0
    PROVE  (m \div b) % (2 * c) = 0
<1>1. PICK w \in Nat : w = m \div b /\ m = b * w
  BY WholeIs
<1>2. PICK v \in Nat : w = c * v
  <2>1. w % c = 0
    BY <1>1
  <2> QED
    BY <2>1, WholeIs
<1>3. PICK n \in Nat : n = b * c
  OBVIOUS
<1>4. n <= x
  <2>1. PICK q \in Nat, r \in 0..(b - 1) : q = x \div b /\ r = x % b /\ x = b * q + r
    BY DivMod
  <2>2. b * c <= b * q
    BY <2>1
  <2> QED
    BY <2>1, <2>2, <1>3
<1>5. n > 1 /\ n \in 1..(m - 1)
  <2>1. n > 1
    BY <1>3
  <2> QED
    BY <2>1, <1>4
<1>6. m = n * v + 0
  <2>1. m = b * (c * v)
    BY <1>1, <1>2
  <2>2. b * (c * v) = (b * c) * v
    OBVIOUS
  <2> QED
    BY <2>1, <2>2, <1>3
<1>7. m % n = 0
  BY <1>6, <1>5, DivIs
<1>8. m % (2 * n) = 0
  BY <1>7, <1>5
<1>9. PICK k \in Nat : m = (2 * n) * k
  <2>1. PICK n2 \in Nat : n2 = 2 * n
    OBVIOUS
  <2>2. n2 > 1 /\ m % n2 = 0
    BY <2>1, <1>8, <1>5
  <2>3. m = n2 * (m \div n2) /\ m \div n2 \in Nat
    BY <2>2, WholeIs
  <2> QED
    BY <2>1, <2>3
<1>10. b * w = b * ((2 * c) * k)
  <2>1. (2 * (b * c)) * k = b * ((2 * c) * k)
    OBVIOUS
  <2> QED
    BY <2>1, <1>1, <1>3, <1>9
<1>11. w = (2 * c) * k + 0
  <2>1. PICK z \in Nat : z = (2 * c) * k
    OBVIOUS
  <2>2. b * w = b * z
    BY <2>1, <1>10
  <2>3. w = z
    BY <2>2
  <2> QED
    BY <2>3, <2>1
<1>12. PICK c2 \in Nat : c2 = 2 * c
  OBVIOUS
<1>13. w % c2 = 0
  BY <1>11, <1>12, DivIs
<1> QED
  BY <1>13, <1>12, <1>1

\* What divides a product's multiple.
LEMMA DivideOne ==
    ASSUME NEW b \in Nat, b > 1, NEW c \in Nat, c > 1, NEW m \in Nat, m % (c * b) = 0
    PROVE  m % b = 0 /\ (m \div b) % c = 0
<1>1. PICK n \in Nat : n = c * b
  OBVIOUS
<1>2. n > 1
  BY <1>1
<1>3. PICK k \in Nat : m = n * k
  BY <1>1, <1>2, WholeIs
<1>4. PICK w \in Nat : w = c * k
  OBVIOUS
<1>5. m = b * w + 0
  BY <1>1, <1>3, <1>4
<1>6. m \div b = w /\ m % b = 0
  BY <1>5, DivIs
<1>7. w = c * k + 0
  BY <1>4
<1>8. w % c = 0
  BY <1>7, DivIs
<1> QED
  BY <1>6, <1>8

-----------------------------------------------------------------------------
\* The inductive invariant of a sub-queue.  First the counters: what they count
\* is the head and the dequeuers that have announced themselves, and one that
\* finds its announcement below the tail has an item of its own, because so few
\* are in front of it.

ProducerPCs == {"idle", "insert", "advance", "block", "construct", "publish"}
EaterPCs == {"idle", "over", "peek", "count", "check", "repay", "head", "header", "slot",
             "find", "take", "empty", "clear", "free"}
Locals == [tail : Nat, over : Nat, mine : Nat, index : Nat, header : Nat, at : Nat,
           entry : Nat, block : Nat]
SubTypeOK ==
    /\ tailIndex \in Nat /\ headIndex \in Nat
    /\ dequeueOptimisticCount \in Nat /\ dequeueOvercommit \in Nat
    /\ headers \in Seq([tail : Nat, index : Seq(Nat)])
    /\ entries \in Seq([key : Nat, value : 0..SubBlocks])
    /\ content \in [1..SubBlocks -> [0..(BLOCK_SIZE - 1) -> Nat]]
    /\ emptied \in [1..SubBlocks -> Nat]
    /\ freeBlocks \subseteq 1..SubBlocks /\ tailBlock \in 0..SubBlocks
    /\ ppc \in ProducerPCs /\ idxEntry \in Nat /\ items \in 0..MaxItems
    /\ epc \in [Eaters -> EaterPCs] /\ eat \in [Eaters -> Locals]
    /\ eaten \in [1..MaxItems -> Nat] /\ gone \in BOOLEAN

Here(S) == {d \in Eaters : epc[d] \in S}
Waits == Here({"over", "peek", "count", "check", "repay"})
Checks == Here({"check"})
Repays == Here({"repay"})
Heads == Here({"head"})
Before(d) == {f \in Checks : eat[f].mine <= eat[d].mine}
Served(d, n) == headIndex + Cardinality(Heads) + Cardinality(Before(d)) <= n
CheckInv(d) ==
    /\ eat[d].over <= eat[d].mine /\ eat[d].mine < dequeueOptimisticCount
    /\ Served(d, items) \/ Served(d, eat[d].mine - eat[d].over + 1)
CountsInv ==
    /\ tailIndex = items /\ (ppc # "idle" => items < MaxItems)
    /\ dequeueOvercommit + Cardinality(Waits) <= MaxRepaid + Cardinality(Eaters)
    /\ dequeueOptimisticCount = headIndex + Cardinality(Heads) + Cardinality(Checks)
                                   + Cardinality(Repays) + dequeueOvercommit
    /\ headIndex + Cardinality(Heads) <= items
    /\ \A d \in Here({"peek", "count", "check"}) : eat[d].over <= dequeueOvercommit
    /\ \A d \in Checks : CheckInv(d)

\* Any set of dequeuers is finite, and no larger than all of them.
LEMMA EatersFinite ==
    ASSUME NEW S \in SUBSET Eaters
    PROVE  IsFiniteSet(S) /\ Cardinality(S) \in Nat /\ Cardinality(S) <= Cardinality(Eaters)
             /\ Cardinality(Eaters) \in Nat
  BY SubQueueAssumption, FS_Subset, FS_CardinalityType

\* What becomes of the number of dequeuers somewhere when one of them moves.
LEMMA HereMoves ==
    ASSUME epc \in [Eaters -> EaterPCs], NEW d \in Eaters, NEW p,
           epc' = [epc EXCEPT ![d] = p], NEW S
    PROVE  /\ Cardinality(Here(S)) \in Nat /\ Cardinality(Here(S)') \in Nat
           /\ (epc[d] \in S <=> p \in S) => Here(S)' = Here(S)
           /\ epc[d] \in S /\ p \notin S => Cardinality(Here(S)') = Cardinality(Here(S)) - 1
           /\ epc[d] \notin S /\ p \in S => Cardinality(Here(S)') = Cardinality(Here(S)) + 1
<1>1. Here(S) \in SUBSET Eaters /\ Here(S)' \in SUBSET Eaters
  BY DEF Here
<1>2. /\ IsFiniteSet(Here(S)) /\ Cardinality(Here(S)) \in Nat
      /\ IsFiniteSet(Here(S)') /\ Cardinality(Here(S)') \in Nat
  BY <1>1, EatersFinite
<1>3. (epc[d] \in S <=> p \in S) => Here(S)' = Here(S)
  BY DEF Here
<1>4. ASSUME epc[d] \in S, p \notin S PROVE Cardinality(Here(S)') = Cardinality(Here(S)) - 1
  <2>1. Here(S)' = Here(S) \ {d} /\ d \in Here(S)
    BY <1>4 DEF Here
  <2> QED
    BY <2>1, <1>2, FS_RemoveElement
<1>5. ASSUME epc[d] \notin S, p \in S PROVE Cardinality(Here(S)') = Cardinality(Here(S)) + 1
  <2>1. Here(S)' = Here(S) \cup {d} /\ d \notin Here(S)
    BY <1>5 DEF Here
  <2> QED
    BY <2>1, <1>2, FS_AddElement
<1> QED
  BY <1>2, <1>3, <1>4, <1>5

\* The ones that wait for their turn are among those that may repay.
LEMMA WaitsMany ==
    ASSUME epc \in [Eaters -> EaterPCs]
    PROVE  Cardinality(Checks) + Cardinality(Repays) <= Cardinality(Waits)
<1>1. /\ Checks \in SUBSET Eaters /\ Repays \in SUBSET Eaters /\ Waits \in SUBSET Eaters
      /\ Checks \cap Repays = {} /\ (Checks \cup Repays) \subseteq Waits
  BY DEF Checks, Repays, Waits, Here
<1>2. /\ IsFiniteSet(Checks) /\ Cardinality(Checks) \in Nat
      /\ IsFiniteSet(Repays) /\ Cardinality(Repays) \in Nat
      /\ IsFiniteSet(Waits)
  BY <1>1, EatersFinite
<1>3. Cardinality(Checks \cup Repays) = Cardinality(Checks) + Cardinality(Repays)
  BY <1>1, <1>2, FS_Union, FS_EmptySet
<1>4. Cardinality(Checks \cup Repays) <= Cardinality(Waits)
  BY <1>1, <1>2, FS_Subset
<1> QED
  BY <1>3, <1>4

\* The range is large enough to have a half.
LEMMA ModulusLarge == Modulus \in Nat \ {0} /\ (Modulus \div 2) \in Nat /\ (Modulus \div 2) + 1 < Modulus
<1>1. PICK n \in Nat : n = IndexSize * BLOCK_SIZE
  BY SubQueueAssumption
<1>2. n >= 4
  BY <1>1, SubQueueAssumption
<1>3. Modulus % n = 0 /\ Modulus \in Nat \ {0}
  BY <1>1, SubQueueAssumption
<1>4. Modulus >= n
  BY <1>2, <1>3, ModSmall
<1> QED
  BY <1>2, <1>3, <1>4

\* No counter comes near half of the range.
LEMMA CountsSmall ==
    ASSUME SubTypeOK, CountsInv
    PROVE  /\ dequeueOptimisticCount <= Modulus \div 2 /\ dequeueOvercommit <= Modulus \div 2
           /\ items <= Modulus \div 2 /\ headIndex <= items
           /\ headIndex + dequeueOvercommit <= dequeueOptimisticCount
<1> DEFINE h == Cardinality(Heads)
           c == Cardinality(Checks)
           r == Cardinality(Repays)
           w == Cardinality(Waits)
           e == Cardinality(Eaters)
<1>1. h \in Nat /\ c \in Nat /\ r \in Nat /\ w \in Nat /\ e \in Nat
  <2>1. /\ Heads \in SUBSET Eaters /\ Checks \in SUBSET Eaters
        /\ Repays \in SUBSET Eaters /\ Waits \in SUBSET Eaters
    BY DEF Heads, Checks, Repays, Waits, Here
  <2> QED
    BY <2>1, EatersFinite
<1>2. c + r <= w
  BY WaitsMany DEF SubTypeOK
<1>3. /\ dequeueOvercommit + w <= MaxRepaid + e
      /\ dequeueOptimisticCount = headIndex + h + c + r + dequeueOvercommit
      /\ headIndex + h <= items
  BY DEF CountsInv
<1>4. /\ items <= MaxItems /\ items \in Nat /\ headIndex \in Nat /\ dequeueOvercommit \in Nat
      /\ dequeueOptimisticCount \in Nat
      /\ MaxItems \in Nat /\ MaxRepaid \in Nat /\ Modulus \in Nat \ {0}
      /\ MaxItems + MaxRepaid + e <= Modulus \div 2
  BY SubQueueAssumption DEF SubTypeOK
<1>5. Modulus \div 2 \in Nat
  BY ModulusLarge
<1> HIDE DEF h, c, r, w, e
<1> QED
  BY <1>1, <1>2, <1>3, <1>4, <1>5

\* Below half of the range the circular order is the order.
LEMMA CircularSmall ==
    ASSUME NEW a \in Nat, NEW b \in Nat, a <= Modulus \div 2, b <= Modulus \div 2
    PROVE  /\ b <= a => Minus(a, b) = a - b
           /\ circular_less_than(a, b) => a < b
           /\ Plus(a, 1) = a + 1
<1>1. /\ Modulus \in Nat \ {0} /\ Modulus \div 2 \in Nat
      /\ 2 * (Modulus \div 2) <= Modulus /\ (Modulus \div 2) + 1 < Modulus
  BY ModulusLarge
<1>3. PICK x \in Nat : x = a + Modulus - b
  BY <1>1
<1>4. CASE b <= a
  <2>1. x % Modulus = a - b
    BY <1>1, <1>3, <1>4, ModSmall
  <2> QED
    BY <2>1, <1>1, <1>3, <1>4, ModSmall DEF Minus, circular_less_than, Plus
<1>5. CASE a < b
  <2>1. x % Modulus = x
    BY <1>1, <1>3, <1>5, ModSmall
  <2> QED
    BY <2>1, <1>1, <1>3, <1>5, ModSmall DEF Minus, circular_less_than, Plus
<1> QED
  BY <1>4, <1>5

CountPCs == {"over", "peek", "count", "check", "repay", "head"}
Moved(d, p, l) == epc' = [epc EXCEPT ![d] = p] /\ eat' = [eat EXCEPT ![d] = l]

\* Nothing is disturbed by a step of somebody else, nor by one more item.
LEMMA CountsFrame ==
    ASSUME SubTypeOK, CountsInv, tailIndex' = items', items' \in Nat, items <= items',
           ppc' # "idle" => items' < MaxItems, UNCHANGED countVars,
           \A d \in Eaters : epc[d] \in CountPCs \/ epc'[d] \in CountPCs
                                => epc'[d] = epc[d] /\ eat'[d] = eat[d]
    PROVE  CountsInv'
<1>1. Waits' = Waits /\ Checks' = Checks /\ Repays' = Repays /\ Heads' = Heads
  BY DEF Waits, Checks, Repays, Heads, Here, CountPCs
<1>2. \A d \in Checks : eat'[d] = eat[d]
  BY DEF Checks, Here, CountPCs
<1>3. \A d \in Checks : Before(d)' = Before(d)
  BY <1>1, <1>2 DEF Before
<1>4. ASSUME NEW d \in Here({"peek", "count", "check"})' PROVE eat'[d].over <= dequeueOvercommit'
  <2>1. d \in Here({"peek", "count", "check"}) /\ eat'[d] = eat[d]
    BY <1>4 DEF Here, CountPCs
  <2> QED
    BY <2>1 DEF CountsInv, countVars
<1>5. UNCHANGED <<headIndex, dequeueOptimisticCount, dequeueOvercommit>>
  BY DEF countVars
<1>6. ASSUME NEW d \in Checks PROVE CheckInv(d)'
  <2>1. CheckInv(d) /\ Before(d)' = Before(d) /\ eat'[d] = eat[d]
    BY <1>2, <1>3 DEF CountsInv
  <2>2. /\ headIndex \in Nat /\ Cardinality(Heads) \in Nat /\ Cardinality(Before(d)) \in Nat
        /\ items \in Nat
    <3>1. Heads \in SUBSET Eaters /\ Before(d) \in SUBSET Eaters
      BY DEF Heads, Before, Checks, Here
    <3> QED
      BY <3>1, EatersFinite, SubQueueAssumption DEF SubTypeOK
  <2>3. Served(d, items) => Served(d, items')
    BY <2>2 DEF Served
  <2> QED
    BY <2>1, <2>3, <1>1, <1>5 DEF CheckInv, Served
<1>7. headIndex + Cardinality(Heads) <= items'
  <2>1. headIndex \in Nat /\ Cardinality(Heads) \in Nat /\ items \in Nat
    <3>1. Heads \in SUBSET Eaters
      BY DEF Heads, Here
    <3> QED
      BY <3>1, EatersFinite, SubQueueAssumption DEF SubTypeOK
  <2> QED
    BY <2>1 DEF CountsInv
<1> QED
  BY <1>1, <1>4, <1>5, <1>6, <1>7 DEF CountsInv

\* The locals of a dequeuer are numbers.
LEMMA LocalsType ==
    ASSUME SubTypeOK, NEW d \in Eaters
    PROVE  /\ epc[d] \in EaterPCs /\ eat[d] \in Locals
           /\ eat[d].over \in Nat /\ eat[d].mine \in Nat /\ eat[d].index \in Nat
           /\ eat[d].header \in Nat /\ eat[d].at \in Nat /\ eat[d].entry \in Nat
           /\ eat[d].block \in Nat
  BY DEF SubTypeOK, Locals

\* The cardinalities, as numbers.
LEMMA CountsType ==
    ASSUME SubTypeOK
    PROVE  /\ Cardinality(Waits) \in Nat /\ Cardinality(Checks) \in Nat
           /\ Cardinality(Repays) \in Nat /\ Cardinality(Heads) \in Nat
           /\ \A d \in Eaters : Before(d) \in SUBSET Eaters /\ Cardinality(Before(d)) \in Nat
<1>1. /\ Heads \in SUBSET Eaters /\ Checks \in SUBSET Eaters
      /\ Repays \in SUBSET Eaters /\ Waits \in SUBSET Eaters
      /\ \A d \in Eaters : Before(d) \in SUBSET Eaters
  BY DEF Heads, Checks, Repays, Waits, Here, Before
<1> QED
  BY <1>1, EatersFinite

\* A dequeuer moves on before it announces itself, or turns back.
LEMMA CountsEarly ==
    ASSUME SubTypeOK, CountsInv, NEW d \in Eaters, NEW p \in {"over", "peek", "count", "idle"},
           NEW l \in Locals, Moved(d, p, l),
           UNCHANGED <<tailIndex, headIndex, dequeueOptimisticCount, dequeueOvercommit, ppc, items>>,
           epc[d] \in {"idle", "over", "peek"},
           p \in {"peek", "count"} => l.over <= dequeueOvercommit,
           epc[d] = "idle" => dequeueOvercommit < MaxRepaid
    PROVE  CountsInv'
<1>1. epc \in [Eaters -> EaterPCs] /\ epc' = [epc EXCEPT ![d] = p] /\ eat' = [eat EXCEPT ![d] = l]
        /\ eat \in [Eaters -> Locals]
  BY DEF SubTypeOK, Moved
<1>2. Checks' = Checks /\ Repays' = Repays /\ Heads' = Heads
  BY <1>1 DEF Checks, Repays, Heads, Here
<1>3. \A e \in Checks : e # d /\ eat'[e] = eat[e]
  BY <1>1 DEF Checks, Here
<1>4. \A e \in Checks : Before(e)' = Before(e)
  BY <1>2, <1>3 DEF Before
<1>5. \A e \in Checks : CheckInv(e)'
  BY <1>2, <1>3, <1>4 DEF CheckInv, Served, CountsInv
<1>6. ASSUME NEW e \in Here({"peek", "count", "check"})' PROVE eat'[e].over <= dequeueOvercommit'
  <2>1. CASE e = d
    BY <2>1, <1>1, <1>6 DEF Here
  <2>2. CASE e # d
    BY <2>2, <1>1, <1>6 DEF Here, CountsInv
  <2> QED
    BY <2>1, <2>2
<1>7. dequeueOvercommit + Cardinality(Waits') <= MaxRepaid + Cardinality(Eaters)
  <2>1. Waits' \in SUBSET Eaters
    BY DEF Waits, Here
  <2>2. Cardinality(Waits') \in Nat /\ Cardinality(Waits') <= Cardinality(Eaters)
         /\ Cardinality(Eaters) \in Nat
    BY <2>1, EatersFinite
  <2>3. dequeueOvercommit \in Nat /\ MaxRepaid \in Nat /\ Cardinality(Waits) \in Nat
    BY SubQueueAssumption, CountsType DEF SubTypeOK
  <2>4. CASE epc[d] = "idle"
    BY <2>2, <2>3, <2>4
  <2>5. CASE epc[d] # "idle"
    <3>1. Waits' = Waits \/ Cardinality(Waits') = Cardinality(Waits) - 1
      BY <2>5, <1>1, HereMoves DEF Waits
    <3> QED
      BY <3>1, <2>2, <2>3 DEF CountsInv
  <2> QED
    BY <2>4, <2>5
<1> QED
  BY <1>2, <1>5, <1>6, <1>7 DEF CountsInv

\* A dequeuer announces itself behind all the others.
LEMMA CountsCount ==
    ASSUME SubTypeOK, CountsInv, NEW d \in Eaters, CountMe(d)
    PROVE  CountsInv'
<1> DEFINE l == [eat[d] EXCEPT !.mine = dequeueOptimisticCount]
<1>1. /\ epc \in [Eaters -> EaterPCs] /\ epc' = [epc EXCEPT ![d] = "check"]
      /\ eat' = [eat EXCEPT ![d] = l] /\ eat \in [Eaters -> Locals] /\ eat[d] \in Locals
      /\ epc[d] = "count"
  BY DEF SubTypeOK, CountMe, Eat
<1>2. l.mine = dequeueOptimisticCount /\ l.over = eat[d].over
  BY <1>1 DEF Locals
<1> HIDE DEF l
<1>3. Repays' = Repays /\ Heads' = Heads /\ Waits' = Waits
  BY <1>1 DEF Repays, Heads, Waits, Here
<1>4. Checks' = Checks \cup {d} /\ d \notin Checks
  BY <1>1 DEF Checks, Here
<1>5. /\ Cardinality(Checks') = Cardinality(Checks) + 1
      /\ Cardinality(Checks) \in Nat /\ Cardinality(Heads) \in Nat /\ Cardinality(Repays) \in Nat
  BY <1>1, HereMoves, CountsType DEF Checks
<1>6. dequeueOptimisticCount' = dequeueOptimisticCount + 1
  BY CountsSmall, CircularSmall DEF CountMe, SubTypeOK
<1>7. UNCHANGED <<tailIndex, headIndex, dequeueOvercommit, ppc, items>>
  BY DEF CountMe, ringVars, producerVars
<1>8. ASSUME NEW e \in Checks PROVE CheckInv(e)'
  <2>1. CheckInv(e) /\ e # d /\ eat'[e] = eat[e] /\ e \in Eaters
    BY <1>1, <1>4 DEF CountsInv, Checks, Here
  <2>2. Before(e)' = Before(e)
    <3>1. ~(eat'[d].mine <= eat'[e].mine)
      <4>1. eat[e].mine < dequeueOptimisticCount /\ eat[e].mine \in Nat /\ dequeueOptimisticCount \in Nat
        BY <2>1, LocalsType DEF CheckInv, SubTypeOK
      <4>2. eat'[d].mine = dequeueOptimisticCount
        BY <1>1, <1>2
      <4> QED
        BY <4>1, <4>2, <2>1
    <3>2. \A f \in Checks : eat'[f] = eat[f]
      BY <1>1, <1>4
    <3> QED
      BY <3>1, <3>2, <1>4, <2>1 DEF Before
  <2>3. eat[e].mine < dequeueOptimisticCount + 1
    <3>1. eat[e].mine < dequeueOptimisticCount /\ eat[e].mine \in Nat /\ dequeueOptimisticCount \in Nat
      BY <2>1, LocalsType DEF CheckInv, SubTypeOK
    <3> QED
      BY <3>1
  <2> QED
    BY <2>1, <2>2, <2>3, <1>3, <1>6, <1>7 DEF CheckInv, Served
<1>9. CheckInv(d)'
  <2>1. eat'[d].mine = dequeueOptimisticCount /\ eat'[d].over = eat[d].over /\ eat[d].over \in Nat
    BY <1>1, <1>2 DEF Locals
  <2>2. \A f \in Checks : eat'[f].mine <= eat'[d].mine
    <3>1. \A f \in Checks : f \in Eaters /\ eat[f].mine \in Nat /\ eat[f].mine < dequeueOptimisticCount
      BY DEF CountsInv, CheckInv, Checks, Here, SubTypeOK, Locals
    <3> QED
      BY <3>1, <2>1, <1>1, <1>4 DEF SubTypeOK
  <2>3. eat'[d].mine <= eat'[d].mine
    BY <2>1 DEF SubTypeOK
  <2>4. Before(d)' = Checks'
    BY <2>2, <2>3, <1>4 DEF Before
  <2>5. eat[d].over <= dequeueOvercommit
    BY <1>1 DEF CountsInv, Here
  <2>6. /\ dequeueOptimisticCount = headIndex + Cardinality(Heads) + Cardinality(Checks)
                                   + Cardinality(Repays) + dequeueOvercommit
        /\ dequeueOptimisticCount \in Nat /\ headIndex \in Nat /\ dequeueOvercommit \in Nat
    BY DEF CountsInv, SubTypeOK
  <2>7. /\ eat[d].over <= dequeueOptimisticCount
        /\ headIndex + Cardinality(Heads) + (Cardinality(Checks) + 1)
              <= dequeueOptimisticCount - eat[d].over + 1
    BY <2>1, <2>5, <2>6, <1>5
  <2>8. dequeueOptimisticCount < dequeueOptimisticCount'
    BY <2>6, <1>6
  <2> QED
    BY <2>1, <2>4, <2>7, <2>8, <1>3, <1>5, <1>7 DEF CheckInv, Served
<1>10. ASSUME NEW e \in Here({"peek", "count", "check"})' PROVE eat'[e].over <= dequeueOvercommit'
  <2>1. e \in Here({"peek", "count", "check"}) /\ eat'[e].over = eat[e].over
    BY <1>1, <1>2, <1>10 DEF Here
  <2> QED
    BY <2>1, <1>7 DEF CountsInv
<1>11. dequeueOptimisticCount' = headIndex' + Cardinality(Heads') + Cardinality(Checks')
                                   + Cardinality(Repays') + dequeueOvercommit'
  <2>1. /\ dequeueOptimisticCount = headIndex + Cardinality(Heads) + Cardinality(Checks)
                                   + Cardinality(Repays) + dequeueOvercommit
        /\ dequeueOvercommit \in Nat /\ headIndex \in Nat
    BY DEF CountsInv, SubTypeOK
  <2> QED
    BY <2>1, <1>3, <1>5, <1>6, <1>7
<1> QED
  BY <1>1, <1>3, <1>4, <1>6, <1>7, <1>8, <1>9, <1>10, <1>11 DEF CountsInv

\* Who stands in front of a dequeuer when one of them leaves.
LEMMA BeforeLeaves ==
    ASSUME SubTypeOK, NEW d \in Checks, NEW p, NEW l, p # "check", Moved(d, p, l), NEW e \in Checks, e # d
    PROVE  /\ eat'[e] = eat[e] /\ Cardinality(Before(e)') \in Nat
           /\ d \in Before(e) => Cardinality(Before(e)') = Cardinality(Before(e)) - 1
           /\ d \notin Before(e) => /\ Before(e)' = Before(e)
                                    /\ Cardinality(Before(e)) + 1 <= Cardinality(Before(d))
<1>1. /\ epc \in [Eaters -> EaterPCs] /\ epc' = [epc EXCEPT ![d] = p]
      /\ eat' = [eat EXCEPT ![d] = l] /\ eat \in [Eaters -> Locals]
      /\ d \in Eaters /\ e \in Eaters
  BY DEF SubTypeOK, Moved, Checks, Here
<1>2. Checks' = Checks \ {d} /\ \A f \in Checks \ {d} : eat'[f] = eat[f]
  BY <1>1 DEF Checks, Here
<1>3. Before(e)' = Before(e) \ {d}
  BY <1>2 DEF Before
<1>4. Before(e) \in SUBSET Eaters /\ Before(d) \in SUBSET Eaters
  BY DEF Before, Checks, Here
<1>5. /\ IsFiniteSet(Before(e)) /\ Cardinality(Before(e)) \in Nat
      /\ IsFiniteSet(Before(d)) /\ Cardinality(Before(d)) \in Nat
  BY <1>4, EatersFinite
<1>6. d \in Before(e) => Cardinality(Before(e)') = Cardinality(Before(e)) - 1
  BY <1>3, <1>5, FS_RemoveElement
<1>7. Cardinality(Before(e)') \in Nat
  BY <1>3, <1>5, FS_RemoveElement, FS_CardinalityType
<1>8. ASSUME d \notin Before(e)
      PROVE  Before(e)' = Before(e) /\ Cardinality(Before(e)) + 1 <= Cardinality(Before(d))
  <2>1. ~(eat[d].mine <= eat[e].mine) /\ eat[d].mine \in Nat /\ eat[e].mine \in Nat
    BY <1>1, <1>8 DEF Before, Locals
  <2>2. \A f \in Eaters : eat[f].mine \in Nat
    BY <1>1 DEF Locals
  <2>3. Before(e) \cup {d} \subseteq Before(d)
    BY <2>1, <2>2, <1>4 DEF Before
  <2>4. Cardinality(Before(e) \cup {d}) = Cardinality(Before(e)) + 1
    BY <1>5, <1>8, FS_AddElement
  <2>5. Cardinality(Before(e) \cup {d}) <= Cardinality(Before(d))
    BY <2>3, <1>5, FS_Subset
  <2> QED
    BY <1>3, <1>8, <2>4, <2>5
<1> QED
  BY <1>1, <1>2, <1>6, <1>7, <1>8

\* The answer to the question whether there is an item for everybody announced.
LEMMA CountsCheck ==
    ASSUME SubTypeOK, CountsInv, NEW d \in Eaters, CheckTail(d)
    PROVE  CountsInv'
<1>1. UNCHANGED <<tailIndex, headIndex, dequeueOptimisticCount, dequeueOvercommit, ppc, items>>
  BY DEF CheckTail, ringVars, producerVars, countVars
<1>2. PICK p \in {"head", "repay"} :
         /\ Moved(d, p, Rest)
         /\ p = "head" => circular_less_than(Minus(eat[d].mine, eat[d].over), tailIndex)
  BY DEF CheckTail, Eat, Moved
<1>3. /\ epc \in [Eaters -> EaterPCs] /\ epc' = [epc EXCEPT ![d] = p]
      /\ eat' = [eat EXCEPT ![d] = Rest] /\ eat \in [Eaters -> Locals] /\ eat[d] \in Locals
      /\ epc[d] = "check" /\ d \in Checks
  BY <1>2 DEF SubTypeOK, Moved, CheckTail, Checks, Here
<1> DEFINE h == Cardinality(Heads)
           c == Cardinality(Checks)
           r == Cardinality(Repays)
           w == Cardinality(Waits)
           bd == Cardinality(Before(d))
<1>4. h \in Nat /\ c \in Nat /\ r \in Nat /\ w \in Nat /\ bd \in Nat
  BY CountsType
<1>5. Cardinality(Checks') = c - 1 /\ Checks' = Checks \ {d}
  <2>1. Checks' = Checks \ {d}
    BY <1>3 DEF Checks, Here
  <2> QED
    BY <2>1, <1>3, HereMoves DEF Checks
<1>6. p = "head" => Cardinality(Heads') = h + 1 /\ Cardinality(Repays') = r /\ Cardinality(Waits') = w - 1
  BY <1>3, HereMoves DEF Heads, Repays, Waits
<1>7. p = "repay" => Cardinality(Heads') = h /\ Cardinality(Repays') = r + 1 /\ Cardinality(Waits') = w
  BY <1>3, HereMoves DEF Heads, Repays, Waits
<1>8. /\ eat[d].mine \in Nat /\ eat[d].over \in Nat /\ eat[d].over <= eat[d].mine
      /\ eat[d].mine < dequeueOptimisticCount
      /\ headIndex + h + bd <= items \/ headIndex + h + bd <= eat[d].mine - eat[d].over + 1
      /\ headIndex \in Nat /\ items \in Nat /\ dequeueOptimisticCount \in Nat
  BY <1>3, SubQueueAssumption DEF CountsInv, CheckInv, Served, Locals, SubTypeOK
<1>9. p = "head" => headIndex + h + bd <= items
  <2>1. CASE p = "head"
    <3>1. PICK v \in Nat : v = eat[d].mine - eat[d].over
      BY <1>8
    <3>2. /\ dequeueOptimisticCount <= Modulus \div 2 /\ Modulus \div 2 \in Nat
          /\ items <= Modulus \div 2
      BY CountsSmall, ModulusLarge
    <3>3. v <= Modulus \div 2 /\ eat[d].mine <= Modulus \div 2 /\ eat[d].over <= Modulus \div 2
      BY <3>1, <3>2, <1>8
    <3>4. Minus(eat[d].mine, eat[d].over) = v
      BY <3>1, <3>3, <1>8, CircularSmall
    <3>5. tailIndex = items
      BY DEF CountsInv
    <3>6. v < items
      BY <3>2, <3>3, <3>4, <3>5, <2>1, <1>2, <1>8, CircularSmall
    <3> QED
      BY <3>1, <3>6, <1>8, <1>4
  <2> QED
    BY <2>1
<1>10. bd >= 1
  <2>1. d \in Before(d) /\ Before(d) \in SUBSET Eaters
    BY <1>3, <1>8, CountsType DEF Before
  <2>2. IsFiniteSet(Before(d)) /\ Before(d) # {}
    BY <2>1, EatersFinite
  <2> QED
    BY <2>2, <1>4, FS_EmptySet
<1>11. /\ dequeueOvercommit + w <= MaxRepaid + Cardinality(Eaters)
       /\ dequeueOptimisticCount = headIndex + h + c + r + dequeueOvercommit
       /\ headIndex + h <= items /\ dequeueOvercommit \in Nat
       /\ MaxRepaid \in Nat /\ Cardinality(Eaters) \in Nat
  BY EatersFinite, SubQueueAssumption DEF CountsInv, SubTypeOK
<1>12. ASSUME NEW e \in Checks' PROVE CheckInv(e)'
  <2>1. e \in Checks /\ e # d /\ CheckInv(e) /\ e \in Eaters
    BY <1>12, <1>5 DEF CountsInv, Checks, Here
  <2> DEFINE be == Cardinality(Before(e))
             b2 == Cardinality(Before(e)')
             h2 == Cardinality(Heads')
             v == eat[e].mine - eat[e].over + 1
  <2>2. be \in Nat
    BY <2>1, CountsType
  <2>3. eat'[e] = eat[e] /\ b2 \in Nat /\ (b2 = be - 1 \/ (b2 = be /\ be + 1 <= bd))
    BY <2>1, <1>2, <1>3, BeforeLeaves
  <2>4. h2 = h \/ (p = "head" /\ h2 = h + 1)
    BY <1>6, <1>7
  <2>5. headIndex + h + be <= items \/ headIndex + h + be <= v
    BY <2>1 DEF CheckInv, Served
  <2>6. v \in Int
    <3>1. eat[e].mine \in Nat /\ eat[e].over \in Nat
      BY <2>1, LocalsType
    <3> QED
      BY <3>1
  <2> HIDE DEF be, b2, h2, v, h, bd
  <2>7. headIndex + h2 + b2 <= items \/ headIndex + h2 + b2 <= v
    BY <2>2, <2>3, <2>4, <2>5, <2>6, <1>4, <1>8, <1>9
  <2> QED
    BY <2>1, <2>3, <2>7, <1>1 DEF CheckInv, Served, h2, b2, v
<1>13. ASSUME NEW e \in Here({"peek", "count", "check"})' PROVE eat'[e].over <= dequeueOvercommit'
  <2>1. e \in Here({"peek", "count", "check"}) /\ eat'[e] = eat[e]
    BY <1>3, <1>13 DEF Here
  <2> QED
    BY <2>1, <1>1 DEF CountsInv
<1> HIDE DEF h, c, r, w, bd
<1>14. headIndex + Cardinality(Heads') <= items
  BY <1>6, <1>7, <1>4, <1>8, <1>9, <1>10, <1>11
<1>15. dequeueOvercommit + Cardinality(Waits') <= MaxRepaid + Cardinality(Eaters)
  BY <1>6, <1>7, <1>4, <1>11
<1>16. dequeueOptimisticCount = headIndex + Cardinality(Heads') + Cardinality(Checks')
                                   + Cardinality(Repays') + dequeueOvercommit
  BY <1>5, <1>6, <1>7, <1>4, <1>8, <1>11
<1> QED
  BY <1>1, <1>12, <1>13, <1>14, <1>15, <1>16 DEF CountsInv

\* A dequeuer that found nothing repays.
LEMMA CountsRepay ==
    ASSUME SubTypeOK, CountsInv, NEW d \in Eaters, Repay(d)
    PROVE  CountsInv'
<1>1. /\ epc \in [Eaters -> EaterPCs] /\ epc' = [epc EXCEPT ![d] = "idle"]
      /\ eat' = [eat EXCEPT ![d] = Rest] /\ eat \in [Eaters -> Locals] /\ epc[d] = "repay"
  BY DEF SubTypeOK, Repay, Eat
<1>2. UNCHANGED <<tailIndex, headIndex, dequeueOptimisticCount, ppc, items>>
  BY DEF Repay, ringVars, producerVars
<1>3. dequeueOvercommit' = dequeueOvercommit + 1
  BY CountsSmall, CircularSmall DEF Repay, SubTypeOK
<1>4. Checks' = Checks /\ Heads' = Heads
  BY <1>1 DEF Checks, Heads, Here
<1>5. /\ Cardinality(Repays') = Cardinality(Repays) - 1 /\ Cardinality(Waits') = Cardinality(Waits) - 1
      /\ Cardinality(Repays) \in Nat /\ Cardinality(Waits) \in Nat
      /\ Cardinality(Checks) \in Nat /\ Cardinality(Heads) \in Nat
  <2>0. PICK p : p = "idle" /\ epc' = [epc EXCEPT ![d] = p]
    BY <1>1
  <2>1. Cardinality(Repays') = Cardinality(Repays) - 1
    BY <2>0, <1>1, HereMoves DEF Repays
  <2>2. Cardinality(Waits') = Cardinality(Waits) - 1
    BY <2>0, <1>1, HereMoves DEF Waits
  <2> QED
    BY <2>1, <2>2, CountsType
<1>6. \A e \in Checks : e # d /\ eat'[e] = eat[e]
  BY <1>1 DEF Checks, Here
<1>7. \A e \in Checks : Before(e)' = Before(e)
  BY <1>4, <1>6 DEF Before
<1>8. \A e \in Checks : CheckInv(e)'
  BY <1>2, <1>4, <1>6, <1>7 DEF CheckInv, Served, CountsInv
<1>9. ASSUME NEW e \in Here({"peek", "count", "check"})' PROVE eat'[e].over <= dequeueOvercommit'
  <2>1. e \in Here({"peek", "count", "check"}) /\ eat'[e] = eat[e] /\ eat[e].over \in Nat
    BY <1>1, <1>9 DEF Here, Locals
  <2> QED
    BY <2>1, <1>3 DEF CountsInv, SubTypeOK
<1>10. /\ dequeueOvercommit' + Cardinality(Waits') <= MaxRepaid + Cardinality(Eaters)
       /\ dequeueOptimisticCount = headIndex + Cardinality(Heads') + Cardinality(Checks')
                                   + Cardinality(Repays') + dequeueOvercommit'
  <2>1. /\ dequeueOvercommit + Cardinality(Waits) <= MaxRepaid + Cardinality(Eaters)
        /\ dequeueOptimisticCount = headIndex + Cardinality(Heads) + Cardinality(Checks)
                                   + Cardinality(Repays) + dequeueOvercommit
        /\ dequeueOvercommit \in Nat /\ headIndex \in Nat /\ MaxRepaid \in Nat
        /\ Cardinality(Eaters) \in Nat
    BY SubQueueAssumption, EatersFinite DEF CountsInv, SubTypeOK
  <2> QED
    BY <1>3, <1>4, <1>5, <2>1
<1> QED
  BY <1>2, <1>4, <1>8, <1>9, <1>10 DEF CountsInv

\* A dequeuer takes the next index: the head moves over it.
LEMMA CountsTake ==
    ASSUME SubTypeOK, CountsInv, NEW d \in Eaters, TakeIndex(d)
    PROVE  CountsInv' /\ headIndex' = headIndex + 1 /\ headIndex < items
<1>1. /\ epc \in [Eaters -> EaterPCs] /\ epc' = [epc EXCEPT ![d] = "header"]
      /\ eat' = [eat EXCEPT ![d] = [Rest EXCEPT !.index = headIndex]]
      /\ eat \in [Eaters -> Locals] /\ epc[d] = "head"
  BY DEF SubTypeOK, TakeIndex, Eat
<1>2. UNCHANGED <<tailIndex, dequeueOvercommit, dequeueOptimisticCount, ppc, items>>
  BY DEF TakeIndex, ringVars, producerVars
<1>3. headIndex' = headIndex + 1
  <2>1. headIndex \in Nat /\ items \in Nat /\ Modulus \div 2 \in Nat
    BY SubQueueAssumption, ModulusLarge DEF SubTypeOK
  <2>2. headIndex <= Modulus \div 2
    BY <2>1, CountsSmall
  <2> QED
    BY <2>1, <2>2, CircularSmall DEF TakeIndex
<1>4. Checks' = Checks /\ Repays' = Repays /\ Waits' = Waits
  BY <1>1 DEF Checks, Repays, Waits, Here
<1>5. /\ Cardinality(Heads') = Cardinality(Heads) - 1 /\ Cardinality(Heads') \in Nat
      /\ Cardinality(Repays) \in Nat
      /\ Cardinality(Checks) \in Nat /\ Cardinality(Heads) \in Nat
  <2>0. PICK p : p = "header" /\ epc' = [epc EXCEPT ![d] = p]
    BY <1>1
  <2>1. Cardinality(Heads') = Cardinality(Heads) - 1 /\ Cardinality(Heads') \in Nat
    BY <2>0, <1>1, HereMoves DEF Heads
  <2> QED
    BY <2>1, CountsType
<1>6. \A e \in Checks : e # d /\ eat'[e] = eat[e] /\ e \in Eaters
  BY <1>1 DEF Checks, Here
<1>7. \A e \in Checks : Before(e)' = Before(e)
  BY <1>4, <1>6 DEF Before
<1>8. headIndex' + Cardinality(Heads') = headIndex + Cardinality(Heads)
  BY <1>3, <1>5 DEF SubTypeOK
<1>9. \A e \in Checks : CheckInv(e)'
  BY <1>2, <1>4, <1>6, <1>7, <1>8 DEF CheckInv, Served, CountsInv
<1>10. ASSUME NEW e \in Here({"peek", "count", "check"})' PROVE eat'[e].over <= dequeueOvercommit'
  <2>1. e \in Here({"peek", "count", "check"}) /\ eat'[e] = eat[e]
    BY <1>1, <1>10 DEF Here
  <2> QED
    BY <2>1, <1>2 DEF CountsInv, SubTypeOK
<1>11. headIndex < items
  BY <1>5 DEF CountsInv, SubTypeOK
<1>12. dequeueOptimisticCount = headIndex' + Cardinality(Heads') + Cardinality(Checks')
                                   + Cardinality(Repays') + dequeueOvercommit
  BY <1>4, <1>8 DEF CountsInv
<1> QED
  BY <1>2, <1>3, <1>4, <1>8, <1>9, <1>10, <1>11, <1>12 DEF CountsInv

-----------------------------------------------------------------------------
\* The ring.  Blocks have numbers, in the order of their first index; the tail is
\* at the entry of the newest number there is, and the entry n places before it is
\* that of the number n before, if that block is still in use.  An entry that is
\* not in use has a key that is older, or none; but the next one may have kept the
\* key of a block that there was no memory for.

Numbers == (items \div BLOCK_SIZE) +
           (IF ppc \in {"block", "construct", "publish"} \/ items % BLOCK_SIZE # 0 THEN 1 ELSE 0)
Got == IF ppc = "block" THEN Numbers - 1 ELSE Numbers
Ids == 1..Len(entries)
InUse == {x \in Ids : entries[x].value # NoBlock}
Whole(x) == entries[x].key % BLOCK_SIZE = 0
Num(x) == entries[x].key \div BLOCK_SIZE
PlaceBack(c, p, n) == (p + c - n) % c
BackFrom(h, p, n) == h.index[PlaceBack(Capacity(h), p, n) + 1]
Cap == Capacity(Header)
Behind(n) == BackFrom(Header, Header.tail, n)
Reach == 0..(Cap - 1)
HeaderInv(h) ==
    /\ Capacity(h) > 1 /\ h.tail \in 0..(Capacity(h) - 1)
    /\ \A n \in 1..Capacity(h) : h.index[n] \in Ids
    /\ (Modulus \div BLOCK_SIZE) % Capacity(h) = 0
OrderInv(n) ==
    /\ entries[Behind(n)].key = NoKey => entries[Behind(n)].value = NoBlock
    /\ Whole(Behind(n)) => \/ Num(Behind(n)) + n < Numbers
                           \/ (n = Cap - 1 /\ Num(Behind(n)) = Numbers)
    /\ Behind(n) \in InUse => Whole(Behind(n)) /\ Num(Behind(n)) + n + 1 = Numbers
HeadersInv == Len(headers) > 0 /\ \A j \in 1..Len(headers) : HeaderInv(headers[j])
KeysInv == \A x \in Ids : entries[x].key = NoKey \/ (Whole(x) /\ entries[x].key <= items)
PlacesInv ==
    /\ \A m, n \in Reach : Behind(m) = Behind(n) => m = n
    /\ \A n \in Reach : OrderInv(n)
    /\ Numbers > 0 => Whole(Behind(0)) /\ Num(Behind(0)) = Numbers - 1
    /\ \A x \in InUse : Num(x) < Got /\ \E n \in Reach : x = Behind(n)
StepInv ==
    /\ ppc \in {"insert", "advance", "block", "construct"} => items % BLOCK_SIZE = 0
    /\ ppc = "advance" => idxEntry = Behind(Cap - 1) /\ entries[idxEntry].key = items
    /\ ppc = "block" => /\ idxEntry = Behind(0)
                        /\ Numbers > 1 => Whole(Behind(1)) /\ Num(Behind(1)) = Numbers - 2
    /\ ppc \in {"advance", "block"} => entries[idxEntry].value = NoBlock
RingInv == HeadersInv /\ KeysInv /\ PlacesInv /\ StepInv

\* The place n before a place of the ring.
LEMMA PlaceBefore ==
    ASSUME NEW c \in Nat, c > 1, NEW t \in 0..(c - 1), NEW n \in 0..(c - 1)
    PROVE  /\ PlaceBack(c, t, n) = IF n <= t THEN t - n ELSE t + c - n
           /\ PlaceBack(c, t, n) \in 0..(c - 1)
<1>1. PICK x \in Nat : x = t + c - n
  OBVIOUS
<1>2. PlaceBack(c, t, n) = x % c
  BY <1>1 DEF PlaceBack
<1>3. x % c = IF n <= t THEN t - n ELSE t + c - n
  BY <1>1, ModSmall
<1> QED
  BY <1>2, <1>3

\* The place after a place of the ring, and the one before it.
LEMMA PlaceAfter ==
    ASSUME NEW c \in Nat, c > 1, NEW t \in 0..(c - 1)
    PROVE  /\ (t + 1) % c = IF t = c - 1 THEN 0 ELSE t + 1
           /\ (t + (c - 1)) % c = IF t = 0 THEN c - 1 ELSE t - 1
           /\ (t + 1) % c = PlaceBack(c, t, c - 1)
<1>1. PICK x \in Nat, y \in Nat : x = t + 1 /\ y = t + (c - 1)
  OBVIOUS
<1>2. t + c - (c - 1) = x
  BY <1>1
<1> QED
  BY <1>1, <1>2, ModSmall DEF PlaceBack

\* Places seen from the place after.
LEMMA PlaceNext ==
    ASSUME NEW c \in Nat, c > 1, NEW t \in 0..(c - 1), NEW u \in 0..(c - 1),
           u = IF t = c - 1 THEN 0 ELSE t + 1
    PROVE  /\ PlaceBack(c, u, 0) = PlaceBack(c, t, c - 1)
           /\ \A n \in 1..(c - 1) : PlaceBack(c, u, n) = PlaceBack(c, t, n - 1)
<1>1. ASSUME NEW n \in 1..(c - 1) PROVE PlaceBack(c, u, n) = PlaceBack(c, t, n - 1)
  <2>1. PICK m \in 0..(c - 1) : m = n - 1
    OBVIOUS
  <2>2. PlaceBack(c, t, m) = IF m <= t THEN t - m ELSE t + c - m
    BY PlaceBefore
  <2>3. n \in 0..(c - 1)
    OBVIOUS
  <2>4. PlaceBack(c, u, n) = IF n <= u THEN u - n ELSE u + c - n
    BY <2>3, PlaceBefore
  <2> QED
    BY <2>1, <2>2, <2>4
<1>2. PICK z \in 0..(c - 1), m \in 0..(c - 1) : z = 0 /\ m = c - 1
  OBVIOUS
<1>3. PlaceBack(c, u, z) = IF z <= u THEN u - z ELSE u + c - z
  BY PlaceBefore
<1>4. PlaceBack(c, t, m) = IF m <= t THEN t - m ELSE t + c - m
  BY PlaceBefore
<1> QED
  BY <1>1, <1>2, <1>3, <1>4

\* The current block index.
LEMMA HeaderIs ==
    ASSUME SubTypeOK, HeadersInv
    PROVE  /\ Len(headers) \in Nat /\ Len(headers) \in 1..Len(headers)
           /\ Header.index \in Seq(Nat) /\ Header.tail \in Nat /\ HeaderInv(Header)
           /\ Header = headers[Len(headers)] /\ Len(entries) \in Nat
           /\ Cap \in Nat /\ Cap > 1 /\ Header.tail \in 0..(Cap - 1)
           /\ \A n \in Reach : Behind(n) \in Ids
<1> DEFINE S == [tail : Nat, index : Seq(Nat)]
<1>1. /\ headers \in Seq(S) /\ Len(entries) \in Nat /\ Len(headers) > 0
  BY DEF SubTypeOK, HeadersInv
<1>2. Header = headers[Len(headers)] /\ Header \in S /\ Len(headers) \in 1..Len(headers) /\ Len(headers) \in Nat
  <2> HIDE DEF S
  <2>1. Len(headers) \in 1..Len(headers) /\ Len(headers) \in Nat
    BY <1>1
  <2> QED
    BY <1>1, <2>1, ElementOfSeq DEF Header
<1>3. HeaderInv(Header)
  BY <1>2 DEF HeadersInv
<1>4. Header.index \in Seq(Nat) /\ Header.tail \in Nat
  BY <1>2
<1>5. Cap \in Nat /\ Cap > 1 /\ Header.tail \in 0..(Cap - 1)
  BY <1>3, <1>4 DEF Cap, Capacity, HeaderInv
<1>6. ASSUME NEW n \in Reach PROVE Behind(n) \in Ids
  <2>1. n \in 0..(Cap - 1)
    BY DEF Reach
  <2>2. PlaceBack(Cap, Header.tail, n) \in 0..(Cap - 1)
    BY <1>5, <2>1, PlaceBefore
  <2>3. PlaceBack(Cap, Header.tail, n) + 1 \in 1..Cap
    BY <2>2, <1>5
  <2> QED
    BY <2>3, <1>3 DEF Behind, BackFrom, HeaderInv, Cap
<1> QED
  BY <1>1, <1>2, <1>3, <1>4, <1>5, <1>6

\* The next entry is the oldest.
LEMMA NextIsOldest ==
    ASSUME SubTypeOK, HeadersInv
    PROVE  NextEntry(Header) = Behind(Cap - 1) /\ Cap - 1 \in Reach /\ 0 \in Reach
<1>1. PICK c \in Nat, t \in Nat : c = Cap /\ t = Header.tail /\ c > 1 /\ t \in 0..(c - 1)
  BY HeaderIs
<1>2. Wrapped(Header, Header.tail + 1) = PlaceBack(c, t, c - 1) + 1
  BY <1>1, PlaceAfter DEF Wrapped, Cap
<1> QED
  BY <1>1, <1>2 DEF NextEntry, Behind, BackFrom, Reach, Cap

\* The tail moves by n places: the entries are the same.
LEMMA TailMoves ==
    ASSUME SubTypeOK, HeadersInv, NEW s \in Nat, MoveTail(s)
    PROVE  /\ Len(headers') = Len(headers) /\ Cap' = Cap /\ Header'.index = Header.index
           /\ Header'.tail = (Header.tail + s) % Cap
           /\ \A j \in 1..Len(headers) : headers'[j].index = headers[j].index
           /\ \A j \in 1..Len(headers) : j # Len(headers) => headers'[j] = headers[j]
<1> DEFINE S == [tail : Nat, index : Seq(Nat)]
<1>1. PICK k \in Nat : k = Len(headers) /\ k \in 1..Len(headers)
  BY HeaderIs
<1>2. headers' = [headers EXCEPT ![k].tail = (headers[k].tail + s) % Cap]
  BY <1>1 DEF MoveTail, Cap
<1>3. headers \in Seq(S) /\ headers[k] \in S
  <2>1. headers \in Seq(S)
    BY DEF SubTypeOK
  <2> HIDE DEF S
  <2> QED
    BY <2>1, <1>1, ElementOfSeq
<1>4. DOMAIN headers' = DOMAIN headers /\ DOMAIN headers = 1..Len(headers)
  BY <1>2, <1>3
<1>5. Len(headers') = Len(headers)
  BY <1>2, <1>3, ExceptSeq, <1>4
<1>6. headers'[k].index = headers[k].index /\ headers'[k].tail = (headers[k].tail + s) % Cap
  BY <1>1, <1>2, <1>3
<1>7. \A j \in 1..Len(headers) : j # k => headers'[j] = headers[j]
  BY <1>2, <1>3
<1> QED
  BY <1>1, <1>5, <1>6, <1>7 DEF Header, Cap, Capacity

\* After the tail has moved on by one.
LEMMA BehindNext ==
    ASSUME SubTypeOK, HeadersInv, MoveTail(1)
    PROVE  /\ Behind(0)' = Behind(Cap - 1) /\ Header'.tail \in 0..(Cap - 1)
           /\ \A n \in Reach : n # 0 => Behind(n)' = Behind(n - 1) /\ n - 1 \in Reach
<1>1. PICK c \in Nat, t \in Nat : c = Cap /\ t = Header.tail /\ c > 1 /\ t \in 0..(c - 1)
  BY HeaderIs
<1>2. PICK u \in 0..(c - 1) : u = (t + 1) % c /\ u = IF t = c - 1 THEN 0 ELSE t + 1
  <2>1. (t + 1) % c = IF t = c - 1 THEN 0 ELSE t + 1
    BY <1>1, PlaceAfter
  <2>2. PICK u \in Int : u = IF t = c - 1 THEN 0 ELSE t + 1
    BY <1>1
  <2> QED
    BY <1>1, <2>1, <2>2
<1>3. /\ Header'.index = Header.index /\ Header'.tail = u
      /\ Capacity(Header) = c /\ Capacity(Header') = c
  BY <1>1, <1>2, TailMoves DEF Cap
<1>4. PlaceBack(c, u, 0) = PlaceBack(c, t, c - 1)
  BY <1>1, <1>2, PlaceNext
<1>5. \A n \in 1..(c - 1) : PlaceBack(c, u, n) = PlaceBack(c, t, n - 1)
  BY <1>1, <1>2, PlaceNext
<1>6. Behind(0)' = Behind(Cap - 1)
  BY <1>1, <1>3, <1>4 DEF Behind, BackFrom
<1>7. ASSUME NEW n \in Reach, n # 0 PROVE Behind(n)' = Behind(n - 1) /\ n - 1 \in Reach
  <2>1. n \in 1..(c - 1) /\ n - 1 \in Reach
    BY <1>1, <1>7 DEF Reach
  <2>2. PlaceBack(c, u, n) = PlaceBack(c, t, n - 1)
    BY <2>1, <1>5
  <2> QED
    BY <2>1, <2>2, <1>1, <1>3 DEF Behind, BackFrom
<1> QED
  BY <1>1, <1>3, <1>6, <1>7

\* After the tail has moved back by one.
LEMMA BehindBack ==
    ASSUME SubTypeOK, HeadersInv, MoveTail(Capacity(Header) - 1)
    PROVE  /\ Behind(Cap - 1)' = Behind(0) /\ Header'.tail \in 0..(Cap - 1)
           /\ \A n \in Reach : n # Cap - 1 => Behind(n)' = Behind(n + 1) /\ n + 1 \in Reach
<1>1. PICK c \in Nat, t \in Nat : c = Cap /\ t = Header.tail /\ c > 1 /\ t \in 0..(c - 1)
  BY HeaderIs
<1>2. PICK u \in 0..(c - 1) : u = (t + (c - 1)) % c /\ u = IF t = 0 THEN c - 1 ELSE t - 1
  <2>1. (t + (c - 1)) % c = IF t = 0 THEN c - 1 ELSE t - 1
    BY <1>1, PlaceAfter
  <2>2. PICK u \in Int : u = IF t = 0 THEN c - 1 ELSE t - 1
    BY <1>1
  <2> QED
    BY <1>1, <2>1, <2>2
<1>3. /\ Header'.index = Header.index /\ Header'.tail = u
      /\ Capacity(Header) = c /\ Capacity(Header') = c
  <2>1. PICK s \in Nat : s = c - 1 /\ s = Capacity(Header) - 1
    BY <1>1 DEF Cap
  <2>2. MoveTail(s)
    BY <2>1
  <2> QED
    BY <2>1, <2>2, <1>1, <1>2, TailMoves DEF Cap
<1>4. t = IF u = c - 1 THEN 0 ELSE u + 1
  BY <1>1, <1>2
<1>5. PlaceBack(c, t, 0) = PlaceBack(c, u, c - 1)
  BY <1>1, <1>4, PlaceNext
<1>6. \A n \in 1..(c - 1) : PlaceBack(c, t, n) = PlaceBack(c, u, n - 1)
  BY <1>1, <1>4, PlaceNext
<1>7. Behind(Cap - 1)' = Behind(0)
  BY <1>1, <1>3, <1>5 DEF Behind, BackFrom, Cap
<1>8. ASSUME NEW n \in Reach, n # Cap - 1 PROVE Behind(n)' = Behind(n + 1) /\ n + 1 \in Reach
  <2>1. PICK m \in 1..(c - 1) : m = n + 1 /\ n = m - 1 /\ m \in Reach
    BY <1>1, <1>8 DEF Reach
  <2>2. PlaceBack(c, t, m) = PlaceBack(c, u, m - 1)
    BY <1>6
  <2> QED
    BY <2>1, <2>2, <1>1, <1>3 DEF Behind, BackFrom
<1> QED
  BY <1>1, <1>3, <1>7, <1>8

\* After the index has grown: the old entries are where they were, seen from the
\* tail, and the new ones before them.
LEMMA BehindGrown ==
    ASSUME SubTypeOK, HeadersInv, headers' = Append(headers, Grown(Header))
    PROVE  /\ Len(headers') = Len(headers) + 1 /\ Cap' = 2 * Cap
           /\ \A j \in 1..Len(headers) : headers'[j] = headers[j]
           /\ headers'[Len(headers) + 1] = Grown(Header) /\ Grown(Header).index \in Seq(Nat)
           /\ Grown(Header).tail = Cap - 1 /\ Len(Grown(Header).index) = 2 * Cap
           /\ \A n \in 1..(2 * Cap) : Grown(Header).index[n] \in 1..(Len(entries) + Cap)
           /\ \A n \in Reach : Behind(n)' = Behind(n)
           /\ \A n \in Cap..(2 * Cap - 1) : Behind(n)' = Len(entries) + 2 * Cap - n
<1>1. PICK c \in Nat, t \in Nat, e \in Nat :
         /\ c = Cap /\ t = Header.tail /\ c > 1 /\ t \in 0..(c - 1) /\ e = Len(entries)
         /\ Capacity(Header) = c
  BY HeaderIs DEF Cap
<1>2. headers \in Seq([tail : Nat, index : Seq(Nat)])
  BY DEF SubTypeOK
<1> DEFINE g == Grown(Header)
<1>3. /\ Len(headers') = Len(headers) + 1 /\ headers'[Len(headers) + 1] = g
      /\ \A j \in 1..Len(headers) : headers'[j] = headers[j]
  BY <1>2 DEF Header
<1>4. Header' = g
  BY <1>3 DEF Header
<1>5. /\ g.tail = c - 1 /\ DOMAIN g.index = 1..(2 * c)
      /\ \A n \in 1..c : g.index[n] = Header.index[Wrapped(Header, t + n)]
      /\ \A n \in (c + 1)..(2 * c) : g.index[n] = e + n - c
  BY <1>1 DEF Grown
<1>6. \A n \in 1..c : Wrapped(Header, t + n) \in 1..c
  <2>1. ASSUME NEW n \in 1..c PROVE Wrapped(Header, t + n) \in 1..c
    <3>1. PICK x \in Nat : x = t + n
      OBVIOUS
    <3>2. x % c \in 0..(c - 1)
      BY <1>1, DivMod
    <3>3. Wrapped(Header, t + n) = (x % c) + 1
      BY <3>1, <1>1 DEF Wrapped
    <3> QED
      BY <3>2, <3>3, <1>1
  <2> QED
    BY <2>1
<1>7. \A n \in 1..c : Header.index[n] \in 1..e
  BY <1>1, HeaderIs DEF HeaderInv, Ids
<1>8. \A n \in 1..(2 * c) : g.index[n] \in 1..(e + c)
  <2> HIDE DEF g
  <2>1. ASSUME NEW n \in 1..(2 * c) PROVE g.index[n] \in 1..(e + c)
    <3>1. CASE n \in 1..c
      <4>1. PICK m \in 1..c : m = Wrapped(Header, t + n)
        BY <3>1, <1>6
      <4>2. g.index[n] = Header.index[m]
        BY <3>1, <4>1, <1>5
      <4>3. Header.index[m] \in 1..e
        BY <1>7
      <4> QED
        BY <4>2, <4>3, <1>1
    <3>2. CASE n \in (c + 1)..(2 * c)
      BY SMTT(30), <3>2, <1>1, <1>5
    <3> QED
      BY <3>1, <3>2, <1>1
  <2> QED
    BY <2>1
<1>9. g.index \in Seq(Nat) /\ Len(g.index) = 2 * c
  <2>1. PICK c2 \in Nat : c2 = 2 * c
    OBVIOUS
  <2>2. g.index = [n \in 1..(2 * Capacity(Header)) |-> g.index[n]]
    BY DEF Grown
  <2> HIDE DEF g
  <2>3. g.index \in [1..c2 -> Nat]
    BY <2>1, <2>2, <1>1, <1>8
  <2>4. g.index \in Seq(Nat)
    BY <2>3, SeqDef
  <2>5. Len(g.index) = c2
    <3>1. Len(g.index) \in Nat /\ DOMAIN g.index = 1..Len(g.index) /\ DOMAIN g.index = 1..c2
      BY <2>3, <2>4, LenProperties
    <3> QED
      BY <3>1
  <2> QED
    BY <2>1, <2>4, <2>5
<1>10. Cap' = 2 * c
  BY <1>4, <1>9 DEF Cap, Capacity
<1> HIDE DEF g
<1>11. ASSUME NEW n \in Reach PROVE Behind(n)' = Behind(n)
  <2>1. n \in 0..(c - 1)
    BY <1>1 DEF Reach
  <2>2. PICK c2 \in Nat, t2 \in Nat : c2 = 2 * c /\ t2 = c - 1 /\ t2 \in 0..(c2 - 1) /\ n \in 0..(c2 - 1)
    BY <1>1, <2>1
  <2>3. PlaceBack(c2, t2, n) + 1 = c - n
    BY <2>1, <2>2, <1>1, PlaceBefore
  <2>4. Behind(n)' = g.index[PlaceBack(c2, t2, n) + 1]
    BY <2>2, <1>4, <1>5, <1>10 DEF Behind, BackFrom, Cap
  <2>5. c - n \in 1..c /\ t + (c - n) = t + c - n
    BY <2>1, <1>1
  <2>6. g.index[c - n] = Header.index[PlaceBack(c, t, n) + 1]
    BY <2>5, <1>5, <1>1 DEF Wrapped, PlaceBack
  <2> QED
    BY <2>3, <2>4, <2>6, <1>1 DEF Behind, BackFrom
<1>12. ASSUME NEW n \in c..(2 * c - 1) PROVE Behind(n)' = e + 2 * c - n
  <2>1. PICK c2 \in Nat, t2 \in Nat : c2 = 2 * c /\ t2 = c - 1 /\ t2 \in 0..(c2 - 1) /\ n \in 0..(c2 - 1)
    BY <1>1
  <2>2. PlaceBack(c2, t2, n) + 1 = 3 * c - n
    <3>1. PlaceBack(c2, t2, n) = IF n <= t2 THEN t2 - n ELSE t2 + c2 - n
      BY <2>1, <1>1, PlaceBefore
    <3> QED
      BY <3>1, <2>1, <1>1
  <2>3. Behind(n)' = g.index[3 * c - n]
    BY <2>1, <2>2, <1>4, <1>5, <1>10 DEF Behind, BackFrom, Cap
  <2>4. 3 * c - n \in (c + 1)..(2 * c)
    BY <1>1
  <2> QED
    BY <2>3, <2>4, <1>5, <1>1
<1> QED
  BY <1>1, <1>3, <1>5, <1>8, <1>9, <1>10, <1>11, <1>12 DEF g

\* A block has more than one slot.
LEMMA BlockSize == BLOCK_SIZE \in Nat /\ BLOCK_SIZE > 1
  BY SubQueueAssumption

\* The numbers of blocks there are, and have got their memory.
LEMMA NumbersType ==
    ASSUME SubTypeOK
    PROVE  /\ items \in Nat /\ items \div BLOCK_SIZE \in Nat /\ Numbers \in Nat /\ Got \in Nat
           /\ Got <= Numbers
<1>1. items \in Nat
  BY SubQueueAssumption DEF SubTypeOK
<1>2. items \div BLOCK_SIZE \in Nat
  BY <1>1, BlockSize, DivMod
<1> QED
  BY <1>1, <1>2 DEF Numbers, Got

\* An entry has a key and a value, and so a number.
LEMMA EntriesType ==
    ASSUME SubTypeOK, NEW x \in Ids
    PROVE  /\ entries[x] \in [key : Nat, value : 0..SubBlocks]
           /\ entries[x].key \in Nat /\ entries[x].value \in 0..SubBlocks
           /\ Num(x) \in Nat
<1> DEFINE S == [key : Nat, value : 0..SubBlocks]
<1>1. entries \in Seq(S)
  BY DEF SubTypeOK
<1>2. entries[x] \in S
  <2> HIDE DEF S
  <2> QED
    BY <1>1, ElementOfSeq DEF Ids
<1>3. entries[x].key \in Nat /\ entries[x].value \in 0..SubBlocks
  BY <1>2
<1>4. Num(x) \in Nat
  BY <1>3, BlockSize, DivMod DEF Num
<1> QED
  BY <1>2, <1>3, <1>4

\* No key is no multiple of the size of a block.
LEMMA NoKeyNotWhole ==
    ASSUME NEW x, entries[x].key = NoKey PROVE ~Whole(x)
<1>1. 1 % BLOCK_SIZE = 1
  BY BlockSize, ModSmall
<1> QED
  BY <1>1 DEF Whole, NoKey

\* An entry changes its value.
LEMMA ValueSet ==
    ASSUME SubTypeOK, NEW e \in Ids, NEW v, entries' = [entries EXCEPT ![e].value = v]
    PROVE  /\ Len(entries') = Len(entries) /\ Ids' = Ids /\ entries'[e].value = v
           /\ \A x \in Ids : entries'[x].key = entries[x].key /\ Num(x)' = Num(x) /\ (Whole(x)' <=> Whole(x))
           /\ \A x \in Ids : x # e => entries'[x] = entries[x]
<1> DEFINE S == [key : Nat, value : 0..SubBlocks]
<1>1. entries \in Seq(S) /\ entries[e] \in S
  BY EntriesType DEF SubTypeOK
<1>2. /\ entries'[e].value = v /\ entries'[e].key = entries[e].key
      /\ \A x \in Ids : x # e => entries'[x] = entries[x]
      /\ Len(entries') = Len(entries)
  BY <1>1 DEF Ids
<1>3. \A x \in Ids : entries'[x].key = entries[x].key
  BY <1>2
<1> QED
  BY <1>2, <1>3 DEF Ids, Num, Whole

\* An entry changes its key.
LEMMA KeySet ==
    ASSUME SubTypeOK, NEW e \in Ids, NEW k, entries' = [entries EXCEPT ![e].key = k]
    PROVE  /\ Len(entries') = Len(entries) /\ Ids' = Ids
           /\ entries'[e].key = k /\ entries'[e].value = entries[e].value
           /\ \A x \in Ids : x # e => entries'[x] = entries[x] /\ Num(x)' = Num(x) /\ (Whole(x)' <=> Whole(x))
<1> DEFINE S == [key : Nat, value : 0..SubBlocks]
<1>1. entries \in Seq(S) /\ entries[e] \in S
  BY EntriesType DEF SubTypeOK
<1>2. /\ entries'[e].key = k /\ entries'[e].value = entries[e].value
      /\ \A x \in Ids : x # e => entries'[x] = entries[x]
      /\ Len(entries') = Len(entries)
  BY <1>1 DEF Ids
<1> QED
  BY <1>2 DEF Ids, Num, Whole

\* More entries: the old ones are the same, the first new one has the key, the
\* others are free.
LEMMA EntriesGrown ==
    ASSUME SubTypeOK, HeadersInv, NEW k \in Nat,
           entries' = [entries \o Unused(Header) EXCEPT ![Len(entries) + 1].key = k]
    PROVE  /\ Len(entries') = Len(entries) + Cap /\ Len(entries) + 1 \in Ids'
           /\ \A x \in Ids : x \in Ids' /\ entries'[x] = entries[x] /\ Num(x)' = Num(x)
                               /\ (Whole(x)' <=> Whole(x))
           /\ entries'[Len(entries) + 1] = [key |-> k, value |-> NoBlock]
           /\ \A x \in Ids' : x > Len(entries) + 1 => entries'[x] = [key |-> NoKey, value |-> NoBlock]
           /\ entries' \in Seq([key : Nat, value : 0..SubBlocks])
<1> DEFINE S == [key : Nat, value : 0..SubBlocks]
           u == Unused(Header)
           none == [key |-> NoKey, value |-> NoBlock]
<1>1. PICK c \in Nat : c = Cap /\ c > 1
  BY HeaderIs
<1>2. none \in S
  BY SubQueueAssumption DEF NoKey, NoBlock
<1>3. u = [n \in 1..c |-> none]
  BY <1>1 DEF Unused, Cap
<1>4. u \in [1..c -> S] /\ \A n \in 1..c : u[n] = none
  BY <1>2, <1>3
<1> HIDE DEF u
<1>5. u \in Seq(S) /\ Len(u) = c
  <2> HIDE DEF S
  <2>1. u \in Seq(S)
    BY <1>4, SeqDef
  <2>2. Len(u) \in Nat /\ DOMAIN u = 1..Len(u) /\ DOMAIN u = 1..c
    BY <1>4, <2>1, LenProperties
  <2> QED
    BY <2>1, <2>2
<1>6. entries \in Seq(S) /\ Len(entries) \in Nat
  BY DEF SubTypeOK
<1> DEFINE w == entries \o u
<1>7. /\ w \in Seq(S) /\ Len(w) = Len(entries) + c
      /\ \A x \in 1..Len(entries) : w[x] = entries[x]
      /\ \A x \in (Len(entries) + 1)..(Len(entries) + c) : w[x] = none
  <2> HIDE DEF S
  <2>1. w \in Seq(S) /\ Len(w) = Len(entries) + c
    BY <1>5, <1>6, ConcatProperties
  <2>2. \A x \in 1..Len(w) : w[x] = IF x <= Len(entries) THEN entries[x] ELSE u[x - Len(entries)]
    BY <1>5, <1>6, ConcatProperties
  <2>3. ASSUME NEW x \in (Len(entries) + 1)..(Len(entries) + c) PROVE w[x] = none
    <3>1. x \in 1..Len(w) /\ ~(x <= Len(entries)) /\ x - Len(entries) \in 1..c
      BY <2>1, <1>6
    <3> QED
      BY <3>1, <2>2, <1>4
  <2> QED
    BY <2>1, <2>2, <2>3, <1>6
<1>8. PICK m \in Nat : m = Len(entries) + 1 /\ m \in 1..Len(w)
  BY <1>1, <1>6, <1>7
<1>9. entries' = [w EXCEPT ![m].key = k] /\ w[m] = none
  <2>1. entries' = [w EXCEPT ![m].key = k]
    BY <1>8 DEF u
  <2> HIDE DEF w
  <2>2. m \in (Len(entries) + 1)..(Len(entries) + c)
    BY <1>1, <1>6, <1>8
  <2> QED
    BY <2>1, <2>2, <1>7
<1> HIDE DEF w
<1>10. /\ entries' \in Seq(S) /\ Len(entries') = Len(w) /\ entries'[m] = [key |-> k, value |-> NoBlock]
       /\ \A x \in 1..Len(w) : x # m => entries'[x] = w[x]
  <2>1. entries' = [w EXCEPT ![m] = [w[m] EXCEPT !.key = k]]
    BY <1>9, <1>8, <1>7
  <2>2. [w[m] EXCEPT !.key = k] = [key |-> k, value |-> NoBlock]
    BY <1>9
  <2>3. [key |-> k, value |-> NoBlock] \in S
    BY SubQueueAssumption DEF NoBlock
  <2> HIDE DEF S
  <2>4. PICK r \in S : r = [key |-> k, value |-> NoBlock] /\ entries' = [w EXCEPT ![m] = r]
    BY ZenonT(30), <2>1, <2>2, <2>3
  <2>5. entries' \in Seq(S) /\ Len(entries') = Len(w)
    <3>1. w \in Seq(S) /\ m \in 1..Len(w)
      BY <1>7, <1>8
    <3>2. [w EXCEPT ![m] = r] \in Seq(S) /\ Len([w EXCEPT ![m] = r]) = Len(w)
      BY <3>1, ExceptSeq
    <3> QED
      BY ZenonT(30), <3>2, <2>4
  <2>6. entries'[m] = r /\ \A x \in 1..Len(w) : x # m => entries'[x] = w[x]
    BY <2>4, <1>7, <1>8
  <2> QED
    BY <2>4, <2>5, <2>6
<1>11. ASSUME NEW x \in Ids PROVE entries'[x] = entries[x] /\ x \in Ids'
  <2>1. x \in 1..Len(entries) /\ x \in 1..Len(w) /\ x # m
    BY <1>8, <1>7, <1>6, <1>1 DEF Ids
  <2>2. entries'[x] = w[x] /\ w[x] = entries[x]
    BY <2>1, <1>10, <1>7
  <2> QED
    BY <2>1, <2>2, <1>10 DEF Ids
<1>12. ASSUME NEW x \in Ids', x > Len(entries) + 1 PROVE entries'[x] = none
  <2>1. x \in 1..Len(w)
    BY <1>10 DEF Ids
  <2>2. x \in (Len(entries) + 1)..(Len(entries) + c) /\ x # m
    <3>1. Len(w) = Len(entries) + c /\ Len(entries) \in Nat /\ m = Len(entries) + 1
      BY <1>6, <1>7, <1>8
    <3> QED
      BY <3>1, <2>1, <1>12
  <2> QED
    BY <2>1, <2>2, <1>10, <1>7
<1>13. Len(entries') = Len(entries) + Cap /\ Len(entries) + 1 \in Ids'
  BY <1>10, <1>7, <1>8, <1>1 DEF Ids
<1> QED
  BY <1>8, <1>10, <1>11, <1>12, <1>13 DEF Num, Whole

\* The ring is as it was.
LEMMA RingSame ==
    ASSUME SubTypeOK, RingInv, UNCHANGED <<headers, entries>>, items' \in Nat, items <= items',
           Numbers' = Numbers, Got' = Got
    PROVE  HeadersInv' /\ KeysInv' /\ PlacesInv' /\ UNCHANGED <<Cap, Reach, Ids, InUse>>
             /\ \A n : Behind(n)' = Behind(n)
<1>1. /\ Header' = Header /\ Cap' = Cap /\ Reach' = Reach /\ Ids' = Ids /\ InUse' = InUse
      /\ \A n : Behind(n)' = Behind(n)
      /\ \A x : Num(x)' = Num(x) /\ (Whole(x)' <=> Whole(x))
  BY DEF Header, Cap, Reach, Ids, InUse, Behind, Num, Whole
<1>2. HeadersInv'
  BY DEF RingInv, HeadersInv, HeaderInv, Ids
<1>3. KeysInv'
  <2>1. \A x \in Ids : entries[x].key \in Nat /\ items \in Nat
    BY EntriesType, NumbersType
  <2> QED
    BY <1>1, <2>1 DEF RingInv, KeysInv
<1>4. \A n \in Reach : OrderInv(n)'
  BY <1>1 DEF RingInv, PlacesInv, OrderInv
<1>5. PlacesInv'
  BY <1>1, <1>4 DEF RingInv, PlacesInv
<1> QED
  BY <1>1, <1>2, <1>3, <1>5

\* The producer's own steps, from the place it is at.
LEMMA StepsKeepNumbers ==
    ASSUME SubTypeOK, CountsInv, RingInv
    PROVE  /\ EnqueueInBlock => Numbers' = Numbers /\ Got' = Got
           /\ EnqueueNewBlock => Numbers' = Numbers /\ Got' = Got
           /\ InsertEntry => Numbers' = Numbers /\ Got' = Got /\ Numbers = items \div BLOCK_SIZE
           /\ AdvanceTail => Numbers' = Numbers + 1 /\ Got' = Got /\ Numbers = items \div BLOCK_SIZE
           /\ GetBlock => Numbers' = Numbers /\ Got' = Numbers /\ Got = Numbers - 1
                            /\ Numbers = (items \div BLOCK_SIZE) + 1
           /\ NoNewBlock => Numbers' = Numbers - 1 /\ Got' = Got
                            /\ Numbers = (items \div BLOCK_SIZE) + 1
           /\ ConstructFirst => Numbers' = Numbers /\ Got' = Got
           /\ Publish => Numbers' = Numbers /\ Got' = Got
<1>1. items \in Nat /\ items \div BLOCK_SIZE \in Nat
  BY NumbersType
<1>2. ppc \in {"insert", "advance", "block", "construct"} => items % BLOCK_SIZE = 0
  BY DEF RingInv, StepInv
<1>3. EnqueueInBlock => Numbers' = Numbers /\ Got' = Got
  <2>1. tailIndex = items
    BY DEF CountsInv
  <2> QED
    BY <2>1, <1>1 DEF EnqueueInBlock, Construct, Numbers, Got
<1>4. EnqueueNewBlock => Numbers' = Numbers /\ Got' = Got
  BY <1>1 DEF EnqueueNewBlock, Numbers, Got
<1>5. InsertEntry => Numbers' = Numbers /\ Got' = Got /\ Numbers = items \div BLOCK_SIZE
  BY <1>1, <1>2 DEF InsertEntry, KeyInto, Numbers, Got
<1>6. AdvanceTail => Numbers' = Numbers + 1 /\ Got' = Got /\ Numbers = items \div BLOCK_SIZE
  BY <1>1, <1>2 DEF AdvanceTail, Numbers, Got
<1>7. GetBlock => Numbers' = Numbers /\ Got' = Numbers /\ Got = Numbers - 1
                            /\ Numbers = (items \div BLOCK_SIZE) + 1
  BY <1>1, <1>2 DEF GetBlock, Numbers, Got
<1>8. NoNewBlock => Numbers' = Numbers - 1 /\ Got' = Got
                            /\ Numbers = (items \div BLOCK_SIZE) + 1
  BY <1>1, <1>2 DEF NoNewBlock, Numbers, Got
<1>9. ConstructFirst => Numbers' = Numbers /\ Got' = Got
  BY <1>1, <1>2 DEF ConstructFirst, Construct, Numbers, Got
<1>10. Publish => Numbers' = Numbers /\ Got' = Got
  <2>1. ASSUME Publish PROVE Numbers' = Numbers /\ Got' = Got
    <3>1. PICK y \in Nat : y = items + 1 /\ y = items'
      BY <2>1, <1>1 DEF Publish
    <3>2. IF items % BLOCK_SIZE = BLOCK_SIZE - 1
          THEN y % BLOCK_SIZE = 0 /\ y \div BLOCK_SIZE = (items \div BLOCK_SIZE) + 1
          ELSE y % BLOCK_SIZE = (items % BLOCK_SIZE) + 1 /\ y \div BLOCK_SIZE = items \div BLOCK_SIZE
      BY <3>1, <1>1, BlockSize, DivNext
    <3>3. items % BLOCK_SIZE \in Nat
      BY <1>1, BlockSize, DivMod
    <3>4. ppc = "publish" /\ ppc' = "idle"
      BY <2>1 DEF Publish
    <3>5. Numbers = (items \div BLOCK_SIZE) + 1 /\ Got = Numbers
      BY <3>4, <1>1 DEF Numbers, Got
    <3>6. Numbers' = (y \div BLOCK_SIZE) + (IF y % BLOCK_SIZE # 0 THEN 1 ELSE 0) /\ Got' = Numbers'
      BY <3>1, <3>4 DEF Numbers, Got
    <3> QED
      BY <3>2, <3>3, <3>5, <3>6, <1>1
  <2> QED
    BY <2>1
<1> QED
  BY <1>3, <1>4, <1>5, <1>6, <1>7, <1>8, <1>9, <1>10

\* An entry's key and number, below the newest number there can be.
LEMMA KeyNumbers ==
    ASSUME SubTypeOK, RingInv, NEW x \in Ids, Whole(x)
    PROVE  Num(x) <= items \div BLOCK_SIZE /\ entries[x].key <= items
<1>1. entries[x].key <= items /\ entries[x].key \in Nat
  BY NoKeyNotWhole, EntriesType DEF RingInv, KeysInv
<1>2. items \in Nat /\ BLOCK_SIZE \in Nat /\ BLOCK_SIZE > 1
  BY NumbersType, BlockSize
<1>3. PICK k \in Nat, i \in Nat, b \in Nat : k = entries[x].key /\ i = items /\ b = BLOCK_SIZE
  BY <1>1, <1>2
<1>4. k \div b <= i \div b
  BY <1>1, <1>2, <1>3, DivOrder
<1> QED
  BY <1>1, <1>3, <1>4 DEF Num

\* A step that takes entries out of use and leaves their keys.
LEMMA RingLoses ==
    ASSUME SubTypeOK, RingInv, NEW e \in Ids, UNCHANGED <<headers, items, ppc, idxEntry>>,
           entries' = [entries EXCEPT ![e].value = NoBlock]
    PROVE  RingInv' /\ InUse' = InUse \ {e}
<1>1. /\ Ids' = Ids /\ entries'[e].value = NoBlock /\ Len(entries') = Len(entries)
      /\ \A x \in Ids : entries'[x].key = entries[x].key /\ Num(x)' = Num(x) /\ (Whole(x)' <=> Whole(x))
      /\ \A x \in Ids : x # e => entries'[x] = entries[x]
  BY ValueSet
<1>2. InUse' = InUse \ {e}
  BY <1>1 DEF InUse
<1>3. /\ Header' = Header /\ Cap' = Cap /\ Reach' = Reach /\ Numbers' = Numbers /\ Got' = Got
      /\ \A n : Behind(n)' = Behind(n)
  BY DEF Header, Cap, Reach, Behind, Numbers, Got
<1>4. HeadersInv'
  BY <1>1 DEF RingInv, HeadersInv, HeaderInv
<1>5. KeysInv'
  BY <1>1 DEF RingInv, KeysInv
<1>6. \A n \in Reach : Behind(n) \in Ids
  BY HeaderIs DEF RingInv
<1>7. \A x \in Ids : entries[x].value = NoBlock => entries'[x].value = NoBlock
  BY <1>1
<1>8. ASSUME NEW n \in Reach PROVE OrderInv(n)'
  <2>1. OrderInv(n) /\ Behind(n) \in Ids
    BY <1>6 DEF RingInv, PlacesInv
  <2> QED
    BY <2>1, <1>1, <1>2, <1>3, <1>7 DEF OrderInv
<1>9. 0 \in Reach /\ 1 \in Reach
  BY HeaderIs DEF RingInv, Reach
<1>10. PlacesInv'
  <2>1. \A x \in InUse' : Num(x)' < Got' /\ \E n \in Reach : x = Behind(n)
    BY <1>1, <1>2, <1>3 DEF RingInv, PlacesInv, InUse
  <2>2. Numbers > 0 => Whole(Behind(0))' /\ Num(Behind(0))' = Numbers - 1
    <3>1. PICK x \in Ids : x = Behind(0)
      BY <1>6, <1>9
    <3> QED
      BY <3>1, <1>1, <1>3 DEF RingInv, PlacesInv, Num, Whole
  <2> QED
    BY <2>1, <2>2, <1>3, <1>8 DEF RingInv, PlacesInv
<1>11. StepInv'
  <2>1. Numbers > 1 /\ ppc = "block" => Whole(Behind(1))' /\ Num(Behind(1))' = Numbers - 2
    <3>1. PICK x \in Ids : x = Behind(1)
      BY <1>6, <1>9
    <3> QED
      BY <3>1, <1>1, <1>3 DEF RingInv, StepInv, Num, Whole
  <2>2. ppc = "advance" => idxEntry \in Ids
    BY <1>6, NextIsOldest DEF RingInv, StepInv
  <2>3. ppc = "block" => idxEntry \in Ids
    BY <1>6, <1>9 DEF RingInv, StepInv
  <2> QED
    BY <2>1, <2>2, <2>3, <1>1, <1>3, <1>7 DEF RingInv, StepInv
<1> QED
  BY <1>2, <1>4, <1>5, <1>10, <1>11 DEF RingInv

\* What a step of the producer leaves to the dequeuers: the entries in use, and the
\* keys of those that are no older than one in use.
Kept ==
    /\ \A j \in 1..Len(headers) : j \in 1..Len(headers') /\ headers'[j].index = headers[j].index
    /\ \A j \in 1..Len(headers) : j # Len(headers') => headers'[j] = headers[j]
    /\ Len(headers') \in Nat
    /\ \A x \in InUse : x \in InUse' /\ entries'[x] = entries[x]
    /\ \A x \in Ids : \A y \in InUse :
          Whole(x) /\ entries[y].key <= entries[x].key => entries'[x].key = entries[x].key

\* The key of the next block goes into the oldest entry.
LEMMA InsertHere ==
    ASSUME SubTypeOK, CountsInv, RingInv, ppc = "insert", ppc' = "advance", UNCHANGED <<headers, items>>,
           NEW e \in Ids, e = Behind(Cap - 1), entries[e].value = NoBlock, idxEntry' = e,
           entries' = [entries EXCEPT ![e].key = items]
    PROVE  RingInv' /\ InUse' = InUse /\ Kept
<1>1. /\ Ids' = Ids /\ entries'[e].value = NoBlock /\ entries'[e].key = items
      /\ Len(entries') = Len(entries)
      /\ \A x \in Ids : x # e => entries'[x] = entries[x] /\ Num(x)' = Num(x) /\ (Whole(x)' <=> Whole(x))
  BY KeySet
<1>2. /\ Header' = Header /\ Cap' = Cap /\ Reach' = Reach /\ \A n : Behind(n)' = Behind(n)
  BY DEF Header, Cap, Reach, Behind
<1>3. /\ Cap \in Nat /\ Cap > 1 /\ \A n \in Reach : Behind(n) \in Ids
      /\ 0 \in Reach /\ Cap - 1 \in Reach /\ 0 # Cap - 1
      /\ \A m, n \in Reach : Behind(m) = Behind(n) => m = n
  BY HeaderIs, NextIsOldest DEF RingInv, PlacesInv
<1>4. items % BLOCK_SIZE = 0 /\ items \in Nat /\ items \div BLOCK_SIZE \in Nat
  BY NumbersType DEF RingInv, StepInv
<1>5. Numbers = items \div BLOCK_SIZE /\ Numbers' = Numbers /\ Got' = Got /\ Got = Numbers
  BY <1>4 DEF Numbers, Got
<1>6. InUse' = InUse
  BY <1>1 DEF InUse
<1>7. Num(e)' = Numbers /\ Whole(e)'
  BY <1>1, <1>4, <1>5 DEF Num, Whole
<1>8. HeadersInv'
  BY <1>1 DEF RingInv, HeadersInv, HeaderInv
<1>9. KeysInv'
  BY <1>1, <1>4, <1>7 DEF RingInv, KeysInv
<1>10. ASSUME NEW n \in Reach PROVE OrderInv(n)'
  <2>1. CASE n = Cap - 1
    <3>1. Behind(n)' = e /\ (entries'[e].key # NoKey \/ entries'[e].value = NoBlock)
      BY <2>1, <1>1, <1>2
    <3>2. e \notin InUse'
      BY <1>1 DEF InUse
    <3> QED
      BY <2>1, <3>2, <1>1, <1>2, <1>5, <1>7 DEF OrderInv, Num, Whole
  <2>2. CASE n # Cap - 1
    <3>1. PICK x \in Ids : x = Behind(n) /\ x # e
      BY <2>2, <1>3
    <3>2. Behind(n)' = x /\ entries'[x] = entries[x] /\ (x \in InUse' <=> x \in InUse)
      BY <3>1, <1>1, <1>2, <1>6
    <3> QED
      BY <3>1, <3>2, <2>2, <1>2, <1>5 DEF OrderInv, Num, Whole, RingInv, PlacesInv
  <2> QED
    BY <2>1, <2>2
<1>11. Numbers > 0 => Whole(Behind(0))' /\ Num(Behind(0))' = Numbers - 1
  <2>1. PICK x \in Ids : x = Behind(0) /\ x # e
    BY <1>3
  <2> QED
    BY <2>1, <1>1, <1>2 DEF RingInv, PlacesInv, Num, Whole
<1>12. ASSUME NEW x \in InUse PROVE Num(x)' < Got' /\ \E n \in Reach : x = Behind(n)
  <2>1. x \in Ids /\ x # e
    BY DEF InUse
  <2> QED
    BY <2>1, <1>1, <1>5 DEF RingInv, PlacesInv
<1>13. PlacesInv'
  BY <1>2, <1>3, <1>5, <1>6, <1>10, <1>11, <1>12 DEF PlacesInv
<1>14. StepInv'
  BY <1>1, <1>2, <1>4 DEF StepInv
<1>15. ASSUME NEW x \in Ids, NEW y \in InUse, Whole(x), entries[y].key <= entries[x].key
       PROVE  entries'[x].key = entries[x].key
  <2>1. CASE x # e
    BY <2>1, <1>1
  <2>2. CASE x = e
    <3>1. y \in Ids /\ y # e
      BY DEF InUse
    <3>2. PICK m \in Reach : y = Behind(m)
      BY DEF RingInv, PlacesInv
    <3>3. Num(y) + m + 1 = Numbers /\ Whole(y)
      BY <3>2 DEF RingInv, PlacesInv, OrderInv
    <3>4. m < Cap - 1 /\ m \in Nat
      BY <3>1, <3>2, <1>3 DEF Reach
    <3>5. Num(y) <= Num(x) /\ Num(y) \in Nat /\ Num(x) \in Nat
      <4>1. entries[y].key \in Nat /\ entries[x].key \in Nat /\ Num(y) \in Nat /\ Num(x) \in Nat
        BY <3>1, EntriesType
      <4> QED
        BY <4>1, <1>15, BlockSize, DivOrder DEF Num
    <3>6. Num(x) + (Cap - 1) < Numbers \/ Num(x) = Numbers
      BY <2>2, <1>15, <1>3 DEF RingInv, PlacesInv, OrderInv
    <3>7. Num(x) = Numbers
      BY <3>3, <3>4, <3>5, <3>6, <1>3, <1>5, <1>4
    <3>8. entries[x].key = items
      <4>1. entries[x].key \in Nat /\ entries[x].key % BLOCK_SIZE = 0
            /\ entries[x].key \div BLOCK_SIZE = items \div BLOCK_SIZE
        BY <3>7, <1>5, <1>15, EntriesType DEF Num, Whole
      <4> QED
        BY <4>1, <1>4, BlockSize, WholeOrder
    <3> QED
      BY <3>8, <2>2, <1>1
  <2> QED
    BY <2>1, <2>2
<1>16. \A x \in InUse : entries'[x] = entries[x]
  BY <1>1 DEF InUse
<1> QED
  BY <1>6, <1>8, <1>9, <1>13, <1>14, <1>15, <1>16, HeaderIs DEF RingInv, Kept

\* The oldest entry is in use: the index grows.
LEMMA InsertGrown ==
    ASSUME SubTypeOK, CountsInv, RingInv, ppc = "insert", ppc' = "advance", UNCHANGED items,
           Behind(Cap - 1) \in InUse, idxEntry' = Len(entries) + 1,
           headers' = Append(headers, Grown(Header)),
           entries' = [entries \o Unused(Header) EXCEPT ![Len(entries) + 1].key = items]
    PROVE  RingInv' /\ InUse' = InUse /\ Kept
<1>1. PICK c \in Nat, k \in Nat : c = Cap /\ c > 1 /\ k = Len(entries)
  BY HeaderIs DEF RingInv
<1>2. items % BLOCK_SIZE = 0 /\ items \in Nat /\ items \div BLOCK_SIZE \in Nat
  BY NumbersType DEF RingInv, StepInv
<1>3. Numbers = items \div BLOCK_SIZE /\ Numbers' = Numbers /\ Got' = Got /\ Got = Numbers
  BY <1>2 DEF Numbers, Got
<1>4. /\ Len(entries') = k + c /\ k + 1 \in Ids'
      /\ \A x \in Ids : x \in Ids' /\ entries'[x] = entries[x] /\ Num(x)' = Num(x)
                         /\ (Whole(x)' <=> Whole(x))
      /\ entries'[k + 1] = [key |-> items, value |-> NoBlock]
      /\ \A x \in Ids' : x > k + 1 => entries'[x] = [key |-> NoKey, value |-> NoBlock]
  BY <1>1, <1>2, EntriesGrown DEF RingInv
<1>5. /\ Len(headers') = Len(headers) + 1 /\ Cap' = 2 * c
      /\ \A j \in 1..Len(headers) : headers'[j] = headers[j]
      /\ headers'[Len(headers) + 1] = Grown(Header)
      /\ Grown(Header).tail = c - 1 /\ Len(Grown(Header).index) = 2 * c
      /\ \A n \in 1..(2 * c) : Grown(Header).index[n] \in 1..(k + c)
      /\ \A n \in Reach : Behind(n)' = Behind(n)
      /\ \A n \in c..(2 * c - 1) : Behind(n)' = k + 2 * c - n
  BY <1>1, BehindGrown DEF RingInv
<1>6. Ids' = 1..(k + c) /\ Ids = 1..k
  BY <1>1, <1>4 DEF Ids
<1>7. InUse' = InUse
  <2>1. ASSUME NEW x \in Ids', x \notin Ids PROVE entries'[x].value = NoBlock
    <3>1. x = k + 1 \/ x > k + 1
      BY <2>1, <1>6, <1>1
    <3> QED
      BY <3>1, <1>4
  <2> QED
    BY <2>1, <1>4 DEF InUse
<1>8. c <= items \div BLOCK_SIZE
  <2>1. Cap - 1 \in Reach
    BY NextIsOldest DEF RingInv
  <2>2. Num(Behind(Cap - 1)) + (Cap - 1) + 1 = Numbers /\ Behind(Cap - 1) \in Ids
    BY <2>1 DEF RingInv, PlacesInv, OrderInv, InUse
  <2>3. Num(Behind(Cap - 1)) \in Nat
    BY <2>2, EntriesType
  <2> QED
    BY <2>2, <2>3, <1>1, <1>3
<1>9. (Modulus \div BLOCK_SIZE) % (2 * c) = 0
  <2>1. (Modulus \div BLOCK_SIZE) % c = 0
    BY <1>1, HeaderIs DEF RingInv, HeaderInv, Cap
  <2>2. items < Modulus
    BY CountsSmall, ModulusLarge, <1>2
  <2>3. Modulus \in Nat /\ Modulus % BLOCK_SIZE = 0
    BY SubQueueAssumption, DivideOne
  <2>4. \A n \in 1..(Modulus - 1) : Modulus % n = 0 => Modulus % (2 * n) = 0
    BY SubQueueAssumption
  <2> QED
    BY <2>1, <2>2, <2>3, <2>4, <1>1, <1>2, <1>8, BlockSize, Doubles
<1>10. HeadersInv'
  <2>1. Len(headers) \in Nat /\ Len(headers) > 0 /\ \A j \in 1..Len(headers) : HeaderInv(headers[j])
    BY HeaderIs DEF RingInv, HeadersInv
  <2>2. ASSUME NEW j \in 1..Len(headers') PROVE HeaderInv(headers[j])'
    <3>1. CASE j \in 1..Len(headers)
      <4>1. HeaderInv(headers[j]) /\ headers'[j] = headers[j] /\ Ids \subseteq Ids'
        BY <3>1, <2>1, <1>5, <1>4
      <4> QED
        BY <4>1 DEF HeaderInv
    <3>2. CASE j = Len(headers) + 1
      <4>1. PICK g : g = headers'[j] /\ g = Grown(Header)
        BY <3>2, <1>5
      <4>2. g.tail = c - 1 /\ Capacity(g) = 2 * c /\ \A n \in 1..(2 * c) : g.index[n] \in 1..(k + c)
        BY <4>1, <1>5 DEF Capacity
      <4>3. Capacity(g) > 1 /\ g.tail \in 0..(Capacity(g) - 1)
        BY <4>2, <1>1
      <4>4. \A n \in 1..Capacity(g) : g.index[n] \in Ids'
        BY <4>2, <1>6
      <4>5. (Modulus \div BLOCK_SIZE) % Capacity(g) = 0
        BY <4>2, <1>9
      <4> QED
        BY <4>1, <4>3, <4>4, <4>5 DEF HeaderInv
    <3> QED
      BY <3>1, <3>2, <2>1, <1>5
  <2> QED
    BY <2>1, <2>2, <1>5 DEF HeadersInv
<1>11. Num(k + 1)' = Numbers /\ Whole(k + 1)' /\ entries'[k + 1].key = items /\ entries'[k + 1].value = NoBlock
  BY SMTT(30), <1>2, <1>3, <1>4 DEF Num, Whole
<1>12. KeysInv'
  <2>1. ASSUME NEW x \in Ids' PROVE entries'[x].key = NoKey \/ (Whole(x)' /\ entries'[x].key <= items')
    <3>1. CASE x \in Ids
      BY <3>1, <1>4 DEF RingInv, KeysInv
    <3>2. CASE x = k + 1
      BY <3>2, <1>2, <1>11
    <3>3. CASE x > k + 1
      BY <3>3, <1>4
    <3> QED
      BY <3>1, <3>2, <3>3, <1>1, <1>6
  <2> QED
    BY <2>1 DEF KeysInv
<1>13. /\ Reach = 0..(c - 1) /\ Reach' = 0..(2 * c - 1) /\ 0 \in Reach
       /\ \A n \in Reach : Behind(n) \in Ids
  BY <1>1, <1>5, HeaderIs DEF Reach, RingInv
<1>14. \A n \in Reach' : n \in Reach \/ n \in c..(2 * c - 1)
  BY <1>1, <1>13
<1>15. ASSUME NEW n \in c..(2 * c - 1) PROVE Behind(n)' \in Ids' \ Ids
  <2>1. PICK x \in Int : x = k + 2 * c - n
    BY <1>1
  <2>2. x \in (k + 1)..(k + c)
    BY <2>1, <1>1
  <2>3. Behind(n)' = x
    BY <2>1, <1>5
  <2>4. x \in 1..(k + c) /\ x \notin 1..k
    BY <2>2, <1>1
  <2> QED
    BY <2>3, <2>4, <1>6
<1>16. ASSUME NEW m \in Reach', NEW n \in Reach', Behind(m)' = Behind(n)' PROVE m = n
  <2>1. CASE m \in Reach /\ n \in Reach
    BY <2>1, <1>5, <1>16 DEF RingInv, PlacesInv
  <2>2. CASE m \in c..(2 * c - 1) /\ n \in c..(2 * c - 1)
    <3>1. k + 2 * c - m = k + 2 * c - n
      BY <2>2, <1>5, <1>16
    <3> QED
      BY SMTT(30), <3>1, <2>2, <1>1
  <2>3. CASE m \in Reach /\ n \in c..(2 * c - 1)
    BY <2>3, <1>5, <1>13, <1>15, <1>16
  <2>4. CASE n \in Reach /\ m \in c..(2 * c - 1)
    BY <2>4, <1>5, <1>13, <1>15, <1>16
  <2> QED
    BY <2>1, <2>2, <2>3, <2>4, <1>14
<1>17. ASSUME NEW n \in Reach' PROVE OrderInv(n)'
  <2>1. CASE n \in Reach
    <3>1. PICK x \in Ids : x = Behind(n) /\ x = Behind(n)'
      BY <2>1, <1>5, <1>13
    <3>2. entries'[x] = entries[x] /\ (x \in InUse' <=> x \in InUse)
      BY <3>1, <1>4, <1>7
    <3>3. OrderInv(n) /\ (n = Cap - 1 => x \in InUse)
      BY <2>1, <3>1 DEF RingInv, PlacesInv
    <3>4. Whole(x) => Num(x) + n < Numbers
      <4>1. Num(x) \in Nat /\ n \in Nat /\ Numbers \in Nat
        BY EntriesType, <2>1, <1>13, <1>2, <1>3
      <4> QED
        BY <4>1, <3>1, <3>3 DEF OrderInv
    <3> QED
      BY <3>1, <3>2, <3>3, <3>4, <1>3 DEF OrderInv, Num, Whole
  <2>2. CASE n \in c..(2 * c - 1)
    <3>1. PICK x \in Ids' : x = Behind(n)' /\ x \notin Ids /\ x = k + 2 * c - n
      BY <2>2, <1>5, <1>15
    <3>2. x \notin InUse'
      BY <3>1, <1>7 DEF InUse
    <3>3. CASE x = k + 1
      <4>1. n = Cap' - 1
        BY SMTT(30), <3>3, <3>1, <2>2, <1>1, <1>5
      <4> QED
        BY <3>1, <3>2, <3>3, <4>1, <1>3, <1>11 DEF OrderInv, Num, Whole
    <3>4. CASE x # k + 1
      <4>0. x > k + 1
        <5>1. x \in 1..(k + c) /\ x \notin 1..k /\ x # k + 1
          BY <3>1, <3>4, <1>6
        <5> QED
          BY <5>1, <1>1
      <4>1. entries'[x].key = NoKey /\ entries'[x].value = NoBlock
        BY SMTT(30), <4>0, <1>4
      <4>2. ~Whole(x)'
        <5>1. 1 % BLOCK_SIZE = 1
          BY SMTT(30), BlockSize, ModSmall
        <5> QED
          BY <4>1, <5>1 DEF Whole, NoKey
      <4> QED
        BY <3>1, <3>2, <4>1, <4>2 DEF OrderInv, Whole
    <3> QED
      BY <3>3, <3>4
  <2> QED
    BY <2>1, <2>2, <1>14
<1>18. Numbers > 0 => Whole(Behind(0))' /\ Num(Behind(0))' = Numbers - 1
  <2>1. PICK x \in Ids : x = Behind(0) /\ x = Behind(0)'
    BY <1>5, <1>13
  <2> QED
    BY <2>1, <1>4 DEF RingInv, PlacesInv, Num, Whole
<1>19. ASSUME NEW x \in InUse PROVE Num(x)' < Got' /\ \E n \in Reach' : x = Behind(n)'
  <2>1. x \in Ids
    BY DEF InUse
  <2>2. PICK n \in Reach : x = Behind(n) /\ Num(x) < Got
    BY DEF RingInv, PlacesInv
  <2>3. n \in Reach' /\ Behind(n)' = x
    BY <2>2, <1>1, <1>5, <1>13
  <2> QED
    BY <2>1, <2>2, <2>3, <1>3, <1>4
<1>20. PlacesInv'
  BY <1>3, <1>7, <1>16, <1>17, <1>18, <1>19 DEF PlacesInv
<1>21. StepInv'
  <2>1. Behind(Cap - 1)' = k + 1
    <3>1. PICK n \in c..(2 * c - 1) : n = 2 * c - 1
      BY <1>1
    <3>2. Behind(n)' = k + 1
      BY SMTT(30), <3>1, <1>1, <1>5
    <3> QED
      BY <3>1, <3>2, <1>5 DEF Behind
  <2> QED
    BY <2>1, <1>1, <1>2, <1>11 DEF StepInv
<1>22. Kept
  <2>1. Len(headers) \in Nat
    BY HeaderIs DEF RingInv
  <2>2. \A j \in 1..Len(headers) : j \in 1..Len(headers')
    BY <2>1, <1>5
  <2>3. Len(headers') \in Nat
    BY <2>1, <1>5
  <2>4. \A j \in 1..Len(headers) : headers'[j] = headers[j]
    BY <1>5
  <2>5. \A x \in InUse : x \in InUse' /\ entries'[x] = entries[x]
    BY <1>4, <1>7 DEF InUse
  <2>6. \A x \in Ids : entries'[x].key = entries[x].key
    BY <1>4
  <2> QED
    BY <2>2, <2>3, <2>4, <2>5, <2>6 DEF Kept
<1> QED
  BY <1>7, <1>10, <1>12, <1>20, <1>21, <1>22 DEF RingInv

\* The tail turns: the block indexes are as good as they were.
LEMMA HeadersTurn ==
    ASSUME SubTypeOK, HeadersInv, Ids' = Ids, Len(headers') = Len(headers), Cap' = Cap,
           Header'.tail \in 0..(Cap - 1),
           \A j \in 1..Len(headers) : headers'[j].index = headers[j].index,
           \A j \in 1..Len(headers) : j # Len(headers) => headers'[j] = headers[j]
    PROVE  HeadersInv'
<1>1. ASSUME NEW j \in 1..Len(headers) PROVE HeaderInv(headers[j])'
  <2>1. HeaderInv(headers[j]) /\ Capacity(headers'[j]) = Capacity(headers[j])
    BY DEF HeadersInv, Capacity
  <2>2. headers'[j].tail \in 0..(Capacity(headers[j]) - 1)
    <3>1. CASE j # Len(headers)
      BY <2>1, <3>1 DEF HeaderInv
    <3>2. CASE j = Len(headers)
      BY <3>2 DEF Header, Cap
    <3> QED
      BY <3>1, <3>2
  <2> QED
    BY <2>1, <2>2 DEF HeaderInv
<1> QED
  BY <1>1 DEF HeadersInv

\* The tail moves to the entry of the next block.
LEMMA AdvanceRing ==
    ASSUME SubTypeOK, CountsInv, RingInv, AdvanceTail
    PROVE  RingInv' /\ InUse' = InUse /\ Kept
<1>1. PICK c \in Nat : c = Cap /\ c > 1 /\ Reach = 0..(c - 1)
  BY HeaderIs DEF RingInv, Reach
<1>2. MoveTail(1) /\ UNCHANGED <<entries, items, idxEntry>> /\ ppc = "advance" /\ ppc' = "block"
  BY DEF AdvanceTail
<1>3. Numbers' = Numbers + 1 /\ Got' = Got /\ Numbers = items \div BLOCK_SIZE /\ Numbers \in Nat
  BY StepsKeepNumbers, NumbersType
<1>4. /\ Behind(0)' = Behind(c - 1) /\ Header'.tail \in 0..(c - 1)
      /\ \A n \in Reach : n # 0 => Behind(n)' = Behind(n - 1) /\ n - 1 \in Reach
  BY <1>1, <1>2, BehindNext DEF RingInv
<1>5. /\ Len(headers') = Len(headers) /\ Cap' = c /\ Header'.index = Header.index
      /\ \A j \in 1..Len(headers) : headers'[j].index = headers[j].index
      /\ \A j \in 1..Len(headers) : j # Len(headers) => headers'[j] = headers[j]
  BY <1>1, <1>2, TailMoves DEF RingInv
<1>6. Reach' = Reach /\ Ids' = Ids /\ InUse' = InUse /\ \A x : Num(x)' = Num(x) /\ (Whole(x)' <=> Whole(x))
  BY <1>1, <1>2, <1>5 DEF Reach, Ids, InUse, Num, Whole
<1>7. /\ idxEntry = Behind(c - 1) /\ entries[idxEntry].key = items /\ entries[idxEntry].value = NoBlock
      /\ items % BLOCK_SIZE = 0
  BY <1>1, <1>2 DEF RingInv, StepInv
<1>8. Num(idxEntry) = Numbers /\ Whole(idxEntry) /\ idxEntry \notin InUse
  BY <1>3, <1>7 DEF Num, Whole, InUse
<1>9. HeadersInv'
  BY HeadersTurn, <1>1, <1>4, <1>5, <1>6 DEF RingInv
<1>10. KeysInv'
  BY <1>2, <1>6 DEF RingInv, KeysInv
<1>11. \A n \in Reach : Behind(n) \in Ids
  BY HeaderIs DEF RingInv
<1>12. ASSUME NEW m \in Reach, NEW n \in Reach, Behind(m)' = Behind(n)' PROVE m = n
  <2>1. CASE m = 0 /\ n # 0
    <3>1. Behind(c - 1) = Behind(n - 1) /\ n - 1 \in Reach /\ c - 1 \in Reach
      BY <2>1, <1>1, <1>4, <1>12
    <3>2. c - 1 = n - 1
      BY <3>1 DEF RingInv, PlacesInv
    <3> QED
      BY <3>2, <1>1
  <2>2. CASE n = 0 /\ m # 0
    <3>1. Behind(c - 1) = Behind(m - 1) /\ m - 1 \in Reach /\ c - 1 \in Reach
      BY <2>2, <1>1, <1>4, <1>12
    <3>2. c - 1 = m - 1
      BY <3>1 DEF RingInv, PlacesInv
    <3> QED
      BY <3>2, <1>1
  <2>3. CASE n # 0 /\ m # 0
    <3>1. Behind(n - 1) = Behind(m - 1) /\ m - 1 \in Reach /\ n - 1 \in Reach
      BY <2>3, <1>1, <1>4, <1>12
    <3>2. n - 1 = m - 1
      BY <3>1 DEF RingInv, PlacesInv
    <3> QED
      BY <3>2, <1>1
  <2> QED
    BY <2>1, <2>2, <2>3
<1>13. ASSUME NEW n \in Reach PROVE OrderInv(n)'
  <2>1. CASE n = 0
    <3>1. Behind(n)' = idxEntry /\ entries' = entries
      BY <2>1, <1>2, <1>4, <1>7
    <3>2. Num(idxEntry) + n < Numbers'
      BY <2>1, <1>3, <1>8
    <3> QED
      BY <3>1, <3>2, <1>6, <1>7, <1>8 DEF OrderInv, Num, Whole
  <2>2. CASE n # 0
    <3>1. PICK m \in Reach : m = n - 1 /\ Behind(n)' = Behind(m) /\ m # c - 1
      BY <2>2, <1>1, <1>4
    <3>2. OrderInv(m) /\ Behind(m) \in Ids
      BY <1>11 DEF RingInv, PlacesInv
    <3>3. PICK x \in Ids : x = Behind(m) /\ Num(x) \in Nat
      BY <3>2, EntriesType
    <3>4. Whole(x) => Num(x) + n < Numbers'
      BY <3>1, <3>2, <3>3, <1>1, <1>3 DEF OrderInv
    <3>5. x \in InUse => Whole(x) /\ Num(x) + n + 1 = Numbers'
      BY <3>1, <3>2, <3>3, <1>1, <1>3 DEF OrderInv
    <3>6. entries[x].key = NoKey => entries[x].value = NoBlock
      BY <3>2, <3>3 DEF OrderInv
    <3> QED
      BY <3>1, <3>3, <3>4, <3>5, <3>6, <1>2, <1>6 DEF OrderInv, Num, Whole
  <2> QED
    BY <2>1, <2>2
<1>14. Whole(Behind(0))' /\ Num(Behind(0))' = Numbers' - 1
  BY <1>2, <1>3, <1>4, <1>7, <1>8 DEF Num, Whole
<1>15. ASSUME NEW x \in InUse PROVE Num(x)' < Got' /\ \E n \in Reach' : x = Behind(n)'
  <2>1. PICK n \in Reach : x = Behind(n) /\ Num(x) < Got
    BY DEF RingInv, PlacesInv
  <2>2. PICK m \in Reach : m = n + 1 /\ m # 0
    BY <2>1, <1>1, <1>7, <1>8
  <2>3. Behind(m)' = Behind(n)
    <3>1. m - 1 = n
      BY <2>2, <1>1
    <3> QED
      BY <2>2, <3>1, <1>4
  <2> QED
    BY <2>1, <2>2, <2>3, <1>3, <1>6
<1>16. PlacesInv'
  BY <1>6, <1>12, <1>13, <1>14, <1>15 DEF PlacesInv
<1>17. StepInv'
  <2>1. 1 \in Reach /\ 1 - 1 = 0
    BY <1>1
  <2>2. Behind(1)' = Behind(0)
    BY <2>1, <1>4
  <2>3. Numbers' > 1 => Numbers > 0 /\ Numbers - 1 = Numbers' - 2
    BY <1>3
  <2>4. Numbers' > 1 => Whole(Behind(1))' /\ Num(Behind(1))' = Numbers' - 2
    BY <2>2, <2>3, <1>2 DEF RingInv, PlacesInv, Num, Whole
  <2> QED
    BY <2>4, <1>2, <1>4, <1>7 DEF StepInv
<1>18. Kept
  BY <1>2, <1>5, <1>6, HeaderIs DEF Kept, RingInv
<1> QED
  BY <1>6, <1>9, <1>10, <1>16, <1>17, <1>18 DEF RingInv

\* There is no memory for the block: the tail moves back.
LEMMA NoNewBlockRing ==
    ASSUME SubTypeOK, CountsInv, RingInv, NoNewBlock
    PROVE  RingInv' /\ InUse' = InUse /\ Kept /\ Got' = Got
<1>1. PICK c \in Nat : c = Cap /\ c > 1 /\ Reach = 0..(c - 1) /\ 0 \in Reach /\ 1 \in Reach /\ c - 1 \in Reach
  BY HeaderIs DEF RingInv, Reach
<1>2. /\ MoveTail(Capacity(Header) - 1) /\ UNCHANGED items /\ ppc = "block" /\ ppc' = "idle"
      /\ entries' = [entries EXCEPT ![idxEntry].value = NoBlock]
  BY DEF NoNewBlock
<1>3. /\ Numbers' = Numbers - 1 /\ Got' = Got /\ Numbers = (items \div BLOCK_SIZE) + 1
      /\ items \div BLOCK_SIZE \in Nat /\ Numbers \in Nat
  BY StepsKeepNumbers, NumbersType
<1>4. /\ Behind(c - 1)' = Behind(0) /\ Header'.tail \in 0..(c - 1)
      /\ \A n \in Reach : n # c - 1 => Behind(n)' = Behind(n + 1) /\ n + 1 \in Reach
  <2>1. Behind(Cap - 1)' = Behind(0)
    BY <1>1, <1>2, BehindBack DEF RingInv
  <2>2. Cap' = Cap
    <3>1. PICK s \in Nat : s = Capacity(Header) - 1
      BY <1>1 DEF Cap
    <3> QED
      BY <3>1, <1>2, TailMoves DEF RingInv
  <2>3. Behind(c - 1)' = Behind(0)
    BY <2>1, <2>2, <1>1
  <2> QED
    BY <2>3, <1>1, <1>2, BehindBack DEF RingInv
<1>5. /\ Len(headers') = Len(headers) /\ Cap' = c
      /\ \A j \in 1..Len(headers) : headers'[j].index = headers[j].index
      /\ \A j \in 1..Len(headers) : j # Len(headers) => headers'[j] = headers[j]
  <2>1. PICK s \in Nat : s = Capacity(Header) - 1
    BY <1>1 DEF Cap
  <2> QED
    BY <2>1, <1>1, <1>2, TailMoves DEF RingInv
<1>6. \A n \in Reach : Behind(n) \in Ids
  BY HeaderIs DEF RingInv
<1>7. PICK e \in Ids : e = idxEntry /\ e = Behind(0) /\ entries[e].value = NoBlock
  BY <1>1, <1>2, <1>6 DEF RingInv, StepInv
<1>8. /\ Len(entries') = Len(entries) /\ Ids' = Ids /\ entries'[e].value = NoBlock
      /\ \A x \in Ids : entries'[x].key = entries[x].key /\ Num(x)' = Num(x) /\ (Whole(x)' <=> Whole(x))
      /\ \A x \in Ids : x # e => entries'[x] = entries[x]
  BY <1>2, <1>7, ValueSet
<1>9. InUse' = InUse /\ Reach' = Reach /\ e \notin InUse
  BY <1>1, <1>5, <1>7, <1>8 DEF InUse, Reach
<1>10. Whole(e) /\ Num(e) = Numbers - 1
  BY <1>3, <1>7 DEF RingInv, PlacesInv
<1>11. HeadersInv'
  BY HeadersTurn, <1>1, <1>4, <1>5, <1>8 DEF RingInv
<1>12. KeysInv'
  BY <1>2, <1>8 DEF RingInv, KeysInv
<1>13. ASSUME NEW m \in Reach, NEW n \in Reach, Behind(m)' = Behind(n)' PROVE m = n
  <2>1. CASE m = c - 1 /\ n # c - 1
    <3>1. Behind(0) = Behind(n + 1) /\ n + 1 \in Reach
      BY <2>1, <1>4, <1>13
    <3>2. 0 = n + 1
      BY <3>1, <1>1 DEF RingInv, PlacesInv
    <3> QED
      BY <3>2, <1>1
  <2>2. CASE n = c - 1 /\ m # c - 1
    <3>1. Behind(0) = Behind(m + 1) /\ m + 1 \in Reach
      BY <2>2, <1>4, <1>13
    <3>2. 0 = m + 1
      BY <3>1, <1>1 DEF RingInv, PlacesInv
    <3> QED
      BY <3>2, <1>1
  <2>3. CASE n # c - 1 /\ m # c - 1
    <3>1. Behind(n + 1) = Behind(m + 1) /\ m + 1 \in Reach /\ n + 1 \in Reach
      BY <2>3, <1>4, <1>13
    <3>2. n + 1 = m + 1
      BY <3>1 DEF RingInv, PlacesInv
    <3> QED
      BY <3>2, <1>1
  <2> QED
    BY <2>1, <2>2, <2>3
<1>14. ASSUME NEW n \in Reach PROVE OrderInv(n)'
  <2>1. CASE n = c - 1
    <3>1. Behind(n)' = e
      BY <2>1, <1>4, <1>7
    <3>2. Num(e)' = Numbers' /\ n = Cap' - 1
      BY <2>1, <1>3, <1>5, <1>8, <1>10
    <3> QED
      BY <3>1, <3>2, <1>8, <1>9 DEF OrderInv, Num, Whole
  <2>2. CASE n # c - 1
    <3>1. PICK m \in Reach : m = n + 1 /\ Behind(n)' = Behind(m) /\ m # 0
      BY <2>2, <1>1, <1>4
    <3>2. PICK x \in Ids : x = Behind(m) /\ OrderInv(m) /\ x # e
      BY <3>1, <1>1, <1>6, <1>7 DEF RingInv, PlacesInv
    <3>3. Num(x) \in Nat /\ (Whole(x) => Num(x) <= items \div BLOCK_SIZE)
      BY EntriesType, KeyNumbers
    <3>4. Whole(x) => Num(x) + n < Numbers'
      <4>1. n \in Nat /\ (Whole(x) => (Num(x) + m < Numbers \/ Num(x) = Numbers))
        BY <3>2, <1>1 DEF OrderInv
      <4> QED
        BY <4>1, <3>1, <3>3, <1>3
    <3>5. x \in InUse => Whole(x) /\ Num(x) + n + 1 = Numbers'
      <4>1. n \in Nat /\ (x \in InUse => Whole(x) /\ Num(x) + m + 1 = Numbers)
        BY <3>2, <1>1 DEF OrderInv
      <4> QED
        BY <4>1, <3>1, <3>3, <1>3
    <3>6. entries[x].key = NoKey => entries[x].value = NoBlock
      BY <3>2 DEF OrderInv
    <3>7. entries'[x] = entries[x] /\ Behind(n)' = x
      BY <3>1, <3>2, <1>8
    <3> QED
      BY <3>7, <3>4, <3>5, <3>6, <1>9 DEF OrderInv, Num, Whole
  <2> QED
    BY <2>1, <2>2
<1>15. Numbers' > 0 => Whole(Behind(0))' /\ Num(Behind(0))' = Numbers' - 1
  <2>1. Behind(0)' = Behind(1) /\ Behind(1) \in Ids
    <3>1. 0 # c - 1 /\ 0 + 1 = 1
      BY <1>1
    <3> QED
      BY <3>1, <1>1, <1>4, <1>6
  <2>2. Numbers' > 0 => Numbers > 1 /\ Numbers' - 1 = Numbers - 2
    BY <1>3
  <2>3. PICK x \in Ids : x = Behind(1) /\ entries'[x].key = entries[x].key
    BY <2>1, <1>8
  <2> QED
    BY <2>1, <2>2, <2>3, <1>2 DEF RingInv, StepInv, Num, Whole
<1>16. ASSUME NEW x \in InUse PROVE Num(x)' < Got' /\ \E n \in Reach' : x = Behind(n)'
  <2>1. PICK n \in Reach : x = Behind(n) /\ Num(x) < Got
    BY DEF RingInv, PlacesInv
  <2>2. PICK m \in Reach : m = n - 1 /\ m # c - 1 /\ m + 1 = n
    BY <2>1, <1>1, <1>7, <1>9
  <2>3. Behind(m)' = Behind(n)
    BY <2>2, <1>4
  <2>4. x \in Ids
    BY DEF InUse
  <2> QED
    BY <2>1, <2>2, <2>3, <2>4, <1>3, <1>8, <1>9
<1>17. PlacesInv'
  BY <1>9, <1>13, <1>14, <1>15, <1>16 DEF PlacesInv
<1>18. StepInv'
  BY <1>2 DEF StepInv
<1>19. Kept
  <2>1. \A x \in InUse : entries'[x] = entries[x]
    BY <1>7, <1>8, <1>9 DEF InUse
  <2> QED
    BY <2>1, <1>5, <1>8, <1>9, HeaderIs DEF Kept, RingInv
<1> QED
  BY <1>3, <1>9, <1>11, <1>12, <1>17, <1>18, <1>19 DEF RingInv

\* The block the producer gets is a free one.
LEMMA BlockGot ==
    ASSUME SubTypeOK, GetBlock
    PROVE  \E b \in freeBlocks :
              /\ freeBlocks' = freeBlocks \ {b} /\ emptied' = [emptied EXCEPT ![b] = 0]
              /\ entries' = [entries EXCEPT ![idxEntry].value = b] /\ tailBlock' = b
<1>1. freeBlocks # {} /\ freeBlocks \subseteq Nat
  <2>1. freeBlocks # {}
    BY DEF GetBlock
  <2>2. freeBlocks \subseteq 1..SubBlocks
    BY DEF SubTypeOK
  <2> QED
    BY <2>1, <2>2
<1>2. \E b \in freeBlocks : \A y \in freeBlocks : b <= y
  BY <1>1, LeastExists
<1> DEFINE b == CHOOSE x \in freeBlocks : \A y \in freeBlocks : x <= y
<1>3. b \in freeBlocks
  BY <1>2
<1> QED
  BY <1>3 DEF GetBlock

\* The newest entry gets its block.
LEMMA GetBlockRing ==
    ASSUME SubTypeOK, CountsInv, RingInv, GetBlock, NEW b \in freeBlocks,
           entries' = [entries EXCEPT ![idxEntry].value = b]
    PROVE  /\ RingInv' /\ idxEntry \in Ids /\ InUse' = InUse \cup {idxEntry} /\ idxEntry \notin InUse /\ Kept
           /\ Got' = Got + 1 /\ Num(idxEntry) = Got /\ Whole(idxEntry) /\ entries'[idxEntry].value = b
           /\ entries[idxEntry].key = items /\ entries'[idxEntry].key = items /\ b \in 1..SubBlocks
           /\ \A x \in Ids : x # idxEntry => entries'[x] = entries[x]
<1>1. PICK c \in Nat : c = Cap /\ c > 1 /\ Reach = 0..(c - 1) /\ 0 \in Reach
  BY HeaderIs DEF RingInv, Reach
<1>2. UNCHANGED <<headers, items>> /\ ppc = "block" /\ ppc' = "construct"
  BY DEF GetBlock
<1>3. /\ Numbers' = Numbers /\ Got' = Numbers /\ Got = Numbers - 1 /\ Numbers = (items \div BLOCK_SIZE) + 1
      /\ items \in Nat /\ items \div BLOCK_SIZE \in Nat /\ Numbers \in Nat
  BY StepsKeepNumbers, NumbersType
<1>4. \A n \in Reach : Behind(n) \in Ids
  BY HeaderIs DEF RingInv
<1>5. PICK e \in Ids : e = idxEntry /\ e = Behind(0) /\ entries[e].value = NoBlock
  BY <1>1, <1>2, <1>4 DEF RingInv, StepInv
<1>6. b \in 1..SubBlocks /\ b # NoBlock
  BY SubQueueAssumption DEF SubTypeOK, NoBlock
<1>7. /\ Len(entries') = Len(entries) /\ Ids' = Ids /\ entries'[e].value = b
      /\ \A x \in Ids : entries'[x].key = entries[x].key /\ Num(x)' = Num(x) /\ (Whole(x)' <=> Whole(x))
      /\ \A x \in Ids : x # e => entries'[x] = entries[x]
  BY <1>5, ValueSet
<1>8. InUse' = InUse \cup {e} /\ e \notin InUse
  BY <1>5, <1>6, <1>7 DEF InUse
<1>9. /\ Header' = Header /\ Cap' = Cap /\ Reach' = Reach /\ \A n : Behind(n)' = Behind(n)
  BY <1>2 DEF Header, Cap, Reach, Behind
<1>10. Whole(e) /\ Num(e) = Numbers - 1
  BY <1>3, <1>5 DEF RingInv, PlacesInv
<1>11. entries[e].key = items
  <2>1. items % BLOCK_SIZE = 0
    BY <1>2 DEF RingInv, StepInv
  <2>2. entries[e].key \in Nat /\ entries[e].key % BLOCK_SIZE = 0
        /\ entries[e].key \div BLOCK_SIZE = items \div BLOCK_SIZE
    BY EntriesType, <1>3, <1>10 DEF Num, Whole
  <2> QED
    BY <2>1, <2>2, <1>3, BlockSize, WholeOrder
<1>12. HeadersInv'
  BY <1>2, <1>7 DEF RingInv, HeadersInv, HeaderInv
<1>13. KeysInv'
  BY <1>2, <1>7 DEF RingInv, KeysInv
<1>14. ASSUME NEW n \in Reach PROVE OrderInv(n)'
  <2>1. CASE n = 0
    <3>1. Behind(n)' = e /\ entries[e].key # NoKey
      BY <2>1, <1>5, <1>9, <1>10, NoKeyNotWhole
    <3>2. Num(e)' + n < Numbers' /\ Num(e)' + n + 1 = Numbers' /\ Whole(e)'
      BY <2>1, <1>3, <1>7, <1>10
    <3> QED
      BY <3>1, <3>2, <1>7 DEF OrderInv, Num, Whole
  <2>2. CASE n # 0
    <3>1. PICK x \in Ids : x = Behind(n) /\ x # e
      BY <2>2, <1>1, <1>4, <1>5 DEF RingInv, PlacesInv
    <3>2. Behind(n)' = x /\ entries'[x] = entries[x] /\ (x \in InUse' <=> x \in InUse)
      BY <3>1, <1>7, <1>8, <1>9
    <3> QED
      BY <3>1, <3>2, <1>3, <1>9 DEF OrderInv, Num, Whole, RingInv, PlacesInv
  <2> QED
    BY <2>1, <2>2
<1>15. Whole(Behind(0))' /\ Num(Behind(0))' = Numbers' - 1
  BY <1>3, <1>5, <1>7, <1>9, <1>10 DEF Num, Whole
<1>16. ASSUME NEW x \in InUse' PROVE Num(x)' < Got' /\ \E n \in Reach : x = Behind(n)
  <2>1. CASE x = e
    BY <2>1, <1>1, <1>3, <1>5, <1>7, <1>10
  <2>2. CASE x \in InUse
    <3>1. x \in Ids
      BY <2>2 DEF InUse
    <3>2. Num(x) < Got /\ \E n \in Reach : x = Behind(n)
      BY <2>2 DEF RingInv, PlacesInv
    <3>3. Num(x) \in Nat
      BY <3>1, EntriesType
    <3>4. Num(x)' < Got'
      BY <3>1, <3>2, <3>3, <1>3, <1>7
    <3> QED
      BY <3>2, <3>4
  <2> QED
    BY <2>1, <2>2, <1>8
<1>17. PlacesInv'
  BY <1>9, <1>14, <1>15, <1>16 DEF PlacesInv, RingInv
<1>18. StepInv'
  BY <1>2 DEF RingInv, StepInv
<1>19. Kept
  <2>1. \A x \in InUse : entries'[x] = entries[x] /\ x \in InUse'
    BY <1>7, <1>8 DEF InUse
  <2> QED
    BY <2>1, <1>2, <1>7, HeaderIs DEF Kept, RingInv
<1> QED
  BY <1>3, <1>5, <1>6, <1>7, <1>8, <1>10, <1>11, <1>12, <1>13, <1>17, <1>18, <1>19 DEF RingInv

\* The key of the next block, wherever it goes; or no memory for a larger index.
LEMMA InsertRing ==
    ASSUME SubTypeOK, CountsInv, RingInv, InsertEntry
    PROVE  RingInv' /\ InUse' = InUse /\ Kept /\ Got' = Got
<1>1. UNCHANGED items /\ ppc = "insert" /\ tailIndex = items
  BY DEF InsertEntry, CountsInv
<1>2. PICK e \in Ids : e = NextEntry(Header) /\ e = Behind(Cap - 1) /\ OrderInv(Cap - 1)
  BY NextIsOldest, HeaderIs DEF RingInv, PlacesInv
<1>3. Got' = Got
  BY StepsKeepNumbers
<1>4. CASE /\ entries[e].key = NoKey \/ entries[e].value = NoBlock
           /\ entries' = [entries EXCEPT ![e].key = tailIndex]
           /\ KeyInto(e) /\ UNCHANGED headers
  <2>1. entries[e].value = NoBlock
    BY <1>2, <1>4 DEF OrderInv
  <2>2. idxEntry' = e /\ ppc' = "advance" /\ UNCHANGED headers /\ entries' = [entries EXCEPT ![e].key = items]
    BY <1>1, <1>4 DEF KeyInto
  <2> QED
    BY <2>1, <2>2, <1>1, <1>2, <1>3, InsertHere
<1>5. CASE /\ entries[e].key # NoKey /\ entries[e].value # NoBlock
           /\ headers' = Append(headers, Grown(Header))
           /\ entries' = [entries \o Unused(Header) EXCEPT ![Len(entries) + 1].key = tailIndex]
           /\ KeyInto(Len(entries) + 1)
  <2>1. Behind(Cap - 1) \in InUse
    BY <1>2, <1>5 DEF InUse
  <2>2. /\ idxEntry' = Len(entries) + 1 /\ ppc' = "advance"
        /\ entries' = [entries \o Unused(Header) EXCEPT ![Len(entries) + 1].key = items]
    BY <1>1, <1>5 DEF KeyInto
  <2> QED
    BY <2>1, <2>2, <1>1, <1>3, <1>5, InsertGrown
<1>6. CASE ppc' = "idle" /\ UNCHANGED <<headers, entries, idxEntry>>
  <2>1. Numbers' = Numbers /\ items' \in Nat /\ items <= items'
    BY StepsKeepNumbers, <1>1, NumbersType
  <2>2. HeadersInv' /\ KeysInv' /\ PlacesInv' /\ InUse' = InUse
    BY <2>1, <1>3, <1>6, RingSame
  <2>3. StepInv'
    BY <1>6 DEF StepInv
  <2>4. Kept
    BY <1>6, <2>2, HeaderIs DEF Kept, RingInv
  <2> QED
    BY <2>2, <2>3, <2>4, <1>3 DEF RingInv
<1> QED
  BY <1>2, <1>4, <1>5, <1>6 DEF InsertEntry

\* The steps of the producer that leave the ring alone.
LEMMA CalmRing ==
    ASSUME SubTypeOK, CountsInv, RingInv,
           EnqueueInBlock \/ EnqueueNewBlock \/ ConstructFirst \/ Publish
    PROVE  RingInv' /\ InUse' = InUse /\ Kept /\ Got' = Got
<1>1. UNCHANGED <<headers, entries>> /\ items' \in Nat /\ items <= items'
  BY NumbersType DEF EnqueueInBlock, EnqueueNewBlock, ConstructFirst, Publish, ringVars
<1>2. Numbers' = Numbers /\ Got' = Got
  BY StepsKeepNumbers
<1>3. HeadersInv' /\ KeysInv' /\ PlacesInv' /\ InUse' = InUse
  BY <1>1, <1>2, RingSame
<1>4. StepInv'
  <2>1. tailIndex = items
    BY DEF CountsInv
  <2> QED
    BY <2>1 DEF RingInv, StepInv, EnqueueInBlock, EnqueueNewBlock, ConstructFirst, Publish, Construct
<1>5. Kept
  BY <1>1, <1>3, HeaderIs DEF Kept, RingInv
<1> QED
  BY <1>2, <1>3, <1>4, <1>5 DEF RingInv

\* A step of a dequeuer that leaves the entries alone, or the destructor.
LEMMA QuietRing ==
    ASSUME SubTypeOK, RingInv, UNCHANGED <<headers, entries, items, ppc, idxEntry>>
    PROVE  RingInv' /\ InUse' = InUse /\ Kept /\ Got' = Got
<1>1. Numbers' = Numbers /\ Got' = Got
  BY DEF Numbers, Got
<1>2. HeadersInv' /\ KeysInv' /\ PlacesInv' /\ InUse' = InUse
        /\ Cap' = Cap /\ \A n : Behind(n)' = Behind(n)
  BY <1>1, NumbersType, RingSame
<1>3. StepInv'
  BY <1>1, <1>2 DEF RingInv, StepInv, Num, Whole
<1>4. Kept
  BY <1>2, HeaderIs DEF Kept, RingInv
<1> QED
  BY <1>1, <1>2, <1>3, <1>4 DEF RingInv

-----------------------------------------------------------------------------
\* The blocks.  An index is open while its item has not been taken: nobody has the
\* index yet, or a dequeuer has it and is on its way to the item.  A block in use
\* has every open item that was put into it, and counts what is no longer open,
\* but for the dequeuers that have taken an item and not yet said so.

HolderPCs == {"header", "slot", "find", "take"}
Held(i) == \E d \in Eaters : epc[d] \in HolderPCs /\ eat[d].index = i
Open(i) == i >= headIndex \/ Held(i)
OpenIn(k) == {i \in k..(k + BLOCK_SIZE - 1) : Open(i)}
Emptying(b) == {d \in Eaters : epc[d] = "empty" /\ eat[d].block = b}
Filled(i) == i < items \/ (i = items /\ ppc = "publish")
HasItems(b, k) == \A i \in k..(k + BLOCK_SIZE - 1) :
                     Open(i) /\ Filled(i) => content[b][i % BLOCK_SIZE] = i + 1
HasCount(b, k) == emptied[b] + Cardinality(Emptying(b)) + Cardinality(OpenIn(k)) = BLOCK_SIZE
Clears(d, b) == epc[d] = "clear" /\ eat[d].block = b
Frees(d, b) == epc[d] = "free" /\ eat[d].block = b
BlockInv(x) == \A b \in {entries[x].value}, k \in {entries[x].key} :
    /\ HasItems(b, k) /\ HasCount(b, k)
    /\ emptied[b] = BLOCK_SIZE => \E d \in Eaters : Clears(d, b)
    /\ Num(x) + 1 = Got => b = tailBlock
OpenInv == \A i \in Nat : Open(i) /\ i \div BLOCK_SIZE < Got =>
              \E x \in InUse : entries[x].key = Base(i)
PlacedInv == ~gone =>
    /\ \A x \in InUse : entries[x].value \notin freeBlocks
    /\ \A b \in 1..SubBlocks : \/ b \in freeBlocks
                               \/ \E x \in InUse : entries[x].value = b
                               \/ \E d \in Eaters : Frees(d, b)
BlocksInv ==
    /\ \A x, y \in InUse : entries[x].value = entries[y].value => x = y
    /\ \A x \in InUse : BlockInv(x)
    /\ OpenInv /\ PlacedInv

\* The dequeuers.  One that has read a block index and its tail will find the entry
\* of its index from there: that entry is in use, and so far before the tail's as
\* their keys say.
Sees(j, p, i) ==
    /\ j \in 1..Len(headers) /\ p \in 0..(Capacity(headers[j]) - 1)
    /\ Whole(headers[j].index[p + 1]) /\ Base(i) <= entries[headers[j].index[p + 1]].key
    /\ \E n \in 0..(Capacity(headers[j]) - 1) :
          /\ n = (entries[headers[j].index[p + 1]].key - Base(i)) \div BLOCK_SIZE
          /\ BackFrom(headers[j], p, n) \in InUse
          /\ entries[BackFrom(headers[j], p, n)].key = Base(i)
SeesInv(d) == \A j \in {eat[d].header}, i \in {eat[d].index} :
    /\ epc[d] = "slot" => \A p \in {headers[j].tail} : Sees(j, p, i)
    /\ epc[d] = "find" => \A p \in {eat[d].at} : Sees(j, p, i)
PlaceInv(d) ==
    /\ epc[d] \in HolderPCs => eat[d].index < headIndex
    /\ epc[d] = "take" => eat[d].entry \in InUse /\ entries[eat[d].entry].key = Base(eat[d].index)
    /\ epc[d] \in {"empty", "clear"} => /\ eat[d].entry \in InUse
                                        /\ entries[eat[d].entry].value = eat[d].block
    /\ epc[d] = "clear" => emptied[eat[d].block] = BLOCK_SIZE
    /\ epc[d] = "free" => /\ eat[d].block \in 1..SubBlocks /\ eat[d].block \notin freeBlocks
                          /\ \A x \in InUse : entries[x].value # eat[d].block
Apart(d, e) ==
    /\ epc[d] \in HolderPCs /\ epc[e] \in HolderPCs => eat[d].index # eat[e].index
    /\ epc[d] = "clear" /\ epc[e] = "clear" => eat[d].block # eat[e].block
    /\ epc[d] = "free" /\ epc[e] = "free" => eat[d].block # eat[e].block
EatersInv ==
    /\ \A d \in Eaters : SeesInv(d) /\ PlaceInv(d)
    /\ \A d, e \in Eaters : d # e => Apart(d, e)
EatenInv == \A n \in 1..MaxItems : eaten[n] = IF Open(n - 1) THEN 0 ELSE 1
GoneInv == gone => Resting /\ freeBlocks = 1..SubBlocks /\ PassedBlocks \cap LastBlock = {}
SubInv == CountsInv /\ RingInv /\ BlocksInv /\ EatersInv /\ EatenInv /\ GoneInv

\* Two entries in use have different keys.
LEMMA KeysApart ==
    ASSUME SubTypeOK, RingInv, NEW x \in InUse, NEW y \in InUse, entries[x].key = entries[y].key
    PROVE  x = y
<1>1. PICK m \in Reach : x = Behind(m) /\ Num(x) + m + 1 = Numbers
  BY DEF RingInv, PlacesInv, OrderInv
<1>2. PICK n \in Reach : y = Behind(n) /\ Num(y) + n + 1 = Numbers
  BY DEF RingInv, PlacesInv, OrderInv
<1>3. Num(x) = Num(y) /\ Num(x) \in Nat /\ Num(y) \in Nat
  BY EntriesType DEF InUse, Num
<1>4. m \in Nat /\ n \in Nat /\ Numbers \in Nat
  BY HeaderIs, NumbersType DEF RingInv, Reach
<1>5. m = n
  BY <1>1, <1>2, <1>3, <1>4
<1> QED
  BY <1>1, <1>2, <1>5

\* An entry in use has a key that is the first index of a block, and a block.
LEMMA InUseIs ==
    ASSUME SubTypeOK, RingInv, NEW x \in InUse
    PROVE  /\ x \in Ids /\ Whole(x) /\ entries[x].key \in Nat /\ entries[x].value \in 1..SubBlocks
           /\ Num(x) < Got /\ Num(x) \in Nat /\ entries[x].key % BLOCK_SIZE = 0
<1>1. x \in Ids /\ entries[x].value # NoBlock
  BY DEF InUse
<1>2. PICK m \in Reach : x = Behind(m) /\ Whole(x) /\ Num(x) < Got
  BY DEF RingInv, PlacesInv, OrderInv
<1>3. entries[x].key \in Nat /\ entries[x].value \in 0..SubBlocks /\ Num(x) \in Nat
  BY <1>1, EntriesType
<1>4. entries[x].value \in 1..SubBlocks
  BY <1>1, <1>3, SubQueueAssumption DEF NoBlock
<1> QED
  BY <1>1, <1>2, <1>3, <1>4 DEF Whole

\* The first index of the block of an index.
LEMMA BaseOf ==
    ASSUME NEW i \in Nat
    PROVE  /\ Base(i) \in Nat /\ Base(i) % BLOCK_SIZE = 0 /\ Base(i) \div BLOCK_SIZE = i \div BLOCK_SIZE
           /\ Base(i) <= i /\ i <= Base(i) + BLOCK_SIZE - 1 /\ i \in Base(i)..(Base(i) + BLOCK_SIZE - 1)
           /\ i \div BLOCK_SIZE \in Nat /\ i % BLOCK_SIZE \in 0..(BLOCK_SIZE - 1)
           /\ \A k \in Nat : k % BLOCK_SIZE = 0 /\ i \in k..(k + BLOCK_SIZE - 1) => k = Base(i)
<1>1. /\ Base(i) \in Nat /\ Base(i) % BLOCK_SIZE = 0 /\ Base(i) \div BLOCK_SIZE = i \div BLOCK_SIZE
      /\ Base(i) <= i /\ i < Base(i) + BLOCK_SIZE
  <2>1. PICK z \in Nat : z % BLOCK_SIZE = 0
    BY BlockSize, ModSmall
  <2> QED
    BY <2>1, BlockSize, BaseIs DEF Base
<1>2. i \div BLOCK_SIZE \in Nat /\ i % BLOCK_SIZE \in 0..(BLOCK_SIZE - 1)
  BY BlockSize, DivMod
<1>3. ASSUME NEW k \in Nat, k % BLOCK_SIZE = 0, i \in k..(k + BLOCK_SIZE - 1) PROVE k = Base(i)
  <2>1. k <= i /\ i < k + BLOCK_SIZE
    BY <1>3, BlockSize
  <2> QED
    BY <2>1, <1>3, BlockSize, BaseIs DEF Base
<1>4. i <= Base(i) + BLOCK_SIZE - 1 /\ i \in Base(i)..(Base(i) + BLOCK_SIZE - 1)
  BY <1>1, BlockSize
<1> QED
  BY <1>1, <1>2, <1>3, <1>4

\* Two indexes in one block that have one slot are one.
LEMMA SlotsApart ==
    ASSUME NEW i \in Nat, NEW j \in Nat, Base(i) = Base(j), i % BLOCK_SIZE = j % BLOCK_SIZE
    PROVE  i = j
<1>1. PICK r \in Nat : r = i % BLOCK_SIZE /\ r = j % BLOCK_SIZE
  <2>1. i % BLOCK_SIZE \in 0..(BLOCK_SIZE - 1)
    BY BaseOf
  <2>2. i % BLOCK_SIZE \in Nat
    BY <2>1, BlockSize
  <2> QED
    BY <2>2
<1>2. i - r = j - r
  BY <1>1 DEF Base
<1> QED
  BY <1>1, <1>2

\* The cardinalities that a block's count is made of.
LEMMA CountOf ==
    ASSUME SubTypeOK, NEW b, NEW k \in Nat
    PROVE  /\ IsFiniteSet(Emptying(b)) /\ Cardinality(Emptying(b)) \in Nat
           /\ IsFiniteSet(OpenIn(k)) /\ Cardinality(OpenIn(k)) \in Nat
           /\ (\A i \in k..(k + BLOCK_SIZE - 1) : Open(i)) => Cardinality(OpenIn(k)) = BLOCK_SIZE
<1>1. Emptying(b) \in SUBSET Eaters
  BY DEF Emptying
<1>2. IsFiniteSet(Emptying(b)) /\ Cardinality(Emptying(b)) \in Nat
  BY <1>1, EatersFinite
<1>3. PICK n \in Int : n = k + BLOCK_SIZE - 1 /\ k <= n /\ n - k + 1 = BLOCK_SIZE
  BY BlockSize
<1>4. IsFiniteSet(k..n) /\ Cardinality(k..n) = BLOCK_SIZE
  BY <1>3, FS_Interval
<1>5. OpenIn(k) \subseteq k..n
  BY <1>3 DEF OpenIn
<1>6. IsFiniteSet(OpenIn(k)) /\ Cardinality(OpenIn(k)) \in Nat
  BY <1>4, <1>5, FS_Subset, FS_CardinalityType
<1>7. ASSUME \A i \in k..(k + BLOCK_SIZE - 1) : Open(i) PROVE Cardinality(OpenIn(k)) = BLOCK_SIZE
  <2>1. OpenIn(k) = k..n
    BY <1>3, <1>7 DEF OpenIn
  <2> QED
    BY <2>1, <1>4
<1> QED
  BY <1>2, <1>6, <1>7

\* An item that was enqueued is in a block there is.
LEMMA ItemsGot ==
    ASSUME SubTypeOK, RingInv, NEW i \in Nat, i < items
    PROVE  i \div BLOCK_SIZE < Got
<1>1. items \in Nat /\ items \div BLOCK_SIZE \in Nat
  BY NumbersType
<1>0. PICK b \in Nat, n \in Nat : b = BLOCK_SIZE /\ b > 1 /\ n = items
  BY <1>1, BlockSize
<1>2. PICK q \in Nat, r \in Nat : q = n \div b /\ r = n % b /\ n = b * q + r /\ r < b
  BY <1>0, DivMod
<1>3. PICK u \in Nat, v \in Nat : u = i \div b /\ v = i % b /\ i = b * u + v /\ v < b
  BY <1>0, DivMod
<1>4. u < q \/ (u = q /\ r # 0)
  <2>1. SUFFICES ASSUME q <= u, ~(u = q /\ r # 0) PROVE FALSE
    BY <1>0, <1>2, <1>3
  <2>2. CASE u = q
    BY <2>1, <2>2, <1>0, <1>2, <1>3
  <2>3. CASE q + 1 <= u
    <3>1. b * q + b <= b * u
      BY <2>3, <1>0, <1>2
    <3> QED
      BY <3>1, <1>0, <1>2, <1>3
  <2> QED
    BY <2>1, <2>2, <2>3
<1>5. ppc = "block" => r = 0
  BY <1>0, <1>2 DEF RingInv, StepInv
<1>6. u < Got
  BY <1>0, <1>2, <1>4, <1>5 DEF Got, Numbers
<1> QED
  BY <1>0, <1>2, <1>3, <1>6

\* The number of blocks in the range of an index.
LEMMA RangeBlocks ==
    \E w \in Nat : w = Modulus \div BLOCK_SIZE /\ w > 0 /\ Modulus = BLOCK_SIZE * w
<1>1. Modulus % BLOCK_SIZE = 0 /\ Modulus \in Nat /\ Modulus > 0
  <2>1. Modulus \in Nat /\ Modulus % BLOCK_SIZE = 0
    BY SubQueueAssumption, DivideOne
  <2> QED
    BY <2>1, ModulusLarge
<1>2. Modulus = BLOCK_SIZE * (Modulus \div BLOCK_SIZE) /\ Modulus \div BLOCK_SIZE \in Nat
  BY <1>1, BlockSize, WholeIs
<1> QED
  BY <1>1, <1>2, BlockSize

\* A step back as an unsigned number, which is whole turns of the ring less n.
LEMMA StepBack ==
    ASSUME NEW c \in Nat, c > 1, (Modulus \div BLOCK_SIZE) % c = 0,
           NEW p \in 0..(c - 1), NEW n \in 0..(c - 1)
    PROVE  (p + ((Modulus \div BLOCK_SIZE) - n)) % c = PlaceBack(c, p, n)
<1>1. PICK w \in Nat : w = Modulus \div BLOCK_SIZE /\ w > 0 /\ w % c = 0
  BY RangeBlocks
<1>2. PICK v \in Nat : w = c * v
  BY <1>1, WholeIs
<1>3. v >= 1 /\ w >= c
  BY <1>1, <1>2
<1>4. PICK x \in Nat, y \in Nat, u \in Nat : x = p + c - n /\ y = p + (w - n) /\ u = v - 1
  BY <1>3
<1>5. y = x + c * u
  BY <1>4, <1>2
<1>6. y % c = x % c
  BY ZenonT(30), <1>5, ModTurns
<1> QED
  BY <1>6, <1>4, <1>1 DEF PlaceBack

\* The offset from a later block to an earlier one, as an unsigned number.
LEMMA OffsetIs ==
    ASSUME NEW x \in Nat, NEW y \in Nat, x % BLOCK_SIZE = 0, y % BLOCK_SIZE = 0, x < y, y < Modulus
    PROVE  Minus(x, y) \div BLOCK_SIZE = (Modulus \div BLOCK_SIZE) - ((y - x) \div BLOCK_SIZE)
<1>1. PICK b \in Nat, m \in Nat : b = BLOCK_SIZE /\ b > 1 /\ m = Modulus
  BY BlockSize, ModulusLarge
<1>2. PICK w \in Nat : w = m \div b /\ m = b * w
  BY <1>1, RangeBlocks
<1>3. PICK f \in Nat, g \in Nat : f = x \div b /\ x = b * f /\ g = y \div b /\ y = b * g
  BY <1>1, WholeIs
<1>4. f < g /\ g < w
  <2>1. b * f < b * g /\ b * g < b * w
    BY <1>1, <1>2, <1>3
  <2> QED
    BY <2>1, <1>1
<1>5. PICK n \in Nat, u \in Nat, z \in Nat, d \in Nat :
         n = g - f /\ u = w - n /\ z = x + m - y /\ d = y - x
  BY <1>1, <1>4
<1>6. d = b * n + 0 /\ z = b * u + 0
  BY <1>2, <1>3, <1>5
<1>7. d \div b = n /\ z \div b = u
  BY <1>1, <1>6, DivIs
<1>8. z % m = z
  BY <1>1, <1>5, ModSmall
<1> QED
  BY <1>1, <1>2, <1>5, <1>7, <1>8 DEF Minus

\* The block indexes there are, the old ones too.
LEMMA HeadersAre ==
    ASSUME SubTypeOK, RingInv, NEW j \in 1..Len(headers)
    PROVE  /\ HeaderInv(headers[j]) /\ Capacity(headers[j]) \in Nat /\ Capacity(headers[j]) > 1
           /\ headers[j].tail \in Nat /\ headers[j].tail \in 0..(Capacity(headers[j]) - 1)
           /\ \A n \in 1..Capacity(headers[j]) : headers[j].index[n] \in Ids
           /\ (Modulus \div BLOCK_SIZE) % Capacity(headers[j]) = 0
<1> DEFINE S == [tail : Nat, index : Seq(Nat)]
<1>1. headers \in Seq(S)
  BY DEF SubTypeOK
<1>2. headers[j] \in S
  <2> HIDE DEF S
  <2> QED
    BY <1>1, ElementOfSeq
<1>3. headers[j].tail \in Nat /\ Capacity(headers[j]) \in Nat
  BY <1>2 DEF Capacity
<1>4. HeaderInv(headers[j])
  BY DEF RingInv, HeadersInv
<1> QED
  BY <1>3, <1>4 DEF HeaderInv

\* From the tail of the current block index every entry in use is found.
LEMMA RingFinds ==
    ASSUME SubTypeOK, RingInv, NEW i \in Nat, NEW x \in InUse, entries[x].key = Base(i)
    PROVE  Sees(Len(headers), Header.tail, i)
<1>1. PICK c \in Nat, t \in Nat, j \in Nat :
         /\ c = Cap /\ t = Header.tail /\ c > 1 /\ t \in 0..(c - 1) /\ Reach = 0..(c - 1)
         /\ j = Len(headers) /\ j \in 1..Len(headers) /\ Header = headers[j]
  BY HeaderIs DEF RingInv, Reach
<1>2. PICK n \in Reach : x = Behind(n) /\ Num(x) + n + 1 = Numbers /\ Num(x) < Got
  BY DEF RingInv, PlacesInv, OrderInv
<1>3. Num(x) \in Nat /\ Numbers \in Nat /\ n \in 0..(c - 1) /\ x \in Ids /\ Whole(x)
  BY <1>1, <1>2, InUseIs, NumbersType
<1>4. Numbers > 0
  BY <1>1, <1>2, <1>3
<1>5. PICK y \in Ids : y = Behind(0) /\ Whole(y) /\ Num(y) = Numbers - 1
  BY <1>1, <1>4, HeaderIs, NextIsOldest DEF RingInv, PlacesInv
<1>6. PlaceBack(c, t, 0) = t
  <2>1. PICK z \in 0..(c - 1) : z = 0
    BY <1>1
  <2>2. c > 1 /\ t \in 0..(c - 1)
    BY <1>1
  <2>3. PlaceBack(c, t, z) = IF z <= t THEN t - z ELSE t + c - z
    BY <2>2, PlaceBefore
  <2> QED
    BY <2>1, <2>2, <2>3
<1>7. y = Header.index[t + 1]
  BY <1>1, <1>5, <1>6 DEF Behind, BackFrom, Cap
<1>8. PICK b \in Nat, k \in Nat, l \in Nat :
         /\ b = BLOCK_SIZE /\ b > 1 /\ k = entries[y].key /\ l = entries[x].key
         /\ k % b = 0 /\ l % b = 0 /\ k \div b = Num(y) /\ l \div b = Num(x)
  BY <1>3, <1>5, BlockSize, EntriesType DEF Whole, Num
<1>9. l <= k
  <2>1. l \div b <= k \div b
    BY <1>1, <1>2, <1>3, <1>5, <1>8
  <2> QED
    BY <2>1, <1>8, WholeOrder
<1>10. (k - l) \div b = n
  <2>1. b > 1 /\ k % b = 0 /\ l % b = 0 /\ l <= k
    BY <1>8, <1>9
  <2>2. (k - l) \div b = (k \div b) - (l \div b)
    BY <2>1, WholeOrder
  <2>3. k \div b = Numbers - 1 /\ l \div b = Num(x) /\ n \in Nat /\ Num(x) + n + 1 = Numbers
    BY <1>1, <1>2, <1>3, <1>5, <1>8
  <2> QED
    BY <2>2, <2>3, <1>3
<1>11. BackFrom(headers[j], t, n) = x /\ Capacity(headers[j]) = c
  BY <1>1, <1>2 DEF Behind, Cap
<1>12. Sees(j, t, i)
  BY <1>1, <1>3, <1>5, <1>7, <1>8, <1>9, <1>10, <1>11 DEF Sees
<1> QED
  BY <1>1, <1>12

\* What a dequeuer computes from what it has read is the entry of its index.
LookedUp(j, p, i) == headers[j].index[Wrapped(headers[j], p +
                        (Minus(Base(i), entries[headers[j].index[p + 1]].key) \div BLOCK_SIZE))]

\* That is, in use and with the key of its block.
LEMMA SeesFinds ==
    ASSUME SubTypeOK, CountsInv, RingInv, NEW j, NEW p, NEW i \in Nat, Sees(j, p, i)
    PROVE  LookedUp(j, p, i) \in InUse /\ entries[LookedUp(j, p, i)].key = Base(i)
<1>1. j \in 1..Len(headers)
  BY DEF Sees
<1>2. PICK c \in Nat : /\ c = Capacity(headers[j]) /\ c > 1 /\ (Modulus \div BLOCK_SIZE) % c = 0
                       /\ \A m \in 1..c : headers[j].index[m] \in Ids
  BY SMTT(30), <1>1, HeadersAre
<1>3. p \in 0..(c - 1)
  BY SMTT(30), <1>2 DEF Sees
<1>4. PICK y \in Ids : y = headers[j].index[p + 1] /\ Whole(y) /\ Base(i) <= entries[y].key
  BY SMTT(30), <1>2, <1>3 DEF Sees
<1>5. PICK n \in 0..(c - 1) : /\ n = (entries[y].key - Base(i)) \div BLOCK_SIZE
                              /\ BackFrom(headers[j], p, n) \in InUse
                              /\ entries[BackFrom(headers[j], p, n)].key = Base(i)
  BY <1>2, <1>4 DEF Sees
<1>6. PICK b \in Nat, k \in Nat, l \in Nat, m \in Nat :
         /\ b = BLOCK_SIZE /\ b > 1 /\ k = entries[y].key /\ l = Base(i) /\ m = Modulus
         /\ k % b = 0 /\ l % b = 0 /\ l <= k /\ k <= items
  <2>1. entries[y].key \in Nat /\ entries[y].key <= items
    BY EntriesType, KeyNumbers, <1>4
  <2>2. Base(i) \in Nat /\ Base(i) % BLOCK_SIZE = 0
    BY BaseOf
  <2> QED
    BY <2>1, <2>2, <1>4, BlockSize, ModulusLarge DEF Whole
<1>7. k < m /\ m > 0 /\ m % b = 0
  <2>1. items \in Nat /\ items < Modulus
    BY CountsSmall, ModulusLarge, NumbersType
  <2>2. Modulus % BLOCK_SIZE = 0
    BY SubQueueAssumption, DivideOne
  <2> QED
    BY <1>6, <2>1, <2>2
<1>8. PICK o : o = Minus(Base(i), entries[y].key) \div BLOCK_SIZE
  OBVIOUS
<1>9. o = ((l + m - k) % m) \div b
  BY <1>6, <1>8 DEF Minus
<1>10. (p + o) % c = PlaceBack(c, p, n)
  <2>1. CASE l = k
    <3>1. m % m = 0
      BY <1>7
    <3>2. l + m - k = m
      BY <2>1, <1>6
    <3>3. o = 0
      <4>1. o = 0 \div b
        BY <3>1, <3>2, <1>9
      <4> QED
        BY <4>1, <1>6
    <3>4. n = 0
      <4>1. n = 0 \div b
        BY <2>1, <1>5, <1>6
      <4> QED
        BY <4>1, <1>6
    <3>5. PICK s \in Nat : s = p + o /\ s = p
      BY <3>3, <1>3, <1>2
    <3>6. s % c = s
      BY <3>5, <1>2, <1>3, ModSmall
    <3>7. PICK z \in 0..(c - 1) : z = n
      OBVIOUS
    <3>8. PlaceBack(c, p, z) = p
      BY <3>4, <3>7, <1>2, <1>3, PlaceBefore
    <3> QED
      BY <3>5, <3>6, <3>7, <3>8
  <2>2. CASE l < k
    <3>1. l % BLOCK_SIZE = 0 /\ k % BLOCK_SIZE = 0 /\ l < k /\ k < Modulus
      BY <2>2, <1>6, <1>7
    <3>2. Minus(l, k) \div BLOCK_SIZE = (Modulus \div BLOCK_SIZE) - ((k - l) \div BLOCK_SIZE)
      BY <3>1, OffsetIs
    <3>3. o = (Modulus \div BLOCK_SIZE) - n
      BY <3>2, <1>5, <1>6, <1>8
    <3>4. (p + ((Modulus \div BLOCK_SIZE) - n)) % c = PlaceBack(c, p, n)
      BY SMTT(30), <1>2, <1>3, StepBack
    <3> QED
      BY <3>3, <3>4
  <2> QED
    BY <2>1, <2>2, <1>6
<1>11. LookedUp(j, p, i) = BackFrom(headers[j], p, n)
  BY <1>2, <1>4, <1>8, <1>10 DEF BackFrom, Wrapped, LookedUp
<1> QED
  BY <1>5, <1>11

\* What a dequeuer has read stays good while the entry of its index does, and the
\* key it goes by.
LEMMA SeesKept ==
    ASSUME SubTypeOK, RingInv, NEW j, NEW p, NEW i, Sees(j, p, i), j \in 1..Len(headers'),
           headers'[j].index = headers[j].index,
           \A x \in Ids : Whole(x) /\ Base(i) <= entries[x].key => entries'[x].key = entries[x].key,
           \A x \in InUse : entries[x].key = Base(i) => x \in InUse' /\ entries'[x].key = entries[x].key
    PROVE  Sees(j, p, i)' /\ \E x \in InUse' : entries'[x].key = Base(i)
<1>1. j \in 1..Len(headers)
  BY DEF Sees
<1>2. PICK c \in Nat : /\ c = Capacity(headers[j]) /\ c > 1 /\ c = Capacity(headers'[j])
                       /\ \A m \in 1..c : headers[j].index[m] \in Ids
  BY SMTT(30), <1>1, HeadersAre DEF Capacity
<1>3. p \in 0..(c - 1)
  BY SMTT(30), <1>2 DEF Sees
<1>4. PICK y \in Ids : y = headers[j].index[p + 1] /\ Whole(y) /\ Base(i) <= entries[y].key
  BY SMTT(30), <1>2, <1>3 DEF Sees
<1>5. PICK n \in 0..(c - 1) : /\ n = (entries[y].key - Base(i)) \div BLOCK_SIZE
                              /\ BackFrom(headers[j], p, n) \in InUse
                              /\ entries[BackFrom(headers[j], p, n)].key = Base(i)
  BY ZenonT(30), <1>2, <1>4 DEF Sees
<1>6. entries'[y].key = entries[y].key /\ Whole(y)' /\ y = headers'[j].index[p + 1]
  BY <1>4 DEF Whole
<1>7. BackFrom(headers[j], p, n)' = BackFrom(headers[j], p, n)
  BY <1>2 DEF BackFrom
<1>8. PICK x \in InUse' : x = BackFrom(headers[j], p, n)' /\ entries'[x].key = Base(i)
  BY <1>5, <1>7
<1>9. Sees(j, p, i)'
  BY ZenonT(30), <1>2, <1>3, <1>4, <1>5, <1>6, <1>8 DEF Sees
<1> QED
  BY SMTT(30), <1>8, <1>9

\* So it is after a step, too.
TailSees == \A j \in {Len(headers)}, p \in {Header.tail}, i \in Nat :
               (\E x \in InUse : entries[x].key = Base(i)) => Sees(j, p, i)

\* From the tail there is, whichever block index it is in.
LEMMA TailFinds == SubTypeOK /\ RingInv => TailSees
  BY RingFinds DEF TailSees

\* A dequeuer that looks for its entry keeps what it needs for that, if the step
\* leaves it the entry and the keys of the later ones.
IndexesKept ==
    /\ \A j \in 1..Len(headers) : j \in 1..Len(headers') /\ headers'[j].index = headers[j].index
    /\ \A j \in 1..Len(headers) : j # Len(headers') => headers'[j] = headers[j]
KeysKept(i) ==
    /\ \A x \in Ids : Whole(x) /\ Base(i) <= entries[x].key => entries'[x].key = entries[x].key
    /\ \A x \in InUse : entries[x].key = Base(i) => x \in InUse' /\ entries'[x].key = entries[x].key

\* That is, it still finds the entry of its index.
LEMMA SeesInvKept ==
    ASSUME SubTypeOK, RingInv, SubTypeOK', RingInv', NEW d \in Eaters, SeesInv(d),
           epc'[d] = epc[d], eat'[d] = eat[d], IndexesKept,
           \A i \in {eat[d].index} : epc[d] \in {"slot", "find"} => KeysKept(i)
    PROVE  SeesInv(d)'
<1>1. PICK i \in Nat, j \in Nat : i = eat[d].index /\ j = eat[d].header /\ i = eat'[d].index /\ j = eat'[d].header
  BY LocalsType
<1>2. ASSUME epc[d] = "find" PROVE \A p \in {eat'[d].at} : Sees(j, p, i)'
  <2>1. PICK p : p = eat[d].at /\ p = eat'[d].at
    OBVIOUS
  <2>2. Sees(j, p, i)
    BY SMTT(30), <1>1, <1>2, <2>1 DEF SeesInv
  <2>3. j \in 1..Len(headers') /\ headers'[j].index = headers[j].index
    BY <2>2 DEF Sees, IndexesKept
  <2>4. Sees(j, p, i)'
    BY <2>2, <2>3, <1>1, <1>2, SeesKept DEF KeysKept
  <2> QED
    BY <2>1, <2>4
<1>3. ASSUME epc[d] = "slot" PROVE \A p \in {headers'[j].tail} : Sees(j, p, i)'
  <2>1. PICK p : p = headers[j].tail
    OBVIOUS
  <2>2. Sees(j, p, i)
    BY SMTT(30), <1>1, <1>3, <2>1 DEF SeesInv
  <2>3. j \in 1..Len(headers') /\ j \in 1..Len(headers) /\ headers'[j].index = headers[j].index
    BY <2>2 DEF Sees, IndexesKept
  <2>4. Sees(j, p, i)' /\ \E x \in InUse' : entries'[x].key = Base(i)
    BY <2>2, <2>3, <1>1, <1>3, SeesKept DEF KeysKept
  <2>5. CASE j # Len(headers')
    <3>1. headers'[j] = headers[j]
      BY <2>3, <2>5 DEF IndexesKept
    <3> QED
      BY <3>1, <2>1, <2>4
  <2>6. CASE j = Len(headers')
    <3>1. (SubTypeOK /\ RingInv => TailSees)'
      BY TailFinds, PTL
    <3>2. \A k \in {Len(headers')}, q \in {Header'.tail}, m \in Nat :
             (\E x \in InUse' : entries'[x].key = Base(m)) => Sees(k, q, m)'
      BY <3>1 DEF TailSees
    <3>3. Header'.tail = headers'[j].tail
      BY <2>6 DEF Header
    <3> QED
      BY <3>2, <3>3, <2>4, <2>6
  <2> QED
    BY <2>5, <2>6
<1> QED
  BY <1>1, <1>2, <1>3 DEF SeesInv

\* What the producer leaves is enough.
LEMMA KeptIsEnough ==
    ASSUME SubTypeOK, RingInv, NEW d \in Eaters, SeesInv(d), Kept
    PROVE  IndexesKept /\ \A i \in {eat[d].index} : epc[d] \in {"slot", "find"} => KeysKept(i)
<1>1. IndexesKept
  BY DEF Kept, IndexesKept
<1>2. ASSUME NEW i \in {eat[d].index}, epc[d] \in {"slot", "find"} PROVE KeysKept(i)
  <2>1. PICK j, p : Sees(j, p, i)
    BY SMTT(30), <1>2 DEF SeesInv
  <2>2. PICK y \in InUse : entries[y].key = Base(i)
    BY <2>1 DEF Sees
  <2> QED
    BY <2>2 DEF Kept, KeysKept
<1> QED
  BY <1>1, <1>2

\* A step that leaves the dequeuers on their way alone.
LatePCs == {"header", "slot", "find", "take", "empty", "clear", "free"}
LateSame == \A d \in Eaters : epc[d] \in LatePCs \/ epc'[d] \in LatePCs
                                 => epc'[d] = epc[d] /\ eat'[d] = eat[d]
OpenSame == \A i \in Nat : Open(i)' <=> Open(i)
BusySame == /\ \A b : Emptying(b)' = Emptying(b)
            /\ \A d \in Eaters : \A b : (Clears(d, b)' <=> Clears(d, b)) /\ (Frees(d, b)' <=> Frees(d, b))

\* Then the same indexes are open, and the same blocks being emptied.
LEMMA LateIsSame ==
    ASSUME LateSame, UNCHANGED headIndex
    PROVE  OpenSame /\ BusySame
<1>1. OpenSame
  BY DEF LateSame, OpenSame, Open, Held, LatePCs, HolderPCs
<1>2. \A b : Emptying(b)' = Emptying(b)
  BY DEF LateSame, Emptying, LatePCs
<1>3. \A d \in Eaters : \A b : (Clears(d, b)' <=> Clears(d, b)) /\ (Frees(d, b)' <=> Frees(d, b))
  BY DEF LateSame, Clears, Frees, LatePCs
<1> QED
  BY <1>1, <1>2, <1>3 DEF BusySame

\* The blocks are as they were.
LEMMA BlocksFrame ==
    ASSUME SubTypeOK, RingInv, BlocksInv, InUse' = InUse, \A x \in InUse : entries'[x] = entries[x],
           Got' = Got, OpenSame, BusySame, \A i \in Nat : Filled(i)' <=> Filled(i),
           UNCHANGED <<content, emptied, freeBlocks, tailBlock, gone>>
    PROVE  BlocksInv'
<1>1. \A x, y \in InUse : entries'[x].value = entries'[y].value => x = y
  BY DEF BlocksInv
<1>2. ASSUME NEW x \in InUse PROVE BlockInv(x)'
  <2>1. PICK b, k : b = entries[x].value /\ k = entries[x].key /\ k \in Nat
    BY InUseIs
  <2>2. b = entries'[x].value /\ k = entries'[x].key
    BY <2>1
  <2>3. HasItems(b, k) /\ HasCount(b, k) /\ (emptied[b] = BLOCK_SIZE => \E d \in Eaters : Clears(d, b))
        /\ (Num(x) + 1 = Got => b = tailBlock)
    BY <2>1 DEF BlocksInv, BlockInv
  <2>4. HasItems(b, k)'
    <3>1. \A i \in k..(k + BLOCK_SIZE - 1) : i \in Nat
      BY <2>1, BlockSize
    <3> QED
      BY <3>1, <2>3 DEF HasItems, OpenSame
  <2>5. HasCount(b, k)'
    <3>1. \A i \in k..(k + BLOCK_SIZE - 1) : i \in Nat
      BY <2>1, BlockSize
    <3>2. OpenIn(k)' = OpenIn(k)
      BY <3>1 DEF OpenIn, OpenSame
    <3> QED
      BY <3>2, <2>3 DEF HasCount, BusySame
  <2>6. emptied'[b] = BLOCK_SIZE => \E d \in Eaters : Clears(d, b)'
    BY <2>3 DEF BusySame
  <2>7. Num(x)' + 1 = Got' => b = tailBlock'
    BY <2>3 DEF Num
  <2> QED
    BY <2>2, <2>4, <2>5, <2>6, <2>7 DEF BlockInv
<1>3. OpenInv'
  BY DEF BlocksInv, OpenInv, OpenSame
<1>4. PlacedInv'
  BY DEF BlocksInv, PlacedInv, BusySame
<1> QED
  BY <1>1, <1>2, <1>3, <1>4 DEF BlocksInv

\* And so is what came out.
LEMMA EatenFrame ==
    ASSUME EatenInv, OpenSame, UNCHANGED eaten
    PROVE  EatenInv'
<1>1. \A n \in 1..MaxItems : n - 1 \in Nat
  BY SubQueueAssumption
<1> QED
  BY <1>1 DEF EatenInv, OpenSame

\* The places of the dequeuers that a step leaves alone.
LEMMA PlaceFrame ==
    ASSUME SubTypeOK, NEW d \in Eaters, PlaceInv(d), epc'[d] = epc[d], eat'[d] = eat[d], headIndex' \in Nat,
           headIndex <= headIndex',
           epc[d] \in {"take", "empty", "clear"} =>
              /\ eat[d].entry \in InUse => eat[d].entry \in InUse'
              /\ entries'[eat[d].entry] = entries[eat[d].entry],
           epc[d] = "clear" => emptied'[eat[d].block] = emptied[eat[d].block],
           epc[d] = "free" =>
              /\ eat[d].block \notin freeBlocks'
              /\ \A x \in InUse' : entries'[x].value # eat[d].block
    PROVE  PlaceInv(d)'
<1>1. epc[d] \in HolderPCs => eat[d].index < headIndex'
  <2>1. eat[d].index \in Nat /\ headIndex \in Nat
    BY LocalsType DEF SubTypeOK
  <2> QED
    BY <2>1 DEF PlaceInv
<1> QED
  BY <1>1 DEF PlaceInv

\* A step of the producer, or of a dequeuer that has no index yet, that takes no
\* block and puts no item.
LEMMA QuietStep ==
    ASSUME SubTypeOK, RingInv, SubTypeOK', RingInv', BlocksInv, EatersInv, EatenInv,
           LateSame, Kept, InUse' = InUse, Got' = Got, \A i \in Nat : Filled(i)' <=> Filled(i),
           UNCHANGED <<headIndex, content, emptied, freeBlocks, tailBlock, eaten, gone>>
    PROVE  BlocksInv' /\ EatersInv' /\ EatenInv'
<1>1. OpenSame /\ BusySame
  BY LateIsSame
<1>2. \A x \in InUse : entries'[x] = entries[x]
  BY DEF Kept
<1>3. BlocksInv'
  BY <1>1, <1>2, BlocksFrame
<1>4. EatenInv'
  BY <1>1, EatenFrame
<1>5. ASSUME NEW d \in Eaters PROVE SeesInv(d)' /\ PlaceInv(d)'
  <2>1. SeesInv(d) /\ PlaceInv(d)
    BY DEF EatersInv
  <2>2. CASE epc[d] \in LatePCs
    <3>1. epc'[d] = epc[d] /\ eat'[d] = eat[d]
      BY <2>2 DEF LateSame
    <3>2. SeesInv(d)'
      BY <2>1, <3>1, KeptIsEnough, SeesInvKept
    <3>3. PlaceInv(d)'
      <4>1. headIndex' \in Nat /\ headIndex <= headIndex'
        BY DEF SubTypeOK
      <4>2. epc[d] \in {"take", "empty", "clear"} => eat[d].entry \in InUse
        BY <2>1 DEF PlaceInv
      <4>3. epc[d] = "free" => eat[d].block \notin freeBlocks' /\ \A x \in InUse' : entries'[x].value # eat[d].block
        BY <2>1, <1>2 DEF PlaceInv
      <4> QED
        BY <2>1, <3>1, <4>1, <4>2, <4>3, <1>2, PlaceFrame
    <3> QED
      BY <3>2, <3>3
  <2>3. CASE epc[d] \notin LatePCs
    <3>1. epc'[d] \notin LatePCs
      BY <2>3 DEF LateSame
    <3> QED
      BY <3>1 DEF SeesInv, PlaceInv, LatePCs, HolderPCs
  <2> QED
    BY <2>2, <2>3
<1>6. ASSUME NEW d \in Eaters, NEW e \in Eaters, d # e PROVE Apart(d, e)'
  <2>1. Apart(d, e)
    BY <1>6 DEF EatersInv
  <2> QED
    BY <2>1 DEF Apart, LateSame, LatePCs, HolderPCs
<1> QED
  BY <1>3, <1>4, <1>5, <1>6 DEF EatersInv

\* A dequeuer on its way to its entry takes a step.
LEMMA WalkStep ==
    ASSUME SubTypeOK, SubTypeOK', RingInv, BlocksInv, EatersInv, EatenInv, NEW d \in Eaters,
           NEW p \in HolderPCs, NEW l, Moved(d, p, l), epc[d] \in HolderPCs \cup {"head"},
           headIndex <= headIndex', OpenSame, UNCHANGED <<ringVars, producerVars, eaten, gone>>,
           SeesInv(d)', PlaceInv(d)',
           \A e \in Eaters : e # d /\ epc[e] \in HolderPCs => eat[e].index # l.index
    PROVE  RingInv' /\ BlocksInv' /\ EatersInv' /\ EatenInv'
<1>1. UNCHANGED <<headers, entries, content, emptied, freeBlocks, tailBlock, ppc, idxEntry, items, eaten, gone>>
  BY DEF ringVars, producerVars
<1>2. /\ epc' = [epc EXCEPT ![d] = p] /\ eat' = [eat EXCEPT ![d] = l]
      /\ epc \in [Eaters -> EaterPCs] /\ eat \in [Eaters -> Locals]
  BY DEF SubTypeOK, Moved
<1>3. epc'[d] = p /\ eat'[d] = l /\ \A e \in Eaters : e # d => epc'[e] = epc[e] /\ eat'[e] = eat[e]
  BY <1>2
<1>4. RingInv' /\ InUse' = InUse /\ Kept /\ Got' = Got
  BY <1>1, QuietRing
<1>5. BusySame
  <2>1. \A b : Emptying(b)' = Emptying(b)
    BY <1>3 DEF Emptying, HolderPCs
  <2>2. \A e \in Eaters : \A b : (Clears(e, b)' <=> Clears(e, b)) /\ (Frees(e, b)' <=> Frees(e, b))
    BY <1>3 DEF Clears, Frees, HolderPCs
  <2> QED
    BY <2>1, <2>2 DEF BusySame
<1>6. BlocksInv'
  BY <1>1, <1>4, <1>5, BlocksFrame DEF Filled
<1>7. EatenInv'
  BY <1>1, EatenFrame
<1>8. ASSUME NEW e \in Eaters, e # d PROVE SeesInv(e)' /\ PlaceInv(e)'
  <2>1. SeesInv(e) /\ PlaceInv(e) /\ epc'[e] = epc[e] /\ eat'[e] = eat[e]
    BY <1>3, <1>8 DEF EatersInv
  <2>2. SeesInv(e)'
    BY <2>1, <1>4, KeptIsEnough, SeesInvKept
  <2>3. PlaceInv(e)'
    <3>1. headIndex' \in Nat
      BY DEF SubTypeOK
    <3>2. epc[e] = "free" => eat[e].block \notin freeBlocks' /\ \A x \in InUse' : entries'[x].value # eat[e].block
      BY <2>1, <1>1, <1>4 DEF PlaceInv
    <3> QED
      BY <2>1, <3>1, <3>2, <1>1, <1>4, PlaceFrame
  <2> QED
    BY <2>2, <2>3
<1>9. ASSUME NEW e \in Eaters, NEW f \in Eaters, e # f PROVE Apart(e, f)'
  <2>1. Apart(e, f)
    BY <1>9 DEF EatersInv
  <2>2. CASE e # d /\ f # d
    BY <2>1, <2>2, <1>3 DEF Apart
  <2>3. CASE e = d
    BY <2>3, <1>3, <1>9 DEF Apart, HolderPCs
  <2>4. CASE f = d
    BY <2>4, <1>3, <1>9 DEF Apart, HolderPCs
  <2> QED
    BY <2>2, <2>3, <2>4
<1> QED
  BY <1>4, <1>6, <1>7, <1>8, <1>9 DEF EatersInv

\* An index is taken: it was open, and stays so.
LEMMA TakeIndexStep ==
    ASSUME SubTypeOK, SubTypeOK', CountsInv, RingInv, BlocksInv, EatersInv, EatenInv,
           NEW d \in Eaters, TakeIndex(d)
    PROVE  RingInv' /\ BlocksInv' /\ EatersInv' /\ EatenInv'
<1> DEFINE l == [Rest EXCEPT !.index = headIndex]
<1>1. /\ Moved(d, "header", l) /\ l.index = headIndex
      /\ epc[d] = "head" /\ UNCHANGED <<ringVars, producerVars, eaten, gone>>
  <2>1. l.index = headIndex
    BY DEF Rest
  <2> QED
    BY <2>1 DEF TakeIndex, Eat, Moved
<1> HIDE DEF l
<1>2. headIndex' = headIndex + 1 /\ headIndex \in Nat
  BY CountsTake DEF SubTypeOK
<1>3. epc'[d] = "header" /\ eat'[d] = l /\ \A e \in Eaters : e # d => epc'[e] = epc[e] /\ eat'[e] = eat[e]
  BY <1>1 DEF SubTypeOK, Moved
<1>4. \A e \in Eaters : e # d /\ epc[e] \in HolderPCs => eat[e].index < headIndex /\ eat[e].index \in Nat
  BY LocalsType DEF EatersInv, PlaceInv
<1>5. \A e \in Eaters : e # d /\ epc[e] \in HolderPCs => eat[e].index # l.index
  BY <1>1, <1>2, <1>4
<1>6. ASSUME NEW i PROVE Held(i)' <=> Held(i) \/ i = headIndex
  BY <1>1, <1>3 DEF Held, HolderPCs
<1>7. \A i \in Nat : Open(i)' <=> Open(i)
  BY <1>2, <1>6 DEF Open
<1>8. SeesInv(d)' /\ PlaceInv(d)'
  BY <1>1, <1>2, <1>3 DEF SeesInv, PlaceInv, HolderPCs
<1>9. OpenSame
  BY <1>7 DEF OpenSame
<1>10. PICK p \in HolderPCs : p = "header"
  BY DEF HolderPCs
<1>11. epc[d] \in HolderPCs \cup {"head"} /\ headIndex <= headIndex' /\ Moved(d, p, l)
  BY <1>1, <1>2, <1>10
<1> QED
  BY <1>1, <1>5, <1>8, <1>9, <1>11, WalkStep

\* A dequeuer that keeps its index keeps it open.
LEMMA WalkOpen ==
    ASSUME SubTypeOK, NEW d \in Eaters, NEW p \in HolderPCs, NEW l \in Locals, Moved(d, p, l),
           epc[d] \in HolderPCs, l.index = eat[d].index, EatersInv, UNCHANGED headIndex
    PROVE  /\ OpenSame /\ epc'[d] = p /\ eat'[d] = l /\ l.index < headIndex'
           /\ \A e \in Eaters : e # d /\ epc[e] \in HolderPCs => eat[e].index # l.index
<1>1. epc'[d] = p /\ eat'[d] = l /\ \A e \in Eaters : e # d => epc'[e] = epc[e] /\ eat'[e] = eat[e]
  BY DEF SubTypeOK, Moved
<1>2. \A i : Held(i)' <=> Held(i)
  BY <1>1 DEF Held
<1>3. OpenSame
  BY <1>2 DEF OpenSame, Open
<1>4. l.index < headIndex'
  BY DEF EatersInv, PlaceInv
<1>5. \A e \in Eaters : e # d /\ epc[e] \in HolderPCs => eat[e].index # l.index
  BY DEF EatersInv, Apart
<1> QED
  BY <1>1, <1>3, <1>4, <1>5

\* The dequeuer reads which block index is current, and then its tail.
LEMMA LoadHeaderStep ==
    ASSUME SubTypeOK, SubTypeOK', CountsInv, RingInv, BlocksInv, EatersInv, EatenInv,
           NEW d \in Eaters, LoadHeader(d)
    PROVE  RingInv' /\ BlocksInv' /\ EatersInv' /\ EatenInv'
<1> DEFINE l == [eat[d] EXCEPT !.header = Len(headers)]
<1>1. /\ Moved(d, "slot", l) /\ epc[d] = "header" /\ UNCHANGED <<ringVars, countVars, producerVars, eaten, gone>>
  BY DEF LoadHeader, Eat, Moved
<1>2. /\ eat[d] \in Locals /\ Len(headers) \in Nat /\ Len(headers) = Len(headers')
      /\ UNCHANGED <<headers, entries, ppc, idxEntry, items, headIndex>>
  BY <1>1, HeaderIs, LocalsType DEF RingInv, ringVars, countVars, producerVars
<1>3. l \in Locals /\ l.index = eat[d].index /\ l.header = Len(headers)
  BY <1>2 DEF Locals
<1> HIDE DEF l
<1>4. PICK p \in HolderPCs : p = "slot"
  BY DEF HolderPCs
<1>5. epc[d] \in HolderPCs /\ Moved(d, p, l)
  BY <1>1, <1>4 DEF HolderPCs
<1>6. /\ OpenSame /\ epc'[d] = p /\ eat'[d] = l /\ l.index < headIndex'
      /\ \A e \in Eaters : e # d /\ epc[e] \in HolderPCs => eat[e].index # l.index
  BY <1>2, <1>3, <1>5, WalkOpen
<1>7. PICK i \in Nat, j \in Nat, t \in {Header.tail} : i = eat[d].index /\ j = Len(headers) /\ t = Header.tail
  BY <1>2, LocalsType
<1>8. Open(i) /\ i < headIndex /\ headIndex <= items /\ headIndex \in Nat /\ items \in Nat
  <2>1. Open(i)
    BY <1>5, <1>7 DEF Open, Held
  <2>2. i < headIndex
    BY <1>5, <1>7 DEF EatersInv, PlaceInv
  <2>3. headIndex <= items /\ headIndex \in Nat /\ items \in Nat
    BY CountsSmall, NumbersType DEF SubTypeOK
  <2> QED
    BY <2>1, <2>2, <2>3
<1>9. i \div BLOCK_SIZE < Got
  <2>1. i < items
    BY <1>8
  <2> QED
    BY <2>1, ItemsGot
<1>10. PICK x \in InUse : entries[x].key = Base(i)
  BY <1>8, <1>9 DEF BlocksInv, OpenInv
<1>11. (SubTypeOK /\ RingInv => TailSees)'
  BY TailFinds, PTL
<1>12. RingInv' /\ InUse' = InUse
  BY <1>2, QuietRing
<1>13. Sees(j, t, i)' /\ t = headers'[j].tail /\ eat'[d].header = j /\ eat'[d].index = i
  <2>1. TailSees'
    BY <1>11, <1>12
  <2>2. j \in {Len(headers')} /\ t \in {Header'.tail} /\ t = headers'[j].tail
    BY <1>2, <1>7 DEF Header
  <2>3. x \in InUse' /\ entries'[x].key = Base(i)
    BY <1>2, <1>10, <1>12
  <2>4. Sees(j, t, i)'
    BY <2>1, <2>2, <2>3 DEF TailSees
  <2> QED
    BY <2>2, <2>4, <1>3, <1>6, <1>7
<1>14. SeesInv(d)'
  BY <1>4, <1>6, <1>13 DEF SeesInv
<1>15. PlaceInv(d)'
  BY <1>4, <1>6 DEF PlaceInv, HolderPCs
<1>16. headIndex <= headIndex'
  BY <1>2, <1>8
<1> QED
  BY <1>1, <1>5, <1>6, <1>14, <1>15, <1>16, WalkStep

\* The dequeuer reads the tail of the block index it has.
LEMMA LoadSlotStep ==
    ASSUME SubTypeOK, SubTypeOK', CountsInv, RingInv, BlocksInv, EatersInv, EatenInv,
           NEW d \in Eaters, LoadSlot(d)
    PROVE  RingInv' /\ BlocksInv' /\ EatersInv' /\ EatenInv'
<1> DEFINE l == [eat[d] EXCEPT !.at = headers[eat[d].header].tail]
<1>1. /\ Moved(d, "find", l) /\ epc[d] = "slot" /\ UNCHANGED <<ringVars, countVars, producerVars, eaten, gone>>
  BY DEF LoadSlot, Eat, Moved
<1>2. /\ eat[d] \in Locals /\ headIndex \in Nat
      /\ UNCHANGED <<headers, entries, ppc, idxEntry, items, headIndex>>
  BY <1>1, LocalsType DEF SubTypeOK, ringVars, countVars, producerVars
<1>3. PICK i \in Nat, j \in Nat, t \in {headers[eat[d].header].tail} :
         i = eat[d].index /\ j = eat[d].header /\ t = headers[j].tail
  BY LocalsType
<1>4. Sees(j, t, i)
  BY <1>1, <1>3 DEF EatersInv, SeesInv
<1>5. t \in Nat
  BY ZenonT(30), <1>3, <1>4, HeadersAre DEF Sees
<1>6. l \in Locals /\ l.index = i /\ l.header = j /\ l.at = t
  BY <1>2, <1>3, <1>5 DEF Locals
<1> HIDE DEF l
<1>7. PICK p \in HolderPCs : p = "find"
  BY DEF HolderPCs
<1>8. epc[d] \in HolderPCs /\ Moved(d, p, l)
  BY <1>1, <1>7 DEF HolderPCs
<1>9. /\ OpenSame /\ epc'[d] = p /\ eat'[d] = l /\ l.index < headIndex'
      /\ \A e \in Eaters : e # d /\ epc[e] \in HolderPCs => eat[e].index # l.index
  BY <1>2, <1>3, <1>6, <1>8, WalkOpen
<1>10. InUse' = InUse
  BY <1>2, QuietRing
<1>11. Sees(j, t, i)'
  BY ZenonT(30), <1>2, <1>4, <1>10 DEF Sees, BackFrom, Whole
<1>12. SeesInv(d)'
  BY <1>6, <1>7, <1>9, <1>11 DEF SeesInv
<1>13. PlaceInv(d)'
  BY <1>7, <1>9 DEF PlaceInv, HolderPCs
<1>14. headIndex <= headIndex'
  BY <1>2
<1> QED
  BY <1>1, <1>8, <1>9, <1>12, <1>13, <1>14, WalkStep

\* The dequeuer finds the entry of its index.
LEMMA FindEntryStep ==
    ASSUME SubTypeOK, SubTypeOK', CountsInv, RingInv, BlocksInv, EatersInv, EatenInv,
           NEW d \in Eaters, FindEntry(d)
    PROVE  RingInv' /\ BlocksInv' /\ EatersInv' /\ EatenInv'
<1>1. PICK i \in Nat, j \in Nat, p \in Nat : i = eat[d].index /\ j = eat[d].header /\ p = eat[d].at
  BY LocalsType
<1> DEFINE x == LookedUp(j, p, i)
           l == [eat[d] EXCEPT !.entry = x, !.header = 0, !.at = 0]
<1>2. /\ Moved(d, "take", l) /\ epc[d] = "find" /\ UNCHANGED <<ringVars, countVars, producerVars, eaten, gone>>
  BY ZenonT(30), <1>1 DEF FindEntry, Eat, Moved, LookedUp
<1>3. /\ eat[d] \in Locals /\ headIndex \in Nat
      /\ UNCHANGED <<headers, entries, ppc, idxEntry, items, headIndex>>
  BY <1>2, LocalsType DEF SubTypeOK, ringVars, countVars, producerVars
<1>4. Sees(j, p, i)
  BY <1>1, <1>2 DEF EatersInv, SeesInv
<1>5. x \in InUse /\ entries[x].key = Base(i)
  BY <1>4, SeesFinds
<1> HIDE DEF x
<1>6. l \in Locals /\ l.index = i /\ l.entry = x
  <2>1. x \in Nat
    BY <1>5 DEF InUse, Ids
  <2> QED
    BY <2>1, <1>1, <1>3 DEF Locals
<1> HIDE DEF l
<1>7. PICK q \in HolderPCs : q = "take"
  BY DEF HolderPCs
<1>8. epc[d] \in HolderPCs /\ Moved(d, q, l)
  BY <1>2, <1>7 DEF HolderPCs
<1>9. /\ OpenSame /\ epc'[d] = q /\ eat'[d] = l /\ l.index < headIndex'
      /\ \A e \in Eaters : e # d /\ epc[e] \in HolderPCs => eat[e].index # l.index
  BY <1>1, <1>3, <1>6, <1>8, WalkOpen
<1>10. InUse' = InUse
  BY <1>3, QuietRing
<1>11. SeesInv(d)'
  BY <1>7, <1>9 DEF SeesInv
<1>12. PlaceInv(d)'
  BY <1>3, <1>5, <1>6, <1>7, <1>9, <1>10 DEF PlaceInv, HolderPCs
<1>13. headIndex <= headIndex'
  BY <1>3
<1> QED
  BY <1>2, <1>8, <1>9, <1>11, <1>12, <1>13, WalkStep

\* What a dequeuer that has its entry is about to take.
LEMMA ItemThere ==
    ASSUME SubTypeOK, CountsInv, RingInv, BlocksInv, EatersInv, NEW d \in Eaters, epc[d] = "take",
           NEW x \in {eat[d].entry}, NEW i \in {eat[d].index}
    PROVE  /\ x \in InUse /\ entries[x].key = Base(i) /\ i \in Nat /\ i < headIndex /\ i < items
           /\ Open(i) /\ content[entries[x].value][i % BLOCK_SIZE] = i + 1 /\ i + 1 \in 1..MaxItems
<1>1. x \in InUse /\ entries[x].key = Base(i) /\ i \in Nat /\ i < headIndex
  BY LocalsType DEF EatersInv, PlaceInv, HolderPCs
<1>2. headIndex <= items /\ headIndex \in Nat /\ items \in 0..MaxItems /\ items \in Nat
  BY CountsSmall, NumbersType DEF SubTypeOK
<1>3. i < items /\ i + 1 \in 1..MaxItems
  BY <1>1, <1>2, SubQueueAssumption
<1>4. Open(i) /\ Filled(i)
  BY <1>3 DEF Open, Held, HolderPCs, Filled
<1>5. PICK b, k : b = entries[x].value /\ k = entries[x].key
  OBVIOUS
<1>6. HasItems(b, k)
  BY <1>1, <1>5 DEF BlocksInv, BlockInv
<1>7. i \in k..(k + BLOCK_SIZE - 1)
  BY <1>1, <1>5, BaseOf
<1>8. content[b][i % BLOCK_SIZE] = i + 1
  BY <1>4, <1>6, <1>7 DEF HasItems
<1> QED
  BY <1>1, <1>3, <1>4, <1>5, <1>8

\* The item is taken.
LEMMA TakeItemStep ==
    ASSUME SubTypeOK, SubTypeOK', CountsInv, RingInv, BlocksInv, EatersInv, EatenInv,
           NEW d \in Eaters, TakeItem(d)
    PROVE  RingInv' /\ BlocksInv' /\ EatersInv' /\ EatenInv'
<1>1. PICK i \in Nat, x \in {eat[d].entry}, b \in {entries[eat[d].entry].value} :
         i = eat[d].index /\ x = eat[d].entry /\ b = entries[x].value
  BY SMTT(30), LocalsType
<1> DEFINE l == [eat[d] EXCEPT !.block = b, !.index = 0]
           s == i % BLOCK_SIZE
<1>2. /\ Moved(d, "empty", l) /\ epc[d] = "take"
      /\ UNCHANGED <<tailIndex, headers, entries, emptied, freeBlocks, tailBlock, countVars, producerVars, gone>>
      /\ eaten' = [eaten EXCEPT ![content[b][s]] = @ + 1] /\ content' = [content EXCEPT ![b][s] = 0]
  BY <1>1 DEF TakeItem, Eat, Moved
<1>3. UNCHANGED <<headers, entries, ppc, idxEntry, items, headIndex, emptied, freeBlocks, tailBlock, gone>>
  BY <1>2 DEF countVars, producerVars
<1>4. /\ x \in InUse /\ entries[x].key = Base(i) /\ i < headIndex /\ i < items /\ Open(i)
      /\ content[b][s] = i + 1 /\ i + 1 \in 1..MaxItems /\ headIndex \in Nat /\ headIndex' \in Nat
  <2>1. headIndex \in Nat /\ headIndex' \in Nat
    BY DEF SubTypeOK
  <2>2. /\ x \in InUse /\ entries[x].key = Base(i) /\ i < headIndex /\ i < items /\ Open(i)
        /\ content[entries[x].value][i % BLOCK_SIZE] = i + 1 /\ i + 1 \in 1..MaxItems
    <3>1. x \in {eat[d].entry} /\ i \in {eat[d].index} /\ epc[d] = "take"
      BY ZenonT(30), <1>1, <1>2
    <3> QED
      BY <3>1, ItemThere
  <2> QED
    BY <2>1, <2>2, <1>1
<1>5. l.block = b /\ l.entry = x
  <2>1. eat[d] \in Locals
    BY LocalsType
  <2> QED
    BY <2>1, <1>1 DEF Locals
<1> HIDE DEF l
<1>6. epc'[d] = "empty" /\ eat'[d] = l /\ \A e \in Eaters : e # d => epc'[e] = epc[e] /\ eat'[e] = eat[e]
  BY <1>2 DEF SubTypeOK, Moved
<1>7. RingInv' /\ InUse' = InUse /\ Kept /\ Got' = Got
  BY SMTT(30), <1>3, QuietRing
<1>8. \A e \in Eaters : e # d /\ epc[e] \in HolderPCs => eat[e].index # i
  BY SMTT(30), <1>1, <1>2 DEF EatersInv, Apart, HolderPCs
<1>9. \A m : Held(m)' <=> Held(m) /\ m # i
  BY <1>1, <1>2, <1>6, <1>8 DEF Held, HolderPCs
<1>10. \A m \in Nat : Open(m)' <=> Open(m) /\ m # i
  BY <1>3, <1>4, <1>9 DEF Open
<1>11. b \in 1..SubBlocks /\ s \in 0..(BLOCK_SIZE - 1)
  BY <1>1, <1>4, InUseIs, BaseOf
<1>12. \A y \in InUse : y # x => entries[y].value # b /\ entries[y].key # Base(i)
  <2>1. \A y \in InUse : y # x => entries[y].value # b
    BY <1>1, <1>4 DEF BlocksInv
  <2> QED
    BY <2>1, <1>4, KeysApart
<1>13. ASSUME NEW y \in InUse PROVE BlockInv(y)'
  <2>1. PICK v, k : /\ v = entries[y].value /\ k = entries[y].key /\ v = entries'[y].value /\ k = entries'[y].key
                    /\ k \in Nat /\ v \in 1..SubBlocks /\ k % BLOCK_SIZE = 0
    BY <1>3, InUseIs
  <2>2. HasItems(v, k) /\ HasCount(v, k) /\ (emptied[v] = BLOCK_SIZE => \E e \in Eaters : Clears(e, v))
        /\ (Num(y) + 1 = Got => v = tailBlock)
    BY <2>1 DEF BlocksInv, BlockInv
  <2>3. \A m \in k..(k + BLOCK_SIZE - 1) : m \in Nat /\ m % BLOCK_SIZE \in 0..(BLOCK_SIZE - 1) /\ k = Base(m)
    <3>1. \A m \in k..(k + BLOCK_SIZE - 1) : m \in Nat
      BY <2>1, BlockSize
    <3> QED
      BY <3>1, <2>1, BaseOf
  <2>4. HasItems(v, k)'
    <3>1. ASSUME NEW m \in k..(k + BLOCK_SIZE - 1), Open(m)', Filled(m)' PROVE content'[v][m % BLOCK_SIZE] = m + 1
      <4>1. Open(m) /\ m # i /\ Filled(m) /\ m \in Nat /\ m % BLOCK_SIZE \in 0..(BLOCK_SIZE - 1) /\ k = Base(m)
        BY <3>1, <2>3, <1>10, <1>3 DEF Filled
      <4>2. content[v][m % BLOCK_SIZE] = m + 1
        BY <4>1, <2>2 DEF HasItems
      <4>3. v = b => m % BLOCK_SIZE # s
        <5>1. ASSUME v = b, m % BLOCK_SIZE = s PROVE FALSE
          <6>1. y = x
            BY <5>1, <2>1, <1>12
          <6>2. Base(m) = Base(i)
            BY <6>1, <2>1, <4>1, <1>4
          <6> QED
            BY <6>2, <5>1, <4>1, SlotsApart
        <5> QED
          BY <5>1
      <4>4. content \in [1..SubBlocks -> [0..(BLOCK_SIZE - 1) -> Nat]]
        BY DEF SubTypeOK
      <4>5. PICK r \in 0..(BLOCK_SIZE - 1) : r = m % BLOCK_SIZE
        BY <4>1
      <4>6. content'[v][r] = content[v][r]
        <5> HIDE DEF s
        <5> QED
          BY <4>3, <4>4, <4>5, <1>2, <1>11, <2>1
      <4> QED
        BY <4>2, <4>5, <4>6
    <3> QED
      BY <3>1 DEF HasItems
  <2>5. HasCount(v, k)'
    <3>1. /\ IsFiniteSet(Emptying(v)) /\ Cardinality(Emptying(v)) \in Nat
          /\ IsFiniteSet(OpenIn(k)) /\ Cardinality(OpenIn(k)) \in Nat
      BY <2>1, CountOf
    <3>2. CASE y = x
      <4>1. Emptying(v)' = Emptying(v) \cup {d} /\ d \notin Emptying(v)
        BY <3>2, <2>1, <1>1, <1>2, <1>5, <1>6 DEF Emptying
      <4>2. OpenIn(k)' = OpenIn(k) \ {i} /\ i \in OpenIn(k)
        <5>1. i \in k..(k + BLOCK_SIZE - 1)
          BY <3>2, <2>1, <1>4, BaseOf
        <5> QED
          BY <5>1, <2>3, <1>4, <1>10 DEF OpenIn
      <4>3. Cardinality(Emptying(v)') = Cardinality(Emptying(v)) + 1
        BY <3>1, <4>1, FS_AddElement
      <4>4. Cardinality(OpenIn(k)') = Cardinality(OpenIn(k)) - 1
        BY <3>1, <4>2, FS_RemoveElement
      <4>5. emptied[v] \in Nat
        BY <2>1 DEF SubTypeOK
      <4> QED
        BY SMTT(30), <4>3, <4>4, <4>5, <3>1, <2>2, <1>3 DEF HasCount
    <3>3. CASE y # x
      <4>1. Emptying(v)' = Emptying(v)
        BY <3>3, <2>1, <1>2, <1>5, <1>6, <1>12 DEF Emptying
      <4>2. OpenIn(k)' = OpenIn(k)
        <5>1. i \notin k..(k + BLOCK_SIZE - 1)
          BY <3>3, <2>1, <2>3, <1>12
        <5> QED
          BY <5>1, <2>3, <1>10 DEF OpenIn
      <4> QED
        BY <4>1, <4>2, <2>2, <1>3 DEF HasCount
    <3> QED
      BY <3>2, <3>3
  <2>6. emptied'[v] = BLOCK_SIZE => \E e \in Eaters : Clears(e, v)'
    BY <2>2, <1>2, <1>3, <1>6 DEF Clears
  <2>7. Num(y)' + 1 = Got' => v = tailBlock'
    BY <2>2, <1>3, <1>7 DEF Num
  <2> QED
    BY <2>1, <2>4, <2>5, <2>6, <2>7 DEF BlockInv
<1>14. OpenInv'
  BY <1>3, <1>7, <1>10 DEF BlocksInv, OpenInv
<1>15. PlacedInv'
  <2>1. \A e \in Eaters : \A v : Frees(e, v)' <=> Frees(e, v)
    BY <1>2, <1>6 DEF Frees
  <2> QED
    BY <2>1, <1>3, <1>7 DEF BlocksInv, PlacedInv
<1>16. BlocksInv'
  BY <1>3, <1>7, <1>13, <1>14, <1>15 DEF BlocksInv
<1>17. EatenInv'
  <2>1. ASSUME NEW n \in 1..MaxItems PROVE eaten'[n] = IF Open(n - 1)' THEN 0 ELSE 1
    <3>1. n - 1 \in Nat /\ n \in Nat
      BY SubQueueAssumption
    <3>2. eaten \in [1..MaxItems -> Nat] /\ eaten[n] = IF Open(n - 1) THEN 0 ELSE 1
      BY DEF SubTypeOK, EatenInv
    <3>3. CASE n = i + 1
      <4>1. n - 1 = i /\ ~Open(i)'
        BY <3>3, <1>10
      <4>2. eaten'[n] = eaten[n] + 1
        BY <3>2, <3>3, <1>2, <1>4
      <4> QED
        BY <4>1, <4>2, <3>2, <1>4
    <3>4. CASE n # i + 1
      <4>1. n - 1 # i
        BY <3>1, <3>4
      <4>2. eaten'[n] = eaten[n]
        BY <3>2, <3>4, <1>2, <1>4
      <4> QED
        BY <4>1, <4>2, <3>1, <3>2, <1>10
    <3> QED
      BY <3>3, <3>4
  <2> QED
    BY <2>1 DEF EatenInv
<1>18. ASSUME NEW e \in Eaters PROVE SeesInv(e)' /\ PlaceInv(e)'
  <2>1. CASE e = d
    BY <2>1, <1>1, <1>3, <1>4, <1>5, <1>6, <1>7 DEF SeesInv, PlaceInv, HolderPCs
  <2>2. CASE e # d
    <3>1. SeesInv(e) /\ PlaceInv(e) /\ epc'[e] = epc[e] /\ eat'[e] = eat[e]
      BY <1>6, <2>2 DEF EatersInv
    <3>2. SeesInv(e)'
      BY <3>1, <1>7, KeptIsEnough, SeesInvKept
    <3>3. epc[e] = "free" => eat[e].block \notin freeBlocks' /\ \A z \in InUse' : entries'[z].value # eat[e].block
      BY <3>1, <1>3, <1>7 DEF PlaceInv
    <3>4. PlaceInv(e)'
      BY <3>1, <3>3, <1>3, <1>4, <1>7, PlaceFrame
    <3> QED
      BY <3>2, <3>4
  <2> QED
    BY <2>1, <2>2
<1>19. ASSUME NEW e \in Eaters, NEW f \in Eaters, e # f PROVE Apart(e, f)'
  BY <1>6, <1>19 DEF EatersInv, Apart, HolderPCs
<1> QED
  BY <1>7, <1>16, <1>17, <1>18, <1>19 DEF EatersInv

\* The block's count for the one that a dequeuer has to count.
LEMMA EmptyingIs ==
    ASSUME SubTypeOK, RingInv, BlocksInv, EatersInv, NEW d \in Eaters, epc[d] = "empty",
           NEW b \in {eat[d].block}
    PROVE  b \in 1..SubBlocks /\ emptied[b] \in Nat /\ emptied[b] < BLOCK_SIZE
             /\ \E x \in InUse : x = eat[d].entry /\ entries[x].value = b
<1>1. PICK x \in InUse : x = eat[d].entry /\ entries[x].value = b
  BY DEF EatersInv, PlaceInv
<1>2. PICK k \in Nat : k = entries[x].key /\ b \in 1..SubBlocks
  BY <1>1, InUseIs
<1>3. HasCount(b, k)
  BY <1>1, <1>2 DEF BlocksInv, BlockInv
<1>4. d \in Emptying(b) /\ Emptying(b) # {}
  BY DEF Emptying
<1>5. IsFiniteSet(Emptying(b)) /\ Cardinality(Emptying(b)) \in Nat /\ Cardinality(OpenIn(k)) \in Nat
  BY CountOf
<1>6. Cardinality(Emptying(b)) # 0
  BY <1>4, <1>5, FS_EmptySet
<1>7. emptied[b] \in Nat
  BY <1>2 DEF SubTypeOK
<1>8. emptied[b] < BLOCK_SIZE
  BY <1>3, <1>5, <1>6, <1>7, BlockSize DEF HasCount
<1> QED
  BY <1>1, <1>2, <1>7, <1>8

\* A slot more is counted; whoever counts the last one is to clear the entry.
LEMMA SetEmptyStep ==
    ASSUME SubTypeOK, SubTypeOK', CountsInv, RingInv, BlocksInv, EatersInv, EatenInv,
           NEW d \in Eaters, SetEmpty(d)
    PROVE  RingInv' /\ BlocksInv' /\ EatersInv' /\ EatenInv'
<1>1. PICK b \in {eat[d].block} : TRUE
  OBVIOUS
<1>2. /\ epc[d] = "empty" /\ emptied' = [emptied EXCEPT ![b] = @ + 1]
      /\ UNCHANGED <<headers, entries, content, freeBlocks, tailBlock, eaten, gone, ppc, idxEntry, items, headIndex>>
  BY DEF SetEmpty, countVars, producerVars
<1>3. PICK x \in InUse : x = eat[d].entry /\ entries[x].value = b
  BY <1>2, EmptyingIs
<1>4. b \in 1..SubBlocks /\ emptied[b] \in Nat /\ emptied[b] < BLOCK_SIZE
  BY <1>2, EmptyingIs
<1>5. emptied'[b] = emptied[b] + 1 /\ \A v \in 1..SubBlocks : v # b => emptied'[v] = emptied[v]
  BY <1>2, <1>4 DEF SubTypeOK
<1>6. \A e \in Eaters : e # d => epc'[e] = epc[e] /\ eat'[e] = eat[e]
  BY DEF SubTypeOK, SetEmpty, Eat
<1>7. \/ emptied[b] = BLOCK_SIZE - 1 /\ epc'[d] = "clear" /\ eat'[d] = eat[d]
      \/ emptied[b] # BLOCK_SIZE - 1 /\ epc'[d] = "idle"
  BY DEF SubTypeOK, SetEmpty, Eat
<1>8. epc'[d] \in {"clear", "idle"}
  BY <1>7
<1>9. RingInv' /\ InUse' = InUse /\ Kept /\ Got' = Got
  BY <1>2, QuietRing
<1>10. OpenSame
  <2>1. \A i : Held(i)' <=> Held(i)
    BY <1>2, <1>6, <1>8 DEF Held, HolderPCs
  <2> QED
    BY <2>1, <1>2 DEF OpenSame, Open
<1>11. \A e \in Eaters : \A v : Frees(e, v)' <=> Frees(e, v)
  BY <1>2, <1>6, <1>8 DEF Frees
<1>12. \A e \in Eaters : \A v : Clears(e, v) => Clears(e, v)'
  BY <1>2, <1>6 DEF Clears
<1>13. ASSUME NEW y \in InUse PROVE BlockInv(y)'
  <2>1. PICK v, k : /\ v = entries[y].value /\ k = entries[y].key /\ v = entries'[y].value /\ k = entries'[y].key
                    /\ k \in Nat /\ v \in 1..SubBlocks
    BY <1>2, InUseIs
  <2>2. HasItems(v, k) /\ HasCount(v, k) /\ (emptied[v] = BLOCK_SIZE => \E e \in Eaters : Clears(e, v))
        /\ (Num(y) + 1 = Got => v = tailBlock)
    BY <2>1 DEF BlocksInv, BlockInv
  <2>3. \A m \in k..(k + BLOCK_SIZE - 1) : m \in Nat
    BY <2>1, BlockSize
  <2>4. HasItems(v, k)'
    BY <2>2, <2>3, <1>2, <1>10 DEF HasItems, OpenSame, Filled
  <2>5. OpenIn(k)' = OpenIn(k)
    BY <2>3, <1>10 DEF OpenIn, OpenSame
  <2>6. HasCount(v, k)'
    <3>1. /\ IsFiniteSet(Emptying(v)) /\ Cardinality(Emptying(v)) \in Nat /\ Cardinality(OpenIn(k)) \in Nat
      BY <2>1, CountOf
    <3>2. CASE v = b
      <4>1. Emptying(v)' = Emptying(v) \ {d} /\ d \in Emptying(v)
        BY <3>2, <1>2, <1>6, <1>8 DEF Emptying
      <4>2. Cardinality(Emptying(v)') = Cardinality(Emptying(v)) - 1
        BY <3>1, <4>1, FS_RemoveElement
      <4> QED
        BY <3>1, <3>2, <4>2, <2>2, <2>5, <1>4, <1>5 DEF HasCount
    <3>3. CASE v # b
      <4>1. Emptying(v)' = Emptying(v)
        BY <3>3, <1>2, <1>6, <1>8 DEF Emptying
      <4> QED
        BY <4>1, <3>3, <2>1, <2>2, <2>5, <1>5 DEF HasCount
    <3> QED
      BY <3>2, <3>3
  <2>7. emptied'[v] = BLOCK_SIZE => \E e \in Eaters : Clears(e, v)'
    <3>1. CASE v = b
      <4>1. emptied'[v] = BLOCK_SIZE => emptied[b] = BLOCK_SIZE - 1
        BY <3>1, <1>4, <1>5, BlockSize
      <4> QED
        BY <4>1, <3>1, <1>7 DEF Clears
    <3>2. CASE v # b
      BY <3>2, <2>1, <2>2, <1>5, <1>12
    <3> QED
      BY <3>1, <3>2
  <2>8. Num(y)' + 1 = Got' => v = tailBlock'
    BY <2>2, <1>2, <1>9 DEF Num
  <2> QED
    BY <2>1, <2>4, <2>6, <2>7, <2>8 DEF BlockInv
<1>14. OpenInv'
  BY <1>2, <1>9, <1>10 DEF BlocksInv, OpenInv, OpenSame
<1>15. PlacedInv'
  BY <1>2, <1>9, <1>11 DEF BlocksInv, PlacedInv
<1>16. BlocksInv'
  BY <1>2, <1>9, <1>13, <1>14, <1>15 DEF BlocksInv
<1>17. EatenInv'
  BY <1>2, <1>10, EatenFrame
<1>18. \A e \in Eaters : epc[e] = "clear" => eat[e].block # b
  BY <1>4 DEF EatersInv, PlaceInv
<1>19. ASSUME NEW e \in Eaters PROVE SeesInv(e)' /\ PlaceInv(e)'
  <2>1. CASE e = d
    <3>1. emptied[b] = BLOCK_SIZE - 1 => emptied'[b] = BLOCK_SIZE
      BY <1>4, <1>5, BlockSize
    <3> QED
      BY <2>1, <3>1, <1>2, <1>3, <1>7, <1>9 DEF SeesInv, PlaceInv, HolderPCs
  <2>2. CASE e # d
    <3>1. SeesInv(e) /\ PlaceInv(e) /\ epc'[e] = epc[e] /\ eat'[e] = eat[e]
      BY <1>6, <2>2 DEF EatersInv
    <3>2. SeesInv(e)'
      BY <3>1, <1>9, KeptIsEnough, SeesInvKept
    <3>3. epc[e] = "free" => eat[e].block \notin freeBlocks' /\ \A z \in InUse' : entries'[z].value # eat[e].block
      BY <3>1, <1>2, <1>9 DEF PlaceInv
    <3>4. epc[e] = "clear" => emptied'[eat[e].block] = emptied[eat[e].block]
      <4>1. epc[e] = "clear" => eat[e].block \in 1..SubBlocks
        BY <3>1, InUseIs DEF PlaceInv
      <4> QED
        BY <4>1, <1>5, <1>18
    <3>5. headIndex' \in Nat /\ headIndex <= headIndex'
      BY <1>2 DEF SubTypeOK
    <3>6. PlaceInv(e)'
      BY <3>1, <3>3, <3>4, <3>5, <1>2, <1>9, PlaceFrame
    <3> QED
      BY <3>2, <3>6
  <2> QED
    BY <2>1, <2>2
<1>20. ASSUME NEW e \in Eaters, NEW f \in Eaters, e # f PROVE Apart(e, f)'
  BY <1>2, <1>6, <1>7, <1>18, <1>20 DEF EatersInv, Apart, HolderPCs
<1> QED
  BY <1>9, <1>16, <1>17, <1>19, <1>20 DEF EatersInv

\* Nobody holds an index of a block that is to be cleared, or has to count in it.
LEMMA ClearedIs ==
    ASSUME SubTypeOK, RingInv, BlocksInv, EatersInv, NEW d \in Eaters, epc[d] = "clear",
           NEW b \in {eat[d].block}, NEW x \in {eat[d].entry}
    PROVE  /\ x \in InUse /\ entries[x].value = b /\ b \in 1..SubBlocks
           /\ \A i \in Nat : Open(i) => entries[x].key # Base(i)
           /\ \A e \in Eaters : epc[e] = "empty" => eat[e].block # b
<1>1. x \in InUse /\ entries[x].value = b /\ emptied[b] = BLOCK_SIZE
  BY DEF EatersInv, PlaceInv
<1>2. PICK k \in Nat : k = entries[x].key /\ b \in 1..SubBlocks
  BY <1>1, InUseIs
<1>3. HasCount(b, k)
  BY <1>1, <1>2 DEF BlocksInv, BlockInv
<1>4. /\ IsFiniteSet(Emptying(b)) /\ Cardinality(Emptying(b)) \in Nat
      /\ IsFiniteSet(OpenIn(k)) /\ Cardinality(OpenIn(k)) \in Nat
  BY CountOf
<1>5. Cardinality(Emptying(b)) = 0 /\ Cardinality(OpenIn(k)) = 0
  BY <1>1, <1>3, <1>4, BlockSize DEF HasCount
<1>6. Emptying(b) = {} /\ OpenIn(k) = {}
  BY <1>4, <1>5, FS_EmptySet
<1>7. ASSUME NEW i \in Nat, Open(i), entries[x].key = Base(i) PROVE FALSE
  <2>1. i \in k..(k + BLOCK_SIZE - 1)
    BY <1>2, <1>7, BaseOf
  <2> QED
    BY <2>1, <1>6, <1>7 DEF OpenIn
<1>8. \A e \in Eaters : epc[e] = "empty" => eat[e].block # b
  BY <1>6 DEF Emptying
<1> QED
  BY <1>1, <1>2, <1>7, <1>8

\* The entry of an emptied block is given up.
LEMMA ClearEntryStep ==
    ASSUME SubTypeOK, SubTypeOK', CountsInv, RingInv, BlocksInv, EatersInv, EatenInv, ~gone,
           NEW d \in Eaters, ClearEntry(d)
    PROVE  RingInv' /\ BlocksInv' /\ EatersInv' /\ EatenInv'
<1>1. PICK b \in {eat[d].block}, x \in {eat[d].entry} : TRUE
  OBVIOUS
<1>2. /\ epc[d] = "clear" /\ entries' = [entries EXCEPT ![x].value = NoBlock]
      /\ UNCHANGED <<headers, content, emptied, freeBlocks, tailBlock, eaten, gone, ppc, idxEntry, items, headIndex>>
  BY DEF ClearEntry, countVars, producerVars
<1>3. /\ x \in InUse /\ entries[x].value = b /\ b \in 1..SubBlocks
      /\ \A i \in Nat : Open(i) => entries[x].key # Base(i)
      /\ \A e \in Eaters : epc[e] = "empty" => eat[e].block # b
  BY <1>2, ClearedIs
<1>4. x \in Ids
  BY <1>3 DEF InUse
<1>5. RingInv' /\ InUse' = InUse \ {x}
  BY <1>2, <1>4, RingLoses
<1>6. /\ \A y \in Ids : entries'[y].key = entries[y].key /\ Num(y)' = Num(y) /\ (Whole(y)' <=> Whole(y))
      /\ \A y \in Ids : y # x => entries'[y] = entries[y]
  BY <1>2, <1>4, ValueSet
<1>7. epc'[d] = "free" /\ eat'[d].block = b /\ \A e \in Eaters : e # d => epc'[e] = epc[e] /\ eat'[e] = eat[e]
  BY DEF SubTypeOK, ClearEntry, Eat, Locals
<1>8. OpenSame
  <2>1. \A i : Held(i)' <=> Held(i)
    BY <1>2, <1>7 DEF Held, HolderPCs
  <2> QED
    BY <2>1, <1>2 DEF OpenSame, Open
<1>9. Got' = Got
  BY <1>2 DEF Got, Numbers
<1>10. \A y \in InUse : y # x => entries[y].value # b
  BY <1>3 DEF BlocksInv
<1>11. \A e \in Eaters : \A v : Clears(e, v) /\ v # b => Clears(e, v)'
  BY <1>2, <1>7 DEF Clears
<1>12. ASSUME NEW y \in InUse, y # x PROVE BlockInv(y)'
  <2>1. y \in Ids /\ entries'[y] = entries[y]
    BY <1>6, <1>12 DEF InUse
  <2>2. PICK v, k : /\ v = entries[y].value /\ k = entries[y].key /\ v = entries'[y].value /\ k = entries'[y].key
                    /\ k \in Nat /\ v \in 1..SubBlocks /\ v # b
    BY <2>1, <1>10, <1>12, InUseIs
  <2>3. HasItems(v, k) /\ HasCount(v, k) /\ (emptied[v] = BLOCK_SIZE => \E e \in Eaters : Clears(e, v))
        /\ (Num(y) + 1 = Got => v = tailBlock)
    BY <2>2 DEF BlocksInv, BlockInv
  <2>4. \A m \in k..(k + BLOCK_SIZE - 1) : m \in Nat
    BY <2>2, BlockSize
  <2>5. HasItems(v, k)'
    BY <2>3, <2>4, <1>2, <1>8 DEF HasItems, OpenSame, Filled
  <2>6. OpenIn(k)' = OpenIn(k)
    BY <2>4, <1>8 DEF OpenIn, OpenSame
  <2>7. Emptying(v)' = Emptying(v)
    BY <1>2, <1>7 DEF Emptying
  <2>8. HasCount(v, k)'
    BY <2>3, <2>6, <2>7, <1>2 DEF HasCount
  <2>9. emptied'[v] = BLOCK_SIZE => \E e \in Eaters : Clears(e, v)'
    BY <2>2, <2>3, <1>2, <1>11
  <2>10. Num(y)' + 1 = Got' => v = tailBlock'
    BY <2>1, <2>3, <1>2, <1>6, <1>9
  <2> QED
    BY <2>2, <2>5, <2>8, <2>9, <2>10 DEF BlockInv
<1>13. \A y \in InUse' : y \in InUse /\ y \in Ids /\ y # x /\ entries'[y] = entries[y]
  BY <1>5, <1>6 DEF InUse
<1>14. OpenInv'
  <2>1. ASSUME NEW i \in Nat, Open(i)', i \div BLOCK_SIZE < Got' PROVE \E y \in InUse' : entries'[y].key = Base(i)
    <3>1. Open(i) /\ i \div BLOCK_SIZE < Got
      BY <2>1, <1>8, <1>9 DEF OpenSame
    <3>2. PICK y \in InUse : entries[y].key = Base(i)
      BY <3>1 DEF BlocksInv, OpenInv
    <3>3. y # x /\ y \in Ids
      BY <3>1, <3>2, <1>3 DEF InUse
    <3> QED
      BY <3>2, <3>3, <1>5, <1>6
  <2> QED
    BY <2>1 DEF OpenInv
<1>15. PlacedInv'
  <2>1. \A y \in InUse' : entries'[y].value \notin freeBlocks'
    BY <1>2, <1>13 DEF BlocksInv, PlacedInv
  <2>2. ASSUME NEW v \in 1..SubBlocks, v \notin freeBlocks'
        PROVE  (\E y \in InUse' : entries'[y].value = v) \/ \E e \in Eaters : Frees(e, v)'
    <3>1. CASE v = b
      BY <3>1, <1>7 DEF Frees
    <3>2. CASE v # b
      <4>1. (\E y \in InUse : entries[y].value = v) \/ \E e \in Eaters : Frees(e, v)
        BY <2>2, <1>2 DEF BlocksInv, PlacedInv
      <4>2. ASSUME NEW y \in InUse, entries[y].value = v PROVE y \in InUse' /\ entries'[y].value = v
        BY <4>2, <3>2, <1>3, <1>5, <1>6 DEF InUse
      <4>3. ASSUME NEW e \in Eaters, Frees(e, v) PROVE Frees(e, v)'
        BY <4>3, <1>2, <1>7 DEF Frees
      <4> QED
        BY <4>1, <4>2, <4>3
    <3> QED
      BY <3>1, <3>2
  <2> QED
    BY <2>1, <2>2 DEF PlacedInv
<1>16. BlocksInv'
  <2>1. \A y, z \in InUse' : entries'[y].value = entries'[z].value => y = z
    BY <1>13 DEF BlocksInv
  <2>2. \A y \in InUse' : BlockInv(y)'
    BY <1>12, <1>13
  <2> QED
    BY <2>1, <2>2, <1>14, <1>15 DEF BlocksInv
<1>17. EatenInv'
  BY <1>2, <1>8, EatenFrame
<1>18. \A e \in Eaters : e # d /\ epc[e] = "clear" => eat[e].block # b
  BY <1>2 DEF EatersInv, Apart
<1>19. ASSUME NEW e \in Eaters PROVE SeesInv(e)' /\ PlaceInv(e)'
  <2>1. CASE e = d
    <3>1. b \notin freeBlocks' /\ \A y \in InUse' : entries'[y].value # b
      BY <1>2, <1>3, <1>10, <1>13 DEF BlocksInv, PlacedInv
    <3> QED
      BY <2>1, <3>1, <1>3, <1>7 DEF SeesInv, PlaceInv, HolderPCs
  <2>2. CASE e # d
    <3>1. SeesInv(e) /\ PlaceInv(e) /\ epc'[e] = epc[e] /\ eat'[e] = eat[e]
      BY <1>7, <2>2 DEF EatersInv
    <3>2. epc[e] \in HolderPCs => \A i \in {eat[e].index} : i \in Nat /\ Open(i)
      BY LocalsType DEF Open, Held
    <3>3. SeesInv(e)'
      <4>1. IndexesKept
        BY <1>2, HeaderIs DEF IndexesKept, RingInv
      <4>2. ASSUME NEW i \in {eat[e].index}, epc[e] \in {"slot", "find"} PROVE KeysKept(i)
        <5>1. entries[x].key # Base(i)
          BY <4>2, <3>2, <1>3 DEF HolderPCs
        <5>2. \A y \in InUse : entries[y].key = Base(i) => y \in InUse' /\ entries'[y].key = entries[y].key
          BY <5>1, <1>5, <1>6 DEF InUse
        <5> QED
          BY <5>2, <1>6 DEF KeysKept
      <4> QED
        BY <3>1, <4>1, <4>2, <1>5, SeesInvKept
    <3>4. epc[e] \in {"take", "empty", "clear"} => eat[e].entry \in InUse' /\ entries'[eat[e].entry] = entries[eat[e].entry]
      <4>1. epc[e] \in {"take", "empty", "clear"} => eat[e].entry \in InUse
        BY <3>1 DEF PlaceInv
      <4>2. epc[e] = "take" => eat[e].entry # x
        BY <3>1, <3>2, <1>3 DEF PlaceInv, HolderPCs
      <4>3. epc[e] \in {"empty", "clear"} => eat[e].entry # x
        BY <3>1, <2>2, <1>3, <1>18 DEF PlaceInv
      <4> QED
        BY <4>1, <4>2, <4>3, <1>5, <1>6 DEF InUse
    <3>5. epc[e] = "free" => eat[e].block \notin freeBlocks' /\ \A z \in InUse' : entries'[z].value # eat[e].block
      BY <3>1, <1>2, <1>13 DEF PlaceInv
    <3>6. headIndex' \in Nat /\ headIndex <= headIndex'
      BY <1>2 DEF SubTypeOK
    <3>7. PlaceInv(e)'
      BY <3>1, <3>4, <3>5, <3>6, <1>2, PlaceFrame
    <3> QED
      BY <3>3, <3>7
  <2> QED
    BY <2>1, <2>2
<1>20. ASSUME NEW e \in Eaters, NEW f \in Eaters, e # f PROVE Apart(e, f)'
  <2>1. \A g \in Eaters : epc[g] = "free" => eat[g].block # b
    BY <1>3 DEF EatersInv, PlaceInv
  <2> QED
    BY <2>1, <1>2, <1>7, <1>20 DEF EatersInv, Apart, HolderPCs
<1> QED
  BY <1>5, <1>16, <1>17, <1>19, <1>20 DEF EatersInv

\* The block is given back.
LEMMA FreeBlockStep ==
    ASSUME SubTypeOK, SubTypeOK', CountsInv, RingInv, BlocksInv, EatersInv, EatenInv, ~gone,
           NEW d \in Eaters, FreeBlock(d)
    PROVE  RingInv' /\ BlocksInv' /\ EatersInv' /\ EatenInv'
<1>1. PICK b \in {eat[d].block} : TRUE
  OBVIOUS
<1>2. /\ epc[d] = "free" /\ freeBlocks' = freeBlocks \cup {b}
      /\ UNCHANGED <<headers, entries, content, emptied, tailBlock, eaten, gone, ppc, idxEntry, items, headIndex>>
  BY DEF FreeBlock, countVars, producerVars
<1>3. epc'[d] = "idle" /\ \A e \in Eaters : e # d => epc'[e] = epc[e] /\ eat'[e] = eat[e]
  BY DEF SubTypeOK, FreeBlock, Eat
<1>4. b \in 1..SubBlocks /\ b \notin freeBlocks /\ \A x \in InUse : entries[x].value # b
  BY <1>2 DEF EatersInv, PlaceInv
<1>5. RingInv' /\ InUse' = InUse /\ Kept /\ Got' = Got
  BY <1>2, QuietRing
<1>6. OpenSame
  <2>1. \A i : Held(i)' <=> Held(i)
    BY <1>2, <1>3 DEF Held, HolderPCs
  <2> QED
    BY <2>1, <1>2 DEF OpenSame, Open
<1>7. ASSUME NEW y \in InUse PROVE BlockInv(y)'
  <2>1. PICK v, k : /\ v = entries[y].value /\ k = entries[y].key /\ v = entries'[y].value /\ k = entries'[y].key
                    /\ k \in Nat /\ v \in 1..SubBlocks
    BY <1>2, InUseIs
  <2>2. HasItems(v, k) /\ HasCount(v, k) /\ (emptied[v] = BLOCK_SIZE => \E e \in Eaters : Clears(e, v))
        /\ (Num(y) + 1 = Got => v = tailBlock)
    BY <2>1 DEF BlocksInv, BlockInv
  <2>3. \A m \in k..(k + BLOCK_SIZE - 1) : m \in Nat
    BY <2>1, BlockSize
  <2>4. HasItems(v, k)'
    BY <2>2, <2>3, <1>2, <1>6 DEF HasItems, OpenSame, Filled
  <2>5. OpenIn(k)' = OpenIn(k) /\ Emptying(v)' = Emptying(v)
    BY <2>3, <1>2, <1>3, <1>6 DEF OpenIn, OpenSame, Emptying
  <2>6. HasCount(v, k)'
    BY <2>2, <2>5, <1>2 DEF HasCount
  <2>7. emptied'[v] = BLOCK_SIZE => \E e \in Eaters : Clears(e, v)'
    BY <2>2, <1>2, <1>3 DEF Clears
  <2>8. Num(y)' + 1 = Got' => v = tailBlock'
    BY <2>2, <1>2, <1>5 DEF Num
  <2> QED
    BY <2>1, <2>4, <2>6, <2>7, <2>8 DEF BlockInv
<1>8. OpenInv'
  BY <1>2, <1>5, <1>6 DEF BlocksInv, OpenInv, OpenSame
<1>9. PlacedInv'
  <2>1. \A e \in Eaters : \A v : Frees(e, v) /\ v # b => Frees(e, v)'
    BY <1>2, <1>3 DEF Frees
  <2> QED
    BY <2>1, <1>2, <1>4, <1>5 DEF BlocksInv, PlacedInv
<1>10. BlocksInv'
  BY <1>2, <1>5, <1>7, <1>8, <1>9 DEF BlocksInv
<1>11. EatenInv'
  BY <1>2, <1>6, EatenFrame
<1>12. ASSUME NEW e \in Eaters PROVE SeesInv(e)' /\ PlaceInv(e)'
  <2>1. CASE e = d
    BY <2>1, <1>3 DEF SeesInv, PlaceInv, HolderPCs
  <2>2. CASE e # d
    <3>1. SeesInv(e) /\ PlaceInv(e) /\ epc'[e] = epc[e] /\ eat'[e] = eat[e]
      BY <1>3, <2>2 DEF EatersInv
    <3>2. SeesInv(e)'
      BY <3>1, <1>5, KeptIsEnough, SeesInvKept
    <3>3. epc[e] = "free" => eat[e].block # b
      BY <2>2, <1>2 DEF EatersInv, Apart
    <3>4. epc[e] = "free" => eat[e].block \notin freeBlocks' /\ \A z \in InUse' : entries'[z].value # eat[e].block
      BY <3>1, <3>3, <1>2, <1>5 DEF PlaceInv
    <3>5. headIndex' \in Nat /\ headIndex <= headIndex'
      BY <1>2 DEF SubTypeOK
    <3>6. PlaceInv(e)'
      BY <3>1, <3>4, <3>5, <1>2, <1>5, PlaceFrame
    <3> QED
      BY <3>2, <3>6
  <2> QED
    BY <2>1, <2>2
<1>13. ASSUME NEW e \in Eaters, NEW f \in Eaters, e # f PROVE Apart(e, f)'
  BY <1>3, <1>13 DEF EatersInv, Apart, HolderPCs
<1> QED
  BY <1>5, <1>10, <1>11, <1>12, <1>13 DEF EatersInv

\* Where the producer is to put its next item: the block of that index is in use,
\* and it is the tail block.
LEMMA TailBlockIs ==
    ASSUME SubTypeOK, CountsInv, RingInv, BlocksInv,
           ppc = "construct" \/ (ppc = "idle" /\ items % BLOCK_SIZE # 0)
    PROVE  \E x \in InUse : entries[x].key = Base(items) /\ entries[x].value = tailBlock
<1>1. items \in Nat /\ items \div BLOCK_SIZE \in Nat
  BY NumbersType
<1>2. Got = (items \div BLOCK_SIZE) + 1
  BY <1>1 DEF Got, Numbers
<1>3. Open(items)
  BY CountsSmall, <1>1 DEF Open, SubTypeOK
<1>4. PICK x \in InUse : entries[x].key = Base(items)
  BY <1>1, <1>2, <1>3 DEF BlocksInv, OpenInv
<1>5. Num(x) + 1 = Got
  BY <1>1, <1>2, <1>4, BaseOf DEF Num
<1>6. entries[x].value = tailBlock
  BY <1>5 DEF BlocksInv, BlockInv
<1> QED
  BY <1>4, <1>6

\* An item is put.
LEMMA ConstructStep ==
    ASSUME SubTypeOK, SubTypeOK', CountsInv, RingInv, BlocksInv, EatersInv, EatenInv,
           EnqueueInBlock \/ ConstructFirst
    PROVE  RingInv' /\ BlocksInv' /\ EatersInv' /\ EatenInv'
<1>1. /\ UNCHANGED <<headers, entries, emptied, freeBlocks, tailBlock, headIndex, items, epc, eat, eaten, gone>>
      /\ ppc' = "publish" /\ tailIndex = items
      /\ content' = [content EXCEPT ![tailBlock][tailIndex % BLOCK_SIZE] = items + 1]
  BY DEF EnqueueInBlock, ConstructFirst, Construct, countVars, eaterVars, CountsInv
<1>2. ppc = "construct" \/ (ppc = "idle" /\ items % BLOCK_SIZE # 0)
  BY <1>1 DEF EnqueueInBlock, ConstructFirst
<1>3. PICK x \in InUse : entries[x].key = Base(items) /\ entries[x].value = tailBlock
  BY <1>2, TailBlockIs
<1>4. RingInv' /\ InUse' = InUse /\ Kept /\ Got' = Got
  BY CalmRing
<1>5. LateSame
  BY <1>1 DEF LateSame
<1>6. OpenSame /\ BusySame
  BY <1>1, <1>5, LateIsSame
<1>7. items \in Nat
  BY NumbersType
<1>8. \A i \in Nat : Filled(i)' <=> Filled(i) \/ i = items
  BY <1>1, <1>2, <1>7 DEF Filled
<1>9. PICK b, s : b = tailBlock /\ s = items % BLOCK_SIZE /\ b \in 1..SubBlocks /\ s \in 0..(BLOCK_SIZE - 1)
  BY <1>3, <1>7, InUseIs, BaseOf
<1>10. content' = [content EXCEPT ![b][s] = items + 1] /\ content \in [1..SubBlocks -> [0..(BLOCK_SIZE - 1) -> Nat]]
  BY <1>1, <1>9 DEF SubTypeOK
<1>11. ASSUME NEW y \in InUse PROVE BlockInv(y)'
  <2>1. PICK v, k : /\ v = entries[y].value /\ k = entries[y].key /\ v = entries'[y].value /\ k = entries'[y].key
                    /\ k \in Nat /\ v \in 1..SubBlocks /\ k % BLOCK_SIZE = 0
    BY <1>1, InUseIs
  <2>2. HasItems(v, k) /\ HasCount(v, k) /\ (emptied[v] = BLOCK_SIZE => \E e \in Eaters : Clears(e, v))
        /\ (Num(y) + 1 = Got => v = tailBlock)
    BY <2>1 DEF BlocksInv, BlockInv
  <2>3. \A m \in k..(k + BLOCK_SIZE - 1) : m \in Nat
    BY <2>1, BlockSize
  <2>4. HasItems(v, k)'
    <3>1. ASSUME NEW m \in k..(k + BLOCK_SIZE - 1), Open(m)', Filled(m)' PROVE content'[v][m % BLOCK_SIZE] = m + 1
      <4>1. m \in Nat /\ k = Base(m)
        BY <2>1, <2>3, BaseOf
      <4>2. PICK r \in 0..(BLOCK_SIZE - 1) : r = m % BLOCK_SIZE
        BY <4>1, BaseOf
      <4>3. CASE m = items
        <5>1. y = x
          BY <4>1, <4>3, <2>1, <1>3, KeysApart
        <5>2. v = b /\ r = s
          BY <5>1, <4>2, <4>3, <2>1, <1>3, <1>9
        <5>3. content'[v][r] = items + 1
          BY <5>2, <1>9, <1>10
        <5> QED
          BY <5>3, <4>2, <4>3
      <4>4. CASE m # items
        <5>1. content[v][r] = m + 1
          BY <3>1, <4>1, <4>2, <4>4, <2>2, <1>6, <1>8 DEF HasItems, OpenSame
        <5>2. ~(v = b /\ r = s)
          <6>1. ASSUME v = b, r = s PROVE FALSE
            <7>1. y = x
              BY <6>1, <2>1, <1>3, <1>9 DEF BlocksInv
            <7>2. Base(m) = Base(items) /\ m % BLOCK_SIZE = items % BLOCK_SIZE
              BY <7>1, <6>1, <4>1, <4>2, <2>1, <1>3, <1>9
            <7> QED
              BY <7>2, <4>1, <4>4, <1>7, SlotsApart
          <6> QED
            BY <6>1
        <5>3. content'[v][r] = content[v][r]
          BY <5>2, <2>1, <1>9, <1>10
        <5> QED
          BY <5>1, <5>3, <4>2
      <4> QED
        BY <4>3, <4>4
    <3> QED
      BY <3>1 DEF HasItems
  <2>5. OpenIn(k)' = OpenIn(k)
    BY <2>3, <1>6 DEF OpenIn, OpenSame
  <2>6. HasCount(v, k)'
    BY <2>2, <2>5, <1>1, <1>6 DEF HasCount, BusySame
  <2>7. emptied'[v] = BLOCK_SIZE => \E e \in Eaters : Clears(e, v)'
    BY <2>2, <1>1, <1>6 DEF BusySame
  <2>8. Num(y)' + 1 = Got' => v = tailBlock'
    BY <2>2, <1>1, <1>4 DEF Num
  <2> QED
    BY <2>1, <2>4, <2>6, <2>7, <2>8 DEF BlockInv
<1>12. OpenInv'
  BY <1>1, <1>4, <1>6 DEF BlocksInv, OpenInv, OpenSame
<1>13. PlacedInv'
  BY <1>1, <1>4, <1>6 DEF BlocksInv, PlacedInv, BusySame
<1>14. BlocksInv'
  BY <1>1, <1>4, <1>11, <1>12, <1>13 DEF BlocksInv
<1>15. EatenInv'
  BY <1>1, <1>6, EatenFrame
<1>16. ASSUME NEW e \in Eaters PROVE SeesInv(e)' /\ PlaceInv(e)'
  <2>1. SeesInv(e) /\ PlaceInv(e) /\ epc'[e] = epc[e] /\ eat'[e] = eat[e]
    BY <1>1 DEF EatersInv
  <2>2. SeesInv(e)'
    BY <2>1, <1>4, KeptIsEnough, SeesInvKept
  <2>3. PlaceInv(e)'
    BY <2>1, <1>1, <1>4 DEF PlaceInv
  <2> QED
    BY <2>2, <2>3
<1>17. \A e, f \in Eaters : e # f => Apart(e, f)'
  BY <1>1 DEF EatersInv, Apart
<1> QED
  BY <1>4, <1>14, <1>15, <1>16, <1>17 DEF EatersInv

\* A block is put into use: all of its indexes are open.
LEMMA GetBlockStep ==
    ASSUME SubTypeOK, SubTypeOK', CountsInv, RingInv, BlocksInv, EatersInv, EatenInv, ~gone, GetBlock
    PROVE  RingInv' /\ BlocksInv' /\ EatersInv' /\ EatenInv'
<1>1. PICK b \in freeBlocks :
         /\ freeBlocks' = freeBlocks \ {b} /\ emptied' = [emptied EXCEPT ![b] = 0]
         /\ entries' = [entries EXCEPT ![idxEntry].value = b] /\ tailBlock' = b
  BY BlockGot
<1>2. PICK x : x = idxEntry
  OBVIOUS
<1>3. /\ RingInv' /\ x \in Ids /\ InUse' = InUse \cup {x} /\ x \notin InUse /\ Kept
      /\ Got' = Got + 1 /\ Num(x) = Got /\ Whole(x) /\ entries'[x].value = b
      /\ entries[x].key = items /\ entries'[x].key = items /\ b \in 1..SubBlocks
      /\ \A y \in Ids : y # x => entries'[y] = entries[y]
  BY <1>1, <1>2, GetBlockRing
<1>4. /\ UNCHANGED <<headers, content, headIndex, items, epc, eat, eaten, gone>> /\ ppc = "block" /\ ppc' = "construct"
      /\ items % BLOCK_SIZE = 0
  BY DEF GetBlock, countVars, eaterVars, RingInv, StepInv
<1>5. items \in Nat /\ Got \in Nat /\ headIndex <= items /\ headIndex \in Nat
  BY NumbersType, CountsSmall DEF SubTypeOK
<1>6. emptied'[b] = 0 /\ \A v \in 1..SubBlocks : v # b => emptied'[v] = emptied[v]
  BY <1>1, <1>3 DEF SubTypeOK
<1>7. LateSame
  BY <1>4 DEF LateSame
<1>8. OpenSame /\ BusySame
  BY <1>4, <1>7, LateIsSame
<1>9. \A y \in InUse : entries[y].value # b /\ y # x /\ y \in Ids /\ entries'[y] = entries[y]
  BY <1>1, <1>3 DEF BlocksInv, PlacedInv, InUse
<1>10. Emptying(b) = {}
  BY <1>9 DEF Emptying, EatersInv, PlaceInv
<1>11. BlockInv(x)'
  <2>1. PICK k \in Nat : k = items
    BY <1>5
  <2>2. HasItems(b, k)'
    <3>1. \A i \in k..(k + BLOCK_SIZE - 1) : ~Filled(i)'
      BY <2>1, <1>4, <1>5, BlockSize DEF Filled
    <3> QED
      BY <3>1 DEF HasItems
  <2>3. HasCount(b, k)'
    <3>1. \A i \in k..(k + BLOCK_SIZE - 1) : Open(i) /\ i \in Nat
      BY <2>1, <1>5, BlockSize DEF Open
    <3>2. Cardinality(OpenIn(k)) = BLOCK_SIZE
      BY <3>1, CountOf
    <3>3. OpenIn(k)' = OpenIn(k)
      BY <3>1, <1>8 DEF OpenIn, OpenSame
    <3>4. Emptying(b)' = {} /\ Cardinality({}) = 0
      BY <1>8, <1>10, FS_EmptySet DEF BusySame
    <3>5. Cardinality(Emptying(b)') = 0 /\ Cardinality(OpenIn(k)') = BLOCK_SIZE
      BY <3>2, <3>3, <3>4
    <3> QED
      BY <3>5, <1>6, BlockSize DEF HasCount
  <2>4. emptied'[b] # BLOCK_SIZE
    BY <1>6, BlockSize
  <2> QED
    BY <2>1, <2>2, <2>3, <2>4, <1>1, <1>3 DEF BlockInv
<1>12. ASSUME NEW y \in InUse PROVE BlockInv(y)'
  <2>1. PICK v, k : /\ v = entries[y].value /\ k = entries[y].key /\ v = entries'[y].value /\ k = entries'[y].key
                    /\ k \in Nat /\ v \in 1..SubBlocks /\ v # b
    BY <1>9, InUseIs
  <2>2. HasItems(v, k) /\ HasCount(v, k) /\ (emptied[v] = BLOCK_SIZE => \E e \in Eaters : Clears(e, v))
    BY <2>1 DEF BlocksInv, BlockInv
  <2>3. \A m \in k..(k + BLOCK_SIZE - 1) : m \in Nat
    BY <2>1, BlockSize
  <2>4. HasItems(v, k)'
    BY <2>2, <2>3, <1>4, <1>8 DEF HasItems, OpenSame, Filled
  <2>5. OpenIn(k)' = OpenIn(k)
    BY <2>3, <1>8 DEF OpenIn, OpenSame
  <2>6. HasCount(v, k)'
    BY <2>1, <2>2, <2>5, <1>6, <1>8 DEF HasCount, BusySame
  <2>7. emptied'[v] = BLOCK_SIZE => \E e \in Eaters : Clears(e, v)'
    BY <2>1, <2>2, <1>6, <1>8 DEF BusySame
  <2>8. Num(y)' + 1 # Got'
    <3>1. Num(y) < Got /\ Num(y) \in Nat
      BY InUseIs
    <3>2. Num(y)' = Num(y)
      BY <1>9 DEF Num
    <3> QED
      BY <3>1, <3>2, <1>3, <1>5
  <2> QED
    BY <2>1, <2>4, <2>6, <2>7, <2>8 DEF BlockInv
<1>13. OpenInv'
  <2>1. ASSUME NEW i \in Nat, Open(i)', i \div BLOCK_SIZE < Got' PROVE \E y \in InUse' : entries'[y].key = Base(i)
    <3>1. i \div BLOCK_SIZE \in Nat
      BY BaseOf
    <3>2. CASE i \div BLOCK_SIZE < Got
      <4>1. PICK y \in InUse : entries[y].key = Base(i)
        BY <2>1, <3>2, <1>8 DEF BlocksInv, OpenInv, OpenSame
      <4> QED
        BY <4>1, <1>3, <1>9
    <3>3. CASE i \div BLOCK_SIZE = Got
      <4>1. PICK k \in Nat : k = Base(i) /\ k % BLOCK_SIZE = 0 /\ k \div BLOCK_SIZE = i \div BLOCK_SIZE
        BY BaseOf
      <4>2. items \div BLOCK_SIZE = k \div BLOCK_SIZE
        BY <4>1, <3>3, <1>3 DEF Num
      <4>3. k = items
        BY <4>1, <4>2, <1>4, <1>5, BlockSize, WholeOrder
      <4> QED
        BY <4>1, <4>3, <1>3
    <3> QED
      BY <2>1, <3>1, <3>2, <3>3, <1>3, <1>5
  <2> QED
    BY <2>1 DEF OpenInv
<1>14. PlacedInv'
  <2>1. \A y \in InUse' : entries'[y].value \notin freeBlocks'
    BY <1>1, <1>3, <1>9 DEF BlocksInv, PlacedInv
  <2>2. \A v \in 1..SubBlocks : \/ v \in freeBlocks'
                                \/ \E y \in InUse' : entries'[y].value = v
                                \/ \E e \in Eaters : Frees(e, v)'
    BY <1>1, <1>3, <1>8, <1>9 DEF BlocksInv, PlacedInv, BusySame
  <2> QED
    BY <2>1, <2>2 DEF PlacedInv
<1>15. BlocksInv'
  <2>1. \A y, z \in InUse' : entries'[y].value = entries'[z].value => y = z
    BY <1>3, <1>9 DEF BlocksInv
  <2> QED
    BY <2>1, <1>3, <1>11, <1>12, <1>13, <1>14 DEF BlocksInv
<1>16. EatenInv'
  BY <1>4, <1>8, EatenFrame
<1>17. ASSUME NEW e \in Eaters PROVE SeesInv(e)' /\ PlaceInv(e)'
  <2>1. SeesInv(e) /\ PlaceInv(e) /\ epc'[e] = epc[e] /\ eat'[e] = eat[e]
    BY <1>4 DEF EatersInv
  <2>2. SeesInv(e)'
    BY <2>1, <1>3, KeptIsEnough, SeesInvKept
  <2>3. epc[e] \in {"take", "empty", "clear"} => eat[e].entry \in InUse /\ eat[e].entry \in InUse'
                                                  /\ entries'[eat[e].entry] = entries[eat[e].entry]
    BY <2>1, <1>3, <1>9 DEF PlaceInv
  <2>4. epc[e] = "clear" => emptied'[eat[e].block] = emptied[eat[e].block]
    <3>1. epc[e] = "clear" => eat[e].block \in 1..SubBlocks /\ eat[e].block # b
      BY <2>1, <1>9, InUseIs DEF PlaceInv
    <3> QED
      BY <3>1, <1>6
  <2>5. epc[e] = "free" => eat[e].block \notin freeBlocks' /\ \A z \in InUse' : entries'[z].value # eat[e].block
    BY <2>1, <1>1, <1>3, <1>9 DEF PlaceInv
  <2>6. PlaceInv(e)'
    BY <2>1, <2>3, <2>4, <2>5, <1>4, <1>5, PlaceFrame
  <2> QED
    BY <2>2, <2>6
<1>18. \A e, f \in Eaters : e # f => Apart(e, f)'
  BY <1>4 DEF EatersInv, Apart
<1> QED
  BY <1>3, <1>15, <1>16, <1>17, <1>18 DEF EatersInv

\* The other steps of the producer leave the blocks and the dequeuers alone.
LEMMA ProducerStep ==
    ASSUME SubTypeOK, SubTypeOK', CountsInv, RingInv, BlocksInv, EatersInv, EatenInv,
           EnqueueNewBlock \/ InsertEntry \/ AdvanceTail \/ NoNewBlock \/ Publish
    PROVE  RingInv' /\ BlocksInv' /\ EatersInv' /\ EatenInv'
<1>1. RingInv' /\ InUse' = InUse /\ Kept /\ Got' = Got
  BY CalmRing, InsertRing, AdvanceRing, NoNewBlockRing, StepsKeepNumbers
<1>2. UNCHANGED <<headIndex, content, emptied, freeBlocks, tailBlock, eaten, gone, epc, eat>>
  BY DEF EnqueueNewBlock, InsertEntry, AdvanceTail, NoNewBlock, Publish, ringVars, countVars, eaterVars
<1>3. LateSame
  BY <1>2 DEF LateSame
<1>4. items \in Nat
  BY NumbersType
<1>5. ASSUME NEW i \in Nat PROVE Filled(i)' <=> Filled(i)
  <2>1. CASE Publish
    BY <2>1, <1>4 DEF Publish, Filled
  <2>2. CASE EnqueueNewBlock \/ InsertEntry \/ AdvanceTail \/ NoNewBlock
    BY <2>2 DEF EnqueueNewBlock, InsertEntry, KeyInto, AdvanceTail, NoNewBlock, Filled
  <2> QED
    BY <2>1, <2>2
<1> QED
  BY <1>1, <1>2, <1>3, <1>5, QuietStep

\* So do the steps of a dequeuer that has no index yet.
LEMMA EarlyStep ==
    ASSUME SubTypeOK, SubTypeOK', CountsInv, RingInv, BlocksInv, EatersInv, EatenInv, NEW d \in Eaters,
           LoadTail(d) \/ LoadOvercommit(d) \/ Peek(d) \/ CountMe(d) \/ CheckTail(d) \/ Repay(d)
    PROVE  RingInv' /\ BlocksInv' /\ EatersInv' /\ EatenInv'
<1>1. UNCHANGED <<ringVars, headIndex, producerVars, eaten, gone>>
  BY DEF LoadTail, LoadOvercommit, Peek, CountMe, CheckTail, Repay, countVars
<1>2. UNCHANGED <<headers, entries, content, emptied, freeBlocks, tailBlock, ppc, idxEntry, items, headIndex, eaten, gone>>
  BY <1>1 DEF ringVars, producerVars
<1>3. RingInv' /\ InUse' = InUse /\ Kept /\ Got' = Got
  BY <1>2, QuietRing
<1>4. PICK p, l : Moved(d, p, l) /\ p \notin LatePCs /\ epc[d] \notin LatePCs
  <2>1. CASE LoadTail(d)
    BY <2>1 DEF LoadTail, Eat, Moved, LatePCs
  <2>2. CASE LoadOvercommit(d)
    BY <2>2 DEF LoadOvercommit, Eat, Moved, LatePCs
  <2>3. CASE Peek(d)
    BY <2>3 DEF Peek, Eat, Moved, LatePCs
  <2>4. CASE CountMe(d)
    BY <2>4 DEF CountMe, Eat, Moved, LatePCs
  <2>5. CASE CheckTail(d)
    <3>1. PICK p \in {"head", "repay"} : Eat(d, p, Rest)
      BY <2>5 DEF CheckTail
    <3> QED
      BY <2>5, <3>1 DEF CheckTail, Eat, Moved, LatePCs
  <2>6. CASE Repay(d)
    BY <2>6 DEF Repay, Eat, Moved, LatePCs
  <2> QED
    BY <2>1, <2>2, <2>3, <2>4, <2>5, <2>6
<1>5. LateSame
  BY <1>4 DEF LateSame, Moved, SubTypeOK
<1> QED
  BY <1>2, <1>3, <1>5, QuietStep DEF Filled

-----------------------------------------------------------------------------
\* The destructor.  When nobody is inside, the open indexes are those from the head
\* on, and a block in use has one of them.
LEMMA RestingIs ==
    ASSUME SubTypeOK, CountsInv, RingInv, BlocksInv, Resting
    PROVE  /\ \A i : Open(i) <=> i >= headIndex
           /\ Left = items - headIndex /\ Left \in Nat /\ headIndex \in Nat /\ headIndex <= items
           /\ \A x \in InUse : headIndex < entries[x].key + BLOCK_SIZE
<1>1. \A d \in Eaters : epc[d] = "idle"
  BY DEF Resting
<1>2. \A i : Open(i) <=> i >= headIndex
  BY <1>1 DEF Open, Held, HolderPCs
<1>3. /\ headIndex \in Nat /\ items \in Nat /\ tailIndex = items /\ headIndex <= items
      /\ items <= Modulus \div 2 /\ Modulus \div 2 \in Nat
  BY CountsSmall, NumbersType, ModulusLarge DEF SubTypeOK, CountsInv
<1>4. Left = items - headIndex /\ Left \in Nat
  <2>1. PICK a \in Nat, b \in Nat : a = items /\ b = headIndex /\ b <= a /\ a <= Modulus \div 2 /\ b <= Modulus \div 2
    BY <1>3
  <2>2. Minus(a, b) = a - b
    BY <2>1, CircularSmall
  <2> QED
    BY <2>1, <2>2, <1>3 DEF Left
<1>5. ASSUME NEW x \in InUse, entries[x].key + BLOCK_SIZE <= headIndex PROVE FALSE
  <2>1. PICK k \in Nat, b \in 1..SubBlocks : k = entries[x].key /\ b = entries[x].value
    BY InUseIs
  <2>2. OpenIn(k) = {}
    <3>1. \A i \in k..(k + BLOCK_SIZE - 1) : ~(i >= headIndex)
      BY <2>1, <1>3, <1>5, BlockSize
    <3> QED
      BY <3>1, <1>2 DEF OpenIn
  <2>3. Emptying(b) = {}
    BY <1>1 DEF Emptying
  <2>4. HasCount(b, k) /\ (emptied[b] = BLOCK_SIZE => \E d \in Eaters : Clears(d, b))
    BY <2>1 DEF BlocksInv, BlockInv
  <2>5. emptied[b] = BLOCK_SIZE
    <3>1. emptied[b] \in Nat
      BY DEF SubTypeOK
    <3>2. emptied[b] + 0 + 0 = BLOCK_SIZE
      BY <2>2, <2>3, <2>4, FS_EmptySet DEF HasCount
    <3> QED
      BY <3>1, <3>2
  <2> QED
    BY <2>4, <2>5, <1>1 DEF Clears
<1>6. ASSUME NEW x \in InUse PROVE headIndex < entries[x].key + BLOCK_SIZE
  <2>1. entries[x].key \in Nat
    BY InUseIs
  <2> QED
    BY <2>1, <1>3, <1>5, BlockSize
<1> QED
  BY <1>2, <1>3, <1>4, <1>6

\* The destructor finds the block of an index as a dequeuer does.
LEMMA BlockFound ==
    ASSUME SubTypeOK, CountsInv, RingInv, NEW i \in Nat, NEW x \in InUse, entries[x].key = Base(i)
    PROVE  BlockOf(i) = entries[x].value
<1>1. PICK j \in {Len(headers)}, p \in {Header.tail} : Sees(j, p, i)
  BY RingFinds
<1>2. LookedUp(j, p, i) \in InUse /\ entries[LookedUp(j, p, i)].key = Base(i)
  BY <1>1, SeesFinds
<1>3. LookedUp(j, p, i) = x
  BY <1>2, KeysApart
<1>4. BlockOf(i) = entries[LookedUp(j, p, i)].value
  BY ZenonT(30), <1>1 DEF BlockOf, LookedUp, Header
<1> QED
  BY <1>3, <1>4

\* A block there is has an item, when the producer is at rest.
LEMMA GotItems ==
    ASSUME SubTypeOK, ppc = "idle", NEW n \in Nat, n < Got
    PROVE  BLOCK_SIZE * n < items /\ BLOCK_SIZE * n \in Nat
<1>1. PICK b \in Nat, m \in Nat : b = BLOCK_SIZE /\ b > 1 /\ m = items
  BY NumbersType, BlockSize
<1>2. PICK q \in Nat, r \in Nat : q = m \div b /\ r = m % b /\ m = b * q + r /\ r < b
  BY <1>1, DivMod
<1>3. Got = q + (IF r # 0 THEN 1 ELSE 0)
  BY <1>1, <1>2 DEF Got, Numbers
<1>4. b * n \in Nat
  BY <1>1
<1>5. CASE r # 0
  <2>1. n <= q
    BY <1>2, <1>3, <1>5
  <2>2. b * n <= b * q
    BY <2>1, <1>1, <1>2
  <2> QED
    BY <2>2, <1>1, <1>2, <1>4, <1>5
<1>6. CASE r = 0
  <2>1. n + 1 <= q
    BY <1>2, <1>3, <1>6
  <2>2. b * n + b <= b * q
    BY <2>1, <1>1, <1>2
  <2> QED
    BY <2>2, <1>1, <1>2, <1>4, <1>6
<1> QED
  BY <1>5, <1>6

\* The blocks the loop passes are those in use that are not the last.
LEMMA PassedIs ==
    ASSUME SubTypeOK, CountsInv, RingInv, BlocksInv, Resting
    PROVE  /\ \A b \in PassedBlocks : \E x \in InUse : b = entries[x].value /\ Num(x) + 1 < Got
           /\ \A x \in InUse : Num(x) + 1 < Got => entries[x].value \in PassedBlocks
<1>1. PICK h \in Nat, z \in Nat : h = headIndex /\ z = items /\ h <= z /\ Left = z - h
  BY RestingIs, NumbersType
<1>2. z < Modulus /\ z <= Modulus \div 2 /\ Modulus \in Nat /\ Modulus > 0 /\ Modulus \div 2 \in Nat
  BY <1>1, CountsSmall, ModulusLarge
<1>3. PICK b \in Nat : b = BLOCK_SIZE /\ b > 1
  BY BlockSize
<1>4. ASSUME NEW y \in Nat, y < z, y >= 1 PROVE Minus(y, 1) = y - 1
  <2>1. PICK o \in Nat : o = 1 /\ o <= Modulus \div 2 /\ y <= Modulus \div 2 /\ o <= y
    BY <1>1, <1>2, <1>4
  <2> QED
    BY <2>1, CircularSmall
<1>5. ASSUME NEW m \in Nat, h + m < z PROVE Plus(h, m) = h + m
  <2>1. PICK y \in Nat : y = h + m /\ y < Modulus
    BY <1>1, <1>2, <1>5
  <2>2. y % Modulus = y
    BY <2>1, <1>2, ModSmall
  <2> QED
    BY <2>1, <2>2 DEF Plus
<1>6. ASSUME NEW v \in PassedBlocks PROVE \E x \in InUse : v = entries[x].value /\ Num(x) + 1 < Got
  <2>1. PICK m \in 1..Left : m < Left /\ Plus(h, m) % b = 0 /\ v = BlockOf(Minus(Plus(h, m), 1))
    BY <1>1, <1>3, <1>6 DEF PassedBlocks
  <2>2. m \in Nat /\ m >= 1 /\ h + m < z
    BY <2>1, <1>1
  <2>3. PICK y \in Nat, i \in Nat : y = h + m /\ y < z /\ y >= 1 /\ y = i + 1 /\ i >= h /\ i < z
    <3>1. h + m \in Nat /\ h + m - 1 \in Nat /\ h + m = (h + m - 1) + 1 /\ h + m - 1 >= h /\ h + m - 1 < z /\ h + m >= 1
      BY <2>2, <1>1
    <3> QED
      BY <3>1, <2>2
  <2>4. y % b = 0 /\ v = BlockOf(i)
    <3>1. Plus(h, m) = y
      BY <2>2, <2>3, <1>5
    <3>2. Minus(y, 1) = i
      <4>1. Minus(y, 1) = y - 1
        BY <2>3, <1>4
      <4> QED
        BY <4>1, <2>3
    <3> QED
      BY <3>1, <3>2, <2>1
  <2>5. y \div b = (i \div b) + 1
    <3>1. y = i + 1 /\ b > 1
      BY <2>3, <1>3
    <3>2. IF i % b = b - 1 THEN y % b = 0 /\ y \div b = (i \div b) + 1
          ELSE y % b = (i % b) + 1 /\ y \div b = i \div b
      BY <3>1, DivNext
    <3>3. PICK r \in 0..(b - 1) : r = i % b
      BY <1>3, DivMod
    <3> QED
      BY <3>2, <3>3, <2>4, <1>3
  <2>6. i \div b < Got /\ y \div b < Got
    BY <2>3, <1>1, <1>3, ItemsGot
  <2>7. Open(i)
    BY <2>3, <1>1, RestingIs
  <2>8. PICK x \in InUse : entries[x].key = Base(i)
    BY <2>6, <2>7, <1>3 DEF BlocksInv, OpenInv
  <2>9. BlockOf(i) = entries[x].value
    BY <2>8, BlockFound
  <2>10. Num(x) = i \div b
    BY <2>8, <1>3, BaseOf DEF Num
  <2> QED
    BY <2>4, <2>5, <2>6, <2>9, <2>10
<1>7. ASSUME NEW x \in InUse, Num(x) + 1 < Got PROVE entries[x].value \in PassedBlocks
  <2>1. PICK k \in Nat, q \in Nat : /\ k = entries[x].key /\ q = Num(x) /\ k % b = 0 /\ q = k \div b
                                    /\ h < k + b
    BY <1>1, <1>3, InUseIs, RestingIs DEF Num
  <2>2. k = b * q
    BY <2>1, <1>3, WholeIs
  <2>3. PICK n \in Nat : n = q + 1 /\ n < Got
    BY <2>1, <1>7
  <2>4. b * n < z /\ b * n \in Nat
    BY <2>3, <1>1, <1>3, GotItems DEF Resting
  <2>5. PICK y \in Nat, i \in Nat, m \in Nat :
           /\ y = k + b /\ y = b * n + 0 /\ i = y - 1 /\ m = y - h /\ m >= 1 /\ y < z /\ y = h + m /\ y >= 1
    <3>1. k + b = b * n
      BY <2>2, <2>3, <1>3
    <3>2. k + b \in Nat /\ k + b - 1 \in Nat /\ k + b - h \in Nat /\ k + b - h >= 1 /\ k + b >= 1
             /\ k + b = h + (k + b - h)
      BY <2>1, <1>1, <1>3
    <3>3. k + b = b * n + 0 /\ k + b < z
      BY <3>1, <2>4
    <3> QED
      BY <3>2, <3>3
  <2>6. Plus(h, m) = y
    BY <2>5, <1>5
  <2>7. Minus(y, 1) = i
    <3>1. Minus(y, 1) = y - 1
      BY <2>5, <1>4
    <3> QED
      BY <3>1, <2>5
  <2>8. y % b = 0
    <3>1. PICK r \in 0..(b - 1) : r = 0
      BY <1>3
    <3>2. b > 1 /\ y = b * n + r
      BY <3>1, <2>5, <1>3
    <3>3. y % b = r
      BY <3>2, DivIs
    <3> QED
      BY <3>1, <3>3
  <2>9. k = Base(i)
    <3>1. i \in k..(k + BLOCK_SIZE - 1)
      BY <2>1, <2>5, <1>3
    <3> QED
      BY <3>1, <2>1, <1>3, BaseOf
  <2>10. BlockOf(i) = entries[x].value
    BY <2>9, <2>1, BlockFound
  <2>11. m \in 1..Left /\ m < Left
    BY <2>5, <1>1
  <2> QED
    BY <2>6, <2>7, <2>8, <2>10, <2>11, <1>1, <1>3 DEF PassedBlocks
<1> QED
  BY <1>6, <1>7

\* The last block there is goes by itself, if it is in use; and only then.
LEMMA LastIs ==
    ASSUME SubTypeOK, CountsInv, RingInv, BlocksInv, Resting
    PROVE  /\ \A x \in InUse : Num(x) + 1 = Got => entries[x].value \in LastBlock
           /\ PassedBlocks \cap LastBlock = {} /\ LastBlock \subseteq 1..SubBlocks
<1>1. PICK h \in Nat, z \in Nat : h = headIndex /\ z = items /\ h <= z /\ Left = z - h
  BY RestingIs, NumbersType
<1>2. PICK b \in Nat : b = BLOCK_SIZE /\ b > 1
  BY BlockSize
<1>3. tailIndex = z /\ ppc = "idle"
  BY <1>1 DEF CountsInv, Resting
<1>4. ASSUME NEW x \in InUse, Num(x) + 1 = Got PROVE entries[x].value \in LastBlock
  <2>1. entries[x].value = tailBlock /\ tailBlock # NoBlock
    BY <1>4 DEF BlocksInv, BlockInv, InUse
  <2>2. PICK k \in Nat, q \in Nat : /\ k = entries[x].key /\ q = Num(x) /\ k % b = 0 /\ q = k \div b
                                    /\ h < k + b
    BY <1>1, <1>2, InUseIs, RestingIs DEF Num
  <2>3. ASSUME Left = 0, z % b = 0 PROVE FALSE
    <3>1. z = b * (z \div b) /\ z \div b \in Nat
      BY <2>3, <1>2, WholeIs
    <3>2. Got = z \div b
      BY <3>1, <2>3, <1>1, <1>2, <1>3 DEF Got, Numbers
    <3>3. z = b * (q + 1)
      BY <3>1, <3>2, <2>2, <1>4
    <3>4. k = b * q
      BY <2>2, <1>2, WholeIs
    <3>5. z = k + b
      BY <3>3, <3>4, <2>2, <1>2
    <3> QED
      BY <3>5, <2>2, <2>3, <1>1, <1>2
  <2> QED
    BY <2>1, <2>3, <1>2, <1>3 DEF LastBlock
<1>5. ASSUME NEW v \in PassedBlocks, v \in LastBlock PROVE FALSE
  <2>1. PICK x \in InUse : v = entries[x].value /\ Num(x) + 1 < Got
    BY PassedIs
  <2>2. v = tailBlock
    BY <1>5 DEF LastBlock
  <2>3. PICK k \in Nat, q \in Nat : /\ k = entries[x].key /\ q = Num(x) /\ k % b = 0 /\ q = k \div b
                                    /\ h < k + b
    BY <1>1, <1>2, InUseIs, RestingIs DEF Num
  <2>4. PICK n \in Nat : n + 1 = Got /\ q + 1 <= n
    BY SMTT(30), <2>1, <2>3, NumbersType
  <2>5. PICK i \in Nat : i = b * n + 0
    BY <1>2
  <2>6. i \div b = n
    BY <2>5, <2>4, <1>2, DivIs
  <2>7. i >= h
    <3>1. k = b * q
      BY <2>3, <1>2, WholeIs
    <3>2. b * q + b <= b * n
      BY <2>3, <2>4, <1>2
    <3> QED
      BY <3>1, <3>2, <2>3, <2>5, <1>1, <1>2
  <2>8. i \div b < Got
    BY <2>4, <2>6
  <2>9. PICK y \in InUse : entries[y].key = Base(i)
    BY <2>7, <2>8, <1>1, <1>2, RestingIs DEF BlocksInv, OpenInv
  <2>10. Num(y) = n
    BY <2>6, <2>9, <1>2, BaseOf DEF Num
  <2>11. entries[y].value = tailBlock
    BY <2>4, <2>10 DEF BlocksInv, BlockInv
  <2>12. x = y
    BY <2>1, <2>2, <2>11 DEF BlocksInv
  <2> QED
    BY <2>12, <2>10, <2>3, <2>4
<1>6. LastBlock \subseteq 1..SubBlocks
  <2>1. tailBlock \in 0..SubBlocks
    BY DEF SubTypeOK
  <2>2. tailBlock # 0 => tailBlock \in 1..SubBlocks
    BY <2>1, SubQueueAssumption
  <2> QED
    BY <2>2 DEF LastBlock, NoBlock
<1> QED
  BY <1>4, <1>5, <1>6

\* The destructor gives every block back, and none of them twice.
LEMMA DestroyStep ==
    ASSUME SubTypeOK, CountsInv, RingInv, BlocksInv, EatersInv, EatenInv, Destroy
    PROVE  /\ RingInv' /\ BlocksInv' /\ EatersInv' /\ EatenInv' /\ GoneInv'
           /\ freeBlocks' = 1..SubBlocks
<1>1. /\ UNCHANGED <<tailIndex, headers, entries, content, emptied, tailBlock, headIndex,
                     ppc, idxEntry, items, epc, eat, eaten>>
      /\ Resting /\ ~gone /\ gone' = TRUE /\ freeBlocks' = freeBlocks \cup PassedBlocks \cup LastBlock
  BY DEF Destroy, countVars, producerVars, eaterVars
<1>2. \A d \in Eaters : epc[d] = "idle"
  BY <1>1 DEF Resting
<1>3. RingInv' /\ InUse' = InUse /\ Kept /\ Got' = Got
  BY <1>1, QuietRing
<1>4. freeBlocks' = 1..SubBlocks
  <2>1. freeBlocks \subseteq 1..SubBlocks /\ LastBlock \subseteq 1..SubBlocks
    BY <1>1, LastIs DEF SubTypeOK
  <2>2. PassedBlocks \subseteq 1..SubBlocks
    BY <1>1, PassedIs, InUseIs
  <2>3. ASSUME NEW b \in 1..SubBlocks PROVE b \in freeBlocks \cup PassedBlocks \cup LastBlock
    <3>1. CASE b \in freeBlocks
      BY <3>1
    <3>2. CASE \E x \in InUse : entries[x].value = b
      <4>1. PICK x \in InUse : entries[x].value = b
        BY <3>2
      <4>2. Num(x) < Got /\ Num(x) \in Nat /\ Got \in Nat
        BY InUseIs, NumbersType
      <4>3. Num(x) + 1 = Got \/ Num(x) + 1 < Got
        BY <4>2
      <4> QED
        BY <4>1, <4>3, <1>1, PassedIs, LastIs
    <3> QED
      BY <3>1, <3>2, <1>1, <1>2 DEF BlocksInv, PlacedInv, Frees
  <2> QED
    BY <2>1, <2>2, <2>3, <1>1
<1>5. GoneInv'
  <2>1. PassedBlocks \cap LastBlock = {}
    BY <1>1, LastIs
  <2>2. PassedBlocks' = PassedBlocks /\ LastBlock' = LastBlock /\ (Resting' <=> Resting)
    BY ZenonT(30), <1>1 DEF PassedBlocks, LastBlock, Resting, BlockOf, Left, Header
  <2> QED
    BY <2>1, <2>2, <1>1, <1>4 DEF GoneInv
<1>6. OpenSame /\ BusySame
  <2>1. LateSame
    BY <1>1 DEF LateSame
  <2> QED
    BY <2>1, <1>1, LateIsSame
<1>7. BlocksInv'
  <2>1. ASSUME NEW x \in InUse PROVE BlockInv(x)'
    <3>1. PICK b \in {entries[x].value}, k \in {entries[x].key} : b = entries'[x].value /\ k = entries'[x].key
      BY <1>1
    <3>2. HasItems(b, k) /\ HasCount(b, k) /\ (emptied[b] = BLOCK_SIZE => \E d \in Eaters : Clears(d, b))
          /\ (Num(x) + 1 = Got => b = tailBlock)
      BY <3>1 DEF BlocksInv, BlockInv
    <3>3. HasItems(b, k)'
      BY <3>2, <1>1 DEF HasItems, Open, Held, Filled
    <3>4. HasCount(b, k)'
      BY <3>2, <1>1 DEF HasCount, Emptying, OpenIn, Open, Held
    <3>5. emptied'[b] = BLOCK_SIZE => \E d \in Eaters : Clears(d, b)'
      BY <3>2, <1>1 DEF Clears
    <3>6. Num(x)' + 1 = Got' => b = tailBlock'
      BY <3>2, <1>1, <1>3 DEF Num
    <3> QED
      BY <3>1, <3>3, <3>4, <3>5, <3>6 DEF BlockInv
  <2>2. OpenInv'
    BY <1>1, <1>3, <1>6 DEF BlocksInv, OpenInv, OpenSame
  <2>3. PlacedInv'
    BY <1>1 DEF PlacedInv
  <2> QED
    BY <2>1, <2>2, <2>3, <1>1, <1>3 DEF BlocksInv
<1>8. EatersInv'
  <2>1. \A d \in Eaters : epc'[d] = "idle"
    BY <1>1, <1>2
  <2> QED
    BY <2>1 DEF EatersInv, SeesInv, PlaceInv, Apart, HolderPCs
<1>9. EatenInv'
  BY <1>1, <1>6, EatenFrame
<1> QED
  BY <1>3, <1>4, <1>5, <1>7, <1>8, <1>9

-----------------------------------------------------------------------------
\* Types.  A counter stays a number.
LEMMA PlusType ==
    ASSUME NEW a \in Nat PROVE Plus(a, 1) \in Nat
<1>1. Modulus \in Nat /\ Modulus > 0
  BY ModulusLarge
<1>2. PICK x \in Nat : x = a + 1
  OBVIOUS
<1>3. x % Modulus \in Nat
  BY <1>1
<1> QED
  BY <1>2, <1>3 DEF Plus

\* A dequeuer that is at rest, or has changed one of its locals.
LEMMA LocalsKept ==
    ASSUME NEW l \in Locals, NEW n \in Nat
    PROVE  /\ Rest \in Locals /\ [Rest EXCEPT !.tail = n] \in Locals /\ [Rest EXCEPT !.index = n] \in Locals
           /\ [l EXCEPT !.tail = n] \in Locals /\ [l EXCEPT !.over = n] \in Locals
           /\ [l EXCEPT !.mine = n] \in Locals /\ [l EXCEPT !.header = n] \in Locals
           /\ [l EXCEPT !.at = n] \in Locals /\ [l EXCEPT !.entry = n] \in Locals
           /\ [l EXCEPT !.entry = n, !.header = 0, !.at = 0] \in Locals
           /\ [l EXCEPT !.block = n, !.index = 0] \in Locals
<1>1. Rest \in Locals
  BY DEF Rest, Locals
<1>2. [Rest EXCEPT !.tail = n] \in Locals /\ [Rest EXCEPT !.index = n] \in Locals
  BY <1>1 DEF Locals
<1>3. /\ [l EXCEPT !.tail = n] \in Locals /\ [l EXCEPT !.over = n] \in Locals
      /\ [l EXCEPT !.mine = n] \in Locals /\ [l EXCEPT !.header = n] \in Locals
      /\ [l EXCEPT !.at = n] \in Locals /\ [l EXCEPT !.entry = n] \in Locals
  BY DEF Locals
<1>4. [l EXCEPT !.entry = n, !.header = 0, !.at = 0] \in Locals /\ [l EXCEPT !.block = n, !.index = 0] \in Locals
  BY DEF Locals
<1> QED
  BY <1>1, <1>2, <1>3, <1>4

\* A dequeuer moves on.
LEMMA MovedType ==
    ASSUME SubTypeOK, NEW d \in Eaters, NEW p \in EaterPCs, NEW l \in Locals, Moved(d, p, l)
    PROVE  epc' \in [Eaters -> EaterPCs] /\ eat' \in [Eaters -> Locals]
  BY DEF SubTypeOK, Moved

\* A dequeuer moves on and at most counts.
LEMMA WalkType ==
    ASSUME SubTypeOK, NEW d \in Eaters, NEW p \in EaterPCs, NEW l \in Locals, Moved(d, p, l),
           UNCHANGED <<ringVars, producerVars, eaten, gone>>,
           headIndex' \in Nat, dequeueOptimisticCount' \in Nat, dequeueOvercommit' \in Nat
    PROVE  SubTypeOK'
<1>1. epc' \in [Eaters -> EaterPCs] /\ eat' \in [Eaters -> Locals]
  BY MovedType
<1> QED
  BY <1>1 DEF SubTypeOK, ringVars, producerVars

\* The steps of a dequeuer until it has its index.
LEMMA EarlyType ==
    ASSUME SubTypeOK, NEW d \in Eaters,
           \/ LoadTail(d) \/ LoadOvercommit(d) \/ Peek(d) \/ CountMe(d) \/ CheckTail(d) \/ Repay(d)
           \/ TakeIndex(d) \/ LoadHeader(d)
    PROVE  SubTypeOK'
<1>1. /\ tailIndex \in Nat /\ headIndex \in Nat /\ dequeueOptimisticCount \in Nat
      /\ dequeueOvercommit \in Nat /\ eat[d] \in Locals /\ Len(headers) \in Nat
  <2>1. headers \in Seq([tail : Nat, index : Seq(Nat)])
    BY DEF SubTypeOK
  <2>2. Len(headers) \in Nat
    BY <2>1
  <2> QED
    BY <2>2, LocalsType DEF SubTypeOK
<1>2. /\ Plus(headIndex, 1) \in Nat /\ Plus(dequeueOptimisticCount, 1) \in Nat
      /\ Plus(dequeueOvercommit, 1) \in Nat
  BY <1>1, PlusType
<1>3. /\ UNCHANGED <<ringVars, producerVars, eaten, gone>>
      /\ headIndex' \in Nat /\ dequeueOptimisticCount' \in Nat /\ dequeueOvercommit' \in Nat
  BY <1>1, <1>2 DEF LoadTail, LoadOvercommit, Peek, CountMe, CheckTail, Repay, TakeIndex, LoadHeader, countVars
<1>4. \E p \in EaterPCs, l \in Locals : Moved(d, p, l)
  <2>1. PICK n \in Nat, h \in Nat, o \in Nat, c \in Nat, k \in Nat, z \in Nat :
           /\ n = tailIndex /\ h = headIndex /\ o = dequeueOvercommit /\ c = dequeueOptimisticCount
           /\ k = Len(headers) /\ z = 0
    BY <1>1
  <2>2. /\ Rest \in Locals /\ [Rest EXCEPT !.tail = n] \in Locals /\ [Rest EXCEPT !.index = h] \in Locals
        /\ [eat[d] EXCEPT !.over = o] \in Locals /\ [eat[d] EXCEPT !.tail = z] \in Locals
        /\ [eat[d] EXCEPT !.mine = c] \in Locals /\ [eat[d] EXCEPT !.header = k] \in Locals
    BY <1>1, LocalsKept
  <2>3. /\ Rest \in Locals /\ [Rest EXCEPT !.tail = tailIndex] \in Locals
        /\ [Rest EXCEPT !.index = headIndex] \in Locals
        /\ [eat[d] EXCEPT !.over = dequeueOvercommit] \in Locals /\ [eat[d] EXCEPT !.tail = 0] \in Locals
        /\ [eat[d] EXCEPT !.mine = dequeueOptimisticCount] \in Locals
        /\ [eat[d] EXCEPT !.header = Len(headers)] \in Locals
    BY <2>1, <2>2
  <2>4. {"over", "peek", "count", "idle", "check", "head", "repay", "header", "slot"} \subseteq EaterPCs
    BY DEF EaterPCs
  <2>5. CASE LoadTail(d)
    BY <2>3, <2>4, <2>5 DEF LoadTail, Eat, Moved
  <2>6. CASE LoadOvercommit(d)
    BY <2>3, <2>4, <2>6 DEF LoadOvercommit, Eat, Moved
  <2>7. CASE Peek(d)
    BY <2>3, <2>4, <2>7 DEF Peek, Eat, Moved
  <2>8. CASE CountMe(d)
    BY <2>3, <2>4, <2>8 DEF CountMe, Eat, Moved
  <2>9. CASE CheckTail(d)
    <3>1. PICK p \in {"head", "repay"} : Eat(d, p, Rest)
      BY <2>9 DEF CheckTail
    <3> QED
      BY <3>1, <2>3, <2>4 DEF Eat, Moved
  <2>10. CASE Repay(d)
    BY <2>3, <2>4, <2>10 DEF Repay, Eat, Moved
  <2>11. CASE TakeIndex(d)
    BY <2>3, <2>4, <2>11 DEF TakeIndex, Eat, Moved
  <2>12. CASE LoadHeader(d)
    BY ZenonT(30), <2>3, <2>4, <2>12 DEF LoadHeader, Eat, Moved
  <2> QED
    BY <2>5, <2>6, <2>7, <2>8, <2>9, <2>10, <2>11, <2>12
<1> QED
  BY <1>3, <1>4, WalkType

\* The steps of a dequeuer that looks for its entry.
LEMMA FindType ==
    ASSUME SubTypeOK, CountsInv, RingInv, EatersInv, NEW d \in Eaters, LoadSlot(d) \/ FindEntry(d)
    PROVE  SubTypeOK'
<1>1. /\ UNCHANGED <<ringVars, producerVars, eaten, gone>>
      /\ headIndex' \in Nat /\ dequeueOptimisticCount' \in Nat /\ dequeueOvercommit' \in Nat
  BY ZenonT(30) DEF LoadSlot, FindEntry, countVars, SubTypeOK
<1>2. PICK i \in Nat, j \in Nat, p \in Nat : i = eat[d].index /\ j = eat[d].header /\ p = eat[d].at
  BY LocalsType
<1>3. eat[d] \in Locals /\ SeesInv(d)
  BY LocalsType DEF EatersInv
<1>4. CASE LoadSlot(d)
  <2>1. \A q \in {headers[j].tail} : Sees(j, q, i)
    BY <1>2, <1>3, <1>4 DEF LoadSlot, SeesInv
  <2>2. j \in 1..Len(headers)
    BY <2>1 DEF Sees
  <2>3. PICK n \in Nat : n = headers[j].tail
    BY SMTT(30), <2>2, HeadersAre
  <2>4. [eat[d] EXCEPT !.at = n] \in Locals
    BY <1>3, LocalsKept
  <2>5. Moved(d, "find", [eat[d] EXCEPT !.at = n]) /\ "find" \in EaterPCs
    BY <2>3, <1>2, <1>4 DEF LoadSlot, Eat, Moved, EaterPCs
  <2> QED
    BY <2>4, <2>5, <1>1, WalkType
<1>5. CASE FindEntry(d)
  <2>1. Sees(j, p, i)
    BY ZenonT(30), <1>2, <1>3, <1>5 DEF FindEntry, SeesInv
  <2>2. LookedUp(j, p, i) \in InUse
    BY <2>1, SeesFinds
  <2>3. PICK n \in Nat : n = LookedUp(j, p, i)
    BY SMTT(30), <2>2, InUseIs DEF Ids
  <2>4. [eat[d] EXCEPT !.entry = n, !.header = 0, !.at = 0] \in Locals
    BY <1>3, LocalsKept
  <2>5. Moved(d, "take", [eat[d] EXCEPT !.entry = LookedUp(j, p, i), !.header = 0, !.at = 0])
    BY ZenonT(30), <1>2, <1>5 DEF FindEntry, Eat, Moved, LookedUp
  <2>6. Moved(d, "take", [eat[d] EXCEPT !.entry = n, !.header = 0, !.at = 0]) /\ "take" \in EaterPCs
    BY <2>3, <2>5 DEF EaterPCs
  <2> QED
    BY <2>4, <2>6, <1>1, WalkType
<1> QED
  BY <1>4, <1>5

\* An entry gets a value, or a key.
LEMMA ValueType ==
    ASSUME SubTypeOK, NEW e \in Ids, NEW v \in 0..SubBlocks, entries' = [entries EXCEPT ![e].value = v]
    PROVE  entries' \in Seq([key : Nat, value : 0..SubBlocks])
<1> DEFINE S == [key : Nat, value : 0..SubBlocks]
<1>1. entries \in Seq(S) /\ entries[e] \in S
  BY EntriesType DEF SubTypeOK
<1>2. PICK r \in S : r = [entries[e] EXCEPT !.value = v]
  BY <1>1
<1>3. entries' = [entries EXCEPT ![e] = r]
  BY <1>2
<1> HIDE DEF S
<1>4. entries' \in Seq(S)
  BY SMTT(30), <1>1, <1>3 DEF Ids
<1> QED
  BY <1>4 DEF S

\* The same for a key.
LEMMA KeyType ==
    ASSUME SubTypeOK, NEW e \in Ids, NEW k \in Nat, entries' = [entries EXCEPT ![e].key = k]
    PROVE  entries' \in Seq([key : Nat, value : 0..SubBlocks])
<1> DEFINE S == [key : Nat, value : 0..SubBlocks]
<1>1. entries \in Seq(S) /\ entries[e] \in S
  BY EntriesType DEF SubTypeOK
<1>2. PICK r \in S : r = [entries[e] EXCEPT !.key = k]
  BY <1>1
<1>3. entries' = [entries EXCEPT ![e] = r]
  BY <1>2
<1> HIDE DEF S
<1>4. entries' \in Seq(S)
  BY SMTT(30), <1>1, <1>3 DEF Ids
<1> QED
  BY <1>4 DEF S

\* The steps of a dequeuer that has found its entry.
LEMMA LateType ==
    ASSUME SubTypeOK, CountsInv, RingInv, BlocksInv, EatersInv, NEW d \in Eaters,
           TakeItem(d) \/ SetEmpty(d) \/ ClearEntry(d) \/ FreeBlock(d)
    PROVE  SubTypeOK'
<1>1. eat[d] \in Locals /\ Rest \in Locals
  <2>1. PICK z \in Nat : z = 0
    OBVIOUS
  <2> QED
    BY <2>1, LocalsType, LocalsKept
<1>2. {"empty", "clear", "free", "idle"} \subseteq EaterPCs
  BY DEF EaterPCs
<1>3. UNCHANGED <<countVars, producerVars, tailIndex, headers, tailBlock, gone>>
  BY ZenonT(30) DEF TakeItem, SetEmpty, ClearEntry, FreeBlock
<1>4. CASE TakeItem(d)
  <2>1. PICK x \in {eat[d].entry}, i \in {eat[d].index} : TRUE
    OBVIOUS
  <2>2. /\ x \in InUse /\ i \in Nat /\ content[entries[x].value][i % BLOCK_SIZE] = i + 1 /\ i + 1 \in 1..MaxItems
    BY ZenonT(30), <2>1, <1>4, ItemThere DEF TakeItem
  <2>3. PICK b \in 1..SubBlocks, s \in 0..(BLOCK_SIZE - 1) : b = entries[x].value /\ s = i % BLOCK_SIZE
    BY <2>2, InUseIs, BaseOf
  <2>4. /\ eaten' = [eaten EXCEPT ![i + 1] = @ + 1] /\ content' = [content EXCEPT ![b][s] = 0]
        /\ Moved(d, "empty", [eat[d] EXCEPT !.block = b, !.index = 0])
        /\ UNCHANGED <<entries, emptied, freeBlocks>>
    BY ZenonT(30), <2>1, <2>2, <2>3, <1>4 DEF TakeItem, Eat, Moved
  <2>5. eaten' \in [1..MaxItems -> Nat]
    <3>1. PICK n \in 1..MaxItems : n = i + 1
      BY <2>2
    <3>2. eaten' = [eaten EXCEPT ![n] = @ + 1] /\ eaten \in [1..MaxItems -> Nat]
      BY <3>1, <2>4 DEF SubTypeOK
    <3> QED
      BY <3>2
  <2>6. content' \in [1..SubBlocks -> [0..(BLOCK_SIZE - 1) -> Nat]]
    BY <2>3, <2>4 DEF SubTypeOK
  <2>7. [eat[d] EXCEPT !.block = b, !.index = 0] \in Locals
    <3>1. b \in Nat
      BY SubQueueAssumption
    <3> QED
      BY <3>1, <1>1, LocalsKept
  <2>8. epc' \in [Eaters -> EaterPCs] /\ eat' \in [Eaters -> Locals]
    BY <2>4, <2>7, <1>2, MovedType
  <2> QED
    BY <2>4, <2>5, <2>6, <2>8, <1>3 DEF SubTypeOK, countVars, producerVars
<1>5. CASE SetEmpty(d)
  <2>1. emptied' = [emptied EXCEPT ![eat[d].block] = @ + 1] /\ UNCHANGED <<entries, content, freeBlocks, eaten>>
    BY <1>5 DEF SetEmpty
  <2>2. PICK b \in {eat[d].block} : TRUE
    OBVIOUS
  <2>3. b \in 1..SubBlocks
    BY <2>2, <1>5, EmptyingIs DEF SetEmpty
  <2>4. emptied' \in [1..SubBlocks -> Nat]
    BY <2>1, <2>2, <2>3 DEF SubTypeOK
  <2>5. \E p \in EaterPCs, l \in Locals : Moved(d, p, l)
    BY <1>1, <1>2, <1>5 DEF SetEmpty, Eat, Moved
  <2>6. epc' \in [Eaters -> EaterPCs] /\ eat' \in [Eaters -> Locals]
    BY <2>5, MovedType
  <2> QED
    BY <2>1, <2>4, <2>6, <1>3 DEF SubTypeOK, countVars, producerVars
<1>6. CASE ClearEntry(d)
  <2>1. PICK x \in {eat[d].entry} : x \in InUse
    BY <1>6 DEF ClearEntry, EatersInv, PlaceInv
  <2>2. entries' = [entries EXCEPT ![x].value = NoBlock] /\ UNCHANGED <<content, emptied, freeBlocks, eaten>>
    BY <2>1, <1>6 DEF ClearEntry
  <2>3. entries' \in Seq([key : Nat, value : 0..SubBlocks])
    <3>1. PICK v \in 0..SubBlocks : v = NoBlock
      BY SubQueueAssumption DEF NoBlock
    <3>2. x \in Ids /\ entries' = [entries EXCEPT ![x].value = v]
      BY <3>1, <2>1, <2>2 DEF InUse
    <3> QED
      BY <3>2, ValueType
  <2>4. Moved(d, "free", [eat[d] EXCEPT !.entry = 0])
    BY SMTT(30), <1>6 DEF ClearEntry, Eat, Moved
  <2>5. [eat[d] EXCEPT !.entry = 0] \in Locals
    <3>1. PICK z \in Nat : z = 0
      OBVIOUS
    <3> QED
      BY <3>1, <1>1, LocalsKept
  <2>6. epc' \in [Eaters -> EaterPCs] /\ eat' \in [Eaters -> Locals]
    BY <2>4, <2>5, <1>2, MovedType
  <2> QED
    BY <2>2, <2>3, <2>6, <1>3 DEF SubTypeOK, countVars, producerVars
<1>7. CASE FreeBlock(d)
  <2>1. freeBlocks' = freeBlocks \cup {eat[d].block} /\ UNCHANGED <<entries, content, emptied, eaten>>
          /\ Moved(d, "idle", Rest) /\ epc[d] = "free"
    BY <1>7 DEF FreeBlock, Eat, Moved
  <2>2. eat[d].block \in 1..SubBlocks
    BY <2>1 DEF EatersInv, PlaceInv
  <2>3. epc' \in [Eaters -> EaterPCs] /\ eat' \in [Eaters -> Locals]
    BY <2>1, <1>1, <1>2, MovedType
  <2>4. freeBlocks' \subseteq 1..SubBlocks
    BY <2>1, <2>2 DEF SubTypeOK
  <2> QED
    BY <2>1, <2>3, <2>4, <1>3 DEF SubTypeOK, countVars, producerVars
<1> QED
  BY <1>4, <1>5, <1>6, <1>7

\* The tail of a block index moves.
LEMMA MoveType ==
    ASSUME SubTypeOK, RingInv, NEW n \in Nat, MoveTail(n)
    PROVE  headers' \in Seq([tail : Nat, index : Seq(Nat)])
<1> DEFINE S == [tail : Nat, index : Seq(Nat)]
<1>1. PICK j \in 1..Len(headers) : j = Len(headers) /\ Header = headers[j]
  BY HeaderIs DEF RingInv
<1>2. PICK t \in Nat : t = (headers[j].tail + n) % Capacity(Header)
  <2>1. PICK c \in Nat : c = Capacity(Header) /\ c > 1
    BY HeaderIs DEF RingInv, Cap
  <2>2. PICK u \in Nat : u = headers[j].tail + n
    BY <1>1, HeadersAre
  <2>3. u % c \in Nat
    BY <2>1
  <2> QED
    BY <2>1, <2>2, <2>3
<1>3. headers \in Seq(S)
  BY DEF SubTypeOK
<1>4. headers[j] \in S
  <2> HIDE DEF S
  <2> QED
    BY <1>3, ElementOfSeq
<1>5. PICK r \in S : r = [headers[j] EXCEPT !.tail = t]
  BY <1>4
<1>6. headers' = [headers EXCEPT ![j] = r]
  BY <1>1, <1>2, <1>5 DEF MoveTail
<1> HIDE DEF S
<1>7. headers' \in Seq(S)
  BY <1>3, <1>6
<1> QED
  BY <1>7 DEF S

\* The key of the next block goes into the index, which may grow.
LEMMA InsertType ==
    ASSUME SubTypeOK, CountsInv, RingInv, InsertEntry
    PROVE  SubTypeOK'
<1>1. /\ UNCHANGED <<tailIndex, content, emptied, freeBlocks, tailBlock, countVars, items, eaterVars, gone>>
      /\ tailIndex = items /\ ppc = "insert"
  BY DEF InsertEntry, CountsInv
<1>2. PICK e \in Ids : e = NextEntry(Header)
  BY NextIsOldest, HeaderIs DEF RingInv
<1>3. PICK k \in Nat, s \in Nat : k = tailIndex /\ s = Len(entries)
  BY HeaderIs DEF SubTypeOK, RingInv
<1>4. e \in Nat /\ s + 1 \in Nat
  BY <1>3 DEF Ids
<1>5. /\ headers' \in Seq([tail : Nat, index : Seq(Nat)]) /\ entries' \in Seq([key : Nat, value : 0..SubBlocks])
      /\ idxEntry' \in Nat /\ ppc' \in {"advance", "idle"}
  <2>1. CASE /\ entries' = [entries EXCEPT ![e].key = tailIndex]
             /\ KeyInto(e) /\ UNCHANGED headers
    <3>1. entries' \in Seq([key : Nat, value : 0..SubBlocks])
      BY <2>1, <1>3, KeyType
    <3>2. headers' \in Seq([tail : Nat, index : Seq(Nat)])
      BY <2>1 DEF SubTypeOK
    <3> QED
      BY <3>1, <3>2, <2>1, <1>4 DEF KeyInto
  <2>2. CASE /\ headers' = Append(headers, Grown(Header))
             /\ entries' = [entries \o Unused(Header) EXCEPT ![Len(entries) + 1].key = tailIndex]
             /\ KeyInto(Len(entries) + 1)
    <3>1. entries' \in Seq([key : Nat, value : 0..SubBlocks])
      BY <2>2, <1>3, EntriesGrown DEF RingInv
    <3>2. Grown(Header).index \in Seq(Nat) /\ Grown(Header).tail = Cap - 1
      BY <2>2, BehindGrown DEF RingInv
    <3>3. Grown(Header) \in [tail : Nat, index : Seq(Nat)]
      <4>1. Cap - 1 \in Nat
        BY HeaderIs DEF RingInv
      <4>2. PICK t \in Nat, f \in Seq(Nat) : t = Grown(Header).tail /\ f = Grown(Header).index
        BY <4>1, <3>2
      <4>3. Grown(Header) = [tail |-> t, index |-> f]
        BY <4>2 DEF Grown
      <4> QED
        BY <4>3
    <3>4. headers' \in Seq([tail : Nat, index : Seq(Nat)])
      <4> DEFINE S == [tail : Nat, index : Seq(Nat)]
      <4>1. headers \in Seq(S) /\ Grown(Header) \in S
        BY <3>3 DEF SubTypeOK
      <4>2. headers' = Append(headers, Grown(Header))
        BY <2>2
      <4> HIDE DEF S
      <4>3. headers' \in Seq(S)
        BY <4>1, <4>2
      <4> QED
        BY <4>3 DEF S
    <3> QED
      BY <3>1, <3>4, <2>2, <1>3, <1>4 DEF KeyInto
  <2>3. CASE ppc' = "idle" /\ UNCHANGED <<headers, entries, idxEntry>>
    BY <2>3 DEF SubTypeOK
  <2> QED
    BY <1>2, <2>1, <2>2, <2>3 DEF InsertEntry
<1>6. ppc' \in ProducerPCs
  BY <1>5 DEF ProducerPCs
<1> QED
  BY <1>1, <1>5, <1>6 DEF SubTypeOK, countVars, eaterVars

\* The other steps of the producer.
LEMMA ProduceType ==
    ASSUME SubTypeOK, CountsInv, RingInv, BlocksInv, Produce
    PROVE  SubTypeOK'
<1>1. {"idle", "insert", "advance", "block", "construct", "publish"} \subseteq ProducerPCs
  BY DEF ProducerPCs
<1>2. CASE EnqueueInBlock \/ ConstructFirst
  <2>1. /\ UNCHANGED <<tailIndex, headers, entries, emptied, freeBlocks, tailBlock, countVars, idxEntry, items,
                       eaterVars, gone>>
        /\ ppc' = "publish" /\ tailIndex = items
        /\ content' = [content EXCEPT ![tailBlock][tailIndex % BLOCK_SIZE] = items + 1]
    BY <1>2 DEF EnqueueInBlock, ConstructFirst, Construct, CountsInv
  <2>2. ppc = "construct" \/ (ppc = "idle" /\ items % BLOCK_SIZE # 0)
    BY <2>1, <1>2 DEF EnqueueInBlock, ConstructFirst
  <2>3. tailBlock \in 1..SubBlocks
    BY <2>2, TailBlockIs, InUseIs
  <2>4. PICK n \in Nat : n = items + 1
    BY NumbersType
  <2>5. PICK b \in 1..SubBlocks, s \in 0..(BLOCK_SIZE - 1) : b = tailBlock /\ s = items % BLOCK_SIZE
    BY <2>3, NumbersType, BaseOf
  <2>6. content' = [content EXCEPT ![b][s] = n] /\ content \in [1..SubBlocks -> [0..(BLOCK_SIZE - 1) -> Nat]]
    BY <2>1, <2>4, <2>5 DEF SubTypeOK
  <2>7. content' \in [1..SubBlocks -> [0..(BLOCK_SIZE - 1) -> Nat]]
    BY <2>6
  <2> QED
    BY <2>1, <2>7, <1>1 DEF SubTypeOK, countVars, eaterVars
<1>3. CASE EnqueueNewBlock
  BY <1>1, <1>3 DEF EnqueueNewBlock, SubTypeOK, ringVars, countVars, eaterVars
<1>4. CASE AdvanceTail
  <2>1. PICK n \in Nat : n = 1 /\ MoveTail(n)
    BY <1>4 DEF AdvanceTail
  <2>2. headers' \in Seq([tail : Nat, index : Seq(Nat)])
    BY <2>1, MoveType
  <2> QED
    BY <2>2, <1>1, <1>4 DEF AdvanceTail, SubTypeOK, countVars, eaterVars
<1>5. CASE NoNewBlock
  <2>1. PICK n \in Nat : n = Capacity(Header) - 1
    BY HeaderIs DEF RingInv, Cap
  <2>2. headers' \in Seq([tail : Nat, index : Seq(Nat)])
    BY <2>1, <1>5, MoveType DEF NoNewBlock
  <2>3. PICK v \in 0..SubBlocks : v = NoBlock
    BY SubQueueAssumption DEF NoBlock
  <2>4. PICK e \in Ids : e = idxEntry
    <3>1. idxEntry = Behind(0) /\ 0 \in Reach
      BY <1>5, NextIsOldest DEF NoNewBlock, RingInv, StepInv
    <3> QED
      BY <3>1, HeaderIs DEF RingInv
  <2>5. entries' \in Seq([key : Nat, value : 0..SubBlocks])
    BY <2>3, <2>4, <1>5, ValueType DEF NoNewBlock
  <2> QED
    BY <2>2, <2>5, <1>1, <1>5 DEF NoNewBlock, SubTypeOK, countVars, eaterVars
<1>6. CASE GetBlock
  <2>1. PICK b \in freeBlocks :
              /\ freeBlocks' = freeBlocks \ {b} /\ emptied' = [emptied EXCEPT ![b] = 0]
              /\ entries' = [entries EXCEPT ![idxEntry].value = b] /\ tailBlock' = b
    BY <1>6, BlockGot
  <2>2. idxEntry \in Ids /\ b \in 1..SubBlocks
    BY <2>1, <1>6, GetBlockRing
  <2>3. b \in 0..SubBlocks
    BY <2>2, SubQueueAssumption
  <2>4. entries' \in Seq([key : Nat, value : 0..SubBlocks])
    BY <2>1, <2>2, <2>3, ValueType
  <2>5. emptied' \in [1..SubBlocks -> Nat] /\ freeBlocks' \subseteq 1..SubBlocks /\ tailBlock' \in 0..SubBlocks
    BY <2>1, <2>2, <2>3 DEF SubTypeOK
  <2> QED
    BY <2>4, <2>5, <1>1, <1>6 DEF GetBlock, SubTypeOK, countVars, eaterVars
<1>7. CASE Publish
  <2>1. tailIndex' \in Nat
    BY <1>7, PlusType DEF Publish, SubTypeOK
  <2>2. items' \in 0..MaxItems
    <3>1. items \in Nat /\ items < MaxItems /\ items' = items + 1
      BY <1>7, NumbersType DEF Publish, CountsInv
    <3> QED
      BY <3>1, SubQueueAssumption
  <2> QED
    BY <2>1, <2>2, <1>1, <1>7 DEF Publish, SubTypeOK, countVars, eaterVars
<1> QED
  BY <1>2, <1>3, <1>4, <1>5, <1>6, <1>7, InsertType DEF Produce

\* The counters after a step of the producer, or the destructor.
LEMMA CountsProduce ==
    ASSUME SubTypeOK, CountsInv, Produce \/ Destroy
    PROVE  CountsInv'
<1>1. tailIndex = items /\ items \in Nat /\ items <= items /\ (ppc # "idle" => items < MaxItems)
  BY NumbersType DEF CountsInv
<1>2. UNCHANGED countVars /\ UNCHANGED <<epc, eat>>
  BY DEF Produce, Destroy, EnqueueInBlock, EnqueueNewBlock, InsertEntry, AdvanceTail, GetBlock, NoNewBlock,
         ConstructFirst, Publish, eaterVars
<1>3. CASE Publish
  <2>1. tailIndex' = items + 1 /\ items' = items + 1 /\ ppc' = "idle"
    <3>1. items <= Modulus \div 2
      BY CountsSmall
    <3>2. Plus(items, 1) = items + 1
      BY <3>1, <1>1, CircularSmall
    <3> QED
      BY <3>2, <1>1, <1>3 DEF Publish
  <2>2. items' \in Nat /\ items <= items'
    BY <2>1, <1>1
  <2> QED
    BY <2>1, <2>2, <1>2, CountsFrame
<1>4. CASE EnqueueInBlock \/ EnqueueNewBlock
  <2>1. UNCHANGED <<tailIndex, items>> /\ items < MaxItems
    BY <1>4 DEF EnqueueInBlock, EnqueueNewBlock, ringVars
  <2> QED
    BY <2>1, <1>1, <1>2, CountsFrame
<1>5. CASE InsertEntry \/ AdvanceTail \/ GetBlock \/ NoNewBlock \/ ConstructFirst \/ Destroy
  <2>1. UNCHANGED <<tailIndex, items>> /\ (ppc' # "idle" => ppc # "idle")
    <3>1. CASE Destroy
      BY <3>1 DEF Destroy, producerVars
    <3>2. CASE InsertEntry \/ AdvanceTail \/ GetBlock \/ NoNewBlock \/ ConstructFirst
      BY <3>2 DEF InsertEntry, AdvanceTail, GetBlock, NoNewBlock, ConstructFirst
    <3> QED
      BY <3>1, <3>2, <1>5
  <2> QED
    BY <2>1, <1>1, <1>2, CountsFrame
<1> QED
  BY <1>3, <1>4, <1>5 DEF Produce

\* The counters after a step of a dequeuer.
LEMMA CountsConsume ==
    ASSUME SubTypeOK, CountsInv, NEW d \in Eaters, Consume(d)
    PROVE  CountsInv'
<1>1. eat[d] \in Locals /\ tailIndex \in Nat /\ dequeueOvercommit \in Nat
  BY LocalsType DEF SubTypeOK
<1>2. Rest \in Locals
  BY DEF Rest, Locals
<1>3. CASE LoadTail(d)
  <2>1. /\ Moved(d, "over", [Rest EXCEPT !.tail = tailIndex]) /\ epc[d] = "idle" /\ dequeueOvercommit < MaxRepaid
        /\ UNCHANGED <<tailIndex, headIndex, dequeueOptimisticCount, dequeueOvercommit, ppc, items>>
    BY SMTT(30), <1>3 DEF LoadTail, Eat, Moved, ringVars, countVars, producerVars
  <2>2. [Rest EXCEPT !.tail = tailIndex] \in Locals
    BY <1>1, <1>2, LocalsKept
  <2> QED
    BY <2>1, <2>2, CountsEarly
<1>4. CASE LoadOvercommit(d)
  <2> DEFINE l == [eat[d] EXCEPT !.over = dequeueOvercommit]
  <2>1. /\ Moved(d, "peek", l) /\ epc[d] = "over"
        /\ UNCHANGED <<tailIndex, headIndex, dequeueOptimisticCount, dequeueOvercommit, ppc, items>>
    BY SMTT(30), <1>4 DEF LoadOvercommit, Eat, Moved, ringVars, countVars, producerVars
  <2>2. l \in Locals
    BY <1>1, LocalsKept
  <2>3. l.over = dequeueOvercommit
    BY <1>1 DEF Locals
  <2> HIDE DEF l
  <2>4. l.over <= dequeueOvercommit
    BY <2>3, <1>1
  <2> QED
    BY <2>1, <2>2, <2>4, CountsEarly
<1>5. CASE Peek(d)
  <2> DEFINE l == [eat[d] EXCEPT !.tail = 0]
  <2>1. /\ Moved(d, "count", l) \/ Moved(d, "idle", Rest)
        /\ epc[d] = "peek"
        /\ UNCHANGED <<tailIndex, headIndex, dequeueOptimisticCount, dequeueOvercommit, ppc, items>>
    BY SMTT(30), <1>5 DEF Peek, Eat, Moved, ringVars, countVars, producerVars
  <2>2. l \in Locals
    <3>1. PICK z \in Nat : z = 0
      OBVIOUS
    <3> QED
      BY <3>1, <1>1, LocalsKept
  <2>3. l.over = eat[d].over
    BY <1>1 DEF Locals
  <2> HIDE DEF l
  <2>4. l.over <= dequeueOvercommit
    BY <2>1, <2>3 DEF CountsInv, Here
  <2>5. CASE Moved(d, "count", l)
    BY <2>1, <2>2, <2>4, <2>5, CountsEarly
  <2>6. CASE Moved(d, "idle", Rest)
    BY <2>1, <2>6, <1>2, CountsEarly
  <2> QED
    BY <2>1, <2>5, <2>6
<1>6. CASE \/ LoadHeader(d) \/ LoadSlot(d) \/ FindEntry(d) \/ TakeItem(d) \/ SetEmpty(d)
           \/ ClearEntry(d) \/ FreeBlock(d)
  <2>1. UNCHANGED <<tailIndex, countVars, ppc, items>>
    BY ZenonT(30), <1>6 DEF LoadHeader, LoadSlot, FindEntry, TakeItem, SetEmpty, ClearEntry, FreeBlock, ringVars, producerVars
  <2>2. PICK p, l : p \in LatePCs \cup {"idle"} /\ Moved(d, p, l) /\ epc[d] \in LatePCs
    <3>1. CASE LoadHeader(d) \/ LoadSlot(d)
      BY <3>1 DEF LoadHeader, LoadSlot, Eat, Moved, LatePCs
    <3>2. CASE FindEntry(d)
      BY ZenonT(30), <3>2 DEF FindEntry, Eat, Moved, LatePCs
    <3>3. CASE TakeItem(d)
      BY ZenonT(30), <3>3 DEF TakeItem, Eat, Moved, LatePCs
    <3>4. CASE SetEmpty(d)
      BY <3>4 DEF SetEmpty, Eat, Moved, LatePCs
    <3>5. CASE ClearEntry(d) \/ FreeBlock(d)
      BY <3>5 DEF ClearEntry, FreeBlock, Eat, Moved, LatePCs
    <3> QED
      BY <3>1, <3>2, <3>3, <3>4, <3>5, <1>6
  <2>3. ASSUME NEW e \in Eaters, epc[e] \in CountPCs \/ epc'[e] \in CountPCs
        PROVE  epc'[e] = epc[e] /\ eat'[e] = eat[e]
    <3>1. epc[d] \notin CountPCs /\ p \notin CountPCs
      BY <2>2 DEF LatePCs, CountPCs
    <3>2. e # d
      BY <3>1, <2>2, <2>3 DEF Moved, SubTypeOK
    <3> QED
      BY <3>2, <2>2 DEF Moved, SubTypeOK
  <2>4. items \in Nat /\ items <= items /\ tailIndex = items /\ (ppc # "idle" => items < MaxItems)
    BY NumbersType DEF CountsInv
  <2> QED
    BY <2>1, <2>3, <2>4, CountsFrame
<1> QED
  BY <1>3, <1>4, <1>5, <1>6, CountsCount, CountsCheck, CountsRepay, CountsTake DEF Consume

-----------------------------------------------------------------------------
\* The beginning: an index with free entries only, and all blocks are free.
LEMMA InitRing ==
    ASSUME SubInit
    PROVE  /\ headers \in Seq([tail : Nat, index : Seq(Nat)]) /\ entries \in Seq([key : Nat, value : 0..SubBlocks])
           /\ RingInv /\ InUse = {} /\ Got = 0
<1>1. PICK c \in Nat : c = IndexSize /\ c > 1 /\ (Modulus \div BLOCK_SIZE) % c = 0
  <2>1. PICK b \in Nat, i \in Nat, m \in Nat :
           b = BLOCK_SIZE /\ b > 1 /\ i = IndexSize /\ i > 1 /\ m = Modulus /\ m % (i * b) = 0
    BY SubQueueAssumption
  <2>2. (m \div b) % i = 0
    BY <2>1, DivideOne
  <2> QED
    BY <2>1, <2>2
<1> DEFINE f == [n \in 1..c |-> n]
           g == [n \in 1..c |-> [key |-> NoKey, value |-> NoBlock]]
<1>2. f \in Seq(Nat) /\ Len(f) = c
  <2>1. f \in [1..c -> Nat]
    OBVIOUS
  <2> HIDE DEF f
  <2>2. f \in Seq(Nat)
    BY <2>1, SeqDef
  <2> QED
    BY <2>1, <2>2, <1>1, LenProperties
<1>3. g \in Seq([key : Nat, value : 0..SubBlocks]) /\ Len(g) = c
  <2> DEFINE S == [key : Nat, value : 0..SubBlocks]
  <2>1. g \in [1..c -> S]
    BY SubQueueAssumption DEF NoKey, NoBlock
  <2> HIDE DEF g, S
  <2>2. g \in Seq(S)
    BY <2>1, SeqDef
  <2>3. Len(g) = c
    BY <2>1, <2>2, <1>1, LenProperties
  <2> QED
    BY <2>2, <2>3 DEF S
<1>4. entries = g /\ headers = <<[tail |-> c - 1, index |-> f]>> /\ items = 0 /\ ppc = "idle"
  BY <1>1 DEF SubInit
<1>5. headers \in Seq([tail : Nat, index : Seq(Nat)])
  <2>1. c - 1 \in Nat
    BY <1>1
  <2> HIDE DEF f
  <2>2. [tail |-> c - 1, index |-> f] \in [tail : Nat, index : Seq(Nat)]
    BY <2>1, <1>2
  <2> QED
    BY <2>2, <1>4
<1>6. Len(headers) = 1 /\ Header = [tail |-> c - 1, index |-> f] /\ headers[1] = Header
  <2> HIDE DEF f
  <2> QED
    BY <1>4 DEF Header
<1>7. Cap = c /\ Header.tail = c - 1 /\ Header.index = f /\ Capacity(Header) = c /\ Reach = 0..(c - 1)
  <2> HIDE DEF f
  <2> QED
    BY <1>2, <1>6 DEF Cap, Capacity, Reach
<1>8. Len(entries) = c /\ Ids = 1..c
  <2> HIDE DEF g
  <2> QED
    BY <1>3, <1>4 DEF Ids
<1>9. \A x \in 1..c : entries[x].key = NoKey /\ entries[x].value = NoBlock
  BY <1>4
<1>10. InUse = {} /\ \A x \in 1..c : ~Whole(x)
  BY <1>8, <1>9, NoKeyNotWhole DEF InUse
<1>11. Numbers = 0 /\ Got = 0
  <2>1. PICK b \in Nat, z \in Nat : b = BLOCK_SIZE /\ b > 1 /\ z = 0
    BY BlockSize
  <2>2. z = b * z + z /\ z \in 0..(b - 1)
    BY <2>1
  <2>3. z \div b = z /\ z % b = z
    BY <2>1, <2>2, DivIs
  <2> QED
    BY <2>1, <2>3, <1>4 DEF Numbers, Got
<1>12. ASSUME NEW n \in Reach PROVE Behind(n) = c - n /\ Behind(n) \in 1..c
  <2>1. PICK t \in 0..(c - 1) : t = c - 1
    BY <1>1
  <2>2. n \in 0..(c - 1)
    BY <1>7
  <2>3. PlaceBack(c, t, n) = t - n
    BY <2>1, <2>2, <1>1, PlaceBefore
  <2>4. PlaceBack(c, t, n) + 1 = c - n /\ c - n \in 1..c
    BY <2>1, <2>2, <2>3, <1>1
  <2> QED
    BY <2>1, <2>4, <1>7 DEF Behind, BackFrom
<1>13. HeadersInv
  <2>1. \A n \in 1..c : f[n] \in Ids
    BY <1>8
  <2> HIDE DEF f
  <2>2. HeaderInv(Header)
    BY <2>1, <1>1, <1>7 DEF HeaderInv
  <2> QED
    BY <2>2, <1>6 DEF HeadersInv
<1>14. KeysInv
  BY <1>8, <1>9 DEF KeysInv
<1>15. PlacesInv
  <2>1. \A m, n \in Reach : Behind(m) = Behind(n) => m = n
    <3>1. ASSUME NEW m \in Reach, NEW n \in Reach, Behind(m) = Behind(n) PROVE m = n
      <4>1. c - m = c - n /\ m \in Nat /\ n \in Nat
        BY <3>1, <1>7, <1>12
      <4> QED
        BY <4>1, <1>1
    <3> QED
      BY <3>1
  <2>2. \A n \in Reach : OrderInv(n)
    BY <1>9, <1>10, <1>12 DEF OrderInv
  <2> QED
    BY <2>1, <2>2, <1>10, <1>11 DEF PlacesInv
<1>16. StepInv
  BY <1>4 DEF StepInv
<1>17. entries \in Seq([key : Nat, value : 0..SubBlocks])
  BY <1>3, <1>4
<1> QED
  BY <1>5, <1>10, <1>11, <1>13, <1>14, <1>15, <1>16, <1>17 DEF RingInv

\* So the invariant holds at the beginning.
LEMMA SubInitOK ==
    ASSUME SubInit
    PROVE  SubTypeOK /\ SubInv
<1>1. /\ headers \in Seq([tail : Nat, index : Seq(Nat)]) /\ entries \in Seq([key : Nat, value : 0..SubBlocks])
      /\ RingInv /\ InUse = {} /\ Got = 0
  BY InitRing
<1>2. /\ tailIndex = 0 /\ headIndex = 0 /\ dequeueOptimisticCount = 0 /\ dequeueOvercommit = 0
      /\ items = 0 /\ ppc = "idle" /\ gone = FALSE /\ freeBlocks = 1..SubBlocks
      /\ eaten = [n \in 1..MaxItems |-> 0] /\ epc = [d \in Eaters |-> "idle"]
  BY DEF SubInit
<1>3. SubTypeOK
  <2>1. Rest \in Locals
    BY DEF Rest, Locals
  <2>2. epc \in [Eaters -> EaterPCs] /\ eat \in [Eaters -> Locals]
    BY <2>1 DEF SubInit, EaterPCs
  <2>3. content \in [1..SubBlocks -> [0..(BLOCK_SIZE - 1) -> Nat]] /\ emptied \in [1..SubBlocks -> Nat]
        /\ eaten \in [1..MaxItems -> Nat]
    BY DEF SubInit
  <2>4. tailBlock \in 0..SubBlocks /\ idxEntry \in Nat /\ items \in 0..MaxItems /\ ppc \in ProducerPCs
    BY SubQueueAssumption DEF SubInit, NoBlock, ProducerPCs
  <2> QED
    BY <2>2, <2>3, <2>4, <1>1, <1>2 DEF SubTypeOK
<1>4. \A d \in Eaters : epc[d] = "idle"
  BY <1>2
<1>5. CountsInv
  <2>1. Waits = {} /\ Checks = {} /\ Repays = {} /\ Heads = {} /\ Here({"peek", "count", "check"}) = {}
    BY <1>4 DEF Waits, Checks, Repays, Heads, Here
  <2>2. Cardinality({}) = 0 /\ Cardinality(Eaters) \in Nat
    BY FS_EmptySet, SubQueueAssumption, FS_CardinalityType
  <2>3. 0 + 0 <= MaxRepaid + Cardinality(Eaters)
    BY <2>2, SubQueueAssumption
  <2> QED
    BY <2>1, <2>2, <2>3, <1>2 DEF CountsInv
<1>6. BlocksInv
  <2>1. OpenInv
    BY <1>1, BaseOf DEF OpenInv
  <2> QED
    BY <2>1, <1>1, <1>2 DEF BlocksInv, PlacedInv
<1>7. EatersInv
  BY <1>4 DEF EatersInv, SeesInv, PlaceInv, Apart, HolderPCs
<1>8. EatenInv
  <2>1. \A n \in 1..MaxItems : n - 1 >= 0
    BY SubQueueAssumption
  <2> QED
    BY <2>1, <1>2 DEF EatenInv, Open
<1> QED
  BY <1>1, <1>2, <1>3, <1>5, <1>6, <1>7, <1>8 DEF SubInv, GoneInv

\* After the destructor there is nothing left to do.
LEMMA NothingAfter ==
    ASSUME GoneInv, SubNext
    PROVE  ~gone
<1>1. SUFFICES ASSUME gone PROVE FALSE
  OBVIOUS
<1>2. ppc = "idle" /\ \A d \in Eaters : epc[d] = "idle"
  BY <1>1 DEF GoneInv, Resting
<1>3. ~Produce
  BY <1>1, <1>2 DEF Produce, EnqueueInBlock, EnqueueNewBlock, InsertEntry, AdvanceTail, GetBlock, NoNewBlock,
                    ConstructFirst, Publish
<1>4. ~Destroy
  BY <1>1 DEF Destroy
<1>5. \A d \in Eaters : ~Consume(d)
  BY ZenonT(30), <1>1, <1>2 DEF Consume, LoadTail, LoadOvercommit, Peek, CountMe, CheckTail, Repay, TakeIndex, LoadHeader,
                    LoadSlot, FindEntry, TakeItem, SetEmpty, ClearEntry, FreeBlock
<1> QED
  BY <1>3, <1>4, <1>5 DEF SubNext

\* Every step keeps the invariant.
LEMMA SubStep ==
    ASSUME SubTypeOK, SubInv, SubNext
    PROVE  SubTypeOK' /\ SubInv'
<1>1. CountsInv /\ RingInv /\ BlocksInv /\ EatersInv /\ EatenInv /\ GoneInv
  BY DEF SubInv
<1>2. ~gone
  BY <1>1, NothingAfter
<1>3. CASE Produce
  <2>1. SubTypeOK' /\ CountsInv'
    BY <1>1, <1>3, ProduceType, CountsProduce
  <2>2. gone' = gone
    BY <1>3 DEF Produce, EnqueueInBlock, EnqueueNewBlock, InsertEntry, AdvanceTail, GetBlock, NoNewBlock,
                ConstructFirst, Publish
  <2>3. RingInv' /\ BlocksInv' /\ EatersInv' /\ EatenInv'
    BY <2>1, <1>1, <1>2, <1>3, ConstructStep, GetBlockStep, ProducerStep DEF Produce
  <2> QED
    BY <2>1, <2>2, <2>3, <1>2 DEF SubInv, GoneInv
<1>4. CASE Destroy
  <2>1. CountsInv'
    BY <1>1, <1>4, CountsProduce
  <2>2. RingInv' /\ BlocksInv' /\ EatersInv' /\ EatenInv' /\ GoneInv' /\ freeBlocks' = 1..SubBlocks
    BY <1>1, <1>4, DestroyStep
  <2>3. SubTypeOK'
    BY <2>2, <1>4 DEF Destroy, SubTypeOK, countVars, producerVars, eaterVars
  <2> QED
    BY <2>1, <2>2, <2>3 DEF SubInv
<1>5. ASSUME NEW d \in Eaters, Consume(d) PROVE SubTypeOK' /\ SubInv'
  <2>1. SubTypeOK'
    BY <1>1, <1>5, EarlyType, FindType, LateType DEF Consume
  <2>2. CountsInv'
    BY <1>1, <1>5, CountsConsume
  <2>3. gone' = gone
    BY ZenonT(30), <1>5 DEF Consume, LoadTail, LoadOvercommit, Peek, CountMe, CheckTail, Repay, TakeIndex, LoadHeader,
                LoadSlot, FindEntry, TakeItem, SetEmpty, ClearEntry, FreeBlock
  <2>4. RingInv' /\ BlocksInv' /\ EatersInv' /\ EatenInv'
    BY <2>1, <1>1, <1>2, <1>5, EarlyStep, TakeIndexStep, LoadHeaderStep, LoadSlotStep, FindEntryStep,
       TakeItemStep, SetEmptyStep, ClearEntryStep, FreeBlockStep DEF Consume
  <2> QED
    BY <2>1, <2>2, <2>3, <2>4, <1>2 DEF SubInv, GoneInv
<1> QED
  BY <1>3, <1>4, <1>5 DEF SubNext

\* The invariant says what is promised.
LEMMA SubInvOnce ==
    ASSUME SubTypeOK, SubInv
    PROVE  EachItemOnce
<1>1. CountsInv /\ RingInv /\ BlocksInv /\ EatersInv /\ EatenInv /\ GoneInv
  BY DEF SubInv
<1>2. ASSUME NEW d \in Eaters, epc[d] = "take"
      PROVE  /\ entries[eat[d].entry].key = Base(eat[d].index)
             /\ entries[eat[d].entry].value # NoBlock
             /\ Found(d) # 0 /\ (Found(d) - 1) % Modulus = eat[d].index
  <2>1. PICK x \in {eat[d].entry}, i \in {eat[d].index} : TRUE
    OBVIOUS
  <2>2. /\ x \in InUse /\ entries[x].key = Base(i) /\ i \in Nat /\ i < items
        /\ content[entries[x].value][i % BLOCK_SIZE] = i + 1
    BY <2>1, <1>1, <1>2, ItemThere
  <2>3. Found(d) = i + 1
    BY <2>1, <2>2 DEF Found
  <2>4. i % Modulus = i
    <3>1. items \in Nat /\ items < Modulus /\ Modulus \in Nat /\ Modulus > 0
      BY <1>1, CountsSmall, ModulusLarge, NumbersType
    <3>2. i < Modulus
      BY <3>1, <2>2
    <3> QED
      BY <3>1, <3>2, <2>2, ModSmall
  <2>5. Found(d) # 0 /\ Found(d) - 1 = i
    BY <2>2, <2>3
  <2> QED
    BY <2>1, <2>2, <2>4, <2>5 DEF InUse
<1>3. \A d \in Eaters : epc[d] = "free" => eat[d].block \notin freeBlocks
  BY <1>1 DEF EatersInv, PlaceInv
<1>4. \A n \in 1..MaxItems : eaten[n] <= 1
  BY <1>1 DEF EatenInv
<1>5. ASSUME Resting PROVE Minus(dequeueOptimisticCount, dequeueOvercommit) = headIndex
  <2>1. Heads = {} /\ Checks = {} /\ Repays = {} /\ Cardinality({}) = 0
    BY <1>5, FS_EmptySet DEF Resting, Heads, Checks, Repays, Here
  <2>2. PICK h \in Nat, c \in Nat, o \in Nat :
           /\ h = headIndex /\ c = dequeueOptimisticCount /\ o = dequeueOvercommit
           /\ c <= Modulus \div 2 /\ o <= Modulus \div 2
    BY <1>1, CountsSmall DEF SubTypeOK
  <2>3. c = h + 0 + 0 + 0 + o
    BY <2>1, <2>2, <1>1 DEF CountsInv
  <2>4. o <= c /\ c - o = h
    BY <2>2, <2>3
  <2>5. Minus(c, o) = c - o
    BY <2>2, <2>4, CircularSmall
  <2> QED
    BY <2>2, <2>4, <2>5
<1>6. ASSUME Resting, NEW n \in 1..items PROVE eaten[n] = (IF n <= items - Left THEN 1 ELSE 0)
  <2>1. PICK h \in Nat, z \in Nat : h = headIndex /\ z = items /\ Left = z - h /\ h <= z
    BY <1>1, <1>6, RestingIs, NumbersType
  <2>2. items - Left = h
    BY <2>1
  <2>3. Open(n - 1) <=> n - 1 >= h
    BY <2>1, <1>1, <1>6, RestingIs
  <2>4. n \in Nat /\ n \in 1..MaxItems
    <3>1. items \in 0..MaxItems /\ MaxItems \in Nat
      BY SubQueueAssumption DEF SubTypeOK
    <3> QED
      BY <3>1
  <2>5. n - 1 >= h <=> ~(n <= h)
    BY <2>1, <2>4
  <2>6. eaten[n] = IF Open(n - 1) THEN 0 ELSE 1
    BY <2>4, <1>1 DEF EatenInv
  <2> QED
    BY <2>2, <2>3, <2>5, <2>6
<1>7. gone => freeBlocks = 1..SubBlocks /\ PassedBlocks \cap LastBlock = {}
  BY <1>1 DEF GoneInv
<1> QED
  BY <1>2, <1>3, <1>4, <1>5, <1>6, <1>7 DEF EachItemOnce

\* A step that changes nothing.
LEMMA SubStutter ==
    ASSUME SubTypeOK, SubInv, UNCHANGED subVars
    PROVE  SubTypeOK' /\ SubInv'
<1>1. UNCHANGED <<tailIndex, headIndex, dequeueOptimisticCount, dequeueOvercommit, headers, entries, content, emptied,
                  freeBlocks, tailBlock, ppc, idxEntry, items, epc, eat, eaten, gone>>
  BY DEF subVars, ringVars, countVars, producerVars, eaterVars
<1>2. SubTypeOK'
  BY <1>1 DEF SubTypeOK
<1>3. CountsInv /\ RingInv /\ BlocksInv /\ EatersInv /\ EatenInv /\ GoneInv
  BY DEF SubInv
<1>4. CountsInv'
  <2>1. tailIndex = items /\ items \in Nat /\ items <= items /\ (ppc # "idle" => items < MaxItems)
    BY <1>3, NumbersType DEF CountsInv
  <2> QED
    BY <2>1, <1>1, <1>3, CountsFrame DEF countVars
<1>5. RingInv' /\ InUse' = InUse /\ Kept /\ Got' = Got
  BY <1>1, <1>3, QuietRing
<1>6. BlocksInv' /\ EatersInv' /\ EatenInv'
  <2>1. LateSame
    BY <1>1 DEF LateSame
  <2>2. \A i \in Nat : Filled(i)' <=> Filled(i)
    BY <1>1 DEF Filled
  <2> QED
    BY <2>1, <2>2, <1>1, <1>2, <1>3, <1>5, QuietStep
<1>7. GoneInv'
  <2>1. PassedBlocks' = PassedBlocks /\ LastBlock' = LastBlock /\ (Resting' <=> Resting)
    BY <1>1 DEF PassedBlocks, LastBlock, Resting, BlockOf, Left, Header
  <2> QED
    BY <2>1, <1>1, <1>3 DEF GoneInv
<1> QED
  BY <1>2, <1>4, <1>5, <1>6, <1>7 DEF SubInv

\* The counters, the ring, the blocks and the dequeuers of a sub-queue always fit
\* together (ImplicitProducer::enqueue, dequeue, ~ImplicitProducer): the inductive
\* invariant.
THEOREM SubQueueFits == SubSpec => [](SubTypeOK /\ SubInv)
<1>1. SubInit => SubTypeOK /\ SubInv
  BY SubInitOK
<1>2. SubTypeOK /\ SubInv /\ [SubNext]_subVars => (SubTypeOK /\ SubInv)'
  BY SubStep, SubStutter
<1> QED
  BY <1>1, <1>2, PTL DEF SubSpec

\* What is enqueued comes out once, in order, and none is left behind, for any
\* number of dequeuers and of items, whatever the sizes of blocks and indexes
\* (ImplicitProducer::enqueue, dequeue, ~ImplicitProducer).
THEOREM SubQueueOnce == SubSpec => []EachItemOnce
<1>1. SubTypeOK /\ SubInv => EachItemOnce
  BY SubInvOnce
<1> QED
  BY <1>1, SubQueueFits, PTL
=============================================================================
