------------------------------ MODULE Permutor ------------------------------
(***************************************************************************)
(* Where the query ids and the random orders of dns.c come from:           *)
(* dns_k_permutor, a Feistel network whose round function is TEA under a   *)
(* random key, here any function of the round and the half block; and      *)
(* dns_k_shuffle16(), whose s-box is any permutation, with small bytes.    *)
(***************************************************************************)
EXTENDS Integers, Sequences, FiniteSets, Bitwise

CONSTANTS Ranges,     \* <<low, high>> given to dns_k_permutor_init()
          Rounds,     \* DNS_K_PERMUTOR_ROUNDS
          Wrap,       \* 2^32 for the unsigned stepi
          ByteBits,   \* 8
          MaxIds      \* bound: ids drawn

VARIABLES perm,       \* the struct dns_k_permutor, its key as the function F
          ids,        \* what dns_k_permutor_step() returned
          box         \* s-box and seed of a shuffle

permVars == <<perm, ids, box>>

\* dns_k_permutor_powof()
PowOf(n) == CHOOSE i \in 0 .. n : 2 ^ i >= n /\ (i = 0 \/ 2 ^ (i - 1) < n)

\* dns_k_permutor_init(): half blocks of shift bits.
Init_(low, high) ==
    LET length == (high - low) + 1
        width == PowOf(length)
        shift == (width + (width % 2)) \div 2
    IN  [stepi |-> 0, length |-> length, limit |-> high, shift |-> shift, mask |-> 2 ^ shift - 1]
RoundFunctions(p) == [0 .. Rounds - 2 -> [0 .. p.mask -> 0 .. p.mask]]

Half(p, n) == <<(n \div 2 ^ p.shift) % (p.mask + 1), n % (p.mask + 1)>>
Whole(p, h) == h[1] * 2 ^ p.shift + h[2]

\* dns_k_permutor_E() and its inverse dns_k_permutor_D(): the do loops over the rounds.
E_noxor(p, F, n) ==
    LET r[i \in 0 .. Rounds - 1] ==
            IF i = 0 THEN Half(p, n)
            ELSE <<r[i - 1][2], F[i - 1][r[i - 1][2]]>>
    IN  Whole(p, r[Rounds - 1])
E(p, F, n) ==
    LET r[i \in 0 .. Rounds - 1] ==
            IF i = 0 THEN Half(p, n)
            ELSE <<r[i - 1][2], r[i - 1][1] ^^ F[i - 1][r[i - 1][2]]>>
    IN  Whole(p, r[Rounds - 1])
D(p, F, n) ==
    LET l[i \in 0 .. Rounds - 1] ==
            IF i = Rounds - 1 THEN Half(p, n)
            ELSE <<l[i + 1][2] ^^ F[i][l[i + 1][1]], l[i + 1][1]>>
    IN  Whole(p, l[0])

\* dns_k_permutor_step(): the next block that falls into the range.  Some block
\* does before all of them have been tried.
Step ==
    LET at(k) == (perm.p.stepi + k) % Wrap
        hit(k) == E(perm.p, perm.F, at(k)) < perm.p.length
        n == CHOOSE k \in 0 .. 2 ^ (2 * perm.p.shift) : hit(k) /\ \A j \in 0 .. k - 1 : ~hit(j)
    IN  /\ Len(ids) < MaxIds
        /\ ids' = Append(ids, E(perm.p, perm.F, at(n)) + (perm.p.limit + 1 - perm.p.length))
        /\ perm' = [perm EXCEPT !.p.stepi = at(n + 1)]
        /\ UNCHANGED box

\* dns_k_shuffle16(): four rounds over the two bytes of n, each with a byte of the seed.
Shuffle16(n, sbox, seed) ==
    LET byte == 2 ^ ByteBits
        r[i \in 0 .. 4] ==
            IF i = 0 THEN <<n % byte, n \div byte>>
            ELSE LET a == sbox[r[i - 1][1] ^^ seed[i]] ^^ r[i - 1][2]
                 IN  <<a, sbox[r[i - 1][2]] ^^ a>>
    IN  r[4][1] * byte + r[4][2]

Bytes == 0 .. 2 ^ ByteBits - 1
Boxes == {f \in [Bytes -> Bytes] : \A x, y \in Bytes : f[x] = f[y] => x = y}

KeyInit ==
    /\ \E g \in Ranges : LET p == Init_(g[1], g[2])
                         IN  perm \in {[p |-> p, F |-> f] : f \in RoundFunctions(p)}
    /\ ids = <<>>
BoxInit == box \in [sbox : Boxes, seed : [1 .. 4 -> Bytes]]
PermInit == KeyInit /\ BoxInit
PermNext == Step
-----------------------------------------------------------------------------
\* Whatever the key, a query id is in the range asked for and comes again only
\* after every other one (an answer to an old query is not taken for one to a
\* new), D undoes E, and no seed gives two records or servers the same place.
NeverRepeats ==
    /\ \A i \in DOMAIN ids :
          /\ ids[i] \in (perm.p.limit + 1 - perm.p.length) .. perm.p.limit
          /\ \A j \in DOMAIN ids : i < j /\ j - i < perm.p.length => ids[i] # ids[j]
    /\ ids = <<>> =>
          /\ \A n \in 0 .. 2 ^ (2 * perm.p.shift) - 1 : D(perm.p, perm.F, E(perm.p, perm.F, n)) = n
          /\ LET N == 0 .. 2 ^ (2 * ByteBits) - 1
             IN  Cardinality({Shuffle16(n, box.sbox, box.seed) : n \in N}) = Cardinality(N)
=============================================================================
