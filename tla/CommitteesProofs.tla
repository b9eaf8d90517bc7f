-------------------------- MODULE CommitteesProofs ---------------------------
(***************************************************************************)
(* A round of the swap-or-not shuffle is a permutation of the indices,     *)
(* for every number of validators, pivot and choice of bits.               *)
(***************************************************************************)
EXTENDS Committees, EpochArithmetic

\* The modulo of shuffled_index, on the numbers it is applied to.
LEMMA ModuloOnce ==
  ASSUME NEW N \in Nat \ {0}, NEW a \in 0 .. (2 * N - 1)
  PROVE  a % N = IF a < N THEN a ELSE a - N
<1> DEFINE q == a \div N
           m == a % N
<1>1. a = N * q + m /\ m \in 0 .. (N - 1) /\ q \in Nat
  BY QuotientRemainder, a \in Nat
<1> HIDE DEF q, m
<1>2. q < 2
  BY <1>1, ProductAtLeast
<1>3. CASE q = 0
  BY <1>1, <1>3 DEF m
<1>4. CASE q = 1
  BY <1>1, <1>4 DEF m
<1> QED BY <1>1, <1>2, <1>3, <1>4

Flip(p, count, i) == ((p + count) - i) % count

\* The partner of an index mirrors it in the pivot, modulo the number of indices.
LEMMA FlipValue ==
  ASSUME NEW count \in Nat \ {0}, NEW p \in 0 .. (count - 1), NEW i \in 0 .. (count - 1)
  PROVE  Flip(p, count, i) = IF i <= p THEN p - i ELSE (p + count) - i
<1> DEFINE a == (p + count) - i
<1>1. a \in 0 .. (2 * count - 1)
  OBVIOUS
<1>2. a < count <=> ~(i <= p)
  OBVIOUS
<1>3. a - count = p - i
  OBVIOUS
<1>4. Flip(p, count, i) = a % count
  BY DEF Flip
<1> HIDE DEF a
<1>5. a % count = IF a < count THEN a ELSE a - count
  BY <1>1, ModuloOnce
<1>6. Flip(p, count, i) = IF i <= p THEN p - i ELSE a
  BY <1>2, <1>3, <1>4, <1>5
<1> QED BY <1>6 DEF a

\* The partner of an index in a round is an index, and its partner is the
\* first one again.
LEMMA FlipInvolution ==
  ASSUME NEW count \in Nat \ {0}, NEW p \in 0 .. (count - 1), NEW i \in 0 .. (count - 1)
  PROVE  /\ Flip(p, count, i) \in 0 .. (count - 1)
         /\ Flip(p, count, Flip(p, count, i)) = i
<1> DEFINE j == Flip(p, count, i)
<1>1. j = IF i <= p THEN p - i ELSE (p + count) - i
  BY FlipValue
<1> HIDE DEF j
<1>2. j \in 0 .. (count - 1)
  BY <1>1
<1>3. Flip(p, count, j) = IF j <= p THEN p - j ELSE (p + count) - j
  BY <1>2, FlipValue
<1>4. Flip(p, count, j) = i
  BY <1>1, <1>2, <1>3
<1> QED BY <1>2, <1>4 DEF j

\* A round of shuffled_index maps indices to indices and undoes itself: an index
\* and its partner read the same bit, so both swap or both stay.
THEOREM SwapOrNotInvolution ==
  ASSUME NEW count \in Nat \ {0}, NEW seed, NEW round, Pivot(seed, round) \in Nat,
         NEW i \in 0 .. (count - 1)
  PROVE  /\ SwapOrNot(i, round, count, seed) \in 0 .. (count - 1)
         /\ SwapOrNot(SwapOrNot(i, round, count, seed), round, count, seed) = i
<1> DEFINE p == Pivot(seed, round) % count
           j == Flip(p, count, i)
<1>1. p \in 0 .. (count - 1)
  BY QuotientRemainder
<1>2. j \in 0 .. (count - 1) /\ Flip(p, count, j) = i
  BY <1>1, FlipInvolution
<1>3. SwapOrNot(i, round, count, seed) =
        IF Bit(seed, round, PositionOf(i, j)) # 0 THEN j ELSE i
  BY DEF SwapOrNot, Flip
<1>4. SwapOrNot(j, round, count, seed) =
        IF Bit(seed, round, PositionOf(j, Flip(p, count, j))) # 0 THEN Flip(p, count, j) ELSE j
  BY DEF SwapOrNot, Flip
<1> HIDE DEF p, j
<1>5. PositionOf(j, i) = PositionOf(i, j)
  BY <1>2 DEF PositionOf
<1>6. CASE Bit(seed, round, PositionOf(i, j)) # 0
  <2>1. SwapOrNot(i, round, count, seed) = j
    BY <1>3, <1>6
  <2>2. SwapOrNot(j, round, count, seed) = i
    BY <1>2, <1>4, <1>5, <1>6
  <2> QED BY <2>1, <2>2, <1>2
<1>7. CASE Bit(seed, round, PositionOf(i, j)) = 0
  BY <1>3, <1>7
<1> QED BY <1>6, <1>7

\* No two indices are shuffled to the same place: nobody loses a duty and
\* nobody has two in a round of shuffled_index.
THEOREM SwapOrNotInjective ==
  ASSUME NEW count \in Nat \ {0}, NEW seed, NEW round, Pivot(seed, round) \in Nat,
         NEW i \in 0 .. (count - 1), NEW k \in 0 .. (count - 1),
         SwapOrNot(i, round, count, seed) = SwapOrNot(k, round, count, seed)
  PROVE  i = k
BY SwapOrNotInvolution

=============================================================================
