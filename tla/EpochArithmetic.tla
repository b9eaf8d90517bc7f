-------------------------- MODULE EpochArithmetic ----------------------------
(***************************************************************************)
(* Facts about the integer division and the modulo with which the beacon   *)
(* chain turns slots into epochs (utils::epoch_of_slot) and into positions *)
(* of its ring buffers (block_roots, randao_mixes, slashings).             *)
(***************************************************************************)
EXTENDS Integers, TLAPS

\* Quotient and remainder, as epoch_of_slot and the ring positions use them.
LEMMA QuotientRemainder ==
  \A N \in Nat \ {0}, s \in Nat :
    /\ s = N * (s \div N) + (s % N)
    /\ s % N \in 0 .. (N - 1)
    /\ s \div N \in Nat
OBVIOUS

\* The number of slots between the first slots of two epochs.
LEMMA ProductOfDifference ==
  \A N \in Nat \ {0}, a, b \in Int : N * (b - a) = N * b - N * a
OBVIOUS

\* Slots in one, and in two, epochs or more.
LEMMA ProductAtLeast ==
  \A N \in Nat \ {0}, d \in Int : (d >= 1 => N * d >= N) /\ (d >= 2 => N * d >= 2 * N)
OBVIOUS

\* Going back by no epoch, or by one or more.
LEMMA ProductAtMost ==
  \A N \in Nat \ {0}, d \in Int : (d <= 0 => N * d <= 0) /\ (d <= -1 => N * d <= -N)
OBVIOUS

\* process_slots closes an epoch when slot + 1 is a multiple of the epoch
\* length: the epoch number then grows by one, and otherwise it stays.
LEMMA NextSlotEpoch ==
  ASSUME NEW N \in Nat \ {0}, NEW s \in Nat
  PROVE  (s + 1) \div N = IF (s + 1) % N = 0 THEN (s \div N) + 1 ELSE s \div N
<1> DEFINE q == s \div N
           p == (s + 1) \div N
           m == s % N
           n == (s + 1) % N
<1>1. s = N * q + m /\ m \in 0 .. (N - 1) /\ q \in Nat
  BY QuotientRemainder
<1>2. s + 1 = N * p + n /\ n \in 0 .. (N - 1) /\ p \in Nat
  BY QuotientRemainder, s + 1 \in Nat
<1> HIDE DEF q, p, m, n
<1>3. N * (p - q) = m + 1 - n
  BY <1>1, <1>2, ProductOfDifference
<1>4. CASE n = 0
  <2>1. p - q > 0
    BY <1>1, <1>2, <1>3, <1>4, ProductAtMost
  <2>2. p - q < 2
    BY <1>1, <1>2, <1>3, <1>4, ProductAtLeast
  <2> QED BY <2>1, <2>2, <1>1, <1>2, <1>4 DEF p, q, n
<1>5. CASE n # 0
  <2>1. N * (p - q) < N /\ N * (p - q) > -N
    BY <1>1, <1>2, <1>3, <1>5
  <2>2. p - q < 1
    BY <2>1, <1>1, <1>2, ProductAtLeast
  <2>3. p - q > -1
    BY <2>1, <1>1, <1>2, ProductAtMost
  <2> QED BY <2>2, <2>3, <1>1, <1>2, <1>5 DEF p, q, n
<1> QED BY <1>4, <1>5

\* Two slots less than the length of a ring buffer apart have different
\* positions in it.
LEMMA DistinctPositions ==
  ASSUME NEW N \in Nat \ {0}, NEW a \in Nat, NEW b \in Nat, a < b, b < a + N
  PROVE  a % N # b % N
<1> DEFINE q == a \div N
           p == b \div N
<1>1. a = N * q + (a % N) /\ a % N \in 0 .. (N - 1) /\ q \in Nat
  BY QuotientRemainder
<1>2. b = N * p + (b % N) /\ b % N \in 0 .. (N - 1) /\ p \in Nat
  BY QuotientRemainder
<1> HIDE DEF q, p
<1> SUFFICES ASSUME a % N = b % N PROVE FALSE
  OBVIOUS
<1>3. N * (p - q) = b - a
  BY <1>1, <1>2, ProductOfDifference
<1>4. p - q < 1
  BY <1>1, <1>2, <1>3, ProductAtLeast
<1>5. p - q > 0
  BY <1>1, <1>2, <1>3, ProductAtMost
<1> QED BY <1>1, <1>2, <1>4, <1>5

\* The first slot of the epoch of a slot is at most one epoch length before it,
\* and the slot before an epoch boundary is the last one of its epoch.
LEMMA EpochStart ==
  ASSUME NEW N \in Nat \ {0}, NEW s \in Nat
  PROVE  /\ (s \div N) * N \in Nat
         /\ (s \div N) * N <= s
         /\ s < (s \div N) * N + N
<1> DEFINE q == s \div N
<1>1. s = N * q + (s % N) /\ q \in Nat /\ s % N \in 0 .. (N - 1)
  BY QuotientRemainder
<1> HIDE DEF q
<1>2. N * q = q * N /\ q * N \in Nat
  BY <1>1
<1> QED BY <1>1, <1>2 DEF q

=============================================================================
