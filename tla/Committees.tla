----------------------------- MODULE Committees ------------------------------
(***************************************************************************)
(* Who attests and who proposes: the swap-or-not shuffle, the committees   *)
(* of a slot and the proposer (utils/mod.rs, executive/helpers/            *)
(* accessors.rs, executive/assignment.rs).                                 *)
(*                                                                         *)
(* The hash function is the constant operators Pivot, Bit and RandomByte   *)
(* of a seed.  A seed is what the code hashes to one.  The list of active  *)
(* validators counts from 1, all indices and positions from 0.             *)
(***************************************************************************)
EXTENDS Integers, Sequences, FiniteSets, FiniteSetsExt, SequencesExt

CONSTANTS
  SlotsPerEpoch, MaxCommitteesPerSlot, TargetCommitteeSize,
  ShuffleRoundCount, EpochsPerHistoricalVector, MinSeedLookahead,
  MaxEffectiveBalance,
  Pivot(_, _),              \* of a seed and a round: a natural number
  Bit(_, _, _),             \* of a seed, a round and a position: 0 or 1
  RandomByte(_, _)          \* of a seed and a counter: 0 .. 255

ASSUME CommitteesAssumption ==
  /\ SlotsPerEpoch \in Nat \ {0}
  /\ MaxCommitteesPerSlot \in Nat \ {0}
  /\ TargetCommitteeSize \in Nat \ {0}
  /\ MinSeedLookahead + 1 \in 1 .. EpochsPerHistoricalVector

VARIABLES
  slot,
  state           \* of the BeaconState:
                  \*   validators: index -> [effective_balance, slashed,
                  \*     activation_epoch, exit_epoch, withdrawable_epoch]
                  \*   randao_mixes: ring of EpochsPerHistoricalVector mixes

-----------------------------------------------------------------------------
\* One round of the shuffle of `count' indices.  Faulty variant first: the bit
\* is taken at the index itself, so that a pair may disagree about its swap.
OwnPosition(index, flip) == index
PositionOf(index, flip) == IF index > flip THEN index ELSE flip
SwapOrNot(index, round, count, seed) ==
  LET flip == (((Pivot(seed, round) % count) + count) - index) % count
  IN IF Bit(seed, round, PositionOf(index, flip)) # 0 THEN flip ELSE index

shuffled_index(index, count, seed) ==
  LET after[rounds \in 0 .. ShuffleRoundCount] ==
        IF rounds = 0 THEN index ELSE SwapOrNot(after[rounds - 1], rounds - 1, count, seed)
  IN after[ShuffleRoundCount]

\* The slice `index' of `count' of the shuffled list.
compute_committee(indices, seed, index, count) ==
  LET start == (Len(indices) * index) \div count
      end == (Len(indices) * (index + 1)) \div count
  IN [k \in 1 .. end - start |->
        indices[shuffled_index(start + k - 1, Len(indices), seed) + 1]]

-----------------------------------------------------------------------------
epoch_of_slot(s) == s \div SlotsPerEpoch
current_epoch == epoch_of_slot(slot)
previous_epoch == IF current_epoch = 0 THEN 0 ELSE current_epoch - 1
SlotsOf(e) == e * SlotsPerEpoch .. (e + 1) * SlotsPerEpoch - 1

is_active(v, e) == v.activation_epoch <= e /\ e < v.exit_epoch
active_validator_indices(st, e) ==
  LET active == {i \in DOMAIN st.validators : is_active(st.validators[i], e)}
  IN [k \in 1 .. Cardinality(active) |->
        CHOOSE i \in active : Cardinality({j \in active : j < i}) = k - 1]

total_balance(S) == Max({1, MapThenSumSet(LAMBDA i : state.validators[i].effective_balance, S)})
total_active_balance == total_balance(ToSet(active_validator_indices(state, current_epoch)))

\* The mix a seed is made of is two epochs old or older.  Faulty variant first:
\* the mix of the epoch itself, which its blocks still change.
NoLookahead(st, e, domain_type) ==
  [domain |-> domain_type, epoch |-> e, mix |-> st.randao_mixes[e % EpochsPerHistoricalVector]]
Seed(st, e, domain_type) ==
  [domain |-> domain_type, epoch |-> e,
   mix |-> st.randao_mixes[(e + EpochsPerHistoricalVector - MinSeedLookahead - 1)
                          % EpochsPerHistoricalVector]]

committee_count_at_slot(st, s) ==
  LET n == Len(active_validator_indices(st, epoch_of_slot(s)))
  IN Max({1, Min({MaxCommitteesPerSlot, (n \div SlotsPerEpoch) \div TargetCommitteeSize})})

beacon_committee(st, s, index) ==
  LET e == epoch_of_slot(s)
      per_slot == committee_count_at_slot(st, s)
  IN compute_committee(active_validator_indices(st, e), Seed(st, e, "attester"),
                       (s % SlotsPerEpoch) * per_slot + index, per_slot * SlotsPerEpoch)

\* The committees of an epoch, by slot and index, and the assignment of a
\* validator: the first of them that has it, or none.
EpochCommittees(st, e) ==
  [c \in {d \in SlotsOf(e) \X (0 .. MaxCommitteesPerSlot - 1) :
            d[2] < committee_count_at_slot(st, d[1])} |-> beacon_committee(st, c[1], c[2])]
committee_assignment(committees, i) ==
  LET mine == {c \in DOMAIN committees : i \in ToSet(committees[c])}
  IN {c \in mine : \A d \in mine : c[1] < d[1] \/ (c[1] = d[1] /\ c[2] <= d[2])}

\* Candidates are tried in shuffled order until one's balance beats its byte.
beacon_proposer_index ==
  LET seed == [base |-> Seed(state, current_epoch, "proposer"), slot |-> slot]
      active == active_validator_indices(state, current_epoch)
      candidate(k) == active[shuffled_index(k % Len(active), Len(active), seed) + 1]
      accepted(k) == state.validators[candidate(k)].effective_balance * 255
                       >= MaxEffectiveBalance * RandomByte(seed, k)
      first[k \in Nat] == IF accepted(k) THEN candidate(k) ELSE first[k + 1]
  IN first[0]

\* The members of the committee whose bits are set; an error is no set of
\* validators.
LengthError == [error |-> "AttestationBitFieldInvalid"]
attesting_indices(data, bits) ==
  LET committee == beacon_committee(state, data.slot, data.index)
  IN IF Len(committee) # Len(bits) THEN LengthError
     ELSE [signers |-> {committee[k] : k \in {j \in DOMAIN bits : bits[j]}}]

=============================================================================
