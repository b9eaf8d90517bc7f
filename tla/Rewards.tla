------------------------------- MODULE Rewards -------------------------------
(***************************************************************************)
(* What an epoch pays and takes, computed twice in the code: by the        *)
(* executive (per_epoch/reward.rs, per_epoch/helpers.rs) and by the        *)
(* generic components (components/reward.rs) over the Registry trait the   *)
(* executive implements (executive/mod.rs).                                *)
(***************************************************************************)
EXTENDS Committees

CONSTANTS
  BaseRewardFactor, ProposerRewardQuotient, InactivityPenaltyQuotient,
  MinEpochsToInactivityPenalty

BASE_REWARDS_PER_EPOCH == 4

VARIABLES
  previous_epoch_attestations,  \* sequence of pending attestations
  balances                      \* index -> Nat

-----------------------------------------------------------------------------
\* Newton's iteration from above.
integer_squareroot(n) ==
  LET iterate[x \in Nat] == LET y == (x + n \div x) \div 2 IN IF y < x THEN iterate[y] ELSE x
      start == (n + 1) \div 2
  IN IF start < n THEN iterate[start] ELSE n

base_reward(i, total) ==
  ((state.validators[i].effective_balance * BaseRewardFactor) \div integer_squareroot(total))
    \div BASE_REWARDS_PER_EPOCH
proposer_reward(i, total) == base_reward(i, total) \div ProposerRewardQuotient

is_eligible(v) ==
  \/ is_active(v, previous_epoch)
  \/ v.slashed /\ previous_epoch + 1 < v.withdrawable_epoch
Eligible == {i \in DOMAIN state.validators : is_eligible(state.validators[i])}

\* The attestations of the previous epoch: all of them match the source, some
\* the target, some the head.
matching_source_attestations == previous_epoch_attestations
matching_target_attestations ==
  SelectSeq(previous_epoch_attestations, LAMBDA a : a.data.target_matches)
matching_head_attestations ==
  SelectSeq(previous_epoch_attestations, LAMBDA a : a.data.head_matches)

Signers(a) == attesting_indices(a.data, a.bits).signers
unslashed_attesting_indices(attestations) ==
  {i \in UNION {Signers(a) : a \in ToSet(attestations)} : ~state.validators[i].slashed}

\* The attestation a validator and its proposer are paid for.  The fold starts
\* from the first attestation of the list, whoever signed it.
Earlier(a, b) == IF a.inclusion_delay < b.inclusion_delay THEN a ELSE b
min_inclusion_delay_attestation(i) ==
  FoldLeft(Earlier, matching_source_attestations[1],
           SelectSeq(matching_source_attestations, LAMBDA a : i \in Signers(a)))

\* Who is paid for what inclusion.
Inclusions ==
  {[index |-> i, attestation |-> min_inclusion_delay_attestation(i)] :
     i \in unslashed_attesting_indices(matching_source_attestations)}

-----------------------------------------------------------------------------
(***************************************************************************)
(* The executive.                                                          *)
(***************************************************************************)
\* Proposer rewards of validator i.
proposer_rewards(i, inclusions, total) ==
  MapThenSumSet(LAMBDA n : proposer_reward(n.index, total),
                {n \in inclusions : n.attestation.proposer_index = i})

inclusion_reward(i, inclusions, total) ==
  MapThenSumSet(LAMBDA n : (base_reward(i, total) - proposer_reward(i, total))
                             \div n.attestation.inclusion_delay,
                {n \in inclusions : n.index = i})

\* Faulty variant first: a validator that attests keeps its reward in a leak.
LeakOnlyAbsent(i, finality_delay, attesting, total) ==
  IF finality_delay > MinEpochsToInactivityPenalty /\ i \notin attesting
  THEN BASE_REWARDS_PER_EPOCH * base_reward(i, total)
       + (state.validators[i].effective_balance * finality_delay) \div InactivityPenaltyQuotient
  ELSE 0
inactivity_penalty(i, finality_delay, attesting, total) ==
  IF finality_delay > MinEpochsToInactivityPenalty
  THEN BASE_REWARDS_PER_EPOCH * base_reward(i, total)
       + IF i \in attesting THEN 0
         ELSE (state.validators[i].effective_balance * finality_delay) \div InactivityPenaltyQuotient
  ELSE 0

\* What one of the three kinds of matching attestations pays or takes.
micro_delta(i, attesting, total) ==
  IF i \in attesting
  THEN [reward |-> (base_reward(i, total) * total_balance(attesting)) \div total, penalty |-> 0]
  ELSE [reward |-> 0, penalty |-> base_reward(i, total)]

attestation_deltas(finalized) ==
  LET total == total_active_balance
      inclusions == Inclusions
      source == unslashed_attesting_indices(matching_source_attestations)
      target == unslashed_attesting_indices(matching_target_attestations)
      head == unslashed_attesting_indices(matching_head_attestations)
      delta(i) ==
        LET s == micro_delta(i, source, total)
            t == micro_delta(i, target, total)
            h == micro_delta(i, head, total)
        IN IF i \notin Eligible THEN [reward |-> 0, penalty |-> 0]
           ELSE [reward |-> s.reward + t.reward + h.reward,
                 penalty |-> s.penalty + t.penalty + h.penalty
                             + inactivity_penalty(i, previous_epoch - finalized, target, total)]
  IN [i \in DOMAIN state.validators |->
        [delta(i) EXCEPT !.reward = @ + proposer_rewards(i, inclusions, total)
                                      + inclusion_reward(i, inclusions, total)]]

saturating_sub(a, b) == IF a > b THEN a - b ELSE 0

\* Nothing is paid in the genesis epoch.
process_rewards_and_penalties(finalized) ==
  LET deltas == attestation_deltas(finalized)
      paid(i, d) == saturating_sub(balances[i] + d.reward, d.penalty)
  IN IF current_epoch = 0 THEN balances
     ELSE [i \in DOMAIN balances |-> paid(i, deltas[i])]

-----------------------------------------------------------------------------
(***************************************************************************)
(* components/reward.rs: two maps of deltas, filled by one loop after the  *)
(* other, a missing entry being zero.                                      *)
(***************************************************************************)
add(entries, i, value) == [entries EXCEPT ![i] = @ + value]

\* The balance and the validators of Registry for one kind of attestation.
unslashed_balance(attestations) == total_balance(unslashed_attesting_indices(attestations))

\* micro_incentives!(balance, validators)
micro_incentives(deltas, attestations) ==
  LET attesting == unslashed_attesting_indices(attestations)
      balance == unslashed_balance(attestations)
      total == total_active_balance
  IN FoldSet(LAMBDA i, d :
               IF i \in attesting
               THEN [d EXCEPT !.rewards = add(@, i, (base_reward(i, total) * balance) \div total)]
               ELSE [d EXCEPT !.penalties = add(@, i, base_reward(i, total))],
             deltas, Eligible)

proposer_and_inclusion(deltas) ==
  LET total == total_active_balance
  IN FoldSet(LAMBDA n, d :
               [d EXCEPT !.rewards =
                  add(add(@, n.attestation.proposer_index, proposer_reward(n.index, total)),
                      n.index, (base_reward(n.index, total) - proposer_reward(n.index, total))
                                 \div n.attestation.inclusion_delay)],
             deltas, Inclusions)

\* The attestations that spare a validator the second part of the leak.  Faulty
\* variant first: those that only match the source do, too.
SparedBySource == matching_source_attestations
SparedBy == matching_target_attestations
inactivity(deltas, finality_delay) ==
  LET spared == unslashed_attesting_indices(SparedBy)
      total == total_active_balance
      penalty(i) == base_reward(i, total) * BASE_REWARDS_PER_EPOCH
                    + IF i \in spared THEN 0
                      ELSE (state.validators[i].effective_balance * finality_delay)
                             \div InactivityPenaltyQuotient
  IN IF finality_delay <= MinEpochsToInactivityPenalty THEN deltas
     ELSE FoldSet(LAMBDA i, d : [d EXCEPT !.penalties = add(@, i, penalty(i))], deltas, Eligible)

\* The balances reward::process leaves.
component_process(finalized) ==
  LET none == [i \in DOMAIN state.validators |-> 0]
      micro == FoldLeft(micro_incentives, [rewards |-> none, penalties |-> none],
                        <<matching_source_attestations, matching_target_attestations,
                          matching_head_attestations>>)
      deltas == inactivity(proposer_and_inclusion(micro), previous_epoch - finalized)
      increased == [i \in DOMAIN balances |-> balances[i] + deltas.rewards[i]]
  IN [i \in DOMAIN balances |-> saturating_sub(increased[i], deltas.penalties[i])]

=============================================================================
