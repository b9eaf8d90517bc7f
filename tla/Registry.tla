------------------------------ MODULE Registry -------------------------------
(***************************************************************************)
(* The validator registry of the beacon state: deposits, the activation    *)
(* queue, the exit queue, ejections, slashings and effective balances      *)
(* (executive/helpers/mutators.rs, per_block/operations, per_epoch).       *)
(*                                                                         *)
(* One action is one operation of some block of the current epoch, or the  *)
(* epoch transition.  Finality stalls or catches up with the epoch before  *)
(* the closing one, the latest Casper allows; rewards and penalties are    *)
(* any deltas of RewardDeltas.                                             *)
(***************************************************************************)
EXTENDS DepositTree, FiniteSets, FiniteSetsExt

CONSTANTS
  Deposits,                 \* the deposit contract: a sequence of deposits
  GenesisCount,             \* how many of them make the genesis state
  MaxEffectiveBalance, EffectiveBalanceIncrement, EjectionBalance,
  MaxSeedLookahead, MinValidatorWithdrawabilityDelay,
  PersistentCommitteePeriod, EpochsPerSlashingsVector,
  MaxValidatorsPerCommittee,
  MinPerEpochChurnLimit, ChurnLimitQuotient,
  MinSlashingPenaltyQuotient, WhistleblowerRewardQuotient,
  RewardDeltas,             \* what an epoch may add to a balance
  Proposers,                \* bound: the indices that may propose
  Stalls,                   \* bound: the epochs in which finality may stall
  DeltaEpochs,              \* bound: the epochs that may change balances
  MaxDeltas,                \* bound: balances such an epoch changes
  MaxSlashed,               \* bound: validators slashed
  MaxExits,                 \* bound: voluntary exits
  MaxEpoch                  \* bound: last epoch

\* consts::FAR_FUTURE_EPOCH is u64::max_value(): later than every epoch.
FAR_FUTURE_EPOCH == 1000

ASSUME RegistryAssumption ==
  /\ GenesisCount \in 1 .. Len(Deposits)
  /\ Len(Deposits) <= 2 ^ DepositContractTreeDepth
  /\ MinPerEpochChurnLimit \in Nat \ {0}
  /\ EpochsPerSlashingsVector \in Nat \ {0, 1}
  /\ EffectiveBalanceIncrement % 2 = 0
  /\ MaxEpoch * 10 < FAR_FUTURE_EPOCH

VARIABLES
  epoch,
  finalized_epoch,
  state,               \* [validators, balances, slashings] of the BeaconState
  eth1_deposit_index,
  exits,               \* number of voluntary exits so far
  slash_log,           \* history: [index, epoch, balance] of every slashing
  penalized            \* history: <<index, epoch>> of process_slashings

vars == <<epoch, finalized_epoch, state, eth1_deposit_index, exits, slash_log,
          penalized>>

-----------------------------------------------------------------------------
saturating_sub(a, b) == IF a > b THEN a - b ELSE 0

activation_exit_epoch(e) == e + 1 + MaxSeedLookahead

is_active(v, e) == v.activation_epoch <= e /\ e < v.exit_epoch
SlashableAgain(v, e) == v.activation_epoch <= e /\ e < v.withdrawable_epoch  \* faulty
is_slashable(v, e) ==
  ~v.slashed /\ v.activation_epoch <= e /\ e < v.withdrawable_epoch

active_validator_indices(vals, e) == {i \in DOMAIN vals : is_active(vals[i], e)}

validator_churn_limit(vals) ==
  Max({MinPerEpochChurnLimit,
       Cardinality(active_validator_indices(vals, epoch)) \div ChurnLimitQuotient})

total_active_balance(vals) ==
  Max({1, MapThenSumSet(LAMBDA i : vals[i].effective_balance,
                        active_validator_indices(vals, epoch))})

\* The epoch initiate_validator_exit assigns.  Faulty variant first: one too
\* many in an epoch.
ExitCount(vals, e) == Cardinality({i \in DOMAIN vals : vals[i].exit_epoch = e})
LastExitEpoch(vals) ==
  Max({activation_exit_epoch(epoch)} \cup
      {vals[i].exit_epoch : i \in {j \in DOMAIN vals : vals[j].exit_epoch # FAR_FUTURE_EPOCH}})
ExitQueueEpoch(vals) ==
  LET last == LastExitEpoch(vals)
  IN IF ExitCount(vals, last) >= validator_churn_limit(vals) THEN last + 1 ELSE last

\* Faulty variant first: no withdrawal delay.
ExitWithoutDelay(vals, i) ==
  IF vals[i].exit_epoch # FAR_FUTURE_EPOCH THEN vals
  ELSE [vals EXCEPT ![i].exit_epoch = ExitQueueEpoch(vals),
                    ![i].withdrawable_epoch = ExitQueueEpoch(vals)]
initiate_validator_exit(vals, i) ==
  IF vals[i].exit_epoch # FAR_FUTURE_EPOCH THEN vals
  ELSE [vals EXCEPT
          ![i].exit_epoch = ExitQueueEpoch(vals),
          ![i].withdrawable_epoch = ExitQueueEpoch(vals) + MinValidatorWithdrawabilityDelay]

\* When a slashed validator may withdraw.
SlashedWithdrawal(withdrawable_epoch) ==
  Max({withdrawable_epoch, epoch + EpochsPerSlashingsVector})

\* slash_validator without a whistleblower: the proposer gets both rewards.
slash_validator(st, i, proposer) ==
  LET vals == initiate_validator_exit(st.validators, i)
      slashed_balance == vals[i].effective_balance
      decreased == [st.balances EXCEPT
                      ![i] = saturating_sub(@, slashed_balance \div MinSlashingPenaltyQuotient)]
  IN [validators |->
        [vals EXCEPT ![i].slashed = TRUE,
                     ![i].withdrawable_epoch = SlashedWithdrawal(@)],
      balances |->
        [decreased EXCEPT ![proposer] = @ + slashed_balance \div WhistleblowerRewardQuotient],
      slashings |->
        [st.slashings EXCEPT ![epoch % EpochsPerSlashingsVector] = @ + slashed_balance]]

-----------------------------------------------------------------------------
\* A balance in whole increments, up to the maximum.
EffectiveBalanceOf(amount) ==
  Min({amount - (amount % EffectiveBalanceIncrement), MaxEffectiveBalance})

\* One deposit of the contract: a new validator, a top-up, or, when the proof
\* of possession is invalid, nothing.
NewValidator(d) ==
  [pubkey |-> d.pubkey,
   effective_balance |-> EffectiveBalanceOf(d.amount),
   slashed |-> FALSE,
   activation_eligibility_epoch |-> FAR_FUTURE_EPOCH,
   activation_epoch |-> FAR_FUTURE_EPOCH,
   exit_epoch |-> FAR_FUTURE_EPOCH,
   withdrawable_epoch |-> FAR_FUTURE_EPOCH]

ApplyDeposit(st, d) ==
  LET known == {i \in DOMAIN st.validators : st.validators[i].pubkey = d.pubkey}
  IN IF known # {}
     THEN [st EXCEPT !.balances[Min(known)] = @ + d.amount]
     ELSE IF d.valid
     THEN [st EXCEPT !.validators = Append(@, NewValidator(d)),
                     !.balances = Append(@, d.amount)]
     ELSE st

\* genesis_beacon_state: the genesis deposits, and the full ones active at once.
genesis_beacon_state ==
  LET empty == [validators |-> <<>>, balances |-> <<>>,
                slashings |-> [e \in 0 .. EpochsPerSlashingsVector - 1 |-> 0]]
      st == FoldLeft(ApplyDeposit, empty, SubSeq(Deposits, 1, GenesisCount))
  IN [st EXCEPT !.validators =
        [i \in DOMAIN @ |->
           IF @[i].effective_balance >= MaxEffectiveBalance
           THEN [@[i] EXCEPT !.activation_eligibility_epoch = 0, !.activation_epoch = 0]
           ELSE @[i]]]

Init ==
  /\ epoch = 0
  /\ finalized_epoch = 0
  /\ state = genesis_beacon_state
  /\ eth1_deposit_index = GenesisCount
  /\ exits = 0
  /\ slash_log = {}
  /\ penalized = {}

-----------------------------------------------------------------------------
indices == DOMAIN state.validators
Slashable == {i \in indices : is_slashable(state.validators[i], epoch)}

\* Slashes the validators of S, in the order of their indices.
SlashAll(S, proposer) ==
  /\ Cardinality({i \in indices : state.validators[i].slashed} \cup S) <= MaxSlashed
  /\ state' = FoldLeft(LAMBDA st, i : slash_validator(st, i, proposer), state,
                       SetToSortSeq(S, <))
  /\ slash_log' = slash_log \cup
       {[index |-> i, epoch |-> epoch, balance |-> state.validators[i].effective_balance] : i \in S}
  /\ UNCHANGED <<epoch, finalized_epoch, eth1_deposit_index, exits, penalized>>

\* Blocks, and with them all operations, need a proposer: some active validator.
process_proposer_slashing(i, proposer) ==
  /\ i \in Slashable
  /\ SlashAll({i}, proposer)

\* The indexed attestations of the signers of S.  Only validators sign, and the
\* signature of nobody is not valid.
is_valid_indexed_attestation(S) == S # {} /\ Cardinality(S) <= MaxValidatorsPerCommittee
IndexedAttestations == {S \in SUBSET indices : is_valid_indexed_attestation(S)}

\* Two conflicting attestations, signed by signers_1 and by signers_2.
process_attester_slashing(signers_1, signers_2, proposer) ==
  LET full == (signers_1 \cup signers_2) \cap Slashable
  IN /\ full # {}
     /\ SlashAll(full, proposer)

\* A block brings the k-th deposit of the contract, the whole of which eth1_data
\* covers, with its proof.
contract_tree == deposit_tree(Deposits)
contract_root == deposit_root(contract_tree)
contract_proofs == [k \in DOMAIN Deposits |-> deposit_proof(contract_tree, k - 1)]
ProofAccepted(k) ==
  is_valid_merkle_branch(tree_root(Deposits[k]), contract_proofs[k], eth1_deposit_index,
                         contract_root)

process_deposit(k) ==
  /\ ProofAccepted(k)
  /\ eth1_deposit_index' = eth1_deposit_index + 1
  /\ state' = ApplyDeposit(state, Deposits[k])
  /\ UNCHANGED <<epoch, finalized_epoch, exits, slash_log, penalized>>

process_voluntary_exit(i) ==
  /\ exits < MaxExits
  /\ is_active(state.validators[i], epoch)
  /\ state.validators[i].exit_epoch = FAR_FUTURE_EPOCH
  /\ epoch >= state.validators[i].activation_epoch + PersistentCommitteePeriod
  /\ state' = [state EXCEPT !.validators = initiate_validator_exit(@, i)]
  /\ exits' = exits + 1
  /\ UNCHANGED <<epoch, finalized_epoch, eth1_deposit_index, slash_log, penalized>>

-----------------------------------------------------------------------------
previous_epoch == IF epoch = 0 THEN 0 ELSE epoch - 1

\* Only validators eligible in the previous epoch are penalized; nothing is
\* paid or taken in the genesis epoch.
PossibleDeltas ==
  {d \in [indices -> RewardDeltas \cup {0}] :
     Cardinality({i \in indices : d[i] # 0}) <= MaxDeltas /\
     \A i \in indices :
       LET v == state.validators[i]
       IN /\ epoch = 0 \/ epoch \notin DeltaEpochs => d[i] = 0
          /\ d[i] < 0 => \/ is_active(v, previous_epoch)
                         \/ v.slashed /\ previous_epoch + 1 < v.withdrawable_epoch}

process_rewards_and_penalties(bals, deltas) ==
  [i \in DOMAIN bals |-> Max({0, bals[i] + deltas[i]})]

\* The first loop of process_registry_updates: eligibility, then ejection.
QueueOrEject(vals, i) ==
  LET v == vals[i]
      eligible == [vals EXCEPT ![i].activation_eligibility_epoch =
                     IF @ = FAR_FUTURE_EPOCH /\ v.effective_balance = MaxEffectiveBalance
                     THEN epoch ELSE @]
  IN IF is_active(v, epoch) /\ v.effective_balance <= EjectionBalance
     THEN initiate_validator_exit(eligible, i) ELSE eligible

\* The activation queue: who is eligible and whose activation, if one is set at
\* all, is not yet covered by finality.  Faulty variant first: finality is
\* not waited for.
QueueIgnoringFinality(vals, fin) ==
  {i \in DOMAIN vals :
     /\ vals[i].activation_eligibility_epoch # FAR_FUTURE_EPOCH
     /\ vals[i].activation_epoch = FAR_FUTURE_EPOCH}
activation_queue(vals, fin) ==
  {i \in DOMAIN vals :
     /\ vals[i].activation_eligibility_epoch # FAR_FUTURE_EPOCH
     /\ vals[i].activation_epoch >= activation_exit_epoch(fin)}

\* sort_by_key is stable.  Faulty variant first: in the order of the indices.
IndexOrder(vals, i, j) == i < j
QueueOrder(vals, i, j) ==
  LET a == vals[i].activation_eligibility_epoch
      b == vals[j].activation_eligibility_epoch
  IN a < b \/ (a = b /\ i < j)

\* Faulty variant first: validators waiting for finality start over.
ActivateAgain(vals, i) ==
  [vals EXCEPT ![i].activation_epoch = activation_exit_epoch(epoch)]
Activate(vals, i) ==
  [vals EXCEPT ![i].activation_epoch =
     IF @ = FAR_FUTURE_EPOCH THEN activation_exit_epoch(epoch) ELSE @]

process_registry_updates(vals, fin) ==
  LET queued == FoldLeft(QueueOrEject, vals, [i \in DOMAIN vals |-> i])
      queue == SetToSortSeq(activation_queue(queued, fin),
                            LAMBDA i, j : QueueOrder(queued, i, j))
      first == SubSeq(queue, 1, Min({Len(queue), validator_churn_limit(queued)}))
  IN FoldLeft(Activate, queued, first)

\* process_slashings: halfway to its withdrawal a slashed validator pays in
\* proportion to what was slashed around it.
Penalized(vals) ==
  {i \in DOMAIN vals :
     vals[i].slashed /\ epoch + EpochsPerSlashingsVector \div 2 = vals[i].withdrawable_epoch}

process_slashings(st) ==
  LET total == total_active_balance(st.validators)
      ring == st.slashings
      sum == MapThenSumSet(LAMBDA e : ring[e], DOMAIN ring)
      penalty(i) ==
        (((st.validators[i].effective_balance \div EffectiveBalanceIncrement)
            * Min({sum * 3, total})) \div total) * EffectiveBalanceIncrement
  IN [i \in DOMAIN st.balances |->
        IF i \in Penalized(st.validators)
        THEN saturating_sub(st.balances[i], penalty(i)) ELSE st.balances[i]]

\* The hysteresis of process_final_updates.
UpdatedEffectiveBalance(v, balance) ==
  IF \/ balance < v.effective_balance
     \/ v.effective_balance + 3 * (EffectiveBalanceIncrement \div 2) < balance
  THEN EffectiveBalanceOf(balance)
  ELSE v.effective_balance

\* The entry of the slashings vector that is cleared.  Faulty variant first.
ClearedTooEarly == (epoch + 2) % EpochsPerSlashingsVector
ClearedEntry == (epoch + 1) % EpochsPerSlashingsVector

process_final_updates(st) ==
  [st EXCEPT
     !.validators = [i \in DOMAIN @ |->
        [@[i] EXCEPT !.effective_balance = UpdatedEffectiveBalance(st.validators[i], st.balances[i])]],
     !.slashings[ClearedEntry] = 0]

\* process_epoch; `fin' is what process_justification_and_finalization finalizes.
process_epoch(deltas, fin) ==
  LET bals == process_rewards_and_penalties(state.balances, deltas)
      vals == process_registry_updates(state.validators, fin)
      st == [state EXCEPT !.validators = vals, !.balances = bals]
  IN /\ epoch < MaxEpoch
     /\ epoch' = epoch + 1
     /\ finalized_epoch' = fin
     /\ state' = process_final_updates([st EXCEPT !.balances = process_slashings(st)])
     /\ penalized' = penalized \cup {<<i, epoch>> : i \in Penalized(vals)}
     /\ UNCHANGED <<eth1_deposit_index, exits, slash_log>>

Next ==
  \/ \E proposer \in Proposers \cap active_validator_indices(state.validators, epoch) :
       \/ \E i \in indices : process_proposer_slashing(i, proposer)
       \/ \E S1, S2 \in IndexedAttestations : process_attester_slashing(S1, S2, proposer)
       \/ \E k \in DOMAIN Deposits : process_deposit(k)
       \/ \E i \in indices : process_voluntary_exit(i)
  \/ \E deltas \in PossibleDeltas,
        fin \in {finalized_epoch, Max({finalized_epoch, epoch - 1})} :
       /\ epoch \in Stalls \/ fin >= epoch - 1
       /\ process_epoch(deltas, fin)

Spec == Init /\ [][Next]_vars
-----------------------------------------------------------------------------
\* The status epochs of a validator come in the order of its life whatever
\* mixture of deposits, ejections, exits and slashings it goes through:
\* eligible, active, exited, withdrawable, with the full withdrawal delay
\* after the exit; a slashed validator is always on its way out.
LifecycleOrder ==
  \A i \in indices : LET v == state.validators[i] IN
    /\ v.activation_eligibility_epoch <= v.activation_epoch
    /\ v.slashed => v.exit_epoch # FAR_FUTURE_EPOCH
    /\ IF v.exit_epoch = FAR_FUTURE_EPOCH
       THEN v.withdrawable_epoch = FAR_FUTURE_EPOCH
       ELSE /\ v.activation_epoch < v.exit_epoch
            /\ v.exit_epoch + MinValidatorWithdrawabilityDelay <= v.withdrawable_epoch

\* The activation queue is first come first served: nobody who became eligible
\* later is activated earlier, across epochs and stalls of finality.
FifoActivation ==
  \A i, j \in indices : LET v == state.validators[i] w == state.validators[j] IN
    v.activation_eligibility_epoch < w.activation_eligibility_epoch
      => v.activation_epoch <= w.activation_epoch

\* The largest churn limit this registry can have had.
ChurnBound == Max({MinPerEpochChurnLimit, Len(state.validators) \div ChurnLimitQuotient})

\* While finality stalls, no more validators than one epoch's churn are
\* activated: the ones already scheduled keep their place at the head of the
\* queue until their activation is covered by finality.
ActivationsAwaitFinality ==
  Cardinality({i \in indices :
                 /\ state.validators[i].activation_epoch # FAR_FUTURE_EPOCH
                 /\ state.validators[i].activation_epoch >= activation_exit_epoch(finalized_epoch)})
    <= ChurnBound

\* Each slashed validator pays the correlated penalty of process_slashings
\* exactly once, however long the exit queue made its way out.
SlashedPenalizedOnce ==
  \A i \in indices :
    LET v == state.validators[i]
        due == v.slashed /\ epoch + EpochsPerSlashingsVector \div 2 > v.withdrawable_epoch
    IN Cardinality({p \in penalized : p[1] = i}) = IF due THEN 1 ELSE 0

\* The slashings vector holds exactly what was slashed in the last
\* EpochsPerSlashingsVector epochs, each slashing under its epoch.
SlashingsWindow ==
  \A e \in Max({0, epoch + 1 - EpochsPerSlashingsVector}) .. epoch :
    state.slashings[e % EpochsPerSlashingsVector] =
      MapThenSumSet(LAMBDA r : r.balance, {r \in slash_log : r.epoch = e})


\* Deposits enter in the order of the contract, each once and none is stuck: at
\* any time the next one, and no other, has a proof that process_deposit
\* accepts, however many layers of the tree are odd.
OnlyNextDeposit == \A k \in DOMAIN Deposits : ProofAccepted(k) <=> k = eth1_deposit_index + 1

\* What the registry has promised a validator stays: status epochs are set once,
\* only a slashing postpones the withdrawal, and no slashing is undone.
StatusIsFinal ==
  [][\A i \in indices :
       LET v == state.validators[i]
           w == state'.validators[i]
       IN /\ v.activation_eligibility_epoch # FAR_FUTURE_EPOCH
               => w.activation_eligibility_epoch = v.activation_eligibility_epoch
          /\ v.activation_epoch # FAR_FUTURE_EPOCH => w.activation_epoch = v.activation_epoch
          /\ v.exit_epoch # FAR_FUTURE_EPOCH => w.exit_epoch = v.exit_epoch
          /\ v.withdrawable_epoch # FAR_FUTURE_EPOCH =>
               \/ w.withdrawable_epoch = v.withdrawable_epoch
               \/ w.withdrawable_epoch > v.withdrawable_epoch /\ ~v.slashed /\ w.slashed
          /\ v.slashed => w.slashed]_vars

=============================================================================
