--------------------------- MODULE BlockProduction ---------------------------
(***************************************************************************)
(* The two ways a block meets a beacon state: the author builds it piece   *)
(* by piece with initialize_block, apply_inherent, apply_transaction and   *)
(* finalize_block (beacon/src/lib.rs), everybody executes it with          *)
(* state_transition (executive/transition).  Both are functions here, over *)
(* a state reduced to what attestations, deposits and the proposer need.   *)
(*                                                                         *)
(* A block is known by its identifier, which stands for its root; the      *)
(* state itself stands for the state root.  Validators have equal stakes   *)
(* and vote for the target of their chain (Casper models justification in  *)
(* full).  Deposits are counted; one has a valid proof exactly if its      *)
(* index is below deposit_count.                                           *)
(***************************************************************************)
EXTENDS Integers, Sequences, FiniteSets, SequencesExt

CONSTANTS
  Validators,
  Proposer,            \* [slots -> Validators]: beacon_proposer_index
  SlotsPerEpoch,
  MaxAttestations,     \* C::max_attestations
  MaxDeposits,         \* C::max_deposits
  EthPeriod,           \* C::slots_per_eth1_voting_period
  DepositCount         \* [{"genesis", "new"} -> Nat]: deposit_count of eth1 data

Epoch(s) == s \div SlotsPerEpoch
PreviousEpoch(s) == IF Epoch(s) = 0 THEN 0 ELSE Epoch(s) - 1

\* Results: a new state, or an error.
Ok(st) == [ok |-> TRUE, st |-> st]
Err(st) == [ok |-> FALSE, st |-> st]

GenesisState == [slot |-> 0, header |-> 0,
  current_justified |-> 0, previous_justified |-> 0,
  current_attestations |-> <<>>, previous_attestations |-> <<>>,
  deposit_count |-> DepositCount["genesis"], eth1_deposit_index |-> DepositCount["genesis"],
  eth1_votes |-> [d \in DOMAIN DepositCount |-> 0],
  slashed |-> {}]

-----------------------------------------------------------------------------
VotersOf(atts) == UNION {a.bits : a \in Range(atts)}

process_epoch(st) ==
  LET quorum(atts) == 3 * Cardinality(VotersOf(atts)) >= 2 * Cardinality(Validators)
      epoch == Epoch(st.slot)
      justified == IF epoch <= 1 THEN st.current_justified
                   ELSE IF quorum(st.current_attestations) THEN epoch
                   ELSE IF quorum(st.previous_attestations) THEN epoch - 1
                   ELSE st.current_justified
  IN [st EXCEPT !.previous_justified = IF epoch <= 1 THEN @ ELSE st.current_justified,
                !.current_justified = justified,
                !.previous_attestations = st.current_attestations,
                !.current_attestations = <<>>,
                !.eth1_votes = IF (st.slot + 1) % EthPeriod = 0
                               THEN [d \in DOMAIN DepositCount |-> 0] ELSE @]

process_slots(st, target) ==
  LET next(s) == [(IF (s.slot + 1) % SlotsPerEpoch = 0 THEN process_epoch(s) ELSE s)
                    EXCEPT !.slot = @ + 1]
      at[n \in st.slot .. target] == IF n = st.slot THEN st ELSE next(at[n - 1])
  IN at[target]

process_block_header(b, st) ==
  IF b.slot # st.slot \/ b.parent # st.header \/ Proposer[st.slot] \in st.slashed
  THEN Err(st)
  ELSE Ok([st EXCEPT !.header = b.id])

process_eth1_data(eth1, st) ==
  LET votes == [st.eth1_votes EXCEPT ![eth1] = @ + 1]
  IN [st EXCEPT !.eth1_votes = votes,
                !.deposit_count = IF votes[eth1] * 2 > EthPeriod THEN DepositCount[eth1] ELSE @]

\* min_attestation_inclusion_delay is 1.
InWindow(st, a) == a.slot + 1 <= st.slot /\ st.slot <= a.slot + SlotsPerEpoch

process_attestation(st, a) ==
  LET current == a.target = Epoch(st.slot)
  IN IF \/ a.target \notin {Epoch(st.slot), PreviousEpoch(st.slot)}
        \/ ~InWindow(st, a)
        \/ current /\ a.source # st.current_justified
     THEN Err(st)
     ELSE Ok(IF current THEN [st EXCEPT !.current_attestations = Append(@, a)]
             ELSE [st EXCEPT !.previous_attestations = Append(@, a)])

process_deposit(st) == [st EXCEPT !.eth1_deposit_index = @ + 1]

\* The unsigned difference of deposit_count and index: when the index is ahead
\* it wraps, in a release build, to a number above any limit.
Outstanding(st) == st.deposit_count - st.eth1_deposit_index
RequiredDeposits(st) ==
  IF Outstanding(st) \in 0 .. MaxDeposits THEN Outstanding(st) ELSE MaxDeposits

\* process_operations: slashings, attestations, deposits, each list in order.
process_operations(b, st) ==
  LET slashed == [st EXCEPT !.slashed = @ \union b.slashings]
      voted == FoldLeft(LAMBDA r, a : IF r.ok THEN process_attestation(r.st, a) ELSE r,
                        Ok(slashed), b.attestations)
      deposited[n \in 0 .. b.deposits] ==
        IF n = 0 THEN voted.st ELSE process_deposit(deposited[n - 1])
  IN IF \/ b.deposits # RequiredDeposits(st)
        \/ Len(b.attestations) > MaxAttestations
        \/ ~voted.ok
        \/ b.deposits > 0 /\ b.deposits > Outstanding(st)
     THEN Err(st)
     ELSE Ok(deposited[b.deposits])

\* state_transition without its last check: the state a block leads to.
process_block(b, parent_st) ==
  LET st == process_slots(parent_st, b.slot)
      header == process_block_header(b, st)
  IN IF b.slot < parent_st.slot \/ ~header.ok THEN Err(st)
     ELSE process_operations(b, process_eth1_data(b.eth1, header.st))

state_transition(b, parent_st) ==
  LET r == process_block(b, parent_st)
  IN IF r.ok /\ b.state_root = r.st THEN r ELSE Err(parent_st)

-----------------------------------------------------------------------------
\* A block with its state: what the author holds while it builds.
initialize_block(st, slot) == process_slots(st, slot)

apply_inherent(id, st, eth1) ==
  [block |-> [id |-> id, slot |-> st.slot, parent |-> st.header, eth1 |-> eth1,
              attestations |-> <<>>, deposits |-> 0, slashings |-> {},
              state_root |-> GenesisState],
   st |-> process_eth1_data(eth1, st)]

\* apply_transaction with an attestation: unchanged on an error.  Faulty variant
\* first: the limit is not looked at.
ApplyUnlimited(u, a) ==
  LET r == process_attestation(u.st, a)
  IN IF ~r.ok THEN u
     ELSE [block |-> [u.block EXCEPT !.attestations = Append(@, a)], st |-> r.st]
apply_attestation(u, a) ==
  LET r == process_attestation(u.st, a)
  IN IF Len(u.block.attestations) >= MaxAttestations \/ ~r.ok THEN u
     ELSE [block |-> [u.block EXCEPT !.attestations = Append(@, a)], st |-> r.st]

\* apply_transaction with a deposit whose proof holds.
apply_deposit(u) ==
  IF u.block.deposits >= MaxDeposits \/ Outstanding(u.st) <= 0 THEN u
  ELSE [block |-> [u.block EXCEPT !.deposits = @ + 1], st |-> process_deposit(u.st)]

\* finalize_block: the deposits are counted against what is still outstanding
\* after them, and the header is processed last.
finalize_block(u) ==
  LET header == process_block_header(u.block, u.st)
  IN IF \/ Outstanding(u.st) < 0
        \/ u.block.deposits # RequiredDeposits(u.st)
        \/ ~header.ok
     THEN [ok |-> FALSE, block |-> u.block]
     ELSE [ok |-> TRUE, block |-> [u.block EXCEPT !.state_root = header.st]]

=============================================================================
