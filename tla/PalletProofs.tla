---------------------------- MODULE PalletProofs -----------------------------
(***************************************************************************)
(* Proofs about the Casper pallet, for any validators, sessions of any     *)
(* length, any faulty validators and any order in which votes are included.*)
(***************************************************************************)
EXTENDS CasperPallet, EpochArithmetic

Epochs == [epoch : Nat, number : Nat]

\* Types of what the proofs are about.
Types ==
  /\ block \in Nat
  /\ previous_epoch \in Epochs /\ current_epoch \in Epochs
  /\ previous_justified \in Epochs /\ current_justified \in Epochs
  /\ finalized \in Epochs
  /\ client_final \in Nat

\* The current epoch is the session of the block, and what is justified is not
\* younger than the epoch before: a late justification does not go back.
SessionOfBlock ==
  /\ current_epoch.epoch = block \div SessionLength
  /\ previous_epoch.epoch <= current_epoch.epoch
  /\ current_justified.epoch <= previous_epoch.epoch

\* The hash of block n as the off-chain worker of the current epoch reads it.
WorkerHash(n) ==
  IF n < current_epoch.number + 1 /\ current_epoch.number + 1 - n <= BlockHashCount
  THEN n ELSE ZeroHash

Honest == {a \in signed : a.validator_id \notin Faulty}

\* An honest vote of the current epoch is the one that offchain signs there,
\* whenever it was signed; older votes have older targets and no younger source.
HonestVotes ==
  \A a \in Honest :
    /\ a.source.epoch \in Nat /\ a.target.epoch \in Nat
    /\ a.target.epoch <= current_epoch.epoch
    /\ a.source.epoch <= current_justified.epoch
    /\ a.target.epoch = current_epoch.epoch =>
         a = Attestation(a.validator_id,
               [epoch |-> current_justified.epoch, hash |-> WorkerHash(current_justified.number)],
               [epoch |-> current_epoch.epoch, hash |-> WorkerHash(current_epoch.number)])

\* One honest vote to a target epoch, and sources that grow with the targets.
VotesNest ==
  \A a, b \in Honest :
    a.validator_id = b.validator_id =>
      /\ a.target.epoch = b.target.epoch => a = b
      /\ a.target.epoch < b.target.epoch => a.source.epoch <= b.source.epoch

\* The inductive invariant.
PInv ==
  /\ Types
  /\ CheckpointsAtBoundaries
  /\ SessionOfBlock
  /\ HonestVotes
  /\ VotesNest
  /\ HonestNotSlashed

-----------------------------------------------------------------------------
\* Of two checkpoints at session boundaries the older has the smaller number.
LEMMA BoundaryOrder ==
  ASSUME NEW N \in Nat \ {0}, NEW d \in Nat, NEW e \in Nat, d <= e
  PROVE  d * N \in Nat /\ d * N <= e * N
<1>1. N * (e - d) = N * e - N * d
  BY ProductOfDifference
<1>2. N * (e - d) >= 0
  BY ProductAtLeast, e - d \in Nat
<1>3. N * d = d * N /\ N * e = e * N /\ d * N \in Nat /\ e * N \in Nat
  OBVIOUS
<1> QED BY <1>1, <1>2, <1>3

\* The block that opens a session has the number of the epoch it opens.
LEMMA SessionBlock ==
  ASSUME block \in Nat, (block + 1) % SessionLength = 0
  PROVE  block + 1 = ((block \div SessionLength) + 1) * SessionLength
<1> DEFINE p == (block + 1) \div SessionLength
<1>1. p = (block \div SessionLength) + 1
  BY PalletAssumption, NextSlotEpoch
<1>2. block + 1 = SessionLength * p + 0 /\ p \in Nat
  BY PalletAssumption, QuotientRemainder, block + 1 \in Nat
<1> HIDE DEF p
<1> QED BY <1>1, <1>2, PalletAssumption

\* The genesis state.
LEMMA InitPInv == Init => PInv
<1> SUFFICES ASSUME Init PROVE PInv
  OBVIOUS
<1>1. Types /\ CheckpointsAtBoundaries
  BY PalletAssumption DEF Init, Types, Epochs, At, CheckpointsAtBoundaries
<1>2. SessionOfBlock
  <2>1. 0 \div SessionLength = 0
    BY PalletAssumption
  <2> QED BY <2>1 DEF Init, At, SessionOfBlock
<1>3. HonestVotes /\ VotesNest /\ HonestNotSlashed
  BY DEF Init, Honest, HonestVotes, VotesNest, HonestNotSlashed
<1> QED BY <1>1, <1>2, <1>3 DEF PInv

-----------------------------------------------------------------------------
\* A session opens: the checkpoints move on, and stay typed and ordered.
LEMMA SessionCheckpoints ==
  ASSUME PInv, NEW changed, NEW ids, on_new_session(block + 1, changed, ids),
         block' = block + 1, (block + 1) % SessionLength = 0
  PROVE  /\ previous_epoch' = current_epoch
         /\ current_epoch' = At(current_epoch.epoch + 1, block + 1)
         /\ previous_justified' = current_justified
         /\ current_justified' \in {current_justified, previous_epoch, current_epoch}
         /\ finalized' \in {finalized, previous_justified, current_justified}
BY DEF on_new_session, NextEpoch, JustifiedCheckpoint, FinalizedCheckpoint

\* What the client finalizes is finalized in the runtime, and not older than
\* what it finalized before.
LEMMA ClientFollows ==
  ASSUME PInv, client_final' = ImportFinalized(client_final)
  PROVE  client_final' \in Nat /\ client_final <= client_final'
         /\ client_final' <= finalized.number
<1>1. client_final \in Nat /\ finalized.number \in Nat /\ client_final <= finalized.number
  BY DEF PInv, Types, Epochs, CheckpointsAtBoundaries
<1>2. finalized_block \in {finalized.number, ZeroHash}
  BY DEF finalized_block, block_hash
<1> QED BY <1>1, <1>2 DEF ImportFinalized

\* Importing the block that opens a session.
LEMMA SessionPInv ==
  ASSUME PInv, NEW changed, NEW ids, on_new_session(block + 1, changed, ids),
         block' = block + 1, (block + 1) % SessionLength = 0,
         client_final' = ImportFinalized(client_final),
         signed' = signed, slashed' = slashed
  PROVE  PInv' /\ finalized'.epoch >= finalized.epoch
<1> DEFINE N == SessionLength
<1>1. /\ Types /\ CheckpointsAtBoundaries /\ SessionOfBlock /\ N \in Nat \ {0}
  BY PalletAssumption DEF PInv
<1>2. /\ previous_epoch' = current_epoch
      /\ current_epoch' = At(current_epoch.epoch + 1, block + 1)
      /\ previous_justified' = current_justified
      /\ current_justified' \in {current_justified, previous_epoch, current_epoch}
      /\ finalized' \in {finalized, previous_justified, current_justified}
  BY SessionCheckpoints
<1>3. block + 1 = (current_epoch.epoch + 1) * N
  BY <1>1, SessionBlock DEF SessionOfBlock, Types
<1>4. /\ client_final' \in Nat /\ client_final' <= finalized.number
  BY ClientFollows
<1>5. Types'
  BY <1>1, <1>2, <1>4 DEF Types, Epochs, At
<1>6. finalized'.epoch >= finalized.epoch
  BY <1>1, <1>2 DEF Types, Epochs, CheckpointsAtBoundaries
<1>7. CheckpointsAtBoundaries'
  <2>1. \A c \in {previous_epoch', current_epoch', previous_justified', current_justified',
                  finalized'} : c.number = c.epoch * N
    BY <1>1, <1>2, <1>3 DEF CheckpointsAtBoundaries, At
  <2>2. finalized.epoch * N <= finalized'.epoch * N
    BY <1>1, <1>5, <1>6, BoundaryOrder DEF Types, Epochs
  <2>3. client_final' <= finalized'.number
    BY <1>1, <1>4, <1>5, <2>1, <2>2 DEF CheckpointsAtBoundaries, Types, Epochs
  <2>4. /\ finalized'.epoch <= previous_justified'.epoch
        /\ previous_justified'.epoch <= current_justified'.epoch
        /\ current_justified'.epoch <= current_epoch'.epoch
    BY <1>1, <1>2 DEF Types, Epochs, CheckpointsAtBoundaries, SessionOfBlock, At
  <2> QED BY <2>1, <2>3, <2>4 DEF CheckpointsAtBoundaries
<1>8. SessionOfBlock'
  <2>1. (block + 1) \div N = (block \div N) + 1
    BY <1>1, NextSlotEpoch DEF Types
  <2> QED BY <2>1, <1>1, <1>2 DEF Types, Epochs, SessionOfBlock, At
<1>9. Honest' = Honest
  BY DEF Honest
<1>10. HonestVotes'
  <2> SUFFICES ASSUME NEW a \in Honest
               PROVE  /\ a.source.epoch \in Nat /\ a.target.epoch \in Nat
                      /\ a.target.epoch < current_epoch'.epoch
                      /\ a.source.epoch <= current_justified'.epoch
    BY <1>5, <1>9 DEF HonestVotes, Types, Epochs
  <2>1. /\ a.source.epoch \in Nat /\ a.target.epoch \in Nat
        /\ a.target.epoch <= current_epoch.epoch
        /\ a.source.epoch <= current_justified.epoch
    BY DEF PInv, HonestVotes
  <2> QED BY <2>1, <1>1, <1>2 DEF Types, Epochs, SessionOfBlock, At
<1>11. VotesNest' /\ HonestNotSlashed'
  BY <1>9 DEF PInv, VotesNest, HonestNotSlashed
<1> QED BY <1>5, <1>6, <1>7, <1>8, <1>10, <1>11 DEF PInv

\* A step that leaves the checkpoints alone and adds no vote and no slashing.
LEMMA SameEpochPInv ==
  ASSUME PInv, UNCHANGED checkpoints, UNCHANGED signed, slashed' \subseteq slashed \cup Faulty,
         block' \in Nat, block' \div SessionLength = block \div SessionLength,
         client_final' \in Nat, client_final' <= finalized.number
  PROVE  PInv'
<1>1. Types' /\ CheckpointsAtBoundaries' /\ SessionOfBlock'
  BY DEF PInv, Types, CheckpointsAtBoundaries, SessionOfBlock, checkpoints
<1>2. Honest' = Honest
  BY DEF Honest
<1>3. HonestVotes'
  BY <1>2 DEF PInv, HonestVotes, WorkerHash, checkpoints
<1>4. VotesNest' /\ HonestNotSlashed'
  BY <1>2 DEF PInv, VotesNest, HonestNotSlashed
<1> QED BY <1>1, <1>3, <1>4 DEF PInv

\* A block is imported.
LEMMA ImportPInv ==
  ASSUME PInv, NEW changed, NEW ids, import_block(changed, ids)
  PROVE  PInv' /\ finalized'.epoch >= finalized.epoch /\ client_final' >= client_final
<1>1. client_final' \in Nat /\ client_final <= client_final' /\ client_final' <= finalized.number
  BY ClientFollows DEF import_block
<1>2. block \in Nat /\ block' = block + 1 /\ finalized.epoch \in Nat /\ client_final \in Nat
  BY DEF import_block, PInv, Types, Epochs
<1>3. CASE (block + 1) % SessionLength = 0
  <2>1. PInv' /\ finalized'.epoch >= finalized.epoch
    BY <1>3, SessionPInv DEF import_block
  <2> QED BY <2>1, <1>1, <1>2
<1>4. CASE (block + 1) % SessionLength # 0
  <2>1. block' \div SessionLength = block \div SessionLength
    BY <1>2, <1>4, NextSlotEpoch, PalletAssumption
  <2>2. PInv'
    BY <2>1, <1>1, <1>2, <1>4, SameEpochPInv DEF import_block
  <2> QED BY <2>2, <1>1, <1>2, <1>4 DEF import_block, checkpoints
<1> QED BY <1>3, <1>4

\* The off-chain worker signs: its vote is the only one of its epoch, and its
\* source is as young as any before.
LEMMA OffchainPInv == ASSUME PInv, NEW keys, offchain(keys) PROVE PInv'
<1> DEFINE source == [epoch |-> current_justified.epoch,
                      hash |-> WorkerHash(current_justified.number)]
           target == [epoch |-> current_epoch.epoch, hash |-> WorkerHash(current_epoch.number)]
<1>1. block = current_epoch.number + 1 /\ UNCHANGED <<block, checkpoints, slashed, client_final>>
  BY DEF offchain
<1>2. Types' /\ CheckpointsAtBoundaries' /\ SessionOfBlock' /\ HonestNotSlashed'
  BY <1>1 DEF PInv, Types, CheckpointsAtBoundaries, SessionOfBlock, HonestNotSlashed, checkpoints
<1>3. ASSUME NEW a \in Honest' PROVE a \in Honest \/ a = Attestation(a.validator_id, source, target)
  <2>1. Checkpoint(current_justified) = source /\ Checkpoint(current_epoch) = target
    <3>1. block \in Nat /\ current_justified.number \in Nat /\ current_epoch.number \in Nat
      BY DEF PInv, Types, Epochs
    <3>2. \A n \in Nat : block_hash(n) = WorkerHash(n)
      BY <1>1, <3>1 DEF block_hash, WorkerHash
    <3> QED BY <3>1, <3>2 DEF Checkpoint
  <2>2. a.validator_id \notin Faulty /\ a \in signed'
    BY DEF Honest
  <2>3. CASE a \in signed
    BY <2>2, <2>3 DEF Honest
  <2>4. CASE a \notin signed
    <3>1. PICK v : a = Attestation(v, Checkpoint(current_justified), Checkpoint(current_epoch))
      BY <2>2, <2>4 DEF offchain
    <3>2. a.validator_id = v
      BY <3>1 DEF Attestation
    <3> HIDE DEF source, target
    <3> QED BY <3>1, <3>2, <2>1
  <2> QED BY <2>3, <2>4
<1>4. source.epoch = current_justified.epoch /\ target.epoch = current_epoch.epoch
      /\ current_justified.epoch \in Nat /\ current_epoch.epoch \in Nat
  BY DEF PInv, Types, Epochs
<1>5. source' = source /\ target' = target
  BY <1>1 DEF checkpoints, WorkerHash
<1> HIDE DEF source, target
<1>6. ASSUME NEW a \in Honest'
      PROVE  /\ a.source.epoch \in Nat /\ a.target.epoch \in Nat
             /\ a.target.epoch <= current_epoch.epoch
             /\ a.source.epoch <= current_justified.epoch
             /\ a.target.epoch = current_epoch.epoch => a = Attestation(a.validator_id, source, target)
  <2>1. CASE a \in Honest
    BY <2>1 DEF PInv, HonestVotes, source, target
  <2>2. CASE a = Attestation(a.validator_id, source, target)
    <3>1. a.source = source /\ a.target = target
      BY <2>2 DEF Attestation
    <3> QED BY <3>1, <2>2, <1>4
  <2> QED BY <2>1, <2>2, <1>3
<1>7. HonestVotes'
  BY <1>1, <1>5, <1>6 DEF HonestVotes, checkpoints, source, target, Attestation
<1>8. VotesNest'
  <2> SUFFICES ASSUME NEW a \in Honest', NEW b \in Honest', a.validator_id = b.validator_id
               PROVE  /\ a.target.epoch = b.target.epoch => a = b
                      /\ a.target.epoch < b.target.epoch => a.source.epoch <= b.source.epoch
    BY DEF VotesNest
  <2>1. CASE a \in Honest /\ b \in Honest
    BY <2>1 DEF PInv, VotesNest
  <2>2. CASE b = Attestation(b.validator_id, source, target)
    <3>1. b.source = source /\ b.target = target
      BY <2>2 DEF Attestation
    <3> QED BY <3>1, <2>2, <1>4, <1>6
  <2>3. CASE a = Attestation(a.validator_id, source, target)
    <3>1. a.target = target
      BY <2>3 DEF Attestation
    <3> QED BY <3>1, <2>3, <1>4, <1>6
  <2> QED BY <2>1, <2>2, <2>3, <1>3
<1> QED BY <1>2, <1>7, <1>8 DEF PInv

\* Every step keeps the invariant and takes back no finality.
LEMMA NextPInv ==
  ASSUME PInv, [Next]_vars
  PROVE  PInv' /\ finalized'.epoch >= finalized.epoch /\ client_final' >= client_final
<1>1. ASSUME UNCHANGED <<block, checkpoints, signed, client_final>>,
             slashed' \subseteq slashed \cup Faulty
      PROVE  PInv'
  BY <1>1, SameEpochPInv DEF PInv, Types, CheckpointsAtBoundaries
<1>2. ASSUME UNCHANGED <<checkpoints, client_final>>
      PROVE  finalized'.epoch >= finalized.epoch /\ client_final' >= client_final
  BY <1>2 DEF PInv, Types, Epochs, checkpoints
<1>3. CASE import_block(FALSE, <<>>)
  BY <1>3, ImportPInv
<1>4. CASE \E ids \in NextSets : import_block(TRUE, ids)
  BY <1>4, ImportPInv
<1>5. CASE \E keys \in KeySets : offchain(keys)
  BY <1>5, <1>2, OffchainPInv DEF offchain
<1>6. CASE \E v \in Faulty : faulty_signs(v)
  <2>1. PICK v \in Faulty : faulty_signs(v)
    BY <1>6
  <2>2. UNCHANGED <<block, checkpoints, slashed, client_final>>
    BY <2>1 DEF faulty_signs
  <2>3. Honest' = Honest
    BY <2>1 DEF faulty_signs, Honest, Attestation
  <2>4. PInv'
    BY <2>2, <2>3 DEF PInv, Types, CheckpointsAtBoundaries, SessionOfBlock, HonestVotes,
                      VotesNest, HonestNotSlashed, WorkerHash, checkpoints
  <2> QED BY <2>2, <2>4, <1>2
<1>7. CASE \E a \in pool : attest(a)
  BY <1>7, <1>1, <1>2 DEF attest, history
<1>8. CASE \E a, b \in signed : slash(a, b)
  <2>1. PICK a \in signed, b \in signed : slash(a, b)
    BY <1>8
  <2>2. UNCHANGED <<block, checkpoints, signed, client_final>>
        /\ slashed' = slashed \cup {a.validator_id}
    BY <2>1 DEF slash
  <2>3. a.validator_id \in Faulty
    <3> SUFFICES ASSUME a.validator_id \notin Faulty PROVE FALSE
      OBVIOUS
    <3>1. a \in Honest /\ b \in Honest /\ a # b /\ a.validator_id = b.validator_id
          /\ Slashable(a, b)
      BY <2>1 DEF slash, Honest
    <3>2. /\ a.source.epoch \in Nat /\ a.target.epoch \in Nat
          /\ b.source.epoch \in Nat /\ b.target.epoch \in Nat
      BY <3>1 DEF PInv, HonestVotes
    <3>3. /\ a.target.epoch # b.target.epoch
          /\ b.target.epoch < a.target.epoch => b.source.epoch <= a.source.epoch
      BY <3>1 DEF PInv, VotesNest
    <3> QED BY <3>1, <3>2, <3>3 DEF Slashable
  <2> QED BY <2>2, <2>3, <1>1, <1>2
<1>9. CASE \E i \in 1 .. Len(validators) : on_disabled(i)
  BY <1>9, <1>1, <1>2 DEF on_disabled, history
<1>10. CASE UNCHANGED vars
  BY <1>10, <1>1, <1>2 DEF vars, history
<1> QED BY <1>3, <1>4, <1>5, <1>6, <1>7, <1>8, <1>9, <1>10 DEF Next

-----------------------------------------------------------------------------
\* The invariant holds of every behaviour of the pallet.
THEOREM PalletInvariance == Spec => []PInv
<1> QED BY InitPInv, NextPInv, PTL DEF Spec

\* Epochs and block numbers, copied one by one in on_new_session, never get
\* apart, stay ordered, and the client is never ahead of the runtime.
THEOREM BoundaryCheckpoints == Spec => []CheckpointsAtBoundaries
<1>1. PInv => CheckpointsAtBoundaries
  BY DEF PInv
<1> QED BY <1>1, PalletInvariance, PTL

\* No validator that only runs offchain_worker is ever slashed.
THEOREM HonestySafe == Spec => []HonestNotSlashed
<1>1. PInv => HonestNotSlashed
  BY DEF PInv
<1> QED BY <1>1, PalletInvariance, PTL

\* Neither the runtime nor the client takes back what it has finalized.
THEOREM PalletFinality == Spec => FinalityMonotone
<1>1. PInv /\ [Next]_vars
        => [finalized'.epoch >= finalized.epoch /\ client_final' >= client_final]_vars
  BY NextPInv
<1> QED BY <1>1, PalletInvariance, PTL DEF Spec, FinalityMonotone

=============================================================================
