---------------------------- MODULE CasperPallet -----------------------------
(***************************************************************************)
(* The Casper FFG pallet of the substrate client                           *)
(* (substrate/casper/pallet/src/lib.rs) on one chain, with the off-chain   *)
(* workers that sign attestations, the transaction pool that carries them, *)
(* and the block import that finalizes in the client what the runtime      *)
(* reports (substrate/casper/consensus/src/lib.rs).                        *)
(*                                                                         *)
(* On one chain a block hash is its number.  All attestations of one       *)
(* stored vector have the same source and target, so a vector is the       *)
(* number of times each validator occurs in it.  The pallet does not look  *)
(* for a vote in the vector before it adds it: that a vote is delivered at *)
(* most once is an assumption about the transaction pool, which            *)
(* validate_unsigned asks to hold one copy (the `provides' tag).           *)
(***************************************************************************)
EXTENDS Justifier, Sequences, FiniteSets, SequencesExt

CONSTANTS
  Genesis,         \* the genesis validators: a sequence of identities
  NextSets,        \* the validator sequences a new session may bring
  Faulty,          \* validators that sign anything
  KeySets,         \* the sets of keys for which signing succeeds
  SessionLength,   \* blocks in a session (external: the session module)
  BlockHashCount,  \* block hashes the runtime remembers (external: system)
  MaxEpoch,        \* bound
  FaultyEpochs,    \* bound: the epochs in which they do so freely
  MaxFaulty,       \* bound: attestations signed by faulty validators
  DisabledEpochs,  \* bound: the epochs in which a validator is disabled
  MaxDisabled      \* bound: calls of on_disabled

ASSUME PalletAssumption == SessionLength \in Nat \ {0} /\ BlockHashCount \in Nat

VARIABLES
  block,            \* the number of the block being executed
  validators,       \* Validators: a sequence of [id, weight]
  previous_epoch, current_epoch,          \* the epochs with their block numbers,
  previous_justified, current_justified,  \* as records [epoch, number]
  finalized,
  previous_votes, current_votes,  \* the two attestation vectors
  bits,             \* JustificationBits
  pool,             \* signed attestations waiting for inclusion
  signed,           \* history: every attestation ever signed
  slashed,          \* validators reported to OnSlashing
  justified,        \* history: the epochs that were justified
  client_final,     \* the block the client has finalized
  disabled          \* how often on_disabled was called

checkpoints == <<previous_epoch, current_epoch, previous_justified, current_justified, finalized>>
tally == <<previous_votes, current_votes>>
history == <<signed, slashed, justified>>
vars == <<block, validators, checkpoints, tally, bits, pool, history, client_final, disabled>>

Sets == NextSets \union {Genesis}
Ids == UNION {Range(s) : s \in Sets}
NoVotes == [v \in Ids |-> 0]
At(epoch, number) == [epoch |-> epoch, number |-> number]

\* The default hash, returned for a block that is unknown or forgotten.
ZeroHash == -1

\* system::Module::block_hash.
block_hash(n) ==
  IF n < block /\ block - n <= BlockHashCount THEN n ELSE ZeroHash

finalized_block == block_hash(finalized.number)

Checkpoint(c) == [epoch |-> c.epoch, hash |-> block_hash(c.number)]

\* The validators of a session all have weight 1.
OfWeightOne(ids) == [i \in 1 .. Len(ids) |-> [id |-> ids[i], weight |-> 1]]

TotalWeight(vs) == FoldSeq(LAMBDA e, acc : acc + e.weight, 0, vs)

\* The fold over an attestation vector: every entry adds its validator's weight.
MatchingWeight(vs, votes) ==
  FoldSeq(LAMBDA e, acc : acc + votes[e.id] * e.weight, 0, vs)

-----------------------------------------------------------------------------
Init ==
  /\ block = 0
  /\ validators = OfWeightOne(Genesis)
  /\ previous_epoch = At(0, 0) /\ current_epoch = At(0, 0)
  /\ previous_justified = At(0, 0) /\ current_justified = At(0, 0)
  /\ finalized = At(0, 0)
  /\ previous_votes = NoVotes /\ current_votes = NoVotes
  /\ bits = [i \in BitIndex |-> FALSE]
  /\ pool = {} /\ signed = {} /\ slashed = {} /\ justified = {0}
  /\ client_final = 0
  /\ disabled = 0

\* The shift copies bits 0 to 2 and leaves bit 0 as it was.
shift(old, justify_previous, justify_current) ==
  [i \in BitIndex |-> IF i = 0 THEN old[0] \/ justify_current
                     ELSE old[i - 1] \/ (i = 1 /\ justify_previous)]

\* The two thirds condition.  Faulty variant first: one third is enough.
OneThird(vs, votes) == MatchingWeight(vs, votes) * 3 >= TotalWeight(vs)
Supermajority(vs, votes) == MatchingWeight(vs, votes) * 3 >= TotalWeight(vs) * 2

\* The epoch that a session opens, at the block that is being initialized.
\* Faulty variant first: the number of the block before.
LateBoundary(current, number) == At(current.epoch + 1, number - 1)
NextEpoch(current, number) == At(current.epoch + 1, number)

\* on_new_session, called while block number n is initialized.
on_new_session(n, changed, ids) ==
  LET justify_previous == Supermajority(validators, previous_votes)
      justify_current == Supermajority(validators, current_votes)
      new_bits == shift(bits, justify_previous, justify_current)
  IN /\ previous_justified' = current_justified
     /\ current_justified' = JustifiedCheckpoint(current_justified, previous_epoch,
                               current_epoch, justify_previous, justify_current)
     /\ justified' = justified \union {e \in {previous_epoch.epoch} : justify_previous}
                               \union {e \in {current_epoch.epoch} : justify_current}
     /\ bits' = new_bits
     /\ finalized' = FinalizedCheckpoint(new_bits, previous_justified, current_justified,
                                         current_epoch.epoch, finalized)
     /\ previous_votes' = NoVotes /\ current_votes' = NoVotes
     /\ validators' = IF changed THEN OfWeightOne(ids) ELSE validators
     /\ previous_epoch' = current_epoch
     /\ current_epoch' = NextEpoch(current_epoch, n)

\* CasperBlockImport::import_block: the client finalizes what the state of the
\* parent block reports; a hash it does not know is an error it only logs.
\* Faulty variant first: the error is not noticed.
ImportUnchecked(last) == finalized_block
ImportFinalized(last) ==
  IF finalized_block \in {last, ZeroHash} THEN last ELSE finalized_block

\* The next block is imported; the session module rotates every SessionLength
\* blocks, while the block is initialized.  Votes for older epochs, which attest
\* would reject, are no longer followed.
import_block(changed, ids) ==
  /\ block' = block + 1
  /\ client_final' = ImportFinalized(client_final)
  /\ IF (block + 1) % SessionLength = 0
     THEN /\ current_epoch.epoch < MaxEpoch
          /\ on_new_session(block + 1, changed, ids)
          /\ pool' = {a \in pool : a.target.epoch = current_epoch.epoch}
     ELSE UNCHANGED <<validators, checkpoints, tally, bits, justified, pool>>
  /\ UNCHANGED <<signed, slashed, disabled>>

-----------------------------------------------------------------------------
Attestation(v, source, target) == [validator_id |-> v, source |-> source, target |-> target]

\* validate_unsigned provides the encoded vote: the pool holds one copy of each.
validate_unsigned(attestations) == pool \union attestations

InSession(v) == \E i \in 1 .. Len(validators) : validators[i].id = v

\* offchain, in the block after the epoch's first: the node signs with each of
\* its keys that is in session; keys holds those before a failure, if any.
offchain(keys) ==
  LET vote(v) == Attestation(v, Checkpoint(current_justified), Checkpoint(current_epoch))
      new == {vote(v) : v \in {k \in keys \ Faulty : InSession(k)}}
  IN /\ block = current_epoch.number + 1
     /\ new # {} /\ new \intersect signed = {}
     /\ pool' = validate_unsigned(new) /\ signed' = signed \union new
     /\ UNCHANGED <<block, validators, checkpoints, tally, bits, slashed, justified,
                    client_final, disabled>>

\* A faulty validator signs a vote between any two epochs of the chain.
faulty_signs(v) ==
  /\ current_epoch.epoch \in FaultyEpochs
  /\ Cardinality({a \in signed : a.validator_id \in Faulty}) < MaxFaulty
  /\ \E s, t \in 0 .. current_epoch.epoch :
       LET a == Attestation(v, [epoch |-> s, hash |-> s * SessionLength],
                               [epoch |-> t, hash |-> t * SessionLength])
       IN a \notin signed /\ pool' = validate_unsigned({a}) /\ signed' = signed \union {a}
  /\ UNCHANGED <<block, validators, checkpoints, tally, bits, slashed, justified,
                 client_final, disabled>>

Counted(votes, v) == [votes EXCEPT ![v] = @ + 1]

\* offchain_worker runs once its block has been executed: what it signs is in a
\* later block at the earliest.
InLaterBlock(a) ==
  \/ a.validator_id \in Faulty
  \/ a.target.epoch = current_epoch.epoch => block > current_epoch.number + 1

\* attest: a vote of the previous epoch, else of the current one, else an error
\* that leaves the state alone.  Inclusion takes the vote from the pool.
attest(a) ==
  LET v == a.validator_id
      previous == a.source = Checkpoint(previous_justified)
                  /\ a.target = Checkpoint(previous_epoch)
      current == a.source = Checkpoint(current_justified)
                 /\ a.target = Checkpoint(current_epoch)
  IN /\ InLaterBlock(a)
     /\ pool' = pool \ {a}
     /\ previous_votes' = IF InSession(v) /\ previous THEN Counted(previous_votes, v)
                          ELSE previous_votes
     /\ current_votes' = IF InSession(v) /\ ~previous /\ current
                         THEN Counted(current_votes, v) ELSE current_votes
     /\ UNCHANGED <<block, validators, checkpoints, bits, history, client_final, disabled>>

\* The condition of slash.  Faulty variant first: a later vote is enough.
SlashableLater(a, b) ==
  \/ a.target.epoch = b.target.epoch
  \/ a.source.epoch < b.source.epoch
Slashable(a, b) ==
  \/ a.target.epoch = b.target.epoch
  \/ a.source.epoch < b.source.epoch /\ b.target.epoch < a.target.epoch

\* slash, with two signed attestations.
slash(a, b) ==
  /\ a # b
  /\ a.validator_id = b.validator_id
  /\ Slashable(a, b)
  /\ slashed' = slashed \union {a.validator_id}
  /\ UNCHANGED <<block, validators, checkpoints, tally, bits, pool, signed, justified,
                 client_final, disabled>>

\* The session module disables the i-th validator: its weight is gone.
on_disabled(i) ==
  /\ disabled < MaxDisabled /\ current_epoch.epoch \in DisabledEpochs
  /\ disabled' = disabled + 1
  /\ validators' = [validators EXCEPT ![i].weight = 0]
  /\ UNCHANGED <<block, checkpoints, tally, bits, pool, history, client_final>>

Next ==
  \/ import_block(FALSE, <<>>)
  \/ \E ids \in NextSets : import_block(TRUE, ids)
  \/ \E keys \in KeySets : offchain(keys)
  \/ \E v \in Faulty : faulty_signs(v)
  \/ \E a \in pool : attest(a)
  \/ \E a, b \in signed : slash(a, b)
  \/ \E i \in 1 .. Len(validators) : on_disabled(i)

Spec == Init /\ [][Next]_vars

-----------------------------------------------------------------------------
\* The epoch and the block number of a checkpoint are stored in two items and
\* copied separately by on_new_session: they always name the same checkpoint,
\* the first block of the epoch; they are ordered, and the client finalizes no
\* block that the runtime has not.
CheckpointsAtBoundaries ==
  /\ \A c \in {previous_epoch, current_epoch, previous_justified, current_justified, finalized} :
       c.number = c.epoch * SessionLength
  /\ client_final <= finalized.number
  /\ finalized.epoch <= previous_justified.epoch
  /\ previous_justified.epoch <= current_justified.epoch
  /\ current_justified.epoch <= current_epoch.epoch

\* A session justifies an epoch only if two thirds of the weight of that session
\* belongs to distinct validators that signed a vote with that target.
JustifiedByVotes ==
  [][\A e \in justified' \ justified :
       LET voters == {v \in Ids : \E a \in signed : a.validator_id = v /\ a.target.epoch = e}
       IN 3 * TotalWeight(SelectSeq(validators, LAMBDA x : x.id \in voters))
            >= 2 * TotalWeight(validators)]_vars

\* The finalized checkpoint of the runtime never goes back, although four rules
\* assign it one after the other, and neither does the finalized block of the
\* client, which reads the state of the parent.
FinalityMonotone ==
  [][finalized'.epoch >= finalized.epoch /\ client_final' >= client_final]_vars

\* A validator whose node only runs the off-chain worker is never slashed: no
\* two of the votes it signs on a chain are slashable.
HonestNotSlashed == slashed \subseteq Faulty

=============================================================================
