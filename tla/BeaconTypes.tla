---------------------------- MODULE BeaconTypes ----------------------------
(***************************************************************************)
(* The structs of the beacon chain and of the network messages as SSZ      *)
(* types, field by field in the order of the source, with the lengths and  *)
(* limits of beacon/src/config.rs as constants.                            *)
(***************************************************************************)
EXTENDS SSZ

CONSTANTS
  SlotsPerHistoricalRoot, EpochsPerHistoricalVector, EpochsPerSlashingsVector,
  SlotsPerEth1VotingPeriod, HistoricalRootsLimit, ValidatorRegistryLimit,
  MaxValidatorsPerCommittee, MaxProposerSlashings, MaxAttesterSlashings,
  MaxAttestations, MaxAttestationsPerEpoch, MaxDeposits, MaxVoluntaryExits,
  DepositContractTreeDepth

-----------------------------------------------------------------------------
\* Primitives.

Uint == UintOf(8)

H256 == FixedHash(32)

Version == FixedHash(4)

ValidatorId == FixedHash(48)

Signature == FixedHash(96)

JustificationBitsLength == 4

-----------------------------------------------------------------------------
\* types/misc.rs

Fork == Struct(<<Version, Version, Uint>>)

Checkpoint == Struct(<<Uint, H256>>)

Validator ==
  Struct(<<ValidatorId, H256, Uint, Bool, Uint, Uint, Uint, Uint>>)

AttestationData == Struct(<<Uint, Uint, H256, Checkpoint, Checkpoint>>)

AttestationDataAndCustodyBit == Struct(<<AttestationData, Bool>>)

CommitteeIndices == MaxVec(Uint, MaxValidatorsPerCommittee)

CommitteeBits == BitList(MaxValidatorsPerCommittee)

IndexedAttestation ==
  Struct(<<CommitteeIndices, CommitteeIndices, AttestationData, Signature>>)

PendingAttestation == Struct(<<CommitteeBits, AttestationData, Uint, Uint>>)

Eth1Data == Struct(<<H256, Uint, H256>>)

HistoricalBatch ==
  Struct(<<VecArray(H256, SlotsPerHistoricalRoot),
           VecArray(H256, SlotsPerHistoricalRoot)>>)

DepositData == Struct(<<ValidatorId, H256, Uint, Signature>>)

BeaconBlockHeader == Struct(<<Uint, H256, H256, H256, Signature>>)

-----------------------------------------------------------------------------
\* types/operation.rs

ProposerSlashing == Struct(<<Uint, BeaconBlockHeader, BeaconBlockHeader>>)

AttesterSlashing == Struct(<<IndexedAttestation, IndexedAttestation>>)

Attestation ==
  Struct(<<CommitteeBits, AttestationData, CommitteeBits, Signature>>)

Deposit == Struct(<<VecArray(H256, DepositContractTreeDepth + 1), DepositData>>)

VoluntaryExit == Struct(<<Uint, Uint, Signature>>)

-----------------------------------------------------------------------------
\* types/block.rs

BeaconBlockBody ==
  Struct(<<Signature, Eth1Data, H256,
           MaxVec(ProposerSlashing, MaxProposerSlashings),
           MaxVec(AttesterSlashing, MaxAttesterSlashings),
           MaxVec(Attestation, MaxAttestations),
           MaxVec(Deposit, MaxDeposits),
           MaxVec(VoluntaryExit, MaxVoluntaryExits)>>)

BeaconBlock == Struct(<<Uint, H256, H256, BeaconBlockBody, Signature>>)

\* The signing form of a struct: every field but the signature, which is the
\* last of each of them.  SigningDepositData, SigningBeaconBlockHeader,
\* SigningIndexedAttestation, SigningAttestation, SigningVoluntaryExit and
\* UnsealedBeaconBlock are made this way.
Signing(t) == Struct(Front(t.fields))

-----------------------------------------------------------------------------
\* executive/mod.rs

BeaconState ==
  Struct(<<Uint, Uint, Fork,
           BeaconBlockHeader, VecArray(H256, SlotsPerHistoricalRoot),
           VecArray(H256, SlotsPerHistoricalRoot),
           MaxVec(H256, HistoricalRootsLimit),
           Eth1Data, MaxVec(Eth1Data, SlotsPerEth1VotingPeriod), Uint,
           MaxVec(Validator, ValidatorRegistryLimit),
           MaxVec(Uint, ValidatorRegistryLimit),
           VecArray(H256, EpochsPerHistoricalVector),
           VecArray(Uint, EpochsPerSlashingsVector),
           MaxVec(PendingAttestation, MaxAttestationsPerEpoch),
           MaxVec(PendingAttestation, MaxAttestationsPerEpoch),
           BitVector(JustificationBitsLength),
           Checkpoint, Checkpoint, Checkpoint>>)

-----------------------------------------------------------------------------
\* network/messages/src/items.rs

HelloMessage == Struct(<<Version, H256, Uint, H256, Uint>>)

BeaconBlocksRequest == Struct(<<H256, Uint, Uint, Uint>>)

RecentBeaconBlocksRequest == Struct(<<Vec(H256)>>)

\* The structs that cross the wire or make up the ones that do.
Structs ==
  {Fork, Checkpoint, Validator, AttestationData, AttestationDataAndCustodyBit,
   IndexedAttestation, PendingAttestation, Eth1Data, HistoricalBatch,
   DepositData, BeaconBlockHeader, ProposerSlashing, AttesterSlashing,
   Attestation, Deposit, VoluntaryExit, BeaconBlockBody, BeaconBlock,
   BeaconState, HelloMessage, BeaconBlocksRequest, RecentBeaconBlocksRequest}
  \cup {Signing(t) : t \in {IndexedAttestation, DepositData, BeaconBlockHeader,
                            Attestation, VoluntaryExit, BeaconBlock}}
=============================================================================
