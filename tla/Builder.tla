------------------------------- MODULE Builder -------------------------------
(***************************************************************************)
(* The authoring thread of the client, builder_thread in                   *)
(* blockchain/src/main.rs, with its attestation pool (pool.rs), beside the *)
(* network thread that imports blocks of other authors.  One turn of the   *)
(* loop reads the head, signs the attestations that are due, builds a      *)
(* block if it holds the proposer's key and imports it; a failing unwrap   *)
(* ends the thread.                                                        *)
(*                                                                         *)
(* Which of two competing blocks becomes the head is left open (LmdGhost   *)
(* decides it); blocks of other authors extend the head of their time.     *)
(***************************************************************************)
EXTENDS BlockProduction, TLC

CONSTANTS
  Keys,           \* the validators whose secret keys the node holds
  Duty,           \* [slots -> SUBSET Validators]: the committee of a slot
  MaxSlot,        \* bound
  MaxSkip,        \* bound: empty slots before a block of another author
  MaxSlashings,   \* bound: validators slashed
  MaxCopies,      \* bound: attestations of the pool with the same data
  MaxOwn          \* bound: blocks built here

VARIABLES
  blocks,     \* the imported blocks, by identifier, with the state of each
  head,
  pool,       \* AttestationPool: attestation data -> its attestations
  built,      \* the block built and not yet imported, or NoBlock
  panicked,   \* the block on which an unwrap of the thread failed, or NoPanic
  signed,     \* history: attestations signed here
  own         \* history: the attestations of each block built here

vars == <<blocks, head, pool, built, panicked, signed, own>>

NoBlock == [id |-> -1]
NoPanic == -1

\* Identifiers: odd for blocks built here, even for the others.
OwnId == 2 * Len(own) + 1
OtherId == 2 * Cardinality(DOMAIN blocks)

-----------------------------------------------------------------------------
Init ==
  /\ blocks = (0 :> [slot |-> 0, st |-> GenesisState])
  /\ head = 0
  /\ pool = <<>>
  /\ built = NoBlock
  /\ panicked = NoPanic
  /\ signed = {} /\ own = <<>>

Data(a) == [slot |-> a.slot, root |-> a.root, source |-> a.source, target |-> a.target]

\* The loop looks at the bits of the new attestation only.
has_duplicate(existing, a) == \E v \in Validators : v \in a.bits

\* AttestationPool::push.
push(p, a) ==
  LET d == Data(a)
      free == {i \in DOMAIN p[d] : ~has_duplicate(p[d][i], a)}
      first == CHOOSE i \in free : \A j \in free : i <= j
  IN IF d \notin DOMAIN p THEN p @@ (d :> <<a>>)
     ELSE IF free = {} THEN [p EXCEPT ![d] = Append(@, a)]
     ELSE [p EXCEPT ![d][first].bits = @ \union a.bits]

\* AttestationPool::pop, for every attestation that was put into the block; it
\* takes all attestations with the same data.  Faulty variant first: nothing is taken out.
NoPop(p, atts) == p
pop_all(p, atts) == [d \in DOMAIN p \ {Data(a) : a \in Range(atts)} |-> p[d]]

DueAt(slot) == Keys \intersect Duty[slot]

Attestation(st, v) ==
  [slot |-> st.slot, root |-> head, bits |-> {v}, source |-> st.current_justified, target |-> Epoch(st.slot)]

\* The state of the slot after the head, and the pool with the new attestations.
Current == initialize_block(blocks[head].st, blocks[head].slot + 1)
Due == {Attestation(Current, v) : v \in DueAt(Current.slot)}
Filled(signing) == FoldLeft(push, pool, signing)

\* One turn of the loop, up to the import of the block; signing and order are
\* the orders in which the maps of keys and of the pool are iterated.
build(signing, order) ==
  LET filled == Filled(signing)
      offered == FlattenSeq([i \in DOMAIN order |-> filled[order[i]]])
      unsealed == FoldLeft(apply_attestation, apply_inherent(OwnId, Current, "genesis"), offered)
      sealed == finalize_block(unsealed)
      included == unsealed.block.attestations
  IN /\ panicked = NoPanic /\ built = NoBlock
     /\ signed' = signed \union Due
     /\ IF Proposer[Current.slot] \notin Keys
        THEN pool' = filled /\ UNCHANGED <<built, panicked, own>>
        ELSE /\ pool' = pop_all(filled, included)
             /\ panicked' = IF sealed.ok THEN NoPanic ELSE head
             /\ built' = IF sealed.ok THEN sealed.block ELSE NoBlock
             /\ own' = Append(own, Range(included))
     /\ UNCHANGED <<blocks, head>>

\* Import of a block: executed on its parent, stored, and the head or not.
\* Returns the new blocks.
Imported(b, r) == blocks @@ (b.id :> [slot |-> b.slot, st |-> r.st])

import_own ==
  LET r == state_transition(built, blocks[built.parent].st)
  IN /\ built # NoBlock
     /\ built' = NoBlock
     /\ panicked' = IF r.ok THEN NoPanic ELSE built.parent
     /\ IF r.ok THEN blocks' = Imported(built, r) /\ head' \in {head, built.id}
        ELSE UNCHANGED <<blocks, head>>
     /\ UNCHANGED <<pool, signed, own>>

\* The network thread imports a block of another author on top of the head.
import_other(slot, eth1, slashings) ==
  LET st == initialize_block(blocks[head].st, slot)
      due == RequiredDeposits(process_eth1_data(eth1, st))
      b == [id |-> OtherId, slot |-> slot, parent |-> head, eth1 |-> eth1,
            attestations |-> <<>>, deposits |-> due, slashings |-> slashings,
            state_root |-> GenesisState]
      r == process_block(b, blocks[head].st)
  IN /\ Proposer[slot] \notin Keys
     /\ Cardinality(st.slashed \union slashings) <= MaxSlashings
     /\ r.ok
     /\ blocks' = Imported(b, r)
     /\ head' = b.id
     /\ UNCHANGED <<pool, built, panicked, signed, own>>

Next ==
  \/ /\ blocks[head].slot < MaxSlot /\ Len(own) < MaxOwn
     /\ \E signing \in SetToSeqs(Due) :
          /\ \A d \in DOMAIN Filled(signing) : Len(Filled(signing)[d]) <= MaxCopies
          /\ \E order \in SetToSeqs(DOMAIN Filled(signing)) : build(signing, order)
  \/ import_own
  \/ \E s \in blocks[head].slot + 1 .. blocks[head].slot + 1 + MaxSkip,
        e \in DOMAIN DepositCount, v \in SUBSET Keys :
       s <= MaxSlot /\ import_other(s, e, v)

Spec == Init /\ [][Next]_vars

-----------------------------------------------------------------------------
\* The thread ends only when the proposer whose key it holds is slashed, or the
\* chain waits for deposits, which it never includes: the block that it builds
\* is always one that it can import itself.
PanicsExplained ==
  panicked # NoPanic =>
     LET st == initialize_block(blocks[panicked].st, blocks[panicked].slot + 1)
     IN \/ Proposer[st.slot] \in st.slashed \intersect Keys
        \/ Outstanding(process_eth1_data("genesis", st)) # 0


\* An attestation goes into one block of this node only, even if it was pushed
\* more than once because the head did not move.
InOneBlock ==
  \A i, j \in DOMAIN own : i # j => own[i] \intersect own[j] = {}

=============================================================================
