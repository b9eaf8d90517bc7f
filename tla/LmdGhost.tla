------------------------------ MODULE LmdGhost -------------------------------
(***************************************************************************)
(* LMD-GHOST fork choice and the block importer built on it: ArchiveGhost  *)
(* and ArchiveGhostImporter (blockchain/lmd-ghost/src/archive.rs) over the *)
(* block store.  Imports are serialised by a mutex; each makes two         *)
(* separate commits, one for the block and one for the new head, and the   *)
(* process may die between them.  Votes live in memory only.               *)
(*                                                                         *)
(* What executing a block yields (its votes, the justified block and the   *)
(* active validators of its state) is chosen freely among what the beacon  *)
(* chain allows: the justified block is a proper ancestor, and the         *)
(* targets of votes are not checked against the store.                     *)
(***************************************************************************)
EXTENDS ChainStore, FiniteSetsExt

CONSTANTS
  Validators,
  MaxBlocks,      \* bound: blocks imported
  ActiveSets,     \* bound: the sets of active validators that occur
  MaxVotes,       \* bound: votes in one block
  SlotGaps,       \* bound: distances in slots between a block and its parent
  MaxCrashes      \* bound

VARIABLES
  votes,            \* ArchiveGhost.votes
  overlayed_votes,  \* ArchiveGhost.overlayed_votes
  justified,        \* justified_block_id of the state of each stored block
  importing,        \* the import in progress, between its two commits
  settled,          \* history: the import that set the head, if nothing came after
  crashes

ghost == <<votes, overlayed_votes>>
vars == <<store, ghost, justified, importing, settled, crashes>>

\* A vote target that is in no store.
Unknown == -2

Idle == [block |-> NoBlock, votes |-> <<>>, active |-> {}]

-----------------------------------------------------------------------------
\* ancestor_at(id, depth): id itself when it is not deeper than depth.
ancestor_at(id, depth) ==
  LET up[b \in DOMAIN blocks] == IF depth_at(b) > depth THEN up[parent_id(b)] ELSE b
  IN up[id]

\* The vote of each validator as vote_count sees it: the overlay wins.
Effective(vs, overlay) == overlay @@ vs

\* vote_count at the children's depth.  Faulty variant first: one level off.
vote_count_one_off(vs, block) ==
  Cardinality({v \in DOMAIN vs : ancestor_at(vs[v], depth_at(block) + 1) = block})
vote_count(vs, block) ==
  Cardinality({v \in DOMAIN vs : ancestor_at(vs[v], depth_at(block)) = block})

\* The first child with the most votes, the first child if none has any.
BestChild(vs, id) ==
  LET cs == children_at(id)
      best == {i \in 1 .. Len(cs) :
                 \A j \in 1 .. Len(cs) : vote_count(vs, cs[j]) <= vote_count(vs, cs[i])}
  IN cs[Min(best)]

ghost_head(vs, start) ==
  LET walk[b \in DOMAIN blocks] ==
        IF children_at(b) = <<>> THEN b ELSE walk[BestChild(vs, b)]
  IN walk[start]

\* vote_count fails when a target, of any validator, is not in the store.
AllKnown(vs) == \A v \in DOMAIN vs : contains(vs[v])

update_active(vs, active) == [v \in DOMAIN vs \cap active |-> vs[v]]

justified_block_id(id) == IF justified[id] = NoBlock THEN Genesis ELSE justified[id]

-----------------------------------------------------------------------------
Init ==
  /\ StoreInit
  /\ votes = <<>>
  /\ overlayed_votes = <<>>
  /\ justified = Genesis :> NoBlock
  /\ importing = Idle
  /\ settled = Idle
  /\ crashes = 0

\* The votes a block may carry.
BlockVotes ==
  UNION {[vs -> DOMAIN blocks \cup {Unknown}] :
           vs \in {ws \in SUBSET Validators : Cardinality(ws) <= MaxVotes}}

\* The blocks its state may have justified: what its parent's state had, or a
\* later ancestor.
MayBeJustified(parent) ==
  {justified[parent]} \cup
  {b \in Ancestry[parent] : depth_at(b) > depth_at(justified_block_id(parent))}

\* import_block up to the first commit: the block is executed and stored.
import_block(id, parent, gap, vs, active, just) ==
  /\ importing = Idle
  /\ commit(SettleImport(id, parent, blocks[parent].slot + gap))
  /\ justified' = id :> just @@ justified
  /\ importing' = [block |-> id, votes |-> vs, active |-> active]
  /\ settled' = Idle
  /\ UNCHANGED <<ghost, crashes>>

\* The overlay while the head is chosen.
NewOverlay == importing.votes @@ overlayed_votes

NewHead ==
  ghost_head(Effective(update_active(votes, importing.active), NewOverlay),
             justified_block_id(importing.block))

\* commit_overlay: a new vote replaces an older one.
commit_overlay(vs, overlay) == overlay @@ vs

\* reset_overlay.  Faulty variant first: the failed votes stay.
NoReset == NewOverlay
reset_overlay == <<>>

\* The rest of import_raw when every vote can be counted: the new head is
\* committed, with it the overlay.
set_new_head ==
  /\ importing # Idle
  /\ AllKnown(Effective(update_active(votes, importing.active), NewOverlay))
  /\ commit(SettleHead(NewHead))
  /\ votes' = commit_overlay(update_active(votes, importing.active), NewOverlay)
  /\ overlayed_votes' = <<>>
  /\ importing' = Idle
  /\ settled' = [importing EXCEPT !.active = {}]
  /\ UNCHANGED <<justified, crashes>>

\* head fails, or the second commit does: the block is stored all the same, but
\* the head stays where it was and the votes are dropped.  The second commit
\* may fail for reasons of the disk.
import_fails ==
  /\ importing # Idle
  /\ votes' = update_active(votes, importing.active)
  /\ overlayed_votes' = reset_overlay
  /\ importing' = Idle
  /\ settled' = Idle
  /\ UNCHANGED <<store, justified, crashes>>

\* The process dies and starts again: memory is lost.
crash ==
  /\ crashes < MaxCrashes
  /\ crashes' = crashes + 1
  /\ open_or_create
  /\ votes' = <<>>
  /\ overlayed_votes' = <<>>
  /\ importing' = Idle
  /\ settled' = Idle
  /\ UNCHANGED justified

Next ==
  \/ \E id \in 1 .. MaxBlocks, parent \in DOMAIN blocks, gap \in SlotGaps, active \in ActiveSets :
       \E vs \in BlockVotes, just \in MayBeJustified(parent) :
         /\ id = Cardinality(DOMAIN blocks)
         /\ import_block(id, parent, gap, vs, active, just)
  \/ set_new_head
  \/ import_fails
  \/ crash

Spec == Init /\ [][Next]_vars

-----------------------------------------------------------------------------
\* No failed import spoils a later one: between imports every vote the fork
\* choice remembers has its target in the store, so that head can only fail
\* because of the votes of the block being imported.
VotesKnown == AllKnown(votes) /\ AllKnown(overlayed_votes)

\* A reference for the weight of a block: the remembered votes for it or for
\* one of its descendants.
Weight(b) == Cardinality({v \in DOMAIN votes : b \in Ancestry[votes[v]]})

\* The head an import leaves behind is the LMD-GHOST head: a leaf below the
\* justified block of the imported block's state, reached through children
\* none of whose siblings is heavier.
HeadIsGhost ==
  settled # Idle =>
    /\ justified_block_id(settled.block) \in Ancestry[head]
    /\ children_at(head) = <<>>
    /\ \A b \in Ancestry[head] \ Ancestry[justified_block_id(settled.block)] :
         \A c \in DOMAIN blocks :
           parent_id(c) = parent_id(b) => Weight(c) <= Weight(b)

=============================================================================
