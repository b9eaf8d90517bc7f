----------------------------- MODULE ChainStore ------------------------------
(***************************************************************************)
(* The persistent block store: RocksBackend and RocksSettlement            *)
(* (blockchain/common/rocksdb).  A commit collects its changes in a        *)
(* settlement and writes them in one batch.  The settlement reads the      *)
(* database, never its own changes.  Operation::settle, in the external    *)
(* `blockchain' crate, drives the settlement; it is modelled from the      *)
(* settlement interface it calls.                                          *)
(***************************************************************************)
EXTENDS Integers, Sequences, FiniteSets, TLC

VARIABLES
  blocks,      \* column "blocks": id -> BlockData
  canon,       \* column "canon_depth_mappings": depth -> id
  disk_head,   \* column "info", key "head"
  head         \* RocksBackend.head, in memory

store == <<blocks, canon, disk_head, head>>

\* Identifiers only name blocks: the genesis block is 0, the others are numbered
\* as they arrive.
Genesis == 0
NoBlock == -1

\* BlockData: the block (its parent and slot) and what the store adds to it.
BlockData(parent, slot, depth, children, on_canon) ==
  [parent |-> parent, slot |-> slot, depth |-> depth, children |-> children,
   is_canon |-> on_canon]

contains(id) == id \in DOMAIN blocks
depth_at(id) == blocks[id].depth
children_at(id) == blocks[id].children
parent_id(id) == blocks[id].parent
is_canon(id) == blocks[id].is_canon
lookup_canon_depth(depth) == IF depth \in DOMAIN canon THEN canon[depth] ELSE NoBlock

\* The path from a block to the genesis block, both included.
Ancestry ==
  LET up[id \in DOMAIN blocks] ==
        IF id = Genesis THEN {id} ELSE {id} \cup up[parent_id(id)]
  IN up

-----------------------------------------------------------------------------
\* A settlement: what is to be written.  NoBlock in `canon' deletes the key.
NoChanges == [blocks |-> <<>>, canon |-> <<>>, head |-> NoBlock]

insert_block(s, id, data) == [s EXCEPT !.blocks = (id :> data) @@ @]

push_child(s, id, child) ==
  [s EXCEPT !.blocks = (id :> [blocks[id] EXCEPT !.children = Append(@, child)]) @@ @]

\* set_canon, once for each block of ids.
set_canon(s, ids, on_canon) ==
  [s EXCEPT !.blocks = [id \in ids |-> [blocks[id] EXCEPT !.is_canon = on_canon]] @@ @]

\* insert_canon_depth_mapping, once for each block of ids.
insert_canon_depth_mapping(s, ids) ==
  [s EXCEPT !.canon = [d \in {depth_at(id) : id \in ids} |->
                         CHOOSE id \in ids : depth_at(id) = d] @@ @]

remove_canon_depth_mapping(s, ids) ==
  [s EXCEPT !.canon = [d \in {depth_at(id) : id \in ids} |-> NoBlock] @@ @]

set_head(s, id) == [s EXCEPT !.head = id]

\* The batch of a settlement: all changes reach the disk or none does.
write(s) ==
  /\ blocks' = s.blocks @@ blocks
  /\ canon' = LET new == s.canon @@ canon
              IN [d \in {e \in DOMAIN new : new[e] # NoBlock} |-> new[d]]
  /\ disk_head' = IF s.head = NoBlock THEN disk_head ELSE s.head

\* commit of the backend: the head in memory is replaced with the one on disk,
\* under its write lock.
commit(s) ==
  /\ write(s)
  /\ head' = IF s.head = NoBlock THEN head ELSE s.head

\* Operation::settle of an operation that imports a block.
SettleImport(id, parent, slot) ==
  push_child(insert_block(NoChanges, id,
                          BlockData(parent, slot, depth_at(parent) + 1, <<>>, FALSE)),
             parent, id)

\* Operation::settle of an operation that sets the head: the route from the
\* old head to the new one is retracted, then enacted.
SettleHead(id) ==
  LET retracted == Ancestry[head] \ Ancestry[id]
      enacted == Ancestry[id] \ Ancestry[head]
      s1 == remove_canon_depth_mapping(set_canon(NoChanges, retracted, FALSE), retracted)
      s2 == insert_canon_depth_mapping(set_canon(s1, enacted, TRUE), enacted)
  IN set_head(s2, id)

\* open_or_create on an empty database.
StoreInit ==
  /\ blocks = Genesis :> BlockData(NoBlock, 0, 0, <<>>, TRUE)
  /\ canon = 0 :> Genesis
  /\ disk_head = Genesis
  /\ head = Genesis

\* open_or_create on an existing database.
open_or_create ==
  /\ head' = disk_head
  /\ UNCHANGED <<blocks, canon, disk_head>>

-----------------------------------------------------------------------------


=============================================================================
