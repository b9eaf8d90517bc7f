---------------------------- MODULE DepositTree ------------------------------
(***************************************************************************)
(* The Merkle tree of the deposit contract, the proofs that go into blocks *)
(* (deposit_tree and deposit_proof of blockchain/src/main.rs) and their    *)
(* verification (utils::is_valid_merkle_branch).  Hashes are sequences: a  *)
(* hash of two hashes is the pair of them, so none collide.                *)
(***************************************************************************)
EXTENDS Integers, Sequences, SequencesExt

CONSTANT DepositContractTreeDepth

Hash(l, r) == <<l, r>>
ZeroHash == <<>>
LengthHash(n) == <<n>>
tree_root(data) == <<data.pubkey, data.amount, data.valid>>

\* The roots of empty subtrees.
zerohashes[h \in 0 .. DepositContractTreeDepth - 1] ==
  IF h = 0 THEN ZeroHash ELSE Hash(zerohashes[h - 1], zerohashes[h - 1])

\* The layer above the layer `values' at height h.
NextLayer(values, h) ==
  LET padded == IF Len(values) % 2 = 1 THEN Append(values, zerohashes[h]) ELSE values
  IN [i \in 1 .. Len(padded) \div 2 |-> Hash(padded[2 * i - 1], padded[2 * i])]

\* tree[h + 1] is the layer at height h.
deposit_tree(deposits) ==
  FoldLeft(LAMBDA tree, h : Append(tree, NextLayer(tree[h], h - 1)),
           <<[k \in DOMAIN deposits |-> tree_root(deposits[k])]>>,
           [h \in 1 .. DepositContractTreeDepth |-> h])

\* The number of deposits is mixed into the root.
deposit_root(tree) == Hash(tree[DepositContractTreeDepth + 1][1], LengthHash(Len(tree[1])))

\* The sibling of the ancestor of item_index at a height, or what stands for it
\* in an odd layer.  Faulty variant first: a leaf does at every height.
ZeroLeaf(tree, h, sibling) ==
  IF sibling < Len(tree[h + 1]) THEN tree[h + 1][sibling + 1] ELSE zerohashes[0]
SiblingHash(tree, h, sibling) ==
  IF sibling < Len(tree[h + 1]) THEN tree[h + 1][sibling + 1] ELSE zerohashes[h]

deposit_proof(tree, item_index) ==
  LET position(h) == item_index \div 2 ^ h
      sibling(h) == IF position(h) % 2 = 0 THEN position(h) + 1 ELSE position(h) - 1
  IN Append([h \in 1 .. DepositContractTreeDepth |-> SiblingHash(tree, h - 1, sibling(h - 1))],
            LengthHash(Len(tree[1])))

\* The branch of process_deposit, whose depth counts the length as a layer.
is_valid_merkle_branch(leaf, proof, index, root) ==
  LET up(node, h) == IF (index \div 2 ^ (h - 1)) % 2 = 0 THEN Hash(node, proof[h])
                     ELSE Hash(proof[h], node)
  IN /\ Len(proof) = DepositContractTreeDepth + 1
     /\ FoldLeft(up, leaf, [h \in 1 .. Len(proof) |-> h]) = root

=============================================================================
