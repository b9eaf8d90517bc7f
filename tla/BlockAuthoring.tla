--------------------------- MODULE BlockAuthoring ----------------------------
(***************************************************************************)
(* An author that builds one block on some parent state with the functions *)
(* of beacon/src/lib.rs, trying the transactions it is offered in any      *)
(* order: does what it finalizes carry the deposits that others demand?     *)
(***************************************************************************)
EXTENDS BlockProduction

CONSTANTS
  ParentStates,   \* the states of the parent block that are tried
  Offered,        \* the attestations offered to the author
  Slots,          \* the slots a block may be built for
  MaxOffers       \* bound: transactions tried

VARIABLES
  parent,         \* the state of the parent block
  unsealed,       \* the unsealed block with its state
  stage,          \* "new", "open", "sealed", "failed"
  offers

vars == <<parent, unsealed, stage, offers>>

Init ==
  /\ parent \in ParentStates
  /\ unsealed = apply_inherent(0, parent, "genesis")
  /\ stage = "new"
  /\ offers = 0

open(slot, eth1) ==
  /\ stage = "new" /\ slot > parent.slot
  /\ unsealed' = apply_inherent(1, initialize_block(parent, slot), eth1)
  /\ stage' = "open"
  /\ UNCHANGED <<parent, offers>>

attest(a) ==
  /\ stage = "open" /\ offers < MaxOffers
  /\ unsealed' = apply_attestation(unsealed, a)
  /\ offers' = offers + 1
  /\ UNCHANGED <<parent, stage>>

deposit ==
  /\ stage = "open" /\ offers < MaxOffers
  /\ unsealed' = apply_deposit(unsealed)
  /\ offers' = offers + 1
  /\ UNCHANGED <<parent, stage>>

finalize ==
  LET r == finalize_block(unsealed)
  IN /\ stage = "open"
     /\ stage' = IF r.ok THEN "sealed" ELSE "failed"
     /\ unsealed' = [unsealed EXCEPT !.block = r.block]
     /\ UNCHANGED <<parent, offers>>

Done == stage \in {"sealed", "failed"} /\ UNCHANGED vars

Next ==
  \/ \E s \in Slots, e \in DOMAIN DepositCount : open(s, e)
  \/ \E a \in Offered : attest(a)
  \/ deposit
  \/ finalize
  \/ Done

Spec == Init /\ [][Next]_vars

-----------------------------------------------------------------------------
\* The deposits that were outstanding when the block was opened.
DepositsDue ==
  RequiredDeposits(process_eth1_data(unsealed.block.eth1,
                                     initialize_block(parent, unsealed.block.slot)))

\* Outstanding deposits are processed up to the maximum number of deposits, in
\* a block that finalize_block accepts.
DepositsProcessed == stage = "sealed" => unsealed.block.deposits = DepositsDue

=============================================================================
