-------------------------- MODULE MCBlockAuthoring ---------------------------
(***************************************************************************)
(* Epochs of two slots.  The parent carries two of four deposits that an  *)
(* eth1 vote has brought: two are left.                                    *)
(***************************************************************************)
EXTENDS BlockAuthoring

CONSTANTS v1, v2

MCValidators == {v1, v2}
MCProposer == [s \in 0 .. 8 |-> IF s = 7 THEN v2 ELSE v1]
MCDepositCount == [d \in {"genesis", "new"} |-> IF d = "new" THEN 4 ELSE 0]

Vote(slot, v, source) ==
  [slot |-> slot, bits |-> {v}, source |-> source, target |-> Epoch(slot)]
MCOffered ==
  {Vote(s, v, c) : s \in 3 .. 6, v \in MCValidators, c \in {0}} \union {Vote(6, v1, 2)}

InDebt == [GenesisState EXCEPT !.slot = 5, !.eth1_votes["new"] = 2,
                               !.deposit_count = 4, !.eth1_deposit_index = 2]
MCParentsInDebt == {InDebt}

=============================================================================
