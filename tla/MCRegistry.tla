----------------------------- MODULE MCRegistry ------------------------------
(***************************************************************************)
(* Small instances of Registry.  Balances count half increments: an        *)
(* increment is 2, a full validator has 4 and is ejected at 2.             *)
(***************************************************************************)
EXTENDS Registry, Presets

Deposit(k, amount, ok) == [pubkey |-> k, amount |-> amount, valid |-> ok]

\* Two full genesis validators, a partial one and a deposit whose signature is
\* invalid; then two newcomers, and the top-up of the partial one.
QueueDeposits ==
  <<Deposit("a", 4, TRUE), Deposit("x", 4, FALSE), Deposit("b", 4, TRUE),
    Deposit("c", 2, TRUE), Deposit("d", 7, TRUE), Deposit("e", 4, TRUE),
    Deposit("c", 4, TRUE)>>

Penalties == {-2}

Bounded == epoch = MaxEpoch /\ UNCHANGED vars
MCSpec == Init /\ [][Next \/ Bounded]_vars

=============================================================================
