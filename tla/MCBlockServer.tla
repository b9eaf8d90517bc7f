---------------------------- MODULE MCBlockServer ----------------------------
(***************************************************************************)
(* Small instances of BlockServer.                                         *)
(***************************************************************************)
EXTENDS BlockServer

CONSTANTS v1, v2

MCValidators == {v1, v2}
MCActiveSets == {{v1, v2}}

=============================================================================
