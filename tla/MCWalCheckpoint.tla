-------------------------- MODULE MCWalCheckpoint --------------------------
(***************************************************************************)
(* WalCheckpoint for TLC.  Three records let one be in the old segment,    *)
(* one in the new and one in flight; two faults let a power loss follow a  *)
(* crash or strike a recovered service; one failed call leaves a           *)
(* checkpoint half done.                                                   *)
(***************************************************************************)
EXTENDS WalInvariant
=============================================================================
