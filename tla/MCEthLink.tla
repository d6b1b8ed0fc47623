----------------------------- MODULE MCEthLink -----------------------------
(***************************************************************************)
(* TLC instance of EthLink.                                                *)
(***************************************************************************)
EXTENDS EthLink
=============================================================================
