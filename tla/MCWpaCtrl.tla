----------------------------- MODULE MCWpaCtrl -----------------------------
(***************************************************************************)
(* TLC instance of WpaCtrl: the constants are plain numbers, given in the  *)
(* configuration.                                                          *)
(***************************************************************************)
EXTENDS WpaCtrl
=============================================================================
