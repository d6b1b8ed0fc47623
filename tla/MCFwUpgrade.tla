---------------------------- MODULE MCFwUpgrade ----------------------------
(***************************************************************************)
(* TLC instance of FwUpgrade: two URLs whose host resolves, one that does  *)
(* not.                                                                    *)
(***************************************************************************)
EXTENDS FwUpgrade

CONSTANTS u1, u2, bad

MCUrl == {u1, u2, bad}
MCReachable == {u1, u2}
=============================================================================
