---------------------------- MODULE MCApEnable ----------------------------
(***************************************************************************)
(* TLC instance of ApEnable.  The bands meet only in the calls that drive  *)
(* all access points, so each behaviour makes the other calls for one band.*)
(***************************************************************************)
EXTENDS ApEnable

VARIABLE band

MCInit == Init /\ band \in Radio

MCNext == (Step \/ ApiCall({band}) \/ AgentDies) /\ UNCHANGED band

MCSpec == MCInit /\ [][MCNext]_<<vars, band>>
=============================================================================
