------------------------ MODULE MCDynamicChallenges -------------------------
(***************************************************************************)
(* Small instances of DynamicChallenges.                                   *)
(***************************************************************************)
EXTENDS DynamicChallenges
=============================================================================
