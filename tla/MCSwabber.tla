----------------------------- MODULE MCSwabber ------------------------------
(***************************************************************************)
(* Swabber with handlers, and a reload, that go on once they have started. *)
(***************************************************************************)
EXTENDS Swabber

MCSpec == Spec /\ Fairness
=============================================================================
