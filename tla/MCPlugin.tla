------------------------------ MODULE MCPlugin ------------------------------
(* Plugin with a few transactions and reloads. *)
EXTENDS Plugin
=============================================================================
