-------------------------- MODULE MCOrderValidation --------------------------
(***************************************************************************)
(* A small instance of OrderValidation for TLC.                            *)
(***************************************************************************)
EXTENDS OrderValidation

ThreePlaces == <<"a", "b", "c">>

=============================================================================
