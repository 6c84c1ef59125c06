------------------------------ MODULE MCHealth ------------------------------
(***************************************************************************)
(* Health with the checks of the application, "postgres" and "goroutines". *)
(***************************************************************************)
EXTENDS Health
=============================================================================
