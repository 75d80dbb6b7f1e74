------------------------------- MODULE MCKeys -------------------------------
(***************************************************************************)
(* Both clients with a few lines on their way to them.                     *)
(***************************************************************************)
EXTENDS Keys
=============================================================================
