------------------------------ MODULE MCClient ------------------------------
(***************************************************************************)
(* The client against a short series of short games.                       *)
(***************************************************************************)
EXTENDS Client
=============================================================================
