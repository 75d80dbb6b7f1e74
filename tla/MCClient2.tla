----------------------------- MODULE MCClient2 -----------------------------
(***************************************************************************)
(* The second client against a short series of short games.                *)
(***************************************************************************)
EXTENDS Client2
=============================================================================
