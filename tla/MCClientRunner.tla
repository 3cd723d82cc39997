--------------------------- MODULE MCClientRunner ---------------------------
(***************************************************************************)
(* The client container with its main process and an executed one.         *)
(***************************************************************************)
EXTENDS ClientRunner
=============================================================================
