--------------------------- MODULE MCSupervisor ---------------------------
(***************************************************************************)
(* Small instances of Supervisor.                                          *)
(***************************************************************************)
EXTENDS Supervisor

OneHop == {0}
TwoHops == {0, 1}
===========================================================================
