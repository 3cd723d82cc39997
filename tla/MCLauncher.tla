----------------------------- MODULE MCLauncher -----------------------------
(* Launcher with SIGINT and SIGTERM. *)
EXTENDS Launcher

MCSignals == {2, 15}
=============================================================================
