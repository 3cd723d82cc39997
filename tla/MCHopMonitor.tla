---------------------------- MODULE MCHopMonitor ----------------------------
(***************************************************************************)
(* A small instance of HopMonitor: two hops, probes of at most two         *)
(* seconds, so that the horizon lies on both sides of the age bound.       *)
(***************************************************************************)
EXTENDS HopMonitor

TwoHops == {0, 1}
=============================================================================
