----------------------------- MODULE ChainGate -----------------------------
(***************************************************************************)
(* What egressd promises about its proxy chain, whatever threads, signals  *)
(* and processes it is made of: a chain is admitted only while it is       *)
(* known to be usable, never beside another one and never once a stop has  *)
(* been signalled; a FunkyDNS that is lost stays lost, and no chain is     *)
(* usable without it.  Supervisor implements this module (see Gate there). *)
(***************************************************************************)
CONSTANTS
  Gated,    \* a chain has to be usable to be admitted
  Managed   \* egressd runs FunkyDNS itself

VARIABLES
  chain,    \* "closed"; "admitted": main has decided to start one; "open": pproxy runs
  dns,      \* FunkyDNS: "off" (not managed), "pending", "up", "lost"
  usable,   \* the startup gate
  stopping  \* a stop signal has been delivered

vars == <<chain, dns, usable, stopping>>

Init ==
  /\ chain = "closed"
  /\ dns = IF Managed THEN "pending" ELSE "off"
  /\ usable = FALSE
  /\ stopping = FALSE

Admit ==
  /\ chain = "closed" /\ chain' = "admitted"
  /\ Gated => usable
  /\ ~stopping
  /\ UNCHANGED <<dns, usable, stopping>>

\* The start succeeds, or it fails or is given up.
Start ==
  /\ chain = "admitted" /\ chain' \in {"open", "closed"}
  /\ UNCHANGED <<dns, usable, stopping>>

Close ==
  /\ chain = "open" /\ chain' = "closed"
  /\ UNCHANGED <<dns, usable, stopping>>

\* Probes are published, or their results become too old.
Observe ==
  /\ usable' \in BOOLEAN
  /\ usable' => dns \in {"off", "up"}
  /\ UNCHANGED <<chain, dns, stopping>>

DnsUp ==
  /\ dns = "pending" /\ dns' = "up"
  /\ usable' \in BOOLEAN
  /\ UNCHANGED <<chain, stopping>>

DnsLost ==
  /\ dns \in {"pending", "up"} /\ dns' = "lost"
  /\ usable' = FALSE
  /\ UNCHANGED <<chain, stopping>>

Stop == stopping' = TRUE /\ UNCHANGED <<chain, dns, usable>>

Next == Admit \/ Start \/ Close \/ Observe \/ DnsUp \/ DnsLost \/ Stop

Spec == Init /\ [][Next]_vars
-----------------------------------------------------------------------------
\* A usable chain has its FunkyDNS.
UsableNeedsDns == dns \in {"off", "pending", "up", "lost"} /\ (usable => dns \in {"off", "up"})

\* FunkyDNS is not restarted: once it is lost, a gated chain that is closed stays
\* closed for good, and one that runs is the last.
LostIsFinal ==
  [][Gated /\ dns = "lost" => dns' = "lost" /\ (chain = "closed" => chain' = "closed")]_vars

\* After a stop has been signalled no chain is admitted any more.
NoAdmissionAfterStop == [][stopping /\ chain = "closed" => chain' = "closed"]_vars
=============================================================================
