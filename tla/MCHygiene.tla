----------------------------- MODULE MCHygiene -----------------------------
(***************************************************************************)
(* Hygiene over eight paths: a source file, two files of one cache         *)
(* directory (one ignored by git, one a known artifact), a repository with *)
(* a stray name, a known artifact, the submodule, and two stray links in   *)
(* it, to a directory and to nothing.                                      *)
(***************************************************************************)
EXTENDS Hygiene

Plain(name) ==
  [name |-> name, kind |-> "file", cache |-> NoCache, stray |-> FALSE, stale |-> FALSE,
   third |-> FALSE, scanned |-> FALSE, ignored |-> FALSE]

Source == [Plain("runner.py") EXCEPT !.scanned = TRUE]
Cached ==
  [Plain("client/__pycache__/x") EXCEPT !.cache = "client/__pycache__", !.ignored = TRUE]
CachedArtifact ==
  [Cached EXCEPT !.name = "client/__pycache__/y", !.ignored = FALSE, !.stale = TRUE]
Repo == [Plain("copy~") EXCEPT !.kind = "repo", !.stray = TRUE]
Artifact == [Plain("egressd-starter.tar.gz") EXCEPT !.stale = TRUE]
Submodule == [Plain(FunkyDNS) EXCEPT !.kind = "gitlink"]
Links == {[Plain("link.bak") EXCEPT !.kind = k, !.stray = TRUE, !.third = TRUE] : k \in {"dangling", "dirlink"}}

MCPaths == {Source, Cached, CachedArtifact, Repo, Artifact, Submodule} \union Links
MCMarkers == {"fixme"}

\* Any path may be there but one of the links, and one cannot be removed; nobody takes the
\* submodule away.  What git tracks of the repository and the links, it tracks because the
\* user adds it.
MCInit ==
  /\ tree \in {paths \in SUBSET Paths : {Source, Submodule} \subseteq paths /\ ~ Links \subseteq paths}
  /\ index \in {{Source, Submodule} \union paths : paths \in SUBSET {Cached, CachedArtifact, Artifact}}
  /\ locked \in {{Submodule}, {Submodule, Cached}}
  /\ Init

MCSpec == MCInit /\ [][Next]_vars
=============================================================================
