------------------------------ MODULE Hygiene ------------------------------
(***************************************************************************)
(* scripts/repo_hygiene.py, its library and repo_maintenance.py: scanning  *)
(* and cleaning a git work tree in which somebody goes on working.         *)
(*                                                                         *)
(* A command looks at the tree several times (git ls-files for the tracked *)
(* paths, again for the untracked ones, the files themselves, every .git)  *)
(* and acts on what it saw.  A path is a record of what the code reads off *)
(* it:                                                                     *)
(*   name     tells paths apart                                            *)
(*   kind     "file", "dangling" (a link to nothing), "dirlink" (a link to *)
(*            a directory), "repo" or "gitlink" (a repository in the tree, *)
(*            whose .git is a directory or a file; git lists it as a path) *)
(*   cache    its first part that is a cache directory, with what precedes *)
(*   stray    its last part matches STRAY_FILE_PATTERNS                    *)
(*   stale    it is a known artifact (built in or --stale-artifact)        *)
(*   third    it lies under third_party/FunkyDNS/                          *)
(*   scanned  readable text whose suffix or name is scanned for markers    *)
(*   ignored  git ignores it                                               *)
(* Empty directories are invisible to git and to the report, and so left   *)
(* out with their pruning.                                                 *)
(***************************************************************************)
EXTENDS Integers, FiniteSets

CONSTANTS
  Paths,     \* the paths that can exist
  Markers,   \* the lines with an unfinished marker that a file can have
  NoCache,   \* the cache of a path that lies in none
  MaxEdits   \* bound: steps of the user

PathRecords ==
  [name: STRING, kind: {"file", "dangling", "dirlink", "repo", "gitlink"}, cache: STRING,
   stray: BOOLEAN, stale: BOOLEAN, third: BOOLEAN, scanned: BOOLEAN, ignored: BOOLEAN]

ASSUME HygieneAssumption == Paths \subseteq PathRecords /\ NoCache \in STRING /\ MaxEdits \in Nat

VARIABLES
  tree,       \* the paths that exist
  index,      \* the paths git tracks, whether they exist or not
  marks,      \* the marker lines of each file
  locked,     \* paths whose removal fails
  baseline,   \* the <<path, line>> pairs of the baseline file
  pc, cmd, third,                                   \* the command under way or last run
  tracked, untracked, findings, embedded,           \* what it has seen
  todo, kept,                                       \* what it has still to delete, and could not
  outcome,                                          \* "none" yet, exit "zero" or "one", or "died"
  disturbed,  \* since it was started a user did something, or the submodule was not read
  edits       \* steps of the user so far

world == <<tree, index, marks, locked, baseline>>
seen == <<tracked, untracked, findings, embedded>>
vars == <<world, pc, cmd, third, seen, todo, kept, outcome, disturbed, edits>>

Commands == {"scan", "clean", "baseline", "fixes"}
Items == ({"dir"} \X {p.cache : p \in Paths}) \union ({"path"} \X Paths)

TypeOK ==
  /\ tree \subseteq Paths /\ index \subseteq Paths /\ locked \subseteq Paths
  /\ marks \in [Paths -> SUBSET Markers]
  /\ baseline \subseteq Paths \X Markers
  /\ pc \in {"idle", "tracked", "untracked", "markers", "embedded", "write", "delete"}
  /\ cmd \in Commands /\ third \in BOOLEAN
  /\ tracked \subseteq Paths /\ untracked \subseteq Paths /\ embedded \subseteq Paths
  /\ findings \subseteq Paths \X Markers
  /\ todo \subseteq Items /\ kept \subseteq Items
  /\ outcome \in {"none", "zero", "one", "died"}
  /\ disturbed \in BOOLEAN /\ edits \in 0..MaxEdits

Init ==
  /\ tree \in SUBSET Paths
  /\ index \in SUBSET tree
  /\ marks \in [Paths -> SUBSET Markers]
  /\ \A p \in Paths : ~(p \in tree /\ p.scanned) => marks[p] = {}
  /\ locked \in SUBSET tree
  /\ baseline = {}
  /\ pc = "idle" /\ cmd = "scan" /\ third = FALSE
  /\ tracked = {} /\ untracked = {} /\ findings = {} /\ embedded = {}
  /\ todo = {} /\ kept = {}
  /\ outcome = "died" /\ disturbed = FALSE /\ edits = 0
-----------------------------------------------------------------------------
(***************************************************************************)
(* What the code makes of the tree.                                        *)
(***************************************************************************)
InScope(p, t) == p.third => t

\* collect_git_paths: git ls-files, in the submodule too with --include-third-party.
TrackedPaths(t) == {p \in index : InScope(p, t)}
UntrackedPaths(t) == {p \in tree \ index : ~p.ignored /\ InScope(p, t)}

\* find_unfinished_markers
UnfinishedMarkers(paths) ==
  {f \in Paths \X Markers : f[1] \in paths \cap tree /\ f[1].scanned /\ f[2] \in marks[f[1]]}

\* apply_marker_baseline
Unsuppressed(found) == found \ baseline

\* classify_stray_paths: the cache directory a path lies in, or the path itself.
StrayItems(paths) ==
  {<<"dir", p.cache>> : p \in {q \in paths : q.cache # NoCache}}
    \union {<<"path", p>> : p \in {q \in paths : q.cache = NoCache /\ q.stray}}

\* find_stale_artifacts
StaleArtifacts(paths) == {p \in paths : p.stale}

Removable(paths) == StrayItems(paths) \union {<<"path", p>> : p \in StaleArtifacts(paths)}

\* discover_embedded_git_repos, in the two modules: one passes over the submodule itself,
\* the other over every .git that is a file.
FunkyDNS == "third_party/FunkyDNS"
EmbeddedRepos(t) ==
  {p \in tree : p.kind \in {"repo", "gitlink"} /\ p.name # FunkyDNS /\ InScope(p, t)}
RogueRepos(t) == {p \in tree : p.kind = "repo" /\ InScope(p, t)}
-----------------------------------------------------------------------------
(***************************************************************************)
(* A command.                                                              *)
(***************************************************************************)
\* repo_hygiene.main; "fixes" stands for build_report and apply_fixes of repo_maintenance.
Start(c, t) ==
  /\ pc = "idle" /\ pc' = "tracked"
  /\ cmd' = c /\ third' = t
  /\ outcome' = "none" /\ disturbed' = FALSE
  /\ UNCHANGED <<world, seen, todo, kept, edits>>

\* repo_maintenance.main hands over to repo_hygiene.main.
StartLegacy(fix, t) == Start(IF fix THEN "clean" ELSE "scan", t)

Step(from, to) == pc = from /\ pc' = to /\ UNCHANGED <<cmd, third, edits>>

\* list_submodule_paths takes a git that fails in the submodule for one that lists nothing.
Listing(read) == read \in {third, FALSE} /\ disturbed' = (disturbed \/ read # third)

ListTracked(read) ==
  /\ Step("tracked", IF cmd = "baseline" THEN "markers" ELSE "untracked")
  /\ Listing(read)
  /\ tracked' = TrackedPaths(read)
  /\ UNCHANGED <<world, untracked, findings, embedded, todo, kept, outcome>>

ListUntracked(read) ==
  /\ Step("untracked", "markers")
  /\ Listing(read)
  /\ untracked' = UntrackedPaths(read)
  /\ UNCHANGED <<world, tracked, findings, embedded, todo, kept, outcome>>

\* Mutant: what the baseline accepts is left out whatever the findings are for.
FindMarkersNotAccepted ==
  /\ Step("markers", IF cmd = "baseline" THEN "write" ELSE "embedded")
  /\ findings' = Unsuppressed(UnfinishedMarkers(tracked))
  /\ UNCHANGED <<world, tracked, untracked, embedded, todo, kept, outcome, disturbed>>

FindMarkers ==
  /\ Step("markers", IF cmd = "baseline" THEN "write" ELSE "embedded")
  /\ findings' = IF cmd \in {"scan", "clean"} THEN Unsuppressed(UnfinishedMarkers(tracked))
                                              ELSE UnfinishedMarkers(tracked)
  /\ UNCHANGED <<world, tracked, untracked, embedded, todo, kept, outcome, disturbed>>

\* build_report lists the tracked artifacts with the untracked ones.
FixCandidates == Removable(untracked) \union {<<"path", p>> : p \in StaleArtifacts(tracked)}

\* Mutant: clean removes the tracked artifacts it reports, as apply_fixes does.
RequestedTracked == IF cmd = "scan" THEN {} ELSE FixCandidates

\* What is to be deleted.
Requested ==
  CASE cmd = "scan" -> {}
    [] cmd = "fixes" -> FixCandidates
    [] OTHER -> Removable(untracked)

FindEmbedded ==
  /\ Step("embedded", "delete")
  /\ embedded' = IF cmd = "fixes" THEN RogueRepos(third) ELSE EmbeddedRepos(third)
  /\ todo' = Requested
  /\ UNCHANGED <<world, tracked, untracked, findings, kept, outcome, disturbed>>

\* The paths an item stands for, as is_dir() and exists() see them.
Under(i) ==
  IF i[1] = "dir" THEN {p \in tree : p.cache = i[2]}
                  ELSE {p \in {i[2]} \intersect tree : p.kind # "dangling"}

\* Its removal fails; rmtree refuses a link, but takes one inside a directory away.
Stuck(i, p) == p \in locked \/ (i[1] = "path" /\ p.kind = "dirlink")

\* Paths are sorted: a directory comes before what is in it.
InOrder(i) == i[1] = "path" => <<"dir", i[2].cache>> \notin todo

RemovePaths(gone) ==
  /\ tree' = tree \ gone
  /\ marks' = [p \in Paths |-> IF p \in gone THEN {} ELSE marks[p]]

\* What goes of an item: all of it, or some of it before rmtree meets what it cannot remove.
Removals(i) ==
  LET stuck == {p \in Under(i) : Stuck(i, p)}
  IN IF stuck = {} THEN {Under(i)} ELSE SUBSET {p \in Under(i) \ stuck : i[1] = "dir"}

\* Mutant: the first path that cannot be removed ends the loop.
DeleteUntilFailure(i, gone) ==
  /\ pc = "delete" /\ i \in todo /\ InOrder(i)
  /\ gone \in Removals(i) /\ RemovePaths(gone)
  /\ kept' = IF gone = Under(i) /\ gone # {} THEN kept ELSE kept \union {i}
  /\ todo' = IF gone = Under(i) THEN todo \ {i} ELSE {}
  /\ UNCHANGED <<index, locked, baseline, pc, cmd, third, seen, outcome, disturbed, edits>>

\* Mutant: what is not there any more, or refuses to go, counts as deleted.
DeleteCountsAll(i, gone) ==
  /\ pc = "delete" /\ i \in todo /\ InOrder(i)
  /\ gone \in Removals(i) /\ RemovePaths(gone)
  /\ todo' = todo \ {i}
  /\ UNCHANGED <<index, locked, baseline, pc, cmd, third, seen, kept, outcome, disturbed, edits>>

\* One turn of delete_paths or apply_fixes; what is not there is not counted as deleted.
Delete(i, gone) ==
  /\ pc = "delete" /\ i \in todo /\ InOrder(i)
  /\ gone \in Removals(i) /\ RemovePaths(gone)
  /\ kept' = IF gone = Under(i) /\ gone # {} THEN kept ELSE kept \union {i}
  /\ todo' = todo \ {i}
  /\ UNCHANGED <<index, locked, baseline, pc, cmd, third, seen, outcome, disturbed, edits>>

Return(result) ==
  /\ pc' = "idle" /\ outcome' = result
  /\ tracked' = {} /\ untracked' = {} /\ findings' = {} /\ embedded' = {}
  /\ todo' = {} /\ kept' = {}
  /\ UNCHANGED <<cmd, third, disturbed, edits>>

\* What is left for the operator to do; apply_fixes only returns its lists.
Issues ==
  \/ cmd = "scan" /\ Removable(untracked) # {}
  \/ cmd # "fixes" /\ (findings # {} \/ StaleArtifacts(tracked) # {} \/ embedded # {} \/ kept # {})

Finish ==
  /\ pc = "delete" /\ todo = {}
  /\ Return(IF Issues THEN "one" ELSE "zero")
  /\ UNCHANGED world

\* Mutant: the entries lose their path.
WriteBaselineLines ==
  /\ pc = "write"
  /\ baseline' = {f[2] : f \in findings}
  /\ Return("zero")
  /\ UNCHANGED <<tree, index, marks, locked>>

\* command_baseline
WriteBaseline ==
  /\ pc = "write"
  /\ baseline' = findings
  /\ Return("zero")
  /\ UNCHANGED <<tree, index, marks, locked>>

\* git fails in the repository, or the command is interrupted; a file cut short in the
\* writing is read as an empty baseline.
Die ==
  /\ pc # "idle"
  /\ Return("died")
  /\ baseline' \in IF pc = "write" THEN {baseline, {}, findings} ELSE {baseline}
  /\ UNCHANGED <<tree, index, marks, locked>>
-----------------------------------------------------------------------------
(***************************************************************************)
(* The user, in another window.                                            *)
(***************************************************************************)
UserStep ==
  /\ edits < MaxEdits /\ edits' = edits + 1 /\ disturbed' = TRUE
  /\ UNCHANGED <<locked, baseline, pc, cmd, third, seen, todo, kept, outcome>>

GitAdd(p) ==
  /\ UserStep /\ p \in tree
  /\ index' = index \union {p} /\ UNCHANGED <<tree, marks>>

GitForget(p) == UserStep /\ index' = index \ {p} /\ UNCHANGED <<tree, marks>>

Create(p) == UserStep /\ p \notin tree /\ tree' = tree \union {p} /\ UNCHANGED <<index, marks>>

Remove(p) == UserStep /\ p \in tree \ locked /\ RemovePaths({p}) /\ UNCHANGED index

WriteLines(p, lines) ==
  /\ UserStep /\ p \in tree /\ p.scanned
  /\ marks' = [marks EXCEPT ![p] = lines] /\ UNCHANGED <<tree, index>>

Next ==
  \/ \E c \in Commands, t \in BOOLEAN : Start(c, t)
  \/ \E fix \in BOOLEAN, t \in BOOLEAN : StartLegacy(fix, t)
  \/ \E read \in BOOLEAN : ListTracked(read) \/ ListUntracked(read)
  \/ FindMarkers \/ FindEmbedded
  \/ \E i \in todo : \E gone \in Removals(i) : Delete(i, gone)
  \/ Finish \/ WriteBaseline \/ Die
  \/ \E p \in Paths : GitAdd(p) \/ GitForget(p) \/ Create(p) \/ Remove(p)
  \/ \E p \in Paths, lines \in SUBSET Markers : WriteLines(p, lines)

Spec == Init /\ [][Next]_vars
-----------------------------------------------------------------------------
Ended(outcomes) == pc = "idle" /\ outcome \in outcomes /\ ~disturbed

\* Exit 0 of scan and clean, when nothing came in between, means that no issue is left in
\* what the command was asked to look at: no marker but those of the baseline, nothing
\* to remove, no tracked artifact, no repository in the repository (repo_hygiene.py
\* 67 and 113, docs/REPO-HYGIENE.md:92).
ZeroMeansNoIssues ==
  Ended({"zero"}) /\ cmd \in {"scan", "clean"} =>
    /\ UnfinishedMarkers(TrackedPaths(third)) \subseteq baseline
    /\ Removable(UntrackedPaths(third)) = {}
    /\ StaleArtifacts(TrackedPaths(third)) = {}
    /\ EmbeddedRepos(third) = {}

\* A baseline accepts every marker there is, those that the one it replaces accepted among
\* them, and nothing else (repo_hygiene.py 119 and 136).
BaselineIsComplete ==
  Ended({"zero"}) /\ cmd = "baseline" => baseline = UnfinishedMarkers(TrackedPaths(third))

\* One failure does not keep a clean that ran to its end from removing the rest: clutter it
\* leaves cannot be removed, or lies in a cache directory with a path that cannot, or is a
\* stray link, which delete_paths never unlinks: rmtree refuses one to a directory, exists()
\* overlooks one to nothing (repo_hygiene_lib.py 261 to 270; docs/REPO-HYGIENE.md:95 has
\* removable clutter deleted).  Repositories in the tree are left out: by
\* docs/REPO_MAINTENANCE.md:62 they are not to be removed, though the code removes a stray one.
CleanRemovesClutter ==
  Ended({"zero", "one"}) /\ cmd = "clean" =>
    \A p \in UntrackedPaths(third) :
      (p.cache # NoCache \/ p.stray \/ p.stale) /\ p.kind \notin {"repo", "gitlink"} =>
        IF p.cache = NoCache THEN p \in locked \/ p.kind \in {"dangling", "dirlink"}
                             ELSE \E q \in locked \intersect tree : q.cache = p.cache

\* A scan or a baseline removes nothing.  A clean or a fix removes a path that git tracks
\* at that moment in three cases only: the listing this command had read showed the path
\* untracked (it was added since), the listing showed another path of its cache directory
\* untracked (see CleanRemovesOnlyUntracked), or it is a known artifact on a fix
\* (repo_hygiene_lib.py 256, repo_maintenance.py apply_fixes).
TrackedSurvives ==
  [][\A p \in tree \ tree' :
       \/ edits' # edits
       \/ /\ cmd \in {"clean", "fixes"}
          /\ \/ p \notin index \/ p \in untracked
             \/ p.cache # NoCache /\ \E q \in untracked : q.cache = p.cache
             \/ cmd = "fixes" /\ p.stale]_vars

\* docs/REPO-HYGIENE.md:49 says of clean "Remove untracked stray files/directories", and
\* the help of --fix the same: with nobody else at work a clean removes no path that git
\* tracks.  It does: a cache directory goes as a whole.
CleanRemovesOnlyUntracked ==
  [][cmd = "clean" /\ ~disturbed => tree \ tree' \subseteq tree \ index]_vars
=============================================================================
