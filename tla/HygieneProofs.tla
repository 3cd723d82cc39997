--------------------------- MODULE HygieneProofs ---------------------------
(***************************************************************************)
(* What scan and clean promise about the tree they leave, for every set of *)
(* paths, marker lines and paths that cannot be removed.                   *)
(***************************************************************************)
EXTENDS Hygiene, TLAPS

-----------------------------------------------------------------------------
\* A removal leaves a tree and marker lines of their types.
LEMMA RemovalType ==
  ASSUME TypeOK, NEW gone, RemovePaths(gone)
  PROVE  tree' \subseteq Paths /\ marks' \in [Paths -> SUBSET Markers]
BY DEF TypeOK, RemovePaths

\* What is to be removed of a set of paths are items.
LEMMA RemovableType ==
  ASSUME NEW paths \in SUBSET Paths
  PROVE  Removable(paths) \subseteq Items
BY DEF Removable, StrayItems, StaleArtifacts, Items

\* What is asked for are items.
LEMMA RequestedType == TypeOK => Requested \subseteq Items
<1> SUFFICES ASSUME TypeOK
             PROVE  Requested \subseteq Items
  OBVIOUS
<1>1. Removable(untracked) \subseteq Items
  BY RemovableType DEF TypeOK
<1>2. FixCandidates \subseteq Items
  BY <1>1 DEF TypeOK, FixCandidates, StaleArtifacts, Items
<1> QED
  BY <1>1, <1>2 DEF Requested

\* A command that looks sees paths that can exist, and asks for items.
LEMMA LookType ==
  ASSUME TypeOK,
         \/ \E c \in Commands, t \in BOOLEAN : Start(c, t)
         \/ \E fix \in BOOLEAN, t \in BOOLEAN : StartLegacy(fix, t)
         \/ \E read \in BOOLEAN : ListTracked(read) \/ ListUntracked(read)
         \/ FindMarkers \/ FindEmbedded
  PROVE  TypeOK'
<1>1. ASSUME NEW c \in Commands, NEW t \in BOOLEAN, Start(c, t)
      PROVE  TypeOK'
  BY <1>1 DEF TypeOK, Start, world, seen
<1>2. ASSUME NEW read \in BOOLEAN, ListTracked(read) \/ ListUntracked(read)
      PROVE  TypeOK'
  <2>1. disturbed' \in BOOLEAN
    BY <1>2 DEF ListTracked, ListUntracked, Listing
  <2>2. tracked' \subseteq Paths /\ untracked' \subseteq Paths
    BY <1>2 DEF TypeOK, ListTracked, ListUntracked, TrackedPaths, UntrackedPaths
  <2>3. pc' \in {"markers", "untracked"}
    BY <1>2 DEF ListTracked, ListUntracked, Step
  <2> QED
    BY <1>2, <2>1, <2>2, <2>3 DEF TypeOK, ListTracked, ListUntracked, Step, world
<1>3. CASE FindMarkers
  <2>1. findings' \subseteq Paths \X Markers
    BY <1>3 DEF FindMarkers, Unsuppressed, UnfinishedMarkers
  <2> QED
    BY <1>3, <2>1 DEF TypeOK, FindMarkers, Step, world
<1>4. CASE FindEmbedded
  <2>1. embedded' \subseteq Paths /\ todo' \subseteq Items
    BY <1>4, RequestedType DEF TypeOK, FindEmbedded, RogueRepos, EmbeddedRepos
  <2> QED
    BY <1>4, <2>1 DEF TypeOK, FindEmbedded, Step, world
<1> QED
  BY <1>1, <1>2, <1>3, <1>4 DEF StartLegacy, Commands

\* Deleting and ending keep the types.
LEMMA ActType ==
  ASSUME TypeOK,
         \/ \E i \in todo : \E gone \in Removals(i) : Delete(i, gone)
         \/ Finish \/ WriteBaseline \/ Die
  PROVE  TypeOK'
<1>1. ASSUME NEW i \in todo, NEW gone \in Removals(i), Delete(i, gone)
      PROVE  TypeOK'
  <2>1. tree' \subseteq Paths /\ marks' \in [Paths -> SUBSET Markers]
    BY <1>1, RemovalType DEF Delete
  <2>2. todo' \subseteq Items /\ kept' \subseteq Items
    BY <1>1 DEF TypeOK, Delete
  <2> QED
    BY <1>1, <2>1, <2>2 DEF TypeOK, Delete, seen
<1>2. CASE Finish \/ WriteBaseline \/ Die
  <2>1. baseline' \subseteq Paths \X Markers
    BY <1>2 DEF TypeOK, Finish, WriteBaseline, Die, world
  <2>2. outcome' \in {"zero", "one", "died"}
    BY <1>2 DEF Finish, WriteBaseline, Die, Return
  <2> QED
    BY <1>2, <2>1, <2>2 DEF TypeOK, Finish, WriteBaseline, Die, Return, world
<1> QED
  BY <1>1, <1>2

\* So does the user.
LEMMA UserType ==
  ASSUME TypeOK,
         \/ \E p \in Paths : GitAdd(p) \/ GitForget(p) \/ Create(p) \/ Remove(p)
         \/ \E p \in Paths, lines \in SUBSET Markers : WriteLines(p, lines)
  PROVE  TypeOK'
<1>1. UserStep
  BY DEF GitAdd, GitForget, Create, Remove, WriteLines
<1>2. edits' \in 0..MaxEdits
  BY <1>1, HygieneAssumption DEF TypeOK, UserStep
<1>3. tree' \subseteq Paths /\ index' \subseteq Paths /\ marks' \in [Paths -> SUBSET Markers]
  <2>1. ASSUME NEW p \in Paths, Remove(p)
        PROVE  tree' \subseteq Paths /\ index' \subseteq Paths /\ marks' \in [Paths -> SUBSET Markers]
    BY <2>1, RemovalType DEF TypeOK, Remove
  <2> QED
    BY <2>1 DEF TypeOK, GitAdd, GitForget, Create, WriteLines
<1> QED
  BY <1>1, <1>2, <1>3 DEF TypeOK, UserStep, seen

\* Every variable keeps its type: what is deleted is a path that can exist or the cache
\* directory of one, and the baseline is a set of path and line pairs.
THEOREM TypeCorrect == Spec => []TypeOK
<1>1. Init => TypeOK
  <2> SUFFICES ASSUME Init
               PROVE  TypeOK
    OBVIOUS
  <2>1. edits \in 0..MaxEdits
    BY HygieneAssumption DEF Init
  <2>2. tree \subseteq Paths /\ index \subseteq Paths /\ locked \subseteq Paths
    BY DEF Init
  <2>3. marks \in [Paths -> SUBSET Markers]
    BY DEF Init
  <2>4. cmd \in Commands
    BY DEF Init, Commands
  <2> QED
    BY <2>1, <2>2, <2>3, <2>4 DEF Init, TypeOK
<1>2. TypeOK /\ [Next]_vars => TypeOK'
  <2> SUFFICES ASSUME TypeOK, [Next]_vars
               PROVE  TypeOK'
    OBVIOUS
  <2>1. CASE UNCHANGED vars
    BY <2>1 DEF TypeOK, vars, world, seen
  <2> QED
    BY <2>1, LookType, ActType, UserType DEF Next
<1> QED
  BY <1>1, <1>2, PTL DEF Spec
-----------------------------------------------------------------------------
\* What is still to be deleted was asked for, and no directory is left to delete whose
\* paths have had their turn.
TodoInv ==
  /\ pc # "delete" => todo = {} /\ kept = {}
  /\ pc = "delete" =>
       /\ todo \subseteq Requested
       /\ \A p \in Paths : <<"path", p>> \in Requested \ todo => <<"dir", p.cache>> \notin todo

\* What git listed is what it would list now, less what is gone.
SnapshotInv ==
  /\ pc \in {"untracked", "markers", "embedded", "delete", "write"} => tracked = TrackedPaths(third)
  /\ cmd # "baseline" /\ pc \in {"markers", "embedded", "delete"} =>
       UntrackedPaths(third) \subseteq untracked

\* The report covers every marker and every repository there still is.
ReportInv ==
  /\ cmd \in {"scan", "clean"} /\ pc \in {"embedded", "delete"} =>
       Unsuppressed(UnfinishedMarkers(tracked)) \subseteq findings
  /\ cmd \in {"scan", "clean"} /\ pc = "delete" => EmbeddedRepos(third) \subseteq embedded

Held(i) == Under(i) = {} \/ \E p \in Under(i) : Stuck(i, p)

\* A path to remove is waiting for its turn, or is among those that could not be removed.
CleanInv ==
  cmd = "clean" /\ pc = "delete" =>
    \A i \in Removable(UntrackedPaths(third)) : i \in todo \/ (i \in kept /\ Held(i))

\* The inductive invariant; what a command has seen holds until something comes in between.
CommandInv ==
  /\ TodoInv
  /\ tree \subseteq Paths /\ third \in BOOLEAN /\ edits \in Nat
  /\ cmd \in Commands /\ (pc = "write" => cmd = "baseline")
  /\ cmd = "baseline" => pc \in {"idle", "tracked", "markers", "write"}
  /\ ~disturbed => SnapshotInv /\ ReportInv /\ CleanInv /\ ZeroMeansNoIssues /\ CleanRemovesClutter

\* The initial states satisfy it.
LEMMA CommandInvInit == Init => CommandInv
<1> SUFFICES ASSUME Init
             PROVE  CommandInv
  OBVIOUS
<1>1. TodoInv /\ SnapshotInv /\ ReportInv /\ CleanInv
  BY DEF Init, TodoInv, SnapshotInv, ReportInv, CleanInv
<1>2. ZeroMeansNoIssues /\ CleanRemovesClutter
  BY DEF Init, ZeroMeansNoIssues, CleanRemovesClutter, Ended
<1>3. third \in BOOLEAN
  BY DEF Init
<1>4. tree \subseteq Paths /\ edits \in Nat /\ pc = "idle" /\ cmd \in Commands
  BY DEF Init, Commands
<1> QED
  BY <1>1, <1>2, <1>3, <1>4 DEF CommandInv

\* With fewer paths and fewer lines there is less to report and less to remove.
LEMMA LessIsLeft ==
  ASSUME NEW gone \in SUBSET Paths, RemovePaths(gone), UNCHANGED <<index, baseline>>,
         NEW t \in BOOLEAN, NEW paths
  PROVE  /\ UntrackedPaths(t)' \subseteq UntrackedPaths(t)
         /\ TrackedPaths(t)' = TrackedPaths(t)
         /\ EmbeddedRepos(t)' \subseteq EmbeddedRepos(t)
         /\ Removable(UntrackedPaths(t))' \subseteq Removable(UntrackedPaths(t))
         /\ Unsuppressed(UnfinishedMarkers(paths))' \subseteq Unsuppressed(UnfinishedMarkers(paths))
<1>1. tree' \subseteq tree /\ \A p \in Paths : marks'[p] \subseteq marks[p]
  BY DEF RemovePaths
<1>2. UntrackedPaths(t)' \subseteq UntrackedPaths(t)
  BY <1>1 DEF UntrackedPaths
<1>3. Removable(UntrackedPaths(t))' \subseteq Removable(UntrackedPaths(t))
  BY <1>2 DEF Removable, StrayItems, StaleArtifacts
<1>4. UnfinishedMarkers(paths)' \subseteq UnfinishedMarkers(paths)
  BY <1>1 DEF UnfinishedMarkers
<1> QED
  BY <1>1, <1>2, <1>3, <1>4 DEF TrackedPaths, EmbeddedRepos, Unsuppressed

\* If what is to be removed is held, clutter is left for a reason.
LEMMA HeldClutter ==
  ASSUME NEW t, \A i \in Removable(UntrackedPaths(t)) : Held(i),
         NEW p \in UntrackedPaths(t), p.cache # NoCache \/ p.stray \/ p.stale
  PROVE  IF p.cache = NoCache THEN p \in locked \/ p.kind \in {"dangling", "dirlink"}
                              ELSE \E q \in locked \intersect tree : q.cache = p.cache
<1>1. CASE p.cache # NoCache
  <2>1. Held(<<"dir", p.cache>>)
    BY <1>1 DEF Removable, StrayItems
  <2>2. p \in Under(<<"dir", p.cache>>)
    BY DEF Under, UntrackedPaths
  <2> QED
    BY <1>1, <2>1, <2>2 DEF Held, Under, Stuck
<1>2. CASE p.cache = NoCache
  <2>1. Held(<<"path", p>>)
    BY <1>2 DEF Removable, StrayItems, StaleArtifacts
  <2>2. Under(<<"path", p>>) = {} => p.kind = "dangling"
    BY DEF Under, UntrackedPaths
  <2> QED
    BY <1>2, <2>1, <2>2 DEF Held, Under, Stuck
<1> QED
  BY <1>1, <1>2

\* What is to be removed is a cache directory or a path.
LEMMA ItemShape ==
  ASSUME NEW paths, NEW i \in Removable(paths)
  PROVE  \/ \E p \in paths : i = <<"dir", p.cache>>
         \/ \E p \in paths : i = <<"path", p>>
BY DEF Removable, StrayItems, StaleArtifacts

\* A path that is not there, or cannot be removed, is not among those a turn removes.
LEMMA RemovedPaths ==
  ASSUME NEW i, NEW gone \in Removals(i), tree \subseteq Paths
  PROVE  /\ gone \subseteq Under(i) /\ gone \subseteq tree
         /\ \A p \in gone : ~Stuck(i, p)
BY DEF Removals, Under

\* A turn of the deletion keeps the invariant.
LEMMA DeleteStep ==
  ASSUME CommandInv, NEW i \in todo, NEW gone \in Removals(i), Delete(i, gone)
  PROVE  CommandInv'
<1>1. pc = "delete" /\ pc' = "delete" /\ i \in Requested /\ InOrder(i) /\ RemovePaths(gone)
  BY DEF Delete, CommandInv, TodoInv
<1>2. gone \subseteq Under(i) /\ gone \subseteq tree /\ \A p \in gone : ~Stuck(i, p)
  BY RemovedPaths DEF CommandInv
<1>3. UNCHANGED <<index, locked, baseline, cmd, third, tracked, untracked, findings, embedded, outcome, disturbed, edits>>
  BY DEF Delete, seen
<1>4. TodoInv'
  <2>1. Requested' = Requested
    BY <1>3 DEF Requested, FixCandidates, Removable, StrayItems, StaleArtifacts
  <2>2. todo' = todo \ {i}
    BY DEF Delete
  <2>3. ASSUME NEW p \in Paths, <<"path", p>> \in Requested \ todo'
        PROVE  <<"dir", p.cache>> \notin todo'
    <3>1. CASE i = <<"path", p>>
      BY <1>1, <2>2, <3>1 DEF InOrder
    <3>2. CASE i # <<"path", p>>
      BY <1>1, <2>2, <2>3, <3>2 DEF CommandInv, TodoInv
    <3> QED
      BY <3>1, <3>2
  <2> QED
    BY <1>1, <2>1, <2>2, <2>3 DEF CommandInv, TodoInv
<1>5. gone \in SUBSET Paths /\ tree' \subseteq Paths /\ third \in BOOLEAN
  BY <1>1, <1>2 DEF CommandInv, RemovePaths
<1>6. ASSUME ~disturbed
      PROVE  SnapshotInv' /\ ReportInv' /\ CleanInv'
  <2>1. SnapshotInv /\ ReportInv /\ CleanInv
    BY <1>6 DEF CommandInv
  <2>2. /\ UntrackedPaths(third)' \subseteq UntrackedPaths(third)
        /\ TrackedPaths(third)' = TrackedPaths(third)
        /\ EmbeddedRepos(third)' \subseteq EmbeddedRepos(third)
        /\ Removable(UntrackedPaths(third))' \subseteq Removable(UntrackedPaths(third))
        /\ Unsuppressed(UnfinishedMarkers(tracked))' \subseteq Unsuppressed(UnfinishedMarkers(tracked))
    <3> DEFINE t == third
               paths == tracked
    <3>1. third' = third /\ tracked' = tracked
      BY <1>3
    <3> QED
      BY <1>1, <1>3, <1>5, <3>1, LessIsLeft
  <2>3. SnapshotInv'
    BY <1>1, <1>3, <2>1, <2>2 DEF SnapshotInv
  <2>4. ReportInv'
    BY <1>1, <1>3, <2>1, <2>2 DEF ReportInv
  <2>5. ASSUME cmd = "clean", NEW j \in Removable(UntrackedPaths(third))', j \notin todo'
        PROVE  j \in kept' /\ Held(j)'
    <3>1. j \in Removable(UntrackedPaths(third))
      BY <2>2, <2>5
    <3>a. tree' = tree \ gone /\ todo' = todo \ {i} /\ kept \subseteq kept'
          /\ (gone # Under(i) \/ gone = {} => i \in kept')
      BY DEF Delete, RemovePaths
    <3>b. \A k : Under(k)' = Under(k) \ gone
      BY <3>a DEF Under
    <3>c. \A k, p : Stuck(k, p)' <=> Stuck(k, p)
      BY <1>3 DEF Stuck
    <3>2. CASE j = i
      <4>1. gone # Under(i) \/ gone = {}
        <5> SUFFICES ASSUME gone = Under(i), gone # {}
                     PROVE  FALSE
          OBVIOUS
        <5>1. \A p \in UntrackedPaths(third)' : p \in tree' /\ p \in tree /\ p \notin Under(i)
          BY <3>a DEF UntrackedPaths
        <5>2. CASE \E p \in UntrackedPaths(third)' : i = <<"dir", p.cache>>
          BY <5>1, <5>2 DEF Under
        <5>3. CASE \E p \in UntrackedPaths(third)' : i = <<"path", p>>
          <6>1. PICK p \in UntrackedPaths(third)' : i = <<"path", p>>
            BY <5>3
          <6>2. Under(i) \subseteq {p}
            BY <6>1 DEF Under
          <6> QED
            BY <5>1, <6>1, <6>2
        <5>4. i \in Removable(UntrackedPaths(third)')
          BY <2>5, <3>2 DEF Removable, StrayItems, StaleArtifacts
        <5> QED
          BY <5>2, <5>3, <5>4, ItemShape
      <4>2. CASE gone = Under(i)
        BY <3>2, <3>a, <3>b, <4>1, <4>2 DEF Held
      <4>3. CASE gone # Under(i)
        <5>1. PICK p \in Under(i) : Stuck(i, p)
          BY <4>3 DEF Removals
        <5> QED
          BY <1>2, <3>2, <3>a, <3>b, <3>c, <4>3, <5>1 DEF Held
      <4> QED
        BY <4>2, <4>3
    <3>3. CASE j # i
      <4>1. j \in kept /\ Held(j)
        BY <2>1, <2>5, <3>1, <3>3, <3>a, <1>1 DEF CleanInv
      <4>2. ASSUME NEW p \in Under(j), Stuck(j, p)
            PROVE  p \notin gone
        <5> SUFFICES ASSUME p \in gone
                     PROVE  FALSE
          OBVIOUS
        <5>1. ~Stuck(i, p) /\ p \in Under(i) /\ p \in Paths
          BY <1>2, <1>5
        <5>2. j[1] = "path" /\ i[1] # "path"
          BY <4>2, <5>1 DEF Stuck
        <5>3. j = <<"path", p>>
          BY <3>1, <4>2, <5>2, ItemShape DEF Under
        <5>4. i = <<"dir", p.cache>>
          BY <1>1, <2>5, <5>1, <5>2, ItemShape DEF Under, Requested, FixCandidates
        <5>5. j \in Requested
          BY <1>1, <2>1, <2>5, <3>1 DEF Requested, FixCandidates, SnapshotInv, Removable, StrayItems, StaleArtifacts
        <5> QED
          BY <1>1, <2>5, <3>3, <3>a, <5>1, <5>3, <5>4, <5>5 DEF CommandInv, TodoInv
      <4> QED
        BY <3>a, <3>b, <3>c, <4>1, <4>2 DEF Held
    <3> QED
      BY <3>2, <3>3
  <2>6. CleanInv'
    BY <1>3, <2>5 DEF CleanInv
  <2> QED
    BY <2>3, <2>4, <2>6
<1>7. ZeroMeansNoIssues' /\ CleanRemovesClutter'
  BY <1>1 DEF ZeroMeansNoIssues, CleanRemovesClutter, Ended
<1> QED
  BY <1>1, <1>3, <1>4, <1>5, <1>6, <1>7 DEF CommandInv

\* A command that looks keeps the invariant.
LEMMA LookStep ==
  ASSUME CommandInv,
         \/ \E c \in Commands, t \in BOOLEAN : Start(c, t)
         \/ \E fix \in BOOLEAN, t \in BOOLEAN : StartLegacy(fix, t)
         \/ \E read \in BOOLEAN : ListTracked(read) \/ ListUntracked(read)
         \/ FindMarkers \/ FindEmbedded
  PROVE  CommandInv'
<1>1. ASSUME NEW c \in Commands, NEW t \in BOOLEAN, Start(c, t)
      PROVE  CommandInv'
  BY <1>1 DEF Start, world, CommandInv, TodoInv, SnapshotInv, ReportInv, CleanInv,
              ZeroMeansNoIssues, CleanRemovesClutter, Ended
<1>2. ASSUME NEW read \in BOOLEAN, ListTracked(read)
      PROVE  CommandInv'
  <2>1. ~disturbed' => ~disturbed /\ tracked' = TrackedPaths(third)'
    BY <1>2 DEF ListTracked, Listing, Step, world, TrackedPaths
  <2> QED
    BY <1>2, <2>1 DEF ListTracked, Step, world, CommandInv, TodoInv, SnapshotInv, ReportInv, CleanInv,
                      ZeroMeansNoIssues, CleanRemovesClutter, Ended
<1>3. ASSUME NEW read \in BOOLEAN, ListUntracked(read)
      PROVE  CommandInv'
  <2>1. ~disturbed' => /\ ~disturbed
                       /\ untracked' = UntrackedPaths(third)'
                       /\ TrackedPaths(third)' = TrackedPaths(third)
    BY <1>3 DEF ListUntracked, Listing, Step, world, TrackedPaths, UntrackedPaths
  <2> QED
    BY <1>3, <2>1 DEF ListUntracked, Step, world, CommandInv, TodoInv, SnapshotInv, ReportInv, CleanInv,
                      ZeroMeansNoIssues, CleanRemovesClutter, Ended
<1>4. CASE FindMarkers
  <2>1. /\ TrackedPaths(third)' = TrackedPaths(third) /\ UntrackedPaths(third)' = UntrackedPaths(third)
        /\ Unsuppressed(UnfinishedMarkers(tracked))' = Unsuppressed(UnfinishedMarkers(tracked))
    BY <1>4 DEF FindMarkers, Step, world, TrackedPaths, UntrackedPaths, Unsuppressed, UnfinishedMarkers
  <2>2. pc = "markers" /\ pc' = IF cmd = "baseline" THEN "write" ELSE "embedded"
    BY <1>4 DEF FindMarkers, Step
  <2>3. ~disturbed' => SnapshotInv' /\ ReportInv' /\ CleanInv' /\ ZeroMeansNoIssues' /\ CleanRemovesClutter'
    BY <1>4, <2>1, <2>2 DEF FindMarkers, Step, world, CommandInv, SnapshotInv, ReportInv, CleanInv,
                            ZeroMeansNoIssues, CleanRemovesClutter, Ended
  <2> QED
    BY <1>4, <2>2, <2>3 DEF FindMarkers, Step, world, CommandInv, TodoInv
<1>5. CASE FindEmbedded
  <2>1. /\ TrackedPaths(third)' = TrackedPaths(third) /\ UntrackedPaths(third)' = UntrackedPaths(third)
        /\ Unsuppressed(UnfinishedMarkers(tracked))' = Unsuppressed(UnfinishedMarkers(tracked))
        /\ Removable(UntrackedPaths(third))' = Removable(UntrackedPaths(third))
        /\ EmbeddedRepos(third)' = EmbeddedRepos(third)
        /\ Requested' = Requested
    BY <1>5 DEF FindEmbedded, Step, world, TrackedPaths, UntrackedPaths, Unsuppressed, UnfinishedMarkers,
                EmbeddedRepos, Requested, FixCandidates, Removable, StrayItems, StaleArtifacts
  <2>2. pc = "embedded" /\ pc' = "delete" /\ todo' = Requested
    BY <1>5 DEF FindEmbedded, Step
  <2>3. ASSUME ~disturbed, cmd = "clean"
        PROVE  Removable(UntrackedPaths(third)) \subseteq Requested
    <3>1. UntrackedPaths(third) \subseteq untracked
      BY <2>2, <2>3 DEF CommandInv, SnapshotInv
    <3> QED
      BY <2>3, <3>1 DEF Requested, FixCandidates, Removable, StrayItems, StaleArtifacts
  <2>4. ~disturbed' => SnapshotInv' /\ ReportInv' /\ CleanInv' /\ ZeroMeansNoIssues' /\ CleanRemovesClutter'
    BY <1>5, <2>1, <2>2, <2>3 DEF FindEmbedded, Step, world, CommandInv, SnapshotInv, ReportInv, CleanInv,
                                  ZeroMeansNoIssues, CleanRemovesClutter, Ended
  <2> QED
    BY <1>5, <2>1, <2>2, <2>4 DEF FindEmbedded, Step, world, CommandInv, TodoInv
<1> QED
  BY <1>1, <1>2, <1>3, <1>4, <1>5 DEF StartLegacy, Commands

\* A command that ends keeps the invariant: what it has seen, and what it could not remove,
\* is what its exit status says.
LEMMA EndStep ==
  ASSUME CommandInv, Finish \/ WriteBaseline \/ Die
  PROVE  CommandInv'
<1>1. pc' = "idle" /\ todo' = {} /\ kept' = {} /\ UNCHANGED <<tree, index, marks, locked, cmd, third, disturbed, edits>>
  BY DEF Finish, WriteBaseline, Die, Return, world
<1>2. TodoInv' /\ SnapshotInv' /\ ReportInv' /\ CleanInv'
  BY <1>1 DEF TodoInv, SnapshotInv, ReportInv, CleanInv
<1>3. CASE WriteBaseline \/ Die
  <2>1. outcome' = "died" \/ (outcome' = "zero" /\ cmd = "baseline")
    BY <1>3 DEF WriteBaseline, Die, Return, CommandInv
  <2>2. ZeroMeansNoIssues' /\ CleanRemovesClutter'
    BY <1>1, <2>1 DEF ZeroMeansNoIssues, CleanRemovesClutter, Ended
  <2> QED
    BY <1>1, <1>2, <2>2 DEF CommandInv
<1>4. CASE Finish
  <2>1. /\ pc = "delete" /\ todo = {} /\ baseline' = baseline
        /\ outcome' = IF Issues THEN "one" ELSE "zero"
    BY <1>4 DEF Finish, Return, world
  <2>2. ASSUME ~disturbed
        PROVE  /\ TrackedPaths(third)' = TrackedPaths(third)
               /\ Removable(UntrackedPaths(third))' = Removable(UntrackedPaths(third))
               /\ UnfinishedMarkers(TrackedPaths(third))' = UnfinishedMarkers(TrackedPaths(third))
               /\ EmbeddedRepos(third)' = EmbeddedRepos(third)
    BY <1>1 DEF TrackedPaths, UntrackedPaths, UnfinishedMarkers, EmbeddedRepos, Removable, StrayItems,
                StaleArtifacts
  <2>3. ASSUME ~disturbed, cmd \in {"scan", "clean"}, ~Issues
        PROVE  /\ UnfinishedMarkers(TrackedPaths(third)) \subseteq baseline
               /\ Removable(UntrackedPaths(third)) = {}
               /\ StaleArtifacts(TrackedPaths(third)) = {}
               /\ EmbeddedRepos(third) = {}
    <3>1. SnapshotInv /\ ReportInv /\ CleanInv
      BY <2>3 DEF CommandInv
    <3>2. findings = {} /\ StaleArtifacts(tracked) = {} /\ embedded = {} /\ kept = {}
      BY <2>3 DEF Issues
    <3>3. CASE cmd = "clean"
      BY <2>1, <2>3, <3>1, <3>2, <3>3 DEF SnapshotInv, ReportInv, CleanInv, Unsuppressed
    <3>4. CASE cmd = "scan"
      <4>1. Removable(UntrackedPaths(third)) \subseteq Removable(untracked) /\ Removable(untracked) = {}
        BY <2>1, <2>3, <3>1, <3>4 DEF SnapshotInv, Issues, Removable, StrayItems, StaleArtifacts
      <4> QED
        BY <2>1, <3>1, <3>2, <3>4, <4>1 DEF SnapshotInv, ReportInv, Unsuppressed
    <3> QED
      BY <2>3, <3>3, <3>4
  <2>4. ~disturbed => ZeroMeansNoIssues'
    BY <1>1, <2>1, <2>2, <2>3 DEF ZeroMeansNoIssues, Ended, StaleArtifacts
  <2>5. UntrackedPaths(third)' = UntrackedPaths(third)
    BY <1>1 DEF UntrackedPaths
  <2>6. ~disturbed => CleanRemovesClutter'
    <3> SUFFICES ASSUME ~disturbed, cmd = "clean"
                 PROVE  CleanRemovesClutter'
      BY <1>1 DEF CleanRemovesClutter, Ended
    <3>1. \A i \in Removable(UntrackedPaths(third)) : Held(i)
      BY <2>1 DEF CommandInv, CleanInv
    <3> QED
      BY <1>1, <2>5, <3>1, HeldClutter DEF CleanRemovesClutter
  <2> QED
    BY <1>1, <1>2, <2>4, <2>6 DEF CommandInv
<1> QED
  BY <1>3, <1>4

\* A user's step, and a step of nobody, keeps it.
LEMMA UserKeeps ==
  ASSUME CommandInv,
         \/ \E p \in Paths : GitAdd(p) \/ GitForget(p) \/ Create(p) \/ Remove(p)
         \/ \E p \in Paths, lines \in SUBSET Markers : WriteLines(p, lines)
         \/ UNCHANGED vars
  PROVE  CommandInv'
<1>1. CASE UNCHANGED vars
  <2>1. UNCHANGED <<tree, index, marks, locked, baseline, pc, cmd, third, tracked, untracked, findings,
                    embedded, todo, kept, outcome, disturbed, edits>>
    BY <1>1 DEF vars, world, seen
  <2>2. TodoInv'
    BY <2>1 DEF CommandInv, TodoInv, Requested, FixCandidates, Removable, StrayItems, StaleArtifacts
  <2>3. /\ TrackedPaths(third)' = TrackedPaths(third) /\ UntrackedPaths(third)' = UntrackedPaths(third)
        /\ Unsuppressed(UnfinishedMarkers(tracked))' = Unsuppressed(UnfinishedMarkers(tracked))
        /\ UnfinishedMarkers(TrackedPaths(third))' = UnfinishedMarkers(TrackedPaths(third))
        /\ Removable(UntrackedPaths(third))' = Removable(UntrackedPaths(third))
        /\ EmbeddedRepos(third)' = EmbeddedRepos(third)
    BY <2>1 DEF TrackedPaths, UntrackedPaths, UnfinishedMarkers, Unsuppressed, EmbeddedRepos, Removable,
                StrayItems, StaleArtifacts
  <2>4. \A i : (Under(i) = {})' <=> Under(i) = {}
    BY <2>1 DEF Under
  <2>5. \A i : (\E p \in Under(i) : Stuck(i, p))' <=> \E p \in Under(i) : Stuck(i, p)
    BY <2>1 DEF Under, Stuck
  <2>6. ~disturbed => SnapshotInv' /\ ReportInv'
    BY <2>1, <2>3 DEF CommandInv, SnapshotInv, ReportInv
  <2>7. ~disturbed => CleanInv' /\ CleanRemovesClutter'
    BY <2>1, <2>3, <2>4, <2>5 DEF CommandInv, CleanInv, CleanRemovesClutter, Ended, Held
  <2>8. ~disturbed => ZeroMeansNoIssues'
    BY <2>1, <2>3 DEF CommandInv, ZeroMeansNoIssues, Ended, StaleArtifacts
  <2> QED
    BY <2>1, <2>2, <2>6, <2>7, <2>8 DEF CommandInv
<1>2. CASE ~ UNCHANGED vars
  <2>1. UserStep /\ tree' \subseteq Paths
    BY <1>2 DEF GitAdd, GitForget, Create, Remove, WriteLines, RemovePaths, CommandInv
  <2>2. TodoInv'
    BY <2>1 DEF UserStep, seen, CommandInv, TodoInv, Requested, FixCandidates, Removable, StrayItems, StaleArtifacts
  <2> QED
    BY <2>1, <2>2 DEF UserStep, CommandInv
<1> QED
  BY <1>1, <1>2

\* The invariant is inductive.
LEMMA CommandInvStep == CommandInv /\ [Next]_vars => CommandInv'
BY DeleteStep, LookStep, EndStep, UserKeeps DEF Next

\* The invariant holds of every reachable state.
LEMMA CommandsConsistent == Spec => []CommandInv
<1>1. Init => CommandInv
  BY CommandInvInit
<1>2. CommandInv /\ [Next]_vars => CommandInv'
  BY CommandInvStep
<1> QED
  BY <1>1, <1>2, PTL DEF Spec

-----------------------------------------------------------------------------
\* Exit 0 of scan and clean means that nothing is left to report: the reports only grow
\* stale while a command deletes, and a path that was not deleted is not forgotten.
THEOREM ExitZeroIsHonest == Spec => []ZeroMeansNoIssues
<1>1. CommandInv => ZeroMeansNoIssues
  BY DEF CommandInv, ZeroMeansNoIssues, Ended
<1> QED
  BY <1>1, CommandsConsistent, PTL

\* Whatever paths there are and whichever cannot be removed, clutter that an undisturbed
\* clean leaves cannot be removed itself, shares its cache directory with a path that cannot,
\* or is a stray link, which the code never unlinks.
THEOREM CleanIsThorough == Spec => []CleanRemovesClutter
<1>1. CommandInv => CleanRemovesClutter
  BY DEF CommandInv, CleanRemovesClutter, Ended
<1> QED
  BY <1>1, CommandsConsistent, PTL

Spared(p) ==
  \/ edits' # edits
  \/ /\ cmd \in {"clean", "fixes"}
     /\ \/ p \notin index \/ p \in untracked
        \/ p.cache # NoCache /\ \E q \in untracked : q.cache = p.cache
        \/ cmd = "fixes" /\ p.stale

\* A turn of the deletion removes what was untracked, or shares a cache directory with it.
LEMMA RemovalAllowed ==
  ASSUME CommandInv, [Next]_vars, NEW p \in tree \ tree'
  PROVE  Spared(p)
<1>1. CASE \E i \in todo : \E gone \in Removals(i) : Delete(i, gone)
  <2>0. PICK i \in todo : \E gone \in Removals(i) : Delete(i, gone)
    BY <1>1
  <2>1. PICK gone \in Removals(i) : Delete(i, gone)
    BY <2>0
  <2>2. p \in gone /\ p \in Under(i) /\ p \in Paths
    BY <2>1, RemovedPaths DEF Delete, RemovePaths, CommandInv
  <2>3. i \in Requested /\ pc = "delete"
    BY <2>1 DEF Delete, CommandInv, TodoInv
  <2>4. cmd \in {"clean", "fixes"}
    BY <2>3 DEF CommandInv, Commands, Requested, FixCandidates
  <2>5. i \in Removable(untracked) \/ (cmd = "fixes" /\ i = <<"path", p>> /\ p.stale)
    BY <2>2, <2>3, <2>4 DEF Requested, FixCandidates, StaleArtifacts, Under
  <2>6. CASE \E q \in untracked : i = <<"dir", q.cache>> /\ q.cache # NoCache
    BY <2>2, <2>4, <2>6 DEF Under, Spared
  <2>7. CASE i[1] = "path" /\ i[2] \in untracked
    BY <2>2, <2>4, <2>7 DEF Under, Spared
  <2>8. CASE i \in Removable(untracked)
    BY <2>6, <2>7, <2>8 DEF Removable, StrayItems, StaleArtifacts
  <2> QED
    BY <2>4, <2>5, <2>8 DEF Spared
<1>2. CASE UserStep
  BY <1>2 DEF UserStep, CommandInv, Spared
<1>3. CASE tree' = tree
  BY <1>3
<1>4. \/ \E i \in todo : \E gone \in Removals(i) : Delete(i, gone)
      \/ UserStep \/ tree' = tree
  BY DEF Next, vars, world, Start, StartLegacy, ListTracked, ListUntracked, FindMarkers, FindEmbedded, Finish,
         WriteBaseline, Die, GitAdd, GitForget, Create, Remove, WriteLines
<1> QED
  BY <1>1, <1>2, <1>3, <1>4

\* Also while a user works on the tree, a command removes what git tracks at that moment
\* only if it was untracked in the listing the command read, lies in a cache directory with
\* a path that was, or is a known artifact on a fix.
THEOREM TrackedFilesSurvive == Spec => TrackedSurvives
<1>1. CommandInv /\ [Next]_vars => [\A p \in tree \ tree' : Spared(p)]_vars
  BY RemovalAllowed
<1> QED
  BY <1>1, CommandsConsistent, PTL DEF Spec, TrackedSurvives, Spared
-----------------------------------------------------------------------------
\* When a baseline is written, and after it was, it is what is found in the tree.
BaselineInv ==
  ~disturbed =>
    /\ pc = "write" => findings = UnfinishedMarkers(tracked)
    /\ BaselineIsComplete

\* Every step keeps it: the findings of a baseline are taken without the one it replaces.
LEMMA BaselineStep ==
  ASSUME CommandInv, BaselineInv, Next
  PROVE  BaselineInv'
<1>1. CASE ~ (FindMarkers \/ Finish \/ WriteBaseline \/ Die)
  <2>1. disturbed' \/ pc' \notin {"idle", "write"}
    BY <1>1 DEF Next, Start, StartLegacy, ListTracked, ListUntracked, FindEmbedded, Step, Delete, GitAdd,
                GitForget, Create, Remove, WriteLines, UserStep
  <2> QED
    BY <2>1 DEF BaselineInv, BaselineIsComplete, Ended
<1>2. CASE FindMarkers
  <2>1. /\ UNCHANGED <<tree, marks, tracked, disturbed, cmd>>
        /\ pc' = IF cmd = "baseline" THEN "write" ELSE "embedded"
    BY <1>2 DEF FindMarkers, Step, world
  <2>2. pc' = "write" => findings' = UnfinishedMarkers(tracked)
    BY <1>2, <2>1 DEF FindMarkers
  <2>3. UnfinishedMarkers(tracked)' = UnfinishedMarkers(tracked)
    BY <2>1 DEF UnfinishedMarkers
  <2> QED
    BY <2>1, <2>2, <2>3 DEF BaselineInv, BaselineIsComplete, Ended
<1>3. CASE Finish \/ Die
  <2>1. pc' = "idle" /\ cmd' = cmd
    BY <1>3 DEF Finish, Die, Return
  <2>2. outcome' = "died" \/ cmd # "baseline"
    BY <1>3 DEF Finish, Die, Return, CommandInv
  <2> QED
    BY <2>1, <2>2 DEF BaselineInv, BaselineIsComplete, Ended
<1>4. CASE WriteBaseline
  <2>1. /\ UNCHANGED <<tree, index, marks, third, disturbed>>
        /\ pc = "write" /\ pc' = "idle" /\ baseline' = findings
    BY <1>4 DEF WriteBaseline, Return
  <2>2. ~disturbed => baseline' = UnfinishedMarkers(TrackedPaths(third))
    BY <2>1 DEF BaselineInv, CommandInv, SnapshotInv
  <2>3. UnfinishedMarkers(TrackedPaths(third))' = UnfinishedMarkers(TrackedPaths(third))
    BY <2>1 DEF UnfinishedMarkers, TrackedPaths
  <2> QED
    BY <2>1, <2>2, <2>3 DEF BaselineInv, BaselineIsComplete
<1> QED
  BY <1>1, <1>2, <1>3, <1>4

\* A baseline that was written without a disturbance accepts what there is, no more and
\* no less, whatever the baseline before it accepted.
THEOREM BaselineAcceptsAll == Spec => []BaselineIsComplete
<1>1. Init => BaselineInv
  BY DEF Init, BaselineInv, BaselineIsComplete, Ended
<1>2. CommandInv /\ BaselineInv /\ [Next]_vars => BaselineInv'
  <2> SUFFICES ASSUME CommandInv, BaselineInv, [Next]_vars
               PROVE  BaselineInv'
    OBVIOUS
  <2>1. CASE UNCHANGED vars
    BY <2>1 DEF vars, world, seen, BaselineInv, BaselineIsComplete, Ended, UnfinishedMarkers, TrackedPaths
  <2> QED
    BY <2>1, BaselineStep
<1>3. BaselineInv => BaselineIsComplete
  BY DEF BaselineInv, BaselineIsComplete, Ended
<1> QED
  BY <1>1, <1>2, <1>3, CommandsConsistent, PTL DEF Spec
=============================================================================
