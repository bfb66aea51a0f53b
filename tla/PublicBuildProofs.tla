-------------------------- MODULE PublicBuildProofs --------------------------
(* Theorems about PublicBuild, for every value of its constants. *)
EXTENDS PublicBuild, SequenceTheorems, TLAPS

\* A directory that is absent or whole.
Sound(d) == Present(d) => Whole(d)

\* Only the owner of the lock runs, and only a recovery has a plan.
Locked ==
    \A p \in Procs :
        /\ pc[p] # "idle" <=> owner = p
        /\ todo[p] # <<>> => pc[p] \in {"open", "close"}

\* What each phase of the journal says of the directories, at every moment of
\* the build and of any recovery, completed or not.
PhaseIs(ph) == journal # None /\ journal.phase = ph
Moved == PhaseIs("PRIOR_MOVED") \/ PhaseIs("PROMOTED") \/ PhaseIs("COMMITTED")

Shape ==
    /\ journal = None => Sound("final") /\ ~Present("stage") /\ ~Present("retired")
    /\ journal # None /\ ~Moved => Sound("final") /\ Sound("retired")
    /\ PhaseIs("INIT") \/ PhaseIs("BUILDING") \/ PhaseIs("STAGED") => ~Present("retired")
    /\ PhaseIs("PRE_SWAP") => ~Present("retired") \/ ~Present("final")
    /\ PhaseIs("PRIOR_MOVED") => Sound("retired") /\ (~Present("stage") \/ ~Present("final"))
    /\ PhaseIs("PROMOTED") => Sound("retired") /\ ~Present("stage")
    /\ PhaseIs("COMMITTED") => ~Present("stage") /\ (Present("retired") \/ ~cut => Whole("final"))

\* What a plan that is left to do finds.
Tear(d) == <<"tear", d>>
Remove(d) == <<"remove", d>>
Rename == <<"rename", "final">>
Unlink == <<"unlink", "journal">>

Torn(d) == Present(d) /\ ~Whole(d)

Planned(t) ==
    \/ t = <<Unlink>> /\ ~Present("stage") /\ ~Present("retired") /\ Sound("final")
    \/ /\ Whole("retired") /\ ~Present("final")
       /\ \/ t = <<Tear("stage"), Remove("stage"), Rename, Unlink>> /\ Present("stage")
          \/ t = <<Remove("stage"), Rename, Unlink>> /\ Torn("stage")
          \/ t = <<Rename, Unlink>> /\ ~Present("stage")
    \/ /\ Whole("final") /\ ~Present("stage") /\ PhaseIs("COMMITTED")
       /\ \/ t = <<Tear("retired"), Remove("retired"), Unlink>> /\ Present("retired")
          \/ t = <<Remove("retired"), Unlink>> /\ Torn("retired")
    \/ /\ Whole("retired") /\ ~Present("stage") /\ Moved /\ ~PhaseIs("COMMITTED")
       /\ \/ t = <<Tear("final"), Remove("final"), Rename, Unlink>> /\ Present("final")
          \/ t = <<Remove("final"), Rename, Unlink>> /\ Torn("final")
    \/ /\ Sound("final") /\ ~Present("retired")
       /\ \/ t = <<Tear("stage"), Remove("stage"), Unlink>> /\ Present("stage")
          \/ t = <<Remove("stage"), Unlink>> /\ Torn("stage")
    \/ /\ ~Present("stage") /\ ~Present("retired") /\ Moved
       /\ PhaseIs("COMMITTED") => cut
       /\ \/ t = <<Tear("final"), Remove("final"), Unlink>> /\ Present("final")
          \/ t = <<Remove("final"), Unlink>> /\ Torn("final")

Plans == \A p \in Procs : todo[p] # <<>> => journal # None /\ Planned(todo[p])

\* Where a build is, its journal and its directories.
BuildAt(l) ==
    /\ l = "begin" => journal = None
    /\ l = "mkdir" => PhaseIs("INIT") /\ ~Present("stage")
    /\ l = "BUILDING" => PhaseIs("INIT") /\ Torn("stage")
    /\ l = "fill" => PhaseIs("BUILDING") /\ Torn("stage")
    /\ l = "STAGED" => PhaseIs("BUILDING") /\ Whole("stage")
    /\ l = "discard" => PhaseIs("BUILDING") /\ Torn("stage")
    /\ l = "PRE_SWAP" => PhaseIs("STAGED") /\ Whole("stage")
    /\ l = "retire" => PhaseIs("PRE_SWAP") /\ Whole("stage") /\ ~Present("retired")
    /\ l = "PRIOR_MOVED" => PhaseIs("PRE_SWAP") /\ Whole("stage") /\ ~Present("final")
    /\ l = "install" => PhaseIs("PRIOR_MOVED") /\ Whole("stage") /\ ~Present("final")
    /\ l = "PROMOTED" => PhaseIs("PRIOR_MOVED") /\ Whole("final")
    /\ l = "COMMITTED" => PhaseIs("PROMOTED") /\ Whole("final")
    /\ l = "prune" => PhaseIs("COMMITTED") /\ Whole("final")
    /\ l = "finish" => PhaseIs("COMMITTED") /\ Whole("final") /\ ~Present("retired")
    /\ l = "report" => journal = None /\ Whole("final")

Builds == \A p \in Procs : BuildAt(pc[p])

\* The numbers of the builds: a stage holds the newest, the served directories
\* none older than a reported one, and a build that is installed is the newest.
InstalledAt(l) == l \in {"PROMOTED", "COMMITTED", "prune", "finish", "report"}

Numbers ==
    /\ \A b \in receipts : b <= built
    /\ \A b \in receipts, d \in {"final", "retired"} : Present(d) => dir[d].build >= b
    /\ Present("stage") => dir["stage"].build = built

Numbered ==
    /\ Numbers
    /\ \A p \in Procs : InstalledAt(pc[p]) => dir["final"].build = built

\* Where the artifact that was served survives, while no recovery was cut;
\* restored: a recovery has just put it back.
Survives(restored) ==
    ~cut /\ receipts # {} =>
        /\ journal = None \/ PhaseIs("COMMITTED") => Whole("final")
        /\ PhaseIs("PRIOR_MOVED") \/ PhaseIs("PROMOTED") =>
             Whole("retired") \/ (Whole("final") /\ restored)
        /\ Whole("final") \/ Whole("retired")

Kept == Survives(\E p \in Procs : todo[p] = <<Unlink>>)

IInv == TypeOK /\ Locked /\ Shape /\ Plans /\ Builds /\ Numbered /\ Kept

-----------------------------------------------------------------------------
(* Lemmas about directories, phases and plans. *)

LEMMA ArtifactShape ==
  ASSUME NEW a \in Artifacts
  PROVE  /\ a # None /\ a.build \in 0 .. MaxBuilds /\ a.whole \in BOOLEAN
         /\ [a EXCEPT !.whole = FALSE] \in Artifacts
         /\ [a EXCEPT !.whole = FALSE].whole = FALSE
         /\ [a EXCEPT !.whole = FALSE].build = a.build
         /\ [a EXCEPT !.whole = TRUE] \in Artifacts
         /\ [a EXCEPT !.whole = TRUE].whole = TRUE
         /\ [a EXCEPT !.whole = TRUE].build = a.build
<1>1. a \in [build : Nat, whole : BOOLEAN]
  BY BuildAssumption DEF Artifacts
<1>2. a # None
  BY <1>1, BuildAssumption
<1> QED
  BY <1>2 DEF Artifacts

Journals == [phase : Marks \cup {"INIT"}, release : 0 .. MaxUpgrades]

LEMMA JournalShape ==
  ASSUME NEW j \in Journals
  PROVE  /\ j # None /\ j.phase \in Marks \cup {"INIT"} /\ j.release \in 0 .. MaxUpgrades
         /\ \A ph \in Marks : /\ [j EXCEPT !.phase = ph] \in Journals
                              /\ [j EXCEPT !.phase = ph].phase = ph
  BY BuildAssumption DEF Journals

LEMMA AfterPhase ==
  /\ After("BUILDING") = "fill" /\ After("STAGED") = "PRE_SWAP"
  /\ After("PRE_SWAP") = "retire" /\ After("PRIOR_MOVED") = "install"
  /\ After("PROMOTED") = "COMMITTED" /\ After("COMMITTED") = "prune"
  BY DEF After

\* While a process runs, no other does.
LEMMA Alone ==
  ASSUME Locked, NEW p \in Procs, pc[p] # "idle"
  PROVE  owner = p /\ \A q \in Procs : q # p => pc[q] = "idle" /\ todo[q] = <<>>
  BY DEF Locked

-----------------------------------------------------------------------------
(* The build. *)

Fixed == <<owner, todo, faults, cut, release>>

\* What a step of a build has to show.
LEMMA BuildKeeps ==
  ASSUME IInv, NEW p \in Procs, pc[p] \in Building,
         NEW l \in Building \cup {"close"}, Goto(p, l), UNCHANGED Fixed,
         dir' \in [Dirs -> Artifacts \cup {None}], journal' \in Journals \cup {None},
         built' \in 0 .. MaxBuilds, receipts' \subseteq 0 .. MaxBuilds,
         Shape', BuildAt(l)', Numbers', InstalledAt(l) => dir'["final"].build = built',
         Survives(FALSE)'
  PROVE  IInv'
<1>1. pc[p] # "idle" /\ pc[p] \notin {"open", "close"} /\ l # "idle"
  BY DEF Building, Marks
<1>2. owner = p /\ \A q \in Procs : q # p => pc[q] = "idle" /\ todo[q] = <<>>
  BY <1>1, Alone DEF IInv
<1>3. \A q \in Procs : todo[q] = <<>> /\ todo'[q] = <<>>
  BY <1>1, <1>2 DEF IInv, Locked, Fixed
<1>4. \A q \in Procs : pc'[q] = IF q = p THEN l ELSE "idle"
  BY <1>2 DEF Goto, IInv, TypeOK
<1>5. TypeOK'
  BY DEF IInv, TypeOK, Goto, Fixed, Journals
<1>6. Locked'
  BY <1>1, <1>2, <1>3, <1>4 DEF Locked, Fixed
<1>7. Plans'
  BY <1>3 DEF Plans
<1>8. Builds'
  BY <1>4 DEF Builds, BuildAt
<1>9. Numbered'
  BY <1>4 DEF Numbered, InstalledAt
<1>10. Kept'
  BY DEF Kept, Survives
<1> QED
  BY <1>5, <1>6, <1>7, <1>8, <1>9, <1>10 DEF IInv

\* What a build knows: its own place, and that nothing was restored.
LEMMA BuildKnows ==
  ASSUME IInv, NEW p \in Procs, pc[p] \in Building
  PROVE  /\ TypeOK /\ Shape /\ BuildAt(pc[p]) /\ Numbers /\ Survives(FALSE)
         /\ InstalledAt(pc[p]) => dir["final"].build = built
<1>1. pc[p] # "idle" /\ pc[p] \notin {"open", "close"}
  BY DEF Building, Marks
<1>2. \A q \in Procs : todo[q] = <<>>
  BY <1>1, Alone DEF IInv, Locked
<1>3. ~ \E q \in Procs : todo[q] = <<Unlink>>
  <2>1. \A x : <<x>> # << >>
    OBVIOUS
  <2> QED
    BY <1>2, <2>1, Zenon
<1>4. Survives(FALSE)
  BY <1>3 DEF IInv, Kept, Survives
<1> QED
  BY <1>4 DEF IInv, Builds, Numbered

\* What a directory that is present holds.
LEMMA DirKinds ==
  ASSUME TypeOK, NEW d \in Dirs, Present(d)
  PROVE  dir[d] \in Artifacts /\ dir[d] # None
<1>1. dir[d] \in Artifacts \cup {None}
  BY DEF TypeOK
<1> QED
  BY <1>1 DEF Present

LEMMA BeginKeeps ==
  ASSUME IInv, NEW p \in Procs, Begin(p)
  PROVE  IInv'
<1>1. pc[p] \in Building /\ pc[p] = "begin"
  BY DEF Begin, Building
<1>2. /\ TypeOK /\ Shape /\ BuildAt(pc[p]) /\ Numbers /\ Survives(FALSE)
  BY <1>1, BuildKnows
<1>3. journal = None /\ ~Present("stage") /\ ~Present("retired") /\ Sound("final")
  BY <1>1, <1>2 DEF BuildAt, Shape
<1>4. /\ journal' = [phase |-> "INIT", release |-> release]
      /\ built' = built + 1 /\ built < MaxBuilds /\ Goto(p, "mkdir")
      /\ UNCHANGED <<dir, receipts>> /\ UNCHANGED Fixed
  BY <1>3 DEF Begin, Fixed
<1>5. journal' \in Journals /\ journal'.phase = "INIT" /\ built' \in 0 .. MaxBuilds
  BY <1>2, <1>4, BuildAssumption DEF Journals, TypeOK
<1>6. PhaseIs("INIT")' /\ ~Moved' /\ journal' # None
  BY <1>5, JournalShape DEF PhaseIs, Moved
<1>7. Shape' /\ BuildAt("mkdir")' /\ Survives(FALSE)'
  BY <1>2, <1>3, <1>4, <1>5, <1>6
  DEF Shape, BuildAt, Survives, PhaseIs, Present, Whole, Sound, Fixed
<1>8. Numbers'
  BY <1>2, <1>3, <1>4 DEF Numbers, Present, TypeOK
<1> QED
  BY <1>1, <1>2, <1>4, <1>5, <1>7, <1>8, BuildKeeps
  DEF TypeOK, InstalledAt, Building

LEMMA MakeStageKeeps ==
  ASSUME IInv, NEW p \in Procs, MakeStage(p)
  PROVE  IInv'
<1>1. pc[p] \in Building /\ pc[p] = "mkdir"
  BY DEF MakeStage, Building
<1>2. /\ TypeOK /\ Shape /\ BuildAt(pc[p]) /\ Numbers /\ Survives(FALSE)
  BY <1>1, BuildKnows
<1>3. PhaseIs("INIT") /\ ~Present("stage")
  BY <1>1, <1>2 DEF BuildAt
<1> DEFINE a == [build |-> built, whole |-> FALSE]
<1>4. /\ dir' = [dir EXCEPT !["stage"] = a] /\ Goto(p, "BUILDING")
      /\ UNCHANGED <<journal, built, receipts>> /\ UNCHANGED Fixed
  BY DEF MakeStage, Fixed
<1>5. a \in Artifacts /\ a.build = built /\ a.whole = FALSE
  BY <1>2 DEF Artifacts, TypeOK
<1> HIDE DEF a
<1>6. /\ dir' \in [Dirs -> Artifacts \cup {None}]
      /\ dir'["stage"] = a /\ dir'["final"] = dir["final"] /\ dir'["retired"] = dir["retired"]
  BY <1>2, <1>4, <1>5 DEF TypeOK, Dirs
<1>7. a # None
  BY <1>5, ArtifactShape
<1>8. Shape' /\ BuildAt("BUILDING")' /\ Survives(FALSE)'
  BY <1>2, <1>3, <1>4, <1>5, <1>6, <1>7
  DEF Shape, BuildAt, Survives, PhaseIs, Moved, Present, Whole, Sound, Torn, Fixed
<1>9. Numbers'
  BY <1>2, <1>4, <1>5, <1>6 DEF Numbers, Present
<1> QED
  BY <1>1, <1>2, <1>4, <1>6, <1>8, <1>9, BuildKeeps
  DEF TypeOK, InstalledAt, Building, Marks, Journals

\* A journal entry: the journal is open, and holds the phase it is to hold.
LEMMA MarkKeeps ==
  ASSUME IInv, NEW p \in Procs, Mark(p)
  PROVE  IInv'
<1>1. pc[p] \in Building /\ pc[p] \in Marks
  BY DEF Mark, Building
<1>2. /\ TypeOK /\ Shape /\ BuildAt(pc[p]) /\ Numbers /\ Survives(FALSE)
      /\ InstalledAt(pc[p]) => dir["final"].build = built
  BY <1>1, BuildKnows
<1>3. journal # None
  BY <1>1, <1>2 DEF BuildAt, PhaseIs, Marks
<1>a. PICK ph : ph = pc[p]
  OBVIOUS
<1>b. PICK l : l = After(pc[p])
  OBVIOUS
<1>4. /\ journal' = [journal EXCEPT !.phase = ph] /\ Goto(p, l)
      /\ UNCHANGED <<dir, built, receipts>> /\ UNCHANGED Fixed
  BY <1>3, <1>a, <1>b DEF Mark, Fixed
<1>5. journal \in Journals
  BY <1>2, <1>3 DEF TypeOK, Journals
<1>6. journal' \in Journals /\ journal'.phase = ph /\ journal' # None
  BY <1>1, <1>4, <1>5, <1>a, JournalShape
<1>7. \/ ph = "BUILDING" /\ l = "fill"
      \/ ph = "STAGED" /\ l = "PRE_SWAP"
      \/ ph = "PRE_SWAP" /\ l = "retire"
      \/ ph = "PRIOR_MOVED" /\ l = "install"
      \/ ph = "PROMOTED" /\ l = "COMMITTED"
      \/ ph = "COMMITTED" /\ l = "prune"
  BY <1>1, <1>a, <1>b, AfterPhase DEF Marks
<1>8. BuildAt(ph) /\ Goto(p, l) /\ (InstalledAt(ph) => dir["final"].build = built)
  BY <1>2, <1>4, <1>a
<1>9. Shape'
  BY <1>2, <1>4, <1>6, <1>7, <1>8
  DEF Shape, BuildAt, PhaseIs, Moved, Present, Whole, Sound, Torn
<1>10. BuildAt(l)'
  BY <1>2, <1>4, <1>6, <1>7, <1>8
  DEF Shape, BuildAt, PhaseIs, Moved, Present, Whole, Sound, Torn
<1>11. Survives(FALSE)'
  BY <1>2, <1>4, <1>6, <1>7, <1>8
  DEF Shape, BuildAt, Survives, PhaseIs, Moved, Present, Whole, Sound, Torn, Fixed
<1>12. Numbers' /\ (InstalledAt(l) => dir'["final"].build = built')
  BY <1>2, <1>4, <1>7, <1>8 DEF Numbers, Present, InstalledAt
<1>13. l \in Building
  BY <1>7 DEF Building, Marks
<1> QED
  BY <1>1, <1>2, <1>4, <1>6, <1>9, <1>10, <1>11, <1>12, <1>13, BuildKeeps DEF TypeOK

LEMMA FillKeeps ==
  ASSUME IInv, NEW p \in Procs, Fill(p)
  PROVE  IInv'
<1>1. pc[p] \in Building /\ pc[p] = "fill"
  BY DEF Fill, Building
<1>2. /\ TypeOK /\ Shape /\ BuildAt(pc[p]) /\ Numbers /\ Survives(FALSE)
  BY <1>1, BuildKnows
<1>3. PhaseIs("BUILDING") /\ Torn("stage")
  BY <1>1, <1>2 DEF BuildAt
<1> DEFINE a == [dir["stage"] EXCEPT !.whole = TRUE]
<1>4. dir["stage"] \in Artifacts
  BY <1>2, <1>3, DirKinds DEF Torn, Dirs
<1>5. a \in Artifacts /\ a # None /\ a.whole = TRUE /\ a.build = dir["stage"].build
  BY <1>4, ArtifactShape
<1>6. dir' = [dir EXCEPT !["stage"] = a]
  BY DEF Fill
<1>7. /\ Goto(p, "STAGED") /\ UNCHANGED <<journal, built, receipts>> /\ UNCHANGED Fixed
  BY DEF Fill, Fixed
<1> HIDE DEF a
<1>8. /\ dir' \in [Dirs -> Artifacts \cup {None}]
      /\ dir'["stage"] = a /\ dir'["final"] = dir["final"] /\ dir'["retired"] = dir["retired"]
  BY <1>2, <1>5, <1>6 DEF TypeOK, Dirs
<1>9. Shape' /\ BuildAt("STAGED")' /\ Survives(FALSE)'
  BY <1>2, <1>3, <1>5, <1>7, <1>8
  DEF Shape, BuildAt, Survives, PhaseIs, Moved, Present, Whole, Sound, Torn, Fixed
<1>10. Numbers'
  BY <1>2, <1>3, <1>5, <1>7, <1>8 DEF Numbers, Present, Torn
<1> QED
  BY <1>1, <1>2, <1>7, <1>8, <1>9, <1>10, BuildKeeps
  DEF TypeOK, InstalledAt, Building, Marks, Journals

LEMMA FailKeeps ==
  ASSUME IInv, NEW p \in Procs, Fail(p)
  PROVE  IInv'
<1>1. pc[p] \in Building
  BY DEF Fail
<1>2. /\ TypeOK /\ Shape /\ Numbers /\ Survives(FALSE)
  BY <1>1, BuildKnows
<1>3. Goto(p, "close") /\ UNCHANGED <<dir, journal, built, receipts>> /\ UNCHANGED Fixed
  BY DEF Fail, Fixed
<1>4. Shape' /\ Survives(FALSE)' /\ Numbers' /\ BuildAt("close")' /\ ~InstalledAt("close")
  BY <1>2, <1>3
  DEF Shape, BuildAt, Survives, Numbers, InstalledAt, PhaseIs, Moved, Present, Whole, Sound, Fixed
<1> QED
  BY <1>1, <1>2, <1>3, <1>4, BuildKeeps DEF TypeOK, Journals

LEMMA DiscardKeeps ==
  ASSUME IInv, NEW p \in Procs, Discard(p)
  PROVE  IInv'
<1>1. pc[p] \in Building /\ pc[p] \in {"STAGED", "discard"}
  BY DEF Discard, Building, Marks
<1>2. /\ TypeOK /\ Shape /\ BuildAt(pc[p]) /\ Numbers /\ Survives(FALSE)
  BY <1>1, BuildKnows
<1>3. PhaseIs("BUILDING") /\ Present("stage")
  BY <1>1, <1>2 DEF BuildAt, Torn, Whole
<1> DEFINE b == [dir["stage"] EXCEPT !.whole = FALSE]
<1>4. dir["stage"] \in Artifacts
  BY <1>2, <1>3, DirKinds DEF Dirs
<1>5. b \in Artifacts /\ b # None /\ b.whole = FALSE /\ b.build = dir["stage"].build
  BY <1>4, ArtifactShape
<1>6. /\ UNCHANGED <<journal, built, receipts>> /\ UNCHANGED Fixed
  BY DEF Discard, Fixed
<1>7. \/ Whole("stage") /\ dir' = [dir EXCEPT !["stage"] = b] /\ Goto(p, "discard")
      \/ dir' = [dir EXCEPT !["stage"] = None] /\ Goto(p, "close")
  BY DEF Discard
<1> HIDE DEF b
<1>8. CASE dir' = [dir EXCEPT !["stage"] = b] /\ Goto(p, "discard")
  <2>1. /\ dir' \in [Dirs -> Artifacts \cup {None}]
        /\ dir'["stage"] = b /\ dir'["final"] = dir["final"] /\ dir'["retired"] = dir["retired"]
    BY <1>2, <1>5, <1>8 DEF TypeOK, Dirs
  <2>2. Shape' /\ BuildAt("discard")' /\ Survives(FALSE)'
    BY <1>2, <1>3, <1>5, <1>6, <2>1
    DEF Shape, BuildAt, Survives, PhaseIs, Moved, Present, Whole, Sound, Torn, Fixed
  <2>3. Numbers'
    BY <1>2, <1>3, <1>5, <1>6, <2>1 DEF Numbers, Present
  <2> QED
    BY <1>1, <1>2, <1>6, <1>8, <2>1, <2>2, <2>3, BuildKeeps
    DEF TypeOK, InstalledAt, Building, Marks, Journals
<1>9. CASE dir' = [dir EXCEPT !["stage"] = None] /\ Goto(p, "close")
  <2>1. /\ dir' \in [Dirs -> Artifacts \cup {None}]
        /\ dir'["stage"] = None /\ dir'["final"] = dir["final"]
        /\ dir'["retired"] = dir["retired"]
    BY <1>2, <1>9 DEF TypeOK, Dirs
  <2>2. Shape' /\ BuildAt("close")' /\ Survives(FALSE)'
    BY <1>2, <1>3, <1>6, <2>1
    DEF Shape, BuildAt, Survives, PhaseIs, Moved, Present, Whole, Sound, Torn, Fixed
  <2>3. Numbers'
    BY <1>2, <1>6, <2>1 DEF Numbers, Present
  <2> QED
    BY <1>1, <1>2, <1>6, <1>9, <2>1, <2>2, <2>3, BuildKeeps
    DEF TypeOK, InstalledAt, Building, Marks, Journals
<1> QED
  BY <1>7, <1>8, <1>9

LEMMA RetireKeeps ==
  ASSUME IInv, NEW p \in Procs, Retire(p)
  PROVE  IInv'
<1>1. pc[p] \in Building /\ pc[p] = "retire"
  BY DEF Retire, Building
<1>2. /\ TypeOK /\ Shape /\ BuildAt(pc[p]) /\ Numbers /\ Survives(FALSE)
  BY <1>1, BuildKnows
<1>3. PhaseIs("PRE_SWAP") /\ Whole("stage") /\ ~Present("retired") /\ Sound("final")
  BY <1>1, <1>2 DEF BuildAt, Shape, PhaseIs, Moved
<1>4. /\ UNCHANGED <<journal, built, receipts>> /\ UNCHANGED Fixed
      /\ Goto(p, "PRIOR_MOVED")
      /\ dir' = IF Present("final")
                THEN [dir EXCEPT !["retired"] = dir["final"], !["final"] = None]
                ELSE dir
  BY <1>3 DEF Retire, Fixed, Sound
<1>5. /\ dir' \in [Dirs -> Artifacts \cup {None}]
      /\ dir'["stage"] = dir["stage"] /\ dir'["final"] = None
      /\ dir'["retired"] = dir["final"]
  <2>1. dir \in [Dirs -> Artifacts \cup {None}]
    BY <1>2 DEF TypeOK
  <2>2. CASE Present("final")
    BY <1>4, <2>1, <2>2 DEF Dirs
  <2>3. CASE ~Present("final")
    BY <1>3, <1>4, <2>1, <2>3 DEF Present
  <2> QED
    BY <2>2, <2>3
<1>6. Shape' /\ BuildAt("PRIOR_MOVED")'
  BY <1>2, <1>3, <1>4, <1>5
  DEF Shape, BuildAt, PhaseIs, Moved, Present, Whole, Sound, Torn, Fixed
<1>7. Survives(FALSE)'
  BY <1>2, <1>3, <1>4, <1>5
  DEF Survives, PhaseIs, Moved, Present, Whole, Sound, Torn, Fixed
<1>8. Numbers'
  BY <1>2, <1>3, <1>4, <1>5 DEF Numbers, Present
<1> QED
  BY <1>1, <1>2, <1>4, <1>5, <1>6, <1>7, <1>8, BuildKeeps
  DEF TypeOK, InstalledAt, Building, Marks, Journals

LEMMA InstallKeeps ==
  ASSUME IInv, NEW p \in Procs, Install(p)
  PROVE  IInv'
<1>1. pc[p] \in Building /\ pc[p] = "install"
  BY DEF Install, Building
<1>2. /\ TypeOK /\ Shape /\ BuildAt(pc[p]) /\ Numbers /\ Survives(FALSE)
  BY <1>1, BuildKnows
<1>3. PhaseIs("PRIOR_MOVED") /\ Whole("stage") /\ ~Present("final")
  BY <1>1, <1>2 DEF BuildAt
<1>4. /\ UNCHANGED <<journal, built, receipts>> /\ UNCHANGED Fixed
      /\ Goto(p, "PROMOTED")
      /\ dir' = [dir EXCEPT !["final"] = dir["stage"], !["stage"] = None]
  BY DEF Install, Fixed
<1>5. /\ dir' \in [Dirs -> Artifacts \cup {None}]
      /\ dir'["stage"] = None /\ dir'["final"] = dir["stage"]
      /\ dir'["retired"] = dir["retired"]
  BY <1>2, <1>4 DEF TypeOK, Dirs
<1>6. Shape' /\ BuildAt("PROMOTED")'
  BY <1>2, <1>3, <1>4, <1>5
  DEF Shape, BuildAt, PhaseIs, Moved, Present, Whole, Sound, Torn, Fixed
<1>7. Survives(FALSE)'
  BY <1>2, <1>3, <1>4, <1>5
  DEF Survives, PhaseIs, Moved, Present, Whole, Sound, Torn, Fixed
<1>8. dir'["final"].build = built'
  BY <1>2, <1>3, <1>4, <1>5 DEF Numbers, Present, Whole
<1>9. Numbers'
  BY <1>2, <1>3, <1>4, <1>5, <1>8 DEF Numbers, Present
<1> QED
  BY <1>1, <1>2, <1>4, <1>5, <1>6, <1>7, <1>8, <1>9, BuildKeeps
  DEF TypeOK, InstalledAt, Building, Marks, Journals

LEMMA PruneKeeps ==
  ASSUME IInv, NEW p \in Procs, Prune(p)
  PROVE  IInv'
<1>1. pc[p] \in Building /\ pc[p] = "prune"
  BY DEF Prune, Building
<1>2. /\ TypeOK /\ Shape /\ BuildAt(pc[p]) /\ Numbers /\ Survives(FALSE)
      /\ dir["final"].build = built
  BY <1>1, BuildKnows DEF InstalledAt
<1>3. PhaseIs("COMMITTED") /\ Whole("final")
  BY <1>1, <1>2 DEF BuildAt
<1>4. /\ UNCHANGED <<journal, built, receipts>> /\ UNCHANGED Fixed
  BY DEF Prune, Fixed
<1>5. CASE Whole("retired")
  <2> DEFINE b == [dir["retired"] EXCEPT !.whole = FALSE]
  <2>1. dir["retired"] \in Artifacts
    BY <1>2, <1>5, DirKinds DEF Dirs, Whole
  <2>2. b \in Artifacts /\ b # None /\ b.whole = FALSE /\ b.build = dir["retired"].build
    BY <2>1, ArtifactShape
  <2>3. dir' = [dir EXCEPT !["retired"] = b] /\ UNCHANGED pc
    BY <1>5 DEF Prune
  <2> HIDE DEF b
  <2>4. /\ dir' \in [Dirs -> Artifacts \cup {None}]
        /\ dir'["retired"] = b /\ dir'["final"] = dir["final"] /\ dir'["stage"] = dir["stage"]
    BY <1>2, <2>2, <2>3 DEF TypeOK, Dirs
  <2>5. Shape' /\ BuildAt("prune")' /\ Survives(FALSE)'
    BY <1>2, <1>3, <1>4, <1>5, <2>2, <2>4
    DEF Shape, BuildAt, Survives, PhaseIs, Moved, Present, Whole, Sound, Torn, Fixed
  <2>6. Numbers'
    BY <1>2, <1>4, <1>5, <2>2, <2>4 DEF Numbers, Present, Whole
  <2>7. Goto(p, "prune")
    BY <1>1, <1>2, <2>3 DEF Goto, TypeOK
  <2> QED
    BY <1>1, <1>2, <1>4, <2>4, <2>5, <2>6, <2>7, BuildKeeps
    DEF TypeOK, Building, Marks, Journals
<1>6. CASE ~Whole("retired")
  <2>1. dir' = [dir EXCEPT !["retired"] = None] /\ Goto(p, "finish")
    BY <1>6 DEF Prune
  <2>2. /\ dir' \in [Dirs -> Artifacts \cup {None}]
        /\ dir'["retired"] = None /\ dir'["final"] = dir["final"]
        /\ dir'["stage"] = dir["stage"]
    BY <1>2, <2>1 DEF TypeOK, Dirs
  <2>3. Shape' /\ BuildAt("finish")' /\ Survives(FALSE)'
    BY <1>2, <1>3, <1>4, <2>2
    DEF Shape, BuildAt, Survives, PhaseIs, Moved, Present, Whole, Sound, Torn, Fixed
  <2>4. Numbers'
    BY <1>2, <1>4, <2>2 DEF Numbers, Present
  <2> QED
    BY <1>1, <1>2, <1>4, <2>1, <2>2, <2>3, <2>4, BuildKeeps
    DEF TypeOK, Building, Marks, Journals
<1> QED
  BY <1>5, <1>6

LEMMA FinishKeeps ==
  ASSUME IInv, NEW p \in Procs, Finish(p)
  PROVE  IInv'
<1>1. pc[p] \in Building /\ pc[p] = "finish"
  BY DEF Finish, Building
<1>2. /\ TypeOK /\ Shape /\ BuildAt(pc[p]) /\ Numbers /\ Survives(FALSE)
      /\ dir["final"].build = built
  BY <1>1, BuildKnows DEF InstalledAt
<1>3. PhaseIs("COMMITTED") /\ Whole("final") /\ ~Present("retired") /\ ~Present("stage")
  BY <1>1, <1>2 DEF BuildAt, Shape
<1>4. /\ UNCHANGED <<dir, built, receipts>> /\ UNCHANGED Fixed
      /\ journal' = None /\ Goto(p, "report")
  BY <1>3 DEF Finish, Fixed
<1>5. Shape' /\ BuildAt("report")' /\ Survives(FALSE)'
  BY <1>2, <1>3, <1>4
  DEF Shape, BuildAt, Survives, PhaseIs, Moved, Present, Whole, Sound, Torn, Fixed
<1>6. Numbers'
  BY <1>2, <1>4 DEF Numbers, Present
<1> QED
  BY <1>1, <1>2, <1>4, <1>5, <1>6, BuildKeeps
  DEF TypeOK, Building, Marks, Journals

\* A build that is reported is the newest, and in the final directory.
LEMMA ReportKeeps ==
  ASSUME IInv, NEW p \in Procs, Report(p)
  PROVE  IInv'
<1>1. pc[p] \in Building /\ pc[p] = "report"
  BY DEF Report, Building
<1>2. /\ TypeOK /\ Shape /\ BuildAt(pc[p]) /\ Numbers /\ Survives(FALSE)
      /\ dir["final"].build = built
  BY <1>1, BuildKnows DEF InstalledAt
<1>3. journal = None /\ Whole("final") /\ ~Present("retired")
  BY <1>1, <1>2 DEF BuildAt, Shape
<1>4. /\ UNCHANGED <<dir, journal, built>> /\ UNCHANGED Fixed
      /\ receipts' = receipts \cup {built} /\ Goto(p, "close")
  BY DEF Report, Fixed
<1>5. built \in 0 .. MaxBuilds /\ MaxBuilds \in Nat /\ receipts' \subseteq 0 .. MaxBuilds
  BY <1>2, <1>4, BuildAssumption DEF TypeOK
<1>6. Shape' /\ BuildAt("close")' /\ Survives(FALSE)'
  BY <1>2, <1>3, <1>4
  DEF Shape, BuildAt, Survives, PhaseIs, Moved, Present, Whole, Sound, Torn, Fixed
<1>7. Numbers'
  BY <1>2, <1>3, <1>4, <1>5 DEF Numbers, Present
<1> QED
  BY <1>1, <1>2, <1>4, <1>5, <1>6, <1>7, BuildKeeps
  DEF TypeOK, Journals, InstalledAt

-----------------------------------------------------------------------------
(* Recovery. *)

Phrases == {"tear", "remove", "rename", "unlink"} \X (Dirs \cup {"journal"})

LEMMA NothingLeft == <<>> # <<Unlink>>
  BY DEF Unlink

\* What any other step of a process has to show: it is left with the plan t.
LEMMA OtherKeeps ==
  ASSUME IInv, NEW p \in Procs, pc[p] # "idle" \/ owner = None,
         NEW l \in {"idle", "open", "close", "begin"}, NEW t \in Seq(Phrases),
         Goto(p, l), owner' = IF l = "idle" THEN None ELSE p,
         todo' = [todo EXCEPT ![p] = t],
         t # <<>> => l \in {"open", "close"} /\ journal' # None /\ Planned(t)',
         l = "begin" => journal' = None,
         UNCHANGED <<release, built, receipts>>,
         faults' \in 0 .. MaxFaults, cut' \in BOOLEAN,
         dir' \in [Dirs -> Artifacts \cup {None}], journal' \in Journals \cup {None},
         Shape', Numbers', Survives(t = <<Unlink>>)'
  PROVE  IInv'
<1>1. \A q \in Procs : q # p => pc[q] = "idle" /\ todo[q] = <<>>
  <2>1. CASE pc[p] # "idle"
    BY <2>1, Alone DEF IInv
  <2>2. CASE owner = None
    BY <2>2, BuildAssumption DEF IInv, Locked
  <2> QED
    BY <2>1, <2>2
<1>2. TypeOK
  BY DEF IInv
<1>3. \A q \in Procs : pc'[q] = IF q = p THEN l ELSE "idle"
  BY <1>1, <1>2 DEF Goto, TypeOK
<1>4. \A q \in Procs : todo'[q] = IF q = p THEN t ELSE <<>>
  BY <1>1, <1>2 DEF TypeOK
<1>5. TypeOK'
  <2>1. todo' \in [Procs -> Seq(Phrases)]
    BY <1>2 DEF TypeOK, Phrases
  <2>2. pc' \in [Procs -> Building \cup {"idle", "open", "close"}]
    BY <1>2 DEF TypeOK, Goto, Building
  <2>3. owner' \in Procs \cup {None}
    OBVIOUS
  <2> QED
    BY <1>2, <2>1, <2>2, <2>3 DEF TypeOK, Journals, Phrases
<1>6. Locked'
  BY <1>3, <1>4, BuildAssumption DEF Locked
<1>7. Plans'
  BY <1>4 DEF Plans
<1>8. Builds'
  BY <1>3 DEF Builds, BuildAt
<1>9. Numbered'
  BY <1>3 DEF Numbered, InstalledAt
<1>10. (\E q \in Procs : todo'[q] = <<Unlink>>) <=> t = <<Unlink>>
  BY <1>4, NothingLeft
<1>11. Kept'
  BY <1>10 DEF Kept, Survives
<1> QED
  BY <1>5, <1>6, <1>7, <1>8, <1>9, <1>11 DEF IInv

\* While nothing is left to unlink, nothing was just restored.
LEMMA NotRestored ==
  ASSUME IInv, NEW p \in Procs, pc[p] # "idle" \/ owner = None, todo[p] # <<Unlink>>
  PROVE  Survives(FALSE)
<1>1. \A q \in Procs : q # p => todo[q] = <<>>
  <2>1. CASE pc[p] # "idle"
    BY <2>1, Alone DEF IInv
  <2>2. CASE owner = None
    BY <2>2, BuildAssumption DEF IInv, Locked
  <2> QED
    BY <2>1, <2>2
<1>2. ~ \E q \in Procs : todo[q] = <<Unlink>>
  BY <1>1
<1> QED
  BY <1>2 DEF IInv, Kept, Survives

LEMMA StartKeeps ==
  ASSUME IInv, NEW p \in Procs, Start(p)
  PROVE  IInv'
<1>1. pc[p] = "idle" /\ owner = None /\ todo[p] = <<>>
  BY DEF Start, IInv, Locked
<1>2. /\ UNCHANGED <<dir, journal, release, todo, built, receipts, faults, cut>>
      /\ owner' = p /\ Goto(p, "open")
  BY DEF Start
<1>3. todo' = [todo EXCEPT ![p] = <<>>]
  BY <1>1, <1>2 DEF IInv, TypeOK
<1>4. Survives(FALSE)
  BY <1>1, NotRestored, NothingLeft
<1>5. Shape' /\ Numbers' /\ Survives(<<>> = <<Unlink>>)'
  BY <1>2, <1>4
  DEF IInv, Numbered, Shape, Numbers, Survives, PhaseIs, Moved, Present, Whole, Sound
<1>6. <<>> \in Seq(Phrases)
  OBVIOUS
<1> QED
  BY <1>1, <1>2, <1>3, <1>5, <1>6, OtherKeeps DEF IInv, TypeOK, Journals

LEMMA CrashKeeps ==
  ASSUME IInv, NEW p \in Procs, Crash(p)
  PROVE  IInv'
<1>1. pc[p] # "idle"
  BY DEF Crash
<1>2. /\ UNCHANGED <<dir, journal, release, built, receipts>>
      /\ owner' = None /\ Goto(p, "idle") /\ todo' = [todo EXCEPT ![p] = <<>>]
      /\ cut' = (cut \/ todo[p] # <<>>)
  BY DEF Crash, Leave
<1>3. faults' \in 0 .. MaxFaults /\ cut' \in BOOLEAN
  BY BuildAssumption DEF Crash, IInv, TypeOK
<1>4. Shape' /\ Numbers'
  BY <1>2 DEF IInv, Numbered, Shape, Numbers, PhaseIs, Moved, Present, Whole, Sound
<1>5. Survives(<<>> = <<Unlink>>)'
  <2>1. CASE todo[p] = <<>>
    BY <1>1, <1>2, <2>1, NotRestored, NothingLeft DEF Survives, PhaseIs, Present, Whole
  <2>2. CASE todo[p] # <<>>
    BY <1>2, <2>2 DEF Survives
  <2> QED
    BY <2>1, <2>2
<1>6. <<>> \in Seq(Phrases)
  OBVIOUS
<1> QED
  BY <1>1, <1>2, <1>3, <1>4, <1>5, <1>6, OtherKeeps DEF IInv, TypeOK, Journals

LEMMA UpgradeKeeps ==
  ASSUME IInv, Upgrade
  PROVE  IInv'
<1>1. UNCHANGED <<dir, journal, owner, pc, todo, built, receipts, faults, cut>>
  BY DEF Upgrade
<1>2. release' \in 0 .. MaxUpgrades
  BY DEF Upgrade
<1>3. TypeOK'
  BY <1>1, <1>2 DEF IInv, TypeOK
<1>4. Locked' /\ Shape' /\ Builds'
  BY <1>1 DEF IInv, Locked, Shape, Builds, BuildAt, PhaseIs, Moved, Present, Whole, Sound, Torn
<1>5. Plans'
  BY <1>1 DEF IInv, Plans, Planned, PhaseIs, Moved, Present, Whole, Sound, Torn
<1>6. Numbered' /\ Kept'
  BY <1>1 DEF IInv, Numbered, Numbers, Kept, Survives, PhaseIs, Present, Whole
<1> QED
  BY <1>3, <1>4, <1>5, <1>6 DEF IInv

LEMMA StutterKeeps ==
  ASSUME IInv, UNCHANGED vars
  PROVE  IInv'
<1>1. TypeOK'
  BY DEF IInv, TypeOK, vars
<1>2. Locked' /\ Shape' /\ Builds'
  BY DEF vars, IInv, Locked, Shape, Builds, BuildAt, PhaseIs, Moved, Present, Whole, Sound, Torn
<1>3. Plans'
  BY DEF vars, IInv, Plans, Planned, PhaseIs, Moved, Present, Whole, Sound, Torn
<1>4. Numbered' /\ Kept'
  BY DEF vars, IInv, Numbered, Numbers, Kept, Survives, PhaseIs, Present, Whole
<1> QED
  BY <1>1, <1>2, <1>3, <1>4 DEF IInv

\* What a step of a plan does to the directories.
LEMMA CleanDirs ==
  ASSUME TypeOK, NEW p \in Procs, Clean(p), NEW d \in Dirs
  PROVE  /\ Head(todo[p]) = Tear(d) /\ Present(d) =>
              /\ Torn(d)' /\ dir'[d].build = dir[d].build
              /\ \A e \in Dirs \ {d} : dir'[e] = dir[e]
              /\ dir' \in [Dirs -> Artifacts \cup {None}]
         /\ Head(todo[p]) = Remove(d) =>
              /\ dir'[d] = None
              /\ \A e \in Dirs \ {d} : dir'[e] = dir[e]
              /\ dir' \in [Dirs -> Artifacts \cup {None}]
         /\ Head(todo[p]) = Rename =>
              /\ dir'["final"] = dir["retired"] /\ dir'["retired"] = None
              /\ dir'["stage"] = dir["stage"]
              /\ dir' \in [Dirs -> Artifacts \cup {None}]
<1>1. dir \in [Dirs -> Artifacts \cup {None}]
  BY DEF TypeOK
<1>2. ASSUME Head(todo[p]) = Tear(d), Present(d)
      PROVE  /\ Torn(d)' /\ dir'[d].build = dir[d].build
             /\ \A e \in Dirs \ {d} : dir'[e] = dir[e]
             /\ dir' \in [Dirs -> Artifacts \cup {None}]
  <2> DEFINE b == [dir[d] EXCEPT !.whole = FALSE]
  <2>1. Head(todo[p])[1] = "tear" /\ Head(todo[p])[2] = d
    BY <1>2 DEF Tear
  <2>2. dir' = [dir EXCEPT ![d] = b]
    BY <2>1 DEF Clean
  <2>3. dir[d] \in Artifacts
    BY <1>2, DirKinds
  <2>4. b \in Artifacts /\ b # None /\ b.whole = FALSE /\ b.build = dir[d].build
    BY <2>3, ArtifactShape
  <2> HIDE DEF b
  <2> QED
    BY <1>1, <2>2, <2>4 DEF Torn, Present, Whole
<1>3. ASSUME Head(todo[p]) = Remove(d)
      PROVE  /\ dir'[d] = None
             /\ \A e \in Dirs \ {d} : dir'[e] = dir[e]
             /\ dir' \in [Dirs -> Artifacts \cup {None}]
  <2>1. Head(todo[p])[1] = "remove" /\ Head(todo[p])[2] = d
    BY <1>3 DEF Remove
  <2>2. dir' = [dir EXCEPT ![d] = None]
    BY <2>1 DEF Clean
  <2> QED
    BY <1>1, <2>2
<1>4. ASSUME Head(todo[p]) = Rename
      PROVE  /\ dir'["final"] = dir["retired"] /\ dir'["retired"] = None
             /\ dir'["stage"] = dir["stage"]
             /\ dir' \in [Dirs -> Artifacts \cup {None}]
  <2>1. Head(todo[p])[1] = "rename"
    BY <1>4 DEF Rename
  <2>2. dir' = [dir EXCEPT !["final"] = dir["retired"], !["retired"] = None]
    BY <2>1 DEF Clean
  <2> QED
    BY <1>1, <2>2 DEF Dirs
<1> QED
  BY <1>2, <1>3, <1>4

\* The steps of a plan, first to last.
LEMMA Ahead ==
  ASSUME NEW a, NEW b, NEW c, NEW d
  PROVE  /\ Head(<<a, b, c, d>>) = a /\ Tail(<<a, b, c, d>>) = <<b, c, d>>
         /\ Head(<<a, b, c>>) = a /\ Tail(<<a, b, c>>) = <<b, c>>
         /\ Head(<<a, b>>) = a /\ Tail(<<a, b>>) = <<b>>
         /\ Len(<<a, b, c, d>>) = 4 /\ Len(<<a, b, c>>) = 3
         /\ Len(<<a, b>>) = 2 /\ Len(<<a>>) = 1
  OBVIOUS

LEMMA PhraseTypes ==
  /\ \A d \in Dirs : Tear(d) \in Phrases /\ Remove(d) \in Phrases
  /\ Rename \in Phrases /\ Unlink \in Phrases
  BY DEF Tear, Remove, Rename, Unlink, Phrases, Dirs

LEMMA LongPlan ==
  ASSUME NEW t, Len(t) > 1
  PROVE  t # <<Unlink>> /\ t # <<>>
<1>1. Len(<<Unlink>>) = 1 /\ Len(<<>>) = 0 /\ ~(1 > 1) /\ ~(0 > 1)
  OBVIOUS
<1>2. t # <<Unlink>>
  BY <1>1, Zenon
<1> QED
  BY <1>1, <1>2, Zenon

\* A step of a plan keeps the shape of the phase, and leaves the rest of it.
LEMMA CleanFits ==
  ASSUME IInv, NEW p \in Procs, Clean(p), NEW t, t = todo[p]
  PROVE  /\ dir' \in [Dirs -> Artifacts \cup {None}]
         /\ Shape' /\ Planned(Tail(t))' /\ Numbers' /\ Survives(Tail(t) = <<Unlink>>)'
<1>a. PICK r : r = Tail(t)
  OBVIOUS
<1>1. /\ TypeOK /\ Shape /\ Numbers /\ Planned(t) /\ Len(t) > 1 /\ journal # None
  BY DEF IInv, Numbered, Clean, Plans
<1>2. Survives(FALSE)
  <2>1. pc[p] # "idle" /\ t # <<Unlink>>
    BY <1>1, LongPlan DEF IInv, Locked
  <2> QED
    BY <2>1, NotRestored
<1>3. UNCHANGED <<journal, release, owner, pc, built, receipts, faults, cut>>
  BY DEF Clean
<1>4. CASE Whole("retired") /\ ~Present("final")
           /\ Present("stage") /\ t = <<Tear("stage"), Remove("stage"), Rename, Unlink>>
  <2>1. Head(todo[p]) = Tear("stage") /\ r = <<Remove("stage"), Rename, Unlink>>
    BY <1>a, <1>4, Ahead
  <2>2. /\ Torn("stage")' /\ dir'["stage"].build = dir["stage"].build
        /\ dir'["final"] = dir["final"] /\ dir'["retired"] = dir["retired"]
        /\ dir' \in [Dirs -> Artifacts \cup {None}]
    BY <1>1, <1>4, <2>1, CleanDirs DEF Dirs, Torn
  <2>3. Shape'
    BY <1>1, <1>2, <1>3, <1>4, <2>2
    DEF Shape, PhaseIs, Moved, Present, Whole, Sound, Torn
  <2>4. Planned(r)'
    BY <1>1, <1>3, <1>4, <2>1, <2>2
    DEF Planned, PhaseIs, Moved, Present, Whole, Sound, Torn
  <2>5. Survives(r = <<Unlink>>)'
    BY <1>1, <1>2, <1>3, <1>4, <2>1, <2>2 DEF Survives, Moved, PhaseIs, Present, Whole, Torn
  <2>6. Numbers'
    BY <1>1, <1>3, <1>4, <2>2 DEF Numbers, Present
  <2> QED
    BY <1>a, <2>2, <2>3, <2>4, <2>5, <2>6
<1>5. CASE Whole("retired") /\ ~Present("final")
           /\ Torn("stage") /\ t = <<Remove("stage"), Rename, Unlink>>
  <2>1. Head(todo[p]) = Remove("stage") /\ r = <<Rename, Unlink>>
    BY <1>a, <1>5, Ahead
  <2>2. /\ dir'["stage"] = None
        /\ dir'["final"] = dir["final"] /\ dir'["retired"] = dir["retired"]
        /\ dir' \in [Dirs -> Artifacts \cup {None}]
    BY <1>1, <1>5, <2>1, CleanDirs DEF Dirs, Torn
  <2>3. Shape'
    BY <1>1, <1>2, <1>3, <1>5, <2>2
    DEF Shape, PhaseIs, Moved, Present, Whole, Sound, Torn
  <2>4. Planned(r)'
    BY <1>1, <1>3, <1>5, <2>1, <2>2
    DEF Planned, PhaseIs, Moved, Present, Whole, Sound, Torn
  <2>5. Survives(r = <<Unlink>>)'
    BY <1>1, <1>2, <1>3, <1>5, <2>1, <2>2 DEF Survives, Moved, PhaseIs, Present, Whole, Torn
  <2>6. Numbers'
    BY <1>1, <1>3, <1>5, <2>2 DEF Numbers, Present
  <2> QED
    BY <1>a, <2>2, <2>3, <2>4, <2>5, <2>6
<1>6. CASE Whole("retired") /\ ~Present("final")
           /\ ~Present("stage") /\ t = <<Rename, Unlink>>
  <2>1. Head(todo[p]) = Rename /\ r = <<Unlink>>
    BY <1>a, <1>6, Ahead
  <2>2. /\ dir'["final"] = dir["retired"] /\ dir'["retired"] = None
        /\ dir'["stage"] = dir["stage"]
        /\ dir' \in [Dirs -> Artifacts \cup {None}]
    BY <1>1, <1>6, <2>1, CleanDirs DEF Dirs, Torn
  <2>3. Shape'
    BY <1>1, <1>2, <1>3, <1>6, <2>2
    DEF Shape, PhaseIs, Moved, Present, Whole, Sound, Torn
  <2>4. Planned(r)'
    BY <1>1, <1>3, <1>6, <2>1, <2>2
    DEF Planned, PhaseIs, Moved, Present, Whole, Sound, Torn
  <2>5. Survives(r = <<Unlink>>)'
    BY <1>1, <1>2, <1>3, <1>6, <2>1, <2>2 DEF Survives, Moved, PhaseIs, Present, Whole, Torn
  <2>6. Numbers'
    BY <1>1, <1>3, <1>6, <2>2 DEF Numbers, Present
  <2> QED
    BY <1>a, <2>2, <2>3, <2>4, <2>5, <2>6
<1>7. CASE Whole("final") /\ ~Present("stage") /\ PhaseIs("COMMITTED")
           /\ Present("retired") /\ t = <<Tear("retired"), Remove("retired"), Unlink>>
  <2>1. Head(todo[p]) = Tear("retired") /\ r = <<Remove("retired"), Unlink>>
    BY <1>a, <1>7, Ahead
  <2>2. /\ Torn("retired")' /\ dir'["retired"].build = dir["retired"].build
        /\ dir'["final"] = dir["final"] /\ dir'["stage"] = dir["stage"]
        /\ dir' \in [Dirs -> Artifacts \cup {None}]
    BY <1>1, <1>7, <2>1, CleanDirs DEF Dirs, Torn
  <2>3. Shape'
    BY <1>1, <1>2, <1>3, <1>7, <2>2
    DEF Shape, PhaseIs, Moved, Present, Whole, Sound, Torn
  <2>4. Planned(r)'
    BY <1>1, <1>3, <1>7, <2>1, <2>2
    DEF Planned, PhaseIs, Moved, Present, Whole, Sound, Torn
  <2>5. Survives(r = <<Unlink>>)'
    BY <1>1, <1>2, <1>3, <1>7, <2>1, <2>2 DEF Survives, Moved, PhaseIs, Present, Whole, Torn
  <2>6. Numbers'
    BY <1>1, <1>3, <1>7, <2>2 DEF Numbers, Present
  <2> QED
    BY <1>a, <2>2, <2>3, <2>4, <2>5, <2>6
<1>8. CASE Whole("final") /\ ~Present("stage") /\ PhaseIs("COMMITTED")
           /\ Torn("retired") /\ t = <<Remove("retired"), Unlink>>
  <2>1. Head(todo[p]) = Remove("retired") /\ r = <<Unlink>>
    BY <1>a, <1>8, Ahead
  <2>2. /\ dir'["retired"] = None
        /\ dir'["final"] = dir["final"] /\ dir'["stage"] = dir["stage"]
        /\ dir' \in [Dirs -> Artifacts \cup {None}]
    BY <1>1, <1>8, <2>1, CleanDirs DEF Dirs, Torn
  <2>3. Shape'
    BY <1>1, <1>2, <1>3, <1>8, <2>2
    DEF Shape, PhaseIs, Moved, Present, Whole, Sound, Torn
  <2>4. Planned(r)'
    BY <1>1, <1>3, <1>8, <2>1, <2>2
    DEF Planned, PhaseIs, Moved, Present, Whole, Sound, Torn
  <2>5. Survives(r = <<Unlink>>)'
    BY <1>1, <1>2, <1>3, <1>8, <2>1, <2>2 DEF Survives, Moved, PhaseIs, Present, Whole, Torn
  <2>6. Numbers'
    BY <1>1, <1>3, <1>8, <2>2 DEF Numbers, Present
  <2> QED
    BY <1>a, <2>2, <2>3, <2>4, <2>5, <2>6
<1>9. CASE Whole("retired") /\ ~Present("stage") /\ Moved /\ ~PhaseIs("COMMITTED")
           /\ Present("final") /\ t = <<Tear("final"), Remove("final"), Rename, Unlink>>
  <2>1. Head(todo[p]) = Tear("final") /\ r = <<Remove("final"), Rename, Unlink>>
    BY <1>a, <1>9, Ahead
  <2>2. /\ Torn("final")' /\ dir'["final"].build = dir["final"].build
        /\ dir'["stage"] = dir["stage"] /\ dir'["retired"] = dir["retired"]
        /\ dir' \in [Dirs -> Artifacts \cup {None}]
    BY <1>1, <1>9, <2>1, CleanDirs DEF Dirs, Torn
  <2>3. Shape'
    BY <1>1, <1>2, <1>3, <1>9, <2>2
    DEF Shape, PhaseIs, Moved, Present, Whole, Sound, Torn
  <2>4. Planned(r)'
    BY <1>1, <1>3, <1>9, <2>1, <2>2
    DEF Planned, PhaseIs, Moved, Present, Whole, Sound, Torn
  <2>5. Survives(r = <<Unlink>>)'
    BY <1>1, <1>2, <1>3, <1>9, <2>1, <2>2 DEF Survives, Moved, PhaseIs, Present, Whole, Torn
  <2>6. Numbers'
    BY <1>1, <1>3, <1>9, <2>2 DEF Numbers, Present
  <2> QED
    BY <1>a, <2>2, <2>3, <2>4, <2>5, <2>6
<1>10. CASE Whole("retired") /\ ~Present("stage") /\ Moved /\ ~PhaseIs("COMMITTED")
           /\ Torn("final") /\ t = <<Remove("final"), Rename, Unlink>>
  <2>1. Head(todo[p]) = Remove("final") /\ r = <<Rename, Unlink>>
    BY <1>a, <1>10, Ahead
  <2>2. /\ dir'["final"] = None
        /\ dir'["stage"] = dir["stage"] /\ dir'["retired"] = dir["retired"]
        /\ dir' \in [Dirs -> Artifacts \cup {None}]
    BY <1>1, <1>10, <2>1, CleanDirs DEF Dirs, Torn
  <2>3. Shape'
    BY <1>1, <1>2, <1>3, <1>10, <2>2
    DEF Shape, PhaseIs, Moved, Present, Whole, Sound, Torn
  <2>4. Planned(r)'
    BY <1>1, <1>3, <1>10, <2>1, <2>2
    DEF Planned, PhaseIs, Moved, Present, Whole, Sound, Torn
  <2>5. Survives(r = <<Unlink>>)'
    BY <1>1, <1>2, <1>3, <1>10, <2>1, <2>2 DEF Survives, Moved, PhaseIs, Present, Whole, Torn
  <2>6. Numbers'
    BY <1>1, <1>3, <1>10, <2>2 DEF Numbers, Present
  <2> QED
    BY <1>a, <2>2, <2>3, <2>4, <2>5, <2>6
<1>11. CASE Sound("final") /\ ~Present("retired")
           /\ Present("stage") /\ t = <<Tear("stage"), Remove("stage"), Unlink>>
  <2>1. Head(todo[p]) = Tear("stage") /\ r = <<Remove("stage"), Unlink>>
    BY <1>a, <1>11, Ahead
  <2>2. /\ Torn("stage")' /\ dir'["stage"].build = dir["stage"].build
        /\ dir'["final"] = dir["final"] /\ dir'["retired"] = dir["retired"]
        /\ dir' \in [Dirs -> Artifacts \cup {None}]
    BY <1>1, <1>11, <2>1, CleanDirs DEF Dirs, Torn
  <2>3. Shape'
    BY <1>1, <1>2, <1>3, <1>11, <2>2
    DEF Shape, PhaseIs, Moved, Present, Whole, Sound, Torn
  <2>4. Planned(r)'
    BY <1>1, <1>3, <1>11, <2>1, <2>2
    DEF Planned, PhaseIs, Moved, Present, Whole, Sound, Torn
  <2>5. Survives(r = <<Unlink>>)'
    BY <1>1, <1>2, <1>3, <1>11, <2>1, <2>2 DEF Survives, Moved, PhaseIs, Present, Whole, Torn
  <2>6. Numbers'
    BY <1>1, <1>3, <1>11, <2>2 DEF Numbers, Present
  <2> QED
    BY <1>a, <2>2, <2>3, <2>4, <2>5, <2>6
<1>12. CASE Sound("final") /\ ~Present("retired")
           /\ Torn("stage") /\ t = <<Remove("stage"), Unlink>>
  <2>1. Head(todo[p]) = Remove("stage") /\ r = <<Unlink>>
    BY <1>a, <1>12, Ahead
  <2>2. /\ dir'["stage"] = None
        /\ dir'["final"] = dir["final"] /\ dir'["retired"] = dir["retired"]
        /\ dir' \in [Dirs -> Artifacts \cup {None}]
    BY <1>1, <1>12, <2>1, CleanDirs DEF Dirs, Torn
  <2>3. Shape'
    BY <1>1, <1>2, <1>3, <1>12, <2>2
    DEF Shape, PhaseIs, Moved, Present, Whole, Sound, Torn
  <2>4. Planned(r)'
    BY <1>1, <1>3, <1>12, <2>1, <2>2
    DEF Planned, PhaseIs, Moved, Present, Whole, Sound, Torn
  <2>5. Survives(r = <<Unlink>>)'
    BY <1>1, <1>2, <1>3, <1>12, <2>1, <2>2 DEF Survives, Moved, PhaseIs, Present, Whole, Torn
  <2>6. Numbers'
    BY <1>1, <1>3, <1>12, <2>2 DEF Numbers, Present
  <2> QED
    BY <1>a, <2>2, <2>3, <2>4, <2>5, <2>6
<1>13. CASE ~Present("stage") /\ ~Present("retired") /\ Moved /\ (PhaseIs("COMMITTED") => cut)
           /\ Present("final") /\ t = <<Tear("final"), Remove("final"), Unlink>>
  <2>1. Head(todo[p]) = Tear("final") /\ r = <<Remove("final"), Unlink>>
    BY <1>a, <1>13, Ahead
  <2>2. /\ Torn("final")' /\ dir'["final"].build = dir["final"].build
        /\ dir'["stage"] = dir["stage"] /\ dir'["retired"] = dir["retired"]
        /\ dir' \in [Dirs -> Artifacts \cup {None}]
    BY <1>1, <1>13, <2>1, CleanDirs DEF Dirs, Torn
  <2>3. Shape'
    BY <1>1, <1>2, <1>3, <1>13, <2>2
    DEF Shape, PhaseIs, Moved, Present, Whole, Sound, Torn
  <2>4. Planned(r)'
    BY <1>1, <1>3, <1>13, <2>1, <2>2
    DEF Planned, PhaseIs, Moved, Present, Whole, Sound, Torn
  <2>5. Survives(r = <<Unlink>>)'
    BY <1>1, <1>2, <1>3, <1>13, <2>1, <2>2 DEF Survives, Moved, PhaseIs, Present, Whole, Torn
  <2>6. Numbers'
    BY <1>1, <1>3, <1>13, <2>2 DEF Numbers, Present
  <2> QED
    BY <1>a, <2>2, <2>3, <2>4, <2>5, <2>6
<1>14. CASE ~Present("stage") /\ ~Present("retired") /\ Moved /\ (PhaseIs("COMMITTED") => cut)
           /\ Torn("final") /\ t = <<Remove("final"), Unlink>>
  <2>1. Head(todo[p]) = Remove("final") /\ r = <<Unlink>>
    BY <1>a, <1>14, Ahead
  <2>2. /\ dir'["final"] = None
        /\ dir'["stage"] = dir["stage"] /\ dir'["retired"] = dir["retired"]
        /\ dir' \in [Dirs -> Artifacts \cup {None}]
    BY <1>1, <1>14, <2>1, CleanDirs DEF Dirs, Torn
  <2>3. Shape'
    BY <1>1, <1>2, <1>3, <1>14, <2>2
    DEF Shape, PhaseIs, Moved, Present, Whole, Sound, Torn
  <2>4. Planned(r)'
    BY <1>1, <1>3, <1>14, <2>1, <2>2
    DEF Planned, PhaseIs, Moved, Present, Whole, Sound, Torn
  <2>5. Survives(r = <<Unlink>>)'
    BY <1>1, <1>2, <1>3, <1>14, <2>1, <2>2 DEF Survives, Moved, PhaseIs, Present, Whole, Torn
  <2>6. Numbers'
    BY <1>1, <1>3, <1>14, <2>2 DEF Numbers, Present
  <2> QED
    BY <1>a, <2>2, <2>3, <2>4, <2>5, <2>6
<1>15. t # <<Unlink>>
  BY <1>1, LongPlan
<1> QED
  BY <1>1, <1>4, <1>5, <1>6, <1>7, <1>8, <1>9, <1>10, <1>11, <1>12, <1>13, <1>14, <1>15 DEF Planned

LEMMA CleanKeeps ==
  ASSUME IInv, NEW p \in Procs, Clean(p)
  PROVE  IInv'
<1>a. PICK t : t = todo[p]
  OBVIOUS
<1>b. PICK r : r = Tail(t)
  OBVIOUS
<1>1. TypeOK /\ Len(t) > 1 /\ t # <<>> /\ journal # None
  BY <1>a, LongPlan DEF IInv, Clean, Plans
<1>2. /\ dir' \in [Dirs -> Artifacts \cup {None}]
      /\ Shape' /\ Planned(r)' /\ Numbers' /\ Survives(r = <<Unlink>>)'
  BY <1>a, <1>b, CleanFits
<1>3. r \in Seq(Phrases)
  BY <1>a, <1>b, <1>1 DEF TypeOK, Phrases
<1>4. /\ UNCHANGED <<journal, release, owner, pc, built, receipts, faults, cut>>
      /\ todo' = [todo EXCEPT ![p] = r]
  BY <1>a, <1>b DEF Clean
<1>5. pc[p] \in {"open", "close"} /\ owner = p
  BY <1>a, <1>1 DEF IInv, Locked
<1>6. Goto(p, pc[p])
  BY <1>1, <1>4 DEF Goto, TypeOK
<1> QED
  BY <1>1, <1>2, <1>3, <1>4, <1>5, <1>6, OtherKeeps DEF TypeOK, Journals

\* The end of a recovery: nothing but a sound final directory is left.
LEMMA SettleKeeps ==
  ASSUME IInv, NEW p \in Procs, Settle(p)
  PROVE  IInv'
<1>a. PICK t : t = todo[p]
  OBVIOUS
<1>1. TypeOK /\ Shape /\ Numbers /\ Len(t) = 1 /\ Planned(t) /\ journal # None /\ t # <<>>
  <2>1. Len(t) = 1
    BY <1>a DEF Settle
  <2>2. t # <<>>
    <3>1. Len(<<>>) = 0 /\ 0 # 1
      OBVIOUS
    <3> QED
      BY <2>1, <3>1, Zenon
  <2> QED
    BY <1>a, <2>1, <2>2 DEF IInv, Numbered, Plans
<1>2. t = <<Unlink>> /\ ~Present("stage") /\ ~Present("retired") /\ Sound("final")
  <2>1. \A x, y : Len(<<x, y>>) # 1
    OBVIOUS
  <2>2. \A x, y, z : Len(<<x, y, z>>) # 1
    OBVIOUS
  <2>3. \A x, y, z, w : Len(<<x, y, z, w>>) # 1
    OBVIOUS
  <2> QED
    BY <1>1, <2>1, <2>2, <2>3, Zenon DEF Planned
<1>3. pc[p] \in {"open", "close"} /\ owner = p
  BY <1>a, <1>1 DEF IInv, Locked
<1>4. /\ UNCHANGED <<dir, release, built, receipts, faults, cut>>
      /\ todo' = [todo EXCEPT ![p] = <<>>]
      /\ Recovered(p) /\ journal' = None
  BY <1>2 DEF Settle, Sound
<1>5. \E l \in {"begin", "idle"} : Goto(p, l) /\ owner' = IF l = "idle" THEN None ELSE p
  BY <1>3, <1>4 DEF Recovered, Leave
<1>6. ~cut /\ receipts # {} => Whole("final")
  BY <1>2 DEF IInv, Kept, Survives, Whole
<1>7. Shape' /\ Survives(<<>> = <<Unlink>>)'
  BY <1>2, <1>4, <1>6 DEF Shape, Survives, PhaseIs, Moved, Present, Whole, Sound
<1>8. Numbers'
  BY <1>1, <1>4 DEF Numbers, Present
<1>9. <<>> \in Seq(Phrases)
  OBVIOUS
<1> QED
  BY <1>1, <1>3, <1>4, <1>5, <1>7, <1>8, <1>9, OtherKeeps DEF TypeOK, Journals

\* A sequence with one more element.
LEMMA OneMore ==
  ASSUME NEW S, NEW s \in Seq(S), NEW e \in S, NEW t \in Seq(S),
         Len(t) = Len(s) + 1, t[Len(t)] = e, \A i \in 1 .. Len(s) : t[i] = s[i]
  PROVE  s \o <<e>> = t
<1> DEFINE u == s \o <<e>>
<1>1. u \in Seq(S) /\ Len(u) = Len(t)
  OBVIOUS
<1>2. \A i \in 1 .. Len(u) : u[i] = t[i]
  OBVIOUS
<1> HIDE DEF u
<1>3. u = t
  BY <1>1, <1>2, SeqEqual
<1> QED
  BY <1>3 DEF u

\* How plans are put together.
LEMMA Joined ==
  ASSUME NEW S, NEW a \in S, NEW b \in S, NEW c \in S, NEW d \in S
  PROVE  /\ (<<a, b>> \o <<c>>) \o <<d>> = <<a, b, c, d>>
         /\ (<<>> \o <<c>>) \o <<d>> = <<c, d>>
         /\ <<a, b>> \o <<d>> = <<a, b, d>>
         /\ <<>> \o <<d>> = <<d>>
<1>1. <<a, b>> \o <<c>> = <<a, b, c>>
  <2>1. <<a, b>> \in Seq(S) /\ <<a, b, c>> \in Seq(S)
    OBVIOUS
  <2>2. Len(<<a, b, c>>) = Len(<<a, b>>) + 1 /\ <<a, b, c>>[Len(<<a, b, c>>)] = c
    OBVIOUS
  <2>3. \A i \in 1 .. Len(<<a, b>>) : <<a, b, c>>[i] = <<a, b>>[i]
    OBVIOUS
  <2> QED
    BY <2>1, <2>2, <2>3, OneMore, Zenon
<1>2. <<a, b, c>> \o <<d>> = <<a, b, c, d>>
  <2>1. <<a, b, c>> \in Seq(S) /\ <<a, b, c, d>> \in Seq(S)
    OBVIOUS
  <2>2. Len(<<a, b, c, d>>) = Len(<<a, b, c>>) + 1 /\ <<a, b, c, d>>[Len(<<a, b, c, d>>)] = d
    OBVIOUS
  <2>3. \A i \in 1 .. Len(<<a, b, c>>) : <<a, b, c, d>>[i] = <<a, b, c>>[i]
    OBVIOUS
  <2> QED
    BY <2>1, <2>2, <2>3, OneMore, Zenon
<1>3. <<>> \o <<c>> = <<c>>
  OBVIOUS
<1>4. <<c>> \o <<d>> = <<c, d>>
  <2>1. <<c>> \in Seq(S) /\ <<c, d>> \in Seq(S)
    OBVIOUS
  <2>2. Len(<<c, d>>) = Len(<<c>>) + 1 /\ <<c, d>>[Len(<<c, d>>)] = d
    OBVIOUS
  <2>3. \A i \in 1 .. Len(<<c>>) : <<c, d>>[i] = <<c>>[i]
    OBVIOUS
  <2> QED
    BY <2>1, <2>2, <2>3, OneMore, Zenon
<1>5. <<a, b>> \o <<d>> = <<a, b, d>>
  <2>1. <<a, b>> \in Seq(S) /\ <<a, b, d>> \in Seq(S)
    OBVIOUS
  <2>2. Len(<<a, b, d>>) = Len(<<a, b>>) + 1 /\ <<a, b, d>>[Len(<<a, b, d>>)] = d
    OBVIOUS
  <2>3. \A i \in 1 .. Len(<<a, b>>) : <<a, b, d>>[i] = <<a, b>>[i]
    OBVIOUS
  <2> QED
    BY <2>1, <2>2, <2>3, OneMore, Zenon
<1>6. <<>> \o <<d>> = <<d>>
  OBVIOUS
<1> QED
  BY <1>1, <1>2, <1>3, <1>4, <1>5, <1>6, Zenon

LEMMA PlanWords ==
  ASSUME NEW a \in Phrases, NEW b \in Phrases, NEW c \in Phrases, NEW d \in Phrases
  PROVE  /\ <<a, b, c, d>> \in Seq(Phrases) /\ <<a, b, c, d>> # <<>>
         /\ <<a, b, d>> \in Seq(Phrases) /\ <<a, b, d>> # <<>>
         /\ <<c, d>> \in Seq(Phrases) /\ <<c, d>> # <<>>
         /\ <<d>> \in Seq(Phrases) /\ <<d>> # <<>>
  OBVIOUS

LEMMA Plans4 ==
  ASSUME NEW d \in Dirs
  PROVE  /\ Present(d) =>
              /\ (Drop(d) \o Restore) \o <<Unlink>>
                   = <<Tear(d), Remove(d), Rename, Unlink>>
              /\ Drop(d) \o <<Unlink>> = <<Tear(d), Remove(d), Unlink>>
         /\ ~Present(d) =>
              /\ (Drop(d) \o Restore) \o <<Unlink>> = <<Rename, Unlink>>
              /\ Drop(d) \o <<Unlink>> = <<Unlink>>
         /\ <<>> \o <<Unlink>> = <<Unlink>>
         /\ <<Tear(d), Remove(d), Rename, Unlink>> \in Seq(Phrases) \ {<<>>}
         /\ <<Tear(d), Remove(d), Unlink>> \in Seq(Phrases) \ {<<>>}
         /\ <<Rename, Unlink>> \in Seq(Phrases) \ {<<>>}
         /\ <<Unlink>> \in Seq(Phrases) \ {<<>>}
<1>1. Restore = <<Rename>>
  BY DEF Restore, Rename
<1>2. /\ Present(d) => Drop(d) = <<Tear(d), Remove(d)>>
      /\ ~Present(d) => Drop(d) = <<>>
  BY DEF Drop, Tear, Remove
<1>3. Tear(d) \in Phrases /\ Remove(d) \in Phrases /\ Rename \in Phrases /\ Unlink \in Phrases
  BY PhraseTypes
<1>4. /\ (<<Tear(d), Remove(d)>> \o <<Rename>>) \o <<Unlink>>
           = <<Tear(d), Remove(d), Rename, Unlink>>
      /\ (<<>> \o <<Rename>>) \o <<Unlink>> = <<Rename, Unlink>>
      /\ <<Tear(d), Remove(d)>> \o <<Unlink>> = <<Tear(d), Remove(d), Unlink>>
      /\ <<>> \o <<Unlink>> = <<Unlink>>
  BY <1>3, Joined
<1>5. /\ <<Tear(d), Remove(d), Rename, Unlink>> \in Seq(Phrases) \ {<<>>}
      /\ <<Tear(d), Remove(d), Unlink>> \in Seq(Phrases) \ {<<>>}
      /\ <<Rename, Unlink>> \in Seq(Phrases) \ {<<>>}
      /\ <<Unlink>> \in Seq(Phrases) \ {<<>>}
  BY <1>3, PlanWords
<1> QED
  BY <1>1, <1>2, <1>4, <1>5, Zenon

\* The plan of a recovery that is not refused, and that could read the copies
\* it falls back on.
LEMMA PlanFits ==
  ASSUME IInv, Survives(FALSE), ~Refused, journal # None, NEW readable \in BOOLEAN,
         FallsBack => readable, cut' = (cut \/ ~readable),
         UNCHANGED <<dir, journal, receipts>>,
         NEW t, t = Plan(Whole("final") /\ readable) \o <<Unlink>>
  PROVE  t \in Seq(Phrases) /\ t # <<>> /\ Planned(t)'
<1>a. PICK v : v = (Whole("final") /\ readable)
  OBVIOUS
<1>b. PICK s : s = Plan(v)
  OBVIOUS
<1>1. t = s \o <<Unlink>>
  BY <1>a, <1>b
<1>2. /\ Present("retired") => Whole("retired")
      /\ ~(Present("retired") /\ Present("final") /\ Present("stage"))
      /\ Present("stage") => Sound("final")
  BY DEF Refused, Sound
<1>3. Shape
  BY DEF IInv
<1>7. "final" \in Dirs /\ "stage" \in Dirs /\ "retired" \in Dirs
  BY DEF Dirs
<1>8. CASE Present("retired") /\ ~Present("final")
  <2>1. s = Drop("stage") \o Restore
    BY <1>b, <1>8 DEF Plan
  <2>2. \/ Present("stage") /\ t = <<Tear("stage"), Remove("stage"), Rename, Unlink>>
        \/ ~Present("stage") /\ t = <<Rename, Unlink>>
    BY <1>1, <1>7, Plans4, <2>1
  <2> QED
    BY <1>2, <1>7, <1>8, <2>2, Plans4 DEF Planned, Present, Whole
<1>9. CASE Present("retired") /\ Present("final")
  <2>1. ~Present("stage") /\ Whole("retired") /\ readable
    BY <1>2, <1>9 DEF FallsBack
  <2>2. Moved
    BY <1>3, <1>9 DEF Shape, IInv, TypeOK, PhaseIs, Moved, Marks
  <2>3. CASE PhaseIs("COMMITTED")
    <3>1. Whole("final")
      BY <1>3, <1>9, <2>3 DEF Shape
    <3>2. s = Drop("retired")
      BY <1>a, <1>b, <1>9, <2>1, <2>3, <3>1 DEF Plan, PhaseIs
    <3>3. t = <<Tear("retired"), Remove("retired"), Unlink>>
      BY <1>1, <1>7, Plans4, <1>9, <3>2
    <3> QED
      BY <1>7, <1>9, <2>1, <2>3, <3>1, <3>3, Plans4 DEF Planned, Present, Whole, PhaseIs
  <2>4. CASE ~PhaseIs("COMMITTED")
    <3>2. s = Drop("final") \o Restore
      BY <1>b, <1>9, <2>4 DEF Plan, PhaseIs
    <3>3. t = <<Tear("final"), Remove("final"), Rename, Unlink>>
      BY <1>1, <1>7, Plans4, <1>9, <3>2
    <3> QED
      BY <1>7, <1>9, <2>1, <2>2, <2>4, <3>3, Plans4
      DEF Planned, Present, Whole, PhaseIs, Moved
  <2> QED
    BY <2>3, <2>4
<1>10. CASE ~Present("retired") /\ Present("stage")
  <2>1. s = Drop("stage")
    BY <1>b, <1>10 DEF Plan
  <2>2. t = <<Tear("stage"), Remove("stage"), Unlink>>
    BY <1>1, <1>7, Plans4, <1>10, <2>1
  <2> QED
    BY <1>2, <1>7, <1>10, <2>2, Plans4 DEF Planned, Present, Whole, Sound
<1>11. CASE ~Present("retired") /\ ~Present("stage")
  <2>1. CASE Moved /\ ~(PhaseIs("COMMITTED") /\ v)
    <3>1. s = Drop("final")
      BY <1>b, <1>11, <2>1 DEF Plan, PhaseIs, Moved
    <3>2. PhaseIs("COMMITTED") => cut'
      BY <1>a, <1>3, <1>11, <2>1 DEF Shape
    <3>3. \/ Present("final") /\ t = <<Tear("final"), Remove("final"), Unlink>>
          \/ ~Present("final") /\ t = <<Unlink>>
      BY <1>1, <1>7, Plans4, <3>1
    <3> QED
      BY <1>7, <1>11, <2>1, <3>2, <3>3, Plans4
      DEF Planned, Present, Whole, Sound, PhaseIs, Moved
  <2>2. CASE ~(Moved /\ ~(PhaseIs("COMMITTED") /\ v))
    <3>1. s = <<>>
      BY <1>b, <1>11, <2>2 DEF Plan, PhaseIs, Moved
    <3>2. Sound("final")
      BY <1>a, <1>3, <2>2 DEF Shape, Sound
    <3>3. t = <<Unlink>>
      BY <1>1, <1>7, Plans4, <3>1
    <3> QED
      BY <1>7, <1>11, <3>2, <3>3, Plans4 DEF Planned, Present, Whole, Sound
  <2> QED
    BY <2>1, <2>2
<1> QED
  BY <1>8, <1>9, <1>10, <1>11

LEMMA RecoverKeeps ==
  ASSUME IInv, NEW p \in Procs, Recover(p)
  PROVE  IInv'
<1>1. /\ pc[p] \in {"open", "close"} /\ todo[p] = <<>>
      /\ UNCHANGED <<dir, journal, release, built, receipts>>
  BY DEF Recover
<1>2. TypeOK /\ Shape /\ Numbers /\ owner = p
  BY <1>1 DEF IInv, Numbered, Locked
<1>3. Survives(FALSE)
  BY <1>1, NotRestored, NothingLeft
<1>4. PICK readable \in {TRUE, faults = MaxFaults} :
         /\ faults' = faults + (IF readable THEN 0 ELSE 1)
         /\ cut' = (cut \/ ~readable)
         /\ IF Refused \/ (FallsBack /\ ~readable)
            THEN Leave(p) /\ UNCHANGED todo
            ELSE IF journal = None
            THEN Recovered(p) /\ UNCHANGED todo
            ELSE /\ todo' = [todo EXCEPT ![p] = Plan(Whole("final") /\ readable)
                                                 \o <<<<"unlink", "journal">>>>]
                 /\ UNCHANGED <<pc, owner>>
  BY DEF Recover
<1>5. readable \in BOOLEAN /\ (~readable => faults # MaxFaults)
  OBVIOUS
<1>6. faults' \in 0 .. MaxFaults /\ cut' \in BOOLEAN
  BY <1>2, <1>4, <1>5, BuildAssumption DEF TypeOK
<1>7. Shape' /\ Numbers' /\ Survives(FALSE)'
  BY <1>1, <1>2, <1>3, <1>4
  DEF Shape, Numbers, Survives, PhaseIs, Moved, Present, Whole, Sound
<1>8. <<>> \in Seq(Phrases)
  OBVIOUS
<1>9. CASE UNCHANGED todo /\ (Leave(p) \/ (Recovered(p) /\ journal = None))
  <2>1. todo' = [todo EXCEPT ![p] = <<>>]
    BY <1>1, <1>2, <1>9 DEF TypeOK
  <2>2. \E l \in {"begin", "idle"} : /\ Goto(p, l) /\ (l = "begin" => journal' = None)
                                     /\ owner' = IF l = "idle" THEN None ELSE p
    BY <1>1, <1>2, <1>9 DEF Recovered, Leave
  <2>3. Survives(<<>> = <<Unlink>>)'
    BY <1>7, NothingLeft
  <2> QED
    BY <1>1, <1>2, <1>6, <1>7, <1>8, <2>1, <2>2, <2>3, OtherKeeps DEF TypeOK, Journals
<1>10. CASE /\ ~Refused /\ (FallsBack => readable) /\ journal # None
            /\ todo' = [todo EXCEPT ![p] = Plan(Whole("final") /\ readable)
                                             \o <<<<"unlink", "journal">>>>]
            /\ UNCHANGED <<pc, owner>>
  <2>1. PICK t : t = Plan(Whole("final") /\ readable) \o <<Unlink>>
    OBVIOUS
  <2>2. todo' = [todo EXCEPT ![p] = t]
    BY <1>10, <2>1 DEF Unlink
  <2>3. t \in Seq(Phrases) /\ t # <<>> /\ Planned(t)'
    BY <1>1, <1>3, <1>4, <1>5, <1>10, <2>1, PlanFits
  <2>4. Survives(t = <<Unlink>>)'
    BY <1>7 DEF Survives
  <2>5. Goto(p, pc[p])
    BY <1>2, <1>10 DEF Goto, TypeOK
  <2>6. /\ owner' = IF pc[p] = "idle" THEN None ELSE p
        /\ journal' # None /\ pc[p] \in {"open", "close"}
        /\ dir' \in [Dirs -> Artifacts \cup {None}] /\ journal' \in Journals \cup {None}
    BY <1>1, <1>2, <1>10 DEF TypeOK, Journals
  <2>7. Shape' /\ Numbers'
    BY <1>7
  <2> QED
    BY <1>1, <1>6, <2>2, <2>3, <2>4, <2>5, <2>6, <2>7, OtherKeeps
<1> QED
  BY <1>4, <1>9, <1>10

-----------------------------------------------------------------------------
(* The theorems. *)

LEMMA Initial == Init => IInv
<1> SUFFICES ASSUME Init PROVE IInv
  OBVIOUS
<1> DEFINE a == [build |-> 0, whole |-> TRUE]
<1>1. a \in Artifacts /\ a # None /\ a.build = 0 /\ a.whole = TRUE
  <2>1. a \in [build : Nat, whole : BOOLEAN]
    OBVIOUS
  <2>2. a # None
    BY <2>1, BuildAssumption
  <2>3. MaxBuilds \in Nat
    BY BuildAssumption
  <2> QED
    BY <2>2, <2>3 DEF Artifacts
<1>2. PICK served \in {None, a} :
          /\ dir = [d \in Dirs |-> IF d = "final" THEN served ELSE None]
          /\ receipts = IF served = None THEN {} ELSE {0}
  BY DEF Init
<1> HIDE DEF a
<1>3. /\ dir["final"] = served /\ dir["stage"] = None /\ dir["retired"] = None
      /\ dir \in [Dirs -> Artifacts \cup {None}]
  BY <1>1, <1>2 DEF Dirs
<1>4. journal = None /\ owner = None /\ built = 0 /\ cut = FALSE
  BY DEF Init
<1>5. \A q \in Procs : pc[q] = "idle" /\ todo[q] = <<>> /\ todo[q] # <<Unlink>>
  BY NothingLeft DEF Init
<1>6. TypeOK
  <2>1. MaxBuilds \in Nat /\ MaxFaults \in Nat /\ MaxUpgrades \in Nat
    BY BuildAssumption
  <2>2. receipts \subseteq 0 .. MaxBuilds
    BY <1>2, <2>1
  <2>3. /\ built \in 0 .. MaxBuilds /\ faults \in 0 .. MaxFaults /\ release \in 0 .. MaxUpgrades
    BY <2>1 DEF Init
  <2>5. cut \in BOOLEAN /\ journal = None /\ owner = None
    BY DEF Init
  <2>6. pc \in [Procs -> Building \cup {"idle", "open", "close"}]
    BY DEF Init
  <2>4. todo \in [Procs -> Seq(Phrases)]
    <3>1. <<>> \in Seq(Phrases)
      OBVIOUS
    <3> QED
      BY <3>1 DEF Init
  <2> QED
    BY <1>3, <2>2, <2>3, <2>4, <2>5, <2>6 DEF TypeOK, Phrases
<1>7. Locked /\ Plans /\ Builds
  BY <1>4, <1>5, BuildAssumption DEF Locked, Plans, Builds, BuildAt
<1>8. Shape
  BY <1>1, <1>2, <1>3, <1>4 DEF Shape, PhaseIs, Moved, Present, Whole, Sound
<1>9. Numbered
  BY <1>1, <1>2, <1>3, <1>4, <1>5 DEF Numbered, Numbers, InstalledAt, Present
<1>10. Kept
  BY <1>1, <1>2, <1>3, <1>4 DEF Kept, Survives, PhaseIs, Present, Whole
<1> QED
  BY <1>6, <1>7, <1>8, <1>9, <1>10 DEF IInv

LEMMA Inductive == IInv /\ [Next]_vars => IInv'
<1> SUFFICES ASSUME IInv, [Next]_vars PROVE IInv'
  OBVIOUS
<1>1. CASE UNCHANGED vars
  BY <1>1, StutterKeeps
<1>2. CASE Upgrade
  BY <1>2, UpgradeKeeps
<1>3. ASSUME NEW p \in Procs, Step(p) \/ Crash(p) PROVE IInv'
  <2>1. CASE Start(p)  BY <2>1, StartKeeps
  <2>2. CASE Recover(p)  BY <2>2, RecoverKeeps
  <2>3. CASE Clean(p)  BY <2>3, CleanKeeps
  <2>4. CASE Settle(p)  BY <2>4, SettleKeeps
  <2>5. CASE Begin(p)  BY <2>5, BeginKeeps
  <2>6. CASE MakeStage(p)  BY <2>6, MakeStageKeeps
  <2>7. CASE Mark(p)  BY <2>7, MarkKeeps
  <2>8. CASE Fill(p)  BY <2>8, FillKeeps
  <2>9. CASE Discard(p)  BY <2>9, DiscardKeeps
  <2>10. CASE Retire(p)  BY <2>10, RetireKeeps
  <2>11. CASE Install(p)  BY <2>11, InstallKeeps
  <2>12. CASE Prune(p)  BY <2>12, PruneKeeps
  <2>13. CASE Finish(p)  BY <2>13, FinishKeeps
  <2>14. CASE Report(p)  BY <2>14, ReportKeeps
  <2>15. CASE Fail(p)  BY <2>15, FailKeeps
  <2>16. CASE Crash(p)  BY <2>16, CrashKeeps
  <2> QED
    BY <1>3, <2>1, <2>2, <2>3, <2>4, <2>5, <2>6, <2>7, <2>8, <2>9, <2>10, <2>11,
       <2>12, <2>13, <2>14, <2>15, <2>16 DEF Step
<1> QED
  BY <1>1, <1>2, <1>3 DEF Next

THEOREM Invariance == Spec => []IInv
  BY Initial, Inductive, PTL DEF Spec

\* Every directory, journal and process has its type in every reachable state,
\* whatever builders, deaths and upgrades there are.
THEOREM TypeCorrect == Spec => []TypeOK
<1>1. IInv => TypeOK
  BY DEF IInv
<1> QED
  BY <1>1, Invariance, PTL

\* When no operation is open only a whole artifact is there to be served, and
\* the copy to fall back on is damaged only once its successor is committed:
\* for any number of builders, builds, deaths and upgrades.
THEOREM Settled == Spec => []SettledIsWhole
<1>1. IInv => SettledIsWhole
  <2> SUFFICES ASSUME IInv PROVE SettledIsWhole
    OBVIOUS
  <2>1. Shape
    BY DEF IInv
  <2>2. ASSUME Present("retired"), ~Whole("retired")
        PROVE  Whole("final") /\ journal.phase = "COMMITTED"
    BY <2>1, <2>2 DEF Shape, Sound, PhaseIs, Moved
  <2> QED
    BY <2>1, <2>2 DEF Shape, Sound, SettledIsWhole
<1> QED
  BY <1>1, Invariance, PTL

\* No death and no recovery brings back an artifact older than one whose build
\* was reported complete.
THEOREM NeverOlder == Spec => []NeverOlderThanReported
<1>1. IInv => NeverOlderThanReported
  BY DEF IInv, Numbered, Numbers, NeverOlderThanReported
<1> QED
  BY <1>1, Invariance, PTL

\* Builds that fail or die, however often, never cost the artifact served
\* before: only the death of a recovery, or one that cannot read it, does.
THEOREM Survival == Spec => []KeptUnlessRecoveryDies
<1>1. IInv => KeptUnlessRecoveryDies
  BY DEF IInv, Kept, Survives, KeptUnlessRecoveryDies
<1> QED
  BY <1>1, Invariance, PTL
=============================================================================
