----------------------------- MODULE PublicBuild -----------------------------
(***************************************************************************)
(* The promotion of a public artifact by scripts/build_public.py: a build  *)
(* is written into a stage directory, the artifact served so far is        *)
(* renamed to a retired directory, the stage is renamed to the final one   *)
(* and the retired copy is removed.  A journal says how far the operation  *)
(* came; the next builder, or the same one on its way out, recovers from   *)
(* it.  Builders are serialized by an operating-system lock that a death   *)
(* releases.                                                               *)
(*                                                                         *)
(* A directory is the number of the build it holds and whether its         *)
(* inventory is exact: one that is being written or removed is not.        *)
(***************************************************************************)
EXTENDS Naturals, Sequences

CONSTANTS
    Procs,        \* the processes that run the builder
    None,         \* no directory, no journal, no owner
    MaxBuilds,    \* bound: builds begun
    MaxFaults,    \* bound: deaths and failed reads
    MaxUpgrades   \* bound: changes of the checked-out commit

VARIABLES
    dir,       \* what "final", "stage" and "retired" hold
    journal,   \* None or the phase and the commit of the operation
    release,   \* the commit of the checkout
    owner,     \* who holds the build lock
    pc,        \* what each process does next
    todo,      \* the steps a recovery has left
    built,     \* builds begun so far
    receipts,  \* builds whose success has been reported
    faults,    \* deaths and failed reads so far
    cut        \* has one of them interrupted or misled a recovery?

vars == <<dir, journal, release, owner, pc, todo, built, receipts, faults, cut>>

Dirs == {"final", "stage", "retired"}
Marks == {"BUILDING", "STAGED", "PRE_SWAP", "PRIOR_MOVED", "PROMOTED", "COMMITTED"}
Building == Marks \cup {"begin", "mkdir", "fill", "discard", "retire", "install",
                        "prune", "finish", "report"}

ASSUME BuildAssumption ==
    /\ MaxBuilds \in Nat /\ MaxFaults \in Nat /\ MaxUpgrades \in Nat
    /\ None \notin Procs
    /\ None \notin [build : Nat, whole : BOOLEAN]
    /\ None \notin [phase : Marks \cup {"INIT"}, release : Nat]

Init ==
    /\ \E served \in {None, [build |-> 0, whole |-> TRUE]} :
          /\ dir = [d \in Dirs |-> IF d = "final" THEN served ELSE None]
          /\ receipts = IF served = None THEN {} ELSE {0}
    /\ journal = None
    /\ release = 0
    /\ owner = None
    /\ pc = [p \in Procs |-> "idle"]
    /\ todo = [p \in Procs |-> <<>>]
    /\ built = 0
    /\ faults = 0
    /\ cut = FALSE

Present(d) == dir[d] # None
Whole(d) == Present(d) /\ dir[d].whole

\* The process goes on at l.
Goto(p, l) == pc' = [pc EXCEPT ![p] = l]

\* It gives up the lock and ends.
Leave(p) == Goto(p, "idle") /\ owner' = None

-----------------------------------------------------------------------------
(* Recovery. *)

\* Mutant of Refused: a stage left half written is refused too.
RefusedTornStage ==
    \/ journal # None /\ journal.release # release
    \/ Present("stage") /\ ~Whole("stage")
    \/ Present("retired") /\ ~Whole("retired")

\* States that recover() refuses: an operation of another commit, leavings
\* without a journal, a damaged copy to fall back on, three directories.
Refused ==
    \/ journal = None /\ (Present("stage") \/ Present("retired"))
    \/ journal # None /\ journal.release # release
    \/ Present("retired") /\ ~Whole("retired")
    \/ Present("retired") /\ Present("final") /\ Present("stage")
    \/ Present("stage") /\ Present("final") /\ ~Whole("final")

\* Recovery relies on a copy of the artifact served before the operation.
FallsBack == Present("retired") \/ (Present("stage") /\ Present("final"))

\* A tree is removed file by file.
Drop(d) == IF Present(d) THEN <<<<"tear", d>>, <<"remove", d>>>> ELSE <<>>
Restore == <<<<"rename", "final">>>>

\* Mutant of Plan: the stage is forgotten when the retired copy comes back.
PlanKeepsStage(verified) ==
    IF Present("retired") /\ ~Present("final") THEN Restore
    ELSE IF Present("retired") THEN Drop("final") \o Restore
    ELSE Drop("stage")

\* Mutant of Plan: the directories of the operation go, the retired one too.
PlanNoFallback(verified) == Drop("stage") \o Drop("retired")

\* The steps recover() takes, for what it reads of the journal and the
\* directories; verified: the final directory passes the candidate's checks.
Plan(verified) ==
    LET keep == journal.phase = "COMMITTED" /\ verified
        moved == journal.phase \in {"PRIOR_MOVED", "PROMOTED", "COMMITTED"}
    IN  CASE Present("retired") /\ ~Present("final") -> Drop("stage") \o Restore
          [] Present("retired") /\ Present("final") ->
                 IF keep THEN Drop("retired") ELSE Drop("final") \o Restore
          [] ~Present("retired") /\ Present("stage") -> Drop("stage")
          [] OTHER -> IF moved /\ ~keep THEN Drop("final") ELSE <<>>

\* Where a process goes once nothing is left to recover: it begins its build,
\* or ends because the recovery was its last act.
Recovered(p) == IF pc[p] = "open"
                THEN Goto(p, "begin") /\ UNCHANGED owner
                ELSE Leave(p)

\* recover() reads the journal and the directories.  A check of a directory
\* that cannot be read, while faults are left, fails as if it were unsafe.
Recover(p) ==
    /\ pc[p] \in {"open", "close"}
    /\ todo[p] = <<>>
    /\ \E readable \in {TRUE, faults = MaxFaults} :
          /\ faults' = faults + (IF readable THEN 0 ELSE 1)
          /\ cut' = (cut \/ ~readable)
          /\ IF Refused \/ (FallsBack /\ ~readable)
             THEN Leave(p) /\ UNCHANGED todo
             ELSE IF journal = None
             THEN Recovered(p) /\ UNCHANGED todo
             ELSE /\ todo' = [todo EXCEPT ![p] = Plan(Whole("final") /\ readable)
                                                  \o <<<<"unlink", "journal">>>>]
                  /\ UNCHANGED <<pc, owner>>
    /\ UNCHANGED <<dir, journal, release, built, receipts>>

\* One step of the plan on the directories.
Clean(p) ==
    /\ Len(todo[p]) > 1
    /\ LET d == Head(todo[p])[2] IN
          dir' = CASE Head(todo[p])[1] = "tear" -> [dir EXCEPT ![d].whole = FALSE]
                   [] Head(todo[p])[1] = "remove" -> [dir EXCEPT ![d] = None]
                   [] OTHER -> [dir EXCEPT !["final"] = dir["retired"],
                                           !["retired"] = None]
    /\ todo' = [todo EXCEPT ![p] = Tail(@)]
    /\ UNCHANGED <<journal, release, owner, pc, built, receipts, faults, cut>>

\* The last step: an unsafe final directory is refused, else the journal goes.
Settle(p) ==
    /\ Len(todo[p]) = 1
    /\ IF Present("final") /\ ~Whole("final")
       THEN Leave(p) /\ UNCHANGED journal
       ELSE Recovered(p) /\ journal' = None
    /\ todo' = [todo EXCEPT ![p] = <<>>]
    /\ UNCHANGED <<dir, release, built, receipts, faults, cut>>

-----------------------------------------------------------------------------
(* The build. *)

\* A builder takes the lock; one that finds it taken ends at once.
Start(p) ==
    /\ pc[p] = "idle"
    /\ owner = None
    /\ owner' = p
    /\ Goto(p, "open")
    /\ UNCHANGED <<dir, journal, release, todo, built, receipts, faults, cut>>

\* begin() writes the journal of a new operation...
Begin(p) ==
    /\ pc[p] = "begin"
    /\ built < MaxBuilds
    /\ IF journal # None \/ Present("stage") \/ Present("retired")
       THEN Goto(p, "close") /\ UNCHANGED <<journal, built>>
       ELSE /\ journal' = [phase |-> "INIT", release |-> release]
            /\ built' = built + 1
            /\ Goto(p, "mkdir")
    /\ UNCHANGED <<dir, release, owner, todo, receipts, faults, cut>>

\* Mutant of MakeStage: the stage takes the number of the build after it.
MakeStageOfNext(p) ==
    /\ pc[p] = "mkdir"
    /\ dir' = [dir EXCEPT !["stage"] = [build |-> built + 1, whole |-> FALSE]]
    /\ Goto(p, "BUILDING")
    /\ UNCHANGED <<journal, release, owner, todo, built, receipts, faults, cut>>

\* ...and makes the stage directory.
MakeStage(p) ==
    /\ pc[p] = "mkdir"
    /\ dir' = [dir EXCEPT !["stage"] = [build |-> built, whole |-> FALSE]]
    /\ Goto(p, "BUILDING")
    /\ UNCHANGED <<journal, release, owner, todo, built, receipts, faults, cut>>

\* Mutant of After: success is reported before the promotion is committed.
AfterReportsEarly(phase) ==
    CASE phase = "BUILDING" -> "fill"
      [] phase = "STAGED" -> "PRE_SWAP"
      [] phase = "PRE_SWAP" -> "retire"
      [] phase = "PRIOR_MOVED" -> "install"
      [] OTHER -> "report"

\* What follows the journal entry of a phase.
After(phase) ==
    CASE phase = "BUILDING" -> "fill"
      [] phase = "STAGED" -> "PRE_SWAP"
      [] phase = "PRE_SWAP" -> "retire"
      [] phase = "PRIOR_MOVED" -> "install"
      [] phase = "PROMOTED" -> "COMMITTED"
      [] phase = "COMMITTED" -> "prune"

\* mark() replaces the journal by one of the next phase.
Mark(p) ==
    /\ pc[p] \in Marks
    /\ IF journal = None
       THEN Goto(p, "close") /\ UNCHANGED journal
       ELSE journal' = [journal EXCEPT !.phase = pc[p]] /\ Goto(p, After(pc[p]))
    /\ UNCHANGED <<dir, release, owner, todo, built, receipts, faults, cut>>

\* The daily finalize and the projections write the artifact, which passes
\* the inventory and the security scan and is publishable.
Fill(p) ==
    /\ pc[p] = "fill"
    /\ Present("stage")
    /\ dir' = [dir EXCEPT !["stage"].whole = TRUE]
    /\ Goto(p, "STAGED")
    /\ UNCHANGED <<journal, release, owner, todo, built, receipts, faults, cut>>

\* An artifact that fails the security scan, or whose commit changed, is
\* removed file by file before the operation is closed.
Discard(p) ==
    /\ pc[p] \in {"STAGED", "discard"}
    /\ IF Whole("stage")
       THEN dir' = [dir EXCEPT !["stage"].whole = FALSE] /\ Goto(p, "discard")
       ELSE dir' = [dir EXCEPT !["stage"] = None] /\ Goto(p, "close")
    /\ UNCHANGED <<journal, release, owner, todo, built, receipts, faults, cut>>

\* The served artifact, if there is one, is checked and set aside.
Retire(p) ==
    /\ pc[p] = "retire"
    /\ IF Present("final") /\ ~Whole("final")
       THEN Goto(p, "close") /\ UNCHANGED dir
       ELSE /\ dir' = IF Present("final")
                      THEN [dir EXCEPT !["retired"] = dir["final"], !["final"] = None]
                      ELSE dir
            /\ Goto(p, "PRIOR_MOVED")
    /\ UNCHANGED <<journal, release, owner, todo, built, receipts, faults, cut>>

\* The stage becomes the served artifact.
Install(p) ==
    /\ pc[p] = "install"
    /\ dir' = [dir EXCEPT !["final"] = dir["stage"], !["stage"] = None]
    /\ Goto(p, "PROMOTED")
    /\ UNCHANGED <<journal, release, owner, todo, built, receipts, faults, cut>>

\* commit() removes the retired copy, file by file...
Prune(p) ==
    /\ pc[p] = "prune"
    /\ IF Whole("retired")
       THEN dir' = [dir EXCEPT !["retired"].whole = FALSE] /\ UNCHANGED pc
       ELSE dir' = [dir EXCEPT !["retired"] = None] /\ Goto(p, "finish")
    /\ UNCHANGED <<journal, release, owner, todo, built, receipts, faults, cut>>

\* ...and the journal, once nothing but the final directory is left.
Finish(p) ==
    /\ pc[p] = "finish"
    /\ IF Present("stage") \/ Present("retired") \/ ~Whole("final")
       THEN Goto(p, "close") /\ UNCHANGED journal
       ELSE journal' = None /\ Goto(p, "report")
    /\ UNCHANGED <<dir, release, owner, todo, built, receipts, faults, cut>>

\* The notification and the private COMPLETE result.
Report(p) ==
    /\ pc[p] = "report"
    /\ receipts' = receipts \cup {built}
    /\ Goto(p, "close")
    /\ UNCHANGED <<dir, journal, release, owner, todo, built, faults, cut>>

\* A build that is not publishable, or a step of which raises: the builder
\* closes its operation.
Fail(p) ==
    /\ pc[p] \in Building
    /\ Goto(p, "close")
    /\ UNCHANGED <<dir, journal, release, owner, todo, built, receipts, faults, cut>>

-----------------------------------------------------------------------------
(* The environment. *)

\* A process dies; the operating system drops its lock.  An error raised by a
\* step of a recovery ends the process in the same way.
Crash(p) ==
    /\ pc[p] # "idle"
    /\ faults < MaxFaults
    /\ faults' = faults + 1
    /\ cut' = (cut \/ todo[p] # <<>>)
    /\ todo' = [todo EXCEPT ![p] = <<>>]
    /\ Leave(p)
    /\ UNCHANGED <<dir, journal, release, built, receipts>>

\* The checkout moves to another commit, or back.  A change during a build is
\* noticed by that build (Fail) or comes too late to matter to it.
Upgrade ==
    /\ owner = None
    /\ MaxUpgrades > 0
    /\ release' \in (0 .. MaxUpgrades) \ {release}
    /\ UNCHANGED <<dir, journal, owner, pc, todo, built, receipts, faults, cut>>

Step(p) ==
    \/ Start(p) \/ Recover(p) \/ Clean(p) \/ Settle(p)
    \/ Begin(p) \/ MakeStage(p) \/ Mark(p) \/ Fill(p) \/ Discard(p) \/ Retire(p)
    \/ Install(p) \/ Prune(p) \/ Finish(p) \/ Report(p) \/ Fail(p)

Next == Upgrade \/ \E p \in Procs : Step(p) \/ Crash(p)

Spec == Init /\ [][Next]_vars

\* A started builder runs on, and the scheduler starts one every day.
LiveSpec == Spec /\ \A p \in Procs : WF_vars(Step(p))

-----------------------------------------------------------------------------
(* Properties. *)

Artifacts == [build : 0 .. MaxBuilds, whole : BOOLEAN]

\* Type invariant: what the directories, the journal and the processes hold.
TypeOK ==
    /\ dir \in [Dirs -> Artifacts \cup {None}]
    /\ journal \in [phase : Marks \cup {"INIT"}, release : 0 .. MaxUpgrades] \cup {None}
    /\ release \in 0 .. MaxUpgrades
    /\ owner \in Procs \cup {None}
    /\ pc \in [Procs -> Building \cup {"idle", "open", "close"}]
    /\ todo \in [Procs -> Seq({"tear", "remove", "rename", "unlink"}
                                 \X (Dirs \cup {"journal"}))]
    /\ built \in 0 .. MaxBuilds
    /\ receipts \subseteq 0 .. MaxBuilds
    /\ faults \in 0 .. MaxFaults
    /\ cut \in BOOLEAN

\* When no operation is open, whatever failed or died before, what is served
\* is a whole artifact and nothing of an operation is left beside it; and the
\* directory an operation falls back on is only ever damaged once the build
\* that replaces it is committed and whole.
SettledIsWhole ==
    /\ journal = None =>
          /\ Present("final") => Whole("final")
          /\ ~Present("stage") /\ ~Present("retired")
    /\ Present("retired") /\ ~Whole("retired") =>
          Whole("final") /\ journal.phase = "COMMITTED"

\* The comment above operation.commit(): no crash restores the artifact before
\* a build whose success was reported, so a reported success is never false.
NeverOlderThanReported ==
    \A b \in receipts, d \in {"final", "retired"} : Present(d) => dir[d].build >= b

\* However often builds fail or die, the artifact served before, or the one
\* that replaces it, survives as a whole copy under the final or the retired
\* name, unless a recovery was itself interrupted or could not read it.
KeptUnlessRecoveryDies ==
    ~cut /\ receipts # {} => Whole("final") \/ Whole("retired")

\* The same without the proviso: a started recovery may be interrupted too.
ServedArtifactKept ==
    receipts # {} => Whole("final") \/ Whole("retired")

\* What no later run of the builder gets past: the journal of another commit,
\* and a retired copy that a death left half removed.
Blocked == journal # None /\ (journal.release # release \/ (Present("retired") /\ ~Whole("retired")))

\* Every interrupted operation is brought to an end by the same or a later
\* run, unless it is one of the two a run refuses.
Converges == (journal # None) ~> (journal = None \/ Blocked)
=============================================================================
