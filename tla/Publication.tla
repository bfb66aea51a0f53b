----------------------------- MODULE Publication -----------------------------
(***************************************************************************)
(* The publication of a built artifact by scripts/publish_vercel_public.ps1*)
(* to the production aliases of a hosting provider.  A dated journal is    *)
(* sealed before the provider is touched (PRE), once every alias serves    *)
(* the promoted clone of the preview (POST) and when both copies of the    *)
(* result are written (COMPLETE).  A later run finds an open journal and   *)
(* finishes it, promotes again under it, or puts the prior aliases back.   *)
(*                                                                         *)
(* One run is modelled: a global lock admits one publisher, and the lock   *)
(* of a dead one is adopted by the next.  Others may move an alias at any  *)
(* time, and the provider may carry out a promotion whose request timed    *)
(* out much later.  A deployment is 0 (served at first), the number of a   *)
(* clone made by a promotion, or Foreign.                                  *)
(***************************************************************************)
EXTENDS Naturals, Sequences, FiniteSets, FiniteSetsExt

CONSTANTS
    Aliases,     \* the production aliases
    Primary,     \* the one a promotion moves by itself
    None,        \* no journal, no result, no clone
    Foreign,     \* a deployment this program knows nothing of
    LastDay,     \* bound: market dates
    MaxClones,   \* bound: promotions the provider carries out
    MaxFaults,   \* bound: deaths, failed steps and lost answers
    MaxMoves     \* bound: aliases moved other than by the run under way

VARIABLES
    alias,     \* the deployment each production alias serves
    clones,    \* the market date whose preview each clone was promoted from
    pending,   \* dates of promotions accepted but not yet carried out
    journal,   \* None or the sealed operation of each date
    result,    \* the state root's result of each date; 0: the runtime's copy
    day,       \* today
    run,       \* the run under way
    faults,    \* deaths, failures and lost answers so far
    moved,     \* such moves so far
    unseen     \* aliases moved so since the run last looked at them

vars == <<alias, clones, pending, journal, result, day, run, faults, moved, unseen>>

Days == 1 .. LastDay
Known == 0 .. MaxClones

\* at: the next step; for: the date worked on; prior: the aliases it found;
\* clone: the deployment it puts live; left: aliases yet to do; look: the one
\* looked at; posted: its journal was POST when it was read; promoted: the provider
\* may have been changed by this run; failed: a rollback step failed; undo:
\* rolling back for a compensation.
Idle == [at |-> "idle", mode |-> "recover", for |-> 0, prior |-> None, clone |-> None,
         left |-> {}, look |-> None, posted |-> FALSE, promoted |-> FALSE, failed |-> FALSE,
         undo |-> FALSE]

\* What the aliases serve, and what is written down of an operation.
Deployments == Known \cup {Foreign}
Results == [for : Days, clone : (1 .. MaxClones) \cup {None}]
Journals == [phase : {"PRE", "POST", "COMPLETE"}, prior : [Aliases -> Known],
             promoted : (1 .. MaxClones) \cup {None}]

ASSUME PublicationAssumption ==
    /\ Primary \in Aliases
    /\ LastDay \in Nat \ {0}
    /\ MaxClones \in Nat /\ MaxFaults \in Nat /\ MaxMoves \in Nat
    /\ None \notin Known \cup Aliases \cup Journals \cup Results \cup {Foreign}
    /\ None \notin [Aliases -> Known]
    /\ Foreign \notin Known

Init ==
    /\ alias = [a \in Aliases |-> 0]
    /\ clones = <<>>
    /\ pending = {}
    /\ journal = [d \in Days |-> None]
    /\ result = [d \in 0 .. LastDay |-> None]
    /\ day = 1
    /\ run = Idle
    /\ faults = 0
    /\ moved = 0
    /\ unseen = {}

Open(d) == journal[d] # None /\ journal[d].phase # "COMPLETE"
Others == {d \in Days \ {day} : Open(d)}
ClonesOf(d) == {c \in DOMAIN clones : clones[c] = d}

\* Mutant of AllServe: only the primary alias is looked at.
PrimaryServes(c) == alias[Primary] = c

\* Every alias serves the deployment c.
AllServe(c) == \A a \in Aliases : alias[a] = c
AtPrior(d) == alias = journal[d].prior

\* The aliases agree on a clone of the journal's preview, the sealed one if
\* the journal names one.
Live(d) ==
    /\ AllServe(alias[Primary])
    /\ alias[Primary] \in IF journal[d].promoted = None THEN ClonesOf(d)
                          ELSE {journal[d].promoted}

Goto(l) == run' = [run EXCEPT !.at = l]
End == run' = Idle
\* A step raises: into the rollback once the provider may have been changed.
Raise == IF run.promoted THEN Goto("caught") ELSE End

-----------------------------------------------------------------------------
(* A run starts. *)

Begin(mode) ==
    /\ run.at = "idle"
    /\ run' = [Idle EXCEPT !.at = "read", !.mode = mode, !.for = day]
    /\ UNCHANGED <<alias, clones, pending, journal, result, day, faults, moved, unseen>>

\* An open journal of an earlier date: a recovery refuses it, a publication
\* compensates it, if there is only one.
Rollover ==
    IF run.mode = "recover" \/ Cardinality(Others) > 1 THEN End
    ELSE run' = [run EXCEPT !.at = "plan", !.for = CHOOSE d \in Others : TRUE,
                            !.undo = TRUE]


\* Today's journal and the aliases decide what the run does.  A retry repeats
\* all but the preview's build, and remembers the phase it found.
Resume ==
    LET compensate == run' = [run EXCEPT !.at = "plan", !.undo = TRUE] IN
    CASE journal[day] = None ->
             IF run.mode = "recover" THEN End ELSE Goto("snapshot")
      [] journal[day] # None /\ Live(day) ->
             run' = [run EXCEPT !.at = IF journal[day].phase = "PRE" THEN "post" ELSE "state",
                                !.clone = alias[Primary]]
      [] journal[day] # None /\ ~Live(day) /\ ~Open(day) -> End
      [] OTHER ->
             IF run.mode = "recover" \/ ~AtPrior(day) THEN compensate
             ELSE run' = [run EXCEPT !.at = "snapshot", !.posted = journal[day].phase = "POST"]

Read ==
    /\ run.at = "read"
    /\ unseen' = {}
    /\ IF Others # {} THEN Rollover ELSE Resume
    /\ UNCHANGED <<alias, clones, pending, journal, result, day, faults, moved>>

-----------------------------------------------------------------------------
(* A publication. *)

\* What the aliases serve is remembered, if all of it is known...
Snapshot ==
    /\ run.at = "snapshot"
    /\ unseen' = {}
    /\ IF \E a \in Aliases : alias[a] = Foreign THEN End
       ELSE run' = [run EXCEPT !.at = "seal", !.prior = alias]
    /\ UNCHANGED <<alias, clones, pending, journal, result, day, faults, moved>>

\* ...and sealed, if it is still served once the preview has been verified; the
\* journal of a retry is replaced, whatever its phase.
SealPre ==
    /\ run.at = "seal"
    /\ unseen' = {}
    /\ IF alias # run.prior THEN End /\ UNCHANGED journal
       ELSE /\ journal' = [journal EXCEPT ![day] =
                   [phase |-> "PRE", prior |-> run.prior, promoted |-> None]]
            /\ Goto("precheck")
    /\ UNCHANGED <<alias, clones, pending, result, day, faults, moved>>

\* After the authorization: the last look before the provider is changed.
Precheck ==
    /\ run.at = "precheck"
    /\ unseen' = {}
    /\ IF alias # run.prior THEN End
       ELSE run' = [run EXCEPT !.at = "promote", !.promoted = TRUE]
    /\ UNCHANGED <<alias, clones, pending, journal, result, day, faults, moved>>

\* The provider makes a production clone of the preview of date d and points
\* the primary alias at it.
CarryOut(d) ==
    /\ Len(clones) < MaxClones
    /\ clones' = Append(clones, d)
    /\ alias' = [alias EXCEPT ![Primary] = Len(clones) + 1]

Promote ==
    /\ run.at = "promote"
    /\ CarryOut(run.for)
    /\ unseen' = unseen \ {Primary}
    /\ Goto("list")
    /\ UNCHANGED <<pending, journal, result, day, faults, moved>>

\* The command fails or times out; the provider has carried the promotion out,
\* may yet do so, or never will, as when the bound on clones is reached.
PromoteFails ==
    /\ run.at = "promote"
    /\ \/ faults < MaxFaults /\ faults' = faults + 1
       \/ Len(clones) = MaxClones /\ UNCHANGED faults
    /\ \/ CarryOut(run.for) /\ unseen' = unseen \ {Primary} /\ UNCHANGED pending
       \/ pending' = pending \cup {run.for} /\ UNCHANGED <<alias, clones, unseen>>
       \/ UNCHANGED <<alias, clones, pending, unseen>>
    /\ Goto("caught")
    /\ UNCHANGED <<journal, result, day, moved>>

\* The newest clone of the preview is looked up and verified.
List ==
    /\ run.at = "list"
    /\ IF ClonesOf(run.for) = {} THEN Raise
       ELSE run' = [run EXCEPT !.at = "assign", !.clone = Max(ClonesOf(run.for)),
                               !.left = Aliases]
    /\ UNCHANGED <<alias, clones, pending, journal, result, day, faults, moved, unseen>>

\* Each alias is pointed at the clone; the answer may be lost.
Assign(a) ==
    /\ run.at = "assign"
    /\ a \in run.left
    /\ alias' = [alias EXCEPT ![a] = run.clone]
    /\ unseen' = unseen \ {a}
    /\ \/ run' = [run EXCEPT !.left = @ \ {a},
                             !.at = IF run.left = {a} THEN "verify" ELSE @]
          /\ UNCHANGED faults
       \/ faults < MaxFaults /\ faults' = faults + 1 /\ Raise
    /\ UNCHANGED <<clones, pending, journal, result, day, moved>>

\* Mutant of Verify: what the aliases serve is looked at and not compared.
VerifyNothing ==
    /\ run.at = "verify"
    /\ unseen' = {}
    /\ Goto("post")
    /\ UNCHANGED <<alias, clones, pending, journal, result, day, faults, moved>>

\* Every alias serves the clone, and the clone is one of the journal's.
Verify ==
    /\ run.at = "verify"
    /\ unseen' = {}
    /\ IF AllServe(run.clone) /\ Live(run.for) THEN Goto("post") ELSE Raise
    /\ UNCHANGED <<alias, clones, pending, journal, result, day, faults, moved>>

\* Mutant of SealPost: the phase is sealed without the deployment.
SealPostUnnamed ==
    /\ run.at = "post"
    /\ journal' = [journal EXCEPT ![run.for].phase = "POST"]
    /\ Goto("state")
    /\ UNCHANGED <<alias, clones, pending, result, day, faults, moved, unseen>>

\* The journal is sealed POST with the deployment now live, unless it was POST
\* when the run read it: by now a retry has replaced it (SealPre).
SealPost ==
    /\ run.at = "post"
    /\ IF ~run.promoted /\ ~Live(run.for) THEN End /\ UNCHANGED journal
       ELSE /\ journal' = IF run.posted THEN journal
                          ELSE [journal EXCEPT ![run.for].phase = "POST",
                                               ![run.for].promoted = run.clone]
            /\ Goto("state")
    /\ UNCHANGED <<alias, clones, pending, result, day, faults, moved, unseen>>

\* The result of a date: the deployment it was verified on; None: compensated.
Result(d, c) == [for |-> d, clone |-> c]

\* The result is written to the state root, then to the runtime.
WriteState ==
    /\ run.at = "state"
    /\ result' = [result EXCEPT ![run.for] = Result(run.for, run.clone)]
    /\ Goto("runtime")
    /\ UNCHANGED <<alias, clones, pending, journal, day, faults, moved, unseen>>

WriteRuntime ==
    /\ run.at = "runtime"
    /\ result' = [result EXCEPT ![0] = Result(run.for, run.clone)]
    /\ Goto("check")
    /\ UNCHANGED <<alias, clones, pending, journal, day, faults, moved, unseen>>

\* The aliases are compared with the journal once more...
Check ==
    /\ run.at = "check"
    /\ unseen' = {}
    /\ IF Live(run.for) THEN Goto("complete") ELSE Raise
    /\ UNCHANGED <<alias, clones, pending, journal, result, day, faults, moved>>

\* ...and the journal is sealed, unless it was; the answer may be lost.  A PRE
\* journal is not: its next phase is POST.
Complete ==
    /\ run.at = "complete"
    /\ IF journal[run.for].phase = "PRE" THEN Raise /\ UNCHANGED <<journal, faults>>
       ELSE /\ journal' = [journal EXCEPT ![run.for].phase = "COMPLETE"]
            /\ \/ End /\ UNCHANGED faults
               \/ faults < MaxFaults /\ faults' = faults + 1 /\ Raise
    /\ UNCHANGED <<alias, clones, pending, result, day, moved, unseen>>

-----------------------------------------------------------------------------
(* Rollback and compensation. *)

\* Mutant of Caught: the journal is not read again.
CaughtRollsBack ==
    /\ run.at = "caught"
    /\ unseen' = {}
    /\ run' = [run EXCEPT !.at = "plan", !.left = {}]
    /\ UNCHANGED <<alias, clones, pending, journal, result, day, faults, moved>>

\* A failure after the provider may have been changed: a journal that is
\* COMPLETE all the same is resolved, any other is rolled back.
Caught ==
    /\ run.at = "caught"
    /\ unseen' = {}
    /\ IF Open(run.for) THEN run' = [run EXCEPT !.at = "plan", !.left = {}]
       ELSE IF Live(run.for) THEN run' = [run EXCEPT !.at = "state", !.promoted = FALSE,
                                               !.clone = alias[Primary]]
       ELSE End
    /\ UNCHANGED <<alias, clones, pending, journal, result, day, faults, moved>>

\* The clones the journal's operation can have put live.
Candidates(d) == IF journal[d].promoted # None THEN {journal[d].promoted} ELSE ClonesOf(d)

\* Nothing is touched if an alias serves neither its prior deployment nor the
\* one candidate; a primary alias still at its prior one has no first pass.
Plan ==
    /\ run.at = "plan"
    /\ unseen' = {}
    /\ LET changed == {a \in Aliases : alias[a] # journal[run.for].prior[a]}
           cands == Candidates(run.for)
       IN  IF changed # {} /\ (Cardinality(cands) # 1 \/ \E a \in changed : alias[a] \notin cands)
           THEN End
           ELSE run' = [run EXCEPT !.at = IF Primary \in changed THEN "primary" ELSE "rollback",
                            !.left = Aliases,
                            !.undo = @ \/ changed = {}, !.failed = FALSE,
                            !.clone = IF changed = {} THEN None ELSE CHOOSE c \in cands : TRUE]
    /\ UNCHANGED <<alias, clones, pending, journal, result, day, faults, moved>>

\* The primary alias comes first, and once more among the others.
Due(a) ==
    /\ a \in run.left
    /\ run.at = "rollback" \/ (run.at = "primary" /\ a = Primary)

\* An alias is done; an error is kept and the next one is tried, but an error
\* in the first pass over the primary alias ends a compensation.
Done(a, error) ==
    IF run.at = "rollback"
    THEN run' = [run EXCEPT !.left = @ \ {a}, !.look = None, !.failed = @ \/ error]
    ELSE IF error /\ run.undo THEN End
    ELSE run' = [run EXCEPT !.at = "rollback", !.look = None, !.failed = error]

\* Mutant of Look: whatever is not the prior deployment is replaced.
LookBlind(a) ==
    /\ Due(a)
    /\ run.look = None
    /\ unseen' = unseen \ {a}
    /\ IF alias[a] = journal[run.for].prior[a] THEN Done(a, FALSE)
       ELSE run' = [run EXCEPT !.look = a]
    /\ UNCHANGED <<alias, clones, pending, journal, result, day, faults, moved>>

\* One alias is looked at again: only the candidate is to be replaced, and the
\* first pass expects nothing else.
Look(a) ==
    /\ Due(a)
    /\ run.look = None
    /\ unseen' = unseen \ {a}
    /\ \E answered \in {TRUE, faults = MaxFaults} :
          /\ faults' = faults + (IF answered THEN 0 ELSE 1)
          /\ IF answered /\ alias[a] = run.clone THEN run' = [run EXCEPT !.look = a]
             ELSE Done(a, ~(/\ answered /\ run.at = "rollback"
                            /\ alias[a] = journal[run.for].prior[a]))
    /\ UNCHANGED <<alias, clones, pending, journal, result, day, moved>>

\* It is set back; the answer may be lost.
Restore ==
    /\ run.look # None
    /\ alias' = [alias EXCEPT ![run.look] = journal[run.for].prior[run.look]]
    /\ unseen' = unseen \ {run.look}
    /\ \E lost \in BOOLEAN :
          /\ lost => faults < MaxFaults
          /\ faults' = faults + (IF lost THEN 1 ELSE 0)
          /\ Done(run.look, lost)
    /\ UNCHANGED <<clones, pending, journal, result, day, moved>>

\* All aliases done: a rollback without errors is followed by a compensation,
\* a compensation by the invalidation of the result.
RolledBack ==
    /\ run.at = "rollback"
    /\ run.left = {}
    /\ unseen' = {}
    /\ IF run.failed \/ (run.undo /\ ~AtPrior(run.for)) THEN End
       ELSE IF run.undo THEN Goto("void state")
       ELSE run' = [run EXCEPT !.at = "plan", !.undo = TRUE]
    /\ UNCHANGED <<alias, clones, pending, journal, result, day, faults, moved>>

\* Both copies of the result are replaced by the compensation's...
VoidState ==
    /\ run.at = "void state"
    /\ result' = [result EXCEPT ![run.for] = Result(run.for, None)]
    /\ Goto("void runtime")
    /\ UNCHANGED <<alias, clones, pending, journal, day, faults, moved, unseen>>

\* ...and there it ends: the expression that would build the COMPENSATED
\* journal, `(if ...)` for `$(if ...)`, raises whatever the journal holds.
VoidRuntime ==
    /\ run.at = "void runtime"
    /\ result' = [result EXCEPT ![0] = Result(run.for, None)]
    /\ End
    /\ UNCHANGED <<alias, clones, pending, journal, day, faults, moved, unseen>>

-----------------------------------------------------------------------------
(* The environment. *)

Publishing == {"promote", "list", "assign", "verify", "post", "state", "runtime",
               "check", "complete"}

\* Any other step fails: a request, a verification, an authorization, a write.
Fault ==
    /\ run.at # "idle"
    /\ faults < MaxFaults
    /\ faults' = faults + 1
    /\ \/ End   \* the run dies
       \/ run.promoted /\ run.at \in Publishing /\ Raise
    /\ UNCHANGED <<alias, clones, pending, journal, result, day, moved, unseen>>

\* Somebody else points an alias elsewhere.
Move(a) ==
    /\ moved < MaxMoves
    /\ moved' = moved + 1
    /\ \E c \in {Foreign} \cup (0 .. Len(clones)) : alias' = [alias EXCEPT ![a] = c]
    /\ unseen' = unseen \cup {a}
    /\ UNCHANGED <<clones, pending, journal, result, day, run, faults>>

\* A promotion that was given up is carried out after all.
Late(d) ==
    /\ d \in pending
    /\ moved < MaxMoves
    /\ moved' = moved + 1
    /\ CarryOut(d)
    /\ pending' = pending \ {d}
    /\ unseen' = unseen \cup {Primary}
    /\ UNCHANGED <<journal, result, day, run, faults>>

Tomorrow ==
    /\ run.at = "idle"
    /\ day < LastDay
    /\ day' = day + 1
    /\ UNCHANGED <<alias, clones, pending, journal, result, run, faults, moved, unseen>>

Publish ==
    \/ Snapshot \/ SealPre \/ Precheck \/ Promote \/ PromoteFails \/ List
    \/ \E a \in Aliases : Assign(a)
    \/ Verify \/ SealPost \/ WriteState \/ WriteRuntime \/ Check \/ Complete

RollBack ==
    \/ Caught \/ Plan \/ RolledBack \/ VoidState \/ VoidRuntime \/ Restore
    \/ \E a \in Aliases : Look(a)

Step == Read \/ Publish \/ RollBack

Next ==
    \/ Begin("publish") \/ Begin("recover") \/ Step \/ Fault \/ Tomorrow
    \/ \E a \in Aliases : Move(a)
    \/ \E d \in Days : Late(d)

Spec == Init /\ [][Next]_vars

\* A run goes on, and every scheduled finalize starts with a recovery.
LiveSpec == Spec /\ WF_vars(Step) /\ SF_vars(Begin("recover"))

-----------------------------------------------------------------------------
(* Properties. *)

Places == Publishing \cup {"idle", "read", "snapshot", "seal", "precheck", "caught", "plan",
                          "primary", "rollback", "void state", "void runtime"}
Runs == [at : Places, mode : {"publish", "recover"}, for : Days \cup {0},
         prior : [Aliases -> Known] \cup {None}, clone : Deployments \cup {None},
         left : SUBSET Aliases, look : Aliases \cup {None},
         posted : BOOLEAN, promoted : BOOLEAN, failed : BOOLEAN, undo : BOOLEAN]

\* Type invariant: deployments, journals and results are of the declared
\* kinds, and a journal names its deployment from POST on.
TypeOK ==
    /\ alias \in [Aliases -> Deployments]
    /\ clones \in Seq(Days) /\ Len(clones) <= MaxClones
    /\ pending \subseteq Days
    /\ journal \in [Days -> Journals \cup {None}]
    /\ \A d \in Days : journal[d] # None =>
          (journal[d].phase = "PRE" <=> journal[d].promoted = None)
    /\ result \in [0 .. LastDay -> Results \cup {None}]
    /\ day \in Days
    /\ run \in Runs /\ run.look \in run.left \cup {None}
    /\ faults \in 0 .. MaxFaults
    /\ moved \in 0 .. MaxMoves
    /\ unseen \subseteq Aliases

\* The dates whose operation is sealed COMPLETE, and the newest of them.
Sealed == {d \in Days : journal[d] # None /\ journal[d].phase = "COMPLETE"}

\* A COMPLETE journal and its result agree for ever, the runtime's copy too as
\* long as no later date has written it: no failure, retry or compensation
\* after the seal takes a success back.
SealedHasResult ==
    \A d \in Sealed :
        /\ result[d] = Result(d, journal[d].promoted)
        /\ journal[d].promoted \in ClonesOf(d)
        /\ result[0].for = d => result[0] = result[d]

\* A success is written only of the deployment the journal names by then.  The
\* one exception is the retry of a POST journal, which has made it a PRE that
\* names none: what that success reports, every alias served at the run's last
\* look, so that a recovery can seal it.
SuccessIsBacked ==
    [][\A i \in DOMAIN result :
          LET new == result'[i]
              j == journal[new.for]
          IN  result[i] # new /\ new.clone # None =>
                 \/ j.promoted = new.clone
                 \/ /\ run.posted /\ j.phase = "PRE" /\ new.clone \in ClonesOf(new.for)
                    /\ \A a \in Aliases \ unseen : alias[a] = new.clone]_vars

\* Left alone, the aliases serve what the newest COMPLETE journal sealed, or
\* what was served at first, whenever no operation is open: they are mixed or
\* new only while a journal says so.
ServedAsSealed ==
    moved = 0 /\ (\A d \in Days : ~Open(d)) =>
        \A a \in Aliases :
            alias[a] = IF Sealed = {} THEN 0 ELSE journal[Max(Sealed)].promoted

\* A run replaces a deployment that is neither the prior one nor a clone of
\* its own preview only if it appeared after the run's last look at the alias:
\* the re-inspections before the promotion and in the rollback.
SparesForeign ==
    [][\A a \in Aliases :
          alias'[a] # alias[a] /\ run' # run =>
              \/ a \in unseen
              \/ alias[a] \in {journal[run.for].prior[a]} \cup ClonesOf(run.for)]_vars


\* Every interrupted operation converges, as the recovery at the start of the
\* daily finalize is there to ensure.
OperationsConverge == \A d \in Days : Open(d) ~> ~Open(d)
=============================================================================
