------------------------------ MODULE DailyRun ------------------------------
(***************************************************************************)
(* The ledger of one market date and release: daily_run_service.py, the    *)
(* two tables it writes in sqlite_store.py, and the scheduled jobs that    *)
(* record in it - the intraday monitor, the end of day job and the daily   *)
(* finalizer (daily_finalize_service.py).                                  *)
(*                                                                         *)
(* A job takes the day's lock before it works, and records its stages one  *)
(* process at a time.  A monitor that is refused the lock still records a  *)
(* FAILED stage, without it; the other jobs only leave a receipt.  One     *)
(* recording is several transactions: the summary row is read, the attempt *)
(* number is counted, the stage row is inserted OR IGNOREd, all rows are   *)
(* read back, and the summary row is written over.                         *)
(*                                                                         *)
(* A row is reduced to its stage, its attempt, whether its status is a     *)
(* success, and (history) whether its writer held the lock.  The stages    *)
(* "monitor" and "eod" stand for the upstream stages of a lane that does,  *)
(* and of one that does not, record when it is refused the lock;           *)
(* "performance" stands for canonical_performance and calendar_build,      *)
(* recorded one after the other by the same process.                       *)
(***************************************************************************)
EXTENDS Naturals, Sequences, FiniteSets, FiniteSetsExt, SequencesExt

CONSTANTS
  Procs,        \* the job processes alive at the same time
  None,         \* no owner of the lock
  MaxMonitors,  \* bound: monitors started in a run
  MaxOthers,    \* bound: starts of each other job
  MaxRetries,   \* the finalizer's retry_limit
  MaxFaults     \* bound: deaths and storage errors in a run

ASSUME DailyRunAssumption ==
  /\ None \notin Procs
  /\ MaxMonitors \in Nat /\ MaxOthers \in Nat /\ MaxRetries \in Nat /\ MaxFaults \in Nat

VARIABLES
  ledger,    \* daily_run_stages, in insertion order
  run,       \* the daily_runs row: its status and whether publication_timestamp is set
  lock,      \* the living owner of dawnstrike-daily-<date>.lock, or None
  op,        \* what each process is at: see Idle
  jobs,      \* the starts of each job so far
  faults,
  dropped,   \* history: the rows INSERT OR IGNORE dropped
  blurred    \* history: the last recordings overlapped, or one broke off

vars == <<ledger, run, lock, op, jobs, faults, dropped, blurred>>

Upstream == {"monitor", "eod"}
Finals == <<"performance", "publication", "readiness">>
Stages == Upstream \union Range(Finals)
Required == Stages
Jobs == Upstream \union {"finalize"}

\* What a job does under the lock.  The finalizer also reads upstream, before
\* its stages, and writes its files and its own run row, after them.
Unrecorded == {"read", "files"}
Steps(j) == IF j = "finalize" THEN <<"read">> \o Finals \o <<"files">> ELSE <<j>>
RecordsWhenRefused == {"monitor"}

Rows(s) == {i \in DOMAIN ledger : ledger[i].stage = s}
Attempts(s) == {ledger[i].no : i \in Rows(s)}
\* _latest_by_stage: the row of the highest attempt.
Latest(s) == ledger[CHOOSE i \in Rows(s) : ledger[i].no = Max(Attempts(s))]

\* Mutant: any success counts, a later failure notwithstanding.
SucceedsOnce(s) == \E i \in Rows(s) : ledger[i].ok

Succeeds(s) == Rows(s) # {} /\ Latest(s).ok

\* Mutant: a stage that was never recorded does not stand in the way.
RunStatusOfRecorded ==
  IF \E s \in Required : Rows(s) # {} /\ ~Latest(s).ok THEN "DEGRADED"
  ELSE IF \A s \in Required : Rows(s) # {} => Latest(s).ok THEN "COMPLETE"
  ELSE "IN_PROGRESS"

\* _run_status
RunStatus ==
  IF \E s \in Required : Rows(s) # {} /\ ~Latest(s).ok THEN "DEGRADED"
  ELSE IF \A s \in Required : Succeeds(s) THEN "COMPLETE"
  ELSE "IN_PROGRESS"

\* The steps of one recording, in their order.
Recording == {"open", "create", "count", "insert", "tally", "close"}
InFlight == {p \in Procs : op[p].pc \in Recording}

\* A process at rest: its job, the steps it has yet to make under the lock, the
\* row it is recording, publication_timestamp as it read it, the status it
\* derived, whether readiness may still be a success, and the attempts made.
NoRow == [stage |-> "monitor", no |-> 0, ok |-> FALSE, held |-> FALSE]
Idle == [pc |-> "idle", job |-> "monitor", left |-> <<>>, row |-> NoRow,
         prior |-> FALSE, sum |-> "absent", ready |-> FALSE, tries |-> 0]

\* o after it has called record_daily_stage for stage s, and after the return.
Calling(p, o, s, ok) ==
  [o EXCEPT !.pc = "open",
            !.row = [stage |-> s, no |-> 0, ok |-> ok, held |-> lock = p]]
Returned(p, o) ==
  IF lock = p THEN [o EXCEPT !.pc = "work", !.row = NoRow, !.prior = FALSE, !.sum = "absent"]
  ELSE Idle
\* A recording begins: it is clear unless another is in progress.
Begins(p) == blurred' = (InFlight \ {p} # {})

\* The rows of the ledger, the values of the summary's status, the processes.
Row == [stage : Stages, no : Nat, ok : BOOLEAN, held : BOOLEAN]
Status == {"absent", "IN_PROGRESS", "DEGRADED", "COMPLETE"}
Ops == [pc : Recording \union {"idle", "work"}, job : Jobs, left : Seq(Stages \union Unrecorded),
        row : Row, prior : BOOLEAN, sum : Status, ready : BOOLEAN, tries : 0 .. MaxRetries]

\* Type invariant: the attempts of a stage are inserted in their order, and a
\* process has the last steps of its job before it.
TypeOK ==
  /\ ledger \in Seq(Row)
  /\ \A i, k \in DOMAIN ledger :
       i < k /\ ledger[i].stage = ledger[k].stage => ledger[i].no < ledger[k].no
  /\ run \in [status : Status, stamped : BOOLEAN]
  /\ lock \in Procs \union {None}
  /\ op \in [Procs -> Ops]
  /\ \A p \in Procs : /\ op[p].pc = "work" => lock = p
                      /\ IsSuffix(op[p].left, Steps(op[p].job))
  /\ dropped \subseteq Row /\ blurred \in BOOLEAN
  /\ jobs \in [Jobs -> Nat] /\ faults \in 0 .. MaxFaults

Init ==
  /\ ledger = <<>> /\ run = [status |-> "absent", stamped |-> FALSE]
  /\ lock = None /\ op = [p \in Procs |-> Idle]
  /\ jobs = [j \in Jobs |-> 0] /\ faults = 0 /\ dropped = {} /\ blurred = FALSE
-----------------------------------------------------------------------------
(* The jobs *)

MayStart(j) == jobs[j] < IF j = "monitor" THEN MaxMonitors ELSE MaxOthers

\* Enter-DawnstrikeDailyRunLock: a lock whose owner is dead is taken over.
Enter(p, j) ==
  /\ op[p].pc = "idle" /\ lock = None /\ MayStart(j)
  /\ lock' = p /\ jobs' = [jobs EXCEPT ![j] = @ + 1]
  /\ op' = [op EXCEPT ![p] = [Idle EXCEPT !.pc = "work", !.job = j, !.left = Steps(j)]]
  /\ UNCHANGED <<ledger, run, faults, dropped, blurred>>

\* The monitor finds the lock held and records that it did not run.
Refused(p, j) ==
  /\ op[p].pc = "idle" /\ lock # None /\ MayStart(j)
  /\ j \in RecordsWhenRefused
  /\ jobs' = [jobs EXCEPT ![j] = @ + 1]
  /\ op' = [op EXCEPT ![p] = Calling(p, [Idle EXCEPT !.job = j], j, FALSE)]
  /\ Begins(p)
  /\ UNCHANGED <<ledger, run, lock, faults, dropped>>

\* _read_upstream_stages, at the start of each attempt of the finalizer.
ReadUpstream(p) ==
  /\ op[p].pc = "work" /\ op[p].left # <<>> /\ Head(op[p].left) = "read"
  /\ op' = [op EXCEPT ![p].left = Tail(@),
                      ![p].ready = \A s \in Upstream : Succeeds(s)]
  /\ UNCHANGED <<ledger, run, lock, jobs, faults, dropped, blurred>>

\* A stage is worked and its result goes to the recorder.  A published pair is
\* always recorded COMPLETE; readiness is COMPLETE only when everything it was
\* computed from allows it.
Work(p, ok) ==
  /\ op[p].pc = "work" /\ op[p].left # <<>> /\ Head(op[p].left) \in Stages
  /\ LET s == Head(op[p].left)
         then == [op[p] EXCEPT !.left = Tail(@), !.ready = @ /\ (s = "performance" => ok)] IN
       /\ s = "publication" => ok
       /\ s = "readiness" /\ ok => op[p].ready
       /\ op' = [op EXCEPT ![p] = Calling(p, then, s, ok)]
  /\ Begins(p)
  /\ UNCHANGED <<ledger, run, lock, jobs, faults, dropped>>

\* readiness.json once more, the stage manifest and the finalizer's own run row,
\* with which the attempt is over.
WriteFiles(p) ==
  /\ op[p].pc = "work" /\ op[p].left # <<>> /\ Head(op[p].left) = "files"
  /\ op' = [op EXCEPT ![p].left = Tail(@)]
  /\ UNCHANGED <<ledger, run, lock, jobs, faults, dropped, blurred>>

\* The finalizer's attempt raises, be it in the writes that follow its readiness
\* row: performance is recorded FAILED, and a transient error is retried from
\* the reading of upstream on.
Raise(p, transient) ==
  /\ op[p].pc = "work" /\ op[p].job = "finalize" /\ op[p].left # <<>>
  /\ faults < MaxFaults /\ faults' = faults + 1
  /\ LET again == transient /\ op[p].tries < MaxRetries
         then == IF again THEN [op[p] EXCEPT !.left = Steps("finalize"), !.tries = @ + 1]
                 ELSE [op[p] EXCEPT !.left = <<>>] IN
       op' = [op EXCEPT ![p] = Calling(p, then, "performance", FALSE)]
  /\ Begins(p)
  /\ UNCHANGED <<ledger, run, lock, jobs, dropped>>

Release(p) ==
  /\ op[p].pc = "work" /\ op[p].left = <<>>
  /\ lock' = None /\ op' = [op EXCEPT ![p] = Idle]
  /\ UNCHANGED <<ledger, run, jobs, faults, dropped, blurred>>
-----------------------------------------------------------------------------
(* One recording: record_daily_stage *)

\* load_daily_runs: the summary as it is now, from which the last write below
\* takes what it does not derive.
Open(p) ==
  /\ op[p].pc = "open"
  /\ op' = [op EXCEPT ![p].prior = run.stamped,
                      ![p].pc = IF run.status = "absent" THEN "create" ELSE "count"]
  /\ UNCHANGED <<ledger, run, lock, jobs, faults, dropped, blurred>>

\* The first upsert_daily_run, for a run that had no summary when it was read.
Create(p) ==
  /\ op[p].pc = "create"
  /\ run' = [status |-> "IN_PROGRESS", stamped |-> FALSE]
  /\ op' = [op EXCEPT ![p].pc = "count"]
  /\ UNCHANGED <<ledger, lock, jobs, faults, dropped, blurred>>

\* Mutant: the next attempt is counted from the highest, not after it.
NextAttemptOffByOne(s) == IF Attempts(s) = {} THEN 1 ELSE Max(Attempts(s))

\* The attempt number: one more than the highest so far.
NextAttempt(s) == IF Attempts(s) = {} THEN 1 ELSE Max(Attempts(s)) + 1

Count(p) ==
  /\ op[p].pc = "count"
  /\ op' = [op EXCEPT ![p].pc = "insert", ![p].row.no = NextAttempt(op[p].row.stage)]
  /\ UNCHANGED <<ledger, run, lock, jobs, faults, dropped, blurred>>

\* Mutant: a plain INSERT into a table without the identity.
InsertAlways(p) ==
  /\ op[p].pc = "insert"
  /\ ledger' = Append(ledger, op[p].row)
  /\ op' = [op EXCEPT ![p].pc = "tally"]
  /\ UNCHANGED <<run, lock, jobs, faults, dropped, blurred>>

\* persist_daily_run_stage: INSERT OR IGNORE on the identity (stage, attempt).
Insert(p) ==
  /\ op[p].pc = "insert"
  /\ LET new == op[p].row
         taken == new.no \in Attempts(new.stage) IN
       /\ ledger' = IF taken THEN ledger ELSE Append(ledger, new)
       /\ dropped' = IF taken THEN dropped \union {new} ELSE dropped
  /\ op' = [op EXCEPT ![p].pc = "tally"]
  /\ UNCHANGED <<run, lock, jobs, faults, blurred>>

\* All rows are read back and the status of the run derived.
Tally(p) ==
  /\ op[p].pc = "tally"
  /\ op' = [op EXCEPT ![p].pc = "close", ![p].sum = RunStatus]
  /\ UNCHANGED <<ledger, run, lock, jobs, faults, dropped, blurred>>

\* Mutant: a degraded run stays degraded after the stage was run again.
CloseSticky(p) ==
  /\ op[p].pc = "close"
  /\ run' = [status |-> IF run.status = "DEGRADED" THEN run.status ELSE op[p].sum,
             stamped |-> op[p].prior \/ (op[p].row.stage = "publication" /\ op[p].row.ok)]
  /\ op' = [op EXCEPT ![p] = Returned(p, @)]
  /\ UNCHANGED <<ledger, lock, jobs, faults, dropped, blurred>>

\* The last upsert_daily_run.
Close(p) ==
  /\ op[p].pc = "close"
  /\ run' = [status |-> op[p].sum,
             stamped |-> op[p].prior \/ (op[p].row.stage = "publication" /\ op[p].row.ok)]
  /\ op' = [op EXCEPT ![p] = Returned(p, @)]
  /\ UNCHANGED <<ledger, lock, jobs, faults, dropped, blurred>>

\* A transaction of the recorder fails.  A scheduled script goes on to release
\* the lock; the finalizer's attempt ends in its handler, whose own recording
\* may fail as well.
Handling(o) == o.row.stage = "performance" /\ o.left \in {<<>>, Steps("finalize")}

Breaks(p) ==
  /\ op[p].pc \in Recording /\ faults < MaxFaults /\ faults' = faults + 1
  /\ op' = [op EXCEPT ![p] =
       IF lock = p /\ @.job = "finalize" /\ ~Handling(@)
       THEN Calling(p, [@ EXCEPT !.left = <<>>], "performance", FALSE)
       ELSE Returned(p, @)]
  /\ blurred' = TRUE
  /\ UNCHANGED <<ledger, run, lock, jobs, dropped>>

\* A process dies, and its child recorder with it.
Crash(p) ==
  /\ op[p].pc # "idle" /\ faults < MaxFaults /\ faults' = faults + 1
  /\ op' = [op EXCEPT ![p] = Idle]
  /\ lock' = IF lock = p THEN None ELSE lock
  /\ blurred' = (blurred \/ op[p].pc \in Recording)
  /\ UNCHANGED <<ledger, run, jobs, dropped>>

Step(p) ==
  \/ \E j \in Jobs : Enter(p, j) \/ Refused(p, j)
  \/ ReadUpstream(p)
  \/ \E ok \in BOOLEAN : Work(p, ok)
  \/ \E transient \in BOOLEAN : Raise(p, transient)
  \/ WriteFiles(p) \/ Release(p)
  \/ Open(p) \/ Create(p) \/ Count(p) \/ Insert(p) \/ Tally(p) \/ Close(p)
  \/ Breaks(p) \/ Crash(p)

Next == \E p \in Procs : Step(p)
Spec == Init /\ [][Next]_vars
-----------------------------------------------------------------------------
(* Properties *)

\* INSERT OR IGNORE never costs a job that held the lock a row, except where a
\* monitor that was refused the lock took the row's attempt number.
HeldRowsSurvive ==
  \A d \in dropped : d.held =>
    \E i \in Rows(d.stage) : ledger[i].no = d.no /\ ~ledger[i].held

\* A readiness row is a success only over upstream stages whose last row from a
\* lock holder, as of then, is a success: a day is never declared ready on an
\* older success, whatever was refused, retried or broke off in between.
ReadyBacked ==
  \A r \in Rows("readiness") : ledger[r].ok =>
    \A s \in Upstream :
      LET before == {i \in Rows(s) : i < r /\ ledger[i].held} IN
      before # {} /\ ledger[Max(before)].ok

\* Once no recording is in progress, the summary shows the status its stage
\* rows give, unless the last recordings overlapped or one of them broke off.
SummarySettles ==
  InFlight = {} /\ ~blurred /\ ledger # <<>> => run.status = RunStatus

\* Overlapping and broken recordings included, the summary never claims what no
\* row supports: a publication time without a published stage, or a complete
\* day without a success row of every required stage.
SummaryIsSupported ==
  LET Once(s) == \E i \in Rows(s) : ledger[i].ok IN
  /\ run.stamped => Once("publication")
  /\ run.status = "COMPLETE" => \A s \in Required : Once(s)
=============================================================================
