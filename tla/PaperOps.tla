------------------------------ MODULE PaperOps ------------------------------
(***************************************************************************)
(* The PaperOps transaction path (intraday_scanner/v2/paper_ops/engine.py  *)
(* and storage.py).  Processes run ENTER, CHECK and CLOSE against three    *)
(* state files and an append-only ledger.  A command recovers any pending  *)
(* journal, reads the state without a lock, builds a transaction, and      *)
(* commits it under a file lock: validate against the current files, write *)
(* the journal, append the events, replace the files, remove the journal.  *)
(* A process may die at any point; the lock dies with it, the files stay.  *)
(***************************************************************************)
EXTENDS Integers, FiniteSets

CONSTANTS
    Procs,      \* processes that run PaperOps commands
    Orders,     \* accepted picks, as the orders they turn into
    DayOf,      \* order -> the trade date it is created on
    LastDay,    \* bound: trade dates
    Net(_),     \* net P&L of closing a set of positions
    Cap,        \* PaperOpsConfig.max_concurrent_positions
    Phases,     \* the commands in use, a subset of {"enter", "check", "close"}
    Crashes,    \* a process may die
    TornWrites, \* a process that dies in an append may leave half a record
    None        \* no process, no artifact

ASSUME OrdersAssumption == IsFiniteSet(Orders) /\ DayOf \in [Orders -> 1..LastDay]
ASSUME CapAssumption == Cap \in Nat /\ LastDay \in Nat \ {0}
ASSUME FlagsAssumption ==
    /\ Phases \subseteq {"enter", "check", "close"}
    /\ Crashes \in BOOLEAN
    /\ TornWrites \in BOOLEAN
    /\ None \notin Procs
\* The account sums the closes: _apply_close.
ASSUME NetAssumption ==
    /\ \A S \in SUBSET Orders : Net(S) \in Int
    /\ \A S, T \in SUBSET Orders :
         S \cap T = {} => Net(S \cup T) = Net(S) + Net(T)

VARIABLES
    \* on disk
    pending,    \* pending_orders.json: orders
    positions,  \* open_positions.json: positions, named by their orders
    realized,   \* paper_accounts.json: realized P&L
    ledger,     \* paper_ledger.jsonl: events <<type, order, trade date>>
    torn,       \* its last line is half a record
    journal,    \* paper_transaction_pending.json: a transaction or NoTx
    decisions,  \* order_decisions_<today>.json: a record or None
    \* the calendar and the lock file
    today,
    lock,       \* holder of .paper_transaction.lock, or None
    \* processes, in memory
    pc,
    phase,      \* the command a process runs
    snap,       \* what it has read and not yet used
    tx,         \* the transaction it built and has not yet journaled
    export,     \* the decisions file it will write after the commit, or None
    resume      \* where it goes on once a recovered journal is applied

disk  == <<pending, positions, realized, ledger, torn, journal, decisions>>
local == <<pc, phase, snap, tx, export, resume>>
vars  == <<disk, today, lock, local>>

Days == 1..LastDay

\* A transaction: events by kind, and the contents its files shall get.
\* phase tells which files it writes; basis is the equity ENTER sized with.
NoTx == [phase |-> "none", day |-> 0, created |-> {}, refused |-> {},
         fills |-> {}, blocks |-> {}, closes |-> {},
         pend |-> {}, pos |-> {}, real |-> 0, basis |-> 0]

NoSnap == [pend |-> {}, pos |-> {}]

Pc == {"idle", "recover", "pending", "positions", "decide", "precheck",
       "lock", "validate", "append", "wpositions", "waccounts", "wpending",
       "unlink", "export"}

\* Mutant: fills are logged under another event type.
EventsMistyped(t) ==
    ({"created"} \X t.created \X {t.day}) \cup ({"refused"} \X t.refused \X {t.day})
    \cup ({"filled"} \X t.fills \X {t.day}) \cup ({"blocked"} \X t.blocks \X {t.day})
    \cup ({"closed"} \X t.closes \X {t.day})

Events(t) ==
    ({"created"} \X t.created \X {t.day}) \cup ({"refused"} \X t.refused \X {t.day})
    \cup ({"fill"} \X t.fills \X {t.day}) \cup ({"blocked"} \X t.blocks \X {t.day})
    \cup ({"closed"} \X t.closes \X {t.day})

\* Orders with an event of that type, on that date or any.
On(log, type, d) == {o \in Orders : <<type, o, d>> \in log}
Ever(log, type) == {e[2] : e \in {x \in log : x[1] = type}}

\* Mutant: CHECK does not rewrite the pending orders.
WritesPendingInEnter(t) == t.phase = "enter"

WritesPending(t)  == t.phase \in {"enter", "check"}
WritesAccounts(t) == t.phase \in {"check", "close"}

----------------------------------------------------------------------------
Init ==
    /\ pending = {} /\ positions = {} /\ realized = 0
    /\ ledger = {} /\ torn = FALSE
    /\ journal = NoTx
    /\ decisions = None
    /\ today = 1
    /\ lock = None
    /\ pc = [p \in Procs |-> "idle"]
    /\ phase = [p \in Procs |-> "none"]
    /\ snap = [p \in Procs |-> NoSnap]
    /\ tx = [p \in Procs |-> NoTx]
    /\ export = [p \in Procs |-> None]
    /\ resume = [p \in Procs |-> "none"]

Goto(p, l) == pc' = [pc EXCEPT ![p] = l]

\* The command ends, by return or by exception, and forgets everything.
End(p) ==
    /\ Goto(p, "idle")
    /\ phase' = [phase EXCEPT ![p] = "none"]
    /\ snap' = [snap EXCEPT ![p] = NoSnap]
    /\ tx' = [tx EXCEPT ![p] = NoTx]
    /\ export' = [export EXCEPT ![p] = None]
    /\ resume' = [resume EXCEPT ![p] = "none"]

Memory == <<phase, snap, tx, export, resume>>

----------------------------------------------------------------------------
(* Validation of a transaction against the files as they are now.          *)

\* _validate_enter_order_semantics and the pending-order transition.  A
\* created order that is in the ledger and still pending is accepted as is.
EnterCoherent(t) ==
    LET fresh == t.created \ (pending \cap On(ledger, "created", t.day))
    IN  /\ t.created \cup t.refused # {} => t.basis = realized
        /\ fresh \cap (pending \cup positions) = {}
        /\ fresh # {} => Cardinality(pending) + Cardinality(positions)
                           + Cardinality(fresh) <= Cap
        /\ t.refused \cap pending = {}
        /\ t.pend = pending \cup t.created

\* Mutant: the new pending list is compared, the outcomes are not.
CheckCoherentByResult(t) ==
    /\ t.pend = pending \ (t.fills \cup t.blocks)
    /\ t.fills \cap positions = {}
    /\ t.fills # {} => Cardinality(positions) + Cardinality(t.fills) <= Cap
    /\ t.closes \subseteq positions \cup t.fills
    /\ t.pos = (positions \cup t.fills) \ t.closes
    /\ t.real = realized + Net(t.closes)

\* _validate_check_order_semantics, the order and position transitions and
\* the account transition: every pending order has exactly one outcome.
CheckCoherent(t) ==
    /\ t.fills \cup t.blocks \subseteq pending
    /\ t.pend = pending \ (t.fills \cup t.blocks)
    /\ t.fills \cap positions = {}
    /\ t.fills # {} => Cardinality(positions) + Cardinality(t.fills) <= Cap
    /\ t.closes \subseteq positions \cup t.fills
    /\ t.pos = (positions \cup t.fills) \ t.closes
    /\ t.real = realized + Net(t.closes)

CloseCoherent(t) ==
    /\ t.closes \subseteq positions
    /\ t.pos = positions \ t.closes
    /\ t.real = realized + Net(t.closes)

\* Nothing created, refused, filled, blocked or closed, and no order or
\* position that CHECK and CLOSE would log as looked at.
EventFree(t) ==
    /\ Events(t) = {}
    /\ t.phase # "enter" => t.pend = {} /\ t.pos = {}

\* _validate_transaction_coherence; with any event it reads the ledger, and
\* read_jsonl refuses a torn last line.
Coherent(t) ==
    /\ torn => EventFree(t)
    /\ CASE t.phase = "enter" -> EnterCoherent(t)
         [] t.phase = "check" -> CheckCoherent(t)
         [] t.phase = "close" -> CloseCoherent(t)

\* _preflight_event_append, for a transaction that is not yet journaled: an
\* ENTER refusal carries the wall clock, so a second one conflicts.
Committable(t) ==
    /\ Coherent(t)
    /\ t.refused \cap On(ledger, "refused", t.day) = {}

----------------------------------------------------------------------------
(* A command starts, recovers, reads and builds its transaction.           *)

Begin(p) ==
    /\ pc[p] = "idle"
    /\ \E ph \in Phases : phase' = [phase EXCEPT ![p] = ph]
    /\ Goto(p, "recover")
    /\ UNCHANGED <<disk, today, lock, snap, tx, export, resume>>

\* _recover_pending_transaction, opening step of every command.
RecoverNothing(p) ==
    /\ pc[p] = "recover"
    /\ lock = None
    /\ journal = NoTx
    /\ Goto(p, "pending")
    /\ UNCHANGED <<disk, today, lock, Memory>>

\* Mutants: a recovered journal is discarded; its events are not appended.
RecoverByDiscarding(p) ==
    /\ pc[p] \in {"recover", "lock"}
    /\ lock = None
    /\ journal # NoTx
    /\ Coherent(journal)
    /\ lock' = p
    /\ resume' = [resume EXCEPT ![p] = IF pc[p] = "recover" THEN "pending" ELSE "validate"]
    /\ Goto(p, "unlink")
    /\ UNCHANGED <<disk, today, phase, snap, tx, export>>
RecoverFilesOnly(p) ==
    /\ pc[p] \in {"recover", "lock"}
    /\ lock = None
    /\ journal # NoTx
    /\ Coherent(journal)
    /\ lock' = p
    /\ resume' = [resume EXCEPT ![p] = IF pc[p] = "recover" THEN "pending" ELSE "validate"]
    /\ Goto(p, "wpositions")
    /\ UNCHANGED <<disk, today, phase, snap, tx, export>>

\* _recover_pending_transaction_unlocked finds a journal: validate, then
\* apply it.  At "recover" the command has yet to read; at "lock" it has its
\* own transaction in hand.
RecoverJournal(p) ==
    /\ pc[p] \in {"recover", "lock"}
    /\ lock = None
    /\ journal # NoTx
    /\ Coherent(journal)
    /\ lock' = p
    /\ resume' = [resume EXCEPT ![p] = IF pc[p] = "recover" THEN "pending" ELSE "validate"]
    /\ Goto(p, "append")
    /\ UNCHANGED <<disk, today, phase, snap, tx, export>>

RecoveryRaises(p) ==
    /\ pc[p] \in {"recover", "lock"}
    /\ lock = None
    /\ journal # NoTx
    /\ ~Coherent(journal)
    /\ End(p)
    /\ UNCHANGED <<disk, today, lock>>

\* exclusive_file_lock gives up after timeout_seconds.
LockTimeout(p) ==
    /\ pc[p] \in {"recover", "lock"}
    /\ lock # None
    /\ End(p)
    /\ UNCHANGED <<disk, today, lock>>

ReadPending(p) ==
    /\ pc[p] = "pending"
    /\ snap' = [snap EXCEPT ![p].pend = IF phase[p] = "close" THEN {} ELSE pending]
    /\ Goto(p, "positions")
    /\ UNCHANGED <<disk, today, lock, phase, tx, export, resume>>

ReadPositions(p) ==
    /\ pc[p] = "positions"
    /\ snap' = [snap EXCEPT ![p].pos = positions]
    /\ Goto(p, "decide")
    /\ UNCHANGED <<disk, today, lock, phase, tx, export, resume>>

\* The decisions file ENTER proposes; with nothing new, what the ledger says.
Proposal(created, refused) ==
    IF created \cup refused = {}
    THEN [created |-> On(ledger, "created", today),
          refused |-> On(ledger, "refused", today)]
    ELSE [created |-> created, refused |-> refused]

\* An existing decisions file must equal the proposal; a fresh refusal never
\* does, because it carries the wall clock.
Conflicts(created, refused) ==
    /\ decisions # None
    /\ refused # {} \/ Proposal(created, refused) # decisions

\* The accepted picks of today that neither the snapshot nor the ledger has.
Candidates(p) ==
    {o \in Orders : DayOf[o] = today} \ (snap[p].pend \cup Ever(ledger, "created"))

\* enter: account and ledger, then risk checks pick by pick.
DecideEnter(p) ==
    /\ pc[p] = "decide" /\ phase[p] = "enter"
    /\ ~torn
    /\ \E created \in SUBSET Candidates(p) :
         LET refused == Candidates(p) \ created IN
         /\ created \cap snap[p].pos = {}
         /\ created # {} => Cardinality(snap[p].pend) + Cardinality(snap[p].pos)
                              + Cardinality(created) <= Cap
         /\ ~Conflicts(created, refused)
         /\ tx' = [tx EXCEPT ![p] =
                     [NoTx EXCEPT !.phase = "enter", !.day = today,
                                  !.created = created, !.refused = refused,
                                  !.pend = snap[p].pend \cup created,
                                  !.basis = realized]]
         /\ export' = [export EXCEPT ![p] = IF decisions = None
                                            THEN Proposal(created, refused) ELSE None]
    /\ Goto(p, "precheck")
    /\ snap' = [snap EXCEPT ![p] = NoSnap]
    /\ UNCHANGED <<disk, today, lock, phase, resume>>

\* "PaperOps immutable order-decision artifact conflicts".
EnterConflicts(p) ==
    /\ pc[p] = "decide" /\ phase[p] = "enter"
    /\ ~torn
    /\ \E created \in SUBSET Candidates(p) :
         /\ created # {} => Cardinality(snap[p].pend) + Cardinality(snap[p].pos)
                              + Cardinality(created) <= Cap
         /\ Conflicts(created, Candidates(p) \ created)
    /\ End(p)
    /\ UNCHANGED <<disk, today, lock>>

\* Pending orders whose next bar may have come.
Ripe(p) == {o \in snap[p].pend : DayOf[o] < today}

\* check: an order of an earlier date meets its next bar (fill or block) or
\* still waits for one; then every position, new ones too, is kept or closed.
DecideCheck(p) ==
    /\ pc[p] = "decide" /\ phase[p] = "check"
    /\ ~torn
    /\ \E fills \in SUBSET Ripe(p) : \E blocks \in SUBSET (Ripe(p) \ fills) :
       \E closes \in SUBSET (snap[p].pos \cup fills) :
         /\ fills \cap snap[p].pos = {}
         /\ fills # {} => Cardinality(snap[p].pos) + Cardinality(fills) <= Cap
         /\ tx' = [tx EXCEPT ![p] =
                     [NoTx EXCEPT !.phase = "check", !.day = today,
                                  !.fills = fills, !.blocks = blocks, !.closes = closes,
                                  !.pend = snap[p].pend \ (fills \cup blocks),
                                  !.pos = (snap[p].pos \cup fills) \ closes,
                                  !.real = realized + Net(closes)]]
    /\ Goto(p, "precheck")
    /\ snap' = [snap EXCEPT ![p] = NoSnap]
    /\ UNCHANGED <<disk, today, lock, phase, export, resume>>

DecideClose(p) ==
    /\ pc[p] = "decide" /\ phase[p] = "close"
    /\ \E closes \in SUBSET snap[p].pos :
         tx' = [tx EXCEPT ![p] =
                  [NoTx EXCEPT !.phase = "close", !.day = today, !.closes = closes,
                               !.pos = snap[p].pos \ closes,
                               !.real = realized + Net(closes)]]
    /\ Goto(p, "precheck")
    /\ snap' = [snap EXCEPT ![p] = NoSnap]
    /\ UNCHANGED <<disk, today, lock, phase, export, resume>>

\* The ledger cannot be read: another process is, or died, in an append.
ReadRaises(p) ==
    /\ pc[p] = "decide" /\ phase[p] # "close"
    /\ torn
    /\ End(p)
    /\ UNCHANGED <<disk, today, lock>>

----------------------------------------------------------------------------
(* _commit_paper_transaction.                                              *)

\* Validation before the lock.
Precheck(p) ==
    /\ pc[p] = "precheck"
    /\ Committable(tx[p])
    /\ Goto(p, "lock")
    /\ UNCHANGED <<disk, today, lock, Memory>>

PrecheckRaises(p) ==
    /\ pc[p] = "precheck"
    /\ ~Committable(tx[p])
    /\ End(p)
    /\ UNCHANGED <<disk, today, lock>>

Acquire(p) ==
    /\ pc[p] = "lock"
    /\ lock = None
    /\ journal = NoTx
    /\ lock' = p
    /\ Goto(p, "validate")
    /\ UNCHANGED <<disk, today, Memory>>

\* Mutant: no second validation under the lock.
CommitUnchecked(p) ==
    /\ pc[p] = "validate"
    /\ journal' = tx[p]
    /\ tx' = [tx EXCEPT ![p] = NoTx]
    /\ resume' = [resume EXCEPT ![p] = "done"]
    /\ Goto(p, "append")
    /\ UNCHANGED <<pending, positions, realized, ledger, torn, decisions,
                   today, lock, phase, snap, export>>

\* Validation under the lock, then the journal: the commit point.
Commit(p) ==
    /\ pc[p] = "validate"
    /\ Committable(tx[p])
    /\ journal' = tx[p]
    /\ tx' = [tx EXCEPT ![p] = NoTx]
    /\ resume' = [resume EXCEPT ![p] = "done"]
    /\ Goto(p, "append")
    /\ UNCHANGED <<pending, positions, realized, ledger, torn, decisions,
                   today, lock, phase, snap, export>>

CommitRaises(p) ==
    /\ pc[p] = "validate"
    /\ ~Committable(tx[p])
    /\ lock' = None
    /\ End(p)
    /\ UNCHANGED <<disk, today>>

----------------------------------------------------------------------------
(* _apply_transaction_journal, after its validation, and the unlink.       *)

\* append_jsonl_unique skips events the ledger already has.
Append(p) ==
    /\ pc[p] = "append"
    /\ ledger' = ledger \cup Events(journal)
    /\ Goto(p, "wpositions")
    /\ UNCHANGED <<pending, positions, realized, torn, journal, decisions,
                   today, lock, Memory>>

\* The files, in the order of their names.
WritePositions(p) ==
    /\ pc[p] = "wpositions"
    /\ positions' = IF WritesAccounts(journal) THEN journal.pos ELSE positions
    /\ Goto(p, "waccounts")
    /\ UNCHANGED <<pending, realized, ledger, torn, journal, decisions,
                   today, lock, Memory>>

\* Mutant: the last file is forgotten.
WriteAccountsLast(p) ==
    /\ pc[p] = "waccounts"
    /\ realized' = IF WritesAccounts(journal) THEN journal.real ELSE realized
    /\ Goto(p, "unlink")
    /\ UNCHANGED <<pending, positions, ledger, torn, journal, decisions,
                   today, lock, Memory>>

WriteAccounts(p) ==
    /\ pc[p] = "waccounts"
    /\ realized' = IF WritesAccounts(journal) THEN journal.real ELSE realized
    /\ Goto(p, "wpending")
    /\ UNCHANGED <<pending, positions, ledger, torn, journal, decisions,
                   today, lock, Memory>>

WritePending(p) ==
    /\ pc[p] = "wpending"
    /\ pending' = IF WritesPending(journal) THEN journal.pend ELSE pending
    /\ Goto(p, "unlink")
    /\ UNCHANGED <<positions, realized, ledger, torn, journal, decisions,
                   today, lock, Memory>>

\* The journal goes.  A recovered one: on with the command, which holds the
\* lock when it was about to commit.  Its own: the commit has returned.
Unlink(p) ==
    /\ pc[p] = "unlink"
    /\ journal' = NoTx
    /\ lock' = IF resume[p] = "validate" THEN lock ELSE None
    /\ Goto(p, IF resume[p] = "done" THEN "export" ELSE resume[p])
    /\ resume' = [resume EXCEPT ![p] = "none"]
    /\ UNCHANGED <<pending, positions, realized, ledger, torn, decisions,
                   today, phase, snap, tx, export>>

\* The decisions file, if there was none, and the reports.
Export(p) ==
    /\ pc[p] = "export"
    /\ decisions' = IF export[p] = None THEN decisions ELSE export[p]
    /\ End(p)
    /\ UNCHANGED <<pending, positions, realized, ledger, torn, journal, today, lock>>

----------------------------------------------------------------------------
\* The process dies; the system drops its lock.  In an append, any part of
\* the events may have reached the disk, the last of them in half.
Crash(p) ==
    /\ Crashes
    /\ pc[p] # "idle"
    /\ lock' = IF lock = p THEN None ELSE lock
    /\ IF pc[p] = "append"
       THEN \E part \in SUBSET Events(journal) :
              /\ ledger' = ledger \cup part
              /\ torn' \in IF TornWrites /\ ~(Events(journal) \subseteq ledger')
                           THEN BOOLEAN ELSE {torn}
       ELSE UNCHANGED <<ledger, torn>>
    /\ End(p)
    /\ UNCHANGED <<pending, positions, realized, journal, decisions, today>>

\* The next session.  Forward runs accept the last completed session only,
\* and no command lives from one session to the next.
NextDay ==
    /\ today < LastDay
    /\ \A p \in Procs : pc[p] = "idle"
    /\ today' = today + 1
    /\ decisions' = None
    /\ UNCHANGED <<pending, positions, realized, ledger, torn, journal, lock, local>>

Command(p) ==
    \/ Begin(p) \/ RecoverNothing(p) \/ RecoverJournal(p) \/ RecoveryRaises(p)
    \/ LockTimeout(p)
    \/ ReadPending(p) \/ ReadPositions(p)
    \/ DecideEnter(p) \/ EnterConflicts(p) \/ DecideCheck(p) \/ DecideClose(p)
    \/ ReadRaises(p)
    \/ Precheck(p) \/ PrecheckRaises(p) \/ Acquire(p)
    \/ Commit(p) \/ CommitRaises(p)
    \/ Append(p) \/ WritePositions(p) \/ WriteAccounts(p) \/ WritePending(p)
    \/ Unlink(p) \/ Export(p)

Next == NextDay \/ \E p \in Procs : Command(p) \/ Crash(p)

Spec == Init /\ [][Next]_vars
----------------------------------------------------------------------------
(* Properties.                                                             *)

\* Transactions a command can have built, and decisions files.
Tx == [phase : {"enter", "check", "close"}, day : Days,
       created : SUBSET Orders, refused : SUBSET Orders, fills : SUBSET Orders,
       blocks : SUBSET Orders, closes : SUBSET Orders, pend : SUBSET Orders,
       pos : SUBSET Orders, real : Int, basis : Int]

Decisions == [created : SUBSET Orders, refused : SUBSET Orders]

\* Type invariant.
TypeOK ==
    /\ pending \subseteq Orders /\ positions \subseteq Orders
    /\ realized \in Int
    /\ ledger \subseteq {"created", "refused", "fill", "blocked", "closed"} \X Orders \X Days
    /\ torn \in BOOLEAN
    /\ journal \in Tx \cup {NoTx}
    /\ decisions \in Decisions \cup {None}
    /\ today \in Days
    /\ lock \in Procs \cup {None}
    /\ pc \in [Procs -> Pc]
    /\ phase \in [Procs -> {"none", "enter", "check", "close"}]
    /\ snap \in [Procs -> [pend : SUBSET Orders, pos : SUBSET Orders]]
    /\ tx \in [Procs -> Tx \cup {NoTx}]
    /\ export \in [Procs -> Decisions \cup {None}]
    /\ resume \in [Procs -> {"none", "pending", "validate", "done"}]

\* The book: the files and the ledger as they will be once the pending
\* journal is applied.
BookPending   == IF WritesPending(journal) THEN journal.pend ELSE pending
BookPositions == IF WritesAccounts(journal) THEN journal.pos ELSE positions
BookRealized  == IF WritesAccounts(journal) THEN journal.real ELSE realized
BookLedger    == ledger \cup Events(journal)

\* ledger_rebuild: the ledger alone explains the state files, whatever
\* interleaved, crashed or was recovered on the way.
FilesFollowLedger ==
    /\ BookPending = Ever(BookLedger, "created")
                       \ (Ever(BookLedger, "fill") \cup Ever(BookLedger, "blocked"))
    /\ BookPositions = Ever(BookLedger, "fill") \ Ever(BookLedger, "closed")
    /\ BookRealized = Net(Ever(BookLedger, "closed"))

\* No order is decided twice and no position closed twice, on any dates, by
\* commands that built their transactions from the same stale snapshot.
DecidedOnce ==
    \A o \in Orders :
        /\ Cardinality({e \in BookLedger : e[2] = o /\ e[1] \in {"fill", "blocked"}}) <= 1
        /\ Cardinality({e \in BookLedger : e[2] = o /\ e[1] = "closed"}) <= 1

\* The stage of each order, as an outside reader of the book sees it.
BookStage ==
    LET pend    == BookPending
        open    == BookPositions
        closed  == Ever(BookLedger, "closed")
        blocked == Ever(BookLedger, "blocked")
    IN  [o \in Orders |-> IF o \in pend THEN "pending"
                          ELSE IF o \in open THEN "open"
                          ELSE IF o \in closed THEN "closed"
                          ELSE IF o \in blocked THEN "blocked"
                          ELSE "new"]

Book == INSTANCE PaperBook WITH stage <- BookStage, realized <- BookRealized

\* The commands, with all their reads, locks, crashes and recoveries, move
\* the book exactly as atomic transactions would.
ImplementsBook == Book!Spec

----------------------------------------------------------------------------
(* What tests and comments say, and the code does not keep.                *)

\* tests/test_v2_data_truth_paper_ops.py:2273: a pending transaction is
\* recovered idempotently.  Whatever a dead process left, the next command
\* can apply the journal.
Recoverable == lock = None /\ journal # NoTx => Coherent(journal)

=============================================================================
