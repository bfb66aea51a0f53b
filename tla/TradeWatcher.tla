---------------------------- MODULE TradeWatcher ----------------------------
(***************************************************************************)
(* The paper trade watcher: cycles of trade_watcher_service.py, started by *)
(* a scheduler and by hand, so that two may overlap.  A cycle reads the    *)
(* durable intents and then the positions, decides on those snapshots,     *)
(* persists intents, positions and fills in one SQLite transaction that    *)
(* judges the batch again, and sends the notification of every durable     *)
(* trade intent that has none recorded: the intents are the outbox.        *)
(***************************************************************************)
EXTENDS Integers, FiniteSets

CONSTANTS
    Procs,        \* watcher processes
    Session,      \* today's selected signals, one episode each
    Carried,      \* signals of positions opened on an earlier day
    Refusable,    \* signals of today the entry policy may refuse
    Reconcilable, \* signals whose canonical EOD trade may get its exit
    Symbol,       \* signal -> its ticker
    MaxOpen,      \* max_open_positions
    MaxDaily,     \* max_daily_entries
    LastInstant,  \* bound on the instants a cycle is run at
    MaxCrashes,   \* bound on process deaths
    DryRuns,      \* whether a cycle may be run with --dry-run
    None

Signals == Session \cup Carried

ASSUME WatcherAssumption ==
    /\ IsFiniteSet(Procs) /\ Procs # {}
    /\ IsFiniteSet(Signals) /\ Session \cap Carried = {}
    /\ Refusable \subseteq Session /\ Reconcilable \subseteq Signals
    /\ MaxOpen \in Nat /\ MaxDaily \in Nat /\ LastInstant \in Nat \ {0}
    /\ MaxCrashes \in Nat /\ DryRuns \in BOOLEAN

\* The positions carried into the day were admitted under the same limits.
ASSUME CarriedAssumption ==
    /\ Cardinality(Carried) <= MaxOpen
    /\ Cardinality({Symbol[s] : s \in Carried}) = Cardinality(Carried)

VARIABLES
    intents,     \* trade_intents rows
    status,      \* paper_positions: signal -> "none", "open" or "closed"
    fills,       \* paper_trade_fills, each named by the intent it fills
    now,         \* the instant a cycle is run for (requested_at)
    reconciled,  \* signals whose canonical EOD trade has an exit
    recorded,    \* notifications_sent: intents whose event key is recorded
    sends,       \* intent -> how often its notification left the process
    crashes,     \* process deaths so far
    watcher      \* process -> its program counter and local variables

db == <<intents, status, fills>>
vars == <<db, now, reconciled, recorded, sends, crashes, watcher>>

-----------------------------------------------------------------------------
(* Intents.                                                                *)

Enter(s, t) == [kind |-> "enter", sig |-> s, at |-> t, why |-> "trigger"]
Exit(s, t) == [kind |-> "exit", sig |-> s, at |-> t, why |-> "level"]
StandDown(s, t, why) == [kind |-> "block", sig |-> s, at |-> t, why |-> why]

\* A repair takes its time from the canonical trade, whenever it is decided.
Repair(s) == [kind |-> "exit", sig |-> s, at |-> 0, why |-> "eod_repair"]

Reasons == {"policy", "max_open_positions", "max_daily_entries"}
Trades ==
    UNION {{Enter(s, t), Exit(s, t), Repair(s)} :
             s \in Signals, t \in 0 .. LastInstant}
Blocks == {StandDown(s, t, w) :
             s \in Session, t \in 0 .. LastInstant, w \in Reasons}

Kind(I, k) == {i \in I : i.kind = k}
Of(I) == {i.sig : i \in I}
SymbolsOf(S) == {Symbol[s] : s \in S}
In(st) == {s \in Signals : status[s] = st}

\* A stand-down's identity leaves out the time and price of the decision.
SameId(i, j) ==
    /\ i.kind = j.kind /\ i.sig = j.sig /\ i.why = j.why
    /\ i.kind = "block" \/ i.at = j.at

\* load_paper_trade_fills of the day, BUY and SELL_SHORT sides only.
EnteredToday == Of(Kind(fills, "enter")) \cap Session

-----------------------------------------------------------------------------
(* A cycle's snapshots and decisions.                                      *)

Idle == [pc |-> "idle", seen |-> {}, batch |-> {}, outbox |-> {}, event |-> None]

Goto(p, changes) == watcher' = [watcher EXCEPT ![p] = changes]

ReadIntents(p) ==
    /\ watcher[p].pc = "idle"
    /\ Goto(p, [Idle EXCEPT !.pc = "decide", !.seen = intents])
    /\ UNCHANGED <<db, now, reconciled, recorded, sends, crashes>>

\* Signals a cycle may judge for a new entry: no position, no entry.
Unentered(seen) == (Session \cap In("none")) \ Of(Kind(seen, "enter"))

\* The entries of snapshot intents count as alive until a position closed.
LockedSymbols(seen) ==
    SymbolsOf(In("open") \cup (Of(Kind(seen, "enter")) \ In("closed")))

\* An earlier intent of the episode, a stand-down included, bars an entry.
MayEnter(seen) ==
    {s \in Unentered(seen) \ Of(seen) : Symbol[s] \notin LockedSymbols(seen)}

\* Mutants: only this cycle's trades are announced; stand-downs are too.
OutboxOfCycle(seen, trades) == trades
OutboxOfAll(seen, trades) == trades \cup seen

\* Events are built for the trade intents read and decided, not for
\* stand-downs (notify_blocked is off).
Outbox(seen, trades) == trades \cup (seen \ Kind(seen, "block"))

DistinctSymbols(S) == Cardinality(SymbolsOf(S)) = Cardinality(S)

\* Counting from the snapshot, entries after exits: there is room for S.
RoomFor(S, openCount, dayCount) ==
    S # {} => /\ openCount + Cardinality(S) <= MaxOpen
              /\ dayCount + Cardinality(S) <= MaxDaily

\* Why a triggered signal finds no room after the entries S, if it does.
NoRoom(S, openCount, dayCount) ==
    IF openCount + Cardinality(S) >= MaxOpen THEN {"max_open_positions"}
    ELSE IF dayCount + Cardinality(S) >= MaxDaily THEN {"max_daily_entries"}
    ELSE {}

\* The intents of a cycle's decisions.
TradesOf(repaired, exits, enters) ==
    {Repair(s) : s \in repaired} \cup {Exit(s, now) : s \in exits}
    \cup {Enter(s, now) : s \in enters}
BlocksOf(refused, full, lack) ==
    {StandDown(s, now, "policy") : s \in refused}
    \cup {StandDown(s, now, w) : s \in full, w \in lack}

\* The cycle reads the positions, the canonical trades, a price and the fills
\* of the day, after the intents.  Prices, the policy and the new-entry gate
\* decide which signals exit, stand down or trigger; a signal in none of the
\* sets is only watched.
Decide(p) ==
    LET seen == watcher[p].seen
        repaired == In("open") \cap reconciled
        held == In("open") \ repaired
    IN  /\ watcher[p].pc = "decide"
        /\ \E exits \in SUBSET held, enters \in SUBSET MayEnter(seen),
              refused \in SUBSET (Unentered(seen) \cap Refusable) :
             \E full \in SUBSET (Unentered(seen) \ (enters \cup refused)) :
               LET openCount == Cardinality(held \ exits)
                   dayCount == Cardinality(EnteredToday)
                   lack == NoRoom(enters, openCount, dayCount)
                   trades == TradesOf(repaired, exits, enters)
                   blocks == BlocksOf(refused, full, lack)
               IN  /\ enters \cap refused = {}
                   /\ DistinctSymbols(enters)
                   /\ RoomFor(enters, openCount, dayCount)
                   /\ full # {} => lack # {}
                   /\ Goto(p, [Idle EXCEPT
                          !.pc = "persist", !.batch = trades \cup blocks,
                          !.outbox = Outbox(seen, trades)])
    /\ UNCHANGED <<db, now, reconciled, recorded, sends, crashes>>

-----------------------------------------------------------------------------
(* persist_trade_watcher_lifecycle: one BEGIN IMMEDIATE transaction.       *)

\* The batch's entries that would be new rows: the unique index on the
\* episode ignores any other.
Claims(batch) ==
    {e \in Kind(batch, "enter") : e.sig \notin Of(Kind(intents, "enter"))}

\* _entry_admission_rejection, once the entries A are admitted.  Positions
\* the batch itself closes still count.
Rejected(e, A) ==
    \/ Symbol[e.sig] \in SymbolsOf(In("open") \cup Of(A))
    \/ Cardinality(In("open")) + Cardinality(A) >= MaxOpen
    \/ Cardinality(EnteredToday) + Cardinality(A) >= MaxDaily

\* Mutant: the cycle's own counts are trusted inside the transaction.
AdmissionsUnchecked(batch) == {Claims(batch)}

\* What the loop over the batch may admit, in whatever order it runs.
Admissions(batch) ==
    {A \in SUBSET Claims(batch) :
        /\ \A e \in A : Symbol[e.sig] \notin SymbolsOf(In("open"))
        /\ DistinctSymbols(Of(A))
        /\ RoomFor(A, Cardinality(In("open")), Cardinality(EnteredToday))
        /\ \A e \in Claims(batch) \ A : Rejected(e, A)}

\* Mutant: a CLOSED row is replaced without comparing it.
ContradictsNoClose(batch) ==
    \/ \E i \in batch, j \in intents : SameId(i, j) /\ i # j
    \/ \E i \in Kind(batch, "enter") \cap intents : status[i.sig] = "closed"

\* Stored truth the batch contradicts: a stand-down at another instant under
\* its stable id, a retried entry whose position has closed, a close of a
\* position another intent closed.
Contradicts(batch) ==
    \/ \E i \in batch, j \in intents : SameId(i, j) /\ i # j
    \/ \E i \in Kind(batch, "enter") \cap intents : status[i.sig] = "closed"
    \/ \E i \in Kind(batch, "exit") : status[i.sig] = "closed" /\ i \notin fills

\* Two cycles may price an entry on one bar: same id, other observation.
MayShareBar(batch) ==
    \E i \in Kind(batch, "enter"), j \in Kind(intents, "enter") :
        i.sig = j.sig /\ i.at # j.at

\* Mutant: events survive a rejection.
DurableUnfiltered(outbox, rows) == outbox

\* After the transaction, events of intents that are not stored are dropped.
Durable(outbox, rows) == outbox \cap rows

Persist(p) ==
    LET w == watcher[p] IN
    /\ w.pc = "persist"
    /\ ~Contradicts(w.batch)
    /\ \E admitted \in Admissions(w.batch) :
         LET kept == admitted \cup (w.batch \ Kind(w.batch, "enter"))
                              \cup (w.batch \cap intents)
         IN  /\ intents' = intents \cup kept
             /\ status' = [s \in Signals |->
                   IF s \in Of(Kind(kept, "exit")) THEN "closed"
                   ELSE IF s \in Of(Kind(kept, "enter")) THEN "open"
                   ELSE status[s]]
             /\ fills' = fills \cup (kept \ Kind(kept, "block"))
             /\ \E mode \in {"dispatch"} \cup (IF DryRuns THEN {"dryrun"} ELSE {}) :
                  Goto(p, [Idle EXCEPT !.pc = mode,
                                       !.outbox = Durable(w.outbox, intents')])
    /\ UNCHANGED <<now, reconciled, recorded, sends, crashes>>

\* A StorageError rolls the whole batch back and ends the cycle.
PersistRaises(p) ==
    /\ watcher[p].pc = "persist"
    /\ Contradicts(watcher[p].batch) \/ MayShareBar(watcher[p].batch)
    /\ Goto(p, Idle)
    /\ UNCHANGED <<db, now, reconciled, recorded, sends, crashes>>

-----------------------------------------------------------------------------
(* dispatch_events over one channel.                                       *)

\* Mutant: the recorded key is not looked up.
ClaimUnchecked(p) ==
    /\ watcher[p].pc = "dispatch"
    /\ \E e \in watcher[p].outbox :
         Goto(p, [watcher[p] EXCEPT !.pc = "send", !.event = e])
    /\ UNCHANGED <<db, now, reconciled, recorded, sends, crashes>>

\* has_notification is false.
Claim(p) ==
    /\ watcher[p].pc = "dispatch"
    /\ \E e \in watcher[p].outbox \ recorded :
         Goto(p, [watcher[p] EXCEPT !.pc = "send", !.event = e])
    /\ UNCHANGED <<db, now, reconciled, recorded, sends, crashes>>

Deliver(p) ==
    /\ watcher[p].pc = "send"
    /\ sends' = [sends EXCEPT ![watcher[p].event] = @ + 1]
    /\ Goto(p, [watcher[p] EXCEPT !.pc = "record"])
    /\ UNCHANGED <<db, now, reconciled, recorded, crashes>>

\* notifier.send raises, and the exception leaves the cycle.
DeliverFails(p) ==
    /\ watcher[p].pc = "send"
    /\ Goto(p, Idle)
    /\ UNCHANGED <<db, now, reconciled, recorded, sends, crashes>>

Record(p) ==
    /\ watcher[p].pc = "record"
    /\ recorded' = recorded \cup {watcher[p].event}
    /\ Goto(p, [watcher[p] EXCEPT !.pc = "dispatch", !.event = None,
                                  !.outbox = @ \ {watcher[p].event}])
    /\ UNCHANGED <<db, now, reconciled, sends, crashes>>

\* A dry run records the same event key without sending.
DryRun(p) ==
    /\ watcher[p].pc = "dryrun"
    /\ \E e \in watcher[p].outbox \ recorded :
         /\ recorded' = recorded \cup {e}
         /\ Goto(p, [watcher[p] EXCEPT !.outbox = @ \ {e}])
    /\ UNCHANGED <<db, now, reconciled, sends, crashes>>

Finish(p) ==
    /\ watcher[p].pc \in {"dispatch", "dryrun"}
    /\ watcher[p].outbox \subseteq recorded
    /\ Goto(p, Idle)
    /\ UNCHANGED <<db, now, reconciled, recorded, sends, crashes>>

-----------------------------------------------------------------------------
(* The environment.                                                        *)

\* The process dies: SQLite keeps committed transactions only.
Crash(p) ==
    /\ watcher[p].pc # "idle"
    /\ crashes < MaxCrashes
    /\ crashes' = crashes + 1
    /\ Goto(p, Idle)
    /\ UNCHANGED <<db, now, reconciled, recorded, sends>>

Tick ==
    /\ now < LastInstant
    /\ now' = now + 1
    /\ UNCHANGED <<db, reconciled, recorded, sends, crashes, watcher>>

\* The canonical EOD reconciliation writes the exit of a trade.
Reconcile(s) ==
    /\ status[s] # "none"
    /\ s \notin reconciled
    /\ reconciled' = reconciled \cup {s}
    /\ UNCHANGED <<db, now, recorded, sends, crashes, watcher>>

-----------------------------------------------------------------------------
Init ==
    /\ intents = {Enter(s, 0) : s \in Carried}
    /\ status = [s \in Signals |-> IF s \in Carried THEN "open" ELSE "none"]
    /\ fills = intents
    /\ now = 1
    /\ reconciled = {}
    /\ recorded = intents
    /\ sends = [i \in Trades |-> IF i \in intents THEN 1 ELSE 0]
    /\ crashes = 0
    /\ watcher = [p \in Procs |-> Idle]

Cycle(p) ==
    \/ ReadIntents(p) \/ Decide(p) \/ Persist(p) \/ PersistRaises(p)
    \/ Claim(p) \/ Deliver(p) \/ Record(p) \/ DryRun(p) \/ Finish(p)

Next ==
    \/ \E p \in Procs : Cycle(p) \/ DeliverFails(p) \/ Crash(p)
    \/ Tick
    \/ \E s \in Reconcilable : Reconcile(s)

Spec == Init /\ [][Next]_vars

\* The scheduler keeps starting cycles and a started one runs on; a channel
\* that is tried again and again delivers in the end.
Fairness == \A p \in Procs : WF_vars(Cycle(p)) /\ SF_vars(Deliver(p))
LiveSpec == Spec /\ Fairness

-----------------------------------------------------------------------------
(* Properties.                                                             *)

\* What a process may hold.
Locals == [pc : {"idle", "decide", "persist", "dispatch", "dryrun", "send", "record"},
           seen : SUBSET (Trades \cup Blocks), batch : SUBSET (Trades \cup Blocks),
           outbox : SUBSET Trades, event : Trades \cup {None}]

\* Type invariant.
TypeOK ==
    /\ intents \subseteq Trades \cup Blocks /\ fills \subseteq Trades
    /\ status \in [Signals -> {"none", "open", "closed"}]
    /\ now \in 0 .. LastInstant /\ reconciled \subseteq Signals
    /\ recorded \subseteq Trades /\ sends \in [Trades -> Nat]
    /\ crashes \in 0 .. MaxCrashes
    /\ watcher \in [Procs -> Locals]

\* Whatever overlapping cycles decided on their snapshots, the portfolio is
\* within its limits: max_open_positions, one open position per symbol, and
\* max_daily_entries (the atomic admission of sqlite_store.py:5491).
WithinLimits ==
    /\ Cardinality(In("open")) <= MaxOpen
    /\ DistinctSymbols(In("open"))
    /\ Cardinality(EnteredToday) <= MaxDaily

\* A position has exactly one durable entry, a closed one exactly one durable
\* exit, every trade intent has its fill, and no other fill exists, however
\* cycles overlap, die or are rolled back.
LifecycleLinked ==
    /\ fills = intents \ Kind(intents, "block")
    /\ \A s \in Signals :
         LET entries == {i \in Kind(fills, "enter") : i.sig = s}
             exits == {i \in Kind(fills, "exit") : i.sig = s}
         IN  /\ Cardinality(entries) = IF status[s] = "none" THEN 0 ELSE 1
             /\ Cardinality(exits) = IF status[s] = "closed" THEN 1 ELSE 0

\* Nobody is told of a trade the ledger does not hold: an entry the admission
\* rejected, or a batch that was rolled back, is never sent.
OnlyDurableSent == \A i \in Trades : sends[i] > 0 => i \in intents

\* A recorded notification did leave the process, unless a dry run recorded
\* its key, and a trade is sent again only for a crash or a cycle overlapping
\* the first send.
SendsExplained ==
    \A i \in Trades :
        /\ i \in recorded => sends[i] > 0 \/ DryRuns
        /\ sends[i] <= Cardinality(Procs) + crashes

\* The intents are a retry-safe outbox: the notification of every durable
\* trade is recorded in the end, through failed sends and crashes, as long as
\* no signal stood down (see ProtectionReachesLedger).
EveryTradeNotified ==
    []<>(intents \subseteq recorded \/ Kind(intents, "block") # {})

Book ==
    INSTANCE TradeBook WITH
        Opening <- {Enter(s, 0) : s \in Carried},
        trades <- fills, told <- {i \in Trades : sends[i] > 0}

\* Overlapping cycles, their stale snapshots, rollbacks and deaths move the
\* fills as atomic transactions of one book would, and no trade is announced
\* before its transaction.
ImplementsTradeBook == Book!Spec

\* The comment at trade_watcher_service.py:179 and the test at
\* test_trade_watcher_service.py:817: what gates new entries never aborts the
\* exit of an open position.
ProtectionReachesLedger ==
    \A p \in Procs :
        LET batch == watcher[p].batch IN
        (\E e \in Kind(batch, "exit") : status[e.sig] = "open")
            => ~Contradicts(batch)
=============================================================================
