--------------------------- MODULE PaperExecution ---------------------------
(***************************************************************************)
(* One market date of the Alpaca paper execution slice                     *)
(* (intraday_scanner/execution/): run_paper_session is started again and   *)
(* again by the five-minute monitor, asks the broker what it already did,  *)
(* submits entries under deterministic client order ids, manages the open  *)
(* positions and refreshes its own store.  The broker is the environment:  *)
(* it fills, exits and expires orders on its own, may refuse a call, may   *)
(* fail to answer one it carried out, and keeps its state when the session *)
(* process dies.                                                           *)
(***************************************************************************)
EXTENDS Naturals, Sequences, FiniteSets

CONSTANTS
    Symbols,        \* tickers
    Kinds,          \* strategy versions that make an id: gate-approved, pilot
    Ids,            \* client order ids: one per symbol and strategy version
    Pilot,          \* the strategy version of the paper pilot
    MaxConcurrent,  \* RiskSettings.max_concurrent
    MaxEntries,     \* RiskSettings.max_entries_per_day
    MaxRows,        \* bound: candidate rows one session reads
    Faults,         \* subset of {"read", "write", "crash"}
    Lookalike       \* ids whose digest contains the digits 404

ASSUME IdsAssumption == IsFiniteSet(Ids) /\ Ids \subseteq Symbols \X Kinds
ASSUME LimitsAssumption == MaxConcurrent \in Nat /\ MaxEntries \in Nat
ASSUME RowsAssumption == MaxRows \in Nat

VARIABLES
    \* the broker
    entry,      \* id -> what became of the bracket entry sent under that id
    clock,      \* the regular session: "open", last ten minutes, "closed"
    \* the operator
    kill,       \* the kill switch
    \* PaperExecutionStore, on disk
    store,      \* ids of the rows of the orders table with side = 'buy'
    \* the session process, in memory
    pc,         \* the next call it makes
    todo,       \* plans not yet handled, the current one first
    seen,       \* what the preflight clock said
    forced,     \* the --force-exit flag
    flatten,    \* at_the_close, the receipt's flatten_triggered
    positions,  \* symbols of the positions snapshot still to be handled
    openIds,    \* brackets of the open-orders snapshot still to be cancelled
    outcome,    \* how the last session ended
    \* history, read by properties only
    lost,           \* ids accepted by a call whose answer was never recorded
    resubmitted,    \* ids POSTed although the broker already had them
    lateposts,      \* POSTs since the kill switch was engaged
    forcedToday     \* some session ran with --force-exit

broker  == <<entry, clock>>
session == <<pc, todo, seen, forced, flatten, positions, openIds, outcome>>
history == <<lost, resubmitted, lateposts, forcedToday>>
vars    == <<broker, kill, store, session, history>>

Clock     == {"open", "closing", "closed"}
EntryState == {"none", "resting", "held", "naked", "done"}
Pc        == {"idle", "reconcile", "lookup", "gate", "post", "record",
              "positions", "orders", "cancel", "close", "refresh"}
Outcome   == {"none", "completed", "flattened", "crashed", "preflight_failed",
              "raised_reconcile", "raised_entry", "raised_management",
              "raised_refresh"}

----------------------------------------------------------------------------
(* What the broker's reads return.                                         *)

\* Orders the broker knows by client order id.
Accepted == {id \in Ids : entry[id] # "none"}

\* get_positions: symbols with shares, whatever protects them.
Exposed(s) == \E id \in Ids : id[1] = s /\ entry[id] \in {"held", "naked"}
Positions == {s \in Symbols : Exposed(s)}

\* Mutant: the grouping hands back symbols where order ids are expected.
OpenOrdersAsSymbols == {id[1] : id \in {i \in Ids : entry[i] \in {"resting", "held"}}}

\* get_open_orders: an unfilled entry with its waiting legs, or live legs.
OpenOrders == {id \in Ids : entry[id] \in {"resting", "held"}}

CanFail(f) == f \in Faults

----------------------------------------------------------------------------
Init ==
    /\ entry = [id \in Ids |-> "none"]
    /\ clock = "open"
    /\ kill = FALSE
    /\ store = {}
    /\ pc = "idle"
    /\ todo = <<>>
    /\ seen = "open"
    /\ forced = FALSE
    /\ flatten = FALSE
    /\ positions = {}
    /\ openIds = {}
    /\ outcome = "none"
    /\ lost = {}
    /\ resubmitted = {}
    /\ lateposts = 0
    /\ forcedToday = FALSE

----------------------------------------------------------------------------
(* The broker and the operator.                                            *)

\* A resting limit entry fills; its bracket legs become live orders.
Fill(id) ==
    /\ clock # "closed"
    /\ entry[id] = "resting"
    /\ entry' = [entry EXCEPT ![id] = "held"]
    /\ UNCHANGED <<clock, kill, store, session, history>>

\* The stop or the take-profit leg takes the position out.
BracketExit(id) ==
    /\ clock # "closed"
    /\ entry[id] = "held"
    /\ entry' = [entry EXCEPT ![id] = "done"]
    /\ UNCHANGED <<clock, kill, store, session, history>>

EnterWindow ==
    /\ clock = "open"
    /\ clock' = "closing"
    /\ UNCHANGED <<entry, kill, store, session, history>>

\* The bell.  Unfilled day orders expire.  A session that began outside the
\* last ten minutes is over by now: its budget is 75 s and a call takes 8 s.
CloseMarket ==
    /\ clock = "closing"
    /\ pc # "idle" => seen # "open"
    /\ clock' = "closed"
    /\ entry' = [id \in Ids |-> IF entry[id] = "resting" THEN "done" ELSE entry[id]]
    /\ UNCHANGED <<kill, store, session, history>>

ToggleKillSwitch ==
    /\ kill' = ~kill
    /\ lateposts' = 0
    /\ UNCHANGED <<broker, store, session, lost, resubmitted, forcedToday>>

----------------------------------------------------------------------------
(* The session: start, preflight and opening reconcile.                    *)

\* load_candidates and the two loops over it: gate-approved plans by score,
\* then the pilot plans.  One symbol may have several rows.
Worklists ==
    {w \in UNION {[1..n -> Ids] : n \in 0..MaxRows} :
        \A i, j \in DOMAIN w : i < j /\ w[i][2] = Pilot => w[j][2] = Pilot}

Idle(how) ==
    /\ pc' = "idle"
    /\ outcome' = how
    /\ todo' = <<>>
    /\ positions' = {}
    /\ openIds' = {}
    /\ seen' = "open"
    /\ forced' = FALSE
    /\ flatten' = FALSE

\* Preflight answered: account and clock.
StartSession(force) ==
    /\ pc = "idle"
    /\ pc' = "reconcile"
    /\ seen' = clock
    /\ forced' = force
    /\ forcedToday' = (forcedToday \/ force)
    /\ outcome' = "none"
    /\ UNCHANGED <<broker, kill, store, todo, flatten, positions, openIds,
                   lost, resubmitted, lateposts>>

\* The only broker error run_paper_session itself catches.
PreflightFailed ==
    /\ pc = "idle"
    /\ CanFail("read")
    /\ outcome' = "preflight_failed"
    /\ UNCHANGED <<broker, kill, store, pc, todo, seen, forced, flatten,
                   positions, openIds, history>>

\* Candidates reach submit_entry only in an open market outside the window.
AfterReconcile(w) ==
    IF seen = "open" /\ w # <<>>
    THEN pc' = "lookup" /\ todo' = w
    ELSE pc' = "positions" /\ todo' = <<>>

\* Mutant: the opening reconcile forgets to adopt.
ReconcileWithoutAdopting ==
    /\ pc = "reconcile"
    /\ \E w \in Worklists : AfterReconcile(w)
    /\ UNCHANGED <<broker, kill, store, seen, forced, flatten, positions,
                   openIds, outcome, history>>

\* reconcile(): adopt every order of this date, then read positions and
\* account and mark equity.
Reconcile ==
    /\ pc = "reconcile"
    /\ store' = store \cup Accepted
    /\ \E w \in Worklists : AfterReconcile(w)
    /\ UNCHANGED <<broker, kill, seen, forced, flatten, positions, openIds,
                   outcome, history>>

\* One of its three reads fails, before or after the orders were adopted.
ReconcileRaises ==
    /\ pc = "reconcile"
    /\ CanFail("read")
    /\ store' \in {store, store \cup Accepted}
    /\ Idle("raised_reconcile")
    /\ UNCHANGED <<broker, kill, history>>

----------------------------------------------------------------------------
(* submit_entry, for the first plan of todo.                               *)

\* On to the next candidate, or to management.
NextPlan ==
    /\ todo' = Tail(todo)
    /\ pc' = IF Tail(todo) = <<>> THEN "positions" ELSE "lookup"

EntryStep ==
    UNCHANGED <<clock, kill, seen, forced, flatten, positions, openIds, forcedToday>>

\* Screened out, incomplete plan, no live quote, or over budget.
SkipPlan ==
    /\ pc = "lookup"
    /\ NextPlan
    /\ EntryStep
    /\ UNCHANGED <<entry, store, outcome, lost, resubmitted, lateposts>>

\* find_by_client_order_id knows the id: adopt it, never resubmit.
LookupFound ==
    /\ pc = "lookup"
    /\ entry[Head(todo)] # "none"
    /\ store' = store \cup {Head(todo)}
    /\ NextPlan
    /\ EntryStep
    /\ UNCHANGED <<entry, outcome, lost, resubmitted, lateposts>>

\* Mutant: any failed lookup is read as "the broker does not have it".
LookupAbsentOnAnyError ==
    /\ pc = "lookup"
    /\ entry[Head(todo)] = "none" \/ CanFail("read")
    /\ pc' = "gate"
    /\ EntryStep
    /\ UNCHANGED <<entry, store, todo, outcome, lost, resubmitted, lateposts>>

\* The broker answers 404 - or any error at all for an id that spells 404,
\* because the error text quotes the request path.
LookupAbsent ==
    /\ pc = "lookup"
    /\ \/ entry[Head(todo)] = "none"
       \/ CanFail("read") /\ Head(todo) \in Lookalike
    /\ pc' = "gate"
    /\ EntryStep
    /\ UNCHANGED <<entry, store, todo, outcome, lost, resubmitted, lateposts>>

\* A failed read in submit_entry leaves the session with an exception.
EntryRaises ==
    /\ \/ pc = "lookup" /\ Head(todo) \notin Lookalike
       \/ pc = "gate"
    /\ CanFail("read")
    /\ Idle("raised_entry")
    /\ UNCHANGED <<broker, kill, store, history>>

\* Mutants: an off-by-one in the daily limit; no look at the kill switch.
WithinLimitsOffByOne ==
    /\ ~kill
    /\ Cardinality(Positions) < MaxConcurrent
    /\ Cardinality(store) <= MaxEntries
WithinLimitsIgnoringSwitch ==
    /\ Cardinality(Positions) < MaxConcurrent
    /\ Cardinality(store) < MaxEntries

\* evaluate_entry's limits; open positions and recorded entries only.
WithinLimits ==
    /\ ~kill
    /\ Cardinality(Positions) < MaxConcurrent
    /\ Cardinality(store) < MaxEntries

GateApproves ==
    /\ pc = "gate"
    /\ WithinLimits
    /\ pc' = "post"
    /\ EntryStep
    /\ UNCHANGED <<entry, store, todo, outcome, lost, resubmitted, lateposts>>

\* A limit, or staleness, daily loss, sizing, tick rounding.
GateRefuses ==
    /\ pc = "gate"
    /\ NextPlan
    /\ EntryStep
    /\ UNCHANGED <<entry, store, outcome, lost, resubmitted, lateposts>>

CountLatePost == lateposts' = IF kill THEN lateposts + 1 ELSE lateposts

\* Accepted and answered: the order is recorded next.
PostAnswered ==
    /\ pc = "post"
    /\ entry[Head(todo)] = "none"
    /\ entry' = [entry EXCEPT ![Head(todo)] = "resting"]
    /\ pc' = "record"
    /\ CountLatePost
    /\ EntryStep
    /\ UNCHANGED <<store, todo, outcome, lost, resubmitted>>

\* Accepted, and the answer never arrives: submit_failed, nothing recorded.
PostUnanswered ==
    /\ pc = "post"
    /\ CanFail("write")
    /\ entry[Head(todo)] = "none"
    /\ entry' = [entry EXCEPT ![Head(todo)] = "resting"]
    /\ lost' = lost \cup {Head(todo)}
    /\ NextPlan
    /\ CountLatePost
    /\ EntryStep
    /\ UNCHANGED <<store, outcome, resubmitted>>

\* Refused, or never reached the broker; an id it already has is refused.
PostRefused ==
    /\ pc = "post"
    /\ resubmitted' = IF entry[Head(todo)] = "none" THEN resubmitted
                      ELSE resubmitted \cup {Head(todo)}
    /\ NextPlan
    /\ CountLatePost
    /\ EntryStep
    /\ UNCHANGED <<entry, store, outcome, lost>>

\* Mutant: a submitted order is not written to the store.
RecordNothing ==
    /\ pc = "record"
    /\ NextPlan
    /\ EntryStep
    /\ UNCHANGED <<entry, store, outcome, lost, resubmitted, lateposts>>

RecordEntry ==
    /\ pc = "record"
    /\ store' = store \cup {Head(todo)}
    /\ NextPlan
    /\ EntryStep
    /\ UNCHANGED <<entry, outcome, lost, resubmitted, lateposts>>

----------------------------------------------------------------------------
(* manage_positions and the closing refresh.                               *)

\* Mutant: any open session counts as the close.
AlwaysAtTheClose == seen # "closed"

\* Judged now, from the bell the preflight announced.
AtTheClose == seen # "closed" /\ clock # "open"

ManageStep == UNCHANGED <<clock, kill, store, todo, seen, forced, history>>

\* get_positions; held positions need nothing from the session.
GetPositions ==
    /\ pc = "positions"
    /\ flatten' = AtTheClose
    /\ positions' = IF forced \/ AtTheClose THEN Positions ELSE {}
    /\ pc' = IF positions' = {} THEN "refresh" ELSE "orders"
    /\ ManageStep
    /\ UNCHANGED <<entry, openIds, outcome>>

ManagementRaises ==
    /\ pc = "positions"
    /\ CanFail("read")
    /\ Idle("raised_management")
    /\ UNCHANGED <<broker, kill, store, history>>

\* get_open_orders; a failed lookup is logged and read as no open orders.
GetOpenOrders ==
    /\ pc = "orders"
    /\ openIds' \in {OpenOrders} \cup (IF CanFail("read") THEN {{}} ELSE {})
    /\ pc' = "cancel"
    /\ ManageStep
    /\ UNCHANGED <<entry, flatten, positions, outcome>>

\* Cancelling a bracket: an unfilled entry dies, live legs leave the position
\* unprotected, anything else was already terminal.  An unanswered cancel may
\* or may not have happened; either way the error is skipped.
CancelOrder(id) ==
    /\ pc = "cancel"
    /\ id \in openIds /\ id[1] \in positions
    /\ openIds' = openIds \ {id}
    /\ \/ entry' = [entry EXCEPT ![id] = CASE @ = "resting" -> "done"
                                           [] @ = "held"    -> "naked"
                                           [] OTHER         -> @]
       \/ CanFail("write") /\ UNCHANGED entry
    /\ ManageStep
    /\ UNCHANGED <<pc, flatten, positions, outcome>>

\* All orders of the symbol were tried.
CancelsTried(s) ==
    /\ pc = "cancel"
    /\ s \in positions
    /\ \A id \in openIds : id[1] # s

PositionDone(s) ==
    /\ positions' = positions \ {s}
    /\ pc' = IF positions' = {} THEN "refresh" ELSE "cancel"
    /\ ManageStep
    /\ UNCHANGED <<flatten, openIds, outcome>>

\* close_position: the market order takes out every share no leg reserves.
ClosePosition(s) ==
    /\ CancelsTried(s)
    /\ clock # "closed"
    /\ \A id \in Ids : id[1] = s => entry[id] # "held"
    /\ entry' = [id \in Ids |-> IF id[1] = s /\ entry[id] = "naked"
                                THEN "done" ELSE entry[id]]
    /\ PositionDone(s)

\* Shares still reserved, no position left, market shut or no answer:
\* time_exit_failed, and the loop goes on.
CloseFails(s) ==
    /\ CancelsTried(s)
    /\ \/ CanFail("write")
       \/ clock = "closed"
       \/ \E id \in Ids : id[1] = s /\ entry[id] = "held"
       \/ ~Exposed(s)
    /\ UNCHANGED entry
    /\ PositionDone(s)

\* The closing reconcile, or its omission when the budget is spent.
Refresh ==
    /\ pc = "refresh"
    /\ store' \in {store, store \cup Accepted}
    /\ Idle(IF flatten THEN "flattened" ELSE "completed")
    /\ UNCHANGED <<broker, kill, history>>

RefreshRaises ==
    /\ pc = "refresh"
    /\ CanFail("read")
    /\ store' \in {store, store \cup Accepted}
    /\ Idle("raised_refresh")
    /\ UNCHANGED <<broker, kill, history>>

\* The process dies (the monitor's stage timeout, a reboot) at any point.
Crash ==
    /\ CanFail("crash")
    /\ pc # "idle"
    /\ lost' = IF pc = "record" THEN lost \cup {Head(todo)} ELSE lost
    /\ Idle("crashed")
    /\ UNCHANGED <<broker, kill, store, resubmitted, lateposts, forcedToday>>

----------------------------------------------------------------------------
Session ==
    \/ \E force \in BOOLEAN : StartSession(force)
    \/ PreflightFailed
    \/ Reconcile \/ ReconcileRaises
    \/ SkipPlan \/ LookupFound \/ LookupAbsent \/ EntryRaises
    \/ GateApproves \/ GateRefuses
    \/ PostAnswered \/ PostUnanswered \/ PostRefused \/ RecordEntry
    \/ GetPositions \/ ManagementRaises \/ GetOpenOrders
    \/ \E id \in Ids : CancelOrder(id)
    \/ \E s \in Symbols : ClosePosition(s) \/ CloseFails(s)
    \/ Refresh \/ RefreshRaises

Environment ==
    \/ \E id \in Ids : Fill(id) \/ BracketExit(id)
    \/ EnterWindow \/ CloseMarket
    \/ ToggleKillSwitch
    \/ Crash

Next == Session \/ Environment

Spec == Init /\ [][Next]_vars

\* The monitor keeps starting sessions, a session never blocks (every call
\* has a timeout), and the broker does not fail the opening reconcile forever.
Fairness == WF_vars(Session) /\ SF_vars(Reconcile)

LiveSpec == Spec /\ Fairness

----------------------------------------------------------------------------
(* Type invariant.                                                         *)
TypeOK ==
    /\ entry \in [Ids -> EntryState]
    /\ clock \in Clock
    /\ kill \in BOOLEAN
    /\ store \subseteq Ids
    /\ pc \in Pc
    /\ todo \in Seq(Ids)
    /\ seen \in Clock
    /\ forced \in BOOLEAN
    /\ flatten \in BOOLEAN
    /\ positions \subseteq Symbols
    /\ openIds \subseteq Ids
    /\ outcome \in Outcome
    /\ lost \subseteq Ids
    /\ resubmitted \subseteq Ids
    /\ lateposts \in Nat
    /\ forcedToday \in BOOLEAN

\* paper_engine.submit_entry, "reconciles before submitting, never
\* blind-retries": whatever was lost, crashed or restarted before, no session
\* POSTs an id the broker already holds, unless the id itself spells 404 and a
\* failed lookup of it is taken for an absence.
OnlyLookalikesResubmitted == resubmitted \subseteq Lookalike

\* The durable store against the broker: it invents no order, and an order it
\* does not know yet is one whose answer never came back (submit timeout or
\* death of the process before upsert_order) or the one being recorded now.
OrdersAccountedFor ==
    /\ store \subseteq Accepted
    /\ Accepted \subseteq
         store \cup lost \cup (IF pc = "record" THEN {Head(todo)} ELSE {})

\* max_entries_per_day counts rows of the store, so the broker may hold more
\* entries than the limit - but only by as many as answers were lost.
OvershootOnlyByLostAnswers ==
    Cardinality(Accepted) <= MaxEntries + Cardinality(lost)

\* The kill switch is read for each plan before its POST: after it is engaged
\* at most the one order already past the gate can still be sent.
KillSwitchStopsAllButOne == lateposts <= 1

\* A position loses its bracket only to a flatten that was due: until the
\* last ten minutes, or an operator's forced exit, every position is protected.
ProtectedUntilFlatten ==
    clock = "open" /\ ~forcedToday => \A id \in Ids : entry[id] # "naked"

\* Every order the broker accepted is eventually in the store, however its
\* answer was lost.
EveryOrderRecorded ==
    \A id \in Ids : (entry[id] # "none") ~> (id \in store)

=============================================================================
