------------------------ MODULE PaperExecutionProofs ------------------------
(* Theorems about PaperExecution, for every value of its constants. *)
EXTENDS PaperExecution, FiniteSetTheorems, SequenceTheorems, TLAPS

\* A worklist is a sequence of ids.
LEMMA WorklistsAreSequences == Worklists \subseteq Seq(Ids)
<1> SUFFICES ASSUME NEW n \in 0..MaxRows, NEW w \in [1..n -> Ids]
             PROVE  w \in Seq(Ids)
  BY DEF Worklists
<1>1. n \in Nat
  BY RowsAssumption
<1> QED
  BY <1>1

LEMMA EmptyWorklist == << >> \in Seq(Ids)
  BY EmptySeq

\* Inside submit_entry there is a current plan.
PlanInHand == pc \in {"lookup", "gate", "post", "record"} => todo # <<>>

TypeInv == TypeOK /\ PlanInHand

LEMMA TypeInit == Init => TypeInv
<1> SUFFICES ASSUME Init PROVE TypeInv
  OBVIOUS
<1>1. entry \in [Ids -> EntryState]
  BY DEF Init, EntryState
<1>2. kill \in BOOLEAN /\ forced \in BOOLEAN /\ flatten \in BOOLEAN /\ forcedToday \in BOOLEAN
  BY DEF Init
<1>3. todo \in Seq(Ids)
  BY EmptyWorklist DEF Init
<1>4. /\ clock \in Clock /\ seen \in Clock /\ pc \in Pc /\ outcome \in Outcome
      /\ lateposts \in Nat /\ PlanInHand
  BY DEF Init, Clock, Pc, Outcome, PlanInHand
<1>5. /\ store \subseteq Ids /\ positions \subseteq Symbols /\ openIds \subseteq Ids
      /\ lost \subseteq Ids /\ resubmitted \subseteq Ids
  BY DEF Init
<1> QED
  BY <1>1, <1>2, <1>3, <1>4, <1>5 DEF TypeInv, TypeOK

\* Every step keeps the type invariant.
LEMMA TypeStep == TypeInv /\ [Next]_vars => TypeInv'
<1> SUFFICES ASSUME TypeInv, [Next]_vars PROVE TypeInv'
  OBVIOUS
<1> USE DEF TypeInv, TypeOK, PlanInHand, EntryState, Clock, Pc, Outcome,
            broker, session, history
<1>1. CASE \E force \in BOOLEAN : StartSession(force)
  <2>1. PICK force \in BOOLEAN : StartSession(force)
    BY <1>1
  <2>2. forced' \in BOOLEAN /\ forcedToday' \in BOOLEAN
    BY <2>1 DEF StartSession
  <2>3. pc' = "reconcile" /\ seen' = clock /\ outcome' = "none"
    BY <2>1 DEF StartSession
  <2>4. UNCHANGED <<entry, clock, kill, store, todo, flatten, positions, openIds, lost,
                    resubmitted, lateposts>>
    BY <2>1 DEF StartSession
  <2> QED
    BY <2>2, <2>3, <2>4
<1>2. CASE PreflightFailed
  BY <1>2 DEF PreflightFailed
<1>3. CASE Reconcile
  <2>1. PICK w \in Worklists : AfterReconcile(w)
    BY <1>3 DEF Reconcile
  <2>2. todo' \in Seq(Ids) /\ ((pc' = "lookup" /\ todo' # <<>>) \/ pc' = "positions")
    BY <2>1, WorklistsAreSequences, EmptyWorklist DEF AfterReconcile
  <2>3. store' \subseteq Ids
    BY <1>3 DEF Reconcile, Accepted
  <2>4. UNCHANGED <<entry, clock, kill, seen, forced, flatten, positions, openIds, outcome,
                    lost, resubmitted, lateposts, forcedToday>>
    BY <1>3 DEF Reconcile
  <2> QED
    BY <2>2, <2>3, <2>4
<1>4. CASE ReconcileRaises
  BY <1>4, EmptyWorklist DEF ReconcileRaises, Idle, Accepted
<1>5. CASE SkipPlan
  BY <1>5 DEF SkipPlan, NextPlan, EntryStep
<1>6. CASE LookupFound
  BY <1>6 DEF LookupFound, NextPlan, EntryStep
<1>7. CASE LookupAbsent
  BY <1>7 DEF LookupAbsent, EntryStep
<1>8. CASE EntryRaises
  BY <1>8, EmptyWorklist DEF EntryRaises, Idle
<1>9. CASE GateApproves
  BY <1>9 DEF GateApproves, EntryStep
<1>10. CASE GateRefuses
  BY <1>10 DEF GateRefuses, NextPlan, EntryStep
<1>11. CASE PostAnswered
  BY <1>11 DEF PostAnswered, EntryStep, CountLatePost
<1>12. CASE PostUnanswered
  BY <1>12 DEF PostUnanswered, NextPlan, EntryStep, CountLatePost
<1>13. CASE PostRefused
  BY <1>13 DEF PostRefused, NextPlan, EntryStep, CountLatePost
<1>14. CASE RecordEntry
  BY <1>14 DEF RecordEntry, NextPlan, EntryStep
<1>15. CASE GetPositions
  BY <1>15 DEF GetPositions, Positions, ManageStep, AtTheClose
<1>16. CASE ManagementRaises
  BY <1>16, EmptyWorklist DEF ManagementRaises, Idle
<1>17. CASE GetOpenOrders
  BY <1>17 DEF GetOpenOrders, OpenOrders, ManageStep
<1>18. CASE \E id \in Ids : CancelOrder(id)
  BY <1>18 DEF CancelOrder, ManageStep
<1>19. CASE \E s \in Symbols : ClosePosition(s)
  BY <1>19 DEF ClosePosition, PositionDone, ManageStep
<1>20. CASE \E s \in Symbols : CloseFails(s)
  BY <1>20 DEF CloseFails, PositionDone, ManageStep
<1>21. CASE Refresh
  BY <1>21, EmptyWorklist DEF Refresh, Idle, Accepted
<1>22. CASE RefreshRaises
  BY <1>22, EmptyWorklist DEF RefreshRaises, Idle, Accepted
<1>23. CASE \E id \in Ids : Fill(id)
  BY <1>23 DEF Fill
<1>24. CASE \E id \in Ids : BracketExit(id)
  BY <1>24 DEF BracketExit
<1>25. CASE EnterWindow
  BY <1>25 DEF EnterWindow
<1>26. CASE CloseMarket
  BY <1>26 DEF CloseMarket
<1>27. CASE ToggleKillSwitch
  BY <1>27 DEF ToggleKillSwitch
<1>28. CASE Crash
  <2>1. lost' \subseteq Ids
    BY <1>28 DEF Crash
  <2> QED
    BY <1>28, <2>1, EmptyWorklist DEF Crash, Idle
<1>29. CASE UNCHANGED vars
  BY <1>29 DEF vars
<1> QED
  BY <1>1, <1>2, <1>3, <1>4, <1>5, <1>6, <1>7, <1>8, <1>9, <1>10, <1>11, <1>12, <1>13, <1>14, <1>15, <1>16, <1>17, <1>18, <1>19, <1>20, <1>21, <1>22, <1>23, <1>24, <1>25, <1>26, <1>27, <1>28, <1>29
  DEF Next, Session, Environment

\* The lookup's verdict holds until the POST: an id on its way to the broker is
\* new there or spells 404, an id on its way to the store is known there.
LookupSound ==
    /\ pc \in {"gate", "post"} => entry[Head(todo)] = "none" \/ Head(todo) \in Lookalike
    /\ pc = "record" => entry[Head(todo)] # "none"

EntryInv == LookupSound /\ OnlyLookalikesResubmitted /\ OrdersAccountedFor

LEMMA EntryInit == Init => EntryInv
  BY DEF Init, EntryInv, LookupSound, OnlyLookalikesResubmitted, OrdersAccountedFor, Accepted

\* Every step keeps it.
LEMMA EntryStepKeeps == TypeInv /\ EntryInv /\ [Next]_vars => EntryInv'
<1> SUFFICES ASSUME TypeInv, EntryInv, [Next]_vars PROVE EntryInv'
  OBVIOUS
<1> USE DEF TypeInv, TypeOK, PlanInHand, EntryState, EntryInv, LookupSound,
            OnlyLookalikesResubmitted, OrdersAccountedFor, Accepted,
            broker, session, history
<1>1. CASE \E force \in BOOLEAN : StartSession(force)
  BY <1>1 DEF StartSession
<1>2. CASE PreflightFailed
  BY <1>2 DEF PreflightFailed
<1>3. CASE Reconcile
  BY <1>3 DEF Reconcile, AfterReconcile, CanFail
<1>4. CASE ReconcileRaises
  BY <1>4 DEF ReconcileRaises, Idle
<1>5. CASE SkipPlan
  BY <1>5 DEF SkipPlan, NextPlan, EntryStep
<1>6. CASE LookupFound
  BY <1>6 DEF LookupFound, NextPlan, EntryStep
<1>7. CASE LookupAbsent
  BY <1>7 DEF LookupAbsent, EntryStep
<1>8. CASE EntryRaises
  BY <1>8 DEF EntryRaises, Idle
<1>9. CASE GateApproves
  BY <1>9 DEF GateApproves, EntryStep
<1>10. CASE GateRefuses
  BY <1>10 DEF GateRefuses, NextPlan, EntryStep
<1>11. CASE PostAnswered
  BY <1>11 DEF PostAnswered, EntryStep, CountLatePost
<1>12. CASE PostUnanswered
  BY <1>12 DEF PostUnanswered, NextPlan, EntryStep, CountLatePost
<1>13. CASE PostRefused
  BY <1>13 DEF PostRefused, NextPlan, EntryStep, CountLatePost
<1>14. CASE RecordEntry
  BY <1>14 DEF RecordEntry, NextPlan, EntryStep
<1>15. CASE GetPositions
  BY <1>15 DEF GetPositions, Positions, ManageStep
<1>16. CASE ManagementRaises
  BY <1>16 DEF ManagementRaises, Idle
<1>17. CASE GetOpenOrders
  BY <1>17 DEF GetOpenOrders, OpenOrders, ManageStep
<1>18. CASE \E id \in Ids : CancelOrder(id)
  BY <1>18 DEF CancelOrder, ManageStep
<1>19. CASE \E s \in Symbols : ClosePosition(s)
  <2>1. PICK s \in Symbols : ClosePosition(s)
    BY <1>19
  <2>2. pc' \in {"refresh", "cancel"}
    BY <2>1 DEF ClosePosition, PositionDone
  <2>3. \A id \in Ids : entry'[id] = "none" <=> entry[id] = "none"
    BY <2>1 DEF ClosePosition, PositionDone
  <2>4. UNCHANGED <<store, todo, lost, resubmitted>> /\ pc = "cancel"
    BY <2>1 DEF ClosePosition, CancelsTried, PositionDone, ManageStep
  <2> QED
    BY <2>2, <2>3, <2>4
<1>20. CASE \E s \in Symbols : CloseFails(s)
  <2>1. PICK s \in Symbols : CloseFails(s)
    BY <1>20
  <2>2. pc' \in {"refresh", "cancel"}
    BY <2>1 DEF CloseFails, PositionDone
  <2>3. \A id \in Ids : entry'[id] = "none" <=> entry[id] = "none"
    BY <2>1 DEF CloseFails, PositionDone
  <2>4. UNCHANGED <<store, todo, lost, resubmitted>> /\ pc = "cancel"
    BY <2>1 DEF CloseFails, CancelsTried, PositionDone, ManageStep
  <2> QED
    BY <2>2, <2>3, <2>4
<1>21. CASE Refresh
  BY <1>21 DEF Refresh, Idle
<1>22. CASE RefreshRaises
  BY <1>22 DEF RefreshRaises, Idle
<1>23. CASE \E id \in Ids : Fill(id)
  BY <1>23 DEF Fill
<1>24. CASE \E id \in Ids : BracketExit(id)
  BY <1>24 DEF BracketExit
<1>25. CASE EnterWindow
  BY <1>25 DEF EnterWindow
<1>26. CASE CloseMarket
  BY <1>26 DEF CloseMarket
<1>27. CASE ToggleKillSwitch
  BY <1>27 DEF ToggleKillSwitch
<1>28. CASE Crash
  BY <1>28 DEF Crash, Idle
<1>29. CASE UNCHANGED vars
  BY <1>29 DEF vars
<1> QED
  BY <1>1, <1>2, <1>3, <1>4, <1>5, <1>6, <1>7, <1>8, <1>9, <1>10, <1>11, <1>12, <1>13, <1>14, <1>15, <1>16, <1>17, <1>18, <1>19, <1>20, <1>21, <1>22, <1>23, <1>24, <1>25, <1>26, <1>27, <1>28, <1>29
  DEF Next, Session, Environment

----------------------------------------------------------------------------
(* The daily limit. *)

\* Entries whose acceptance the submitting session recorded or is recording.
Confirmed == Accepted \ lost

LimitInv ==
    /\ pc = "post" => Cardinality(store) < MaxEntries
    /\ Cardinality(Confirmed) <= MaxEntries

\* Only an answered POST confirms an entry.
LEMMA ConfirmedShrinks ==
  TypeInv /\ [Next]_vars /\ ~PostAnswered => Confirmed' \subseteq Confirmed
<1> SUFFICES ASSUME TypeInv, [Next]_vars, ~PostAnswered
             PROVE  Confirmed' \subseteq Confirmed
  OBVIOUS
<1> USE DEF TypeInv, TypeOK, PlanInHand, Confirmed, Accepted, broker, session, history
<1>1. CASE \E force \in BOOLEAN : StartSession(force)
  BY <1>1 DEF StartSession
<1>2. CASE PreflightFailed
  BY <1>2 DEF PreflightFailed
<1>3. CASE Reconcile
  BY <1>3 DEF Reconcile, AfterReconcile
<1>4. CASE ReconcileRaises
  BY <1>4 DEF ReconcileRaises, Idle
<1>5. CASE SkipPlan
  BY <1>5 DEF SkipPlan, NextPlan, EntryStep
<1>6. CASE LookupFound
  BY <1>6 DEF LookupFound, NextPlan, EntryStep
<1>7. CASE LookupAbsent
  BY <1>7 DEF LookupAbsent, EntryStep
<1>8. CASE EntryRaises
  BY <1>8 DEF EntryRaises, Idle
<1>9. CASE GateApproves
  BY <1>9 DEF GateApproves, EntryStep
<1>10. CASE GateRefuses
  BY <1>10 DEF GateRefuses, NextPlan, EntryStep
<1>11. CASE PostAnswered
  BY <1>11 DEF PostAnswered, EntryStep, CountLatePost
<1>12. CASE PostUnanswered
  BY <1>12 DEF PostUnanswered, NextPlan, EntryStep, CountLatePost
<1>13. CASE PostRefused
  BY <1>13 DEF PostRefused, NextPlan, EntryStep, CountLatePost
<1>14. CASE RecordEntry
  BY <1>14 DEF RecordEntry, NextPlan, EntryStep
<1>15. CASE GetPositions
  BY <1>15 DEF GetPositions, Positions, ManageStep
<1>16. CASE ManagementRaises
  BY <1>16 DEF ManagementRaises, Idle
<1>17. CASE GetOpenOrders
  BY <1>17 DEF GetOpenOrders, OpenOrders, ManageStep
<1>18. CASE \E id \in Ids : CancelOrder(id)
  BY <1>18 DEF CancelOrder, ManageStep
<1>19. CASE \E s \in Symbols : ClosePosition(s)
  BY <1>19 DEF ClosePosition, PositionDone, ManageStep
<1>20. CASE \E s \in Symbols : CloseFails(s)
  BY <1>20 DEF CloseFails, PositionDone, ManageStep
<1>21. CASE Refresh
  BY <1>21 DEF Refresh, Idle
<1>22. CASE RefreshRaises
  BY <1>22 DEF RefreshRaises, Idle
<1>23. CASE \E id \in Ids : Fill(id)
  BY <1>23 DEF Fill
<1>24. CASE \E id \in Ids : BracketExit(id)
  BY <1>24 DEF BracketExit
<1>25. CASE EnterWindow
  BY <1>25 DEF EnterWindow
<1>26. CASE CloseMarket
  BY <1>26 DEF CloseMarket
<1>27. CASE ToggleKillSwitch
  BY <1>27 DEF ToggleKillSwitch
<1>28. CASE Crash
  BY <1>28 DEF Crash, Idle
<1>29. CASE UNCHANGED vars
  BY <1>29 DEF vars
<1> QED
  BY <1>1, <1>2, <1>3, <1>4, <1>5, <1>6, <1>7, <1>8, <1>9, <1>10, <1>11, <1>12, <1>13, <1>14, <1>15, <1>16, <1>17, <1>18, <1>19, <1>20, <1>21, <1>22, <1>23, <1>24, <1>25, <1>26, <1>27, <1>28, <1>29
  DEF Next, Session, Environment

\* A plan is on its way to the broker only past the gate, with room left.
LEMMA PostHasRoom ==
  TypeInv /\ [Next]_vars /\ pc' = "post" =>
      \/ Cardinality(store') < MaxEntries
      \/ pc = "post" /\ store' = store
<1> SUFFICES ASSUME TypeInv, [Next]_vars, pc' = "post"
             PROVE  \/ Cardinality(store') < MaxEntries
                    \/ pc = "post" /\ store' = store
  OBVIOUS
<1> USE DEF TypeInv, TypeOK, broker, session, history
<1>1. CASE \E force \in BOOLEAN : StartSession(force)
  BY <1>1 DEF StartSession
<1>2. CASE PreflightFailed
  BY <1>2 DEF PreflightFailed
<1>3. CASE Reconcile
  BY <1>3 DEF Reconcile, AfterReconcile
<1>4. CASE ReconcileRaises
  BY <1>4 DEF ReconcileRaises, Idle
<1>5. CASE SkipPlan
  BY <1>5 DEF SkipPlan, NextPlan, EntryStep
<1>6. CASE LookupFound
  BY <1>6 DEF LookupFound, NextPlan, EntryStep
<1>7. CASE LookupAbsent
  BY <1>7 DEF LookupAbsent, EntryStep
<1>8. CASE EntryRaises
  BY <1>8 DEF EntryRaises, Idle
<1>9. CASE GateApproves
  BY <1>9 DEF GateApproves, EntryStep, WithinLimits
<1>10. CASE GateRefuses
  BY <1>10 DEF GateRefuses, NextPlan, EntryStep
<1>11. CASE PostAnswered
  BY <1>11 DEF PostAnswered, EntryStep, CountLatePost
<1>12. CASE PostUnanswered
  BY <1>12 DEF PostUnanswered, NextPlan, EntryStep, CountLatePost
<1>13. CASE PostRefused
  BY <1>13 DEF PostRefused, NextPlan, EntryStep, CountLatePost
<1>14. CASE RecordEntry
  BY <1>14 DEF RecordEntry, NextPlan, EntryStep
<1>15. CASE GetPositions
  BY <1>15 DEF GetPositions, Positions, ManageStep
<1>16. CASE ManagementRaises
  BY <1>16 DEF ManagementRaises, Idle
<1>17. CASE GetOpenOrders
  BY <1>17 DEF GetOpenOrders, OpenOrders, ManageStep
<1>18. CASE \E id \in Ids : CancelOrder(id)
  BY <1>18 DEF CancelOrder, ManageStep
<1>19. CASE \E s \in Symbols : ClosePosition(s)
  BY <1>19 DEF ClosePosition, PositionDone, ManageStep
<1>20. CASE \E s \in Symbols : CloseFails(s)
  BY <1>20 DEF CloseFails, PositionDone, ManageStep
<1>21. CASE Refresh
  BY <1>21 DEF Refresh, Idle
<1>22. CASE RefreshRaises
  BY <1>22 DEF RefreshRaises, Idle
<1>23. CASE \E id \in Ids : Fill(id)
  BY <1>23 DEF Fill
<1>24. CASE \E id \in Ids : BracketExit(id)
  BY <1>24 DEF BracketExit
<1>25. CASE EnterWindow
  BY <1>25 DEF EnterWindow
<1>26. CASE CloseMarket
  BY <1>26 DEF CloseMarket
<1>27. CASE ToggleKillSwitch
  BY <1>27 DEF ToggleKillSwitch
<1>28. CASE Crash
  BY <1>28 DEF Crash, Idle
<1>29. CASE UNCHANGED vars
  BY <1>29 DEF vars
<1> QED
  BY <1>1, <1>2, <1>3, <1>4, <1>5, <1>6, <1>7, <1>8, <1>9, <1>10, <1>11, <1>12, <1>13, <1>14, <1>15, <1>16, <1>17, <1>18, <1>19, <1>20, <1>21, <1>22, <1>23, <1>24, <1>25, <1>26, <1>27, <1>28, <1>29
  DEF Next, Session, Environment

LEMMA IdsFinite ==
  ASSUME NEW S, S \subseteq Ids
  PROVE  IsFiniteSet(S) /\ Cardinality(S) \in Nat
  BY IdsAssumption, FS_Subset, FS_CardinalityType

LEMMA LimitInit == Init => LimitInv
<1> SUFFICES ASSUME Init PROVE LimitInv
  OBVIOUS
<1>1. Confirmed = {}
  BY DEF Init, Confirmed, Accepted
<1>2. pc # "post"
  BY DEF Init
<1> QED
  BY <1>1, <1>2, FS_EmptySet, LimitsAssumption DEF LimitInv

LEMMA LimitStep ==
  TypeInv /\ EntryInv /\ LimitInv /\ [Next]_vars => LimitInv'
<1> SUFFICES ASSUME TypeInv, EntryInv, LimitInv, [Next]_vars PROVE LimitInv'
  OBVIOUS
<1>0. Confirmed \subseteq Ids /\ store \subseteq Ids
  BY DEF Confirmed, Accepted, TypeInv, TypeOK
<1>1. pc' = "post" => Cardinality(store') < MaxEntries
  BY PostHasRoom DEF LimitInv
<1>2. CASE PostAnswered
  <2>1. Confirmed' \subseteq store \cup {Head(todo)}
    BY <1>2 DEF PostAnswered, Confirmed, Accepted, EntryInv, OrdersAccountedFor,
                TypeInv, TypeOK, EntryState
  <2>2. Head(todo) \in Ids
    BY <1>2 DEF PostAnswered, TypeInv, TypeOK, PlanInHand
  <2>3. Cardinality(store \cup {Head(todo)}) <= Cardinality(store) + 1
    BY <1>0, IdsFinite, FS_AddElement
  <2>4. Cardinality(store) < MaxEntries
    BY <1>2 DEF PostAnswered, LimitInv
  <2>5. Cardinality(Confirmed') <= Cardinality(store \cup {Head(todo)})
    BY <2>1, <2>2, <1>0, IdsFinite, FS_Subset
  <2>6. /\ Cardinality(store) \in Nat
        /\ Cardinality(store \cup {Head(todo)}) \in Nat
        /\ Cardinality(Confirmed') \in Nat
    BY <2>1, <2>2, <1>0, IdsFinite
  <2>7. Cardinality(Confirmed') <= MaxEntries
    BY <2>3, <2>4, <2>5, <2>6, LimitsAssumption
  <2> QED
    BY <1>1, <2>7 DEF LimitInv
<1>3. CASE ~PostAnswered
  <2>1. Confirmed' \subseteq Confirmed
    BY <1>3, ConfirmedShrinks
  <2>2. Cardinality(Confirmed') <= Cardinality(Confirmed)
    BY <2>1, <1>0, IdsFinite, FS_Subset
  <2>3. Cardinality(Confirmed') \in Nat /\ Cardinality(Confirmed) \in Nat
    BY <2>1, <1>0, IdsFinite
  <2>4. Cardinality(Confirmed') <= MaxEntries
    BY <2>2, <2>3, LimitsAssumption DEF LimitInv
  <2> QED
    BY <1>1, <2>4 DEF LimitInv
<1> QED
  BY <1>2, <1>3

\* What is accepted is confirmed or lost.
LEMMA LimitImpliesOvershoot ==
  TypeInv /\ LimitInv => OvershootOnlyByLostAnswers
<1> SUFFICES ASSUME TypeInv, LimitInv PROVE OvershootOnlyByLostAnswers
  OBVIOUS
<1>1. Confirmed \subseteq Ids /\ lost \subseteq Ids /\ Accepted \subseteq Ids
  BY DEF Confirmed, Accepted, TypeInv, TypeOK
<1>2. Accepted \subseteq Confirmed \cup lost
  BY DEF Confirmed
<1>3. IsFiniteSet(Confirmed \cup lost) /\ Cardinality(Confirmed \cup lost) \in Nat
  BY <1>1, IdsFinite
<1>4. Cardinality(Accepted) <= Cardinality(Confirmed \cup lost)
  BY <1>2, <1>3, FS_Subset
<1>5. Cardinality(Confirmed \cup lost) =
        Cardinality(Confirmed) + Cardinality(lost) - Cardinality(Confirmed \cap lost)
  BY <1>1, IdsFinite, FS_Union
<1>6. /\ Cardinality(Confirmed) \in Nat /\ Cardinality(lost) \in Nat
      /\ Cardinality(Confirmed \cap lost) \in Nat /\ Cardinality(Accepted) \in Nat
  BY <1>1, IdsFinite
<1>7. Cardinality(Confirmed) <= MaxEntries
  BY DEF LimitInv
<1> QED
  BY <1>3, <1>4, <1>5, <1>6, <1>7, LimitsAssumption DEF OvershootOnlyByLostAnswers

----------------------------------------------------------------------------
(* The kill switch, and protection until the flatten. *)

SwitchInv ==
    /\ ~kill => lateposts = 0
    /\ pc = "post" => lateposts = 0
    /\ KillSwitchStopsAllButOne

ProtectInv ==
    /\ ProtectedUntilFlatten
    /\ forced => forcedToday
    /\ pc \in {"orders", "cancel"} => forcedToday \/ clock # "open"

LEMMA SwitchProtectInit == Init => SwitchInv /\ ProtectInv
  BY DEF Init, SwitchInv, KillSwitchStopsAllButOne, ProtectInv, ProtectedUntilFlatten

LEMMA SwitchStep == TypeInv /\ SwitchInv /\ [Next]_vars => SwitchInv'
<1> SUFFICES ASSUME TypeInv, SwitchInv, [Next]_vars PROVE SwitchInv'
  OBVIOUS
<1> USE DEF TypeInv, TypeOK, SwitchInv, KillSwitchStopsAllButOne,
            broker, session, history
<1>1. CASE \E force \in BOOLEAN : StartSession(force)
  BY <1>1 DEF StartSession
<1>2. CASE PreflightFailed
  BY <1>2 DEF PreflightFailed
<1>3. CASE Reconcile
  BY <1>3 DEF Reconcile, AfterReconcile
<1>4. CASE ReconcileRaises
  BY <1>4 DEF ReconcileRaises, Idle
<1>5. CASE SkipPlan
  BY <1>5 DEF SkipPlan, NextPlan, EntryStep
<1>6. CASE LookupFound
  BY <1>6 DEF LookupFound, NextPlan, EntryStep
<1>7. CASE LookupAbsent
  BY <1>7 DEF LookupAbsent, EntryStep
<1>8. CASE EntryRaises
  BY <1>8 DEF EntryRaises, Idle
<1>9. CASE GateApproves
  BY <1>9 DEF GateApproves, EntryStep, WithinLimits
<1>10. CASE GateRefuses
  BY <1>10 DEF GateRefuses, NextPlan, EntryStep
<1>11. CASE PostAnswered
  BY <1>11 DEF PostAnswered, EntryStep, CountLatePost
<1>12. CASE PostUnanswered
  BY <1>12 DEF PostUnanswered, NextPlan, EntryStep, CountLatePost
<1>13. CASE PostRefused
  BY <1>13 DEF PostRefused, NextPlan, EntryStep, CountLatePost
<1>14. CASE RecordEntry
  BY <1>14 DEF RecordEntry, NextPlan, EntryStep
<1>15. CASE GetPositions
  BY <1>15 DEF GetPositions, Positions, ManageStep
<1>16. CASE ManagementRaises
  BY <1>16 DEF ManagementRaises, Idle
<1>17. CASE GetOpenOrders
  BY <1>17 DEF GetOpenOrders, OpenOrders, ManageStep
<1>18. CASE \E id \in Ids : CancelOrder(id)
  BY <1>18 DEF CancelOrder, ManageStep
<1>19. CASE \E s \in Symbols : ClosePosition(s)
  BY <1>19 DEF ClosePosition, PositionDone, ManageStep
<1>20. CASE \E s \in Symbols : CloseFails(s)
  BY <1>20 DEF CloseFails, PositionDone, ManageStep
<1>21. CASE Refresh
  BY <1>21 DEF Refresh, Idle
<1>22. CASE RefreshRaises
  BY <1>22 DEF RefreshRaises, Idle
<1>23. CASE \E id \in Ids : Fill(id)
  BY <1>23 DEF Fill
<1>24. CASE \E id \in Ids : BracketExit(id)
  BY <1>24 DEF BracketExit
<1>25. CASE EnterWindow
  BY <1>25 DEF EnterWindow
<1>26. CASE CloseMarket
  BY <1>26 DEF CloseMarket
<1>27. CASE ToggleKillSwitch
  BY <1>27 DEF ToggleKillSwitch
<1>28. CASE Crash
  BY <1>28 DEF Crash, Idle
<1>29. CASE UNCHANGED vars
  BY <1>29 DEF vars
<1> QED
  BY <1>1, <1>2, <1>3, <1>4, <1>5, <1>6, <1>7, <1>8, <1>9, <1>10, <1>11, <1>12, <1>13, <1>14, <1>15, <1>16, <1>17, <1>18, <1>19, <1>20, <1>21, <1>22, <1>23, <1>24, <1>25, <1>26, <1>27, <1>28, <1>29
  DEF Next, Session, Environment

LEMMA ProtectStep == TypeInv /\ ProtectInv /\ [Next]_vars => ProtectInv'
<1> SUFFICES ASSUME TypeInv, ProtectInv, [Next]_vars PROVE ProtectInv'
  OBVIOUS
<1> USE DEF TypeInv, TypeOK, PlanInHand, EntryState, Clock, ProtectInv, ProtectedUntilFlatten,
            broker, session, history
<1>1. CASE \E force \in BOOLEAN : StartSession(force)
  BY <1>1 DEF StartSession
<1>2. CASE PreflightFailed
  BY <1>2 DEF PreflightFailed
<1>3. CASE Reconcile
  BY <1>3 DEF Reconcile, AfterReconcile
<1>4. CASE ReconcileRaises
  BY <1>4 DEF ReconcileRaises, Idle
<1>5. CASE SkipPlan
  BY <1>5 DEF SkipPlan, NextPlan, EntryStep
<1>6. CASE LookupFound
  BY <1>6 DEF LookupFound, NextPlan, EntryStep
<1>7. CASE LookupAbsent
  BY <1>7 DEF LookupAbsent, EntryStep
<1>8. CASE EntryRaises
  BY <1>8 DEF EntryRaises, Idle
<1>9. CASE GateApproves
  BY <1>9 DEF GateApproves, EntryStep
<1>10. CASE GateRefuses
  BY <1>10 DEF GateRefuses, NextPlan, EntryStep
<1>11. CASE PostAnswered
  BY <1>11 DEF PostAnswered, EntryStep, CountLatePost
<1>12. CASE PostUnanswered
  BY <1>12 DEF PostUnanswered, NextPlan, EntryStep, CountLatePost
<1>13. CASE PostRefused
  BY <1>13 DEF PostRefused, NextPlan, EntryStep, CountLatePost
<1>14. CASE RecordEntry
  BY <1>14 DEF RecordEntry, NextPlan, EntryStep
<1>15. CASE GetPositions
  BY <1>15 DEF GetPositions, Positions, ManageStep, AtTheClose
<1>16. CASE ManagementRaises
  BY <1>16 DEF ManagementRaises, Idle
<1>17. CASE GetOpenOrders
  BY <1>17 DEF GetOpenOrders, OpenOrders, ManageStep
<1>18. CASE \E id \in Ids : CancelOrder(id)
  BY <1>18 DEF CancelOrder, ManageStep
<1>19. CASE \E s \in Symbols : ClosePosition(s)
  <2>1. PICK s \in Symbols : ClosePosition(s)
    BY <1>19
  <2>2. \A id \in Ids : entry'[id] = "naked" => entry[id] = "naked"
    BY <2>1 DEF ClosePosition, PositionDone
  <2>3. UNCHANGED <<clock, forced, forcedToday>> /\ pc = "cancel"
    BY <2>1 DEF ClosePosition, CancelsTried, PositionDone, ManageStep
  <2> QED
    BY <2>2, <2>3
<1>20. CASE \E s \in Symbols : CloseFails(s)
  <2>1. PICK s \in Symbols : CloseFails(s)
    BY <1>20
  <2>2. \A id \in Ids : entry'[id] = "naked" => entry[id] = "naked"
    BY <2>1 DEF CloseFails, PositionDone
  <2>3. UNCHANGED <<clock, forced, forcedToday>> /\ pc = "cancel"
    BY <2>1 DEF CloseFails, CancelsTried, PositionDone, ManageStep
  <2> QED
    BY <2>2, <2>3
<1>21. CASE Refresh
  BY <1>21 DEF Refresh, Idle
<1>22. CASE RefreshRaises
  BY <1>22 DEF RefreshRaises, Idle
<1>23. CASE \E id \in Ids : Fill(id)
  BY <1>23 DEF Fill
<1>24. CASE \E id \in Ids : BracketExit(id)
  BY <1>24 DEF BracketExit
<1>25. CASE EnterWindow
  BY <1>25 DEF EnterWindow
<1>26. CASE CloseMarket
  BY <1>26 DEF CloseMarket
<1>27. CASE ToggleKillSwitch
  BY <1>27 DEF ToggleKillSwitch
<1>28. CASE Crash
  BY <1>28 DEF Crash, Idle
<1>29. CASE UNCHANGED vars
  BY <1>29 DEF vars
<1> QED
  BY <1>1, <1>2, <1>3, <1>4, <1>5, <1>6, <1>7, <1>8, <1>9, <1>10, <1>11, <1>12, <1>13, <1>14, <1>15, <1>16, <1>17, <1>18, <1>19, <1>20, <1>21, <1>22, <1>23, <1>24, <1>25, <1>26, <1>27, <1>28, <1>29
  DEF Next, Session, Environment

----------------------------------------------------------------------------
(* The theorems. *)

\* Every variable of a paper session stays in its type.
THEOREM TypeCorrect == Spec => []TypeOK
<1>1. Spec => []TypeInv
  BY TypeInit, TypeStep, PTL DEF Spec
<1>2. TypeInv => TypeOK
  BY DEF TypeInv
<1> QED
  BY <1>1, <1>2, PTL

\* Whatever was lost, crashed or restarted before, a session POSTs an id the
\* broker already holds only if the id itself spells 404: the substring test of
\* the lookup is the one way to a second POST.
THEOREM Resubmission == Spec => []OnlyLookalikesResubmitted
<1>1. TypeInv /\ EntryInv /\ [Next]_vars => TypeInv' /\ EntryInv'
  BY TypeStep, EntryStepKeeps
<1>2. Spec => []EntryInv
  BY <1>1, TypeInit, EntryInit, PTL DEF Spec
<1>3. EntryInv => OnlyLookalikesResubmitted
  BY DEF EntryInv
<1> QED
  BY <1>2, <1>3, PTL

\* The store and the broker agree up to answers that were lost.
THEOREM Accounting == Spec => []OrdersAccountedFor
<1>1. TypeInv /\ EntryInv /\ [Next]_vars => TypeInv' /\ EntryInv'
  BY TypeStep, EntryStepKeeps
<1>2. Spec => []EntryInv
  BY <1>1, TypeInit, EntryInit, PTL DEF Spec
<1>3. EntryInv => OrdersAccountedFor
  BY DEF EntryInv
<1> QED
  BY <1>2, <1>3, PTL

\* The broker holds at most one entry more than the daily limit per lost answer.
THEOREM DailyLimit == Spec => []OvershootOnlyByLostAnswers
<1> DEFINE Inv == TypeInv /\ EntryInv /\ LimitInv
<1>1. Init => Inv
  BY TypeInit, EntryInit, LimitInit
<1>2. Inv /\ [Next]_vars => Inv'
  BY TypeStep, EntryStepKeeps, LimitStep
<1>3. Inv => OvershootOnlyByLostAnswers
  BY LimitImpliesOvershoot
<1> QED
  BY <1>1, <1>2, <1>3, PTL DEF Spec

\* After the kill switch is engaged at most one order is still sent.
THEOREM KillSwitch == Spec => []KillSwitchStopsAllButOne
<1> DEFINE Inv == TypeInv /\ SwitchInv
<1>1. Init => Inv
  BY TypeInit, SwitchProtectInit
<1>2. Inv /\ [Next]_vars => Inv'
  BY TypeStep, SwitchStep
<1>3. Inv => KillSwitchStopsAllButOne
  BY DEF SwitchInv
<1> QED
  BY <1>1, <1>2, <1>3, PTL DEF Spec

\* No position loses its bracket before the flatten window, short of an
\* operator's forced exit.
THEOREM Protection == Spec => []ProtectedUntilFlatten
<1> DEFINE Inv == TypeInv /\ ProtectInv
<1>1. Init => Inv
  BY TypeInit, SwitchProtectInit
<1>2. Inv /\ [Next]_vars => Inv'
  BY TypeStep, ProtectStep
<1>3. Inv => ProtectedUntilFlatten
  BY DEF ProtectInv
<1> QED
  BY <1>1, <1>2, <1>3, PTL DEF Spec
=============================================================================
