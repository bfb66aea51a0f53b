--------------------------- MODULE PaperOpsProofs ---------------------------
(* Theorems about PaperOps, for every value of its constants. *)
EXTENDS PaperOps, FiniteSetTheorems, TLAPS

\* The program counters of a process that applies the journal, and of one
\* that holds the lock.
Applying == {"append", "wpositions", "waccounts", "wpending", "unlink"}
Holding == Applying \cup {"validate"}

\* A transaction in memory carries the events of its own command and day:
\* ENTER creates orders of the day, CHECK decides orders of earlier days, each
\* of them once.
Built(t) ==
    /\ t.day = today
    /\ t.phase = "enter" => t.fills = {} /\ t.blocks = {} /\ t.closes = {}
    /\ t.phase # "enter" => t.created = {} /\ t.refused = {}
    /\ t.phase = "close" => t.fills = {} /\ t.blocks = {}
    /\ \A o \in t.created : DayOf[o] = today
    /\ \A o \in t.fills \cup t.blocks : DayOf[o] < today
    /\ t.fills \cap t.blocks = {}

\* Who applies the journal knows where it goes on.
Resumes == \A p \in Procs : pc[p] \in Applying => resume[p] # "none"

\* The lock is held exactly at the critical program counters; a process that
\* applies has a journal to apply, one that validates finds none.
LockHeld ==
    /\ \A p \in Procs : pc[p] \in Holding <=> lock = p
    /\ \A p \in Procs : pc[p] \in Applying => journal # NoTx
    /\ \A p \in Procs : pc[p] = "validate" => journal = NoTx

\* What a process has in hand: a transaction from its decision to its commit,
\* also while it recovers the journal of another; nothing when it is idle.
InHand ==
    \A p \in Procs :
        /\ tx[p] # NoTx => Built(tx[p])
        /\ pc[p] \in {"precheck", "lock", "validate"} => tx[p] # NoTx
        /\ pc[p] \in Applying /\ resume[p] = "validate" => tx[p] # NoTx
        /\ pc[p] = "idle" => tx[p] = NoTx

\* How far the journal is applied, by the program counter of the lock holder.
Applied ==
    \A p \in Procs :
        /\ pc[p] \in Applying \ {"append"} => Events(journal) \subseteq ledger
        /\ pc[p] \in {"waccounts", "wpending", "unlink"} => positions = BookPositions
        /\ pc[p] \in {"wpending", "unlink"} => realized = BookRealized
        /\ pc[p] = "unlink" => pending = BookPending

\* The ledger closes only what it filled, and has decided only orders of
\* earlier days.
ClosedWereFilled == Ever(BookLedger, "closed") \subseteq Ever(BookLedger, "fill")

DecidedAreOld ==
    \A o \in Ever(BookLedger, "fill") \cup Ever(BookLedger, "blocked") : DayOf[o] < today

\* An order has at most one outcome and a position at most one close.
Decisive == {"fill", "blocked"}
SameDecision(e, f) ==
    /\ e[2] = f[2]
    /\ {e[1], f[1]} \subseteq Decisive \/ {e[1], f[1]} = {"closed"}

OnceEach == \A e, f \in BookLedger : SameDecision(e, f) => e = f

BookInv == FilesFollowLedger /\ ClosedWereFilled /\ DecidedAreOld /\ OnceEach

TypeInv == TypeOK /\ Resumes
IInv == TypeInv /\ LockHeld /\ InHand /\ Applied /\ BookInv

-----------------------------------------------------------------------------
(* Lemmas about the model's operators. *)

LEMMA NetOfClosed ==
  ASSUME NEW S \in SUBSET Orders, NEW T \in SUBSET Orders, S \cap T = {}
  PROVE  Net(S \cup T) = Net(S) + Net(T)
  BY NetAssumption

LEMMA NetTyped == \A S \in SUBSET Orders : Net(S) \in Int
  BY NetAssumption

LEMMA NetOfNothing == Net({}) = 0
<1> DEFINE E == {}
<1>1. Net(E \cup E) = Net(E) + Net(E) /\ Net(E) \in Int
  BY NetAssumption
<1>2. E \cup E = E
  OBVIOUS
<1> HIDE DEF E
<1>3. Net(E) = Net(E) + Net(E)
  BY <1>1, <1>2
<1>4. \A n \in Int : n = n + n => n = 0
  OBVIOUS
<1>5. Net(E) = 0
  BY <1>1, <1>3, <1>4
<1> QED
  BY <1>5 DEF E

\* The events of a transaction name orders and its day; nothing has none.
LEMMA EventsTyped ==
  ASSUME NEW t \in Tx
  PROVE  Events(t) \subseteq {"created", "refused", "fill", "blocked", "closed"} \X Orders \X Days
  BY DEF Events, Tx

LEMMA NoEvents == Events(NoTx) = {}
  BY DEF Events, NoTx

LEMMA FieldsTyped ==
  ASSUME NEW t \in Tx \cup {NoTx}
  PROVE  /\ t.created \subseteq Orders /\ t.refused \subseteq Orders
         /\ t.fills \subseteq Orders /\ t.blocks \subseteq Orders /\ t.closes \subseteq Orders
         /\ t.pend \subseteq Orders /\ t.pos \subseteq Orders
         /\ t.real \in Int /\ t.basis \in Int
  BY DEF Tx, NoTx

\* A record with a transaction's fields, the empty one included.
AnyTx == [phase : {"none", "enter", "check", "close"}, day : {0} \cup Days,
          created : SUBSET Orders, refused : SUBSET Orders, fills : SUBSET Orders,
          blocks : SUBSET Orders, closes : SUBSET Orders, pend : SUBSET Orders,
          pos : SUBSET Orders, real : Int, basis : Int]

LEMMA NoTxTyped == NoTx \in AnyTx
  BY DEF NoTx, AnyTx

LEMMA NoTxFields ==
  /\ NoTx.phase = "none" /\ NoTx.day = 0 /\ NoTx.created = {} /\ NoTx.refused = {}
  /\ NoTx.fills = {} /\ NoTx.blocks = {} /\ NoTx.closes = {}
  /\ NoTx.pend = {} /\ NoTx.pos = {} /\ NoTx.real = 0 /\ NoTx.basis = 0
  BY DEF NoTx

LEMMA Named ==
  ASSUME NEW t \in AnyTx, t.phase # "none", t.day \in Days
  PROVE  t \in Tx
  BY DEF AnyTx, Tx

\* The transactions the three commands build.
EnterOf(d, C, R, P, r) ==
    [NoTx EXCEPT !.phase = "enter", !.day = d, !.created = C, !.refused = R,
                 !.pend = P, !.basis = r]
CheckOf(d, F, B, C, P, Q, r) ==
    [NoTx EXCEPT !.phase = "check", !.day = d, !.fills = F, !.blocks = B, !.closes = C,
                 !.pend = P, !.pos = Q, !.real = r]
CloseOf(d, C, Q, r) ==
    [NoTx EXCEPT !.phase = "close", !.day = d, !.closes = C, !.pos = Q, !.real = r]

LEMMA NothingIsNoTx == NoTx \notin Tx
  BY DEF Tx, NoTx

-----------------------------------------------------------------------------
(* Types. *)

LEMMA TypeInit == Init => TypeInv
<1> SUFFICES ASSUME Init PROVE TypeInv
  OBVIOUS
<1>1. 1 \in Days /\ 0 \in Int
  BY CapAssumption DEF Days
<1>2. NoSnap \in [pend : SUBSET Orders, pos : SUBSET Orders]
  BY DEF NoSnap
<1>3. pc \in [Procs -> Pc] /\ Resumes
  BY DEF Init, Pc, Resumes, Applying
<1>4. /\ snap \in [Procs -> [pend : SUBSET Orders, pos : SUBSET Orders]]
      /\ tx \in [Procs -> Tx \cup {NoTx}]
  BY <1>2 DEF Init
<1> QED
  BY <1>1, <1>3, <1>4 DEF Init, TypeInv, TypeOK

LEMMA EndTyped ==
  ASSUME TypeOK, NEW p \in Procs, End(p)
  PROVE  /\ pc' \in [Procs -> Pc]
         /\ phase' \in [Procs -> {"none", "enter", "check", "close"}]
         /\ snap' \in [Procs -> [pend : SUBSET Orders, pos : SUBSET Orders]]
         /\ tx' \in [Procs -> Tx \cup {NoTx}]
         /\ export' \in [Procs -> Decisions \cup {None}]
         /\ resume' \in [Procs -> {"none", "pending", "validate", "done"}]
  BY DEF End, Goto, TypeOK, Pc, NoSnap

\* What a decision leaves in the hands of its process: a built transaction.
LEMMA EnterBuilds ==
  ASSUME TypeOK, NEW p \in Procs, DecideEnter(p)
  PROVE  /\ tx' = [tx EXCEPT ![p] = tx'[p]] /\ tx'[p] \in Tx /\ Built(tx'[p])
         /\ export' \in [Procs -> Decisions \cup {None}]
<1>1. PICK created \in SUBSET Candidates(p) :
        /\ tx' = [tx EXCEPT ![p] =
                    [NoTx EXCEPT !.phase = "enter", !.day = today,
                                 !.created = created, !.refused = Candidates(p) \ created,
                                 !.pend = snap[p].pend \cup created,
                                 !.basis = realized]]
        /\ export' = [export EXCEPT ![p] = IF decisions = None
                         THEN Proposal(created, Candidates(p) \ created) ELSE None]
  BY DEF DecideEnter
<1>2. \A o \in Candidates(p) : o \in Orders /\ DayOf[o] = today
  BY DEF Candidates
<1>3. /\ created \in SUBSET Orders /\ Candidates(p) \ created \in SUBSET Orders
      /\ snap[p].pend \cup created \in SUBSET Orders
      /\ today \in Days /\ realized \in Int
  BY <1>2 DEF TypeOK
<1>4. tx'[p] = EnterOf(today, created, Candidates(p) \ created,
                       snap[p].pend \cup created, realized)
  BY <1>1 DEF TypeOK, EnterOf
<1>5. /\ tx'[p] \in Tx
      /\ tx'[p].phase = "enter" /\ tx'[p].day = today /\ tx'[p].created = created
      /\ tx'[p].fills = {} /\ tx'[p].blocks = {} /\ tx'[p].closes = {}
  <2> DEFINE R == Candidates(p) \ created
             P == snap[p].pend \cup created
             t == EnterOf(today, created, R, P, realized)
  <2>1. /\ created \in SUBSET Orders /\ R \in SUBSET Orders /\ P \in SUBSET Orders
        /\ realized \in Int /\ today \in Days
    BY <1>3
  <2> HIDE DEF R, P
  <2>2. t \in AnyTx
    BY <2>1, NoTxTyped DEF AnyTx, EnterOf
  <2>3. /\ t.phase = "enter" /\ t.day = today /\ t.created = created
        /\ t.fills = {} /\ t.blocks = {} /\ t.closes = {}
    BY <2>1, NoTxTyped, NoTxFields DEF AnyTx, EnterOf
  <2>4. t \in Tx
    BY <2>1, <2>2, <2>3, Named
  <2>5. tx'[p] = t
    BY <1>4 DEF R, P
  <2> HIDE DEF t
  <2> QED
    BY <2>3, <2>4, <2>5
<1>6. Built(tx'[p])
  BY <1>2, <1>5 DEF Built
<1>7. Proposal(created, Candidates(p) \ created) \in Decisions
  BY <1>3 DEF Proposal, Decisions, On
<1> QED
  BY <1>1, <1>4, <1>5, <1>6, <1>7 DEF TypeOK

LEMMA CheckBuilds ==
  ASSUME TypeOK, NEW p \in Procs, DecideCheck(p)
  PROVE  tx' = [tx EXCEPT ![p] = tx'[p]] /\ tx'[p] \in Tx /\ Built(tx'[p])
<1>1. PICK fills \in SUBSET Ripe(p), blocks \in SUBSET Ripe(p),
           closes \in SUBSET (snap[p].pos \cup Ripe(p)) :
        /\ fills \cap blocks = {}
        /\ tx' = [tx EXCEPT ![p] =
                    [NoTx EXCEPT !.phase = "check", !.day = today,
                                 !.fills = fills, !.blocks = blocks, !.closes = closes,
                                 !.pend = snap[p].pend \ (fills \cup blocks),
                                 !.pos = (snap[p].pos \cup fills) \ closes,
                                 !.real = realized + Net(closes)]]
  BY DEF DecideCheck
<1>2. /\ \A o \in Ripe(p) : o \in Orders /\ DayOf[o] < today
      /\ snap[p].pend \subseteq Orders /\ snap[p].pos \subseteq Orders
  BY DEF Ripe, TypeOK
<1>3. /\ fills \in SUBSET Orders /\ blocks \in SUBSET Orders /\ closes \in SUBSET Orders
      /\ snap[p].pend \ (fills \cup blocks) \in SUBSET Orders
      /\ (snap[p].pos \cup fills) \ closes \in SUBSET Orders
      /\ today \in Days
  BY <1>2 DEF TypeOK
<1>4. realized + Net(closes) \in Int
  BY <1>3, NetTyped DEF TypeOK
<1>5. tx'[p] = CheckOf(today, fills, blocks, closes, snap[p].pend \ (fills \cup blocks),
                       (snap[p].pos \cup fills) \ closes, realized + Net(closes))
  BY <1>1 DEF TypeOK, CheckOf
<1>6. /\ tx'[p] \in Tx
      /\ tx'[p].phase = "check" /\ tx'[p].day = today
      /\ tx'[p].created = {} /\ tx'[p].refused = {}
      /\ tx'[p].fills = fills /\ tx'[p].blocks = blocks
  <2> DEFINE P == snap[p].pend \ (fills \cup blocks)
             Q == (snap[p].pos \cup fills) \ closes
             r == realized + Net(closes)
             t == CheckOf(today, fills, blocks, closes, P, Q, r)
  <2>1. /\ fills \in SUBSET Orders /\ blocks \in SUBSET Orders /\ closes \in SUBSET Orders
        /\ P \in SUBSET Orders /\ Q \in SUBSET Orders /\ r \in Int /\ today \in Days
    BY <1>3, <1>4
  <2> HIDE DEF P, Q, r
  <2>2. t \in AnyTx
    BY <2>1, NoTxTyped DEF AnyTx, CheckOf
  <2>3. /\ t.phase = "check" /\ t.day = today
        /\ t.created = {} /\ t.refused = {}
        /\ t.fills = fills /\ t.blocks = blocks
    BY <2>1, NoTxTyped, NoTxFields DEF AnyTx, CheckOf
  <2>4. t \in Tx
    BY <2>1, <2>2, <2>3, Named
  <2>5. tx'[p] = t
    BY <1>5 DEF P, Q, r
  <2> HIDE DEF t
  <2> QED
    BY <2>3, <2>4, <2>5
<1>7. Built(tx'[p])
  BY <1>1, <1>2, <1>6 DEF Built
<1> QED
  BY <1>1, <1>5, <1>6, <1>7

LEMMA CloseBuilds ==
  ASSUME TypeOK, NEW p \in Procs, DecideClose(p)
  PROVE  tx' = [tx EXCEPT ![p] = tx'[p]] /\ tx'[p] \in Tx /\ Built(tx'[p])
<1>1. PICK closes \in SUBSET snap[p].pos :
        tx' = [tx EXCEPT ![p] =
                 [NoTx EXCEPT !.phase = "close", !.day = today, !.closes = closes,
                              !.pos = snap[p].pos \ closes,
                              !.real = realized + Net(closes)]]
  BY DEF DecideClose
<1>2. /\ closes \in SUBSET Orders /\ snap[p].pos \ closes \in SUBSET Orders
      /\ today \in Days
  BY DEF TypeOK
<1>3. realized + Net(closes) \in Int
  BY <1>2, NetTyped DEF TypeOK
<1>4. tx'[p] = CloseOf(today, closes, snap[p].pos \ closes, realized + Net(closes))
  BY <1>1 DEF TypeOK, CloseOf
<1>5. /\ tx'[p] \in Tx
      /\ tx'[p].phase = "close" /\ tx'[p].day = today
      /\ tx'[p].created = {} /\ tx'[p].refused = {}
      /\ tx'[p].fills = {} /\ tx'[p].blocks = {}
  <2> DEFINE Q == snap[p].pos \ closes
             r == realized + Net(closes)
             t == CloseOf(today, closes, Q, r)
  <2>1. closes \in SUBSET Orders /\ Q \in SUBSET Orders /\ r \in Int /\ today \in Days
    BY <1>2, <1>3
  <2> HIDE DEF Q, r
  <2>2. t \in AnyTx
    BY <2>1, NoTxTyped DEF AnyTx, CloseOf
  <2>3. /\ t.phase = "close" /\ t.day = today
        /\ t.created = {} /\ t.refused = {}
        /\ t.fills = {} /\ t.blocks = {}
    BY <2>1, NoTxTyped, NoTxFields DEF AnyTx, CloseOf
  <2>4. t \in Tx
    BY <2>1, <2>2, <2>3, Named
  <2>5. tx'[p] = t
    BY <1>4 DEF Q, r
  <2> HIDE DEF t
  <2> QED
    BY <2>3, <2>4, <2>5
<1>6. Built(tx'[p])
  BY <1>5 DEF Built
<1> QED
  BY <1>1, <1>4, <1>5, <1>6

\* A process that ends applies nothing.
LEMMA EndResumes ==
  ASSUME TypeOK, Resumes, NEW p \in Procs, End(p)
  PROVE  Resumes'
  BY DEF End, Goto, TypeOK, Resumes, Applying

\* Every step keeps the types.
LEMMA TypeStep == TypeInv /\ [Next]_vars => TypeInv'
<1> SUFFICES ASSUME TypeInv, [Next]_vars PROVE TypeInv'
  OBVIOUS
<1> USE DEF TypeInv, Resumes, Applying
<1>1. CASE NextDay
  BY <1>1, CapAssumption DEF NextDay, TypeOK, Days, local
<1>2. CASE UNCHANGED vars
  BY <1>2 DEF vars, disk, local, TypeOK
<1>3. ASSUME NEW p \in Procs, Command(p) \/ Crash(p)
      PROVE  TypeInv'
  <2>1. CASE Begin(p)
    BY <2>1, FlagsAssumption DEF Begin, Goto, disk, TypeOK, Pc
  <2>2. CASE RecoverNothing(p)
    BY <2>2, SMTT(20) DEF RecoverNothing, Goto, disk, Memory, TypeOK, Pc
  <2>3. CASE RecoverJournal(p)
    BY <2>3, SMTT(20) DEF RecoverJournal, Goto, disk, TypeOK, Pc
  <2>4. CASE RecoveryRaises(p) \/ LockTimeout(p) \/ ReadRaises(p) \/ PrecheckRaises(p)
             \/ EnterConflicts(p) \/ CommitRaises(p)
    <3>1. End(p)
      BY <2>4 DEF RecoveryRaises, LockTimeout, ReadRaises, PrecheckRaises, EnterConflicts,
                  CommitRaises
    <3>2. UNCHANGED <<disk, today>> /\ lock' \in {lock, None}
      BY <2>4 DEF RecoveryRaises, LockTimeout, ReadRaises, PrecheckRaises, EnterConflicts,
                  CommitRaises
    <3>3. TypeOK'
      BY <3>1, <3>2, EndTyped DEF disk, TypeOK
    <3>4. Resumes'
      BY <3>1, EndResumes
    <3> QED
      BY <3>3, <3>4
  <2>5. CASE ReadPending(p)
    BY <2>5, SMTT(20) DEF ReadPending, Goto, disk, TypeOK, Pc
  <2>6. CASE ReadPositions(p)
    BY <2>6, SMTT(20) DEF ReadPositions, Goto, disk, TypeOK, Pc
  <2>7. CASE DecideEnter(p)
    BY <2>7, EnterBuilds DEF DecideEnter, Goto, disk, TypeOK, Pc, NoSnap
  <2>8. CASE DecideCheck(p)
    BY <2>8, CheckBuilds DEF DecideCheck, Goto, disk, TypeOK, Pc, NoSnap
  <2>9. CASE DecideClose(p)
    BY <2>9, CloseBuilds DEF DecideClose, Goto, disk, TypeOK, Pc, NoSnap
  <2>10. CASE Precheck(p) \/ Acquire(p)
    BY <2>10 DEF Precheck, Acquire, Goto, disk, Memory, TypeOK, Pc
  <2>11. CASE Commit(p)
    BY <2>11 DEF Commit, Goto, TypeOK, Pc
  <2>12. CASE Append(p)
    BY <2>12, EventsTyped, NoEvents DEF Append, Goto, Memory, TypeOK, Pc
  <2>13. CASE WritePositions(p)
    BY <2>13, FieldsTyped DEF WritePositions, Goto, Memory, TypeOK, Pc
  <2>14. CASE WriteAccounts(p)
    BY <2>14, FieldsTyped DEF WriteAccounts, Goto, Memory, TypeOK, Pc
  <2>15. CASE WritePending(p)
    BY <2>15, FieldsTyped DEF WritePending, Goto, Memory, TypeOK, Pc
  <2>16. CASE Unlink(p)
    BY <2>16 DEF Unlink, Goto, TypeOK, Pc
  <2>17. CASE Export(p)
    BY <2>17, EndTyped, EndResumes DEF Export, TypeOK
  <2>18. CASE Crash(p)
    BY <2>18, EndTyped, EndResumes, EventsTyped, NoEvents DEF Crash, TypeOK
  <2> QED
    BY <1>3, <2>1, <2>2, <2>3, <2>4, <2>5, <2>6, <2>7, <2>8, <2>9, <2>10, <2>11, <2>12,
       <2>13, <2>14, <2>15, <2>16, <2>17, <2>18 DEF Command
<1> QED
  BY <1>1, <1>2, <1>3 DEF Next

\* Every reachable state is well typed: orders, days, program counters and
\* transactions of the PaperOps commands are of the kinds the files hold.
THEOREM TypeCorrect == Spec => []TypeOK
  BY TypeInit, TypeStep, PTL DEF Spec, TypeInv

-----------------------------------------------------------------------------
(* Who holds the lock, and what is in hand. *)

LEMMA LockInit == Init => LockHeld
  BY FlagsAssumption DEF Init, LockHeld, Holding, Applying

LEMMA LockStep == TypeInv /\ LockHeld /\ InHand /\ [Next]_vars => LockHeld'
<1> SUFFICES ASSUME TypeInv, LockHeld, InHand, [Next]_vars PROVE LockHeld'
  OBVIOUS
<1> USE DEF LockHeld, Holding, Applying
<1>1. CASE NextDay
  BY <1>1 DEF NextDay, local
<1>2. CASE UNCHANGED vars
  BY <1>2 DEF vars, disk, local
<1>3. ASSUME NEW p \in Procs, Command(p) \/ Crash(p)
      PROVE  LockHeld'
  <2> USE FlagsAssumption DEF TypeInv, TypeOK, Resumes, Goto, disk, Memory
  <2>1. CASE Begin(p)
    BY <2>1 DEF Begin
  <2>2. CASE RecoverNothing(p)
    BY <2>2 DEF RecoverNothing
  <2>3. CASE RecoverJournal(p)
    BY <2>3 DEF RecoverJournal
  <2>4. CASE RecoveryRaises(p) \/ LockTimeout(p) \/ ReadRaises(p) \/ PrecheckRaises(p)
             \/ EnterConflicts(p)
    BY <2>4 DEF RecoveryRaises, LockTimeout, ReadRaises, PrecheckRaises, EnterConflicts, End
  <2>5. CASE CommitRaises(p)
    BY <2>5 DEF CommitRaises, End
  <2>6. CASE ReadPending(p) \/ ReadPositions(p)
    BY <2>6 DEF ReadPending, ReadPositions
  <2>7. CASE DecideEnter(p) \/ DecideCheck(p) \/ DecideClose(p)
    BY <2>7 DEF DecideEnter, DecideCheck, DecideClose
  <2>8. CASE Precheck(p)
    BY <2>8 DEF Precheck
  <2>9. CASE Acquire(p)
    BY <2>9 DEF Acquire
  <2>10. CASE Commit(p)
    BY <2>10 DEF Commit, InHand
  <2>11. CASE Append(p) \/ WritePositions(p) \/ WriteAccounts(p) \/ WritePending(p)
    BY <2>11 DEF Append, WritePositions, WriteAccounts, WritePending
  <2>12. CASE Unlink(p)
    BY <2>12 DEF Unlink
  <2>13. CASE Export(p)
    BY <2>13 DEF Export, End
  <2>14. CASE Crash(p)
    BY <2>14 DEF Crash, End
  <2> QED
    BY <1>3, <2>1, <2>2, <2>3, <2>4, <2>5, <2>6, <2>7, <2>8, <2>9, <2>10, <2>11, <2>12,
       <2>13, <2>14 DEF Command
<1> QED
  BY <1>1, <1>2, <1>3 DEF Next

LEMMA HandInit == Init => InHand
  BY DEF Init, InHand, Applying

\* Of a process that ends nothing is left; of the others nothing changes.
LEMMA EndsWithNothing ==
  ASSUME TypeOK, InHand, today' = today, NEW p \in Procs, End(p)
  PROVE  InHand'
  BY DEF TypeOK, InHand, Built, Applying, End, Goto

LEMMA HandStep == TypeInv /\ LockHeld /\ InHand /\ [Next]_vars => InHand'
<1> SUFFICES ASSUME TypeInv, LockHeld, InHand, [Next]_vars PROVE InHand'
  OBVIOUS
<1>1. CASE NextDay
  BY <1>1 DEF NextDay, local, InHand, Applying
<1>2. CASE UNCHANGED vars
  BY <1>2 DEF vars, disk, local, InHand, Built
<1>3. ASSUME NEW p \in Procs, Command(p) \/ Crash(p)
      PROVE  InHand'
  <2>1. CASE RecoverJournal(p)
    BY <2>1 DEF TypeInv, TypeOK, InHand, Built, Applying, RecoverJournal, Goto
  <2>2. CASE RecoveryRaises(p) \/ LockTimeout(p) \/ ReadRaises(p) \/ PrecheckRaises(p)
             \/ EnterConflicts(p) \/ CommitRaises(p) \/ Export(p) \/ Crash(p)
    BY <2>2, EndsWithNothing
    DEF TypeInv, RecoveryRaises, LockTimeout, ReadRaises, PrecheckRaises,
        EnterConflicts, CommitRaises, Export, Crash
  <2>3. CASE Begin(p) \/ RecoverNothing(p) \/ ReadPending(p) \/ ReadPositions(p)
    BY <2>3 DEF TypeInv, TypeOK, InHand, Built, Applying, Goto, Memory,
                Begin, RecoverNothing, ReadPending, ReadPositions
  <2>4. CASE DecideEnter(p) \/ DecideCheck(p) \/ DecideClose(p)
    <3>1. /\ tx' = [tx EXCEPT ![p] = tx'[p]] /\ tx'[p] # NoTx /\ Built(tx'[p])
          /\ pc' = [pc EXCEPT ![p] = "precheck"]
          /\ today' = today /\ resume' = resume
      BY <2>4, EnterBuilds, CheckBuilds, CloseBuilds, NothingIsNoTx
      DEF TypeInv, DecideEnter, DecideCheck, DecideClose, Goto
    <3> QED
      BY <3>1 DEF TypeInv, TypeOK, InHand, Built, Applying
  <2>5. CASE Precheck(p) \/ Acquire(p)
    BY <2>5 DEF TypeInv, TypeOK, InHand, Built, Applying, Goto, Memory, Precheck, Acquire
  <2>6. CASE Commit(p)
    BY <2>6 DEF TypeInv, TypeOK, InHand, Built, Applying, Goto, Commit
  <2>7. CASE Append(p) \/ WritePositions(p) \/ WriteAccounts(p) \/ WritePending(p)
    BY <2>7 DEF TypeInv, TypeOK, InHand, Built, Applying, Goto, Memory,
                Append, WritePositions, WriteAccounts, WritePending
  <2>8. CASE Unlink(p)
    BY <2>8 DEF TypeInv, TypeOK, Resumes, InHand, Built, Applying, Goto, Unlink
  <2> QED
    BY <1>3, <2>1, <2>2, <2>3, <2>4, <2>5, <2>6, <2>7, <2>8 DEF Command
<1> QED
  BY <1>1, <1>2, <1>3 DEF Next

-----------------------------------------------------------------------------
(* How far the journal is applied. *)

LEMMA AppliedInit == Init => Applied
  BY DEF Init, Applied, Applying

\* A process that does not hold the lock is not concerned.
LEMMA OnlyHolder ==
  ASSUME TypeOK, LockHeld, NEW p \in Procs, pc[p] \in Holding \/ lock = None,
         NEW q \in Procs, q # p
  PROVE  pc[q] \notin Holding
  BY FlagsAssumption DEF LockHeld, TypeOK

LEMMA AppliedStep == TypeInv /\ LockHeld /\ Applied /\ [Next]_vars => Applied'
<1> SUFFICES ASSUME TypeInv, LockHeld, Applied, [Next]_vars PROVE Applied'
  OBVIOUS
<1> USE DEF Applying, Holding, Applied
<1>1. CASE NextDay
  BY <1>1 DEF NextDay, local, BookPending, BookPositions, BookRealized
<1>2. CASE UNCHANGED vars
  BY <1>2 DEF vars, disk, local, BookPending, BookPositions, BookRealized
<1>3. ASSUME NEW p \in Procs, Command(p) \/ Crash(p)
      PROVE  Applied'
  <2> USE DEF TypeInv, TypeOK
  <2>1. CASE UNCHANGED <<pending, positions, realized, ledger, journal>>
             /\ \E l : l \notin Applying \ {"append"} /\ Goto(p, l)
    BY <2>1 DEF Goto, BookPending, BookPositions, BookRealized
  <2>2. CASE \/ Begin(p) \/ RecoverNothing(p) \/ RecoverJournal(p) \/ RecoveryRaises(p)
             \/ LockTimeout(p) \/ ReadPending(p) \/ ReadPositions(p)
             \/ DecideEnter(p) \/ EnterConflicts(p) \/ DecideCheck(p) \/ DecideClose(p)
             \/ ReadRaises(p) \/ Precheck(p) \/ PrecheckRaises(p) \/ Acquire(p)
             \/ CommitRaises(p) \/ Export(p)
    <3>1. UNCHANGED <<pending, positions, realized, ledger, journal>>
      BY <2>2 DEF Begin, RecoverNothing, RecoverJournal, RecoveryRaises, LockTimeout,
         ReadPending, ReadPositions, DecideEnter, EnterConflicts, DecideCheck, DecideClose,
         ReadRaises, Precheck, PrecheckRaises, Acquire, CommitRaises, Export, disk
    <3>2. \E l : l \notin Applying \ {"append"} /\ Goto(p, l)
      BY <2>2 DEF Begin, RecoverNothing, RecoverJournal, RecoveryRaises, LockTimeout,
         ReadPending, ReadPositions, DecideEnter, EnterConflicts, DecideCheck, DecideClose,
         ReadRaises, Precheck, PrecheckRaises, Acquire, CommitRaises, Export, End
    <3> QED
      BY <2>1, <3>1, <3>2
  <2>3. CASE Commit(p)
    <3>1. \A q \in Procs : q # p => pc'[q] \notin Holding
      BY <2>3, OnlyHolder DEF Commit, Goto
    <3> QED
      BY <2>3, <3>1 DEF Commit, Goto
  <2>4. CASE Append(p) \/ WritePositions(p) \/ WriteAccounts(p) \/ WritePending(p)
    <3>1. \A q \in Procs : q # p => pc'[q] \notin Holding
      BY <2>4, OnlyHolder DEF Append, WritePositions, WriteAccounts, WritePending, Goto
    <3>2. CASE Append(p)
      BY <3>1, <3>2 DEF Append, Goto
    <3>3. CASE WritePositions(p)
      BY <3>1, <3>3 DEF WritePositions, Goto, BookPositions
    <3>4. CASE WriteAccounts(p)
      BY <3>1, <3>4 DEF WriteAccounts, Goto, BookPositions, BookRealized
    <3>5. CASE WritePending(p)
      BY <3>1, <3>5 DEF WritePending, Goto, BookPending, BookPositions, BookRealized
    <3> QED
      BY <2>4, <3>2, <3>3, <3>4, <3>5
  <2>5. CASE Unlink(p)
    <3>1. \A q \in Procs : q # p => pc'[q] \notin Holding
      BY <2>5, OnlyHolder DEF Unlink, Goto
    <3>2. pc'[p] \notin Applying
      BY <2>5 DEF Unlink, Goto
    <3> QED
      BY <3>1, <3>2
  <2>6. CASE Crash(p)
    <3>1. pc' = [pc EXCEPT ![p] = "idle"] /\ UNCHANGED <<pending, positions, realized, journal>>
      BY <2>6 DEF Crash, End, Goto
    <3>2. ledger \subseteq ledger'
      BY <2>6 DEF Crash
    <3> QED
      BY <3>1, <3>2 DEF BookPending, BookPositions, BookRealized
  <2> QED
    BY <1>3, <2>2, <2>3, <2>4, <2>5, <2>6 DEF Command
<1> QED
  BY <1>1, <1>2, <1>3 DEF Next

-----------------------------------------------------------------------------
(* The book. *)

LEMMA EverOf ==
  ASSUME NEW log, NEW k, NEW o
  PROVE  o \in Ever(log, k) <=> \E e \in log : e[1] = k /\ e[2] = o
  BY DEF Ever

LEMMA EverUnion ==
  ASSUME NEW L, NEW M, NEW k
  PROVE  Ever(L \cup M, k) = Ever(L, k) \cup Ever(M, k)
  BY DEF Ever

\* What a transaction adds to the ledger, by kind.
LEMMA InEvents ==
  ASSUME NEW t, NEW e
  PROVE  e \in Events(t) <=>
           \/ \E o \in t.created : e = <<"created", o, t.day>>
           \/ \E o \in t.refused : e = <<"refused", o, t.day>>
           \/ \E o \in t.fills   : e = <<"fill", o, t.day>>
           \/ \E o \in t.blocks  : e = <<"blocked", o, t.day>>
           \/ \E o \in t.closes  : e = <<"closed", o, t.day>>
  BY DEF Events

LEMMA EverProduct ==
  ASSUME NEW k, NEW j, NEW S, NEW d
  PROVE  Ever({k} \X S \X {d}, j) = IF j = k THEN S ELSE {}
<1> DEFINE E == {k} \X S \X {d}
<1>1. \A o : o \in Ever(E, j) <=> \E e \in E : e[1] = j /\ e[2] = o
  BY EverOf
<1>2. \A e \in E : e[1] = k /\ e[2] \in S
  OBVIOUS
<1>3. \A o \in S : \E e \in E : e[1] = k /\ e[2] = o
  <2> TAKE o \in S
  <2>1. <<k, o, d>> \in E /\ <<k, o, d>>[1] = k /\ <<k, o, d>>[2] = o
    OBVIOUS
  <2> QED
    BY <2>1
<1> HIDE DEF E
<1>4. \A o : o \in Ever(E, j) <=> j = k /\ o \in S
  BY <1>1, <1>2, <1>3
<1> QED
  BY <1>4 DEF E

LEMMA EverEvents ==
  ASSUME NEW t
  PROVE  /\ Ever(Events(t), "created") = t.created
         /\ Ever(Events(t), "fill") = t.fills
         /\ Ever(Events(t), "blocked") = t.blocks
         /\ Ever(Events(t), "closed") = t.closes
<1> DEFINE C == {"created"} \X t.created \X {t.day}
           R == {"refused"} \X t.refused \X {t.day}
           F == {"fill"} \X t.fills \X {t.day}
           B == {"blocked"} \X t.blocks \X {t.day}
           X == {"closed"} \X t.closes \X {t.day}
<1>1. Events(t) = C \cup R \cup F \cup B \cup X
  BY DEF Events
<1>2. \A k : Ever(Events(t), k) = Ever(C, k) \cup Ever(R, k) \cup Ever(F, k)
                                   \cup Ever(B, k) \cup Ever(X, k)
  BY <1>1 DEF Ever
<1>3. \A k : Ever(C, k) = IF k = "created" THEN t.created ELSE {}
  BY EverProduct
<1>4. \A k : Ever(R, k) = IF k = "refused" THEN t.refused ELSE {}
  BY EverProduct
<1>5. \A k : Ever(F, k) = IF k = "fill" THEN t.fills ELSE {}
  BY EverProduct
<1>6. \A k : Ever(B, k) = IF k = "blocked" THEN t.blocks ELSE {}
  BY EverProduct
<1>7. \A k : Ever(X, k) = IF k = "closed" THEN t.closes ELSE {}
  BY EverProduct
<1> HIDE DEF C, R, F, B, X
<1>8. Ever(Events(t), "created") = t.created
  BY <1>2, <1>3, <1>4, <1>5, <1>6, <1>7
<1>9. Ever(Events(t), "fill") = t.fills
  BY <1>2, <1>3, <1>4, <1>5, <1>6, <1>7
<1>10. Ever(Events(t), "blocked") = t.blocks
  BY <1>2, <1>3, <1>4, <1>5, <1>6, <1>7
<1>11. Ever(Events(t), "closed") = t.closes
  BY <1>2, <1>3, <1>4, <1>5, <1>6, <1>7
<1> QED
  BY <1>8, <1>9, <1>10, <1>11

LEMMA NothingBooked ==
  journal = NoTx => /\ BookPending = pending /\ BookPositions = positions
                    /\ BookRealized = realized /\ BookLedger = ledger
  BY NoEvents, NoTxFields DEF BookPending, BookPositions, BookRealized, BookLedger,
     WritesPending, WritesAccounts

Booked == <<BookPending, BookPositions, BookRealized, BookLedger>>

\* Only a commit moves the book: reads, locks, the writes of the files, deaths
\* and recoveries leave it as it is.
LEMMA OnlyCommitsBook ==
  ASSUME TypeInv, LockHeld, Applied, NEW p \in Procs, Command(p) \/ Crash(p), ~Commit(p)
  PROVE  Booked' = Booked /\ today' = today
<1> USE DEF Booked, BookPending, BookPositions, BookRealized, BookLedger
<1>1. CASE \/ Begin(p) \/ RecoverNothing(p) \/ RecoverJournal(p) \/ RecoveryRaises(p)
           \/ LockTimeout(p) \/ ReadPending(p) \/ ReadPositions(p)
           \/ DecideEnter(p) \/ EnterConflicts(p) \/ DecideCheck(p) \/ DecideClose(p)
           \/ ReadRaises(p) \/ Precheck(p) \/ PrecheckRaises(p) \/ Acquire(p)
           \/ CommitRaises(p) \/ Export(p)
  <2>1. UNCHANGED <<pending, positions, realized, ledger, journal, today>>
    BY <1>1 DEF Begin, RecoverNothing, RecoverJournal, RecoveryRaises, LockTimeout,
       ReadPending, ReadPositions, DecideEnter, EnterConflicts, DecideCheck, DecideClose,
       ReadRaises, Precheck, PrecheckRaises, Acquire, CommitRaises, Export, disk
  <2> QED
    BY <2>1
<1>2. CASE Append(p)
  BY <1>2 DEF Append
<1>3. CASE WritePositions(p)
  BY <1>3 DEF WritePositions
<1>4. CASE WriteAccounts(p)
  BY <1>4 DEF WriteAccounts
<1>5. CASE WritePending(p)
  BY <1>5 DEF WritePending
<1>6. CASE Unlink(p)
  <2>1. /\ Events(journal) \subseteq ledger /\ positions = BookPositions
        /\ realized = BookRealized /\ pending = BookPending
    BY <1>6 DEF Unlink, Applied, Applying
  <2>2. BookLedger = ledger
    BY <2>1
  <2>3. journal' = NoTx /\ UNCHANGED <<pending, positions, realized, ledger, today>>
    BY <1>6 DEF Unlink
  <2>4. Booked' = <<pending, positions, realized, ledger>>
    BY <2>3, NoEvents, NoTxFields DEF WritesPending, WritesAccounts
  <2> QED
    BY <2>1, <2>2, <2>3, <2>4
<1>7. CASE Crash(p)
  <2>1. UNCHANGED <<pending, positions, realized, journal, today>>
    BY <1>7 DEF Crash
  <2>2. ledger' = ledger \/ \E part \in SUBSET Events(journal) : ledger' = ledger \cup part
    BY <1>7 DEF Crash
  <2>3. BookLedger' = BookLedger
    BY <2>1, <2>2
  <2> QED
    BY <2>1, <2>3
<1> QED
  BY <1>1, <1>2, <1>3, <1>4, <1>5, <1>6, <1>7 DEF Command

\* What a committed ENTER does to the book: it adds the orders C.
EnterMove(C) ==
    /\ C \in SUBSET Orders
    /\ C \cap (BookPending \cup BookPositions) = {}
    /\ \A o \in C : DayOf[o] = today
    /\ C # {} => Cardinality(BookPending) + Cardinality(BookPositions)
                   + Cardinality(C) <= Cap
    /\ BookPending' = BookPending \cup C
    /\ BookPositions' = BookPositions
    /\ BookRealized' = BookRealized
    /\ Ever(BookLedger', "created") = Ever(BookLedger, "created") \cup C
    /\ Ever(BookLedger', "fill") = Ever(BookLedger, "fill")
    /\ Ever(BookLedger', "blocked") = Ever(BookLedger, "blocked")
    /\ Ever(BookLedger', "closed") = Ever(BookLedger, "closed")
    /\ \A e \in BookLedger' : e \in BookLedger \/ e[1] \in {"created", "refused"}

\* What a committed CHECK or CLOSE does: F filled, B blocked, X closed.
CheckMove(F, B, X) ==
    /\ F \in SUBSET Orders /\ B \in SUBSET Orders /\ X \in SUBSET Orders
    /\ F \cup B \subseteq BookPending /\ F \cap B = {}
    /\ \A o \in F \cup B : DayOf[o] < today
    /\ F # {} => Cardinality(BookPositions) + Cardinality(F) <= Cap
    /\ X \subseteq BookPositions \cup F
    /\ BookPending' = BookPending \ (F \cup B)
    /\ BookPositions' = (BookPositions \cup F) \ X
    /\ BookRealized' = BookRealized + Net(X)
    /\ Ever(BookLedger', "created") = Ever(BookLedger, "created")
    /\ Ever(BookLedger', "fill") = Ever(BookLedger, "fill") \cup F
    /\ Ever(BookLedger', "blocked") = Ever(BookLedger, "blocked") \cup B
    /\ Ever(BookLedger', "closed") = Ever(BookLedger, "closed") \cup X
    /\ \A e \in BookLedger' :
         \/ e \in BookLedger
         \/ \E o \in F : e = <<"fill", o, today>>
         \/ \E o \in B : e = <<"blocked", o, today>>
         \/ \E o \in X : e = <<"closed", o, today>>

LEMMA CommitMoves ==
  ASSUME TypeInv, LockHeld, InHand, BookInv, NEW p \in Procs, Commit(p)
  PROVE  /\ today' = today
         /\ \/ \E C \in SUBSET Orders : EnterMove(C)
            \/ \E F, B, X \in SUBSET Orders : CheckMove(F, B, X)
<1> DEFINE t == tx[p]
<1>1. /\ t \in Tx /\ Built(t) /\ Coherent(t) /\ journal = NoTx /\ journal' = t
      /\ UNCHANGED <<pending, positions, realized, ledger, today>>
  BY NothingIsNoTx DEF TypeInv, TypeOK, LockHeld, InHand, Commit, Committable
<1>2. /\ BookPending = pending /\ BookPositions = positions
      /\ BookRealized = realized /\ BookLedger = ledger
  BY <1>1, NothingBooked
<1>3. /\ BookPending' = IF WritesPending(t) THEN t.pend ELSE BookPending
      /\ BookPositions' = IF WritesAccounts(t) THEN t.pos ELSE BookPositions
      /\ BookRealized' = IF WritesAccounts(t) THEN t.real ELSE BookRealized
      /\ BookLedger' = BookLedger \cup Events(t)
  BY <1>1, <1>2 DEF BookPending, BookPositions, BookRealized, BookLedger
<1>4. /\ Ever(BookLedger', "created") = Ever(BookLedger, "created") \cup t.created
      /\ Ever(BookLedger', "fill") = Ever(BookLedger, "fill") \cup t.fills
      /\ Ever(BookLedger', "blocked") = Ever(BookLedger, "blocked") \cup t.blocks
      /\ Ever(BookLedger', "closed") = Ever(BookLedger, "closed") \cup t.closes
  BY <1>3, EverUnion, EverEvents
<1>5. \A e \in BookLedger' :
        \/ e \in BookLedger
        \/ \E o \in t.created : e = <<"created", o, today>>
        \/ \E o \in t.refused : e = <<"refused", o, today>>
        \/ \E o \in t.fills   : e = <<"fill", o, today>>
        \/ \E o \in t.blocks  : e = <<"blocked", o, today>>
        \/ \E o \in t.closes  : e = <<"closed", o, today>>
  BY <1>1, <1>3, InEvents DEF Built
<1>6. /\ t.created \in SUBSET Orders /\ t.fills \in SUBSET Orders
      /\ t.blocks \in SUBSET Orders /\ t.closes \in SUBSET Orders
      /\ t.phase \in {"enter", "check", "close"}
  BY <1>1 DEF Tx
<1> HIDE DEF t
<1>7. CASE t.phase = "enter"
  <2> DEFINE C == t.created \ pending
  <2>1. EnterCoherent(t)
    BY <1>1, <1>7 DEF Coherent
  <2>2. t.created \ (pending \cap On(ledger, "created", t.day)) = C
    BY <2>1 DEF EnterCoherent
  <2>3. pending \subseteq Ever(BookLedger, "created")
    BY <1>2 DEF BookInv, FilesFollowLedger
  <2>4. /\ t.fills = {} /\ t.blocks = {} /\ t.closes = {}
        /\ \A o \in t.created : DayOf[o] = today
    BY <1>1, <1>7 DEF Built
  <2>5. /\ C \cap (pending \cup positions) = {}
        /\ C # {} => Cardinality(pending) + Cardinality(positions) + Cardinality(C) <= Cap
        /\ t.pend = pending \cup C
    BY <2>1, <2>2 DEF EnterCoherent
  <2>6. /\ BookPending' = BookPending \cup C
        /\ BookPositions' = BookPositions /\ BookRealized' = BookRealized
    BY <1>2, <1>3, <1>7, <2>5 DEF WritesPending, WritesAccounts
  <2>7. /\ Ever(BookLedger', "created") = Ever(BookLedger, "created") \cup C
        /\ Ever(BookLedger', "fill") = Ever(BookLedger, "fill")
        /\ Ever(BookLedger', "blocked") = Ever(BookLedger, "blocked")
        /\ Ever(BookLedger', "closed") = Ever(BookLedger, "closed")
    BY <1>4, <2>3, <2>4
  <2>8. \A e \in BookLedger' : e \in BookLedger \/ e[1] \in {"created", "refused"}
    BY <1>5, <2>4
  <2>9. C \in SUBSET Orders /\ \A o \in C : DayOf[o] = today
    BY <1>6, <2>4
  <2>10. EnterMove(C)
    BY <1>2, <2>5, <2>6, <2>7, <2>8, <2>9 DEF EnterMove
  <2> QED
    BY <1>1, <2>9, <2>10
<1>8. CASE t.phase \in {"check", "close"}
  <2>1. /\ t.created = {} /\ t.refused = {} /\ t.fills \cap t.blocks = {}
        /\ \A o \in t.fills \cup t.blocks : DayOf[o] < today
        /\ t.phase = "close" => t.fills = {} /\ t.blocks = {}
    BY <1>1, <1>8 DEF Built
  <2>2. /\ t.fills \cup t.blocks \subseteq pending
        /\ t.fills # {} => Cardinality(positions) + Cardinality(t.fills) <= Cap
        /\ t.closes \subseteq positions \cup t.fills
        /\ t.phase = "check" => t.pend = pending \ (t.fills \cup t.blocks)
        /\ t.pos = (positions \cup t.fills) \ t.closes
        /\ t.real = realized + Net(t.closes)
    <3>1. CASE t.phase = "check"
      BY <1>1, <3>1 DEF Coherent, CheckCoherent
    <3>2. CASE t.phase = "close"
      BY <1>1, <2>1, <3>2 DEF Coherent, CloseCoherent
    <3> QED
      BY <1>8, <3>1, <3>2
  <2>3. BookPending' = BookPending \ (t.fills \cup t.blocks)
    BY <1>2, <1>3, <1>8, <2>1, <2>2 DEF WritesPending
  <2>4. /\ BookPositions' = (BookPositions \cup t.fills) \ t.closes
        /\ BookRealized' = BookRealized + Net(t.closes)
    BY <1>2, <1>3, <1>8, <2>2 DEF WritesAccounts
  <2>5. Ever(BookLedger', "created") = Ever(BookLedger, "created")
    BY <1>4, <2>1
  <2>6. CheckMove(t.fills, t.blocks, t.closes)
    BY <1>2, <1>4, <1>5, <1>6, <2>1, <2>2, <2>3, <2>4, <2>5 DEF CheckMove
  <2> QED
    BY <1>1, <1>6, <2>6
<1> QED
  BY <1>6, <1>7, <1>8

\* The events of the book name orders.
LEMMA EverTyped ==
  ASSUME TypeInv, NEW k
  PROVE  Ever(BookLedger, k) \in SUBSET Orders
<1>1. ledger \subseteq {"created", "refused", "fill", "blocked", "closed"} \X Orders \X Days
  BY DEF TypeInv, TypeOK
<1>2. Events(journal) \subseteq {"created", "refused", "fill", "blocked", "closed"} \X Orders \X Days
  BY EventsTyped, NoEvents DEF TypeInv, TypeOK
<1>3. \A e \in BookLedger : e[2] \in Orders
  BY <1>1, <1>2 DEF BookLedger
<1> QED
  BY <1>3 DEF Ever

LEMMA BookInit == Init => BookInv
<1> SUFFICES ASSUME Init PROVE BookInv
  OBVIOUS
<1>1. /\ BookPending = {} /\ BookPositions = {} /\ BookRealized = 0 /\ BookLedger = {}
  BY NothingBooked DEF Init
<1>2. \A k : Ever({}, k) = {}
  BY DEF Ever
<1> QED
  BY <1>1, <1>2, NetOfNothing
  DEF BookInv, FilesFollowLedger, ClosedWereFilled, DecidedAreOld, OnceEach

\* ENTER adds orders of today to the pending ones; nothing decided yet is among
\* them, because only orders of earlier days are decided.
LEMMA EnterKeepsBook ==
  ASSUME BookInv, today' = today, NEW C, EnterMove(C)
  PROVE  BookInv'
<1> USE DEF EnterMove
<1>1. FilesFollowLedger'
  <2>1. C \cap (Ever(BookLedger, "fill") \cup Ever(BookLedger, "blocked")) = {}
    <3> SUFFICES ASSUME NEW o \in C,
                        o \in Ever(BookLedger, "fill") \cup Ever(BookLedger, "blocked")
                 PROVE  FALSE
      OBVIOUS
    <3>1. o \in Orders /\ DayOf[o] = today /\ DayOf[o] < today
      BY DEF BookInv, DecidedAreOld
    <3>2. DayOf[o] \in Int
      BY <3>1, OrdersAssumption
    <3> QED
      BY <3>1, <3>2
  <2> QED
    BY <2>1 DEF BookInv, FilesFollowLedger
<1>2. ClosedWereFilled' /\ DecidedAreOld'
  BY DEF BookInv, ClosedWereFilled, DecidedAreOld
<1>3. OnceEach'
  BY DEF BookInv, OnceEach, SameDecision, Decisive
<1> QED
  BY <1>1, <1>2, <1>3 DEF BookInv

\* CHECK decides pending orders, which have no outcome yet, and closes open
\* positions, which have no close.
LEMMA CheckKeepsBook ==
  ASSUME TypeInv, BookInv, today' = today, NEW F, NEW B, NEW X, CheckMove(F, B, X)
  PROVE  BookInv'
<1> USE DEF CheckMove
<1> DEFINE EF == Ever(BookLedger, "fill")
           EB == Ever(BookLedger, "blocked")
           EX == Ever(BookLedger, "closed")
<1>1. /\ BookPending = Ever(BookLedger, "created") \ (EF \cup EB)
      /\ BookPositions = EF \ EX
      /\ BookRealized = Net(EX)
      /\ EX \subseteq EF
  BY DEF BookInv, FilesFollowLedger, ClosedWereFilled
<1>2. /\ (F \cup B) \cap (EF \cup EB) = {}
      /\ X \cap EX = {}
  BY <1>1
<1>3. FilesFollowLedger'
  <2>1. BookPending' = Ever(BookLedger', "created")
                         \ (Ever(BookLedger', "fill") \cup Ever(BookLedger', "blocked"))
    BY <1>1
  <2>2. BookPositions' = Ever(BookLedger', "fill") \ Ever(BookLedger', "closed")
    BY <1>1, <1>2
  <2>3. EX \in SUBSET Orders
    BY EverTyped
  <2>4. Net(EX \cup X) = Net(EX) + Net(X)
    BY <1>2, <2>3, NetOfClosed
  <2>5. BookRealized' = Net(Ever(BookLedger', "closed"))
    BY <1>1, <2>4
  <2> QED
    BY <2>1, <2>2, <2>5 DEF FilesFollowLedger
<1>4. ClosedWereFilled'
  BY <1>1 DEF ClosedWereFilled
<1>5. DecidedAreOld'
  BY DEF BookInv, DecidedAreOld
<1>6. OnceEach'
  <2> SUFFICES ASSUME NEW e \in BookLedger', NEW f \in BookLedger', SameDecision(e, f)
               PROVE  e = f
    BY DEF OnceEach
  <2>1. \A g \in BookLedger :
          /\ g[1] = "fill" => g[2] \in EF
          /\ g[1] = "blocked" => g[2] \in EB
          /\ g[1] = "closed" => g[2] \in EX
    BY EverOf
  <2>2. CASE e \in BookLedger /\ f \in BookLedger
    BY <2>2 DEF BookInv, OnceEach
  <2>3. CASE e \notin BookLedger
    BY <1>2, <2>1, <2>3 DEF SameDecision, Decisive
  <2>4. CASE f \notin BookLedger
    BY <1>2, <2>1, <2>4 DEF SameDecision, Decisive
  <2> QED
    BY <2>2, <2>3, <2>4
<1> QED
  BY <1>3, <1>4, <1>5, <1>6 DEF BookInv

LEMMA BookStep ==
  TypeInv /\ LockHeld /\ InHand /\ Applied /\ BookInv /\ [Next]_vars => BookInv'
<1> SUFFICES ASSUME TypeInv, LockHeld, InHand, Applied, BookInv, [Next]_vars
             PROVE  BookInv'
  OBVIOUS
<1>1. ASSUME Booked' = Booked, today' \in {today, today + 1}
      PROVE  BookInv'
  <2>1. /\ BookPending' = BookPending /\ BookPositions' = BookPositions
        /\ BookRealized' = BookRealized /\ BookLedger' = BookLedger
    BY <1>1 DEF Booked
  <2>2. FilesFollowLedger' /\ ClosedWereFilled' /\ OnceEach'
    BY <2>1 DEF BookInv, FilesFollowLedger, ClosedWereFilled, OnceEach
  <2>3. \A o \in Ever(BookLedger', "fill") \cup Ever(BookLedger', "blocked") : DayOf[o] < today'
    <3> SUFFICES ASSUME NEW o \in Ever(BookLedger', "fill") \cup Ever(BookLedger', "blocked")
                 PROVE  DayOf[o] < today'
      OBVIOUS
    <3>1. o \in Orders
      BY <2>1, EverTyped
    <3>2. DayOf[o] \in Int /\ today \in Int
      BY <3>1, OrdersAssumption DEF TypeInv, TypeOK, Days
    <3>3. DayOf[o] < today
      BY <2>1 DEF BookInv, DecidedAreOld
    <3> QED
      BY <1>1, <3>2, <3>3
  <2> QED
    BY <2>2, <2>3 DEF BookInv, DecidedAreOld
<1>2. CASE NextDay
  BY <1>1, <1>2 DEF NextDay, Booked, BookPending, BookPositions, BookRealized, BookLedger
<1>3. CASE UNCHANGED vars
  BY <1>1, <1>3 DEF vars, disk, Booked, BookPending, BookPositions, BookRealized, BookLedger
<1>4. ASSUME NEW p \in Procs, Command(p) \/ Crash(p)
      PROVE  BookInv'
  <2>1. CASE Commit(p)
    BY <2>1, CommitMoves, EnterKeepsBook, CheckKeepsBook
  <2>2. CASE ~Commit(p)
    BY <1>1, <1>4, <2>2, OnlyCommitsBook
  <2> QED
    BY <2>1, <2>2
<1> QED
  BY <1>2, <1>3, <1>4 DEF Next

\* The inductive invariant.
LEMMA Inductive == Spec => []IInv
<1>1. Init => IInv
  BY TypeInit, LockInit, HandInit, AppliedInit, BookInit DEF IInv
<1>2. IInv /\ [Next]_vars => IInv'
  BY TypeStep, LockStep, HandStep, AppliedStep, BookStep DEF IInv
<1> QED
  BY <1>1, <1>2, PTL DEF Spec

\* The state files are what the ledger and the pending journal say, whatever
\* commands interleaved, died or were recovered on the way.
THEOREM FilesFollow == Spec => []FilesFollowLedger
<1>1. IInv => FilesFollowLedger
  BY DEF IInv, BookInv
<1> QED
  BY <1>1, Inductive, PTL

\* No order is decided twice and no position is closed twice.
THEOREM Once == Spec => []DecidedOnce
<1>1. ASSUME NEW S, \A x, y \in S : x = y
      PROVE  Cardinality(S) <= 1
  <2>1. S = {} \/ \E x : S = {x}
    BY <1>1
  <2>2. CASE S = {}
    BY <2>2, FS_EmptySet
  <2>3. ASSUME NEW x, S = {x}
        PROVE  Cardinality(S) <= 1
    BY <2>3, FS_Singleton
  <2> QED
    BY <2>1, <2>2, <2>3
<1>2. IInv => DecidedOnce
  <2> SUFFICES ASSUME IInv, NEW o \in Orders
               PROVE  /\ Cardinality({e \in BookLedger : e[2] = o /\ e[1] \in {"fill", "blocked"}}) <= 1
                      /\ Cardinality({e \in BookLedger : e[2] = o /\ e[1] = "closed"}) <= 1
    BY DEF DecidedOnce
  <2> USE DEF IInv, BookInv, OnceEach, SameDecision, Decisive
  <2>1. \A e, f \in {g \in BookLedger : g[2] = o /\ g[1] \in {"fill", "blocked"}} : e = f
    OBVIOUS
  <2>2. \A e, f \in {g \in BookLedger : g[2] = o /\ g[1] = "closed"} : e = f
    OBVIOUS
  <2> QED
    BY <1>1, <2>1, <2>2
<1> QED
  BY <1>2, Inductive, PTL

-----------------------------------------------------------------------------
(* The refinement: a commit is a step of PaperBook, everything else stutters. *)

\* The parts of the book are disjoint, and each order's stage tells where it is.
LEMMA Stages ==
  ASSUME TypeInv, BookInv
  PROVE  /\ BookStage \in [Orders -> Book!Stage]
         /\ Book!At("pending") = BookPending
         /\ Book!At("open") = BookPositions
         /\ BookPending \in SUBSET Orders /\ BookPositions \in SUBSET Orders
         /\ BookPending \cap BookPositions = {}
<1>1. BookPending \in SUBSET Orders /\ BookPositions \in SUBSET Orders
  BY EverTyped DEF BookInv, FilesFollowLedger
<1>2. BookPending \cap BookPositions = {}
  BY DEF BookInv, FilesFollowLedger
<1>3. BookStage \in [Orders -> Book!Stage]
  BY DEF BookStage, Book!Stage
<1>4. Book!At("pending") = BookPending /\ Book!At("open") = BookPositions
  BY <1>1, <1>2 DEF BookStage, Book!At, Book!Staged
<1> QED
  BY <1>1, <1>2, <1>3, <1>4

\* Disjoint sets of orders add up.
LEMMA OrdersAddUp ==
  ASSUME NEW S \in SUBSET Orders, NEW T \in SUBSET Orders, S \cap T = {}
  PROVE  Cardinality(S \cup T) = Cardinality(S) + Cardinality(T)
<1>1. IsFiniteSet(S) /\ IsFiniteSet(T)
  BY FS_Subset, OrdersAssumption
<1>2. Cardinality(S \cap T) = 0
  BY FS_EmptySet
<1>3. Cardinality(S) \in Nat /\ Cardinality(T) \in Nat
  BY <1>1, FS_CardinalityType
<1>4. Cardinality(S \cup T) = Cardinality(S) + Cardinality(T) - Cardinality(S \cap T)
  BY <1>1, FS_Union
<1> QED
  BY <1>2, <1>3, <1>4

\* PaperBook counts as PaperOps does.
LEMMA SameCount == \A S : Book!Cardinality(S) = Cardinality(S)
  BY DEF Book!Cardinality, Cardinality

LEMMA EnterRefines ==
  ASSUME TypeInv, BookInv, today' = today, NEW C, EnterMove(C)
  PROVE  Book!Next
<1> USE DEF EnterMove
<1>1. C \in SUBSET Book!At("new")
  <2> SUFFICES ASSUME NEW o \in C
               PROVE  BookStage[o] = "new" /\ o \in Orders
    BY DEF Book!At, Book!Staged
  <2>1. o \in Orders /\ o \notin BookPending /\ o \notin BookPositions
    OBVIOUS
  <2>2. DayOf[o] = today /\ DayOf[o] \in Int
    BY <2>1, OrdersAssumption
  <2>3. o \notin Ever(BookLedger, "fill") /\ o \notin Ever(BookLedger, "blocked")
    BY <2>2 DEF BookInv, DecidedAreOld
  <2>4. o \notin Ever(BookLedger, "closed")
    BY <2>3 DEF BookInv, ClosedWereFilled
  <2> QED
    BY <2>1, <2>3, <2>4 DEF BookStage
<1>2. C # {} => Cardinality(Book!At("pending") \cup Book!At("open") \cup C) <= Cap
  <2>1. /\ Cardinality(BookPending \cup BookPositions)
            = Cardinality(BookPending) + Cardinality(BookPositions)
        /\ BookPending \cup BookPositions \in SUBSET Orders
    BY Stages, OrdersAddUp
  <2>2. Cardinality((BookPending \cup BookPositions) \cup C)
          = Cardinality(BookPending \cup BookPositions) + Cardinality(C)
    BY <2>1, OrdersAddUp
  <2> QED
    BY <2>1, <2>2, Stages
<1>3. BookStage' = Book!Moved(BookStage, C, "pending")
  BY DEF BookStage, Book!Moved
<1>4. Book!Enter(C)
  BY <1>2, <1>3, SameCount DEF Book!Enter
<1> QED
  BY <1>1, <1>4 DEF Book!Next

LEMMA CheckRefines ==
  ASSUME TypeInv, BookInv, NEW F, NEW B, NEW X, CheckMove(F, B, X)
  PROVE  Book!Next
<1> USE DEF CheckMove
<1>1. /\ F \in SUBSET Book!At("pending")
      /\ B \in SUBSET (Book!At("pending") \ F)
      /\ X \in SUBSET (Book!At("open") \cup F)
  BY Stages
<1>2. F # {} => Cardinality(Book!At("open") \cup F) <= Cap
  <2>1. Cardinality(BookPositions \cup F) = Cardinality(BookPositions) + Cardinality(F)
    BY Stages, OrdersAddUp
  <2> QED
    BY <2>1, Stages
<1>3. BookStage' = Book!Moved(Book!Moved(Book!Moved(BookStage, F, "open"), B, "blocked"),
                              X, "closed")
  <2>1. /\ BookPending \cap BookPositions = {}
        /\ BookPending \cap Ever(BookLedger, "closed") = {}
    BY DEF BookInv, FilesFollowLedger, ClosedWereFilled
  <2> QED
    BY <2>1 DEF BookStage, Book!Moved
<1>4. Book!Check(F, B, X)
  BY <1>2, <1>3, SameCount DEF Book!Check
<1> QED
  BY <1>1, <1>4 DEF Book!Next

\* The commands, with their reads, locks, deaths and recoveries, move the book
\* as PaperBook's whole transactions do.
THEOREM Implements == Spec => ImplementsBook
<1>1. Init => Book!Init
  <2> SUFFICES ASSUME Init PROVE Book!Init
    OBVIOUS
  <2>1. /\ BookPending = {} /\ BookPositions = {} /\ BookRealized = 0 /\ BookLedger = {}
    BY NothingBooked DEF Init
  <2>2. \A k : Ever({}, k) = {}
    BY DEF Ever
  <2> QED
    BY <2>1, <2>2 DEF Book!Init, BookStage
<1>2. IInv /\ [Next]_vars => [Book!Next]_<<BookStage, BookRealized>>
  <2> SUFFICES ASSUME IInv, [Next]_vars
               PROVE  Book!Next \/ UNCHANGED <<BookStage, BookRealized>>
    OBVIOUS
  <2> USE DEF IInv
  <2>1. ASSUME Booked' = Booked
        PROVE  UNCHANGED <<BookStage, BookRealized>>
    BY <2>1 DEF Booked, BookStage
  <2>2. CASE NextDay
    BY <2>1, <2>2 DEF NextDay, Booked, BookPending, BookPositions, BookRealized, BookLedger
  <2>3. CASE UNCHANGED vars
    BY <2>1, <2>3 DEF vars, disk, Booked, BookPending, BookPositions, BookRealized, BookLedger
  <2>4. ASSUME NEW p \in Procs, Command(p) \/ Crash(p)
        PROVE  Book!Next \/ UNCHANGED <<BookStage, BookRealized>>
    <3>1. CASE Commit(p)
      BY <3>1, CommitMoves, EnterRefines, CheckRefines
    <3>2. CASE ~Commit(p)
      BY <2>1, <2>4, <3>2, OnlyCommitsBook
    <3> QED
      BY <3>1, <3>2
  <2> QED
    BY <2>2, <2>3, <2>4 DEF Next
<1> QED
  BY <1>1, <1>2, Inductive, PTL DEF Spec, ImplementsBook, Book!Spec
=============================================================================
