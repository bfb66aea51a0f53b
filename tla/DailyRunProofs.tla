--------------------------- MODULE DailyRunProofs ---------------------------
(* Theorems about DailyRun, for every value of its constants. *)
EXTENDS DailyRun, Greatest, TLAPS

FinalStages == {"performance", "publication", "readiness"}

Once(s) == \E i \in Rows(s) : ledger[i].ok

\* The last row of s from a lock holder is a success.
Backed(s) ==
  \E k \in Rows(s) : /\ ledger[k].held /\ ledger[k].ok
                     /\ \A i \in Rows(s) : ledger[i].held => i <= k

\* Only a lock holder reports a success, or a stage that is not recorded
\* without the lock.
HeldRow(r) == r.ok \/ r.stage \notin RecordsWhenRefused => r.held

\* The attempts of a stage are numbered without gaps, in order.
Rising ==
  \A i, k \in DOMAIN ledger :
    i < k /\ ledger[i].stage = ledger[k].stage => ledger[i].no < ledger[k].no
Gapless == \A i \in DOMAIN ledger : \A n \in 1 .. ledger[i].no : n \in Attempts(ledger[i].stage)
Ledgers == Rising /\ Gapless /\ \A i \in DOMAIN ledger : HeldRow(ledger[i])

\* A number that was counted leaves no gap, and a lock holder's is the row's
\* of nobody but a monitor that was refused the lock.
Counted(o) ==
  o.pc = "insert" =>
    /\ o.row.no >= 1 /\ \A n \in 1 .. o.row.no - 1 : n \in Attempts(o.row.stage)
    /\ o.row.held => \A i \in Rows(o.row.stage) : ledger[i].no >= o.row.no => ~ledger[i].held

\* l is the rest of t.
Rest(l, t) ==
  Len(l) <= Len(t) /\ \A i \in 1 .. Len(l) : l[i] = t[Len(t) - Len(l) + i]

\* The process p, being at o.
Local(p, o) ==
  /\ o.pc = "idle" => o = Idle /\ lock # p
  /\ o.pc = "work" => lock = p
  /\ o.pc \in Recording =>
       /\ o.row.held <=> lock = p
       /\ HeldRow(o.row)
       /\ o.job = "finalize" => o.row.stage \in FinalStages
       /\ o.row.stage = "readiness" /\ o.row.ok => o.ready
  /\ Rest(o.left, Steps(o.job))
  /\ o.ready => lock = p /\ o.job = "finalize" /\ \A s \in Upstream : Backed(s)
  /\ Counted(o)
  /\ o.prior => Once("publication")
  /\ o.pc \in {"tally", "close"} /\ o.row.stage = "publication" /\ o.row.ok => Once("publication")
  /\ o.sum = "COMPLETE" => \A s \in Stages : Once(s)

Locals == \A p \in Procs : Local(p, op[p])

\* Recordings that did not overlap, and the status they derive.
Clear ==
  ~blurred => /\ \A p, q \in InFlight : p = q
              /\ \A p \in Procs : op[p].pc = "close" => op[p].sum = RunStatus

\* ReadyBacked, row by row.
ReadyRows ==
  \A r \in Rows("readiness") : ledger[r].ok =>
    \A s \in Upstream :
      \E k \in Rows(s) : /\ k < r /\ ledger[k].held /\ ledger[k].ok
                         /\ \A i \in Rows(s) : i < r /\ ledger[i].held => i <= k

Supported ==
  /\ run.stamped => Once("publication")
  /\ run.status = "COMPLETE" => \A s \in Stages : Once(s)

Typed ==
  /\ ledger \in Seq(Row)
  /\ run \in [status : Status, stamped : BOOLEAN]
  /\ lock \in Procs \union {None}
  /\ op \in [Procs -> Ops]
  /\ dropped \subseteq Row /\ blurred \in BOOLEAN
  /\ jobs \in [Jobs -> Nat] /\ faults \in 0 .. MaxFaults

IInv ==
  /\ Typed /\ Ledgers /\ Locals /\ Clear /\ HeldRowsSurvive /\ ReadyRows /\ SummarySettles
  /\ Supported

-----------------------------------------------------------------------------
(* Lemmas about the operators of DailyRun. *)

LEMMA Constants ==
  /\ None \notin Procs
  /\ MaxRetries \in Nat /\ MaxFaults \in Nat /\ MaxMonitors \in Nat /\ MaxOthers \in Nat
  BY DailyRunAssumption

LEMMA SeqGrows ==
  ASSUME NEW A, NEW B, A \subseteq B, NEW s \in Seq(A)
  PROVE  s \in Seq(B)
  OBVIOUS

LEMMA FinalsAre ==
  /\ Finals \in Seq(FinalStages) /\ Len(Finals) = 3
  /\ Range(Finals) = FinalStages
<1>1. Finals = <<"performance", "publication", "readiness">>
  BY DEF Finals
<1>2. Finals \in Seq(FinalStages) /\ Len(Finals) = 3
  BY <1>1 DEF FinalStages
<1>3. DOMAIN Finals = 1 .. 3 /\ 1 .. 3 = {1, 2, 3}
  BY <1>1
<1> QED
  BY <1>1, <1>2, <1>3 DEF Range, FinalStages

LEMMA StagesAre ==
  /\ Stages = {"monitor", "eod", "performance", "publication", "readiness"}
  /\ Required = Stages /\ FinalStages \subseteq Stages /\ Upstream \subseteq Stages
  /\ FinalStages \cap Upstream = {} /\ RecordsWhenRefused = {"monitor"}
  /\ Upstream = {"monitor", "eod"} /\ Jobs = {"monitor", "eod", "finalize"}
  BY FinalsAre DEF Stages, Required, FinalStages, Upstream, RecordsWhenRefused, Jobs

\* The steps of the finalizer, and the one step of any other job.
LEMMA StepsAre ==
  ASSUME NEW j \in Jobs
  PROVE  /\ Steps(j) \in Seq(Stages \union Unrecorded) /\ Len(Steps(j)) >= 1
         /\ \A i \in 1 .. Len(Steps(j)) :
               /\ j # "finalize" => Steps(j)[i] = j
               /\ j = "finalize" => Steps(j)[i] \in FinalStages \union Unrecorded
<1>1. CASE j = "finalize"
  <2>1. Steps(j) = <<"read">> \o Finals \o <<"files">>
    BY <1>1 DEF Steps
  <2>2. /\ <<"read">> \in Seq(FinalStages \union Unrecorded)
        /\ <<"files">> \in Seq(FinalStages \union Unrecorded)
        /\ Finals \in Seq(FinalStages \union Unrecorded)
    BY FinalsAre DEF Unrecorded
  <2>3. Steps(j) \in Seq(FinalStages \union Unrecorded) /\ Len(Steps(j)) >= 1
    BY <2>1, <2>2, FinalsAre
  <2>4. \A i \in 1 .. Len(Steps(j)) : Steps(j)[i] \in FinalStages \union Unrecorded
    BY <2>3
  <2>5. Steps(j) \in Seq(Stages \union Unrecorded)
    <3>1. FinalStages \union Unrecorded \subseteq Stages \union Unrecorded
      BY StagesAre
    <3> QED
      BY <2>3, <3>1, SeqGrows
  <2> QED
    BY <1>1, <2>3, <2>4, <2>5
<1>2. CASE j # "finalize"
  <2>1. Steps(j) = <<j>> /\ j \in Stages \union Unrecorded
    BY <1>2, StagesAre DEF Steps
  <2> QED
    BY <1>2, <2>1
<1> QED
  BY <1>1, <1>2

\* The rest of a job's steps, less its first.
LEMMA RestIs ==
  ASSUME NEW S, NEW l \in Seq(S), NEW t \in Seq(S), Rest(l, t), l # <<>>
  PROVE  /\ Head(l) \in S /\ Tail(l) \in Seq(S) /\ Rest(Tail(l), t)
         /\ \E i \in 1 .. Len(t) : Head(l) = t[i]
<1>1. Len(l) \in Nat /\ Len(t) \in Nat /\ Len(l) >= 1 /\ Len(l) <= Len(t)
  BY DEF Rest
<1>2. Head(l) = l[1] /\ l[1] \in S /\ l[1] = t[Len(t) - Len(l) + 1]
  BY <1>1 DEF Rest
<1>3. Tail(l) \in Seq(S) /\ Len(Tail(l)) = Len(l) - 1
      /\ \A i \in 1 .. Len(l) - 1 : Tail(l)[i] = l[i + 1]
  BY <1>1
<1>4. \A i \in 1 .. Len(l) - 1 :
        i + 1 \in 1 .. Len(l) /\ Len(t) - Len(l) + (i + 1) = Len(t) - (Len(l) - 1) + i
  BY <1>1
<1>5. Rest(Tail(l), t)
  BY <1>1, <1>3, <1>4 DEF Rest
<1>6. Len(t) - Len(l) + 1 \in 1 .. Len(t)
  BY <1>1
<1> QED
  BY <1>2, <1>3, <1>5, <1>6

LEMMA RestOf ==
  ASSUME NEW S, NEW t \in Seq(S)
  PROVE  Rest(t, t) /\ Rest(<<>>, t) /\ <<>> \in Seq(S)
<1>1. Len(t) \in Nat /\ \A i \in 1 .. Len(t) : Len(t) - Len(t) + i = i
  OBVIOUS
<1> QED
  BY <1>1 DEF Rest

\* A rest is a suffix.
LEMMA RestIsSuffix ==
  ASSUME NEW S, NEW l \in Seq(S), NEW t \in Seq(S), Rest(l, t)
  PROVE  IsSuffix(l, t)
<1> DEFINE m == Len(l)
           n == Len(t)
           a == Reverse(l)
           b == Reverse(t)
<1>1. m \in Nat /\ n \in Nat /\ m <= n
  BY DEF Rest
<1>2. a = [i \in 1 .. m |-> l[(m - i) + 1]] /\ b = [i \in 1 .. n |-> t[(n - i) + 1]]
  BY DEF Reverse
<1>3. \A i \in 1 .. m : (m - i) + 1 \in 1 .. m
  BY <1>1
<1>4. \A i \in 1 .. n : (n - i) + 1 \in 1 .. n
  BY <1>1
<1>5. a \in Seq(S) /\ Len(a) = m
  BY <1>1, <1>2, <1>3
<1>6. b \in Seq(S) /\ Len(b) = n
  BY <1>1, <1>2, <1>4
<1>7. \A i \in 1 .. m : a[i] = b[i]
  <2> SUFFICES ASSUME NEW i \in 1 .. m PROVE a[i] = b[i]
    OBVIOUS
  <2>1. (m - i) + 1 \in 1 .. m /\ n - m + ((m - i) + 1) = (n - i) + 1 /\ i \in 1 .. n
    BY <1>1
  <2> QED
    BY <1>2, <2>1 DEF Rest
<1> HIDE DEF m, n, a, b
<1>8. SubSeq(a, 1, m) = [i \in 1 .. m |-> a[i]] /\ SubSeq(b, 1, m) = [i \in 1 .. m |-> b[i]]
  BY <1>1, <1>5, <1>6
<1>9. SubSeq(a, 1, m) = SubSeq(b, 1, m)
  BY <1>7, <1>8
<1>10. IsPrefix(a, b)
  BY <1>1, <1>5, <1>6, <1>9 DEF IsPrefix
<1> QED
  BY <1>10 DEF IsSuffix, a, b

\* The rows of a stage are places in the ledger.
LEMMA RowsAre ==
  ASSUME Typed, NEW s
  PROVE  /\ Rows(s) \subseteq 1 .. Len(ledger) /\ Len(ledger) \in Nat
         /\ Rows(s) \subseteq 0 .. Len(ledger)
         /\ DOMAIN ledger = 1 .. Len(ledger)
         /\ \A i \in Rows(s) : ledger[i] \in Row /\ ledger[i].stage = s /\ ledger[i].no \in Nat
<1>1. ledger \in Seq(Row)
  BY DEF Typed
<1>2. Len(ledger) \in Nat /\ DOMAIN ledger = 1 .. Len(ledger)
      /\ \A i \in DOMAIN ledger : ledger[i] \in Row
  BY <1>1
<1>3. \A r \in Row : r.no \in Nat
  BY DEF Row
<1> QED
  BY <1>2, <1>3 DEF Rows

\* The row of the highest attempt is the last one.
LEMMA LatestIs ==
  ASSUME Typed, Rising, NEW s, Rows(s) # {}
  PROVE  \E k \in Rows(s) :
            /\ Latest(s) = ledger[k] /\ \A i \in Rows(s) : i <= k
            /\ Max(Attempts(s)) = ledger[k].no
            /\ \A i \in Rows(s) : ledger[i].no <= ledger[k].no
<1>1. PICK k : k = Max(Rows(s))
  OBVIOUS
<1>2. k \in Rows(s) /\ \A i \in Rows(s) : i <= k
  <2>1. Len(ledger) \in Nat /\ Rows(s) \subseteq 0 .. Len(ledger)
    BY RowsAre
  <2> QED
    BY <1>1, <2>1, MaxIsGreatest
<1>3. \A i \in Rows(s) : ledger[i].no \in Nat /\ i \in Nat /\ i \in DOMAIN ledger
                         /\ ledger[i].stage = s
  BY RowsAre
<1>4. \A i \in Rows(s) : i # k => ledger[i].no < ledger[k].no
  BY <1>2, <1>3 DEF Rising
<1>5. \A i \in Rows(s) : ledger[i].no <= ledger[k].no
  BY <1>2, <1>3, <1>4
<1>6. Max(Attempts(s)) = ledger[k].no
  <2>1. ledger[k].no \in Attempts(s) /\ \A x \in Attempts(s) : x \in Nat /\ x <= ledger[k].no
    BY <1>2, <1>3, <1>5 DEF Attempts
  <2>2. \A x \in Attempts(s) : (\A y \in Attempts(s) : x >= y) => x = ledger[k].no
    BY <2>1
  <2>3. \A y \in Attempts(s) : ledger[k].no >= y
    BY <2>1
  <2> QED
    BY <2>1, <2>2, <2>3 DEF Max
<1>7. \A i \in Rows(s) : ledger[i].no = ledger[k].no => i = k
  BY <1>2, <1>3, <1>4
<1>8. Latest(s) = ledger[k]
  BY <1>2, <1>6, <1>7 DEF Latest
<1> QED
  BY <1>2, <1>5, <1>6, <1>8

\* A number that is counted is that of no row, and leaves no gap.
LEMMA NextAttemptIs ==
  ASSUME Typed, Rising, Gapless, NEW s
  PROVE  /\ NextAttempt(s) \in Nat /\ NextAttempt(s) >= 1
         /\ \A n \in 1 .. NextAttempt(s) - 1 : n \in Attempts(s)
         /\ \A i \in Rows(s) : ledger[i].no < NextAttempt(s)
<1>1. CASE Rows(s) = {}
  <2>1. NextAttempt(s) = 1
    BY <1>1 DEF NextAttempt, Attempts
  <2> QED
    BY <1>1, <2>1
<1>2. CASE Rows(s) # {}
  <2>1. PICK k \in Rows(s) : /\ Max(Attempts(s)) = ledger[k].no
                             /\ \A i \in Rows(s) : ledger[i].no <= ledger[k].no
    BY <1>2, LatestIs
  <2>2. Attempts(s) # {}
    BY <1>2 DEF Attempts
  <2>3. NextAttempt(s) = ledger[k].no + 1
    BY <2>1, <2>2 DEF NextAttempt
  <2>4. /\ ledger[k].no \in Nat /\ k \in DOMAIN ledger /\ ledger[k].stage = s
        /\ \A i \in Rows(s) : ledger[i].no \in Nat
    BY RowsAre
  <2>5. \A n \in 1 .. ledger[k].no : n \in Attempts(s)
    BY <2>4 DEF Gapless
  <2> QED
    BY <2>1, <2>3, <2>4, <2>5
<1> QED
  BY <1>1, <1>2

\* A stage that succeeds has a last success of a lock holder.
LEMMA SucceedsIs ==
  ASSUME Typed, Ledgers, NEW s, Succeeds(s)
  PROVE  Once(s) /\ Backed(s)
<1>1. PICK k \in Rows(s) : Latest(s) = ledger[k] /\ \A i \in Rows(s) : i <= k
  BY LatestIs DEF Ledgers, Succeeds
<1>2. ledger[k].ok /\ k \in DOMAIN ledger
  BY <1>1, RowsAre DEF Succeeds
<1>3. ledger[k].held
  BY <1>2 DEF Ledgers, HeldRow
<1> QED
  BY <1>1, <1>2, <1>3 DEF Once, Backed

LEMMA RunStatusIs ==
  ASSUME Typed, Ledgers
  PROVE  /\ RunStatus \in Status
         /\ RunStatus = "COMPLETE" => \A s \in Stages : Once(s)
<1>1. RunStatus \in Status
  BY DEF RunStatus, Status
<1>2. RunStatus = "COMPLETE" => \A s \in Stages : Succeeds(s)
  BY StagesAre DEF RunStatus
<1> QED
  BY <1>1, <1>2, SucceedsIs

-----------------------------------------------------------------------------
(* Steps that insert no row. *)

\* What such a step of p has to show.
LEMMA Moves ==
  ASSUME IInv, NEW p \in Procs, NEW o \in Ops, op' = [op EXCEPT ![p] = o],
         UNCHANGED ledger, dropped' \subseteq Row,
         \A d \in dropped' \ dropped : d.held =>
            \E i \in Rows(d.stage) : ledger[i].no = d.no /\ ~ledger[i].held,
         run' \in [status : Status, stamped : BOOLEAN], lock' \in Procs \union {None},
         blurred' \in BOOLEAN, jobs' \in [Jobs -> Nat], faults' \in 0 .. MaxFaults,
         \A q \in Procs \ {p} : lock' = q <=> lock = q,
         Local(p, o)',
         ~blurred' => \/ InFlight \ {p} = {}
                      \/ ~blurred /\ (o.pc \in Recording => op[p].pc \in Recording),
         ~blurred' /\ o.pc = "close" => o.sum = RunStatus,
         ~blurred' /\ o.pc \notin Recording =>
            \/ run'.status = RunStatus
            \/ ~blurred /\ op[p].pc \notin Recording /\ run' = run,
         run'.stamped => Once("publication"),
         run'.status = "COMPLETE" => \A s \in Stages : Once(s)
  PROVE  IInv'
<1>1. Typed'
  BY DEF IInv, Typed
<1>2. /\ op'[p] = o
      /\ \A q \in Procs \ {p} : op'[q] = op[q]
  BY DEF IInv, Typed
<1>3. /\ \A s : Rows(s)' = Rows(s) /\ Attempts(s)' = Attempts(s)
      /\ \A s : (Once(s)' <=> Once(s)) /\ (Backed(s)' <=> Backed(s))
      /\ \A x : Counted(x)' <=> Counted(x)
  <2>1. \A s : Rows(s)' = Rows(s)
    BY DEF Rows
  <2>2. \A s : Attempts(s)' = Attempts(s)
    BY <2>1 DEF Attempts
  <2> QED
    BY <2>1, <2>2 DEF Once, Backed, Counted
<1>4. Ledgers'
  BY <1>3 DEF IInv, Ledgers, Rising, Gapless
<1>5. Locals'
  <2> SUFFICES ASSUME NEW q \in Procs PROVE Local(q, op[q])'
    BY DEF Locals
  <2>1. CASE q = p
    BY <1>2, <2>1
  <2>2. CASE q # p
    <3>1. PICK x : x = op[q]
      OBVIOUS
    <3>2. Local(q, x) /\ op'[q] = x
      BY <1>2, <2>2, <3>1 DEF IInv, Locals
    <3>3. Local(q, x)'
      BY <1>3, <2>2, <3>2 DEF Local
    <3> QED
      BY <3>2, <3>3
  <2> QED
    BY <2>1, <2>2
<1>6. RunStatus' = RunStatus
  <2>1. \A s : Latest(s)' = Latest(s)
    BY <1>3 DEF Latest
  <2>2. \A s : Succeeds(s)' <=> Succeeds(s)
    BY <1>3, <2>1 DEF Succeeds
  <2> QED
    BY <1>3, <2>1, <2>2 DEF RunStatus
<1>7. InFlight' = (InFlight \ {p}) \union {q \in {p} : o.pc \in Recording}
  BY <1>2 DEF InFlight
<1>8. Clear'
  <2> SUFFICES ASSUME ~blurred'
               PROVE  /\ \A q, r \in InFlight' : q = r
                      /\ \A q \in Procs : op'[q].pc = "close" => op'[q].sum = RunStatus
    BY <1>6 DEF Clear
  <2>1. CASE InFlight \ {p} = {}
    <3>1. \A q \in Procs \ {p} : op[q].pc # "close"
      BY <2>1 DEF InFlight, Recording
    <3> QED
      BY <1>2, <1>7, <2>1, <3>1
  <2>2. CASE ~blurred /\ (o.pc \in Recording => op[p].pc \in Recording)
    <3>1. \A q, r \in InFlight : q = r
      BY <2>2 DEF IInv, Clear
    <3>2. o.pc \in Recording => p \in InFlight
      BY <2>2 DEF InFlight
    <3>3. \A q \in Procs \ {p} : op[q].pc = "close" => op[q].sum = RunStatus
      BY <2>2 DEF IInv, Clear
    <3> QED
      BY <1>2, <1>7, <3>1, <3>2, <3>3
  <2> QED
    BY <2>1, <2>2
<1>9. HeldRowsSurvive' /\ ReadyRows'
  <2>1. \A d \in dropped' : d.held =>
           \E i \in Rows(d.stage) : ledger[i].no = d.no /\ ~ledger[i].held
    BY DEF IInv, HeldRowsSurvive
  <2> QED
    BY <1>3, <2>1 DEF IInv, HeldRowsSurvive, ReadyRows
<1>10. SummarySettles'
  <2> SUFFICES ASSUME InFlight' = {}, ~blurred', ledger # <<>>
               PROVE  run'.status = RunStatus
    BY <1>6 DEF SummarySettles
  <2>1. o.pc \notin Recording /\ InFlight \ {p} = {}
    BY <1>7
  <2>2. CASE ~blurred /\ op[p].pc \notin Recording /\ run' = run
    <3>1. InFlight = {}
      BY <2>1, <2>2 DEF InFlight
    <3> QED
      BY <2>2, <3>1 DEF IInv, SummarySettles
  <2> QED
    BY <2>1, <2>2
<1>11. Supported'
  BY <1>3 DEF Supported
<1> QED
  BY <1>1, <1>4, <1>5, <1>8, <1>9, <1>10, <1>11 DEF IInv

\* What a step of p knows of it.
LEMMA Knows ==
  ASSUME IInv, NEW p \in Procs
  PROVE  /\ Typed /\ Ledgers /\ Supported /\ op[p] \in Ops /\ Local(p, op[p])
         /\ op[p].left \in Seq(Stages \union Unrecorded) /\ op[p].job \in Jobs
         /\ Steps(op[p].job) \in Seq(Stages \union Unrecorded)
         /\ op[p].row \in Row
  BY StepsAre DEF IInv, Typed, Locals, Ops

\* A process at rest.
LEMMA IdleIs ==
  /\ Idle \in Ops /\ Idle.pc = "idle" /\ Idle.job = "monitor" /\ Idle.left = <<>>
  /\ Idle.row \in Row /\ ~Idle.prior /\ Idle.sum = "absent" /\ ~Idle.ready
  /\ ~Idle.row.ok
<1>1. NoRow \in Row
  BY StagesAre DEF NoRow, Row
<1>2. <<>> \in Seq(Stages \union Unrecorded)
  OBVIOUS
<1>3. Idle \in Ops
  BY <1>1, <1>2, StagesAre, Constants DEF Idle, Ops, Status
<1> QED
  BY <1>1, <1>3 DEF Idle, NoRow

LEMMA IdleLocal ==
  ASSUME NEW p, lock' # p
  PROVE  Local(p, Idle)'
<1>1. Rest(Idle.left, Steps(Idle.job))
  <2>1. "monitor" \in Jobs
    BY StagesAre
  <2>2. Steps("monitor") \in Seq(Stages \union Unrecorded)
    BY <2>1, StepsAre
  <2> QED
    BY <2>2, IdleIs, RestOf
<1> QED
  BY <1>1, IdleIs DEF Local, Counted, Recording

\* The recorder is called for a stage that p may record.
LEMMA Calls ==
  ASSUME IInv, NEW p \in Procs, NEW x \in Ops, NEW s \in Stages, NEW ok \in BOOLEAN,
         op' = [op EXCEPT ![p] = Calling(p, x, s, ok)],
         UNCHANGED <<ledger, run, lock, dropped>>,
         blurred' \in BOOLEAN, jobs' \in [Jobs -> Nat], faults' \in 0 .. MaxFaults,
         ~blurred' => InFlight \ {p} = {},
         Rest(x.left, Steps(x.job)),
         x.ready => lock = p /\ x.job = "finalize" /\ \A t \in Upstream : Backed(t),
         x.prior => Once("publication"),
         x.sum = "COMPLETE" => \A t \in Stages : Once(t),
         ok \/ s \notin RecordsWhenRefused => lock = p,
         x.job = "finalize" => s \in FinalStages,
         s = "readiness" /\ ok => x.ready
  PROVE  IInv'
<1>1. PICK held \in BOOLEAN : held = (lock = p)
  OBVIOUS
<1>2. PICK row : row = [stage |-> s, no |-> 0, ok |-> ok, held |-> held]
  OBVIOUS
<1>3. row \in Row /\ row.stage = s /\ row.ok = ok /\ row.held = held
  BY <1>2 DEF Row
<1>4. PICK o : o = [x EXCEPT !.pc = "open", !.row = row]
  OBVIOUS
<1>5. /\ o \in Ops /\ o.pc = "open" /\ o.row = row /\ o.job = x.job /\ o.left = x.left
      /\ o.prior = x.prior /\ o.sum = x.sum /\ o.ready = x.ready
  BY <1>3, <1>4 DEF Ops, Recording
<1>6. op' = [op EXCEPT ![p] = o]
  BY <1>1, <1>2, <1>4 DEF Calling
<1>7. \A t : Rows(t)' = Rows(t)
  BY DEF Rows
<1>8. Local(p, o)'
  BY <1>1, <1>3, <1>5, <1>7, StagesAre DEF Local, HeldRow, Recording, Counted, Once, Backed
<1>9. o.pc \in Recording /\ o.pc # "close"
  BY <1>5 DEF Recording
<1> QED
  BY <1>5, <1>6, <1>8, <1>9, Moves DEF IInv, Typed, Supported

\* The recorder has returned.
LEMMA Returns ==
  ASSUME IInv, NEW p \in Procs, op[p].pc \in Recording,
         op' = [op EXCEPT ![p] = Returned(p, op[p])],
         UNCHANGED <<ledger, lock, jobs, dropped>>,
         run' \in [status : Status, stamped : BOOLEAN], blurred' \in BOOLEAN,
         faults' \in 0 .. MaxFaults,
         ~blurred' => ~blurred,
         ~blurred' => run'.status = RunStatus,
         run'.stamped => Once("publication"),
         run'.status = "COMPLETE" => \A s \in Stages : Once(s)
  PROVE  IInv'
<1>1. op[p] \in Ops /\ Local(p, op[p]) /\ NoRow \in Row
  BY Knows, StagesAre DEF NoRow, Row
<1>2. \A t : Rows(t)' = Rows(t)
  BY DEF Rows
<1>3. CASE lock = p
  <2>1. PICK o : o = [op[p] EXCEPT !.pc = "work", !.row = NoRow, !.prior = FALSE, !.sum = "absent"]
    OBVIOUS
  <2>2. /\ o \in Ops /\ o.pc = "work" /\ o.row = NoRow /\ o.job = op[p].job /\ o.left = op[p].left
        /\ ~o.prior /\ o.sum = "absent" /\ o.ready = op[p].ready
    BY <1>1, <2>1 DEF Ops, Status
  <2>3. op' = [op EXCEPT ![p] = o]
    BY <1>3, <2>1 DEF Returned
  <2>4. Local(p, o)'
    BY <1>1, <1>2, <1>3, <2>2 DEF Local, Recording, Counted, Backed
  <2>5. o.pc \notin Recording /\ o.pc # "close"
    BY <2>2 DEF Recording
  <2> QED
    BY <1>3, <2>2, <2>3, <2>4, <2>5, Moves DEF IInv, Typed
<1>4. CASE lock # p
  <2>1. op' = [op EXCEPT ![p] = Idle]
    BY <1>4 DEF Returned
  <2>2. Local(p, Idle)'
    BY <1>4, IdleLocal
  <2>3. Idle.pc \notin Recording /\ Idle.pc # "close"
    BY IdleIs DEF Recording
  <2> QED
    BY <2>1, <2>2, <2>3, IdleIs, Moves DEF IInv, Typed
<1> QED
  BY <1>3, <1>4

LEMMA EnterKeeps ==
  ASSUME IInv, NEW p \in Procs, NEW j \in Jobs, Enter(p, j)
  PROVE  IInv'
<1>1. PICK t : t = Steps(j)
  OBVIOUS
<1>2. t \in Seq(Stages \union Unrecorded) /\ Rest(t, t)
  BY <1>1, StepsAre, RestOf
<1>3. PICK o : o = [Idle EXCEPT !.pc = "work", !.job = j, !.left = t]
  OBVIOUS
<1>4. /\ o \in Ops /\ o.pc = "work" /\ o.job = j /\ o.left = t /\ ~o.prior /\ o.sum = "absent"
      /\ ~o.ready
  BY <1>2, <1>3, IdleIs DEF Ops
<1>5. /\ op[p].pc = "idle" /\ lock = None /\ lock' = p /\ jobs' = [jobs EXCEPT ![j] = @ + 1]
      /\ op' = [op EXCEPT ![p] = o] /\ UNCHANGED <<ledger, run, faults, dropped, blurred>>
  BY <1>1, <1>3 DEF Enter
<1>6. Typed /\ Supported
  BY DEF IInv
<1>7. jobs' \in [Jobs -> Nat]
  BY <1>5, <1>6 DEF Typed
<1>8. \A q \in Procs \ {p} : lock' = q <=> lock = q
  BY <1>5, Constants
<1>9. Local(p, o)'
  BY <1>1, <1>2, <1>4, <1>5 DEF Local, Recording, Counted
<1>10. o.pc \notin Recording /\ op[p].pc \notin Recording /\ o.pc # "close"
  BY <1>4, <1>5 DEF Recording
<1> QED
  BY <1>4, <1>5, <1>6, <1>7, <1>8, <1>9, <1>10, Moves DEF Typed, Supported

LEMMA RefusedKeeps ==
  ASSUME IInv, NEW p \in Procs, NEW j \in Jobs, Refused(p, j)
  PROVE  IInv'
<1>1. j = "monitor" /\ j \in Stages /\ j \in Jobs
  BY StagesAre DEF Refused
<1>2. PICK x : x = [Idle EXCEPT !.job = j]
  OBVIOUS
<1>3. /\ x \in Ops /\ x.job = j /\ x.left = <<>> /\ ~x.prior /\ x.sum = "absent" /\ ~x.ready
  BY <1>1, <1>2, IdleIs DEF Ops
<1>4. /\ jobs' = [jobs EXCEPT ![j] = @ + 1]
      /\ op' = [op EXCEPT ![p] = Calling(p, x, j, FALSE)]
      /\ blurred' = (InFlight \ {p} # {})
      /\ UNCHANGED <<ledger, run, lock, faults, dropped>>
  BY <1>2 DEF Refused, Begins
<1>5. jobs' \in [Jobs -> Nat] /\ faults' \in 0 .. MaxFaults /\ blurred' \in BOOLEAN
  BY <1>4 DEF IInv, Typed
<1>6. Rest(x.left, Steps(x.job))
  BY <1>1, <1>3, StepsAre, RestOf
<1> QED
  BY <1>1, <1>3, <1>4, <1>5, <1>6, StagesAre, Calls

LEMMA ReadUpstreamKeeps ==
  ASSUME IInv, NEW p \in Procs, ReadUpstream(p)
  PROVE  IInv'
<1>1. /\ op[p].pc = "work" /\ op[p].left # <<>> /\ Head(op[p].left) = "read"
      /\ UNCHANGED <<ledger, run, lock, jobs, faults, dropped, blurred>>
  BY DEF ReadUpstream
<1>2. /\ Typed /\ Ledgers /\ Supported /\ op[p] \in Ops /\ Local(p, op[p])
      /\ op[p].left \in Seq(Stages \union Unrecorded) /\ op[p].job \in Jobs
      /\ Steps(op[p].job) \in Seq(Stages \union Unrecorded)
  BY Knows
<1>3. PICK l : l = Tail(op[p].left)
  OBVIOUS
<1>4. /\ l \in Seq(Stages \union Unrecorded) /\ Rest(l, Steps(op[p].job))
      /\ \E i \in 1 .. Len(Steps(op[p].job)) : Steps(op[p].job)[i] = "read"
  BY <1>1, <1>2, <1>3, RestIs DEF Local
<1>5. op[p].job = "finalize"
  BY <1>2, <1>4, StepsAre, StagesAre
<1>6. PICK ready \in BOOLEAN : ready <=> \A s \in Upstream : Succeeds(s)
  OBVIOUS
<1>7. PICK o : o = [op[p] EXCEPT !.left = l, !.ready = ready]
  OBVIOUS
<1>8. /\ o \in Ops /\ o.pc = "work" /\ o.job = "finalize" /\ o.left = l /\ o.ready = ready
      /\ o.prior = op[p].prior /\ o.sum = op[p].sum /\ o.row = op[p].row
  BY <1>1, <1>2, <1>4, <1>5, <1>7 DEF Ops
<1>9. op' = [op EXCEPT ![p] = o]
  <2>1. ready = \A s \in Upstream : Succeeds(s)
    BY <1>6
  <2> QED
    BY <1>3, <1>7, <2>1 DEF ReadUpstream
<1>10. ready => \A s \in Upstream : Backed(s)
  BY <1>2, <1>6, SucceedsIs
<1>11. \A t : Rows(t)' = Rows(t)
  BY <1>1 DEF Rows
<1>12. Local(p, o)'
  BY <1>1, <1>2, <1>4, <1>5, <1>8, <1>10, <1>11
  DEF Local, Recording, Counted, Once, Backed
<1>13. o.pc \notin Recording /\ op[p].pc \notin Recording /\ o.pc # "close"
  BY <1>1, <1>8 DEF Recording
<1> QED
  BY <1>1, <1>2, <1>8, <1>9, <1>12, <1>13, Moves DEF Typed, Supported

LEMMA WorkKeeps ==
  ASSUME IInv, NEW p \in Procs, NEW ok \in BOOLEAN, Work(p, ok)
  PROVE  IInv'
<1>1. PICK s : s = Head(op[p].left)
  OBVIOUS
<1>2. PICK l : l = Tail(op[p].left)
  OBVIOUS
<1>3. PICK ready : ready = (op[p].ready /\ (s = "performance" => ok))
  OBVIOUS
<1>4. PICK x : x = [op[p] EXCEPT !.left = l, !.ready = ready]
  OBVIOUS
<1>5. /\ op[p].pc = "work" /\ op[p].left # <<>> /\ s \in Stages
      /\ s = "publication" => ok
      /\ s = "readiness" /\ ok => op[p].ready
      /\ op' = [op EXCEPT ![p] = Calling(p, x, s, ok)]
      /\ blurred' = (InFlight \ {p} # {})
      /\ UNCHANGED <<ledger, run, lock, jobs, faults, dropped>>
  BY <1>1, <1>2, <1>3, <1>4 DEF Work, Begins
<1>6. /\ Typed /\ op[p] \in Ops /\ Local(p, op[p]) /\ op[p].job \in Jobs
      /\ op[p].left \in Seq(Stages \union Unrecorded)
      /\ Steps(op[p].job) \in Seq(Stages \union Unrecorded)
  BY Knows
<1>7. Rest(op[p].left, Steps(op[p].job)) /\ lock = p
  BY <1>5, <1>6 DEF Local
<1>8. /\ l \in Seq(Stages \union Unrecorded)
      /\ Rest(l, Steps(op[p].job)) /\ \E i \in 1 .. Len(Steps(op[p].job)) : s = Steps(op[p].job)[i]
  BY <1>1, <1>2, <1>5, <1>6, <1>7, RestIs
<1>9. s \in Stages /\ (op[p].job = "finalize" => s \in FinalStages)
  <2>1. Unrecorded \cap Stages = {}
    BY StagesAre DEF Unrecorded
  <2>2. op[p].job = "finalize" => s \in FinalStages \union Unrecorded
    BY <1>6, <1>8, StepsAre
  <2> QED
    BY <1>5, <2>1, <2>2
<1>10. op[p].ready \in BOOLEAN /\ ready \in BOOLEAN
  BY <1>3, <1>6 DEF Ops
<1>11. /\ x \in Ops /\ x.job = op[p].job /\ x.left = l /\ x.ready = ready
       /\ x.prior = op[p].prior /\ x.sum = op[p].sum
  BY <1>4, <1>6, <1>8, <1>10 DEF Ops
<1>12. /\ op[p].ready => op[p].job = "finalize" /\ \A t \in Upstream : Backed(t)
       /\ op[p].prior => Once("publication")
       /\ op[p].sum = "COMPLETE" => \A t \in Stages : Once(t)
  BY <1>6 DEF Local
<1>13. ready => op[p].ready
  BY <1>3, <1>10
<1>14. s = "readiness" /\ ok => ready
  BY <1>3, <1>5, <1>10
<1>15. jobs' \in [Jobs -> Nat] /\ faults' \in 0 .. MaxFaults /\ blurred' \in BOOLEAN
  BY <1>5, <1>6 DEF Typed
<1> QED
  BY <1>5, <1>7, <1>8, <1>9, <1>11, <1>12, <1>13, <1>14, <1>15, Calls

LEMMA WriteFilesKeeps ==
  ASSUME IInv, NEW p \in Procs, WriteFiles(p)
  PROVE  IInv'
<1>1. /\ op[p].pc = "work" /\ op[p].left # <<>>
      /\ UNCHANGED <<ledger, run, lock, jobs, faults, dropped, blurred>>
  BY DEF WriteFiles
<1>2. /\ Typed /\ Supported /\ op[p] \in Ops /\ Local(p, op[p])
      /\ op[p].left \in Seq(Stages \union Unrecorded)
      /\ Steps(op[p].job) \in Seq(Stages \union Unrecorded)
  BY Knows
<1>3. PICK l : l = Tail(op[p].left)
  OBVIOUS
<1>4. l \in Seq(Stages \union Unrecorded) /\ Rest(l, Steps(op[p].job))
  BY <1>1, <1>2, <1>3, RestIs DEF Local
<1>5. PICK o : o = [op[p] EXCEPT !.left = l]
  OBVIOUS
<1>6. /\ o \in Ops /\ o.pc = "work" /\ o.job = op[p].job /\ o.left = l /\ o.ready = op[p].ready
      /\ o.prior = op[p].prior /\ o.sum = op[p].sum /\ o.row = op[p].row
  BY <1>1, <1>2, <1>4, <1>5 DEF Ops
<1>7. op' = [op EXCEPT ![p] = o]
  BY <1>3, <1>5 DEF WriteFiles
<1>8. \A t : Rows(t)' = Rows(t)
  BY <1>1 DEF Rows
<1>9. Local(p, o)'
  BY <1>1, <1>2, <1>4, <1>6, <1>8 DEF Local, Recording, Counted, Once, Backed
<1>10. o.pc \notin Recording /\ op[p].pc \notin Recording /\ o.pc # "close"
  BY <1>1, <1>6 DEF Recording
<1> QED
  BY <1>1, <1>2, <1>6, <1>7, <1>9, <1>10, Moves DEF Typed, Supported

LEMMA RaiseKeeps ==
  ASSUME IInv, NEW p \in Procs, NEW transient \in BOOLEAN, Raise(p, transient)
  PROVE  IInv'
<1>1. PICK again : again = (transient /\ op[p].tries < MaxRetries)
  OBVIOUS
<1>2. PICK x : x = IF again THEN [op[p] EXCEPT !.left = Steps("finalize"), !.tries = @ + 1]
                   ELSE [op[p] EXCEPT !.left = <<>>]
  OBVIOUS
<1>3. /\ op[p].pc = "work" /\ op[p].job = "finalize" /\ faults < MaxFaults /\ faults' = faults + 1
      /\ op' = [op EXCEPT ![p] = Calling(p, x, "performance", FALSE)]
      /\ blurred' = (InFlight \ {p} # {})
      /\ UNCHANGED <<ledger, run, lock, jobs, dropped>>
  BY <1>1, <1>2 DEF Raise, Begins
<1>4. /\ Typed /\ op[p] \in Ops /\ Local(p, op[p]) /\ op[p].job \in Jobs
  BY Knows
<1>5. /\ Steps("finalize") \in Seq(Stages \union Unrecorded) /\ <<>> \in Seq(Stages \union Unrecorded)
      /\ Rest(Steps("finalize"), Steps("finalize")) /\ Rest(<<>>, Steps("finalize"))
  BY <1>3, <1>4, StepsAre, RestOf
<1>6. /\ x \in Ops /\ x.job = "finalize" /\ x.ready = op[p].ready
      /\ x.prior = op[p].prior /\ x.sum = op[p].sum /\ Rest(x.left, Steps("finalize"))
  <2>1. CASE again
    <3>1. op[p].tries \in 0 .. MaxRetries /\ op[p].tries < MaxRetries
      BY <1>1, <1>4, <2>1 DEF Ops
    <3>2. op[p].tries + 1 \in 0 .. MaxRetries
      BY <3>1, Constants
    <3>3. x = [op[p] EXCEPT !.left = Steps("finalize"), !.tries = op[p].tries + 1]
      BY <1>2, <2>1
    <3> QED
      BY <1>3, <1>4, <1>5, <3>2, <3>3 DEF Ops
  <2>2. CASE ~again
    <3>1. x = [op[p] EXCEPT !.left = <<>>]
      BY <1>2, <2>2
    <3> QED
      BY <1>3, <1>4, <1>5, <3>1 DEF Ops
  <2> QED
    BY <2>1, <2>2
<1>7. /\ lock = p
      /\ op[p].ready => \A t \in Upstream : Backed(t)
      /\ op[p].prior => Once("publication")
      /\ op[p].sum = "COMPLETE" => \A t \in Stages : Once(t)
  BY <1>3, <1>4 DEF Local
<1>8. jobs' \in [Jobs -> Nat] /\ faults' \in 0 .. MaxFaults /\ blurred' \in BOOLEAN
  BY <1>3, <1>4, Constants DEF Typed
<1>9. "performance" \in Stages /\ "performance" \in FinalStages
  BY StagesAre DEF FinalStages
<1> QED
  BY <1>3, <1>6, <1>7, <1>8, <1>9, Calls

LEMMA ReleaseKeeps ==
  ASSUME IInv, NEW p \in Procs, Release(p)
  PROVE  IInv'
<1>1. /\ op[p].pc = "work" /\ lock' = None /\ op' = [op EXCEPT ![p] = Idle]
      /\ UNCHANGED <<ledger, run, jobs, faults, dropped, blurred>>
  BY DEF Release
<1>2. Typed /\ Supported /\ Local(p, op[p])
  BY Knows
<1>3. lock = p
  BY <1>1, <1>2 DEF Local
<1>4. lock' # p /\ \A q \in Procs \ {p} : lock' = q <=> lock = q
  BY <1>1, <1>3, Constants
<1>5. Local(p, Idle)'
  BY <1>4, IdleLocal
<1>6. Idle.pc \notin Recording /\ op[p].pc \notin Recording /\ Idle.pc # "close"
  BY <1>1, IdleIs DEF Recording
<1> QED
  BY <1>1, <1>2, <1>4, <1>5, <1>6, IdleIs, Moves DEF Typed, Supported

LEMMA OpenKeeps ==
  ASSUME IInv, NEW p \in Procs, Open(p)
  PROVE  IInv'
<1>1. PICK l : l = IF run.status = "absent" THEN "create" ELSE "count"
  OBVIOUS
<1>2. PICK o : o = [op[p] EXCEPT !.prior = run.stamped, !.pc = l]
  OBVIOUS
<1>3. /\ op[p].pc = "open" /\ op' = [op EXCEPT ![p] = o]
      /\ UNCHANGED <<ledger, run, lock, jobs, faults, dropped, blurred>>
  BY <1>1, <1>2 DEF Open
<1>4. Typed /\ Supported /\ Local(p, op[p]) /\ op[p] \in Ops /\ run.stamped \in BOOLEAN
  BY Knows DEF Typed
<1>5. l \in {"create", "count"}
  BY <1>1
<1>6. /\ o \in Ops /\ o.pc = l /\ o.prior = run.stamped /\ o.row = op[p].row
      /\ o.job = op[p].job /\ o.left = op[p].left /\ o.sum = op[p].sum /\ o.ready = op[p].ready
  BY <1>2, <1>4, <1>5 DEF Ops, Recording
<1>7. \A t : Rows(t)' = Rows(t)
  BY <1>3 DEF Rows
<1>8. Local(p, o)'
  BY <1>3, <1>4, <1>5, <1>6, <1>7
  DEF Local, Recording, Counted, Once, Backed, Supported
<1>9. o.pc \in Recording /\ op[p].pc \in Recording /\ o.pc # "close"
  BY <1>3, <1>5, <1>6 DEF Recording
<1> QED
  BY <1>3, <1>4, <1>6, <1>8, <1>9, Moves DEF Typed, Supported

LEMMA CreateKeeps ==
  ASSUME IInv, NEW p \in Procs, Create(p)
  PROVE  IInv'
<1>1. PICK o : o = [op[p] EXCEPT !.pc = "count"]
  OBVIOUS
<1>2. PICK r : r = [status |-> "IN_PROGRESS", stamped |-> FALSE]
  OBVIOUS
<1>3. /\ op[p].pc = "create" /\ op' = [op EXCEPT ![p] = o] /\ run' = r
      /\ UNCHANGED <<ledger, lock, jobs, faults, dropped, blurred>>
  BY <1>1, <1>2 DEF Create
<1>4. Typed /\ Local(p, op[p]) /\ op[p] \in Ops
  BY Knows
<1>5. /\ o \in Ops /\ o.pc = "count" /\ o.prior = op[p].prior /\ o.row = op[p].row
      /\ o.job = op[p].job /\ o.left = op[p].left /\ o.sum = op[p].sum /\ o.ready = op[p].ready
  BY <1>1, <1>4 DEF Ops, Recording
<1>6. \A t : Rows(t)' = Rows(t)
  BY <1>3 DEF Rows
<1>7. Local(p, o)'
  BY <1>3, <1>4, <1>5, <1>6 DEF Local, Recording, Counted, Once, Backed
<1>8. o.pc \in Recording /\ op[p].pc \in Recording /\ o.pc # "close"
  BY <1>3, <1>5 DEF Recording
<1>9. r \in [status : Status, stamped : BOOLEAN] /\ ~r.stamped /\ r.status # "COMPLETE"
  BY <1>2 DEF Status
<1> QED
  BY <1>3, <1>4, <1>5, <1>7, <1>8, <1>9, Moves DEF Typed

LEMMA CountKeeps ==
  ASSUME IInv, NEW p \in Procs, Count(p)
  PROVE  IInv'
<1>1. PICK s : s = op[p].row.stage
  OBVIOUS
<1>2. PICK n : n = NextAttempt(s)
  OBVIOUS
<1>3. PICK row : row = [op[p].row EXCEPT !.no = n]
  OBVIOUS
<1>4. PICK o : o = [op[p] EXCEPT !.pc = "insert", !.row = row]
  OBVIOUS
<1>5. Typed /\ Supported /\ Ledgers /\ Local(p, op[p]) /\ op[p] \in Ops /\ op[p].row \in Row
  BY Knows
<1>6. /\ n \in Nat /\ n >= 1 /\ (\A m \in 1 .. n - 1 : m \in Attempts(s))
      /\ \A i \in Rows(s) : ledger[i].no < n
  BY <1>2, <1>5, NextAttemptIs DEF Ledgers
<1>7. /\ row \in Row /\ row.no = n /\ row.stage = s /\ row.ok = op[p].row.ok
      /\ row.held = op[p].row.held
  BY <1>1, <1>3, <1>5, <1>6 DEF Row
<1>8. /\ o \in Ops /\ o.pc = "insert" /\ o.prior = op[p].prior /\ o.row = row
      /\ o.job = op[p].job /\ o.left = op[p].left /\ o.sum = op[p].sum /\ o.ready = op[p].ready
  BY <1>4, <1>5, <1>7 DEF Ops, Recording
<1>9. /\ op[p].pc = "count" /\ op' = [op EXCEPT ![p] = o]
      /\ UNCHANGED <<ledger, run, lock, jobs, faults, dropped, blurred>>
  <2>1. /\ op[p].pc = "count" /\ op' = [op EXCEPT ![p].pc = "insert", ![p].row.no = n]
        /\ UNCHANGED <<ledger, run, lock, jobs, faults, dropped, blurred>>
    BY <1>1, <1>2 DEF Count
  <2> QED
    BY <1>3, <1>4, <1>5, <2>1 DEF Typed
<1>10. \A t : Rows(t)' = Rows(t) /\ Attempts(t)' = Attempts(t)
  BY <1>9 DEF Rows, Attempts
<1>11. \A i \in Rows(s) : ~(ledger[i].no >= n)
  BY <1>5, <1>6, RowsAre
<1>12. Counted(o)'
  BY <1>6, <1>7, <1>8, <1>9, <1>10, <1>11 DEF Counted
<1>13. Local(p, o)'
  BY <1>1, <1>5, <1>7, <1>8, <1>9, <1>10, <1>12
  DEF Local, Recording, Once, Backed, HeldRow
<1>14. o.pc \in Recording /\ op[p].pc \in Recording /\ o.pc # "close"
  BY <1>8, <1>9 DEF Recording
<1> QED
  BY <1>5, <1>8, <1>9, <1>13, <1>14, Moves DEF Typed, Supported

LEMMA TallyKeeps ==
  ASSUME IInv, NEW p \in Procs, Tally(p)
  PROVE  IInv'
<1>1. PICK c : c = RunStatus
  OBVIOUS
<1>2. PICK o : o = [op[p] EXCEPT !.pc = "close", !.sum = c]
  OBVIOUS
<1>3. /\ op[p].pc = "tally" /\ op' = [op EXCEPT ![p] = o]
      /\ UNCHANGED <<ledger, run, lock, jobs, faults, dropped, blurred>>
  BY <1>1, <1>2 DEF Tally
<1>4. Typed /\ Supported /\ Ledgers /\ Local(p, op[p]) /\ op[p] \in Ops
  BY Knows
<1>5. c \in Status /\ (c = "COMPLETE" => \A s \in Stages : Once(s))
  BY <1>1, <1>4, RunStatusIs
<1>6. /\ o \in Ops /\ o.pc = "close" /\ o.prior = op[p].prior /\ o.row = op[p].row
      /\ o.job = op[p].job /\ o.left = op[p].left /\ o.sum = c /\ o.ready = op[p].ready
  BY <1>2, <1>4, <1>5 DEF Ops, Recording
<1>7. \A t : Rows(t)' = Rows(t)
  BY <1>3 DEF Rows
<1>8. Local(p, o)'
  BY <1>3, <1>4, <1>5, <1>6, <1>7 DEF Local, Recording, Counted, Once, Backed
<1>9. o.pc \in Recording /\ op[p].pc \in Recording
  BY <1>3, <1>6 DEF Recording
<1> QED
  BY <1>1, <1>3, <1>4, <1>6, <1>8, <1>9, Moves DEF Typed, Supported

LEMMA CloseKeeps ==
  ASSUME IInv, NEW p \in Procs, Close(p)
  PROVE  IInv'
<1>1. PICK stamped : stamped = (op[p].prior \/ (op[p].row.stage = "publication" /\ op[p].row.ok))
  OBVIOUS
<1>2. PICK r : r = [status |-> op[p].sum, stamped |-> stamped]
  OBVIOUS
<1>3. /\ op[p].pc = "close" /\ run' = r /\ op' = [op EXCEPT ![p] = Returned(p, op[p])]
      /\ UNCHANGED <<ledger, lock, jobs, faults, dropped, blurred>>
  BY <1>1, <1>2 DEF Close
<1>4. Typed /\ Local(p, op[p]) /\ op[p] \in Ops /\ op[p].row \in Row
  BY Knows
<1>5. stamped \in BOOLEAN
  BY <1>1, <1>4 DEF Ops, Row
<1>6. r \in [status : Status, stamped : BOOLEAN] /\ r.status = op[p].sum /\ r.stamped = stamped
  BY <1>2, <1>4, <1>5 DEF Ops
<1>7. stamped => Once("publication")
  BY <1>1, <1>3, <1>4 DEF Local
<1>8. op[p].sum = "COMPLETE" => \A s \in Stages : Once(s)
  BY <1>4 DEF Local
<1>9. ~blurred => op[p].sum = RunStatus
  BY <1>3 DEF IInv, Clear
<1>10. op[p].pc \in Recording
  BY <1>3 DEF Recording
<1> QED
  BY <1>3, <1>4, <1>6, <1>7, <1>8, <1>9, <1>10, Returns DEF Typed

LEMMA BreaksKeeps ==
  ASSUME IInv, NEW p \in Procs, Breaks(p)
  PROVE  IInv'
<1>1. /\ op[p].pc \in Recording /\ faults < MaxFaults /\ faults' = faults + 1 /\ blurred' = TRUE
      /\ UNCHANGED <<ledger, run, lock, jobs, dropped>>
  BY DEF Breaks
<1>2. Typed /\ Supported /\ Local(p, op[p]) /\ op[p] \in Ops
  BY Knows
<1>3. jobs' \in [Jobs -> Nat] /\ faults' \in 0 .. MaxFaults
  BY <1>1, <1>2, Constants DEF Typed
<1>4. CASE lock = p /\ op[p].job = "finalize" /\ ~Handling(op[p])
  <2>1. PICK x : x = [op[p] EXCEPT !.left = <<>>]
    OBVIOUS
  <2>2. /\ <<>> \in Seq(Stages \union Unrecorded) /\ "finalize" \in Jobs
        /\ Rest(<<>>, Steps("finalize"))
    BY StagesAre, StepsAre, RestOf
  <2>3. /\ x \in Ops /\ x.job = "finalize" /\ x.left = <<>> /\ x.ready = op[p].ready
        /\ x.prior = op[p].prior /\ x.sum = op[p].sum
    BY <1>2, <1>4, <2>1, <2>2 DEF Ops
  <2>4. op' = [op EXCEPT ![p] = Calling(p, x, "performance", FALSE)]
    BY <1>4, <2>1 DEF Breaks
  <2>5. /\ op[p].ready => \A t \in Upstream : Backed(t)
        /\ op[p].prior => Once("publication")
        /\ op[p].sum = "COMPLETE" => \A t \in Stages : Once(t)
    BY <1>2 DEF Local
  <2>6. "performance" \in Stages /\ "performance" \in FinalStages
    BY StagesAre DEF FinalStages
  <2> QED
    BY <1>1, <1>3, <1>4, <2>2, <2>3, <2>4, <2>5, <2>6, Calls
<1>5. CASE ~(lock = p /\ op[p].job = "finalize" /\ ~Handling(op[p]))
  <2>1. op' = [op EXCEPT ![p] = Returned(p, op[p])]
    BY <1>5 DEF Breaks
  <2> QED
    BY <1>1, <1>2, <1>3, <2>1, Returns DEF Typed, Supported
<1> QED
  BY <1>4, <1>5

LEMMA CrashKeeps ==
  ASSUME IInv, NEW p \in Procs, Crash(p)
  PROVE  IInv'
<1>1. /\ op[p].pc # "idle" /\ faults < MaxFaults /\ faults' = faults + 1
      /\ op' = [op EXCEPT ![p] = Idle] /\ lock' = (IF lock = p THEN None ELSE lock)
      /\ blurred' = (blurred \/ op[p].pc \in Recording)
      /\ UNCHANGED <<ledger, run, jobs, dropped>>
  BY DEF Crash
<1>2. Typed /\ Supported
  BY Knows
<1>3. lock' # p /\ \A q \in Procs \ {p} : lock' = q <=> lock = q
  BY <1>1, Constants
<1>4. lock' \in Procs \union {None} /\ blurred' \in BOOLEAN /\ faults' \in 0 .. MaxFaults
  BY <1>1, <1>2, Constants DEF Typed
<1>5. Local(p, Idle)'
  BY <1>3, IdleLocal
<1>6. Idle.pc \notin Recording /\ Idle.pc # "close"
  BY IdleIs DEF Recording
<1>7. ~blurred' => ~blurred /\ op[p].pc \notin Recording
  BY <1>1, <1>2 DEF Typed
<1> QED
  BY <1>1, <1>2, <1>3, <1>4, <1>5, <1>6, <1>7, IdleIs, Moves DEF Typed, Supported

-----------------------------------------------------------------------------
(* The step that inserts a row, or drops it. *)

\* A row whose number is taken: if p holds the lock, a monitor's that did not.
LEMMA DroppedKeeps ==
  ASSUME IInv, NEW p \in Procs, Insert(p), op[p].row.no \in Attempts(op[p].row.stage)
  PROVE  IInv'
<1>1. PICK new : new = op[p].row
  OBVIOUS
<1>2. PICK o : o = [op[p] EXCEPT !.pc = "tally"]
  OBVIOUS
<1>3. /\ op[p].pc = "insert" /\ op' = [op EXCEPT ![p] = o] /\ dropped' = dropped \union {new}
      /\ UNCHANGED <<ledger, run, lock, jobs, faults, blurred>>
  BY <1>1, <1>2 DEF Insert
<1>4. Typed /\ Ledgers /\ Supported /\ Local(p, op[p]) /\ op[p] \in Ops /\ new \in Row
  BY <1>1, Knows
<1>5. /\ o \in Ops /\ o.pc = "tally" /\ o.prior = op[p].prior /\ o.row = new
      /\ o.job = op[p].job /\ o.left = op[p].left /\ o.sum = op[p].sum /\ o.ready = op[p].ready
  BY <1>1, <1>2, <1>4 DEF Ops, Recording
<1>6. PICK i \in Rows(new.stage) : ledger[i].no = new.no
  BY <1>1 DEF Attempts
<1>7. ledger[i].no >= new.no
  BY <1>6, <1>4, RowsAre
<1>8. new.held => ~ledger[i].held
  BY <1>1, <1>3, <1>4, <1>6, <1>7 DEF Local, Counted
<1>9. HeldRow(new) /\ HeldRow(ledger[i]) /\ ledger[i].stage = new.stage
  <2>1. HeldRow(new)
    BY <1>1, <1>3, <1>4 DEF Local, Recording
  <2>2. i \in DOMAIN ledger /\ ledger[i].stage = new.stage
    BY <1>4, <1>6, RowsAre
  <2> QED
    BY <1>4, <2>1, <2>2 DEF Ledgers
<1>10. ~(new.stage = "publication")
  BY <1>8, <1>9, StagesAre DEF HeldRow
<1>11. \A t : Rows(t)' = Rows(t)
  BY <1>3 DEF Rows
<1>12. Local(p, o)'
  BY <1>1, <1>3, <1>4, <1>5, <1>10, <1>11
  DEF Local, Recording, Counted, Once, Backed
<1>13. o.pc \in Recording /\ op[p].pc \in Recording /\ o.pc # "close"
  BY <1>3, <1>5 DEF Recording
<1>14. dropped' \subseteq Row /\ dropped' \ dropped \subseteq {new}
  BY <1>3, <1>4 DEF Typed
<1>15. new.held => \E k \in Rows(new.stage) : ledger[k].no = new.no /\ ~ledger[k].held
  BY <1>6, <1>8
<1> QED
  BY <1>3, <1>4, <1>5, <1>12, <1>13, <1>14, <1>15, Moves DEF Typed, Supported

LEMMA InsertedKeeps ==
  ASSUME IInv, NEW p \in Procs, Insert(p), op[p].row.no \notin Attempts(op[p].row.stage)
  PROVE  IInv'
<1>1. PICK new : new = op[p].row
  OBVIOUS
<1>2. PICK o : o = [op[p] EXCEPT !.pc = "tally"]
  OBVIOUS
<1>3. /\ op[p].pc = "insert" /\ op' = [op EXCEPT ![p] = o] /\ ledger' = Append(ledger, new)
      /\ UNCHANGED <<dropped, run, lock, jobs, faults, blurred>>
      /\ new.no \notin Attempts(new.stage)
  BY <1>1, <1>2 DEF Insert
<1>4. Typed /\ Ledgers /\ Supported /\ Local(p, op[p]) /\ op[p] \in Ops /\ new \in Row
  BY <1>1, Knows
<1>5. /\ o \in Ops /\ o.pc = "tally" /\ o.prior = op[p].prior /\ o.row = new
      /\ o.job = op[p].job /\ o.left = op[p].left /\ o.sum = op[p].sum /\ o.ready = op[p].ready
  BY <1>1, <1>2, <1>4 DEF Ops, Recording
<1>6. /\ op'[p] = o /\ \A q \in Procs \ {p} : op'[q] = op[q]
  BY <1>3, <1>4 DEF Typed
<1>7. PICK n : n = Len(ledger) + 1
  OBVIOUS
<1>8. /\ Len(ledger) \in Nat /\ DOMAIN ledger = 1 .. Len(ledger) /\ n \notin DOMAIN ledger
      /\ ledger' \in Seq(Row) /\ ledger'[n] = new /\ DOMAIN ledger' = DOMAIN ledger \union {n}
      /\ \A i \in DOMAIN ledger : ledger'[i] = ledger[i] /\ i < n
  <2>1. ledger \in Seq(Row)
    BY <1>4 DEF Typed
  <2> QED
    BY <1>3, <1>4, <1>7, <2>1
<1>9. /\ \A s : \A i : i \in Rows(s)' <=> i \in Rows(s) \/ (i = n /\ s = new.stage)
      /\ \A s : \A i \in Rows(s) : i \in DOMAIN ledger /\ ledger'[i] = ledger[i] /\ i < n
                                   /\ ledger[i].stage = s
  BY <1>8 DEF Rows
<1>10. /\ \A s : Attempts(s) \subseteq Attempts(s)'
       /\ new.no \in Attempts(new.stage)'
  <2>1. \A s : \A x \in Attempts(s) : \E i \in Rows(s)' : x = ledger'[i].no
    BY <1>9 DEF Attempts
  <2>2. n \in Rows(new.stage)' /\ new.no = ledger'[n].no
    BY <1>8, <1>9
  <2> QED
    BY <2>1, <2>2 DEF Attempts
<1>11. \A s : Once(s) => Once(s)'
  BY <1>9 DEF Once
<1>12. Typed'
  BY <1>3, <1>4, <1>5, <1>8 DEF Typed
<1>13. /\ new.no \in Nat /\ new.no >= 1 /\ (\A m \in 1 .. new.no - 1 : m \in Attempts(new.stage))
       /\ new.held <=> lock = p
       /\ HeldRow(new)
  <2>1. new.no \in Nat
    BY <1>4 DEF Row
  <2> QED
    BY <1>1, <1>3, <1>4, <2>1 DEF Local, Counted, Recording
<1>14. Ledgers'
  <2>1. \A i \in DOMAIN ledger : ledger[i].no \in Nat
    <3>1. \A r \in Row : r.no \in Nat
      BY DEF Row
    <3> QED
      BY <1>4, <3>1 DEF Typed
  <2>2. \A i \in DOMAIN ledger : ledger[i].stage = new.stage => ledger[i].no < new.no
    <3> SUFFICES ASSUME NEW i \in DOMAIN ledger, ledger[i].stage = new.stage,
                        ledger[i].no >= new.no
                 PROVE  FALSE
      BY <1>13, <2>1
    <3>1. new.no \in 1 .. ledger[i].no
      BY <1>13, <2>1
    <3>2. new.no \in Attempts(new.stage)
      BY <1>4, <3>1 DEF Ledgers, Gapless
    <3> QED
      BY <1>3, <3>2
  <2>3. Rising'
    <3> SUFFICES ASSUME NEW i \in DOMAIN ledger', NEW k \in DOMAIN ledger', i < k,
                        ledger'[i].stage = ledger'[k].stage
                 PROVE  ledger'[i].no < ledger'[k].no
      BY DEF Rising
    <3>1. i \in DOMAIN ledger
      BY <1>7, <1>8
    <3>2. CASE k = n
      BY <1>8, <2>2, <3>1, <3>2
    <3>3. CASE k \in DOMAIN ledger
      BY <1>4, <1>8, <3>1, <3>3 DEF Ledgers, Rising
    <3> QED
      BY <1>8, <3>2, <3>3
  <2>4. Gapless'
    <3>1. ASSUME NEW i \in DOMAIN ledger', NEW m \in 1 .. ledger'[i].no,
                 NEW s, s = ledger'[i].stage
          PROVE  \E k \in Rows(s)' : ledger'[k].no = m
      <4>1. CASE i \in DOMAIN ledger
        <5>1. m \in Attempts(s)
          BY <1>4, <1>8, <3>1, <4>1 DEF Ledgers, Gapless
        <5> QED
          BY <1>9, <5>1 DEF Attempts
      <4>2. CASE i = n
        <5>1. s = new.stage /\ (m = new.no \/ m \in 1 .. new.no - 1)
          BY <1>8, <1>13, <3>1, <4>2
        <5>2. CASE m = new.no
          BY <1>8, <1>9, <5>1, <5>2
        <5>3. CASE m \in 1 .. new.no - 1
          <6>1. m \in Attempts(s)
            BY <1>13, <5>1, <5>3
          <6> QED
            BY <1>9, <6>1 DEF Attempts
        <5> QED
          BY <5>1, <5>2, <5>3
      <4> QED
        BY <1>8, <3>1, <4>1, <4>2
    <3> QED
      BY <3>1 DEF Gapless, Attempts
  <2>5. \A i \in DOMAIN ledger' : HeldRow(ledger'[i])
    BY <1>4, <1>8, <1>13 DEF Ledgers
  <2> QED
    BY <2>3, <2>4, <2>5 DEF Ledgers
<1>15. \A s : Backed(s) /\ (~new.held \/ s # new.stage) => Backed(s)'
  <2> SUFFICES ASSUME NEW s, Backed(s), ~new.held \/ s # new.stage
               PROVE  Backed(s)'
    OBVIOUS
  <2>1. PICK k \in Rows(s) : /\ ledger[k].held /\ ledger[k].ok
                             /\ \A i \in Rows(s) : ledger[i].held => i <= k
    BY DEF Backed
  <2>2. k \in Rows(s)' /\ ledger'[k].held /\ ledger'[k].ok
    BY <1>9, <2>1
  <2>3. \A i \in Rows(s)' : ledger'[i].held => i <= k
    BY <1>8, <1>9, <2>1
  <2> QED
    BY <2>2, <2>3 DEF Backed
<1>16. Locals'
  <2> SUFFICES ASSUME NEW q \in Procs PROVE Local(q, op[q])'
    BY DEF Locals
  <2>1. CASE q = p
    <3>1. o.ready => lock = p /\ o.job = "finalize" /\ \A s \in Upstream : Backed(s)'
      <4>1. o.ready => /\ lock = p /\ o.job = "finalize" /\ new.stage \in FinalStages
                       /\ \A s \in Upstream : Backed(s)
        BY <1>1, <1>3, <1>4, <1>5 DEF Local, Recording
      <4> QED
        BY <1>15, <4>1, StagesAre
    <3>2. new.stage = "publication" /\ new.ok => Once("publication")'
      BY <1>8, <1>9 DEF Once
    <3>3. Local(p, o)'
      BY <1>1, <1>3, <1>4, <1>5, <1>11, <1>13, <3>1, <3>2 DEF Local, Recording, Counted
    <3> QED
      BY <1>6, <2>1, <3>3
  <2>2. CASE q # p
    <3>1. PICK x : x = op[q]
      OBVIOUS
    <3>2. Local(q, x) /\ op'[q] = x /\ x \in Ops
      BY <1>6, <2>2, <3>1, Knows
    <3>3. lock = q => ~new.held
      BY <1>13, <2>2
    <3>4. x.ready => lock = q /\ x.job = "finalize" /\ \A s \in Upstream : Backed(s)'
      BY <1>15, <3>2, <3>3 DEF Local
    <3>5. Counted(x)'
      <4> SUFFICES ASSUME x.pc = "insert"
                   PROVE  /\ x.row.no >= 1
                          /\ \A m \in 1 .. x.row.no - 1 : m \in Attempts(x.row.stage)'
                          /\ x.row.held => \A i \in Rows(x.row.stage)' :
                                ledger'[i].no >= x.row.no => ~ledger'[i].held
        BY DEF Counted
      <4>1. /\ x.row.no >= 1
            /\ \A m \in 1 .. x.row.no - 1 : m \in Attempts(x.row.stage)
            /\ x.row.held => \A i \in Rows(x.row.stage) :
                  ledger[i].no >= x.row.no => ~ledger[i].held
            /\ x.row.held => lock = q
        BY <3>2 DEF Local, Counted, Recording
      <4>2. x.row.held => \A i \in Rows(x.row.stage)' :
               ledger'[i].no >= x.row.no => ~ledger'[i].held
        BY <1>8, <1>9, <3>3, <4>1
      <4> QED
        BY <1>10, <4>1, <4>2
    <3>6. Local(q, x)'
      BY <1>3, <1>11, <3>2, <3>4, <3>5 DEF Local
    <3> QED
      BY <3>2, <3>6
  <2> QED
    BY <2>1, <2>2
<1>17. InFlight' = InFlight /\ p \in InFlight
  BY <1>3, <1>5, <1>6 DEF InFlight, Recording
<1>18. Clear'
  <2> SUFFICES ASSUME ~blurred'
               PROVE  /\ \A q, r \in InFlight' : q = r
                      /\ \A q \in Procs : op'[q].pc # "close"
    BY DEF Clear
  <2>1. \A q, r \in InFlight : q = r
    BY <1>3 DEF IInv, Clear
  <2>2. \A q \in Procs : op'[q].pc = "close" => q \in InFlight /\ q # p
    BY <1>5, <1>6 DEF InFlight, Recording
  <2> QED
    BY <1>17, <2>1, <2>2
<1>19. HeldRowsSurvive'
  BY <1>3, <1>9 DEF IInv, HeldRowsSurvive
<1>20. ReadyRows'
  <2> SUFFICES ASSUME NEW r \in Rows("readiness")', ledger'[r].ok, NEW s \in Upstream
               PROVE  \E k \in Rows(s)' :
                         /\ k < r /\ ledger'[k].held /\ ledger'[k].ok
                         /\ \A i \in Rows(s)' : i < r /\ ledger'[i].held => i <= k
    BY DEF ReadyRows
  <2>1. CASE r \in Rows("readiness")
    <3>1. PICK k \in Rows(s) : /\ k < r /\ ledger[k].held /\ ledger[k].ok
                               /\ \A i \in Rows(s) : i < r /\ ledger[i].held => i <= k
      BY <1>9, <2>1 DEF IInv, ReadyRows
    <3>2. ~(n < r)
      BY <1>7, <1>8, <1>9, <2>1
    <3>3. \A i \in Rows(s)' : i < r /\ ledger'[i].held => i <= k
      BY <1>9, <3>1, <3>2
    <3> QED
      BY <1>9, <3>1, <3>3
  <2>2. CASE r = n /\ new.stage = "readiness"
    <3>1. Backed(s)
      BY <1>1, <1>3, <1>4, <1>8, <2>2 DEF Local, Recording
    <3>2. PICK k \in Rows(s) : /\ ledger[k].held /\ ledger[k].ok
                               /\ \A i \in Rows(s) : ledger[i].held => i <= k
      BY <3>1 DEF Backed
    <3>3. s # new.stage
      BY <2>2, StagesAre
    <3> QED
      BY <1>9, <2>2, <3>2, <3>3
  <2> QED
    BY <1>9, <2>1, <2>2
<1>21. SummarySettles'
  BY <1>17 DEF SummarySettles
<1>22. Supported'
  BY <1>3, <1>4, <1>11 DEF Supported
<1> QED
  BY <1>12, <1>14, <1>16, <1>18, <1>19, <1>20, <1>21, <1>22 DEF IInv

LEMMA InsertKeeps ==
  ASSUME IInv, NEW p \in Procs, Insert(p)
  PROVE  IInv'
  BY DroppedKeeps, InsertedKeeps

-----------------------------------------------------------------------------
(* The theorems. *)

LEMMA Initial == Init => IInv
<1> SUFFICES ASSUME Init PROVE IInv
  OBVIOUS
<1>1. /\ ledger = <<>> /\ run = [status |-> "absent", stamped |-> FALSE]
      /\ lock = None /\ op = [p \in Procs |-> Idle]
      /\ jobs = [j \in Jobs |-> 0] /\ faults = 0 /\ dropped = {} /\ blurred = FALSE
  BY DEF Init
<1>2. DOMAIN ledger = {} /\ \A s : Rows(s) = {}
  BY <1>1 DEF Rows
<1>3. Typed
  <2>1. ledger \in Seq(Row)
    BY <1>1
  <2>2. run \in [status : Status, stamped : BOOLEAN]
    BY <1>1 DEF Status
  <2>3. op \in [Procs -> Ops] /\ jobs \in [Jobs -> Nat] /\ faults \in 0 .. MaxFaults
    BY <1>1, IdleIs, Constants
  <2> QED
    BY <1>1, <2>1, <2>2, <2>3 DEF Typed
<1>4. Ledgers
  BY <1>2 DEF Ledgers, Rising, Gapless
<1>5. Locals
  <2> SUFFICES ASSUME NEW p \in Procs PROVE Local(p, op[p])
    BY DEF Locals
  <2>1. op[p] = Idle /\ lock # p
    BY <1>1, Constants
  <2>2. Rest(Idle.left, Steps(Idle.job))
    <3>1. "monitor" \in Jobs
      BY StagesAre
    <3>2. Steps("monitor") \in Seq(Stages \union Unrecorded)
      BY <3>1, StepsAre
    <3> QED
      BY <3>2, IdleIs, RestOf
  <2> QED
    BY <2>1, <2>2, IdleIs DEF Local, Counted, Recording
<1>6. \A p \in Procs : op[p].pc = "idle"
  BY <1>1, IdleIs
<1>7. Clear
  BY <1>6 DEF Clear, InFlight, Recording
<1>8. HeldRowsSurvive /\ ReadyRows /\ SummarySettles /\ Supported
  BY <1>1, <1>2 DEF HeldRowsSurvive, ReadyRows, SummarySettles, Supported
<1> QED
  BY <1>3, <1>4, <1>5, <1>7, <1>8 DEF IInv

LEMMA Stutter == IInv /\ UNCHANGED vars => IInv'
<1> SUFFICES ASSUME IInv, UNCHANGED vars PROVE IInv'
  OBVIOUS
<1>1. UNCHANGED <<ledger, run, lock, op, jobs, faults, dropped, blurred>>
  BY DEF vars
<1>2. \A s : Rows(s)' = Rows(s)
  BY <1>1 DEF Rows
<1>3. \A s : Attempts(s)' = Attempts(s)
  BY <1>1, <1>2 DEF Attempts
<1>4. \A s : (Once(s)' <=> Once(s)) /\ (Backed(s)' <=> Backed(s)) /\ Latest(s)' = Latest(s)
  BY <1>1, <1>2, <1>3 DEF Once, Backed, Latest
<1>5. \A s : Succeeds(s)' <=> Succeeds(s)
  BY <1>2, <1>4 DEF Succeeds
<1>6. RunStatus' = RunStatus
  BY <1>2, <1>4, <1>5 DEF RunStatus
<1>7. Typed' /\ Ledgers'
  BY <1>1, <1>3 DEF IInv, Typed, Ledgers, Rising, Gapless
<1>8. Locals'
  <2>1. \A o : Counted(o)' <=> Counted(o)
    BY <1>1, <1>2, <1>3 DEF Counted
  <2> QED
    BY <1>1, <1>4, <2>1 DEF IInv, Locals, Local
<1>9. InFlight' = InFlight
  BY <1>1 DEF InFlight
<1>10. Clear' /\ SummarySettles'
  BY <1>1, <1>6, <1>9 DEF IInv, Clear, SummarySettles
<1>11. HeldRowsSurvive' /\ ReadyRows' /\ Supported'
  BY <1>1, <1>2, <1>4 DEF IInv, HeldRowsSurvive, ReadyRows, Supported
<1> QED
  BY <1>7, <1>8, <1>10, <1>11 DEF IInv

LEMMA Inductive == IInv /\ [Next]_vars => IInv'
<1> SUFFICES ASSUME IInv, [Next]_vars PROVE IInv'
  OBVIOUS
<1>1. ASSUME NEW p \in Procs, Step(p) PROVE IInv'
  <2>1. CASE \E j \in Jobs : Enter(p, j) \/ Refused(p, j)
    BY <2>1, EnterKeeps, RefusedKeeps
  <2>2. CASE ReadUpstream(p) \/ (\E ok \in BOOLEAN : Work(p, ok)) \/ WriteFiles(p) \/ Release(p)
    BY <2>2, ReadUpstreamKeeps, WorkKeeps, WriteFilesKeeps, ReleaseKeeps
  <2>3. CASE (\E transient \in BOOLEAN : Raise(p, transient)) \/ Breaks(p) \/ Crash(p)
    BY <2>3, RaiseKeeps, BreaksKeeps, CrashKeeps
  <2>4. CASE Open(p) \/ Create(p) \/ Count(p) \/ Insert(p) \/ Tally(p) \/ Close(p)
    BY <2>4, OpenKeeps, CreateKeeps, CountKeeps, InsertKeeps, TallyKeeps, CloseKeeps
  <2> QED
    BY <1>1, <2>1, <2>2, <2>3, <2>4 DEF Step
<1> QED
  BY <1>1, Stutter DEF Next

\* The inductive invariant holds in every state.
THEOREM Invariance == Spec => []IInv
<1> QED
  BY Initial, Inductive, PTL DEF Spec

\* The attempts of a stage stay in their order, whoever recorded them, and a
\* process has the last steps of its job before it.
THEOREM TypeCorrect == Spec => []TypeOK
<1>1. IInv => TypeOK
  <2> SUFFICES ASSUME IInv PROVE TypeOK
    OBVIOUS
  <2>1. ASSUME NEW p \in Procs
        PROVE  (op[p].pc = "work" => lock = p) /\ IsSuffix(op[p].left, Steps(op[p].job))
    <3>1. /\ op[p].left \in Seq(Stages \union Unrecorded)
          /\ Steps(op[p].job) \in Seq(Stages \union Unrecorded)
          /\ Rest(op[p].left, Steps(op[p].job)) /\ (op[p].pc = "work" => lock = p)
      BY Knows DEF Local
    <3> QED
      BY <3>1, RestIsSuffix
  <2> QED
    BY <2>1 DEF IInv, Typed, Ledgers, Rising, TypeOK
<1> QED
  BY <1>1, Invariance, PTL

\* A row of a lock holder is only ever dropped for a refused monitor's.
THEOREM HeldRows == Spec => []HeldRowsSurvive
<1>1. IInv => HeldRowsSurvive
  BY DEF IInv
<1> QED
  BY <1>1, Invariance, PTL

\* A day is declared ready on current successes of its upstream stages only.
THEOREM Readiness == Spec => []ReadyBacked
<1>1. IInv => ReadyBacked
  <2> SUFFICES ASSUME IInv, NEW r \in Rows("readiness"), ledger[r].ok, NEW s \in Upstream,
                      NEW before, before = {i \in Rows(s) : i < r /\ ledger[i].held}
               PROVE  before # {} /\ ledger[Max(before)].ok
    BY DEF ReadyBacked
  <2>1. PICK k \in Rows(s) : /\ k < r /\ ledger[k].held /\ ledger[k].ok
                             /\ \A i \in Rows(s) : i < r /\ ledger[i].held => i <= k
    BY DEF IInv, ReadyRows
  <2>2. Typed
    BY DEF IInv
  <2>3. /\ k \in before /\ (\A i \in before : i <= k /\ i \in Nat) /\ k \in Nat
        /\ before \subseteq 0 .. Len(ledger) /\ Len(ledger) \in Nat
    BY <2>1, <2>2, RowsAre
  <2>4. Max(before) \in before /\ Max(before) >= k
    BY <2>3, MaxIsGreatest
  <2>5. Max(before) = k
    BY <2>3, <2>4
  <2> QED
    BY <2>1, <2>3, <2>5
<1> QED
  BY <1>1, Invariance, PTL

\* Between recordings the summary is what the stage rows say.
THEOREM Settles == Spec => []SummarySettles
<1>1. IInv => SummarySettles
  BY DEF IInv
<1> QED
  BY <1>1, Invariance, PTL

\* The summary never claims what no row supports.
THEOREM IsSupported == Spec => []SummaryIsSupported
<1>1. IInv => SummaryIsSupported
  BY StagesAre DEF IInv, Supported, Once, SummaryIsSupported
<1> QED
  BY <1>1, Invariance, PTL
=============================================================================
