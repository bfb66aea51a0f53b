-------------------------- MODULE PublicationProofs --------------------------
(* Theorems about Publication, for every value of its constants. *)
EXTENDS Publication, Greatest, TLAPS

\* A journal names a clone of the preview of its own date.
Named == \A d \in Days : journal[d] # None /\ journal[d].promoted # None =>
            journal[d].promoted \in ClonesOf(d)

\* Journals are begun date by date, each once those before it are complete.
Ordered ==
    /\ \A d \in Days : journal[d] # None => d <= day
    /\ \A d, e \in Days : Open(d) /\ journal[e] # None /\ e # d => e < d

\* What the books say where a run r is.
Changing == {"promote", "list", "assign", "verify", "post"}
Resolving == {"state", "runtime", "check", "complete"}
Undoing == {"plan", "primary", "rollback", "void state", "void runtime"}

PlaceOf(r) ==
    /\ r.at = "idle" \/ r.for \in Days
    /\ r.at \in {"idle", "read"} => ~r.promoted /\ ~r.posted
    /\ r.promoted => r.for \in Days /\ journal[r.for] # None
    /\ r.at = "read" => r.for = day
    /\ r.at \in {"snapshot", "seal"} =>
          /\ r.for = day /\ ~r.promoted
          /\ journal[day] = None \/ Open(day)
          /\ \A d \in Days \ {day} : ~Open(d)
    /\ r.at \in {"seal", "precheck"} => r.prior # None
    /\ r.at = "precheck" => r.prior = journal[r.for].prior
    /\ r.at \in {"precheck"} \cup Changing => Open(r.for) /\ journal[r.for].phase = "PRE"
    /\ r.at \in Undoing => Open(r.for)
    /\ r.at \in Resolving \cup {"caught"} => journal[r.for] # None
    /\ r.at \in {"assign", "verify", "post"} => r.clone \in ClonesOf(r.for)
    /\ r.at \in Resolving =>
          /\ r.clone # None
          /\ \/ journal[r.for].promoted = r.clone
             \/ r.posted /\ journal[r.for].phase = "PRE" /\ r.clone \in ClonesOf(r.for)
    /\ r.at \in {"runtime", "check", "complete"} => result[r.for] = Result(r.for, r.clone)
    /\ r.at \in {"check", "complete"} => result[0] = Result(r.for, r.clone)
    /\ r.at \in {"primary", "rollback"} => r.clone \in {None} \cup ClonesOf(r.for)
    /\ r.look # None => r.at \in {"primary", "rollback"}

\* What the aliases serve while nobody else moves them.
Base == IF Sealed = {} THEN 0 ELSE journal[Max(Sealed)].promoted

Served ==
    moved = 0 =>
        \A a \in Aliases :
            /\ (\A d \in Days : ~Open(d)) => alias[a] = Base
            /\ \A d \in Days : Open(d) => /\ journal[d].prior[a] = Base
                                          /\ alias[a] \in {Base} \cup ClonesOf(d)
            /\ run.at \in {"snapshot", "seal"} => alias[a] = Base
            /\ run.at = "complete" /\ journal[run.for].phase # "PRE" => alias[a] = run.clone

\* What a run r knows of the aliases that nobody moved since it looked.
SeenBy(r, u) ==
    \A a \in Aliases \ u :
        /\ r.at = "promote" => alias[a] = journal[r.for].prior[a]
        /\ r.at \in {"list", "assign"} =>
              alias[a] \in {journal[r.for].prior[a]} \cup ClonesOf(r.for)
        /\ r.posted /\ r.at \in {"post", "state", "runtime"} => alias[a] = r.clone
        /\ r.look = a => alias[a] \in ClonesOf(r.for)

Books == Named /\ Ordered /\ SealedHasResult

IInv == TypeOK /\ Books /\ PlaceOf(run) /\ Served /\ SeenBy(run, unseen)

-----------------------------------------------------------------------------
(* Lemmas about the operators of Publication. *)

LEMMA Constants ==
  /\ Primary \in Aliases /\ LastDay \in Nat /\ LastDay >= 1
  /\ MaxClones \in Nat /\ MaxFaults \in Nat /\ MaxMoves \in Nat
  /\ None \notin Known /\ None \notin Aliases /\ None \notin Journals /\ None \notin Results
  /\ None # Foreign /\ Foreign \notin Known /\ None \notin [Aliases -> Known]
  /\ None \notin Deployments
  BY PublicationAssumption DEF Deployments

\* The clones of a date are numbers up to the bound...
LEMMA ClonesAre ==
  ASSUME TypeOK, NEW d
  PROVE  ClonesOf(d) \subseteq 1 .. MaxClones
<1>1. Len(clones) <= MaxClones /\ clones \in Seq(Days) /\ MaxClones \in Nat
  BY Constants DEF TypeOK
<1> QED
  BY <1>1 DEF ClonesOf

LEMMA CloneIs ==
  ASSUME TypeOK, NEW d, NEW c \in ClonesOf(d)
  PROVE  c \in 1 .. MaxClones /\ c \in Known /\ c \in Deployments /\ c # None
<1>1. c \in 1 .. MaxClones
  BY ClonesAre
<1>2. c \in Known
  BY <1>1, Constants DEF Known
<1> QED
  BY <1>1, <1>2, Constants DEF Deployments

\* ...and one more is carried out after them.
LEMMA ClonesGrow ==
  ASSUME TypeOK, NEW d \in Days, CarryOut(d)
  PROVE  /\ clones' \in Seq(Days) /\ Len(clones') <= MaxClones
         /\ Len(clones) + 1 \in ClonesOf(d)' /\ Len(clones) + 1 \in Deployments
         /\ \A e \in Days : ClonesOf(e) \subseteq ClonesOf(e)'
         /\ alias' \in [Aliases -> Deployments]
         /\ \A a \in Aliases : alias'[a] = IF a = Primary THEN Len(clones) + 1 ELSE alias[a]
<1>1. /\ clones \in Seq(Days) /\ Len(clones) < MaxClones /\ clones' = Append(clones, d)
      /\ alias' = [alias EXCEPT ![Primary] = Len(clones) + 1]
  BY DEF CarryOut, TypeOK
<1>2. /\ clones' \in Seq(Days) /\ Len(clones') = Len(clones) + 1 /\ Len(clones) \in Nat
      /\ clones'[Len(clones) + 1] = d
      /\ \A i \in 1 .. Len(clones) : clones'[i] = clones[i]
  BY <1>1
<1>3. \A e \in Days : ClonesOf(e) \subseteq ClonesOf(e)'
  BY <1>1, <1>2 DEF ClonesOf
<1>4. Len(clones) + 1 \in ClonesOf(d)'
  BY <1>2 DEF ClonesOf
<1>5. Len(clones) + 1 \in Known
  BY <1>1, <1>2, Constants DEF Known
<1>6. Len(clones) + 1 \in Deployments
  BY <1>5 DEF Deployments
<1> QED
  BY <1>1, <1>2, <1>3, <1>4, <1>6, Constants DEF TypeOK

LEMMA JournalIs ==
  ASSUME TypeOK, NEW d \in Days, journal[d] # None
  PROVE  /\ journal[d] \in Journals
         /\ journal[d].phase \in {"PRE", "POST", "COMPLETE"}
         /\ journal[d].prior \in [Aliases -> Known]
         /\ journal[d].promoted \in (1 .. MaxClones) \cup {None}
         /\ journal[d].phase = "PRE" <=> journal[d].promoted = None
<1>1. journal[d] \in Journals
  BY DEF TypeOK
<1> QED
  BY <1>1 DEF TypeOK, Journals

-----------------------------------------------------------------------------
(* Steps of the run that write nothing. *)

Written == <<alias, clones, journal, result, day, moved>>

\* What such a step has to show.
LEMMA RunMoves ==
  ASSUME IInv, UNCHANGED Written, NEW r \in Runs, run' = r,
         pending' \subseteq Days, faults' \in 0 .. MaxFaults, unseen' \subseteq Aliases,
         r.look \in r.left \cup {None}, PlaceOf(r), SeenBy(r, unseen'),
         r.at \in {"snapshot", "seal"} => (moved = 0 => \A a \in Aliases : alias[a] = Base),
         r.at = "complete" /\ journal[r.for].phase # "PRE" =>
            \A a \in Aliases : alias[a] = r.clone
  PROVE  IInv'
<1>1. TypeOK'
  BY DEF IInv, TypeOK, Written
<1>2. Books'
  BY DEF IInv, Books, Named, Ordered, SealedHasResult, Sealed, ClonesOf, Open, Written
<1>3. PlaceOf(run)'
  BY DEF PlaceOf, ClonesOf, Open, Written
<1>4. Served'
  <2>1. Sealed' = Sealed /\ \A d : (Open(d)' <=> Open(d)) /\ ClonesOf(d)' = ClonesOf(d)
    BY DEF Sealed, ClonesOf, Open, Written
  <2>2. Base' = Base
    BY <2>1 DEF Base, Written
  <2> QED
    BY <2>1, <2>2 DEF IInv, Served, Written
<1>5. SeenBy(run, unseen)'
  BY DEF SeenBy, ClonesOf, Written
<1> QED
  BY <1>1, <1>2, <1>3, <1>4, <1>5 DEF IInv

\* A run that has ended.
LEMMA IdleIs ==
  /\ Idle \in Runs /\ Idle.look = None /\ Idle.at = "idle" /\ ~Idle.promoted
  /\ ~Idle.posted
  /\ Idle.left = {}
  BY DEF Idle, Runs, Places

LEMMA EndKeeps ==
  ASSUME IInv, UNCHANGED Written, End,
         pending' \subseteq Days, faults' \in 0 .. MaxFaults, unseen' \subseteq Aliases
  PROVE  IInv'
<1>1. PlaceOf(Idle) /\ \A u : SeenBy(Idle, u)
  BY IdleIs, Constants DEF PlaceOf, SeenBy, Changing, Undoing, Resolving
<1> QED
  BY <1>1, IdleIs, RunMoves DEF End

LEMMA BeginKeeps ==
  ASSUME IInv, NEW mode \in {"publish", "recover"}, Begin(mode)
  PROVE  IInv'
<1>1. PICK r : r = [Idle EXCEPT !.at = "read", !.mode = mode, !.for = day]
  OBVIOUS
<1>2. day \in Days
  BY DEF IInv, TypeOK
<1>3. /\ r \in Runs /\ r.at = "read" /\ r.for = day /\ ~r.promoted /\ ~r.posted
      /\ r.look = None
  BY <1>1, <1>2 DEF Idle, Runs, Places
<1>4. /\ UNCHANGED Written /\ run' = r /\ UNCHANGED <<pending, faults, unseen>>
  BY <1>1 DEF Begin, Written
<1>5. PlaceOf(r) /\ SeenBy(r, unseen')
  BY <1>2, <1>3, Constants DEF PlaceOf, SeenBy, Changing, Undoing, Resolving
<1> QED
  BY <1>3, <1>4, <1>5, RunMoves DEF IInv, TypeOK

LEMMA SnapshotKeeps ==
  ASSUME IInv, Snapshot
  PROVE  IInv'
<1>1. TypeOK /\ PlaceOf(run) /\ run \in Runs /\ run.at = "snapshot" /\ run.look \in run.left \cup {None}
  BY DEF Snapshot, IInv, TypeOK
<1>2. UNCHANGED Written /\ UNCHANGED <<pending, faults>> /\ unseen' = {}
  BY DEF Snapshot, Written
<1>3. CASE End
  BY <1>1, <1>2, <1>3, EndKeeps DEF TypeOK
<1>4. CASE ~(\E a \in Aliases : alias[a] = Foreign) /\ run' = [run EXCEPT !.at = "seal", !.prior = alias]
  <2>1. PICK r : r = [run EXCEPT !.at = "seal", !.prior = alias]
    OBVIOUS
  <2>2. alias \in [Aliases -> Known] /\ alias # None
    BY <1>1, <1>4, Constants DEF TypeOK, Deployments
  <2>3. /\ r \in Runs /\ r.at = "seal" /\ r.for = run.for
        /\ r.promoted = run.promoted /\ r.posted = run.posted
        /\ r.look = run.look /\ r.left = run.left /\ r.prior = alias
    BY <1>1, <2>1, <2>2 DEF Runs, Places
  <2>4. PlaceOf(r) /\ SeenBy(r, unseen')
    BY <1>1, <2>2, <2>3, Constants DEF PlaceOf, SeenBy, Changing, Undoing, Resolving
  <2>5. moved = 0 => \A a \in Aliases : alias[a] = Base
    BY <1>1 DEF IInv, Served
  <2> QED
    BY <1>1, <1>2, <1>4, <2>1, <2>3, <2>4, <2>5, RunMoves DEF TypeOK
<1> QED
  BY <1>3, <1>4 DEF Snapshot

\* A failure goes to the rollback or ends the run.
LEMMA RaiseKeeps ==
  ASSUME IInv, UNCHANGED Written, Raise, run.at # "idle", run.look = None,
         pending' \subseteq Days, faults' \in 0 .. MaxFaults, unseen' \subseteq Aliases
  PROVE  IInv'
<1>1. CASE End
  BY <1>1, EndKeeps
<1>2. CASE run.promoted /\ Goto("caught")
  <2>1. PICK r : r = [run EXCEPT !.at = "caught"]
    OBVIOUS
  <2>2. run \in Runs /\ PlaceOf(run)
    BY DEF IInv, TypeOK
  <2>3. r \in Runs /\ r.at = "caught" /\ r.for = run.for /\ r.look = None /\ r.promoted
    BY <1>2, <2>1, <2>2 DEF Runs, Places
  <2>4. PlaceOf(r) /\ SeenBy(r, unseen')
    BY <1>2, <2>2, <2>3, Constants DEF PlaceOf, SeenBy, Changing, Undoing, Resolving
  <2> QED
    BY <1>2, <2>1, <2>3, <2>4, RunMoves DEF Goto
<1> QED
  BY <1>1, <1>2 DEF Raise

\* What a step of a run knows: its record, and that it looks at no alias
\* unless it rolls back.
LEMMA RunKnows ==
  ASSUME IInv
  PROVE  /\ TypeOK /\ PlaceOf(run) /\ run \in Runs /\ run.look \in run.left \cup {None}
         /\ SeenBy(run, unseen) /\ Named /\ run.left \subseteq Aliases
         /\ run.at \notin {"primary", "rollback"} => run.look = None
  BY DEF IInv, TypeOK, PlaceOf, Books, Runs

LEMMA PrecheckKeeps ==
  ASSUME IInv, Precheck
  PROVE  IInv'
<1>1. UNCHANGED Written /\ UNCHANGED <<pending, faults>> /\ unseen' = {} /\ run.at = "precheck"
  BY DEF Precheck, Written
<1>2. TypeOK /\ PlaceOf(run) /\ run \in Runs /\ run.look = None
  BY <1>1, RunKnows
<1>3. CASE End
  BY <1>1, <1>2, <1>3, EndKeeps DEF TypeOK
<1>4. CASE alias = run.prior /\ run' = [run EXCEPT !.at = "promote", !.promoted = TRUE]
  <2>1. PICK r : r = [run EXCEPT !.at = "promote", !.promoted = TRUE]
    OBVIOUS
  <2>2. r \in Runs /\ r.at = "promote" /\ r.for = run.for /\ r.look = None
    BY <1>2, <2>1 DEF Runs, Places, Publishing
  <2>3. PlaceOf(r) /\ SeenBy(r, unseen')
    BY <1>1, <1>2, <1>4, <2>2, Constants
    DEF PlaceOf, SeenBy, Changing, Undoing, Resolving, Open
  <2> QED
    BY <1>1, <1>2, <1>4, <2>1, <2>2, <2>3, RunMoves DEF TypeOK
<1> QED
  BY <1>3, <1>4 DEF Precheck

LEMMA ListKeeps ==
  ASSUME IInv, List
  PROVE  IInv'
<1>1. UNCHANGED Written /\ UNCHANGED <<pending, faults, unseen>> /\ run.at = "list"
  BY DEF List, Written
<1>2. TypeOK /\ PlaceOf(run) /\ run \in Runs /\ run.look = None /\ SeenBy(run, unseen)
  BY <1>1, RunKnows
<1>3. CASE Raise
  BY <1>1, <1>2, <1>3, RaiseKeeps DEF TypeOK
<1>4. CASE /\ ClonesOf(run.for) # {}
           /\ run' = [run EXCEPT !.at = "assign", !.clone = Max(ClonesOf(run.for)),
                                 !.left = Aliases]
  <2>1. PICK c : c = Max(ClonesOf(run.for))
    OBVIOUS
  <2>2. c \in ClonesOf(run.for)
    <3>1. ClonesOf(run.for) \subseteq 1 .. MaxClones /\ MaxClones \in Nat
      BY <1>2, ClonesAre, Constants
    <3>2. ClonesOf(run.for) \subseteq 0 .. MaxClones
      BY <3>1
    <3> QED
      BY <1>4, <2>1, <3>1, <3>2, MaxIsGreatest
  <2>3. c \in Deployments
    BY <1>2, <2>2, CloneIs
  <2>4. PICK r : r = [run EXCEPT !.at = "assign", !.clone = c, !.left = Aliases]
    OBVIOUS
  <2>5. /\ r \in Runs /\ r.at = "assign" /\ r.for = run.for /\ r.look = None /\ r.clone = c
        /\ r.promoted = run.promoted /\ r.posted = run.posted
    BY <1>2, <2>3, <2>4 DEF Runs, Places, Publishing
  <2>6. PlaceOf(r) /\ SeenBy(r, unseen')
    BY <1>1, <1>2, <2>2, <2>5, Constants
    DEF PlaceOf, SeenBy, Changing, Undoing, Resolving
  <2> QED
    BY <1>1, <1>2, <1>4, <2>1, <2>4, <2>5, <2>6, RunMoves DEF TypeOK
<1> QED
  BY <1>3, <1>4 DEF List

LEMMA VerifyKeeps ==
  ASSUME IInv, Verify
  PROVE  IInv'
<1>1. UNCHANGED Written /\ UNCHANGED <<pending, faults>> /\ unseen' = {} /\ run.at = "verify"
  BY DEF Verify, Written
<1>2. TypeOK /\ PlaceOf(run) /\ run \in Runs /\ run.look = None
  BY <1>1, RunKnows
<1>3. CASE Raise
  BY <1>1, <1>2, <1>3, RaiseKeeps DEF TypeOK
<1>4. CASE AllServe(run.clone) /\ Live(run.for) /\ Goto("post")
  <2>1. PICK r : r = [run EXCEPT !.at = "post"]
    OBVIOUS
  <2>2. /\ r \in Runs /\ r.at = "post" /\ r.for = run.for /\ r.look = None
        /\ r.clone = run.clone /\ r.promoted = run.promoted /\ r.posted = run.posted
    BY <1>2, <2>1 DEF Runs, Places, Publishing
  <2>3. alias[Primary] = run.clone
    BY <1>4, Constants DEF AllServe
  <2>4. PlaceOf(r)
    BY <1>1, <1>2, <1>4, <2>2, <2>3, Constants DEF PlaceOf, Changing, Undoing, Resolving, Live
  <2>5. SeenBy(r, unseen')
    BY <1>4, <2>2, Constants DEF SeenBy, AllServe
  <2> QED
    BY <1>1, <1>2, <1>4, <2>1, <2>2, <2>4, <2>5, RunMoves DEF TypeOK, Goto
<1> QED
  BY <1>3, <1>4 DEF Verify

LEMMA CheckKeeps ==
  ASSUME IInv, Check
  PROVE  IInv'
<1>1. UNCHANGED Written /\ UNCHANGED <<pending, faults>> /\ unseen' = {} /\ run.at = "check"
  BY DEF Check, Written
<1>2. TypeOK /\ PlaceOf(run) /\ run \in Runs /\ run.look = None
  BY <1>1, RunKnows
<1>3. CASE Raise
  BY <1>1, <1>2, <1>3, RaiseKeeps DEF TypeOK
<1>4. CASE Live(run.for) /\ Goto("complete")
  <2>1. PICK r : r = [run EXCEPT !.at = "complete"]
    OBVIOUS
  <2>2. /\ r \in Runs /\ r.at = "complete" /\ r.for = run.for /\ r.look = None
        /\ r.clone = run.clone /\ r.promoted = run.promoted /\ r.posted = run.posted
    BY <1>2, <2>1 DEF Runs, Places, Publishing
  <2>3. /\ run.clone # None
        /\ journal[run.for].phase # "PRE" => journal[run.for].promoted = run.clone
    BY <1>1, <1>2 DEF PlaceOf, Resolving
  <2>4. journal[run.for].phase # "PRE" => \A a \in Aliases : alias[a] = run.clone
    BY <1>4, <2>3 DEF Live, AllServe
  <2>5. PlaceOf(r) /\ SeenBy(r, unseen')
    BY <1>1, <1>2, <2>2, Constants
    DEF PlaceOf, SeenBy, Changing, Undoing, Resolving
  <2> QED
    BY <1>1, <1>2, <1>4, <2>1, <2>2, <2>4, <2>5, RunMoves DEF TypeOK, Goto
<1> QED
  BY <1>3, <1>4 DEF Check

\* An alias of an open or sealed date that is live serves a clone of it.
LEMMA LiveIs ==
  ASSUME IInv, NEW d \in Days, journal[d] # None, Live(d)
  PROVE  /\ alias[Primary] \in ClonesOf(d) /\ alias[Primary] # None
         /\ alias[Primary] \in Deployments
         /\ journal[d].phase # "PRE" => journal[d].promoted = alias[Primary]
<1>1. TypeOK /\ Named
  BY RunKnows
<1>2. journal[d].promoted # None => journal[d].promoted \in ClonesOf(d)
  BY <1>1 DEF Named
<1>3. alias[Primary] \in ClonesOf(d)
  BY <1>2 DEF Live
<1>4. journal[d].phase # "PRE" => journal[d].promoted # None
  BY <1>1, JournalIs
<1> QED
  BY <1>1, <1>3, <1>4, CloneIs DEF Live

LEMMA CaughtKeeps ==
  ASSUME IInv, Caught
  PROVE  IInv'
<1>1. UNCHANGED Written /\ UNCHANGED <<pending, faults>> /\ unseen' = {} /\ run.at = "caught"
  BY DEF Caught, Written
<1>2. TypeOK /\ PlaceOf(run) /\ run \in Runs /\ run.look = None
  BY <1>1, RunKnows
<1>3. run.for \in Days /\ journal[run.for] # None
  BY <1>1, <1>2 DEF PlaceOf
<1>4. CASE End
  BY <1>1, <1>2, <1>4, EndKeeps DEF TypeOK
<1>5. CASE Open(run.for) /\ run' = [run EXCEPT !.at = "plan", !.left = {}]
  <2>1. PICK r : r = [run EXCEPT !.at = "plan", !.left = {}]
    OBVIOUS
  <2>2. /\ r \in Runs /\ r.at = "plan" /\ r.for = run.for /\ r.look = None
    BY <1>2, <2>1 DEF Runs, Places
  <2>3. PlaceOf(r) /\ SeenBy(r, unseen')
    BY <1>1, <1>3, <1>5, <2>2, Constants
    DEF PlaceOf, SeenBy, Changing, Undoing, Resolving
  <2> QED
    BY <1>1, <1>2, <1>5, <2>1, <2>2, <2>3, RunMoves DEF TypeOK
<1>6. CASE /\ ~Open(run.for) /\ Live(run.for)
           /\ run' = [run EXCEPT !.at = "state", !.promoted = FALSE, !.clone = alias[Primary]]
  <2>1. PICK r : r = [run EXCEPT !.at = "state", !.promoted = FALSE, !.clone = alias[Primary]]
    OBVIOUS
  <2>2. /\ alias[Primary] # None /\ alias[Primary] \in Deployments
        /\ journal[run.for].promoted = alias[Primary]
    BY <1>3, <1>6, LiveIs DEF Open
  <2>3. /\ r \in Runs /\ r.at = "state" /\ r.for = run.for /\ r.look = None
        /\ r.clone = alias[Primary] /\ ~r.promoted
    BY <1>2, <2>1, <2>2 DEF Runs, Places, Publishing
  <2>4. PlaceOf(r)
    BY <1>1, <1>3, <2>2, <2>3, Constants DEF PlaceOf, Changing, Undoing, Resolving
  <2>5. SeenBy(r, unseen')
    BY <1>6, <2>3, Constants DEF SeenBy, Live, AllServe
  <2> QED
    BY <1>1, <1>2, <1>6, <2>1, <2>3, <2>4, <2>5, RunMoves DEF TypeOK
<1> QED
  BY <1>4, <1>5, <1>6 DEF Caught

LEMMA RolloverKeeps ==
  ASSUME IInv, run.at = "read", UNCHANGED Written, UNCHANGED <<pending, faults>>, unseen' = {},
         Others # {}, Rollover
  PROVE  IInv'
<1>1. TypeOK /\ PlaceOf(run) /\ run \in Runs /\ run.look = None
  BY RunKnows
<1>2. CASE End
  BY <1>1, <1>2, EndKeeps DEF TypeOK
<1>3. CASE run' = [run EXCEPT !.at = "plan", !.for = CHOOSE d \in Others : TRUE, !.undo = TRUE]
  <2>1. PICK e : e = CHOOSE d \in Others : TRUE
    OBVIOUS
  <2>2. e \in Days /\ Open(e)
    BY <2>1 DEF Others
  <2>3. PICK r : r = [run EXCEPT !.at = "plan", !.for = e, !.undo = TRUE]
    OBVIOUS
  <2>4. r \in Runs /\ r.at = "plan" /\ r.for = e /\ r.look = None
        /\ r.promoted = run.promoted /\ r.posted = run.posted
    BY <1>1, <2>2, <2>3 DEF Runs, Places
  <2>5. ~run.promoted
    BY <1>1 DEF PlaceOf
  <2>6. PlaceOf(r) /\ SeenBy(r, unseen')
    BY <2>2, <2>4, <2>5, Constants DEF PlaceOf, SeenBy, Changing, Undoing, Resolving, Open
  <2> QED
    BY <1>1, <1>3, <2>1, <2>3, <2>4, <2>6, RunMoves DEF TypeOK
<1> QED
  BY <1>2, <1>3 DEF Rollover

LEMMA ResumeKeeps ==
  ASSUME IInv, run.at = "read", UNCHANGED Written, UNCHANGED <<pending, faults>>, unseen' = {},
         Others = {}, Resume
  PROVE  IInv'
<1>1. TypeOK /\ PlaceOf(run) /\ run \in Runs /\ run.look = None /\ day \in Days
  BY RunKnows DEF TypeOK
<1>2. run.for = day /\ ~run.promoted /\ ~run.posted
  BY <1>1 DEF PlaceOf
<1>3. CASE End
  BY <1>1, <1>3, EndKeeps DEF TypeOK
<1>4. CASE journal[day] = None
  <2>1. End \/ Goto("snapshot")
    BY <1>4 DEF Resume
  <2>2. CASE Goto("snapshot")
    <3>1. PICK r : r = [run EXCEPT !.at = "snapshot"]
      OBVIOUS
    <3>2. /\ r \in Runs /\ r.at = "snapshot" /\ r.for = day /\ r.look = None /\ ~r.promoted
      BY <1>1, <1>2, <3>1 DEF Runs, Places
    <3>3. \A d \in Days : ~Open(d)
      BY <1>4 DEF Others, Open
    <3>4. PlaceOf(r) /\ SeenBy(r, unseen')
      BY <1>1, <1>4, <3>2, <3>3, Constants DEF PlaceOf, SeenBy, Changing, Undoing, Resolving
    <3>5. moved = 0 => \A a \in Aliases : alias[a] = Base
      BY <3>3 DEF IInv, Served
    <3> QED
      BY <1>1, <2>2, <3>1, <3>2, <3>4, <3>5, RunMoves DEF TypeOK, Goto
  <2> QED
    BY <1>3, <2>1, <2>2
<1>5. CASE journal[day] # None /\ Live(day)
  <2>1. PICK l : l = IF journal[day].phase = "PRE" THEN "post" ELSE "state"
    OBVIOUS
  <2>2. PICK r : r = [run EXCEPT !.at = l, !.clone = alias[Primary]]
    OBVIOUS
  <2>3. run' = r
    BY <1>5, <2>1, <2>2 DEF Resume
  <2>4. /\ alias[Primary] \in ClonesOf(day) /\ alias[Primary] # None
        /\ alias[Primary] \in Deployments
        /\ journal[day].phase # "PRE" => journal[day].promoted = alias[Primary]
    BY <1>1, <1>5, LiveIs
  <2>5. /\ r \in Runs /\ r.at = l /\ r.for = day /\ r.look = None /\ ~r.promoted
        /\ ~r.posted /\ r.clone = alias[Primary]
    <3>1. l \in Places
      BY <2>1 DEF Places, Publishing
    <3>2. r \in Runs
      BY <1>1, <2>2, <2>4, <3>1 DEF Runs
    <3>3. run.for = day /\ run.look = None /\ ~run.promoted /\ ~run.posted
      BY <1>1, <1>2
    <3> QED
      BY <1>1, <2>2, <3>2, <3>3 DEF Runs
  <2>6. journal[day].phase = "PRE" => Open(day)
    BY <1>5 DEF Open
  <2>7. r.at \in {"post", "state"}
    BY <2>1, <2>5
  <2>8. r.at = "post" => Open(day) /\ journal[day].phase = "PRE"
    BY <2>1, <2>5, <2>6
  <2>9. r.at = "state" => r.clone # None /\ journal[day].promoted = r.clone
    BY <2>1, <2>4, <2>5
  <2>10. PlaceOf(r)
    BY <1>1, <1>5, <2>4, <2>5, <2>7, <2>8, <2>9 DEF PlaceOf, Changing, Undoing, Resolving
  <2>11. SeenBy(r, unseen')
    BY <1>1, <2>5, <2>7, Constants DEF SeenBy
  <2> QED
    BY <1>1, <2>3, <2>5, <2>7, <2>10, <2>11, RunMoves DEF TypeOK
<1>6. CASE journal[day] # None /\ ~Live(day) /\ ~Open(day)
  <2>1. End
    BY <1>6 DEF Resume
  <2> QED
    BY <1>3, <2>1
<1>7. CASE journal[day] # None /\ ~Live(day) /\ Open(day)
  <2>1. \/ run' = [run EXCEPT !.at = "plan", !.undo = TRUE]
        \/ /\ AtPrior(day)
           /\ run' = [run EXCEPT !.at = "snapshot", !.posted = journal[day].phase = "POST"]
    BY <1>7 DEF Resume
  <2>2. CASE run' = [run EXCEPT !.at = "plan", !.undo = TRUE]
    <3>1. PICK r : r = [run EXCEPT !.at = "plan", !.undo = TRUE]
      OBVIOUS
    <3>2. /\ r \in Runs /\ r.at = "plan" /\ r.for = day /\ r.look = None /\ ~r.promoted
      BY <1>1, <1>2, <3>1 DEF Runs, Places
    <3>3. PlaceOf(r) /\ SeenBy(r, unseen')
      BY <1>1, <1>7, <3>2, Constants DEF PlaceOf, SeenBy, Changing, Undoing, Resolving
    <3> QED
      BY <1>1, <2>2, <3>1, <3>2, <3>3, RunMoves DEF TypeOK
  <2>3. CASE /\ AtPrior(day)
             /\ run' = [run EXCEPT !.at = "snapshot", !.posted = journal[day].phase = "POST"]
    <3>1. PICK posted : posted = (journal[day].phase = "POST")
      OBVIOUS
    <3>2. PICK r : r = [run EXCEPT !.at = "snapshot", !.posted = posted]
      OBVIOUS
    <3>3. posted \in BOOLEAN /\ run' = r
      BY <2>3, <3>1, <3>2
    <3>4. /\ r \in Runs /\ r.at = "snapshot" /\ r.for = day /\ r.look = None /\ ~r.promoted
      BY <1>1, <1>2, <3>2, <3>3 DEF Runs, Places
    <3>5. \A d \in Days \ {day} : ~Open(d)
      BY DEF Others
    <3>6. PlaceOf(r) /\ SeenBy(r, unseen')
      BY <1>1, <1>7, <3>4, <3>5, Constants DEF PlaceOf, SeenBy, Changing, Undoing, Resolving
    <3>7. moved = 0 => \A a \in Aliases : alias[a] = Base
      BY <1>1, <1>7, <2>3 DEF IInv, Served, AtPrior
    <3> QED
      BY <1>1, <3>3, <3>4, <3>6, <3>7, RunMoves DEF TypeOK
  <2> QED
    BY <2>1, <2>2, <2>3
<1> QED
  BY <1>4, <1>5, <1>6, <1>7

LEMMA ReadKeeps ==
  ASSUME IInv, Read
  PROVE  IInv'
<1>1. run.at = "read" /\ UNCHANGED Written /\ UNCHANGED <<pending, faults>> /\ unseen' = {}
  BY DEF Read, Written
<1>2. CASE Others # {}
  BY <1>1, <1>2, RolloverKeeps DEF Read
<1>3. CASE Others = {}
  BY <1>1, <1>3, ResumeKeeps DEF Read
<1> QED
  BY <1>2, <1>3

LEMMA CandidatesAre ==
  ASSUME IInv, NEW d \in Days, journal[d] # None
  PROVE  Candidates(d) \subseteq ClonesOf(d)
  BY RunKnows DEF Candidates, Named

LEMMA PlanKeeps ==
  ASSUME IInv, Plan
  PROVE  IInv'
<1>1. run.at = "plan" /\ UNCHANGED Written /\ UNCHANGED <<pending, faults>> /\ unseen' = {}
  BY DEF Plan, Written
<1>2. TypeOK /\ PlaceOf(run) /\ run \in Runs /\ run.look = None
  BY <1>1, RunKnows
<1>3. run.for \in Days /\ journal[run.for] # None /\ Open(run.for)
  BY <1>1, <1>2 DEF PlaceOf, Undoing, Open
<1> DEFINE changed == {a \in Aliases : alias[a] # journal[run.for].prior[a]}
<1>4. PICK cands : cands = Candidates(run.for)
  OBVIOUS
<1>5. PICK undo : undo = (run.undo \/ changed = {})
  OBVIOUS
<1>6. PICK c : c = IF changed = {} THEN None ELSE CHOOSE x \in cands : TRUE
  OBVIOUS
<1>b. PICK l : l = IF Primary \in changed THEN "primary" ELSE "rollback"
  OBVIOUS
<1>7. PICK r : r = [run EXCEPT !.at = l, !.left = Aliases, !.undo = undo,
                               !.failed = FALSE, !.clone = c]
  OBVIOUS
<1>8. End \/ ((changed = {} \/ Cardinality(cands) = 1) /\ run' = r)
  BY <1>4, <1>5, <1>6, <1>7, <1>b DEF Plan
<1>9. CASE End
  BY <1>1, <1>2, <1>9, EndKeeps DEF TypeOK
<1>10. CASE (changed = {} \/ Cardinality(cands) = 1) /\ run' = r
  <2>1. cands \subseteq ClonesOf(run.for)
    BY <1>3, <1>4, CandidatesAre
  <2>2. changed # {} => cands # {}
    BY <1>10, FS_EmptySet
  <2> HIDE DEF changed
  <2>3. c \in {None} \cup ClonesOf(run.for)
    BY <1>6, <2>1, <2>2
  <2>4. c \in Deployments \cup {None} /\ undo \in BOOLEAN
    BY <1>2, <1>5, <2>3, CloneIs DEF Runs
  <2>5. /\ r \in Runs /\ r.at = l /\ r.for = run.for /\ r.look = None /\ r.clone = c
        /\ r.promoted = run.promoted /\ r.posted = run.posted
    <3>1. r \in Runs
      <4>1. run \in Runs /\ Aliases \in SUBSET Aliases /\ l \in Places /\ FALSE \in BOOLEAN
        BY <1>2, <1>b DEF Places
      <4> QED
        BY <1>7, <2>4, <4>1 DEF Runs
    <3>2. /\ r.at = l /\ r.for = run.for /\ r.look = None /\ r.clone = c
          /\ r.promoted = run.promoted /\ r.posted = run.posted
      BY <1>2, <1>7 DEF Runs
    <3> QED
      BY <3>1, <3>2
  <2>6. PlaceOf(r) /\ SeenBy(r, unseen')
    BY <1>1, <1>2, <1>3, <1>b, <2>3, <2>5, Constants
    DEF PlaceOf, SeenBy, Changing, Undoing, Resolving
  <2> QED
    BY <1>1, <1>2, <1>10, <1>b, <2>5, <2>6, RunMoves DEF TypeOK
<1> QED
  BY <1>8, <1>9, <1>10

\* Where a rollback goes on.
LEMMA DoneIs ==
  ASSUME IInv, run.at \in {"primary", "rollback"}, NEW a, NEW error \in BOOLEAN, Done(a, error)
  PROVE  \E r \in Runs : run' = r /\ r.look = None /\ PlaceOf(r) /\ r.at \in {"rollback", "idle"}
<1>1. TypeOK /\ PlaceOf(run) /\ run \in Runs
  BY RunKnows
<1>2. CASE End
  <2>1. PlaceOf(Idle)
    BY IdleIs, Constants DEF PlaceOf, Changing, Undoing, Resolving
  <2> QED
    BY <1>2, <2>1, IdleIs DEF End
<1>3. ASSUME NEW left \in SUBSET Aliases, NEW failed \in BOOLEAN,
             run' = [run EXCEPT !.at = "rollback", !.left = left, !.look = None,
                                !.failed = failed]
      PROVE  \E r \in Runs : /\ run' = r /\ r.look = None /\ PlaceOf(r)
                              /\ r.at \in {"rollback", "idle"}
  <2>1. PICK r : r = [run EXCEPT !.at = "rollback", !.left = left, !.look = None,
                                 !.failed = failed]
    OBVIOUS
  <2>2. /\ r \in Runs /\ r.at = "rollback" /\ r.for = run.for /\ r.look = None
        /\ r.clone = run.clone /\ r.promoted = run.promoted
    BY <1>1, <2>1 DEF Runs, Places
  <2>3. PlaceOf(r)
    BY <1>1, <2>2, Constants DEF PlaceOf, Changing, Undoing, Resolving
  <2> QED
    BY <1>3, <2>1, <2>2, <2>3
<1>4. CASE run.at = "rollback"
  <2>1. PICK left : left = run.left \ {a}
    OBVIOUS
  <2>2. PICK failed : failed = (run.failed \/ error)
    OBVIOUS
  <2>3. left \in SUBSET Aliases /\ failed \in BOOLEAN
    BY <1>1, <2>1, <2>2 DEF Runs
  <2>4. run' = [run EXCEPT !.left = left, !.look = None, !.failed = failed]
    BY <1>4, <2>1, <2>2 DEF Done
  <2>5. run' = [run EXCEPT !.at = "rollback", !.left = left, !.look = None, !.failed = failed]
    BY <1>1, <1>4, <2>4 DEF Runs
  <2> QED
    BY <1>3, <2>3, <2>5
<1>5. CASE run.at # "rollback" /\ ~End
  <2>1. run' = [run EXCEPT !.at = "rollback", !.look = None, !.failed = error]
    BY <1>5 DEF Done
  <2>2. run.left \in SUBSET Aliases
        /\ run' = [run EXCEPT !.at = "rollback", !.left = run.left, !.look = None,
                              !.failed = error]
    BY <1>1, <2>1 DEF Runs
  <2> QED
    BY <1>3, <2>2
<1> QED
  BY <1>2, <1>4, <1>5

\* The next alias of a rollback.
LEMMA DoneKeeps ==
  ASSUME IInv, run.at \in {"primary", "rollback"}, UNCHANGED Written, UNCHANGED pending,
         faults' \in 0 .. MaxFaults, unseen' \subseteq Aliases,
         NEW a, NEW error \in BOOLEAN, Done(a, error)
  PROVE  IInv'
<1>1. PICK r \in Runs : run' = r /\ r.look = None /\ PlaceOf(r) /\ r.at \in {"rollback", "idle"}
  BY DoneIs
<1>2. SeenBy(r, unseen') /\ pending' \subseteq Days
  BY <1>1, RunKnows, Constants DEF SeenBy, TypeOK
<1> QED
  BY <1>1, <1>2, RunMoves

LEMMA LookKeeps ==
  ASSUME IInv, NEW a \in Aliases, Look(a)
  PROVE  IInv'
<1>1. /\ run.at \in {"primary", "rollback"} /\ run.look = None /\ UNCHANGED Written
      /\ UNCHANGED pending /\ unseen' = unseen \ {a}
      /\ a \in run.left
  BY DEF Look, Written, Due
<1>2. TypeOK /\ PlaceOf(run) /\ run \in Runs /\ unseen' \subseteq Aliases
  BY <1>1, RunKnows DEF TypeOK
<1>3. PICK answered \in {TRUE, faults = MaxFaults} :
         /\ faults' = faults + (IF answered THEN 0 ELSE 1)
         /\ IF answered /\ alias[a] = run.clone THEN run' = [run EXCEPT !.look = a]
            ELSE Done(a, ~(/\ answered /\ run.at = "rollback"
                           /\ alias[a] = journal[run.for].prior[a]))
  BY DEF Look
<1>4. faults' \in 0 .. MaxFaults
  <2>1. faults \in 0 .. MaxFaults /\ MaxFaults \in Nat
    BY <1>2, Constants DEF TypeOK
  <2>2. answered \in BOOLEAN /\ (~answered => faults # MaxFaults)
    OBVIOUS
  <2> QED
    BY <1>3, <2>1, <2>2
<1>5. CASE \E error \in BOOLEAN : Done(a, error)
  BY <1>1, <1>2, <1>4, <1>5, DoneKeeps
<1>6. CASE alias[a] = run.clone /\ run' = [run EXCEPT !.look = a]
  <2>1. PICK r : r = [run EXCEPT !.look = a]
    OBVIOUS
  <2>2. /\ r \in Runs /\ r.at = run.at /\ r.for = run.for /\ r.look = a
        /\ r.clone = run.clone /\ r.promoted = run.promoted
        /\ r.posted = run.posted /\ r.left = run.left
    BY <1>1, <1>2, <2>1 DEF Runs, Places
  <2>3. alias[a] \in ClonesOf(run.for)
    <3>1. alias[a] # None
      BY <1>2, Constants DEF TypeOK
    <3> QED
      BY <1>1, <1>2, <1>6, <3>1 DEF PlaceOf
  <2>4. PlaceOf(r)
    <3>1. PlaceOf(run) /\ (run.at = "primary" \/ run.at = "rollback")
      BY <1>1, <1>2
    <3>2. CASE run.at = "primary"
      BY <2>2, <3>1, <3>2 DEF PlaceOf, Changing, Undoing, Resolving
    <3>3. CASE run.at = "rollback"
      BY <2>2, <3>1, <3>3 DEF PlaceOf, Changing, Undoing, Resolving
    <3> QED
      BY <3>1, <3>2, <3>3
  <2>5. SeenBy(r, unseen')
    BY <1>1, <2>2, <2>3, Constants DEF SeenBy
  <2> QED
    BY <1>1, <1>2, <1>4, <1>6, <2>1, <2>2, <2>4, <2>5, RunMoves DEF TypeOK
<1> QED
  BY <1>3, <1>5, <1>6

LEMMA RolledBackKeeps ==
  ASSUME IInv, RolledBack
  PROVE  IInv'
<1>1. /\ run.at = "rollback" /\ run.left = {} /\ UNCHANGED Written /\ UNCHANGED <<pending, faults>>
      /\ unseen' = {}
  BY DEF RolledBack, Written
<1>2. TypeOK /\ PlaceOf(run) /\ run \in Runs /\ run.look = None
  BY <1>1, RunKnows
<1>3. CASE End
  BY <1>1, <1>2, <1>3, EndKeeps DEF TypeOK
<1>4. CASE \E l \in {"plan", "void state"}, u \in BOOLEAN : run' = [run EXCEPT !.at = l, !.undo = u]
  <2>1. PICK l \in {"plan", "void state"}, u \in BOOLEAN : run' = [run EXCEPT !.at = l, !.undo = u]
    BY <1>4
  <2>2. PICK r : r = [run EXCEPT !.at = l, !.undo = u]
    OBVIOUS
  <2>3. /\ r \in Runs /\ r.at = l /\ r.for = run.for /\ r.look = None
        /\ r.clone = run.clone /\ r.promoted = run.promoted /\ r.posted = run.posted
    BY <1>2, <2>2 DEF Runs, Places
  <2>4. PlaceOf(r) /\ SeenBy(r, unseen')
    BY <1>1, <1>2, <2>3, Constants DEF PlaceOf, SeenBy, Changing, Undoing, Resolving
  <2> QED
    BY <1>1, <1>2, <2>1, <2>2, <2>3, <2>4, RunMoves DEF TypeOK
<1>5. CASE Goto("void state")
  <2>1. [run EXCEPT !.at = "void state"] = [run EXCEPT !.at = "void state", !.undo = run.undo]
        /\ run.undo \in BOOLEAN
    BY <1>2 DEF Runs
  <2> QED
    BY <1>4, <1>5, <2>1 DEF Goto
<1> QED
  BY <1>3, <1>4, <1>5 DEF RolledBack

LEMMA FaultKeeps ==
  ASSUME IInv, Fault
  PROVE  IInv'
<1>1. /\ run.at # "idle" /\ UNCHANGED Written /\ UNCHANGED <<pending, unseen>>
      /\ (End \/ (run.at \in Publishing /\ Raise)) /\ faults < MaxFaults /\ faults' = faults + 1
  BY DEF Fault, Written
<1>2. TypeOK /\ faults' \in 0 .. MaxFaults
  BY RunKnows, Constants DEF Fault, TypeOK
<1>3. CASE End
  BY <1>1, <1>2, <1>3, EndKeeps DEF TypeOK
<1>4. CASE run.at \in Publishing /\ Raise
  <2>1. run.look = None
    BY <1>4, RunKnows DEF Publishing
  <2> QED
    BY <1>1, <1>2, <1>4, <2>1, RaiseKeeps DEF TypeOK
<1> QED
  BY <1>1, <1>3, <1>4

-----------------------------------------------------------------------------
(* Steps that change what the aliases serve. *)

\* What such a step has to show.
LEMMA ProviderKeeps ==
  ASSUME IInv, UNCHANGED <<journal, result>>, NEW r \in Runs, run' = r,
         alias' \in [Aliases -> Deployments], clones' \in Seq(Days), Len(clones') <= MaxClones,
         \A d \in Days : ClonesOf(d) \subseteq ClonesOf(d)',
         pending' \subseteq Days, faults' \in 0 .. MaxFaults, moved' \in 0 .. MaxMoves,
         unseen' \subseteq Aliases, day' = day, r.look \in r.left \cup {None}, PlaceOf(r),
         SeenBy(r, unseen)',
         moved' = 0 =>
            /\ moved = 0 /\ r.at \notin {"complete", "snapshot", "seal"}
            /\ \A a \in Aliases :
                  \/ alias'[a] = alias[a]
                  \/ \E d \in Days : /\ Open(d)
                                     /\ alias'[a] \in {journal[d].prior[a]} \cup ClonesOf(d)'
  PROVE  IInv'
<1>1. TypeOK'
  BY DEF IInv, TypeOK
<1>2. Books'
  BY DEF IInv, Books, Named, Ordered, SealedHasResult, Sealed, Open
<1>3. PlaceOf(run)'
  <2>1. \A d \in Days : Open(d)' <=> Open(d)
    BY DEF Open
  <2>2. r.at = "idle" \/ r.for \in Days
    BY DEF PlaceOf
  <2> QED
    BY <2>1, <2>2 DEF PlaceOf, Changing, Undoing, Resolving
<1>4. Served'
  <2> SUFFICES ASSUME moved' = 0, NEW a \in Aliases
               PROVE  /\ (\A d \in Days : ~Open(d)') => alias'[a] = Base'
                      /\ \A d \in Days : Open(d)' => /\ journal'[d].prior[a] = Base'
                                                    /\ alias'[a] \in {Base'} \cup ClonesOf(d)'
    BY DEF Served
  <2>1. Sealed' = Sealed /\ \A d : Open(d)' <=> Open(d)
    BY DEF Sealed, Open
  <2>2. Base' = Base
    BY <2>1 DEF Base
  <2>3. \A d, e \in Days : Open(d) /\ Open(e) => d = e
    <3>1. \A d, e \in Days : Open(d) /\ Open(e) /\ d # e => d < e /\ e < d
      BY DEF IInv, Books, Ordered, Open
    <3>2. \A d, e \in Days : ~(d < e /\ e < d)
      BY Constants DEF Days
    <3> QED
      BY <3>1, <3>2
  <2> QED
    BY <2>1, <2>2, <2>3 DEF IInv, Served
<1> QED
  BY <1>1, <1>2, <1>3, <1>4 DEF IInv

\* Where a failed step leaves the run.
LEMMA RaiseIs ==
  ASSUME IInv, Raise, run.at # "idle", run.look = None
  PROVE  \E r \in Runs : /\ run' = r /\ r.look = None /\ r.at \in {"caught", "idle"} /\ PlaceOf(r)
                         /\ r.at = "caught" => r.for = run.for
<1>1. PlaceOf(Idle)
  BY IdleIs, Constants DEF PlaceOf, Changing, Undoing, Resolving
<1>2. CASE run.promoted /\ Goto("caught")
  <2>1. PICK r : r = [run EXCEPT !.at = "caught"]
    OBVIOUS
  <2>2. run \in Runs /\ PlaceOf(run)
    BY RunKnows
  <2>3. r \in Runs /\ r.at = "caught" /\ r.for = run.for /\ r.look = None /\ r.promoted
    BY <1>2, <2>1, <2>2 DEF Runs, Places
  <2>4. PlaceOf(r)
    BY <1>2, <2>2, <2>3, Constants DEF PlaceOf, Changing, Undoing, Resolving
  <2> QED
    BY <1>2, <2>1, <2>3, <2>4 DEF Goto
<1> QED
  BY <1>1, <1>2, IdleIs DEF Raise, End

\* Neither place says anything of the aliases.
LEMMA SeesNothing ==
  ASSUME NEW r, r.look = None, NEW u,
         r.at \notin {"promote", "list", "assign", "post", "state", "runtime"}
  PROVE  SeenBy(r, u) /\ SeenBy(r, u)'
  BY Constants DEF SeenBy

LEMMA PromoteKeeps ==
  ASSUME IInv, Promote
  PROVE  IInv'
<1>1. /\ run.at = "promote" /\ CarryOut(run.for) /\ unseen' = unseen \ {Primary} /\ Goto("list")
      /\ UNCHANGED <<pending, journal, result, day, faults, moved>>
  BY DEF Promote
<1>2. TypeOK /\ PlaceOf(run) /\ run \in Runs /\ run.look = None /\ SeenBy(run, unseen)
  BY <1>1, RunKnows
<1>3. run.for \in Days /\ Open(run.for)
  BY <1>1, <1>2 DEF PlaceOf, Changing
<1>a. PICK f \in Days : f = run.for
  BY <1>3
<1>4. /\ clones' \in Seq(Days) /\ Len(clones') <= MaxClones
      /\ Len(clones) + 1 \in ClonesOf(f)'
      /\ \A e \in Days : ClonesOf(e) \subseteq ClonesOf(e)'
      /\ alias' \in [Aliases -> Deployments]
      /\ \A a \in Aliases : alias'[a] = IF a = Primary THEN Len(clones) + 1 ELSE alias[a]
  BY <1>1, <1>2, <1>a, ClonesGrow
<1>5. PICK r : r = [run EXCEPT !.at = "list"]
  OBVIOUS
<1>6. /\ r \in Runs /\ r.at = "list" /\ r.for = run.for /\ r.look = None
      /\ r.promoted = run.promoted /\ r.posted = run.posted
  BY <1>2, <1>5 DEF Runs, Places, Publishing
<1>7. PlaceOf(r)
  BY <1>1, <1>2, <1>6, Constants DEF PlaceOf, Changing, Undoing, Resolving
<1>8. SeenBy(r, unseen)'
  BY <1>1, <1>2, <1>3, <1>4, <1>6, <1>a, Constants DEF SeenBy
<1>9. \A a \in Aliases : \/ alias'[a] = alias[a]
                         \/ alias'[a] \in ClonesOf(f)'
  BY <1>4
<1>10. unseen' \subseteq Aliases /\ moved' \in 0 .. MaxMoves /\ pending' \subseteq Days
       /\ faults' \in 0 .. MaxFaults
  BY <1>1, <1>2 DEF TypeOK
<1> QED
  BY <1>1, <1>3, <1>4, <1>5, <1>6, <1>7, <1>8, <1>9, <1>10, <1>a, ProviderKeeps DEF Goto

LEMMA PromoteFailsKeeps ==
  ASSUME IInv, PromoteFails
  PROVE  IInv'
<1>1. run.at = "promote" /\ UNCHANGED <<journal, result, day, moved>> /\ Goto("caught")
  BY DEF PromoteFails
<1>2. TypeOK /\ PlaceOf(run) /\ run \in Runs /\ run.look = None
  BY <1>1, RunKnows
<1>3. run.for \in Days /\ Open(run.for)
  BY <1>1, <1>2 DEF PlaceOf, Changing
<1>4. PICK r : r = [run EXCEPT !.at = "caught"]
  OBVIOUS
<1>5. r \in Runs /\ r.at = "caught" /\ r.for = run.for /\ r.look = None
  BY <1>2, <1>4 DEF Runs, Places
<1>6. PlaceOf(r) /\ SeenBy(r, unseen') /\ SeenBy(r, unseen)'
  <2>1. PlaceOf(r)
    BY <1>3, <1>5, Constants DEF PlaceOf, Changing, Undoing, Resolving, Open
  <2> QED
    BY <1>5, <2>1, SeesNothing DEF SeenBy
<1>7. run' = r /\ faults' \in 0 .. MaxFaults
  BY <1>1, <1>2, <1>4, Constants DEF Goto, PromoteFails, TypeOK
<1>8. CASE CarryOut(run.for) /\ unseen' = unseen \ {Primary} /\ UNCHANGED pending
  <2>1. PICK f \in Days : f = run.for
    BY <1>3
  <2>2. /\ clones' \in Seq(Days) /\ Len(clones') <= MaxClones
        /\ Len(clones) + 1 \in ClonesOf(f)'
        /\ \A e \in Days : ClonesOf(e) \subseteq ClonesOf(e)'
        /\ alias' \in [Aliases -> Deployments]
        /\ \A a \in Aliases : alias'[a] = IF a = Primary THEN Len(clones) + 1 ELSE alias[a]
    BY <1>2, <1>8, <2>1, ClonesGrow
  <2>3. \A a \in Aliases : alias'[a] = alias[a] \/ alias'[a] \in ClonesOf(f)'
    BY <2>2
  <2>4. unseen' \subseteq Aliases /\ pending' \subseteq Days /\ moved' \in 0 .. MaxMoves
    BY <1>1, <1>2, <1>8 DEF TypeOK
  <2> QED
    BY <1>1, <1>3, <1>5, <1>6, <1>7, <2>1, <2>2, <2>3, <2>4, ProviderKeeps
<1>9. CASE pending' = pending \cup {run.for} /\ UNCHANGED <<alias, clones, unseen>>
  BY <1>1, <1>2, <1>3, <1>5, <1>6, <1>7, <1>9, RunMoves DEF Written, TypeOK
<1>10. CASE UNCHANGED <<alias, clones, pending, unseen>>
  BY <1>1, <1>2, <1>3, <1>5, <1>6, <1>7, <1>10, RunMoves DEF Written, TypeOK
<1> QED
  BY <1>8, <1>9, <1>10 DEF PromoteFails

LEMMA AssignKeeps ==
  ASSUME IInv, NEW a \in Aliases, Assign(a)
  PROVE  IInv'
<1>1. /\ run.at = "assign" /\ a \in run.left /\ alias' = [alias EXCEPT ![a] = run.clone]
      /\ unseen' = unseen \ {a} /\ UNCHANGED <<clones, pending, journal, result, day, moved>>
  BY DEF Assign
<1>2. TypeOK /\ PlaceOf(run) /\ run \in Runs /\ run.look = None /\ SeenBy(run, unseen)
  BY <1>1, RunKnows
<1>3. run.for \in Days /\ Open(run.for) /\ run.clone \in ClonesOf(run.for)
  BY <1>1, <1>2 DEF PlaceOf, Changing
<1>4. faults' \in 0 .. MaxFaults
  BY <1>2, Constants DEF Assign, TypeOK
<1>5. \E r \in Runs : /\ run' = r /\ r.look = None /\ PlaceOf(r)
                      /\ r.at \in {"assign", "verify", "caught", "idle"}
                      /\ r.at = "assign" => r.for = run.for
  <2>1. CASE Raise
    BY <1>1, <1>2, <2>1, RaiseIs
  <2>2. CASE run' = [run EXCEPT !.left = @ \ {a}, !.at = IF run.left = {a} THEN "verify" ELSE @]
    <3>1. PICK l : l = IF run.left = {a} THEN "verify" ELSE "assign"
      OBVIOUS
    <3>2. PICK left : left = run.left \ {a}
      OBVIOUS
    <3>3. PICK r : r = [run EXCEPT !.left = left, !.at = l]
      OBVIOUS
    <3>4. left \in SUBSET Aliases /\ l \in {"assign", "verify"}
      BY <1>2, <3>1, <3>2 DEF Runs
    <3>5. /\ r \in Runs /\ r.at = l /\ r.for = run.for /\ r.look = None
          /\ r.clone = run.clone /\ r.promoted = run.promoted /\ r.posted = run.posted
      BY <1>2, <3>3, <3>4 DEF Runs, Places, Publishing
    <3>6. PlaceOf(r)
      BY <1>1, <1>2, <1>3, <3>4, <3>5, Constants DEF PlaceOf, Changing, Undoing, Resolving
    <3>7. run' = r
      BY <1>1, <2>2, <3>1, <3>2, <3>3
    <3> QED
      BY <3>4, <3>5, <3>6, <3>7
  <2> QED
    BY <2>1, <2>2 DEF Assign
<1>6. PICK r \in Runs : /\ run' = r /\ r.look = None /\ PlaceOf(r)
                        /\ r.at \in {"assign", "verify", "caught", "idle"}
                        /\ r.at = "assign" => r.for = run.for
  BY <1>5
<1>7. \A d : ClonesOf(d)' = ClonesOf(d)
  BY <1>1 DEF ClonesOf
<1>8. alias' \in [Aliases -> Deployments]
      /\ \A b \in Aliases : alias'[b] = IF b = a THEN run.clone ELSE alias[b]
  BY <1>1, <1>2, <1>3, CloneIs DEF TypeOK
<1>9. SeenBy(r, unseen)'
  BY <1>1, <1>2, <1>3, <1>6, <1>7, <1>8, Constants DEF SeenBy
<1>10. /\ clones' \in Seq(Days) /\ Len(clones') <= MaxClones /\ unseen' \subseteq Aliases
       /\ moved' \in 0 .. MaxMoves /\ pending' \subseteq Days
  BY <1>1, <1>2 DEF TypeOK
<1> QED
  BY <1>1, <1>3, <1>4, <1>6, <1>7, <1>8, <1>9, <1>10, ProviderKeeps

LEMMA RestoreKeeps ==
  ASSUME IInv, Restore
  PROVE  IInv'
<1>1. PICK b : b = run.look
  OBVIOUS
<1>2. /\ b # None /\ alias' = [alias EXCEPT ![b] = journal[run.for].prior[b]]
      /\ unseen' = unseen \ {b} /\ UNCHANGED <<clones, pending, journal, result, day, moved>>
  BY <1>1 DEF Restore
<1>3. TypeOK /\ PlaceOf(run) /\ run \in Runs /\ b \in Aliases
      /\ run.at \in {"primary", "rollback"}
  BY <1>1, <1>2, RunKnows DEF PlaceOf
<1>4. run.for \in Days /\ Open(run.for) /\ journal[run.for].prior \in [Aliases -> Known]
  BY <1>3, JournalIs DEF PlaceOf, Undoing, Open
<1>5. PICK lost \in BOOLEAN :
         (lost => faults < MaxFaults) /\ faults' = faults + (IF lost THEN 1 ELSE 0) /\ Done(b, lost)
  BY <1>1 DEF Restore
<1>6. faults' \in 0 .. MaxFaults
  <2>1. faults \in 0 .. MaxFaults /\ MaxFaults \in Nat
    BY <1>3, Constants DEF TypeOK
  <2>2. lost \in BOOLEAN /\ (lost => faults < MaxFaults)
    BY <1>5
  <2> QED
    BY <1>5, <2>1, <2>2
<1>8. PICK r \in Runs : run' = r /\ r.look = None /\ PlaceOf(r) /\ r.at \in {"rollback", "idle"}
  BY <1>3, <1>5, DoneIs
<1>9. \A d : ClonesOf(d)' = ClonesOf(d)
  BY <1>2 DEF ClonesOf
<1>10. alias' \in [Aliases -> Deployments]
       /\ \A a \in Aliases : alias'[a] = IF a = b THEN journal[run.for].prior[a] ELSE alias[a]
  BY <1>2, <1>3, <1>4 DEF TypeOK, Deployments
<1>11. SeenBy(r, unseen)'
  BY <1>8, Constants DEF SeenBy
<1>12. /\ clones' \in Seq(Days) /\ Len(clones') <= MaxClones /\ unseen' \subseteq Aliases
       /\ moved' \in 0 .. MaxMoves /\ pending' \subseteq Days
  BY <1>2, <1>3 DEF TypeOK
<1> QED
  BY <1>2, <1>4, <1>6, <1>8, <1>9, <1>10, <1>11, <1>12, ProviderKeeps

-----------------------------------------------------------------------------
(* Steps that write the journal. *)

LEMMA NewestSealed ==
  ASSUME Sealed # {}
  PROVE  Max(Sealed) \in Sealed /\ \A d \in Sealed : Max(Sealed) >= d
<1>1. Sealed \subseteq 0 .. LastDay /\ LastDay \in Nat
  BY Constants DEF Sealed, Days
<1> QED
  BY <1>1, MaxIsGreatest

\* A journal that is not sealed says nothing of what is served at rest.
LEMMA BaseStays ==
  ASSUME NEW f \in Days \ Sealed, Sealed' = Sealed,
         \A e \in Days : e # f => journal'[e] = journal[e]
  PROVE  Base' = Base
<1>1. CASE Sealed = {}
  BY <1>1 DEF Base
<1>2. CASE Sealed # {}
  <2>1. Max(Sealed) \in Days /\ Max(Sealed) # f
    BY <1>2, NewestSealed DEF Sealed
  <2> QED
    BY <1>2, <2>1 DEF Base
<1> QED
  BY <1>1, <1>2

\* At most one journal is open.
LEMMA OneOpen ==
  ASSUME IInv, NEW d \in Days, NEW e \in Days, Open(d), Open(e)
  PROVE  d = e
<1>1. d # e => d < e /\ e < d
  BY DEF IInv, Books, Ordered, Open
<1> QED
  BY <1>1, Constants DEF Days

LEMMA SealPreKeeps ==
  ASSUME IInv, SealPre
  PROVE  IInv'
<1>1. /\ run.at = "seal" /\ unseen' = {}
      /\ UNCHANGED <<alias, clones, pending, result, day, faults, moved>>
  BY DEF SealPre
<1>2. TypeOK /\ PlaceOf(run) /\ run \in Runs /\ run.look = None /\ Named /\ day \in Days
  BY <1>1, RunKnows DEF TypeOK
<1>3. /\ run.for = day /\ ~run.promoted /\ (journal[day] = None \/ Open(day))
      /\ (\A d \in Days \ {day} : ~Open(d)) /\ run.prior \in [Aliases -> Known]
  BY <1>1, <1>2 DEF PlaceOf, Runs
<1>4. CASE End /\ UNCHANGED journal
  BY <1>1, <1>2, <1>4, EndKeeps DEF TypeOK, Written
<1>5. CASE /\ alias = run.prior
           /\ journal' = [journal EXCEPT ![day] =
                             [phase |-> "PRE", prior |-> run.prior, promoted |-> None]]
           /\ Goto("precheck")
  <2>1. PICK j : j = [phase |-> "PRE", prior |-> run.prior, promoted |-> None]
    OBVIOUS
  <2>2. /\ j \in Journals /\ j.phase = "PRE" /\ j.prior = run.prior /\ j.promoted = None
        /\ j # None
    BY <1>3, <2>1, Constants DEF Journals
  <2>3. /\ journal' \in [Days -> Journals \cup {None}] /\ journal'[day] = j
        /\ \A e \in Days : e # day => journal'[e] = journal[e]
    BY <1>2, <1>5, <2>1, <2>2 DEF TypeOK
  <2>4. PICK r : r = [run EXCEPT !.at = "precheck"]
    OBVIOUS
  <2>5. /\ r \in Runs /\ r.at = "precheck" /\ r.for = day /\ r.look = None
        /\ r.promoted = run.promoted /\ r.posted = run.posted /\ r.prior = run.prior /\ run' = r
    BY <1>2, <1>3, <1>5, <2>4 DEF Runs, Places, Goto
  <2>6. TypeOK'
    <3>1. \A d \in Days : journal'[d] # None =>
             (journal'[d].phase = "PRE" <=> journal'[d].promoted = None)
      BY <1>2, <2>2, <2>3 DEF TypeOK
    <3> QED
      BY <1>1, <1>2, <2>3, <2>5, <3>1 DEF TypeOK
  <2>7. \A d : ClonesOf(d)' = ClonesOf(d)
    BY <1>1 DEF ClonesOf
  <2>8. Sealed' = Sealed /\ day \notin Sealed
    BY <1>2, <1>3, <2>2, <2>3 DEF Sealed, Open
  <2>9. \A d \in Days : Open(d)' <=> d = day
    <3>1. \A d \in Days : Open(d)' <=> journal'[d] # None /\ journal'[d].phase # "COMPLETE"
      BY DEF Open
    <3>2. \A d \in Days : Open(d) <=> journal[d] # None /\ journal[d].phase # "COMPLETE"
      BY DEF Open
    <3>3. \A d \in Days : d # day => ~(journal'[d] # None /\ journal'[d].phase # "COMPLETE")
      BY <1>3, <2>3, <3>2
    <3>4. journal'[day] # None /\ journal'[day].phase # "COMPLETE"
      BY <2>2, <2>3
    <3> QED
      BY <1>3, <3>1, <3>3, <3>4
  <2>10. Books'
    <3>1. Named'
      BY <1>2, <2>2, <2>3, <2>7 DEF Named
    <3>2. Ordered'
      <4>1. \A d \in Days : journal[d] # None => d <= day
        BY DEF IInv, Books, Ordered
      <4>2. \A d \in Days : d <= day /\ d # day => d < day
        BY <1>2, Constants DEF Days
      <4>3. day <= day
        BY <1>2, Constants DEF Days
      <4> QED
        BY <1>1, <2>3, <2>9, <4>1, <4>2, <4>3 DEF Ordered
    <3>4. SealedHasResult'
      <4>1. \A d \in Sealed : d \in Days /\ d # day
        BY <2>8 DEF Sealed
      <4> QED
        BY <1>1, <2>3, <2>7, <2>8, <4>1 DEF IInv, Books, SealedHasResult
    <3> QED
      BY <3>1, <3>2, <3>4 DEF Books
  <2>11. PlaceOf(run)'
    <3>1. PlaceOf(run)
      BY <1>2
    <3> QED
      BY <1>1, <1>2, <1>3, <2>2, <2>3, <2>5, <2>9, <3>1, Constants
      DEF PlaceOf, Changing, Undoing, Resolving
  <2>12. Served'
    <3>1. Base' = Base
      BY <1>2, <2>3, <2>8, BaseStays
    <3>2. moved = 0 => \A a \in Aliases : run.prior[a] = Base /\ alias[a] = Base
      BY <1>1, <1>5 DEF IInv, Served
    <3> QED
      BY <1>1, <1>2, <2>2, <2>3, <2>5, <2>9, <3>1, <3>2 DEF Served
  <2>13. SeenBy(run, unseen)'
    BY <2>5, Constants DEF SeenBy
  <2> QED
    BY <2>6, <2>10, <2>11, <2>12, <2>13 DEF IInv
<1> QED
  BY <1>4, <1>5 DEF SealPre

LEMMA SealPostKeeps ==
  ASSUME IInv, SealPost
  PROVE  IInv'
<1>1. /\ run.at = "post" /\ UNCHANGED <<alias, clones, pending, result, day, faults, moved, unseen>>
  BY DEF SealPost
<1>2. TypeOK /\ PlaceOf(run) /\ run \in Runs /\ run.look = None /\ Named
  BY <1>1, RunKnows
<1>a. PICK f \in Days : f = run.for
  BY <1>1, <1>2 DEF PlaceOf
<1>b. PICK c : c = run.clone
  OBVIOUS
<1>3. /\ Open(f) /\ journal[f] # None /\ c \in ClonesOf(f) /\ journal[f].phase = "PRE"
      /\ SeenBy(run, unseen)
  BY <1>1, <1>2, <1>a, <1>b, RunKnows DEF PlaceOf, Changing, Open
<1>4. CASE End /\ UNCHANGED journal
  BY <1>1, <1>2, <1>4, EndKeeps DEF TypeOK, Written
<1>c. PICK r : r = [run EXCEPT !.at = "state"]
  OBVIOUS
<1>d. /\ r \in Runs /\ r.at = "state" /\ r.for = f /\ r.look = None
      /\ r.promoted = run.promoted /\ r.posted = run.posted /\ r.clone = c
  BY <1>2, <1>a, <1>b, <1>c DEF Runs, Places, Publishing
<1>e. c \in 1 .. MaxClones /\ c # None /\ c \in Deployments
  BY <1>2, <1>3, CloneIs
<1>6. CASE Goto("state") /\ run.posted /\ UNCHANGED journal
  <2>1. run' = r /\ UNCHANGED Written /\ UNCHANGED <<pending, faults, unseen>>
    BY <1>1, <1>6, <1>c DEF Goto, Written
  <2>2. PlaceOf(r)
    BY <1>1, <1>2, <1>3, <1>6, <1>d, <1>e, Constants DEF PlaceOf, Changing, Undoing, Resolving
  <2>3. SeenBy(r, unseen')
    BY <1>1, <1>3, <1>b, <1>d, <2>1, Constants DEF SeenBy
  <2> QED
    BY <1>2, <1>d, <2>1, <2>2, <2>3, RunMoves DEF TypeOK
<1>5. CASE /\ Goto("state") /\ ~run.posted
           /\ journal' = [journal EXCEPT ![f].phase = "POST", ![f].promoted = c]
  <2>1. /\ journal[f] \in Journals /\ (journal[f].phase = "PRE" <=> journal[f].promoted = None)
        /\ journal[f].phase \in {"PRE", "POST", "COMPLETE"}
    BY <1>2, <1>3, JournalIs
  <2>3. /\ journal'[f] \in Journals /\ journal'[f].phase = "POST"
        /\ journal'[f].promoted = c /\ journal'[f].prior = journal[f].prior
        /\ \A e \in Days : e # f => journal'[e] = journal[e]
        /\ journal' \in [Days -> Journals \cup {None}]
    <3>1. PICK j : j = [journal[f] EXCEPT !.phase = "POST", !.promoted = c]
      OBVIOUS
    <3>2. j \in Journals /\ j.phase = "POST" /\ j.promoted = c /\ j.prior = journal[f].prior
      BY <1>e, <2>1, <3>1 DEF Journals
    <3>3. journal' = [journal EXCEPT ![f] = j]
      BY <1>2, <1>5, <3>1 DEF TypeOK
    <3> QED
      BY <1>2, <3>2, <3>3 DEF TypeOK
  <2>4. journal'[f] # None
    BY <2>3, Constants
  <2>6. run' = r
    BY <1>5, <1>c DEF Goto
  <2>7. TypeOK'
    <3>1. \A d \in Days : journal'[d] # None =>
             (journal'[d].phase = "PRE" <=> journal'[d].promoted = None)
      BY <1>2, <1>e, <2>3 DEF TypeOK
    <3> QED
      BY <1>1, <1>2, <1>d, <2>3, <2>6, <3>1 DEF TypeOK
  <2>8. \A d : ClonesOf(d)' = ClonesOf(d)
    BY <1>1 DEF ClonesOf
  <2>9. Sealed' = Sealed /\ f \notin Sealed
    BY <1>3, <2>3, <2>4 DEF Sealed, Open
  <2>10. \A d \in Days : (Open(d)' <=> Open(d)) /\ (journal'[d] # None <=> journal[d] # None)
    BY <1>3, <2>3, <2>4 DEF Open
  <2>11. Books'
    <3>1. Named'
      BY <1>2, <1>3, <2>3, <2>8 DEF Named
    <3>2. Ordered'
      BY <1>1, <2>10 DEF IInv, Books, Ordered
    <3>4. SealedHasResult'
      <4>1. \A d \in Sealed : d \in Days /\ d # f
        BY <2>9 DEF Sealed
      <4> QED
        BY <1>1, <2>3, <2>8, <2>9, <4>1 DEF IInv, Books, SealedHasResult
    <3> QED
      BY <3>1, <3>2, <3>4 DEF Books
  <2>12. PlaceOf(run)'
    BY <1>1, <1>2, <1>d, <1>e, <2>3, <2>4, <2>6, Constants
    DEF PlaceOf, Changing, Undoing, Resolving
  <2>13. Served'
    <3>1. Base' = Base
      BY <2>3, <2>9, BaseStays
    <3>2. \A d \in Days : Open(d) => journal'[d].prior = journal[d].prior
      BY <2>3
    <3> QED
      BY <1>1, <1>d, <2>6, <2>8, <2>10, <3>1, <3>2 DEF IInv, Served
  <2>14. SeenBy(run, unseen)'
    BY <1>5, <1>d, <2>6, Constants DEF SeenBy
  <2> QED
    BY <2>7, <2>11, <2>12, <2>13, <2>14 DEF IInv
<1> QED
  BY <1>4, <1>5, <1>6, <1>a, <1>b DEF SealPost

LEMMA SealsKeeps ==
  ASSUME IInv, Complete, journal[run.for].phase # "PRE"
  PROVE  IInv'
<1>1. /\ run.at = "complete"
      /\ UNCHANGED <<alias, clones, pending, result, day, moved, unseen>>
      /\ journal' = [journal EXCEPT ![run.for].phase = "COMPLETE"]
  BY DEF Complete
<1>2. TypeOK /\ PlaceOf(run) /\ run \in Runs /\ run.look = None /\ Named
  BY <1>1, RunKnows
<1>a. PICK f \in Days : f = run.for
  BY <1>1, <1>2 DEF PlaceOf
<1>b. PICK c : c = run.clone
  OBVIOUS
<1>3. /\ journal[f] # None /\ c # None /\ journal[f].promoted = c
      /\ result[f] = Result(f, c) /\ result[0] = Result(f, c)
  BY <1>1, <1>2, <1>a, <1>b DEF PlaceOf, Resolving
<1>4. faults' \in 0 .. MaxFaults
  BY <1>2, Constants DEF Complete, TypeOK
<1>5. PICK r \in Runs : /\ run' = r /\ r.look = None /\ r.at \in {"caught", "idle"} /\ PlaceOf(r)
                        /\ r.at = "caught" => r.for = f
  <2>1. CASE End
    <3>1. PlaceOf(Idle)
      BY IdleIs, Constants DEF PlaceOf, Changing, Undoing, Resolving
    <3> QED
      BY <2>1, <3>1, IdleIs DEF End
  <2>2. CASE Raise
    BY <1>1, <1>2, <1>a, <2>2, RaiseIs
  <2> QED
    BY <2>1, <2>2 DEF Complete
<1>6. /\ journal[f] \in Journals /\ (journal[f].phase = "PRE" <=> journal[f].promoted = None)
  BY <1>2, <1>3, JournalIs
<1>7. /\ journal'[f] \in Journals /\ journal'[f].phase = "COMPLETE"
      /\ journal'[f].promoted = c /\ journal'[f].prior = journal[f].prior
      /\ \A e \in Days : e # f => journal'[e] = journal[e]
      /\ journal' \in [Days -> Journals \cup {None}]
  <2>1. PICK j : j = [journal[f] EXCEPT !.phase = "COMPLETE"]
    OBVIOUS
  <2>2. j \in Journals /\ j.phase = "COMPLETE" /\ j.promoted = c /\ j.prior = journal[f].prior
    BY <1>3, <1>6, <2>1 DEF Journals
  <2>3. journal' = [journal EXCEPT ![f] = j]
    BY <1>1, <1>a, <2>1
  <2> QED
    BY <1>2, <2>2, <2>3 DEF TypeOK
<1>8. journal'[f] # None
  BY <1>7, Constants
<1>9. TypeOK'
  <2>1. \A d \in Days : journal'[d] # None =>
           (journal'[d].phase = "PRE" <=> journal'[d].promoted = None)
    BY <1>2, <1>3, <1>7 DEF TypeOK
  <2> QED
    BY <1>1, <1>2, <1>4, <1>5, <1>7, <2>1 DEF TypeOK
<1>10. \A d : ClonesOf(d)' = ClonesOf(d)
  BY <1>1 DEF ClonesOf
<1>11. Sealed' = Sealed \cup {f}
  BY <1>7, <1>8 DEF Sealed
<1>12. \A d \in Days : /\ Open(d)' <=> Open(d) /\ d # f
                       /\ journal'[d] # None <=> journal[d] # None
                       /\ journal[d] # None => journal'[d].promoted = journal[d].promoted
                       /\ journal'[d].prior = journal[d].prior
  BY <1>3, <1>7, <1>8 DEF Open
<1>13. Books'
  <2>1. Named'
    BY <1>2, <1>10, <1>12 DEF Named
  <2>2. Ordered'
    BY <1>1, <1>12 DEF IInv, Books, Ordered
  <2>4. SealedHasResult'
    <3>1. \A d \in Sealed : d \in Days /\ journal[d] # None /\ journal'[d].promoted = journal[d].promoted
      BY <1>12 DEF Sealed
    <3>2. c \in ClonesOf(f)
      BY <1>2, <1>3 DEF Named
    <3>3. \A d \in Sealed : /\ result[d] = Result(d, journal'[d].promoted)
                            /\ journal'[d].promoted \in ClonesOf(d)
                            /\ result[0].for = d => result[0] = result[d]
      BY <3>1 DEF IInv, Books, SealedHasResult
    <3> QED
      BY <1>1, <1>3, <1>7, <1>10, <1>11, <3>2, <3>3 DEF SealedHasResult
  <2> QED
    BY <2>1, <2>2, <2>4 DEF Books
<1>14. PlaceOf(run)'
  <2>1. r.promoted => r.for \in Days /\ journal'[r.for] # None
    BY <1>5, <1>12 DEF PlaceOf
  <2>2. r.at = "idle" => ~r.promoted
    BY <1>5 DEF PlaceOf
  <2> QED
    BY <1>5, <1>8, <2>1, <2>2, Constants DEF PlaceOf, Changing, Undoing, Resolving
<1>15. Served'
  <2> SUFFICES ASSUME moved = 0, NEW a \in Aliases
               PROVE  /\ (\A d \in Days : ~Open(d)') => alias[a] = Base'
                      /\ \A d \in Days : Open(d)' => /\ journal'[d].prior[a] = Base'
                                                    /\ alias[a] \in {Base'} \cup ClonesOf(d)'
    BY <1>1, <1>5 DEF Served
  <2>1. CASE f \in Sealed
    <3>1. Sealed' = Sealed /\ Sealed # {} /\ ~Open(f)
      BY <1>11, <2>1 DEF Sealed, Open
    <3>2. Max(Sealed) \in Days /\ journal[Max(Sealed)] # None
      BY <3>1, NewestSealed DEF Sealed
    <3>3. Base' = Base
      BY <1>12, <3>1, <3>2 DEF Base
    <3> QED
      BY <1>10, <1>12, <3>1, <3>3 DEF IInv, Served
  <2>2. CASE f \notin Sealed
    <3>1. Open(f)
      BY <1>3, <2>2 DEF Sealed, Open
    <3>2. \A d \in Days : ~Open(d)'
      BY <1>12, <3>1, OneOpen
    <3>3. \A e \in Sealed : e < f /\ e \in Days
      BY <2>2, <3>1 DEF IInv, Books, Ordered, Sealed
    <3>4. PICK m : m = Max(Sealed \cup {f})
      OBVIOUS
    <3>5. m \in Sealed \cup {f} /\ m >= f
      <4>1. Sealed \cup {f} \subseteq 0 .. LastDay /\ LastDay \in Nat
        BY <3>3, Constants DEF Days
      <4> QED
        BY <3>4, <4>1, MaxIsGreatest
    <3>6. m = f
      BY <3>3, <3>5, Constants DEF Days
    <3>7. Base' = c
      BY <1>7, <1>11, <3>4, <3>6 DEF Base
    <3>8. alias[a] = c
      BY <1>1, <1>b DEF IInv, Served
    <3> QED
      BY <3>2, <3>7, <3>8
  <2> QED
    BY <2>1, <2>2
<1>16. SeenBy(run, unseen)'
  BY <1>5, Constants DEF SeenBy
<1> QED
  BY <1>9, <1>13, <1>14, <1>15, <1>16 DEF IInv

LEMMA CompleteKeeps ==
  ASSUME IInv, Complete
  PROVE  IInv'
<1>1. CASE journal[run.for].phase = "PRE"
  <2>1. /\ run.at = "complete" /\ Raise /\ UNCHANGED Written
        /\ UNCHANGED <<pending, faults, unseen>>
    BY <1>1 DEF Complete, Written
  <2>2. TypeOK /\ run.look = None
    BY <2>1, RunKnows
  <2> QED
    BY <2>1, <2>2, RaiseKeeps DEF TypeOK
<1> QED
  BY <1>1, SealsKeeps

-----------------------------------------------------------------------------
(* Steps that write a result. *)

\* What such a step has to show: it writes the result of a begun journal, and
\* of a sealed one the result the journal has.
LEMMA ResultKeeps ==
  ASSUME IInv, UNCHANGED <<alias, clones, pending, journal, day, faults, moved, unseen>>,
         NEW f \in Days, NEW i \in {f, 0}, NEW c \in (1 .. MaxClones) \cup {None},
         result' = [result EXCEPT ![i] = Result(f, c)], journal[f] # None,
         f \in Sealed => journal[f].promoted = c,
         NEW r \in Runs, run' = r, r.look = None, PlaceOf(r)', SeenBy(r, unseen),
         r.at \notin {"complete", "snapshot", "seal"}
  PROVE  IInv'
<1>1. f \in 1 .. LastDay /\ LastDay \in Nat /\ f # 0 /\ i \in 0 .. LastDay
  BY Constants DEF Days
<1>2. PICK x : x = Result(f, c)
  OBVIOUS
<1>3. x \in Results /\ x.for = f /\ x.clone = c
  BY <1>2 DEF Results, Result
<1>4. /\ result' \in [0 .. LastDay -> Results \cup {None}] /\ result'[i] = x
      /\ \A k \in 0 .. LastDay : k # i => result'[k] = result[k]
  BY <1>1, <1>2, <1>3 DEF IInv, TypeOK
<1>5. TypeOK'
  BY <1>4 DEF IInv, TypeOK
<1>6. (\A d : ClonesOf(d)' = ClonesOf(d) /\ (Open(d)' <=> Open(d))) /\ Sealed' = Sealed
  BY DEF ClonesOf, Open, Sealed
<1>7. Named' /\ Ordered'
  BY <1>6 DEF IInv, Books, Named, Ordered
<1>9. SealedHasResult'
  <2> SUFFICES ASSUME NEW d \in Sealed
               PROVE  /\ result'[d] = Result(d, journal[d].promoted)
                      /\ journal[d].promoted \in ClonesOf(d)
                      /\ result'[0].for = d => result'[0] = result'[d]
    BY <1>6 DEF SealedHasResult
  <2>1. d \in 0 .. LastDay /\ d # 0 /\ 0 \in 0 .. LastDay
    BY Constants DEF Sealed, Days
  <2>2. /\ result[d] = Result(d, journal[d].promoted)
        /\ journal[d].promoted \in ClonesOf(d)
        /\ result[0].for = d => result[0] = result[d]
    BY DEF IInv, Books, SealedHasResult
  <2>3. d = f => result[d] = x /\ result'[d] = x
    BY <1>2, <1>4, <2>1, <2>2
  <2>4. result'[d] = result[d]
    BY <1>4, <2>1, <2>3
  <2>5. CASE i = 0
    BY <1>3, <1>4, <2>2, <2>3, <2>4, <2>5
  <2>6. CASE i = f
    BY <1>1, <1>4, <2>1, <2>2, <2>4, <2>6
  <2> QED
    BY <2>2, <2>4, <2>5, <2>6
<1>10. Served'
  <2>1. Base' = Base
    BY <1>6 DEF Base
  <2> QED
    BY <1>6, <2>1 DEF IInv, Served
<1>11. SeenBy(run, unseen)'
  BY <1>6 DEF SeenBy
<1> QED
  BY <1>5, <1>7, <1>9, <1>10, <1>11 DEF IInv, Books

\* Both copies of a success are written one after the other...
LEMMA WriteKeeps ==
  ASSUME IInv, WriteState \/ WriteRuntime
  PROVE  IInv'
<1>1. PICK l \in {"runtime", "check"} :
         /\ l = "runtime" => run.at = "state"
         /\ l = "check" => run.at = "runtime"
         /\ result' = [result EXCEPT ![IF l = "check" THEN 0 ELSE run.for] =
                                          Result(run.for, run.clone)]
         /\ Goto(l)
         /\ UNCHANGED <<alias, clones, pending, journal, day, faults, moved, unseen>>
  BY DEF WriteState, WriteRuntime
<1>2. TypeOK /\ PlaceOf(run) /\ run \in Runs /\ run.look = None
  BY <1>1, RunKnows
<1>3. PICK f \in Days : f = run.for
  BY <1>1, <1>2 DEF PlaceOf
<1>4. PICK c : c = run.clone
  OBVIOUS
<1>5. /\ journal[f] # None /\ c # None
      /\ \/ journal[f].promoted = c
         \/ run.posted /\ journal[f].phase = "PRE" /\ c \in ClonesOf(f)
      /\ l = "check" => result[f] = Result(f, c)
  BY <1>1, <1>2, <1>3, <1>4 DEF PlaceOf, Resolving
<1>6. c \in (1 .. MaxClones) \cup {None}
  BY <1>2, <1>5, JournalIs, CloneIs
<1>7. PICK i \in {f, 0} : i = IF l = "check" THEN 0 ELSE f
  OBVIOUS
<1>8. result' = [result EXCEPT ![i] = Result(f, c)]
  BY <1>1, <1>3, <1>4, <1>7
<1>9. PICK r : r = [run EXCEPT !.at = l]
  OBVIOUS
<1>10. /\ r \in Runs /\ r.at = l /\ r.for = f /\ r.look = None /\ r.clone = c
       /\ r.promoted = run.promoted /\ r.posted = run.posted /\ run' = r
  BY <1>1, <1>2, <1>3, <1>4, <1>9 DEF Runs, Places, Publishing, Goto
<1>11. /\ result'[f] = Result(f, c)
       /\ l = "check" => result'[0] = Result(f, c)
  <2>1. f \in 0 .. LastDay /\ f # 0 /\ 0 \in 0 .. LastDay /\ DOMAIN result = 0 .. LastDay
    BY <1>2, Constants DEF Days, TypeOK
  <2>2. CASE l = "check"
    BY <1>5, <1>7, <1>8, <2>1, <2>2
  <2>3. CASE l # "check"
    BY <1>7, <1>8, <2>1, <2>3
  <2> QED
    BY <2>2, <2>3
<1>14. ClonesOf(f)' = ClonesOf(f) /\ UNCHANGED journal
  BY <1>1 DEF ClonesOf
<1>12. PlaceOf(r)'
  BY <1>1, <1>5, <1>7, <1>10, <1>11, <1>14, Constants DEF PlaceOf, Changing, Undoing, Resolving
<1>13. SeenBy(r, unseen)
  BY <1>1, <1>4, <1>10, RunKnows, Constants DEF SeenBy
<1>15. f \in Sealed => journal[f].promoted = c
  BY <1>5 DEF Sealed
<1> QED
  BY <1>1, <1>5, <1>6, <1>8, <1>10, <1>12, <1>13, <1>15, ResultKeeps

\* ...and both are replaced by the compensation's while the journal is open.
LEMMA VoidKeeps ==
  ASSUME IInv, VoidState \/ VoidRuntime
  PROVE  IInv'
<1>1. /\ run.at \in {"void state", "void runtime"}
      /\ UNCHANGED <<alias, clones, pending, journal, day, faults, moved, unseen>>
  BY DEF VoidState, VoidRuntime
<1>2. TypeOK /\ PlaceOf(run) /\ run \in Runs /\ run.look = None
  BY <1>1, RunKnows
<1>3. PICK f \in Days : f = run.for
  BY <1>1, <1>2 DEF PlaceOf
<1>4. journal[f] # None /\ f \notin Sealed /\ Open(f)
  BY <1>1, <1>2, <1>3 DEF PlaceOf, Undoing, Open, Sealed
<1>5. CASE VoidState
  <2>1. PICK r : r = [run EXCEPT !.at = "void runtime"]
    OBVIOUS
  <2>2. /\ r \in Runs /\ r.at = "void runtime" /\ r.for = f /\ r.look = None /\ run' = r
    BY <1>2, <1>3, <1>5, <2>1 DEF Runs, Places, Goto, VoidState
  <2>3. PlaceOf(r)'
    BY <1>1, <1>4, <2>2, Constants DEF PlaceOf, Changing, Undoing, Resolving, Open
  <2>4. SeenBy(r, unseen)
    BY <2>2, SeesNothing
  <2>5. result' = [result EXCEPT ![f] = Result(f, None)]
    BY <1>3, <1>5 DEF VoidState
  <2> QED
    BY <1>1, <1>4, <2>2, <2>3, <2>4, <2>5, ResultKeeps
<1>6. CASE VoidRuntime
  <2>1. run' = Idle /\ result' = [result EXCEPT ![0] = Result(f, None)]
    BY <1>3, <1>6 DEF VoidRuntime, End
  <2>2. PlaceOf(Idle)'
    BY IdleIs, Constants DEF PlaceOf, Changing, Undoing, Resolving, Idle
  <2>3. SeenBy(Idle, unseen)
    BY IdleIs, SeesNothing
  <2> QED
    BY <1>1, <1>4, <2>1, <2>2, <2>3, IdleIs, ResultKeeps
<1> QED
  BY <1>5, <1>6

-----------------------------------------------------------------------------
(* Steps of others. *)

\* A run that did not move knows less of an alias somebody else has moved.
LEMMA MovedKeeps ==
  ASSUME IInv, UNCHANGED <<journal, result, day, run, faults>>,
         alias' \in [Aliases -> Deployments], clones' \in Seq(Days), Len(clones') <= MaxClones,
         \A d \in Days : ClonesOf(d) \subseteq ClonesOf(d)',
         pending' \subseteq Days, moved < MaxMoves, moved' = moved + 1,
         NEW b \in Aliases, unseen' = unseen \cup {b},
         \A a \in Aliases : a # b => alias'[a] = alias[a]
  PROVE  IInv'
<1>1. TypeOK /\ PlaceOf(run) /\ SeenBy(run, unseen)
  BY RunKnows
<1>2. PICK r \in Runs : r = run
  BY RunKnows
<1>3. moved' \in 0 .. MaxMoves /\ moved' # 0
  BY <1>1, Constants DEF TypeOK
<1>4. unseen' \subseteq Aliases /\ faults' \in 0 .. MaxFaults /\ r.look \in r.left \cup {None}
  BY <1>1, <1>2 DEF TypeOK
<1>5. r.at \in {"promote", "list", "assign"} \/ r.look # None => r.for \in Days
  BY <1>1, <1>2 DEF PlaceOf
<1>6. SeenBy(r, unseen)'
  <2> SUFFICES ASSUME NEW a \in Aliases \ unseen'
               PROVE  /\ r.at = "promote" => alias'[a] = journal'[r.for].prior[a]
                      /\ r.at \in {"list", "assign"} =>
                            alias'[a] \in {journal'[r.for].prior[a]} \cup ClonesOf(r.for)'
                      /\ r.posted /\ r.at \in {"post", "state", "runtime"} => alias'[a] = r.clone
                      /\ r.look = a => alias'[a] \in ClonesOf(r.for)'
    BY DEF SeenBy
  <2>1. a \in Aliases \ unseen /\ alias'[a] = alias[a] /\ a # None
    BY Constants
  <2>2. /\ r.at = "promote" => alias[a] = journal[r.for].prior[a]
        /\ r.at \in {"list", "assign"} =>
              alias[a] \in {journal[r.for].prior[a]} \cup ClonesOf(r.for)
        /\ r.posted /\ r.at \in {"post", "state", "runtime"} => alias[a] = r.clone
        /\ r.look = a => alias[a] \in ClonesOf(r.for)
    BY <1>1, <1>2, <2>1 DEF SeenBy
  <2> QED
    BY <1>5, <2>1, <2>2
<1> QED
  BY <1>1, <1>2, <1>3, <1>4, <1>6, ProviderKeeps

LEMMA MoveKeeps ==
  ASSUME IInv, NEW b \in Aliases, Move(b)
  PROVE  IInv'
<1>1. PICK c \in {Foreign} \cup (0 .. Len(clones)) : alias' = [alias EXCEPT ![b] = c]
  BY DEF Move
<1>2. TypeOK
  BY RunKnows
<1>3. c \in Deployments
  <2>1. Len(clones) \in Nat /\ Len(clones) <= MaxClones /\ MaxClones \in Nat
    BY <1>2, Constants DEF TypeOK
  <2> QED
    BY <2>1 DEF Deployments, Known
<1>4. /\ alias' \in [Aliases -> Deployments]
      /\ \A a \in Aliases : a # b => alias'[a] = alias[a]
  BY <1>1, <1>2, <1>3 DEF TypeOK
<1>5. /\ moved < MaxMoves /\ moved' = moved + 1 /\ unseen' = unseen \cup {b}
      /\ UNCHANGED <<clones, pending, journal, result, day, run, faults>>
  BY DEF Move
<1>6. (\A d : ClonesOf(d)' = ClonesOf(d)) /\ pending' \subseteq Days
      /\ clones' \in Seq(Days) /\ Len(clones') <= MaxClones
  BY <1>2, <1>5 DEF ClonesOf, TypeOK
<1> QED
  BY <1>4, <1>5, <1>6, MovedKeeps

LEMMA LateKeeps ==
  ASSUME IInv, NEW d \in Days, Late(d)
  PROVE  IInv'
<1>1. /\ moved < MaxMoves /\ moved' = moved + 1 /\ unseen' = unseen \cup {Primary}
      /\ CarryOut(d) /\ pending' = pending \ {d}
      /\ UNCHANGED <<journal, result, day, run, faults>>
  BY DEF Late
<1>2. TypeOK
  BY RunKnows
<1>3. /\ clones' \in Seq(Days) /\ Len(clones') <= MaxClones
      /\ \A e \in Days : ClonesOf(e) \subseteq ClonesOf(e)'
      /\ alias' \in [Aliases -> Deployments]
      /\ \A a \in Aliases : a # Primary => alias'[a] = alias[a]
  BY <1>1, <1>2, ClonesGrow
<1>4. pending' \subseteq Days
  BY <1>1, <1>2 DEF TypeOK
<1> QED
  BY <1>1, <1>3, <1>4, Constants, MovedKeeps

LEMMA TomorrowKeeps ==
  ASSUME IInv, Tomorrow
  PROVE  IInv'
<1>1. /\ run.at = "idle" /\ day < LastDay /\ day' = day + 1
      /\ UNCHANGED <<alias, clones, pending, journal, result, run, faults, moved, unseen>>
  BY DEF Tomorrow
<1>2. TypeOK /\ PlaceOf(run) /\ run.look = None
  BY <1>1, RunKnows
<1>3. day \in Days /\ day' \in Days /\ \A d \in Days : d <= day => d <= day'
  BY <1>1, <1>2, Constants DEF TypeOK, Days
<1>4. TypeOK'
  BY <1>1, <1>2, <1>3 DEF TypeOK
<1>5. (\A d : ClonesOf(d)' = ClonesOf(d) /\ (Open(d)' <=> Open(d))) /\ Sealed' = Sealed
  BY <1>1 DEF ClonesOf, Open, Sealed
<1>6. Books'
  BY <1>1, <1>3, <1>5 DEF IInv, Books, Named, Ordered, SealedHasResult
<1>7. PlaceOf(run)'
  BY <1>1, <1>2, Constants DEF PlaceOf, Changing, Undoing, Resolving
<1>8. Served'
  <2>1. Base' = Base
    BY <1>1, <1>5 DEF Base
  <2> QED
    BY <1>1, <1>5, <2>1 DEF IInv, Served
<1>9. SeenBy(run, unseen)'
  BY <1>1, <1>2, Constants DEF SeenBy
<1> QED
  BY <1>4, <1>6, <1>7, <1>8, <1>9 DEF IInv

-----------------------------------------------------------------------------
(* The theorems. *)

LEMMA Initial == Init => IInv
<1> SUFFICES ASSUME Init PROVE IInv
  OBVIOUS
<1>1. /\ alias = [a \in Aliases |-> 0] /\ clones = <<>> /\ pending = {}
      /\ journal = [d \in Days |-> None] /\ result = [d \in 0 .. LastDay |-> None]
      /\ day = 1 /\ run = Idle /\ faults = 0 /\ moved = 0 /\ unseen = {}
  BY DEF Init
<1>2. (\A d \in Days : journal[d] = None /\ ~Open(d)) /\ Sealed = {}
  BY <1>1 DEF Open, Sealed
<1>3. TypeOK
  <2>1. 0 \in Deployments
    BY Constants DEF Deployments, Known
  <2>2. clones \in Seq(Days) /\ Len(clones) <= MaxClones
    BY <1>1, Constants
  <2>3. day \in Days /\ faults \in 0 .. MaxFaults /\ moved \in 0 .. MaxMoves
    BY <1>1, Constants DEF Days
  <2>4. journal \in [Days -> Journals \cup {None}]
        /\ result \in [0 .. LastDay -> Results \cup {None}]
        /\ alias \in [Aliases -> Deployments]
    BY <1>1, <2>1
  <2> QED
    BY <1>1, <1>2, <2>2, <2>3, <2>4, IdleIs DEF TypeOK
<1>4. Named /\ Ordered /\ SealedHasResult
  BY <1>2 DEF Named, Ordered, SealedHasResult
<1>6. PlaceOf(run) /\ SeenBy(run, unseen)
  BY <1>1, IdleIs, Constants DEF PlaceOf, SeenBy, Changing, Undoing, Resolving
<1>7. Served
  BY <1>1, <1>2, IdleIs DEF Served, Base
<1> QED
  BY <1>3, <1>4, <1>6, <1>7 DEF IInv, Books

LEMMA Inductive == IInv /\ [Next]_vars => IInv'
<1> SUFFICES ASSUME IInv, [Next]_vars PROVE IInv'
  OBVIOUS
<1>1. CASE Begin("publish") \/ Begin("recover")
  BY <1>1, BeginKeeps
<1>2. CASE Read
  BY <1>2, ReadKeeps
<1>3. CASE Snapshot \/ SealPre \/ Precheck \/ Promote \/ PromoteFails
  BY <1>3, SnapshotKeeps, SealPreKeeps, PrecheckKeeps, PromoteKeeps, PromoteFailsKeeps
<1>4. CASE List \/ Verify \/ SealPost \/ Check \/ Complete \/ \E a \in Aliases : Assign(a)
  BY <1>4, ListKeeps, VerifyKeeps, SealPostKeeps, CheckKeeps, CompleteKeeps, AssignKeeps
<1>5. CASE WriteState \/ WriteRuntime
  BY <1>5, WriteKeeps
<1>6. CASE VoidState \/ VoidRuntime
  BY <1>6, VoidKeeps
<1>7. CASE Caught \/ Plan \/ RolledBack \/ Restore \/ \E a \in Aliases : Look(a)
  BY <1>7, CaughtKeeps, PlanKeeps, RolledBackKeeps, RestoreKeeps, LookKeeps
<1>8. CASE Fault \/ Tomorrow \/ (\E a \in Aliases : Move(a)) \/ (\E d \in Days : Late(d))
  BY <1>8, FaultKeeps, TomorrowKeeps, MoveKeeps, LateKeeps
<1>9. CASE UNCHANGED vars
  <2>1. (\A d : ClonesOf(d)' = ClonesOf(d) /\ (Open(d)' <=> Open(d))) /\ Sealed' = Sealed
    BY <1>9 DEF ClonesOf, Open, Sealed, vars
  <2>2. Base' = Base
    BY <1>9, <2>1 DEF Base, vars
  <2>3. TypeOK' /\ Books'
    BY <1>9, <2>1 DEF vars, IInv, TypeOK, Books, Named, Ordered, SealedHasResult
  <2>4. PlaceOf(run)' /\ Served' /\ SeenBy(run, unseen)'
    BY <1>9, <2>1, <2>2 DEF vars, IInv, PlaceOf, Served, SeenBy
  <2> QED
    BY <2>3, <2>4 DEF IInv
<1> QED
  BY <1>1, <1>2, <1>3, <1>4, <1>5, <1>6, <1>7, <1>8, <1>9 DEF Next, Step, Publish, RollBack

\* The inductive invariant holds in every state.
THEOREM Invariance == Spec => []IInv
<1> QED
  BY Initial, Inductive, PTL DEF Spec

\* Deployments, journals and results stay of the declared kinds.
THEOREM TypeCorrect == Spec => []TypeOK
<1>1. IInv => TypeOK
  BY DEF IInv
<1> QED
  BY <1>1, Invariance, PTL

\* No failure, retry or compensation after the seal takes a success back.
THEOREM SealedKeeps == Spec => []SealedHasResult
<1>1. IInv => SealedHasResult
  BY DEF IInv, Books
<1> QED
  BY <1>1, Invariance, PTL

\* A run about to write a success.
LEMMA WritesBacked ==
  ASSUME IInv, WriteState \/ WriteRuntime
  PROVE  /\ \E i \in DOMAIN result : result' = [result EXCEPT ![i] = Result(run.for, run.clone)]
         /\ \/ journal[run.for].promoted = run.clone
            \/ /\ run.posted /\ journal[run.for].phase = "PRE" /\ run.clone \in ClonesOf(run.for)
               /\ \A a \in Aliases \ unseen : alias[a] = run.clone
<1>1. TypeOK /\ PlaceOf(run) /\ SeenBy(run, unseen)
  BY RunKnows
<1>2. run.at \in {"state", "runtime"} /\ run.for \in Days
  BY <1>1 DEF WriteState, WriteRuntime, PlaceOf
<1>3. run.for \in DOMAIN result /\ 0 \in DOMAIN result
  BY <1>1, <1>2, Constants DEF TypeOK, Days
<1>4. \E i \in DOMAIN result : result' = [result EXCEPT ![i] = Result(run.for, run.clone)]
  BY <1>3 DEF WriteState, WriteRuntime
<1>5. \/ journal[run.for].promoted = run.clone
      \/ run.posted /\ journal[run.for].phase = "PRE" /\ run.clone \in ClonesOf(run.for)
  BY <1>1, <1>2 DEF PlaceOf, Resolving
<1>6. run.posted => \A a \in Aliases \ unseen : alias[a] = run.clone
  BY <1>1, <1>2 DEF SeenBy
<1> QED
  BY <1>4, <1>5, <1>6

\* A step that changes a result writes that of the run, or voids it.
LEMMA OnlyWrites ==
  ASSUME IInv, Next, UNCHANGED result => FALSE
  PROVE  \/ WriteState \/ WriteRuntime
         \/ \E i \in DOMAIN result : result' = [result EXCEPT ![i] = Result(run.for, None)]
<1>1. CASE VoidState \/ VoidRuntime
  <2>1. TypeOK /\ PlaceOf(run) /\ run.at \in {"void state", "void runtime"}
    BY <1>1, RunKnows DEF VoidState, VoidRuntime
  <2>2. run.for \in DOMAIN result /\ 0 \in DOMAIN result
    <3>1. run.for \in Days /\ DOMAIN result = 0 .. LastDay
      BY <2>1 DEF PlaceOf, TypeOK
    <3> QED
      BY <3>1, Constants DEF Days
  <2> QED
    BY <1>1, <2>2 DEF VoidState, VoidRuntime
<1>2. CASE Begin("publish") \/ Begin("recover") \/ Read \/ Fault \/ Tomorrow
  BY <1>2 DEF Begin, Read, Fault, Tomorrow
<1>3. CASE Snapshot \/ SealPre \/ Precheck \/ Promote \/ PromoteFails \/ List
  BY <1>3 DEF Snapshot, SealPre, Precheck, Promote, PromoteFails, List
<1>4. CASE Verify \/ SealPost \/ Check \/ Complete \/ \E a \in Aliases : Assign(a)
  BY <1>4 DEF Verify, SealPost, Check, Complete, Assign
<1>5. CASE Caught \/ Plan \/ RolledBack \/ Restore \/ \E a \in Aliases : Look(a)
  BY <1>5 DEF Caught, Plan, RolledBack, Restore, Look
<1>6. CASE (\E a \in Aliases : Move(a)) \/ \E d \in Days : Late(d)
  BY <1>6 DEF Move, Late
<1> QED
  BY <1>1, <1>2, <1>3, <1>4, <1>5, <1>6 DEF Next, Step, Publish, RollBack

\* A success is written only of the deployment the journal names, or, by the
\* retry of a POST journal, of one that every alias was seen to serve.
THEOREM SuccessBacked == Spec => SuccessIsBacked
<1> DEFINE
  BackedStep ==
    \A i \in DOMAIN result :
       LET new == result'[i]
           j == journal[new.for]
       IN  result[i] # new /\ new.clone # None =>
              \/ j.promoted = new.clone
              \/ /\ run.posted /\ j.phase = "PRE" /\ new.clone \in ClonesOf(new.for)
                 /\ \A a \in Aliases \ unseen : alias[a] = new.clone
<1>1. ASSUME IInv, Next
      PROVE  BackedStep
  <2>1. SUFFICES ASSUME NEW i \in DOMAIN result, result[i] # result'[i], result'[i].clone # None
                 PROVE  LET new == result'[i]
                            j == journal[new.for]
                        IN  \/ j.promoted = new.clone
                            \/ /\ run.posted /\ j.phase = "PRE"
                               /\ new.clone \in ClonesOf(new.for)
                               /\ \A a \in Aliases \ unseen : alias[a] = new.clone
    OBVIOUS
  <2>2. PICK c \in {run.clone, None}, k \in DOMAIN result :
           /\ result' = [result EXCEPT ![k] = Result(run.for, c)]
           /\ c # None => WriteState \/ WriteRuntime
    BY <1>1, <2>1, OnlyWrites, WritesBacked
  <2>3. result'[i] = Result(run.for, c)
    BY <2>1, <2>2
  <2>4. result'[i].for = run.for /\ result'[i].clone = c
    BY <2>3 DEF Result
  <2>5. c = run.clone /\ (WriteState \/ WriteRuntime)
    BY <2>1, <2>2, <2>4
  <2> QED
    BY <1>1, <2>4, <2>5, WritesBacked
<1>2. IInv /\ [Next]_vars => [BackedStep]_vars
  BY <1>1
<1> QED
  BY <1>2, Invariance, PTL DEF Spec, SuccessIsBacked

\* The aliases are mixed or new only while a journal says so.
THEOREM AliasesAsSealed == Spec => []ServedAsSealed
<1>1. IInv => ServedAsSealed
  BY DEF IInv, Served, ServedAsSealed, Base
<1> QED
  BY <1>1, Invariance, PTL

\* The deployments a run may replace, seen at its last look.
LEMMA SparesStep ==
  ASSUME IInv, Next, NEW a \in Aliases, alias'[a] # alias[a], run' # run, a \notin unseen
  PROVE  alias[a] \in {journal[run.for].prior[a]} \cup ClonesOf(run.for)
<1>1. TypeOK /\ SeenBy(run, unseen)
  BY RunKnows
<1>2. CASE Promote \/ PromoteFails
  BY <1>1, <1>2 DEF Promote, PromoteFails, SeenBy
<1>3. ASSUME NEW b \in Aliases, Assign(b)
      PROVE  alias[a] \in {journal[run.for].prior[a]} \cup ClonesOf(run.for)
  BY <1>1, <1>3 DEF Assign, SeenBy
<1>4. CASE Restore
  <2>1. a = run.look
    BY <1>1, <1>4 DEF Restore, TypeOK
  <2> QED
    BY <1>1, <2>1 DEF SeenBy
<1>5. CASE (\E b \in Aliases : Move(b)) \/ (\E d \in Days : Late(d))
  BY <1>5 DEF Move, Late
<1>6. CASE Begin("publish") \/ Begin("recover") \/ Read \/ Fault \/ Tomorrow
  BY <1>6 DEF Begin, Read, Fault, Tomorrow
<1>7. CASE Snapshot \/ SealPre \/ Precheck \/ List \/ Verify \/ SealPost \/ WriteState
           \/ WriteRuntime \/ Check \/ Complete
  BY <1>7 DEF Snapshot, SealPre, Precheck, List, Verify, SealPost, WriteState, WriteRuntime,
              Check, Complete
<1>8. CASE Caught \/ Plan \/ RolledBack \/ VoidState \/ VoidRuntime \/ \E b \in Aliases : Look(b)
  BY <1>8 DEF Caught, Plan, RolledBack, VoidState, VoidRuntime, Look
<1> QED
  BY <1>2, <1>3, <1>4, <1>5, <1>6, <1>7, <1>8 DEF Next, Step, Publish, RollBack

\* A run replaces a deployment of somebody else only if it came after its look.
THEOREM Spares == Spec => SparesForeign
<1>1. IInv /\ [Next]_vars =>
        [\A a \in Aliases :
            alias'[a] # alias[a] /\ run' # run =>
                \/ a \in unseen
                \/ alias[a] \in {journal[run.for].prior[a]} \cup ClonesOf(run.for)]_vars
  BY SparesStep
<1> QED
  BY <1>1, Invariance, PTL DEF Spec, SparesForeign
=============================================================================
