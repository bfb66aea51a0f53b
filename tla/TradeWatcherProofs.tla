------------------------- MODULE TradeWatcherProofs -------------------------
(* Theorems about TradeWatcher, for every value of its constants. *)
EXTENDS TradeWatcher, FunctionTheorems, FiniteSetTheorems, TLAPS

\* A batch decided on the positions: one entry and one exit for a signal at
\* most, exits only of signals that have a position.
BatchOK(b) ==
    /\ \A i, j \in b : i.kind = j.kind /\ i.kind # "block" /\ i.sig = j.sig => i = j
    /\ \A i \in b : i.kind = "exit" => status[i.sig] # "none"
    /\ \A i \in b : i.kind = "enter" => i.sig \in Session

\* What is stored: fills and positions follow the intents, a signal has one
\* entry and one exit at most.
Stored ==
    /\ fills = intents \ Kind(intents, "block")
    /\ \A i, j \in fills : i.kind = j.kind /\ i.sig = j.sig => i = j
    /\ \A s \in Signals :
         /\ status[s] # "none" <=> \E i \in fills : i.kind = "enter" /\ i.sig = s
         /\ status[s] = "closed" <=> \E i \in fills : i.kind = "exit" /\ i.sig = s

\* What a cycle holds: a batch as above, then events of stored trades only.
HeldBy(w) ==
    /\ w.pc = "persist" => BatchOK(w.batch)
    /\ w.pc \in {"dispatch", "dryrun", "send", "record"} => w.outbox \subseteq intents
    /\ w.pc \in {"send", "record"} => w.event \in intents \cap Trades
    /\ w.pc = "dryrun" => DryRuns

Held == \A p \in Procs : HeldBy(watcher[p])

\* The processes that are at l with the event of i.
At(l, i) == {p \in Procs : watcher[p].pc = l /\ watcher[p].event = i}

\* Who has sent a notification has it counted; until one send is recorded,
\* every send has a process about to record it or a crash behind it, and after
\* that only the processes that looked the key up before can send it again.
Counted ==
    /\ \A p \in Procs : watcher[p].pc = "record" => sends[watcher[p].event] > 0
    /\ \A i \in Trades :
         /\ i \in recorded => sends[i] > 0 \/ DryRuns
         /\ i \notin recorded => sends[i] <= Cardinality(At("record", i)) + crashes
         /\ i \in recorded => sends[i] + Cardinality(At("send", i))
                                <= Cardinality(Procs) + crashes

IInv == TypeOK /\ Stored /\ WithinLimits /\ Held /\ OnlyDurableSent /\ Counted

-----------------------------------------------------------------------------
(* Lemmas about intents, locals and sets of signals. *)

LEMMA TradeShape ==
  ASSUME NEW i \in Trades
  PROVE  /\ i.kind \in {"enter", "exit"} /\ i.sig \in Signals
         /\ i = Enter(i.sig, i.at) \/ i = Exit(i.sig, i.at) \/ i = Repair(i.sig)
  BY DEF Trades, Enter, Exit, Repair

LEMMA BlockShape ==
  ASSUME NEW i \in Blocks
  PROVE  i.kind = "block" /\ i.sig \in Session
  BY DEF Blocks, StandDown

LEMMA TradesApart == Trades \cap Blocks = {}
  BY TradeShape, BlockShape

LEMMA TradeIn ==
  ASSUME NEW s \in Signals, NEW t \in 0 .. LastInstant
  PROVE  Enter(s, t) \in Trades /\ Exit(s, t) \in Trades /\ Repair(s) \in Trades
<1> DEFINE W(u, v) == {Enter(u, v), Exit(u, v), Repair(u)}
<1>1. Trades = UNION {W(u, v) : u \in Signals, v \in 0 .. LastInstant}
  BY DEF Trades
<1>2. Enter(s, t) \in W(s, t) /\ Exit(s, t) \in W(s, t) /\ Repair(s) \in W(s, t)
  OBVIOUS
<1> HIDE DEF W
<1>3. W(s, t) \subseteq Trades
  BY <1>1
<1> QED
  BY <1>2, <1>3

LEMMA BlockIn ==
  ASSUME NEW s \in Session, NEW t \in 0 .. LastInstant, NEW w \in Reasons
  PROVE  StandDown(s, t, w) \in Blocks
  BY DEF Blocks

LEMMA Fields ==
  ASSUME NEW s, NEW t, NEW w
  PROVE  /\ Enter(s, t).kind = "enter" /\ Enter(s, t).sig = s
         /\ Exit(s, t).kind = "exit" /\ Exit(s, t).sig = s
         /\ Repair(s).kind = "exit" /\ Repair(s).sig = s
         /\ StandDown(s, t, w).kind = "block"
  BY DEF Enter, Exit, Repair, StandDown

LEMMA IdleLocal ==
  /\ Idle \in Locals
  /\ Idle.pc = "idle" /\ Idle.seen = {} /\ Idle.batch = {} /\ Idle.outbox = {}
  /\ Idle.event = None
  BY DEF Idle, Locals

\* Injective functions on a finite set keep its size.
LEMMA SameSize ==
  ASSUME NEW S, NEW f, IsFiniteSet(S), DOMAIN f = S, f \in [S -> {f[x] : x \in S}]
  PROVE  /\ IsFiniteSet({f[x] : x \in S})
         /\ Cardinality({f[x] : x \in S}) = Cardinality(S)
              <=> \A x, y \in S : f[x] = f[y] => x = y
<1> DEFINE T == {f[x] : x \in S}
<1>0. f \in [S -> T] /\ \A y \in T : \E x \in S : f[x] = y
  OBVIOUS
<1> HIDE DEF T
<1>1. f \in Surjection(S, T)
  BY <1>0 DEF Surjection
<1>2. f \in Injection(S, T) <=> \A x, y \in S : f[x] = f[y] => x = y
  BY <1>0 DEF Injection, IsInjective
<1>3. IsFiniteSet(T) /\ (Cardinality(T) = Cardinality(S) <=> f \in Injection(S, T))
  BY <1>1, FS_Surjection
<1> QED
  BY <1>2, <1>3 DEF T

LEMMA Distinct ==
  ASSUME NEW S \in SUBSET Signals
  PROVE  DistinctSymbols(S) <=> \A s, t \in S : Symbol[s] = Symbol[t] => s = t
<1> DEFINE f == [s \in S |-> Symbol[s]]
<1>1. IsFiniteSet(S)
  BY FS_Subset, WatcherAssumption
<1>2. DOMAIN f = S /\ f \in [S -> {f[x] : x \in S}] /\ {f[x] : x \in S} = SymbolsOf(S)
  BY DEF SymbolsOf
<1>3. \A x \in S : f[x] = Symbol[x]
  OBVIOUS
<1> HIDE DEF f
<1>4. Cardinality(SymbolsOf(S)) = Cardinality(S) <=> \A x, y \in S : f[x] = f[y] => x = y
  BY <1>1, <1>2, SameSize
<1> QED
  BY <1>3, <1>4 DEF DistinctSymbols

\* Intents with one signal each are as many as their signals.
LEMMA SignalsOfIntents ==
  ASSUME NEW A, \A i \in A : i.sig \in Signals, \A i, j \in A : i.sig = j.sig => i = j
  PROVE  Of(A) \in SUBSET Signals /\ Cardinality(Of(A)) = Cardinality(A)
<1> DEFINE f == [i \in A |-> i.sig]
<1>1. Of(A) \in SUBSET Signals
  BY DEF Of
<1>2. f \in [A -> Of(A)] /\ (\A s \in Of(A) : \E i \in A : f[i] = s)
      /\ \A i, j \in A : f[i] = f[j] => i = j
  BY DEF Of
<1>3. IsFiniteSet(Of(A))
  BY <1>1, FS_Subset, WatcherAssumption
<1> HIDE DEF f
<1>4. f \in Injection(A, Of(A)) /\ f \in Surjection(A, Of(A))
  BY <1>2 DEF Injection, IsInjective, Surjection
<1>5. Cardinality(A) = Cardinality(Of(A))
  BY <1>3, <1>4, FS_Injection
<1> QED
  BY <1>1, <1>5

LEMMA SignalsAddUp ==
  ASSUME NEW S \in SUBSET Signals, NEW T \in SUBSET Signals
  PROVE  /\ Cardinality(S) \in Nat
         /\ Cardinality(S \cup T) <= Cardinality(S) + Cardinality(T)
         /\ S \subseteq T => Cardinality(S) <= Cardinality(T)
<1>1. IsFiniteSet(S) /\ IsFiniteSet(T) /\ IsFiniteSet(S \cap T)
  BY FS_Subset, WatcherAssumption
<1>2. Cardinality(S) \in Nat /\ Cardinality(T) \in Nat /\ Cardinality(S \cap T) \in Nat
  BY <1>1, FS_CardinalityType
<1>3. Cardinality(S \cup T) = Cardinality(S) + Cardinality(T) - Cardinality(S \cap T)
  BY <1>1, FS_Union
<1>4. S \subseteq T => Cardinality(S) <= Cardinality(T)
  BY <1>1, FS_Subset
<1> QED
  BY <1>2, <1>3, <1>4

-----------------------------------------------------------------------------
(* Types. *)

LEMMA GotoTyped ==
  ASSUME watcher \in [Procs -> Locals], NEW p \in Procs, NEW w \in Locals, Goto(p, w)
  PROVE  /\ watcher' \in [Procs -> Locals] /\ watcher'[p] = w
         /\ \A q \in Procs \ {p} : watcher'[q] = watcher[q]
  BY DEF Goto

\* The local variables of a cycle that decided.
Decided(b, o) == [Idle EXCEPT !.pc = "persist", !.batch = b, !.outbox = o]

LEMMA DecidedTyped ==
  ASSUME NEW b \in SUBSET (Trades \cup Blocks), NEW o \in SUBSET Trades
  PROVE  /\ Decided(b, o) \in Locals
         /\ Decided(b, o).pc = "persist" /\ Decided(b, o).batch = b
         /\ Decided(b, o).outbox = o
  BY IdleLocal DEF Decided, Locals

\* A decision is a batch that is right for the positions it was taken on.
LEMMA DecideBatch ==
  ASSUME TypeOK, NEW p \in Procs, Decide(p)
  PROVE  \E b \in SUBSET (Trades \cup Blocks), o \in SUBSET Trades :
           BatchOK(b) /\ Goto(p, Decided(b, o))
<1> DEFINE seen == watcher[p].seen
           repaired == In("open") \cap reconciled
           held == In("open") \ repaired
           lack(E, X) == NoRoom(E, Cardinality(held \ X), Cardinality(EnteredToday))
<1>1. PICK exits \in SUBSET held, enters \in SUBSET MayEnter(seen),
           refused \in SUBSET (Unentered(seen) \cap Refusable) :
        \E full \in SUBSET (Unentered(seen) \ (enters \cup refused)) :
          Goto(p, Decided(TradesOf(repaired, exits, enters)
                            \cup BlocksOf(refused, full, lack(enters, exits)),
                          Outbox(seen, TradesOf(repaired, exits, enters))))
  BY DEF Decide, Decided
<1>2. PICK full \in SUBSET (Unentered(seen) \ (enters \cup refused)) :
          Goto(p, Decided(TradesOf(repaired, exits, enters)
                            \cup BlocksOf(refused, full, lack(enters, exits)),
                          Outbox(seen, TradesOf(repaired, exits, enters))))
  BY <1>1
<1> DEFINE trades == TradesOf(repaired, exits, enters)
           blocks == BlocksOf(refused, full, lack(enters, exits))
<1>3. /\ exits \subseteq In("open") /\ repaired \subseteq In("open")
      /\ enters \subseteq Session /\ refused \subseteq Session /\ full \subseteq Session
      /\ \A s \in enters : status[s] = "none"
      /\ \A s \in In("open") : s \in Signals /\ status[s] = "open"
      /\ exits \cap repaired = {} /\ now \in 0 .. LastInstant
  BY DEF MayEnter, Unentered, In, TypeOK
<1>4. lack(enters, exits) \subseteq Reasons /\ "policy" \in Reasons
  BY DEF NoRoom, Reasons
<1> HIDE DEF lack, seen, repaired, held
<1>5. \A i \in trades : \/ \E s \in repaired : i = Repair(s)
                        \/ \E s \in exits : i = Exit(s, now)
                        \/ \E s \in enters : i = Enter(s, now)
  BY DEF TradesOf
<1>6. \A i \in blocks : \E s \in Session, w \in Reasons : i = StandDown(s, now, w)
  BY <1>3, <1>4 DEF BlocksOf
<1> HIDE DEF trades, blocks
<1>7. trades \subseteq Trades
  BY <1>3, <1>5, TradeIn DEF Signals
<1>8. blocks \subseteq Blocks
  BY <1>3, <1>6, BlockIn
<1>9. Outbox(seen, trades) \subseteq Trades
  BY <1>7, BlockShape DEF Outbox, Kind, TypeOK, Locals, seen
<1>10. \A i \in trades : \/ i.kind = "exit" /\ i.sig \in repaired /\ i = Repair(i.sig)
                         \/ i.kind = "exit" /\ i.sig \in exits /\ i = Exit(i.sig, now)
                         \/ i.kind = "enter" /\ i.sig \in enters /\ i = Enter(i.sig, now)
  BY <1>5, Fields
<1>11. \A i \in blocks : i.kind = "block"
  BY <1>6, Fields
<1>12. BatchOK(trades \cup blocks)
  BY <1>3, <1>10, <1>11 DEF BatchOK
<1>13. Goto(p, Decided(trades \cup blocks, Outbox(seen, trades)))
  BY <1>2 DEF trades, blocks
<1> QED
  BY <1>7, <1>8, <1>9, <1>12, <1>13

\* A transaction that admits the entries A of the batch b and keeps K of it.
Kept(b, A) == A \cup (b \ Kind(b, "enter")) \cup (b \cap intents)

Transacts(p, A) ==
    LET b == watcher[p].batch
        K == Kept(b, A)
    IN  /\ ~Contradicts(b)
        /\ intents' = intents \cup K
        /\ status' = [s \in Signals |->
              IF s \in Of(Kind(K, "exit")) THEN "closed"
              ELSE IF s \in Of(Kind(K, "enter")) THEN "open"
              ELSE status[s]]
        /\ fills' = fills \cup (K \ Kind(K, "block"))
        /\ UNCHANGED <<now, reconciled, recorded, sends, crashes>>

\* The local variables of a cycle after its transaction.
Sending(mode, o) == [Idle EXCEPT !.pc = mode, !.outbox = o]

LEMMA SendingTyped ==
  ASSUME NEW mode \in {"dispatch", "dryrun"}, NEW o \in SUBSET Trades
  PROVE  /\ Sending(mode, o) \in Locals
         /\ Sending(mode, o).pc = mode /\ Sending(mode, o).outbox = o
  BY IdleLocal DEF Sending, Locals

LEMMA PersistMove ==
  ASSUME NEW p \in Procs, Persist(p)
  PROVE  /\ watcher[p].pc = "persist"
         /\ \E A \in Admissions(watcher[p].batch) : Transacts(p, A)
         /\ \E mode \in {"dispatch", "dryrun"} :
              /\ mode = "dryrun" => DryRuns
              /\ Goto(p, Sending(mode, watcher[p].outbox \cap intents'))
<1>1. PICK A \in Admissions(watcher[p].batch) :
        /\ Transacts(p, A)
        /\ \E mode \in {"dispatch"} \cup (IF DryRuns THEN {"dryrun"} ELSE {}) :
             Goto(p, Sending(mode, Durable(watcher[p].outbox, intents')))
  BY DEF Persist, Transacts, Kept, Sending
<1>2. PICK mode \in {"dispatch"} \cup (IF DryRuns THEN {"dryrun"} ELSE {}) :
        Goto(p, Sending(mode, Durable(watcher[p].outbox, intents')))
  BY <1>1
<1>3. Goto(p, Sending(mode, watcher[p].outbox \cap intents'))
  BY <1>2 DEF Durable
<1>4. mode \in {"dispatch", "dryrun"} /\ (mode = "dryrun" => DryRuns)
  BY <1>2
<1> QED
  BY <1>1, <1>3, <1>4 DEF Persist

\* What the kept intents are, element by element.
LEMMA KeptShape ==
  ASSUME TypeOK, NEW p \in Procs, NEW A \in Admissions(watcher[p].batch),
         BatchOK(watcher[p].batch), Transacts(p, A)
  PROVE  LET b == watcher[p].batch
             K == Kept(b, A)
         IN  /\ K \subseteq b /\ b \subseteq Trades \cup Blocks
             /\ \A i \in A : i \in b /\ i.kind = "enter" /\ i.sig \in Session
             /\ \A i \in A, j \in intents : j.kind = "enter" => j.sig # i.sig
             /\ \A i \in K : i.kind = "enter" => i \in A \/ i \in intents
             /\ \A i \in A : i \in K
             /\ \A i \in b : i.kind = "exit" => i \in K
             /\ \A i \in K : i.kind = "exit" => status[i.sig] # "none"
             /\ \A i \in K : i.kind = "exit" /\ status[i.sig] = "closed" => i \in fills
             /\ \A i \in K : i.kind = "enter" /\ i \in intents => status[i.sig] # "closed"
             /\ \A s \in Signals : s \in Of(Kind(K, "exit"))
                                     <=> \E i \in K : i.kind = "exit" /\ i.sig = s
             /\ \A s \in Signals : s \in Of(Kind(K, "enter"))
                                     <=> \E i \in K : i.kind = "enter" /\ i.sig = s
<1> DEFINE b == watcher[p].batch
           K == Kept(b, A)
<1>1. b \subseteq Trades \cup Blocks
  BY DEF TypeOK, Locals
<1>2. A \subseteq Kind(b, "enter") /\ \A i \in A : i.sig \notin Of(Kind(intents, "enter"))
  BY DEF Admissions, Claims
<1> HIDE DEF b
<1>3. \A i \in A : i \in b /\ i.kind = "enter" /\ i.sig \in Session
  BY <1>2 DEF Kind, BatchOK, b
<1>4. \A i \in A, j \in intents : j.kind = "enter" => j.sig # i.sig
  BY <1>2 DEF Of, Kind
<1>5. K \subseteq b /\ (\A i \in K : i.kind = "enter" => i \in A \/ i \in intents)
      /\ (\A i \in A : i \in K) /\ \A i \in b : i.kind = "exit" => i \in K
  BY <1>3 DEF Kept, Kind
<1> HIDE DEF K
<1>6. /\ \A i \in Kind(b, "enter") \cap intents : status[i.sig] # "closed"
      /\ \A i \in Kind(b, "exit") : status[i.sig] = "closed" => i \in fills
  BY DEF Transacts, Contradicts, b
<1>7. /\ \A i \in K : i.kind = "exit" => status[i.sig] # "none"
      /\ \A i \in K : i.kind = "exit" /\ status[i.sig] = "closed" => i \in fills
      /\ \A i \in K : i.kind = "enter" /\ i \in intents => status[i.sig] # "closed"
  BY <1>5, <1>6 DEF BatchOK, Kind, b
<1>8. \A s, k : s \in Of(Kind(K, k)) <=> \E i \in K : i.kind = k /\ i.sig = s
  BY DEF Of, Kind
<1> QED
  BY <1>1, <1>3, <1>4, <1>5, <1>7, <1>8 DEF b, K

LEMMA PersistStores ==
  ASSUME TypeOK, Stored, NEW p \in Procs, NEW A \in Admissions(watcher[p].batch),
         BatchOK(watcher[p].batch), Transacts(p, A)
  PROVE  Stored'
<1> DEFINE b == watcher[p].batch
           K == Kept(b, A)
<1>1. /\ intents' = intents \cup K
      /\ fills' = fills \cup (K \ Kind(K, "block"))
      /\ \A s \in Signals : status'[s] = IF s \in Of(Kind(K, "exit")) THEN "closed"
                                         ELSE IF s \in Of(Kind(K, "enter")) THEN "open"
                                         ELSE status[s]
  BY DEF Transacts
<1>2. /\ K \subseteq b /\ b \subseteq Trades \cup Blocks
      /\ \A i \in A, j \in intents : j.kind = "enter" => j.sig # i.sig
      /\ \A i \in K : i.kind = "enter" => i \in A \/ i \in intents
      /\ \A i \in K : i.kind = "exit" => status[i.sig] # "none"
      /\ \A i \in K : i.kind = "exit" /\ status[i.sig] = "closed" => i \in fills
      /\ \A i \in K : i.kind = "enter" /\ i \in intents => status[i.sig] # "closed"
      /\ \A s \in Signals : s \in Of(Kind(K, "exit"))
                              <=> \E i \in K : i.kind = "exit" /\ i.sig = s
      /\ \A s \in Signals : s \in Of(Kind(K, "enter"))
                              <=> \E i \in K : i.kind = "enter" /\ i.sig = s
  BY KeptShape
<1>3. \A i, j \in b : i.kind = j.kind /\ i.kind # "block" /\ i.sig = j.sig => i = j
  BY DEF BatchOK
<1> HIDE DEF b, K
<1>4. /\ \A i \in intents : i \in fills <=> i.kind # "block"
      /\ fills \subseteq intents
  BY DEF Stored, Kind
<1>5. \A i \in fills : i.sig \in Signals /\ i.kind \in {"enter", "exit"}
  BY TradeShape DEF TypeOK
<1>6. \A i \in K : i.sig \in Signals /\ i.kind \in {"enter", "exit", "block"}
  BY <1>2, TradeShape, BlockShape DEF Signals
<1>7. fills' = intents' \ Kind(intents', "block")
  BY <1>1 DEF Stored, Kind
<1>8. \A i \in fills' : i \in fills \/ (i \in K /\ i.kind # "block")
  BY <1>1 DEF Kind
<1>9. ASSUME NEW i \in fills', NEW j \in fills', i.kind = j.kind, i.sig = j.sig
      PROVE  i = j
  <2>1. ASSUME NEW f \in fills, NEW k \in K, k.kind = f.kind, k.sig = f.sig
        PROVE  k \in fills
    <3>1. CASE f.kind = "enter"
      BY <1>2, <1>4, <2>1, <3>1
    <3>2. CASE f.kind = "exit"
      BY <1>2, <1>5, <2>1, <3>2 DEF Stored
    <3> QED
      BY <1>5, <3>1, <3>2
  <2>2. i \in fills /\ j \in fills => i = j
    BY <1>9 DEF Stored
  <2>3. i \in K /\ j \in K /\ i.kind # "block" => i = j
    BY <1>2, <1>3, <1>9
  <2> QED
    BY <1>8, <1>9, <2>1, <2>2, <2>3
<1>10. ASSUME NEW s \in Signals
       PROVE  /\ status'[s] # "none" <=> \E i \in fills' : i.kind = "enter" /\ i.sig = s
              /\ status'[s] = "closed" <=> \E i \in fills' : i.kind = "exit" /\ i.sig = s
  <2>1. /\ status[s] # "none" <=> \E i \in fills : i.kind = "enter" /\ i.sig = s
        /\ status[s] = "closed" <=> \E i \in fills : i.kind = "exit" /\ i.sig = s
    BY DEF Stored
  <2>2. \A k : (\E i \in fills' : i.kind = k /\ i.sig = s /\ k # "block")
               <=> \/ \E i \in fills : i.kind = k /\ i.sig = s /\ k # "block"
                   \/ \E i \in K : i.kind = k /\ i.sig = s /\ k # "block"
    BY <1>1, <1>8 DEF Kind
  <2>3. CASE s \in Of(Kind(K, "exit"))
    BY <1>1, <1>2, <2>1, <2>2, <2>3
  <2>4. CASE s \notin Of(Kind(K, "exit")) /\ s \in Of(Kind(K, "enter"))
    <3>1. PICK e \in K : e.kind = "enter" /\ e.sig = s
      BY <1>2, <2>4
    <3>2. status[s] # "closed"
      <4>1. CASE e \in intents
        BY <1>2, <3>1, <4>1
      <4>2. CASE e \in A
        BY <1>2, <1>4, <2>1, <3>1, <4>2, <1>5 DEF Stored
      <4> QED
        BY <1>2, <3>1, <4>1, <4>2
    <3> QED
      BY <1>1, <1>2, <2>1, <2>2, <2>4, <3>1, <3>2
  <2>5. CASE s \notin Of(Kind(K, "exit")) /\ s \notin Of(Kind(K, "enter"))
    BY <1>1, <1>2, <2>1, <2>2, <2>5
  <2> QED
    BY <2>3, <2>4, <2>5
<1> QED
  BY <1>7, <1>9, <1>10 DEF Stored

\* The day's transactions leave every signal within the limits.
LEMMA PersistWithin ==
  ASSUME TypeOK, Stored, WithinLimits, NEW p \in Procs,
         NEW A \in Admissions(watcher[p].batch),
         BatchOK(watcher[p].batch), Transacts(p, A)
  PROVE  /\ WithinLimits'
         /\ Of(A) \in SUBSET Signals
         /\ DistinctSymbols(In("open") \cup Of(A))
         /\ A # {} => /\ Cardinality(In("open") \cup Of(A)) <= MaxOpen
                      /\ Cardinality(EnteredToday \cup Of(A)) <= MaxDaily
<1> DEFINE b == watcher[p].batch
           K == Kept(b, A)
           open == In("open")
<1>1. /\ \A i \in A : i \in b /\ i.kind = "enter" /\ i.sig \in Session
      /\ \A i \in K : i.kind = "enter" => i \in A \/ i \in intents
      /\ \A i \in K : i.kind = "enter" /\ i \in intents => status[i.sig] # "closed"
      /\ \A s \in Signals : s \in Of(Kind(K, "enter"))
                              <=> \E i \in K : i.kind = "enter" /\ i.sig = s
      /\ K \subseteq Trades \cup Blocks
  BY KeptShape
<1>2. /\ \A e \in A : Symbol[e.sig] \notin SymbolsOf(open)
      /\ DistinctSymbols(Of(A))
      /\ RoomFor(A, Cardinality(open), Cardinality(EnteredToday))
  BY DEF Admissions
<1>3. \A i, j \in A : i.sig = j.sig => i = j
  BY <1>1 DEF BatchOK
<1>4. Of(A) \in SUBSET Signals /\ Cardinality(Of(A)) = Cardinality(A)
  BY <1>1, <1>3, SignalsOfIntents DEF Signals
<1>5. Of(A) \in SUBSET Session /\ \A s \in Of(A) : \E e \in A : s = e.sig
  BY <1>1 DEF Of
<1>6. open \in SUBSET Signals /\ EnteredToday \in SUBSET Signals
  BY DEF In, EnteredToday, Signals
<1>7. DistinctSymbols(open \cup Of(A))
  <2>1. \A s, t \in open : Symbol[s] = Symbol[t] => s = t
    BY <1>6, Distinct DEF WithinLimits
  <2>2. \A s, t \in Of(A) : Symbol[s] = Symbol[t] => s = t
    BY <1>2, <1>4, Distinct
  <2>3. \A s \in Of(A), t \in open : Symbol[s] # Symbol[t]
    BY <1>2, <1>5 DEF SymbolsOf
  <2>4. \A s, t \in open \cup Of(A) : Symbol[s] = Symbol[t] => s = t
    BY <2>1, <2>2, <2>3
  <2>5. open \cup Of(A) \in SUBSET Signals
    BY <1>4, <1>6
  <2> QED
    BY <2>4, <2>5, Distinct
<1>8. /\ Cardinality(open \cup Of(A)) <= Cardinality(open) + Cardinality(A)
      /\ Cardinality(EnteredToday \cup Of(A)) <= Cardinality(EnteredToday) + Cardinality(A)
      /\ Cardinality(open) \in Nat /\ Cardinality(A) \in Nat
      /\ Cardinality(EnteredToday) \in Nat
      /\ Cardinality(open \cup Of(A)) \in Nat /\ Cardinality(EnteredToday \cup Of(A)) \in Nat
  <2>1. open \cup Of(A) \in SUBSET Signals /\ EnteredToday \cup Of(A) \in SUBSET Signals
    BY <1>4, <1>6
  <2> QED
    BY <1>4, <1>6, <2>1, SignalsAddUp
<1>9. A # {} => /\ Cardinality(open \cup Of(A)) <= MaxOpen
                /\ Cardinality(EnteredToday \cup Of(A)) <= MaxDaily
  BY <1>2, <1>8, WatcherAssumption DEF RoomFor
<1>10. In("open")' \subseteq open \cup Of(A)
  <2> SUFFICES ASSUME NEW s \in Signals, status'[s] = "open", s \notin Of(A)
               PROVE  status[s] = "open"
    BY DEF In
  <2>1. s \in Of(Kind(K, "enter")) \/ status'[s] = status[s]
    BY DEF Transacts
  <2>2. CASE s \in Of(Kind(K, "enter"))
    <3>1. PICK i \in K : i.kind = "enter" /\ i.sig = s
      BY <1>1, <2>2
    <3>2. i \in intents
      BY <1>1, <3>1 DEF Of
    <3>3. i \in fills
      BY <3>1, <3>2 DEF Stored, Kind
    <3>4. status[s] # "none" /\ status[s] # "closed"
      BY <1>1, <3>1, <3>2, <3>3 DEF Stored
    <3> QED
      BY <3>4 DEF TypeOK
  <2> QED
    BY <2>1, <2>2
<1>11. EnteredToday' \subseteq EnteredToday \cup Of(A)
  <2> SUFFICES ASSUME NEW i \in fills', i.kind = "enter", i.sig \in Session, i.sig \notin Of(A)
               PROVE  i.sig \in EnteredToday
    BY DEF EnteredToday, Of, Kind
  <2>1. i \in fills \/ i \in K
    BY DEF Transacts
  <2>2. i \in fills
    BY <1>1, <2>1 DEF Stored, Kind, Of
  <2> QED
    BY <2>2 DEF EnteredToday, Of, Kind
<1> HIDE DEF open
<1>12. /\ Cardinality(In("open")') <= Cardinality(open \cup Of(A))
       /\ Cardinality(EnteredToday') <= Cardinality(EnteredToday \cup Of(A))
       /\ Cardinality(In("open")') \in Nat /\ Cardinality(EnteredToday') \in Nat
       /\ In("open")' \in SUBSET Signals
  <2>1. /\ open \cup Of(A) \in SUBSET Signals /\ EnteredToday \cup Of(A) \in SUBSET Signals
        /\ In("open")' \in SUBSET Signals /\ EnteredToday' \in SUBSET Signals
    BY <1>4, <1>6, <1>10, <1>11
  <2> QED
    BY <1>10, <1>11, <2>1, SignalsAddUp
<1>13. DistinctSymbols(In("open")')
  <2>1. open \cup Of(A) \in SUBSET Signals
    BY <1>4, <1>6
  <2>2. \A s, t \in open \cup Of(A) : Symbol[s] = Symbol[t] => s = t
    BY <1>7, <2>1, Distinct
  <2>3. \A s, t \in In("open")' : Symbol[s] = Symbol[t] => s = t
    BY <1>10, <2>2
  <2> QED
    BY <1>12, <2>3, Distinct
<1>14. Cardinality(In("open")') <= MaxOpen /\ Cardinality(EnteredToday') <= MaxDaily
  <2>1. A = {} => Of(A) = {}
    BY DEF Of
  <2>2. CASE A = {}
    <3>1. open \cup Of(A) = open /\ EnteredToday \cup Of(A) = EnteredToday
      BY <2>1, <2>2
    <3>2. Cardinality(open) <= MaxOpen /\ Cardinality(EnteredToday) <= MaxDaily
      BY DEF WithinLimits, open
    <3>3. /\ Cardinality(In("open")') <= Cardinality(open)
          /\ Cardinality(EnteredToday') <= Cardinality(EnteredToday)
      BY <1>12, <3>1
    <3> QED
      BY <1>8, <1>12, <3>2, <3>3, WatcherAssumption
  <2>3. CASE A # {}
    BY <1>8, <1>9, <1>12, <2>3, WatcherAssumption
  <2> QED
    BY <2>2, <2>3
<1> QED
  BY <1>4, <1>7, <1>9, <1>13, <1>14 DEF WithinLimits, open

-----------------------------------------------------------------------------
(* The initial states. *)

LEMMA InitIInv == Init => IInv
<1> SUFFICES ASSUME Init PROVE IInv
  OBVIOUS
<1>1. \A s \in Signals : Enter(s, 0) \in Trades
  BY TradeIn, WatcherAssumption
<1>2. \A i \in intents : \E s \in Carried : i = Enter(s, 0)
  BY DEF Init
<1>3. \A i \in intents : /\ i \in Trades /\ i.kind = "enter" /\ i.sig \in Carried
                         /\ i = Enter(i.sig, 0)
  BY <1>1, <1>2, Fields DEF Signals
<1>4. \A s \in Carried : Enter(s, 0) \in intents /\ Enter(s, 0).sig = s
  BY Fields DEF Init
<1>5. TypeOK
  BY <1>3, IdleLocal, WatcherAssumption DEF Init, TypeOK
<1>6. Stored
  BY <1>3, <1>4 DEF Init, Stored, Kind
<1>7. WithinLimits
  <2>1. In("open") = Carried
    BY DEF Init, In, Signals
  <2>2. DistinctSymbols(Carried)
    BY CarriedAssumption DEF DistinctSymbols, SymbolsOf
  <2>3. EnteredToday = {}
    BY <1>3, WatcherAssumption DEF EnteredToday, Of, Kind, Init
  <2> QED
    BY <2>1, <2>2, <2>3, CarriedAssumption, FS_EmptySet, WatcherAssumption DEF WithinLimits
<1>8. \A p \in Procs : watcher[p].pc = "idle"
  BY IdleLocal DEF Init
<1>9. Held
  BY <1>8 DEF Held, HeldBy
<1>10. OnlyDurableSent
  BY DEF Init, OnlyDurableSent
<1>11. Counted
  <2>1. \A l, i : l # "idle" => At(l, i) = {}
    BY <1>8 DEF At
  <2>2. Cardinality(Procs) \in Nat /\ Cardinality(Procs) # 0
    BY WatcherAssumption, FS_CardinalityType, FS_EmptySet
  <2>3. \A i \in Trades : /\ i \in recorded => sends[i] = 1
                          /\ i \notin recorded => sends[i] = 0
    BY DEF Init
  <2>4. crashes = 0 /\ Cardinality({}) = 0
    BY FS_EmptySet DEF Init
  <2>5. \A i : Cardinality(At("record", i)) = 0 /\ Cardinality(At("send", i)) = 0
    BY <2>1, <2>4
  <2> QED
    BY <1>8, <2>2, <2>3, <2>4, <2>5 DEF Counted
<1> QED
  BY <1>5, <1>6, <1>7, <1>9, <1>10, <1>11 DEF IInv

-----------------------------------------------------------------------------
(* The steps. *)

\* Positions and intents only grow.
LEMMA Grows ==
  ASSUME TypeOK, Stored, NEW p \in Procs, HeldBy(watcher[p]), Persist(p)
  PROVE  /\ intents \subseteq intents'
         /\ \A s \in Signals : status[s] # "none" => status'[s] # "none"
<1>1. PICK A \in Admissions(watcher[p].batch) : Transacts(p, A)
  BY PersistMove
<1> QED
  BY <1>1 DEF Transacts

LEMMA BatchStays ==
  ASSUME TypeOK, NEW b \in SUBSET (Trades \cup Blocks), BatchOK(b),
         \A s \in Signals : status[s] # "none" => status'[s] # "none"
  PROVE  BatchOK(b)'
  BY TradeShape, BlockShape DEF BatchOK, Signals

\* A send or a record keeps the rest of what the process holds.
LEMMA LocalMoves ==
  ASSUME NEW w \in Locals
  PROVE  /\ \A e \in Trades : [w EXCEPT !.pc = "send", !.event = e] \in Locals
         /\ [w EXCEPT !.pc = "record"] \in Locals
         /\ \A o \in SUBSET Trades :
              /\ [w EXCEPT !.pc = "dispatch", !.event = None, !.outbox = o] \in Locals
              /\ [w EXCEPT !.outbox = o] \in Locals
  BY DEF Locals

\* The local variables of a cycle that read the intents.
Reading(I) == [Idle EXCEPT !.pc = "decide", !.seen = I]

LEMMA ReadingTyped ==
  ASSUME NEW I \in SUBSET (Trades \cup Blocks)
  PROVE  Reading(I) \in Locals /\ Reading(I).pc = "decide"
  BY IdleLocal DEF Reading, Locals

\* Each step of a cycle leaves its process with something well-typed and well
\* held.
LEMMA CycleMoves ==
  ASSUME TypeOK, Stored, Held, NEW p \in Procs, Cycle(p) \/ DeliverFails(p) \/ Crash(p)
  PROVE  \E w \in Locals : Goto(p, w) /\ HeldBy(w)'
<1> DEFINE v == watcher[p]
<1>1. v \in Locals /\ HeldBy(v)
  BY DEF TypeOK, Held
<1>2. CASE ReadIntents(p)
  <2>1. intents \in SUBSET (Trades \cup Blocks)
    BY DEF TypeOK
  <2>2. Reading(intents) \in Locals /\ Reading(intents).pc = "decide"
    BY <2>1, ReadingTyped
  <2>3. Goto(p, Reading(intents))
    BY <1>2 DEF ReadIntents, Reading
  <2> QED
    BY <2>2, <2>3 DEF HeldBy
<1>3. CASE Decide(p)
  <2>1. PICK b \in SUBSET (Trades \cup Blocks), o \in SUBSET Trades :
          BatchOK(b) /\ Goto(p, Decided(b, o))
    BY <1>3, DecideBatch
  <2>2. UNCHANGED status
    BY <1>3 DEF Decide, db
  <2>3. BatchOK(b)'
    BY <2>1, <2>2 DEF BatchOK
  <2> QED
    BY <2>1, <2>3, DecidedTyped DEF HeldBy
<1>4. CASE Persist(p)
  <2>1. PICK mode \in {"dispatch", "dryrun"} :
          (mode = "dryrun" => DryRuns) /\ Goto(p, Sending(mode, v.outbox \cap intents'))
    BY <1>4, PersistMove
  <2>2. v.outbox \cap intents' \in SUBSET Trades
    BY <1>1 DEF Locals
  <2>3. PICK o \in SUBSET Trades : o \subseteq intents' /\ Goto(p, Sending(mode, o))
    BY <2>1, <2>2
  <2>4. Sending(mode, o) \in Locals /\ Sending(mode, o).pc = mode /\ Sending(mode, o).outbox = o
    BY SendingTyped
  <2>5. HeldBy(Sending(mode, o))'
    BY <2>1, <2>3, <2>4 DEF HeldBy
  <2> QED
    BY <2>3, <2>4, <2>5
<1>5. CASE PersistRaises(p) \/ Finish(p) \/ DeliverFails(p) \/ Crash(p)
  <2>1. Goto(p, Idle)
    BY <1>5 DEF PersistRaises, Finish, DeliverFails, Crash
  <2> QED
    BY <2>1, IdleLocal DEF HeldBy
<1>6. CASE Claim(p)
  <2>1. PICK e \in v.outbox : Goto(p, [v EXCEPT !.pc = "send", !.event = e])
    BY <1>6 DEF Claim
  <2>2. v.pc = "dispatch" /\ UNCHANGED intents
    BY <1>6 DEF Claim, db
  <2> DEFINE w == [v EXCEPT !.pc = "send", !.event = e]
  <2>3. e \in intents \cap Trades
    BY <1>1, <2>2 DEF HeldBy, Locals
  <2>4. w \in Locals /\ w.pc = "send" /\ w.event = e /\ w.outbox = v.outbox
    BY <1>1, <2>3, LocalMoves DEF Locals
  <2>5. Goto(p, w)
    BY <2>1
  <2> HIDE DEF w
  <2> QED
    BY <1>1, <2>2, <2>3, <2>4, <2>5 DEF HeldBy
<1>7. CASE Deliver(p)
  <2> DEFINE w == [v EXCEPT !.pc = "record"]
  <2>1. v.pc = "send" /\ UNCHANGED intents /\ Goto(p, w)
    BY <1>7 DEF Deliver, db
  <2>2. w \in Locals /\ w.pc = "record" /\ w.event = v.event /\ w.outbox = v.outbox
    BY <1>1, LocalMoves DEF Locals
  <2> HIDE DEF w
  <2> QED
    BY <1>1, <2>1, <2>2 DEF HeldBy
<1>8. CASE Record(p)
  <2> DEFINE o == v.outbox \ {v.event}
             w == [v EXCEPT !.pc = "dispatch", !.event = None, !.outbox = o]
  <2>1. v.pc = "record" /\ UNCHANGED intents /\ Goto(p, w)
    BY <1>8 DEF Record, db
  <2>2. o \in SUBSET Trades
    BY <1>1 DEF Locals
  <2>3. w \in Locals /\ w.pc = "dispatch" /\ w.outbox = o
    BY <1>1, <2>2, LocalMoves DEF Locals
  <2> HIDE DEF w
  <2> QED
    BY <1>1, <2>1, <2>3 DEF HeldBy
<1>9. CASE DryRun(p)
  <2>1. PICK e \in v.outbox : Goto(p, [v EXCEPT !.outbox = v.outbox \ {e}])
    BY <1>9 DEF DryRun
  <2> DEFINE o == v.outbox \ {e}
             w == [v EXCEPT !.outbox = o]
  <2>2. v.pc = "dryrun" /\ UNCHANGED intents /\ Goto(p, w)
    BY <1>9, <2>1 DEF DryRun, db
  <2>3. o \in SUBSET Trades
    BY <1>1 DEF Locals
  <2>4. w \in Locals /\ w.pc = "dryrun" /\ w.outbox = o
    BY <1>1, <2>2, <2>3, LocalMoves DEF Locals
  <2> HIDE DEF w
  <2> QED
    BY <1>1, <2>2, <2>4 DEF HeldBy
<1> QED
  BY <1>2, <1>3, <1>4, <1>5, <1>6, <1>7, <1>8, <1>9 DEF Cycle

LEMMA TypeHeldStep ==
  TypeOK /\ Stored /\ Held /\ [Next]_vars => TypeOK' /\ Held'
<1> SUFFICES ASSUME TypeOK, Stored, Held, [Next]_vars
             PROVE  TypeOK' /\ Held'
  OBVIOUS
<1>1. ASSUME NEW p \in Procs, Cycle(p) \/ DeliverFails(p) \/ Crash(p)
      PROVE  TypeOK' /\ Held'
  <2>1. PICK w \in Locals : Goto(p, w) /\ HeldBy(w)'
    BY <1>1, CycleMoves
  <2>2. /\ watcher' \in [Procs -> Locals] /\ watcher'[p] = w
        /\ \A q \in Procs \ {p} : watcher'[q] = watcher[q]
    BY <2>1, GotoTyped DEF TypeOK
  <2>3. /\ intents \subseteq intents'
        /\ \A s \in Signals : status[s] # "none" => status'[s] # "none"
    <3>1. CASE Persist(p)
      BY <3>1, Grows DEF Held
    <3>2. CASE ~Persist(p)
      BY <1>1, <3>2 DEF Cycle, ReadIntents, Decide, PersistRaises, Claim, Deliver, Record,
         DryRun, Finish, DeliverFails, Crash, db
    <3> QED
      BY <3>1, <3>2
  <2>4. Held'
    <3> SUFFICES ASSUME NEW q \in Procs
                 PROVE  HeldBy(watcher[q])'
      BY DEF Held
    <3>1. CASE q = p
      BY <2>1, <2>2, <3>1 DEF HeldBy, BatchOK
    <3>2. CASE q # p
      <4>1. HeldBy(watcher[q]) /\ watcher'[q] = watcher[q] /\ watcher[q] \in Locals
        BY <2>2, <3>2 DEF Held, TypeOK
      <4>2. PICK u \in Locals : u = watcher[q]
        BY <4>1
      <4>3. u.batch \in SUBSET (Trades \cup Blocks)
        BY DEF Locals
      <4>4. BatchOK(u.batch) => BatchOK(u.batch)'
        BY <2>3, <4>3, BatchStays
      <4>5. HeldBy(u)'
        BY <2>3, <4>1, <4>2, <4>4 DEF HeldBy
      <4> QED
        BY <4>1, <4>2, <4>5 DEF HeldBy, BatchOK
    <3> QED
      BY <3>1, <3>2
  <2>5. TypeOK'
    <3>1. CASE Persist(p)
      <4>1. PICK A \in Admissions(watcher[p].batch) : Transacts(p, A)
        BY <3>1, PersistMove
      <4>2. BatchOK(watcher[p].batch)
        BY <3>1 DEF Held, HeldBy, Persist
      <4>3. Kept(watcher[p].batch, A) \subseteq Trades \cup Blocks
        BY <4>1, <4>2, KeptShape
      <4>4. Kept(watcher[p].batch, A) \ Kind(Kept(watcher[p].batch, A), "block") \subseteq Trades
        BY <4>3, BlockShape DEF Kind
      <4> QED
        BY <2>2, <4>1, <4>3, <4>4 DEF TypeOK, Transacts
    <3>2. CASE Deliver(p)
      <4>1. watcher[p].event \in Trades
        BY <3>2 DEF Held, HeldBy, Deliver
      <4>2. sends' = [sends EXCEPT ![watcher[p].event] = @ + 1]
        BY <3>2 DEF Deliver
      <4>3. sends' \in [Trades -> Nat]
        BY <4>1, <4>2 DEF TypeOK
      <4> QED
        BY <2>2, <3>2, <4>3 DEF TypeOK, Deliver, db
    <3>3. CASE Record(p)
      <4>1. watcher[p].event \in Trades
        BY <3>3 DEF Held, HeldBy, Record
      <4> QED
        BY <2>2, <3>3, <4>1 DEF TypeOK, Record, db
    <3>4. CASE DryRun(p)
      <4>1. PICK e \in watcher[p].outbox : recorded' = recorded \cup {e}
        BY <3>4 DEF DryRun
      <4>2. e \in Trades
        BY <4>1 DEF TypeOK, Locals
      <4> QED
        BY <2>2, <3>4, <4>1, <4>2 DEF TypeOK, DryRun, db
    <3>5. CASE Crash(p)
      <4>1. crashes' \in 0 .. MaxCrashes
        BY <3>5, WatcherAssumption DEF Crash, TypeOK
      <4> QED
        BY <2>2, <3>5, <4>1 DEF TypeOK, Crash, db
    <3>6. CASE \/ ReadIntents(p) \/ Decide(p) \/ PersistRaises(p) \/ Claim(p) \/ Finish(p)
               \/ DeliverFails(p)
      <4>1. UNCHANGED <<intents, status, fills, now, reconciled, recorded, sends, crashes>>
        BY <3>6 DEF ReadIntents, Decide, PersistRaises, Claim, Finish, DeliverFails, db
      <4> QED
        BY <2>2, <4>1 DEF TypeOK
    <3> QED
      BY <1>1, <3>1, <3>2, <3>3, <3>4, <3>5, <3>6 DEF Cycle
  <2> QED
    BY <2>4, <2>5
<1>2. CASE Tick \/ (\E s \in Reconcilable : Reconcile(s)) \/ UNCHANGED vars
  <2>1. UNCHANGED <<intents, status, fills, recorded, sends, crashes, watcher>>
    BY <1>2 DEF Tick, Reconcile, vars, db
  <2>2. now' \in 0 .. LastInstant /\ reconciled' \subseteq Signals
    <3>1. CASE Tick
      BY <3>1, WatcherAssumption DEF Tick, TypeOK
    <3>2. CASE \E s \in Reconcilable : Reconcile(s)
      BY <3>2, WatcherAssumption DEF Reconcile, TypeOK
    <3>3. CASE UNCHANGED vars
      BY <3>3 DEF vars, TypeOK
    <3> QED
      BY <1>2, <3>1, <3>2, <3>3
  <2> QED
    BY <2>1, <2>2 DEF TypeOK, Held, HeldBy, BatchOK
<1> QED
  BY <1>1, <1>2 DEF Next

LEMMA StoredStep ==
  TypeOK /\ Stored /\ WithinLimits /\ Held /\ [Next]_vars => Stored' /\ WithinLimits'
<1> SUFFICES ASSUME TypeOK, Stored, WithinLimits, Held, [Next]_vars
             PROVE  Stored' /\ WithinLimits'
  OBVIOUS
<1>1. ASSUME NEW p \in Procs, Persist(p)
      PROVE  Stored' /\ WithinLimits'
  <2>1. PICK A \in Admissions(watcher[p].batch) : Transacts(p, A)
    BY <1>1, PersistMove
  <2>2. BatchOK(watcher[p].batch)
    BY <1>1 DEF Held, HeldBy, Persist
  <2> QED
    BY <2>1, <2>2, PersistStores, PersistWithin
<1>2. CASE UNCHANGED db
  BY <1>2 DEF db, Stored, WithinLimits, In, EnteredToday
<1>3. UNCHANGED db \/ \E p \in Procs : Persist(p)
  BY DEF Next, Cycle, ReadIntents, Decide, PersistRaises, Claim, Deliver, Record, DryRun,
     Finish, DeliverFails, Crash, Tick, Reconcile, vars
<1> QED
  BY <1>1, <1>2, <1>3

\* Only a stored trade is in hand when it is sent.
LEMMA SentStep ==
  TypeOK /\ Stored /\ Held /\ OnlyDurableSent /\ [Next]_vars => OnlyDurableSent'
<1> SUFFICES ASSUME TypeOK, Stored, Held, OnlyDurableSent, [Next]_vars
             PROVE  OnlyDurableSent'
  OBVIOUS
<1>1. intents \subseteq intents'
  <2>1. ASSUME NEW p \in Procs, Persist(p)
        PROVE  intents \subseteq intents'
    BY <2>1, Grows DEF Held
  <2> QED
    BY <2>1 DEF Next, Cycle, ReadIntents, Decide, PersistRaises, Claim, Deliver, Record, DryRun,
       Finish, DeliverFails, Crash, Tick, Reconcile, vars, db
<1>2. CASE UNCHANGED sends
  BY <1>1, <1>2 DEF OnlyDurableSent
<1>3. ASSUME NEW p \in Procs, Deliver(p)
      PROVE  OnlyDurableSent'
  <2>1. watcher[p].event \in intents \cap Trades
    BY <1>3 DEF Held, HeldBy, Deliver
  <2>2. \A i \in Trades : i # watcher[p].event => sends'[i] = sends[i]
    BY <1>3 DEF Deliver, TypeOK
  <2> QED
    BY <1>1, <2>1, <2>2 DEF OnlyDurableSent
<1>4. UNCHANGED sends \/ \E p \in Procs : Deliver(p)
  BY DEF Next, Cycle, ReadIntents, Decide, Persist, PersistRaises, Claim, Record, DryRun,
     Finish, DeliverFails, Crash, Tick, Reconcile, vars
<1> QED
  BY <1>2, <1>3, <1>4

-----------------------------------------------------------------------------
(* Counting sends. *)

LEMMA AtCount ==
  ASSUME NEW i
  PROVE  /\ IsFiniteSet(At("record", i)) /\ IsFiniteSet(At("send", i))
         /\ Cardinality(At("record", i)) \in Nat /\ Cardinality(At("send", i)) \in Nat
         /\ Cardinality(Procs) \in Nat
         /\ Cardinality(At("record", i)) + Cardinality(At("send", i)) <= Cardinality(Procs)
<1> DEFINE R == At("record", i)
           S == At("send", i)
<1>1. R \in SUBSET Procs /\ S \in SUBSET Procs /\ R \cup S \in SUBSET Procs /\ R \cap S = {}
  BY DEF At
<1> HIDE DEF R, S
<1>2. IsFiniteSet(R) /\ IsFiniteSet(S) /\ Cardinality(R \cup S) <= Cardinality(Procs)
  BY <1>1, FS_Subset, WatcherAssumption
<1>3. Cardinality(R) \in Nat /\ Cardinality(S) \in Nat /\ Cardinality(Procs) \in Nat
  BY <1>2, FS_CardinalityType, WatcherAssumption
<1>4. Cardinality(R \cup S) = Cardinality(R) + Cardinality(S) - Cardinality(R \cap S)
  BY <1>2, FS_Union
<1>5. Cardinality(R \cap S) = 0
  BY <1>1, FS_EmptySet
<1> QED
  BY <1>2, <1>3, <1>4, <1>5 DEF R, S

\* The three kinds of moves of one process: it stays out of a place or in it,
\* enters it, or leaves it.
LEMMA AtStays ==
  ASSUME TypeOK, NEW p \in Procs, NEW w, watcher' = [watcher EXCEPT ![p] = w],
         NEW i, NEW l \in {"record", "send"},
         watcher[p].pc = l /\ watcher[p].event = i <=> w.pc = l /\ w.event = i
  PROVE  At(l, i)' = At(l, i)
<1>1. \A q \in Procs : watcher'[q] = IF q = p THEN w ELSE watcher[q]
  BY DEF TypeOK
<1> QED
  BY <1>1 DEF At

LEMMA AtEnters ==
  ASSUME TypeOK, NEW p \in Procs, NEW w, watcher' = [watcher EXCEPT ![p] = w],
         NEW i, NEW l \in {"record", "send"},
         ~(watcher[p].pc = l /\ watcher[p].event = i), w.pc = l, w.event = i
  PROVE  Cardinality(At(l, i)') = Cardinality(At(l, i)) + 1
<1>1. \A q \in Procs : watcher'[q] = IF q = p THEN w ELSE watcher[q]
  BY DEF TypeOK
<1>2. At(l, i)' = At(l, i) \cup {p} /\ p \notin At(l, i)
  BY <1>1 DEF At
<1>3. Cardinality(At(l, i) \cup {p}) = Cardinality(At(l, i)) + 1
  BY <1>2, AtCount, FS_AddElement
<1> QED
  BY <1>2, <1>3

LEMMA AtLeaves ==
  ASSUME TypeOK, NEW p \in Procs, NEW w, watcher' = [watcher EXCEPT ![p] = w],
         NEW i, NEW l \in {"record", "send"},
         watcher[p].pc = l, watcher[p].event = i, ~(w.pc = l /\ w.event = i)
  PROVE  Cardinality(At(l, i)') = Cardinality(At(l, i)) - 1
<1>1. \A q \in Procs : watcher'[q] = IF q = p THEN w ELSE watcher[q]
  BY DEF TypeOK
<1>2. At(l, i)' = At(l, i) \ {p} /\ p \in At(l, i)
  BY <1>1 DEF At
<1>3. Cardinality(At(l, i) \ {p}) = Cardinality(At(l, i)) - 1
  BY <1>2, AtCount, FS_RemoveElement
<1> QED
  BY <1>2, <1>3

\* A process that is neither sending nor recording, before and after.
LEMMA AtSame ==
  ASSUME TypeOK, NEW p \in Procs, NEW w, watcher' = [watcher EXCEPT ![p] = w],
         watcher[p].pc \notin {"record", "send"}, w.pc \notin {"record", "send"}, NEW i
  PROVE  At("record", i)' = At("record", i) /\ At("send", i)' = At("send", i)
  BY AtStays

LEMMA CountedStep ==
  TypeOK /\ Stored /\ Held /\ Counted /\ [Next]_vars => Counted'
<1> SUFFICES ASSUME TypeOK, Stored, Held, Counted, [Next]_vars
             PROVE  Counted'
  OBVIOUS
<1> DEFINE R(i) == Cardinality(At("record", i))
           S(i) == Cardinality(At("send", i))
           N == Cardinality(Procs)
<1>1. \A i : /\ R(i) \in Nat /\ S(i) \in Nat /\ N \in Nat /\ R(i) + S(i) <= N
  BY AtCount
<1>2. \A i \in Trades : sends[i] \in Nat /\ crashes \in Nat
  BY WatcherAssumption DEF TypeOK
<1>3. /\ \A p \in Procs : watcher[p].pc = "record" => sends[watcher[p].event] > 0
      /\ \A i \in Trades :
           /\ i \in recorded => sends[i] > 0 \/ DryRuns
           /\ i \notin recorded => sends[i] <= R(i) + crashes
           /\ i \in recorded => sends[i] + S(i) <= N + crashes
  BY DEF Counted
<1> HIDE DEF R, S, N
<1>4. CASE UNCHANGED <<watcher, sends, recorded, crashes>>
  BY <1>4 DEF Counted, At
<1>5. ASSUME NEW p \in Procs, NEW w \in Locals, watcher' = [watcher EXCEPT ![p] = w],
             watcher[p].pc \notin {"record", "send"}, w.pc \notin {"record", "send"},
             UNCHANGED <<sends, crashes>>,
             \/ UNCHANGED recorded
             \/ DryRuns /\ \E e \in Trades : recorded' = recorded \cup {e}
      PROVE  Counted'
  <2>1. \A i : At("record", i)' = At("record", i) /\ At("send", i)' = At("send", i)
    BY <1>5, AtSame
  <2>2. \A q \in Procs : watcher'[q] = IF q = p THEN w ELSE watcher[q]
    BY <1>5 DEF TypeOK
  <2>3. \A i \in Trades :
          /\ i \in recorded' => sends[i] > 0 \/ DryRuns
          /\ i \notin recorded' => sends[i] <= R(i) + crashes
          /\ i \in recorded' => sends[i] + S(i) <= N + crashes
    BY <1>1, <1>2, <1>3, <1>5
  <2> QED
    BY <1>3, <1>5, <2>1, <2>2, <2>3 DEF Counted, R, S, N
<1>6. ASSUME NEW p \in Procs, NEW w \in Locals, watcher' = [watcher EXCEPT ![p] = w],
             NEW i, i # watcher[p].event \/ watcher[p].pc \notin {"record", "send"},
             i # w.event \/ w.pc \notin {"record", "send"}
      PROVE  At("record", i)' = At("record", i) /\ At("send", i)' = At("send", i)
  BY <1>6, AtStays
<1>7. \A p, q \in Procs : \A w : watcher' = [watcher EXCEPT ![p] = w]
                                  => watcher'[q] = IF q = p THEN w ELSE watcher[q]
  BY DEF TypeOK
<1>8. ASSUME NEW p \in Procs, Claim(p)
      PROVE  Counted'
  <2>1. PICK e \in watcher[p].outbox \ recorded :
          watcher' = [watcher EXCEPT ![p] = [watcher[p] EXCEPT !.pc = "send", !.event = e]]
    BY <1>8 DEF Claim, Goto
  <2> DEFINE w == [watcher[p] EXCEPT !.pc = "send", !.event = e]
  <2>2. watcher[p].pc = "dispatch" /\ UNCHANGED <<sends, recorded, crashes>>
    BY <1>8 DEF Claim
  <2>3. w \in Locals /\ w.pc = "send" /\ w.event = e /\ e \in Trades \ recorded
    <3>1. watcher[p] \in Locals
      BY DEF TypeOK
    <3>2. e \in Trades \ recorded
      BY <2>1, <3>1 DEF Locals
    <3> QED
      BY <3>1, <3>2, LocalMoves DEF Locals
  <2>4. watcher' = [watcher EXCEPT ![p] = w]
    BY <2>1
  <2> HIDE DEF w
  <2>5. \A i : i # e => At("record", i)' = At("record", i) /\ At("send", i)' = At("send", i)
    BY <1>6, <2>2, <2>3, <2>4
  <2>6. At("record", e)' = At("record", e)
    BY <2>2, <2>3, <2>4, AtStays
  <2> QED
    BY <1>3, <1>7, <2>2, <2>3, <2>4, <2>5, <2>6 DEF Counted, R, S, N
<1>9. ASSUME NEW p \in Procs, Deliver(p)
      PROVE  Counted'
  <2>0. PICK e : e = watcher[p].event
    OBVIOUS
  <2> DEFINE w == [watcher[p] EXCEPT !.pc = "record"]
  <2>1. /\ watcher[p].pc = "send" /\ UNCHANGED <<recorded, crashes>>
        /\ sends' = [sends EXCEPT ![e] = sends[e] + 1] /\ e \in Trades
        /\ watcher' = [watcher EXCEPT ![p] = w]
    BY <1>9, <2>0 DEF Deliver, Goto, Held, HeldBy
  <2>2. w \in Locals /\ w.pc = "record" /\ w.event = e
    <3>1. watcher[p] \in Locals
      BY DEF TypeOK
    <3> QED
      BY <2>0, <3>1, LocalMoves DEF Locals
  <2> HIDE DEF w
  <2>3. \A i \in Trades : sends'[i] = IF i = e THEN sends[i] + 1 ELSE sends[i]
    BY <2>1 DEF TypeOK
  <2>4. \A i : i # e => At("record", i)' = At("record", i) /\ At("send", i)' = At("send", i)
    BY <1>6, <2>0, <2>1, <2>2
  <2>5. /\ Cardinality(At("record", e)') = R(e) + 1
        /\ Cardinality(At("send", e)') = S(e) - 1
    <3>1. Cardinality(At("record", e)') = Cardinality(At("record", e)) + 1
      <4>1. ~(watcher[p].pc = "record" /\ watcher[p].event = e)
        BY <2>1
      <4>2. watcher' = [watcher EXCEPT ![p] = w]
        BY <2>1
      <4> QED
        BY <2>2, <4>1, <4>2, AtEnters
    <3>2. Cardinality(At("send", e)') = Cardinality(At("send", e)) - 1
      <4>1. watcher[p].pc = "send" /\ watcher[p].event = e /\ ~(w.pc = "send" /\ w.event = e)
        BY <2>0, <2>1, <2>2
      <4>2. watcher' = [watcher EXCEPT ![p] = w]
        BY <2>1
      <4> QED
        BY <4>1, <4>2, AtLeaves
    <3> QED
      BY <3>1, <3>2 DEF R, S
  <2>6. \A q \in Procs : watcher'[q].pc = "record" => sends'[watcher'[q].event] > 0
    <3> SUFFICES ASSUME NEW q \in Procs, watcher'[q].pc = "record"
                 PROVE  sends'[watcher'[q].event] > 0
      OBVIOUS
    <3>1. CASE q = p
      BY <1>2, <1>7, <2>1, <2>2, <2>3, <3>1
    <3>2. CASE q # p
      <4>1. watcher'[q] = watcher[q]
        BY <1>7, <2>1, <3>2
      <4>2. watcher[q].event \in Trades
        BY <4>1 DEF Held, HeldBy
      <4> QED
        BY <1>2, <1>3, <2>3, <4>1, <4>2
    <3> QED
      BY <3>1, <3>2
  <2>7. ASSUME NEW i \in Trades
        PROVE  /\ i \in recorded => sends'[i] > 0 \/ DryRuns
               /\ i \notin recorded => sends'[i] <= Cardinality(At("record", i)') + crashes
               /\ i \in recorded => sends'[i] + Cardinality(At("send", i)') <= N + crashes
    <3>1. CASE i = e
      BY <1>1, <1>2, <1>3, <2>3, <2>5, <3>1
    <3>2. CASE i # e
      <4>1. sends'[i] = sends[i]
        BY <2>3, <3>2
      <4> QED
        BY <1>3, <2>4, <3>2, <4>1 DEF R, S
    <3> QED
      BY <3>1, <3>2
  <2> QED
    BY <2>1, <2>6, <2>7 DEF Counted, N
<1>10. ASSUME NEW p \in Procs, Record(p)
       PROVE  Counted'
  <2>0. PICK e : e = watcher[p].event
    OBVIOUS
  <2> DEFINE o == watcher[p].outbox \ {e}
             w == [watcher[p] EXCEPT !.pc = "dispatch", !.event = None, !.outbox = o]
  <2>1. /\ watcher[p].pc = "record" /\ UNCHANGED <<sends, crashes>>
        /\ recorded' = recorded \cup {e} /\ e \in Trades
        /\ watcher' = [watcher EXCEPT ![p] = w]
    BY <1>10, <2>0 DEF Record, Goto, Held, HeldBy
  <2>2. watcher[p] \in Locals /\ o \in SUBSET Trades
    BY DEF TypeOK, Locals
  <2> HIDE DEF o
  <2>3. w \in Locals /\ w.pc = "dispatch"
    BY <2>2, LocalMoves DEF Locals
  <2> HIDE DEF w
  <2>4. \A i : i # e => At("record", i)' = At("record", i) /\ At("send", i)' = At("send", i)
    BY <1>6, <2>0, <2>1, <2>3
  <2>5. At("send", e)' = At("send", e)
    BY <2>1, <2>3, AtStays
  <2>6. sends[e] > 0 /\ sends[e] + S(e) <= N + crashes
    BY <1>1, <1>2, <1>3, <2>0, <2>1
  <2> QED
    BY <1>3, <1>7, <2>1, <2>3, <2>4, <2>5, <2>6 DEF Counted, R, S, N
<1>11. ASSUME NEW p \in Procs, DeliverFails(p) \/ Crash(p)
       PROVE  Counted'
  <2>0. PICK e : e = watcher[p].event
    OBVIOUS
  <2>1. /\ watcher' = [watcher EXCEPT ![p] = Idle] /\ UNCHANGED <<sends, recorded>>
        /\ \/ watcher[p].pc = "send" /\ crashes' = crashes
           \/ crashes' = crashes + 1
    BY <1>11 DEF DeliverFails, Crash, Goto
  <2>2. Idle \in Locals /\ Idle.pc = "idle"
    BY IdleLocal
  <2>3. \A i : i # e => At("record", i)' = At("record", i) /\ At("send", i)' = At("send", i)
    BY <1>6, <2>0, <2>1, <2>2
  <2>4. /\ R(e) <= Cardinality(At("record", e)') + (IF watcher[p].pc = "send" THEN 0 ELSE 1)
        /\ Cardinality(At("send", e)') <= S(e)
        /\ Cardinality(At("record", e)') \in Nat /\ Cardinality(At("send", e)') \in Nat
    <3>1. /\ watcher[p].pc = "record" => Cardinality(At("record", e)') = R(e) - 1
          /\ watcher[p].pc # "record" => Cardinality(At("record", e)') = R(e)
          /\ watcher[p].pc = "send" => Cardinality(At("send", e)') = S(e) - 1
          /\ watcher[p].pc # "send" => Cardinality(At("send", e)') = S(e)
      BY <2>0, <2>1, <2>2, AtStays, AtLeaves DEF R, S
    <3>2. /\ watcher[p].pc = "record" => R(e) # 0
          /\ watcher[p].pc = "send" => S(e) # 0
      <4>1. /\ watcher[p].pc = "record" => At("record", e) # {}
            /\ watcher[p].pc = "send" => At("send", e) # {}
        BY <2>0 DEF At
      <4>2. \A T : IsFiniteSet(T) /\ T # {} => Cardinality(T) # 0
        BY FS_EmptySet
      <4> QED
        BY <4>1, <4>2, AtCount DEF R, S
    <3> QED
      BY <1>1, <3>1, <3>2
  <2>5. crashes \in Nat /\ crashes' \in Nat
    BY <2>1, WatcherAssumption DEF TypeOK
  <2>6. ASSUME NEW i \in Trades
        PROVE  /\ i \in recorded => sends[i] > 0 \/ DryRuns
               /\ i \notin recorded => sends[i] <= Cardinality(At("record", i)') + crashes'
               /\ i \in recorded => sends[i] + Cardinality(At("send", i)') <= N + crashes'
    <3>1. CASE i = e
      BY <1>1, <1>2, <1>3, <2>1, <2>4, <2>5, <3>1
    <3>2. CASE i # e
      <4>1. /\ Cardinality(At("record", i)') = R(i) /\ Cardinality(At("send", i)') = S(i)
        BY <2>3, <3>2 DEF R, S
      <4> QED
        BY <1>1, <1>2, <1>3, <2>1, <2>5, <4>1
    <3> QED
      BY <3>1, <3>2
  <2>7. \A q \in Procs : watcher'[q].pc = "record" => sends[watcher'[q].event] > 0
    BY <1>3, <1>7, <2>1, <2>2
  <2> QED
    BY <2>1, <2>6, <2>7 DEF Counted, N
<1>12. ASSUME NEW p \in Procs,
              ReadIntents(p) \/ Decide(p) \/ Persist(p) \/ PersistRaises(p) \/ Finish(p)
       PROVE  Counted'
  <2>1. watcher[p].pc \notin {"record", "send"} /\ UNCHANGED <<sends, recorded, crashes>>
    BY <1>12 DEF ReadIntents, Decide, Persist, PersistRaises, Finish
  <2>2. PICK w \in Locals : Goto(p, w) /\ w.pc \notin {"record", "send"}
    <3>1. CASE ReadIntents(p)
      <4>1. intents \in SUBSET (Trades \cup Blocks)
        BY DEF TypeOK
      <4> QED
        BY <3>1, <4>1, ReadingTyped DEF ReadIntents, Reading
    <3>2. CASE Decide(p)
      BY <3>2, DecideBatch, DecidedTyped
    <3>3. CASE Persist(p)
      <4>1. PICK mode \in {"dispatch", "dryrun"} :
              Goto(p, Sending(mode, watcher[p].outbox \cap intents'))
        BY <3>3, PersistMove
      <4>2. watcher[p].outbox \cap intents' \in SUBSET Trades
        BY DEF TypeOK, Locals
      <4>3. PICK o \in SUBSET Trades : Goto(p, Sending(mode, o))
        BY <4>1, <4>2
      <4> QED
        BY <4>3, SendingTyped
    <3>4. CASE PersistRaises(p) \/ Finish(p)
      BY <3>4, IdleLocal DEF PersistRaises, Finish
    <3> QED
      BY <1>12, <3>1, <3>2, <3>3, <3>4
  <2> QED
    BY <1>5, <2>1, <2>2 DEF Goto
<1>13. ASSUME NEW p \in Procs, DryRun(p)
       PROVE  Counted'
  <2>1. PICK e \in watcher[p].outbox :
          /\ recorded' = recorded \cup {e}
          /\ watcher' = [watcher EXCEPT ![p] =
                           [watcher[p] EXCEPT !.outbox = watcher[p].outbox \ {e}]]
    BY <1>13 DEF DryRun, Goto
  <2> DEFINE o == watcher[p].outbox \ {e}
             w == [watcher[p] EXCEPT !.outbox = o]
  <2>2. watcher[p].pc = "dryrun" /\ UNCHANGED <<sends, crashes>> /\ DryRuns
    BY <1>13 DEF DryRun, Held, HeldBy
  <2>3. watcher[p] \in Locals /\ e \in Trades /\ o \in SUBSET Trades
    BY DEF TypeOK, Locals
  <2> HIDE DEF o
  <2>4. w \in Locals /\ w.pc = "dryrun"
    BY <2>2, <2>3, LocalMoves DEF Locals
  <2>5. watcher' = [watcher EXCEPT ![p] = w]
    BY <2>1 DEF o
  <2> HIDE DEF w
  <2> QED
    BY <1>5, <2>1, <2>2, <2>3, <2>4, <2>5
<1>14. CASE Tick \/ (\E s \in Reconcilable : Reconcile(s)) \/ UNCHANGED vars
  BY <1>4, <1>14 DEF Tick, Reconcile, vars
<1> QED
  BY <1>8, <1>9, <1>10, <1>11, <1>12, <1>13, <1>14 DEF Next, Cycle

\* The inductive invariant.
LEMMA Inductive == Spec => []IInv
<1>1. IInv /\ [Next]_vars => IInv'
  BY TypeHeldStep, StoredStep, SentStep, CountedStep DEF IInv
<1> QED
  BY <1>1, InitIInv, PTL DEF Spec

\* The variables keep their types.
THEOREM TypeCorrect == Spec => []TypeOK
<1>1. IInv => TypeOK
  BY DEF IInv
<1> QED
  BY <1>1, Inductive, PTL

\* Overlapping cycles that decided on stale snapshots never take the portfolio
\* past max_open_positions, one position per symbol, or max_daily_entries.
THEOREM Within == Spec => []WithinLimits
<1>1. IInv => WithinLimits
  BY DEF IInv
<1> QED
  BY <1>1, Inductive, PTL

\* A position has one durable entry, a closed one one durable exit, and every
\* trade intent has its fill.
THEOREM Linked == Spec => []LifecycleLinked
<1>1. ASSUME NEW S, \A x, y \in S : x = y
      PROVE  Cardinality(S) = IF S = {} THEN 0 ELSE 1
  <2>1. S = {} \/ \E x : S = {x}
    BY <1>1
  <2>2. CASE S = {}
    BY <2>2, FS_EmptySet
  <2>3. ASSUME NEW x, S = {x}
        PROVE  Cardinality(S) = 1 /\ S # {}
    BY <2>3, FS_Singleton
  <2> QED
    BY <2>1, <2>2, <2>3
<1>2. IInv => LifecycleLinked
  <2> SUFFICES ASSUME IInv, NEW s \in Signals
               PROVE  /\ fills = intents \ Kind(intents, "block")
                      /\ Cardinality({i \in Kind(fills, "enter") : i.sig = s})
                           = IF status[s] = "none" THEN 0 ELSE 1
                      /\ Cardinality({i \in Kind(fills, "exit") : i.sig = s})
                           = IF status[s] = "closed" THEN 1 ELSE 0
    BY DEF LifecycleLinked, IInv, Stored
  <2> USE DEF IInv, Stored
  <2> DEFINE E == {i \in Kind(fills, "enter") : i.sig = s}
             X == {i \in Kind(fills, "exit") : i.sig = s}
  <2>1. (\A x, y \in E : x = y) /\ (\A x, y \in X : x = y)
    BY DEF Kind
  <2>2. (E = {} <=> status[s] = "none") /\ (X = {} <=> status[s] # "closed")
    BY DEF Kind
  <2> HIDE DEF E, X
  <2>3. Cardinality(E) = (IF E = {} THEN 0 ELSE 1) /\ Cardinality(X) = IF X = {} THEN 0 ELSE 1
    BY <1>1, <2>1
  <2>4. /\ Cardinality(E) = IF status[s] = "none" THEN 0 ELSE 1
        /\ Cardinality(X) = IF status[s] = "closed" THEN 1 ELSE 0
    BY <2>2, <2>3
  <2> QED
    BY <2>4 DEF E, X
<1> QED
  BY <1>2, Inductive, PTL

\* Nobody is told of a trade the ledger does not hold.
THEOREM OnlyDurable == Spec => []OnlyDurableSent
<1>1. IInv => OnlyDurableSent
  BY DEF IInv
<1> QED
  BY <1>1, Inductive, PTL

\* A recorded notification was sent, dry runs aside, and no trade is sent more
\* often than there are processes and crashes.
THEOREM Explained == Spec => []SendsExplained
<1>1. IInv => SendsExplained
  <2> SUFFICES ASSUME IInv, NEW i \in Trades
               PROVE  /\ i \in recorded => sends[i] > 0 \/ DryRuns
                      /\ sends[i] <= Cardinality(Procs) + crashes
    BY DEF SendsExplained
  <2>1. sends[i] \in Nat /\ crashes \in Nat
    BY WatcherAssumption DEF IInv, TypeOK
  <2>2. /\ Cardinality(At("record", i)) \in Nat /\ Cardinality(At("send", i)) \in Nat
        /\ Cardinality(Procs) \in Nat
        /\ Cardinality(At("record", i)) + Cardinality(At("send", i)) <= Cardinality(Procs)
    BY AtCount
  <2>3. /\ i \in recorded => sends[i] > 0 \/ DryRuns
        /\ i \notin recorded => sends[i] <= Cardinality(At("record", i)) + crashes
        /\ i \in recorded => sends[i] + Cardinality(At("send", i))
                               <= Cardinality(Procs) + crashes
    BY DEF IInv, Counted
  <2> QED
    BY <2>1, <2>2, <2>3
<1> QED
  BY <1>1, Inductive, PTL

-----------------------------------------------------------------------------
(* The refinement: a transaction of a cycle is one of the book.            *)

LEMMA SameCount == \A S : Book!Cardinality(S) = Cardinality(S)
  BY DEF Book!Cardinality, Cardinality

LEMMA BookHeld ==
  ASSUME TypeOK, Stored
  PROVE  /\ Book!Held(fills) = In("open")
         /\ Session \cap Book!Sigs(fills, "enter") = EnteredToday
<1>1. \A s, k : s \in Book!Sigs(fills, k) <=> \E i \in fills : i.kind = k /\ i.sig = s
  BY DEF Book!Sigs
<1>2. \A i \in fills : i.sig \in Signals
  BY TradeShape DEF TypeOK
<1>3. Book!Held(fills) = In("open")
  <2>1. Book!Held(fills) \subseteq Signals
    BY <1>1, <1>2 DEF Book!Held
  <2>2. ASSUME NEW s \in Signals
        PROVE  s \in Book!Held(fills) <=> status[s] = "open"
    <3>1. s \in Book!Held(fills) <=> status[s] # "none" /\ status[s] # "closed"
      BY <1>1 DEF Book!Held, Stored
    <3> QED
      BY <3>1 DEF TypeOK
  <2> QED
    BY <2>1, <2>2 DEF In
<1>4. Session \cap Book!Sigs(fills, "enter") = EnteredToday
  BY <1>1 DEF EnteredToday, Of, Kind
<1> QED
  BY <1>3, <1>4

LEMMA PersistRefines ==
  ASSUME TypeOK, Stored, WithinLimits, NEW p \in Procs,
         NEW A \in Admissions(watcher[p].batch),
         BatchOK(watcher[p].batch), Transacts(p, A)
  PROVE  Book!Next
<1> DEFINE b == watcher[p].batch
           K == Kept(b, A)
           new == fills' \ fills
<1>1. /\ K \subseteq b /\ b \subseteq Trades \cup Blocks
      /\ \A i \in A : i \in b /\ i.kind = "enter" /\ i.sig \in Session
      /\ \A i \in A, j \in intents : j.kind = "enter" => j.sig # i.sig
      /\ \A i \in K : i.kind = "enter" => i \in A \/ i \in intents
      /\ \A i \in A : i \in K
      /\ \A i \in K : i.kind = "exit" => status[i.sig] # "none"
      /\ \A i \in K : i.kind = "exit" /\ status[i.sig] = "closed" => i \in fills
  BY KeptShape
<1>2. fills' = fills \cup (K \ Kind(K, "block")) /\ UNCHANGED sends
  BY DEF Transacts
<1>3. \A i, j \in b : i.kind = j.kind /\ i.kind # "block" /\ i.sig = j.sig => i = j
  BY DEF BatchOK
<1> HIDE DEF b, K
<1>4. \A i \in intents : i \in fills <=> i.kind # "block"
  BY DEF Stored, Kind
<1>5. \A i \in new : i \in K /\ i \in b /\ i.kind # "block" /\ i \notin fills
  BY <1>1, <1>2 DEF Kind
<1>6. Book!Sigs(new, "enter") = Of(A)
  <2>1. \A i : i \in A <=> i \in new /\ i.kind = "enter"
    <3>1. ASSUME NEW i \in A
          PROVE  i \in new /\ i.kind = "enter"
      BY <1>1, <1>2, <1>4, <3>1 DEF Kind, Stored
    <3>2. ASSUME NEW i \in new, i.kind = "enter"
          PROVE  i \in A
      BY <1>1, <1>4, <1>5, <3>2
    <3> QED
      BY <3>1, <3>2
  <2> QED
    BY <2>1 DEF Book!Sigs, Of
<1>7. Book!Sigs(new, "exit") \subseteq In("open")
  <2> SUFFICES ASSUME NEW i \in new, i.kind = "exit"
               PROVE  i.sig \in Signals /\ status[i.sig] = "open"
    BY DEF Book!Sigs, In
  <2>1. i \in K /\ i.sig \in Signals
    BY <1>1, <1>5, TradeShape, BlockShape DEF Signals
  <2>2. status[i.sig] # "none" /\ status[i.sig] # "closed"
    BY <1>1, <1>5, <2>1
  <2> QED
    BY <2>1, <2>2 DEF TypeOK
<1>8. Of(A) \subseteq Session \ Book!Sigs(fills, "enter")
  <2> SUFFICES ASSUME NEW i \in A
               PROVE  i.sig \in Session /\ \A j \in fills : j.kind = "enter" => j.sig # i.sig
    BY DEF Of, Book!Sigs
  <2> QED
    BY <1>1 DEF Stored
<1>9. /\ DistinctSymbols(In("open") \cup Of(A))
      /\ A # {} => /\ Cardinality(In("open") \cup Of(A)) <= MaxOpen
                   /\ Cardinality(EnteredToday \cup Of(A)) <= MaxDaily
  BY PersistWithin
<1>10. Of(A) # {} => A # {}
  BY DEF Of
<1>11. \A t, u \in new : t.kind = u.kind /\ t.sig = u.sig => t = u
  BY <1>3, <1>5
<1>12. fills' = fills \cup new
  BY <1>2
<1>13. \A S : Book!Tickers(S) = SymbolsOf(S)
  BY DEF Book!Tickers, SymbolsOf
<1> HIDE DEF new
<1>14. Book!Transact(new)
  BY <1>2, <1>6, <1>7, <1>8, <1>9, <1>10, <1>11, <1>12, <1>13, BookHeld, SameCount
  DEF Book!Transact, DistinctSymbols
<1> QED
  BY <1>14 DEF Book!Next, new

LEMMA DeliverRefines ==
  ASSUME TypeOK, Stored, Held, NEW p \in Procs, Deliver(p)
  PROVE  Book!Next
<1>1. PICK e : e = watcher[p].event
  OBVIOUS
<1>2. e \in Trades /\ e \in intents /\ UNCHANGED fills
  BY <1>1 DEF Deliver, db, Held, HeldBy
<1>3. e \in fills
  BY <1>2, TradeShape DEF Stored, Kind
<1>4. \A i \in Trades : sends'[i] = (IF i = e THEN sends[i] + 1 ELSE sends[i]) /\ sends[i] \in Nat
  BY <1>1 DEF Deliver, TypeOK
<1>5. {i \in Trades : sends'[i] > 0} = {i \in Trades : sends[i] > 0} \cup {e}
  BY <1>2, <1>4
<1>6. Book!Announce(e)
  BY <1>2, <1>5 DEF Book!Announce
<1> QED
  BY <1>3, <1>6 DEF Book!Next

\* The cycles move the fills as whole transactions of one book, and announce
\* what the book holds.
THEOREM Implements == Spec => ImplementsTradeBook
<1>1. Init => Book!Init
  <2> SUFFICES ASSUME Init PROVE Book!Init
    OBVIOUS
  <2>1. \A s \in Carried : Enter(s, 0) \in Trades
    BY TradeIn, WatcherAssumption DEF Signals
  <2> QED
    BY <2>1 DEF Init, Book!Init
<1>2. IInv /\ [Next]_vars => [Book!Next]_<<fills, {i \in Trades : sends[i] > 0}>>
  <2> SUFFICES ASSUME IInv, [Next]_vars
               PROVE  \/ Book!Next
                      \/ UNCHANGED <<fills, {i \in Trades : sends[i] > 0}>>
    OBVIOUS
  <2>1. ASSUME NEW p \in Procs, Persist(p)
        PROVE  Book!Next
    <3>1. PICK A \in Admissions(watcher[p].batch) : Transacts(p, A)
      BY <2>1, PersistMove
    <3>2. BatchOK(watcher[p].batch)
      BY <2>1 DEF IInv, Held, HeldBy, Persist
    <3> QED
      BY <3>1, <3>2, PersistRefines DEF IInv
  <2>2. ASSUME NEW p \in Procs, Deliver(p)
        PROVE  Book!Next
    BY <2>2, DeliverRefines DEF IInv
  <2>3. UNCHANGED <<fills, sends>> \/ \E p \in Procs : Persist(p) \/ Deliver(p)
    BY DEF Next, Cycle, ReadIntents, Decide, PersistRaises, Claim, Record, DryRun,
       Finish, DeliverFails, Crash, Tick, Reconcile, vars, db
  <2> QED
    BY <2>1, <2>2, <2>3
<1> QED
  BY <1>1, <1>2, Inductive, PTL DEF Spec, ImplementsTradeBook, Book!Spec
=============================================================================
