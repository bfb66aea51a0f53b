------------------------------ MODULE TradeBook ------------------------------
(***************************************************************************)
(* What the trade watcher promises: an append-only book of trades.  A      *)
(* transaction opens and closes positions all at once, each position once  *)
(* and on one ticker, the caps judged on what was open and entered before  *)
(* it; and only trades of the book are announced.  No cycle, snapshot,     *)
(* intent identity, outbox or crash appears here.                          *)
(***************************************************************************)
EXTENDS Naturals, FiniteSets

CONSTANTS
    Session,    \* today's signals
    Symbol,     \* signal -> its ticker
    Opening,    \* the trades of an earlier day whose positions are open
    MaxOpen, MaxDaily

VARIABLES
    trades,     \* records with a kind, "enter" or "exit", and a signal
    told        \* the trades somebody was told of

Sigs(T, k) == {t.sig : t \in {u \in T : u.kind = k}}
Held(T) == Sigs(T, "enter") \ Sigs(T, "exit")
Tickers(S) == {Symbol[s] : s \in S}

Init == trades = Opening /\ told = Opening

\* The trades new are appended.
Transact(new) ==
    LET entries == Sigs(new, "enter")
        exits == Sigs(new, "exit")
        held == Held(trades)
    IN  /\ \A t, u \in new : t.kind = u.kind /\ t.sig = u.sig => t = u
        /\ exits \subseteq held
        /\ entries \subseteq Session \ Sigs(trades, "enter")
        /\ Cardinality(Tickers(held \cup entries)) = Cardinality(held \cup entries)
        /\ entries # {} =>
             /\ Cardinality(held \cup entries) <= MaxOpen
             /\ Cardinality((Session \cap Sigs(trades, "enter")) \cup entries) <= MaxDaily
        /\ trades' = trades \cup new
        /\ UNCHANGED told

Announce(t) == told' = told \cup {t} /\ UNCHANGED trades

Next ==
    \/ Transact(trades' \ trades)
    \/ \E t \in trades : Announce(t)

Spec == Init /\ [][Next]_<<trades, told>>
=============================================================================
