--------------------------- MODULE MCTradeWatcher ---------------------------
(* Small instances of TradeWatcher for TLC. *)
EXTENDS TradeWatcher, TLC

CONSTANTS p, q, a, b, c

\* The carried position has the ticker of one of today's signals.
MCSymbol == a :> "x" @@ b :> "y" @@ c :> "x"

Symmetry == Permutations({p, q})
=============================================================================
