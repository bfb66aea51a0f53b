----------------------------- MODULE PaperBook -----------------------------
(***************************************************************************)
(* What the PaperOps ledger promises its callers: a book of simulated      *)
(* orders that whole transactions move through their life, each order      *)
(* forward only, never past the position cap, the account moving with the  *)
(* closes.  No file, lock, journal or snapshot appears here.               *)
(***************************************************************************)
EXTENDS Integers, FiniteSets

CONSTANTS
    Orders,     \* paper orders; an order and the position it opens share it
    Net(_),     \* net P&L of closing a set of orders' positions
    Cap         \* PaperOpsConfig.max_concurrent_positions

VARIABLES
    stage,      \* order -> "new", "pending", "open", "closed" or "blocked"
    realized    \* realized P&L of the account

Stage == {"new", "pending", "open", "closed", "blocked"}

Staged(f, s) == {o \in Orders : f[o] = s}
At(s) == Staged(stage, s)

\* The orders of S move to stage s.
Moved(f, S, s) == [o \in Orders |-> IF o \in S THEN s ELSE f[o]]

Init ==
    /\ stage = [o \in Orders |-> "new"]
    /\ realized = 0

\* ENTER reserves capacity for the orders it creates.
Enter(created) ==
    /\ created # {} =>
         Cardinality(At("pending") \cup At("open") \cup created) <= Cap
    /\ stage' = Moved(stage, created, "pending")
    /\ UNCHANGED realized

\* CHECK fills or blocks pending orders and closes open ones, all at once;
\* CLOSE only closes.
Check(fills, blocks, closes) ==
    /\ fills # {} => Cardinality(At("open") \cup fills) <= Cap
    /\ stage' = Moved(Moved(Moved(stage, fills, "open"), blocks, "blocked"),
                      closes, "closed")
    /\ realized' = realized + Net(closes)

Next ==
    \/ \E created \in SUBSET At("new") : Enter(created)
    \/ \E fills \in SUBSET At("pending") :
         \E blocks \in SUBSET (At("pending") \ fills) :
            \E closes \in SUBSET (At("open") \cup fills) :
               Check(fills, blocks, closes)

Spec == Init /\ [][Next]_<<stage, realized>>
=============================================================================
