----------------------------- MODULE MCPaperOps -----------------------------
(* Small instances of PaperOps for TLC. *)
EXTENDS PaperOps, TLC

CONSTANTS p, q, a, b

\* a is picked on the first date, b on the second.
MCDayOf == a :> 1 @@ b :> 2

\* Both are picked on the first date.
SameDay == a :> 1 @@ b :> 1

\* a wins what b loses, so the account can return to an earlier value.
MCNet(S) == (IF a \in S THEN 1 ELSE 0) - (IF b \in S THEN 1 ELSE 0)

AllPhases == {"enter", "check", "close"}
\* The processes are interchangeable; no property here is a liveness one.
Symmetry == Permutations({p, q})
=============================================================================
