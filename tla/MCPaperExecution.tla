-------------------------- MODULE MCPaperExecution --------------------------
(* Small instances of PaperExecution for TLC. *)
EXTENDS PaperExecution

CONSTANTS a, b

\* Symbol a has a gate-approved and a pilot plan, symbol b a gate plan.
MCSymbols == {a, b}
MCIds == {<<a, "gate">>, <<a, "pilot">>, <<b, "gate">>}

AllFaults == {"read", "write", "crash"}

\* One of them spells 404.
OneLookalike == {<<b, "gate">>}
=============================================================================
