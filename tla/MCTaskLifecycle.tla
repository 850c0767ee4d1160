-------------------------- MODULE MCTaskLifecycle --------------------------
(***************************************************************************)
(* Task graphs for model checking TaskLifecycle.                           *)
(***************************************************************************)
EXTENDS TaskLifecycle

CONSTANTS a, b, c, d

\* c and d wait for both a and b: the completions of a and b can miss each
\* other.
Join == [t \in Tasks |-> IF t \in {c, d} THEN {a, b} ELSE {}]

\* One completion makes c startable; d, created later, waits for two.
Fork == [t \in Tasks |-> CASE t = c -> {a} [] t = d -> {a, b} [] OTHER -> {}]

\* a before b, for the questions about one task or two.
Pair == [t \in Tasks |-> IF t = b THEN {a} ELSE {}]
=============================================================================
