----------------------------- MODULE SeedRowsMC -----------------------------
(***************************************************************************)
(* Small instances of SeedRows for TLC.                                    *)
(***************************************************************************)
EXTENDS SeedRows

CONSTANTS f1, f2, f3, a, b, c

\* Tests that contend for the same keys, and two that contend for one beside one
\* that keeps apart.
SharedKeys == [f \in {f1, f2, f3} |-> {a, b}]
MixedKeys == [f \in {f1, f2, f3} |-> IF f = f3 THEN {b, c} ELSE {a}]
=============================================================================
