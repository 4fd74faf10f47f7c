---------------------------- MODULE MCPlanExecution ----------------------------
(* Instances of PlanExecution: a repository expanded by the server, and one whose *)
(* own leader plans and reviews, before it, after it or alone.                    *)
EXTENDS PlanExecution, TLC

CONSTANTS a, b, n1, n2, c1, c2

OneThenOther == <<{a}, {b}>>
Alone == <<{b}>>
LedThenServed == <<{b}, {a}>>

\* Calls are alike.
CallSymmetry == Permutations(Callers)
=============================================================================
