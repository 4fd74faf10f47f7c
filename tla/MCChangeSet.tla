------------------------------ MODULE MCChangeSet ------------------------------
(* Model values for ChangeSet: an upstream repository, one that depends on it *)
(* and one that depends on nothing, and the part of their behaviours that the *)
(* run looks at.                                                              *)
EXTENDS ChangeSet
CONSTANTS up, down, aside, h1, h2, t1, c1, c2, v1, v2
ThreeRepos == {up, down, aside}
DownNeedsUp == [r \in ThreeRepos |-> IF r = down THEN {up} ELSE {}]
NoContracts == {}
TwoHeads == {h1, h2}
OneTip == {t1}
OneCheck == {c1}
TwoChecks == {c1, c2}
TwoReviewers == {v1, v2}

\* Bound: checks, reviews and decisions of every kind while the upstream candidate is
\* alone; with a second candidate, the required check, one reviewer who approves and a
\* validation that holds; next to the independent one, no revision and no recovery;
\* during a recovery, candidates without any evidence.
Plain(r) ==
    /\ ci[r][c2] = "none" /\ reviews[r][v2] = "none"
    /\ reviews[r][v1] \in {"none", "approved"} /\ cleared[r] = {}
Bare(r) == ci[r] = NoChecks /\ reviews[r] = NoReviews /\ cleared[r] = {} /\ head[r] = h1
Slice ==
    /\ members # {up} => evidence = "passed" /\ \A r \in ThreeRepos : Plain(r)
    /\ aside \in members => up \in members /\ down \notin members
    /\ aside \in members => plans = << >> /\ \A r \in ThreeRepos : head[r] = h1
    /\ plans # << >> => \A r \in ThreeRepos : Bare(r)
=============================================================================
