---------------------------- MODULE MCDeliveryLoop -----------------------------
(* Model values for DeliveryLoop: one repository, or an upstream and a        *)
(* downstream one that depends on it, delivered in one batch or in two.        *)
EXTENDS DeliveryLoop
CONSTANTS up, down, h1, h2, t1, t2, c1, v1
OneRepo == {up}
TwoRepos == {up, down}
NoDeps == [r \in OneRepo |-> {}]
DownNeedsUp == [r \in TwoRepos |-> IF r = down THEN {up} ELSE {}]
SingleBatch == <<OneRepo>>
OneBatch == <<TwoRepos>>
TwoBatches == <<{up}, {down}>>
NoContracts == {}
OneHead == {h1}
TwoHeads == {h1, h2}
OneTip == {t1}
TwoTips == {t1, t2}
OneCheck == {c1}
OneReviewer == {v1}
Nobody == {}
Nothing == {}
FailingChecks == {"ci_fails"}
RollbackOnly == {"rollback"}
RollbackAndWebhooks == {"rollback", "webhooks"}
Drifting == {"ci_fails", "webhooks", "head_moves", "target_moves", "command_fails",
             "validation_expires", "human_merges"}
=============================================================================
