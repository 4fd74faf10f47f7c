------------------------------- MODULE ChangeSet -------------------------------
(***************************************************************************)
(* One multi-repository ChangeSet: the delivery candidates, the evidence   *)
(* recorded for them, the merge gate, governance decisions, conflict cases *)
(* and recovery plans.                                                     *)
(*                                                                         *)
(*   delivery/domain.py        RepositoryDelivery, ChangeSet, RecoveryPlan *)
(*   delivery/application.py   DeliveryService                             *)
(*   delivery/conflicts.py     PostgresDeliveryConflictCaseStore           *)
(*   review_validation/application.py   validate_for_delivery              *)
(*                                                                         *)
(* Each operation of DeliveryService reads the ChangeSet, builds its       *)
(* successor and stores it if the version it read is still current; that   *)
(* is one step here, and an operation the code refuses (DeliveryConflict)  *)
(* is a step that is not enabled.  Can... names the condition under which  *)
(* an operation is accepted, so that the processes built on this module    *)
(* can also take the refusal.  observe_merge, which checks the upstream    *)
(* candidates on one read and updates on a second, is two steps.           *)
(*                                                                         *)
(* Abstracted: ids, titles, URLs, summaries, timestamps; the provenance    *)
(* ids and the revision history, which only the archive reads.             *)
(***************************************************************************)
EXTENDS Integers, Sequences, FiniteSets, FiniteSetsExt, SequencesExt

CONSTANTS
    Repos,               \* repositories that may join the ChangeSet
    Deps,                \* Deps[r]: depends_on of the candidate of r
    Contracts,           \* <<producer, consumer>> pairs, consumer not planned
    Heads, FirstHead,    \* candidate commits; the one a candidate starts with
    Tips, FirstTip,      \* target branch commits; the one it is based on
    Checks,              \* names of CI checks
    RequiredChecks,      \* required_checks of every candidate
    Reviewers,
    RequiredApprovals,   \* required_approvals of every candidate
    RequireGovernance,   \* the two gates that delivery_auto_enabled turns on
    RequireValidation,
    MaxPlans,            \* bound: recovery plans per ChangeSet
    None                 \* null

ASSUME DepsAssumption == Deps \in [Repos -> SUBSET Repos]
ASSUME HeadAssumption == FirstHead \in Heads /\ FirstTip \in Tips
ASSUME CheckAssumption == RequiredChecks \subseteq Checks
ASSUME ApprovalAssumption == RequiredApprovals \in Nat /\ MaxPlans \in Nat
ASSUME FiniteAssumption == IsFiniteSet(Repos)
ASSUME NoneAssumption == None \notin Heads \cup Checks \cup Repos

VARIABLES
    members,    \* repositories of the ChangeSet; {} before prepare
    order,      \* merge_order
    head,       \* commit_sha
    base,       \* base_sha
    pr,         \* has pull_request_number?
    ci,         \* ci[r][c]: the check's last observation
    lastCheck,  \* the check observed last (ci_checks[-1])
    reviews,    \* reviews[r][v]: the reviewer's last review
    status,     \* RepositoryDeliveryStatus
    mergeSha,   \* has merge_sha?
    csStatus,   \* ChangeSetStatus
    cursor,     \* merge_cursor
    cleared,    \* heads of r whose governance decision on file is READY
    snapshot,   \* candidate_heads of the validation snapshot
    evidence,   \* "passed", "failed" or "expired": what the snapshot says
    cases,      \* candidate head of the OPEN conflict case, or None
    plans,      \* recovery_plans
    merging     \* observe_merge calls that have passed the upstream check

candidateVars == <<members, order, head, base, pr, ci, lastCheck, reviews, status,
                   mergeSha>>
summaryVars == <<csStatus, cursor>>
sideVars == <<cleared, snapshot, evidence, cases, plans, merging>>
csVars == <<candidateVars, summaryVars, sideVars>>

-----------------------------------------------------------------------------
RepoStatus == {"pending", "pr_open", "ci_pending", "ci_failed", "review_pending",
               "review_changes_requested", "ready_to_merge", "merge_requested", "merged"}
SetStatus == {"ready", "delivering", "blocked", "delivered", "compensating",
              "compensated", "manual_intervention"}
CheckResult == {"passed", "failed"}
ReviewState == {"approved", "changes_requested", "dismissed"}
ActionKind == {"retry_runner", "create_revert", "merge_revert", "close_pull_request",
               "revalidate"}
ActionStatus == {"pending", "running", "waiting_worker", "succeeded", "failed", "skipped"}
Finished == {"succeeded", "skipped"}
Action == [kind : ActionKind, repo : Repos \cup {None}, status : ActionStatus]

-----------------------------------------------------------------------------
(* Candidates. *)

\* _readiness_status: what the evidence on file says about the candidate.
Readiness(checks, last, revs) ==
    LET failed == \/ \E c \in RequiredChecks : checks[c] = "failed"
                  \/ RequiredChecks = {} /\ last # None /\ checks[last] = "failed"
        passed == \A c \in RequiredChecks : checks[c] = "passed"
        rejected == \E v \in Reviewers : revs[v] = "changes_requested"
        approved == Cardinality({v \in Reviewers : revs[v] = "approved"}) >= RequiredApprovals
        noCheck == RequiredChecks = {} /\ last = None
    IN  CASE failed -> "ci_failed"
          [] ~failed /\ ~passed -> "ci_pending"
          [] ~failed /\ passed /\ rejected -> "review_changes_requested"
          [] ~failed /\ passed /\ ~rejected /\ ~approved -> "review_pending"
          [] ~failed /\ passed /\ ~rejected /\ approved /\ noCheck -> "ci_pending"
          [] OTHER -> "ready_to_merge"

NoChecks == [c \in Checks |-> "none"]
NoReviews == [v \in Reviewers |-> "none"]

Pending(st, mem) == {r \in mem : st[r] # "merged"}

\* with_repositories: the status is recomputed from the candidates alone ...
DeliveryStatus(st, mem) ==
    IF Pending(st, mem) = {} THEN "delivered"
    ELSE IF \E r \in mem : st[r] \in {"ci_failed", "review_changes_requested"} THEN "blocked"
    ELSE "delivering"

\* Mutant of CursorOf: the cursor is at the last candidate that is not merged.
CursorOf_Last(st, mem, ord) ==
    IF Pending(st, mem) = {} THEN Cardinality(mem)
    ELSE Max({ord[r] : r \in Pending(st, mem)})

\* ... and the cursor waits at the first candidate that is not merged.
CursorOf(st, mem, ord) ==
    IF Pending(st, mem) = {} THEN Cardinality(mem)
    ELSE Min({ord[r] : r \in Pending(st, mem)})

\* Mutant of Refresh: the cursor is left where it is.
Refresh_KeepsCursor(st, mem, ord) ==
    /\ csStatus' = DeliveryStatus(st, mem)
    /\ UNCHANGED cursor

Refresh(st, mem, ord) ==
    /\ csStatus' = DeliveryStatus(st, mem)
    /\ cursor' = CursorOf(st, mem, ord)

\* _update_repository with only the status changed.
SetRepoStatus(r, s) ==
    /\ status' = [status EXCEPT ![r] = s]
    /\ Refresh(status', members, order)

-----------------------------------------------------------------------------
(* prepare and append_candidates. *)

\* round[r] is the round of the loop in _merge_order that places r: the first
\* after the rounds of its dependencies inside the batch S.  A cycle has no such
\* function, and the batch is refused.
IsRounds(S, round) ==
    \A r \in S :
        /\ \A d \in Deps[r] \cap S : round[d] < round[r]
        /\ round[r] = 0 \/ \E d \in Deps[r] \cap S : round[r] = round[d] + 1

\* Mutants of MergeOrders: numbers from the last one used; any order in a batch.
MergeOrders_NoIncrement(S, first) ==
    {o \in [S -> (first - 1) .. (first + Cardinality(S) - 2)] :
        \A r, q \in S : r # q => o[r] # o[q]}
MergeOrders_AnyOrder(S, first) ==
    {o \in [S -> first .. (first + Cardinality(S) - 1)] :
        \A r, q \in S : r # q => o[r] # o[q]}

\* _merge_order / _merge_order_for_append: consecutive numbers from first, round
\* by round.  Inside a round the code sorts by the (random) repository id, so
\* any order may come out.
MergeOrders(S, first) ==
    {o \in [S -> first .. (first + Cardinality(S) - 1)] :
        \E round \in [S -> 0 .. (Cardinality(S) - 1)] :
            /\ IsRounds(S, round)
            /\ \A r, q \in S : r # q => o[r] # o[q]
            /\ \A r, q \in S : round[r] < round[q] => o[r] < o[q]}

Fresh(S) ==
    /\ members' = members \cup S
    /\ \E o \in MergeOrders(S, Cardinality(members)) :
          order' = [r \in Repos |-> IF r \in S THEN o[r] ELSE order[r]]

\* prepare: every dependency is inside the set; the finalizer has frozen the
\* heads and the test results of this first batch into a validation snapshot.
Prepare(S) ==
    /\ members = {} /\ S # {}
    /\ \A r \in S : Deps[r] \subseteq S
    /\ Fresh(S)
    /\ csStatus' = "ready" /\ cursor' = 0
    /\ snapshot' = [r \in Repos |-> IF r \in S THEN head[r] ELSE None]
    /\ evidence' \in {"passed", "failed"}
    /\ UNCHANGED <<head, base, pr, ci, lastCheck, reviews, status, mergeSha,
                   cleared, cases, plans, merging>>

\* append_candidates, for the repositories that are not yet in the set.  The
\* validation snapshot stays the one of the first batch.
Append_(S) ==
    /\ members # {} /\ S # {} /\ S \cap members = {}
    /\ \A r \in S : Deps[r] \subseteq members \cup S
    /\ Fresh(S)
    /\ Refresh(status, members', order')
    /\ UNCHANGED <<head, base, pr, ci, lastCheck, reviews, status, mergeSha, sideVars>>

-----------------------------------------------------------------------------
(* Observations. *)

CanObservePullRequest(r, h) ==
    r \in members /\ h = head[r] /\ status[r] \in {"pending", "pr_open"}

ObservePullRequest(r, h) ==
    /\ CanObservePullRequest(r, h)
    /\ pr' = [pr EXCEPT ![r] = TRUE]
    /\ SetRepoStatus(r, "pr_open")
    /\ UNCHANGED <<members, order, head, base, ci, lastCheck, reviews, mergeSha, sideVars>>

\* observe_ci does not know which head the check ran on, and recomputes the
\* status whatever it was.  (A replay of the observation on file that changes
\* nothing is not stored: a stuttering step.)
CanObserveCI(r) == r \in members /\ pr[r]

ObserveCI(r, c, result) ==
    /\ CanObserveCI(r)
    /\ ci' = [ci EXCEPT ![r] = [@ EXCEPT ![c] = result]]
    /\ lastCheck' = [lastCheck EXCEPT ![r] = c]
    /\ SetRepoStatus(r, Readiness(ci'[r], c, reviews[r]))
    /\ UNCHANGED <<members, order, head, base, pr, reviews, mergeSha, sideVars>>

CanObserveReview(r, h) == r \in members /\ pr[r] /\ h = head[r]

ObserveReview(r, v, state, h) ==
    /\ CanObserveReview(r, h)
    /\ reviews' = [reviews EXCEPT ![r] = [@ EXCEPT ![v] = state]]
    /\ SetRepoStatus(r, Readiness(ci[r], lastCheck[r], reviews'[r]))
    /\ UNCHANGED <<members, order, head, base, pr, ci, lastCheck, mergeSha, sideVars>>

UpstreamMerged(r) == \A d \in Deps[r] : status[d] = "merged"

\* observe_merge, first read: the upstream candidates are merged.
CheckUpstream(r) ==
    /\ r \in members /\ r \notin merging
    /\ UpstreamMerged(r)
    /\ merging' = merging \cup {r}
    /\ UNCHANGED <<candidateVars, summaryVars, cleared, snapshot, evidence, cases, plans>>

\* observe_merge, second read: accepted, or refused because the candidate is
\* not ready.
CanObserveMerge(r) == status[r] \in {"ready_to_merge", "merge_requested"}

RecordMerge(r) ==
    /\ IF CanObserveMerge(r)
       THEN SetRepoStatus(r, "merged") /\ mergeSha' = [mergeSha EXCEPT ![r] = TRUE]
       ELSE UNCHANGED <<status, mergeSha, summaryVars>>
    /\ UNCHANGED <<members, order, head, base, pr, ci, lastCheck, reviews,
                   cleared, snapshot, evidence, cases, plans>>

ObserveMerge(r) ==
    /\ r \in merging
    /\ merging' = merging \ {r}
    /\ RecordMerge(r)

CanRequestMerge(r, h) ==
    r \in members /\ h = head[r] /\ status[r] \in {"ready_to_merge", "merge_requested"}

RequestMerge(r, h) ==
    /\ CanRequestMerge(r, h)
    /\ status[r] # "merge_requested"
    /\ SetRepoStatus(r, "merge_requested")
    /\ UNCHANGED <<members, order, head, base, pr, ci, lastCheck, reviews, mergeSha, sideVars>>

-----------------------------------------------------------------------------
(* Governance, revisions and conflict cases. *)

\* record_governance: the decision for the exact head replaces the one on file.
\* BLOCKED and ROLLBACK_REQUIRED both mean not ready.
RecordGovernance(r, h, ready) ==
    /\ r \in members /\ h = head[r]
    /\ cleared' = [cleared EXCEPT ![r] = IF ready THEN @ \cup {h} ELSE @ \ {h}]
    /\ UNCHANGED <<candidateVars, summaryVars, snapshot, evidence, cases, plans, merging>>

\* record_candidate_revision: a new head starts without evidence and is based on
\* the previous head.  The conflict case of that head is resolved by a second
\* transaction, which a crash may leave out.
CanRevise(r, previous, new) ==
    r \in members /\ status[r] # "merged" /\ previous = head[r] /\ new # head[r]

\* Mutant of Revise: the status is kept.
Revise_KeepsStatus(r, previous, new) ==
    /\ CanRevise(r, previous, new)
    /\ head' = [head EXCEPT ![r] = new]
    /\ base' = [base EXCEPT ![r] = previous]
    /\ ci' = [ci EXCEPT ![r] = NoChecks]
    /\ lastCheck' = [lastCheck EXCEPT ![r] = None]
    /\ reviews' = [reviews EXCEPT ![r] = NoReviews]
    /\ mergeSha' = [mergeSha EXCEPT ![r] = FALSE]
    /\ UNCHANGED <<members, order, pr, status, summaryVars, sideVars>>

Revise(r, previous, new) ==
    /\ CanRevise(r, previous, new)
    /\ head' = [head EXCEPT ![r] = new]
    /\ base' = [base EXCEPT ![r] = previous]
    /\ ci' = [ci EXCEPT ![r] = NoChecks]
    /\ lastCheck' = [lastCheck EXCEPT ![r] = None]
    /\ reviews' = [reviews EXCEPT ![r] = NoReviews]
    /\ status' = [status EXCEPT ![r] = IF pr[r] THEN "pr_open" ELSE "pending"]
    /\ csStatus' = "delivering"
    /\ cursor' = CursorOf(status', members, order)
    /\ mergeSha' = [mergeSha EXCEPT ![r] = FALSE]
    /\ cases' \in {cases, [cases EXCEPT ![r] = IF @ = previous THEN None ELSE @]}
    /\ UNCHANGED <<members, order, pr, cleared, snapshot, evidence, plans, merging>>

\* ensure: one OPEN case per repository; a case of another head is resolved.
OpenCase(r, h) ==
    /\ r \in members
    /\ cases' = [cases EXCEPT ![r] = h]
    /\ UNCHANGED <<candidateVars, summaryVars, cleared, snapshot, evidence, plans, merging>>

\* resolve_for_revision, called with the head of a case that is out of date.
ResolveCase(r) ==
    /\ cases[r] \notin {None, head[r]}
    /\ cases' = [cases EXCEPT ![r] = None]
    /\ UNCHANGED <<candidateVars, summaryVars, cleared, snapshot, evidence, plans, merging>>

\* The validation snapshot runs out, which only the gate would notice.
Expire ==
    /\ RequireValidation
    /\ members # {} /\ evidence = "passed"
    /\ evidence' = "expired"
    /\ UNCHANGED <<candidateVars, summaryVars, cleared, snapshot, cases, plans, merging>>

-----------------------------------------------------------------------------
(* Recovery. *)

\* _recovery_actions for one candidate.
CompensationOf(r) ==
    CASE status[r] = "merged" ->
            << [kind |-> "create_revert", repo |-> r, status |-> "pending"],
               [kind |-> "merge_revert", repo |-> r, status |-> "pending"] >>
      [] status[r] # "merged" /\ pr[r] ->
            << [kind |-> "close_pull_request", repo |-> r, status |-> "pending"] >>
      [] OTHER -> << >>

Revalidate == [kind |-> "revalidate", repo |-> None, status |-> "pending"]

\* Mutant of Reversed: in merge order.
Reversed_MergeOrder(S) ==
    CHOOSE s \in [1 .. Cardinality(S) -> S] :
        \A i, j \in 1 .. Cardinality(S) : i < j => order[s[i]] < order[s[j]]

\* Candidates in reverse merge order.
Reversed(S) ==
    CHOOSE s \in [1 .. Cardinality(S) -> S] :
        \A i, j \in 1 .. Cardinality(S) : i < j => order[s[i]] > order[s[j]]

\* _recovery_actions: the affected candidates in reverse merge order, then a
\* revalidation.
RecoveryActions(scope) ==
    LET affected == Reversed({r \in members : scope = None \/ r = scope})
    IN  FlattenSeq([i \in DOMAIN affected |-> CompensationOf(affected[i])]) \o << Revalidate >>

\* plan_recovery, with the actions of the trigger.
PlanRecovery(actions) ==
    /\ members # {} /\ Len(plans) < MaxPlans
    /\ plans' = Append(plans, actions)
    /\ csStatus' = "compensating"
    /\ UNCHANGED <<candidateVars, cursor, cleared, snapshot, evidence, cases, merging>>

RunnerRecovery(r) == << [kind |-> "retry_runner", repo |-> r, status |-> "pending"] >>

\* RecoveryAction.record: a finished action stays as it is, a waiting one needs
\* the Worker's resolution.
CanRecord(old, new) ==
    CASE old \in Finished       -> new = old
      [] old = "waiting_worker" -> new \in {"running", "succeeded", "failed"}
      [] OTHER                  -> TRUE

Complete(actions) == \A i \in DOMAIN actions : actions[i].status \in Finished

\* Mutant of RecoveryStatus: the last action decides.
RecoveryStatus_Last(actions) ==
    IF actions[Len(actions)].status \in Finished THEN "compensated" ELSE "compensating"

RecoveryStatus(actions) ==
    IF \E i \in DOMAIN actions : actions[i].status = "failed" THEN "manual_intervention"
    ELSE IF Complete(actions) THEN "compensated"
    ELSE "compensating"

\* record_recovery_action(plan p, action i).
RecordRecoveryAction(p, i, new) ==
    /\ p \in DOMAIN plans /\ i \in DOMAIN plans[p]
    /\ CanRecord(plans[p][i].status, new)
    /\ plans' = [plans EXCEPT ![p][i].status = new]
    /\ csStatus' = RecoveryStatus(plans'[p])
    /\ UNCHANGED <<candidateVars, cursor, cleared, snapshot, evidence, cases, merging>>

LastPlanComplete == plans # << >> => Complete(plans[Len(plans)])

-----------------------------------------------------------------------------
(* evaluate_merge_gate. *)

\* validate_for_delivery: the snapshot passed, has not expired, and covers
\* exactly the current heads of exactly the current candidates.
Validated ==
    /\ evidence = "passed"
    /\ \A r \in Repos : snapshot[r] = IF r \in members THEN head[r] ELSE None

GateOpen(r) ==
    /\ r \in members
    /\ cases[r] = None
    /\ status[r] = "ready_to_merge"
    /\ UpstreamMerged(r)
    /\ order[r] <= cursor
    /\ \A q \in members : order[q] < order[r] /\ q \notin Deps[r] => status[q] # "ci_failed"
    /\ LastPlanComplete
    /\ RequireGovernance => head[r] \in cleared[r]
    /\ RequireValidation => Validated
    /\ \A k \in Contracts : k[1] = r => k[2] \in members

\* list_active: the ChangeSets the background loops look at.
Active == members # {} /\ csStatus \notin {"delivered", "compensated"}

-----------------------------------------------------------------------------
Init ==
    /\ members = {}
    /\ order = [r \in Repos |-> 0]
    /\ head = [r \in Repos |-> FirstHead]
    /\ base = [r \in Repos |-> FirstTip]
    /\ pr = [r \in Repos |-> FALSE]
    /\ ci = [r \in Repos |-> NoChecks]
    /\ lastCheck = [r \in Repos |-> None]
    /\ reviews = [r \in Repos |-> NoReviews]
    /\ status = [r \in Repos |-> "pending"]
    /\ mergeSha = [r \in Repos |-> FALSE]
    /\ csStatus = "ready"
    /\ cursor = 0
    /\ cleared = [r \in Repos |-> {}]
    /\ snapshot = [r \in Repos |-> None]
    /\ evidence = "passed"
    /\ cases = [r \in Repos |-> None]
    /\ plans = << >>
    /\ merging = {}

\* The operations as the HTTP API and the background loops call them.
Candidates ==
    \E S \in SUBSET Repos : Prepare(S) \/ Append_(S)
Observations ==
    \E r \in Repos :
        \/ ObservePullRequest(r, head[r])
        \/ \E c \in Checks, result \in CheckResult : ObserveCI(r, c, result)
        \/ \E v \in Reviewers, state \in ReviewState : ObserveReview(r, v, state, head[r])
        \/ CheckUpstream(r) \/ ObserveMerge(r)
        \/ RequestMerge(r, head[r])
Control ==
    \E r \in Repos :
        \/ \E ready \in BOOLEAN : RecordGovernance(r, head[r], ready)
        \/ \E new \in Heads : Revise(r, head[r], new)
        \/ OpenCase(r, head[r]) \/ ResolveCase(r)
Recovery ==
    \/ \E scope \in members \cup {None} : PlanRecovery(RecoveryActions(scope))
    \/ \E r \in members : PlanRecovery(RunnerRecovery(r))
    \/ \E p \in 1 .. MaxPlans, i \in 1 .. (2 * Cardinality(Repos) + 1), new \in ActionStatus :
          RecordRecoveryAction(p, i, new)

Next == Candidates \/ Observations \/ Control \/ Recovery \/ Expire

Spec == Init /\ [][Next]_csVars

-----------------------------------------------------------------------------
(* Properties. *)

TypeOK ==
    /\ members \subseteq Repos
    /\ order \in [Repos -> Nat]
    /\ head \in [Repos -> Heads]
    /\ base \in [Repos -> Heads \cup Tips]
    /\ pr \in [Repos -> BOOLEAN]
    /\ ci \in [Repos -> [Checks -> CheckResult \cup {"none"}]]
    /\ lastCheck \in [Repos -> Checks \cup {None}]
    /\ reviews \in [Repos -> [Reviewers -> ReviewState \cup {"none"}]]
    /\ status \in [Repos -> RepoStatus]
    /\ mergeSha \in [Repos -> BOOLEAN]
    /\ csStatus \in SetStatus
    /\ cursor \in Nat
    /\ cleared \in [Repos -> SUBSET Heads]
    /\ snapshot \in [Repos -> Heads \cup {None}]
    /\ evidence \in {"passed", "failed", "expired"}
    /\ cases \in [Repos -> Heads \cup {None}]
    /\ plans \in Seq(Seq(Action))
    /\ merging \subseteq Repos

\* No candidate is called ready, has its merge requested or is recorded merged
\* unless the checks and reviews on file for its current head satisfy the
\* policy, whatever order observations, requests and revisions come in.
MergeNeedsEvidence ==
    \A r \in members :
        status[r] \in {"ready_to_merge", "merge_requested", "merged"} =>
            pr[r] /\ Readiness(ci[r], lastCheck[r], reviews[r]) = "ready_to_merge"

\* Everything before merge_cursor is merged, the cursor itself is at a candidate
\* that is not (or past the last one), and a ChangeSet is called delivered only
\* when no candidate is left.
CursorExact ==
    members # {} =>
        /\ \A r \in members : order[r] < cursor => status[r] = "merged"
        /\ \/ \E r \in members : order[r] = cursor /\ status[r] # "merged"
           \/ cursor = Cardinality(members) /\ Pending(status, members) = {}
        /\ csStatus = "delivered" => Pending(status, members) = {}

\* The gate lets candidates through one at a time and in merge order: when it is
\* open for a candidate, every candidate before it is merged, and it is open for
\* no other.
SerialMerge ==
    \A r \in Repos : GateOpen(r) =>
        \A q \in members \ {r} :
            /\ order[q] < order[r] => status[q] = "merged"
            /\ ~GateOpen(q)

\* Dependencies come before dependents in the merge order, across batches.
OrderRespectsDeps ==
    \A r \in members : \A d \in Deps[r] : d \in members /\ order[d] < order[r]

\* A ChangeSet is called compensated only when some recovery plan has run to its
\* end, whatever order its actions are reported in and whoever reports them.
CompensatedMeansComplete ==
    csStatus = "compensated" => \E p \in DOMAIN plans : Complete(plans[p])
=============================================================================
