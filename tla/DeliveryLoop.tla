------------------------------ MODULE DeliveryLoop -----------------------------
(***************************************************************************)
(* The delivery of one ChangeSet on GitHub: everything that works on it at *)
(* the same time.                                                          *)
(*                                                                         *)
(*   finalizer    scm/plan_delivery.py         prepares and appends        *)
(*   sweep        scm/reconciler.py, delivery.py   reads GitHub, gates     *)
(*   hook         scm/observation_processor.py webhooks and poll results   *)
(*   dispatcher   scm/command_dispatcher.py    performs queued commands    *)
(*   saga         scm/recovery.py, revert.py   runs recovery plans         *)
(*   operator     delivery/application.py      approves, rolls back        *)
(*   GitHub       external                                                 *)
(*                                                                         *)
(* The ChangeSet and its operations are those of module ChangeSet, whose   *)
(* variables these processes share; each remote call and each operation is *)
(* a step of its own.  The lease protocol of the command queue is module   *)
(* SCMCommandQueue: here a command is performed, possibly more than once,  *)
(* and ends accepted or dead (its attempts used up).                       *)
(***************************************************************************)
EXTENDS ChangeSet

CONSTANTS
    Batches,     \* the plan's batches of repositories, delivered one by one
    Occurs      \* what may happen in this instance, see Occurrence

Occurrence == {"ci_fails", "target_moves", "head_moves",
               "validation_expires", "webhooks", "command_fails", "human_merges", "rollback"}

ASSUME BatchAssumption == Batches \in Seq(SUBSET Repos)
ASSUME OccursAssumption == Occurs \subseteq Occurrence

VARIABLES
    pull,       \* GitHub: the pull request of r
    pushed,     \* GitHub: the head of its branch
    target,     \* GitHub: the target branch commit it reports (base.sha)
    run,        \* GitHub: run[r][h]: the results of the check runs on commit h
    given,      \* GitHub: given[r][h]: the latest reviews of commit h
    revert,     \* GitHub: the revert pull request of r
    inbox,      \* facts reported by webhooks or the poller, not yet processed
    queue,      \* provider commands by kind, repository and expected head
    gated,      \* repositories merge_when_allowed has found the gate open for
    sweep,      \* the reconciler's position in reconcile_and_merge
    hook,       \* the observation being processed
    saga,       \* the recovery action being executed
    rollback    \* candidates a rollback request has still to decide on

githubVars == <<pull, pushed, target, run, given, revert, inbox>>
loopVars == <<queue, gated, sweep, hook, saga, rollback>>
vars == <<csVars, githubVars, loopVars>>

-----------------------------------------------------------------------------
Fact(kind, r, of, what, h) ==
    [kind |-> kind, repo |-> r, of |-> of, what |-> what, head |-> h]

Report(f) == inbox' = IF "webhooks" \in Occurs THEN inbox \cup {f} ELSE inbox

FactType ==
    [kind : {"check", "review", "opened", "merged"}, repo : Repos,
     of : Checks \cup Reviewers \cup {None},
     what : CheckResult \cup ReviewState \cup {None}, head : Heads]

PullState == {"none", "draft", "open", "merged", "closed"}
Command == {"merge", "undraft"} \X Repos \X Heads
CommandStatus == {"absent", "pending", "sent", "accepted", "dead"}

Resting == [pc |-> "idle", left |-> {}, pull |-> "none", todo |-> {}]
NoHook == [pc |-> "idle", fact |-> None]
NoAction == [pc |-> "idle", plan |-> 0, action |-> 0, merged |-> {}, outcome |-> "pending"]
NoRollback == [pc |-> "idle", left |-> {}, replay |-> FALSE]

-----------------------------------------------------------------------------
(* GitHub. *)

\* A check run on the pushed head finishes; one that failed may be run again.
CheckFinishes(r, c, result) ==
    /\ pull[r] # "none"
    /\ run[r][pushed[r]][c] # "passed"
    /\ result = "failed" => "ci_fails" \in Occurs
    /\ run' = [run EXCEPT ![r][pushed[r]][c] = result]
    /\ Report(Fact("check", r, c, result, pushed[r]))
    /\ UNCHANGED <<csVars, pull, pushed, target, given, revert, loopVars>>

\* A reviewer who has approved a head leaves it at that.  (Module ChangeSet has
\* reviews taken back.)
ReviewGiven(r, v, state) ==
    /\ pull[r] \in {"draft", "open"}
    /\ given[r][pushed[r]][v] # "approved"
    /\ given' = [given EXCEPT ![r][pushed[r]][v] = state]
    /\ Report(Fact("review", r, v, state, pushed[r]))
    /\ UNCHANGED <<csVars, pull, pushed, target, run, revert, loopVars>>

\* Somebody else merges into the target branch of an open pull request.
TargetMoves(r, t) ==
    /\ "target_moves" \in Occurs
    /\ pull[r] \in {"draft", "open"} /\ t # target[r]
    /\ target' = [target EXCEPT ![r] = t]
    /\ UNCHANGED <<csVars, pull, pushed, run, given, revert, inbox, loopVars>>

\* Somebody pushes another head to the branch. (record_candidate_revision, which would make
\* it the head of the candidate, has no caller: module ChangeSet has revisions.)
HeadMoves(r, h) ==
    /\ "head_moves" \in Occurs
    /\ pull[r] \in {"draft", "open"} /\ h # pushed[r]
    /\ pushed' = [pushed EXCEPT ![r] = h]
    /\ UNCHANGED <<csVars, pull, target, run, given, revert, inbox, loopVars>>

\* Somebody merges the pull request by hand.
HumanMerges(r) ==
    /\ "human_merges" \in Occurs
    /\ pull[r] = "open"
    /\ pull' = [pull EXCEPT ![r] = "merged"]
    /\ Report(Fact("merged", r, None, None, pushed[r]))
    /\ UNCHANGED <<csVars, pushed, target, run, given, revert, loopVars>>

-----------------------------------------------------------------------------
(* The finalizer and the publication of pull requests. *)

NextBatch == {k \in DOMAIN Batches : ~(Batches[k] \subseteq members)}

\* handle_batch: the first batch prepares the ChangeSet; the plan advances to a
\* later one, which is appended, once everything before it is merged.
DeliverBatch ==
    /\ NextBatch # {}
    /\ LET batch == Batches[Min(NextBatch)] IN
          \/ Prepare(batch) /\ evidence' = "passed"
          \/ Append_(batch) /\ \A r \in members : status[r] = "merged"
    /\ UNCHANGED <<githubVars, loopVars>>

\* open_draft_pull_request, called by the finalizer and, for a candidate whose
\* publication broke off, by complete_pending_publications: create the draft on
\* GitHub (an existing one is reused) ...
Publish(r) ==
    /\ Active /\ r \in members
    /\ ~pr[r] /\ status[r] \in {"pending", "pr_open"}
    /\ pushed[r] = head[r]
    /\ pull[r] = "none"
    /\ pull' = [pull EXCEPT ![r] = "draft"]
    /\ Report(Fact("opened", r, None, None, pushed[r]))
    /\ UNCHANGED <<csVars, pushed, target, run, given, revert, loopVars>>

\* ... and record its number.
RecordPublication(r) ==
    /\ pull[r] # "none" /\ ~pr[r]
    /\ ObservePullRequest(r, pushed[r])
    /\ UNCHANGED <<githubVars, loopVars>>

-----------------------------------------------------------------------------
(* Commands. *)

Enqueued(q, kind, r, h) == [q EXCEPT ![<<kind, r, h>>] = IF @ = "absent" THEN "pending" ELSE @]

\* undraft_when_allowed: one command per pull request, whatever the head.
Undraftable(r) ==
    /\ r \in members /\ pr[r]
    /\ status[r] \in {"pr_open", "ci_pending", "review_pending", "ready_to_merge"}
    /\ UpstreamMerged(r)
    /\ \A h \in Heads : queue[<<"undraft", r, h>>] = "absent"

EnqueueUndrafts ==
    queue' = [c \in Command |->
                IF c[1] = "undraft" /\ Undraftable(c[2]) /\ c[3] = head[c[2]]
                THEN "pending" ELSE queue[c]]

\* merge_when_allowed behind the gate: re-read the candidate and the pull
\* request, and enqueue the merge of that head.
EnqueueMerge(r) ==
    /\ r \in gated
    /\ gated' = gated \ {r}
    /\ queue' = IF pull[r] = "open" /\ pushed[r] = head[r]
                THEN Enqueued(queue, "merge", r, head[r]) ELSE queue
    /\ UNCHANGED <<csVars, githubVars, sweep, hook, saga, rollback>>

Become(c, s) == queue' = [queue EXCEPT ![c] = s]

\* A dispatch that fails is retried until its attempts are used up.
DispatchFails(c) ==
    /\ queue[c] \in {"pending", "sent"}
    /\ \E s \in {"pending", "dead"} : Become(c, s)
    /\ UNCHANGED <<csVars, githubVars, gated, sweep, hook, saga, rollback>>

\* _undraft.  A pull request that has left draft needs nothing.
DispatchUndraft(r, h) ==
    /\ queue[<<"undraft", r, h>>] = "pending" /\ pushed[r] = h
    /\ pull' = [pull EXCEPT ![r] = IF @ = "draft" THEN "open" ELSE @]
    /\ Become(<<"undraft", r, h>>, "accepted")
    /\ UNCHANGED <<csVars, pushed, target, run, given, revert, inbox,
                   gated, sweep, hook, saga, rollback>>

\* Mutant of DispatchMerge: the expected head is not compared.
DispatchMerge_AnyHead(r, h) ==
    /\ queue[<<"merge", r, h>>] = "pending"
    /\ pull[r] \in {"open", "merged"}
    /\ pull' = [pull EXCEPT ![r] = "merged"]
    /\ Report(Fact("merged", r, None, None, h))
    /\ Become(<<"merge", r, h>>, "sent")
    /\ UNCHANGED <<csVars, pushed, target, run, given, revert,
                   gated, sweep, hook, saga, rollback>>

\* _dispatch: merge the pull request at the expected head, unless an earlier
\* attempt has.  The gate is not evaluated again.
DispatchMerge(r, h) ==
    /\ queue[<<"merge", r, h>>] = "pending" /\ pushed[r] = h
    /\ pull[r] \in {"open", "merged"}
    /\ pull' = [pull EXCEPT ![r] = "merged"]
    /\ Report(Fact("merged", r, None, None, h))
    /\ Become(<<"merge", r, h>>, "sent")
    /\ UNCHANGED <<csVars, pushed, target, run, given, revert,
                   gated, sweep, hook, saga, rollback>>

\* record_merge_requested, then accept.
DispatchRecords(r, h) ==
    /\ queue[<<"merge", r, h>>] = "sent"
    /\ CanRequestMerge(r, h)
    /\ IF status[r] = "merge_requested" THEN UNCHANGED csVars ELSE RequestMerge(r, h)
    /\ Become(<<"merge", r, h>>, "accepted")
    /\ UNCHANGED <<githubVars, gated, sweep, hook, saga, rollback>>

\* The commands that cannot succeed as things stand, or that meet an outage.
Refused(c) ==
    \/ "command_fails" \in Occurs
    \/ pushed[c[2]] # c[3]
    \/ c[1] = "merge" /\ queue[c] = "pending" /\ pull[c[2]] \notin {"open", "merged"}
    \/ c[1] = "merge" /\ queue[c] = "sent" /\ ~CanRequestMerge(c[2], c[3])

Dispatch(c) ==
    \/ c[1] = "undraft" /\ DispatchUndraft(c[2], c[3])
    \/ c[1] = "merge" /\ (DispatchMerge(c[2], c[3]) \/ DispatchRecords(c[2], c[3]))
    \/ Refused(c) /\ DispatchFails(c)

-----------------------------------------------------------------------------
(* The sweep: reconcile_and_merge for the candidates in merge order. *)

SweepAt == CHOOSE r \in sweep.left : \A q \in sweep.left : order[r] <= order[q]
SweepNext == sweep' = [pc |-> "fetch", left |-> sweep.left \ {SweepAt},
                       pull |-> "none", todo |-> {}]
SweepRaises == sweep' = Resting
SweepGoto(pc) == sweep' = [sweep EXCEPT !.pc = pc]

SweepStart ==
    /\ sweep.pc = "idle" /\ Active
    /\ sweep' = [pc |-> "fetch", left |-> members, pull |-> "none", todo |-> {}]
    /\ UNCHANGED <<csVars, githubVars, queue, gated, hook, saga, rollback>>

\* Mutant of Listed: checks that are still running are listed too.
Listed_NotTerminal(r) ==
    LET checks == run[r][head[r]]
        revs == given[r][head[r]] IN
    {Fact("check", r, c, checks[c], head[r]) : c \in Checks}
    \cup {Fact("review", r, v, revs[v], head[r]) : v \in {v \in Reviewers : revs[v] # "none"}}

\* The evidence GitHub lists for the candidate's head.
Listed(r) ==
    LET checks == run[r][head[r]]
        revs == given[r][head[r]] IN
    {Fact("check", r, c, checks[c], head[r]) : c \in {c \in Checks : checks[c] # "none"}}
    \cup {Fact("review", r, v, revs[v], head[r]) : v \in {v \in Reviewers : revs[v] # "none"}}

\* Read the pull request; a moved target branch (or, alike, a merge conflict)
\* opens a case and ends the candidate's turn.
SweepFetch ==
    LET r == SweepAt
        drift == target[r] # base[r]
    IN
    /\ sweep.pc = "fetch" /\ sweep.left # {}
    /\ IF status[r] = "merged" \/ ~pr[r]
       THEN SweepNext /\ UNCHANGED csVars
       ELSE IF pushed[r] # head[r]
       THEN SweepRaises /\ UNCHANGED csVars
       ELSE IF drift
       THEN SweepNext /\ OpenCase(r, head[r])
       ELSE /\ sweep' = [pc |-> "observe", left |-> sweep.left,
                         pull |-> pull[r], todo |-> Listed(r)]
            /\ IF cases[r] \in {None, head[r]} THEN UNCHANGED csVars ELSE ResolveCase(r)
    /\ UNCHANGED <<githubVars, queue, gated, hook, saga, rollback>>

\* observe_ci and observe_review, for what was listed.
Observe(f) ==
    \/ f.kind = "check" /\ ObserveCI(f.repo, f.of, f.what)
    \/ f.kind = "review" /\ ObserveReview(f.repo, f.of, f.what, f.head)

SweepObserve ==
    /\ sweep.pc = "observe"
    /\ \E f \in sweep.todo :
          /\ f.kind = "review" => \A g \in sweep.todo : g.kind = "review"
          /\ IF head[f.repo] = f.head \/ f.kind = "check"
             THEN Observe(f) /\ sweep' = [sweep EXCEPT !.todo = @ \ {f}]
             ELSE SweepRaises /\ UNCHANGED csVars
    /\ UNCHANGED <<githubVars, queue, gated, hook, saga, rollback>>

\* Mutants of SweepDecide: a pull request that is not open is taken for merged; the
\* sweep leaves merges to the webhooks.
SweepDecide_NotOpen ==
    LET r == SweepAt
        permitted == status[r] = "merge_requested" \/ GateOpen(r)
    IN
    /\ sweep.pc = "observe" /\ sweep.todo = {}
    /\ IF sweep.pull # "open"
       THEN /\ gated' = gated
            /\ IF permitted /\ UpstreamMerged(r) THEN SweepGoto("record") ELSE SweepRaises
       ELSE /\ gated' = IF sweep.pull = "open" /\ GateOpen(r) THEN gated \cup {r} ELSE gated
            /\ SweepNext
    /\ UNCHANGED <<csVars, githubVars, queue, hook, saga, rollback>>
SweepDecide_LeavesMerges ==
    LET r == SweepAt IN
    /\ sweep.pc = "observe" /\ sweep.todo = {}
    /\ gated' = IF sweep.pull = "open" /\ GateOpen(r) THEN gated \cup {r} ELSE gated
    /\ SweepNext
    /\ UNCHANGED <<csVars, githubVars, queue, hook, saga, rollback>>

\* A merged pull request is recorded if the merge was requested or the gate is
\* open, and is a conflict otherwise; an open one is merged if the gate is open.
SweepDecide ==
    LET r == SweepAt
        permitted == status[r] = "merge_requested" \/ GateOpen(r)
    IN
    /\ sweep.pc = "observe" /\ sweep.todo = {}
    /\ IF sweep.pull = "merged"
       THEN /\ gated' = gated
            /\ IF permitted /\ UpstreamMerged(r) THEN SweepGoto("record") ELSE SweepRaises
       ELSE /\ gated' = IF sweep.pull = "open" /\ GateOpen(r) THEN gated \cup {r} ELSE gated
            /\ SweepNext
    /\ UNCHANGED <<csVars, githubVars, queue, hook, saga, rollback>>

\* The second half of observe_merge; refused, it ends the sweep.
SweepRecord ==
    /\ sweep.pc = "record"
    /\ RecordMerge(SweepAt) /\ UNCHANGED merging
    /\ IF CanObserveMerge(SweepAt) THEN SweepNext ELSE SweepRaises
    /\ UNCHANGED <<githubVars, queue, gated, hook, saga, rollback>>

\* Mutant of SweepEnd: drafts are never promoted.
SweepEnd_KeepsDrafts ==
    /\ sweep.pc = "fetch" /\ sweep.left = {}
    /\ SweepRaises
    /\ UNCHANGED <<csVars, githubVars, queue, gated, hook, saga, rollback>>

SweepEnd ==
    /\ sweep.pc = "fetch" /\ sweep.left = {}
    /\ EnqueueUndrafts
    /\ SweepRaises
    /\ UNCHANGED <<csVars, githubVars, gated, hook, saga, rollback>>

Sweep == SweepStart \/ SweepFetch \/ SweepObserve \/ SweepDecide \/ SweepRecord \/ SweepEnd

-----------------------------------------------------------------------------
(* The hook: one observation, from a webhook or the poller, at a time. *)

\* The head check and, for a merge, the upstream check.  (_route looks among active
\* ChangeSets only, unless the observation names its ChangeSet, as the poller's do:
\* one recorded while the ChangeSet was active may be processed later.)
HookRoute(f) ==
    /\ hook.pc = "idle"
    /\ f.repo \in members /\ f.head = head[f.repo]
    /\ f.kind = "merged" => UpstreamMerged(f.repo)
    /\ hook' = [pc |-> "observe", fact |-> f]
    /\ UNCHANGED <<csVars, githubVars, queue, gated, sweep, saga, rollback>>

Acceptable(f) ==
    CASE f.kind = "check"  -> CanObserveCI(f.repo)
      [] f.kind = "review" -> CanObserveReview(f.repo, f.head)
      [] f.kind = "opened" -> CanObservePullRequest(f.repo, f.head)
      [] f.kind = "merged" -> CanObserveMerge(f.repo)

\* The observation is recorded as it is: unlike the sweep, the hook asks for no
\* gate before it records a merge.
HookObserve ==
    LET f == hook.fact IN
    /\ hook.pc = "observe"
    /\ \/ /\ Acceptable(f)
          /\ \/ Observe(f)
             \/ f.kind = "opened" /\ ObservePullRequest(f.repo, f.head)
             \/ f.kind = "merged" /\ RecordMerge(f.repo) /\ UNCHANGED merging
          /\ hook' = [hook EXCEPT !.pc = "tail"]
       \/ /\ ~Acceptable(f)
          /\ hook' = NoHook /\ UNCHANGED csVars
    /\ UNCHANGED <<githubVars, queue, gated, sweep, saga, rollback>>

\* undraft_when_allowed, then merge_ready_repositories; the observation is done.
\* (One that was refused stays in the inbox and is replayed.)
HookTail ==
    /\ hook.pc = "tail"
    /\ EnqueueUndrafts
    /\ gated' = gated \cup {r \in Repos : GateOpen(r)}
    /\ inbox' = inbox \ {hook.fact}
    /\ hook' = NoHook
    /\ UNCHANGED <<csVars, pull, pushed, target, run, given, revert, sweep, saga, rollback>>

-----------------------------------------------------------------------------
(* The recovery saga: one action of the last plan at a time. *)

LastPlan == plans[Len(plans)]
Unfinished == {i \in DOMAIN LastPlan : LastPlan[i].status \notin Finished}

SagaClaim ==
    /\ saga.pc = "idle" /\ Active
    /\ plans # << >> /\ Unfinished # {}
    /\ LET i == Min(Unfinished) IN
          /\ LastPlan[i].status \in {"pending", "running"}
          /\ saga' = [pc |-> "execute", plan |-> Len(plans), action |-> i,
                      merged |-> {r \in members : mergeSha[r]}, outcome |-> "pending"]
          /\ IF LastPlan[i].status = "pending"
             THEN RecordRecoveryAction(Len(plans), i, "running") ELSE UNCHANGED csVars
    /\ UNCHANGED <<githubVars, queue, gated, sweep, hook, rollback>>

SagaAction == plans[saga.plan][saga.action]
SagaReports(outcome) == saga' = [saga EXCEPT !.pc = "record", !.outcome = outcome]

\* close_pull_request: a pull request that was merged meanwhile cannot be closed.
\* The mutant does not notice.
SagaClose_IgnoresMerged(r) ==
    /\ SagaAction.kind = "close_pull_request"
    /\ pull' = [pull EXCEPT ![r] = IF @ = "merged" THEN @ ELSE "closed"]
    /\ UNCHANGED revert
SagaClose(r) ==
    /\ SagaAction.kind = "close_pull_request"
    /\ pull[r] # "merged"
    /\ pull' = [pull EXCEPT ![r] = "closed"]
    /\ UNCHANGED revert

\* create_revert_pull_request, for the merge on record; an existing one is reused.
SagaCreateRevert(r) ==
    /\ SagaAction.kind = "create_revert"
    /\ r \in saga.merged
    /\ revert' = [revert EXCEPT ![r] = IF @ = "none" THEN "open" ELSE @]
    /\ UNCHANGED pull

\* merge_revert_pull_request.
SagaMergeRevert(r) ==
    /\ SagaAction.kind = "merge_revert"
    /\ r \in saga.merged /\ revert[r] # "none"
    /\ revert' = [revert EXCEPT ![r] = "merged"]
    /\ UNCHANGED pull

\* revalidate: re-read GitHub for the repositories the plan acted on.
Planned(actions) == {actions[i].repo : i \in DOMAIN actions} \ {None}
RolledBack(r) ==
    IF r \in saga.merged THEN revert[r] = "merged"
    ELSE ~pr[r] \/ pull[r] \notin {"draft", "open"}

SagaRevalidate ==
    LET acted == Planned(plans[saga.plan])
        scope == IF acted = {} THEN members ELSE acted IN
    /\ SagaAction.kind = "revalidate"
    /\ \A r \in scope : RolledBack(r)
    /\ UNCHANGED <<pull, revert>>

SagaActs ==
    \/ SagaRevalidate
    \/ \E r \in Repos :
          /\ SagaAction.repo = r
          /\ SagaClose(r) \/ SagaCreateRevert(r) \/ SagaMergeRevert(r)

\* A revert that conflicts is handed to a Worker, one whose checks are not done is
\* tried again on the next interval.
SagaPostpones(outcome) ==
    \/ outcome = "waiting_worker" /\ SagaAction.kind \in {"create_revert", "merge_revert"}
    \/ outcome = "pending" /\ SagaAction.kind = "merge_revert"

\* Any call may raise, because GitHub refuses it or does not answer, and an answer
\* may be lost after the call has taken effect.
SagaExecute ==
    /\ saga.pc = "execute"
    /\ \/ SagaActs /\ (SagaReports("succeeded") \/ SagaReports("failed"))
       \/ /\ \E outcome \in {"failed", "pending", "waiting_worker"} :
                /\ outcome # "failed" => SagaPostpones(outcome)
                /\ SagaReports(outcome)
          /\ UNCHANGED <<pull, revert>>
    /\ UNCHANGED <<csVars, pushed, target, run, given, inbox,
                   queue, gated, sweep, hook, rollback>>

SagaRecord ==
    /\ saga.pc = "record"
    /\ IF CanRecord(SagaAction.status, saga.outcome)
       THEN RecordRecoveryAction(saga.plan, saga.action, saga.outcome)
       ELSE UNCHANGED csVars
    /\ saga' = NoAction
    /\ UNCHANGED <<githubVars, queue, gated, sweep, hook, rollback>>

\* The process dies; the action stays running and is executed again.
SagaCrash ==
    /\ saga.pc # "idle"
    /\ saga' = NoAction
    /\ UNCHANGED <<csVars, githubVars, queue, gated, sweep, hook, rollback>>

\* A Worker repairs a conflicting revert: it opens it, or merges it by hand.
Repaired(a) ==
    [revert EXCEPT ![a.repo] =
        IF a.kind = "merge_revert" \/ @ = "merged" THEN "merged" ELSE "open"]

\* The Worker reports on the revert, and reports success only of what it has done on
\* GitHub; an operator has a failed action tried again.
ActionReported(p, i) ==
    /\ p \in DOMAIN plans /\ i \in DOMAIN plans[p]
    /\ \/ /\ plans[p][i].status = "waiting_worker"
          /\ \/ /\ RecordRecoveryAction(p, i, "succeeded")
                /\ revert' = Repaired(plans[p][i])
             \/ /\ \E s \in {"running", "failed"} : RecordRecoveryAction(p, i, s)
                /\ revert' \in {revert, Repaired(plans[p][i])}
       \/ /\ plans[p][i].status = "failed"
          /\ RecordRecoveryAction(p, i, "pending")
          /\ UNCHANGED revert
    /\ UNCHANGED <<pull, pushed, target, run, given, inbox, loopVars>>

Saga == SagaClaim \/ SagaExecute \/ SagaRecord

-----------------------------------------------------------------------------
(* The operator. *)

\* Approve a candidate.  (Nobody approves what is being rolled back, or where no
\* approval is needed.)
Approve(r) ==
    /\ RequireGovernance
    /\ plans = << >> /\ rollback.pc = "idle"
    /\ head[r] \notin cleared[r]
    /\ RecordGovernance(r, head[r], TRUE)
    /\ UNCHANGED <<githubVars, loopVars>>

\* DeliveryRollbackService.request: refused while a plan is running, unless it
\* repeats the request of that plan ...
RollbackStart ==
    /\ "rollback" \in Occurs
    /\ rollback.pc = "idle" /\ members # {}
    /\ \E replay \in BOOLEAN :
          /\ IF replay THEN plans # << >> ELSE LastPlanComplete /\ Len(plans) < MaxPlans
          /\ rollback' = [pc |-> "decide", replay |-> replay,
                          left |-> {<<r, head[r]>> : r \in members}]
    /\ UNCHANGED <<csVars, githubVars, queue, gated, sweep, hook, saga>>

RollbackEnds == rollback' = NoRollback

\* ... it records a decision for each candidate, in merge order, at the head it
\* read; a head that has moved ends the request half done ...
RollbackDecide ==
    /\ rollback.pc = "decide"
    /\ \E d \in rollback.left :
          /\ \A e \in rollback.left : order[d[1]] <= order[e[1]]
          /\ IF d[2] = head[d[1]]
             THEN /\ RecordGovernance(d[1], d[2], FALSE)
                  /\ rollback' = [rollback EXCEPT !.left = @ \ {d}]
             ELSE RollbackEnds /\ UNCHANGED csVars
    /\ UNCHANGED <<githubVars, queue, gated, sweep, hook, saga>>

\* ... and plans the recovery from the candidates as they are by then.
RollbackPlan ==
    /\ rollback.pc = "decide" /\ rollback.left = {}
    /\ IF rollback.replay THEN UNCHANGED csVars ELSE PlanRecovery(RecoveryActions(None))
    /\ RollbackEnds
    /\ UNCHANGED <<githubVars, queue, gated, sweep, hook, saga>>

\* A lost version race or a crash ends the request between two of its writes.
RollbackBreaksOff ==
    /\ rollback.pc = "decide"
    /\ RollbackEnds
    /\ UNCHANGED <<csVars, githubVars, queue, gated, sweep, hook, saga>>

Rollback == RollbackStart \/ RollbackDecide \/ RollbackPlan \/ RollbackBreaksOff

ValidationExpires ==
    /\ "validation_expires" \in Occurs
    /\ Expire
    /\ UNCHANGED <<githubVars, loopVars>>

-----------------------------------------------------------------------------
LoopInit ==
    /\ Init
    /\ pull = [r \in Repos |-> "none"]
    /\ pushed = head
    /\ target = base
    /\ run = [r \in Repos |-> [h \in Heads |-> NoChecks]]
    /\ given = [r \in Repos |-> [h \in Heads |-> NoReviews]]
    /\ revert = [r \in Repos |-> "none"]
    /\ inbox = {}
    /\ queue = [c \in Command |-> "absent"]
    /\ gated = {}
    /\ sweep = Resting
    /\ hook = NoHook
    /\ saga = NoAction
    /\ rollback = NoRollback

GitHub ==
    \E r \in Repos :
        \/ \E c \in Checks, result \in CheckResult : CheckFinishes(r, c, result)
        \/ \E v \in Reviewers, state \in ReviewState : ReviewGiven(r, v, state)
        \/ \E t \in Tips : TargetMoves(r, t)
        \/ \E h \in Heads : HeadMoves(r, h)
        \/ HumanMerges(r)
Finalizer == DeliverBatch \/ \E r \in Repos : Publish(r) \/ RecordPublication(r)
Hook == HookObserve \/ HookTail \/ \E f \in inbox : HookRoute(f)
People ==
    \/ \E r \in Repos : Approve(r)
    \/ \E p \in 1 .. MaxPlans, i \in 1 .. (2 * Cardinality(Repos)) : ActionReported(p, i)

LoopNext ==
    \/ GitHub \/ Finalizer \/ Sweep \/ Hook \/ Saga \/ SagaCrash
    \/ \E r \in Repos : EnqueueMerge(r)
    \/ \E c \in Command : Dispatch(c)
    \/ People \/ Rollback \/ ValidationExpires

\* The loops of the server keep running; the plan's batches get delivered once
\* they are due, checks finish, reviewers and operators approve.  Nothing is
\* assumed of webhooks: the sweep has to do without them.
LoopFairness ==
    /\ WF_vars(Sweep)
    /\ \A c \in Command : WF_vars(Dispatch(c))
    /\ WF_vars(Saga)
    /\ \A r \in Repos : WF_vars(EnqueueMerge(r))
    /\ WF_vars(Finalizer)
    /\ \A r \in Repos, c \in Checks : WF_vars(CheckFinishes(r, c, "passed"))
    /\ \A r \in Repos, v \in Reviewers : WF_vars(ReviewGiven(r, v, "approved"))
    /\ \A r \in Repos : WF_vars(Approve(r))

LoopSpec == LoopInit /\ [][LoopNext]_vars /\ LoopFairness

-----------------------------------------------------------------------------
(* Properties. *)

LoopTypeOK ==
    /\ TypeOK
    /\ pull \in [Repos -> PullState]
    /\ pushed \in [Repos -> Heads]
    /\ target \in [Repos -> Tips]
    /\ run \in [Repos -> [Heads -> [Checks -> CheckResult \cup {"none"}]]]
    /\ given \in [Repos -> [Heads -> [Reviewers -> ReviewState \cup {"none"}]]]
    /\ revert \in [Repos -> {"none", "open", "merged"}]
    /\ inbox \subseteq FactType
    /\ queue \in [Command -> CommandStatus]
    /\ gated \subseteq Repos
    /\ sweep \in [pc : {"idle", "fetch", "observe", "record"}, left : SUBSET Repos,
                  pull : PullState, todo : SUBSET FactType]
    /\ hook \in [pc : {"idle", "observe", "tail"}, fact : FactType \cup {None}]
    /\ saga \in [pc : {"idle", "execute", "record"}, plan : 0 .. MaxPlans,
                 action : Nat, merged : SUBSET Repos, outcome : ActionStatus]
    /\ rollback \in [pc : {"idle", "decide"}, left : SUBSET (Repos \X Heads),
                     replay : BOOLEAN]

\* On GitHub itself, and not only on file, changes are put in place upstream first
\* and taken away downstream first, although the gate is evaluated long before the
\* queued merge is performed and a rollback may be planned in between.
Order == INSTANCE DeliveryOrder WITH
    phase <- [r \in Repos |->
                CASE revert[r] = "merged"                          -> "reverted"
                  [] revert[r] # "merged" /\ pull[r] = "merged"    -> "in_place"
                  [] revert[r] # "merged" /\ pull[r] = "closed"    -> "withdrawn"
                  [] revert[r] # "merged" /\ pull[r] = "none"      -> "unpublished"
                  [] OTHER                                         -> "proposed"]
ImplementsOrder == Order!Spec

\* What RepoMesh merges on GitHub has passed the required checks at the very head
\* that is merged, although evidence is validated on one read of the candidate and
\* recorded on a later one, and the branch is pushed to in between. What a person
\* merges, by no command, is that person's.
CheckedMerge ==
    [][\A r \in Repos, c \in RequiredChecks :
           (pull[r] # "merged" /\ pull'[r] = "merged" /\ queue' # queue)
           => run[r][pushed[r]][c] = "passed"]_vars

\* delivery-loop.md: a candidate is recorded merged, and has a merge SHA, only once
\* GitHub has merged it, whoever merged it and however late, repeated or out of
\* order the observations of it come in.
MergedIsReal == \A r \in Repos : status[r] = "merged" \/ mergeSha[r] => pull[r] = "merged"

\* A recovery plan of the whole ChangeSet that has run to its end has left nothing
\* behind on GitHub: every pull request it covers is closed, or merged and its
\* revert merged too, whatever commands were queued when it started.
RollbackComplete ==
    plans # << >> /\ LastPlanComplete =>
        \A r \in Planned(LastPlan) :
            \/ pull[r] = "closed"
            \/ pull[r] = "merged" /\ revert[r] = "merged"

\* A batched plan is delivered in the end.
AllDelivered ==
    <>(/\ members = UNION {Batches[k] : k \in DOMAIN Batches}
       /\ csStatus = "delivered" /\ Pending(status, members) = {})

\* scm-command-reconciliation-spec.md: what is merged on GitHub is recorded merged
\* in the end, webhook or not.
MergesRecorded == \A r \in Repos : pull[r] = "merged" ~> status[r] = "merged"

\* The saga picks the plan of a rollback up on its next interval: a ChangeSet that
\* has left the active list has no unfinished plan behind it.
RecoveryNotStranded == members # {} /\ ~Active => LastPlanComplete
=============================================================================
