# RepoMesh: a verification development

RepoMesh lets a team of coding agents change several repositories together. A change becomes a
**plan** of ordered batches; each repository of a batch is worked on by Workers, planned and
reviewed by its own leader or expanded by the server. A Worker's task is **executed** by a runner
under reservations, leases and recovery. Each finished batch is **delivered**: its commits become
candidates of one ChangeSet, each candidate gets a GitHub pull request, and a set of background
loops drives them through checks, reviews, approval and merging in dependency order, or takes
everything back. An **Agent Bridge** on an operator's machine answers people in a chat room, starts
governed runs for them and tells the room how they end. This directory models these four parts in
TLA+, checks them with TLC and proves part of them with TLAPS.

Paths below are relative to `src/src/repomesh/` unless they start with `docs/`, `contracts/` or
`repomesh_agent_bridge/` (`src/src/repomesh_agent_bridge/`).

## 1. The system

### 1.1 Components

| Component | State it keeps | Operations | Correct when |
|---|---|---|---|
| ChangeSet and `DeliveryService` (`modules/delivery/domain.py`, `application.py`) | candidates (head, base, pull request, checks, reviews, status, merge order), status, merge cursor, governance decisions, recovery plans | `prepare`, `append_candidates`, `observe_*`, `record_merge_requested`, `record_governance`, `record_candidate_revision`, `plan_recovery`, `record_recovery_action`, `evaluate_merge_gate` | order respects dependencies; the cursor is exact; the gate opens for one candidate at a time, on evidence of its current head |
| Rollback service (`application.py`, `DeliveryRollbackService`) | none of its own | one governance decision per candidate, then a plan | a finished plan leaves nothing behind |
| Conflict cases (`conflicts.py`) | one OPEN case per repository | `ensure`, `resolve_for_revision` | the gate is shut while one is open |
| Validation snapshots (`modules/review_validation`) | frozen heads, test results, expiry | `create`, `validate_for_delivery` | covers exactly what is merged |
| Command queue (`application.py`, `infrastructure.py`) and dispatcher (`integrations/scm/command_dispatcher.py`) | command rows with owner, fencing version, lease, attempts | `enqueue`, `claim_batch`, `renew`, `accept`, `fail`; perform on GitHub | one holder per lease; accepted means done; every command settles |
| Sweep (`reconciler.py`, `delivery.py`) | none | for each candidate: read GitHub, record, gate, queue commands | converges without webhooks |
| Observation processor (`observation_processor.py`), webhook endpoint, poller | inbox of observations with leases, poll cursors | route, record, queue commands, replay | late, repeated and reordered facts do no harm |
| Finalizer (`plan_delivery.py`) | none | `handle_batch`: prepare or append, publish | every batch gets delivered |
| Recovery saga (`recovery.py`, `revert.py`) | none (the plan is the state) | claim an action, perform it, record it | downstream is taken away before upstream |
| Execution plans and the leader lane (`modules/task_orchestration`) | plan and task rows (versioned), leader assignments (not versioned) | advance, deliver a batch, start the next, roll up, submit a leader plan, review, rework, re-dispatch, append a batch | batches start in order, completed means merged, the leader decides, the plan comes to rest |
| Worker execution (`modules/agent_runtime`, `modules/task_orchestration`) | task, assignment attempts, execution reservations, runner dispatches and events, recovery operations | start a task, lease and accept a dispatch, receive an event, discover a lost run, resume, reassign, escalate | one live run per assignment, a result has a run and is the assignee's, the task settles |
| Agent Bridge (`repomesh_agent_bridge/`) | sync cursor, seen events, turn ledger, outbox, run anchors (SQLite) | sync, claim, answer, start a governed run, settle, drain, narrate a run | every mention is answered once, the room reads each row once and in order, the story of a run is true |
| Everything else (`PROJECT.json`, "components") | | | not modelled, each with its reason |

### 1.2 How they interact

* The **ChangeSet row is shared state**: finalizer, sweep, processor, dispatcher, saga, HTTP API.
  Each operation reads it, computes a successor and stores it if the version is unchanged; a lost
  race raises `DeliveryConflict`. Operations that need two facts often read twice (`observe_merge`,
  `merge_when_allowed`, `record_github_ci`).
* The **command queue** decouples deciding from doing: the gate is evaluated when a merge is
  *queued*; the dispatcher compares the head, and nothing else, when it is *performed*.
* **GitHub** is changed by RepoMesh, by Workers and by people; it reports through webhooks, which may
  be lost, late, repeated or reordered, and can be read at any time.
* The **saga** looks at the last recovery plan of the ChangeSets `list_active` returns, executes the
  first unfinished action and records its outcome.
* **Plan and delivery** meet in the finalizer: a batch whose leader tasks succeeded is delivered, and
  a merge re-enters the plan as an observation. **Plan and Worker execution** meet in the task row:
  a Worker's result ends its task and calls the plan back.
* **Bridge and Worker execution** meet in the start action and in the runner's queue: the bridge's
  own consumer is a runner.

### 1.3 What is hard

Concurrency between loops that share a row and a remote system; leases that expire under a slow
holder; crashes between a remote effect and its record; evidence read at one head and used at
another; recovery running while merges are in flight; progress without webhooks. The list, line by
line, is "hazards" in `PROJECT.json`; every property of section 3 is aimed at one of them. Three
more were seen and are not in that list, because they are narrow and no module has them yet: two
sweeps opening a conflict case at once (`modules/delivery/conflicts.py:82`, the unique index decides), the
poll back-off at its edges (`modules/delivery/domain.py:135`), and a failing poll target that delays
the others (`integrations/scm/poller.py:63`).

## 2. The modules

| Module | Models | EXTENDS |
|---|---|---|
| `SCMCommandQueue` | the command table and its dispatchers | `Integers` |
| `SCMCommandQueue_proofs` | theorems about it | `SCMCommandQueue`, `TLAPS` |
| `ChangeSet` | the ChangeSet, the gate, recovery plans: every operation of `DeliveryService` | community modules |
| `ChangeSet_proofs` | theorems about it | `ChangeSet`, `TLAPS` and three theorem modules |
| `DeliveryOrder` | what a GitHub user may rely on (abstract specification) | |
| `DeliveryLoop` | all the loops, people and GitHub around one ChangeSet | `ChangeSet` |
| `DeliveryLoop_proofs` | theorems about it, the refinement of `DeliveryOrder` among them | `DeliveryLoop`, `ChangeSet_proofs` |
| `PlanExecution` | plans, leader and Worker tasks, concurrent calls of `AdvanceExecutionPlan` | standard modules |
| `PlanExecution_proofs` | theorems about it | `PlanExecution`, `TLAPS` |
| `PlanReview_proofs` | theorem about its leader-side repositories | `PlanExecution_proofs` |
| `WorkerExecution` | one Worker task: reservations, runner, events, recovery | standard modules |
| `WorkerExecution_proofs` | theorems about it | `WorkerExecution`, `FiniteSetTheorems`, `TLAPS` |
| `WorkerRuns_proofs` | theorems about the number of its runs | `WorkerExecution_proofs` |
| `AgentBridge` | the two loops of the Agent Bridge, its SQLite file, the room and the runs | standard modules |
| `AgentBridge_proofs` | theorems about it | `AgentBridge`, `TLAPS` and three theorem modules |
| `MC...` | model values for TLC | the module checked |

### 2.1 `SCMCommandQueue`

A row has a status, a fencing `version`, an owner, attempts and the *time left* on its lease; a
dispatcher has a phase (`read`, `write`, `record`, `accept`, `fail`: the awaits of `run_once` and
`_dispatch`) and the view it claimed. Store operations are single transactions and single steps.
Remaining time replaces absolute time, so the model needs no clock bound: `Tick` takes one unit off
every lease. A remote call may fail with or without having taken effect. A crash forgets the view
and leaves the row. `PullRequestChanges` is a person closing, merging or pushing. Not in the model:
the back-off between attempts (there is none in the code: a FAILED row is claimable at once) and the
order of creation (a preference; `SKIP LOCKED` may pass over any row).

### 2.2 `ChangeSet`

One variable per field of the candidates (functions over `Repos`), plus the governance decisions,
the snapshot, the conflict case and the recovery plans. `Refresh` is `with_repositories`, which every
update of a candidate ends in; `Readiness` is `_readiness_status`; `GateOpen` is
`evaluate_merge_gate` without its last question, whether a contract catalog names consumers that are not
in the ChangeSet (`modules/delivery/application.py:690-703`): it only ever closes the gate, so that the
model's gate is the wider one and its safety properties are not weakened (progress is shown for a
catalog without such consumers); `RecoveryActions` is `_recovery_actions`. An operation the code refuses is a
step that is not enabled; the `Can...` operators name its condition for processes that go on after
a refusal. `observe_merge`, which reads twice, is `CheckUpstream` followed by `ObserveMerge`.
`MergeOrders` is the topological order by rounds; inside a round the code sorts by random id, so the
model takes any order. Heads, tips, checks and reviewers are model values.

### 2.3 `DeliveryLoop`

Composition by EXTENDS: the processes act on the variables of `ChangeSet` through its operations.

| Process | Variables | Steps |
|---|---|---|
| finalizer | | `DeliverBatch`, `Publish`, `RecordPublication` |
| sweep | `sweep`, `gated` | `SweepStart`, `SweepFetch` (pull request, conflict case, evidence list), `SweepObserve` (checks, then reviews), `SweepDecide`, `SweepRecord`, `SweepEnd`; `EnqueueMerge` |
| hook | `hook`, `inbox` | `HookRoute`, `HookObserve`, `HookTail` |
| dispatcher | `queue` | `DispatchUndraft`, `DispatchMerge`, `DispatchRecords`, `DispatchFails` |
| saga | `saga` | `SagaClaim`, `SagaExecute`, `SagaRecord`, `SagaCrash` |
| people | `rollback` | `Approve`, `ActionReported`, rollback: `RollbackStart`, `RollbackDecide`, `RollbackPlan`, `RollbackBreaksOff` |
| GitHub | `pull`, `pushed`, `target`, `run`, `given`, `revert` | `CheckFinishes`, `ReviewGiven`, `TargetMoves`, `HeadMoves`, `HumanMerges` |

`Occurs` says which troubles an instance contains. Simplifications, and what they cost:

* `SweepFetch` takes the reads at the start of a candidate's turn as one step; the evidence it lists
  is recorded one fact at a time afterwards, so stale evidence is in the model.
* `EnqueueMerge`'s second read of the candidate is separate from the gate (`gated`), as in the code.
* The lease protocol is `SCMCommandQueue`'s subject: here a failed command goes back to pending or,
  its attempts used up, is dead.
* The inbox is a set: a fact may be processed late and, because GitHub may report it again, twice.
* A Worker reports a repaired revert truthfully: success means the revert is on GitHub. A Worker
  that lies can of course make a plan look complete.
* `SagaAction` is executed with the merges known when it was claimed (`saga.merged`), as in the code.
* Reviewers who have approved a head leave it at that; `ChangeSet` has reviews taken back.
* Nobody approves a candidate while a rollback is under way, or where no approval is needed
  (`Approve`); the snapshot expires only where the gate would look at it (`Expire`).
* At most `MaxPlans` recovery plans.
* `record_candidate_revision` is public but nothing in `src/` calls it: `ChangeSet` has it (`Revise`),
  the loop does not.

### 2.4 `DeliveryOrder`

A change is unpublished, proposed, withdrawn, in place or reverted. It is put in place only on top of
its dependencies and reverted only when nothing in place depends on it. `DeliveryLoop!Order` maps
`pull` and `revert` to these phases; `ImplementsOrder` is checked as a PROPERTY.

### 2.5 `PlanExecution`

| Variables | Code |
|---|---|
| `plan` | the `execution_plans` row: status, batch index, batches planned and staffed, the recorded refusal |
| `leader`, `worker`, `told` | task rows of repositories and Workers; which were published to the Worker |
| `assignment` | `leader_assignments`: phase, round, evidence, review packages |
| `tested`, `published`, `merged` | what the evidence carries, and what delivery has done |
| `events` | results and merge observations that have not re-entered the plan yet |
| `caller` | where each call of `AdvanceExecutionPlan` is, and what it has read |
| `desk` | the plan or the verdict a leader is submitting |
| `operator` | the re-dispatch of a round: tasks it has still to walk through, whose assignments it has still to read, and the assignments it is about to save |

Each read and each write of a call is a step: `FindPlan`, `Reconsider`, `Ready`, `Deliver`, `Gate`,
`Settle`, `Start`, `AssignLeader`, `RecordLeaders`, `Decompose`, `Park`. A Worker's result goes through
`TaskTerminal` (its parent is read), `ListWorkers` (the parent's tasks), `ReadLane` (the assignment), and
then `RollUp`, or `OpenReview` with the list and the assignment read, which may be of different rounds. A
re-dispatch is `Redispatch` (the tasks of the round), `HoldRound` (an assignment is read), `ResetRound` (the
assignments are saved) and `RedispatchTask`, task by task. `Interrupt` ends a call between any two steps.

Plan and task rows are written under the version read, which `fresh` stands for: it is lost when anyone
else writes the row. The leader assignment is saved blindly, so the last writer wins. Taken together are
reads that nothing the properties speak of can come between: of a Worker's task a call uses the parent
alone, which never changes, and a re-dispatch reads the task rows at once, each of which it writes under
its version later. Assumed: a leader submits one verdict at a time, and delivery publishes
a batch in one step (`Deliver`; the details are `DeliveryLoop`'s). Edges between the nodes of a
leader's plan never order their dispatch in the code, so the model has none.

### 2.6 `WorkerExecution`

| Variables | Code |
|---|---|
| `task`, `attempts` | the task row and its assignment attempts; the index of an attempt is its generation |
| `exec` | execution reservations, each with the dispatch of its run and what the runner does with it |
| `op`, `asked` | recovery operations, and the human reviews they ended in |
| `proc` | calls of `StartAssignedWorkerTask.execute` and recovery reconcilers |
| `handler` | runner events inside `RunnerControlGateway.receive_event` |

Time is abstract: a lease that was given may run out (`LeaseRunsOut`, `OfferRunsOut`,
`ClaimRunsOut`), under a working holder only as a disturbance. The owner and fencing version of a
reservation are left out, as the module's header explains. `Crash` stands for a process that dies as
well as for a step that raises. Worker recovery is off by default (`settings.py:115`); the model
has it on.

### 2.7 `AgentBridge`

| Variables | Code |
|---|---|
| `timeline`, `room` | the homeserver: mentions posted, and outbox rows it has taken (it deduplicates by transaction id) |
| `runs` | RepoMesh: the runs of the task |
| `cursor`, `seen`, `ledger`, `outbox`, `anchors` | the SQLite file, one transaction per action |
| `recorded` | the Runner's own ledger of finished runs |
| `loop` | the room loop (`RoomSupervisor`): which await or transaction is next |
| `consumer` | the governed-run consumer (`NarratingExecutor` in the Runner's serve loop) |
| `turns`, `waived` | history: turns begun, and mentions adopted as past or cut off by the homeserver |

Both loops are coroutines of one thread: the consumer steps, and the operator stops the process,
only while the room loop awaits (`Awaits`). A crash may come anywhere. A mention is talk or a command;
what the coding session answers does not matter here. Left out: the leader lane and its notices,
session references, the line about tests, invitations, readiness, back-off lengths.

## 3. What is checked

| Run | Instance (bounds) | States | Properties |
|---|---|---|---|
| `command_queue` | 2 dispatchers, a merge and an un-draft command, 2 attempts, lease of 2 ticks | 405,000 | `TypeOK`, `LeaseHonoured`, `AcceptedMeansDone`, `AcceptedIsFinal`, `Settles` |
| `changeset` | 3 repositories (2 dependent, 1 beside), 2 heads, 2 checks (1 required), 2 reviewers (1 approval required), validation gate, 1 plan, cut by `Slice` | 281,000 | `TypeOK`, `CursorExact`, `SerialMerge`, `OrderRespectsDeps`, `MergeNeedsEvidence`, `CompensatedMeansComplete` |
| `live` | 2 dependent repositories in 2 batches, 1 check that may fail and be run again, 1 reviewer, no webhooks, validation gate off | 40,000 | `AllDelivered`, `MergesRecorded` |
| `rollback` | 2 dependent repositories, 1 rollback, saga failures, crashes | 860,000 | `RollbackComplete`, `ImplementsOrder` |
| `checked` | 1 repository, 2 heads, 2 tips, failing checks, webhooks, failing commands, expiry, pushes and merges by hand | 1,048,000 | `LoopTypeOK`, `CheckedMerge`, `MergedIsReal` |
| `plan` | 2 batches of one repository, the second planned late and leader-side, 2 calls, 1 disturbance of every kind | 639,000 | `PlanTypeOK`, `BatchesInOrder`, `CompletedMeansDelivered`, `CompletedIsFinal`, `RefusalHolds` |
| `plan_live` | a leader-side repository whose plan has 2 nodes, then one the server decomposes, 2 calls, 1 rework, Workers that fail or bring no tests | 841,000 | `LeaderDecides`, `PlanComesToRest` |
| `worker` | 2 Workers, 2 calls, 1 reconciler, 1 event handler, 2 attempts, 1 reassignment, one disturbance of 14 kinds | 208,000 | `WorkerTypeOK`, `RunsAreBounded`, `AttemptIsAssignee`, `OneLiveRun`, `ResultHasRun`, `ResultIsAssignees`, `TaskSettles` |
| `bridge` | 2 mentions, 2 runs, a memory of 1 event, any 2 of 14 disturbances | 1,134,000 | `BridgeTypeOK`, `NobodyIgnored`, `RoomReadsInOrder`, `OneTurnEach`, `StoryInOrder`, `RoomAgrees`, `EveryMentionSettles` |
| `batches` | as `live` with passing checks and the validation gate on | | `AllDelivered` is violated |
| `stranded` | 1 repository, webhooks, 1 rollback | | `RecoveryNotStranded` is violated |
| `rework` | 1 leader-side repository, 1 rework, no disturbance | | `ApprovedIsPublished` is violated |

What they say:

* `LeaseHonoured`: time left on a dispatcher's view means the row is its own. `AcceptedMeansDone`: an
  acknowledgement is true, whatever crashed. `AcceptedIsFinal`: a stale dispatcher cannot take it
  back. `Settles`: every command is accepted or uses its attempts up.
* `CursorExact`, `SerialMerge`: the derived cursor, status and gate fit the candidates, so that the
  gate is open for at most the next candidate in order, although people merge in any order.
* `MergeNeedsEvidence`: status and the evidence on file agree across revisions and reordered facts.
* `OrderRespectsDeps`: the merge order is topological, also across appended batches.
* `CompensatedMeansComplete`: COMPENSATED is never announced before a plan is complete.
* `AllDelivered`, `MergesRecorded`: progress, with polling alone.
* `RollbackComplete`: a finished recovery plan has closed every pull request or reverted its merge,
  also if a queued merge raced the close. `ImplementsOrder`: see 2.4.
* `CheckedMerge`: what RepoMesh merges by a command has passed its checks at the merged commit.
* `MergedIsReal`: MERGED and a merge SHA on record imply a merge on GitHub, by whomever.
* `BatchesInOrder`, `CompletedMeansDelivered`, `CompletedIsFinal`: however calls, crashes, replays,
  re-runs and late batches overlap, nobody is given a task before the earlier batches are merged, a
  completed plan has merged all it was extended to, and nothing changes it any more.
* `RefusalHolds`: a plan whose delivery was refused moves only after the refusal was withdrawn.
* `LeaderDecides`: in leader mode no roll-up ends the leader's task, although the results of two Workers
  are handled at once by calls whose list and assignment may be of different moments; the verdict the
  leader submits does, and only a re-run takes it back.
* `PlanComesToRest`: an undisturbed plan ends completed, failed, refused, or asking for help, with two
  Workers of one repository and a rework between. A plan in which a Worker has ended before the
  submission that handed out its task is saved counts as disturbed (`TooFast`; section 4).
* `RunsAreBounded`: retries and reassignments come to an end, because `MaxExecutions` is never met. By
  `RunsCounted` (section 5) a task of this instance has at most four runs, and TLC reaches four.
* `AttemptIsAssignee`, `OneLiveRun`: the newest assignment attempt alone is active and is the
  assignee's; two dispatches of one generation are never live at once.
* `ResultHasRun`, `ResultIsAssignees`: a success has an accepted run of the assignee, and a result is
  written for the Worker that has the task at that moment, although a reassignment may commit between
  the check of the attempt and the write.
* `TaskSettles`: after one forgivable disturbance (section 4 names the others) a task ends with a
  result, a block or a question to a human.
* `NobodyIgnored`, `OneTurnEach`: a mention behind the cursor was answered, and its turn was run
  twice only for a crash, a stop or a late answer.
* `RoomReadsInOrder`: rows reach the room in order, once, and only dead letters are missing.
* `StoryInOrder`, `RoomAgrees`: a run is told in order, to the mention that asked for it, and its end
  is the one RepoMesh recorded.
* `EveryMentionSettles`: every mention comes to rest, whatever broke.

Two of everything that interacts (dispatchers, repositories with a dependency, heads, attempts,
Workers, calls, mentions) is what the hazards need: a lease to take over, an upstream and a
downstream, an old and a new head, a live run and the one that supersedes it, a mention in hand and
one that follows. One check and one reviewer suffice in the loop because `Readiness` is checked with two
of each in `changeset`.

`changeset` checks the six properties of the aggregate on one instance, which a CONSTRAINT keeps small:
while the first repository is alone everything varies; with a second one beside or on top of it the
required check and one reviewer do, and a recovery freezes evidence. The independent repository is
there because with a dependency the upstream guard alone would make the gate serial. All six
properties are also proved for every value of the constants (section 5), so the cut costs little;
governance decisions, off here, are on in `live`, `rollback` and `checked`. `rollback` has no pushes
and no merges by hand: `RollbackComplete` is not checked against those.

`MaxExecutions` of `WorkerExecution` is never met, which is `RunsAreBounded`; `RunsStayBounded` says for
which constants it need not be feared (here 5 > 1 + 1 + 1 * 2). Its instance leaves out
two disturbances: an interrupted run is handled like a failed one, and a second runner at the same
dispatch is a divergence (section 4). It allows one reassignment, where the default is two
(`settings.py:119`), because of its size: with `MaxReassignments = 2` and `MaxExecutions = 6` TLC
finds 4.3 million states, in all of which its invariants and `ResultIsAssignees` hold, and `TaskSettles`
cannot be decided in the time of a run. The theorems are for any number of reassignments. What is
lost with the second one is a promise of the documents (section 4). Each disturbance happens once and
alone, except in `bridge`, where
any two combine.

Deadlock is not checked: the instances really stop, when everything is delivered, settled, answered,
or a bound is used up. Every property of a passing run is violated by at least one plausible bug in
the code ("mutants" in `PROJECT.json`; the mutated operators stand before the operators they replace).

### Fairness

`LoopFairness` and `Fairness` are weak fairness of loops that the server runs for ever with a sleep in
between (`_run` of the reconciler, dispatcher, saga), of GitHub finishing the checks of an open pull
request, and of people who eventually review and approve. Nothing is assumed of webhooks, of renewals,
of people pushing or of the rollback. Weak fairness is enough because each of these steps, once
enabled, stays enabled until it or another step of the same loop is taken.

`PlanExecution`: a call that has begun goes on, a result or observation is handled, a leader answers
what it is asked, a Worker that was told reports, a published candidate is merged, a re-dispatch is
finished. Nothing forces disturbances or extensions.

`WorkerExecution`: a first call is made, a live process takes its next step, a runner finishes what it
took, and a lease nobody renews ends. Discovering and claiming are strongly fair, because one pass of
the reconciler does both and the other processes may disable either in between.

`AgentBridge`: weak fairness of the room loop and the consumer (the loops run, and each call returns or
times out) and of `Start` (the operator starts a stopped process again).

## 4. Divergences from what the repository says

Three runs expect a violation and are findings in `PROJECT.json`: `batches` (a second batch makes the
validation snapshot useless: `append_candidates` never renews it), `stranded` (a merge observed
during a rollback overwrites COMPENSATING, so `list_active` drops the ChangeSet and its plan) and
`rework` (delivery demands exactly one succeeded Worker task per repository, and a rework is a second
one: approved rework is refused for ever).

Others were met while modelling; the model exhibits them, and no run of this directory states them:

* `RepositoryDelivery.revise` sets `base_sha` to the old head, which the sweep compares with the
  pull request's base: every revised candidate counts as drifted (nothing in `src/`
  revises a candidate yet).
* `observe_ci` recomputes the status of a MERGED candidate, so a late check moves the cursor back.
* A merge queued before a rollback is performed during it (the plan then fails at the close action,
  which is why `RollbackComplete` still holds).
* Without required governance a rollback does not close the gate. A publication that is recorded after
  the plan was made takes the ChangeSet out of COMPENSATING, so that a downstream merge is queued and
  performed on an upstream the plan is taking back. `ImplementsOrder` is violated in that setting
  (`DeliveryLoopRollback.cfg` with `RequireGovernance = FALSE`), and proved outside it (section 5).
* `merge_when_allowed` queues the head it reads *after* the gate: a revision in between would be merged
  unchecked. Nothing in `src/` revises a candidate yet.
* The sweep records the checks before it looks at a merge, which takes MERGE_REQUESTED back; if the
  validation has expired meanwhile, the merge is refused for ever.
* The poller gives a fact an identity that leaves out what may change of it, so a later poll of the
  same candidate conflicts with the stored fact, and the checks and reviews after it are not polled
  any more (`docs/development/module-test-team/module-test-team-handoff-20260901.md:143`). Its
  `_run` loop has no `try`; completing and failing an observation is not fenced.

Plans:

* A plan whose last Worker is BLOCKED never opens its review: the gateway calls the plan back only for
  SUCCEEDED and FAILED (`application.py:104-110` expects it). Re-running an approved round never reopens it.
* "It fires when no worker task is still open" (`application.py:1554`, of the transition to `review_due`) is
  not kept. A call that handles a Worker's result lists the tasks (`:1510`) and reads the assignment
  afterwards (`:1563`). Between the two the next task of the plan, or a rework, may be handed out and
  the assignment saved as executing: the review is then opened, and its package shown, without a
  task that has only begun. `ReviewShowsAll` states the claim. TLC refutes it in the instance of `plan_live`
  (add it to its PROPERTIES) in 16 steps, of a single call; the approval of such a review ends the
  leader's task over the open one.
* The assignment is saved without a version, so that concurrent transitions lose updates. A Worker is
  announced (`application.py:1891`) before the submission that hands out its task is saved (`:1905`); one
  whose result is handled in between finds the old assignment, and opens no review. If it was the last,
  nothing calls the plan back: `PlanComesToRest` without the conjunct on `TooFast` is violated in the instance
  of `plan_live`. The same holds of a rework.
* Appended tasks strand their batch until a replay if the row changes between the start of a batch and
  `with_leader_tasks`; so does a crash between closing an approved review and reporting it.
* A first batch that failed and was repaired by a re-run stays FAILED until delivery observes something.

Worker execution (`TaskSettles` names these kinds in `Losing`; each really strands the task):

* After a crash between reservation and dispatch the reconciler reassigns, `reserve` refuses the
  replacement because of the old row (the binding is compared before the expiry), and the next claim
  sees a newer generation and does nothing: the task is ASSIGNED for ever
  (`docs/development/worker-failure-reassignment-spec.md:102`, `:213`). A crash between committing
  the reassignment and starting the replacement ends the same way.
* A runner that dies after accepting leaves a dispatch whose lease is renewed for ever.
* A repeated start after a success leaks a reservation, whose recovery reassigns the completed task.
* The enqueue is not fenced, so a call that outlived its lease adds a second live dispatch
  (`OneLiveRun` excuses it). A second runner's duplicate result may be written back to a task that waits
  for input.
* "Reject late events and reports from superseded attempts"
  (`docs/development/worker-failure-reassignment-spec.md:19`) is not kept with the two reassignments that
  are the default (`settings.py:119`, `worker_recovery_max_reassignments`): they can bring a task from
  Worker A to B and back to A. A request for A's first run that was checked against the attempts before
  that (or a repeated event, `gateway.py:67`, which looks at the evidence the *first* delivery was given)
  passes both the version and the assignee of the task, and the new attempt is settled by the old
  run's result. `StaleIsMute` states the promise. To see it refuted, in 37 states: `WorkerExecution.cfg` with
  `MaxReassignments = 2`, `MaxExecutions = 6` and `StaleIsMute` as its one PROPERTY. What is kept however
  often the task is reassigned is `ResultIsAssignees`.
* The accepted event of a superseded run is rejected, so its runner leases it again every minute.
* `worker_recovery_max_execution_attempts` (`settings.py:118`) does not bound the execution attempts of an
  assignment, which the specification defines as its runs
  (`docs/development/worker-failure-reassignment-spec.md:40`). `app.py:756` compares it with the claims of
  one recovery operation, and every execution has an operation of its own: a resumed run that fails
  again starts to count from one. Resumes of an assignment are bounded only by how often its runs fail.

Agent Bridge:

* A second mention of a live run clashes: `record_anchor` raises outside the `try` of
  `_start_governed` (`supervisor.py:830`), whose docstring promises a failure line. The turn is settled as
  failed with no answer and the process ends. `NobodyIgnored` and `EveryMentionSettles` except it by name (`Clashes`).
* `contracts/agent-bridge/v1/README.md:86` promises "at most one CLI turn" for a repeated event; a
  crash, a stop or a late answer makes it two (`OneTurnEach` says how many).
* The consumer may take a run before its receipt is anchored, or whose start was never answered: such a
  run has no story. A crash between anchor and first row lets "started" precede "accepted".
* A mention whose turn ran again may start a second run under the same trigger; the stories then mix, or
  the second run fails on a taken place without being executed.
* A stop during the drain of an answered turn marks it interrupted. A stop in the middle of a run tells
  the room it failed while RepoMesh keeps it accepted.

## 5. What is proved

`SCMCommandQueue_proofs`, for any sets of commands and dispatchers, any lease time and attempt limit
(assumptions: there is a command, `MergeCommands` is a subset of `Commands`, both numbers are
positive, the null owner is no dispatcher):

| Theorem | Statement |
|---|---|
| `TypeCorrect` | `Spec => []TypeOK` (attempts never exceed the limit) |
| `LeaseCorrect` | `Spec => []LeaseHonoured` |
| `AcceptanceCorrect` | `Spec => []AcceptedMeansDone` |
| `AcceptedFinalCorrect` | `Spec => AcceptedIsFinal` |

The inductive invariant is `IInv == TypeOK /\ LeaseInv /\ PhaseInv /\ RowInv`. `LeaseHonoured` alone
is not inductive, because a row's lease could run out before the view's: `LeaseInv` adds that the two
agree. `AcceptedMeansDone` needs `PhaseInv` (a dispatcher reaches `record` and `accept` only when the
pull request is where the command wants it) and that a pull request which is `done` stays so, which is
read off the actions. `RowInv` says that only a processing row has a lease, which `AcceptedIsFinal`
needs too. Each step lemma has one step per action.

`ChangeSet_proofs`, for any finite set of repositories with any acyclic dependencies, any heads,
checks, reviewers and gate policies (assumptions `DepsAssumption`, `HeadAssumption`,
`FiniteAssumption` of `ChangeSet`):

| Theorem | Statement |
|---|---|
| `TypeCorrect` | `Spec => []TypeOK` |
| `OrderCorrect` | `Spec => []OrderRespectsDeps` |
| `EvidenceCorrect` | `Spec => []MergeNeedsEvidence` |
| `CursorCorrect` | `Spec => []CursorExact` |
| `SerialCorrect` | `Spec => []SerialMerge` |
| `CompensatedCorrect` | `Spec => []CompensatedMeansComplete` |

* `OrderInv` strengthens `OrderRespectsDeps` with: the positions of the members are distinct and below
  their number. That is what lets `append_candidates` number a batch from the number of candidates
  on without colliding with, or slipping below, an earlier batch (`FreshOrder`).
* `EvidenceInv` strengthens `MergeNeedsEvidence`, which speaks of published candidates, with what a
  candidate holds before it has a pull request. Each observation recomputes the status from the same
  evidence it stores; the proof checks each operation for having forgotten to.
* `CursorInv` says that cursor and status are the ones `with_repositories` computes from the candidates
  (`RefreshKeepsCursor`). That such a cursor is *exact* (`CursorIsExact`) is arithmetic: n distinct
  positions below n leave no gap, by the pigeonhole principle (`FirstIsZero`), so position zero is taken
  and the cursor of a fresh ChangeSet is not past anybody. `MinOfSet` is the one use of induction.
* `GateIsSerial` derives `SerialMerge` from the two: the gate compares a candidate with the cursor,
  and positions are distinct.
* `TypeOK` says among other things that a recovery plan is a sequence of actions. The plan is built by
  two operators the library defines by recursion: `SetToSortSeq` sorts the members, downstream first, and
  `FlattenSeq` joins the actions of each. The induction theorems cannot be instantiated here, so
  both are done by a least counterexample: the numbers at which a claim fails are a set, `MinOfSet`
  gives its least element, and the claim at its predecessor refutes it (`FlattenTraces`).
  `ReversedSorts` shows that the order `Reversed` sorts by is met, from the members' distinct positions;
  `RecoveryPlan` is what the loop's proofs use of it: which actions a plan has, and that those of a
  candidate stand before those of everything it depends on.

`DeliveryLoop_proofs`, for the same constants and any troubles, people and bounds:

| Theorem | Statement |
|---|---|
| `LoopTypeCorrect` | `LoopSpec => []LoopTypeOK` |
| `MergedIsRealCorrect` | `LoopSpec => []MergedIsReal` |
| `CheckedMergeCorrect` | `LoopSpec => CheckedMerge` |
| `RollbackCompleteCorrect` | `LoopSpec => []RollbackComplete` |
| `ImplementsOrderCorrect` | `Governed` implies `LoopSpec => ImplementsOrder` |
| `InPlaceCorrect` | `Governed` implies: nothing is ever in place on GitHub without all it depends on |
| `ChangeSetKeepsItsPromises` | the ChangeSet keeps order, evidence, cursor and the one open gate in the loop |

* `SetMove` says, once, what any step of the loop does to the ChangeSet: one of the operations of
  `ChangeSet`, under the guard of the process that calls it. So the invariants proved in
  `ChangeSet_proofs` carry over (`ChangeSetKeepsItsPromises`), and `Frame` says which actions write
  GitHub, the commands and the inbox. `Shape` types all of it: a plan index held by the saga exists.
* `Honest` gives `MergedIsReal` and `CheckedMerge`. Everybody in the loop acts on what it read some
  steps ago, so the invariant speaks of what they carry: a fact on its way, what the sweep has in
  hand, a queued command. All of these are true *and cannot become untrue* (`GitHubKeeps`: a merged
  pull request stays merged, a passed check at a commit stays passed).
* `Sound` gives `RollbackComplete`: an action that has succeeded, or that the saga is about to record as
  such, has had its effect; an action that reverts belongs to a merged candidate, and its revert is
  merged only after it was opened.
* `OrderlyInv` gives the refinement. A merge is *on its way* from the moment the gate is seen open
  (`Pipeline`): `PipelineInv` says that all it depends on is merged by then. `CoverInv`, `DownwardInv` and
  `OneByOne`: a plan has an action for everything on its way, downstream first, and performs one at a
  time. `RevertInv`: so when a revert is merged, everything downstream is closed or reverted. Nothing
  may get on its way after the plan is made; that is `DecisionInv`, and the reason for `Governed`.
* `Governed` is `"human_merges" \notin Occurs /\ ("rollback" \in Occurs => RequireGovernance)`: nobody
  merges by hand, and where a rollback may be asked for, a head is merged only with a decision on file,
  which the rollback withdraws first. Neither half can be dropped: a person may merge in any
  order, and TLC shows what happens without decisions (section 4). `live` and `rollback` satisfy it.

`PlanExecution_proofs`, for any repositories, batches, nodes, callers and bounds (`PlanAssumption`: the
batches are disjoint, not empty, and cover the repositories):

| Theorem | Statement |
|---|---|
| `PlanTypeCorrect` | `Spec => []PlanTypeOK` |
| `BatchesInOrderCorrect` | `Spec => []BatchesInOrder` |
| `CompletedMeansDeliveredCorrect` | `Spec => []CompletedMeansDelivered` |
| `CompletedIsFinalCorrect` | `Spec => CompletedIsFinal` |
| `RefusalHoldsCorrect` | `Spec => RefusalHolds` |

`IInv == ShapeInv /\ RowsBegun /\ CallsInStep /\ PlanInv`. `PlanInv` ties the plan to the merges: the
batches before its index are merged, all of them when it is completed. It is not inductive alone,
because a call acts on what it read before: `CallsInStep` says that a call which is still fresh is at the
plan's own index and status, and that a call about to settle a batch has seen it merged. `RowsBegun`
says that whatever exists of a repository exists since its batch was begun. A step of one call leaves
every other call, an onlooker, either untouched or no longer fresh; that is the core of the proof.

`PlanReview_proofs`, under the same assumption and for any number of nodes, reworks and re-runs:

| Theorem | Statement |
|---|---|
| `LeaderDecidesCorrect` | `Spec => LeaderDecides` |

The task of a leader-side repository ends in two places of the code, the verdict and the roll-up, which
is meant for repositories without an assignment. Whether a call rolls up is decided by a list and an
assignment it reads at different moments, and the assignment may be overwritten at any time. The
invariant is therefore about the beginning: `ReviewInv` says that every leader-side repository is
`Parked`. Before its assignment is parked it is `Untouched`: no Worker task exists, no result of one is on its
way, and no call is handling one; and no call is ever about to roll it up, or to save a review over
an assignment it did not find (`LeftToLeader`). No writer takes an assignment away, so a result that
arrives finds one. `CallsSteady` says once that all other steps of a call begin no roll-up and no
review.

`AgentBridge_proofs`, for any number of mentions, runs and disturbances and any limit on remembered
events (`BridgeAssumption`):

| Theorem | Statement |
|---|---|
| `BridgeTypeCorrect` | `Spec => []BridgeTypeOK` |
| `RoomReadsInOrderCorrect` | `Spec => []RoomReadsInOrder` |
| `OneTurnEachCorrect` | `Spec => []OneTurnEach` |
| `RoomAgreesCorrect` | `Spec => []RoomAgrees` |
| `NobodyIgnoredCorrect` | `Spec => []NobodyIgnored` |
| `StoryInOrderCorrect` | `Spec => []StoryInOrder` |

All rest on `Shape`, which types the three parts of the state and adds what links them: what is
queued is owed, what is seen lies behind the cursor, the batch in hand reaches from the cursor to
`upto`, a story is the anchor of its run. Each property has its own strengthening:

* `Draining`: while a drain is under way, an owed row is in its queue or younger than all of it. Rows
  that the consumer adds in the middle of a drain are younger, so the room still reads in order.
* `TurnsInv`: a mention has had one turn per excuse, and one more if its turn is *spent*, settled or in
  hand with an answer that is not a timeout. A claim needs a mention that is not spent.
* `Agree`: the end told of a run is the one recorded, or the run is still accepted and nobody but the
  consumer that is about to report this very end works on it.
* `Attended`: up to `upto`, a mention is waived, answered, still to do or in hand, and a settled turn
  has an answer. `RowsStay` and `ClashesStay` say that no step takes an answer or a clash back.
* `Story` and `OneRun`: every line belongs to the mention its run is anchored at, no end is told without a
  start before it, and no start without a receipt unless there was a crash. Two loops write the lines, so
  the invariant also says what each is about to write: a run at work has been told to start, and an anchor
  has its first line or the room loop is just writing it (there is no await in between). A mention
  whose turn began once anchors one run, and none before its receipt is read.

`WorkerExecution_proofs`, for any Workers, callers, reconcilers, event handlers, disturbances and
bounds (`WorkerAssumption`):

| Theorem | Statement |
|---|---|
| `WorkerTypeCorrect` | `Spec => []WorkerTypeOK` |
| `AttemptBelongsToAssignee` | `Spec => []AttemptIsAssignee` |
| `OneRunAtATime` | `Spec => []OneLiveRun` (which excuses a lease that runs out under a call) |
| `SuccessHasItsRun` | `Spec => []("two_runners" \notin trouble => ResultHasRun)` |
| `ResultIsTheAssignees` | `Spec => ResultIsAssignees` |

* `Shape` types the tables and says what a process in the middle of its work has: a row that belongs
  to an attempt there is, a Worker, an operation. The step lemmas `RowMoves`, `CallMoves` and
  `HandlerMoves` then say once what any step may do to a row, a call or a handler; the strengthenings
  below are proved from these and look at a single action only where it does more.
* `AttemptIsAssignee` is inductive by itself: whoever writes the assignee writes the attempts with it.
* `RunInv` gives `OneLiveRun`. A call acts on rows it read before, so `OnTime` says, for each place a
  call may be at, which live rows it has already excluded: no live run of its Worker, none of its
  generation. `Active1` (one active row) and `OwnRows` (no two calls hold one row) make what it
  excluded stay so; without "slow", a lease never ends under the call.
* `ResultInv` gives `ResultHasRun`. `Fresh`: what a handler is about to write was read with the task as
  it is, or the version has moved and the write will fail. `OneReport`: an accepted event is the one
  every handler of its run has. This needs that a run has one runner: with two, one may have
  reported "failed" and the other "completed", and the second's event counts as a repeat of the first's.
  `Fresh` alone gives `ResultIsAssignees`: the write that succeeds finds the task its handler read.

`WorkerRuns_proofs`, under the same assumption:

| Theorem | Statement |
|---|---|
| `RunsCounted` | `Spec => [](Len(exec) <= 1 + MaxReassignments + MaxDisturbances * MaxAttempts)` |
| `RunsStayBounded` | `MaxExecutions > 1 + MaxReassignments + MaxDisturbances * MaxAttempts` implies `Spec => []RunsAreBounded` |

The number of runs is not inductive: a process on its way to `reserve` has no row yet. `Counted` charges each
run, and each process in `Pending` that may still reserve one, to a cause of its own: the first call
(`Called`), a further call (`CalledAgain`), a try of an operation of a failed or interrupted run with a
session (`Tried`), a reassignment (`Moved`). Then a step does one of three things (`PendingStep`): it adds
neither rows nor processes, it turns a pending process into a row (`Reserved`), or it makes one process
pending and has a cause nobody had before (`Joins`). Causes are never taken back (`CausesGrow`). That they
are new needs `Found`:

* A claim is a new try because no other operation is about a report of the same kind. `SpokenOnce` follows a
  report from the runner through the request to the operation, and says that they are all of one run.
* A reassignment is a new move because the attempt decided about is the newest (`AttemptIsAssignee`) and its
  generation was below the limit when it was decided (`Decided`).
* An operation without a session, or one that waits for input, opens no run (`Decided`): it ends in
  a reassignment or with a human.

`CausesBound` counts the causes: those of a disturbance lie in `trouble \X 1..MaxAttempts`. `MaxDisturbances`
stays in the statement because a failing run and a further call are disturbances, and nothing in the code
bounds their number (section 4, on `worker_recovery_max_execution_attempts`); all that follows from one of
them is bounded by the settings. The guard `Len(exec) < MaxExecutions` of `ReserveCreates` is therefore always
true where the hypothesis of `RunsStayBounded` holds, and the instance of `worker`, where it does, leaves no
behaviour out for want of rows. `Counted`, `SpokenOnce` and `Decided` were model-checked
on that instance, with `MaxExecutions = 7`, before they were proved.

Only model-checked: liveness (`Settles`, `AllDelivered`, `MergesRecorded`, `PlanComesToRest`,
`TaskSettles`, `EveryMentionSettles`), because temporal proofs under fairness and ENABLED are out of the
prover's reach. Every invariant and every action property of the passing runs is stated by a theorem;
those that hold only under a condition name it in their statement (`SuccessHasItsRun`,
`ImplementsOrderCorrect`, `RunsStayBounded`).

## 6. Plan

### 6.1 Next modules, in order

1. `ObservationInbox`: the inbox rows of webhooks and poll results with `claim`, `complete`, `fail`,
   replay (`modules/delivery/application.py`, `infrastructure.py`). Unlike commands, `complete` and
   `fail` are not fenced by a version, so that a processor whose lease was taken over can finish or
   fail the row of its successor. Properties: processed means recorded; a dead row was tried often enough.
2. `PollCursor`: the poller's cursor, back-off and fairness between repositories
   (`modules/delivery/domain.py`, `integrations/scm/poller.py`).
3. `ChangeSetStore`: compare-and-swap of the row against two writers that read twice, and the race of
   two sweeps opening a conflict case. Abstract specification: the atomic operations of `ChangeSet`.
4. `RoomMessages`: the inbox and outbox of the collaboration module. A message left PENDING by a crash is
   never retried (`list_failed` selects FAILED), a late `failed()` overwrites DELIVERED, and
   `list_failed(100)` is unordered.

Twelve runs are kept: a new module takes the place of a run, or runs are merged as in `changeset`,
where one instance can answer several questions.

### 6.2 Next theorems

No property of the present runs is left but liveness. The step lemmas (`RowMoves`, `CallMoves`,
`HandlerMoves`, `OpsMove`, `Acts`) are there for what a next theorem about `WorkerExecution` may need, for
instance a count in which a kind of disturbance happens more than once. The modules of 6.1 come first.

### 6.3 Not modelled, and why

* Collaboration, the observation inbox and the poller: in the plan.
* Agent Bridge: the coding drivers, the Matrix transport, enrolment, the launcher and the leader lane.
  Their effect on the room loop (an answer, a timeout, a failure) is in `AgentBridge`.
* Agent runtime: packages, sessions, provisioning; the runner's workspaces and child processes.
* GitHub's API, git: external; modelled by what the code expects of them.
* Projects, specifications, context, recovery management, observability, identity, repository
  intelligence: mostly records with validation on write; little happens over several steps.
* Web front ends, demos, scripts, deployment, composition root: no state of the protocol.
