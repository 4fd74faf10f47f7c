---------------------------- MODULE PlanExecution ----------------------------
(***************************************************************************)
(* An execution plan of RepoMesh: ordered batches of repository tasks, the *)
(* Repository Leaders' and Workers' tasks under them, and everything that  *)
(* moves them (modules/task_orchestration).  A repository task is expanded *)
(* by the server, or planned and reviewed by an external leader            *)
(* (LeaderSide).  The results of Workers and the observations of merges    *)
(* re-enter AdvanceExecutionPlan in any order and several at once; every   *)
(* database access of such a call is a step of its own.                    *)
(*                                                                         *)
(* Plan and task rows are written with UPDATE ... WHERE version, so a call *)
(* is fresh until someone else writes the row it has read.  The leader     *)
(* assignment has no version: whoever saves last wins.                     *)
(***************************************************************************)
EXTENDS Naturals, Sequences, FiniteSets

CONSTANTS
    Repos,            \* repositories of the plan
    Batches,          \* sequence of disjoint sets of repositories
    FirstBatches,     \* how many of them are planned from the start
    LeaderSide,       \* repositories whose own leader decomposes and reviews
    Nodes,            \* nodes of a leader's plan, one Worker task each
    FirstNode,        \* the Worker task of a repository decomposed by the server
    MaxReworks,       \* bound: review rounds in which rework may be requested
    Callers,          \* concurrent calls of AdvanceExecutionPlan
    DeliveryGated,    \* delivery_auto_enabled
    Occurs,           \* what may go wrong: failures, blocked and untested of Workers, interrupts,
                      \* replay, rerun, retell, facts
    MaxDisturbances,  \* bound: crashes, replays, re-runs and extra observations
    None

ASSUME PlanAssumption ==
    /\ Batches \in Seq(SUBSET Repos) /\ FirstBatches \in 1 .. Len(Batches)
    /\ \A j, k \in DOMAIN Batches : j # k => Batches[j] \cap Batches[k] = {}
    /\ \A k \in DOMAIN Batches : Batches[k] # {}
    /\ UNION {Batches[k] : k \in DOMAIN Batches} = Repos
    /\ LeaderSide \subseteq Repos /\ FirstNode \in Nodes
    /\ MaxReworks \in Nat /\ MaxDisturbances \in Nat

VARIABLES
    plan,           \* the execution_plans row, with the leader tasks it names
    leader,         \* status of the repository (leader) task
    worker,         \* status of each Worker task
    told,           \* Worker tasks that were published and announced
    assignment,     \* the leader_assignments row
    tested,         \* Worker tasks whose evidence carries test results
    published,      \* repositories with a published candidate
    merged,         \* repositories whose candidate is merged
    events,         \* terminal results and observations not yet handled
    caller,         \* what each running call has read, and where it is
    desk,           \* the plan or review a leader is submitting
    operator,       \* the tasks of a round to dispatch again, and the assignments it resets
    disturbances

rows == <<plan, leader, worker, told, assignment>>
delivery == <<tested, published, merged>>
vars == <<rows, delivery, events, caller, desk, operator, disturbances>>

TaskStatus == {"none", "assigned", "blocked", "succeeded", "failed"}
Final == {"succeeded", "failed"}
Open == {"assigned"}

\* Rework of review round v is the Worker task v.
WorkerTask == Nodes \cup 1 .. MaxReworks
LeaderTask == None
\* The Worker tasks in the rows of a repository, as somebody has read them.
Listed(seen) == {t \in WorkerTask : seen[t] # "none"}
Children(r) == Listed(worker[r])

\* Mutant of NoneOpen: a review waits until every Worker has succeeded.
NoneOpen_AllSucceeded(seen) == \A t \in Listed(seen) : seen[t] = "succeeded"

NoneOpen(seen) == \A t \in Listed(seen) : seen[t] \notin Open

NoWorkers == [t \in WorkerTask |-> "none"]
IdleCall == [pc |-> "idle", event |-> None, repo |-> None, verdict |-> "none",
             index |-> 1, fresh |-> TRUE, todo |-> {}, seen |-> NoWorkers, read |-> None]
IdleDesk == [pc |-> "idle", todo |-> {}, read |-> None]
IdleOperator == [tasks |-> {}, unread |-> {}, held |-> [r \in Repos |-> None]]
Unparked == [phase |-> "none", revision |-> 1, evidence |-> {}, reviews |-> {}]

Init ==
    /\ plan = [status |-> "absent", index |-> 1, planned |-> FirstBatches,
               staffed |-> {}, refused |-> FALSE]
    /\ leader = [r \in Repos |-> "none"]
    /\ worker = [r \in Repos |-> [t \in WorkerTask |-> "none"]]
    /\ told = [r \in Repos |-> {}]
    /\ assignment = [r \in Repos |-> Unparked]
    /\ tested = {} /\ published = {} /\ merged = {} /\ events = {}
    /\ caller = [c \in Callers |-> IdleCall]
    /\ desk = [r \in Repos |-> IdleDesk]
    /\ operator = IdleOperator
    /\ disturbances = 0

-----------------------------------------------------------------------------
(* Rows with a version. *)

\* A call whose read of the plan, or in a roll-up of the leader task, is overtaken.
RollingUp == {"list", "lane", "rollup"}
OverPlan(call) ==
    IF call.pc \in RollingUp \cup {"idle", "open"} THEN call ELSE [call EXCEPT !.fresh = FALSE]
OverLeader(call, r) ==
    IF call.pc \in RollingUp /\ call.repo = r THEN [call EXCEPT !.fresh = FALSE] ELSE call

Goto(c, call) == caller' = [caller EXCEPT ![c] = call]
At(c, pc) == caller[c].pc = pc
Return(c) == Goto(c, IdleCall)

\* ExecutionPlanStore.update under the version the call has read; after a
\* conflict the call is over.
UpdatePlan(c, new, next) ==
    \/ /\ caller[c].fresh
       /\ plan' = new
       /\ caller' = [d \in Callers |-> IF d = c THEN next ELSE OverPlan(caller[d])]
    \/ ~caller[c].fresh /\ Return(c) /\ UNCHANGED plan

SetLeader(r, status) ==
    /\ leader' = [leader EXCEPT ![r] = status]
    /\ caller' = [d \in Callers |-> OverLeader(caller[d], r)]

-----------------------------------------------------------------------------
(* AdvanceExecutionPlan.on_task_terminal and reconsider_task. *)

\* A worker's result reaches on_task_terminal, or an approved leader task does. Of a
\* Worker task only its parent is looked at, which never changes; the parent is read here.
TaskTerminal(c) ==
    /\ At(c, "idle")
    /\ \E e \in events :
        /\ e.kind # "observed"
        /\ events' = events \ {e}
        /\ Goto(c, [IdleCall EXCEPT
                !.event = e, !.repo = e.repo, !.verdict = leader[e.repo],
                !.pc = IF e.kind = "worker" /\ leader[e.repo] \notin Final THEN "list" ELSE "find"])
    /\ UNCHANGED <<rows, delivery, desk, operator, disturbances>>

\* _roll_up lists the Worker tasks of the repository ...
ListWorkers(c) ==
    /\ At(c, "list")
    /\ Goto(c, [caller[c] EXCEPT !.pc = "lane", !.seen = worker[caller[c].repo]])
    /\ UNCHANGED <<rows, delivery, events, desk, operator, disturbances>>

\* What the Workers, as listed, make of the repository task.
RolledUp(call, seen) ==
    LET listed == {seen[t] : t \in Listed(seen)}
    IN  IF "failed" \in listed \/ listed = {"succeeded"}
        THEN [call EXCEPT !.pc = "rollup",
                          !.verdict = IF "failed" \in listed THEN "failed" ELSE "succeeded"]
        ELSE IdleCall

\* Mutant of ReadLane: the leader's assignment is not looked at.
ReadLane_IgnoresLeader(c) ==
    /\ At(c, "lane")
    /\ Goto(c, RolledUp([caller[c] EXCEPT !.seen = NoWorkers], caller[c].seen))
    /\ UNCHANGED <<rows, delivery, events, desk, operator, disturbances>>

\* ... and reads the leader's assignment, if there is one, later: the two may belong
\* to different rounds.
ReadLane(c) ==
    /\ At(c, "lane")
    /\ LET seen == caller[c].seen
           call == [caller[c] EXCEPT !.seen = NoWorkers]
           read == assignment[call.repo]
       IN  Goto(c, CASE read.phase = "none" -> RolledUp(call, seen)
                     [] read.phase = "executing" /\ NoneOpen(seen) ->
                           [call EXCEPT !.pc = "open",
                                        !.read = [read EXCEPT !.phase = "review_due",
                                                              !.evidence = Listed(seen)]]
                     [] OTHER -> IdleCall)
    /\ UNCHANGED <<rows, delivery, events, desk, operator, disturbances>>

\* The roll-up's update of the leader task; after a conflict the row as it is now.
RollUp(c) ==
    /\ At(c, "rollup")
    /\ LET call == caller[c]
           status == IF call.fresh THEN call.verdict ELSE leader[call.repo]
           next == IF status \in Final
                   THEN [call EXCEPT !.pc = "find", !.verdict = status, !.fresh = TRUE]
                   ELSE IdleCall
       IN  /\ leader' = [leader EXCEPT ![call.repo] = status]
           /\ caller' = [d \in Callers |->
                            IF d = c THEN next
                            ELSE IF call.fresh THEN OverLeader(caller[d], call.repo)
                            ELSE caller[d]]
    /\ UNCHANGED <<plan, worker, told, assignment, delivery, events, desk, operator, disturbances>>

\* _open_review_if_leader_side saves the assignment it read, with the evidence.
OpenReview(c) ==
    /\ At(c, "open")
    /\ assignment' = [assignment EXCEPT ![caller[c].repo] = caller[c].read]
    /\ Return(c)
    /\ UNCHANGED <<plan, leader, worker, told, delivery, events, desk, operator, disturbances>>

BatchOf(r) == CHOOSE k \in DOMAIN Batches : r \in Batches[k]
HasRead(call, pc) == [call EXCEPT !.pc = pc, !.index = plan.index, !.fresh = TRUE]

\* Mutant of FindPlan: a plan that has ended is taken up again.
FindPlan_Ended(c) ==
    /\ At(c, "find")
    /\ LET call == caller[c]
       IN  IF /\ call.verdict \in Final
              /\ BatchOf(call.repo) \in plan.staffed /\ plan.index = BatchOf(call.repo)
           THEN Goto(c, HasRead(call, IF call.verdict = "succeeded" THEN "ready" ELSE "fail"))
           ELSE Return(c)
    /\ UNCHANGED <<rows, delivery, events, desk, operator, disturbances>>

\* The plan is looked up by its leader task: only a plan in progress whose current
\* batch holds the task goes on.
FindPlan(c) ==
    /\ At(c, "find")
    /\ LET call == caller[c]
       IN  IF /\ call.verdict \in Final
              /\ BatchOf(call.repo) \in plan.staffed
              /\ plan.status = "in_progress" /\ plan.index = BatchOf(call.repo)
           THEN Goto(c, HasRead(call, IF call.verdict = "succeeded" THEN "ready" ELSE "fail"))
           ELSE Return(c)
    /\ UNCHANGED <<rows, delivery, events, desk, operator, disturbances>>

Fail(c) ==
    /\ At(c, "fail")
    /\ UpdatePlan(c, [plan EXCEPT !.status = "failed"], IdleCall)
    /\ UNCHANGED <<leader, worker, told, assignment, delivery, events, desk, operator, disturbances>>

\* reconsider_task, for every candidate of the ChangeSet something was observed of.
Reconsider(c) ==
    /\ At(c, "idle")
    /\ \E e \in events :
        /\ e.kind = "observed"
        /\ events' = events \ {e}
        /\ LET call == [IdleCall EXCEPT !.event = e, !.repo = e.repo]
           IN  IF BatchOf(e.repo) \in plan.staffed /\ plan.status \in {"in_progress", "failed"}
               THEN Goto(c, HasRead(call, IF plan.status = "failed" THEN "reopen" ELSE "ready"))
               ELSE Return(c)
    /\ UNCHANGED <<rows, delivery, desk, operator, disturbances>>

BatchSucceeded(k) == k \in plan.staffed /\ \A r \in Batches[k] : leader[r] = "succeeded"

\* _reopen_if_repaired: the batch is read after the plan, and the plan then written.
Reopen(c) ==
    /\ At(c, "reopen")
    /\ IF BatchSucceeded(caller[c].index)
       THEN UpdatePlan(c, [plan EXCEPT !.status = "in_progress"], [caller[c] EXCEPT !.pc = "ready"])
       ELSE Return(c) /\ UNCHANGED plan
    /\ UNCHANGED <<leader, worker, told, assignment, delivery, events, desk, operator, disturbances>>

\* _advance_if_ready.
Ready(c) ==
    /\ At(c, "ready")
    /\ IF BatchSucceeded(caller[c].index)
       THEN Goto(c, [caller[c] EXCEPT !.pc = IF DeliveryGated THEN "deliver" ELSE "settle"])
       ELSE Return(c)
    /\ UNCHANGED <<rows, delivery, events, desk, operator, disturbances>>

\* The candidate of a repository is its only succeeded Worker task, with test results.
Succeeded(r) == {t \in Children(r) : worker[r][t] = "succeeded"}
Unique(r) == Cardinality(Succeeded(r)) = 1
Deliverable(k) == \A r \in Batches[k] : Unique(r) /\ {r} \X Succeeded(r) \subseteq tested

\* on_batch_deliver publishes the batch, links it with the earlier ones, and may
\* refuse at either; a refusal is recorded once, a repeated one writes nothing.
Deliver(c) ==
    /\ At(c, "deliver")
    /\ LET k == caller[c].index
           linked == \A j \in 1 .. k : \A r \in Batches[j] : Unique(r)
       IN  /\ published' = IF Deliverable(k) THEN published \cup Batches[k] ELSE published
           /\ IF Deliverable(k) /\ linked
              THEN Goto(c, [caller[c] EXCEPT !.pc = "clear"]) /\ UNCHANGED plan
              ELSE IF plan.refused THEN Return(c) /\ UNCHANGED plan
              ELSE UpdatePlan(c, [plan EXCEPT !.refused = TRUE], IdleCall)
    /\ UNCHANGED <<leader, worker, told, assignment, tested, merged, events, desk, operator,
                   disturbances>>

\* Mutant of ClearRefusal: the refusal stays on the plan.
ClearRefusal_Forgotten(c) ==
    /\ At(c, "clear") /\ Goto(c, [caller[c] EXCEPT !.pc = "gate"])
    /\ UNCHANGED <<rows, delivery, events, desk, operator, disturbances>>

\* A call that has been overtaken has nothing left to write, and ends here.
ClearRefusal(c) ==
    /\ At(c, "clear")
    /\ IF caller[c].fresh /\ ~plan.refused
       THEN Goto(c, [caller[c] EXCEPT !.pc = "gate"]) /\ UNCHANGED plan
       ELSE UpdatePlan(c, [plan EXCEPT !.refused = FALSE], [caller[c] EXCEPT !.pc = "gate"])
    /\ UNCHANGED <<leader, worker, told, assignment, delivery, events, desk, operator, disturbances>>

\* Mutant of Gate: a published batch counts as merged.
Gate_Published(c) ==
    /\ At(c, "gate")
    /\ IF Batches[caller[c].index] \subseteq published
       THEN Goto(c, [caller[c] EXCEPT !.pc = "settle"])
       ELSE Return(c)
    /\ UNCHANGED <<rows, delivery, events, desk, operator, disturbances>>

\* _delivery_gate: every repository of the batch is merged.
Gate(c) ==
    /\ At(c, "gate")
    /\ IF Batches[caller[c].index] \subseteq merged
       THEN Goto(c, [caller[c] EXCEPT !.pc = "settle"])
       ELSE Return(c)
    /\ UNCHANGED <<rows, delivery, events, desk, operator, disturbances>>

\* Mutant of Settle: the last batch is advanced like the others.
Settle_PastTheEnd(c) ==
    /\ At(c, "settle")
    /\ UpdatePlan(c, [plan EXCEPT !.index = @ + 1], IdleCall)
    /\ UNCHANGED <<leader, worker, told, assignment, delivery, events, desk, operator, disturbances>>

Settle(c) ==
    /\ At(c, "settle")
    /\ LET next == plan.index + 1
       IN  IF plan.index = plan.planned
           THEN UpdatePlan(c, [plan EXCEPT !.status = "completed"], IdleCall)
           ELSE UpdatePlan(c, [plan EXCEPT !.index = next],
                           [caller[c] EXCEPT !.pc = "assign", !.index = next, !.todo = Batches[next]])
    /\ UNCHANGED <<leader, worker, told, assignment, delivery, events, desk, operator, disturbances>>

-----------------------------------------------------------------------------
(* start, _resume and _assign_batch. *)

Start(c) ==
    /\ At(c, "idle") /\ plan.status = "absent"
    /\ plan' = [plan EXCEPT !.status = "in_progress"]
    /\ Goto(c, [IdleCall EXCEPT !.pc = "assign", !.todo = Batches[1]])
    /\ UNCHANGED <<leader, worker, told, assignment, delivery, events, desk, operator, disturbances>>

\* The operator materializes the plan again under the same key.
Resume(c) ==
    /\ "replay" \in Occurs /\ disturbances < MaxDisturbances
    /\ At(c, "idle") /\ plan.status = "in_progress"
    /\ Goto(c, [IdleCall EXCEPT !.pc = "assign", !.index = plan.index, !.todo = Batches[plan.index]])
    /\ disturbances' = disturbances + 1
    /\ UNCHANGED <<rows, delivery, events, desk, operator>>

\* One leader task after the other, found by its key if it is there.
AssignLeader(c) ==
    /\ At(c, "assign")
    /\ \E r \in caller[c].todo :
        /\ leader' = [leader EXCEPT ![r] = IF @ = "none" THEN "assigned" ELSE @]
        /\ Goto(c, [caller[c] EXCEPT !.todo = @ \ {r}])
    /\ UNCHANGED <<plan, worker, told, assignment, delivery, events, desk, operator, disturbances>>

\* The plan names its leader tasks; a conflict here is raised and ends the call.
RecordLeaders(c) ==
    /\ At(c, "assign") /\ caller[c].todo = {}
    /\ UpdatePlan(c, [plan EXCEPT !.staffed = @ \cup {caller[c].index}],
                  [caller[c] EXCEPT !.pc = "expand", !.todo = Batches[caller[c].index]])
    /\ UNCHANGED <<leader, worker, told, assignment, delivery, events, desk, operator, disturbances>>

\* A Worker task is a row first, and announced once its permit is written.
CreateRow(r, t) ==
    /\ worker[r][t] = "none"
    /\ worker' = [worker EXCEPT ![r][t] = "assigned"]
    /\ UNCHANGED told
Announce(r, t) ==
    /\ worker[r][t] # "none"
    /\ told' = [told EXCEPT ![r] = @ \cup {t}]
    /\ UNCHANGED worker

Expanded(c, r) ==
    LET left == caller[c].todo \ {r}
    IN  IF left = {} THEN Return(c) ELSE Goto(c, [caller[c] EXCEPT !.todo = left])

\* DecomposeRepositoryTask: row, permit, announcement.
Decompose(c) ==
    /\ At(c, "expand")
    /\ \E r \in caller[c].todo \ LeaderSide :
        \/ CreateRow(r, FirstNode) /\ UNCHANGED caller
        \/ Announce(r, FirstNode) /\ Expanded(c, r)
    /\ UNCHANGED <<plan, leader, assignment, delivery, events, desk, operator, disturbances>>

\* _park_for_leader: the first write of the assignment stays.
Park(c) ==
    /\ At(c, "expand")
    /\ \E r \in caller[c].todo \cap LeaderSide :
        /\ assignment' = [assignment EXCEPT ![r].phase = IF @ = "none" THEN "planning" ELSE @]
        /\ Expanded(c, r)
    /\ UNCHANGED <<plan, leader, worker, told, delivery, events, desk, operator, disturbances>>

\* A process dies or a step raises: the call is over where it stands.  A Runner
\* event or observation whose handling died is delivered again; one whose handling
\* raised counts as handled, and so does the end of an accepted review.
Interrupt(c) ==
    /\ "interrupts" \in Occurs /\ disturbances < MaxDisturbances
    /\ ~At(c, "idle")
    /\ Return(c)
    /\ \/ UNCHANGED events
       \/ /\ caller[c].event # None /\ caller[c].event.kind # "leader"
          /\ events' = events \cup {caller[c].event}
    /\ disturbances' = disturbances + 1
    /\ UNCHANGED <<rows, delivery, desk, operator>>

-----------------------------------------------------------------------------
(* The leader's actions: SubmitRepositoryPlan and SubmitRepositoryReview. *)

Desk(r, next) == desk' = [desk EXCEPT ![r] = next]

SubmitPlan(r) ==
    /\ desk[r].pc = "idle" /\ assignment[r].phase = "planning"
    /\ Desk(r, [pc |-> "plan", todo |-> Nodes, read |-> assignment[r]])
    /\ UNCHANGED <<rows, delivery, events, caller, operator, disturbances>>

\* The Worker tasks of a plan or of a rework, each announced before the next.
DispatchTask(r) ==
    /\ desk[r].pc \in {"plan", "rework"}
    /\ \E t \in desk[r].todo :
        \/ CreateRow(r, t) /\ UNCHANGED desk
        \/ Announce(r, t) /\ Desk(r, [desk[r] EXCEPT !.todo = @ \ {t}])
    /\ UNCHANGED <<plan, leader, assignment, delivery, events, caller, operator, disturbances>>

SavePlan(r) ==
    /\ desk[r].pc = "plan" /\ desk[r].todo = {}
    /\ assignment' = [assignment EXCEPT ![r] = [desk[r].read EXCEPT !.phase = "executing"]]
    /\ Desk(r, IdleDesk)
    /\ UNCHANGED <<plan, leader, worker, told, delivery, events, caller, operator, disturbances>>

ReviewDue(r) ==
    /\ desk[r].pc = "idle" /\ assignment[r].phase = "review_due"
    /\ assignment[r].revision \notin assignment[r].reviews

RequestRework(r) ==
    /\ ReviewDue(r) /\ assignment[r].revision \in 1 .. MaxReworks
    /\ Desk(r, [pc |-> "rework", todo |-> {assignment[r].revision}, read |-> assignment[r]])
    /\ UNCHANGED <<rows, delivery, events, caller, operator, disturbances>>

SaveRework(r) ==
    /\ desk[r].pc = "rework" /\ desk[r].todo = {}
    /\ LET read == desk[r].read
       IN  assignment' = [assignment EXCEPT ![r] =
               [phase |-> "executing", revision |-> read.revision + 1, evidence |-> {},
                reviews |-> read.reviews \cup {read.revision}]]
    /\ Desk(r, IdleDesk)
    /\ UNCHANGED <<plan, leader, worker, told, delivery, events, caller, operator, disturbances>>

\* approve and escalate: the leader task is reported first, unless an earlier
\* attempt did; a task that has finished otherwise refuses the verdict.
Reported == [approve |-> "succeeded", escalate |-> "blocked"]

Judge(r, verdict) ==
    /\ ReviewDue(r)
    /\ leader[r] \in Final => leader[r] = Reported[verdict]
    /\ Desk(r, [pc |-> verdict, todo |-> {}, read |-> assignment[r]])
    /\ UNCHANGED <<rows, delivery, events, caller, operator, disturbances>>

ReportVerdict(r) ==
    /\ desk[r].pc \in DOMAIN Reported
    /\ LET reported == Reported[desk[r].pc]
       IN  IF leader[r] \in Final \ {reported}
           THEN Desk(r, IdleDesk) /\ UNCHANGED <<leader, caller>>
           ELSE SetLeader(r, reported) /\ Desk(r, [desk[r] EXCEPT !.pc = reported])
    /\ UNCHANGED <<plan, worker, told, assignment, delivery, events, operator, disturbances>>

\* Only then the assignment is closed, and the plan told of an approval.
CloseReview(r) ==
    /\ desk[r].pc \in {"succeeded", "blocked"}
    /\ LET read == desk[r].read
       IN  assignment' = [assignment EXCEPT ![r] =
               [read EXCEPT !.phase = "closed", !.reviews = @ \cup {read.revision}]]
    /\ events' = IF desk[r].pc = "succeeded"
                 THEN events \cup {[kind |-> "leader", repo |-> r, task |-> None]} ELSE events
    /\ Desk(r, IdleDesk)
    /\ UNCHANGED <<plan, leader, worker, told, delivery, caller, operator, disturbances>>

DropSubmission(r) ==
    /\ "interrupts" \in Occurs /\ disturbances < MaxDisturbances
    /\ desk[r].pc # "idle"
    /\ Desk(r, IdleDesk)
    /\ disturbances' = disturbances + 1
    /\ UNCHANGED <<rows, delivery, events, caller, operator>>

-----------------------------------------------------------------------------
(* RedispatchRound. *)

Entry(r, t, redo) == [repo |-> r, task |-> t, redo |-> redo]
RowOf(r, t) == IF t = LeaderTask THEN leader[r] ELSE worker[r][t]
Recorded == UNION {Batches[k] : k \in plan.staffed}
RoundTasks == {x \in Recorded \X (WorkerTask \cup {LeaderTask}) : RowOf(x[1], x[2]) # "none"}

\* The tasks of the round are listed; scope=unfinished tells the unfinished ones again,
\* scope=rerun takes the finished ones too, and looks at the assignments first.
Redispatch(rerun) ==
    LET listed == {Entry(x[1], x[2], RowOf(x[1], x[2]) \in Final) : x \in RoundTasks}
    IN  /\ (IF rerun THEN "rerun" ELSE "retell") \in Occurs
        /\ disturbances < MaxDisturbances
        /\ operator = IdleOperator
        /\ operator' = [operator EXCEPT
                !.tasks = IF rerun THEN listed ELSE {x \in listed : ~x.redo},
                !.unread = IF rerun THEN {x.repo : x \in listed} ELSE {}]
        /\ operator' # operator
        /\ disturbances' = disturbances + 1
        /\ UNCHANGED <<rows, delivery, events, caller, desk>>

\* An assignment in review is held, and its leader is not told.
HoldRound(r) ==
    /\ r \in operator.unread
    /\ operator' =
          IF assignment[r].phase \in {"review_due", "closed"}
          THEN [operator EXCEPT !.unread = @ \ {r}, !.held[r] = assignment[r],
                    !.tasks = @ \ {Entry(r, LeaderTask, redo) : redo \in BOOLEAN}]
          ELSE [operator EXCEPT !.unread = @ \ {r}]
    /\ UNCHANGED <<rows, delivery, events, caller, desk, disturbances>>

\* It is saved as it was read, in a new round.  Nothing left to tell refuses the request.
ResetRound(r) ==
    /\ operator.unread = {} /\ operator.held[r] # None
    /\ IF operator.tasks = {} THEN operator' = IdleOperator /\ UNCHANGED assignment
       ELSE /\ assignment' = [assignment EXCEPT ![r] =
                   [operator.held[r] EXCEPT !.phase = "executing", !.revision = @ + 1,
                                            !.evidence = {}]]
            /\ operator' = [operator EXCEPT !.held[r] = None]
    /\ UNCHANGED <<plan, leader, worker, told, delivery, events, caller, desk, disturbances>>

\* Unfinished tasks come first, then those to redo, batch by batch, a leader before
\* its Workers.  A task that has finished in the meantime ends the round's dispatch
\* unless it was to be redone.
Precedes(y, x) ==
    \/ ~y.redo /\ x.redo
    \/ /\ y.redo = x.redo
       /\ \/ BatchOf(y.repo) < BatchOf(x.repo)
          \/ y.repo = x.repo /\ y.task = LeaderTask /\ x.task # LeaderTask

RedispatchTask ==
    /\ operator.unread = {} /\ operator.held = IdleOperator.held
    /\ \E x \in operator.tasks :
        LET r == x.repo
            final == RowOf(r, x.task) \in Final
        IN  /\ \A y \in operator.tasks : ~Precedes(y, x)
            /\ operator' = IF final /\ ~x.redo THEN IdleOperator
                           ELSE [operator EXCEPT !.tasks = @ \ {x}]
            /\ IF x.task = LeaderTask
               THEN /\ IF final /\ x.redo THEN SetLeader(r, "assigned")
                       ELSE UNCHANGED <<leader, caller>>
                    /\ UNCHANGED <<worker, told>>
               ELSE /\ worker' = IF final /\ x.redo
                                 THEN [worker EXCEPT ![r][x.task] = "assigned"] ELSE worker
                    /\ told' = IF final /\ ~x.redo THEN told
                               ELSE [told EXCEPT ![r] = @ \cup {x.task}]
                    /\ UNCHANGED <<leader, caller>>
    /\ UNCHANGED <<plan, assignment, delivery, events, desk, disturbances>>

-----------------------------------------------------------------------------
(* Dynamic plan revision, Workers and delivery. *)

\* Mutant of AppendBatch: a plan that has ended is extended.
AppendBatch_Ended ==
    /\ plan.planned < Len(Batches)
    /\ plan' = [plan EXCEPT !.planned = @ + 1, !.refused = FALSE]
    /\ caller' = [c \in Callers |-> OverPlan(caller[c])]
    /\ UNCHANGED <<leader, worker, told, assignment, delivery, events, desk, operator,
                   disturbances>>

\* DynamicPlanRevisionService.append: one more batch, under the plan's version.
AppendBatch ==
    /\ plan.status = "in_progress" /\ plan.planned < Len(Batches)
    /\ plan' = [plan EXCEPT !.planned = @ + 1, !.refused = FALSE]
    /\ caller' = [c \in Callers |-> OverPlan(caller[c])]
    /\ UNCHANGED <<leader, worker, told, assignment, delivery, events, desk, operator,
                   disturbances>>

\* _write_back of a Runner's terminal event.  A blocked task is not scheduled on.
Report(r, t, status, hasTests) ==
    /\ t \in told[r] /\ worker[r][t] \notin Final \cup {status}
    /\ worker' = [worker EXCEPT ![r][t] = status]
    /\ tested' = IF hasTests THEN tested \cup {<<r, t>>} ELSE tested \ {<<r, t>>}
    /\ events' = IF status \in Final
                 THEN events \cup {[kind |-> "worker", repo |-> r, task |-> t]} ELSE events
    /\ UNCHANGED <<plan, leader, told, assignment, published, merged, caller, desk, operator,
                   disturbances>>

\* A published candidate gets merged, and the merge observed.
Merge(r) ==
    /\ r \in published \ merged
    /\ merged' = merged \cup {r}
    /\ events' = events \cup {[kind |-> "observed", repo |-> r, task |-> None]}
    /\ UNCHANGED <<rows, tested, published, caller, desk, operator, disturbances>>

\* Any other fact about the ChangeSet.
Observe(r) ==
    /\ "facts" \in Occurs /\ disturbances < MaxDisturbances
    /\ r \in published
    /\ events' = events \cup {[kind |-> "observed", repo |-> r, task |-> None]}
    /\ disturbances' = disturbances + 1
    /\ UNCHANGED <<rows, delivery, caller, desk, operator>>

-----------------------------------------------------------------------------
CallerStep(c) ==
    \/ TaskTerminal(c) \/ ListWorkers(c) \/ ReadLane(c) \/ RollUp(c) \/ OpenReview(c)
    \/ FindPlan(c) \/ Fail(c)
    \/ Reconsider(c) \/ Reopen(c) \/ Ready(c) \/ Deliver(c) \/ ClearRefusal(c)
    \/ Gate(c) \/ Settle(c)
    \/ Start(c) \/ AssignLeader(c) \/ RecordLeaders(c) \/ Decompose(c) \/ Park(c)

DeskStep(r) ==
    \/ SubmitPlan(r) \/ DispatchTask(r) \/ SavePlan(r) \/ RequestRework(r) \/ SaveRework(r)
    \/ \E verdict \in DOMAIN Reported : Judge(r, verdict)
    \/ ReportVerdict(r) \/ CloseReview(r)

OperatorStep ==
    \/ \E r \in Repos : HoldRound(r) \/ ResetRound(r)
    \/ RedispatchTask

\* How a Worker may end its task.
WorkerReports(r, t) ==
    \/ Report(r, t, "succeeded", TRUE)
    \/ "untested" \in Occurs /\ Report(r, t, "succeeded", FALSE)
    \/ "failures" \in Occurs /\ Report(r, t, "failed", FALSE)
    \/ "blocked" \in Occurs /\ Report(r, t, "blocked", FALSE)

Next ==
    \/ \E c \in Callers : CallerStep(c) \/ Resume(c) \/ Interrupt(c)
    \/ \E r \in Repos :
          \/ DeskStep(r) \/ DropSubmission(r) \/ Merge(r) \/ Observe(r)
          \/ \E t \in WorkerTask : WorkerReports(r, t)
    \/ \E rerun \in BOOLEAN : Redispatch(rerun)
    \/ OperatorStep
    \/ AppendBatch

Spec == Init /\ [][Next]_vars

\* A call that has begun goes on, an event is handled, a leader answers what it is
\* asked, a Worker that was told reports, and a published candidate is merged.
Fairness ==
    /\ \A c \in Callers : WF_vars(CallerStep(c))
    /\ \A r \in Repos :
          /\ WF_vars(DeskStep(r)) /\ WF_vars(Merge(r))
          /\ \A t \in WorkerTask : WF_vars(WorkerReports(r, t))
    /\ WF_vars(OperatorStep)

FairSpec == Spec /\ Fairness

-----------------------------------------------------------------------------
(* What the runs check. *)

Phase == {"none", "planning", "executing", "review_due", "closed"}
Round == 1 .. (MaxReworks + MaxDisturbances + 1)
Assignment == [phase : Phase, revision : Round, evidence : SUBSET WorkerTask, reviews : SUBSET Round]
Event == [kind : {"worker", "leader", "observed"}, repo : Repos, task : WorkerTask \cup {None}]

\* Rows, calls and submissions keep their shape.
PlanTypeOK ==
    /\ plan \in [status : {"absent", "in_progress", "failed", "completed"},
                 index : DOMAIN Batches, planned : DOMAIN Batches,
                 staffed : SUBSET DOMAIN Batches, refused : BOOLEAN]
    /\ plan.index <= plan.planned
    /\ leader \in [Repos -> TaskStatus]
    /\ worker \in [Repos -> [WorkerTask -> TaskStatus]]
    /\ told \in [Repos -> SUBSET WorkerTask]
    /\ assignment \in [Repos -> Assignment]
    /\ tested \subseteq Repos \X WorkerTask /\ merged \subseteq published /\ published \subseteq Repos
    /\ events \subseteq Event
    /\ \A c \in Callers : caller[c].event \in Event \cup {None}
    /\ \A r \in Repos : desk[r].todo \subseteq WorkerTask
    /\ disturbances \in 0 .. MaxDisturbances

\* With delivery on, nobody is given a task of a batch before every repository of
\* the batches before it is merged, whatever calls, replays and re-runs overlap.
BatchesInOrder ==
    DeliveryGated =>
        \A k \in DOMAIN Batches : \A j \in 1 .. k - 1 :
            (\E r \in Batches[k] : leader[r] # "none") => Batches[j] \subseteq merged

\* A completed plan has merged every repository it was ever extended to.
CompletedMeansDelivered ==
    DeliveryGated /\ plan.status = "completed" =>
        \A k \in 1 .. plan.planned : Batches[k] \subseteq merged

\* "COMPLETED stays terminal": no call, result, re-run or extension that began
\* earlier or comes later changes a completed plan.
CompletedIsFinal == [][plan.status = "completed" => UNCHANGED plan]_vars

\* A round whose delivery was refused goes on only after the refusal was withdrawn.
RefusalHolds ==
    [][plan.refused => plan'.index = plan.index /\ plan'.status # "completed"]_vars

\* Leader mode: whatever lists, assignments and saves overlap, no roll-up ends the leader's
\* task; its own verdict does, and only a re-run takes an approval back.
LeaderDecides ==
    [][\A r \in LeaderSide :
          leader'[r] # leader[r] =>
              \/ leader[r] = "none"
              \/ /\ leader[r] \notin Final /\ desk[r].pc \in DOMAIN Reported
                 /\ leader'[r] = Reported[desk[r].pc]
              \/ Entry(r, LeaderTask, TRUE) \in operator.tasks]_vars

\* A plan comes to rest where somebody can see why: completed, failed, refused by delivery,
\* or with a leader or a Worker that asks for help.
AtRest ==
    \/ plan.status \in {"completed", "failed"} \/ plan.refused
    \/ \E r \in Repos : leader[r] = "blocked" \/ \E t \in WorkerTask : worker[r][t] = "blocked"
\* The race in which the assignment, saved without a version, loses a finished round: a
\* Worker has ended before the submission that hands out its task is saved.
HandsOut(r) == CASE desk[r].pc = "plan" -> Nodes
                 [] desk[r].pc = "rework" -> {desk[r].read.revision}
                 [] OTHER -> {}
TooFast(r) == \E t \in HandsOut(r) : worker[r][t] \in Final
Undisturbed == disturbances = 0 /\ plan.planned = FirstBatches /\ \A r \in Repos : ~TooFast(r)
PlanComesToRest == []Undisturbed => <>AtRest

\* "It fires when no worker task is still open" (_open_review_if_leader_side): no review is
\* opened, and no package shown, while a Worker task of the repository is unfinished.  The
\* code does not keep it: the tasks are listed before the assignment is read, and a plan or
\* a rework may be handed out and saved in between.
ReviewShowsAll ==
    [][\A r \in LeaderSide :
          assignment[r].phase = "executing" /\ assignment'[r].phase = "review_due"
              => NoneOpen(worker[r])]_vars

\* "The recorded refusal is cleared, and the ordinary advance continues": work of
\* which every Worker brought test results and the leader approved is published.
ApprovedIsPublished ==
    \A r \in LeaderSide :
        (leader[r] = "succeeded" /\ {r} \X Succeeded(r) \subseteq tested) ~> (r \in published)
=============================================================================
