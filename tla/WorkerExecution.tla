---------------------------- MODULE WorkerExecution -----------------------------
(***************************************************************************)
(* How a Worker task gets run, and what happens when the run is lost.          *)
(*                                                                             *)
(* A call of StartAssignedWorkerTask.execute reserves the task and the Worker,  *)
(* prepares a workspace and puts a dispatch on the runner queue; every await    *)
(* between two transactions is a step of its own. A runner leases the dispatch, *)
(* accepts it, works and reports; RunnerControlGateway.receive_event records    *)
(* the report, writes the result to the task and opens a recovery operation     *)
(* for a run that failed. The WorkerRecoveryReconciler finds reservations whose *)
(* lease ran out, claims recovery operations and resumes, reassigns or          *)
(* escalates. An assignment attempt's generation fences superseded Workers.     *)
(*                                                                             *)
(* Time is abstract: a lease that has been given may run out. The owner and the *)
(* fencing version of a reservation are left out: only the call that created a  *)
(* row knows its id, and whatever bumps the version also ends the task. A start  *)
(* or block reads the task and updates it under the version it read: one step,   *)
(* with a conflict among the ways a step may be refused (Crash).                 *)
(***************************************************************************)
EXTENDS Integers, Sequences, FiniteSets

CONSTANTS
    Workers, FirstWorker,   \* the Workers of the team, and the one the task goes to
    Callers,            \* calls of start_assigned_task by the assigned Worker
    Reconcilers,        \* server processes with recovery enabled
    Handlers,           \* concurrent requests delivering runner events
    MaxReassignments,   \* worker_recovery_max_reassignments
    MaxAttempts,        \* worker_recovery_max_execution_attempts
    Occurs,             \* the disturbances of an instance
    MaxDisturbances,    \* bound: how many of them in a behaviour, each once
    MaxExecutions,      \* bound: reservations ever made
    None

ASSUME WorkerAssumption ==
    /\ FirstWorker \in Workers
    /\ Callers \cap Reconcilers = {}
    /\ MaxReassignments \in Nat /\ MaxAttempts \in Nat \ {0}
    /\ MaxDisturbances \in Nat /\ MaxExecutions \in Nat \ {0}
    /\ Occurs \subseteq {"crash", "slow", "prepare_fails", "dispatch_fails", "failed",
                         "interrupted", "input_required", "sessions", "unhealthy",
                         "redelivered", "two_runners", "runner_dies", "operator",
                         "busy", "start_twice", "start_again"}

VARIABLES
    task,       \* the task row: status, assignee, version
    attempts,   \* attempts[g]: its assignment attempt of generation g
    exec,       \* execution reservations, each with the dispatch of its run
    op,         \* op[e]: the recovery operation of execution e
    asked,      \* executions for which a human review was requested
    proc,       \* calls of execute, and reconcilers
    handler,    \* runner events being received
    trouble     \* the kinds of disturbance that have happened

vars == <<task, attempts, exec, op, asked, proc, handler, trouble>>

Results == {"completed", "failed", "interrupted", "input_required"}
Live == {"queued", "leased", "accepted"}
Active == {"preparing", "running"}
Final == {"SUCCEEDED", "FAILED"}
Procs == Callers \cup Reconcilers
Executions == DOMAIN exec
Rows == 1..MaxExecutions

TaskRow == [status : {"ASSIGNED", "IN_PROGRESS", "BLOCKED"} \cup Final,
            assignee : Workers, version : Nat]
Attempt == [worker : Workers, state : {"active", "superseded", "completed"}]
\* lease: the reservation's; offer: the dispatch's, while it is leased to a runner;
\* busy: runners at work on it; told: results published and not yet acknowledged;
\* evidence: whether the terminal event in the table may be projected.
Execution == [worker : Workers, gen : Nat \ {0},
              status : Active \cup {"succeeded", "failed", "expired"},
              lease : BOOLEAN,
              dispatch : {"none"} \cup Live \cup Results, offer : BOOLEAN,
              starting : 0..2, busy : 0..2, told : SUBSET Results,
              evidence : {"none", "accepted", "rejected"}]
Operation == [state : {"none", "pending", "running", "completed", "escalated"},
              reason : Results \cup {"lease_expired"}, session : BOOLEAN,
              attempts : Nat, lease : BOOLEAN, owner : Reconcilers \cup {None},
              decision : {None, "resume", "reassign"}]
NoOperation == [state |-> "none", reason |-> "lease_expired", session |-> FALSE,
                attempts |-> 0, lease |-> FALSE, owner |-> None, decision |-> None]
Preparing == {"bind", "start", "prepare", "renew", "restart", "enqueue", "payload",
              "release", "giveup", "block", "block_first"}
Process == [pc : {"idle", "done", "begin", "in_flight", "assign", "reserve", "wait",
                  "look", "decide", "reopen", "reassign", "finish"} \cup Preparing,
            worker : Workers \cup {None}, gen : Nat,
            exec : 0..MaxExecutions, op : 0..MaxExecutions, seen : Nat,
            verdict : {None, "completed", "escalated"}]
Request == [pc : {"idle", "record", "project", "write", "complete", "recover"},
            exec : 0..MaxExecutions, kind : Results \cup {None}, allowed : BOOLEAN,
            seen : Nat]
Idle == [pc |-> "idle", worker |-> None, gen |-> 0, exec |-> 0,
         op |-> 0, seen |-> 0, verdict |-> None]
NoRequest == [pc |-> "idle", exec |-> 0, kind |-> None, allowed |-> FALSE, seen |-> 0]

Init ==
    /\ task = [status |-> "ASSIGNED", assignee |-> FirstWorker, version |-> 1]
    /\ attempts = <<>>
    /\ exec = <<>>
    /\ op = [e \in Rows |-> NoOperation]
    /\ asked = {}
    /\ proc = [p \in Procs |-> Idle]
    /\ handler = [h \in Handlers |-> NoRequest]
    /\ trouble = {}

Disturb(kind) ==
    /\ kind \in Occurs \ trouble /\ Cardinality(trouble) < MaxDisturbances
    /\ trouble' = trouble \cup {kind}
Calm == UNCHANGED trouble

-----------------------------------------------------------------------------
(* Reservations, attempts and processes. *)

ActiveGeneration == {g \in DOMAIN attempts : attempts[g].state = "active"}
ActiveRows == {e \in Executions : exec[e].status \in Active}
Owned(e) == exec[e].status \in Active /\ exec[e].lease
\* Whatever ends a row clears its lease.
Ended(row, status) == [row EXCEPT !.status = status, !.lease = FALSE]
\* allows_projection: the assignment attempt of the run is not superseded.
AllowsProjection(e) == attempts[exec[e].gen].state # "superseded"

At(p, pc) == proc[p].pc = pc
Goto(p, pc) == proc' = [proc EXCEPT ![p].pc = pc]
\* A call ends. A reconciler whose call returned finishes its operation; after an
\* exception it only logs, and the operation stays claimed until its lease is over.
Stops(p) == proc' = [proc EXCEPT ![p] = [Idle EXCEPT !.pc = IF p \in Callers THEN "done" ELSE "idle"]]
Return(p) ==
    IF p \in Callers THEN Stops(p)
    ELSE proc' = [proc EXCEPT ![p] = [Idle EXCEPT !.pc = "finish", !.op = proc[p].op,
                                                  !.verdict = proc[p].verdict]]
Raise(p) == Stops(p)

\* A versioned update of the task.
TaskBecomes(status) == task' = [task EXCEPT !.status = status, !.version = @ + 1]

-----------------------------------------------------------------------------
(* StartAssignedWorkerTask.execute, step by step. *)

\* The assigned Worker follows its instructions; a call after the first
\* counts as a disturbance.
Call(c) ==
    /\ c \in Callers /\ At(c, "idle")
    /\ IF \A d \in Callers : At(d, "idle") THEN Calm
       ELSE Disturb(IF task.status \in Final THEN "start_again" ELSE "start_twice")
    /\ proc' = [proc EXCEPT ![c].pc = "begin", ![c].worker = FirstWorker]
    /\ UNCHANGED <<task, attempts, exec, op, asked, handler>>

Begin(p) ==
    /\ At(p, "begin")
    /\ IF task.assignee = proc[p].worker THEN Goto(p, "in_flight") ELSE Raise(p)
    /\ UNCHANGED <<task, attempts, exec, op, asked, handler>> /\ Calm

\* Mutant of InFlight: a run under way is not handed back.
InFlight_Unread(p) ==
    /\ At(p, "in_flight") /\ Goto(p, "assign")
    /\ UNCHANGED <<task, attempts, exec, op, asked, handler>> /\ Calm

\* A run of this Worker that may still produce a result is handed back.
InFlight(p) ==
    /\ At(p, "in_flight")
    /\ IF \E e \in Executions : exec[e].worker = proc[p].worker /\ exec[e].dispatch \in Live
       THEN Return(p) ELSE Goto(p, "assign")
    /\ UNCHANGED <<task, attempts, exec, op, asked, handler>> /\ Calm

\* Mutant of WithAttempt: ensure_initial does not look for an active attempt.
WithAttempt_Fresh == Append(attempts, [worker |-> task.assignee, state |-> "active"])

\* ensure_initial: the active attempt, or a fresh generation after the last.
WithAttempt ==
    IF ActiveGeneration # {} THEN attempts
    ELSE Append(attempts, [worker |-> task.assignee, state |-> "active"])
GenerationOf(seq) == CHOOSE g \in DOMAIN seq : seq[g].state = "active"

EnsureInitial(p) ==
    /\ At(p, "assign")
    /\ attempts' = WithAttempt
    /\ proc' = [proc EXCEPT ![p].pc = "reserve", ![p].gen = GenerationOf(WithAttempt)]
    /\ UNCHANGED <<task, exec, op, asked, handler>> /\ Calm

\* An active row of another binding refuses the call, even when it has expired.
BindingFits(p, e) == exec[e].worker = proc[p].worker /\ exec[e].gen = proc[p].gen
NewExecution(w, g) ==
    [worker |-> w, gen |-> g, status |-> "preparing", lease |-> TRUE,
     dispatch |-> "none", offer |-> FALSE, starting |-> 0, busy |-> 0, told |-> {},
     evidence |-> "none"]

ReserveJoins(p) ==
    /\ \E e \in ActiveRows :
        IF ~BindingFits(p, e) THEN Raise(p) ELSE exec[e].lease /\ Goto(p, "wait")
    /\ UNCHANGED exec /\ Calm
Reclaimable(p) == \A e \in ActiveRows : BindingFits(p, e) /\ ~exec[e].lease
\* A task of another project may hold the Worker's only slot.
ReserveRefused(p) ==
    /\ Reclaimable(p) /\ Disturb("busy")
    /\ Raise(p) /\ UNCHANGED exec
ReserveCreates(p) ==
    LET swept == [e \in Executions |-> IF e \in ActiveRows THEN Ended(exec[e], "expired")
                                       ELSE exec[e]]
    IN /\ Reclaimable(p) /\ Len(exec) < MaxExecutions
       /\ exec' = Append(swept, NewExecution(proc[p].worker, proc[p].gen))
       /\ proc' = [proc EXCEPT ![p].pc = "bind", ![p].exec = Len(exec) + 1]
       /\ Calm
Reserve(p) ==
    /\ At(p, "reserve")
    /\ ReserveJoins(p) \/ ReserveRefused(p) \/ ReserveCreates(p)
    /\ UNCHANGED <<task, attempts, op, asked, handler>>

\* _wait_for_reserved_execution returns once the payload is there, and gives up
\* when the row has gone or the wait is over.
Wait(p) ==
    /\ At(p, "wait")
    /\ \/ (\E e \in ActiveRows : exec[e].status = "running") /\ Return(p)
       \/ (\A e \in ActiveRows : exec[e].status # "running") /\ Raise(p)
    /\ UNCHANGED <<task, attempts, exec, op, asked, handler>> /\ Calm

\* bind_execution; a conflict here leaves the reservation as it is.
Bind(p) ==
    /\ At(p, "bind")
    /\ IF ActiveGeneration = {proc[p].gen} THEN Goto(p, "start") ELSE Raise(p)
    /\ UNCHANGED <<task, attempts, exec, op, asked, handler>> /\ Calm

\* TaskExecutionState.start
MayStart(p) ==
    /\ task.assignee = proc[p].worker
    /\ task.status \notin Final
TaskStarted(p) ==
    IF task.status = "IN_PROGRESS" THEN UNCHANGED task
    ELSE TaskBecomes("IN_PROGRESS")
StartTask(p) ==
    /\ At(p, "start")
    /\ IF MayStart(p) THEN TaskStarted(p) /\ Goto(p, "prepare")
       ELSE Raise(p) /\ UNCHANGED task
    /\ UNCHANGED <<attempts, exec, op, asked, handler>> /\ Calm

\* Package, capabilities, worktree and context bundle.
Prepare(p) ==
    /\ At(p, "prepare")
    /\ \/ Goto(p, "renew") /\ Calm
       \/ Disturb("prepare_fails") /\ Goto(p, "release")
    /\ UNCHANGED <<task, attempts, exec, op, asked, handler>>
RenewReservation(p) ==
    /\ At(p, "renew")
    /\ IF Owned(proc[p].exec) THEN Goto(p, "restart") ELSE Goto(p, "release")
    /\ UNCHANGED <<task, attempts, exec, op, asked, handler>> /\ Calm

\* StartWorkerTaskExecution.execute starts the task once more, then dispatches.
RestartTask(p) ==
    /\ At(p, "restart")
    /\ IF MayStart(p) THEN TaskStarted(p) /\ Goto(p, "enqueue")
       ELSE Goto(p, "giveup") /\ UNCHANGED task
    /\ UNCHANGED <<attempts, exec, op, asked, handler>> /\ Calm
Enqueue(p) ==
    /\ At(p, "enqueue")
    /\ \/ /\ exec' = [exec EXCEPT ![proc[p].exec].dispatch = "queued"]
          /\ Goto(p, "payload") /\ Calm
       \/ Disturb("dispatch_fails") /\ Goto(p, "block_first") /\ UNCHANGED exec
    /\ UNCHANGED <<task, attempts, op, asked, handler>>
BindPayload(p) ==
    /\ At(p, "payload")
    /\ IF Owned(proc[p].exec)
       THEN exec' = [exec EXCEPT ![proc[p].exec].status = "running"] /\ Return(p)
       ELSE Goto(p, "giveup") /\ UNCHANGED exec
    /\ UNCHANGED <<task, attempts, op, asked, handler>> /\ Calm

\* _fail_reservation, which swallows the refusal of a row it no longer owns.
FailReservation(p) ==
    /\ proc[p].pc \in {"release", "giveup"}
    /\ exec' = IF Owned(proc[p].exec)
               THEN [exec EXCEPT ![proc[p].exec] = Ended(@, "failed")] ELSE exec
    /\ IF At(p, "release") THEN Goto(p, "block") ELSE Raise(p)
    /\ UNCHANGED <<task, attempts, op, asked, handler>> /\ Calm
\* Mutant of BlockTask: nobody is told.
BlockTask_Silent(p) ==
    /\ proc[p].pc \in {"block", "block_first"}
    /\ IF At(p, "block") THEN Raise(p) ELSE Goto(p, "giveup")
    /\ UNCHANGED <<task, attempts, exec, op, asked, handler>> /\ Calm
\* The task is reported BLOCKED to its leader, unless it is not the Worker's any more.
BlockTask(p) ==
    /\ proc[p].pc \in {"block", "block_first"}
    /\ IF MayStart(p) THEN TaskBecomes("BLOCKED") ELSE UNCHANGED task
    /\ IF At(p, "block") THEN Raise(p) ELSE Goto(p, "giveup")
    /\ UNCHANGED <<attempts, exec, op, asked, handler>> /\ Calm

ExecuteStep(p) ==
    \/ Begin(p) \/ InFlight(p) \/ EnsureInitial(p) \/ Reserve(p) \/ Wait(p) \/ Bind(p)
    \/ StartTask(p) \/ Prepare(p) \/ RenewReservation(p) \/ RestartTask(p) \/ Enqueue(p)
    \/ BindPayload(p) \/ FailReservation(p) \/ BlockTask(p)

-----------------------------------------------------------------------------
(* The runner: lease_next, the accepted event, the work, the terminal event. *)

Beside == UNCHANGED <<task, attempts, op, asked, proc, handler>>

\* A dispatch is leased, and leased again when its offer has run out before the
\* accepted event arrived: then two runners hold the same run.
RunnerLeases(e) ==
    /\ \/ exec[e].dispatch = "queued"
       \/ exec[e].dispatch = "leased" /\ ~exec[e].offer
    /\ exec[e].starting + exec[e].busy < 2
    /\ exec' = [exec EXCEPT ![e].dispatch = "leased", ![e].offer = TRUE,
                            ![e].starting = @ + 1]
    /\ Beside /\ Calm
OfferRunsOut(e) ==
    /\ exec[e].dispatch = "leased" /\ exec[e].offer
    /\ exec' = [exec EXCEPT ![e].offer = FALSE]
    /\ Beside
    /\ IF exec[e].starting = 0 THEN Calm ELSE Disturb("two_runners")

\* The accepted event of a superseded run is stored as rejected evidence only, and
\* one that is already in the table changes nothing; the runner goes on either way.
RunnerStarts(e) ==
    /\ exec[e].starting > 0
    /\ exec' = [exec EXCEPT
         ![e].starting = @ - 1, ![e].busy = @ + 1,
         ![e].dispatch = IF @ = "leased" /\ AllowsProjection(e) THEN "accepted" ELSE @,
         ![e].offer = @ /\ ~AllowsProjection(e)]
    /\ Beside /\ Calm

RunnerReports(e) ==
    /\ exec[e].busy > 0
    /\ \E k \in Results :
        /\ IF k = "completed" THEN Calm ELSE Disturb(k)
        /\ exec' = [exec EXCEPT ![e].busy = @ - 1, ![e].told = @ \cup {k}]
    /\ Beside
RunnerDies(e) ==
    /\ Disturb("runner_dies")
    /\ \/ exec[e].starting > 0 /\ exec' = [exec EXCEPT ![e].starting = @ - 1]
       \/ exec[e].busy > 0 /\ exec' = [exec EXCEPT ![e].busy = @ - 1]
    /\ Beside

-----------------------------------------------------------------------------
(* RunnerControlGateway.receive_event. *)

\* The request ends: acknowledged and forgotten by the runner, unless the answer
\* is lost; or failed with a conflict, and the runner sends the event again.
Forget(h) == [exec EXCEPT ![handler[h].exec].told = @ \ {handler[h].kind}]
Acknowledge(h) ==
    /\ handler' = [handler EXCEPT ![h] = NoRequest]
    /\ \/ exec' = Forget(h) /\ Calm
       \/ Disturb("redelivered") /\ UNCHANGED exec
TryAgain(h) == handler' = [handler EXCEPT ![h] = NoRequest] /\ UNCHANGED exec /\ Calm

Receive(h) ==
    /\ handler[h].pc = "idle"
    /\ \E e \in Executions : \E k \in exec[e].told :
        handler' = [handler EXCEPT ![h] = [NoRequest EXCEPT
            !.pc = "record", !.exec = e, !.kind = k, !.allowed = AllowsProjection(e)]]
    /\ UNCHANGED <<task, attempts, exec, op, asked, proc>> /\ Calm

\* record_event: the first terminal event of a run closes the dispatch, and the
\* reservation if the result may be projected; a second one is a duplicate.
RecordEvent(h) ==
    LET e == handler[h].exec
        closed == [exec[e] EXCEPT
            !.dispatch = handler[h].kind, !.offer = FALSE,
            !.evidence = IF handler[h].allowed THEN "accepted" ELSE "rejected"]
        settled == Ended(closed, IF handler[h].kind = "completed" THEN "succeeded" ELSE "failed")
    IN
    /\ handler[h].pc = "record"
    /\ exec' = IF exec[e].evidence # "none" THEN exec
               ELSE [exec EXCEPT ![e] = IF @.status \in Active /\ handler[h].allowed
                                        THEN settled ELSE closed]
    /\ handler' = [handler EXCEPT ![h].pc = "project"]
    /\ UNCHANGED <<task, attempts, op, asked, proc>> /\ Calm

\* _write_back up to its update: stale evidence stops here, a Worker that lost the
\* task is refused for good, and a settled task cannot be reported again: the runner tries
\* a few times more.
ResultStatus(k) == CASE k = "completed" -> "SUCCEEDED" [] k = "input_required" -> "BLOCKED"
                     [] OTHER -> "FAILED"
AfterWrite(h) == IF handler[h].kind = "completed" THEN "complete" ELSE "recover"
Project(h) ==
    LET e == handler[h].exec IN
    /\ handler[h].pc = "project"
    /\ \/ exec[e].evidence = "rejected" /\ Acknowledge(h)
       \/ /\ exec[e].evidence = "accepted" /\ task.assignee # exec[e].worker
          /\ handler' = [handler EXCEPT ![h] = NoRequest] /\ exec' = Forget(h) /\ Calm
       \/ /\ exec[e].evidence = "accepted" /\ task.assignee = exec[e].worker
          /\ \/ /\ task.status = ResultStatus(handler[h].kind)
                /\ handler' = [handler EXCEPT ![h].pc = AfterWrite(h)]
                /\ UNCHANGED exec /\ Calm
             \/ /\ task.status # ResultStatus(handler[h].kind) /\ task.status \notin Final
                /\ handler' = [handler EXCEPT ![h].pc = "write", ![h].seen = task.version]
                /\ UNCHANGED exec /\ Calm
             \/ /\ task.status # ResultStatus(handler[h].kind) /\ task.status \in Final
                /\ \/ TryAgain(h)
                   \/ handler' = [handler EXCEPT ![h] = NoRequest] /\ exec' = Forget(h) /\ Calm
    /\ UNCHANGED <<task, attempts, op, asked, proc>>
\* Mutant of WriteResult: the task is stored whatever its version.
WriteResult_Blind(h) ==
    /\ handler[h].pc = "write"
    /\ TaskBecomes(ResultStatus(handler[h].kind))
    /\ handler' = [handler EXCEPT ![h].pc = AfterWrite(h)]
    /\ UNCHANGED <<exec, attempts, op, asked, proc>> /\ Calm
WriteResult(h) ==
    /\ handler[h].pc = "write"
    /\ IF task.version = handler[h].seen
       THEN /\ TaskBecomes(ResultStatus(handler[h].kind))
            /\ handler' = [handler EXCEPT ![h].pc = AfterWrite(h)]
            /\ UNCHANGED exec /\ Calm
       ELSE TryAgain(h) /\ UNCHANGED task
    /\ UNCHANGED <<attempts, op, asked, proc>>

\* complete_current raises for a superseded attempt.
CompleteCurrent(h) ==
    LET g == exec[handler[h].exec].gen IN
    /\ handler[h].pc = "complete"
    /\ IF attempts[g].state = "superseded" THEN TryAgain(h) /\ UNCHANGED attempts
       ELSE Acknowledge(h) /\ attempts' = [attempts EXCEPT ![g].state = "completed"]
    /\ UNCHANGED <<task, op, asked, proc>>

NewOperation(reason, session) ==
    [NoOperation EXCEPT !.state = "pending", !.reason = reason, !.session = session]
\* ensure_recovery_for_run: one operation per execution. Only some reports carry a
\* native session.
EnsureRecovery(h) ==
    LET e == handler[h].exec IN
    /\ handler[h].pc = "recover"
    /\ \E session \in IF "sessions" \in Occurs THEN BOOLEAN ELSE {FALSE} :
        op' = IF op[e].state # "none" THEN op
              ELSE [op EXCEPT ![e] = NewOperation(handler[h].kind, session)]
    /\ Acknowledge(h)
    /\ UNCHANGED <<task, attempts, asked, proc>>

ReceiveStep(h) ==
    \/ Receive(h) \/ RecordEvent(h) \/ Project(h) \/ WriteResult(h) \/ CompleteCurrent(h)
    \/ EnsureRecovery(h)

-----------------------------------------------------------------------------
(* WorkerRecoveryReconciler.run_once and WorkerRecoveryCoordinator.decide. *)

Aside == UNCHANGED <<task, attempts, exec, handler>>

\* _discover: an active reservation past its lease is looked at ...
Discover(r) ==
    /\ r \in Reconcilers /\ At(r, "idle")
    /\ \E e \in Executions :
        /\ exec[e].status \in Active /\ ~exec[e].lease
        /\ exec[e].dispatch \in Live \/ op[e].state = "none"
        /\ proc' = [proc EXCEPT ![r] = [Idle EXCEPT !.pc = "look", !.exec = e]]
    /\ Aside /\ UNCHANGED <<op, asked>> /\ Calm
\* ... renewed while its dispatch is live, and else given a recovery operation.
Look(r) ==
    LET e == proc[r].exec IN
    /\ At(r, "look")
    /\ proc' = [proc EXCEPT ![r] = Idle]
    /\ IF exec[e].dispatch \in Live
       THEN /\ exec' = [exec EXCEPT ![e].lease = @ \/ exec[e].status \in Active]
            /\ UNCHANGED op
       ELSE /\ op' = IF op[e].state # "none" THEN op
                     ELSE [op EXCEPT ![e] = NewOperation("lease_expired", FALSE)]
            /\ UNCHANGED exec
    /\ UNCHANGED <<task, attempts, handler, asked>> /\ Calm

Claim(r) ==
    /\ r \in Reconcilers /\ At(r, "idle")
    /\ \E e \in Rows :
        /\ \/ op[e].state = "pending"
           \/ op[e].state = "running" /\ ~op[e].lease
        /\ op' = [op EXCEPT ![e].state = "running", ![e].attempts = @ + 1,
                            ![e].lease = TRUE, ![e].owner = r]
        /\ proc' = [proc EXCEPT ![r] = [Idle EXCEPT !.pc = "decide", !.op = e]]
    /\ Aside /\ UNCHANGED asked /\ Calm

Escalates(r, e) ==
    /\ asked' = asked \cup {e}
    /\ proc' = [proc EXCEPT ![r].pc = "finish", ![r].verdict = "escalated"]
Reopens(r, e, g) ==
    /\ proc' = [proc EXCEPT ![r].pc = "reopen", ![r].gen = g, ![r].worker = exec[e].worker,
                            ![r].seen = task.version,
                            ![r].verdict = "completed"]
    /\ UNCHANGED asked
Reassigns(r, e, g, w) ==
    /\ proc' = [proc EXCEPT ![r].pc = "reassign", ![r].gen = g, ![r].worker = w, ![r].seen = task.version,
                            ![r].verdict = "completed"]
    /\ UNCHANGED asked
\* Mutant of NoAction: no decision is returned.
NoAction_Silent(r) ==
    proc' = [proc EXCEPT ![r].pc = "finish"] /\ UNCHANGED asked
NoAction(r) ==
    /\ proc' = [proc EXCEPT ![r].pc = "finish", ![r].verdict = "completed"]
    /\ UNCHANGED asked

\* Mutant of TriesUsedUp: one try too many.
TriesUsedUp_Late(e) == op[e].attempts > MaxAttempts + 1
\* Every claim counts; past the limit an operation is escalated without a look at its task.
TriesUsedUp(e) == op[e].attempts > MaxAttempts
CanResume(e, healthy) == op[e].session /\ exec[e].worker \in healthy
Replacements(e, healthy) ==
    {w \in healthy \ {exec[e].worker} : \A f \in ActiveRows : exec[f].worker # w}
Verdict(r, e, g, healthy) ==
    \/ TriesUsedUp(e) /\ Escalates(r, e)
    \/ /\ ~TriesUsedUp(e)
       /\ \/ g # exec[e].gen /\ NoAction(r)
          \/ /\ g = exec[e].gen
             /\ \/ op[e].decision = "resume" /\ ~CanResume(e, healthy) /\ Escalates(r, e)
                \/ /\ op[e].decision # "reassign" /\ CanResume(e, healthy)
                   /\ IF op[e].reason = "input_required" THEN Escalates(r, e)
                      ELSE Reopens(r, e, g)
                \/ /\ op[e].decision = "reassign" \/ ~CanResume(e, healthy)
                   /\ op[e].decision # "resume"
                   /\ IF g - 1 >= MaxReassignments \/ Replacements(e, healthy) = {}
                      THEN Escalates(r, e)
                      ELSE \E w \in Replacements(e, healthy) : Reassigns(r, e, g, w)
\* The attempt read for the decision is created when there is none; an operation
\* past its attempts is escalated before anything is read.
Decide(r) ==
    LET e == proc[r].op
        known == IF TriesUsedUp(e) THEN attempts ELSE WithAttempt
    IN
    /\ At(r, "decide")
    /\ attempts' = known
    /\ \E healthy \in IF "unhealthy" \in Occurs THEN SUBSET Workers ELSE {Workers} :
        Verdict(r, e, IF TriesUsedUp(e) THEN 0 ELSE GenerationOf(known), healthy)
    /\ UNCHANGED <<task, exec, op, handler>> /\ Calm

\* reopen_same_assignment and reassign check the version and the generation that
\* the decision was based on.
StillAsDecided(r) ==
    /\ task.version = proc[r].seen
    /\ ActiveGeneration = {proc[r].gen}
Reopen(r) ==
    /\ At(r, "reopen")
    /\ IF StillAsDecided(r)
       THEN TaskBecomes("ASSIGNED") /\ Goto(r, "begin")
       ELSE Raise(r) /\ UNCHANGED task
    /\ UNCHANGED <<attempts, exec, op, asked, handler>> /\ Calm
Reassign(r) ==
    LET w == proc[r].worker IN
    /\ At(r, "reassign")
    /\ IF StillAsDecided(r) /\ attempts[proc[r].gen].worker # w
       THEN /\ task' = [status |-> "ASSIGNED", assignee |-> w, version |-> task.version + 1]
            /\ attempts' = Append([attempts EXCEPT ![proc[r].gen].state = "superseded"],
                                  [worker |-> w, state |-> "active"])
            /\ Goto(r, "begin")
       ELSE Raise(r) /\ UNCHANGED <<task, attempts>>
    /\ UNCHANGED <<exec, op, asked, handler>> /\ Calm

\* The decision that is noted here is read by nobody: another try fixes a new one.
Finish(r) ==
    LET e == proc[r].op IN
    /\ At(r, "finish")
    /\ op' = IF op[e].owner = r /\ op[e].lease
             THEN [op EXCEPT ![e].state = proc[r].verdict, ![e].lease = FALSE,
                             ![e].owner = None]
             ELSE op
    /\ proc' = [proc EXCEPT ![r] = Idle]
    /\ Aside /\ UNCHANGED asked /\ Calm

RecoveryStep(r) ==
    Discover(r) \/ Look(r) \/ Claim(r) \/ Decide(r) \/ Reopen(r) \/ Reassign(r) \/ Finish(r)

\* An operator asks for another try, with the decision fixed.
OperatorRetry(e) ==
    /\ op[e].state # "none" /\ Disturb("operator")
    /\ \E d \in {"resume", "reassign"} :
        op' = [op EXCEPT ![e].state = "pending", ![e].decision = d, ![e].lease = FALSE,
                         ![e].owner = None]
    /\ Aside /\ UNCHANGED <<proc, asked>>

-----------------------------------------------------------------------------
(* Time and failures. *)

\* A lease outlives the calls under way when it is given, unless one of them is slow.
UnderWay(p) == proc[p].pc \notin {"idle", "done", "wait"}
LeaseRunsOut(e) ==
    /\ exec[e].status \in Active /\ exec[e].lease
    /\ exec' = [exec EXCEPT ![e].lease = FALSE]
    /\ Beside
    /\ IF \E p \in Procs : UnderWay(p) THEN Disturb("slow") ELSE Calm
ClaimRunsOut(e) ==
    /\ op[e].state = "running" /\ op[e].lease
    /\ op' = [op EXCEPT ![e].lease = FALSE]
    /\ Aside /\ UNCHANGED <<proc, asked>>
    /\ IF \E r \in Reconcilers : proc[r].op = e THEN Disturb("slow") ELSE Calm
\* The server process dies, or a store refuses a step of a call: nothing is cleaned up.
Crash(p) ==
    /\ proc[p].pc \notin {"idle", "done"}
    /\ Disturb("crash") /\ Raise(p)
    /\ UNCHANGED <<task, attempts, exec, op, asked, handler>>
RequestDies(h) ==
    /\ handler[h].pc # "idle"
    /\ Disturb("crash") /\ handler' = [handler EXCEPT ![h] = NoRequest]
    /\ UNCHANGED <<task, attempts, exec, op, asked, proc>>

RunnerStep(e) == RunnerLeases(e) \/ RunnerStarts(e) \/ RunnerReports(e)
Next ==
    \/ \E c \in Callers : Call(c)
    \/ \E p \in Procs : ExecuteStep(p) \/ Crash(p)
    \/ \E r \in Reconcilers : RecoveryStep(r)
    \/ \E h \in Handlers : ReceiveStep(h) \/ RequestDies(h)
    \/ \E e \in Executions : RunnerStep(e) \/ OfferRunsOut(e) \/ RunnerDies(e) \/ LeaseRunsOut(e)
    \/ \E e \in Executions : ClaimRunsOut(e) \/ OperatorRetry(e)
Spec == Init /\ [][Next]_vars

\* Every step of a live process is taken, a runner finishes what it took, and a lease
\* nobody renews ends. One pass of the reconciler discovers and then claims, so each of
\* the two is reached again and again.
Fairness ==
    /\ WF_vars(\E c \in Callers : Call(c) /\ Calm)
    /\ \A p \in Procs : WF_vars(ExecuteStep(p))
    /\ \A r \in Reconcilers :
        /\ SF_vars(Discover(r)) /\ SF_vars(Claim(r))
        /\ WF_vars(Look(r) \/ Decide(r) \/ Reopen(r) \/ Reassign(r) \/ Finish(r))
    /\ \A h \in Handlers : WF_vars(ReceiveStep(h))
    /\ \A e \in Rows :
        /\ WF_vars(e \in Executions /\ RunnerStep(e))
        /\ WF_vars(e \in Executions /\ OfferRunsOut(e) /\ Calm)
        /\ WF_vars(e \in Executions /\ LeaseRunsOut(e) /\ Calm)
        /\ WF_vars(e \in Executions /\ ClaimRunsOut(e) /\ Calm)
FairSpec == Spec /\ Fairness

-----------------------------------------------------------------------------
(* Properties. *)

\* The rows and the local states have their shapes.
WorkerTypeOK ==
    /\ task \in TaskRow
    /\ \A g \in DOMAIN attempts : attempts[g] \in Attempt
    /\ Len(exec) <= MaxExecutions
    /\ \A e \in Executions : exec[e] \in Execution
    /\ op \in [Rows -> Operation]
    /\ asked \subseteq Rows
    /\ proc \in [Procs -> Process]
    /\ handler \in [Handlers -> Request]
    /\ trouble \subseteq Occurs /\ Cardinality(trouble) <= MaxDisturbances

\* Retries come to an end: the limits on the tries of an operation and on reassignments
\* keep the reservations of a task below the bound of the instance, whichever of its runs
\* fail, are resumed or are given to another Worker.
RunsAreBounded == Len(exec) < MaxExecutions

\* At most one assignment attempt is active, it is the newest, and it belongs to the
\* Worker the task row names: the two tables are written in one transaction by reassign,
\* and by nobody else while an attempt is active.
AttemptIsAssignee ==
    \A g \in ActiveGeneration :
        g = Len(attempts) /\ attempts[g].worker = task.assignee

\* One live run for an assignment: two dispatches that are both queued or at a runner
\* never belong to the same generation, as long as no lease runs out under a call. (The
\* enqueue itself is not fenced: after a renewal the call may be too late.)
OneLiveRun ==
    "slow" \notin trouble => \A e, f \in Executions :
        (e # f /\ exec[e].dispatch \in Live /\ exec[f].dispatch \in Live) =>
            exec[e].gen # exec[f].gen

\* A task that succeeded has the accepted "completed" event of a run of the Worker it is
\* assigned to: neither superseded evidence nor a reassignment in the middle of the
\* write-back lends a success to a Worker that never ran.
ResultHasRun ==
    task.status = "SUCCEEDED" =>
        \E e \in Executions :
            exec[e].worker = task.assignee /\ exec[e].evidence = "accepted"
            /\ exec[e].dispatch = "completed"

\* receive_event reads the task, finds its assignee to be the Worker whose run reported,
\* and writes the result in a later transaction; a reassignment may commit in between, and
\* the task's version has to refuse the write.  A result that is written is the one of the
\* Worker that has the task at that moment, and leaves the task with it.
ResultIsAssignees ==
    [][\A h \in Handlers :
        (handler[h].pc = "write" /\ handler'[h].pc = AfterWrite(h)) =>
            task.assignee = exec[handler[h].exec].worker /\ task'.assignee = task.assignee]_vars

\* What docs/development/worker-failure-reassignment-spec.md promises: no result is written
\* for a run whose assignment attempt was superseded.  The code does not keep it with the
\* two reassignments it allows by default: the task may come back to the Worker of the
\* superseded run, and a request that passed the check of the attempt before that finds
\* the assignee it looks for.
StaleIsMute ==
    [][\A h \in Handlers :
        (handler[h].pc = "write" /\ handler'[h].pc = AfterWrite(h)) =>
            AllowsProjection(handler[h].exec)]_vars

\* What the leader can act on: a result, a blocked task or a question to a human.
Settled == task.status \in Final \cup {"BLOCKED"} \/ asked # {}
\* What can leave a reservation behind before its dispatch, or end a run unheard. After
\* one of these a task may be stranded: a recovery reassigns it, reserve refuses the
\* replacement because of the row it is to replace, and the next claim sees a newer
\* generation and does nothing.
Losing == {"crash", "runner_dies", "busy", "slow", "start_twice", "start_again"}
Forgivable == trouble \cap Losing = {} /\ Cardinality(trouble) <= 1
\* One failed, interrupted or paused run, failed preparation or dispatch, operator's
\* retry or repeated event leaves the task settled in the end, whatever the interleaving
\* and the health of the Workers: its recovery never ends in silence. (Two may not: an
\* older operation of the generation can still reassign the task under a resumed run.)
TaskSettles == <>[](Settled \/ ~Forgivable)
=============================================================================
