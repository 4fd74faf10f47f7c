--------------------------- MODULE WorkerRuns_proofs ---------------------------
(***************************************************************************)
(* Proof that the runs of a task are bounded, for any Workers, calls,      *)
(* reconcilers, requests, limits and disturbances: every run that was or   *)
(* may still be reserved is charged to a cause of its own.                 *)
(***************************************************************************)
EXTENDS WorkerExecution_proofs

-----------------------------------------------------------------------------
(* The invariant. *)

\* The reports that a session can be resumed after.
Lost == {"failed", "interrupted"}
\* A recovery operation that may reopen the task for the Worker it has.
Resumable(e) == op[e].session /\ op[e].reason \in Lost

\* The report k of execution e is with its runner, in a request or in its operation.
Spoken(e, k) ==
    \/ k \in exec[e].told
    \/ \E h \in Handlers : handler[h].pc # "idle" /\ handler[h].exec = e /\ handler[h].kind = k
    \/ op[e].state # "none" /\ op[e].reason = k
\* Only one run failed, and only one was interrupted: each kind of disturbance is had once.
SpokenOnce ==
    \A k \in Lost : \A e \in Executions : Spoken(e, k) =>
        k \in trouble /\ \A f \in Executions : Spoken(f, k) => f = e
Decided ==
    /\ \A h \in Handlers : handler[h].pc = "recover" => handler[h].kind # "completed"
    /\ \A e \in Rows :
          /\ op[e].state = "none" => op[e] = NoOperation
          /\ op[e].session => op[e].reason \in Lost \cup {"input_required"}
    /\ \A p \in Procs :
          /\ proc[p].pc = "decide" => op[proc[p].op].state # "none"
          /\ proc[p].pc = "reassign" => proc[p].gen - 1 < MaxReassignments

\* The processes that may still reserve a run for a cause already had. A call that joins
\* another's reservation, or has its own row, reserves no more; the one that is about to
\* reassign still has to, which is a cause of its own.
MayReserve(p) ==
    \/ proc[p].pc \in {"begin", "in_flight", "assign", "reserve", "reopen"}
    \/ /\ proc[p].pc = "decide" /\ Resumable(proc[p].op)
       /\ op[proc[p].op].attempts <= MaxAttempts
Pending == {p \in Procs : MayReserve(p)}

\* What sets a run in motion: the first call, a further call, a try of an operation,
\* a reassignment.
Called == {c \in {"start"} \X {1} : \E d \in Callers : proc[d].pc # "idle"}
CalledAgain == (trouble \cap {"start_twice", "start_again"}) \X {1}
Tried == {c \in Lost \X (1..MaxAttempts) :
             \E e \in Rows : Resumable(e) /\ op[e].reason = c[1] /\ c[2] <= op[e].attempts}
Moved == {"reassign"} \X {n \in 1..MaxReassignments : n < Len(attempts)}
Causes == Called \cup CalledAgain \cup Tried \cup Moved

Counted == IsFiniteSet(Pending) /\ Len(exec) + Cardinality(Pending) <= Cardinality(Causes)
Found == AttemptIsAssignee /\ SpokenOnce /\ Decided
RunsAtMost == 1 + MaxReassignments + MaxDisturbances * MaxAttempts

-----------------------------------------------------------------------------
(* One step, operation by operation. *)

\* What a step does to a recovery operation.
Keeps(e) ==
    /\ op'[e].session = op[e].session /\ op'[e].reason = op[e].reason
    /\ op'[e].attempts = op[e].attempts
    /\ op'[e].state = "none" <=> op[e].state = "none"
    /\ op[e].state = "none" => op'[e] = op[e]
Opens(e) ==
    /\ op[e].state = "none"
    /\ \E k \in Results \cup {"lease_expired"} : \E session \in BOOLEAN :
          /\ op'[e] = NewOperation(k, session)
          /\ \/ k = "lease_expired" /\ ~session
             \/ \E h \in Handlers : handler[h].pc = "recover" /\ handler[h].exec = e /\ handler[h].kind = k
Retries(e) ==
    /\ op[e].state # "none" /\ op'[e].state # "none"
    /\ op'[e].session = op[e].session /\ op'[e].reason = op[e].reason
    /\ op'[e].attempts = op[e].attempts + 1
OpsMove == \A e \in Rows : Keeps(e) \/ Opens(e) \/ Retries(e)

LEMMA OpIs == ASSUME Shape, NEW e \in Rows PROVE op[e] \in Operation /\ op[e].attempts \in Nat
  BY DEF Shape, TableShape, Operation

\* An operation that is there gets another state, lease, owner or decision.
LEMMA KeepsIs ==
    ASSUME Shape, NEW e \in Rows, op[e].state # "none",
           NEW state \in {"pending", "running", "completed", "escalated"},
           NEW lease, NEW owner, NEW decision,
           op' = [op EXCEPT ![e] = [op[e] EXCEPT !.state = state, !.lease = lease, !.owner = owner,
                                                 !.decision = decision]]
    PROVE  OpsMove
<1> DEFINE row == [op[e] EXCEPT !.state = state, !.lease = lease, !.owner = owner, !.decision = decision]
<1>1. row.session = op[e].session /\ row.reason = op[e].reason /\ row.attempts = op[e].attempts
      /\ row.state = state
  BY OpIs DEF Operation
<1>2. op'[e] = row /\ \A f \in Rows \ {e} : op'[f] = op[f]
  BY DEF Shape, TableShape
<1> HIDE DEF row
<1> QED BY <1>1, <1>2 DEF OpsMove, Keeps

LEMMA OpensIs ==
    ASSUME Shape, NEW e \in Rows, op[e].state = "none",
           NEW k \in Results \cup {"lease_expired"}, NEW session \in BOOLEAN,
           op' = [op EXCEPT ![e] = NewOperation(k, session)],
           \/ k = "lease_expired" /\ ~session
           \/ \E h \in Handlers : handler[h].pc = "recover" /\ handler[h].exec = e /\ handler[h].kind = k
    PROVE  OpsMove
<1>1. op'[e] = NewOperation(k, session) /\ \A f \in Rows \ {e} : op'[f] = op[f]
  BY DEF Shape, TableShape
<1>2. Opens(e)
  BY <1>1 DEF Opens
<1> QED BY <1>1, <1>2 DEF OpsMove, Keeps

\* A claim counts a try.
Claims(r, e) ==
    /\ r \in Reconcilers /\ e \in Rows /\ op[e].state # "none"
    /\ Retries(e) /\ \A f \in Rows \ {e} : op'[f] = op[f]
    /\ proc' = [proc EXCEPT ![r] = [Idle EXCEPT !.pc = "decide", !.op = e]]
LEMMA ClaimIs == ASSUME Shape, NEW r \in Reconcilers, Claim(r) PROVE \E e \in Rows : Claims(r, e)
<1>1. PICK e \in Rows :
        /\ op[e].state \in {"pending", "running"}
        /\ op' = [op EXCEPT ![e].state = "running", ![e].attempts = @ + 1, ![e].lease = TRUE, ![e].owner = r]
        /\ proc' = [proc EXCEPT ![r] = [Idle EXCEPT !.pc = "decide", !.op = e]]
  BY DEF Claim
<1> DEFINE row == [op[e] EXCEPT !.state = "running", !.attempts = @ + 1, !.lease = TRUE, !.owner = r]
<1>2. op' = [op EXCEPT ![e] = row]
  BY <1>1
<1>3. row.session = op[e].session /\ row.reason = op[e].reason /\ row.attempts = op[e].attempts + 1
      /\ row.state = "running"
  BY OpIs DEF Operation
<1> HIDE DEF row
<1>4. op'[e] = row /\ \A f \in Rows \ {e} : op'[f] = op[f]
  BY <1>2 DEF Shape, TableShape
<1>5. Retries(e)
  BY <1>1, <1>3, <1>4 DEF Retries
<1> QED BY <1>1, <1>4, <1>5 DEF Claims

LEMMA OpsStep == ASSUME Shape, Decided, Next PROVE OpsMove
<1>0. Executions \subseteq Rows /\ op \in [Rows -> Operation]
  BY WorkerAssumption DEF Shape, TableShape, Executions, Rows
<1>1. CASE UNCHANGED op
  BY <1>1 DEF OpsMove, Keeps
<1>2. ASSUME NEW h \in Handlers, EnsureRecovery(h) PROVE OpsMove
  <2>1. handler[h].exec \in Rows /\ handler[h].kind \in Results
    BY <1>0, <1>2, HeardRow DEF EnsureRecovery
  <2>2. ASSUME NEW session \in BOOLEAN, op[handler[h].exec].state = "none",
               op' = [op EXCEPT ![handler[h].exec] = NewOperation(handler[h].kind, session)]
        PROVE  OpsMove
    BY <1>2, <2>1, <2>2, OpensIs DEF EnsureRecovery
  <2> QED BY <1>1, <1>2, <2>2 DEF EnsureRecovery
<1>3. ASSUME NEW r \in Reconcilers, Look(r) PROVE OpsMove
  <2>1. proc[r].exec \in Rows
    BY <1>0, <1>3, OwnRow DEF Look, At, Procs
  <2>2. CASE op[proc[r].exec].state = "none" /\ op' = [op EXCEPT ![proc[r].exec] = NewOperation("lease_expired", FALSE)]
    BY <2>1, <2>2, OpensIs
  <2> QED BY <1>1, <1>3, <2>2 DEF Look
<1>4. ASSUME NEW r \in Reconcilers, Claim(r) PROVE OpsMove
  <2>1. PICK e \in Rows : Claims(r, e)
    BY <1>4, ClaimIs
  <2> QED BY <2>1 DEF Claims, OpsMove, Keeps
<1>5. ASSUME NEW r \in Reconcilers, Finish(r) PROVE OpsMove
  <2>1. proc[r].op \in Rows /\ proc[r].verdict \in {"completed", "escalated"}
    BY <1>0, <1>5 DEF Finish, Shape, ProcShape, ProcOK, At, Procs
  <2>2. CASE op[proc[r].op].lease /\ op' = [op EXCEPT ![proc[r].op].state = proc[r].verdict,
                                       ![proc[r].op].lease = FALSE, ![proc[r].op].owner = None]
    <3>1. op[proc[r].op].state # "none"
      BY <2>1, <2>2 DEF Decided, NoOperation
    <3>2. op' = [op EXCEPT ![proc[r].op] = [op[proc[r].op] EXCEPT !.state = proc[r].verdict, !.lease = FALSE,
                    !.owner = None, !.decision = op[proc[r].op].decision]]
      BY <1>0, <2>1, <2>2 DEF Operation
    <3> QED BY <2>1, <3>1, <3>2, KeepsIs
  <2> QED BY <1>1, <1>5, <2>2 DEF Finish
<1>6. ASSUME NEW e \in Executions, OperatorRetry(e) PROVE OpsMove
  <2>1. PICK d : op' = [op EXCEPT ![e].state = "pending", ![e].decision = d, ![e].lease = FALSE,
                                  ![e].owner = None]
    BY <1>6 DEF OperatorRetry
  <2>2. op' = [op EXCEPT ![e] = [op[e] EXCEPT !.state = "pending", !.lease = FALSE, !.owner = None,
                                              !.decision = d]]
    BY <1>0, <2>1 DEF Operation
  <2>3. e \in Rows /\ op[e].state # "none"
    BY <1>0, <1>6 DEF OperatorRetry
  <2> QED BY <2>2, <2>3, KeepsIs
<1>7. ASSUME NEW e \in Executions, ClaimRunsOut(e) PROVE OpsMove
  <2>1. op' = [op EXCEPT ![e] = [op[e] EXCEPT !.state = "running", !.lease = FALSE, !.owner = op[e].owner,
                                              !.decision = op[e].decision]]
    BY <1>0, <1>7 DEF ClaimRunsOut, Operation
  <2>2. e \in Rows /\ op[e].state # "none"
    BY <1>0, <1>7 DEF ClaimRunsOut
  <2> QED BY <2>1, <2>2, KeepsIs
<1>8. ASSUME NEW p \in Procs, ExecuteStep(p) PROVE OpsMove
  BY <1>1, <1>8 DEF ExecuteStep, Begin, InFlight, EnsureInitial, Reserve, Wait, Bind, StartTask,
     Prepare, RenewReservation, RestartTask, Enqueue, BindPayload, FailReservation, BlockTask
<1>9. ASSUME NEW r \in Reconcilers, RecoveryStep(r) PROVE OpsMove
  BY <1>1, <1>3, <1>4, <1>5, <1>9 DEF RecoveryStep, Discover, Decide, Reopen, Reassign
<1>10. ASSUME NEW h \in Handlers, ReceiveStep(h) PROVE OpsMove
  BY <1>1, <1>2, <1>10 DEF ReceiveStep, Receive, RecordEvent, Project, WriteResult, CompleteCurrent
<1> QED BY <1>1, <1>6, <1>7, <1>8, <1>9, <1>10 DEF Next, RunnerStep, Call, Crash, RequestDies,
           OfferRunsOut, RunnerLeases, RunnerStarts, RunnerReports, RunnerDies, LeaseRunsOut, Beside

-----------------------------------------------------------------------------
(* One step, process by process. *)

Places == {"begin", "in_flight", "assign", "reserve", "reopen"}
\* Who moves, and how it gets to a place from which it may reserve.
Acts(p) ==
    /\ \A q \in Procs \ {p} : proc'[q] = proc[q]
    /\ p \in Callers => proc'[p].pc # "idle"
    /\ \/ proc'[p].pc \notin Places \cup {"decide"}
       \/ proc[p].pc \in Places /\ proc'[p].pc \in Places
       \/ proc'[p].pc = "begin" /\ p \in Callers /\ Call(p)
       \/ p \in Reconcilers /\ \E e \in Rows : Claims(p, e)
       \/ /\ proc'[p].pc = "reopen" /\ proc[p].pc = "decide" /\ ~TriesUsedUp(proc[p].op)
          /\ op[proc[p].op].session /\ op[proc[p].op].reason # "input_required"
       \/ /\ proc'[p].pc = "begin" /\ p \in Reconcilers /\ Reassign(p) /\ StillAsDecided(p)
          /\ attempts[proc[p].gen].worker # proc[p].worker

LEMMA ActsOne ==
    ASSUME Shape, NEW p \in Procs, NEW x, proc' = [proc EXCEPT ![p] = x]
    PROVE  proc'[p] = x /\ \A q \in Procs \ {p} : proc'[q] = proc[q]
  BY DEF Shape, ProcShape
LEMMA ActsGoto ==
    ASSUME Shape, NEW p \in Procs, NEW to, Goto(p, to)
    PROVE  proc'[p].pc = to /\ \A q \in Procs \ {p} : proc'[q] = proc[q]
<1> DEFINE x == [proc[p] EXCEPT !.pc = to]
<1>1. proc' = [proc EXCEPT ![p] = x]
  BY DEF Goto
<1>2. x.pc = to
  BY DEF Shape, ProcShape, Process
<1> HIDE DEF x
<1> QED BY <1>1, <1>2, ActsOne

LEMMA ActsOut == ASSUME Shape, NEW p \in Procs, Stops(p) \/ Return(p) PROVE Acts(p)
<1> DEFINE x == [Idle EXCEPT !.pc = IF p \in Callers THEN "done" ELSE "idle"]
           y == [Idle EXCEPT !.pc = "finish", !.op = proc[p].op, !.verdict = proc[p].verdict]
<1>1. x.pc \in {"done", "idle"} /\ (p \in Callers => x.pc = "done") /\ y.pc = "finish"
  BY DEF Idle
<1>2. proc' = [proc EXCEPT ![p] = x] \/ proc' = [proc EXCEPT ![p] = y]
  BY DEF Stops, Return
<1> HIDE DEF x, y
<1> QED BY <1>1, <1>2, ActsOne DEF Acts, Places

LEMMA ExecuteActs == ASSUME Shape, NEW p \in Procs, ExecuteStep(p) \/ Crash(p) PROVE Acts(p)
<1>1. ASSUME NEW to, Goto(p, to), to # "idle",
             to \notin Places \cup {"decide"} \/ (proc[p].pc \in Places /\ to \in Places)
      PROVE  Acts(p)
  BY <1>1, ActsGoto DEF Acts
<1>2. CASE EnsureInitial(p)
  <2> DEFINE x == [proc[p] EXCEPT !.pc = "reserve", !.gen = GenerationOf(WithAttempt)]
  <2>1. x.pc = "reserve" /\ proc' = [proc EXCEPT ![p] = x] /\ proc[p].pc = "assign"
    BY <1>2 DEF EnsureInitial, At, Shape, ProcShape, Process
  <2> HIDE DEF x
  <2> QED BY <2>1, ActsOne DEF Acts, Places
<1>3. CASE ReserveCreates(p)
  <2> DEFINE x == [proc[p] EXCEPT !.pc = "bind", !.exec = Len(exec) + 1]
  <2>1. x.pc = "bind" /\ proc' = [proc EXCEPT ![p] = x]
    BY <1>3 DEF ReserveCreates, Shape, ProcShape, Process
  <2> HIDE DEF x
  <2> QED BY <2>1, ActsOne DEF Acts, Places
<1>4. CASE Stops(p) \/ Return(p)
  BY <1>4, ActsOut
<1>5. ASSUME NEW to \in {"wait"} \cup Preparing, Goto(p, to) PROVE Acts(p)
  <2>1. to # "idle" /\ to \notin Places \cup {"decide"}
    BY <1>5 DEF Preparing, Places
  <2> QED BY <1>1, <1>5, <2>1
<1>6. ASSUME NEW to \in {"in_flight", "assign"}, Goto(p, to), proc[p].pc \in {"begin", "in_flight"}
      PROVE  Acts(p)
  BY <1>1, <1>6 DEF Places
<1>7. ASSUME Goto(p, "wait") \/ Goto(p, "start") \/ Goto(p, "prepare") \/ Goto(p, "renew")
             \/ Goto(p, "release") \/ Goto(p, "restart") \/ Goto(p, "enqueue") \/ Goto(p, "giveup")
             \/ Goto(p, "payload") \/ Goto(p, "block_first") \/ Goto(p, "block")
      PROVE  Acts(p)
  <2>1. PICK to \in {"wait"} \cup Preparing : Goto(p, to)
    BY <1>7 DEF Preparing
  <2> QED BY <1>5, <2>1
<1>8. CASE Begin(p) \/ InFlight(p)
  BY <1>4, <1>6, <1>8 DEF Begin, InFlight, Raise, At
<1>9. CASE Reserve(p) \/ Wait(p) \/ Crash(p)
  BY <1>3, <1>4, <1>7, <1>9 DEF Reserve, ReserveJoins, ReserveRefused, Wait, Crash, Raise
<1>10. CASE Bind(p) \/ StartTask(p) \/ Prepare(p) \/ RenewReservation(p)
  BY <1>4, <1>7, <1>10 DEF Bind, StartTask, Prepare, RenewReservation, Raise
<1>11. CASE RestartTask(p) \/ Enqueue(p) \/ BindPayload(p) \/ FailReservation(p) \/ BlockTask(p)
  BY <1>4, <1>7, <1>11 DEF RestartTask, Enqueue, BindPayload, FailReservation, BlockTask, Raise
<1> QED BY <1>2, <1>8, <1>9, <1>10, <1>11 DEF ExecuteStep

LEMMA CallActs == ASSUME Shape, NEW c \in Callers, Call(c) PROVE Acts(c)
<1> DEFINE x == [proc[c] EXCEPT !.pc = "begin", !.worker = FirstWorker]
<1>1. x.pc = "begin" /\ proc' = [proc EXCEPT ![c] = x] /\ c \in Procs
  BY DEF Call, Shape, ProcShape, Process, Procs
<1> HIDE DEF x
<1> QED BY <1>1, ActsOne DEF Acts

LEMMA RecoveryActs == ASSUME Shape, NEW r \in Reconcilers, RecoveryStep(r) PROVE Acts(r)
<1>0. r \in Procs /\ r \notin Callers /\ proc[r] \in Process
  BY WorkerAssumption DEF Procs, Shape, ProcShape
<1>1. ASSUME NEW x, proc' = [proc EXCEPT ![r] = x], x.pc \notin Places \cup {"decide"} PROVE Acts(r)
  BY <1>0, <1>1, ActsOne DEF Acts
<1>2. CASE Discover(r)
  <2>1. PICK e \in Executions : proc' = [proc EXCEPT ![r] = [Idle EXCEPT !.pc = "look", !.exec = e]]
    BY <1>2 DEF Discover
  <2>2. [Idle EXCEPT !.pc = "look", !.exec = e].pc = "look"
    BY DEF Idle
  <2> QED BY <1>1, <2>1, <2>2 DEF Places
<1>3. CASE Look(r) \/ Finish(r)
  <2>1. proc' = [proc EXCEPT ![r] = Idle] /\ Idle.pc = "idle"
    BY <1>3 DEF Look, Finish, Idle
  <2> QED BY <1>1, <2>1 DEF Places
<1>4. CASE Claim(r)
  <2>1. PICK e \in Rows : Claims(r, e)
    BY <1>4, ClaimIs
  <2>2. proc' = [proc EXCEPT ![r] = [Idle EXCEPT !.pc = "decide", !.op = e]]
    BY <2>1 DEF Claims
  <2> QED BY <1>0, <2>1, <2>2, ActsOne DEF Acts
<1>5. CASE Decide(r)
  <2>1. PICK g, healthy : Verdict(r, proc[r].op, g, healthy)
    BY <1>5 DEF Decide
  <2>2. \/ Escalates(r, proc[r].op) \/ NoAction(r)
        \/ /\ Reopens(r, proc[r].op, g) /\ ~TriesUsedUp(proc[r].op)
           /\ op[proc[r].op].session /\ op[proc[r].op].reason # "input_required"
        \/ \E w : Reassigns(r, proc[r].op, g, w)
    BY <2>1 DEF Verdict, CanResume
  <2>3. CASE Escalates(r, proc[r].op) \/ NoAction(r)
    <3> DEFINE x == [proc[r] EXCEPT !.pc = "finish", !.verdict = "escalated"]
               y == [proc[r] EXCEPT !.pc = "finish", !.verdict = "completed"]
    <3>1. x.pc = "finish" /\ y.pc = "finish"
      BY <1>0 DEF Process
    <3>2. proc' = [proc EXCEPT ![r] = x] \/ proc' = [proc EXCEPT ![r] = y]
      BY <2>3 DEF Escalates, NoAction
    <3> HIDE DEF x, y
    <3> QED BY <1>1, <3>1, <3>2 DEF Places
  <2>4. CASE Reopens(r, proc[r].op, g) /\ ~TriesUsedUp(proc[r].op)
             /\ op[proc[r].op].session /\ op[proc[r].op].reason # "input_required"
    <3> DEFINE x == [proc[r] EXCEPT !.pc = "reopen", !.gen = g, !.worker = exec[proc[r].op].worker,
                                    !.seen = task.version, !.verdict = "completed"]
    <3>1. x.pc = "reopen" /\ proc' = [proc EXCEPT ![r] = x]
      BY <1>0, <2>4 DEF Process, Reopens
    <3> HIDE DEF x
    <3> QED BY <1>0, <1>5, <2>4, <3>1, ActsOne DEF Acts, Decide, At
  <2>5. ASSUME NEW w, Reassigns(r, proc[r].op, g, w) PROVE Acts(r)
    <3> DEFINE x == [proc[r] EXCEPT !.pc = "reassign", !.gen = g, !.worker = w, !.seen = task.version,
                                    !.verdict = "completed"]
    <3>1. x.pc = "reassign" /\ proc' = [proc EXCEPT ![r] = x]
      BY <1>0, <2>5 DEF Process, Reassigns
    <3> HIDE DEF x
    <3> QED BY <1>1, <3>1 DEF Places
  <2> QED BY <2>2, <2>3, <2>4, <2>5
<1>6. CASE Reopen(r) \/ Reassign(r)
  <2>1. CASE Stops(r)
    BY <1>0, <2>1, ActsOut
  <2>2. CASE Reopen(r) /\ Goto(r, "begin")
    BY <1>0, <2>2, ActsGoto DEF Acts, Reopen, At, Places
  <2>3. CASE Reassign(r) /\ Goto(r, "begin") /\ StillAsDecided(r) /\ attempts[proc[r].gen].worker # proc[r].worker
    BY <1>0, <2>3, ActsGoto DEF Acts
  <2> QED BY <1>6, <2>1, <2>2, <2>3 DEF Reopen, Reassign, Raise
<1> QED BY <1>2, <1>3, <1>4, <1>5, <1>6 DEF RecoveryStep

LEMMA ActStep == ASSUME Shape, Next PROVE UNCHANGED proc \/ \E p \in Procs : Acts(p)
<1>1. ASSUME NEW h \in Handlers, ReceiveStep(h) \/ RequestDies(h) PROVE UNCHANGED proc
  BY <1>1 DEF ReceiveStep, Receive, RecordEvent, Project, WriteResult, CompleteCurrent, EnsureRecovery,
     RequestDies
<1>2. ASSUME NEW e, RunnerStep(e) \/ OfferRunsOut(e) \/ RunnerDies(e) \/ LeaseRunsOut(e)
      PROVE  UNCHANGED proc
  BY <1>2 DEF RunnerStep, OfferRunsOut, RunnerLeases, RunnerStarts, RunnerReports, RunnerDies, LeaseRunsOut,
     Beside
<1>3. ASSUME NEW e, ClaimRunsOut(e) \/ OperatorRetry(e) PROVE UNCHANGED proc
  BY <1>3 DEF ClaimRunsOut, OperatorRetry
<1>4. ASSUME NEW c \in Callers, Call(c) PROVE \E p \in Procs : Acts(p)
  BY <1>4, CallActs DEF Procs
<1>5. ASSUME NEW r \in Reconcilers, RecoveryStep(r) PROVE \E p \in Procs : Acts(p)
  BY <1>5, RecoveryActs DEF Procs
<1> QED BY <1>1, <1>2, <1>3, <1>4, <1>5, ExecuteActs DEF Next

-----------------------------------------------------------------------------
(* Causes are never taken back, and each is had once. *)

LEMMA OpsKeep ==
    ASSUME OpsMove, Decided, NEW e \in Rows, op[e].state # "none" \/ op[e].session
    PROVE  /\ op'[e].session = op[e].session /\ op'[e].reason = op[e].reason /\ op'[e].state # "none"
           /\ op'[e].attempts = op[e].attempts \/ op'[e].attempts = op[e].attempts + 1
<1>1. op[e].state # "none"
  BY DEF Decided, NoOperation
<1>2. Keeps(e) \/ Retries(e)
  BY <1>1 DEF OpsMove, Opens
<1> QED BY <1>1, <1>2 DEF Keeps, Retries

LEMMA TriedGrows == ASSUME Shape, Decided, OpsMove PROVE Tried \subseteq Tried'
<1> SUFFICES ASSUME NEW c \in Lost \X (1..MaxAttempts), NEW e \in Rows, Resumable(e), op[e].reason = c[1],
                    c[2] <= op[e].attempts
             PROVE  Resumable(e)' /\ op'[e].reason = c[1] /\ c[2] <= op'[e].attempts
  BY DEF Tried
<1>1. op'[e].session = op[e].session /\ op'[e].reason = op[e].reason
      /\ (op'[e].attempts = op[e].attempts \/ op'[e].attempts = op[e].attempts + 1)
  BY OpsKeep DEF Resumable
<1>2. op[e].attempts \in Nat /\ c[2] \in Nat
  BY OpIs, WorkerAssumption
<1>3. c[2] <= op'[e].attempts
  BY <1>1, <1>2
<1> QED BY <1>1, <1>3 DEF Resumable

LEMMA CausesGrow == ASSUME Shape, Decided, Next PROVE Causes \subseteq Causes'
<1>1. Called \subseteq Called'
  <2>1. ASSUME NEW d \in Callers, proc[d].pc # "idle" PROVE proc'[d].pc # "idle"
    BY <2>1, ActStep DEF Acts, Procs
  <2> QED BY <2>1 DEF Called
<1>2. CalledAgain \subseteq CalledAgain'
  BY TroubleGrows DEF CalledAgain
<1>3. Tried \subseteq Tried'
  BY TriedGrows, OpsStep
<1>4. Moved \subseteq Moved'
  <2>1. DOMAIN attempts \subseteq DOMAIN attempts' /\ attempts' \in Seq(Attempt) /\ attempts \in Seq(Attempt)
    BY AttemptsStep DEF AttemptsKept, Shape, TableShape
  <2>2. Len(attempts) <= Len(attempts')
    BY <2>1
  <2>3. \A n \in 1..MaxReassignments : n < Len(attempts) => n < Len(attempts')
    BY <2>1, <2>2, WorkerAssumption
  <2> QED BY <2>3 DEF Moved
<1> QED BY <1>1, <1>2, <1>3, <1>4 DEF Causes

\* Which cause is of which kind.
LEMMA CauseKinds ==
    /\ \A c \in Called : c[1] = "start"
    /\ \A c \in CalledAgain : c[1] \in trouble /\ c[1] \in {"start_twice", "start_again"}
    /\ \A c \in Tried : c[1] \in Lost
    /\ \A c \in Moved : c[1] = "reassign" /\ c[2] < Len(attempts)
<1>1. \A c \in Moved : c[1] = "reassign" /\ c[2] < Len(attempts)
  BY DEF Moved
<1> QED BY <1>1 DEF Called, CalledAgain, Tried

LEMMA CallIsNew == ASSUME Shape, NEW c \in Callers, Call(c) PROVE \E x \in Causes' : x \notin Causes
<1>1. c \in Procs /\ proc'[c].pc = "begin"
  BY DEF Call, Shape, ProcShape, Process, Procs
<1>2. CASE \A d \in Callers : proc[d].pc = "idle"
  <2>1. <<"start", 1>> \in Called'
    BY <1>1 DEF Called
  <2>2. <<"start", 1>> \notin Called
    BY <1>2 DEF Called
  <2>3. <<"start", 1>> \notin CalledAgain /\ <<"start", 1>> \notin Tried /\ <<"start", 1>> \notin Moved
    BY CauseKinds DEF Lost
  <2> QED BY <2>1, <2>2, <2>3 DEF Causes
<1>3. ASSUME NEW k \in {"start_twice", "start_again"}, Disturb(k) PROVE \E x \in Causes' : x \notin Causes
  <2>1. <<k, 1>> \in CalledAgain' /\ <<k, 1>> \notin CalledAgain
    BY <1>3 DEF CalledAgain, Disturb
  <2>2. <<k, 1>> \notin Called /\ <<k, 1>> \notin Tried /\ <<k, 1>> \notin Moved
    BY <1>3, CauseKinds DEF Lost
  <2> QED BY <2>1, <2>2 DEF Causes
<1> QED BY <1>2, <1>3 DEF Call, At

LEMMA ClaimIsNew ==
    ASSUME Shape, Decided, SpokenOnce, NEW r \in Reconcilers, NEW e \in Rows, Claims(r, e),
           Resumable(e)', op'[e].attempts <= MaxAttempts
    PROVE  \E x \in Causes' : x \notin Causes
<1> DEFINE n == op[e].attempts + 1
           x == <<op[e].reason, n>>
<1>1. op[e].attempts \in Nat /\ op[e].state # "none" /\ Resumable(e) /\ op[e].reason \in Lost
      /\ op'[e].attempts = n /\ op'[e].reason = op[e].reason
  BY OpIs DEF Claims, Retries, Resumable
<1>2. n \in 1..MaxAttempts /\ x[1] = op[e].reason /\ x[2] = n
  BY <1>1, WorkerAssumption
<1>3. x \in Tried'
  <2>1. x \in Lost \X (1..MaxAttempts)
    BY <1>1, <1>2
  <2>2. Resumable(e)' /\ op'[e].reason = x[1] /\ x[2] <= op'[e].attempts
    BY <1>1, <1>2
  <2> QED BY <2>1, <2>2 DEF Tried
<1>4. x \notin Tried
  <2> SUFFICES ASSUME NEW f \in Rows, Resumable(f), op[f].reason = x[1], x[2] <= op[f].attempts
               PROVE  FALSE
    BY DEF Tried
  <2>1. op[f].state # "none"
    BY DEF Decided, NoOperation, Resumable
  <2>2. e \in Executions /\ f \in Executions
    BY <1>1, <2>1 DEF Shape, TableShape
  <2>3. Spoken(e, op[e].reason) /\ Spoken(f, op[e].reason)
    BY <1>1, <1>2, <2>1 DEF Spoken
  <2>4. f = e
    BY <1>1, <2>2, <2>3 DEF SpokenOnce
  <2> QED BY <1>1, <1>2, <2>4
<1>5. x \notin Called /\ x \notin CalledAgain /\ x \notin Moved
  BY <1>1, <1>2, CauseKinds DEF Lost
<1> HIDE DEF x
<1> QED BY <1>3, <1>4, <1>5 DEF Causes

LEMMA ReassignIsNew ==
    ASSUME Shape, AttemptIsAssignee, Decided, NEW r \in Reconcilers, Reassign(r), StillAsDecided(r),
           attempts[proc[r].gen].worker # proc[r].worker
    PROVE  \E x \in Causes' : x \notin Causes
<1> DEFINE n == Len(attempts)
           x == <<"reassign", n>>
<1>1. attempts \in Seq(Attempt)
  BY DEF Shape, TableShape
<1>2. proc[r].gen \in ActiveGeneration /\ proc[r].gen \in DOMAIN attempts
  BY DEF StillAsDecided, ActiveGeneration
<1>3. proc[r].gen = n
  BY <1>2 DEF AttemptIsAssignee
<1>4. proc[r].gen - 1 < MaxReassignments
  BY DEF Decided, Reassign, At, Procs
<1>5. n \in 1..MaxReassignments
  BY <1>1, <1>2, <1>3, <1>4, WorkerAssumption
<1>6. Len(attempts') = n + 1
  <2> DEFINE old == [attempts EXCEPT ![proc[r].gen].state = "superseded"]
  <2>1. attempts[proc[r].gen] \in Attempt
    BY <1>1, <1>2
  <2>2. [attempts[proc[r].gen] EXCEPT !.state = "superseded"] \in Attempt
    BY <2>1 DEF Attempt
  <2>3. old = [attempts EXCEPT ![proc[r].gen] = [attempts[proc[r].gen] EXCEPT !.state = "superseded"]]
    BY <1>1, <1>2
  <2>4. old \in Seq(Attempt) /\ Len(old) = n
    BY <1>1, <1>2, <2>2, <2>3
  <2>5. attempts' = Append(old, [worker |-> proc[r].worker, state |-> "active"])
    BY DEF Reassign
  <2>6. proc[r].worker \in Workers
    BY DEF Reassign, At, Shape, ProcShape, ProcOK, Procs
  <2>7. [worker |-> proc[r].worker, state |-> "active"] \in Attempt
    BY <2>6 DEF Attempt
  <2> HIDE DEF old
  <2> QED BY <2>4, <2>5, <2>7
<1>7. x \in Moved'
  BY <1>1, <1>5, <1>6 DEF Moved
<1>8. x \notin Moved
  BY <1>1, CauseKinds
<1>9. x \notin Called /\ x \notin CalledAgain /\ x \notin Tried
  BY CauseKinds DEF Lost
<1> HIDE DEF x
<1> QED BY <1>7, <1>8, <1>9 DEF Causes

-----------------------------------------------------------------------------
(* Who may reserve after a step. *)

LEMMA StaysPending ==
    ASSUME Shape, Decided, OpsMove, NEW q \in Procs, proc'[q] = proc[q], MayReserve(q)'
    PROVE  MayReserve(q)
<1>1. CASE proc[q].pc = "decide"
  <2>1. proc[q].op \in Rows /\ op[proc[q].op].state # "none"
    BY <1>1, WorkerAssumption DEF Decided, Shape, ProcShape, ProcOK, TableShape, Executions, Rows
  <2>2. Resumable(proc[q].op)' /\ op'[proc[q].op].attempts <= MaxAttempts
    BY <1>1 DEF MayReserve
  <2>3. Resumable(proc[q].op)
    BY <2>1, <2>2, OpsKeep DEF Resumable
  <2>4. op[proc[q].op].attempts <= op'[proc[q].op].attempts /\ op[proc[q].op].attempts \in Nat
        /\ op'[proc[q].op].attempts \in Nat
    BY <2>1, OpsKeep, OpIs
  <2>5. op[proc[q].op].attempts <= MaxAttempts
    BY <2>2, <2>4, WorkerAssumption
  <2> QED BY <1>1, <2>3, <2>5 DEF MayReserve
<1>2. CASE proc[q].pc # "decide"
  BY <1>2 DEF MayReserve
<1> QED BY <1>1, <1>2

NewCause == \E x \in Causes' : x \notin Causes
\* Whoever may reserve after its own step could before, or has a cause for it.
LEMMA ActsPending ==
    ASSUME Shape, AttemptIsAssignee, SpokenOnce, Decided, NEW p \in Procs, Acts(p), MayReserve(p)'
    PROVE  MayReserve(p) \/ NewCause
<1>1. proc'[p].pc \in Places \cup {"decide"}
  BY DEF MayReserve, Places
<1>2. CASE proc[p].pc \in Places
  BY <1>2 DEF MayReserve, Places
<1>3. CASE p \in Callers /\ Call(p)
  BY <1>3, CallIsNew DEF NewCause
<1>4. ASSUME p \in Reconcilers, NEW e \in Rows, Claims(p, e) PROVE NewCause
  <2>1. proc'[p] = [Idle EXCEPT !.pc = "decide", !.op = e]
    BY <1>4 DEF Claims, Shape, ProcShape
  <2>2. proc'[p].pc = "decide" /\ proc'[p].op = e
    BY <2>1 DEF Idle
  <2>3. Resumable(e)' /\ op'[e].attempts <= MaxAttempts
    BY <2>2 DEF MayReserve
  <2> QED BY <1>4, <2>3, ClaimIsNew DEF NewCause
<1>5. CASE proc[p].pc = "decide" /\ ~TriesUsedUp(proc[p].op) /\ op[proc[p].op].session
           /\ op[proc[p].op].reason # "input_required"
  <2>1. proc[p].op \in Rows
    BY <1>5, WorkerAssumption DEF Shape, ProcShape, ProcOK, TableShape, Executions, Rows
  <2>2. op[proc[p].op].reason \in Lost
    BY <1>5, <2>1 DEF Decided
  <2>3. op[proc[p].op].attempts <= MaxAttempts
    BY <1>5, <2>1, OpIs, WorkerAssumption DEF TriesUsedUp
  <2> QED BY <1>5, <2>2, <2>3 DEF MayReserve, Resumable
<1>6. CASE p \in Reconcilers /\ Reassign(p) /\ StillAsDecided(p) /\ attempts[proc[p].gen].worker # proc[p].worker
  BY <1>6, ReassignIsNew DEF NewCause
<1> QED BY <1>1, <1>2, <1>3, <1>4, <1>5, <1>6 DEF Acts

Waits == Len(exec') = Len(exec) /\ Pending' \subseteq Pending
Reserved == \E p \in Pending : Len(exec') = Len(exec) + 1 /\ Pending' \subseteq Pending \ {p}
Joins == \E p \in Procs : Len(exec') = Len(exec) /\ Pending' \subseteq Pending \cup {p} /\ NewCause

LEMMA PendingStep ==
    ASSUME Shape, AttemptIsAssignee, SpokenOnce, Decided, Next
    PROVE  Waits \/ Reserved \/ Joins
<1>0. OpsMove /\ proc \in [Procs -> Process]
  BY OpsStep DEF Shape, ProcShape
<1>1. exec \in Seq(Execution) /\ exec' \in Seq(Execution)
  BY ExecStep DEF ExecKept, Shape, TableShape
<1>2. ASSUME NEW p \in Procs, At(p, "reserve"), ReserveCreates(p) PROVE Reserved
  <2>1. Len(exec') = Len(exec) + 1
    BY <1>2, CreatedIs
  <2>2. p \in Pending
    BY <1>2 DEF At, Pending, MayReserve
  <2> DEFINE x == [proc[p] EXCEPT !.pc = "bind", !.exec = Len(exec) + 1]
  <2>3. x.pc = "bind" /\ proc' = [proc EXCEPT ![p] = x]
    BY <1>0, <1>2 DEF ReserveCreates, Process
  <2> HIDE DEF x
  <2>4. proc'[p].pc = "bind" /\ \A q \in Procs \ {p} : proc'[q] = proc[q]
    BY <1>0, <2>3
  <2>5. ~MayReserve(p)'
    BY <2>4 DEF MayReserve
  <2>6. \A q \in Procs \ {p} : MayReserve(q)' => MayReserve(q)
    BY <1>0, <2>4, StaysPending
  <2>7. Pending' \subseteq Pending \ {p}
    BY <2>5, <2>6 DEF Pending
  <2> QED BY <2>1, <2>2, <2>7 DEF Reserved
<1>3. CASE Executions' = Executions
  <2>1. Len(exec') = Len(exec)
    BY <1>1, <1>3 DEF Executions
  <2>2. CASE UNCHANGED proc
    <3>1. \A q \in Procs : MayReserve(q)' => MayReserve(q)
      BY <1>0, <2>2, StaysPending
    <3> QED BY <2>1, <3>1 DEF Waits, Pending
  <2>3. ASSUME NEW p \in Procs, Acts(p) PROVE Waits \/ Joins
    <3>1. \A q \in Procs \ {p} : MayReserve(q)' => MayReserve(q)
      BY <1>0, <2>3, StaysPending DEF Acts
    <3>2. CASE MayReserve(p)' => MayReserve(p)
      BY <2>1, <3>1, <3>2 DEF Waits, Pending
    <3>3. CASE NewCause
      <4>1. Pending' \subseteq Pending \cup {p}
        BY <3>1 DEF Pending
      <4> QED BY <2>1, <3>3, <4>1 DEF Joins
    <3> QED BY <2>3, <3>2, <3>3, ActsPending
  <2> QED BY <2>2, <2>3, ActStep
<1> QED BY <1>2, <1>3, RowStep DEF RowsMove

-----------------------------------------------------------------------------
(* There are no more causes than the limits and the disturbances allow. *)

CausesBelow ==
    IsFiniteSet(Causes) /\ Cardinality(Causes) \in Nat /\ Cardinality(Causes) <= RunsAtMost

LEMMA UnionAtMost ==
    ASSUME NEW S, NEW T, IsFiniteSet(S), IsFiniteSet(T)
    PROVE  /\ IsFiniteSet(S \cup T) /\ Cardinality(S \cup T) <= Cardinality(S) + Cardinality(T)
           /\ Cardinality(S) \in Nat /\ Cardinality(T) \in Nat /\ Cardinality(S \cup T) \in Nat
<1>1. IsFiniteSet(S \cap T)
  BY FS_Subset
<1>2. Cardinality(S \cap T) \in Nat /\ Cardinality(S) \in Nat /\ Cardinality(T) \in Nat
  BY <1>1, FS_CardinalityType
<1>3. IsFiniteSet(S \cup T) /\ Cardinality(S \cup T) = Cardinality(S) + Cardinality(T) - Cardinality(S \cap T)
  BY FS_Union
<1>4. Cardinality(S \cup T) \in Nat
  BY <1>3, FS_CardinalityType
<1> QED BY <1>2, <1>3, <1>4

LEMMA PairsAtMost ==
    ASSUME NEW S, IsFiniteSet(S), NEW n \in Nat
    PROVE  /\ IsFiniteSet(S \X (1..n)) /\ Cardinality(S \X (1..n)) \in Nat
           /\ Cardinality(S \X (1..n)) = Cardinality(S) * n
<1>1. IsFiniteSet(1..n) /\ Cardinality(1..n) = n
  BY FS_Interval
<1>2. IsFiniteSet(S \X (1..n)) /\ Cardinality(S \X (1..n)) = Cardinality(S) * n
  BY <1>1, FS_Product
<1> QED BY <1>2, FS_CardinalityType

LEMMA TimesAtMost ==
    ASSUME NEW a \in Nat, NEW b \in Nat, NEW n \in Nat, a <= b
    PROVE  a * n <= b * n
<1>1. b * n = a * n + (b - a) * n /\ (b - a) \in Nat
  OBVIOUS
<1>2. \A c \in Nat : c * n \in Nat
  OBVIOUS
<1> QED BY <1>1, <1>2

LEMMA CausesBound == ASSUME Shape, Decided, SpokenOnce PROVE CausesBelow
<1> DEFINE A == {"start"} \X (1..1)
           B == {"reassign"} \X (1..MaxReassignments)
           C == trouble \X (1..MaxAttempts)
<1>1. IsFiniteSet(A) /\ Cardinality(A) \in Nat /\ Cardinality(A) = 1
  <2>1. IsFiniteSet({"start"}) /\ Cardinality({"start"}) = 1
    BY FS_Singleton
  <2> QED BY <2>1, PairsAtMost
<1>2. IsFiniteSet(B) /\ Cardinality(B) \in Nat /\ Cardinality(B) = MaxReassignments
  <2>1. IsFiniteSet({"reassign"}) /\ Cardinality({"reassign"}) = 1
    BY FS_Singleton
  <2>2. Cardinality(B) = 1 * MaxReassignments /\ IsFiniteSet(B) /\ Cardinality(B) \in Nat
    BY <2>1, PairsAtMost, WorkerAssumption
  <2> QED BY <2>2, WorkerAssumption
<1>3. IsFiniteSet(C) /\ Cardinality(C) \in Nat /\ Cardinality(C) <= MaxDisturbances * MaxAttempts
  <2>1. IsFiniteSet(trouble) /\ Cardinality(trouble) <= MaxDisturbances
    BY KindsAreFinite, FS_Subset DEF Shape, TableShape
  <2>2. Cardinality(trouble) \in Nat
    BY <2>1, FS_CardinalityType
  <2>3. IsFiniteSet(C) /\ Cardinality(C) \in Nat /\ Cardinality(C) = Cardinality(trouble) * MaxAttempts
    BY <2>1, PairsAtMost, WorkerAssumption
  <2> QED BY <2>1, <2>2, <2>3, TimesAtMost, WorkerAssumption
<1>4. Called \subseteq A
  BY DEF Called
<1>5. Moved \subseteq B
  BY DEF Moved
<1>6. CalledAgain \subseteq C
  BY WorkerAssumption DEF CalledAgain
<1>7. Tried \subseteq C
  <2> SUFFICES ASSUME NEW k \in Lost, NEW n \in 1..MaxAttempts, NEW e \in Rows, Resumable(e), op[e].reason = k
               PROVE  k \in trouble
    BY DEF Tried
  <2>1. op[e].state # "none"
    BY DEF Decided, NoOperation, Resumable
  <2>2. e \in Executions
    BY <2>1 DEF Shape, TableShape
  <2> QED BY <2>1, <2>2 DEF SpokenOnce, Spoken
<1> HIDE DEF A, B, C
<1>8. Causes \subseteq A \cup (B \cup C)
  BY <1>4, <1>5, <1>6, <1>7 DEF Causes
<1>9. IsFiniteSet(A \cup (B \cup C)) /\ Cardinality(A \cup (B \cup C)) \in Nat
      /\ Cardinality(A \cup (B \cup C)) <= RunsAtMost
  <2>1. IsFiniteSet(B \cup C) /\ Cardinality(B \cup C) <= Cardinality(B) + Cardinality(C)
        /\ Cardinality(B \cup C) \in Nat
    BY <1>2, <1>3, UnionAtMost
  <2>2. IsFiniteSet(A \cup (B \cup C)) /\ Cardinality(A \cup (B \cup C)) \in Nat
        /\ Cardinality(A \cup (B \cup C)) <= Cardinality(A) + Cardinality(B \cup C)
    BY <1>1, <2>1, UnionAtMost
  <2>3. MaxDisturbances * MaxAttempts \in Nat
    BY WorkerAssumption
  <2> QED BY <1>1, <1>2, <1>3, <2>1, <2>2, <2>3, WorkerAssumption DEF RunsAtMost
<1>10. IsFiniteSet(Causes) /\ Cardinality(Causes) <= Cardinality(A \cup (B \cup C))
  BY <1>8, <1>9, FS_Subset
<1>11. Cardinality(Causes) \in Nat
  BY <1>10, FS_CardinalityType
<1>12. RunsAtMost \in Nat
  BY WorkerAssumption DEF RunsAtMost
<1> QED BY <1>9, <1>10, <1>11, <1>12 DEF CausesBelow

-----------------------------------------------------------------------------
(* Each report is spoken of once. *)

LEMMA ToldMove ==
    ASSUME Shape, Next, NEW e \in Executions, NEW k \in exec'[e].told
    PROVE  k \in exec[e].told \/ Reports(e, k)
<1>1. RowMoves(e) /\ exec[e] \in Execution
  BY RowStays
<1>2. ASSUME NEW h \in Handlers, RecordEvent(h), handler[h].exec = e,
             exec'[e] = SettledRow(e, handler[h].kind, handler[h].allowed)
      PROVE  exec'[e].told = exec[e].told
  <2>1. handler[h].kind \in Results /\ handler[h].allowed \in BOOLEAN
    BY <1>2, HeardRow DEF RecordEvent, Request
  <2> QED BY <1>1, <1>2, <2>1, SettledRowIs
<1>3. \A r \in {LeasedRow(e), LapsedRow(e), StartedRow(e), DroppedRow(e), LostRow(e)} : r.told = exec[e].told
  BY <1>1 DEF LeasedRow, LapsedRow, StartedRow, DroppedRow, LostRow, Execution
<1>4. \A l \in Results : ToldRow(e, l).told = exec[e].told \cup {l}
  BY <1>1 DEF ToldRow, Execution
<1>5. ASSUME NEW l \in Results, exec'[e] = ToldRow(e, l), Reports(e, l)
      PROVE  k \in exec[e].told \/ Reports(e, k)
  BY <1>4, <1>5
<1> QED BY <1>1, <1>2, <1>3, <1>5, RowFields DEF RowMoves, Swept

LEMMA HeedMove ==
    ASSUME Shape, Next, NEW h \in Handlers, handler'[h].pc # "idle"
    PROVE  /\ handler'[h].exec \in Executions
           /\ \/ handler'[h].kind \in exec[handler'[h].exec].told
              \/ /\ handler[h].pc # "idle" /\ handler'[h].exec = handler[h].exec
                 /\ handler'[h].kind = handler[h].kind
<1>1. HandlerMoves(h) /\ handler[h] \in Request
  BY RequestStep DEF Shape, HandlerShape
<1>2. ASSUME NEW e \in Executions, NEW k \in exec[e].told, Heeds(h, e, k)
      PROVE  handler'[h].exec = e /\ handler'[h].kind = k
  BY <1>2 DEF Heeds, NoRequest
<1>3. ASSUME NEW x, NEW y, handler[h].pc # "idle",
             \/ handler'[h] = [handler[h] EXCEPT !.pc = x]
             \/ handler'[h] = [handler[h] EXCEPT !.pc = x, !.seen = y]
      PROVE  handler'[h].exec = handler[h].exec /\ handler'[h].kind = handler[h].kind
             /\ handler[h].exec \in Executions
  BY <1>1, <1>3, HeardRow DEF Request
<1>4. CASE handler'[h] = handler[h]
  BY <1>4, HeardRow
<1>5. CASE \E e \in Executions : \E k \in exec[e].told : Heeds(h, e, k)
  BY <1>2, <1>5
<1>6. CASE RecordEvent(h) /\ handler'[h] = [handler[h] EXCEPT !.pc = "project"]
  <2>1. handler[h].pc # "idle"
    BY <1>6 DEF RecordEvent
  <2> QED BY <1>3, <1>6, <2>1
<1>7. CASE handler[h].pc = "project" /\ \/ handler'[h] = [handler[h] EXCEPT !.pc = AfterWrite(h)]
                                        \/ handler'[h] = [handler[h] EXCEPT !.pc = "write", !.seen = task.version]
  <2>1. handler[h].pc # "idle"
    BY <1>7
  <2> QED BY <1>3, <1>7, <2>1
<1>8. CASE WriteResult(h) /\ handler'[h] = [handler[h] EXCEPT !.pc = AfterWrite(h)]
  <2>1. handler[h].pc # "idle"
    BY <1>8 DEF WriteResult
  <2> QED BY <1>3, <1>8, <2>1
<1> QED BY <1>1, <1>4, <1>5, <1>6, <1>7, <1>8 DEF HandlerMoves

LEMMA SpeakStep ==
    ASSUME Shape, Decided, Next, NEW k \in Lost, NEW e \in Executions', Spoken(e, k)'
    PROVE  e \in Executions /\ (Spoken(e, k) \/ Reports(e, k))
<1>0. e \in Rows /\ (e \notin Executions => op[e].state = "none")
  <2>1. e \in Rows
    BY TableStep, WorkerAssumption DEF ExecKept, Executions, Rows
  <2> QED BY <2>1 DEF Shape, TableShape
<1>1. CASE k \in exec'[e].told
  <2>1. e \in Executions
    <3> SUFFICES ASSUME e \notin Executions PROVE FALSE
      OBVIOUS
    <3>1. PICK p \in Procs : exec'[e] = NewExecution(proc[p].worker, proc[p].gen)
      BY NewRow
    <3>2. NewExecution(proc[p].worker, proc[p].gen).told = {}
      BY DEF NewExecution
    <3> QED BY <1>1, <3>1, <3>2
  <2> QED BY <1>1, <2>1, ToldMove DEF Spoken
<1>2. ASSUME NEW h \in Handlers, handler'[h].pc # "idle", handler'[h].exec = e, handler'[h].kind = k
      PROVE  e \in Executions /\ Spoken(e, k)
  BY <1>2, HeedMove DEF Spoken
<1>3. CASE op'[e].state # "none" /\ op'[e].reason = k
  <2>1. CASE Opens(e)
    <3>1. PICK l \in Results \cup {"lease_expired"}, session \in BOOLEAN :
            /\ op'[e] = NewOperation(l, session)
            /\ \/ l = "lease_expired"
               \/ \E h \in Handlers : handler[h].pc = "recover" /\ handler[h].exec = e /\ handler[h].kind = l
      BY <2>1 DEF Opens
    <3>2. l = k
      BY <1>3, <3>1 DEF NewOperation, NoOperation
    <3>3. PICK h \in Handlers : handler[h].pc = "recover" /\ handler[h].exec = e /\ handler[h].kind = k
      BY <3>1, <3>2 DEF Lost
    <3>4. handler[h].pc # "idle"
      BY <3>3
    <3> QED BY <3>3, <3>4, HeardRow DEF Spoken
  <2>2. CASE Keeps(e) \/ Retries(e)
    <3>1. op[e].state # "none" /\ op[e].reason = k
      BY <1>3, <2>2 DEF Keeps, Retries
    <3> QED BY <1>0, <3>1 DEF Spoken
  <2> QED BY <1>0, <2>1, <2>2, OpsStep DEF OpsMove
<1> QED BY <1>1, <1>2, <1>3 DEF Spoken

LEMMA SpokenOnceStep == ASSUME Shape, Decided, SpokenOnce, Next PROVE SpokenOnce'
<1> SUFFICES ASSUME NEW k \in Lost, NEW e \in Executions', Spoken(e, k)', NEW f \in Executions', Spoken(f, k)'
             PROVE  k \in trouble' /\ f = e
  BY DEF SpokenOnce
<1>1. e \in Executions /\ f \in Executions /\ (Spoken(e, k) \/ Reports(e, k)) /\ (Spoken(f, k) \/ Reports(f, k))
  BY SpeakStep
<1>2. ASSUME NEW g \in Executions, Reports(g, k) PROVE k \in trouble' /\ k \notin trouble
  BY <1>2 DEF Reports, Disturb, Lost
<1>3. CASE Spoken(e, k)
  <2>1. k \in trouble /\ k \in trouble'
    BY <1>1, <1>3, TroubleGrows DEF SpokenOnce
  <2>2. Spoken(f, k)
    BY <1>1, <1>2, <2>1
  <2> QED BY <1>1, <1>3, <2>1, <2>2 DEF SpokenOnce
<1>4. CASE Reports(e, k)
  <2>1. k \notin trouble /\ k \in trouble'
    BY <1>1, <1>2, <1>4
  <2>2. Reports(f, k)
    BY <1>1, <2>1 DEF SpokenOnce
  <2>3. exec \in Seq(Execution) /\ exec[e] \in Execution /\ exec[f] \in Execution
    BY <1>1, RowType DEF Shape, TableShape
  <2>4. exec'[f].busy = exec[f].busy - 1
    <3>1. Becomes(f, ToldRow(f, k))
      BY <1>1, <2>2, RunnerReportsIs DEF Reports, Lost, Results
    <3> QED BY <1>1, <2>3, <3>1 DEF Becomes, ToldRow, Execution
  <2>5. f # e => exec'[f] = exec[f]
    <3>1. Becomes(e, ToldRow(e, k))
      BY <1>1, <1>4, RunnerReportsIs DEF Reports, Lost, Results
    <3> QED BY <1>1, <3>1 DEF Becomes
  <2>6. exec[f].busy \in 0..2
    BY <2>3 DEF Execution
  <2> QED BY <2>1, <2>4, <2>5, <2>6
<1> QED BY <1>1, <1>3, <1>4

-----------------------------------------------------------------------------
(* What a decision finds. *)

LEMMA RecoverStep ==
    ASSUME Shape, Decided, Next, NEW h \in Handlers, handler'[h].pc = "recover"
    PROVE  handler'[h].kind # "completed"
<1>1. HandlerMoves(h) /\ handler[h] \in Request
  BY RequestStep DEF Shape, HandlerShape
<1>2. ASSUME NEW e, NEW k, Heeds(h, e, k) PROVE FALSE
  <2>1. handler'[h].pc = "record"
    BY <1>2 DEF Heeds, NoRequest
  <2> QED BY <2>1
<1>3. ASSUME handler'[h] = [handler[h] EXCEPT !.pc = AfterWrite(h)] PROVE handler'[h].kind # "completed"
  <2>1. handler'[h].pc = AfterWrite(h) /\ handler'[h].kind = handler[h].kind
    BY <1>1, <1>3 DEF Request
  <2> QED BY <2>1 DEF AfterWrite
<1>4. CASE handler'[h] = handler[h]
  BY <1>4 DEF Decided
<1>5. ASSUME NEW to \in {"project", "write"}, NEW seen,
             \/ handler'[h] = [handler[h] EXCEPT !.pc = to]
             \/ handler'[h] = [handler[h] EXCEPT !.pc = to, !.seen = seen]
      PROVE  FALSE
  <2>1. handler'[h].pc = to
    BY <1>1, <1>5 DEF Request
  <2> QED BY <2>1
<1> QED BY <1>1, <1>2, <1>3, <1>4, <1>5 DEF HandlerMoves

LEMMA OperationStep ==
    ASSUME Shape, Decided, Next, NEW e \in Rows
    PROVE  /\ op'[e].state = "none" => op'[e] = NoOperation
           /\ op'[e].session => op'[e].reason \in Lost \cup {"input_required"}
<1>1. CASE Opens(e)
  <2>1. PICK k \in Results \cup {"lease_expired"}, session \in BOOLEAN :
          /\ op'[e] = NewOperation(k, session)
          /\ \/ ~session
             \/ \E h \in Handlers : handler[h].pc = "recover" /\ handler[h].exec = e /\ handler[h].kind = k
    BY <1>1 DEF Opens
  <2>2. op'[e].state = "pending" /\ op'[e].reason = k /\ op'[e].session = session
    BY <2>1 DEF NewOperation, NoOperation
  <2>3. session => k \in Lost \cup {"input_required"}
    <3> SUFFICES ASSUME session PROVE k \in Lost \cup {"input_required"}
      OBVIOUS
    <3>1. PICK h \in Handlers : handler[h].pc = "recover" /\ handler[h].kind = k
      BY <2>1
    <3>2. handler[h].kind \in Results /\ handler[h].kind # "completed"
      <4>1. handler[h].pc # "idle"
        BY <3>1
      <4> QED BY <3>1, <4>1, HeardRow DEF Decided
    <3> QED BY <3>1, <3>2 DEF Results, Lost
  <2> QED BY <2>2, <2>3
<1>2. CASE Keeps(e)
  BY <1>2 DEF Keeps, Decided
<1>3. CASE Retries(e)
  BY <1>3 DEF Retries, Decided
<1> QED BY <1>1, <1>2, <1>3, OpsStep DEF OpsMove

\* A recovery that is to reassign was decided within the limit.
WithinLimit(q) ==
    \/ proc'[q] = proc[q]
    \/ proc'[q].pc # "reassign"
    \/ \E g \in DOMAIN attempts : proc'[q].gen = g /\ ~ (g - 1 >= MaxReassignments)

LEMMA LimitStep == ASSUME Shape, Next, NEW q \in Procs PROVE WithinLimit(q)
<1>0. proc \in [Procs -> Process] /\ proc[q] \in Process
  BY DEF Shape, ProcShape
<1>1. CASE UNCHANGED proc
  BY <1>1 DEF WithinLimit
<1>2. ASSUME NEW to, Goto(q, to), to # "reassign" PROVE WithinLimit(q)
  <2>1. proc'[q].pc = to
    BY <1>0, <1>2 DEF Goto, Process
  <2> QED BY <1>2, <2>1 DEF WithinLimit
<1>3. ASSUME NEW x, proc' = [proc EXCEPT ![q] = x], x.pc # "reassign" PROVE WithinLimit(q)
  BY <1>0, <1>3 DEF WithinLimit
<1>4. CASE Stops(q) \/ Return(q)
  <2> DEFINE x == [Idle EXCEPT !.pc = IF q \in Callers THEN "done" ELSE "idle"]
             y == [Idle EXCEPT !.pc = "finish", !.op = proc[q].op, !.verdict = proc[q].verdict]
  <2>1. x.pc \in {"done", "idle"} /\ y.pc = "finish"
    BY DEF Idle
  <2>2. proc' = [proc EXCEPT ![q] = x] \/ proc' = [proc EXCEPT ![q] = y]
    BY <1>4 DEF Stops, Return
  <2> HIDE DEF x, y
  <2> QED BY <1>3, <2>1, <2>2
<1>5. ASSUME NEW p \in Procs, p # q, NEW x, proc' = [proc EXCEPT ![p] = x] PROVE WithinLimit(q)
  BY <1>5 DEF WithinLimit
<1>6. ASSUME NEW p \in Procs, ExecuteStep(p) \/ Crash(p), p = q PROVE WithinLimit(q)
  <2>1. CASE EnsureInitial(q) \/ Reserve(q)
    <3>1. CASE proc' = [proc EXCEPT ![q].pc = "reserve", ![q].gen = GenerationOf(WithAttempt)]
      <4>1. proc'[q].pc = "reserve"
        BY <1>0, <3>1 DEF Process
      <4> QED BY <4>1 DEF WithinLimit
    <3>2. CASE proc' = [proc EXCEPT ![q].pc = "bind", ![q].exec = Len(exec) + 1]
      <4>1. proc'[q].pc = "bind"
        BY <1>0, <3>2 DEF Process
      <4> QED BY <4>1 DEF WithinLimit
    <3> QED BY <1>2, <1>4, <2>1, <3>1, <3>2 DEF EnsureInitial, Reserve, ReserveJoins, ReserveRefused,
               ReserveCreates, Raise
  <2>2. CASE Begin(q) \/ InFlight(q) \/ Wait(q) \/ Bind(q) \/ StartTask(q) \/ Prepare(q)
    BY <1>2, <1>4, <2>2 DEF Begin, InFlight, Wait, Bind, StartTask, Prepare, Raise
  <2>3. CASE \/ RenewReservation(q) \/ RestartTask(q) \/ Enqueue(q) \/ BindPayload(q)
             \/ FailReservation(q) \/ BlockTask(q) \/ Crash(q)
    BY <1>2, <1>4, <2>3 DEF RenewReservation, RestartTask, Enqueue, BindPayload, FailReservation,
       BlockTask, Crash, Raise
  <2> QED BY <1>6, <2>1, <2>2, <2>3 DEF ExecuteStep
<1>7. ASSUME NEW p \in Procs, ExecuteStep(p) \/ Crash(p), p # q PROVE WithinLimit(q)
  <2>1. proc'[q] = proc[q]
    <3>1. ASSUME NEW to, Goto(p, to) PROVE proc'[q] = proc[q]
      BY <1>0, <1>7, <3>1 DEF Goto
    <3>5. ASSUME NEW x, proc' = [proc EXCEPT ![p] = x] PROVE proc'[q] = proc[q]
      BY <1>0, <1>7, <3>5
    <3>2. CASE Stops(p) \/ Return(p)
      BY <3>2, <3>5 DEF Stops, Return
    <3>3. CASE EnsureInitial(p) \/ ReserveCreates(p)
      <4>1. p # q
        BY <1>7
      <4> QED BY <1>0, <3>3, <4>1 DEF EnsureInitial, ReserveCreates
    <3> QED
      BY <1>7, <3>1, <3>2, <3>3 DEF ExecuteStep, Begin, InFlight, Reserve, ReserveJoins, ReserveRefused,
         Wait, Bind, StartTask, Prepare, RenewReservation, RestartTask, Enqueue, BindPayload,
         FailReservation, BlockTask, Raise, Crash
  <2> QED BY <2>1 DEF WithinLimit
<1>8. ASSUME NEW c \in Callers, Call(c) PROVE WithinLimit(q)
  <2>1. proc' = [proc EXCEPT ![c] = [proc[c] EXCEPT !.pc = "begin", !.worker = FirstWorker]]
    BY <1>0, <1>8 DEF Call, Procs
  <2>2. CASE c = q
    <3>1. proc'[q].pc = "begin"
      BY <1>0, <2>1, <2>2 DEF Process
    <3> QED BY <3>1 DEF WithinLimit
  <2> QED BY <1>5, <2>1, <2>2 DEF Procs
<1>9. ASSUME NEW r \in Reconcilers, RecoveryStep(r), r # q PROVE WithinLimit(q)
  <2>1. proc'[q] = proc[q]
    BY <1>0, <1>9 DEF RecoveryStep, Discover, Look, Claim, Decide, Reopen, Reassign, Finish,
       Verdict, Escalates, NoAction, Reopens, Reassigns, Goto, Raise, Stops
  <2> QED BY <2>1 DEF WithinLimit
<1>10. ASSUME NEW r \in Reconcilers, RecoveryStep(r), r = q PROVE WithinLimit(q)
  <2>1. CASE Discover(q) \/ Look(q) \/ Claim(q) \/ Finish(q)
    <3>1. \E x : proc' = [proc EXCEPT ![q] = x] /\ x.pc \in {"idle", "look", "decide"}
      <4>1. CASE Discover(q)
        <5>1. PICK e \in Executions : proc' = [proc EXCEPT ![q] = [Idle EXCEPT !.pc = "look", !.exec = e]]
          BY <4>1 DEF Discover
        <5>2. [Idle EXCEPT !.pc = "look", !.exec = e].pc = "look"
          BY DEF Idle
        <5> QED BY <5>1, <5>2
      <4>2. CASE Claim(q)
        <5>1. PICK e \in Rows : proc' = [proc EXCEPT ![q] = [Idle EXCEPT !.pc = "decide", !.op = e]]
          BY <4>2 DEF Claim
        <5>2. [Idle EXCEPT !.pc = "decide", !.op = e].pc = "decide"
          BY DEF Idle
        <5> QED BY <5>1, <5>2
      <4>3. CASE Look(q) \/ Finish(q)
        <5>1. proc' = [proc EXCEPT ![q] = Idle]
          BY <4>3 DEF Look, Finish
        <5>2. Idle.pc = "idle"
          BY DEF Idle
        <5> QED BY <5>1, <5>2
      <4> QED BY <2>1, <4>1, <4>2, <4>3
    <3> QED BY <1>3, <3>1
  <2>2. CASE Decide(q)
    <3> DEFINE e == proc[q].op
               g == IF TriesUsedUp(e) THEN 0
                    ELSE GenerationOf(IF TriesUsedUp(e) THEN attempts ELSE WithAttempt)
    <3>1. PICK healthy : Verdict(q, e, g, healthy)
      BY <2>2 DEF Decide
    <3>2. e \in Executions /\ exec[e].gen \in DOMAIN attempts
      BY <2>2 DEF Decide, At, Shape, ProcShape, ProcOK, TableShape
    <3> HIDE DEF e, g
    <3>3. \/ Escalates(q, e) \/ NoAction(q) \/ Reopens(q, e, g)
          \/ g = exec[e].gen /\ ~ (g - 1 >= MaxReassignments) /\ \E w : Reassigns(q, e, g, w)
      BY <3>1 DEF Verdict
    <3>4. CASE Escalates(q, e) \/ NoAction(q)
      <4>1. proc'[q].pc = "finish"
        BY <1>0, <3>4 DEF Escalates, NoAction, Process
      <4> QED BY <4>1 DEF WithinLimit
    <3>5. CASE Reopens(q, e, g)
      <4>1. proc'[q].pc = "reopen"
        BY <1>0, <3>5 DEF Reopens, Process
      <4> QED BY <4>1 DEF WithinLimit
    <3>6. ASSUME NEW w, Reassigns(q, e, g, w), g = exec[e].gen, ~ (g - 1 >= MaxReassignments) PROVE WithinLimit(q)
      <4>1. proc'[q].pc = "reassign" /\ proc'[q].gen = g
        BY <1>0, <3>6 DEF Reassigns, Process
      <4> QED BY <3>2, <3>6, <4>1 DEF WithinLimit
    <3> QED BY <3>3, <3>4, <3>5, <3>6
  <2>3. CASE Reopen(q) \/ Reassign(q)
    BY <1>2, <1>4, <2>3 DEF Reopen, Reassign, Raise
  <2> QED BY <1>10, <2>1, <2>2, <2>3 DEF RecoveryStep
<1>11. ASSUME NEW h \in Handlers, ReceiveStep(h) \/ RequestDies(h) PROVE UNCHANGED proc
  BY <1>11 DEF ReceiveStep, Receive, RecordEvent, Project, WriteResult, CompleteCurrent, EnsureRecovery,
     RequestDies
<1>12. ASSUME NEW e, RunnerStep(e) \/ OfferRunsOut(e) \/ RunnerDies(e) \/ LeaseRunsOut(e)
       PROVE  UNCHANGED proc
  BY <1>12 DEF RunnerStep, OfferRunsOut, RunnerLeases, RunnerStarts, RunnerReports, RunnerDies, LeaseRunsOut,
     Beside
<1>13. ASSUME NEW e, ClaimRunsOut(e) \/ OperatorRetry(e) PROVE UNCHANGED proc
  BY <1>13 DEF ClaimRunsOut, OperatorRetry
<1> QED BY <1>1, <1>6, <1>7, <1>8, <1>9, <1>10, <1>11, <1>12, <1>13 DEF Next

LEMMA DecideStep ==
    ASSUME Shape, Decided, Next, NEW p \in Procs
    PROVE  /\ proc'[p].pc = "decide" => op'[proc'[p].op].state # "none"
           /\ proc'[p].pc = "reassign" => proc'[p].gen - 1 < MaxReassignments
<1>1. proc'[p].pc = "decide" => op'[proc'[p].op].state # "none"
  <2> SUFFICES ASSUME proc'[p].pc = "decide" PROVE op'[proc'[p].op].state # "none"
    OBVIOUS
  <2>1. CASE proc'[p] = proc[p]
    <3>1. proc[p].op \in Rows /\ op[proc[p].op].state # "none"
      BY <2>1, WorkerAssumption DEF Decided, Shape, ProcShape, ProcOK, TableShape, Executions, Rows
    <3>2. op'[proc[p].op].state # "none"
      BY <3>1, OpsStep, OpsKeep
    <3> QED BY <2>1, <3>2
  <2>2. ASSUME NEW e \in Rows, Claims(p, e) PROVE op'[proc'[p].op].state # "none"
    <3>1. proc'[p] = [Idle EXCEPT !.pc = "decide", !.op = e]
      BY <2>2 DEF Claims, Shape, ProcShape
    <3>2. proc'[p].op = e
      BY <3>1 DEF Idle
    <3> QED BY <2>2, <3>2 DEF Claims, Retries
  <2>3. Acts(p) => \E e \in Rows : Claims(p, e)
    BY DEF Acts, Places
  <2> QED BY <2>1, <2>2, <2>3, ActStep DEF Acts
<1>2. proc'[p].pc = "reassign" => proc'[p].gen - 1 < MaxReassignments
  <2> SUFFICES ASSUME proc'[p].pc = "reassign" PROVE proc'[p].gen - 1 < MaxReassignments
    OBVIOUS
  <2>1. CASE proc'[p] = proc[p]
    BY <2>1 DEF Decided
  <2>2. ASSUME NEW g \in DOMAIN attempts, proc'[p].gen = g, ~ (g - 1 >= MaxReassignments)
        PROVE  proc'[p].gen - 1 < MaxReassignments
    <3>1. g \in Nat
      BY DEF Shape, TableShape
    <3> QED BY <2>2, <3>1, WorkerAssumption
  <2> QED BY <2>1, <2>2, LimitStep DEF WithinLimit
<1> QED BY <1>1, <1>2

LEMMA DecidedStep == ASSUME Shape, Decided, Next PROVE Decided'
  BY RecoverStep, OperationStep, DecideStep DEF Decided

-----------------------------------------------------------------------------
(* The count. *)

LEMMA CountedStep ==
    ASSUME Shape, AttemptIsAssignee, SpokenOnce, Decided, Counted, Next, CausesBelow, CausesBelow'
    PROVE  Counted'
<1>1. Len(exec) \in Nat /\ Len(exec') \in Nat /\ Cardinality(Pending) \in Nat
  BY ExecStep, FS_CardinalityType DEF ExecKept, Shape, TableShape, Counted
<1>2. Cardinality(Causes) <= Cardinality(Causes') /\ Cardinality(Causes) \in Nat /\ Cardinality(Causes') \in Nat
  BY CausesGrow, FS_Subset DEF CausesBelow
<1>3. IsFiniteSet(Pending) /\ Len(exec) + Cardinality(Pending) <= Cardinality(Causes)
  BY DEF Counted
<1>4. CASE Waits
  <2>1. IsFiniteSet(Pending') /\ Cardinality(Pending') <= Cardinality(Pending) /\ Len(exec') = Len(exec)
    BY <1>3, <1>4, FS_Subset DEF Waits
  <2>2. Cardinality(Pending') \in Nat
    BY <2>1, FS_CardinalityType
  <2> QED BY <1>1, <1>2, <1>3, <2>1, <2>2 DEF Counted
<1>5. CASE Reserved
  <2>1. PICK p \in Pending : Len(exec') = Len(exec) + 1 /\ Pending' \subseteq Pending \ {p}
    BY <1>5 DEF Reserved
  <2>2. IsFiniteSet(Pending \ {p}) /\ Cardinality(Pending \ {p}) = Cardinality(Pending) - 1
    BY <1>3, <2>1, FS_RemoveElement
  <2>3. IsFiniteSet(Pending') /\ Cardinality(Pending') <= Cardinality(Pending \ {p})
    BY <2>1, <2>2, FS_Subset
  <2>4. Cardinality(Pending') \in Nat
    BY <2>3, FS_CardinalityType
  <2> QED BY <1>1, <1>2, <1>3, <2>1, <2>2, <2>3, <2>4 DEF Counted
<1>6. CASE Joins
  <2>1. PICK p \in Procs : Len(exec') = Len(exec) /\ Pending' \subseteq Pending \cup {p} /\ NewCause
    BY <1>6 DEF Joins
  <2>2. IsFiniteSet(Pending \cup {p}) /\ Cardinality(Pending \cup {p}) <= Cardinality(Pending) + 1
    <3>1. IsFiniteSet(Pending \cup {p})
          /\ Cardinality(Pending \cup {p}) = IF p \in Pending THEN Cardinality(Pending) ELSE Cardinality(Pending) + 1
      BY <1>3, FS_AddElement
    <3>2. CASE p \in Pending
      BY <1>1, <3>1, <3>2
    <3>3. CASE p \notin Pending
      BY <1>1, <3>1, <3>3
    <3> QED BY <3>2, <3>3
  <2>3. IsFiniteSet(Pending') /\ Cardinality(Pending') <= Cardinality(Pending \cup {p})
    BY <2>1, <2>2, FS_Subset
  <2>4. Cardinality(Pending') \in Nat /\ Cardinality(Pending \cup {p}) \in Nat
    BY <2>2, <2>3, FS_CardinalityType
  <2>5. Cardinality(Causes) + 1 <= Cardinality(Causes')
    <3>1. PICK x \in Causes' : x \notin Causes
      BY <2>1 DEF NewCause
    <3>2. IsFiniteSet(Causes \cup {x}) /\ Cardinality(Causes \cup {x}) = Cardinality(Causes) + 1
      BY <3>1, FS_AddElement DEF CausesBelow
    <3>3. Causes \cup {x} \subseteq Causes'
      BY <3>1, CausesGrow
    <3>4. Cardinality(Causes \cup {x}) <= Cardinality(Causes')
      BY <3>3, FS_Subset DEF CausesBelow
    <3> QED BY <3>2, <3>4
  <2> QED BY <1>1, <1>2, <1>3, <2>1, <2>2, <2>3, <2>4, <2>5 DEF Counted
<1> QED BY <1>4, <1>5, <1>6, PendingStep

LEMMA CountInit == ASSUME Init PROVE Found /\ Counted
<1>1. AttemptIsAssignee
  BY DEF Init, AttemptIsAssignee, ActiveGeneration
<1>2. Executions = {} /\ Len(exec) = 0
  BY DEF Init, Executions
<1>3. SpokenOnce
  BY <1>2 DEF SpokenOnce
<1>4. Decided
  <2>1. Idle.pc = "idle" /\ NoRequest.pc = "idle" /\ NoOperation.session = FALSE
    BY DEF Idle, NoRequest, NoOperation
  <2>2. /\ \A h \in Handlers : handler[h].pc = "idle"
        /\ \A e \in Rows : op[e] = NoOperation
        /\ \A p \in Procs : proc[p].pc = "idle"
    BY <2>1 DEF Init
  <2> QED BY <2>1, <2>2 DEF Decided
<1>5. Counted
  <2>1. \A p \in Procs : proc[p].pc = "idle"
    BY DEF Init, Idle
  <2>2. Pending = {}
    BY <2>1 DEF Pending, MayReserve
  <2>3. IsFiniteSet(Pending) /\ Cardinality(Pending) = 0
    BY <2>2, FS_EmptySet
  <2>4. CausesBelow
    BY <1>3, <1>4, ShapeInit, CausesBound
  <2> QED BY <1>2, <2>3, <2>4 DEF Counted, CausesBelow
<1> QED BY <1>1, <1>3, <1>4, <1>5 DEF Found

LEMMA FoundStep == ASSUME Shape, Found, [Next]_vars PROVE Found'
<1>1. CASE Next
  BY <1>1, AssigneeStep, SpokenOnceStep, DecidedStep DEF Found
<1>2. CASE UNCHANGED vars
  <2>1. UNCHANGED <<task, attempts, exec, op, asked, proc, handler, trouble>>
    BY <1>2 DEF vars
  <2> QED BY <2>1 DEF Found, AttemptIsAssignee, ActiveGeneration, SpokenOnce, Spoken, Executions, Decided
<1> QED BY <1>1, <1>2

LEMMA CountStep ==
    ASSUME Shape, Found, Counted, CausesBelow, CausesBelow', [Next]_vars PROVE Counted'
<1>1. CASE Next
  BY <1>1, CountedStep DEF Found
<1>2. CASE UNCHANGED vars
  <2>1. UNCHANGED <<task, attempts, exec, op, asked, proc, handler, trouble>>
    BY <1>2 DEF vars
  <2> QED BY <2>1 DEF Counted, Pending, MayReserve, Resumable, Causes, Called, CalledAgain, Tried, Moved
<1> QED BY <1>1, <1>2

LEMMA CountHolds == Spec => [](Shape /\ Counted /\ CausesBelow)
<1>1. Init => Found /\ Counted
  BY CountInit
<1>2. Shape /\ Found /\ [Next]_vars => Found'
  BY FoundStep
<1>3. Shape /\ Found => CausesBelow
  BY CausesBound DEF Found
<1>4. Shape /\ Found /\ Counted /\ CausesBelow /\ CausesBelow' /\ [Next]_vars => Counted'
  BY CountStep
<1> QED BY <1>1, <1>2, <1>3, <1>4, ShapeHolds, PTL DEF Spec

\* However the calls, the reports, the recovery and the operator interleave, a task has at
\* most one run for its first call, one for each further call, MaxReassignments for its
\* reassignments and MaxAttempts for each of its runs that failed or was interrupted: no
\* other step of the code gives a task another run.
THEOREM RunsCounted == Spec => [](Len(exec) <= 1 + MaxReassignments + MaxDisturbances * MaxAttempts)
<1>1. Shape /\ Counted /\ CausesBelow => Len(exec) <= 1 + MaxReassignments + MaxDisturbances * MaxAttempts
  <2> SUFFICES ASSUME Shape, Counted, CausesBelow PROVE Len(exec) <= RunsAtMost
    BY DEF RunsAtMost
  <2>1. Len(exec) \in Nat /\ Cardinality(Pending) \in Nat
    BY FS_CardinalityType DEF Counted, Shape, TableShape
  <2>2. Len(exec) + Cardinality(Pending) <= Cardinality(Causes)
    BY DEF Counted
  <2>3. RunsAtMost \in Nat
    BY WorkerAssumption DEF RunsAtMost
  <2> QED BY <2>1, <2>2, <2>3 DEF CausesBelow
<1> QED BY <1>1, CountHolds, PTL

\* Once the bound of an instance exceeds that count, no behaviour meets it: what ends the
\* runs of a task is the code's own limits, never the guard of the model's reserve.
THEOREM RunsStayBounded ==
    ASSUME MaxExecutions > 1 + MaxReassignments + MaxDisturbances * MaxAttempts
    PROVE  Spec => []RunsAreBounded
<1>1. Shape /\ Len(exec) <= 1 + MaxReassignments + MaxDisturbances * MaxAttempts => RunsAreBounded
  <2> SUFFICES ASSUME Shape, Len(exec) <= 1 + MaxReassignments + MaxDisturbances * MaxAttempts
               PROVE  Len(exec) < MaxExecutions
    BY DEF RunsAreBounded
  <2>1. Len(exec) \in Nat /\ MaxExecutions \in Nat /\ 1 + MaxReassignments + MaxDisturbances * MaxAttempts \in Nat
    BY WorkerAssumption DEF Shape, TableShape
  <2> QED BY <2>1
<1> QED BY <1>1, ShapeHolds, RunsCounted, PTL
================================================================================
