------------------------- MODULE WorkerExecution_proofs -------------------------
(***************************************************************************)
(* Proofs about WorkerExecution for any Workers, calls, reconcilers,       *)
(* requests, limits and disturbances.                                      *)
(***************************************************************************)
EXTENDS WorkerExecution, TLAPS, FiniteSetTheorems

-----------------------------------------------------------------------------
(* The invariants. *)

Executing == {"begin", "in_flight", "assign", "reserve", "wait"} \cup Preparing
\* A call that has its row and has not yet put its dispatch on the queue.
Holding == {"bind", "start", "prepare", "renew", "restart", "enqueue"}

TableShape ==
    /\ task \in TaskRow
    /\ attempts \in Seq(Attempt)
    /\ exec \in Seq(Execution) /\ Len(exec) <= MaxExecutions
    /\ \A e \in Executions : exec[e].gen \in DOMAIN attempts
    /\ \A e \in Executions : exec[e].starting + exec[e].busy <= 2
    /\ op \in [Rows -> Operation]
    /\ \A e \in Rows : op[e].state # "none" => e \in Executions
    /\ asked \subseteq Rows
    /\ trouble \subseteq Occurs /\ Cardinality(trouble) <= MaxDisturbances

\* What a local state holds at each place of the program.
ProcOK(p) ==
    /\ proc[p].pc \in Executing => proc[p].worker \in Workers
    /\ proc[p].pc \in {"reserve", "wait"} \cup Preparing => proc[p].gen \in DOMAIN attempts
    /\ proc[p].pc \in Preparing \cup {"look"} => proc[p].exec \in Executions
    /\ proc[p].pc \in {"look", "decide", "reopen", "reassign", "finish"} => p \in Reconcilers
    /\ proc[p].pc \in {"reopen", "reassign"} =>
          proc[p].worker \in Workers /\ proc[p].gen \in DOMAIN attempts
    /\ proc[p].pc \in {"decide", "reopen", "reassign", "finish"} => proc[p].op \in Executions
    /\ proc[p].pc \in {"reopen", "reassign", "finish"} => proc[p].verdict \in {"completed", "escalated"}
    /\ (p \in Reconcilers /\ proc[p].pc \in Executing) =>
          proc[p].op \in Executions /\ proc[p].verdict \in {"completed", "escalated"}
    /\ p \in Callers => proc[p].op = 0
ProcShape == proc \in [Procs -> Process] /\ \A p \in Procs : ProcOK(p)

HandlerShape ==
    /\ handler \in [Handlers -> Request]
    /\ \A h \in Handlers : handler[h].pc # "idle" =>
          handler[h].exec \in Executions /\ handler[h].kind \in Results

Shape == TableShape /\ ProcShape /\ HandlerShape

-----------------------------------------------------------------------------
(* One live run. *)

Active1 == \A e, f \in ActiveRows : e = f
\* Nothing has happened to a run that was not dispatched, and a row belongs to one call.
Unborn(e) ==
    /\ exec[e].dispatch = "none" /\ exec[e].starting = 0 /\ exec[e].busy = 0
    /\ exec[e].told = {} /\ exec[e].evidence = "none"
OwnRows ==
    /\ \A p, q \in Procs : p # q /\ proc[p].pc \in Preparing /\ proc[q].pc \in Preparing =>
          proc[p].exec # proc[q].exec
    /\ \A p \in Procs : proc[p].pc \in Holding =>
          /\ Unborn(proc[p].exec)
          /\ exec[proc[p].exec].gen = proc[p].gen /\ exec[proc[p].exec].worker = proc[p].worker
    /\ \A e \in Executions : exec[e].dispatch = "none" => Unborn(e)
    /\ \A h \in Handlers : handler[h].pc # "idle" => exec[handler[h].exec].dispatch # "none"

\* A run of the active generation is a run of its Worker.
Started(e) ==
    \/ exec[e].dispatch \in Live
    \/ \E p \in Procs : proc[p].pc \in {"prepare", "renew", "restart", "enqueue"} /\ proc[p].exec = e
RunsFit ==
    \A e \in Executions : Started(e) /\ exec[e].gen \in ActiveGeneration =>
        exec[e].worker = attempts[exec[e].gen].worker

LiveRows == {e \in Executions : exec[e].dispatch \in Live}
\* As long as no lease runs out under a call ...
Timely(p) ==
    /\ proc[p].pc \in Holding =>
          /\ Owned(proc[p].exec)
          /\ \A e \in LiveRows : exec[e].gen # proc[p].gen
    /\ proc[p].pc = "payload" => Owned(proc[p].exec) \/ proc[p].exec \notin LiveRows
    /\ proc[p].pc \in {"release", "giveup", "block_first"} => proc[p].exec \notin LiveRows
    /\ proc[p].pc = "assign" => \A e \in LiveRows : exec[e].worker = proc[p].worker => Owned(e)
    /\ proc[p].pc \in {"in_flight", "assign"} =>
          \A e \in LiveRows :
              exec[e].gen \in ActiveGeneration /\ attempts[exec[e].gen].worker # proc[p].worker =>
                  Owned(e)
    /\ proc[p].pc = "reserve" => \A e \in LiveRows : exec[e].gen = proc[p].gen => Owned(e)
OnTime == "slow" \notin trouble => \A p \in Procs : Timely(p)
RunInv == Active1 /\ OwnRows /\ RunsFit /\ OnTime /\ OneLiveRun

-----------------------------------------------------------------------------
(* Results. *)

Superseded(e) == attempts[exec[e].gen].state = "superseded"
\* One runner at a time, and one report.
Single(e) ==
    /\ exec[e].dispatch \in {"none", "queued"} =>
          exec[e].starting = 0 /\ exec[e].busy = 0 /\ exec[e].told = {} /\ exec[e].evidence = "none"
    /\ exec[e].dispatch = "leased" =>
          /\ exec[e].starting = 0 \/ (exec[e].starting = 1 /\ exec[e].offer)
          /\ exec[e].busy = 0 /\ exec[e].told = {} /\ exec[e].evidence = "none"
    /\ exec[e].dispatch = "accepted" =>
          /\ exec[e].starting = 0 /\ exec[e].evidence = "none"
          /\ \/ exec[e].told = {} /\ exec[e].busy <= 1
             \/ exec[e].busy = 0 /\ \E k \in Results : exec[e].told = {k}
    /\ exec[e].dispatch \in Results =>
          exec[e].starting = 0 /\ exec[e].busy = 0 /\ exec[e].told \subseteq {exec[e].dispatch}

\* A handler's event is still to be told, or recorded.
Heard ==
    \A h \in Handlers : handler[h].pc # "idle" =>
        LET e == handler[h].exec IN
        /\ exec[e].evidence = "none" => handler[h].pc = "record" /\ handler[h].kind \in exec[e].told
        /\ handler[h].pc \notin {"record", "project"} => exec[e].evidence = "accepted"
\* What is about to be written was read with the task as it is, or the write will fail.
Fresh ==
    \A h \in Handlers : handler[h].pc = "write" =>
        /\ handler[h].seen <= task.version
        /\ handler[h].seen = task.version => task.assignee = exec[handler[h].exec].worker
\* Without a second runner, an accepted event is the one every handler of its run has.
OneReport ==
    "two_runners" \notin trouble =>
        /\ \A e \in Executions : Single(e) \/ (Superseded(e) /\ exec[e].evidence # "accepted")
        /\ \A h \in Handlers : handler[h].pc # "idle" =>
              LET e == handler[h].exec IN
              /\ exec[e].evidence = "accepted" => exec[e].dispatch = handler[h].kind
              /\ exec[e].evidence = "none" /\ handler[h].allowed => Single(e)
Sound == "two_runners" \notin trouble => ResultHasRun
ResultInv == OwnRows /\ Heard /\ Fresh /\ OneReport /\ Sound

-----------------------------------------------------------------------------
(* Shapes. *)

LEMMA FourAreFinite == ASSUME NEW a, NEW b, NEW c, NEW d PROVE IsFiniteSet({a, b, c, d})
<1>1. IsFiniteSet({a} \cup {b}) /\ IsFiniteSet({c} \cup {d})
  BY FS_Singleton, FS_Union
<1>2. IsFiniteSet(({a} \cup {b}) \cup ({c} \cup {d}))
  BY <1>1, FS_Union
<1>3. {a, b, c, d} = ({a} \cup {b}) \cup ({c} \cup {d})
  OBVIOUS
<1> QED BY <1>2, <1>3

LEMMA KindsAreFinite == IsFiniteSet(Occurs)
<1> DEFINE S == {"crash", "slow", "prepare_fails", "dispatch_fails"}
           T == {"failed", "interrupted", "input_required", "sessions"}
           U == {"unhealthy", "redelivered", "two_runners", "runner_dies"}
           V == {"operator", "busy", "start_twice", "start_again"}
<1>1. IsFiniteSet((S \cup T) \cup (U \cup V))
  <2>1. IsFiniteSet(S) /\ IsFiniteSet(T) /\ IsFiniteSet(U) /\ IsFiniteSet(V)
    BY FourAreFinite
  <2>2. IsFiniteSet(S \cup T) /\ IsFiniteSet(U \cup V)
    BY <2>1, FS_Union
  <2> QED BY <2>2, FS_Union
<1>2. Occurs \subseteq (S \cup T) \cup (U \cup V)
  BY WorkerAssumption
<1> QED BY <1>1, <1>2, FS_Subset

\* A disturbance keeps the count.
LEMMA DisturbIs ==
    ASSUME trouble \subseteq Occurs, Cardinality(trouble) <= MaxDisturbances, NEW kind, Disturb(kind)
    PROVE  trouble' = trouble \cup {kind} /\ trouble' \subseteq Occurs
           /\ Cardinality(trouble') <= MaxDisturbances
<1>1. IsFiniteSet(trouble)
  BY KindsAreFinite, FS_Subset
<1>2. Cardinality(trouble \cup {kind}) = Cardinality(trouble) + 1 /\ Cardinality(trouble) \in Nat
  BY <1>1, FS_AddElement, FS_CardinalityType DEF Disturb
<1> QED BY <1>2, WorkerAssumption DEF Disturb

\* One row changes, the others stay.
LEMMA RowIs ==
    ASSUME exec \in Seq(Execution), NEW e \in Executions, NEW row \in Execution
    PROVE  /\ [exec EXCEPT ![e] = row] \in Seq(Execution)
           /\ Len([exec EXCEPT ![e] = row]) = Len(exec)
           /\ DOMAIN [exec EXCEPT ![e] = row] = Executions
           /\ \A f \in Executions : [exec EXCEPT ![e] = row][f] = IF f = e THEN row ELSE exec[f]
  BY DEF Executions
\* What no step takes back.
ExecKept ==
    /\ exec' \in Seq(Execution) /\ Len(exec') <= MaxExecutions
    /\ Executions \subseteq Executions'
    /\ \A e \in Executions : exec'[e].gen = exec[e].gen /\ exec'[e].worker = exec[e].worker
    /\ \A e \in Executions' : exec'[e].gen \in DOMAIN attempts /\ exec'[e].starting + exec'[e].busy <= 2
AttemptsKept ==
    /\ attempts' \in Seq(Attempt)
    /\ DOMAIN attempts \subseteq DOMAIN attempts'
    /\ \A g \in DOMAIN attempts : attempts'[g].worker = attempts[g].worker
    /\ \A g \in DOMAIN attempts : attempts[g].state # "active" => attempts'[g].state = attempts[g].state

LEMMA SameExec == ASSUME TableShape, UNCHANGED exec PROVE ExecKept
  BY DEF TableShape, ExecKept, Executions
LEMMA SameAttempts == ASSUME TableShape, UNCHANGED attempts PROVE AttemptsKept
  BY DEF TableShape, AttemptsKept

Becomes(e, row) ==
    /\ ExecKept /\ Executions' = Executions
    /\ \A f \in Executions : exec'[f] = IF f = e THEN row ELSE exec[f]
LEMMA RowKept ==
    ASSUME TableShape, NEW e \in Executions, NEW row \in Execution, exec' = [exec EXCEPT ![e] = row],
           row.gen = exec[e].gen, row.worker = exec[e].worker, row.starting + row.busy <= 2
    PROVE  Becomes(e, row)
<1>1. /\ exec' \in Seq(Execution) /\ Len(exec') = Len(exec)
      /\ Executions' = Executions
      /\ \A f \in Executions : exec'[f] = IF f = e THEN row ELSE exec[f]
  BY RowIs DEF TableShape, Executions
<1> QED BY <1>1 DEF TableShape, ExecKept, Becomes

\* The rows that the actions of the model write.
LEMMA NewRowIs ==
    ASSUME NEW w \in Workers, NEW g \in Nat \ {0}
    PROVE  NewExecution(w, g) \in Execution /\ NewExecution(w, g).gen = g
           /\ NewExecution(w, g).worker = w /\ NewExecution(w, g).starting + NewExecution(w, g).busy = 0
  BY DEF NewExecution, Execution, Active
LEMMA EndedIs ==
    ASSUME NEW row \in Execution, NEW status \in {"succeeded", "failed", "expired"}
    PROVE  /\ Ended(row, status) \in Execution
           /\ Ended(row, status).gen = row.gen /\ Ended(row, status).worker = row.worker
           /\ Ended(row, status).starting = row.starting /\ Ended(row, status).busy = row.busy
           /\ Ended(row, status).dispatch = row.dispatch /\ Ended(row, status).told = row.told
           /\ Ended(row, status).offer = row.offer
           /\ Ended(row, status).evidence = row.evidence /\ ~ Ended(row, status).lease
           /\ Ended(row, status).status = status /\ status \notin Active
  BY DEF Ended, Execution, Active

Swept(e) == IF exec[e].status \in Active THEN Ended(exec[e], "expired") ELSE exec[e]
LEMMA CreatedIs ==
    ASSUME Shape, NEW p \in Procs, At(p, "reserve"), ReserveCreates(p)
    PROVE  /\ ExecKept
           /\ Len(exec') = Len(exec) + 1 /\ Executions' = Executions \cup {Len(exec) + 1}
           /\ Len(exec) + 1 \notin Executions
           /\ exec'[Len(exec) + 1] = NewExecution(proc[p].worker, proc[p].gen)
           /\ \A e \in Executions : exec'[e] = Swept(e)
<1> DEFINE swept == [e \in Executions |-> IF e \in ActiveRows THEN Ended(exec[e], "expired") ELSE exec[e]]
           new == NewExecution(proc[p].worker, proc[p].gen)
<1>1. proc[p].worker \in Workers /\ proc[p].gen \in DOMAIN attempts
  BY DEF Shape, ProcShape, ProcOK, At, Executing
<1>2. new \in Execution /\ new.gen = proc[p].gen /\ new.starting + new.busy = 0
  BY <1>1, NewRowIs DEF Shape, TableShape
<1>3. \A e \in Executions : exec[e] \in Execution
  BY DEF Shape, TableShape, Executions
<1>4. \A e \in Executions : swept[e] = Swept(e)
  BY DEF ActiveRows, Swept
<1>5. \A e \in Executions : Swept(e) \in Execution /\ Swept(e).gen = exec[e].gen
                            /\ Swept(e).worker = exec[e].worker
                            /\ Swept(e).starting = exec[e].starting /\ Swept(e).busy = exec[e].busy
  BY <1>3, EndedIs DEF Swept
<1>6. swept \in Seq(Execution) /\ Len(swept) = Len(exec) /\ DOMAIN swept = Executions
  <2>1. Executions = 1..Len(exec) /\ Len(exec) \in Nat
    BY DEF Shape, TableShape, Executions
  <2>2. swept \in [1..Len(exec) -> Execution]
    BY <1>4, <1>5, <2>1
  <2> QED BY <2>1, <2>2
<1>7. exec' = Append(swept, new) /\ Len(exec) < MaxExecutions
  BY DEF ReserveCreates
<1> HIDE DEF swept, new
<1>8. /\ exec' \in Seq(Execution) /\ Len(exec') = Len(exec) + 1
      /\ exec'[Len(exec) + 1] = new
      /\ \A e \in Executions : exec'[e] = swept[e]
      /\ Executions' = Executions \cup {Len(exec) + 1} /\ Len(exec) + 1 \notin Executions
  BY <1>2, <1>6, <1>7 DEF Shape, TableShape, Executions
<1>9. ExecKept
  <2>1. \A e \in Executions : exec[e].gen \in DOMAIN attempts /\ exec[e].starting + exec[e].busy <= 2
    BY DEF Shape, TableShape
  <2>2. \A e \in Executions : exec'[e].gen = exec[e].gen /\ exec'[e].worker = exec[e].worker
                              /\ exec'[e].starting + exec'[e].busy = exec[e].starting + exec[e].busy
    BY <1>4, <1>5, <1>8
  <2>3. Len(exec') <= MaxExecutions
    BY <1>7, <1>8, WorkerAssumption DEF Shape, TableShape
  <2>4. \A e \in Executions' : exec'[e].gen \in DOMAIN attempts /\ exec'[e].starting + exec'[e].busy <= 2
    BY <1>1, <1>2, <1>8, <2>1, <2>2
  <2> QED BY <1>8, <2>2, <2>3, <2>4 DEF ExecKept
<1> QED BY <1>4, <1>8, <1>9 DEF new

LEMMA RowType == ASSUME TableShape, NEW e \in Executions PROVE exec[e] \in Execution
  BY DEF TableShape, Executions
LEMMA OwnRow ==
    ASSUME Shape, NEW p \in Procs, proc[p].pc \in Preparing \cup {"look"}
    PROVE  proc[p].exec \in Executions /\ exec[proc[p].exec] \in Execution
  BY RowType DEF Shape, ProcShape, ProcOK
LEMMA HeardRow ==
    ASSUME Shape, NEW h \in Handlers, handler[h].pc # "idle"
    PROVE  /\ handler[h] \in Request /\ handler[h].kind \in Results
           /\ handler[h].exec \in Executions /\ exec[handler[h].exec] \in Execution
  BY RowType DEF Shape, HandlerShape

\* How each step that writes a row writes it.
QueuedRow(e) == [exec[e] EXCEPT !.dispatch = "queued"]
LEMMA EnqueueIs ==
    ASSUME Shape, NEW p \in Procs, At(p, "enqueue"), exec' = [exec EXCEPT ![proc[p].exec].dispatch = "queued"]
    PROVE  Becomes(proc[p].exec, QueuedRow(proc[p].exec))
<1> DEFINE e == proc[p].exec
<1>1. e \in Executions /\ exec[e] \in Execution
  BY OwnRow DEF At, Preparing
<1>2. QueuedRow(e) \in Execution /\ QueuedRow(e).gen = exec[e].gen /\ QueuedRow(e).worker = exec[e].worker
      /\ QueuedRow(e).starting = exec[e].starting /\ QueuedRow(e).busy = exec[e].busy
  BY <1>1 DEF Execution, QueuedRow, Live
<1>3. exec' = [exec EXCEPT ![e] = QueuedRow(e)] /\ exec[e].starting + exec[e].busy <= 2
  BY <1>1 DEF QueuedRow, Shape, TableShape
<1> HIDE DEF e
<1> QED BY <1>1, <1>2, <1>3, RowKept DEF Shape, e

BoundRow(e) == [exec[e] EXCEPT !.status = "running"]
LEMMA BindPayloadIs ==
    ASSUME Shape, NEW p \in Procs, At(p, "payload"), Owned(proc[p].exec), BindPayload(p)
    PROVE  Becomes(proc[p].exec, BoundRow(proc[p].exec))
<1> DEFINE e == proc[p].exec
<1>1. e \in Executions /\ exec[e] \in Execution
  BY OwnRow DEF At, Preparing
<1>2. BoundRow(e) \in Execution /\ BoundRow(e).gen = exec[e].gen /\ BoundRow(e).worker = exec[e].worker
      /\ BoundRow(e).starting = exec[e].starting /\ BoundRow(e).busy = exec[e].busy
  BY <1>1 DEF Execution, BoundRow, Active
<1>3. exec' = [exec EXCEPT ![e] = BoundRow(e)] /\ exec[e].starting + exec[e].busy <= 2
  BY <1>1 DEF BoundRow, Shape, TableShape, BindPayload
<1> HIDE DEF e
<1> QED BY <1>1, <1>2, <1>3, RowKept DEF Shape, e

LEMMA FailReservationIs ==
    ASSUME Shape, NEW p \in Procs, FailReservation(p), Owned(proc[p].exec)
    PROVE  Becomes(proc[p].exec, Ended(exec[proc[p].exec], "failed"))
<1> DEFINE e == proc[p].exec
<1>1. e \in Executions /\ exec[e] \in Execution
  BY OwnRow DEF FailReservation, Preparing
<1>2. exec' = [exec EXCEPT ![e] = Ended(exec[e], "failed")] /\ exec[e].starting + exec[e].busy <= 2
  BY <1>1 DEF Shape, TableShape, FailReservation
<1> HIDE DEF e
<1>3. Ended(exec[e], "failed") \in Execution
      /\ Ended(exec[e], "failed").gen = exec[e].gen /\ Ended(exec[e], "failed").worker = exec[e].worker
      /\ Ended(exec[e], "failed").starting = exec[e].starting /\ Ended(exec[e], "failed").busy = exec[e].busy
  BY <1>1, EndedIs
<1> QED BY <1>1, <1>2, <1>3, RowKept DEF Shape, e

LeasedRow(e) == [exec[e] EXCEPT !.dispatch = "leased", !.offer = TRUE, !.starting = @ + 1]
LEMMA RunnerLeasesIs ==
    ASSUME Shape, NEW e \in Executions, RunnerLeases(e)
    PROVE  Becomes(e, LeasedRow(e))
<1>1. exec[e] \in Execution /\ exec[e].starting + exec[e].busy <= 2
  BY RowType DEF Shape, TableShape
<1>2. exec' = [exec EXCEPT ![e] = LeasedRow(e)]
  BY <1>1 DEF LeasedRow, RunnerLeases
<1>3. exec[e].starting \in 0..2 /\ exec[e].busy \in 0..2 /\ exec[e].told \in SUBSET Results
  BY <1>1 DEF Execution
<1>4. exec[e].starting + 1 \in 0..2 /\ exec[e].starting + 1 + exec[e].busy <= 2
  BY <1>1, <1>3 DEF RunnerLeases
<1>5. LeasedRow(e) \in Execution
  BY <1>1, <1>3, <1>4 DEF Execution, LeasedRow, Live
<1>6. LeasedRow(e).gen = exec[e].gen /\ LeasedRow(e).worker = exec[e].worker
      /\ LeasedRow(e).starting + LeasedRow(e).busy <= 2
  BY <1>1, <1>3, <1>4 DEF Execution, LeasedRow
<1> QED BY <1>2, <1>5, <1>6, RowKept DEF Shape

LapsedRow(e) == [exec[e] EXCEPT !.offer = FALSE]
LEMMA OfferRunsOutIs ==
    ASSUME Shape, NEW e \in Executions, OfferRunsOut(e)
    PROVE  Becomes(e, LapsedRow(e))
<1>1. exec[e] \in Execution /\ exec[e].starting + exec[e].busy <= 2
  BY RowType DEF Shape, TableShape
<1>2. exec' = [exec EXCEPT ![e] = LapsedRow(e)]
  BY <1>1 DEF LapsedRow, OfferRunsOut
<1>3. /\ LapsedRow(e) \in Execution
      /\ LapsedRow(e).gen = exec[e].gen /\ LapsedRow(e).worker = exec[e].worker
      /\ LapsedRow(e).starting + LapsedRow(e).busy <= 2
  BY <1>1 DEF Execution, LapsedRow, OfferRunsOut
<1> QED BY <1>2, <1>3, RowKept DEF Shape

StartedRow(e) ==
    [exec[e] EXCEPT !.starting = @ - 1, !.busy = @ + 1,
        !.dispatch = IF @ = "leased" /\ AllowsProjection(e) THEN "accepted" ELSE @,
        !.offer = @ /\ ~ AllowsProjection(e)]
LEMMA RunnerStartsIs ==
    ASSUME Shape, NEW e \in Executions, RunnerStarts(e)
    PROVE  Becomes(e, StartedRow(e))
<1>1. exec[e] \in Execution /\ exec[e].starting + exec[e].busy <= 2
  BY RowType DEF Shape, TableShape
<1>2. exec' = [exec EXCEPT ![e] = StartedRow(e)]
  BY <1>1 DEF StartedRow, RunnerStarts
<1>3. exec[e].starting \in 0..2 /\ exec[e].busy \in 0..2 /\ exec[e].told \in SUBSET Results
  BY <1>1 DEF Execution
<1>4. exec[e].starting - 1 \in 0..2 /\ exec[e].busy + 1 \in 0..2
      /\ (exec[e].starting - 1) + (exec[e].busy + 1) <= 2
  BY <1>1, <1>3 DEF RunnerStarts
<1>5. StartedRow(e) \in Execution
  BY <1>1, <1>3, <1>4 DEF Execution, StartedRow, Live
<1>6. StartedRow(e).gen = exec[e].gen /\ StartedRow(e).worker = exec[e].worker
      /\ StartedRow(e).starting + StartedRow(e).busy <= 2
  BY <1>1, <1>3, <1>4 DEF Execution, StartedRow
<1> QED BY <1>2, <1>5, <1>6, RowKept DEF Shape

ToldRow(e, k) == [exec[e] EXCEPT !.busy = @ - 1, !.told = @ \cup {k}]
LEMMA RunnerReportsIs ==
    ASSUME Shape, NEW e \in Executions, NEW k \in Results, exec[e].busy > 0,
           exec' = [exec EXCEPT ![e].busy = @ - 1, ![e].told = @ \cup {k}]
    PROVE  Becomes(e, ToldRow(e, k))
<1>1. exec[e] \in Execution /\ exec[e].starting + exec[e].busy <= 2
  BY RowType DEF Shape, TableShape
<1>2. exec' = [exec EXCEPT ![e] = ToldRow(e, k)]
  BY <1>1 DEF ToldRow
<1>3. exec[e].starting \in 0..2 /\ exec[e].busy \in 0..2 /\ exec[e].told \in SUBSET Results
  BY <1>1 DEF Execution
<1>4. exec[e].busy - 1 \in 0..2 /\ exec[e].starting + (exec[e].busy - 1) <= 2
  BY <1>1, <1>3
<1>5. ToldRow(e, k) \in Execution
  BY <1>1, <1>3, <1>4 DEF Execution, ToldRow
<1>6. ToldRow(e, k).gen = exec[e].gen /\ ToldRow(e, k).worker = exec[e].worker
      /\ ToldRow(e, k).starting + ToldRow(e, k).busy <= 2
  BY <1>1, <1>3, <1>4 DEF Execution, ToldRow
<1> QED BY <1>2, <1>5, <1>6, RowKept DEF Shape

DroppedRow(e) == [exec[e] EXCEPT !.starting = @ - 1]
LEMMA RunnerDropsIs ==
    ASSUME Shape, NEW e \in Executions, exec[e].starting > 0, exec' = [exec EXCEPT ![e].starting = @ - 1]
    PROVE  Becomes(e, DroppedRow(e))
<1>1. exec[e] \in Execution /\ exec[e].starting + exec[e].busy <= 2
  BY RowType DEF Shape, TableShape
<1>2. exec' = [exec EXCEPT ![e] = DroppedRow(e)]
  BY <1>1 DEF DroppedRow
<1>3. /\ DroppedRow(e) \in Execution
      /\ DroppedRow(e).gen = exec[e].gen /\ DroppedRow(e).worker = exec[e].worker
      /\ DroppedRow(e).starting + DroppedRow(e).busy <= 2
  BY <1>1 DEF Execution, DroppedRow
<1> QED BY <1>2, <1>3, RowKept DEF Shape

LostRow(e) == [exec[e] EXCEPT !.busy = @ - 1]
LEMMA RunnerLosesIs ==
    ASSUME Shape, NEW e \in Executions, exec[e].busy > 0, exec' = [exec EXCEPT ![e].busy = @ - 1]
    PROVE  Becomes(e, LostRow(e))
<1>1. exec[e] \in Execution /\ exec[e].starting + exec[e].busy <= 2
  BY RowType DEF Shape, TableShape
<1>2. exec' = [exec EXCEPT ![e] = LostRow(e)]
  BY <1>1 DEF LostRow
<1>3. /\ LostRow(e) \in Execution
      /\ LostRow(e).gen = exec[e].gen /\ LostRow(e).worker = exec[e].worker
      /\ LostRow(e).starting + LostRow(e).busy <= 2
  BY <1>1 DEF Execution, LostRow
<1> QED BY <1>2, <1>3, RowKept DEF Shape

ExpiredRow(e) == [exec[e] EXCEPT !.lease = FALSE]
LEMMA LeaseRunsOutIs ==
    ASSUME Shape, NEW e \in Executions, LeaseRunsOut(e)
    PROVE  Becomes(e, ExpiredRow(e))
<1>1. exec[e] \in Execution /\ exec[e].starting + exec[e].busy <= 2
  BY RowType DEF Shape, TableShape
<1>2. exec' = [exec EXCEPT ![e] = ExpiredRow(e)]
  BY <1>1 DEF ExpiredRow, LeaseRunsOut
<1>3. /\ ExpiredRow(e) \in Execution
      /\ ExpiredRow(e).gen = exec[e].gen /\ ExpiredRow(e).worker = exec[e].worker
      /\ ExpiredRow(e).starting + ExpiredRow(e).busy <= 2
  BY <1>1 DEF Execution, ExpiredRow, LeaseRunsOut
<1> QED BY <1>2, <1>3, RowKept DEF Shape

RenewedRow(e) == [exec[e] EXCEPT !.lease = @ \/ exec[e].status \in Active]
LEMMA RenewedIs ==
    ASSUME Shape, NEW e \in Executions, exec' = [exec EXCEPT ![e].lease = @ \/ exec[e].status \in Active]
    PROVE  Becomes(e, RenewedRow(e))
<1>1. exec[e] \in Execution /\ exec[e].starting + exec[e].busy <= 2
  BY RowType DEF Shape, TableShape
<1>2. exec' = [exec EXCEPT ![e] = RenewedRow(e)]
  BY <1>1 DEF RenewedRow
<1>3. /\ RenewedRow(e) \in Execution
      /\ RenewedRow(e).gen = exec[e].gen /\ RenewedRow(e).worker = exec[e].worker
      /\ RenewedRow(e).starting + RenewedRow(e).busy <= 2
  BY <1>1 DEF Execution, RenewedRow
<1> QED BY <1>2, <1>3, RowKept DEF Shape

ForgottenRow(e, k) == [exec[e] EXCEPT !.told = @ \ {k}]
LEMMA ForgottenIs ==
    ASSUME Shape, NEW e \in Executions, NEW k, exec' = [exec EXCEPT ![e].told = @ \ {k}]
    PROVE  Becomes(e, ForgottenRow(e, k))
<1>1. exec[e] \in Execution /\ exec[e].starting + exec[e].busy <= 2
  BY RowType DEF Shape, TableShape
<1>2. exec' = [exec EXCEPT ![e] = ForgottenRow(e, k)]
  BY <1>1 DEF ForgottenRow
<1>3. /\ ForgottenRow(e, k) \in Execution
      /\ ForgottenRow(e, k).gen = exec[e].gen /\ ForgottenRow(e, k).worker = exec[e].worker
      /\ ForgottenRow(e, k).starting + ForgottenRow(e, k).busy <= 2
  BY <1>1 DEF Execution, ForgottenRow
<1> QED BY <1>2, <1>3, RowKept DEF Shape

ClosedRow(e, k, allowed) ==
    [exec[e] EXCEPT !.dispatch = k, !.offer = FALSE,
                    !.evidence = IF allowed THEN "accepted" ELSE "rejected"]
SettledRow(e, k, allowed) ==
    IF exec[e].status \in Active /\ allowed
    THEN Ended(ClosedRow(e, k, allowed), IF k = "completed" THEN "succeeded" ELSE "failed")
    ELSE ClosedRow(e, k, allowed)
LEMMA SettledRowIs ==
    ASSUME NEW e, exec[e] \in Execution, NEW k \in Results, NEW allowed \in BOOLEAN
    PROVE  /\ SettledRow(e, k, allowed) \in Execution
           /\ SettledRow(e, k, allowed).gen = exec[e].gen
           /\ SettledRow(e, k, allowed).worker = exec[e].worker
           /\ SettledRow(e, k, allowed).starting = exec[e].starting
           /\ SettledRow(e, k, allowed).busy = exec[e].busy
           /\ SettledRow(e, k, allowed).told = exec[e].told
           /\ SettledRow(e, k, allowed).dispatch = k
           /\ SettledRow(e, k, allowed).evidence = IF allowed THEN "accepted" ELSE "rejected"
           /\ SettledRow(e, k, allowed).status \in Active => exec[e].status \in Active
<1> DEFINE c == ClosedRow(e, k, allowed)
<1>1. /\ c \in Execution /\ c.gen = exec[e].gen /\ c.worker = exec[e].worker
      /\ c.starting = exec[e].starting /\ c.busy = exec[e].busy /\ c.told = exec[e].told
      /\ c.dispatch = k /\ c.evidence = (IF allowed THEN "accepted" ELSE "rejected")
      /\ c.status = exec[e].status
  BY DEF ClosedRow, Execution
<1> HIDE DEF c
<1>2. LET s == Ended(c, IF k = "completed" THEN "succeeded" ELSE "failed") IN
      /\ s \in Execution /\ s.gen = c.gen /\ s.worker = c.worker /\ s.starting = c.starting
      /\ s.busy = c.busy /\ s.told = c.told /\ s.dispatch = c.dispatch /\ s.evidence = c.evidence
      /\ s.status \notin Active
  BY <1>1, EndedIs
<1> QED BY <1>1, <1>2 DEF SettledRow, c
LEMMA RecordEventIs ==
    ASSUME Shape, NEW e \in Executions, NEW h \in Handlers, RecordEvent(h), handler[h].exec = e,
           exec[e].evidence = "none"
    PROVE  Becomes(e, SettledRow(e, handler[h].kind, handler[h].allowed))
<1> DEFINE row == SettledRow(e, handler[h].kind, handler[h].allowed)
<1>1. exec[e] \in Execution /\ exec[e].starting + exec[e].busy <= 2
  BY RowType DEF Shape, TableShape
<1>2. exec' = [exec EXCEPT ![e] = row]
  BY <1>1 DEF SettledRow, ClosedRow, RecordEvent
<1>3. handler[h].kind \in Results /\ handler[h].allowed \in BOOLEAN
  BY HeardRow DEF RecordEvent, Request
<1>4. row \in Execution /\ row.gen = exec[e].gen /\ row.worker = exec[e].worker
      /\ row.starting + row.busy <= 2
  BY <1>1, <1>3, SettledRowIs
<1> HIDE DEF row
<1>5. Becomes(e, row)
  BY <1>2, <1>4, RowKept DEF Shape
<1> QED BY <1>5 DEF row

-----------------------------------------------------------------------------
(* One step, table by table. *)

LEMMA ForgetIs ==
    ASSUME Shape, NEW h \in Handlers, handler[h].pc # "idle", exec' = Forget(h)
    PROVE  Becomes(handler[h].exec, ForgottenRow(handler[h].exec, handler[h].kind))
<1>1. handler[h].exec \in Executions
  BY HeardRow
<1>2. exec' = [exec EXCEPT ![handler[h].exec].told = @ \ {handler[h].kind}]
  BY DEF Forget
<1> QED BY <1>1, <1>2, ForgottenIs

LEMMA AcknowledgeIs ==
    ASSUME Shape, NEW h \in Handlers, handler[h].pc # "idle", Acknowledge(h)
    PROVE  ExecKept
<1>1. CASE exec' = Forget(h)
  BY <1>1, ForgetIs DEF Becomes
<1>2. CASE UNCHANGED exec
  BY <1>2, SameExec DEF Shape
<1> QED BY <1>1, <1>2 DEF Acknowledge

LEMMA ExecStep == ASSUME Shape, Next PROVE ExecKept
<1> USE DEF Becomes
<1>1. CASE UNCHANGED exec
  BY <1>1, SameExec DEF Shape
<1>2. ASSUME NEW p \in Procs, Reserve(p) PROVE ExecKept
  <2>1. CASE ReserveCreates(p)
    BY <1>2, <2>1, CreatedIs DEF Reserve
  <2> QED BY <1>1, <1>2, <2>1 DEF Reserve, ReserveJoins, ReserveRefused
<1>3. ASSUME NEW p \in Procs, Enqueue(p) PROVE ExecKept
  BY <1>1, <1>3, EnqueueIs DEF Enqueue
<1>4. ASSUME NEW p \in Procs, BindPayload(p) PROVE ExecKept
  BY <1>1, <1>4, BindPayloadIs DEF BindPayload
<1>5. ASSUME NEW p \in Procs, FailReservation(p) PROVE ExecKept
  BY <1>1, <1>5, FailReservationIs DEF FailReservation
<1>6. ASSUME NEW r \in Reconcilers, Look(r) PROVE ExecKept
  <2>1. proc[r].exec \in Executions
    BY <1>6, OwnRow DEF Look, At, Procs
  <2>2. CASE exec' = [exec EXCEPT ![proc[r].exec].lease = @ \/ exec[proc[r].exec].status \in Active]
    BY <2>1, <2>2, RenewedIs
  <2> QED BY <1>1, <1>6, <2>2 DEF Look
<1>7. ASSUME NEW h \in Handlers, RecordEvent(h) PROVE ExecKept
  <2>1. handler[h].exec \in Executions
    BY <1>7, HeardRow DEF RecordEvent
  <2>2. CASE exec[handler[h].exec].evidence = "none"
    BY <1>7, <2>1, <2>2, RecordEventIs
  <2>3. CASE exec[handler[h].exec].evidence # "none"
    BY <1>1, <1>7, <2>3 DEF RecordEvent
  <2> QED BY <2>2, <2>3
<1>8. ASSUME NEW h \in Handlers, Project(h) PROVE ExecKept
  <2>1. handler[h].pc # "idle"
    BY <1>8 DEF Project
  <2>2. CASE Acknowledge(h)
    BY <2>1, <2>2, AcknowledgeIs
  <2>3. CASE exec' = Forget(h)
    BY <2>1, <2>3, ForgetIs
  <2> QED BY <1>1, <1>8, <2>2, <2>3 DEF Project, TryAgain
<1>9. ASSUME NEW h \in Handlers, CompleteCurrent(h) PROVE ExecKept
  BY <1>1, <1>9, AcknowledgeIs DEF CompleteCurrent, TryAgain
<1>10. ASSUME NEW h \in Handlers, EnsureRecovery(h) PROVE ExecKept
  BY <1>10, AcknowledgeIs DEF EnsureRecovery
<1>11. ASSUME NEW e \in Executions, RunnerReports(e) PROVE ExecKept
  BY <1>11, RunnerReportsIs DEF RunnerReports
<1>12. ASSUME NEW e \in Executions, RunnerDies(e) PROVE ExecKept
  BY <1>12, RunnerDropsIs, RunnerLosesIs DEF RunnerDies
<1>13. ASSUME NEW e \in Executions,
              RunnerLeases(e) \/ RunnerStarts(e) \/ OfferRunsOut(e) \/ LeaseRunsOut(e)
       PROVE  ExecKept
  BY <1>13, RunnerLeasesIs, RunnerStartsIs, OfferRunsOutIs, LeaseRunsOutIs
<1>14. ASSUME NEW p \in Procs, ExecuteStep(p) PROVE ExecKept
  BY <1>1, <1>2, <1>3, <1>4, <1>5, <1>14 DEF ExecuteStep, Begin, InFlight, EnsureInitial, Wait, Bind,
     StartTask, Prepare, RenewReservation, RestartTask, BlockTask
<1>15. ASSUME NEW r \in Reconcilers, RecoveryStep(r) PROVE ExecKept
  BY <1>1, <1>6, <1>15 DEF RecoveryStep, Discover, Claim, Decide, Reopen, Reassign, Finish, Aside
<1>16. ASSUME NEW h \in Handlers, ReceiveStep(h) PROVE ExecKept
  BY <1>1, <1>7, <1>8, <1>9, <1>10, <1>16 DEF ReceiveStep, Receive, WriteResult, TryAgain
<1> QED BY <1>1, <1>11, <1>12, <1>13, <1>14, <1>15, <1>16 DEF Next, RunnerStep, Call, Crash, RequestDies,
           ClaimRunsOut, OperatorRetry, Aside

\* The active attempt is looked for before one is made.
LEMMA WithAttemptIs ==
    ASSUME TableShape
    PROVE  /\ WithAttempt \in Seq(Attempt) /\ DOMAIN attempts \subseteq DOMAIN WithAttempt
           /\ \A g \in DOMAIN attempts : WithAttempt[g] = attempts[g]
           /\ GenerationOf(WithAttempt) \in DOMAIN WithAttempt
           /\ WithAttempt[GenerationOf(WithAttempt)].state = "active"
           /\ \A g \in DOMAIN WithAttempt \ DOMAIN attempts :
                 g = Len(attempts) + 1 /\ ActiveGeneration = {} /\ GenerationOf(WithAttempt) = g
                 /\ WithAttempt[g] = [worker |-> task.assignee, state |-> "active"]
<1> DEFINE new == [worker |-> task.assignee, state |-> "active"]
<1>1. new \in Attempt /\ new.state = "active"
  BY DEF TableShape, TaskRow, Attempt
<1>2. attempts \in Seq(Attempt)
  BY DEF TableShape
<1>3. CASE ActiveGeneration # {}
  <2>1. WithAttempt = attempts
    BY <1>3 DEF WithAttempt
  <2>2. \E g \in DOMAIN attempts : attempts[g].state = "active"
    BY <1>3 DEF ActiveGeneration
  <2> QED BY <1>2, <2>1, <2>2 DEF GenerationOf
<1>4. CASE ActiveGeneration = {}
  <2>1. WithAttempt = Append(attempts, new)
    BY <1>4 DEF WithAttempt
  <2> HIDE DEF new
  <2>2. \A g \in DOMAIN attempts : attempts[g].state # "active"
    BY <1>4 DEF ActiveGeneration
  <2>3. /\ WithAttempt \in Seq(Attempt) /\ DOMAIN attempts \subseteq DOMAIN WithAttempt
        /\ \A g \in DOMAIN attempts : WithAttempt[g] = attempts[g]
        /\ Len(attempts) + 1 \in DOMAIN WithAttempt /\ WithAttempt[Len(attempts) + 1] = new
        /\ \A g \in DOMAIN WithAttempt \ DOMAIN attempts : g = Len(attempts) + 1
    BY <1>1, <1>2, <2>1
  <2>4. \A g \in DOMAIN WithAttempt : WithAttempt[g].state = "active" => g = Len(attempts) + 1
    BY <2>2, <2>3
  <2>5. GenerationOf(WithAttempt) = Len(attempts) + 1
    BY <1>1, <2>3, <2>4 DEF GenerationOf
  <2> QED BY <1>1, <1>4, <2>3, <2>5 DEF new
<1> QED BY <1>3, <1>4

LEMMA AttemptsStep == ASSUME Shape, Next PROVE AttemptsKept
<1>0. attempts \in Seq(Attempt)
  BY DEF Shape, TableShape
<1>1. CASE UNCHANGED attempts
  BY <1>1, SameAttempts DEF Shape
<1>2. CASE attempts' = WithAttempt
  BY <1>2, WithAttemptIs DEF Shape, AttemptsKept
<1>3. ASSUME NEW h \in Handlers, CompleteCurrent(h) PROVE AttemptsKept
  <2> DEFINE g == exec[handler[h].exec].gen
  <2>1. g \in DOMAIN attempts
    BY <1>3, HeardRow DEF CompleteCurrent, Shape, TableShape
  <2>2. CASE attempts[g].state = "superseded"
    BY <1>1, <1>3, <2>2 DEF CompleteCurrent
  <2>3. CASE attempts[g].state # "superseded"
    <3>1. attempts' = [attempts EXCEPT ![g] = [attempts[g] EXCEPT !.state = "completed"]]
      BY <1>3, <2>3 DEF CompleteCurrent
    <3>2. attempts[g] \in Attempt
      BY <1>0, <2>1
    <3>3. /\ [attempts[g] EXCEPT !.state = "completed"] \in Attempt
          /\ [attempts[g] EXCEPT !.state = "completed"].worker = attempts[g].worker
          /\ attempts[g].state # "active" => attempts[g].state = "completed"
          /\ [attempts[g] EXCEPT !.state = "completed"].state = "completed"
      BY <2>3, <3>2 DEF Attempt
    <3> HIDE DEF g
    <3> QED BY <1>0, <2>1, <3>1, <3>3 DEF AttemptsKept
  <2> QED BY <2>2, <2>3
<1>4. ASSUME NEW r \in Reconcilers, Reassign(r) PROVE AttemptsKept
  <2> DEFINE g == proc[r].gen
             old == [attempts EXCEPT ![g].state = "superseded"]
             new == [worker |-> proc[r].worker, state |-> "active"]
  <2>1. g \in DOMAIN attempts /\ proc[r].worker \in Workers
    BY <1>4 DEF Reassign, Shape, ProcShape, ProcOK, At, Procs
  <2>2. CASE UNCHANGED attempts
    BY <1>1, <2>2
  <2>3. CASE StillAsDecided(r) /\ attempts' = Append(old, new)
    <3>1. attempts[g].state = "active" /\ attempts[g] \in Attempt
      BY <1>0, <2>1, <2>3 DEF StillAsDecided, ActiveGeneration
    <3>2. /\ [attempts[g] EXCEPT !.state = "superseded"] \in Attempt /\ new \in Attempt
          /\ [attempts[g] EXCEPT !.state = "superseded"].worker = attempts[g].worker
      BY <2>1, <3>1 DEF Attempt
    <3>3. old \in Seq(Attempt) /\ Len(old) = Len(attempts) /\ DOMAIN old = DOMAIN attempts
          /\ \A f \in DOMAIN attempts : old[f] = IF f = g THEN [attempts[g] EXCEPT !.state = "superseded"]
                                                 ELSE attempts[f]
      BY <1>0, <2>1, <3>2
    <3> HIDE DEF g, old, new
    <3>4. attempts' \in Seq(Attempt) /\ DOMAIN attempts \subseteq DOMAIN attempts'
          /\ \A f \in DOMAIN attempts : attempts'[f] = old[f]
      BY <1>0, <2>3, <3>2, <3>3
    <3> QED BY <3>1, <3>2, <3>3, <3>4 DEF AttemptsKept
  <2> QED BY <1>4, <2>2, <2>3 DEF Reassign
<1>5. ASSUME NEW r \in Reconcilers, Decide(r) PROVE AttemptsKept
  BY <1>1, <1>2, <1>5 DEF Decide
<1>6. ASSUME NEW p \in Procs, ExecuteStep(p) PROVE AttemptsKept
  BY <1>1, <1>2, <1>6 DEF ExecuteStep, Begin, InFlight, EnsureInitial, Reserve, Wait, Bind,
     StartTask, Prepare, RenewReservation, RestartTask, Enqueue, BindPayload, FailReservation, BlockTask
<1>7. ASSUME NEW r \in Reconcilers, RecoveryStep(r) PROVE AttemptsKept
  BY <1>1, <1>4, <1>5, <1>7 DEF RecoveryStep, Discover, Look, Claim, Reopen, Finish, Aside
<1>8. ASSUME NEW h \in Handlers, ReceiveStep(h) PROVE AttemptsKept
  BY <1>1, <1>3, <1>8 DEF ReceiveStep, Receive, RecordEvent, Project, WriteResult, EnsureRecovery
<1> QED BY <1>1, <1>6, <1>7, <1>8 DEF Next, RunnerStep, Call, Crash, RequestDies, OfferRunsOut,
           RunnerLeases, RunnerStarts, RunnerReports, RunnerDies, LeaseRunsOut,
           ClaimRunsOut, OperatorRetry, Aside, Beside

TaskKept == task' \in TaskRow /\ (UNCHANGED task \/ task'.version = task.version + 1)

LEMMA BecomesIs ==
    ASSUME TableShape, NEW st \in {"ASSIGNED", "IN_PROGRESS", "BLOCKED"} \cup Final, TaskBecomes(st)
    PROVE  TaskKept /\ task'.status = st /\ task'.assignee = task.assignee
           /\ task'.version = task.version + 1
<1>1. task \in TaskRow /\ task.version + 1 \in Nat
  BY DEF TableShape, TaskRow
<1>2. task' = [task EXCEPT !.status = st, !.version = task.version + 1]
  BY DEF TaskBecomes
<1>3. task' \in TaskRow /\ task'.version = task.version + 1
  BY <1>1, <1>2 DEF TaskRow
<1>4. task'.status = st /\ task'.assignee = task.assignee
  BY <1>1, <1>2 DEF TaskRow
<1> QED BY <1>3, <1>4 DEF TaskKept

LEMMA ResultStatusIs == ASSUME NEW k \in Results PROVE ResultStatus(k) \in {"BLOCKED"} \cup Final
  BY DEF Results, ResultStatus, Final

LEMMA TaskStep == ASSUME Shape, Next PROVE TaskKept
<1>0. TableShape
  BY DEF Shape
<1>1. CASE UNCHANGED task
  BY <1>0, <1>1 DEF TableShape, TaskKept
<1>2. ASSUME NEW p \in Procs, StartTask(p) \/ RestartTask(p) \/ BlockTask(p) PROVE TaskKept
  BY <1>0, <1>1, <1>2, BecomesIs DEF StartTask, RestartTask, BlockTask, TaskStarted
<1>3. ASSUME NEW r \in Reconcilers, Reopen(r) PROVE TaskKept
  BY <1>0, <1>1, <1>3, BecomesIs DEF Reopen
<1>4. ASSUME NEW r \in Reconcilers, Reassign(r) PROVE TaskKept
  <2>1. proc[r].worker \in Workers
    BY <1>4 DEF Reassign, Shape, ProcShape, ProcOK, At, Procs
  <2>2. CASE task' = [status |-> "ASSIGNED", assignee |-> proc[r].worker, version |-> task.version + 1]
    BY <1>0, <2>1, <2>2 DEF TableShape, TaskRow, TaskKept
  <2> QED BY <1>1, <1>4, <2>2 DEF Reassign
<1>5. ASSUME NEW h \in Handlers, WriteResult(h) PROVE TaskKept
  <2>1. ResultStatus(handler[h].kind) \in {"BLOCKED"} \cup Final
    BY <1>5, HeardRow, ResultStatusIs DEF WriteResult
  <2> QED BY <1>0, <1>1, <1>5, <2>1, BecomesIs DEF WriteResult
<1>6. ASSUME NEW p \in Procs, ExecuteStep(p) PROVE TaskKept
  BY <1>1, <1>2, <1>6 DEF ExecuteStep, Begin, InFlight, EnsureInitial, Reserve, Wait, Bind,
     Prepare, RenewReservation, Enqueue, BindPayload, FailReservation
<1>7. ASSUME NEW r \in Reconcilers, RecoveryStep(r) PROVE TaskKept
  BY <1>1, <1>3, <1>4, <1>7 DEF RecoveryStep, Discover, Look, Claim, Decide, Finish, Aside
<1>8. ASSUME NEW h \in Handlers, ReceiveStep(h) PROVE TaskKept
  BY <1>1, <1>5, <1>8 DEF ReceiveStep, Receive, RecordEvent, Project, CompleteCurrent, EnsureRecovery
<1> QED BY <1>1, <1>6, <1>7, <1>8 DEF Next, RunnerStep, Call, Crash, RequestDies, OfferRunsOut,
           RunnerLeases, RunnerStarts, RunnerReports, RunnerDies, LeaseRunsOut,
           ClaimRunsOut, OperatorRetry, Aside, Beside

OpKept ==
    /\ op' \in [Rows -> Operation]
    /\ \A e \in Rows : op'[e].state # "none" => e \in Executions

LEMMA NewOperationIs ==
    ASSUME NEW reason \in Results \cup {"lease_expired"}, NEW session \in BOOLEAN
    PROVE  NewOperation(reason, session) \in Operation
  BY DEF NewOperation, NoOperation, Operation

\* An operation is written for a row there is, or for one that had an operation.
LEMMA OperationIs ==
    ASSUME TableShape, NEW e \in Executions, NEW row \in Operation, op' = [op EXCEPT ![e] = row]
    PROVE  OpKept
<1>1. e \in Rows
  BY WorkerAssumption DEF TableShape, Executions, Rows
<1> QED BY <1>1 DEF TableShape, OpKept

LEMMA OpStep == ASSUME Shape, Next PROVE OpKept
<1>0. TableShape
  BY DEF Shape
<1>1. CASE UNCHANGED op
  BY <1>0, <1>1 DEF TableShape, OpKept
<1>2. ASSUME NEW e \in Executions PROVE e \in Rows /\ op[e] \in Operation
  BY <1>0, WorkerAssumption DEF TableShape, Executions, Rows
<1>3. ASSUME NEW h \in Handlers, EnsureRecovery(h) PROVE OpKept
  <2>1. handler[h].exec \in Executions /\ handler[h].kind \in Results
    BY <1>3, HeardRow DEF EnsureRecovery
  <2>2. ASSUME NEW session \in BOOLEAN,
               op' = [op EXCEPT ![handler[h].exec] = NewOperation(handler[h].kind, session)]
        PROVE  OpKept
    BY <1>0, <2>1, <2>2, NewOperationIs, OperationIs
  <2> QED BY <1>1, <1>3, <2>2 DEF EnsureRecovery
<1>4. ASSUME NEW r \in Reconcilers, Look(r) PROVE OpKept
  <2>1. proc[r].exec \in Executions
    BY <1>4, OwnRow DEF Look, At, Procs
  <2>2. CASE op' = [op EXCEPT ![proc[r].exec] = NewOperation("lease_expired", FALSE)]
    BY <1>0, <2>1, <2>2, NewOperationIs, OperationIs
  <2> QED BY <1>1, <1>4, <2>2 DEF Look
<1>5. ASSUME NEW r \in Reconcilers, Claim(r) PROVE OpKept
  <2>1. PICK e \in Rows :
          /\ op[e].state \in {"pending", "running"}
          /\ op' = [op EXCEPT ![e].state = "running", ![e].attempts = @ + 1,
                              ![e].lease = TRUE, ![e].owner = r]
    BY <1>5 DEF Claim
  <2> DEFINE row == [op[e] EXCEPT !.state = "running", !.attempts = @ + 1, !.lease = TRUE, !.owner = r]
  <2>2. e \in Executions
    BY <1>0, <2>1 DEF TableShape
  <2>3. row \in Operation
    <3>1. op[e] \in Operation /\ op[e].attempts + 1 \in Nat
      BY <1>2, <2>2 DEF Operation
    <3>2. "running" \in {"none", "pending", "running", "completed", "escalated"}
          /\ r \in Reconcilers \cup {None}
      OBVIOUS
    <3> QED BY <3>1, <3>2 DEF Operation
  <2>4. op' = [op EXCEPT ![e] = row]
    BY <2>1
  <2> QED BY <1>0, <2>2, <2>3, <2>4, OperationIs
<1>6. ASSUME NEW r \in Reconcilers, Finish(r) PROVE OpKept
  <2> DEFINE e == proc[r].op
             row == [op[e] EXCEPT !.state = proc[r].verdict, !.lease = FALSE, !.owner = None]
  <2>1. e \in Executions /\ proc[r].verdict \in {"completed", "escalated"}
    BY <1>6 DEF Finish, Shape, ProcShape, ProcOK, At, Procs
  <2>2. row \in Operation
    BY <1>2, <2>1 DEF Operation
  <2>3. CASE op' = [op EXCEPT ![e] = row]
    BY <1>0, <2>1, <2>2, <2>3, OperationIs
  <2> QED BY <1>1, <1>6, <2>3 DEF Finish
<1>7. ASSUME NEW e \in Executions, OperatorRetry(e) PROVE OpKept
  <2>1. PICK d \in {"resume", "reassign"} :
          op' = [op EXCEPT ![e].state = "pending", ![e].decision = d, ![e].lease = FALSE,
                           ![e].owner = None]
    BY <1>7 DEF OperatorRetry
  <2> DEFINE row == [op[e] EXCEPT !.state = "pending", !.decision = d, !.lease = FALSE, !.owner = None]
  <2>2. row \in Operation
    BY <1>2 DEF Operation
  <2>3. op' = [op EXCEPT ![e] = row]
    BY <2>1
  <2> QED BY <1>0, <2>2, <2>3, OperationIs
<1>8. ASSUME NEW e \in Executions, ClaimRunsOut(e) PROVE OpKept
  <2>1. [op[e] EXCEPT !.lease = FALSE] \in Operation
    BY <1>2 DEF Operation
  <2>2. op' = [op EXCEPT ![e] = [op[e] EXCEPT !.lease = FALSE]]
    BY <1>8 DEF ClaimRunsOut
  <2> QED BY <1>0, <2>1, <2>2, OperationIs
<1>9. ASSUME NEW p \in Procs, ExecuteStep(p) PROVE OpKept
  BY <1>1, <1>9 DEF ExecuteStep, Begin, InFlight, EnsureInitial, Reserve, Wait, Bind, StartTask,
     Prepare, RenewReservation, RestartTask, Enqueue, BindPayload, FailReservation, BlockTask
<1>10. ASSUME NEW r \in Reconcilers, RecoveryStep(r) PROVE OpKept
  BY <1>1, <1>4, <1>5, <1>6, <1>10 DEF RecoveryStep, Discover, Decide, Reopen, Reassign
<1>11. ASSUME NEW h \in Handlers, ReceiveStep(h) PROVE OpKept
  BY <1>1, <1>3, <1>11 DEF ReceiveStep, Receive, RecordEvent, Project, WriteResult, CompleteCurrent
<1> QED BY <1>1, <1>7, <1>8, <1>9, <1>10, <1>11 DEF Next, RunnerStep, Call, Crash, RequestDies,
           OfferRunsOut, RunnerLeases, RunnerStarts, RunnerReports, RunnerDies, LeaseRunsOut, Beside

LEMMA TroubleStep ==
    ASSUME Shape, Next PROVE trouble' \subseteq Occurs /\ Cardinality(trouble') <= MaxDisturbances
<1>0. trouble \subseteq Occurs /\ Cardinality(trouble) <= MaxDisturbances
  BY DEF Shape, TableShape
<1>1. CASE Calm
  BY <1>0, <1>1 DEF Calm
<1>2. CASE \E kind : Disturb(kind)
  BY <1>0, <1>2, DisturbIs
<1>3. ASSUME NEW p \in Procs, ExecuteStep(p) PROVE Calm \/ \E kind : Disturb(kind)
  BY <1>3 DEF ExecuteStep, Begin, InFlight, EnsureInitial, Reserve, ReserveJoins, ReserveRefused,
     ReserveCreates, Wait, Bind, StartTask, Prepare, RenewReservation, RestartTask, Enqueue,
     BindPayload, FailReservation, BlockTask
<1>4. ASSUME NEW h \in Handlers, ReceiveStep(h) PROVE Calm \/ \E kind : Disturb(kind)
  BY <1>4 DEF ReceiveStep, Receive, RecordEvent, Project, WriteResult, CompleteCurrent,
     EnsureRecovery, Acknowledge, TryAgain
<1>5. ASSUME NEW r \in Reconcilers, RecoveryStep(r) PROVE Calm
  BY <1>5 DEF RecoveryStep, Discover, Look, Claim, Decide, Reopen, Reassign, Finish, Aside
<1>6. ASSUME NEW e \in Executions, RunnerStep(e) \/ OfferRunsOut(e) \/ RunnerDies(e) \/ LeaseRunsOut(e)
      PROVE  Calm \/ \E kind : Disturb(kind)
  BY <1>6 DEF RunnerStep, RunnerLeases, RunnerStarts, RunnerReports, OfferRunsOut, RunnerDies,
     LeaseRunsOut
<1>7. ASSUME NEW e \in Executions, ClaimRunsOut(e) \/ OperatorRetry(e)
      PROVE  Calm \/ \E kind : Disturb(kind)
  BY <1>7 DEF ClaimRunsOut, OperatorRetry
<1> QED BY <1>1, <1>2, <1>3, <1>4, <1>5, <1>6, <1>7 DEF Next, Call, Crash, RequestDies

LEMMA AskedStep == ASSUME Shape, Next PROVE asked' \subseteq Rows
<1>1. CASE UNCHANGED asked
  BY <1>1 DEF Shape, TableShape
<1>2. ASSUME NEW r \in Reconcilers, Decide(r) PROVE asked' \subseteq Rows
  <2>1. proc[r].op \in Rows
    BY <1>2, WorkerAssumption DEF Decide, Shape, ProcShape, ProcOK, At, Procs, Rows, TableShape, Executions
  <2>2. UNCHANGED asked \/ asked' = asked \cup {proc[r].op}
    BY <1>2 DEF Decide, Verdict, Escalates, Reopens, Reassigns, NoAction
  <2> QED BY <1>1, <2>1, <2>2 DEF Shape, TableShape
<1>3. ASSUME NEW r \in Reconcilers, RecoveryStep(r) PROVE asked' \subseteq Rows
  BY <1>1, <1>2, <1>3 DEF RecoveryStep, Discover, Look, Claim, Reopen, Reassign, Finish
<1>4. ASSUME NEW p \in Procs, ExecuteStep(p) PROVE UNCHANGED asked
  BY <1>4 DEF ExecuteStep, Begin, InFlight, EnsureInitial, Reserve, Wait, Bind, StartTask,
     Prepare, RenewReservation, RestartTask, Enqueue, BindPayload, FailReservation, BlockTask
<1>5. ASSUME NEW h \in Handlers, ReceiveStep(h) PROVE UNCHANGED asked
  BY <1>5 DEF ReceiveStep, Receive, RecordEvent, Project, WriteResult, CompleteCurrent, EnsureRecovery
<1> QED BY <1>1, <1>3, <1>4, <1>5 DEF Next, RunnerStep, Call, Crash, RequestDies, OfferRunsOut,
           RunnerLeases, RunnerStarts, RunnerReports, RunnerDies, LeaseRunsOut, ClaimRunsOut,
           OperatorRetry, Beside

LEMMA TableStep == ASSUME Shape, Next PROVE TableShape' /\ ExecKept /\ AttemptsKept
<1>1. ExecKept /\ AttemptsKept /\ TaskKept /\ OpKept
  BY ExecStep, AttemptsStep, TaskStep, OpStep
<1>2. \A e \in Executions' : exec'[e].gen \in DOMAIN attempts'
  BY <1>1 DEF ExecKept, AttemptsKept
<1>3. \A e \in Rows : op'[e].state # "none" => e \in Executions'
  BY <1>1 DEF ExecKept, OpKept
<1> QED BY <1>1, <1>2, <1>3, TroubleStep, AskedStep
        DEF TableShape, ExecKept, AttemptsKept, TaskKept, OpKept

-----------------------------------------------------------------------------
(* One step, process by process. *)

LEMMA OneMoves ==
    ASSUME Shape, ExecKept, AttemptsKept, NEW p \in Procs, NEW x \in Process,
           proc' = [proc EXCEPT ![p] = x], ProcOK(p)'
    PROVE  ProcShape'
<1>1. proc' \in [Procs -> Process] /\ proc'[p] = x /\ \A q \in Procs \ {p} : proc'[q] = proc[q]
  BY DEF Shape, ProcShape
<1>2. ASSUME NEW q \in Procs \ {p} PROVE ProcOK(q)'
  <2>1. ProcOK(q) /\ proc'[q] = proc[q]
    BY <1>1 DEF Shape, ProcShape
  <2>2. Executions \subseteq Executions' /\ DOMAIN attempts \subseteq DOMAIN attempts'
    BY DEF ExecKept, AttemptsKept
  <2> QED BY <2>1, <2>2 DEF ProcOK
<1> QED BY <1>1, <1>2 DEF ProcShape

LEMMA NoneMoves == ASSUME Shape, ExecKept, AttemptsKept, UNCHANGED proc PROVE ProcShape'
<1>1. Executions \subseteq Executions' /\ DOMAIN attempts \subseteq DOMAIN attempts'
  BY DEF ExecKept, AttemptsKept
<1> QED BY <1>1 DEF Shape, ProcShape, ProcOK

Alike(pc, new) ==
    \/ pc \in {"begin", "in_flight", "assign"} /\ new \in {"begin", "in_flight", "assign"}
    \/ pc \in {"reserve", "wait"} /\ new \in {"reserve", "wait"}
    \/ pc \in Preparing /\ new \in Preparing

LEMMA GotoShape ==
    ASSUME Shape, ExecKept, AttemptsKept, NEW p \in Procs, NEW pc, Alike(proc[p].pc, pc), Goto(p, pc)
    PROVE  ProcShape'
<1> DEFINE x == [proc[p] EXCEPT !.pc = pc]
<1>1. proc[p] \in Process /\ ProcOK(p)
  BY DEF Shape, ProcShape
<1>2. proc' = [proc EXCEPT ![p] = x] /\ proc'[p] = x
  BY DEF Goto, Shape, ProcShape
<1>3. x \in Process
  BY <1>1 DEF Process, Alike, Preparing
<1>4. x.worker = proc[p].worker /\ x.gen = proc[p].gen /\ x.exec = proc[p].exec /\ x.op = proc[p].op
      /\ x.verdict = proc[p].verdict /\ x.pc = pc
  BY <1>1 DEF Process
<1>5. Executions \subseteq Executions' /\ DOMAIN attempts \subseteq DOMAIN attempts'
  BY DEF ExecKept, AttemptsKept
<1> HIDE DEF x
<1>6. ProcOK(p)'
  BY <1>1, <1>2, <1>4, <1>5 DEF ProcOK, Alike, Preparing, Executing
<1> QED BY <1>2, <1>3, <1>6, OneMoves

LEMMA IdleIs == ASSUME NEW pc \in {"idle", "done"} PROVE [Idle EXCEPT !.pc = pc] \in Process
                /\ [Idle EXCEPT !.pc = pc].pc = pc /\ [Idle EXCEPT !.pc = pc].op = 0
  BY WorkerAssumption DEF Idle, Process

LEMMA StopsShape ==
    ASSUME Shape, ExecKept, AttemptsKept, NEW p \in Procs, Stops(p)
    PROVE  ProcShape'
<1> DEFINE pc == IF p \in Callers THEN "done" ELSE "idle"
           x == [Idle EXCEPT !.pc = pc]
<1>1. x \in Process /\ x.pc \in {"idle", "done"} /\ x.op = 0
  BY IdleIs
<1>2. proc' = [proc EXCEPT ![p] = x] /\ proc'[p] = x
  BY DEF Stops, Shape, ProcShape
<1> HIDE DEF x
<1>3. ProcOK(p)'
  BY <1>1, <1>2 DEF ProcOK, Executing, Preparing
<1> QED BY <1>1, <1>2, <1>3, OneMoves

LEMMA ReturnShape ==
    ASSUME Shape, ExecKept, AttemptsKept, NEW p \in Procs, proc[p].pc \in Executing, Return(p)
    PROVE  ProcShape'
<1>1. CASE p \in Callers
  BY <1>1, StopsShape DEF Return
<1>2. CASE p \notin Callers
  <2> DEFINE x == [Idle EXCEPT !.pc = "finish", !.op = proc[p].op, !.verdict = proc[p].verdict]
  <2>1. proc[p] \in Process /\ proc[p].op \in Executions /\ proc[p].verdict \in {"completed", "escalated"}
        /\ p \in Reconcilers
    BY <1>2 DEF Shape, ProcShape, ProcOK, Procs
  <2>2. x \in Process
    <3>1. proc[p].op \in 0..MaxExecutions /\ 0 \in 0..MaxExecutions
      BY <2>1, WorkerAssumption DEF Process
    <3> QED BY <2>1, <3>1 DEF Process, Idle
  <2>6. x.pc = "finish" /\ x.op = proc[p].op /\ x.verdict = proc[p].verdict
    BY DEF Idle
  <2>3. proc' = [proc EXCEPT ![p] = x] /\ proc'[p] = x
    BY <1>2 DEF Return, Shape, ProcShape
  <2> HIDE DEF x
  <2>4. Executions \subseteq Executions'
    BY DEF ExecKept
  <2>5. ProcOK(p)'
    BY <1>2, <2>1, <2>6, <2>3, <2>4 DEF ProcOK, Executing, Preparing
  <2> QED BY <2>2, <2>3, <2>5, OneMoves
<1> QED BY <1>1, <1>2

\* The steps that set more than the place.
LEMMA CallShape == ASSUME Shape, ExecKept, AttemptsKept, NEW c \in Callers, Call(c) PROVE ProcShape'
<1> DEFINE x == [proc[c] EXCEPT !.pc = "begin", !.worker = FirstWorker]
<1>1. proc[c] \in Process /\ ProcOK(c) /\ c \in Procs
  BY DEF Shape, ProcShape, Procs
<1>2. proc' = [proc EXCEPT ![c] = x] /\ proc'[c] = x
  BY <1>1 DEF Call, Shape, ProcShape
<1>3. x \in Process /\ x.pc = "begin" /\ x.worker = FirstWorker /\ x.op = proc[c].op
  BY <1>1, WorkerAssumption DEF Process
<1> HIDE DEF x
<1>4. c \notin Reconcilers
  BY WorkerAssumption
<1>5. ProcOK(c)'
  BY <1>1, <1>2, <1>3, <1>4, WorkerAssumption DEF ProcOK, Preparing, Executing
<1> QED BY <1>1, <1>2, <1>3, <1>5, OneMoves

LEMMA EnsureShape ==
    ASSUME Shape, ExecKept, AttemptsKept, NEW p \in Procs, EnsureInitial(p)
    PROVE  ProcShape'
<1> DEFINE g == GenerationOf(WithAttempt)
           x == [proc[p] EXCEPT !.pc = "reserve", !.gen = g]
<1>1. proc[p] \in Process /\ ProcOK(p) /\ proc[p].pc = "assign"
  BY DEF Shape, ProcShape, EnsureInitial, At
<1>2. proc' = [proc EXCEPT ![p] = x] /\ proc'[p] = x
  BY DEF EnsureInitial, Shape, ProcShape
<1>3. g \in DOMAIN attempts' /\ g \in Nat
  BY WithAttemptIs DEF Shape, EnsureInitial
<1> HIDE DEF g
<1>4. x \in Process /\ x.pc = "reserve" /\ x.gen = g /\ x.worker = proc[p].worker
      /\ x.op = proc[p].op /\ x.verdict = proc[p].verdict
  BY <1>1, <1>3 DEF Process
<1> HIDE DEF x
<1>5. Executions \subseteq Executions'
  BY DEF ExecKept
<1>6. ProcOK(p)'
  BY <1>1, <1>2, <1>3, <1>4, <1>5 DEF ProcOK, Preparing, Executing
<1> QED BY <1>2, <1>4, <1>6, OneMoves

LEMMA ReserveShape ==
    ASSUME Shape, ExecKept, AttemptsKept, NEW p \in Procs, Reserve(p)
    PROVE  ProcShape'
<1>1. CASE ReserveCreates(p)
  <2> DEFINE x == [proc[p] EXCEPT !.pc = "bind", !.exec = Len(exec) + 1]
  <2>1. proc[p] \in Process /\ ProcOK(p) /\ proc[p].pc = "reserve"
    BY DEF Shape, ProcShape, Reserve, At
  <2>2. proc' = [proc EXCEPT ![p] = x] /\ proc'[p] = x
    BY <1>1 DEF ReserveCreates, Shape, ProcShape
  <2>3. Len(exec) + 1 \in Executions' /\ Len(exec) + 1 \in 0..MaxExecutions
    <3>1. Len(exec) + 1 \in Executions' /\ Len(exec') = Len(exec) + 1 /\ ExecKept
      BY <1>1, CreatedIs DEF Reserve
    <3>2. Len(exec) \in Nat /\ Len(exec) + 1 <= MaxExecutions
      BY <3>1 DEF ExecKept, Shape, TableShape
    <3> QED BY <3>1, <3>2, WorkerAssumption
  <2>4. x \in Process /\ x.pc = "bind" /\ x.gen = proc[p].gen /\ x.worker = proc[p].worker
        /\ x.op = proc[p].op /\ x.verdict = proc[p].verdict /\ x.exec = Len(exec) + 1
    BY <2>1, <2>3 DEF Process, Preparing
  <2> HIDE DEF x
  <2>5. Executions \subseteq Executions' /\ DOMAIN attempts \subseteq DOMAIN attempts'
    BY DEF ExecKept, AttemptsKept
  <2>6. ProcOK(p)'
    BY <2>1, <2>2, <2>3, <2>4, <2>5 DEF ProcOK, Preparing, Executing
  <2> QED BY <2>2, <2>4, <2>6, OneMoves
<1>2. CASE Raise(p)
  BY <1>2, StopsShape DEF Raise
<1>3. CASE Goto(p, "wait")
  BY <1>3, GotoShape DEF Alike, Reserve, At
<1> QED BY <1>1, <1>2, <1>3 DEF Reserve, ReserveJoins, ReserveRefused

\* A place reached from "idle": only what belongs to it is set.
LEMMA FromIdle ==
    ASSUME Shape, ExecKept, AttemptsKept, NEW r \in Reconcilers, NEW e \in Executions,
           NEW x \in {Idle, [Idle EXCEPT !.pc = "look", !.exec = e], [Idle EXCEPT !.pc = "decide", !.op = e]},
           proc' = [proc EXCEPT ![r] = x]
    PROVE  ProcShape'
<1>1. e \in 0..MaxExecutions /\ 0 \in 0..MaxExecutions /\ r \in Procs
  BY WorkerAssumption DEF Shape, TableShape, Executions, Procs
<1>2. /\ x \in Process
      /\ \/ x.pc = "idle" /\ x.op = 0
         \/ x.pc = "look" /\ x.exec = e /\ x.op = 0
         \/ x.pc = "decide" /\ x.op = e
  <2>1. CASE x = Idle
    BY <1>1, <2>1 DEF Process, Idle
  <2>2. CASE x = [Idle EXCEPT !.pc = "look", !.exec = e]
    <3> DEFINE y == [Idle EXCEPT !.pc = "look", !.exec = e]
    <3>1. y \in Process
      BY <1>1 DEF Process, Idle
    <3>2. y.pc = "look" /\ y.exec = e /\ y.op = 0
      BY DEF Idle
    <3> HIDE DEF y
    <3>3. x = y
      BY <2>2 DEF y
    <3> QED BY <3>1, <3>2, <3>3
  <2>3. CASE x = [Idle EXCEPT !.pc = "decide", !.op = e]
    <3> DEFINE y == [Idle EXCEPT !.pc = "decide", !.op = e]
    <3>1. y \in Process
      BY <1>1 DEF Process, Idle
    <3>2. y.pc = "decide" /\ y.op = e
      BY DEF Idle
    <3> HIDE DEF y
    <3>3. x = y
      BY <2>3 DEF y
    <3> QED BY <3>1, <3>2, <3>3
  <2> QED BY <2>1, <2>2, <2>3
<1>3. \/ x.pc = "idle" /\ x.op = 0
      \/ x.pc = "look" /\ x.exec = e /\ x.op = 0
      \/ x.pc = "decide" /\ x.op = e
  BY <1>2
<1>4. proc'[r] = x
  BY <1>1 DEF Shape, ProcShape
<1> HIDE DEF Idle
<1>5. Executions \subseteq Executions' /\ r \notin Callers
  BY WorkerAssumption DEF ExecKept
<1>6. ProcOK(r)'
  BY <1>3, <1>4, <1>5 DEF ProcOK, Preparing, Executing
<1> QED BY <1>1, <1>2, <1>6, OneMoves

LEMMA ReplacementsAre ==
    ASSUME NEW e, NEW healthy \in SUBSET Workers PROVE Replacements(e, healthy) \subseteq Workers
  BY DEF Replacements

LEMMA DecideShape ==
    ASSUME Shape, ExecKept, AttemptsKept, NEW r \in Reconcilers, Decide(r)
    PROVE  ProcShape'
<1> DEFINE e == proc[r].op
           known == IF TriesUsedUp(e) THEN attempts ELSE WithAttempt
           g == IF TriesUsedUp(e) THEN 0 ELSE GenerationOf(known)
<1>1. proc[r] \in Process /\ ProcOK(r) /\ proc[r].pc = "decide" /\ r \in Procs
  BY DEF Shape, ProcShape, Decide, At, Procs
<1>2. e \in Executions /\ exec[e] \in Execution /\ exec[e].worker \in Workers /\ exec[e].gen \in DOMAIN attempts
  <2>1. e \in Executions /\ exec[e] \in Execution
    BY <1>1, RowType DEF ProcOK, Shape
  <2> QED BY <2>1 DEF Execution, Shape, TableShape
<1>3. DOMAIN attempts \subseteq DOMAIN attempts' /\ Executions \subseteq Executions' /\ DOMAIN attempts \subseteq Nat
      /\ r \notin Callers
  BY WorkerAssumption DEF AttemptsKept, ExecKept, Shape, TableShape
<1>4. task.version \in Nat
  BY DEF Shape, TableShape, TaskRow
<1>5. PICK healthy \in SUBSET Workers : Verdict(r, e, g, healthy)
  <2>1. (IF "unhealthy" \in Occurs THEN SUBSET Workers ELSE {Workers}) \subseteq SUBSET Workers
    OBVIOUS
  <2> QED BY <2>1 DEF Decide
<1> HIDE DEF e, g
<1>6. \/ \E v \in {"completed", "escalated"} : proc' = [proc EXCEPT ![r].pc = "finish", ![r].verdict = v]
      \/ g = exec[e].gen /\ Reopens(r, e, g)
      \/ g = exec[e].gen /\ \E w \in Workers : Reassigns(r, e, g, w)
  BY <1>5, ReplacementsAre DEF Verdict, Escalates, NoAction
<1>7. ASSUME NEW v \in {"completed", "escalated"}, proc' = [proc EXCEPT ![r].pc = "finish", ![r].verdict = v]
      PROVE  ProcShape'
  <2> DEFINE x == [proc[r] EXCEPT !.pc = "finish", !.verdict = v]
  <2>1. proc' = [proc EXCEPT ![r] = x] /\ proc'[r] = x
    BY <1>1, <1>7 DEF Shape, ProcShape
  <2>2. x \in Process /\ x.pc = "finish" /\ x.verdict = v /\ x.op = e
    BY <1>1 DEF Process, e
  <2> HIDE DEF x
  <2>3. ProcOK(r)'
    BY <1>1, <1>2, <1>3, <2>1, <2>2 DEF ProcOK, Executing, Preparing
  <2> QED BY <1>1, <2>1, <2>2, <2>3, OneMoves
<1>8. ASSUME NEW w \in Workers, NEW pc \in {"reopen", "reassign"}, g = exec[e].gen,
             proc' = [proc EXCEPT ![r].pc = pc, ![r].gen = g, ![r].worker = w, ![r].seen = task.version,
                                  ![r].verdict = "completed"]
      PROVE  ProcShape'
  <2> DEFINE x == [proc[r] EXCEPT !.pc = pc, !.gen = g, !.worker = w, !.seen = task.version,
                                  !.verdict = "completed"]
  <2>1. proc' = [proc EXCEPT ![r] = x] /\ proc'[r] = x
    BY <1>1, <1>8 DEF Shape, ProcShape
  <2>2. g \in Nat
    BY <1>2, <1>3, <1>8
  <2>3. x \in Process
    BY <1>1, <1>4, <2>2 DEF Process
  <2>4. x.pc = pc /\ x.worker = w /\ x.gen = g /\ x.verdict = "completed" /\ x.op = e
    BY <1>1 DEF Process, e
  <2> HIDE DEF x
  <2>5. ProcOK(r)'
    BY <1>1, <1>2, <1>3, <1>8, <2>1, <2>4 DEF ProcOK, Executing, Preparing
  <2> QED BY <1>1, <2>1, <2>3, <2>5, OneMoves
<1>9. CASE g = exec[e].gen /\ Reopens(r, e, g)
  <2>1. proc' = [proc EXCEPT ![r].pc = "reopen", ![r].gen = g, ![r].worker = exec[e].worker,
                             ![r].seen = task.version, ![r].verdict = "completed"]
    BY <1>9 DEF Reopens
  <2> QED BY <1>2, <1>8, <1>9, <2>1
<1>10. ASSUME NEW w \in Workers, g = exec[e].gen, Reassigns(r, e, g, w) PROVE ProcShape'
  <2>1. proc' = [proc EXCEPT ![r].pc = "reassign", ![r].gen = g, ![r].worker = w, ![r].seen = task.version,
                             ![r].verdict = "completed"]
    BY <1>10 DEF Reassigns
  <2> QED BY <1>8, <1>10, <2>1
<1> QED BY <1>6, <1>7, <1>9, <1>10

LEMMA RetakenShape ==
    ASSUME Shape, ExecKept, AttemptsKept, NEW r \in Reconcilers, proc[r].pc \in {"reopen", "reassign"},
           Goto(r, "begin")
    PROVE  ProcShape'
<1> DEFINE x == [proc[r] EXCEPT !.pc = "begin"]
<1>1. proc[r] \in Process /\ ProcOK(r) /\ r \in Procs
  BY DEF Shape, ProcShape, Procs
<1>2. proc' = [proc EXCEPT ![r] = x] /\ proc'[r] = x
  BY <1>1 DEF Goto, Shape, ProcShape
<1>3. x \in Process /\ x.pc = "begin" /\ x.worker = proc[r].worker /\ x.op = proc[r].op
      /\ x.verdict = proc[r].verdict
  BY <1>1 DEF Process
<1> HIDE DEF x
<1>4. Executions \subseteq Executions' /\ r \notin Callers
  BY WorkerAssumption DEF ExecKept
<1>5. ProcOK(r)'
  BY <1>1, <1>2, <1>3, <1>4 DEF ProcOK, Executing, Preparing
<1> QED BY <1>1, <1>2, <1>3, <1>5, OneMoves

LEMMA ProcStep == ASSUME Shape, Next PROVE ProcShape'
<1>1. ExecKept /\ AttemptsKept
  BY TableStep
<1>2. CASE UNCHANGED proc
  BY <1>1, <1>2, NoneMoves
<1>3. ASSUME NEW p \in Procs, Crash(p) PROVE ProcShape'
  BY <1>1, <1>3, StopsShape DEF Crash, Raise
<1>4. ASSUME NEW p \in Procs, ExecuteStep(p) PROVE ProcShape'
  <2>1. CASE Reserve(p)
    BY <1>1, <2>1, ReserveShape
  <2>2. CASE EnsureInitial(p)
    BY <1>1, <2>2, EnsureShape
  <2>3. CASE Stops(p)
    BY <1>1, <2>3, StopsShape
  <2>4. CASE Return(p) /\ proc[p].pc \in Executing
    BY <1>1, <2>4, ReturnShape
  <2>5. ASSUME NEW pc, Alike(proc[p].pc, pc), Goto(p, pc) PROVE ProcShape'
    BY <1>1, <2>5, GotoShape
  <2>6. CASE Begin(p) \/ InFlight(p)
    <3>1. proc[p].pc \in {"begin", "in_flight"} /\ Alike(proc[p].pc, "in_flight") /\ Alike(proc[p].pc, "assign")
      BY <2>6 DEF Begin, InFlight, At, Alike
    <3> QED BY <2>3, <2>4, <2>5, <2>6, <3>1 DEF Begin, InFlight, Raise, Executing
  <2>7. CASE Wait(p)
    BY <2>3, <2>4, <2>7 DEF Wait, At, Executing, Raise
  <2>8. ASSUME proc[p].pc \in Preparing, NEW pc \in Preparing, Goto(p, pc) PROVE ProcShape'
    BY <2>5, <2>8 DEF Alike
  <2>9. CASE Bind(p) \/ StartTask(p) \/ Prepare(p)
    BY <2>3, <2>8, <2>9 DEF Bind, StartTask, Prepare, At, Preparing, Raise
  <2>10. CASE RenewReservation(p) \/ RestartTask(p) \/ Enqueue(p)
    BY <2>3, <2>8, <2>10 DEF RenewReservation, RestartTask, Enqueue, At, Preparing, Raise
  <2>11. CASE BindPayload(p) \/ FailReservation(p) \/ BlockTask(p)
    BY <2>3, <2>4, <2>8, <2>11 DEF BindPayload, FailReservation, BlockTask, At, Preparing, Raise, Executing
  <2> QED BY <1>4, <2>1, <2>2, <2>6, <2>7, <2>9, <2>10, <2>11 DEF ExecuteStep
<1>5. ASSUME NEW r \in Reconcilers, RecoveryStep(r) PROVE ProcShape'
  <2>1. CASE Discover(r)
    <3>1. PICK e \in Executions : proc' = [proc EXCEPT ![r] = [Idle EXCEPT !.pc = "look", !.exec = e]]
      BY <2>1 DEF Discover
    <3> QED BY <1>1, <3>1, FromIdle
  <2>2. CASE Look(r)
    <3>1. proc[r].exec \in Executions
      BY <2>2 DEF Look, At, Shape, ProcShape, ProcOK, Procs
    <3>2. proc' = [proc EXCEPT ![r] = Idle]
      BY <2>2 DEF Look
    <3> QED BY <1>1, <3>1, <3>2, FromIdle
  <2>3. CASE Claim(r)
    <3>1. PICK e \in Rows : op[e].state # "none"
                            /\ proc' = [proc EXCEPT ![r] = [Idle EXCEPT !.pc = "decide", !.op = e]]
      BY <2>3 DEF Claim
    <3>2. e \in Executions
      BY <3>1 DEF Shape, TableShape
    <3> QED BY <1>1, <3>1, <3>2, FromIdle
  <2>4. CASE Decide(r)
    BY <1>1, <2>4, DecideShape
  <2>5. CASE Reopen(r) \/ Reassign(r)
    <3>1. proc[r].pc \in {"reopen", "reassign"} /\ r \in Procs /\ (Goto(r, "begin") \/ Stops(r))
      BY <2>5 DEF Reopen, Reassign, At, Raise, Procs
    <3> QED BY <1>1, <3>1, RetakenShape, StopsShape
  <2>6. CASE Finish(r)
    <3>1. proc[r].op \in Executions
      BY <2>6 DEF Finish, At, Shape, ProcShape, ProcOK, Procs
    <3>2. proc' = [proc EXCEPT ![r] = Idle]
      BY <2>6 DEF Finish
    <3> QED BY <1>1, <3>1, <3>2, FromIdle
  <2> QED BY <1>5, <2>1, <2>2, <2>3, <2>4, <2>5, <2>6 DEF RecoveryStep
<1>6. ASSUME NEW h \in Handlers, ReceiveStep(h) PROVE UNCHANGED proc
  BY <1>6 DEF ReceiveStep, Receive, RecordEvent, Project, WriteResult, CompleteCurrent, EnsureRecovery
<1>7. ASSUME NEW c \in Callers, Call(c) PROVE ProcShape'
  BY <1>1, <1>7, CallShape
<1> QED BY <1>2, <1>3, <1>4, <1>5, <1>6, <1>7 DEF Next, RunnerStep, RequestDies, OfferRunsOut,
           RunnerLeases, RunnerStarts, RunnerReports, RunnerDies, LeaseRunsOut,
           ClaimRunsOut, OperatorRetry, Aside, Beside

-----------------------------------------------------------------------------
(* One step, request by request. *)

LEMMA RequestMoves ==
    ASSUME Shape, ExecKept, NEW h \in Handlers, NEW x \in Request, handler' = [handler EXCEPT ![h] = x],
           x.pc = "idle" \/ (x.exec \in Executions /\ x.kind \in Results)
    PROVE  HandlerShape'
<1>1. handler \in [Handlers -> Request]
  BY DEF Shape, HandlerShape
<1>2. handler' \in [Handlers -> Request] /\ handler'[h] = x
      /\ \A i \in Handlers \ {h} : handler'[i] = handler[i]
  BY <1>1
<1>3. \A i \in Handlers \ {h} : handler[i].pc # "idle" =>
          handler[i].exec \in Executions /\ handler[i].kind \in Results
  BY DEF Shape, HandlerShape
<1>4. Executions \subseteq Executions'
  BY DEF ExecKept
<1> QED BY <1>2, <1>3, <1>4 DEF HandlerShape

LEMMA NoRequestIs == NoRequest \in Request /\ NoRequest.pc = "idle"
<1>1. 0 \in 0..MaxExecutions
  BY WorkerAssumption
<1> QED BY <1>1 DEF NoRequest, Request

LEMMA RequestGoes ==
    ASSUME Shape, ExecKept, NEW h \in Handlers, handler[h].pc # "idle",
           NEW pc \in {"record", "project", "write", "complete", "recover"}, NEW seen \in Nat,
           \/ handler' = [handler EXCEPT ![h].pc = pc]
           \/ handler' = [handler EXCEPT ![h].pc = pc, ![h].seen = seen]
    PROVE  HandlerShape'
<1> DEFINE x == [handler[h] EXCEPT !.pc = pc]
           y == [handler[h] EXCEPT !.pc = pc, !.seen = seen]
<1>1. handler[h] \in Request /\ handler[h].kind \in Results /\ handler[h].exec \in Executions
  BY HeardRow
<1>2. x \in Request /\ x.exec = handler[h].exec /\ x.kind = handler[h].kind
  BY <1>1 DEF Request
<1>3. y \in Request /\ y.exec = handler[h].exec /\ y.kind = handler[h].kind
  BY <1>1 DEF Request
<1>4. handler' = [handler EXCEPT ![h] = x] \/ handler' = [handler EXCEPT ![h] = y]
  BY DEF Shape, HandlerShape
<1> HIDE DEF x, y
<1> QED BY <1>1, <1>2, <1>3, <1>4, RequestMoves

LEMMA HandlerStep == ASSUME Shape, Next PROVE HandlerShape'
<1>1. ExecKept
  BY TableStep
<1>2. CASE UNCHANGED handler
  BY <1>1, <1>2 DEF Shape, HandlerShape, ExecKept
<1>3. ASSUME NEW h \in Handlers, handler' = [handler EXCEPT ![h] = NoRequest] PROVE HandlerShape'
  BY <1>1, <1>3, NoRequestIs, RequestMoves
<1>4. ASSUME NEW h \in Handlers, handler[h].pc # "idle",
             NEW pc \in {"record", "project", "write", "complete", "recover"},
             handler' = [handler EXCEPT ![h].pc = pc]
      PROVE  HandlerShape'
  BY <1>1, <1>4, RequestGoes, 0 \in Nat
<1>5. ASSUME NEW h \in Handlers PROVE AfterWrite(h) \in {"complete", "recover"}
  BY DEF AfterWrite
<1>6. ASSUME NEW h \in Handlers, Receive(h) PROVE HandlerShape'
  <2>1. PICK e \in Executions : \E k \in exec[e].told :
          handler' = [handler EXCEPT ![h] = [NoRequest EXCEPT
              !.pc = "record", !.exec = e, !.kind = k, !.allowed = AllowsProjection(e)]]
    BY <1>6 DEF Receive
  <2>0. PICK k \in exec[e].told :
          handler' = [handler EXCEPT ![h] = [NoRequest EXCEPT
              !.pc = "record", !.exec = e, !.kind = k, !.allowed = AllowsProjection(e)]]
    BY <2>1
  <2> DEFINE x == [NoRequest EXCEPT !.pc = "record", !.exec = e, !.kind = k, !.allowed = AllowsProjection(e)]
  <2>2. k \in Results /\ e \in 0..MaxExecutions
    <3>1. exec[e].told \subseteq Results
      BY RowType DEF Shape, Execution
    <3>2. e \in 0..MaxExecutions
      BY WorkerAssumption DEF Shape, TableShape, Executions
    <3> QED BY <3>1, <3>2
  <2>3. AllowsProjection(e) \in BOOLEAN
    BY DEF AllowsProjection
  <2>4. x \in Request /\ x.exec = e /\ x.kind = k
    BY <2>2, <2>3 DEF NoRequest, Request
  <2> HIDE DEF x
  <2> QED BY <1>1, <2>0, <2>2, <2>4, RequestMoves DEF x
<1>7. ASSUME NEW h \in Handlers, RecordEvent(h) PROVE HandlerShape'
  BY <1>4, <1>7 DEF RecordEvent
<1>8. ASSUME NEW h \in Handlers, Project(h) PROVE HandlerShape'
  <2>1. handler[h].pc = "project"
    BY <1>8 DEF Project
  <2>2. CASE handler' = [handler EXCEPT ![h].pc = "write", ![h].seen = task.version]
    <3>1. task.version \in Nat
      BY DEF Shape, TableShape, TaskRow
    <3> QED BY <1>1, <2>1, <2>2, <3>1, RequestGoes
  <2>3. CASE handler' = [handler EXCEPT ![h].pc = AfterWrite(h)]
    BY <1>4, <1>5, <2>1, <2>3
  <2> QED BY <1>3, <1>8, <2>2, <2>3 DEF Project, Acknowledge, TryAgain
<1>9. ASSUME NEW h \in Handlers, WriteResult(h) PROVE HandlerShape'
  BY <1>3, <1>4, <1>5, <1>9 DEF WriteResult, TryAgain
<1>10. ASSUME NEW h \in Handlers, CompleteCurrent(h) \/ EnsureRecovery(h) PROVE HandlerShape'
  BY <1>3, <1>10 DEF CompleteCurrent, EnsureRecovery, Acknowledge, TryAgain
<1>11. ASSUME NEW h \in Handlers, ReceiveStep(h) PROVE HandlerShape'
  BY <1>6, <1>7, <1>8, <1>9, <1>10, <1>11 DEF ReceiveStep
<1>12. ASSUME NEW p \in Procs, ExecuteStep(p) PROVE UNCHANGED handler
  BY <1>12 DEF ExecuteStep, Begin, InFlight, EnsureInitial, Reserve, Wait, Bind, StartTask,
     Prepare, RenewReservation, RestartTask, Enqueue, BindPayload, FailReservation, BlockTask
<1>13. ASSUME NEW r \in Reconcilers, RecoveryStep(r) PROVE UNCHANGED handler
  BY <1>13 DEF RecoveryStep, Discover, Look, Claim, Decide, Reopen, Reassign, Finish, Aside
<1> QED BY <1>2, <1>3, <1>11, <1>12, <1>13 DEF Next, RunnerStep, Call, Crash, RequestDies, OfferRunsOut,
           RunnerLeases, RunnerStarts, RunnerReports, RunnerDies, LeaseRunsOut,
           ClaimRunsOut, OperatorRetry, Aside, Beside

-----------------------------------------------------------------------------
(* The shapes hold. *)

LEMMA ShapeInit == ASSUME Init PROVE Shape
<1>1. task \in TaskRow /\ attempts \in Seq(Attempt) /\ exec \in Seq(Execution)
  BY WorkerAssumption DEF Init, TaskRow
<1>2. Len(exec) <= MaxExecutions /\ Executions = {}
  BY WorkerAssumption DEF Init, Executions
<1>3. op \in [Rows -> Operation] /\ \A e \in Rows : op[e].state = "none"
  <2>1. NoOperation \in Operation /\ NoOperation.state = "none"
    BY DEF NoOperation, Operation
  <2> HIDE DEF NoOperation
  <2> QED BY <2>1 DEF Init
<1>4. asked \subseteq Rows /\ trouble \subseteq Occurs
  BY DEF Init
<1>5. Cardinality(trouble) <= MaxDisturbances
  BY FS_EmptySet, WorkerAssumption DEF Init
<1>6. TableShape
  BY <1>1, <1>2, <1>3, <1>4, <1>5 DEF TableShape
<1>7. Idle \in Process /\ Idle.pc = "idle" /\ Idle.op = 0
  <2>1. 0 \in 0..MaxExecutions
    BY WorkerAssumption
  <2> QED BY <2>1 DEF Idle, Process
<1>8. ProcShape
  <2>1. proc \in [Procs -> Process] /\ \A p \in Procs : proc[p].pc = "idle" /\ proc[p].op = 0
    BY <1>7 DEF Init
  <2> QED BY <2>1 DEF ProcShape, ProcOK, Executing, Preparing
<1>9. HandlerShape
  BY NoRequestIs DEF Init, HandlerShape
<1> QED BY <1>6, <1>8, <1>9 DEF Shape

LEMMA ShapeStep == ASSUME Shape, [Next]_vars PROVE Shape'
<1>1. CASE Next
  BY <1>1, TableStep, ProcStep, HandlerStep DEF Shape
<1>2. CASE UNCHANGED vars
  <2>1. UNCHANGED <<task, attempts, exec, op, asked, proc, handler, trouble>>
    BY <1>2 DEF vars
  <2> QED BY <2>1 DEF Shape, TableShape, ProcShape, ProcOK, HandlerShape, Executions
<1> QED BY <1>1, <1>2

LEMMA ShapeHolds == Spec => []Shape
  BY ShapeInit, ShapeStep, PTL DEF Spec

\* The rows and the local states have their shapes, for any instance: a row belongs to an
\* assignment attempt there is, a call in the middle of its work has the Worker, the row
\* and the operation that its next step reads.
THEOREM WorkerTypeCorrect == Spec => []WorkerTypeOK
<1>1. Shape => WorkerTypeOK
  <2> SUFFICES ASSUME Shape PROVE WorkerTypeOK
    OBVIOUS
  <2>1. \A g \in DOMAIN attempts : attempts[g] \in Attempt
    BY DEF Shape, TableShape
  <2>2. \A e \in Executions : exec[e] \in Execution
    BY RowType DEF Shape
  <2> QED BY <2>1, <2>2 DEF Shape, TableShape, ProcShape, HandlerShape, WorkerTypeOK
<1> QED BY <1>1, ShapeHolds, PTL

-----------------------------------------------------------------------------
(* The active attempt and the task row. *)

\* The ways a step changes who has the task.
LEMMA AssignmentStep ==
    ASSUME Shape, Next
    PROVE  \/ UNCHANGED attempts /\ task'.assignee = task.assignee
           \/ attempts' = WithAttempt /\ UNCHANGED task
           \/ /\ UNCHANGED task
              /\ \E h \in Handlers : \E g \in DOMAIN attempts :
                    /\ CompleteCurrent(h) /\ g = exec[handler[h].exec].gen
                    /\ attempts[g].state # "superseded"
                    /\ attempts' = [attempts EXCEPT ![g].state = "completed"]
           \/ \E r \in Reconcilers : Reassign(r) /\ StillAsDecided(r)
                                     /\ attempts[proc[r].gen].worker # proc[r].worker
<1>1. CASE UNCHANGED <<task, attempts>>
  BY <1>1
<1>2. ASSUME NEW st \in {"ASSIGNED", "IN_PROGRESS", "BLOCKED"} \cup Final, TaskBecomes(st), UNCHANGED attempts
      PROVE  UNCHANGED attempts /\ task'.assignee = task.assignee
  BY <1>2, BecomesIs DEF Shape
<1>3. ASSUME NEW p \in Procs, ExecuteStep(p)
      PROVE  \/ UNCHANGED attempts /\ task'.assignee = task.assignee
             \/ attempts' = WithAttempt /\ UNCHANGED task
  <2>1. CASE EnsureInitial(p)
    BY <2>1 DEF EnsureInitial
  <2>2. CASE StartTask(p) \/ RestartTask(p) \/ BlockTask(p)
    BY <1>2, <2>2 DEF StartTask, RestartTask, BlockTask, TaskStarted
  <2> QED BY <1>3, <2>1, <2>2 DEF ExecuteStep, Begin, InFlight, Reserve, Wait, Bind, Prepare,
             RenewReservation, Enqueue, BindPayload, FailReservation
<1>4. ASSUME NEW h \in Handlers, CompleteCurrent(h), ~ UNCHANGED attempts
      PROVE  /\ UNCHANGED task
             /\ \E g \in DOMAIN attempts :
                    /\ g = exec[handler[h].exec].gen
                    /\ attempts[g].state # "superseded"
                    /\ attempts' = [attempts EXCEPT ![g].state = "completed"]
  <2>1. exec[handler[h].exec].gen \in DOMAIN attempts
    BY <1>4, HeardRow DEF CompleteCurrent, Shape, TableShape
  <2> QED BY <1>4, <2>1 DEF CompleteCurrent
<1>5. ASSUME NEW h \in Handlers, WriteResult(h) PROVE UNCHANGED attempts /\ task'.assignee = task.assignee
  <2>1. ResultStatus(handler[h].kind) \in {"BLOCKED"} \cup Final
    BY <1>5, HeardRow, ResultStatusIs DEF WriteResult
  <2> QED BY <1>2, <1>5, <2>1 DEF WriteResult
<1>6. ASSUME NEW h \in Handlers, ReceiveStep(h), ~ CompleteCurrent(h)
      PROVE  UNCHANGED attempts /\ task'.assignee = task.assignee
  BY <1>5, <1>6 DEF ReceiveStep, Receive, RecordEvent, Project, EnsureRecovery
<1>7. ASSUME NEW r \in Reconcilers, RecoveryStep(r)
      PROVE  \/ UNCHANGED attempts /\ task'.assignee = task.assignee
             \/ attempts' = WithAttempt /\ UNCHANGED task
             \/ Reassign(r) /\ StillAsDecided(r) /\ attempts[proc[r].gen].worker # proc[r].worker
  <2>1. CASE Decide(r)
    BY <2>1 DEF Decide
  <2>2. CASE Reopen(r)
    BY <1>2, <2>2 DEF Reopen
  <2>3. CASE Reassign(r)
    BY <2>3 DEF Reassign
  <2> QED BY <1>7, <2>1, <2>2, <2>3 DEF RecoveryStep, Discover, Look, Claim, Finish, Aside
<1>8. ASSUME NEW e, RunnerStep(e) \/ OfferRunsOut(e) \/ RunnerDies(e) \/ LeaseRunsOut(e)
                    \/ ClaimRunsOut(e) \/ OperatorRetry(e)
      PROVE  UNCHANGED <<task, attempts>>
  BY <1>8 DEF RunnerStep, OfferRunsOut, RunnerLeases, RunnerStarts, RunnerReports, RunnerDies, LeaseRunsOut,
     ClaimRunsOut, OperatorRetry, Aside, Beside
<1>9. ASSUME NEW p, Call(p) \/ Crash(p) \/ RequestDies(p) PROVE UNCHANGED <<task, attempts>>
  BY <1>9 DEF Call, Crash, RequestDies
<1>10. ASSUME NEW h \in Handlers, ReceiveStep(h)
       PROVE  \/ UNCHANGED attempts /\ task'.assignee = task.assignee
              \/ UNCHANGED task /\ \E g \in DOMAIN attempts :
                    /\ CompleteCurrent(h) /\ g = exec[handler[h].exec].gen
                    /\ attempts[g].state # "superseded"
                    /\ attempts' = [attempts EXCEPT ![g].state = "completed"]
  <2>1. CASE CompleteCurrent(h) /\ UNCHANGED attempts
    BY <2>1 DEF CompleteCurrent
  <2> QED BY <1>4, <1>6, <1>10, <2>1
<1> QED BY <1>1, <1>3, <1>7, <1>8, <1>9, <1>10 DEF Next

\* What is active after a step was active before it, or is the one new attempt, which is
\* the assignee's.
NoNewAttempt == ActiveGeneration' \subseteq ActiveGeneration /\ task'.assignee = task.assignee
NewAttempt ==
    /\ ActiveGeneration' = {Len(attempts) + 1} /\ Len(attempts') = Len(attempts) + 1
    /\ attempts'[Len(attempts) + 1].worker = task'.assignee
LEMMA ActiveStep ==
    ASSUME Shape, AttemptIsAssignee, Next
    PROVE  (NoNewAttempt /\ DOMAIN attempts' = DOMAIN attempts) \/ NewAttempt
<1>0. attempts \in Seq(Attempt) /\ task \in TaskRow
  BY DEF Shape, TableShape
<1>1. CASE UNCHANGED attempts /\ task'.assignee = task.assignee
  BY <1>1 DEF NoNewAttempt, ActiveGeneration
<1>2. CASE attempts' = WithAttempt /\ UNCHANGED task
  <2>1. CASE ActiveGeneration # {}
    BY <1>2, <2>1 DEF WithAttempt, NoNewAttempt, ActiveGeneration
  <2>2. CASE ActiveGeneration = {}
    <3> DEFINE new == [worker |-> task.assignee, state |-> "active"]
    <3>1. attempts' = Append(attempts, new)
      BY <1>2, <2>2 DEF WithAttempt
    <3>2. new.state = "active" /\ new.worker = task'.assignee /\ new \in Attempt
      BY <1>0, <1>2 DEF Attempt, TaskRow
    <3>3. \A g \in DOMAIN attempts : attempts[g].state # "active"
      BY <2>2 DEF ActiveGeneration
    <3> HIDE DEF new
    <3>4. /\ Len(attempts') = Len(attempts) + 1 /\ DOMAIN attempts' = DOMAIN attempts \cup {Len(attempts) + 1}
          /\ attempts'[Len(attempts) + 1] = new
          /\ \A g \in DOMAIN attempts : attempts'[g] = attempts[g]
      BY <1>0, <3>1, <3>2
    <3> QED BY <3>2, <3>3, <3>4 DEF NewAttempt, ActiveGeneration
  <2> QED BY <2>1, <2>2
<1>3. ASSUME NEW g \in DOMAIN attempts, attempts' = [attempts EXCEPT ![g].state = "completed"], UNCHANGED task
      PROVE  NoNewAttempt /\ DOMAIN attempts' = DOMAIN attempts
  <2>1. attempts[g] \in Attempt
    BY <1>0
  <2>2. [attempts[g] EXCEPT !.state = "completed"].state = "completed"
    BY <2>1 DEF Attempt
  <2>3. DOMAIN attempts' = DOMAIN attempts /\ attempts'[g].state = "completed"
        /\ \A f \in DOMAIN attempts \ {g} : attempts'[f] = attempts[f]
    BY <1>0, <1>3, <2>2
  <2> QED BY <1>3, <2>3 DEF NoNewAttempt, ActiveGeneration
<1>4. ASSUME NEW r \in Reconcilers, Reassign(r), StillAsDecided(r),
             attempts[proc[r].gen].worker # proc[r].worker
      PROVE  NewAttempt
  <2> DEFINE g == proc[r].gen
             w == proc[r].worker
             old == [attempts EXCEPT ![g].state = "superseded"]
             new == [worker |-> w, state |-> "active"]
  <2>1. ActiveGeneration = {g}
    BY <1>4 DEF StillAsDecided
  <2>2. g \in DOMAIN attempts /\ attempts[g] \in Attempt /\ \A f \in DOMAIN attempts \ {g} : attempts[f].state # "active"
    BY <1>0, <2>1 DEF ActiveGeneration
  <2>3. w \in Workers
    BY <1>4 DEF Reassign, At, Shape, ProcShape, ProcOK, Procs
  <2>4. attempts' = Append(old, new)
        /\ task' = [status |-> "ASSIGNED", assignee |-> w, version |-> task.version + 1]
    BY <1>4 DEF Reassign
  <2>5. new \in Attempt /\ new.worker = w /\ new.state = "active" /\ task'.assignee = w
    BY <2>3, <2>4 DEF Attempt
  <2>6. [attempts[g] EXCEPT !.state = "superseded"] \in Attempt
        /\ [attempts[g] EXCEPT !.state = "superseded"].state = "superseded"
    BY <2>2 DEF Attempt
  <2>7. old \in Seq(Attempt) /\ Len(old) = Len(attempts) /\ DOMAIN old = DOMAIN attempts
        /\ old[g].state = "superseded" /\ \A f \in DOMAIN attempts \ {g} : old[f] = attempts[f]
    <3> DEFINE row == [attempts[g] EXCEPT !.state = "superseded"]
    <3>1. old = [attempts EXCEPT ![g] = row]
      BY <2>2
    <3>2. row \in Attempt /\ row.state = "superseded" /\ g \in DOMAIN attempts
      BY <2>2, <2>6
    <3> HIDE DEF row, g, old
    <3> QED BY <1>0, <3>1, <3>2
  <2> HIDE DEF old, new, g, w
  <2>8. /\ Len(attempts') = Len(attempts) + 1 /\ DOMAIN attempts' = DOMAIN attempts \cup {Len(attempts) + 1}
        /\ attempts'[Len(attempts) + 1] = new
        /\ \A f \in DOMAIN attempts : attempts'[f] = old[f]
    BY <1>0, <2>4, <2>5, <2>7
  <2>9. \A f \in DOMAIN attempts : attempts'[f].state # "active"
    BY <2>2, <2>7, <2>8
  <2> QED BY <2>5, <2>8, <2>9 DEF NewAttempt, ActiveGeneration
<1> QED BY <1>1, <1>2, <1>3, <1>4, AssignmentStep

LEMMA AssigneeStep == ASSUME Shape, AttemptIsAssignee, [Next]_vars PROVE AttemptIsAssignee'
<1>1. CASE Next
  <2>1. CASE NoNewAttempt /\ DOMAIN attempts' = DOMAIN attempts
    <3>1. AttemptsKept
      BY <1>1, AttemptsStep
    <3>2. Len(attempts') = Len(attempts)
      BY <2>1, <3>1 DEF AttemptsKept, Shape, TableShape
    <3>3. \A g \in ActiveGeneration' :
            g \in DOMAIN attempts /\ g = Len(attempts) /\ attempts[g].worker = task.assignee
      BY <2>1 DEF NoNewAttempt, AttemptIsAssignee, ActiveGeneration
    <3> QED BY <2>1, <3>1, <3>2, <3>3 DEF AttemptIsAssignee, AttemptsKept, NoNewAttempt
  <2>2. CASE NewAttempt
    BY <2>2 DEF NewAttempt, AttemptIsAssignee
  <2> QED BY <1>1, <2>1, <2>2, ActiveStep
<1>2. CASE UNCHANGED vars
  BY <1>2 DEF vars, AttemptIsAssignee, ActiveGeneration
<1> QED BY <1>1, <1>2

\* At most one assignment attempt is active, the newest, and it is the assignee's, however
\* often the task is started, completed, reopened or reassigned, and whoever decides it.
THEOREM AttemptBelongsToAssignee == Spec => []AttemptIsAssignee
<1>1. Init => AttemptIsAssignee
  BY DEF Init, AttemptIsAssignee, ActiveGeneration
<1>2. Shape /\ AttemptIsAssignee /\ [Next]_vars => AttemptIsAssignee'
  BY AssigneeStep
<1> QED BY <1>1, <1>2, ShapeHolds, PTL DEF Spec

-----------------------------------------------------------------------------
(* One step, row by row and call by call. *)

\* A runner publishes the result k of execution e.
Reports(e, k) ==
    /\ exec[e].busy > 0 /\ exec' = [exec EXCEPT ![e].busy = @ - 1, ![e].told = @ \cup {k}]
    /\ k # "completed" => Disturb(k)
\* What a step does to a row that is there, and who does it.
RowMoves(e) ==
    \/ exec'[e] = exec[e]
    \/ exec'[e] = Swept(e) /\ \E p \in Procs : At(p, "reserve") /\ ReserveCreates(p)
    \/ exec'[e] = QueuedRow(e) /\ \E p \in Procs : Enqueue(p) /\ proc[p].exec = e /\ proc'[p].pc = "payload"
    \/ exec'[e] = BoundRow(e) /\ \E p \in Procs : BindPayload(p) /\ proc[p].exec = e /\ Owned(e)
    \/ exec'[e] = Ended(exec[e], "failed")
       /\ \E p \in Procs : FailReservation(p) /\ proc[p].exec = e /\ Owned(e)
    \/ exec'[e] = RenewedRow(e) /\ exec[e].dispatch \in Live
    \/ \E h \in Handlers :
          \/ /\ exec'[e] = SettledRow(e, handler[h].kind, handler[h].allowed)
             /\ RecordEvent(h) /\ handler[h].exec = e /\ exec[e].evidence = "none"
          \/ /\ exec'[e] = ForgottenRow(e, handler[h].kind)
             /\ handler[h].pc \notin {"idle", "record"} /\ handler[h].exec = e
    \/ exec'[e] = LeasedRow(e) /\ RunnerLeases(e)
    \/ exec'[e] = LapsedRow(e) /\ OfferRunsOut(e)
    \/ exec'[e] = StartedRow(e) /\ RunnerStarts(e)
    \/ \E k \in Results : exec'[e] = ToldRow(e, k) /\ exec[e].busy > 0 /\ Reports(e, k)
    \/ exec'[e] = DroppedRow(e) /\ exec[e].starting > 0
    \/ exec'[e] = LostRow(e) /\ exec[e].busy > 0
    \/ exec'[e] = ExpiredRow(e) /\ LeaseRunsOut(e)
RowsMove ==
    \/ Executions' = Executions /\ \A e \in Executions : RowMoves(e)
    \/ /\ \E p \in Procs : At(p, "reserve") /\ ReserveCreates(p)
       /\ Executions' = Executions \cup {Len(exec) + 1}
       /\ \A e \in Executions : RowMoves(e)

LEMMA AcknowledgedIs ==
    ASSUME Shape, NEW h \in Handlers, handler[h].pc \notin {"idle", "record"},
           UNCHANGED exec \/ exec' = Forget(h)
    PROVE  Executions' = Executions /\ \A e \in Executions : RowMoves(e)
<1>1. CASE exec' = Forget(h)
  BY <1>1, ForgetIs DEF Becomes, RowMoves
<1>2. CASE UNCHANGED exec
  BY <1>2 DEF RowMoves, Executions
<1> QED BY <1>1, <1>2

LEMMA RowStep == ASSUME Shape, Next PROVE RowsMove
<1>1. CASE UNCHANGED exec
  BY <1>1 DEF RowsMove, RowMoves, Executions
<1>2. ASSUME NEW e \in Executions, NEW row, Becomes(e, row), exec'[e] = row => RowMoves(e) PROVE RowsMove
  BY <1>2 DEF Becomes, RowsMove, RowMoves
<1>3. ASSUME NEW p \in Procs, ExecuteStep(p) PROVE RowsMove
  <2>1. CASE Reserve(p) /\ ReserveCreates(p)
    <3>1. At(p, "reserve")
      BY <2>1 DEF Reserve
    <3>2. Executions' = Executions \cup {Len(exec) + 1} /\ \A e \in Executions : exec'[e] = Swept(e)
      BY <2>1, <3>1, CreatedIs
    <3>3. \A e \in Executions : RowMoves(e)
      BY <2>1, <3>1, <3>2 DEF RowMoves
    <3> QED BY <2>1, <3>1, <3>2, <3>3 DEF RowsMove
  <2>2. CASE Enqueue(p) /\ ~ UNCHANGED exec
    <3>1. exec' = [exec EXCEPT ![proc[p].exec].dispatch = "queued"] /\ Goto(p, "payload") /\ At(p, "enqueue")
      BY <2>2 DEF Enqueue
    <3>2. Becomes(proc[p].exec, QueuedRow(proc[p].exec)) /\ proc[p].exec \in Executions
      BY <3>1, EnqueueIs, OwnRow DEF At, Preparing
    <3>3. proc'[p].pc = "payload"
      BY <3>1 DEF Goto, Shape, ProcShape, Process
    <3> QED BY <1>2, <2>2, <3>2, <3>3 DEF RowMoves
  <2>3. CASE BindPayload(p) /\ ~ UNCHANGED exec
    <3>1. At(p, "payload") /\ Owned(proc[p].exec)
      BY <2>3 DEF BindPayload
    <3>2. Becomes(proc[p].exec, BoundRow(proc[p].exec)) /\ proc[p].exec \in Executions
      BY <2>3, <3>1, BindPayloadIs, OwnRow DEF At, Preparing
    <3> QED BY <1>2, <2>3, <3>1, <3>2 DEF RowMoves
  <2>4. CASE FailReservation(p) /\ ~ UNCHANGED exec
    <3>1. proc[p].pc \in Preparing /\ Owned(proc[p].exec)
      BY <2>4 DEF FailReservation, Preparing
    <3>2. Becomes(proc[p].exec, Ended(exec[proc[p].exec], "failed")) /\ proc[p].exec \in Executions
      BY <2>4, <3>1, FailReservationIs, OwnRow
    <3> QED BY <1>2, <2>4, <3>1, <3>2 DEF RowMoves
  <2> QED BY <1>1, <1>3, <2>1, <2>2, <2>3, <2>4 DEF ExecuteStep, Begin, InFlight, EnsureInitial, Reserve,
             ReserveJoins, ReserveRefused, Wait, Bind, StartTask, Prepare, RenewReservation, RestartTask,
             BlockTask
<1>4. ASSUME NEW r \in Reconcilers, RecoveryStep(r) PROVE RowsMove
  <2>1. CASE Look(r) /\ ~ UNCHANGED exec
    <3> DEFINE e == proc[r].exec
    <3>1. e \in Executions
      BY <2>1, OwnRow DEF Look, At, Procs
    <3>2. exec[e].dispatch \in Live
          /\ exec' = [exec EXCEPT ![e].lease = @ \/ exec[e].status \in Active]
      BY <2>1 DEF Look
    <3> HIDE DEF e
    <3>3. Becomes(e, RenewedRow(e))
      BY <3>1, <3>2, RenewedIs
    <3> QED BY <1>2, <3>1, <3>2, <3>3 DEF RowMoves
  <2> QED BY <1>1, <1>4, <2>1 DEF RecoveryStep, Discover, Claim, Decide, Reopen, Reassign, Finish, Aside
<1>5. ASSUME NEW h \in Handlers, ReceiveStep(h) PROVE RowsMove
  <2>1. CASE RecordEvent(h) /\ ~ UNCHANGED exec
    <3> DEFINE e == handler[h].exec
    <3>1. e \in Executions
      BY <2>1, HeardRow DEF RecordEvent
    <3>2. exec[e].evidence = "none"
      BY <2>1 DEF RecordEvent
    <3>3. Becomes(e, SettledRow(e, handler[h].kind, handler[h].allowed))
      BY <2>1, <3>1, <3>2, RecordEventIs
    <3> QED BY <1>2, <2>1, <3>1, <3>2, <3>3 DEF RowMoves
  <2>2. CASE handler[h].pc \notin {"idle", "record"} /\ (UNCHANGED exec \/ exec' = Forget(h))
    BY <2>2, AcknowledgedIs DEF RowsMove
  <2>3. CASE Project(h) \/ CompleteCurrent(h) \/ EnsureRecovery(h)
    BY <2>2, <2>3 DEF Project, CompleteCurrent, EnsureRecovery, Acknowledge, TryAgain
  <2> QED BY <1>1, <1>5, <2>1, <2>3 DEF ReceiveStep, Receive, WriteResult, TryAgain
<1>6. ASSUME NEW e \in Executions, RunnerStep(e) \/ OfferRunsOut(e) \/ RunnerDies(e) \/ LeaseRunsOut(e)
      PROVE  RowsMove
  <2>1. CASE RunnerLeases(e)
    BY <1>2, <2>1, RunnerLeasesIs DEF RowMoves
  <2>2. CASE RunnerStarts(e)
    BY <1>2, <2>2, RunnerStartsIs DEF RowMoves
  <2>3. CASE RunnerReports(e)
    <3>1. PICK k \in Results : Reports(e, k)
      BY <2>3 DEF RunnerReports, Reports
    <3>2. exec[e].busy > 0 /\ Becomes(e, ToldRow(e, k))
      BY <3>1, RunnerReportsIs DEF Reports
    <3> QED BY <1>2, <3>1, <3>2 DEF RowMoves
  <2>4. CASE OfferRunsOut(e)
    BY <1>2, <2>4, OfferRunsOutIs DEF RowMoves
  <2>5. CASE RunnerDies(e)
    BY <1>2, <2>5, RunnerDropsIs, RunnerLosesIs DEF RowMoves, RunnerDies
  <2>6. CASE LeaseRunsOut(e)
    BY <1>2, <2>6, LeaseRunsOutIs DEF RowMoves
  <2> QED BY <1>6, <2>1, <2>2, <2>3, <2>4, <2>5, <2>6 DEF RunnerStep
<1> QED BY <1>1, <1>3, <1>4, <1>5, <1>6 DEF Next, Call, Crash, RequestDies, ClaimRunsOut, OperatorRetry, Aside

\* How a call gets to each place inside execute.
Advances(q, from, to) == proc[q].pc = from /\ proc'[q] = [proc[q] EXCEPT !.pc = to]
CallMoves(q) ==
    \/ proc'[q] = proc[q]
    \/ proc'[q].pc \notin Executing \ {"begin"}
    \/ Advances(q, "begin", "in_flight") /\ Begin(q) /\ task.assignee = proc[q].worker
    \/ /\ Advances(q, "in_flight", "assign") /\ InFlight(q)
       /\ ~ \E e \in Executions : exec[e].worker = proc[q].worker /\ exec[e].dispatch \in Live
    \/ /\ EnsureInitial(q)
       /\ proc'[q] = [proc[q] EXCEPT !.pc = "reserve", !.gen = GenerationOf(WithAttempt)]
    \/ Advances(q, "reserve", "wait") /\ UNCHANGED <<exec, attempts>>
    \/ /\ At(q, "reserve") /\ ReserveCreates(q) /\ UNCHANGED attempts
       /\ proc'[q] = [proc[q] EXCEPT !.pc = "bind", !.exec = Len(exec) + 1]
    \/ Advances(q, "bind", "start") /\ UNCHANGED exec
    \/ Advances(q, "start", "prepare") /\ MayStart(q) /\ UNCHANGED exec
    \/ \E to \in {"renew", "release"} : Advances(q, "prepare", to) /\ UNCHANGED exec
    \/ \E to \in {"restart", "release"} : Advances(q, "renew", to) /\ UNCHANGED exec
    \/ \E to \in {"enqueue", "giveup"} : Advances(q, "restart", to) /\ UNCHANGED exec
    \/ Advances(q, "enqueue", "payload") /\ exec' = [exec EXCEPT ![proc[q].exec].dispatch = "queued"]
    \/ Advances(q, "enqueue", "block_first") /\ UNCHANGED exec
    \/ Advances(q, "payload", "giveup") /\ UNCHANGED exec /\ ~ Owned(proc[q].exec)
    \/ Advances(q, "release", "block")
    \/ Advances(q, "block_first", "giveup") /\ UNCHANGED exec

LEMMA CallStep == ASSUME Shape, Next, NEW q \in Procs PROVE CallMoves(q)
<1>0. proc \in [Procs -> Process]
  BY DEF Shape, ProcShape
<1>1. CASE UNCHANGED proc
  BY <1>1 DEF CallMoves
<1>2. ASSUME NEW p \in Procs, p # q, NEW x, proc' = [proc EXCEPT ![p] = x] PROVE CallMoves(q)
  BY <1>2 DEF CallMoves
<1>3. CASE Stops(q)
  <2>1. proc'[q].pc \in {"idle", "done"}
    BY <1>0, <1>3 DEF Stops, Idle
  <2> QED BY <2>1 DEF CallMoves, Executing, Preparing
<1>4. CASE Return(q)
  <2>1. proc'[q].pc \in {"idle", "done", "finish"}
    BY <1>0, <1>4 DEF Return, Stops, Idle
  <2> QED BY <2>1 DEF CallMoves, Executing, Preparing
<1>5. ASSUME NEW to, Goto(q, to) PROVE Advances(q, proc[q].pc, to)
  BY <1>0, <1>5 DEF Goto, Advances
<1>6. ASSUME NEW p \in Procs, p # q, ExecuteStep(p) \/ Crash(p) PROVE CallMoves(q)
  <2>1. ASSUME NEW to, Goto(p, to) PROVE CallMoves(q)
    <3>1. proc'[q] = proc[q]
      BY <1>0, <1>6, <2>1 DEF Goto
    <3> QED BY <3>1 DEF CallMoves
  <2>2. CASE Stops(p) \/ Return(p)
    BY <1>2, <1>6, <2>2 DEF Stops, Return
  <2>3. CASE EnsureInitial(p) \/ ReserveCreates(p)
    <3>1. proc'[q] = proc[q]
      BY <1>0, <1>6, <2>3 DEF EnsureInitial, ReserveCreates
    <3> QED BY <3>1 DEF CallMoves
  <2> QED BY <1>6, <2>1, <2>2, <2>3 DEF ExecuteStep, Begin, InFlight, Reserve, ReserveJoins, ReserveRefused,
             Wait, Bind, StartTask, Prepare, RenewReservation, RestartTask, Enqueue, BindPayload,
             FailReservation, BlockTask, Raise, Crash
<1>7. CASE ExecuteStep(q) \/ Crash(q)
  <2>1. CASE Begin(q) \/ InFlight(q)
    BY <1>3, <1>4, <1>5, <2>1 DEF Begin, InFlight, Raise, At, CallMoves
  <2>2. CASE EnsureInitial(q)
    <3>1. proc'[q] = [proc[q] EXCEPT !.pc = "reserve", !.gen = GenerationOf(WithAttempt)]
      BY <1>0, <2>2 DEF EnsureInitial
    <3> QED BY <2>2, <3>1 DEF CallMoves
  <2>3. CASE Reserve(q)
    <3>1. CASE ReserveCreates(q)
      <4>1. proc'[q] = [proc[q] EXCEPT !.pc = "bind", !.exec = Len(exec) + 1]
        BY <1>0, <3>1 DEF ReserveCreates
      <4> QED BY <2>3, <3>1, <4>1 DEF CallMoves, Reserve
    <3> QED BY <1>3, <1>5, <2>3, <3>1 DEF Reserve, ReserveJoins, ReserveRefused, Raise, At, CallMoves
  <2>4. CASE Wait(q) \/ Crash(q)
    BY <1>3, <1>4, <2>4 DEF Wait, Crash, Raise
  <2>5. CASE Bind(q) \/ StartTask(q)
    BY <1>3, <1>5, <2>5 DEF Bind, StartTask, Raise, At, CallMoves
  <2>6. CASE Prepare(q) \/ RenewReservation(q) \/ RestartTask(q)
    BY <1>5, <2>6 DEF Prepare, RenewReservation, RestartTask, At, CallMoves
  <2>7. CASE Enqueue(q)
    BY <1>5, <2>7 DEF Enqueue, At, CallMoves
  <2>8. CASE BindPayload(q)
    BY <1>4, <1>5, <2>8 DEF BindPayload, At, CallMoves
  <2>9. CASE FailReservation(q) \/ BlockTask(q)
    BY <1>3, <1>5, <2>9 DEF FailReservation, BlockTask, At, CallMoves, Raise
  <2> QED BY <1>7, <2>1, <2>2, <2>3, <2>4, <2>5, <2>6, <2>7, <2>8, <2>9 DEF ExecuteStep
<1>8. ASSUME NEW c \in Callers, Call(c) PROVE CallMoves(q)
  <2>1. proc'[q] = proc[q] \/ proc'[q].pc = "begin"
    BY <1>0, <1>8 DEF Call, Process
  <2> QED BY <2>1 DEF CallMoves
<1>9. ASSUME NEW r \in Reconcilers, RecoveryStep(r) PROVE CallMoves(q)
  <2>1. CASE q = r
    <3>1. CASE Discover(r) \/ Claim(r)
      <4>1. proc'[q].pc \in {"look", "decide"}
        BY <1>0, <2>1, <3>1 DEF Discover, Claim, Idle
      <4> QED BY <4>1 DEF CallMoves, Executing, Preparing
    <3>2. CASE Look(r) \/ Finish(r)
      <4>1. proc'[q].pc = "idle"
        <5>1. proc' = [proc EXCEPT ![q] = Idle]
          BY <2>1, <3>2 DEF Look, Finish
        <5>2. proc'[q] = Idle /\ Idle.pc = "idle"
          BY <1>0, <5>1 DEF Idle
        <5> QED BY <5>2
      <4> QED BY <4>1 DEF CallMoves, Executing, Preparing
    <3>3. CASE Decide(r)
      <4>1. proc'[q].pc \in {"finish", "reopen", "reassign"}
        <5>1. PICK g, healthy : Verdict(r, proc[r].op, g, healthy)
          BY <3>3 DEF Decide
        <5>2. \/ Escalates(q, proc[r].op) \/ NoAction(q) \/ Reopens(q, proc[r].op, g)
              \/ \E w : Reassigns(q, proc[r].op, g, w)
          BY <2>1, <5>1 DEF Verdict
        <5>3. proc[q] \in Process
          BY <1>0
        <5>4. CASE Escalates(q, proc[r].op) \/ NoAction(q)
          BY <1>0, <5>3, <5>4 DEF Escalates, NoAction, Process
        <5>5. CASE Reopens(q, proc[r].op, g)
          BY <1>0, <5>3, <5>5 DEF Reopens, Process
        <5>6. ASSUME NEW w, Reassigns(q, proc[r].op, g, w) PROVE proc'[q].pc = "reassign"
          BY <1>0, <5>3, <5>6 DEF Reassigns, Process
        <5> QED BY <5>2, <5>4, <5>5, <5>6
      <4> QED BY <4>1 DEF CallMoves, Executing, Preparing
    <3>4. CASE Reopen(r) \/ Reassign(r)
      <4>1. CASE Goto(r, "begin")
        <5>1. proc'[q].pc = "begin"
          BY <1>0, <2>1, <4>1 DEF Goto, Process
        <5> QED BY <5>1 DEF CallMoves
      <4> QED BY <1>3, <2>1, <3>4, <4>1 DEF Reopen, Reassign, Raise
    <3> QED BY <1>9, <3>1, <3>2, <3>3, <3>4 DEF RecoveryStep
  <2>2. CASE q # r
    <3>1. proc'[q] = proc[q]
      BY <1>0, <1>9, <2>2 DEF RecoveryStep, Discover, Look, Claim, Decide, Reopen, Reassign, Finish,
         Verdict, Escalates, NoAction, Reopens, Reassigns, Goto, Raise, Stops
    <3> QED BY <3>1 DEF CallMoves
  <2> QED BY <2>1, <2>2
<1>10. ASSUME NEW h \in Handlers, ReceiveStep(h) \/ RequestDies(h) PROVE UNCHANGED proc
  BY <1>10 DEF ReceiveStep, Receive, RecordEvent, Project, WriteResult, CompleteCurrent, EnsureRecovery,
     RequestDies
<1>11. ASSUME NEW e, RunnerStep(e) \/ OfferRunsOut(e) \/ RunnerDies(e) \/ LeaseRunsOut(e)
       PROVE  UNCHANGED proc
  BY <1>11 DEF RunnerStep, OfferRunsOut, RunnerLeases, RunnerStarts, RunnerReports, RunnerDies, LeaseRunsOut,
     Beside
<1>13. ASSUME NEW e, ClaimRunsOut(e) \/ OperatorRetry(e) PROVE UNCHANGED proc
  BY <1>13 DEF ClaimRunsOut, OperatorRetry
<1>12. ASSUME NEW p \in Procs, ExecuteStep(p) \/ Crash(p) PROVE CallMoves(q)
  BY <1>6, <1>7, <1>12
<1> QED BY <1>1, <1>8, <1>9, <1>10, <1>11, <1>12, <1>13 DEF Next

\* How a request gets to each place inside receive_event.
Heeds(h, e, k) ==
    handler'[h] = [NoRequest EXCEPT !.pc = "record", !.exec = e, !.kind = k, !.allowed = AllowsProjection(e)]
HandlerMoves(h) ==
    \/ handler'[h] = handler[h]
    \/ handler'[h].pc = "idle"
    \/ /\ \E e \in Executions : \E k \in exec[e].told : Heeds(h, e, k)
       /\ UNCHANGED <<exec, attempts, task>>
    \/ RecordEvent(h) /\ handler'[h] = [handler[h] EXCEPT !.pc = "project"]
    \/ /\ handler[h].pc = "project" /\ UNCHANGED <<exec, task>>
       /\ exec[handler[h].exec].evidence = "accepted"
       /\ task.assignee = exec[handler[h].exec].worker
       /\ \/ handler'[h] = [handler[h] EXCEPT !.pc = AfterWrite(h)]
          \/ handler'[h] = [handler[h] EXCEPT !.pc = "write", !.seen = task.version]
    \/ /\ WriteResult(h) /\ task.version = handler[h].seen
       /\ handler'[h] = [handler[h] EXCEPT !.pc = AfterWrite(h)]

LEMMA RequestStep == ASSUME Shape, Next, NEW h \in Handlers PROVE HandlerMoves(h)
<1>0. handler \in [Handlers -> Request] /\ NoRequest.pc = "idle"
  BY NoRequestIs DEF Shape, HandlerShape
<1>1. CASE UNCHANGED handler
  BY <1>1 DEF HandlerMoves
<1>2. ASSUME NEW i \in Handlers, ReceiveStep(i) \/ RequestDies(i) PROVE HandlerMoves(h)
  <2>1. CASE i # h
    <3>1. handler'[h] = handler[h]
      BY <1>0, <1>2, <2>1 DEF ReceiveStep, RequestDies, Receive, RecordEvent, Project, WriteResult,
         CompleteCurrent, EnsureRecovery, Acknowledge, TryAgain
    <3> QED BY <3>1 DEF HandlerMoves
  <2>2. CASE handler' = [handler EXCEPT ![h] = NoRequest]
    <3>1. handler'[h].pc = "idle"
      BY <1>0, <2>2
    <3> QED BY <3>1 DEF HandlerMoves
  <2>3. CASE Receive(h)
    <3>1. PICK e \in Executions : \E k \in exec[e].told :
            handler' = [handler EXCEPT ![h] = [NoRequest EXCEPT
                !.pc = "record", !.exec = e, !.kind = k, !.allowed = AllowsProjection(e)]]
      BY <2>3 DEF Receive
    <3>2. \E k \in exec[e].told : Heeds(h, e, k)
      BY <1>0, <3>1 DEF Heeds
    <3> QED BY <2>3, <3>2 DEF HandlerMoves, Receive
  <2>4. CASE RecordEvent(h)
    <3>1. handler'[h] = [handler[h] EXCEPT !.pc = "project"]
      BY <1>0, <2>4 DEF RecordEvent
    <3> QED BY <2>4, <3>1 DEF HandlerMoves
  <2>5. CASE Project(h)
    <3>1. CASE handler' = [handler EXCEPT ![h].pc = AfterWrite(h)] /\ UNCHANGED <<exec, task>>
               /\ exec[handler[h].exec].evidence = "accepted"
               /\ task.assignee = exec[handler[h].exec].worker
      <4>1. handler'[h] = [handler[h] EXCEPT !.pc = AfterWrite(h)]
        BY <1>0, <3>1
      <4> QED BY <2>5, <3>1, <4>1 DEF HandlerMoves, Project
    <3>2. CASE handler' = [handler EXCEPT ![h].pc = "write", ![h].seen = task.version]
               /\ UNCHANGED <<exec, task>> /\ exec[handler[h].exec].evidence = "accepted"
               /\ task.assignee = exec[handler[h].exec].worker
      <4>1. handler'[h] = [handler[h] EXCEPT !.pc = "write", !.seen = task.version]
        BY <1>0, <3>2
      <4> QED BY <2>5, <3>2, <4>1 DEF HandlerMoves, Project
    <3> QED BY <2>2, <2>5, <3>1, <3>2 DEF Project, Acknowledge, TryAgain
  <2>6. CASE WriteResult(h)
    <3>1. CASE task.version = handler[h].seen
      <4>1. handler'[h] = [handler[h] EXCEPT !.pc = AfterWrite(h)]
        BY <1>0, <2>6, <3>1 DEF WriteResult
      <4> QED BY <2>6, <3>1, <4>1 DEF HandlerMoves
    <3> QED BY <2>2, <2>6, <3>1 DEF WriteResult, TryAgain
  <2>7. CASE CompleteCurrent(h) \/ EnsureRecovery(h) \/ RequestDies(h)
    BY <2>2, <2>7 DEF CompleteCurrent, EnsureRecovery, RequestDies, Acknowledge, TryAgain
  <2> QED BY <1>2, <2>1, <2>3, <2>4, <2>5, <2>6, <2>7 DEF ReceiveStep
<1>3. ASSUME NEW p \in Procs, ExecuteStep(p) \/ Crash(p) PROVE UNCHANGED handler
  BY <1>3 DEF ExecuteStep, Begin, InFlight, EnsureInitial, Reserve, Wait, Bind, StartTask,
     Prepare, RenewReservation, RestartTask, Enqueue, BindPayload, FailReservation, BlockTask, Crash
<1>4. ASSUME NEW r \in Reconcilers, RecoveryStep(r) PROVE UNCHANGED handler
  BY <1>4 DEF RecoveryStep, Discover, Look, Claim, Decide, Reopen, Reassign, Finish, Aside
<1>5. ASSUME NEW e, \/ RunnerStep(e) \/ OfferRunsOut(e) \/ RunnerDies(e) \/ LeaseRunsOut(e)
                    \/ ClaimRunsOut(e) \/ OperatorRetry(e)
      PROVE  UNCHANGED handler
  BY <1>5 DEF RunnerStep, OfferRunsOut, RunnerLeases, RunnerStarts, RunnerReports, RunnerDies, LeaseRunsOut,
     ClaimRunsOut, OperatorRetry, Aside, Beside
<1>6. ASSUME NEW c, Call(c) PROVE UNCHANGED handler
  BY <1>6 DEF Call
<1> QED BY <1>1, <1>2, <1>3, <1>4, <1>5, <1>6 DEF Next

-----------------------------------------------------------------------------
(* A row belongs to one call until it is dispatched. *)

LEMMA RowStays ==
    ASSUME Shape, Next, NEW e \in Executions
    PROVE  e \in Executions' /\ RowMoves(e) /\ exec[e] \in Execution /\ exec'[e] \in Execution
           /\ exec'[e].gen = exec[e].gen /\ exec'[e].worker = exec[e].worker
<1>1. e \in Executions' /\ exec'[e].gen = exec[e].gen /\ exec'[e].worker = exec[e].worker
  BY TableStep DEF ExecKept
<1>2. exec' \in Seq(Execution)
  BY TableStep DEF ExecKept
<1>3. exec'[e] \in Execution
  BY <1>1, <1>2 DEF Executions
<1>4. RowMoves(e)
  BY RowStep DEF RowsMove
<1> QED BY <1>1, <1>3, <1>4, RowType DEF Shape

\* A new row is a call's own.
LEMMA NewRow ==
    ASSUME Shape, Next, NEW e \in Executions' \ Executions
    PROVE  \E p \in Procs : /\ At(p, "reserve") /\ ReserveCreates(p) /\ e = Len(exec) + 1
                            /\ exec'[e] = NewExecution(proc[p].worker, proc[p].gen)
<1>1. PICK p \in Procs : At(p, "reserve") /\ ReserveCreates(p) /\ e = Len(exec) + 1
  BY RowStep DEF RowsMove
<1> QED BY <1>1, CreatedIs

LEMMA PreparingMove ==
    ASSUME Shape, Next, NEW q \in Procs, proc'[q].pc \in Preparing
    PROVE  /\ proc'[q].worker = proc[q].worker /\ proc'[q].gen = proc[q].gen
           /\ \/ /\ proc[q].pc \in Preparing /\ proc'[q].exec = proc[q].exec
                 /\ proc'[q].pc \in Holding => proc[q].pc \in Holding
              \/ /\ At(q, "reserve") /\ ReserveCreates(q) /\ UNCHANGED attempts
                 /\ proc'[q].exec = Len(exec) + 1 /\ proc'[q].pc = "bind"
<1>0. proc[q] \in Process
  BY DEF Shape, ProcShape
<1>1. CallMoves(q)
  BY CallStep
<1>2. ASSUME NEW from, NEW to, Advances(q, from, to)
      PROVE  /\ proc[q].pc = from /\ proc'[q].pc = to /\ proc'[q].exec = proc[q].exec
             /\ proc'[q].worker = proc[q].worker /\ proc'[q].gen = proc[q].gen
  BY <1>0, <1>2 DEF Advances, Process
<1>3. CASE proc'[q] = [proc[q] EXCEPT !.pc = "bind", !.exec = Len(exec) + 1]
           /\ At(q, "reserve") /\ ReserveCreates(q) /\ UNCHANGED attempts
  BY <1>0, <1>3 DEF Process
<1>4. CASE EnsureInitial(q) /\ proc'[q] = [proc[q] EXCEPT !.pc = "reserve", !.gen = GenerationOf(WithAttempt)]
  <2>1. proc'[q].pc = "reserve"
    BY <1>0, <1>4 DEF Process
  <2> QED BY <2>1 DEF Preparing
<1> QED BY <1>1, <1>2, <1>3, <1>4 DEF CallMoves, Preparing, Holding, Executing

\* What is written to a row, field by field.
LEMMA RowFields ==
    ASSUME NEW e, exec[e] \in Execution
    PROVE  /\ LET r == QueuedRow(e) IN r.dispatch = "queued" /\ r.starting = exec[e].starting
              /\ r.busy = exec[e].busy /\ r.told = exec[e].told /\ r.evidence = exec[e].evidence
              /\ r.status = exec[e].status /\ r.lease = exec[e].lease
           /\ \A r \in {BoundRow(e), Ended(exec[e], "failed"), Ended(exec[e], "expired"), RenewedRow(e),
                        ExpiredRow(e)} :
                 /\ r.dispatch = exec[e].dispatch /\ r.starting = exec[e].starting /\ r.busy = exec[e].busy
                 /\ r.told = exec[e].told /\ r.evidence = exec[e].evidence /\ r.offer = exec[e].offer
           /\ \A r \in {LapsedRow(e), DroppedRow(e), LostRow(e)} \cup {ToldRow(e, k) : k \in Results} :
                 /\ r.dispatch = exec[e].dispatch /\ r.evidence = exec[e].evidence
                 /\ r.status = exec[e].status /\ r.lease = exec[e].lease
           /\ \A k : LET r == ForgottenRow(e, k) IN r.dispatch = exec[e].dispatch
                 /\ r.starting = exec[e].starting /\ r.busy = exec[e].busy /\ r.told = exec[e].told \ {k}
                 /\ r.evidence = exec[e].evidence /\ r.status = exec[e].status /\ r.lease = exec[e].lease
                 /\ r.offer = exec[e].offer
           /\ LeasedRow(e).dispatch = "leased" /\ LeasedRow(e).evidence = exec[e].evidence
              /\ LeasedRow(e).status = exec[e].status /\ LeasedRow(e).lease = exec[e].lease
           /\ StartedRow(e).dispatch \in {exec[e].dispatch, "accepted"}
              /\ (exec[e].dispatch # "leased" => StartedRow(e).dispatch = exec[e].dispatch)
              /\ StartedRow(e).evidence = exec[e].evidence
              /\ StartedRow(e).status = exec[e].status /\ StartedRow(e).lease = exec[e].lease
<1>1. LET r == QueuedRow(e) IN r.dispatch = "queued" /\ r.starting = exec[e].starting
              /\ r.busy = exec[e].busy /\ r.told = exec[e].told /\ r.evidence = exec[e].evidence
              /\ r.status = exec[e].status /\ r.lease = exec[e].lease
  BY DEF QueuedRow, Execution
<1>2. \A r \in {BoundRow(e), Ended(exec[e], "failed"), Ended(exec[e], "expired"), RenewedRow(e), ExpiredRow(e)} :
                 /\ r.dispatch = exec[e].dispatch /\ r.starting = exec[e].starting /\ r.busy = exec[e].busy
                 /\ r.told = exec[e].told /\ r.evidence = exec[e].evidence /\ r.offer = exec[e].offer
  <2> DEFINE Same(r) == /\ r.dispatch = exec[e].dispatch /\ r.starting = exec[e].starting /\ r.busy = exec[e].busy
                        /\ r.told = exec[e].told /\ r.evidence = exec[e].evidence /\ r.offer = exec[e].offer
  <2>1. Same(BoundRow(e))
    BY DEF BoundRow, Execution
  <2>2. Same(Ended(exec[e], "failed")) /\ Same(Ended(exec[e], "expired"))
    BY EndedIs
  <2>3. Same(RenewedRow(e))
    BY DEF RenewedRow, Execution
  <2>4. Same(ExpiredRow(e))
    BY DEF ExpiredRow, Execution
  <2> QED BY <2>1, <2>2, <2>3, <2>4
<1>3. \A r \in {LapsedRow(e), DroppedRow(e), LostRow(e)} \cup {ToldRow(e, k) : k \in Results} :
                 /\ r.dispatch = exec[e].dispatch /\ r.evidence = exec[e].evidence
                 /\ r.status = exec[e].status /\ r.lease = exec[e].lease
  <2> DEFINE Same(r) == /\ r.dispatch = exec[e].dispatch /\ r.evidence = exec[e].evidence
                        /\ r.status = exec[e].status /\ r.lease = exec[e].lease
  <2>1. Same(LapsedRow(e)) /\ Same(DroppedRow(e)) /\ Same(LostRow(e))
    BY DEF LapsedRow, DroppedRow, LostRow, Execution
  <2>2. \A k \in Results : Same(ToldRow(e, k))
    BY DEF ToldRow, Execution
  <2> QED BY <2>1, <2>2
<1>4. \A k : LET r == ForgottenRow(e, k) IN r.dispatch = exec[e].dispatch
                 /\ r.starting = exec[e].starting /\ r.busy = exec[e].busy /\ r.told = exec[e].told \ {k}
                 /\ r.evidence = exec[e].evidence /\ r.status = exec[e].status /\ r.lease = exec[e].lease
                 /\ r.offer = exec[e].offer
  BY DEF ForgottenRow, Execution
<1>5. LeasedRow(e).dispatch = "leased" /\ LeasedRow(e).evidence = exec[e].evidence
              /\ LeasedRow(e).status = exec[e].status /\ LeasedRow(e).lease = exec[e].lease
  BY DEF LeasedRow, Execution
<1>6. StartedRow(e).dispatch \in {exec[e].dispatch, "accepted"}
              /\ (exec[e].dispatch # "leased" => StartedRow(e).dispatch = exec[e].dispatch)
              /\ StartedRow(e).evidence = exec[e].evidence
              /\ StartedRow(e).status = exec[e].status /\ StartedRow(e).lease = exec[e].lease
  BY DEF StartedRow, Execution
<1> QED BY <1>1, <1>2, <1>3, <1>4, <1>5, <1>6

LEMMA StaysDispatched ==
    ASSUME Shape, Next, NEW e \in Executions, exec[e].dispatch # "none"
    PROVE  exec'[e].dispatch # "none"
<1>1. RowMoves(e) /\ exec[e] \in Execution
  BY RowStays
<1>2. ASSUME NEW h \in Handlers, exec'[e] = SettledRow(e, handler[h].kind, handler[h].allowed),
             RecordEvent(h)
      PROVE  exec'[e].dispatch # "none"
  <2>1. handler[h].kind \in Results /\ handler[h].allowed \in BOOLEAN
    BY <1>2, HeardRow DEF RecordEvent, Request
  <2>2. exec'[e].dispatch = handler[h].kind
    BY <1>1, <1>2, <2>1, SettledRowIs
  <2> QED BY <2>1, <2>2 DEF Results
<1> QED BY <1>1, <1>2, RowFields DEF RowMoves, Swept

LEMMA StaysUnborn ==
    ASSUME Shape, OwnRows, Next, NEW e \in Executions, Unborn(e)
    PROVE  Unborn(e)' \/ \E p \in Procs : Enqueue(p) /\ proc[p].exec = e /\ proc'[p].pc = "payload"
<1>1. RowMoves(e) /\ exec[e] \in Execution
  BY RowStays
<1>2. ASSUME NEW h \in Handlers, handler[h].pc # "idle" PROVE handler[h].exec # e
  BY <1>2 DEF OwnRows, Unborn
<1>3. \/ exec'[e] = exec[e] \/ exec'[e] = Swept(e)
      \/ exec'[e] \in {BoundRow(e), Ended(exec[e], "failed"), ExpiredRow(e)}
      \/ \E p \in Procs : Enqueue(p) /\ proc[p].exec = e /\ proc'[p].pc = "payload"
  <2>1. exec[e].dispatch \notin Live /\ ~ exec[e].starting > 0 /\ ~ exec[e].busy > 0
    BY DEF Unborn, Live
  <2>2. ~ RunnerLeases(e) /\ ~ OfferRunsOut(e) /\ ~ RunnerStarts(e)
    BY <2>1 DEF RunnerLeases, OfferRunsOut, RunnerStarts, Live
  <2>3. ASSUME NEW h \in Handlers, RecordEvent(h) PROVE handler[h].pc # "idle"
    BY <2>3 DEF RecordEvent
  <2> QED BY <1>1, <1>2, <2>1, <2>2, <2>3 DEF RowMoves
<1> QED BY <1>1, <1>3, RowFields DEF Unborn, Swept

LEMMA OwnRowsStep == ASSUME Shape, OwnRows, [Next]_vars PROVE OwnRows'
<1> DEFINE Distinct == \A p, q \in Procs : p # q /\ proc[p].pc \in Preparing /\ proc[q].pc \in Preparing =>
                           proc[p].exec # proc[q].exec
           Held(p) == /\ Unborn(proc[p].exec)
                      /\ exec[proc[p].exec].gen = proc[p].gen /\ exec[proc[p].exec].worker = proc[p].worker
<1>1. CASE Next
  <2>0. Shape' /\ proc \in [Procs -> Process] /\ Holding \subseteq Preparing
    BY <1>1, ShapeStep DEF Shape, ProcShape, Holding, Preparing
  <2>1. Distinct'
    <3> SUFFICES ASSUME NEW p \in Procs, NEW q \in Procs, p # q, proc'[p].pc \in Preparing, proc'[q].pc \in Preparing
                 PROVE  proc'[p].exec # proc'[q].exec
      OBVIOUS
    <3>0. p # q
      OBVIOUS
    <3>1. ASSUME NEW r \in Procs, proc[r].pc \in Preparing PROVE proc[r].exec # Len(exec) + 1
      <4>1. proc[r].exec \in 1..Len(exec) /\ Len(exec) \in Nat
        BY <3>1, OwnRow DEF Shape, TableShape, Executions
      <4> QED BY <4>1
    <3>2. ~ (ReserveCreates(p) /\ ReserveCreates(q) /\ At(p, "reserve") /\ At(q, "reserve"))
      <4>1. ASSUME ReserveCreates(q) PROVE proc'[q].pc = "bind"
        <5>1. proc[q] \in Process
          BY <2>0
        <5> QED BY <2>0, <4>1, <5>1 DEF ReserveCreates, Process
      <4>2. ASSUME ReserveCreates(p) PROVE proc'[q] = proc[q]
        BY <2>0, <3>0, <4>2 DEF ReserveCreates
      <4> QED BY <4>1, <4>2 DEF At
    <3> QED BY <1>1, <3>1, <3>2, PreparingMove DEF OwnRows
  <2>2. ASSUME NEW p \in Procs, proc'[p].pc \in Holding PROVE Held(p)'
    <3>1. CASE proc[p].pc \in Holding /\ proc'[p].exec = proc[p].exec
      <4>1. proc[p].exec \in Executions
        BY <3>1, OwnRow DEF Holding, Preparing
      <4>2. Held(p)
        BY <3>1 DEF OwnRows
      <4>3. ASSUME NEW q \in Procs, Enqueue(q), proc[q].exec = proc[p].exec, proc'[q].pc = "payload" PROVE FALSE
        <5>1. proc[q].pc \in Preparing /\ proc[p].pc \in Preparing
          BY <2>0, <3>1, <4>3 DEF Enqueue, At, Preparing
        <5>2. q # p
          BY <2>2, <4>3 DEF Holding
        <5> QED BY <4>3, <5>1, <5>2 DEF OwnRows
      <4>4. Unborn(proc[p].exec)'
        BY <1>1, <3>1, <4>1, <4>2, <4>3, StaysUnborn DEF Unborn
      <4>5. exec'[proc[p].exec].gen = exec[proc[p].exec].gen /\ exec'[proc[p].exec].worker = exec[proc[p].exec].worker
        BY <1>1, <4>1, RowStays
      <4>6. proc'[p].gen = proc[p].gen /\ proc'[p].worker = proc[p].worker
        BY <1>1, <2>0, <2>2, PreparingMove
      <4> QED BY <3>1, <4>2, <4>4, <4>5, <4>6 DEF Unborn
    <3>2. CASE /\ At(p, "reserve") /\ ReserveCreates(p) /\ proc'[p].exec = Len(exec) + 1
               /\ proc'[p].worker = proc[p].worker /\ proc'[p].gen = proc[p].gen
      <4>1. exec'[Len(exec) + 1] = NewExecution(proc[p].worker, proc[p].gen)
        BY <3>2, CreatedIs
      <4> QED BY <3>2, <4>1 DEF NewExecution, Unborn
    <3> QED BY <1>1, <2>0, <2>2, <3>1, <3>2, PreparingMove
  <2>3. ASSUME NEW e \in Executions', exec'[e].dispatch = "none" PROVE Unborn(e)'
    <3>1. CASE e \in Executions
      <4>1. Unborn(e)
        BY <1>1, <2>3, <3>1, StaysDispatched DEF OwnRows
      <4>2. ASSUME NEW p \in Procs, Enqueue(p), proc[p].exec = e, proc'[p].pc = "payload" PROVE exec'[e].dispatch # "none"
        <5>1. exec' = [exec EXCEPT ![proc[p].exec].dispatch = "queued"] /\ At(p, "enqueue")
          <6>1. proc[p] \in Process
            BY <2>0
          <6>2. ~ Goto(p, "block_first")
            BY <2>0, <4>2, <6>1 DEF Goto, Process
          <6> QED BY <4>2, <6>2 DEF Enqueue
        <5>2. exec'[e] = QueuedRow(e)
          BY <3>1, <4>2, <5>1, EnqueueIs DEF Becomes
        <5> QED BY <3>1, <5>2, RowFields, RowType DEF Shape
      <4> QED BY <1>1, <2>3, <3>1, <4>1, <4>2, StaysUnborn
    <3>2. CASE e \notin Executions
      <4>1. PICK p \in Procs : exec'[e] = NewExecution(proc[p].worker, proc[p].gen)
        BY <1>1, <3>2, NewRow
      <4> QED BY <4>1 DEF NewExecution, Unborn
    <3> QED BY <3>1, <3>2
  <2>4. ASSUME NEW h \in Handlers, handler'[h].pc # "idle" PROVE exec'[handler'[h].exec].dispatch # "none"
    <3>1. handler \in [Handlers -> Request]
      BY DEF Shape, HandlerShape
    <3>2. \/ handler'[h].exec = handler[h].exec /\ handler[h].pc # "idle"
          \/ \E e \in Executions : handler'[h].exec = e /\ exec[e].told # {}
      <4>1. HandlerMoves(h)
        BY <1>1, RequestStep
      <4>2. ASSUME NEW e \in Executions, NEW k \in exec[e].told, Heeds(h, e, k)
            PROVE  handler'[h].exec = e /\ exec[e].told # {}
        BY <4>2 DEF Heeds, NoRequest
      <4>3. ASSUME NEW x, NEW y, handler[h].pc # "idle",
                   \/ handler'[h] = [handler[h] EXCEPT !.pc = x]
                   \/ handler'[h] = [handler[h] EXCEPT !.pc = x, !.seen = y]
            PROVE  handler'[h].exec = handler[h].exec
        <5>1. handler[h] \in Request
          BY <3>1
        <5> QED BY <4>3, <5>1 DEF Request
      <4>4. RecordEvent(h) \/ WriteResult(h) => handler[h].pc # "idle"
        BY DEF RecordEvent, WriteResult
      <4>5. CASE handler'[h] = handler[h]
        BY <2>4, <4>5
      <4>6. CASE \E e \in Executions : \E k \in exec[e].told : Heeds(h, e, k)
        BY <4>2, <4>6
      <4>7. \/ handler'[h] = handler[h]
            \/ \E e \in Executions : \E k \in exec[e].told : Heeds(h, e, k)
            \/ /\ handler[h].pc # "idle"
               /\ \E x, y : \/ handler'[h] = [handler[h] EXCEPT !.pc = x]
                           \/ handler'[h] = [handler[h] EXCEPT !.pc = x, !.seen = y]
        <5>1. CASE RecordEvent(h) /\ handler'[h] = [handler[h] EXCEPT !.pc = "project"]
          BY <4>4, <5>1
        <5>2. CASE /\ handler[h].pc = "project"
                   /\ \/ handler'[h] = [handler[h] EXCEPT !.pc = AfterWrite(h)]
                      \/ handler'[h] = [handler[h] EXCEPT !.pc = "write", !.seen = task.version]
          BY <5>2
        <5>3. CASE WriteResult(h) /\ handler'[h] = [handler[h] EXCEPT !.pc = AfterWrite(h)]
          BY <4>4, <5>3
        <5> QED BY <2>4, <4>1, <5>1, <5>2, <5>3 DEF HandlerMoves
      <4> QED BY <4>3, <4>5, <4>6, <4>7
    <3> QED BY <1>1, <3>2, HeardRow, StaysDispatched DEF OwnRows, Unborn
  <2> QED BY <2>1, <2>2, <2>3, <2>4 DEF OwnRows
<1>2. CASE UNCHANGED vars
  BY <1>2 DEF vars, OwnRows, Unborn, Executions
<1> QED BY <1>1, <1>2

-----------------------------------------------------------------------------
(* What a request knows. *)

\* Evidence is given once, and a report is forgotten only after that.
LEMMA EvidenceKept ==
    ASSUME Shape, Next, NEW e \in Executions
    PROVE  /\ exec[e].evidence # "none" => exec'[e].evidence = exec[e].evidence
           /\ exec'[e].evidence # exec[e].evidence =>
                 \E h \in Handlers : RecordEvent(h) /\ handler[h].exec = e
                    /\ exec'[e] = SettledRow(e, handler[h].kind, handler[h].allowed)
<1>1. RowMoves(e) /\ exec[e] \in Execution
  BY RowStays
<1>2. \/ exec'[e].evidence = exec[e].evidence
      \/ /\ exec[e].evidence = "none"
         /\ \E h \in Handlers : RecordEvent(h) /\ handler[h].exec = e
              /\ exec'[e] = SettledRow(e, handler[h].kind, handler[h].allowed)
  BY <1>1, RowFields DEF RowMoves, Swept
<1> QED BY <1>2

LEMMA ToldKept ==
    ASSUME Shape, Heard, Next, NEW e \in Executions, exec[e].evidence = "none"
    PROVE  exec[e].told \subseteq exec'[e].told
<1>1. RowMoves(e) /\ exec[e] \in Execution
  BY RowStays
<1>2. ASSUME NEW h \in Handlers, RecordEvent(h), handler[h].exec = e,
             exec'[e] = SettledRow(e, handler[h].kind, handler[h].allowed)
      PROVE  exec'[e].told = exec[e].told
  <2>1. handler[h].kind \in Results /\ handler[h].allowed \in BOOLEAN
    BY <1>2, HeardRow DEF RecordEvent, Request
  <2> QED BY <1>1, <1>2, <2>1, SettledRowIs
<1>3. ~ \E h \in Handlers : handler[h].pc \notin {"idle", "record"} /\ handler[h].exec = e
  BY DEF Heard
<1>4. \A r \in {LeasedRow(e), LapsedRow(e), StartedRow(e), DroppedRow(e), LostRow(e)} : r.told = exec[e].told
  BY <1>1 DEF LeasedRow, LapsedRow, StartedRow, DroppedRow, LostRow, Execution
<1>5. \A k \in Results : ToldRow(e, k).told = exec[e].told \cup {k}
  BY <1>1 DEF ToldRow, Execution
<1> QED BY <1>1, <1>2, <1>3, <1>4, <1>5, RowFields DEF RowMoves, Swept

LEMMA HeardStep == ASSUME Shape, Heard, [Next]_vars PROVE Heard'
<1>1. CASE Next
  <2> SUFFICES ASSUME NEW h \in Handlers, handler'[h].pc # "idle"
               PROVE  LET e == handler'[h].exec IN
                      /\ exec'[e].evidence = "none" =>
                            handler'[h].pc = "record" /\ handler'[h].kind \in exec'[e].told
                      /\ handler'[h].pc \notin {"record", "project"} => exec'[e].evidence = "accepted"
    BY DEF Heard
  <2>1. HandlerMoves(h)
    BY <1>1, RequestStep
  <2>2. CASE handler'[h] = handler[h]
    <3> DEFINE e == handler[h].exec
    <3>1. e \in Executions
      BY <2>2, HeardRow
    <3>2. /\ exec[e].evidence = "none" => handler[h].pc = "record" /\ handler[h].kind \in exec[e].told
          /\ handler[h].pc \notin {"record", "project"} => exec[e].evidence = "accepted"
      BY <2>2 DEF Heard
    <3> HIDE DEF e
    <3>3. exec[e].evidence # "none" => exec'[e].evidence = exec[e].evidence
      BY <1>1, <3>1, EvidenceKept
    <3>4. exec[e].evidence = "none" => exec[e].told \subseteq exec'[e].told
      BY <1>1, <3>1, ToldKept
    <3> QED BY <2>2, <3>2, <3>3, <3>4 DEF e
  <2>3. ASSUME NEW e \in Executions, NEW k \in exec[e].told, Heeds(h, e, k), UNCHANGED exec
        PROVE  handler'[h].pc = "record" /\ handler'[h].exec = e /\ handler'[h].kind \in exec'[e].told
    BY <2>3 DEF Heeds, NoRequest
  <2>4. CASE RecordEvent(h) /\ handler'[h] = [handler[h] EXCEPT !.pc = "project"]
    <3> DEFINE e == handler[h].exec
    <3>1. e \in Executions /\ handler[h] \in Request /\ handler[h].kind \in Results /\ exec[e] \in Execution
      BY <2>4, HeardRow DEF RecordEvent
    <3>2. handler'[h].pc = "project" /\ handler'[h].exec = e
      BY <2>4, <3>1 DEF Request
    <3>3. exec'[e].evidence # "none"
      <4>1. CASE exec[e].evidence = "none"
        <5>1. Becomes(e, SettledRow(e, handler[h].kind, handler[h].allowed))
          BY <2>4, <3>1, <4>1, RecordEventIs
        <5>2. exec'[e] = SettledRow(e, handler[h].kind, handler[h].allowed) /\ handler[h].allowed \in BOOLEAN
          BY <3>1, <5>1 DEF Becomes, Request
        <5> QED BY <3>1, <5>2, SettledRowIs
      <4>2. CASE exec[e].evidence # "none"
        BY <1>1, <3>1, <4>2, EvidenceKept
      <4> QED BY <4>1, <4>2
    <3> QED BY <3>2, <3>3
  <2>5. ASSUME NEW x, NEW y, handler[h].pc # "idle", exec[handler[h].exec].evidence = "accepted",
               \/ handler'[h] = [handler[h] EXCEPT !.pc = x]
               \/ handler'[h] = [handler[h] EXCEPT !.pc = x, !.seen = y]
        PROVE  handler'[h].exec = handler[h].exec /\ exec'[handler[h].exec].evidence = "accepted"
    <3>1. handler[h] \in Request /\ handler[h].exec \in Executions
      BY <2>5, HeardRow
    <3>2. exec'[handler[h].exec].evidence = "accepted"
      BY <1>1, <2>5, <3>1, EvidenceKept
    <3> QED BY <2>5, <3>1, <3>2 DEF Request
  <2>6. CASE WriteResult(h) /\ handler'[h] = [handler[h] EXCEPT !.pc = AfterWrite(h)]
    <3>1. handler[h].pc = "write"
      BY <2>6 DEF WriteResult
    <3>2. exec[handler[h].exec].evidence = "accepted"
      BY <3>1 DEF Heard
    <3> QED BY <2>5, <2>6, <3>1, <3>2
  <2>7. CASE /\ handler[h].pc = "project" /\ exec[handler[h].exec].evidence = "accepted"
             /\ \/ handler'[h] = [handler[h] EXCEPT !.pc = AfterWrite(h)]
                \/ handler'[h] = [handler[h] EXCEPT !.pc = "write", !.seen = task.version]
    <3>1. handler[h].pc # "idle"
      BY <2>7
    <3>2. CASE handler'[h] = [handler[h] EXCEPT !.pc = AfterWrite(h)]
      <4>1. handler'[h].exec = handler[h].exec /\ exec'[handler[h].exec].evidence = "accepted"
        BY <2>5, <2>7, <3>1, <3>2
      <4> QED BY <4>1
    <3>3. CASE handler'[h] = [handler[h] EXCEPT !.pc = "write", !.seen = task.version]
      <4>1. handler'[h].exec = handler[h].exec /\ exec'[handler[h].exec].evidence = "accepted"
        BY <2>5, <2>7, <3>1, <3>3
      <4> QED BY <4>1
    <3> QED BY <2>7, <3>2, <3>3
  <2>8. CASE (\E e \in Executions : \E k \in exec[e].told : Heeds(h, e, k)) /\ UNCHANGED exec
    BY <2>3, <2>8
  <2> QED BY <2>1, <2>2, <2>4, <2>6, <2>7, <2>8 DEF HandlerMoves
<1>2. CASE UNCHANGED vars
  BY <1>2 DEF vars, Heard
<1> QED BY <1>1, <1>2

LEMMA FreshStep == ASSUME Shape, Fresh, [Next]_vars PROVE Fresh'
<1>1. CASE Next
  <2> SUFFICES ASSUME NEW h \in Handlers, handler'[h].pc = "write"
               PROVE  /\ handler'[h].seen <= task'.version
                      /\ handler'[h].seen = task'.version => task'.assignee = exec'[handler'[h].exec].worker
    BY DEF Fresh
  <2>1. HandlerMoves(h)
    BY <1>1, RequestStep
  <2>2. CASE handler'[h] = handler[h]
    <3>1. handler[h].exec \in Executions /\ handler[h] \in Request /\ handler[h].seen \in Nat
      BY <2>2, HeardRow DEF Request
    <3>2. exec'[handler[h].exec].worker = exec[handler[h].exec].worker
      BY <1>1, <3>1, RowStays
    <3>3. task.version \in Nat /\ handler[h].seen <= task.version
          /\ (handler[h].seen = task.version => task.assignee = exec[handler[h].exec].worker)
      BY <2>2 DEF Fresh, Shape, TableShape, TaskRow
    <3>4. UNCHANGED task \/ task'.version = task.version + 1
      BY <1>1, TaskStep DEF TaskKept
    <3> QED BY <2>2, <3>1, <3>2, <3>3, <3>4
  <2>3. CASE \E e \in Executions : \E k \in exec[e].told : Heeds(h, e, k)
    BY <2>3 DEF Heeds, NoRequest
  <2>4. CASE RecordEvent(h) /\ handler'[h] = [handler[h] EXCEPT !.pc = "project"]
    <3>1. handler[h] \in Request
      BY DEF Shape, HandlerShape
    <3> QED BY <2>4, <3>1 DEF Request
  <2>5. CASE handler'[h] = [handler[h] EXCEPT !.pc = AfterWrite(h)]
    <3>1. handler[h] \in Request /\ AfterWrite(h) # "write"
      BY DEF Shape, HandlerShape, AfterWrite
    <3>2. handler'[h].pc = AfterWrite(h)
      BY <2>5, <3>1 DEF Request
    <3> QED BY <3>1, <3>2
  <2>6. CASE /\ handler[h].pc = "project" /\ UNCHANGED <<exec, task>>
             /\ task.assignee = exec[handler[h].exec].worker
             /\ handler'[h] = [handler[h] EXCEPT !.pc = "write", !.seen = task.version]
    <3>1. handler[h] \in Request /\ task.version \in Nat
      BY DEF Shape, HandlerShape, TableShape, TaskRow
    <3>2. handler'[h].seen = task.version /\ handler'[h].exec = handler[h].exec
      BY <2>6, <3>1 DEF Request
    <3> QED BY <2>6, <3>1, <3>2
  <2> QED BY <2>1, <2>2, <2>3, <2>4, <2>5, <2>6 DEF HandlerMoves
<1>2. CASE UNCHANGED vars
  BY <1>2 DEF vars, Fresh
<1> QED BY <1>1, <1>2

-----------------------------------------------------------------------------
(* One live run for an assignment. *)

LEMMA TroubleGrows == ASSUME Next PROVE trouble \subseteq trouble'
<1>1. CASE Calm
  BY <1>1 DEF Calm
<1>2. CASE \E kind : Disturb(kind)
  BY <1>2 DEF Disturb
<1>3. ASSUME NEW p \in Procs, ExecuteStep(p) PROVE Calm \/ \E kind : Disturb(kind)
  BY <1>3 DEF ExecuteStep, Begin, InFlight, EnsureInitial, Reserve, ReserveJoins, ReserveRefused,
     ReserveCreates, Wait, Bind, StartTask, Prepare, RenewReservation, RestartTask, Enqueue,
     BindPayload, FailReservation, BlockTask
<1>4. ASSUME NEW h \in Handlers, ReceiveStep(h) PROVE Calm \/ \E kind : Disturb(kind)
  BY <1>4 DEF ReceiveStep, Receive, RecordEvent, Project, WriteResult, CompleteCurrent,
     EnsureRecovery, Acknowledge, TryAgain
<1>5. ASSUME NEW r \in Reconcilers, RecoveryStep(r) PROVE Calm
  BY <1>5 DEF RecoveryStep, Discover, Look, Claim, Decide, Reopen, Reassign, Finish, Aside
<1>6. ASSUME NEW e \in Executions, RunnerStep(e) \/ OfferRunsOut(e) \/ RunnerDies(e) \/ LeaseRunsOut(e)
      PROVE  Calm \/ \E kind : Disturb(kind)
  BY <1>6 DEF RunnerStep, RunnerLeases, RunnerStarts, RunnerReports, OfferRunsOut, RunnerDies,
     LeaseRunsOut
<1>7. ASSUME NEW e \in Executions, ClaimRunsOut(e) \/ OperatorRetry(e)
      PROVE  Calm \/ \E kind : Disturb(kind)
  BY <1>7 DEF ClaimRunsOut, OperatorRetry
<1> QED BY <1>1, <1>2, <1>3, <1>4, <1>5, <1>6, <1>7 DEF Next, Call, Crash, RequestDies

\* What a recorded event leaves of a row.
LEMMA RecordedRow ==
    ASSUME Shape, NEW h \in Handlers, RecordEvent(h), NEW e \in Executions,
           exec'[e] = SettledRow(e, handler[h].kind, handler[h].allowed)
    PROVE  exec'[e].dispatch \in Results /\ (exec'[e].status \in Active => exec[e].status \in Active)
<1>1. handler[h].kind \in Results /\ handler[h].allowed \in BOOLEAN
  BY HeardRow DEF RecordEvent, Request
<1>2. exec[e] \in Execution
  BY RowType DEF Shape
<1> QED BY <1>1, <1>2, SettledRowIs

\* No row becomes active again, and a new one is alone.
LEMMA StaysEnded ==
    ASSUME Shape, Next, NEW e \in Executions, exec'[e].status \in Active
    PROVE  /\ exec[e].status \in Active
           /\ ~ \E p \in Procs : At(p, "reserve") /\ ReserveCreates(p)
<1>0. RowMoves(e) /\ exec[e] \in Execution
  BY RowStays
<1>1. ASSUME NEW p \in Procs, At(p, "reserve"), ReserveCreates(p) PROVE FALSE
  <2>1. exec'[e] = Swept(e)
    BY <1>1, CreatedIs
  <2> QED BY <1>0, <2>1, EndedIs DEF Swept
<1>2. exec[e].status \in Active
  <2>2. RenewedRow(e).status = exec[e].status /\ ExpiredRow(e).status = exec[e].status
    BY <1>0 DEF RenewedRow, ExpiredRow, Execution
  <2>3. Ended(exec[e], "failed").status \notin Active
    BY <1>0, EndedIs
  <2>4. ASSUME NEW h \in Handlers, exec'[e] = SettledRow(e, handler[h].kind, handler[h].allowed), RecordEvent(h)
        PROVE  exec[e].status \in Active
    BY <2>4, RecordedRow
  <2>5. Owned(e) => exec[e].status \in Active
    BY DEF Owned
  <2> QED BY <1>0, <1>1, <2>2, <2>3, <2>4, <2>5, RowFields DEF RowMoves
<1> QED BY <1>1, <1>2

LEMMA Active1Step == ASSUME Shape, Active1, [Next]_vars PROVE Active1'
<1>1. CASE Next
  <2> SUFFICES ASSUME NEW e \in ActiveRows', NEW f \in ActiveRows', e # f PROVE FALSE
    BY DEF Active1
  <2>1. e \in Executions' /\ f \in Executions' /\ exec'[e].status \in Active /\ exec'[f].status \in Active
    BY DEF ActiveRows
  <2>2. CASE e \in Executions /\ f \in Executions
    BY <1>1, <2>1, <2>2, StaysEnded DEF Active1, ActiveRows
  <2>3. CASE e \notin Executions \/ f \notin Executions
    <3>1. \E p \in Procs : At(p, "reserve") /\ ReserveCreates(p)
      BY <1>1, <2>1, <2>3, NewRow
    <3>2. e \notin Executions /\ f \notin Executions
      BY <1>1, <2>1, <3>1, StaysEnded
    <3> QED BY <1>1, <2>1, <3>2, NewRow
  <2> QED BY <2>2, <2>3
<1>2. CASE UNCHANGED vars
  BY <1>2 DEF vars, Active1, ActiveRows, Executions
<1> QED BY <1>1, <1>2

\* Only an enqueue makes a row live.
Enqueues(p, e) == Enqueue(p) /\ proc[p].exec = e /\ proc'[p].pc = "payload"
LEMMA LiveMove ==
    ASSUME Shape, Next, NEW e \in LiveRows'
    PROVE  /\ e \in Executions
           /\ e \in LiveRows \/ \E p \in Procs : Enqueues(p, e)
<1>0. e \in Executions' /\ exec'[e].dispatch \in Live
  BY DEF LiveRows
<1>1. e \in Executions
  <2>1. ASSUME e \notin Executions PROVE FALSE
    <3>1. PICK p \in Procs : exec'[e] = NewExecution(proc[p].worker, proc[p].gen)
      BY <1>0, <2>1, NewRow
    <3> QED BY <1>0, <3>1 DEF NewExecution, Live
  <2> QED BY <2>1
<1>2. RowMoves(e) /\ exec[e] \in Execution
  BY <1>1, RowStays
<1>3. ASSUME NEW h \in Handlers, exec'[e] = SettledRow(e, handler[h].kind, handler[h].allowed), RecordEvent(h)
      PROVE  FALSE
  BY <1>0, <1>1, <1>3, RecordedRow DEF Live, Results
<1>4. RunnerLeases(e) => exec[e].dispatch \in Live
  BY DEF RunnerLeases, Live
<1>5. exec'[e] = StartedRow(e) => exec[e].dispatch \in Live
  BY <1>0, <1>2, RowFields DEF Live
<1> QED BY <1>0, <1>1, <1>2, <1>3, <1>4, <1>5, RowFields DEF RowMoves, Swept, LiveRows, Enqueues

\* Who enqueues holds the row.
LEMMA EnqueuesHeld ==
    ASSUME Shape, NEW p \in Procs, NEW e, Enqueues(p, e)
    PROVE  /\ proc[p].pc = "enqueue" /\ proc[p].pc \in Holding /\ proc[p].exec = e /\ proc'[p].pc = "payload"
           /\ \A q \in Procs \ {p} : proc'[q] = proc[q]
<1>0. proc \in [Procs -> Process] /\ proc[p].pc = "enqueue"
  BY DEF Shape, ProcShape, Enqueues, Enqueue, At
<1> QED BY <1>0 DEF Enqueues, Enqueue, Goto, Holding

\* A row is given up by the call that has it, by the event that ends it, or to time.
LEMMA OwnedStays ==
    ASSUME Shape, Next, NEW e \in Executions, Owned(e)
    PROVE  \/ Owned(e)'
           \/ \E p \in Procs : FailReservation(p) /\ proc[p].exec = e
           \/ \E h \in Handlers : RecordEvent(h) /\ handler[h].exec = e /\ exec'[e].dispatch \in Results
           \/ LeaseRunsOut(e)
<1>0. RowMoves(e) /\ exec[e] \in Execution
  BY RowStays
<1>1. exec[e].status \in Active /\ exec[e].lease
  BY DEF Owned
<1>2. ASSUME NEW p \in Procs, ReserveCreates(p) PROVE FALSE
  BY <1>1, <1>2 DEF ReserveCreates, Reclaimable, ActiveRows
<1>3. exec'[e].status \in Active /\ exec'[e].lease => Owned(e)'
  BY DEF Owned
<1>4. BoundRow(e).status \in Active /\ BoundRow(e).lease
  BY <1>0, <1>1 DEF BoundRow, Execution, Active
<1>5. RenewedRow(e).status \in Active /\ RenewedRow(e).lease
  BY <1>0, <1>1 DEF RenewedRow, Execution
<1>6. ASSUME NEW h \in Handlers, exec'[e] = SettledRow(e, handler[h].kind, handler[h].allowed), RecordEvent(h)
      PROVE  exec'[e].dispatch \in Results
  BY <1>6, RecordedRow
<1> QED BY <1>0, <1>1, <1>2, <1>3, <1>4, <1>5, <1>6, RowFields DEF RowMoves

\* No lease runs out under a call.
Prompt == (\A p \in Procs : Timely(p)) /\ ~ \E e \in Executions : LeaseRunsOut(e)
LEMMA LiveStaysOwned ==
    ASSUME Shape, Prompt, Next, NEW e \in LiveRows, e \in LiveRows', Owned(e)
    PROVE  Owned(e)'
<1>0. e \in Executions /\ exec'[e].dispatch \notin Results
  BY DEF LiveRows, Live, Results
<1>1. ASSUME NEW p \in Procs, FailReservation(p), proc[p].exec = e PROVE FALSE
  BY <1>1 DEF FailReservation, Prompt, Timely
<1> QED BY <1>0, <1>1, OwnedStays DEF Prompt

\* A call keeps the row it holds.
LEMMA HeldStaysOwned ==
    ASSUME Shape, OwnRows, Prompt, Next, NEW q \in Procs, proc[q].pc \in Holding, NEW e, proc[q].exec = e
    PROVE  e \in Executions /\ Owned(e) /\ Owned(e)'
<1>1. proc[q].pc \in Preparing /\ proc[q].pc \notin {"release", "giveup"}
  BY DEF Holding, Preparing
<1>2. e \in Executions /\ Owned(e) /\ exec[e].dispatch = "none"
  BY <1>1, OwnRow DEF Prompt, Timely, OwnRows, Unborn
<1>3. ASSUME NEW p \in Procs, FailReservation(p), proc[p].exec = e PROVE FALSE
  <2>1. proc[p].pc \in {"release", "giveup"} /\ proc[p].pc \in Preparing
    BY <1>3 DEF FailReservation, Preparing
  <2>2. p # q
    BY <1>1, <2>1
  <2> QED BY <1>1, <1>3, <2>1, <2>2 DEF OwnRows
<1>4. ASSUME NEW h \in Handlers, RecordEvent(h), handler[h].exec = e PROVE FALSE
  <2>1. handler[h].pc # "idle"
    BY <1>4 DEF RecordEvent
  <2> QED BY <1>2, <1>4, <2>1 DEF OwnRows
<1> QED BY <1>2, <1>3, <1>4, OwnedStays DEF Prompt

\* What another call enqueues is not the row of this one.
LEMMA NotEnqueued ==
    ASSUME Shape, OwnRows, Next, NEW q \in Procs, proc[q].pc \in Preparing, NEW p \in Procs,
           Enqueues(p, proc[q].exec)
    PROVE  p = q
<1>1. proc[p].pc \in Preparing /\ proc[p].exec = proc[q].exec
  BY EnqueuesHeld DEF Holding, Preparing
<1> QED BY <1>1 DEF OwnRows

LEMMA LiveOwned ==
    ASSUME Shape, OwnRows, Prompt, Next, NEW e \in LiveRows', e \in LiveRows => Owned(e)
    PROVE  Owned(e)'
<1>1. CASE e \in LiveRows
  BY <1>1, LiveStaysOwned
<1>2. ASSUME NEW p \in Procs, Enqueues(p, e) PROVE Owned(e)'
  <2>1. proc[p].pc \in Holding /\ proc[p].exec = e
    BY <1>2, EnqueuesHeld
  <2> QED BY <2>1, HeldStaysOwned
<1> QED BY <1>1, <1>2, LiveMove

\* A call that holds a row is alone with its generation.
LEMMA HoldingStep ==
    ASSUME Shape, OwnRows, Active1, Prompt, Next, NEW q \in Procs, proc'[q].pc \in Holding
    PROVE  Owned(proc[q].exec)' /\ \A e \in LiveRows' : exec'[e].gen # proc'[q].gen
<1>0. proc \in [Procs -> Process] /\ Holding \subseteq Preparing /\ "payload" \notin Holding /\ "reserve" \notin Holding
  BY DEF Shape, ProcShape, Holding, Preparing
<1>1. proc'[q].gen = proc[q].gen
  BY <1>0, PreparingMove
<1>2. ASSUME NEW e \in LiveRows' PROVE e \in Executions /\ exec'[e].gen = exec[e].gen
  BY <1>2, LiveMove, RowStays
<1>3. CASE proc[q].pc \in Holding /\ proc'[q].exec = proc[q].exec
  <2>1. PICK f : f = proc[q].exec
    OBVIOUS
  <2>2. f \in Executions /\ Owned(f) /\ Owned(f)'
    BY <1>3, <2>1, HeldStaysOwned
  <2>3. ASSUME NEW e \in LiveRows' PROVE exec'[e].gen # proc'[q].gen
    <3>1. CASE e \in LiveRows
      BY <1>1, <1>2, <1>3, <3>1 DEF Prompt, Timely
    <3>2. ASSUME NEW p \in Procs, Enqueues(p, e) PROVE FALSE
      <4>1. proc[p].pc \in Holding /\ proc[p].exec = e /\ p # q
        BY <1>0, <3>2, EnqueuesHeld
      <4>2. Owned(e) /\ e \in Executions
        BY <4>1, HeldStaysOwned
      <4>3. e = f
        BY <2>2, <4>2 DEF Active1, ActiveRows, Owned
      <4> QED BY <1>0, <1>3, <2>1, <4>1, <4>3 DEF OwnRows
    <3> QED BY <3>1, <3>2, LiveMove
  <2> QED BY <1>3, <2>1, <2>2, <2>3 DEF Owned
<1>4. CASE At(q, "reserve") /\ ReserveCreates(q) /\ proc'[q].exec = Len(exec) + 1 /\ proc'[q].pc = "bind"
  <2>1. exec'[Len(exec) + 1] = NewExecution(proc[q].worker, proc[q].gen)
    BY <1>4, CreatedIs
  <2>2. Owned(proc[q].exec)'
    BY <1>4, <2>1 DEF Owned, NewExecution, Active
  <2>3. ASSUME NEW e \in LiveRows' PROVE exec'[e].gen # proc'[q].gen
    <3>1. e \in LiveRows
      <4>1. ASSUME NEW p \in Procs, Enqueues(p, e) PROVE FALSE
        <5>1. proc'[p].pc = "payload" /\ p # q /\ proc'[q] = proc[q]
          BY <1>4, <4>1, EnqueuesHeld DEF At
        <5> QED BY <1>0, <1>4, <5>1 DEF At
      <4> QED BY <4>1, LiveMove
    <3>2. ~ Owned(e)
      BY <1>2, <1>4 DEF ReserveCreates, Reclaimable, ActiveRows, Owned
    <3> QED BY <1>1, <1>2, <1>4, <3>1, <3>2 DEF Prompt, Timely, At
  <2> QED BY <2>2, <2>3
<1> QED BY <1>0, <1>3, <1>4, PreparingMove

\* A call that gives its row up has not dispatched it, or the row is not its own any more.
LEMMA GivingUpStep ==
    ASSUME Shape, OwnRows, Prompt, Next, NEW q \in Procs
    PROVE  /\ proc'[q].pc = "payload" => Owned(proc[q].exec)' \/ proc'[q].exec \notin LiveRows'
           /\ proc'[q].pc \in {"release", "giveup", "block_first"} => proc'[q].exec \notin LiveRows'
<1>0. proc[q] \in Process /\ Holding \subseteq Preparing
  BY DEF Shape, ProcShape, Holding, Preparing
<1> DEFINE f == proc[q].exec
<1>1. ASSUME proc[q].pc \in Preparing, f \notin LiveRows, proc'[q].pc # "payload" \/ proc[q].pc = "payload"
      PROVE  f \notin LiveRows'
  <2>1. ASSUME NEW p \in Procs, Enqueues(p, f) PROVE FALSE
    <3>1. proc[p].pc = "enqueue" /\ proc'[p].pc = "payload"
      BY <2>1, EnqueuesHeld
    <3>2. p = q
      BY <1>1, <2>1, NotEnqueued
    <3> QED BY <1>1, <3>1, <3>2
  <2> HIDE DEF f
  <2> SUFFICES ASSUME f \in LiveRows' PROVE FALSE
    OBVIOUS
  <2> QED BY <1>1, <2>1, LiveMove
<1>2. ASSUME proc[q].pc \in Holding PROVE f \notin LiveRows
  BY <1>2 DEF OwnRows, Unborn, LiveRows, Live
<1>3. ASSUME NEW from, NEW to, Advances(q, from, to)
      PROVE  proc[q].pc = from /\ proc'[q].pc = to /\ proc'[q].exec = f
  BY <1>0, <1>3 DEF Advances, Process
<1>4. ASSUME proc'[q].pc = "payload" PROVE Owned(proc[q].exec)' \/ proc'[q].exec \notin LiveRows'
  <2>1. CASE proc'[q] = proc[q]
    <3>1. proc[q].pc = "payload" /\ proc[q].pc \in Preparing
      BY <1>4, <2>1 DEF Preparing
    <3>2. CASE f \notin LiveRows
      BY <1>1, <2>1, <3>1, <3>2
    <3>3. CASE f \in LiveRows
      <4>1. Owned(f)
        BY <3>1, <3>3 DEF Prompt, Timely
      <4>2. PICK e : e = f
        OBVIOUS
      <4>3. e \in LiveRows' => Owned(e)'
        BY <3>3, <4>1, <4>2, LiveStaysOwned
      <4> QED BY <2>1, <4>2, <4>3 DEF Owned
    <3> QED BY <3>2, <3>3
  <2>2. CASE Advances(q, "enqueue", "payload")
    <3>1. proc[q].pc \in Holding /\ proc'[q].exec = f
      BY <1>3, <2>2 DEF Holding
    <3>2. PICK e : e = f
      OBVIOUS
    <3>3. Owned(e)'
      BY <3>1, <3>2, HeldStaysOwned
    <3> QED BY <3>1, <3>2, <3>3 DEF Owned
  <2>3. EnsureInitial(q) /\ proc'[q] = [proc[q] EXCEPT !.pc = "reserve", !.gen = GenerationOf(WithAttempt)] => FALSE
    BY <1>0, <1>4 DEF Process
  <2>4. proc'[q] = [proc[q] EXCEPT !.pc = "bind", !.exec = Len(exec) + 1] => FALSE
    BY <1>0, <1>4 DEF Process
  <2> HIDE DEF f
  <2>5. \A from, to : Advances(q, from, to) => to = "payload"
    BY <1>3, <1>4
  <2> QED BY <1>4, <2>1, <2>2, <2>3, <2>4, <2>5, CallStep DEF CallMoves, Executing, Preparing
<1>5. ASSUME proc'[q].pc \in {"release", "giveup", "block_first"} PROVE proc'[q].exec \notin LiveRows'
  <2>1. proc[q].pc \in Preparing /\ proc'[q].exec = f
    BY <1>5, PreparingMove DEF Preparing
  <2>2. f \notin LiveRows
    <3>1. CASE proc'[q] = proc[q]
      BY <1>5, <3>1 DEF Prompt, Timely
    <3>2. CASE Advances(q, "payload", "giveup") /\ ~ Owned(proc[q].exec)
      BY <1>3, <3>2 DEF Prompt, Timely
    <3>3. CASE Advances(q, "block_first", "giveup")
      BY <1>3, <3>3 DEF Prompt, Timely
    <3>4. EnsureInitial(q) /\ proc'[q] = [proc[q] EXCEPT !.pc = "reserve", !.gen = GenerationOf(WithAttempt)] => FALSE
      BY <1>0, <1>5 DEF Process
    <3>5. proc'[q] = [proc[q] EXCEPT !.pc = "bind", !.exec = Len(exec) + 1] => FALSE
      BY <1>0, <1>5 DEF Process
    <3>6. ASSUME NEW from \in Holding, NEW to, Advances(q, from, to) PROVE f \notin LiveRows
      BY <1>2, <1>3, <3>6
    <3> HIDE DEF f
    <3>7. \A from, to : Advances(q, from, to) => to \in {"release", "giveup", "block_first"}
      BY <1>3, <1>5
    <3>8. proc'[q].pc \in Executing \ {"begin"}
      BY <1>5 DEF Executing, Preparing
    <3>9. \/ proc'[q] = proc[q]
          \/ Advances(q, "payload", "giveup") /\ ~ Owned(proc[q].exec)
          \/ Advances(q, "block_first", "giveup")
          \/ \E from \in Holding, to \in {"release", "giveup", "block_first"} : Advances(q, from, to)
      <4>1. CallMoves(q)
        BY CallStep
      <4> QED BY <3>4, <3>5, <3>7, <3>8, <4>1 DEF CallMoves, Holding
    <3> QED BY <3>1, <3>2, <3>3, <3>6, <3>9
  <2>3. proc'[q].pc # "payload"
    BY <1>5
  <2>4. f \notin LiveRows'
    BY <1>1, <2>1, <2>2, <2>3
  <2> QED BY <2>1, <2>4
<1> QED BY <1>4, <1>5

\* An attempt that is active after a step and has a run was active before.
LEMMA ActiveBefore ==
    ASSUME Shape, AttemptIsAssignee, Next, NEW e \in Executions, exec[e].gen \in ActiveGeneration'
    PROVE  /\ exec[e].gen \in ActiveGeneration
           /\ attempts'[exec[e].gen].worker = attempts[exec[e].gen].worker
           /\ task'.assignee = task.assignee
<1>1. exec[e].gen \in DOMAIN attempts /\ attempts \in Seq(Attempt)
  BY DEF Shape, TableShape
<1>2. ~ NewAttempt
  BY <1>1 DEF NewAttempt
<1>3. NoNewAttempt
  BY <1>2, ActiveStep
<1> QED BY <1>1, <1>3, AttemptsStep DEF NoNewAttempt, AttemptsKept

\* On the way to reserve, a live run of another Worker, of this one, or of the generation
\* of this call still owns its row.
LEMMA QueueStep ==
    ASSUME Shape, AttemptIsAssignee, OwnRows, RunsFit, Prompt, Next, NEW q \in Procs, NEW e \in LiveRows'
    PROVE  /\ proc'[q].pc = "assign" /\ exec'[e].worker = proc'[q].worker => Owned(e)'
           /\ (proc'[q].pc \in {"in_flight", "assign"} /\ exec'[e].gen \in ActiveGeneration'
               /\ attempts'[exec'[e].gen].worker # proc'[q].worker) => Owned(e)'
           /\ proc'[q].pc = "reserve" /\ exec'[e].gen = proc'[q].gen => Owned(e)'
<1>0. proc[q] \in Process
  BY DEF Shape, ProcShape
<1>1. e \in Executions /\ exec'[e].gen = exec[e].gen /\ exec'[e].worker = exec[e].worker
  BY LiveMove, RowStays
<1>2. ASSUME e \in LiveRows => Owned(e) PROVE Owned(e)'
  BY <1>2, LiveOwned
<1>3. ASSUME exec'[e].gen \in ActiveGeneration'
      PROVE  /\ exec[e].gen \in ActiveGeneration
             /\ attempts'[exec'[e].gen].worker = attempts[exec[e].gen].worker
             /\ attempts[exec[e].gen].worker = task.assignee
  BY <1>1, <1>3, ActiveBefore DEF AttemptIsAssignee
<1>4. ASSUME NEW from, NEW to, Advances(q, from, to)
      PROVE  proc[q].pc = from /\ proc'[q].pc = to /\ proc'[q].worker = proc[q].worker /\ proc'[q].gen = proc[q].gen
  BY <1>0, <1>4 DEF Advances, Process
<1>5. proc'[q] = [proc[q] EXCEPT !.pc = "bind", !.exec = Len(exec) + 1] => proc'[q].pc = "bind"
  BY <1>0 DEF Process
<1>6. CallMoves(q)
  BY CallStep
<1>7. ASSUME EnsureInitial(q), proc'[q] = [proc[q] EXCEPT !.pc = "reserve", !.gen = GenerationOf(WithAttempt)]
      PROVE  proc'[q].pc = "reserve" /\ proc'[q].gen = GenerationOf(WithAttempt)
             /\ proc[q].pc = "assign" /\ UNCHANGED exec
  BY <1>0, <1>7 DEF Process, EnsureInitial, At
<1>8. ASSUME proc'[q].pc = "assign", exec'[e].worker = proc'[q].worker PROVE Owned(e)'
  <2>1. CASE proc'[q] = proc[q]
    BY <1>1, <1>2, <1>8, <2>1 DEF Prompt, Timely
  <2>2. CASE /\ InFlight(q)
             /\ ~ \E f \in Executions : exec[f].worker = proc[q].worker /\ exec[f].dispatch \in Live
             /\ proc'[q].worker = proc[q].worker
    <3>1. e \notin LiveRows
      BY <1>1, <1>8, <2>2 DEF LiveRows
    <3> QED BY <1>2, <3>1
  <2> QED BY <1>4, <1>5, <1>6, <1>7, <1>8, <2>1, <2>2 DEF CallMoves, Executing
<1>9. ASSUME proc'[q].pc \in {"in_flight", "assign"}, exec'[e].gen \in ActiveGeneration',
             attempts'[exec'[e].gen].worker # proc'[q].worker
      PROVE  Owned(e)'
  <2>1. CASE proc[q].pc \in {"in_flight", "assign"} /\ proc'[q].worker = proc[q].worker
    BY <1>2, <1>3, <1>9, <2>1 DEF Prompt, Timely
  <2>2. CASE task.assignee = proc[q].worker /\ proc'[q].worker = proc[q].worker
    BY <1>3, <1>9, <2>2
  <2> QED BY <1>4, <1>5, <1>6, <1>7, <1>9, <2>1, <2>2 DEF CallMoves, Executing
<1>10. ASSUME proc'[q].pc = "reserve", exec'[e].gen = proc'[q].gen PROVE Owned(e)'
  <2>1. CASE proc'[q] = proc[q]
    BY <1>1, <1>2, <1>10, <2>1 DEF Prompt, Timely
  <2>2. CASE proc'[q].gen = GenerationOf(WithAttempt) /\ proc[q].pc = "assign" /\ UNCHANGED exec
    <3>1. exec[e].gen \in ActiveGeneration
      BY <1>1, <1>10, <2>2, WithAttemptIs DEF ActiveGeneration, Shape, TableShape
    <3>2. e \in LiveRows
      BY <1>1, <2>2 DEF LiveRows
    <3>3. exec[e].worker = attempts[exec[e].gen].worker
      BY <1>1, <3>1, <3>2 DEF RunsFit, Started, LiveRows
    <3>4. Owned(e)
      BY <2>2, <3>1, <3>2, <3>3 DEF Prompt, Timely
    <3> QED BY <1>2, <3>4
  <2> QED BY <1>4, <1>5, <1>6, <1>7, <1>10, <2>1, <2>2 DEF CallMoves, Executing
<1> QED BY <1>8, <1>9, <1>10

LEMMA OnTimeStep ==
    ASSUME Shape, AttemptIsAssignee, Active1, OwnRows, RunsFit, OnTime, [Next]_vars
    PROVE  OnTime'
<1>1. CASE Next
  <2> SUFFICES ASSUME "slow" \notin trouble', NEW q \in Procs PROVE Timely(q)'
    BY DEF OnTime
  <2>0. \A p \in Procs : Timely(p)
    BY <1>1, TroubleGrows DEF OnTime
  <2>1. ASSUME NEW e \in Executions, LeaseRunsOut(e) PROVE Timely(q)'
    <3>1. ~ UnderWay(q) /\ UNCHANGED proc
      BY <2>1 DEF LeaseRunsOut, Disturb, Beside
    <3> QED BY <3>1 DEF Timely, UnderWay, Holding
  <2>2. CASE Prompt
    <3>1. proc'[q].pc \in Holding => Owned(proc[q].exec)' /\ \A e \in LiveRows' : exec'[e].gen # proc'[q].gen
      BY <1>1, <2>2, HoldingStep
    <3>2. /\ proc'[q].pc = "payload" => Owned(proc[q].exec)' \/ proc'[q].exec \notin LiveRows'
          /\ proc'[q].pc \in {"release", "giveup", "block_first"} => proc'[q].exec \notin LiveRows'
      BY <1>1, <2>2, GivingUpStep
    <3>3. \A e \in LiveRows' :
           /\ proc'[q].pc = "assign" /\ exec'[e].worker = proc'[q].worker => Owned(e)'
           /\ (proc'[q].pc \in {"in_flight", "assign"} /\ exec'[e].gen \in ActiveGeneration'
               /\ attempts'[exec'[e].gen].worker # proc'[q].worker) => Owned(e)'
           /\ proc'[q].pc = "reserve" /\ exec'[e].gen = proc'[q].gen => Owned(e)'
      BY <1>1, <2>2, QueueStep
    <3> QED BY <3>1, <3>2, <3>3 DEF Timely
  <2> QED BY <2>0, <2>1, <2>2 DEF Prompt
<1>2. CASE UNCHANGED vars
  BY <1>2 DEF vars, OnTime, Timely, Owned, LiveRows, Executions, ActiveGeneration
<1> QED BY <1>1, <1>2

LEMMA RunsFitStep ==
    ASSUME Shape, AttemptIsAssignee, OwnRows, RunsFit, [Next]_vars PROVE RunsFit'
<1> DEFINE Working == {"prepare", "renew", "restart", "enqueue"}
<1>1. CASE Next
  <2> SUFFICES ASSUME NEW e \in Executions', Started(e)', exec'[e].gen \in ActiveGeneration'
               PROVE  exec'[e].worker = attempts'[exec'[e].gen].worker
    BY DEF RunsFit
  <2>0. \A p \in Procs : proc[p] \in Process
    BY DEF Shape, ProcShape
  <2>1. ASSUME NEW q \in Procs, proc'[q].pc \in Working, proc'[q].exec = e
        PROVE  proc[q].exec = e /\ e \in Executions
               /\ (proc[q].pc \in Working \/ (proc[q].pc = "start" /\ MayStart(q)))
    <3>1. /\ proc[q].pc \in Preparing /\ proc[q].exec = e
      BY <1>1, <2>1, PreparingMove DEF Preparing
    <3>2. ASSUME NEW from, NEW to, Advances(q, from, to) PROVE proc[q].pc = from /\ proc'[q].pc = to
      BY <2>0, <3>2 DEF Advances, Process
    <3>3. EnsureInitial(q) /\ proc'[q] = [proc[q] EXCEPT !.pc = "reserve", !.gen = GenerationOf(WithAttempt)] => FALSE
      BY <2>0, <2>1 DEF Process
    <3>4. proc'[q] = [proc[q] EXCEPT !.pc = "bind", !.exec = Len(exec) + 1] => FALSE
      BY <2>0, <2>1 DEF Process
    <3>5. CallMoves(q) /\ proc'[q].pc \in Executing \ {"begin"}
      BY <1>1, <2>1, CallStep DEF Executing, Preparing
    <3>6. \A from, to : Advances(q, from, to) => to \in Working /\ from = proc[q].pc
      BY <2>1, <3>2
    <3>7. \/ proc'[q] = proc[q]
          \/ Advances(q, "start", "prepare") /\ MayStart(q)
          \/ \E from \in Working, to \in Working : Advances(q, from, to)
      BY <3>3, <3>4, <3>5, <3>6 DEF CallMoves
    <3>8. proc[q].pc \in Working \/ (proc[q].pc = "start" /\ MayStart(q))
      BY <2>1, <3>2, <3>7
    <3> QED BY <3>1, <3>8, OwnRow
  <2>2. e \in Executions
    <3>1. CASE exec'[e].dispatch \in Live
      BY <1>1, <3>1, LiveMove DEF LiveRows
    <3> QED BY <2>1, <3>1 DEF Started
  <2>3. exec'[e].gen = exec[e].gen /\ exec'[e].worker = exec[e].worker
    BY <1>1, <2>2, RowStays
  <2>4. /\ exec[e].gen \in ActiveGeneration
        /\ attempts'[exec[e].gen].worker = attempts[exec[e].gen].worker
        /\ attempts[exec[e].gen].worker = task.assignee
    BY <1>1, <2>2, <2>3, ActiveBefore DEF AttemptIsAssignee
  <2>5. Started(e) \/ \E q \in Procs : proc[q].pc = "start" /\ proc[q].exec = e /\ MayStart(q)
    <3>1. CASE e \in LiveRows'
      <4>1. ASSUME NEW p \in Procs, Enqueues(p, e) PROVE Started(e)
        BY <4>1, EnqueuesHeld DEF Started
      <4>2. e \in LiveRows => Started(e)
        BY DEF Started, LiveRows
      <4> QED BY <1>1, <3>1, <4>1, <4>2, LiveMove
    <3>2. ASSUME NEW q \in Procs, proc'[q].pc \in Working, proc'[q].exec = e
          PROVE  Started(e) \/ (proc[q].pc = "start" /\ proc[q].exec = e /\ MayStart(q))
      <4>1. proc[q].pc \in Working => Started(e)
        BY <2>1, <3>2 DEF Started
      <4> QED BY <2>1, <3>2, <4>1
    <3>3. e \in LiveRows' \/ \E q \in Procs : proc'[q].pc \in Working /\ proc'[q].exec = e
      BY DEF Started, LiveRows
    <3> QED BY <3>1, <3>2, <3>3
  <2>6. ASSUME NEW q \in Procs, proc[q].pc = "start", proc[q].exec = e, MayStart(q)
        PROVE  exec[e].worker = task.assignee
    BY <2>6 DEF OwnRows, Holding, MayStart
  <2> QED BY <2>2, <2>3, <2>4, <2>5, <2>6 DEF RunsFit
<1>2. CASE UNCHANGED vars
  BY <1>2 DEF vars, RunsFit, Started, Executions, ActiveGeneration
<1> QED BY <1>1, <1>2

LEMMA OneLiveRunStep ==
    ASSUME Shape, OwnRows, OnTime, OneLiveRun, [Next]_vars PROVE OneLiveRun'
<1>1. CASE Next
  <2> SUFFICES ASSUME "slow" \notin trouble', NEW e \in LiveRows', NEW f \in LiveRows', e # f
               PROVE  exec'[e].gen # exec'[f].gen
    BY DEF OneLiveRun, LiveRows
  <2>1. "slow" \notin trouble
    BY <1>1, TroubleGrows
  <2>2. /\ e \in Executions /\ exec'[e].gen = exec[e].gen
        /\ f \in Executions /\ exec'[f].gen = exec[f].gen
    BY <1>1, LiveMove, RowStays
  <2>3. ASSUME NEW p \in Procs, NEW i, NEW j \in LiveRows, Enqueues(p, i), i \in Executions
        PROVE  exec[i].gen # exec[j].gen
    <3>1. proc[p].pc \in Holding /\ proc[p].exec = i
      BY <2>3, EnqueuesHeld
    <3>2. exec[i].gen = proc[p].gen
      BY <3>1 DEF OwnRows
    <3> QED BY <2>1, <2>3, <3>1, <3>2 DEF OnTime, Timely
  <2>4. CASE e \in LiveRows /\ f \in LiveRows
    BY <2>1, <2>2, <2>4 DEF OneLiveRun, LiveRows
  <2>5. ASSUME NEW p \in Procs, NEW q \in Procs, Enqueues(p, e), Enqueues(q, f) PROVE FALSE
    <3>1. proc[p].exec = e /\ proc[q].exec = f /\ proc[q].pc = "enqueue" /\ proc'[q].pc = "payload"
      BY <2>5, EnqueuesHeld
    <3>2. p # q
      BY <3>1
    <3>3. proc'[q] = proc[q]
      BY <2>5, <3>2, EnqueuesHeld
    <3> QED BY <3>1, <3>3
  <2> QED BY <1>1, <2>2, <2>3, <2>4, <2>5, LiveMove
<1>2. CASE UNCHANGED vars
  BY <1>2 DEF vars, OneLiveRun, Executions
<1> QED BY <1>1, <1>2

\* An assignment has one live run, as long as no lease runs out under a call: whoever
\* reserves holds the only active row, and a row is handed over only when its run is no
\* longer live.
THEOREM OneRunAtATime == Spec => []OneLiveRun
<1>1. Init => RunInv
  <2> SUFFICES ASSUME Init PROVE RunInv
    OBVIOUS
  <2>1. Executions = {} /\ (\A p \in Procs : proc[p].pc = "idle") /\ \A h \in Handlers : handler[h].pc = "idle"
    BY NoRequestIs DEF Init, Executions, Idle
  <2> QED BY <2>1 DEF RunInv, Active1, ActiveRows, OwnRows, RunsFit, OnTime, Timely, OneLiveRun,
             LiveRows, Holding, Preparing
<1>2. Shape /\ AttemptIsAssignee /\ RunInv /\ [Next]_vars => RunInv'
  BY Active1Step, OwnRowsStep, RunsFitStep, OnTimeStep, OneLiveRunStep DEF RunInv
<1>3. RunInv => OneLiveRun
  BY DEF RunInv
<1> QED BY <1>1, <1>2, <1>3, ShapeHolds, AttemptBelongsToAssignee, PTL DEF Spec

-----------------------------------------------------------------------------
(* Results have a run. *)

\* One run keeps one runner and one report, until it is superseded in a runner's hands.
LEMMA SingleStep ==
    ASSUME Shape, OwnRows, Heard, Next, "two_runners" \notin trouble', NEW e \in Executions, Single(e)
    PROVE  \/ Single(e)'
           \/ Superseded(e) /\ exec[e].dispatch = "leased" /\ exec'[e].evidence = "none"
<1>0. RowMoves(e) /\ exec[e] \in Execution
  BY RowStays
<1> DEFINE Fields(r) == /\ r.dispatch = exec[e].dispatch /\ r.starting = exec[e].starting /\ r.busy = exec[e].busy
                        /\ r.told = exec[e].told /\ r.evidence = exec[e].evidence /\ r.offer = exec[e].offer
<1>1. ASSUME Fields(exec'[e]) PROVE Single(e)'
  BY <1>1 DEF Single
<1>2. CASE \/ exec'[e] \in {exec[e], Swept(e), BoundRow(e), Ended(exec[e], "failed"), RenewedRow(e), ExpiredRow(e)}
  <2>1. Fields(exec'[e])
    BY <1>0, <1>2, RowFields DEF Swept
  <2> QED BY <1>1, <2>1
<1>3. ASSUME NEW p \in Procs, Enqueue(p), proc[p].exec = e, exec'[e] = QueuedRow(e) PROVE Single(e)'
  <2>1. Unborn(e)
    BY <1>3 DEF Enqueue, At, OwnRows, Holding
  <2> QED BY <1>0, <1>3, <2>1, RowFields DEF Unborn, Single, Results
<1>4. ASSUME NEW h \in Handlers, exec'[e] = SettledRow(e, handler[h].kind, handler[h].allowed),
             RecordEvent(h), handler[h].exec = e, exec[e].evidence = "none"
      PROVE  Single(e)'
  <2>1. handler[h].kind \in Results /\ handler[h].allowed \in BOOLEAN /\ handler[h].kind \in exec[e].told
    BY <1>4, HeardRow DEF RecordEvent, Request, Heard
  <2>2. exec[e].starting = 0 /\ exec[e].busy = 0 /\ exec[e].told \subseteq {handler[h].kind}
    BY <1>0, <2>1 DEF Single, Execution, Live
  <2> QED BY <1>0, <1>4, <2>1, <2>2, SettledRowIs DEF Single, Results
<1>5. ASSUME NEW h \in Handlers, exec'[e] = ForgottenRow(e, handler[h].kind),
             handler[h].pc \notin {"idle", "record"}, handler[h].exec = e
      PROVE  Single(e)'
  <2>1. exec[e].evidence # "none"
    BY <1>5 DEF Heard
  <2>2. exec[e].dispatch \in Results /\ exec[e].starting = 0 /\ exec[e].busy = 0
        /\ exec[e].told \subseteq {exec[e].dispatch}
    BY <1>0, <2>1 DEF Single, Execution, Live
  <2>3. exec'[e].dispatch = exec[e].dispatch /\ exec'[e].starting = 0 /\ exec'[e].busy = 0
        /\ exec'[e].told \subseteq {exec[e].dispatch}
    BY <1>0, <1>5, <2>2, RowFields
  <2> QED BY <2>2, <2>3 DEF Single, Results
<1>6. CASE exec'[e] = LeasedRow(e) /\ RunnerLeases(e)
  <2>1. /\ exec[e].starting = 0 /\ exec[e].busy = 0 /\ exec[e].told = {} /\ exec[e].evidence = "none"
    BY <1>6 DEF RunnerLeases, Single
  <2>2. /\ exec'[e].dispatch = "leased" /\ exec'[e].offer /\ exec'[e].starting = 1 /\ exec'[e].busy = 0
        /\ exec'[e].told = {} /\ exec'[e].evidence = "none"
    BY <1>0, <1>6, <2>1 DEF LeasedRow, Execution
  <2> QED BY <2>2 DEF Single, Results
<1>7. CASE exec'[e] = LapsedRow(e) /\ OfferRunsOut(e)
  <2>1. exec[e].dispatch = "leased" /\ exec[e].starting = 0
    BY <1>7 DEF OfferRunsOut, Disturb
  <2>2. /\ exec'[e].dispatch = "leased" /\ exec'[e].starting = 0 /\ exec'[e].busy = exec[e].busy
        /\ exec'[e].told = exec[e].told /\ exec'[e].evidence = exec[e].evidence
    BY <1>0, <1>7, <2>1 DEF LapsedRow, Execution
  <2> QED BY <2>1, <2>2 DEF Single, Results
<1>8. CASE exec'[e] = StartedRow(e) /\ RunnerStarts(e)
  <2>1. /\ exec[e].dispatch = "leased" /\ exec[e].starting = 1 /\ exec[e].busy = 0
        /\ exec[e].told = {} /\ exec[e].evidence = "none"
    BY <1>0, <1>8 DEF RunnerStarts, Single, Execution, Live
  <2>2. exec'[e].evidence = "none"
    BY <1>0, <1>8, <2>1, RowFields
  <2>3. CASE AllowsProjection(e)
    <3>1. /\ exec'[e].dispatch = "accepted" /\ exec'[e].starting = 0 /\ exec'[e].busy = 1 /\ exec'[e].told = {}
      BY <1>0, <1>8, <2>1, <2>3 DEF StartedRow, Execution
    <3> QED BY <2>2, <3>1 DEF Single, Results
  <2> QED BY <2>1, <2>2, <2>3 DEF AllowsProjection, Superseded
<1>9. ASSUME NEW k \in Results, exec'[e] = ToldRow(e, k), exec[e].busy > 0 PROVE Single(e)'
  <2>1. /\ exec[e].dispatch = "accepted" /\ exec[e].starting = 0 /\ exec[e].busy = 1
        /\ exec[e].told = {} /\ exec[e].evidence = "none"
    BY <1>0, <1>9 DEF Single, Execution, Live
  <2>2. /\ exec'[e].dispatch = "accepted" /\ exec'[e].starting = 0 /\ exec'[e].busy = 0
        /\ exec'[e].told = {k} /\ exec'[e].evidence = "none"
    BY <1>0, <1>9, <2>1 DEF ToldRow, Execution
  <2> QED BY <2>2 DEF Single, Results
<1>10. CASE exec'[e] = DroppedRow(e) /\ exec[e].starting > 0
  <2>1. /\ exec[e].dispatch = "leased" /\ exec[e].starting = 1 /\ exec[e].busy = 0
        /\ exec[e].told = {} /\ exec[e].evidence = "none"
    BY <1>0, <1>10 DEF Single, Execution, Live
  <2>2. /\ exec'[e].dispatch = "leased" /\ exec'[e].starting = 0 /\ exec'[e].busy = 0
        /\ exec'[e].told = {} /\ exec'[e].evidence = "none"
    BY <1>0, <1>10, <2>1 DEF DroppedRow, Execution
  <2> QED BY <2>2 DEF Single, Results
<1>11. CASE exec'[e] = LostRow(e) /\ exec[e].busy > 0
  <2>1. /\ exec[e].dispatch = "accepted" /\ exec[e].starting = 0 /\ exec[e].busy = 1
        /\ exec[e].told = {} /\ exec[e].evidence = "none"
    BY <1>0, <1>11 DEF Single, Execution, Live
  <2>2. /\ exec'[e].dispatch = "accepted" /\ exec'[e].starting = 0 /\ exec'[e].busy = 0
        /\ exec'[e].told = {} /\ exec'[e].evidence = "none"
    BY <1>0, <1>11, <2>1 DEF LostRow, Execution
  <2> QED BY <2>2 DEF Single, Results
<1> HIDE DEF Fields
<1> QED BY <1>0, <1>2, <1>3, <1>4, <1>5, <1>6, <1>7, <1>8, <1>9, <1>10, <1>11 DEF RowMoves

\* What a run was recorded with stays.
LEMMA DispatchKept ==
    ASSUME Shape, OwnRows, Next, NEW e \in Executions, exec[e].dispatch \in Results, exec[e].evidence # "none"
    PROVE  exec'[e].dispatch = exec[e].dispatch
<1>0. RowMoves(e) /\ exec[e] \in Execution
  BY RowStays
<1>1. exec[e].dispatch \notin {"none", "queued", "leased"}
  BY DEF Results
<1>2. ASSUME NEW p \in Procs, Enqueue(p), proc[p].exec = e PROVE FALSE
  BY <1>1, <1>2 DEF Enqueue, At, OwnRows, Holding, Unborn
<1>3. ~ RunnerLeases(e)
  BY <1>1 DEF RunnerLeases
<1> QED BY <1>0, <1>1, <1>2, <1>3, RowFields DEF RowMoves, Swept

\* A request stays with its event, or takes up a new one.
LEMMA EventStep ==
    ASSUME Shape, Next, NEW h \in Handlers, handler'[h].pc # "idle"
    PROVE  \/ /\ handler[h].pc # "idle" /\ handler'[h].exec = handler[h].exec
              /\ handler'[h].kind = handler[h].kind /\ handler'[h].allowed = handler[h].allowed
           \/ (\E e \in Executions : \E k \in exec[e].told : Heeds(h, e, k)) /\ UNCHANGED <<exec, attempts>>
<1>0. handler[h] \in Request
  BY DEF Shape, HandlerShape
<1>1. HandlerMoves(h)
  BY RequestStep
<1>2. RecordEvent(h) \/ WriteResult(h) => handler[h].pc # "idle"
  BY DEF RecordEvent, WriteResult
<1>3. ASSUME NEW x, \/ handler'[h] = [handler[h] EXCEPT !.pc = x]
                    \/ handler'[h] = [handler[h] EXCEPT !.pc = x, !.seen = task.version]
      PROVE  handler'[h].exec = handler[h].exec /\ handler'[h].kind = handler[h].kind
             /\ handler'[h].allowed = handler[h].allowed
  BY <1>0, <1>3 DEF Request
<1>4. CASE RecordEvent(h) /\ handler'[h] = [handler[h] EXCEPT !.pc = "project"]
  BY <1>2, <1>3, <1>4
<1>5. CASE /\ handler[h].pc = "project"
           /\ \/ handler'[h] = [handler[h] EXCEPT !.pc = AfterWrite(h)]
              \/ handler'[h] = [handler[h] EXCEPT !.pc = "write", !.seen = task.version]
  BY <1>3, <1>5
<1>6. CASE WriteResult(h) /\ handler'[h] = [handler[h] EXCEPT !.pc = AfterWrite(h)]
  BY <1>2, <1>3, <1>6
<1> QED BY <1>1, <1>4, <1>5, <1>6 DEF HandlerMoves

LEMMA OneReportStep ==
    ASSUME Shape, OwnRows, Heard, OneReport, [Next]_vars PROVE OneReport'
<1>1. CASE Next
  <2> SUFFICES ASSUME "two_runners" \notin trouble'
               PROVE  /\ \A e \in Executions' : Single(e)' \/ (Superseded(e)' /\ exec'[e].evidence # "accepted")
                      /\ \A h \in Handlers : handler'[h].pc # "idle" =>
                            /\ exec'[handler'[h].exec].evidence = "accepted" =>
                                  exec'[handler'[h].exec].dispatch = handler'[h].kind
                            /\ exec'[handler'[h].exec].evidence = "none" /\ handler'[h].allowed =>
                                  Single(handler[h].exec)'
    BY DEF OneReport
  <2>1. /\ \A e \in Executions : Single(e) \/ (Superseded(e) /\ exec[e].evidence # "accepted")
        /\ \A h \in Handlers : handler[h].pc # "idle" =>
              /\ exec[handler[h].exec].evidence = "accepted" => exec[handler[h].exec].dispatch = handler[h].kind
              /\ exec[handler[h].exec].evidence = "none" /\ handler[h].allowed => Single(handler[h].exec)
    BY <1>1, TroubleGrows DEF OneReport
  <2>2. ASSUME NEW e \in Executions, Superseded(e) PROVE Superseded(e)'
    <3>1. exec[e].gen \in DOMAIN attempts /\ exec'[e].gen = exec[e].gen
      BY <1>1, RowStays DEF Shape, TableShape
    <3> QED BY <1>1, <2>2, <3>1, AttemptsStep DEF Superseded, AttemptsKept
  <2>3. ASSUME NEW i \in Handlers, RecordEvent(i), exec[handler[i].exec].evidence = "none",
               exec'[handler[i].exec] = SettledRow(handler[i].exec, handler[i].kind, handler[i].allowed)
        PROVE  /\ exec'[handler[i].exec].dispatch = handler[i].kind
               /\ exec'[handler[i].exec].evidence = IF handler[i].allowed THEN "accepted" ELSE "rejected"
               /\ handler[i].allowed => Single(handler[i].exec)
               /\ handler[i].kind \in exec[handler[i].exec].told
               /\ handler[i].pc # "idle"
    <3>1. /\ handler[i].pc # "idle" /\ handler[i].kind \in Results /\ handler[i].allowed \in BOOLEAN
          /\ exec[handler[i].exec] \in Execution
      BY <2>3, HeardRow DEF RecordEvent, Request
    <3> QED BY <2>1, <2>3, <3>1, SettledRowIs DEF Heard
  <2>4. ASSUME NEW e \in Executions' PROVE Single(e)' \/ (Superseded(e)' /\ exec'[e].evidence # "accepted")
    <3>1. CASE e \notin Executions
      <4>1. PICK p \in Procs : exec'[e] = NewExecution(proc[p].worker, proc[p].gen)
        BY <1>1, <3>1, NewRow
      <4> QED BY <4>1 DEF NewExecution, Single, Results
    <3>2. CASE e \in Executions /\ Single(e)
      BY <1>1, <2>2, <3>2, SingleStep
    <3>3. CASE e \in Executions /\ Superseded(e) /\ exec[e].evidence # "accepted"
      <4>1. CASE exec'[e].evidence = exec[e].evidence
        BY <2>2, <3>3, <4>1
      <4>2. ASSUME NEW i \in Handlers, RecordEvent(i), handler[i].exec = e, exec[e].evidence = "none",
                   exec'[e] = SettledRow(e, handler[i].kind, handler[i].allowed)
            PROVE  Single(e)' \/ (Superseded(e)' /\ exec'[e].evidence # "accepted")
        <5>1. CASE handler[i].allowed
          BY <1>1, <2>2, <2>3, <3>3, <4>2, <5>1, SingleStep
        <5>2. CASE ~ handler[i].allowed
          BY <2>2, <2>3, <3>3, <4>2, <5>2
        <5> QED BY <5>1, <5>2
      <4> QED BY <1>1, <3>3, <4>1, <4>2, EvidenceKept
    <3> QED BY <2>1, <3>1, <3>2, <3>3
  <2>5. ASSUME NEW e \in Executions, NEW k \in exec[e].told, Single(e), exec[e].evidence = "accepted"
        PROVE  exec[e].dispatch = k
    <3>1. exec[e] \in Execution
      BY RowType DEF Shape
    <3> QED BY <2>5, <3>1 DEF Single, Execution, Live
  <2>6. ASSUME NEW e \in Executions, NEW k \in exec[e].told, NEW l \in exec[e].told, Single(e)
        PROVE  k = l
    <3>1. exec[e] \in Execution
      BY RowType DEF Shape
    <3> QED BY <2>6, <3>1 DEF Single, Execution, Live
  <2>7. ASSUME NEW h \in Handlers, handler'[h].pc # "idle", NEW e, e = handler'[h].exec
        PROVE  /\ exec'[e].evidence = "accepted" => exec'[e].dispatch = handler'[h].kind
               /\ exec'[e].evidence = "none" /\ handler'[h].allowed => Single(e)'
    <3>1. CASE (\E f \in Executions : \E k \in exec[f].told : Heeds(h, f, k)) /\ UNCHANGED <<exec, attempts>>
      <4>1. PICK f \in Executions : \E k \in exec[f].told : Heeds(h, f, k)
        BY <3>1
      <4>2. PICK k \in exec[f].told : Heeds(h, f, k)
        BY <4>1
      <4>3. e = f /\ handler'[h].kind = k /\ handler'[h].allowed = AllowsProjection(f)
        BY <2>7, <4>2 DEF Heeds, NoRequest
      <4>4. exec'[e] = exec[e] /\ (Single(e)' <=> Single(e))
        BY <3>1 DEF Single
      <4> QED BY <2>1, <2>5, <4>3, <4>4 DEF AllowsProjection, Superseded
    <3>2. CASE handler[h].pc # "idle" /\ handler'[h].exec = handler[h].exec
               /\ handler'[h].kind = handler[h].kind /\ handler'[h].allowed = handler[h].allowed
      <4>1. e \in Executions /\ handler[h].exec = e
        BY <2>7, <3>2, HeardRow
      <4>2. exec[e].evidence = "none" => handler[h].kind \in exec[e].told
        BY <3>2, <4>1 DEF Heard
      <4>3. ASSUME exec'[e].evidence = "accepted" PROVE exec'[e].dispatch = handler'[h].kind
        <5>1. CASE exec[e].evidence = exec'[e].evidence
          <6>1. exec[e].dispatch = handler[h].kind /\ handler[h].kind \in Results
            BY <2>1, <3>2, <4>1, <4>3, <5>1, HeardRow
          <6> QED BY <1>1, <3>2, <4>1, <4>3, <5>1, <6>1, DispatchKept
        <5>2. ASSUME NEW i \in Handlers, RecordEvent(i), handler[i].exec = e, exec[e].evidence = "none",
                     exec'[e] = SettledRow(e, handler[i].kind, handler[i].allowed)
              PROVE  exec'[e].dispatch = handler'[h].kind
          <6>1. exec'[e].dispatch = handler[i].kind /\ handler[i].kind \in exec[e].told
                /\ (handler[i].allowed => Single(e))
                /\ exec'[e].evidence = IF handler[i].allowed THEN "accepted" ELSE "rejected"
            BY <2>3, <5>2
          <6>2. Single(e)
            BY <4>3, <6>1
          <6> QED BY <2>6, <3>2, <4>1, <4>2, <5>2, <6>1, <6>2
        <5> QED BY <1>1, <4>1, <5>1, <5>2, EvidenceKept
      <4>4. ASSUME exec'[e].evidence = "none", handler'[h].allowed PROVE Single(e)'
        <5>1. exec[e].evidence = "none"
          BY <1>1, <4>1, <4>4, EvidenceKept
        <5>2. Single(e) /\ handler[h].kind \in exec[e].told
          BY <2>1, <3>2, <4>1, <4>2, <4>4, <5>1
        <5>3. exec[e].dispatch # "leased"
          BY <5>2 DEF Single
        <5> QED BY <1>1, <4>1, <5>2, <5>3, SingleStep
      <4> QED BY <4>3, <4>4
    <3> QED BY <1>1, <2>7, <3>1, <3>2, EventStep
  <2> QED BY <2>4, <2>7
<1>2. CASE UNCHANGED vars
  BY <1>2 DEF vars, OneReport, Single, Superseded, Executions
<1> QED BY <1>1, <1>2

\* Success is written for a recorded completion of the assignee's run.
LEMMA SucceedStep ==
    ASSUME Shape, Next, task'.status = "SUCCEEDED"
    PROVE  \/ UNCHANGED task
           \/ \E h \in Handlers : /\ WriteResult(h) /\ task.version = handler[h].seen
                                  /\ handler[h].kind = "completed"
                                  /\ task'.assignee = task.assignee /\ UNCHANGED exec
<1>0. TableShape
  BY DEF Shape
<1>1. ASSUME NEW st \in {"ASSIGNED", "IN_PROGRESS", "BLOCKED"}, TaskBecomes(st) PROVE FALSE
  BY <1>0, <1>1, BecomesIs
<1>2. ASSUME NEW p \in Procs, StartTask(p) \/ RestartTask(p) \/ BlockTask(p) PROVE UNCHANGED task
  BY <1>1, <1>2 DEF StartTask, RestartTask, BlockTask, TaskStarted
<1>3. ASSUME NEW r \in Reconcilers, Reopen(r) \/ Reassign(r) PROVE UNCHANGED task
  BY <1>1, <1>3 DEF Reopen, Reassign
<1>4. ASSUME NEW h \in Handlers, WriteResult(h), ~ UNCHANGED task
      PROVE  task.version = handler[h].seen /\ handler[h].kind = "completed"
             /\ task'.assignee = task.assignee /\ UNCHANGED exec
  <2>1. ResultStatus(handler[h].kind) \in {"BLOCKED"} \cup Final
    BY <1>4, HeardRow, ResultStatusIs DEF WriteResult
  <2>2. TaskBecomes(ResultStatus(handler[h].kind)) /\ task.version = handler[h].seen /\ UNCHANGED exec
    BY <1>4 DEF WriteResult
  <2>3. ResultStatus(handler[h].kind) = "SUCCEEDED" /\ task'.assignee = task.assignee
    BY <1>0, <2>1, <2>2, BecomesIs
  <2>4. handler[h].kind = "completed"
    BY <2>3 DEF ResultStatus
  <2> QED BY <2>2, <2>3, <2>4
<1>6. ASSUME NEW p \in Procs, ExecuteStep(p) PROVE UNCHANGED task
  BY <1>2, <1>6 DEF ExecuteStep, Begin, InFlight, EnsureInitial, Reserve, Wait, Bind,
     Prepare, RenewReservation, Enqueue, BindPayload, FailReservation
<1>7. ASSUME NEW r \in Reconcilers, RecoveryStep(r) PROVE UNCHANGED task
  BY <1>3, <1>7 DEF RecoveryStep, Discover, Look, Claim, Decide, Finish, Aside
<1>8. ASSUME NEW h \in Handlers, ReceiveStep(h), ~ UNCHANGED task PROVE WriteResult(h)
  BY <1>8 DEF ReceiveStep, Receive, RecordEvent, Project, CompleteCurrent, EnsureRecovery
<1> QED BY <1>4, <1>6, <1>7, <1>8 DEF Next, RunnerStep, Call, Crash, RequestDies, OfferRunsOut,
           RunnerLeases, RunnerStarts, RunnerReports, RunnerDies, LeaseRunsOut,
           ClaimRunsOut, OperatorRetry, Aside, Beside

LEMMA SoundStep ==
    ASSUME Shape, OwnRows, Heard, Fresh, OneReport, Sound, [Next]_vars PROVE Sound'
<1>1. CASE Next
  <2> SUFFICES ASSUME "two_runners" \notin trouble', task'.status = "SUCCEEDED"
               PROVE  \E e \in Executions' : exec'[e].worker = task'.assignee
                         /\ exec'[e].evidence = "accepted" /\ exec'[e].dispatch = "completed"
    BY DEF Sound, ResultHasRun
  <2>0. "two_runners" \notin trouble
    BY <1>1, TroubleGrows
  <2>1. ASSUME NEW e \in Executions, exec[e].worker = task'.assignee, exec[e].evidence = "accepted",
               exec[e].dispatch = "completed"
        PROVE  e \in Executions' /\ exec'[e].worker = task'.assignee
               /\ exec'[e].evidence = "accepted" /\ exec'[e].dispatch = "completed"
    BY <1>1, <2>1, RowStays, EvidenceKept, DispatchKept DEF Results
  <2>2. CASE UNCHANGED task
    BY <2>0, <2>1, <2>2 DEF Sound, ResultHasRun
  <2>3. ASSUME NEW h \in Handlers, WriteResult(h), task.version = handler[h].seen,
               handler[h].kind = "completed", task'.assignee = task.assignee
        PROVE  \E e \in Executions' : exec'[e].worker = task'.assignee
                         /\ exec'[e].evidence = "accepted" /\ exec'[e].dispatch = "completed"
    <3>1. handler[h].pc = "write" /\ handler[h].exec \in Executions
      BY <2>3, HeardRow DEF WriteResult
    <3>2. exec[handler[h].exec].evidence = "accepted" /\ exec[handler[h].exec].worker = task.assignee
      BY <2>3, <3>1 DEF Heard, Fresh
    <3>3. exec[handler[h].exec].dispatch = "completed"
      BY <2>0, <2>3, <3>1, <3>2 DEF OneReport
    <3> QED BY <2>1, <2>3, <3>1, <3>2, <3>3
  <2> QED BY <1>1, <2>2, <2>3, SucceedStep
<1>2. CASE UNCHANGED vars
  BY <1>2 DEF vars, Sound, ResultHasRun, Executions
<1> QED BY <1>1, <1>2

\* A task that succeeded has the accepted completion of a run of its assignee, as long as
\* no run is leased to a second runner while the first is starting it: a result of another
\* Worker's run, or of rejected evidence, is never written, and one of an earlier version of
\* the task comes too late.
THEOREM SuccessHasItsRun == Spec => []("two_runners" \notin trouble => ResultHasRun)
<1>1. Init => ResultInv
  <2> SUFFICES ASSUME Init PROVE ResultInv
    OBVIOUS
  <2>1. Executions = {} /\ (\A p \in Procs : proc[p].pc = "idle") /\ \A h \in Handlers : handler[h].pc = "idle"
    BY NoRequestIs DEF Init, Executions, Idle
  <2>2. task.status # "SUCCEEDED"
    BY DEF Init
  <2> QED BY <2>1, <2>2 DEF ResultInv, OwnRows, Heard, Fresh, OneReport, Sound, ResultHasRun, Holding, Preparing
<1>2. Shape /\ ResultInv /\ [Next]_vars => ResultInv'
  BY OwnRowsStep, HeardStep, FreshStep, OneReportStep, SoundStep DEF ResultInv
<1>3. ResultInv => ("two_runners" \notin trouble => ResultHasRun)
  BY DEF ResultInv, Sound
<1> QED BY <1>1, <1>2, <1>3, ShapeHolds, PTL DEF Spec

\* A result is written for the Worker that has the task, for any number of reassignments:
\* the version that the request read with the assignee is compared again.
THEOREM ResultIsTheAssignees == Spec => ResultIsAssignees
<1> DEFINE Own == \A h \in Handlers :
                (handler[h].pc = "write" /\ handler'[h].pc = AfterWrite(h)) =>
                    task.assignee = exec[handler[h].exec].worker /\ task'.assignee = task.assignee
<1>1. Init => Fresh
  <2>1. Init => \A h \in Handlers : handler[h].pc = "idle"
    BY NoRequestIs DEF Init
  <2> QED BY <2>1 DEF Fresh
<1>2. Shape /\ Fresh /\ [Next]_vars => Fresh'
  BY FreshStep
<1>3. Shape /\ Fresh /\ [Next]_vars => [Own]_vars
  <2> SUFFICES ASSUME Shape, Fresh, Next, NEW h \in Handlers,
                      handler[h].pc = "write", handler'[h].pc = AfterWrite(h)
               PROVE  task.assignee = exec[handler[h].exec].worker /\ task'.assignee = task.assignee
    OBVIOUS
  <2>1. WriteResult(h) /\ task.version = handler[h].seen
    BY RequestStep DEF HandlerMoves, AfterWrite, RecordEvent, Heeds, NoRequest
  <2>2. ResultStatus(handler[h].kind) \in {"BLOCKED"} \cup Final
    BY HeardRow, ResultStatusIs
  <2>3. task'.assignee = task.assignee
    BY <2>1, <2>2, BecomesIs DEF WriteResult, Shape
  <2> QED BY <2>1, <2>3 DEF Fresh
<1>4. ResultIsAssignees <=> [][Own]_vars
  BY DEF ResultIsAssignees
<1> HIDE DEF Own
<1> QED BY <1>1, <1>2, <1>3, <1>4, ShapeHolds, PTL DEF Spec

=============================================================================
