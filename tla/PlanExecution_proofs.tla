-------------------------- MODULE PlanExecution_proofs --------------------------
(***************************************************************************)
(* Proofs about PlanExecution for any plan: any batches of repositories,   *)
(* any number of concurrent calls, reworks and disturbances.               *)
(***************************************************************************)
EXTENDS PlanExecution, TLAPS

USE PlanAssumption

-----------------------------------------------------------------------------
(* The inductive invariant. *)

\* The points of a call that has read the plan, before it returns.
AfterRead == {"reopen", "fail", "ready", "deliver", "clear", "gate", "settle", "assign", "expand"}

Call ==
    [pc : AfterRead \cup RollingUp \cup {"idle", "open", "find"},
     event : Event \cup {None}, repo : Repos \cup {None}, verdict : TaskStatus,
     index : DOMAIN Batches, fresh : BOOLEAN, todo : SUBSET Repos,
     seen : [WorkerTask -> TaskStatus], read : Assignment \cup {None}]
Submission ==
    [pc : {"idle", "plan", "rework", "approve", "escalate", "succeeded", "blocked"},
     todo : SUBSET WorkerTask, read : Assignment \cup {None}]

Dispatch ==
    [tasks : SUBSET [repo : Repos, task : WorkerTask \cup {LeaderTask}, redo : BOOLEAN],
     unread : SUBSET Repos, held : [Repos -> Assignment \cup {None}]]

\* No assignment, nor one that was read, is past the rounds that reworks and re-runs
\* have made; a re-run that has yet to reset it will make one more.
Pending(r) == r \in operator.unread \/ operator.held[r] # None
Rounds(r) == MaxReworks + disturbances + IF Pending(r) THEN 0 ELSE 1
Counted(a, r) == a \in Assignment /\ a.revision <= Rounds(r)

RowShape ==
    /\ plan \in [status : {"absent", "in_progress", "failed", "completed"},
                 index : DOMAIN Batches, planned : DOMAIN Batches,
                 staffed : SUBSET DOMAIN Batches, refused : BOOLEAN]
    /\ plan.index <= plan.planned
    /\ leader \in [Repos -> TaskStatus]
    /\ worker \in [Repos -> [WorkerTask -> TaskStatus]]
    /\ told \in [Repos -> SUBSET WorkerTask]
    /\ assignment \in [Repos -> Assignment]
    /\ tested \subseteq Repos \X WorkerTask /\ merged \subseteq published /\ published \subseteq Repos
    /\ events \subseteq Event
    /\ disturbances \in 0 .. MaxDisturbances
    /\ operator \in Dispatch
    /\ \A r \in Repos :
        /\ Counted(assignment[r], r)
        /\ Pending(r) => disturbances # 0
        /\ operator.held[r] # None => Counted(operator.held[r], r)

CallShape ==
    /\ caller \in [Callers -> Call]
    /\ \A c \in Callers :
        /\ caller[c].pc \notin {"idle", "assign", "expand"} => caller[c].repo \in Repos
        /\ caller[c].pc = "open" => Counted(caller[c].read, caller[c].repo)

DeskShape ==
    /\ desk \in [Repos -> Submission]
    /\ \A r \in Repos :
        /\ desk[r].pc # "idle" => Counted(desk[r].read, r)
        /\ desk[r].pc = "rework" => desk[r].read.revision <= MaxReworks

ShapeInv == RowShape /\ CallShape /\ DeskShape

\* Whatever exists of a repository exists since its batch was begun.
Begun(r) == \A k \in DOMAIN Batches : r \in Batches[k] => k <= plan.index

RowsBegun ==
    /\ \A r \in Repos :
        /\ leader[r] # "none" => Begun(r)
        /\ assignment[r].phase # "none" => Begun(r)
        /\ told[r] # {} => Begun(r)
        /\ desk[r].pc # "idle" => Begun(r)
        /\ \A t \in WorkerTask : worker[r][t] # "none" => Begun(r)
    /\ \A r \in published : Begun(r)
    /\ \A e \in events : Begun(e.repo)
    /\ \A x \in operator.tasks : Begun(x.repo)
    /\ \A r \in Repos : operator.held[r] # None => Begun(r)

\* A call is about a repository that was begun and never ahead of the plan.  One that
\* settles has seen its batch merged.  While nobody has overtaken it, the plan is as the
\* call has read it, and past the refusal delivery has nothing against it.
InStep(call) ==
    /\ call.pc \notin {"idle", "assign", "expand"} => Begun(call.repo)
    /\ call.event # None => Begun(call.event.repo)
    /\ call.pc \in AfterRead => call.index <= plan.index
    /\ call.pc \in {"assign", "expand"} => call.todo \subseteq Batches[call.index]
    /\ call.pc = "settle" /\ DeliveryGated => Batches[call.index] \subseteq merged
    /\ call.pc \in {"deliver", "clear", "gate"} => DeliveryGated
    /\ call.pc \in AfterRead /\ call.fresh =>
        /\ call.index = plan.index
        /\ plan.status = IF call.pc = "reopen" THEN "failed" ELSE "in_progress"
        /\ call.pc \in {"gate", "settle"} => ~plan.refused

CallsInStep == \A c \in Callers : InStep(caller[c])

\* The plan is past merged batches only, and has ended only when nothing is open.
PlanInv ==
    /\ DeliveryGated =>
        /\ \A j \in DOMAIN Batches : j < plan.index => Batches[j] \subseteq merged
        /\ CompletedMeansDelivered
    /\ plan.status = "completed" \/ ~DeliveryGated => ~plan.refused
    /\ plan.status = "absent" => plan.index = 1

IInv == ShapeInv /\ RowsBegun /\ CallsInStep /\ PlanInv

-----------------------------------------------------------------------------
(* Shape: what the helper operators return. *)

\* A call in progress stays where it is when somebody overtakes it.
Alike(call, old) ==
    /\ call \in Call
    /\ call.pc = old.pc /\ call.repo = old.repo /\ call.read = old.read
    /\ call.todo = old.todo /\ call.event = old.event /\ call.index = old.index
    /\ call.verdict = old.verdict

\* A write to the plan overtakes a call without moving it.
LEMMA OvertakenPlan == ASSUME NEW call \in Call PROVE Alike(OverPlan(call), call)
BY DEF OverPlan, Alike, Call

\* So does a write to a leader task.
LEMMA OvertakenLeader ==
    ASSUME NEW call \in Call, NEW r PROVE Alike(OverLeader(call, r), call)
BY DEF OverLeader, Alike, Call

\* The resting call and desk.
LEMMA IdleShape == IdleCall \in Call /\ IdleDesk \in Submission /\ IdleCall.pc = "idle"
BY DEF IdleCall, IdleDesk, Call, Submission, TaskStatus, NoWorkers

\* A call in order: what CallShape asks of one call.
GoodCall(call) ==
    /\ call \in Call
    /\ call.pc \notin {"idle", "assign", "expand"} => call.repo \in Repos
    /\ call.pc = "open" => Counted(call.read, call.repo)

\* The call that a roll-up leads to.
LEMMA RolledUpShape ==
    ASSUME NEW call \in Call, call.repo \in Repos, NEW seen
    PROVE  GoodCall(RolledUp(call, seen))
<1> DEFINE listed == {seen[t] : t \in Listed(seen)}
           verdict == IF "failed" \in listed THEN "failed" ELSE "succeeded"
<1>1. ASSUME NEW v \in {"failed", "succeeded"}
      PROVE  GoodCall([call EXCEPT !.pc = "rollup", !.verdict = v])
  BY DEF GoodCall, Call, TaskStatus, RollingUp
<1>2. GoodCall(IdleCall)
  BY IdleShape DEF GoodCall
<1>3. \/ RolledUp(call, seen) = [call EXCEPT !.pc = "rollup", !.verdict = verdict]
      \/ RolledUp(call, seen) = IdleCall
  BY Zenon DEF RolledUp
<1>4. verdict \in {"failed", "succeeded"}
  OBVIOUS
<1> HIDE DEF verdict
<1> QED BY <1>1, <1>2, <1>3, <1>4

\* One call moves on, and others may be overtaken.
LEMMA CallMoves ==
    ASSUME CallShape, NEW c \in Callers, NEW call, GoodCall(call),
           UNCHANGED <<operator, disturbances>>,
           \/ caller' = [caller EXCEPT ![c] = call]
           \/ caller' = [d \in Callers |-> IF d = c THEN call ELSE OverPlan(caller[d])]
           \/ \E r \in Repos :
                caller' = [d \in Callers |-> IF d = c THEN call ELSE OverLeader(caller[d], r)]
    PROVE  CallShape'
<1>1. caller' \in [Callers -> Call]
      /\ caller'[c] = call /\ \A d \in Callers \ {c} : Alike(caller'[d], caller[d])
  <2>0. \A d \in Callers : caller[d] \in Call /\ Alike(caller[d], caller[d])
    BY DEF CallShape, Alike
  <2>1. CASE caller' = [caller EXCEPT ![c] = call]
    BY <2>0, <2>1 DEF CallShape, GoodCall
  <2>2. CASE caller' = [d \in Callers |-> IF d = c THEN call ELSE OverPlan(caller[d])]
    BY <2>0, <2>2, OvertakenPlan DEF GoodCall, Alike
  <2>3. ASSUME NEW r \in Repos,
               caller' = [d \in Callers |-> IF d = c THEN call ELSE OverLeader(caller[d], r)]
        PROVE  caller' \in [Callers -> Call]
               /\ caller'[c] = call /\ \A d \in Callers \ {c} : Alike(caller'[d], caller[d])
    BY <2>0, <2>3, OvertakenLeader DEF GoodCall, Alike
  <2> QED BY <2>1, <2>2, <2>3
<1>2. ASSUME NEW d \in Callers PROVE
        /\ caller'[d].pc \notin {"idle", "assign", "expand"} => caller'[d].repo \in Repos
        /\ caller'[d].pc = "open" => Counted(caller'[d].read, caller'[d].repo)
  BY <1>1 DEF CallShape, GoodCall, Alike
<1> QED BY <1>1, <1>2 DEF CallShape, Counted, Rounds, Pending
-----------------------------------------------------------------------------
(* Shape: every step keeps it. *)

\* The plan's row under UpdatePlan: the calls move as CallMoves says.
LEMMA UpdateShape ==
    ASSUME CallShape, NEW c \in Callers, NEW new, NEW next, GoodCall(next),
           UpdatePlan(c, new, next), UNCHANGED <<operator, disturbances>>
    PROVE  CallShape' /\ plan' \in {plan, new}
<1>1. CASE ~caller[c].fresh
  BY <1>1, CallMoves, IdleShape DEF UpdatePlan, Return, Goto, GoodCall
<1>2. CASE caller[c].fresh
  BY <1>2, CallMoves DEF UpdatePlan
<1> QED BY <1>1, <1>2

\* A step of a call.
LEMMA CallerShape ==
    ASSUME ShapeInv, NEW c \in Callers, CallerStep(c)
    PROVE  RowShape' /\ CallShape'
<1> DEFINE call == caller[c]
<1> USE DEF ShapeInv
<1>0. /\ call \in Call /\ GoodCall(call) /\ GoodCall(IdleCall)
      /\ \A e \in events : e \in Event
  BY IdleShape DEF CallShape, GoodCall, RowShape
<1>00. \A k \in DOMAIN Batches : Batches[k] \in SUBSET Repos
  OBVIOUS
<1>1. ASSUME NEW g, GoodCall(g), Goto(c, g), UNCHANGED <<operator, disturbances>> PROVE CallShape'
  BY <1>1, CallMoves DEF Goto
<1>2. ASSUME UNCHANGED <<rows, delivery, events, operator, disturbances>> PROVE RowShape'
  BY <1>2 DEF RowShape, rows, delivery, Counted, Rounds, Pending
<1>3. ASSUME TaskTerminal(c) PROVE RowShape' /\ CallShape'
  <2>1. PICK e \in events :
          /\ events' = events \ {e}
          /\ \E pc \in {"list", "find"} :
                Goto(c, [IdleCall EXCEPT !.event = e, !.repo = e.repo,
                                         !.verdict = leader[e.repo], !.pc = pc])
    BY <1>3 DEF TaskTerminal
  <2>2. e \in Event /\ e.repo \in Repos /\ leader[e.repo] \in TaskStatus
    BY <1>0 DEF Event, RowShape
  <2>3. ASSUME NEW pc \in {"list", "find"}
        PROVE  GoodCall([IdleCall EXCEPT !.event = e, !.repo = e.repo,
                                         !.verdict = leader[e.repo], !.pc = pc])
    BY <2>2, <2>3, IdleShape DEF GoodCall, Call, IdleCall, RollingUp
  <2>4. CallShape'
    BY <1>1, <1>3, <2>1, <2>3 DEF TaskTerminal
  <2>5. RowShape'
    BY <1>3, <2>1 DEF TaskTerminal, RowShape, rows, delivery, Counted, Rounds, Pending
  <2> QED BY <2>4, <2>5
<1>31. ASSUME ListWorkers(c) PROVE RowShape' /\ CallShape'
  <2>1. call.repo \in Repos /\ worker[call.repo] \in [WorkerTask -> TaskStatus]
    BY <1>0, <1>31 DEF ListWorkers, At, GoodCall, RowShape
  <2>2. GoodCall([call EXCEPT !.pc = "lane", !.seen = worker[call.repo]])
    BY <1>0, <2>1 DEF GoodCall, Call, RollingUp
  <2> QED BY <1>1, <1>2, <1>31, <2>2 DEF ListWorkers
<1>32. ASSUME ReadLane(c) PROVE RowShape' /\ CallShape'
  <2> DEFINE cleared == [call EXCEPT !.seen = NoWorkers]
             read == assignment[cleared.repo]
             park == [read EXCEPT !.phase = "review_due", !.evidence = Listed(call.seen)]
  <2>2. cleared \in Call /\ cleared.repo = call.repo
    BY <1>0 DEF Call, NoWorkers, TaskStatus
  <2>1. call.repo \in Repos /\ Counted(read, call.repo)
    BY <1>0, <1>32, <2>2 DEF ReadLane, At, GoodCall, RowShape
  <2>3. Listed(call.seen) \in SUBSET WorkerTask
    BY DEF Listed
  <2>4. Counted(park, call.repo)
    BY <2>1, <2>3 DEF Counted, Assignment, Phase
  <2>5. GoodCall([cleared EXCEPT !.pc = "open", !.read = park])
    BY <2>1, <2>2, <2>4 DEF GoodCall, Call, Counted
  <2>6. GoodCall(RolledUp(cleared, call.seen))
    BY <2>1, <2>2, RolledUpShape
  <2>7. \/ Goto(c, RolledUp(cleared, call.seen))
        \/ Goto(c, [cleared EXCEPT !.pc = "open", !.read = park])
        \/ Goto(c, IdleCall)
    BY <1>32, Zenon DEF ReadLane
  <2>8. UNCHANGED <<rows, delivery, events, operator, disturbances>>
    BY <1>32 DEF ReadLane
  <2> HIDE DEF cleared, park
  <2> QED BY <1>0, <1>1, <1>2, <2>5, <2>6, <2>7, <2>8
<1>4. ASSUME RollUp(c) PROVE RowShape' /\ CallShape'
  <2> DEFINE status == IF call.fresh THEN call.verdict ELSE leader[call.repo]
             next == IF status \in Final
                     THEN [call EXCEPT !.pc = "find", !.verdict = status, !.fresh = TRUE]
                     ELSE IdleCall
  <2>1. call.repo \in Repos /\ status \in TaskStatus
    BY <1>0, <1>4 DEF RollUp, At, GoodCall, Call, RowShape
  <2>2. [call EXCEPT !.pc = "find", !.verdict = status, !.fresh = TRUE] \in Call
    BY <1>0, <2>1 DEF Call
  <2>3. GoodCall(next)
    <3> DEFINE found == [call EXCEPT !.pc = "find", !.verdict = status, !.fresh = TRUE]
    <3>1. found.pc = "find" /\ found.repo = call.repo
      BY <1>0 DEF Call
    <3>2. GoodCall(found)
      BY <2>1, <2>2, <3>1 DEF GoodCall
    <3> QED BY <1>0, <3>2
  <2>4. /\ leader' = [leader EXCEPT ![call.repo] = status]
        /\ caller' = [d \in Callers |-> IF d = c THEN next
                                        ELSE IF call.fresh THEN OverLeader(caller[d], call.repo)
                                        ELSE caller[d]]
        /\ UNCHANGED <<plan, worker, told, assignment, delivery, events, desk, operator,
                       disturbances>>
    BY <1>4 DEF RollUp
  <2>5. call.fresh =>
          caller' = [d \in Callers |-> IF d = c THEN next ELSE OverLeader(caller[d], call.repo)]
    BY <2>4
  <2>6. ~call.fresh => caller' = [caller EXCEPT ![c] = next]
    BY <2>4 DEF CallShape
  <2>7. CallShape'
    <3> HIDE DEF next, status
    <3>1. CASE call.fresh
      BY <2>1, <2>3, <2>4, <2>5, <3>1, CallMoves
    <3>2. CASE ~call.fresh
      BY <2>3, <2>4, <2>6, <3>2, CallMoves
    <3> QED BY <3>1, <3>2
  <2>8. RowShape'
    BY <2>1, <2>4 DEF RowShape, delivery, Counted, Rounds, Pending
  <2> QED BY <2>7, <2>8
<1>5. ASSUME OpenReview(c) PROVE RowShape' /\ CallShape'
  <2>1. call.repo \in Repos /\ Counted(call.read, call.repo)
    BY <1>0, <1>5 DEF OpenReview, At, GoodCall
  <2>2. CallShape'
    BY <1>0, <1>1, <1>5 DEF OpenReview, Return
  <2>3. RowShape'
    BY <1>5, <2>1 DEF OpenReview, RowShape, delivery, Counted, Rounds, Pending
  <2> QED BY <2>2, <2>3
<1>6. ASSUME NEW pc \in AfterRead, call.repo \in Repos PROVE GoodCall(HasRead(call, pc))
  BY <1>0, <1>6 DEF GoodCall, HasRead, Call, RowShape, AfterRead
<1>7. ASSUME NEW pc \in AfterRead, call.repo \in Repos PROVE GoodCall([call EXCEPT !.pc = pc])
  BY <1>0, <1>7 DEF GoodCall, Call, AfterRead
<1>8. ASSUME FindPlan(c) PROVE RowShape' /\ CallShape'
  <2>1. call.repo \in Repos
    BY <1>0, <1>8 DEF FindPlan, At, GoodCall
  <2>2. GoodCall(HasRead(call, IF call.verdict = "succeeded" THEN "ready" ELSE "fail"))
    BY <1>6, <2>1 DEF AfterRead
  <2> QED BY <1>0, <1>1, <1>2, <1>8, <2>2 DEF FindPlan, Return
<1>9. ASSUME Fail(c) PROVE RowShape' /\ CallShape'
  <2>1. CallShape' /\ plan' \in {plan, [plan EXCEPT !.status = "failed"]}
    BY <1>0, <1>9, UpdateShape DEF Fail
  <2> QED BY <1>9, <2>1 DEF Fail, RowShape, delivery, Counted, Rounds, Pending
<1>10. ASSUME Reconsider(c) PROVE RowShape' /\ CallShape'
  <2>1. PICK e \in events :
          /\ events' = events \ {e}
          /\ LET new == [IdleCall EXCEPT !.event = e, !.repo = e.repo]
             IN  \/ Goto(c, HasRead(new, "reopen")) \/ Goto(c, HasRead(new, "ready"))
                 \/ Goto(c, IdleCall)
    BY <1>10 DEF Reconsider, Return
  <2> DEFINE new == [IdleCall EXCEPT !.event = e, !.repo = e.repo]
  <2>2. e \in Event /\ e.repo \in Repos
    BY <1>0 DEF Event
  <2>3. new \in Call /\ new.repo = e.repo
    BY <2>2, IdleShape DEF Call, IdleCall
  <2>4. \A pc \in {"reopen", "ready"} : GoodCall(HasRead(new, pc))
    BY <2>2, <2>3 DEF GoodCall, HasRead, Call, RowShape, AfterRead
  <2>5. CallShape'
    BY <1>0, <1>1, <1>10, <2>1, <2>4 DEF Reconsider
  <2>6. RowShape'
    BY <1>10, <2>1 DEF Reconsider, RowShape, rows, delivery, Counted, Rounds, Pending
  <2> QED BY <2>5, <2>6
<1>11. ASSUME Reopen(c) PROVE RowShape' /\ CallShape'
  <2>1. GoodCall([call EXCEPT !.pc = "ready"])
    BY <1>0, <1>7, <1>11 DEF Reopen, At, GoodCall, AfterRead
  <2>2. CallShape' /\ plan' \in {plan, [plan EXCEPT !.status = "in_progress"]}
    BY <1>0, <1>1, <1>11, <2>1, UpdateShape DEF Reopen, Return
  <2> QED BY <1>11, <2>2 DEF Reopen, RowShape, delivery, Counted, Rounds, Pending
<1>12. ASSUME Ready(c) PROVE RowShape' /\ CallShape'
  <2>1. GoodCall([call EXCEPT !.pc = IF DeliveryGated THEN "deliver" ELSE "settle"])
    BY <1>0, <1>7, <1>12 DEF Ready, At, GoodCall, AfterRead
  <2> QED BY <1>0, <1>1, <1>2, <1>12, <2>1 DEF Ready, Return
<1>13. ASSUME Deliver(c) PROVE RowShape' /\ CallShape'
  <2>0. Batches[call.index] \subseteq Repos
    BY <1>0, <1>00 DEF Call
  <2>1. GoodCall([call EXCEPT !.pc = "clear"])
    BY <1>0, <1>7, <1>13 DEF Deliver, At, GoodCall, AfterRead
  <2>2. CallShape' /\ plan' \in {plan, [plan EXCEPT !.refused = TRUE]}
    BY <1>0, <1>1, <1>13, <2>1, UpdateShape DEF Deliver, Return
  <2> QED BY <1>13, <2>0, <2>2 DEF Deliver, RowShape, Counted, Rounds, Pending
<1>14. ASSUME ClearRefusal(c) PROVE RowShape' /\ CallShape'
  <2>1. GoodCall([call EXCEPT !.pc = "gate"])
    BY <1>0, <1>7, <1>14 DEF ClearRefusal, At, GoodCall, AfterRead
  <2>2. CallShape' /\ plan' \in {plan, [plan EXCEPT !.refused = FALSE]}
    BY <1>0, <1>1, <1>14, <2>1, UpdateShape DEF ClearRefusal
  <2> QED BY <1>14, <2>2 DEF ClearRefusal, RowShape, delivery, Counted, Rounds, Pending
<1>15. ASSUME Gate(c) PROVE RowShape' /\ CallShape'
  <2>1. GoodCall([call EXCEPT !.pc = "settle"])
    BY <1>0, <1>7, <1>15 DEF Gate, At, GoodCall, AfterRead
  <2> QED BY <1>0, <1>1, <1>2, <1>15, <2>1 DEF Gate, Return
<1>16. ASSUME Settle(c) PROVE RowShape' /\ CallShape'
  <2> DEFINE succ == plan.index + 1
             next == [call EXCEPT !.pc = "assign", !.index = succ, !.todo = Batches[succ]]
  <2>1. CASE plan.index = plan.planned
    <3>1. CallShape' /\ plan' \in {plan, [plan EXCEPT !.status = "completed"]}
      BY <1>0, <1>16, <2>1, UpdateShape DEF Settle
    <3> QED BY <1>16, <3>1 DEF Settle, RowShape, delivery, Counted, Rounds, Pending
  <2>2. CASE plan.index # plan.planned
    <3>1. succ \in DOMAIN Batches /\ succ <= plan.planned /\ Batches[succ] \subseteq Repos
      BY <2>2 DEF RowShape
    <3>2. GoodCall(next)
      BY <1>0, <3>1 DEF GoodCall, Call, AfterRead
    <3>3. CallShape' /\ plan' \in {plan, [plan EXCEPT !.index = succ]}
      <4> HIDE DEF next
      <4>1. UpdatePlan(c, [plan EXCEPT !.index = succ], next) /\ UNCHANGED <<operator, disturbances>>
        BY <1>16, <2>2 DEF Settle, next
      <4> QED BY <3>2, <4>1, UpdateShape
    <3> QED BY <1>16, <3>1, <3>3 DEF Settle, RowShape, delivery, Counted, Rounds, Pending
  <2> QED BY <2>1, <2>2
<1>17. ASSUME Start(c) PROVE RowShape' /\ CallShape'
  <2>0. 1 \in DOMAIN Batches
    OBVIOUS
  <2>1. GoodCall([IdleCall EXCEPT !.pc = "assign", !.todo = Batches[1]])
    BY <1>0, <1>00, <2>0 DEF GoodCall, Call, AfterRead, IdleCall
  <2>2. CallShape'
    BY <1>1, <1>17, <2>1 DEF Start
  <2> QED BY <1>17, <2>2 DEF Start, RowShape, delivery, Counted, Rounds, Pending
<1>18. ASSUME AssignLeader(c) PROVE RowShape' /\ CallShape'
  <2>1. PICK r \in call.todo :
          /\ leader' = [leader EXCEPT ![r] = IF @ = "none" THEN "assigned" ELSE @]
          /\ Goto(c, [call EXCEPT !.todo = @ \ {r}])
    BY <1>18 DEF AssignLeader
  <2>2. GoodCall([call EXCEPT !.todo = @ \ {r}])
    BY <1>0 DEF GoodCall, Call
  <2>3. CallShape'
    BY <1>1, <1>18, <2>1, <2>2 DEF AssignLeader
  <2>4. r \in Repos
    BY <1>0 DEF Call
  <2>5. leader' \in [Repos -> TaskStatus]
    BY <2>1, <2>4 DEF RowShape, TaskStatus
  <2> QED BY <1>18, <2>3, <2>5 DEF AssignLeader, RowShape, delivery, Counted, Rounds, Pending
<1>19. ASSUME RecordLeaders(c) PROVE RowShape' /\ CallShape'
  <2> DEFINE next == [call EXCEPT !.pc = "expand", !.todo = Batches[call.index]]
  <2>0. call.index \in DOMAIN Batches /\ Batches[call.index] \in SUBSET Repos
    BY <1>0, <1>00 DEF Call
  <2>1. GoodCall(next)
    BY <1>0, <2>0 DEF GoodCall, Call, AfterRead
  <2>2. CallShape' /\ plan' \in {plan, [plan EXCEPT !.staffed = @ \cup {call.index}]}
    BY <1>19, <2>1, UpdateShape DEF RecordLeaders
  <2>3. plan.staffed \cup {call.index} \in SUBSET DOMAIN Batches
    BY <2>0 DEF RowShape
  <2> DEFINE new == [plan EXCEPT !.staffed = @ \cup {call.index}]
  <2>4. /\ new \in [status : {"absent", "in_progress", "failed", "completed"},
                    index : DOMAIN Batches, planned : DOMAIN Batches,
                    staffed : SUBSET DOMAIN Batches, refused : BOOLEAN]
        /\ new.index <= new.planned
    BY <2>3 DEF RowShape
  <2>5. plan' \in {plan, new}
    BY <2>2
  <2> HIDE DEF new
  <2>6. RowShape'
    BY <1>19, <2>4, <2>5 DEF RecordLeaders, RowShape, delivery, Counted, Rounds, Pending
  <2> QED BY <2>2, <2>6
<1>20. ASSUME NEW r \in Repos, Expanded(c, r), call.pc = "expand",
              UNCHANGED <<operator, disturbances>>
       PROVE CallShape'
  <2>1. GoodCall([call EXCEPT !.todo = call.todo \ {r}])
    BY <1>0, <1>20 DEF GoodCall, Call
  <2> QED BY <1>0, <1>1, <1>20, <2>1 DEF Expanded, Return
<1>21. ASSUME Decompose(c) PROVE RowShape' /\ CallShape'
  <2>1. PICK r \in call.todo \ LeaderSide :
          \/ CreateRow(r, FirstNode) /\ UNCHANGED caller
          \/ Announce(r, FirstNode) /\ Expanded(c, r)
    BY <1>21 DEF Decompose
  <2>2. r \in Repos /\ FirstNode \in WorkerTask
    BY <1>0 DEF Call, WorkerTask
  <2>3. CallShape'
    BY <1>20, <1>21, <2>1, <2>2 DEF Decompose, At, CallShape, Counted, Rounds, Pending
  <2>4. worker' \in [Repos -> [WorkerTask -> TaskStatus]] /\ told' \in [Repos -> SUBSET WorkerTask]
    <3>1. CASE CreateRow(r, FirstNode)
      <4>1. [worker[r] EXCEPT ![FirstNode] = "assigned"] \in [WorkerTask -> TaskStatus]
        BY <2>2 DEF RowShape, TaskStatus
      <4> QED BY <2>2, <3>1, <4>1 DEF CreateRow, RowShape
    <3>2. CASE Announce(r, FirstNode)
      BY <2>2, <3>2 DEF Announce, RowShape
    <3> QED BY <2>1, <3>1, <3>2
  <2> QED BY <1>21, <2>3, <2>4 DEF Decompose, RowShape, delivery, Counted, Rounds, Pending
<1>22. ASSUME Park(c) PROVE RowShape' /\ CallShape'
  <2>1. PICK r \in call.todo \cap LeaderSide :
          /\ assignment' = [assignment EXCEPT ![r].phase = IF @ = "none" THEN "planning" ELSE @]
          /\ Expanded(c, r)
    BY <1>22 DEF Park
  <2>2. r \in Repos
    BY <1>0 DEF Call
  <2>3. CallShape'
    BY <1>20, <1>22, <2>1, <2>2 DEF Park, At
  <2>4. assignment' \in [Repos -> Assignment] /\ \A q \in Repos : Counted(assignment'[q], q)
    <3> DEFINE phase == IF assignment[r].phase = "none" THEN "planning" ELSE assignment[r].phase
               new == [assignment[r] EXCEPT !.phase = phase]
    <3>1. assignment[r] \in Assignment /\ phase \in Phase
      BY <2>2 DEF RowShape, Assignment, Phase
    <3>2. new \in Assignment /\ new.revision = assignment[r].revision
      BY <3>1 DEF Assignment
    <3>3. assignment' = [assignment EXCEPT ![r] = new]
      BY <2>1
    <3> HIDE DEF new
    <3> QED BY <1>22, <2>2, <3>2, <3>3 DEF Park, RowShape, Counted, Rounds, Pending
  <2> QED BY <1>22, <2>3, <2>4 DEF Park, RowShape, delivery, Counted, Rounds, Pending
<1> QED BY <1>3, <1>31, <1>32, <1>4, <1>5, <1>8, <1>9, <1>10, <1>11, <1>12, <1>13, <1>14, <1>15, <1>16,
           <1>17, <1>18, <1>19, <1>21, <1>22 DEF CallerStep

\* A step of a leader's submission.
LEMMA DeskKeepsShape ==
    ASSUME ShapeInv, NEW r \in Repos, DeskStep(r) PROVE ShapeInv'
<1> USE DEF ShapeInv
<1> DEFINE sub == desk[r]
           row == assignment[r]
<1>0. /\ sub \in Submission /\ row \in Assignment /\ Counted(row, r)
      /\ sub.pc # "idle" => Counted(sub.read, r)
  BY DEF DeskShape, RowShape
<1>1. ASSUME NEW new, new \in Submission, Desk(r, new), UNCHANGED <<operator, disturbances>>,
             new.pc # "idle" => Counted(new.read, r),
             new.pc = "rework" => new.read.revision <= MaxReworks
      PROVE  DeskShape'
  BY <1>1 DEF DeskShape, Desk, Counted, Rounds, Pending
<1>2. IdleDesk \in Submission /\ IdleDesk.pc = "idle"
  BY IdleShape DEF IdleDesk
<1>3. ASSUME UNCHANGED <<caller, operator, disturbances>> PROVE CallShape'
  BY <1>3 DEF CallShape, Counted, Rounds, Pending
<1>4. ASSUME UNCHANGED <<rows, delivery, events, operator, disturbances>> PROVE RowShape'
  BY <1>4 DEF RowShape, rows, delivery, Counted, Rounds, Pending
<1>5. ASSUME NEW new, new \in Assignment, Counted(new, r),
             assignment' = [assignment EXCEPT ![r] = new],
             UNCHANGED <<plan, leader, worker, told, delivery, operator, disturbances>>,
             events' \subseteq Event
      PROVE  RowShape'
  BY <1>5 DEF RowShape, delivery, Counted, Rounds, Pending
<1>6. CASE SubmitPlan(r)
  <2>1. [pc |-> "plan", todo |-> Nodes, read |-> row] \in Submission
    BY <1>0 DEF Submission, WorkerTask
  <2> QED BY <1>0, <1>1, <1>3, <1>4, <1>6, <2>1 DEF SubmitPlan
<1>7. CASE DispatchTask(r)
  <2>1. PICK t \in sub.todo :
          \/ CreateRow(r, t) /\ UNCHANGED desk
          \/ Announce(r, t) /\ Desk(r, [sub EXCEPT !.todo = @ \ {t}])
    BY <1>7 DEF DispatchTask
  <2>2. t \in WorkerTask
    BY <1>0 DEF Submission
  <2>3. worker' \in [Repos -> [WorkerTask -> TaskStatus]] /\ told' \in [Repos -> SUBSET WorkerTask]
    <3>1. CASE CreateRow(r, t)
      <4>1. [worker[r] EXCEPT ![t] = "assigned"] \in [WorkerTask -> TaskStatus]
        BY <2>2 DEF RowShape, TaskStatus
      <4> QED BY <3>1, <4>1 DEF CreateRow, RowShape
    <3>2. CASE Announce(r, t)
      BY <2>2, <3>2 DEF Announce, RowShape
    <3> QED BY <2>1, <3>1, <3>2
  <2>4. DeskShape'
    <3>1. [sub EXCEPT !.todo = sub.todo \ {t}] \in Submission
      BY <1>0 DEF Submission
    <3>2. CASE UNCHANGED desk
      BY <1>7, <3>2 DEF DispatchTask, DeskShape, Counted, Rounds, Pending
    <3>3. CASE Desk(r, [sub EXCEPT !.todo = @ \ {t}])
      <4> DEFINE new == [sub EXCEPT !.todo = sub.todo \ {t}]
      <4>1. new.pc = sub.pc /\ new.read = sub.read
        BY <1>0 DEF Submission
      <4>2. new.pc = "rework" => new.read.revision <= MaxReworks
        BY <4>1 DEF DeskShape
      <4>3. Desk(r, new) /\ UNCHANGED <<operator, disturbances>>
        BY <1>7, <3>3 DEF DispatchTask
      <4> HIDE DEF new
      <4> QED BY <1>0, <1>1, <3>1, <4>1, <4>2, <4>3 DEF new
    <3> QED BY <2>1, <3>2, <3>3
  <2>5. RowShape'
    BY <1>7, <2>3 DEF DispatchTask, RowShape, delivery, Counted, Rounds, Pending
  <2> QED BY <1>3, <1>7, <2>4, <2>5 DEF DispatchTask
<1>8. CASE SavePlan(r)
  <2>1. [sub.read EXCEPT !.phase = "executing"] \in Assignment
        /\ Counted([sub.read EXCEPT !.phase = "executing"], r)
    BY <1>0, <1>8 DEF SavePlan, Counted, Rounds, Pending, Assignment, Phase
  <2>2. events' \subseteq Event
    BY <1>8 DEF SavePlan, RowShape
  <2> QED BY <1>1, <1>2, <1>3, <1>5, <1>8, <2>1, <2>2 DEF SavePlan
<1>9. CASE RequestRework(r)
  <2> DEFINE new == [pc |-> "rework", todo |-> {row.revision}, read |-> row]
  <2>1. row.revision \in 1 .. MaxReworks
    BY <1>9 DEF RequestRework
  <2>2. new \in Submission
    BY <1>0, <2>1 DEF Submission, WorkerTask
  <2> QED BY <1>0, <1>1, <1>3, <1>4, <1>9, <2>1, <2>2 DEF RequestRework
<1>10. CASE SaveRework(r)
  <2> DEFINE read == sub.read
             new == [phase |-> "executing", revision |-> read.revision + 1, evidence |-> {},
                     reviews |-> read.reviews \cup {read.revision}]
  <2>1. read \in Assignment /\ read.revision <= MaxReworks
    BY <1>0, <1>10 DEF SaveRework, DeskShape, Counted, Rounds, Pending
  <2>2. new \in Assignment /\ Counted(new, r)
    <3>1. read.revision \in Round /\ read.reviews \cup {read.revision} \in SUBSET Round
      BY <2>1 DEF Assignment
    <3>2. disturbances \in Nat /\ (Pending(r) => disturbances # 0)
      BY DEF RowShape
    <3>0. \A n \in Round : n <= MaxReworks => n + 1 \in Round /\ n + 1 <= Rounds(r)
      BY <3>2 DEF Round, Rounds
    <3>3. read.revision + 1 \in Round /\ read.revision + 1 <= Rounds(r)
      BY <2>1, <3>0, <3>1
    <3> QED BY <3>1, <3>3 DEF Assignment, Phase, Counted
  <2>3. events' \subseteq Event
    BY <1>10 DEF SaveRework, RowShape
  <2>4. assignment' = [assignment EXCEPT ![r] = new]
    BY <1>10 DEF SaveRework
  <2> HIDE DEF new
  <2> QED BY <1>1, <1>2, <1>3, <1>5, <1>10, <2>2, <2>3, <2>4 DEF SaveRework
<1>11. CASE \E verdict \in DOMAIN Reported : Judge(r, verdict)
  <2>1. PICK verdict \in {"approve", "escalate"} : Judge(r, verdict)
    BY <1>11 DEF Reported
  <2>2. [pc |-> verdict, todo |-> {}, read |-> row] \in Submission
    BY <1>0 DEF Submission
  <2> QED BY <1>0, <1>1, <1>3, <1>4, <2>1, <2>2 DEF Judge
<1>12. CASE ReportVerdict(r)
  <2> DEFINE reported == Reported[sub.pc]
  <2>1. reported \in {"succeeded", "blocked"} /\ sub.pc # "idle"
    BY <1>12 DEF ReportVerdict, Reported
  <2>2. [sub EXCEPT !.pc = reported] \in Submission
        /\ [sub EXCEPT !.pc = reported].read = sub.read
    BY <1>0, <2>1 DEF Submission
  <2>3. DeskShape'
    <3>1. CASE Desk(r, IdleDesk)
      BY <1>1, <1>2, <1>12, <3>1 DEF ReportVerdict
    <3>2. CASE Desk(r, [sub EXCEPT !.pc = reported])
      <4> DEFINE new == [sub EXCEPT !.pc = reported]
      <4>1. new.pc # "rework" /\ Counted(new.read, r) /\ new \in Submission
        BY <1>0, <2>1, <2>2 DEF Submission
      <4> HIDE DEF new
      <4> QED BY <1>1, <1>12, <3>2, <4>1 DEF ReportVerdict, new
    <3> QED BY <1>12, <3>1, <3>2 DEF ReportVerdict
  <2>4. CallShape' /\ leader' \in [Repos -> TaskStatus]
    <3>1. CASE UNCHANGED <<leader, caller>>
      BY <1>3, <1>12, <3>1 DEF ReportVerdict, RowShape
    <3>2. CASE SetLeader(r, reported)
      <4>1. leader' \in [Repos -> TaskStatus]
        BY <2>1, <3>2 DEF SetLeader, RowShape, TaskStatus
      <4>2. caller' = [d \in Callers |-> OverLeader(caller[d], r)]
        BY <3>2 DEF SetLeader
      <4>3. \A d \in Callers : Alike(caller'[d], caller[d])
        BY <4>2, OvertakenLeader DEF CallShape
      <4>4. caller' \in [Callers -> Call]
        BY <4>2, <4>3 DEF Alike
      <4> QED BY <1>12, <4>1, <4>3, <4>4 DEF CallShape, Alike, Counted, Rounds, Pending, ReportVerdict
    <3> QED BY <1>12, <3>1, <3>2 DEF ReportVerdict
  <2>5. RowShape'
    BY <1>12, <2>4 DEF ReportVerdict, RowShape, delivery, Counted, Rounds, Pending
  <2> QED BY <2>3, <2>4, <2>5
<1>13. CASE CloseReview(r)
  <2> DEFINE read == sub.read
             new == [read EXCEPT !.phase = "closed", !.reviews = @ \cup {read.revision}]
  <2>1. read \in Assignment /\ Counted(read, r)
    BY <1>0, <1>13 DEF CloseReview, Counted, Rounds, Pending
  <2>2. new \in Assignment /\ Counted(new, r)
    <3>1. read.reviews \cup {read.revision} \in SUBSET Round
      BY <2>1 DEF Assignment
    <3>2. new = [read EXCEPT !.phase = "closed", !.reviews = read.reviews \cup {read.revision}]
      BY <2>1 DEF Assignment
    <3> QED BY <2>1, <3>1, <3>2 DEF Assignment, Phase, Counted, Rounds, Pending
  <2>3. events' \subseteq Event
    BY <1>13 DEF CloseReview, RowShape, Event
  <2>4. assignment' = [assignment EXCEPT ![r] = new]
    BY <1>13 DEF CloseReview
  <2> HIDE DEF new
  <2> QED BY <1>1, <1>2, <1>3, <1>5, <1>13, <2>2, <2>3, <2>4 DEF CloseReview
<1> QED BY <1>6, <1>7, <1>8, <1>9, <1>10, <1>11, <1>12, <1>13 DEF DeskStep

\* The steps of operators, people and failures.
LEMMA OtherShape ==
    ASSUME ShapeInv,
           \/ \E c \in Callers : Resume(c) \/ Interrupt(c)
           \/ \E r \in Repos :
                 \/ DropSubmission(r) \/ Merge(r) \/ Observe(r)
                 \/ \E t \in WorkerTask : WorkerReports(r, t)
           \/ \E rerun \in BOOLEAN : Redispatch(rerun)
           \/ OperatorStep
           \/ AppendBatch
    PROVE  ShapeInv'
<1> USE DEF ShapeInv
<1>1. disturbances \in Nat /\ (disturbances < MaxDisturbances => disturbances + 1 \in 0 .. MaxDisturbances)
  BY DEF RowShape
\* As long as no reset of an assignment is announced without a disturbance, none is
\* past its rounds.
<1>0. ASSUME \/ UNCHANGED operator /\ disturbances' \in {disturbances, disturbances + 1}
             \/ UNCHANGED disturbances /\ \A r \in Repos : Pending(r)' => Pending(r)
             \/ disturbances' = disturbances + 1,
             NEW a, NEW r \in Repos, Counted(a, r)
      PROVE  a \in Assignment /\ a.revision <= Rounds(r)'
  <2>1. a.revision \in Nat
    BY <1>0 DEF Counted, Assignment, Round
  <2>2. UNCHANGED operator => Pending(r)' = Pending(r)
    BY DEF Pending
  <2> QED BY <1>0, <1>1, <2>1, <2>2 DEF Counted, Rounds
<1>2. ASSUME UNCHANGED caller,
             \/ UNCHANGED operator /\ disturbances' \in {disturbances, disturbances + 1}
             \/ UNCHANGED disturbances /\ \A r \in Repos : Pending(r)' => Pending(r)
             \/ disturbances' = disturbances + 1
      PROVE  CallShape'
  BY <1>0, <1>2 DEF CallShape, Counted
<1>3. ASSUME UNCHANGED desk,
             \/ UNCHANGED operator /\ disturbances' \in {disturbances, disturbances + 1}
             \/ UNCHANGED disturbances /\ \A r \in Repos : Pending(r)' => Pending(r)
             \/ disturbances' = disturbances + 1
      PROVE  DeskShape'
  BY <1>0, <1>3 DEF DeskShape, Counted
\* What of RowShape is about assignments.
<1>31. ASSUME UNCHANGED <<assignment, operator>>, disturbances' \in {disturbances, disturbances + 1}
       PROVE  \A r \in Repos :
                /\ Counted(assignment[r], r)'
                /\ (Pending(r) => disturbances # 0)'
                /\ (operator.held[r] # None => Counted(operator.held[r], r))'
  <2> SUFFICES ASSUME NEW r \in Repos
               PROVE  /\ Counted(assignment[r], r)'
                      /\ (Pending(r) => disturbances # 0)'
                      /\ (operator.held[r] # None => Counted(operator.held[r], r))'
    OBVIOUS
  <2>1. Pending(r)' = Pending(r) /\ (Pending(r) => disturbances # 0)
    BY <1>31 DEF Pending, RowShape
  <2>2. Pending(r)' => disturbances' # 0
    BY <1>1, <1>31, <2>1
  <2>3. \A a : Counted(a, r) => a \in Assignment /\ a.revision <= Rounds(r)'
    BY <1>0, <1>31
  <2>4. Counted(assignment[r], r)'
    BY <1>31, <2>3 DEF RowShape, Counted
  <2>5. (operator.held[r] # None => Counted(operator.held[r], r))'
    BY <1>31, <2>3 DEF RowShape, Counted
  <2> QED BY <2>2, <2>4, <2>5
<1>4. ASSUME NEW c \in Callers, NEW call, GoodCall(call), call.pc # "open",
             caller' = [caller EXCEPT ![c] = call], UNCHANGED operator,
             disturbances' \in {disturbances, disturbances + 1}
      PROVE  CallShape'
  BY <1>0, <1>4 DEF CallShape, GoodCall, Counted
<1>5. ASSUME NEW c \in Callers, Resume(c) PROVE ShapeInv'
  <2> DEFINE call == [IdleCall EXCEPT !.pc = "assign", !.index = plan.index,
                                      !.todo = Batches[plan.index]]
  <2>1. plan.index \in DOMAIN Batches /\ Batches[plan.index] \in SUBSET Repos
    BY DEF RowShape
  <2>2. call \in Call /\ call.pc = "assign"
    BY <2>1, IdleShape DEF Call, AfterRead, IdleCall
  <2>3. GoodCall(call)
    BY <2>2 DEF GoodCall
  <2>4. /\ caller' = [caller EXCEPT ![c] = call] /\ UNCHANGED operator
        /\ disturbances' = disturbances + 1
    BY <1>5 DEF Resume, Goto
  <2> HIDE DEF call
  <2>5. CallShape'
    BY <1>4, <2>2, <2>3, <2>4
  <2>6. RowShape' /\ DeskShape'
    BY <1>1, <1>3, <1>31, <1>5 DEF Resume, RowShape, rows, delivery
  <2> QED BY <2>5, <2>6
<1>6. ASSUME NEW c \in Callers, Interrupt(c) PROVE ShapeInv'
  <2>1. CallShape' /\ DeskShape'
    BY <1>3, <1>4, <1>6, IdleShape DEF Interrupt, Return, Goto, GoodCall
  <2>2. events' \subseteq Event
    BY <1>6 DEF Interrupt, RowShape, CallShape, Call
  <2>3. RowShape'
    BY <1>1, <1>31, <1>6, <2>2 DEF Interrupt, RowShape, rows, delivery
  <2> QED BY <2>1, <2>3
<1>7. ASSUME NEW r \in Repos, DropSubmission(r) PROVE ShapeInv'
  <2>0. IdleDesk \in Submission /\ IdleDesk.pc = "idle"
    BY IdleShape DEF IdleDesk
  <2>1. desk' = [desk EXCEPT ![r] = IdleDesk] /\ disturbances' = disturbances + 1
        /\ UNCHANGED <<rows, delivery, events, caller, operator>> /\ disturbances < MaxDisturbances
    BY <1>7 DEF DropSubmission, Desk
  <2>2. DeskShape'
    BY <1>0, <2>0, <2>1 DEF DeskShape, Counted, Rounds, Pending
  <2> QED BY <1>1, <1>2, <1>31, <2>1, <2>2 DEF RowShape, rows, delivery
<1>8. ASSUME NEW r \in Repos, Merge(r) PROVE ShapeInv'
  <2>1. CallShape' /\ DeskShape'
    BY <1>2, <1>3, <1>8 DEF Merge
  <2>2. events' \subseteq Event
    BY <1>8 DEF Merge, RowShape, Event
  <2> QED BY <1>8, <2>1, <2>2 DEF Merge, RowShape, rows, Counted, Rounds, Pending
<1>9. ASSUME NEW r \in Repos, Observe(r) PROVE ShapeInv'
  <2>1. CallShape' /\ DeskShape'
    BY <1>2, <1>3, <1>9 DEF Observe
  <2>2. events' \subseteq Event
    BY <1>9 DEF Observe, RowShape, Event
  <2> QED BY <1>1, <1>31, <1>9, <2>1, <2>2 DEF Observe, RowShape, rows, delivery
<1>10. ASSUME NEW r \in Repos, NEW t \in WorkerTask, NEW s \in TaskStatus, NEW tests \in BOOLEAN,
              Report(r, t, s, tests)
       PROVE  ShapeInv'
  <2>1. worker' \in [Repos -> [WorkerTask -> TaskStatus]]
    <3>1. [worker[r] EXCEPT ![t] = s] \in [WorkerTask -> TaskStatus]
      BY DEF RowShape
    <3> QED BY <1>10, <3>1 DEF Report, RowShape
  <2>2. tested' \subseteq Repos \X WorkerTask /\ events' \subseteq Event
    BY <1>10 DEF Report, RowShape, Event
  <2>3. CallShape' /\ DeskShape'
    BY <1>2, <1>3, <1>10 DEF Report
  <2> QED BY <1>10, <2>1, <2>2, <2>3 DEF Report, RowShape, Counted, Rounds, Pending
<1>11. ASSUME NEW rerun \in BOOLEAN, Redispatch(rerun) PROVE ShapeInv'
  <2> DEFINE Entries == [repo : Repos, task : WorkerTask \cup {LeaderTask}, redo : BOOLEAN]
             listed == {Entry(x[1], x[2], RowOf(x[1], x[2]) \in Final) : x \in RoundTasks}
  <2>1. listed \in SUBSET Entries
    <3>1. Recorded \subseteq Repos
      BY DEF Recorded, RowShape
    <3>2. RoundTasks \subseteq Repos \X (WorkerTask \cup {LeaderTask})
      BY <3>1 DEF RoundTasks
    <3>3. \A x \in RoundTasks : Entry(x[1], x[2], RowOf(x[1], x[2]) \in Final) \in Entries
      BY <3>2 DEF Entry
    <3> QED BY <3>3
  <2>2. operator' \in Dispatch /\ operator'.held = operator.held
    <3> DEFINE tasks == IF rerun THEN listed ELSE {x \in listed : ~x.redo}
               unread == IF rerun THEN {x.repo : x \in listed} ELSE {}
    <3>1. tasks \in SUBSET Entries /\ unread \in SUBSET Repos
      BY <2>1
    <3>2. operator' = [operator EXCEPT !.tasks = tasks, !.unread = unread]
      BY <1>11 DEF Redispatch
    <3> HIDE DEF tasks, unread
    <3> QED BY <3>1, <3>2 DEF RowShape, Dispatch
  <2>3. /\ disturbances < MaxDisturbances /\ disturbances' = disturbances + 1
        /\ UNCHANGED <<rows, delivery, events, caller, desk>>
    BY <1>11 DEF Redispatch
  <2>4. \A r \in Repos :
          /\ Counted(assignment[r], r)'
          /\ (operator.held[r] # None => Counted(operator.held[r], r))'
    BY <1>0, <2>2, <2>3 DEF RowShape, Counted, rows
  <2> QED BY <1>1, <1>2, <1>3, <2>2, <2>3, <2>4 DEF RowShape, rows, delivery
<1>16. ASSUME NEW r \in Repos, HoldRound(r) PROVE ShapeInv'
  <2>1. operator' \in Dispatch
    <3>1. assignment[r] \in Assignment
      BY DEF RowShape
    <3> QED BY <1>16, <3>1 DEF HoldRound, RowShape, Dispatch
  <2>2. /\ \A q \in Repos : Pending(q)' => Pending(q)
        /\ \A q \in Repos : operator'.held[q] \in {operator.held[q], assignment[q]}
    BY <1>16 DEF HoldRound, RowShape, Dispatch, Pending
  <2>3. UNCHANGED <<rows, delivery, events, caller, desk, disturbances>>
    BY <1>16 DEF HoldRound
  <2>4. \A q \in Repos :
          /\ Counted(assignment[q], q)'
          /\ (Pending(q) => disturbances # 0)'
          /\ (operator.held[q] # None => Counted(operator.held[q], q))'
    BY <1>0, <2>2, <2>3 DEF RowShape, Counted, rows
  <2> QED BY <1>2, <1>3, <2>1, <2>2, <2>3, <2>4 DEF RowShape, rows, delivery
<1>17. ASSUME NEW r \in Repos, ResetRound(r) PROVE ShapeInv'
  <2> DEFINE held == operator.held[r]
             new == [held EXCEPT !.phase = "executing", !.revision = held.revision + 1,
                                 !.evidence = {}]
  <2>1. /\ held # None /\ held \in Assignment /\ Counted(held, r) /\ Pending(r)
        /\ \/ operator' = IdleOperator /\ UNCHANGED assignment
           \/ /\ assignment' = [assignment EXCEPT ![r] = new]
              /\ operator' = [operator EXCEPT !.held[r] = None]
        /\ UNCHANGED <<plan, leader, worker, told, delivery, events, caller, desk, disturbances>>
    <3>1. held # None
      BY <1>17 DEF ResetRound
    <3>2. Counted(held, r) /\ Pending(r)
      BY <3>1 DEF RowShape, Pending
    <3>3. held \in Assignment
      BY <3>2 DEF Counted
    <3> QED BY <1>17, <3>1, <3>2, <3>3 DEF ResetRound, Assignment
  <2>2. /\ operator' \in Dispatch
        /\ \A q \in Repos : Pending(q)' => Pending(q)
        /\ \A q \in Repos : operator'.held[q] \in {operator.held[q], None}
        /\ ~UNCHANGED assignment => operator.unread = {} /\ operator'.unread = {}
                                    /\ operator'.held[r] = None
    <3>1. CASE operator' = IdleOperator /\ UNCHANGED assignment
      BY <3>1 DEF IdleOperator, Dispatch, Pending
    <3>2. CASE operator' = [operator EXCEPT !.held[r] = None]
      BY <1>17, <3>2 DEF ResetRound, RowShape, Dispatch, Pending
    <3> QED BY <2>1, <3>1, <3>2
  <2>3. \A q \in Repos :
          /\ (Pending(q) => disturbances # 0)'
          /\ (operator.held[q] # None => Counted(operator.held[q], q))'
    BY <1>0, <2>1, <2>2 DEF RowShape, Counted
  <2>4. \A q \in Repos : Counted(assignment[q], q)'
    <3>1. CASE UNCHANGED assignment
      BY <1>0, <2>1, <2>2, <3>1 DEF RowShape, Counted
    <3>2. CASE ~UNCHANGED assignment
      <4>1. Rounds(r)' = Rounds(r) + 1
        BY <1>1, <2>1, <2>2, <3>2 DEF Rounds, Pending
      <4>2. held.revision \in Nat /\ held.revision + 1 <= Rounds(r)'
        BY <1>1, <2>1, <4>1 DEF Counted, Rounds, Assignment, Round
      <4>3. held.revision + 1 \in Round
        <5>1. Rounds(r)' <= MaxReworks + MaxDisturbances + 1 /\ Rounds(r)' \in Nat
          BY <2>1 DEF Rounds, RowShape
        <5>2. \A n \in Nat : n + 1 <= Rounds(r)' => n + 1 \in Round
          BY <5>1 DEF Round
        <5> QED BY <4>2, <5>2
      <4>4. new \in Assignment /\ new.revision = held.revision + 1
        BY <2>1, <4>3 DEF Assignment, Phase
      <4>5. assignment' = [assignment EXCEPT ![r] = new]
        BY <2>1, <3>2
      <4> HIDE DEF new
      <4> QED BY <1>0, <2>1, <2>2, <4>2, <4>4, <4>5 DEF RowShape, Counted
    <3> QED BY <3>1, <3>2
  <2>5. assignment' \in [Repos -> Assignment]
    <3>1. \A q \in Repos : assignment'[q] \in Assignment
      BY <2>4 DEF Counted
    <3>2. assignment' = [q \in Repos |-> assignment'[q]]
      BY <2>1 DEF RowShape
    <3> QED BY <3>1, <3>2
  <2> QED BY <1>2, <1>3, <2>1, <2>2, <2>3, <2>4, <2>5 DEF RowShape, delivery
<1>12. CASE RedispatchTask
  <2>1. PICK x \in operator.tasks :
          /\ operator' \in {IdleOperator, [operator EXCEPT !.tasks = @ \ {x}]}
          /\ \/ SetLeader(x.repo, "assigned") /\ UNCHANGED <<worker, told>>
             \/ UNCHANGED <<leader, caller, worker, told>>
             \/ /\ x.task # LeaderTask
                /\ \/ worker' = [worker EXCEPT ![x.repo][x.task] = "assigned"]
                   \/ UNCHANGED worker
                /\ \/ told' = [told EXCEPT ![x.repo] = @ \cup {x.task}]
                   \/ UNCHANGED told
                /\ UNCHANGED <<leader, caller>>
    BY <1>12 DEF RedispatchTask
  <2>2. x.repo \in Repos /\ (x.task # LeaderTask => x.task \in WorkerTask)
    BY DEF RowShape, Dispatch
  <2>3. UNCHANGED <<plan, assignment, delivery, events, desk, disturbances>>
    BY <1>12 DEF RedispatchTask
  <2>4. worker' \in [Repos -> [WorkerTask -> TaskStatus]] /\ told' \in [Repos -> SUBSET WorkerTask]
    <3>1. CASE UNCHANGED <<worker, told>>
      BY <3>1 DEF RowShape
    <3>2. CASE x.task # LeaderTask
      <4>1. [worker[x.repo] EXCEPT ![x.task] = "assigned"] \in [WorkerTask -> TaskStatus]
        BY <2>2, <3>2 DEF RowShape, TaskStatus
      <4>2. told[x.repo] \cup {x.task} \in SUBSET WorkerTask
        BY <2>2, <3>2 DEF RowShape
      <4>3. worker' \in {worker, [worker EXCEPT ![x.repo][x.task] = "assigned"]}
        BY <2>1
      <4>4. told' \in {told, [told EXCEPT ![x.repo] = @ \cup {x.task}]}
        BY <2>1
      <4>5. [worker EXCEPT ![x.repo][x.task] = "assigned"] \in [Repos -> [WorkerTask -> TaskStatus]]
        BY <2>2, <4>1 DEF RowShape
      <4>6. [told EXCEPT ![x.repo] = @ \cup {x.task}] \in [Repos -> SUBSET WorkerTask]
        BY <2>2, <4>2 DEF RowShape
      <4> QED BY <4>3, <4>4, <4>5, <4>6 DEF RowShape
    <3> QED BY <2>1, <3>1, <3>2
  <2>5. /\ operator' \in Dispatch
        /\ \A r \in Repos : Pending(r)' => Pending(r)
        /\ \A r \in Repos : operator'.held[r] \in {operator.held[r], None}
    <3>1. CASE operator' = IdleOperator
      BY <3>1 DEF IdleOperator, Dispatch, Pending
    <3>2. CASE operator' = [operator EXCEPT !.tasks = @ \ {x}]
      BY <3>2 DEF RowShape, Dispatch, Pending
    <3> QED BY <2>1, <3>1, <3>2
  <2>6. leader' \in [Repos -> TaskStatus] /\ CallShape'
    <3>1. CASE UNCHANGED <<leader, caller>>
      BY <1>2, <2>3, <2>5, <3>1 DEF RowShape
    <3>2. CASE SetLeader(x.repo, "assigned")
      <4>1. leader' \in [Repos -> TaskStatus]
        BY <2>2, <3>2 DEF SetLeader, RowShape, TaskStatus
      <4>2. caller' = [d \in Callers |-> OverLeader(caller[d], x.repo)]
        BY <3>2 DEF SetLeader
      <4>3. \A d \in Callers : Alike(caller'[d], caller[d])
        BY <4>2, OvertakenLeader DEF CallShape
      <4>4. caller' \in [Callers -> Call]
        BY <4>2, <4>3 DEF Alike
      <4>5. ASSUME NEW d \in Callers, caller'[d].pc = "open"
            PROVE  Counted(caller[d].read, caller[d].repo) /\ caller[d].repo \in Repos
        BY <4>3, <4>5 DEF CallShape, Alike
      <4>6. ASSUME NEW d \in Callers, caller'[d].pc = "open"
            PROVE  Counted(caller[d].read, caller[d].repo)'
        BY <1>0, <2>3, <2>5, <4>3, <4>5, <4>6 DEF Alike, Counted
      <4> QED BY <4>1, <4>3, <4>4, <4>6 DEF CallShape, Alike
    <3> QED BY <2>1, <3>1, <3>2
  <2>7. \A r \in Repos :
          /\ Counted(assignment[r], r)'
          /\ (Pending(r) => disturbances # 0)'
          /\ (operator.held[r] # None => Counted(operator.held[r], r))'
    BY <1>0, <2>3, <2>5 DEF RowShape, Counted
  <2> QED BY <1>3, <2>3, <2>4, <2>5, <2>6, <2>7 DEF RowShape, delivery
<1>13. CASE AppendBatch
  <2>1. plan.planned + 1 \in DOMAIN Batches
    BY <1>13 DEF AppendBatch, RowShape
  <2>2. caller' = [d \in Callers |-> OverPlan(caller[d])]
    BY <1>13 DEF AppendBatch
  <2>3. \A d \in Callers : Alike(caller'[d], caller[d])
    BY <2>2, OvertakenPlan DEF CallShape
  <2>4. caller' \in [Callers -> Call]
    BY <2>2, <2>3 DEF Alike
  <2>5. CallShape'
    BY <1>13, <2>3, <2>4 DEF CallShape, Alike, Counted, Rounds, Pending, AppendBatch
  <2>6. DeskShape'
    BY <1>3, <1>13 DEF AppendBatch
  <2>7. RowShape'
    <3> DEFINE new == [plan EXCEPT !.planned = plan.planned + 1, !.refused = FALSE]
    <3>1. plan.index <= plan.planned + 1
      BY DEF RowShape
    <3>2. /\ new \in [status : {"absent", "in_progress", "failed", "completed"},
                      index : DOMAIN Batches, planned : DOMAIN Batches,
                      staffed : SUBSET DOMAIN Batches, refused : BOOLEAN]
          /\ new.index <= new.planned
      BY <2>1, <3>1 DEF RowShape
    <3>3. plan' = new
      BY <1>13 DEF AppendBatch, RowShape
    <3> HIDE DEF new
    <3> QED BY <1>13, <3>2, <3>3 DEF AppendBatch, RowShape, delivery, Counted, Rounds, Pending
  <2> QED BY <2>5, <2>6, <2>7
<1>14. \A s \in {"succeeded", "failed", "blocked"} : s \in TaskStatus
  BY DEF TaskStatus
<1>15. ASSUME NEW r \in Repos, NEW t \in WorkerTask, WorkerReports(r, t) PROVE ShapeInv'
  BY <1>10, <1>14, <1>15 DEF WorkerReports
<1>18. CASE OperatorStep
  BY <1>12, <1>16, <1>17, <1>18 DEF OperatorStep
<1> QED BY <1>5, <1>6, <1>7, <1>8, <1>9, <1>11, <1>13, <1>15, <1>18

\* Every step keeps the shape.
LEMMA ShapeStep == ShapeInv /\ [Next]_vars => ShapeInv'
<1> SUFFICES ASSUME ShapeInv, [Next]_vars PROVE ShapeInv'
  OBVIOUS
<1>1. CASE UNCHANGED vars
  BY <1>1 DEF vars, rows, delivery, ShapeInv, RowShape, CallShape, DeskShape, Counted, Rounds, Pending
<1>2. ASSUME NEW c \in Callers, CallerStep(c) PROVE ShapeInv'
  <2>1. RowShape' /\ CallShape'
    BY <1>2, CallerShape
  <2>2. UNCHANGED <<desk, operator, disturbances>>
    BY <1>2 DEF CallerStep, TaskTerminal, ListWorkers, ReadLane, RollUp, OpenReview, FindPlan, Fail, Reconsider, Reopen,
                Ready, Deliver, ClearRefusal, Gate, Settle, Start, AssignLeader, RecordLeaders,
                Decompose, Park
  <2> QED BY <2>1, <2>2 DEF ShapeInv, DeskShape, Counted, Rounds, Pending
<1> QED BY <1>1, <1>2, DeskKeepsShape, OtherShape DEF Next

\* It holds at the start.
LEMMA InitShape == Init => ShapeInv
BY IdleShape DEF Init, ShapeInv, RowShape, CallShape, DeskShape, Counted, Rounds, Pending, Unparked, Assignment,
                 Phase, Round, TaskStatus, IdleCall, IdleDesk, IdleOperator, Dispatch

\* What the runs check as PlanTypeOK is part of it.
LEMMA ShapeIsType == ShapeInv => PlanTypeOK
BY DEF ShapeInv, RowShape, CallShape, DeskShape, PlanTypeOK, Call, Submission

-----------------------------------------------------------------------------
(* Calls that are not the one that moves. *)

\* What another call sees of a step: it stays where it is, and may be overtaken.
Onlooker(d) ==
    /\ Alike(caller'[d], caller[d])
    /\ caller'[d].fresh => caller[d].fresh
    /\ caller'[d].fresh /\ caller[d].pc \in AfterRead => plan' = plan \/ plan.status = "absent"

\* Neither the plan nor delivery goes back.
Forward == plan.index <= plan'.index /\ merged \subseteq merged'

\* A call in order stays in order while others go forward.
LEMMA OnlookerInStep ==
    ASSUME ShapeInv, ShapeInv', Forward, NEW d \in Callers, InStep(caller[d]), Onlooker(d)
    PROVE  InStep(caller[d])'
<1>1. caller[d] \in Call /\ caller'[d] \in Call
  BY DEF ShapeInv, CallShape
<1>2. plan.index \in DOMAIN Batches /\ plan'.index \in DOMAIN Batches
  BY DEF ShapeInv, RowShape
<1>3. \A r : Begun(r) => Begun(r)'
  BY <1>2 DEF Begun, Forward
<1>4. /\ caller'[d].pc = caller[d].pc /\ caller'[d].repo = caller[d].repo
      /\ caller'[d].event = caller[d].event /\ caller'[d].index = caller[d].index
      /\ caller'[d].todo = caller[d].todo
  BY DEF Onlooker, Alike
<1>5. /\ caller'[d].pc \notin {"idle", "assign", "expand"} => Begun(caller[d].repo)'
      /\ caller'[d].event # None => Begun(caller[d].event.repo)'
  BY <1>3, <1>4 DEF InStep, Begun
<1>6. /\ caller'[d].pc \in AfterRead => caller'[d].index <= plan'.index
      /\ caller'[d].pc \in {"assign", "expand"} => caller'[d].todo \subseteq Batches[caller'[d].index]
      /\ caller'[d].pc = "settle" /\ DeliveryGated => Batches[caller'[d].index] \subseteq merged'
      /\ caller'[d].pc \in {"deliver", "clear", "gate"} => DeliveryGated
  BY <1>1, <1>2, <1>4 DEF InStep, Forward, Call
<1>7. ASSUME caller'[d].pc \in AfterRead, caller'[d].fresh
      PROVE  /\ caller'[d].index = plan'.index
             /\ plan'.status = IF caller'[d].pc = "reopen" THEN "failed" ELSE "in_progress"
             /\ caller'[d].pc \in {"gate", "settle"} => ~plan'.refused
  BY <1>4, <1>7 DEF InStep, Onlooker
<1> QED BY <1>5, <1>6, <1>7 DEF InStep, Begun

\* A write to the leader task is not one to the plan.
LEMMA LeaderOnlooker ==
    ASSUME ShapeInv, NEW d \in Callers, NEW r, UNCHANGED plan,
           caller'[d] \in {caller[d], OverLeader(caller[d], r)}
    PROVE  Onlooker(d)
<1>1. caller[d] \in Call
  BY DEF ShapeInv, CallShape
<1>2. Alike(caller[d], caller[d]) /\ Alike(OverLeader(caller[d], r), caller[d])
  BY <1>1, OvertakenLeader DEF Alike
<1> QED BY <1>1, <1>2 DEF Onlooker, OverLeader, Call

\* A write to the plan overtakes every call that has read it.
LEMMA PlanOnlooker ==
    ASSUME ShapeInv, NEW d \in Callers, caller'[d] = OverPlan(caller[d])
    PROVE  Onlooker(d)
<1>1. caller[d] \in Call
  BY DEF ShapeInv, CallShape
<1>2. Alike(OverPlan(caller[d]), caller[d])
  BY <1>1, OvertakenPlan
<1> QED BY <1>1, <1>2 DEF Onlooker, OverPlan, Call, AfterRead, RollingUp

\* An update of the plan leaves the other calls as onlookers.
LEMMA UpdateOnlooker ==
    ASSUME ShapeInv, NEW c \in Callers, NEW new, NEW next, UpdatePlan(c, new, next)
    PROVE  \A d \in Callers \ {c} : Onlooker(d)
<1>1. ASSUME NEW d \in Callers \ {c}, ~caller[c].fresh PROVE Onlooker(d)
  <2>1. caller'[d] = caller[d] /\ plan' = plan
    BY <1>1 DEF UpdatePlan, Return, Goto, ShapeInv, CallShape
  <2> QED BY <2>1, LeaderOnlooker
<1>2. ASSUME NEW d \in Callers \ {c}, caller[c].fresh PROVE Onlooker(d)
  BY <1>2, PlanOnlooker DEF UpdatePlan
<1> QED BY <1>1, <1>2

\* So does a step that writes no plan, or the first plan.
LEMMA GotoOnlooker ==
    ASSUME ShapeInv, NEW c \in Callers, NEW call, Goto(c, call),
           plan' = plan \/ plan.status = "absent"
    PROVE  \A d \in Callers \ {c} : Onlooker(d)
<1> SUFFICES ASSUME NEW d \in Callers \ {c} PROVE Onlooker(d)
  OBVIOUS
<1>1. caller'[d] = caller[d] /\ caller[d] \in Call
  BY DEF Goto, ShapeInv, CallShape
<1> QED BY <1>1 DEF Onlooker, Alike

\* A call that moves on leaves the others as onlookers.
LEMMA CallerOnlookers ==
    ASSUME ShapeInv, NEW c \in Callers, CallerStep(c)
    PROVE  \A d \in Callers \ {c} : Onlooker(d)
<1> DEFINE Others == \A d \in Callers \ {c} : Onlooker(d)
<1> SUFFICES Others
  OBVIOUS
<1> HIDE DEF Others
<1>0. ASSUME NEW call, Goto(c, call), UNCHANGED plan PROVE Others
  BY <1>0, GotoOnlooker DEF Others
<1>1. ASSUME NEW new, NEW next, UpdatePlan(c, new, next) PROVE Others
  BY <1>1, UpdateOnlooker DEF Others
<1>2. CASE TaskTerminal(c) \/ ListWorkers(c) \/ ReadLane(c)
  <2>1. CASE TaskTerminal(c)
    BY <1>0, <2>1 DEF TaskTerminal, rows
  <2>2. CASE ListWorkers(c)
    BY <1>0, <2>2 DEF ListWorkers, rows
  <2>3. CASE ReadLane(c)
    BY <1>0, <2>3 DEF ReadLane, rows
  <2> QED BY <1>2, <2>1, <2>2, <2>3
<1>3. CASE RollUp(c)
  <2>1. ASSUME NEW d \in Callers \ {c} PROVE Onlooker(d)
    <3>1. UNCHANGED plan /\ caller'[d] \in {caller[d], OverLeader(caller[d], caller[c].repo)}
      BY <1>3 DEF RollUp
    <3> QED BY <3>1, LeaderOnlooker
  <2> QED BY <2>1 DEF Others
<1>4. CASE OpenReview(c) \/ FindPlan(c) \/ Ready(c) \/ Gate(c) \/ Reconsider(c)
  BY <1>0, <1>4 DEF OpenReview, FindPlan, Ready, Gate, Reconsider, Return, rows
<1>5. CASE Fail(c) \/ Settle(c) \/ RecordLeaders(c)
  BY <1>1, <1>5 DEF Fail, Settle, RecordLeaders
<1>6. CASE Reopen(c) \/ Deliver(c) \/ ClearRefusal(c)
  BY <1>0, <1>1, <1>6 DEF Reopen, Deliver, ClearRefusal, Return
<1>7. CASE Start(c)
  BY <1>7, GotoOnlooker DEF Start, Others
<1>8. CASE AssignLeader(c)
  BY <1>0, <1>8 DEF AssignLeader
<1>9. CASE Decompose(c) \/ Park(c)
  <2>1. CASE UNCHANGED <<plan, caller>>
    <3>1. ASSUME NEW d \in Callers \ {c} PROVE Onlooker(d)
      BY <2>1, LeaderOnlooker
    <3> QED BY <3>1 DEF Others
  <2>2. ASSUME NEW r, Expanded(c, r), UNCHANGED plan PROVE Others
    BY <1>0, <2>2 DEF Expanded, Return
  <2> QED BY <1>9, <2>1, <2>2 DEF Decompose, Park
<1> QED BY <1>2, <1>3, <1>4, <1>5, <1>6, <1>7, <1>8, <1>9 DEF CallerStep

-----------------------------------------------------------------------------
(* The call that moves. *)

\* Forward steps take nothing back that was begun.
LEMMA ForwardBegun ==
    ASSUME ShapeInv, ShapeInv', Forward, NEW r, Begun(r) PROVE Begun(r)'
<1>1. plan.index \in DOMAIN Batches /\ plan'.index \in DOMAIN Batches
  BY DEF ShapeInv, RowShape
<1> QED BY <1>1 DEF Begun, Forward

\* The repositories of a batch that a call has reached were begun.
LEMMA BatchBegun ==
    ASSUME ShapeInv, NEW k \in DOMAIN Batches, k <= plan.index, NEW r \in Batches[k]
    PROVE  Begun(r)
<1>1. plan.index \in DOMAIN Batches
  BY DEF ShapeInv, RowShape
<1> QED BY <1>1 DEF Begun

\* Every repository has its batch.
LEMMA BatchOfRepo ==
    ASSUME NEW r \in Repos PROVE BatchOf(r) \in DOMAIN Batches /\ r \in Batches[BatchOf(r)]
BY DEF BatchOf

\* A roll-up keeps the call to its repository and event.
LEMMA RolledUpCall ==
    ASSUME NEW call \in Call, NEW seen
    PROVE  \/ RolledUp(call, seen) = IdleCall
           \/ /\ RolledUp(call, seen).pc = "rollup"
              /\ RolledUp(call, seen).repo = call.repo
              /\ RolledUp(call, seen).event = call.event
<1> DEFINE listed == {seen[t] : t \in Listed(seen)}
           verdict == IF "failed" \in listed THEN "failed" ELSE "succeeded"
           rolled == [call EXCEPT !.pc = "rollup", !.verdict = verdict]
<1>1. RolledUp(call, seen) \in {rolled, IdleCall}
  BY Zenon DEF RolledUp
<1>2. rolled.pc = "rollup" /\ rolled.repo = call.repo /\ rolled.event = call.event
  <2> HIDE DEF verdict
  <2> QED BY DEF Call
<1> HIDE DEF rolled
<1> QED BY <1>1, <1>2

\* A call that handles a result: the roll-up, the review it opens, the plan it finds.
LEMMA HandlingKeeps ==
    ASSUME IInv, ShapeInv', NEW c \in Callers,
           \/ TaskTerminal(c) \/ ListWorkers(c) \/ ReadLane(c) \/ RollUp(c) \/ OpenReview(c)
           \/ FindPlan(c) \/ Reconsider(c)
    PROVE  RowsBegun' /\ InStep(caller[c])' /\ UNCHANGED <<plan, merged>>
<1> DEFINE call == caller[c]
<1>0. ShapeInv /\ RowsBegun /\ InStep(call) /\ call \in Call
  BY DEF IInv, CallsInStep, ShapeInv, CallShape
<1>1. UNCHANGED <<plan, merged>>
  BY DEF TaskTerminal, ListWorkers, ReadLane, RollUp, OpenReview, FindPlan, Reconsider, rows,
         delivery
<1>2. \A r : Begun(r)' <=> Begun(r)
  BY <1>1 DEF Begun
<1>3. ASSUME caller'[c] = IdleCall PROVE InStep(caller[c])'
  BY <1>3 DEF InStep, IdleCall, AfterRead
<1>4. ASSUME caller'[c].pc \in RollingUp \cup {"find", "open"}, Begun(caller'[c].repo),
             caller'[c].event # None => Begun(caller'[c].event.repo)
      PROVE  InStep(caller[c])'
  BY <1>2, <1>4 DEF InStep, AfterRead, RollingUp, Begun
<1>5. ASSUME NEW pc \in {"ready", "reopen", "fail"}, NEW old \in Call,
             caller'[c] = HasRead(old, pc), Begun(old.repo),
             old.event # None => Begun(old.event.repo),
             plan.status = IF pc = "reopen" THEN "failed" ELSE "in_progress"
      PROVE  InStep(caller[c])'
  <2>1. /\ caller'[c].pc = pc /\ caller'[c].repo = old.repo /\ caller'[c].event = old.event
        /\ caller'[c].index = plan.index
    BY <1>5 DEF HasRead, Call
  <2>2. plan.index \in DOMAIN Batches
    BY <1>0 DEF ShapeInv, RowShape
  <2> QED BY <1>1, <1>2, <1>5, <2>1, <2>2 DEF InStep, AfterRead, Begun
<1>6. ASSUME UNCHANGED <<leader, assignment, told, desk, worker, published, operator>>,
             events' \subseteq events
      PROVE  RowsBegun'
  BY <1>0, <1>2, <1>6 DEF RowsBegun, Begun
<1>7. CASE TaskTerminal(c)
  <2>1. PICK e \in events :
          /\ events' = events \ {e}
          /\ \E pc \in {"list", "find"} :
                Goto(c, [IdleCall EXCEPT !.event = e, !.repo = e.repo,
                                         !.verdict = leader[e.repo], !.pc = pc])
    BY <1>7 DEF TaskTerminal
  <2>2. Begun(e.repo)
    BY <1>0 DEF RowsBegun
  <2>3. /\ caller'[c].pc \in RollingUp \cup {"find", "open"}
        /\ caller'[c].repo = e.repo /\ caller'[c].event = e
    BY <1>0, <2>1 DEF Goto, ShapeInv, CallShape, IdleCall, RollingUp
  <2>4. InStep(caller[c])'
    BY <1>4, <2>2, <2>3
  <2>5. RowsBegun'
    BY <1>6, <1>7, <2>1 DEF TaskTerminal, rows, delivery
  <2> QED BY <1>1, <2>4, <2>5
<1>12. CASE ListWorkers(c) \/ ReadLane(c)
  <2>1. /\ call.pc \in {"list", "lane"}
        /\ UNCHANGED <<rows, delivery, events, desk, operator, disturbances>>
    BY <1>12 DEF ListWorkers, ReadLane, At
  <2>2. Begun(call.repo) /\ (call.event # None => Begun(call.event.repo))
    BY <1>0, <2>1 DEF InStep
  <2>3. \/ caller'[c] = IdleCall
        \/ /\ caller'[c].pc \in RollingUp \cup {"find", "open"}
           /\ caller'[c].repo = call.repo /\ caller'[c].event = call.event
    <3>1. CASE ListWorkers(c)
      BY <1>0, <3>1 DEF ListWorkers, Goto, ShapeInv, CallShape, Call, RollingUp
    <3>2. CASE ReadLane(c)
      <4> DEFINE cleared == [call EXCEPT !.seen = NoWorkers]
                 park == [assignment[cleared.repo] EXCEPT !.phase = "review_due",
                                                          !.evidence = Listed(call.seen)]
                 open == [cleared EXCEPT !.pc = "open", !.read = park]
      <4>1. /\ cleared \in Call
            /\ cleared.repo = call.repo /\ cleared.event = call.event
        BY <1>0 DEF Call, NoWorkers, TaskStatus
      <4>2. open.pc = "open" /\ open.repo = call.repo /\ open.event = call.event
        BY <4>1 DEF Call
      <4>3. \/ Goto(c, RolledUp(cleared, call.seen)) \/ Goto(c, open) \/ Goto(c, IdleCall)
        BY <3>2, Zenon DEF ReadLane
      <4> HIDE DEF open, cleared
      <4>4. \/ caller'[c] = RolledUp(cleared, call.seen) \/ caller'[c] = open
            \/ caller'[c] = IdleCall
        BY <1>0, <4>3 DEF Goto, ShapeInv, CallShape
      <4> QED BY <4>1, <4>2, <4>4, RolledUpCall DEF RollingUp
    <3> QED BY <1>12, <3>1, <3>2
  <2>4. InStep(caller[c])'
    BY <1>3, <1>4, <2>2, <2>3
  <2>5. RowsBegun'
    BY <1>6, <2>1 DEF rows, delivery
  <2> QED BY <1>1, <2>4, <2>5
<1>8. CASE RollUp(c)
  <2> DEFINE status == IF call.fresh THEN call.verdict ELSE leader[call.repo]
             next == IF status \in Final
                     THEN [call EXCEPT !.pc = "find", !.verdict = status, !.fresh = TRUE]
                     ELSE IdleCall
  <2>1. Begun(call.repo) /\ (call.event # None => Begun(call.event.repo))
    BY <1>0, <1>8 DEF RollUp, At, InStep
  <2>2. caller'[c] = next
    BY <1>8 DEF RollUp
  <2>3. \/ caller'[c] = IdleCall
        \/ caller'[c].pc = "find" /\ caller'[c].repo = call.repo /\ caller'[c].event = call.event
    BY <1>0, <2>2 DEF Call
  <2>4. InStep(caller[c])'
    BY <1>3, <1>4, <2>1, <2>3 DEF RollingUp
  <2>5. leader' = [leader EXCEPT ![call.repo] = status]
        /\ UNCHANGED <<assignment, told, desk, worker, published, operator, events>>
    BY <1>8 DEF RollUp, delivery
  <2>6. ASSUME NEW r \in Repos, leader'[r] # "none" PROVE Begun(r)
    BY <1>0, <2>1, <2>5, <2>6 DEF ShapeInv, RowShape, RowsBegun
  <2>7. RowsBegun'
    BY <1>0, <1>2, <2>5, <2>6 DEF RowsBegun, Begun
  <2> QED BY <1>1, <2>4, <2>7
<1>9. CASE OpenReview(c)
  <2>1. Begun(call.repo) /\ caller'[c] = IdleCall
    BY <1>0, <1>9 DEF OpenReview, At, InStep, Return, Goto, ShapeInv, CallShape
  <2>2. assignment' = [assignment EXCEPT ![call.repo] = call.read]
        /\ UNCHANGED <<leader, told, desk, worker, published, operator, events>>
    BY <1>9 DEF OpenReview, delivery
  <2>3. ASSUME NEW r \in Repos, assignment'[r].phase # "none" PROVE Begun(r)
    BY <1>0, <2>1, <2>2, <2>3 DEF ShapeInv, RowShape, RowsBegun
  <2>4. RowsBegun'
    BY <1>0, <1>2, <2>2, <2>3 DEF RowsBegun, Begun
  <2> QED BY <1>1, <1>3, <2>1, <2>4
<1>10. CASE FindPlan(c)
  <2>1. Begun(call.repo) /\ (call.event # None => Begun(call.event.repo))
    BY <1>0, <1>10 DEF FindPlan, At, InStep
  <2>2. \/ caller'[c] = IdleCall
        \/ /\ plan.status = "in_progress"
           /\ \E pc \in {"ready", "fail"} : caller'[c] = HasRead(call, pc)
    BY <1>0, <1>10 DEF FindPlan, Return, Goto, ShapeInv, CallShape
  <2>3. InStep(caller[c])'
    BY <1>0, <1>3, <1>5, <2>1, <2>2
  <2> QED BY <1>1, <1>6, <1>10, <2>3 DEF FindPlan, rows, delivery
<1>11. CASE Reconsider(c)
  <2>1. PICK e \in events :
          /\ events' = events \ {e}
          /\ LET new == [IdleCall EXCEPT !.event = e, !.repo = e.repo]
             IN  \/ plan.status = "failed" /\ Goto(c, HasRead(new, "reopen"))
                 \/ plan.status = "in_progress" /\ Goto(c, HasRead(new, "ready"))
                 \/ Goto(c, IdleCall)
    BY <1>11 DEF Reconsider, Return
  <2> DEFINE new == [IdleCall EXCEPT !.event = e, !.repo = e.repo]
  <2>2. e \in Event /\ e.repo \in Repos /\ Begun(e.repo)
    BY <1>0 DEF Event, ShapeInv, RowShape, RowsBegun
  <2>3. new \in Call /\ new.repo = e.repo /\ new.event = e
    BY <2>2, IdleShape DEF Call, IdleCall
  <2>4. InStep(caller[c])'
    <3> HIDE DEF new
    <3>1. \/ plan.status = "failed" /\ caller'[c] = HasRead(new, "reopen")
          \/ plan.status = "in_progress" /\ caller'[c] = HasRead(new, "ready")
          \/ caller'[c] = IdleCall
      BY <1>0, <2>1 DEF Goto, ShapeInv, CallShape, new
    <3> QED BY <1>3, <1>5, <2>2, <2>3, <3>1
  <2>5. RowsBegun'
    BY <1>6, <1>11, <2>1 DEF Reconsider, rows, delivery
  <2> QED BY <1>1, <2>4, <2>5
<1> QED BY <1>7, <1>8, <1>9, <1>10, <1>11, <1>12

\* A call on its way through the end of a batch.
LEMMA AdvancingKeeps ==
    ASSUME IInv, ShapeInv', NEW c \in Callers,
           \/ Fail(c) \/ Reopen(c) \/ Ready(c) \/ Deliver(c) \/ ClearRefusal(c) \/ Gate(c)
           \/ Settle(c)
    PROVE  RowsBegun' /\ InStep(caller[c])' /\ PlanInv' /\ Forward
<1> DEFINE call == caller[c]
<1>0. ShapeInv /\ RowsBegun /\ InStep(call) /\ call \in Call /\ PlanInv
      /\ caller \in [Callers -> Call]
  BY DEF IInv, CallsInStep, ShapeInv, CallShape
<1>1. UNCHANGED <<leader, assignment, told, desk, worker, operator, events, merged>>
  BY DEF Fail, Reopen, Ready, Deliver, ClearRefusal, Gate, Settle, rows, delivery
<1>2. ASSUME caller'[c] = IdleCall PROVE InStep(caller[c])'
  BY <1>2 DEF InStep, IdleCall, AfterRead
<1>3. plan.index \in DOMAIN Batches /\ plan.planned \in DOMAIN Batches /\ plan.index <= plan.planned
      /\ call.index \in DOMAIN Batches
  BY <1>0 DEF ShapeInv, RowShape, Call
<1>4. ASSUME Forward, published' \subseteq published PROVE RowsBegun'
  <2>1. \A r : Begun(r) => Begun(r)'
    BY <1>0, <1>4, ForwardBegun
  <2> QED BY <1>0, <1>1, <1>4, <2>1 DEF RowsBegun, Begun
<1>5. ASSUME UNCHANGED plan PROVE PlanInv' /\ Forward
  BY <1>0, <1>1, <1>3, <1>5 DEF PlanInv, Forward, CompletedMeansDelivered
\* The call goes on to another point of the same batch, after a write to the plan that
\* keeps its index.
<1>6. ASSUME NEW pc \in {"ready", "deliver", "clear", "gate", "settle"},
             call.pc \in AfterRead \ {"assign", "expand"},
             caller'[c] = [call EXCEPT !.pc = pc],
             plan'.index = plan.index,
             pc = "settle" /\ DeliveryGated => Batches[call.index] \subseteq merged,
             pc \in {"deliver", "clear", "gate"} => DeliveryGated,
             call.fresh => plan'.status = "in_progress",
             pc \in {"gate", "settle"} /\ call.fresh => ~plan'.refused
      PROVE  InStep(caller[c])'
  <2>1. /\ caller'[c].pc = pc /\ caller'[c].repo = call.repo /\ caller'[c].event = call.event
        /\ caller'[c].index = call.index /\ caller'[c].fresh = call.fresh
        /\ caller'[c].todo = call.todo
    BY <1>0, <1>6 DEF Call
  <2>2. \A r : Begun(r) => Begun(r)'
    BY <1>6 DEF Begun
  <2>3. Begun(call.repo) /\ (call.event # None => Begun(call.event.repo))
    BY <1>0, <1>6 DEF InStep, AfterRead
  <2>4. (caller'[c].repo = call.repo => Begun(caller[c].repo)')
        /\ (caller'[c].event # None => Begun(caller[c].event.repo)')
    BY <2>1, <2>2, <2>3 DEF Begun
  <2>5. call.index <= plan.index /\ (call.fresh => call.index = plan.index)
    BY <1>0, <1>6 DEF InStep
  <2> QED BY <1>1, <1>6, <2>1, <2>4, <2>5 DEF InStep, AfterRead
<1>7. ASSUME ~call.fresh, NEW new, NEW next, UpdatePlan(c, new, next)
      PROVE  InStep(caller[c])' /\ UNCHANGED plan
  BY <1>0, <1>2, <1>7 DEF UpdatePlan, Return, Goto
<1>8. ASSUME call.fresh, NEW new, NEW next, UpdatePlan(c, new, next)
      PROVE  caller'[c] = next /\ plan' = new
  BY <1>8 DEF UpdatePlan
<1>9. call.fresh /\ call.pc \in AfterRead =>
        /\ call.index = plan.index
        /\ plan.status = IF call.pc = "reopen" THEN "failed" ELSE "in_progress"
        /\ call.pc \in {"gate", "settle"} => ~plan.refused
  BY <1>0 DEF InStep
<1>10. ASSUME NEW status \in {"failed", "in_progress"}, plan' = [plan EXCEPT !.status = status]
       PROVE  /\ PlanInv' /\ Forward /\ plan'.index = plan.index
              /\ plan'.status = status /\ plan'.refused = plan.refused
  <2>1. /\ plan'.status = status /\ plan'.index = plan.index /\ plan'.refused = plan.refused
    BY <1>0, <1>10 DEF ShapeInv, RowShape
  <2> QED BY <1>0, <1>1, <1>3, <2>1 DEF PlanInv, Forward, CompletedMeansDelivered
<1>11. ASSUME NEW refused \in BOOLEAN, refused => DeliveryGated, plan.status # "completed",
              plan' = [plan EXCEPT !.refused = refused]
       PROVE  /\ PlanInv' /\ Forward /\ plan'.index = plan.index
              /\ plan'.status = plan.status /\ plan'.refused = refused
  <2>1. /\ plan'.status = plan.status /\ plan'.index = plan.index /\ plan'.refused = refused
    BY <1>0, <1>11 DEF ShapeInv, RowShape
  <2> QED BY <1>0, <1>1, <1>3, <1>11, <2>1 DEF PlanInv, Forward, CompletedMeansDelivered
<1>12. CASE Fail(c)
  <2>1. UpdatePlan(c, [plan EXCEPT !.status = "failed"], IdleCall) /\ UNCHANGED published
    BY <1>12 DEF Fail, delivery
  <2>2. CASE ~call.fresh
    BY <1>4, <1>5, <1>7, <2>1, <2>2
  <2>3. CASE call.fresh
    BY <1>2, <1>4, <1>8, <1>10, <2>1, <2>3
  <2> QED BY <2>2, <2>3
<1>13. CASE Reopen(c)
  <2>1. call.pc = "reopen" /\ UNCHANGED published
    BY <1>13 DEF Reopen, At, delivery
  <2>2. CASE Return(c) /\ UNCHANGED plan
    BY <1>0, <1>2, <1>4, <1>5, <2>1, <2>2 DEF Return, Goto
  <2>3. CASE UpdatePlan(c, [plan EXCEPT !.status = "in_progress"], [call EXCEPT !.pc = "ready"])
    <3>1. CASE ~call.fresh
      BY <1>4, <1>5, <1>7, <2>1, <2>3, <3>1
    <3>2. CASE call.fresh
      <4>1. caller'[c] = [call EXCEPT !.pc = "ready"]
            /\ plan' = [plan EXCEPT !.status = "in_progress"]
        BY <1>8, <2>3, <3>2
      <4>2. PlanInv' /\ Forward /\ plan'.index = plan.index /\ plan'.status = "in_progress"
        BY <1>10, <4>1
      <4>3. InStep(caller[c])'
        BY <1>6, <2>1, <4>1, <4>2 DEF AfterRead
      <4> QED BY <1>4, <2>1, <4>2, <4>3
    <3> QED BY <3>1, <3>2
  <2> QED BY <1>13, <2>2, <2>3 DEF Reopen
<1>14. CASE Ready(c)
  <2>1. call.pc = "ready" /\ UNCHANGED <<plan, published>>
    BY <1>14 DEF Ready, At, rows, delivery
  <2>2. \/ caller'[c] = IdleCall
        \/ caller'[c] = [call EXCEPT !.pc = "deliver"] /\ DeliveryGated
        \/ caller'[c] = [call EXCEPT !.pc = "settle"] /\ ~DeliveryGated
    BY <1>0, <1>14 DEF Ready, Return, Goto
  <2>3. call.fresh => plan'.status = "in_progress"
    BY <1>9, <2>1 DEF AfterRead
  <2>4. ~DeliveryGated => ~plan'.refused
    BY <1>0, <2>1 DEF PlanInv
  <2>5. InStep(caller[c])'
    BY <1>2, <1>6, <2>1, <2>2, <2>3, <2>4 DEF AfterRead
  <2> QED BY <1>4, <1>5, <2>1, <2>5
<1>15. CASE Deliver(c)
  <2>1. call.pc = "deliver" /\ call.index <= plan.index /\ DeliveryGated
    BY <1>0, <1>15 DEF Deliver, At, InStep, AfterRead
  <2>2. \A r \in published' : Begun(r)
    BY <1>0, <1>3, <1>15, <2>1, BatchBegun DEF Deliver, RowsBegun
  <2>3. ASSUME Forward PROVE RowsBegun'
    <3>1. \A r : Begun(r) => Begun(r)'
      BY <1>0, <2>3, ForwardBegun
    <3> QED BY <1>0, <1>1, <2>2, <3>1 DEF RowsBegun, Begun
  <2>4. CASE Goto(c, [call EXCEPT !.pc = "clear"]) /\ UNCHANGED plan
    <3>1. caller'[c] = [call EXCEPT !.pc = "clear"]
      BY <1>0, <2>4 DEF Goto
    <3>2. call.fresh => plan'.status = "in_progress"
      BY <1>9, <2>1, <2>4 DEF AfterRead
    <3>3. InStep(caller[c])'
      BY <1>6, <2>1, <2>4, <3>1, <3>2 DEF AfterRead
    <3> QED BY <1>5, <2>3, <2>4, <3>3
  <2>5. CASE Return(c) /\ UNCHANGED plan
    BY <1>0, <1>2, <1>5, <2>3, <2>5 DEF Return, Goto
  <2>6. CASE UpdatePlan(c, [plan EXCEPT !.refused = TRUE], IdleCall)
    <3>1. CASE ~call.fresh
      BY <1>5, <1>7, <2>3, <2>6, <3>1
    <3>2. CASE call.fresh
      <4>1. plan.status # "completed"
        BY <1>9, <2>1, <3>2 DEF AfterRead
      <4> QED BY <1>2, <1>8, <1>11, <2>1, <2>3, <2>6, <3>2, <4>1
    <3> QED BY <3>1, <3>2
  <2> QED BY <1>15, <2>4, <2>5, <2>6 DEF Deliver
<1>16. CASE ClearRefusal(c)
  <2>1. call.pc = "clear" /\ DeliveryGated /\ UNCHANGED published
    BY <1>0, <1>16 DEF ClearRefusal, At, InStep, delivery
  <2>2. CASE call.fresh /\ ~plan.refused /\ Goto(c, [call EXCEPT !.pc = "gate"]) /\ UNCHANGED plan
    <3>1. caller'[c] = [call EXCEPT !.pc = "gate"]
      BY <1>0, <2>2 DEF Goto
    <3>2. plan'.status = "in_progress" /\ ~plan'.refused /\ plan'.index = plan.index
      BY <1>9, <2>1, <2>2 DEF AfterRead
    <3>3. InStep(caller[c])'
      BY <1>6, <2>1, <3>1, <3>2 DEF AfterRead
    <3> QED BY <1>4, <1>5, <2>1, <2>2, <3>3
  <2>3. CASE UpdatePlan(c, [plan EXCEPT !.refused = FALSE], [call EXCEPT !.pc = "gate"])
    <3>1. CASE ~call.fresh
      BY <1>4, <1>5, <1>7, <2>1, <2>3, <3>1
    <3>2. CASE call.fresh
      <4>1. caller'[c] = [call EXCEPT !.pc = "gate"] /\ plan' = [plan EXCEPT !.refused = FALSE]
        BY <1>8, <2>3, <3>2
      <4>2. plan.status = "in_progress"
        BY <1>9, <2>1, <3>2 DEF AfterRead
      <4>3. PlanInv' /\ Forward /\ plan'.index = plan.index
            /\ plan'.status = plan.status /\ plan'.refused = FALSE
        BY <1>11, <4>1, <4>2
      <4>4. InStep(caller[c])'
        BY <1>6, <2>1, <4>1, <4>2, <4>3 DEF AfterRead
      <4> QED BY <1>4, <2>1, <4>3, <4>4
    <3> QED BY <3>1, <3>2
  <2> QED BY <1>16, <2>2, <2>3 DEF ClearRefusal
<1>17. CASE Gate(c)
  <2>1. call.pc = "gate" /\ UNCHANGED <<plan, published>>
    BY <1>17 DEF Gate, At, rows, delivery
  <2>2. \/ caller'[c] = IdleCall
        \/ caller'[c] = [call EXCEPT !.pc = "settle"] /\ Batches[call.index] \subseteq merged
    BY <1>0, <1>17 DEF Gate, Return, Goto
  <2>3. call.fresh => plan'.status = "in_progress" /\ ~plan'.refused
    BY <1>9, <2>1 DEF AfterRead
  <2>4. InStep(caller[c])'
    BY <1>2, <1>6, <2>1, <2>2, <2>3 DEF AfterRead
  <2> QED BY <1>4, <1>5, <2>1, <2>4
<1>18. CASE Settle(c)
  <2>1. call.pc = "settle" /\ UNCHANGED published
    BY <1>18 DEF Settle, At, delivery
  <2> DEFINE succ == plan.index + 1
             next == [call EXCEPT !.pc = "assign", !.index = succ, !.todo = Batches[succ]]
  <2>2. CASE ~call.fresh
    BY <1>4, <1>5, <1>7, <1>18, <2>1, <2>2 DEF Settle
  <2>3. CASE call.fresh
    <3>1. plan.status = "in_progress" /\ ~plan.refused /\ call.index = plan.index
      BY <1>9, <2>1, <2>3 DEF AfterRead
    <3>2. DeliveryGated => \A j \in DOMAIN Batches : j <= plan.index => Batches[j] \subseteq merged
      BY <1>0, <1>3, <2>1, <3>1 DEF PlanInv, InStep
    <3>3. CASE plan.index = plan.planned
      <4>1. caller'[c] = IdleCall /\ plan' = [plan EXCEPT !.status = "completed"]
        BY <1>8, <1>18, <2>3, <3>3 DEF Settle
      <4>2. /\ plan'.index = plan.index /\ plan'.planned = plan.planned
            /\ plan'.status = "completed" /\ plan'.refused = plan.refused
        BY <1>0, <4>1 DEF ShapeInv, RowShape
      <4>3. PlanInv' /\ Forward
        BY <1>1, <1>3, <3>1, <3>2, <3>3, <4>2 DEF PlanInv, Forward, CompletedMeansDelivered
      <4> QED BY <1>2, <1>4, <2>1, <4>1, <4>3
    <3>4. CASE plan.index # plan.planned
      <4>1. caller'[c] = next /\ plan' = [plan EXCEPT !.index = succ]
        BY <1>8, <1>18, <2>3, <3>4 DEF Settle
      <4>2. /\ plan'.index = succ /\ plan'.planned = plan.planned
            /\ plan'.status = "in_progress" /\ plan'.refused = plan.refused
        BY <1>0, <3>1, <4>1 DEF ShapeInv, RowShape
      <4>3. PlanInv' /\ Forward
        BY <1>0, <1>1, <1>3, <3>2, <4>2 DEF PlanInv, Forward, CompletedMeansDelivered
      <4>4. /\ caller'[c].pc = "assign" /\ caller'[c].index = succ
            /\ caller'[c].todo = Batches[succ] /\ caller'[c].event = call.event
        BY <1>0, <4>1 DEF Call
      <4>5. caller'[c].event # None => Begun(caller[c].event.repo)'
        <5>1. \A r : Begun(r) => Begun(r)'
          BY <1>0, <4>3, ForwardBegun
        <5> QED BY <1>0, <4>4, <5>1 DEF InStep, Begun
      <4>6. InStep(caller[c])'
        BY <1>3, <4>2, <4>4, <4>5 DEF InStep, AfterRead, Begun
      <4> QED BY <1>4, <2>1, <4>3, <4>6
    <3> QED BY <3>3, <3>4
  <2> QED BY <2>2, <2>3
<1> QED BY <1>12, <1>13, <1>14, <1>15, <1>16, <1>17, <1>18

\* A call that starts a batch.
LEMMA StartingKeeps ==
    ASSUME IInv, ShapeInv', NEW c \in Callers,
           Start(c) \/ AssignLeader(c) \/ RecordLeaders(c) \/ Decompose(c) \/ Park(c)
    PROVE  RowsBegun' /\ InStep(caller[c])' /\ PlanInv' /\ Forward
<1> DEFINE call == caller[c]
<1>0. ShapeInv /\ RowsBegun /\ InStep(call) /\ call \in Call /\ PlanInv
      /\ caller \in [Callers -> Call] /\ ShapeInv'
  BY DEF IInv, CallsInStep, ShapeInv, CallShape
<1>1. UNCHANGED <<desk, published, operator, events, merged>> /\ plan'.index = plan.index
      /\ plan'.planned = plan.planned
  BY <1>0 DEF Start, AssignLeader, RecordLeaders, Decompose, Park, UpdatePlan, delivery,
              ShapeInv, RowShape
<1>2. plan.index \in DOMAIN Batches /\ plan.planned \in DOMAIN Batches
      /\ call.index \in DOMAIN Batches /\ call.todo \subseteq Repos
  BY <1>0 DEF ShapeInv, RowShape, Call
<1>3. Forward /\ \A r : Begun(r)' <=> Begun(r)
  BY <1>1, <1>2 DEF Forward, Begun
<1>4. ASSUME UNCHANGED plan PROVE PlanInv'
  BY <1>0, <1>1, <1>4 DEF PlanInv, CompletedMeansDelivered
<1>5. ASSUME caller'[c] = IdleCall PROVE InStep(caller[c])'
  BY <1>5 DEF InStep, IdleCall, AfterRead
<1>6. ASSUME UNCHANGED <<leader, worker, told, assignment>> PROVE RowsBegun'
  BY <1>0, <1>1, <1>3, <1>6 DEF RowsBegun, Begun
<1>7. ASSUME call.pc \in {"assign", "expand"}, NEW todo \in SUBSET call.todo, UNCHANGED plan,
             caller'[c] = [call EXCEPT !.todo = todo]
      PROVE  InStep(caller[c])'
  <2>1. /\ caller'[c].pc = call.pc /\ caller'[c].event = call.event
        /\ caller'[c].index = call.index /\ caller'[c].fresh = call.fresh
        /\ caller'[c].todo = todo
    BY <1>0, <1>7 DEF Call
  <2> QED BY <1>0, <1>1, <1>3, <1>7, <2>1 DEF InStep, AfterRead, Begun
<1>8. ASSUME call.pc \in {"assign", "expand"}, NEW r \in call.todo PROVE r \in Repos /\ Begun(r)
  <2>1. r \in Batches[call.index] /\ call.index <= plan.index
    BY <1>0, <1>8 DEF InStep, AfterRead
  <2> QED BY <1>0, <1>2, <2>1, BatchBegun
<1>9. CASE Start(c)
  <2>1. /\ plan.status = "absent" /\ plan' = [plan EXCEPT !.status = "in_progress"]
        /\ caller'[c] = [IdleCall EXCEPT !.pc = "assign", !.todo = Batches[1]]
        /\ UNCHANGED <<leader, worker, told, assignment>>
    BY <1>0, <1>9 DEF Start, Goto
  <2>2. plan'.status = "in_progress" /\ plan'.refused = plan.refused
    BY <1>0, <2>1 DEF ShapeInv, RowShape
  <2>3. PlanInv'
    BY <1>0, <1>1, <1>2, <2>2 DEF PlanInv, CompletedMeansDelivered
  <2>4. /\ caller'[c].pc = "assign" /\ caller'[c].event = None /\ caller'[c].index = 1
        /\ caller'[c].todo = Batches[1]
    BY <2>1 DEF IdleCall
  <2>5. plan.index = 1
    BY <1>0, <2>1 DEF PlanInv
  <2>6. InStep(caller[c])'
    BY <1>1, <2>2, <2>4, <2>5 DEF InStep, AfterRead
  <2> QED BY <1>3, <1>6, <2>1, <2>3, <2>6
<1>10. CASE AssignLeader(c)
  <2>1. PICK r \in call.todo :
          /\ leader' = [leader EXCEPT ![r] = IF @ = "none" THEN "assigned" ELSE @]
          /\ Goto(c, [call EXCEPT !.todo = @ \ {r}])
    BY <1>10 DEF AssignLeader
  <2>2. call.pc = "assign" /\ UNCHANGED <<plan, worker, told, assignment>>
    BY <1>10 DEF AssignLeader, At
  <2>3. caller'[c] = [call EXCEPT !.todo = call.todo \ {r}]
    BY <1>0, <2>1 DEF Goto
  <2>4. InStep(caller[c])'
    <3>1. call.todo \ {r} \in SUBSET call.todo
      OBVIOUS
    <3> QED BY <1>7, <2>2, <2>3, <3>1
  <2>5. ASSUME NEW q \in Repos, leader'[q] # "none" PROVE Begun(q)
    BY <1>0, <1>8, <2>1, <2>2, <2>5 DEF RowsBegun, ShapeInv, RowShape
  <2>6. RowsBegun'
    BY <1>0, <1>1, <1>3, <2>2, <2>5 DEF RowsBegun, Begun
  <2> QED BY <1>3, <1>4, <2>2, <2>4, <2>6
<1>11. CASE RecordLeaders(c)
  <2> DEFINE next == [call EXCEPT !.pc = "expand", !.todo = Batches[call.index]]
  <2>1. call.pc = "assign" /\ UNCHANGED <<leader, worker, told, assignment>>
    BY <1>11 DEF RecordLeaders, At
  <2>2. CASE ~call.fresh
    <3>1. caller'[c] = IdleCall /\ UNCHANGED plan
      BY <1>0, <1>11, <2>2 DEF RecordLeaders, UpdatePlan, Return, Goto
    <3> QED BY <1>3, <1>4, <1>5, <1>6, <2>1, <3>1
  <2>3. CASE call.fresh
    <3>1. caller'[c] = next /\ plan' = [plan EXCEPT !.staffed = @ \cup {call.index}]
      BY <1>11, <2>3 DEF RecordLeaders, UpdatePlan
    <3>2. plan'.status = plan.status /\ plan'.refused = plan.refused
      BY <1>0, <3>1 DEF ShapeInv, RowShape
    <3>3. PlanInv'
      BY <1>0, <1>1, <1>2, <3>2 DEF PlanInv, CompletedMeansDelivered
    <3>4. /\ caller'[c].pc = "expand" /\ caller'[c].event = call.event
          /\ caller'[c].index = call.index /\ caller'[c].fresh = call.fresh
          /\ caller'[c].todo = Batches[call.index]
      BY <1>0, <3>1 DEF Call
    <3>5. InStep(caller[c])'
      BY <1>0, <1>1, <1>3, <2>1, <3>2, <3>4 DEF InStep, AfterRead, Begun
    <3> QED BY <1>3, <1>6, <2>1, <3>3, <3>5
  <2> QED BY <2>2, <2>3
<1>12. ASSUME call.pc = "expand", UNCHANGED plan, NEW r \in call.todo, Expanded(c, r)
       PROVE  InStep(caller[c])'
  <2>1. \/ caller'[c] = IdleCall
        \/ caller'[c] = [call EXCEPT !.todo = call.todo \ {r}]
    BY <1>0, <1>12 DEF Expanded, Return, Goto
  <2>2. call.todo \ {r} \in SUBSET call.todo
    OBVIOUS
  <2> QED BY <1>5, <1>7, <1>12, <2>1, <2>2
<1>13. CASE Decompose(c)
  <2>1. PICK r \in call.todo \ LeaderSide :
          \/ CreateRow(r, FirstNode) /\ UNCHANGED caller
          \/ Announce(r, FirstNode) /\ Expanded(c, r)
    BY <1>13 DEF Decompose
  <2>2. call.pc = "expand" /\ UNCHANGED <<plan, leader, assignment>>
    BY <1>13 DEF Decompose, At
  <2>3. r \in Repos /\ Begun(r)
    BY <1>8, <2>2
  <2>4. InStep(caller[c])'
    <3>1. CASE UNCHANGED caller
      BY <1>0, <1>1, <1>3, <2>2, <3>1 DEF InStep, Begun
    <3> QED BY <1>12, <2>1, <2>2, <3>1
  <2>5. ASSUME NEW q \in Repos, NEW t \in WorkerTask,
               worker'[q][t] # "none" \/ told'[q] # {}
        PROVE  Begun(q)
    BY <1>0, <2>1, <2>3, <2>5 DEF CreateRow, Announce, RowsBegun, ShapeInv, RowShape
  <2>6. FirstNode \in WorkerTask
    BY DEF WorkerTask
  <2>7. RowsBegun'
    BY <1>0, <1>1, <1>3, <2>2, <2>5, <2>6 DEF RowsBegun, Begun
  <2> QED BY <1>3, <1>4, <2>2, <2>4, <2>7
<1>14. CASE Park(c)
  <2>1. PICK r \in call.todo \cap LeaderSide :
          /\ assignment' = [assignment EXCEPT ![r].phase = IF @ = "none" THEN "planning" ELSE @]
          /\ Expanded(c, r)
    BY <1>14 DEF Park
  <2>2. call.pc = "expand" /\ UNCHANGED <<plan, leader, worker, told>>
    BY <1>14 DEF Park, At
  <2>3. r \in Repos /\ Begun(r)
    BY <1>8, <2>2
  <2>4. InStep(caller[c])'
    BY <1>12, <2>1, <2>2
  <2>5. ASSUME NEW q \in Repos, assignment'[q].phase # "none" PROVE Begun(q)
    BY <1>0, <2>1, <2>3, <2>5 DEF RowsBegun, ShapeInv, RowShape
  <2>6. RowsBegun'
    BY <1>0, <1>1, <1>3, <2>2, <2>5 DEF RowsBegun, Begun
  <2> QED BY <1>3, <1>4, <2>2, <2>4, <2>6
<1> QED BY <1>9, <1>10, <1>11, <1>13, <1>14

-----------------------------------------------------------------------------
(* Everybody else. *)

\* A step of a leader's submission.
LEMMA DeskKeeps ==
    ASSUME IInv, ShapeInv', NEW r \in Repos, DeskStep(r)
    PROVE  RowsBegun' /\ CallsInStep' /\ PlanInv'
<1>0. ShapeInv /\ RowsBegun /\ CallsInStep /\ PlanInv
  BY DEF IInv
<1>1. UNCHANGED <<plan, merged, published, operator>>
  BY DEF DeskStep, SubmitPlan, DispatchTask, SavePlan, RequestRework, SaveRework, Judge,
         ReportVerdict, CloseReview, rows, delivery
<1>2. \A q : Begun(q)' <=> Begun(q)
  BY <1>1 DEF Begun
<1>3. PlanInv'
  BY <1>0, <1>1 DEF PlanInv, CompletedMeansDelivered
<1>4. Begun(r)
  BY <1>0 DEF DeskStep, SubmitPlan, DispatchTask, SavePlan, RequestRework, SaveRework, Judge,
              ReportVerdict, CloseReview, ReviewDue, Reported, RowsBegun
<1>5. CallsInStep'
  <2>1. ASSUME NEW d \in Callers PROVE caller'[d] \in {caller[d], OverLeader(caller[d], r)}
    BY DEF DeskStep, SubmitPlan, DispatchTask, SavePlan, RequestRework, SaveRework, Judge,
           ReportVerdict, CloseReview, SetLeader
  <2>2. ASSUME NEW d \in Callers PROVE Onlooker(d)
    BY <1>0, <1>1, <2>1, LeaderOnlooker
  <2>3. plan.index \in DOMAIN Batches
    BY <1>0 DEF ShapeInv, RowShape
  <2>4. Forward
    BY <1>1, <2>3 DEF Forward
  <2> QED BY <1>0, <2>2, <2>4, OnlookerInStep DEF CallsInStep
<1>6. ASSUME NEW q \in Repos, leader'[q] # "none" PROVE Begun(q)
  BY <1>0, <1>4, <1>6 DEF DeskStep, SubmitPlan, DispatchTask, SavePlan, RequestRework, SaveRework,
      Judge, ReportVerdict, CloseReview, SetLeader, RowsBegun, rows, ShapeInv, RowShape
<1>7. ASSUME NEW q \in Repos, assignment'[q].phase # "none" PROVE Begun(q)
  BY <1>0, <1>4, <1>7 DEF DeskStep, SubmitPlan, DispatchTask, SavePlan, RequestRework, SaveRework,
      Judge, ReportVerdict, CloseReview, RowsBegun, rows, ShapeInv, RowShape
<1>8. ASSUME NEW q \in Repos, desk'[q].pc # "idle" PROVE Begun(q)
  BY <1>0, <1>4, <1>8 DEF DeskStep, SubmitPlan, DispatchTask, SavePlan, RequestRework, SaveRework,
      Judge, ReportVerdict, CloseReview, Desk, RowsBegun, ShapeInv, DeskShape
<1>9. ASSUME NEW q \in Repos, NEW t \in WorkerTask, worker'[q][t] # "none" \/ told'[q] # {}
      PROVE  Begun(q)
  BY <1>0, <1>4, <1>9 DEF DeskStep, SubmitPlan, DispatchTask, SavePlan, RequestRework, SaveRework,
      Judge, ReportVerdict, CloseReview, CreateRow, Announce, RowsBegun, rows, ShapeInv, RowShape
<1>10. ASSUME NEW e \in events' PROVE Begun(e.repo)
  <2>1. \A x \in events : Begun(x.repo)
    BY <1>0 DEF RowsBegun
  <2>2. events' = events \/ events' = events \cup {[kind |-> "leader", repo |-> r, task |-> None]}
    BY DEF DeskStep, SubmitPlan, DispatchTask, SavePlan, RequestRework, SaveRework,
           Judge, ReportVerdict, CloseReview
  <2>3. CASE e \in events
    BY <2>1, <2>3
  <2>4. CASE e = [kind |-> "leader", repo |-> r, task |-> None]
    BY <1>4, <2>4
  <2> QED BY <1>10, <2>2, <2>3, <2>4
<1>11. WorkerTask # {}
  BY DEF WorkerTask
<1>12. RowsBegun'
  BY <1>0, <1>1, <1>2, <1>6, <1>7, <1>8, <1>9, <1>10, <1>11 DEF RowsBegun, Begun
<1> QED BY <1>3, <1>5, <1>12

\* Operators, people and failures.
LEMMA OtherKeeps ==
    ASSUME IInv, ShapeInv',
           \/ \E c \in Callers : Resume(c) \/ Interrupt(c)
           \/ \E r \in Repos :
                 \/ DropSubmission(r) \/ Merge(r) \/ Observe(r)
                 \/ \E t \in WorkerTask : WorkerReports(r, t)
           \/ \E rerun \in BOOLEAN : Redispatch(rerun)
           \/ OperatorStep
           \/ AppendBatch
    PROVE  RowsBegun' /\ CallsInStep' /\ PlanInv'
<1>0. ShapeInv /\ RowsBegun /\ CallsInStep /\ PlanInv /\ WorkerTask # {}
      /\ caller \in [Callers -> Call] /\ plan.index \in DOMAIN Batches /\ Forward
  <2>1. plan.index \in DOMAIN Batches
    BY DEF IInv, ShapeInv, RowShape
  <2>2. plan'.index = plan.index /\ merged \subseteq merged'
    <3>1. CASE AppendBatch
      BY <3>1 DEF AppendBatch, delivery, IInv, ShapeInv, RowShape
    <3>2. CASE ~ AppendBatch
      BY <3>2 DEF Resume, Interrupt, DropSubmission, Merge, Observe, WorkerReports, Report, Redispatch,
                  OperatorStep, HoldRound, ResetRound, RedispatchTask, rows, delivery
    <3> QED BY <3>1, <3>2
  <2> QED BY <2>1, <2>2 DEF IInv, Forward, WorkerTask, ShapeInv, CallShape
<1>1. \A q : Begun(q) => Begun(q)'
  BY <1>0, ForwardBegun
<1>2. ASSUME UNCHANGED plan PROVE PlanInv'
  BY <1>0, <1>2 DEF PlanInv, CompletedMeansDelivered, Forward
<1>3. ASSUME \A d \in Callers : Onlooker(d) PROVE CallsInStep'
  BY <1>0, <1>3, OnlookerInStep DEF CallsInStep
<1>4. ASSUME UNCHANGED <<plan, caller>> PROVE CallsInStep'
  BY <1>0, <1>3, <1>4, LeaderOnlooker
<1>5. ASSUME NEW c \in Callers, NEW call, Goto(c, call), UNCHANGED plan, InStep(caller[c])'
      PROVE  CallsInStep'
  <2>1. \A d \in Callers \ {c} : Onlooker(d)
    BY <1>0, <1>5, GotoOnlooker
  <2> QED BY <1>0, <1>5, <2>1, OnlookerInStep DEF CallsInStep
<1>6. ASSUME UNCHANGED <<leader, assignment, told, worker, desk, operator, published>>,
             \A e \in events' : Begun(e.repo)
      PROVE  RowsBegun'
  BY <1>0, <1>1, <1>6 DEF RowsBegun, Begun
<1>7. ASSUME NEW c \in Callers, Resume(c) PROVE RowsBegun' /\ CallsInStep' /\ PlanInv'
  <2> DEFINE call == [IdleCall EXCEPT !.pc = "assign", !.index = plan.index,
                                      !.todo = Batches[plan.index]]
  <2>1. /\ Goto(c, call) /\ plan.status = "in_progress"
        /\ UNCHANGED <<rows, delivery, events, desk, operator>>
    BY <1>7 DEF Resume
  <2>2. /\ caller'[c].pc = "assign" /\ caller'[c].event = None
        /\ caller'[c].index = plan.index /\ caller'[c].todo = Batches[plan.index]
    BY <1>0, <2>1 DEF Goto, IdleCall
  <2>3. InStep(caller[c])'
    BY <1>0, <2>1, <2>2 DEF InStep, AfterRead, rows
  <2> QED BY <1>0, <1>2, <1>5, <1>6, <2>1, <2>3 DEF rows, delivery, RowsBegun
<1>8. ASSUME NEW c \in Callers, Interrupt(c) PROVE RowsBegun' /\ CallsInStep' /\ PlanInv'
  <2>1. /\ Goto(c, IdleCall) /\ UNCHANGED <<rows, delivery, desk, operator>>
        /\ \A e \in events' : e \in events \/ (caller[c].event # None /\ e = caller[c].event)
    BY <1>8 DEF Interrupt, Return
  <2>2. InStep(caller[c])'
    BY <1>0, <2>1 DEF InStep, AfterRead, Goto, IdleCall
  <2>3. \A e \in events' : Begun(e.repo)
    BY <1>0, <2>1 DEF RowsBegun, CallsInStep, InStep
  <2> QED BY <1>2, <1>5, <1>6, <2>1, <2>2, <2>3 DEF rows, delivery
<1>9. ASSUME NEW r \in Repos, DropSubmission(r) PROVE RowsBegun' /\ CallsInStep' /\ PlanInv'
  <2>1. UNCHANGED <<rows, delivery, events, caller, operator>>
        /\ desk' = [desk EXCEPT ![r] = IdleDesk]
    BY <1>9 DEF DropSubmission, Desk
  <2>2. \A q \in Repos : desk'[q].pc # "idle" => desk[q].pc # "idle"
    BY <1>0, <2>1 DEF IdleDesk, ShapeInv, DeskShape
  <2>3. RowsBegun'
    BY <1>0, <1>1, <2>1, <2>2 DEF RowsBegun, Begun, rows, delivery
  <2> QED BY <1>2, <1>4, <2>1, <2>3 DEF rows
<1>10. ASSUME NEW r \in Repos, Merge(r) PROVE RowsBegun' /\ CallsInStep' /\ PlanInv'
  <2>1. \A e \in events' : Begun(e.repo)
    BY <1>0, <1>10 DEF Merge, RowsBegun
  <2> QED BY <1>2, <1>4, <1>6, <1>10, <2>1 DEF Merge, rows
<1>11. ASSUME NEW r \in Repos, Observe(r) PROVE RowsBegun' /\ CallsInStep' /\ PlanInv'
  <2>1. \A e \in events' : Begun(e.repo)
    BY <1>0, <1>11 DEF Observe, RowsBegun
  <2> QED BY <1>2, <1>4, <1>6, <1>11, <2>1 DEF Observe, rows, delivery
<1>12. ASSUME NEW r \in Repos, NEW t \in WorkerTask, WorkerReports(r, t)
       PROVE  RowsBegun' /\ CallsInStep' /\ PlanInv'
  <2>1. PICK s \in TaskStatus, tests \in BOOLEAN : Report(r, t, s, tests)
    BY <1>12 DEF WorkerReports, TaskStatus
  <2>2. Begun(r)
    BY <1>0, <2>1 DEF Report, RowsBegun
  <2>3. \A q \in Repos, u \in WorkerTask : worker'[q][u] # "none" => Begun(q)
    BY <1>0, <2>1, <2>2 DEF Report, RowsBegun, ShapeInv, RowShape
  <2>4. \A e \in events' : Begun(e.repo)
    BY <1>0, <2>1, <2>2 DEF Report, RowsBegun
  <2>5. RowsBegun'
    BY <1>0, <1>1, <2>1, <2>3, <2>4 DEF Report, RowsBegun, Begun
  <2> QED BY <1>2, <1>4, <2>1, <2>5 DEF Report
<1>13. ASSUME NEW rerun \in BOOLEAN, Redispatch(rerun)
       PROVE  RowsBegun' /\ CallsInStep' /\ PlanInv'
  <2>1. UNCHANGED <<rows, delivery, events, caller, desk>> /\ operator'.held = operator.held
    BY <1>0, <1>13 DEF Redispatch, ShapeInv, RowShape, Dispatch
  <2>2. \A x \in RoundTasks : x[1] \in Repos /\ x[2] \in WorkerTask \cup {LeaderTask}
    BY <1>0 DEF RoundTasks, Recorded, ShapeInv, RowShape
  <2>3. \A x \in RoundTasks : Begun(x[1])
    BY <1>0, <2>2 DEF RoundTasks, RowOf, RowsBegun
  <2>4. \A y \in operator'.tasks : Begun(y.repo)
    <3>1. \A y \in operator'.tasks : \E x \in RoundTasks :
             y = Entry(x[1], x[2], RowOf(x[1], x[2]) \in Final)
      BY <1>0, <1>13 DEF Redispatch, ShapeInv, RowShape, Dispatch
    <3>2. ASSUME NEW y \in operator'.tasks, NEW x \in RoundTasks,
                 y = Entry(x[1], x[2], RowOf(x[1], x[2]) \in Final)
          PROVE  Begun(y.repo)
      <4>1. y.repo = x[1]
        BY <3>2 DEF Entry
      <4> QED BY <2>3, <4>1
    <3> QED BY <3>1, <3>2
  <2>5. RowsBegun'
    BY <1>0, <1>1, <2>1, <2>4 DEF RowsBegun, Begun, rows, delivery
  <2> QED BY <1>2, <1>4, <2>1, <2>5 DEF rows
<1>16. ASSUME NEW r \in Repos, HoldRound(r) PROVE RowsBegun' /\ CallsInStep' /\ PlanInv'
  <2>1. UNCHANGED <<rows, delivery, events, caller, desk>>
    BY <1>16 DEF HoldRound
  <2>2. /\ operator'.tasks \subseteq operator.tasks
        /\ \A q \in Repos : operator'.held[q] # operator.held[q] =>
              q = r /\ assignment[r].phase # "none"
    BY <1>0, <1>16 DEF HoldRound, ShapeInv, RowShape, Dispatch
  <2>3. RowsBegun'
    BY <1>0, <1>1, <2>1, <2>2 DEF RowsBegun, Begun, rows, delivery
  <2> QED BY <1>2, <1>4, <2>1, <2>3 DEF rows
<1>17. ASSUME NEW r \in Repos, ResetRound(r) PROVE RowsBegun' /\ CallsInStep' /\ PlanInv'
  <2>1. /\ UNCHANGED <<plan, leader, worker, told, delivery, events, caller, desk>>
        /\ Begun(r)
    BY <1>0, <1>17 DEF ResetRound, RowsBegun
  <2>2. /\ operator'.tasks \subseteq operator.tasks
        /\ \A q \in Repos : operator'.held[q] \in {operator.held[q], None}
    <3>1. \/ operator' = IdleOperator \/ operator' = [operator EXCEPT !.held[r] = None]
      BY <1>17 DEF ResetRound
    <3>2. CASE operator' = IdleOperator
      BY <3>2 DEF IdleOperator
    <3>3. CASE operator' = [operator EXCEPT !.held[r] = None]
      BY <1>0, <3>3 DEF ShapeInv, RowShape, Dispatch
    <3> QED BY <3>1, <3>2, <3>3
  <2>3. \A q \in Repos : assignment'[q].phase # "none" => Begun(q)
    <3>1. UNCHANGED assignment \/ \E new : assignment' = [assignment EXCEPT ![r] = new]
      BY <1>17 DEF ResetRound
    <3>2. assignment \in [Repos -> Assignment]
      BY <1>0 DEF ShapeInv, RowShape
    <3>3. \A q \in Repos \ {r} : assignment'[q] = assignment[q]
      BY <3>1, <3>2
    <3> QED BY <1>0, <2>1, <3>3 DEF RowsBegun
  <2>4. RowsBegun'
    BY <1>0, <1>1, <2>1, <2>2, <2>3 DEF RowsBegun, Begun, delivery
  <2> QED BY <1>2, <1>4, <2>1, <2>4
<1>14. CASE RedispatchTask
  <2>1. PICK x \in operator.tasks :
          /\ operator' \in {IdleOperator, [operator EXCEPT !.tasks = @ \ {x}]}
          /\ \/ /\ SetLeader(x.repo, "assigned") \/ UNCHANGED <<leader, caller>>
                /\ UNCHANGED <<worker, told>>
             \/ /\ \/ worker' = [worker EXCEPT ![x.repo][x.task] = "assigned"]
                   \/ UNCHANGED worker
                /\ \/ told' = [told EXCEPT ![x.repo] = @ \cup {x.task}]
                   \/ UNCHANGED told
                /\ UNCHANGED <<leader, caller>>
    BY <1>14 DEF RedispatchTask
  <2>2. Begun(x.repo) /\ UNCHANGED <<plan, assignment, delivery, events, desk>>
    BY <1>0, <1>14 DEF RowsBegun, RedispatchTask
  <2>3. ASSUME NEW q \in Repos, leader'[q] # "none" PROVE Begun(q)
    BY <1>0, <2>1, <2>2, <2>3 DEF SetLeader, RowsBegun, ShapeInv, RowShape
  <2>4. ASSUME NEW q \in Repos, NEW u \in WorkerTask, worker'[q][u] # "none" \/ told'[q] # {}
        PROVE  Begun(q)
    BY <1>0, <2>1, <2>2, <2>4 DEF RowsBegun, ShapeInv, RowShape
  <2>8. /\ operator'.tasks \subseteq operator.tasks
        /\ \A q \in Repos : operator'.held[q] \in {operator.held[q], None}
    <3>1. CASE operator' = IdleOperator
      BY <3>1 DEF IdleOperator
    <3>2. CASE operator' = [operator EXCEPT !.tasks = @ \ {x}]
      BY <1>0, <3>2 DEF ShapeInv, RowShape, Dispatch
    <3> QED BY <2>1, <3>1, <3>2
  <2>5. RowsBegun'
    BY <1>0, <1>1, <2>2, <2>3, <2>4, <2>8 DEF RowsBegun, Begun, delivery
  <2>6. \A d \in Callers : caller'[d] \in {caller[d], OverLeader(caller[d], x.repo)}
    BY <2>1 DEF SetLeader
  <2>7. \A d \in Callers : Onlooker(d)
    BY <1>0, <2>2, <2>6, LeaderOnlooker
  <2> QED BY <1>2, <1>3, <2>2, <2>5, <2>7
<1>15. CASE AppendBatch
  <2>1. /\ plan.status = "in_progress"
        /\ plan' = [plan EXCEPT !.planned = @ + 1, !.refused = FALSE]
        /\ \A d \in Callers : caller'[d] = OverPlan(caller[d])
        /\ UNCHANGED <<leader, worker, told, assignment, delivery, events, desk, operator>>
    BY <1>15 DEF AppendBatch
  <2>2. plan'.status = "in_progress" /\ ~plan'.refused /\ plan'.index = plan.index
    BY <1>0, <2>1 DEF ShapeInv, RowShape
  <2>3. PlanInv'
    BY <1>0, <2>1, <2>2 DEF PlanInv, CompletedMeansDelivered, delivery
  <2>4. RowsBegun'
    BY <1>0, <1>1, <2>1 DEF RowsBegun, Begun, delivery
  <2>5. \A d \in Callers : Onlooker(d)
    BY <1>0, <2>1, PlanOnlooker
  <2> QED BY <1>3, <2>3, <2>4, <2>5
<1>18. CASE OperatorStep
  BY <1>14, <1>16, <1>17, <1>18 DEF OperatorStep
<1> QED BY <1>7, <1>8, <1>9, <1>10, <1>11, <1>12, <1>13, <1>15, <1>18

\* Every step keeps the invariant.
LEMMA IInvStep == IInv /\ [Next]_vars => IInv'
<1> SUFFICES ASSUME IInv, [Next]_vars PROVE IInv'
  OBVIOUS
<1>0. ShapeInv /\ ShapeInv' /\ CallsInStep
  BY ShapeStep DEF IInv
<1>1. CASE UNCHANGED vars
  BY <1>1 DEF vars, rows, delivery, IInv, ShapeInv, RowShape, CallShape, DeskShape, Counted, Rounds, Pending,
              RowsBegun, CallsInStep, InStep, Begun, PlanInv, CompletedMeansDelivered
<1>2. ASSUME NEW c \in Callers, CallerStep(c) PROVE IInv'
  <2>1. RowsBegun' /\ InStep(caller[c])' /\ PlanInv' /\ Forward
    <3>1. CASE \/ TaskTerminal(c) \/ ListWorkers(c) \/ ReadLane(c) \/ RollUp(c) \/ OpenReview(c)
               \/ FindPlan(c) \/ Reconsider(c)
      <4>1. RowsBegun' /\ InStep(caller[c])' /\ UNCHANGED <<plan, merged>>
        BY <1>0, <3>1, HandlingKeeps
      <4>2. plan.index \in DOMAIN Batches
        BY <1>0 DEF ShapeInv, RowShape
      <4> QED BY <4>1, <4>2 DEF IInv, PlanInv, CompletedMeansDelivered, Forward
    <3>2. CASE \/ Fail(c) \/ Reopen(c) \/ Ready(c) \/ Deliver(c) \/ ClearRefusal(c) \/ Gate(c)
               \/ Settle(c)
      BY <1>0, <3>2, AdvancingKeeps
    <3>3. CASE Start(c) \/ AssignLeader(c) \/ RecordLeaders(c) \/ Decompose(c) \/ Park(c)
      BY <1>0, <3>3, StartingKeeps
    <3> QED BY <1>2, <3>1, <3>2, <3>3 DEF CallerStep
  <2>2. \A d \in Callers \ {c} : Onlooker(d)
    BY <1>0, <1>2, CallerOnlookers
  <2>3. CallsInStep'
    BY <1>0, <2>1, <2>2, OnlookerInStep DEF CallsInStep
  <2> QED BY <1>0, <2>1, <2>3 DEF IInv
<1>3. ASSUME NEW r \in Repos, DeskStep(r) PROVE IInv'
  BY <1>0, <1>3, DeskKeeps DEF IInv
<1> QED BY <1>0, <1>1, <1>2, <1>3, OtherKeeps DEF Next, IInv

\* It holds at the start.
LEMMA InitIInv == Init => IInv
<1> SUFFICES ASSUME Init PROVE IInv
  OBVIOUS
<1>1. ShapeInv
  BY InitShape
<1>2. RowsBegun
  BY DEF Init, RowsBegun, Unparked, IdleDesk, IdleOperator
<1>3. CallsInStep
  BY DEF Init, CallsInStep, InStep, IdleCall, AfterRead
<1>4. PlanInv
  BY DEF Init, PlanInv, CompletedMeansDelivered
<1> QED BY <1>1, <1>2, <1>3, <1>4 DEF IInv

-----------------------------------------------------------------------------
(* What the invariant says about batches and endings. *)

\* A repository with a leader was begun, so the batches before its own are behind the plan.
LEMMA BegunInOrder == IInv => BatchesInOrder
<1> SUFFICES ASSUME IInv, DeliveryGated, NEW k \in DOMAIN Batches, NEW j \in 1 .. k - 1,
                    NEW r \in Batches[k], leader[r] # "none"
             PROVE  Batches[j] \subseteq merged
  BY DEF BatchesInOrder
<1>1. r \in Repos /\ j \in DOMAIN Batches /\ j < k
  OBVIOUS
<1>2. k <= plan.index /\ plan.index \in DOMAIN Batches
  BY <1>1 DEF IInv, RowsBegun, Begun, ShapeInv, RowShape
<1>3. j < plan.index
  BY <1>1, <1>2
<1> QED BY <1>1, <1>3 DEF IInv, PlanInv

\* Nobody but a call or an appended batch writes the plan.
LEMMA OthersLeavePlan ==
    ASSUME [Next]_vars, ~\E c \in Callers : CallerStep(c)
    PROVE  UNCHANGED plan \/ AppendBatch
<1>1. CASE UNCHANGED vars
  BY <1>1 DEF vars, rows
<1>2. ASSUME NEW c \in Callers, Resume(c) \/ Interrupt(c) PROVE UNCHANGED plan
  BY <1>2 DEF Resume, Interrupt, rows
<1>3. ASSUME NEW r \in Repos, DeskStep(r) PROVE UNCHANGED plan
  BY <1>3 DEF DeskStep, SubmitPlan, DispatchTask, SavePlan, RequestRework, SaveRework, Judge,
              ReportVerdict, CloseReview, rows
<1>4. ASSUME NEW r \in Repos, DropSubmission(r) \/ Merge(r) \/ Observe(r) PROVE UNCHANGED plan
  BY <1>4 DEF DropSubmission, Merge, Observe, rows
<1>5. ASSUME NEW r \in Repos, NEW t \in WorkerTask, WorkerReports(r, t) PROVE UNCHANGED plan
  BY <1>5 DEF WorkerReports, Report
<1>6. ASSUME NEW rerun \in BOOLEAN, Redispatch(rerun) PROVE UNCHANGED plan
  BY <1>6 DEF Redispatch, rows
<1>7. CASE OperatorStep
  BY <1>7 DEF OperatorStep, HoldRound, ResetRound, RedispatchTask, rows
<1> QED BY <1>1, <1>2, <1>3, <1>4, <1>5, <1>6, <1>7 DEF Next

\* Only a call that nobody has overtaken writes the plan, and it has read it in progress
\* or failed.
LEMMA CompletedStays == IInv /\ [Next]_vars => (plan.status = "completed" => UNCHANGED plan)
<1> SUFFICES ASSUME IInv, [Next]_vars, plan.status = "completed" PROVE UNCHANGED plan
  OBVIOUS
<1>1. ASSUME NEW c \in Callers, caller[c].pc \in AfterRead PROVE ~caller[c].fresh
  BY <1>1 DEF IInv, CallsInStep, InStep
<1>2. ASSUME NEW c \in Callers, caller[c].pc \in AfterRead, NEW new, NEW next,
             UpdatePlan(c, new, next)
      PROVE  UNCHANGED plan
  BY <1>1, <1>2 DEF UpdatePlan
<1>3. ASSUME NEW c \in Callers, CallerStep(c) PROVE UNCHANGED plan
  <2>1. CASE \/ TaskTerminal(c) \/ ListWorkers(c) \/ ReadLane(c) \/ RollUp(c) \/ OpenReview(c)
             \/ FindPlan(c) \/ Reconsider(c) \/ Ready(c) \/ Gate(c) \/ AssignLeader(c) \/ Decompose(c) \/ Park(c)
    BY <2>1 DEF TaskTerminal, ListWorkers, ReadLane, RollUp, OpenReview, FindPlan,
                      Reconsider, Ready, Gate, AssignLeader,
                Decompose, Park, rows
  <2>2. CASE \/ Fail(c) \/ Reopen(c) \/ Deliver(c) \/ ClearRefusal(c) \/ Settle(c)
             \/ RecordLeaders(c)
    BY <1>2, <2>2 DEF Fail, Reopen, Deliver, ClearRefusal, Settle, RecordLeaders, At, AfterRead
  <2>3. CASE Start(c)
    BY <2>3 DEF Start
  <2> QED BY <1>3, <2>1, <2>2, <2>3 DEF CallerStep
<1>4. CASE ~\E c \in Callers : CallerStep(c)
  BY <1>4, OthersLeavePlan DEF AppendBatch
<1> QED BY <1>3, <1>4

\* A call that settles the batch has withdrawn the refusal, or is overtaken.
LEMMA RefusalStays ==
    IInv /\ [Next]_vars =>
        (plan.refused => plan'.index = plan.index /\ plan'.status # "completed")
<1> SUFFICES ASSUME IInv, [Next]_vars, plan.refused
             PROVE  plan'.index = plan.index /\ plan'.status # "completed"
  OBVIOUS
<1>0. /\ plan.status # "completed"
      /\ plan \in [status : {"absent", "in_progress", "failed", "completed"},
                   index : DOMAIN Batches, planned : DOMAIN Batches,
                   staffed : SUBSET DOMAIN Batches, refused : BOOLEAN]
  BY DEF IInv, PlanInv, ShapeInv, RowShape
<1>1. ASSUME NEW c \in Callers, Settle(c) PROVE UNCHANGED plan
  <2>1. ~caller[c].fresh
    BY <1>1 DEF IInv, CallsInStep, InStep, Settle, At, AfterRead
  <2> QED BY <1>1, <2>1 DEF Settle, UpdatePlan
<1>2. ASSUME NEW c \in Callers, CallerStep(c), ~Settle(c)
      PROVE  plan'.index = plan.index /\ plan'.status # "completed"
  <2>1. CASE \/ TaskTerminal(c) \/ ListWorkers(c) \/ ReadLane(c) \/ RollUp(c) \/ OpenReview(c)
             \/ FindPlan(c) \/ Reconsider(c) \/ Ready(c) \/ Gate(c) \/ AssignLeader(c) \/ Decompose(c) \/ Park(c)
    BY <1>0, <2>1 DEF TaskTerminal, ListWorkers, ReadLane, RollUp, OpenReview, FindPlan,
                      Reconsider, Ready, Gate,
                      AssignLeader, Decompose, Park, rows
  <2>2. CASE Fail(c) \/ Reopen(c)
    BY <1>0, <2>2 DEF Fail, Reopen, UpdatePlan
  <2>3. CASE Deliver(c) \/ ClearRefusal(c)
    BY <1>0, <2>3 DEF Deliver, ClearRefusal, UpdatePlan
  <2>4. CASE RecordLeaders(c) \/ Start(c)
    BY <1>0, <2>4 DEF RecordLeaders, Start, UpdatePlan
  <2> QED BY <1>2, <2>1, <2>2, <2>3, <2>4 DEF CallerStep
<1>3. CASE ~\E c \in Callers : CallerStep(c)
  BY <1>0, <1>3, OthersLeavePlan DEF AppendBatch
<1> QED BY <1>0, <1>1, <1>2, <1>3

-----------------------------------------------------------------------------
(* Theorems. *)

\* The inductive invariant holds of every reachable state.
THEOREM Invariance == Spec => []IInv
BY InitIInv, IInvStep, PTL DEF Spec

\* Rows, calls and submissions keep their shape; the bound on review rounds is part of it.
THEOREM PlanTypeCorrect == Spec => []PlanTypeOK
<1>1. IInv => PlanTypeOK
  BY ShapeIsType DEF IInv
<1> QED BY <1>1, Invariance, PTL

\* No task of a batch is given out before the batches before it are merged.
THEOREM BatchesInOrderCorrect == Spec => []BatchesInOrder
BY BegunInOrder, Invariance, PTL

\* A completed plan has merged every batch it was extended to.
THEOREM CompletedMeansDeliveredCorrect == Spec => []CompletedMeansDelivered
<1>1. IInv => CompletedMeansDelivered
  BY DEF IInv, PlanInv, CompletedMeansDelivered
<1> QED BY <1>1, Invariance, PTL

\* A completed plan is never written again.
THEOREM CompletedIsFinalCorrect == Spec => CompletedIsFinal
<1>1. IInv /\ [Next]_vars => [plan.status = "completed" => UNCHANGED plan]_vars
  BY CompletedStays
<1> QED BY <1>1, Invariance, PTL DEF Spec, CompletedIsFinal

\* A refused plan neither advances nor completes before the refusal is withdrawn.
THEOREM RefusalHoldsCorrect == Spec => RefusalHolds
<1>1. IInv /\ [Next]_vars =>
        [plan.refused => plan'.index = plan.index /\ plan'.status # "completed"]_vars
  BY RefusalStays
<1> QED BY <1>1, Invariance, PTL DEF Spec, RefusalHolds
=============================================================================
