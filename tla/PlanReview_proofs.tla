---------------------------- MODULE PlanReview_proofs ----------------------------
(***************************************************************************)
(* Leader mode: the task of a repository whose own leader plans and        *)
(* reviews ends by the leader's verdict, not by a roll-up of its Workers.  *)
(* A call lists the Workers and reads the assignment in steps of its own,  *)
(* assignments are saved without a version, and results are delivered in   *)
(* any order; the invariant is that work on such a repository begins after *)
(* its assignment was parked, and that the assignment stays.               *)
(***************************************************************************)
EXTENDS PlanExecution_proofs

-----------------------------------------------------------------------------
(* The inductive invariant. *)

\* Between a Worker's result and the review it opens, or the roll-up.
Handling == RollingUp \cup {"open"}

OfWorker(e, r) == e.kind = "worker" /\ e.repo = r

\* Nothing is done for the repository, and nobody handles a result of its Workers.
Untouched(r) ==
    /\ told[r] = {} /\ desk[r].pc = "idle"
    /\ \A t \in WorkerTask : worker[r][t] = "none"
    /\ \A e \in events : ~OfWorker(e, r)
    /\ \A x \in operator.tasks : x.repo = r => x.task = LeaderTask
    /\ \A c \in Callers :
          /\ caller[c].event # None => ~OfWorker(caller[c].event, r)
          /\ caller[c].pc \in {"list", "lane"} => caller[c].repo # r

\* A call that opens a review saves a parked assignment, and none rolls the repository up.
LeftToLeader(r) ==
    \A c \in Callers :
        /\ caller[c].pc = "rollup" => caller[c].repo # r
        /\ caller[c].pc = "open" /\ caller[c].repo = r => caller[c].read.phase # "none"

Parked(r) ==
    /\ assignment[r].phase = "none" => Untouched(r)
    /\ LeftToLeader(r)

ReviewInv == \A r \in LeaderSide : Parked(r)

-----------------------------------------------------------------------------
(* Calls. *)

\* A call that handles a result was handling it before, and its event was there.
Steady(d) ==
    /\ caller'[d].pc \in Handling =>
        /\ caller'[d].pc = caller[d].pc /\ caller'[d].repo = caller[d].repo
        /\ caller'[d].read = caller[d].read
    /\ caller'[d].event \in events \cup {None, caller[d].event}

\* No call but one that handles a result comes to roll up or to open a review; whoever is
\* overtaken stays where it is.
LEMMA CallsSteady ==
    ASSUME ShapeInv, NEW c \in Callers, CallerStep(c),
           ~TaskTerminal(c), ~ListWorkers(c), ~ReadLane(c)
    PROVE  \A d \in Callers : Steady(d)
<1> DEFINE Quiet(g, d) == g.pc \notin Handling /\ g.event \in events \cup {None, caller[d].event}
<1> USE DEF Steady, Handling, RollingUp
<1>0. /\ caller \in [Callers -> Call]
      /\ \A d \in Callers : Alike(caller[d], caller[d]) /\ Alike(OverPlan(caller[d]), caller[d])
      /\ \A d \in Callers, r \in Repos : Alike(OverLeader(caller[d], r), caller[d])
  <2>1. \A d \in Callers : caller[d] \in Call
    BY DEF ShapeInv, CallShape
  <2> QED BY <2>1, OvertakenPlan, OvertakenLeader DEF ShapeInv, CallShape, Alike
<1>1. ASSUME NEW d \in Callers, Alike(caller'[d], caller[d]) PROVE Steady(d)
  BY <1>1 DEF Alike
<1>2. ASSUME NEW g, Quiet(g, c), Goto(c, g) PROVE \A d \in Callers : Steady(d)
  <2>1. \A d \in Callers \ {c} : caller'[d] = caller[d]
    BY <1>0, <1>2 DEF Goto
  <2>2. caller'[c] = g
    BY <1>0, <1>2 DEF Goto
  <2> QED BY <1>0, <1>1, <1>2, <2>1, <2>2
<1>3. Quiet(IdleCall, c)
  BY DEF IdleCall
<1>4. ASSUME NEW new, NEW g, Quiet(g, c), UpdatePlan(c, new, g) PROVE \A d \in Callers : Steady(d)
  <2>1. CASE ~caller[c].fresh
    BY <1>2, <1>3, <1>4, <2>1 DEF UpdatePlan, Return
  <2>2. CASE caller[c].fresh
    <3>1. caller'[c] = g /\ \A d \in Callers \ {c} : caller'[d] = OverPlan(caller[d])
      BY <1>4, <2>2 DEF UpdatePlan
    <3> QED BY <1>0, <1>1, <1>4, <3>1
  <2> QED BY <2>1, <2>2
<1>5. ASSUME NEW pc \in AfterRead \cup {"find"} PROVE Quiet([caller[c] EXCEPT !.pc = pc], c)
  BY <1>0 DEF AfterRead, Call
<1>6. ASSUME NEW pc \in AfterRead PROVE Quiet(HasRead(caller[c], pc), c)
  BY <1>0 DEF AfterRead, HasRead, Call
<1>7. CASE RollUp(c)
  <2> DEFINE status == IF caller[c].fresh THEN caller[c].verdict ELSE leader[caller[c].repo]
             next == IF status \in Final
                     THEN [caller[c] EXCEPT !.pc = "find", !.verdict = status, !.fresh = TRUE]
                     ELSE IdleCall
  <2>1. caller'[c] = next /\ caller[c].repo \in Repos
    BY <1>0, <1>7 DEF RollUp, At, ShapeInv, CallShape
  <2>2. Quiet(next, c)
    BY <1>0, <1>3 DEF Call
  <2>3. Steady(c)
    BY <2>1, <2>2
  <2>4. \A d \in Callers \ {c} : caller'[d] \in {caller[d], OverLeader(caller[d], caller[c].repo)}
    BY <1>7 DEF RollUp
  <2>5. \A d \in Callers \ {c} : Alike(caller'[d], caller[d])
    BY <1>0, <2>1, <2>4
  <2> QED BY <1>1, <2>3, <2>5
<1>8. CASE OpenReview(c)
  BY <1>2, <1>3, <1>8 DEF OpenReview, Return
<1>9. CASE FindPlan(c)
  BY <1>2, <1>3, <1>6, <1>9 DEF FindPlan, Return, AfterRead
<1>10. CASE Fail(c)
  BY <1>3, <1>4, <1>10 DEF Fail
<1>11. CASE Reconsider(c)
  <2>1. PICK e \in events :
          LET new == [IdleCall EXCEPT !.event = e, !.repo = e.repo]
          IN  \/ Goto(c, HasRead(new, "reopen")) \/ Goto(c, HasRead(new, "ready"))
              \/ Goto(c, IdleCall)
    BY <1>11 DEF Reconsider, Return
  <2>2. \A pc \in {"reopen", "ready"} :
           Quiet(HasRead([IdleCall EXCEPT !.event = e, !.repo = e.repo], pc), c)
    BY DEF HasRead, IdleCall
  <2> QED BY <1>2, <1>3, <2>1, <2>2
<1>12. CASE Reopen(c)
  BY <1>2, <1>3, <1>4, <1>5, <1>12 DEF Reopen, Return, AfterRead
<1>13. CASE Ready(c)
  <2>1. Quiet([caller[c] EXCEPT !.pc = IF DeliveryGated THEN "deliver" ELSE "settle"], c)
    BY <1>5 DEF AfterRead
  <2> QED BY <1>2, <1>3, <1>13, <2>1 DEF Ready, Return
<1>14. CASE Deliver(c)
  BY <1>2, <1>3, <1>4, <1>5, <1>14 DEF Deliver, Return, AfterRead
<1>15. CASE ClearRefusal(c)
  BY <1>2, <1>4, <1>5, <1>15 DEF ClearRefusal, AfterRead
<1>16. CASE Gate(c)
  BY <1>2, <1>3, <1>5, <1>16 DEF Gate, Return, AfterRead
<1>17. CASE Settle(c)
  <2> DEFINE next == [caller[c] EXCEPT !.pc = "assign", !.index = plan.index + 1,
                                       !.todo = Batches[plan.index + 1]]
  <2>1. Quiet(next, c)
    BY <1>0 DEF Call
  <2>2. \/ UpdatePlan(c, [plan EXCEPT !.status = "completed"], IdleCall)
        \/ UpdatePlan(c, [plan EXCEPT !.index = plan.index + 1], next)
    BY <1>17 DEF Settle
  <2> HIDE DEF next
  <2> QED BY <1>3, <1>4, <2>1, <2>2
<1>18. CASE Start(c)
  <2>1. Quiet([IdleCall EXCEPT !.pc = "assign", !.todo = Batches[1]], c)
    BY DEF IdleCall
  <2> QED BY <1>2, <1>18, <2>1 DEF Start
<1>19. ASSUME NEW todo, caller[c].pc \in {"assign", "expand"},
              Goto(c, [caller[c] EXCEPT !.todo = todo])
       PROVE  \A d \in Callers : Steady(d)
  <2> DEFINE g == [caller[c] EXCEPT !.todo = todo]
  <2>1. Quiet(g, c)
    BY <1>0, <1>19 DEF Call
  <2> HIDE DEF g, Quiet
  <2> QED BY <1>2, <1>19, <2>1 DEF g
<1>20. CASE AssignLeader(c)
  <2>1. PICK r \in caller[c].todo : Goto(c, [caller[c] EXCEPT !.todo = caller[c].todo \ {r}])
    BY <1>20 DEF AssignLeader
  <2> QED BY <1>19, <1>20, <2>1 DEF AssignLeader, At
<1>21. CASE RecordLeaders(c)
  <2>1. Quiet([caller[c] EXCEPT !.pc = "expand", !.todo = Batches[caller[c].index]], c)
    BY <1>0 DEF Call
  <2> QED BY <1>4, <1>21, <2>1 DEF RecordLeaders
<1>22. ASSUME NEW r, Expanded(c, r), caller[c].pc = "expand" PROVE \A d \in Callers : Steady(d)
  <2>1. CASE Return(c)
    BY <1>2, <1>3, <2>1 DEF Return
  <2>2. CASE Goto(c, [caller[c] EXCEPT !.todo = caller[c].todo \ {r}])
    BY <1>19, <1>22, <2>2
  <2> QED BY <1>22, <2>1, <2>2 DEF Expanded
<1>23. CASE Decompose(c)
  <2>1. UNCHANGED caller \/ \E r : Expanded(c, r)
    BY <1>23 DEF Decompose
  <2>2. CASE UNCHANGED caller
    BY <1>0, <1>1, <2>2
  <2> QED BY <1>22, <1>23, <2>1, <2>2 DEF Decompose, At
<1>24. CASE Park(c)
  BY <1>22, <1>24 DEF Park, At
<1> QED BY <1>7, <1>8, <1>9, <1>10, <1>11, <1>12, <1>13, <1>14, <1>15, <1>16, <1>17, <1>18,
           <1>20, <1>21, <1>23, <1>24 DEF CallerStep

\* Steady calls leave a repository as they found it: neither rolled up, nor worked on
\* before it is parked.
LEMMA SteadyParked ==
    ASSUME NEW r, Parked(r), \A d \in Callers : Steady(d),
           assignment'[r].phase = "none" =>
                /\ assignment[r].phase = "none"
                /\ told'[r] = {} /\ desk'[r].pc = "idle"
                /\ \A t \in WorkerTask : worker'[r][t] = "none"
                /\ \A e \in events' : ~OfWorker(e, r)
                /\ \A x \in operator'.tasks : x.repo = r => x.task = LeaderTask
    PROVE  Parked(r)'
<1>1. LeftToLeader(r)'
  BY DEF Parked, LeftToLeader, Steady, Handling, RollingUp
<1>2. ASSUME assignment'[r].phase = "none" PROVE Untouched(r)'
  <2>1. Untouched(r)
    BY <1>2 DEF Parked
  <2>2. \A d \in Callers :
          /\ caller'[d].event # None => ~OfWorker(caller'[d].event, r)
          /\ caller'[d].pc \in {"list", "lane"} => caller'[d].repo # r
    BY <2>1 DEF Untouched, Steady, Handling, RollingUp, OfWorker
  <2> QED BY <1>2, <2>2 DEF Untouched, OfWorker
<1> QED BY <1>1, <1>2 DEF Parked

\* A call that handles a result leaves the repository to its leader.
LEMMA HandlingParked ==
    ASSUME ShapeInv, NEW r \in Repos, Parked(r), NEW c \in Callers,
           TaskTerminal(c) \/ ListWorkers(c) \/ ReadLane(c)
    PROVE  Parked(r)'
<1> DEFINE call == caller[c]
           g == caller'[c]
<1>0. /\ caller \in [Callers -> Call] /\ call \in Call
      /\ call.pc \in RollingUp => call.repo \in Repos
      /\ UNCHANGED <<rows, desk, operator>> /\ events' \subseteq events
      /\ \A d \in Callers \ {c} : caller'[d] = caller[d]
  BY DEF TaskTerminal, ListWorkers, ReadLane, Goto, ShapeInv, CallShape, RollingUp
<1>1. ASSUME /\ g.pc = "rollup" => g.repo # r
             /\ g.pc = "open" /\ g.repo = r => g.read.phase # "none",
             assignment[r].phase = "none" =>
                /\ g.event # None => ~OfWorker(g.event, r)
                /\ (g.pc \in {"list", "lane"} => g.repo # r)
      PROVE  Parked(r)'
  <2>1. LeftToLeader(r)'
    BY <1>0, <1>1 DEF Parked, LeftToLeader
  <2>2. ASSUME assignment'[r].phase = "none" PROVE Untouched(r)'
    <3>1. Untouched(r) /\ assignment[r].phase = "none"
      BY <1>0, <2>2 DEF Parked, rows
    <3>2. \A d \in Callers :
            /\ caller'[d].event # None => ~OfWorker(caller'[d].event, r)
            /\ caller'[d].pc \in {"list", "lane"} => caller'[d].repo # r
      BY <1>0, <1>1, <3>1 DEF Untouched
    <3> QED BY <1>0, <3>1, <3>2 DEF Untouched, OfWorker, rows
  <2> QED BY <2>1, <2>2 DEF Parked
<1>2. CASE TaskTerminal(c)
  <2>1. PICK e \in events :
          g = [IdleCall EXCEPT !.event = e, !.repo = e.repo, !.verdict = leader[e.repo],
                  !.pc = IF e.kind = "worker" /\ leader[e.repo] \notin Final THEN "list"
                         ELSE "find"]
    BY <1>0, <1>2 DEF TaskTerminal, Goto
  <2>2. /\ g.event = e /\ g.repo = e.repo /\ g.pc \in {"list", "find"}
        /\ g.pc = "list" => e.kind = "worker"
    BY <2>1 DEF IdleCall
  <2> HIDE DEF g
  <2> QED BY <1>1, <2>2 DEF Parked, Untouched, OfWorker
<1>3. CASE ListWorkers(c)
  <2>1. call.pc = "list" /\ g = [call EXCEPT !.pc = "lane", !.seen = worker[call.repo]]
    BY <1>0, <1>3 DEF ListWorkers, At, Goto
  <2>2. g.pc = "lane" /\ g.repo = call.repo /\ g.event = call.event
    BY <1>0, <2>1 DEF Call
  <2> HIDE DEF g
  <2> QED BY <1>1, <2>1, <2>2 DEF Parked, Untouched
<1>4. CASE ReadLane(c)
  <2> DEFINE cleared == [call EXCEPT !.seen = NoWorkers]
             read == assignment[cleared.repo]
             park == [read EXCEPT !.phase = "review_due", !.evidence = Listed(call.seen)]
             open == [cleared EXCEPT !.pc = "open", !.read = park]
  <2>1. /\ cleared \in Call /\ cleared.repo = call.repo /\ cleared.event = call.event
        /\ call.pc = "lane" /\ call.repo \in Repos
    BY <1>0, <1>4 DEF Call, NoWorkers, TaskStatus, ReadLane, At, RollingUp
  <2>2. /\ read.phase = "none" => Goto(c, RolledUp(cleared, call.seen))
        /\ read.phase # "none" => Goto(c, open) \/ Goto(c, IdleCall)
    BY <1>4, Zenon DEF ReadLane
  <2>3. open.pc = "open" /\ open.repo = call.repo /\ open.event = call.event /\ open.read = park
    BY <2>1 DEF Call
  <2>4. park.phase = "review_due"
    BY <2>1 DEF ShapeInv, RowShape, Assignment
  <2>5. \/ RolledUp(cleared, call.seen) = IdleCall
        \/ /\ RolledUp(cleared, call.seen).pc = "rollup"
           /\ RolledUp(cleared, call.seen).repo = call.repo
           /\ RolledUp(cleared, call.seen).event = call.event
    BY <2>1, RolledUpCall
  <2> HIDE DEF open, cleared, park
  <2>6. \A h : Goto(c, h) => g = h
    BY <1>0 DEF Goto
  <2>7. assignment[call.repo].phase = "none" => call.repo # r
    BY <2>1 DEF Parked, Untouched
  <2>8. assignment[r].phase = "none" /\ call.event # None => ~OfWorker(call.event, r)
    BY DEF Parked, Untouched
  <2>9. IdleCall.pc = "idle" /\ IdleCall.event = None
    BY DEF IdleCall
  <2>10. CASE read.phase = "none"
    BY <1>1, <2>1, <2>2, <2>5, <2>6, <2>7, <2>8, <2>9, <2>10
  <2>11. CASE read.phase # "none"
    BY <1>1, <2>2, <2>3, <2>4, <2>6, <2>8, <2>9, <2>11
  <2> QED BY <2>10, <2>11
<1> QED BY <1>2, <1>3, <1>4

\* The other steps of a call: a review is opened, a repository parked, or one decomposed
\* that has no leader of its own.
LEMMA CallerParked ==
    ASSUME ShapeInv, ReviewInv, NEW r \in LeaderSide, NEW c \in Callers, CallerStep(c),
           ~TaskTerminal(c), ~ListWorkers(c), ~ReadLane(c)
    PROVE  Parked(r)'
<1>0. /\ r \in Repos /\ Parked(r) /\ LeaderSide \subseteq Repos
      /\ assignment \in [Repos -> Assignment] /\ worker \in [Repos -> [WorkerTask -> TaskStatus]]
      /\ told \in [Repos -> SUBSET WorkerTask]
      /\ \A d \in Callers : Steady(d)
  BY CallsSteady, PlanAssumption DEF ReviewInv, ShapeInv, RowShape
<1>1. ASSUME UNCHANGED <<worker, told, desk, operator>>, events' \subseteq events,
             assignment'[r].phase = "none" => assignment[r].phase = "none"
      PROVE  Parked(r)'
  BY <1>0, <1>1, SteadyParked DEF Parked, Untouched
<1>2. CASE OpenReview(c)
  <2>1. /\ UNCHANGED <<worker, told, desk, operator, events>>
        /\ assignment' = [assignment EXCEPT ![caller[c].repo] = caller[c].read]
        /\ caller[c].pc = "open"
    BY <1>2 DEF OpenReview, At
  <2>2. caller[c].repo = r => caller[c].read.phase # "none"
    BY <1>0, <2>1 DEF Parked, LeftToLeader
  <2>3. assignment'[r].phase = "none" => assignment[r].phase = "none"
    BY <1>0, <2>1, <2>2
  <2> QED BY <1>1, <2>1, <2>3
<1>3. CASE Park(c)
  <2>1. PICK q \in Repos : 
          assignment' = [assignment EXCEPT ![q].phase = IF @ = "none" THEN "planning" ELSE @]
    BY <1>0, <1>3 DEF Park
  <2>2. assignment'[r].phase = "none" => assignment[r].phase = "none"
    BY <1>0, <2>1 DEF Assignment
  <2> QED BY <1>1, <1>3, <2>2 DEF Park
<1>4. CASE Decompose(c)
  <2>1. PICK q \in caller[c].todo \ LeaderSide :
          CreateRow(q, FirstNode) \/ Announce(q, FirstNode)
    BY <1>4 DEF Decompose
  <2>2. UNCHANGED <<assignment, events, desk, operator>>
    BY <1>4 DEF Decompose
  <2>3. worker'[r] = worker[r] /\ told'[r] = told[r]
    BY <1>0, <2>1 DEF CreateRow, Announce
  <2> QED BY <1>0, <2>2, <2>3, SteadyParked DEF Parked, Untouched
<1>5. CASE \/ RollUp(c) \/ FindPlan(c) \/ Fail(c) \/ Reconsider(c) \/ Reopen(c) \/ Ready(c)
           \/ Deliver(c) \/ ClearRefusal(c) \/ Gate(c)
  <2>1. UNCHANGED <<worker, told, assignment, desk, operator>> /\ events' \subseteq events
    BY <1>5 DEF RollUp, FindPlan, Fail, Reconsider, Reopen, Ready, Deliver, ClearRefusal, Gate, rows
  <2> QED BY <1>1, <2>1
<1>6. CASE Settle(c) \/ Start(c) \/ AssignLeader(c) \/ RecordLeaders(c)
  <2>1. UNCHANGED <<worker, told, assignment, desk, operator, events>>
    BY <1>6 DEF Settle, Start, AssignLeader, RecordLeaders
  <2> QED BY <1>1, <2>1
<1> QED BY <1>2, <1>3, <1>4, <1>5, <1>6 DEF CallerStep

-----------------------------------------------------------------------------
(* The other steps. *)

\* A leader's submission begins once the repository is parked, and leaves it so.
LEMMA DeskParked ==
    ASSUME ShapeInv, ReviewInv, NEW r \in LeaderSide, NEW q \in Repos, DeskStep(q)
    PROVE  Parked(r)'
<1>0. /\ r \in Repos /\ Parked(r)
      /\ assignment \in [Repos -> Assignment] /\ worker \in [Repos -> [WorkerTask -> TaskStatus]]
      /\ told \in [Repos -> SUBSET WorkerTask] /\ caller \in [Callers -> Call]
      /\ desk \in [Repos -> Submission]
  BY PlanAssumption DEF ReviewInv, ShapeInv, RowShape, CallShape, DeskShape
<1>1. \A d \in Callers : Steady(d)
  <2>1. \/ UNCHANGED caller
        \/ \A d \in Callers : caller'[d] = OverLeader(caller[d], q)
    BY DEF DeskStep, SubmitPlan, DispatchTask, SavePlan, RequestRework, SaveRework, Judge,
           ReportVerdict, CloseReview, SetLeader
  <2>2. \A d \in Callers : caller[d] \in Call /\ Alike(OverLeader(caller[d], q), caller[d])
    BY <1>0, OvertakenLeader
  <2> QED BY <2>1, <2>2 DEF Steady, Alike
<1>2. CASE q # r
  <2>1. /\ assignment'[r] = assignment[r] /\ desk'[r] = desk[r] /\ told'[r] = told[r]
        /\ worker'[r] = worker[r] /\ UNCHANGED operator
    BY <1>0, <1>2 DEF DeskStep, SubmitPlan, DispatchTask, SavePlan, RequestRework, SaveRework, Judge,
           ReportVerdict, CloseReview, Desk, CreateRow, Announce, rows
  <2>2. \A e \in events' : e \in events \/ e.kind = "leader"
    <3>1. CASE CloseReview(q)
      BY <3>1 DEF CloseReview
    <3>2. CASE UNCHANGED events
      BY <3>2
    <3> QED BY <3>1, <3>2 DEF DeskStep, SubmitPlan, DispatchTask, SavePlan, RequestRework,
               SaveRework, Judge, ReportVerdict
  <2> QED BY <1>0, <1>1, <2>1, <2>2, SteadyParked DEF Parked, Untouched, OfWorker
<1>3. CASE q = r
  <2>1. assignment[r].phase # "none"
    <3>1. CASE SubmitPlan(r) \/ RequestRework(r) \/ \E verdict \in DOMAIN Reported : Judge(r, verdict)
      BY <3>1 DEF SubmitPlan, RequestRework, Judge, ReviewDue
    <3>2. CASE DispatchTask(r) \/ SavePlan(r) \/ SaveRework(r) \/ ReportVerdict(r) \/ CloseReview(r)
      <4>1. desk[r].pc # "idle"
        BY <3>2 DEF DispatchTask, SavePlan, SaveRework, ReportVerdict, CloseReview, Reported
      <4> QED BY <1>0, <4>1 DEF Parked, Untouched
    <3> QED BY <1>3, <3>1, <3>2 DEF DeskStep
  <2>2. CASE UNCHANGED assignment
    BY <1>0, <1>1, <2>1, <2>2, SteadyParked
  <2>3. CASE SavePlan(r) \/ SaveRework(r) \/ CloseReview(r)
    <3>1. desk[r].pc # "idle"
      BY <2>3 DEF SavePlan, SaveRework, CloseReview
    <3>2. desk[r].read \in Assignment
      BY <1>0, <3>1 DEF ShapeInv, DeskShape, Counted
    <3>3. assignment'[r].phase \in {"executing", "closed"}
      <4>1. CASE SavePlan(r)
        <5> DEFINE new == [desk[r].read EXCEPT !.phase = "executing"]
        <5>1. new.phase = "executing"
          BY <3>2 DEF Assignment
        <5>2. assignment' = [assignment EXCEPT ![r] = new]
          BY <4>1 DEF SavePlan
        <5> HIDE DEF new
        <5> QED BY <1>0, <5>1, <5>2
      <4>2. CASE SaveRework(r)
        <5> DEFINE new == [phase |-> "executing", revision |-> desk[r].read.revision + 1,
                           evidence |-> {},
                           reviews |-> desk[r].read.reviews \cup {desk[r].read.revision}]
        <5>1. new.phase = "executing"
          OBVIOUS
        <5>2. assignment' = [assignment EXCEPT ![r] = new]
          BY <4>2 DEF SaveRework
        <5> HIDE DEF new
        <5> QED BY <1>0, <5>1, <5>2
      <4>3. CASE CloseReview(r)
        <5> DEFINE new == [desk[r].read EXCEPT !.phase = "closed",
                                               !.reviews = @ \cup {desk[r].read.revision}]
        <5>1. new.phase = "closed"
          BY <3>2 DEF Assignment
        <5>2. assignment' = [assignment EXCEPT ![r] = new]
          BY <4>3 DEF CloseReview
        <5> HIDE DEF new
        <5> QED BY <1>0, <5>1, <5>2
      <4> QED BY <2>3, <4>1, <4>2, <4>3
    <3> QED BY <1>0, <1>1, <3>3, SteadyParked
  <2> QED BY <1>3, <2>2, <2>3 DEF DeskStep, SubmitPlan, DispatchTask, RequestRework, Judge,
             ReportVerdict, rows
<1> QED BY <1>2, <1>3

\* A redo and a re-run find a parked repository, or leave its Workers alone.
LEMMA OperatorParked ==
    ASSUME ShapeInv, ReviewInv, NEW r \in LeaderSide,
           OperatorStep \/ \E rerun \in BOOLEAN : Redispatch(rerun)
    PROVE  Parked(r)'
<1>0. /\ r \in Repos /\ Parked(r)
      /\ assignment \in [Repos -> Assignment] /\ worker \in [Repos -> [WorkerTask -> TaskStatus]]
      /\ told \in [Repos -> SUBSET WorkerTask] /\ caller \in [Callers -> Call]
      /\ operator \in Dispatch
  BY PlanAssumption DEF ReviewInv, ShapeInv, RowShape, CallShape
<1>1. /\ UNCHANGED <<desk, events>>
      /\ \A d \in Callers : caller'[d] = caller[d] \/ \E q : caller'[d] = OverLeader(caller[d], q)
  BY DEF OperatorStep, HoldRound, ResetRound, RedispatchTask, Redispatch, SetLeader
<1>2. \A d \in Callers : Steady(d)
  <2>1. \A d \in Callers : \A q : caller[d] \in Call /\ Alike(OverLeader(caller[d], q), caller[d])
    BY <1>0, OvertakenLeader
  <2> QED BY <1>1, <2>1 DEF Steady, Alike
<1>3. ASSUME UNCHANGED <<worker, told>>,
             assignment'[r].phase = "none" => assignment[r].phase = "none",
             \A x \in operator'.tasks :
                x \in operator.tasks \/ (x.repo = r /\ assignment[r].phase = "none" => x.task = LeaderTask)
      PROVE  Parked(r)'
  BY <1>0, <1>1, <1>2, <1>3, SteadyParked DEF Parked, Untouched
<1>4. ASSUME NEW rerun \in BOOLEAN, Redispatch(rerun) PROVE Parked(r)'
  <2>1. UNCHANGED <<worker, told, assignment>>
    BY <1>4 DEF Redispatch, rows
  <2>2. \A x \in operator'.tasks : \E y \in RoundTasks :
           x = Entry(y[1], y[2], RowOf(y[1], y[2]) \in Final)
    BY <1>0, <1>4 DEF Redispatch, Dispatch
  <2>3. ASSUME NEW x \in operator'.tasks, x.repo = r, x.task # LeaderTask
        PROVE  assignment[r].phase # "none"
    <3>1. PICK y \in RoundTasks : x = Entry(y[1], y[2], RowOf(y[1], y[2]) \in Final)
      BY <2>2
    <3>2. y[1] = r /\ y[2] = x.task
      BY <2>3, <3>1 DEF Entry
    <3>3. x.task \in WorkerTask /\ worker[r][x.task] # "none"
      BY <2>3, <3>2 DEF RoundTasks, RowOf
    <3> QED BY <1>0, <3>3 DEF Parked, Untouched
  <2> QED BY <1>3, <2>1, <2>3
<1>5. ASSUME NEW q \in Repos, HoldRound(q) PROVE Parked(r)'
  <2>1. UNCHANGED <<worker, told, assignment>> /\ operator'.tasks \subseteq operator.tasks
    BY <1>0, <1>5 DEF HoldRound, rows, Dispatch
  <2> QED BY <1>3, <2>1
<1>6. ASSUME NEW q \in Repos, ResetRound(q) PROVE Parked(r)'
  <2>1. operator.held[q] \in Assignment
    BY <1>6 DEF ResetRound, ShapeInv, RowShape, Counted
  <2> DEFINE new == [operator.held[q] EXCEPT !.phase = "executing",
                           !.revision = operator.held[q].revision + 1, !.evidence = {}]
  <2>2. /\ new.phase = "executing"
        /\ UNCHANGED assignment \/ assignment' = [assignment EXCEPT ![q] = new]
    BY <1>6, <2>1 DEF ResetRound, Assignment
  <2> HIDE DEF new
  <2>3. assignment'[r].phase = "none" => assignment[r].phase = "none"
    BY <1>0, <2>2
  <2>4. operator'.tasks \subseteq operator.tasks
    <3>1. operator' = IdleOperator \/ operator' = [operator EXCEPT !.held[q] = None]
      BY <1>6 DEF ResetRound
    <3>2. IdleOperator.tasks = {}
      BY DEF IdleOperator
    <3>3. CASE operator' = [operator EXCEPT !.held[q] = None]
      BY <1>0, <3>3 DEF Dispatch
    <3> QED BY <3>1, <3>2, <3>3
  <2> QED BY <1>3, <1>6, <2>3, <2>4 DEF ResetRound
<1>7. CASE RedispatchTask
  <2>1. PICK x \in operator.tasks :
          /\ operator' \in {IdleOperator, [operator EXCEPT !.tasks = @ \ {x}]}
          /\ \/ UNCHANGED <<worker, told>>
             \/ /\ x.task # LeaderTask
                /\ \A q \in Repos \ {x.repo} : worker'[q] = worker[q] /\ told'[q] = told[q]
    BY <1>0, <1>7 DEF RedispatchTask
  <2>2. operator'.tasks \subseteq operator.tasks
    <3>1. IdleOperator.tasks = {}
      BY DEF IdleOperator
    <3>2. CASE operator' = [operator EXCEPT !.tasks = @ \ {x}]
      BY <1>0, <3>2 DEF Dispatch
    <3> QED BY <2>1, <3>1, <3>2
  <2>3. UNCHANGED assignment
    BY <1>7 DEF RedispatchTask
  <2>4. CASE assignment[r].phase # "none"
    BY <1>0, <1>2, <2>3, <2>4, SteadyParked
  <2>5. CASE assignment[r].phase = "none"
    <3>1. Untouched(r)
      BY <1>0, <2>5 DEF Parked
    <3>2. worker'[r] = worker[r] /\ told'[r] = told[r]
      BY <1>0, <2>1, <3>1 DEF Untouched
    <3> QED BY <1>0, <1>1, <1>2, <2>2, <2>5, <3>1, <3>2, SteadyParked DEF Untouched
  <2> QED BY <2>4, <2>5
<1> QED BY <1>4, <1>5, <1>6, <1>7 DEF OperatorStep

\* Only Workers that were told report, and none has been told of a repository not yet parked.
LEMMA OthersParked ==
    ASSUME ShapeInv, ReviewInv, NEW r \in LeaderSide,
           \/ \E c \in Callers : Resume(c) \/ Interrupt(c)
           \/ \E q \in Repos :
                 \/ DropSubmission(q) \/ Merge(q) \/ Observe(q)
                 \/ \E t \in WorkerTask : WorkerReports(q, t)
           \/ AppendBatch
    PROVE  Parked(r)'
<1>0. /\ r \in Repos /\ Parked(r) /\ caller \in [Callers -> Call]
      /\ worker \in [Repos -> [WorkerTask -> TaskStatus]] /\ desk \in [Repos -> Submission]
  BY PlanAssumption DEF ReviewInv, ShapeInv, RowShape, CallShape, DeskShape
<1>1. ASSUME UNCHANGED caller PROVE \A d \in Callers : Steady(d)
  BY <1>1 DEF Steady
<1>2. ASSUME UNCHANGED <<worker, told, assignment, operator>>,
             desk'[r] \in {desk[r], IdleDesk},
             \A d \in Callers : Steady(d),
             \A e \in events' : \/ e \in events \/ e.kind = "observed"
                               \/ \E c \in Callers : caller[c].event # None /\ e = caller[c].event
      PROVE  Parked(r)'
  <2>1. IdleDesk.pc = "idle"
    BY DEF IdleDesk
  <2> QED BY <1>0, <1>2, <2>1, SteadyParked DEF Parked, Untouched, OfWorker
<1>3. ASSUME NEW c \in Callers, Resume(c) PROVE Parked(r)'
  <2>1. \A d \in Callers : Steady(d)
    BY <1>0, <1>3 DEF Resume, Goto, Steady, Handling, RollingUp, IdleCall
  <2> QED BY <1>2, <1>3, <2>1 DEF Resume, rows
<1>4. ASSUME NEW c \in Callers, Interrupt(c) PROVE Parked(r)'
  <2>1. \A d \in Callers : Steady(d)
    BY <1>0, <1>4 DEF Interrupt, Return, Goto, Steady, Handling, RollingUp, IdleCall
  <2>2. \A e \in events' : e \in events \/ (caller[c].event # None /\ e = caller[c].event)
    BY <1>4 DEF Interrupt
  <2> QED BY <1>2, <1>4, <2>1, <2>2 DEF Interrupt, rows
<1>5. ASSUME NEW q \in Repos, DropSubmission(q) \/ Merge(q) \/ Observe(q) PROVE Parked(r)'
  BY <1>0, <1>1, <1>2, <1>5 DEF DropSubmission, Merge, Observe, Desk, rows
<1>6. ASSUME NEW q \in Repos, NEW t \in WorkerTask, WorkerReports(q, t) PROVE Parked(r)'
  <2>1. PICK s, tests : Report(q, t, s, tests)
    BY <1>6 DEF WorkerReports
  <2>2. UNCHANGED <<told, assignment, caller, desk, operator>> /\ told[q] # {}
    BY <2>1 DEF Report
  <2>3. CASE assignment[r].phase # "none"
    BY <1>0, <1>1, <2>2, <2>3, SteadyParked
  <2>4. CASE assignment[r].phase = "none"
    <3>1. q # r
      BY <1>0, <2>2, <2>4 DEF Parked, Untouched
    <3>2. worker'[r] = worker[r] /\ \A e \in events' : e \in events \/ e.repo = q
      BY <1>0, <2>1, <3>1 DEF Report
    <3> QED BY <1>0, <1>1, <2>2, <2>4, <3>1, <3>2, SteadyParked DEF Parked, Untouched, OfWorker
  <2> QED BY <2>3, <2>4
<1>7. CASE AppendBatch
  <2>1. \A d \in Callers : Alike(caller'[d], caller[d])
    BY <1>0, <1>7, OvertakenPlan DEF AppendBatch
  <2>2. \A d \in Callers : Steady(d)
    BY <2>1 DEF Alike, Steady
  <2> QED BY <1>2, <1>7, <2>2 DEF AppendBatch
<1> QED BY <1>3, <1>4, <1>5, <1>6, <1>7

\* Every step keeps the invariant.
LEMMA ReviewStep == ShapeInv /\ ReviewInv /\ [Next]_vars => ReviewInv'
<1> SUFFICES ASSUME ShapeInv, ReviewInv, [Next]_vars, NEW r \in LeaderSide PROVE Parked(r)'
  BY DEF ReviewInv
<1>0. r \in Repos /\ Parked(r)
  BY PlanAssumption DEF ReviewInv
<1>1. CASE UNCHANGED vars
  BY <1>0, <1>1 DEF vars, rows, Parked, Untouched, LeftToLeader
<1>2. ASSUME NEW c \in Callers, CallerStep(c) PROVE Parked(r)'
  BY <1>0, <1>2, HandlingParked, CallerParked
<1> QED BY <1>1, <1>2, DeskParked, OperatorParked, OthersParked DEF Next

\* It holds at the start.
LEMMA InitReview == Init => ReviewInv
BY PlanAssumption DEF Init, ReviewInv, Parked, Untouched, LeftToLeader, IdleCall, IdleDesk, IdleOperator

-----------------------------------------------------------------------------
(* Who ends the leader's task. *)

\* No call rolls it up, so its row changes by an assignment, a verdict or a redo.
LEMMA OnlyTheLeader ==
    ASSUME ShapeInv, ReviewInv, [Next]_vars, NEW r \in LeaderSide, leader'[r] # leader[r]
    PROVE  \/ leader[r] = "none"
           \/ /\ leader[r] \notin Final /\ desk[r].pc \in DOMAIN Reported
              /\ leader'[r] = Reported[desk[r].pc]
           \/ Entry(r, LeaderTask, TRUE) \in operator.tasks
<1>0. r \in Repos /\ Parked(r) /\ leader \in [Repos -> TaskStatus] /\ operator \in Dispatch
  BY PlanAssumption DEF ReviewInv, ShapeInv, RowShape
<1>1. ASSUME UNCHANGED leader PROVE FALSE
  BY <1>1
<1>2. CASE UNCHANGED vars
  BY <1>1, <1>2 DEF vars, rows
<1>3. ASSUME NEW c \in Callers, CallerStep(c) PROVE leader[r] = "none"
  <2>1. CASE RollUp(c)
    <3>1. caller[c].pc = "rollup" /\ caller[c].repo # r
      BY <1>0, <2>1 DEF RollUp, At, Parked, LeftToLeader
    <3>2. leader'[r] = leader[r]
      BY <1>0, <2>1, <3>1 DEF RollUp
    <3> QED BY <3>2
  <2>2. CASE AssignLeader(c)
    BY <1>0, <2>2 DEF AssignLeader
  <2>3. CASE ~RollUp(c) /\ ~AssignLeader(c)
    <3>1. CASE \/ TaskTerminal(c) \/ ListWorkers(c) \/ ReadLane(c) \/ OpenReview(c) \/ FindPlan(c)
               \/ Fail(c) \/ Reconsider(c) \/ Reopen(c) \/ Ready(c)
      BY <1>1, <3>1 DEF TaskTerminal, ListWorkers, ReadLane, OpenReview, FindPlan, Fail, Reconsider,
                        Reopen, Ready, rows
    <3>2. CASE \/ Deliver(c) \/ ClearRefusal(c) \/ Gate(c) \/ Settle(c) \/ Start(c)
               \/ RecordLeaders(c) \/ Decompose(c) \/ Park(c)
      BY <1>1, <3>2 DEF Deliver, ClearRefusal, Gate, Settle, Start, RecordLeaders, Decompose, Park,
                        rows
    <3> QED BY <1>3, <2>3, <3>1, <3>2 DEF CallerStep
  <2> QED BY <2>1, <2>2, <2>3
<1>4. ASSUME NEW q \in Repos, DeskStep(q)
      PROVE  /\ leader[r] \notin Final /\ desk[r].pc \in DOMAIN Reported
             /\ leader'[r] = Reported[desk[r].pc]
  <2>1. CASE ReportVerdict(q)
    <3>1. leader[q] \notin Final \ {Reported[desk[q].pc]} /\ SetLeader(q, Reported[desk[q].pc])
      BY <1>1, <2>1 DEF ReportVerdict
    <3>2. q = r /\ leader'[r] = Reported[desk[r].pc]
      BY <1>0, <3>1 DEF SetLeader
    <3> QED BY <2>1, <3>1, <3>2 DEF ReportVerdict
  <2>2. CASE ~ReportVerdict(q)
    BY <1>1, <1>4, <2>2 DEF DeskStep, SubmitPlan, DispatchTask, SavePlan, RequestRework, SaveRework,
                            Judge, CloseReview, rows
  <2> QED BY <2>1, <2>2
<1>5. CASE OperatorStep
  <2>1. CASE RedispatchTask
    <3>1. PICK x \in operator.tasks :
            x.task = LeaderTask /\ x.redo /\ SetLeader(x.repo, "assigned")
      BY <1>1, <2>1 DEF RedispatchTask
    <3>2. x.repo = r
      BY <1>0, <3>1 DEF SetLeader
    <3>3. x \in [repo : Repos, task : WorkerTask \cup {LeaderTask}, redo : BOOLEAN]
      BY <1>0 DEF Dispatch
    <3>4. x = Entry(r, LeaderTask, TRUE)
      BY <3>1, <3>2, <3>3 DEF Entry
    <3> QED BY <3>4
  <2>2. CASE ~RedispatchTask
    BY <1>1, <1>5, <2>2 DEF OperatorStep, HoldRound, ResetRound, rows
  <2> QED BY <2>1, <2>2
<1>6. CASE \/ \E c \in Callers : Resume(c) \/ Interrupt(c)
           \/ \E q \in Repos :
                 \/ DropSubmission(q) \/ Merge(q) \/ Observe(q)
                 \/ \E t \in WorkerTask : WorkerReports(q, t)
           \/ \E rerun \in BOOLEAN : Redispatch(rerun)
           \/ AppendBatch
  BY <1>1, <1>6 DEF Resume, Interrupt, DropSubmission, Merge, Observe, WorkerReports, Report,
                    Redispatch, AppendBatch, rows
<1> QED BY <1>2, <1>3, <1>4, <1>5, <1>6 DEF Next

-----------------------------------------------------------------------------
(* Theorem. *)

\* Leader mode: whatever lists, assignments and saves overlap, and however often rounds are
\* run again, the leader's task changes by its first assignment, by the leader's own verdict
\* on an open task, or by an operator's re-run.
THEOREM LeaderDecidesCorrect == Spec => LeaderDecides
<1>1. Init => IInv /\ ReviewInv
  BY InitIInv, InitReview
<1>2. IInv /\ ReviewInv /\ [Next]_vars => IInv' /\ ReviewInv'
  BY IInvStep, ReviewStep DEF IInv
<1>3. IInv /\ ReviewInv /\ [Next]_vars =>
        [\A r \in LeaderSide :
            leader'[r] # leader[r] =>
                \/ leader[r] = "none"
                \/ /\ leader[r] \notin Final /\ desk[r].pc \in DOMAIN Reported
                   /\ leader'[r] = Reported[desk[r].pc]
                \/ Entry(r, LeaderTask, TRUE) \in operator.tasks]_vars
  BY OnlyTheLeader DEF IInv
<1> QED BY <1>1, <1>2, <1>3, PTL DEF Spec, LeaderDecides
=============================================================================
